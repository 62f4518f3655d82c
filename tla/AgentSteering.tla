--------------------------- MODULE AgentSteering ---------------------------
(***************************************************************************)
(* The steering inbox (api/services/agent_steering.py): notes on a ticket  *)
(* reach the agents at work on it without stopping them.  Recording a note *)
(* makes one row of agent_steering_events per active agent and delivers:   *)
(* the open rows are read, the inbox file of the agent's work directory is *)
(* replaced by them, and the pending ones are marked delivered.  A spawn   *)
(* delivers once too, before the work directory is known to anybody else.  *)
(*                                                                         *)
(* Nothing else delivers.  The calls that do run beside each other, beside *)
(* the agent that reads the file and acknowledges rows, and may be cut off *)
(* by a failing call of the database or a restart of the API.              *)
(***************************************************************************)
EXTENDS Naturals, Sequences, FiniteSets

CONSTANTS
  Agents,        \* the agents spawned on the ticket, each with its task
  Notes,         \* the notes that steer, numbered in the order in which their
                 \* recordings begin
  Casts,         \* who takes part: the agents at work from the start, those that may be
                 \* spawned, the notes, and how often a call fails or the API restarts:
                 \* [working, spawned, notes, faults, crashes]
  InboxLimit     \* rows that a delivery reads (50)

ASSUME SteeringAssumption ==
  /\ IsFiniteSet(Agents) /\ IsFiniteSet(Notes) /\ Notes \subseteq Nat /\ Agents \cap Notes = {}
  /\ \A c \in Casts : c.working \cup c.spawned \subseteq Agents /\ c.notes \subseteq Notes
  /\ \A c \in Casts : {c.faults, c.crashes} \subseteq Nat
  /\ InboxLimit \in Nat \ {0}

VARIABLES
  cast,      \* one of Casts
  task,      \* the rows of agent and task: none, active, ended; is work_dir set?
  event,     \* the rows of agent_steering_events, oldest first
  inbox,     \* the rows in agent_steering_inbox.json of each agent
  shown,     \* the rows that were in the inbox at some time: the agent may have read them
  call,      \* one coroutine per agent (its spawn) and per note (its recording)
  spent,     \* faults and crashes so far
  missed,    \* rows that the delivery meant for them left out, or that had none
  crossed,   \* deliveries that overlapped with another one between reading and
             \* writing, or read a row that came back after its acknowledgement
  stale,     \* agents whose inbox was last written by such a delivery
  acked      \* rows acknowledged at some time

history == <<missed, crossed, stale, acked>>
vars == <<cast, task, event, inbox, shown, call, spent, history>>

Callers == Agents \cup Notes
Open == {"pending", "delivered"}
NoTask == [status |-> "none", dir |-> FALSE]
NoCall == [pc |-> "new", todo |-> {}, dirs |-> {}, agent |-> {}, batch |-> {}, fresh |-> {}]

RowsOf(a, statuses) == {e \in DOMAIN event : event[e].agent = a /\ event[e].status \in statuses}
Pending(a) == RowsOf(a, {"pending"})

-----------------------------------------------------------------------------
(* Delivery.  call[c].agent is the set of the one agent that c delivers to, *)
(* empty between two of them.                                              *)

For(c, a) == call[c].agent = {a}

\* A recording goes on with the next agent, a spawn with its own row.
Then(c, rest) ==
  [NoCall EXCEPT !.pc = IF c \in Agents THEN "row" ELSE IF rest = {} THEN "done" ELSE "record",
                 !.todo = rest, !.dirs = call[c].dirs]

\* ORDER BY created_at, id LIMIT 50.
Oldest(rows) == {e \in rows : Cardinality({d \in rows : d < e}) < InboxLimit}

Select(c, a) ==
  /\ call[c].pc = "select" /\ For(c, a)
  /\ LET batch == Oldest(RowsOf(a, Open))
         others == {d \in Callers \ {c} : call[d].pc = "write" /\ For(d, a)} IN
     /\ call' = [call EXCEPT ![c] = IF batch = {} THEN Then(c, @.todo \ {a})
                                    ELSE [@ EXCEPT !.pc = "write", !.batch = batch,
                                                   !.fresh = batch \cap Pending(a)]]
     /\ missed' = missed \cup (Pending(a) \ batch)
     /\ crossed' = IF others = {} /\ batch \cap acked = {} THEN crossed \ {c}
                    ELSE crossed \cup others \cup {c}
  /\ UNCHANGED <<cast, task, event, inbox, shown, spent, stale, acked>>

\* write_inbox_files; no await between it and the request of the update.
WriteInbox(c, a) ==
  /\ call[c].pc = "write" /\ For(c, a)
  /\ inbox' = [inbox EXCEPT ![a] = call[c].batch]
  /\ shown' = [shown EXCEPT ![a] = @ \cup call[c].batch]
  /\ stale' = IF c \in crossed THEN stale \cup {a} ELSE stale \ {a}
  /\ call' = [call EXCEPT ![c] = IF @.fresh = {} THEN Then(c, @.todo \ {a}) ELSE [@ EXCEPT !.pc = "mark"]]
  /\ UNCHANGED <<cast, task, event, spent, missed, crossed, acked>>

\* The update asks for the ids alone.
MarkedByAgent(e, c) == \* mutant: every pending row of the agent is marked
  event[e].agent \in call[c].agent /\ event[e].status = "pending"
Marked(e, c) == e \in call[c].fresh
MarkDelivered(c, a) ==
  /\ call[c].pc = "mark" /\ For(c, a)
  /\ event' = [e \in DOMAIN event |->
                 IF Marked(e, c) THEN [event[e] EXCEPT !.status = "delivered"] ELSE event[e]]
  /\ call' = [call EXCEPT ![c] = Then(c, @.todo \ {a})]
  /\ UNCHANGED <<cast, task, inbox, shown, spent, history>>

-----------------------------------------------------------------------------
(* The spawn of an agent.                                                  *)

SpawnAgent(a) ==
  /\ a \in cast.spawned \ cast.working /\ call[a].pc = "new"
  /\ task' = [task EXCEPT ![a].status = "active"]
  /\ call' = [call EXCEPT ![a].pc = "provision"]
  /\ UNCHANGED <<cast, event, inbox, shown, spent, history>>

InitializeEmpty(a) == \* mutant: a new inbox is made without a delivery
  /\ call[a].pc = "provision"
  /\ inbox' = [inbox EXCEPT ![a] = {}]
  /\ call' = [call EXCEPT ![a].pc = "row"]
  /\ UNCHANGED <<cast, task, event, shown, spent, history>>

\* initialize_agent_inbox: an empty inbox, then a delivery.
InitializeInbox(a) ==
  /\ call[a].pc = "provision"
  /\ inbox' = [inbox EXCEPT ![a] = {}]
  /\ call' = [call EXCEPT ![a].pc = "select", ![a].agent = {a}]
  /\ UNCHANGED <<cast, task, event, shown, spent, history>>

\* spawn_agent: the work directory gets into the row, and the task can run.
SaveWorkDir(a) ==
  /\ call[a].pc = "row"
  /\ task' = [task EXCEPT ![a].dir = TRUE]
  /\ call' = [call EXCEPT ![a].pc = "done"]
  /\ UNCHANGED <<cast, event, inbox, shown, spent, history>>

-----------------------------------------------------------------------------
(* The recording of a note.                                                *)

\* _active_agent_tasks.
ReadActive(n) ==
  /\ n \in cast.notes /\ call[n].pc = "new"
  /\ \A m \in cast.notes : m < n => call[m].pc # "new"
  /\ LET active == {a \in Agents : task[a].status = "active"} IN
     call' = [call EXCEPT ![n] = [Then(n, active) EXCEPT !.dirs = {a \in active : task[a].dir}]]
  /\ UNCHANGED <<cast, task, event, inbox, shown, spent, history>>

\* The spawn has still to read the rows it will deliver.
WillDeliver(a) == call[a].pc \in {"provision", "select"}

\* One agent of the loop; without a work directory in the row that was read there
\* is nothing to write.
InsertEvent(n, a) ==
  /\ call[n].pc = "record" /\ a \in call[n].todo
  /\ event' = Append(event, [agent |-> a, note |-> n, status |-> "pending"])
  /\ call' = [call EXCEPT ![n] = IF a \in @.dirs THEN [@ EXCEPT !.pc = "select", !.agent = {a}]
                                 ELSE Then(n, @.todo \ {a})]
  /\ missed' = IF a \in call[n].dirs \/ WillDeliver(a) THEN missed ELSE missed \cup {Len(event) + 1}
  /\ UNCHANGED <<cast, task, inbox, shown, spent, crossed, stale, acked>>

-----------------------------------------------------------------------------
(* The agent.                                                              *)

Runs(a) == task[a].status = "active" /\ task[a].dir

\* acknowledge: an update by the id of a row it has read in its inbox.
Acknowledge(a, e) ==
  /\ Runs(a) /\ e \in shown[a] /\ event[e].status # "acknowledged"
  /\ event' = [event EXCEPT ![e].status = "acknowledged"]
  /\ acked' = acked \cup {e}
  /\ UNCHANGED <<cast, task, inbox, shown, call, spent, missed, crossed, stale>>

AgentEnds(a) ==
  /\ Runs(a)
  /\ task' = [task EXCEPT ![a].status = "ended"]
  /\ UNCHANGED <<cast, event, inbox, shown, call, spent, history>>

-----------------------------------------------------------------------------
(* Failures.                                                               *)

\* A call of the database that raises: add_note ends the recording, provisioning
\* goes on without the inbox, and spawn_agent raises.
Raises(c) == call[c].pc \in {"provision", "row"}
Fails(c) ==
  /\ spent.faults < cast.faults /\ call[c].pc \in {"provision", "record", "select", "mark", "row"}
  /\ spent' = [spent EXCEPT !.faults = @ + 1]
  /\ call' = [call EXCEPT ![c] = IF Raises(c) THEN [@ EXCEPT !.pc = "done"] ELSE Then(c, {})]
  /\ missed' = missed \cup UNION {Pending(a) : a \in call[c].agent \cup ({c} \cap Agents)}
  /\ UNCHANGED <<cast, task, event, inbox, shown, crossed, stale, acked>>

\* The API process restarts; the rows and the files stay.
Crash ==
  /\ spent.crashes < cast.crashes
  /\ spent' = [spent EXCEPT !.crashes = @ + 1]
  /\ call' = [c \in Callers |-> IF call[c].pc = "new" THEN call[c] ELSE [NoCall EXCEPT !.pc = "done"]]
  /\ missed' = missed \cup UNION {Pending(a) : a \in Agents}
  /\ UNCHANGED <<cast, task, event, inbox, shown, crossed, stale, acked>>

-----------------------------------------------------------------------------
Init ==
  /\ cast \in Casts
  /\ task = [a \in Agents |-> IF a \in cast.working THEN [status |-> "active", dir |-> TRUE] ELSE NoTask]
  /\ event = <<>>
  /\ inbox = [a \in Agents |-> {}] /\ shown = [a \in Agents |-> {}]
  /\ call = [c \in Callers |-> IF c \in cast.working THEN [NoCall EXCEPT !.pc = "done"] ELSE NoCall]
  /\ spent = [faults |-> 0, crashes |-> 0]
  /\ missed = {} /\ crossed = {} /\ stale = {} /\ acked = {}

Deliver(c, a) == Select(c, a) \/ WriteInbox(c, a) \/ MarkDelivered(c, a)

\* A call that has begun goes on.
GoesOn(c) ==
  \/ \E a \in Agents : Deliver(c, a)
  \/ c \in Agents /\ (InitializeInbox(c) \/ SaveWorkDir(c))
  \/ c \in Notes /\ \E a \in Agents : InsertEvent(c, a)

Next ==
  \/ \E a \in Agents : SpawnAgent(a) \/ AgentEnds(a)
  \/ \E a \in Agents : \E e \in shown[a] : Acknowledge(a, e)
  \/ \E n \in Notes : ReadActive(n)
  \/ \E c \in Callers : GoesOn(c) \/ Fails(c)
  \/ Crash

Spec == Init /\ [][Next]_vars

\* The event loop runs every coroutine that can go on.
FairSpec == Spec /\ \A c \in Callers : WF_vars(GoesOn(c))

-----------------------------------------------------------------------------
\* An update shown as delivered is in the file the agent reads for as long as the agent
\* has not acknowledged it, however many deliveries replaced the file since, unless
\* the last of them overlapped with another or had a row whose acknowledgement was lost.
DeliveredIsInInbox ==
  \A e \in DOMAIN event :
    event[e].status = "delivered" /\ e \notin acked
      => e \in inbox[event[e].agent] \/ event[e].agent \in stale

\* An update recorded for an agent gets into its inbox, if not by its own call then by
\* the spawn of the agent.  It does not when it came between the spawn's delivery and
\* the row's work directory, when the inbox was full, or when the delivery failed.
Waiting(e) == e \in DOMAIN event \ missed /\ event[e].status = "pending"
UpdatesArrive ==
  \A e \in 1..(Cardinality(Agents) * Cardinality(Notes)) : Waiting(e) ~> ~Waiting(e)
=============================================================================
