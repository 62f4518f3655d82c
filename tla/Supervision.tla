---------------------------- MODULE Supervision ----------------------------
(***************************************************************************)
(* Supervision of the agents of one ticket: the auditor                    *)
(* (services/agent_auditor.py), which finalizes an agent whose work is     *)
(* done and replaces one that makes no progress, and the stop, wake and    *)
(* restart calls of an operator (api/routes/agents.py), beside the gates   *)
(* of ApprovalGate.                                                        *)
(*                                                                         *)
(* An audit judges the rows it read at its start, one agent after the      *)
(* other; the loop and POST /audits/run may be in it at once, and every    *)
(* spawner looks for other agents first and inserts its own rows later.    *)
(***************************************************************************)
EXTENDS ApprovalGate

CONSTANTS
  Audits,     \* one is the loop, the others are POST /audits/run
  Loop,
  Operators,  \* open stop, wake and restart calls
  MaxRecovery \* MAX_RECOVERY_ATTEMPTS

ASSUME SupervisionAssumption ==
  /\ IsFiniteSet(Audits) /\ Loop \in Audits /\ MaxRecovery \in Nat
  /\ \A s \in Scenes : /\ s.audits \subseteq Audits /\ s.posts \in Nat
                       /\ s.orders \subseteq {"stop", "wake", "restart"} /\ s.given \in Nat
                       /\ s.faults \in Nat /\ {s.hangs, s.recovers} \subseteq BOOLEAN

VARIABLES
  audit,      \* the passes of audit_once: [pc, at, seen, tries, todo]
  attempts,   \* agents.attempts
  order,      \* the operator's calls: [pc, call, agent, barred]
  spent,      \* [posts, given, faults] so far
  replaced,   \* how often an agent was replaced by the auditor
  finalized,  \* the agents finalized from terminal evidence
  unsettled,  \* agents whose evidence changed, or was not there, when their runner looked for it
  raced       \* two spawners were past their look for other agents, or one took no look

supVars == <<audit, attempts, order, spent, replaced, finalized, unsettled, raced>>
allVars == <<vars, supVars>>

AuditPcs == {"idle", "sweep", "close", "others", "pending", "recover", "resolve",
             "finishTask", "finishAgent", "kill", "judge", "look", "spawn", "count"}
OrderPcs == {"idle", "task", "kill", "stopTask", "stopAgent", "reassign", "spawn"}

Unseen == [a \in Agents |-> "absent"]
Untried == [a \in Agents |-> 0]
NoAudit == [pc |-> "idle", at |-> NoAgent, seen |-> Unseen, tries |-> Untried, todo |-> {}]
NoOrder == [pc |-> "idle", call |-> "stop", agent |-> NoAgent, barred |-> FALSE]

Ticket == <<change, access, leases, request, calls>>
Tally == <<attempts, spent, replaced, finalized, unsettled>>

\* The end of the process, as its runner will see it: a checkpoint may be there.
LeftRunning(a) == UNCHANGED runner \* mutant: only the rows are written
Killed(a) == IF runner[a].pc \in Alive THEN Exits(a) ELSE UNCHANGED runner
Attended(a) == runner[a].pc \notin {"none", "ended"}

-----------------------------------------------------------------------------
(* audit_once                                                              *)

\* The newest of the agents that are left.  A failed or waiting task only gets a review.
Turn(pass) ==
  LET left == {a \in Agents : pass.seen[a] # "absent"}
      a == CHOOSE b \in left : \A c \in left : c <= b
      rest == [pass.seen EXCEPT ![a] = "absent"] IN
  IF left = {} THEN NoAudit
  ELSE [pass EXCEPT !.pc = IF pass.seen[a] = "completed" THEN "sweep" ELSE "others",
                    !.at = a, !.seen = rest, !.todo = {},
                    !.tries = [b \in Agents |-> IF b = a \/ rest[b] = "active" THEN @[b] ELSE 0]]

Proceed(p, pc) == audit' = [audit EXCEPT ![p].pc = pc]
NextAgent(p) == audit' = [audit EXCEPT ![p] = Turn(@)]

\* A completed task without a gate of its own has nothing left to sweep.
Judged(a) ==
  CASE task[a] = "active" -> "active"
    [] task[a] = "completed" /\ \E c \in Changes : change[c].agent = a -> "completed"
    [] OTHER -> "absent"

AuditStarts(p) ==
  /\ audit[p].pc = "idle" /\ p \in scene.audits
  /\ IF p = Loop THEN UNCHANGED spent
     ELSE spent.posts < scene.posts /\ spent' = [spent EXCEPT !.posts = @ + 1]
  /\ audit' = [audit EXCEPT ![p] = Turn([NoAudit EXCEPT
       !.seen = [a \in Agents |-> Judged(a)], !.tries = attempts])]
  /\ UNCHANGED <<task, agent, runner, Ticket, desk, order, attempts, replaced, finalized, unsettled>>

\* complete_approved_changes_for_task
AuditSweeps(p) ==
  LET todo == SweepOf(audit[p].at) IN
  /\ audit[p].pc = "sweep"
  /\ IF todo = {} THEN NextAgent(p)
     ELSE audit' = [audit EXCEPT ![p].pc = "close", ![p].todo = todo]
  /\ UNCHANGED <<task, agent, runner, Ticket, desk, order, Tally>>

AuditCloses(p) ==
  /\ audit[p].pc = "close"
  /\ \E c \in audit[p].todo :
       LET rest == audit[p].todo \ {c} IN
       /\ change' = Closed(c)
       /\ IF rest = {} THEN NextAgent(p) ELSE audit' = [audit EXCEPT ![p].todo = rest]
  /\ FinalNote
  /\ UNCHANGED <<task, agent, runner, access, leases, request, calls, scene, ticket, learned, order, Tally>>

\* _ticket_has_other_active_agent looks at the rows of agents only.
OtherActive(a) == \E b \in Agents \ {a} : agent[b] = "active"

AuditSeesOthers(p) ==
  /\ audit[p].pc = "others"
  /\ IF OtherActive(audit[p].at) THEN NextAgent(p) ELSE Proceed(p, "pending")
  /\ UNCHANGED <<task, agent, runner, Ticket, desk, order, Tally>>

\* _has_pending_approval
AuditSeesPending(p) ==
  /\ audit[p].pc = "pending"
  /\ IF \E c \in Changes : change[c].status = "pending"
       THEN NextAgent(p) ELSE Proceed(p, "recover")
  /\ UNCHANGED <<task, agent, runner, Ticket, desk, order, Tally>>

\* recover_completed_ticket_resolution
AuditRecovers(p) ==
  LET a == audit[p].at IN
  /\ audit[p].pc = "recover"
  /\ Proceed(p, CASE ~(task[a] = "active" /\ TerminalEvidence(a) /\ CanAutoresolve(a)) -> "judge"
                  [] OTHER -> IF ticket = "resolved" THEN "finishTask" ELSE "resolve")
  /\ UNCHANGED <<task, agent, runner, Ticket, desk, order, Tally>>

AuditResolves(p) ==
  /\ audit[p].pc = "resolve"
  /\ TicketResolved
  /\ Proceed(p, "finishTask")
  /\ UNCHANGED <<task, agent, runner, Ticket, order, Tally>>

AuditFinishesTask(p) ==
  LET a == audit[p].at IN
  /\ audit[p].pc = "finishTask"
  /\ task' = [task EXCEPT ![a] = "completed"]
  /\ finalized' = finalized \cup {a}
  /\ unsettled' = IF runner[a].pc \in Alive THEN unsettled ELSE unsettled \cup {a}
  /\ Proceed(p, "finishAgent")
  /\ UNCHANGED <<agent, runner, Ticket, desk, order, attempts, spent, replaced>>

AuditFinishesAgent(p) ==
  /\ audit[p].pc = "finishAgent"
  /\ agent' = [agent EXCEPT ![audit[p].at] = "completed"]
  /\ FinalNote
  /\ Proceed(p, "kill")
  /\ UNCHANGED <<task, runner, Ticket, scene, ticket, learned, order, Tally>>

\* A process that has exited under its runner cannot be signalled: the pass ends there.
AuditKills(p) ==
  LET a == audit[p].at IN
  /\ audit[p].pc = "kill"
  /\ Killed(a)
  /\ IF runner[a].pc \in Alive \/ ~Attended(a)
       THEN NextAgent(p) ELSE audit' = [audit EXCEPT ![p] = NoAudit]
  /\ UNCHANGED <<task, agent, Ticket, desk, order, Tally>>

\* Any task may look as if it made no progress; AUTO_RECOVER is off unless asked for.
AuditJudges(p) ==
  /\ audit[p].pc = "judge"
  /\ \/ NextAgent(p)
     \/ scene.recovers /\ Proceed(p, "look")
  /\ UNCHANGED <<task, agent, runner, Ticket, desk, order, Tally>>

OneTooMany(p) == ~OtherActive(audit[p].at) /\ audit[p].tries[audit[p].at] <= MaxRecovery \* mutant
\* _spawn_replacement: the attempts are those the pass read at its start.
MaySpawn(p) == ~OtherActive(audit[p].at) /\ audit[p].tries[audit[p].at] < MaxRecovery

AuditLooks(p) ==
  /\ audit[p].pc = "look"
  /\ IF MaySpawn(p) THEN Proceed(p, "spawn") ELSE NextAgent(p)
  /\ UNCHANGED <<task, agent, runner, Ticket, desk, order, Tally>>

AuditSpawns(p) ==
  /\ audit[p].pc = "spawn"
  /\ SpawnRows /\ FinalNote
  /\ runner' = [runner EXCEPT ![Newcomer].pc = "working"]
  /\ replaced' = [replaced EXCEPT ![audit[p].at] = @ + 1]
  /\ Proceed(p, "count")
  /\ UNCHANGED <<Ticket, order, attempts, spent, finalized, unsettled>>

CountsTwice(p) == \* mutant
  /\ audit[p].pc = "count"
  /\ attempts' = [attempts EXCEPT ![audit[p].at] = @ + 2]
  /\ NextAgent(p)
  /\ UNCHANGED <<task, agent, runner, Ticket, desk, order, spent, replaced, finalized, unsettled>>

AuditCounts(p) ==
  /\ audit[p].pc = "count"
  /\ attempts' = [attempts EXCEPT ![audit[p].at] = @ + 1]
  /\ NextAgent(p)
  /\ UNCHANGED <<task, agent, runner, Ticket, desk, order, spent, replaced, finalized, unsettled>>

\* A statement fails: the loop waits for its next turn, the POST answers an error.
AuditFails(p) ==
  /\ audit[p].pc # "idle" /\ spent.faults < scene.faults
  /\ spent' = [spent EXCEPT !.faults = @ + 1]
  /\ audit' = [audit EXCEPT ![p] = NoAudit]
  /\ UNCHANGED <<task, agent, runner, Ticket, desk, order, attempts, replaced, finalized, unsettled>>

Audit(p) ==
  \/ AuditStarts(p) \/ AuditSweeps(p) \/ AuditCloses(p) \/ AuditSeesOthers(p) \/ AuditSeesPending(p)
  \/ AuditRecovers(p) \/ AuditResolves(p) \/ AuditFinishesTask(p) \/ AuditFinishesAgent(p)
  \/ AuditKills(p) \/ AuditJudges(p) \/ AuditLooks(p) \/ AuditSpawns(p) \/ AuditCounts(p)

-----------------------------------------------------------------------------
(* stop_agent, wake_agent and restart_agent                                *)

Continue(o, pc) == order' = [order EXCEPT ![o].pc = pc]
Answer(o) == order' = [order EXCEPT ![o] = NoOrder]

\* The row of the agent is read before that of its task.
Order(o) ==
  /\ order[o].pc = "idle" /\ spent.given < scene.given
  /\ spent' = [spent EXCEPT !.given = @ + 1]
  /\ \E a \in Existing, call \in scene.orders :
       order' = [order EXCEPT ![o] = [pc |-> "task", call |-> call, agent |-> a,
                                      barred |-> call = "wake" /\ agent[a] = "stopped"]]
  /\ UNCHANGED <<task, agent, runner, Ticket, desk, audit, attempts, replaced, finalized, unsettled>>

ReadTask(o) ==
  LET active == task[order[o].agent] = "active" IN
  /\ order[o].pc = "task"
  /\ CASE order[o].call = "wake" /\ (active \/ order[o].barred) -> Answer(o)
       [] order[o].call = "wake" /\ ~(active \/ order[o].barred) -> Continue(o, "spawn")
       [] OTHER -> Continue(o, IF active THEN "kill" ELSE "stopAgent")
  /\ UNCHANGED <<task, agent, runner, Ticket, desk, audit, Tally>>

StopProcess(o) ==
  /\ order[o].pc = "kill"
  /\ Killed(order[o].agent)
  /\ Continue(o, "stopTask")
  /\ UNCHANGED <<task, agent, Ticket, desk, audit, Tally>>

StopTask(o) ==
  /\ order[o].pc = "stopTask"
  /\ task' = [task EXCEPT ![order[o].agent] = "stopped"]
  /\ Continue(o, "stopAgent")
  /\ UNCHANGED <<agent, runner, Ticket, desk, audit, Tally>>

StopAgent(o) ==
  /\ order[o].pc = "stopAgent"
  /\ agent' = [agent EXCEPT ![order[o].agent] = "stopped"]
  /\ Continue(o, IF order[o].call = "stop" THEN "reassign" ELSE "spawn")
  /\ UNCHANGED <<task, runner, Ticket, desk, audit, Tally>>

\* The ticket goes to another active agent, if it was this agent's.
Reassign(o) ==
  /\ order[o].pc = "reassign"
  /\ ticket' \in {ticket} \cup {s \in {"progress"} : OtherActive(order[o].agent)}
  /\ Answer(o)
  /\ UNCHANGED <<task, agent, runner, Ticket, scene, noted, learned, audit, Tally>>

SpawnAgain(o) ==
  /\ order[o].pc = "spawn"
  /\ SpawnRows /\ FinalNote
  /\ runner' = [runner EXCEPT ![Newcomer].pc = "working"]
  /\ Answer(o)
  /\ UNCHANGED <<Ticket, audit, Tally>>

Obey(o) ==
  ReadTask(o) \/ StopProcess(o) \/ StopTask(o) \/ StopAgent(o) \/ Reassign(o) \/ SpawnAgain(o)

-----------------------------------------------------------------------------
(* The ticket under supervision.                                           *)

\* A harness may go on without getting anywhere.
Hang(a) ==
  /\ scene.hangs /\ AtWork(a)
  /\ Goto(a, "hung")
  /\ UNCHANGED <<task, agent, Ticket, desk, audit, order, Tally>>

\* A gate that moves takes the evidence away from an agent that is being finalized.
Finalizing == {audit[p].at : p \in {q \in Audits : audit[q].pc \in {"resolve", "finishTask"}}}
GatesMove ==
  \E c \in Changes : change'[c].status \notin {change[c].status, "completed"}

GateStep ==
  /\ Next
  /\ UNCHANGED <<audit, attempts, order, spent, replaced, finalized>>
  /\ unsettled' = IF GatesMove
       THEN unsettled \cup {a \in finalized \cup Finalizing : runner[a].pc # "ended"} ELSE unsettled

Supervise ==
  \/ \E a \in Agents : Hang(a)
  \/ \E p \in Audits : Audit(p) \/ AuditFails(p)
  \/ \E o \in Operators : Order(o) \/ Obey(o)

\* Two spawners are past their look for other agents: two approvals, or any two of which
\* one is the auditor, an operator's call, or the runner of an agent whose task was ended
\* under it: the row of its own task is what holds an approval back while a runner
\* continues the agent.
Spawning(pcs, pc) == {x \in DOMAIN pcs : pcs[x].pc = pc}
Approvers == {"request"} \X Spawning(request, "resumeSpawn")
Continuers == {"runner"} \X Spawning(runner, "spawn")
Unlocked == {x \in Continuers : task[x[2]] # "active"}
Supervisors == ({"audit"} \X Spawning(audit, "spawn")) \cup ({"order"} \X Spawning(order, "spawn"))
Overlap ==
  \/ \E x, y \in Approvers : x # y
  \/ \E x \in Supervisors \cup Unlocked, y \in Supervisors \cup Continuers \cup Approvers : x # y
\* An operator's call takes no look.
Beside ==
  \E o \in Operators : /\ order[o].pc = "spawn" /\ order'[o].pc # "spawn"
                       /\ \E a \in Agents : agent[a] = "active"

SupInit ==
  /\ Init
  /\ audit = [p \in Audits |-> NoAudit]
  /\ attempts = Untried
  /\ order = [o \in Operators |-> NoOrder]
  /\ spent = [posts |-> 0, given |-> 0, faults |-> 0]
  /\ replaced = Untried
  /\ finalized = {} /\ unsettled = {} /\ raced = FALSE

SupNext ==
  /\ GateStep \/ Supervise
  /\ raced' = (raced \/ Overlap' \/ Beside)

SupSpec == SupInit /\ [][SupNext]_allVars

\* As for the gates; the loop comes round for ever.
FairSupSpec ==
  /\ SupSpec
  /\ \A a \in Agents : WF_runner(Finish(a)) /\ WF_runner(AgentExits(a))
  /\ \A r \in Requests : WF_request(Handle(r))
  /\ \A o \in Operators : WF_order(Obey(o))
  /\ WF_audit(Audit(Loop))

-----------------------------------------------------------------------------
(* Properties.                                                             *)

\* The types of the gates, the passes and the calls; a pass is at an agent of the ticket,
\* and counts a replacement after it has spawned one.
SupervisionTypeOK ==
  /\ GateTypeOK
  /\ audit \in [Audits -> [pc : AuditPcs, at : Agents \cup {NoAgent},
       seen : [Agents -> {"absent", "active", "completed"}], tries : [Agents -> Nat],
       todo : SUBSET Changes]]
  /\ \A p \in Audits : audit[p].pc # "idle" => audit[p].at \in Existing
  /\ order \in [Operators -> [pc : OrderPcs, call : {"stop", "wake", "restart"},
       agent : Agents \cup {NoAgent}, barred : BOOLEAN]]
  /\ attempts \in [Agents -> Nat] /\ replaced \in [Agents -> Nat]
  /\ \A a \in Agents : attempts[a] <= replaced[a]
  /\ finalized \subseteq Existing /\ unsettled \subseteq Existing /\ raced \in BOOLEAN

\* The ticket has one agent at work: an approval and a stale wait do not both give it a
\* continuation, a second gate finds the first one, and an audit finds either; unless
\* two approvals, or an audit or an operator's call and another spawner, overlap between
\* their look for other agents and their insert, or such a call ends the task whose row
\* keeps an approval away from a runner, or spawns beside an agent at work.  An agent
\* that the auditor has replaced is left at work beside its replacement.
OneAgentAtWork ==
  \A a, b \in Agents :
    /\ {runner[a].pc, runner[b].pc} \subseteq Alive
    /\ task[a] = "active" /\ task[b] = "active"
    => a = b \/ raced \/ replaced[a] + replaced[b] > 0

\* The auditor replaces an agent MAX_RECOVERY_ATTEMPTS times, and once more for every
\* pass beside the loop's and for every failure between the spawn and the count.
ReplacementsBounded ==
  \A a \in Agents :
    replaced[a] <= MaxRecovery + Cardinality(scene.audits \ {Loop}) + spent.faults

\* Work that was finalized stays so: the runner, which sees the process die on a signal
\* later, does not record it as failed.  Unless the evidence was not there when it
\* looked: a gate moved in between, or the runner had already looked.  A wait checkpoint
\* still wins.
FinalizedStays ==
  \A a \in finalized \ unsettled :
    runner[a].pc = "ended" /\ runner[a].outcome # "waiting" => task[a] \in {"completed", "stopped"}

\* A harness that goes on after its work is done does not hold its lane: the auditor
\* ends it, as long as no other agent of the ticket is at work, the evidence stands and
\* no pass fails (one that fails after the row of the task is written never comes back).
FreedWhenDone ==
  \A a \in Agents :
    runner[a].pc = "hung" /\ TerminalEvidence(a) /\ CanAutoresolve(a)
      ~> \/ runner[a].pc # "hung" \/ OtherActive(a) \/ spent.faults > 0
         \/ ~TerminalEvidence(a) \/ ~CanAutoresolve(a)
=============================================================================
