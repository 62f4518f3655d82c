----------------------------- MODULE TicketSync -----------------------------
(***************************************************************************)
(* The desk of TicketReply beside the ticket provider (api/services/       *)
(* itop_sync.py): a loop that discovers new objects and every so often     *)
(* refreshes all of them, refreshes on demand, the creation of provider    *)
(* objects for local tickets and their closing, and the agents that a RACI *)
(* rule puts on new tickets (api/services/auto_assignment.py).             *)
(*                                                                         *)
(* The provider knows nothing of the dashboard's ids: a row belongs to the *)
(* object whose key it carries, and each side learns of the other through  *)
(* requests that may fail, also after they took effect.                    *)
(***************************************************************************)
EXTENDS TicketReply

CONSTANTS
  Loop,        \* the sync_loop coroutine
  MaxObjects,  \* bound on the provider's objects, for liveness
  FullEvery,   \* FULL_SYNC_INTERVAL // DISCOVERY_INTERVAL
  MaxActive    \* AUTO_ASSIGNMENT_MAX_ACTIVE_PER_RULE

\* A scene also says how many objects the provider has, how many people create, which
\* states they move them to, and how many requests and processes fail.
ASSUME SyncAssumption ==
  /\ Loop \in Jobs /\ {FullEvery, MaxActive} \subseteq Nat \ {0}
  /\ \A s \in Scenes :
       /\ {s.known, s.people, s.faults, s.crashes} \subseteq Nat /\ s.moves \subseteq Status
       /\ s.orders[Loop].op \in {"loop", "none"}
       /\ \A j, k \in DOMAIN s.tickets :
            /\ s.tickets[k].ref <= s.known
            /\ s.tickets[j].ref = s.tickets[k].ref /\ s.tickets[k].ref # 0 => j = k

VARIABLES
  object,   \* the provider's objects in the order of their keys: the state, the ticket each
            \* was created for (0 for none), whether that ticket's row has its key already,
            \* and whether another row got it before
  maxKey,   \* the file of the highest key seen
  sync,     \* of each syncing coroutine: the keys to do, the object read, the phase
  rushed,   \* two automatic assignments overlapped between the count and the spawn
  mishaps   \* [people, faults, crashes] so far

provVars == <<object, maxKey, sync, rushed, mishaps>>
vars == <<deskVars, provVars>>

Automatic(o) == o \in {"loop", "refresh", "create"}
NoSync == [todo |-> {}, key |-> 0, got |-> None, active |-> FALSE, phase |-> None, max |-> 0, rounds |-> 0]
Keys == DOMAIN object
RowOf(n) == {k \in DOMAIN ticket : ticket[k].ref = n}

Fault == mishaps.faults < scene.faults /\ mishaps' = [mishaps EXCEPT !.faults = @ + 1]
Calm == UNCHANGED mishaps
Fresh(status, k) == [status |-> status, maker |-> k, linked |-> k = 0, early |-> FALSE]

-----------------------------------------------------------------------------
(* People at the provider.                                                 *)

PersonCreates ==
  /\ mishaps.people < scene.people
  /\ object' = Append(object, Fresh("new", 0))
  /\ mishaps' = [mishaps EXCEPT !.people = @ + 1]
  /\ UNCHANGED <<deskVars, maxKey, sync, rushed>>

PersonMoves(n) ==
  /\ \E status \in scene.moves :
       /\ <<object[n].status, status>> \in {<<"new", "assigned">>, <<"assigned", "resolved">>}
       /\ object' = [object EXCEPT ![n].status = status]
  /\ UNCHANGED <<deskVars, maxKey, sync, rushed, mishaps>>

-----------------------------------------------------------------------------
(* sync_loop, discover_new and full_sync.                                  *)

\* The loop is started once; without a connection it returns for good.
Boot ==
  /\ job[Loop].pc = "new" /\ op(Loop) = "loop"
  /\ \/ Goto(Loop, "full") /\ Calm
     \/ Fault /\ Goto(Loop, "gone")
  /\ UNCHANGED <<scene, rows, raced, closed, object, maxKey, sync, rushed>>

\* POST /api/tickets/{id}/sync and /sync-all.
Refresh(s) ==
  /\ job[s].pc = "new" /\ op(s) = "refresh" /\ scene.orders[s].ticket \in DOMAIN ticket
  /\ LET n == ticket[scene.orders[s].ticket].ref IN
       /\ sync' = [sync EXCEPT ![s].todo = {n} \ {0}, ![s].phase = "refresh"]
       /\ Goto(s, "next")
  /\ UNCHANGED <<scene, rows, raced, closed, object, maxKey, rushed, mishaps>>

LoadMax(s) ==
  /\ job[s].pc \in {"discover", "full"} \/ (job[s].pc = "new" /\ op(s) = "syncAll")
  /\ LET phase == IF job[s].pc = "discover" THEN "discover" ELSE "full" IN
       sync' = [sync EXCEPT ![s].max = maxKey, ![s].phase = phase]
  /\ Goto(s, "list")
  /\ UNCHANGED <<scene, rows, raced, closed, object, maxKey, rushed, mishaps>>

OnlyNew(s) == {n \in Keys : n > maxKey} \* mutant: the refresh trusts the file too
Listed(s) == IF sync[s].phase = "full" THEN Keys ELSE {n \in Keys : n > sync[s].max}

\* Discovery saves the highest key before it syncs the new ones; a failed list is empty.
ListKeys(s) ==
  /\ job[s].pc = "list"
  /\ \/ /\ Calm
        /\ LET top == IF Keys = {} THEN sync[s].max ELSE Max(Keys) IN
             /\ sync' = [sync EXCEPT ![s].todo = Listed(s), ![s].max = top]
             /\ maxKey' = IF sync[s].phase = "discover" THEN Max({top, sync[s].max}) ELSE maxKey
     \/ /\ Fault
        /\ sync' = [sync EXCEPT ![s].todo = {}]
        /\ maxKey' = IF sync[s].phase = "discover" THEN sync[s].max ELSE maxKey
  /\ Goto(s, "next")
  /\ UNCHANGED <<scene, rows, raced, closed, object, rushed>>

NextKey(s) ==
  /\ job[s].pc = "next"
  /\ \E n \in sync[s].todo :
       /\ \A m \in sync[s].todo : n <= m
       /\ sync' = [sync EXCEPT ![s].key = n, ![s].todo = @ \ {n}]
  /\ Goto(s, "get")
  /\ UNCHANGED <<scene, rows, raced, closed, object, maxKey, rushed, mishaps>>

\* The pass is over: a full one saves the highest key, possibly over a later one.
PassEnds(s) ==
  LET rounds == sync[s].rounds + 1 IN
  /\ job[s].pc = "next" /\ sync[s].todo = {}
  /\ maxKey' = IF sync[s].phase = "full" THEN sync[s].max ELSE maxKey
  /\ sync' = [sync EXCEPT ![s] = [NoSync EXCEPT !.rounds =
                 IF sync[s].phase = "discover" /\ rounds < FullEvery THEN rounds ELSE 0]]
  /\ Goto(s, IF op(s) # "loop" THEN "done"
             ELSE IF sync[s].phase = "discover" /\ rounds >= FullEvery THEN "full" ELSE "discover")
  /\ UNCHANGED <<scene, rows, raced, closed, object, rushed, mishaps>>

-----------------------------------------------------------------------------
(* sync_ticket: the object, the row, and a write from both.                *)

GetObject(s) ==
  /\ job[s].pc = "get"
  /\ \/ /\ Calm
        /\ sync' = [sync EXCEPT ![s].got = object[sync[s].key].status]
        /\ Goto(s, "select")
     \/ Fault /\ Goto(s, "next") /\ UNCHANGED sync
  /\ UNCHANGED <<scene, rows, raced, closed, object, maxKey, rushed>>

SelectRow(s) ==
  LET found == RowOf(sync[s].key) IN
  /\ job[s].pc = "select"
  /\ \/ /\ found = {} /\ Goto(s, "insert") /\ UNCHANGED sync
     \/ \E k \in found :
          /\ job' = Saw(s, k, "update")
          /\ sync' = [sync EXCEPT ![s].active = Active(k) # {}]
  /\ UNCHANGED <<scene, rows, raced, closed, object, maxKey, rushed, mishaps>>

ActiveFirst(got, local, active) == \* mutant: the agent is asked before the states
  IF active THEN "in_progress"
  ELSE IF local \in Terminal \cup {Awaiting} /\ got \notin Terminal THEN local ELSE got
ForgetsTerminal(got, local, active) == \* mutant: only waits are kept
  IF got \in Terminal THEN got
  ELSE IF local = Awaiting THEN local
  ELSE IF active THEN "in_progress" ELSE got
\* _effective_local_status
EffectiveStatus(got, local, active) ==
  IF got \in Terminal THEN got
  ELSE IF local \in Terminal \cup {Awaiting} THEN local
  ELSE IF active THEN "in_progress" ELSE got

\* The payload is replaced, and with it goes the status before a question.
UpdateRow(s) ==
  LET status == EffectiveStatus(sync[s].got, job[s].status, sync[s].active) IN
  /\ job[s].pc = "update"
  /\ ticket' = [k \in DOMAIN ticket |->
                  IF k \in RowOf(sync[s].key) THEN [ticket[k] EXCEPT !.status = status, !.asked = None]
                  ELSE ticket[k]]
  /\ Return(s)
  /\ UNCHANGED <<scene, agent, form, raced, closed, object, maxKey, sync, rushed, mishaps>>

\* A second row for the key is refused: a full pass goes on with the next one, the
\* loop gives up the round with what it had still to do, a refresh fails.
InsertRefused(s) ==
  /\ job[s].pc = "insert" /\ RowOf(sync[s].key) # {}
  /\ IF sync[s].phase = "discover"
       THEN sync' = [sync EXCEPT ![s] = [NoSync EXCEPT !.rounds = sync[s].rounds]] /\ Goto(s, "discover")
       ELSE Goto(s, "next") /\ UNCHANGED sync
  /\ UNCHANGED <<scene, rows, raced, closed, object, maxKey, rushed, mishaps>>

\* Only a full pass leaves the automatic assignment out.
InsertRow(s) ==
  LET n == sync[s].key IN
  /\ job[s].pc = "insert" /\ RowOf(n) = {}
  /\ ticket' = Append(ticket, [ref |-> n, status |-> sync[s].got, asked |-> None, agent |-> 0, told |-> FALSE])
  /\ object' = [object EXCEPT ![n].early = @ \/ ~object[n].linked]
  /\ job' = [job EXCEPT ![s].pc = IF sync[s].phase = "full" THEN "next" ELSE "auto",
                        ![s].ticket = IF sync[s].phase = "full" THEN 0 ELSE Len(ticket')]
  /\ UNCHANGED <<scene, agent, form, raced, closed, maxKey, sync, rushed, mishaps>>

-----------------------------------------------------------------------------
(* maybe_auto_assign                                                       *)

AutoLook(c) ==
  /\ job[c].pc = "auto"
  /\ IF Row(c).agent # 0 \/ Active(job[c].ticket) # {} THEN Return(c) ELSE Goto(c, "capacity")
  /\ Racing(c, job[c].ticket)
  /\ UNCHANGED <<scene, rows, closed, provVars>>

CountsOwn(c) == Cardinality(Active(job[c].ticket)) < MaxActive \* mutant: the wrong ticket's agents
HasRoom(c) == Cardinality({a \in DOMAIN agent : agent[a].active /\ agent[a].ticket # job[c].ticket}) < MaxActive

AutoCapacity(c) ==
  /\ job[c].pc = "capacity"
  /\ IF HasRoom(c) THEN Goto(c, "spawn") ELSE Return(c)
  /\ rushed' = (rushed \/ \E d \in Jobs \ {c} : job[d].pc = "spawn" /\ Automatic(op(d)))
  /\ UNCHANGED <<scene, rows, raced, closed, object, maxKey, sync, mishaps>>

-----------------------------------------------------------------------------
(* create_ticket and push_to_provider of ticket_service.                   *)

CreateTicket(c) ==
  /\ job[c].pc = "new" /\ op(c) = "create"
  /\ ticket' = Append(ticket, [ref |-> 0, status |-> "new", asked |-> None, agent |-> 0, told |-> FALSE])
  /\ job' = [job EXCEPT ![c].pc = "make", ![c].ticket = Len(ticket')]
  /\ UNCHANGED <<scene, agent, form, raced, closed, provVars>>

Made(c) == /\ object' = Append(object, Fresh("new", job[c].ticket))
           /\ job' = [job EXCEPT ![c].pc = "bind", ![c].key = Len(object')]

\* A request that fails may have been carried out.
MakeObject(c) ==
  /\ job[c].pc = "make"
  /\ \/ Made(c) /\ Calm
     \/ Fault /\ Goto(c, "failed")
              /\ (UNCHANGED object \/ object' = Append(object, Fresh("new", job[c].ticket)))
  /\ UNCHANGED <<scene, rows, raced, closed, maxKey, sync, rushed>>

NeverTaken(k, n) == FALSE \* mutant: without the unique constraint
Taken(k, n) == RowOf(n) \ {k} # {}
KeepsLocalRef(c) == 0 \* mutant: the row keeps its local reference
BoundRef(c) == job[c].key

\* The row takes the key, unless the sync has a row for it by now: then the statement fails.
BindRow(c) ==
  LET k == job[c].ticket n == job[c].key IN
  /\ job[c].pc = "bind"
  /\ IF Taken(k, n) THEN Return(c) /\ UNCHANGED <<ticket, object, closed>>
     ELSE /\ closed' = closed \ {k}
          /\ ticket' = [ticket EXCEPT ![k].ref = BoundRef(c), ![k].asked = None]
          /\ object' = [object EXCEPT ![n].linked = TRUE]
          /\ Goto(c, "confirm")
  /\ UNCHANGED <<scene, agent, form, raced, maxKey, sync, rushed, mishaps>>

\* The result is written once more, or the error; both replace the payload.
ConfirmRow(c) ==
  /\ job[c].pc \in {"confirm", "failed"}
  /\ ticket' = [ticket EXCEPT ![job[c].ticket].asked = None]
  /\ IF op(c) = "create" THEN Goto(c, "auto") ELSE Return(c)
  /\ UNCHANGED <<scene, agent, form, raced, closed, provVars>>

-----------------------------------------------------------------------------
(* close_ticket of the provider                                            *)

Stimulus(c, n, to, pc) == object' = [object EXCEPT ![n].status = to] /\ Goto(c, pc)

\* Only an assigned object can be resolved; otherwise an assignment is tried first.
Resolve(c) ==
  LET n == job[c].key IN
  /\ job[c].pc \in {"resolve", "again"}
  /\ \/ /\ Calm
        /\ IF object[n].status = "assigned" THEN Stimulus(c, n, "resolved", "closed")
           ELSE UNCHANGED object /\ IF job[c].pc = "resolve" THEN Goto(c, "assign") ELSE Return(c)
     \/ Fault /\ Return(c) /\ UNCHANGED object
  /\ UNCHANGED <<scene, rows, raced, closed, maxKey, sync, rushed>>

AssignFirst(c) ==
  LET n == job[c].key IN
  /\ job[c].pc = "assign"
  /\ \/ Calm /\ IF object[n].status = "new" THEN Stimulus(c, n, "assigned", "poll")
                ELSE Return(c) /\ UNCHANGED object
     \/ Fault /\ Return(c) /\ UNCHANGED object
  /\ UNCHANGED <<scene, rows, raced, closed, maxKey, sync, rushed>>

PollState(c) ==
  /\ job[c].pc = "poll"
  /\ \/ Calm /\ Goto(c, IF object[job[c].key].status = "resolved" THEN "closed" ELSE "again")
     \/ Fault /\ Return(c)
  /\ UNCHANGED <<scene, rows, raced, closed, object, maxKey, sync, rushed>>

\* close_ticket writes the row, and then the route does.
CloseRow(c) ==
  /\ job[c].pc = "closed"
  /\ Write(c, "resolved", Row(c).asked)
  /\ Goto(c, "change")
  /\ UNCHANGED <<scene, agent, form, raced, provVars>>

-----------------------------------------------------------------------------
\* The API process restarts: open calls are cut off, and the loop begins anew.  A spawn
\* that is cut off leaves an agent the ticket does not know, and counts as overlapped.
Crash ==
  /\ mishaps.crashes < scene.crashes
  /\ mishaps' = [mishaps EXCEPT !.crashes = @ + 1]
  /\ job' = [c \in Jobs |-> IF c = Loop /\ op(c) = "loop" THEN [NoJob EXCEPT !.pc = "new"]
                            ELSE IF job[c].pc = "new" THEN job[c] ELSE NoJob]
  /\ sync' = [s \in Jobs |-> NoSync]
  /\ raced' = raced \cup {job[c].ticket : c \in {d \in Jobs : job[d].pc = "link"}}
  /\ UNCHANGED <<scene, rows, closed, object, maxKey, rushed>>

Init ==
  /\ DeskInit
  /\ object = [n \in 1..scene.known |-> Fresh("new", 0)]
  /\ maxKey = Len(object)
  /\ sync = [s \in Jobs |-> NoSync]
  /\ rushed = FALSE
  /\ mishaps = [people |-> 0, faults |-> 0, crashes |-> 0]

Syncs(s) ==
  \/ ListKeys(s) \/ NextKey(s) \/ PassEnds(s) \/ GetObject(s) \/ SelectRow(s)
  \/ UpdateRow(s) \/ InsertRefused(s) \/ InsertRow(s)
Provides(c) ==
  \/ AutoLook(c) \/ AutoCapacity(c) \/ MakeObject(c) \/ BindRow(c) \/ ConfirmRow(c)
  \/ Resolve(c) \/ AssignFirst(c) \/ PollState(c) \/ CloseRow(c)
Step(c) == (Proceeds(c) /\ UNCHANGED provVars) \/ Syncs(c) \/ Provides(c)

Next ==
  \/ DeskNext /\ UNCHANGED provVars
  \/ \E c \in Jobs : Syncs(c) \/ Provides(c) \/ LoadMax(c) \/ Refresh(c) \/ CreateTicket(c)
  \/ Boot \/ PersonCreates \/ Crash
  \/ \E n \in Keys : PersonMoves(n)

Spec == Init /\ [][Next]_vars

\* A coroutine that has begun is run to its end and the loop for ever; nobody need call,
\* no agent need end, and people at the provider need not act.
FairSpec ==
  /\ Spec
  /\ \A c \in Jobs : WF_vars(Step(c) \/ (LoadMax(c) /\ c = Loop))
  /\ WF_vars(Boot)

-----------------------------------------------------------------------------
(* Properties.                                                             *)

Pcs == {"new", "done", "change", "resolve", "assign", "poll", "again", "closed", "stop", "drop", "clear",
        "same", "review", "form", "note", "mark", "prior", "gate", "remember", "answer", "store", "expire", "submitted",
        "waiting", "resume", "look", "spawn", "link", "make", "bind", "confirm", "failed", "auto", "capacity",
        "gone", "full", "discover", "list", "next", "get", "select", "update", "insert"}

\* References point at what exists, and no two rows carry one key.
TypeOK ==
  /\ scene \in Scenes /\ maxKey \in 0..Len(object) /\ rushed \in BOOLEAN
  /\ raced \cup closed \subseteq DOMAIN ticket
  /\ \A k \in DOMAIN ticket :
       /\ ticket[k].ref \in 0..Len(object) /\ ticket[k].agent \in 0..Len(agent)
       /\ ticket[k].status \in Status /\ ticket[k].asked \in Status \cup {None}
       /\ ticket[k].agent # 0 => agent[ticket[k].agent].ticket = k
       /\ ticket[k].ref # 0 => RowOf(ticket[k].ref) = {k}
  /\ \A a \in DOMAIN agent : agent[a].ticket \in DOMAIN ticket
  /\ \A f \in DOMAIN form : form[f].ticket \in DOMAIN ticket /\ form[f].stored \subseteq Jobs
  /\ \A c \in Jobs :
       /\ job[c].pc \in Pcs /\ job[c].ticket \in 0..Len(ticket) /\ job[c].form \in 0..Len(form)
       /\ sync[c].todo \subseteq Keys /\ sync[c].key \in 0..Len(object)
       /\ sync[c].max \in 0..Len(object) /\ sync[c].rounds \in 0..FullEvery

\* A ticket that was ended at the desk, with nothing else in progress on it, stays
\* ended: no later pass of the sync, whatever it reads at the provider, reopens it.
ClosedStaysClosed == \A k \in closed : ticket[k].status \in Terminal

\* An object created for a ticket has no second row, unless the sync came across
\* it before the ticket's row had its key, or another object was made for the ticket.
OneTicketPerObject ==
  \A n \in Keys :
    LET k == object[n].maker IN
    k # 0 /\ RowOf(n) \ {k} # {}
      => object[n].early \/ \E m \in Keys \ {n} : object[m].maker = k

\* Automatic assignment does not put more agents to work than the rule allows, unless
\* two assignments overlapped between the count and the spawn.  An agent that was unassigned
\* is not counted, though its task goes on and a late write may show it at work again; nor
\* is one that had ended and is written back.  The count had seen them gone.
AutoCapacityKept ==
  ~rushed => Cardinality({a \in DOMAIN agent : Works(a) /\ Automatic(agent[a].by)}) <= MaxActive

\* Every object of the provider gets a ticket, unless the loop found no connection.
ObjectsArrive ==
  \A n \in 1..MaxObjects : n \in Keys ~> (RowOf(n) # {} \/ job[Loop].pc = "gone")

\* What is resolved at the provider is ended at the desk as well, whoever works on it.
EndsArrive ==
  \A n \in 1..MaxObjects :
    n \in Keys /\ object[n].status = "resolved"
      ~> (\E k \in RowOf(n) : ticket[k].status \in Terminal) \/ job[Loop].pc = "gone"
=============================================================================
