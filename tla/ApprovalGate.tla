---------------------------- MODULE ApprovalGate ----------------------------
(***************************************************************************)
(* Approval and access gates of one ticket (api/routes/changes.py,         *)
(* create_access_request of api/services/ticket_service.py) and the part   *)
(* of the agent runner that ends an agent at a gate or continues past it.  *)
(*                                                                         *)
(* An agent asks for a change, stops at a durable wait checkpoint, and the *)
(* approval of the change spawns another agent that continues the ticket.  *)
(* The approval handler and the runner each read the other's rows first    *)
(* and write later, one autocommitted statement at a time.  An agent that  *)
(* ends without a word, or done without closing its ticket, is judged by   *)
(* what the dashboard holds: final notes, closed gates, postmortems.       *)
(***************************************************************************)
EXTENDS Naturals, FiniteSets

CONSTANTS
  MaxAgents,      \* bound on the (agent, task) pairs spawned for the ticket
  Scenes,         \* what may happen: [agents, gates, calls, exits, works, ...], how many
                  \* agents the ticket gets, the changes they open, how many approve,
                  \* reject and complete calls come, how agents end and what else they do
  Changes,        \* change requests the agents may open
  AccessChanges,  \* those opened by create_access_request
  ManualChanges,  \* those whose policy has auto_complete = false
  Requests,       \* HTTP handlers that may be open at a time
  NoChange

Agents == 1..MaxAgents
NoAgent == 0

ASSUME GateAssumption ==
  /\ MaxAgents \in Nat \ {0}
  /\ \A s \in Scenes : /\ s.agents \in 1..MaxAgents /\ s.gates \subseteq Changes /\ s.calls \in Nat
                       /\ s.exits \subseteq {"waiting", "completed", "failed"} /\ s.exits # {}
                       /\ s.works \subseteq {"note", "postmortem", "resolve"}
  /\ IsFiniteSet(Changes) /\ NoChange \notin Changes
  /\ AccessChanges \subseteq ManualChanges /\ ManualChanges \subseteq Changes

VARIABLES
  scene,    \* one of Scenes
  task,     \* agent_tasks.status of the last task of an agent
  agent,    \* agents.status; "active" is spawned, running or working, and
            \* "completed" is finished
  runner,   \* the harness process and the runner coroutine of an agent
  change,   \* row of change_requests: [status, agent]
  access,   \* access_requests.status of an access change
  leases,   \* the changes for which agent_vault_leases holds a granted lease
  request,  \* the open approve / reject / complete handlers
  calls,
  ticket,   \* tickets.status: "progress", "waiting" or "resolved"
  noted,    \* the agents since whose start a note was written that reads as final
  learned   \* the agents since whose start a postmortem was recorded

desk == <<scene, ticket, noted, learned>>
vars == <<task, agent, runner, change, access, leases, request, calls, desk>>

Rows == {"absent", "active", "waiting", "completed", "failed", "stopped"}
Alive == {"working", "hung"} \* of the harness process; a hung one makes no progress
RunnerPcs == Alive \cup
  {"none", "exited", "gates", "others", "spawn", "evidence", "resolve", "writeTask", "writeAgent",
   "park", "sweep", "close", "report", "settle", "ended"}
ChangeStatus == {"absent", "pending", "approved", "rejected", "completed"}
AccessStatus == {"none", "pending", "approved", "granted", "rejected"}
RequestPcs == {"idle", "read", "write", "sync", "lease",
               "resumeOwn", "resumeTicket", "resumeSpawn", "handAgent", "handTask"}
Calls == {"approve", "reject", "complete"}

Outcomes == {"waiting", "continued", "completed", "failed", "recovered"}
NoRun == [pc |-> "none", outcome |-> "waiting", todo |-> {}, change |-> NoChange]
NoCall == [pc |-> "idle", call |-> "approve", change |-> NoChange]

Goto(a, pc) == runner' = [runner EXCEPT ![a].pc = pc]
Step(r, pc) == request' = [request EXCEPT ![r].pc = pc]
Return(r) == request' = [request EXCEPT ![r] = NoCall]
Owner(r) == change[request[r].change].agent

\* A note that reads as final counts for every agent that was there by then.  Of the
\* notes of the control plane, those that speak of a completion or a resolution do.
Existing == {a \in Agents : agent[a] # "absent"}
FinalNote == noted' = noted \cup Existing

\* The next agent of the ticket, and the rows spawn_agent inserts and updates.  Its note
\* names the ticket_resolution task, and so reads as final to the agents before it.
Unspawned == {a \in 1..scene.agents : agent[a] = "absent"}
Newcomer == CHOOSE a \in Unspawned : \A b \in Unspawned : a <= b
Spawned(rows) == [rows EXCEPT ![Newcomer] = "active"]
SpawnRows ==
  /\ Unspawned # {}
  /\ task' = Spawned(task) /\ agent' = Spawned(agent) /\ ticket' = "progress"
  /\ UNCHANGED <<scene, learned>>

Overlooked(a) == FALSE \* mutant: the other agents of the ticket are not looked at
\* An agent that the ticket still counts on: either of its rows is live.
IsActive(a) == agent[a] = "active" \/ task[a] = "active"

-----------------------------------------------------------------------------
(* The agent: it opens gates and records its work at the desk, and exits   *)
(* at a wait checkpoint, done, or in failure.                              *)

\* A call of the agent returns before it does anything else.
AtWork(a) == runner[a].pc = "working" /\ runner[a].change = NoChange

RequestChange(a) ==
  /\ AtWork(a)
  /\ \E c \in scene.gates :
       /\ change[c].status = "absent"
       /\ change' = [change EXCEPT ![c] = [status |-> "pending", agent |-> a]]
       /\ runner' = IF c \in AccessChanges THEN [runner EXCEPT ![a].change = c] ELSE runner
  /\ UNCHANGED <<task, agent, access, leases, request, calls, desk>>

\* create_access_request inserts its own row after the row of the change, also
\* for an agent that is gone by then.
OpenAccess(a) ==
  /\ runner[a].change # NoChange
  /\ access' = [access EXCEPT ![runner[a].change] = "pending"]
  /\ runner' = [runner EXCEPT ![a].change = NoChange]
  /\ UNCHANGED <<task, agent, change, leases, request, calls, desk>>

\* A resolution note, a postmortem, the status call of the agent.
AgentReports(a) ==
  /\ AtWork(a) /\ "note" \in scene.works /\ ~(Existing \subseteq noted)
  /\ FinalNote
  /\ UNCHANGED <<task, agent, runner, change, access, leases, request, calls, scene, ticket, learned>>

AgentLearns(a) ==
  /\ AtWork(a) /\ "postmortem" \in scene.works /\ ~(Existing \subseteq learned)
  /\ learned' = learned \cup Existing
  /\ UNCHANGED <<task, agent, runner, change, access, leases, request, calls, scene, ticket, noted>>

AgentResolves(a) ==
  /\ AtWork(a) /\ "resolve" \in scene.works /\ ticket # "resolved"
  /\ ticket' = "resolved"
  /\ UNCHANGED <<task, agent, runner, change, access, leases, request, calls, scene, noted, learned>>

\* The outcome is that of the last checkpoint and the exit code.
Exits(a) ==
  \E outcome \in scene.exits :
    runner' = [runner EXCEPT ![a].pc = "exited", ![a].outcome = outcome]

AgentExits(a) ==
  /\ AtWork(a)
  /\ Exits(a)
  /\ UNCHANGED <<task, agent, change, access, leases, request, calls, desk>>

-----------------------------------------------------------------------------
(* The runner after the exit of the agent.                                 *)

\* An operator's stop is kept; its note is no final one.
ReadStopped(a) ==
  /\ runner[a].pc = "exited"
  /\ Goto(a, CASE task[a] = "stopped" \/ agent[a] = "stopped" -> "ended"
                [] task[a] # "stopped" /\ agent[a] # "stopped" ->
                     [waiting |-> "gates", completed |-> "writeTask",
                      failed |-> "evidence"][runner[a].outcome])
  /\ UNCHANGED <<task, agent, change, access, leases, request, calls, desk>>

\* _gate_state_for_wait and _wait_checkpoint_obsolete
GateOpen(a) ==
  LET states == {change[c].status : c \in {d \in Changes : change[d].agent = a}}
  IN  "pending" \notin states /\ states \cap {"approved", "completed"} # {}

ReadGates(a) ==
  /\ runner[a].pc = "gates"
  /\ Goto(a, IF GateOpen(a) THEN "others" ELSE "writeTask")
  /\ UNCHANGED <<task, agent, change, access, leases, request, calls, desk>>

\* _spawn_obsolete_wait_continuation: the note about the stale wait is written when the
\* continuation may or may not have started.
CheckOthers(a) ==
  /\ runner[a].pc = "others"
  /\ runner' = [runner EXCEPT
       ![a].pc = IF \E b \in Agents \ {a} : IsActive(b) THEN "writeTask" ELSE "spawn",
       ![a].outcome = "continued"]
  /\ UNCHANGED <<task, agent, change, access, leases, request, calls, desk>>

SpawnContinuation(a) ==
  /\ runner[a].pc = "spawn"
  /\ SpawnRows
  /\ noted' \in {noted \cup Existing, noted \cup Existing \cup {Newcomer}}
  /\ runner' = [runner EXCEPT ![a].pc = "writeTask", ![Newcomer].pc = "working"]
  /\ UNCHANGED <<change, access, leases, request, calls>>

\* _detect_completed_ticket_resolution: final notes and postmortems count from the
\* start of the task, changes whoever opened them.
OpenChanges == {c \in Changes : change[c].status \in {"pending", "approved"}}
Completed == {c \in Changes : change[c].status = "completed"}
TerminalEvidence(a) ==
  a \in noted /\ OpenChanges = {} /\ (Completed # {} \/ a \in learned)

\* _can_autoresolve_from_terminal_evidence, beside the evidence itself
CanAutoresolve(a) == ticket = "resolved" \/ (Completed # {} /\ a \in learned)

\* mutant: an exit without a word is a failure, whatever the desk holds
EvidenceIgnored(a) ==
  /\ runner[a].pc = "evidence"
  /\ Goto(a, "writeTask")
  /\ UNCHANGED <<task, agent, change, access, leases, request, calls, desk>>

ReadEvidence(a) ==
  /\ runner[a].pc = "evidence"
  /\ IF TerminalEvidence(a)
       THEN runner' = [runner EXCEPT ![a].outcome = "recovered",
              ![a].pc = IF ticket # "resolved" /\ CanAutoresolve(a) THEN "resolve" ELSE "writeTask"]
       ELSE Goto(a, "writeTask")
  /\ UNCHANGED <<task, agent, change, access, leases, request, calls, desk>>

\* _resolve_ticket_from_terminal_evidence: unless the provider refuses to close it
TicketResolved ==
  /\ ticket' \in {ticket, "resolved"}
  /\ FinalNote /\ UNCHANGED <<scene, learned>>

ResolveRecovered(a) ==
  /\ runner[a].pc = "resolve"
  /\ TicketResolved
  /\ Goto(a, "writeTask")
  /\ UNCHANGED <<task, agent, change, access, leases, request, calls>>

RowOf(outcome) == IF outcome \in {"continued", "recovered"} THEN "completed" ELSE outcome

WriteTask(a) ==
  /\ runner[a].pc = "writeTask"
  /\ task' = [task EXCEPT ![a] = RowOf(runner[a].outcome)]
  /\ Goto(a, "writeAgent")
  /\ UNCHANGED <<agent, change, access, leases, request, calls, desk>>

\* The note of a recovered completion is written with the row.
WriteAgent(a) ==
  LET outcome == runner[a].outcome IN
  /\ runner[a].pc = "writeAgent"
  /\ agent' = [agent EXCEPT ![a] = RowOf(outcome)]
  /\ Goto(a, IF outcome = "completed" THEN "sweep"
             ELSE IF outcome = "waiting" THEN "park" ELSE "ended")
  /\ IF outcome = "recovered" THEN FinalNote ELSE UNCHANGED noted
  /\ UNCHANGED <<task, change, access, leases, request, calls, scene, ticket, learned>>

\* The ticket waits with its agent, whoever has continued it by then.
ParkTicket(a) ==
  /\ runner[a].pc = "park"
  /\ ticket' = "waiting"
  /\ Goto(a, "ended")
  /\ UNCHANGED <<task, agent, change, access, leases, request, calls, scene, noted, learned>>

\* _auto_complete_allowed
AutoCompleteAllowed(c) == c \notin ManualChanges

\* complete_approved_changes_for_task, when the agent ended its task itself.
SweepOf(a) == {c \in Changes : /\ task[a] = "completed" /\ change[c].agent = a
                               /\ change[c].status = "approved" /\ AutoCompleteAllowed(c)}
Closed(c) == [change EXCEPT ![c].status = IF @ = "approved" THEN "completed" ELSE @]

SweepChanges(a) ==
  LET todo == SweepOf(a) IN
  /\ runner[a].pc = "sweep"
  /\ runner' = [runner EXCEPT ![a].pc = IF todo = {} THEN "report" ELSE "close", ![a].todo = todo]
  /\ UNCHANGED <<task, agent, change, access, leases, request, calls, desk>>

CloseChange(a) ==
  /\ runner[a].pc = "close"
  /\ \E c \in runner[a].todo :
       LET rest == runner[a].todo \ {c} IN
       /\ change' = Closed(c)
       /\ runner' = [runner EXCEPT ![a].pc = IF rest = {} THEN "report" ELSE @, ![a].todo = rest]
  /\ FinalNote
  /\ UNCHANGED <<task, agent, access, leases, request, calls, scene, ticket, learned>>

\* The completion note, and recover_done_checkpoint_ticket_status: a ticket at work
\* without an open gate is resolved, if the prompt asked the agent to close it.
ReportDone(a) ==
  LET openAccess == {c \in Changes : access[c] \in {"pending", "approved"}} IN
  /\ runner[a].pc = "report"
  /\ FinalNote
  /\ \/ Goto(a, "ended")
     \/ ticket = "progress" /\ OpenChanges = {} /\ openAccess = {} /\ Goto(a, "settle")
  /\ UNCHANGED <<task, agent, change, access, leases, request, calls, scene, ticket, learned>>

SettleTicket(a) ==
  /\ runner[a].pc = "settle"
  /\ ticket' = "resolved"
  /\ Goto(a, "ended")
  /\ UNCHANGED <<task, agent, change, access, leases, request, calls, scene, noted, learned>>

-----------------------------------------------------------------------------
(* approve_change, reject_change and complete_change: the row is read, the *)
(* decision written whatever the row says by then, the access request      *)
(* brought in line.                                                        *)

Call(r) ==
  /\ request[r].pc = "idle"
  /\ calls < scene.calls
  /\ calls' = calls + 1
  /\ \E c \in Changes, call \in Calls :
       /\ change[c].status # "absent"
       /\ request' = [request EXCEPT ![r] = [pc |-> "read", call |-> call, change |-> c]]
  /\ UNCHANGED <<task, agent, runner, change, access, leases, desk>>

ReadChange(r) ==
  LET status == change[request[r].change].status IN
  /\ request[r].pc = "read"
  /\ CASE request[r].call = "complete" -> Step(r, "write")
       [] request[r].call = "approve" /\ status = "approved" -> Step(r, "resumeOwn")
       [] request[r].call # "complete" /\ status = "pending" -> Step(r, "write")
       [] OTHER -> Return(r)
  /\ UNCHANGED <<task, agent, runner, change, access, leases, calls, desk>>

StatusFor(call) ==
  CASE call = "approve" -> "approved" [] call = "reject" -> "rejected"
    [] call = "complete" -> "completed"

WriteChange(r) ==
  /\ request[r].pc = "write"
  /\ change' = [change EXCEPT ![request[r].change].status = StatusFor(request[r].call)]
  /\ Step(r, "sync")
  /\ UNCHANGED <<task, agent, runner, access, leases, calls, desk>>

GrantedOnApproval(call) == IF call = "reject" THEN "rejected" ELSE "granted" \* mutant
AccessStatusFor(call) ==
  CASE call = "approve" -> "approved" [] call = "reject" -> "rejected"
    [] call = "complete" -> "granted"

\* _sync_access_request_status: no row, nothing to bring in line.
SyncAccess(r) ==
  LET c == request[r].change
      found == c \in AccessChanges /\ access[c] # "none" IN
  /\ request[r].pc = "sync"
  /\ access' = IF found THEN [access EXCEPT ![c] = AccessStatusFor(request[r].call)] ELSE access
  /\ CASE request[r].call = "approve" -> Step(r, "resumeOwn")
       [] request[r].call = "complete" /\ found -> Step(r, "lease")
       [] OTHER -> Return(r)
  /\ UNCHANGED <<task, agent, runner, change, leases, calls, desk>>

\* grant_agent_vault_lease, unless the policy asks for no lease and none can be
\* inferred from the resource.
GrantLease(r) ==
  /\ request[r].pc = "lease"
  /\ leases' \in {leases, leases \cup {request[r].change}}
  /\ Return(r)
  /\ UNCHANGED <<task, agent, runner, change, access, calls, desk>>

(* _resume_agent_after_approval.  An active source agent is told by a      *)
(* steering note, and nothing else happens.                                *)

ResumeOwn(r) ==
  /\ request[r].pc = "resumeOwn"
  /\ IF task[Owner(r)] = "active" THEN Return(r) ELSE Step(r, "resumeTicket")
  /\ UNCHANGED <<task, agent, runner, change, access, leases, calls, desk>>

ResumeTicket(r) ==
  /\ request[r].pc = "resumeTicket"
  /\ Step(r, IF \E a \in Agents : IsActive(a) THEN "handAgent" ELSE "resumeSpawn")
  /\ UNCHANGED <<task, agent, runner, change, access, leases, calls, desk>>

ResumeSpawn(r) ==
  /\ request[r].pc = "resumeSpawn"
  /\ SpawnRows /\ FinalNote
  /\ runner' = [runner EXCEPT ![Newcomer].pc = "working"]
  /\ Step(r, "handAgent")
  /\ UNCHANGED <<change, access, leases, calls>>

\* mutant: finishes the agents at work instead of those at a gate.
HandedTooEarly(row) == IF row = "active" THEN "completed" ELSE row
HandedOff(row) == IF row = "waiting" THEN "completed" ELSE row

\* _record_resume_handoff
HandAgent(r) ==
  /\ request[r].pc = "handAgent"
  /\ agent' = [agent EXCEPT ![Owner(r)] = HandedOff(@)]
  /\ Step(r, "handTask")
  /\ UNCHANGED <<task, runner, change, access, leases, calls, desk>>

HandTask(r) ==
  /\ request[r].pc = "handTask"
  /\ task' = [task EXCEPT ![Owner(r)] = HandedOff(@)]
  /\ Return(r)
  /\ UNCHANGED <<agent, runner, change, access, leases, calls, desk>>

-----------------------------------------------------------------------------
\* The first agent of the ticket is at work.
Init ==
  /\ scene \in Scenes
  /\ task = [a \in Agents |-> IF a = 1 THEN "active" ELSE "absent"]
  /\ agent = task
  /\ runner = [a \in Agents |-> IF a = 1 THEN [NoRun EXCEPT !.pc = "working"] ELSE NoRun]
  /\ change = [c \in Changes |-> [status |-> "absent", agent |-> NoAgent]]
  /\ access = [c \in Changes |-> "none"]
  /\ leases = {}
  /\ request = [r \in Requests |-> NoCall]
  /\ calls = 0
  /\ ticket = "progress" /\ noted = {} /\ learned = {}

Work(a) == RequestChange(a) \/ AgentReports(a) \/ AgentLearns(a) \/ AgentResolves(a)
Finish(a) ==
  \/ OpenAccess(a) \/ ReadStopped(a) \/ ReadGates(a) \/ CheckOthers(a) \/ SpawnContinuation(a)
  \/ ReadEvidence(a) \/ ResolveRecovered(a) \/ WriteTask(a) \/ WriteAgent(a) \/ ParkTicket(a)
  \/ SweepChanges(a) \/ CloseChange(a) \/ ReportDone(a) \/ SettleTicket(a)
Handle(r) ==
  \/ ReadChange(r) \/ WriteChange(r) \/ SyncAccess(r) \/ GrantLease(r)
  \/ ResumeOwn(r) \/ ResumeTicket(r) \/ ResumeSpawn(r) \/ HandAgent(r) \/ HandTask(r)

Next ==
  \/ \E a \in Agents : Work(a) \/ AgentExits(a) \/ Finish(a)
  \/ \E r \in Requests : Call(r) \/ Handle(r)

Spec == Init /\ [][Next]_vars

\* The event loop runs the coroutines that are ready, and an agent ends at the
\* latest by a watchdog.  Nobody has to decide on a gate, or to decide twice.
FairSpec ==
  /\ Spec
  /\ \A a \in Agents : WF_vars(Finish(a)) /\ WF_vars(AgentExits(a))
  /\ \A r \in Requests : WF_vars(Handle(r))

-----------------------------------------------------------------------------
(* Properties.                                                             *)

\* Rows, coroutines and handlers stay in their domains; a gate that was opened
\* belongs to an agent of the ticket.
GateTypeOK ==
  /\ scene \in Scenes
  /\ task \in [Agents -> Rows] /\ agent \in [Agents -> Rows]
  /\ runner \in [Agents -> [pc : RunnerPcs, outcome : Outcomes, todo : SUBSET Changes,
                            change : Changes \cup {NoChange}]]
  /\ change \in [Changes -> [status : ChangeStatus, agent : Agents \cup {NoAgent}]]
  /\ \A c \in Changes : change[c].status = "absent" <=> change[c].agent = NoAgent
  /\ access \in [Changes -> AccessStatus]
  /\ leases \subseteq Changes
  /\ request \in [Requests -> [pc : RequestPcs, call : Calls, change : Changes \cup {NoChange}]]
  /\ \A r \in Requests : request[r].pc # "idle" => request[r].change \in Changes
  /\ calls \in 0..scene.calls
  /\ ticket \in {"progress", "waiting", "resolved"}
  /\ noted \subseteq Existing /\ learned \subseteq Existing

\* When no handler is deciding on an access gate, its access request does not
\* contradict the gate: it is granted only when the gate is completed, and never
\* left approved when it is.  It stays pending when the decision came between the
\* two inserts of create_access_request.  A lease belongs to a completed gate.
AccessFollowsGate ==
  \A c \in AccessChanges :
    (\A r \in Requests : request[r].change # c \/ request[r].pc = "read") =>
      /\ c \in leases => change[c].status = "completed"
      /\ CASE change[c].status = "absent" -> access[c] = "none"
           [] change[c].status = "pending" -> access[c] \in {"none", "pending"}
           [] change[c].status = "approved" -> access[c] \in {"none", "pending", "approved"}
           [] change[c].status = "rejected" -> access[c] \in {"none", "pending", "rejected"}
           [] change[c].status = "completed" -> access[c] \in {"none", "pending", "granted"}

AtRest(a) == task[a] = "waiting" /\ agent[a] = "waiting"

\* The approval of a gate whose agent is recorded as waiting hands the ticket over:
\* the source agent does not stay in the Waiting On Gate bucket, it is finished, or
\* was stopped by an operator.
ApprovalOfWaitingAgentResumes ==
  \A r \in Requests, a \in Agents :
    request[r].pc = "resumeOwn" /\ Owner(r) = a /\ AtRest(a) ~> agent[a] \in {"completed", "stopped"}

\* Approval of a gate resumes the ticket: no agent waits for ever behind a gate
\* that is open.
ApprovalResumes ==
  \A c \in Changes, a \in Agents :
    change[c] = [status |-> "approved", agent |-> a] /\ AtRest(a) ~> ~AtRest(a)
=============================================================================
