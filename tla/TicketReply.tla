---------------------------- MODULE TicketReply ----------------------------
(***************************************************************************)
(* Everything at the desk that writes a ticket's row (api/routes/          *)
(* tickets.py, api/services/sensitive_intake.py, the chat follow-up of     *)
(* api/routes/ops_chat.py and the agent runner at a wait for the           *)
(* requester): changes of status, questions to the requester and their     *)
(* answers, one-time forms, and the agents that are put on the ticket.     *)
(*                                                                         *)
(* A handler reads the row, and some statements later writes what follows  *)
(* from what it has read.  The status a ticket had before the question is  *)
(* kept in a key of provider_payload, which other code overwrites.         *)
(***************************************************************************)
EXTENDS Naturals, Sequences, FiniteSets, FiniteSetsExt

CONSTANTS
  Jobs,    \* coroutines: HTTP handlers, and the loops of other modules
  Scenes   \* what may happen: [orders, tickets, tracked, ...], the order of each job, that is
           \* its operation, ticket and the status asked for, the rows at the start, and
           \* whether the agents' rows are written from tasks that were read before

Handlers == {"status", "close", "ask", "askSecure", "respond", "chat", "assign", "unassign", "postmortem",
             "workflow", "push"}
Status == {"new", "assigned", "in_progress", "awaiting_user_response", "resolved", "cancelled"}
Awaiting == "awaiting_user_response"
Terminal == {"resolved", "cancelled"}
None == "none"

ASSUME ReplyAssumption ==
  \A s \in Scenes :
    /\ s.orders \in [Jobs -> [op : STRING, ticket : Nat, to : Status]]
    /\ s.tracked \in BOOLEAN
    /\ s.tickets \in Seq([ref : Nat, status : Status, asked : Status \cup {None}, agent : {0}, told : BOOLEAN])

VARIABLES
  scene,
  ticket,   \* rows of tickets in the order of their ids: the provider's reference (0 for a
            \* local one), the status, provider_payload.awaiting_user_response.previous_status,
            \* agent_id, and whether the requester was asked by a note
  agent,    \* rows of agents with their task: the ticket, whether the row says spawned, running
            \* or working, whether the task is queued or running, whether somebody has read the
            \* task as running and has yet to write the row, whether the row was written so
            \* after the agent was taken away or had ended, and who spawned the agent
  form,     \* rows of sensitive_intake_requests, with the submissions stored in each
  job,      \* what each coroutine goes on with, and what it has read
  raced,    \* tickets on which two coroutines that may spawn overlapped, or a workflow build
            \* was started beside an agent at work
  closed    \* tickets whose last writer ended them, with no other coroutine at work on them

rows == <<ticket, agent, form>>
deskVars == <<scene, rows, job, raced, closed>>

op(c) == scene.orders[c].op
Row(c) == ticket[job[c].ticket]
Active(k) == {a \in DOMAIN agent : agent[a].ticket = k /\ agent[a].active}
\* Agents at work: as their row and their task say, and not just because a late write says so.
Works(a) == agent[a].active /\ agent[a].runs /\ ~agent[a].revived
AtWork(k) == {a \in DOMAIN agent : agent[a].ticket = k /\ Works(a) /\ agent[a].by # "postmortem"}

Goto(c, pc) == job' = [job EXCEPT ![c].pc = pc]
NoJob == [pc |-> "done", ticket |-> 0, status |-> None, asked |-> None, agent |-> 0, form |-> 0, key |-> 0]
Return(c) == job' = [job EXCEPT ![c] = [NoJob EXCEPT !.pc = IF op(c) \in {"refresh", "syncAll", "loop"}
                                                            THEN "next" ELSE "done"]]
\* job c goes on at pc with what it sees of ticket k.
Saw(c, k, pc) ==
  [job EXCEPT ![c] = [@ EXCEPT !.pc = pc, !.ticket = k, !.status = ticket[k].status,
                               !.asked = ticket[k].asked, !.agent = ticket[k].agent, !.key = ticket[k].ref]]

\* Coroutines between the read that lets them spawn for ticket k and their last write.
MaySpawn(d) ==
  \/ job[d].pc \in {"look", "auto", "capacity", "spawn", "link", "resume"}
  \/ job[d].pc = "answer" /\ op(d) # "chat"
Overlapping(c, k) == \E d \in Jobs \ {c} : job[d].ticket = k /\ MaySpawn(d)
Racing(c, k) == raced' = IF Overlapping(c, k) THEN raced \cup {k} ELSE raced
\* Another coroutine is at work on ticket k, or on the provider's object it carries.
Busy(c, k) == \E d \in Jobs \ {c} : job[d].ticket = k \/ (job[d].key = ticket[k].ref /\ job[d].key # 0)

-----------------------------------------------------------------------------
(* The handlers read the row first.                                        *)

Begins(c) ==
  LET k == scene.orders[c].ticket IN
  CASE op(c) = "status" -> "change"
    [] op(c) = "close" -> IF ticket[k].ref = 0 THEN "change" ELSE "resolve"
    [] op(c) = "ask" -> "note"
    [] op(c) = "askSecure" -> "form"
    [] op(c) = "respond" -> "answer"
    [] op(c) = "chat" -> IF ticket[k].status = Awaiting THEN "answer" ELSE "look"
    [] op(c) = "assign" -> "look"
    [] op(c) = "unassign" -> "drop"
    [] op(c) \in {"postmortem", "workflow"} -> "same"
    [] op(c) = "push" -> "make"

ReadTicket(c) ==
  /\ job[c].pc = "new" /\ op(c) \in Handlers
  /\ scene.orders[c].ticket \in DOMAIN ticket
  /\ job' = Saw(c, scene.orders[c].ticket, Begins(c))
  /\ IF op(c) = "respond" THEN Racing(c, scene.orders[c].ticket) ELSE UNCHANGED raced
  /\ UNCHANGED <<scene, rows, closed>>

\* Who writes last decides whether the ticket counts as closed.
Write(c, status, asked) ==
  LET k == job[c].ticket IN
  /\ ticket' = [ticket EXCEPT ![k].status = status, ![k].asked = asked]
  /\ closed' = IF status \in Terminal /\ ~Busy(c, k) THEN closed \cup {k} ELSE closed \ {k}

\* The rows of the task and of the agent, at an end that writes both.
Finished(a) == [agent EXCEPT ![a].runs = FALSE, ![a].active = FALSE]

\* _update_ticket_status, and the stop of the agent that a cancellation brings.
ChangeStatus(c) ==
  /\ job[c].pc = "change"
  /\ Write(c, scene.orders[c].to, Row(c).asked)
  /\ IF scene.orders[c].to = "cancelled" THEN Goto(c, "stop") ELSE Return(c)
  /\ UNCHANGED <<scene, agent, form, raced>>

StopAgent(c) ==
  /\ job[c].pc = "stop"
  /\ agent' = IF Active(job[c].ticket) = {} THEN agent
              ELSE Finished(Max(Active(job[c].ticket)))
  /\ Return(c)
  /\ UNCHANGED <<scene, ticket, form, raced, closed>>

\* unassign-agent: the row of the agent, then the ticket's.  The task goes on.
Unassign(c) ==
  /\ job[c].pc = "drop"
  /\ IF job[c].agent = 0 THEN Return(c) /\ UNCHANGED agent
     ELSE agent' = [agent EXCEPT ![job[c].agent].active = FALSE] /\ Goto(c, "clear")
  /\ UNCHANGED <<scene, ticket, form, raced, closed>>

ClearAgent(c) ==
  /\ job[c].pc = "clear"
  /\ ticket' = [ticket EXCEPT ![job[c].ticket].agent = 0]
  /\ Return(c)
  /\ UNCHANGED <<scene, agent, form, raced, closed>>

-----------------------------------------------------------------------------
(* Questions: request_user_information and the runner's wait checkpoint.   *)

OpenForm(c) ==
  /\ job[c].pc = "form"
  /\ form' = Append(form, [ticket |-> job[c].ticket, status |-> "pending", expired |-> FALSE, stored |-> {}])
  /\ Goto(c, "note")
  /\ UNCHANGED <<scene, ticket, agent, raced, closed>>

AskNote(c) ==
  /\ job[c].pc = "note"
  /\ ticket' = [ticket EXCEPT ![job[c].ticket].told = TRUE]
  /\ Goto(c, "mark")
  /\ UNCHANGED <<scene, agent, form, raced, closed>>

ReadsAgain(c) == Row(c).status \* mutant: looks again, after its own write at a gate
Previous(c) == job[c].status

Ask(c) ==
  /\ job[c].pc = "mark"
  /\ Write(c, Awaiting, Previous(c))
  /\ Return(c)
  /\ UNCHANGED <<scene, agent, form, raced>>

\* The runner ends the waiting agent, reads the status, and writes the wait.
WaitEndsAgent(c) ==
  /\ job[c].pc = "new" /\ op(c) = "wait"
  /\ \E a \in DOMAIN agent :
       agent[a].ticket = scene.orders[c].ticket /\ agent[a].runs /\ agent' = Finished(a)
  /\ Goto(c, "prior")
  /\ UNCHANGED <<scene, ticket, form, raced, closed>>

ReadPrior(c) ==
  /\ job[c].pc = "prior"
  /\ job' = Saw(c, scene.orders[c].ticket, "gate")
  /\ UNCHANGED <<scene, rows, raced, closed>>

WaitAtGate(c) ==
  /\ job[c].pc = "gate"
  /\ Write(c, Awaiting, Row(c).asked)
  /\ Goto(c, "remember")
  /\ UNCHANGED <<scene, agent, form, raced>>

\* _ensure_requester_wait_note: not when a question of the last fifteen minutes is found.
RememberWait(c) ==
  /\ job[c].pc = "remember"
  /\ \/ Row(c).told /\ UNCHANGED ticket
     \/ ticket' = [ticket EXCEPT ![job[c].ticket].told = TRUE, ![job[c].ticket].asked = Previous(c)]
  /\ Return(c)
  /\ UNCHANGED <<scene, agent, form, raced, closed>>

-----------------------------------------------------------------------------
(* Answers: user-response, a follow-up in the chat, a submitted form.      *)

Restored(c) == IF job[c].asked = None THEN "in_progress" ELSE job[c].asked

Answer(c) ==
  /\ job[c].pc = "answer"
  /\ Write(c, Restored(c), None)
  /\ Goto(c, IF op(c) = "chat" THEN "look" ELSE "resume")
  /\ UNCHANGED <<scene, agent, form, raced>>

\* submit_request.
Accepts(f) == form[f].status = "pending"

ReadForm(c) ==
  /\ job[c].pc = "new" /\ op(c) = "submit"
  /\ \E f \in DOMAIN form :
       /\ form[f].ticket = scene.orders[c].ticket
       /\ IF Accepts(f)
            THEN job' = [job EXCEPT ![c].form = f, ![c].pc = IF form[f].expired THEN "expire" ELSE "store"]
            ELSE Return(c)
  /\ UNCHANGED <<scene, rows, raced, closed>>

ExpireForm(c) ==
  /\ job[c].pc = "expire"
  /\ form' = [form EXCEPT ![job[c].form].status = "expired"]
  /\ Return(c)
  /\ UNCHANGED <<scene, ticket, agent, raced, closed>>

\* A submission that lacks a required field is turned down, and may be repeated; the values
\* of another replace what is there.
StoreValues(c) ==
  /\ job[c].pc = "store"
  /\ \/ Return(c) /\ UNCHANGED form
     \/ form' = [form EXCEPT ![job[c].form].stored = @ \cup {c}] /\ Goto(c, "submitted")
  /\ UNCHANGED <<scene, ticket, agent, raced, closed>>

SubmitForm(c) ==
  /\ job[c].pc = "submitted"
  /\ form' = [form EXCEPT ![job[c].form].status = "submitted"]
  /\ Goto(c, "waiting")
  /\ UNCHANGED <<scene, ticket, agent, raced, closed>>

\* _resume_ticket_after_submission.
ReadWaiting(c) ==
  LET k == form[job[c].form].ticket IN
  /\ job[c].pc = "waiting"
  /\ IF ticket[k].status # Awaiting THEN Return(c) /\ UNCHANGED raced
     ELSE job' = Saw(c, k, "answer") /\ Racing(c, k)
  /\ UNCHANGED <<scene, rows, closed>>

FormExpires(f) ==
  /\ form[f].status = "pending" /\ ~form[f].expired
  /\ form' = [form EXCEPT ![f].expired = TRUE]
  /\ UNCHANGED <<scene, ticket, agent, job, raced, closed>>

-----------------------------------------------------------------------------
(* Agents: resume after an answer, assign-agent, the chat's continuation.  *)

NeverWorks(c) == FALSE \* mutant: no test at all
StillWorks(c) == agent[job[c].agent].runs

\* Only the tasks of the agent read with the ticket are looked at, and not its row.
Resume(c) ==
  /\ job[c].pc = "resume"
  /\ IF job[c].agent = 0 THEN Return(c)
     ELSE IF StillWorks(c) THEN Return(c) ELSE Goto(c, "spawn")
  /\ UNCHANGED <<scene, rows, raced, closed>>

LookForAgent(c) ==
  /\ job[c].pc = "look"
  /\ IF Active(job[c].ticket) # {} THEN Return(c) ELSE Goto(c, "spawn")
  /\ Racing(c, job[c].ticket)
  /\ UNCHANGED <<scene, rows, closed>>

\* start_postmortem and start_workflow_build look only for a task of their own kind.
LookForSame(c) ==
  LET k == job[c].ticket IN
  /\ job[c].pc = "same"
  /\ IF \E a \in DOMAIN agent : agent[a].ticket = k /\ agent[a].by = op(c) /\ agent[a].runs THEN Return(c)
     ELSE Goto(c, IF op(c) = "postmortem" THEN "review" ELSE "spawn")
  /\ raced' = IF op(c) # "postmortem" /\ (Overlapping(c, k) \/ AtWork(k) # {}) THEN raced \cup {k} ELSE raced
  /\ UNCHANGED <<scene, rows, closed>>

NewAgent(c) == [ticket |-> job[c].ticket, active |-> TRUE, runs |-> TRUE, seen |-> FALSE, revived |-> FALSE, by |-> op(c)]

\* A postmortem is not made the ticket's agent.
SpawnReview(c) ==
  /\ job[c].pc = "review"
  /\ agent' = Append(agent, NewAgent(c))
  /\ Return(c)
  /\ UNCHANGED <<scene, ticket, form, raced, closed>>

\* spawn_agent: the rows of agent and task, then the ticket's.
Spawn(c) ==
  /\ job[c].pc = "spawn"
  /\ agent' = Append(agent, NewAgent(c))
  /\ job' = [job EXCEPT ![c].pc = "link", ![c].agent = Len(agent')]
  /\ UNCHANGED <<scene, ticket, form, raced, closed>>

LinkAgent(c) ==
  /\ job[c].pc = "link"
  /\ ticket' = [ticket EXCEPT ![job[c].ticket].agent = job[c].agent, ![job[c].ticket].status = "in_progress"]
  /\ closed' = closed \ {job[c].ticket}
  /\ Return(c)
  /\ UNCHANGED <<scene, agent, form, raced>>

\* An agent ends otherwise: it finishes, fails or is stopped.  Its task's row is written first.
TaskEnds(a) ==
  /\ agent[a].runs
  /\ agent' = [agent EXCEPT ![a].runs = FALSE]
  /\ UNCHANGED <<scene, ticket, form, job, raced, closed>>

AgentEnds(a) ==
  /\ agent[a].active /\ ~agent[a].runs
  /\ agent' = [agent EXCEPT ![a].active = FALSE]
  /\ UNCHANGED <<scene, ticket, form, job, raced, closed>>

\* The tracker reads the tasks that are running, and later writes task and agent as
\* running, whatever became of them; so does the runner with an agent whose task it retries.
TaskRead(a) ==
  /\ scene.tracked /\ agent[a].runs /\ ~agent[a].seen
  /\ agent' = [agent EXCEPT ![a].seen = TRUE]
  /\ UNCHANGED <<scene, ticket, form, job, raced, closed>>

WrittenBack(a) ==
  /\ agent[a].seen
  /\ agent' = [agent EXCEPT ![a] = [@ EXCEPT !.seen = FALSE, !.runs = TRUE, !.active = TRUE,
                                            !.revived = agent[a].revived \/ ~Works(a)]]
  /\ UNCHANGED <<scene, ticket, form, job, raced, closed>>

-----------------------------------------------------------------------------
DeskInit ==
  /\ scene \in Scenes
  /\ ticket = scene.tickets
  /\ agent = <<>> /\ form = <<>>
  /\ job = [c \in Jobs |-> [NoJob EXCEPT !.pc = IF op(c) = "none" THEN "done" ELSE "new"]]
  /\ raced = {} /\ closed = {}

Arrives(c) == ReadTicket(c) \/ WaitEndsAgent(c) \/ ReadForm(c)
Proceeds(c) ==
  \/ ChangeStatus(c) \/ StopAgent(c) \/ Unassign(c) \/ ClearAgent(c)
  \/ OpenForm(c) \/ AskNote(c) \/ Ask(c) \/ ReadPrior(c) \/ WaitAtGate(c) \/ RememberWait(c)
  \/ Answer(c) \/ ExpireForm(c) \/ StoreValues(c) \/ SubmitForm(c) \/ ReadWaiting(c)
  \/ Resume(c) \/ LookForAgent(c) \/ LookForSame(c) \/ Spawn(c) \/ SpawnReview(c) \/ LinkAgent(c)

DeskNext ==
  \/ \E c \in Jobs : Arrives(c) \/ Proceeds(c)
  \/ \E f \in DOMAIN form : FormExpires(f)
  \/ \E a \in DOMAIN agent : TaskEnds(a) \/ AgentEnds(a) \/ TaskRead(a) \/ WrittenBack(a)

-----------------------------------------------------------------------------
(* Properties.                                                             *)

\* What puts a ticket on hold: a question, a wait of its agent, a change of its status.
PutsOnHold(c, k) ==
  /\ scene.orders[c].ticket = k
  /\ op(c) \in {"ask", "askSecure", "wait"} \/ (op(c) \in {"status", "close"} /\ scene.orders[c].to = Awaiting)
StartsOnHold(k) ==
  k \in DOMAIN scene.tickets /\ Awaiting \in {scene.tickets[k].status, scene.tickets[k].asked}
\* A push of another ticket may move its key, to which the sync still writes that ticket's status.
PushedBeside(k) == \E c \in Jobs : op(c) = "push" /\ scene.orders[c].ticket # k

\* Only a second question can make a ticket remember the wait itself as its
\* previous status, unless it was on hold from the start or may get the status of
\* another ticket; one question with its answer, whatever else writes the row,
\* brings the ticket back to work.
WaitRemembersWork ==
  \A k \in DOMAIN ticket :
    ticket[k].asked = Awaiting
      => \/ \E c, d \in Jobs : c # d /\ PutsOnHold(c, k) /\ PutsOnHold(d, k)
         \/ StartsOnHold(k)
         \/ PushedBeside(k)

\* A one-time form takes the values of one submission.
OneSubmit == \A f \in DOMAIN form : Cardinality(form[f].stored) <= 1

\* A ticket has one agent at work on it, a postmortem aside, however many handlers may
\* spawn one and wherever a restart cuts them off, unless two of them overlapped between
\* the read that lets them and their last write, or a workflow build was started beside an
\* agent at work.  An agent that was unassigned is not counted, though its task and its
\* harness go on and a late write may show it at work again; nor is one that had ended and
\* is written back.  The handlers that spawn have seen them gone.
OneAgentUnlessRaced ==
  \A k \in DOMAIN ticket : Cardinality(AtWork(k)) <= 1 \/ k \in raced
=============================================================================
