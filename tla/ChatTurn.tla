------------------------------ MODULE ChatTurn ------------------------------
(***************************************************************************)
(* The dashboard's side of one chat room (api/routes/ops_chat.py): each    *)
(* posted message runs a turn, a coroutine that starts an agent harness,   *)
(* lets it act through ops_chat_tool.py, and then says what was done.  The *)
(* tool is a separate process that sends HTTP requests; the dashboard goes *)
(* on with a request whose sender was killed.  A turn that got no result   *)
(* looks in the database for what its harness may have left behind, tries  *)
(* once more, and falls back to the session's own ticket.                  *)
(***************************************************************************)
EXTENDS Naturals, Sequences, FiniteSets, FiniteSetsExt

CONSTANTS
  Turns,        \* calls of _handle_chat_message for the room
  MaxAttempts,  \* bound: the largest OPS_CHAT_AGENT_TOOL_ATTEMPTS of a scene
  MaxCommands,  \* bound: the most commands a harness of a scene gives to the tool
  Scenes,       \* what may happen: [says, before, attempts, commands, offers, asks, faults],
                \* that is the message of each turn, the tickets the session has already,
                \* OPS_CHAT_AGENT_TOOL_ATTEMPTS, and bounds: how many commands a harness
                \* gives to the tool, which ones, with which options, and how many
                \* requests fail
  Silence,      \* says nothing: the turn does not take place
  Kind,         \* what the dashboard makes of each message, by its words
  FollowUps     \* the messages that the tool, by words of its own, takes for follow-ups

Kinds == {"work", "update", "cancel", "chat"}
Messages == DOMAIN Kind
Commands == {"answer", "form", "create", "continue"}

Runs == Turns \X (1..MaxAttempts) \* the attempts
Orders == 1..MaxCommands          \* the commands of an attempt
Earlier == <<Silence, 1>>          \* no attempt of these turns
Status == {"new", "in_progress", "cancelled", "closed"}
Over == {"cancelled", "closed"}
Asks == Status \cup {"spawn", "none"} \* --spawn-agent where it is allowed, --status

\* A row of tickets: the attempt that opened it, the message it was opened for, the
\* messages its description holds, the session its scope names (0: none), whether
\* the note of its opening is on it, and the messages noted as responses.
Row == [by : Runs \cup {Earlier}, text : Messages, described : SUBSET Messages, session : Nat,
        status : Status, noted : {"no", "yes", "late"}, responses : SUBSET Messages, assigned : BOOLEAN]

ASSUME TurnAssumption ==
  /\ Kind \in [Messages -> Kinds] /\ FollowUps \subseteq Messages
  /\ Silence \notin Messages \cup Turns /\ MaxAttempts \in Nat /\ MaxCommands \in Nat
  /\ \A s \in Scenes :
       /\ s.says \in [Turns -> Messages \cup {Silence}] /\ s.attempts \in 1..MaxAttempts
       /\ s.commands \in 0..MaxCommands /\ s.faults \in Nat /\ s.offers \in [Turns -> SUBSET Commands]
       /\ s.asks \subseteq Asks /\ s.before \in Seq(Row)

\* The tickets that are there already are those of earlier turns that went well:
\* described with the message they were opened for, and noted only if assigned.
ASSUME EarlierAssumption ==
  \A s \in Scenes : \A k \in DOMAIN s.before :
    /\ s.before[k].by = Earlier /\ s.before[k].text \in s.before[k].described
    /\ s.before[k].noted # "no" => s.before[k].assigned

VARIABLES
  scene,     \* one of Scenes
  session,   \* rows of ops_chat_sessions for the room, with the tickets and messages linked to them
  current,   \* the session updated last, 0 if there is none
  ticket,    \* rows of tickets, in the order of their ids
  turn,      \* the coroutines
  tool,      \* the tool of each attempt
  request,   \* the POST /api/tickets of each of its commands, inside the dashboard
  result,    \* its result file and the last structured line of its actions file
  declined,  \* history: tickets that a create-ticket was told not to give an agent
  faults

rows == <<session, current, ticket>>
vars == <<scene, rows, turn, tool, request, result, declined, faults>>

says == scene.says
Attempts == scene.attempts
Session(t) == session[turn[t].session]
UpdateLike(m) == Kind[m] \in {"update", "cancel"}

NoResult == [mode |-> "none", ticket |-> 0, claims |-> FALSE]
Result(mode, k) == [mode |-> mode, ticket |-> k, claims |-> FALSE]
Structured(res) == res.mode \in {"ticket", "update"}

Goto(t, pc) == turn' = [turn EXCEPT ![t].pc = pc]
ToolAt(r, pc) == tool' = [tool EXCEPT ![r].pc = pc]
Answer(t, reply) == turn' = [turn EXCEPT ![t].pc = "reply", ![t].reply = reply]

-----------------------------------------------------------------------------
(* _handle_chat_message: the session, the user's row, the context.         *)

FindSession(t) ==
  /\ turn[t].pc = "new"
  /\ turn' = [turn EXCEPT ![t].pc = IF current = 0 THEN "insert" ELSE "record", ![t].session = current]
  /\ UNCHANGED <<scene, rows, tool, request, result, declined, faults>>

InsertSession(t) ==
  /\ turn[t].pc = "insert"
  /\ session' = Append(session, [tickets |-> {}, messages |-> {}])
  /\ current' = Len(session')
  /\ turn' = [turn EXCEPT ![t].pc = "record", ![t].session = Len(session')]
  /\ UNCHANGED <<scene, ticket, tool, request, result, declined, faults>>

RecordUser(t) ==
  /\ turn[t].pc = "record"
  /\ session' = [session EXCEPT ![turn[t].session].messages = @ \cup {says[t]}]
  /\ current' = turn[t].session
  /\ Goto(t, "context")
  /\ UNCHANGED <<scene, ticket, tool, request, result, declined, faults>>

\* _chat_agent_turn: the history and the tickets the tool may continue are read once.
ReadContext(t) ==
  /\ turn[t].pc = "context"
  /\ turn' = [turn EXCEPT ![t].pc = "harness",
                          ![t].history = Session(t).messages, ![t].allowed = Session(t).tickets]
  /\ UNCHANGED <<scene, rows, tool, request, result, declined, faults>>

-----------------------------------------------------------------------------
(* ops_chat_tool.py.  Its work directory and its harness last as long as   *)
(* the attempt; the tool process itself may outlive them.                  *)

Attempting(r) == turn[r[1]].attempt = r[2] /\ turn[r[1]].pc \in {"harness", "killing"}
InTime(r) == Attempting(r) /\ turn[r[1]].pc = "harness"
Commanded(r, command, pc, k, asks) ==
  /\ command \in scene.offers[r[1]] /\ tool[r].commands < scene.commands
  /\ Attempting(r) /\ tool[r].alive /\ tool[r].pc = "idle"
  /\ tool' = [tool EXCEPT ![r] =
       [@ EXCEPT !.pc = pc, !.ticket = k, !.asks = asks, !.commands = tool[r].commands + 1]]

\* The file of an attempt that is over is gone with its directory.
Write(r, res) ==
  result' = IF ~Attempting(r) THEN result
            ELSE [result EXCEPT ![r].shown = res, ![r].action = IF Structured(res) THEN res ELSE @]

AnswerCommand(r) ==
  /\ ~Structured(result[r].shown)
  /\ Commanded(r, "answer", "idle", 0, "none")
  /\ \E claims \in BOOLEAN : Write(r, [mode |-> "general", ticket |-> 0, claims |-> claims])
  /\ UNCHANGED <<scene, rows, turn, request, declined, faults>>

\* request-sensitive-fields: it does not look at what is recorded already.
FormCommand(r) ==
  /\ Commanded(r, "form", "idle", 0, "none")
  /\ Write(r, Result("form", 0))
  /\ UNCHANGED <<scene, rows, turn, request, declined, faults>>

\* create-ticket: a follow-up in a room with tickets is turned away, and so is an
\* account (by the title the harness gives it) whose form has not been submitted.
RefuseCreate(r) ==
  /\ Commanded(r, "create", "idle", 0, "none")
  /\ UNCHANGED <<scene, rows, turn, request, result, declined, faults>>

CreateCommand(r) ==
  /\ ~(turn[r[1]].allowed # {} /\ says[r[1]] \in FollowUps)
  /\ \E asks \in scene.asks \cap {"spawn", "none"} : Commanded(r, "create", "waiting", 0, asks)
  /\ request' = [request EXCEPT ![r][tool'[r].commands].pc = "lookup"]
  /\ UNCHANGED <<scene, rows, turn, result, declined, faults>>

(* POST /api/tickets.                                                      *)

Idempotent(k, s, m) ==
  ticket[k].session = s /\ ticket[k].text = m /\ ticket[k].status \notin Over

\* _find_ops_chat_idempotent_ticket
Lookup(r, n) ==
  LET t == r[1]
      found == {k \in DOMAIN ticket : Idempotent(k, turn[t].session, says[t])} IN
  /\ request[r][n].pc = "lookup"
  /\ request' = [request EXCEPT ![r][n] =
       IF found = {} THEN [pc |-> "insert", ticket |-> 0]
       ELSE [pc |-> "replayed", ticket |-> Min(found)]]
  /\ UNCHANGED <<scene, rows, turn, tool, result, declined, faults>>

\* ticket_service.create_ticket; the description holds the history of the turn.
InsertTicket(r, n) ==
  /\ request[r][n].pc = "insert"
  /\ ticket' = Append(ticket, [by |-> r, text |-> says[r[1]], described |-> turn[r[1]].history,
                  session |-> 0, status |-> "new", noted |-> "no", responses |-> {}, assigned |-> FALSE])
  /\ request' = [request EXCEPT ![r][n] = [pc |-> "scope", ticket |-> Len(ticket')]]
  /\ UNCHANGED <<scene, session, current, turn, tool, result, declined, faults>>

\* The update that stores access_scope, some awaits after the insert.
WriteScope(r, n) ==
  /\ request[r][n].pc = "scope"
  /\ ticket' = [ticket EXCEPT ![request[r][n].ticket].session = turn[r[1]].session]
  /\ request' = [request EXCEPT ![r][n].pc = "created"]
  /\ UNCHANGED <<scene, session, current, turn, tool, result, declined, faults>>

(* The rest of create-ticket.                                              *)

\* The request that the tool waits for.
Posted(r) == request[r][tool[r].commands]
Spawns(r) == tool[r].asks = "spawn"
Declines(r, k) == declined' = IF Spawns(r) THEN declined ELSE declined \cup {k}

\* The answer has come: a note for a new ticket, none for a replay.
PostNote(r) ==
  LET k == Posted(r).ticket IN
  /\ tool[r].alive /\ tool[r].pc = "waiting" /\ Posted(r).pc = "created"
  /\ tool' = [tool EXCEPT ![r] = [@ EXCEPT !.pc = "first", !.ticket = k]]
  /\ ticket' = [ticket EXCEPT ![k].noted = IF InTime(r) THEN "yes" ELSE "late"]
  /\ Declines(r, k)
  /\ UNCHANGED <<scene, session, current, turn, request, result, faults>>

LeavesUnassigned(k, spawn) == "last" \* mutant: a replay never assigns an agent
AfterReplay(k, spawn) == IF spawn /\ ~ticket[k].assigned THEN "assign" ELSE "last"

TakeReplay(r) ==
  LET k == Posted(r).ticket IN
  /\ tool[r].alive /\ tool[r].pc = "waiting" /\ Posted(r).pc = "replayed"
  /\ tool' = [tool EXCEPT ![r] = [@ EXCEPT !.pc = AfterReplay(k, Spawns(r)), !.ticket = k]]
  /\ Declines(r, k)
  /\ UNCHANGED <<scene, rows, turn, request, result, faults>>

\* The result is written before the agent is assigned, and again afterwards.
FirstResult(r) ==
  /\ tool[r].alive /\ tool[r].pc = "first"
  /\ Write(r, Result("ticket", tool[r].ticket)) /\ ToolAt(r, IF Spawns(r) THEN "assign" ELSE "last")
  /\ UNCHANGED <<scene, rows, turn, request, declined, faults>>

\* POST assign-agent: the ticket has an agent afterwards.
AssignAgent(r) ==
  /\ tool[r].alive /\ tool[r].pc = "assign"
  /\ ticket' = [ticket EXCEPT ![tool[r].ticket].assigned = TRUE]
  /\ ToolAt(r, "last")
  /\ UNCHANGED <<scene, session, current, turn, request, result, declined, faults>>

LastResult(r) ==
  /\ tool[r].alive /\ tool[r].pc = "last"
  /\ Write(r, Result("ticket", tool[r].ticket)) /\ ToolAt(r, "idle")
  /\ UNCHANGED <<scene, rows, turn, request, declined, faults>>

(* continue-ticket.                                                        *)

ContinueCommand(r) ==
  /\ \E k \in turn[r[1]].allowed, asks \in scene.asks \cap (Status \cup {"none"}) :
       Commanded(r, "continue", "respond", k, asks)
  /\ UNCHANGED <<scene, rows, turn, request, result, declined, faults>>

\* POST user-response: a note, and the ticket is in progress whatever it was.
Responded(k, m) == [ticket[k] EXCEPT !.responses = @ \cup {m}, !.status = "in_progress"]

Respond(r) ==
  LET m == says[r[1]] IN
  /\ tool[r].alive /\ tool[r].pc = "respond"
  /\ ticket' = [ticket EXCEPT ![tool[r].ticket] = Responded(tool[r].ticket, m)]
  /\ ToolAt(r, IF tool[r].asks # "none" \/ Kind[m] = "cancel" THEN "status" ELSE "report")
  /\ UNCHANGED <<scene, session, current, turn, request, result, declined, faults>>

\* POST status: the one that --status names, or the words of a cancellation.
StatusAsked(r) == IF tool[r].asks = "none" THEN "cancelled" ELSE tool[r].asks

SetStatus(r) ==
  /\ tool[r].alive /\ tool[r].pc = "status"
  /\ ticket' = [ticket EXCEPT ![tool[r].ticket].status = StatusAsked(r)]
  /\ ToolAt(r, "report")
  /\ UNCHANGED <<scene, session, current, turn, request, result, declined, faults>>

ReportUpdate(r) ==
  /\ tool[r].alive /\ tool[r].pc = "report"
  /\ Write(r, Result("update", tool[r].ticket)) /\ ToolAt(r, "idle")
  /\ UNCHANGED <<scene, rows, turn, request, declined, faults>>

\* A request of the tool fails on its side: the dashboard may have served it, or
\* may be serving it still.
ToolFails(r) ==
  LET k == tool[r].ticket IN
  /\ tool[r].alive /\ tool[r].pc \in {"waiting", "assign", "respond", "status"} /\ faults < scene.faults
  /\ faults' = faults + 1
  /\ ToolAt(r, "idle")
  /\ ticket' \in
       {ticket} \cup
       CASE tool[r].pc = "waiting" /\ Posted(r).pc = "created" ->
              {[ticket EXCEPT ![Posted(r).ticket].noted = IF InTime(r) THEN "yes" ELSE "late"]}
         [] tool[r].pc = "assign" -> {[ticket EXCEPT ![k].assigned = TRUE]}
         [] tool[r].pc = "respond" -> {[ticket EXCEPT ![k] = Responded(k, says[r[1]])]}
         [] tool[r].pc = "status" -> {[ticket EXCEPT ![k].status = StatusAsked(r)]}
         [] OTHER -> {}
  /\ UNCHANGED <<scene, session, current, turn, request, result, declined>>

-----------------------------------------------------------------------------
(* _run_chat_harness: how an attempt ends.                                 *)

\* A general reply that claims ticket work is replaced by the last structured action.
Read(r) ==
  LET shown == result[r].shown IN
  IF shown.mode = "general" /\ shown.claims /\ result[r].action # NoResult
    THEN result[r].action ELSE shown

AcceptsClaims(res) == res.mode = "general" \* mutant: the words of the reply are not looked at
Trusted(res) == res.mode = "general" /\ ~res.claims

\* Any result but a general one is the turn's; the others are compared with the database.
Judged(t, res) ==
  [turn[t] EXCEPT !.pc = IF Structured(res) \/ res.mode = "form" THEN "reply" ELSE "recoverUpdate",
                  !.reply = IF Structured(res) \/ res.mode = "form" \/ Trusted(res) THEN res ELSE NoResult]

HarnessEnds(t) ==
  LET r == <<t, turn[t].attempt>> IN
  /\ turn[t].pc = "harness" /\ tool[r].pc = "idle"
  /\ turn' = [turn EXCEPT ![t] = Judged(t, Read(r))]
  /\ UNCHANGED <<scene, rows, tool, request, result, declined, faults>>

\* The result is read first, the harness is ended afterwards.
TimesOut(t) ==
  /\ turn[t].pc = "harness"
  /\ turn' = [turn EXCEPT ![t].pc = "killing", ![t].reply = Read(<<t, turn[t].attempt>>)]
  /\ UNCHANGED <<scene, rows, tool, request, result, declined, faults>>

Killed(t) ==
  LET r == <<t, turn[t].attempt>> IN
  /\ turn[t].pc = "killing"
  /\ turn' = [turn EXCEPT ![t] = Judged(t, turn[t].reply)]
  /\ \E survives \in BOOLEAN : tool' = [tool EXCEPT ![r].alive = survives /\ tool[r].pc # "idle"]
  /\ UNCHANGED <<scene, rows, request, result, declined, faults>>

-----------------------------------------------------------------------------
(* _chat_agent_turn after an attempt, and after the last one.              *)

RecoverUpdate(t) ==
  LET found == {k \in Session(t).tickets : says[t] \in ticket[k].responses} IN
  /\ turn[t].pc = "recoverUpdate"
  /\ IF found # {} THEN \E k \in found : Answer(t, Result("update", k))
     ELSE Goto(t, IF turn[t].reply = NoResult THEN "recoverTicket" ELSE "reply")
  /\ UNCHANGED <<scene, rows, tool, request, result, declined, faults>>

\* _recover_ticket_side_effect: a recent noted ticket whose description holds the
\* message, or, for a request of work, any recent noted ticket of the session, be it
\* an older one for another message or cancelled ("found": the reply is the same).
NotedAndAssigned(k) == ticket[k].noted # "no" /\ ticket[k].assigned \* mutant: asks for an agent as well
Noted(k) == ticket[k].noted # "no"

Recoverable(t) ==
  LET m == says[t]
      noted == {k \in DOMAIN ticket : Noted(k)}
      byText == {k \in noted : m \in ticket[k].described}
      bySession == {k \in noted : ticket[k].session = turn[t].session \/ k \in Session(t).tickets} IN
  IF UpdateLike(m) THEN {}
  ELSE IF byText # {} THEN {Result("ticket", Max(byText))}
  ELSE IF Kind[m] = "work" /\ bySession # {} THEN {Result("found", Max(bySession))}
  ELSE {}

TriesAgain(a) == a \* mutant: the attempts are not counted
NextAttempt(a) == a + 1

RecoverTicket(t) ==
  /\ turn[t].pc = "recoverTicket"
  /\ IF Recoverable(t) # {} THEN \E res \in Recoverable(t) : Answer(t, res)
     ELSE turn' = [turn EXCEPT
            ![t].attempt = IF @ > Attempts THEN @ ELSE NextAttempt(@),
            ![t].pc = CASE turn[t].attempt < Attempts -> "harness"
                        [] turn[t].attempt = Attempts -> "recoverUpdate"
                        [] OTHER -> "fallback"]
  /\ UNCHANGED <<scene, rows, tool, request, result, declined, faults>>

\* _apply_existing_ticket_update_fallback, or the safe failure.
Fallback(t) ==
  LET tickets == Session(t).tickets
      applies == UpdateLike(says[t]) /\ Cardinality(tickets) = 1
      k == CHOOSE k \in tickets : TRUE IN
  /\ turn[t].pc = "fallback"
  /\ IF applies
       THEN /\ ticket' = [ticket EXCEPT ![k].responses = @ \cup {says[t]}, ![k].assigned = TRUE]
            /\ turn' = [turn EXCEPT ![t].pc = IF Kind[says[t]] = "cancel" THEN "cancel" ELSE "reply",
                                    ![t].reply = Result("update", k)]
       ELSE Answer(t, Result("general", 0)) /\ UNCHANGED ticket
  /\ UNCHANGED <<scene, session, current, tool, request, result, declined, faults>>

FallbackCancel(t) ==
  /\ turn[t].pc = "cancel"
  /\ ticket' = [ticket EXCEPT ![turn[t].reply.ticket].status = "cancelled"]
  /\ Goto(t, "reply")
  /\ UNCHANGED <<scene, session, current, tool, request, result, declined, faults>>

\* The assistant's row links the ticket to the session.
RecordReply(t) ==
  /\ turn[t].pc = "reply"
  /\ session' = [session EXCEPT ![turn[t].session].tickets = @ \cup ({turn[t].reply.ticket} \ {0})]
  /\ current' = turn[t].session
  /\ Goto(t, "done")
  /\ UNCHANGED <<scene, ticket, tool, request, result, declined, faults>>

-----------------------------------------------------------------------------
\* The room may have a session with an earlier ticket.
Init ==
  /\ scene \in Scenes
  /\ ticket = scene.before
  /\ session = IF ticket = <<>> THEN <<>>
               ELSE <<[tickets |-> DOMAIN ticket, messages |-> {ticket[k].text : k \in DOMAIN ticket}]>>
  /\ current = Len(session)
  /\ turn = [t \in Turns |-> [pc |-> IF says[t] = Silence THEN "absent" ELSE "new", session |-> 0,
                              attempt |-> 1, history |-> {}, allowed |-> {}, reply |-> NoResult]]
  /\ tool = [r \in Runs |-> [pc |-> "idle", ticket |-> 0, asks |-> "none", commands |-> 0, alive |-> TRUE]]
  /\ request = [r \in Runs |-> [n \in Orders |-> [pc |-> "none", ticket |-> 0]]]
  /\ result = [r \in Runs |-> [shown |-> NoResult, action |-> NoResult]]
  /\ declined = {} /\ faults = 0

Open(t) == FindSession(t) \/ InsertSession(t) \/ RecordUser(t) \/ ReadContext(t)
Close(t) ==
  \/ Killed(t) \/ RecoverUpdate(t) \/ RecoverTicket(t) \/ Fallback(t) \/ FallbackCancel(t) \/ RecordReply(t)
Command(r) ==
  AnswerCommand(r) \/ FormCommand(r) \/ RefuseCreate(r) \/ CreateCommand(r) \/ ContinueCommand(r)
Serve(r) == \E n \in Orders : Lookup(r, n) \/ InsertTicket(r, n) \/ WriteScope(r, n)
ToolStep(r) ==
  \/ PostNote(r) \/ TakeReplay(r) \/ FirstResult(r) \/ AssignAgent(r) \/ LastResult(r)
  \/ Respond(r) \/ SetStatus(r) \/ ReportUpdate(r)

Next ==
  \/ \E t \in Turns : Open(t) \/ HarnessEnds(t) \/ TimesOut(t) \/ Close(t)
  \/ \E r \in Runs : Command(r) \/ Serve(r) \/ ToolStep(r) \/ ToolFails(r)

Spec == Init /\ [][Next]_vars

\* The event loop runs what is ready and the timeout of an attempt comes; what
\* the harness does with the tool is not fair.
FairSpec ==
  /\ Spec
  /\ \A t \in Turns : WF_vars(Open(t) \/ HarnessEnds(t) \/ TimesOut(t) \/ Close(t))
  /\ \A r \in Runs, n \in Orders : WF_vars(Lookup(r, n) \/ InsertTicket(r, n) \/ WriteScope(r, n))

-----------------------------------------------------------------------------
(* Properties.                                                             *)

Done(t) == turn[t].pc = "done"
Says(t, mode) == Done(t) /\ turn[t].reply.mode = mode

\* What a turn tells the user about tickets is so: a general reply claims
\* nothing, an update is recorded on the ticket it names, and a ticket that is
\* reported as opened holds the message in its description.  Not so of a ticket
\* that a request of work got by the session alone ("found"): it may have been
\* opened for another message, or be cancelled.
ClaimsAreBacked ==
  \A t \in Turns :
    LET reply == turn[t].reply IN
    /\ Says(t, "general") => ~reply.claims
    /\ Says(t, "update") => says[t] \in ticket[reply.ticket].responses
    /\ Says(t, "ticket") => says[t] \in ticket[reply.ticket].described
    /\ Says(t, "found") => Kind[says[t]] = "work"

\* The docs' claim that repeated harness retries for one message are suppressed:
\* the attempts of a turn never leave two tickets open.  It does not hold: the key
\* that the lookup compares is written after the ticket, and a create goes on in
\* the dashboard when its sender has given up or was killed.
RetriesOpenOneTicket ==
  \A j, k \in DOMAIN ticket :
    /\ ticket[j].by \in Runs /\ ticket[j].by[1] = ticket[k].by[1]
    /\ {ticket[j].status, ticket[k].status} \cap Over = {}
    => j = k

\* A turn that gives up after its last attempt leaves no ticket behind that was
\* opened and noted while one of its harnesses ran, however the harness ended.
GivesUpWithoutTicket ==
  \A t \in Turns, k \in DOMAIN ticket :
    Says(t, "general") /\ turn[t].attempt > Attempts /\ ~UpdateLike(says[t])
      => ~(ticket[k].by[1] = t /\ ticket[k].noted = "yes")

\* A ticket that a turn reports as opened has its agent, unless a command was told
\* not to start one, or the tool that opened it is still on its way to assign one,
\* was ended on that way, or had a request fail.
ReportedIsAssigned ==
  \A t \in Turns :
    Says(t, "ticket") \/ Says(t, "found") =>
      LET k == turn[t].reply.ticket IN
      \/ ticket[k].assigned \/ k \in declined \/ faults > 0
      \/ \E r \in Runs : tool[r].ticket = k /\ tool[r].pc \in {"first", "assign"}

\* Every message is answered.
TurnsEnd == \A t \in Turns : turn[t].pc = "new" ~> turn[t].pc = "done"
=============================================================================
