----------------------------- MODULE ChatBridge -----------------------------
(***************************************************************************)
(* The Matrix bridge of Ops Chat (deploy/ops-chat/bridge/bridge.py) for    *)
(* one room, with the two ends it talks to: the homeserver, which retries  *)
(* a transaction until it is answered 200, and the dashboard               *)
(* (api/routes/ops_chat.py), which runs a turn for each message it gets    *)
(* and keeps the ledger of the ticket updates that went out.               *)
(*                                                                         *)
(* Inbound, the bridge remembers events in memory so that a retried        *)
(* transaction does not repeat them.  Outbound, it polls the updates the   *)
(* ledger does not hold, sends each and acknowledges it afterwards.        *)
(***************************************************************************)
EXTENDS Naturals, Sequences, FiniteSets, SequencesExt

CONSTANTS
  Agendas,       \* what the users and agents may do: [transactions, notes], the
                 \* sequences of events the homeserver will send and the notes
  Invite,        \* the event that invites the bot; every other event is a text message
  Handlers,      \* transactions handlers that may run at a time
  NoHandler,
  Notes,         \* user-facing notes that agents write on tickets
  NoteTicket,    \* the ticket of each note
  NoTicket,
  PollLimit,     \* events in one answer of /outbound/pending (50)
  ClearAt,       \* PROCESSED is emptied when it grows beyond this (5000)
  MaxFaults, MaxTimeouts, MaxCrashes   \* bounds on what the environment does

\* The events of a sequence of transactions.
EventsOf(txns) == UNION {ToSet(txns[t]) : t \in DOMAIN txns}
Events == UNION {EventsOf(a.transactions) : a \in Agendas}
Messages == Events \ {Invite}

ASSUME BridgeAssumption ==
  /\ \A a \in Agendas :
       /\ a.notes \subseteq Notes /\ a.transactions \in Seq(Seq(Events))
       /\ \A t, u \in DOMAIN a.transactions : \A i \in DOMAIN a.transactions[t], j \in DOMAIN a.transactions[u] :
            a.transactions[t][i] = a.transactions[u][j] => t = u /\ i = j
  /\ IsFiniteSet(Handlers) /\ NoHandler \notin Handlers /\ \A n \in Notes : NoteTicket[n] # NoTicket
  /\ {PollLimit, ClearAt} \subseteq Nat \ {0}
  /\ {MaxFaults, MaxTimeouts, MaxCrashes} \subseteq Nat

VARIABLES
  agenda,     \* one of Agendas
  server,     \* the homeserver: transaction to deliver, handler it waits for
  processed,  \* PROCESSED
  handler,    \* the transactions handlers
  recalled,   \* messages taken from the room's history after the invite
  handed,     \* how often a message was posted to the dashboard
  turns,      \* posts whose turn is still running on the dashboard
  session,    \* ops_chat_sessions.latest_ticket_id of the room
  written,    \* the notes written so far, oldest first
  ledger,     \* notes with an ops_chat_messages row under their event key
  poll,       \* the poll_dashboard_outbound coroutine
  acking,     \* the acknowledgement of a note inside the dashboard
  copies,     \* how often a note was posted in the room
  refused,    \* notes the room answered with 403
  spent       \* what the environment did: faults, timeouts, crashes; and clears

inboundVars == <<agenda, server, processed, handler, recalled, handed, turns>>
outboundVars == <<written, ledger, poll, acking, copies, refused>>
vars == <<inboundVars, session, outboundVars, spent>>

HandlerPcs == {"idle", "event", "join", "recents", "handoff", "answer"}
PollPcs == {"asleep", "send", "ack", "acking"}
Idle == [pc |-> "idle", txn |-> 1, at |-> 1, failed |-> FALSE, todo |-> {}, message |-> Invite, post |-> 0]
Asleep == [pc |-> "asleep", batch |-> {}]

Transactions == agenda.transactions
Tickets == {NoteTicket[n] : n \in agenda.notes}
Event(h) == Transactions[handler[h].txn][handler[h].at]
EventsDone(h) == handler[h].at > Len(Transactions[handler[h].txn])
Fault == spent.faults < MaxFaults /\ spent' = [spent EXCEPT !.faults = @ + 1]

-----------------------------------------------------------------------------
(* The homeserver sends one transaction at a time, and gives up waiting    *)
(* for an answer while the bridge goes on with it.                         *)

SendTransaction(h) ==
  /\ server.next <= Len(Transactions) /\ server.waiting = NoHandler
  /\ handler[h].pc = "idle"
  /\ server' = [server EXCEPT !.waiting = h]
  /\ handler' = [handler EXCEPT ![h] = [Idle EXCEPT !.pc = "event", !.txn = server.next]]
  /\ UNCHANGED <<agenda, processed, recalled, handed, turns, session, outboundVars, spent>>

ServerTimeout ==
  /\ server.waiting # NoHandler /\ spent.timeouts < MaxTimeouts
  /\ server' = [server EXCEPT !.waiting = NoHandler]
  /\ spent' = [spent EXCEPT !.timeouts = @ + 1]
  /\ UNCHANGED <<agenda, processed, handler, recalled, handed, turns, session, outboundVars>>

AlwaysAcknowledge(failed) == TRUE \* mutant: answers 200 whatever failed
Acknowledge(failed) == ~failed

\* transactions: 200 when every event was processed, 500 otherwise.
Answer(h) ==
  /\ handler[h].pc = "event" /\ EventsDone(h)
  /\ handler' = [handler EXCEPT ![h] = Idle]
  /\ server' = IF server.waiting # h THEN server
               ELSE [next |-> IF Acknowledge(handler[h].failed) THEN server.next + 1 ELSE server.next,
                     waiting |-> NoHandler]
  /\ UNCHANGED <<agenda, processed, recalled, handed, turns, session, outboundVars, spent>>

-----------------------------------------------------------------------------
(* handle_matrix_event.                                                    *)

Overflows(events, e) == Cardinality(events \cup {e}) > ClearAt
ForgetsAfter(events, e) == events \* mutant: the event is not remembered while it is handled
NeverEmptied(events, e) == events \cup {e} \* mutant: PROCESSED grows without bound
Remembered(events, e) ==
  IF Overflows(events, e) THEN {} ELSE events \cup {e}

DuplicateFails(record) == [record EXCEPT !.at = @ + 1, !.failed = TRUE] \* mutant: a duplicate counts as failed
SkipDuplicate(record) == [record EXCEPT !.at = @ + 1]

TakeEvent(h) ==
  /\ handler[h].pc = "event" /\ ~EventsDone(h)
  /\ IF Event(h) \in processed
       THEN /\ handler' = [handler EXCEPT ![h] = SkipDuplicate(@)]
            /\ UNCHANGED <<processed, spent>>
       ELSE /\ processed' = Remembered(processed, Event(h))
            /\ spent' = [spent EXCEPT !.clears = IF Overflows(processed, Event(h)) THEN @ + 1 ELSE @]
            /\ handler' = [handler EXCEPT ![h].message = Event(h),
                                          ![h].pc = IF Event(h) = Invite THEN "join" ELSE "handoff"]
  /\ UNCHANGED <<agenda, server, recalled, handed, turns, session, outboundVars>>

\* The record at the next event of its transaction.
NextEvent(record) == [record EXCEPT !.pc = "event", !.at = @ + 1, !.message = Invite, !.post = 0]

\* The next event of the transaction, or the next recent message of an invite.
Proceed(h) ==
  handler' = [handler EXCEPT ![h] =
    IF Event(h) = Invite /\ @.message # Invite
      THEN [@ EXCEPT !.pc = "recents", !.message = Invite, !.post = 0]
      ELSE NextEvent(@)]

KeepsFailed(events, e) == events \* mutant: a failed event stays in PROCESSED
Forgotten(events, e) == events \ {e}

\* The except clause: only the event of the transaction is forgotten.
Fails(h) ==
  /\ processed' = Forgotten(processed, Event(h))
  /\ handler' = [handler EXCEPT ![h] = [NextEvent(@) EXCEPT !.failed = TRUE, !.todo = {}]]

\* Any await of the handler that raises.
HandlerFault(h) ==
  /\ handler[h].pc \in {"join", "handoff", "answer"}
  /\ Fault /\ Fails(h)
  /\ UNCHANGED <<agenda, server, recalled, handed, turns, session, outboundVars>>

\* join_matrix_room and the head of process_recent_room_messages: what the room
\* holds by now, at least the messages the homeserver has already tried to
\* deliver; nothing on an HTTP error.
Join(h) ==
  /\ handler[h].pc = "join"
  /\ \E last \in {0} \cup server.next..Len(Transactions) :
       handler' = [handler EXCEPT ![h].pc = "recents",
                                  ![h].todo = EventsOf(SubSeq(Transactions, 1, last)) \ {Invite}]
  /\ UNCHANGED <<agenda, server, processed, recalled, handed, turns, session, outboundVars, spent>>

\* The room holds d before e.
Precedes(d, e) ==
  \E t, u \in DOMAIN Transactions : \E i \in DOMAIN Transactions[t], j \in DOMAIN Transactions[u] :
    Transactions[t][i] = d /\ Transactions[u][j] = e /\ (t < u \/ (t = u /\ i < j))

\* Message m of the history, the oldest one to do: unless it is known already.
Recall(h, m) ==
  /\ m \in handler[h].todo /\ \A d \in handler[h].todo : ~Precedes(d, m)
  /\ processed' = processed \cup {m}
  /\ recalled' = IF m \in processed THEN recalled ELSE recalled \cup {m}
  /\ handler' = [handler EXCEPT ![h].todo = @ \ {m},
       ![h].pc = IF m \in processed THEN @ ELSE "handoff",
       ![h].message = IF m \in processed THEN @ ELSE m]

TakeRecent(h) ==
  /\ handler[h].pc = "recents"
  /\ \/ handler[h].todo = {} /\ Proceed(h) /\ UNCHANGED <<processed, recalled>>
     \/ \E m \in Messages : Recall(h, m)
  /\ UNCHANGED <<agenda, server, handed, turns, session, outboundVars, spent>>

(* process_user_message_event.                                             *)

\* Attachments and the typing notice, then the post to the dashboard.
HandOff(h) ==
  LET m == handler[h].message IN
  /\ handler[h].pc = "handoff"
  /\ handed' = [handed EXCEPT ![m] = @ + 1]
  /\ turns' = turns \cup {<<m, handed[m] + 1>>}
  /\ handler' = [handler EXCEPT ![h].pc = "answer", ![h].post = handed[m] + 1]
  /\ UNCHANGED <<agenda, server, processed, recalled, session, outboundVars, spent>>

\* The dashboard's result, an HTTP error among them, becomes the reply.
Reply(h) ==
  /\ handler[h].pc = "answer" /\ <<handler[h].message, handler[h].post>> \notin turns
  /\ Proceed(h)
  /\ UNCHANGED <<agenda, server, processed, recalled, handed, turns, session, outboundVars, spent>>

-----------------------------------------------------------------------------
(* The dashboard.                                                          *)

\* _handle_chat_message ends: the assistant message moves the session to the
\* ticket of the turn, if it has one.
EndTurn(turn) ==
  /\ turn \in turns
  /\ turns' = turns \ {turn}
  /\ session' \in Tickets \cup {session}
  /\ UNCHANGED <<agenda, server, processed, handler, recalled, handed, outboundVars, spent>>

WriteNote(n) ==
  /\ n \in agenda.notes \ ToSet(written)
  /\ written' = Append(written, n)
  /\ UNCHANGED <<inboundVars, session, ledger, poll, acking, copies, refused, spent>>

IgnoresLedger(n) == NoteTicket[n] = session \* mutant: the NOT EXISTS clause is gone
IsPending(n) == NoteTicket[n] = session /\ n \notin ledger

\* The ORDER BY of pending_outbound_chat.
Before(m, n) == \E i, j \in DOMAIN written : i < j /\ written[i] = m /\ written[j] = n
Older(n, batch) == {m \in batch : Before(m, n)}

\* pending_outbound_chat: its LIMIT leaves the newer ones for a later poll.
Pending ==
  LET waiting == {n \in ToSet(written) : IsPending(n)} IN
  {n \in waiting : Cardinality(Older(n, waiting)) < PollLimit}

\* ack_outbound_chat: a row under the event key, then the session's ticket.
RecordAck(n) ==
  /\ acking[n] = "arrived"
  /\ IF n \in ledger
       THEN acking' = [acking EXCEPT ![n] = "none"] /\ UNCHANGED ledger
       ELSE acking' = [acking EXCEPT ![n] = "recorded"] /\ ledger' = ledger \cup {n}
  /\ UNCHANGED <<inboundVars, session, written, poll, copies, refused, spent>>

MoveSession(n) ==
  /\ acking[n] = "recorded"
  /\ acking' = [acking EXCEPT ![n] = "none"]
  /\ session' = NoteTicket[n]
  /\ UNCHANGED <<inboundVars, written, ledger, poll, copies, refused, spent>>

\* The request fails inside the dashboard before the row is there.
RefuseAck(n) ==
  /\ acking[n] = "arrived" /\ Fault
  /\ acking' = [acking EXCEPT ![n] = "none"]
  /\ UNCHANGED <<inboundVars, session, written, ledger, poll, copies, refused>>

-----------------------------------------------------------------------------
(* poll_dashboard_outbound.                                                *)

IsNext(n) == n \in poll.batch /\ Older(n, poll.batch) = {}
NextOf(batch) ==
  IF batch = {} THEN Asleep ELSE [pc |-> "send", batch |-> batch]

Fetch ==
  /\ poll.pc = "asleep" /\ Pending # {}
  /\ poll' = NextOf(Pending)
  /\ UNCHANGED <<inboundVars, session, written, ledger, acking, copies, refused, spent>>

SendOutcomes == {"posted", "forbidden", "failed", "raised", "unanswered"}

\* An HTTP error moves on to the next note, an exception ends the pass.
AcksEverySend(n, outcome) == \* mutant: the result of the send is not looked at
  IF outcome \in {"raised", "unanswered"} THEN Asleep ELSE [poll EXCEPT !.pc = "ack"]
RetriesForbidden(n, outcome) == \* mutant: an answer 403 is an error like the others
  CASE outcome = "posted" -> [poll EXCEPT !.pc = "ack"]
    [] outcome \in {"forbidden", "failed"} -> NextOf(poll.batch \ {n})
    [] OTHER -> Asleep
AfterSend(n, outcome) ==
  CASE outcome \in {"posted", "forbidden"} -> [poll EXCEPT !.pc = "ack"]
    [] outcome = "failed" -> NextOf(poll.batch \ {n})
    [] OTHER -> Asleep

\* send_matrix_message; a request without an answer may have posted the note.
Send(n) ==
  /\ poll.pc = "send" /\ IsNext(n)
  /\ \E outcome \in SendOutcomes :
       /\ IF outcome \in {"posted", "forbidden"} THEN UNCHANGED spent ELSE Fault
       /\ copies' = [copies EXCEPT ![n] = IF outcome \in {"posted", "unanswered"} THEN @ + 1 ELSE @]
       /\ refused' = IF outcome = "forbidden" THEN refused \cup {n} ELSE refused
       /\ poll' = AfterSend(n, outcome)
  /\ UNCHANGED <<inboundVars, session, written, ledger, acking>>

Ack(n) ==
  /\ poll.pc = "ack" /\ IsNext(n)
  /\ \/ /\ poll' = [poll EXCEPT !.pc = "acking"]
        /\ acking' = [acking EXCEPT ![n] = IF @ = "none" THEN "arrived" ELSE @]
        /\ UNCHANGED spent
     \/ Fault /\ poll' = Asleep /\ UNCHANGED acking
  /\ UNCHANGED <<inboundVars, session, written, ledger, copies, refused>>

\* The answer of the acknowledgement is not looked at; a timeout ends the pass.
AckAnswered(n) ==
  /\ poll.pc = "acking" /\ IsNext(n)
  /\ \/ acking[n] = "none" /\ poll' = NextOf(poll.batch \ {n}) /\ UNCHANGED spent
     \/ Fault /\ poll' = Asleep
  /\ UNCHANGED <<inboundVars, session, written, ledger, acking, copies, refused>>

-----------------------------------------------------------------------------
\* The bridge dies and starts again; PROCESSED was only in memory.
Crash ==
  /\ spent.crashes < MaxCrashes
  /\ spent' = [spent EXCEPT !.crashes = @ + 1]
  /\ processed' = {}
  /\ handler' = [h \in Handlers |-> Idle]
  /\ server' = [server EXCEPT !.waiting = NoHandler]
  /\ poll' = Asleep
  /\ UNCHANGED <<agenda, recalled, handed, turns, session, written, ledger, acking, copies, refused>>

Init ==
  /\ agenda \in Agendas
  /\ server = [next |-> 1, waiting |-> NoHandler]
  /\ processed = {} /\ recalled = {} /\ turns = {}
  /\ handler = [h \in Handlers |-> Idle]
  /\ handed = [m \in Messages |-> 0]
  /\ session \in Tickets \cup {NoTicket}
  /\ written = <<>> /\ ledger = {} /\ refused = {}
  /\ poll = Asleep
  /\ acking = [n \in Notes |-> "none"]
  /\ copies = [n \in Notes |-> 0]
  /\ spent = [faults |-> 0, timeouts |-> 0, crashes |-> 0, clears |-> 0]

Handle(h) ==
  \/ Answer(h) \/ TakeEvent(h) \/ Join(h) \/ TakeRecent(h) \/ HandOff(h) \/ Reply(h)
PollStep == Fetch \/ \E n \in Notes : Send(n) \/ Ack(n) \/ AckAnswered(n)
DashboardAck(n) == RecordAck(n) \/ MoveSession(n)

Next ==
  \/ \E h \in Handlers : SendTransaction(h) \/ Handle(h) \/ HandlerFault(h)
  \/ ServerTimeout \/ Crash \/ PollStep
  \/ \E turn \in turns : EndTurn(turn)
  \/ \E n \in Notes : WriteNote(n) \/ DashboardAck(n) \/ RefuseAck(n)

Spec == Init /\ [][Next]_vars

\* The homeserver keeps trying, the event loops run what is ready, and a turn of
\* the dashboard ends at its timeout.  Nothing that goes wrong is fair.
FairSpec ==
  /\ Spec
  /\ WF_vars(\E h \in Handlers : SendTransaction(h))
  /\ \A h \in Handlers : WF_vars(Handle(h))
  /\ \A m \in Messages : WF_vars(\E turn \in turns : turn[1] = m /\ EndTurn(turn))
  /\ WF_vars(PollStep) /\ \A n \in Notes : WF_vars(DashboardAck(n))

-----------------------------------------------------------------------------
(* Properties.                                                             *)

\* The coroutines, the homeserver and the ledger stay in their domains, and a
\* handler that is at an event has one.
BridgeTypeOK ==
  /\ agenda \in Agendas
  /\ server \in [next : 1..Len(Transactions) + 1, waiting : Handlers \cup {NoHandler}]
  /\ processed \subseteq Events /\ Cardinality(processed) <= ClearAt + Cardinality(recalled)
  /\ \A h \in Handlers :
       /\ handler[h].pc \in HandlerPcs /\ handler[h].failed \in BOOLEAN
       /\ handler[h].message \in Events \cup {Invite} /\ handler[h].todo \subseteq Messages
       /\ handler[h].pc \in HandlerPcs \ {"idle", "event"} => ~EventsDone(h)
       /\ handler[h].post \in 0..(IF handler[h].message \in Messages THEN handed[handler[h].message] ELSE 0)
  /\ recalled \subseteq Messages
  /\ handed \in [Messages -> Nat] /\ turns \subseteq Messages \X Nat
  /\ session \in Tickets \cup {NoTicket}
  /\ ledger \cup refused \subseteq ToSet(written) /\ ToSet(written) \subseteq agenda.notes
  /\ poll.pc \in PollPcs /\ poll.batch \subseteq ToSet(written)
  /\ poll.pc = "asleep" <=> poll.batch = {}
  /\ acking \in [Notes -> {"none", "arrived", "recorded"}]
  /\ copies \in [Notes -> Nat]

\* A message is handed to the dashboard once, and once more at most for every
\* handler that failed, every restart and every emptying of PROCESSED.  A
\* homeserver that stops waiting and sends the transaction again repeats nothing.
NoSpuriousRepeat ==
  \A m \in Messages : handed[m] <= 1 + spent.faults + spent.crashes + spent.clears

Offered == EventsOf(Transactions) \ {Invite}
TxnOf(m) == CHOOSE t \in DOMAIN Transactions : m \in ToSet(Transactions[t])
InHand(m) == \E h \in Handlers : handler[h].message = m /\ handler[h].pc = "handoff"

\* What can lose a message: the handler that has it fails or dies, and another
\* handler has already passed over it, because the homeserver sent the
\* transaction twice or because the message was taken from the history.
MayBeLost(m) ==
  /\ spent.faults + spent.crashes > 0
  /\ spent.timeouts > 0 \/ m \in recalled

\* A transaction answered with 200 holds no message that nobody handed over or
\* has in hand.
AcceptedIsHandled ==
  \A m \in Offered :
    TxnOf(m) < server.next => handed[m] > 0 \/ InHand(m) \/ MayBeLost(m)

\* The ledger "keeps delivery idempotent across bridge restarts" (ops_chat.py:3194):
\* an update is posted in the room once.  The bridge posts before it acknowledges,
\* and dies in between.
DeliveredOnce == \A n \in Notes : copies[n] <= 1

\* What holds instead: every further copy of an update is the price of a send or an
\* acknowledgement that failed, or of a restart.
CopiesBounded ==
  \A n \in Notes : copies[n] <= 1 + spent.faults + spent.crashes

\* The ledger is an at-least-once delivery: an update leaves the queue only after
\* the room got it or refused it, whatever fails in between.
Contract == INSTANCE Delivery WITH
  Items <- Notes, posted <- ToSet(written), settled <- ledger
AtLeastOnce == Contract!Spec

\* While the session stays on its ticket an update does not wait for ever, though
\* the poll reads only the oldest ones and passes over those that fail.
DeliveredWhileCurrent ==
  \A n \in Notes : n \in ToSet(written) ~> n \in ledger \/ session # NoteTicket[n]

\* Every message reaches the dashboard in the end.
MessagesArrive == \A m \in Messages : <>(m \in Offered => handed[m] > 0 \/ MayBeLost(m))
=============================================================================
