-------------------------- MODULE ChatBridgeProofs --------------------------
(***************************************************************************)
(* Proofs about ChatBridge, for every number of handlers, notes and        *)
(* messages, every scene and every bound: the outbound queue implements    *)
(* at-least-once delivery; an update is posted, and a message handed over, *)
(* once more at most for what failed; a transaction that was answered with *)
(* 200 holds no message that nobody handed over; and the state is typed.   *)
(***************************************************************************)
EXTENDS ChatBridge, FiniteSetTheorems, TLAPS

-----------------------------------------------------------------------------
(* The part of the state the outbound queue works on. *)

Acks == {"none", "arrived", "recorded"}
OutboundTypes ==
  /\ agenda \in Agendas
  /\ written \in Seq(Notes) /\ ledger \subseteq Notes /\ refused \subseteq Notes
  /\ poll \in [pc : PollPcs, batch : SUBSET ToSet(written)]
  /\ acking \in [Notes -> Acks] /\ copies \in [Notes -> Nat]
  /\ spent \in [faults : Nat, timeouts : Nat, crashes : Nat, clears : Nat]

\* Everything but the outbound queue: the handlers, the homeserver, the turns.
Inbound ==
  \/ \E h \in Handlers : SendTransaction(h) \/ Handle(h)
  \/ ServerTimeout
  \/ \E turn \in turns : EndTurn(turn)

LEMMA NotesOfAgenda == ASSUME agenda \in Agendas PROVE agenda.notes \subseteq Notes
  BY BridgeAssumption

LEMMA WrittenIsNotes == ASSUME written \in Seq(Notes) PROVE ToSet(written) \subseteq Notes
<1>1. \A i \in DOMAIN written : written[i] \in Notes
  OBVIOUS
<1> QED
  BY <1>1 DEF ToSet

LEMMA AppendAdds ==
  ASSUME NEW n \in Notes, written \in Seq(Notes), written' = Append(written, n)
  PROVE  /\ written' \in Seq(Notes)
         /\ ToSet(written)' = ToSet(written) \cup {n}
<1>1. /\ DOMAIN written = 1..Len(written) /\ Len(written) \in Nat
      /\ DOMAIN written' = 1..(Len(written) + 1)
      /\ \A i \in 1..Len(written) : written'[i] = written[i]
      /\ written'[Len(written) + 1] = n
  OBVIOUS
<1>2. ToSet(written') \subseteq ToSet(written) \cup {n}
  BY <1>1 DEF ToSet
<1>3. ToSet(written) \cup {n} \subseteq ToSet(written')
  <2>1. ASSUME NEW i \in DOMAIN written PROVE i \in DOMAIN written' /\ written'[i] = written[i]
    BY <1>1
  <2>2. Len(written) + 1 \in DOMAIN written'
    BY <1>1
  <2> QED
    BY <1>1, <2>1, <2>2 DEF ToSet
<1>4. written' \in Seq(Notes)
  OBVIOUS
<1> QED
  BY <1>2, <1>3, <1>4 DEF ToSet

\* The notes in front of another one are settled when both are written.
LEMMA OrderIsStable ==
  ASSUME OutboundTypes, NEW m \in Notes, WriteNote(m), NEW n \in poll.batch
  PROVE  IsNext(n)' <=> IsNext(n)
<1>1. /\ written' = Append(written, m) /\ poll' = poll /\ m \notin ToSet(written)
      /\ written \in Seq(Notes) /\ poll.batch \subseteq ToSet(written)
  BY DEF WriteNote, OutboundTypes
<1>2. /\ DOMAIN written = 1..Len(written) /\ Len(written) \in Nat
      /\ DOMAIN written' = 1..(Len(written) + 1)
      /\ \A i \in 1..Len(written) : written'[i] = written[i]
      /\ written'[Len(written) + 1] = m
  BY <1>1
<1>3. \A k \in poll.batch : k # m
  BY <1>1
<1>4. \A k \in poll.batch : Before(k, n)' <=> Before(k, n)
  <2> SUFFICES ASSUME NEW k \in poll.batch PROVE Before(k, n)' <=> Before(k, n)
    OBVIOUS
  <2>1. ASSUME NEW i \in DOMAIN written', NEW j \in DOMAIN written',
               i < j, written'[i] = k, written'[j] = n
        PROVE  i \in DOMAIN written /\ j \in DOMAIN written /\ written[i] = k /\ written[j] = n
    BY <1>2, <1>3, <2>1
  <2>2. ASSUME NEW i \in DOMAIN written, NEW j \in DOMAIN written
        PROVE  /\ i \in DOMAIN written' /\ j \in DOMAIN written'
               /\ written'[i] = written[i] /\ written'[j] = written[j]
    BY <1>2
  <2> QED
    BY <2>1, <2>2 DEF Before
<1> QED
  BY <1>1, <1>4 DEF IsNext, Older

LEMMA NextIsUnique ==
  ASSUME OutboundTypes, NEW m, NEW n, IsNext(m), IsNext(n)
  PROVE  m = n
<1>1. m \in ToSet(written) /\ n \in ToSet(written) /\ written \in Seq(Notes)
  BY DEF IsNext, OutboundTypes
<1>2. PICK i \in DOMAIN written, j \in DOMAIN written : written[i] = m /\ written[j] = n
  BY <1>1 DEF ToSet
<1>3. ~(i < j) /\ ~(j < i)
  BY <1>2 DEF IsNext, Older, Before
<1>4. i \in Nat /\ j \in Nat
  BY <1>1
<1> QED
  BY <1>2, <1>3, <1>4

LEMMA PendingIsWritten ==
  Pending \subseteq {n \in ToSet(written) : n \notin ledger}
  BY DEF Pending, IsPending

LEMMA InboundLeaves == Inbound => UNCHANGED outboundVars /\ UNCHANGED agenda
  BY DEF Inbound, Handle, SendTransaction, Answer, TakeEvent, Join, TakeRecent, HandOff, Reply,
         ServerTimeout, EndTurn, outboundVars, inboundVars

SpentTypes == spent \in [faults : Nat, timeouts : Nat, crashes : Nat, clears : Nat]

LEMMA InboundSpends ==
  ASSUME SpentTypes, Inbound
  PROVE  SpentTypes' /\ spent'.faults = spent.faults /\ spent'.crashes = spent.crashes
<1>1. CASE \E h \in Handlers : SendTransaction(h) \/ Handle(h)
  <2>1. PICK h \in Handlers : SendTransaction(h) \/ Handle(h)
    BY <1>1
  <2>2. CASE TakeEvent(h)
    <3>1. CASE Event(h) \in processed
      BY <2>2, <3>1 DEF TakeEvent, SpentTypes
    <3>2. CASE Event(h) \notin processed
      <4>1. spent' = [spent EXCEPT !.clears = IF Overflows(processed, Event(h)) THEN @ + 1 ELSE @]
        BY <2>2, <3>2 DEF TakeEvent
      <4> QED
        BY <4>1 DEF SpentTypes
    <3> QED
      BY <3>1, <3>2
  <2>3. CASE UNCHANGED spent
    BY <2>3 DEF SpentTypes
  <2> QED
    BY <2>1, <2>2, <2>3 DEF Handle, SendTransaction, Answer, Join, TakeRecent, HandOff, Reply
<1>2. CASE ServerTimeout
  BY <1>2 DEF SpentTypes, ServerTimeout
<1>3. CASE \E turn \in turns : EndTurn(turn)
  BY <1>3 DEF SpentTypes, EndTurn
<1> QED
  BY <1>1, <1>2, <1>3 DEF Inbound

LEMMA FaultSpends ==
  ASSUME SpentTypes, Fault
  PROVE  SpentTypes' /\ spent'.faults = spent.faults + 1 /\ spent'.crashes = spent.crashes
  BY DEF SpentTypes, Fault

LEMMA CrashSpends ==
  ASSUME SpentTypes, Crash
  PROVE  SpentTypes' /\ spent'.faults = spent.faults /\ spent'.crashes = spent.crashes + 1
<1>1. spent' = [spent EXCEPT !.crashes = @ + 1]
  BY DEF Crash
<1>2. spent.crashes + 1 \in Nat
  BY DEF SpentTypes
<1> QED
  BY <1>1, <1>2 DEF SpentTypes

LEMMA TypesStep == OutboundTypes /\ [Next]_vars => OutboundTypes'
<1> SUFFICES ASSUME OutboundTypes, [Next]_vars PROVE OutboundTypes'
  OBVIOUS
<1> USE DEF OutboundTypes
<1>0. SpentTypes
  BY DEF SpentTypes
<1>a. ToSet(written) \subseteq Notes
  BY WrittenIsNotes
<1>1. CASE Inbound
  BY <1>0, <1>1, InboundLeaves, InboundSpends DEF outboundVars, SpentTypes
<1>2. ASSUME NEW h \in Handlers, HandlerFault(h) PROVE OutboundTypes'
  BY <1>0, <1>2, FaultSpends DEF HandlerFault, outboundVars, SpentTypes
<1>3. CASE Crash
  <2>1. poll' = Asleep
    BY <1>3 DEF Crash
  <2>2. UNCHANGED <<agenda, written, ledger, acking, copies, refused>>
    BY <1>3 DEF Crash
  <2>3. spent' \in [faults : Nat, timeouts : Nat, crashes : Nat, clears : Nat]
    BY <1>0, <1>3, CrashSpends DEF SpentTypes
  <2>4. poll' \in [pc : PollPcs, batch : SUBSET ToSet(written)]
    BY <2>1 DEF Asleep, PollPcs
  <2> QED
    BY <2>2, <2>3, <2>4
<1>4. CASE Fetch
  <2>1. Pending \subseteq ToSet(written)
    BY PendingIsWritten
  <2> QED
    BY <1>4, <2>1 DEF Fetch, NextOf, Asleep, PollPcs, inboundVars
<1>5. ASSUME NEW n \in Notes, Send(n) PROVE OutboundTypes'
  <2>1. PICK outcome \in SendOutcomes :
          /\ UNCHANGED spent \/ Fault
          /\ copies' = [copies EXCEPT ![n] = IF outcome \in {"posted", "unanswered"} THEN @ + 1 ELSE @]
          /\ refused' = IF outcome = "forbidden" THEN refused \cup {n} ELSE refused
          /\ poll' = AfterSend(n, outcome)
    BY <1>5 DEF Send
  <2>2. spent' \in [faults : Nat, timeouts : Nat, crashes : Nat, clears : Nat]
    BY <1>0, <2>1, FaultSpends DEF SpentTypes
  <2>3. poll' \in [pc : PollPcs, batch : SUBSET ToSet(written)]
    BY <2>1 DEF AfterSend, NextOf, Asleep, PollPcs
  <2>4. copies' \in [Notes -> Nat] /\ refused' \subseteq Notes
    BY <2>1
  <2> QED
    BY <1>5, <2>2, <2>3, <2>4 DEF Send, inboundVars
<1>6. ASSUME NEW n \in Notes, Ack(n) \/ AckAnswered(n) PROVE OutboundTypes'
  <2>1. spent' \in [faults : Nat, timeouts : Nat, crashes : Nat, clears : Nat]
    BY <1>0, <1>6, FaultSpends DEF SpentTypes, Ack, AckAnswered
  <2>2. poll' \in [pc : PollPcs, batch : SUBSET ToSet(written)]
    BY <1>6 DEF Ack, AckAnswered, NextOf, Asleep, PollPcs
  <2>3. acking' \in [Notes -> Acks]
    BY <1>6 DEF Ack, AckAnswered, Acks
  <2> QED
    BY <1>6, <2>1, <2>2, <2>3 DEF Ack, AckAnswered, inboundVars
<1>7. ASSUME NEW n \in Notes, WriteNote(n) PROVE OutboundTypes'
  BY <1>7, AppendAdds DEF WriteNote, inboundVars
<1>8. ASSUME NEW n \in Notes, DashboardAck(n) PROVE OutboundTypes'
  BY <1>8 DEF DashboardAck, RecordAck, MoveSession, inboundVars, Acks
<1>9. ASSUME NEW n \in Notes, RefuseAck(n) PROVE OutboundTypes'
  BY <1>0, <1>9, FaultSpends DEF RefuseAck, inboundVars, Acks, SpentTypes
<1>10. CASE UNCHANGED vars
  BY <1>10 DEF vars, inboundVars, outboundVars
<1> QED
  BY <1>1, <1>2, <1>3, <1>4, <1>5, <1>6, <1>7, <1>8, <1>9, <1>10 DEF Next, Inbound, PollStep

LEMMA TypesInit == Init => OutboundTypes
<1> SUFFICES ASSUME Init PROVE OutboundTypes
  OBVIOUS
<1>1. written \in Seq(Notes) /\ ToSet(written) = {}
  BY DEF Init, ToSet
<1>2. poll \in [pc : PollPcs, batch : SUBSET ToSet(written)]
  BY <1>1 DEF Init, Asleep, PollPcs
<1>3. acking \in [Notes -> Acks] /\ copies \in [Notes -> Nat]
  BY DEF Init, Acks
<1>4. spent \in [faults : Nat, timeouts : Nat, crashes : Nat, clears : Nat]
  BY DEF Init
<1>5. agenda \in Agendas /\ ledger \subseteq Notes /\ refused \subseteq Notes
  BY DEF Init
<1> QED
  BY <1>1, <1>2, <1>3, <1>4, <1>5 DEF OutboundTypes

-----------------------------------------------------------------------------
(* The outbound queue implements Delivery.  What is on its way into the    *)
(* ledger, in the dashboard or in the poll, has been carried already.      *)

Got(n) == copies[n] > 0 \/ n \in refused
UnderAck(n) == poll.pc \in {"ack", "acking"} /\ IsNext(n)
Backed == \A n \in Notes : acking[n] # "none" \/ UnderAck(n) => Got(n)

LEMMA BackedStep == OutboundTypes /\ Backed /\ [Next]_vars => Backed'
<1> SUFFICES ASSUME OutboundTypes, Backed, [Next]_vars, NEW n \in Notes,
                    acking'[n] # "none" \/ UnderAck(n)'
             PROVE  Got(n)'
  BY DEF Backed
<1>0. acking[n] # "none" \/ UnderAck(n) => Got(n)
  BY DEF Backed
<1>1. CASE UNCHANGED <<written, poll, acking, copies, refused>>
  BY <1>0, <1>1 DEF UnderAck, IsNext, Older, Before, Got
<1>2. CASE Crash \/ Fetch
  BY <1>0, <1>2 DEF Crash, Fetch, NextOf, Asleep, UnderAck, Got
<1>3. ASSUME NEW m \in Notes, Send(m) PROVE Got(n)'
  <2>1. PICK outcome \in SendOutcomes :
          /\ copies' = [copies EXCEPT ![m] = IF outcome \in {"posted", "unanswered"} THEN @ + 1 ELSE @]
          /\ refused' = IF outcome = "forbidden" THEN refused \cup {m} ELSE refused
          /\ poll' = AfterSend(m, outcome)
    BY <1>3 DEF Send
  <2>2. Got(n) => Got(n)'
    BY <2>1 DEF Got, OutboundTypes
  <2>3. CASE UnderAck(n)'
    <3>1. outcome \in {"posted", "forbidden"} /\ poll'.batch = poll.batch
      BY <2>1, <2>3 DEF UnderAck, AfterSend, NextOf, Asleep, OutboundTypes
    <3>2. IsNext(n)
      BY <1>3, <2>3, <3>1 DEF UnderAck, IsNext, Older, Before, Send
    <3>3. n = m
      BY <1>3, <3>2, NextIsUnique DEF Send
    <3> QED
      BY <2>1, <3>1, <3>3 DEF Got, OutboundTypes
  <2> QED
    BY <1>0, <1>3, <2>2, <2>3 DEF Send
<1>4. ASSUME NEW m \in Notes, Ack(m) \/ AckAnswered(m) PROVE Got(n)'
  <2>1. UNCHANGED <<written, copies, refused>>
    BY <1>4 DEF Ack, AckAnswered
  <2>2. UnderAck(n)' => UnderAck(n)
    BY <1>4, <2>1 DEF Ack, AckAnswered, UnderAck, IsNext, Older, Before, NextOf, Asleep, OutboundTypes
  <2>3. acking'[n] # "none" => acking[n] # "none" \/ n = m
    BY <1>4 DEF Ack, AckAnswered, OutboundTypes
  <2>4. n = m => UnderAck(n)
    BY <1>4 DEF Ack, AckAnswered, UnderAck
  <2> QED
    BY <1>0, <2>1, <2>2, <2>3, <2>4 DEF Got
<1>5. ASSUME NEW m \in Notes, WriteNote(m) PROVE Got(n)'
  <2>1. UnderAck(n)' => UnderAck(n)
    <3>1. UNCHANGED poll
      BY <1>5 DEF WriteNote
    <3>2. CASE n \in poll.batch
      BY <1>5, <3>1, <3>2, OrderIsStable DEF UnderAck
    <3>3. CASE n \notin poll.batch
      BY <3>1, <3>3 DEF UnderAck, IsNext
    <3> QED
      BY <3>2, <3>3
  <2> QED
    BY <1>0, <1>5, <2>1 DEF WriteNote, Got
<1>6. ASSUME NEW m \in Notes, DashboardAck(m) \/ RefuseAck(m) PROVE Got(n)'
  <2>1. UNCHANGED <<written, poll, copies, refused>>
    BY <1>6 DEF DashboardAck, RecordAck, MoveSession, RefuseAck
  <2>2. UnderAck(n)' => UnderAck(n)
    BY <2>1 DEF UnderAck, IsNext, Older, Before
  <2>3. acking'[n] # "none" => acking[n] # "none"
    BY <1>6 DEF DashboardAck, RecordAck, MoveSession, RefuseAck, OutboundTypes
  <2> QED
    BY <1>0, <2>1, <2>2, <2>3 DEF Got
<1>7. CASE Inbound
  BY <1>1, <1>7, InboundLeaves DEF outboundVars
<1>8. ASSUME NEW h \in Handlers, HandlerFault(h) PROVE Got(n)'
  BY <1>1, <1>8 DEF HandlerFault, outboundVars
<1>9. CASE UNCHANGED vars
  BY <1>1, <1>9 DEF vars, outboundVars
<1> QED
  BY <1>2, <1>3, <1>4, <1>5, <1>6, <1>7, <1>8, <1>9 DEF Next, Inbound, PollStep

LEMMA StepDelivers ==
  OutboundTypes /\ Backed /\ [Next]_vars => [Contract!Next]_(Contract!vars)
<1> SUFFICES ASSUME OutboundTypes, Backed, [Next]_vars
             PROVE  [Contract!Next]_(Contract!vars)
  OBVIOUS
<1> USE DEF Contract!vars
<1>1. CASE UNCHANGED <<written, copies, refused, ledger>>
  BY <1>1
<1>2. ASSUME NEW n \in Notes, WriteNote(n) PROVE Contract!Post(n)
  BY <1>2, AppendAdds DEF WriteNote, Contract!Post, OutboundTypes
<1>3. ASSUME NEW n \in Notes, RecordAck(n)
      PROVE  Contract!Settle(n) \/ UNCHANGED Contract!vars
  BY <1>3 DEF RecordAck, Contract!Settle, Backed, Got
<1>4. ASSUME NEW n \in Notes, Send(n)
      PROVE  Contract!Deliver(n) \/ Contract!Refuse(n) \/ UNCHANGED Contract!vars
  <2>1. n \in ToSet(written)
    BY <1>4 DEF Send, IsNext, OutboundTypes
  <2>2. PICK outcome \in SendOutcomes :
          /\ copies' = [copies EXCEPT ![n] = IF outcome \in {"posted", "unanswered"} THEN @ + 1 ELSE @]
          /\ refused' = IF outcome = "forbidden" THEN refused \cup {n} ELSE refused
    BY <1>4 DEF Send
  <2>3. UNCHANGED <<written, ledger>>
    BY <1>4 DEF Send
  <2>4. CASE outcome \in {"posted", "unanswered"}
    BY <2>1, <2>2, <2>3, <2>4 DEF Contract!Deliver
  <2>5. CASE outcome = "forbidden"
    BY <2>1, <2>2, <2>3, <2>5 DEF Contract!Refuse, OutboundTypes
  <2>6. CASE outcome \in {"failed", "raised"}
    BY <2>2, <2>3, <2>6 DEF OutboundTypes
  <2> QED
    BY <2>4, <2>5, <2>6 DEF SendOutcomes
<1>5. CASE Inbound
  BY <1>1, <1>5, InboundLeaves DEF outboundVars
<1>6. CASE \E h \in Handlers : HandlerFault(h)
  BY <1>1, <1>6 DEF HandlerFault, outboundVars
<1>7. CASE Crash \/ Fetch \/ \E n \in Notes : Ack(n) \/ AckAnswered(n) \/ MoveSession(n) \/ RefuseAck(n)
  BY <1>1, <1>7 DEF Crash, Fetch, Ack, AckAnswered, MoveSession, RefuseAck
<1>8. CASE UNCHANGED vars
  BY <1>1, <1>8 DEF vars, outboundVars
<1> QED
  BY <1>2, <1>3, <1>4, <1>5, <1>6, <1>7, <1>8
     DEF Next, Inbound, PollStep, DashboardAck, Contract!Next

\* pending_outbound_chat, poll_dashboard_outbound and ack_outbound_chat together are
\* an at-least-once queue: no update enters the ledger that the room neither got nor
\* refused, whatever fails, times out or restarts in between.
THEOREM Implements == Spec => AtLeastOnce
<1>1. Init => OutboundTypes /\ Backed /\ Contract!Init
  <2>1. Init => Backed
    BY DEF Init, Backed, UnderAck, Asleep
  <2>2. Init => Contract!Init
    BY DEF Init, Contract!Init, ToSet
  <2> QED
    BY <2>1, <2>2, TypesInit
<1>2. OutboundTypes /\ Backed /\ [Next]_vars => OutboundTypes' /\ Backed'
  BY TypesStep, BackedStep
<1>3. OutboundTypes /\ Backed /\ [Next]_vars => [Contract!Next]_(Contract!vars)
  BY StepDelivers
<1> QED
  BY <1>1, <1>2, <1>3, PTL DEF Spec, AtLeastOnce, Contract!Spec

-----------------------------------------------------------------------------
(* How often an update is posted.  What went wrong so far pays for the     *)
(* copies of every note that is going to be posted again: one in the batch *)
(* of the poll, or outside the ledger with no acknowledgement to come.     *)

Trouble == spent.faults + spent.crashes
ToBePosted(n) ==
  \/ (n \in poll.batch \/ n \notin ledger) /\ ~UnderAck(n)
  \/ poll.pc = "acking" /\ IsNext(n) /\ acking[n] = "none" /\ n \notin ledger
Paid ==
  \A n \in Notes :
    /\ copies[n] <= 1 + Trouble
    /\ ToBePosted(n) => copies[n] <= Trouble
    /\ acking[n] = "recorded" => n \in ledger

\* A failure or a restart pays for one more copy of every note.
LEMMA TroublePays ==
  ASSUME OutboundTypes, Paid, spent' \in [faults : Nat, timeouts : Nat, crashes : Nat, clears : Nat],
         Trouble' = Trouble + 1, UNCHANGED <<copies, ledger>>,
         \A n \in Notes : acking'[n] = "recorded" => acking[n] = "recorded"
  PROVE  Paid'
<1>1. Trouble \in Nat
  BY DEF Trouble, OutboundTypes
<1>2. copies \in [Notes -> Nat]
  BY DEF OutboundTypes
<1> QED
  BY <1>1, <1>2 DEF Paid

\* Nothing is posted, recorded or promised anew.
LEMMA QuietPays ==
  ASSUME OutboundTypes, Paid, Trouble' = Trouble, UNCHANGED <<copies, ledger>>,
         \A n \in Notes : acking'[n] = "recorded" => acking[n] = "recorded",
         \A n \in Notes : ToBePosted(n)' => ToBePosted(n)
  PROVE  Paid'
  BY DEF Paid

LEMMA FaultIsTrouble ==
  ASSUME OutboundTypes, Fault \/ Crash
  PROVE  /\ Trouble' = Trouble + 1
         /\ spent' \in [faults : Nat, timeouts : Nat, crashes : Nat, clears : Nat]
<1>1. SpentTypes
  BY DEF OutboundTypes, SpentTypes
<1> QED
  BY <1>1, FaultSpends, CrashSpends DEF Trouble, SpentTypes

LEMMA SendPays == ASSUME OutboundTypes, Paid, NEW m \in Notes, Send(m) PROVE Paid'
<1>1. PICK outcome \in SendOutcomes :
        /\ IF outcome \in {"posted", "forbidden"} THEN UNCHANGED spent ELSE Fault
        /\ copies' = [copies EXCEPT ![m] = IF outcome \in {"posted", "unanswered"} THEN @ + 1 ELSE @]
        /\ poll' = AfterSend(m, outcome)
  BY DEF Send
<1>2. Trouble \in Nat /\ copies \in [Notes -> Nat]
  BY DEF Trouble, OutboundTypes
<1>3. poll.pc = "send" /\ IsNext(m) /\ m \in poll.batch /\ UNCHANGED <<written, ledger, acking>>
  BY DEF Send, IsNext
<1>4. copies[m] <= Trouble
  BY <1>3 DEF Paid, ToBePosted, UnderAck
<1>5. CASE outcome \in {"posted", "forbidden"}
  <2>1. Trouble' = Trouble
    BY <1>1, <1>5 DEF Trouble
  <2>2. poll'.pc = "ack" /\ poll'.batch = poll.batch
    BY <1>1, <1>5 DEF AfterSend, OutboundTypes
  <2>3. \A n : IsNext(n)' <=> IsNext(n)
    BY <1>3, <2>2 DEF IsNext, Older, Before
  <2>4. ~ToBePosted(m)'
    BY <1>3, <2>2, <2>3 DEF ToBePosted, UnderAck
  <2>5. \A n \in Notes : ToBePosted(n)' => ToBePosted(n)
    BY <1>3, <2>2, <2>3 DEF ToBePosted, UnderAck
  <2>6. /\ copies'[m] <= 1 + Trouble
        /\ \A n \in Notes : n # m => copies'[n] = copies[n]
    BY <1>1, <1>2, <1>4
  <2> QED
    BY <1>3, <2>1, <2>4, <2>5, <2>6 DEF Paid
<1>6. CASE outcome \in {"failed", "raised", "unanswered"}
  <2>1. Trouble' = Trouble + 1
    BY <1>1, <1>6, FaultIsTrouble
  <2>2. copies'[m] <= Trouble + 1 /\ \A n \in Notes : n # m => copies'[n] = copies[n]
    BY <1>1, <1>2, <1>4
  <2>3. \A n \in Notes : copies'[n] <= Trouble'
    BY <1>2, <2>1, <2>2 DEF Paid
  <2>4. \A n \in Notes : copies'[n] <= 1 + Trouble'
    BY <1>1, <1>2, <2>1, <2>3
  <2>5. \A n \in Notes : acking'[n] = "recorded" => n \in ledger'
    BY <1>3 DEF Paid
  <2> QED
    BY <2>3, <2>4, <2>5 DEF Paid
<1> QED
  BY <1>5, <1>6 DEF SendOutcomes

LEMMA PaidStep == OutboundTypes /\ Paid /\ [Next]_vars => Paid'
<1> SUFFICES ASSUME OutboundTypes, Paid, [Next]_vars PROVE Paid'
  OBVIOUS
<1>1. ASSUME UNCHANGED <<written, poll, acking, copies, ledger>>, UNCHANGED Trouble PROVE Paid'
  BY <1>1 DEF Paid, ToBePosted, UnderAck, IsNext, Older, Before
<1>2. CASE Inbound
  <2>1. SpentTypes
    BY DEF OutboundTypes, SpentTypes
  <2> QED
    BY <1>1, <1>2, <2>1, InboundLeaves, InboundSpends DEF outboundVars, Trouble
<1>3. ASSUME NEW h \in Handlers, HandlerFault(h) PROVE Paid'
  BY <1>3, FaultIsTrouble, TroublePays DEF HandlerFault, outboundVars
<1>4. CASE Crash
  BY <1>4, FaultIsTrouble, TroublePays DEF Crash
<1>5. CASE Fetch
  <2>1. UNCHANGED <<written, acking, copies, ledger, spent>> /\ poll' = NextOf(Pending)
    BY <1>5 DEF Fetch
  <2>2. \A n \in Pending : n \notin ledger
    BY PendingIsWritten
  <2>3. poll.pc = "asleep" /\ poll'.pc = "send" /\ poll'.batch = Pending
    BY <1>5, <2>1 DEF Fetch, NextOf
  <2>4. \A n \in Notes : ToBePosted(n)' => ToBePosted(n)
    BY <2>1, <2>2, <2>3 DEF ToBePosted, UnderAck
  <2> QED
    BY <2>1, <2>4, QuietPays DEF Trouble
<1>6. ASSUME NEW m \in Notes, Send(m) PROVE Paid'
  BY <1>6, SendPays
<1>7. ASSUME NEW m \in Notes, Ack(m) PROVE Paid'
  <2>1. CASE Fault
    BY <1>7, <2>1, FaultIsTrouble, TroublePays DEF Ack, Asleep, OutboundTypes
  <2>2. CASE ~Fault
    <3>1. /\ poll' = [poll EXCEPT !.pc = "acking"]
          /\ acking' = [acking EXCEPT ![m] = IF @ = "none" THEN "arrived" ELSE @]
          /\ UNCHANGED <<written, copies, ledger, spent>> /\ poll.pc = "ack" /\ IsNext(m)
      BY <1>7, <2>2 DEF Ack
    <3>2. poll'.pc = "acking" /\ poll'.batch = poll.batch /\ acking'[m] # "none"
      BY <3>1 DEF OutboundTypes
    <3>3. \A n : IsNext(n)' <=> IsNext(n)
      BY <3>1, <3>2 DEF IsNext, Older, Before
    <3>4. \A n : IsNext(n) => n = m
      BY <3>1, NextIsUnique
    <3>5. \A n \in Notes : ToBePosted(n)' => ToBePosted(n)
      BY <3>1, <3>2, <3>3, <3>4 DEF ToBePosted, UnderAck
    <3>6. \A n \in Notes : acking'[n] = "recorded" => acking[n] = "recorded"
      BY <3>1 DEF OutboundTypes
    <3> QED
      BY <3>1, <3>5, <3>6, QuietPays DEF Trouble
  <2> QED
    BY <2>1, <2>2
<1>8. ASSUME NEW m \in Notes, AckAnswered(m) PROVE Paid'
  <2>1. CASE Fault
    BY <1>8, <2>1, FaultIsTrouble, TroublePays DEF AckAnswered
  <2>2. CASE ~Fault
    <3>1. /\ poll.pc = "acking" /\ IsNext(m) /\ acking[m] = "none"
          /\ poll' = NextOf(poll.batch \ {m}) /\ UNCHANGED <<written, acking, copies, ledger, spent>>
      BY <1>8, <2>2 DEF AckAnswered
    <3>2. poll'.pc \notin {"ack", "acking"} /\ poll'.batch = poll.batch \ {m}
      BY <3>1 DEF NextOf, Asleep
    <3>3. \A n : IsNext(n) => n = m
      BY <3>1, NextIsUnique
    <3>4. \A n \in Notes : ToBePosted(n)' => ToBePosted(n)
      BY <3>1, <3>2, <3>3 DEF ToBePosted, UnderAck
    <3> QED
      BY <3>1, <3>4, QuietPays DEF Trouble
  <2> QED
    BY <2>1, <2>2
<1>9. ASSUME NEW m \in Notes, WriteNote(m) PROVE Paid'
  <2>1. UNCHANGED <<poll, acking, copies, ledger, spent>>
    BY <1>9 DEF WriteNote
  <2>2. \A n : IsNext(n)' <=> IsNext(n)
    <3> SUFFICES ASSUME NEW n PROVE IsNext(n)' <=> IsNext(n)
      OBVIOUS
    <3>1. CASE n \in poll.batch
      BY <1>9, <3>1, OrderIsStable
    <3>2. CASE n \notin poll.batch
      BY <2>1, <3>2 DEF IsNext
    <3> QED
      BY <3>1, <3>2
  <2>3. \A n \in Notes : ToBePosted(n)' => ToBePosted(n)
    BY <2>1, <2>2 DEF ToBePosted, UnderAck
  <2> QED
    BY <2>1, <2>3, QuietPays DEF Trouble
<1>10. ASSUME NEW m \in Notes, RecordAck(m) \/ MoveSession(m) PROVE Paid'
  <2>1. /\ UNCHANGED <<written, poll, copies, spent>> /\ ledger \subseteq ledger'
        /\ \A n \in Notes : acking'[n] = "recorded" => n \in ledger'
        /\ \A n \in Notes : acking'[n] = "none" => acking[n] = "none" \/ n \in ledger'
    BY <1>10 DEF RecordAck, MoveSession, OutboundTypes, Paid, inboundVars
  <2>2. \A n : IsNext(n)' <=> IsNext(n)
    BY <2>1 DEF IsNext, Older, Before
  <2>3. \A n \in Notes : ToBePosted(n)' => ToBePosted(n)
    BY <2>1, <2>2 DEF ToBePosted, UnderAck
  <2> QED
    BY <2>1, <2>3 DEF Paid, Trouble
<1>11. ASSUME NEW m \in Notes, RefuseAck(m) PROVE Paid'
  <2>1. \A n \in Notes : acking'[n] = "recorded" => acking[n] = "recorded"
    BY <1>11 DEF RefuseAck, OutboundTypes
  <2> QED
    BY <1>11, <2>1, FaultIsTrouble, TroublePays DEF RefuseAck
<1>12. CASE UNCHANGED vars
  BY <1>1, <1>12 DEF vars, outboundVars, Trouble
<1> QED
  BY <1>2, <1>3, <1>4, <1>5, <1>6, <1>7, <1>8, <1>9, <1>10, <1>11, <1>12
     DEF Next, Inbound, PollStep, DashboardAck

\* An update is not delivered once; the duplicates a room sees are accounted for:
\* one more at most for every send or acknowledgement that failed and every restart
\* of the bridge, though the ledger is written only after the room has the update.
THEOREM CopiesAccountedFor == Spec => []CopiesBounded
<1>1. Init => OutboundTypes /\ Paid
  <2>1. Init => Paid
    BY DEF Init, Paid, Trouble, ToBePosted, UnderAck, IsNext, Asleep
  <2> QED
    BY <2>1, TypesInit
<1>2. OutboundTypes /\ Paid /\ [Next]_vars => OutboundTypes' /\ Paid'
  BY TypesStep, PaidStep
<1>3. OutboundTypes /\ Paid => CopiesBounded
  BY DEF Paid, Trouble, CopiesBounded, OutboundTypes
<1> QED
  BY <1>1, <1>2, <1>3, PTL DEF Spec

-----------------------------------------------------------------------------
(* How often a message is handed over.  A handler that is about to hand a  *)
(* message over took it when the bridge did not remember it.               *)

Holding(m) == {h \in Handlers : handler[h].pc = "handoff" /\ handler[h].message = m}
Known(m) == IF m \in processed THEN 1 ELSE 0
Forgets == spent.faults + spent.crashes + spent.clears
Accounted ==
  \A m \in Messages : handed[m] + Cardinality(Holding(m)) <= Known(m) + Forgets

IsHandler(r) ==
  r = [pc |-> r.pc, txn |-> r.txn, at |-> r.at, failed |-> r.failed, todo |-> r.todo,
       message |-> r.message, post |-> r.post]
InboundTypes ==
  /\ DOMAIN handler = Handlers /\ \A h \in Handlers : IsHandler(handler[h])
  /\ handed \in [Messages -> Nat]
  /\ SpentTypes

\* What a step does to handler h, as far as the count can tell.
Moves(h, pc, m) ==
  /\ DOMAIN handler' = Handlers /\ IsHandler(handler'[h])
  /\ handler'[h].pc = pc /\ handler'[h].message = m
  /\ \A g \in Handlers \ {h} : handler'[g] = handler[g]

LEMMA HoldingIsCounted == \A m : IsFiniteSet(Holding(m)) /\ Cardinality(Holding(m)) \in Nat
<1> SUFFICES ASSUME NEW m PROVE IsFiniteSet(Holding(m)) /\ Cardinality(Holding(m)) \in Nat
  OBVIOUS
<1>1. Holding(m) \subseteq Handlers /\ IsFiniteSet(Handlers)
  BY BridgeAssumption DEF Holding
<1> QED
  BY <1>1, FS_Subset, FS_CardinalityType

\* A step of h changes the count of a message by the place of h.
LEMMA CountMoves ==
  ASSUME NEW h \in Handlers, NEW pc, NEW m, Moves(h, pc, m), NEW k
  PROVE  /\ ~(pc = "handoff" /\ m = k) => Cardinality(Holding(k)') <= Cardinality(Holding(k))
         /\ Cardinality(Holding(k)') <= Cardinality(Holding(k)) + 1
         /\ h \in Holding(k) /\ pc # "handoff" => Cardinality(Holding(k)') = Cardinality(Holding(k)) - 1
         /\ Cardinality(Holding(k)') \in Nat
<1>1. IsFiniteSet(Holding(k)) /\ Cardinality(Holding(k)) \in Nat
  BY HoldingIsCounted
<1>2. CASE pc = "handoff" /\ m = k
  <2>1. Holding(k)' = Holding(k) \cup {h}
    BY <1>2 DEF Moves, Holding
  <2>2. /\ Cardinality(Holding(k) \cup {h}) \in Nat
        /\ Cardinality(Holding(k) \cup {h}) <= Cardinality(Holding(k)) + 1
    <3>1. IsFiniteSet(Holding(k) \cup {h})
      BY <1>1, FS_AddElement
    <3>2. Cardinality(Holding(k) \cup {h}) =
            IF h \in Holding(k) THEN Cardinality(Holding(k)) ELSE Cardinality(Holding(k)) + 1
      BY <1>1, FS_AddElement
    <3> QED
      BY <1>1, <3>1, <3>2, FS_CardinalityType
  <2> QED
    BY <1>1, <1>2, <2>1, <2>2
<1>3. CASE ~(pc = "handoff" /\ m = k)
  <2>1. Holding(k)' = Holding(k) \ {h}
    BY <1>3 DEF Moves, Holding
  <2>2. Cardinality(Holding(k) \ {h}) =
          IF h \in Holding(k) THEN Cardinality(Holding(k)) - 1 ELSE Cardinality(Holding(k))
    BY <1>1, FS_RemoveElement
  <2>3. IsFiniteSet(Holding(k) \ {h})
    BY <1>1, FS_RemoveElement
  <2>4. Cardinality(Holding(k) \ {h}) \in Nat
    BY <2>3, FS_CardinalityType
  <2> QED
    BY <1>1, <1>3, <2>1, <2>2, <2>4
<1> QED
  BY <1>2, <1>3

\* A step of a handler that hands nothing over and takes nothing new.
LEMMA HandlerGoesOn ==
  ASSUME InboundTypes, NEW h \in Handlers,
         \/ SendTransaction(h) \/ Answer(h) \/ Join(h) \/ Reply(h) \/ HandOff(h)
         \/ HandlerFault(h)
         \/ TakeEvent(h) /\ Event(h) \in processed
         \/ TakeRecent(h) /\ (handler[h].todo = {} \/ \E k \in processed : Recall(h, k))
  PROVE  \E m : \E pc \in HandlerPcs \ {"handoff"} : Moves(h, pc, m)
<1>0. DOMAIN handler = Handlers /\ IsHandler(handler[h])
  BY DEF InboundTypes
<1> USE <1>0 DEF Moves, IsHandler, HandlerPcs
<1>1. CASE SendTransaction(h) \/ Answer(h)
  <2>1. ASSUME SendTransaction(h) PROVE Moves(h, "event", Invite)
    BY <2>1 DEF SendTransaction, Idle
  <2>2. ASSUME Answer(h) PROVE Moves(h, "idle", Invite)
    BY <2>2 DEF Answer, Idle
  <2> QED
    BY <1>1, <2>1, <2>2
<1>2. CASE Join(h)
  <2>1. PICK todo : handler' = [handler EXCEPT ![h].pc = "recents", ![h].todo = todo]
    BY <1>2 DEF Join
  <2>2. Moves(h, "recents", handler[h].message)
    BY <2>1
  <2> QED
    BY <2>2
<1>3. CASE HandOff(h)
  <2>1. PICK post : handler' = [handler EXCEPT ![h].pc = "answer", ![h].post = post]
    BY <1>3 DEF HandOff
  <2>2. Moves(h, "answer", handler[h].message)
    BY <2>1
  <2> QED
    BY <2>2
<1>4. ASSUME Proceed(h) PROVE \E m : \E pc \in HandlerPcs \ {"handoff"} : Moves(h, pc, m)
  <2>1. CASE Event(h) = Invite /\ handler[h].message # Invite
    <3>1. Moves(h, "recents", Invite)
      BY <1>4, <2>1 DEF Proceed
    <3> QED
      BY <3>1
  <2>2. CASE ~(Event(h) = Invite /\ handler[h].message # Invite)
    <3>1. Moves(h, "event", Invite)
      BY <1>4, <2>2 DEF Proceed, NextEvent
    <3> QED
      BY <3>1
  <2> QED
    BY <2>1, <2>2
<1>5. CASE Reply(h)
  BY <1>4, <1>5 DEF Reply
<1>6. CASE HandlerFault(h)
  <2>1. Moves(h, "event", Invite)
    BY <1>6 DEF HandlerFault, Fails, NextEvent
  <2> QED
    BY <2>1
<1>7. CASE TakeEvent(h) /\ Event(h) \in processed
  BY <1>7 DEF TakeEvent, SkipDuplicate
<1>8. CASE TakeRecent(h) /\ handler[h].todo = {}
  BY <1>4, <1>8 DEF TakeRecent, Recall
<1>9. ASSUME NEW k \in processed, Recall(h, k), TakeRecent(h)
      PROVE  \E m : \E pc \in HandlerPcs \ {"handoff"} : Moves(h, pc, m)
  <2>1. Moves(h, "recents", handler[h].message)
    BY <1>9 DEF TakeRecent, Recall
  <2> QED
    BY <2>1
<1> QED
  BY <1>1, <1>2, <1>3, <1>5, <1>6, <1>7, <1>8, <1>9

LEMMA HandlerTakesNew ==
  ASSUME InboundTypes, NEW h \in Handlers, NEW m,
         \/ TakeEvent(h) /\ m = Event(h) /\ m \notin processed
         \/ TakeRecent(h) /\ Recall(h, m) /\ m \notin processed
  PROVE  \E pc \in HandlerPcs : Moves(h, pc, m)
<1>0. DOMAIN handler = Handlers /\ IsHandler(handler[h])
  BY DEF InboundTypes
<1> USE <1>0 DEF Moves, IsHandler, HandlerPcs
<1>1. CASE TakeEvent(h) /\ m = Event(h) /\ m \notin processed
  <2>1. handler' = [handler EXCEPT ![h].message = m, ![h].pc = IF m = Invite THEN "join" ELSE "handoff"]
    BY <1>1 DEF TakeEvent
  <2>2. Moves(h, IF m = Invite THEN "join" ELSE "handoff", m)
    BY <2>1
  <2> QED
    BY <2>2
<1>2. CASE TakeRecent(h) /\ Recall(h, m) /\ m \notin processed
  <2>1. handler' = [handler EXCEPT ![h].todo = @ \ {m}, ![h].pc = "handoff", ![h].message = m]
    BY <1>2 DEF TakeRecent, Recall
  <2>2. Moves(h, "handoff", m)
    BY <2>1
  <2> QED
    BY <2>2
<1> QED
  BY <1>1, <1>2

\* The steps that leave the handlers and what they remember alone.
Elsewhere ==
  \/ ServerTimeout \/ PollStep \/ \E turn \in turns : EndTurn(turn)
  \/ \E n \in Notes : WriteNote(n) \/ DashboardAck(n) \/ RefuseAck(n)

LEMMA ElsewhereLeaves ==
  ASSUME SpentTypes, Elsewhere
  PROVE  /\ UNCHANGED <<handler, processed, handed>>
         /\ SpentTypes' /\ Forgets' \in {Forgets, Forgets + 1}
<1>1. UNCHANGED <<handler, processed, handed>>
  BY DEF Elsewhere, ServerTimeout, PollStep, Fetch, Send, Ack, AckAnswered, EndTurn, WriteNote,
         DashboardAck, RecordAck, MoveSession, RefuseAck, inboundVars
<1>2. UNCHANGED spent \/ Fault \/ spent' = [spent EXCEPT !.timeouts = @ + 1]
  BY DEF Elsewhere, ServerTimeout, PollStep, Fetch, Send, Ack, AckAnswered, EndTurn, WriteNote,
         DashboardAck, RecordAck, MoveSession, RefuseAck
<1>3. CASE UNCHANGED spent
  BY <1>1, <1>3 DEF SpentTypes, Forgets
<1>4. CASE Fault
  BY <1>1, <1>4 DEF Fault, SpentTypes, Forgets
<1>5. CASE spent' = [spent EXCEPT !.timeouts = @ + 1]
  BY <1>1, <1>5 DEF SpentTypes, Forgets
<1> QED
  BY <1>2, <1>3, <1>4, <1>5

\* One step of one handler.
Calmly(h) ==
  \/ SendTransaction(h) \/ Answer(h) \/ Join(h) \/ Reply(h)
  \/ TakeEvent(h) /\ Event(h) \in processed
  \/ TakeRecent(h) /\ (handler[h].todo = {} \/ \E k \in processed : Recall(h, k))

Balance(k) == handed[k] + Cardinality(Holding(k)) <= Known(k) + Forgets

LEMMA BalanceTypes ==
  ASSUME InboundTypes, NEW k \in Messages
  PROVE  handed[k] \in Nat /\ Cardinality(Holding(k)) \in Nat /\ Known(k) \in {0, 1} /\ Forgets \in Nat
  BY HoldingIsCounted DEF InboundTypes, SpentTypes, Known, Forgets

LEMMA CalmAccounts ==
  ASSUME InboundTypes, Accounted, NEW h \in Handlers, Calmly(h)
  PROVE  InboundTypes' /\ Accounted'
<1>1. UNCHANGED <<processed, handed, spent>>
  BY DEF Calmly, SendTransaction, Answer, Join, Reply, TakeEvent, TakeRecent, Recall
<1>m. PICK m : \E pc \in HandlerPcs \ {"handoff"} : Moves(h, pc, m)
  BY HandlerGoesOn DEF Calmly
<1>2. PICK pc \in HandlerPcs \ {"handoff"} : Moves(h, pc, m)
  BY <1>m
<1>3. InboundTypes'
  BY <1>1, <1>2 DEF InboundTypes, Moves, SpentTypes
<1>4. SUFFICES ASSUME NEW k \in Messages
               PROVE  handed'[k] + Cardinality(Holding(k)') <= Known(k)' + Forgets'
  BY <1>3 DEF Accounted
<1>5. Cardinality(Holding(k)') <= Cardinality(Holding(k)) /\ Cardinality(Holding(k)') \in Nat
  BY <1>2, CountMoves
<1>6. Balance(k)
  BY DEF Balance, Accounted
<1>7. Known(k)' = Known(k) /\ Forgets' = Forgets
  BY <1>1 DEF Known, Forgets
<1> QED
  BY <1>1, <1>5, <1>6, <1>7, BalanceTypes DEF Balance

LEMMA HandOffAccounts ==
  ASSUME InboundTypes, Accounted, NEW h \in Handlers, HandOff(h)
  PROVE  InboundTypes' /\ Accounted'
<1>m. PICK m : \E pc \in HandlerPcs \ {"handoff"} : Moves(h, pc, m)
  BY HandlerGoesOn
<1>1. PICK pc \in HandlerPcs \ {"handoff"} : Moves(h, pc, m)
  BY <1>m
<1>2. PICK n : n = handler[h].message
  OBVIOUS
<1>3. /\ handed' = [handed EXCEPT ![n] = @ + 1] /\ UNCHANGED <<processed, spent>>
      /\ h \in Holding(n)
  BY <1>2 DEF HandOff, Holding
<1>4. handed \in [Messages -> Nat] /\ handed' \in [Messages -> Nat]
  <2>1. handed \in [Messages -> Nat]
    BY DEF InboundTypes
  <2>2. \A k \in Messages : handed[k] \in Nat /\ handed[k] + 1 \in Nat
    BY <2>1
  <2>3. \A k \in Messages : handed'[k] = IF k = n THEN handed[k] + 1 ELSE handed[k]
    BY <1>3, <2>1
  <2>4. handed' = [k \in Messages |-> handed'[k]]
    BY <1>3, <2>1
  <2> QED
    BY <2>1, <2>2, <2>3, <2>4
<1>5. InboundTypes'
  BY <1>1, <1>3, <1>4 DEF InboundTypes, Moves, SpentTypes
<1>6. SUFFICES ASSUME NEW k \in Messages
               PROVE  handed'[k] + Cardinality(Holding(k)') <= Known(k)' + Forgets'
  BY <1>5 DEF Accounted
<1>7. Balance(k)
  BY DEF Balance, Accounted
<1>8. Known(k)' = Known(k) /\ Forgets' = Forgets
  BY <1>3 DEF Known, Forgets
<1>9. CASE k = n
  <2>1. Cardinality(Holding(k)') = Cardinality(Holding(k)) - 1
    BY <1>1, <1>3, <1>9, CountMoves
  <2>2. handed'[k] = handed[k] + 1
    BY <1>3, <1>4, <1>9
  <2> QED
    BY <1>7, <1>8, <2>1, <2>2, BalanceTypes DEF Balance
<1>10. CASE k # n
  <2>1. Cardinality(Holding(k)') <= Cardinality(Holding(k)) /\ Cardinality(Holding(k)') \in Nat
    BY <1>1, CountMoves
  <2>2. handed'[k] = handed[k]
    BY <1>3, <1>4, <1>10
  <2> QED
    BY <1>7, <1>8, <2>1, <2>2, BalanceTypes DEF Balance
<1> QED
  BY <1>9, <1>10

LEMMA FaultAccounts ==
  ASSUME InboundTypes, Accounted, NEW h \in Handlers, HandlerFault(h)
  PROVE  InboundTypes' /\ Accounted'
<1>m. PICK m : \E pc \in HandlerPcs \ {"handoff"} : Moves(h, pc, m)
  BY HandlerGoesOn
<1>1. PICK pc \in HandlerPcs \ {"handoff"} : Moves(h, pc, m)
  BY <1>m
<1>2. processed' = processed \ {Event(h)} /\ UNCHANGED handed /\ Fault
  BY DEF HandlerFault, Fails, Forgotten
<1>3. SpentTypes' /\ Forgets' = Forgets + 1
  BY <1>2 DEF InboundTypes, SpentTypes, Fault, Forgets
<1>4. InboundTypes'
  BY <1>1, <1>2, <1>3 DEF InboundTypes, Moves
<1>5. SUFFICES ASSUME NEW k \in Messages
               PROVE  handed'[k] + Cardinality(Holding(k)') <= Known(k)' + Forgets'
  BY <1>4 DEF Accounted
<1>6. Cardinality(Holding(k)') <= Cardinality(Holding(k)) /\ Cardinality(Holding(k)') \in Nat
  BY <1>1, CountMoves
<1>7. Balance(k)
  BY DEF Balance, Accounted
<1>8. Known(k)' \in {0, 1}
  BY DEF Known
<1> QED
  BY <1>2, <1>3, <1>6, <1>7, <1>8, BalanceTypes DEF Balance

LEMMA TakeAccounts ==
  ASSUME InboundTypes, Accounted, NEW h \in Handlers, NEW m, m \notin processed,
         \/ TakeEvent(h) /\ m = Event(h)
         \/ TakeRecent(h) /\ Recall(h, m)
  PROVE  InboundTypes' /\ Accounted'
<1>1. PICK pc \in HandlerPcs : Moves(h, pc, m)
  BY HandlerTakesNew
<1>2. UNCHANGED handed
  BY DEF TakeEvent, TakeRecent
<1>3. SpentTypes'
      /\ \/ Forgets' = Forgets /\ processed' = processed \cup {m}
         \/ Forgets' = Forgets + 1
  <2>1. CASE TakeEvent(h) /\ m = Event(h)
    <3>1. /\ processed' = Remembered(processed, m)
          /\ spent' = [spent EXCEPT !.clears = IF Overflows(processed, m) THEN @ + 1 ELSE @]
      BY <2>1 DEF TakeEvent
    <3>2. CASE Overflows(processed, m)
      <4>1. spent' = [spent EXCEPT !.clears = spent.clears + 1]
        BY <3>1, <3>2
      <4> QED
        BY <4>1 DEF Forgets, InboundTypes, SpentTypes
    <3>3. CASE ~Overflows(processed, m)
      <4>1. spent' = [spent EXCEPT !.clears = spent.clears] /\ processed' = processed \cup {m}
        BY <3>1, <3>3 DEF Remembered
      <4> QED
        BY <4>1 DEF Forgets, InboundTypes, SpentTypes
    <3> QED
      BY <3>2, <3>3
  <2>2. CASE TakeRecent(h) /\ Recall(h, m)
    BY <2>2 DEF TakeRecent, Recall, Forgets, InboundTypes, SpentTypes
  <2> QED
    BY <2>1, <2>2
<1>4. InboundTypes'
  BY <1>1, <1>2, <1>3 DEF InboundTypes, Moves
<1>5. SUFFICES ASSUME NEW k \in Messages
               PROVE  handed'[k] + Cardinality(Holding(k)') <= Known(k)' + Forgets'
  BY <1>4 DEF Accounted
<1>6. Balance(k) /\ Known(k)' \in {0, 1}
  BY DEF Balance, Accounted, Known
<1>7. Cardinality(Holding(k)') \in Nat /\ Cardinality(Holding(k)') <= Cardinality(Holding(k)) + 1
  BY <1>1, CountMoves
<1>8. CASE k = m
  <2>1. Known(k) = 0 /\ (processed' = processed \cup {m} => Known(k)' = 1)
    BY <1>8 DEF Known
  <2> QED
    BY <1>2, <1>3, <1>6, <1>7, <2>1, BalanceTypes DEF Balance
<1>9. CASE k # m
  <2>1. Cardinality(Holding(k)') <= Cardinality(Holding(k))
    BY <1>1, <1>9, CountMoves
  <2>2. processed' = processed \cup {m} => Known(k)' = Known(k)
    BY <1>9 DEF Known
  <2> QED
    BY <1>2, <1>3, <1>6, <1>7, <2>1, <2>2, BalanceTypes DEF Balance
<1> QED
  BY <1>8, <1>9

LEMMA AccountedStep == InboundTypes /\ Accounted /\ [Next]_vars => InboundTypes' /\ Accounted'
<1> SUFFICES ASSUME InboundTypes, Accounted, [Next]_vars PROVE InboundTypes' /\ Accounted'
  OBVIOUS
<1>0. SpentTypes
  BY DEF InboundTypes
<1>1. ASSUME NEW h \in Handlers, SendTransaction(h) \/ Handle(h) PROVE InboundTypes' /\ Accounted'
  <2>1. \/ Calmly(h) \/ HandOff(h)
        \/ TakeEvent(h) /\ Event(h) \notin processed
        \/ \E m : TakeRecent(h) /\ Recall(h, m) /\ m \notin processed
    <3>1. TakeRecent(h) => \/ handler[h].todo = {}
                           \/ \E m : TakeRecent(h) /\ Recall(h, m)
      BY DEF TakeRecent
    <3> QED
      BY <1>1, <3>1 DEF Handle, Calmly
  <2> QED
    BY <2>1, CalmAccounts, HandOffAccounts, TakeAccounts
<1>2. ASSUME NEW h \in Handlers, HandlerFault(h) PROVE InboundTypes' /\ Accounted'
  BY <1>2, FaultAccounts
<1>3. ASSUME UNCHANGED <<handler, processed, handed>>, SpentTypes', Forgets' \in {Forgets, Forgets + 1}
      PROVE InboundTypes' /\ Accounted'
  <2>1. InboundTypes'
    BY <1>3 DEF InboundTypes
  <2>2. SUFFICES ASSUME NEW k \in Messages
                 PROVE  handed'[k] + Cardinality(Holding(k)') <= Known(k)' + Forgets'
    BY <2>1 DEF Accounted
  <2>3. Holding(k)' = Holding(k) /\ Known(k)' = Known(k)
    BY <1>3 DEF Holding, Known
  <2>4. Balance(k)
    BY DEF Balance, Accounted
  <2> QED
    BY <1>3, <2>3, <2>4, BalanceTypes DEF Balance
<1>4. CASE Elsewhere
  BY <1>0, <1>3, <1>4, ElsewhereLeaves
<1>5. CASE Crash
  <2>1. /\ handler' = [h \in Handlers |-> Idle] /\ UNCHANGED handed
        /\ spent' = [spent EXCEPT !.crashes = @ + 1]
    BY <1>5 DEF Crash
  <2>2. SpentTypes' /\ Forgets' = Forgets + 1
    BY <1>0, <1>5, CrashSpends, <2>1 DEF Forgets, SpentTypes
  <2>3. InboundTypes'
    BY <2>1, <2>2 DEF InboundTypes, IsHandler, Idle
  <2>4. SUFFICES ASSUME NEW k \in Messages
                 PROVE  handed'[k] + Cardinality(Holding(k)') <= Known(k)' + Forgets'
    BY <2>3 DEF Accounted
  <2>5. Holding(k)' = {}
    BY <2>1 DEF Holding, Idle
  <2>6. Cardinality(Holding(k)') = 0
    BY <2>5, FS_EmptySet
  <2>7. Balance(k) /\ Known(k)' \in {0, 1}
    BY DEF Balance, Accounted, Known
  <2> QED
    BY <2>1, <2>2, <2>6, <2>7, BalanceTypes DEF Balance
<1>6. CASE UNCHANGED vars
  BY <1>0, <1>3, <1>6 DEF vars, inboundVars, SpentTypes, Forgets
<1> QED
  BY <1>1, <1>2, <1>4, <1>5, <1>6 DEF Next, Elsewhere

\* A homeserver that gives up waiting and sends a transaction again, to a second
\* handler beside the first, repeats no message: only a failed handler, a restart
\* and the emptying of PROCESSED do, once each.
THEOREM RepeatedForAReason == Spec => []NoSpuriousRepeat
<1>1. Init => InboundTypes /\ Accounted
  <2> SUFFICES ASSUME Init PROVE InboundTypes /\ Accounted
    OBVIOUS
  <2>1. InboundTypes
    BY DEF Init, InboundTypes, IsHandler, Idle, SpentTypes
  <2>2. \A k : Holding(k) = {}
    BY DEF Init, Holding, Idle
  <2>3. \A k : Cardinality(Holding(k)) = 0
    BY <2>2, FS_EmptySet
  <2>4. Accounted
    BY <2>3 DEF Init, Accounted, Known, Forgets
  <2> QED
    BY <2>1, <2>4
<1>2. InboundTypes /\ Accounted /\ [Next]_vars => InboundTypes' /\ Accounted'
  BY AccountedStep
<1>3. InboundTypes /\ Accounted => NoSpuriousRepeat
  <2> SUFFICES ASSUME InboundTypes, Accounted, NEW m \in Messages
               PROVE  handed[m] <= 1 + spent.faults + spent.crashes + spent.clears
    BY DEF NoSpuriousRepeat
  <2>1. handed[m] + Cardinality(Holding(m)) <= Known(m) + Forgets /\ handed[m] \in Nat
    BY DEF Accounted, InboundTypes
  <2>2. Cardinality(Holding(m)) \in Nat /\ Known(m) \in {0, 1}
    BY HoldingIsCounted DEF Known
  <2> QED
    BY <2>1, <2>2 DEF Forgets, InboundTypes, SpentTypes
<1> QED
  BY <1>1, <1>2, <1>3, PTL DEF Spec

-----------------------------------------------------------------------------
(* Where the handlers are, and what the homeserver waits for.              *)

Records == [pc : HandlerPcs, txn : Nat, at : Nat, failed : BOOLEAN, todo : SUBSET Messages,
            message : Events \cup {Invite}, post : Nat]

\* A handler that is at an event has one; a message it has in hand is that of the event,
\* or was taken from the history for an invite.
Placed(txns, r, known, posts) ==
  /\ r.pc # "idle" => r.txn \in DOMAIN txns /\ r.at \in 1..Len(txns[r.txn]) + 1
  /\ r.pc \notin {"idle", "event"} => r.at \in DOMAIN txns[r.txn]
  /\ r.pc \in {"join", "recents"} => txns[r.txn][r.at] = Invite
  /\ r.pc \notin {"handoff", "answer"} => r.message = Invite
  /\ r.pc \in {"handoff", "answer"} =>
       /\ r.message \in Messages
       /\ r.message = txns[r.txn][r.at] \/ (txns[r.txn][r.at] = Invite /\ r.message \in known)
  /\ IF r.pc = "answer" THEN r.post \in 1..posts[r.message] ELSE r.post = 0

RoomTypes ==
  /\ agenda \in Agendas /\ handler \in [Handlers -> Records]
  /\ server \in [next : 1..Len(Transactions) + 1, waiting : Handlers \cup {NoHandler}]
  /\ handed \in [Messages -> Nat] /\ recalled \subseteq Messages /\ turns \subseteq Messages \X Nat
  /\ SpentTypes
\* The handler the homeserver waits for has its transaction; without a timeout it is the only one.
Awaited ==
  /\ \A h \in Handlers : server.waiting = h => handler[h].pc # "idle" /\ handler[h].txn = server.next
  /\ spent.timeouts = 0 => \A h \in Handlers : handler[h].pc # "idle" => server.waiting = h
RoomInv ==
  /\ RoomTypes /\ Awaited
  /\ \A h \in Handlers : Placed(Transactions, handler[h], recalled, handed)

LEMMA TxnFacts ==
  ASSUME agenda \in Agendas
  PROVE  /\ Len(Transactions) \in Nat /\ DOMAIN Transactions = 1..Len(Transactions)
         /\ \A t \in DOMAIN Transactions :
              /\ Len(Transactions[t]) \in Nat /\ DOMAIN Transactions[t] = 1..Len(Transactions[t])
              /\ \A i \in DOMAIN Transactions[t] : Transactions[t][i] \in Events
         /\ \A t, u \in DOMAIN Transactions :
              \A i \in DOMAIN Transactions[t], j \in DOMAIN Transactions[u] :
                Transactions[t][i] = Transactions[u][j] => t = u /\ i = j
<1>1. Transactions \in Seq(Seq(Events))
  BY BridgeAssumption DEF Transactions
<1>2. \A t \in DOMAIN Transactions : Transactions[t] \in Seq(Events)
  BY <1>1
<1>3. \A t, u \in DOMAIN Transactions :
        \A i \in DOMAIN Transactions[t], j \in DOMAIN Transactions[u] :
          Transactions[t][i] = Transactions[u][j] => t = u /\ i = j
  BY BridgeAssumption DEF Transactions
<1>4. ASSUME NEW t \in DOMAIN Transactions
      PROVE  /\ Len(Transactions[t]) \in Nat /\ DOMAIN Transactions[t] = 1..Len(Transactions[t])
             /\ \A i \in DOMAIN Transactions[t] : Transactions[t][i] \in Events
  BY <1>2, <1>4
<1> QED
  BY <1>1, <1>3, <1>4

\* A step that changes no other handler leaves it where it is.
LEMMA PlacedStays ==
  ASSUME NEW txns, NEW r, Placed(txns, r, recalled, handed), recalled \subseteq recalled',
         handed \in [Messages -> Nat], handed' \in [Messages -> Nat],
         \A m \in Messages : handed[m] <= handed'[m]
  PROVE  Placed(txns, r, recalled', handed')
<1>1. CASE r.pc = "answer"
  <2>1. r.message \in Messages /\ r.post \in 1..handed[r.message]
    BY <1>1 DEF Placed
  <2>2. r.post \in 1..handed'[r.message]
    <3>1. PICK a \in Nat : a = handed[r.message]
      BY <2>1
    <3>2. PICK b \in Nat : b = handed'[r.message]
      BY <2>1
    <3> QED
      BY <2>1, <3>1, <3>2
  <2> QED
    BY <1>1, <2>2 DEF Placed
<1>2. CASE r.pc # "answer"
  BY <1>2 DEF Placed
<1> QED
  BY <1>1, <1>2

\* What handler h does: it becomes r.
Becomes(h, r) == r \in Records /\ handler' = [handler EXCEPT ![h] = r]

LEMMA HandlerMoves ==
  ASSUME RoomInv, NEW h \in Handlers, NEW r, Becomes(h, r), agenda' = agenda, server' = server,
         recalled' \subseteq Messages, recalled \subseteq recalled', turns' \subseteq Messages \X Nat,
         SpentTypes', spent'.timeouts = spent.timeouts,
         handed' \in [Messages -> Nat], \A m \in Messages : handed[m] <= handed'[m],
         handler[h].pc # "idle", r.pc # "idle", r.txn = handler[h].txn,
         Placed(Transactions, r, recalled', handed')
  PROVE  RoomInv'
<1>1. handler' \in [Handlers -> Records] /\ handler'[h] = r
      /\ \A g \in Handlers \ {h} : handler'[g] = handler[g]
  BY DEF Becomes, RoomInv, RoomTypes
<1>2. Transactions' = Transactions
  BY DEF Transactions
<1>3. RoomTypes'
  BY <1>1, <1>2 DEF RoomInv, RoomTypes
<1>4. Awaited'
  <2>1. \A g \in Handlers : (handler'[g].pc # "idle" <=> handler[g].pc # "idle")
                            /\ handler'[g].txn = handler[g].txn
    BY <1>1
  <2> QED
    BY <2>1 DEF RoomInv, Awaited
<1>5. ASSUME NEW g \in Handlers PROVE Placed(Transactions, handler'[g], recalled', handed')
  <2>1. CASE g = h
    BY <1>1, <2>1
  <2>2. CASE g # h
    <3>1. Placed(Transactions, handler[g], recalled, handed) /\ handed \in [Messages -> Nat]
      BY DEF RoomInv, RoomTypes
    <3>2. Placed(Transactions, handler[g], recalled', handed')
      BY <3>1, PlacedStays
    <3> QED
      BY <1>1, <2>2, <3>2
  <2> QED
    BY <2>1, <2>2
<1> QED
  BY <1>2, <1>3, <1>4, <1>5 DEF RoomInv

LEMMA IdleIsPlaced ==
  ASSUME NEW txns, NEW known, NEW posts
  PROVE  Idle \in Records /\ Idle.pc = "idle" /\ Placed(txns, Idle, known, posts)
<1>1. Idle \in Records
  BY DEF Idle, Records, HandlerPcs
<1> QED
  BY <1>1 DEF Idle, Placed

LEMMA SendKeepsRoom ==
  ASSUME RoomInv, NEW h \in Handlers, SendTransaction(h)
  PROVE  RoomInv'
<1> DEFINE r == [Idle EXCEPT !.pc = "event", !.txn = server.next]
<1>1. /\ server.next \in 1..Len(Transactions) /\ server.waiting = NoHandler /\ handler[h].pc = "idle"
      /\ server' = [server EXCEPT !.waiting = h] /\ handler' = [handler EXCEPT ![h] = r]
      /\ UNCHANGED <<agenda, processed, recalled, handed, turns, spent>>
  <2>1. server.next \in 1..Len(Transactions) + 1 /\ server.next <= Len(Transactions) /\ Len(Transactions) \in Nat
    BY TxnFacts DEF SendTransaction, RoomInv, RoomTypes
  <2>2. server.next \in 1..Len(Transactions)
    BY <2>1
  <2> QED
    BY <2>2 DEF SendTransaction
<1>2. r \in Records /\ r.pc = "event" /\ r.txn = server.next /\ r.at = 1 /\ r.message = Invite /\ r.post = 0
  <2>1. Idle \in Records /\ Idle.at = 1 /\ Idle.message = Invite /\ Idle.post = 0
    BY IdleIsPlaced DEF Idle
  <2>2. PICK q : q = [Idle EXCEPT !.pc = "event"]
    OBVIOUS
  <2>3. q \in Records /\ q.pc = "event" /\ q.at = 1 /\ q.message = Invite /\ q.post = 0
    BY <2>1, <2>2 DEF Records, HandlerPcs
  <2>4. r = [q EXCEPT !.txn = server.next]
    BY <2>2
  <2>5. server.next \in Nat
    BY <1>1
  <2> HIDE DEF r
  <2> QED
    BY <2>3, <2>4, <2>5 DEF Records
<1> HIDE DEF r
<1>3. Transactions' = Transactions
  BY <1>1 DEF Transactions
<1>4. /\ handler' \in [Handlers -> Records] /\ handler'[h] = r
      /\ \A g \in Handlers \ {h} : handler'[g] = handler[g]
  BY <1>1, <1>2 DEF RoomInv, RoomTypes
<1>5. /\ server' \in [next : 1..Len(Transactions) + 1, waiting : Handlers \cup {NoHandler}]
      /\ server'.waiting = h /\ server'.next = server.next
  BY <1>1 DEF RoomInv, RoomTypes
<1>6. RoomTypes'
  BY <1>1, <1>3, <1>4, <1>5 DEF RoomInv, RoomTypes, SpentTypes
<1>7. Awaited'
  <2>1. spent.timeouts = 0 => \A g \in Handlers \ {h} : handler[g].pc = "idle"
    BY <1>1, BridgeAssumption DEF RoomInv, Awaited
  <2> QED
    BY <1>1, <1>2, <1>4, <1>5, <2>1 DEF Awaited
<1>8. Placed(Transactions, r, recalled, handed)
  <2>1. 1 \in 1..Len(Transactions[server.next]) + 1 /\ server.next \in DOMAIN Transactions
    BY <1>1, TxnFacts DEF RoomInv, RoomTypes
  <2> QED
    BY <1>2, <2>1 DEF Placed
<1>9. ASSUME NEW g \in Handlers PROVE Placed(Transactions, handler'[g], recalled, handed)
  <2>1. Placed(Transactions, handler[g], recalled, handed)
    BY DEF RoomInv
  <2> QED
    BY <1>4, <1>8, <2>1
<1> QED
  BY <1>1, <1>3, <1>6, <1>7, <1>9 DEF RoomInv

\* A transaction is acknowledged by the handler that the homeserver waits for.
LEMMA AnswerServes ==
  ASSUME RoomInv, NEW h \in Handlers, Answer(h)
  PROVE  /\ \/ server.waiting # h /\ server' = server
            \/ /\ server.waiting = h /\ handler[h].txn = server.next
               /\ server'.waiting = NoHandler /\ server.next \in 1..Len(Transactions)
               /\ \/ server'.next = server.next
                  \/ server'.next = server.next + 1 /\ ~handler[h].failed
         /\ server' \in [next : 1..Len(Transactions) + 1, waiting : Handlers \cup {NoHandler}]
<1>1. /\ server' = IF server.waiting # h THEN server
                   ELSE [next |-> IF ~handler[h].failed THEN server.next + 1 ELSE server.next,
                         waiting |-> NoHandler]
      /\ handler[h].pc = "event"
  BY DEF Answer, Acknowledge
<1>2. server \in [next : 1..Len(Transactions) + 1, waiting : Handlers \cup {NoHandler}]
  BY DEF RoomInv, RoomTypes
<1>3. CASE server.waiting = h
  <2>1. handler[h].txn = server.next /\ handler[h].txn \in DOMAIN Transactions
    BY <1>1, <1>3 DEF RoomInv, Awaited, Placed
  <2>2. server.next \in 1..Len(Transactions) /\ Len(Transactions) \in Nat
    BY <2>1, TxnFacts DEF RoomInv, RoomTypes
  <2>3. server.next + 1 \in 1..Len(Transactions) + 1
    BY <2>2
  <2> QED
    BY <1>1, <1>2, <1>3, <2>1, <2>2, <2>3
<1> QED
  BY <1>1, <1>2, <1>3

LEMMA AnswerKeepsRoom ==
  ASSUME RoomInv, NEW h \in Handlers, Answer(h)
  PROVE  RoomInv'
<1>1. /\ handler' = [handler EXCEPT ![h] = Idle]
      /\ UNCHANGED <<agenda, processed, recalled, handed, turns, spent>>
  BY DEF Answer
<1>2. /\ handler' \in [Handlers -> Records] /\ handler'[h] = Idle
      /\ \A g \in Handlers \ {h} : handler'[g] = handler[g]
  BY <1>1, IdleIsPlaced DEF RoomInv, RoomTypes
<1>3. Transactions' = Transactions
  BY <1>1 DEF Transactions
<1>4. RoomTypes'
  BY <1>1, <1>2, <1>3, AnswerServes DEF RoomInv, RoomTypes, SpentTypes
<1>5. Awaited'
  <2>1. NoHandler \notin Handlers
    BY BridgeAssumption
  <2>2. CASE server.waiting # h
    <3>1. server' = server
      BY <2>2, AnswerServes
    <3> QED
      BY <1>1, <1>2, <2>2, <3>1, IdleIsPlaced DEF RoomInv, Awaited
  <2>3. CASE server.waiting = h
    <3>1. server'.waiting = NoHandler
      BY <2>3, AnswerServes
    <3> QED
      BY <1>1, <1>2, <2>1, <2>3, <3>1, IdleIsPlaced DEF RoomInv, Awaited
  <2> QED
    BY <2>2, <2>3
<1>6. ASSUME NEW g \in Handlers PROVE Placed(Transactions, handler'[g], recalled, handed)
  <2>1. Placed(Transactions, handler[g], recalled, handed)
    BY DEF RoomInv
  <2> QED
    BY <1>2, <2>1, IdleIsPlaced
<1> QED
  BY <1>1, <1>3, <1>4, <1>5, <1>6 DEF RoomInv

\* A step that does nothing to the handlers, and at most lets the homeserver stop waiting.
LEMMA RoomStays ==
  ASSUME RoomInv, UNCHANGED <<agenda, handler, recalled, handed>>,
         turns' \subseteq Messages \X Nat, SpentTypes',
         \/ server' = server /\ spent'.timeouts = spent.timeouts
         \/ server' = [server EXCEPT !.waiting = NoHandler] /\ spent'.timeouts > 0
  PROVE  RoomInv'
<1>1. Transactions' = Transactions
  BY DEF Transactions
<1>2. NoHandler \notin Handlers
  BY BridgeAssumption
<1>3. RoomTypes'
  BY <1>1 DEF RoomInv, RoomTypes
<1>4. Awaited'
  <2>1. CASE server' = server /\ spent'.timeouts = spent.timeouts
    BY <2>1 DEF RoomInv, Awaited
  <2>2. CASE server' = [server EXCEPT !.waiting = NoHandler] /\ spent'.timeouts > 0
    <3>1. server'.waiting = NoHandler /\ spent'.timeouts # 0
      BY <2>2 DEF RoomInv, RoomTypes, SpentTypes
    <3> QED
      BY <1>2, <3>1 DEF Awaited
  <2> QED
    BY <2>1, <2>2
<1> QED
  BY <1>1, <1>3, <1>4 DEF RoomInv

LEMMA HandlerFacts ==
  ASSUME RoomInv, NEW h \in Handlers, handler[h].pc # "idle"
  PROVE  /\ handler[h] \in Records /\ Placed(Transactions, handler[h], recalled, handed)
         /\ agenda \in Agendas /\ handed \in [Messages -> Nat] /\ recalled \subseteq Messages
         /\ turns \subseteq Messages \X Nat /\ SpentTypes
         /\ handler[h].txn \in DOMAIN Transactions
         /\ Len(Transactions[handler[h].txn]) \in Nat
         /\ DOMAIN Transactions[handler[h].txn] = 1..Len(Transactions[handler[h].txn])
         /\ handler[h].at \in Nat
         /\ ~EventsDone(h) => /\ handler[h].at \in DOMAIN Transactions[handler[h].txn]
                              /\ Event(h) = Transactions[handler[h].txn][handler[h].at] /\ Event(h) \in Events
         /\ handler[h].pc # "event" => ~EventsDone(h)
<1>1. /\ handler[h] \in Records /\ Placed(Transactions, handler[h], recalled, handed)
      /\ agenda \in Agendas /\ handed \in [Messages -> Nat] /\ recalled \subseteq Messages
      /\ turns \subseteq Messages \X Nat /\ SpentTypes
  BY DEF RoomInv, RoomTypes
<1>2. handler[h].txn \in DOMAIN Transactions /\ handler[h].at \in 1..Len(Transactions[handler[h].txn]) + 1
  BY <1>1 DEF Placed
<1>3. /\ Len(Transactions[handler[h].txn]) \in Nat
      /\ DOMAIN Transactions[handler[h].txn] = 1..Len(Transactions[handler[h].txn])
      /\ \A i \in DOMAIN Transactions[handler[h].txn] : Transactions[handler[h].txn][i] \in Events
  BY <1>1, <1>2, TxnFacts
<1>4. PICK n \in Nat : n = Len(Transactions[handler[h].txn])
  BY <1>3
<1>5. PICK i \in Nat : i = handler[h].at
  BY <1>2
<1>6. i \in 1..n + 1 /\ (EventsDone(h) <=> i > n)
  BY <1>2, <1>4, <1>5 DEF EventsDone
<1>7. ~EventsDone(h) => handler[h].at \in DOMAIN Transactions[handler[h].txn]
  <2>1. ~EventsDone(h) => i \in 1..n
    BY <1>4, <1>5, <1>6
  <2> QED
    BY <1>3, <1>4, <1>5, <2>1
<1>8. handler[h].pc # "event" => ~EventsDone(h)
  <2>1. handler[h].pc # "event" => i \in 1..n
    BY <1>1, <1>3, <1>4, <1>5 DEF Placed
  <2> QED
    BY <1>6, <2>1
<1>9. ~EventsDone(h) => Event(h) = Transactions[handler[h].txn][handler[h].at] /\ Event(h) \in Events
  BY <1>3, <1>7 DEF Event
<1> QED
  BY <1>1, <1>2, <1>3, <1>5, <1>7, <1>8, <1>9

\* The next position is one, too.
LEMMA NextPlace ==
  ASSUME RoomInv, NEW h \in Handlers, handler[h].pc # "idle", ~EventsDone(h)
  PROVE  /\ handler[h].at + 1 \in Nat
         /\ handler[h].at + 1 \in 1..Len(Transactions[handler[h].txn]) + 1
<1>1. PICK n \in Nat : n = Len(Transactions[handler[h].txn])
  BY HandlerFacts
<1>2. PICK i \in Nat : i = handler[h].at
  BY HandlerFacts
<1>3. i \in 1..n
  BY <1>1, <1>2, HandlerFacts
<1>4. i + 1 \in Nat /\ i + 1 \in 1..n + 1
  BY <1>3
<1> QED
  BY <1>1, <1>2, <1>4

\* A handler goes on to the next event.
LEMMA NextEventPlaced ==
  ASSUME RoomInv, NEW h \in Handlers, handler[h].pc # "idle", ~EventsDone(h),
         NEW r \in Records, r.pc = "event", r.txn = handler[h].txn, r.at = handler[h].at + 1,
         r.message = Invite, r.post = 0, NEW known, NEW posts
  PROVE  Placed(Transactions, r, known, posts)
  BY HandlerFacts, NextPlace DEF Placed

LEMMA SkipBecomes ==
  ASSUME RoomInv, NEW h \in Handlers, handler[h].pc = "event", ~EventsDone(h),
         NEW r, r = [handler[h] EXCEPT !.at = @ + 1]
  PROVE  /\ r \in Records /\ r.pc = "event" /\ r.txn = handler[h].txn /\ r.at = handler[h].at + 1
         /\ r.failed = handler[h].failed /\ r.message = Invite /\ r.post = 0
<1>1. handler[h] \in Records /\ handler[h].at + 1 \in Nat
  BY HandlerFacts, NextPlace
<1>2. handler[h].message = Invite /\ handler[h].post = 0
  BY HandlerFacts DEF Placed
<1> QED
  BY <1>1, <1>2 DEF Records

LEMMA TakeBecomes ==
  ASSUME RoomInv, NEW h \in Handlers, handler[h].pc = "event", ~EventsDone(h),
         handler' = [handler EXCEPT ![h].message = Event(h),
                                    ![h].pc = IF Event(h) = Invite THEN "join" ELSE "handoff"]
  PROVE  \E r : /\ Becomes(h, r) /\ r.pc = (IF Event(h) = Invite THEN "join" ELSE "handoff")
                /\ r.txn = handler[h].txn /\ r.at = handler[h].at /\ r.failed = handler[h].failed
                /\ r.message = Event(h) /\ r.post = 0 /\ r.todo = handler[h].todo
<1>1. handler[h] \in Records /\ Event(h) \in Events /\ handler[h].post = 0
  BY HandlerFacts DEF Placed
<1>2. PICK e \in Events : e = Event(h)
  BY <1>1
<1>3. PICK pc \in HandlerPcs : pc = IF e = Invite THEN "join" ELSE "handoff"
  BY DEF HandlerPcs
<1>4. PICK q : q = [handler[h] EXCEPT !.message = e]
  OBVIOUS
<1>5. PICK r : r = [q EXCEPT !.pc = pc]
  OBVIOUS
<1>6. q \in Records /\ q.pc = handler[h].pc /\ q.txn = handler[h].txn /\ q.at = handler[h].at
      /\ q.failed = handler[h].failed /\ q.message = e /\ q.post = 0 /\ q.todo = handler[h].todo
  BY <1>1, <1>4 DEF Records
<1>7. r \in Records /\ r.pc = pc /\ r.txn = handler[h].txn /\ r.at = handler[h].at
      /\ r.failed = handler[h].failed /\ r.message = e /\ r.post = 0 /\ r.todo = handler[h].todo
  BY <1>5, <1>6 DEF Records
<1>8. handler' = [handler EXCEPT ![h] = r]
  BY <1>2, <1>3, <1>4, <1>5 DEF RoomInv, RoomTypes
<1> QED
  BY <1>2, <1>3, <1>7, <1>8 DEF Becomes

LEMMA NextEventBecomes ==
  ASSUME RoomInv, NEW h \in Handlers, handler[h].pc # "idle", ~EventsDone(h),
         NEW r, r = NextEvent(handler[h])
  PROVE  /\ r \in Records /\ r.pc = "event" /\ r.txn = handler[h].txn /\ r.at = handler[h].at + 1
         /\ r.failed = handler[h].failed /\ r.message = Invite /\ r.post = 0
<1>1. handler[h] \in Records /\ handler[h].at + 1 \in Nat
  BY HandlerFacts, NextPlace
<1>2. PICK q : q = [handler[h] EXCEPT !.pc = "event"]
  OBVIOUS
<1>3. PICK s : s = [q EXCEPT !.at = handler[h].at + 1]
  OBVIOUS
<1>4. PICK p : p = [s EXCEPT !.message = Invite]
  OBVIOUS
<1>5. r = [p EXCEPT !.post = 0]
  BY <1>2, <1>3, <1>4 DEF NextEvent
<1>6. q \in Records /\ q.pc = "event" /\ q.txn = handler[h].txn /\ q.failed = handler[h].failed
  BY <1>1, <1>2 DEF Records, HandlerPcs
<1>7. s \in Records /\ s.pc = "event" /\ s.txn = handler[h].txn /\ s.at = handler[h].at + 1
      /\ s.failed = handler[h].failed
  BY <1>1, <1>3, <1>6 DEF Records
<1>8. p \in Records /\ p.pc = "event" /\ p.txn = handler[h].txn /\ p.at = handler[h].at + 1
      /\ p.failed = handler[h].failed /\ p.message = Invite
  BY <1>4, <1>7 DEF Records
<1> QED
  BY <1>5, <1>8 DEF Records

LEMMA ProceedBecomes ==
  ASSUME RoomInv, NEW h \in Handlers, handler[h].pc \in {"recents", "answer"}, Proceed(h)
  PROVE  \E r : /\ Becomes(h, r) /\ r.txn = handler[h].txn /\ r.failed = handler[h].failed
                /\ r.message = Invite /\ r.post = 0
                /\ \/ r.pc = "recents" /\ r.at = handler[h].at /\ Event(h) = Invite
                   \/ /\ r.pc = "event" /\ r.at = handler[h].at + 1
                      /\ Event(h) = Invite \/ Event(h) = handler[h].message
<1>1. handler[h] \in Records /\ handler[h].at + 1 \in Nat /\ ~EventsDone(h)
  BY HandlerFacts, NextPlace
<1>2. /\ handler[h].pc = "recents" => Event(h) = Invite
      /\ handler[h].pc = "answer" => Event(h) = Invite \/ Event(h) = handler[h].message
  BY <1>1, HandlerFacts DEF Placed
<1>3. handler[h].pc = "answer" => handler[h].message # Invite
  BY HandlerFacts DEF Placed, Messages
<1>4. CASE Event(h) = Invite /\ handler[h].message # Invite
  <2>1. PICK q : q = [handler[h] EXCEPT !.pc = "recents"]
    OBVIOUS
  <2>2. PICK p : p = [q EXCEPT !.message = Invite]
    OBVIOUS
  <2>3. PICK r : r = [p EXCEPT !.post = 0]
    OBVIOUS
  <2>4. q \in Records /\ q.pc = "recents" /\ q.txn = handler[h].txn /\ q.at = handler[h].at
        /\ q.failed = handler[h].failed
    BY <1>1, <2>1 DEF Records, HandlerPcs
  <2>5. p \in Records /\ p.pc = "recents" /\ p.txn = handler[h].txn /\ p.at = handler[h].at
        /\ p.failed = handler[h].failed /\ p.message = Invite
    BY <2>2, <2>4 DEF Records
  <2>6. r \in Records /\ r.pc = "recents" /\ r.txn = handler[h].txn /\ r.at = handler[h].at
        /\ r.failed = handler[h].failed /\ r.message = Invite /\ r.post = 0
    BY <2>3, <2>5 DEF Records
  <2>7. handler' = [handler EXCEPT ![h] = r]
    BY <1>4, <2>1, <2>2, <2>3 DEF Proceed
  <2> QED
    BY <1>4, <2>6, <2>7 DEF Becomes
<1>5. CASE ~(Event(h) = Invite /\ handler[h].message # Invite)
  <2>1. PICK r : r = NextEvent(handler[h])
    OBVIOUS
  <2>2. handler' = [handler EXCEPT ![h] = r]
    BY <1>5, <2>1 DEF Proceed, RoomInv, RoomTypes
  <2>3. Event(h) = Invite \/ Event(h) = handler[h].message
    BY <1>2
  <2> QED
    BY <1>1, <2>1, <2>2, <2>3, NextEventBecomes DEF Becomes
<1> QED
  BY <1>4, <1>5

LEMMA FailBecomes ==
  ASSUME RoomInv, NEW h \in Handlers, HandlerFault(h)
  PROVE  \E r : /\ Becomes(h, r) /\ r.txn = handler[h].txn /\ r.failed = TRUE
                /\ r.message = Invite /\ r.post = 0 /\ r.pc = "event" /\ r.at = handler[h].at + 1
<1>1. /\ handler[h].pc \notin {"idle", "event"}
      /\ handler' = [handler EXCEPT ![h] = [NextEvent(handler[h]) EXCEPT !.failed = TRUE, !.todo = {}]]
  BY DEF HandlerFault, Fails, RoomInv, RoomTypes
<1>2. ~EventsDone(h)
  BY <1>1, HandlerFacts
<1>3. PICK q : q = NextEvent(handler[h])
  OBVIOUS
<1>4. PICK f : f = [q EXCEPT !.failed = TRUE]
  OBVIOUS
<1>5. PICK r : r = [f EXCEPT !.todo = {}]
  OBVIOUS
<1>6. q \in Records /\ q.pc = "event" /\ q.txn = handler[h].txn /\ q.at = handler[h].at + 1
      /\ q.message = Invite /\ q.post = 0
  BY <1>1, <1>2, <1>3, NextEventBecomes
<1>7. f \in Records /\ f.pc = "event" /\ f.txn = handler[h].txn /\ f.at = handler[h].at + 1 /\ f.failed = TRUE
      /\ f.message = Invite /\ f.post = 0
  BY <1>4, <1>6 DEF Records
<1>8. r \in Records /\ r.pc = "event" /\ r.txn = handler[h].txn /\ r.at = handler[h].at + 1 /\ r.failed = TRUE
      /\ r.message = Invite /\ r.post = 0
  BY <1>5, <1>7 DEF Records
<1>9. handler' = [handler EXCEPT ![h] = r]
  BY <1>1, <1>3, <1>4, <1>5
<1> QED
  BY <1>8, <1>9 DEF Becomes

LEMMA JoinBecomes ==
  ASSUME RoomInv, NEW h \in Handlers, Join(h)
  PROVE  \E r : /\ Becomes(h, r) /\ r.txn = handler[h].txn /\ r.failed = handler[h].failed
                /\ r.message = Invite /\ r.post = 0 /\ r.pc = "recents" /\ r.at = handler[h].at
<1>1. handler[h].pc = "join"
  BY DEF Join
<1>2. /\ handler[h] \in Records /\ handler[h].message = Invite /\ handler[h].post = 0
      /\ agenda \in Agendas /\ server.next \in 1..Len(Transactions) + 1
  BY <1>1, HandlerFacts DEF Placed, RoomInv, RoomTypes
<1>3. PICK last \in {0} \cup server.next..Len(Transactions) :
        handler' = [handler EXCEPT ![h].pc = "recents",
                                   ![h].todo = EventsOf(SubSeq(Transactions, 1, last)) \ {Invite}]
  BY DEF Join
<1>4. EventsOf(SubSeq(Transactions, 1, last)) \subseteq Events
  <2>1. last \in 0..Len(Transactions) /\ Len(Transactions) \in Nat
    <3>1. PICK n \in Nat : n = Len(Transactions)
      BY <1>2, TxnFacts
    <3>2. PICK k \in Nat : k = server.next /\ k >= 1
      BY <1>2, <3>1
    <3>3. last \in {0} \cup k..n
      BY <3>1, <3>2
    <3> QED
      BY <3>1, <3>2, <3>3
  <2>2. Transactions \in Seq(Seq(Events))
    BY <1>2, BridgeAssumption DEF Transactions
  <2>3. /\ DOMAIN SubSeq(Transactions, 1, last) = 1..last
        /\ \A t \in 1..last : SubSeq(Transactions, 1, last)[t] = Transactions[t]
    BY <2>1, <2>2
  <2>4. \A t \in 1..last : t \in DOMAIN Transactions
    BY <1>2, <2>1, TxnFacts
  <2>5. \A t \in 1..last : ToSet(Transactions[t]) \subseteq Events
    BY <1>2, <2>4, TxnFacts DEF ToSet
  <2> QED
    BY <2>3, <2>5 DEF EventsOf
<1>5. PICK todo \in SUBSET Messages : todo = EventsOf(SubSeq(Transactions, 1, last)) \ {Invite}
  BY <1>4 DEF Messages
<1>6. PICK q : q = [handler[h] EXCEPT !.pc = "recents"]
  OBVIOUS
<1>7. PICK r : r = [q EXCEPT !.todo = todo]
  OBVIOUS
<1>8. q \in Records /\ q.pc = "recents" /\ q.txn = handler[h].txn /\ q.at = handler[h].at
      /\ q.failed = handler[h].failed /\ q.message = Invite /\ q.post = 0
  BY <1>2, <1>6 DEF Records, HandlerPcs
<1>9. r \in Records /\ r.pc = "recents" /\ r.txn = handler[h].txn /\ r.at = handler[h].at
      /\ r.failed = handler[h].failed /\ r.message = Invite /\ r.post = 0
  BY <1>7, <1>8 DEF Records
<1>10. handler' = [handler EXCEPT ![h] = r]
  BY <1>3, <1>5, <1>6, <1>7 DEF RoomInv, RoomTypes
<1> QED
  BY <1>9, <1>10 DEF Becomes
LEMMA RecallBecomes ==
  ASSUME RoomInv, NEW h \in Handlers, handler[h].pc = "recents", NEW m \in Messages, Recall(h, m)
  PROVE  \E r : /\ Becomes(h, r) /\ r.txn = handler[h].txn /\ r.at = handler[h].at
                /\ r.failed = handler[h].failed /\ r.post = 0
                /\ r.pc = (IF m \in processed THEN "recents" ELSE "handoff")
                /\ r.message = (IF m \in processed THEN Invite ELSE m)
<1>1. handler[h] \in Records /\ handler[h].message = Invite /\ handler[h].post = 0
  BY HandlerFacts DEF Placed
<1>2. PICK todo \in SUBSET Messages : todo = handler[h].todo \ {m}
  BY <1>1 DEF Records
<1>3. PICK pc \in HandlerPcs : pc = IF m \in processed THEN "recents" ELSE "handoff"
  BY DEF HandlerPcs
<1>4. PICK e \in Events \cup {Invite} : e = IF m \in processed THEN Invite ELSE m
  BY DEF Messages
<1>5. PICK q : q = [handler[h] EXCEPT !.todo = todo]
  OBVIOUS
<1>6. PICK s : s = [q EXCEPT !.pc = pc]
  OBVIOUS
<1>7. PICK r : r = [s EXCEPT !.message = e]
  OBVIOUS
<1>8. /\ q \in Records /\ q.pc = handler[h].pc /\ q.txn = handler[h].txn /\ q.at = handler[h].at
      /\ q.failed = handler[h].failed /\ q.message = Invite /\ q.post = 0
  BY <1>1, <1>5 DEF Records
<1>9. /\ s \in Records /\ s.pc = pc /\ s.txn = handler[h].txn /\ s.at = handler[h].at
      /\ s.failed = handler[h].failed /\ s.message = Invite /\ s.post = 0
  BY <1>6, <1>8 DEF Records
<1>10. /\ r \in Records /\ r.pc = pc /\ r.txn = handler[h].txn /\ r.at = handler[h].at
       /\ r.failed = handler[h].failed /\ r.message = e /\ r.post = 0
  BY <1>7, <1>9 DEF Records
<1>11. handler' = [handler EXCEPT ![h] = r]
  <2>1. handler \in [Handlers -> Records]
    BY DEF RoomInv, RoomTypes
  <2>2. handler' = [handler EXCEPT ![h].todo = todo, ![h].pc = pc, ![h].message = e]
    BY <1>1, <1>2, <1>3, <1>4, <2>1 DEF Recall
  <2> QED
    BY <2>1, <2>2, <1>5, <1>6, <1>7
<1> QED
  BY <1>3, <1>4, <1>10, <1>11 DEF Becomes

LEMMA HandOffBecomes ==
  ASSUME RoomInv, NEW h \in Handlers, HandOff(h)
  PROVE  /\ handed' \in [Messages -> Nat] /\ \A m \in Messages : handed[m] <= handed'[m]
         /\ handler[h].message \in Messages /\ handed'[handler[h].message] > 0
         /\ turns' \subseteq Messages \X Nat
         /\ \E r : /\ Becomes(h, r) /\ r.txn = handler[h].txn /\ r.at = handler[h].at
                   /\ r.failed = handler[h].failed /\ r.message = handler[h].message
                   /\ r.pc = "answer" /\ r.post = handed'[r.message] /\ r.post > 0
<1>1. /\ handler[h].pc = "handoff"
      /\ handed' = [handed EXCEPT ![handler[h].message] = @ + 1]
      /\ turns' = turns \cup {<<handler[h].message, handed[handler[h].message] + 1>>}
      /\ handler' = [handler EXCEPT ![h].pc = "answer", ![h].post = handed[handler[h].message] + 1]
  BY DEF HandOff
<1>2. /\ handler[h] \in Records /\ handler[h].message \in Messages
      /\ handed \in [Messages -> Nat] /\ turns \subseteq Messages \X Nat
  BY <1>1, HandlerFacts DEF Placed
<1>3. PICK n \in Nat : n = handed[handler[h].message] + 1 /\ n > 0
  <2>1. PICK k \in Nat : k = handed[handler[h].message]
    BY <1>2
  <2>2. k + 1 \in Nat /\ k + 1 > 0
    OBVIOUS
  <2> QED
    BY <2>1, <2>2
<1>4. handed' \in [Messages -> Nat] /\ handed'[handler[h].message] = n
  BY <1>1, <1>2, <1>3
<1>5. ASSUME NEW m \in Messages PROVE handed[m] <= handed'[m]
  <2>1. PICK k \in Nat : k = handed[m]
    BY <1>2
  <2>2. handed'[m] = k \/ handed'[m] = k + 1
    BY <1>1, <1>2, <2>1
  <2>3. k <= k /\ k <= k + 1
    OBVIOUS
  <2> QED
    BY <2>1, <2>2, <2>3
<1>6. turns' \subseteq Messages \X Nat
  <2>1. <<handler[h].message, handed[handler[h].message] + 1>> \in Messages \X Nat
    BY <1>2, <1>3
  <2> QED
    BY <1>1, <1>2, <2>1
<1>7. PICK q : q = [handler[h] EXCEPT !.pc = "answer"]
  OBVIOUS
<1>8. PICK r : r = [q EXCEPT !.post = n]
  OBVIOUS
<1>9. /\ q \in Records /\ q.pc = "answer" /\ q.txn = handler[h].txn /\ q.at = handler[h].at
      /\ q.failed = handler[h].failed /\ q.message = handler[h].message
  BY <1>2, <1>7 DEF Records, HandlerPcs
<1>10. /\ r \in Records /\ r.pc = "answer" /\ r.txn = handler[h].txn /\ r.at = handler[h].at
       /\ r.failed = handler[h].failed /\ r.message = handler[h].message /\ r.post = n
  BY <1>8, <1>9 DEF Records
<1>11. handler' = [handler EXCEPT ![h] = r]
  <2>1. handler' = [handler EXCEPT ![h].pc = "answer", ![h].post = n]
    BY <1>1, <1>3
  <2> QED
    BY <1>7, <1>8, <2>1 DEF RoomInv, RoomTypes
<1>12. Becomes(h, r) /\ r.post = handed'[r.message] /\ r.post > 0
  BY <1>3, <1>4, <1>10, <1>11 DEF Becomes
<1> QED
  BY <1>2, <1>3, <1>4, <1>5, <1>6, <1>10, <1>12

-----------------------------------------------------------------------------
(* A step of a handler, seen from the messages.                            *)

\* Handler h is done with its event: it is the invite, known already, or handed over.
Passes(h) == Event(h) = Invite \/ Event(h) \in processed \/ (Event(h) \in Messages /\ handed[Event(h)] > 0)

\* What a step of handler h leaves in place when nothing fails.
Calm ==
  /\ agenda' = agenda /\ server' = server
  /\ recalled \subseteq recalled' /\ recalled' \subseteq Messages /\ turns' \subseteq Messages \X Nat
  /\ SpentTypes' /\ spent'.timeouts = spent.timeouts /\ Trouble' = Trouble
  /\ handed' \in [Messages -> Nat] /\ \A m \in Messages : handed[m] <= handed'[m]

\* Handler h becomes r.  A message leaves its hands when it is handed over, and what
\* PROCESSED gains is in its hands.
Goes(h, r) ==
  /\ Calm /\ Becomes(h, r)
  /\ handler[h].pc # "idle" /\ r.pc # "idle" /\ r.txn = handler[h].txn /\ r.failed = handler[h].failed
  /\ Placed(Transactions, r, recalled', handed')
  /\ r.at = handler[h].at \/ (r.at = handler[h].at + 1 /\ ~EventsDone(h) /\ Passes(h))
  /\ handler[h].pc = "handoff" => handed'[handler[h].message] > 0
  /\ \A m \in processed' \ processed : m = Invite \/ (r.pc = "handoff" /\ r.message = m)

LEMMA StillCalm ==
  ASSUME RoomInv, UNCHANGED <<agenda, server, handed, turns>>,
         recalled \subseteq recalled', recalled' \subseteq Messages,
         SpentTypes', spent'.timeouts = spent.timeouts,
         spent'.faults = spent.faults, spent'.crashes = spent.crashes
  PROVE  Calm
<1>1. handed \in [Messages -> Nat] /\ turns \subseteq Messages \X Nat
  BY DEF RoomInv, RoomTypes
<1>2. \A m \in Messages : handed[m] <= handed[m]
  BY <1>1
<1> QED
  BY <1>1, <1>2 DEF Calm, Trouble
LEMMA TakeGoes ==
  ASSUME RoomInv, NEW h \in Handlers, TakeEvent(h)
  PROVE  \E r : Goes(h, r)
<1>1. /\ handler[h].pc = "event" /\ ~EventsDone(h)
      /\ UNCHANGED <<agenda, server, recalled, handed, turns>>
  BY DEF TakeEvent
<1>2. /\ handler[h] \in Records /\ Placed(Transactions, handler[h], recalled, handed) /\ SpentTypes
      /\ recalled \subseteq Messages /\ Event(h) \in Events
      /\ handler[h].txn \in DOMAIN Transactions /\ handler[h].at \in DOMAIN Transactions[handler[h].txn]
      /\ Event(h) = Transactions[handler[h].txn][handler[h].at]
  BY <1>1, HandlerFacts
<1>3. CASE Event(h) \in processed
  <2>1. handler' = [handler EXCEPT ![h] = SkipDuplicate(handler[h])] /\ UNCHANGED <<processed, spent>>
    BY <1>3 DEF TakeEvent
  <2>2. PICK r : r = [handler[h] EXCEPT !.at = @ + 1]
    OBVIOUS
  <2>3. /\ r \in Records /\ r.pc = "event" /\ r.txn = handler[h].txn /\ r.at = handler[h].at + 1
        /\ r.failed = handler[h].failed /\ r.message = Invite /\ r.post = 0
    BY <1>1, <2>2, SkipBecomes
  <2>4. Placed(Transactions, r, recalled', handed')
    BY <1>1, <2>3, NextEventPlaced
  <2>5. Becomes(h, r)
    BY <2>1, <2>2, <2>3 DEF Becomes, SkipDuplicate
  <2>6. Calm
    <3>1. SpentTypes'
      BY <1>2, <2>1 DEF SpentTypes
    <3> QED
      BY <1>1, <1>2, <2>1, <3>1, StillCalm
  <2> QED
    BY <1>1, <1>3, <2>1, <2>3, <2>4, <2>5, <2>6 DEF Goes, Passes
<1>4. CASE Event(h) \notin processed
  <2>1. /\ processed' = Remembered(processed, Event(h))
        /\ spent' = [spent EXCEPT !.clears = IF Overflows(processed, Event(h)) THEN @ + 1 ELSE @]
        /\ handler' = [handler EXCEPT ![h].message = Event(h),
                                      ![h].pc = IF Event(h) = Invite THEN "join" ELSE "handoff"]
    BY <1>4 DEF TakeEvent
  <2>2. PICK r : /\ Becomes(h, r) /\ r.pc = (IF Event(h) = Invite THEN "join" ELSE "handoff")
                 /\ r.txn = handler[h].txn /\ r.at = handler[h].at /\ r.failed = handler[h].failed
                 /\ r.message = Event(h) /\ r.post = 0
    BY <1>1, <2>1, TakeBecomes
  <2>3. Placed(Transactions, r, recalled', handed')
    <3>1. r.txn \in DOMAIN Transactions /\ r.at \in 1..Len(Transactions[r.txn]) + 1
      BY <1>1, <1>2, <2>2 DEF Placed
    <3>2. r.pc \in {"join", "handoff"} /\ (r.pc = "handoff" => r.message \in Messages)
      BY <1>2, <2>2 DEF Messages
    <3> QED
      BY <1>1, <1>2, <2>2, <3>1, <3>2 DEF Placed
  <2>4. Calm
    <3>1. /\ SpentTypes' /\ spent'.timeouts = spent.timeouts
          /\ spent'.faults = spent.faults /\ spent'.crashes = spent.crashes
      BY <1>2, <2>1 DEF SpentTypes
    <3> QED
      BY <1>1, <1>2, <3>1, StillCalm
  <2>5. \A m \in processed' \ processed : m = Event(h)
    BY <2>1 DEF Remembered
  <2>6. r.pc # "idle"
    BY <2>2
  <2>7. \A m \in processed' \ processed : m = Invite \/ (r.pc = "handoff" /\ r.message = m)
    BY <2>2, <2>5
  <2> QED
    BY <1>1, <2>2, <2>3, <2>4, <2>6, <2>7 DEF Goes
<1> QED
  BY <1>3, <1>4

LEMMA JoinGoes ==
  ASSUME RoomInv, NEW h \in Handlers, Join(h)
  PROVE  \E r : Goes(h, r)
<1>1. handler[h].pc = "join" /\ UNCHANGED <<agenda, server, processed, recalled, handed, turns, spent>>
  BY DEF Join
<1>2. Placed(Transactions, handler[h], recalled, handed) /\ SpentTypes /\ recalled \subseteq Messages
  BY <1>1, HandlerFacts
<1>3. PICK r : /\ Becomes(h, r) /\ r.txn = handler[h].txn /\ r.failed = handler[h].failed
               /\ r.message = Invite /\ r.post = 0 /\ r.pc = "recents" /\ r.at = handler[h].at
  BY JoinBecomes
<1>4. Placed(Transactions, r, recalled', handed')
  BY <1>1, <1>2, <1>3 DEF Placed
<1>5. Calm
  <2>1. SpentTypes'
    BY <1>1, <1>2 DEF SpentTypes
  <2> QED
    BY <1>1, <1>2, <2>1, StillCalm
<1> QED
  BY <1>1, <1>3, <1>4, <1>5 DEF Goes

LEMMA ProceedGoes ==
  ASSUME RoomInv, NEW h \in Handlers, handler[h].pc \in {"recents", "answer"}, Proceed(h),
         UNCHANGED <<agenda, server, processed, recalled, handed, turns, spent>>
  PROVE  \E r : Goes(h, r)
<1>1. /\ Placed(Transactions, handler[h], recalled, handed) /\ SpentTypes /\ recalled \subseteq Messages
      /\ ~EventsDone(h) /\ handed \in [Messages -> Nat]
      /\ Event(h) = Transactions[handler[h].txn][handler[h].at]
  BY HandlerFacts
<1>2. PICK r : /\ Becomes(h, r) /\ r.txn = handler[h].txn /\ r.failed = handler[h].failed
               /\ r.message = Invite /\ r.post = 0
               /\ \/ r.pc = "recents" /\ r.at = handler[h].at /\ Event(h) = Invite
                  \/ /\ r.pc = "event" /\ r.at = handler[h].at + 1
                     /\ Event(h) = Invite \/ Event(h) = handler[h].message
  BY ProceedBecomes
<1>3. Calm
  <2>1. SpentTypes'
    BY <1>1 DEF SpentTypes
  <2> QED
    BY <1>1, <2>1, StillCalm
<1>4. CASE r.pc = "recents" /\ r.at = handler[h].at /\ Event(h) = Invite
  <2>1. Placed(Transactions, r, recalled', handed')
    BY <1>1, <1>2, <1>4 DEF Placed
  <2> QED
    BY <1>2, <1>3, <1>4, <2>1 DEF Goes
<1>5. CASE r.pc = "event" /\ r.at = handler[h].at + 1 /\ (Event(h) = Invite \/ Event(h) = handler[h].message)
  <2>1. r \in Records
    BY <1>2 DEF Becomes
  <2>2. Placed(Transactions, r, recalled', handed')
    BY <1>1, <1>2, <1>5, <2>1, NextEventPlaced
  <2>3. Passes(h)
    <3>1. CASE handler[h].pc = "recents"
      BY <1>1, <3>1 DEF Placed, Passes
    <3>2. CASE handler[h].pc = "answer"
      <4>1. handler[h].message \in Messages /\ handler[h].post \in 1..handed[handler[h].message]
        BY <1>1, <3>2 DEF Placed
      <4>2. PICK k \in Nat : k = handed[handler[h].message]
        BY <1>1, <4>1
      <4>3. k > 0
        BY <4>1, <4>2
      <4> QED
        BY <1>5, <4>1, <4>2, <4>3 DEF Passes
    <3> QED
      BY <3>1, <3>2
  <2> QED
    BY <1>1, <1>2, <1>3, <1>5, <2>2, <2>3 DEF Goes
<1> QED
  BY <1>2, <1>4, <1>5

LEMMA RecallGoes ==
  ASSUME RoomInv, NEW h \in Handlers, handler[h].pc = "recents", NEW m \in Messages, Recall(h, m),
         UNCHANGED <<agenda, server, handed, turns, spent>>
  PROVE  \E r : Goes(h, r)
<1>1. /\ Placed(Transactions, handler[h], recalled, handed) /\ SpentTypes /\ recalled \subseteq Messages
  BY HandlerFacts
<1>2. PICK r : /\ Becomes(h, r) /\ r.txn = handler[h].txn /\ r.at = handler[h].at
               /\ r.failed = handler[h].failed /\ r.post = 0
               /\ r.pc = (IF m \in processed THEN "recents" ELSE "handoff")
               /\ r.message = (IF m \in processed THEN Invite ELSE m)
  BY RecallBecomes
<1>3. /\ processed' = processed \cup {m}
      /\ recalled' = IF m \in processed THEN recalled ELSE recalled \cup {m}
  BY DEF Recall
<1>4. Calm
  <2>1. SpentTypes' /\ recalled \subseteq recalled' /\ recalled' \subseteq Messages
    BY <1>1, <1>3 DEF SpentTypes
  <2> QED
    BY <2>1, StillCalm
<1>5. Placed(Transactions, r, recalled', handed')
  <2>1. CASE m \in processed
    BY <1>1, <1>2, <1>3, <2>1 DEF Placed
  <2>2. CASE m \notin processed
    <3>1. r.pc = "handoff" /\ r.message = m /\ m \in recalled'
      BY <1>2, <1>3, <2>2
    <3> QED
      BY <1>1, <1>2, <3>1 DEF Placed
  <2> QED
    BY <2>1, <2>2
<1>6. \A k \in processed' \ processed : r.pc = "handoff" /\ r.message = k
  BY <1>2, <1>3
<1>7. r.pc # "idle"
  BY <1>2
<1> QED
  BY <1>2, <1>4, <1>5, <1>6, <1>7 DEF Goes

LEMMA HandOffGoes ==
  ASSUME RoomInv, NEW h \in Handlers, HandOff(h)
  PROVE  \E r : Goes(h, r)
<1>1. /\ handler[h].pc = "handoff"
      /\ UNCHANGED <<agenda, server, processed, recalled, spent>>
  BY DEF HandOff
<1>2. Placed(Transactions, handler[h], recalled, handed) /\ SpentTypes /\ recalled \subseteq Messages
  BY <1>1, HandlerFacts
<1>3. /\ handed' \in [Messages -> Nat] /\ \A m \in Messages : handed[m] <= handed'[m]
      /\ handler[h].message \in Messages /\ handed'[handler[h].message] > 0
      /\ turns' \subseteq Messages \X Nat
  BY HandOffBecomes
<1>4. PICK r : /\ Becomes(h, r) /\ r.txn = handler[h].txn /\ r.at = handler[h].at
               /\ r.failed = handler[h].failed /\ r.message = handler[h].message
               /\ r.pc = "answer" /\ r.post = handed'[r.message] /\ r.post > 0
  BY HandOffBecomes
<1>5. Calm
  <2>1. SpentTypes' /\ Trouble' = Trouble
    BY <1>1, <1>2 DEF SpentTypes, Trouble
  <2> QED
    BY <1>1, <1>2, <1>3, <2>1 DEF Calm
<1>6. Placed(Transactions, r, recalled', handed')
  <2>1. r.post \in 1..handed'[r.message]
    <3>1. PICK k \in Nat : k = handed'[r.message]
      BY <1>3, <1>4
    <3>2. k > 0 => k \in 1..k
      OBVIOUS
    <3> QED
      BY <1>4, <3>1, <3>2
  <2> QED
    BY <1>1, <1>2, <1>4, <2>1 DEF Placed
<1>7. \A m \in processed' : m \in processed
  BY <1>1
<1>8. r.pc # "idle" /\ handler[h].pc # "idle"
  BY <1>1, <1>4
<1> QED
  BY <1>3, <1>4, <1>5, <1>6, <1>7, <1>8 DEF Goes

LEMMA HandlerGoes ==
  ASSUME RoomInv, NEW h \in Handlers,
         TakeEvent(h) \/ Join(h) \/ TakeRecent(h) \/ HandOff(h) \/ Reply(h)
  PROVE  \E r : Goes(h, r)
<1>1. CASE TakeRecent(h)
  <2>1. \/ Proceed(h) /\ UNCHANGED <<processed, recalled>>
        \/ \E m \in Messages : Recall(h, m)
    BY <1>1 DEF TakeRecent
  <2>2. handler[h].pc = "recents" /\ UNCHANGED <<agenda, server, handed, turns, spent>>
    BY <1>1 DEF TakeRecent
  <2> QED
    BY <2>1, <2>2, ProceedGoes, RecallGoes
<1>2. CASE Reply(h)
  <2>1. /\ handler[h].pc = "answer" /\ Proceed(h)
        /\ UNCHANGED <<agenda, server, processed, recalled, handed, turns, spent>>
    BY <1>2 DEF Reply
  <2> QED
    BY <2>1, ProceedGoes
<1> QED
  BY <1>1, <1>2, TakeGoes, JoinGoes, HandOffGoes
LEMMA FaultKeepsRoom ==
  ASSUME RoomInv, NEW h \in Handlers, HandlerFault(h)
  PROVE  RoomInv'
<1>1. /\ handler[h].pc \notin {"idle", "event"} /\ Fault
      /\ UNCHANGED <<agenda, server, recalled, handed, turns>>
  BY DEF HandlerFault
<1>2. /\ ~EventsDone(h) /\ SpentTypes /\ recalled \subseteq Messages
      /\ handed \in [Messages -> Nat] /\ turns \subseteq Messages \X Nat
  BY <1>1, HandlerFacts
<1>3. PICK r : /\ Becomes(h, r) /\ r.txn = handler[h].txn /\ r.failed = TRUE
               /\ r.message = Invite /\ r.post = 0 /\ r.pc = "event" /\ r.at = handler[h].at + 1
  BY FailBecomes
<1>4. r \in Records
  BY <1>3 DEF Becomes
<1>5. Placed(Transactions, r, recalled', handed')
  BY <1>1, <1>2, <1>3, <1>4, NextEventPlaced
<1>6. SpentTypes' /\ spent'.timeouts = spent.timeouts
  BY <1>1, <1>2 DEF SpentTypes, Fault
<1>7. \A m \in Messages : handed[m] <= handed'[m]
  BY <1>1, <1>2
<1>8. r.pc # "idle"
  BY <1>3
<1> QED
  BY <1>1, <1>2, <1>3, <1>5, <1>6, <1>7, <1>8, HandlerMoves

LEMMA CrashKeepsRoom == ASSUME RoomInv, Crash PROVE RoomInv'
<1>1. /\ handler' = [h \in Handlers |-> Idle] /\ server' = [server EXCEPT !.waiting = NoHandler]
      /\ UNCHANGED <<agenda, recalled, handed, turns>>
  BY DEF Crash
<1>2. Transactions' = Transactions
  BY <1>1 DEF Transactions
<1>3. SpentTypes'
  BY CrashSpends DEF RoomInv, RoomTypes
<1>4. RoomTypes'
  BY <1>1, <1>2, <1>3, IdleIsPlaced DEF RoomInv, RoomTypes
<1>5. Awaited'
  <2>1. server'.waiting = NoHandler /\ NoHandler \notin Handlers
    BY <1>1, BridgeAssumption DEF RoomInv, RoomTypes
  <2>2. \A h \in Handlers : handler'[h].pc = "idle"
    BY <1>1, IdleIsPlaced
  <2> QED
    BY <2>1, <2>2 DEF Awaited
<1>6. \A h \in Handlers : handler'[h] = Idle
  BY <1>1
<1> QED
  BY <1>2, <1>4, <1>5, <1>6, IdleIsPlaced DEF RoomInv

\* The steps that leave the handlers and what they handed over alone.
Quiet ==
  \/ ServerTimeout \/ PollStep
  \/ \E turn \in turns : EndTurn(turn)
  \/ \E n \in Notes : WriteNote(n) \/ DashboardAck(n) \/ RefuseAck(n)
  \/ UNCHANGED vars

LEMMA QuietLeaves ==
  ASSUME RoomInv, Quiet
  PROVE  /\ UNCHANGED <<agenda, handler, recalled, handed, processed>>
         /\ turns' \subseteq Messages \X Nat /\ SpentTypes'
         /\ spent'.timeouts >= spent.timeouts /\ Trouble' >= Trouble /\ server'.next = server.next
         /\ \/ server' = server /\ spent'.timeouts = spent.timeouts
            \/ server' = [server EXCEPT !.waiting = NoHandler] /\ spent'.timeouts > 0
<1>1. SpentTypes /\ turns \subseteq Messages \X Nat
      /\ server \in [next : 1..Len(Transactions) + 1, waiting : Handlers \cup {NoHandler}]
  BY DEF RoomInv, RoomTypes
<1>2. Trouble \in Nat /\ spent.timeouts \in Nat
  BY <1>1 DEF Trouble, SpentTypes
<1>3. CASE ServerTimeout
  <2>1. /\ UNCHANGED <<agenda, handler, recalled, handed, processed, turns>>
        /\ server' = [server EXCEPT !.waiting = NoHandler]
        /\ spent' = [spent EXCEPT !.timeouts = @ + 1]
    BY <1>3 DEF ServerTimeout
  <2>2. SpentTypes' /\ spent'.timeouts = spent.timeouts + 1 /\ Trouble' = Trouble
    BY <1>1, <2>1 DEF SpentTypes, Trouble
  <2>3. server'.next = server.next
    BY <1>1, <2>1
  <2> QED
    BY <1>1, <1>2, <2>1, <2>2, <2>3
<1>4. CASE UNCHANGED spent /\ UNCHANGED <<agenda, handler, recalled, handed, processed, server>>
           /\ turns' \subseteq turns
  BY <1>1, <1>2, <1>4 DEF SpentTypes, Trouble
<1>5. CASE Fault /\ UNCHANGED inboundVars
  <2>1. /\ SpentTypes' /\ spent'.timeouts = spent.timeouts
        /\ spent'.faults = spent.faults + 1 /\ spent'.crashes = spent.crashes
    BY <1>1, <1>5 DEF SpentTypes, Fault
  <2>2. Trouble' = Trouble + 1
    BY <1>1, <2>1 DEF Trouble, SpentTypes
  <2> QED
    BY <1>1, <1>2, <1>5, <2>1, <2>2 DEF inboundVars
<1>6. CASE PollStep
  <2>1. UNCHANGED inboundVars /\ (UNCHANGED spent \/ Fault)
    BY <1>6 DEF PollStep, Fetch, Send, Ack, AckAnswered
  <2> QED
    BY <1>4, <1>5, <2>1 DEF inboundVars
<1>7. CASE \E turn \in turns : EndTurn(turn)
  BY <1>4, <1>7 DEF EndTurn
<1>8. CASE \E n \in Notes : WriteNote(n) \/ DashboardAck(n) \/ RefuseAck(n)
  <2>1. UNCHANGED inboundVars /\ (UNCHANGED spent \/ Fault)
    BY <1>8 DEF WriteNote, DashboardAck, RecordAck, MoveSession, RefuseAck
  <2> QED
    BY <1>4, <1>5, <2>1 DEF inboundVars
<1>9. CASE UNCHANGED vars
  BY <1>4, <1>9 DEF vars, inboundVars
<1> QED
  BY <1>3, <1>6, <1>7, <1>8, <1>9 DEF Quiet

LEMMA QuietKeepsRoom == ASSUME RoomInv, Quiet PROVE RoomInv'
  BY QuietLeaves, RoomStays

LEMMA GoesKeepsRoom == ASSUME RoomInv, NEW h \in Handlers, NEW r, Goes(h, r) PROVE RoomInv'
  BY HandlerMoves DEF Goes, Calm

\* Every step is of one of these kinds.
LEMMA StepKinds ==
  ASSUME RoomInv, [Next]_vars
  PROVE  \/ \E h \in Handlers : SendTransaction(h) \/ Answer(h) \/ HandlerFault(h)
         \/ \E h \in Handlers : \E r : Goes(h, r)
         \/ Crash \/ Quiet
  BY HandlerGoes DEF Next, Handle, Quiet

LEMMA RoomStep == RoomInv /\ [Next]_vars => RoomInv'
  BY StepKinds, SendKeepsRoom, AnswerKeepsRoom, FaultKeepsRoom, GoesKeepsRoom, CrashKeepsRoom, QuietKeepsRoom

LEMMA RoomInit == Init => RoomInv
<1> SUFFICES ASSUME Init PROVE RoomInv
  OBVIOUS
<1>1. agenda \in Agendas /\ server = [next |-> 1, waiting |-> NoHandler]
      /\ handler = [h \in Handlers |-> Idle] /\ handed = [m \in Messages |-> 0]
      /\ recalled = {} /\ turns = {} /\ spent = [faults |-> 0, timeouts |-> 0, crashes |-> 0, clears |-> 0]
  BY DEF Init
<1>2. server \in [next : 1..Len(Transactions) + 1, waiting : Handlers \cup {NoHandler}]
  <2>1. PICK n \in Nat : n = Len(Transactions)
    BY <1>1, TxnFacts
  <2>2. 1 \in 1..n + 1
    OBVIOUS
  <2> QED
    BY <1>1, <2>1, <2>2
<1>3. RoomTypes
  BY <1>1, <1>2, IdleIsPlaced DEF RoomTypes, SpentTypes
<1>4. Awaited
  BY <1>1, IdleIsPlaced, BridgeAssumption DEF Awaited
<1> QED
  BY <1>1, <1>3, <1>4, IdleIsPlaced DEF RoomInv

-----------------------------------------------------------------------------
(* What a handler passed over has been handed over, is in hand, or may be  *)
(* lost; and so is what PROCESSED remembers, which lets it be passed over. *)

Covered(m) == handed[m] > 0 \/ InHand(m) \/ MayBeLost(m)
PassedOver(t, i) == Transactions[t][i] # Invite => Covered(Transactions[t][i])
DoneWith(h, last) == \A i \in 1..last : PassedOver(handler[h].txn, i)

Coverage ==
  /\ \A m \in processed \cap Messages : Covered(m)
  /\ \A h \in Handlers : handler[h].pc # "idle" /\ ~handler[h].failed => DoneWith(h, handler[h].at - 1)
  /\ \A t \in 1..(server.next - 1) : \A i \in DOMAIN Transactions[t] : PassedOver(t, i)

\* A step in which nothing is taken back.
Onward ==
  /\ agenda' = agenda
  /\ recalled \subseteq recalled' /\ SpentTypes'
  /\ spent'.timeouts >= spent.timeouts /\ Trouble' >= Trouble
  /\ handed' \in [Messages -> Nat] /\ \A m \in Messages : handed[m] <= handed'[m]

LEMMA CoveredLasts ==
  ASSUME RoomInv, Onward, NEW m \in Messages, Covered(m),
         \A h \in Handlers : handler[h].pc = "handoff" /\ handler[h].message = m =>
           handed'[m] > 0 \/ (handler'[h].pc = "handoff" /\ handler'[h].message = m)
  PROVE  Covered(m)'
<1>1. CASE handed[m] > 0
  <2>1. PICK a \in Nat : a = handed[m]
    BY DEF RoomInv, RoomTypes
  <2>2. PICK b \in Nat : b = handed'[m]
    BY DEF Onward
  <2>3. a <= b /\ a > 0
    BY <1>1, <2>1, <2>2 DEF Onward
  <2>4. b > 0
    BY <2>3
  <2> QED
    BY <2>2, <2>4 DEF Covered
<1>2. CASE InHand(m)
  BY <1>2 DEF Covered, InHand
<1>3. CASE MayBeLost(m)
  <2>1. SpentTypes /\ SpentTypes'
    BY DEF Onward, RoomInv, RoomTypes
  <2>2. Trouble > 0 /\ (spent.timeouts > 0 \/ m \in recalled)
    BY <1>3 DEF MayBeLost, Trouble
  <2>3. Trouble \in Nat /\ Trouble' \in Nat /\ spent.timeouts \in Nat /\ spent'.timeouts \in Nat
    BY <2>1 DEF SpentTypes, Trouble
  <2>4. Trouble' > 0 /\ (spent'.timeouts > 0 \/ m \in recalled')
    BY <2>2, <2>3 DEF Onward
  <2> QED
    BY <2>4 DEF Covered, MayBeLost, Trouble
<1> QED
  BY <1>1, <1>2, <1>3 DEF Covered

\* The positions before the one of a handler, and in the transactions already served.
LEMMA PositionsHold ==
  ASSUME RoomInv
  PROVE  /\ \A h \in Handlers : handler[h].pc # "idle" =>
              \A i \in 1..(handler[h].at - 1) :
                /\ i \in DOMAIN Transactions[handler[h].txn]
                /\ Transactions[handler[h].txn][i] \in Events
         /\ \A t \in 1..(server.next - 1) :
              /\ t \in DOMAIN Transactions
              /\ \A i \in DOMAIN Transactions[t] : Transactions[t][i] \in Events
<1>1. ASSUME NEW h \in Handlers, handler[h].pc # "idle", NEW i \in 1..(handler[h].at - 1)
      PROVE  i \in DOMAIN Transactions[handler[h].txn] /\ Transactions[handler[h].txn][i] \in Events
  <2>1. handler[h].txn \in DOMAIN Transactions /\ handler[h].at \in 1..Len(Transactions[handler[h].txn]) + 1
    BY <1>1 DEF RoomInv, Placed
  <2>2. PICK n \in Nat : n = Len(Transactions[handler[h].txn]) /\ DOMAIN Transactions[handler[h].txn] = 1..n
    BY <1>1, HandlerFacts
  <2>3. PICK k \in Nat : k = handler[h].at /\ k \in 1..n + 1
    BY <2>1, <2>2
  <2>4. i \in 1..n
    BY <1>1, <2>3
  <2> QED
    BY <2>1, <2>2, <2>4, TxnFacts DEF RoomInv, RoomTypes
<1>2. ASSUME NEW t \in 1..(server.next - 1)
      PROVE  t \in DOMAIN Transactions /\ \A i \in DOMAIN Transactions[t] : Transactions[t][i] \in Events
  <2>1. PICK n \in Nat : n = Len(Transactions) /\ DOMAIN Transactions = 1..n
    BY TxnFacts DEF RoomInv, RoomTypes
  <2>2. PICK k \in Nat : k = server.next /\ k \in 1..n + 1
    BY <2>1 DEF RoomInv, RoomTypes
  <2>3. t \in 1..n
    BY <2>2
  <2> QED
    BY <2>1, <2>3, TxnFacts DEF RoomInv, RoomTypes
<1> QED
  BY <1>1, <1>2

LEMMA PassedOverLasts ==
  ASSUME RoomInv, Onward, NEW t \in DOMAIN Transactions, NEW i \in DOMAIN Transactions[t], PassedOver(t, i),
         \A m \in Messages : Covered(m) => Covered(m)'
  PROVE  PassedOver(t, i)'
<1>1. Transactions' = Transactions
  BY DEF Onward, Transactions
<1>2. Transactions[t][i] \in Events
  BY TxnFacts DEF RoomInv, RoomTypes
<1>3. CASE Transactions[t][i] # Invite
  <2>1. PICK m \in Messages : m = Transactions[t][i]
    BY <1>2, <1>3 DEF Messages
  <2>2. Covered(m)
    BY <1>3, <2>1 DEF PassedOver
  <2>3. Covered(m)'
    BY <2>2
  <2> QED
    BY <1>1, <2>1, <2>3 DEF PassedOver
<1> QED
  BY <1>1, <1>3 DEF PassedOver

\* As long as what was covered stays so, the transactions already served are.
LEMMA ServedLasts ==
  ASSUME RoomInv, Coverage, Onward, server'.next = server.next,
         \A m \in Messages : Covered(m) => Covered(m)'
  PROVE  \A t \in 1..(server'.next - 1) : \A i \in DOMAIN Transactions'[t] : PassedOver(t, i)'
<1>1. Transactions' = Transactions
  BY DEF Onward, Transactions
<1> SUFFICES ASSUME NEW t \in 1..(server.next - 1), NEW i \in DOMAIN Transactions[t]
             PROVE  PassedOver(t, i)'
  BY <1>1
<1>2. t \in DOMAIN Transactions /\ PassedOver(t, i)
  BY PositionsHold DEF Coverage
<1> QED
  BY <1>2, PassedOverLasts

LEMMA DoneLasts ==
  ASSUME RoomInv, Onward, \A m \in Messages : Covered(m) => Covered(m)',
         NEW h \in Handlers, handler[h].pc # "idle", NEW t, t = handler[h].txn, t = handler'[h].txn,
         DoneWith(h, handler[h].at - 1)
  PROVE  \A i \in 1..(handler[h].at - 1) : PassedOver(t, i)'
<1> SUFFICES ASSUME NEW i \in 1..(handler[h].at - 1) PROVE PassedOver(t, i)'
  OBVIOUS
<1>1. i \in DOMAIN Transactions[t] /\ t \in DOMAIN Transactions
  BY PositionsHold, HandlerFacts
<1>2. PassedOver(t, i)
  BY DEF DoneWith
<1> QED
  BY <1>1, <1>2, PassedOverLasts

LEMMA GoesKeepsCoverage ==
  ASSUME RoomInv, Coverage, NEW h \in Handlers, NEW r, Goes(h, r)
  PROVE  Coverage'
<1>1. /\ handler'[h] = r /\ \A g \in Handlers \ {h} : handler'[g] = handler[g]
      /\ handler[h].pc # "idle" /\ r.pc # "idle" /\ r.txn = handler[h].txn /\ r.failed = handler[h].failed
      /\ server' = server /\ agenda' = agenda
  BY DEF Goes, Calm, Becomes, RoomInv, RoomTypes
<1>2. Onward
  <2>1. spent.timeouts \in Nat /\ Trouble \in Nat
    BY DEF RoomInv, RoomTypes, SpentTypes, Trouble
  <2> QED
    BY <2>1 DEF Goes, Calm, Onward
<1>3. ASSUME NEW m \in Messages, Covered(m) PROVE Covered(m)'
  <2>1. ASSUME NEW g \in Handlers, handler[g].pc = "handoff", handler[g].message = m
        PROVE  handed'[m] > 0 \/ (handler'[g].pc = "handoff" /\ handler'[g].message = m)
    <3>1. CASE g = h
      BY <2>1, <3>1 DEF Goes
    <3>2. CASE g # h
      BY <1>1, <2>1, <3>2
    <3> QED
      BY <3>1, <3>2
  <2> QED
    BY <1>2, <1>3, <2>1, CoveredLasts
<1>4. ASSUME NEW m \in processed' \cap Messages PROVE Covered(m)'
  <2>1. CASE m \in processed
    BY <1>3, <2>1 DEF Coverage
  <2>2. CASE m \notin processed
    <3>1. r.pc = "handoff" /\ r.message = m
      BY <2>2 DEF Goes, Messages
    <3> QED
      BY <1>1, <3>1 DEF Covered, InHand
  <2> QED
    BY <2>1, <2>2
<1>5. Transactions' = Transactions
  BY <1>1 DEF Transactions
<1>6. ASSUME NEW g \in Handlers, handler'[g].pc # "idle", ~handler'[g].failed
      PROVE  \A i \in 1..(handler'[g].at - 1) : PassedOver(handler[g].txn, i)'
  <2>1. PICK t : t = handler[g].txn
    OBVIOUS
  <2>2. handler'[g].txn = t /\ handler[g].pc # "idle" /\ ~handler[g].failed
    BY <1>1, <1>6, <2>1
  <2>3. \A i \in 1..(handler[g].at - 1) : PassedOver(t, i)'
    BY <1>2, <1>3, <2>1, <2>2, DoneLasts DEF Coverage
  <2>4. CASE handler'[g].at = handler[g].at
    BY <2>2, <2>3, <2>4
  <2>5. CASE handler'[g].at # handler[g].at
    <3>1. g = h /\ handler'[g].at = handler[h].at + 1 /\ ~EventsDone(h) /\ Passes(h)
      BY <1>1, <2>5 DEF Goes
    <3>2. PICK n \in Nat : n = handler[h].at /\ n \in DOMAIN Transactions[t] /\ t \in DOMAIN Transactions
      BY <1>1, <2>1, <3>1, HandlerFacts
    <3>3. PassedOver(t, n)'
      <4>1. Event(h) = Transactions[t][n] /\ Event(h) \in Events
        BY <1>1, <2>1, <3>1, <3>2, HandlerFacts
      <4>2. CASE Event(h) = Invite
        BY <1>5, <4>1, <4>2 DEF PassedOver
      <4>3. CASE Event(h) # Invite
        <5>1. PICK m \in Messages : m = Event(h)
          BY <4>1, <4>3 DEF Messages
        <5>2. Covered(m)
          BY <3>1, <4>3, <5>1 DEF Passes, Covered, Coverage
        <5>3. Covered(m)'
          BY <1>3, <5>2
        <5>4. m = Transactions[t][n]
          BY <4>1, <5>1
        <5> QED
          BY <1>5, <5>3, <5>4 DEF PassedOver
      <4> QED
        BY <4>2, <4>3
    <3>4. \A i \in 1..(n + 1 - 1) : i = n \/ i \in 1..(n - 1)
      BY <3>2
    <3>5. \A i \in 1..(n + 1 - 1) : PassedOver(t, i)'
      <4>1. \A i \in 1..(n - 1) : PassedOver(t, i)'
        BY <2>3, <3>1, <3>2
      <4> QED
        BY <3>3, <3>4, <4>1
    <3>6. 1..(handler'[g].at - 1) = 1..(n + 1 - 1)
      BY <3>1, <3>2
    <3> QED
      BY <2>2, <3>5, <3>6
  <2> QED
    BY <2>4, <2>5
<1>7. \A t \in 1..(server'.next - 1) : \A i \in DOMAIN Transactions'[t] : PassedOver(t, i)'
  BY <1>1, <1>2, <1>3, ServedLasts
<1> QED
  BY <1>4, <1>6, <1>7 DEF Coverage, DoneWith

LEMMA QuietKeepsCoverage ==
  ASSUME RoomInv, Coverage, Quiet
  PROVE  Coverage'
<1>1. /\ UNCHANGED <<agenda, handler, recalled, handed, processed>> /\ server'.next = server.next
      /\ SpentTypes' /\ spent'.timeouts >= spent.timeouts /\ Trouble' >= Trouble
  BY QuietLeaves
<1>2. Onward
  <2>1. handed \in [Messages -> Nat] /\ \A m \in Messages : handed[m] <= handed[m]
    BY DEF RoomInv, RoomTypes
  <2> QED
    BY <1>1, <2>1 DEF Onward
<1>3. \A m \in Messages : Covered(m) => Covered(m)'
  BY <1>1, <1>2, CoveredLasts
<1>4. ASSUME NEW g \in Handlers, handler'[g].pc # "idle", ~handler'[g].failed
      PROVE  \A i \in 1..(handler'[g].at - 1) : PassedOver(handler[g].txn, i)'
  <2>1. PICK t : t = handler[g].txn
    OBVIOUS
  <2>2. \A i \in 1..(handler[g].at - 1) : PassedOver(t, i)'
    BY <1>1, <1>2, <1>3, <1>4, <2>1, DoneLasts DEF Coverage
  <2> QED
    BY <1>1, <2>1, <2>2
<1>5. \A t \in 1..(server'.next - 1) : \A i \in DOMAIN Transactions'[t] : PassedOver(t, i)'
  BY <1>1, <1>2, <1>3, ServedLasts
<1> QED
  BY <1>1, <1>3, <1>4, <1>5 DEF Coverage, DoneWith

LEMMA SendKeepsCoverage ==
  ASSUME RoomInv, Coverage, NEW h \in Handlers, SendTransaction(h)
  PROVE  Coverage'
<1>1. /\ UNCHANGED <<agenda, recalled, handed, processed, spent>> /\ server'.next = server.next
      /\ handler[h].pc = "idle"
      /\ handler' = [handler EXCEPT ![h] = [Idle EXCEPT !.pc = "event", !.txn = server.next]]
  BY DEF SendTransaction, RoomInv, RoomTypes
<1>2. /\ handler'[h].pc = "event" /\ handler'[h].at = 1
      /\ \A g \in Handlers \ {h} : handler'[g] = handler[g]
  BY <1>1 DEF RoomInv, RoomTypes, Idle
<1>3. Onward
  <2>1. handed \in [Messages -> Nat] /\ \A m \in Messages : handed[m] <= handed[m]
    BY DEF RoomInv, RoomTypes
  <2>2. SpentTypes' /\ spent'.timeouts >= spent.timeouts /\ Trouble' >= Trouble
    BY <1>1 DEF RoomInv, RoomTypes, SpentTypes, Trouble
  <2> QED
    BY <1>1, <2>1, <2>2 DEF Onward
<1>4. ASSUME NEW m \in Messages, Covered(m) PROVE Covered(m)'
  <2>1. \A g \in Handlers : handler[g].pc = "handoff" => handler'[g] = handler[g]
    BY <1>1, <1>2
  <2> QED
    BY <1>3, <1>4, <2>1, CoveredLasts
<1>5. ASSUME NEW g \in Handlers, handler'[g].pc # "idle", ~handler'[g].failed
      PROVE  \A i \in 1..(handler'[g].at - 1) : PassedOver(handler[g].txn, i)'
  <2>1. CASE g = h
    BY <1>2, <2>1
  <2>2. CASE g # h
    <3>1. PICK t : t = handler[g].txn
      OBVIOUS
    <3>2. handler'[g] = handler[g]
      BY <1>2, <2>2
    <3>3. \A i \in 1..(handler[g].at - 1) : PassedOver(t, i)'
      BY <1>3, <1>4, <1>5, <3>1, <3>2, DoneLasts DEF Coverage
    <3> QED
      BY <3>1, <3>2, <3>3
  <2> QED
    BY <2>1, <2>2
<1>6. \A t \in 1..(server'.next - 1) : \A i \in DOMAIN Transactions'[t] : PassedOver(t, i)'
  BY <1>1, <1>3, <1>4, ServedLasts
<1> QED
  BY <1>1, <1>4, <1>5, <1>6 DEF Coverage, DoneWith

\* Answered with 200, a transaction has been passed over as a whole.
LEMMA AnswerKeepsCoverage ==
  ASSUME RoomInv, Coverage, NEW h \in Handlers, Answer(h)
  PROVE  Coverage'
<1>1. /\ UNCHANGED <<agenda, recalled, handed, processed, spent>>
      /\ handler[h].pc = "event" /\ EventsDone(h)
      /\ handler' = [handler EXCEPT ![h] = Idle]
  BY DEF Answer
<1>2. handler'[h].pc = "idle" /\ \A g \in Handlers \ {h} : handler'[g] = handler[g]
  BY <1>1, IdleIsPlaced DEF RoomInv, RoomTypes
<1>3. Onward
  <2>1. handed \in [Messages -> Nat] /\ \A m \in Messages : handed[m] <= handed[m]
    BY DEF RoomInv, RoomTypes
  <2>2. SpentTypes' /\ spent'.timeouts >= spent.timeouts /\ Trouble' >= Trouble
    BY <1>1 DEF RoomInv, RoomTypes, SpentTypes, Trouble
  <2> QED
    BY <1>1, <2>1, <2>2 DEF Onward
<1>4. ASSUME NEW m \in Messages, Covered(m) PROVE Covered(m)'
  <2>1. \A g \in Handlers : handler[g].pc = "handoff" => handler'[g] = handler[g]
    BY <1>1, <1>2
  <2> QED
    BY <1>3, <1>4, <2>1, CoveredLasts
<1>5. ASSUME NEW g \in Handlers, handler'[g].pc # "idle", ~handler'[g].failed
      PROVE  \A i \in 1..(handler'[g].at - 1) : PassedOver(handler[g].txn, i)'
  <2>1. PICK t : t = handler[g].txn
    OBVIOUS
  <2>2. handler'[g] = handler[g]
    BY <1>2, <1>5
  <2>3. \A i \in 1..(handler[g].at - 1) : PassedOver(t, i)'
    BY <1>3, <1>4, <1>5, <2>1, <2>2, DoneLasts DEF Coverage
  <2> QED
    BY <2>1, <2>2, <2>3
<1>6. ASSUME NEW t \in 1..(server'.next - 1), NEW i \in DOMAIN Transactions'[t]
      PROVE  PassedOver(t, i)'
  <2>1. Transactions' = Transactions
    BY <1>1 DEF Transactions
  <2>2. CASE server'.next = server.next
    BY <1>3, <1>4, <1>6, <2>2, ServedLasts
  <2>3. CASE server'.next # server.next
    <3>1. /\ handler[h].txn = server.next /\ server.next \in 1..Len(Transactions)
          /\ server'.next = server.next + 1 /\ ~handler[h].failed
      BY <2>3, AnswerServes
    <3>2. PICK k \in Nat : k = server.next /\ k \in DOMAIN Transactions
      BY <3>1, TxnFacts DEF RoomInv, RoomTypes
    <3>3. t = k \/ t \in 1..(k - 1)
      BY <1>6, <3>1, <3>2
    <3>4. CASE t = k
      <4>1. i \in DOMAIN Transactions[k]
        BY <1>6, <2>1, <3>4
      <4>2. PICK n \in Nat : n = Len(Transactions[k]) /\ DOMAIN Transactions[k] = 1..n
        BY <3>2, TxnFacts DEF RoomInv, RoomTypes
      <4>3. PICK a \in Nat : a = handler[h].at
        BY <1>1, HandlerFacts
      <4>4. a > n
        BY <1>1, <3>1, <3>2, <4>2, <4>3 DEF EventsDone
      <4>5. i \in 1..(a - 1)
        BY <4>1, <4>2, <4>4
      <4>6. PassedOver(k, i)
        BY <1>1, <3>1, <3>2, <4>3, <4>5 DEF Coverage, DoneWith
      <4> QED
        BY <1>3, <1>4, <3>2, <3>4, <4>1, <4>6, PassedOverLasts
    <3>5. CASE t \in 1..(k - 1)
      <4>1. PassedOver(t, i) /\ t \in DOMAIN Transactions /\ i \in DOMAIN Transactions[t]
        BY <1>6, <2>1, <3>2, <3>5, PositionsHold DEF Coverage
      <4> QED
        BY <1>3, <1>4, <4>1, PassedOverLasts
    <3> QED
      BY <3>3, <3>4, <3>5
  <2> QED
    BY <2>2, <2>3
<1> QED
  BY <1>1, <1>4, <1>5, <1>6 DEF Coverage, DoneWith

\* What a failure loses for good is the event of the handler the homeserver waits for:
\* that transaction will come again.
LEMMA LostIsAwaited ==
  ASSUME RoomInv, NEW m \in Messages, Covered(m), ~Covered(m)',
         UNCHANGED <<recalled, handed>>, spent'.timeouts = spent.timeouts, Trouble' > 0
  PROVE  /\ spent.timeouts = 0
         /\ \E h \in Handlers :
              /\ server.waiting = h /\ handler[h].txn = server.next /\ handler[h].pc = "handoff"
              /\ handler[h].txn \in DOMAIN Transactions /\ Event(h) = m
              /\ handler[h].at \in DOMAIN Transactions[handler[h].txn]
              /\ Transactions[handler[h].txn][handler[h].at] = m
<1>1. m \notin recalled /\ ~(spent.timeouts > 0) /\ handed[m] = handed'[m] /\ ~(handed'[m] > 0)
  BY DEF Covered, MayBeLost, Trouble
<1>2. spent.timeouts = 0
  BY <1>1 DEF RoomInv, RoomTypes, SpentTypes
<1>3. ~MayBeLost(m)
  BY <1>1 DEF MayBeLost
<1>4. PICK h \in Handlers : handler[h].message = m /\ handler[h].pc = "handoff"
  BY <1>1, <1>3 DEF Covered, InHand
<1>5. server.waiting = h /\ handler[h].txn = server.next
  BY <1>2, <1>4 DEF RoomInv, Awaited
<1>6. /\ Placed(Transactions, handler[h], recalled, handed) /\ handler[h].txn \in DOMAIN Transactions
      /\ ~EventsDone(h)
  BY <1>4, HandlerFacts
<1>7. Event(h) = Transactions[handler[h].txn][handler[h].at]
      /\ handler[h].at \in DOMAIN Transactions[handler[h].txn]
  BY <1>4, <1>6, HandlerFacts
<1>8. Transactions[handler[h].txn][handler[h].at] = m
  BY <1>1, <1>4, <1>6 DEF Placed
<1> QED
  BY <1>2, <1>4, <1>5, <1>6, <1>7, <1>8

\* So what was served before stays covered when something fails.
LEMMA ServedSurvives ==
  ASSUME RoomInv, Coverage, UNCHANGED <<agenda, recalled, handed>>, server'.next = server.next,
         spent'.timeouts = spent.timeouts, Trouble' > 0
  PROVE  \A t \in 1..(server'.next - 1) : \A i \in DOMAIN Transactions'[t] : PassedOver(t, i)'
<1>1. Transactions' = Transactions
  BY DEF Transactions
<1> SUFFICES ASSUME NEW t \in 1..(server.next - 1), NEW i \in DOMAIN Transactions[t],
                    Transactions[t][i] # Invite
             PROVE  Covered(Transactions[t][i])'
  BY <1>1 DEF PassedOver
<1>2. t \in DOMAIN Transactions /\ Transactions[t][i] \in Events /\ PassedOver(t, i)
  BY PositionsHold DEF Coverage
<1>3. PICK m \in Messages : m = Transactions[t][i]
  BY <1>2 DEF Messages
<1>4. Covered(m)
  BY <1>2, <1>3 DEF PassedOver, Messages
<1>5. Covered(m)'
  <2> SUFFICES ASSUME ~Covered(m)' PROVE FALSE
    OBVIOUS
  <2>1. PICK u \in DOMAIN Transactions :
          u = server.next /\ \E j \in DOMAIN Transactions[u] : Transactions[u][j] = m
    BY <1>4, LostIsAwaited
  <2>2. t = u
    BY <1>2, <1>3, <2>1, TxnFacts DEF RoomInv, RoomTypes
  <2>3. PICK k \in Nat : k = server.next
    BY DEF RoomInv, RoomTypes
  <2> QED
    BY <2>1, <2>2, <2>3
<1> QED
  BY <1>1, <1>3, <1>5

LEMMA FaultKeepsCoverage ==
  ASSUME RoomInv, Coverage, NEW h \in Handlers, HandlerFault(h)
  PROVE  Coverage'
<1>1. /\ UNCHANGED <<agenda, server, recalled, handed>> /\ Fault
      /\ processed' = processed \ {Event(h)} /\ handler[h].pc \notin {"idle", "event"}
  BY DEF HandlerFault, Fails, Forgotten
<1>2. PICK r : Becomes(h, r) /\ r.failed = TRUE
  BY FailBecomes
<1>3. handler'[h].failed = TRUE /\ \A g \in Handlers \ {h} : handler'[g] = handler[g]
  BY <1>2 DEF Becomes, RoomInv, RoomTypes
<1>4. /\ SpentTypes' /\ spent'.timeouts = spent.timeouts /\ spent'.timeouts >= spent.timeouts
      /\ Trouble' >= Trouble /\ Trouble' > 0
  <2>1. SpentTypes
    BY DEF RoomInv, RoomTypes
  <2>2. /\ SpentTypes' /\ spent'.timeouts = spent.timeouts
        /\ spent'.faults = spent.faults + 1 /\ spent'.crashes = spent.crashes
    BY <1>1, <2>1 DEF SpentTypes, Fault
  <2>3. Trouble' = Trouble + 1 /\ Trouble \in Nat /\ spent.timeouts \in Nat
    BY <2>1, <2>2 DEF Trouble, SpentTypes
  <2> QED
    BY <2>2, <2>3
<1>5. Onward
  <2>1. handed \in [Messages -> Nat] /\ \A m \in Messages : handed[m] <= handed[m]
    BY DEF RoomInv, RoomTypes
  <2> QED
    BY <1>1, <1>4, <2>1 DEF Onward
<1>6. ASSUME NEW m \in Messages, Covered(m), ~Covered(m)'
      PROVE  m = Event(h) /\ \A g \in Handlers : handler[g].pc # "idle" => g = h
  <2>1. spent.timeouts = 0 /\ \E g \in Handlers : server.waiting = g /\ Event(g) = m
    BY <1>1, <1>4, <1>6, LostIsAwaited
  <2>2. server.waiting = h /\ \A g \in Handlers : handler[g].pc # "idle" => server.waiting = g
    BY <1>1, <2>1 DEF RoomInv, Awaited
  <2> QED
    BY <2>1, <2>2
<1>7. \A m \in processed' \cap Messages : Covered(m)'
  BY <1>1, <1>6 DEF Coverage
<1>8. ASSUME NEW g \in Handlers, handler'[g].pc # "idle", ~handler'[g].failed
      PROVE  \A i \in 1..(handler'[g].at - 1) : PassedOver(handler[g].txn, i)'
  <2>1. PICK t : t = handler[g].txn
    OBVIOUS
  <2>2. g # h /\ handler'[g] = handler[g]
    BY <1>3, <1>8
  <2>3. \A m \in Messages : Covered(m) => Covered(m)'
    BY <1>6, <1>8, <2>2
  <2>4. \A i \in 1..(handler[g].at - 1) : PassedOver(t, i)'
    BY <1>5, <1>8, <2>1, <2>2, <2>3, DoneLasts DEF Coverage
  <2> QED
    BY <2>1, <2>2, <2>4
<1>9. \A t \in 1..(server'.next - 1) : \A i \in DOMAIN Transactions'[t] : PassedOver(t, i)'
  BY <1>1, <1>4, ServedSurvives
<1> QED
  BY <1>7, <1>8, <1>9 DEF Coverage, DoneWith

LEMMA CrashKeepsCoverage == ASSUME RoomInv, Coverage, Crash PROVE Coverage'
<1>1. /\ UNCHANGED <<agenda, recalled, handed>> /\ server'.next = server.next
      /\ processed' = {} /\ handler' = [h \in Handlers |-> Idle]
      /\ spent' = [spent EXCEPT !.crashes = @ + 1]
  BY DEF Crash, RoomInv, RoomTypes
<1>2. spent'.timeouts = spent.timeouts /\ Trouble' > 0
  <2>1. SpentTypes
    BY DEF RoomInv, RoomTypes
  <2>2. spent'.timeouts = spent.timeouts /\ spent'.faults = spent.faults /\ spent'.crashes = spent.crashes + 1
    BY <1>1, <2>1 DEF SpentTypes
  <2> QED
    BY <2>1, <2>2 DEF Trouble, SpentTypes
<1>3. \A h \in Handlers : handler'[h].pc = "idle"
  BY <1>1, IdleIsPlaced
<1>4. \A t \in 1..(server'.next - 1) : \A i \in DOMAIN Transactions'[t] : PassedOver(t, i)'
  BY <1>1, <1>2, ServedSurvives
<1> QED
  BY <1>1, <1>3, <1>4 DEF Coverage, DoneWith

LEMMA CoverageStep == RoomInv /\ Coverage /\ [Next]_vars => Coverage'
  BY StepKinds, SendKeepsCoverage, AnswerKeepsCoverage, FaultKeepsCoverage, GoesKeepsCoverage,
     CrashKeepsCoverage, QuietKeepsCoverage

LEMMA CoverageInit == Init => Coverage
<1> SUFFICES ASSUME Init PROVE Coverage
  OBVIOUS
<1>1. processed = {} /\ server.next = 1 /\ \A h \in Handlers : handler[h].pc = "idle"
  BY IdleIsPlaced DEF Init
<1> QED
  BY <1>1 DEF Coverage

\* A transaction answered with 200 holds no message that nobody handed over or has in
\* hand, unless the handler that had it failed or died and another one had passed over
\* it: the homeserver sent the transaction twice, or it came from the history.
THEOREM AcceptedAreHandled == Spec => []AcceptedIsHandled
<1>1. Init => RoomInv /\ Coverage
  BY RoomInit, CoverageInit
<1>2. RoomInv /\ Coverage /\ [Next]_vars => RoomInv' /\ Coverage'
  BY RoomStep, CoverageStep
<1>3. RoomInv /\ Coverage => AcceptedIsHandled
  <2> SUFFICES ASSUME RoomInv, Coverage, NEW m \in Offered, TxnOf(m) < server.next
               PROVE  handed[m] > 0 \/ InHand(m) \/ MayBeLost(m)
    BY DEF AcceptedIsHandled
  <2>1. \E t \in DOMAIN Transactions : m \in ToSet(Transactions[t])
    BY DEF Offered, EventsOf
  <2>2. TxnOf(m) \in DOMAIN Transactions /\ m \in ToSet(Transactions[TxnOf(m)])
    BY <2>1 DEF TxnOf
  <2>3. PICK i \in DOMAIN Transactions[TxnOf(m)] : Transactions[TxnOf(m)][i] = m
    BY <2>2 DEF ToSet
  <2>4. TxnOf(m) \in 1..(server.next - 1)
    <3>1. PICK k \in Nat : k = server.next
      BY DEF RoomInv, RoomTypes
    <3>2. PICK n \in Nat : n = Len(Transactions) /\ DOMAIN Transactions = 1..n
      BY TxnFacts DEF RoomInv, RoomTypes
    <3>3. PICK t \in Nat : t = TxnOf(m) /\ t \in 1..n
      BY <2>2, <3>2
    <3>4. t \in 1..(k - 1)
      BY <3>1, <3>3
    <3> QED
      BY <3>1, <3>3, <3>4
  <2>5. m # Invite
    BY DEF Offered
  <2> QED
    BY <2>3, <2>4, <2>5 DEF Coverage, PassedOver, Covered
<1> QED
  BY <1>1, <1>2, <1>3, PTL DEF Spec

-----------------------------------------------------------------------------
(* The domains of the rest, and what PROCESSED may hold.                   *)

\* What the queue works with was written for this room.
Posting ==
  /\ ToSet(written) \subseteq agenda.notes /\ ledger \cup refused \subseteq ToSet(written)
  /\ \A n \in Notes : acking[n] # "none" => n \in ToSet(written)
  /\ session \in Tickets \cup {NoTicket}
  /\ poll.pc = "asleep" <=> poll.batch = {}

LEMMA NextOfHolds ==
  ASSUME NEW batch
  PROVE  NextOf(batch).pc = "asleep" <=> NextOf(batch).batch = {}
  BY DEF NextOf, Asleep

LEMMA PostingStays ==
  ASSUME Posting, UNCHANGED <<agenda, written, ledger, refused, acking, session>>,
         poll'.pc = "asleep" <=> poll'.batch = {}
  PROVE  Posting'
  BY DEF Posting, Tickets

LEMMA PollKeepsPosting ==
  ASSUME OutboundTypes, Posting, PollStep
  PROVE  Posting'
<1>1. CASE Fetch
  <2>1. poll' = NextOf(Pending) /\ UNCHANGED <<agenda, written, ledger, refused, acking, session>>
    BY <1>1 DEF Fetch, inboundVars
  <2> QED
    BY <2>1, NextOfHolds, PostingStays
<1>2. ASSUME NEW n \in Notes, Send(n) PROVE Posting'
  <2>1. PICK outcome \in SendOutcomes :
          /\ refused' = IF outcome = "forbidden" THEN refused \cup {n} ELSE refused
          /\ poll' = AfterSend(n, outcome)
    BY <1>2 DEF Send
  <2>2. /\ UNCHANGED <<agenda, written, ledger, acking, session>>
        /\ n \in poll.batch /\ n \in ToSet(written)
    BY <1>2 DEF Send, inboundVars, IsNext, OutboundTypes
  <2>3. poll'.pc = "asleep" <=> poll'.batch = {}
    <3>1. CASE outcome \in {"posted", "forbidden"}
      <4>1. poll' = [poll EXCEPT !.pc = "ack"]
        BY <2>1, <3>1 DEF AfterSend
      <4> QED
        BY <2>2, <4>1 DEF OutboundTypes
    <3>2. CASE outcome = "failed"
      BY <2>1, <3>2, NextOfHolds DEF AfterSend
    <3>3. CASE outcome \notin {"posted", "forbidden", "failed"}
      <4>1. poll' = Asleep
        BY <2>1, <3>3 DEF AfterSend
      <4> QED
        BY <4>1 DEF Asleep
    <3> QED
      BY <3>1, <3>2, <3>3
  <2>4. ledger \cup refused' \subseteq ToSet(written)
    BY <2>1, <2>2 DEF Posting
  <2> QED
    BY <2>2, <2>3, <2>4 DEF Posting, Tickets
<1>3. ASSUME NEW n \in Notes, Ack(n) PROVE Posting'
  <2>1. /\ UNCHANGED <<agenda, written, ledger, refused, session>>
        /\ n \in poll.batch /\ n \in ToSet(written)
    BY <1>3 DEF Ack, inboundVars, IsNext, OutboundTypes
  <2>2. CASE poll' = Asleep /\ UNCHANGED acking
    BY <2>1, <2>2, PostingStays DEF Asleep
  <2>3. CASE /\ poll' = [poll EXCEPT !.pc = "acking"]
             /\ acking' = [acking EXCEPT ![n] = IF @ = "none" THEN "arrived" ELSE @]
    <3>1. poll'.pc = "acking" /\ poll'.batch = poll.batch /\ poll.batch # {}
      BY <2>1, <2>3 DEF OutboundTypes
    <3>2. \A k \in Notes : acking'[k] # "none" => k \in ToSet(written)
      BY <2>1, <2>3 DEF Posting, OutboundTypes
    <3>3. poll'.pc = "asleep" <=> poll'.batch = {}
      BY <3>1
    <3> QED
      BY <2>1, <3>2, <3>3 DEF Posting, Tickets
  <2> QED
    BY <1>3, <2>2, <2>3 DEF Ack
<1>4. ASSUME NEW n \in Notes, AckAnswered(n) PROVE Posting'
  <2>1. /\ UNCHANGED <<agenda, written, ledger, refused, acking, session>>
        /\ poll' = NextOf(poll.batch \ {n}) \/ poll' = Asleep
    BY <1>4 DEF AckAnswered, inboundVars
  <2>2. poll'.pc = "asleep" <=> poll'.batch = {}
    <3>1. CASE poll' = Asleep
      BY <3>1 DEF Asleep
    <3>2. CASE poll' = NextOf(poll.batch \ {n})
      BY <3>2, NextOfHolds
    <3> QED
      BY <2>1, <3>1, <3>2
  <2> QED
    BY <2>1, <2>2, PostingStays
<1> QED
  BY <1>1, <1>2, <1>3, <1>4 DEF PollStep

LEMMA PostingStep == OutboundTypes /\ Posting /\ [Next]_vars => Posting'
<1> SUFFICES ASSUME OutboundTypes, Posting, [Next]_vars PROVE Posting'
  OBVIOUS
<1>1. CASE \/ \E h \in Handlers : SendTransaction(h) \/ Handle(h) \/ HandlerFault(h)
           \/ ServerTimeout \/ UNCHANGED vars
  <2>1. UNCHANGED <<agenda, session, outboundVars>>
    BY <1>1 DEF Handle, SendTransaction, Answer, TakeEvent, Join, TakeRecent, HandOff, Reply,
                HandlerFault, ServerTimeout, vars, inboundVars
  <2> QED
    BY <2>1 DEF outboundVars, Posting, Tickets
<1>2. CASE \E turn \in turns : EndTurn(turn)
  <2>1. UNCHANGED <<agenda, outboundVars>> /\ session' \in Tickets \cup {session}
    BY <1>2 DEF EndTurn
  <2> QED
    BY <2>1 DEF outboundVars, Posting, Tickets
<1>3. CASE Crash
  <2>1. /\ UNCHANGED <<agenda, written, ledger, refused, acking, session>> /\ poll' = Asleep
    BY <1>3 DEF Crash
  <2> QED
    BY <2>1, PostingStays DEF Asleep
<1>4. ASSUME NEW n \in Notes, WriteNote(n) PROVE Posting'
  <2>1. /\ UNCHANGED <<agenda, session, ledger, poll, acking, refused>>
        /\ n \in agenda.notes /\ ToSet(written)' = ToSet(written) \cup {n}
    BY <1>4, AppendAdds DEF WriteNote, inboundVars, OutboundTypes
  <2> QED
    BY <2>1 DEF Posting, Tickets
<1>5. ASSUME NEW n \in Notes, DashboardAck(n) \/ RefuseAck(n) PROVE Posting'
  <2>1. /\ UNCHANGED <<agenda, written, poll, refused>> /\ acking[n] # "none"
        /\ \A k \in Notes : acking'[k] # "none" => acking[k] # "none"
        /\ ledger' \subseteq ledger \cup {n} /\ session' \in {session, NoteTicket[n]}
    BY <1>5 DEF DashboardAck, RecordAck, MoveSession, RefuseAck, inboundVars, OutboundTypes
  <2>2. n \in ToSet(written) /\ NoteTicket[n] \in Tickets
    BY <2>1 DEF Posting, Tickets
  <2> QED
    BY <2>1, <2>2 DEF Posting, Tickets
<1> QED
  BY <1>1, <1>2, <1>3, <1>4, <1>5, PollKeepsPosting DEF Next

LEMMA PostingInit == Init => Posting
<1> SUFFICES ASSUME Init PROVE Posting
  OBVIOUS
<1>1. ToSet(written) = {} /\ ledger = {} /\ refused = {} /\ poll = Asleep
      /\ session \in Tickets \cup {NoTicket} /\ acking = [n \in Notes |-> "none"]
  BY DEF Init, ToSet
<1> QED
  BY <1>1 DEF Posting, Asleep

\* PROCESSED is bounded but for what came from the history, which nothing bounds.
Memory ==
  /\ processed \subseteq Events /\ IsFiniteSet(processed) /\ IsFiniteSet(recalled)
  /\ Cardinality(processed \ recalled) <= ClearAt

LEMMA MemoryShrinks ==
  ASSUME Memory, processed' \subseteq processed, recalled \subseteq recalled', IsFiniteSet(recalled')
  PROVE  Memory'
<1>1. processed' \ recalled' \subseteq processed \ recalled /\ IsFiniteSet(processed \ recalled)
  BY FS_Subset DEF Memory
<1>2. Cardinality(processed' \ recalled') <= Cardinality(processed \ recalled) /\ IsFiniteSet(processed')
  BY <1>1, FS_Subset DEF Memory
<1>3. /\ Cardinality(processed' \ recalled') \in Nat /\ Cardinality(processed \ recalled) \in Nat
      /\ ClearAt \in Nat
  BY <1>1, FS_Subset, FS_CardinalityType, BridgeAssumption
<1>4. Cardinality(processed' \ recalled') <= ClearAt
  BY <1>2, <1>3 DEF Memory
<1> QED
  BY <1>2, <1>4 DEF Memory

LEMMA TakeRemembers ==
  ASSUME RoomInv, Memory, NEW h \in Handlers, TakeEvent(h)
  PROVE  Memory'
<1>1. handler[h].pc = "event" /\ ~EventsDone(h) /\ recalled' = recalled
  BY DEF TakeEvent
<1>2. Event(h) \in Events
  BY <1>1, HandlerFacts
<1>3. CASE Event(h) \in processed
  <2>1. processed' = processed
    BY <1>3 DEF TakeEvent
  <2> QED
    BY <1>1, <2>1, MemoryShrinks DEF Memory
<1>4. CASE Event(h) \notin processed /\ Overflows(processed, Event(h))
  <2>1. processed' = {}
    BY <1>4 DEF TakeEvent, Remembered
  <2> QED
    BY <1>1, <2>1, MemoryShrinks DEF Memory
<1>5. CASE Event(h) \notin processed /\ ~Overflows(processed, Event(h))
  <2>1. processed' = processed \cup {Event(h)} /\ ~(Cardinality(processed \cup {Event(h)}) > ClearAt)
    BY <1>5 DEF TakeEvent, Remembered, Overflows
  <2>2. IsFiniteSet(processed')
    BY <2>1, FS_AddElement DEF Memory
  <2>3. /\ Cardinality(processed' \ recalled') <= Cardinality(processed')
        /\ Cardinality(processed' \ recalled') \in Nat /\ Cardinality(processed') \in Nat
    BY <2>2, FS_Subset, FS_CardinalityType
  <2>4. ClearAt \in Nat
    BY BridgeAssumption
  <2>5. Cardinality(processed' \ recalled') <= ClearAt
    BY <2>1, <2>3, <2>4
  <2> QED
    BY <1>1, <1>2, <2>1, <2>2, <2>5 DEF Memory
<1> QED
  BY <1>3, <1>4, <1>5

LEMMA RecallRemembers ==
  ASSUME Memory, NEW h \in Handlers, NEW m \in Messages, Recall(h, m)
  PROVE  Memory'
<1>1. /\ processed' = processed \cup {m}
      /\ recalled' = IF m \in processed THEN recalled ELSE recalled \cup {m}
  BY DEF Recall
<1>2. processed' \subseteq Events /\ processed' \ recalled' \subseteq processed \ recalled
      /\ recalled' \in {recalled, recalled \cup {m}}
  BY <1>1 DEF Memory, Messages
<1>3. IsFiniteSet(recalled') /\ IsFiniteSet(processed')
  BY <1>1, <1>2, FS_AddElement DEF Memory
<1>4. IsFiniteSet(processed \ recalled)
  BY FS_Subset DEF Memory
<1>5. Cardinality(processed' \ recalled') <= Cardinality(processed \ recalled)
  BY <1>2, <1>4, FS_Subset
<1>6. /\ Cardinality(processed' \ recalled') \in Nat /\ Cardinality(processed \ recalled) \in Nat
      /\ ClearAt \in Nat
  BY <1>2, <1>4, FS_Subset, FS_CardinalityType, BridgeAssumption
<1>7. Cardinality(processed' \ recalled') <= ClearAt
  BY <1>5, <1>6 DEF Memory
<1> QED
  BY <1>2, <1>3, <1>7 DEF Memory

LEMMA MemoryStep == RoomInv /\ Memory /\ [Next]_vars => Memory'
<1> SUFFICES ASSUME RoomInv, Memory, [Next]_vars PROVE Memory'
  OBVIOUS
<1>1. ASSUME processed' \subseteq processed, recalled' = recalled PROVE Memory'
  BY <1>1, MemoryShrinks DEF Memory
<1>2. ASSUME NEW h \in Handlers, TakeRecent(h) PROVE Memory'
  <2>1. UNCHANGED <<processed, recalled>> \/ \E m \in Messages : Recall(h, m)
    BY <1>2 DEF TakeRecent
  <2> QED
    BY <1>1, <2>1, RecallRemembers
<1>3. ASSUME NEW h \in Handlers,
             SendTransaction(h) \/ Answer(h) \/ Join(h) \/ HandOff(h) \/ Reply(h) \/ HandlerFault(h)
      PROVE  Memory'
  <2>1. processed' \subseteq processed /\ recalled' = recalled
    BY <1>3 DEF SendTransaction, Answer, Join, HandOff, Reply, HandlerFault, Fails, Forgotten
  <2> QED
    BY <1>1, <2>1
<1>4. CASE Crash
  BY <1>1, <1>4 DEF Crash
<1>5. CASE Quiet
  BY <1>1, <1>5, QuietLeaves
<1> QED
  BY <1>2, <1>3, <1>4, <1>5, TakeRemembers DEF Next, Handle, Quiet

LEMMA MemoryInit == Init => Memory
<1> SUFFICES ASSUME Init PROVE Memory
  OBVIOUS
<1>1. processed = {} /\ recalled = {} /\ processed \ recalled = {}
  BY DEF Init
<1>2. Cardinality({}) = 0 /\ IsFiniteSet({}) /\ ClearAt \in Nat
  BY FS_EmptySet, BridgeAssumption
<1>3. 0 <= ClearAt
  BY <1>2
<1> QED
  BY <1>1, <1>2, <1>3 DEF Memory

LEMMA MemoryBound ==
  ASSUME Memory
  PROVE  Cardinality(processed) <= ClearAt + Cardinality(recalled)
<1>1. IsFiniteSet(processed \ recalled) /\ IsFiniteSet(recalled)
  BY FS_Subset DEF Memory
<1>2. IsFiniteSet((processed \ recalled) \cup recalled)
      /\ Cardinality((processed \ recalled) \cup recalled)
         = Cardinality(processed \ recalled) + Cardinality(recalled) - Cardinality((processed \ recalled) \cap recalled)
  BY <1>1, FS_Union
<1>3. (processed \ recalled) \cap recalled = {} /\ Cardinality({}) = 0
  BY FS_EmptySet
<1>4. Cardinality(processed) <= Cardinality((processed \ recalled) \cup recalled)
  BY <1>2, FS_Subset
<1>5. /\ Cardinality(processed) \in Nat /\ Cardinality(processed \ recalled) \in Nat
      /\ Cardinality(recalled) \in Nat /\ Cardinality((processed \ recalled) \cup recalled) \in Nat
      /\ ClearAt \in Nat
  BY <1>1, <1>2, FS_CardinalityType, BridgeAssumption DEF Memory
<1>6. Cardinality((processed \ recalled) \cap recalled) = 0
  BY <1>3
<1>7. PICK a \in Nat, b \in Nat, c \in Nat, d \in Nat :
        /\ a = Cardinality(processed \ recalled) /\ b = Cardinality(recalled)
        /\ c = Cardinality((processed \ recalled) \cup recalled) /\ d = Cardinality(processed)
  BY <1>5
<1>8. c = a + b - 0 /\ d <= c /\ a <= ClearAt
  BY <1>2, <1>4, <1>6, <1>7 DEF Memory
<1>9. d <= ClearAt + b
  BY <1>5, <1>8
<1> QED
  BY <1>7, <1>9

LEMMA HandlerTyped ==
  ASSUME RoomInv, NEW h \in Handlers
  PROVE  /\ handler[h].pc \in HandlerPcs /\ handler[h].failed \in BOOLEAN
         /\ handler[h].message \in Events \cup {Invite} /\ handler[h].todo \subseteq Messages
         /\ handler[h].pc \in HandlerPcs \ {"idle", "event"} => ~EventsDone(h)
         /\ handler[h].post \in 0..(IF handler[h].message \in Messages THEN handed[handler[h].message] ELSE 0)
<1>1. handler[h] \in Records /\ Placed(Transactions, handler[h], recalled, handed)
      /\ handed \in [Messages -> Nat]
  BY DEF RoomInv, RoomTypes
<1>2. /\ handler[h].pc \in HandlerPcs /\ handler[h].failed \in BOOLEAN
      /\ handler[h].message \in Events \cup {Invite} /\ handler[h].todo \subseteq Messages
  BY <1>1 DEF Records
<1>3. handler[h].pc \in HandlerPcs \ {"idle", "event"} => ~EventsDone(h)
  BY HandlerFacts
<1>4. PICK k \in Nat : k = IF handler[h].message \in Messages THEN handed[handler[h].message] ELSE 0
  BY <1>1
<1>5. CASE handler[h].pc = "answer"
  <2>1. handler[h].message \in Messages /\ handler[h].post \in 1..k
    BY <1>1, <1>4, <1>5 DEF Placed
  <2>2. handler[h].post \in 0..k
    BY <2>1
  <2> QED
    BY <1>2, <1>3, <1>4, <2>2
<1>6. CASE handler[h].pc # "answer"
  <2>1. handler[h].post = 0
    BY <1>1, <1>6 DEF Placed
  <2>2. 0 \in 0..k
    OBVIOUS
  <2> QED
    BY <1>2, <1>3, <1>4, <2>1, <2>2
<1> QED
  BY <1>5, <1>6

\* Whatever fails: a handler in the middle of an event has one, what it waits for was
\* posted, the ledger holds only notes of this room, and PROCESSED grows beyond its limit
\* only by messages of the history.
THEOREM BridgeTyped == Spec => []BridgeTypeOK
<1>1. Init => RoomInv /\ OutboundTypes /\ Posting /\ Memory
  BY RoomInit, TypesInit, PostingInit, MemoryInit
<1>2. RoomInv /\ OutboundTypes /\ Posting /\ Memory /\ [Next]_vars
        => RoomInv' /\ OutboundTypes' /\ Posting' /\ Memory'
  BY RoomStep, TypesStep, PostingStep, MemoryStep
<1>3. RoomInv /\ OutboundTypes /\ Posting /\ Memory => BridgeTypeOK
  <2> SUFFICES ASSUME RoomInv, OutboundTypes, Posting, Memory PROVE BridgeTypeOK
    OBVIOUS
  <2>1. /\ agenda \in Agendas
        /\ server \in [next : 1..Len(Transactions) + 1, waiting : Handlers \cup {NoHandler}]
        /\ recalled \subseteq Messages
        /\ handed \in [Messages -> Nat] /\ turns \subseteq Messages \X Nat
    BY DEF RoomInv, RoomTypes
  <2>2. processed \subseteq Events /\ Cardinality(processed) <= ClearAt + Cardinality(recalled)
    BY MemoryBound DEF Memory
  <2>3. poll.pc \in PollPcs /\ poll.batch \subseteq ToSet(written)
        /\ acking \in [Notes -> {"none", "arrived", "recorded"}] /\ copies \in [Notes -> Nat]
    BY DEF OutboundTypes, Acks
  <2>4. /\ session \in Tickets \cup {NoTicket}
        /\ ledger \cup refused \subseteq ToSet(written) /\ ToSet(written) \subseteq agenda.notes
        /\ poll.pc = "asleep" <=> poll.batch = {}
    BY DEF Posting
  <2> QED
    BY <2>1, <2>2, <2>3, <2>4, HandlerTyped DEF BridgeTypeOK
<1> QED
  BY <1>1, <1>2, <1>3, PTL DEF Spec
=============================================================================
