------------------------ MODULE AgentSteeringProofs ------------------------
(***************************************************************************)
(* Proofs about AgentSteering, for every set of agents and notes, every    *)
(* cast and every size of the inbox: what is shown as delivered is in the  *)
(* file its agent reads, whatever calls deliver beside each other.         *)
(***************************************************************************)
EXTENDS AgentSteering, SequenceTheorems, FiniteSetTheorems, WellFoundedInduction, TLAPS

-----------------------------------------------------------------------------
(* The invariant.                                                          *)

Rows == [agent : Agents, note : Notes, status : {"pending", "delivered", "acknowledged"}]
Calls == [pc : {"new", "provision", "record", "select", "write", "mark", "row", "done"},
          todo : SUBSET Agents, dirs : SUBSET Agents, agent : SUBSET Agents,
          batch : SUBSET Nat, fresh : SUBSET Nat]

SteeringTypes ==
  /\ cast \in Casts /\ task \in [Agents -> [status : {"none", "active", "ended"}, dir : BOOLEAN]]
  /\ event \in Seq(Rows) /\ call \in [Callers -> Calls]
  /\ inbox \in [Agents -> SUBSET Nat] /\ shown \in [Agents -> SUBSET Nat]
  /\ crossed \subseteq Callers /\ stale \subseteq Agents /\ acked \subseteq Nat

At(c, a, pcs) == call[c].pc \in pcs /\ For(c, a)
Own(a) == {e \in DOMAIN event : event[e].agent = a}

\* A row is due when few enough of the rows before it have not been acknowledged: every
\* delivery reads it then, for rows only grow and acknowledgements are not taken back.
Ahead(e) == {d \in Own(event[e].agent) : d \notin acked /\ d < e}
Due(e) == Cardinality(Ahead(e)) < InboxLimit

\* Nobody has delivered to an agent whose spawn has not made its inbox.
UnspawnedIsUntouched ==
  \A a \in Agents : call[a].pc \in {"new", "provision"} =>
    /\ ~task[a].dir
    /\ \A e \in Own(a) : event[e].status # "delivered"
    /\ \A c \in Callers : a \notin call[c].dirs /\ ~At(c, a, {"select", "write", "mark"})

AcksAreKept == \A e \in DOMAIN event : event[e].status = "acknowledged" => e \in acked
ShownAreOwn == \A a \in Agents : shown[a] \subseteq Own(a)

BatchesAreDue ==
  \A c \in Callers : \A a \in Agents : At(c, a, {"write", "mark"}) =>
    /\ call[c].fresh \subseteq call[c].batch /\ call[c].batch \subseteq Own(a)
    /\ \A e \in call[c].batch : Due(e)
DeliveredAreDue == \A e \in DOMAIN event : event[e].status = "delivered" => Due(e)

\* Of two deliveries that both have read and not written, both know of the overlap.
OverlapsAreSeen ==
  \A c, d \in Callers : \A a \in Agents :
    At(c, a, {"write"}) /\ At(d, a, {"write"}) /\ c # d => c \in crossed

\* What a delivery of its own is about to write has every row that is delivered, or
\* that another one is marking delivered.
BatchesAreFull ==
  \A c \in Callers \ crossed : \A a \in Agents : At(c, a, {"write"}) =>
    /\ \A e \in Own(a) \ acked : event[e].status = "delivered" => e \in call[c].batch
    /\ \A d \in Callers : At(d, a, {"mark"}) => call[d].fresh \ acked \subseteq call[c].batch

\* What a delivery is marking it has written, and nobody has taken it out.
MarkedAreWritten ==
  \A c \in Callers : \A a \in Agents :
    At(c, a, {"mark"}) => a \in stale \/ call[c].fresh \ acked \subseteq inbox[a]

InboxInv ==
  /\ SteeringTypes /\ UnspawnedIsUntouched /\ AcksAreKept /\ ShownAreOwn /\ BatchesAreDue
  /\ DeliveredAreDue /\ OverlapsAreSeen /\ BatchesAreFull /\ MarkedAreWritten /\ DeliveredIsInInbox

-----------------------------------------------------------------------------
(* Rows.                                                                   *)

LEMMA SeqFacts ==
  ASSUME NEW s \in Seq(Rows)
  PROVE  /\ Len(s) \in Nat /\ DOMAIN s = 1..Len(s) /\ DOMAIN s \subseteq Nat
         /\ IsFiniteSet(DOMAIN s)
         /\ \A e \in DOMAIN s : s[e] \in Rows
<1>1. Len(s) \in Nat /\ DOMAIN s = 1..Len(s)
  BY LenProperties
<1>2. IsFiniteSet(1..Len(s))
  BY <1>1, FS_Interval
<1>3. \A e \in DOMAIN s : s[e] \in Rows
  BY <1>1, ElementOfSeq
<1> QED
  BY <1>1, <1>2, <1>3

LEMMA RowFacts ==
  ASSUME SteeringTypes
  PROVE  /\ Len(event) \in Nat /\ DOMAIN event = 1..Len(event) /\ DOMAIN event \subseteq Nat
         /\ IsFiniteSet(DOMAIN event)
         /\ \A e \in DOMAIN event : event[e] \in Rows
  BY SeqFacts DEF SteeringTypes

LEMMA CountAhead ==
  ASSUME SteeringTypes, NEW e
  PROVE  IsFiniteSet(Ahead(e)) /\ Cardinality(Ahead(e)) \in Nat
<1>1. Ahead(e) \in SUBSET DOMAIN event
  BY DEF Ahead, Own
<1> QED
  BY <1>1, RowFacts, FS_Subset, FS_CardinalityType

LEMMA LeastNumber ==
  ASSUME NEW S \in SUBSET Nat, S # {}
  PROVE  \E m \in S : \A k \in S : ~(k < m)
<1>1. PICK m \in S : \A k \in S : <<k, m>> \notin OpToRel(<, Nat)
  BY NatLessThanWellFounded, WFMin
<1>2. ASSUME NEW k \in S, k < m PROVE FALSE
  <2>1. <<k, m>> \in OpToRel(<, Nat)
    BY <1>2 DEF OpToRel
  <2> QED
    BY <2>1, <1>1
<1> QED
  BY <1>1, <1>2

\* A delivery that reads no row acknowledged before reads every row that is due.
LEMMA DueIsRead ==
  ASSUME SteeringTypes, AcksAreKept, NEW a \in Agents,
         NEW e \in Own(a), e \notin acked, Due(e),
         Oldest(RowsOf(a, Open)) \cap acked = {}
  PROVE  e \in Oldest(RowsOf(a, Open))
<1> DEFINE rows == RowsOf(a, Open)
           Before(d) == {f \in rows : f < d}
<1>1. rows \in SUBSET DOMAIN event /\ rows \subseteq Nat /\ rows \subseteq Own(a)
  BY RowFacts DEF RowsOf, Own
<1>2. \A d \in Own(a) : d \notin acked => d \in rows
  <2> SUFFICES ASSUME NEW d \in Own(a), d \notin acked PROVE d \in rows
    OBVIOUS
  <2>1. d \in DOMAIN event /\ event[d].agent = a /\ event[d] \in Rows
    BY RowFacts DEF Own
  <2>2. event[d].status # "acknowledged"
    BY <2>1 DEF AcksAreKept
  <2> QED
    BY <2>1, <2>2 DEF RowsOf, Open, Rows
<1>3. Ahead(e) = {d \in Own(a) : d \notin acked /\ d < e}
  BY DEF Ahead, Own
<1>4. ASSUME NEW d \in rows, Before(d) \subseteq Ahead(e) PROVE d \in Oldest(rows)
  <2>1. IsFiniteSet(Ahead(e)) /\ Cardinality(Ahead(e)) \in Nat
    BY CountAhead
  <2>2. IsFiniteSet(Before(d)) /\ Cardinality(Before(d)) <= Cardinality(Ahead(e))
    BY <2>1, <1>4, FS_Subset
  <2>3. Cardinality(Before(d)) \in Nat
    BY <2>2, FS_CardinalityType
  <2>4. Cardinality(Before(d)) < InboxLimit
    BY <2>1, <2>2, <2>3, SteeringAssumption DEF Due
  <2> QED
    BY <2>4 DEF Oldest
<1> DEFINE early == Before(e) \cap acked
<1>5. CASE early = {}
  <2>1. Before(e) \subseteq Ahead(e)
    BY <1>1, <1>3, <1>5
  <2> QED
    BY <1>2, <1>4, <2>1
<1>6. CASE early # {}
  <2>1. early \in SUBSET Nat
    BY <1>1
  <2>2. PICK m \in early : \A k \in early : ~(k < m)
    BY <2>1, <1>6, LeastNumber
  <2>3. m \in rows /\ m \in acked /\ m < e /\ m \in Nat /\ e \in Nat
    BY <2>2, <1>1, <1>2
  <2>4. Before(m) \subseteq Ahead(e)
    <3> SUFFICES ASSUME NEW d \in rows, d < m PROVE d \in Ahead(e)
      OBVIOUS
    <3>1. d \in Nat /\ d < e
      BY <1>1, <2>3
    <3>2. d \notin acked
      BY <2>2, <3>1
    <3> QED
      BY <1>1, <1>3, <3>1, <3>2
  <2>5. m \in Oldest(rows)
    BY <1>4, <2>3, <2>4
  <2> QED
    BY <2>3, <2>5
<1> QED
  BY <1>5, <1>6

\* What a delivery reads is due.
LEMMA ReadIsDue ==
  ASSUME SteeringTypes, AcksAreKept, NEW a \in Agents, NEW e \in Oldest(RowsOf(a, Open))
  PROVE  e \in Own(a) /\ Due(e)
<1> DEFINE rows == RowsOf(a, Open)
           before == {d \in rows : d < e}
<1>1. e \in Own(a) /\ event[e].agent = a /\ Cardinality(before) < InboxLimit
  BY DEF Oldest, RowsOf, Own
<1>2. Ahead(e) \subseteq before
  <2> SUFFICES ASSUME NEW d \in Ahead(e) PROVE d \in before
    OBVIOUS
  <2>1. d \in DOMAIN event /\ event[d].agent = a /\ event[d] \in Rows /\ d \notin acked /\ d < e
    BY <1>1, RowFacts DEF Ahead, Own
  <2> QED
    BY <2>1 DEF AcksAreKept, RowsOf, Open, Rows
<1>3. IsFiniteSet(before)
  <2>1. before \in SUBSET DOMAIN event
    BY DEF RowsOf
  <2> QED
    BY <2>1, RowFacts, FS_Subset
<1>4. /\ Cardinality(before) \in Nat /\ Cardinality(Ahead(e)) \in Nat
      /\ Cardinality(Ahead(e)) <= Cardinality(before)
  BY <1>2, <1>3, CountAhead, FS_Subset, FS_CardinalityType
<1> QED
  BY <1>1, <1>4, SteeringAssumption DEF Due

-----------------------------------------------------------------------------
(* What a step may do to the rows: add some behind the others, and         *)
(* acknowledge.  What is due stays due.                                    *)

RowsGrow ==
  /\ DOMAIN event \subseteq DOMAIN event' /\ acked \subseteq acked'
  /\ \A e \in DOMAIN event : event'[e].agent = event[e].agent
  /\ \A e \in DOMAIN event' \ DOMAIN event : \A d \in DOMAIN event : d < e

LEMMA DueStays ==
  ASSUME SteeringTypes, SteeringTypes', RowsGrow, NEW e \in DOMAIN event
  PROVE  Due(e) => Due(e)'
<1>1. Ahead(e)' \subseteq Ahead(e)
  <2> SUFFICES ASSUME NEW d \in Ahead(e)' PROVE d \in Ahead(e)
    OBVIOUS
  <2>1. /\ d \in DOMAIN event' /\ event'[d].agent = event'[e].agent
        /\ d \notin acked' /\ d < e
    BY DEF Ahead, Own
  <2>2. d \in Nat /\ e \in Nat
    <3>1. event' \in Seq(Rows)
      BY DEF SteeringTypes
    <3> QED
      BY <2>1, <3>1, SeqFacts, RowFacts
  <2>3. d \in DOMAIN event
    BY <2>1, <2>2 DEF RowsGrow
  <2> QED
    BY <2>1, <2>3 DEF RowsGrow, Ahead, Own
<1>2. /\ Cardinality(Ahead(e)) \in Nat /\ Cardinality(Ahead(e)') \in Nat
      /\ Cardinality(Ahead(e)') <= Cardinality(Ahead(e))
  BY <1>1, CountAhead, FS_Subset, FS_CardinalityType
<1>3. Cardinality(Ahead(e)') = Cardinality(Ahead(e))'
  OBVIOUS
<1> QED
  BY <1>2, SteeringAssumption DEF Due

-----------------------------------------------------------------------------
(* Types.                                                                  *)

LEMMA ThenIsCall ==
  ASSUME SteeringTypes, NEW c \in Callers, NEW rest \in SUBSET Agents
  PROVE  /\ Then(c, rest) \in Calls /\ Then(c, rest).pc \in {"row", "done", "record"}
         /\ Then(c, rest).dirs = call[c].dirs
  BY DEF Then, NoCall, SteeringTypes, Calls

LEMMA InitialTypes ==
  ASSUME Init
  PROVE  SteeringTypes
<1>1. event \in Seq(Rows)
  BY EmptySeq DEF Init
<1>2. call \in [Callers -> Calls]
  BY DEF Init, NoCall, Calls
<1> QED
  BY <1>1, <1>2 DEF Init, SteeringTypes, NoTask

LEMMA DeliveryTypes ==
  ASSUME SteeringTypes, NEW c \in Callers, NEW a \in Agents, Deliver(c, a)
  PROVE  SteeringTypes'
<1>1. CASE Select(c, a)
  <2> DEFINE batch == Oldest(RowsOf(a, Open))
             others == {d \in Callers \ {c} : call[d].pc = "write" /\ For(d, a)}
  <2>1. batch \in SUBSET Nat
    BY RowFacts DEF Oldest, RowsOf
  <2>2. /\ call' = [call EXCEPT ![c] = IF batch = {} THEN Then(c, @.todo \ {a})
                                      ELSE [@ EXCEPT !.pc = "write", !.batch = batch,
                                                     !.fresh = batch \cap Pending(a)]]
        /\ crossed' = IF others = {} /\ batch \cap acked = {} THEN crossed \ {c}
                      ELSE crossed \cup others \cup {c}
    BY <1>1 DEF Select
  <2>3. call[c] \in Calls /\ Then(c, call[c].todo \ {a}) \in Calls
    <3>1. call[c] \in Calls
      BY DEF SteeringTypes
    <3>2. call[c].todo \ {a} \in SUBSET Agents
      BY <3>1 DEF Calls
    <3> QED
      BY <3>1, <3>2, ThenIsCall
  <2> HIDE DEF batch, others
  <2>4. [call[c] EXCEPT !.pc = "write", !.batch = batch, !.fresh = batch \cap Pending(a)] \in Calls
    BY <2>1, <2>3 DEF Calls
  <2>5. call' \in [Callers -> Calls]
    BY <2>2, <2>3, <2>4 DEF SteeringTypes
  <2>6. crossed' \subseteq Callers
    BY <2>2 DEF SteeringTypes, others
  <2> QED
    BY <1>1, <2>5, <2>6 DEF Select, SteeringTypes
<1>2. CASE WriteInbox(c, a)
  <2>1. call[c] \in Calls /\ call[c].todo \ {a} \in SUBSET Agents
    BY DEF SteeringTypes, Calls
  <2>2. call' \in [Callers -> Calls]
    BY <1>2, <2>1, ThenIsCall DEF WriteInbox, SteeringTypes, Calls
  <2>3. inbox' \in [Agents -> SUBSET Nat] /\ shown' \in [Agents -> SUBSET Nat]
    BY <1>2, <2>1 DEF WriteInbox, SteeringTypes, Calls
  <2> QED
    BY <1>2, <2>2, <2>3 DEF WriteInbox, SteeringTypes
<1>3. CASE MarkDelivered(c, a)
  <2>1. call[c] \in Calls /\ call[c].todo \ {a} \in SUBSET Agents
    BY DEF SteeringTypes, Calls
  <2>2. call' \in [Callers -> Calls]
    BY <1>3, <2>1, ThenIsCall DEF MarkDelivered, SteeringTypes
  <2>3. event' \in Seq(Rows)
    <3>1. \A e \in DOMAIN event : event[e] \in Rows
      BY RowFacts
    <3>2. event' \in [1..Len(event) -> Rows] /\ Len(event) \in Nat
      BY <1>3, <3>1, RowFacts DEF MarkDelivered, Rows
    <3> QED
      BY <3>2, SeqDef
  <2> QED
    BY <1>3, <2>2, <2>3 DEF MarkDelivered, SteeringTypes, history
<1> QED
  BY <1>1, <1>2, <1>3 DEF Deliver

LEMMA OtherTypes ==
  ASSUME SteeringTypes, [Next]_vars, \A c \in Callers : \A a \in Agents : ~Deliver(c, a)
  PROVE  SteeringTypes'
<1> USE DEF SteeringTypes
<1>0. /\ \A c \in Callers : call[c] \in Calls
      /\ Agents \subseteq Callers /\ Notes \subseteq Callers
  BY DEF Callers
<1>1. CASE \E a \in Agents : SpawnAgent(a) \/ AgentEnds(a) \/ InitializeInbox(a) \/ SaveWorkDir(a)
  <2>1. PICK a \in Agents : SpawnAgent(a) \/ AgentEnds(a) \/ InitializeInbox(a) \/ SaveWorkDir(a)
    BY <1>1
  <2>2. a \in Callers /\ call[a] \in Calls
    BY <1>0
  <2>a. \A pc \in {"provision", "row", "done"} : [call[a] EXCEPT !.pc = pc] \in Calls
    BY <2>2 DEF Calls
  <2>b. [call[a] EXCEPT !.pc = "select", !.agent = {a}] \in Calls
    BY <2>2 DEF Calls
  <2>c. task[a] \in [status : {"none", "active", "ended"}, dir : BOOLEAN]
    OBVIOUS
  <2>3. CASE SpawnAgent(a)
    <3>1. call' \in [Callers -> Calls]
      BY <2>2, <2>a, <2>3 DEF SpawnAgent
    <3>2. task' \in [Agents -> [status : {"none", "active", "ended"}, dir : BOOLEAN]]
      BY <2>c, <2>3 DEF SpawnAgent
    <3> QED
      BY <2>3, <3>1, <3>2 DEF SpawnAgent, history
  <2>4. CASE AgentEnds(a)
    <3>1. task' \in [Agents -> [status : {"none", "active", "ended"}, dir : BOOLEAN]]
      BY <2>c, <2>4 DEF AgentEnds
    <3> QED
      BY <2>4, <3>1 DEF AgentEnds, history
  <2>5. CASE InitializeInbox(a)
    <3>1. call' \in [Callers -> Calls]
      BY <2>2, <2>b, <2>5 DEF InitializeInbox
    <3> QED
      BY <2>5, <3>1 DEF InitializeInbox, history
  <2>6. CASE SaveWorkDir(a)
    <3>1. call' \in [Callers -> Calls]
      BY <2>2, <2>a, <2>6 DEF SaveWorkDir
    <3>2. task' \in [Agents -> [status : {"none", "active", "ended"}, dir : BOOLEAN]]
      BY <2>c, <2>6 DEF SaveWorkDir
    <3> QED
      BY <2>6, <3>1, <3>2 DEF SaveWorkDir, history
  <2> QED
    BY <2>1, <2>3, <2>4, <2>5, <2>6
<1>2. CASE \E a \in Agents : \E e \in shown[a] : Acknowledge(a, e)
  <2>0. PICK a \in Agents : \E e \in shown[a] : Acknowledge(a, e)
    BY <1>2
  <2>1. PICK e \in shown[a] : Acknowledge(a, e)
    BY <2>0
  <2>2. event' \in Seq(Rows)
    <3>1. \A d \in DOMAIN event : event[d] \in Rows
      BY RowFacts
    <3>2. event' \in [1..Len(event) -> Rows] /\ Len(event) \in Nat
      BY <2>1, <3>1, RowFacts DEF Acknowledge, Rows
    <3> QED
      BY <3>2, SeqDef
  <2>3. acked' \subseteq Nat
    BY <2>1 DEF Acknowledge
  <2> QED
    BY <2>1, <2>2, <2>3 DEF Acknowledge
<1>3. CASE \E n \in Notes : ReadActive(n)
  <2>1. PICK n \in Notes : ReadActive(n)
    BY <1>3
  <2> DEFINE active == {a \in Agents : task[a].status = "active"}
             next == [Then(n, active) EXCEPT !.dirs = {a \in active : task[a].dir}]
  <2>2. n \in Callers /\ Then(n, active) \in Calls
    BY <1>0, ThenIsCall
  <2>3. next \in Calls
    BY <2>2 DEF Calls
  <2>4. call' = [call EXCEPT ![n] = next]
    BY <2>1 DEF ReadActive
  <2> HIDE DEF next
  <2> QED
    BY <2>1, <2>2, <2>3, <2>4 DEF ReadActive, history
<1>4. CASE \E n \in Notes, a \in Agents : InsertEvent(n, a)
  <2>1. PICK n \in Notes, a \in Agents : InsertEvent(n, a)
    BY <1>4
  <2>2. n \in Callers /\ call[n] \in Calls /\ call[n].todo \ {a} \in SUBSET Agents
    BY <1>0 DEF Calls
  <2>3. Then(n, call[n].todo \ {a}) \in Calls
    BY <2>2, ThenIsCall
  <2>4. [call[n] EXCEPT !.pc = "select", !.agent = {a}] \in Calls
    BY <2>2 DEF Calls
  <2>5. call' \in [Callers -> Calls]
    BY <2>1, <2>2, <2>3, <2>4 DEF InsertEvent
  <2>6. [agent |-> a, note |-> n, status |-> "pending"] \in Rows
    BY DEF Rows
  <2>7. event' \in Seq(Rows)
    BY <2>1, <2>6, AppendProperties DEF InsertEvent
  <2> QED
    BY <2>1, <2>5, <2>7 DEF InsertEvent
<1>5. CASE \E c \in Callers : Fails(c)
  <2>1. PICK c \in Callers : Fails(c)
    BY <1>5
  <2>2. call[c] \in Calls /\ Then(c, {}) \in Calls
    BY <1>0, ThenIsCall
  <2>3. [call[c] EXCEPT !.pc = "done"] \in Calls
    BY <2>2 DEF Calls
  <2>4. call' \in [Callers -> Calls]
    BY <2>1, <2>2, <2>3 DEF Fails
  <2> QED
    BY <2>1, <2>4 DEF Fails
<1>6. CASE Crash
  <2>1. [NoCall EXCEPT !.pc = "done"] \in Calls
    BY DEF NoCall, Calls
  <2>2. call' \in [Callers -> Calls]
    BY <1>0, <1>6, <2>1 DEF Crash
  <2> QED
    BY <1>6, <2>2 DEF Crash
<1>7. CASE UNCHANGED vars
  BY <1>7 DEF vars, history
<1> QED
  BY <1>1, <1>2, <1>3, <1>4, <1>5, <1>6, <1>7 DEF Next, GoesOn, Deliver

LEMMA TypesKept == SteeringTypes /\ [Next]_vars => SteeringTypes'
  BY DeliveryTypes, OtherTypes

-----------------------------------------------------------------------------
(* The steps that deliver nothing.                                         *)

Quiet ==
  /\ RowsGrow
  /\ \A e \in DOMAIN event' :
       /\ event'[e].status = "acknowledged" => e \in acked'
       /\ event'[e].status = "delivered" => e \in DOMAIN event /\ event[e].status = "delivered"
  /\ \A c \in Callers : call'[c].pc \in {"write", "mark"} => call'[c] = call[c]
  /\ crossed' = crossed /\ stale' = stale /\ shown' = shown
  /\ \A a \in Agents : inbox'[a] = inbox[a] \/ call[a].pc = "provision"

LEMMA QuietKeeps ==
  ASSUME InboxInv, SteeringTypes', Quiet
  PROVE  /\ AcksAreKept' /\ ShownAreOwn' /\ BatchesAreDue' /\ DeliveredAreDue'
         /\ OverlapsAreSeen' /\ BatchesAreFull' /\ MarkedAreWritten' /\ DeliveredIsInInbox'
<1>1. \A a \in Agents : Own(a) \subseteq Own(a)'
  BY DEF Own, Quiet, RowsGrow
<1>2. ASSUME NEW c \in Callers, NEW a \in Agents, NEW pcs \in SUBSET {"write", "mark"}, At(c, a, pcs)'
      PROVE  At(c, a, pcs) /\ call'[c] = call[c]
  BY <1>2 DEF At, For, Quiet
<1>3. AcksAreKept'
  BY DEF AcksAreKept, Quiet
<1>4. ShownAreOwn'
  BY <1>1 DEF InboxInv, ShownAreOwn, Quiet
<1>5. BatchesAreDue'
  <2> SUFFICES ASSUME NEW c \in Callers, NEW a \in Agents, At(c, a, {"write", "mark"})'
               PROVE  /\ call'[c].fresh \subseteq call'[c].batch /\ call'[c].batch \subseteq Own(a)'
                      /\ \A e \in call'[c].batch : Due(e)'
    BY DEF BatchesAreDue
  <2>1. At(c, a, {"write", "mark"}) /\ call'[c] = call[c]
    BY <1>2
  <2>2. /\ call[c].fresh \subseteq call[c].batch /\ call[c].batch \subseteq Own(a)
        /\ \A e \in call[c].batch : Due(e)
    BY <2>1 DEF InboxInv, BatchesAreDue
  <2>3. ASSUME NEW e \in call[c].batch PROVE Due(e)'
    <3>1. e \in DOMAIN event /\ Due(e)
      BY <2>2 DEF Own
    <3> QED
      BY <3>1, DueStays DEF InboxInv, Quiet
  <2> QED
    BY <1>1, <2>1, <2>2, <2>3
<1>6. DeliveredAreDue'
  <2> SUFFICES ASSUME NEW e \in DOMAIN event', event'[e].status = "delivered" PROVE Due(e)'
    BY DEF DeliveredAreDue
  <2>1. e \in DOMAIN event /\ Due(e)
    BY DEF Quiet, InboxInv, DeliveredAreDue
  <2> QED
    BY <2>1, DueStays DEF InboxInv, Quiet
<1>7. OverlapsAreSeen'
  <2> SUFFICES ASSUME NEW c \in Callers, NEW d \in Callers, NEW a \in Agents,
                      At(c, a, {"write"})', At(d, a, {"write"})', c # d
               PROVE  c \in crossed'
    BY DEF OverlapsAreSeen
  <2>1. At(c, a, {"write"}) /\ At(d, a, {"write"})
    BY <1>2
  <2> QED
    BY <2>1 DEF InboxInv, OverlapsAreSeen, Quiet
<1>8. BatchesAreFull'
  <2> SUFFICES ASSUME NEW c \in Callers \ crossed', NEW a \in Agents, At(c, a, {"write"})'
               PROVE  /\ \A e \in Own(a)' \ acked' : event'[e].status = "delivered" => e \in call'[c].batch
                      /\ \A d \in Callers : At(d, a, {"mark"})'
                           => call'[d].fresh \ acked' \subseteq call'[c].batch
    BY DEF BatchesAreFull
  <2>1. At(c, a, {"write"}) /\ call'[c] = call[c] /\ c \in Callers \ crossed
    BY <1>2 DEF Quiet
  <2>2. /\ \A e \in Own(a) \ acked : event[e].status = "delivered" => e \in call[c].batch
        /\ \A d \in Callers : At(d, a, {"mark"}) => call[d].fresh \ acked \subseteq call[c].batch
    BY <2>1 DEF InboxInv, BatchesAreFull
  <2>3. ASSUME NEW e \in Own(a)' \ acked', event'[e].status = "delivered" PROVE e \in call[c].batch
    <3>1. e \in Own(a) \ acked /\ event[e].status = "delivered"
      BY <2>3 DEF Own, Quiet, RowsGrow
    <3> QED
      BY <3>1, <2>2
  <2>4. ASSUME NEW d \in Callers, At(d, a, {"mark"})' PROVE call'[d].fresh \ acked' \subseteq call[c].batch
    <3>1. At(d, a, {"mark"}) /\ call'[d] = call[d]
      BY <1>2, <2>4
    <3> QED
      BY <3>1, <2>2 DEF Quiet, RowsGrow
  <2> QED
    BY <2>1, <2>3, <2>4
<1>9. MarkedAreWritten'
  <2> SUFFICES ASSUME NEW c \in Callers, NEW a \in Agents, At(c, a, {"mark"})'
               PROVE  a \in stale' \/ call'[c].fresh \ acked' \subseteq inbox'[a]
    BY DEF MarkedAreWritten
  <2>1. At(c, a, {"mark"}) /\ call'[c] = call[c]
    BY <1>2
  <2>2. inbox'[a] = inbox[a]
    <3>1. ~At(c, a, {"select", "write", "mark"}) => ~At(c, a, {"mark"})
      BY DEF At
    <3> QED
      BY <2>1, <3>1 DEF Quiet, InboxInv, UnspawnedIsUntouched
  <2> QED
    BY <2>1, <2>2 DEF InboxInv, MarkedAreWritten, Quiet, RowsGrow
<1>10. DeliveredIsInInbox'
  <2> SUFFICES ASSUME NEW e \in DOMAIN event', event'[e].status = "delivered", e \notin acked'
               PROVE  e \in inbox'[event'[e].agent] \/ event'[e].agent \in stale'
    BY DEF DeliveredIsInInbox
  <2>1. /\ e \in DOMAIN event /\ event[e].status = "delivered" /\ e \notin acked
        /\ event'[e].agent = event[e].agent /\ event[e].agent \in Agents
    BY RowFacts DEF Quiet, RowsGrow, InboxInv, Rows
  <2>2. e \in inbox[event[e].agent] \/ event[e].agent \in stale
    BY <2>1 DEF InboxInv, DeliveredIsInInbox
  <2>3. inbox'[event[e].agent] = inbox[event[e].agent]
    <3>1. e \in Own(event[e].agent)
      BY <2>1 DEF Own
    <3> QED
      BY <2>1, <3>1 DEF Quiet, InboxInv, UnspawnedIsUntouched
  <2> QED
    BY <2>1, <2>2, <2>3 DEF Quiet
<1> QED
  BY <1>3, <1>4, <1>5, <1>6, <1>7, <1>8, <1>9, <1>10

LEMMA QuietSteps ==
  ASSUME InboxInv, [Next]_vars, \A c \in Callers : \A a \in Agents : ~Deliver(c, a)
  PROVE  Quiet
<1> USE DEF InboxInv, SteeringTypes
<1> DEFINE CallsQuiet == \A c \in Callers : call'[c].pc \in {"write", "mark"} => call'[c] = call[c]
<1>0. /\ \A c \in Callers : \A rest \in SUBSET Agents : Then(c, rest).pc \in {"row", "done", "record"}
      /\ Agents \subseteq Callers /\ Notes \subseteq Callers
  BY ThenIsCall DEF Callers
<1>1. ASSUME UNCHANGED <<event, shown, stale, crossed, acked>>, CallsQuiet,
             \A a \in Agents : inbox'[a] = inbox[a] \/ call[a].pc = "provision"
      PROVE  Quiet
  BY <1>1 DEF Quiet, RowsGrow, AcksAreKept
<1> HIDE DEF CallsQuiet
<1>2. CASE \E a \in Agents : SpawnAgent(a) \/ AgentEnds(a) \/ SaveWorkDir(a)
  <2>1. PICK a \in Agents : SpawnAgent(a) \/ AgentEnds(a) \/ SaveWorkDir(a)
    BY <1>2
  <2>2. UNCHANGED <<event, shown, stale, crossed, acked, inbox>>
    BY <2>1 DEF SpawnAgent, AgentEnds, SaveWorkDir, history
  <2>3. CallsQuiet
    BY <1>0, <2>1 DEF SpawnAgent, AgentEnds, SaveWorkDir, CallsQuiet, Calls
  <2> QED
    BY <1>1, <2>2, <2>3
<1>3. CASE \E a \in Agents : InitializeInbox(a)
  <2>1. PICK a \in Agents : InitializeInbox(a)
    BY <1>3
  <2>2. /\ UNCHANGED <<event, shown, stale, crossed, acked>>
        /\ \A b \in Agents : inbox'[b] = inbox[b] \/ call[b].pc = "provision"
    BY <2>1 DEF InitializeInbox, history
  <2>3. CallsQuiet
    <3> SUFFICES ASSUME NEW c \in Callers, c = a \/ call'[c] # call[c] PROVE call'[c].pc = "select"
      BY DEF CallsQuiet
    <3>1. a \in Callers /\ call[a] \in Calls
      BY <1>0
    <3> QED
      BY <2>1, <3>1 DEF InitializeInbox, Calls
  <2> QED
    BY <1>1, <2>2, <2>3
<1>4. CASE \E a \in Agents : \E e \in shown[a] : Acknowledge(a, e)
  <2>0. PICK a \in Agents : \E e \in shown[a] : Acknowledge(a, e)
    BY <1>4
  <2>1. PICK e \in shown[a] : Acknowledge(a, e)
    BY <2>0
  <2>2. /\ UNCHANGED <<shown, stale, crossed, inbox, call>> /\ acked' = acked \cup {e}
        /\ event' = [event EXCEPT ![e].status = "acknowledged"] /\ e \in DOMAIN event
    BY <2>1 DEF Acknowledge, ShownAreOwn, Own
  <2>3. \A d \in DOMAIN event : event[d] \in Rows
    BY RowFacts
  <2>4. /\ DOMAIN event' = DOMAIN event /\ event'[e].status = "acknowledged"
        /\ \A d \in DOMAIN event : event'[d].agent = event[d].agent
        /\ \A d \in DOMAIN event \ {e} : event'[d] = event[d]
    BY <2>2, <2>3 DEF Rows
  <2> QED
    BY <2>2, <2>4 DEF Quiet, RowsGrow, AcksAreKept
<1>5. CASE \E n \in Notes : ReadActive(n)
  <2>1. PICK n \in Notes : ReadActive(n)
    BY <1>5
  <2> DEFINE active == {a \in Agents : task[a].status = "active"}
  <2>2. /\ UNCHANGED <<event, shown, stale, crossed, acked, inbox>>
        /\ call' = [call EXCEPT ![n] = [Then(n, active) EXCEPT !.dirs = {a \in active : task[a].dir}]]
    BY <2>1 DEF ReadActive, history
  <2>3. n \in Callers /\ Then(n, active) \in Calls /\ Then(n, active).pc \notin {"write", "mark"}
    BY <1>0, ThenIsCall
  <2>4. [Then(n, active) EXCEPT !.dirs = {a \in active : task[a].dir}].pc \notin {"write", "mark"}
    BY <2>3 DEF Calls
  <2>5. CallsQuiet
    BY <2>2, <2>4 DEF CallsQuiet
  <2> QED
    BY <1>1, <2>2, <2>5
<1>6. CASE \E n \in Notes, a \in Agents : InsertEvent(n, a)
  <2>1. PICK n \in Notes, a \in Agents : InsertEvent(n, a)
    BY <1>6
  <2> DEFINE row == [agent |-> a, note |-> n, status |-> "pending"]
  <2>2. UNCHANGED <<shown, stale, crossed, acked, inbox>> /\ event' = Append(event, row)
    BY <2>1 DEF InsertEvent
  <2>3. CallsQuiet
    <3>1. n \in Callers /\ call[n] \in Calls /\ call[n].todo \ {a} \in SUBSET Agents
      BY <1>0 DEF Calls
    <3>2. Then(n, call[n].todo \ {a}).pc \notin {"write", "mark"}
      BY <1>0, <3>1
    <3>3. [call[n] EXCEPT !.pc = "select", !.agent = {a}].pc = "select"
      BY <3>1 DEF Calls
    <3> QED
      BY <2>1, <3>2, <3>3 DEF InsertEvent, CallsQuiet
  <2>4. row \in Rows
    BY DEF Rows
  <2>5. /\ Len(event) \in Nat /\ DOMAIN event = 1..Len(event) /\ DOMAIN event' = 1..(Len(event) + 1)
        /\ \A e \in DOMAIN event : event'[e] = event[e]
        /\ event'[Len(event) + 1] = row
    BY <2>2, <2>4, RowFacts, AppendProperties, LenProperties
  <2>6. \A e \in DOMAIN event' : e \in DOMAIN event \/ e = Len(event) + 1
    BY <2>5
  <2>7. row.status = "pending"
    OBVIOUS
  <2>8. RowsGrow
    BY <2>2, <2>5, <2>6 DEF RowsGrow
  <2>9. \A e \in DOMAIN event' :
          /\ event'[e].status = "acknowledged" => e \in acked'
          /\ event'[e].status = "delivered" => e \in DOMAIN event /\ event[e].status = "delivered"
    BY <2>2, <2>5, <2>6, <2>7 DEF AcksAreKept
  <2> QED
    BY <2>2, <2>3, <2>8, <2>9 DEF Quiet, CallsQuiet
<1>7. CASE \E c \in Callers : Fails(c)
  <2>1. PICK c \in Callers : Fails(c)
    BY <1>7
  <2>2. UNCHANGED <<event, shown, stale, crossed, acked, inbox>>
    BY <2>1 DEF Fails
  <2>3. Then(c, {}).pc \notin {"write", "mark"} /\ [call[c] EXCEPT !.pc = "done"].pc = "done"
    BY <1>0 DEF Calls
  <2>4. CallsQuiet
    BY <2>1, <2>3 DEF Fails, CallsQuiet
  <2> QED
    BY <1>1, <2>2, <2>4
<1>8. CASE Crash
  <2>1. UNCHANGED <<event, shown, stale, crossed, acked, inbox>>
    BY <1>8 DEF Crash
  <2>2. [NoCall EXCEPT !.pc = "done"].pc = "done"
    BY DEF NoCall
  <2>3. CallsQuiet
    BY <1>8, <2>2 DEF Crash, CallsQuiet
  <2> QED
    BY <1>1, <2>1, <2>3
<1>9. CASE UNCHANGED vars
  <2>1. UNCHANGED <<event, shown, stale, crossed, acked, inbox, call>>
    BY <1>9 DEF vars, history
  <2> QED
    BY <1>1, <2>1 DEF CallsQuiet
<1> QED
  BY <1>2, <1>3, <1>4, <1>5, <1>6, <1>7, <1>8, <1>9 DEF Next, GoesOn, Deliver

-----------------------------------------------------------------------------
(* How calls move, and why an agent whose spawn has not made its inbox is  *)
(* left alone.                                                             *)

CallMoves(c) ==
  \/ call'[c] = call[c]
  \/ call[c].pc = "new" /\ call'[c] = [call[c] EXCEPT !.pc = "provision"]
  \/ /\ call'[c].pc \notin {"new", "provision"}
     /\ call'[c].dirs \subseteq call[c].dirs \cup {a \in Agents : task[a].dir}
     /\ call'[c].pc \in {"select", "write", "mark"} =>
          \/ call[c].pc \in {"select", "write", "mark"} /\ call'[c].agent = call[c].agent
          \/ \E a \in call[c].dirs : call'[c].agent = {a}
          \/ c \in Agents /\ call'[c].agent = {c}

LEMMA CallsMove ==
  ASSUME SteeringTypes, [Next]_vars, NEW c \in Callers
  PROVE  CallMoves(c)
<1> USE DEF SteeringTypes
<1>0. /\ \A d \in Callers : call[d] \in Calls
      /\ \A d \in Callers : \A rest \in SUBSET Agents :
           /\ Then(d, rest) \in Calls /\ Then(d, rest).pc \in {"row", "done", "record"}
           /\ Then(d, rest).dirs = call[d].dirs
      /\ Agents \subseteq Callers /\ Notes \subseteq Callers
  BY ThenIsCall DEF Callers
<1>1. ASSUME NEW rest \in SUBSET Agents, call'[c] = Then(c, rest) PROVE CallMoves(c)
  BY <1>0, <1>1 DEF CallMoves
<1>2. ASSUME NEW a \in Agents, call'[c] = Then(c, call[c].todo \ {a}) PROVE CallMoves(c)
  <2>1. call[c].todo \ {a} \in SUBSET Agents
    BY <1>0 DEF Calls
  <2> QED
    BY <1>1, <1>2, <2>1
<1>a. ASSUME NEW pc, call'[c] = [call[c] EXCEPT !.pc = pc],
             pc \notin {"new", "provision", "select", "write", "mark"}
      PROVE  CallMoves(c)
  BY <1>0, <1>a DEF CallMoves, Calls
<1>b. ASSUME NEW a \in Agents, call'[c] = [call[c] EXCEPT !.pc = "select", !.agent = {a}],
             a \in call[c].dirs \/ c = a
      PROVE  CallMoves(c)
  BY <1>0, <1>b DEF CallMoves, Calls
<1>c. ASSUME call'[c] = call[c] PROVE CallMoves(c)
  BY <1>c DEF CallMoves
<1>3. CASE \E a \in Agents : SpawnAgent(a) \/ AgentEnds(a) \/ SaveWorkDir(a) \/ InitializeInbox(a)
  <2>1. PICK a \in Agents : SpawnAgent(a) \/ AgentEnds(a) \/ SaveWorkDir(a) \/ InitializeInbox(a)
    BY <1>3
  <2>2. CASE SpawnAgent(a)
    BY <1>0, <2>2 DEF SpawnAgent, CallMoves
  <2>3. CASE AgentEnds(a)
    BY <2>3 DEF AgentEnds, CallMoves
  <2>4. CASE SaveWorkDir(a)
    <3>1. call'[c] = call[c] \/ call'[c] = [call[c] EXCEPT !.pc = "done"]
      BY <2>4 DEF SaveWorkDir
    <3> QED
      BY <1>a, <1>c, <3>1
  <2>5. CASE InitializeInbox(a)
    <3>1. call'[c] = call[c] \/ (c = a /\ call'[c] = [call[c] EXCEPT !.pc = "select", !.agent = {a}])
      BY <1>0, <2>5 DEF InitializeInbox
    <3> QED
      BY <1>b, <1>c, <3>1
  <2> QED
    BY <2>1, <2>2, <2>3, <2>4, <2>5
<1>4. CASE \E a \in Agents : \E e \in shown[a] : Acknowledge(a, e)
  BY <1>4 DEF Acknowledge, CallMoves
<1>5. CASE \E n \in Notes : ReadActive(n)
  <2>1. PICK n \in Notes : ReadActive(n)
    BY <1>5
  <2> DEFINE active == {a \in Agents : task[a].status = "active"}
             next == [Then(n, active) EXCEPT !.dirs = {a \in active : task[a].dir}]
  <2>2. call' = [call EXCEPT ![n] = next]
    BY <2>1 DEF ReadActive
  <2>3. next.pc \in {"row", "done", "record"} /\ next.dirs \subseteq {a \in Agents : task[a].dir}
    BY <1>0 DEF Calls
  <2> HIDE DEF next
  <2> QED
    BY <1>0, <2>2, <2>3 DEF CallMoves
<1>6. CASE \E n \in Notes, a \in Agents : InsertEvent(n, a)
  <2>1. PICK n \in Notes, a \in Agents : InsertEvent(n, a)
    BY <1>6
  <2>2. \/ call'[c] = call[c]
        \/ call'[c] = Then(c, call[c].todo \ {a})
        \/ a \in call[c].dirs /\ call'[c] = [call[c] EXCEPT !.pc = "select", !.agent = {a}]
    BY <1>0, <2>1 DEF InsertEvent
  <2> QED
    BY <1>2, <1>b, <1>c, <2>2
<1>7. CASE \E d \in Callers : Fails(d)
  <2>1. PICK d \in Callers : Fails(d)
    BY <1>7
  <2>2. \/ call'[c] = call[c] \/ call'[c] = Then(c, {}) \/ call'[c] = [call[c] EXCEPT !.pc = "done"]
    BY <2>1 DEF Fails
  <2> QED
    <3>1. call'[c] = Then(c, {}) => CallMoves(c)
      BY <1>1
    <3>2. call'[c] = [call[c] EXCEPT !.pc = "done"] => CallMoves(c)
      BY <1>a
    <3> QED
      BY <1>c, <2>2, <3>1, <3>2
<1>8. CASE Crash
  <2>1. call'[c] = call[c] \/ call'[c] = [NoCall EXCEPT !.pc = "done"]
    BY <1>8 DEF Crash
  <2> QED
    BY <2>1 DEF CallMoves, NoCall
<1>9. CASE UNCHANGED vars
  BY <1>9 DEF vars, CallMoves
<1>10. CASE \E d \in Callers, a \in Agents : Deliver(d, a)
  <2>1. PICK d \in Callers, a \in Agents : Deliver(d, a)
    BY <1>10
  <2>2. CASE Select(d, a)
    <3> DEFINE batch == Oldest(RowsOf(a, Open))
               next == [call[c] EXCEPT !.pc = "write", !.batch = batch, !.fresh = batch \cap Pending(a)]
    <3>1. \/ call'[c] = call[c] \/ call'[c] = Then(c, call[c].todo \ {a})
          \/ call[c].pc = "select" /\ call'[c] = next
      BY <2>2 DEF Select
    <3>2. next.pc = "write" /\ next.dirs = call[c].dirs /\ next.agent = call[c].agent
      BY <1>0 DEF Calls
    <3> HIDE DEF next
    <3>3. CASE call[c].pc = "select" /\ call'[c] = next
      BY <3>2, <3>3 DEF CallMoves
    <3> QED
      BY <1>2, <1>c, <3>1, <3>3
  <2>3. CASE WriteInbox(d, a)
    <3>1. \/ call'[c] = call[c] \/ call'[c] = Then(c, call[c].todo \ {a})
          \/ call[c].pc = "write" /\ call'[c] = [call[c] EXCEPT !.pc = "mark"]
      BY <2>3 DEF WriteInbox
    <3>2. CASE call[c].pc = "write" /\ call'[c] = [call[c] EXCEPT !.pc = "mark"]
      BY <1>0, <3>2 DEF CallMoves, Calls
    <3> QED
      BY <1>2, <1>c, <3>1, <3>2
  <2>4. CASE MarkDelivered(d, a)
    <3>1. call'[c] = call[c] \/ call'[c] = Then(c, call[c].todo \ {a})
      BY <2>4 DEF MarkDelivered
    <3> QED
      BY <1>2, <1>c, <3>1
  <2> QED
    BY <2>1, <2>2, <2>3, <2>4 DEF Deliver
<1> QED
  BY <1>3, <1>4, <1>5, <1>6, <1>7, <1>8, <1>9, <1>10 DEF Next, GoesOn

\* The work directory is set by the last step of a spawn.
LEMMA DirsAreSaved ==
  ASSUME SteeringTypes, [Next]_vars, NEW a \in Agents, task'[a].dir
  PROVE  task[a].dir \/ call[a].pc = "row"
<1>1. task[a] \in [status : {"none", "active", "ended"}, dir : BOOLEAN]
  BY DEF SteeringTypes
<1>2. ASSUME task' # task PROVE \E b \in Agents : SpawnAgent(b) \/ AgentEnds(b) \/ SaveWorkDir(b)
  BY <1>2 DEF Next, GoesOn, Deliver, Select, WriteInbox, MarkDelivered, InitializeInbox, ReadActive,
              InsertEvent, Acknowledge, Fails, Crash, vars
<1>3. CASE task' # task
  BY <1>1, <1>2, <1>3 DEF SpawnAgent, AgentEnds, SaveWorkDir, SteeringTypes
<1> QED
  BY <1>3

LEMMA UntouchedStays ==
  ASSUME InboxInv, [Next]_vars,
         \/ Quiet
         \/ \E c \in Callers, a \in Agents : Deliver(c, a)
  PROVE  UnspawnedIsUntouched'
<1> DEFINE Early == {"new", "provision"}
           Busy == {"select", "write", "mark"}
<1>0. SteeringTypes /\ UnspawnedIsUntouched /\ Agents \subseteq Callers
  BY DEF InboxInv, Callers
<1> SUFFICES ASSUME NEW a \in Agents, call'[a].pc \in Early
             PROVE  /\ ~task'[a].dir
                    /\ \A e \in Own(a)' : event'[e].status # "delivered"
                    /\ \A c \in Callers : a \notin call'[c].dirs /\ ~At(c, a, Busy)'
  BY DEF UnspawnedIsUntouched
<1>1. CallMoves(a)
  BY <1>0, CallsMove
<1>2. call[a].pc \in Early
  BY <1>1 DEF CallMoves
<1>3. /\ ~task[a].dir
      /\ \A e \in Own(a) : event[e].status # "delivered"
      /\ \A c \in Callers : a \notin call[c].dirs /\ ~At(c, a, Busy)
  BY <1>0, <1>2 DEF UnspawnedIsUntouched
<1>4. ~task'[a].dir
  BY <1>0, <1>2, <1>3, DirsAreSaved
<1>5. ASSUME NEW c \in Callers PROVE a \notin call'[c].dirs /\ ~At(c, a, Busy)'
  <2>1. CallMoves(c) /\ call[c] \in Calls
    BY <1>0, CallsMove DEF SteeringTypes
  <2>2. a \notin call[c].dirs /\ ~(call[c].pc \in Busy /\ call[c].agent = {a})
    BY <1>3 DEF At, For
  <2>3. a \notin call'[c].dirs
    BY <1>3, <2>1, <2>2 DEF CallMoves, Calls
  <2>4. ~(call'[c].pc \in Busy /\ call'[c].agent = {a})
    <3> SUFFICES ASSUME call'[c].pc \in Busy, call'[c].agent = {a} PROVE FALSE
      OBVIOUS
    <3>1. call'[c] # call[c] /\ ~(call[c].pc = "new" /\ call'[c] = [call[c] EXCEPT !.pc = "provision"])
      BY <2>1, <2>2 DEF Calls
    <3>2. c # a
      OBVIOUS
    <3> QED
      BY <2>1, <2>2, <3>1, <3>2 DEF CallMoves
  <2> QED
    BY <2>3, <2>4 DEF At, For
<1>6. ASSUME NEW e \in Own(a)' PROVE event'[e].status # "delivered"
  <2>1. CASE Quiet
    BY <1>3, <2>1 DEF Quiet, RowsGrow, Own
  <2>2. CASE \E c \in Callers, b \in Agents : Deliver(c, b)
    <3>1. PICK c \in Callers, b \in Agents : Deliver(c, b)
      BY <2>2
    <3>2. CASE event' = event
      BY <1>3, <3>2 DEF Own
    <3>3. CASE MarkDelivered(c, b)
      <4>1. At(c, b, {"write", "mark"}) /\ At(c, b, Busy)
        BY <3>3 DEF MarkDelivered, At
      <4>2. b # a /\ call[c].fresh \subseteq Own(b)
        BY <1>3, <4>1 DEF InboxInv, BatchesAreDue
      <4>3. DOMAIN event' = DOMAIN event /\ \A d \in DOMAIN event \ call[c].fresh : event'[d] = event[d]
        BY <3>3 DEF MarkDelivered, Marked
      <4>4. ASSUME e \in call[c].fresh PROVE FALSE
        <5>1. e \in DOMAIN event /\ event[e] \in Rows /\ event[e].agent = b
          BY <1>0, <4>2, <4>4, RowFacts DEF Own
        <5>2. event'[e].agent = b
          BY <3>3, <5>1 DEF MarkDelivered, Rows
        <5> QED
          BY <4>2, <5>2 DEF Own
      <4> QED
        BY <1>3, <4>3, <4>4 DEF Own
    <3> QED
      BY <3>1, <3>2, <3>3 DEF Deliver, Select, WriteInbox
  <2> QED
    BY <2>1, <2>2
<1> QED
  BY <1>4, <1>5, <1>6

-----------------------------------------------------------------------------
(* Reading the open rows.                                                  *)

LEMMA SelectKeeps ==
  ASSUME InboxInv, SteeringTypes', NEW c \in Callers, NEW a \in Agents, Select(c, a)
  PROVE  /\ AcksAreKept' /\ ShownAreOwn' /\ BatchesAreDue' /\ DeliveredAreDue'
         /\ OverlapsAreSeen' /\ BatchesAreFull' /\ MarkedAreWritten' /\ DeliveredIsInInbox'
<1> DEFINE batch == Oldest(RowsOf(a, Open))
           others == {d \in Callers \ {c} : call[d].pc = "write" /\ For(d, a)}
           next == [call[c] EXCEPT !.pc = "write", !.batch = batch, !.fresh = batch \cap Pending(a)]
<1>0. SteeringTypes /\ AcksAreKept /\ call[c] \in Calls /\ c \in Callers
  BY DEF InboxInv, SteeringTypes
<1>1. /\ UNCHANGED <<event, inbox, shown, stale, acked>>
      /\ call[c].pc = "select" /\ call[c].agent = {a}
      /\ call' = [call EXCEPT ![c] = IF batch = {} THEN Then(c, @.todo \ {a}) ELSE next]
      /\ crossed' = IF others = {} /\ batch \cap acked = {} THEN crossed \ {c}
                    ELSE crossed \cup others \cup {c}
  BY DEF Select, For
<1>2. next.pc = "write" /\ next.batch = batch /\ next.fresh = batch \cap Pending(a) /\ next.agent = {a}
  BY <1>0, <1>1 DEF Calls
<1>3. ASSUME batch = {} PROVE Then(c, call[c].todo \ {a}).pc \notin {"write", "mark"}
  <2>1. call[c].todo \ {a} \in SUBSET Agents
    BY <1>0 DEF Calls
  <2> QED
    BY <1>0, <2>1, ThenIsCall
<1>4. \A e \in batch : e \in Own(a) /\ Due(e)
  BY <1>0, ReadIsDue
<1> HIDE DEF batch, next
<1>5. /\ call'[c].pc \in {"write", "mark"} =>
           call'[c].pc = "write" /\ call'[c].batch = batch /\ call'[c].fresh \subseteq batch /\ call'[c].agent = {a}
      /\ \A d \in Callers \ {c} : call'[d] = call[d]
  BY <1>0, <1>1, <1>2, <1>3 DEF SteeringTypes
<1>6. /\ \A e : Due(e)' <=> Due(e)
      /\ \A b : Own(b)' = Own(b)
  BY <1>1 DEF Due, Ahead, Own
<1>7. AcksAreKept' /\ ShownAreOwn' /\ DeliveredAreDue' /\ DeliveredIsInInbox'
  BY <1>1, <1>6 DEF InboxInv, AcksAreKept, ShownAreOwn, DeliveredAreDue, DeliveredIsInInbox
<1>8. BatchesAreDue'
  <2> SUFFICES ASSUME NEW d \in Callers, NEW b \in Agents, At(d, b, {"write", "mark"})'
               PROVE  /\ call'[d].fresh \subseteq call'[d].batch /\ call'[d].batch \subseteq Own(b)'
                      /\ \A e \in call'[d].batch : Due(e)'
    BY DEF BatchesAreDue
  <2>1. CASE d = c
    BY <1>4, <1>5, <1>6, <2>1 DEF At, For
  <2>2. CASE d # c
    BY <1>5, <1>6, <2>2 DEF At, For, InboxInv, BatchesAreDue
  <2> QED
    BY <2>1, <2>2
<1>9. OverlapsAreSeen'
  <2> SUFFICES ASSUME NEW d \in Callers, NEW f \in Callers, NEW b \in Agents,
                      At(d, b, {"write"})', At(f, b, {"write"})', d # f
               PROVE  d \in crossed'
    BY DEF OverlapsAreSeen
  <2>1. CASE d = c
    <3>1. f \in others
      BY <1>5, <2>1 DEF At, For
    <3> QED
      BY <1>1, <2>1, <3>1
  <2>2. CASE f = c
    <3>1. d \in others
      BY <1>5, <2>2 DEF At, For
    <3> QED
      BY <1>1, <3>1
  <2>3. CASE d # c /\ f # c
    <3>1. At(d, b, {"write"}) /\ At(f, b, {"write"})
      BY <1>5, <2>3 DEF At, For
    <3>2. d \in crossed
      BY <3>1 DEF InboxInv, OverlapsAreSeen
    <3> QED
      BY <1>1, <2>3, <3>2
  <2> QED
    BY <2>1, <2>2, <2>3
<1>10. BatchesAreFull'
  <2> SUFFICES ASSUME NEW d \in Callers \ crossed', NEW b \in Agents, At(d, b, {"write"})'
               PROVE  /\ \A e \in Own(b)' \ acked' : event'[e].status = "delivered" => e \in call'[d].batch
                      /\ \A f \in Callers : At(f, b, {"mark"})'
                           => call'[f].fresh \ acked' \subseteq call'[d].batch
    BY DEF BatchesAreFull
  <2>1. CASE d = c
    <3>0. batch \cap acked = {}
      <4> HIDE DEF others
      <4> QED
        BY <1>1, <2>1
    <3>1. b = a /\ batch \cap acked = {} /\ call'[d].batch = batch
      BY <1>5, <2>1, <3>0 DEF At, For
    <3>2. ASSUME NEW e \in Own(a), e \notin acked, Due(e) PROVE e \in batch
      BY <1>0, <3>1, <3>2, DueIsRead DEF batch
    <3>3. ASSUME NEW e \in Own(a) \ acked, event[e].status = "delivered" PROVE e \in batch
      BY <3>2, <3>3 DEF InboxInv, DeliveredAreDue, Own
    <3>4. ASSUME NEW f \in Callers, At(f, a, {"mark"})', NEW e \in call'[f].fresh \ acked PROVE e \in batch
      <4>1. f # c /\ call'[f] = call[f] /\ At(f, a, {"write", "mark"})
        BY <1>5, <3>4 DEF At, For
      <4>2. e \in Own(a) /\ Due(e)
        BY <3>4, <4>1 DEF InboxInv, BatchesAreDue
      <4> QED
        BY <3>2, <3>4, <4>2
    <3> QED
      BY <1>1, <1>6, <3>1, <3>3, <3>4
  <2>2. CASE d # c
    <3>1. call'[d] = call[d] /\ At(d, b, {"write"}) /\ d \in Callers \ crossed
      BY <1>1, <1>5, <2>2 DEF At, For
    <3>2. ASSUME NEW f \in Callers, At(f, b, {"mark"})' PROVE f # c /\ call'[f] = call[f] /\ At(f, b, {"mark"})
      BY <1>5, <3>2 DEF At, For
    <3> QED
      BY <1>1, <1>6, <3>1, <3>2 DEF InboxInv, BatchesAreFull
  <2> QED
    BY <2>1, <2>2
<1>11. MarkedAreWritten'
  <2> SUFFICES ASSUME NEW d \in Callers, NEW b \in Agents, At(d, b, {"mark"})'
               PROVE  b \in stale' \/ call'[d].fresh \ acked' \subseteq inbox'[b]
    BY DEF MarkedAreWritten
  <2>1. d # c /\ call'[d] = call[d] /\ At(d, b, {"mark"})
    BY <1>5 DEF At, For
  <2> QED
    BY <1>1, <2>1 DEF InboxInv, MarkedAreWritten
<1> QED
  BY <1>7, <1>8, <1>9, <1>10, <1>11

-----------------------------------------------------------------------------
(* Writing the file.                                                       *)

LEMMA WriteKeeps ==
  ASSUME InboxInv, SteeringTypes', NEW c \in Callers, NEW a \in Agents, WriteInbox(c, a)
  PROVE  /\ AcksAreKept' /\ ShownAreOwn' /\ BatchesAreDue' /\ DeliveredAreDue'
         /\ OverlapsAreSeen' /\ BatchesAreFull' /\ MarkedAreWritten' /\ DeliveredIsInInbox'
<1> DEFINE batch == call[c].batch
           fresh == call[c].fresh
<1>0. SteeringTypes /\ call[c] \in Calls /\ At(c, a, {"write"}) /\ At(c, a, {"write", "mark"})
  BY DEF InboxInv, SteeringTypes, WriteInbox, At
<1>1. /\ UNCHANGED <<event, crossed, acked>>
      /\ inbox' = [inbox EXCEPT ![a] = batch] /\ shown' = [shown EXCEPT ![a] = @ \cup batch]
      /\ stale' = IF c \in crossed THEN stale \cup {a} ELSE stale \ {a}
      /\ call' = [call EXCEPT ![c] = IF @.fresh = {} THEN Then(c, @.todo \ {a}) ELSE [@ EXCEPT !.pc = "mark"]]
  BY DEF WriteInbox
<1>2. /\ inbox'[a] = batch /\ shown'[a] = shown[a] \cup batch
      /\ \A b \in Agents \ {a} : inbox'[b] = inbox[b] /\ shown'[b] = shown[b]
      /\ \A b \in Agents \ {a} : b \in stale' <=> b \in stale
      /\ a \in stale' <=> c \in crossed
  BY <1>0, <1>1 DEF SteeringTypes
<1>3. /\ call'[c].pc \in {"write", "mark"} =>
           call'[c].pc = "mark" /\ call'[c].batch = batch /\ call'[c].fresh = fresh /\ call'[c].agent = {a}
      /\ \A d \in Callers \ {c} : call'[d] = call[d]
  <2>1. call[c].todo \ {a} \in SUBSET Agents
    BY <1>0 DEF Calls
  <2>2. Then(c, call[c].todo \ {a}).pc \notin {"write", "mark"}
    BY <1>0, <2>1, ThenIsCall
  <2> QED
    BY <1>0, <1>1, <2>2 DEF SteeringTypes, Calls, At, For
<1>4. /\ \A e : Due(e)' <=> Due(e)
      /\ \A b : Own(b)' = Own(b)
  BY <1>1 DEF Due, Ahead, Own
<1>5. fresh \subseteq batch /\ batch \subseteq Own(a) /\ \A e \in batch : Due(e)
  BY <1>0 DEF InboxInv, BatchesAreDue
<1>6. c \notin crossed =>
        /\ \A e \in Own(a) \ acked : event[e].status = "delivered" => e \in batch
        /\ \A d \in Callers : At(d, a, {"mark"}) => call[d].fresh \ acked \subseteq batch
  BY <1>0 DEF InboxInv, BatchesAreFull
<1> HIDE DEF batch, fresh
<1>7. AcksAreKept' /\ ShownAreOwn' /\ DeliveredAreDue'
  BY <1>1, <1>2, <1>4, <1>5 DEF InboxInv, AcksAreKept, ShownAreOwn, DeliveredAreDue
<1>8. BatchesAreDue'
  <2> SUFFICES ASSUME NEW d \in Callers, NEW b \in Agents, At(d, b, {"write", "mark"})'
               PROVE  /\ call'[d].fresh \subseteq call'[d].batch /\ call'[d].batch \subseteq Own(b)'
                      /\ \A e \in call'[d].batch : Due(e)'
    BY DEF BatchesAreDue
  <2>1. CASE d = c
    BY <1>3, <1>4, <1>5, <2>1 DEF At, For
  <2>2. CASE d # c
    BY <1>3, <1>4, <2>2 DEF At, For, InboxInv, BatchesAreDue
  <2> QED
    BY <2>1, <2>2
<1>9. ASSUME NEW d \in Callers, NEW b \in Agents, At(d, b, {"write"})'
      PROVE  d # c /\ call'[d] = call[d] /\ At(d, b, {"write"})
  BY <1>3, <1>9 DEF At, For
<1>10. OverlapsAreSeen'
  <2> SUFFICES ASSUME NEW d \in Callers, NEW f \in Callers, NEW b \in Agents,
                      At(d, b, {"write"})', At(f, b, {"write"})', d # f
               PROVE  d \in crossed'
    BY DEF OverlapsAreSeen
  <2>1. At(d, b, {"write"}) /\ At(f, b, {"write"})
    BY <1>9
  <2> QED
    BY <1>1, <2>1 DEF InboxInv, OverlapsAreSeen
<1>11. BatchesAreFull'
  <2> SUFFICES ASSUME NEW d \in Callers \ crossed', NEW b \in Agents, At(d, b, {"write"})'
               PROVE  /\ \A e \in Own(b)' \ acked' : event'[e].status = "delivered" => e \in call'[d].batch
                      /\ \A f \in Callers : At(f, b, {"mark"})'
                           => call'[f].fresh \ acked' \subseteq call'[d].batch
    BY DEF BatchesAreFull
  <2>1. call'[d] = call[d] /\ d # c /\ At(d, b, {"write"}) /\ d \in Callers \ crossed
    BY <1>1, <1>9
  <2>2. ASSUME NEW f \in Callers, At(f, b, {"mark"})' PROVE f # c
    <3> SUFFICES ASSUME f = c PROVE FALSE
      OBVIOUS
    <3>1. b = a
      BY <1>3, <2>2 DEF At, For
    <3> QED
      BY <1>0, <2>1, <3>1 DEF InboxInv, OverlapsAreSeen
  <2>3. ASSUME NEW f \in Callers, At(f, b, {"mark"})' PROVE call'[f] = call[f] /\ At(f, b, {"mark"})
    BY <1>3, <2>2, <2>3 DEF At, For
  <2> QED
    BY <1>1, <1>4, <2>1, <2>3 DEF InboxInv, BatchesAreFull
<1>12. MarkedAreWritten'
  <2> SUFFICES ASSUME NEW d \in Callers, NEW b \in Agents, At(d, b, {"mark"})'
               PROVE  b \in stale' \/ call'[d].fresh \ acked' \subseteq inbox'[b]
    BY DEF MarkedAreWritten
  <2>1. CASE d = c
    BY <1>2, <1>3, <1>5, <2>1 DEF At, For
  <2>2. CASE d # c
    <3>1. call'[d] = call[d] /\ At(d, b, {"mark"})
      BY <1>3, <2>2 DEF At, For
    <3>2. CASE b = a
      BY <1>1, <1>2, <1>6, <3>1, <3>2
    <3>3. CASE b # a
      BY <1>1, <1>2, <3>1, <3>3 DEF InboxInv, MarkedAreWritten
    <3> QED
      BY <3>2, <3>3
  <2> QED
    BY <2>1, <2>2
<1>13. DeliveredIsInInbox'
  <2> SUFFICES ASSUME NEW e \in DOMAIN event, event[e].status = "delivered", e \notin acked
               PROVE  e \in inbox'[event[e].agent] \/ event[e].agent \in stale'
    BY <1>1 DEF DeliveredIsInInbox
  <2>1. event[e].agent \in Agents
    BY <1>0, RowFacts DEF Rows
  <2>2. CASE event[e].agent = a
    BY <1>2, <1>6, <2>2 DEF Own
  <2>3. CASE event[e].agent # a
    BY <1>2, <2>1, <2>3 DEF InboxInv, DeliveredIsInInbox
  <2> QED
    BY <2>2, <2>3
<1> QED
  BY <1>7, <1>8, <1>10, <1>11, <1>12, <1>13

-----------------------------------------------------------------------------
(* Marking the rows.                                                       *)

LEMMA MarkKeeps ==
  ASSUME InboxInv, SteeringTypes', NEW c \in Callers, NEW a \in Agents, MarkDelivered(c, a)
  PROVE  /\ AcksAreKept' /\ ShownAreOwn' /\ BatchesAreDue' /\ DeliveredAreDue'
         /\ OverlapsAreSeen' /\ BatchesAreFull' /\ MarkedAreWritten' /\ DeliveredIsInInbox'
<1> DEFINE fresh == call[c].fresh
<1>0. SteeringTypes /\ call[c] \in Calls /\ At(c, a, {"mark"}) /\ At(c, a, {"write", "mark"})
  BY DEF InboxInv, SteeringTypes, MarkDelivered, At
<1>1. /\ UNCHANGED <<inbox, shown, crossed, stale, acked>>
      /\ event' = [e \in DOMAIN event |->
                     IF e \in fresh THEN [event[e] EXCEPT !.status = "delivered"] ELSE event[e]]
      /\ call' = [call EXCEPT ![c] = Then(c, @.todo \ {a})]
  BY DEF MarkDelivered, Marked, history
<1>2. /\ DOMAIN event' = DOMAIN event
      /\ \A e \in DOMAIN event :
           /\ event'[e].agent = event[e].agent
           /\ event'[e].status = IF e \in fresh THEN "delivered" ELSE event[e].status
  <2>1. \A e \in DOMAIN event : event[e] \in Rows
    BY <1>0, RowFacts
  <2> QED
    BY <1>1, <2>1 DEF Rows
<1>3. /\ call'[c].pc \notin {"write", "mark"}
      /\ \A d \in Callers \ {c} : call'[d] = call[d]
  <2>1. call[c].todo \ {a} \in SUBSET Agents
    BY <1>0 DEF Calls
  <2>2. Then(c, call[c].todo \ {a}).pc \notin {"write", "mark"}
    BY <1>0, <2>1, ThenIsCall
  <2> QED
    BY <1>0, <1>1, <2>2 DEF SteeringTypes
<1>4. /\ \A b : Own(b)' = Own(b)
      /\ \A e \in DOMAIN event : Due(e)' <=> Due(e)
  <2>1. \A b : Own(b)' = Own(b)
    BY <1>2 DEF Own
  <2>2. \A e \in DOMAIN event : Ahead(e)' = Ahead(e)
    BY <1>1, <1>2, <2>1 DEF Ahead
  <2> QED
    BY <2>1, <2>2 DEF Due
<1>5. fresh \subseteq Own(a) /\ \A e \in fresh : Due(e)
  BY <1>0 DEF InboxInv, BatchesAreDue
<1>6. a \in stale \/ fresh \ acked \subseteq inbox[a]
  BY <1>0 DEF InboxInv, MarkedAreWritten
<1>7. ASSUME NEW d \in Callers, NEW b \in Agents, NEW pcs \in SUBSET {"write", "mark"}, At(d, b, pcs)'
      PROVE  d # c /\ call'[d] = call[d] /\ At(d, b, pcs)
  BY <1>3, <1>7 DEF At, For
<1> HIDE DEF fresh
<1>8. AcksAreKept' /\ ShownAreOwn'
  BY <1>1, <1>2, <1>4 DEF InboxInv, AcksAreKept, ShownAreOwn
<1>9. DeliveredAreDue'
  BY <1>2, <1>4, <1>5 DEF InboxInv, DeliveredAreDue
<1>10. BatchesAreDue'
  <2> SUFFICES ASSUME NEW d \in Callers, NEW b \in Agents, At(d, b, {"write", "mark"})'
               PROVE  /\ call'[d].fresh \subseteq call'[d].batch /\ call'[d].batch \subseteq Own(b)'
                      /\ \A e \in call'[d].batch : Due(e)'
    BY DEF BatchesAreDue
  <2>1. call'[d] = call[d] /\ At(d, b, {"write", "mark"})
    BY <1>7
  <2>2. /\ call[d].fresh \subseteq call[d].batch /\ call[d].batch \subseteq Own(b)
        /\ \A e \in call[d].batch : Due(e)
    BY <2>1 DEF InboxInv, BatchesAreDue
  <2>3. Own(b) \subseteq DOMAIN event
    BY DEF Own
  <2> QED
    BY <1>4, <2>1, <2>2, <2>3
<1>11. OverlapsAreSeen'
  <2> SUFFICES ASSUME NEW d \in Callers, NEW f \in Callers, NEW b \in Agents,
                      At(d, b, {"write"})', At(f, b, {"write"})', d # f
               PROVE  d \in crossed'
    BY DEF OverlapsAreSeen
  <2>1. At(d, b, {"write"}) /\ At(f, b, {"write"})
    BY <1>7
  <2> QED
    BY <1>1, <2>1 DEF InboxInv, OverlapsAreSeen
<1>12. BatchesAreFull'
  <2> SUFFICES ASSUME NEW d \in Callers \ crossed', NEW b \in Agents, At(d, b, {"write"})'
               PROVE  /\ \A e \in Own(b)' \ acked' : event'[e].status = "delivered" => e \in call'[d].batch
                      /\ \A f \in Callers : At(f, b, {"mark"})'
                           => call'[f].fresh \ acked' \subseteq call'[d].batch
    BY DEF BatchesAreFull
  <2>1. call'[d] = call[d] /\ At(d, b, {"write"}) /\ d \in Callers \ crossed
    BY <1>1, <1>7
  <2>2. /\ \A e \in Own(b) \ acked : event[e].status = "delivered" => e \in call[d].batch
        /\ \A f \in Callers : At(f, b, {"mark"}) => call[f].fresh \ acked \subseteq call[d].batch
    BY <2>1 DEF InboxInv, BatchesAreFull
  <2>3. ASSUME NEW f \in Callers, At(f, b, {"mark"})' PROVE call'[f] = call[f] /\ At(f, b, {"mark"})
    BY <1>7, <2>3
  <2>4. ASSUME NEW e \in Own(b) \ acked, event'[e].status = "delivered" PROVE e \in call[d].batch
    <3>1. CASE e \in fresh
      <4>1. b = a
        BY <1>5, <3>1, <2>4 DEF Own
      <4> QED
        BY <1>0, <2>2, <2>4, <3>1, <4>1 DEF fresh
    <3>2. CASE e \notin fresh
      BY <1>2, <2>2, <2>4, <3>2 DEF Own
    <3> QED
      BY <3>1, <3>2
  <2> QED
    BY <1>1, <1>4, <2>1, <2>2, <2>3, <2>4
<1>13. MarkedAreWritten'
  <2> SUFFICES ASSUME NEW d \in Callers, NEW b \in Agents, At(d, b, {"mark"})'
               PROVE  b \in stale' \/ call'[d].fresh \ acked' \subseteq inbox'[b]
    BY DEF MarkedAreWritten
  <2>1. call'[d] = call[d] /\ At(d, b, {"mark"})
    BY <1>7
  <2> QED
    BY <1>1, <2>1 DEF InboxInv, MarkedAreWritten
<1>14. DeliveredIsInInbox'
  <2> SUFFICES ASSUME NEW e \in DOMAIN event, event'[e].status = "delivered", e \notin acked
               PROVE  e \in inbox[event[e].agent] \/ event[e].agent \in stale
    BY <1>1, <1>2 DEF DeliveredIsInInbox
  <2>1. CASE e \in fresh
    BY <1>5, <1>6, <2>1 DEF Own
  <2>2. CASE e \notin fresh
    BY <1>2, <2>2 DEF InboxInv, DeliveredIsInInbox
  <2> QED
    BY <2>1, <2>2
<1> QED
  BY <1>8, <1>9, <1>10, <1>11, <1>12, <1>13, <1>14

-----------------------------------------------------------------------------
LEMMA InboxInit == Init => InboxInv
<1> SUFFICES ASSUME Init PROVE InboxInv
  OBVIOUS
<1>1. SteeringTypes
  BY InitialTypes
<1>2. /\ DOMAIN event = {} /\ \A a \in Agents : shown[a] = {}
      /\ \A c \in Callers : call[c].pc \in {"new", "done"} /\ call[c].dirs = {}
  BY EmptySeq DEF Init, NoCall
<1>3. \A a \in Agents : call[a].pc = "new" => ~task[a].dir
  <2>1. Agents \subseteq Callers
    BY DEF Callers
  <2> QED
    BY <2>1 DEF Init, NoCall, NoTask
<1>4. UnspawnedIsUntouched
  BY <1>2, <1>3 DEF UnspawnedIsUntouched, Own, At, Callers
<1>5. BatchesAreDue /\ OverlapsAreSeen /\ BatchesAreFull /\ MarkedAreWritten
  BY <1>2 DEF BatchesAreDue, OverlapsAreSeen, BatchesAreFull, MarkedAreWritten, At
<1>6. AcksAreKept /\ ShownAreOwn /\ DeliveredAreDue /\ DeliveredIsInInbox
  BY <1>2 DEF AcksAreKept, ShownAreOwn, DeliveredAreDue, DeliveredIsInInbox
<1> QED
  BY <1>1, <1>4, <1>5, <1>6 DEF InboxInv

LEMMA InboxStep == InboxInv /\ [Next]_vars => InboxInv'
<1> SUFFICES ASSUME InboxInv, [Next]_vars PROVE InboxInv'
  OBVIOUS
<1>1. SteeringTypes'
  BY TypesKept DEF InboxInv
<1>2. CASE \A c \in Callers : \A a \in Agents : ~Deliver(c, a)
  <2>1. Quiet
    BY <1>2, QuietSteps
  <2>2. UnspawnedIsUntouched'
    BY <2>1, UntouchedStays
  <2> QED
    BY <1>1, <2>1, <2>2, QuietKeeps DEF InboxInv
<1>3. CASE \E c \in Callers, a \in Agents : Deliver(c, a)
  <2>1. PICK c \in Callers, a \in Agents : Deliver(c, a)
    BY <1>3
  <2>2. UnspawnedIsUntouched'
    BY <2>1, UntouchedStays
  <2>3. CASE Select(c, a)
    BY <1>1, <2>2, <2>3, SelectKeeps DEF InboxInv
  <2>4. CASE WriteInbox(c, a)
    BY <1>1, <2>2, <2>4, WriteKeeps DEF InboxInv
  <2>5. CASE MarkDelivered(c, a)
    BY <1>1, <2>2, <2>5, MarkKeeps DEF InboxInv
  <2> QED
    BY <2>1, <2>3, <2>4, <2>5 DEF Deliver
<1> QED
  BY <1>2, <1>3

\* What is shown as delivered and has not been acknowledged is in the file the agent
\* reads (write_inbox_files, agent_steering.py), unless the last delivery overlapped
\* with another one or read a row whose acknowledgement was undone.
THEOREM DeliveredReachesInbox == Spec => []DeliveredIsInInbox
<1>1. InboxInv => DeliveredIsInInbox
  BY DEF InboxInv
<1> QED
  BY InboxInit, InboxStep, <1>1, PTL DEF Spec
=============================================================================
