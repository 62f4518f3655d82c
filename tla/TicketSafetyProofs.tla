------------------------- MODULE TicketSafetyProofs -------------------------
(***************************************************************************)
(* What TicketSync promises, for every set of coroutines, every scene and  *)
(* every bound: a ticket that was ended stays ended, an object has one row, *)
(* a ticket one agent at work, a rule no more agents than its capacity,     *)
(* and a wait remembers the work before it, each up to the overlaps its     *)
(* property names.  All rest on the types of TicketSyncProofs.              *)
(***************************************************************************)
EXTENDS TicketSyncProofs

-----------------------------------------------------------------------------
\* What the runner and the tracker write of agent a and its task, beside any coroutine.
AgentRow(a) == TaskEnds(a) \/ AgentEnds(a) \/ TaskRead(a) \/ WrittenBack(a)

LEMMA AgentRowWrites ==
  ASSUME NEW a, AgentRow(a)
  PROVE  AgentChanges(a) /\ UNCHANGED <<scene, ticket, form, job, raced, closed>>
  BY DEF AgentRow, TaskEnds, AgentEnds, TaskRead, WrittenBack, AgentChanges

-----------------------------------------------------------------------------
(* Closed tickets.  A sync that has read the row before it was closed would *)
(* write its old status: none is at work on the row's object when a ticket  *)
(* counts as closed, and one that comes later reads the closed row.         *)

Ended == \A k \in closed : ticket[k].status \in Terminal
Aware == \A s \in Jobs, k \in closed :
           job[s].pc = "update" /\ ticket[k].ref = sync[s].key => job[s].status \in Terminal
ClosedInv == Ended /\ Aware

\* Coroutine c alone moves, and not to a write of the sync.
Elsewhere(c) ==
  /\ \A d \in Jobs \ {c} : job'[d] = job[d] /\ sync'[d].key = sync[d].key
  /\ job'[c].pc # "update"
\* No closed row gets another status or key.
ClosedRows ==
  /\ closed' \subseteq closed
  /\ \A k \in closed' : ticket'[k].status = ticket[k].status /\ ticket'[k].ref = ticket[k].ref

LEMMA Untouched ==
  ASSUME ClosedInv, NEW c, Elsewhere(c), ClosedRows
  PROVE  ClosedInv'
<1>1. Ended'
  BY DEF ClosedInv, Ended, ClosedRows
<1>2. Aware'
  <2> SUFFICES ASSUME NEW s \in Jobs, NEW k \in closed', job'[s].pc = "update", ticket'[k].ref = sync'[s].key
               PROVE  job'[s].status \in Terminal
    BY DEF Aware
  <2>1. job'[s] = job[s] /\ sync'[s].key = sync[s].key
    BY DEF Elsewhere
  <2> QED
    BY <2>1 DEF ClosedInv, Aware, ClosedRows
<1> QED
  BY <1>1, <1>2 DEF ClosedInv

LEMMA ReturnElsewhere ==
  ASSUME TypeInv, NEW c \in Jobs, Return(c), \A d \in Jobs \ {c} : sync'[d].key = sync[d].key
  PROVE  Elsewhere(c)
  BY Returning DEF Elsewhere, TypeInv, Shapes

LEMMA GotoElsewhere ==
  ASSUME TypeInv, NEW c \in Jobs, NEW pc \in Pcs \ {"update"}, Goto(c, pc),
         \A d \in Jobs \ {c} : sync'[d].key = sync[d].key
  PROVE  Elsewhere(c)
  BY Going DEF Elsewhere, TypeInv, Shapes

LEMMA SawElsewhere ==
  ASSUME TypeInv, NEW c \in Jobs, NEW pc \in Pcs \ {"update"}, NEW k \in DOMAIN ticket, job' = Saw(c, k, pc),
         \A d \in Jobs \ {c} : sync'[d].key = sync[d].key
  PROVE  Elsewhere(c)
  BY Seeing DEF Elsewhere, TypeInv, Shapes

LEMMA ValueElsewhere ==
  ASSUME TypeInv, NEW c \in Jobs, NEW v, v.pc # "update", job' = [job EXCEPT ![c] = v],
         \A d \in Jobs \ {c} : sync'[d].key = sync[d].key
  PROVE  Elsewhere(c)
  BY DEF Elsewhere, TypeInv, Shapes

\* The status is written: who writes it decides whether the ticket is closed.
LEMMA WriteKeepsClosed ==
  ASSUME TypeInv, ClosedInv, NEW c \in Jobs, job[c].pc \in AtTicket,
         NEW status \in Status, NEW asked \in Status \cup {None}, Write(c, status, asked), Elsewhere(c)
  PROVE  ClosedInv'
<1> DEFINE k == job[c].ticket
<1>1. \A j \in DOMAIN ticket :
        /\ ticket'[j].ref = ticket[j].ref
        /\ ticket'[j].status = IF j = k THEN status ELSE ticket[j].status
  BY WritesTicket
<1>2. closed' = IF status \in Terminal /\ ~Busy(c, k) THEN closed \cup {k} ELSE closed \ {k}
  BY DEF Write
<1>3. k \in DOMAIN ticket /\ closed \subseteq DOMAIN ticket
  BY OnTicket DEF TypeInv, Links
<1>4. Ended'
  <2> SUFFICES ASSUME NEW j \in closed' PROVE ticket'[j].status \in Terminal
    BY DEF Ended
  <2>1. CASE j = k
    BY <1>1, <1>2, <1>3, <2>1
  <2>2. CASE j # k
    BY <1>1, <1>2, <1>3, <2>2 DEF ClosedInv, Ended
  <2> QED
    BY <2>1, <2>2
<1>5. Aware'
  <2> SUFFICES ASSUME NEW s \in Jobs, NEW j \in closed', job'[s].pc = "update", ticket'[j].ref = sync'[s].key
               PROVE  job'[s].status \in Terminal
    BY DEF Aware
  <2>1. s # c /\ job'[s] = job[s] /\ ticket[j].ref = sync[s].key
    BY <1>1, <1>2, <1>3 DEF Elsewhere
  <2>2. CASE j \in closed
    BY <2>1, <2>2 DEF ClosedInv, Aware
  <2>3. CASE j \notin closed
    <3>1. j = k /\ ~Busy(c, k)
      BY <1>2, <2>3
    <3>2. job[s].key = sync[s].key /\ sync[s].key # 0
      BY <2>1 DEF TypeInv, Synced, AtObject
    <3> QED
      BY <2>1, <3>1, <3>2 DEF Busy
  <2> QED
    BY <2>2, <2>3
<1> QED
  BY <1>4, <1>5 DEF ClosedInv

\* The sync reads the row: if it is closed, its status is.
LEMMA SelectRowKeepsClosed ==
  ASSUME TypeInv, ClosedInv, NEW s \in Jobs, SelectRow(s)
  PROVE  ClosedInv'
<1>1. ClosedRows
  BY DEF SelectRow, ClosedRows, rows
<1>2. CASE Goto(s, "insert") /\ UNCHANGED sync
  BY <1>1, <1>2, GotoElsewhere, Untouched DEF Pcs
<1>3. CASE \E k \in RowOf(sync[s].key) : /\ job' = Saw(s, k, "update")
                                         /\ sync' = [sync EXCEPT ![s].active = Active(k) # {}]
  <2>1. PICK k \in RowOf(sync[s].key) : /\ job' = Saw(s, k, "update")
                                        /\ sync' = [sync EXCEPT ![s].active = Active(k) # {}]
    BY <1>3
  <2>2. k \in DOMAIN ticket /\ ticket[k].ref = sync[s].key
    BY <2>1 DEF RowOf
  <2>3. (\A d \in Jobs \ {s} : job'[d] = job[d]) /\ job'[s].status = ticket[k].status
    BY <2>1, <2>2, Seeing DEF Pcs, TypeInv, Shapes
  <2>4. \A d \in Jobs : sync'[d].key = sync[d].key
    <3>1. sync[s] \in Syncing
      BY DEF TypeInv, Shapes
    <3> QED
      BY <2>1, <3>1 DEF Syncing, TypeInv, Shapes
  <2>5. sync[s].key # 0
    BY DEF SelectRow, TypeInv, Synced, AtObject
  <2>6. UNCHANGED <<ticket, closed>> /\ closed \subseteq DOMAIN ticket
    BY DEF SelectRow, rows, TypeInv, Links
  <2>7. Aware'
    <3> SUFFICES ASSUME NEW d \in Jobs, NEW j \in closed', job'[d].pc = "update", ticket'[j].ref = sync'[d].key
                 PROVE  job'[d].status \in Terminal
      BY DEF Aware
    <3>1. j \in closed /\ j \in DOMAIN ticket /\ ticket[j].ref = sync[d].key
      BY <2>4, <2>6
    <3>2. CASE d = s
      <4>1. j = k
        BY <2>2, <2>5, <3>1, <3>2 DEF TypeInv, Unique
      <4> QED
        BY <2>3, <3>1, <3>2, <4>1 DEF ClosedInv, Ended
    <3>3. CASE d # s
      BY <2>3, <3>1, <3>3 DEF ClosedInv, Aware
    <3> QED
      BY <3>2, <3>3
  <2> QED
    BY <2>6, <2>7 DEF ClosedInv, Ended
<1> QED
  BY <1>2, <1>3 DEF SelectRow

\* The sync writes the row: what it has read of a closed one is kept.
LEMMA UpdateRowKeepsClosed ==
  ASSUME TypeInv, ClosedInv, NEW s \in Jobs, UpdateRow(s)
  PROVE  ClosedInv'
<1>1. /\ job[s].pc = "update" /\ UNCHANGED <<closed, sync>> /\ closed \subseteq DOMAIN ticket
      /\ sync[s].got \in Status /\ job[s].status \in Status /\ sync[s].active \in BOOLEAN
  BY DEF UpdateRow, TypeInv, Shapes, Links, Synced, Syncing, AtObject
<1>2. Elsewhere(s)
  BY <1>1, ReturnElsewhere DEF UpdateRow
<1>3. Ended'
  <2> SUFFICES ASSUME NEW k \in closed PROVE ticket'[k].status \in Terminal
    BY <1>1 DEF Ended
  <2>1. CASE ticket[k].ref = sync[s].key
    <3>1. ticket'[k].status = EffectiveStatus(sync[s].got, job[s].status, sync[s].active)
      BY <1>1, <2>1, UpdateRowWrites
    <3>2. job[s].status \in Terminal
      BY <1>1, <2>1 DEF ClosedInv, Aware
    <3> QED
      BY <1>1, <3>1, <3>2, Effective
  <2>2. CASE ticket[k].ref # sync[s].key
    <3>1. ticket'[k].status = ticket[k].status
      BY <1>1, <2>2, UpdateRowWrites
    <3> QED
      BY <3>1 DEF ClosedInv, Ended
  <2> QED
    BY <2>1, <2>2
<1>4. Aware'
  <2> SUFFICES ASSUME NEW d \in Jobs, NEW k \in closed, job'[d].pc = "update", ticket'[k].ref = sync'[d].key
               PROVE  job'[d].status \in Terminal
    BY <1>1 DEF Aware
  <2>1. d # s /\ job'[d] = job[d] /\ ticket[k].ref = sync[d].key
    BY <1>1, <1>2, UpdateRowWrites DEF Elsewhere
  <2> QED
    BY <2>1 DEF ClosedInv, Aware
<1> QED
  BY <1>3, <1>4 DEF ClosedInv

\* The steps that write neither a status nor a key of a closed row.
LEMMA RowsStay ==
  ASSUME TypeInv, closed' = closed, \/ ticket' = ticket
                                    \/ \E row \in Rows : ticket' = Append(ticket, row)
                                    \/ /\ SameRows
                                       /\ \A k \in DOMAIN ticket : ticket'[k].status = ticket[k].status
  PROVE  ClosedRows
<1>1. closed \subseteq DOMAIN ticket /\ ticket \in Seq(Rows)
  BY DEF TypeInv, Shapes, Links
<1>2. CASE ticket' = ticket
  BY <1>2 DEF ClosedRows
<1>3. ASSUME NEW row \in Rows, ticket' = Append(ticket, row) PROVE ClosedRows
  BY <1>1, <1>3, Extended DEF ClosedRows
<1>4. CASE SameRows /\ \A k \in DOMAIN ticket : ticket'[k].status = ticket[k].status
  BY <1>1, <1>4 DEF ClosedRows, SameRows
<1> QED
  BY <1>2, <1>3, <1>4

LEMMA DeskKeepsClosed ==
  ASSUME TypeInv, ClosedInv, NEW c \in Jobs, UNCHANGED provVars, Arrives(c) \/ Proceeds(c)
  PROVE  ClosedInv'
<1>0. \A d \in Jobs \ {c} : sync'[d].key = sync[d].key
  BY DEF provVars
<1>1. CASE ReadTicket(c)
  <2>1. ClosedRows
    BY <1>1, RowsStay DEF ReadTicket, rows
  <2> QED
    BY <1>0, <1>1, <2>1, BeginsSomewhere, SawElsewhere, Untouched DEF ReadTicket, Pcs
<1>2. CASE ReadPrior(c) \/ ReadWaiting(c)
  <2>1. ClosedRows
    BY <1>2, RowsStay DEF ReadPrior, ReadWaiting, rows
  <2>2. scene.orders[c].ticket \in DOMAIN ticket \/ ~ReadPrior(c)
    BY DEF ReadPrior, TypeInv, Tied
  <2>3. form[job[c].form].ticket \in DOMAIN ticket \/ ~ReadWaiting(c)
    BY OnForm DEF ReadWaiting, AtForm
  <2>4. Elsewhere(c)
    <3>1. CASE ReadPrior(c)
      BY <1>0, <2>2, <3>1, SawElsewhere DEF ReadPrior, Pcs
    <3>2. CASE ReadWaiting(c)
      BY <1>0, <2>3, <3>2, SawElsewhere, ReturnElsewhere DEF ReadWaiting, Pcs
    <3> QED
      BY <1>2, <3>1, <3>2
  <2> QED
    BY <2>1, <2>4, Untouched
<1>3. CASE ChangeStatus(c) \/ Ask(c) \/ WaitAtGate(c) \/ Answer(c)
  <2>1. job[c].pc \in AtTicket
    BY <1>3 DEF ChangeStatus, Ask, WaitAtGate, Answer, AtTicket
  <2>2. /\ Row(c).asked \in Status \cup {None} /\ Previous(c) \in Status \cup {None} /\ Restored(c) \in Status
        /\ Awaiting \in Status /\ None \in Status \cup {None}
    BY <2>1, OnTicket DEF TypeInv, Shapes, Rows, Coroutines, Previous, Restored, Status, Awaiting
  <2>3. PICK status \in Status, asked \in Status \cup {None} : Write(c, status, asked)
    <3>1. CASE ChangeStatus(c)
      BY <2>2, <3>1, OrderTypes DEF ChangeStatus
    <3>2. CASE ~ChangeStatus(c)
      BY <1>3, <2>2, <3>2 DEF Ask, WaitAtGate, Answer
    <3> QED
      BY <3>1, <3>2
  <2>4. Elsewhere(c)
    <3>1. Return(c) \/ \E pc \in Pcs \ {"update"} : Goto(c, pc)
      BY <1>3 DEF ChangeStatus, Ask, WaitAtGate, Answer, Pcs
    <3> QED
      BY <1>0, <3>1, ReturnElsewhere, GotoElsewhere
  <2> QED
    BY <2>1, <2>3, <2>4, WriteKeepsClosed
<1>4. CASE ClearAgent(c) \/ AskNote(c) \/ RememberWait(c)
  <2>1. job[c].pc \in AtTicket /\ Previous(c) \in Status \cup {None}
    BY <1>4 DEF ClearAgent, AskNote, RememberWait, AtTicket, Previous, TypeInv, Shapes, Coroutines
  <2>2. ClosedRows
    <3>1. CASE ClearAgent(c)
      BY <2>1, <3>1, ColumnWritten, RowsStay DEF ClearAgent
    <3>2. CASE AskNote(c)
      BY <2>1, <3>2, ColumnWritten, RowsStay DEF AskNote
    <3>3. CASE RememberWait(c)
      BY <2>1, <3>3, ColumnWritten, RowsStay DEF RememberWait
    <3> QED
      BY <1>4, <3>1, <3>2, <3>3
  <2>3. Elsewhere(c)
    <3>1. Return(c) \/ \E pc \in Pcs \ {"update"} : Goto(c, pc)
      BY <1>4 DEF ClearAgent, AskNote, RememberWait, Pcs
    <3> QED
      BY <1>0, <3>1, ReturnElsewhere, GotoElsewhere
  <2> QED
    BY <2>2, <2>3, Untouched
<1>5. CASE \/ StopAgent(c) \/ Unassign(c) \/ WaitEndsAgent(c) \/ OpenForm(c) \/ ExpireForm(c)
           \/ StoreValues(c) \/ SubmitForm(c) \/ Resume(c) \/ LookForAgent(c) \/ LookForSame(c) \/ SpawnReview(c)
  <2>1. UNCHANGED <<ticket, closed>>
    BY <1>5 DEF StopAgent, Unassign, WaitEndsAgent, OpenForm, ExpireForm, StoreValues, SubmitForm, Resume,
                LookForAgent, LookForSame, SpawnReview, rows
  <2>2. Return(c) \/ \E pc \in Pcs \ {"update"} : Goto(c, pc)
    BY <1>5 DEF StopAgent, Unassign, WaitEndsAgent, OpenForm, ExpireForm, StoreValues, SubmitForm, Resume,
                LookForAgent, LookForSame, SpawnReview, Pcs
  <2> QED
    BY <1>0, <2>1, <2>2, RowsStay, ReturnElsewhere, GotoElsewhere, Untouched
<1>6. CASE ReadForm(c)
  <2>1. ClosedRows
    BY <1>6, RowsStay DEF ReadForm, rows
  <2>2. PICK f \in DOMAIN form :
          \/ Return(c)
          \/ job' = [job EXCEPT ![c].form = f, ![c].pc = IF form[f].expired THEN "expire" ELSE "store"]
    BY <1>6 DEF ReadForm
  <2>3. Elsewhere(c)
    <3> DEFINE v == [job[c] EXCEPT !.form = f, !.pc = IF form[f].expired THEN "expire" ELSE "store"]
    <3>1. job[c] \in Coroutines
      BY DEF TypeInv, Shapes
    <3>2. v.pc # "update"
      BY <3>1 DEF Coroutines
    <3>3. Return(c) \/ job' = [job EXCEPT ![c] = v]
      BY <2>2
    <3> HIDE DEF v
    <3> QED
      BY <1>0, <3>2, <3>3, ReturnElsewhere, ValueElsewhere
  <2> QED
    BY <2>1, <2>3, Untouched
<1>7. CASE Spawn(c)
  <2> DEFINE v == [job[c] EXCEPT !.pc = "link", !.agent = Len(agent')]
  <2>1. job[c] \in Coroutines
    BY DEF TypeInv, Shapes
  <2>2. v.pc # "update" /\ job' = [job EXCEPT ![c] = v]
    BY <1>7, <2>1 DEF Coroutines, Spawn
  <2> HIDE DEF v
  <2>3. UNCHANGED <<ticket, closed>>
    BY <1>7 DEF Spawn
  <2> QED
    BY <1>0, <2>2, <2>3, RowsStay, ValueElsewhere, Untouched
<1>8. CASE LinkAgent(c)
  <2> DEFINE k == job[c].ticket
             v == [ticket[k] EXCEPT !.agent = job[c].agent, !.status = "in_progress"]
  <2>1. ticket' = [ticket EXCEPT ![k] = v] /\ closed' = closed \ {k} /\ Return(c)
    BY <1>8 DEF LinkAgent
  <2> HIDE DEF v
  <2>2. ClosedRows
    BY <2>1 DEF ClosedRows, TypeInv, Links
  <2> QED
    BY <1>0, <2>1, <2>2, ReturnElsewhere, Untouched
<1> QED
  BY <1>1, <1>2, <1>3, <1>4, <1>5, <1>6, <1>7, <1>8 DEF Arrives, Proceeds

LEMMA SyncKeepsClosed ==
  ASSUME TypeInv, ClosedInv, NEW c \in Jobs,
         \/ ListKeys(c) \/ NextKey(c) \/ PassEnds(c) \/ GetObject(c) \/ InsertRefused(c) \/ LoadMax(c) \/ Refresh(c)
         \/ AutoLook(c) \/ AutoCapacity(c) \/ Resolve(c) \/ AssignFirst(c) \/ PollState(c) \/ ConfirmRow(c)
  PROVE  ClosedInv'
<1>1. \A d \in Jobs \ {c} : sync'[d].key = sync[d].key
  BY DEF ListKeys, NextKey, PassEnds, GetObject, InsertRefused, LoadMax, Refresh, AutoLook, AutoCapacity,
         Resolve, AssignFirst, PollState, ConfirmRow, provVars, TypeInv, Shapes
<1>2. Return(c) \/ \E pc \in Pcs \ {"update"} : Goto(c, pc)
  <2>1. CASE ListKeys(c) \/ NextKey(c) \/ PassEnds(c) \/ GetObject(c) \/ InsertRefused(c) \/ LoadMax(c) \/ Refresh(c)
    BY <2>1 DEF ListKeys, NextKey, PassEnds, GetObject, InsertRefused, LoadMax, Refresh, Pcs
  <2>2. CASE AutoLook(c) \/ AutoCapacity(c) \/ Resolve(c) \/ AssignFirst(c) \/ PollState(c) \/ ConfirmRow(c)
    BY <2>2 DEF AutoLook, AutoCapacity, Resolve, AssignFirst, PollState, ConfirmRow, Stimulus, Pcs
  <2> QED
    BY <2>1, <2>2
<1>3. ClosedRows
  <2>1. CASE ConfirmRow(c)
    <3>1. job[c].pc \in AtTicket
      BY <2>1 DEF ConfirmRow, AtTicket
    <3> QED
      BY <2>1, <3>1, ColumnWritten, RowsStay DEF ConfirmRow
  <2>2. CASE ~ConfirmRow(c)
    <3>1. UNCHANGED <<ticket, closed>>
      BY <2>2 DEF ListKeys, NextKey, PassEnds, GetObject, InsertRefused, LoadMax, Refresh, AutoLook,
                  AutoCapacity, Resolve, AssignFirst, PollState, rows
    <3> QED
      BY <3>1, RowsStay
  <2> QED
    BY <2>1, <2>2
<1> QED
  BY <1>1, <1>2, <1>3, ReturnElsewhere, GotoElsewhere, Untouched

LEMMA RowsAddedKeepClosed ==
  ASSUME TypeInv, ClosedInv, NEW c \in Jobs, InsertRow(c) \/ CreateTicket(c)
  PROVE  ClosedInv'
<1>1. job[c] \in Coroutines
  BY DEF TypeInv, Shapes
<1>2. CASE InsertRow(c)
  <2> DEFINE row == [ref |-> sync[c].key, status |-> sync[c].got, asked |-> None, agent |-> 0, told |-> FALSE]
             v == [job[c] EXCEPT !.pc = IF sync[c].phase = "full" THEN "next" ELSE "auto",
                                 !.ticket = IF sync[c].phase = "full" THEN 0 ELSE Len(ticket')]
  <2>1. v.pc # "update"
    BY <1>1 DEF Coroutines
  <2>2. ticket' = Append(ticket, row) /\ closed' = closed /\ job' = [job EXCEPT ![c] = v] /\ sync' = sync
    BY <1>2 DEF InsertRow
  <2> HIDE DEF v
  <2>3. row \in Rows
    <3>1. sync[c].key \in Nat /\ sync[c].got \in Status
      BY <1>2, SyncOf DEF InsertRow, TypeInv, Synced, AtObject
    <3> QED
      BY <3>1 DEF Rows
  <2> HIDE DEF row
  <2> QED
    BY <2>1, <2>2, <2>3, RowsStay, ValueElsewhere, Untouched
<1>3. CASE CreateTicket(c)
  <2> DEFINE row == [ref |-> 0, status |-> "new", asked |-> None, agent |-> 0, told |-> FALSE]
             v == [job[c] EXCEPT !.pc = "make", !.ticket = Len(ticket')]
  <2>1. v.pc # "update"
    BY <1>1 DEF Coroutines
  <2>2. ticket' = Append(ticket, row) /\ closed' = closed /\ job' = [job EXCEPT ![c] = v] /\ sync' = sync
    BY <1>3 DEF CreateTicket, provVars
  <2> HIDE DEF v
  <2>3. row \in Rows
    BY DEF Rows, Status
  <2> HIDE DEF row
  <2> QED
    BY <2>1, <2>2, <2>3, RowsStay, ValueElsewhere, Untouched
<1> QED
  BY <1>2, <1>3

LEMMA ObjectsKeepClosed ==
  ASSUME TypeInv, ClosedInv, NEW c \in Jobs, MakeObject(c) \/ BindRow(c) \/ CloseRow(c)
  PROVE  ClosedInv'
<1>1. job[c].pc \in AtTicket /\ \A d \in Jobs \ {c} : sync'[d].key = sync[d].key
  BY DEF MakeObject, BindRow, CloseRow, AtTicket, provVars
<1>2. CASE MakeObject(c)
  <2> DEFINE v == [job[c] EXCEPT !.pc = "bind", !.key = Len(object')]
  <2>1. v.pc # "update"
    <3>1. job[c] \in Coroutines
      BY DEF TypeInv, Shapes
    <3> QED
      BY <3>1 DEF Coroutines
  <2>2. job' = [job EXCEPT ![c] = v] \/ Goto(c, "failed")
    BY <1>2 DEF MakeObject, Made
  <2> HIDE DEF v
  <2>3. ClosedRows
    BY <1>2, RowsStay DEF MakeObject, rows
  <2> QED
    BY <1>1, <2>1, <2>2, <2>3, ValueElsewhere, GotoElsewhere, Untouched DEF Pcs
<1>3. CASE BindRow(c)
  <2> DEFINE k == job[c].ticket
             v == [ticket[k] EXCEPT !.ref = BoundRef(c), !.asked = None]
  <2>1. \/ UNCHANGED <<ticket, closed>> /\ Return(c)
        \/ ticket' = [ticket EXCEPT ![k] = v] /\ closed' = closed \ {k} /\ Goto(c, "confirm")
    BY <1>3 DEF BindRow
  <2> HIDE DEF v
  <2>2. ClosedRows
    BY <2>1 DEF ClosedRows, TypeInv, Links
  <2> QED
    BY <1>1, <2>1, <2>2, ReturnElsewhere, GotoElsewhere, Untouched DEF Pcs
<1>4. CASE CloseRow(c)
  <2>1. "resolved" \in Status /\ Row(c).asked \in Status \cup {None}
    BY <1>1, OnTicket DEF Rows, Status
  <2>2. Elsewhere(c)
    BY <1>1, <1>4, GotoElsewhere DEF CloseRow, Pcs
  <2> QED
    BY <1>1, <1>4, <2>1, <2>2, WriteKeepsClosed DEF CloseRow
<1> QED
  BY <1>2, <1>3, <1>4

LEMMA QuietKeepsClosed ==
  ASSUME TypeInv, ClosedInv, UNCHANGED <<ticket, closed>>,
         \A s \in Jobs : job'[s].pc = "update" => job'[s] = job[s] /\ sync'[s] = sync[s]
  PROVE  ClosedInv'
  BY DEF ClosedInv, Ended, Aware

LEMMA NextKeepsClosed == ASSUME TypeInv, ClosedInv, [Next]_vars PROVE ClosedInv'
<1>1. CASE DeskNext /\ UNCHANGED provVars
  <2>1. CASE \E c \in Jobs : Arrives(c) \/ Proceeds(c)
    BY <1>1, <2>1, DeskKeepsClosed
  <2>2. CASE (\E f \in DOMAIN form : FormExpires(f)) \/ (\E a \in DOMAIN agent : AgentRow(a))
    BY <1>1, <2>2, AgentRowWrites, QuietKeepsClosed DEF FormExpires, provVars
  <2> QED
    BY <1>1, <2>1, <2>2 DEF DeskNext, AgentRow
<1>2. CASE \E c \in Jobs : Syncs(c) \/ Provides(c) \/ LoadMax(c) \/ Refresh(c) \/ CreateTicket(c)
  BY <1>2, SelectRowKeepsClosed, UpdateRowKeepsClosed, SyncKeepsClosed, RowsAddedKeepClosed, ObjectsKeepClosed
     DEF Syncs, Provides
<1>3. CASE Boot
  <2>1. UNCHANGED <<ticket, closed, sync>> /\ (Goto(Loop, "full") \/ Goto(Loop, "gone")) /\ Loop \in Jobs
    BY <1>3, SyncAssumption DEF Boot, rows
  <2> QED
    BY <2>1, RowsStay, GotoElsewhere, Untouched DEF Pcs
<1>4. CASE PersonCreates \/ \E n \in Keys : PersonMoves(n)
  BY <1>4, QuietKeepsClosed DEF PersonCreates, PersonMoves, deskVars, rows
<1>5. CASE Crash
  <2>1. \A s \in Jobs : job'[s].pc # "update"
    <3>1. \A s \in Jobs : job'[s] \in {NoJob, [NoJob EXCEPT !.pc = "new"]} \/ (job'[s] = job[s] /\ job[s].pc = "new")
      BY <1>5 DEF Crash
    <3>2. NoJob.pc = "done" /\ [NoJob EXCEPT !.pc = "new"].pc = "new"
      BY DEF NoJob
    <3> QED
      BY <3>1, <3>2
  <2> QED
    BY <1>5, <2>1, QuietKeepsClosed DEF Crash, rows
<1>6. CASE UNCHANGED vars
  BY <1>6, QuietKeepsClosed DEF vars, deskVars, provVars, rows
<1> QED
  BY <1>1, <1>2, <1>3, <1>4, <1>5, <1>6 DEF Next

\* A ticket that was ended at the desk, with nothing else in progress on it, is never
\* reopened by the sync, however many coroutines read and write rows and objects.
THEOREM StaysClosed == Spec => []ClosedStaysClosed
<1>1. Init => ClosedInv
  BY DEF Init, DeskInit, ClosedInv, Ended, Aware
<1>2. TypeInv /\ ClosedInv /\ [Next]_vars => ClosedInv'
  BY NextKeepsClosed
<1>3. ClosedInv => ClosedStaysClosed
  BY DEF ClosedInv, Ended, ClosedStaysClosed
<1> QED
  BY <1>1, <1>2, <1>3, Typed, PTL DEF Spec

-----------------------------------------------------------------------------
(* What a step leaves alone, for the results below.  A coroutine counts as *)
(* traced from a read that may lead to a spawn or to a key of the provider *)
(* on to its last write.                                                    *)

Traced == {"answer", "look", "same", "review", "resume", "waiting", "submitted", "store", "make", "bind", "confirm", "failed",
           "auto", "capacity", "spawn", "link"}

\* Coroutine c alone moves; it is no longer traced; it goes on at pc with what it knows.
Single(c) == \A d \in Jobs \ {c} : job'[d] = job[d]
Leaves(c) == Single(c) /\ job'[c].pc \notin Traced
Passes(c, pc) ==
  Single(c) /\ job'[c].pc = pc /\ job'[c].ticket = job[c].ticket /\ job'[c].agent = job[c].agent /\ job'[c].key = job[c].key

RefsKept == DOMAIN ticket' = DOMAIN ticket /\ \A k \in DOMAIN ticket : ticket'[k].ref = ticket[k].ref
AgentOfKept == \A k \in DOMAIN ticket : ticket'[k].agent = ticket[k].agent
MakersKept ==
  /\ DOMAIN object' = DOMAIN object
  /\ \A n \in DOMAIN object : /\ object'[n].maker = object[n].maker /\ object'[n].linked = object[n].linked
                              /\ object'[n].early = object[n].early
\* Agents stay what they are, and none comes to work.
AgentsRest ==
  /\ DOMAIN agent' = DOMAIN agent
  /\ \A x \in DOMAIN agent : /\ agent'[x].ticket = agent[x].ticket /\ agent'[x].by = agent[x].by
                             /\ Works(x)' => Works(x)
Frame == scene' = scene /\ RefsKept /\ AgentOfKept /\ MakersKept /\ AgentsRest

LEMMA GoesOut ==
  ASSUME TypeInv, NEW c \in Jobs, NEW pc \in Pcs \ Traced, Goto(c, pc)
  PROVE  Leaves(c)
  BY Going DEF Leaves, Single, TypeInv, Shapes

LEMMA GoesTo ==
  ASSUME TypeInv, NEW c \in Jobs, NEW pc \in Pcs, Goto(c, pc)
  PROVE  Passes(c, pc)
  BY Going DEF Passes, Single, TypeInv, Shapes

LEMMA ReturnsOut ==
  ASSUME TypeInv, NEW c \in Jobs, Return(c)
  PROVE  Leaves(c)
  BY Returning DEF Leaves, Single, Traced, TypeInv, Shapes

LEMMA SawOut ==
  ASSUME TypeInv, NEW c \in Jobs, NEW pc \in Pcs \ Traced, NEW k \in DOMAIN ticket, job' = Saw(c, k, pc)
  PROVE  Leaves(c)
  BY Seeing DEF Leaves, Single, TypeInv, Shapes

LEMMA RowOfAgent ==
  ASSUME TypeInv, NEW a, AgentChanges(a)
  PROVE  AgentsRest
  BY AgentChanged DEF AgentsRest, TypeInv, Shapes

LEMMA AgentsStand == ASSUME agent' = agent PROVE AgentsRest
  BY DEF AgentsRest, Works

\* A column of a row is written that refers to nothing.
LEMMA ColumnFrame ==
  ASSUME TypeInv, NEW k \in DOMAIN ticket, NEW told \in BOOLEAN, NEW asked \in Status \cup {None},
         ticket' \in {ticket, [ticket EXCEPT ![k].told = told], [ticket EXCEPT ![k].asked = asked],
                      [ticket EXCEPT ![k].told = told, ![k].asked = asked]}
  PROVE  RefsKept /\ AgentOfKept
<1>1. ticket \in Seq(Rows) /\ ticket[k] \in Rows
  BY DEF TypeInv, Shapes
<1> DEFINE Good(v) == v \in Rows /\ v.ref = ticket[k].ref /\ v.agent = ticket[k].agent
<1>2. PICK v : Good(v) /\ ticket' = [ticket EXCEPT ![k] = v]
  <2>0. CASE ticket' = ticket
    <3>1. Good(ticket[k]) /\ ticket' = [ticket EXCEPT ![k] = ticket[k]]
      BY <1>1, <2>0
    <3> QED
      BY <3>1
  <2>1. CASE ticket' = [ticket EXCEPT ![k].told = told]
    <3>1. Good([ticket[k] EXCEPT !.told = told]) /\ ticket' = [ticket EXCEPT ![k] = [ticket[k] EXCEPT !.told = told]]
      BY <1>1, <2>1 DEF Rows
    <3> QED
      BY <3>1
  <2>2. CASE ticket' = [ticket EXCEPT ![k].asked = asked]
    <3>1. Good([ticket[k] EXCEPT !.asked = asked]) /\ ticket' = [ticket EXCEPT ![k] = [ticket[k] EXCEPT !.asked = asked]]
      BY <1>1, <2>2 DEF Rows
    <3> QED
      BY <3>1
  <2>3. CASE ticket' = [ticket EXCEPT ![k].told = told, ![k].asked = asked]
    <3> DEFINE w == [ticket[k] EXCEPT !.told = told, !.asked = asked]
    <3>1. Good(w) /\ ticket' = [ticket EXCEPT ![k] = w]
      BY <1>1, <2>3 DEF Rows
    <3> QED
      BY <3>1
  <2> QED
    BY <2>0, <2>1, <2>2, <2>3
<1>3. /\ DOMAIN [ticket EXCEPT ![k] = v] = DOMAIN ticket
      /\ \A j \in DOMAIN ticket : [ticket EXCEPT ![k] = v][j] = IF j = k THEN v ELSE ticket[j]
  BY <1>1, <1>2, Replaced
<1> QED
  BY <1>2, <1>3 DEF RefsKept, AgentOfKept

LEMMA WriteFrame ==
  ASSUME TypeInv, NEW c \in Jobs, job[c].pc \in AtTicket, NEW status \in Status, NEW asked \in Status \cup {None},
         Write(c, status, asked)
  PROVE  RefsKept /\ AgentOfKept
  BY WritesTicket DEF RefsKept, AgentOfKept

\* An object gets another state.
LEMMA StatusFrame ==
  ASSUME TypeInv, NEW n, NEW status \in Status, object' = object \/ object' = [object EXCEPT ![n].status = status]
  PROVE  MakersKept
<1> DEFINE v == [object[n] EXCEPT !.status = status]
<1>0. object \in Seq(Objects)
  BY DEF TypeInv, Shapes
<1>1. n \in DOMAIN object => /\ v \in Objects /\ v.maker = object[n].maker /\ v.linked = object[n].linked
                             /\ v.early = object[n].early
  <2> SUFFICES ASSUME n \in DOMAIN object
               PROVE  /\ v \in Objects /\ v.maker = object[n].maker /\ v.linked = object[n].linked
                      /\ v.early = object[n].early
    OBVIOUS
  <2>1. object[n] \in Objects
    BY <1>0
  <2> QED
    BY <2>1 DEF Objects
<1>2. object' = object \/ object' = [object EXCEPT ![n] = v]
  OBVIOUS
<1> HIDE DEF v
<1>3. /\ DOMAIN [object EXCEPT ![n] = v] = DOMAIN object
      /\ \A m \in DOMAIN object : [object EXCEPT ![n] = v][m] = IF m = n THEN v ELSE object[m]
  BY <1>0, <1>1, Replaced
<1> QED
  BY <1>1, <1>2, <1>3 DEF MakersKept

LEMMA Standing ==
  ASSUME UNCHANGED <<scene, ticket, agent, object>>
  PROVE  Frame
  BY AgentsStand DEF Frame, RefsKept, AgentOfKept, MakersKept

\* The steps of the desk after which a coroutine is not traced.
Aside(c) ==
  \/ ChangeStatus(c) \/ StopAgent(c) \/ Unassign(c) \/ OpenForm(c) \/ AskNote(c) \/ Ask(c)
  \/ WaitEndsAgent(c) \/ ReadPrior(c) \/ WaitAtGate(c) \/ RememberWait(c) \/ ExpireForm(c)

LEMMA AsideLeaves ==
  ASSUME TypeInv, NEW c \in Jobs, UNCHANGED provVars, Aside(c)
  PROVE  Leaves(c) /\ Frame /\ UNCHANGED <<raced, rushed>> /\ job[c].pc # "link"
<1>0. UNCHANGED <<scene, raced, rushed>> /\ MakersKept /\ job[c].pc # "link"
  BY DEF Aside, ChangeStatus, StopAgent, Unassign, OpenForm, AskNote, Ask, WaitEndsAgent, ReadPrior, WaitAtGate,
         RememberWait, ExpireForm, rows, provVars, MakersKept
<1>1. CASE ChangeStatus(c) \/ Ask(c) \/ WaitAtGate(c)
  <2>1. job[c].pc \in AtTicket /\ AgentsRest
    BY <1>1 DEF ChangeStatus, Ask, WaitAtGate, AtTicket, AgentsRest, Works
  <2>2. /\ Row(c).asked \in Status \cup {None} /\ Previous(c) \in Status \cup {None} /\ Awaiting \in Status
        /\ scene.orders[c].to \in Status
    BY <2>1, OnTicket, OrderTypes DEF TypeInv, Shapes, Rows, Coroutines, Previous, Status, Awaiting
  <2>3. PICK status \in Status, asked \in Status \cup {None} : Write(c, status, asked)
    BY <1>1, <2>2 DEF ChangeStatus, Ask, WaitAtGate
  <2>4. Return(c) \/ \E pc \in Pcs \ Traced : Goto(c, pc)
    BY <1>1 DEF ChangeStatus, Ask, WaitAtGate, Pcs, Traced
  <2> QED
    BY <1>0, <2>1, <2>3, <2>4, WriteFrame, ReturnsOut, GoesOut DEF Frame
<1>2. CASE AskNote(c) \/ RememberWait(c)
  <2>1. job[c].pc \in AtTicket /\ AgentsRest /\ Previous(c) \in Status \cup {None}
    BY <1>2 DEF AskNote, RememberWait, AtTicket, AgentsRest, Works, Previous, TypeInv, Shapes, Coroutines
  <2>2. job[c].ticket \in DOMAIN ticket
    BY <2>1, OnTicket
  <2>3. RefsKept /\ AgentOfKept
    <3>1. CASE AskNote(c)
      BY <2>2, <3>1, ColumnFrame DEF AskNote
    <3>2. CASE RememberWait(c)
      <4>1. \/ ticket' = ticket
            \/ ticket' = [ticket EXCEPT ![job[c].ticket].told = TRUE, ![job[c].ticket].asked = Previous(c)]
        BY <3>2 DEF RememberWait
      <4> QED
        BY <2>1, <2>2, <4>1, ColumnFrame
    <3> QED
      BY <1>2, <3>1, <3>2
  <2>4. Return(c) \/ \E pc \in Pcs \ Traced : Goto(c, pc)
    BY <1>2 DEF AskNote, RememberWait, Pcs, Traced
  <2> QED
    BY <1>0, <2>1, <2>3, <2>4, ReturnsOut, GoesOut DEF Frame
<1>3. CASE StopAgent(c) \/ Unassign(c) \/ WaitEndsAgent(c)
  <2>1. \E a : AgentChanges(a)
    <3>1. CASE StopAgent(c)
      <4>1. AgentChanges(Max(Active(job[c].ticket)))
        BY <3>1 DEF StopAgent, AgentChanges
      <4> QED
        BY <4>1
    <3>2. CASE Unassign(c)
      <4>1. AgentChanges(job[c].agent)
        BY <3>2 DEF Unassign, AgentChanges
      <4> QED
        BY <4>1
    <3>3. CASE WaitEndsAgent(c)
      BY <3>3 DEF WaitEndsAgent, AgentChanges
    <3> QED
      BY <1>3, <3>1, <3>2, <3>3
  <2>2. Return(c) \/ \E pc \in Pcs \ Traced : Goto(c, pc)
    BY <1>3 DEF StopAgent, Unassign, WaitEndsAgent, Pcs, Traced
  <2>3. RefsKept /\ AgentOfKept
    BY <1>3 DEF StopAgent, Unassign, WaitEndsAgent, RefsKept, AgentOfKept
  <2> QED
    BY <1>0, <2>1, <2>2, <2>3, RowOfAgent, ReturnsOut, GoesOut DEF Frame
<1>4. CASE OpenForm(c) \/ ExpireForm(c) \/ ReadPrior(c)
  <2>1. UNCHANGED <<scene, ticket, agent, object>>
    BY <1>4 DEF OpenForm, ExpireForm, ReadPrior, rows, provVars
  <2>2. CASE OpenForm(c) \/ ExpireForm(c)
    <3>1. Return(c) \/ \E pc \in Pcs \ Traced : Goto(c, pc)
      BY <2>2 DEF OpenForm, ExpireForm, Pcs, Traced
    <3> QED
      BY <1>0, <2>1, <3>1, Standing, ReturnsOut, GoesOut
  <2>3. CASE ReadPrior(c)
    <3>1. scene.orders[c].ticket \in DOMAIN ticket /\ "gate" \in Pcs \ Traced
      BY <2>3 DEF ReadPrior, TypeInv, Tied, Pcs, Traced
    <3> QED
      BY <1>0, <2>1, <2>3, <3>1, Standing, SawOut DEF ReadPrior
  <2> QED
    BY <1>4, <2>2, <2>3
<1> QED
  BY <1>1, <1>2, <1>3, <1>4 DEF Aside

\* The steps of a sync and of a closing, except for the row that is added.
Beyond(c) ==
  \/ ListKeys(c) \/ NextKey(c) \/ PassEnds(c) \/ GetObject(c) \/ SelectRow(c) \/ UpdateRow(c) \/ InsertRefused(c)
  \/ LoadMax(c) \/ Refresh(c) \/ Resolve(c) \/ AssignFirst(c) \/ PollState(c) \/ CloseRow(c)

LEMMA BeyondLeaves ==
  ASSUME TypeInv, NEW c \in Jobs, Beyond(c)
  PROVE  Leaves(c) /\ Frame /\ UNCHANGED <<raced, rushed>> /\ job[c].pc # "link"
<1>0. UNCHANGED <<scene, agent, raced, rushed>> /\ job[c].pc # "link"
  <2>0. CASE UpdateRow(c)
    BY <2>0 DEF UpdateRow
  <2>1. CASE ListKeys(c) \/ NextKey(c) \/ PassEnds(c) \/ GetObject(c) \/ SelectRow(c)
    BY <2>1 DEF ListKeys, NextKey, PassEnds, GetObject, SelectRow, rows
  <2>2. CASE \/ InsertRefused(c) \/ LoadMax(c) \/ Refresh(c) \/ Resolve(c) \/ AssignFirst(c) \/ PollState(c)
             \/ CloseRow(c)
    BY <2>2 DEF InsertRefused, LoadMax, Refresh, Resolve, AssignFirst, PollState, CloseRow, rows, provVars
  <2> QED
    BY <2>0, <2>1, <2>2 DEF Beyond
<1>1. CASE \/ ListKeys(c) \/ NextKey(c) \/ PassEnds(c) \/ GetObject(c) \/ InsertRefused(c) \/ LoadMax(c)
           \/ Refresh(c) \/ PollState(c)
  <2>1. UNCHANGED <<scene, ticket, agent, object>>
    BY <1>1 DEF ListKeys, NextKey, PassEnds, GetObject, InsertRefused, LoadMax, Refresh, PollState, rows
  <2>2. Return(c) \/ \E pc \in Pcs \ Traced : Goto(c, pc)
    <3>1. CASE ListKeys(c) \/ NextKey(c) \/ PassEnds(c) \/ GetObject(c)
      BY <3>1 DEF ListKeys, NextKey, PassEnds, GetObject, Pcs, Traced
    <3>2. CASE InsertRefused(c) \/ LoadMax(c) \/ Refresh(c) \/ PollState(c)
      BY <3>2 DEF InsertRefused, LoadMax, Refresh, PollState, Pcs, Traced
    <3> QED
      BY <1>1, <3>1, <3>2
  <2> QED
    BY <1>0, <2>1, <2>2, Standing, ReturnsOut, GoesOut
<1>2. CASE SelectRow(c)
  <2>1. UNCHANGED <<scene, ticket, agent, object>>
    BY <1>2 DEF SelectRow, rows
  <2>2. (\E pc \in Pcs \ Traced : Goto(c, pc)) \/ (\E k \in DOMAIN ticket : job' = Saw(c, k, "update"))
    BY <1>2 DEF SelectRow, RowOf, Pcs, Traced
  <2>3. "update" \in Pcs \ Traced
    BY DEF Pcs, Traced
  <2> QED
    BY <1>0, <2>1, <2>2, <2>3, Standing, GoesOut, SawOut
<1>3. CASE UpdateRow(c)
  <2>1. RefsKept /\ AgentOfKept
    BY <1>3, UpdateRowWrites DEF RefsKept, AgentOfKept
  <2>2. MakersKept /\ AgentsRest /\ Return(c)
    <3>1. UNCHANGED <<agent, object>> /\ Return(c)
      BY <1>3 DEF UpdateRow
    <3> QED
      BY <3>1 DEF MakersKept, AgentsRest, Works
  <2> QED
    BY <1>0, <2>1, <2>2, ReturnsOut DEF Frame
<1>4. CASE Resolve(c) \/ AssignFirst(c)
  <2>1. PICK status \in Status : object' = object \/ object' = [object EXCEPT ![job[c].key].status = status]
    <3>1. "resolved" \in Status /\ "assigned" \in Status
      BY DEF Status
    <3>2. CASE Resolve(c)
      <4>1. object' = object \/ object' = [object EXCEPT ![job[c].key].status = "resolved"]
        BY <3>2 DEF Resolve, Stimulus
      <4> QED
        BY <3>1, <4>1
    <3>3. CASE AssignFirst(c)
      <4>1. object' = object \/ object' = [object EXCEPT ![job[c].key].status = "assigned"]
        BY <3>3 DEF AssignFirst, Stimulus
      <4> QED
        BY <3>1, <4>1
    <3> QED
      BY <1>4, <3>2, <3>3
  <2>2. Return(c) \/ \E pc \in Pcs \ Traced : Goto(c, pc)
    BY <1>4 DEF Resolve, AssignFirst, Stimulus, Pcs, Traced
  <2>3. RefsKept /\ AgentOfKept /\ AgentsRest
    BY <1>4 DEF Resolve, AssignFirst, rows, RefsKept, AgentOfKept, AgentsRest, Works
  <2> QED
    BY <1>0, <2>1, <2>2, <2>3, StatusFrame, ReturnsOut, GoesOut DEF Frame
<1>5. CASE CloseRow(c)
  <2>1. job[c].pc \in AtTicket /\ MakersKept /\ AgentsRest
    BY <1>0, <1>5 DEF CloseRow, AtTicket, provVars, MakersKept, AgentsRest, Works
  <2>2. "resolved" \in Status /\ Row(c).asked \in Status \cup {None}
    BY <2>1, OnTicket DEF Rows, Status
  <2>3. "change" \in Pcs \ Traced /\ Goto(c, "change")
    BY <1>5 DEF CloseRow, Pcs, Traced
  <2> QED
    BY <1>0, <1>5, <2>1, <2>2, <2>3, WriteFrame, GoesOut DEF CloseRow, Frame
<1> QED
  BY <1>1, <1>2, <1>3, <1>4, <1>5 DEF Beyond

\* The steps that no coroutine takes, or that start the loop.
LEMMA OutsideStands ==
  ASSUME TypeInv, \/ (DeskNext /\ UNCHANGED provVars /\ ~\E c \in Jobs : Arrives(c) \/ Proceeds(c))
                  \/ (\E n \in Keys : PersonMoves(n)) \/ UNCHANGED vars
  PROVE  job' = job /\ Frame /\ UNCHANGED <<raced, rushed>>
<1>1. CASE UNCHANGED vars
  BY <1>1, Standing DEF vars, deskVars, provVars, rows
<1>2. CASE \E n \in Keys : PersonMoves(n)
  <2>1. PICK n \in Keys, status \in scene.moves :
          object' = [object EXCEPT ![n].status = status] /\ UNCHANGED <<deskVars, maxKey, sync, rushed, mishaps>>
    BY <1>2 DEF PersonMoves
  <2>2. status \in Status
    BY SyncAssumption DEF TypeInv, Shapes
  <2>3. MakersKept
    BY <2>1, <2>2, StatusFrame
  <2> QED
    BY <2>1, <2>3 DEF deskVars, rows, Frame, RefsKept, AgentOfKept, AgentsRest, Works
<1>3. CASE DeskNext /\ UNCHANGED provVars /\ ~\E c \in Jobs : Arrives(c) \/ Proceeds(c)
  <2>1. CASE \E f \in DOMAIN form : FormExpires(f)
    BY <1>3, <2>1, Standing DEF FormExpires, provVars
  <2>2. CASE \E a \in DOMAIN agent : AgentRow(a)
    <3>1. AgentsRest /\ UNCHANGED <<scene, ticket, job, raced>>
      BY <2>2, AgentRowWrites, RowOfAgent
    <3> QED
      BY <1>3, <3>1 DEF provVars, Frame, RefsKept, AgentOfKept, MakersKept
  <2> QED
    BY <1>3, <2>1, <2>2 DEF DeskNext, AgentRow
<1> QED
  BY <1>1, <1>2, <1>3

LEMMA BootLeaves ==
  ASSUME TypeInv, Boot
  PROVE  Loop \in Jobs /\ Leaves(Loop) /\ Frame /\ UNCHANGED <<raced, rushed>> /\ job[Loop].pc # "link"
<1>1. UNCHANGED <<scene, ticket, agent, object, raced, rushed>> /\ job[Loop].pc # "link"
  BY DEF Boot, rows
<1>2. Loop \in Jobs /\ \E pc \in Pcs \ Traced : Goto(Loop, pc)
  BY SyncAssumption DEF Boot, Pcs, Traced
<1> QED
  BY <1>1, <1>2, Standing, GoesOut

-----------------------------------------------------------------------------
(* The moves of a traced coroutine.                                        *)

Seen(c, k, pc) == Single(c) /\ job'[c].pc = pc /\ job'[c].ticket = k /\ job'[c].agent = ticket[k].agent

LEMMA SawSeen ==
  ASSUME TypeInv, NEW c \in Jobs, NEW pc \in Pcs, NEW k \in DOMAIN ticket, job' = Saw(c, k, pc)
  PROVE  Seen(c, k, pc)
  BY Seeing DEF Seen, Single, TypeInv, Shapes

LEMMA ReadTicketMoves ==
  ASSUME TypeInv, NEW c \in Jobs, ReadTicket(c), UNCHANGED provVars
  PROVE  /\ Frame /\ rushed' = rushed /\ op(c) \in Handlers
         /\ scene.orders[c].ticket \in DOMAIN ticket /\ Seen(c, scene.orders[c].ticket, Begins(c))
         /\ Begins(c) = "answer" => op(c) \in {"respond", "chat"}
         /\ IF op(c) = "respond" THEN Racing(c, scene.orders[c].ticket) ELSE raced' = raced
         /\ job[c].pc = "new"
<1>1. UNCHANGED <<scene, ticket, agent, object, rushed>> /\ job[c].pc = "new"
  BY DEF ReadTicket, rows, provVars
<1>2. /\ op(c) \in Handlers /\ scene.orders[c].ticket \in DOMAIN ticket /\ job' = Saw(c, scene.orders[c].ticket, Begins(c))
      /\ IF op(c) = "respond" THEN Racing(c, scene.orders[c].ticket) ELSE raced' = raced
  BY DEF ReadTicket
<1>3. Begins(c) \in Pcs
  BY <1>2, BeginsSomewhere DEF Pcs
<1>4. Begins(c) = "answer" => op(c) \in {"respond", "chat"}
  BY <1>2 DEF Begins, Handlers
<1> QED
  BY <1>1, <1>2, <1>3, <1>4, Standing, SawSeen

LEMMA ReadWaitingMoves ==
  ASSUME TypeInv, NEW c \in Jobs, ReadWaiting(c), UNCHANGED provVars
  PROVE  /\ Frame /\ rushed' = rushed /\ job[c].pc = "waiting"
         /\ \/ Leaves(c) /\ raced' = raced
            \/ \E k \in DOMAIN ticket : Seen(c, k, "answer") /\ Racing(c, k)
<1> DEFINE k == form[job[c].form].ticket
<1>1. UNCHANGED <<scene, ticket, agent, object, rushed>>
  BY DEF ReadWaiting, rows, provVars
<1>2. k \in DOMAIN ticket
  BY OnForm DEF ReadWaiting, AtForm
<1>3. \/ Return(c) /\ raced' = raced
      \/ job' = Saw(c, k, "answer") /\ Racing(c, k)
  BY DEF ReadWaiting
<1>4. "answer" \in Pcs
  BY DEF Pcs
<1>5. job[c].pc = "waiting"
  BY DEF ReadWaiting
<1> HIDE DEF k
<1> QED
  BY <1>1, <1>2, <1>3, <1>4, <1>5, Standing, SawSeen, ReturnsOut

LEMMA AnswerMoves ==
  ASSUME TypeInv, NEW c \in Jobs, Answer(c), UNCHANGED provVars
  PROVE  /\ Frame /\ rushed' = rushed /\ raced' = raced /\ job[c].pc = "answer"
         /\ Passes(c, IF op(c) = "chat" THEN "look" ELSE "resume")
<1>1. job[c].pc \in AtTicket /\ AgentsRest /\ MakersKept /\ UNCHANGED <<scene, raced, rushed>> /\ job[c].pc = "answer"
  BY DEF Answer, AtTicket, AgentsRest, Works, MakersKept, provVars
<1>2. Restored(c) \in Status /\ None \in Status \cup {None}
  BY DEF TypeInv, Shapes, Coroutines, Restored, Status
<1>3. RefsKept /\ AgentOfKept
  BY <1>1, <1>2, WriteFrame DEF Answer
<1>4. Passes(c, IF op(c) = "chat" THEN "look" ELSE "resume")
  BY GoesTo DEF Answer, Pcs
<1> QED
  BY <1>1, <1>3, <1>4 DEF Frame

LEMMA FormMoves ==
  ASSUME TypeInv, NEW c \in Jobs, ReadForm(c) \/ StoreValues(c) \/ SubmitForm(c), UNCHANGED provVars
  PROVE  /\ Frame /\ rushed' = rushed /\ raced' = raced /\ Single(c) /\ job[c].pc # "link"
         /\ job'[c].pc \notin Traced \ {"store", "submitted", "waiting"}
         /\ op(c) = "submit" \/ job[c].pc \in {"store", "submitted"} \/ Leaves(c)
<1>1. UNCHANGED <<scene, ticket, agent, object, raced, rushed>> /\ job[c].pc # "link"
  BY DEF ReadForm, StoreValues, SubmitForm, provVars, rows
<1>2. CASE ReadForm(c)
  <2>1. PICK f \in DOMAIN form :
          \/ Return(c)
          \/ job' = [job EXCEPT ![c].form = f, ![c].pc = IF form[f].expired THEN "expire" ELSE "store"]
    BY <1>2 DEF ReadForm
  <2> DEFINE v == [job[c] EXCEPT !.form = f, !.pc = IF form[f].expired THEN "expire" ELSE "store"]
  <2>2. job[c] \in Coroutines
    BY DEF TypeInv, Shapes
  <2>3. v.pc \in {"expire", "store"}
    BY <2>2 DEF Coroutines
  <2>4. Return(c) \/ job' = [job EXCEPT ![c] = v]
    BY <2>1
  <2> HIDE DEF v
  <2>5. CASE Return(c)
    BY <1>1, <2>5, ReturnsOut, Standing DEF Leaves
  <2>6. CASE job' = [job EXCEPT ![c] = v]
    <3>1. Single(c) /\ job'[c].pc \in {"expire", "store"}
      BY <2>3, <2>6 DEF Single, TypeInv, Shapes
    <3>2. op(c) = "submit"
      BY <1>2 DEF ReadForm
    <3> QED
      BY <1>1, <3>1, <3>2, Standing DEF Traced
  <2> QED
    BY <2>4, <2>5, <2>6
<1>3. CASE StoreValues(c) \/ SubmitForm(c)
  <2>1. Return(c) \/ \E pc \in {"submitted", "waiting"} : Goto(c, pc)
    BY <1>3 DEF StoreValues, SubmitForm
  <2>2. job[c].pc \in {"store", "submitted"}
    BY <1>3 DEF StoreValues, SubmitForm
  <2>3. CASE Return(c)
    BY <1>1, <2>2, <2>3, ReturnsOut, Standing DEF Leaves
  <2>4. ASSUME NEW pc \in {"submitted", "waiting"}, Goto(c, pc) PROVE Single(c) /\ job'[c].pc = pc
    BY <2>4, GoesTo DEF Passes, Pcs
  <2> QED
    BY <1>1, <2>1, <2>2, <2>3, <2>4, Standing DEF Traced
<1> QED
  BY <1>2, <1>3

LEMMA ResumeMoves ==
  ASSUME TypeInv, NEW c \in Jobs, Resume(c), UNCHANGED provVars
  PROVE  /\ Frame /\ rushed' = rushed /\ raced' = raced /\ job[c].pc = "resume"
         /\ Leaves(c) \/ (Passes(c, "spawn") /\ job[c].agent # 0 /\ ~agent[job[c].agent].runs)
<1>1. UNCHANGED <<scene, ticket, agent, object, raced, rushed>> /\ job[c].pc = "resume"
  BY DEF Resume, rows, provVars
<1>2. Return(c) \/ (Goto(c, "spawn") /\ job[c].agent # 0 /\ ~agent[job[c].agent].runs)
  BY DEF Resume, StillWorks
<1> QED
  BY <1>1, <1>2, Standing, ReturnsOut, GoesTo DEF Pcs

LEMMA NoneAtWork == ASSUME NEW k, Active(k) = {} PROVE AtWork(k) = {}
  BY DEF Active, AtWork, Works

LEMMA LookMoves ==
  ASSUME TypeInv, NEW c \in Jobs, LookForAgent(c), UNCHANGED provVars
  PROVE  /\ Frame /\ rushed' = rushed /\ job[c].pc = "look" /\ Racing(c, job[c].ticket)
         /\ Leaves(c) \/ (Passes(c, "spawn") /\ AtWork(job[c].ticket) = {})
<1>1. UNCHANGED <<scene, ticket, agent, object, rushed>> /\ job[c].pc = "look" /\ Racing(c, job[c].ticket)
  BY DEF LookForAgent, rows, provVars
<1>2. Return(c) \/ (Goto(c, "spawn") /\ AtWork(job[c].ticket) = {})
  BY NoneAtWork DEF LookForAgent
<1> QED
  BY <1>1, <1>2, Standing, ReturnsOut, GoesTo DEF Pcs

\* A workflow build that goes on marks the ticket, or has found nobody on it.
LEMMA SameMoves ==
  ASSUME TypeInv, NEW c \in Jobs, LookForSame(c), UNCHANGED provVars
  PROVE  /\ Frame /\ rushed' = rushed /\ job[c].pc = "same" /\ raced \subseteq raced'
         /\ \/ Leaves(c)
            \/ Passes(c, "review") /\ op(c) = "postmortem"
            \/ /\ Passes(c, "spawn") /\ op(c) # "postmortem"
               /\ job[c].ticket \in raced' \/ (~Overlapping(c, job[c].ticket) /\ AtWork(job[c].ticket) = {})
<1>1. UNCHANGED <<scene, ticket, agent, object, rushed>> /\ job[c].pc = "same"
  BY DEF LookForSame, rows, provVars
<1>2. raced' = IF op(c) # "postmortem" /\ (Overlapping(c, job[c].ticket) \/ AtWork(job[c].ticket) # {})
                 THEN raced \cup {job[c].ticket} ELSE raced
  BY DEF LookForSame
<1>3. \/ Return(c) \/ (Goto(c, "review") /\ op(c) = "postmortem") \/ (Goto(c, "spawn") /\ op(c) # "postmortem")
  BY DEF LookForSame
<1> QED
  BY <1>1, <1>2, <1>3, Standing, ReturnsOut, GoesTo DEF Pcs

LEMMA AutoLookMoves ==
  ASSUME TypeInv, NEW c \in Jobs, AutoLook(c)
  PROVE  /\ Frame /\ rushed' = rushed /\ job[c].pc = "auto" /\ Racing(c, job[c].ticket)
         /\ Leaves(c) \/ (Passes(c, "capacity") /\ AtWork(job[c].ticket) = {})
<1>1. UNCHANGED <<scene, ticket, agent, object, rushed>> /\ job[c].pc = "auto" /\ Racing(c, job[c].ticket)
  BY DEF AutoLook, rows, provVars
<1>2. Return(c) \/ (Goto(c, "capacity") /\ AtWork(job[c].ticket) = {})
  BY NoneAtWork DEF AutoLook
<1> QED
  BY <1>1, <1>2, Standing, ReturnsOut, GoesTo DEF Pcs

LEMMA AutoCapacityMoves ==
  ASSUME TypeInv, NEW c \in Jobs, AutoCapacity(c)
  PROVE  /\ Frame /\ raced' = raced /\ job[c].pc = "capacity"
         /\ rushed' = (rushed \/ \E d \in Jobs \ {c} : job[d].pc = "spawn" /\ Automatic(op(d)))
         /\ Leaves(c) \/ (Passes(c, "spawn") /\ HasRoom(c))
<1>1. UNCHANGED <<scene, ticket, agent, object, raced>> /\ job[c].pc = "capacity"
  BY DEF AutoCapacity, rows
<1>2. Return(c) \/ (Goto(c, "spawn") /\ HasRoom(c))
  BY DEF AutoCapacity
<1> QED
  BY <1>1, <1>2, Standing, ReturnsOut, GoesTo DEF Pcs, AutoCapacity

LEMMA ConfirmMoves ==
  ASSUME TypeInv, NEW c \in Jobs, ConfirmRow(c)
  PROVE  /\ Frame /\ raced' = raced /\ rushed' = rushed /\ job[c].pc \in {"confirm", "failed"}
         /\ Leaves(c) \/ (Passes(c, "auto") /\ op(c) = "create")
<1>1. /\ UNCHANGED <<scene, agent, object, raced, rushed>> /\ job[c].pc \in {"confirm", "failed"}
      /\ job[c].pc \in AtTicket
  BY DEF ConfirmRow, provVars, AtTicket
<1>2. Return(c) \/ (Goto(c, "auto") /\ op(c) = "create")
  BY DEF ConfirmRow
<1>3. job[c].ticket \in DOMAIN ticket /\ None \in Status \cup {None}
  BY <1>1, OnTicket
<1>4. ticket' = [ticket EXCEPT ![job[c].ticket].asked = None]
  BY DEF ConfirmRow
<1>5. RefsKept /\ AgentOfKept
  BY <1>3, <1>4, ColumnFrame
<1>6. MakersKept /\ AgentsRest
  BY <1>1 DEF MakersKept, AgentsRest, Works
<1> QED
  BY <1>1, <1>2, <1>5, <1>6, ReturnsOut, GoesTo DEF Pcs, Frame

\* A restart: nobody is traced, and an agent whose ticket does not know it is marked.
LEMMA CrashMoves ==
  ASSUME TypeInv, Crash
  PROVE  /\ Frame /\ rushed' = rushed /\ \A c \in Jobs : job'[c].pc \in {"new", "done"}
         /\ raced' = raced \cup {job[c].ticket : c \in {d \in Jobs : job[d].pc = "link"}}
<1>1. UNCHANGED <<scene, ticket, agent, object, rushed>>
  BY DEF Crash, rows
<1>2. \A d \in Jobs : job'[d] \in {NoJob, [NoJob EXCEPT !.pc = "new"]} \/ (job'[d] = job[d] /\ job[d].pc = "new")
  BY DEF Crash
<1>3. NoJob.pc = "done" /\ [NoJob EXCEPT !.pc = "new"].pc = "new"
  BY DEF NoJob
<1>4. raced' = raced \cup {job[c].ticket : c \in {d \in Jobs : job[d].pc = "link"}}
  BY DEF Crash
<1> QED
  BY <1>1, <1>2, <1>3, <1>4, Standing

\* A row gets another agent.
LEMMA AgentColumn ==
  ASSUME TypeInv, NEW k \in DOMAIN ticket, NEW v \in Rows, v.ref = ticket[k].ref,
         ticket' = [ticket EXCEPT ![k] = v]
  PROVE  RefsKept /\ \A j \in DOMAIN ticket : ticket'[j].agent = IF j = k THEN v.agent ELSE ticket[j].agent
<1>1. ticket \in Seq(Rows)
  BY DEF TypeInv, Shapes
<1>2. /\ DOMAIN [ticket EXCEPT ![k] = v] = DOMAIN ticket
      /\ \A j \in DOMAIN ticket : [ticket EXCEPT ![k] = v][j] = IF j = k THEN v ELSE ticket[j]
  BY <1>1, Replaced
<1> QED
  BY <1>2 DEF RefsKept

LEMMA ClearMoves ==
  ASSUME TypeInv, NEW c \in Jobs, ClearAgent(c), UNCHANGED provVars
  PROVE  /\ Leaves(c) /\ scene' = scene /\ UNCHANGED <<raced, rushed>> /\ job[c].pc # "link"
         /\ RefsKept /\ MakersKept /\ AgentsRest
         /\ \A k \in DOMAIN ticket : ticket'[k].agent \in {0, ticket[k].agent}
<1> DEFINE k == job[c].ticket
           v == [ticket[k] EXCEPT !.agent = 0]
<1>1. UNCHANGED <<scene, agent, object, raced, rushed>> /\ job[c].pc = "clear" /\ job[c].pc \in AtTicket /\ Return(c)
  BY DEF ClearAgent, AtTicket, provVars
<1>2. k \in DOMAIN ticket /\ ticket[k] \in Rows
  BY <1>1, OnTicket DEF Row
<1>3. v \in Rows /\ v.ref = ticket[k].ref /\ v.agent = 0
  BY <1>2 DEF Rows
<1>4. ticket' = [ticket EXCEPT ![k] = v]
  BY DEF ClearAgent
<1> HIDE DEF v
<1>5. RefsKept /\ \A j \in DOMAIN ticket : ticket'[j].agent = IF j = k THEN 0 ELSE ticket[j].agent
  BY <1>2, <1>3, <1>4, AgentColumn
<1> QED
  BY <1>1, <1>5, ReturnsOut DEF MakersKept, AgentsRest, Works

LEMMA LinkMoves ==
  ASSUME TypeInv, NEW c \in Jobs, LinkAgent(c), UNCHANGED provVars
  PROVE  /\ Leaves(c) /\ scene' = scene /\ UNCHANGED <<raced, rushed>> /\ job[c].pc = "link"
         /\ RefsKept /\ MakersKept /\ AgentsRest
         /\ \A k \in DOMAIN ticket :
              ticket'[k].agent = IF k = job[c].ticket THEN job[c].agent ELSE ticket[k].agent
<1> DEFINE k == job[c].ticket
           v == [ticket[k] EXCEPT !.agent = job[c].agent, !.status = "in_progress"]
<1>1. UNCHANGED <<scene, agent, object, raced, rushed>> /\ job[c].pc = "link" /\ job[c].pc \in AtTicket /\ Return(c)
  BY DEF LinkAgent, AtTicket, provVars
<1>2. k \in DOMAIN ticket /\ ticket[k] \in Rows /\ job[c].agent \in Nat
  BY <1>1, OnTicket DEF Row, TypeInv, Shapes, Coroutines
<1>3. v \in Rows /\ v.ref = ticket[k].ref /\ v.agent = job[c].agent
  BY <1>2 DEF Rows, Status
<1>4. ticket' = [ticket EXCEPT ![k] = v]
  BY DEF LinkAgent
<1> HIDE DEF v
<1>5. RefsKept /\ \A j \in DOMAIN ticket : ticket'[j].agent = IF j = k THEN job[c].agent ELSE ticket[j].agent
  BY <1>2, <1>3, <1>4, AgentColumn
<1> QED
  BY <1>1, <1>5, ReturnsOut DEF MakersKept, AgentsRest, Works

\* A new agent.
LEMMA AgentAdded ==
  ASSUME TypeInv, NEW c \in Jobs, job[c].ticket \in DOMAIN ticket, agent' = Append(agent, NewAgent(c))
  PROVE  /\ DOMAIN agent' = DOMAIN agent \cup {Len(agent) + 1} /\ Len(agent) + 1 \notin DOMAIN agent
         /\ Len(agent) \in Nat /\ Len(agent') = Len(agent) + 1
         /\ \A x \in DOMAIN agent : agent'[x] = agent[x]
         /\ LET x == Len(agent) + 1 IN /\ agent'[x].ticket = job[c].ticket /\ agent'[x].by = op(c)
                                      /\ agent'[x].active /\ agent'[x].runs /\ ~agent'[x].revived
<1>0. NewAgent(c).active /\ NewAgent(c).runs /\ ~NewAgent(c).revived
  BY DEF NewAgent
<1>1. NewAgent(c) \in Agents /\ NewAgent(c).ticket = job[c].ticket /\ NewAgent(c).by = op(c)
  BY NewAgentTyped
<1>2. agent \in Seq(Agents)
  BY DEF TypeInv, Shapes
<1> QED
  BY <1>0, <1>1, <1>2, Extended

LEMMA SpawnMoves ==
  ASSUME TypeInv, NEW c \in Jobs, Spawn(c), UNCHANGED provVars
  PROVE  /\ scene' = scene /\ UNCHANGED <<raced, rushed>> /\ job[c].pc = "spawn"
         /\ RefsKept /\ MakersKept /\ AgentOfKept /\ job[c].ticket \in DOMAIN ticket
         /\ Single(c) /\ job'[c].pc = "link" /\ job'[c].ticket = job[c].ticket /\ job'[c].agent = Len(agent) + 1
         /\ DOMAIN agent' = DOMAIN agent \cup {Len(agent) + 1} /\ Len(agent) + 1 \notin DOMAIN agent
         /\ Len(agent) \in Nat /\ \A x \in DOMAIN agent : agent'[x] = agent[x]
         /\ LET x == Len(agent) + 1 IN /\ agent'[x].ticket = job[c].ticket /\ agent'[x].by = op(c)
                                      /\ agent'[x].active /\ agent'[x].runs /\ ~agent'[x].revived
<1> DEFINE v == [job[c] EXCEPT !.pc = "link", !.agent = Len(agent')]
<1>1. UNCHANGED <<scene, ticket, object, raced, rushed>> /\ job[c].pc = "spawn" /\ job[c].pc \in AtTicket
  BY DEF Spawn, AtTicket, provVars
<1>2. job[c] \in Coroutines /\ job[c].ticket \in DOMAIN ticket /\ agent' = Append(agent, NewAgent(c))
  BY <1>1, OnTicket DEF TypeInv, Shapes, Spawn
<1>3. /\ DOMAIN agent' = DOMAIN agent \cup {Len(agent) + 1} /\ Len(agent) + 1 \notin DOMAIN agent
      /\ Len(agent) \in Nat /\ Len(agent') = Len(agent) + 1
      /\ \A x \in DOMAIN agent : agent'[x] = agent[x]
      /\ LET x == Len(agent) + 1 IN /\ agent'[x].ticket = job[c].ticket /\ agent'[x].by = op(c)
                                   /\ agent'[x].active /\ agent'[x].runs /\ ~agent'[x].revived
  BY <1>2, AgentAdded
<1>4. v.pc = "link" /\ v.ticket = job[c].ticket /\ v.agent = Len(agent) + 1
  BY <1>2, <1>3 DEF Coroutines
<1>5. job' = [job EXCEPT ![c] = v]
  BY DEF Spawn
<1> HIDE DEF v
<1>6. Single(c) /\ job'[c] = v
  BY <1>5 DEF Single, TypeInv, Shapes
<1>7. RefsKept /\ MakersKept /\ AgentOfKept
  BY <1>1 DEF RefsKept, MakersKept, AgentOfKept
<1> QED
  BY <1>1, <1>2, <1>3, <1>4, <1>6, <1>7

LEMMA ReviewMoves ==
  ASSUME TypeInv, NEW c \in Jobs, SpawnReview(c), UNCHANGED provVars
  PROVE  /\ Leaves(c) /\ scene' = scene /\ UNCHANGED <<raced, rushed>> /\ job[c].pc = "review"
         /\ RefsKept /\ MakersKept /\ AgentOfKept
         /\ DOMAIN agent' = DOMAIN agent \cup {Len(agent) + 1} /\ Len(agent) + 1 \notin DOMAIN agent
         /\ \A x \in DOMAIN agent : agent'[x] = agent[x]
         /\ agent'[Len(agent) + 1].by = op(c)
<1>1. /\ UNCHANGED <<scene, ticket, object, raced, rushed>> /\ job[c].pc = "review" /\ job[c].pc \in AtTicket
      /\ agent' = Append(agent, NewAgent(c)) /\ Return(c)
  BY DEF SpawnReview, AtTicket, provVars
<1>2. job[c].ticket \in DOMAIN ticket
  BY <1>1, OnTicket
<1>3. RefsKept /\ MakersKept /\ AgentOfKept
  BY <1>1 DEF RefsKept, MakersKept, AgentOfKept
<1> QED
  BY <1>1, <1>2, <1>3, AgentAdded, ReturnsOut

\* A new object, and what it was made for.
Added(row) ==
  /\ DOMAIN object' = DOMAIN object \cup {Len(object) + 1} /\ Len(object) + 1 \notin DOMAIN object
  /\ Len(object) \in Nat /\ Len(object') = Len(object) + 1
  /\ (\A n \in DOMAIN object : object'[n] = object[n]) /\ object'[Len(object) + 1] = row

LEMMA FreshAdded ==
  ASSUME TypeInv, NEW k \in Nat, object' = Append(object, Fresh("new", k))
  PROVE  Added(Fresh("new", k)) /\ Fresh("new", k).maker = k /\ Fresh("new", k).linked = (k = 0)
<1>1. Fresh("new", k) \in Objects
  <2>1. (k = 0) \in BOOLEAN
    OBVIOUS
  <2> QED
    BY <2>1 DEF Fresh, Objects, Status
<1>2. Fresh("new", k).maker = k /\ Fresh("new", k).linked = (k = 0)
  BY DEF Fresh
<1>3. object \in Seq(Objects)
  BY DEF TypeInv, Shapes
<1> QED
  BY <1>1, <1>2, <1>3, Extended DEF Added

RowsAlone == scene' = scene /\ RefsKept /\ AgentOfKept /\ AgentsRest

LEMMA MakeObjectMoves ==
  ASSUME TypeInv, NEW c \in Jobs, MakeObject(c)
  PROVE  /\ RowsAlone /\ UNCHANGED <<raced, rushed>> /\ job[c].pc = "make" /\ job[c].ticket \in DOMAIN ticket
         /\ \/ Passes(c, "failed") /\ (MakersKept \/ Added(Fresh("new", job[c].ticket)))
            \/ /\ Single(c) /\ job'[c].pc = "bind" /\ job'[c].ticket = job[c].ticket /\ job'[c].agent = job[c].agent
               /\ job'[c].key = Len(object) + 1
               /\ Added(Fresh("new", job[c].ticket))
<1>1. UNCHANGED <<scene, ticket, agent, raced, rushed>> /\ job[c].pc = "make" /\ job[c].pc \in AtTicket
  BY DEF MakeObject, AtTicket, rows
<1>2. job[c].ticket \in DOMAIN ticket /\ job[c].ticket \in Nat /\ job[c] \in Coroutines
  BY <1>1, OnTicket DEF TypeInv, Shapes
<1>3. RowsAlone
  BY <1>1 DEF RowsAlone, RefsKept, AgentOfKept, AgentsRest, Works
<1>4. object' = Append(object, Fresh("new", job[c].ticket)) => Added(Fresh("new", job[c].ticket))
  BY <1>2, FreshAdded
<1>5. CASE Goto(c, "failed") /\ (UNCHANGED object \/ object' = Append(object, Fresh("new", job[c].ticket)))
  <2>1. Passes(c, "failed")
    BY <1>5, GoesTo DEF Pcs
  <2> QED
    BY <1>1, <1>2, <1>3, <1>4, <1>5, <2>1 DEF MakersKept
<1>6. CASE Made(c)
  <2> DEFINE v == [job[c] EXCEPT !.pc = "bind", !.key = Len(object')]
  <2>1. Added(Fresh("new", job[c].ticket)) /\ job' = [job EXCEPT ![c] = v]
    BY <1>4, <1>6 DEF Made
  <2>2. v.pc = "bind" /\ v.ticket = job[c].ticket /\ v.agent = job[c].agent /\ v.key = Len(object) + 1
    BY <1>2, <2>1 DEF Coroutines, Added
  <2> HIDE DEF v
  <2>3. Single(c) /\ job'[c] = v
    BY <2>1 DEF Single, TypeInv, Shapes
  <2> QED
    BY <1>1, <1>2, <1>3, <2>1, <2>2, <2>3
<1> QED
  BY <1>5, <1>6 DEF MakeObject

\* The row of ticket k takes the key n, and the object knows it.
Binds(k, n) ==
  /\ RowOf(n) \subseteq {k} /\ DOMAIN ticket' = DOMAIN ticket /\ DOMAIN object' = DOMAIN object
  /\ \A j \in DOMAIN ticket : ticket'[j].ref = IF j = k THEN n ELSE ticket[j].ref
  /\ \A m \in DOMAIN object : /\ object'[m].maker = object[m].maker /\ object'[m].early = object[m].early
                              /\ object'[m].linked = (m = n \/ object[m].linked)

LEMMA BindMoves ==
  ASSUME TypeInv, NEW c \in Jobs, BindRow(c)
  PROVE  /\ scene' = scene /\ AgentOfKept /\ AgentsRest /\ UNCHANGED <<raced, rushed>>
         /\ job[c].pc = "bind" /\ job[c].ticket \in DOMAIN ticket /\ job[c].key \in DOMAIN object
         /\ \/ Leaves(c) /\ RefsKept /\ MakersKept
            \/ Passes(c, "confirm") /\ Binds(job[c].ticket, job[c].key)
<1> DEFINE k == job[c].ticket
           n == job[c].key
           v == [ticket[k] EXCEPT !.ref = n, !.asked = None]
           w == [object[n] EXCEPT !.linked = TRUE]
<1>1. /\ UNCHANGED <<scene, agent, raced, rushed>> /\ job[c].pc = "bind"
      /\ k \in DOMAIN ticket /\ ticket[k] \in Rows /\ n \in DOMAIN object /\ job[c].pc \in AtTicket
  BY OnTicket DEF BindRow, AtTicket, TypeInv, Tied, Keys, Row
<1>2. AgentsRest
  BY <1>1 DEF AgentsRest, Works
<1>3. CASE Return(c) /\ UNCHANGED <<ticket, object, closed>>
  BY <1>1, <1>2, <1>3, ReturnsOut DEF RefsKept, MakersKept, AgentOfKept
<1>4. CASE ~Taken(k, n) /\ Goto(c, "confirm") /\ ticket' = [ticket EXCEPT ![k] = v] /\ object' = [object EXCEPT ![n] = w]
  <2>1. ticket \in Seq(Rows) /\ object \in Seq(Objects) /\ object[n] \in Objects /\ n \in Nat
    BY <1>1 DEF TypeInv, Shapes
  <2>2. v \in Rows /\ v.ref = n /\ v.agent = ticket[k].agent
    BY <1>1, <2>1 DEF Rows
  <2>3. w \in Objects /\ w.maker = object[n].maker /\ w.early = object[n].early /\ w.linked = TRUE
    BY <2>1 DEF Objects
  <2> HIDE DEF v, w
  <2>4. DOMAIN ticket' = DOMAIN ticket /\ \A j \in DOMAIN ticket : ticket'[j] = IF j = k THEN v ELSE ticket[j]
    BY <1>4, <2>1, <2>2, Replaced
  <2>5. DOMAIN object' = DOMAIN object /\ \A m \in DOMAIN object : object'[m] = IF m = n THEN w ELSE object[m]
    BY <1>4, <2>1, <2>3, Replaced
  <2>6. \A m \in DOMAIN object : object[m].linked \in BOOLEAN
    <3>1. \A m \in DOMAIN object : object[m] \in Objects
      BY <2>1
    <3> QED
      BY <3>1 DEF Objects
  <2>7. AgentOfKept
    BY <2>2, <2>4 DEF AgentOfKept
  <2>8. RowOf(n) \subseteq {k}
    BY <1>4 DEF Taken
  <2>9. ASSUME NEW m \in DOMAIN object
        PROVE  /\ object'[m].maker = object[m].maker /\ object'[m].early = object[m].early
               /\ object'[m].linked = (m = n \/ object[m].linked)
    <3>1. CASE m = n
      BY <2>3, <2>5, <3>1
    <3>2. CASE m # n
      BY <2>5, <2>6, <3>2
    <3> QED
      BY <3>1, <3>2
  <2>10. Binds(k, n)
    BY <2>2, <2>4, <2>5, <2>8, <2>9 DEF Binds
  <2>11. Passes(c, "confirm")
    BY <1>4, GoesTo DEF Pcs
  <2> QED
    BY <1>1, <1>2, <2>7, <2>10, <2>11
<1> QED
  BY <1>3, <1>4 DEF BindRow, BoundRef

\* A row is added, by a creation or by a sync.
RowIs(n) ==
  /\ DOMAIN ticket' = DOMAIN ticket \cup {Len(ticket) + 1} /\ Len(ticket) + 1 \notin DOMAIN ticket
  /\ Len(ticket) \in Nat /\ (\A k \in DOMAIN ticket : ticket'[k] = ticket[k])
  /\ ticket'[Len(ticket) + 1].ref = n /\ ticket'[Len(ticket) + 1].agent = 0
  /\ UNCHANGED <<scene, agent, raced, rushed>>

LEMMA CreateMoves ==
  ASSUME TypeInv, NEW c \in Jobs, CreateTicket(c)
  PROVE  /\ RowIs(0) /\ MakersKept /\ job[c].pc = "new" /\ op(c) = "create"
         /\ Single(c) /\ job'[c].pc = "make" /\ job'[c].ticket = Len(ticket) + 1
<1> DEFINE row == [ref |-> 0, status |-> "new", asked |-> None, agent |-> 0, told |-> FALSE]
           v == [job[c] EXCEPT !.pc = "make", !.ticket = Len(ticket')]
<1>1. row \in Rows /\ row.ref = 0 /\ row.agent = 0
  BY DEF Rows, Status
<1>2. /\ UNCHANGED <<scene, agent, object, raced, rushed>> /\ ticket' = Append(ticket, row)
      /\ job' = [job EXCEPT ![c] = v] /\ job[c].pc = "new" /\ op(c) = "create"
  BY DEF CreateTicket, provVars
<1> HIDE DEF row
<1>3. ticket \in Seq(Rows) /\ job[c] \in Coroutines
  BY DEF TypeInv, Shapes
<1>4. /\ DOMAIN ticket' = DOMAIN ticket \cup {Len(ticket) + 1} /\ Len(ticket) + 1 \notin DOMAIN ticket
      /\ Len(ticket) \in Nat /\ (\A k \in DOMAIN ticket : ticket'[k] = ticket[k])
      /\ ticket'[Len(ticket) + 1] = row /\ Len(ticket') = Len(ticket) + 1
  BY <1>1, <1>2, <1>3, Extended
<1>5. v.pc = "make" /\ v.ticket = Len(ticket) + 1
  BY <1>3, <1>4 DEF Coroutines
<1> HIDE DEF v
<1>6. Single(c) /\ job'[c] = v
  BY <1>2 DEF Single, TypeInv, Shapes
<1>7. RowIs(0) /\ MakersKept
  BY <1>1, <1>2, <1>4 DEF RowIs, MakersKept
<1> QED
  BY <1>2, <1>5, <1>6, <1>7

LEMMA InsertMoves ==
  ASSUME TypeInv, NEW s \in Jobs, InsertRow(s)
  PROVE  /\ RowIs(sync[s].key) /\ job[s].pc = "insert" /\ sync[s].key \in DOMAIN object /\ RowOf(sync[s].key) = {}
         /\ DOMAIN object' = DOMAIN object
         /\ \A m \in DOMAIN object :
              /\ object'[m].maker = object[m].maker /\ object'[m].linked = object[m].linked
              /\ object'[m].early = (object[m].early \/ (m = sync[s].key /\ ~object[m].linked))
         /\ Single(s)
         /\ \/ job'[s].pc \notin Traced
            \/ job'[s].pc = "auto" /\ job'[s].ticket = Len(ticket) + 1
<1> DEFINE n == sync[s].key
           row == [ref |-> n, status |-> sync[s].got, asked |-> None, agent |-> 0, told |-> FALSE]
           w == [object[n] EXCEPT !.early = object[n].early \/ ~object[n].linked]
           full == sync[s].phase = "full"
           v == [job[s] EXCEPT !.pc = IF full THEN "next" ELSE "auto", !.ticket = IF full THEN 0 ELSE Len(ticket')]
<1>1. /\ UNCHANGED <<scene, agent, raced, rushed>> /\ ticket' = Append(ticket, row) /\ job[s].pc = "insert"
      /\ object' = [object EXCEPT ![n] = w] /\ job' = [job EXCEPT ![s] = v] /\ RowOf(n) = {}
  BY DEF InsertRow
<1>2. ticket \in Seq(Rows) /\ job[s] \in Coroutines /\ object \in Seq(Objects) /\ n \in DOMAIN object
  BY <1>1, OnObject DEF AtObject, TypeInv, Shapes
<1>3. n \in Nat /\ sync[s].got \in Status
  BY <1>1, SyncOf DEF TypeInv, Synced, AtObject
<1>4. row \in Rows /\ row.ref = n /\ row.agent = 0
  BY <1>3 DEF Rows
<1>5. w \in Objects /\ w.maker = object[n].maker /\ w.linked = object[n].linked
      /\ w.early = (object[n].early \/ ~object[n].linked)
  <2>1. object[n] \in Objects /\ (object[n].early \/ ~object[n].linked) \in BOOLEAN
    BY <1>2
  <2> QED
    BY <2>1 DEF Objects
<1> HIDE DEF row, w
<1>6. /\ DOMAIN ticket' = DOMAIN ticket \cup {Len(ticket) + 1} /\ Len(ticket) + 1 \notin DOMAIN ticket
      /\ Len(ticket) \in Nat /\ (\A k \in DOMAIN ticket : ticket'[k] = ticket[k])
      /\ ticket'[Len(ticket) + 1] = row /\ Len(ticket') = Len(ticket) + 1
  BY <1>1, <1>2, <1>4, Extended
<1>7. RowIs(n)
  BY <1>1, <1>4, <1>6 DEF RowIs
<1>8. v.pc = "next" \/ (v.pc = "auto" /\ v.ticket = Len(ticket) + 1)
  BY <1>2, <1>6 DEF Coroutines
<1> HIDE DEF v
<1>9. Single(s) /\ job'[s] = v
  BY <1>1 DEF Single, TypeInv, Shapes
<1>10. DOMAIN object' = DOMAIN object /\ \A m \in DOMAIN object : object'[m] = IF m = n THEN w ELSE object[m]
  BY <1>1, <1>2, <1>5, Replaced
<1>11. ASSUME NEW m \in DOMAIN object
       PROVE  /\ object'[m].maker = object[m].maker /\ object'[m].linked = object[m].linked
              /\ object'[m].early = (object[m].early \/ (m = n /\ ~object[m].linked))
  <2>1. object[m] \in Objects
    BY <1>2
  <2>2. object[m].early \in BOOLEAN
    BY <2>1 DEF Objects
  <2>3. CASE m = n
    BY <1>5, <1>10, <2>3
  <2>4. CASE m # n
    BY <1>10, <2>2, <2>4
  <2> QED
    BY <2>3, <2>4
<1> QED
  BY <1>1, <1>2, <1>7, <1>8, <1>9, <1>10, <1>11 DEF Traced

\* Every step is one of these.
Moves(c) ==
  \/ /\ UNCHANGED provVars
     /\ \/ ClearAgent(c) \/ LinkAgent(c) \/ Spawn(c) \/ SpawnReview(c) \/ ReadTicket(c) \/ ReadWaiting(c)
        \/ Answer(c) \/ ReadForm(c) \/ StoreValues(c) \/ SubmitForm(c) \/ Resume(c) \/ LookForAgent(c)
        \/ LookForSame(c)
  \/ AutoLook(c) \/ AutoCapacity(c) \/ ConfirmRow(c) \/ MakeObject(c) \/ BindRow(c)
  \/ CreateTicket(c) \/ InsertRow(c)

LEMMA NextMoves ==
  ASSUME TypeInv, [Next]_vars
  PROVE  \/ job' = job /\ Frame /\ UNCHANGED <<raced, rushed>>
         \/ PersonCreates
         \/ Crash
         \/ \E c \in Jobs : Leaves(c) /\ Frame /\ UNCHANGED <<raced, rushed>> /\ job[c].pc # "link"
         \/ \E c \in Jobs : Moves(c)
<1>1. CASE DeskNext /\ UNCHANGED provVars
  <2>1. CASE \E c \in Jobs : Arrives(c) \/ Proceeds(c)
    <3>1. PICK c \in Jobs : Arrives(c) \/ Proceeds(c)
      BY <2>1
    <3>2. Aside(c) \/ Moves(c)
      BY <1>1, <3>1 DEF Arrives, Proceeds, Aside, Moves
    <3> QED
      BY <1>1, <3>1, <3>2, AsideLeaves
  <2>2. CASE ~\E c \in Jobs : Arrives(c) \/ Proceeds(c)
    BY <1>1, <2>2, OutsideStands
  <2> QED
    BY <2>1, <2>2
<1>2. CASE \E c \in Jobs : Syncs(c) \/ Provides(c) \/ LoadMax(c) \/ Refresh(c) \/ CreateTicket(c)
  <2>1. PICK c \in Jobs : Syncs(c) \/ Provides(c) \/ LoadMax(c) \/ Refresh(c) \/ CreateTicket(c)
    BY <1>2
  <2>2. Beyond(c) \/ Moves(c)
    BY <2>1 DEF Syncs, Provides, Beyond, Moves
  <2> QED
    BY <2>1, <2>2, BeyondLeaves
<1>3. CASE Boot
  BY <1>3, BootLeaves
<1>4. CASE (\E n \in Keys : PersonMoves(n)) \/ UNCHANGED vars
  BY <1>4, OutsideStands
<1> QED
  BY <1>1, <1>2, <1>3, <1>4 DEF Next

-----------------------------------------------------------------------------
(* One ticket for an object.  A key that was bound stays on the ticket its *)
(* object was made for as long as no other object is made for that ticket; *)
(* so a sync that finds no row for the key came before the key was bound.  *)

Only(n) == \A m \in Keys \ {n} : object[m].maker # object[n].maker
BindsOwn == \A c \in Jobs : job[c].pc = "bind" => object[job[c].key].maker = job[c].ticket
LinkedHasRow == \A n \in Keys : object[n].maker # 0 /\ object[n].linked /\ Only(n) => object[n].maker \in RowOf(n)
SecondIsEarly ==
  \A n \in Keys : \A j \in RowOf(n) : object[n].maker \in {0, j} \/ object[n].early \/ ~Only(n)
KeyInv == BindsOwn /\ LinkedHasRow /\ SecondIsEarly

LEMMA KeysStay ==
  ASSUME TypeInv, KeyInv, RefsKept, MakersKept,
         \A c \in Jobs : job'[c].pc = "bind" => job'[c] = job[c]
  PROVE  KeyInv'
<1>1. BindsOwn'
  <2> SUFFICES ASSUME NEW c \in Jobs, job'[c].pc = "bind" PROVE object'[job'[c].key].maker = job'[c].ticket
    BY DEF BindsOwn
  <2>1. job'[c] = job[c]
    OBVIOUS
  <2>2. job[c].key \in DOMAIN object
    BY <2>1 DEF TypeInv, Tied, Keys
  <2> QED
    BY <2>1, <2>2 DEF KeyInv, BindsOwn, MakersKept
<1>2. \A n \in Keys : Only(n)' <=> Only(n)
  BY DEF Only, Keys, MakersKept
<1>3. \A n \in Keys : RowOf(n)' = RowOf(n)
  BY DEF RowOf, RefsKept
<1>4. LinkedHasRow'
  BY <1>2, <1>3 DEF KeyInv, LinkedHasRow, Keys, MakersKept
<1>5. SecondIsEarly'
  BY <1>2, <1>3 DEF KeyInv, SecondIsEarly, Keys, MakersKept
<1> QED
  BY <1>1, <1>4, <1>5 DEF KeyInv

\* A new object has no row; it may end the uniqueness of an older one.
LEMMA AddedKeepsKeys ==
  ASSUME TypeInv, KeyInv, RefsKept, NEW k \in Nat, Added(Fresh("new", k)),
         Fresh("new", k).maker = k, Fresh("new", k).linked = (k = 0),
         \A c \in Jobs : job'[c].pc = "bind" =>
           job'[c] = job[c] \/ (job'[c].key = Len(object) + 1 /\ job'[c].ticket = k)
  PROVE  KeyInv'
<1>0. PICK new \in Nat : new = Len(object) + 1
  BY DEF Added
<1>1. /\ DOMAIN object' = DOMAIN object \cup {new} /\ new \notin DOMAIN object
      /\ \A n \in DOMAIN object : object'[n] = object[n]
      /\ object'[new].maker = k /\ object'[new].linked = (k = 0)
  BY <1>0 DEF Added
<1>2. RowOf(new)' = {}
  <2>1. \A j \in DOMAIN ticket : ticket[j].ref \in 0..Len(object)
    BY DEF TypeInv, Links, Linked
  <2>2. \A j \in DOMAIN ticket' : ticket'[j].ref # new
    BY <1>0, <2>1 DEF RefsKept, Added
  <2> QED
    BY <2>2 DEF RowOf
<1>3. BindsOwn'
  <2> SUFFICES ASSUME NEW c \in Jobs, job'[c].pc = "bind" PROVE object'[job'[c].key].maker = job'[c].ticket
    BY DEF BindsOwn
  <2>1. CASE job'[c] = job[c]
    <3>1. job[c].key \in DOMAIN object
      BY <2>1 DEF TypeInv, Tied, Keys
    <3> QED
      BY <1>1, <2>1, <3>1 DEF KeyInv, BindsOwn
  <2>2. CASE job'[c].key = new /\ job'[c].ticket = k
    BY <1>1, <2>2
  <2> QED
    BY <1>0, <2>1, <2>2
<1>4. \A n \in Keys : Only(n)' => Only(n)
  BY <1>1 DEF Only, Keys
<1>5. \A n \in Keys : RowOf(n)' = RowOf(n)
  BY DEF RowOf, RefsKept
<1>6. ASSUME NEW n \in Keys', object'[n].maker # 0 /\ object'[n].linked /\ Only(n)'
      PROVE  object'[n].maker \in RowOf(n)'
  <2>1. CASE n = new
    BY <1>1, <1>6, <2>1
  <2>2. CASE n \in Keys
    BY <1>1, <1>4, <1>5, <1>6, <2>2 DEF Keys, KeyInv, LinkedHasRow
  <2> QED
    BY <1>1, <2>1, <2>2 DEF Keys
<1>7. ASSUME NEW n \in Keys', NEW j \in RowOf(n)'
      PROVE  object'[n].maker \in {0, j} \/ object'[n].early \/ ~Only(n)'
  <2>1. CASE n = new
    BY <1>2, <1>7, <2>1
  <2>2. CASE n \in Keys
    BY <1>1, <1>4, <1>5, <1>7, <2>2 DEF Keys, KeyInv, SecondIsEarly
  <2> QED
    BY <1>1, <2>1, <2>2 DEF Keys
<1> QED
  BY <1>3, <1>6, <1>7 DEF KeyInv, LinkedHasRow, SecondIsEarly

LEMMA BindKeepsKeys ==
  ASSUME TypeInv, KeyInv, NEW c \in Jobs, job[c].pc = "bind", Binds(job[c].ticket, job[c].key),
         job[c].ticket \in DOMAIN ticket, job[c].key \in DOMAIN object,
         \A d \in Jobs : job'[d].pc = "bind" => job'[d] = job[d]
  PROVE  KeyInv'
<1> DEFINE k == job[c].ticket
           n == job[c].key
<1>1. object[n].maker = k
  BY DEF KeyInv, BindsOwn
<1>2. /\ RowOf(n) \subseteq {k} /\ DOMAIN ticket' = DOMAIN ticket /\ DOMAIN object' = DOMAIN object
      /\ \A j \in DOMAIN ticket : ticket'[j].ref = IF j = k THEN n ELSE ticket[j].ref
      /\ \A m \in DOMAIN object : /\ object'[m].maker = object[m].maker /\ object'[m].early = object[m].early
                                  /\ object'[m].linked = (m = n \/ object[m].linked)
  BY DEF Binds
<1>3. k \in DOMAIN ticket /\ n \in DOMAIN object
  OBVIOUS
<1> HIDE DEF k, n
<1>4. BindsOwn'
  <2> SUFFICES ASSUME NEW d \in Jobs, job'[d].pc = "bind" PROVE object'[job'[d].key].maker = job'[d].ticket
    BY DEF BindsOwn
  <2>1. job'[d] = job[d]
    OBVIOUS
  <2>2. job[d].key \in DOMAIN object
    BY <2>1 DEF TypeInv, Tied, Keys
  <2> QED
    BY <1>2, <2>1, <2>2 DEF KeyInv, BindsOwn
<1>5. \A m \in Keys : Only(m)' <=> Only(m)
  BY <1>2 DEF Only, Keys
<1>6. ASSUME NEW m \in Keys, object'[m].maker # 0, object'[m].linked, Only(m)'
      PROVE  object'[m].maker \in RowOf(m)'
  <2>1. CASE m = n
    BY <1>1, <1>2, <1>3, <2>1 DEF RowOf
  <2>2. CASE m # n
    <3>1. object[m].maker \in RowOf(m)
      BY <1>2, <1>5, <1>6, <2>2 DEF Keys, KeyInv, LinkedHasRow
    <3>2. object[m].maker # k
      BY <1>1, <1>3, <1>5, <1>6, <2>2 DEF Only, Keys
    <3> QED
      BY <1>2, <3>1, <3>2 DEF RowOf, Keys
  <2> QED
    BY <2>1, <2>2
<1>7. ASSUME NEW m \in Keys, NEW j \in RowOf(m)'
      PROVE  object'[m].maker \in {0, j} \/ object'[m].early \/ ~Only(m)'
  <2>1. CASE m = n
    <3>1. j = k
      BY <1>2, <1>7, <2>1 DEF RowOf
    <3> QED
      BY <1>1, <1>2, <1>3, <2>1, <3>1
  <2>2. CASE m # n
    <3>1. j \in RowOf(m)
      BY <1>2, <1>7, <2>2 DEF RowOf
    <3> QED
      BY <1>2, <1>5, <3>1 DEF Keys, KeyInv, SecondIsEarly
  <2> QED
    BY <2>1, <2>2
<1>8. Keys' = Keys
  BY <1>2 DEF Keys
<1> QED
  BY <1>4, <1>6, <1>7, <1>8 DEF KeyInv, LinkedHasRow, SecondIsEarly

\* A row that a sync adds: the object had none, so it was not bound either.
LEMMA InsertKeepsKeys ==
  ASSUME TypeInv, KeyInv, NEW s \in Jobs, InsertRow(s)
  PROVE  KeyInv'
<1> DEFINE n == sync[s].key
           new == Len(ticket) + 1
<1>1. /\ RowIs(n) /\ n \in DOMAIN object /\ RowOf(n) = {}
      /\ DOMAIN object' = DOMAIN object /\ Single(s)
      /\ job'[s].pc # "bind"
      /\ \A m \in DOMAIN object :
           /\ object'[m].maker = object[m].maker /\ object'[m].linked = object[m].linked
           /\ object'[m].early = (object[m].early \/ (m = n /\ ~object[m].linked))
  BY InsertMoves DEF Traced
<1>2. /\ DOMAIN ticket' = DOMAIN ticket \cup {new} /\ new \notin DOMAIN ticket
      /\ (\A j \in DOMAIN ticket : ticket'[j] = ticket[j]) /\ ticket'[new].ref = n
  BY <1>1 DEF RowIs
<1> HIDE DEF n, new
<1>3. BindsOwn'
  <2> SUFFICES ASSUME NEW d \in Jobs, job'[d].pc = "bind" PROVE object'[job'[d].key].maker = job'[d].ticket
    BY DEF BindsOwn
  <2>1. job'[d] = job[d]
    BY <1>1 DEF Single
  <2>2. job[d].key \in DOMAIN object
    BY <2>1 DEF TypeInv, Tied, Keys
  <2> QED
    BY <1>1, <2>1, <2>2 DEF KeyInv, BindsOwn
<1>4. \A m \in Keys : Only(m)' <=> Only(m)
  BY <1>1 DEF Only, Keys
<1>5. \A m \in Keys \ {n} : RowOf(m)' = RowOf(m)
  BY <1>2 DEF RowOf
<1>6. ASSUME NEW m \in Keys, object'[m].maker # 0, object'[m].linked, Only(m)'
      PROVE  object'[m].maker \in RowOf(m)'
  <2>1. object[m].maker \in RowOf(m)
    BY <1>1, <1>4, <1>6 DEF Keys, KeyInv, LinkedHasRow
  <2> QED
    BY <1>1, <1>5, <2>1 DEF Keys
<1>7. ASSUME NEW m \in Keys, NEW j \in RowOf(m)'
      PROVE  object'[m].maker \in {0, j} \/ object'[m].early \/ ~Only(m)'
  <2>1. CASE m = n
    <3>1. CASE object[m].maker = 0 \/ object[m].early \/ ~Only(m)
      BY <1>1, <1>4, <3>1 DEF Keys
    <3>2. CASE ~(object[m].maker = 0 \/ object[m].early \/ ~Only(m))
      <4>1. ~object[m].linked
        BY <1>1, <2>1, <3>2 DEF KeyInv, LinkedHasRow
      <4> QED
        BY <1>1, <2>1, <4>1
    <3> QED
      BY <3>1, <3>2
  <2>2. CASE m # n
    BY <1>1, <1>4, <1>5, <1>7, <2>2 DEF Keys, KeyInv, SecondIsEarly
  <2> QED
    BY <2>1, <2>2
<1>8. Keys' = Keys
  BY <1>1 DEF Keys
<1> QED
  BY <1>3, <1>6, <1>7, <1>8 DEF KeyInv, LinkedHasRow, SecondIsEarly

\* A local ticket is added: it carries no key.
LEMMA CreateKeepsKeys ==
  ASSUME TypeInv, KeyInv, NEW c \in Jobs, CreateTicket(c)
  PROVE  KeyInv'
<1>1. RowIs(0) /\ MakersKept /\ Single(c) /\ job'[c].pc # "bind"
  BY CreateMoves
<1>2. \A n \in Keys : n # 0
  BY DEF Keys, TypeInv, Shapes
<1>3. \A n \in Keys : RowOf(n)' = RowOf(n)
  BY <1>1, <1>2 DEF RowOf, RowIs
<1>4. BindsOwn'
  <2> SUFFICES ASSUME NEW d \in Jobs, job'[d].pc = "bind" PROVE object'[job'[d].key].maker = job'[d].ticket
    BY DEF BindsOwn
  <2>1. job'[d] = job[d]
    BY <1>1 DEF Single
  <2>2. job[d].key \in DOMAIN object
    BY <2>1 DEF TypeInv, Tied, Keys
  <2> QED
    BY <1>1, <2>1, <2>2 DEF KeyInv, BindsOwn, MakersKept
<1>5. \A n \in Keys : Only(n)' <=> Only(n)
  BY <1>1 DEF Only, Keys, MakersKept
<1> QED
  BY <1>1, <1>3, <1>4, <1>5 DEF KeyInv, LinkedHasRow, SecondIsEarly, Keys, MakersKept

LEMMA NextKeepsKeys == ASSUME TypeInv, KeyInv, [Next]_vars PROVE KeyInv'
<1>1. CASE job' = job /\ Frame
  BY <1>1, KeysStay DEF Frame
<1>2. CASE PersonCreates
  <2>1. job' = job /\ RefsKept /\ object' = Append(object, Fresh("new", 0))
    BY <1>2 DEF PersonCreates, deskVars, rows, RefsKept
  <2>2. Added(Fresh("new", 0)) /\ Fresh("new", 0).maker = 0 /\ Fresh("new", 0).linked = (0 = 0)
    BY <2>1, FreshAdded
  <2> QED
    BY <2>1, <2>2, AddedKeepsKeys
<1>3. CASE Crash
  BY <1>3, CrashMoves, KeysStay DEF Frame
<1>4. ASSUME NEW c \in Jobs, Leaves(c), Frame PROVE KeyInv'
  BY <1>4, KeysStay DEF Leaves, Single, Traced, Frame
<1>5. ASSUME NEW c \in Jobs, Moves(c) PROVE KeyInv'
  <2>1. CASE UNCHANGED provVars /\ (ClearAgent(c) \/ LinkAgent(c) \/ Spawn(c) \/ SpawnReview(c))
    <3>1. RefsKept /\ MakersKept /\ Single(c) /\ job'[c].pc # "bind"
      BY <2>1, ClearMoves, LinkMoves, SpawnMoves, ReviewMoves DEF Leaves, Traced
    <3> QED
      BY <3>1, KeysStay DEF Single
  <2>2. CASE UNCHANGED provVars /\ (ReadTicket(c) \/ ReadWaiting(c) \/ Answer(c))
    <3>1. Frame /\ Single(c) /\ job'[c].pc # "bind"
      BY <2>2, ReadTicketMoves, ReadWaitingMoves, AnswerMoves, BeginsSomewhere DEF Seen, Leaves, Passes, Traced
    <3> QED
      BY <3>1, KeysStay DEF Single, Frame
  <2>3. CASE UNCHANGED provVars /\ (ReadForm(c) \/ StoreValues(c) \/ SubmitForm(c))
    <3>1. Frame /\ Single(c) /\ job'[c].pc # "bind"
      BY <2>3, FormMoves DEF Traced
    <3> QED
      BY <3>1, KeysStay DEF Single, Frame
  <2>4. CASE UNCHANGED provVars /\ (Resume(c) \/ LookForAgent(c) \/ LookForSame(c))
    <3>1. Frame /\ Single(c) /\ job'[c].pc # "bind"
      BY <2>4, ResumeMoves, LookMoves, SameMoves DEF Leaves, Passes, Traced
    <3> QED
      BY <3>1, KeysStay DEF Single, Frame
  <2>5. CASE AutoLook(c) \/ AutoCapacity(c) \/ ConfirmRow(c)
    <3>1. Frame /\ Single(c) /\ job'[c].pc # "bind"
      BY <2>5, AutoLookMoves, AutoCapacityMoves, ConfirmMoves DEF Leaves, Passes, Traced
    <3> QED
      BY <3>1, KeysStay DEF Single, Frame
  <2>6. CASE MakeObject(c)
    <3>1. job[c].ticket \in DOMAIN ticket /\ job[c].ticket \in Nat /\ RefsKept
      BY <2>6, MakeObjectMoves DEF TypeInv, Shapes, RowsAlone
    <3>2. CASE Passes(c, "failed") /\ MakersKept
      BY <3>1, <3>2, KeysStay DEF Passes, Single
    <3>3. CASE /\ Added(Fresh("new", job[c].ticket)) /\ Single(c)
               /\ \/ job'[c].pc = "failed"
                  \/ job'[c].pc = "bind" /\ job'[c].ticket = job[c].ticket /\ job'[c].key = Len(object) + 1
      <4>1. Fresh("new", job[c].ticket).maker = job[c].ticket /\ Fresh("new", job[c].ticket).linked = (job[c].ticket = 0)
        BY DEF Fresh
      <4>2. \A d \in Jobs : job'[d].pc = "bind" =>
              job'[d] = job[d] \/ (job'[d].key = Len(object) + 1 /\ job'[d].ticket = job[c].ticket)
        BY <3>3 DEF Single
      <4>3. PICK k \in Nat : k = job[c].ticket
        BY <3>1
      <4> QED
        BY <3>1, <3>3, <4>1, <4>2, <4>3, AddedKeepsKeys
    <3> QED
      BY <2>6, <3>2, <3>3, MakeObjectMoves DEF Passes
  <2>7. CASE BindRow(c)
    <3>1. CASE Leaves(c) /\ RefsKept /\ MakersKept
      BY <3>1, KeysStay DEF Leaves, Single, Traced
    <3>2. CASE Passes(c, "confirm") /\ Binds(job[c].ticket, job[c].key)
      BY <2>7, <3>2, BindMoves, BindKeepsKeys DEF Passes, Single
    <3> QED
      BY <2>7, <3>1, <3>2, BindMoves
  <2> QED
    BY <1>5, <2>1, <2>2, <2>3, <2>4, <2>5, <2>6, <2>7, CreateKeepsKeys, InsertKeepsKeys DEF Moves
<1> QED
  BY <1>1, <1>2, <1>3, <1>4, <1>5, NextMoves

\* However the creation of an object, the pushes of local tickets, the syncs and the
\* requests that fail after they took effect fall together, an object made for a ticket
\* is not shown as a second one, unless a sync met it before the ticket had its key or
\* the ticket was pushed again.
THEOREM OneTicket == Spec => []OneTicketPerObject
<1>1. Init => KeyInv
  <2> SUFFICES ASSUME Init PROVE KeyInv
    OBVIOUS
  <2>1. \A c \in Jobs : job[c].pc \in {"new", "done"}
    <3>1. \A c \in Jobs : job[c] = [NoJob EXCEPT !.pc = IF op(c) = "none" THEN "done" ELSE "new"]
      BY DEF Init, DeskInit
    <3>2. \A pc : [NoJob EXCEPT !.pc = pc].pc = pc
      BY DEF NoJob
    <3> QED
      BY <3>1, <3>2
  <2>2. \A n \in Keys : object[n].maker = 0
    BY DEF Init, Keys, Fresh
  <2> QED
    BY <2>1, <2>2 DEF KeyInv, BindsOwn, LinkedHasRow, SecondIsEarly
<1>2. TypeInv /\ KeyInv /\ [Next]_vars => KeyInv'
  BY NextKeepsKeys
<1>3. KeyInv => OneTicketPerObject
  <2> SUFFICES ASSUME KeyInv, NEW n \in Keys, object[n].maker # 0, RowOf(n) \ {object[n].maker} # {}
               PROVE  object[n].early \/ \E m \in Keys \ {n} : object[m].maker = object[n].maker
    BY DEF OneTicketPerObject
  <2>1. PICK j \in RowOf(n) : j # object[n].maker
    OBVIOUS
  <2> QED
    BY <2>1 DEF KeyInv, SecondIsEarly, Only
<1> QED
  BY <1>1, <1>2, <1>3, Typed, PTL DEF Spec

-----------------------------------------------------------------------------
(* One agent for a ticket.  Of two coroutines that are past the read that  *)
(* lets them spawn, the one that read last has seen the other: the ticket  *)
(* is raced.  On any other ticket the read still holds when the agent is   *)
(* spawned, and the ticket knows its agent or is about to.                 *)

Past(c) == job[c].pc \in {"capacity", "spawn", "link", "resume"} \/ (job[c].pc = "answer" /\ op(c) # "chat")
PastOn(c, k) == Past(c) /\ job[c].ticket = k
LinkingOn(c, k) == job[c].pc = "link" /\ job[c].ticket = k

\* What coroutine c has read of ticket k's agents holds still.
Finds(c, k) ==
  /\ job[c].pc \in {"capacity", "spawn"} => AtWork(k) = {}
  /\ job[c].pc = "link" => AtWork(k) \subseteq {job[c].agent}
  /\ job[c].pc \in {"answer", "resume"} => job[c].agent = 0 \/ AtWork(k) \subseteq {job[c].agent}
\* The ticket knows the agent at work on it, or the coroutine that spawned it does.
Knows(k) ==
  \A x \in AtWork(k) : ticket[k].agent \in {0, x} \/ \E c \in Jobs : LinkingOn(c, k) /\ job[c].agent = x
AloneOn(k) ==
  /\ \A c, d \in Jobs : PastOn(c, k) /\ PastOn(d, k) => c = d
  /\ \A c \in Jobs : PastOn(c, k) => Finds(c, k)
  /\ Knows(k)
  /\ \A x, y \in AtWork(k) : x = y
\* Only a postmortem is spawned beside the agents at work.
Reviews == \A c \in Jobs : job[c].pc = "review" => op(c) = "postmortem"
AgentInv == Reviews /\ \A k \in DOMAIN ticket \ raced : AloneOn(k)

\* A coroutine that does not link comes past the read only with nobody else there.
Fits(d, k) ==
  /\ ~LinkingOn(d, k)
  /\ PastOn(d, k)' => /\ Finds(d, k)'
                      /\ \A e \in Jobs \ {d} : job'[e] = job[e] /\ ~PastOn(e, k)

LEMMA AloneStays ==
  ASSUME NEW k, AloneOn(k), scene' = scene, AtWork(k)' \subseteq AtWork(k),
         ticket'[k].agent \in {0, ticket[k].agent},
         \A d \in Jobs : job'[d] = job[d] \/ Fits(d, k)
  PROVE  AloneOn(k)'
<1>1. ASSUME NEW d \in Jobs, job'[d] = job[d]
      PROVE  (PastOn(d, k)' <=> PastOn(d, k)) /\ (LinkingOn(d, k)' <=> LinkingOn(d, k))
  BY <1>1 DEF PastOn, Past, LinkingOn, op
<1>2. ASSUME NEW c \in Jobs, NEW d \in Jobs, PastOn(c, k)', PastOn(d, k)', c # d PROVE FALSE
  <2>1. CASE job'[c] = job[c] /\ job'[d] = job[d]
    BY <1>1, <1>2, <2>1 DEF AloneOn
  <2>2. CASE Fits(c, k)
    <3>1. job'[d] = job[d] /\ ~PastOn(d, k)
      BY <1>2, <2>2 DEF Fits
    <3> QED
      BY <1>1, <1>2, <3>1
  <2>3. CASE Fits(d, k)
    <3>1. job'[c] = job[c] /\ ~PastOn(c, k)
      BY <1>2, <2>3 DEF Fits
    <3> QED
      BY <1>1, <1>2, <3>1
  <2> QED
    BY <2>1, <2>2, <2>3
<1>3. ASSUME NEW c \in Jobs, PastOn(c, k)' PROVE Finds(c, k)'
  <2>1. CASE job'[c] = job[c]
    <3>1. Finds(c, k)
      BY <1>1, <1>3, <2>1 DEF AloneOn
    <3> QED
      BY <2>1, <3>1 DEF Finds
  <2>2. CASE Fits(c, k)
    BY <1>3, <2>2 DEF Fits
  <2> QED
    BY <2>1, <2>2
<1>4. ASSUME NEW x \in AtWork(k)'
      PROVE  ticket'[k].agent \in {0, x} \/ \E c \in Jobs : LinkingOn(c, k)' /\ job'[c].agent = x
  <2>1. x \in AtWork(k)
    BY <1>4
  <2>2. CASE ticket[k].agent \in {0, x}
    BY <2>2
  <2>3. CASE \E c \in Jobs : LinkingOn(c, k) /\ job[c].agent = x
    <3>1. PICK c \in Jobs : LinkingOn(c, k) /\ job[c].agent = x
      BY <2>3
    <3>2. job'[c] = job[c]
      BY <3>1 DEF Fits
    <3> QED
      BY <1>1, <3>1, <3>2
  <2> QED
    BY <2>1, <2>2, <2>3 DEF AloneOn, Knows
<1>5. \A x, y \in AtWork(k)' : x = y
  BY DEF AloneOn
<1>6. Knows(k)'
  BY <1>4 DEF Knows
<1> QED
  BY <1>2, <1>3, <1>5, <1>6 DEF AloneOn

LEMMA NoMoreAtWork ==
  ASSUME AgentsRest, NEW k
  PROVE  AtWork(k)' \subseteq AtWork(k)
  BY DEF AtWork, AgentsRest, Works

LEMMA NobodyPast ==
  ASSUME NEW c \in Jobs, NEW k, ~Overlapping(c, k)
  PROVE  \A e \in Jobs \ {c} : ~PastOn(e, k)
  BY DEF Overlapping, MaySpawn, PastOn, Past

\* Without a race, the coroutine that reads is alone.
LEMMA Unraced ==
  ASSUME TypeInv, NEW c \in Jobs, NEW k \in DOMAIN ticket, Racing(c, k), k \notin raced'
  PROVE  k \notin raced /\ \A e \in Jobs \ {c} : ~PastOn(e, k)
<1>1. ~Overlapping(c, k) /\ k \notin raced
  BY DEF Racing
<1> QED
  BY <1>1, NobodyPast

\* With nobody linking, the ticket knows the agent at work on it.
LEMMA KnownAgent ==
  ASSUME NEW k, AloneOn(k), NEW c \in Jobs, ~LinkingOn(c, k), \A e \in Jobs \ {c} : ~PastOn(e, k)
  PROVE  ticket[k].agent = 0 \/ AtWork(k) \subseteq {ticket[k].agent}
<1>1. \A e \in Jobs : ~LinkingOn(e, k)
  BY DEF LinkingOn, PastOn, Past
<1> QED
  BY <1>1 DEF AloneOn, Knows

\* A coroutine that moves to where it cannot spawn.
LEMMA FitsOut ==
  ASSUME NEW k, NEW c \in Jobs, Single(c), ~Past(c)', ~LinkingOn(c, k)
  PROVE  \A d \in Jobs : job'[d] = job[d] \/ Fits(d, k)
  BY DEF Single, Fits, PastOn

LEMMA FitsIn ==
  ASSUME NEW k, NEW c \in Jobs, Single(c), ~LinkingOn(c, k),
         PastOn(c, k)' => Finds(c, k)' /\ \A e \in Jobs \ {c} : ~PastOn(e, k)
  PROVE  \A d \in Jobs : job'[d] = job[d] \/ Fits(d, k)
  BY DEF Single, Fits

LEMMA ReadersStayAlone ==
  ASSUME TypeInv, AgentInv, NEW c \in Jobs, NEW k \in DOMAIN ticket', k \notin raced', UNCHANGED provVars,
         ReadTicket(c) \/ ReadWaiting(c)
  PROVE  AloneOn(k)'
<1>1. CASE ReadTicket(c)
  <2> DEFINE j == scene.orders[c].ticket
  <2>1. /\ Frame /\ Seen(c, j, Begins(c)) /\ j \in DOMAIN ticket /\ job[c].pc = "new"
        /\ Begins(c) \in {"change", "resolve", "note", "form", "answer", "look", "drop", "same", "make"}
        /\ Begins(c) = "answer" => op(c) \in {"respond", "chat"}
        /\ IF op(c) = "respond" THEN Racing(c, j) ELSE raced' = raced
    BY <1>1, ReadTicketMoves, BeginsSomewhere
  <2>2. k \in DOMAIN ticket /\ k \notin raced /\ AloneOn(k)
    BY <2>1 DEF Frame, RefsKept, Racing, AgentInv
  <2>3. Single(c) /\ job'[c].pc = Begins(c) /\ job'[c].ticket = j /\ job'[c].agent = ticket[j].agent
    BY <2>1 DEF Seen
  <2>4. scene' = scene /\ AtWork(k)' \subseteq AtWork(k) /\ ticket'[k].agent \in {0, ticket[k].agent}
    BY <2>1, <2>2, NoMoreAtWork DEF Frame, AgentOfKept
  <2>5. ~LinkingOn(c, k)
    BY <2>1 DEF LinkingOn
  <2>6. ASSUME PastOn(c, k)' PROVE Finds(c, k)' /\ \A e \in Jobs \ {c} : ~PastOn(e, k)
    <3>1. job'[c].pc = "answer" /\ op(c) = "respond" /\ j = k
      BY <2>1, <2>3, <2>4, <2>6 DEF PastOn, Past, op
    <3>2. \A e \in Jobs \ {c} : ~PastOn(e, k)
      BY <2>1, <2>2, <3>1, Unraced
    <3>3. ticket[k].agent = 0 \/ AtWork(k) \subseteq {ticket[k].agent}
      BY <2>2, <2>5, <3>2, KnownAgent
    <3> QED
      BY <2>3, <2>4, <3>1, <3>2, <3>3 DEF Finds
  <2>7. \A d \in Jobs : job'[d] = job[d] \/ Fits(d, k)
    BY <2>3, <2>5, <2>6, FitsIn
  <2> QED
    BY <2>2, <2>4, <2>7, AloneStays
<1>2. CASE ReadWaiting(c)
  <2>1. /\ Frame /\ job[c].pc = "waiting"
        /\ \/ Leaves(c) /\ raced' = raced
           \/ \E j \in DOMAIN ticket : Seen(c, j, "answer") /\ Racing(c, j)
    BY <1>2, ReadWaitingMoves
  <2>2. k \in DOMAIN ticket /\ k \notin raced /\ AloneOn(k)
    BY <2>1 DEF Frame, RefsKept, Racing, AgentInv
  <2>3. scene' = scene /\ AtWork(k)' \subseteq AtWork(k) /\ ticket'[k].agent \in {0, ticket[k].agent}
    BY <2>1, <2>2, NoMoreAtWork DEF Frame, AgentOfKept
  <2>4. ~LinkingOn(c, k)
    BY <2>1 DEF LinkingOn
  <2>5. CASE Leaves(c)
    <3>1. Single(c) /\ ~Past(c)'
      BY <2>5 DEF Leaves, Past, Traced
    <3> QED
      BY <2>2, <2>3, <2>4, <3>1, FitsOut, AloneStays
  <2>6. ASSUME NEW j \in DOMAIN ticket, Seen(c, j, "answer"), Racing(c, j) PROVE AloneOn(k)'
    <3>1. Single(c) /\ job'[c].pc = "answer" /\ job'[c].ticket = j /\ job'[c].agent = ticket[j].agent
      BY <2>6 DEF Seen
    <3>2. ASSUME PastOn(c, k)' PROVE Finds(c, k)' /\ \A e \in Jobs \ {c} : ~PastOn(e, k)
      <4>1. j = k
        BY <3>1, <3>2 DEF PastOn
      <4>2. \A e \in Jobs \ {c} : ~PastOn(e, k)
        BY <2>2, <2>6, <4>1, Unraced
      <4>3. ticket[k].agent = 0 \/ AtWork(k) \subseteq {ticket[k].agent}
        BY <2>2, <2>4, <4>2, KnownAgent
      <4> QED
        BY <2>3, <3>1, <4>1, <4>2, <4>3 DEF Finds
    <3>3. \A d \in Jobs : job'[d] = job[d] \/ Fits(d, k)
      BY <2>4, <3>1, <3>2, FitsIn
    <3> QED
      BY <2>2, <2>3, <3>3, AloneStays
  <2> QED
    BY <2>1, <2>5, <2>6
<1> QED
  BY <1>1, <1>2

\* A coroutine that has looked for an agent, or whose agent has ended by now.
LEMMA LookersStayAlone ==
  ASSUME TypeInv, AgentInv, NEW c \in Jobs, NEW k \in DOMAIN ticket', k \notin raced',
         \/ UNCHANGED provVars /\ (Answer(c) \/ Resume(c) \/ LookForAgent(c) \/ LookForSame(c))
         \/ AutoLook(c) \/ AutoCapacity(c)
  PROVE  AloneOn(k)'
<1> DEFINE j == job[c].ticket
<1>1. Frame /\ job[c].pc # "link" /\ raced \subseteq raced'
  BY AnswerMoves, ResumeMoves, LookMoves, SameMoves, AutoLookMoves, AutoCapacityMoves DEF Racing
<1>2. k \in DOMAIN ticket /\ k \notin raced /\ AloneOn(k)
  BY <1>1 DEF Frame, RefsKept, AgentInv
<1>3. scene' = scene /\ AtWork(k)' \subseteq AtWork(k) /\ ticket'[k].agent \in {0, ticket[k].agent}
  BY <1>1, <1>2, NoMoreAtWork DEF Frame, AgentOfKept
<1>4. ~LinkingOn(c, k)
  BY <1>1 DEF LinkingOn
<1>5. CASE Leaves(c)
  <2>1. Single(c) /\ ~Past(c)'
    BY <1>5 DEF Leaves, Past, Traced
  <2> QED
    BY <1>2, <1>3, <1>4, <2>1, FitsOut, AloneStays
<1>6. ASSUME NEW pc, Passes(c, pc), PastOn(c, k)' => Finds(c, k)' /\ \A e \in Jobs \ {c} : ~PastOn(e, k)
      PROVE  AloneOn(k)'
  <2>1. \A d \in Jobs : job'[d] = job[d] \/ Fits(d, k)
    BY <1>4, <1>6, FitsIn DEF Passes
  <2> QED
    BY <1>2, <1>3, <2>1, AloneStays
<1>7. CASE UNCHANGED provVars /\ Answer(c)
  <2>1. job[c].pc = "answer" /\ Passes(c, IF op(c) = "chat" THEN "look" ELSE "resume")
    BY <1>7, AnswerMoves
  <2>2. ASSUME PastOn(c, k)' PROVE Finds(c, k)' /\ \A e \in Jobs \ {c} : ~PastOn(e, k)
    <3>1. op(c) # "chat" /\ job'[c].pc = "resume" /\ job'[c].agent = job[c].agent /\ j = k
      BY <1>3, <2>1, <2>2 DEF Passes, PastOn, Past, op
    <3>2. PastOn(c, k)
      BY <2>1, <3>1 DEF PastOn, Past
    <3>3. Finds(c, k) /\ \A e \in Jobs \ {c} : ~PastOn(e, k)
      BY <1>2, <3>2 DEF AloneOn
    <3> QED
      BY <1>3, <2>1, <3>1, <3>3 DEF Finds
  <2> QED
    BY <1>6, <2>1, <2>2
<1>8. CASE UNCHANGED provVars /\ Resume(c)
  <2>1. job[c].pc = "resume" /\ (Leaves(c) \/ (Passes(c, "spawn") /\ job[c].agent # 0 /\ ~agent[job[c].agent].runs))
    BY <1>8, ResumeMoves
  <2>2. ASSUME Passes(c, "spawn"), job[c].agent # 0, ~agent[job[c].agent].runs, PastOn(c, k)'
        PROVE  Finds(c, k)' /\ \A e \in Jobs \ {c} : ~PastOn(e, k)
    <3>1. PastOn(c, k) /\ job'[c].pc = "spawn"
      BY <2>1, <2>2 DEF PastOn, Past, Passes
    <3>2. Finds(c, k) /\ \A e \in Jobs \ {c} : ~PastOn(e, k)
      BY <1>2, <3>1 DEF AloneOn
    <3>3. AtWork(k) = {}
      BY <2>1, <2>2, <3>2 DEF Finds, AtWork, Works
    <3> QED
      BY <1>3, <3>1, <3>2, <3>3 DEF Finds
  <2> QED
    BY <1>5, <1>6, <2>1, <2>2
<1>9. CASE (UNCHANGED provVars /\ LookForAgent(c)) \/ AutoLook(c)
  <2>1. PICK pc \in {"spawn", "capacity"} : Racing(c, j) /\ (Leaves(c) \/ (Passes(c, pc) /\ AtWork(j) = {}))
    BY <1>9, LookMoves, AutoLookMoves
  <2>2. ASSUME Passes(c, pc), AtWork(j) = {}, PastOn(c, k)'
        PROVE  Finds(c, k)' /\ \A e \in Jobs \ {c} : ~PastOn(e, k)
    <3>1. j = k /\ job'[c].pc = pc
      BY <2>2 DEF PastOn, Passes
    <3>2. \A e \in Jobs \ {c} : ~PastOn(e, k)
      BY <1>2, <2>1, <3>1, Unraced
    <3> QED
      BY <1>3, <2>2, <3>1, <3>2 DEF Finds
  <2> QED
    BY <1>5, <1>6, <2>1, <2>2
<1>10. CASE AutoCapacity(c)
  <2>1. job[c].pc = "capacity" /\ (Leaves(c) \/ Passes(c, "spawn"))
    BY <1>10, AutoCapacityMoves
  <2>2. ASSUME Passes(c, "spawn"), PastOn(c, k)' PROVE Finds(c, k)' /\ \A e \in Jobs \ {c} : ~PastOn(e, k)
    <3>1. PastOn(c, k) /\ job'[c].pc = "spawn"
      BY <2>1, <2>2 DEF PastOn, Past, Passes
    <3>2. Finds(c, k) /\ \A e \in Jobs \ {c} : ~PastOn(e, k)
      BY <1>2, <3>1 DEF AloneOn
    <3> QED
      BY <1>3, <2>1, <3>1, <3>2 DEF Finds
  <2> QED
    BY <1>5, <1>6, <2>1, <2>2
<1>11. CASE UNCHANGED provVars /\ LookForSame(c)
  <2>1. \/ Leaves(c)
        \/ Passes(c, "review")
        \/ Passes(c, "spawn") /\ (j \in raced' \/ (~Overlapping(c, j) /\ AtWork(j) = {}))
    BY <1>11, SameMoves
  <2>2. Passes(c, "review") => ~PastOn(c, k)'
    BY DEF Passes, PastOn, Past
  <2>3. ASSUME Passes(c, "spawn"), j \in raced' \/ (~Overlapping(c, j) /\ AtWork(j) = {}), PastOn(c, k)'
        PROVE  Finds(c, k)' /\ \A e \in Jobs \ {c} : ~PastOn(e, k)
    <3>1. j = k /\ job'[c].pc = "spawn"
      BY <2>3 DEF PastOn, Passes
    <3>2. AtWork(k) = {} /\ \A e \in Jobs \ {c} : ~PastOn(e, k)
      BY <2>3, <3>1, NobodyPast
    <3> QED
      BY <1>3, <3>1, <3>2 DEF Finds
  <2> QED
    BY <1>5, <1>6, <2>1, <2>2, <2>3
<1> QED
  BY <1>7, <1>8, <1>9, <1>10, <1>11

\* A postmortem's agent is not counted.
LEMMA ReviewStaysAlone ==
  ASSUME TypeInv, AgentInv, NEW c \in Jobs, NEW k \in DOMAIN ticket', k \notin raced', UNCHANGED provVars, SpawnReview(c)
  PROVE  AloneOn(k)'
<1>1. PICK new : new = Len(agent) + 1
  OBVIOUS
<1>2. /\ Leaves(c) /\ scene' = scene /\ raced' = raced /\ job[c].pc = "review" /\ RefsKept /\ AgentOfKept
      /\ DOMAIN agent' = DOMAIN agent \cup {new} /\ \A x \in DOMAIN agent : agent'[x] = agent[x]
      /\ agent'[new].by = op(c)
  BY <1>1, ReviewMoves
<1>3. op(c) = "postmortem" /\ k \in DOMAIN ticket /\ AloneOn(k)
  BY <1>2 DEF AgentInv, Reviews, RefsKept
<1>4. AtWork(k)' \subseteq AtWork(k)
  BY <1>2, <1>3 DEF AtWork, Works
<1>5. Single(c) /\ ~Past(c)' /\ ~LinkingOn(c, k)
  BY <1>2 DEF Leaves, Past, Traced, LinkingOn
<1>6. \A d \in Jobs : job'[d] = job[d] \/ Fits(d, k)
  BY <1>5, FitsOut
<1> QED
  BY <1>2, <1>3, <1>4, <1>6, AloneStays DEF AgentOfKept

\* The agent is spawned on a ticket that has none, and then the ticket learns of it.
LEMMA SpawnStaysAlone ==
  ASSUME TypeInv, AgentInv, NEW c \in Jobs, NEW k \in DOMAIN ticket', k \notin raced', UNCHANGED provVars, Spawn(c)
  PROVE  AloneOn(k)'
<1>1. /\ scene' = scene /\ raced' = raced /\ job[c].pc = "spawn" /\ RefsKept /\ AgentOfKept
      /\ Single(c) /\ job'[c].pc = "link" /\ job'[c].ticket = job[c].ticket /\ job'[c].agent = Len(agent) + 1
      /\ DOMAIN agent' = DOMAIN agent \cup {Len(agent) + 1} /\ Len(agent) + 1 \notin DOMAIN agent
      /\ \A x \in DOMAIN agent : agent'[x] = agent[x]
      /\ agent'[Len(agent) + 1].ticket = job[c].ticket
  BY SpawnMoves
<1>2. k \in DOMAIN ticket /\ AloneOn(k)
  BY <1>1 DEF RefsKept, AgentInv
<1>3. PICK new : new = Len(agent) + 1
  OBVIOUS
<1>4. ~LinkingOn(c, k)
  BY <1>1 DEF LinkingOn
<1>5. CASE job[c].ticket # k
  <2>1. AtWork(k)' \subseteq AtWork(k)
    BY <1>1, <1>5 DEF AtWork, Works
  <2>2. ~PastOn(c, k)'
    BY <1>1, <1>5 DEF PastOn
  <2>3. \A d \in Jobs : job'[d] = job[d] \/ Fits(d, k)
    BY <1>1, <1>4, <2>2, FitsIn
  <2> QED
    BY <1>1, <1>2, <2>1, <2>3, AloneStays DEF AgentOfKept
<1>6. CASE job[c].ticket = k
  <2>1. PastOn(c, k)
    BY <1>1, <1>6 DEF PastOn, Past
  <2>2. AtWork(k) = {} /\ \A e \in Jobs \ {c} : ~PastOn(e, k)
    BY <1>1, <1>2, <2>1 DEF AloneOn, Finds
  <2>3. AtWork(k)' \subseteq {new}
    BY <1>1, <1>3, <2>2 DEF AtWork, Works
  <2>4. ASSUME NEW e \in Jobs \ {c} PROVE ~PastOn(e, k)'
    BY <1>1, <2>2 DEF PastOn, Past, Single, op
  <2>5. Finds(c, k)' /\ LinkingOn(c, k)' /\ job'[c].agent = new
    BY <1>1, <1>3, <1>6, <2>3 DEF Finds, LinkingOn
  <2>6. Knows(k)'
    BY <2>3, <2>5 DEF Knows
  <2> QED
    BY <2>3, <2>4, <2>5, <2>6 DEF AloneOn
<1> QED
  BY <1>5, <1>6

LEMMA LinkStaysAlone ==
  ASSUME TypeInv, AgentInv, NEW c \in Jobs, NEW k \in DOMAIN ticket', k \notin raced', UNCHANGED provVars, LinkAgent(c)
  PROVE  AloneOn(k)'
<1>1. /\ Leaves(c) /\ scene' = scene /\ raced' = raced /\ job[c].pc = "link" /\ RefsKept /\ AgentsRest
      /\ \A j \in DOMAIN ticket : ticket'[j].agent = IF j = job[c].ticket THEN job[c].agent ELSE ticket[j].agent
  BY LinkMoves
<1>2. k \in DOMAIN ticket /\ AloneOn(k) /\ AtWork(k)' \subseteq AtWork(k)
  BY <1>1, NoMoreAtWork DEF RefsKept, AgentInv
<1>3. Single(c) /\ ~Past(c)'
  BY <1>1 DEF Leaves, Past, Traced
<1>4. CASE job[c].ticket # k
  <2>1. \A d \in Jobs : job'[d] = job[d] \/ Fits(d, k)
    BY <1>3, <1>4, FitsOut DEF LinkingOn
  <2> QED
    BY <1>1, <1>2, <1>4, <2>1, AloneStays
<1>5. CASE job[c].ticket = k
  <2>1. PastOn(c, k)
    BY <1>1, <1>5 DEF PastOn, Past
  <2>2. AtWork(k) \subseteq {job[c].agent} /\ \A e \in Jobs \ {c} : ~PastOn(e, k)
    BY <1>1, <1>2, <2>1 DEF AloneOn, Finds
  <2>3. ASSUME NEW e \in Jobs PROVE ~PastOn(e, k)'
    <3>1. CASE e = c
      BY <1>3, <3>1 DEF PastOn
    <3>2. CASE e # c
      BY <1>1, <1>3, <2>2, <3>2 DEF PastOn, Past, Single, op
    <3> QED
      BY <3>1, <3>2
  <2>4. Knows(k)'
    BY <1>1, <1>2, <1>5, <2>2 DEF Knows
  <2> QED
    BY <1>2, <2>2, <2>3, <2>4 DEF AloneOn
<1> QED
  BY <1>4, <1>5

\* A ticket that is added has no agent, and nobody at work on it has looked for one.
LEMMA AddedIsAlone ==
  ASSUME TypeInv, AgentInv, NEW c \in Jobs, NEW k \in DOMAIN ticket', k \notin raced', CreateTicket(c) \/ InsertRow(c)
  PROVE  AloneOn(k)'
<1>1. PICK n : RowIs(n) /\ Single(c) /\ ~Past(c)' /\ job[c].pc # "link"
  <2>1. CASE CreateTicket(c)
    BY <2>1, CreateMoves DEF Past
  <2>2. CASE InsertRow(c)
    BY <2>2, InsertMoves DEF Past, Traced
  <2> QED
    BY <2>1, <2>2
<1>2. /\ DOMAIN ticket' = DOMAIN ticket \cup {Len(ticket) + 1} /\ raced' = raced /\ agent' = agent /\ scene' = scene
      /\ \A j \in DOMAIN ticket : ticket'[j] = ticket[j]
      /\ Len(ticket) \in Nat
  BY <1>1 DEF RowIs
<1>3. AtWork(k)' = AtWork(k) /\ ~LinkingOn(c, k)
  BY <1>1, <1>2 DEF AtWork, Works, LinkingOn
<1>4. CASE k \in DOMAIN ticket
  <2>1. AloneOn(k) /\ ticket'[k].agent = ticket[k].agent
    BY <1>2, <1>4 DEF AgentInv
  <2> QED
    BY <1>1, <1>2, <1>3, <2>1, FitsOut, AloneStays
<1>5. CASE k = Len(ticket) + 1
  <2>1. k \notin DOMAIN ticket /\ \A d \in Jobs : job[d].ticket # k
    BY <1>2, <1>5 DEF TypeInv, Tied, Shapes
  <2>2. AtWork(k)' = {}
    BY <1>3, <2>1 DEF AtWork, Works, TypeInv, Links
  <2>3. ASSUME NEW d \in Jobs PROVE ~PastOn(d, k)'
    <3>1. CASE d = c
      BY <1>1, <3>1 DEF PastOn
    <3>2. CASE d # c
      BY <1>1, <2>1, <3>2 DEF PastOn, Single
    <3> QED
      BY <3>1, <3>2
  <2> QED
    BY <2>2, <2>3 DEF AloneOn, Knows
<1> QED
  BY <1>2, <1>4, <1>5

\* The other steps: nobody comes past a read, and rows and agents are not added.
LEMMA OthersStayAlone ==
  ASSUME TypeInv, AgentInv, scene' = scene, RefsKept, AgentsRest, NEW k \in DOMAIN ticket', k \notin raced',
         raced \subseteq raced', \A j \in DOMAIN ticket : ticket'[j].agent \in {0, ticket[j].agent},
         \A d \in Jobs : job'[d] = job[d] \/ (~Past(d)' /\ ~LinkingOn(d, k))
  PROVE  AloneOn(k)'
<1>1. k \in DOMAIN ticket /\ AloneOn(k) /\ AtWork(k)' \subseteq AtWork(k)
  BY NoMoreAtWork DEF RefsKept, AgentInv
<1>2. \A d \in Jobs : job'[d] = job[d] \/ Fits(d, k)
  BY DEF Fits, PastOn
<1> QED
  BY <1>1, <1>2, AloneStays

LEMMA ReviewsRest ==
  ASSUME Reviews, scene' = scene, NEW c \in Jobs, Single(c), job'[c].pc # "review" \/ op(c) = "postmortem"
  PROVE  Reviews'
  BY DEF Reviews, Single, op

LEMMA ReviewsStay == ASSUME TypeInv, Reviews, [Next]_vars PROVE Reviews'
<1>1. CASE job' = job /\ scene' = scene
  BY <1>1 DEF Reviews, op
<1>2. CASE Crash
  BY <1>2, CrashMoves DEF Reviews
<1>3. ASSUME NEW c \in Jobs, Leaves(c), scene' = scene PROVE Reviews'
  BY <1>3, ReviewsRest DEF Leaves, Traced
<1>4. ASSUME NEW c \in Jobs, Moves(c) PROVE Reviews'
  <2>1. CASE UNCHANGED provVars /\ (ClearAgent(c) \/ LinkAgent(c) \/ SpawnReview(c))
    BY <1>3, <2>1, ClearMoves, LinkMoves, ReviewMoves
  <2>2. CASE UNCHANGED provVars /\ (Spawn(c) \/ ReadTicket(c) \/ ReadWaiting(c))
    <3>1. Leaves(c) \/ (Single(c) /\ job'[c].pc # "review")
      BY <2>2, SpawnMoves, ReadTicketMoves, ReadWaitingMoves, BeginsSomewhere DEF Seen
    <3>2. scene' = scene
      BY <2>2, SpawnMoves, ReadTicketMoves, ReadWaitingMoves DEF Frame
    <3> QED
      BY <1>3, <3>1, <3>2, ReviewsRest
  <2>3. CASE UNCHANGED provVars /\ (ReadForm(c) \/ StoreValues(c) \/ SubmitForm(c))
    <3>1. Frame /\ Single(c) /\ job'[c].pc # "review"
      BY <2>3, FormMoves DEF Traced
    <3> QED
      BY <3>1, ReviewsRest DEF Frame
  <2>4. CASE UNCHANGED provVars /\ (Answer(c) \/ Resume(c) \/ LookForAgent(c) \/ LookForSame(c))
    <3>1. Frame /\ (Leaves(c) \/ (Single(c) /\ (job'[c].pc # "review" \/ op(c) = "postmortem")))
      BY <2>4, AnswerMoves, ResumeMoves, LookMoves, SameMoves DEF Passes
    <3> QED
      BY <1>3, <3>1, ReviewsRest DEF Frame
  <2>5. CASE AutoLook(c) \/ AutoCapacity(c) \/ ConfirmRow(c)
    <3>1. Frame /\ (Leaves(c) \/ (Single(c) /\ job'[c].pc # "review"))
      BY <2>5, AutoLookMoves, AutoCapacityMoves, ConfirmMoves DEF Passes
    <3> QED
      BY <1>3, <3>1, ReviewsRest DEF Frame
  <2>6. CASE MakeObject(c) \/ BindRow(c)
    <3>1. scene' = scene /\ (Leaves(c) \/ (Single(c) /\ job'[c].pc # "review"))
      BY <2>6, MakeObjectMoves, BindMoves DEF Passes, RowsAlone
    <3> QED
      BY <1>3, <3>1, ReviewsRest
  <2>7. CASE CreateTicket(c) \/ InsertRow(c)
    <3>1. scene' = scene /\ Single(c) /\ job'[c].pc # "review"
      BY <2>7, CreateMoves, InsertMoves DEF RowIs, Traced
    <3> QED
      BY <3>1, ReviewsRest
  <2> QED
    BY <1>4, <2>1, <2>2, <2>3, <2>4, <2>5, <2>6, <2>7 DEF Moves
<1> QED
  BY <1>1, <1>2, <1>3, <1>4, NextMoves DEF Frame, PersonCreates, deskVars

LEMMA NextStaysAlone == ASSUME TypeInv, AgentInv, [Next]_vars PROVE AgentInv'
<1>0. Reviews'
  BY ReviewsStay DEF AgentInv
<1> SUFFICES ASSUME NEW k \in DOMAIN ticket', k \notin raced' PROVE AloneOn(k)'
  BY <1>0 DEF AgentInv
<1>1. CASE job' = job /\ Frame /\ UNCHANGED <<raced, rushed>>
  BY <1>1, OthersStayAlone DEF Frame, AgentOfKept
<1>2. CASE PersonCreates
  <2>1. /\ scene' = scene /\ RefsKept /\ AgentsRest /\ raced' = raced /\ job' = job
        /\ \A j \in DOMAIN ticket : ticket'[j].agent \in {0, ticket[j].agent}
    BY <1>2 DEF PersonCreates, deskVars, rows, RefsKept, AgentsRest, Works
  <2> QED
    BY <2>1, OthersStayAlone
<1>3. CASE Crash
  <2>1. /\ Frame /\ \A d \in Jobs : job'[d].pc \in {"new", "done"}
        /\ raced' = raced \cup {job[c].ticket : c \in {d \in Jobs : job[d].pc = "link"}}
    BY <1>3, CrashMoves
  <2>2. \A d \in Jobs : ~Past(d)' /\ ~LinkingOn(d, k)
    BY <2>1 DEF Past, LinkingOn
  <2>3. raced \subseteq raced' /\ \A j \in DOMAIN ticket : ticket'[j].agent \in {0, ticket[j].agent}
    BY <2>1 DEF Frame, AgentOfKept
  <2> QED
    BY <2>1, <2>2, <2>3, OthersStayAlone DEF Frame
<1>4. ASSUME NEW c \in Jobs, Single(c), ~Past(c)', job[c].pc # "link", scene' = scene, RefsKept, AgentsRest,
             raced' = raced, \A j \in DOMAIN ticket : ticket'[j].agent \in {0, ticket[j].agent}
      PROVE  AloneOn(k)'
  BY <1>4, OthersStayAlone DEF Single, LinkingOn
<1>5. ASSUME NEW c \in Jobs, Leaves(c), Frame, UNCHANGED <<raced, rushed>>, job[c].pc # "link" PROVE AloneOn(k)'
  <2>1. Single(c) /\ ~Past(c)'
    BY <1>5 DEF Leaves, Past, Traced
  <2> QED
    BY <1>4, <1>5, <2>1 DEF Frame, AgentOfKept
<1>6. ASSUME NEW c \in Jobs, Moves(c) PROVE AloneOn(k)'
  <2>1. CASE UNCHANGED provVars /\ ClearAgent(c)
    <3>1. /\ Leaves(c) /\ scene' = scene /\ raced' = raced /\ job[c].pc # "link" /\ RefsKept /\ AgentsRest
          /\ \A j \in DOMAIN ticket : ticket'[j].agent \in {0, ticket[j].agent}
      BY <2>1, ClearMoves
    <3> QED
      BY <1>4, <3>1 DEF Leaves, Past, Traced
  <2>2. CASE UNCHANGED provVars /\ (ReadForm(c) \/ StoreValues(c) \/ SubmitForm(c))
    <3>1. /\ Frame /\ raced' = raced /\ Single(c) /\ job[c].pc # "link"
          /\ job'[c].pc \notin Traced \ {"store", "submitted", "waiting"}
      BY <2>2, FormMoves
    <3>2. ~Past(c)'
      BY <3>1 DEF Past, Traced
    <3> QED
      BY <1>4, <3>1, <3>2 DEF Frame, AgentOfKept
  <2>3. CASE ConfirmRow(c)
    <3>1. Frame /\ raced' = raced /\ job[c].pc # "link" /\ (Leaves(c) \/ Passes(c, "auto"))
      BY <2>3, ConfirmMoves
    <3>2. Single(c) /\ ~Past(c)'
      BY <3>1 DEF Past, Traced, Leaves, Passes
    <3> QED
      BY <1>4, <3>1, <3>2 DEF Frame, AgentOfKept
  <2>4. CASE MakeObject(c)
    <3>1. RowsAlone /\ raced' = raced /\ job[c].pc # "link" /\ Single(c) /\ job'[c].pc \in {"failed", "bind"}
      BY <2>4, MakeObjectMoves DEF Passes
    <3>2. ~Past(c)'
      BY <3>1 DEF Past
    <3> QED
      BY <1>4, <3>1, <3>2 DEF RowsAlone, AgentOfKept
  <2>5. CASE BindRow(c)
    <3>1. /\ scene' = scene /\ AgentOfKept /\ AgentsRest /\ raced' = raced /\ job[c].pc # "link"
          /\ Leaves(c) \/ Passes(c, "confirm")
          /\ DOMAIN ticket' = DOMAIN ticket
      BY <2>5, BindMoves DEF Binds, RefsKept
    <3>2. Single(c) /\ ~Past(c)'
      BY <3>1 DEF Past, Traced, Leaves, Passes
    <3>3. k \in DOMAIN ticket /\ AloneOn(k) /\ AtWork(k)' \subseteq AtWork(k)
      BY <3>1, NoMoreAtWork DEF AgentInv
    <3>4. \A d \in Jobs : job'[d] = job[d] \/ Fits(d, k)
      BY <3>1, <3>2, FitsOut DEF LinkingOn
    <3> QED
      BY <3>1, <3>3, <3>4, AloneStays DEF AgentOfKept
  <2> QED
    BY <1>6, <2>1, <2>2, <2>3, <2>4, <2>5, ReadersStayAlone, LookersStayAlone, SpawnStaysAlone, ReviewStaysAlone,
       LinkStaysAlone, AddedIsAlone DEF Moves
<1> QED
  BY <1>1, <1>2, <1>3, <1>5, <1>6, NextMoves

\* However many handlers, loops and submitted forms may put an agent on a ticket, and
\* wherever a restart cuts them off: two agents are at work on it only if two of the
\* coroutines overlapped or a workflow build was started beside an agent.  Not counted are
\* postmortems, agents that were unassigned, and those that a late write has brought back.
THEOREM OneAgent == Spec => []OneAgentUnlessRaced
<1>1. Init => AgentInv
  <2> SUFFICES ASSUME Init PROVE AgentInv
    OBVIOUS
  <2>1. \A c \in Jobs : job[c].pc \in {"new", "done"}
    <3>1. \A c \in Jobs : job[c] = [NoJob EXCEPT !.pc = IF op(c) = "none" THEN "done" ELSE "new"]
      BY DEF Init, DeskInit
    <3>2. \A pc : [NoJob EXCEPT !.pc = pc].pc = pc
      BY DEF NoJob
    <3> QED
      BY <3>1, <3>2
  <2>2. \A k : AtWork(k) = {}
    BY DEF Init, DeskInit, AtWork, Works
  <2> QED
    BY <2>1, <2>2 DEF AgentInv, Reviews, AloneOn, PastOn, Past, Knows
<1>2. TypeInv /\ AgentInv /\ [Next]_vars => AgentInv'
  BY NextStaysAlone
<1>3. AgentInv => OneAgentUnlessRaced
  <2> SUFFICES ASSUME AgentInv, NEW k \in DOMAIN ticket, k \notin raced PROVE Cardinality(AtWork(k)) <= 1
    BY DEF OneAgentUnlessRaced
  <2>1. \A x, y \in AtWork(k) : x = y
    BY DEF AgentInv, AloneOn
  <2>2. CASE AtWork(k) = {}
    BY <2>2, FS_EmptySet
  <2>3. CASE AtWork(k) # {}
    <3>1. PICK x : AtWork(k) = {x}
      BY <2>1, <2>3
    <3>2. Cardinality({x}) = 1
      BY FS_Singleton
    <3> QED
      BY <3>1, <3>2
  <2> QED
    BY <2>2, <2>3
<1> QED
  BY <1>1, <1>2, <1>3, Typed, PTL DEF Spec

-----------------------------------------------------------------------------
(* The agents of automatic assignment.  A coroutine that may assign owns   *)
(* its ticket, and no automatic agent is on a ticket that is owned: what   *)
(* it counts, which leaves its own ticket out, is all of them.  Between    *)
(* the count and the spawn there is one coroutine, or two have overlapped. *)

Owns == {"make", "bind", "confirm", "failed", "auto", "capacity", "spawn", "link"}
Owning(c) == Automatic(op(c)) /\ job[c].pc \in Owns
Spawning(c) == Automatic(op(c)) /\ job[c].pc = "spawn"
AutoAtWork == {x \in DOMAIN agent : Works(x) /\ Automatic(agent[x].by)}

StaysOff == \A c \in Jobs : Automatic(op(c)) => job[c].pc \notin Traced \ Owns
OwnersApart == \A c, d \in Jobs : Owning(c) /\ Owning(d) /\ job[c].ticket = job[d].ticket => c = d
Unserved(c) == \A x \in DOMAIN agent : Automatic(agent[x].by) => agent[x].ticket # job[c].ticket
OwnersFirst == \A c \in Jobs : Owning(c) /\ job[c].pc # "link" => Unserved(c)
Room ==
  /\ \A c, d \in Jobs : Spawning(c) /\ Spawning(d) => c = d
  /\ Cardinality(AutoAtWork) <= MaxActive
  /\ \A c \in Jobs : Spawning(c) => Cardinality(AutoAtWork) < MaxActive
CapacityInv == StaysOff /\ OwnersApart /\ OwnersFirst /\ (~rushed => Room)

LEMMA Countable ==
  ASSUME TypeInv, NEW S \in SUBSET DOMAIN agent
  PROVE  IsFiniteSet(S) /\ Cardinality(S) \in Nat
<1>1. Len(agent) \in Nat /\ DOMAIN agent = 1..Len(agent)
  BY DEF TypeInv, Shapes
<1>2. IsFiniteSet(DOMAIN agent)
  BY <1>1, FS_Interval
<1>3. IsFiniteSet(S)
  BY <1>2, FS_Subset
<1> QED
  BY <1>3, FS_CardinalityType

LEMMA FewerAuto ==
  ASSUME TypeInv, AutoAtWork' \subseteq AutoAtWork
  PROVE  Cardinality(AutoAtWork') <= Cardinality(AutoAtWork) /\ Cardinality(AutoAtWork) \in Nat /\ Cardinality(AutoAtWork') \in Nat
<1>1. AutoAtWork \subseteq DOMAIN agent
  BY DEF AutoAtWork, Works
<1>2. PICK S \in SUBSET DOMAIN agent : S = AutoAtWork
  BY <1>1
<1>3. PICK T \in SUBSET S : T = AutoAtWork'
  BY <1>2
<1>4. IsFiniteSet(S) /\ Cardinality(S) \in Nat
  BY Countable
<1>5. Cardinality(T) <= Cardinality(S)
  BY <1>4, FS_Subset
<1>6. T \in SUBSET DOMAIN agent
  OBVIOUS
<1>7. Cardinality(T) \in Nat
  BY <1>6, Countable
<1> QED
  BY <1>2, <1>3, <1>4, <1>5, <1>7

\* Where coroutine d goes without a spawn: out of sight, or on with the ticket it owns.
Continues(d) ==
  \/ job'[d] = job[d]
  \/ ~Automatic(op(d))
  \/ job'[d].pc \notin Traced
  \/ Owning(d) /\ job[d].pc # "link" /\ job'[d].pc \in Owns \ {"spawn"} /\ job'[d].ticket = job[d].ticket

LEMMA RestKeepsRoom ==
  ASSUME TypeInv, CapacityInv, scene' = scene, AgentsRest, rushed' = rushed, \A d \in Jobs : Continues(d)
  PROVE  CapacityInv'
<1>1. ASSUME NEW d \in Jobs PROVE Automatic(op(d))' <=> Automatic(op(d))
  BY DEF op
<1>2. ASSUME NEW d \in Jobs, Owning(d)'
      PROVE  /\ Owning(d) /\ job'[d].ticket = job[d].ticket /\ (job'[d].pc # "link" => job[d].pc # "link")
             /\ Spawning(d)' => Spawning(d)
  <2>1. job'[d].pc \in Traced
    BY <1>2 DEF Owning, Owns, Traced
  <2> QED
    BY <1>1, <1>2, <2>1 DEF Owning, Continues, Spawning
<1>3. StaysOff'
  BY <1>1 DEF StaysOff, CapacityInv, Continues, Owns
<1>4. OwnersApart'
  BY <1>2 DEF OwnersApart, CapacityInv
<1>5. OwnersFirst'
  <2> SUFFICES ASSUME NEW d \in Jobs, Owning(d)', job'[d].pc # "link" PROVE Unserved(d)'
    BY DEF OwnersFirst
  <2>1. Unserved(d) /\ job'[d].ticket = job[d].ticket
    BY <1>2 DEF CapacityInv, OwnersFirst
  <2> QED
    BY <2>1 DEF Unserved, AgentsRest, Works
<1>6. AutoAtWork' \subseteq AutoAtWork
  BY DEF AutoAtWork, Works, AgentsRest, Works
<1>7. \A d \in Jobs : Spawning(d)' => Spawning(d)
  BY <1>2 DEF Spawning, Owning, Owns
<1>8. ASSUME ~rushed' PROVE Room'
  <2>1. Room
    BY <1>8 DEF CapacityInv
  <2>2. Cardinality(AutoAtWork') <= Cardinality(AutoAtWork) /\ Cardinality(AutoAtWork) \in Nat /\ Cardinality(AutoAtWork') \in Nat
    BY <1>6, FewerAuto
  <2>3. MaxActive \in Nat
    BY SyncAssumption
  <2> QED
    BY <1>7, <2>1, <2>2, <2>3 DEF Room
<1> QED
  BY <1>3, <1>4, <1>5, <1>8 DEF CapacityInv

\* One coroutine moves.
LEMMA OneContinues ==
  ASSUME TypeInv, CapacityInv, scene' = scene, AgentsRest, rushed' = rushed, NEW c \in Jobs, Single(c), Continues(c)
  PROVE  CapacityInv'
  BY RestKeepsRoom DEF Single, Continues

\* A new ticket has no agents, and nobody else owns it.
LEMMA NewTicketKeepsRoom ==
  ASSUME TypeInv, CapacityInv, NEW c \in Jobs, CreateTicket(c) \/ InsertRow(c)
  PROVE  CapacityInv'
<1>1. PICK n : /\ RowIs(n) /\ Single(c) /\ rushed' = rushed
               /\ job'[c].pc \notin Traced \/ (job'[c].pc \in {"make", "auto"} /\ job'[c].ticket = Len(ticket) + 1)
  <2>1. CASE CreateTicket(c)
    BY <2>1, CreateMoves DEF RowIs
  <2>2. CASE InsertRow(c)
    BY <2>2, InsertMoves DEF RowIs
  <2> QED
    BY <2>1, <2>2
<1>2. scene' = scene /\ agent' = agent /\ rushed' = rushed /\ AgentsRest
  BY <1>1 DEF RowIs, AgentsRest, Works
<1>3. CASE job'[c].pc \notin Traced
  BY <1>1, <1>2, <1>3, OneContinues DEF Continues
<1>4. CASE job'[c].pc \in {"make", "auto"} /\ job'[c].ticket = Len(ticket) + 1
  <2>1. Len(ticket) \in Nat /\ \A d \in Jobs : job[d].ticket # Len(ticket) + 1
    BY DEF TypeInv, Shapes, Tied
  <2>2. ASSUME NEW d \in Jobs, d # c
        PROVE  (Owning(d)' <=> Owning(d)) /\ (Spawning(d)' <=> Spawning(d)) /\ job'[d] = job[d]
    BY <1>1, <1>2, <2>2 DEF Owning, Spawning, Single, op
  <2>3. StaysOff'
    BY <1>1, <1>2, <1>4 DEF StaysOff, CapacityInv, Single, op, Owns
  <2>4. OwnersApart'
    BY <1>4, <2>1, <2>2 DEF OwnersApart, CapacityInv
  <2>5. OwnersFirst'
    <3> SUFFICES ASSUME NEW d \in Jobs, Owning(d)', job'[d].pc # "link" PROVE Unserved(d)'
      BY DEF OwnersFirst
    <3>1. CASE d = c
      <4>1. \A x \in DOMAIN agent : agent[x].ticket \in DOMAIN ticket
        BY DEF TypeInv, Links
      <4>2. Len(ticket) + 1 \notin DOMAIN ticket
        BY <2>1 DEF TypeInv, Shapes
      <4> QED
        BY <1>2, <1>4, <3>1, <4>1, <4>2 DEF Unserved
    <3>2. CASE d # c
      BY <1>2, <2>2, <3>2 DEF Unserved, CapacityInv, OwnersFirst
    <3> QED
      BY <3>1, <3>2
  <2>6. ASSUME ~rushed' PROVE Room'
    <3>1. Room /\ AutoAtWork' = AutoAtWork
      BY <1>2, <2>6 DEF CapacityInv, AutoAtWork, Works
    <3>2. ~Spawning(c)'
      BY <1>4 DEF Spawning
    <3> QED
      BY <2>2, <3>1, <3>2 DEF Room
  <2> QED
    BY <2>3, <2>4, <2>5, <2>6 DEF CapacityInv
<1> QED
  BY <1>1, <1>3, <1>4

\* The count is of all automatic agents: the ticket that is left out has none.
LEMMA CountKeepsRoom ==
  ASSUME TypeInv, CapacityInv, NEW c \in Jobs, AutoCapacity(c)
  PROVE  CapacityInv'
<1>1. /\ Frame /\ job[c].pc = "capacity" /\ (Leaves(c) \/ (Passes(c, "spawn") /\ HasRoom(c)))
      /\ rushed' = (rushed \/ \E d \in Jobs \ {c} : job[d].pc = "spawn" /\ Automatic(op(d)))
  BY AutoCapacityMoves
<1>2. scene' = scene /\ AgentsRest /\ Single(c)
  BY <1>1 DEF Frame, Leaves, Passes
<1>3. ASSUME NEW d \in Jobs PROVE Automatic(op(d))' <=> Automatic(op(d))
  BY <1>2 DEF op
<1>4. ASSUME NEW d \in Jobs, Owning(d)'
      PROVE  Owning(d) /\ job'[d].ticket = job[d].ticket /\ (job'[d].pc # "link" => job[d].pc # "link")
  <2>1. CASE d = c
    BY <1>1, <1>3, <1>4, <2>1 DEF Owning, Leaves, Passes, Owns, Traced
  <2>2. CASE d # c
    BY <1>2, <1>3, <1>4, <2>2 DEF Owning, Single
  <2> QED
    BY <2>1, <2>2
<1>5. StaysOff'
  BY <1>1, <1>2, <1>3 DEF StaysOff, CapacityInv, Single, Leaves, Passes, Owns
<1>6. OwnersApart'
  BY <1>4 DEF OwnersApart, CapacityInv
<1>7. OwnersFirst'
  <2> SUFFICES ASSUME NEW d \in Jobs, Owning(d)', job'[d].pc # "link" PROVE Unserved(d)'
    BY DEF OwnersFirst
  <2>1. Unserved(d) /\ job'[d].ticket = job[d].ticket
    BY <1>4 DEF CapacityInv, OwnersFirst
  <2> QED
    BY <1>2, <2>1 DEF Unserved, AgentsRest, Works
<1>8. ASSUME ~rushed' PROVE Room'
  <2>1. Room /\ ~rushed /\ \A d \in Jobs \ {c} : ~Spawning(d)
    BY <1>1, <1>8 DEF CapacityInv, Spawning
  <2>2. AutoAtWork' \subseteq AutoAtWork
    BY <1>2 DEF AutoAtWork, Works, AgentsRest, Works
  <2>3. Cardinality(AutoAtWork') <= Cardinality(AutoAtWork) /\ Cardinality(AutoAtWork) \in Nat /\ Cardinality(AutoAtWork') \in Nat
    BY <2>2, FewerAuto
  <2>4. MaxActive \in Nat
    BY SyncAssumption
  <2>5. \A d \in Jobs \ {c} : ~Spawning(d)'
    BY <1>2, <1>3, <2>1 DEF Spawning, Single
  <2>6. ASSUME Spawning(c)' PROVE Cardinality(AutoAtWork) < MaxActive
    <3>1. Owning(c) /\ HasRoom(c)
      BY <1>1, <1>3, <2>6 DEF Owning, Spawning, Owns, Leaves, Traced
    <3>2. Unserved(c)
      BY <1>1, <3>1 DEF CapacityInv, OwnersFirst
    <3> DEFINE S == {a \in DOMAIN agent : agent[a].active /\ agent[a].ticket # job[c].ticket}
    <3>3. AutoAtWork \subseteq S
      BY <3>2 DEF AutoAtWork, Works, Unserved
    <3>4. S \in SUBSET DOMAIN agent
      OBVIOUS
    <3>5. Cardinality(S) < MaxActive
      BY <3>1 DEF HasRoom
    <3> HIDE DEF S
    <3>6. IsFiniteSet(S) /\ Cardinality(S) \in Nat
      BY <3>4, Countable
    <3>7. Cardinality(AutoAtWork) <= Cardinality(S)
      BY <3>3, <3>6, FS_Subset
    <3> QED
      BY <2>3, <2>4, <3>5, <3>6, <3>7
  <2>7. \A d, e \in Jobs : Spawning(d)' /\ Spawning(e)' => d = e
    BY <2>5
  <2>8. Cardinality(AutoAtWork') <= MaxActive
    BY <2>1, <2>3, <2>4 DEF Room
  <2>9. \A d \in Jobs : Spawning(d)' => Cardinality(AutoAtWork') < MaxActive
    BY <2>3, <2>4, <2>5, <2>6
  <2> QED
    BY <2>7, <2>8, <2>9 DEF Room
<1> QED
  BY <1>5, <1>6, <1>7, <1>8 DEF CapacityInv

LEMMA SpawnKeepsRoom ==
  ASSUME TypeInv, CapacityInv, NEW c \in Jobs, UNCHANGED provVars, Spawn(c)
  PROVE  CapacityInv'
<1>1. PICK new : new = Len(agent) + 1
  OBVIOUS
<1>2. /\ scene' = scene /\ rushed' = rushed /\ job[c].pc = "spawn"
      /\ Single(c) /\ job'[c].pc = "link" /\ job'[c].ticket = job[c].ticket
      /\ DOMAIN agent' = DOMAIN agent \cup {new} /\ new \notin DOMAIN agent
      /\ \A x \in DOMAIN agent : agent'[x] = agent[x]
      /\ agent'[new].ticket = job[c].ticket /\ agent'[new].by = op(c)
      /\ agent'[new].active /\ agent'[new].runs /\ ~agent'[new].revived
  BY <1>1, SpawnMoves
<1>3. ASSUME NEW d \in Jobs PROVE Automatic(op(d))' <=> Automatic(op(d))
  BY <1>2 DEF op
<1>4. ASSUME NEW d \in Jobs
      PROVE  (Owning(d)' <=> Owning(d)) /\ job'[d].ticket = job[d].ticket /\ (job'[d].pc # "link" => d # c /\ job'[d] = job[d])
  <2>1. CASE d = c
    BY <1>2, <1>3, <2>1 DEF Owning, Owns
  <2>2. CASE d # c
    BY <1>2, <1>3, <2>2 DEF Owning, Single
  <2> QED
    BY <2>1, <2>2
<1>5. StaysOff'
  BY <1>2, <1>3 DEF StaysOff, CapacityInv, Single, Owns
<1>6. OwnersApart'
  BY <1>4 DEF OwnersApart, CapacityInv
<1>7. OwnersFirst'
  <2> SUFFICES ASSUME NEW d \in Jobs, Owning(d)', job'[d].pc # "link" PROVE Unserved(d)'
    BY DEF OwnersFirst
  <2>1. Owning(d) /\ d # c /\ job'[d] = job[d]
    BY <1>4
  <2>2. Unserved(d)
    BY <2>1 DEF CapacityInv, OwnersFirst
  <2>3. Automatic(op(c)) => job[c].ticket # job[d].ticket
    BY <1>2, <2>1 DEF CapacityInv, OwnersApart, Owning, Owns
  <2> QED
    BY <1>2, <2>1, <2>2, <2>3 DEF Unserved
<1>8. ASSUME ~rushed' PROVE Room'
  <2>1. Room
    BY <1>2, <1>8 DEF CapacityInv
  <2>2. MaxActive \in Nat
    BY SyncAssumption
  <2>3. AutoAtWork \in SUBSET DOMAIN agent /\ new \notin AutoAtWork
    BY <1>2 DEF AutoAtWork, Works
  <2>4. IsFiniteSet(AutoAtWork) /\ Cardinality(AutoAtWork) \in Nat
    BY <2>3, Countable
  <2>5. \A d \in Jobs : Spawning(d)' => Spawning(d) /\ d # c
    BY <1>2, <1>3 DEF Spawning, Single
  <2>6. CASE Automatic(op(c))
    <3>1. Spawning(c)
      BY <1>2, <2>6 DEF Spawning
    <3>2. AutoAtWork' = AutoAtWork \cup {new}
      BY <1>2, <2>6 DEF AutoAtWork, Works
    <3>3. Cardinality(AutoAtWork \cup {new}) = Cardinality(AutoAtWork) + 1
      BY <2>3, <2>4, FS_AddElement
    <3>4. Cardinality(AutoAtWork) < MaxActive
      BY <2>1, <3>1 DEF Room
    <3>5. \A d \in Jobs : ~Spawning(d)'
      BY <2>1, <2>5, <3>1 DEF Room
    <3>6. Cardinality(AutoAtWork') <= MaxActive
      BY <2>2, <2>4, <3>2, <3>3, <3>4
    <3> QED
      BY <3>5, <3>6 DEF Room
  <2>7. CASE ~Automatic(op(c))
    <3>1. AutoAtWork' = AutoAtWork
      BY <1>2, <2>7 DEF AutoAtWork, Works
    <3> QED
      BY <2>1, <2>5, <3>1 DEF Room
  <2> QED
    BY <2>6, <2>7
<1> QED
  BY <1>5, <1>6, <1>7, <1>8 DEF CapacityInv

\* A postmortem is not an automatic agent.
LEMMA ReviewKeepsRoom ==
  ASSUME TypeInv, CapacityInv, NEW c \in Jobs, UNCHANGED provVars, SpawnReview(c)
  PROVE  CapacityInv'
<1>1. PICK new : new = Len(agent) + 1
  OBVIOUS
<1>2. /\ Leaves(c) /\ scene' = scene /\ rushed' = rushed /\ job[c].pc = "review"
      /\ DOMAIN agent' = DOMAIN agent \cup {new} /\ \A x \in DOMAIN agent : agent'[x] = agent[x]
      /\ agent'[new].by = op(c)
  BY <1>1, ReviewMoves
<1>3. ~Automatic(op(c))
  BY <1>2 DEF CapacityInv, StaysOff, Traced, Owns
<1>4. ASSUME NEW d \in Jobs PROVE Automatic(op(d))' <=> Automatic(op(d))
  BY <1>2 DEF op
<1>5. ASSUME NEW d \in Jobs, Owning(d)' PROVE Owning(d) /\ job'[d] = job[d]
  <2>1. d # c
    BY <1>3, <1>4, <1>5 DEF Owning
  <2> QED
    BY <1>2, <1>4, <1>5, <2>1 DEF Owning, Leaves, Single
<1>6. StaysOff'
  BY <1>2, <1>3, <1>4 DEF StaysOff, CapacityInv, Leaves, Single
<1>7. OwnersApart'
  BY <1>5 DEF OwnersApart, CapacityInv
<1>8. OwnersFirst'
  <2> SUFFICES ASSUME NEW d \in Jobs, Owning(d)', job'[d].pc # "link" PROVE Unserved(d)'
    BY DEF OwnersFirst
  <2>1. Unserved(d) /\ job'[d] = job[d]
    BY <1>5 DEF CapacityInv, OwnersFirst
  <2> QED
    BY <1>2, <1>3, <2>1 DEF Unserved
<1>9. AutoAtWork' \subseteq AutoAtWork
  BY <1>2, <1>3 DEF AutoAtWork, Works
<1>10. \A d \in Jobs : Spawning(d)' => Spawning(d)
  BY <1>5 DEF Spawning, Owning, Owns
<1>11. ASSUME ~rushed' PROVE Room'
  <2>1. Room
    BY <1>2, <1>11 DEF CapacityInv
  <2>2. /\ Cardinality(AutoAtWork') <= Cardinality(AutoAtWork)
        /\ Cardinality(AutoAtWork) \in Nat /\ Cardinality(AutoAtWork') \in Nat /\ MaxActive \in Nat
    BY <1>9, FewerAuto, SyncAssumption
  <2> QED
    BY <1>10, <2>1, <2>2 DEF Room
<1> QED
  BY <1>6, <1>7, <1>8, <1>11 DEF CapacityInv

LEMMA NextKeepsRoom == ASSUME TypeInv, CapacityInv, [Next]_vars PROVE CapacityInv'
<1>1. CASE job' = job /\ Frame /\ UNCHANGED <<raced, rushed>>
  BY <1>1, RestKeepsRoom DEF Frame, Continues
<1>2. CASE PersonCreates
  BY <1>2, RestKeepsRoom DEF PersonCreates, deskVars, rows, AgentsRest, Works, Continues
<1>3. CASE Crash
  <2>1. Frame /\ rushed' = rushed /\ \A d \in Jobs : job'[d].pc \notin Traced
    BY <1>3, CrashMoves DEF Traced
  <2> QED
    BY <2>1, RestKeepsRoom DEF Frame, Continues
<1>4. ASSUME NEW c \in Jobs, Leaves(c), Frame, UNCHANGED <<raced, rushed>> PROVE CapacityInv'
  BY <1>4, OneContinues DEF Frame, Leaves, Continues
<1>5. ASSUME NEW c \in Jobs, Moves(c) PROVE CapacityInv'
  <2>0. ASSUME NEW o \in Handlers \cup {"submit"} PROVE ~Automatic(o)
    BY DEF Handlers, Automatic
  <2>1. CASE UNCHANGED provVars /\ (ClearAgent(c) \/ LinkAgent(c))
    <3>1. Leaves(c) /\ scene' = scene /\ AgentsRest /\ rushed' = rushed
      BY <2>1, ClearMoves, LinkMoves
    <3> QED
      BY <3>1, OneContinues DEF Leaves, Continues
  <2>2. CASE UNCHANGED provVars /\ (ReadTicket(c) \/ ReadForm(c) \/ StoreValues(c) \/ SubmitForm(c))
    <3>1. Frame /\ rushed' = rushed /\ Single(c)
      BY <2>2, ReadTicketMoves, FormMoves DEF Seen
    <3>2. Leaves(c) \/ op(c) \in Handlers \cup {"submit"} \/ job[c].pc \in Traced \ Owns
      BY <2>2, ReadTicketMoves, FormMoves DEF Traced, Owns
    <3>3. Continues(c)
      BY <2>0, <3>2 DEF Continues, Leaves, CapacityInv, StaysOff
    <3> QED
      BY <3>1, <3>3, OneContinues DEF Frame
  <2>3. CASE UNCHANGED provVars /\ (ReadWaiting(c) \/ Answer(c) \/ Resume(c) \/ LookForAgent(c) \/ LookForSame(c))
    <3>1. Frame /\ rushed' = rushed /\ Single(c) /\ job[c].pc \in Traced \ Owns
      BY <2>3, ReadWaitingMoves, AnswerMoves, ResumeMoves, LookMoves, SameMoves DEF Seen, Leaves, Passes, Traced, Owns
    <3>2. Continues(c)
      BY <3>1 DEF Continues, CapacityInv, StaysOff
    <3> QED
      BY <3>1, <3>2, OneContinues DEF Frame
  <2>4. CASE AutoLook(c) \/ ConfirmRow(c)
    <3>1. Frame /\ rushed' = rushed /\ job[c].pc \in Owns \ {"link"}
          /\ (Leaves(c) \/ Passes(c, "capacity") \/ Passes(c, "auto"))
      BY <2>4, AutoLookMoves, ConfirmMoves DEF Owns
    <3>2. Single(c) /\ Continues(c)
      BY <3>1 DEF Continues, Leaves, Passes, Owning, Owns
    <3> QED
      BY <3>1, <3>2, OneContinues DEF Frame
  <2>5. CASE MakeObject(c)
    <3>1. /\ RowsAlone /\ rushed' = rushed /\ Single(c) /\ job[c].pc = "make"
          /\ job'[c].pc \in {"failed", "bind"} /\ job'[c].ticket = job[c].ticket
      BY <2>5, MakeObjectMoves DEF Passes
    <3>2. Continues(c)
      BY <3>1 DEF Continues, Owning, Owns
    <3> QED
      BY <3>1, <3>2, OneContinues DEF RowsAlone
  <2>6. CASE BindRow(c)
    <3>1. scene' = scene /\ AgentsRest /\ rushed' = rushed /\ job[c].pc = "bind" /\ (Leaves(c) \/ Passes(c, "confirm"))
      BY <2>6, BindMoves
    <3>2. Single(c) /\ Continues(c)
      BY <3>1 DEF Continues, Leaves, Passes, Owning, Owns
    <3> QED
      BY <3>1, <3>2, OneContinues
  <2> QED
    BY <1>5, <2>1, <2>2, <2>3, <2>4, <2>5, <2>6, NewTicketKeepsRoom, CountKeepsRoom, SpawnKeepsRoom,
       ReviewKeepsRoom DEF Moves
<1> QED
  BY <1>1, <1>2, <1>3, <1>4, <1>5, NextMoves

LEMMA RoomKept == Spec => []CapacityInv
<1>1. Init => CapacityInv
  <2> SUFFICES ASSUME Init PROVE CapacityInv
    OBVIOUS
  <2>1. \A c \in Jobs : job[c].pc \in {"new", "done"}
    <3>1. \A c \in Jobs : job[c] = [NoJob EXCEPT !.pc = IF op(c) = "none" THEN "done" ELSE "new"]
      BY DEF Init, DeskInit
    <3>2. \A pc : [NoJob EXCEPT !.pc = pc].pc = pc
      BY DEF NoJob
    <3> QED
      BY <3>1, <3>2
  <2>2. AutoAtWork = {}
    BY DEF Init, DeskInit, AutoAtWork, Works
  <2>3. Cardinality(AutoAtWork) <= MaxActive
    BY <2>2, FS_EmptySet, SyncAssumption
  <2> QED
    BY <2>1, <2>3 DEF CapacityInv, StaysOff, OwnersApart, OwnersFirst, Room, Owning, Spawning, Traced, Owns
<1>2. TypeInv /\ CapacityInv /\ [Next]_vars => CapacityInv'
  BY NextKeepsRoom
<1> QED
  BY <1>1, <1>2, Typed, PTL DEF Spec

\* Whatever loops, refreshes and creations assign agents, beside people who do the same
\* and across restarts: as long as no two counted before the other had spawned, no more
\* automatic agents are at work than the rule allows, those aside that were unassigned or
\* that a late write has brought back.
THEOREM CapacityHolds == Spec => []AutoCapacityKept
<1>1. CapacityInv => AutoCapacityKept
  BY DEF CapacityInv, Room, AutoAtWork, Works, AutoCapacityKept
<1> QED
  BY <1>1, RoomKept, PTL

-----------------------------------------------------------------------------
(* The status before a wait.  Until the one call that puts a ticket on     *)
(* hold writes the wait, nobody has read one from the row; from then on it *)
(* keeps the status that the call has read, which was none.                *)

\* The calls that end a ticket, ask, wait for the requester and create objects, and
\* where a coroutine is that has read nothing yet.
Endings == {"change", "resolve", "assign", "poll", "again", "closed", "stop"}
Asking == {"form", "note", "mark"}
Holding == {"prior", "gate", "remember"}
Making == {"make", "bind", "confirm", "failed"}
Unread == {"new", "full", "discover", "list", "next", "get", "select", "insert"}
Enders == {"status", "close"}
Askers == {"ask", "askSecure"}

\* A coroutine is where its operation leads, at the ticket of its order.
InTurn(c) ==
  /\ job[c].pc \in Endings => op(c) \in Enders
  /\ job[c].pc \in Asking => op(c) \in Askers
  /\ job[c].pc \in Holding => op(c) = "wait"
  /\ job[c].pc \in Making => op(c) \in {"push", "create"}
  /\ op(c) \in Enders \cup Askers \cup {"wait"} => job[c].pc \in Endings \cup Asking \cup Holding \cup {"new", "done"}
  /\ job[c].pc \in (Endings \cup Asking \cup Holding) \ {"prior"} => job[c].ticket = scene.orders[c].ticket
  /\ job[c].pc \in Making /\ op(c) = "push" => job[c].ticket = scene.orders[c].ticket
  /\ job[c].pc \in Unread => job[c].status = None /\ job[c].asked = None
InTurns == \A c \in Jobs : InTurn(c)

\* The provider knows no such wait.
NoWaitThere ==
  /\ \A n \in Keys : object[n].status # Awaiting
  /\ \A s \in Jobs : sync[s].got # Awaiting

\* Only ticket k is pushed; a sync that has read another row finds it by its key still,
\* and a ticket that is created has no key until it is bound.
KeyStands(c) ==
  /\ job[c].pc = "update" => ticket[job[c].ticket].ref = job[c].key
  /\ job[c].pc \in {"make", "bind"} => ticket[job[c].ticket].ref = 0
KeysStand(k) == ~PushedBeside(k) => \A c \in Jobs : job[c].ticket # k => KeyStands(c)

\* Nobody has put the ticket on hold yet.
Before == {"new", "resolve", "assign", "poll", "again", "closed", "change", "form", "note", "mark", "prior", "gate"}
NotYet(k) == \A c \in Jobs : PutsOnHold(c, k) => job[c].pc \in Before
HeldOnce(k) ==
  /\ \A c, d \in Jobs : PutsOnHold(c, k) /\ PutsOnHold(d, k) => c = d
  /\ ~StartsOnHold(k) /\ ~PushedBeside(k)

Working(k) ==
  /\ k \in DOMAIN ticket => ticket[k].status # Awaiting
  /\ \A c \in Jobs : job[c].ticket = k => job[c].status # Awaiting
Remembers(k) ==
  /\ k \in DOMAIN ticket => ticket[k].asked # Awaiting
  /\ \A c \in Jobs : job[c].ticket = k =>
       job[c].asked # Awaiting /\ (job[c].pc = "remember" => job[c].status # Awaiting)
  /\ NotYet(k) => Working(k)

HoldInv == InTurns /\ NoWaitThere /\ \A k \in Nat \ {0} : KeysStand(k) /\ (HeldOnce(k) => Remembers(k))

-----------------------------------------------------------------------------
(* Most steps leave the statuses of tickets alone, and what their coroutine *)
(* has read of its ticket.                                                  *)

RowsRest ==
  /\ scene' = scene /\ DOMAIN ticket' = DOMAIN ticket
  /\ \A j \in DOMAIN ticket :
       /\ ticket'[j].ref = ticket[j].ref /\ ticket'[j].status = ticket[j].status
       /\ ticket'[j].asked \in {ticket[j].asked, None}
Keeps(c, pc) ==
  /\ Single(c) /\ job'[c].pc = pc /\ job'[c].ticket = job[c].ticket
  /\ job'[c].status = job[c].status /\ job'[c].asked = job[c].asked
Finishes(c) ==
  /\ Single(c) /\ job'[c].ticket = 0 /\ job'[c].status = None /\ job'[c].asked = None
  /\ job'[c].pc = IF op(c) \in {"refresh", "syncAll", "loop"} THEN "next" ELSE "done"
Reads(c, k, pc) ==
  /\ Single(c) /\ job'[c].pc = pc /\ job'[c].ticket = k /\ job'[c].status = ticket[k].status
  /\ job'[c].asked = ticket[k].asked /\ job'[c].key = ticket[k].ref

\* From where to where a coroutine goes on at the same ticket.
Resting == {"drop", "clear", "same", "review", "store", "submitted", "waiting", "expire", "look", "resume", "spawn", "link", "auto",
            "capacity"}
Begun(o, pc) ==
  \/ o = "wait" /\ pc = "prior"
  \/ o = "submit" /\ pc \in {"store", "expire"}
  \/ o = "syncAll" /\ pc = "list"
  \/ o = "loop" /\ pc \in {"full", "gone"}
  \/ o = "refresh" /\ pc = "next"
Flows(p, q, o) ==
  \/ {p, q} \subseteq Endings \ {"stop"}
  \/ {p, q} \subseteq Asking
  \/ p \in {"make", "bind"} /\ q \in Making \ {"make"}
  \/ p \in Making /\ q = "auto"
  \/ p \in Unread \ {"new"} /\ q \in (Unread \ {"new"}) \cup {"done"}
  \/ {p, q} \subseteq Resting
  \/ p = "new" /\ Begun(o, q)
Walks(c) == Finishes(c) \/ (Keeps(c, job'[c].pc) /\ Flows(job[c].pc, job'[c].pc, op(c)))

LEMMA Idle == ASSUME TypeInv, NEW c \in Jobs, Return(c) PROVE Finishes(c)
<1> DEFINE pc == IF op(c) \in {"refresh", "syncAll", "loop"} THEN "next" ELSE "done"
           v == [NoJob EXCEPT !.pc = pc]
<1>1. job' = [job EXCEPT ![c] = v]
  BY DEF Return
<1> HIDE DEF pc
<1>2. v.pc = pc /\ v.ticket = 0 /\ v.status = None /\ v.asked = None
  BY DEF NoJob
<1> HIDE DEF v
<1>3. Single(c) /\ job'[c] = v
  BY <1>1 DEF Single, TypeInv, Shapes
<1> QED
  BY <1>2, <1>3 DEF Finishes, pc

LEMMA Keeping == ASSUME TypeInv, NEW c \in Jobs, NEW pc \in Pcs, Goto(c, pc) PROVE Keeps(c, pc)
  BY Going DEF Keeps, Single, TypeInv, Shapes

LEMMA Reading ==
  ASSUME TypeInv, NEW c \in Jobs, NEW pc \in Pcs, NEW k \in DOMAIN ticket, job' = Saw(c, k, pc)
  PROVE  Reads(c, k, pc)
  BY Seeing DEF Reads, Single, TypeInv, Shapes

\* The job record gets other fields than what was read of the ticket.
LEMMA Turning ==
  ASSUME TypeInv, NEW c \in Jobs, NEW pc \in Pcs, NEW x \in Nat,
         \/ job' = [job EXCEPT ![c].pc = pc, ![c].agent = x]
         \/ job' = [job EXCEPT ![c].pc = pc, ![c].key = x]
         \/ job' = [job EXCEPT ![c].form = x, ![c].pc = pc]
  PROVE  Keeps(c, pc)
<1>1. job[c] \in Coroutines /\ job \in [Jobs -> Coroutines]
  BY DEF TypeInv, Shapes
<1> DEFINE Good(v) == v.pc = pc /\ v.ticket = job[c].ticket /\ v.status = job[c].status /\ v.asked = job[c].asked
<1>2. PICK v : Good(v) /\ job' = [job EXCEPT ![c] = v]
  <2>1. CASE job' = [job EXCEPT ![c].pc = pc, ![c].agent = x]
    <3> DEFINE v == [job[c] EXCEPT !.pc = pc, !.agent = x]
    <3>1. Good(v) /\ job' = [job EXCEPT ![c] = v]
      BY <1>1, <2>1 DEF Coroutines
    <3> QED
      BY <3>1
  <2>2. CASE job' = [job EXCEPT ![c].pc = pc, ![c].key = x]
    <3> DEFINE v == [job[c] EXCEPT !.pc = pc, !.key = x]
    <3>1. Good(v) /\ job' = [job EXCEPT ![c] = v]
      BY <1>1, <2>2 DEF Coroutines
    <3> QED
      BY <3>1
  <2>3. CASE job' = [job EXCEPT ![c].form = x, ![c].pc = pc]
    <3> DEFINE v == [job[c] EXCEPT !.form = x, !.pc = pc]
    <3>1. Good(v) /\ job' = [job EXCEPT ![c] = v]
      BY <1>1, <2>3 DEF Coroutines
    <3> QED
      BY <3>1
  <2> QED
    BY <2>1, <2>2, <2>3
<1>3. Single(c) /\ job'[c] = v
  BY <1>1, <1>2 DEF Single
<1> QED
  BY <1>2, <1>3 DEF Keeps

LEMMA NoRows == ASSUME UNCHANGED <<scene, ticket>> PROVE RowsRest
  BY DEF RowsRest

\* One row is replaced.
LEMMA RowPut ==
  ASSUME TypeInv, NEW k \in DOMAIN ticket, NEW v \in Rows, ticket' = [ticket EXCEPT ![k] = v]
  PROVE  DOMAIN ticket' = DOMAIN ticket /\ \A j \in DOMAIN ticket : ticket'[j] = IF j = k THEN v ELSE ticket[j]
<1>1. ticket \in Seq(Rows)
  BY DEF TypeInv, Shapes
<1> QED
  BY <1>1, Replaced

LEMMA RowTurned ==
  ASSUME TypeInv, NEW k \in DOMAIN ticket, scene' = scene,
         ticket' \in {[ticket EXCEPT ![k].told = TRUE], [ticket EXCEPT ![k].asked = None], [ticket EXCEPT ![k].agent = 0]}
  PROVE  RowsRest
<1>1. ticket[k] \in Rows /\ None \in Status \cup {None}
  BY DEF TypeInv, Shapes
<1> DEFINE Good(v) == /\ v \in Rows /\ v.ref = ticket[k].ref /\ v.status = ticket[k].status
                      /\ v.asked \in {ticket[k].asked, None}
<1>2. PICK v : Good(v) /\ ticket' = [ticket EXCEPT ![k] = v]
  <2>1. CASE ticket' = [ticket EXCEPT ![k].told = TRUE]
    <3> DEFINE v == [ticket[k] EXCEPT !.told = TRUE]
    <3>1. Good(v) /\ ticket' = [ticket EXCEPT ![k] = v]
      BY <1>1, <2>1 DEF Rows
    <3> QED
      BY <3>1
  <2>2. CASE ticket' = [ticket EXCEPT ![k].asked = None]
    <3> DEFINE v == [ticket[k] EXCEPT !.asked = None]
    <3>1. Good(v) /\ ticket' = [ticket EXCEPT ![k] = v]
      BY <1>1, <2>2 DEF Rows
    <3> QED
      BY <3>1
  <2>3. CASE ticket' = [ticket EXCEPT ![k].agent = 0]
    <3> DEFINE v == [ticket[k] EXCEPT !.agent = 0]
    <3>1. Good(v) /\ ticket' = [ticket EXCEPT ![k] = v]
      BY <1>1, <2>3 DEF Rows
    <3> QED
      BY <3>1
  <2> QED
    BY <2>1, <2>2, <2>3
<1>3. DOMAIN ticket' = DOMAIN ticket /\ \A j \in DOMAIN ticket : ticket'[j] = IF j = k THEN v ELSE ticket[j]
  BY <1>2, RowPut
<1> QED
  BY <1>2, <1>3 DEF RowsRest

\* A coroutine that goes on at pc walks.
LEMMA GoesWalking ==
  ASSUME TypeInv, NEW c \in Jobs, NEW pc \in Pcs, Goto(c, pc), Flows(job[c].pc, pc, op(c))
  PROVE  Walks(c)
  BY Keeping DEF Walks, Keeps

DeskWalks(c) ==
  \/ StopAgent(c) \/ Unassign(c) \/ ClearAgent(c) \/ OpenForm(c) \/ AskNote(c) \/ WaitEndsAgent(c) \/ ReadForm(c)
  \/ ExpireForm(c) \/ StoreValues(c) \/ SubmitForm(c) \/ Resume(c) \/ LookForAgent(c) \/ LookForSame(c)
  \/ Spawn(c) \/ SpawnReview(c)

LEMMA DeskWalk ==
  ASSUME TypeInv, NEW c \in Jobs, DeskWalks(c)
  PROVE  Walks(c) /\ RowsRest
<1>1. CASE StopAgent(c) \/ ExpireForm(c) \/ SpawnReview(c)
  BY <1>1, Idle, NoRows DEF StopAgent, ExpireForm, SpawnReview, Walks
<1>2. CASE Unassign(c)
  <2>1. Return(c) \/ (Goto(c, "clear") /\ job[c].pc = "drop")
    BY <1>2 DEF Unassign
  <2>2. Walks(c)
    BY <2>1, Idle, GoesWalking DEF Walks, Flows, Resting, Pcs
  <2> QED
    BY <1>2, <2>2, NoRows DEF Unassign
<1>3. CASE ClearAgent(c) \/ AskNote(c)
  <2>1. job[c].ticket \in DOMAIN ticket /\ scene' = scene
    BY <1>3, OnTicket DEF ClearAgent, AskNote, AtTicket
  <2>2. RowsRest
    BY <1>3, <2>1, RowTurned DEF ClearAgent, AskNote
  <2>3. Return(c) \/ (Goto(c, "mark") /\ job[c].pc = "note")
    BY <1>3 DEF ClearAgent, AskNote
  <2>4. Walks(c)
    BY <2>3, Idle, GoesWalking DEF Walks, Flows, Asking, Pcs
  <2> QED
    BY <2>2, <2>4
<1>4. CASE OpenForm(c)
  <2>1. Walks(c)
    BY <1>4, GoesWalking DEF OpenForm, Flows, Asking, Pcs
  <2> QED
    BY <1>4, <2>1, NoRows DEF OpenForm
<1>5. CASE WaitEndsAgent(c)
  <2>1. Walks(c)
    BY <1>5, GoesWalking DEF WaitEndsAgent, Flows, Begun, Pcs
  <2> QED
    BY <1>5, <2>1, NoRows DEF WaitEndsAgent
<1>6. CASE ReadForm(c)
  <2>1. PICK f \in DOMAIN form :
          \/ Return(c)
          \/ job' = [job EXCEPT ![c].form = f, ![c].pc = IF form[f].expired THEN "expire" ELSE "store"]
    BY <1>6 DEF ReadForm
  <2> DEFINE pc == IF form[f].expired THEN "expire" ELSE "store"
  <2>2. pc \in {"expire", "store"} /\ f \in Nat
    BY DEF TypeInv, Shapes
  <2>3. Return(c) \/ job' = [job EXCEPT ![c].form = f, ![c].pc = pc]
    BY <2>1
  <2> HIDE DEF pc
  <2>4. CASE job' = [job EXCEPT ![c].form = f, ![c].pc = pc]
    <3>1. Keeps(c, pc)
      BY <2>2, <2>4, Turning DEF Pcs
    <3>2. Flows("new", pc, "submit")
      BY <2>2 DEF Flows, Begun
    <3> QED
      BY <1>6, <3>1, <3>2, NoRows DEF ReadForm, Walks, Keeps, rows
  <2> QED
    BY <1>6, <2>3, <2>4, Idle, NoRows DEF ReadForm, Walks, rows
<1>7. CASE StoreValues(c) \/ SubmitForm(c) \/ Resume(c) \/ LookForAgent(c) \/ LookForSame(c)
  <2>1. Return(c) \/ \E pc \in {"submitted", "waiting", "spawn", "review"} : Goto(c, pc) /\ job[c].pc \in Resting
    <3>1. CASE StoreValues(c)
      BY <3>1 DEF StoreValues, Resting
    <3>2. CASE SubmitForm(c)
      BY <3>2 DEF SubmitForm, Resting
    <3>3. CASE Resume(c)
      BY <3>3 DEF Resume, Resting
    <3>4. CASE LookForAgent(c)
      BY <3>4 DEF LookForAgent, Resting
    <3>5. CASE LookForSame(c)
      BY <3>5 DEF LookForSame, Resting
    <3> QED
      BY <1>7, <3>1, <3>2, <3>3, <3>4, <3>5
  <2>2. ASSUME Return(c) PROVE Walks(c)
    BY <2>2, Idle DEF Walks
  <2>3. ASSUME NEW pc \in {"submitted", "waiting", "spawn", "review"}, Goto(c, pc), job[c].pc \in Resting PROVE Walks(c)
    <3>1. pc \in Pcs /\ Flows(job[c].pc, pc, op(c))
      BY <2>3 DEF Flows, Resting, Pcs
    <3> QED
      BY <2>3, <3>1, GoesWalking
  <2>4. Walks(c)
    BY <2>1, <2>2, <2>3
  <2> QED
    BY <1>7, <2>4, NoRows DEF StoreValues, SubmitForm, Resume, LookForAgent, LookForSame, rows
<1>8. CASE Spawn(c)
  <2>1. Len(agent') \in Nat
    <3>1. job[c].ticket \in DOMAIN ticket /\ agent' = Append(agent, NewAgent(c))
      BY <1>8, OnTicket DEF Spawn, AtTicket
    <3> QED
      BY <3>1, AgentAdded
  <2>2. job' = [job EXCEPT ![c].pc = "link", ![c].agent = Len(agent')] /\ job[c].pc = "spawn"
    BY <1>8 DEF Spawn
  <2>3. Keeps(c, "link")
    BY <2>1, <2>2, Turning DEF Pcs
  <2>4. Flows("spawn", "link", op(c))
    BY DEF Flows, Resting
  <2> QED
    BY <1>8, <2>2, <2>3, <2>4, NoRows DEF Spawn, Walks, Keeps
<1> QED
  BY <1>1, <1>2, <1>3, <1>4, <1>5, <1>6, <1>7, <1>8 DEF DeskWalks

SyncWalks(c) ==
  \/ ListKeys(c) \/ NextKey(c) \/ PassEnds(c) \/ GetObject(c) \/ InsertRefused(c) \/ LoadMax(c) \/ Refresh(c)
ProviderWalks(c) ==
  \/ AutoLook(c) \/ AutoCapacity(c) \/ MakeObject(c) \/ ConfirmRow(c) \/ Resolve(c) \/ AssignFirst(c) \/ PollState(c)

LEMMA SyncWalk ==
  ASSUME TypeInv, NEW c \in Jobs, SyncWalks(c)
  PROVE  Walks(c) /\ RowsRest
<1>1. CASE ListKeys(c) \/ NextKey(c) \/ GetObject(c) \/ InsertRefused(c)
  <2>1. \E pc \in {"next", "get", "select", "discover"} : Goto(c, pc) /\ job[c].pc \in Unread \ {"new"}
    BY <1>1 DEF ListKeys, NextKey, GetObject, InsertRefused, Unread
  <2>2. Walks(c)
    BY <2>1, GoesWalking DEF Flows, Unread, Pcs
  <2> QED
    BY <1>1, <2>2, NoRows DEF ListKeys, NextKey, GetObject, InsertRefused, rows
<1>2. CASE PassEnds(c)
  <2>1. \E pc \in {"done", "full", "discover"} : Goto(c, pc) /\ job[c].pc \in Unread \ {"new"}
    BY <1>2 DEF PassEnds, Unread
  <2>2. Walks(c)
    BY <2>1, GoesWalking DEF Flows, Unread, Pcs
  <2> QED
    BY <1>2, <2>2, NoRows DEF PassEnds, rows
<1>3. CASE LoadMax(c)
  <2>1. Goto(c, "list") /\ (job[c].pc \in {"discover", "full"} \/ (job[c].pc = "new" /\ op(c) = "syncAll"))
    BY <1>3 DEF LoadMax
  <2>2. Walks(c)
    BY <2>1, GoesWalking DEF Flows, Begun, Unread, Pcs
  <2> QED
    BY <1>3, <2>2, NoRows DEF LoadMax, rows
<1>4. CASE Refresh(c)
  <2>1. Goto(c, "next") /\ job[c].pc = "new" /\ op(c) = "refresh"
    BY <1>4 DEF Refresh
  <2>2. Walks(c)
    BY <2>1, GoesWalking DEF Flows, Begun, Pcs
  <2> QED
    BY <1>4, <2>2, NoRows DEF Refresh, rows
<1> QED
  BY <1>1, <1>2, <1>3, <1>4 DEF SyncWalks

LEMMA ProviderWalk ==
  ASSUME TypeInv, NEW c \in Jobs, ProviderWalks(c)
  PROVE  Walks(c) /\ RowsRest
<1>1. CASE AutoLook(c) \/ AutoCapacity(c)
  <2>1. Return(c) \/ \E pc \in {"capacity", "spawn"} : Goto(c, pc) /\ job[c].pc \in Resting
    BY <1>1 DEF AutoLook, AutoCapacity, Resting
  <2>2. Walks(c)
    BY <2>1, Idle, GoesWalking DEF Walks, Flows, Resting, Pcs
  <2> QED
    BY <1>1, <2>2, NoRows DEF AutoLook, AutoCapacity, rows
<1>2. CASE MakeObject(c)
  <2>1. job[c].pc = "make" /\ (Goto(c, "failed") \/ Made(c)) /\ UNCHANGED <<scene, ticket>>
    BY <1>2 DEF MakeObject, rows
  <2>2. CASE Goto(c, "failed")
    <3>1. Walks(c)
      BY <2>1, <2>2, GoesWalking DEF Flows, Making, Pcs
    <3> QED
      BY <2>1, <3>1, NoRows
  <2>3. CASE Made(c)
    <3>1. job' = [job EXCEPT ![c].pc = "bind", ![c].key = Len(object')]
      BY <2>3 DEF Made
    <3>2. Len(object') \in Nat
      <4>1. job[c].ticket \in Nat /\ object' = Append(object, Fresh("new", job[c].ticket))
        BY <2>3 DEF Made, TypeInv, Shapes, Coroutines
      <4>2. Added(Fresh("new", job[c].ticket))
        BY <4>1, FreshAdded
      <4> QED
        BY <4>2 DEF Added
    <3>3. Keeps(c, "bind")
      BY <3>1, <3>2, Turning DEF Pcs
    <3>4. Flows("make", "bind", op(c))
      BY DEF Flows, Making
    <3> QED
      BY <2>1, <3>3, <3>4, NoRows DEF Walks, Keeps
  <2> QED
    BY <2>1, <2>2, <2>3
<1>3. CASE ConfirmRow(c)
  <2>1. job[c].ticket \in DOMAIN ticket /\ scene' = scene /\ job[c].pc \in Making
    BY <1>3, OnTicket DEF ConfirmRow, AtTicket, Making
  <2>2. RowsRest
    BY <1>3, <2>1, RowTurned DEF ConfirmRow
  <2>3. Return(c) \/ Goto(c, "auto")
    BY <1>3 DEF ConfirmRow
  <2>4. Walks(c)
    BY <2>1, <2>3, Idle, GoesWalking DEF Walks, Flows, Pcs
  <2> QED
    BY <2>2, <2>4
<1>4. CASE Resolve(c) \/ AssignFirst(c) \/ PollState(c)
  <2>1. Return(c) \/ \E pc \in {"closed", "assign", "poll", "again"} : Goto(c, pc) /\ job[c].pc \in Endings \ {"stop"}
    BY <1>4 DEF Resolve, AssignFirst, PollState, Stimulus, Endings
  <2>2. Walks(c)
    BY <2>1, Idle, GoesWalking DEF Walks, Flows, Endings, Pcs
  <2> QED
    BY <1>4, <2>2, NoRows DEF Resolve, AssignFirst, PollState, rows
<1> QED
  BY <1>1, <1>2, <1>3, <1>4 DEF ProviderWalks

-----------------------------------------------------------------------------
(* The steps that read a ticket, and those that write one.                 *)

Looks(c) ==
  /\ UNCHANGED <<scene, ticket>>
  /\ \/ /\ job[c].pc = "new" /\ op(c) \in Handlers /\ scene.orders[c].ticket \in DOMAIN ticket
        /\ Reads(c, scene.orders[c].ticket, Begins(c))
     \/ /\ job[c].pc = "prior" /\ scene.orders[c].ticket \in DOMAIN ticket
        /\ Reads(c, scene.orders[c].ticket, "gate")
     \/ job[c].pc = "waiting" /\ (Finishes(c) \/ \E k \in DOMAIN ticket : Reads(c, k, "answer"))
     \/ job[c].pc = "select" /\ (Keeps(c, "insert") \/ \E k \in DOMAIN ticket : Reads(c, k, "update"))

LEMMA LooksAt ==
  ASSUME TypeInv, NEW c \in Jobs, ReadTicket(c) \/ ReadPrior(c) \/ ReadWaiting(c) \/ SelectRow(c)
  PROVE  Looks(c)
<1>0. UNCHANGED <<scene, ticket>>
  BY DEF ReadTicket, ReadPrior, ReadWaiting, SelectRow, rows
<1>1. CASE ReadTicket(c)
  <2>1. Begins(c) \in Pcs
    BY <1>1, BeginsSomewhere DEF ReadTicket, Pcs
  <2> QED
    BY <1>0, <1>1, <2>1, Reading DEF ReadTicket, Looks
<1>2. CASE ReadPrior(c)
  <2>1. scene.orders[c].ticket \in DOMAIN ticket /\ "gate" \in Pcs
    BY <1>2 DEF ReadPrior, TypeInv, Tied, Pcs
  <2> QED
    BY <1>0, <1>2, <2>1, Reading DEF ReadPrior, Looks
<1>3. CASE ReadWaiting(c)
  <2>1. form[job[c].form].ticket \in DOMAIN ticket /\ "answer" \in Pcs
    BY <1>3, OnForm DEF ReadWaiting, AtForm, Pcs
  <2>2. Return(c) \/ job' = Saw(c, form[job[c].form].ticket, "answer")
    BY <1>3 DEF ReadWaiting
  <2> QED
    BY <1>0, <1>3, <2>1, <2>2, Reading, Idle DEF ReadWaiting, Looks
<1>4. CASE SelectRow(c)
  <2>1. Goto(c, "insert") \/ \E k \in DOMAIN ticket : job' = Saw(c, k, "update")
    BY <1>4 DEF SelectRow, RowOf
  <2>2. "insert" \in Pcs /\ "update" \in Pcs
    BY DEF Pcs
  <2> QED
    BY <1>0, <1>4, <2>1, <2>2, Reading, Keeping DEF SelectRow, Looks
<1> QED
  BY <1>1, <1>2, <1>3, <1>4

\* The coroutine's row gets a status and a status to go back to.
PutsRow(c, status, asked) ==
  /\ scene' = scene /\ job[c].ticket \in DOMAIN ticket /\ DOMAIN ticket' = DOMAIN ticket
  /\ \A j \in DOMAIN ticket :
       /\ ticket'[j].ref = ticket[j].ref
       /\ ticket'[j].status = IF j = job[c].ticket THEN status ELSE ticket[j].status
       /\ ticket'[j].asked = IF j = job[c].ticket THEN asked ELSE ticket[j].asked

LEMMA RowWritten ==
  ASSUME TypeInv, NEW c \in Jobs, scene' = scene, job[c].ticket \in DOMAIN ticket, NEW v \in Rows,
         v.ref = Row(c).ref, ticket' = [ticket EXCEPT ![job[c].ticket] = v]
  PROVE  PutsRow(c, v.status, v.asked)
  BY RowPut DEF PutsRow, Row

LEMMA WriteRow ==
  ASSUME TypeInv, NEW c \in Jobs, job[c].pc \in AtTicket, NEW status \in Status, NEW asked \in Status \cup {None},
         Write(c, status, asked), scene' = scene
  PROVE  PutsRow(c, status, asked)
<1> DEFINE v == [Row(c) EXCEPT !.status = status, !.asked = asked]
<1>1. job[c].ticket \in DOMAIN ticket /\ Row(c) \in Rows
  BY OnTicket
<1>2. v \in Rows /\ v.ref = Row(c).ref /\ v.status = status /\ v.asked = asked
  BY <1>1 DEF Rows
<1>3. ticket' = [ticket EXCEPT ![job[c].ticket] = v]
  BY DEF Write, Row
<1> HIDE DEF v
<1>4. PutsRow(c, v.status, v.asked)
  BY <1>1, <1>2, <1>3, RowWritten
<1> QED
  BY <1>2, <1>4

Writes(c) ==
  \/ job[c].pc = "change" /\ PutsRow(c, scene.orders[c].to, Row(c).asked) /\ (Finishes(c) \/ Keeps(c, "stop"))
  \/ job[c].pc = "mark" /\ PutsRow(c, Awaiting, job[c].status) /\ Finishes(c)
  \/ job[c].pc = "gate" /\ PutsRow(c, Awaiting, Row(c).asked) /\ Keeps(c, "remember")
  \/ job[c].pc = "answer" /\ PutsRow(c, Restored(c), None) /\ (Keeps(c, "look") \/ Keeps(c, "resume"))
  \/ job[c].pc = "closed" /\ PutsRow(c, "resolved", Row(c).asked) /\ Keeps(c, "change")
  \/ job[c].pc = "link" /\ PutsRow(c, "in_progress", Row(c).asked) /\ Finishes(c)
  \/ job[c].pc = "remember" /\ PutsRow(c, Row(c).status, job[c].status) /\ Finishes(c)

LEMMA WritesOwn ==
  ASSUME TypeInv, NEW c \in Jobs,
         \/ ChangeStatus(c) \/ Ask(c) \/ WaitAtGate(c) \/ Answer(c) \/ CloseRow(c) \/ LinkAgent(c) \/ RememberWait(c)
  PROVE  Writes(c) \/ (Walks(c) /\ RowsRest)
<1>1. /\ job[c].pc \in AtTicket /\ scene' = scene
      /\ job[c].ticket \in DOMAIN ticket /\ Row(c) \in Rows /\ job[c] \in Coroutines
  <2>1. job[c].pc \in AtTicket /\ scene' = scene
    BY DEF ChangeStatus, Ask, WaitAtGate, Answer, CloseRow, LinkAgent, RememberWait, AtTicket
  <2> QED
    BY <2>1, OnTicket DEF TypeInv, Shapes
<1>2. /\ Row(c).asked \in Status \cup {None} /\ Row(c).status \in Status /\ Awaiting \in Status
      /\ job[c].status \in Status \cup {None} /\ Restored(c) \in Status /\ scene.orders[c].to \in Status
      /\ "resolved" \in Status /\ "in_progress" \in Status /\ None \in Status \cup {None}
  BY <1>1, OrderTypes DEF Rows, Coroutines, Restored, Status, Awaiting
<1>3. CASE ChangeStatus(c)
  <2>1. PutsRow(c, scene.orders[c].to, Row(c).asked)
    BY <1>1, <1>2, <1>3, WriteRow DEF ChangeStatus
  <2>2. Return(c) \/ Goto(c, "stop")
    BY <1>3 DEF ChangeStatus
  <2>3. Finishes(c) \/ Keeps(c, "stop")
    BY <2>2, Idle, Keeping DEF Pcs
  <2> QED
    BY <1>3, <2>1, <2>3 DEF ChangeStatus, Writes
<1>4. CASE Ask(c)
  <2>1. PutsRow(c, Awaiting, job[c].status)
    BY <1>1, <1>2, <1>4, WriteRow DEF Ask, Previous
  <2> QED
    BY <1>4, <2>1, Idle DEF Ask, Writes
<1>5. CASE WaitAtGate(c)
  <2>1. PutsRow(c, Awaiting, Row(c).asked)
    BY <1>1, <1>2, <1>5, WriteRow DEF WaitAtGate
  <2>2. Keeps(c, "remember")
    BY <1>5, Keeping DEF WaitAtGate, Pcs
  <2> QED
    BY <1>5, <2>1, <2>2 DEF WaitAtGate, Writes
<1>6. CASE Answer(c)
  <2>1. PutsRow(c, Restored(c), None)
    BY <1>1, <1>2, <1>6, WriteRow DEF Answer
  <2>2. Goto(c, "look") \/ Goto(c, "resume")
    BY <1>6 DEF Answer
  <2>3. Keeps(c, "look") \/ Keeps(c, "resume")
    BY <2>2, Keeping DEF Pcs
  <2> QED
    BY <1>6, <2>1, <2>3 DEF Answer, Writes
<1>7. CASE CloseRow(c)
  <2>1. PutsRow(c, "resolved", Row(c).asked)
    BY <1>1, <1>2, <1>7, WriteRow DEF CloseRow
  <2>2. Keeps(c, "change")
    BY <1>7, Keeping DEF CloseRow, Pcs
  <2> QED
    BY <1>7, <2>1, <2>2 DEF CloseRow, Writes
<1>8. CASE LinkAgent(c)
  <2> DEFINE v == [Row(c) EXCEPT !.agent = job[c].agent, !.status = "in_progress"]
  <2>1. v \in Rows /\ v.ref = Row(c).ref /\ v.status = "in_progress" /\ v.asked = Row(c).asked
    BY <1>1, <1>2 DEF Rows, Coroutines
  <2>2. ticket' = [ticket EXCEPT ![job[c].ticket] = v]
    BY <1>8 DEF LinkAgent, Row
  <2> HIDE DEF v
  <2>3. PutsRow(c, v.status, v.asked)
    BY <1>1, <2>1, <2>2, RowWritten
  <2>4. PutsRow(c, "in_progress", Row(c).asked)
    BY <2>1, <2>3
  <2> QED
    BY <1>8, <2>4, Idle DEF LinkAgent, Writes
<1>9. CASE RememberWait(c)
  <2>1. Finishes(c)
    BY <1>9, Idle DEF RememberWait
  <2>2. CASE ticket' = ticket
    BY <1>1, <2>1, <2>2, NoRows DEF Walks
  <2>3. CASE ticket' # ticket
    <3> DEFINE v == [Row(c) EXCEPT !.told = TRUE, !.asked = job[c].status]
    <3>1. v \in Rows /\ v.ref = Row(c).ref /\ v.status = Row(c).status /\ v.asked = job[c].status
      BY <1>1, <1>2 DEF Rows
    <3>2. ticket' = [ticket EXCEPT ![job[c].ticket] = v]
      BY <1>9, <2>3 DEF RememberWait, Row, Previous
    <3> HIDE DEF v
    <3>3. PutsRow(c, v.status, v.asked)
      BY <1>1, <3>1, <3>2, RowWritten
    <3>4. PutsRow(c, Row(c).status, job[c].status)
      BY <3>1, <3>3
    <3> QED
      BY <1>9, <2>1, <3>4 DEF RememberWait, Writes
  <2> QED
    BY <2>2, <2>3
<1> QED
  BY <1>3, <1>4, <1>5, <1>6, <1>7, <1>8, <1>9

\* The row takes the key of the object that was made for it.
TakesKey(c) ==
  /\ scene' = scene /\ job[c].pc = "bind" /\ Keeps(c, "confirm")
  /\ job[c].ticket \in DOMAIN ticket /\ DOMAIN ticket' = DOMAIN ticket
  /\ \A j \in DOMAIN ticket :
       /\ j # job[c].ticket => ticket'[j].ref = ticket[j].ref
       /\ ticket'[j].status = ticket[j].status /\ ticket'[j].asked \in {ticket[j].asked, None}

LEMMA BindTakes == ASSUME TypeInv, NEW c \in Jobs, BindRow(c) PROVE TakesKey(c) \/ (Walks(c) /\ RowsRest)
<1> DEFINE k == job[c].ticket
           v == [ticket[k] EXCEPT !.ref = job[c].key, !.asked = None]
<1>1. /\ scene' = scene /\ job[c].pc = "bind" /\ k \in DOMAIN ticket /\ ticket[k] \in Rows /\ job[c].key \in Nat
      /\ \/ Return(c) /\ UNCHANGED ticket
         \/ Goto(c, "confirm") /\ ticket' = [ticket EXCEPT ![k] = v]
  <2>1. scene' = scene /\ job[c].pc = "bind" /\ job[c].pc \in AtTicket
    BY DEF BindRow, AtTicket
  <2>2. k \in DOMAIN ticket /\ ticket[k] \in Rows /\ job[c].key \in Nat
    BY <2>1, OnTicket DEF Row, TypeInv, Shapes, Coroutines
  <2> QED
    BY <2>1, <2>2 DEF BindRow, BoundRef
<1>2. v \in Rows /\ v.status = ticket[k].status /\ v.asked = None
  BY <1>1 DEF Rows
<1> HIDE DEF v
<1>3. CASE Return(c) /\ UNCHANGED ticket
  BY <1>1, <1>3, Idle, NoRows DEF Walks
<1>4. CASE Goto(c, "confirm") /\ ticket' = [ticket EXCEPT ![k] = v]
  <2>1. DOMAIN ticket' = DOMAIN ticket /\ \A j \in DOMAIN ticket : ticket'[j] = IF j = k THEN v ELSE ticket[j]
    BY <1>1, <1>2, <1>4, RowPut
  <2>2. Keeps(c, "confirm")
    BY <1>4, Keeping DEF Pcs
  <2> QED
    BY <1>1, <1>2, <2>1, <2>2 DEF TakesKey
<1> QED
  BY <1>1, <1>3, <1>4

\* A sync writes the row that carries the key of what it has read.
Refreshes(c) ==
  /\ scene' = scene /\ job[c].pc = "update" /\ Finishes(c) /\ DOMAIN ticket' = DOMAIN ticket
  /\ \A j \in DOMAIN ticket :
       /\ ticket'[j].ref = ticket[j].ref
       /\ IF ticket[j].ref = job[c].key
            THEN /\ ticket'[j].status = EffectiveStatus(sync[c].got, job[c].status, sync[c].active)
                 /\ ticket'[j].asked = None
            ELSE ticket'[j].status = ticket[j].status /\ ticket'[j].asked = ticket[j].asked

LEMMA UpdateRefreshes == ASSUME TypeInv, NEW c \in Jobs, UpdateRow(c) PROVE Refreshes(c)
<1> DEFINE status == EffectiveStatus(sync[c].got, job[c].status, sync[c].active)
<1>1. scene' = scene /\ job[c].pc = "update" /\ Finishes(c) /\ sync[c].key = job[c].key
  BY Idle DEF UpdateRow, TypeInv, Synced
<1>2. ticket' = [k \in DOMAIN ticket |->
                   IF k \in RowOf(job[c].key) THEN [ticket[k] EXCEPT !.status = status, !.asked = None] ELSE ticket[k]]
  BY <1>1 DEF UpdateRow
<1> HIDE DEF status
<1>3. ASSUME NEW j \in DOMAIN ticket
      PROVE  /\ ticket'[j].ref = ticket[j].ref
             /\ IF ticket[j].ref = job[c].key THEN ticket'[j].status = status /\ ticket'[j].asked = None
                ELSE ticket'[j].status = ticket[j].status /\ ticket'[j].asked = ticket[j].asked
  <2>1. ticket[j] \in Rows
    BY DEF TypeInv, Shapes
  <2>2. CASE ticket[j].ref = job[c].key
    <3>1. ticket'[j] = [ticket[j] EXCEPT !.status = status, !.asked = None]
      BY <1>2, <2>2 DEF RowOf
    <3> QED
      BY <2>1, <2>2, <3>1 DEF Rows
  <2>3. CASE ticket[j].ref # job[c].key
    <3>1. ticket'[j] = ticket[j]
      BY <1>2, <2>3 DEF RowOf
    <3> QED
      BY <2>3, <3>1
  <2> QED
    BY <2>2, <2>3
<1> QED
  BY <1>1, <1>2, <1>3 DEF Refreshes, status

\* A row is added.
AddsRow(c) ==
  /\ scene' = scene /\ Single(c) /\ job'[c].status = job[c].status /\ job'[c].asked = job[c].asked
  /\ Len(ticket) \in Nat /\ Len(ticket) + 1 \notin DOMAIN ticket
  /\ DOMAIN ticket' = DOMAIN ticket \cup {Len(ticket) + 1}
  /\ \A j \in DOMAIN ticket : ticket'[j] = ticket[j]
  /\ ticket'[Len(ticket) + 1].asked = None /\ ticket'[Len(ticket) + 1].status \in {"new", sync[c].got}
  /\ \/ /\ job[c].pc = "new" /\ op(c) = "create" /\ ticket'[Len(ticket) + 1].ref = 0
        /\ job'[c].pc = "make" /\ job'[c].ticket = Len(ticket) + 1
     \/ job[c].pc = "insert" /\ job'[c].pc = "auto" /\ job'[c].ticket = Len(ticket) + 1
     \/ job[c].pc = "insert" /\ job'[c].pc = "next" /\ job'[c].ticket = 0

LEMMA CreateAdds == ASSUME TypeInv, NEW c \in Jobs, CreateTicket(c) PROVE AddsRow(c)
<1> DEFINE row == [ref |-> 0, status |-> "new", asked |-> None, agent |-> 0, told |-> FALSE]
           v == [job[c] EXCEPT !.pc = "make", !.ticket = Len(ticket')]
<1>1. row \in Rows /\ row.ref = 0 /\ row.status = "new" /\ row.asked = None
  BY DEF Rows, Status
<1>2. ticket' = Append(ticket, row) /\ job' = [job EXCEPT ![c] = v] /\ job[c].pc = "new" /\ op(c) = "create" /\ scene' = scene
  BY DEF CreateTicket
<1> HIDE DEF row
<1>3. ticket \in Seq(Rows) /\ job[c] \in Coroutines
  BY DEF TypeInv, Shapes
<1>4. /\ DOMAIN ticket' = DOMAIN ticket \cup {Len(ticket) + 1} /\ Len(ticket) + 1 \notin DOMAIN ticket
      /\ Len(ticket) \in Nat /\ (\A k \in DOMAIN ticket : ticket'[k] = ticket[k])
      /\ ticket'[Len(ticket) + 1] = row /\ Len(ticket') = Len(ticket) + 1
  BY <1>1, <1>2, <1>3, Extended
<1>5. v.pc = "make" /\ v.ticket = Len(ticket) + 1 /\ v.status = job[c].status /\ v.asked = job[c].asked
  BY <1>3, <1>4 DEF Coroutines
<1> HIDE DEF v
<1>6. Single(c) /\ job'[c] = v
  BY <1>2 DEF Single, TypeInv, Shapes
<1> QED
  BY <1>1, <1>2, <1>4, <1>5, <1>6 DEF AddsRow

LEMMA InsertAdds == ASSUME TypeInv, NEW c \in Jobs, InsertRow(c) PROVE AddsRow(c)
<1> DEFINE row == [ref |-> sync[c].key, status |-> sync[c].got, asked |-> None, agent |-> 0, told |-> FALSE]
           full == sync[c].phase = "full"
           v == [job[c] EXCEPT !.pc = IF full THEN "next" ELSE "auto", !.ticket = IF full THEN 0 ELSE Len(ticket')]
<1>1. ticket' = Append(ticket, row) /\ job[c].pc = "insert" /\ job' = [job EXCEPT ![c] = v] /\ scene' = scene
  BY DEF InsertRow
<1>2. ticket \in Seq(Rows) /\ job[c] \in Coroutines
  BY DEF TypeInv, Shapes
<1>3. sync[c].key \in Nat /\ sync[c].got \in Status
  BY <1>1, SyncOf DEF TypeInv, Synced, AtObject
<1>4. row \in Rows /\ row.status = sync[c].got /\ row.asked = None
  BY <1>3 DEF Rows
<1> HIDE DEF row
<1>5. /\ DOMAIN ticket' = DOMAIN ticket \cup {Len(ticket) + 1} /\ Len(ticket) + 1 \notin DOMAIN ticket
      /\ Len(ticket) \in Nat /\ (\A k \in DOMAIN ticket : ticket'[k] = ticket[k])
      /\ ticket'[Len(ticket) + 1] = row /\ Len(ticket') = Len(ticket) + 1
  BY <1>1, <1>2, <1>4, Extended
<1>6. /\ (v.pc = "next" /\ v.ticket = 0) \/ (v.pc = "auto" /\ v.ticket = Len(ticket) + 1)
      /\ v.status = job[c].status /\ v.asked = job[c].asked
  BY <1>2, <1>5 DEF Coroutines
<1> HIDE DEF v
<1>7. Single(c) /\ job'[c] = v
  BY <1>1 DEF Single, TypeInv, Shapes
<1> QED
  BY <1>1, <1>4, <1>5, <1>6, <1>7 DEF AddsRow

\* A restart: who has not begun may still begin.
Restarts ==
  /\ UNCHANGED <<scene, ticket>>
  /\ \A d \in Jobs : /\ job'[d].pc \in {"new", "done"}
                     /\ \/ job'[d] = job[d]
                        \/ job'[d].ticket = 0 /\ job'[d].status = None /\ job'[d].asked = None
                     /\ job'[d].pc = "new" => job[d].pc = "new" \/ op(d) = "loop"

LEMMA CrashRestarts == ASSUME TypeInv, Crash PROVE Restarts
<1>1. UNCHANGED <<scene, ticket>>
  BY DEF Crash, rows
<1>2. ASSUME NEW d \in Jobs
      PROVE  \/ job'[d] = [NoJob EXCEPT !.pc = "new"] /\ op(d) = "loop"
             \/ job'[d] = job[d] /\ job[d].pc = "new"
             \/ job'[d] = NoJob
  BY DEF Crash
<1>3. /\ [NoJob EXCEPT !.pc = "new"].pc = "new" /\ [NoJob EXCEPT !.pc = "new"].ticket = 0
      /\ [NoJob EXCEPT !.pc = "new"].status = None /\ [NoJob EXCEPT !.pc = "new"].asked = None
      /\ NoJob.pc = "done" /\ NoJob.ticket = 0 /\ NoJob.status = None /\ NoJob.asked = None
  BY DEF NoJob
<1> QED
  BY <1>1, <1>2, <1>3 DEF Restarts

\* Every step is one of these.
LEMMA NextWalks ==
  ASSUME TypeInv, [Next]_vars
  PROVE  \/ job' = job /\ RowsRest
         \/ Restarts
         \/ \E c \in Jobs : \/ Walks(c) /\ RowsRest
                            \/ Looks(c)
                            \/ Writes(c) \/ TakesKey(c) \/ Refreshes(c) \/ AddsRow(c)
<1>1. ASSUME NEW c \in Jobs, Arrives(c) \/ Proceeds(c)
      PROVE  (Walks(c) /\ RowsRest) \/ Looks(c) \/ Writes(c)
  <2>1. \/ DeskWalks(c) \/ ReadTicket(c) \/ ReadPrior(c) \/ ReadWaiting(c)
        \/ ChangeStatus(c) \/ Ask(c) \/ WaitAtGate(c) \/ Answer(c) \/ LinkAgent(c) \/ RememberWait(c)
    BY <1>1 DEF Arrives, Proceeds, DeskWalks
  <2> QED
    BY <2>1, DeskWalk, LooksAt, WritesOwn
<1>2. ASSUME NEW c \in Jobs, Syncs(c) \/ Provides(c) \/ LoadMax(c) \/ Refresh(c) \/ CreateTicket(c)
      PROVE  (Walks(c) /\ RowsRest) \/ Looks(c) \/ Writes(c) \/ TakesKey(c) \/ Refreshes(c) \/ AddsRow(c)
  <2>1. \/ SyncWalks(c) \/ ProviderWalks(c) \/ SelectRow(c) \/ CloseRow(c) \/ BindRow(c) \/ UpdateRow(c)
        \/ CreateTicket(c) \/ InsertRow(c)
    BY <1>2 DEF Syncs, Provides, SyncWalks, ProviderWalks
  <2> QED
    BY <2>1, SyncWalk, ProviderWalk, LooksAt, WritesOwn, BindTakes, UpdateRefreshes, CreateAdds, InsertAdds
<1>3. CASE DeskNext /\ UNCHANGED provVars
  <2>1. CASE (\E f \in DOMAIN form : FormExpires(f)) \/ (\E a \in DOMAIN agent : AgentRow(a))
    BY <2>1, AgentRowWrites, NoRows DEF FormExpires
  <2> QED
    BY <1>1, <1>3, <2>1 DEF DeskNext, AgentRow
<1>4. CASE Boot
  <2>1. /\ UNCHANGED <<scene, ticket>> /\ Loop \in Jobs /\ job[Loop].pc = "new" /\ op(Loop) = "loop"
        /\ \E pc \in {"full", "gone"} : Goto(Loop, pc)
    BY <1>4, SyncAssumption DEF Boot, rows
  <2>2. Walks(Loop)
    BY <2>1, GoesWalking DEF Flows, Begun, Pcs
  <2> QED
    BY <2>1, <2>2, NoRows
<1>5. CASE PersonCreates \/ (\E n \in Keys : PersonMoves(n)) \/ UNCHANGED vars
  BY <1>5, NoRows DEF PersonCreates, PersonMoves, vars, deskVars, rows
<1>6. CASE Crash
  BY <1>6, CrashRestarts
<1> QED
  BY <1>1, <1>2, <1>3, <1>4, <1>5, <1>6 DEF Next

-----------------------------------------------------------------------------
(* Coroutines stay on the course of their operation.                       *)

LEMMA OthersInTurn ==
  ASSUME InTurns, scene' = scene, NEW c \in Jobs, Single(c), InTurn(c)'
  PROVE  InTurns'
<1>1. ASSUME NEW d \in Jobs PROVE InTurn(d)'
  <2>1. CASE d = c
    BY <2>1
  <2>2. CASE d # c
    <3>1. job'[d] = job[d] /\ op(d)' = op(d) /\ InTurn(d)
      BY <2>2 DEF Single, op, InTurns
    <3> QED
      BY <3>1 DEF InTurn
  <2> QED
    BY <2>1, <2>2
<1> QED
  BY <1>1 DEF InTurns

LEMMA FinishesInTurn ==
  ASSUME scene' = scene, NEW c \in Jobs, Finishes(c)
  PROVE  InTurn(c)'
<1>1. op(c)' = op(c) /\ job'[c].status = None /\ job'[c].asked = None
      /\ job'[c].pc = IF op(c) \in {"refresh", "syncAll", "loop"} THEN "next" ELSE "done"
  BY DEF Finishes, op
<1>2. CASE op(c) \in {"refresh", "syncAll", "loop"}
  BY <1>1, <1>2 DEF InTurn, Endings, Asking, Holding, Making, Unread, Enders, Askers
<1>3. CASE op(c) \notin {"refresh", "syncAll", "loop"}
  BY <1>1, <1>3 DEF InTurn, Endings, Asking, Holding, Making, Unread, Enders, Askers
<1> QED
  BY <1>2, <1>3

LEMMA FlowsInTurn ==
  ASSUME InTurns, scene' = scene, NEW c \in Jobs, Keeps(c, job'[c].pc), Flows(job[c].pc, job'[c].pc, op(c))
  PROVE  InTurn(c)'
<1> DEFINE p == job[c].pc
           q == job'[c].pc
<1>1. /\ op(c)' = op(c) /\ InTurn(c) /\ scene'.orders[c].ticket = scene.orders[c].ticket
      /\ job'[c].ticket = job[c].ticket /\ job'[c].status = job[c].status /\ job'[c].asked = job[c].asked
  BY DEF Keeps, InTurns, op
<1>2. CASE {p, q} \subseteq Endings \ {"stop"} \/ {p, q} \subseteq Asking
  BY <1>1, <1>2 DEF InTurn, Endings, Asking, Holding, Making, Unread, Enders, Askers
<1>3. CASE p \in Making /\ q \in Making \cup {"auto"}
  BY <1>1, <1>3 DEF InTurn, Endings, Asking, Holding, Making, Unread, Enders, Askers
<1>4. CASE p \in Unread \ {"new"} /\ q \in (Unread \ {"new"}) \cup {"done"}
  BY <1>1, <1>4 DEF InTurn, Endings, Asking, Holding, Making, Unread, Enders, Askers
<1>5. CASE {p, q} \subseteq Resting
  BY <1>1, <1>5 DEF InTurn, Endings, Asking, Holding, Making, Unread, Enders, Askers, Resting
<1>6. CASE p = "new" /\ Begun(op(c), q)
  BY <1>1, <1>6 DEF InTurn, Endings, Asking, Holding, Making, Unread, Enders, Askers, Begun
<1> QED
  BY <1>2, <1>3, <1>4, <1>5, <1>6 DEF Flows, Making

LEMMA LooksInTurn ==
  ASSUME InTurns, NEW c \in Jobs, Looks(c)
  PROVE  Single(c) /\ InTurn(c)'
<1>0. op(c)' = op(c) /\ InTurn(c) /\ scene' = scene
  BY DEF Looks, InTurns, op
<1>1. CASE Finishes(c)
  BY <1>0, <1>1, FinishesInTurn DEF Finishes
<1>2. CASE job[c].pc = "select" /\ Keeps(c, "insert")
  <2>1. Flows("select", "insert", op(c))
    BY DEF Flows, Unread
  <2>2. Keeps(c, job'[c].pc) /\ Flows(job[c].pc, job'[c].pc, op(c)) /\ Single(c)
    BY <1>2, <2>1 DEF Keeps
  <2> QED
    BY <1>0, <2>2, FlowsInTurn
<1>3. CASE job[c].pc = "new" /\ op(c) \in Handlers /\ Reads(c, scene.orders[c].ticket, Begins(c))
  <2>1. Single(c) /\ job'[c].pc = Begins(c) /\ job'[c].ticket = scene.orders[c].ticket
    BY <1>3 DEF Reads
  <2>2. /\ op(c) \in Enders => Begins(c) \in Endings
        /\ op(c) \in Askers => Begins(c) \in Asking
        /\ op(c) = "push" => Begins(c) = "make"
        /\ op(c) \in Handlers \ (Enders \cup Askers \cup {"push"}) => Begins(c) \in {"answer", "look", "drop", "same"}
    BY DEF Begins, Handlers, Enders, Askers, Endings, Asking
  <2>3. op(c) \in Enders \/ op(c) \in Askers \/ op(c) = "push" \/ op(c) \in Handlers \ (Enders \cup Askers \cup {"push"})
    BY <1>3
  <2>4. "wait" \notin Handlers
    BY DEF Handlers
  <2> QED
    BY <1>0, <1>3, <2>1, <2>2, <2>3, <2>4 DEF InTurn, Endings, Asking, Holding, Making, Unread, Enders, Askers
<1>4. CASE job[c].pc = "prior" /\ Reads(c, scene.orders[c].ticket, "gate")
  <2>1. Single(c) /\ job'[c].pc = "gate" /\ job'[c].ticket = scene.orders[c].ticket
    BY <1>4 DEF Reads
  <2> QED
    BY <1>0, <1>4, <2>1 DEF InTurn, Endings, Asking, Holding, Making, Unread, Enders, Askers
<1>5. CASE \/ job[c].pc = "waiting" /\ \E k \in DOMAIN ticket : Reads(c, k, "answer")
           \/ job[c].pc = "select" /\ \E k \in DOMAIN ticket : Reads(c, k, "update")
  <2>1. Single(c) /\ job'[c].pc \in {"answer", "update"} /\ job[c].pc \in {"waiting", "select"}
    BY <1>5 DEF Reads
  <2> QED
    BY <1>0, <2>1 DEF InTurn, Endings, Asking, Holding, Making, Unread, Enders, Askers
<1> QED
  BY <1>1, <1>2, <1>3, <1>4, <1>5 DEF Looks

LEMMA WritesInTurn ==
  ASSUME InTurns, NEW c \in Jobs, Writes(c)
  PROVE  scene' = scene /\ Single(c) /\ InTurn(c)'
<1>0. scene' = scene /\ op(c)' = op(c) /\ InTurn(c)
  BY DEF Writes, PutsRow, InTurns, op
<1>1. CASE Finishes(c)
  BY <1>0, <1>1, FinishesInTurn DEF Finishes
<1>2. CASE \/ job[c].pc = "change" /\ Keeps(c, "stop")
           \/ job[c].pc = "gate" /\ Keeps(c, "remember")
           \/ job[c].pc = "closed" /\ Keeps(c, "change")
           \/ job[c].pc = "answer" /\ (Keeps(c, "look") \/ Keeps(c, "resume"))
  <2>1. /\ Single(c) /\ job'[c].ticket = job[c].ticket
        /\ \/ job[c].pc = "change" /\ job'[c].pc = "stop"
           \/ job[c].pc = "gate" /\ job'[c].pc = "remember"
           \/ job[c].pc = "closed" /\ job'[c].pc = "change"
           \/ job[c].pc = "answer" /\ job'[c].pc \in {"look", "resume"}
    BY <1>2 DEF Keeps
  <2>2. scene'.orders[c].ticket = scene.orders[c].ticket
    BY <1>0
  <2> QED
    BY <1>0, <2>1, <2>2 DEF InTurn, Endings, Asking, Holding, Making, Unread, Enders, Askers
<1> QED
  BY <1>1, <1>2 DEF Writes

LEMMA NextInTurn == ASSUME TypeInv, InTurns, [Next]_vars PROVE InTurns'
<1>1. CASE job' = job /\ RowsRest
  BY <1>1 DEF RowsRest, InTurns, InTurn, op
<1>2. CASE Restarts
  <2>1. ASSUME NEW d \in Jobs PROVE InTurn(d)'
    <3>1. InTurn(d) /\ op(d)' = op(d) /\ job'[d].pc \in {"new", "done"}
          /\ (job'[d] = job[d] \/ (job'[d].status = None /\ job'[d].asked = None))
      BY <1>2 DEF Restarts, InTurns, op
    <3> QED
      BY <3>1 DEF InTurn, Endings, Asking, Holding, Making, Unread, Enders, Askers
  <2> QED
    BY <2>1 DEF InTurns
<1>3. ASSUME NEW c \in Jobs, Walks(c) /\ RowsRest PROVE InTurns'
  BY <1>3, FinishesInTurn, FlowsInTurn, OthersInTurn DEF Walks, RowsRest, Keeps, Finishes
<1>4. ASSUME NEW c \in Jobs, Looks(c) \/ Writes(c) PROVE InTurns'
  BY <1>4, LooksInTurn, WritesInTurn, OthersInTurn DEF Looks
<1>5. ASSUME NEW c \in Jobs, Refreshes(c) PROVE InTurns'
  BY <1>5, FinishesInTurn, OthersInTurn DEF Refreshes, Finishes
<1>6. ASSUME NEW c \in Jobs, TakesKey(c) PROVE InTurns'
  <2>1. Flows("bind", "confirm", op(c))
    BY DEF Flows, Making
  <2>2. Keeps(c, job'[c].pc) /\ Flows(job[c].pc, job'[c].pc, op(c)) /\ Single(c) /\ scene' = scene
    BY <1>6, <2>1 DEF TakesKey, Keeps
  <2> QED
    BY <2>2, FlowsInTurn, OthersInTurn
<1>7. ASSUME NEW c \in Jobs, AddsRow(c) PROVE InTurns'
  <2>1. /\ scene' = scene /\ Single(c) /\ op(c)' = op(c) /\ InTurn(c)
        /\ job'[c].status = job[c].status /\ job'[c].asked = job[c].asked
        /\ \/ job[c].pc = "new" /\ op(c) = "create" /\ job'[c].pc = "make"
           \/ job[c].pc = "insert" /\ job'[c].pc \in {"auto", "next"}
    BY <1>7 DEF AddsRow, InTurns, op
  <2>2. InTurn(c)'
    BY <2>1 DEF InTurn, Endings, Asking, Holding, Making, Unread, Enders, Askers
  <2> QED
    BY <2>1, <2>2, OthersInTurn
<1> QED
  BY <1>1, <1>2, <1>3, <1>4, <1>5, <1>6, <1>7, NextWalks

\* The provider's states are others.
GotKept == \A s \in Jobs : sync'[s].got \in {sync[s].got, None}
ObjectsKept ==
  \A n \in DOMAIN object' :
    \/ object'[n].status \in {"new", "assigned", "resolved"}
    \/ n \in DOMAIN object /\ object'[n].status = object[n].status

LEMMA NoneStays == ASSUME NoWaitThere, GotKept, ObjectsKept PROVE NoWaitThere'
  BY DEF NoWaitThere, GotKept, ObjectsKept, Keys, Awaiting, None

LEMMA GotReplaced ==
  ASSUME TypeInv, NEW s \in Jobs, NEW v, v.got \in {sync[s].got, None}, sync' = [sync EXCEPT ![s] = v]
  PROVE  GotKept
<1>1. \A r \in Jobs : sync'[r] = IF r = s THEN v ELSE sync[r]
  BY DEF TypeInv, Shapes
<1> QED
  BY <1>1 DEF GotKept

LEMMA StatusReplaced ==
  ASSUME TypeInv, NEW n, NEW v \in Objects, v.status \in {"new", "assigned", "resolved"} \/ v.status = object[n].status,
         object' = [object EXCEPT ![n] = v]
  PROVE  ObjectsKept
<1>1. /\ DOMAIN [object EXCEPT ![n] = v] = DOMAIN object
      /\ \A m \in DOMAIN object : [object EXCEPT ![n] = v][m] = IF m = n THEN v ELSE object[m]
  BY Replaced DEF TypeInv, Shapes
<1> QED
  BY <1>1 DEF ObjectsKept

LEMMA StatusGiven ==
  ASSUME TypeInv, NEW n, NEW status \in {"new", "assigned", "resolved"}, object' = [object EXCEPT ![n].status = status]
  PROVE  ObjectsKept
<1> DEFINE v == [object[n] EXCEPT !.status = status]
<1>1. CASE n \in DOMAIN object
  <2>1. object[n] \in Objects
    BY <1>1 DEF TypeInv, Shapes
  <2>2. v \in Objects /\ v.status = status /\ object' = [object EXCEPT ![n] = v]
    BY <2>1 DEF Objects, Status
  <2> QED
    BY <2>2, StatusReplaced
<1>2. CASE n \notin DOMAIN object
  <2>1. object' = object
    BY <1>2 DEF TypeInv, Shapes
  <2> QED
    BY <2>1 DEF ObjectsKept
<1> QED
  BY <1>1, <1>2

LEMMA SyncGets ==
  ASSUME TypeInv, NoWaitThere, NEW s \in Jobs,
         \/ SyncWalks(s) \/ SelectRow(s)
  PROVE  NoWaitThere'
<1>0. sync[s] \in Syncing /\ sync[s].key \in 0..Len(object)
  BY SyncOf
<1>1. CASE ListKeys(s) \/ NextKey(s) \/ LoadMax(s) \/ Refresh(s) \/ SelectRow(s)
  <2>1. PICK x, y : \/ sync' = sync
                    \/ sync' = [sync EXCEPT ![s].todo = x, ![s].max = y]
                    \/ sync' = [sync EXCEPT ![s].todo = x]
                    \/ sync' = [sync EXCEPT ![s].key = x, ![s].todo = @ \ {x}]
                    \/ sync' = [sync EXCEPT ![s].max = x, ![s].phase = y]
                    \/ sync' = [sync EXCEPT ![s].todo = x, ![s].phase = y]
                    \/ sync' = [sync EXCEPT ![s].active = x]
    <3>1. CASE ListKeys(s)
      <4>1. \/ sync' = [sync EXCEPT ![s].todo = Listed(s), ![s].max = IF Keys = {} THEN sync[s].max ELSE Max(Keys)]
            \/ sync' = [sync EXCEPT ![s].todo = {}]
        BY <3>1 DEF ListKeys
      <4> QED
        BY <4>1
    <3>2. CASE NextKey(s)
      BY <3>2 DEF NextKey
    <3>3. CASE LoadMax(s)
      BY <3>3 DEF LoadMax
    <3>4. CASE Refresh(s)
      BY <3>4 DEF Refresh
    <3>5. CASE SelectRow(s)
      BY <3>5 DEF SelectRow
    <3> QED
      BY <1>1, <3>1, <3>2, <3>3, <3>4, <3>5
  <2>2. GotKept
    <3>1. CASE sync' = sync
      BY <3>1 DEF GotKept
    <3>2. CASE sync' = [sync EXCEPT ![s].todo = x, ![s].max = y]
      <4> DEFINE v == [sync[s] EXCEPT !.todo = x, !.max = y]
      <4>1. v.got = sync[s].got
        BY <1>0 DEF Syncing
      <4>2. sync' = [sync EXCEPT ![s] = v]
        BY <3>2
      <4> HIDE DEF v
      <4>3. \A r \in Jobs : sync'[r] = IF r = s THEN v ELSE sync[r]
        BY <4>2 DEF TypeInv, Shapes
      <4> QED
        BY <4>1, <4>3 DEF GotKept
    <3>3. CASE sync' = [sync EXCEPT ![s].todo = x]
      <4> DEFINE v == [sync[s] EXCEPT !.todo = x]
      <4>1. v.got = sync[s].got
        BY <1>0 DEF Syncing
      <4>2. sync' = [sync EXCEPT ![s] = v]
        BY <3>3
      <4> HIDE DEF v
      <4>3. \A r \in Jobs : sync'[r] = IF r = s THEN v ELSE sync[r]
        BY <4>2 DEF TypeInv, Shapes
      <4> QED
        BY <4>1, <4>3 DEF GotKept
    <3>4. CASE sync' = [sync EXCEPT ![s].key = x, ![s].todo = @ \ {x}]
      <4> DEFINE v == [sync[s] EXCEPT !.key = x, !.todo = @ \ {x}]
      <4>1. v.got = sync[s].got
        BY <1>0 DEF Syncing
      <4>2. sync' = [sync EXCEPT ![s] = v]
        BY <3>4
      <4> HIDE DEF v
      <4>3. \A r \in Jobs : sync'[r] = IF r = s THEN v ELSE sync[r]
        BY <4>2 DEF TypeInv, Shapes
      <4> QED
        BY <4>1, <4>3 DEF GotKept
    <3>5. CASE sync' = [sync EXCEPT ![s].max = x, ![s].phase = y]
      <4> DEFINE v == [sync[s] EXCEPT !.max = x, !.phase = y]
      <4>1. v.got = sync[s].got
        BY <1>0 DEF Syncing
      <4>2. sync' = [sync EXCEPT ![s] = v]
        BY <3>5
      <4> HIDE DEF v
      <4>3. \A r \in Jobs : sync'[r] = IF r = s THEN v ELSE sync[r]
        BY <4>2 DEF TypeInv, Shapes
      <4> QED
        BY <4>1, <4>3 DEF GotKept
    <3>6. CASE sync' = [sync EXCEPT ![s].todo = x, ![s].phase = y]
      <4> DEFINE v == [sync[s] EXCEPT !.todo = x, !.phase = y]
      <4>1. v.got = sync[s].got
        BY <1>0 DEF Syncing
      <4>2. sync' = [sync EXCEPT ![s] = v]
        BY <3>6
      <4> HIDE DEF v
      <4>3. \A r \in Jobs : sync'[r] = IF r = s THEN v ELSE sync[r]
        BY <4>2 DEF TypeInv, Shapes
      <4> QED
        BY <4>1, <4>3 DEF GotKept
    <3>7. CASE sync' = [sync EXCEPT ![s].active = x]
      <4> DEFINE v == [sync[s] EXCEPT !.active = x]
      <4>1. v.got = sync[s].got
        BY <1>0 DEF Syncing
      <4>2. sync' = [sync EXCEPT ![s] = v]
        BY <3>7
      <4> HIDE DEF v
      <4>3. \A r \in Jobs : sync'[r] = IF r = s THEN v ELSE sync[r]
        BY <4>2 DEF TypeInv, Shapes
      <4> QED
        BY <4>1, <4>3 DEF GotKept
    <3> QED
      BY <2>1, <3>1, <3>2, <3>3, <3>4, <3>5, <3>6, <3>7
  <2>3. object' = object
    BY <1>1 DEF ListKeys, NextKey, LoadMax, Refresh, SelectRow
  <2> QED
    BY <2>2, <2>3, NoneStays DEF ObjectsKept
<1>2. CASE PassEnds(s) \/ InsertRefused(s)
  <2>1. PICK r : sync' = sync \/ sync' = [sync EXCEPT ![s] = [NoSync EXCEPT !.rounds = r]]
    <3>1. CASE PassEnds(s)
      BY <3>1 DEF PassEnds
    <3>2. CASE InsertRefused(s)
      BY <3>2 DEF InsertRefused
    <3> QED
      BY <1>2, <3>1, <3>2
  <2>2. [NoSync EXCEPT !.rounds = r].got = None
    BY DEF NoSync
  <2>3. GotKept
    <3> DEFINE v == [NoSync EXCEPT !.rounds = r]
    <3>1. v.got = None /\ (sync' = sync \/ sync' = [sync EXCEPT ![s] = v])
      BY <2>1, <2>2
    <3> HIDE DEF v
    <3> QED
      BY <3>1, GotReplaced DEF GotKept
  <2>4. object' = object
    BY <1>2 DEF PassEnds, InsertRefused
  <2> QED
    BY <2>3, <2>4, NoneStays DEF ObjectsKept
<1>3. CASE GetObject(s)
  <2>1. object' = object /\ (sync' = sync \/ sync' = [sync EXCEPT ![s].got = object[sync[s].key].status])
    BY <1>3 DEF GetObject
  <2>2. sync[s].key \in DOMAIN object
    BY <1>3, OnObject DEF GetObject, AtObject
  <2> DEFINE v == [sync[s] EXCEPT !.got = object[sync[s].key].status]
  <2>3. v.got = object[sync[s].key].status
    BY <1>0 DEF Syncing
  <2>4. v.got # Awaiting
    BY <2>2, <2>3 DEF NoWaitThere, Keys
  <2>5. sync' = sync \/ sync' = [sync EXCEPT ![s] = v]
    BY <2>1
  <2> HIDE DEF v
  <2>6. \A r \in Jobs : sync'[r] = sync[r] \/ sync'[r] = v
    BY <2>5 DEF TypeInv, Shapes
  <2> QED
    BY <2>1, <2>4, <2>6 DEF NoWaitThere, Keys
<1> QED
  BY <1>1, <1>2, <1>3 DEF SyncWalks

LEMMA NextNoWaitThere == ASSUME TypeInv, NoWaitThere, [Next]_vars PROVE NoWaitThere'
<1>0. object \in Seq(Objects)
  BY DEF TypeInv, Shapes
<1>1. CASE sync' = sync /\ object' = object
  BY <1>1 DEF NoWaitThere, Keys
<1>2. ASSUME NEW c \in Jobs, Syncs(c) \/ Provides(c) \/ LoadMax(c) \/ Refresh(c) \/ CreateTicket(c) PROVE NoWaitThere'
  <2>1. CASE SyncWalks(c) \/ SelectRow(c)
    BY <2>1, SyncGets
  <2>2. CASE UpdateRow(c) \/ AutoLook(c) \/ AutoCapacity(c) \/ ConfirmRow(c) \/ PollState(c) \/ CloseRow(c) \/ CreateTicket(c)
    <3>1. sync' = sync /\ object' = object
      BY <2>2 DEF UpdateRow, AutoLook, AutoCapacity, ConfirmRow, PollState, CloseRow, CreateTicket, provVars
    <3> QED
      BY <1>1, <3>1
  <2>3. CASE MakeObject(c)
    <3>1. sync' = sync /\ (object' = object \/ object' = Append(object, Fresh("new", job[c].ticket))) /\ job[c].ticket \in Nat
      BY <2>3 DEF MakeObject, Made, TypeInv, Shapes, Coroutines
    <3>2. Fresh("new", job[c].ticket).status = "new"
      BY DEF Fresh
    <3>3. ObjectsKept
      BY <3>1, <3>2, FreshAdded DEF ObjectsKept, Added
    <3> QED
      BY <3>1, <3>3, NoneStays DEF GotKept
  <2>4. CASE Resolve(c) \/ AssignFirst(c)
    <3>1. /\ sync' = sync
          /\ \/ object' = object
             \/ object' = [object EXCEPT ![job[c].key].status = "resolved"]
             \/ object' = [object EXCEPT ![job[c].key].status = "assigned"]
      BY <2>4 DEF Resolve, AssignFirst, Stimulus
    <3>2. ObjectsKept
      BY <3>1, StatusGiven DEF ObjectsKept
    <3> QED
      BY <3>1, <3>2, NoneStays DEF GotKept
  <2>5. CASE BindRow(c)
    <3> DEFINE v == [object[job[c].key] EXCEPT !.linked = TRUE]
    <3>1. /\ sync' = sync /\ job[c].key \in DOMAIN object
          /\ object' = object \/ object' = [object EXCEPT ![job[c].key] = v]
      BY <2>5 DEF BindRow, TypeInv, Tied, Keys
    <3>2. object[job[c].key] \in Objects
      BY <1>0, <3>1
    <3>3. v \in Objects /\ v.status = object[job[c].key].status
      BY <3>2 DEF Objects
    <3>4. ObjectsKept
      BY <3>1, <3>3, StatusReplaced DEF ObjectsKept
    <3> QED
      BY <3>1, <3>4, NoneStays DEF GotKept
  <2>6. CASE InsertRow(c)
    <3> DEFINE n == sync[c].key
               v == [object[n] EXCEPT !.early = object[n].early \/ ~object[n].linked]
    <3>1. n \in DOMAIN object /\ sync' = sync /\ object' = [object EXCEPT ![n] = v]
      BY <2>6, OnObject DEF InsertRow, AtObject
    <3>2. object[n] \in Objects
      BY <1>0, <3>1
    <3>3. v \in Objects /\ v.status = object[n].status
      <4>1. (object[n].early \/ ~object[n].linked) \in BOOLEAN
        OBVIOUS
      <4> QED
        BY <3>2, <4>1 DEF Objects
    <3>4. ObjectsKept
      BY <3>1, <3>3, StatusReplaced
    <3> QED
      BY <3>1, <3>4, NoneStays DEF GotKept
  <2> QED
    BY <1>2, <2>1, <2>2, <2>3, <2>4, <2>5, <2>6 DEF Syncs, Provides, SyncWalks
<1>3. CASE DeskNext /\ UNCHANGED provVars
  BY <1>1, <1>3 DEF provVars
<1>4. CASE Boot \/ UNCHANGED vars
  BY <1>1, <1>4 DEF Boot, vars, provVars
<1>5. CASE PersonCreates
  <2>1. sync' = sync /\ object' = Append(object, Fresh("new", 0))
    BY <1>5 DEF PersonCreates
  <2>2. Fresh("new", 0).status = "new"
    BY DEF Fresh
  <2>3. ObjectsKept
    BY <2>1, <2>2, FreshAdded DEF ObjectsKept, Added
  <2> QED
    BY <2>1, <2>3, NoneStays DEF GotKept
<1>6. CASE \E n \in Keys : PersonMoves(n)
  <2>1. PICK n \in Keys, status \in {"assigned", "resolved"} : object' = [object EXCEPT ![n].status = status] /\ sync' = sync
    BY <1>6 DEF PersonMoves
  <2>2. ObjectsKept
    BY <2>1, StatusGiven
  <2> QED
    BY <2>1, <2>2, NoneStays DEF GotKept
<1>7. CASE Crash
  <2>1. object' = object /\ sync' = [s \in Jobs |-> NoSync] /\ NoSync.got = None
    BY <1>7 DEF Crash, NoSync
  <2> QED
    BY <2>1, NoneStays DEF GotKept, ObjectsKept
<1> QED
  BY <1>2, <1>3, <1>4, <1>5, <1>6, <1>7 DEF Next

-----------------------------------------------------------------------------
(* The key under which a sync has found a row stands until it writes it.   *)

\* Every row carries the key it did.
RefsRest == DOMAIN ticket \subseteq DOMAIN ticket' /\ \A j \in DOMAIN ticket : ticket'[j].ref = ticket[j].ref

LEMMA SceneStays == ASSUME [Next]_vars PROVE scene' = scene
<1>1. ASSUME NEW c \in Jobs, Arrives(c) \/ Proceeds(c) PROVE scene' = scene
  BY <1>1 DEF Arrives, Proceeds, ReadTicket, WaitEndsAgent, ReadForm, ChangeStatus, StopAgent, Unassign, ClearAgent,
              OpenForm, AskNote, Ask, ReadPrior, WaitAtGate, RememberWait, Answer, ExpireForm, StoreValues,
              SubmitForm, ReadWaiting, Resume, LookForAgent, LookForSame, Spawn, SpawnReview, LinkAgent
<1>2. ASSUME NEW c \in Jobs, Syncs(c) \/ Provides(c) \/ LoadMax(c) \/ Refresh(c) \/ CreateTicket(c)
      PROVE  scene' = scene
  BY <1>2 DEF Syncs, Provides, ListKeys, NextKey, PassEnds, GetObject, SelectRow, UpdateRow, InsertRefused,
              InsertRow, AutoLook, AutoCapacity, MakeObject, BindRow, ConfirmRow, Resolve, AssignFirst,
              PollState, CloseRow, LoadMax, Refresh, CreateTicket
<1>3. CASE DeskNext \/ Boot \/ PersonCreates \/ Crash \/ (\E n \in Keys : PersonMoves(n)) \/ UNCHANGED vars
  BY <1>1, <1>3 DEF DeskNext, FormExpires, TaskEnds, AgentEnds, TaskRead, WrittenBack, Boot, PersonCreates, Crash, PersonMoves, vars, deskVars
<1> QED
  BY <1>2, <1>3 DEF Next

LEMMA KeyRests ==
  ASSUME TypeInv, RefsRest, NEW d \in Jobs, KeyStands(d), job'[d] = job[d]
  PROVE  KeyStands(d)'
<1>1. job[d].pc \in {"update", "make", "bind"} => job[d].ticket \in DOMAIN ticket
  BY OnTicket DEF AtTicket
<1> QED
  BY <1>1 DEF KeyStands, RefsRest

\* The coroutine that moves comes to a write of the sync, or to the making of an object,
\* with the key that its row has.
LEMMA OwnKeyStands ==
  ASSUME TypeInv, InTurns, NEW c \in Jobs, NEW k, ~PushedBeside(k), job'[c].ticket # k,
         job[c].ticket # k => KeyStands(c),
         \/ Walks(c) /\ RowsRest
         \/ Looks(c) \/ Writes(c) \/ TakesKey(c) \/ Refreshes(c) \/ AddsRow(c)
  PROVE  KeyStands(c)'
<1>1. CASE job'[c].pc \notin {"update", "make", "bind"}
  BY <1>1 DEF KeyStands
<1>2. CASE Walks(c) /\ RowsRest
  <2>1. CASE job'[c].pc = "update"
    BY <1>2, <2>1 DEF Walks, Finishes, Flows, Begun, Endings, Asking, Making, Unread, Resting
  <2>2. CASE job'[c].pc \in {"make", "bind"}
    <3>1. job[c].pc \in {"make", "bind"} /\ job'[c].ticket = job[c].ticket
      BY <1>2, <2>2 DEF Walks, Finishes, Flows, Keeps, Begun, Endings, Asking, Making, Unread, Resting
    <3>2. job[c].ticket \in DOMAIN ticket
      BY <3>1, OnTicket DEF AtTicket
    <3> QED
      BY <1>2, <2>2, <3>1, <3>2 DEF KeyStands, RowsRest
  <2> QED
    BY <1>1, <2>1, <2>2
<1>3. CASE Looks(c)
  <2>1. CASE job[c].pc = "select" /\ \E j \in DOMAIN ticket : Reads(c, j, "update")
    BY <1>3, <2>1 DEF Looks, Reads, KeyStands
  <2>2. CASE job[c].pc = "new" /\ op(c) \in Handlers /\ Reads(c, scene.orders[c].ticket, Begins(c))
    <3>1. CASE op(c) = "push"
      BY <2>2, <3>1 DEF Reads, PushedBeside
    <3>2. CASE op(c) # "push"
      <4>1. Begins(c) \notin {"update", "make", "bind"}
        BY <2>2, <3>2 DEF Begins, Handlers
      <4> QED
        BY <1>1, <2>2, <4>1 DEF Reads
    <3> QED
      BY <3>1, <3>2
  <2>3. CASE \/ Finishes(c) \/ Keeps(c, "insert") \/ Reads(c, scene.orders[c].ticket, "gate")
             \/ \E j \in DOMAIN ticket : Reads(c, j, "answer")
    BY <1>1, <2>3 DEF Finishes, Keeps, Reads
  <2> QED
    BY <1>3, <2>1, <2>2, <2>3 DEF Looks
<1>4. CASE Writes(c) \/ TakesKey(c) \/ Refreshes(c)
  <2>1. job'[c].pc \notin {"update", "make", "bind"}
    BY <1>4 DEF Writes, TakesKey, Refreshes, Finishes, Keeps
  <2> QED
    BY <1>1, <2>1
<1>5. CASE AddsRow(c)
  BY <1>1, <1>5 DEF AddsRow, KeyStands
<1> QED
  BY <1>2, <1>3, <1>4, <1>5

\* Only a row that is created gets a key while another coroutine is at it.
LEMMA OtherKeysStand ==
  ASSUME TypeInv, CapacityInv, InTurns, NEW c \in Jobs, NEW d \in Jobs, c # d, NEW k, ~PushedBeside(k),
         job[d].ticket # k, KeyStands(d), job[c].ticket # k => KeyStands(c), TakesKey(c)
  PROVE  KeyStands(d)'
<1>1. job'[d] = job[d] /\ InTurn(c) /\ InTurn(d) /\ job[c].pc = "bind"
  BY DEF TakesKey, Keeps, Single, InTurns
<1>2. CASE job[d].pc \notin {"update", "make", "bind"}
  BY <1>1, <1>2 DEF KeyStands
<1>3. CASE job[d].pc \in {"update", "make", "bind"} /\ job[d].ticket # job[c].ticket
  <2>1. job[d].ticket \in DOMAIN ticket
    BY <1>3, OnTicket DEF AtTicket
  <2> QED
    BY <1>1, <1>3, <2>1 DEF KeyStands, TakesKey
<1>4. CASE job[d].pc \in {"update", "make", "bind"} /\ job[d].ticket = job[c].ticket
  <2>1. op(c) = "create" /\ ticket[job[c].ticket].ref = 0
    BY <1>1, <1>4 DEF InTurn, Making, PushedBeside, KeyStands
  <2>2. CASE job[d].pc = "update"
    <3>1. job[d].key # 0
      BY <2>2 DEF TypeInv, Synced, AtObject
    <3> QED
      BY <1>4, <2>1, <2>2, <3>1 DEF KeyStands
  <2>3. CASE job[d].pc \in {"make", "bind"}
    <3>1. op(d) = "create"
      BY <1>1, <1>4, <2>3 DEF InTurn, Making, PushedBeside
    <3>2. Owning(c) /\ Owning(d)
      BY <1>1, <2>1, <2>3, <3>1 DEF Owning, Owns, Automatic
    <3> QED
      BY <1>4, <3>2 DEF CapacityInv, OwnersApart
  <2> QED
    BY <1>4, <2>2, <2>3
<1> QED
  BY <1>2, <1>3, <1>4

LEMMA NextKeysStand ==
  ASSUME TypeInv, CapacityInv, InTurns, NEW k, KeysStand(k), [Next]_vars
  PROVE  KeysStand(k)'
<1> SUFFICES ASSUME ~PushedBeside(k) PROVE \A d \in Jobs : job'[d].ticket # k => KeyStands(d)'
  <2>1. PushedBeside(k)' <=> PushedBeside(k)
    BY SceneStays DEF PushedBeside, op
  <2> QED
    BY <2>1 DEF KeysStand
<1>1. \A d \in Jobs : job[d].ticket # k => KeyStands(d)
  BY DEF KeysStand
<1>2. CASE job' = job /\ RowsRest
  <2>1. RefsRest
    BY <1>2 DEF RowsRest, RefsRest
  <2> QED
    BY <1>1, <1>2, <2>1, KeyRests
<1>3. CASE Restarts
  BY <1>3 DEF Restarts, KeyStands
<1>4. ASSUME NEW c \in Jobs,
             \/ Walks(c) /\ RowsRest
             \/ Looks(c) \/ Writes(c) \/ TakesKey(c) \/ Refreshes(c) \/ AddsRow(c),
             NEW d \in Jobs, job'[d].ticket # k
      PROVE  KeyStands(d)'
  <2>1. CASE d = c
    BY <1>1, <1>4, <2>1, OwnKeyStands
  <2>2. CASE d # c
    <3>1. job'[d] = job[d]
      BY <1>4, <2>2 DEF Walks, Looks, Writes, TakesKey, Refreshes, AddsRow, Finishes, Keeps, Reads, Single
    <3>2. KeyStands(d)
      BY <1>1, <1>4, <3>1
    <3>3. CASE TakesKey(c)
      BY <1>1, <1>4, <2>2, <3>1, <3>2, <3>3, OtherKeysStand
    <3>4. CASE ~TakesKey(c)
      <4>1. RefsRest
        BY <1>4, <3>4 DEF RowsRest, Looks, Writes, PutsRow, Refreshes, AddsRow, RefsRest
      <4> QED
        BY <3>1, <3>2, <4>1, KeyRests
    <3> QED
      BY <3>3, <3>4
  <2> QED
    BY <2>1, <2>2
<1> QED
  BY <1>2, <1>3, <1>4, NextWalks

-----------------------------------------------------------------------------
(* A ticket remembers its work.                                            *)

\* Who moves in this step.
Acts(c) ==
  \/ Walks(c) /\ RowsRest
  \/ Looks(c) \/ Writes(c) \/ TakesKey(c) \/ Refreshes(c) \/ AddsRow(c)

LEMMA HoldersAct == ASSUME NEW c \in Jobs, NEW k, PutsOnHold(c, k) PROVE op(c) \in Enders \cup Askers \cup {"wait"}
  BY DEF PutsOnHold, Enders, Askers

\* A coroutine that has put its ticket on hold does not come back to where it had not.
LEMMA NoWayBack ==
  ASSUME InTurns, NEW c \in Jobs, Acts(c), op(c) \in Enders \cup Askers \cup {"wait"}, job'[c].pc \in Before
  PROVE  job[c].pc \in Before
<1>1. job[c].pc \in Endings \cup Asking \cup Holding \cup {"new", "done"}
  BY DEF InTurns, InTurn
<1>2. CASE job[c].pc \in {"stop", "remember", "done"}
  <2>1. CASE Walks(c)
    BY <1>2, <2>1 DEF Walks, Finishes, Flows, Endings, Asking, Making, Unread, Resting, Before
  <2>2. CASE Writes(c)
    BY <1>2, <2>2 DEF Writes, Finishes, Before
  <2>3. CASE Looks(c) \/ TakesKey(c) \/ Refreshes(c) \/ AddsRow(c)
    BY <1>2, <2>3 DEF Looks, TakesKey, Refreshes, AddsRow
  <2> QED
    BY <2>1, <2>2, <2>3 DEF Acts
<1> QED
  BY <1>1, <1>2 DEF Endings, Asking, Holding, Before

LEMMA ActsAlone == ASSUME NEW c \in Jobs, Acts(c) PROVE Single(c) /\ scene' = scene
  BY DEF Acts, Walks, Looks, Writes, PutsRow, TakesKey, Refreshes, AddsRow, Finishes, Keeps, Reads, RowsRest

LEMMA StillNotYet ==
  ASSUME InTurns, NEW c \in Jobs, Acts(c), NEW k, NotYet(k)'
  PROVE  NotYet(k)
<1>1. Single(c) /\ scene' = scene
  BY ActsAlone
<1>2. ASSUME NEW d \in Jobs, PutsOnHold(d, k) PROVE job[d].pc \in Before
  <2>1. job'[d].pc \in Before
    BY <1>1, <1>2 DEF NotYet, PutsOnHold, op
  <2>2. CASE d = c
    BY <1>2, <2>1, <2>2, HoldersAct, NoWayBack
  <2>3. CASE d # c
    BY <1>1, <2>1, <2>3 DEF Single
  <2> QED
    BY <2>2, <2>3
<1> QED
  BY <1>2 DEF NotYet

\* The one that puts the ticket on hold has read its status when none had.
LEMMA HolderFirst ==
  ASSUME NEW k, HeldOnce(k), NEW c \in Jobs, PutsOnHold(c, k), job[c].pc \in Before
  PROVE  NotYet(k)
  BY DEF HeldOnce, NotYet

\* What a step leaves to be shown: of the row, and of the coroutine that moves.
RowWorks(k) ==
  k \in DOMAIN ticket' => ticket'[k].asked # Awaiting /\ (NotYet(k)' => ticket'[k].status # Awaiting)
JobWorks(c, k) ==
  job'[c].ticket = k =>
    /\ job'[c].asked # Awaiting
    /\ job'[c].pc = "remember" \/ NotYet(k)' => job'[c].status # Awaiting

LEMMA OneRemembers ==
  ASSUME InTurns, NEW k, Remembers(k), NEW c \in Jobs, Acts(c), RowWorks(k), JobWorks(c, k)
  PROVE  Remembers(k)'
<1>1. Single(c) /\ (NotYet(k)' => NotYet(k))
  BY ActsAlone, StillNotYet
<1>2. ASSUME NEW d \in Jobs, job'[d].ticket = k
      PROVE  /\ job'[d].asked # Awaiting
             /\ job'[d].pc = "remember" \/ NotYet(k)' => job'[d].status # Awaiting
  <2>1. CASE d = c
    BY <1>2, <2>1 DEF JobWorks
  <2>2. CASE d # c
    BY <1>1, <1>2, <2>2 DEF Single, Remembers, Working
  <2> QED
    BY <2>1, <2>2
<1> QED
  BY <1>2 DEF Remembers, Working, RowWorks

\* Nothing new is read or written.
LEMMA CalmRow ==
  ASSUME NEW k, Remembers(k), NotYet(k)' => NotYet(k), DOMAIN ticket' = DOMAIN ticket,
         k \in DOMAIN ticket => ticket'[k].status = ticket[k].status /\ ticket'[k].asked \in {ticket[k].asked, None}
  PROVE  RowWorks(k)
  BY DEF RowWorks, Remembers, Working, Awaiting, None

LEMMA CalmJob ==
  ASSUME NEW k, Remembers(k), NEW c \in Jobs, NotYet(k)' => NotYet(k), NEW pc, pc # "remember", Keeps(c, pc)
  PROVE  JobWorks(c, k)
  BY DEF JobWorks, Remembers, Working, Keeps

LEMMA NoJobWorks == ASSUME NEW k \in Nat \ {0}, NEW c \in Jobs, Finishes(c) PROVE JobWorks(c, k)
  BY DEF JobWorks, Finishes

LEMMA LooksRemember ==
  ASSUME TypeInv, InTurns, NEW k \in Nat \ {0}, Remembers(k), NEW c \in Jobs, Looks(c)
  PROVE  Remembers(k)'
<1>1. Acts(c) /\ (NotYet(k)' => NotYet(k))
  BY StillNotYet DEF Acts
<1>2. RowWorks(k)
  BY <1>1, CalmRow DEF Looks
<1>3. ASSUME NEW j \in DOMAIN ticket, NEW pc, pc # "remember", Reads(c, j, pc) PROVE JobWorks(c, k)
  BY <1>1, <1>3 DEF Reads, JobWorks, Remembers, Working
<1>4. JobWorks(c, k)
  <2>1. CASE Finishes(c)
    BY <2>1, NoJobWorks
  <2>2. CASE Keeps(c, "insert")
    BY <1>1, <2>2, CalmJob
  <2>3. CASE op(c) \in Handlers /\ scene.orders[c].ticket \in DOMAIN ticket /\ Reads(c, scene.orders[c].ticket, Begins(c))
    <3>1. Begins(c) # "remember"
      BY <2>3 DEF Begins, Handlers
    <3> QED
      BY <1>3, <2>3, <3>1
  <2>4. CASE \E j \in DOMAIN ticket : Reads(c, j, "gate") \/ Reads(c, j, "answer") \/ Reads(c, j, "update")
    BY <1>3, <2>4
  <2> QED
    BY <2>1, <2>2, <2>3, <2>4 DEF Looks
<1> QED
  BY <1>1, <1>2, <1>4, OneRemembers

\* Who writes a row of its own brings it back to work, or puts it on hold.
LEMMA WritesRemember ==
  ASSUME TypeInv, InTurns, NEW k \in Nat \ {0}, HeldOnce(k), Remembers(k), NEW c \in Jobs, Writes(c)
  PROVE  Remembers(k)'
<1>1. Acts(c) /\ (NotYet(k)' => NotYet(k)) /\ InTurn(c) /\ scene' = scene
  BY StillNotYet, ActsAlone DEF Acts, InTurns
<1>2. CASE job[c].ticket # k
  <2>1. RowWorks(k)
    <3>1. /\ DOMAIN ticket' = DOMAIN ticket
          /\ k \in DOMAIN ticket => ticket'[k].status = ticket[k].status /\ ticket'[k].asked = ticket[k].asked
      BY <1>2 DEF Writes, PutsRow
    <3> QED
      BY <1>1, <3>1, CalmRow
  <2>2. JobWorks(c, k)
    BY <1>2 DEF Writes, Finishes, Keeps, JobWorks
  <2> QED
    BY <1>1, <2>1, <2>2, OneRemembers
<1>3. CASE job[c].ticket = k
  <2>0. Row(c) = ticket[k] /\ k \in DOMAIN ticket /\ ticket[k].asked # Awaiting /\ job[c].asked # Awaiting
    BY <1>3 DEF Row, Remembers, Writes, PutsRow
  <2>1. ASSUME NEW status, NEW asked, PutsRow(c, status, asked), asked # Awaiting, NotYet(k)' => status # Awaiting
        PROVE  RowWorks(k)
    BY <1>3, <2>0, <2>1 DEF PutsRow, RowWorks
  <2>2. ASSUME PutsOnHold(c, k), job'[c].pc \notin Before PROVE ~NotYet(k)'
    BY <1>1, <2>2 DEF NotYet, PutsOnHold, op
  <2>3. CASE job[c].pc = "change" /\ PutsRow(c, scene.orders[c].to, Row(c).asked) /\ (Finishes(c) \/ Keeps(c, "stop"))
    <3>1. NotYet(k)' => scene.orders[c].to # Awaiting
      <4>1. job'[c].pc \notin Before
        BY <2>3 DEF Finishes, Keeps, Before
      <4>2. scene.orders[c].to = Awaiting => PutsOnHold(c, k)
        BY <1>1, <1>3, <2>3 DEF InTurn, Endings, Enders, PutsOnHold
      <4> QED
        BY <2>2, <4>1, <4>2
    <3>2. RowWorks(k)
      BY <2>0, <2>1, <2>3, <3>1
    <3>3. JobWorks(c, k)
      BY <1>1, <2>3, NoJobWorks, CalmJob
    <3> QED
      BY <1>1, <3>2, <3>3, OneRemembers
  <2>4. CASE job[c].pc = "mark" /\ PutsRow(c, Awaiting, job[c].status) /\ Finishes(c)
    <3>1. PutsOnHold(c, k)
      BY <1>1, <1>3, <2>4 DEF InTurn, Asking, Askers, PutsOnHold
    <3>2. job[c].status # Awaiting
      BY <1>3, <2>4, <3>1, HolderFirst DEF Before, Remembers, Working
    <3>3. ~NotYet(k)'
      BY <2>2, <2>4, <3>1 DEF Finishes, Before
    <3>4. RowWorks(k)
      BY <2>1, <2>4, <3>2, <3>3
    <3> QED
      BY <1>1, <2>4, <3>4, NoJobWorks, OneRemembers
  <2>5. CASE job[c].pc = "gate" /\ PutsRow(c, Awaiting, Row(c).asked) /\ Keeps(c, "remember")
    <3>1. PutsOnHold(c, k)
      BY <1>1, <1>3, <2>5 DEF InTurn, Endings, Asking, Holding, PutsOnHold
    <3>2. job[c].status # Awaiting
      BY <1>3, <2>5, <3>1, HolderFirst DEF Before, Remembers, Working
    <3>3. ~NotYet(k)'
      BY <2>2, <2>5, <3>1 DEF Keeps, Before
    <3>4. RowWorks(k)
      BY <2>0, <2>1, <2>5, <3>3
    <3>5. JobWorks(c, k)
      BY <2>0, <2>5, <3>2 DEF Keeps, JobWorks
    <3> QED
      BY <1>1, <3>4, <3>5, OneRemembers
  <2>6. CASE job[c].pc = "answer" /\ PutsRow(c, Restored(c), None) /\ (Keeps(c, "look") \/ Keeps(c, "resume"))
    <3>1. Restored(c) # Awaiting /\ None # Awaiting
      BY <2>0 DEF Restored, Awaiting, None
    <3>2. RowWorks(k)
      BY <2>1, <2>6, <3>1
    <3>3. JobWorks(c, k)
      BY <1>1, <2>6, CalmJob
    <3> QED
      BY <1>1, <3>2, <3>3, OneRemembers
  <2>7. CASE \/ job[c].pc = "closed" /\ PutsRow(c, "resolved", Row(c).asked) /\ Keeps(c, "change")
             \/ job[c].pc = "link" /\ PutsRow(c, "in_progress", Row(c).asked) /\ Finishes(c)
    <3>1. RowWorks(k)
      BY <2>0, <2>1, <2>7 DEF Awaiting
    <3>2. JobWorks(c, k)
      BY <1>1, <2>7, NoJobWorks, CalmJob
    <3> QED
      BY <1>1, <3>1, <3>2, OneRemembers
  <2>8. CASE job[c].pc = "remember" /\ PutsRow(c, Row(c).status, job[c].status) /\ Finishes(c)
    <3>1. job[c].status # Awaiting /\ (NotYet(k)' => Row(c).status # Awaiting)
      BY <1>1, <1>3, <2>0, <2>8 DEF Remembers, Working
    <3>2. RowWorks(k)
      BY <2>1, <2>8, <3>1
    <3> QED
      BY <1>1, <2>8, <3>2, NoJobWorks, OneRemembers
  <2> QED
    BY <2>3, <2>4, <2>5, <2>6, <2>7, <2>8 DEF Writes
<1> QED
  BY <1>2, <1>3

LEMMA RefreshRemembers ==
  ASSUME TypeInv, InTurns, NoWaitThere, NEW k \in Nat \ {0}, HeldOnce(k), KeysStand(k), Remembers(k),
         NEW c \in Jobs, Refreshes(c)
  PROVE  Remembers(k)'
<1>1. Acts(c) /\ (NotYet(k)' => NotYet(k)) /\ job[c].pc = "update" /\ Finishes(c) /\ DOMAIN ticket' = DOMAIN ticket
  BY StillNotYet DEF Acts, Refreshes
<1>2. RowWorks(k)
  <2>1. CASE k \in DOMAIN ticket /\ ticket[k].ref = job[c].key
    <3>1. ticket'[k].status = EffectiveStatus(sync[c].got, job[c].status, sync[c].active) /\ ticket'[k].asked = None
      BY <2>1 DEF Refreshes
    <3>2. job[c].ticket = k
      <4>1. job[c].key # 0 /\ job[c].ticket \in DOMAIN ticket
        BY <1>1, OnTicket DEF AtTicket, TypeInv, Synced, AtObject
      <4>2. job[c].ticket # k => ticket[job[c].ticket].ref = job[c].key
        BY <1>1 DEF KeysStand, KeyStands, HeldOnce
      <4> QED
        BY <2>1, <4>1, <4>2 DEF TypeInv, Unique
    <3>3. NotYet(k)' => job[c].status # Awaiting
      BY <1>1, <3>2 DEF Remembers, Working
    <3>4. sync[c].got # Awaiting /\ "in_progress" # Awaiting /\ None # Awaiting
      BY DEF NoWaitThere, Awaiting, None
    <3> QED
      BY <3>1, <3>3, <3>4 DEF RowWorks, EffectiveStatus
  <2>2. CASE ~(k \in DOMAIN ticket /\ ticket[k].ref = job[c].key)
    BY <1>1, <2>2, CalmRow DEF Refreshes
  <2> QED
    BY <2>1, <2>2
<1> QED
  BY <1>1, <1>2, NoJobWorks, OneRemembers

LEMMA AddedRemembers ==
  ASSUME TypeInv, InTurns, NoWaitThere, NEW k \in Nat \ {0}, Remembers(k), NEW c \in Jobs, AddsRow(c)
  PROVE  Remembers(k)'
<1>1. Acts(c) /\ (NotYet(k)' => NotYet(k)) /\ InTurn(c) /\ job[c].pc \in Unread
  BY StillNotYet DEF Acts, AddsRow, InTurns, Unread
<1>2. RowWorks(k)
  BY <1>1 DEF AddsRow, RowWorks, NoWaitThere, Remembers, Working, Awaiting, None
<1>3. JobWorks(c, k)
  BY <1>1 DEF AddsRow, JobWorks, InTurn, Awaiting, None
<1> QED
  BY <1>1, <1>2, <1>3, OneRemembers

LEMMA NextRemembers ==
  ASSUME TypeInv, InTurns, NoWaitThere, NEW k \in Nat \ {0}, HeldOnce(k), KeysStand(k), Remembers(k), [Next]_vars
  PROVE  Remembers(k)'
<1>1. CASE job' = job /\ RowsRest
  <2>1. NotYet(k)' <=> NotYet(k)
    BY <1>1 DEF RowsRest, NotYet, PutsOnHold, op
  <2>2. RowWorks(k)
    BY <1>1, <2>1, CalmRow DEF RowsRest
  <2> QED
    BY <1>1, <2>1, <2>2 DEF RowWorks, Remembers, Working
<1>2. CASE Restarts
  <2>1. ASSUME NotYet(k)', NEW d \in Jobs, PutsOnHold(d, k) PROVE job[d].pc \in Before
    <3>1. job'[d].pc = "new" /\ op(d) # "loop"
      BY <1>2, <2>1, HoldersAct DEF Restarts, NotYet, PutsOnHold, op, Before, Enders, Askers
    <3> QED
      BY <1>2, <3>1 DEF Restarts, Before
  <2>2. NotYet(k)' => NotYet(k)
    BY <2>1 DEF NotYet
  <2>3. ASSUME NEW d \in Jobs, job'[d].ticket = k
        PROVE  /\ job'[d].asked # Awaiting
               /\ job'[d].pc = "remember" \/ NotYet(k)' => job'[d].status # Awaiting
    BY <1>2, <2>2, <2>3 DEF Restarts, Remembers, Working
  <2> QED
    BY <1>2, <2>2, <2>3 DEF Restarts, Remembers, Working
<1>3. ASSUME NEW c \in Jobs, Acts(c) PROVE Remembers(k)'
  <2>1. NotYet(k)' => NotYet(k)
    BY <1>3, StillNotYet
  <2>2. CASE (Walks(c) /\ RowsRest) \/ TakesKey(c)
    <3>1. RowWorks(k)
      BY <2>1, <2>2, CalmRow DEF RowsRest, TakesKey
    <3>2. Finishes(c) \/ (Keeps(c, job'[c].pc) /\ job'[c].pc # "remember")
      BY <2>2 DEF Walks, Flows, Begun, Endings, Asking, Making, Unread, Resting, TakesKey, Keeps
    <3>3. JobWorks(c, k)
      BY <2>1, <3>2, NoJobWorks, CalmJob
    <3> QED
      BY <1>3, <3>1, <3>3, OneRemembers
  <2> QED
    BY <1>3, <2>2, LooksRemember, WritesRemember, RefreshRemembers, AddedRemembers DEF Acts
<1> QED
  BY <1>1, <1>2, <1>3, NextWalks DEF Acts

LEMMA NextHolds == ASSUME TypeInv, CapacityInv, HoldInv, [Next]_vars PROVE HoldInv'
<1>1. InTurns' /\ NoWaitThere'
  BY NextInTurn, NextNoWaitThere DEF HoldInv
<1>2. ASSUME NEW k \in Nat \ {0} PROVE KeysStand(k)' /\ (HeldOnce(k)' => Remembers(k)')
  <2>1. KeysStand(k) /\ (HeldOnce(k) => Remembers(k)) /\ InTurns /\ NoWaitThere
    BY DEF HoldInv
  <2>2. HeldOnce(k)' <=> HeldOnce(k)
    BY SceneStays DEF HeldOnce, PutsOnHold, StartsOnHold, PushedBeside, op
  <2>3. KeysStand(k)'
    BY <2>1, NextKeysStand
  <2>4. HeldOnce(k) => Remembers(k)'
    BY <2>1, NextRemembers
  <2> QED
    BY <2>2, <2>3, <2>4
<1> QED
  BY <1>1, <1>2 DEF HoldInv

LEMMA InitHolds == ASSUME Init PROVE HoldInv
<1>1. ASSUME NEW c \in Jobs
      PROVE  /\ job[c].pc \in {"new", "done"} /\ job[c].ticket = 0
             /\ job[c].status = None /\ job[c].asked = None
  <2>1. job[c] = [NoJob EXCEPT !.pc = IF op(c) = "none" THEN "done" ELSE "new"]
    BY DEF Init, DeskInit
  <2>2. \A pc : /\ [NoJob EXCEPT !.pc = pc].pc = pc /\ [NoJob EXCEPT !.pc = pc].ticket = 0
                /\ [NoJob EXCEPT !.pc = pc].status = None /\ [NoJob EXCEPT !.pc = pc].asked = None
    BY DEF NoJob
  <2> QED
    BY <2>1, <2>2
<1>2. InTurns
  <2>1. ASSUME NEW c \in Jobs PROVE InTurn(c)
    BY <1>1 DEF InTurn, Endings, Asking, Holding, Making, Unread
  <2> QED
    BY <2>1 DEF InTurns
<1>3. NoWaitThere
  <2>1. \A n \in Keys : object[n].status = "new"
    BY DEF Init, Keys, Fresh
  <2>2. \A s \in Jobs : sync[s].got = None
    BY DEF Init, NoSync
  <2> QED
    BY <2>1, <2>2 DEF NoWaitThere, Awaiting, None
<1>4. ASSUME NEW k \in Nat \ {0} PROVE KeysStand(k) /\ (HeldOnce(k) => Remembers(k))
  <2>1. KeysStand(k)
    BY <1>1 DEF KeysStand, KeyStands
  <2>2. HeldOnce(k) /\ k \in DOMAIN ticket => ticket[k].status # Awaiting /\ ticket[k].asked # Awaiting
    BY DEF Init, DeskInit, HeldOnce, StartsOnHold
  <2>3. \A c \in Jobs : job[c].ticket # k
    BY <1>1
  <2> QED
    BY <2>1, <2>2, <2>3 DEF Remembers, Working
<1> QED
  BY <1>2, <1>3, <1>4 DEF HoldInv

\* Whoever asks, waits, answers, closes, pushes or syncs, and through restarts: the
\* status a ticket is to return to is never the wait itself, unless it was put on hold
\* twice, from the start, or another ticket was pushed beside it.
THEOREM WaitsRemember == Spec => []WaitRemembersWork
<1>1. Init => HoldInv
  BY InitHolds
<1>2. TypeInv /\ CapacityInv /\ HoldInv /\ [Next]_vars => HoldInv'
  BY NextHolds
<1>3. TypeInv /\ HoldInv => WaitRemembersWork
  <2> SUFFICES ASSUME TypeInv, HoldInv, NEW k \in DOMAIN ticket, ticket[k].asked = Awaiting,
                      ~StartsOnHold(k), ~PushedBeside(k)
               PROVE  \E c, d \in Jobs : c # d /\ PutsOnHold(c, k) /\ PutsOnHold(d, k)
    BY DEF WaitRemembersWork
  <2>1. k \in Nat \ {0}
    BY DEF TypeInv, Shapes
  <2>2. HeldOnce(k) => Remembers(k)
    BY <2>1 DEF HoldInv
  <2> QED
    BY <2>2 DEF HeldOnce, Remembers
<1> QED
  BY <1>1, <1>2, <1>3, Typed, RoomKept, PTL DEF Spec
=============================================================================
