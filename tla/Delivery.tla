------------------------------ MODULE Delivery ------------------------------
(***************************************************************************)
(* What an outbound queue promises, without its mechanism: an item that    *)
(* was posted is carried to the recipient at least once before it leaves   *)
(* the queue, or the recipient turned it away.  Copies may repeat.         *)
(***************************************************************************)
EXTENDS Naturals

CONSTANT Items

VARIABLES
  posted,   \* items put in the queue
  copies,   \* how often the recipient got each of them
  refused,  \* items the recipient turned away
  settled   \* items that left the queue

vars == <<posted, copies, refused, settled>>

Init ==
  /\ posted = {} /\ refused = {} /\ settled = {}
  /\ copies = [i \in Items |-> 0]

Post(i) ==
  /\ posted' = posted \cup {i}
  /\ UNCHANGED <<copies, refused, settled>>

Deliver(i) ==
  /\ i \in posted
  /\ copies' = [copies EXCEPT ![i] = @ + 1]
  /\ UNCHANGED <<posted, refused, settled>>

Refuse(i) ==
  /\ i \in posted
  /\ refused' = refused \cup {i}
  /\ UNCHANGED <<posted, copies, settled>>

Settle(i) ==
  /\ copies[i] > 0 \/ i \in refused
  /\ settled' = settled \cup {i}
  /\ UNCHANGED <<posted, copies, refused>>

Next == \E i \in Items : Post(i) \/ Deliver(i) \/ Refuse(i) \/ Settle(i)

Spec == Init /\ [][Next]_vars
=============================================================================
