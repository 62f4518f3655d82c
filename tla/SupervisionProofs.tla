------------------------- MODULE SupervisionProofs --------------------------
(***************************************************************************)
(* Proofs about Supervision, for every set of passes, every number of      *)
(* agents and every scene: the auditor replaces an agent a bounded number  *)
(* of times, although every pass counts on attempts it has read before;    *)
(* the rows, runs and passes keep their types; finalized work stays done;  *)
(* a ticket has one agent at work, unless two spawners have looked past    *)
(* each other; and an access request follows its gate, while decisions on  *)
(* one gate do not overlap.                                                *)
(***************************************************************************)
EXTENDS Supervision, FiniteSetTheorems, WellFoundedInduction, TLAPS

-----------------------------------------------------------------------------
(* A pass holds a permission to replace an agent from the time it read the *)
(* agent's attempts until it counts the replacement or goes past it.       *)

Passes == [pc : AuditPcs, at : Agents \cup {NoAgent}, seen : [Agents -> {"absent", "active", "completed"}],
           tries : [Agents -> Nat], todo : SUBSET Changes]

Permits(pass, a) ==
  /\ pass.tries[a] < MaxRecovery
  /\ \/ pass.seen[a] = "active"
     \/ pass.at = a /\ pass.pc \notin {"idle", "sweep", "close"}

Counts(pass, a) == pass.pc = "count" /\ pass.at = a

Holders(a) == {p \in Audits : Permits(audit[p], a)}
Counting(a) == {p \in Audits : Counts(audit[p], a)}

\* A pass that is not idle is at an agent it has behind it, and one about to spawn or
\* to count has passed the test of the attempts.
Sound(p, pass) ==
  IF pass.pc = "idle" THEN pass = NoAudit
  ELSE /\ p \in scene.audits /\ pass.at \in Agents /\ pass.seen[pass.at] = "absent"
       /\ pass.pc \in {"spawn", "count"} => pass.tries[pass.at] < MaxRecovery

PassTypes ==
  /\ scene \in Scenes
  /\ audit \in [Audits -> Passes]
  /\ attempts \in [Agents -> Nat] /\ replaced \in [Agents -> Nat]
  /\ spent \in [posts : Nat, given : Nat, faults : Nat]
PassesSound == \A p \in Audits : Sound(p, audit[p])

\* The permissions out, with the attempts counted, stay within the limit: they are given
\* only below it, and to each pass at most one.
Budget ==
  \A a \in Agents :
    attempts[a] + Cardinality(Holders(a)) <= MaxRecovery + Cardinality(scene.audits \ {Loop})
\* Every replacement is counted, is being counted, or was cut off by a failure.
Ledger == \A a \in Agents : replaced[a] <= attempts[a] + Cardinality(Counting(a)) + spent.faults

BudgetInv == PassTypes /\ PassesSound /\ Budget /\ Ledger

-----------------------------------------------------------------------------
(* The steps of a pass.                                                    *)

LEMMA SceneAudits == ASSUME scene \in Scenes PROVE scene.audits \subseteq Audits
  BY SupervisionAssumption

LEMMA FinitePasses ==
  ASSUME NEW a
  PROVE  /\ IsFiniteSet(Holders(a)) /\ Cardinality(Holders(a)) \in Nat
         /\ IsFiniteSet(Counting(a)) /\ Cardinality(Counting(a)) \in Nat
         /\ IsFiniteSet(Holders(a)') /\ Cardinality(Holders(a)') \in Nat
         /\ IsFiniteSet(Counting(a)') /\ Cardinality(Counting(a)') \in Nat
<1>1. /\ Holders(a) \in SUBSET Audits /\ Counting(a) \in SUBSET Audits
      /\ Holders(a)' \in SUBSET Audits /\ Counting(a)' \in SUBSET Audits
  BY DEF Holders, Counting
<1> QED
  BY <1>1, SupervisionAssumption, FS_Subset, FS_CardinalityType

LEMMA NoAuditIsPass == NoAudit \in Passes /\ \A a \in Agents : ~Permits(NoAudit, a)
  BY GateAssumption DEF NoAudit, Passes, AuditPcs, Permits, Unseen, Untried, Agents, NoAgent

\* A set of agents that is not empty has a newest one.
LEMMA NewestAgent ==
  ASSUME NEW left \in SUBSET Agents, left # {}
  PROVE  \E b \in left : \A c \in left : c <= b
<1> DEFINE Above(b) == {c \in left : b < c}
           Tops == {Above(b) : b \in left}
<1>1. IsFiniteSet(left)
  <2>1. MaxAgents \in Int
    BY GateAssumption
  <2>2. IsFiniteSet(Agents)
    BY <2>1, FS_Interval DEF Agents
  <2> QED
    BY <2>2, FS_Subset
<1>2. Tops \subseteq FiniteSubsetsOf(left) /\ Tops # {}
  <2>1. ASSUME NEW b \in left PROVE Above(b) \in FiniteSubsetsOf(left)
    <3>1. Above(b) \in SUBSET left
      OBVIOUS
    <3>2. IsFiniteSet(Above(b))
      BY <1>1, <3>1, FS_Subset
    <3> QED
      BY <3>1, <3>2 DEF FiniteSubsetsOf
  <2> QED
    BY <2>1
<1>3. PICK top \in Tops : \A t \in Tops : <<t, top>> \notin StrictSubsetOrdering(left)
  BY <1>2, FS_StrictSubsetOrderingWellFounded, WFMin
<1>4. PICK b \in left : top = Above(b)
  BY <1>3
<1>5. ASSUME NEW c \in left, ~(c <= b) PROVE FALSE
  <2>1. b \in Nat /\ c \in Nat /\ b < c
    BY <1>5 DEF Agents
  <2>2. Above(c) \subseteq Above(b)
    <3>1. ASSUME NEW d \in left, c < d PROVE b < d
      <4>1. d \in Nat
        BY DEF Agents
      <4> QED
        BY <2>1, <3>1, <4>1
    <3> QED
      BY <3>1
  <2>3. c \in Above(b) /\ c \notin Above(c)
    BY <2>1
  <2>4. <<Above(c), Above(b)>> \in StrictSubsetOrdering(left)
    BY <2>2, <2>3 DEF StrictSubsetOrdering
  <2> QED
    BY <2>4, <1>3, <1>4
<1> QED
  BY <1>5

\* The next turn of a pass permits only what it had still to judge.
LEMMA TurnKeeps ==
  ASSUME NEW pass \in Passes
  PROVE  /\ Turn(pass) \in Passes
         /\ \/ Turn(pass) = NoAudit
            \/ /\ Turn(pass).pc \in {"sweep", "others"} /\ Turn(pass).at \in Agents
               /\ Turn(pass).seen[Turn(pass).at] = "absent"
         /\ \A a \in Agents : Permits(Turn(pass), a)
              => pass.seen[a] = "active" /\ pass.tries[a] < MaxRecovery
<1> DEFINE left == {a \in Agents : pass.seen[a] # "absent"}
           a == CHOOSE b \in left : \A c \in left : c <= b
           rest == [pass.seen EXCEPT ![a] = "absent"]
           pc == IF pass.seen[a] = "completed" THEN "sweep" ELSE "others"
           tries == [b \in Agents |-> IF b = a \/ rest[b] = "active" THEN pass.tries[b] ELSE 0]
           next == [pass EXCEPT !.pc = pc, !.at = a, !.seen = rest, !.todo = {}, !.tries = tries]
<1>1. CASE left = {}
  <2>1. Turn(pass) = NoAudit
    BY <1>1 DEF Turn
  <2> QED
    BY <2>1, NoAuditIsPass
<1>2. CASE left # {}
  <2>1. Turn(pass) = next
    BY <1>2 DEF Turn
  <2>2. a \in left
    BY <1>2, NewestAgent
  <2>3. a \in Agents /\ pass.seen[a] \in {"active", "completed"}
    BY <2>2 DEF Passes
  <2> HIDE DEF a, left
  <2>4. rest \in [Agents -> {"absent", "active", "completed"}] /\ rest[a] = "absent"
    BY <2>3 DEF Passes
  <2>5. next.pc = pc /\ next.at = a /\ next.seen = rest /\ next.tries = tries /\ next.todo = {}
    <3> HIDE DEF rest, pc, tries
    <3> QED
      BY DEF Passes
  <2>6. tries \in [Agents -> Nat] /\ pc \in AuditPcs /\ pc \in {"sweep", "others"}
    BY DEF Passes, AuditPcs
  <2>7. next \in Passes
    <3> HIDE DEF rest, pc, tries
    <3> QED
      BY <2>3, <2>4, <2>6 DEF Passes
  <2>8. ASSUME NEW b \in Agents, Permits(next, b)
        PROVE  pass.seen[b] = "active" /\ pass.tries[b] < MaxRecovery
    <3>1. tries[b] < MaxRecovery /\ (rest[b] = "active" \/ (b = a /\ pc # "sweep"))
      <4> HIDE DEF next, rest, pc, tries
      <4> QED
        BY <2>5, <2>8 DEF Permits
    <3>2. CASE b = a
      BY <2>3, <2>4, <3>1, <3>2
    <3>3. CASE b # a
      BY <2>3, <3>1, <3>3 DEF Passes
    <3> QED
      BY <3>2, <3>3
  <2> HIDE DEF rest, pc, tries
  <2>9. next.pc \in {"sweep", "others"} /\ next.at \in Agents /\ next.seen[next.at] = "absent"
    BY <2>3, <2>4, <2>5, <2>6
  <2> HIDE DEF next
  <2> QED
    BY <2>1, <2>7, <2>8, <2>9
<1> QED
  BY <1>1, <1>2

\* A step that leaves the passes alone.
LEMMA QuietKeeps ==
  ASSUME BudgetInv, UNCHANGED <<audit, attempts, replaced, scene>>,
         spent' \in [posts : Nat, given : Nat, faults : Nat], spent'.faults = spent.faults
  PROVE  BudgetInv'
<1>1. PassTypes' /\ PassesSound'
  BY DEF BudgetInv, PassTypes, PassesSound, Sound
<1>2. ASSUME NEW a \in Agents PROVE Holders(a)' = Holders(a) /\ Counting(a)' = Counting(a)
  BY DEF Holders, Counting
<1>3. Budget'
  BY <1>2 DEF BudgetInv, Budget
<1>4. Ledger'
  BY <1>2 DEF BudgetInv, Ledger
<1> QED
  BY <1>1, <1>3, <1>4 DEF BudgetInv

\* What a step of one pass does to the sets.
LEMMA OnePass ==
  ASSUME PassTypes, NEW p \in Audits, NEW pass, audit' = [audit EXCEPT ![p] = pass], NEW a \in Agents
  PROVE  /\ audit'[p] = pass
         /\ \A q \in Audits \ {p} : audit'[q] = audit[q]
         /\ Holders(a)' = (Holders(a) \ {p}) \cup (IF Permits(pass, a) THEN {p} ELSE {})
         /\ Counting(a)' = (Counting(a) \ {p}) \cup (IF Counts(pass, a) THEN {p} ELSE {})
<1>1. audit'[p] = pass /\ \A q \in Audits \ {p} : audit'[q] = audit[q]
  BY DEF PassTypes
<1>2. Holders(a)' = (Holders(a) \ {p}) \cup (IF Permits(pass, a) THEN {p} ELSE {})
  <2>1. Holders(a)' = {q \in Audits : Permits(audit'[q], a)}
    BY DEF Holders, Permits
  <2> QED
    BY <1>1, <2>1 DEF Holders
<1>3. Counting(a)' = (Counting(a) \ {p}) \cup (IF Counts(pass, a) THEN {p} ELSE {})
  <2>1. Counting(a)' = {q \in Audits : Counts(audit'[q], a)}
    BY DEF Counting, Counts
  <2> QED
    BY <1>1, <2>1 DEF Counting, Counts
<1> QED
  BY <1>1, <1>2, <1>3

LEMMA PassStaysSound ==
  ASSUME PassTypes, PassesSound, scene' = scene, NEW p \in Audits, NEW pass \in Passes, Sound(p, pass),
         audit' = [audit EXCEPT ![p] = pass], attempts' \in [Agents -> Nat], replaced' \in [Agents -> Nat],
         spent' \in [posts : Nat, given : Nat, faults : Nat]
  PROVE  PassTypes' /\ PassesSound'
<1>1. PassTypes'
  BY DEF PassTypes
<1>2. ASSUME NEW q \in Audits PROVE Sound(q, audit[q])'
  <2>1. Sound(q, audit[q])' <=> Sound(q, audit'[q])
    BY DEF Sound
  <2>2. CASE q = p
    BY <2>1, <2>2 DEF PassTypes
  <2>3. CASE q # p
    BY <2>1, <2>3 DEF PassTypes, PassesSound
  <2> QED
    BY <2>2, <2>3
<1> QED
  BY <1>1, <1>2 DEF PassesSound

\* A step of a pass that gives no permission and counts nothing; if it gives up the count
\* of a replacement, for a failure.
LEMMA PassKeeps ==
  ASSUME BudgetInv, NEW p \in Audits, NEW pass \in Passes, audit' = [audit EXCEPT ![p] = pass],
         UNCHANGED <<attempts, replaced, scene>>, Sound(p, pass),
         spent' \in [posts : Nat, given : Nat, faults : Nat],
         \A a \in Agents : Permits(pass, a) => Permits(audit[p], a),
         pass.pc # "count",
         \/ spent'.faults = spent.faults /\ audit[p].pc # "count"
         \/ spent'.faults = spent.faults + 1
  PROVE  BudgetInv'
<1> USE DEF BudgetInv
<1>1. PassTypes' /\ PassesSound'
  BY PassStaysSound DEF PassTypes
<1>2. ASSUME NEW a \in Agents
      PROVE  attempts[a]' + Cardinality(Holders(a))' <= (MaxRecovery + Cardinality(scene.audits \ {Loop}))'
  <2>1. Holders(a)' \in SUBSET Holders(a)
    BY OnePass DEF Holders
  <2>2. Cardinality(Holders(a)') <= Cardinality(Holders(a))
    BY <2>1, FinitePasses, FS_Subset
  <2>3. attempts[a] + Cardinality(Holders(a)) <= MaxRecovery + Cardinality(scene.audits \ {Loop})
    BY DEF Budget
  <2>4. scene.audits \ {Loop} \in SUBSET Audits
    BY SceneAudits DEF PassTypes
  <2>5. Cardinality(scene.audits \ {Loop}) \in Nat
    BY <2>4, SupervisionAssumption, FS_Subset, FS_CardinalityType
  <2>6. attempts[a] \in Nat /\ MaxRecovery \in Nat
    BY SupervisionAssumption DEF PassTypes
  <2> QED
    BY <2>2, <2>3, <2>5, <2>6, FinitePasses
<1>3. ASSUME NEW a \in Agents
      PROVE  replaced[a]' <= attempts[a]' + Cardinality(Counting(a))' + spent.faults'
  <2>1. Counting(a)' = Counting(a) \ {p}
    <3>1. Counting(a)' = (Counting(a) \ {p}) \cup (IF Counts(pass, a) THEN {p} ELSE {})
      BY OnePass
    <3> QED
      BY <3>1 DEF Counts
  <2>2. replaced[a] <= attempts[a] + Cardinality(Counting(a)) + spent.faults
    BY DEF Ledger
  <2>3. /\ replaced[a] \in Nat /\ attempts[a] \in Nat /\ spent.faults \in Nat
    BY DEF PassTypes
  <2>4. CASE audit[p].pc # "count"
    <3>1. Counting(a)' = Counting(a)
      BY <2>1, <2>4 DEF Counting, Counts
    <3> QED
      BY <2>2, <2>3, <3>1, FinitePasses
  <2>5. CASE spent'.faults = spent.faults + 1
    <3>1. Cardinality(Counting(a)') >= Cardinality(Counting(a)) - 1
      BY <2>1, FinitePasses, FS_RemoveElement
    <3> QED
      BY <2>2, <2>3, <2>5, <3>1, FinitePasses
  <2> QED
    BY <2>4, <2>5
<1> QED
  BY <1>1, <1>2, <1>3 DEF Budget, Ledger

LEMMA LimitIsNat ==
  ASSUME scene \in Scenes
  PROVE  /\ MaxRecovery \in Nat /\ Cardinality(scene.audits \ {Loop}) \in Nat
         /\ IsFiniteSet(scene.audits)
         /\ Cardinality(scene.audits) <= Cardinality(scene.audits \ {Loop}) + 1
<1>1. scene.audits \in SUBSET Audits
  BY SceneAudits
<1>2. IsFiniteSet(scene.audits) /\ Cardinality(scene.audits) \in Nat
  BY <1>1, SupervisionAssumption, FS_Subset, FS_CardinalityType
<1>3. IsFiniteSet(scene.audits \ {Loop})
      /\ Cardinality(scene.audits \ {Loop}) =
           IF Loop \in scene.audits THEN Cardinality(scene.audits) - 1 ELSE Cardinality(scene.audits)
  BY <1>2, FS_RemoveElement
<1>4. Cardinality(scene.audits \ {Loop}) \in Nat
  BY <1>3, FS_CardinalityType
<1> QED
  BY <1>2, <1>3, <1>4, SupervisionAssumption

\* A pass that starts gets a permission only for an agent below the limit, and every
\* permission out belongs to another pass.
LEMMA StartKeeps ==
  ASSUME BudgetInv, NEW p \in Audits, NEW pass \in Passes, audit' = [audit EXCEPT ![p] = pass],
         audit[p].pc = "idle", UNCHANGED <<attempts, replaced, scene>>, Sound(p, pass),
         spent' \in [posts : Nat, given : Nat, faults : Nat], spent'.faults = spent.faults,
         \A a \in Agents : Permits(pass, a) => attempts[a] < MaxRecovery,
         pass.pc # "count"
  PROVE  BudgetInv'
<1> USE DEF BudgetInv
<1>1. PassTypes' /\ PassesSound'
  BY PassStaysSound DEF PassTypes
<1>2. ASSUME NEW a \in Agents
      PROVE  attempts[a]' + Cardinality(Holders(a))' <= (MaxRecovery + Cardinality(scene.audits \ {Loop}))'
  <2>1. attempts[a] \in Nat
    BY DEF PassTypes
  <2>2. CASE Permits(pass, a)
    <3>1. ASSUME NEW q \in Audits, Permits(audit'[q], a) PROVE q \in scene.audits
      <4>1. Sound(q, audit'[q])
        BY <1>1 DEF PassesSound, Sound
      <4> QED
        BY <3>1, <4>1, NoAuditIsPass DEF Sound
    <3>2. Holders(a)' \in SUBSET scene.audits
      BY <3>1 DEF Holders, Permits
    <3>3. Cardinality(Holders(a)') <= Cardinality(scene.audits)
      BY <3>2, LimitIsNat, FS_Subset DEF PassTypes
    <3>4. Cardinality(scene.audits) \in Nat
      BY LimitIsNat, FS_CardinalityType DEF PassTypes
    <3>5. attempts[a] < MaxRecovery
      BY <2>2
    <3>6. /\ MaxRecovery \in Nat /\ Cardinality(scene.audits \ {Loop}) \in Nat
          /\ Cardinality(scene.audits) <= Cardinality(scene.audits \ {Loop}) + 1
      BY LimitIsNat DEF PassTypes
    <3>7. attempts[a] + Cardinality(Holders(a)') <= MaxRecovery + Cardinality(scene.audits \ {Loop})
      BY <2>1, <3>3, <3>4, <3>5, <3>6, FinitePasses
    <3>8. attempts' = attempts /\ scene' = scene
      OBVIOUS
    <3> HIDE DEF BudgetInv
    <3> QED
      BY <3>7, <3>8
  <2>3. CASE ~Permits(pass, a)
    <3>1. Holders(a)' = (Holders(a) \ {p}) \cup (IF Permits(pass, a) THEN {p} ELSE {})
      BY OnePass
    <3>2. Holders(a)' \in SUBSET Holders(a)
      BY <2>3, <3>1
    <3>3. Cardinality(Holders(a)') <= Cardinality(Holders(a))
      BY <3>2, FinitePasses, FS_Subset
    <3>4. attempts[a] + Cardinality(Holders(a)) <= MaxRecovery + Cardinality(scene.audits \ {Loop})
      BY DEF Budget
    <3>5. MaxRecovery \in Nat /\ Cardinality(scene.audits \ {Loop}) \in Nat
      BY LimitIsNat DEF PassTypes
    <3>6. attempts[a] + Cardinality(Holders(a)') <= MaxRecovery + Cardinality(scene.audits \ {Loop})
      BY <2>1, <3>3, <3>4, <3>5, FinitePasses
    <3> QED
      BY <3>6
  <2> QED
    BY <2>2, <2>3
<1>3. ASSUME NEW a \in Agents PROVE Counting(a)' = Counting(a)
  <2>1. Counting(a)' = (Counting(a) \ {p}) \cup (IF Counts(pass, a) THEN {p} ELSE {})
    BY OnePass
  <2> QED
    BY <2>1 DEF Counting, Counts
<1> QED
  BY <1>1, <1>2, <1>3 DEF Budget, Ledger

\* The replacement is counted later, and its permission is kept until then.
LEMMA SpawnKeeps ==
  ASSUME BudgetInv, NEW p \in Audits, AuditSpawns(p)
  PROVE  BudgetInv'
<1> DEFINE b == audit[p].at
           pass == [audit[p] EXCEPT !.pc = "count"]
<1> USE DEF BudgetInv
<1>1. /\ audit[p].pc = "spawn" /\ audit' = [audit EXCEPT ![p] = pass]
      /\ UNCHANGED <<attempts, scene, spent>> /\ replaced' = [replaced EXCEPT ![b] = @ + 1]
  BY DEF AuditSpawns, SpawnRows, Proceed
<1>2. pass \in Passes /\ b \in Agents /\ Sound(p, pass)
  BY <1>1 DEF PassTypes, PassesSound, Passes, AuditPcs, Sound
<1>3. PassTypes' /\ PassesSound'
  <2>1. attempts' \in [Agents -> Nat] /\ replaced' \in [Agents -> Nat]
    BY <1>1, <1>2 DEF PassTypes
  <2>2. spent' \in [posts : Nat, given : Nat, faults : Nat] /\ scene' = scene
    BY <1>1 DEF PassTypes
  <2> HIDE DEF pass
  <2> QED
    BY <1>1, <1>2, <2>1, <2>2, PassStaysSound
<1>4. ASSUME NEW a \in Agents
      PROVE  /\ Holders(a)' = Holders(a)
             /\ Counting(a)' = Counting(a) \cup (IF a = b THEN {p} ELSE {}) /\ p \notin Counting(a)
  <2>1. Permits(pass, a) <=> Permits(audit[p], a)
    BY <1>1 DEF Permits, PassTypes, Passes
  <2>2. /\ Holders(a)' = (Holders(a) \ {p}) \cup (IF Permits(pass, a) THEN {p} ELSE {})
        /\ Counting(a)' = (Counting(a) \ {p}) \cup (IF Counts(pass, a) THEN {p} ELSE {})
    BY <1>1, OnePass
  <2>3. pass.pc = "count" /\ pass.at = b
    BY DEF PassTypes, Passes
  <2>4. p \notin Counting(a)
    BY <1>1 DEF Counting, Counts
  <2> HIDE DEF pass
  <2>5. Holders(a)' = Holders(a)
    BY <2>1, <2>2 DEF Holders
  <2>6. Counting(a)' = Counting(a) \cup (IF a = b THEN {p} ELSE {})
    BY <2>2, <2>3, <2>4 DEF Counts
  <2> QED
    BY <2>4, <2>5, <2>6
<1>5. Budget'
  BY <1>1, <1>4 DEF Budget
<1>6. ASSUME NEW a \in Agents
      PROVE  replaced[a]' <= attempts[a]' + Cardinality(Counting(a))' + spent.faults'
  <2>1. /\ replaced[a] \in Nat /\ attempts[a] \in Nat /\ spent.faults \in Nat
        /\ replaced[a] <= attempts[a] + Cardinality(Counting(a)) + spent.faults
    BY DEF PassTypes, Ledger
  <2>2. CASE a = b
    <3>1. Cardinality(Counting(a)') = Cardinality(Counting(a)) + 1
      BY <1>4, <2>2, FinitePasses, FS_AddElement
    <3>2. replaced'[a] = replaced[a] + 1
      BY <1>1, <2>2 DEF PassTypes
    <3> QED
      BY <1>1, <2>1, <3>1, <3>2, FinitePasses
  <2>3. CASE a # b
    <3>1. Counting(a)' = Counting(a) /\ replaced'[a] = replaced[a]
      BY <1>1, <1>4, <2>3 DEF PassTypes
    <3> QED
      BY <1>1, <2>1, <3>1
  <2> QED
    BY <2>2, <2>3
<1> QED
  BY <1>3, <1>5, <1>6 DEF Ledger

\* The count takes the place of the permission.
LEMMA CountKeeps ==
  ASSUME BudgetInv, NEW p \in Audits, AuditCounts(p)
  PROVE  BudgetInv'
<1> DEFINE b == audit[p].at
           pass == Turn(audit[p])
<1> USE DEF BudgetInv
<1>1. /\ audit[p].pc = "count" /\ audit' = [audit EXCEPT ![p] = pass]
      /\ UNCHANGED <<replaced, scene, spent>> /\ attempts' = [attempts EXCEPT ![b] = @ + 1]
  BY DEF AuditCounts, NextAgent, desk
<1>2. audit[p] \in Passes /\ b \in Agents /\ p \in scene.audits
      /\ audit[p].seen[b] = "absent" /\ audit[p].tries[b] < MaxRecovery
  BY <1>1 DEF PassTypes, PassesSound, Sound
<1>3. pass \in Passes /\ Sound(p, pass) /\ pass.pc # "count"
  <2>1. /\ pass \in Passes
        /\ \/ pass = NoAudit
           \/ pass.pc \in {"sweep", "others"} /\ pass.at \in Agents /\ pass.seen[pass.at] = "absent"
    BY <1>2, TurnKeeps
  <2> HIDE DEF pass
  <2> QED
    BY <1>2, <2>1 DEF Sound, NoAudit
<1>4. PassTypes' /\ PassesSound'
  <2>1. attempts' \in [Agents -> Nat] /\ replaced' \in [Agents -> Nat]
    BY <1>1, <1>2 DEF PassTypes
  <2>2. spent' \in [posts : Nat, given : Nat, faults : Nat] /\ scene' = scene
    BY <1>1 DEF PassTypes
  <2> HIDE DEF pass
  <2> QED
    BY <1>1, <1>3, <2>1, <2>2, PassStaysSound
<1>5. ASSUME NEW a \in Agents
      PROVE  /\ Holders(a)' \in SUBSET Holders(a)
             /\ a = b => p \in Holders(a) /\ Holders(a)' \in SUBSET (Holders(a) \ {p})
             /\ Counting(a)' = Counting(a) \ {p} /\ (a = b <=> p \in Counting(a))
  <2>1. Permits(pass, a) => audit[p].seen[a] = "active" /\ audit[p].tries[a] < MaxRecovery
    BY <1>2, TurnKeeps
  <2>2. /\ Holders(a)' = (Holders(a) \ {p}) \cup (IF Permits(pass, a) THEN {p} ELSE {})
        /\ Counting(a)' = (Counting(a) \ {p}) \cup (IF Counts(pass, a) THEN {p} ELSE {})
    BY <1>1, OnePass
  <2> HIDE DEF pass
  <2>3. Counting(a)' = Counting(a) \ {p} /\ (a = b <=> p \in Counting(a))
    BY <1>1, <1>3, <2>2 DEF Counting, Counts
  <2>4. Permits(pass, a) => p \in Holders(a) /\ a # b
    BY <1>2, <2>1 DEF Holders, Permits
  <2>5. a = b => p \in Holders(a)
    BY <1>1, <1>2 DEF Holders, Permits
  <2> QED
    BY <2>2, <2>3, <2>4, <2>5
<1>6. ASSUME NEW a \in Agents
      PROVE  /\ attempts[a]' + Cardinality(Holders(a))' <= (MaxRecovery + Cardinality(scene.audits \ {Loop}))'
             /\ replaced[a]' <= attempts[a]' + Cardinality(Counting(a))' + spent.faults'
  <2>1. /\ replaced[a] \in Nat /\ attempts[a] \in Nat /\ spent.faults \in Nat
        /\ replaced[a] <= attempts[a] + Cardinality(Counting(a)) + spent.faults
        /\ attempts[a] + Cardinality(Holders(a)) <= MaxRecovery + Cardinality(scene.audits \ {Loop})
    BY DEF PassTypes, Ledger, Budget
  <2>2. CASE a = b
    <3>1. Cardinality(Counting(a)') = Cardinality(Counting(a)) - 1
      BY <1>5, <2>2, FinitePasses, FS_RemoveElement
    <3>2. /\ IsFiniteSet(Holders(a) \ {p})
          /\ Cardinality(Holders(a) \ {p}) = Cardinality(Holders(a)) - 1
      BY <1>5, <2>2, FinitePasses, FS_RemoveElement
    <3>3. Cardinality(Holders(a)') <= Cardinality(Holders(a)) - 1
      BY <1>5, <2>2, <3>2, FS_Subset
    <3>4. attempts'[a] = attempts[a] + 1
      BY <1>1, <2>2 DEF PassTypes
    <3> QED
      BY <1>1, <2>1, <3>1, <3>3, <3>4, FinitePasses, LimitIsNat DEF PassTypes
  <2>3. CASE a # b
    <3>1. Counting(a)' = Counting(a) /\ attempts'[a] = attempts[a]
      BY <1>1, <1>5, <2>3 DEF PassTypes
    <3>2. Cardinality(Holders(a)') <= Cardinality(Holders(a))
      BY <1>5, FinitePasses, FS_Subset
    <3> QED
      BY <1>1, <2>1, <3>1, <3>2, FinitePasses, LimitIsNat DEF PassTypes
  <2> QED
    BY <2>2, <2>3
<1> QED
  BY <1>4, <1>6 DEF Budget, Ledger

-----------------------------------------------------------------------------
(* Every step of a pass. *)

LEMMA ProceedKeeps ==
  ASSUME BudgetInv, NEW p \in Audits, NEW pc \in AuditPcs \ {"idle", "sweep", "close", "count"},
         Proceed(p, pc), audit[p].pc \notin {"idle", "sweep", "close", "count"},
         pc = "spawn" => audit[p].tries[audit[p].at] < MaxRecovery,
         UNCHANGED <<attempts, replaced, scene, spent>>
  PROVE  BudgetInv'
<1> DEFINE pass == [audit[p] EXCEPT !.pc = pc]
<1>1. audit' = [audit EXCEPT ![p] = pass]
  BY DEF Proceed
<1>2. audit[p] \in Passes /\ Sound(p, audit[p])
  BY DEF BudgetInv, PassTypes, PassesSound
<1>3. /\ pass \in Passes /\ pass.pc = pc /\ pass.at = audit[p].at
      /\ pass.seen = audit[p].seen /\ pass.tries = audit[p].tries
  BY <1>2 DEF Passes
<1> HIDE DEF pass
<1>4. Sound(p, pass)
  BY <1>2, <1>3 DEF Sound
<1>5. \A a \in Agents : Permits(pass, a) => Permits(audit[p], a)
  BY <1>3 DEF Permits
<1>6. spent' \in [posts : Nat, given : Nat, faults : Nat] /\ spent'.faults = spent.faults
  BY DEF BudgetInv, PassTypes
<1> QED
  BY <1>1, <1>3, <1>4, <1>5, <1>6, PassKeeps

LEMMA NextAgentKeeps ==
  ASSUME BudgetInv, NEW p \in Audits, NextAgent(p), audit[p].pc \notin {"idle", "count"},
         UNCHANGED <<attempts, replaced, scene, spent>>
  PROVE  BudgetInv'
<1> DEFINE pass == Turn(audit[p])
<1>1. audit' = [audit EXCEPT ![p] = pass]
  BY DEF NextAgent
<1>2. audit[p] \in Passes /\ Sound(p, audit[p])
  BY DEF BudgetInv, PassTypes, PassesSound
<1>3. /\ pass \in Passes
      /\ \/ pass = NoAudit
         \/ pass.pc \in {"sweep", "others"} /\ pass.at \in Agents /\ pass.seen[pass.at] = "absent"
      /\ \A a \in Agents : Permits(pass, a) => Permits(audit[p], a)
  BY <1>2, TurnKeeps DEF Permits
<1> HIDE DEF pass
<1>4. Sound(p, pass) /\ pass.pc # "count"
  BY <1>2, <1>3 DEF Sound, NoAudit
<1>5. spent' \in [posts : Nat, given : Nat, faults : Nat] /\ spent'.faults = spent.faults
  BY DEF BudgetInv, PassTypes
<1> QED
  BY <1>1, <1>3, <1>4, <1>5, PassKeeps

\* A pass that ends before its time, by a failure or not.
LEMMA EndKeeps ==
  ASSUME BudgetInv, NEW p \in Audits, audit' = [audit EXCEPT ![p] = NoAudit],
         UNCHANGED <<attempts, replaced, scene>>,
         \/ UNCHANGED spent /\ audit[p].pc # "count"
         \/ spent' = [spent EXCEPT !.faults = @ + 1]
  PROVE  BudgetInv'
<1>1. Sound(p, NoAudit) /\ NoAudit.pc # "count"
  BY DEF Sound, NoAudit
<1>2. /\ spent' \in [posts : Nat, given : Nat, faults : Nat]
      /\ \/ spent'.faults = spent.faults /\ audit[p].pc # "count"
         \/ spent'.faults = spent.faults + 1
  BY DEF BudgetInv, PassTypes
<1> QED
  BY <1>1, <1>2, NoAuditIsPass, PassKeeps

LEMMA CloseKeeps ==
  ASSUME BudgetInv, NEW p \in Audits, NEW todo \in SUBSET Changes,
         audit[p].pc \in {"sweep", "close"},
         audit' = [audit EXCEPT ![p].pc = "close", ![p].todo = todo],
         UNCHANGED <<attempts, replaced, scene, spent>>
  PROVE  BudgetInv'
<1> DEFINE pass == [audit[p] EXCEPT !.pc = "close", !.todo = todo]
<1>1. audit' = [audit EXCEPT ![p] = pass]
  BY DEF BudgetInv, PassTypes
<1>2. audit[p] \in Passes /\ Sound(p, audit[p])
  BY DEF BudgetInv, PassTypes, PassesSound
<1>3. /\ pass \in Passes /\ pass.pc = "close" /\ pass.at = audit[p].at
      /\ pass.seen = audit[p].seen /\ pass.tries = audit[p].tries
  BY <1>2 DEF Passes, AuditPcs
<1> HIDE DEF pass
<1>4. Sound(p, pass)
  BY <1>2, <1>3 DEF Sound
<1>5. \A a \in Agents : Permits(pass, a) => Permits(audit[p], a)
  BY <1>3 DEF Permits
<1>6. spent' \in [posts : Nat, given : Nat, faults : Nat] /\ spent'.faults = spent.faults
  BY DEF BudgetInv, PassTypes
<1> QED
  BY <1>1, <1>3, <1>4, <1>5, <1>6, PassKeeps

LEMMA AuditStartKeeps ==
  ASSUME BudgetInv, NEW p \in Audits, AuditStarts(p)
  PROVE  BudgetInv'
<1> DEFINE seen == [a \in Agents |-> Judged(a)]
           start == [NoAudit EXCEPT !.seen = seen, !.tries = attempts]
           pass == Turn(start)
<1>1. /\ audit[p].pc = "idle" /\ p \in scene.audits /\ audit' = [audit EXCEPT ![p] = pass]
      /\ UNCHANGED <<attempts, replaced, scene>>
      /\ spent' \in [posts : Nat, given : Nat, faults : Nat] /\ spent'.faults = spent.faults
  BY DEF AuditStarts, desk, BudgetInv, PassTypes
<1>2. start \in Passes /\ start.tries = attempts
  <2>1. seen \in [Agents -> {"absent", "active", "completed"}]
    BY DEF Judged
  <2>2. attempts \in [Agents -> Nat]
    BY DEF BudgetInv, PassTypes
  <2> HIDE DEF seen
  <2> QED
    BY <2>1, <2>2 DEF Passes, NoAudit, AuditPcs
<1> HIDE DEF start
<1>3. /\ pass \in Passes
      /\ \/ pass = NoAudit
         \/ pass.pc \in {"sweep", "others"} /\ pass.at \in Agents /\ pass.seen[pass.at] = "absent"
      /\ \A a \in Agents : Permits(pass, a) => attempts[a] < MaxRecovery
  BY <1>2, TurnKeeps
<1> HIDE DEF pass
<1>4. Sound(p, pass) /\ pass.pc # "count"
  BY <1>1, <1>3 DEF Sound, NoAudit
<1> QED
  BY <1>1, <1>3, <1>4, StartKeeps

LEMMA AuditKeeps ==
  ASSUME BudgetInv, NEW p \in Audits, Audit(p) \/ AuditFails(p)
  PROVE  BudgetInv'
<1>1. CASE AuditStarts(p)
  BY <1>1, AuditStartKeeps
<1>2. CASE AuditSweeps(p)
  <2>1. UNCHANGED <<attempts, replaced, scene, spent>> /\ audit[p].pc = "sweep"
    BY <1>2 DEF AuditSweeps, Tally, desk
  <2>2. CASE NextAgent(p)
    BY <2>1, <2>2, NextAgentKeeps
  <2>3. CASE audit' = [audit EXCEPT ![p].pc = "close", ![p].todo = SweepOf(audit[p].at)]
    <3>1. SweepOf(audit[p].at) \in SUBSET Changes
      BY DEF SweepOf
    <3> QED
      BY <2>1, <2>3, <3>1, CloseKeeps
  <2> QED
    BY <1>2, <2>2, <2>3 DEF AuditSweeps
<1>3. CASE AuditCloses(p)
  <2>1. UNCHANGED <<attempts, replaced, scene, spent>> /\ audit[p].pc = "close"
    BY <1>3 DEF AuditCloses, Tally
  <2>2. PICK c \in audit[p].todo :
          \/ NextAgent(p)
          \/ audit' = [audit EXCEPT ![p].todo = audit[p].todo \ {c}]
    BY <1>3 DEF AuditCloses
  <2>3. CASE NextAgent(p)
    BY <2>1, <2>3, NextAgentKeeps
  <2>4. CASE audit' = [audit EXCEPT ![p].todo = audit[p].todo \ {c}]
    <3>1. audit \in [Audits -> Passes] /\ audit[p] \in Passes
      BY DEF BudgetInv, PassTypes
    <3>2. audit[p].todo \ {c} \in SUBSET Changes
      BY <3>1 DEF Passes
    <3>3. [audit[p] EXCEPT !.todo = audit[p].todo \ {c}]
            = [audit[p] EXCEPT !.pc = "close", !.todo = audit[p].todo \ {c}]
      BY <2>1, <3>1 DEF Passes
    <3>4. audit' = [audit EXCEPT ![p].pc = "close", ![p].todo = audit[p].todo \ {c}]
      BY <2>4, <3>1, <3>3
    <3> QED
      BY <2>1, <3>2, <3>4, CloseKeeps
  <2> QED
    BY <2>2, <2>3, <2>4
<1>4. CASE AuditSeesOthers(p)
  <2>1. UNCHANGED <<attempts, replaced, scene, spent>> /\ audit[p].pc = "others"
        /\ (NextAgent(p) \/ Proceed(p, "pending"))
    BY <1>4 DEF AuditSeesOthers, Tally, desk
  <2> QED
    BY <2>1, NextAgentKeeps, ProceedKeeps DEF AuditPcs
<1>5. CASE AuditSeesPending(p)
  <2>1. UNCHANGED <<attempts, replaced, scene, spent>> /\ audit[p].pc = "pending"
        /\ (NextAgent(p) \/ Proceed(p, "recover"))
    BY <1>5 DEF AuditSeesPending, Tally, desk
  <2> QED
    BY <2>1, NextAgentKeeps, ProceedKeeps DEF AuditPcs
<1>6. CASE AuditRecovers(p)
  <2>1. UNCHANGED <<attempts, replaced, scene, spent>> /\ audit[p].pc = "recover"
        /\ (Proceed(p, "judge") \/ Proceed(p, "finishTask") \/ Proceed(p, "resolve"))
    BY <1>6 DEF AuditRecovers, Tally, desk
  <2> QED
    BY <2>1, ProceedKeeps DEF AuditPcs
<1>7. CASE AuditResolves(p)
  <2>1. UNCHANGED <<attempts, replaced, scene, spent>> /\ audit[p].pc = "resolve"
        /\ Proceed(p, "finishTask")
    BY <1>7 DEF AuditResolves, TicketResolved, Tally
  <2> QED
    BY <2>1, ProceedKeeps DEF AuditPcs
<1>8. CASE AuditFinishesTask(p)
  <2>1. UNCHANGED <<attempts, replaced, scene, spent>> /\ audit[p].pc = "finishTask"
        /\ Proceed(p, "finishAgent")
    BY <1>8 DEF AuditFinishesTask, desk
  <2> QED
    BY <2>1, ProceedKeeps DEF AuditPcs
<1>9. CASE AuditFinishesAgent(p)
  <2>1. UNCHANGED <<attempts, replaced, scene, spent>> /\ audit[p].pc = "finishAgent"
        /\ Proceed(p, "kill")
    BY <1>9 DEF AuditFinishesAgent, Tally
  <2> QED
    BY <2>1, ProceedKeeps DEF AuditPcs
<1>10. CASE AuditKills(p)
  <2>1. UNCHANGED <<attempts, replaced, scene, spent>> /\ audit[p].pc = "kill"
        /\ (NextAgent(p) \/ audit' = [audit EXCEPT ![p] = NoAudit])
    BY <1>10 DEF AuditKills, Tally, desk
  <2> QED
    BY <2>1, NextAgentKeeps, EndKeeps
<1>11. CASE AuditJudges(p)
  <2>1. UNCHANGED <<attempts, replaced, scene, spent>> /\ audit[p].pc = "judge"
        /\ (NextAgent(p) \/ Proceed(p, "look"))
    BY <1>11 DEF AuditJudges, Tally, desk
  <2> QED
    BY <2>1, NextAgentKeeps, ProceedKeeps DEF AuditPcs
<1>12. CASE AuditLooks(p)
  <2>1. UNCHANGED <<attempts, replaced, scene, spent>> /\ audit[p].pc = "look"
        /\ \/ NextAgent(p)
           \/ Proceed(p, "spawn") /\ audit[p].tries[audit[p].at] < MaxRecovery
    BY <1>12 DEF AuditLooks, MaySpawn, Tally, desk
  <2> QED
    BY <2>1, NextAgentKeeps, ProceedKeeps DEF AuditPcs
<1>13. CASE AuditSpawns(p)
  BY <1>13, SpawnKeeps
<1>14. CASE AuditCounts(p)
  BY <1>14, CountKeeps
<1>15. CASE AuditFails(p)
  <2>1. /\ UNCHANGED <<attempts, replaced, scene>> /\ audit' = [audit EXCEPT ![p] = NoAudit]
        /\ spent' = [spent EXCEPT !.faults = @ + 1]
    BY <1>15 DEF AuditFails, desk
  <2> QED
    BY <2>1, EndKeeps
<1> QED
  BY <1>1, <1>2, <1>3, <1>4, <1>5, <1>6, <1>7, <1>8, <1>9, <1>10, <1>11, <1>12, <1>13, <1>14, <1>15
     DEF Audit

-----------------------------------------------------------------------------
(* The steps of the gates, of the harnesses and of an operator leave the   *)
(* passes alone.                                                           *)

LEMMA SceneStays == ASSUME Next PROVE scene' = scene
<1>1. ASSUME NEW a \in Agents, Work(a) \/ AgentExits(a) PROVE scene' = scene
  BY <1>1 DEF Work, RequestChange, AgentReports, AgentLearns, AgentResolves, AgentExits, desk
<1>2. ASSUME NEW a \in Agents, Finish(a) PROVE scene' = scene
  BY <1>2 DEF Finish, OpenAccess, ReadStopped, ReadGates, CheckOthers, SpawnContinuation, SpawnRows,
     ReadEvidence, ResolveRecovered, TicketResolved, WriteTask, WriteAgent, ParkTicket,
     SweepChanges, CloseChange, ReportDone, SettleTicket, desk
<1>3. ASSUME NEW r \in Requests, Call(r) \/ Handle(r) PROVE scene' = scene
  BY <1>3 DEF Call, Handle, ReadChange, WriteChange, SyncAccess, GrantLease, ResumeOwn,
     ResumeTicket, ResumeSpawn, SpawnRows, HandAgent, HandTask, desk
<1> QED
  BY <1>1, <1>2, <1>3 DEF Next

LEMMA OrderIsQuiet ==
  ASSUME NEW o \in Operators, Obey(o)
  PROVE  UNCHANGED <<audit, attempts, replaced, scene, spent>>
  BY DEF Obey, ReadTask, StopProcess, StopTask, StopAgent, Reassign, SpawnAgain, SpawnRows, Tally, desk

LEMMA StepKeeps ==
  ASSUME BudgetInv, SupNext
  PROVE  BudgetInv'
<1>1. spent \in [posts : Nat, given : Nat, faults : Nat]
  BY DEF BudgetInv, PassTypes
<1>2. CASE GateStep
  <2>1. UNCHANGED <<audit, attempts, replaced, scene, spent>>
    BY <1>2, SceneStays DEF GateStep
  <2> QED
    BY <1>1, <2>1, QuietKeeps
<1>3. ASSUME NEW a \in Agents, Hang(a) PROVE BudgetInv'
  <2>1. UNCHANGED <<audit, attempts, replaced, scene, spent>>
    BY <1>3 DEF Hang, Tally, desk
  <2> QED
    BY <1>1, <2>1, QuietKeeps
<1>4. ASSUME NEW p \in Audits, Audit(p) \/ AuditFails(p) PROVE BudgetInv'
  BY <1>4, AuditKeeps
<1>5. ASSUME NEW o \in Operators, Order(o) PROVE BudgetInv'
  <2>1. UNCHANGED <<audit, attempts, replaced, scene>> /\ spent' = [spent EXCEPT !.given = @ + 1]
    BY <1>5 DEF Order, desk
  <2>2. spent' \in [posts : Nat, given : Nat, faults : Nat] /\ spent'.faults = spent.faults
    BY <1>1, <2>1
  <2> QED
    BY <2>1, <2>2, QuietKeeps
<1>6. ASSUME NEW o \in Operators, Obey(o) PROVE BudgetInv'
  BY <1>1, <1>6, OrderIsQuiet, QuietKeeps
<1> QED
  BY <1>2, <1>3, <1>4, <1>5, <1>6 DEF SupNext, Supervise

LEMMA InitBudget == SupInit => BudgetInv
<1> SUFFICES ASSUME SupInit PROVE BudgetInv
  OBVIOUS
<1>1. /\ scene \in Scenes /\ audit = [p \in Audits |-> NoAudit]
      /\ attempts = [a \in Agents |-> 0] /\ replaced = [a \in Agents |-> 0]
      /\ spent = [posts |-> 0, given |-> 0, faults |-> 0]
  BY DEF SupInit, Init, Untried
<1>2. PassTypes /\ PassesSound
  BY <1>1, NoAuditIsPass DEF PassTypes, PassesSound, Sound, NoAudit
<1>3. ASSUME NEW a \in Agents
      PROVE  /\ attempts[a] + Cardinality(Holders(a)) <= MaxRecovery + Cardinality(scene.audits \ {Loop})
             /\ replaced[a] <= attempts[a] + Cardinality(Counting(a)) + spent.faults
  <2>1. Holders(a) = {} /\ Counting(a) = {}
    <3>1. \A p \in Audits : audit[p] = NoAudit
      BY <1>1
    <3>2. ~Permits(NoAudit, a) /\ ~Counts(NoAudit, a)
      BY NoAuditIsPass DEF Counts, NoAudit
    <3> QED
      BY <3>1, <3>2 DEF Holders, Counting
  <2>2. Cardinality({}) = 0
    BY FS_EmptySet
  <2>3. attempts[a] = 0 /\ replaced[a] = 0 /\ spent.faults = 0
    BY <1>1
  <2> QED
    BY <1>1, <2>1, <2>2, <2>3, LimitIsNat
<1> QED
  BY <1>2, <1>3 DEF BudgetInv, Budget, Ledger

\* A pass that counts a replacement holds the permission for it.
LEMMA BudgetBounds == BudgetInv => ReplacementsBounded
<1> SUFFICES ASSUME BudgetInv, NEW a \in Agents
             PROVE  replaced[a] <= MaxRecovery + Cardinality(scene.audits \ {Loop}) + spent.faults
  BY DEF ReplacementsBounded
<1>1. Counting(a) \in SUBSET Holders(a)
  <2>1. ASSUME NEW p \in Audits, Counts(audit[p], a) PROVE Permits(audit[p], a)
    BY <2>1 DEF BudgetInv, PassesSound, Sound, Counts, Permits
  <2> QED
    BY <2>1 DEF Counting, Holders
<1>2. Cardinality(Counting(a)) <= Cardinality(Holders(a))
  BY <1>1, FinitePasses, FS_Subset
<1>3. /\ replaced[a] \in Nat /\ attempts[a] \in Nat /\ spent.faults \in Nat
      /\ replaced[a] <= attempts[a] + Cardinality(Counting(a)) + spent.faults
      /\ attempts[a] + Cardinality(Holders(a)) <= MaxRecovery + Cardinality(scene.audits \ {Loop})
      /\ MaxRecovery \in Nat /\ Cardinality(scene.audits \ {Loop}) \in Nat
  BY LimitIsNat DEF BudgetInv, PassTypes, Ledger, Budget
<1> QED
  BY <1>2, <1>3, FinitePasses

\* The auditor replaces an agent at most MAX_RECOVERY_ATTEMPTS times, and once more for
\* every pass beside the loop's and for every failure between the spawn and the count:
\* _spawn_replacement tests the attempts that its pass read at the start, and counts only
\* after the new agent is there, so overlapping passes each spend the last attempt.
THEOREM ReplacedBounded == SupSpec => []ReplacementsBounded
<1>1. BudgetInv /\ [SupNext]_allVars => BudgetInv'
  <2> SUFFICES ASSUME BudgetInv, [SupNext]_allVars PROVE BudgetInv'
    OBVIOUS
  <2>1. CASE SupNext
    BY <2>1, StepKeeps
  <2>2. CASE UNCHANGED allVars
    <3>1. UNCHANGED <<audit, attempts, replaced, scene, spent>>
      BY <2>2 DEF allVars, vars, desk, supVars
    <3>2. spent' \in [posts : Nat, given : Nat, faults : Nat]
      BY <3>1 DEF BudgetInv, PassTypes
    <3> QED
      BY <3>1, <3>2, QuietKeeps
  <2> QED
    BY <2>1, <2>2
<1> QED
  BY <1>1, InitBudget, BudgetBounds, PTL DEF SupSpec

-----------------------------------------------------------------------------
(* The rows, runs, gates and handlers stay in their domains.               *)

Runs == [pc : RunnerPcs, outcome : Outcomes, todo : SUBSET Changes, change : Changes \cup {NoChange}]
Gates == [status : ChangeStatus, agent : Agents \cup {NoAgent}]
Handlers == [pc : RequestPcs, call : Calls, change : Changes \cup {NoChange}]
Endings == {"waiting", "completed", "failed"}

DeskOK ==
  /\ scene \in Scenes
  /\ task \in [Agents -> Rows] /\ agent \in [Agents -> Rows]
  /\ ticket \in {"progress", "waiting", "resolved"}
  /\ noted \subseteq Existing /\ learned \subseteq Existing
\* The outcome of a run that has just ended is that of its exit.
RunsOK ==
  /\ runner \in [Agents -> Runs]
  /\ \A a \in Agents : runner[a].pc = "exited" => runner[a].outcome \in Endings
GatesOK ==
  /\ change \in [Changes -> Gates]
  /\ \A c \in Changes : change[c].status = "absent" <=> change[c].agent = NoAgent
  /\ access \in [Changes -> AccessStatus]
  /\ leases \subseteq Changes
\* A handler is about a gate that was opened.
HandlersOK ==
  /\ request \in [Requests -> Handlers]
  /\ \A r \in Requests : request[r].pc # "idle" =>
       request[r].change \in Changes /\ change[request[r].change].status # "absent"
  /\ calls \in 0..scene.calls
GateInv == DeskOK /\ RunsOK /\ GatesOK /\ HandlersOK

LEMMA GateInvTypes == ASSUME GateInv PROVE GateTypeOK
  BY DEF GateInv, DeskOK, RunsOK, GatesOK, HandlersOK, GateTypeOK, Runs, Gates, Handlers

\* The agent that is spawned next was not there before.
LEMMA NewcomerIsNew ==
  ASSUME scene \in Scenes, Unspawned # {}
  PROVE  Newcomer \in Agents /\ agent[Newcomer] = "absent" /\ Newcomer \notin Existing
<1> DEFINE mirror == {MaxAgents + 1 - a : a \in Unspawned}
<1>1. MaxAgents \in Nat /\ scene.agents \in 1..MaxAgents
  BY GateAssumption
<1>2. Unspawned \subseteq Agents
  BY <1>1 DEF Unspawned, Agents
<1>3. mirror \in SUBSET Agents /\ mirror # {}
  <2>1. ASSUME NEW a \in Unspawned PROVE MaxAgents + 1 - a \in Agents
    BY <1>1, <1>2 DEF Agents
  <2> QED
    BY <2>1
<1>4. PICK top \in mirror : \A m \in mirror : m <= top
  BY <1>3, NewestAgent
<1>5. PICK a \in Unspawned : top = MaxAgents + 1 - a
  BY <1>4
<1>6. ASSUME NEW b \in Unspawned PROVE a <= b
  <2>1. MaxAgents + 1 - b <= top
    BY <1>4
  <2> QED
    BY <2>1, <1>1, <1>2, <1>5 DEF Agents
<1>7. Newcomer \in Unspawned
  BY <1>6 DEF Newcomer
<1> QED
  BY <1>2, <1>7 DEF Unspawned, Existing

\* What an insert of the rows of an agent leaves behind.
LEMMA RowsSpawned ==
  ASSUME DeskOK, SpawnRows
  PROVE  /\ Newcomer \in Agents /\ Newcomer \notin Existing
         /\ scene' = scene /\ learned' = learned /\ ticket' = "progress"
         /\ task' \in [Agents -> Rows] /\ agent' \in [Agents -> Rows]
         /\ task'[Newcomer] = "active" /\ agent'[Newcomer] = "active"
         /\ \A a \in Agents \ {Newcomer} : task'[a] = task[a] /\ agent'[a] = agent[a]
         /\ Existing' = Existing \cup {Newcomer}
<1>1. Newcomer \in Agents /\ agent[Newcomer] = "absent" /\ Newcomer \notin Existing
  BY NewcomerIsNew DEF DeskOK, SpawnRows
<1> DEFINE n == Newcomer
<1>2. /\ task' = [task EXCEPT ![n] = "active"] /\ agent' = [agent EXCEPT ![n] = "active"]
      /\ scene' = scene /\ learned' = learned /\ ticket' = "progress"
  BY DEF SpawnRows, Spawned
<1> HIDE DEF n
<1>3. n \in Agents /\ n \notin Existing
  BY <1>1 DEF n
<1>4. /\ task' \in [Agents -> Rows] /\ agent' \in [Agents -> Rows]
      /\ task'[n] = "active" /\ agent'[n] = "active"
      /\ \A a \in Agents \ {n} : task'[a] = task[a] /\ agent'[a] = agent[a]
  BY <1>2, <1>3 DEF DeskOK, Rows
<1>5. Existing' = Existing \cup {n}
  BY <1>3, <1>4 DEF Existing
<1> QED
  BY <1>2, <1>3, <1>4, <1>5 DEF n

\* A step that writes other rows keeps the agents that are there.
LEMMA DeskKeeps ==
  ASSUME DeskOK, scene' = scene, task' \in [Agents -> Rows], agent' \in [Agents -> Rows],
         \A a \in Agents : agent[a] # "absent" => agent'[a] # "absent",
         ticket' \in {"progress", "waiting", "resolved"},
         noted' \in {noted, noted \cup Existing}, learned' \in {learned, learned \cup Existing}
  PROVE  DeskOK' /\ Existing \subseteq Existing'
<1>1. Existing \subseteq Existing'
  BY DEF Existing
<1> QED
  BY <1>1 DEF DeskOK

LEMMA DeskStays ==
  ASSUME DeskOK, UNCHANGED <<task, agent, desk>>
  PROVE  DeskOK' /\ Existing \subseteq Existing'
  BY DEF DeskOK, desk, Existing

LEMMA DeskSpawns ==
  ASSUME DeskOK, SpawnRows, noted' \subseteq noted \cup Existing \cup {Newcomer}
  PROVE  DeskOK' /\ Existing \subseteq Existing'
<1>1. /\ scene' = scene /\ learned' = learned /\ ticket' = "progress"
      /\ task' \in [Agents -> Rows] /\ agent' \in [Agents -> Rows]
      /\ Existing' = Existing \cup {Newcomer}
  BY RowsSpawned
<1> QED
  BY <1>1 DEF DeskOK

LEMMA RunMoves ==
  ASSUME runner \in [Agents -> Runs], NEW a \in Agents, NEW pc \in RunnerPcs,
         runner' = [runner EXCEPT ![a].pc = pc]
  PROVE  /\ runner' \in [Agents -> Runs]
         /\ runner'[a].pc = pc /\ runner'[a].outcome = runner[a].outcome
         /\ \A b \in Agents \ {a} : runner'[b] = runner[b]
  BY DEF Runs

LEMMA RunEnds ==
  ASSUME runner \in [Agents -> Runs], NEW a \in Agents, NEW pc \in RunnerPcs, NEW outcome \in Outcomes,
         runner' = [runner EXCEPT ![a].pc = pc, ![a].outcome = outcome]
  PROVE  /\ runner' \in [Agents -> Runs]
         /\ runner'[a].pc = pc /\ runner'[a].outcome = outcome
         /\ \A b \in Agents \ {a} : runner'[b] = runner[b]
  BY DEF Runs

LEMMA RunSweeps ==
  ASSUME runner \in [Agents -> Runs], NEW a \in Agents, NEW pc \in RunnerPcs, NEW todo \in SUBSET Changes,
         runner' = [runner EXCEPT ![a].pc = pc, ![a].todo = todo]
  PROVE  /\ runner' \in [Agents -> Runs]
         /\ runner'[a].pc = pc /\ runner'[a].outcome = runner[a].outcome
         /\ \A b \in Agents \ {a} : runner'[b] = runner[b]
  BY DEF Runs

LEMMA RunCalls ==
  ASSUME runner \in [Agents -> Runs], NEW a \in Agents, NEW c \in Changes \cup {NoChange},
         runner' = [runner EXCEPT ![a].change = c]
  PROVE  /\ runner' \in [Agents -> Runs]
         /\ runner'[a].pc = runner[a].pc /\ runner'[a].outcome = runner[a].outcome
         /\ \A b \in Agents \ {a} : runner'[b] = runner[b]
  BY DEF Runs

LEMMA RunContinues ==
  ASSUME runner \in [Agents -> Runs], NEW a \in Agents, NEW n \in Agents \ {a},
         runner' = [runner EXCEPT ![a].pc = "writeTask", ![n].pc = "working"]
  PROVE  /\ runner' \in [Agents -> Runs]
         /\ runner'[a].pc = "writeTask" /\ runner'[a].outcome = runner[a].outcome
         /\ runner'[n].pc = "working"
         /\ \A b \in Agents \ {a, n} : runner'[b] = runner[b]
  BY DEF Runs, RunnerPcs, Alive

\* A step of a run that leaves the rows, the gates and the handlers alone.
LEMMA RunKeeps ==
  ASSUME GateInv, runner' \in [Agents -> Runs],
         \A b \in Agents : runner'[b].pc = "exited" => runner'[b].outcome \in Endings,
         UNCHANGED <<change, access, leases, request, calls>>, DeskOK', scene' = scene
  PROVE  GateInv'
  BY DEF GateInv, RunsOK, GatesOK, HandlersOK

LEMMA GateKeeps ==
  ASSUME GateInv, change' \in [Changes -> Gates],
         \A c \in Changes : change'[c].status = "absent" <=> change'[c].agent = NoAgent,
         \A c \in Changes : change'[c].status = "absent" => change[c].status = "absent",
         UNCHANGED <<access, leases, request, calls>>, RunsOK', DeskOK', scene' = scene
  PROVE  GateInv'
  BY DEF GateInv, GatesOK, HandlersOK

LEMMA HandlerKeeps ==
  ASSUME GateInv, NEW r \in Requests, NEW handler \in Handlers,
         request' = [request EXCEPT ![r] = handler],
         handler.pc # "idle" => handler.change \in Changes /\ change'[handler.change].status # "absent",
         \A c \in Changes : change'[c].status = "absent" => change[c].status = "absent",
         calls' \in 0..scene.calls, scene' = scene, RunsOK', DeskOK', GatesOK'
  PROVE  GateInv'
<1>1. request' \in [Requests -> Handlers]
  BY DEF GateInv, HandlersOK
<1>2. ASSUME NEW g \in Requests, request'[g].pc # "idle"
      PROVE  request'[g].change \in Changes /\ change'[request'[g].change].status # "absent"
  <2>1. CASE g = r
    BY <1>2, <2>1 DEF GateInv, HandlersOK
  <2>2. CASE g # r
    BY <1>2, <2>2 DEF GateInv, HandlersOK
  <2> QED
    BY <2>1, <2>2
<1> QED
  BY <1>1, <1>2 DEF GateInv, HandlersOK

\* The handler goes on, or answers.
LEMMA HandlerMoves ==
  ASSUME GateInv, NEW r \in Requests, request[r].pc # "idle",
         \/ \E pc \in RequestPcs : Step(r, pc)
         \/ Return(r)
  PROVE  \E handler \in Handlers :
           /\ request' = [request EXCEPT ![r] = handler]
           /\ handler.pc # "idle" => handler.change = request[r].change
<1>1. request[r] \in Handlers
  BY DEF GateInv, HandlersOK
<1>2. CASE Return(r)
  <2>1. NoCall \in Handlers /\ NoCall.pc = "idle"
    BY DEF NoCall, Handlers, RequestPcs, Calls
  <2> QED
    BY <1>2, <2>1 DEF Return
<1>3. ASSUME NEW pc \in RequestPcs, Step(r, pc)
      PROVE  \E handler \in Handlers :
               /\ request' = [request EXCEPT ![r] = handler]
               /\ handler.pc # "idle" => handler.change = request[r].change
  <2> DEFINE handler == [request[r] EXCEPT !.pc = pc]
  <2>1. handler \in Handlers /\ handler.change = request[r].change
    BY <1>1 DEF Handlers
  <2>2. request' = [request EXCEPT ![r] = handler]
    BY <1>3 DEF Step
  <2> QED
    BY <2>1, <2>2
<1> QED
  BY <1>2, <1>3

-----------------------------------------------------------------------------
(* The steps of an agent and its run.                                      *)

LEMMA WorkTyped ==
  ASSUME GateInv, NEW a \in Agents, Work(a)
  PROVE  GateInv' /\ Existing \subseteq Existing'
<1>1. CASE RequestChange(a)
  <2>1. PICK c \in scene.gates :
          /\ change[c].status = "absent"
          /\ change' = [change EXCEPT ![c] = [status |-> "pending", agent |-> a]]
          /\ runner' = IF c \in AccessChanges THEN [runner EXCEPT ![a].change = c] ELSE runner
    BY <1>1 DEF RequestChange
  <2>2. c \in Changes
    BY <2>1, GateAssumption DEF GateInv, DeskOK
  <2>3. DeskOK' /\ Existing \subseteq Existing' /\ scene' = scene
    BY <1>1, DeskStays DEF RequestChange, GateInv, desk
  <2>4. RunsOK'
    <3>1. CASE runner' = runner
      BY <3>1 DEF GateInv, RunsOK
    <3>2. CASE runner' = [runner EXCEPT ![a].change = c]
      BY <2>2, <3>2, RunCalls DEF GateInv, RunsOK
    <3> QED
      BY <2>1, <3>1, <3>2
  <2>5. [status |-> "pending", agent |-> a] \in Gates /\ a # NoAgent
    BY DEF Gates, ChangeStatus, Agents, NoAgent
  <2>6. /\ change' \in [Changes -> Gates]
        /\ \A d \in Changes : change'[d].status = "absent" <=> change'[d].agent = NoAgent
        /\ \A d \in Changes : change'[d].status = "absent" => change[d].status = "absent"
    BY <2>1, <2>2, <2>5 DEF GateInv, GatesOK
  <2>7. UNCHANGED <<access, leases, request, calls>>
    BY <1>1 DEF RequestChange
  <2> QED
    BY <2>3, <2>4, <2>6, <2>7, GateKeeps
<1>2. CASE AgentReports(a) \/ AgentLearns(a) \/ AgentResolves(a)
  <2>1. /\ UNCHANGED <<task, agent, runner, change, access, leases, request, calls, scene>>
        /\ ticket' \in {ticket, "resolved"}
        /\ noted' \in {noted, noted \cup Existing} /\ learned' \in {learned, learned \cup Existing}
    BY <1>2 DEF AgentReports, AgentLearns, AgentResolves, FinalNote
  <2>2. DeskOK' /\ Existing \subseteq Existing'
    BY <2>1, DeskKeeps DEF GateInv, DeskOK
  <2> QED
    BY <2>1, <2>2, RunKeeps DEF GateInv, RunsOK
<1> QED
  BY <1>1, <1>2 DEF Work

\* A run that goes from one place to another.
LEMMA GotoTyped ==
  ASSUME GateInv, NEW a \in Agents, NEW pc \in RunnerPcs \ {"exited"}, Goto(a, pc),
         UNCHANGED <<change, access, leases, request, calls>>, DeskOK', scene' = scene
  PROVE  GateInv'
<1>1. runner' = [runner EXCEPT ![a].pc = pc]
  BY DEF Goto
<1>2. /\ runner' \in [Agents -> Runs] /\ runner'[a].pc = pc
      /\ \A b \in Agents \ {a} : runner'[b] = runner[b]
  BY <1>1, RunMoves DEF GateInv, RunsOK
<1>3. \A b \in Agents : runner'[b].pc = "exited" => runner'[b].outcome \in Endings
  BY <1>2 DEF GateInv, RunsOK
<1> QED
  BY <1>2, <1>3, RunKeeps

LEMMA ExitTyped ==
  ASSUME GateInv, NEW a \in Agents, Exits(a)
  PROVE  RunsOK'
<1>1. PICK outcome \in scene.exits :
        runner' = [runner EXCEPT ![a].pc = "exited", ![a].outcome = outcome]
  BY DEF Exits
<1>2. outcome \in Endings /\ outcome \in Outcomes /\ "exited" \in RunnerPcs
  BY GateAssumption DEF GateInv, DeskOK, Endings, Outcomes, RunnerPcs
<1>3. /\ runner' \in [Agents -> Runs] /\ runner'[a].outcome = outcome
      /\ \A b \in Agents \ {a} : runner'[b] = runner[b]
  <2>1. runner \in [Agents -> Runs]
    BY DEF GateInv, RunsOK
  <2> QED
    BY <1>1, <1>2, <2>1, RunEnds
<1> QED
  BY <1>2, <1>3 DEF GateInv, RunsOK

\* Where a run goes that has read the rows of its agent.
LEMMA StoppedGoes ==
  ASSUME GateInv, NEW a \in Agents, ReadStopped(a)
  PROVE  /\ runner[a].pc = "exited"
         /\ \/ Goto(a, "ended") /\ (task[a] = "stopped" \/ agent[a] = "stopped")
            \/ Goto(a, "gates") /\ runner[a].outcome = "waiting"
            \/ Goto(a, "writeTask") /\ runner[a].outcome = "completed"
            \/ Goto(a, "evidence") /\ runner[a].outcome = "failed"
<1>1. runner[a].pc = "exited" /\ runner[a].outcome \in Endings
  BY DEF ReadStopped, GateInv, RunsOK
<1>2. CASE task[a] = "stopped" \/ agent[a] = "stopped"
  BY <1>1, <1>2 DEF ReadStopped
<1>3. CASE task[a] # "stopped" /\ agent[a] # "stopped"
  <2> DEFINE next == [waiting |-> "gates", completed |-> "writeTask", failed |-> "evidence"]
  <2>1. Goto(a, next[runner[a].outcome])
    BY <1>3 DEF ReadStopped
  <2>2. next["waiting"] = "gates" /\ next["completed"] = "writeTask" /\ next["failed"] = "evidence"
    OBVIOUS
  <2> HIDE DEF next
  <2> QED
    BY <1>1, <2>1, <2>2 DEF Endings
<1> QED
  BY <1>2, <1>3

LEMMA CloseTyped ==
  ASSUME GateInv, NEW c \in Changes, change' = Closed(c),
         UNCHANGED <<access, leases, request, calls>>, RunsOK', DeskOK', scene' = scene
  PROVE  GateInv'
<1> DEFINE status == IF change[c].status = "approved" THEN "completed" ELSE change[c].status
           q == [change[c] EXCEPT !.status = status]
<1>1. change[c] \in Gates /\ change \in [Changes -> Gates]
  BY DEF GateInv, GatesOK
<1>2. q \in Gates /\ q.status = status /\ q.agent = change[c].agent
  <2>1. status \in ChangeStatus
    BY <1>1 DEF Gates, ChangeStatus
  <2> HIDE DEF status
  <2> QED
    BY <1>1, <2>1 DEF Gates
<1>3. change' = [change EXCEPT ![c] = q]
  BY <1>1 DEF Closed
<1> HIDE DEF q
<1>4. status = "absent" <=> change[c].status = "absent"
  BY <1>1 DEF Gates, ChangeStatus
<1> HIDE DEF status
<1>5. /\ change' \in [Changes -> Gates]
      /\ \A d \in Changes : change'[d].status = "absent" <=> change'[d].agent = NoAgent
      /\ \A d \in Changes : change'[d].status = "absent" => change[d].status = "absent"
  BY <1>1, <1>2, <1>3, <1>4 DEF GateInv, GatesOK
<1> QED
  BY <1>5, GateKeeps

\* A step of a run that writes no row and no gate.
LEMMA QuietRunTyped ==
  ASSUME GateInv, NEW a \in Agents, NEW pc \in RunnerPcs \ {"exited"}, Goto(a, pc),
         UNCHANGED <<task, agent, change, access, leases, request, calls, desk>>
  PROVE  GateInv' /\ Existing \subseteq Existing'
<1>1. DeskOK' /\ Existing \subseteq Existing' /\ scene' = scene
  BY DeskStays DEF GateInv, desk
<1> QED
  BY <1>1, GotoTyped

LEMMA OpenTyped ==
  ASSUME GateInv, NEW a \in Agents, OpenAccess(a)
  PROVE  GateInv' /\ Existing \subseteq Existing'
<1>1. DeskOK' /\ Existing \subseteq Existing' /\ scene' = scene
  BY DeskStays DEF OpenAccess, GateInv, desk
<1>2. runner' = [runner EXCEPT ![a].change = NoChange] /\ UNCHANGED <<change, leases, request, calls>>
  BY DEF OpenAccess
<1>3. runner \in [Agents -> Runs] /\ runner[a].change \in Changes
  BY DEF OpenAccess, GateInv, RunsOK, Runs
<1>4. /\ runner' \in [Agents -> Runs]
      /\ runner'[a].pc = runner[a].pc /\ runner'[a].outcome = runner[a].outcome
      /\ \A b \in Agents \ {a} : runner'[b] = runner[b]
  BY <1>2, <1>3, RunCalls
<1>5. RunsOK'
  BY <1>4 DEF GateInv, RunsOK
<1>6. access' \in [Changes -> AccessStatus]
  BY <1>3 DEF OpenAccess, GateInv, GatesOK, AccessStatus
<1> QED
  BY <1>1, <1>2, <1>5, <1>6 DEF GateInv, GatesOK, HandlersOK

LEMMA JudgeTyped ==
  ASSUME GateInv, NEW a \in Agents, CheckOthers(a) \/ ReadEvidence(a)
  PROVE  GateInv' /\ Existing \subseteq Existing'
<1>1. /\ UNCHANGED <<task, agent, change, access, leases, request, calls, desk>>
      /\ \/ Goto(a, "writeTask")
         \/ \E pc \in {"writeTask", "spawn", "resolve"}, outcome \in {"continued", "recovered"} :
              runner' = [runner EXCEPT ![a].pc = pc, ![a].outcome = outcome]
  <2>1. CASE CheckOthers(a)
    BY <2>1 DEF CheckOthers
  <2>2. CASE ReadEvidence(a)
    <3>1. CASE TerminalEvidence(a)
      <4>1. PICK pc \in {"writeTask", "resolve"} :
              runner' = [runner EXCEPT ![a].outcome = "recovered", ![a].pc = pc]
        BY <2>2, <3>1 DEF ReadEvidence
      <4>2. runner' = [runner EXCEPT ![a].pc = pc, ![a].outcome = "recovered"]
        BY <4>1 DEF GateInv, RunsOK, Runs
      <4> QED
        BY <2>2, <4>2 DEF ReadEvidence
    <3>2. CASE ~TerminalEvidence(a)
      BY <2>2, <3>2 DEF ReadEvidence
    <3> QED
      BY <3>1, <3>2
  <2> QED
    BY <2>1, <2>2
<1>2. CASE Goto(a, "writeTask")
  BY <1>1, <1>2, QuietRunTyped DEF RunnerPcs
<1>3. ASSUME NEW pc \in {"writeTask", "spawn", "resolve"}, NEW outcome \in {"continued", "recovered"},
             runner' = [runner EXCEPT ![a].pc = pc, ![a].outcome = outcome]
      PROVE  GateInv' /\ Existing \subseteq Existing'
  <2>1. DeskOK' /\ Existing \subseteq Existing' /\ scene' = scene
    BY <1>1, DeskStays DEF GateInv, desk
  <2>2. pc \in RunnerPcs /\ outcome \in Outcomes /\ runner \in [Agents -> Runs]
    BY DEF RunnerPcs, Outcomes, GateInv, RunsOK
  <2>3. /\ runner' \in [Agents -> Runs] /\ runner'[a].pc = pc
        /\ \A b \in Agents \ {a} : runner'[b] = runner[b]
    BY <1>3, <2>2, RunEnds
  <2>4. \A b \in Agents : runner'[b].pc = "exited" => runner'[b].outcome \in Endings
    BY <2>3 DEF GateInv, RunsOK
  <2> QED
    BY <1>1, <2>1, <2>3, <2>4, RunKeeps
<1> QED
  BY <1>1, <1>2, <1>3

LEMMA SweepTyped ==
  ASSUME GateInv, NEW a \in Agents, SweepChanges(a) \/ CloseChange(a)
  PROVE  GateInv' /\ Existing \subseteq Existing'
<1>1. ASSUME NEW pc \in RunnerPcs, pc # "exited", NEW todo \in SUBSET Changes,
             runner' = [runner EXCEPT ![a].pc = pc, ![a].todo = todo]
      PROVE  RunsOK'
  <2>1. runner \in [Agents -> Runs]
    BY DEF GateInv, RunsOK
  <2>2. /\ runner' \in [Agents -> Runs] /\ runner'[a].pc = pc
        /\ \A b \in Agents \ {a} : runner'[b] = runner[b]
    BY <1>1, <2>1, RunSweeps
  <2> QED
    BY <1>1, <2>2 DEF GateInv, RunsOK
<1>2. CASE SweepChanges(a)
  <2>1. PICK pc \in {"report", "close"} : runner' = [runner EXCEPT ![a].pc = pc, ![a].todo = SweepOf(a)]
    BY <1>2 DEF SweepChanges
  <2>2. SweepOf(a) \in SUBSET Changes /\ pc \in RunnerPcs
    BY DEF SweepOf, RunnerPcs
  <2>3. RunsOK'
    BY <1>1, <2>1, <2>2
  <2>4. DeskOK' /\ Existing \subseteq Existing' /\ scene' = scene
    BY <1>2, DeskStays DEF SweepChanges, GateInv, desk
  <2>5. UNCHANGED <<change, access, leases, request, calls>>
    BY <1>2 DEF SweepChanges
  <2> QED
    BY <2>3, <2>4, <2>5, RunKeeps DEF RunsOK
<1>3. CASE CloseChange(a)
  <2>1. runner[a].pc = "close" /\ runner[a].todo \in SUBSET Changes /\ runner \in [Agents -> Runs]
    BY <1>3 DEF CloseChange, GateInv, RunsOK, Runs
  <2>2. PICK c \in runner[a].todo :
          /\ change' = Closed(c)
          /\ runner' = [runner EXCEPT ![a].pc = IF runner[a].todo \ {c} = {} THEN "report" ELSE @,
                                      ![a].todo = runner[a].todo \ {c}]
    BY <1>3 DEF CloseChange
  <2>3. PICK pc \in {"report", "close"} :
          runner' = [runner EXCEPT ![a].pc = pc, ![a].todo = runner[a].todo \ {c}]
    BY <2>1, <2>2
  <2>4. runner[a].todo \ {c} \in SUBSET Changes /\ pc \in RunnerPcs /\ c \in Changes
    BY <2>1 DEF RunnerPcs
  <2>5. RunsOK'
    BY <1>1, <2>3, <2>4
  <2>6. /\ UNCHANGED <<task, agent, access, leases, request, calls, scene, ticket, learned>>
        /\ noted' = noted \cup Existing
    BY <1>3 DEF CloseChange, FinalNote
  <2>7. DeskOK' /\ Existing \subseteq Existing'
    BY <2>6, DeskKeeps DEF GateInv, DeskOK
  <2> QED
    BY <2>2, <2>4, <2>5, <2>6, <2>7, CloseTyped
<1> QED
  BY <1>2, <1>3

LEMMA ContinueTyped ==
  ASSUME GateInv, NEW a \in Agents, SpawnContinuation(a)
  PROVE  GateInv' /\ Existing \subseteq Existing'
<1>1. /\ SpawnRows /\ noted' \subseteq noted \cup Existing \cup {Newcomer}
      /\ runner[a].pc = "spawn"
      /\ UNCHANGED <<change, access, leases, request, calls>>
  BY DEF SpawnContinuation
<1>2. DeskOK' /\ Existing \subseteq Existing' /\ scene' = scene
  BY <1>1, DeskSpawns, RowsSpawned DEF GateInv
<1>3. runner \in [Agents -> Runs] /\ Newcomer \in Agents
  BY <1>1, RowsSpawned DEF GateInv, RunsOK
<1> DEFINE n == Newcomer
<1>4. runner' = [runner EXCEPT ![a].pc = "writeTask", ![n].pc = "working"]
  BY DEF SpawnContinuation
<1> HIDE DEF n
<1>5. n \in Agents
  BY <1>3 DEF n
<1>6. /\ runner' \in [Agents -> Runs]
      /\ runner'[a].pc \in {"working", "writeTask"} /\ runner'[n].pc \in {"working", "writeTask"}
      /\ \A b \in Agents \ {a, n} : runner'[b] = runner[b]
  <2>1. CASE n = a
    <3>1. runner' = [runner EXCEPT ![a].pc = "working"]
      BY <1>3, <1>4, <2>1 DEF Runs
    <3>2. "working" \in RunnerPcs
      BY DEF RunnerPcs, Alive
    <3> QED
      BY <1>3, <2>1, <3>1, <3>2, RunMoves
  <2>2. CASE n # a
    BY <1>3, <1>4, <1>5, <2>2, RunContinues
  <2> QED
    BY <2>1, <2>2
<1>7. \A b \in Agents : runner'[b].pc = "exited" => runner'[b].outcome \in Endings
  BY <1>6 DEF GateInv, RunsOK
<1> QED
  BY <1>1, <1>2, <1>6, <1>7, RunKeeps

LEMMA FinishTyped ==
  ASSUME GateInv, NEW a \in Agents, Finish(a)
  PROVE  GateInv' /\ Existing \subseteq Existing'
<1>1. CASE OpenAccess(a)
  BY <1>1, OpenTyped
<1>2. CASE ReadStopped(a)
  <2>1. \E pc \in {"ended", "gates", "writeTask", "evidence"} : Goto(a, pc)
    BY <1>2, StoppedGoes
  <2>2. UNCHANGED <<task, agent, change, access, leases, request, calls, desk>>
    BY <1>2 DEF ReadStopped
  <2> QED
    BY <2>1, <2>2, QuietRunTyped DEF RunnerPcs
<1>3. CASE ReadGates(a)
  <2>1. \E pc \in {"others", "writeTask"} : Goto(a, pc)
    BY <1>3 DEF ReadGates
  <2>2. UNCHANGED <<task, agent, change, access, leases, request, calls, desk>>
    BY <1>3 DEF ReadGates
  <2> QED
    BY <2>1, <2>2, QuietRunTyped DEF RunnerPcs
<1>4. CASE CheckOthers(a) \/ ReadEvidence(a)
  BY <1>4, JudgeTyped
<1>5. CASE SpawnContinuation(a)
  BY <1>5, ContinueTyped
<1>6. CASE ResolveRecovered(a) \/ ParkTicket(a) \/ ReportDone(a) \/ SettleTicket(a)
  <2>1. /\ UNCHANGED <<task, agent, change, access, leases, request, calls, scene, learned>>
        /\ ticket' \in {ticket, "waiting", "resolved"} /\ noted' \in {noted, noted \cup Existing}
        /\ \E pc \in {"writeTask", "ended", "settle"} : Goto(a, pc)
    BY <1>6 DEF ResolveRecovered, TicketResolved, ParkTicket, ReportDone, SettleTicket, FinalNote
  <2>2. DeskOK' /\ Existing \subseteq Existing'
    BY <2>1, DeskKeeps DEF GateInv, DeskOK
  <2> QED
    BY <2>1, <2>2, GotoTyped DEF RunnerPcs
<1>7. CASE WriteTask(a)
  <2>1. /\ UNCHANGED <<agent, change, access, leases, request, calls, desk>> /\ Goto(a, "writeAgent")
        /\ task' = [task EXCEPT ![a] = RowOf(runner[a].outcome)]
    BY <1>7 DEF WriteTask
  <2>2. runner[a].outcome \in Outcomes
    BY DEF GateInv, RunsOK, Runs
  <2>3. task' \in [Agents -> Rows]
    BY <2>1, <2>2 DEF GateInv, DeskOK, RowOf, Outcomes, Rows
  <2>4. DeskOK' /\ Existing \subseteq Existing' /\ scene' = scene
    BY <2>1, <2>3 DEF GateInv, DeskOK, desk, Existing
  <2> QED
    BY <2>1, <2>4, GotoTyped DEF RunnerPcs
<1>8. CASE WriteAgent(a)
  <2>1. /\ UNCHANGED <<task, change, access, leases, request, calls, scene, ticket, learned>>
        /\ agent' = [agent EXCEPT ![a] = RowOf(runner[a].outcome)]
        /\ noted' \in {noted, noted \cup Existing}
        /\ \E pc \in {"sweep", "park", "ended"} : Goto(a, pc)
    BY <1>8 DEF WriteAgent, FinalNote
  <2>2. RowOf(runner[a].outcome) \in Rows \ {"absent"}
    BY DEF GateInv, RunsOK, Runs, RowOf, Outcomes, Rows
  <2>3. /\ agent' \in [Agents -> Rows]
        /\ \A b \in Agents : agent[b] # "absent" => agent'[b] # "absent"
    BY <2>1, <2>2 DEF GateInv, DeskOK
  <2>4. DeskOK' /\ Existing \subseteq Existing'
    BY <2>1, <2>3, DeskKeeps DEF GateInv, DeskOK
  <2> QED
    BY <2>1, <2>4, GotoTyped DEF RunnerPcs
<1>9. CASE SweepChanges(a) \/ CloseChange(a)
  BY <1>9, SweepTyped
<1> QED
  BY <1>1, <1>2, <1>3, <1>4, <1>5, <1>6, <1>7, <1>8, <1>9 DEF Finish

-----------------------------------------------------------------------------
(* The steps of a handler.                                                 *)

LEMMA CallTyped ==
  ASSUME GateInv, NEW r \in Requests, Call(r)
  PROVE  GateInv' /\ Existing \subseteq Existing'
<1>1. PICK c \in Changes, call \in Calls :
        /\ change[c].status # "absent"
        /\ request' = [request EXCEPT ![r] = [pc |-> "read", call |-> call, change |-> c]]
  BY DEF Call
<1>2. [pc |-> "read", call |-> call, change |-> c] \in Handlers
  BY DEF Handlers, RequestPcs
<1>3. DeskOK' /\ Existing \subseteq Existing' /\ scene' = scene
  BY DeskStays DEF Call, GateInv, desk
<1>4. RunsOK' /\ GatesOK' /\ change' = change
  BY DEF Call, GateInv, RunsOK, GatesOK
<1>5. calls' \in 0..scene.calls
  <2>1. scene.calls \in Nat
    BY GateAssumption DEF GateInv, DeskOK
  <2>2. calls \in 0..scene.calls /\ calls < scene.calls /\ calls' = calls + 1
    BY DEF Call, GateInv, HandlersOK
  <2> QED
    BY <2>1, <2>2
<1> DEFINE handler == [pc |-> "read", call |-> call, change |-> c]
<1>6. handler.change = c
  OBVIOUS
<1> HIDE DEF handler
<1>7. request' = [request EXCEPT ![r] = handler] /\ handler \in Handlers
  BY <1>1, <1>2 DEF handler
<1>8. handler.change \in Changes /\ change'[handler.change].status # "absent"
  BY <1>1, <1>4, <1>6
<1> QED
  BY <1>3, <1>4, <1>5, <1>7, <1>8, HandlerKeeps

\* A step of a handler that opens no gate and closes none.
LEMMA HandlerGoesOn ==
  ASSUME GateInv, NEW r \in Requests, request[r].pc # "idle",
         \/ \E pc \in RequestPcs : Step(r, pc)
         \/ Return(r),
         \A c \in Changes : change'[c].status = "absent" => change[c].status = "absent",
         calls' = calls, scene' = scene, RunsOK', DeskOK', GatesOK'
  PROVE  GateInv'
<1>1. PICK handler \in Handlers :
        /\ request' = [request EXCEPT ![r] = handler]
        /\ handler.pc # "idle" => handler.change = request[r].change
  BY HandlerMoves
<1>2. handler.pc # "idle" => handler.change \in Changes /\ change'[handler.change].status # "absent"
  BY <1>1 DEF GateInv, HandlersOK
<1>3. calls' \in 0..scene.calls
  BY DEF GateInv, HandlersOK
<1> QED
  BY <1>1, <1>2, <1>3, HandlerKeeps

LEMMA WriteTyped ==
  ASSUME GateInv, NEW r \in Requests, WriteChange(r)
  PROVE  /\ GatesOK'
         /\ \A c \in Changes : change'[c].status = "absent" => change[c].status = "absent"
<1> DEFINE c == request[r].change
           status == StatusFor(request[r].call)
           q == [change[c] EXCEPT !.status = status]
<1>1. c \in Changes /\ change[c].status # "absent" /\ request[r].call \in Calls
  BY DEF WriteChange, GateInv, HandlersOK, Handlers
<1>2. status \in ChangeStatus \ {"absent"}
  BY <1>1 DEF StatusFor, Calls, ChangeStatus
<1>3. change' = [change EXCEPT ![c].status = status] /\ UNCHANGED <<access, leases>>
  BY DEF WriteChange
<1> HIDE DEF c, status
<1>4. change \in [Changes -> Gates] /\ change[c] \in Gates
  BY <1>1 DEF GateInv, GatesOK
<1>5. q \in Gates /\ q.status = status /\ q.agent = change[c].agent
  BY <1>2, <1>4 DEF Gates
<1>6. change' = [change EXCEPT ![c] = q]
  BY <1>3
<1> HIDE DEF q
<1> QED
  BY <1>1, <1>2, <1>3, <1>4, <1>5, <1>6 DEF GateInv, GatesOK

LEMMA SyncTyped ==
  ASSUME GateInv, NEW r \in Requests, SyncAccess(r)
  PROVE  GatesOK'
<1>1. request[r].change \in Changes /\ request[r].call \in Calls
  BY DEF SyncAccess, GateInv, HandlersOK, Handlers
<1>2. AccessStatusFor(request[r].call) \in AccessStatus
  BY <1>1 DEF AccessStatusFor, Calls, AccessStatus
<1>3. /\ UNCHANGED <<change, leases>>
      /\ \/ access' = access
         \/ access' = [access EXCEPT ![request[r].change] = AccessStatusFor(request[r].call)]
  BY DEF SyncAccess
<1> QED
  BY <1>1, <1>2, <1>3 DEF GateInv, GatesOK

\* Where a handler goes.
LEMMA HandlerGoes ==
  ASSUME NEW r \in Requests, Handle(r)
  PROVE  /\ request[r].pc # "idle" /\ calls' = calls
         /\ \/ \E pc \in RequestPcs : Step(r, pc)
            \/ Return(r)
<1> USE DEF RequestPcs
<1>1. CASE ReadChange(r)
  BY <1>1 DEF ReadChange
<1>2. CASE WriteChange(r) \/ SyncAccess(r) \/ GrantLease(r)
  BY <1>2 DEF WriteChange, SyncAccess, GrantLease
<1>3. CASE ResumeOwn(r) \/ ResumeTicket(r)
  BY <1>3 DEF ResumeOwn, ResumeTicket
<1>4. CASE ResumeSpawn(r) \/ HandAgent(r) \/ HandTask(r)
  BY <1>4 DEF ResumeSpawn, HandAgent, HandTask
<1> QED
  BY <1>1, <1>2, <1>3, <1>4 DEF Handle

\* The new agent is at work.
LEMMA SpawnTyped ==
  ASSUME GateInv, SpawnRows, FinalNote, runner' = [runner EXCEPT ![Newcomer].pc = "working"]
  PROVE  DeskOK' /\ RunsOK' /\ Existing \subseteq Existing' /\ scene' = scene
<1>1. DeskOK' /\ Existing \subseteq Existing' /\ scene' = scene
  BY DeskSpawns, RowsSpawned DEF GateInv, FinalNote
<1> DEFINE n == Newcomer
<1>2. runner' = [runner EXCEPT ![n].pc = "working"]
  OBVIOUS
<1>3. n \in Agents
  BY RowsSpawned DEF GateInv
<1> HIDE DEF n
<1>4. runner \in [Agents -> Runs] /\ "working" \in RunnerPcs
  BY DEF GateInv, RunsOK, RunnerPcs, Alive
<1>5. /\ runner' \in [Agents -> Runs] /\ runner'[n].pc = "working"
      /\ \A b \in Agents \ {n} : runner'[b] = runner[b]
  BY <1>2, <1>3, <1>4, RunMoves
<1> QED
  BY <1>1, <1>5 DEF GateInv, RunsOK

LEMMA HandOffTyped ==
  ASSUME GateInv, NEW r \in Requests, HandAgent(r) \/ HandTask(r)
  PROVE  /\ task' \in [Agents -> Rows] /\ agent' \in [Agents -> Rows]
         /\ \A a \in Agents : agent[a] # "absent" => agent'[a] # "absent"
<1> DEFINE o == Owner(r)
<1>1. \/ agent' = [agent EXCEPT ![o] = HandedOff(@)] /\ task' = task
      \/ task' = [task EXCEPT ![o] = HandedOff(@)] /\ agent' = agent
  BY DEF HandAgent, HandTask
<1> HIDE DEF o
<1>2. \A row \in Rows : HandedOff(row) \in Rows /\ (row # "absent" => HandedOff(row) # "absent")
  BY DEF HandedOff, Rows
<1>3. task \in [Agents -> Rows] /\ agent \in [Agents -> Rows]
  BY DEF GateInv, DeskOK
<1> QED
  BY <1>1, <1>2, <1>3

LEMMA HandleTyped ==
  ASSUME GateInv, NEW r \in Requests, Handle(r)
  PROVE  GateInv' /\ Existing \subseteq Existing'
<1>1. /\ request[r].pc # "idle" /\ calls' = calls
      /\ \/ \E pc \in RequestPcs : Step(r, pc)
         \/ Return(r)
  BY HandlerGoes
<1>2. CASE ResumeSpawn(r)
  <2>1. DeskOK' /\ RunsOK' /\ Existing \subseteq Existing' /\ scene' = scene
    BY <1>2, SpawnTyped DEF ResumeSpawn
  <2>2. GatesOK' /\ change' = change
    BY <1>2 DEF ResumeSpawn, GateInv, GatesOK
  <2> QED
    BY <1>1, <2>1, <2>2, HandlerGoesOn
<1>3. CASE HandAgent(r) \/ HandTask(r)
  <2>1. UNCHANGED <<scene, ticket, noted, learned>>
    BY <1>3 DEF HandAgent, HandTask, desk
  <2>2. DeskOK' /\ Existing \subseteq Existing'
    BY <1>3, <2>1, HandOffTyped, DeskKeeps DEF GateInv, DeskOK
  <2>3. RunsOK' /\ GatesOK' /\ change' = change
    BY <1>3 DEF HandAgent, HandTask, GateInv, RunsOK, GatesOK
  <2> QED
    BY <1>1, <2>1, <2>2, <2>3, HandlerGoesOn
<1>4. CASE ReadChange(r) \/ WriteChange(r) \/ SyncAccess(r) \/ GrantLease(r) \/ ResumeOwn(r) \/ ResumeTicket(r)
  <2>1. UNCHANGED <<task, agent, runner, desk>>
    BY <1>4 DEF ReadChange, WriteChange, SyncAccess, GrantLease, ResumeOwn, ResumeTicket
  <2>2. DeskOK' /\ RunsOK' /\ Existing \subseteq Existing' /\ scene' = scene
    BY <2>1, DeskStays DEF GateInv, RunsOK, desk
  <2>3. GatesOK' /\ \A c \in Changes : change'[c].status = "absent" => change[c].status = "absent"
    <3>1. CASE WriteChange(r)
      BY <3>1, WriteTyped
    <3>2. CASE SyncAccess(r)
      BY <3>2, SyncTyped DEF SyncAccess
    <3>3. CASE GrantLease(r)
      BY <3>3 DEF GrantLease, GateInv, GatesOK, HandlersOK
    <3>4. CASE ReadChange(r) \/ ResumeOwn(r) \/ ResumeTicket(r)
      BY <3>4 DEF ReadChange, ResumeOwn, ResumeTicket, GateInv, GatesOK
    <3> QED
      BY <1>4, <3>1, <3>2, <3>3, <3>4
  <2> QED
    BY <1>1, <2>2, <2>3, HandlerGoesOn
<1> QED
  BY <1>2, <1>3, <1>4 DEF Handle

LEMMA ExitsTyped ==
  ASSUME GateInv, NEW a \in Agents, Exits(a), UNCHANGED <<task, agent, change, access, leases, request, calls, desk>>
  PROVE  GateInv' /\ Existing \subseteq Existing'
<1>1. RunsOK'
  BY ExitTyped
<1>2. DeskOK' /\ Existing \subseteq Existing' /\ scene' = scene
  BY DeskStays DEF GateInv, desk
<1> QED
  BY <1>1, <1>2, RunKeeps DEF RunsOK

LEMMA NextTyped ==
  ASSUME GateInv, Next
  PROVE  GateInv' /\ Existing \subseteq Existing'
<1>1. ASSUME NEW a \in Agents, AgentExits(a) PROVE GateInv' /\ Existing \subseteq Existing'
  BY <1>1, ExitsTyped DEF AgentExits
<1> QED
  BY <1>1, WorkTyped, FinishTyped, CallTyped, HandleTyped DEF Next

-----------------------------------------------------------------------------
(* What a step of the gates does to the rows and the run of one agent.     *)

Begins(a) ==
  /\ SpawnRows /\ a = Newcomer /\ a \notin Existing
  /\ task'[a] = "active" /\ agent'[a] = "active" /\ runner'[a].pc = "working"

RowsStay(a) == task'[a] = task[a] /\ agent'[a] = agent[a]
RowsGo(a) ==
  \/ /\ runner[a].pc = "writeTask" /\ runner'[a].pc = "writeAgent"
     /\ task'[a] = RowOf(runner[a].outcome) /\ agent'[a] = agent[a]
  \/ /\ runner[a].pc = "writeAgent"
     /\ agent'[a] = RowOf(runner[a].outcome) /\ task'[a] = task[a]
  \/ task[a] = "waiting" /\ task'[a] = "completed" /\ agent'[a] = agent[a]
  \/ agent[a] = "waiting" /\ agent'[a] = "completed" /\ task'[a] = task[a]

RunStays(a) == runner'[a].pc = runner[a].pc /\ runner'[a].outcome = runner[a].outcome

\* From the exit of the process to the rows of the agent.
RunIsJudged(a) ==
  \/ runner[a].pc \in Alive /\ runner'[a].pc = "exited"
  \/ /\ runner[a].pc = "exited" /\ runner'[a].outcome = runner[a].outcome
     /\ \/ runner'[a].pc = "ended"
        \/ runner'[a].pc = "gates" /\ runner[a].outcome = "waiting"
        \/ runner'[a].pc = "writeTask" /\ runner[a].outcome = "completed"
        \/ runner'[a].pc = "evidence"
  \/ /\ runner[a].pc = "gates" /\ runner'[a].outcome = runner[a].outcome
     /\ runner'[a].pc \in {"others", "writeTask"}
  \/ /\ runner[a].pc = "others" /\ runner'[a].outcome = "continued"
     /\ \/ runner'[a].pc = "writeTask"
        \/ runner'[a].pc = "spawn" /\ \A b \in Agents \ {a} : ~IsActive(b)
  \/ /\ runner[a].pc = "evidence" /\ runner'[a].pc \in {"resolve", "writeTask"}
     /\ TerminalEvidence(a) => runner'[a].outcome = "recovered"

RunIsWritten(a) ==
  /\ runner'[a].outcome = runner[a].outcome
  /\ \/ runner[a].pc \in {"resolve", "spawn"} /\ runner'[a].pc = "writeTask"
     \/ runner[a].pc = "writeTask" /\ runner'[a].pc = "writeAgent"
     \/ runner[a].pc = "writeAgent" /\ runner'[a].pc \in {"sweep", "park", "ended"}
     \/ /\ runner[a].pc \in {"park", "sweep", "close", "report", "settle"}
        /\ runner'[a].pc \in {"close", "report", "settle", "ended"}

\* How the agents of the ticket may come out of a step: a run that leaves the place where
\* it writes a row has written its outcome to it.
Steps(a) ==
  \/ Begins(a)
  \/ /\ RowsStay(a) \/ RowsGo(a)
     /\ RunStays(a) \/ RunIsJudged(a) \/ RunIsWritten(a)
     /\ runner[a].pc = "writeTask" /\ runner'[a].pc # "writeTask" => task'[a] = RowOf(runner[a].outcome)
     /\ runner[a].pc = "writeAgent" /\ runner'[a].pc # "writeAgent" => agent'[a] = RowOf(runner[a].outcome)

\* An agent without a row has neither a task nor a run.
AbsentRest ==
  \A a \in Agents : agent[a] = "absent" => task[a] = "absent" /\ runner[a].pc = "none"

LEMMA GotoMoves ==
  ASSUME GateInv, NEW a \in Agents, NEW pc \in RunnerPcs, Goto(a, pc)
  PROVE  /\ runner'[a].pc = pc /\ runner'[a].outcome = runner[a].outcome
         /\ \A b \in Agents \ {a} : RunStays(b)
<1>1. runner \in [Agents -> Runs] /\ runner' = [runner EXCEPT ![a].pc = pc]
  BY DEF GateInv, RunsOK, Goto
<1>2. /\ runner'[a].pc = pc /\ runner'[a].outcome = runner[a].outcome
      /\ \A b \in Agents \ {a} : runner'[b] = runner[b]
  BY <1>1, RunMoves
<1> QED
  BY <1>2 DEF RunStays

LEMMA ExitMoves ==
  ASSUME GateInv, NEW a \in Agents, Exits(a)
  PROVE  runner'[a].pc = "exited" /\ \A b \in Agents \ {a} : RunStays(b)
<1>1. PICK outcome \in scene.exits :
        runner' = [runner EXCEPT ![a].pc = "exited", ![a].outcome = outcome]
  BY DEF Exits
<1>2. outcome \in Outcomes /\ "exited" \in RunnerPcs /\ runner \in [Agents -> Runs]
  BY GateAssumption DEF GateInv, DeskOK, RunsOK, Outcomes, RunnerPcs
<1>3. runner'[a].pc = "exited" /\ \A b \in Agents \ {a} : runner'[b] = runner[b]
  BY <1>1, <1>2, RunEnds
<1> QED
  BY <1>3 DEF RunStays

LEMMA WorkSteps ==
  ASSUME GateInv, NEW a \in Agents, Work(a) \/ OpenAccess(a), NEW b \in Agents
  PROVE  Steps(b)
<1>1. RowsStay(b)
  BY DEF Work, RequestChange, AgentReports, AgentLearns, AgentResolves, OpenAccess, RowsStay
<1>2. RunStays(b)
  <2>1. runner' = runner \/ \E c \in Changes \cup {NoChange} : runner' = [runner EXCEPT ![a].change = c]
    BY GateAssumption DEF Work, RequestChange, AgentReports, AgentLearns, AgentResolves, OpenAccess, GateInv, DeskOK
  <2>2. CASE runner' = runner
    BY <2>2 DEF RunStays
  <2>3. ASSUME NEW c \in Changes \cup {NoChange}, runner' = [runner EXCEPT ![a].change = c] PROVE RunStays(b)
    <3>1. runner \in [Agents -> Runs]
      BY DEF GateInv, RunsOK
    <3>2. /\ runner'[a].pc = runner[a].pc /\ runner'[a].outcome = runner[a].outcome
          /\ \A d \in Agents \ {a} : runner'[d] = runner[d]
      BY <2>3, <3>1, RunCalls
    <3> QED
      BY <3>2 DEF RunStays
  <2> QED
    BY <2>1, <2>2, <2>3
<1> QED
  BY <1>1, <1>2 DEF Steps, RunStays

LEMMA JudgeSteps ==
  ASSUME GateInv, NEW a \in Agents, NEW b \in Agents,
         AgentExits(a) \/ ReadStopped(a) \/ ReadGates(a) \/ CheckOthers(a) \/ ReadEvidence(a)
  PROVE  Steps(b)
<1>1. RowsStay(b)
  BY DEF AgentExits, ReadStopped, ReadGates, CheckOthers, ReadEvidence, RowsStay
<1>2. RunIsJudged(a) /\ \A d \in Agents \ {a} : RunStays(d)
  <2>1. CASE AgentExits(a)
    BY <2>1, ExitMoves DEF AgentExits, AtWork, RunIsJudged, Alive
  <2>2. CASE ReadStopped(a)
    <3>1. "ended" \in RunnerPcs /\ "gates" \in RunnerPcs /\ "writeTask" \in RunnerPcs /\ "evidence" \in RunnerPcs
      BY DEF RunnerPcs
    <3>2. /\ runner[a].pc = "exited" /\ runner'[a].outcome = runner[a].outcome
          /\ \/ runner'[a].pc = "ended"
             \/ runner'[a].pc = "gates" /\ runner[a].outcome = "waiting"
             \/ runner'[a].pc = "writeTask" /\ runner[a].outcome = "completed"
             \/ runner'[a].pc = "evidence"
          /\ \A d \in Agents \ {a} : RunStays(d)
      BY <2>2, <3>1, StoppedGoes, GotoMoves
    <3> QED
      BY <3>2 DEF RunIsJudged
  <2>3. CASE ReadGates(a)
    <3>1. PICK pc \in {"others", "writeTask"} : Goto(a, pc)
      BY <2>3 DEF ReadGates
    <3>2. pc \in RunnerPcs
      BY DEF RunnerPcs
    <3>3. /\ runner'[a].pc = pc /\ runner'[a].outcome = runner[a].outcome
          /\ \A d \in Agents \ {a} : RunStays(d)
      BY <3>1, <3>2, GotoMoves
    <3> QED
      BY <2>3, <3>3 DEF ReadGates, RunIsJudged
  <2>4. CASE CheckOthers(a)
    <3>1. PICK pc \in {"writeTask", "spawn"} :
            /\ runner' = [runner EXCEPT ![a].pc = pc, ![a].outcome = "continued"]
            /\ pc = "spawn" => \A d \in Agents \ {a} : ~IsActive(d)
      BY <2>4 DEF CheckOthers
    <3>2. pc \in RunnerPcs /\ "continued" \in Outcomes /\ runner \in [Agents -> Runs]
      BY DEF RunnerPcs, Outcomes, GateInv, RunsOK
    <3>3. /\ runner'[a].pc = pc /\ runner'[a].outcome = "continued"
          /\ \A d \in Agents \ {a} : runner'[d] = runner[d]
      BY <3>1, <3>2, RunEnds
    <3> QED
      BY <2>4, <3>1, <3>3 DEF CheckOthers, RunIsJudged, RunStays
  <2>5. CASE ReadEvidence(a)
    <3>1. CASE TerminalEvidence(a)
      <4>1. runner \in [Agents -> Runs] /\ "recovered" \in Outcomes
        BY DEF GateInv, RunsOK, Outcomes
      <4>2. PICK pc \in {"resolve", "writeTask"} :
              runner' = [runner EXCEPT ![a].outcome = "recovered", ![a].pc = pc]
        BY <2>5, <3>1 DEF ReadEvidence
      <4>3. runner' = [runner EXCEPT ![a].pc = pc, ![a].outcome = "recovered"] /\ pc \in RunnerPcs
        BY <4>1, <4>2 DEF Runs, RunnerPcs
      <4>4. /\ runner'[a].pc = pc /\ runner'[a].outcome = "recovered"
            /\ \A d \in Agents \ {a} : runner'[d] = runner[d]
        BY <4>1, <4>3, RunEnds
      <4> QED
        BY <2>5, <4>4 DEF ReadEvidence, RunIsJudged, RunStays
    <3>2. CASE ~TerminalEvidence(a)
      <4>1. Goto(a, "writeTask") /\ "writeTask" \in RunnerPcs
        BY <2>5, <3>2 DEF ReadEvidence, RunnerPcs
      <4>2. runner'[a].pc = "writeTask" /\ \A d \in Agents \ {a} : RunStays(d)
        BY <4>1, GotoMoves
      <4> QED
        BY <2>5, <3>2, <4>2 DEF ReadEvidence, RunIsJudged
    <3> QED
      BY <3>1, <3>2
  <2> QED
    BY <2>1, <2>2, <2>3, <2>4, <2>5
<1>3. CASE b = a
  <2>1. runner[b].pc \notin {"writeTask", "writeAgent"}
    BY <1>2, <1>3 DEF RunIsJudged, Alive
  <2> QED
    BY <1>1, <1>2, <1>3, <2>1 DEF Steps
<1>4. CASE b # a
  BY <1>1, <1>2, <1>4 DEF Steps, RunStays
<1> QED
  BY <1>3, <1>4

LEMMA WriteSteps ==
  ASSUME GateInv, NEW a \in Agents, NEW b \in Agents,
         \/ ResolveRecovered(a) \/ WriteTask(a) \/ WriteAgent(a) \/ ParkTicket(a)
         \/ ReportDone(a) \/ SettleTicket(a)
  PROVE  Steps(b)
<1>1. \E pc \in RunnerPcs :
        /\ Goto(a, pc)
        /\ \/ runner[a].pc = "resolve" /\ pc = "writeTask"
           \/ runner[a].pc = "writeTask" /\ pc = "writeAgent"
           \/ runner[a].pc = "writeAgent" /\ pc \in {"sweep", "park", "ended"}
           \/ runner[a].pc \in {"park", "report", "settle"} /\ pc \in {"settle", "ended"}
  BY DEF ResolveRecovered, WriteTask, WriteAgent, ParkTicket, ReportDone, SettleTicket, RunnerPcs
<1>2. /\ \/ runner[a].pc = "resolve" /\ runner'[a].pc = "writeTask"
         \/ runner[a].pc = "writeTask" /\ runner'[a].pc = "writeAgent"
         \/ runner[a].pc = "writeAgent" /\ runner'[a].pc \in {"sweep", "park", "ended"}
         \/ runner[a].pc \in {"park", "report", "settle"} /\ runner'[a].pc \in {"settle", "ended"}
      /\ runner'[a].outcome = runner[a].outcome
      /\ \A d \in Agents \ {a} : RunStays(d)
  BY <1>1, GotoMoves
<1>3. task \in [Agents -> Rows] /\ agent \in [Agents -> Rows]
  BY DEF GateInv, DeskOK
<1>4. CASE WriteTask(a)
  <2>1. /\ runner[a].pc = "writeTask" /\ agent' = agent
        /\ task' = [task EXCEPT ![a] = RowOf(runner[a].outcome)]
    BY <1>4 DEF WriteTask
  <2>2. task'[a] = RowOf(runner[a].outcome) /\ \A d \in Agents \ {a} : task'[d] = task[d]
    BY <1>3, <2>1
  <2> QED
    BY <1>2, <2>1, <2>2 DEF Steps, RowsStay, RowsGo, RunStays, RunIsWritten
<1>5. CASE WriteAgent(a)
  <2>1. /\ runner[a].pc = "writeAgent" /\ task' = task
        /\ agent' = [agent EXCEPT ![a] = RowOf(runner[a].outcome)]
    BY <1>5 DEF WriteAgent
  <2>2. agent'[a] = RowOf(runner[a].outcome) /\ \A d \in Agents \ {a} : agent'[d] = agent[d]
    BY <1>3, <2>1
  <2> QED
    BY <1>2, <2>1, <2>2 DEF Steps, RowsStay, RowsGo, RunStays, RunIsWritten
<1>6. CASE ResolveRecovered(a) \/ ParkTicket(a) \/ ReportDone(a) \/ SettleTicket(a)
  <2>1. task' = task /\ agent' = agent /\ runner[a].pc \in {"resolve", "park", "report", "settle"}
    BY <1>6 DEF ResolveRecovered, ParkTicket, ReportDone, SettleTicket
  <2> QED
    BY <1>2, <2>1 DEF Steps, RowsStay, RunStays, RunIsWritten
<1> QED
  BY <1>4, <1>5, <1>6

LEMMA SweepSteps ==
  ASSUME GateInv, NEW a \in Agents, NEW b \in Agents, SweepChanges(a) \/ CloseChange(a)
  PROVE  Steps(b)
<1>1. RowsStay(b) /\ runner[a].pc \in {"sweep", "close"} /\ runner \in [Agents -> Runs]
  BY DEF SweepChanges, CloseChange, RowsStay, GateInv, RunsOK
<1>2. \E pc \in {"report", "close"}, todo \in SUBSET Changes :
        runner' = [runner EXCEPT ![a].pc = pc, ![a].todo = todo]
  <2>1. CASE SweepChanges(a)
    <3>1. SweepOf(a) \in SUBSET Changes
      BY DEF SweepOf
    <3> QED
      BY <2>1, <3>1 DEF SweepChanges
  <2>2. CASE CloseChange(a)
    <3>1. PICK c \in runner[a].todo :
            runner' = [runner EXCEPT ![a].pc = IF runner[a].todo \ {c} = {} THEN "report" ELSE @,
                                     ![a].todo = runner[a].todo \ {c}]
      BY <2>2 DEF CloseChange
    <3>2. runner[a].pc = "close" /\ runner[a].todo \ {c} \in SUBSET Changes
      BY <1>1, <2>2 DEF CloseChange, Runs
    <3>3. \E pc \in {"report", "close"} :
            runner' = [runner EXCEPT ![a].pc = pc, ![a].todo = runner[a].todo \ {c}]
      BY <3>1, <3>2, <1>1
    <3> QED
      BY <3>2, <3>3
  <2> QED
    BY <2>1, <2>2
<1>3. PICK pc \in {"report", "close"}, todo \in SUBSET Changes :
        runner' = [runner EXCEPT ![a].pc = pc, ![a].todo = todo]
  BY <1>2
<1>4. pc \in RunnerPcs
  BY DEF RunnerPcs
<1>5. /\ runner'[a].pc = pc /\ runner'[a].outcome = runner[a].outcome
      /\ \A d \in Agents \ {a} : runner'[d] = runner[d]
  BY <1>1, <1>3, <1>4, RunSweeps
<1> QED
  BY <1>1, <1>5 DEF Steps, RunStays, RunIsWritten

LEMMA SpawnSteps ==
  ASSUME GateInv, SpawnRows, runner' = [runner EXCEPT ![Newcomer].pc = "working"], NEW b \in Agents
  PROVE  Steps(b)
<1> DEFINE n == Newcomer
<1>1. /\ n \in Agents /\ n \notin Existing
      /\ task'[n] = "active" /\ agent'[n] = "active"
      /\ \A a \in Agents \ {n} : RowsStay(a)
  BY RowsSpawned DEF GateInv, RowsStay
<1>2. Goto(n, "working")
  BY DEF Goto
<1> HIDE DEF n
<1>3. runner'[n].pc = "working" /\ \A a \in Agents \ {n} : RunStays(a)
  BY <1>1, <1>2, GotoMoves DEF RunnerPcs, Alive
<1>4. CASE b = n
  BY <1>1, <1>3, <1>4 DEF Steps, Begins, n
<1>5. CASE b # n
  BY <1>1, <1>3, <1>5 DEF Steps, RunStays
<1> QED
  BY <1>4, <1>5

LEMMA ContinueMoves ==
  ASSUME GateInv, AbsentRest, NEW a \in Agents, SpawnContinuation(a)
  PROVE  /\ Newcomer # a /\ RowsStay(a)
         /\ runner[a].pc = "spawn" /\ runner'[a].pc = "writeTask" /\ runner'[a].outcome = runner[a].outcome
         /\ runner'[Newcomer].pc = "working"
         /\ \A d \in Agents \ {a, Newcomer} : RowsStay(d) /\ RunStays(d)
<1> DEFINE n == Newcomer
<1>1. runner[a].pc = "spawn" /\ SpawnRows /\ runner' = [runner EXCEPT ![a].pc = "writeTask", ![n].pc = "working"]
  BY DEF SpawnContinuation
<1>2. /\ n \in Agents /\ n \notin Existing
      /\ \A d \in Agents \ {n} : RowsStay(d)
  BY <1>1, RowsSpawned DEF GateInv, RowsStay
<1> HIDE DEF n
<1>3. n # a
  BY <1>1, <1>2 DEF AbsentRest, Existing
<1>4. runner \in [Agents -> Runs]
  BY DEF GateInv, RunsOK
<1>5. /\ runner'[a].pc = "writeTask" /\ runner'[a].outcome = runner[a].outcome
      /\ runner'[n].pc = "working"
      /\ \A d \in Agents \ {a, n} : runner'[d] = runner[d]
  <2>1. n \in Agents \ {a} /\ runner' = [runner EXCEPT ![a].pc = "writeTask", ![n].pc = "working"]
    BY <1>1, <1>2, <1>3
  <2> QED
    BY <1>4, <2>1, RunContinues
<1>6. n # a /\ RowsStay(a) /\ \A d \in Agents \ {a, n} : RowsStay(d) /\ RunStays(d)
  BY <1>2, <1>3, <1>5 DEF RunStays
<1> QED
  BY <1>1, <1>5, <1>6 DEF n

LEMMA ContinueSteps ==
  ASSUME GateInv, AbsentRest, NEW a \in Agents, SpawnContinuation(a), NEW b \in Agents
  PROVE  Steps(b)
<1>1. SpawnRows
  BY DEF SpawnContinuation
<1>2. /\ Newcomer \in Agents /\ Newcomer \notin Existing
      /\ task'[Newcomer] = "active" /\ agent'[Newcomer] = "active"
  BY <1>1, RowsSpawned DEF GateInv
<1>3. CASE b = Newcomer
  <2>1. runner'[Newcomer].pc = "working"
    BY ContinueMoves
  <2> QED
    BY <1>1, <1>2, <1>3, <2>1 DEF Steps, Begins
<1>4. CASE b = a
  BY <1>4, ContinueMoves DEF Steps, RunIsWritten
<1>5. CASE b \notin {a, Newcomer}
  BY <1>5, ContinueMoves DEF Steps, RunStays
<1> QED
  BY <1>3, <1>4, <1>5

LEMMA HandleSteps ==
  ASSUME GateInv, NEW r \in Requests, Call(r) \/ Handle(r), NEW b \in Agents
  PROVE  Steps(b)
<1>1. CASE ResumeSpawn(r)
  BY <1>1, SpawnSteps DEF ResumeSpawn
<1>2. CASE HandAgent(r) \/ HandTask(r)
  <2> DEFINE o == Owner(r)
  <2>1. /\ \/ agent' = [agent EXCEPT ![o] = HandedOff(@)] /\ task' = task
           \/ task' = [task EXCEPT ![o] = HandedOff(@)] /\ agent' = agent
        /\ runner' = runner
    BY <1>2 DEF HandAgent, HandTask
  <2> HIDE DEF o
  <2>2. task \in [Agents -> Rows] /\ agent \in [Agents -> Rows]
    BY DEF GateInv, DeskOK
  <2>3. RowsStay(b) \/ RowsGo(b)
    BY <2>1, <2>2 DEF RowsStay, RowsGo, HandedOff
  <2> QED
    BY <2>1, <2>3 DEF Steps, RunStays
<1>3. CASE Call(r) \/ ReadChange(r) \/ WriteChange(r) \/ SyncAccess(r) \/ GrantLease(r)
           \/ ResumeOwn(r) \/ ResumeTicket(r)
  <2>1. UNCHANGED <<task, agent, runner>>
    BY <1>3 DEF Call, ReadChange, WriteChange, SyncAccess, GrantLease, ResumeOwn, ResumeTicket
  <2> QED
    BY <2>1 DEF Steps, RowsStay, RunStays
<1> QED
  BY <1>1, <1>2, <1>3 DEF Handle

LEMMA NextSteps ==
  ASSUME GateInv, AbsentRest, Next, NEW b \in Agents
  PROVE  Steps(b)
<1>1. ASSUME NEW a \in Agents, Work(a) \/ AgentExits(a) PROVE Steps(b)
  BY <1>1, WorkSteps, JudgeSteps
<1>2. ASSUME NEW a \in Agents, Finish(a) PROVE Steps(b)
  <2>1. CASE OpenAccess(a)
    BY <2>1, WorkSteps
  <2>2. CASE ReadStopped(a) \/ ReadGates(a) \/ CheckOthers(a) \/ ReadEvidence(a)
    BY <2>2, JudgeSteps
  <2>3. CASE SpawnContinuation(a)
    BY <2>3, ContinueSteps
  <2>4. CASE SweepChanges(a) \/ CloseChange(a)
    BY <2>4, SweepSteps
  <2>5. CASE ResolveRecovered(a) \/ WriteTask(a) \/ WriteAgent(a) \/ ParkTicket(a)
             \/ ReportDone(a) \/ SettleTicket(a)
    BY <2>5, WriteSteps
  <2> QED
    BY <1>2, <2>1, <2>2, <2>3, <2>4, <2>5 DEF Finish
<1>3. ASSUME NEW r \in Requests, Call(r) \/ Handle(r) PROVE Steps(b)
  BY <1>3, HandleSteps
<1> QED
  BY <1>1, <1>2, <1>3 DEF Next

\* A step of the gates keeps the rows of an agent together.
LEMMA NextAbsent ==
  ASSUME GateInv, AbsentRest, Next
  PROVE  AbsentRest'
<1>1. ASSUME NEW a \in Agents, agent'[a] = "absent" PROVE task'[a] = "absent" /\ runner'[a].pc = "none"
  <2>1. Steps(a)
    BY NextSteps
  <2>2. agent[a] = "absent"
    BY <1>1, NextTyped DEF Existing
  <2>3. task[a] = "absent" /\ runner[a].pc = "none"
    BY <2>2 DEF AbsentRest
  <2> QED
    BY <1>1, <2>1, <2>2, <2>3 DEF Steps, Begins, RowsStay, RowsGo, RunStays, RunIsJudged, RunIsWritten, Alive
<1> QED
  BY <1>1 DEF AbsentRest

-----------------------------------------------------------------------------
(* The steps of the passes and of an operator.                             *)

Orders == [pc : OrderPcs, call : {"stop", "wake", "restart"}, agent : Agents \cup {NoAgent}, barred : BOOLEAN]

\* A pass is at an agent of the ticket, and goes on to others.
At(pass, agents) ==
  /\ pass.pc # "idle" => pass.at \in agents
  /\ \A a \in Agents : pass.seen[a] # "absent" => a \in agents
PassesAt == \A p \in Audits : audit[p] \in Passes /\ At(audit[p], Existing)
OrdersOK ==
  /\ order \in [Operators -> Orders]
  /\ \A o \in Operators : order[o].pc # "idle" => order[o].agent \in Existing

GateRows == GateInv /\ AbsentRest
Callers == PassesAt /\ OrdersOK

\* The auditor or an operator writes a row of an agent of the ticket.
RowsEnd(a) ==
  /\ a \in Existing
  /\ \/ /\ agent'[a] = agent[a]
        /\ \/ task'[a] = "completed" /\ \E p \in Audits : audit[p].pc = "finishTask" /\ audit[p].at = a
           \/ task'[a] = "stopped" /\ \E o \in Operators : order[o].pc = "stopTask" /\ order[o].agent = a
     \/ /\ task'[a] = task[a]
        /\ \/ agent'[a] = "completed" /\ \E p \in Audits : audit[p].pc = "finishAgent" /\ audit[p].at = a
           \/ agent'[a] = "stopped" /\ \E o \in Operators : order[o].pc = "stopAgent" /\ order[o].agent = a

Hangs(a) == RowsStay(a) /\ runner[a].pc \in Alive /\ runner'[a].pc = "hung"
SupSteps(a) ==
  Steps(a) \/ Hangs(a) \/ (RowsEnd(a) /\ RunStays(a))

LEMMA StaySteps ==
  ASSUME NEW a, RowsStay(a), RunStays(a)
  PROVE  SupSteps(a)
  BY DEF SupSteps, Steps, RunStays

\* What the steps keep that write no row of an agent.
LEMMA QuietTyped ==
  ASSUME GateInv, UNCHANGED <<task, agent, runner, change, access, leases, request, calls, scene>>,
         ticket' \in {ticket, "progress", "resolved"},
         noted' \in {noted, noted \cup Existing}, learned' = learned
  PROVE  GateInv' /\ Existing \subseteq Existing' /\ \A b \in Agents : SupSteps(b)
<1>1. DeskOK' /\ Existing \subseteq Existing'
  BY DeskKeeps DEF GateInv, DeskOK
<1>2. GateInv'
  BY <1>1, RunKeeps DEF GateInv, RunsOK
<1>3. \A b \in Agents : RowsStay(b) /\ RunStays(b)
  BY DEF RowsStay, RunStays
<1> QED
  BY <1>1, <1>2, <1>3, StaySteps

LEMMA KilledTyped ==
  ASSUME GateInv, NEW a \in Agents, Killed(a), UNCHANGED <<task, agent, change, access, leases, request, calls, desk>>
  PROVE  GateInv' /\ Existing \subseteq Existing' /\ \A b \in Agents : SupSteps(b)
<1>1. CASE runner' = runner
  BY <1>1, QuietTyped DEF desk
<1>2. CASE runner[a].pc \in Alive /\ Exits(a)
  <2>1. GateInv' /\ Existing \subseteq Existing'
    BY <1>2, ExitsTyped
  <2>2. runner'[a].pc = "exited" /\ \A b \in Agents \ {a} : RunStays(b)
    BY <1>2, ExitMoves
  <2>3. \A b \in Agents : RowsStay(b)
    BY DEF RowsStay
  <2>4. Steps(a)
    BY <1>2, <2>2, <2>3 DEF Steps, RunIsJudged, Alive
  <2> QED
    BY <2>1, <2>2, <2>3, <2>4, StaySteps DEF SupSteps
<1> QED
  BY <1>1, <1>2 DEF Killed

\* A row is written.
LEMMA RowTyped ==
  ASSUME GateInv, NEW a \in Existing, NEW status \in {"completed", "stopped"},
         \/ task' = [task EXCEPT ![a] = status] /\ agent' = agent
         \/ agent' = [agent EXCEPT ![a] = status] /\ task' = task,
         UNCHANGED <<runner, change, access, leases, request, calls, scene, ticket, learned>>,
         noted' \in {noted, noted \cup Existing}
  PROVE  /\ GateInv' /\ Existing \subseteq Existing'
         /\ \A b \in Agents : RunStays(b)
         /\ \A b \in Agents \ {a} : RowsStay(b)
         /\ \/ task'[a] = status /\ agent'[a] = agent[a]
            \/ agent'[a] = status /\ task'[a] = task[a]
<1>1. a \in Agents /\ status \in Rows \ {"absent"} /\ task \in [Agents -> Rows] /\ agent \in [Agents -> Rows]
  BY DEF Existing, Rows, GateInv, DeskOK
<1>2. /\ task' \in [Agents -> Rows] /\ agent' \in [Agents -> Rows]
      /\ \A b \in Agents : agent[b] # "absent" => agent'[b] # "absent"
      /\ \A b \in Agents \ {a} : RowsStay(b)
      /\ \/ task'[a] = status /\ agent'[a] = agent[a]
         \/ agent'[a] = status /\ task'[a] = task[a]
  BY <1>1 DEF RowsStay
<1>3. DeskOK' /\ Existing \subseteq Existing'
  BY <1>2, DeskKeeps DEF GateInv, DeskOK
<1>4. GateInv'
  BY <1>3, RunKeeps DEF GateInv, RunsOK
<1> QED
  BY <1>2, <1>3, <1>4 DEF RunStays

LEMMA SpawnMoves ==
  ASSUME GateInv, SpawnRows, FinalNote, runner' = [runner EXCEPT ![Newcomer].pc = "working"],
         UNCHANGED <<change, access, leases, request, calls>>
  PROVE  GateInv' /\ Existing \subseteq Existing' /\ \A b \in Agents : SupSteps(b)
<1>1. DeskOK' /\ RunsOK' /\ Existing \subseteq Existing' /\ scene' = scene
  BY SpawnTyped
<1>2. GateInv'
  BY <1>1, RunKeeps DEF RunsOK
<1> QED
  BY <1>1, <1>2, SpawnSteps DEF SupSteps

LEMMA HangMoves ==
  ASSUME GateInv, NEW a \in Agents, Hang(a)
  PROVE  GateInv' /\ Existing \subseteq Existing' /\ \A b \in Agents : SupSteps(b)
<1>1. /\ Goto(a, "hung") /\ "hung" \in RunnerPcs \ {"exited"} /\ runner[a].pc \in Alive
      /\ UNCHANGED <<task, agent, change, access, leases, request, calls, desk>>
  BY DEF Hang, AtWork, Ticket, RunnerPcs, Alive
<1>2. GateInv' /\ Existing \subseteq Existing'
  BY <1>1, QuietRunTyped
<1>3. runner'[a].pc = "hung" /\ \A b \in Agents \ {a} : RunStays(b)
  BY <1>1, GotoMoves
<1>4. \A b \in Agents : RowsStay(b)
  BY <1>1 DEF RowsStay
<1> QED
  BY <1>1, <1>2, <1>3, <1>4, StaySteps DEF SupSteps, Hangs

LEMMA AuditMoves ==
  ASSUME GateInv, Callers, NEW p \in Audits, Audit(p) \/ AuditFails(p)
  PROVE  GateInv' /\ Existing \subseteq Existing' /\ \A b \in Agents : SupSteps(b)
<1>1. CASE \/ AuditStarts(p) \/ AuditSweeps(p) \/ AuditSeesOthers(p) \/ AuditSeesPending(p)
           \/ AuditRecovers(p) \/ AuditJudges(p) \/ AuditLooks(p) \/ AuditCounts(p) \/ AuditFails(p)
  <2>1. UNCHANGED <<task, agent, runner, Ticket, desk>>
    BY <1>1 DEF AuditStarts, AuditSweeps, AuditSeesOthers, AuditSeesPending, AuditRecovers, AuditJudges,
       AuditLooks, AuditCounts, AuditFails
  <2> QED
    BY <2>1, QuietTyped DEF Ticket, desk
<1>2. CASE AuditCloses(p)
  <2>1. PICK c \in audit[p].todo : change' = Closed(c)
    BY <1>2 DEF AuditCloses
  <2>2. c \in Changes
    BY <2>1 DEF Callers, PassesAt, Passes
  <2>3. /\ UNCHANGED <<task, agent, runner, access, leases, request, calls, scene, ticket, learned>>
        /\ noted' = noted \cup Existing
    BY <1>2 DEF AuditCloses, FinalNote
  <2>4. DeskOK' /\ Existing \subseteq Existing'
    BY <2>3, DeskKeeps DEF GateInv, DeskOK
  <2>5. GateInv'
    BY <2>1, <2>2, <2>3, <2>4, CloseTyped DEF GateInv, RunsOK
  <2>6. \A b \in Agents : RowsStay(b) /\ RunStays(b)
    BY <2>3 DEF RowsStay, RunStays
  <2> QED
    BY <2>4, <2>5, <2>6, StaySteps
<1>3. CASE AuditResolves(p)
  BY <1>3, QuietTyped DEF AuditResolves, TicketResolved, FinalNote, Ticket
<1> DEFINE a == audit[p].at
<1>4. audit[p].pc # "idle" => a \in Existing
  BY DEF Callers, PassesAt, At
<1> HIDE DEF a
<1>5. CASE AuditFinishesTask(p)
  <2>1. /\ audit[p].pc = "finishTask" /\ task' = [task EXCEPT ![a] = "completed"] /\ agent' = agent
        /\ UNCHANGED <<runner, change, access, leases, request, calls, scene, ticket, noted, learned>>
    BY <1>5 DEF AuditFinishesTask, Ticket, desk, a
  <2>2. a \in Existing /\ a \in Agents /\ task \in [Agents -> Rows]
    BY <1>4, <2>1 DEF Existing, GateInv, DeskOK
  <2>3. /\ GateInv' /\ Existing \subseteq Existing' /\ \A b \in Agents : RunStays(b)
        /\ \A b \in Agents \ {a} : RowsStay(b)
    BY <2>1, <2>2, RowTyped
  <2>4. RowsEnd(a)
    BY <2>1, <2>2 DEF RowsEnd, a
  <2> QED
    BY <2>3, <2>4, StaySteps DEF SupSteps
<1>6. CASE AuditFinishesAgent(p)
  <2>1. /\ audit[p].pc = "finishAgent" /\ agent' = [agent EXCEPT ![a] = "completed"] /\ task' = task
        /\ UNCHANGED <<runner, change, access, leases, request, calls, scene, ticket, learned>>
        /\ noted' = noted \cup Existing
    BY <1>6 DEF AuditFinishesAgent, Ticket, FinalNote, a
  <2>2. a \in Existing /\ a \in Agents /\ agent \in [Agents -> Rows]
    BY <1>4, <2>1 DEF Existing, GateInv, DeskOK
  <2>3. /\ GateInv' /\ Existing \subseteq Existing' /\ \A b \in Agents : RunStays(b)
        /\ \A b \in Agents \ {a} : RowsStay(b)
    BY <2>1, <2>2, RowTyped
  <2>4. RowsEnd(a)
    BY <2>1, <2>2 DEF RowsEnd, a
  <2> QED
    BY <2>3, <2>4, StaySteps DEF SupSteps
<1>7. CASE AuditKills(p)
  <2>1. /\ audit[p].pc = "kill" /\ Killed(a)
        /\ UNCHANGED <<task, agent, change, access, leases, request, calls, desk>>
    BY <1>7 DEF AuditKills, Ticket, a
  <2>2. a \in Agents
    BY <1>4, <2>1 DEF Existing
  <2> QED
    BY <2>1, <2>2, KilledTyped
<1>8. CASE AuditSpawns(p)
  BY <1>8, SpawnMoves DEF AuditSpawns, Ticket
<1> QED
  BY <1>1, <1>2, <1>3, <1>5, <1>6, <1>7, <1>8 DEF Audit

LEMMA OrderMoves ==
  ASSUME GateInv, Callers, NEW o \in Operators, Order(o) \/ Obey(o)
  PROVE  GateInv' /\ Existing \subseteq Existing' /\ \A b \in Agents : SupSteps(b)
<1>1. CASE Order(o) \/ ReadTask(o)
  <2>1. UNCHANGED <<task, agent, runner, Ticket, desk>>
    BY <1>1 DEF Order, ReadTask
  <2> QED
    BY <2>1, QuietTyped DEF Ticket, desk
<1>2. CASE Reassign(o)
  BY <1>2, QuietTyped DEF Reassign, Ticket
<1> DEFINE a == order[o].agent
<1>3. order[o].pc # "idle" => a \in Existing
  BY DEF Callers, OrdersOK
<1> HIDE DEF a
<1>4. CASE StopProcess(o)
  <2>1. /\ order[o].pc = "kill" /\ Killed(a)
        /\ UNCHANGED <<task, agent, change, access, leases, request, calls, desk>>
    BY <1>4 DEF StopProcess, Ticket, a
  <2>2. a \in Agents
    BY <1>3, <2>1 DEF Existing
  <2> QED
    BY <2>1, <2>2, KilledTyped
<1>5. CASE StopTask(o)
  <2>1. /\ order[o].pc = "stopTask" /\ task' = [task EXCEPT ![a] = "stopped"] /\ agent' = agent
        /\ UNCHANGED <<runner, change, access, leases, request, calls, scene, ticket, noted, learned>>
    BY <1>5 DEF StopTask, Ticket, desk, a
  <2>2. a \in Existing /\ a \in Agents /\ task \in [Agents -> Rows]
    BY <1>3, <2>1 DEF Existing, GateInv, DeskOK
  <2>3. /\ GateInv' /\ Existing \subseteq Existing' /\ \A b \in Agents : RunStays(b)
        /\ \A b \in Agents \ {a} : RowsStay(b)
    BY <2>1, <2>2, RowTyped
  <2>4. RowsEnd(a)
    BY <2>1, <2>2 DEF RowsEnd, a
  <2> QED
    BY <2>3, <2>4, StaySteps DEF SupSteps
<1>6. CASE StopAgent(o)
  <2>1. /\ order[o].pc = "stopAgent" /\ agent' = [agent EXCEPT ![a] = "stopped"] /\ task' = task
        /\ UNCHANGED <<runner, change, access, leases, request, calls, scene, ticket, noted, learned>>
    BY <1>6 DEF StopAgent, Ticket, desk, a
  <2>2. a \in Existing /\ a \in Agents /\ agent \in [Agents -> Rows]
    BY <1>3, <2>1 DEF Existing, GateInv, DeskOK
  <2>3. /\ GateInv' /\ Existing \subseteq Existing' /\ \A b \in Agents : RunStays(b)
        /\ \A b \in Agents \ {a} : RowsStay(b)
    BY <2>1, <2>2, RowTyped
  <2>4. RowsEnd(a)
    BY <2>1, <2>2 DEF RowsEnd, a
  <2> QED
    BY <2>3, <2>4, StaySteps DEF SupSteps
<1>7. CASE SpawnAgain(o)
  BY <1>7, SpawnMoves DEF SpawnAgain, Ticket
<1> QED
  BY <1>1, <1>2, <1>4, <1>5, <1>6, <1>7 DEF Obey

\* What a step of the ticket under supervision does to its agents.
LEMMA SupMoves ==
  ASSUME GateInv, AbsentRest, Callers, SupNext
  PROVE  GateInv' /\ Existing \subseteq Existing' /\ \A b \in Agents : SupSteps(b)
<1>1. CASE GateStep
  BY <1>1, NextTyped, NextSteps DEF GateStep, SupSteps
<1> QED
  BY <1>1, HangMoves, AuditMoves, OrderMoves DEF SupNext, Supervise

LEMMA AbsentStays ==
  ASSUME GateInv, AbsentRest, Callers, SupNext
  PROVE  AbsentRest'
<1>1. ASSUME NEW a \in Agents, agent'[a] = "absent" PROVE task'[a] = "absent" /\ runner'[a].pc = "none"
  <2>1. SupSteps(a) /\ a \notin Existing
    BY <1>1, SupMoves DEF Existing
  <2>2. agent[a] = "absent" /\ task[a] = "absent" /\ runner[a].pc = "none"
    BY <2>1 DEF AbsentRest, Existing
  <2> QED
    BY <1>1, <2>1, <2>2 DEF SupSteps, Hangs, RowsEnd, Steps, Begins, RowsStay, RowsGo, RunStays, RunIsJudged,
       RunIsWritten, Alive
<1> QED
  BY <1>1 DEF AbsentRest

-----------------------------------------------------------------------------
(* Where a pass and a call go.                                             *)

Goes(p, pc) ==
  \/ pc \in {"close", "pending", "recover", "judge", "look", "kill"}
  \/ audit[p].pc = "recover" /\ pc \in {"resolve", "finishTask"} /\ TerminalEvidence(audit[p].at) /\ UNCHANGED vars
  \/ audit[p].pc = "resolve" /\ pc = "finishTask"
  \/ AuditFinishesTask(p) /\ pc = "finishAgent"
  \/ AuditLooks(p) /\ MaySpawn(p) /\ pc = "spawn"
  \/ AuditSpawns(p) /\ pc = "count"

Started == [NoAudit EXCEPT !.seen = [a \in Agents |-> Judged(a)], !.tries = attempts]

PassGoes(p, pass) ==
  \/ pass = NoAudit
  \/ pass = Turn(audit[p]) /\ audit[p].pc # "idle"
  \/ pass = Turn(Started) /\ AuditStarts(p)
  \/ audit[p].pc # "idle" /\ pass.at = audit[p].at /\ pass.seen = audit[p].seen /\ Goes(p, pass.pc)

LEMMA ProceedGoes ==
  ASSUME PassTypes, NEW p \in Audits, audit[p].pc # "idle", NEW pc \in AuditPcs, Proceed(p, pc), Goes(p, pc)
  PROVE  \E pass \in Passes : audit' = [audit EXCEPT ![p] = pass] /\ PassGoes(p, pass)
<1> DEFINE pass == [audit[p] EXCEPT !.pc = pc]
<1>1. audit[p] \in Passes
  BY DEF PassTypes
<1>2. pass \in Passes /\ pass.pc = pc /\ pass.at = audit[p].at /\ pass.seen = audit[p].seen
  BY <1>1 DEF Passes
<1>3. audit' = [audit EXCEPT ![p] = pass]
  BY DEF Proceed
<1> HIDE DEF pass
<1>4. PassGoes(p, pass)
  BY <1>2 DEF PassGoes
<1> QED
  BY <1>2, <1>3, <1>4

LEMMA TurnGoes ==
  ASSUME PassTypes, NEW p \in Audits, audit[p].pc # "idle",
         NextAgent(p) \/ audit' = [audit EXCEPT ![p] = NoAudit]
  PROVE  \E pass \in Passes : audit' = [audit EXCEPT ![p] = pass] /\ PassGoes(p, pass)
<1>1. NoAudit \in Passes
  BY NoAuditIsPass
<1>2. audit[p] \in Passes
  BY DEF PassTypes
<1>3. Turn(audit[p]) \in Passes
  BY <1>2, TurnKeeps
<1>4. NextAgent(p) => audit' = [audit EXCEPT ![p] = Turn(audit[p])]
  BY DEF NextAgent
<1> QED
  BY <1>1, <1>3, <1>4 DEF PassGoes

LEMMA StartedIsPass ==
  ASSUME PassTypes
  PROVE  Started \in Passes /\ \A a \in Agents : Started.seen[a] = Judged(a)
<1> DEFINE seen == [a \in Agents |-> Judged(a)]
<1>1. seen \in [Agents -> {"absent", "active", "completed"}] /\ \A a \in Agents : seen[a] = Judged(a)
  BY DEF Judged
<1>2. attempts \in [Agents -> Nat]
  BY DEF PassTypes
<1> HIDE DEF seen
<1>3. Started = [NoAudit EXCEPT !.seen = seen, !.tries = attempts]
  BY DEF Started, seen
<1>4. Started \in Passes /\ Started.seen = seen
  BY <1>1, <1>2, <1>3 DEF Passes, NoAudit, AuditPcs
<1> QED
  BY <1>1, <1>4

LEMMA AuditGoes ==
  ASSUME PassTypes, NEW p \in Audits, Audit(p) \/ AuditFails(p)
  PROVE  \E pass \in Passes : audit' = [audit EXCEPT ![p] = pass] /\ PassGoes(p, pass)
<1> USE DEF AuditPcs
<1>1. CASE AuditStarts(p)
  <2>1. Started \in Passes
    BY StartedIsPass
  <2>2. Turn(Started) \in Passes
    BY <2>1, TurnKeeps
  <2>3. audit' = [audit EXCEPT ![p] = Turn(Started)]
    BY <1>1 DEF AuditStarts, Started
  <2> QED
    BY <1>1, <2>2, <2>3 DEF PassGoes
<1>2. CASE AuditSweeps(p) /\ audit' = [audit EXCEPT ![p].pc = "close", ![p].todo = SweepOf(audit[p].at)]
  <2> DEFINE todo == SweepOf(audit[p].at)
             pass == [audit[p] EXCEPT !.pc = "close", !.todo = todo]
  <2>1. todo \in SUBSET Changes
    BY DEF SweepOf
  <2>2. audit' = [audit EXCEPT ![p].pc = "close", ![p].todo = todo]
    BY <1>2
  <2> HIDE DEF todo
  <2>3. audit[p] \in Passes /\ audit \in [Audits -> Passes]
    BY DEF PassTypes
  <2>4. audit' = [audit EXCEPT ![p] = pass]
    BY <2>2, <2>3
  <2>5. pass \in Passes /\ pass.pc = "close" /\ pass.at = audit[p].at /\ pass.seen = audit[p].seen
    BY <2>1, <2>3 DEF Passes
  <2> HIDE DEF pass
  <2>6. PassGoes(p, pass)
    BY <1>2, <2>5 DEF PassGoes, Goes, AuditSweeps
  <2> QED
    BY <2>4, <2>5, <2>6
<1>3. CASE AuditCloses(p)
  <2>1. audit[p].pc = "close" /\ audit[p] \in Passes
    BY <1>3 DEF AuditCloses, PassTypes
  <2>2. PICK c \in audit[p].todo : NextAgent(p) \/ audit' = [audit EXCEPT ![p].todo = audit[p].todo \ {c}]
    BY <1>3 DEF AuditCloses
  <2>3. CASE NextAgent(p)
    BY <2>1, <2>3, TurnGoes
  <2>4. CASE audit' = [audit EXCEPT ![p].todo = audit[p].todo \ {c}]
    <3> DEFINE pass == [audit[p] EXCEPT !.todo = audit[p].todo \ {c}]
    <3>1. audit' = [audit EXCEPT ![p] = pass]
      BY <2>4
    <3>2. pass \in Passes /\ pass.pc = "close" /\ pass.at = audit[p].at /\ pass.seen = audit[p].seen
      BY <2>1 DEF Passes
    <3> HIDE DEF pass
    <3>3. PassGoes(p, pass)
      BY <2>1, <3>2 DEF PassGoes, Goes
    <3> QED
      BY <3>1, <3>2, <3>3
  <2> QED
    BY <2>2, <2>3, <2>4
<1>4. CASE audit[p].pc # "idle" /\ (NextAgent(p) \/ audit' = [audit EXCEPT ![p] = NoAudit])
  BY <1>4, TurnGoes
<1>5. CASE audit[p].pc # "idle" /\ \E pc \in {"pending", "recover", "judge", "look", "kill"} : Proceed(p, pc)
  BY <1>5, ProceedGoes DEF Goes
<1>6. CASE AuditRecovers(p)
  <2>1. audit[p].pc = "recover" /\ UNCHANGED vars
    BY <1>6 DEF AuditRecovers, Ticket, vars
  <2>2. CASE Proceed(p, "judge")
    BY <1>5, <2>1, <2>2
  <2>3. CASE TerminalEvidence(audit[p].at) /\ (Proceed(p, "finishTask") \/ Proceed(p, "resolve"))
    BY <2>1, <2>3, ProceedGoes DEF Goes
  <2> QED
    BY <1>6, <2>2, <2>3 DEF AuditRecovers
<1>7. CASE AuditResolves(p)
  <2>1. audit[p].pc = "resolve" /\ Proceed(p, "finishTask")
    BY <1>7 DEF AuditResolves
  <2> QED
    BY <2>1, ProceedGoes DEF Goes
<1>8. CASE AuditFinishesTask(p)
  <2>1. audit[p].pc = "finishTask" /\ Proceed(p, "finishAgent")
    BY <1>8 DEF AuditFinishesTask
  <2> QED
    BY <1>8, <2>1, ProceedGoes DEF Goes
<1>9. CASE AuditLooks(p) /\ MaySpawn(p)
  <2>1. audit[p].pc = "look" /\ Proceed(p, "spawn")
    BY <1>9 DEF AuditLooks
  <2> QED
    BY <1>9, <2>1, ProceedGoes DEF Goes
<1>10. CASE AuditSpawns(p)
  <2>1. audit[p].pc = "spawn" /\ Proceed(p, "count")
    BY <1>10 DEF AuditSpawns
  <2> QED
    BY <1>10, <2>1, ProceedGoes DEF Goes
<1>11. CASE AuditSweeps(p)
  BY <1>2, <1>4, <1>11 DEF AuditSweeps
<1>12. CASE AuditSeesOthers(p) \/ AuditSeesPending(p) \/ AuditJudges(p)
  BY <1>4, <1>5, <1>12 DEF AuditSeesOthers, AuditSeesPending, AuditJudges
<1>13. CASE AuditFinishesAgent(p) \/ AuditKills(p) \/ AuditCounts(p) \/ AuditFails(p)
  BY <1>4, <1>5, <1>13 DEF AuditFinishesAgent, AuditKills, AuditCounts, AuditFails
<1>14. CASE AuditLooks(p)
  BY <1>4, <1>9, <1>14 DEF AuditLooks
<1> QED
  BY <1>1, <1>3, <1>6, <1>7, <1>8, <1>10, <1>11, <1>12, <1>13, <1>14 DEF Audit

LEMMA TurnAt ==
  ASSUME NEW pass \in Passes, NEW agents, \A a \in Agents : pass.seen[a] # "absent" => a \in agents
  PROVE  At(Turn(pass), agents)
<1> DEFINE left == {a \in Agents : pass.seen[a] # "absent"}
           a == CHOOSE b \in left : \A c \in left : c <= b
           rest == [pass.seen EXCEPT ![a] = "absent"]
           pc == IF pass.seen[a] = "completed" THEN "sweep" ELSE "others"
           tries == [b \in Agents |-> IF b = a \/ rest[b] = "active" THEN pass.tries[b] ELSE 0]
           next == [pass EXCEPT !.pc = pc, !.at = a, !.seen = rest, !.todo = {}, !.tries = tries]
<1>1. CASE left = {}
  <2>1. Turn(pass) = NoAudit
    BY <1>1 DEF Turn
  <2> QED
    BY <2>1 DEF At, NoAudit, Unseen
<1>2. CASE left # {}
  <2>1. Turn(pass) = next
    BY <1>2 DEF Turn
  <2>2. a \in left
    BY <1>2, NewestAgent
  <2>3. a \in Agents /\ pass.seen[a] # "absent" /\ a \in agents
    BY <2>2
  <2> HIDE DEF a, left
  <2>4. rest \in [Agents -> {"absent", "active", "completed"}]
        /\ \A b \in Agents : rest[b] # "absent" => pass.seen[b] # "absent"
    BY <2>3 DEF Passes
  <2> HIDE DEF rest, pc, tries
  <2>5. next.at = a /\ next.seen = rest
    BY DEF Passes
  <2> QED
    BY <2>1, <2>3, <2>4, <2>5 DEF At
<1> QED
  BY <1>1, <1>2

LEMMA PassStaysAt ==
  ASSUME PassTypes, PassesAt, AbsentRest, NEW p \in Audits, NEW pass \in Passes, PassGoes(p, pass)
  PROVE  At(pass, Existing)
<1>1. CASE pass = NoAudit
  BY <1>1 DEF At, NoAudit, Unseen
<1>2. CASE pass = Turn(audit[p]) /\ audit[p].pc # "idle"
  <2>1. audit[p] \in Passes /\ \A a \in Agents : audit[p].seen[a] # "absent" => a \in Existing
    BY DEF PassesAt, At
  <2> QED
    BY <1>2, <2>1, TurnAt
<1>3. CASE pass = Turn(Started)
  <2>1. Started \in Passes /\ \A a \in Agents : Started.seen[a] = Judged(a)
    BY StartedIsPass
  <2>2. \A a \in Agents : Judged(a) # "absent" => a \in Existing
    BY DEF Judged, AbsentRest, Existing
  <2> QED
    BY <1>3, <2>1, <2>2, TurnAt
<1>4. CASE audit[p].pc # "idle" /\ pass.at = audit[p].at /\ pass.seen = audit[p].seen
  BY <1>4 DEF PassesAt, At
<1> QED
  BY <1>1, <1>2, <1>3, <1>4 DEF PassGoes

LEMMA PassesStayAt ==
  ASSUME PassTypes, PassesAt, AbsentRest, Existing \subseteq Existing',
         \/ audit' = audit
         \/ \E p \in Audits : Audit(p) \/ AuditFails(p)
  PROVE  PassesAt'
<1>1. CASE audit' = audit
  BY <1>1 DEF PassesAt, At
<1>2. ASSUME NEW p \in Audits, Audit(p) \/ AuditFails(p) PROVE PassesAt'
  <2>1. PICK pass \in Passes : audit' = [audit EXCEPT ![p] = pass] /\ PassGoes(p, pass)
    BY <1>2, AuditGoes
  <2>2. At(pass, Existing)
    BY <2>1, PassStaysAt
  <2>3. \A q \in Audits : audit'[q] \in Passes /\ At(audit'[q], Existing)
    BY <2>1, <2>2 DEF PassTypes, PassesAt
  <2>4. \A q \in Audits : At(audit'[q], Existing')
    BY <2>3 DEF At
  <2> QED
    BY <2>3, <2>4 DEF PassesAt, At
<1> QED
  BY <1>1, <1>2

LEMMA OrdersStay ==
  ASSUME OrdersOK, Existing \subseteq Existing',
         \/ order' = order
         \/ \E o \in Operators : Order(o) \/ Obey(o),
         scene \in Scenes
  PROVE  OrdersOK'
<1>1. CASE order' = order
  BY <1>1 DEF OrdersOK
<1>2. ASSUME NEW o \in Operators, NEW q \in Orders, order' = [order EXCEPT ![o] = q],
             q.pc # "idle" => q.agent \in Existing
      PROVE  OrdersOK'
  BY <1>2 DEF OrdersOK
<1>3. ASSUME NEW o \in Operators, Order(o) PROVE OrdersOK'
  <2>1. PICK a \in Existing, call \in scene.orders :
          order' = [order EXCEPT ![o] = [pc |-> "task", call |-> call, agent |-> a,
                                         barred |-> call = "wake" /\ agent[a] = "stopped"]]
    BY <1>3 DEF Order
  <2> DEFINE barred == call = "wake" /\ agent[a] = "stopped"
             q == [pc |-> "task", call |-> call, agent |-> a, barred |-> barred]
  <2>2. order' = [order EXCEPT ![o] = q]
    BY <2>1
  <2>3. barred \in BOOLEAN /\ a \in Agents /\ call \in {"stop", "wake", "restart"}
    BY SupervisionAssumption DEF Existing
  <2> HIDE DEF barred
  <2>4. q \in Orders /\ q.agent = a
    BY <2>3 DEF Orders, OrderPcs
  <2> HIDE DEF q
  <2> QED
    BY <1>2, <2>2, <2>4
<1>4. ASSUME NEW o \in Operators, Obey(o) PROVE OrdersOK'
  <2>1. order[o] \in Orders /\ order[o].pc # "idle"
    BY <1>4 DEF OrdersOK, Obey, ReadTask, StopProcess, StopTask, StopAgent, Reassign, SpawnAgain
  <2>2. Answer(o) \/ \E pc \in OrderPcs : Continue(o, pc)
    BY <1>4 DEF Obey, ReadTask, StopProcess, StopTask, StopAgent, Reassign, SpawnAgain, OrderPcs
  <2>3. CASE Answer(o)
    <3>1. NoOrder \in Orders /\ NoOrder.pc = "idle"
      BY DEF NoOrder, Orders, OrderPcs
    <3> QED
      BY <1>2, <2>3, <3>1 DEF Answer
  <2>4. ASSUME NEW pc \in OrderPcs, Continue(o, pc) PROVE OrdersOK'
    <3> DEFINE q == [order[o] EXCEPT !.pc = pc]
    <3>1. q \in Orders /\ q.agent = order[o].agent
      BY <2>1 DEF Orders
    <3>2. order' = [order EXCEPT ![o] = q] /\ order[o].agent \in Existing
      BY <2>1, <2>4 DEF Continue, OrdersOK
    <3> HIDE DEF q
    <3> QED
      BY <1>2, <3>1, <3>2
  <2> QED
    BY <2>2, <2>3, <2>4
<1> QED
  BY <1>1, <1>3, <1>4

\* Every attempt that was counted, or is about to be, belongs to a replacement.
Account == \A a \in Agents : attempts[a] + Cardinality(Counting(a)) <= replaced[a]

LEMMA AccountStays ==
  ASSUME PassTypes, Account, UNCHANGED <<attempts, replaced>>,
         \A a \in Agents : Counting(a)' \subseteq Counting(a)
  PROVE  Account'
<1>1. ASSUME NEW a \in Agents PROVE attempts[a] + Cardinality(Counting(a)') <= replaced[a]
  <2>1. Counting(a)' \in SUBSET Counting(a)
    OBVIOUS
  <2>2. Cardinality(Counting(a)') <= Cardinality(Counting(a))
    BY <2>1, FinitePasses, FS_Subset
  <2>3. attempts[a] \in Nat /\ replaced[a] \in Nat /\ attempts[a] + Cardinality(Counting(a)) <= replaced[a]
    BY DEF PassTypes, Account
  <2> QED
    BY <2>2, <2>3, FinitePasses
<1> QED
  BY <1>1 DEF Account

LEMMA AccountSpawns ==
  ASSUME PassTypes, PassesSound, Account, NEW p \in Audits, AuditSpawns(p)
  PROVE  Account'
<1> DEFINE at == audit[p].at
           pass == [audit[p] EXCEPT !.pc = "count"]
<1>1. /\ audit[p].pc = "spawn" /\ audit' = [audit EXCEPT ![p] = pass] /\ attempts' = attempts
      /\ replaced' = [replaced EXCEPT ![at] = @ + 1]
  BY DEF AuditSpawns, Proceed
<1>2. at \in Agents /\ audit[p] \in Passes
  BY <1>1 DEF PassesSound, Sound, PassTypes
<1>3. pass.pc = "count" /\ pass.at = at
  BY <1>2 DEF Passes
<1> HIDE DEF pass, at
<1>4. ASSUME NEW a \in Agents PROVE attempts[a] + Cardinality(Counting(a)') <= replaced'[a]
  <2>1. Counting(a)' = (Counting(a) \ {p}) \cup (IF Counts(pass, a) THEN {p} ELSE {})
    BY <1>1, OnePass
  <2>2. p \notin Counting(a)
    BY <1>1 DEF Counting, Counts
  <2>3. attempts[a] \in Nat /\ replaced[a] \in Nat /\ attempts[a] + Cardinality(Counting(a)) <= replaced[a]
    BY DEF PassTypes, Account
  <2>4. CASE a = at
    <3>1. Counting(a)' = Counting(a) \cup {p}
      BY <1>3, <2>1, <2>2, <2>4 DEF Counts
    <3>2. Cardinality(Counting(a)') = Cardinality(Counting(a)) + 1
      BY <2>2, <3>1, FinitePasses, FS_AddElement
    <3>3. replaced'[a] = replaced[a] + 1
      BY <1>1, <2>4 DEF PassTypes
    <3> QED
      BY <2>3, <3>2, <3>3, FinitePasses
  <2>5. CASE a # at
    <3>1. Counting(a)' = Counting(a) /\ replaced'[a] = replaced[a]
      BY <1>1, <1>3, <2>1, <2>2, <2>5 DEF Counts, PassTypes
    <3> QED
      BY <2>3, <3>1
  <2> QED
    BY <2>4, <2>5
<1> QED
  BY <1>1, <1>4 DEF Account

LEMMA AccountCounts ==
  ASSUME PassTypes, PassesSound, Account, NEW p \in Audits, AuditCounts(p)
  PROVE  Account'
<1> DEFINE at == audit[p].at
           pass == Turn(audit[p])
<1>1. /\ audit[p].pc = "count" /\ audit' = [audit EXCEPT ![p] = pass] /\ replaced' = replaced
      /\ attempts' = [attempts EXCEPT ![at] = @ + 1]
  BY DEF AuditCounts, NextAgent
<1>2. at \in Agents /\ audit[p] \in Passes
  BY <1>1 DEF PassesSound, Sound, PassTypes
<1>3. pass.pc # "count" /\ at = audit[p].at
  BY <1>2, TurnKeeps DEF NoAudit
<1> HIDE DEF pass, at
<1>4. ASSUME NEW a \in Agents PROVE attempts'[a] + Cardinality(Counting(a)') <= replaced[a]
  <2>1. Counting(a)' = Counting(a) \ {p}
    <3>1. Counting(a)' = (Counting(a) \ {p}) \cup (IF Counts(pass, a) THEN {p} ELSE {})
      BY <1>1, OnePass
    <3> QED
      BY <1>3, <3>1 DEF Counts
  <2>2. attempts[a] \in Nat /\ replaced[a] \in Nat /\ attempts[a] + Cardinality(Counting(a)) <= replaced[a]
    BY DEF PassTypes, Account
  <2>3. CASE a = at
    <3>1. p \in Counting(a)
      BY <1>1, <1>3, <2>3 DEF Counting, Counts
    <3>2. Cardinality(Counting(a)') = Cardinality(Counting(a)) - 1
      BY <2>1, <3>1, FinitePasses, FS_RemoveElement
    <3>3. attempts'[a] = attempts[a] + 1
      BY <1>1, <2>3 DEF PassTypes
    <3> QED
      BY <2>2, <3>2, <3>3, FinitePasses
  <2>4. CASE a # at
    <3>1. Counting(a)' = Counting(a) /\ attempts'[a] = attempts[a]
      BY <1>1, <1>3, <2>1, <2>4 DEF Counting, Counts, PassTypes
    <3> QED
      BY <2>2, <3>1
  <2> QED
    BY <2>3, <2>4
<1> QED
  BY <1>1, <1>4 DEF Account

LEMMA AccountKeeps ==
  ASSUME PassTypes, PassesSound, Account, SupNext
  PROVE  Account'
<1>1. CASE UNCHANGED <<audit, attempts, replaced>>
  <2>1. \A a \in Agents : Counting(a)' = Counting(a)
    BY <1>1 DEF Counting
  <2> QED
    BY <1>1, <2>1, AccountStays
<1>2. ASSUME NEW p \in Audits, Audit(p) \/ AuditFails(p), ~AuditSpawns(p), ~AuditCounts(p) PROVE Account'
  <2>1. PICK pass \in Passes : audit' = [audit EXCEPT ![p] = pass] /\ PassGoes(p, pass)
    BY <1>2, AuditGoes
  <2>2. UNCHANGED <<attempts, replaced>>
    BY <1>2 DEF Audit, AuditStarts, AuditSweeps, AuditCloses, AuditSeesOthers, AuditSeesPending, AuditRecovers,
       AuditResolves, AuditFinishesTask, AuditFinishesAgent, AuditKills, AuditJudges, AuditLooks, AuditFails, Tally
  <2>3. pass.pc # "count"
    <3>1. \A q \in Passes : Turn(q).pc # "count"
      BY TurnKeeps DEF NoAudit
    <3>2. Started \in Passes /\ audit[p] \in Passes
      BY StartedIsPass DEF PassTypes
    <3> QED
      BY <1>2, <2>1, <3>1, <3>2 DEF PassGoes, Goes, NoAudit
  <2>4. \A a \in Agents : Counting(a)' \subseteq Counting(a)
    <3>1. ASSUME NEW a \in Agents PROVE Counting(a)' \subseteq Counting(a)
      <4>1. Counting(a)' = (Counting(a) \ {p}) \cup (IF Counts(pass, a) THEN {p} ELSE {})
        BY <2>1, OnePass
      <4> QED
        BY <2>3, <4>1 DEF Counts
    <3> QED
      BY <3>1
  <2> QED
    BY <2>2, <2>4, AccountStays
<1>3. CASE GateStep \/ \E a \in Agents : Hang(a)
  BY <1>1, <1>3 DEF GateStep, Hang, Tally
<1>4. ASSUME NEW o \in Operators, Order(o) \/ Obey(o) PROVE Account'
  <2>1. UNCHANGED <<audit, attempts, replaced>>
    BY <1>4, OrderIsQuiet DEF Order
  <2> QED
    BY <1>1, <2>1
<1> QED
  BY <1>2, <1>3, <1>4, AccountSpawns, AccountCounts DEF SupNext, Supervise

FinalsOK == finalized \subseteq Existing /\ unsettled \subseteq Existing /\ raced \in BOOLEAN

SupInv == GateRows /\ BudgetInv /\ Callers /\ Account /\ FinalsOK

LEMMA FinalizingExist == ASSUME PassesAt PROVE Finalizing \subseteq Existing
  BY DEF Finalizing, PassesAt, At

LEMMA FinalsStay ==
  ASSUME FinalsOK, PassesAt, Existing \subseteq Existing', SupNext
  PROVE  FinalsOK'
<1>1. raced' \in BOOLEAN
  BY DEF SupNext, FinalsOK
<1>2. finalized' \subseteq Existing /\ unsettled' \subseteq Existing
  <2>1. CASE GateStep
    BY <2>1, FinalizingExist DEF GateStep, FinalsOK
  <2>2. ASSUME NEW p \in Audits, Audit(p) \/ AuditFails(p) PROVE finalized' \subseteq Existing /\ unsettled' \subseteq Existing
    <3>1. CASE AuditFinishesTask(p)
      BY <3>1 DEF AuditFinishesTask, PassesAt, At, FinalsOK
    <3>2. CASE ~AuditFinishesTask(p)
      <4>1. UNCHANGED <<finalized, unsettled>>
        BY <2>2, <3>2 DEF Audit, AuditStarts, AuditSweeps, AuditCloses, AuditSeesOthers, AuditSeesPending,
           AuditRecovers, AuditResolves, AuditFinishesAgent, AuditKills, AuditJudges, AuditLooks, AuditSpawns,
           AuditCounts, AuditFails, Tally
      <4> QED
        BY <4>1 DEF FinalsOK
    <3> QED
      BY <3>1, <3>2
  <2>3. ASSUME NEW a \in Agents, Hang(a) PROVE UNCHANGED <<finalized, unsettled>>
    BY <2>3 DEF Hang, Tally
  <2>4. ASSUME NEW o \in Operators, Order(o) \/ Obey(o) PROVE UNCHANGED <<finalized, unsettled>>
    BY <2>4 DEF Order, Obey, ReadTask, StopProcess, StopTask, StopAgent, Reassign, SpawnAgain, Tally
  <2> QED
    BY <2>1, <2>2, <2>3, <2>4 DEF SupNext, Supervise, FinalsOK
<1> QED
  BY <1>1, <1>2 DEF FinalsOK

\* Who takes a step of a pass, and of a call.
LEMMA WhoActs ==
  ASSUME SupNext
  PROVE  /\ audit' = audit \/ \E p \in Audits : Audit(p) \/ AuditFails(p)
         /\ order' = order \/ \E o \in Operators : Order(o) \/ Obey(o)
<1>1. ASSUME NEW p \in Audits, Audit(p) \/ AuditFails(p) PROVE order' = order
  BY <1>1 DEF Audit, AuditStarts, AuditSweeps, AuditCloses, AuditSeesOthers, AuditSeesPending, AuditRecovers,
     AuditResolves, AuditFinishesTask, AuditFinishesAgent, AuditKills, AuditJudges, AuditLooks, AuditSpawns,
     AuditCounts, AuditFails
<1>2. ASSUME NEW o \in Operators, Order(o) \/ Obey(o) PROVE audit' = audit
  BY <1>2, OrderIsQuiet DEF Order
<1>3. CASE GateStep \/ \E a \in Agents : Hang(a)
  BY <1>3 DEF GateStep, Hang
<1> QED
  BY <1>1, <1>2, <1>3 DEF SupNext, Supervise

LEMMA SupInvKept ==
  ASSUME SupInv, SupNext
  PROVE  SupInv' /\ Existing \subseteq Existing'
<1> USE DEF SupInv, GateRows, Callers
<1>1. GateInv' /\ Existing \subseteq Existing'
  BY SupMoves
<1>2. AbsentRest'
  BY AbsentStays
<1>3. BudgetInv'
  BY StepKeeps
<1>4. PassesAt'
  BY <1>1, WhoActs, PassesStayAt DEF BudgetInv
<1>5. OrdersOK'
  BY <1>1, WhoActs, OrdersStay DEF BudgetInv, PassTypes
<1>6. Account'
  BY AccountKeeps DEF BudgetInv
<1>7. FinalsOK'
  BY <1>1, FinalsStay
<1> QED
  BY <1>1, <1>2, <1>3, <1>4, <1>5, <1>6, <1>7

LEMMA SupInvStays ==
  ASSUME SupInv, UNCHANGED allVars
  PROVE  SupInv'
<1>1. UNCHANGED <<task, agent, runner, change, access, leases, request, calls, scene, ticket, noted, learned,
                  audit, attempts, order, spent, replaced, finalized, unsettled, raced>>
  BY DEF allVars, vars, desk, supVars
<1>2. GateRows'
  BY <1>1 DEF SupInv, GateRows, GateInv, DeskOK, RunsOK, GatesOK, HandlersOK, AbsentRest, Existing
<1>3. Callers'
  BY <1>1 DEF SupInv, Callers, PassesAt, At, OrdersOK, Existing
<1>4. Account'
  BY <1>1 DEF SupInv, Account, Counting
<1>5. FinalsOK'
  BY <1>1 DEF SupInv, FinalsOK, Existing
<1>6. BudgetInv'
  BY <1>1, QuietKeeps DEF SupInv, BudgetInv, PassTypes
<1> QED
  BY <1>2, <1>3, <1>4, <1>5, <1>6 DEF SupInv

LEMMA InitGates == SupInit => GateRows
<1> SUFFICES ASSUME SupInit PROVE GateRows
  OBVIOUS
<1>1. Init
  BY DEF SupInit
<1>2. task \in [Agents -> Rows] /\ agent = task
  BY <1>1 DEF Init, Rows
<1>3. /\ runner \in [Agents -> Runs]
      /\ \A a \in Agents : /\ runner[a].pc # "exited"
                           /\ a # 1 => runner[a].pc = "none" /\ agent[a] = "absent"
                           /\ a = 1 => agent[a] = "active"
  <2>1. NoRun \in Runs /\ NoRun.pc = "none"
    BY DEF NoRun, Runs, RunnerPcs, Outcomes
  <2>2. [NoRun EXCEPT !.pc = "working"] \in Runs /\ [NoRun EXCEPT !.pc = "working"].pc = "working"
    BY <2>1 DEF Runs, RunnerPcs, Alive
  <2> QED
    BY <1>1, <2>1, <2>2 DEF Init
<1>4. DeskOK
  BY <1>1, <1>2 DEF DeskOK, Init
<1>5. GatesOK
  <2>1. [status |-> "absent", agent |-> NoAgent] \in Gates
    BY DEF Gates, ChangeStatus
  <2> QED
    BY <1>1, <2>1 DEF GatesOK, Init, AccessStatus
<1>6. HandlersOK
  <2>1. NoCall \in Handlers /\ NoCall.pc = "idle"
    BY DEF NoCall, Handlers, RequestPcs, Calls
  <2>2. scene.calls \in Nat
    BY <1>1, GateAssumption DEF Init
  <2> QED
    BY <1>1, <2>1, <2>2 DEF HandlersOK, Init
<1>7. AbsentRest
  BY <1>2, <1>3 DEF AbsentRest
<1> QED
  BY <1>3, <1>4, <1>5, <1>6, <1>7 DEF GateRows, GateInv, RunsOK

LEMMA InitSup == SupInit => SupInv
<1> SUFFICES ASSUME SupInit PROVE SupInv
  OBVIOUS
<1>1. audit = [p \in Audits |-> NoAudit] /\ order = [o \in Operators |-> NoOrder]
  BY DEF SupInit
<1>2. PassesAt
  BY <1>1, NoAuditIsPass DEF PassesAt, At, NoAudit, Unseen
<1>3. OrdersOK
  <2>1. NoOrder \in Orders /\ NoOrder.pc = "idle"
    BY DEF NoOrder, Orders, OrderPcs
  <2> QED
    BY <1>1, <2>1 DEF OrdersOK
<1>4. Account
  <2>1. ASSUME NEW a \in Agents PROVE attempts[a] + Cardinality(Counting(a)) <= replaced[a]
    <3>1. attempts[a] = 0 /\ replaced[a] = 0
      BY DEF SupInit, Untried
    <3>2. \A p \in Audits : audit[p].pc = "idle"
      BY <1>1 DEF NoAudit
    <3>3. Counting(a) = {}
      BY <3>2 DEF Counting, Counts
    <3>4. Cardinality({}) = 0
      BY FS_EmptySet
    <3> QED
      BY <3>1, <3>3, <3>4
  <2> QED
    BY <2>1 DEF Account
<1>5. FinalsOK
  BY DEF SupInit, FinalsOK
<1> QED
  BY <1>2, <1>3, <1>4, <1>5, InitGates, InitBudget DEF SupInv, Callers

LEMMA SupInvTypes == SupInv => SupervisionTypeOK
<1> SUFFICES ASSUME SupInv PROVE SupervisionTypeOK
  OBVIOUS
<1>1. GateTypeOK
  BY GateInvTypes DEF SupInv, GateRows
<1>2. ASSUME NEW a \in Agents PROVE attempts[a] <= replaced[a]
  <2>1. /\ attempts[a] \in Nat /\ replaced[a] \in Nat
        /\ attempts[a] + Cardinality(Counting(a)) <= replaced[a]
    BY DEF SupInv, Account, BudgetInv, PassTypes
  <2> QED
    BY <2>1, FinitePasses
<1>3. attempts \in [Agents -> Nat] /\ replaced \in [Agents -> Nat] /\ audit \in [Audits -> Passes]
  BY DEF SupInv, BudgetInv, PassTypes
<1>4. \A p \in Audits : audit[p].pc # "idle" => audit[p].at \in Existing
  BY DEF SupInv, Callers, PassesAt, At
<1>5. order \in [Operators -> Orders]
  BY DEF SupInv, Callers, OrdersOK
<1> QED
  BY <1>1, <1>2, <1>3, <1>4, <1>5 DEF SupervisionTypeOK, SupInv, FinalsOK, Passes, Orders

\* The types of the gates, the passes and the calls hold, for every scene: a handler never
\* decides on a gate that nobody opened, a pass and a call are at an agent that is there,
\* and no attempt is counted that replaced nobody.
THEOREM SupervisionTyped == SupSpec => []SupervisionTypeOK
<1>1. SupInv /\ [SupNext]_allVars => SupInv'
  BY SupInvKept, SupInvStays
<1> QED
  BY <1>1, InitSup, SupInvTypes, PTL DEF SupSpec

-----------------------------------------------------------------------------
(* Work that was finalized stays so.                                       *)

Unread == Alive \cup {"exited", "evidence"}
Decided == {"gates", "others", "spawn", "resolve", "writeTask"}
Written == {"writeAgent", "sweep", "park", "close", "report", "settle", "ended"}

\* The run of a finalized agent finds the evidence as long as it has not looked; after
\* that it does not fail, and writes its rows as done or as a wait.
Firm(a) ==
  /\ runner[a].pc \in Unread => TerminalEvidence(a)
  /\ runner[a].pc \in Decided => runner[a].outcome # "failed"
  /\ task[a] \in {"completed", "stopped"} \/ (runner[a].pc \in Written /\ runner[a].outcome = "waiting")
\* The evidence is there while a pass acts on it, unless a gate has moved since.
Grounded(a) == TerminalEvidence(a) \/ a \in unsettled \/ runner[a].pc = "ended"

FinalInv ==
  /\ \A a \in finalized \ unsettled : Firm(a)
  /\ \A p \in Audits : audit[p].pc \in {"resolve", "finishTask"} => Grounded(audit[p].at)

\* Notes, postmortems and moves of a gate accumulate.
LEMMA NextGathers ==
  ASSUME Next
  PROVE  noted \subseteq noted' /\ learned \subseteq learned'
<1> USE DEF FinalNote, desk
<1>1. ASSUME NEW a \in Agents, Work(a) \/ AgentExits(a) PROVE noted \subseteq noted' /\ learned \subseteq learned'
  BY <1>1 DEF Work, RequestChange, AgentReports, AgentLearns, AgentResolves, AgentExits
<1>2. ASSUME NEW a \in Agents, Finish(a) PROVE noted \subseteq noted' /\ learned \subseteq learned'
  <2>1. CASE OpenAccess(a) \/ ReadStopped(a) \/ ReadGates(a) \/ CheckOthers(a) \/ SpawnContinuation(a)
    BY <2>1 DEF OpenAccess, ReadStopped, ReadGates, CheckOthers, SpawnContinuation, SpawnRows
  <2>2. CASE ReadEvidence(a) \/ ResolveRecovered(a) \/ WriteTask(a) \/ WriteAgent(a) \/ ParkTicket(a)
    BY <2>2 DEF ReadEvidence, ResolveRecovered, TicketResolved, WriteTask, WriteAgent, ParkTicket
  <2>3. CASE SweepChanges(a) \/ CloseChange(a) \/ ReportDone(a) \/ SettleTicket(a)
    BY <2>3 DEF SweepChanges, CloseChange, ReportDone, SettleTicket
  <2> QED
    BY <1>2, <2>1, <2>2, <2>3 DEF Finish
<1>3. ASSUME NEW r \in Requests, Call(r) \/ Handle(r) PROVE noted \subseteq noted' /\ learned \subseteq learned'
  BY <1>3 DEF Call, Handle, ReadChange, WriteChange, SyncAccess, GrantLease, ResumeOwn, ResumeTicket,
     ResumeSpawn, SpawnRows, HandAgent, HandTask
<1> QED
  BY <1>1, <1>2, <1>3 DEF Next

LEMMA SupGathers ==
  ASSUME SupInv, SupNext
  PROVE  /\ noted \subseteq noted' /\ learned \subseteq learned' /\ unsettled \subseteq unsettled'
         /\ GatesMove => \A a \in finalized \cup Finalizing : runner[a].pc = "ended" \/ a \in unsettled'
<1> USE DEF FinalNote, desk, Tally, Ticket
<1>1. CASE GateStep
  BY <1>1, NextGathers DEF GateStep
<1>2. change' = change => ~GatesMove
  BY DEF GatesMove
<1>3. ASSUME NEW p \in Audits, Audit(p) \/ AuditFails(p)
      PROVE  noted \subseteq noted' /\ learned \subseteq learned' /\ unsettled \subseteq unsettled' /\ ~GatesMove
  <2>1. CASE AuditCloses(p)
    <3>1. PICK c \in audit[p].todo : change' = Closed(c)
      BY <2>1 DEF AuditCloses
    <3>2. c \in Changes /\ change \in [Changes -> Gates]
      BY <3>1 DEF SupInv, Callers, PassesAt, Passes, GateRows, GateInv, GatesOK
    <3>3. \A d \in Changes : change'[d].status \in {change[d].status, "completed"}
      BY <3>1, <3>2 DEF Closed, Gates
    <3> QED
      BY <2>1, <3>3 DEF AuditCloses, GatesMove
  <2>2. CASE AuditStarts(p) \/ AuditSweeps(p) \/ AuditSeesOthers(p) \/ AuditSeesPending(p) \/ AuditRecovers(p)
    BY <1>2, <2>2 DEF AuditStarts, AuditSweeps, AuditSeesOthers, AuditSeesPending, AuditRecovers
  <2>3. CASE AuditResolves(p) \/ AuditFinishesTask(p) \/ AuditFinishesAgent(p) \/ AuditKills(p)
    BY <1>2, <2>3 DEF AuditResolves, TicketResolved, AuditFinishesTask, AuditFinishesAgent, AuditKills
  <2>4. CASE AuditJudges(p) \/ AuditLooks(p) \/ AuditSpawns(p) \/ AuditCounts(p) \/ AuditFails(p)
    BY <1>2, <2>4 DEF AuditJudges, AuditLooks, AuditSpawns, SpawnRows, AuditCounts, AuditFails
  <2> QED
    BY <1>3, <2>1, <2>2, <2>3, <2>4 DEF Audit
<1>4. ASSUME NEW o \in Operators, Order(o) \/ Obey(o)
      PROVE  noted \subseteq noted' /\ learned \subseteq learned' /\ unsettled \subseteq unsettled' /\ ~GatesMove
  BY <1>2, <1>4 DEF Order, Obey, ReadTask, StopProcess, StopTask, StopAgent, Reassign, SpawnAgain, SpawnRows
<1>5. ASSUME NEW a \in Agents, Hang(a)
      PROVE  noted \subseteq noted' /\ learned \subseteq learned' /\ unsettled \subseteq unsettled' /\ ~GatesMove
  BY <1>2, <1>5 DEF Hang
<1> QED
  BY <1>1, <1>3, <1>4, <1>5 DEF SupNext, Supervise

LEMMA EvidenceStands ==
  ASSUME noted \subseteq noted', learned \subseteq learned', ~GatesMove, NEW a, TerminalEvidence(a)
  PROVE  TerminalEvidence(a)'
<1>1. \A c \in Changes : change'[c].status \in {change[c].status, "completed"}
  BY DEF GatesMove
<1>2. OpenChanges' \subseteq OpenChanges /\ Completed \subseteq Completed'
  BY <1>1 DEF OpenChanges, Completed
<1> QED
  BY <1>2 DEF TerminalEvidence

\* A run that has ended stays so.
LEMMA EndedStays ==
  ASSUME SupInv, SupNext, NEW a \in Existing, runner[a].pc = "ended"
  PROVE  runner'[a].pc = "ended"
<1>1. SupSteps(a)
  BY SupMoves DEF SupInv, GateRows, Existing
<1> QED
  BY <1>1 DEF SupSteps, Hangs, Steps, Begins, RowsStay, RunStays, RunIsJudged, RunIsWritten, Alive

LEMMA GroundedStays ==
  ASSUME SupInv, SupNext, NEW a \in Existing, Grounded(a), ~GatesMove \/ a \in Finalizing
  PROVE  Grounded(a)'
<1>1. CASE a \in unsettled
  BY <1>1, SupGathers DEF Grounded
<1>2. CASE runner[a].pc = "ended"
  BY <1>2, EndedStays DEF Grounded
<1>3. CASE TerminalEvidence(a) /\ ~GatesMove
  BY <1>3, SupGathers, EvidenceStands DEF Grounded
<1>4. CASE a \in Finalizing /\ GatesMove
  BY <1>2, <1>4, SupGathers DEF Grounded
<1> QED
  BY <1>1, <1>2, <1>3, <1>4 DEF Grounded

LEMMA PassesGrounded ==
  ASSUME SupInv, FinalInv, SupNext, NEW p \in Audits, audit'[p].pc \in {"resolve", "finishTask"}
  PROVE  Grounded(audit[p].at)'
<1>1. PICK a : a = audit'[p].at
  OBVIOUS
<1>2. CASE audit[p].pc \in {"resolve", "finishTask"} /\ a = audit[p].at
  <2>1. Grounded(a) /\ a \in Finalizing /\ a \in Existing
    BY <1>2 DEF FinalInv, Finalizing, SupInv, Callers, PassesAt, At
  <2>2. Grounded(a)'
    BY <2>1, GroundedStays
  <2> QED
    BY <1>1, <2>2 DEF Grounded, TerminalEvidence
<1>3. CASE TerminalEvidence(a) /\ UNCHANGED vars
  <2>1. UNCHANGED <<change, noted, learned>>
    BY <1>3 DEF vars, desk
  <2>2. TerminalEvidence(a)'
    BY <1>3, <2>1 DEF TerminalEvidence, OpenChanges, Completed
  <2> QED
    BY <1>1, <2>2 DEF Grounded, TerminalEvidence
<1>4. CASE audit' = audit
  BY <1>1, <1>2, <1>4
<1>5. ASSUME NEW q \in Audits, Audit(q) \/ AuditFails(q)
      PROVE  \/ audit[p].pc \in {"resolve", "finishTask"} /\ a = audit[p].at
             \/ TerminalEvidence(a) /\ UNCHANGED vars
  <2>1. PICK pass \in Passes : audit' = [audit EXCEPT ![q] = pass] /\ PassGoes(q, pass)
    BY <1>5, AuditGoes DEF SupInv, BudgetInv
  <2>2. CASE p # q
    BY <1>1, <2>1, <2>2 DEF SupInv, BudgetInv, PassTypes
  <2>3. CASE p = q
    <3>1. audit'[p] = pass /\ a = pass.at /\ pass.pc \in {"resolve", "finishTask"}
      BY <1>1, <2>1, <2>3 DEF SupInv, BudgetInv, PassTypes
    <3>2. pass # NoAudit
      BY <3>1 DEF NoAudit
    <3>3. \A r \in Passes : Turn(r).pc \notin {"resolve", "finishTask"}
      BY TurnKeeps DEF NoAudit
    <3>4. Started \in Passes /\ audit[p] \in Passes
      BY StartedIsPass DEF SupInv, BudgetInv, PassTypes
    <3> QED
      BY <2>1, <2>3, <3>1, <3>2, <3>3, <3>4 DEF PassGoes, Goes
  <2> QED
    BY <2>2, <2>3
<1> QED
  BY <1>2, <1>3, <1>4, <1>5, WhoActs

LEMMA FirmStays ==
  ASSUME SupInv, SupNext, NEW a \in finalized, a \notin unsettled', Firm(a)
  PROVE  Firm(a)'
<1>1. a \in Existing /\ a \in Agents
  BY DEF SupInv, FinalsOK, Existing
<1>2. SupSteps(a) /\ ~Begins(a)
  BY <1>1, SupMoves DEF SupInv, GateRows, Begins
<1>3. GatesMove => runner[a].pc = "ended"
  BY SupGathers
<1>4. runner'[a].pc \in Unread => runner[a].pc \in Unread
  BY <1>2 DEF SupSteps, Hangs, Steps, RunStays, RunIsJudged, RunIsWritten, Unread, Alive
<1>5. runner'[a].pc \in Unread => TerminalEvidence(a)'
  <2>1. SUFFICES ASSUME runner'[a].pc \in Unread PROVE TerminalEvidence(a)'
    OBVIOUS
  <2>2. runner[a].pc # "ended"
    BY <1>4, <2>1 DEF Unread, Alive
  <2>3. TerminalEvidence(a) /\ ~GatesMove
    BY <1>3, <1>4, <2>1, <2>2 DEF Firm
  <2> QED
    BY <2>3, SupGathers, EvidenceStands
<1>6. runner'[a].pc \in Decided => runner'[a].outcome # "failed"
  BY <1>2 DEF Firm, SupSteps, Hangs, Steps, RunStays, RunIsJudged, RunIsWritten, Unread, Decided, Alive
<1>7. task'[a] \in {"completed", "stopped"} \/ (runner'[a].pc \in Written /\ runner'[a].outcome = "waiting")
  <2>1. runner[a].pc \in Written => runner'[a].pc \in Written /\ runner'[a].outcome = runner[a].outcome
    BY <1>2 DEF SupSteps, Hangs, Steps, RunStays, RunIsJudged, RunIsWritten, Written, Alive
  <2>2. CASE task'[a] = task[a]
    BY <2>1, <2>2 DEF Firm
  <2>3. CASE runner[a].pc = "writeTask" /\ runner'[a].pc = "writeAgent" /\ task'[a] = RowOf(runner[a].outcome)
    <3>1. runner'[a].outcome = runner[a].outcome /\ runner[a].outcome # "failed" /\ runner[a].outcome \in Outcomes
      BY <1>1, <1>2, <2>3 DEF SupSteps, Hangs, Steps, RowsStay, RunStays, RunIsJudged, RunIsWritten, Alive,
         Firm, Decided, SupInv, GateRows, GateInv, RunsOK, Runs
    <3> QED
      BY <2>3, <3>1 DEF RowOf, Outcomes, Written
  <2> QED
    BY <1>2, <2>2, <2>3 DEF SupSteps, Hangs, Steps, RowsStay, RowsGo, RowsEnd
<1> QED
  BY <1>5, <1>6, <1>7 DEF Firm

LEMMA FinalInvKept ==
  ASSUME SupInv, FinalInv, SupNext
  PROVE  FinalInv'
<1>1. ASSUME NEW a \in finalized', a \notin unsettled' PROVE Firm(a)'
  <2>1. CASE a \in finalized
    <3>1. a \notin unsettled
      BY <1>1, SupGathers
    <3> QED
      BY <1>1, <2>1, <3>1, FirmStays DEF FinalInv
  <2>2. CASE a \notin finalized
    <3>1. PICK p \in Audits : AuditFinishesTask(p) /\ a = audit[p].at
      <4>1. \A o \in Operators : Order(o) \/ Obey(o) => finalized' = finalized
        BY DEF Order, Obey, ReadTask, StopProcess, StopTask, StopAgent, Reassign, SpawnAgain, Tally
      <4>2. \A b \in Agents : Hang(b) => finalized' = finalized
        BY DEF Hang, Tally
      <4>3. \A q \in Audits : (Audit(q) \/ AuditFails(q)) /\ ~AuditFinishesTask(q) => finalized' = finalized
        BY DEF Audit, AuditStarts, AuditSweeps, AuditCloses, AuditSeesOthers, AuditSeesPending, AuditRecovers,
           AuditResolves, AuditFinishesAgent, AuditKills, AuditJudges, AuditLooks, AuditSpawns, AuditCounts,
           AuditFails, Tally
      <4>4. GateStep => finalized' = finalized
        BY DEF GateStep
      <4>5. \A q \in Audits : AuditFinishesTask(q) => finalized' = finalized \cup {audit[q].at}
        BY DEF AuditFinishesTask
      <4> QED
        BY <1>1, <2>2, <4>1, <4>2, <4>3, <4>4, <4>5 DEF SupNext, Supervise
    <3>2. /\ audit[p].pc = "finishTask" /\ task' = [task EXCEPT ![a] = "completed"]
          /\ UNCHANGED <<runner, change, noted, learned>>
          /\ unsettled' = IF runner[a].pc \in Alive THEN unsettled ELSE unsettled \cup {a}
      BY <3>1 DEF AuditFinishesTask, Ticket, desk
    <3>3. a \in Agents /\ task \in [Agents -> Rows]
      BY <3>1, <3>2 DEF SupInv, Callers, PassesAt, At, Existing, GateRows, GateInv, DeskOK
    <3>4. runner[a].pc \in Alive /\ a \notin unsettled
      BY <1>1, <3>2
    <3>5. TerminalEvidence(a)
      BY <3>1, <3>2, <3>4 DEF FinalInv, Grounded, Alive
    <3>6. TerminalEvidence(a)'
      BY <3>2, <3>5 DEF TerminalEvidence, OpenChanges, Completed
    <3> QED
      BY <3>2, <3>3, <3>4, <3>6 DEF Firm, Decided, Alive
  <2> QED
    BY <2>1, <2>2
<1>2. ASSUME NEW p \in Audits, audit'[p].pc \in {"resolve", "finishTask"} PROVE Grounded(audit[p].at)'
  BY <1>2, PassesGrounded
<1> QED
  BY <1>1, <1>2 DEF FinalInv

LEMMA FinalInvStays ==
  ASSUME FinalInv, UNCHANGED allVars
  PROVE  FinalInv'
<1>1. UNCHANGED <<task, runner, change, noted, learned, audit, finalized, unsettled>>
  BY DEF allVars, vars, desk, supVars
<1>2. \A a : TerminalEvidence(a)' <=> TerminalEvidence(a)
  BY <1>1 DEF TerminalEvidence, OpenChanges, Completed
<1> QED
  BY <1>1, <1>2 DEF FinalInv, Firm, Grounded, TerminalEvidence, OpenChanges, Completed

\* Work that the auditor finalized stays finalized, whatever the runner of the agent does
\* when it sees the process die: it finds the evidence the auditor found, or a gate moved
\* between the two, or the agent left a wait checkpoint.
THEOREM FinalizedKept == SupSpec => []FinalizedStays
<1>1. SupInit => FinalInv
  BY DEF SupInit, FinalInv, NoAudit
<1>2. SupInv /\ FinalInv /\ [SupNext]_allVars => FinalInv'
  BY FinalInvKept, FinalInvStays
<1>3. SupInv /\ [SupNext]_allVars => SupInv'
  BY SupInvKept, SupInvStays
<1>4. FinalInv => FinalizedStays
  BY DEF FinalInv, Firm, FinalizedStays
<1> QED
  BY <1>1, <1>2, <1>3, <1>4, InitSup, PTL DEF SupSpec

-----------------------------------------------------------------------------
(* One agent at work.                                                      *)

\* The row of an agent outlives that of its task.
RowsNested ==
  /\ \A a \in Agents : task[a] = "active" => agent[a] = "active"
  /\ \A a \in Agents : runner[a].pc = "writeAgent" => task[a] # "active"
  /\ \A p \in Audits : audit[p].pc = "finishAgent" => task[audit[p].at] # "active"
  /\ \A o \in Operators : order[o].pc = "stopAgent" => task[order[o].agent] # "active"

\* What a spawner saw when it looked still holds.
Looked ==
  /\ \A r \in Requests : request[r].pc = "resumeSpawn" => \A b \in Agents : agent[b] # "active"
  /\ \A a \in Agents : runner[a].pc = "spawn" => \A b \in Agents \ {a} : agent[b] # "active"
  /\ \A p \in Audits : audit[p].pc = "spawn" => \A b \in Agents \ {audit[p].at} : agent[b] # "active"

\* Two agents at work are an agent that was replaced and its replacement.
Paired ==
  \A a, b \in Agents :
    /\ a # b /\ agent[a] = "active" /\ agent[b] = "active"
    /\ runner[a].pc \in Alive /\ runner[b].pc \in Alive
    => replaced[a] + replaced[b] > 0

OneInv == RowsNested /\ (raced \/ (Looked /\ Paired /\ ~Overlap))

SpawnsNow ==
  \/ \E a \in Agents : GateStep /\ SpawnContinuation(a)
  \/ \E r \in Requests : GateStep /\ ResumeSpawn(r)
  \/ \E p \in Audits : AuditSpawns(p)
  \/ \E o \in Operators : SpawnAgain(o)

\* Nobody else makes an agent active.
LEMMA ActiveBegins ==
  ASSUME SupInv, SupNext
  PROVE  SpawnsNow \/ \A b \in Agents : agent'[b] = "active" => agent[b] = "active"
<1> DEFINE Shrinks == \A b \in Agents : agent'[b] = "active" => agent[b] = "active"
<1>0. agent \in [Agents -> Rows]
  BY DEF SupInv, GateRows, GateInv, DeskOK
<1>1. ASSUME NEW x, NEW v, v # "active", agent' = [agent EXCEPT ![x] = v] PROVE Shrinks
  BY <1>0, <1>1
<1>2. ASSUME agent' = agent PROVE Shrinks
  BY <1>2
<1> HIDE DEF Shrinks
<1>3. CASE GateStep
  <2>1. ASSUME NEW a \in Agents, Work(a) \/ AgentExits(a) PROVE agent' = agent
    BY <2>1 DEF Work, RequestChange, AgentReports, AgentLearns, AgentResolves, AgentExits
  <2>2. ASSUME NEW a \in Agents, Finish(a) PROVE SpawnContinuation(a) \/ Shrinks
    <3>1. CASE WriteAgent(a)
      <4>1. agent' = [agent EXCEPT ![a] = RowOf(runner[a].outcome)] /\ runner[a].outcome \in Outcomes
        BY <3>1 DEF WriteAgent, SupInv, GateRows, GateInv, RunsOK, Runs
      <4>2. RowOf(runner[a].outcome) # "active"
        BY <4>1 DEF RowOf, Outcomes
      <4> QED
        BY <1>1, <4>1, <4>2
    <3>2. CASE ~WriteAgent(a) /\ ~SpawnContinuation(a)
      <4>1. agent' = agent
        BY <2>2, <3>2 DEF Finish, OpenAccess, ReadStopped, ReadGates, CheckOthers, ReadEvidence, ResolveRecovered,
           WriteTask, ParkTicket, SweepChanges, CloseChange, ReportDone, SettleTicket
      <4> QED
        BY <1>2, <4>1
    <3> QED
      BY <3>1, <3>2
  <2>3. ASSUME NEW r \in Requests, Call(r) \/ Handle(r) PROVE ResumeSpawn(r) \/ Shrinks
    <3>1. CASE HandAgent(r)
      <4>1. agent' = [agent EXCEPT ![Owner(r)] = HandedOff(@)]
        BY <3>1 DEF HandAgent
      <4> QED
        BY <1>0, <4>1 DEF HandedOff, Shrinks
    <3>2. CASE ~HandAgent(r) /\ ~ResumeSpawn(r)
      <4>1. agent' = agent
        BY <2>3, <3>2 DEF Call, Handle, ReadChange, WriteChange, SyncAccess, GrantLease, ResumeOwn, ResumeTicket, HandTask
      <4> QED
        BY <1>2, <4>1
    <3> QED
      BY <3>1, <3>2
  <2> QED
    BY <1>2, <1>3, <2>1, <2>2, <2>3 DEF GateStep, Next, SpawnsNow, Shrinks
<1>4. ASSUME NEW p \in Audits, Audit(p) \/ AuditFails(p) PROVE AuditSpawns(p) \/ Shrinks
  <2>1. CASE AuditFinishesAgent(p)
    <3>1. agent' = [agent EXCEPT ![audit[p].at] = "completed"]
      BY <2>1 DEF AuditFinishesAgent
    <3> QED
      BY <1>1, <3>1
  <2>2. CASE ~AuditFinishesAgent(p) /\ ~AuditSpawns(p)
    <3>1. agent' = agent
      BY <1>4, <2>2 DEF Audit, AuditStarts, AuditSweeps, AuditCloses, AuditSeesOthers, AuditSeesPending,
         AuditRecovers, AuditResolves, AuditFinishesTask, AuditKills, AuditJudges, AuditLooks, AuditCounts, AuditFails
    <3> QED
      BY <1>2, <3>1
  <2> QED
    BY <2>1, <2>2
<1>5. ASSUME NEW o \in Operators, Order(o) \/ Obey(o) PROVE SpawnAgain(o) \/ Shrinks
  <2>1. CASE StopAgent(o)
    <3>1. agent' = [agent EXCEPT ![order[o].agent] = "stopped"]
      BY <2>1 DEF StopAgent
    <3> QED
      BY <1>1, <3>1
  <2>2. CASE ~StopAgent(o) /\ ~SpawnAgain(o)
    <3>1. agent' = agent
      BY <1>5, <2>2 DEF Order, Obey, ReadTask, StopProcess, StopTask, Reassign
    <3> QED
      BY <1>2, <3>1
  <2> QED
    BY <2>1, <2>2
<1>6. ASSUME NEW a \in Agents, Hang(a) PROVE agent' = agent
  BY <1>6 DEF Hang
<1> QED
  BY <1>2, <1>3, <1>4, <1>5, <1>6 DEF SupNext, Supervise, SpawnsNow, Shrinks

LEMMA TaskEnds ==
  ASSUME SupInv, SupNext, NEW a \in Existing, task[a] # "active"
  PROVE  task'[a] # "active"
<1>1. SupSteps(a) /\ ~Begins(a) /\ runner[a].outcome \in Outcomes
  BY SupMoves DEF SupInv, GateRows, GateInv, RunsOK, Runs, Existing, Begins
<1> QED
  BY <1>1 DEF SupSteps, Hangs, Steps, RowsStay, RowsGo, RowsEnd, RowOf, Outcomes

\* A harness that runs after a step ran before it, or was started in it.
LEMMA AliveBefore ==
  ASSUME SupInv, SupNext, NEW a \in Agents, runner'[a].pc \in Alive
  PROVE  runner[a].pc \in Alive \/ Begins(a)
<1>1. SupSteps(a)
  BY SupMoves DEF SupInv, GateRows
<1> QED
  BY <1>1 DEF SupSteps, Hangs, Steps, RunStays, RunIsJudged, RunIsWritten, Alive

LEMMA PassFinishes ==
  ASSUME SupInv, SupNext, NEW p \in Audits, audit'[p].pc \in {"finishAgent", "spawn"}
  PROVE  \/ audit'[p].pc = audit[p].pc /\ audit'[p].at = audit[p].at
         \/ audit'[p].at = audit[p].at /\ AuditFinishesTask(p) /\ audit'[p].pc = "finishAgent"
         \/ audit'[p].at = audit[p].at /\ AuditLooks(p) /\ MaySpawn(p) /\ audit'[p].pc = "spawn"
<1>1. CASE audit' = audit
  BY <1>1
<1>2. ASSUME NEW q \in Audits, Audit(q) \/ AuditFails(q)
      PROVE  \/ audit'[p].pc = audit[p].pc /\ audit'[p].at = audit[p].at
             \/ audit'[p].at = audit[p].at /\ AuditFinishesTask(p) /\ audit'[p].pc = "finishAgent"
             \/ audit'[p].at = audit[p].at /\ AuditLooks(p) /\ MaySpawn(p) /\ audit'[p].pc = "spawn"
  <2>1. PICK pass \in Passes : audit' = [audit EXCEPT ![q] = pass] /\ PassGoes(q, pass)
    BY <1>2, AuditGoes DEF SupInv, BudgetInv
  <2>2. CASE p # q
    BY <2>1, <2>2 DEF SupInv, BudgetInv, PassTypes
  <2>3. CASE p = q
    <3>1. audit'[p] = pass /\ pass.pc \in {"finishAgent", "spawn"}
      BY <2>1, <2>3 DEF SupInv, BudgetInv, PassTypes
    <3>2. pass # NoAudit
      BY <3>1 DEF NoAudit
    <3>3. \A r \in Passes : Turn(r).pc \notin {"finishAgent", "spawn"}
      BY TurnKeeps DEF NoAudit
    <3>4. Started \in Passes /\ audit[p] \in Passes
      BY StartedIsPass DEF SupInv, BudgetInv, PassTypes
    <3> QED
      BY <2>1, <2>3, <3>1, <3>2, <3>3, <3>4 DEF PassGoes, Goes
  <2> QED
    BY <2>2, <2>3
<1> QED
  BY <1>1, <1>2, WhoActs

LEMMA OrderStops ==
  ASSUME SupInv, SupNext, NEW o \in Operators, order'[o].pc = "stopAgent"
  PROVE  /\ order'[o].agent = order[o].agent /\ order[o].pc # "idle"
         /\ \/ order[o].pc = "stopAgent"
            \/ task'[order[o].agent] # "active"
<1>1. order \in [Operators -> Orders] /\ task \in [Agents -> Rows]
  BY DEF SupInv, Callers, OrdersOK, GateRows, GateInv, DeskOK
<1>2. CASE order' = order
  BY <1>2
<1>3. ASSUME NEW w \in Operators, Order(w) \/ Obey(w), w # o PROVE order'[o] = order[o]
  BY <1>1, <1>3 DEF Order, Obey, ReadTask, StopProcess, StopTask, StopAgent, Reassign, SpawnAgain, Continue, Answer
<1>4. CASE Order(o)
  BY <1>1, <1>4 DEF Order
<1>5. CASE ReadTask(o)
  <2>1. order[o].pc = "task" /\ task' = task /\ order[o] \in Orders
    BY <1>1, <1>5 DEF ReadTask
  <2>2. \/ Answer(o) \/ Continue(o, "spawn") \/ Continue(o, "kill")
        \/ task[order[o].agent] # "active" /\ Continue(o, "stopAgent")
    BY <1>5 DEF ReadTask
  <2>3. ~Answer(o) /\ ~Continue(o, "spawn") /\ ~Continue(o, "kill")
    BY <1>1, <2>1 DEF Continue, Answer, NoOrder, Orders
  <2> QED
    BY <1>1, <2>1, <2>2, <2>3 DEF Continue, Orders
<1>6. CASE StopTask(o)
  <2>1. order[o].pc = "stopTask" /\ task' = [task EXCEPT ![order[o].agent] = "stopped"] /\ Continue(o, "stopAgent")
    BY <1>6 DEF StopTask
  <2>2. order[o].agent \in Agents
    BY <2>1 DEF SupInv, Callers, OrdersOK, Existing
  <2> QED
    BY <1>1, <2>1, <2>2 DEF Continue, Orders
<1>7. CASE StopProcess(o) \/ StopAgent(o) \/ Reassign(o) \/ SpawnAgain(o)
  BY <1>1, <1>7 DEF StopProcess, StopAgent, Reassign, SpawnAgain, Continue, Answer, NoOrder, Orders
<1> QED
  BY <1>2, <1>3, <1>4, <1>5, <1>6, <1>7, WhoActs DEF Obey

LEMMA NestedStays ==
  ASSUME SupInv, RowsNested, SupNext
  PROVE  RowsNested'
<1>1. ASSUME NEW a \in Agents PROVE SupSteps(a) /\ runner[a].outcome \in Outcomes
  BY SupMoves DEF SupInv, GateRows, GateInv, RunsOK, Runs
<1>2. ASSUME NEW a \in Agents, task'[a] = "active" PROVE agent'[a] = "active"
  <2>1. CASE Begins(a)
    BY <2>1 DEF Begins
  <2>2. CASE ~Begins(a)
    <3>1. task[a] = "active"
      BY <1>1, <1>2, <2>2 DEF SupSteps, Hangs, Steps, RowsStay, RowsGo, RowsEnd, RowOf, Outcomes
    <3>2. agent[a] = "active" /\ runner[a].pc # "writeAgent"
      BY <3>1 DEF RowsNested
    <3>3. ~RowsEnd(a) \/ agent'[a] = agent[a]
      BY <3>1 DEF RowsNested, RowsEnd
    <3> QED
      BY <1>1, <2>2, <3>2, <3>3 DEF SupSteps, Hangs, Steps, RowsStay, RowsGo
  <2> QED
    BY <2>1, <2>2
<1>3. ASSUME NEW a \in Agents, runner'[a].pc = "writeAgent" PROVE task'[a] # "active"
  <2>1. CASE runner[a].pc = "writeAgent"
    <3>1. a \in Existing
      BY <2>1 DEF SupInv, GateRows, AbsentRest, Existing
    <3> QED
      BY <2>1, <3>1, TaskEnds DEF RowsNested
  <2>2. CASE runner[a].pc # "writeAgent"
    <3>1. ~Begins(a)
      BY <1>3 DEF Begins
    <3>2. task'[a] = RowOf(runner[a].outcome)
      BY <1>1, <1>3, <2>2, <3>1 DEF SupSteps, Hangs, Steps, RunStays, RunIsJudged, RunIsWritten, Alive
    <3> QED
      BY <1>1, <3>2 DEF RowOf, Outcomes
  <2> QED
    BY <2>1, <2>2
<1>4. ASSUME NEW p \in Audits, audit'[p].pc = "finishAgent" PROVE task'[audit'[p].at] # "active"
  <2>1. CASE audit[p].pc = "finishAgent" /\ audit'[p].at = audit[p].at
    <3>1. audit[p].at \in Existing /\ task[audit[p].at] # "active"
      BY <2>1 DEF RowsNested, SupInv, Callers, PassesAt, At
    <3> QED
      BY <2>1, <3>1, TaskEnds
  <2>2. CASE audit'[p].at = audit[p].at /\ AuditFinishesTask(p)
    <3>1. audit[p].pc = "finishTask" /\ task' = [task EXCEPT ![audit[p].at] = "completed"]
      BY <2>2 DEF AuditFinishesTask
    <3>2. audit[p].at \in Agents /\ task \in [Agents -> Rows]
      BY <3>1 DEF SupInv, Callers, PassesAt, At, Existing, GateRows, GateInv, DeskOK
    <3> QED
      BY <2>2, <3>1, <3>2
  <2> QED
    BY <1>4, <2>1, <2>2, PassFinishes
<1>5. ASSUME NEW o \in Operators, order'[o].pc = "stopAgent" PROVE task'[order'[o].agent] # "active"
  <2>1. order'[o].agent = order[o].agent /\ order[o].agent \in Existing
    BY <1>5, OrderStops DEF SupInv, Callers, OrdersOK
  <2>2. CASE order[o].pc = "stopAgent"
    BY <2>1, <2>2, TaskEnds DEF RowsNested
  <2> QED
    BY <1>5, <2>1, <2>2, OrderStops
<1> QED
  BY <1>2, <1>3, <1>4, <1>5 DEF RowsNested

\* Those who are past their look for other agents.
Past == Supervisors \cup Continuers \cup Approvers

LEMMA PastHolds ==
  ASSUME SupInv
  PROVE  /\ \A r \in Requests : request[r].pc = "resumeSpawn" => <<"request", r>> \in Past
         /\ \A a \in Agents : runner[a].pc = "spawn" => <<"runner", a>> \in Past
         /\ \A p \in Audits : audit[p].pc = "spawn" => <<"audit", p>> \in Past
         /\ \A o \in Operators : order[o].pc = "spawn" => <<"order", o>> \in Past
<1>1. /\ DOMAIN request = Requests /\ DOMAIN runner = Agents
      /\ DOMAIN audit = Audits /\ DOMAIN order = Operators
  BY DEF SupInv, GateRows, GateInv, RunsOK, HandlersOK, BudgetInv, PassTypes, Callers, OrdersOK
<1> QED
  BY <1>1 DEF Past, Supervisors, Continuers, Approvers, Spawning

\* Without an overlap only one is past its look: the runner that continues an agent keeps
\* an approval away by the row of the task, which is still active.
LEMMA SoleSpawner ==
  ASSUME SupInv, RowsNested, Looked, ~Overlap, NEW x \in Past, NEW y \in Past
  PROVE  x = y
<1> SUFFICES ASSUME x # y PROVE FALSE
  OBVIOUS
<1>1. /\ DOMAIN request = Requests /\ DOMAIN runner = Agents
  BY DEF SupInv, GateRows, GateInv, RunsOK, HandlersOK
<1>2. x \notin Supervisors \cup Unlocked /\ y \notin Supervisors \cup Unlocked
  BY DEF Overlap, Past
<1>3. \A z \in Continuers \ Unlocked : \E a \in Agents :
        z = <<"runner", a>> /\ runner[a].pc = "spawn" /\ agent[a] = "active"
  <2>1. ASSUME NEW z \in Continuers, z \notin Unlocked
        PROVE  \E a \in Agents : z = <<"runner", a>> /\ runner[a].pc = "spawn" /\ agent[a] = "active"
    <3>1. PICK a \in Agents : z = <<"runner", a>> /\ runner[a].pc = "spawn"
      BY <1>1 DEF Continuers, Spawning
    <3>2. task[a] = "active"
      BY <2>1, <3>1 DEF Unlocked
    <3> QED
      BY <3>1, <3>2 DEF RowsNested
  <2> QED
    BY <2>1
<1>4. \A z \in Approvers : \A a \in Agents : agent[a] # "active"
  BY <1>1 DEF Approvers, Spawning, Looked
<1>5. CASE x \in Approvers /\ y \in Approvers
  BY <1>5 DEF Overlap
<1>6. CASE (x \in Continuers /\ y \in Approvers) \/ (y \in Continuers /\ x \in Approvers)
  BY <1>2, <1>3, <1>4, <1>6
<1>7. CASE x \in Continuers /\ y \in Continuers
  <2>1. PICK a \in Agents : x = <<"runner", a>> /\ runner[a].pc = "spawn" /\ agent[a] = "active"
    BY <1>2, <1>3, <1>7
  <2>2. PICK b \in Agents : y = <<"runner", b>> /\ runner[b].pc = "spawn" /\ agent[b] = "active"
    BY <1>2, <1>3, <1>7
  <2>3. a # b
    BY <2>1, <2>2
  <2> QED
    BY <2>1, <2>2, <2>3 DEF Looked
<1>8. x \in Continuers \cup Approvers /\ y \in Continuers \cup Approvers
  BY <1>2 DEF Past
<1> QED
  BY <1>5, <1>6, <1>7, <1>8

LEMMA NewRuns ==
  ASSUME SupInv, SpawnRows, runner' = [runner EXCEPT ![Newcomer].pc = "working"], NEW b \in Agents
  PROVE  runner'[b].pc = runner[b].pc \/ runner'[b].pc = "working"
<1> DEFINE n == Newcomer
<1>1. n \in Agents
  BY RowsSpawned DEF SupInv, GateRows, GateInv
<1>2. Goto(n, "working")
  BY DEF Goto
<1> HIDE DEF n
<1>3. runner'[n].pc = "working" /\ \A a \in Agents \ {n} : RunStays(a)
  BY <1>1, <1>2, GotoMoves DEF SupInv, GateRows, RunnerPcs, Alive
<1> QED
  BY <1>3 DEF RunStays

\* After a spawn nobody is past a look, and whoever was at work beside the new agent was
\* replaced by it.
NobodyPast ==
  /\ \A r \in Requests : request[r].pc # "resumeSpawn"
  /\ \A a \in Agents : runner[a].pc # "spawn"
  /\ \A p \in Audits : audit[p].pc # "spawn"
BesidesReplaced ==
  \A a \in Agents :
    /\ replaced'[a] >= replaced[a]
    /\ agent[a] = "active" /\ runner'[a].pc \in Alive /\ a # Newcomer => replaced'[a] > 0

LEMMA ContinuationAlone ==
  ASSUME SupInv, Looked, NEW c \in Agents, GateStep, SpawnContinuation(c),
         \A x \in Past : x = <<"runner", c>>
  PROVE  NobodyPast' /\ BesidesReplaced
<1>1. /\ runner[c].pc = "spawn" /\ runner'[c].pc = "writeTask" /\ runner'[Newcomer].pc = "working"
      /\ \A d \in Agents \ {c, Newcomer} : RunStays(d)
  BY ContinueMoves DEF SupInv, GateRows
<1>2. UNCHANGED <<request, audit, replaced>>
  BY DEF GateStep, SpawnContinuation
<1>3. /\ \A r \in Requests : request[r].pc # "resumeSpawn"
      /\ \A a \in Agents \ {c} : runner[a].pc # "spawn"
      /\ \A p \in Audits : audit[p].pc # "spawn"
  BY PastHolds
<1>4. NobodyPast'
  BY <1>1, <1>2, <1>3 DEF NobodyPast, RunStays
<1>5. BesidesReplaced
  <2>1. \A a \in Agents : replaced[a] \in Nat
    BY DEF SupInv, BudgetInv, PassTypes
  <2>2. \A a \in Agents \ {c} : agent[a] # "active"
    BY <1>1 DEF Looked
  <2>3. runner'[c].pc \notin Alive
    BY <1>1 DEF Alive
  <2> QED
    BY <1>2, <2>1, <2>2, <2>3 DEF BesidesReplaced
<1> QED
  BY <1>4, <1>5

LEMMA ApprovalAlone ==
  ASSUME SupInv, Looked, NEW r \in Requests, GateStep, ResumeSpawn(r),
         \A x \in Past : x = <<"request", r>>
  PROVE  NobodyPast' /\ BesidesReplaced
<1>1. /\ request[r].pc = "resumeSpawn" /\ Step(r, "handAgent") /\ UNCHANGED <<audit, replaced>>
      /\ SpawnRows /\ runner' = [runner EXCEPT ![Newcomer].pc = "working"]
  BY DEF GateStep, ResumeSpawn
<1>2. /\ \A q \in Requests \ {r} : request[q].pc # "resumeSpawn"
      /\ \A a \in Agents : runner[a].pc # "spawn"
      /\ \A p \in Audits : audit[p].pc # "spawn"
  BY PastHolds
<1>3. \A q \in Requests : request'[q].pc # "resumeSpawn"
  <2>1. request \in [Requests -> Handlers]
    BY DEF SupInv, GateRows, GateInv, HandlersOK
  <2> QED
    BY <1>1, <1>2, <2>1 DEF Step, Handlers
<1>4. \A a \in Agents : runner'[a].pc # "spawn"
  BY <1>1, <1>2, NewRuns
<1>5. BesidesReplaced
  <2>1. \A a \in Agents : replaced[a] \in Nat
    BY DEF SupInv, BudgetInv, PassTypes
  <2>2. \A a \in Agents : agent[a] # "active"
    BY <1>1 DEF Looked
  <2> QED
    BY <1>1, <2>1, <2>2 DEF BesidesReplaced
<1> QED
  BY <1>1, <1>2, <1>3, <1>4, <1>5 DEF NobodyPast

LEMMA ReplacementAlone ==
  ASSUME SupInv, Looked, NEW p \in Audits, AuditSpawns(p),
         \A x \in Past : x = <<"audit", p>>
  PROVE  NobodyPast' /\ BesidesReplaced
<1>1. /\ audit[p].pc = "spawn" /\ Proceed(p, "count") /\ request' = request
      /\ SpawnRows /\ runner' = [runner EXCEPT ![Newcomer].pc = "working"]
      /\ replaced' = [replaced EXCEPT ![audit[p].at] = @ + 1]
  BY DEF AuditSpawns, Ticket
<1>2. /\ \A r \in Requests : request[r].pc # "resumeSpawn"
      /\ \A a \in Agents : runner[a].pc # "spawn"
      /\ \A q \in Audits \ {p} : audit[q].pc # "spawn"
  BY PastHolds
<1>3. \A q \in Audits : audit'[q].pc # "spawn"
  <2>1. audit \in [Audits -> Passes]
    BY DEF SupInv, BudgetInv, PassTypes
  <2> QED
    BY <1>1, <1>2, <2>1 DEF Proceed, Passes
<1>4. \A a \in Agents : runner'[a].pc # "spawn"
  BY <1>1, <1>2, NewRuns
<1>5. BesidesReplaced
  <2>1. replaced \in [Agents -> Nat]
    BY DEF SupInv, BudgetInv, PassTypes
  <2>2. \A a \in Agents \ {audit[p].at} : agent[a] # "active"
    BY <1>1 DEF Looked
  <2>3. PICK at : at = audit[p].at
    OBVIOUS
  <2>4. \A a \in Agents : replaced'[a] = IF a = at THEN replaced[a] + 1 ELSE replaced[a]
    BY <1>1, <2>1, <2>3
  <2> QED
    BY <2>1, <2>2, <2>3, <2>4 DEF BesidesReplaced
<1> QED
  BY <1>1, <1>2, <1>3, <1>4, <1>5 DEF NobodyPast

LEMMA OperatorAlone ==
  ASSUME SupInv, NEW o \in Operators, SpawnAgain(o), ~Beside,
         \A x \in Past : x = <<"order", o>>
  PROVE  NobodyPast' /\ BesidesReplaced
<1>1. /\ order[o].pc = "spawn" /\ Answer(o) /\ UNCHANGED <<request, audit, replaced>>
      /\ SpawnRows /\ runner' = [runner EXCEPT ![Newcomer].pc = "working"]
  BY DEF SpawnAgain, Ticket, Tally
<1>2. /\ \A r \in Requests : request[r].pc # "resumeSpawn"
      /\ \A a \in Agents : runner[a].pc # "spawn"
      /\ \A p \in Audits : audit[p].pc # "spawn"
  BY PastHolds
<1>3. \A a \in Agents : runner'[a].pc # "spawn"
  BY <1>1, <1>2, NewRuns
<1>4. order'[o].pc # "spawn"
  BY <1>1 DEF Answer, NoOrder, SupInv, Callers, OrdersOK
<1>5. BesidesReplaced
  <2>1. \A a \in Agents : replaced[a] \in Nat
    BY DEF SupInv, BudgetInv, PassTypes
  <2>2. \A a \in Agents : agent[a] # "active"
    BY <1>1, <1>4 DEF Beside
  <2> QED
    BY <1>1, <2>1, <2>2 DEF BesidesReplaced
<1> QED
  BY <1>1, <1>2, <1>3, <1>5 DEF NobodyPast

LEMMA SpawnAlone ==
  ASSUME SupInv, RowsNested, Looked, ~Overlap, ~Beside, SpawnsNow
  PROVE  NobodyPast' /\ BesidesReplaced /\ SpawnRows
<1>1. ASSUME NEW c \in Agents, GateStep, SpawnContinuation(c) PROVE NobodyPast' /\ BesidesReplaced /\ SpawnRows
  <2>1. <<"runner", c>> \in Past
    BY <1>1, PastHolds DEF SpawnContinuation
  <2>2. \A x \in Past : x = <<"runner", c>>
    BY <2>1, SoleSpawner
  <2> QED
    BY <1>1, <2>2, ContinuationAlone DEF SpawnContinuation
<1>2. ASSUME NEW r \in Requests, GateStep, ResumeSpawn(r) PROVE NobodyPast' /\ BesidesReplaced /\ SpawnRows
  <2>1. <<"request", r>> \in Past
    BY <1>2, PastHolds DEF ResumeSpawn
  <2>2. \A x \in Past : x = <<"request", r>>
    BY <2>1, SoleSpawner
  <2> QED
    BY <1>2, <2>2, ApprovalAlone DEF ResumeSpawn
<1>3. ASSUME NEW p \in Audits, AuditSpawns(p) PROVE NobodyPast' /\ BesidesReplaced /\ SpawnRows
  <2>1. <<"audit", p>> \in Past
    BY <1>3, PastHolds DEF AuditSpawns
  <2>2. \A x \in Past : x = <<"audit", p>>
    BY <2>1, SoleSpawner
  <2> QED
    BY <1>3, <2>2, ReplacementAlone DEF AuditSpawns
<1>4. ASSUME NEW o \in Operators, SpawnAgain(o) PROVE NobodyPast' /\ BesidesReplaced /\ SpawnRows
  <2>1. <<"order", o>> \in Past
    BY <1>4, PastHolds DEF SpawnAgain
  <2>2. \A x \in Past : x = <<"order", o>>
    BY <2>1, SoleSpawner
  <2> QED
    BY <1>4, <2>2, OperatorAlone DEF SpawnAgain
<1> QED
  BY <1>1, <1>2, <1>3, <1>4 DEF SpawnsNow

\* A look that finds nobody.
LEMMA LooksFresh ==
  ASSUME SupInv, RowsNested, Looked, SupNext, \A b \in Agents : agent'[b] = "active" => agent[b] = "active"
  PROVE  Looked'
<1>1. ASSUME NEW r \in Requests, request'[r].pc = "resumeSpawn", NEW b \in Agents PROVE agent'[b] # "active"
  <2>1. CASE request[r].pc = "resumeSpawn"
    BY <2>1 DEF Looked
  <2>2. CASE request[r].pc # "resumeSpawn"
    <3>1. request \in [Requests -> Handlers]
      BY DEF SupInv, GateRows, GateInv, HandlersOK
    <3>2. ResumeTicket(r)
      <4>1. \A g \in Requests : Call(g) => request'[r].pc # "resumeSpawn"
        BY <2>2, <3>1 DEF Call
      <4>2. \A g \in Requests : Handle(g) /\ ~ResumeTicket(g) => request'[r].pc # "resumeSpawn"
        BY <2>2, <3>1 DEF Handle, ReadChange, WriteChange, SyncAccess, GrantLease, ResumeOwn, ResumeSpawn,
           HandAgent, HandTask, Step, Return, NoCall, Handlers
      <4>3. \A g \in Requests \ {r} : ResumeTicket(g) => request'[r].pc # "resumeSpawn"
        BY <2>2, <3>1 DEF ResumeTicket, Step
      <4>4. request' # request
        BY <1>1, <2>2
      <4>5. ASSUME NEW a \in Agents PROVE Work(a) \/ AgentExits(a) \/ Finish(a) => request' = request
        BY DEF Work, RequestChange, AgentReports, AgentLearns, AgentResolves, AgentExits,
           Finish, OpenAccess, ReadStopped, ReadGates, CheckOthers, SpawnContinuation, ReadEvidence,
           ResolveRecovered, WriteTask, WriteAgent, ParkTicket, SweepChanges, CloseChange, ReportDone, SettleTicket
      <4>6. ~Supervise
        <5>1. \A p \in Audits : Audit(p) \/ AuditFails(p) => request' = request
          BY DEF Audit, AuditStarts, AuditSweeps, AuditCloses, AuditSeesOthers, AuditSeesPending, AuditRecovers,
             AuditResolves, AuditFinishesTask, AuditFinishesAgent, AuditKills, AuditJudges, AuditLooks, AuditSpawns,
             AuditCounts, AuditFails, Ticket
        <5>2. \A o \in Operators : Order(o) \/ Obey(o) => request' = request
          BY DEF Order, Obey, ReadTask, StopProcess, StopTask, StopAgent, Reassign, SpawnAgain, Ticket
        <5>3. \A a \in Agents : Hang(a) => request' = request
          BY DEF Hang, Ticket
        <5> QED
          BY <4>4, <5>1, <5>2, <5>3 DEF Supervise
      <4> QED
        BY <1>1, <4>1, <4>2, <4>3, <4>4, <4>5, <4>6 DEF SupNext, GateStep, Next
    <3>3. Step(r, IF \E a \in Agents : IsActive(a) THEN "handAgent" ELSE "resumeSpawn")
      BY <3>2 DEF ResumeTicket
    <3>4. ~\E a \in Agents : IsActive(a)
      BY <1>1, <3>1, <3>3 DEF Step, Handlers
    <3> QED
      BY <3>4 DEF IsActive
  <2> QED
    BY <2>1, <2>2
<1>2. ASSUME NEW a \in Agents, runner'[a].pc = "spawn", NEW b \in Agents \ {a} PROVE agent'[b] # "active"
  <2>1. SupSteps(a)
    BY SupMoves DEF SupInv, GateRows
  <2>2. runner[a].pc = "spawn" \/ ~IsActive(b)
    BY <1>2, <2>1 DEF SupSteps, Hangs, Steps, Begins, RunStays, RunIsJudged, RunIsWritten, Alive
  <2> QED
    BY <2>2 DEF Looked, IsActive
<1>3. ASSUME NEW p \in Audits, audit'[p].pc = "spawn", NEW b \in Agents \ {audit'[p].at} PROVE agent'[b] # "active"
  <2>1. CASE audit[p].pc = "spawn" /\ audit'[p].at = audit[p].at
    BY <1>3, <2>1 DEF Looked
  <2>2. CASE audit'[p].at = audit[p].at /\ MaySpawn(p)
    BY <1>3, <2>2 DEF MaySpawn, OtherActive
  <2> QED
    BY <1>3, <2>1, <2>2, PassFinishes
<1> QED
  BY <1>1, <1>2, <1>3 DEF Looked

LEMMA ReplacedGrows ==
  ASSUME SupInv, SupNext, NEW a \in Agents
  PROVE  replaced[a] \in Nat /\ replaced'[a] \in Nat /\ replaced'[a] >= replaced[a]
<1>1. replaced \in [Agents -> Nat] /\ replaced' \in [Agents -> Nat]
  BY SupInvKept DEF SupInv, BudgetInv, PassTypes
<1>2. CASE replaced' = replaced
  BY <1>1, <1>2
<1>3. ASSUME NEW p \in Audits, AuditSpawns(p) PROVE replaced'[a] >= replaced[a]
  <2>1. PICK at : at = audit[p].at
    OBVIOUS
  <2>2. replaced' = [replaced EXCEPT ![at] = @ + 1]
    BY <1>3, <2>1 DEF AuditSpawns
  <2>3. replaced'[a] = IF a = at THEN replaced[a] + 1 ELSE replaced[a]
    BY <1>1, <2>2
  <2> QED
    BY <1>1, <2>3
<1>4. ASSUME NEW p \in Audits, Audit(p) \/ AuditFails(p), ~AuditSpawns(p) PROVE replaced' = replaced
  BY <1>4 DEF Audit, AuditStarts, AuditSweeps, AuditCloses, AuditSeesOthers, AuditSeesPending, AuditRecovers,
     AuditResolves, AuditFinishesTask, AuditFinishesAgent, AuditKills, AuditJudges, AuditLooks,
     AuditCounts, AuditFails, Tally
<1>5. \A o \in Operators : Order(o) \/ Obey(o) => replaced' = replaced
  BY OrderIsQuiet DEF Order
<1>6. \A b \in Agents : Hang(b) => replaced' = replaced
  BY DEF Hang, Tally
<1> QED
  BY <1>1, <1>2, <1>3, <1>4, <1>5, <1>6 DEF SupNext, Supervise, GateStep

LEMMA PairedStays ==
  ASSUME SupInv, Paired, SupNext,
         \/ \A b \in Agents : agent'[b] = "active" => agent[b] = "active"
         \/ BesidesReplaced /\ SpawnRows
  PROVE  Paired'
<1> SUFFICES ASSUME NEW a \in Agents, NEW b \in Agents, a # b, agent'[a] = "active", agent'[b] = "active",
                    runner'[a].pc \in Alive, runner'[b].pc \in Alive
             PROVE  replaced'[a] + replaced'[b] > 0
  BY DEF Paired
<1>1. /\ replaced[a] \in Nat /\ replaced'[a] \in Nat /\ replaced'[a] >= replaced[a]
      /\ replaced[b] \in Nat /\ replaced'[b] \in Nat /\ replaced'[b] >= replaced[b]
  BY ReplacedGrows
<1>2. CASE agent[a] = "active" /\ agent[b] = "active" /\ runner[a].pc \in Alive /\ runner[b].pc \in Alive
  BY <1>1, <1>2 DEF Paired
<1>3. CASE \A c \in Agents : agent'[c] = "active" => agent[c] = "active"
  <2>1. a \in Existing /\ b \in Existing
    BY <1>3 DEF Existing
  <2>2. runner[a].pc \in Alive /\ runner[b].pc \in Alive
    BY <2>1, AliveBefore DEF Begins
  <2> QED
    BY <1>2, <1>3, <2>2
<1>4. CASE BesidesReplaced /\ SpawnRows
  <2>1. \A c \in Agents \ {Newcomer} : agent'[c] = agent[c]
    BY <1>4, RowsSpawned DEF SupInv, GateRows, GateInv
  <2>2. \A c \in Agents : Begins(c) => c = Newcomer
    BY DEF Begins
  <2>3. CASE a # Newcomer /\ b # Newcomer
    <3>1. runner[a].pc \in Alive /\ runner[b].pc \in Alive
      BY <2>2, <2>3, AliveBefore
    <3> QED
      BY <1>2, <2>1, <2>3, <3>1
  <2>4. CASE a = Newcomer
    <3>1. replaced'[b] > 0
      BY <1>4, <2>1, <2>4 DEF BesidesReplaced
    <3> QED
      BY <1>1, <3>1
  <2>5. CASE b = Newcomer
    <3>1. replaced'[a] > 0
      BY <1>4, <2>1, <2>5 DEF BesidesReplaced
    <3> QED
      BY <1>1, <3>1
  <2> QED
    BY <2>3, <2>4, <2>5
<1> QED
  BY <1>3, <1>4

LEMMA OneInvKept ==
  ASSUME SupInv, OneInv, SupNext
  PROVE  OneInv'
<1>1. RowsNested'
  BY NestedStays DEF OneInv
<1>2. ASSUME ~raced' PROVE Looked' /\ Paired' /\ ~Overlap'
  <2>1. ~raced /\ ~Overlap' /\ ~Beside
    BY <1>2 DEF SupNext
  <2>2. Looked /\ Paired /\ ~Overlap /\ RowsNested
    BY <2>1 DEF OneInv
  <2>3. CASE SpawnsNow
    <3>1. NobodyPast' /\ BesidesReplaced /\ SpawnRows
      BY <2>1, <2>2, <2>3, SpawnAlone
    <3>2. Looked'
      BY <3>1 DEF Looked, NobodyPast
    <3>3. Paired'
      BY <2>2, <3>1, PairedStays
    <3> QED
      BY <2>1, <3>2, <3>3
  <2>4. CASE \A b \in Agents : agent'[b] = "active" => agent[b] = "active"
    BY <2>1, <2>2, <2>4, LooksFresh, PairedStays
  <2> QED
    BY <2>3, <2>4, ActiveBegins
<1> QED
  BY <1>1, <1>2 DEF OneInv

LEMMA OneInvStays ==
  ASSUME OneInv, UNCHANGED allVars
  PROVE  OneInv'
<1>1. UNCHANGED <<task, agent, runner, request, audit, order, replaced, raced>>
  BY DEF allVars, vars, supVars
<1> QED
  BY <1>1 DEF OneInv, RowsNested, Looked, Paired, Overlap, Approvers, Continuers, Unlocked, Supervisors, Spawning

LEMMA InitOne == SupInit => OneInv
<1> SUFFICES ASSUME SupInit PROVE OneInv
  OBVIOUS
<1>1. /\ \A r \in Requests : request[r].pc = "idle"
      /\ \A p \in Audits : audit[p].pc = "idle"
      /\ \A o \in Operators : order[o].pc = "idle"
      /\ agent = task
  BY DEF SupInit, Init, NoCall, NoAudit, NoOrder
<1>2. \A a \in Agents : runner[a].pc \in {"working", "none"} /\ (runner[a].pc \in Alive => a = 1)
  <2>1. NoRun.pc = "none" /\ [NoRun EXCEPT !.pc = "working"].pc = "working"
    BY DEF NoRun
  <2> QED
    BY <2>1 DEF SupInit, Init, Alive
<1>3. RowsNested
  BY <1>1, <1>2 DEF RowsNested
<1>4. Looked
  BY <1>1, <1>2 DEF Looked
<1>5. Paired
  BY <1>2 DEF Paired
<1>6. ~Overlap
  <2>1. /\ DOMAIN request = Requests /\ DOMAIN runner = Agents
        /\ DOMAIN audit = Audits /\ DOMAIN order = Operators
    BY DEF SupInit, Init
  <2>2. Supervisors = {} /\ Continuers = {} /\ Approvers = {}
    BY <1>1, <1>2, <2>1 DEF Supervisors, Continuers, Approvers, Spawning
  <2> QED
    BY <2>2 DEF Overlap, Unlocked
<1> QED
  BY <1>3, <1>4, <1>5, <1>6 DEF OneInv

\* However many agents, gates, handlers, passes and operators there are, the ticket has
\* one agent at work, or an agent beside the replacement it was given, until two spawners
\* overlap between their look and their insert, or an operator's call takes no look.
THEOREM OneWorks == SupSpec => []OneAgentAtWork
<1>1. SupInv /\ OneInv /\ [SupNext]_allVars => OneInv'
  BY OneInvKept, OneInvStays
<1>2. SupInv /\ [SupNext]_allVars => SupInv'
  BY SupInvKept, SupInvStays
<1>3. OneInv => OneAgentAtWork
  <2> SUFFICES ASSUME OneInv, NEW a \in Agents, NEW b \in Agents,
                      runner[a].pc \in Alive, runner[b].pc \in Alive, task[a] = "active", task[b] = "active",
                      a # b, ~raced
               PROVE  replaced[a] + replaced[b] > 0
    BY DEF OneAgentAtWork
  <2> QED
    BY DEF OneInv, RowsNested, Paired
<1> QED
  BY <1>1, <1>2, <1>3, InitSup, InitOne, PTL DEF SupSpec

-----------------------------------------------------------------------------
(* Access follows the gate, as long as decisions on one gate do not overlap. *)

\* No two handlers are between their read of one gate and the write of its access request.
Deciding(r) == request[r].pc \in {"write", "sync"}
OneDecides ==
  \A r, q \in Requests :
    Deciding(r) /\ Deciding(q) /\ request[r].change = request[q].change => r = q

Agrees(c) ==
  CASE change[c].status = "absent" -> access[c] = "none"
    [] change[c].status = "pending" -> access[c] \in {"none", "pending"}
    [] change[c].status = "approved" -> access[c] \in {"none", "pending", "approved"}
    [] change[c].status = "rejected" -> access[c] \in {"none", "pending", "rejected"}
    [] change[c].status = "completed" -> access[c] \in {"none", "pending", "granted"}

\* An agent is between the two inserts of create_access_request.
Half(a, c) == runner[a].change = c
HalfOpen(c) ==
  \A a \in Agents : Half(a, c) =>
    access[c] = "none" /\ change[c].status # "absent" /\ \A b \in Agents : Half(b, c) => b = a

\* A decision is about a gate that is still as it was read, or as it was written.
Decides(r, c) ==
  request[r].change = c =>
    /\ request[r].pc = "write" /\ request[r].call # "complete" => change[c].status = "pending"
    /\ request[r].pc = "sync" => change[c].status = StatusFor(request[r].call)
    /\ request[r].pc = "lease" => change[c].status = "completed"
Syncing(c) == \E r \in Requests : request[r].pc = "sync" /\ request[r].change = c

Follows(c) ==
  /\ c \in leases => change[c].status = "completed"
  /\ HalfOpen(c)
  /\ Syncing(c) \/ Agrees(c)
  /\ \A r \in Requests : Decides(r, c)

\* What closes by itself is no access gate.
RunsSpare == \A a \in Agents : runner[a].todo \cap AccessChanges = {}
PassesSpare == \A p \in Audits : audit[p].todo \cap AccessChanges = {}

AccessInv == RunsSpare /\ PassesSpare /\ \A c \in AccessChanges : Follows(c)

-----------------------------------------------------------------------------
\* The gates and their access requests are let be, but for a gate that closes by itself.
SameCalls == \A a \in Agents : runner'[a].change = runner[a].change
SameGate(c) ==
  /\ change'[c].status = change[c].status /\ access'[c] = access[c]
  /\ c \in leases' <=> c \in leases
SameHandlers == \A r \in Requests : request'[r] = request[r]

LEMMA HalfStays ==
  ASSUME NEW c, HalfOpen(c), SameCalls, access'[c] = access[c] \/ access[c] # "none",
         change'[c].status # "absent" \/ change'[c].status = change[c].status
  PROVE  HalfOpen(c)'
<1> SUFFICES ASSUME NEW a \in Agents, Half(a, c)'
             PROVE  access'[c] = "none" /\ change'[c].status # "absent" /\ \A b \in Agents : Half(b, c)' => b = a
  BY DEF HalfOpen
<1>1. \A b \in Agents : Half(b, c)' <=> Half(b, c)
  BY DEF SameCalls, Half
<1>2. access[c] = "none" /\ change[c].status # "absent" /\ \A b \in Agents : Half(b, c) => b = a
  BY <1>1 DEF HalfOpen
<1> QED
  BY <1>1, <1>2

LEMMA QuietFollows ==
  ASSUME NEW c, Follows(c), SameGate(c), SameCalls, SameHandlers
  PROVE  Follows(c)'
<1>1. HalfOpen(c)'
  BY HalfStays DEF Follows, SameGate
<1>2. Syncing(c)' \/ Agrees(c)'
  BY DEF Follows, SameGate, SameHandlers, Syncing, Agrees
<1>3. \A r \in Requests : Decides(r, c)'
  BY DEF Follows, SameGate, SameHandlers, Decides
<1> QED
  BY <1>1, <1>2, <1>3 DEF Follows, SameGate

\* A handler that neither decides nor grants, before the step or after it.
LEMMA BystanderFollows ==
  ASSUME NEW c, Follows(c), SameGate(c), SameCalls, NEW r \in Requests, request[r].pc # "sync",
         request'[r].pc \notin {"sync", "lease"},
         request'[r].pc = "write" /\ request'[r].change = c /\ request'[r].call # "complete"
           => change[c].status = "pending",
         \A q \in Requests \ {r} : request'[q] = request[q]
  PROVE  Follows(c)'
<1>1. HalfOpen(c)'
  BY HalfStays DEF Follows, SameGate
<1>2. Syncing(c) => Syncing(c)'
  <2> SUFFICES ASSUME NEW q \in Requests, request[q].pc = "sync", request[q].change = c PROVE Syncing(c)'
    BY DEF Syncing
  <2>1. request'[q] = request[q]
    OBVIOUS
  <2> QED
    BY <2>1 DEF Syncing
<1>3. Syncing(c)' \/ Agrees(c)'
  BY <1>2 DEF Follows, SameGate, Agrees
<1>4. ASSUME NEW q \in Requests PROVE Decides(q, c)'
  <2>1. CASE q = r
    BY <2>1 DEF SameGate, Decides
  <2>2. CASE q # r
    BY <2>2 DEF Follows, SameGate, Decides
  <2> QED
    BY <2>1, <2>2
<1> QED
  BY <1>1, <1>3, <1>4 DEF Follows, SameGate

LEMMA WriteFollows ==
  ASSUME GateInv, NEW c \in AccessChanges, Follows(c), OneDecides, NEW r \in Requests, WriteChange(r)
  PROVE  Follows(c)'
<1> DEFINE d == request[r].change
           call == request[r].call
<1>1. /\ request[r].pc = "write" /\ d \in Changes /\ call \in Calls
      /\ change' = [change EXCEPT ![d].status = StatusFor(call)]
      /\ access' = access /\ leases' = leases /\ runner' = runner
      /\ request' = [request EXCEPT ![r].pc = "sync"]
  BY DEF WriteChange, Step, GateInv, HandlersOK, Handlers
<1>2. /\ request'[r].pc = "sync" /\ request'[r].call = call /\ request'[r].change = d
      /\ \A q \in Requests \ {r} : request'[q] = request[q]
  BY <1>1 DEF GateInv, HandlersOK, Handlers
<1>3. /\ change'[d].status = StatusFor(call)
      /\ \A e \in Changes \ {d} : change'[e] = change[e]
  BY <1>1 DEF GateInv, GatesOK, Gates
<1>4. StatusFor(call) \in {"approved", "rejected", "completed"} /\ (call = "complete" => StatusFor(call) = "completed")
  BY <1>1 DEF StatusFor, Calls
<1>5. c \in Changes
  BY GateAssumption
<1> HIDE DEF d, call
<1>6. SameCalls
  BY <1>1 DEF SameCalls
<1>7. CASE c # d
  <2>1. SameGate(c)
    BY <1>1, <1>3, <1>5, <1>7 DEF SameGate
  <2>2. HalfOpen(c)'
    BY <1>6, <2>1, HalfStays DEF Follows, SameGate
  <2>3. Syncing(c) => Syncing(c)'
    <3> SUFFICES ASSUME NEW q \in Requests, request[q].pc = "sync", request[q].change = c PROVE Syncing(c)'
      BY DEF Syncing
    <3>1. request'[q] = request[q]
      BY <1>1, <1>2
    <3> QED
      BY <3>1 DEF Syncing
  <2>4. Syncing(c)' \/ Agrees(c)'
    BY <2>1, <2>3 DEF Follows, SameGate, Agrees
  <2>5. ASSUME NEW q \in Requests PROVE Decides(q, c)'
    <3>1. CASE q = r
      BY <1>2, <1>7, <3>1 DEF Decides
    <3>2. CASE q # r
      BY <1>2, <2>1, <3>2 DEF Follows, SameGate, Decides
    <3> QED
      BY <3>1, <3>2
  <2> QED
    BY <2>1, <2>2, <2>4, <2>5 DEF Follows, SameGate
<1>8. CASE c = d
  <2>1. call # "complete" => change[c].status = "pending"
    BY <1>1, <1>8 DEF Follows, Decides, d, call
  <2>2. ASSUME NEW q \in Requests \ {r}, request[q].change = c PROVE ~Deciding(q)
    BY <1>1, <1>8, <2>2 DEF OneDecides, Deciding, d
  <2>3. HalfOpen(c)'
    BY <1>1, <1>3, <1>4, <1>6, <1>8, HalfStays DEF Follows
  <2>4. Syncing(c)'
    BY <1>2, <1>8 DEF Syncing
  <2>5. ASSUME NEW q \in Requests PROVE Decides(q, c)'
    <3>1. CASE q = r
      BY <1>2, <1>3, <1>8, <3>1 DEF Decides
    <3>2. CASE q # r
      <4>1. request'[q] = request[q]
        BY <1>2, <3>2
      <4>2. request[q].change = c => request[q].pc \notin {"write", "sync"}
        BY <2>2, <3>2 DEF Deciding
      <4>3. request[q].change = c /\ request[q].pc = "lease" => change'[c].status = "completed"
        BY <1>3, <1>4, <1>8, <2>1 DEF Follows, Decides
      <4> QED
        BY <4>1, <4>2, <4>3 DEF Decides
    <3> QED
      BY <3>1, <3>2
  <2>6. c \in leases' => change'[c].status = "completed"
    BY <1>1, <1>3, <1>4, <1>8, <2>1 DEF Follows
  <2> QED
    BY <2>3, <2>4, <2>5, <2>6 DEF Follows
<1> QED
  BY <1>7, <1>8

LEMMA SyncFollows ==
  ASSUME GateInv, NEW c \in AccessChanges, Follows(c), OneDecides, NEW r \in Requests, SyncAccess(r)
  PROVE  Follows(c)'
<1> DEFINE d == request[r].change
           call == request[r].call
           found == d \in AccessChanges /\ access[d] # "none"
<1>1. /\ request[r].pc = "sync" /\ d \in Changes /\ call \in Calls
      /\ access' = IF found THEN [access EXCEPT ![d] = AccessStatusFor(call)] ELSE access
      /\ change' = change /\ leases' = leases /\ runner' = runner
  BY DEF SyncAccess, GateInv, HandlersOK, Handlers
<1>2. \/ request' = [request EXCEPT ![r].pc = "resumeOwn"]
      \/ request' = [request EXCEPT ![r] = NoCall]
      \/ /\ request' = [request EXCEPT ![r].pc = "lease"]
         /\ call = "complete"
  BY DEF SyncAccess, Step, Return
<1>3. /\ \A q \in Requests \ {r} : request'[q] = request[q]
      /\ request'[r].pc \in {"resumeOwn", "idle", "lease"}
      /\ request'[r].pc = "lease" => request'[r].change = d /\ call = "complete"
  BY <1>2 DEF GateInv, HandlersOK, Handlers, NoCall
<1>4. c \in Changes
  BY GateAssumption
<1>5. SameCalls
  BY <1>1 DEF SameCalls
<1>6. c # d => access'[c] = access[c]
  BY <1>1, <1>4 DEF GateInv, GatesOK
<1>7. c = d /\ access[c] # "none" => access'[c] = AccessStatusFor(call)
  BY <1>1, <1>4 DEF GateInv, GatesOK
<1>8. c = d /\ access[c] = "none" => access'[c] = "none"
  BY <1>1
<1>9. c = d => change[c].status = StatusFor(call)
  BY <1>1 DEF Follows, Decides
<1> HIDE DEF found, d, call
<1>10. HalfOpen(c)'
  BY <1>1, <1>5, <1>6, <1>8, HalfStays DEF Follows
<1>11. Syncing(c)' \/ Agrees(c)'
  <2>1. CASE c # d
    <3>1. Syncing(c) => Syncing(c)'
      <4> SUFFICES ASSUME NEW q \in Requests, request[q].pc = "sync", request[q].change = c PROVE Syncing(c)'
        BY DEF Syncing
      <4>1. q # r
        BY <2>1 DEF d
      <4> QED
        BY <1>3, <4>1 DEF Syncing
    <3> QED
      BY <1>1, <1>6, <2>1, <3>1 DEF Follows, Agrees
  <2>2. CASE c = d
    <3>1. access'[c] \in {"none", AccessStatusFor(call)}
      BY <1>7, <1>8, <2>2
    <3> QED
      BY <1>1, <1>9, <2>2, <3>1 DEF Agrees, StatusFor, AccessStatusFor, Calls
  <2> QED
    BY <2>1, <2>2
<1>12. ASSUME NEW q \in Requests PROVE Decides(q, c)'
  <2>1. CASE q = r
    BY <1>1, <1>3, <1>9, <2>1 DEF Decides, StatusFor
  <2>2. CASE q # r
    BY <1>1, <1>3, <2>2 DEF Follows, Decides
  <2> QED
    BY <2>1, <2>2
<1> QED
  BY <1>1, <1>10, <1>11, <1>12 DEF Follows

LEMMA LeaseFollows ==
  ASSUME GateInv, NEW c \in AccessChanges, Follows(c), NEW r \in Requests, GrantLease(r)
  PROVE  Follows(c)'
<1>1. /\ request[r].pc = "lease" /\ change' = change /\ access' = access /\ runner' = runner
      /\ leases' \in {leases, leases \cup {request[r].change}}
      /\ request' = [request EXCEPT ![r] = NoCall]
  BY DEF GrantLease, Return
<1>2. /\ request'[r].pc = "idle" /\ \A q \in Requests \ {r} : request'[q] = request[q]
  BY <1>1 DEF GateInv, HandlersOK, NoCall
<1>3. SameCalls
  BY <1>1 DEF SameCalls
<1>4. HalfOpen(c)'
  BY <1>1, <1>3, HalfStays DEF Follows
<1>5. Syncing(c) => Syncing(c)'
  <2> SUFFICES ASSUME NEW q \in Requests, request[q].pc = "sync", request[q].change = c PROVE Syncing(c)'
    BY DEF Syncing
  <2>1. request'[q] = request[q]
    BY <1>1, <1>2
  <2> QED
    BY <2>1 DEF Syncing
<1>6. Syncing(c)' \/ Agrees(c)'
  BY <1>1, <1>5 DEF Follows, Agrees
<1>7. ASSUME NEW q \in Requests PROVE Decides(q, c)'
  BY <1>1, <1>2 DEF Follows, Decides
<1>8. c \in leases' => change'[c].status = "completed"
  BY <1>1 DEF Follows, Decides
<1> QED
  BY <1>4, <1>6, <1>7, <1>8 DEF Follows

-----------------------------------------------------------------------------
\* The handlers, the two inserts, and everybody else.

LEMMA CallerSteps ==
  ASSUME GateInv, NEW r \in Requests, Call(r) \/ Handle(r)
  PROVE  /\ SameCalls
         /\ \A a \in Agents : runner'[a].todo = runner[a].todo
         /\ \A q \in Requests \ {r} : request'[q] = request[q]
<1>1. ASSUME NEW n, runner' = [runner EXCEPT ![n].pc = "working"]
      PROVE  SameCalls /\ \A a \in Agents : runner'[a].todo = runner[a].todo
  BY <1>1 DEF SameCalls, GateInv, RunsOK, Runs
<1>2. runner' = runner \/ ResumeSpawn(r)
  BY DEF Call, Handle, ReadChange, WriteChange, SyncAccess, GrantLease, ResumeOwn, ResumeTicket, HandAgent, HandTask
<1>3. SameCalls /\ \A a \in Agents : runner'[a].todo = runner[a].todo
  BY <1>1, <1>2 DEF ResumeSpawn, SameCalls
<1>4. \E handler : request' = [request EXCEPT ![r] = handler]
  <2>1. \/ \E c \in Changes, call \in Calls : request' = [request EXCEPT ![r] = [pc |-> "read", call |-> call, change |-> c]]
        \/ \E pc \in RequestPcs : Step(r, pc)
        \/ Return(r)
    <3>1. CASE Call(r) \/ ReadChange(r) \/ WriteChange(r) \/ SyncAccess(r) \/ GrantLease(r)
      BY <3>1 DEF Call, ReadChange, WriteChange, SyncAccess, GrantLease, RequestPcs
    <3>2. CASE ResumeOwn(r) \/ ResumeTicket(r) \/ ResumeSpawn(r) \/ HandAgent(r) \/ HandTask(r)
      BY <3>2 DEF ResumeOwn, ResumeTicket, ResumeSpawn, HandAgent, HandTask, RequestPcs
    <3> QED
      BY <3>1, <3>2 DEF Handle
  <2>2. ASSUME NEW pc, Step(r, pc) PROVE \E handler : request' = [request EXCEPT ![r] = handler]
    <3>1. request' = [request EXCEPT ![r] = [request[r] EXCEPT !.pc = pc]]
      BY <2>2 DEF Step
    <3> QED
      BY <3>1
  <2> QED
    BY <2>1, <2>2 DEF Return
<1>5. \A q \in Requests \ {r} : request'[q] = request[q]
  BY <1>4 DEF GateInv, HandlersOK
<1> QED
  BY <1>3, <1>5

LEMMA HandlersFollow ==
  ASSUME GateInv, NEW c \in AccessChanges, Follows(c), OneDecides, NEW r \in Requests, Call(r) \/ Handle(r)
  PROVE  Follows(c)'
<1>1. SameCalls /\ \A q \in Requests \ {r} : request'[q] = request[q]
  BY CallerSteps
<1>2. request \in [Requests -> Handlers]
  BY DEF GateInv, HandlersOK
<1>3. CASE Call(r)
  <2>1. request[r].pc = "idle" /\ change' = change /\ access' = access /\ leases' = leases
    BY <1>3 DEF Call
  <2>2. request'[r].pc = "read"
    BY <1>2, <1>3 DEF Call
  <2> QED
    BY <1>1, <2>1, <2>2, BystanderFollows DEF SameGate
<1>4. CASE ReadChange(r)
  <2>1. request[r].pc = "read" /\ change' = change /\ access' = access /\ leases' = leases
    BY <1>4 DEF ReadChange
  <2>2. \/ Step(r, "write") /\ (request[r].call = "complete" \/ change[request[r].change].status = "pending")
        \/ Step(r, "resumeOwn") \/ Return(r)
    BY <1>4 DEF ReadChange
  <2>3. request'[r].pc \in {"write", "resumeOwn", "idle"}
    BY <1>2, <2>2 DEF Step, Return, NoCall, Handlers
  <2>4. request'[r].pc = "write" => /\ request'[r].change = request[r].change /\ request'[r].call = request[r].call
                                    /\ request[r].call = "complete" \/ change[request[r].change].status = "pending"
    BY <1>2, <2>2 DEF Step, Return, NoCall, Handlers
  <2> QED
    BY <1>1, <2>1, <2>3, <2>4, BystanderFollows DEF SameGate
<1>5. CASE ResumeOwn(r) \/ ResumeTicket(r) \/ ResumeSpawn(r) \/ HandAgent(r) \/ HandTask(r)
  <2>1. /\ request[r].pc \in {"resumeOwn", "resumeTicket", "resumeSpawn", "handAgent", "handTask"}
        /\ change' = change /\ access' = access /\ leases' = leases
    BY <1>5 DEF ResumeOwn, ResumeTicket, ResumeSpawn, HandAgent, HandTask
  <2>2. Return(r) \/ \E pc \in {"resumeTicket", "handAgent", "resumeSpawn", "handTask"} : Step(r, pc)
    BY <1>5 DEF ResumeOwn, ResumeTicket, ResumeSpawn, HandAgent, HandTask
  <2>3. request'[r].pc \in {"idle", "resumeTicket", "handAgent", "resumeSpawn", "handTask"}
    BY <1>2, <2>2 DEF Step, Return, NoCall, Handlers
  <2> QED
    BY <1>1, <2>1, <2>3, BystanderFollows DEF SameGate
<1> QED
  BY <1>3, <1>4, <1>5, WriteFollows, SyncFollows, LeaseFollows DEF Handle

LEMMA OpenFollows ==
  ASSUME GateInv, NEW c \in AccessChanges, Follows(c), NEW a \in Agents, OpenAccess(a)
  PROVE  Follows(c)'
<1> DEFINE d == runner[a].change
<1>1. /\ d # NoChange /\ access' = [access EXCEPT ![d] = "pending"]
      /\ change' = change /\ leases' = leases /\ request' = request
      /\ runner' = [runner EXCEPT ![a].change = NoChange]
  BY DEF OpenAccess
<1>2. d \in Changes /\ c \in Changes /\ c # NoChange
  BY <1>1, GateAssumption DEF GateInv, RunsOK, Runs
<1>3. runner'[a].change = NoChange /\ \A b \in Agents \ {a} : runner'[b] = runner[b]
  BY <1>1 DEF GateInv, RunsOK, Runs
<1>4. access'[d] = "pending" /\ (c # d => access'[c] = access[c])
  BY <1>1, <1>2 DEF GateInv, GatesOK
<1> HIDE DEF d
<1>5. c = d => access[c] = "none" /\ change[c].status # "absent" /\ \A b \in Agents : runner[b].change = c => b = a
  BY DEF Follows, HalfOpen, Half, d
<1>6. HalfOpen(c)'
  <2> SUFFICES ASSUME NEW b \in Agents, Half(b, c)'
               PROVE  access'[c] = "none" /\ change'[c].status # "absent" /\ \A e \in Agents : Half(e, c)' => e = b
    BY DEF HalfOpen
  <2>1. b # a /\ Half(b, c)
    BY <1>2, <1>3 DEF Half
  <2>2. c # d
    BY <1>5, <2>1 DEF Half
  <2>3. \A e \in Agents : Half(e, c)' => Half(e, c)
    BY <1>2, <1>3 DEF Half
  <2> QED
    BY <1>1, <1>4, <2>1, <2>2, <2>3 DEF Follows, HalfOpen
<1>7. Syncing(c)' \/ Agrees(c)'
  <2>1. Syncing(c) => Syncing(c)'
    BY <1>1 DEF Syncing
  <2>2. CASE c = d
    <3>1. change[c].status \in ChangeStatus
      BY <1>2 DEF GateInv, GatesOK, Gates
    <3> QED
      BY <1>1, <1>4, <1>5, <2>2, <3>1 DEF Agrees, ChangeStatus
  <2>3. CASE c # d
    BY <1>1, <1>4, <2>1, <2>3 DEF Follows, Agrees
  <2> QED
    BY <2>2, <2>3
<1>8. \A r \in Requests : Decides(r, c)'
  BY <1>1 DEF Follows, Decides
<1> QED
  BY <1>1, <1>6, <1>7, <1>8 DEF Follows

LEMMA RequestFollows ==
  ASSUME GateInv, NEW c \in AccessChanges, Follows(c), NEW a \in Agents, RequestChange(a)
  PROVE  Follows(c)'
<1>1. PICK d \in scene.gates :
        /\ change[d].status = "absent"
        /\ change' = [change EXCEPT ![d] = [status |-> "pending", agent |-> a]]
        /\ runner' = IF d \in AccessChanges THEN [runner EXCEPT ![a].change = d] ELSE runner
  BY DEF RequestChange
<1>2. runner[a].change = NoChange /\ access' = access /\ leases' = leases /\ request' = request
  BY DEF RequestChange, AtWork
<1>3. d \in Changes /\ c \in Changes /\ c # NoChange
  BY <1>1, GateAssumption DEF GateInv, DeskOK
<1>4. /\ \A b \in Agents \ {a} : runner'[b] = runner[b]
      /\ runner'[a].change = IF d \in AccessChanges THEN d ELSE NoChange
  BY <1>1, <1>2 DEF GateInv, RunsOK, Runs
<1>5. change'[d].status = "pending" /\ (c # d => change'[c] = change[c])
  BY <1>1, <1>3 DEF GateInv, GatesOK
<1>6. CASE c # d
  <2>1. \A b \in Agents : Half(b, c)' <=> Half(b, c)
    BY <1>2, <1>3, <1>4, <1>6 DEF Half
  <2>2. HalfOpen(c)'
    BY <1>2, <1>5, <1>6, <2>1 DEF Follows, HalfOpen
  <2>3. Syncing(c)' \/ Agrees(c)'
    BY <1>2, <1>5, <1>6 DEF Follows, Agrees, Syncing
  <2> QED
    BY <1>2, <1>5, <1>6, <2>2, <2>3 DEF Follows, Decides
<1>7. CASE c = d
  <2>1. \A r \in Requests : request[r].change = c => request[r].pc = "idle"
    BY <1>1, <1>7 DEF GateInv, HandlersOK
  <2>2. access[c] = "none"
    BY <1>1, <1>7, <2>1 DEF Follows, Syncing, Agrees
  <2>3. c \notin leases
    BY <1>1, <1>7 DEF Follows
  <2>4. \A b \in Agents : ~Half(b, c)
    BY <1>1, <1>7 DEF Follows, HalfOpen
  <2>5. \A b \in Agents : Half(b, c)' => b = a
    BY <1>4, <2>4 DEF Half
  <2>6. HalfOpen(c)'
    BY <1>2, <1>5, <1>7, <2>2, <2>5 DEF HalfOpen
  <2>7. Agrees(c)'
    BY <1>2, <1>5, <1>7, <2>2 DEF Agrees
  <2>8. \A r \in Requests : Decides(r, c)'
    BY <1>2, <2>1 DEF Decides
  <2> QED
    BY <1>2, <2>3, <2>6, <2>7, <2>8 DEF Follows
<1> QED
  BY <1>6, <1>7

\* The calls and the sweeps of the runs are let be.
Carried == \A a \in Agents : runner'[a].change = runner[a].change /\ runner'[a].todo = runner[a].todo

LEMMA RunCarried ==
  ASSUME GateInv, NEW a, NEW n, NEW pc, NEW to, NEW outcome,
         \/ runner' = runner
         \/ runner' = [runner EXCEPT ![a].pc = pc]
         \/ runner' = [runner EXCEPT ![a].pc = pc, ![a].outcome = outcome]
         \/ runner' = [runner EXCEPT ![a].pc = pc, ![n].pc = to]
  PROVE  Carried
<1>1. runner \in [Agents -> Runs]
  BY DEF GateInv, RunsOK
<1>2. CASE runner' = runner
  BY <1>2 DEF Carried
<1>3. CASE runner' = [runner EXCEPT ![a].pc = pc]
  BY <1>1, <1>3 DEF Carried, Runs
<1>4. CASE runner' = [runner EXCEPT ![a].pc = pc, ![a].outcome = outcome]
  BY <1>1, <1>4 DEF Carried, Runs
<1>5. CASE runner' = [runner EXCEPT ![a].pc = pc, ![n].pc = to]
  BY <1>1, <1>5 DEF Carried, Runs
<1> QED
  BY <1>2, <1>3, <1>4, <1>5

LEMMA ExitCarries ==
  ASSUME GateInv, NEW a, Exits(a) \/ Killed(a)
  PROVE  Carried
<1>1. Killed(a) => Exits(a) \/ runner' = runner
  BY DEF Killed
<1>2. Exits(a) => Carried
  BY RunCarried DEF Exits
<1>3. runner' = runner => Carried
  BY RunCarried
<1> QED
  BY <1>1, <1>2, <1>3

\* A run sweeps and closes only what closes by itself.
LEMMA SweeperCarries ==
  ASSUME GateInv, RunsSpare, NEW a \in Agents, SweepChanges(a) \/ CloseChange(a)
  PROVE  /\ SameCalls /\ RunsSpare'
         /\ \A c \in AccessChanges : change'[c] = change[c]
<1>1. runner \in [Agents -> Runs] /\ change \in [Changes -> Gates] /\ AccessChanges \subseteq ManualChanges
      /\ ManualChanges \subseteq Changes
  BY GateAssumption DEF GateInv, RunsOK, GatesOK
<1>2. CASE SweepChanges(a)
  <2>1. PICK pc \in RunnerPcs, todo \in SUBSET Changes :
          /\ runner' = [runner EXCEPT ![a].pc = pc, ![a].todo = todo]
          /\ todo = SweepOf(a)
    BY <1>2 DEF SweepChanges, SweepOf, RunnerPcs
  <2>2. todo \cap AccessChanges = {} /\ change' = change
    BY <1>1, <1>2, <2>1 DEF SweepOf, AutoCompleteAllowed, SweepChanges
  <2>3. /\ runner'[a].todo = todo /\ runner'[a].change = runner[a].change
        /\ \A b \in Agents \ {a} : runner'[b] = runner[b]
    BY <1>1, <2>1 DEF Runs
  <2> QED
    BY <2>2, <2>3 DEF RunsSpare, SameCalls
<1>3. CASE CloseChange(a)
  <2>1. PICK d \in runner[a].todo :
          /\ change' = Closed(d)
          /\ runner' = [runner EXCEPT ![a].pc = IF runner[a].todo \ {d} = {} THEN "report" ELSE @,
                                      ![a].todo = runner[a].todo \ {d}]
    BY <1>3 DEF CloseChange
  <2>2. d \notin AccessChanges
    BY DEF RunsSpare
  <2>3. \A c \in AccessChanges : change'[c] = change[c]
    BY <1>1, <2>1, <2>2 DEF Closed
  <2>4. /\ runner'[a].todo = runner[a].todo \ {d} /\ runner'[a].change = runner[a].change
        /\ \A b \in Agents \ {a} : runner'[b] = runner[b]
    BY <1>1, <2>1 DEF Runs
  <2> QED
    BY <2>3, <2>4 DEF RunsSpare, SameCalls
<1> QED
  BY <1>2, <1>3

\* The access gates and those who write them are let be.
Spares == SameCalls /\ RunsSpare' /\ SameHandlers /\ \A c \in AccessChanges : SameGate(c)

LEMMA CarriedSpares ==
  ASSUME RunsSpare, Carried, \A c \in AccessChanges : change'[c] = change[c], UNCHANGED <<access, leases, request>>
  PROVE  Spares
  BY DEF Spares, Carried, RunsSpare, SameCalls, SameHandlers, SameGate

LEMMA AgentSpares ==
  ASSUME GateInv, RunsSpare, NEW a \in Agents, Work(a) \/ AgentExits(a) \/ Finish(a)
  PROVE  Spares \/ RequestChange(a) \/ OpenAccess(a)
<1>1. CASE AgentReports(a) \/ AgentLearns(a) \/ AgentResolves(a)
  <2>1. Carried
    BY <1>1, RunCarried DEF AgentReports, AgentLearns, AgentResolves
  <2> QED
    BY <1>1, <2>1, CarriedSpares DEF AgentReports, AgentLearns, AgentResolves
<1>2. CASE AgentExits(a)
  <2>1. Carried
    BY <1>2, ExitCarries DEF AgentExits
  <2> QED
    BY <1>2, <2>1, CarriedSpares DEF AgentExits
<1>3. CASE SweepChanges(a) \/ CloseChange(a)
  <2>1. UNCHANGED <<access, leases, request>>
    BY <1>3 DEF SweepChanges, CloseChange
  <2> QED
    BY <1>3, <2>1, SweeperCarries DEF Spares, SameHandlers, SameGate
<1>4. CASE ReadStopped(a) \/ ReadGates(a) \/ ResolveRecovered(a) \/ WriteTask(a) \/ WriteAgent(a)
           \/ ParkTicket(a) \/ ReportDone(a) \/ SettleTicket(a)
  <2>1. \E pc : Goto(a, pc)
    BY <1>4 DEF ReadStopped, ReadGates, ResolveRecovered, WriteTask, WriteAgent, ParkTicket, ReportDone, SettleTicket
  <2>2. Carried
    BY <2>1, RunCarried DEF Goto
  <2>3. UNCHANGED <<change, access, leases, request>>
    BY <1>4 DEF ReadStopped, ReadGates, ResolveRecovered, WriteTask, WriteAgent, ParkTicket, ReportDone, SettleTicket
  <2> QED
    BY <2>2, <2>3, CarriedSpares
<1>5. CASE CheckOthers(a) \/ ReadEvidence(a)
  <2>1. \E pc, outcome : \/ runner' = [runner EXCEPT ![a].pc = pc, ![a].outcome = outcome]
                         \/ runner' = [runner EXCEPT ![a].pc = pc]
    <3>1. CASE CheckOthers(a)
      BY <3>1 DEF CheckOthers
    <3>2. CASE ReadEvidence(a)
      <4>1. CASE TerminalEvidence(a)
        <5>1. runner' = [runner EXCEPT ![a].outcome = "recovered",
                 ![a].pc = IF ticket # "resolved" /\ CanAutoresolve(a) THEN "resolve" ELSE "writeTask"]
          BY <3>2, <4>1 DEF ReadEvidence
        <5>2. PICK pc : pc = IF ticket # "resolved" /\ CanAutoresolve(a) THEN "resolve" ELSE "writeTask"
          OBVIOUS
        <5>3. runner' = [runner EXCEPT ![a].pc = pc, ![a].outcome = "recovered"]
          BY <5>1, <5>2 DEF GateInv, RunsOK, Runs
        <5> QED
          BY <5>3
      <4>2. CASE ~TerminalEvidence(a)
        BY <3>2, <4>2 DEF ReadEvidence, Goto
      <4> QED
        BY <4>1, <4>2
    <3> QED
      BY <1>5, <3>1, <3>2
  <2>2. Carried
    BY <2>1, RunCarried
  <2> QED
    BY <1>5, <2>2, CarriedSpares DEF CheckOthers, ReadEvidence
<1>6. CASE SpawnContinuation(a)
  <2>1. PICK n : n = Newcomer
    OBVIOUS
  <2>2. runner' = [runner EXCEPT ![a].pc = "writeTask", ![n].pc = "working"]
    BY <1>6, <2>1 DEF SpawnContinuation
  <2>3. Carried
    BY <2>2, RunCarried
  <2> QED
    BY <1>6, <2>3, CarriedSpares DEF SpawnContinuation
<1> QED
  BY <1>1, <1>2, <1>3, <1>4, <1>5, <1>6 DEF Work, Finish

LEMMA SupervisorSpares ==
  ASSUME SupInv, RunsSpare, PassesSpare, Supervise
  PROVE  Spares
<1>1. GateInv
  BY DEF SupInv, GateRows
<1>2. ASSUME NEW a \in Agents, Hang(a) PROVE Spares
  <2>1. Carried
    BY <1>1, <1>2, RunCarried DEF Hang, Goto
  <2> QED
    BY <1>2, <2>1, CarriedSpares DEF Hang, Ticket
<1>3. ASSUME NEW p \in Audits, Audit(p) \/ AuditFails(p) PROVE Spares
  <2>1. CASE AuditCloses(p)
    <3>1. PICK d \in audit[p].todo : change' = Closed(d)
      BY <2>1 DEF AuditCloses
    <3>2. d \notin AccessChanges
      BY <1>3 DEF PassesSpare
    <3>3. \A c \in AccessChanges : change'[c] = change[c]
      BY <1>1, <3>1, <3>2, GateAssumption DEF Closed, GateInv, GatesOK
    <3>4. Carried
      BY <1>1, <2>1, RunCarried DEF AuditCloses
    <3> QED
      BY <2>1, <3>3, <3>4, CarriedSpares DEF AuditCloses
  <2>2. CASE AuditKills(p)
    <3>1. Carried
      BY <1>1, <2>2, ExitCarries DEF AuditKills
    <3> QED
      BY <2>2, <3>1, CarriedSpares DEF AuditKills, Ticket
  <2>3. CASE AuditSpawns(p)
    <3>1. PICK n : n = Newcomer
      OBVIOUS
    <3>2. Carried
      BY <1>1, <2>3, <3>1, RunCarried DEF AuditSpawns
    <3> QED
      BY <2>3, <3>2, CarriedSpares DEF AuditSpawns, Ticket
  <2>4. CASE ~AuditCloses(p) /\ ~AuditKills(p) /\ ~AuditSpawns(p)
    <3>1. UNCHANGED <<runner, change, access, leases, request>>
      BY <1>3, <2>4 DEF Audit, AuditStarts, AuditSweeps, AuditSeesOthers, AuditSeesPending, AuditRecovers,
         AuditResolves, AuditFinishesTask, AuditFinishesAgent, AuditJudges, AuditLooks, AuditCounts, AuditFails, Ticket
    <3>2. Carried
      BY <1>1, <3>1, RunCarried
    <3> QED
      BY <3>1, <3>2, CarriedSpares
  <2> QED
    BY <2>1, <2>2, <2>3, <2>4
<1>4. ASSUME NEW o \in Operators, Order(o) \/ Obey(o) PROVE Spares
  <2>1. UNCHANGED <<change, access, leases, request>>
    BY <1>4 DEF Order, Obey, ReadTask, StopProcess, StopTask, StopAgent, Reassign, SpawnAgain, Ticket
  <2>2. CASE StopProcess(o)
    <3>1. Carried
      BY <1>1, <2>2, ExitCarries DEF StopProcess
    <3> QED
      BY <2>1, <3>1, CarriedSpares
  <2>3. CASE SpawnAgain(o)
    <3>1. PICK n : n = Newcomer
      OBVIOUS
    <3>2. Carried
      BY <1>1, <2>3, <3>1, RunCarried DEF SpawnAgain
    <3> QED
      BY <2>1, <3>2, CarriedSpares
  <2>4. CASE Order(o) \/ ReadTask(o) \/ StopTask(o) \/ StopAgent(o) \/ Reassign(o)
    <3>1. runner' = runner
      BY <2>4 DEF Order, ReadTask, StopTask, StopAgent, Reassign
    <3>2. Carried
      BY <1>1, <3>1, RunCarried
    <3> QED
      BY <2>1, <3>2, CarriedSpares
  <2> QED
    BY <1>4, <2>2, <2>3, <2>4 DEF Obey
<1> QED
  BY <1>2, <1>3, <1>4 DEF Supervise

LEMMA TurnHasNoTodo == ASSUME NEW pass \in Passes PROVE Turn(pass).todo = {}
<1> DEFINE left == {a \in Agents : pass.seen[a] # "absent"}
           a == CHOOSE b \in left : \A c \in left : c <= b
           rest == [pass.seen EXCEPT ![a] = "absent"]
           pc == IF pass.seen[a] = "completed" THEN "sweep" ELSE "others"
           tries == [b \in Agents |-> IF b = a \/ rest[b] = "active" THEN pass.tries[b] ELSE 0]
           next == [pass EXCEPT !.pc = pc, !.at = a, !.seen = rest, !.todo = {}, !.tries = tries]
<1>1. Turn(pass) = IF left = {} THEN NoAudit ELSE next
  BY DEF Turn
<1> HIDE DEF left, a, rest, pc, tries
<1>2. next.todo = {} /\ NoAudit.todo = {}
  BY DEF Passes, NoAudit
<1> QED
  BY <1>1, <1>2

LEMMA PassesStaySpare ==
  ASSUME SupInv, PassesSpare, SupNext
  PROVE  PassesSpare'
<1>1. audit \in [Audits -> Passes] /\ PassTypes
  BY DEF SupInv, BudgetInv, PassTypes
<1>2. ASSUME NEW p \in Audits, Audit(p) \/ AuditFails(p)
      PROVE  \E pass : audit' = [audit EXCEPT ![p] = pass] /\ pass.todo \cap AccessChanges = {}
  <2>1. audit[p] \in Passes /\ audit[p].todo \cap AccessChanges = {}
    BY <1>1 DEF PassesSpare
  <2>2. Turn(audit[p]).todo = {} /\ NoAudit.todo = {}
    BY <2>1, TurnHasNoTodo DEF NoAudit
  <2>3. CASE NextAgent(p)
    BY <2>2, <2>3 DEF NextAgent
  <2>4. CASE audit' = [audit EXCEPT ![p] = NoAudit]
    BY <2>2, <2>4
  <2>5. ASSUME NEW pc, Proceed(p, pc)
        PROVE  \E pass : audit' = [audit EXCEPT ![p] = pass] /\ pass.todo \cap AccessChanges = {}
    <3>1. audit' = [audit EXCEPT ![p] = [audit[p] EXCEPT !.pc = pc]]
      BY <2>5 DEF Proceed
    <3>2. [audit[p] EXCEPT !.pc = pc].todo = audit[p].todo
      BY <2>1 DEF Passes
    <3> QED
      BY <2>1, <3>1, <3>2
  <2>6. CASE AuditStarts(p)
    <3>1. Turn(Started).todo = {}
      BY <1>1, StartedIsPass, TurnHasNoTodo
    <3>2. audit' = [audit EXCEPT ![p] = Turn(Started)]
      BY <2>6 DEF AuditStarts, Started
    <3> QED
      BY <3>1, <3>2
  <2>7. CASE AuditSweeps(p)
    <3> DEFINE pass == [audit[p] EXCEPT !.pc = "close", !.todo = SweepOf(audit[p].at)]
    <3>1. NextAgent(p) \/ audit' = [audit EXCEPT ![p].pc = "close", ![p].todo = SweepOf(audit[p].at)]
      BY <2>7 DEF AuditSweeps
    <3>2. SweepOf(audit[p].at) \cap AccessChanges = {}
      BY GateAssumption DEF SweepOf, AutoCompleteAllowed
    <3>3. audit' = [audit EXCEPT ![p].pc = "close", ![p].todo = SweepOf(audit[p].at)]
            => audit' = [audit EXCEPT ![p] = pass]
      BY <1>1
    <3>4. pass.todo = SweepOf(audit[p].at)
      BY <2>1 DEF Passes
    <3> HIDE DEF pass
    <3> QED
      BY <2>3, <3>1, <3>2, <3>3, <3>4
  <2>8. CASE AuditCloses(p)
    <3>1. PICK c \in audit[p].todo :
            NextAgent(p) \/ audit' = [audit EXCEPT ![p].todo = audit[p].todo \ {c}]
      BY <2>8 DEF AuditCloses
    <3> DEFINE pass == [audit[p] EXCEPT !.todo = audit[p].todo \ {c}]
    <3>2. pass.todo = audit[p].todo \ {c}
      BY <2>1 DEF Passes
    <3>3. audit' = [audit EXCEPT ![p].todo = audit[p].todo \ {c}] => audit' = [audit EXCEPT ![p] = pass]
      BY <1>1
    <3> HIDE DEF pass
    <3> QED
      BY <2>1, <2>3, <3>1, <3>2, <3>3
  <2>9. CASE AuditSeesOthers(p) \/ AuditSeesPending(p) \/ AuditRecovers(p) \/ AuditResolves(p) \/ AuditFinishesTask(p)
             \/ AuditFinishesAgent(p) \/ AuditJudges(p) \/ AuditLooks(p) \/ AuditSpawns(p)
    <3>1. NextAgent(p) \/ \E pc : Proceed(p, pc)
      BY <2>9 DEF AuditSeesOthers, AuditSeesPending, AuditRecovers, AuditResolves, AuditFinishesTask,
         AuditFinishesAgent, AuditJudges, AuditLooks, AuditSpawns
    <3> QED
      BY <2>3, <2>5, <3>1
  <2>10. CASE AuditKills(p) \/ AuditCounts(p) \/ AuditFails(p)
    <3>1. NextAgent(p) \/ audit' = [audit EXCEPT ![p] = NoAudit]
      BY <2>10 DEF AuditKills, AuditCounts, AuditFails
    <3> QED
      BY <2>3, <2>4, <3>1
  <2> QED
    BY <1>2, <2>6, <2>7, <2>8, <2>9, <2>10 DEF Audit
<1>3. ASSUME NEW p \in Audits, Audit(p) \/ AuditFails(p) PROVE PassesSpare'
  <2>1. PICK pass : audit' = [audit EXCEPT ![p] = pass] /\ pass.todo \cap AccessChanges = {}
    BY <1>2, <1>3
  <2> QED
    BY <1>1, <2>1 DEF PassesSpare
<1> QED
  BY <1>3, WhoActs DEF PassesSpare

LEMMA AccessInvKept ==
  ASSUME SupInv, AccessInv, OneDecides, SupNext
  PROVE  AccessInv'
<1>1. GateInv
  BY DEF SupInv, GateRows
<1>2. RunsSpare /\ PassesSpare
  BY DEF AccessInv
<1>3. PassesSpare'
  BY <1>2, PassesStaySpare
<1>4. CASE Spares
  <2>1. ASSUME NEW c \in AccessChanges PROVE Follows(c)'
    BY <1>4, QuietFollows DEF Spares, AccessInv
  <2> QED
    BY <1>3, <1>4, <2>1 DEF Spares, AccessInv
<1>5. ASSUME NEW a \in Agents, RequestChange(a) \/ OpenAccess(a) PROVE AccessInv'
  <2>1. \A c \in AccessChanges : Follows(c)'
    BY <1>1, <1>5, RequestFollows, OpenFollows DEF AccessInv
  <2>2. \A b \in Agents : runner'[b].todo = runner[b].todo
    <3>1. runner' = runner \/ \E c : runner' = [runner EXCEPT ![a].change = c]
      BY <1>5 DEF RequestChange, OpenAccess
    <3> QED
      BY <1>1, <3>1 DEF GateInv, RunsOK, Runs
  <2> QED
    BY <1>2, <1>3, <2>1, <2>2 DEF AccessInv, RunsSpare
<1>6. ASSUME NEW r \in Requests, Call(r) \/ Handle(r) PROVE AccessInv'
  <2>1. \A c \in AccessChanges : Follows(c)'
    BY <1>1, <1>6, HandlersFollow DEF AccessInv
  <2>2. \A b \in Agents : runner'[b].todo = runner[b].todo
    BY <1>1, <1>6, CallerSteps
  <2> QED
    BY <1>2, <1>3, <2>1, <2>2 DEF AccessInv, RunsSpare
<1>7. ASSUME NEW a \in Agents, Work(a) \/ AgentExits(a) \/ Finish(a) PROVE AccessInv'
  BY <1>1, <1>2, <1>4, <1>5, <1>7, AgentSpares
<1>8. Supervise => AccessInv'
  BY <1>2, <1>4, SupervisorSpares
<1> QED
  BY <1>6, <1>7, <1>8 DEF SupNext, GateStep, Next

LEMMA AccessInvStays ==
  ASSUME AccessInv, UNCHANGED allVars
  PROVE  AccessInv'
<1>1. UNCHANGED <<change, access, leases, request, runner, audit>>
  BY DEF allVars, vars, supVars
<1>2. RunsSpare' /\ PassesSpare'
  BY <1>1 DEF AccessInv, RunsSpare, PassesSpare
<1>3. ASSUME NEW c \in AccessChanges PROVE Follows(c)'
  <2>1. SameGate(c) /\ SameCalls /\ SameHandlers
    BY <1>1 DEF SameGate, SameCalls, SameHandlers
  <2> QED
    BY <2>1, QuietFollows DEF AccessInv
<1> QED
  BY <1>2, <1>3 DEF AccessInv

LEMMA InitAccess == SupInit => AccessInv
<1> SUFFICES ASSUME SupInit PROVE AccessInv
  OBVIOUS
<1>1. /\ runner = [a \in Agents |-> IF a = 1 THEN [NoRun EXCEPT !.pc = "working"] ELSE NoRun]
      /\ change = [c \in Changes |-> [status |-> "absent", agent |-> NoAgent]]
      /\ access = [c \in Changes |-> "none"] /\ leases = {}
      /\ request = [r \in Requests |-> NoCall] /\ audit = [p \in Audits |-> NoAudit]
  BY DEF SupInit, Init
<1>2. \A a \in Agents : runner[a].todo = {} /\ runner[a].change = NoChange
  BY <1>1 DEF NoRun
<1>3. RunsSpare /\ PassesSpare
  BY <1>1, <1>2 DEF RunsSpare, PassesSpare, NoAudit
<1>4. ASSUME NEW c \in AccessChanges PROVE Follows(c)
  <2>1. c \in Changes /\ c # NoChange
    BY GateAssumption
  <2>2. HalfOpen(c)
    BY <1>2, <2>1 DEF HalfOpen, Half
  <2>3. Agrees(c)
    BY <1>1, <2>1 DEF Agrees
  <2>4. \A r \in Requests : request[r].pc = "idle"
    BY <1>1 DEF NoCall
  <2> QED
    BY <1>1, <2>2, <2>3, <2>4 DEF Follows, Decides
<1> QED
  BY <1>3, <1>4 DEF AccessInv

\* As long as the decisions on one gate do not overlap between the read of the gate and
\* the write of its access request, an access request does not contradict its gate and a
\* lease belongs to a completed one, for any number of handlers, gates, agents and passes:
\* decisions on other gates, repeated calls, resumptions and sweeps may come at any time.
THEOREM AccessFollows == SupSpec /\ []OneDecides => []AccessFollowsGate
<1>1. SupInv /\ AccessInv /\ OneDecides /\ [SupNext]_allVars => AccessInv'
  BY AccessInvKept, AccessInvStays
<1>2. SupInv /\ [SupNext]_allVars => SupInv'
  BY SupInvKept, SupInvStays
<1>3. AccessInv => AccessFollowsGate
  <2> SUFFICES ASSUME AccessInv, NEW c \in AccessChanges,
                      \A r \in Requests : request[r].change # c \/ request[r].pc = "read"
               PROVE  (c \in leases => change[c].status = "completed") /\ Agrees(c)
    BY DEF AccessFollowsGate, Agrees
  <2>1. ~Syncing(c)
    BY DEF Syncing
  <2> QED
    BY <2>1 DEF AccessInv, Follows
<1> QED
  BY <1>1, <1>2, <1>3, InitSup, InitAccess, PTL DEF SupSpec
=============================================================================
