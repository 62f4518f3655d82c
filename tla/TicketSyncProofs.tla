-------------------------- MODULE TicketSyncProofs --------------------------
(***************************************************************************)
(* Proofs about TicketSync, for every set of coroutines, every scene and   *)
(* every bound.                                                            *)
(***************************************************************************)
EXTENDS TicketSync, SequenceTheorems, FiniteSetTheorems, TLAPS

-----------------------------------------------------------------------------
(* Sequences and maxima. *)

LEMMA Replaced ==
  ASSUME NEW S, NEW s \in Seq(S), NEW i, NEW v, i \in DOMAIN s => v \in S
  PROVE  /\ [s EXCEPT ![i] = v] \in Seq(S)
         /\ DOMAIN [s EXCEPT ![i] = v] = DOMAIN s
         /\ Len([s EXCEPT ![i] = v]) = Len(s)
         /\ \A j \in DOMAIN s : [s EXCEPT ![i] = v][j] = IF j = i THEN v ELSE s[j]
<1>1. CASE i \in DOMAIN s
  BY <1>1, ExceptSeq
<1>2. CASE i \notin DOMAIN s
  <2>1. [s EXCEPT ![i] = v] = s
    BY <1>2
  <2> QED
    BY <1>2, <2>1
<1> QED
  BY <1>1, <1>2

LEMMA Extended ==
  ASSUME NEW S, NEW s \in Seq(S), NEW v \in S
  PROVE  /\ Append(s, v) \in Seq(S) /\ Len(Append(s, v)) = Len(s) + 1
         /\ DOMAIN Append(s, v) = DOMAIN s \cup {Len(s) + 1}
         /\ Len(s) + 1 \notin DOMAIN s
         /\ \A j \in DOMAIN s : Append(s, v)[j] = s[j]
         /\ Append(s, v)[Len(s) + 1] = v
  BY AppendProperties

LEMMA MaxUpTo == ASSUME NEW n \in Nat \ {0} PROVE Max(1..n) = n
<1>1. n \in 1..n /\ \A y \in 1..n : n >= y
  OBVIOUS
<1>2. Max(1..n) \in 1..n /\ \A y \in 1..n : Max(1..n) >= y
  BY <1>1, Zenon DEF Max
<1> QED
  BY <1>1, <1>2

LEMMA MaxOfTwo == ASSUME NEW a \in Nat, NEW b \in Nat PROVE Max({a, b}) \in {a, b}
<1>1. \E x \in {a, b} : \A y \in {a, b} : x >= y
  OBVIOUS
<1> QED
  BY <1>1, Zenon DEF Max

-----------------------------------------------------------------------------
(* Type correctness: the shape of every variable, and that references point *)
(* at what exists.                                                          *)

Rows == [ref : Nat, status : Status, asked : Status \cup {None}, agent : Nat, told : BOOLEAN]
Agents == [ticket : Nat, active : BOOLEAN, runs : BOOLEAN, seen : BOOLEAN, revived : BOOLEAN, by : STRING]
Forms == [ticket : Nat, status : {"pending", "expired", "submitted"}, expired : BOOLEAN,
          stored : SUBSET Jobs]
Coroutines == [pc : Pcs, ticket : Nat, status : Status \cup {None}, asked : Status \cup {None},
               agent : Nat, form : Nat, key : Nat]
Objects == [status : Status, maker : Nat, linked : BOOLEAN, early : BOOLEAN]
Syncing == [todo : SUBSET Nat, key : Nat, got : Status \cup {None}, active : BOOLEAN,
            phase : {None, "full", "discover", "refresh"}, max : Nat, rounds : Nat]

Shapes ==
  /\ scene \in Scenes
  /\ ticket \in Seq(Rows) /\ agent \in Seq(Agents) /\ form \in Seq(Forms)
  /\ job \in [Jobs -> Coroutines]
  /\ object \in Seq(Objects) /\ sync \in [Jobs -> Syncing]
  /\ maxKey \in 0..Len(object) /\ rushed \in BOOLEAN

\* Where a coroutine goes on with a ticket, a form, an object.
AtTicket == {"change", "resolve", "assign", "poll", "again", "closed", "stop", "drop", "clear", "same",
             "review", "form", "note", "mark", "gate", "remember", "answer", "resume", "look", "spawn", "link", "make",
             "bind", "confirm", "failed", "auto", "capacity", "update"}
AtForm == {"store", "expire", "submitted", "waiting"}
AtObject == {"get", "select", "update", "insert"}

Linked(k) ==
  /\ ticket[k].ref \in 0..Len(object) /\ ticket[k].agent \in 0..Len(agent)
  /\ ticket[k].agent # 0 => agent[ticket[k].agent].ticket = k
Unique == \A j, k \in DOMAIN ticket : ticket[j].ref = ticket[k].ref /\ ticket[k].ref # 0 => j = k
Links ==
  /\ raced \cup closed \subseteq DOMAIN ticket
  /\ \A k \in DOMAIN ticket : Linked(k)
  /\ \A a \in DOMAIN agent : agent[a].ticket \in DOMAIN ticket
  /\ \A f \in DOMAIN form : form[f].ticket \in DOMAIN ticket

Tied(c) ==
  /\ job[c].ticket \in 0..Len(ticket) /\ job[c].form \in 0..Len(form)
  /\ job[c].pc \in AtTicket => job[c].ticket # 0
  /\ job[c].pc \in AtForm => job[c].form # 0
  /\ job[c].pc = "prior" => scene.orders[c].ticket \in DOMAIN ticket
  /\ job[c].pc = "link" => job[c].agent \in DOMAIN agent /\ agent[job[c].agent].ticket = job[c].ticket
  /\ job[c].pc = "bind" => job[c].key \in Keys
Synced(s) ==
  /\ sync[s].todo \subseteq Keys /\ {sync[s].key, sync[s].max} \subseteq 0..Len(object)
  /\ sync[s].rounds \in 0..FullEvery
  /\ job[s].pc \in AtObject => sync[s].key # 0
  /\ job[s].pc \in AtObject \ {"get"} => sync[s].got \in Status
  /\ job[s].pc = "update" => job[s].status \in Status /\ job[s].key = sync[s].key

TypeInv == Shapes /\ Unique /\ Links /\ \A c \in Jobs : Tied(c) /\ Synced(c)

-----------------------------------------------------------------------------
(* The moves of a coroutine.                                               *)

LEMMA Going ==
  ASSUME job \in [Jobs -> Coroutines], NEW c \in Jobs, NEW pc \in Pcs, Goto(c, pc)
  PROVE  /\ job' \in [Jobs -> Coroutines]
         /\ \A d \in Jobs \ {c} : job'[d] = job[d]
         /\ job'[c] = [job[c] EXCEPT !.pc = pc]
         /\ job'[c].pc = pc /\ job'[c].ticket = job[c].ticket /\ job'[c].status = job[c].status
         /\ job'[c].asked = job[c].asked /\ job'[c].agent = job[c].agent
         /\ job'[c].form = job[c].form /\ job'[c].key = job[c].key
<1>1. job' = [job EXCEPT ![c].pc = pc]
  BY DEF Goto
<1>2. job[c] \in Coroutines
  OBVIOUS
<1>3. [job[c] EXCEPT !.pc = pc] \in Coroutines
  BY <1>2 DEF Coroutines
<1> QED
  BY <1>1, <1>2, <1>3 DEF Coroutines

LEMMA Returning ==
  ASSUME job \in [Jobs -> Coroutines], NEW c \in Jobs, Return(c)
  PROVE  /\ job' \in [Jobs -> Coroutines]
         /\ \A d \in Jobs \ {c} : job'[d] = job[d]
         /\ job'[c].pc \in {"next", "done"} /\ job'[c].ticket = 0 /\ job'[c].form = 0 /\ job'[c].key = 0
<1> DEFINE pc == IF op(c) \in {"refresh", "syncAll", "loop"} THEN "next" ELSE "done"
           v == [NoJob EXCEPT !.pc = pc]
<1>1. job' = [job EXCEPT ![c] = v]
  BY DEF Return
<1>2. pc \in {"next", "done"}
  OBVIOUS
<1> HIDE DEF pc
<1>3. v \in Coroutines /\ v.pc = pc /\ v.ticket = 0 /\ v.form = 0 /\ v.key = 0
  BY <1>2 DEF Coroutines, NoJob, Pcs, None
<1> QED
  BY <1>1, <1>2, <1>3

LEMMA Seeing ==
  ASSUME job \in [Jobs -> Coroutines], ticket \in Seq(Rows), NEW c \in Jobs, NEW pc \in Pcs,
         NEW k \in DOMAIN ticket, job' = Saw(c, k, pc)
  PROVE  /\ job' \in [Jobs -> Coroutines]
         /\ \A d \in Jobs \ {c} : job'[d] = job[d]
         /\ job'[c].pc = pc /\ job'[c].ticket = k /\ job'[c].status = ticket[k].status
         /\ job'[c].asked = ticket[k].asked /\ job'[c].agent = ticket[k].agent
         /\ job'[c].form = job[c].form /\ job'[c].key = ticket[k].ref
<1> DEFINE v == [job[c] EXCEPT !.pc = pc, !.ticket = k, !.status = ticket[k].status,
                               !.asked = ticket[k].asked, !.agent = ticket[k].agent, !.key = ticket[k].ref]
<1>1. job' = [job EXCEPT ![c] = v]
  BY DEF Saw
<1>2. job[c] \in Coroutines /\ ticket[k] \in Rows /\ k \in Nat
  OBVIOUS
<1>3. v \in Coroutines /\ v.pc = pc /\ v.ticket = k /\ v.status = ticket[k].status
      /\ v.asked = ticket[k].asked /\ v.agent = ticket[k].agent /\ v.form = job[c].form /\ v.key = ticket[k].ref
  BY <1>2 DEF Coroutines, Rows
<1> QED
  BY <1>1, <1>3

-----------------------------------------------------------------------------
(* The moves of the tables.                                                *)

LEMMA Indices == ASSUME NEW S, NEW s \in Seq(S) PROVE Len(s) \in Nat /\ DOMAIN s = 1..Len(s)
  OBVIOUS

\* A row gets another status, another previous status, another agent.
LEMMA Overwritten ==
  ASSUME ticket \in Seq(Rows), NEW k, NEW status \in Status, NEW asked \in Status \cup {None},
         ticket' = [ticket EXCEPT ![k].status = status, ![k].asked = asked]
  PROVE  /\ ticket' \in Seq(Rows) /\ DOMAIN ticket' = DOMAIN ticket /\ Len(ticket') = Len(ticket)
         /\ \A j \in DOMAIN ticket :
              /\ ticket'[j].ref = ticket[j].ref /\ ticket'[j].agent = ticket[j].agent
              /\ ticket'[j].status = IF j = k THEN status ELSE ticket[j].status
<1> DEFINE v == [ticket[k] EXCEPT !.status = status, !.asked = asked]
<1>1. k \in DOMAIN ticket => v \in Rows /\ v.ref = ticket[k].ref /\ v.agent = ticket[k].agent /\ v.status = status
  <2> SUFFICES ASSUME k \in DOMAIN ticket
               PROVE  v \in Rows /\ v.ref = ticket[k].ref /\ v.agent = ticket[k].agent /\ v.status = status
    OBVIOUS
  <2>1. ticket[k] \in Rows
    OBVIOUS
  <2> QED
    BY <2>1 DEF Rows
<1>2. ticket' = [ticket EXCEPT ![k] = v]
  OBVIOUS
<1> HIDE DEF v
<1>3. /\ [ticket EXCEPT ![k] = v] \in Seq(Rows) /\ DOMAIN [ticket EXCEPT ![k] = v] = DOMAIN ticket
      /\ Len([ticket EXCEPT ![k] = v]) = Len(ticket)
      /\ \A j \in DOMAIN ticket : [ticket EXCEPT ![k] = v][j] = IF j = k THEN v ELSE ticket[j]
  BY <1>1, Replaced
<1> QED
  BY <1>1, <1>2, <1>3

\* The ways in which the row of agent a, or that of its task, is written.
AgentChanges(a) ==
  \/ agent' = agent
  \/ agent' = [agent EXCEPT ![a].active = FALSE]
  \/ agent' = [agent EXCEPT ![a].runs = FALSE]
  \/ agent' = Finished(a)
  \/ agent' = [agent EXCEPT ![a].seen = TRUE]
  \/ agent' = [agent EXCEPT ![a] = [@ EXCEPT !.seen = FALSE, !.runs = TRUE, !.active = TRUE,
                                            !.revived = agent[a].revived \/ ~Works(a)]]

LEMMA AgentPut ==
  ASSUME agent \in Seq(Agents), NEW a, NEW v, agent' = [agent EXCEPT ![a] = v],
         a \in DOMAIN agent => /\ v \in Agents /\ v.ticket = agent[a].ticket /\ v.by = agent[a].by
                               /\ v.active /\ v.runs /\ ~v.revived => Works(a)
  PROVE  /\ agent' \in Seq(Agents) /\ DOMAIN agent' = DOMAIN agent /\ Len(agent') = Len(agent)
         /\ \A b \in DOMAIN agent : agent'[b].ticket = agent[b].ticket /\ agent'[b].by = agent[b].by
                                   /\ (Works(b)' => Works(b))
<1>1. /\ [agent EXCEPT ![a] = v] \in Seq(Agents) /\ DOMAIN [agent EXCEPT ![a] = v] = DOMAIN agent
      /\ Len([agent EXCEPT ![a] = v]) = Len(agent)
      /\ \A b \in DOMAIN agent : [agent EXCEPT ![a] = v][b] = IF b = a THEN v ELSE agent[b]
  <2>1. a \in DOMAIN agent => v \in Agents
    OBVIOUS
  <2> QED
    BY <2>1, Replaced
<1> QED
  BY <1>1 DEF Works

\* Whichever it is, the agent stays what it is, and does not come to work by it.
LEMMA AgentChanged ==
  ASSUME agent \in Seq(Agents), NEW a, AgentChanges(a)
  PROVE  /\ agent' \in Seq(Agents) /\ DOMAIN agent' = DOMAIN agent /\ Len(agent') = Len(agent)
         /\ \A b \in DOMAIN agent : agent'[b].ticket = agent[b].ticket /\ agent'[b].by = agent[b].by
                                   /\ (Works(b)' => Works(b))
<1>0. a \in DOMAIN agent => agent[a] \in Agents
  OBVIOUS
<1>1. CASE agent' = agent
  BY <1>1 DEF Works
<1>2. CASE agent' = [agent EXCEPT ![a].active = FALSE]
  <2> DEFINE v == [agent[a] EXCEPT !.active = FALSE]
  <2>1. a \in DOMAIN agent => v \in Agents /\ v.ticket = agent[a].ticket /\ v.by = agent[a].by /\ ~v.active
    BY <1>0 DEF Agents
  <2>2. agent' = [agent EXCEPT ![a] = v]
    BY <1>2
  <2> HIDE DEF v
  <2> QED
    BY <2>1, <2>2, AgentPut
<1>3. CASE agent' = [agent EXCEPT ![a].runs = FALSE]
  <2> DEFINE v == [agent[a] EXCEPT !.runs = FALSE]
  <2>1. a \in DOMAIN agent => v \in Agents /\ v.ticket = agent[a].ticket /\ v.by = agent[a].by /\ ~v.runs
    BY <1>0 DEF Agents
  <2>2. agent' = [agent EXCEPT ![a] = v]
    BY <1>3
  <2> HIDE DEF v
  <2> QED
    BY <2>1, <2>2, AgentPut
<1>4. CASE agent' = Finished(a)
  <2> DEFINE v == [agent[a] EXCEPT !.runs = FALSE, !.active = FALSE]
  <2>1. a \in DOMAIN agent => v \in Agents /\ v.ticket = agent[a].ticket /\ v.by = agent[a].by /\ ~v.active
    BY <1>0 DEF Agents
  <2>2. agent' = [agent EXCEPT ![a] = v]
    BY <1>4 DEF Finished
  <2> HIDE DEF v
  <2> QED
    BY <2>1, <2>2, AgentPut
<1>5. CASE agent' = [agent EXCEPT ![a].seen = TRUE]
  <2> DEFINE v == [agent[a] EXCEPT !.seen = TRUE]
  <2>1. a \in DOMAIN agent => /\ v \in Agents /\ v.ticket = agent[a].ticket /\ v.by = agent[a].by
                              /\ v.active /\ v.runs /\ ~v.revived => Works(a)
    BY <1>0 DEF Agents, Works
  <2>2. agent' = [agent EXCEPT ![a] = v]
    BY <1>5
  <2> HIDE DEF v
  <2> QED
    BY <2>1, <2>2, AgentPut
<1>6. CASE agent' = [agent EXCEPT ![a] = [@ EXCEPT !.seen = FALSE, !.runs = TRUE, !.active = TRUE,
                                                  !.revived = agent[a].revived \/ ~Works(a)]]
  <2>1. PICK x \in BOOLEAN : x = (agent[a].revived \/ ~Works(a))
    OBVIOUS
  <2> DEFINE v == [agent[a] EXCEPT !.seen = FALSE, !.runs = TRUE, !.active = TRUE, !.revived = x]
  <2>2. a \in DOMAIN agent => v \in Agents /\ v.ticket = agent[a].ticket /\ v.by = agent[a].by /\ v.revived = x
    BY <1>0 DEF Agents
  <2>3. agent' = [agent EXCEPT ![a] = v]
    BY <1>6, <2>1
  <2> HIDE DEF v
  <2> QED
    BY <2>1, <2>2, <2>3, AgentPut
<1> QED
  BY <1>1, <1>2, <1>3, <1>4, <1>5, <1>6 DEF AgentChanges

-----------------------------------------------------------------------------
(* What a step that only adds rows leaves to be shown.                     *)

\* Rows are added, and what refers to them stays.
Grown ==
  /\ scene' = scene
  /\ DOMAIN ticket \subseteq DOMAIN ticket' /\ DOMAIN agent \subseteq DOMAIN agent'
  /\ DOMAIN form \subseteq DOMAIN form' /\ DOMAIN object \subseteq DOMAIN object'
  /\ \A a \in DOMAIN agent : agent'[a].ticket = agent[a].ticket

Others(c) == \A d \in Jobs \ {c} : job'[d] = job[d] /\ sync'[d] = sync[d]

LEMMA Lengths ==
  ASSUME Shapes, Shapes', Grown
  PROVE  /\ Len(ticket) <= Len(ticket') /\ Len(agent) <= Len(agent')
         /\ Len(form) <= Len(form') /\ Len(object) <= Len(object')
         /\ {Len(ticket), Len(ticket'), Len(agent), Len(agent'), Len(form), Len(form'),
             Len(object), Len(object')} \subseteq Nat
<1>1. /\ DOMAIN ticket = 1..Len(ticket) /\ DOMAIN agent = 1..Len(agent)
      /\ DOMAIN form = 1..Len(form) /\ DOMAIN object = 1..Len(object)
      /\ {Len(ticket), Len(agent), Len(form), Len(object)} \subseteq Nat
  BY DEF Shapes
<1>2. /\ DOMAIN ticket' = 1..Len(ticket') /\ DOMAIN agent' = 1..Len(agent')
      /\ DOMAIN form' = 1..Len(form') /\ DOMAIN object' = 1..Len(object')
      /\ {Len(ticket'), Len(agent'), Len(form'), Len(object')} \subseteq Nat
  BY DEF Shapes
<1>3. \A m, n \in Nat : 1..m \subseteq 1..n => m <= n
  <2> SUFFICES ASSUME NEW m \in Nat, NEW n \in Nat, 1..m \subseteq 1..n PROVE m <= n
    OBVIOUS
  <2>1. CASE m = 0
    BY <2>1
  <2>2. CASE m # 0
    <3>1. m \in 1..m
      BY <2>2
    <3> QED
      BY <3>1
  <2> QED
    BY <2>1, <2>2
<1> QED
  BY <1>1, <1>2, <1>3 DEF Grown

LEMMA Kept ==
  ASSUME TypeInv, Shapes', Grown, NEW d \in Jobs, job'[d] = job[d], sync'[d] = sync[d]
  PROVE  Tied(d)' /\ Synced(d)'
<1>1. job[d] \in Coroutines /\ sync[d] \in Syncing /\ Tied(d) /\ Synced(d)
  BY DEF TypeInv, Shapes
<1>2. Tied(d)'
  BY <1>1, Lengths DEF TypeInv, Tied, Grown, Coroutines, Keys
<1>3. Synced(d)'
  BY <1>1, Lengths DEF TypeInv, Synced, Grown, Syncing, Keys
<1> QED
  BY <1>2, <1>3

\* One coroutine moved: what holds of the others holds still.
LEMMA OneMoved ==
  ASSUME TypeInv, Shapes', Grown, NEW c \in Jobs, Others(c), Unique', Links', Tied(c)', Synced(c)'
  PROVE  TypeInv'
<1>1. ASSUME NEW d \in Jobs PROVE Tied(d)' /\ Synced(d)'
  <2>1. CASE d = c
    BY <2>1
  <2>2. CASE d # c
    BY <2>2, Kept DEF Others
  <2> QED
    BY <2>1, <2>2
<1> QED
  BY <1>1 DEF TypeInv

\* No row refers to another thing than before.
LEMMA SameRefs ==
  ASSUME TypeInv, Shapes', Grown, DOMAIN ticket' = DOMAIN ticket,
         \A a \in DOMAIN agent' : agent'[a].ticket \in DOMAIN ticket,
         (raced \cup closed)' \subseteq DOMAIN ticket',
         \A k \in DOMAIN ticket : ticket'[k].ref = ticket[k].ref /\ ticket'[k].agent \in {0, ticket[k].agent},
         \A f \in DOMAIN form' : form'[f].ticket \in DOMAIN ticket
  PROVE  Unique' /\ Links'
<1>1. Unique'
  BY DEF TypeInv, Unique
<1>2. ASSUME NEW k \in DOMAIN ticket PROVE Linked(k)'
  <2>1. Linked(k) /\ ticket[k] \in Rows
    BY DEF TypeInv, Links, Shapes
  <2>2. ticket'[k].ref \in 0..Len(object')
    BY <2>1, Lengths DEF Linked, Rows, TypeInv
  <2>3. ticket'[k].agent \in 0..Len(agent')
    BY <2>1, Lengths DEF Linked, Rows, TypeInv
  <2>4. ticket'[k].agent # 0 => agent'[ticket'[k].agent].ticket = k
    <3>1. ticket[k].agent # 0 => ticket[k].agent \in DOMAIN agent
      BY <2>1 DEF Linked, TypeInv, Shapes
    <3> QED
      BY <2>1, <3>1 DEF Linked, Grown
  <2> QED
    BY <2>2, <2>3, <2>4 DEF Linked
<1> QED
  BY <1>1, <1>2 DEF TypeInv, Links, Grown

\* The tables have the rows and the references they had.
SameRows ==
  /\ ticket' \in Seq(Rows) /\ DOMAIN ticket' = DOMAIN ticket
  /\ \A k \in DOMAIN ticket : ticket'[k].ref = ticket[k].ref /\ ticket'[k].agent \in {0, ticket[k].agent}
  /\ agent' \in Seq(Agents) /\ DOMAIN agent' = DOMAIN agent
  /\ \A a \in DOMAIN agent : agent'[a].ticket = agent[a].ticket
  /\ form' \in Seq(Forms) /\ DOMAIN form' = DOMAIN form
  /\ \A f \in DOMAIN form : form'[f].ticket = form[f].ticket
  /\ (raced \cup closed)' \subseteq DOMAIN ticket

JobMoved(c) == job' \in [Jobs -> Coroutines] /\ \A d \in Jobs \ {c} : job'[d] = job[d]
SyncMoved(c) == sync' \in [Jobs -> Syncing] /\ \A d \in Jobs \ {c} : sync'[d] = sync[d]

LEMMA RefsStay ==
  ASSUME TypeInv, Shapes', Grown, SameRows
  PROVE  Unique' /\ Links'
<1>1. \A a \in DOMAIN agent' : agent'[a].ticket \in DOMAIN ticket
  BY DEF SameRows, TypeInv, Links
<1>2. \A f \in DOMAIN form' : form'[f].ticket \in DOMAIN ticket
  BY DEF SameRows, TypeInv, Links
<1> QED
  BY <1>1, <1>2, SameRefs DEF SameRows

\* The provider and its files as a coroutine finds them that does not sync.
Beside ==
  /\ scene' = scene /\ sync' = sync /\ maxKey' = maxKey /\ rushed' \in BOOLEAN
  /\ object' \in Seq(Objects) /\ DOMAIN object \subseteq DOMAIN object'

LEMMA Alone == ASSUME TypeInv, scene' = scene, UNCHANGED provVars PROVE Beside
  BY DEF TypeInv, Shapes, Beside, provVars

LEMMA MoreObjects ==
  ASSUME TypeInv, object' \in Seq(Objects), DOMAIN object \subseteq DOMAIN object'
  PROVE  {Len(object), Len(object')} \subseteq Nat /\ Len(object) <= Len(object')
<1>1. DOMAIN object = 1..Len(object) /\ DOMAIN object' = 1..Len(object') /\ {Len(object), Len(object')} \subseteq Nat
  BY DEF TypeInv, Shapes
<1>2. CASE Len(object) = 0
  BY <1>1, <1>2
<1>3. CASE Len(object) # 0
  <2>1. Len(object) \in DOMAIN object
    BY <1>1, <1>3
  <2>2. Len(object) \in DOMAIN object'
    BY <2>1
  <2> QED
    BY <1>1, <2>2
<1> QED
  BY <1>2, <1>3

\* A step beside the provider: objects are not lost.
LEMMA SyncStep ==
  ASSUME TypeInv, NEW c \in Jobs, scene' = scene, SameRows, JobMoved(c), SyncMoved(c),
         object' \in Seq(Objects), DOMAIN object \subseteq DOMAIN object',
         maxKey' \in 0..Len(object'), rushed' \in BOOLEAN, Tied(c)', Synced(c)'
  PROVE  TypeInv'
<1>1. Shapes'
  BY DEF TypeInv, Shapes, SameRows, JobMoved, SyncMoved
<1>2. Grown /\ Others(c)
  BY DEF TypeInv, Grown, SameRows, Others, JobMoved, SyncMoved
<1>3. Unique' /\ Links'
  BY <1>1, <1>2, RefsStay
<1> QED
  BY <1>1, <1>2, <1>3, OneMoved

\* A step of one coroutine that does not sync.
LEMMA BesideStep ==
  ASSUME TypeInv, NEW c \in Jobs, Beside, SameRows, JobMoved(c), Tied(c)', job'[c].pc \notin AtObject
  PROVE  TypeInv'
<1>1. maxKey' \in 0..Len(object') /\ SyncMoved(c)
  BY MoreObjects DEF TypeInv, Shapes, Beside, SyncMoved
<1>2. Synced(c)'
  <2>1. sync'[c] = sync[c] /\ sync[c] \in Syncing /\ Synced(c)
    BY DEF Beside, TypeInv, Shapes
  <2> QED
    BY <2>1, MoreObjects DEF Synced, Keys, AtObject, Beside, Syncing
<1> QED
  BY <1>1, <1>2, SyncStep DEF Beside

LEMMA DeskStep ==
  ASSUME TypeInv, NEW c \in Jobs, scene' = scene, UNCHANGED provVars, SameRows, JobMoved(c),
         Tied(c)', job'[c].pc \notin AtObject
  PROVE  TypeInv'
  BY Alone, BesideStep

\* A step that no coroutine takes.
LEMMA QuietStep ==
  ASSUME TypeInv, scene' = scene, SameRows, job' = job, sync' = sync,
         object' \in Seq(Objects), DOMAIN object \subseteq DOMAIN object', maxKey' = maxKey, rushed' = rushed
  PROVE  TypeInv'
<1>1. maxKey' \in 0..Len(object')
  BY MoreObjects DEF TypeInv, Shapes
<1>2. Shapes' /\ Grown
  BY <1>1 DEF SameRows, TypeInv, Shapes, Grown
<1>3. Unique' /\ Links'
  BY <1>2, RefsStay
<1>4. \A d \in Jobs : Tied(d)' /\ Synced(d)'
  <2> SUFFICES ASSUME NEW d \in Jobs PROVE Tied(d)' /\ Synced(d)'
    OBVIOUS
  <2>1. job'[d] = job[d] /\ sync'[d] = sync[d]
    OBVIOUS
  <2> QED
    BY <1>2, <2>1, Kept
<1> QED
  BY <1>2, <1>3, <1>4 DEF TypeInv

LEMMA NothingWritten ==
  ASSUME TypeInv, UNCHANGED <<rows, closed>>, raced' \subseteq DOMAIN ticket
  PROVE  SameRows
  BY DEF TypeInv, Shapes, Links, SameRows, rows

LEMMA TicketWritten ==
  ASSUME TypeInv, UNCHANGED <<agent, form, raced>>, ticket' \in Seq(Rows), DOMAIN ticket' = DOMAIN ticket,
         \A k \in DOMAIN ticket : ticket'[k].ref = ticket[k].ref /\ ticket'[k].agent \in {0, ticket[k].agent},
         closed' \subseteq DOMAIN ticket
  PROVE  SameRows
  BY DEF TypeInv, Shapes, Links, SameRows

LEMMA AgentWritten ==
  ASSUME TypeInv, UNCHANGED <<ticket, form, raced, closed>>, NEW a,
         AgentChanges(a)
  PROVE  SameRows
<1>1. agent \in Seq(Agents)
  BY DEF TypeInv, Shapes
<1>2. /\ agent' \in Seq(Agents) /\ DOMAIN agent' = DOMAIN agent
      /\ \A b \in DOMAIN agent : agent'[b].ticket = agent[b].ticket
  BY <1>1, AgentChanged
<1> QED
  BY <1>2 DEF TypeInv, Shapes, Links, SameRows

LEMMA OrderTypes ==
  ASSUME TypeInv, NEW c \in Jobs
  PROVE  op(c) \in STRING /\ scene.orders[c].to \in Status /\ scene.moves \subseteq Status
  BY ReplyAssumption, SyncAssumption DEF TypeInv, Shapes, op

LEMMA OnTicket ==
  ASSUME TypeInv, NEW c \in Jobs, job[c].pc \in AtTicket
  PROVE  job[c].ticket \in DOMAIN ticket /\ Row(c) \in Rows
<1>1. job[c].ticket \in 0..Len(ticket) /\ job[c].ticket # 0
  BY DEF TypeInv, Tied
<1> QED
  BY <1>1 DEF TypeInv, Shapes, Row
LEMMA OnForm ==
  ASSUME TypeInv, NEW c \in Jobs, job[c].pc \in AtForm
  PROVE  job[c].form \in DOMAIN form /\ form[job[c].form].ticket \in DOMAIN ticket
<1>1. job[c].form \in 0..Len(form) /\ job[c].form # 0
  BY DEF TypeInv, Tied
<1>2. job[c].form \in DOMAIN form
  BY <1>1 DEF TypeInv, Shapes
<1> QED
  BY <1>2 DEF TypeInv, Links
LEMMA OnObject ==
  ASSUME TypeInv, NEW s \in Jobs, job[s].pc \in AtObject
  PROVE  sync[s].key \in DOMAIN object /\ object[sync[s].key].status \in Status
<1>1. sync[s].key \in 0..Len(object) /\ sync[s].key # 0
  BY DEF TypeInv, Synced
<1>2. sync[s].key \in DOMAIN object
  BY <1>1 DEF TypeInv, Shapes
<1>3. object[sync[s].key] \in Objects
  BY <1>2 DEF TypeInv, Shapes
<1> QED
  BY <1>2, <1>3 DEF Objects

-----------------------------------------------------------------------------
(* Every action of the desk keeps the types.                               *)

\* Going on at the same ticket and form with another task.
LEMMA GoesBeside ==
  ASSUME TypeInv, NEW c \in Jobs, NEW pc \in Pcs, Goto(c, pc), Beside, SameRows,
         pc \notin AtObject \cup {"prior", "link", "bind"},
         pc \in AtTicket => job[c].pc \in AtTicket,
         pc \in AtForm => job[c].pc \in AtForm
  PROVE  TypeInv'
<1>1. Shapes /\ job[c] \in Coroutines /\ Tied(c)
  BY DEF TypeInv, Shapes
<1>2. /\ JobMoved(c) /\ job'[c].pc = pc
      /\ job'[c].ticket = job[c].ticket /\ job'[c].form = job[c].form
  BY <1>1, Going DEF JobMoved, Shapes
<1>3. Len(ticket') = Len(ticket) /\ Len(form') = Len(form)
  BY <1>1 DEF SameRows, Shapes
<1>4. Tied(c)'
  BY <1>1, <1>2, <1>3 DEF Tied
<1> QED
  BY <1>2, <1>4, BesideStep

LEMMA GoesOn ==
  ASSUME TypeInv, NEW c \in Jobs, NEW pc \in Pcs, Goto(c, pc), scene' = scene, UNCHANGED provVars, SameRows,
         pc \notin AtObject \cup {"prior", "link", "bind"},
         pc \in AtTicket => job[c].pc \in AtTicket,
         pc \in AtForm => job[c].pc \in AtForm
  PROVE  TypeInv'
  BY Alone, GoesBeside

LEMMA ReturnTied ==
  ASSUME TypeInv, NEW c \in Jobs, Return(c), SameRows
  PROVE  JobMoved(c) /\ job'[c].pc \in {"next", "done"} /\ Tied(c)'
<1>1. Shapes /\ JobMoved(c) /\ job'[c].pc \in {"next", "done"} /\ job'[c].ticket = 0 /\ job'[c].form = 0
  BY Returning DEF JobMoved, TypeInv, Shapes
<1>2. Len(ticket') \in Nat /\ Len(form') \in Nat
  BY DEF SameRows
<1> QED
  BY <1>1, <1>2 DEF Tied, AtTicket, AtForm

LEMMA ReturnsBeside ==
  ASSUME TypeInv, NEW c \in Jobs, Return(c), Beside, SameRows
  PROVE  TypeInv'
<1>1. JobMoved(c) /\ job'[c].pc \in {"next", "done"} /\ Tied(c)'
  BY ReturnTied
<1>2. job'[c].pc \notin AtObject
  BY <1>1 DEF AtObject
<1> QED
  BY <1>1, <1>2, BesideStep

LEMMA Returns ==
  ASSUME TypeInv, NEW c \in Jobs, Return(c), scene' = scene, UNCHANGED provVars, SameRows
  PROVE  TypeInv'
  BY Alone, ReturnsBeside

LEMMA SeesTied ==
  ASSUME TypeInv, NEW c \in Jobs, NEW pc \in Pcs, NEW k \in DOMAIN ticket, job' = Saw(c, k, pc), SameRows,
         pc \notin AtForm \cup {"prior", "link", "bind"}
  PROVE  JobMoved(c) /\ job'[c].pc = pc /\ Tied(c)'
<1>1. /\ Shapes /\ JobMoved(c) /\ job'[c].pc = pc /\ job'[c].ticket = k /\ job'[c].form = job[c].form
      /\ Tied(c) /\ job[c] \in Coroutines
  BY Seeing DEF JobMoved, TypeInv, Shapes
<1>2. Len(ticket') = Len(ticket) /\ Len(form') = Len(form) /\ k \in 1..Len(ticket)
  BY <1>1 DEF SameRows, Shapes
<1> QED
  BY <1>1, <1>2 DEF Tied

LEMMA Sees ==
  ASSUME TypeInv, NEW c \in Jobs, NEW pc \in Pcs, NEW k \in DOMAIN ticket, job' = Saw(c, k, pc),
         scene' = scene, UNCHANGED provVars, SameRows,
         pc \notin AtForm \cup AtObject \cup {"prior", "link", "bind"}
  PROVE  TypeInv'
  BY SeesTied, DeskStep

LEMMA BeginsSomewhere ==
  ASSUME TypeInv, NEW c \in Jobs, op(c) \in Handlers
  PROVE  Begins(c) \in {"change", "resolve", "note", "form", "answer", "look", "drop", "same", "make"}
  BY DEF Begins, Handlers

LEMMA WritesTicket ==
  ASSUME TypeInv, NEW c \in Jobs, job[c].pc \in AtTicket, NEW status \in Status, NEW asked \in Status \cup {None},
         Write(c, status, asked)
  PROVE  /\ ticket' \in Seq(Rows) /\ DOMAIN ticket' = DOMAIN ticket /\ closed' \subseteq DOMAIN ticket
         /\ \A k \in DOMAIN ticket :
              /\ ticket'[k].ref = ticket[k].ref /\ ticket'[k].agent = ticket[k].agent
              /\ ticket'[k].status = IF k = job[c].ticket THEN status ELSE ticket[k].status
<1>1. ticket \in Seq(Rows) /\ job[c].ticket \in DOMAIN ticket
  BY OnTicket DEF TypeInv, Shapes
<1>2. ticket' = [ticket EXCEPT ![job[c].ticket].status = status, ![job[c].ticket].asked = asked]
  BY DEF Write
<1>3. /\ ticket' \in Seq(Rows) /\ DOMAIN ticket' = DOMAIN ticket
      /\ \A k \in DOMAIN ticket :
           /\ ticket'[k].ref = ticket[k].ref /\ ticket'[k].agent = ticket[k].agent
           /\ ticket'[k].status = IF k = job[c].ticket THEN status ELSE ticket[k].status
  BY <1>1, <1>2, Overwritten
<1>4. closed' \subseteq DOMAIN ticket
  BY <1>1 DEF Write, TypeInv, Links
<1> QED
  BY <1>3, <1>4

LEMMA WriteKeeps ==
  ASSUME TypeInv, NEW c \in Jobs, job[c].pc \in AtTicket, NEW status \in Status, NEW asked \in Status \cup {None},
         Write(c, status, asked), UNCHANGED <<agent, form, raced>>
  PROVE  SameRows
  BY WritesTicket, TicketWritten

\* A step that writes another column of the coroutine's row.
LEMMA ColumnWritten ==
  ASSUME TypeInv, NEW c \in Jobs, job[c].pc \in AtTicket, UNCHANGED <<agent, form, raced, closed>>,
         NEW told \in BOOLEAN, NEW asked \in Status \cup {None}, NEW a \in {0, Row(c).agent},
         ticket' \in {[ticket EXCEPT ![job[c].ticket].told = told],
                      [ticket EXCEPT ![job[c].ticket].asked = asked],
                      [ticket EXCEPT ![job[c].ticket].told = told, ![job[c].ticket].asked = asked],
                      [ticket EXCEPT ![job[c].ticket].agent = a]}
  PROVE  SameRows /\ \A k \in DOMAIN ticket : ticket'[k].status = ticket[k].status
<1> DEFINE k == job[c].ticket
<1>1. k \in DOMAIN ticket /\ Row(c) \in Rows /\ ticket[k] = Row(c) /\ ticket \in Seq(Rows)
  BY OnTicket DEF Row, TypeInv, Shapes
<1> DEFINE Good(v) == v \in Rows /\ v.ref = Row(c).ref /\ v.agent \in {0, Row(c).agent} /\ v.status = Row(c).status
<1>2. PICK v : Good(v) /\ ticket' = [ticket EXCEPT ![k] = v]
  <2>1. CASE ticket' = [ticket EXCEPT ![k].told = told]
    <3>1. Good([Row(c) EXCEPT !.told = told]) /\ ticket' = [ticket EXCEPT ![k] = [Row(c) EXCEPT !.told = told]]
      BY <1>1, <2>1 DEF Rows
    <3> QED
      BY <3>1
  <2>2. CASE ticket' = [ticket EXCEPT ![k].asked = asked]
    <3>1. Good([Row(c) EXCEPT !.asked = asked]) /\ ticket' = [ticket EXCEPT ![k] = [Row(c) EXCEPT !.asked = asked]]
      BY <1>1, <2>2 DEF Rows
    <3> QED
      BY <3>1
  <2>3. CASE ticket' = [ticket EXCEPT ![k].told = told, ![k].asked = asked]
    <3> DEFINE v == [Row(c) EXCEPT !.told = told, !.asked = asked]
    <3>1. Good(v) /\ ticket' = [ticket EXCEPT ![k] = v]
      BY <1>1, <2>3 DEF Rows
    <3> QED
      BY <3>1
  <2>4. CASE ticket' = [ticket EXCEPT ![k].agent = a]
    <3>1. a \in Nat
      BY <1>1 DEF Rows
    <3>2. Good([Row(c) EXCEPT !.agent = a]) /\ ticket' = [ticket EXCEPT ![k] = [Row(c) EXCEPT !.agent = a]]
      BY <1>1, <2>4, <3>1 DEF Rows
    <3> QED
      BY <3>2
  <2> QED
    BY <2>1, <2>2, <2>3, <2>4
<1>3. /\ ticket' \in Seq(Rows) /\ DOMAIN ticket' = DOMAIN ticket
      /\ \A j \in DOMAIN ticket : ticket'[j] = IF j = k THEN v ELSE ticket[j]
  BY <1>1, <1>2, Replaced
<1>4. \A j \in DOMAIN ticket :
        /\ ticket'[j].ref = ticket[j].ref /\ ticket'[j].agent \in {0, ticket[j].agent}
        /\ ticket'[j].status = ticket[j].status
  BY <1>1, <1>2, <1>3
<1>5. closed' \subseteq DOMAIN ticket
  BY DEF TypeInv, Links
<1> QED
  BY <1>3, <1>4, <1>5, TicketWritten

LEMMA ReadersKeepTypes ==
  ASSUME TypeInv, NEW c \in Jobs, UNCHANGED provVars,
         ReadTicket(c) \/ ReadPrior(c) \/ ReadWaiting(c) \/ Resume(c) \/ LookForAgent(c) \/ LookForSame(c)
  PROVE  TypeInv'
<1>1. CASE ReadTicket(c)
  <2> DEFINE k == scene.orders[c].ticket
  <2>1. k \in DOMAIN ticket /\ Begins(c) \in {"change", "resolve", "note", "form", "answer", "look", "drop", "same", "make"}
    BY <1>1, BeginsSomewhere DEF ReadTicket
  <2>2. SameRows
    <3>1. raced' \subseteq DOMAIN ticket
      BY <1>1, <2>1 DEF ReadTicket, Racing, TypeInv, Links
    <3> QED
      BY <1>1, <3>1, NothingWritten DEF ReadTicket
  <2> QED
    BY <1>1, <2>1, <2>2, Sees DEF ReadTicket, Pcs, AtForm, AtObject
<1>2. CASE ReadPrior(c)
  <2>1. scene.orders[c].ticket \in DOMAIN ticket
    BY <1>2 DEF ReadPrior, TypeInv, Tied
  <2>2. SameRows
    BY <1>2, NothingWritten DEF ReadPrior, TypeInv, Links
  <2> QED
    BY <1>2, <2>1, <2>2, Sees DEF ReadPrior, Pcs, AtForm, AtObject
<1>3. CASE ReadWaiting(c)
  <2> DEFINE k == form[job[c].form].ticket
  <2>1. k \in DOMAIN ticket
    BY <1>3, OnForm DEF ReadWaiting, AtForm
  <2>2. SameRows
    <3>1. raced' \subseteq DOMAIN ticket
      BY <1>3, <2>1 DEF ReadWaiting, Racing, TypeInv, Links
    <3> QED
      BY <1>3, <3>1, NothingWritten DEF ReadWaiting
  <2>3. CASE ticket[k].status # Awaiting
    BY <1>3, <2>2, <2>3, Returns DEF ReadWaiting
  <2>4. CASE ticket[k].status = Awaiting
    BY <1>3, <2>1, <2>2, <2>4, Sees DEF ReadWaiting, Pcs, AtForm, AtObject
  <2> QED
    BY <2>3, <2>4
<1>4. CASE Resume(c)
  <2>1. SameRows
    BY <1>4, NothingWritten DEF Resume, TypeInv, Links
  <2>2. CASE Return(c)
    BY <1>4, <2>1, <2>2, Returns DEF Resume
  <2>3. CASE Goto(c, "spawn")
    BY <1>4, <2>1, <2>3, GoesOn DEF Resume, Pcs, AtForm, AtObject, AtTicket
  <2> QED
    BY <1>4, <2>2, <2>3 DEF Resume
<1>5. CASE LookForAgent(c)
  <2>1. SameRows
    <3>1. raced' \subseteq DOMAIN ticket
      BY <1>5, OnTicket DEF LookForAgent, Racing, TypeInv, Links, AtTicket
    <3> QED
      BY <1>5, <3>1, NothingWritten DEF LookForAgent
  <2>2. CASE Return(c)
    BY <1>5, <2>1, <2>2, Returns DEF LookForAgent
  <2>3. CASE Goto(c, "spawn")
    BY <1>5, <2>1, <2>3, GoesOn DEF LookForAgent, Pcs, AtForm, AtObject, AtTicket
  <2> QED
    BY <1>5, <2>2, <2>3 DEF LookForAgent
<1>6. CASE LookForSame(c)
  <2>1. SameRows
    <3>1. raced' \subseteq DOMAIN ticket
      BY <1>6, OnTicket DEF LookForSame, TypeInv, Links, AtTicket
    <3> QED
      BY <1>6, <3>1, NothingWritten DEF LookForSame
  <2>2. CASE Return(c)
    BY <1>6, <2>1, <2>2, Returns DEF LookForSame
  <2>3. CASE Goto(c, "review")
    BY <1>6, <2>1, <2>3, GoesOn DEF LookForSame, Pcs, AtForm, AtObject, AtTicket
  <2>4. CASE Goto(c, "spawn")
    BY <1>6, <2>1, <2>4, GoesOn DEF LookForSame, Pcs, AtForm, AtObject, AtTicket
  <2> QED
    BY <1>6, <2>2, <2>3, <2>4 DEF LookForSame
<1> QED
  BY <1>1, <1>2, <1>3, <1>4, <1>5, <1>6

LEMMA WritersKeepTypes ==
  ASSUME TypeInv, NEW c \in Jobs, UNCHANGED provVars,
         ChangeStatus(c) \/ Ask(c) \/ WaitAtGate(c) \/ Answer(c)
  PROVE  TypeInv'
<1>1. job[c].pc \in AtTicket
  BY DEF ChangeStatus, Ask, WaitAtGate, Answer, AtTicket
<1>2. Row(c).asked \in Status \cup {None} /\ Previous(c) \in Status \cup {None} /\ Restored(c) \in Status
  BY <1>1, OnTicket DEF TypeInv, Shapes, Rows, Coroutines, Previous, Restored, Status
<1>3. Awaiting \in Status /\ None \in Status \cup {None}
  BY DEF Awaiting, Status
<1>4. CASE ChangeStatus(c)
  <2>1. SameRows
    BY <1>1, <1>2, <1>4, OrderTypes, WriteKeeps DEF ChangeStatus
  <2>2. CASE Return(c)
    BY <1>4, <2>1, <2>2, Returns DEF ChangeStatus
  <2>3. CASE Goto(c, "stop")
    BY <1>1, <1>4, <2>1, <2>3, GoesOn DEF ChangeStatus, Pcs, AtForm, AtObject
  <2> QED
    BY <1>4, <2>2, <2>3 DEF ChangeStatus
<1>5. CASE Ask(c)
  <2>1. SameRows
    BY <1>1, <1>2, <1>3, <1>5, WriteKeeps DEF Ask
  <2> QED
    BY <1>5, <2>1, Returns DEF Ask
<1>6. CASE WaitAtGate(c)
  <2>1. SameRows
    BY <1>1, <1>2, <1>3, <1>6, WriteKeeps DEF WaitAtGate
  <2> QED
    BY <1>1, <1>6, <2>1, GoesOn DEF WaitAtGate, Pcs, AtForm, AtObject
<1>7. CASE Answer(c)
  <2>1. SameRows
    BY <1>1, <1>2, <1>3, <1>7, WriteKeeps DEF Answer
  <2>2. Goto(c, "look") \/ Goto(c, "resume")
    BY <1>7 DEF Answer
  <2> QED
    BY <1>1, <1>7, <2>1, <2>2, GoesOn DEF Answer, Pcs, AtForm, AtObject
<1> QED
  BY <1>4, <1>5, <1>6, <1>7

LEMMA ColumnsKeepTypes ==
  ASSUME TypeInv, NEW c \in Jobs, UNCHANGED provVars, ClearAgent(c) \/ AskNote(c) \/ RememberWait(c)
  PROVE  TypeInv'
<1>1. job[c].pc \in AtTicket
  BY DEF ClearAgent, AskNote, RememberWait, AtTicket
<1>2. Previous(c) \in Status \cup {None}
  BY DEF TypeInv, Shapes, Coroutines, Previous
<1>3. CASE ClearAgent(c)
  <2>1. SameRows
    BY <1>1, <1>2, <1>3, ColumnWritten DEF ClearAgent
  <2> QED
    BY <1>3, <2>1, Returns DEF ClearAgent
<1>4. CASE AskNote(c)
  <2>1. SameRows
    BY <1>1, <1>2, <1>4, ColumnWritten DEF AskNote
  <2> QED
    BY <1>1, <1>4, <2>1, GoesOn DEF AskNote, Pcs, AtForm, AtObject
<1>5. CASE RememberWait(c)
  <2>1. CASE UNCHANGED ticket
    <3>1. SameRows
      BY <1>5, <2>1, TicketWritten DEF RememberWait, TypeInv, Shapes, Links
    <3> QED
      BY <1>5, <3>1, Returns DEF RememberWait
  <2>2. CASE ticket' = [ticket EXCEPT ![job[c].ticket].told = TRUE, ![job[c].ticket].asked = Previous(c)]
    <3>1. SameRows
      BY <1>1, <1>2, <1>5, <2>2, ColumnWritten DEF RememberWait
    <3> QED
      BY <1>5, <3>1, Returns DEF RememberWait
  <2> QED
    BY <1>5, <2>1, <2>2 DEF RememberWait
<1> QED
  BY <1>3, <1>4, <1>5

LEMMA AgentsKeepTypes ==
  ASSUME TypeInv, NEW c \in Jobs, UNCHANGED provVars, StopAgent(c) \/ Unassign(c) \/ WaitEndsAgent(c)
  PROVE  TypeInv'
<1>1. CASE StopAgent(c)
  <2>1. SameRows
    <3>1. AgentChanges(Max(Active(job[c].ticket)))
      BY <1>1 DEF StopAgent, AgentChanges
    <3> QED
      BY <1>1, <3>1, AgentWritten DEF StopAgent
  <2> QED
    BY <1>1, <2>1, Returns DEF StopAgent
<1>2. CASE Unassign(c)
  <2>1. SameRows
    <3>1. AgentChanges(job[c].agent)
      BY <1>2 DEF Unassign, AgentChanges
    <3> QED
      BY <1>2, <3>1, AgentWritten DEF Unassign
  <2>2. CASE Return(c)
    BY <1>2, <2>1, <2>2, Returns DEF Unassign
  <2>3. CASE Goto(c, "clear")
    BY <1>2, <2>1, <2>3, GoesOn DEF Unassign, Pcs, AtForm, AtObject, AtTicket
  <2> QED
    BY <1>2, <2>2, <2>3 DEF Unassign
<1>3. CASE WaitEndsAgent(c)
  <2> DEFINE k == scene.orders[c].ticket
  <2>1. PICK a \in DOMAIN agent : agent[a].ticket = k /\ agent' = Finished(a)
    BY <1>3 DEF WaitEndsAgent
  <2>2. k \in DOMAIN ticket
    BY <2>1 DEF TypeInv, Links
  <2>3. SameRows
    <3>1. UNCHANGED <<ticket, form, raced, closed>>
      BY <1>3 DEF WaitEndsAgent
    <3> QED
      BY <2>1, <3>1, AgentWritten DEF AgentChanges
  <2>4. JobMoved(c) /\ job'[c].pc = "prior" /\ job'[c].ticket = job[c].ticket /\ job'[c].form = job[c].form
    BY <1>3, Going DEF WaitEndsAgent, TypeInv, Shapes, JobMoved, Pcs
  <2>5. Tied(c)'
    <3>1. Len(ticket') = Len(ticket) /\ Len(form') = Len(form) /\ scene' = scene /\ Tied(c)
      BY <1>3 DEF WaitEndsAgent, TypeInv
    <3> QED
      BY <2>2, <2>4, <3>1, <1>3 DEF Tied, AtTicket, AtForm, WaitEndsAgent
  <2> QED
    BY <1>3, <2>3, <2>4, <2>5, DeskStep DEF WaitEndsAgent, AtObject
<1> QED
  BY <1>1, <1>2, <1>3

\* A step on the forms.
LEMMA FormWritten ==
  ASSUME TypeInv, UNCHANGED <<ticket, agent, raced, closed>>, NEW f \in DOMAIN form, NEW v \in Forms,
         v.ticket = form[f].ticket, form' = [form EXCEPT ![f] = v]
  PROVE  SameRows
<1>1. form \in Seq(Forms)
  BY DEF TypeInv, Shapes
<1>2. /\ form' \in Seq(Forms) /\ DOMAIN form' = DOMAIN form
      /\ \A g \in DOMAIN form : form'[g] = IF g = f THEN v ELSE form[g]
  BY <1>1, Replaced
<1> QED
  BY <1>2 DEF TypeInv, Shapes, Links, SameRows

LEMMA FormValues ==
  ASSUME TypeInv, NEW f \in DOMAIN form, NEW status \in {"pending", "expired", "submitted"},
         NEW c \in Jobs
  PROVE  /\ [form[f] EXCEPT !.status = status] \in Forms
         /\ [form[f] EXCEPT !.status = status].ticket = form[f].ticket
         /\ [form[f] EXCEPT !.expired = TRUE] \in Forms
         /\ [form[f] EXCEPT !.expired = TRUE].ticket = form[f].ticket
         /\ [form[f] EXCEPT !.stored = @ \cup {c}] \in Forms
         /\ [form[f] EXCEPT !.stored = @ \cup {c}].ticket = form[f].ticket
<1>1. form[f] \in Forms
  BY DEF TypeInv, Shapes
<1> QED
  BY <1>1 DEF Forms

LEMMA SubmitsKeepTypes ==
  ASSUME TypeInv, NEW c \in Jobs, UNCHANGED provVars, ExpireForm(c) \/ StoreValues(c) \/ SubmitForm(c)
  PROVE  TypeInv'
<1> DEFINE f == job[c].form
<1>1. job[c].pc \in AtForm /\ f \in DOMAIN form /\ job[c].pc \notin AtTicket
  BY OnForm DEF ExpireForm, StoreValues, SubmitForm, AtForm, AtTicket
<1>2. CASE ExpireForm(c)
  <2>1. form' = [form EXCEPT ![f] = [form[f] EXCEPT !.status = "expired"]]
    BY <1>2 DEF ExpireForm
  <2>2. UNCHANGED <<ticket, agent, raced, closed>>
    BY <1>2 DEF ExpireForm
  <2>3. SameRows
    BY <1>1, <2>1, <2>2, FormWritten, FormValues
  <2> QED
    BY <1>2, <2>3, Returns DEF ExpireForm
<1>3. CASE StoreValues(c)
  <2>1. UNCHANGED <<ticket, agent, raced, closed>>
    BY <1>3 DEF StoreValues
  <2>2. CASE Return(c) /\ UNCHANGED form
    <3>1. SameRows
      BY <1>3, <2>1, <2>2, NothingWritten DEF rows, TypeInv, Links
    <3> QED
      BY <1>3, <2>2, <3>1, Returns DEF StoreValues
  <2>3. CASE form' = [form EXCEPT ![f].stored = @ \cup {c}] /\ Goto(c, "submitted")
    <3>1. form' = [form EXCEPT ![f] = [form[f] EXCEPT !.stored = @ \cup {c}]]
      BY <2>3
    <3>2. SameRows
      BY <1>1, <2>1, <3>1, FormWritten, FormValues
    <3> QED
      BY <1>1, <1>3, <2>3, <3>2, GoesOn DEF StoreValues, Pcs, AtTicket, AtObject
  <2> QED
    BY <1>3, <2>2, <2>3 DEF StoreValues
<1>4. CASE SubmitForm(c)
  <2>1. form' = [form EXCEPT ![f] = [form[f] EXCEPT !.status = "submitted"]]
    BY <1>4 DEF SubmitForm
  <2>2. UNCHANGED <<ticket, agent, raced, closed>>
    BY <1>4 DEF SubmitForm
  <2>3. SameRows
    BY <1>1, <2>1, <2>2, FormWritten, FormValues
  <2> QED
    BY <1>1, <1>4, <2>3, GoesOn DEF SubmitForm, Pcs, AtTicket, AtObject
<1> QED
  BY <1>2, <1>3, <1>4

LEMMA ReadFormKeepsTypes ==
  ASSUME TypeInv, NEW c \in Jobs, UNCHANGED provVars, ReadForm(c)
  PROVE  TypeInv'
<1>1. PICK f \in DOMAIN form :
        IF Accepts(f)
          THEN job' = [job EXCEPT ![c].form = f, ![c].pc = IF form[f].expired THEN "expire" ELSE "store"]
          ELSE Return(c)
  BY DEF ReadForm
<1>2. UNCHANGED <<scene, ticket, agent, form, raced, closed>>
  BY DEF ReadForm, rows
<1>3. SameRows
  BY <1>2, NothingWritten DEF rows, TypeInv, Links
<1>4. CASE ~Accepts(f)
  BY <1>1, <1>2, <1>3, <1>4, Returns
<1>5. CASE Accepts(f)
  <2> DEFINE v == [job[c] EXCEPT !.form = f, !.pc = IF form[f].expired THEN "expire" ELSE "store"]
  <2>1. job[c] \in Coroutines /\ f \in Nat \ {0} /\ f \in 1..Len(form)
    BY DEF TypeInv, Shapes
  <2>2. v \in Coroutines /\ v.form = f /\ v.pc \in {"expire", "store"} /\ v.ticket = job[c].ticket
    BY <2>1 DEF Coroutines, Pcs
  <2>3. job' = [job EXCEPT ![c] = v]
    BY <1>1, <1>5
  <2>4. JobMoved(c) /\ job'[c] = v
    BY <2>2, <2>3 DEF JobMoved, TypeInv, Shapes
  <2>5. Tied(c)'
    <3>1. Len(ticket') = Len(ticket) /\ Len(form') = Len(form) /\ Tied(c)
      BY <1>2 DEF TypeInv
    <3> QED
      BY <2>1, <2>2, <2>4, <3>1 DEF Tied, AtTicket, AtForm
  <2>6. job'[c].pc \notin AtObject
    BY <2>2, <2>4 DEF AtObject
  <2> QED
    BY <1>2, <1>3, <2>4, <2>5, <2>6, DeskStep
<1> QED
  BY <1>4, <1>5

LEMMA FormExpiresKeepsTypes ==
  ASSUME TypeInv, NEW f \in DOMAIN form, UNCHANGED provVars, FormExpires(f)
  PROVE  TypeInv'
<1>1. form' = [form EXCEPT ![f] = [form[f] EXCEPT !.expired = TRUE]]
  BY DEF FormExpires
<1>2. UNCHANGED <<ticket, agent, raced, closed>> /\ scene' = scene /\ job' = job
  BY DEF FormExpires
<1>3. SameRows
  <2>1. [form[f] EXCEPT !.expired = TRUE] \in Forms /\ [form[f] EXCEPT !.expired = TRUE].ticket = form[f].ticket
    <3>1. form[f] \in Forms
      BY DEF TypeInv, Shapes
    <3> QED
      BY <3>1 DEF Forms
  <2> QED
    BY <1>1, <1>2, <2>1, FormWritten
<1> QED
  BY <1>2, <1>3, QuietStep DEF provVars, TypeInv, Shapes

LEMMA AgentRowKeepsTypes ==
  ASSUME TypeInv, NEW a \in DOMAIN agent, UNCHANGED provVars,
         TaskEnds(a) \/ AgentEnds(a) \/ TaskRead(a) \/ WrittenBack(a)
  PROVE  TypeInv'
<1>1. AgentChanges(a)
  BY DEF TaskEnds, AgentEnds, TaskRead, WrittenBack, AgentChanges
<1>2. UNCHANGED <<ticket, form, raced, closed>> /\ scene' = scene /\ job' = job
  BY DEF TaskEnds, AgentEnds, TaskRead, WrittenBack
<1>3. SameRows
  BY <1>1, <1>2, AgentWritten
<1> QED
  BY <1>2, <1>3, QuietStep DEF provVars, TypeInv, Shapes

LEMMA OpenFormKeepsTypes ==
  ASSUME TypeInv, NEW c \in Jobs, UNCHANGED provVars, OpenForm(c)
  PROVE  TypeInv'
<1> DEFINE v == [ticket |-> job[c].ticket, status |-> "pending", expired |-> FALSE, stored |-> {}]
<1>1. UNCHANGED <<scene, ticket, agent, raced, closed>> /\ form' = Append(form, v) /\ Goto(c, "note")
  BY DEF OpenForm
<1>2. /\ job[c].pc \in AtTicket /\ job[c].pc \notin AtForm \cup AtObject \cup {"prior", "link", "bind", "update"}
      /\ job[c].ticket \in DOMAIN ticket
  BY OnTicket DEF OpenForm, AtTicket, AtForm, AtObject
<1>3. v \in Forms
  BY <1>2 DEF Forms, TypeInv, Shapes
<1>4. /\ form' \in Seq(Forms) /\ DOMAIN form' = DOMAIN form \cup {Len(form) + 1} /\ Len(form') = Len(form) + 1
      /\ (\A f \in DOMAIN form : form'[f] = form[f]) /\ form'[Len(form) + 1] = v
  BY <1>1, <1>3, Extended DEF TypeInv, Shapes
<1>5. JobMoved(c) /\ job'[c].pc = "note" /\ job'[c].ticket = job[c].ticket /\ job'[c].form = job[c].form
  BY <1>1, Going DEF TypeInv, Shapes, JobMoved, Pcs
<1>6. Shapes' /\ Grown /\ Others(c)
  BY <1>1, <1>4, <1>5 DEF TypeInv, Shapes, Grown, provVars, JobMoved, Others
<1>7. Unique' /\ Links'
  <2>1. \A f \in DOMAIN form' : form'[f].ticket \in DOMAIN ticket
    BY <1>2, <1>4 DEF TypeInv, Links
  <2> QED
    BY <1>1, <1>6, <2>1, SameRefs DEF TypeInv, Links
<1>8. Tied(c)'
  <2>1. Len(ticket') = Len(ticket) /\ Len(form) \in Nat /\ Tied(c)
    BY <1>1 DEF TypeInv, Shapes
  <2> QED
    BY <1>2, <1>4, <1>5, <2>1 DEF Tied, AtForm
<1>9. Synced(c)'
  BY <1>5 DEF TypeInv, Synced, provVars, AtObject, Keys
<1> QED
  BY <1>6, <1>7, <1>8, <1>9, OneMoved

LEMMA NewAgentTyped ==
  ASSUME TypeInv, NEW c \in Jobs, job[c].ticket \in DOMAIN ticket
  PROVE  /\ NewAgent(c) \in Agents /\ NewAgent(c).ticket = job[c].ticket /\ NewAgent(c).by = op(c)
         /\ NewAgent(c).active
  BY OrderTypes DEF NewAgent, Agents, TypeInv, Shapes

LEMMA SpawnReviewKeepsTypes ==
  ASSUME TypeInv, NEW c \in Jobs, UNCHANGED provVars, SpawnReview(c)
  PROVE  TypeInv'
<1>1. UNCHANGED <<scene, ticket, form, raced, closed>> /\ agent' = Append(agent, NewAgent(c)) /\ Return(c)
  BY DEF SpawnReview
<1>2. job[c].ticket \in DOMAIN ticket
  BY OnTicket DEF SpawnReview, AtTicket
<1>3. NewAgent(c) \in Agents /\ NewAgent(c).ticket = job[c].ticket
  BY <1>2, NewAgentTyped
<1>4. /\ agent' \in Seq(Agents) /\ DOMAIN agent' = DOMAIN agent \cup {Len(agent) + 1}
      /\ (\A a \in DOMAIN agent : agent'[a] = agent[a]) /\ agent'[Len(agent) + 1] = NewAgent(c)
  BY <1>1, <1>3, Extended DEF TypeInv, Shapes
<1>5. JobMoved(c) /\ job'[c].pc \in {"next", "done"} /\ job'[c].ticket = 0 /\ job'[c].form = 0
  BY <1>1, Returning DEF TypeInv, Shapes, JobMoved
<1>6. Shapes' /\ Grown /\ Others(c)
  BY <1>1, <1>4, <1>5 DEF TypeInv, Shapes, Grown, provVars, JobMoved, Others
<1>7. Unique' /\ Links'
  <2>1. \A a \in DOMAIN agent' : agent'[a].ticket \in DOMAIN ticket
    BY <1>2, <1>3, <1>4 DEF TypeInv, Links
  <2> QED
    BY <1>1, <1>6, <2>1, SameRefs DEF TypeInv, Links
<1>8. Tied(c)'
  BY <1>1, <1>5 DEF Tied, AtForm, AtTicket, TypeInv, Shapes
<1>9. Synced(c)'
  BY <1>5 DEF TypeInv, Synced, provVars, AtObject, Keys
<1> QED
  BY <1>6, <1>7, <1>8, <1>9, OneMoved

LEMMA SpawnKeepsTypes ==
  ASSUME TypeInv, NEW c \in Jobs, UNCHANGED provVars, Spawn(c)
  PROVE  TypeInv'
<1> DEFINE v == NewAgent(c)
           w == [job[c] EXCEPT !.pc = "link", !.agent = Len(agent')]
<1>1. UNCHANGED <<scene, ticket, form, raced, closed>> /\ agent' = Append(agent, v)
  BY DEF Spawn
<1>2. job[c].pc \in AtTicket /\ job[c].ticket \in DOMAIN ticket
  BY OnTicket DEF Spawn, AtTicket
<1>3. v \in Agents /\ v.ticket = job[c].ticket
  BY <1>2, NewAgentTyped
<1> HIDE DEF v
<1>4. /\ agent' \in Seq(Agents) /\ DOMAIN agent' = DOMAIN agent \cup {Len(agent) + 1} /\ Len(agent') = Len(agent) + 1
      /\ (\A a \in DOMAIN agent : agent'[a] = agent[a]) /\ agent'[Len(agent) + 1] = v /\ Len(agent) \in Nat
  BY <1>1, <1>3, Extended DEF TypeInv, Shapes
<1>5. JobMoved(c) /\ job'[c] = w
  <2>1. job[c] \in Coroutines
    BY DEF TypeInv, Shapes
  <2>2. PICK n \in Nat : n = Len(agent')
    BY <1>4
  <2>3. w \in Coroutines
    BY <2>1, <2>2 DEF Coroutines, Pcs
  <2>4. job' = [job EXCEPT ![c] = w]
    BY DEF Spawn
  <2> QED
    BY <2>3, <2>4 DEF JobMoved, TypeInv, Shapes
<1>6. Shapes' /\ Grown /\ Others(c)
  BY <1>1, <1>4, <1>5 DEF TypeInv, Shapes, Grown, provVars, JobMoved, Others
<1>7. Unique' /\ Links'
  <2>1. \A a \in DOMAIN agent' : agent'[a].ticket \in DOMAIN ticket
    BY <1>2, <1>3, <1>4 DEF TypeInv, Links
  <2> QED
    BY <1>1, <1>6, <2>1, SameRefs DEF TypeInv, Links
<1>8. w.pc = "link" /\ w.agent = Len(agent) + 1 /\ w.ticket = job[c].ticket /\ w.form = job[c].form
  <2>1. job[c] \in Coroutines
    BY DEF TypeInv, Shapes
  <2> QED
    BY <1>4, <2>1 DEF Coroutines
<1>9. Tied(c)'
  <2>1. Len(ticket') = Len(ticket) /\ Len(form') = Len(form) /\ Tied(c)
    BY <1>1 DEF TypeInv
  <2> QED
    BY <1>2, <1>3, <1>4, <1>5, <1>8, <2>1 DEF Tied, AtForm, AtTicket
<1>10. Synced(c)'
  BY <1>5, <1>8 DEF TypeInv, Synced, provVars, AtObject, Keys
<1> QED
  BY <1>6, <1>7, <1>9, <1>10, OneMoved

LEMMA LinkAgentKeepsTypes ==
  ASSUME TypeInv, NEW c \in Jobs, UNCHANGED provVars, LinkAgent(c)
  PROVE  TypeInv'
<1> DEFINE k == job[c].ticket
           v == [ticket[k] EXCEPT !.agent = job[c].agent, !.status = "in_progress"]
<1>1. UNCHANGED <<scene, agent, form, raced>> /\ Return(c) /\ closed' \subseteq closed
  BY DEF LinkAgent
<1>2. /\ k \in DOMAIN ticket /\ ticket[k] \in Rows
      /\ job[c].agent \in DOMAIN agent /\ agent[job[c].agent].ticket = k
  BY OnTicket DEF LinkAgent, AtTicket, TypeInv, Tied, Row
<1>3. v \in Rows /\ v.ref = ticket[k].ref /\ v.agent = job[c].agent
  <2>1. job[c].agent \in Nat /\ "in_progress" \in Status
    BY <1>2 DEF TypeInv, Shapes, Status
  <2> QED
    BY <1>2, <2>1 DEF Rows
<1>4. ticket' = [ticket EXCEPT ![k] = v]
  BY DEF LinkAgent
<1> HIDE DEF v
<1>5. /\ ticket' \in Seq(Rows) /\ DOMAIN ticket' = DOMAIN ticket /\ Len(ticket') = Len(ticket)
      /\ \A j \in DOMAIN ticket : ticket'[j] = IF j = k THEN v ELSE ticket[j]
  BY <1>3, <1>4, Replaced DEF TypeInv, Shapes
<1>6. JobMoved(c) /\ job'[c].pc \in {"next", "done"} /\ job'[c].ticket = 0 /\ job'[c].form = 0
  BY <1>1, Returning DEF TypeInv, Shapes, JobMoved
<1>7. Shapes' /\ Grown /\ Others(c)
  BY <1>1, <1>5, <1>6 DEF TypeInv, Shapes, Grown, provVars, JobMoved, Others
<1>8. Unique'
  BY <1>3, <1>5 DEF TypeInv, Unique
<1>9. Links'
  <2>1. ASSUME NEW j \in DOMAIN ticket PROVE Linked(j)'
    <3>1. Linked(j) /\ object' = object /\ agent' = agent
      BY <1>1 DEF TypeInv, Links, provVars
    <3>2. CASE j = k
      <4>1. ticket'[j].ref = ticket[j].ref /\ ticket'[j].agent = job[c].agent
        BY <1>3, <1>5, <3>2
      <4> QED
        BY <1>2, <3>1, <3>2, <4>1 DEF Linked, TypeInv, Shapes
    <3>3. CASE j # k
      BY <1>5, <3>1, <3>3 DEF Linked
    <3> QED
      BY <3>2, <3>3
  <2> QED
    BY <1>1, <1>5, <2>1 DEF TypeInv, Links
<1>10. Tied(c)'
  BY <1>1, <1>5, <1>6 DEF Tied, AtForm, AtTicket, TypeInv, Shapes
<1>11. Synced(c)'
  BY <1>6 DEF TypeInv, Synced, provVars, AtObject, Keys
<1> QED
  BY <1>7, <1>8, <1>9, <1>10, <1>11, OneMoved

LEMMA DeskKeepsTypes ==
  ASSUME TypeInv, DeskNext, UNCHANGED provVars
  PROVE  TypeInv'
<1>1. ASSUME NEW c \in Jobs, Arrives(c) \/ Proceeds(c) PROVE TypeInv'
  BY <1>1, ReadersKeepTypes, WritersKeepTypes, ColumnsKeepTypes, AgentsKeepTypes, SubmitsKeepTypes,
     ReadFormKeepsTypes, OpenFormKeepsTypes, SpawnKeepsTypes, SpawnReviewKeepsTypes, LinkAgentKeepsTypes DEF Arrives, Proceeds
<1> QED
  BY <1>1, FormExpiresKeepsTypes, AgentRowKeepsTypes DEF DeskNext

-----------------------------------------------------------------------------
(* Every action beside the provider keeps the types.                       *)

LEMMA ObjectMoves ==
  ASSUME TypeInv, NEW n, NEW to \in Status, object' = [object EXCEPT ![n].status = to]
  PROVE  object' \in Seq(Objects) /\ DOMAIN object' = DOMAIN object
<1> DEFINE v == [object[n] EXCEPT !.status = to]
<1>1. n \in DOMAIN object => v \in Objects
  <2> SUFFICES ASSUME n \in DOMAIN object PROVE v \in Objects
    OBVIOUS
  <2>1. object[n] \in Objects
    BY DEF TypeInv, Shapes
  <2> QED
    BY <2>1 DEF Objects
<1>2. object' = [object EXCEPT ![n] = v]
  OBVIOUS
<1> HIDE DEF v
<1>3. [object EXCEPT ![n] = v] \in Seq(Objects) /\ DOMAIN [object EXCEPT ![n] = v] = DOMAIN object
  BY <1>1, Replaced DEF TypeInv, Shapes
<1> QED
  BY <1>2, <1>3

LEMMA ObjectAdded ==
  ASSUME TypeInv, NEW k \in Nat, object' = Append(object, Fresh("new", k))
  PROVE  /\ object' \in Seq(Objects) /\ DOMAIN object \subseteq DOMAIN object'
         /\ Len(object') = Len(object) + 1 /\ Len(object') \in DOMAIN object'
<1>1. Fresh("new", k) \in Objects
  BY DEF Fresh, Objects, Status
<1> QED
  BY <1>1, Extended DEF TypeInv, Shapes

LEMMA PeopleKeepTypes ==
  ASSUME TypeInv, PersonCreates \/ (\E n \in Keys : PersonMoves(n))
  PROVE  TypeInv'
<1>1. UNCHANGED <<deskVars, maxKey, sync, rushed>>
  BY DEF PersonCreates, PersonMoves
<1>2. SameRows
  BY <1>1, NothingWritten DEF deskVars, rows, TypeInv, Links
<1>3. object' \in Seq(Objects) /\ DOMAIN object \subseteq DOMAIN object'
  <2>1. CASE PersonCreates
    BY <2>1, ObjectAdded DEF PersonCreates
  <2>2. ASSUME NEW n \in Keys, PersonMoves(n) PROVE object' \in Seq(Objects) /\ DOMAIN object \subseteq DOMAIN object'
    <3>1. PICK to \in Status : object' = [object EXCEPT ![n].status = to]
      BY <2>2, SyncAssumption DEF PersonMoves, TypeInv, Shapes
    <3> QED
      BY <3>1, ObjectMoves
  <2> QED
    BY <2>1, <2>2
<1> QED
  BY <1>1, <1>2, <1>3, QuietStep DEF deskVars

LEMMA AutomaticKeepsTypes ==
  ASSUME TypeInv, NEW c \in Jobs, AutoLook(c) \/ AutoCapacity(c)
  PROVE  TypeInv'
<1>1. job[c].pc \in AtTicket
  BY DEF AutoLook, AutoCapacity, AtTicket
<1>2. Beside
  BY DEF AutoLook, AutoCapacity, TypeInv, Shapes, Beside, provVars
<1>3. SameRows
  <2>1. raced' \subseteq DOMAIN ticket /\ UNCHANGED <<rows, closed>>
    BY <1>1, OnTicket DEF AutoLook, AutoCapacity, Racing, TypeInv, Links
  <2> QED
    BY <2>1, NothingWritten
<1>4. Return(c) \/ Goto(c, "capacity") \/ Goto(c, "spawn")
  BY DEF AutoLook, AutoCapacity
<1> QED
  BY <1>1, <1>2, <1>3, <1>4, GoesBeside, ReturnsBeside DEF Pcs, AtForm, AtObject

LEMMA MakeObjectKeepsTypes ==
  ASSUME TypeInv, NEW c \in Jobs, MakeObject(c)
  PROVE  TypeInv'
<1>1. UNCHANGED <<scene, rows, raced, closed, maxKey, sync, rushed>> /\ job[c].pc = "make"
  BY DEF MakeObject
<1>2. job[c].pc \in AtTicket /\ job[c].ticket \in DOMAIN ticket /\ job[c].ticket \in Nat
  BY <1>1, OnTicket DEF AtTicket, TypeInv, Shapes
<1>3. SameRows
  BY <1>1, NothingWritten DEF TypeInv, Links
<1>4. CASE Made(c)
  <2> DEFINE v == [job[c] EXCEPT !.pc = "bind", !.key = Len(object')]
  <2>1. /\ object' \in Seq(Objects) /\ DOMAIN object \subseteq DOMAIN object'
        /\ Len(object') = Len(object) + 1 /\ Len(object') \in DOMAIN object'
    BY <1>2, <1>4, ObjectAdded DEF Made
  <2>2. Beside
    BY <1>1, <2>1 DEF Beside, TypeInv, Shapes
  <2>3. job[c] \in Coroutines
    BY DEF TypeInv, Shapes
  <2>4. PICK n \in Nat : n = Len(object')
    BY <2>1
  <2>5. v \in Coroutines /\ v.pc = "bind" /\ v.key = n /\ v.ticket = job[c].ticket /\ v.form = job[c].form
    BY <2>3, <2>4 DEF Coroutines, Pcs
  <2>6. job' = [job EXCEPT ![c] = v]
    BY <1>4 DEF Made
  <2> HIDE DEF v
  <2>7. JobMoved(c) /\ job'[c] = v
    BY <2>5, <2>6 DEF JobMoved, TypeInv, Shapes
  <2>8. Tied(c)'
    <3>1. Len(ticket') = Len(ticket) /\ Len(form') = Len(form) /\ Tied(c)
      BY <1>1 DEF rows, TypeInv
    <3> QED
      BY <1>2, <2>1, <2>4, <2>5, <2>7, <3>1 DEF Tied, AtForm, Keys
  <2> QED
    BY <1>3, <2>2, <2>5, <2>7, <2>8, BesideStep DEF AtObject
<1>5. CASE Goto(c, "failed") /\ (UNCHANGED object \/ object' = Append(object, Fresh("new", job[c].ticket)))
  <2>1. object' \in Seq(Objects) /\ DOMAIN object \subseteq DOMAIN object'
    BY <1>2, <1>5, ObjectAdded DEF TypeInv, Shapes
  <2>2. Beside
    BY <1>1, <2>1 DEF Beside, TypeInv, Shapes
  <2> QED
    BY <1>2, <1>3, <1>5, <2>2, GoesBeside DEF Pcs, AtForm, AtObject
<1> QED
  BY <1>4, <1>5 DEF MakeObject

LEMMA ClosingKeepsTypes ==
  ASSUME TypeInv, NEW c \in Jobs, Resolve(c) \/ AssignFirst(c) \/ PollState(c)
  PROVE  TypeInv'
<1> DEFINE n == job[c].key
<1>1. UNCHANGED <<scene, rows, raced, closed, maxKey, sync, rushed>> /\ job[c].pc \in AtTicket
  BY DEF Resolve, AssignFirst, PollState, AtTicket
<1>2. SameRows
  BY <1>1, NothingWritten DEF TypeInv, Links
<1>3. /\ Return(c) \/ \E pc \in {"assign", "poll", "again", "closed"} : Goto(c, pc)
      /\ object' = object \/ \E to \in Status : object' = [object EXCEPT ![n].status = to]
  <2>1. CASE Resolve(c)
    BY <2>1 DEF Resolve, Stimulus, Status
  <2>2. CASE AssignFirst(c)
    BY <2>2 DEF AssignFirst, Stimulus, Status
  <2>3. CASE PollState(c)
    BY <2>3 DEF PollState
  <2> QED
    BY <2>1, <2>2, <2>3
<1>4. object' \in Seq(Objects) /\ DOMAIN object \subseteq DOMAIN object'
  BY <1>3, ObjectMoves DEF TypeInv, Shapes
<1>5. Beside
  BY <1>1, <1>4 DEF Beside, TypeInv, Shapes
<1> QED
  BY <1>1, <1>2, <1>3, <1>5, GoesBeside, ReturnsBeside DEF Pcs, AtForm, AtObject

LEMMA ConfirmKeepsTypes ==
  ASSUME TypeInv, NEW c \in Jobs, ConfirmRow(c) \/ CloseRow(c)
  PROVE  TypeInv'
<1>1. job[c].pc \in AtTicket
  BY DEF ConfirmRow, CloseRow, AtTicket
<1>2. scene' = scene /\ UNCHANGED provVars
  BY DEF ConfirmRow, CloseRow
<1>3. CASE ConfirmRow(c)
  <2>1. SameRows
    BY <1>1, <1>3, ColumnWritten DEF ConfirmRow
  <2> QED
    BY <1>1, <1>2, <1>3, <2>1, GoesOn, Returns DEF ConfirmRow, Pcs, AtForm, AtObject
<1>4. CASE CloseRow(c)
  <2>1. "resolved" \in Status /\ Row(c).asked \in Status \cup {None}
    BY <1>1, OnTicket DEF Rows, Status
  <2>2. SameRows
    BY <1>1, <1>4, <2>1, WriteKeeps DEF CloseRow
  <2> QED
    BY <1>1, <1>2, <1>4, <2>2, GoesOn DEF CloseRow, Pcs, AtForm, AtObject
<1> QED
  BY <1>3, <1>4

-----------------------------------------------------------------------------
(* Every action of the sync keeps the types.                               *)

\* A coroutine goes on in its round.
LEMMA SyncGoes ==
  ASSUME TypeInv, NEW s \in Jobs, NEW pc \in Pcs, Goto(s, pc), NEW v \in Syncing, sync' = [sync EXCEPT ![s] = v],
         UNCHANGED <<scene, rows, raced, closed, object, rushed>>, maxKey' \in 0..Len(object),
         pc \notin AtTicket \cup AtForm \cup {"prior"},
         v.todo \subseteq Keys, v.key \in 0..Len(object), v.max \in 0..Len(object), v.rounds \in 0..FullEvery,
         pc \in AtObject => v.key # 0, pc \in AtObject \ {"get"} => v.got \in Status
  PROVE  TypeInv'
<1>1. SameRows
  BY NothingWritten DEF TypeInv, Links
<1>2. /\ JobMoved(s) /\ job'[s].pc = pc /\ job'[s].ticket = job[s].ticket /\ job'[s].form = job[s].form
      /\ SyncMoved(s) /\ sync'[s] = v
  BY Going DEF JobMoved, SyncMoved, TypeInv, Shapes
<1>3. Tied(s)'
  <2>1. Len(ticket') = Len(ticket) /\ Len(form') = Len(form) /\ Tied(s)
    BY DEF rows, TypeInv
  <2> QED
    BY <1>2, <2>1 DEF Tied, AtTicket
<1>4. Synced(s)'
  BY <1>2 DEF Synced, Keys, AtTicket
<1> QED
  BY <1>1, <1>2, <1>3, <1>4, SyncStep DEF TypeInv, Shapes

LEMMA SyncOf ==
  ASSUME TypeInv, NEW s \in Jobs
  PROVE  /\ sync[s] \in Syncing /\ sync[s].todo \subseteq Keys /\ sync[s].key \in 0..Len(object)
         /\ sync[s].max \in 0..Len(object) /\ sync[s].rounds \in 0..FullEvery
         /\ Len(object) \in Nat /\ Keys = 1..Len(object) /\ maxKey \in 0..Len(object)
  BY DEF TypeInv, Shapes, Synced, Keys

LEMMA RoundOver ==
  ASSUME NEW r \in 0..FullEvery
  PROVE  LET v == [NoSync EXCEPT !.rounds = r] IN
           v \in Syncing /\ v.todo = {} /\ v.key = 0 /\ v.max = 0 /\ v.rounds = r
<1>1. r \in Nat
  BY SyncAssumption
<1> QED
  BY <1>1 DEF NoSync, Syncing

LEMMA BootKeepsTypes == ASSUME TypeInv, Boot PROVE TypeInv'
<1>1. Loop \in Jobs /\ UNCHANGED <<scene, rows, raced, closed, object, maxKey, sync, rushed>>
  BY SyncAssumption DEF Boot
<1>2. SameRows /\ Beside
  BY <1>1, NothingWritten DEF TypeInv, Shapes, Links, Beside
<1>3. Goto(Loop, "full") \/ Goto(Loop, "gone")
  BY DEF Boot
<1> QED
  BY <1>1, <1>2, <1>3, GoesBeside DEF Pcs, AtTicket, AtForm, AtObject

LEMMA RefreshKeepsTypes == ASSUME TypeInv, NEW s \in Jobs, Refresh(s) PROVE TypeInv'
<1> DEFINE n == ticket[scene.orders[s].ticket].ref
           v == [sync[s] EXCEPT !.todo = {n} \ {0}, !.phase = "refresh"]
<1>1. Linked(scene.orders[s].ticket)
  BY DEF Refresh, TypeInv, Links
<1>2. n \in 0..Len(object)
  BY <1>1 DEF Linked
<1>3. v \in Syncing /\ v.todo \subseteq Keys /\ v.key = sync[s].key /\ v.max = sync[s].max /\ v.rounds = sync[s].rounds
  <2>1. sync[s] \in Syncing /\ n \in Nat /\ {n} \ {0} \subseteq Keys
    BY <1>2, SyncOf
  <2> HIDE DEF n
  <2> QED
    BY <2>1 DEF Syncing
<1>4. sync' = [sync EXCEPT ![s] = v]
  BY DEF Refresh
<1> HIDE DEF v
<1>5. UNCHANGED <<scene, rows, raced, closed, object, rushed>> /\ maxKey' \in 0..Len(object) /\ Goto(s, "next")
  BY SyncOf DEF Refresh
<1> QED
  BY <1>3, <1>4, <1>5, SyncOf, SyncGoes DEF Pcs, AtTicket, AtForm, AtObject

LEMMA LoadMaxKeepsTypes == ASSUME TypeInv, NEW s \in Jobs, LoadMax(s) PROVE TypeInv'
<1>1. PICK phase \in {"discover", "full"} : sync' = [sync EXCEPT ![s].max = maxKey, ![s].phase = phase]
  BY DEF LoadMax
<1> DEFINE v == [sync[s] EXCEPT !.max = maxKey, !.phase = phase]
<1>2. maxKey \in Nat
  BY DEF TypeInv, Shapes
<1>3. /\ v \in Syncing /\ v.todo = sync[s].todo /\ v.key = sync[s].key /\ v.max = maxKey
      /\ v.rounds = sync[s].rounds
  BY <1>2, SyncOf DEF Syncing
<1>4. sync' = [sync EXCEPT ![s] = v]
  BY <1>1
<1> HIDE DEF v
<1>5. UNCHANGED <<scene, rows, raced, closed, object, rushed>> /\ maxKey' \in 0..Len(object) /\ Goto(s, "list")
  BY SyncOf DEF LoadMax
<1> QED
  BY <1>3, <1>4, <1>5, SyncOf, SyncGoes DEF Pcs, AtTicket, AtForm, AtObject

LEMMA ListKeysKeepsTypes == ASSUME TypeInv, NEW s \in Jobs, ListKeys(s) PROVE TypeInv'
<1>1. UNCHANGED <<scene, rows, raced, closed, object, rushed>> /\ Goto(s, "next")
  BY DEF ListKeys
<1>2. \E todo \in SUBSET Keys, max \in 0..Len(object) : sync' = [sync EXCEPT ![s].todo = todo, ![s].max = max]
  <2>1. CASE sync' = [sync EXCEPT ![s].todo = Listed(s), ![s].max = IF Keys = {} THEN sync[s].max ELSE Max(Keys)]
    <3>1. Listed(s) \in SUBSET Keys
      BY DEF Listed
    <3>2. (IF Keys = {} THEN sync[s].max ELSE Max(Keys)) \in 0..Len(object)
      BY SyncOf, MaxUpTo
    <3> QED
      BY <2>1, <3>1, <3>2
  <2>2. CASE sync' = [sync EXCEPT ![s].todo = {}]
    <3>1. sync' = [sync EXCEPT ![s].todo = {}, ![s].max = sync[s].max]
      BY <2>2, SyncOf DEF TypeInv, Shapes, Syncing
    <3> QED
      BY <3>1, SyncOf
  <2> QED
    BY <2>1, <2>2 DEF ListKeys
<1>3. maxKey' \in 0..Len(object)
  <2> DEFINE top == IF Keys = {} THEN sync[s].max ELSE Max(Keys)
  <2>1. top \in 0..Len(object)
    BY SyncOf, MaxUpTo
  <2> HIDE DEF top
  <2>2. Max({top, sync[s].max}) \in 0..Len(object)
    BY <2>1, SyncOf, MaxOfTwo
  <2>3. maxKey' \in {maxKey, sync[s].max, Max({top, sync[s].max})}
    BY DEF ListKeys, top
  <2> QED
    BY <2>2, <2>3, SyncOf
<1>4. PICK todo \in SUBSET Keys, max \in 0..Len(object) : sync' = [sync EXCEPT ![s].todo = todo, ![s].max = max]
  BY <1>2
<1> DEFINE v == [sync[s] EXCEPT !.todo = todo, !.max = max]
<1>5. v \in Syncing /\ v.todo = todo /\ v.key = sync[s].key /\ v.max = max /\ v.rounds = sync[s].rounds
  <2>1. sync[s] \in Syncing /\ todo \subseteq Nat /\ max \in Nat
    BY SyncOf
  <2> QED
    BY <2>1 DEF Syncing
<1>6. sync' = [sync EXCEPT ![s] = v]
  BY <1>4
<1> HIDE DEF v
<1> QED
  BY <1>1, <1>3, <1>5, <1>6, SyncOf, SyncGoes DEF Pcs, AtTicket, AtForm, AtObject

LEMMA NextKeyKeepsTypes == ASSUME TypeInv, NEW s \in Jobs, NextKey(s) PROVE TypeInv'
<1>1. PICK n \in sync[s].todo : sync' = [sync EXCEPT ![s].key = n, ![s].todo = @ \ {n}]
  BY DEF NextKey
<1> DEFINE v == [sync[s] EXCEPT !.key = n, !.todo = @ \ {n}]
<1>2. n \in Keys /\ n \in 1..Len(object) /\ n \in Nat \ {0}
  BY SyncOf
<1>3. v \in Syncing /\ v.todo \subseteq Keys /\ v.key = n /\ v.max = sync[s].max /\ v.rounds = sync[s].rounds
  BY <1>2, SyncOf DEF Syncing
<1>4. sync' = [sync EXCEPT ![s] = v]
  BY <1>1
<1> HIDE DEF v
<1>5. UNCHANGED <<scene, rows, raced, closed, object, rushed>> /\ maxKey' \in 0..Len(object) /\ Goto(s, "get")
  BY SyncOf DEF NextKey
<1>6. "get" \in Pcs /\ "get" \notin AtTicket \cup AtForm \cup {"prior"} /\ "get" \notin AtObject \ {"get"}
  BY DEF Pcs, AtTicket, AtForm
<1>7. v.key \in 0..Len(object) /\ v.key # 0 /\ v.max \in 0..Len(object) /\ v.rounds \in 0..FullEvery
  BY <1>2, <1>3, SyncOf
<1> QED
  BY <1>3, <1>4, <1>5, <1>6, <1>7, SyncGoes

LEMMA PassEndsKeepsTypes == ASSUME TypeInv, NEW s \in Jobs, PassEnds(s) PROVE TypeInv'
<1>1. PICK r \in 0..FullEvery : sync' = [sync EXCEPT ![s] = [NoSync EXCEPT !.rounds = r]]
  <2>1. CASE sync[s].phase = "discover" /\ sync[s].rounds + 1 < FullEvery
    <3>1. sync[s].rounds + 1 \in 0..FullEvery
      BY <2>1, SyncOf, SyncAssumption
    <3> QED
      BY <2>1, <3>1 DEF PassEnds
  <2>2. CASE ~(sync[s].phase = "discover" /\ sync[s].rounds + 1 < FullEvery)
    <3>1. 0 \in 0..FullEvery
      BY SyncAssumption
    <3> QED
      BY <2>2, <3>1 DEF PassEnds
  <2> QED
    BY <2>1, <2>2
<1>2. PICK v \in Syncing : /\ v = [NoSync EXCEPT !.rounds = r]
                           /\ v.todo = {} /\ v.key = 0 /\ v.max = 0 /\ v.rounds = r
  BY RoundOver
<1>3. UNCHANGED <<scene, rows, raced, closed, object, rushed>> /\ maxKey' \in 0..Len(object)
  BY SyncOf DEF PassEnds
<1>4. PICK pc \in {"done", "full", "discover"} : Goto(s, pc)
  BY DEF PassEnds
<1>5. v.todo \subseteq Keys /\ v.key \in 0..Len(object) /\ v.max \in 0..Len(object)
  BY <1>2, SyncOf
<1>6. sync' = [sync EXCEPT ![s] = v]
  BY <1>1, <1>2
<1>7. pc \in Pcs /\ pc \notin AtTicket \cup AtForm \cup {"prior"} /\ pc \notin AtObject
  BY DEF Pcs, AtTicket, AtForm, AtObject
<1>8. v.rounds \in 0..FullEvery
  BY <1>2
<1> QED
  BY <1>3, <1>4, <1>5, <1>6, <1>7, <1>8, SyncGoes

LEMMA GetObjectKeepsTypes == ASSUME TypeInv, NEW s \in Jobs, GetObject(s) PROVE TypeInv'
<1>1. /\ UNCHANGED <<scene, rows, raced, closed, object, rushed>> /\ maxKey' \in 0..Len(object)
      /\ UNCHANGED maxKey
  BY SyncOf DEF GetObject
<1>2. CASE sync' = [sync EXCEPT ![s].got = object[sync[s].key].status] /\ Goto(s, "select")
  <2> DEFINE v == [sync[s] EXCEPT !.got = object[sync[s].key].status]
  <2>1. object[sync[s].key].status \in Status /\ sync[s].key # 0
    BY OnObject DEF GetObject, AtObject, TypeInv, Synced
  <2>2. /\ v \in Syncing /\ v.todo = sync[s].todo /\ v.key = sync[s].key /\ v.max = sync[s].max
        /\ v.rounds = sync[s].rounds /\ v.got \in Status
    BY <2>1, SyncOf DEF Syncing
  <2>3. sync' = [sync EXCEPT ![s] = v]
    BY <1>2
  <2> HIDE DEF v
  <2>4. "select" \in Pcs /\ "select" \notin AtTicket \cup AtForm \cup {"prior"}
    BY DEF Pcs, AtTicket, AtForm
  <2>5. /\ v.todo \subseteq Keys /\ v.key \in 0..Len(object) /\ v.key # 0 /\ v.max \in 0..Len(object)
        /\ v.rounds \in 0..FullEvery
    BY <2>1, <2>2, SyncOf
  <2> QED
    BY <1>1, <1>2, <2>2, <2>3, <2>4, <2>5, SyncGoes
<1>3. CASE Goto(s, "next") /\ UNCHANGED sync
  <2>1. SameRows /\ Beside
    BY <1>1, <1>3, NothingWritten DEF TypeInv, Shapes, Links, Beside
  <2> QED
    BY <1>3, <2>1, GoesBeside DEF Pcs, AtTicket, AtForm, AtObject
<1> QED
  BY <1>2, <1>3 DEF GetObject

LEMMA InsertRefusedKeepsTypes == ASSUME TypeInv, NEW s \in Jobs, InsertRefused(s) PROVE TypeInv'
<1>1. /\ UNCHANGED <<scene, rows, raced, closed, object, rushed>> /\ maxKey' \in 0..Len(object)
      /\ UNCHANGED maxKey
  BY SyncOf DEF InsertRefused
<1>2. CASE sync' = [sync EXCEPT ![s] = [NoSync EXCEPT !.rounds = sync[s].rounds]] /\ Goto(s, "discover")
  <2>1. PICK v \in Syncing : /\ v = [NoSync EXCEPT !.rounds = sync[s].rounds]
                             /\ v.todo = {} /\ v.key = 0 /\ v.max = 0 /\ v.rounds = sync[s].rounds
    BY SyncOf, RoundOver
  <2>2. /\ v.todo \subseteq Keys /\ v.key \in 0..Len(object) /\ v.max \in 0..Len(object)
        /\ v.rounds \in 0..FullEvery
    BY <2>1, SyncOf
  <2>3. sync' = [sync EXCEPT ![s] = v]
    BY <1>2, <2>1
  <2>4. "discover" \in Pcs /\ "discover" \notin AtTicket \cup AtForm \cup {"prior"} /\ "discover" \notin AtObject
    BY DEF Pcs, AtTicket, AtForm, AtObject
  <2> QED
    BY <1>1, <1>2, <2>2, <2>3, <2>4, SyncGoes
<1>3. CASE Goto(s, "next") /\ UNCHANGED sync
  <2>1. SameRows /\ Beside
    BY <1>1, <1>3, NothingWritten DEF TypeInv, Shapes, Links, Beside
  <2> QED
    BY <1>3, <2>1, GoesBeside DEF Pcs, AtTicket, AtForm, AtObject
<1> QED
  BY <1>2, <1>3 DEF InsertRefused

LEMMA SelectRowKeepsTypes == ASSUME TypeInv, NEW s \in Jobs, SelectRow(s) PROVE TypeInv'
<1>1. /\ UNCHANGED <<scene, rows, raced, closed, object, rushed>> /\ maxKey' \in 0..Len(object)
      /\ UNCHANGED maxKey
  BY SyncOf DEF SelectRow
<1>2. sync[s].key # 0 /\ sync[s].got \in Status
  BY DEF SelectRow, TypeInv, Synced, AtObject
<1>3. CASE Goto(s, "insert") /\ UNCHANGED sync
  <2>1. PICK v \in Syncing : v = sync[s]
    BY SyncOf
  <2>2. sync' = [sync EXCEPT ![s] = v]
    BY <1>3, <2>1 DEF TypeInv, Shapes
  <2>3. /\ v.todo \subseteq Keys /\ v.key \in 0..Len(object) /\ v.key # 0 /\ v.max \in 0..Len(object)
        /\ v.rounds \in 0..FullEvery /\ v.got \in Status
    BY <1>2, <2>1, SyncOf
  <2>4. "insert" \in Pcs /\ "insert" \notin AtTicket \cup AtForm \cup {"prior"}
    BY DEF Pcs, AtTicket, AtForm
  <2> QED
    BY <1>1, <1>3, <2>2, <2>3, <2>4, SyncGoes
<1>4. CASE \E k \in RowOf(sync[s].key) : /\ job' = Saw(s, k, "update")
                                         /\ sync' = [sync EXCEPT ![s].active = Active(k) # {}]
  <2>1. PICK k \in RowOf(sync[s].key) : /\ job' = Saw(s, k, "update")
                                        /\ sync' = [sync EXCEPT ![s].active = Active(k) # {}]
    BY <1>4
  <2>2. k \in DOMAIN ticket /\ ticket[k].ref = sync[s].key /\ ticket[k].status \in Status
    <3>1. k \in DOMAIN ticket /\ ticket[k].ref = sync[s].key
      BY <2>1 DEF RowOf
    <3>2. ticket[k] \in Rows
      BY <3>1 DEF TypeInv, Shapes
    <3> QED
      BY <3>1, <3>2 DEF Rows
  <2>3. SameRows
    BY <1>1, NothingWritten DEF TypeInv, Links
  <2>4. /\ JobMoved(s) /\ job'[s].pc = "update" /\ Tied(s)'
        /\ job'[s].status = ticket[k].status /\ job'[s].key = ticket[k].ref
    BY <2>1, <2>2, <2>3, SeesTied, Seeing DEF Pcs, AtForm, TypeInv, Shapes
  <2> DEFINE v == [sync[s] EXCEPT !.active = Active(k) # {}]
  <2>5. sync' = [sync EXCEPT ![s] = v]
    BY <2>1
  <2>6. /\ v \in Syncing /\ v.todo = sync[s].todo /\ v.key = sync[s].key /\ v.max = sync[s].max
        /\ v.rounds = sync[s].rounds /\ v.got = sync[s].got
    BY SyncOf DEF Syncing
  <2> HIDE DEF v
  <2>7. SyncMoved(s) /\ sync'[s] = v
    BY <2>5, <2>6 DEF SyncMoved, TypeInv, Shapes
  <2>8. Synced(s)'
    BY <1>1, <1>2, <2>2, <2>4, <2>6, <2>7, SyncOf DEF Synced, Keys
  <2> QED
    BY <1>1, <2>3, <2>4, <2>7, <2>8, SyncStep DEF TypeInv, Shapes
<1> QED
  BY <1>3, <1>4 DEF SelectRow

LEMMA Effective ==
  ASSUME NEW got \in Status, NEW local \in Status, NEW active \in BOOLEAN
  PROVE  /\ EffectiveStatus(got, local, active) \in Status
         /\ local \in Terminal => EffectiveStatus(got, local, active) \in Terminal
  BY DEF EffectiveStatus, Status, Terminal

LEMMA UpdateRowWrites ==
  ASSUME TypeInv, NEW s \in Jobs, UpdateRow(s)
  PROVE  /\ ticket' \in Seq(Rows) /\ DOMAIN ticket' = DOMAIN ticket
         /\ \A k \in DOMAIN ticket :
              /\ ticket'[k].ref = ticket[k].ref /\ ticket'[k].agent = ticket[k].agent
              /\ ticket'[k].status = IF ticket[k].ref = sync[s].key
                                       THEN EffectiveStatus(sync[s].got, job[s].status, sync[s].active)
                                       ELSE ticket[k].status
<1> DEFINE status == EffectiveStatus(sync[s].got, job[s].status, sync[s].active)
           row(k) == IF k \in RowOf(sync[s].key) THEN [ticket[k] EXCEPT !.status = status, !.asked = None]
                     ELSE ticket[k]
<1>1. status \in Status
  <2>1. sync[s].got \in Status /\ job[s].status \in Status /\ sync[s].active \in BOOLEAN
    BY DEF UpdateRow, TypeInv, Shapes, Synced, Syncing, AtObject
  <2> QED
    BY <2>1, Effective
<1>2. ticket' = [k \in DOMAIN ticket |-> row(k)]
  BY DEF UpdateRow
<1> HIDE DEF status
<1>3. ASSUME NEW k \in DOMAIN ticket
      PROVE  /\ row(k) \in Rows /\ row(k).ref = ticket[k].ref /\ row(k).agent = ticket[k].agent
             /\ row(k).status = IF ticket[k].ref = sync[s].key THEN status ELSE ticket[k].status
  <2>1. ticket[k] \in Rows
    BY DEF TypeInv, Shapes
  <2>2. k \in RowOf(sync[s].key) <=> ticket[k].ref = sync[s].key
    BY DEF RowOf
  <2> QED
    BY <1>1, <2>1, <2>2 DEF Rows
<1> HIDE DEF row
<1>4. ticket' \in Seq(Rows)
  <2>1. ticket \in Seq(Rows)
    BY DEF TypeInv, Shapes
  <2>2. DOMAIN ticket = 1..Len(ticket) /\ Len(ticket) \in Nat
    BY <2>1
  <2>3. ticket' \in [1..Len(ticket) -> Rows]
    BY <1>2, <1>3, <2>2
  <2> QED
    BY <2>2, <2>3
<1> QED
  BY <1>2, <1>3, <1>4 DEF status

LEMMA UpdateRowKeepsTypes == ASSUME TypeInv, NEW s \in Jobs, UpdateRow(s) PROVE TypeInv'
<1>1. SameRows
  BY UpdateRowWrites, TicketWritten DEF UpdateRow, TypeInv, Links
<1>2. scene' = scene /\ UNCHANGED provVars /\ Return(s)
  BY DEF UpdateRow, provVars
<1> QED
  BY <1>1, <1>2, Returns

\* A row is added that refers to an object no other row refers to.
LEMMA RowAdded ==
  ASSUME TypeInv, NEW row \in Rows, ticket' = Append(ticket, row), row.agent = 0, row.ref \in 0..Len(object),
         row.ref = 0 \/ RowOf(row.ref) = {},
         UNCHANGED <<scene, agent, form, raced, closed, maxKey, sync, rushed>>,
         object' \in Seq(Objects), DOMAIN object' = DOMAIN object,
         NEW c \in Jobs, JobMoved(c), job'[c].form \in {0, job[c].form},
         job'[c].pc \notin AtForm \cup AtObject \cup {"prior", "link", "bind"},
         job'[c].ticket = Len(ticket') \/ (job'[c].ticket = 0 /\ job'[c].pc \notin AtTicket)
  PROVE  TypeInv'
<1>1. /\ ticket' \in Seq(Rows) /\ DOMAIN ticket' = DOMAIN ticket \cup {Len(ticket) + 1}
      /\ Len(ticket') = Len(ticket) + 1 /\ Len(ticket) \in Nat
      /\ (\A k \in DOMAIN ticket : ticket'[k] = ticket[k]) /\ ticket'[Len(ticket) + 1] = row
  BY Extended DEF TypeInv, Shapes
<1>2. Len(object') = Len(object) /\ Len(object) \in Nat
  <2>1. DOMAIN object \subseteq DOMAIN object' /\ DOMAIN object' \subseteq DOMAIN object
    OBVIOUS
  <2>2. object \in Seq(Objects)
    BY DEF TypeInv, Shapes
  <2>3. Len(object) \in Nat /\ Len(object') \in Nat /\ DOMAIN object = 1..Len(object) /\ DOMAIN object' = 1..Len(object')
    BY <2>2
  <2>4. Len(object) <= Len(object')
    BY <2>1, MoreObjects
  <2>5. Len(object') <= Len(object)
    <3>1. CASE Len(object') = 0
      BY <2>3, <3>1
    <3>2. CASE Len(object') # 0
      <4>1. Len(object') \in DOMAIN object'
        BY <2>3, <3>2
      <4>2. Len(object') \in DOMAIN object
        BY <4>1
      <4> QED
        BY <2>3, <4>2
    <3> QED
      BY <3>1, <3>2
  <2> QED
    BY <2>3, <2>4, <2>5
<1>3. Shapes' /\ Grown /\ Others(c)
  BY <1>1, <1>2 DEF TypeInv, Shapes, Grown, Others, JobMoved
<1>4. Unique'
  <2>1. Unique /\ \A k \in DOMAIN ticket : row.ref # 0 => ticket[k].ref # row.ref
    BY DEF TypeInv, RowOf
  <2> QED
    BY <1>1, <2>1 DEF Unique
<1>5. Links'
  <2>1. ASSUME NEW k \in DOMAIN ticket' PROVE Linked(k)'
    <3>1. CASE k \in DOMAIN ticket
      BY <1>1, <1>2, <3>1 DEF TypeInv, Links, Linked
    <3>2. CASE k = Len(ticket) + 1
      <4>1. ticket'[k] = row /\ Len(agent') \in Nat
        BY <1>1, <1>3, <3>2 DEF Shapes
      <4> QED
        BY <1>2, <4>1 DEF Linked
    <3> QED
      BY <1>1, <3>1, <3>2
  <2> QED
    BY <1>1, <2>1 DEF TypeInv, Links
<1>6. Tied(c)'
  BY <1>1 DEF TypeInv, Shapes, Tied
<1>7. Synced(c)'
  BY <1>2 DEF TypeInv, Synced, Keys, AtObject
<1> QED
  BY <1>3, <1>4, <1>5, <1>6, <1>7, OneMoved

LEMMA CreateTicketKeepsTypes == ASSUME TypeInv, NEW c \in Jobs, CreateTicket(c) PROVE TypeInv'
<1> DEFINE row == [ref |-> 0, status |-> "new", asked |-> None, agent |-> 0, told |-> FALSE]
           v == [job[c] EXCEPT !.pc = "make", !.ticket = Len(ticket')]
<1>1. row \in Rows
  BY DEF Rows, Status
<1>2. UNCHANGED <<scene, agent, form, raced, closed, object, maxKey, sync, rushed>> /\ ticket' = Append(ticket, row)
  BY DEF CreateTicket, provVars
<1>3. job[c] \in Coroutines /\ Len(ticket') \in Nat /\ object \in Seq(Objects) /\ Len(object) \in Nat
  BY <1>1, <1>2, Extended DEF TypeInv, Shapes
<1>4. PICK n \in Nat : n = Len(ticket')
  BY <1>3
<1>5. v \in Coroutines /\ v.pc = "make" /\ v.ticket = n /\ v.form = job[c].form
  BY <1>3, <1>4 DEF Coroutines, Pcs
<1>6. job' = [job EXCEPT ![c] = v]
  BY DEF CreateTicket
<1> HIDE DEF v
<1>7. JobMoved(c) /\ job'[c] = v
  BY <1>5, <1>6 DEF JobMoved, TypeInv, Shapes
<1>8. row.ref = 0 /\ row.agent = 0 /\ row.ref \in 0..Len(object)
  BY <1>3
<1>9. v.pc \notin AtForm \cup AtObject \cup {"prior", "link", "bind"}
  BY <1>5 DEF AtForm, AtObject
<1>10. /\ job'[c].form \in {0, job[c].form} /\ job'[c].ticket = Len(ticket')
       /\ job'[c].pc \notin AtForm \cup AtObject \cup {"prior", "link", "bind"}
  BY <1>4, <1>5, <1>7, <1>9
<1>11. object' \in Seq(Objects) /\ DOMAIN object' = DOMAIN object
  BY <1>2, <1>3
<1>12. UNCHANGED <<scene, agent, form, raced, closed, maxKey, sync, rushed>> /\ JobMoved(c)
  BY <1>2, <1>7
<1>13. ticket' = Append(ticket, row) /\ (row.ref = 0 \/ RowOf(row.ref) = {})
  BY <1>2, <1>8
<1> HIDE DEF row
<1> QED
  BY <1>1, <1>8, <1>10, <1>11, <1>12, <1>13, RowAdded

LEMMA InsertRowKeepsTypes == ASSUME TypeInv, NEW s \in Jobs, InsertRow(s) PROVE TypeInv'
<1> DEFINE n == sync[s].key
           row == [ref |-> n, status |-> sync[s].got, asked |-> None, agent |-> 0, told |-> FALSE]
           full == sync[s].phase = "full"
           pc == IF full THEN "next" ELSE "auto"
           v == [job[s] EXCEPT !.pc = pc, !.ticket = IF full THEN 0 ELSE Len(ticket')]
<1>1. row \in Rows
  <2>1. n \in Nat /\ sync[s].got \in Status
    BY SyncOf DEF InsertRow, TypeInv, Synced, AtObject
  <2> QED
    BY <2>1 DEF Rows
<1>2. UNCHANGED <<scene, agent, form, raced, closed, maxKey, sync, rushed>> /\ ticket' = Append(ticket, row)
  BY DEF InsertRow
<1>3. object' \in Seq(Objects) /\ DOMAIN object' = DOMAIN object
  <2> DEFINE w == [object[n] EXCEPT !.early = object[n].early \/ ~object[n].linked]
  <2>1. n \in DOMAIN object /\ object \in Seq(Objects)
    BY OnObject DEF InsertRow, AtObject, TypeInv, Shapes
  <2>2. w \in Objects
    <3>1. object[n] \in Objects /\ (object[n].early \/ ~object[n].linked) \in BOOLEAN
      BY <2>1
    <3> QED
      BY <3>1 DEF Objects
  <2>3. object' = [object EXCEPT ![n] = w]
    BY DEF InsertRow
  <2> HIDE DEF w
  <2> QED
    BY <2>1, <2>2, <2>3, Replaced
<1>4. job[s] \in Coroutines /\ Len(ticket') \in Nat
  BY <1>1, <1>2, Extended DEF TypeInv, Shapes
<1>5. PICK m \in Nat : m = IF full THEN 0 ELSE Len(ticket')
  BY <1>4
<1>6. v \in Coroutines /\ v.pc = pc /\ v.ticket = m /\ v.form = job[s].form
  BY <1>4, <1>5 DEF Coroutines, Pcs
<1>7. job' = [job EXCEPT ![s] = v]
  BY DEF InsertRow
<1> HIDE DEF v
<1>8. JobMoved(s) /\ job'[s] = v
  BY <1>6, <1>7 DEF JobMoved, TypeInv, Shapes
<1>9. v.pc \notin AtForm \cup AtObject \cup {"prior", "link", "bind"}
  BY <1>6 DEF AtForm, AtObject
<1>10. v.ticket = Len(ticket') \/ (v.ticket = 0 /\ v.pc \notin AtTicket)
  <2>1. CASE full
    BY <1>5, <1>6, <2>1 DEF AtTicket
  <2>2. CASE ~full
    <3>1. m = Len(ticket')
      BY <1>5, <2>2
    <3> QED
      BY <1>6, <3>1
  <2> QED
    BY <2>1, <2>2
<1>11. row.agent = 0 /\ row.ref \in 0..Len(object) /\ RowOf(row.ref) = {}
  BY SyncOf DEF InsertRow
<1> HIDE DEF row
<1> QED
  BY <1>1, <1>2, <1>3, <1>6, <1>8, <1>9, <1>10, <1>11, RowAdded

LEMMA BindRowKeepsTypes == ASSUME TypeInv, NEW c \in Jobs, BindRow(c) PROVE TypeInv'
<1> DEFINE k == job[c].ticket
           n == job[c].key
           v == [ticket[k] EXCEPT !.ref = n, !.asked = None]
           w == [object[n] EXCEPT !.linked = TRUE]
<1>1. /\ UNCHANGED <<scene, agent, form, raced, maxKey, sync, rushed>> /\ job[c].pc = "bind"
      /\ k \in DOMAIN ticket /\ ticket[k] \in Rows /\ n \in DOMAIN object /\ job[c].pc \in AtTicket
  BY OnTicket DEF BindRow, AtTicket, TypeInv, Tied, Keys, Row
<1>2. CASE Return(c) /\ UNCHANGED <<ticket, object, closed>>
  <2>1. SameRows /\ Beside
    BY <1>1, <1>2, NothingWritten DEF rows, TypeInv, Shapes, Links, Beside
  <2> QED
    BY <1>2, <2>1, ReturnsBeside
<1>3. CASE ~Taken(k, n) /\ ticket' = [ticket EXCEPT ![k].ref = BoundRef(c), ![k].asked = None]
           /\ object' = [object EXCEPT ![n].linked = TRUE] /\ Goto(c, "confirm") /\ closed' = closed \ {k}
  <2>1. n \in Nat /\ v \in Rows /\ v.ref = n /\ v.agent = ticket[k].agent
    <3>1. n \in Nat
      BY <1>1 DEF TypeInv, Shapes
    <3> HIDE DEF n
    <3> QED
      BY <1>1, <3>1 DEF Rows
  <2>2. ticket' = [ticket EXCEPT ![k] = v]
    BY <1>3 DEF BoundRef
  <2> HIDE DEF v
  <2>3. /\ ticket' \in Seq(Rows) /\ DOMAIN ticket' = DOMAIN ticket /\ Len(ticket') = Len(ticket)
        /\ \A j \in DOMAIN ticket : ticket'[j] = IF j = k THEN v ELSE ticket[j]
    BY <2>1, <2>2, Replaced DEF TypeInv, Shapes
  <2>4. w \in Objects /\ object' = [object EXCEPT ![n] = w]
    <3>1. object[n] \in Objects
      BY <1>1 DEF TypeInv, Shapes
    <3> QED
      BY <1>3, <3>1 DEF Objects
  <2> HIDE DEF w
  <2>5. object' \in Seq(Objects) /\ DOMAIN object' = DOMAIN object /\ Len(object') = Len(object)
    BY <2>4, Replaced DEF TypeInv, Shapes
  <2>6. JobMoved(c) /\ job'[c].pc = "confirm" /\ job'[c].ticket = k /\ job'[c].form = job[c].form
    BY <1>3, Going DEF JobMoved, TypeInv, Shapes, Pcs
  <2>7. Shapes' /\ Grown /\ Others(c)
    BY <1>1, <2>3, <2>5, <2>6 DEF TypeInv, Shapes, Grown, Others, JobMoved
  <2>8. Unique'
    <3>1. \A j \in DOMAIN ticket \ {k} : ticket[j].ref # n
      BY <1>3 DEF Taken, RowOf
    <3> QED
      BY <2>1, <2>3, <3>1 DEF TypeInv, Unique
  <2>9. Links'
    <3>1. n \in 0..Len(object)
      BY <1>1 DEF TypeInv, Shapes
    <3>2. ASSUME NEW j \in DOMAIN ticket PROVE Linked(j)'
      <4>1. Linked(j)
        BY DEF TypeInv, Links
      <4>2. ticket'[j].agent = ticket[j].agent /\ ticket'[j].ref \in {n, ticket[j].ref}
        BY <2>1, <2>3
      <4> QED
        BY <1>1, <2>5, <3>1, <4>1, <4>2 DEF Linked
    <3> QED
      BY <1>1, <1>3, <2>3, <3>2 DEF TypeInv, Links
  <2>10. Tied(c)'
    BY <1>1, <2>3, <2>6 DEF TypeInv, Tied, AtForm
  <2>11. Synced(c)'
    BY <1>1, <2>5, <2>6 DEF TypeInv, Synced, Keys, AtObject
  <2> QED
    BY <2>7, <2>8, <2>9, <2>10, <2>11, OneMoved
<1> QED
  BY <1>2, <1>3 DEF BindRow

LEMMA CrashKeepsTypes == ASSUME TypeInv, Crash PROVE TypeInv'
<1> DEFINE j(c) == IF c = Loop /\ op(c) = "loop" THEN [NoJob EXCEPT !.pc = "new"]
                   ELSE IF job[c].pc = "new" THEN job[c] ELSE NoJob
<1>1. /\ UNCHANGED <<scene, ticket, agent, form, closed, object, maxKey, rushed>>
      /\ job' = [c \in Jobs |-> j(c)] /\ sync' = [s \in Jobs |-> NoSync]
      /\ raced' = raced \cup {job[c].ticket : c \in {d \in Jobs : job[d].pc = "link"}}
  BY DEF Crash, rows
<1>2. NoJob \in Coroutines /\ [NoJob EXCEPT !.pc = "new"] \in Coroutines /\ NoSync \in Syncing
  BY DEF NoJob, NoSync, Coroutines, Syncing, Pcs
<1>3. ASSUME NEW c \in Jobs
      PROVE  /\ j(c) \in Coroutines /\ j(c).pc \in {"new", "done"}
             /\ j(c).ticket \in 0..Len(ticket) /\ j(c).form \in 0..Len(form)
  <2>1. Tied(c) /\ job[c] \in Coroutines /\ 0 \in 0..Len(ticket) /\ 0 \in 0..Len(form)
    BY DEF TypeInv, Shapes
  <2>2. NoJob.pc = "done" /\ NoJob.ticket = 0 /\ NoJob.form = 0
    BY DEF NoJob
  <2>3. LET w == [NoJob EXCEPT !.pc = "new"] IN w.pc = "new" /\ w.ticket = 0 /\ w.form = 0
    BY DEF NoJob
  <2> QED
    BY <1>2, <2>1, <2>2, <2>3 DEF Tied
<1> HIDE DEF j
<1>6. Shapes'
  BY <1>1, <1>2, <1>3 DEF TypeInv, Shapes
<1>7. Unique'
  BY <1>1 DEF TypeInv, Unique
<1>8. Links'
  <2>1. raced' \subseteq DOMAIN ticket
    <3>1. \A c \in Jobs : job[c].pc = "link" => job[c].ticket \in DOMAIN ticket
      BY OnTicket DEF AtTicket
    <3> QED
      BY <1>1, <3>1 DEF TypeInv, Links
  <2>2. \A f \in DOMAIN form' : form'[f].ticket \in DOMAIN ticket
    BY <1>1 DEF TypeInv, Links
  <2>3. ASSUME NEW k \in DOMAIN ticket PROVE Linked(k)'
    BY <1>1 DEF TypeInv, Links, Linked
  <2> QED
    BY <1>1, <2>1, <2>2, <2>3 DEF TypeInv, Links
<1>9. ASSUME NEW c \in Jobs PROVE Tied(c)' /\ Synced(c)'
  <2>1. job'[c] = j(c) /\ sync'[c] = NoSync /\ Len(ticket') = Len(ticket) /\ Len(object) \in Nat /\ object' = object
    BY <1>1 DEF TypeInv, Shapes
  <2>2. Tied(c)'
    BY <1>1, <1>3, <2>1 DEF Tied, AtTicket, AtForm
  <2>3. Synced(c)'
    <3>1. NoSync.todo = {} /\ NoSync.key = 0 /\ NoSync.max = 0 /\ NoSync.rounds = 0
      BY DEF NoSync
    <3> QED
      BY <1>3, <2>1, <3>1, SyncAssumption DEF Synced, AtObject, Keys
  <2> QED
    BY <2>2, <2>3
<1> QED
  BY <1>6, <1>7, <1>8, <1>9 DEF TypeInv

LEMMA InitTypes == ASSUME Init PROVE TypeInv
<1>1. /\ scene \in Scenes /\ ticket = scene.tickets /\ agent = <<>> /\ form = <<>>
      /\ job = [c \in Jobs |-> [NoJob EXCEPT !.pc = IF op(c) = "none" THEN "done" ELSE "new"]]
      /\ raced = {} /\ closed = {}
      /\ object = [n \in 1..scene.known |-> Fresh("new", 0)] /\ maxKey = Len(object)
      /\ sync = [s \in Jobs |-> NoSync] /\ rushed = FALSE
  BY DEF Init, DeskInit
<1> DEFINE First == [ref : Nat, status : Status, asked : Status \cup {None}, agent : {0}, told : BOOLEAN]
<1>2. ticket \in Seq(First) /\ \A row \in First : row \in Rows /\ row.agent = 0 /\ row.ref \in Nat
  <2>1. ticket \in Seq(First)
    BY <1>1, ReplyAssumption
  <2>2. ASSUME NEW row \in First PROVE row \in Rows /\ row.agent = 0 /\ row.ref \in Nat
    BY DEF Rows
  <2> QED
    BY <2>1, <2>2
<1> HIDE DEF First
<1>3. ticket \in Seq(Rows) /\ \A k \in DOMAIN ticket : ticket[k].agent = 0 /\ ticket[k].ref \in Nat
  <2>1. DOMAIN ticket = 1..Len(ticket) /\ Len(ticket) \in Nat
    BY <1>2
  <2>2. ticket \in [1..Len(ticket) -> Rows] /\ \A k \in DOMAIN ticket : ticket[k] \in First
    BY <1>2, <2>1
  <2> QED
    BY <1>2, <2>1, <2>2
<1>4. scene.known \in Nat /\ object \in Seq(Objects) /\ Len(object) = scene.known
  <2>1. scene.known \in Nat
    BY <1>1, SyncAssumption
  <2>2. Fresh("new", 0) \in Objects
    BY DEF Fresh, Objects, Status
  <2>3. object \in [1..scene.known -> Objects]
    BY <1>1, <2>2
  <2> QED
    BY <2>1, <2>3
<1>5. ASSUME NEW c \in Jobs
      PROVE  /\ job[c] \in Coroutines /\ job[c].pc \in {"new", "done"}
             /\ job[c].ticket = 0 /\ job[c].form = 0
  <2> DEFINE pc == IF op(c) = "none" THEN "done" ELSE "new"
  <2>1. job[c] = [NoJob EXCEPT !.pc = pc] /\ pc \in {"new", "done"}
    BY <1>1
  <2> HIDE DEF pc
  <2> QED
    BY <2>1 DEF NoJob, Coroutines, Pcs
<1>6. NoSync \in Syncing
  BY DEF NoSync, Syncing
<1>7. Shapes
  <2>1. job \in [Jobs -> Coroutines]
    BY <1>1, <1>5
  <2>2. sync \in [Jobs -> Syncing]
    BY <1>1, <1>6
  <2>3. maxKey \in 0..Len(object) /\ rushed \in BOOLEAN
    <3>1. rushed \in BOOLEAN
      BY <1>1, Zenon
    <3>2. maxKey \in 0..Len(object)
      BY <1>1, <1>4
    <3> QED
      BY <3>1, <3>2
  <2>4. agent \in Seq(Agents) /\ form \in Seq(Forms)
    BY <1>1, EmptySeq
  <2> QED
    BY <1>1, <1>3, <1>4, <2>1, <2>2, <2>3, <2>4 DEF Shapes
<1>8. Unique
  BY <1>1, SyncAssumption DEF Unique
<1>9. Links
  <2>1. ASSUME NEW k \in DOMAIN ticket PROVE Linked(k)
    <3>1. ticket[k].ref \in Nat /\ ticket[k].ref <= scene.known /\ ticket[k].agent = 0
      BY <1>1, <1>3, SyncAssumption
    <3>2. Len(agent) \in Nat
      BY <1>1
    <3> QED
      BY <1>4, <3>1, <3>2 DEF Linked
  <2> QED
    BY <1>1, <2>1 DEF Links
<1>10. ASSUME NEW c \in Jobs PROVE Tied(c) /\ Synced(c)
  <2>1. Len(ticket) \in Nat /\ Len(form) \in Nat /\ Len(object) \in Nat
    BY <1>7 DEF Shapes
  <2>2. sync[c].todo = {} /\ sync[c].key = 0 /\ sync[c].max = 0 /\ sync[c].rounds = 0
    BY <1>1 DEF NoSync
  <2> QED
    BY <1>5, <2>1, <2>2, SyncAssumption DEF Tied, Synced, AtTicket, AtForm, AtObject, Keys
<1> QED
  BY <1>7, <1>8, <1>9, <1>10 DEF TypeInv

LEMMA NextKeepsTypes == ASSUME TypeInv, [Next]_vars PROVE TypeInv'
<1>1. CASE Next
  <2>1. ASSUME NEW c \in Jobs, Syncs(c) \/ LoadMax(c) \/ Refresh(c) PROVE TypeInv'
    BY <2>1, ListKeysKeepsTypes, NextKeyKeepsTypes, PassEndsKeepsTypes, GetObjectKeepsTypes,
       SelectRowKeepsTypes, UpdateRowKeepsTypes, InsertRefusedKeepsTypes, InsertRowKeepsTypes,
       LoadMaxKeepsTypes, RefreshKeepsTypes DEF Syncs
  <2>2. ASSUME NEW c \in Jobs, Provides(c) \/ CreateTicket(c) PROVE TypeInv'
    BY <2>2, AutomaticKeepsTypes, MakeObjectKeepsTypes, BindRowKeepsTypes, ConfirmKeepsTypes,
       ClosingKeepsTypes, CreateTicketKeepsTypes DEF Provides
  <2> QED
    BY <1>1, <2>1, <2>2, DeskKeepsTypes, BootKeepsTypes, PeopleKeepTypes, CrashKeepsTypes DEF Next
<1>2. CASE UNCHANGED vars
  BY <1>2 DEF vars, deskVars, provVars, rows, TypeInv, Shapes, Unique, Links, Linked, Tied, Synced, Keys, op
<1> QED
  BY <1>1, <1>2

\* Every variable keeps its type, no two rows carry one key of the provider, and what a
\* coroutine goes on with is a ticket, form, agent or object that exists.
THEOREM Typed == Spec => []TypeInv
<1>1. Init => TypeInv
  BY InitTypes
<1>2. TypeInv /\ [Next]_vars => TypeInv'
  BY NextKeepsTypes
<1> QED
  BY <1>1, <1>2, PTL DEF Spec

\* TypeOK, which the run checks, for every scene and any number of coroutines.
THEOREM WellTyped == Spec => []TypeOK
<1>1. TypeInv => TypeOK
  <2> SUFFICES ASSUME TypeInv PROVE TypeOK
    OBVIOUS
  <2>1. ASSUME NEW k \in DOMAIN ticket
        PROVE  /\ ticket[k].ref \in 0..Len(object) /\ ticket[k].agent \in 0..Len(agent)
               /\ ticket[k].status \in Status /\ ticket[k].asked \in Status \cup {None}
               /\ ticket[k].agent # 0 => agent[ticket[k].agent].ticket = k
               /\ ticket[k].ref # 0 => RowOf(ticket[k].ref) = {k}
    <3>1. Linked(k) /\ ticket[k] \in Rows
      BY DEF TypeInv, Shapes, Links
    <3>2. ticket[k].ref # 0 => RowOf(ticket[k].ref) = {k}
      BY DEF TypeInv, Unique, RowOf
    <3> QED
      BY <3>1, <3>2 DEF Linked, Rows
  <2>2. \A f \in DOMAIN form : form[f].ticket \in DOMAIN ticket /\ form[f].stored \subseteq Jobs
    <3>1. \A f \in DOMAIN form : form[f] \in Forms /\ form[f].ticket \in DOMAIN ticket
      BY DEF TypeInv, Shapes, Links
    <3> QED
      BY <3>1 DEF Forms
  <2>3. ASSUME NEW c \in Jobs
        PROVE  /\ job[c].pc \in Pcs /\ job[c].ticket \in 0..Len(ticket) /\ job[c].form \in 0..Len(form)
               /\ sync[c].todo \subseteq Keys /\ sync[c].key \in 0..Len(object)
               /\ sync[c].max \in 0..Len(object) /\ sync[c].rounds \in 0..FullEvery
    <3>1. job[c] \in Coroutines /\ Tied(c) /\ Synced(c)
      BY DEF TypeInv, Shapes
    <3> QED
      BY <3>1 DEF Tied, Synced, Coroutines
  <2> QED
    BY <2>1, <2>2, <2>3 DEF TypeOK, TypeInv, Shapes, Links
<1> QED
  BY <1>1, Typed, PTL
=============================================================================
