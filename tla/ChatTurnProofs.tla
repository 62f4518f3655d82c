--------------------------- MODULE ChatTurnProofs ---------------------------
(***************************************************************************)
(* Proofs about ChatTurn, for every number of turns, attempts, commands,   *)
(* messages and tickets and every scene: what a turn tells the user about  *)
(* tickets is so, a ticket reported as opened has its agent, was not to    *)
(* have one or has somebody on the way, and a turn that gives up leaves no *)
(* ticket its harness opened in time.                                      *)
(***************************************************************************)
EXTENDS ChatTurn, SequenceTheorems, FiniteSetTheorems, WellFoundedInduction, TLAPS

-----------------------------------------------------------------------------
(* Types and references.                                                   *)

Pcs == {"absent", "new", "insert", "record", "context", "harness", "killing", "recoverUpdate",
        "recoverTicket", "fallback", "cancel", "reply", "done"}
ToolPcs == {"idle", "waiting", "first", "assign", "last", "respond", "status", "report"}
RequestPcs == {"none", "lookup", "insert", "scope", "created", "replayed"}
Modes == {"none", "general", "form", "ticket", "found", "update"}

Outcomes == [mode : Modes, ticket : Nat, claims : BOOLEAN]
Coroutines == [pc : Pcs, session : Nat, attempt : Nat, history : SUBSET Messages,
               allowed : SUBSET Nat, reply : Outcomes]
Tools == [pc : ToolPcs, ticket : Nat, asks : Asks, commands : Nat, alive : BOOLEAN]
Requests == [pc : RequestPcs, ticket : Nat]
Files == [shown : Outcomes, action : Outcomes]
Rooms == [tickets : SUBSET Nat, messages : SUBSET Messages]

TypeInv ==
  /\ scene \in Scenes
  /\ session \in Seq(Rooms) /\ current \in 0..Len(session)
  /\ ticket \in Seq(Row)
  /\ turn \in [Turns -> Coroutines] /\ tool \in [Runs -> Tools]
  /\ request \in [Runs -> [Orders -> Requests]] /\ result \in [Runs -> Files]
  /\ declined \in SUBSET Nat /\ faults \in Nat

\* The turn has read its context: its session and its history are settled.
Started(t) == turn[t].pc \notin {"absent", "new", "insert", "record", "context"}
\* The attempts are not over.
Trying == {"absent", "new", "insert", "record", "context", "harness", "killing"}
Known(k) == k \in DOMAIN ticket \cup {0}

Placed(t) ==
  /\ turn[t].pc # "absent" => says[t] \in Messages
  /\ turn[t].pc \notin {"absent", "new", "insert"} => turn[t].session \in DOMAIN session
  /\ turn[t].attempt \in 1..(Attempts + 1)
  /\ turn[t].pc \in Trying => turn[t].attempt =< Attempts
  /\ turn[t].allowed \subseteq DOMAIN ticket
  /\ Known(turn[t].reply.ticket)
  /\ turn[t].pc = "cancel" => turn[t].reply.ticket # 0

Requested(r, n) ==
  /\ request[r][n].pc # "none" => Started(r[1])
  /\ request[r][n].pc \in {"scope", "created", "replayed"} => request[r][n].ticket \in DOMAIN ticket

Tooled(r) ==
  /\ tool[r].pc # "idle" => Started(r[1])
  /\ tool[r].pc \notin {"idle", "waiting"} => tool[r].ticket \in DOMAIN ticket
  /\ tool[r].pc = "waiting" => tool[r].commands \in Orders
  /\ tool[r].pc \in {"respond", "status"} => tool[r].asks # "spawn"

Served(r) ==
  /\ Tooled(r) /\ \A n \in Orders : Requested(r, n)
  /\ Known(result[r].shown.ticket) /\ Known(result[r].action.ticket)

RefInv ==
  /\ \A t \in Turns : Placed(t)
  /\ \A r \in Runs : Served(r)
  /\ \A s \in DOMAIN session : session[s].tickets \subseteq DOMAIN ticket

Sound == TypeInv /\ RefInv

-----------------------------------------------------------------------------
(* What a step writes.                                                     *)

ToolTo(r, v) == v \in Tools /\ tool' = [tool EXCEPT ![r] = v]
RequestAt(r, n, pc) == request' = [request EXCEPT ![r][n].pc = pc]
RequestGets(r, n, pc, k) == request' = [request EXCEPT ![r][n] = [pc |-> pc, ticket |-> k]]
RequestTo(r, n, v) == v \in Requests /\ request' = [request EXCEPT ![r][n] = v]
RowTo(k, v) == k \in DOMAIN ticket /\ v \in Row /\ ticket' = [ticket EXCEPT ![k] = v]

\* The tool of q goes on as before, if it is alive.
ToolAlike(q) ==
  /\ tool'[q].pc = tool[q].pc /\ tool'[q].ticket = tool[q].ticket
  /\ tool'[q].asks = tool[q].asks /\ tool'[q].commands = tool[q].commands

LEMMA SceneFacts ==
  ASSUME TypeInv
  PROVE  /\ says \in [Turns -> Messages \cup {Silence}] /\ Attempts \in 1..MaxAttempts
         /\ scene.commands \in 0..MaxCommands /\ scene.asks \subseteq Asks /\ MaxCommands \in Nat
         /\ MaxAttempts \in Nat /\ Kind \in [Messages -> Kinds] /\ Silence \notin Messages
  BY TurnAssumption DEF TypeInv, says, Attempts

LEMMA RowSet ==
  ASSUME TypeInv, NEW k, NEW v, RowTo(k, v)
  PROVE  /\ ticket' \in Seq(Row) /\ DOMAIN ticket' = DOMAIN ticket /\ Len(ticket') = Len(ticket)
         /\ ticket'[k] = v /\ \A j \in DOMAIN ticket \ {k} : ticket'[j] = ticket[j]
<1>1. ticket \in Seq(Row) /\ k \in DOMAIN ticket /\ v \in Row /\ ticket' = [ticket EXCEPT ![k] = v]
  BY DEF TypeInv, RowTo
<1> QED
  BY <1>1, ExceptSeq

LEMMA ToolSet ==
  ASSUME TypeInv, NEW r \in Runs, NEW v, ToolTo(r, v)
  PROVE  tool' \in [Runs -> Tools] /\ tool'[r] = v /\ \A q \in Runs \ {r} : tool'[q] = tool[q]
  BY DEF TypeInv, ToolTo

\* Only the coroutine of t moves, and keeps what it has read.
Moves(t) == turn' \in [Turns -> Coroutines] /\ \A u \in Turns \ {t} : turn'[u] = turn[u]
Keeps(t) ==
  /\ turn'[t].session = turn[t].session /\ turn'[t].history = turn[t].history
  /\ turn'[t].allowed = turn[t].allowed

LEMMA GotoDoes ==
  ASSUME TypeInv, NEW t \in Turns, NEW pc \in Pcs, Goto(t, pc)
  PROVE  /\ Moves(t) /\ Keeps(t) /\ turn'[t].pc = pc
         /\ turn'[t].attempt = turn[t].attempt /\ turn'[t].reply = turn[t].reply
<1>1. turn[t] \in Coroutines
  BY DEF TypeInv
<1>2. [turn[t] EXCEPT !.pc = pc] \in Coroutines
  BY <1>1 DEF Coroutines
<1> QED
  BY <1>1, <1>2 DEF Moves, Keeps, Goto, TypeInv, Coroutines

LEMMA AnswerDoes ==
  ASSUME TypeInv, NEW t \in Turns, NEW res \in Outcomes, Answer(t, res)
  PROVE  /\ Moves(t) /\ Keeps(t) /\ turn'[t].pc = "reply"
         /\ turn'[t].attempt = turn[t].attempt /\ turn'[t].reply = res
<1>1. turn[t] \in Coroutines
  BY DEF TypeInv
<1>2. [turn[t] EXCEPT !.pc = "reply", !.reply = res] \in Coroutines
  BY <1>1 DEF Coroutines, Pcs
<1> QED
  BY <1>1, <1>2 DEF Moves, Keeps, Answer, TypeInv, Coroutines

LEMMA ToolAtDoes ==
  ASSUME TypeInv, NEW r \in Runs, NEW pc \in ToolPcs, ToolAt(r, pc)
  PROVE  ToolTo(r, [tool[r] EXCEPT !.pc = pc])
<1>1. tool[r] \in Tools
  BY DEF TypeInv
<1>2. [tool[r] EXCEPT !.pc = pc] \in Tools
  BY <1>1 DEF Tools
<1> QED
  BY <1>2 DEF ToolTo, ToolAt, TypeInv

\* What a command of the tool leaves in the files of the attempt, if they are still there.
LEMMA WriteDoes ==
  ASSUME TypeInv, NEW r \in Runs, NEW res \in Outcomes, Write(r, res)
  PROVE  /\ result' \in [Runs -> Files] /\ \A q \in Runs \ {r} : result'[q] = result[q]
         /\ result'[r].shown \in {res, result[r].shown}
         /\ result'[r].action = result[r].action \/ (Structured(res) /\ result'[r].action = res)
<1>1. result[r] \in Files /\ result \in [Runs -> Files]
  BY DEF TypeInv
<1>2. CASE Attempting(r)
  <2>1. result' = [result EXCEPT ![r].shown = res, ![r].action = IF Structured(res) THEN res ELSE @]
    BY <1>2 DEF Write
  <2>2. CASE Structured(res)
    <3>1. result' = [result EXCEPT ![r].shown = res, ![r].action = res]
      BY <2>1, <2>2
    <3>2. [result[r] EXCEPT !.shown = res, !.action = res] \in Files
      BY <1>1 DEF Files
    <3> QED
      BY <1>1, <2>2, <3>1, <3>2 DEF Files
  <2>3. CASE ~Structured(res)
    <3>1. result' = [result EXCEPT ![r].shown = res]
      BY <2>1, <2>3, <1>1 DEF Files
    <3>2. [result[r] EXCEPT !.shown = res] \in Files
      BY <1>1 DEF Files
    <3> QED
      BY <1>1, <3>1, <3>2 DEF Files
  <2> QED
    BY <2>2, <2>3
<1>3. CASE ~Attempting(r)
  BY <1>1, <1>3 DEF Write
<1> QED
  BY <1>2, <1>3

LEMMA CommandedDoes ==
  ASSUME TypeInv, NEW r \in Runs, NEW command, NEW pc \in ToolPcs, NEW k \in Nat, NEW asks \in Asks,
         Commanded(r, command, pc, k, asks)
  PROVE  /\ tool' \in [Runs -> Tools] /\ \A q \in Runs \ {r} : tool'[q] = tool[q]
         /\ tool'[r].pc = pc /\ tool'[r].ticket = k /\ tool'[r].asks = asks /\ tool'[r].commands \in Orders
         /\ Attempting(r) /\ tool[r].pc = "idle"
<1>1. tool[r] \in Tools /\ tool \in [Runs -> Tools]
  BY DEF TypeInv
<1>2. tool[r].commands \in Nat /\ tool[r].commands < scene.commands
  BY <1>1 DEF Tools, Commanded
<1>3. PICK n \in Nat : n = tool[r].commands + 1 /\ n \in Orders
  BY <1>2, SceneFacts DEF Orders
<1>4. [tool[r] EXCEPT !.pc = pc, !.ticket = k, !.asks = asks, !.commands = n] \in Tools
  BY <1>1 DEF Tools
<1>5. tool' = [tool EXCEPT ![r] = [tool[r] EXCEPT !.pc = pc, !.ticket = k, !.asks = asks, !.commands = n]]
  BY <1>3 DEF Commanded
<1>6. Attempting(r) /\ tool[r].pc = "idle"
  BY DEF Commanded
<1> QED
  BY <1>1, <1>3, <1>4, <1>5, <1>6 DEF Tools

(* The steps of a turn. *)

LEMMA FindDoes ==
  ASSUME Sound, NEW t \in Turns, FindSession(t)
  PROVE  /\ Moves(t) /\ turn[t].pc = "new" /\ turn'[t].session = current
         /\ \/ turn'[t].pc = "insert"
            \/ turn'[t].pc = "record" /\ current \in DOMAIN session
         /\ turn'[t].attempt = turn[t].attempt /\ turn'[t].history = turn[t].history
         /\ turn'[t].allowed = turn[t].allowed /\ turn'[t].reply = turn[t].reply
<1>1. turn[t] \in Coroutines /\ current \in Nat /\ (current # 0 => current \in DOMAIN session)
  BY DEF Sound, TypeInv
<1>2. PICK pc \in {"insert", "record"} : pc = IF current = 0 THEN "insert" ELSE "record"
  OBVIOUS
<1>3. [turn[t] EXCEPT !.pc = pc, !.session = current] \in Coroutines
  BY <1>1, <1>2 DEF Coroutines, Pcs
<1>4. turn[t].pc = "new" /\ turn' = [turn EXCEPT ![t].pc = pc, ![t].session = current]
  BY <1>2 DEF FindSession
<1> QED
  BY <1>1, <1>2, <1>3, <1>4 DEF Moves, Sound, TypeInv, Coroutines

LEMMA InsertDoes ==
  ASSUME Sound, NEW t \in Turns, InsertSession(t)
  PROVE  /\ Moves(t) /\ turn[t].pc = "insert" /\ turn'[t].pc = "record"
         /\ session' \in Seq(Rooms) /\ current' \in 0..Len(session')
         /\ DOMAIN session' = DOMAIN session \cup {current'} /\ turn'[t].session = current'
         /\ current' \notin DOMAIN session /\ session'[current'].tickets = {}
         /\ \A s \in DOMAIN session : session'[s] = session[s]
         /\ turn'[t].attempt = turn[t].attempt /\ turn'[t].history = turn[t].history
         /\ turn'[t].allowed = turn[t].allowed /\ turn'[t].reply = turn[t].reply
<1>1. turn[t] \in Coroutines /\ session \in Seq(Rooms) /\ turn \in [Turns -> Coroutines]
  BY DEF Sound, TypeInv
<1> DEFINE room == [tickets |-> {}, messages |-> {}]
<1>2. room \in Rooms /\ room.tickets = {}
  BY DEF Rooms
<1> HIDE DEF room
<1>3. /\ session' = Append(session, room) /\ turn[t].pc = "insert" /\ current' = Len(session')
      /\ turn' = [turn EXCEPT ![t].pc = "record", ![t].session = Len(session')]
  BY DEF InsertSession, room
<1>4. /\ session' \in Seq(Rooms) /\ Len(session') = Len(session) + 1 /\ Len(session) \in Nat
      /\ DOMAIN session' = DOMAIN session \cup {Len(session) + 1} /\ Len(session) + 1 \notin DOMAIN session
      /\ \A s \in DOMAIN session : session'[s] = session[s]
      /\ session'[Len(session) + 1] = room
  BY <1>1, <1>2, <1>3, AppendProperties
<1>5. PICK s \in Nat : s = current'
  BY <1>3, <1>4
<1>6. [turn[t] EXCEPT !.pc = "record", !.session = s] \in Coroutines
  BY <1>1 DEF Coroutines, Pcs
<1>7. turn' = [turn EXCEPT ![t].pc = "record", ![t].session = s]
  BY <1>3, <1>5
<1>8. /\ Moves(t) /\ turn'[t].pc = "record" /\ turn'[t].session = s
      /\ turn'[t].attempt = turn[t].attempt /\ turn'[t].history = turn[t].history
      /\ turn'[t].allowed = turn[t].allowed /\ turn'[t].reply = turn[t].reply
  BY <1>1, <1>6, <1>7 DEF Moves, Coroutines
<1> QED
  BY <1>2, <1>3, <1>4, <1>5, <1>8

LEMMA RecordUserDoes ==
  ASSUME Sound, NEW t \in Turns, RecordUser(t)
  PROVE  /\ Moves(t) /\ Keeps(t) /\ turn[t].pc = "record" /\ turn'[t].pc = "context"
         /\ session' \in Seq(Rooms) /\ DOMAIN session' = DOMAIN session /\ current' \in 0..Len(session')
         /\ \A s \in DOMAIN session :
              session'[s].tickets = session[s].tickets /\ session[s].messages \subseteq session'[s].messages
         /\ says[t] \in session'[turn[t].session].messages
         /\ turn'[t].attempt = turn[t].attempt /\ turn'[t].reply = turn[t].reply
<1> DEFINE s == turn[t].session
           room == [session[s] EXCEPT !.messages = session[s].messages \cup {says[t]}]
<1>1. /\ Goto(t, "context") /\ turn[t].pc = "record" /\ current' = s
      /\ session' = [session EXCEPT ![s] = room]
  BY DEF RecordUser
<1>2. s \in DOMAIN session /\ session \in Seq(Rooms) /\ says[t] \in Messages
  BY <1>1 DEF Sound, RefInv, Placed, TypeInv
<1>3. session[s] \in Rooms /\ s \in 1..Len(session)
  BY <1>2
<1>4. /\ room \in Rooms /\ room.tickets = session[s].tickets
      /\ room.messages = session[s].messages \cup {says[t]}
  BY <1>2, <1>3 DEF Rooms
<1> HIDE DEF room, s
<1>5. /\ session' \in Seq(Rooms) /\ DOMAIN session' = DOMAIN session /\ Len(session') = Len(session)
      /\ session'[s] = room /\ \A u \in DOMAIN session \ {s} : session'[u] = session[u]
  BY <1>1, <1>2, <1>4, ExceptSeq
<1>6. TypeInv /\ "context" \in Pcs
  BY DEF Sound, Pcs
<1>7. current' \in 0..Len(session')
  BY <1>1, <1>3, <1>5
<1>8. /\ \A u \in DOMAIN session :
           session'[u].tickets = session[u].tickets /\ session[u].messages \subseteq session'[u].messages
      /\ says[t] \in session'[s].messages
  BY <1>4, <1>5, <1>2
<1> QED
  BY <1>1, <1>5, <1>6, <1>7, <1>8, GotoDoes DEF s

LEMMA ReadContextDoes ==
  ASSUME Sound, NEW t \in Turns, ReadContext(t)
  PROVE  /\ Moves(t) /\ turn[t].pc = "context" /\ turn'[t].pc = "harness"
         /\ turn[t].session \in DOMAIN session /\ turn'[t].session = turn[t].session
         /\ turn'[t].history = session[turn[t].session].messages
         /\ turn'[t].allowed = session[turn[t].session].tickets
         /\ turn'[t].attempt = turn[t].attempt /\ turn'[t].reply = turn[t].reply
<1>1. turn[t] \in Coroutines /\ session \in Seq(Rooms) /\ turn \in [Turns -> Coroutines]
  BY DEF Sound, TypeInv
<1>2. /\ turn[t].pc = "context"
      /\ turn' = [turn EXCEPT ![t].pc = "harness", ![t].history = Session(t).messages,
                              ![t].allowed = Session(t).tickets]
  BY DEF ReadContext
<1>3. turn[t].session \in DOMAIN session
  BY <1>2 DEF Sound, RefInv, Placed
<1>4. Session(t) \in Rooms
  BY <1>1, <1>3 DEF Session
<1>5. PICK h \in SUBSET Messages, a \in SUBSET Nat : h = Session(t).messages /\ a = Session(t).tickets
  BY <1>4 DEF Rooms
<1>6. [turn[t] EXCEPT !.pc = "harness", !.history = h, !.allowed = a] \in Coroutines
  BY <1>1 DEF Coroutines, Pcs
<1>7. turn' = [turn EXCEPT ![t].pc = "harness", ![t].history = h, ![t].allowed = a]
  BY <1>2, <1>5
<1>8. /\ Moves(t) /\ turn'[t].pc = "harness" /\ turn'[t].session = turn[t].session
      /\ turn'[t].history = h /\ turn'[t].allowed = a
      /\ turn'[t].attempt = turn[t].attempt /\ turn'[t].reply = turn[t].reply
  BY <1>1, <1>6, <1>7 DEF Moves, Coroutines
<1> QED
  BY <1>2, <1>3, <1>5, <1>8 DEF Session

LEMMA ResultFacts ==
  ASSUME NEW mode \in Modes, NEW k \in Nat
  PROVE  /\ Result(mode, k) \in Outcomes /\ Result(mode, k).mode = mode
         /\ Result(mode, k).ticket = k /\ Result(mode, k).claims = FALSE
  BY DEF Result, Outcomes

LEMMA NoResultFacts ==
  NoResult \in Outcomes /\ NoResult.mode = "none" /\ NoResult.ticket = 0 /\ NoResult.claims = FALSE
  BY DEF NoResult, Outcomes, Modes

LEMMA ReadFacts ==
  ASSUME TypeInv, NEW r \in Runs
  PROVE  /\ Read(r) \in Outcomes /\ Read(r) \in {result[r].shown, result[r].action}
         /\ result[r].shown \in Outcomes /\ result[r].action \in Outcomes
<1>1. result[r] \in Files
  BY DEF TypeInv
<1>2. Read(r) \in {result[r].shown, result[r].action}
  BY DEF Read
<1> QED
  BY <1>1, <1>2 DEF Files

LEMMA JudgedDoes ==
  ASSUME TypeInv, NEW t \in Turns, NEW res \in Outcomes, turn' = [turn EXCEPT ![t] = Judged(t, res)]
  PROVE  /\ Moves(t) /\ Keeps(t) /\ turn'[t].attempt = turn[t].attempt
         /\ \/ turn'[t].pc = "reply" /\ turn'[t].reply = res /\ res.mode \in {"form", "ticket", "update"}
            \/ /\ turn'[t].pc = "recoverUpdate" /\ turn'[t].reply \in {res, NoResult}
               /\ turn'[t].reply = res => (res = NoResult \/ Trusted(res))
<1>1. turn[t] \in Coroutines /\ turn \in [Turns -> Coroutines]
  BY DEF TypeInv
<1>2. PICK pc \in Pcs : pc = IF Structured(res) \/ res.mode = "form" THEN "reply" ELSE "recoverUpdate"
  BY DEF Pcs
<1>3. PICK reply \in Outcomes :
        reply = IF Structured(res) \/ res.mode = "form" \/ Trusted(res) THEN res ELSE NoResult
  BY NoResultFacts
<1>4. turn' = [turn EXCEPT ![t] = [turn[t] EXCEPT !.pc = pc, !.reply = reply]]
  BY <1>2, <1>3 DEF Judged
<1>5. [turn[t] EXCEPT !.pc = pc, !.reply = reply] \in Coroutines
  BY <1>1 DEF Coroutines
<1>6. /\ Moves(t) /\ Keeps(t) /\ turn'[t].attempt = turn[t].attempt
      /\ turn'[t].pc = pc /\ turn'[t].reply = reply
  <2> DEFINE v == [turn[t] EXCEPT !.pc = pc, !.reply = reply]
  <2>1. /\ v.pc = pc /\ v.reply = reply /\ v.attempt = turn[t].attempt /\ v.session = turn[t].session
        /\ v.history = turn[t].history /\ v.allowed = turn[t].allowed
    BY <1>1 DEF Coroutines
  <2>2. v \in Coroutines /\ turn' = [turn EXCEPT ![t] = v]
    BY <1>4, <1>5
  <2> HIDE DEF v
  <2>3. turn' \in [Turns -> Coroutines] /\ turn'[t] = v /\ \A u \in Turns \ {t} : turn'[u] = turn[u]
    BY <1>1, <2>2
  <2> QED
    BY <2>1, <2>3 DEF Moves, Keeps
<1>7. CASE Structured(res) \/ res.mode = "form"
  BY <1>2, <1>3, <1>6, <1>7 DEF Structured
<1>8. CASE ~(Structured(res) \/ res.mode = "form")
  <2>1. CASE Trusted(res)
    BY <1>2, <1>3, <1>6, <1>8, <2>1
  <2>2. CASE ~Trusted(res)
    BY <1>2, <1>3, <1>6, <1>8, <2>2
  <2> QED
    BY <2>1, <2>2
<1> QED
  BY <1>7, <1>8

LEMMA AttemptIsRun ==
  ASSUME Sound, NEW t \in Turns, turn[t].pc \in {"harness", "killing"}
  PROVE  <<t, turn[t].attempt>> \in Runs
<1>1. turn[t].attempt \in 1..(Attempts + 1) /\ turn[t].attempt =< Attempts
  BY DEF Sound, RefInv, Placed, Trying
<1> QED
  BY <1>1, SceneFacts DEF Sound, Runs

\* The harness of t has ended with this result, or its time is over.
LEMMA HarnessEndsDoes ==
  ASSUME Sound, NEW t \in Turns, HarnessEnds(t)
  PROVE  \E r \in Runs : \E res \in {result[r].shown, result[r].action} :
           /\ r[1] = t /\ turn[t].pc = "harness" /\ res \in Outcomes
           /\ Moves(t) /\ Keeps(t) /\ turn'[t].attempt = turn[t].attempt
           /\ \/ turn'[t].pc = "reply" /\ turn'[t].reply = res /\ res.mode \in {"form", "ticket", "update"}
              \/ /\ turn'[t].pc = "recoverUpdate" /\ turn'[t].reply \in {res, NoResult}
                 /\ turn'[t].reply = res => (res = NoResult \/ Trusted(res))
<1> DEFINE r == <<t, turn[t].attempt>>
<1>1. turn[t].pc = "harness" /\ turn' = [turn EXCEPT ![t] = Judged(t, Read(r))]
  BY DEF HarnessEnds
<1>2. r \in Runs /\ r[1] = t
  BY <1>1, AttemptIsRun
<1>3. TypeInv
  BY DEF Sound
<1> HIDE DEF r
<1> QED
  BY <1>1, <1>2, <1>3, ReadFacts, JudgedDoes

LEMMA TimesOutDoes ==
  ASSUME Sound, NEW t \in Turns, TimesOut(t)
  PROVE  \E r \in Runs :
           /\ r[1] = t /\ turn[t].pc = "harness" /\ turn'[t].pc = "killing"
           /\ turn'[t].reply \in {result[r].shown, result[r].action}
           /\ Moves(t) /\ Keeps(t) /\ turn'[t].attempt = turn[t].attempt
<1> DEFINE r == <<t, turn[t].attempt>>
<1>1. turn[t].pc = "harness" /\ turn' = [turn EXCEPT ![t].pc = "killing", ![t].reply = Read(r)]
  BY DEF TimesOut
<1>2. r \in Runs /\ r[1] = t
  BY <1>1, AttemptIsRun
<1>3. TypeInv /\ turn[t] \in Coroutines /\ turn \in [Turns -> Coroutines]
  BY DEF Sound, TypeInv
<1> HIDE DEF r
<1>4. PICK res \in Outcomes : res = Read(r) /\ res \in {result[r].shown, result[r].action}
  BY <1>2, <1>3, ReadFacts
<1>5. [turn[t] EXCEPT !.pc = "killing", !.reply = res] \in Coroutines
  BY <1>3 DEF Coroutines, Pcs
<1>6. turn' = [turn EXCEPT ![t].pc = "killing", ![t].reply = res]
  BY <1>1, <1>4
<1>7. /\ Moves(t) /\ Keeps(t) /\ turn'[t].attempt = turn[t].attempt
      /\ turn'[t].pc = "killing" /\ turn'[t].reply = res
  BY <1>3, <1>5, <1>6 DEF Moves, Keeps, Coroutines
<1> QED
  BY <1>1, <1>2, <1>4, <1>7

LEMMA KilledDoes ==
  ASSUME Sound, NEW t \in Turns, Killed(t)
  PROVE  /\ Moves(t) /\ Keeps(t) /\ turn'[t].attempt = turn[t].attempt /\ turn[t].pc = "killing"
         /\ \/ turn'[t].pc = "reply" /\ turn'[t].reply = turn[t].reply
               /\ turn[t].reply.mode \in {"form", "ticket", "update"}
            \/ /\ turn'[t].pc = "recoverUpdate" /\ turn'[t].reply \in {turn[t].reply, NoResult}
               /\ turn'[t].reply = turn[t].reply => (turn[t].reply = NoResult \/ Trusted(turn[t].reply))
         /\ tool' \in [Runs -> Tools]
         /\ \A q \in Runs : ToolAlike(q)
<1> DEFINE r == <<t, turn[t].attempt>>
<1>1. turn[t].pc = "killing" /\ turn' = [turn EXCEPT ![t] = Judged(t, turn[t].reply)]
  BY DEF Killed
<1>2. PICK survives \in BOOLEAN : tool' = [tool EXCEPT ![r].alive = survives /\ tool[r].pc # "idle"]
  BY DEF Killed
<1>3. PICK alive \in BOOLEAN : alive = (survives /\ tool[r].pc # "idle")
  OBVIOUS
<1>4. TypeInv /\ tool \in [Runs -> Tools] /\ turn[t] \in Coroutines
  BY DEF Sound, TypeInv
<1>5. r \in Runs
  BY <1>1, AttemptIsRun
<1> HIDE DEF r
<1>6. [tool[r] EXCEPT !.alive = alive] \in Tools
  BY <1>4, <1>5 DEF Tools
<1>7. tool' = [tool EXCEPT ![r].alive = alive]
  BY <1>2, <1>3, Zenon
<1>8. /\ tool' \in [Runs -> Tools]
      /\ \A q \in Runs : ToolAlike(q)
  BY <1>4, <1>5, <1>6, <1>7 DEF Tools, ToolAlike
<1>9. turn[t].reply \in Outcomes
  BY <1>4 DEF Coroutines
<1> QED
  BY <1>1, <1>4, <1>8, <1>9, JudgedDoes

LEMMA Greatest ==
  ASSUME NEW n \in Nat, NEW S \in SUBSET (1..n), S # {}
  PROVE  Max(S) \in S
<1> DEFINE T == {k \in 0..n : \E s \in S : k = n - s}
<1>1. T \subseteq Nat
  OBVIOUS
<1>2. T # {}
  <2>1. PICK s \in S : s \in 1..n
    OBVIOUS
  <2>2. n - s \in T
    BY <2>1
  <2> QED
    BY <2>2
<1>3. PICK m \in T : \A k \in T : <<k, m>> \notin OpToRel(<, Nat)
  BY <1>1, <1>2, NatLessThanWellFounded, WFMin
<1>4. PICK s \in S : m = n - s
  OBVIOUS
<1>5. ASSUME NEW u \in S PROVE s >= u
  <2>1. u \in 1..n /\ s \in 1..n /\ n - u \in 0..n
    OBVIOUS
  <2>2. n - u \in T
    BY <2>1
  <2>3. ~(n - u < m)
    BY <1>3, <1>1, <2>2 DEF OpToRel
  <2> QED
    BY <1>4, <2>1, <2>3
<1> QED
  BY <1>5 DEF Max

LEMMA RowsAreFinite ==
  ASSUME TypeInv
  PROVE  Len(ticket) \in Nat /\ DOMAIN ticket = 1..Len(ticket)
  BY DEF TypeInv

LEMMA RecoverUpdateDoes ==
  ASSUME Sound, NEW t \in Turns, RecoverUpdate(t)
  PROVE  /\ Moves(t) /\ Keeps(t) /\ turn'[t].attempt = turn[t].attempt /\ turn[t].pc = "recoverUpdate"
         /\ \/ \E k \in DOMAIN ticket :
                 says[t] \in ticket[k].responses /\ turn'[t].pc = "reply" /\ turn'[t].reply = Result("update", k)
            \/ turn'[t].pc = "recoverTicket" /\ turn[t].reply = NoResult /\ turn'[t].reply = NoResult
            \/ turn'[t].pc = "reply" /\ turn[t].reply # NoResult /\ turn'[t].reply = turn[t].reply
<1> DEFINE found == {k \in Session(t).tickets : says[t] \in ticket[k].responses}
<1>1. /\ turn[t].pc = "recoverUpdate"
      /\ IF found # {} THEN \E k \in found : Answer(t, Result("update", k))
         ELSE Goto(t, IF turn[t].reply = NoResult THEN "recoverTicket" ELSE "reply")
  BY DEF RecoverUpdate
<1>2. TypeInv /\ {"recoverTicket", "reply"} \subseteq Pcs /\ "update" \in Modes
  BY DEF Sound, Pcs, Modes
<1>3. Session(t).tickets \subseteq DOMAIN ticket
  BY <1>1 DEF Session, Sound, RefInv, Placed
<1>4. CASE found # {}
  <2>1. PICK k \in found : Answer(t, Result("update", k))
    BY <1>1, <1>4
  <2>2. k \in DOMAIN ticket /\ k \in Nat /\ says[t] \in ticket[k].responses
    BY <1>2, <1>3, RowsAreFinite
  <2> HIDE DEF found
  <2>3. Result("update", k) \in Outcomes
    BY <1>2, <2>2, ResultFacts
  <2> QED
    BY <1>1, <1>2, <2>1, <2>2, <2>3, AnswerDoes
<1>5. CASE found = {}
  <2> HIDE DEF found
  <2>1. CASE turn[t].reply = NoResult
    BY <1>1, <1>2, <1>5, <2>1, GotoDoes
  <2>2. CASE turn[t].reply # NoResult
    BY <1>1, <1>2, <1>5, <2>2, GotoDoes
  <2> QED
    BY <2>1, <2>2
<1> QED
  BY <1>4, <1>5

\* What a turn without a result takes for its own: a noted ticket that holds the
\* message, or, for a request of work, any noted one.
Taken(t, res, k) ==
  /\ k \in DOMAIN ticket /\ Noted(k)
  /\ \/ res = Result("ticket", k) /\ says[t] \in ticket[k].described
     \/ res = Result("found", k) /\ Kind[says[t]] = "work"

LEMMA RecoverableIsNoted ==
  ASSUME Sound, NEW t \in Turns, turn[t].pc = "recoverTicket"
  PROVE  /\ \A res \in Recoverable(t) : \E k \in DOMAIN ticket : Taken(t, res, k)
         /\ ~UpdateLike(says[t]) =>
              \A k \in DOMAIN ticket : Noted(k) /\ says[t] \in ticket[k].described => Recoverable(t) # {}
<1> DEFINE noted == {k \in DOMAIN ticket : Noted(k)}
           byText == {k \in noted : says[t] \in ticket[k].described}
           bySession == {k \in noted : ticket[k].session = turn[t].session \/ k \in Session(t).tickets}
<1>1. Recoverable(t) =
        IF UpdateLike(says[t]) THEN {}
        ELSE IF byText # {} THEN {Result("ticket", Max(byText))}
        ELSE IF Kind[says[t]] = "work" /\ bySession # {} THEN {Result("found", Max(bySession))}
        ELSE {}
  BY DEF Recoverable
<1>2. Len(ticket) \in Nat /\ DOMAIN ticket = 1..Len(ticket)
  BY RowsAreFinite DEF Sound
<1>3. byText \in SUBSET (1..Len(ticket)) /\ bySession \in SUBSET (1..Len(ticket))
  BY <1>2
<1>4. byText # {} => Max(byText) \in byText
  BY <1>2, <1>3, Greatest
<1>5. bySession # {} => Max(bySession) \in bySession
  BY <1>2, <1>3, Greatest
<1>6. ASSUME NEW res \in Recoverable(t) PROVE \E k \in DOMAIN ticket : Taken(t, res, k)
  <2>1. CASE byText # {}
    <3>1. PICK k \in byText : res = Result("ticket", k)
      <4> HIDE DEF byText, bySession, noted
      <4> QED
        BY <1>1, <1>4, <1>6, <2>1
    <3> QED
      BY <3>1 DEF Taken
  <2>2. CASE byText = {}
    <3>1. Kind[says[t]] = "work" /\ \E k \in bySession : res = Result("found", k)
      <4> HIDE DEF byText, bySession, noted
      <4> QED
        BY <1>1, <1>5, <1>6, <2>2
    <3>2. PICK k \in bySession : res = Result("found", k)
      BY <3>1
    <3> QED
      BY <3>1, <3>2 DEF Taken
  <2> QED
    BY <2>1, <2>2
<1>7. ~UpdateLike(says[t]) /\ byText # {} => Recoverable(t) # {}
  BY <1>1
<1> QED
  BY <1>6, <1>7

LEMMA RecoverTicketDoes ==
  ASSUME Sound, NEW t \in Turns, RecoverTicket(t)
  PROVE  /\ Moves(t) /\ Keeps(t) /\ turn[t].pc = "recoverTicket"
         /\ \/ \E k \in DOMAIN ticket :
                 /\ Taken(t, turn'[t].reply, k) /\ turn'[t].pc = "reply"
                 /\ turn'[t].reply.ticket = k /\ turn'[t].reply.mode \in {"ticket", "found"}
                 /\ turn'[t].attempt = turn[t].attempt
            \/ /\ Recoverable(t) = {} /\ turn'[t].reply = turn[t].reply
               /\ \/ turn[t].attempt < Attempts /\ turn'[t].pc = "harness" /\ turn'[t].attempt = turn[t].attempt + 1
                  \/ turn[t].attempt = Attempts /\ turn'[t].pc = "recoverUpdate" /\ turn'[t].attempt = turn[t].attempt + 1
                  \/ turn[t].attempt > Attempts /\ turn'[t].pc = "fallback" /\ turn'[t].attempt = turn[t].attempt
<1>1. /\ turn[t].pc = "recoverTicket"
      /\ IF Recoverable(t) # {} THEN \E res \in Recoverable(t) : Answer(t, res)
         ELSE turn' = [turn EXCEPT
                ![t].attempt = IF @ > Attempts THEN @ ELSE NextAttempt(@),
                ![t].pc = CASE turn[t].attempt < Attempts -> "harness"
                            [] turn[t].attempt = Attempts -> "recoverUpdate"
                            [] OTHER -> "fallback"]
  BY DEF RecoverTicket
<1>2. TypeInv /\ turn[t] \in Coroutines /\ turn \in [Turns -> Coroutines]
  BY DEF Sound, TypeInv
<1>3. turn[t].attempt \in Nat /\ Attempts \in Nat
  BY <1>2, SceneFacts DEF Coroutines
<1>4. CASE Recoverable(t) # {}
  <2>1. PICK res \in Recoverable(t) : Answer(t, res)
    BY <1>1, <1>4
  <2>2. PICK k \in DOMAIN ticket : Taken(t, res, k)
    BY <1>1, RecoverableIsNoted
  <2>3. k \in Nat /\ {"ticket", "found"} \subseteq Modes
    BY <1>2, RowsAreFinite DEF Modes
  <2>4. PICK mode \in {"ticket", "found"} : res = Result(mode, k)
    BY <2>2 DEF Taken
  <2>5. res \in Outcomes /\ res.ticket = k /\ res.mode = mode
    BY <2>3, <2>4, ResultFacts
  <2> QED
    BY <1>1, <1>2, <2>1, <2>2, <2>4, <2>5, AnswerDoes
<1>5. CASE Recoverable(t) = {}
  <2>1. PICK a \in Nat : a = IF turn[t].attempt > Attempts THEN turn[t].attempt ELSE turn[t].attempt + 1
    BY <1>3
  <2>2. PICK pc \in Pcs : pc = CASE turn[t].attempt < Attempts -> "harness"
                                 [] turn[t].attempt = Attempts -> "recoverUpdate"
                                 [] OTHER -> "fallback"
    BY <1>3 DEF Pcs
  <2>3. turn' = [turn EXCEPT ![t].attempt = a, ![t].pc = pc]
    BY <1>1, <1>5, <2>1, <2>2 DEF NextAttempt
  <2>4. [turn[t] EXCEPT !.attempt = a, !.pc = pc] \in Coroutines
    BY <1>2 DEF Coroutines
  <2>5. /\ Moves(t) /\ Keeps(t) /\ turn'[t].reply = turn[t].reply
        /\ turn'[t].pc = pc /\ turn'[t].attempt = a
    BY <1>2, <2>3, <2>4 DEF Moves, Keeps, Coroutines
  <2> QED
    BY <1>1, <1>3, <1>5, <2>1, <2>2, <2>5
<1> QED
  BY <1>4, <1>5

LEMMA FallbackCancelDoes ==
  ASSUME Sound, NEW t \in Turns, FallbackCancel(t)
  PROVE  /\ Moves(t) /\ Keeps(t) /\ turn[t].pc = "cancel" /\ turn'[t].pc = "reply"
         /\ turn'[t].attempt = turn[t].attempt /\ turn'[t].reply = turn[t].reply
         /\ LET k == turn[t].reply.ticket IN
            k \in DOMAIN ticket /\ RowTo(k, [ticket[k] EXCEPT !.status = "cancelled"])
<1>1. /\ turn[t].pc = "cancel" /\ Goto(t, "reply")
      /\ ticket' = [ticket EXCEPT ![turn[t].reply.ticket].status = "cancelled"]
  BY DEF FallbackCancel
<1>2. PICK k \in DOMAIN ticket : k = turn[t].reply.ticket
  BY <1>1 DEF Sound, RefInv, Placed, Known
<1>3. TypeInv /\ "reply" \in Pcs /\ ticket \in Seq(Row) /\ ticket[k] \in Row
  BY DEF Sound, TypeInv, Pcs
<1>4. [ticket[k] EXCEPT !.status = "cancelled"] \in Row
  BY <1>3 DEF Row, Status
<1>5. ticket' = [ticket EXCEPT ![k] = [ticket[k] EXCEPT !.status = "cancelled"]]
  BY <1>1, <1>2
<1> QED
  BY <1>1, <1>2, <1>3, <1>4, <1>5, GotoDoes DEF RowTo

LEMMA FallbackDoes ==
  ASSUME Sound, NEW t \in Turns, Fallback(t)
  PROVE  /\ Moves(t) /\ Keeps(t) /\ turn[t].pc = "fallback"
         /\ turn'[t].attempt = turn[t].attempt
         /\ \/ \E k \in DOMAIN ticket :
                 /\ turn'[t].pc \in {"cancel", "reply"} /\ turn'[t].reply = Result("update", k)
                 /\ RowTo(k, [ticket[k] EXCEPT !.responses = ticket[k].responses \cup {says[t]}, !.assigned = TRUE])
            \/ turn'[t].pc = "reply" /\ turn'[t].reply = Result("general", 0) /\ ticket' = ticket
<1> DEFINE tickets == Session(t).tickets
           k == CHOOSE k \in tickets : TRUE
<1>1. /\ turn[t].pc = "fallback"
      /\ IF UpdateLike(says[t]) /\ Cardinality(tickets) = 1
           THEN /\ ticket' = [ticket EXCEPT ![k].responses = @ \cup {says[t]}, ![k].assigned = TRUE]
                /\ turn' = [turn EXCEPT ![t].pc = IF Kind[says[t]] = "cancel" THEN "cancel" ELSE "reply",
                                        ![t].reply = Result("update", k)]
           ELSE Answer(t, Result("general", 0)) /\ UNCHANGED ticket
  BY DEF Fallback
<1>2. /\ TypeInv /\ "general" \in Modes /\ "update" \in Modes /\ turn[t] \in Coroutines
      /\ turn \in [Turns -> Coroutines] /\ ticket \in Seq(Row)
  BY DEF Sound, TypeInv, Modes
<1>3. tickets \subseteq DOMAIN ticket /\ says[t] \in Messages
  BY <1>1 DEF Session, Sound, RefInv, Placed
<1>4. CASE UpdateLike(says[t]) /\ Cardinality(tickets) = 1
  <2>1. tickets # {}
    BY <1>4, FS_EmptySet
  <2>2. k \in tickets
    BY <2>1
  <2>3. k \in DOMAIN ticket /\ k \in Nat
    BY <1>2, <1>3, <2>2, RowsAreFinite
  <2>4. PICK pc \in {"cancel", "reply"} : pc = IF Kind[says[t]] = "cancel" THEN "cancel" ELSE "reply"
    OBVIOUS
  <2>5. PICK res \in Outcomes : res = Result("update", k)
    BY <1>2, <2>3, ResultFacts
  <2>6. [turn[t] EXCEPT !.pc = pc, !.reply = res] \in Coroutines
    BY <1>2, <2>4 DEF Coroutines, Pcs
  <2>7. turn' = [turn EXCEPT ![t].pc = pc, ![t].reply = res]
    BY <1>1, <1>4, <2>4, <2>5
  <2>8. /\ Moves(t) /\ Keeps(t) /\ turn'[t].attempt = turn[t].attempt
        /\ turn'[t].pc = pc /\ turn'[t].reply = res
    BY <1>2, <2>6, <2>7 DEF Moves, Keeps, Coroutines
  <2>9. ticket[k] \in Row
    BY <1>2, <2>3
  <2>10. [ticket[k] EXCEPT !.responses = ticket[k].responses \cup {says[t]}, !.assigned = TRUE] \in Row
    BY <2>9, <1>3 DEF Row
  <2>11. ticket' = [ticket EXCEPT ![k] = [ticket[k] EXCEPT !.responses = ticket[k].responses \cup {says[t]}, !.assigned = TRUE]]
    BY <1>1, <1>4, <1>2, <2>3
  <2> HIDE DEF tickets, k
  <2> QED
    BY <1>1, <2>3, <2>4, <2>5, <2>8, <2>10, <2>11 DEF RowTo
<1>5. CASE ~(UpdateLike(says[t]) /\ Cardinality(tickets) = 1)
  <2>1. Answer(t, Result("general", 0)) /\ ticket' = ticket
    BY <1>1, <1>5
  <2> QED
    BY <1>1, <1>2, <2>1, ResultFacts, AnswerDoes
<1> QED
  BY <1>4, <1>5

LEMMA RecordReplyDoes ==
  ASSUME Sound, NEW t \in Turns, RecordReply(t)
  PROVE  /\ Moves(t) /\ Keeps(t) /\ turn[t].pc = "reply" /\ turn'[t].pc = "done"
         /\ turn'[t].attempt = turn[t].attempt /\ turn'[t].reply = turn[t].reply
         /\ session' \in Seq(Rooms) /\ DOMAIN session' = DOMAIN session /\ current' \in 0..Len(session')
         /\ \A s \in DOMAIN session :
              session'[s].tickets \subseteq DOMAIN ticket /\ session'[s].messages = session[s].messages
<1> DEFINE s == turn[t].session
           room == [session[s] EXCEPT !.tickets = session[s].tickets \cup ({turn[t].reply.ticket} \ {0})]
<1>1. /\ Goto(t, "done") /\ turn[t].pc = "reply" /\ current' = s
      /\ session' = [session EXCEPT ![s] = room]
  BY DEF RecordReply
<1>2. s \in DOMAIN session /\ session \in Seq(Rooms) /\ {turn[t].reply.ticket} \ {0} \subseteq DOMAIN ticket
  BY <1>1 DEF Sound, RefInv, Placed, TypeInv, Known
<1>3. session[s] \in Rooms /\ s \in 1..Len(session) /\ \A u \in DOMAIN session : session[u].tickets \subseteq DOMAIN ticket
  BY <1>2 DEF Sound, RefInv
<1>4. {turn[t].reply.ticket} \ {0} \subseteq Nat
  BY <1>2, RowsAreFinite DEF Sound
<1>5. /\ room \in Rooms /\ room.messages = session[s].messages /\ room.tickets \subseteq DOMAIN ticket
  BY <1>2, <1>3, <1>4 DEF Rooms
<1> HIDE DEF room, s
<1>6. /\ session' \in Seq(Rooms) /\ DOMAIN session' = DOMAIN session /\ Len(session') = Len(session)
      /\ session'[s] = room /\ \A u \in DOMAIN session \ {s} : session'[u] = session[u]
  BY <1>1, <1>2, <1>5, ExceptSeq
<1>7. TypeInv /\ "done" \in Pcs
  BY DEF Sound, Pcs
<1>8. current' \in 0..Len(session')
  BY <1>1, <1>3, <1>6
<1>9. \A u \in DOMAIN session :
        session'[u].tickets \subseteq DOMAIN ticket /\ session'[u].messages = session[u].messages
  BY <1>3, <1>5, <1>6
<1> QED
  BY <1>1, <1>6, <1>7, <1>8, <1>9, GotoDoes

(* The steps of the tool and of the dashboard that serves it. *)

\* Only the tool of r moves; only the n-th request of r moves; the files of r get
\* res, or are gone.
ToolMoves(r) == tool' \in [Runs -> Tools] /\ \A q \in Runs \ {r} : tool'[q] = tool[q]
RequestMoves(r, n) ==
  /\ request' \in [Runs -> [Orders -> Requests]] /\ \A q \in Runs \ {r} : request'[q] = request[q]
  /\ \A m \in Orders \ {n} : request'[r][m] = request[r][m]
FilesTake(r, res) ==
  /\ result' \in [Runs -> Files] /\ \A q \in Runs \ {r} : result'[q] = result[q]
  /\ result'[r].shown \in {res, result[r].shown}
  /\ result'[r].action = result[r].action \/ (Structured(res) /\ result'[r].action = res)
Hits(r, pc) ==
  /\ tool'[r].pc = pc /\ tool'[r].ticket = tool[r].ticket
  /\ tool'[r].asks = tool[r].asks /\ tool'[r].commands = tool[r].commands

LEMMA RunOfTurn == ASSUME NEW r \in Runs PROVE r[1] \in Turns
  BY DEF Runs

LEMMA AttemptingIsStarted == ASSUME NEW r \in Runs, Attempting(r) PROVE Started(r[1])
  BY DEF Attempting, Started

LEMMA ToolPcsFacts ==
  {"idle", "waiting", "first", "assign", "last", "respond", "status", "report"} \subseteq ToolPcs
  BY DEF ToolPcs

LEMMA AsksFacts ==
  Status \cup {"spawn", "none"} \subseteq Asks /\ "cancelled" \in Status
  BY DEF Asks, Status

LEMMA ToolAtMoves ==
  ASSUME TypeInv, NEW r \in Runs, NEW pc \in ToolPcs, ToolAt(r, pc)
  PROVE  ToolMoves(r) /\ Hits(r, pc)
<1>1. tool[r] \in Tools /\ tool \in [Runs -> Tools]
  BY DEF TypeInv
<1>2. [tool[r] EXCEPT !.pc = pc] \in Tools
  BY <1>1 DEF Tools
<1> QED
  BY <1>1, <1>2 DEF ToolMoves, Hits, ToolAt, Tools

LEMMA AnswerCommandDoes ==
  ASSUME Sound, NEW r \in Runs, AnswerCommand(r)
  PROVE  /\ \E res \in Outcomes : res.mode = "general" /\ res.ticket = 0 /\ FilesTake(r, res)
         /\ ToolMoves(r) /\ tool[r].pc = "idle" /\ tool'[r].pc = "idle"
<1>1. PICK claims \in BOOLEAN : Write(r, [mode |-> "general", ticket |-> 0, claims |-> claims])
  BY DEF AnswerCommand
<1>2. /\ [mode |-> "general", ticket |-> 0, claims |-> claims] \in Outcomes
      /\ [mode |-> "general", ticket |-> 0, claims |-> claims].mode = "general"
      /\ [mode |-> "general", ticket |-> 0, claims |-> claims].ticket = 0
  BY DEF Outcomes, Modes
<1>3. FilesTake(r, [mode |-> "general", ticket |-> 0, claims |-> claims])
  BY <1>1, <1>2, WriteDoes DEF FilesTake, Sound
<1>4. Commanded(r, "answer", "idle", 0, "none") /\ TypeInv
  BY DEF AnswerCommand, Sound
<1> QED
  BY <1>2, <1>3, <1>4, CommandedDoes, ToolPcsFacts, AsksFacts DEF ToolMoves

LEMMA FormCommandDoes ==
  ASSUME Sound, NEW r \in Runs, FormCommand(r)
  PROVE  /\ FilesTake(r, Result("form", 0)) /\ Result("form", 0) \in Outcomes
         /\ Result("form", 0).mode = "form" /\ Result("form", 0).ticket = 0
         /\ ToolMoves(r) /\ tool[r].pc = "idle" /\ tool'[r].pc = "idle"
<1>1. Write(r, Result("form", 0)) /\ Commanded(r, "form", "idle", 0, "none") /\ TypeInv /\ "form" \in Modes
  BY DEF FormCommand, Sound, Modes
<1>2. /\ Result("form", 0) \in Outcomes /\ Result("form", 0).mode = "form" /\ Result("form", 0).ticket = 0
  BY <1>1, ResultFacts
<1>3. FilesTake(r, Result("form", 0))
  BY <1>1, <1>2, WriteDoes DEF FilesTake
<1> QED
  BY <1>1, <1>2, <1>3, CommandedDoes, ToolPcsFacts, AsksFacts DEF ToolMoves

LEMMA RefuseCreateDoes ==
  ASSUME Sound, NEW r \in Runs, RefuseCreate(r)
  PROVE  ToolMoves(r) /\ tool[r].pc = "idle" /\ tool'[r].pc = "idle"
<1>1. Commanded(r, "create", "idle", 0, "none") /\ TypeInv
  BY DEF RefuseCreate, Sound
<1> QED
  BY <1>1, CommandedDoes, ToolPcsFacts, AsksFacts DEF ToolMoves

LEMMA RequestIs ==
  ASSUME TypeInv, NEW r \in Runs, NEW n \in Orders, NEW v, RequestTo(r, n, v)
  PROVE  RequestMoves(r, n) /\ request'[r][n] = v
<1>1. request \in [Runs -> [Orders -> Requests]] /\ request[r] \in [Orders -> Requests]
  BY DEF TypeInv
<1>2. PICK w \in [Orders -> Requests] : w = [request[r] EXCEPT ![n] = v]
  BY <1>1 DEF RequestTo
<1>3. w[n] = v /\ \A m \in Orders \ {n} : w[m] = request[r][m]
  BY <1>1, <1>2
<1>4. request' = [request EXCEPT ![r] = w]
  BY <1>2 DEF RequestTo
<1>5. request' \in [Runs -> [Orders -> Requests]] /\ request'[r] = w /\ \A q \in Runs \ {r} : request'[q] = request[q]
  BY <1>1, <1>4
<1> QED
  BY <1>3, <1>5 DEF RequestMoves

LEMMA RequestGetsDoes ==
  ASSUME TypeInv, NEW r \in Runs, NEW n \in Orders, NEW pc \in RequestPcs, NEW k \in Nat,
         RequestGets(r, n, pc, k)
  PROVE  RequestMoves(r, n) /\ request'[r][n].pc = pc /\ request'[r][n].ticket = k
<1>1. PICK v \in Requests : v = [pc |-> pc, ticket |-> k]
  BY DEF Requests
<1>2. RequestTo(r, n, v)
  BY <1>1 DEF RequestTo, RequestGets
<1> QED
  BY <1>1, <1>2, RequestIs

LEMMA RequestAtDoes ==
  ASSUME TypeInv, NEW r \in Runs, NEW n \in Orders, NEW pc \in RequestPcs, RequestAt(r, n, pc)
  PROVE  RequestMoves(r, n) /\ request'[r][n].pc = pc /\ request'[r][n].ticket = request[r][n].ticket
<1>1. request[r][n] \in Requests
  BY DEF TypeInv
<1>2. PICK v \in Requests : v = [request[r][n] EXCEPT !.pc = pc]
  BY <1>1 DEF Requests
<1>3. v.pc = pc /\ v.ticket = request[r][n].ticket
  BY <1>1, <1>2 DEF Requests
<1>4. RequestTo(r, n, v)
  BY <1>2 DEF RequestTo, RequestAt
<1> QED
  BY <1>3, <1>4, RequestIs

LEMMA RequestPcsFacts ==
  {"none", "lookup", "insert", "scope", "created", "replayed"} \subseteq RequestPcs
  BY DEF RequestPcs

LEMMA CreateCommandDoes ==
  ASSUME Sound, NEW r \in Runs, CreateCommand(r)
  PROVE  \E n \in Orders :
           /\ ToolMoves(r) /\ tool[r].pc = "idle" /\ tool'[r].pc = "waiting" /\ Started(r[1])
           /\ tool'[r].commands = n /\ RequestMoves(r, n) /\ request'[r][n].pc = "lookup"
<1>1. TypeInv
  BY DEF Sound
<1>2. PICK asks \in scene.asks \cap {"spawn", "none"} : Commanded(r, "create", "waiting", 0, asks)
  BY DEF CreateCommand
<1>3. /\ ToolMoves(r) /\ tool[r].pc = "idle" /\ tool'[r].pc = "waiting" /\ Started(r[1])
      /\ tool'[r].commands \in Orders
  BY <1>1, <1>2, CommandedDoes, AttemptingIsStarted, ToolPcsFacts, AsksFacts DEF ToolMoves
<1>4. PICK n \in Orders : n = tool'[r].commands
  BY <1>3
<1>5. RequestAt(r, n, "lookup")
  BY <1>4 DEF CreateCommand, RequestAt
<1>6. RequestMoves(r, n) /\ request'[r][n].pc = "lookup"
  BY <1>1, <1>5, RequestAtDoes, RequestPcsFacts
<1> QED
  BY <1>3, <1>4, <1>6

LEMMA ContinueCommandDoes ==
  ASSUME Sound, NEW r \in Runs, ContinueCommand(r)
  PROVE  /\ ToolMoves(r) /\ tool[r].pc = "idle" /\ tool'[r].pc = "respond" /\ Started(r[1])
         /\ tool'[r].ticket \in DOMAIN ticket /\ tool'[r].asks # "spawn"
<1>1. TypeInv
  BY DEF Sound
<1>2. PICK k \in turn[r[1]].allowed, asks \in scene.asks \cap (Status \cup {"none"}) :
        Commanded(r, "continue", "respond", k, asks)
  BY DEF ContinueCommand
<1>3. k \in DOMAIN ticket /\ k \in Nat
  BY RunOfTurn, <1>1, RowsAreFinite DEF Sound, RefInv, Placed
<1>4. asks \in Asks /\ asks # "spawn"
  BY AsksFacts DEF Status
<1> QED
  BY <1>1, <1>2, <1>3, <1>4, CommandedDoes, AttemptingIsStarted, ToolPcsFacts DEF ToolMoves

LEMMA Least ==
  ASSUME NEW n \in Nat, NEW S \in SUBSET (1..n), S # {}
  PROVE  Min(S) \in S
<1>1. S \subseteq Nat
  OBVIOUS
<1>2. PICK m \in S : \A k \in S : <<k, m>> \notin OpToRel(<, Nat)
  BY <1>1, NatLessThanWellFounded, WFMin
<1>3. ASSUME NEW k \in S PROVE m =< k
  <2>1. ~(k < m) /\ k \in Nat /\ m \in Nat
    BY <1>1, <1>2 DEF OpToRel
  <2> QED
    BY <2>1
<1> QED
  BY <1>3 DEF Min

LEMMA LookupDoes ==
  ASSUME Sound, NEW r \in Runs, NEW n \in Orders, Lookup(r, n)
  PROVE  /\ RequestMoves(r, n) /\ request[r][n].pc = "lookup" /\ Started(r[1])
         /\ \/ request'[r][n].pc = "insert"
            \/ /\ request'[r][n].pc = "replayed" /\ request'[r][n].ticket \in DOMAIN ticket
               /\ Idempotent(request'[r][n].ticket, turn[r[1]].session, says[r[1]])
<1> DEFINE found == {k \in DOMAIN ticket : Idempotent(k, turn[r[1]].session, says[r[1]])}
<1>1. /\ request[r][n].pc = "lookup" /\ TypeInv
      /\ request' = [request EXCEPT ![r][n] =
            IF found = {} THEN [pc |-> "insert", ticket |-> 0]
            ELSE [pc |-> "replayed", ticket |-> Min(found)]]
  BY DEF Lookup, Sound
<1>2. Started(r[1])
  BY <1>1 DEF Sound, RefInv, Served, Tooled, Requested
<1>3. CASE found = {}
  <2>1. RequestGets(r, n, "insert", 0)
    BY <1>1, <1>3 DEF RequestGets
  <2> HIDE DEF found
  <2>2. RequestMoves(r, n) /\ request'[r][n].pc = "insert"
    BY <1>1, <2>1, RequestGetsDoes, RequestPcsFacts
  <2> QED
    BY <1>1, <1>2, <2>2
<1>4. CASE found # {}
  <2>1. Len(ticket) \in Nat /\ found \in SUBSET (1..Len(ticket))
    BY <1>1, RowsAreFinite
  <2>2. PICK k \in found : k = Min(found)
    BY <1>4, <2>1, Least
  <2>3. k \in Nat /\ k \in DOMAIN ticket /\ Idempotent(k, turn[r[1]].session, says[r[1]])
    BY <2>1
  <2> HIDE DEF found
  <2>4. RequestGets(r, n, "replayed", k)
    BY <1>1, <1>4, <2>2 DEF RequestGets
  <2>5. RequestMoves(r, n) /\ request'[r][n].pc = "replayed" /\ request'[r][n].ticket = k
    BY <1>1, <2>3, <2>4, RequestGetsDoes, RequestPcsFacts
  <2> QED
    BY <1>1, <1>2, <1>4, <2>3, <2>5
<1> QED
  BY <1>3, <1>4

LEMMA InsertTicketDoes ==
  ASSUME Sound, NEW r \in Runs, NEW n \in Orders, InsertTicket(r, n)
  PROVE  \E k \in Nat \ {0} :
           /\ RequestMoves(r, n) /\ request[r][n].pc = "insert" /\ Started(r[1])
           /\ request'[r][n].pc = "scope" /\ request'[r][n].ticket = k
           /\ ticket' \in Seq(Row) /\ DOMAIN ticket' = DOMAIN ticket \cup {k} /\ k \notin DOMAIN ticket
           /\ \A j \in DOMAIN ticket : ticket'[j] = ticket[j]
           /\ ticket'[k].by = r /\ ticket'[k].text = says[r[1]] /\ ticket'[k].described = turn[r[1]].history
           /\ ticket'[k].session = 0 /\ ticket'[k].status = "new" /\ ticket'[k].noted = "no"
<1> DEFINE row == [by |-> r, text |-> says[r[1]], described |-> turn[r[1]].history,
                   session |-> 0, status |-> "new", noted |-> "no", responses |-> {}, assigned |-> FALSE]
<1>1. /\ request[r][n].pc = "insert" /\ ticket' = Append(ticket, row) /\ TypeInv
      /\ request' = [request EXCEPT ![r][n] = [pc |-> "scope", ticket |-> Len(ticket')]]
  BY DEF InsertTicket, Sound
<1>2. r[1] \in Turns /\ Started(r[1])
  BY <1>1, RunOfTurn DEF Sound, RefInv, Served, Tooled, Requested
<1>3. says[r[1]] \in Messages
  BY <1>2 DEF Sound, RefInv, Placed, Started
<1>4. turn[r[1]] \in Coroutines /\ ticket \in Seq(Row)
  BY <1>1, <1>2 DEF TypeInv
<1>5. turn[r[1]].history \in SUBSET Messages
  BY <1>4 DEF Coroutines
<1>6. row \in Row
  BY <1>3, <1>5 DEF Row, Status
<1>7. /\ row.by = r /\ row.text = says[r[1]] /\ row.described = turn[r[1]].history
      /\ row.session = 0 /\ row.status = "new" /\ row.noted = "no"
  OBVIOUS
<1> HIDE DEF row
<1>8. PICK k \in Nat \ {0} : k = Len(ticket) + 1
  BY <1>4
<1>9. /\ ticket' \in Seq(Row) /\ DOMAIN ticket' = DOMAIN ticket \cup {k} /\ k \notin DOMAIN ticket
      /\ \A j \in DOMAIN ticket : ticket'[j] = ticket[j]
      /\ ticket'[k] = row /\ Len(ticket') = k
  BY <1>1, <1>4, <1>6, <1>8, AppendProperties
<1>10. RequestGets(r, n, "scope", k)
  BY <1>1, <1>9 DEF RequestGets
<1>11. RequestMoves(r, n) /\ request'[r][n].pc = "scope" /\ request'[r][n].ticket = k
  <2>1. k \in Nat /\ "scope" \in RequestPcs /\ TypeInv
    BY <1>1, RequestPcsFacts
  <2> HIDE <1>1, <1>2, <1>3, <1>4, <1>5, <1>6, <1>7, <1>8, <1>9
  <2> QED
    BY <1>10, <2>1, RequestGetsDoes
<1> QED
  BY <1>1, <1>2, <1>7, <1>9, <1>11

\* A tool that is on its way with a ticket, a request that has one.
LEMMA ToolTicket ==
  ASSUME Sound, NEW r \in Runs, tool[r].pc \notin {"idle", "waiting"}
  PROVE  tool[r].ticket \in DOMAIN ticket /\ tool[r].ticket \in Nat /\ ticket[tool[r].ticket] \in Row
         /\ Started(r[1]) /\ says[r[1]] \in Messages
<1>1. tool[r].ticket \in DOMAIN ticket /\ Started(r[1]) /\ r[1] \in Turns
  BY RunOfTurn DEF Sound, RefInv, Served, Tooled, Requested
<1>2. says[r[1]] \in Messages
  BY <1>1 DEF Sound, RefInv, Placed, Started
<1>3. ticket \in Seq(Row)
  BY DEF Sound, TypeInv
<1> QED
  BY <1>1, <1>2, <1>3

LEMMA RequestTicket ==
  ASSUME Sound, NEW r \in Runs, NEW n \in Orders, request[r][n].pc \in {"scope", "created", "replayed"}
  PROVE  LET k == request[r][n].ticket IN k \in DOMAIN ticket /\ k \in Nat /\ ticket[k] \in Row
<1>1. request[r][n].ticket \in DOMAIN ticket
  BY DEF Sound, RefInv, Served, Tooled, Requested
<1>2. ticket \in Seq(Row)
  BY DEF Sound, TypeInv
<1> QED
  BY <1>1, <1>2

\* A tool that waits has posted one of its requests.
LEMMA PostedRequest ==
  ASSUME Sound, NEW r \in Runs, tool[r].pc = "waiting"
  PROVE  /\ tool[r].commands \in Orders /\ Posted(r) = request[r][tool[r].commands] /\ Started(r[1])
         /\ Posted(r).pc \in {"created", "replayed"} =>
              LET k == Posted(r).ticket IN k \in DOMAIN ticket /\ k \in Nat /\ ticket[k] \in Row
<1>1. PICK n \in Orders : n = tool[r].commands /\ Started(r[1])
  BY DEF Sound, RefInv, Served, Tooled, Requested
<1>2. Posted(r) = request[r][n]
  BY <1>1 DEF Posted
<1> QED
  BY <1>1, <1>2, RequestTicket

\* How the row is written by a step: its key, its opening note, its agent, its status.
Scoped(k, s) == RowTo(k, [ticket[k] EXCEPT !.session = s])
NotedAs(k, n) == n \in {"yes", "late"} /\ RowTo(k, [ticket[k] EXCEPT !.noted = n])
Assigned(k) == RowTo(k, [ticket[k] EXCEPT !.assigned = TRUE])
RespondedTo(k, m) ==
  RowTo(k, [ticket[k] EXCEPT !.responses = ticket[k].responses \cup {m}, !.status = "in_progress"])
StatusTo(k, status) == RowTo(k, [ticket[k] EXCEPT !.status = status])

LEMMA NotedDoes ==
  ASSUME TypeInv, NEW r \in Runs, NEW k \in DOMAIN ticket,
         ticket' = [ticket EXCEPT ![k].noted = IF InTime(r) THEN "yes" ELSE "late"]
  PROVE  \E n : NotedAs(k, n) /\ (n = "yes" => InTime(r))
<1>1. PICK n \in {"yes", "late"} : n = IF InTime(r) THEN "yes" ELSE "late"
  OBVIOUS
<1>2. ticket \in Seq(Row) /\ ticket[k] \in Row
  BY DEF TypeInv
<1>3. [ticket[k] EXCEPT !.noted = n] \in Row
  BY <1>1, <1>2 DEF Row
<1>4. ticket' = [ticket EXCEPT ![k] = [ticket[k] EXCEPT !.noted = n]]
  BY <1>1
<1> QED
  BY <1>1, <1>3, <1>4 DEF NotedAs, RowTo

LEMMA WritesARow ==
  ASSUME TypeInv, NEW k \in DOMAIN ticket
  PROVE  /\ \A s \in Nat : ticket' = [ticket EXCEPT ![k].session = s] => Scoped(k, s)
         /\ ticket' = [ticket EXCEPT ![k].assigned = TRUE] => Assigned(k)
         /\ \A m \in Messages : ticket' = [ticket EXCEPT ![k] = Responded(k, m)] => RespondedTo(k, m)
         /\ \A st \in Status : ticket' = [ticket EXCEPT ![k].status = st] => StatusTo(k, st)
<1>1. ticket \in Seq(Row) /\ ticket[k] \in Row
  BY DEF TypeInv
<1>2. /\ \A s \in Nat : [ticket[k] EXCEPT !.session = s] \in Row
      /\ [ticket[k] EXCEPT !.assigned = TRUE] \in Row
      /\ \A st \in Status : [ticket[k] EXCEPT !.status = st] \in Row
  BY <1>1 DEF Row
<1>3. \A m \in Messages :
        [ticket[k] EXCEPT !.responses = ticket[k].responses \cup {m}, !.status = "in_progress"] \in Row
  BY <1>1 DEF Row, Status
<1>4. \A m \in Messages :
        Responded(k, m) = [ticket[k] EXCEPT !.responses = ticket[k].responses \cup {m}, !.status = "in_progress"]
  BY DEF Responded
<1>5. ASSUME NEW s \in Nat, ticket' = [ticket EXCEPT ![k].session = s] PROVE Scoped(k, s)
  BY <1>2, <1>5 DEF Scoped, RowTo
<1>6. ASSUME ticket' = [ticket EXCEPT ![k].assigned = TRUE] PROVE Assigned(k)
  BY <1>2, <1>6 DEF Assigned, RowTo
<1>7. ASSUME NEW m \in Messages, ticket' = [ticket EXCEPT ![k] = Responded(k, m)] PROVE RespondedTo(k, m)
  BY <1>3, <1>4, <1>7 DEF RespondedTo, RowTo
<1>8. ASSUME NEW st \in Status, ticket' = [ticket EXCEPT ![k].status = st] PROVE StatusTo(k, st)
  BY <1>2, <1>8 DEF StatusTo, RowTo
<1> QED
  BY <1>5, <1>6, <1>7, <1>8

LEMMA WriteScopeDoes ==
  ASSUME Sound, NEW r \in Runs, NEW n \in Orders, WriteScope(r, n)
  PROVE  /\ RequestMoves(r, n) /\ request[r][n].pc = "scope" /\ Started(r[1])
         /\ request'[r][n].pc = "created" /\ request'[r][n].ticket = request[r][n].ticket
         /\ Scoped(request[r][n].ticket, turn[r[1]].session)
<1>1. /\ request[r][n].pc = "scope" /\ TypeInv /\ RequestAt(r, n, "created")
      /\ ticket' = [ticket EXCEPT ![request[r][n].ticket].session = turn[r[1]].session]
  BY DEF WriteScope, RequestAt, Sound
<1>2. RequestMoves(r, n) /\ request'[r][n].pc = "created" /\ request'[r][n].ticket = request[r][n].ticket
  BY <1>1, RequestAtDoes, RequestPcsFacts
<1>3. request[r][n].ticket \in DOMAIN ticket
  BY <1>1, RequestTicket
<1>4. Started(r[1])
  BY <1>1 DEF Sound, RefInv, Served, Tooled, Requested
<1>5. turn[r[1]].session \in Nat
  BY <1>1, RunOfTurn DEF TypeInv, Coroutines
<1> QED
  BY <1>1, <1>2, <1>3, <1>4, <1>5, WritesARow

\* The tickets that are to have no agent: the one of the command, or no new one.
Declined(r, k) ==
  /\ declined' \in SUBSET Nat /\ declined \subseteq declined'
  /\ ~Spawns(r) => k \in declined'

LEMMA DeclinesDoes ==
  ASSUME TypeInv, NEW r \in Runs, NEW k \in Nat, Declines(r, k)
  PROVE  Declined(r, k)
  BY DEF TypeInv, Declines, Declined

LEMMA PostNoteDoes ==
  ASSUME Sound, NEW r \in Runs, PostNote(r)
  PROVE  LET k == Posted(r).ticket IN
         /\ ToolMoves(r) /\ tool[r].pc = "waiting" /\ tool'[r].pc = "first" /\ tool'[r].ticket = k
         /\ tool'[r].asks = tool[r].asks /\ k \in DOMAIN ticket
         /\ Posted(r).pc = "created" /\ Started(r[1]) /\ Declined(r, k)
         /\ \E n : NotedAs(k, n) /\ (n = "yes" => InTime(r))
<1>1. /\ tool[r].pc = "waiting" /\ Posted(r).pc = "created" /\ TypeInv
      /\ tool' = [tool EXCEPT ![r] = [tool[r] EXCEPT !.pc = "first", !.ticket = Posted(r).ticket]]
      /\ ticket' = [ticket EXCEPT ![Posted(r).ticket].noted = IF InTime(r) THEN "yes" ELSE "late"]
      /\ Declines(r, Posted(r).ticket)
  BY DEF PostNote, Sound
<1>2. PICK k \in DOMAIN ticket : k = Posted(r).ticket /\ k \in Nat /\ Started(r[1])
  BY <1>1, PostedRequest
<1>3. tool \in [Runs -> Tools] /\ tool[r] \in Tools
  BY <1>1 DEF TypeInv
<1>4. [tool[r] EXCEPT !.pc = "first", !.ticket = k] \in Tools
  BY <1>2, <1>3 DEF Tools, ToolPcs
<1>5. tool' = [tool EXCEPT ![r] = [tool[r] EXCEPT !.pc = "first", !.ticket = k]]
  BY <1>1, <1>2
<1>6. ToolMoves(r) /\ tool'[r].pc = "first" /\ tool'[r].ticket = k /\ tool'[r].asks = tool[r].asks
  BY <1>3, <1>4, <1>5 DEF ToolMoves, Tools
<1>7. \E n : NotedAs(k, n) /\ (n = "yes" => InTime(r))
  BY <1>1, <1>2, NotedDoes
<1>8. Declined(r, k)
  BY <1>1, <1>2, DeclinesDoes
<1> QED
  BY <1>1, <1>2, <1>6, <1>7, <1>8

LEMMA TakeReplayDoes ==
  ASSUME Sound, NEW r \in Runs, TakeReplay(r)
  PROVE  LET k == Posted(r).ticket IN
         /\ ToolMoves(r) /\ tool[r].pc = "waiting" /\ tool'[r].ticket = k /\ k \in DOMAIN ticket
         /\ \/ tool'[r].pc = "assign"
            \/ tool'[r].pc = "last" /\ (ticket[k].assigned \/ ~Spawns(r))
         /\ Posted(r).pc = "replayed" /\ Started(r[1]) /\ Declined(r, k)
<1>1. /\ tool[r].pc = "waiting" /\ Posted(r).pc = "replayed" /\ TypeInv
      /\ tool' = [tool EXCEPT ![r] =
           [tool[r] EXCEPT !.pc = AfterReplay(Posted(r).ticket, Spawns(r)), !.ticket = Posted(r).ticket]]
      /\ Declines(r, Posted(r).ticket)
  BY DEF TakeReplay, Sound
<1>2. PICK k \in DOMAIN ticket : k = Posted(r).ticket /\ k \in Nat /\ Started(r[1])
  BY <1>1, PostedRequest
<1>3. tool \in [Runs -> Tools] /\ tool[r] \in Tools
  BY <1>1 DEF TypeInv
<1>4. PICK pc \in {"last", "assign"} : pc = AfterReplay(k, Spawns(r))
  BY DEF AfterReplay
<1>5. [tool[r] EXCEPT !.pc = pc, !.ticket = k] \in Tools
  BY <1>2, <1>3, <1>4 DEF Tools, ToolPcs
<1>6. tool' = [tool EXCEPT ![r] = [tool[r] EXCEPT !.pc = pc, !.ticket = k]]
  BY <1>1, <1>2, <1>4
<1>7. ToolMoves(r) /\ tool'[r].pc = pc /\ tool'[r].ticket = k
  BY <1>3, <1>5, <1>6 DEF ToolMoves, Tools
<1>8. pc = "assign" \/ (pc = "last" /\ (ticket[k].assigned \/ ~Spawns(r)))
  BY <1>4 DEF AfterReplay
<1>9. Declined(r, k)
  BY <1>1, <1>2, DeclinesDoes
<1> QED
  BY <1>1, <1>2, <1>7, <1>8, <1>9

\* FirstResult, LastResult and ReportUpdate name the ticket of the tool in its files.
LEMMA ReportDoes ==
  ASSUME Sound, NEW r \in Runs, NEW mode \in Modes, NEW pc \in ToolPcs,
         Write(r, Result(mode, tool[r].ticket)), ToolAt(r, pc), tool[r].pc \notin {"idle", "waiting"}
  PROVE  /\ ToolMoves(r) /\ Hits(r, pc) /\ Started(r[1]) /\ tool[r].ticket \in DOMAIN ticket
         /\ FilesTake(r, Result(mode, tool[r].ticket)) /\ Result(mode, tool[r].ticket) \in Outcomes
         /\ Result(mode, tool[r].ticket).mode = mode /\ Result(mode, tool[r].ticket).ticket = tool[r].ticket
<1>1. TypeInv
  BY DEF Sound
<1>2. ToolMoves(r) /\ Hits(r, pc)
  BY <1>1, ToolAtMoves
<1>3. PICK k \in DOMAIN ticket : k = tool[r].ticket /\ k \in Nat /\ Started(r[1])
  BY ToolTicket
<1>4. Result(mode, k) \in Outcomes /\ Result(mode, k).mode = mode /\ Result(mode, k).ticket = k
  BY <1>3, ResultFacts
<1>5. FilesTake(r, Result(mode, k))
  BY <1>1, <1>3, <1>4, WriteDoes DEF FilesTake
<1> QED
  BY <1>2, <1>3, <1>4, <1>5

LEMMA AssignAgentDoes ==
  ASSUME Sound, NEW r \in Runs, AssignAgent(r)
  PROVE  /\ ToolMoves(r) /\ tool[r].pc = "assign" /\ Hits(r, "last") /\ Started(r[1])
         /\ Assigned(tool[r].ticket)
<1>1. /\ tool[r].pc = "assign" /\ ToolAt(r, "last") /\ TypeInv
      /\ ticket' = [ticket EXCEPT ![tool[r].ticket].assigned = TRUE]
  BY DEF AssignAgent, Sound
<1>2. tool[r].ticket \in DOMAIN ticket /\ Started(r[1])
  BY <1>1, ToolTicket
<1> QED
  BY <1>1, <1>2, ToolAtMoves, ToolPcsFacts, WritesARow

LEMMA RespondDoes ==
  ASSUME Sound, NEW r \in Runs, Respond(r)
  PROVE  /\ ToolMoves(r) /\ tool[r].pc = "respond" /\ (Hits(r, "status") \/ Hits(r, "report")) /\ Started(r[1])
         /\ RespondedTo(tool[r].ticket, says[r[1]])
<1>1. PICK pc \in {"status", "report"} :
        /\ tool[r].pc = "respond" /\ TypeInv /\ ToolAt(r, pc)
        /\ ticket' = [ticket EXCEPT ![tool[r].ticket] = Responded(tool[r].ticket, says[r[1]])]
  BY DEF Respond, Sound
<1>2. tool[r].ticket \in DOMAIN ticket /\ Started(r[1]) /\ says[r[1]] \in Messages
  BY <1>1, ToolTicket
<1>3. ToolMoves(r) /\ Hits(r, pc)
  BY <1>1, ToolAtMoves, ToolPcsFacts
<1>4. RespondedTo(tool[r].ticket, says[r[1]])
  BY <1>1, <1>2, WritesARow
<1> QED
  BY <1>1, <1>2, <1>3, <1>4

\* A command that is to set a status names one.
LEMMA StatusAskedIs ==
  ASSUME Sound, NEW r \in Runs, tool[r].pc = "status"
  PROVE  \E status \in Status : status = StatusAsked(r)
<1>1. tool[r].asks \in Asks /\ tool[r].asks # "spawn"
  BY DEF Sound, TypeInv, Tools, RefInv, Served, Tooled, Requested
<1> QED
  BY <1>1, AsksFacts DEF StatusAsked, Asks

LEMMA SetStatusDoes ==
  ASSUME Sound, NEW r \in Runs, SetStatus(r)
  PROVE  /\ ToolMoves(r) /\ tool[r].pc = "status" /\ Hits(r, "report") /\ Started(r[1])
         /\ \E status \in Status : StatusTo(tool[r].ticket, status)
<1>1. /\ tool[r].pc = "status" /\ ToolAt(r, "report") /\ TypeInv
      /\ ticket' = [ticket EXCEPT ![tool[r].ticket].status = StatusAsked(r)]
  BY DEF SetStatus, Sound
<1>2. tool[r].ticket \in DOMAIN ticket /\ Started(r[1])
  BY <1>1, ToolTicket
<1>3. PICK status \in Status : status = StatusAsked(r)
  BY <1>1, StatusAskedIs
<1>4. StatusTo(tool[r].ticket, status)
  BY <1>1, <1>2, <1>3, WritesARow
<1> QED
  BY <1>1, <1>2, <1>4, ToolAtMoves, ToolPcsFacts

\* The request that failed may have been served.
ServedAnyway(r) ==
  \/ ticket' = ticket
  \/ /\ tool[r].pc = "waiting" /\ Posted(r).pc = "created"
     /\ \E n : NotedAs(Posted(r).ticket, n) /\ (n = "yes" => InTime(r))
  \/ Assigned(tool[r].ticket)
  \/ RespondedTo(tool[r].ticket, says[r[1]])
  \/ \E status \in Status : StatusTo(tool[r].ticket, status)

LEMMA ToolFailsDoes ==
  ASSUME Sound, NEW r \in Runs, ToolFails(r)
  PROVE  /\ ToolMoves(r) /\ Hits(r, "idle") /\ tool[r].pc # "idle" /\ Started(r[1])
         /\ faults' = faults + 1 /\ ServedAnyway(r)
<1>1. /\ TypeInv /\ ToolAt(r, "idle") /\ tool[r].pc \in {"waiting", "assign", "respond", "status"}
      /\ faults' = faults + 1
  BY DEF ToolFails, Sound
<1>2. ToolMoves(r) /\ Hits(r, "idle") /\ tool[r].pc # "idle"
  BY <1>1, ToolAtMoves, ToolPcsFacts
<1>3. Started(r[1])
  BY <1>2 DEF Sound, RefInv, Served, Tooled, Requested
<1>4. ticket' \in
        {ticket} \cup
        CASE tool[r].pc = "waiting" /\ Posted(r).pc = "created" ->
               {[ticket EXCEPT ![Posted(r).ticket].noted = IF InTime(r) THEN "yes" ELSE "late"]}
          [] tool[r].pc = "assign" -> {[ticket EXCEPT ![tool[r].ticket].assigned = TRUE]}
          [] tool[r].pc = "respond" -> {[ticket EXCEPT ![tool[r].ticket] = Responded(tool[r].ticket, says[r[1]])]}
          [] tool[r].pc = "status" -> {[ticket EXCEPT ![tool[r].ticket].status = StatusAsked(r)]}
          [] OTHER -> {}
  BY DEF ToolFails
<1>5. CASE tool[r].pc = "waiting" /\ Posted(r).pc = "created"
  <2>1. \/ ticket' = ticket
        \/ ticket' = [ticket EXCEPT ![Posted(r).ticket].noted = IF InTime(r) THEN "yes" ELSE "late"]
    BY <1>4, <1>5
  <2>2. Posted(r).ticket \in DOMAIN ticket
    BY <1>5, PostedRequest
  <2> QED
    BY <1>1, <1>2, <1>3, <1>5, <2>1, <2>2, NotedDoes DEF ServedAnyway
<1>6. CASE tool[r].pc = "waiting" /\ Posted(r).pc # "created"
  <2>1. ticket' = ticket
    BY <1>4, <1>6
  <2> QED
    BY <1>1, <1>2, <1>3, <2>1 DEF ServedAnyway
<1>7. CASE tool[r].pc = "assign"
  <2>1. ticket' = ticket \/ ticket' = [ticket EXCEPT ![tool[r].ticket].assigned = TRUE]
    BY <1>4, <1>7
  <2> QED
    BY <1>1, <1>2, <1>3, <1>7, <2>1, ToolTicket, WritesARow DEF ServedAnyway
<1>8. CASE tool[r].pc = "respond"
  <2>1. ticket' = ticket \/ ticket' = [ticket EXCEPT ![tool[r].ticket] = Responded(tool[r].ticket, says[r[1]])]
    BY <1>4, <1>8
  <2> QED
    BY <1>1, <1>2, <1>3, <1>8, <2>1, ToolTicket, WritesARow DEF ServedAnyway
<1>9. CASE tool[r].pc = "status"
  <2>1. PICK status \in Status : status = StatusAsked(r)
    BY <1>9, StatusAskedIs
  <2>2. ticket' = ticket \/ ticket' = [ticket EXCEPT ![tool[r].ticket].status = status]
    BY <1>4, <1>9, <2>1
  <2> QED
    BY <1>1, <1>2, <1>3, <1>9, <2>2, ToolTicket, WritesARow DEF ServedAnyway
<1> QED
  BY <1>1, <1>5, <1>6, <1>7, <1>8, <1>9

-----------------------------------------------------------------------------
(* What every step keeps.  Tickets, sessions and what they hold are only   *)
(* ever added to, and a turn that has started keeps what it has read.      *)

RowsKept ==
  /\ DOMAIN ticket \subseteq DOMAIN ticket'
  /\ \A k \in DOMAIN ticket :
       /\ ticket'[k].by = ticket[k].by /\ ticket'[k].text = ticket[k].text
       /\ ticket'[k].described = ticket[k].described
       /\ ticket[k].responses \subseteq ticket'[k].responses
       /\ ticket[k].noted # "no" => ticket'[k].noted # "no"
       /\ ticket[k].assigned => ticket'[k].assigned
RoomsKept ==
  /\ DOMAIN session \subseteq DOMAIN session'
  /\ \A s \in DOMAIN session : session[s].messages \subseteq session'[s].messages
TurnsKept == \A t \in Turns : Started(t) => Started(t)' /\ Keeps(t)
Kept == scene' = scene /\ RowsKept /\ RoomsKept /\ TurnsKept

LEMMA SameRows == ASSUME ticket' = ticket PROVE RowsKept
  BY DEF RowsKept

LEMMA SameRooms == ASSUME session' = session PROVE RoomsKept
  BY DEF RoomsKept

LEMMA SameTurns == ASSUME turn' = turn PROVE TurnsKept
  BY DEF TurnsKept, Started, Keeps

LEMMA MovedTurn ==
  ASSUME NEW t \in Turns, Moves(t), Started(t) => (Started(t)' /\ Keeps(t))
  PROVE  TurnsKept
<1> SUFFICES ASSUME NEW u \in Turns, Started(u) PROVE Started(u)' /\ Keeps(u)
  BY DEF TurnsKept
<1>1. CASE u = t
  BY <1>1
<1>2. CASE u # t
  BY <1>2 DEF Moves, Started, Keeps
<1> QED
  BY <1>1, <1>2

LEMMA RowKept ==
  ASSUME TypeInv, NEW k, NEW v, RowTo(k, v),
         v.by = ticket[k].by, v.text = ticket[k].text, v.described = ticket[k].described,
         ticket[k].responses \subseteq v.responses, ticket[k].noted # "no" => v.noted # "no",
         ticket[k].assigned => v.assigned
  PROVE  RowsKept
<1>1. /\ DOMAIN ticket' = DOMAIN ticket /\ ticket'[k] = v
      /\ \A j \in DOMAIN ticket \ {k} : ticket'[j] = ticket[j]
  BY RowSet
<1> SUFFICES ASSUME NEW j \in DOMAIN ticket
             PROVE  /\ ticket'[j].by = ticket[j].by /\ ticket'[j].text = ticket[j].text
                    /\ ticket'[j].described = ticket[j].described
                    /\ ticket[j].responses \subseteq ticket'[j].responses
                    /\ ticket[j].noted # "no" => ticket'[j].noted # "no"
                    /\ ticket[j].assigned => ticket'[j].assigned
  BY <1>1 DEF RowsKept
<1>2. CASE j = k
  BY <1>1, <1>2
<1>3. CASE j # k
  BY <1>1, <1>3
<1> QED
  BY <1>2, <1>3

\* A step that changes one row: what is in the row afterwards, and what is kept.
RowStep(k) ==
  /\ ticket' \in Seq(Row) /\ DOMAIN ticket' = DOMAIN ticket /\ k \in DOMAIN ticket
  /\ \A j \in DOMAIN ticket \ {k} : ticket'[j] = ticket[j]
  /\ RowsKept

LEMMA ScopedRow ==
  ASSUME TypeInv, NEW k, NEW s, Scoped(k, s)
  PROVE  /\ RowStep(k) /\ ticket'[k].session = s /\ ticket'[k].noted = ticket[k].noted
         /\ ticket'[k].assigned = ticket[k].assigned
<1> DEFINE v == [ticket[k] EXCEPT !.session = s]
<1>1. RowTo(k, v) /\ k \in DOMAIN ticket
  BY DEF Scoped, RowTo
<1>2. ticket[k] \in Row
  BY <1>1 DEF TypeInv
<1>3. /\ v.by = ticket[k].by /\ v.text = ticket[k].text /\ v.described = ticket[k].described
      /\ v.responses = ticket[k].responses /\ v.noted = ticket[k].noted
      /\ v.assigned = ticket[k].assigned /\ v.status = ticket[k].status /\ v.session = s
  BY <1>2 DEF Row
<1> HIDE DEF v
<1> QED
  BY <1>1, <1>3, RowKept, RowSet DEF RowStep

LEMMA NotedRow ==
  ASSUME TypeInv, NEW k, NEW n, NotedAs(k, n)
  PROVE  /\ RowStep(k) /\ ticket'[k].session = ticket[k].session /\ ticket'[k].noted = n
         /\ ticket'[k].assigned = ticket[k].assigned /\ n \in {"yes", "late"}
<1> DEFINE v == [ticket[k] EXCEPT !.noted = n]
<1>1. RowTo(k, v) /\ k \in DOMAIN ticket /\ n \in {"yes", "late"}
  BY DEF NotedAs, RowTo
<1>2. ticket[k] \in Row
  BY <1>1 DEF TypeInv
<1>3. /\ v.by = ticket[k].by /\ v.text = ticket[k].text /\ v.described = ticket[k].described
      /\ v.responses = ticket[k].responses /\ v.noted = n
      /\ v.assigned = ticket[k].assigned /\ v.status = ticket[k].status /\ v.session = ticket[k].session
  BY <1>2 DEF Row
<1> HIDE DEF v
<1>4. RowsKept
  BY <1>1, <1>3, RowKept
<1>5. RowStep(k) /\ ticket'[k] = v
  BY <1>1, <1>4, RowSet DEF RowStep
<1> QED
  BY <1>1, <1>3, <1>5

LEMMA AssignedRow ==
  ASSUME TypeInv, NEW k, Assigned(k)
  PROVE  /\ RowStep(k) /\ ticket'[k].session = ticket[k].session /\ ticket'[k].noted = ticket[k].noted
         /\ ticket'[k].assigned = TRUE
<1> DEFINE v == [ticket[k] EXCEPT !.assigned = TRUE]
<1>1. RowTo(k, v) /\ k \in DOMAIN ticket
  BY DEF Assigned, RowTo
<1>2. ticket[k] \in Row
  BY <1>1 DEF TypeInv
<1>3. /\ v.by = ticket[k].by /\ v.text = ticket[k].text /\ v.described = ticket[k].described
      /\ v.responses = ticket[k].responses /\ v.noted = ticket[k].noted
      /\ v.assigned = TRUE /\ v.status = ticket[k].status /\ v.session = ticket[k].session
  BY <1>2 DEF Row
<1> HIDE DEF v
<1> QED
  BY <1>1, <1>3, RowKept, RowSet DEF RowStep

LEMMA RespondedRow ==
  ASSUME TypeInv, NEW k, NEW m, RespondedTo(k, m)
  PROVE  /\ RowStep(k) /\ ticket'[k].session = ticket[k].session /\ ticket'[k].noted = ticket[k].noted
         /\ ticket'[k].assigned = ticket[k].assigned /\ m \in ticket'[k].responses
<1> DEFINE v == [ticket[k] EXCEPT !.responses = ticket[k].responses \cup {m}, !.status = "in_progress"]
<1>1. RowTo(k, v) /\ k \in DOMAIN ticket
  BY DEF RespondedTo, RowTo
<1>2. ticket[k] \in Row
  BY <1>1 DEF TypeInv
<1>3. /\ v.by = ticket[k].by /\ v.text = ticket[k].text /\ v.described = ticket[k].described
      /\ v.responses = ticket[k].responses \cup {m} /\ v.noted = ticket[k].noted
      /\ v.assigned = ticket[k].assigned /\ v.status = "in_progress" /\ v.session = ticket[k].session
  BY <1>2 DEF Row
<1> HIDE DEF v
<1> QED
  BY <1>1, <1>3, RowKept, RowSet DEF RowStep

LEMMA StatusRow ==
  ASSUME TypeInv, NEW k, NEW status, StatusTo(k, status)
  PROVE  /\ RowStep(k) /\ ticket'[k].session = ticket[k].session /\ ticket'[k].noted = ticket[k].noted
         /\ ticket'[k].assigned = ticket[k].assigned
<1> DEFINE v == [ticket[k] EXCEPT !.status = status]
<1>1. RowTo(k, v) /\ k \in DOMAIN ticket
  BY DEF StatusTo, RowTo
<1>2. ticket[k] \in Row
  BY <1>1 DEF TypeInv
<1>3. /\ v.by = ticket[k].by /\ v.text = ticket[k].text /\ v.described = ticket[k].described
      /\ v.responses = ticket[k].responses /\ v.noted = ticket[k].noted
      /\ v.assigned = ticket[k].assigned /\ v.status = status /\ v.session = ticket[k].session
  BY <1>2 DEF Row
<1> HIDE DEF v
<1> QED
  BY <1>1, <1>3, RowKept, RowSet DEF RowStep

LEMMA FallbackRow ==
  ASSUME TypeInv, NEW k, NEW m,
         RowTo(k, [ticket[k] EXCEPT !.responses = ticket[k].responses \cup {m}, !.assigned = TRUE])
  PROVE  /\ RowStep(k) /\ ticket'[k].session = ticket[k].session /\ ticket'[k].noted = ticket[k].noted
         /\ ticket'[k].assigned = TRUE /\ m \in ticket'[k].responses
<1> DEFINE v == [ticket[k] EXCEPT !.responses = ticket[k].responses \cup {m}, !.assigned = TRUE]
<1>1. RowTo(k, v) /\ k \in DOMAIN ticket
  BY DEF RowTo
<1>2. ticket[k] \in Row
  BY <1>1 DEF TypeInv
<1>3. /\ v.by = ticket[k].by /\ v.text = ticket[k].text /\ v.described = ticket[k].described
      /\ v.responses = ticket[k].responses \cup {m} /\ v.noted = ticket[k].noted
      /\ v.assigned = TRUE /\ v.status = ticket[k].status /\ v.session = ticket[k].session
  BY <1>2 DEF Row
<1> HIDE DEF v
<1> QED
  BY <1>1, <1>3, RowKept, RowSet DEF RowStep

\* A row that a step leaves out of its writes, and one that it opens.
LEMMA NewRow ==
  ASSUME NEW k, DOMAIN ticket' = DOMAIN ticket \cup {k}, \A j \in DOMAIN ticket : ticket'[j] = ticket[j]
  PROVE  RowsKept
  BY DEF RowsKept

(* Placed and Served of those that a step leaves alone. *)

LEMMA PlacedStays ==
  ASSUME Sound, Kept, NEW u \in Turns, turn'[u] = turn[u]
  PROVE  Placed(u)'
<1>1. Placed(u) /\ scene' = scene /\ DOMAIN ticket \subseteq DOMAIN ticket' /\ DOMAIN session \subseteq DOMAIN session'
  BY DEF Sound, RefInv, Kept, RowsKept, RoomsKept
<1> QED
  BY <1>1 DEF Placed, Known, says, Attempts

LEMMA RequestStays ==
  ASSUME Sound, Kept, NEW q \in Runs, NEW n \in Orders, request'[q][n] = request[q][n]
  PROVE  Requested(q, n)'
<1>1. Requested(q, n) /\ DOMAIN ticket \subseteq DOMAIN ticket' /\ (Started(q[1]) => Started(q[1])')
  BY RunOfTurn DEF Sound, RefInv, Served, Kept, RowsKept, TurnsKept
<1> QED
  BY <1>1 DEF Requested

LEMMA ServedStays ==
  ASSUME Sound, Kept, NEW q \in Runs, ToolAlike(q), request'[q] = request[q], result'[q] = result[q]
  PROVE  Served(q)'
<1>1. Tooled(q) /\ DOMAIN ticket \subseteq DOMAIN ticket' /\ (Started(q[1]) => Started(q[1])')
  BY RunOfTurn DEF Sound, RefInv, Served, Kept, RowsKept, TurnsKept
<1>2. Tooled(q)'
  BY <1>1 DEF Tooled, ToolAlike
<1>3. result'[q].shown.ticket \in DOMAIN ticket' \cup {0} /\ result'[q].action.ticket \in DOMAIN ticket' \cup {0}
  BY <1>1 DEF Sound, RefInv, Served, Known
<1>4. \A n \in Orders : Requested(q, n)'
  BY RequestStays
<1> QED
  BY <1>2, <1>3, <1>4 DEF Served, Known

LEMMA RoomsStay ==
  ASSUME Sound, Kept, session' = session
  PROVE  \A s \in DOMAIN session' : session'[s].tickets \subseteq DOMAIN ticket'
  BY DEF Sound, RefInv, Kept, RowsKept

LEMMA SoundAfterTurn ==
  ASSUME Sound, Kept, TypeInv', NEW t \in Turns, Moves(t), Placed(t)',
         \A q \in Runs : ToolAlike(q), request' = request, result' = result,
         \A s \in DOMAIN session' : session'[s].tickets \subseteq DOMAIN ticket'
  PROVE  Sound'
<1>1. ASSUME NEW u \in Turns PROVE Placed(u)'
  <2>1. CASE u = t
    BY <2>1
  <2>2. CASE u # t
    BY <2>2, PlacedStays DEF Moves
  <2> QED
    BY <2>1, <2>2
<1>2. ASSUME NEW q \in Runs PROVE Served(q)'
  BY ServedStays
<1> QED
  BY <1>1, <1>2 DEF Sound, RefInv

LEMMA SoundAfterTool ==
  ASSUME Sound, Kept, TypeInv', NEW r \in Runs, turn' = turn, session' = session, Served(r)',
         \A q \in Runs \ {r} : tool'[q] = tool[q] /\ request'[q] = request[q] /\ result'[q] = result[q]
  PROVE  Sound'
<1>1. ASSUME NEW u \in Turns PROVE Placed(u)'
  BY PlacedStays
<1>2. ASSUME NEW q \in Runs PROVE Served(q)'
  <2>1. CASE q = r
    BY <2>1
  <2>2. CASE q # r
    BY <2>2, ServedStays DEF ToolAlike
  <2> QED
    BY <2>1, <2>2
<1> QED
  BY <1>1, <1>2, RoomsStay DEF Sound, RefInv

\* How Placed reads after a step of t, in what the step leaves of it.
LEMMA PlacedMoved ==
  ASSUME Sound, Kept, NEW t \in Turns, NEW k, turn'[t].reply.ticket = k, k \in DOMAIN ticket' \cup {0},
         turn'[t].pc = "cancel" => k # 0,
         turn[t].pc # "absent",
         turn'[t].pc \notin {"absent", "new", "insert"} => turn'[t].session \in DOMAIN session',
         turn'[t].attempt \in 1..(Attempts + 1),
         turn'[t].pc \in Trying => turn'[t].attempt =< Attempts,
         turn'[t].allowed \subseteq DOMAIN ticket'
  PROVE  Placed(t)'
<1>1. scene' = scene /\ says[t] \in Messages
  BY DEF Sound, RefInv, Kept, Placed
<1> QED
  BY <1>1 DEF Placed, Known, says, Attempts

LEMMA PlacedFacts ==
  ASSUME Sound, NEW t \in Turns
  PROVE  /\ turn[t].pc \notin {"absent", "new", "insert"} => turn[t].session \in DOMAIN session
         /\ turn[t].attempt \in 1..(Attempts + 1) /\ Attempts \in Nat /\ turn[t].attempt \in Nat
         /\ turn[t].pc \in Trying => turn[t].attempt =< Attempts
         /\ turn[t].allowed \subseteq DOMAIN ticket
         /\ turn[t].reply.ticket \in DOMAIN ticket \cup {0}
<1>1. Placed(t)
  BY DEF Sound, RefInv
<1>2. Attempts \in Nat
  BY SceneFacts DEF Sound
<1> QED
  BY <1>1, <1>2 DEF Placed, Known

LEMMA OpenIsSound ==
  ASSUME Sound, NEW t \in Turns, Open(t)
  PROVE  Sound' /\ Kept
<1>0. /\ TypeInv
      /\ turn[t].pc \notin {"absent", "new", "insert"} => turn[t].session \in DOMAIN session
      /\ turn[t].attempt \in 1..(Attempts + 1) /\ turn[t].allowed \subseteq DOMAIN ticket
      /\ turn[t].pc \in Trying => turn[t].attempt =< Attempts
      /\ turn[t].reply.ticket \in DOMAIN ticket \cup {0}
  BY PlacedFacts DEF Sound
<1>1. CASE FindSession(t)
  <2>1. UNCHANGED <<scene, session, current, ticket, tool, request, result, declined, faults>>
    BY <1>1 DEF FindSession, rows
  <2>2. /\ Moves(t) /\ turn[t].pc = "new" /\ turn'[t].session = current
        /\ turn'[t].pc = "insert" \/ (turn'[t].pc = "record" /\ current \in DOMAIN session)
        /\ turn'[t].attempt = turn[t].attempt
        /\ turn'[t].allowed = turn[t].allowed /\ turn'[t].reply = turn[t].reply
    BY <1>1, FindDoes
  <2>3. TypeInv'
    BY <1>0, <2>1, <2>2 DEF TypeInv, Moves
  <2>4. Kept
    BY <2>1, <2>2, MovedTurn, SameRows, SameRooms DEF Kept, Started
  <2>5. Placed(t)'
    BY <1>0, <2>1, <2>2, <2>4, PlacedMoved DEF Trying
  <2> QED
    BY <2>1, <2>2, <2>3, <2>4, <2>5, SoundAfterTurn, RoomsStay DEF ToolAlike
<1>2. CASE InsertSession(t)
  <2>1. UNCHANGED <<scene, ticket, tool, request, result, declined, faults>>
    BY <1>2 DEF InsertSession
  <2>2. /\ Moves(t) /\ turn[t].pc = "insert" /\ turn'[t].pc = "record"
        /\ session' \in Seq(Rooms) /\ current' \in 0..Len(session')
        /\ DOMAIN session' = DOMAIN session \cup {current'} /\ turn'[t].session = current'
        /\ current' \notin DOMAIN session /\ session'[current'].tickets = {}
        /\ \A s \in DOMAIN session : session'[s] = session[s]
        /\ turn'[t].attempt = turn[t].attempt
        /\ turn'[t].allowed = turn[t].allowed /\ turn'[t].reply = turn[t].reply
    BY <1>2, InsertDoes
  <2>3. TypeInv'
    BY <1>0, <2>1, <2>2 DEF TypeInv, Moves
  <2>4. RoomsKept
    BY <2>2 DEF RoomsKept
  <2>5. Kept
    BY <2>1, <2>2, <2>4, MovedTurn, SameRows DEF Kept, Started
  <2>6. Placed(t)'
    BY <1>0, <2>1, <2>2, <2>5, PlacedMoved DEF Trying
  <2>7. \A s \in DOMAIN session' : session'[s].tickets \subseteq DOMAIN ticket'
    BY <2>1, <2>2 DEF Sound, RefInv
  <2> QED
    BY <2>1, <2>2, <2>3, <2>5, <2>6, <2>7, SoundAfterTurn DEF ToolAlike
<1>3. CASE RecordUser(t)
  <2>1. UNCHANGED <<scene, ticket, tool, request, result, declined, faults>>
    BY <1>3 DEF RecordUser
  <2>2. /\ Moves(t) /\ Keeps(t) /\ turn[t].pc = "record" /\ turn'[t].pc = "context"
        /\ session' \in Seq(Rooms) /\ DOMAIN session' = DOMAIN session /\ current' \in 0..Len(session')
        /\ \A s \in DOMAIN session :
             session'[s].tickets = session[s].tickets /\ session[s].messages \subseteq session'[s].messages
        /\ turn'[t].attempt = turn[t].attempt /\ turn'[t].reply = turn[t].reply
    BY <1>3, RecordUserDoes
  <2>3. TypeInv'
    BY <1>0, <2>1, <2>2 DEF TypeInv, Moves
  <2>4. RoomsKept
    BY <2>2 DEF RoomsKept
  <2>5. Kept
    BY <2>1, <2>2, <2>4, MovedTurn, SameRows DEF Kept, Started
  <2>6. Placed(t)'
    BY <1>0, <2>1, <2>2, <2>5, PlacedMoved DEF Keeps, Trying
  <2>7. \A s \in DOMAIN session' : session'[s].tickets \subseteq DOMAIN ticket'
    BY <2>1, <2>2 DEF Sound, RefInv
  <2> QED
    BY <2>1, <2>2, <2>3, <2>5, <2>6, <2>7, SoundAfterTurn DEF ToolAlike
<1>4. CASE ReadContext(t)
  <2>1. UNCHANGED <<scene, session, current, ticket, tool, request, result, declined, faults>>
    BY <1>4 DEF ReadContext, rows
  <2>2. /\ Moves(t) /\ turn[t].pc = "context" /\ turn'[t].pc = "harness"
        /\ turn[t].session \in DOMAIN session /\ turn'[t].session = turn[t].session
        /\ turn'[t].allowed = session[turn[t].session].tickets
        /\ turn'[t].attempt = turn[t].attempt /\ turn'[t].reply = turn[t].reply
    BY <1>4, ReadContextDoes
  <2>3. TypeInv'
    BY <1>0, <2>1, <2>2 DEF TypeInv, Moves
  <2>4. Kept
    BY <2>1, <2>2, MovedTurn, SameRows, SameRooms DEF Kept, Started
  <2>5. turn'[t].allowed \subseteq DOMAIN ticket'
    BY <2>1, <2>2 DEF Sound, RefInv
  <2>6. turn'[t].attempt =< Attempts
    BY <1>0, <2>2 DEF Trying
  <2>7. Placed(t)'
    BY <1>0, <2>1, <2>2, <2>4, <2>5, <2>6, PlacedMoved DEF Trying
  <2> QED
    BY <2>1, <2>2, <2>3, <2>4, <2>7, SoundAfterTurn, RoomsStay DEF ToolAlike
<1> QED
  BY <1>1, <1>2, <1>3, <1>4 DEF Open

\* A step of a started turn that touches neither sessions nor the tool's side.
LEMMA TurnStepIsSound ==
  ASSUME Sound, NEW t \in Turns, Moves(t), Keeps(t), RowsKept, scene' = scene, Started(t),
         turn'[t].pc \notin {"absent", "new", "insert", "record", "context"},
         UNCHANGED <<session, current, request, result, declined, faults>>,
         ticket' \in Seq(Row), tool' \in [Runs -> Tools],
         \A q \in Runs : ToolAlike(q),
         turn'[t].reply.ticket \in DOMAIN ticket' \cup {0},
         turn'[t].pc = "cancel" => turn'[t].reply.ticket # 0,
         turn'[t].attempt \in 1..(Attempts + 1),
         turn'[t].pc \in Trying => turn'[t].attempt =< Attempts
  PROVE  Sound' /\ Kept
<1>1. Kept
  BY MovedTurn, SameRooms DEF Kept, Started
<1>2. TypeInv'
  BY DEF Sound, TypeInv, Moves
<1>3. turn[t].session \in DOMAIN session /\ turn[t].allowed \subseteq DOMAIN ticket'
  BY PlacedFacts DEF Started, RowsKept
<1>4. PICK k : k = turn'[t].reply.ticket
  OBVIOUS
<1>5. Placed(t)'
  BY <1>1, <1>3, <1>4, PlacedMoved DEF Keeps, Started
<1> QED
  BY <1>1, <1>2, <1>5, SoundAfterTurn, RoomsStay DEF ToolAlike

LEMMA ResultTicket ==
  ASSUME Sound, NEW r \in Runs, NEW res \in {result[r].shown, result[r].action}
  PROVE  res.ticket \in DOMAIN ticket \cup {0}
  BY DEF Sound, RefInv, Served, Known

LEMMA EndIsSound ==
  ASSUME Sound, NEW t \in Turns, HarnessEnds(t) \/ TimesOut(t) \/ Killed(t)
  PROVE  Sound' /\ Kept
<1>0. /\ ticket \in Seq(Row) /\ tool \in [Runs -> Tools]
      /\ turn[t].attempt \in 1..(Attempts + 1) /\ (turn[t].pc \in Trying => turn[t].attempt =< Attempts)
      /\ turn[t].reply.ticket \in DOMAIN ticket \cup {0}
  BY PlacedFacts DEF Sound, TypeInv
<1>1. CASE HarnessEnds(t)
  <2>1. UNCHANGED <<scene, session, current, ticket, tool, request, result, declined, faults>>
    BY <1>1 DEF HarnessEnds, rows
  <2>2. PICK r \in Runs : \E res \in {result[r].shown, result[r].action} :
           /\ turn[t].pc = "harness" /\ Moves(t) /\ Keeps(t) /\ turn'[t].attempt = turn[t].attempt
           /\ turn'[t].pc \in {"reply", "recoverUpdate"} /\ turn'[t].reply \in {res, NoResult}
    BY <1>1, HarnessEndsDoes
  <2>3. PICK res \in {result[r].shown, result[r].action} :
           /\ turn[t].pc = "harness" /\ Moves(t) /\ Keeps(t) /\ turn'[t].attempt = turn[t].attempt
           /\ turn'[t].pc \in {"reply", "recoverUpdate"} /\ turn'[t].reply \in {res, NoResult}
    BY <2>2
  <2>4. res.ticket \in DOMAIN ticket \cup {0} /\ NoResult.ticket = 0
    BY ResultTicket, NoResultFacts
  <2>5. turn'[t].reply.ticket \in DOMAIN ticket' \cup {0}
    BY <2>1, <2>3, <2>4
  <2> QED
    BY <1>0, <2>1, <2>3, <2>5, SameRows, TurnStepIsSound DEF Started, Trying, ToolAlike
<1>2. CASE TimesOut(t)
  <2>1. UNCHANGED <<scene, session, current, ticket, tool, request, result, declined, faults>>
    BY <1>2 DEF TimesOut, rows
  <2>2. PICK r \in Runs :
           /\ turn[t].pc = "harness" /\ turn'[t].pc = "killing"
           /\ turn'[t].reply \in {result[r].shown, result[r].action}
           /\ Moves(t) /\ Keeps(t) /\ turn'[t].attempt = turn[t].attempt
    BY <1>2, TimesOutDoes
  <2>3. turn'[t].reply.ticket \in DOMAIN ticket' \cup {0}
    BY <2>1, <2>2, ResultTicket
  <2> QED
    BY <1>0, <2>1, <2>2, <2>3, SameRows, TurnStepIsSound DEF Started, Trying, ToolAlike
<1>3. CASE Killed(t)
  <2>1. UNCHANGED <<scene, session, current, ticket, request, result, declined, faults>>
    BY <1>3 DEF Killed, rows
  <2>2. /\ Moves(t) /\ Keeps(t) /\ turn'[t].attempt = turn[t].attempt /\ turn[t].pc = "killing"
        /\ turn'[t].pc \in {"reply", "recoverUpdate"} /\ turn'[t].reply \in {turn[t].reply, NoResult}
        /\ tool' \in [Runs -> Tools]
        /\ \A q \in Runs : ToolAlike(q)
    BY <1>3, KilledDoes
  <2>3. turn'[t].reply.ticket \in DOMAIN ticket' \cup {0}
    BY <1>0, <2>1, <2>2, NoResultFacts
  <2> QED
    BY <1>0, <2>1, <2>2, <2>3, SameRows, TurnStepIsSound DEF Started, Trying
<1> QED
  BY <1>1, <1>2, <1>3

LEMMA CloseIsSound ==
  ASSUME Sound, NEW t \in Turns,
         RecoverUpdate(t) \/ RecoverTicket(t) \/ Fallback(t) \/ FallbackCancel(t) \/ RecordReply(t)
  PROVE  Sound' /\ Kept
<1>0. /\ ticket \in Seq(Row) /\ tool \in [Runs -> Tools] /\ TypeInv
      /\ turn[t].attempt \in 1..(Attempts + 1) /\ Attempts \in Nat /\ turn[t].attempt \in Nat
      /\ turn[t].reply.ticket \in DOMAIN ticket \cup {0}
      /\ \A k \in DOMAIN ticket : k \in Nat /\ k # 0
      /\ \A k, mode : Result(mode, k).ticket = k
  BY PlacedFacts, RowsAreFinite DEF Sound, TypeInv, Result
<1>1. CASE RecoverUpdate(t)
  <2>1. UNCHANGED <<scene, session, current, ticket, tool, request, result, declined, faults>>
    BY <1>1 DEF RecoverUpdate, rows
  <2>2. /\ Moves(t) /\ Keeps(t) /\ turn'[t].attempt = turn[t].attempt /\ turn[t].pc = "recoverUpdate"
        /\ turn'[t].pc \in {"reply", "recoverTicket"}
        /\ (turn'[t].reply = turn[t].reply) \/ (\E k \in DOMAIN ticket : turn'[t].reply = Result("update", k))
    BY <1>1, RecoverUpdateDoes
  <2>3. turn'[t].reply.ticket \in DOMAIN ticket' \cup {0}
    BY <1>0, <2>1, <2>2
  <2> QED
    BY <1>0, <2>1, <2>2, <2>3, SameRows, TurnStepIsSound DEF Started, Trying, ToolAlike
<1>2. CASE RecoverTicket(t)
  <2>1. UNCHANGED <<scene, session, current, ticket, tool, request, result, declined, faults>>
    BY <1>2 DEF RecoverTicket, rows
  <2>2. /\ Moves(t) /\ Keeps(t) /\ turn[t].pc = "recoverTicket"
        /\ (turn'[t].reply = turn[t].reply) \/ (turn'[t].reply.ticket \in DOMAIN ticket)
        /\ \/ turn'[t].pc \in {"reply", "fallback"} /\ turn'[t].attempt = turn[t].attempt
           \/ turn[t].attempt < Attempts /\ turn'[t].pc = "harness" /\ turn'[t].attempt = turn[t].attempt + 1
           \/ turn[t].attempt = Attempts /\ turn'[t].pc = "recoverUpdate" /\ turn'[t].attempt = turn[t].attempt + 1
    BY <1>2, RecoverTicketDoes
  <2>3. turn'[t].reply.ticket \in DOMAIN ticket' \cup {0}
    BY <1>0, <2>1, <2>2
  <2>4. turn'[t].attempt \in 1..(Attempts + 1) /\ (turn'[t].pc \in Trying => turn'[t].attempt =< Attempts)
    BY <1>0, <2>2 DEF Trying
  <2>5. turn'[t].pc \notin {"absent", "new", "insert", "record", "context", "cancel"} /\ Started(t)
    BY <2>2 DEF Started
  <2> QED
    BY <1>0, <2>1, <2>2, <2>3, <2>4, <2>5, SameRows, TurnStepIsSound DEF ToolAlike
<1>3. CASE Fallback(t)
  <2>1. UNCHANGED <<scene, session, current, tool, request, result, declined, faults>>
    BY <1>3 DEF Fallback
  <2>2. /\ Moves(t) /\ Keeps(t) /\ turn[t].pc = "fallback" /\ turn'[t].attempt = turn[t].attempt
    BY <1>3, FallbackDoes
  <2>3. CASE \E k \in DOMAIN ticket :
               /\ turn'[t].pc \in {"cancel", "reply"} /\ turn'[t].reply = Result("update", k)
               /\ RowTo(k, [ticket[k] EXCEPT !.responses = ticket[k].responses \cup {says[t]}, !.assigned = TRUE])
    <3>1. PICK k \in DOMAIN ticket :
               /\ turn'[t].pc \in {"cancel", "reply"} /\ turn'[t].reply = Result("update", k)
               /\ RowTo(k, [ticket[k] EXCEPT !.responses = ticket[k].responses \cup {says[t]}, !.assigned = TRUE])
      BY <2>3
    <3>2. ticket' \in Seq(Row) /\ DOMAIN ticket' = DOMAIN ticket /\ RowsKept
      BY <1>0, <3>1, FallbackRow DEF RowStep
    <3>3. turn'[t].reply.ticket = k /\ k # 0
      BY <1>0, <3>1
    <3> QED
      BY <1>0, <2>1, <2>2, <3>1, <3>2, <3>3, TurnStepIsSound DEF Started, Trying, ToolAlike
  <2>4. CASE turn'[t].pc = "reply" /\ turn'[t].reply = Result("general", 0) /\ ticket' = ticket
    <3>1. turn'[t].reply.ticket = 0
      BY <1>0, <2>4
    <3> QED
      BY <1>0, <2>1, <2>2, <2>4, <3>1, SameRows, TurnStepIsSound DEF Started, Trying, ToolAlike
  <2> QED
    BY <1>3, <2>3, <2>4, FallbackDoes
<1>4. CASE FallbackCancel(t)
  <2>1. UNCHANGED <<scene, session, current, tool, request, result, declined, faults>>
    BY <1>4 DEF FallbackCancel
  <2>2. /\ Moves(t) /\ Keeps(t) /\ turn[t].pc = "cancel" /\ turn'[t].pc = "reply"
        /\ turn'[t].attempt = turn[t].attempt /\ turn'[t].reply = turn[t].reply
        /\ StatusTo(turn[t].reply.ticket, "cancelled")
    BY <1>4, FallbackCancelDoes DEF StatusTo
  <2>3. ticket' \in Seq(Row) /\ DOMAIN ticket' = DOMAIN ticket /\ RowsKept
    BY <1>0, <2>2, StatusRow DEF RowStep
  <2> QED
    BY <1>0, <2>1, <2>2, <2>3, TurnStepIsSound DEF Started, Trying, ToolAlike
<1>5. CASE RecordReply(t)
  <2>1. UNCHANGED <<scene, ticket, tool, request, result, declined, faults>>
    BY <1>5 DEF RecordReply
  <2>2. /\ Moves(t) /\ Keeps(t) /\ turn[t].pc = "reply" /\ turn'[t].pc = "done"
        /\ turn'[t].attempt = turn[t].attempt /\ turn'[t].reply = turn[t].reply
        /\ session' \in Seq(Rooms) /\ DOMAIN session' = DOMAIN session /\ current' \in 0..Len(session')
        /\ \A s \in DOMAIN session :
             session'[s].tickets \subseteq DOMAIN ticket /\ session'[s].messages = session[s].messages
    BY <1>5, RecordReplyDoes
  <2>3. TypeInv'
    BY <1>0, <2>1, <2>2 DEF TypeInv, Moves
  <2>4. RoomsKept
    BY <2>2 DEF RoomsKept
  <2>5. Kept
    BY <2>1, <2>2, <2>4, MovedTurn, SameRows DEF Kept, Started
  <2>6. /\ turn[t].session \in DOMAIN session /\ turn[t].allowed \subseteq DOMAIN ticket
    BY <2>2, PlacedFacts
  <2>7. Placed(t)'
    BY <1>0, <2>1, <2>2, <2>5, <2>6, PlacedMoved DEF Keeps, Trying
  <2>8. \A s \in DOMAIN session' : session'[s].tickets \subseteq DOMAIN ticket'
    BY <2>1, <2>2
  <2> QED
    BY <2>1, <2>2, <2>3, <2>5, <2>7, <2>8, SoundAfterTurn DEF ToolAlike
<1> QED
  BY <1>1, <1>2, <1>3, <1>4, <1>5

(* The tool's side. *)

\* Only r's requests change, and what the invariant says of them still holds.
RequestsFine(r) ==
  /\ request' \in [Runs -> [Orders -> Requests]] /\ \A q \in Runs \ {r} : request'[q] = request[q]
  /\ \A n \in Orders : Requested(r, n)'

LEMMA RunKept ==
  ASSUME RowsKept, UNCHANGED <<scene, session, turn>>
  PROVE  Kept
  BY SameTurns, SameRooms DEF Kept

LEMMA RequestsStay ==
  ASSUME Sound, NEW r \in Runs, RowsKept, UNCHANGED <<scene, session, turn, request>>
  PROVE  RequestsFine(r)
<1>1. request \in [Runs -> [Orders -> Requests]]
  BY DEF Sound, TypeInv
<1> QED
  BY <1>1, RunKept, RequestStays DEF RequestsFine

LEMMA RequestsMove ==
  ASSUME Sound, NEW r \in Runs, NEW n \in Orders, RowsKept, UNCHANGED <<scene, session, turn>>,
         RequestMoves(r, n), Started(r[1]),
         request'[r][n].pc \in {"scope", "created", "replayed"} => request'[r][n].ticket \in DOMAIN ticket'
  PROVE  RequestsFine(r)
<1>1. Kept
  BY RunKept
<1>2. Started(r[1])'
  BY DEF Started
<1>3. ASSUME NEW m \in Orders PROVE Requested(r, m)'
  <2>1. CASE m = n
    BY <1>2, <2>1 DEF Requested
  <2>2. CASE m # n
    BY <1>1, <2>2, RequestStays DEF RequestMoves
  <2> QED
    BY <2>1, <2>2
<1> QED
  BY <1>3 DEF RequestsFine, RequestMoves

LEMMA RunStepIsSound ==
  ASSUME Sound, NEW r \in Runs, RowsKept, UNCHANGED <<scene, session, current, turn>>,
         ticket' \in Seq(Row), ToolMoves(r), RequestsFine(r), Tooled(r)',
         result' \in [Runs -> Files], \A q \in Runs \ {r} : result'[q] = result[q],
         declined' \in SUBSET Nat, faults' \in Nat,
         result'[r].shown.ticket \in DOMAIN ticket' \cup {0}, result'[r].action.ticket \in DOMAIN ticket' \cup {0}
  PROVE  Sound' /\ Kept
<1>1. Kept
  BY RunKept
<1>2. TypeInv'
  BY DEF Sound, TypeInv, ToolMoves, RequestsFine
<1>3. Served(r)'
  BY DEF Served, Known, RequestsFine
<1> QED
  BY <1>1, <1>2, <1>3, SoundAfterTool DEF ToolMoves, RequestsFine

LEMMA ServedFacts ==
  ASSUME Sound, NEW r \in Runs
  PROVE  /\ tool[r].pc # "idle" => Started(r[1])
         /\ tool[r].pc \notin {"idle", "waiting"} => tool[r].ticket \in DOMAIN ticket
         /\ result[r].shown.ticket \in DOMAIN ticket \cup {0} /\ result[r].action.ticket \in DOMAIN ticket \cup {0}
         /\ ticket \in Seq(Row) /\ result \in [Runs -> Files] /\ declined \in SUBSET Nat /\ faults \in Nat
         /\ tool \in [Runs -> Tools] /\ TypeInv
  BY DEF Sound, TypeInv, RefInv, Served, Tooled, Known

\* How Tooled reads after a step of r: the tool is idle, or on its way with a ticket.
LEMMA ToolIdles == ASSUME NEW r \in Runs, tool'[r].pc = "idle" PROVE Tooled(r)'
  BY DEF Tooled

LEMMA ToolGoesOn ==
  ASSUME NEW r \in Runs, Started(r[1]), turn' = turn, tool'[r].pc # "waiting",
         tool'[r].ticket \in DOMAIN ticket', tool'[r].pc \in {"respond", "status"} => tool'[r].asks # "spawn"
  PROVE  Tooled(r)'
<1>1. Started(r[1])'
  BY DEF Started
<1> QED
  BY <1>1 DEF Tooled

LEMMA ToolStays == ASSUME Sound, NEW r \in Runs, RowsKept, turn' = turn, tool' = tool PROVE ToolMoves(r) /\ Tooled(r)'
<1>1. Tooled(r) /\ tool \in [Runs -> Tools] /\ (Started(r[1]) => Started(r[1])')
  BY DEF Sound, TypeInv, RefInv, Served, Started
<1> QED
  BY <1>1 DEF Tooled, ToolMoves, RowsKept

LEMMA CommandIsSound ==
  ASSUME Sound, NEW r \in Runs, Command(r)
  PROVE  Sound' /\ Kept
<1>1. CASE AnswerCommand(r)
  <2>1. UNCHANGED <<scene, session, current, ticket, turn, request, declined, faults>>
    BY <1>1 DEF AnswerCommand, rows
  <2>2. PICK res \in Outcomes : res.ticket = 0 /\ FilesTake(r, res)
    BY <1>1, AnswerCommandDoes
  <2>3. ToolMoves(r) /\ Tooled(r)'
    BY <1>1, AnswerCommandDoes, ToolIdles
  <2> QED
    BY <2>1, <2>2, <2>3, ServedFacts, SameRows, RequestsStay, RunStepIsSound DEF FilesTake
<1>2. CASE FormCommand(r)
  <2>1. UNCHANGED <<scene, session, current, ticket, turn, request, declined, faults>>
    BY <1>2 DEF FormCommand, rows
  <2>2. PICK res \in Outcomes : res.ticket = 0 /\ FilesTake(r, res)
    BY <1>2, FormCommandDoes
  <2>3. ToolMoves(r) /\ Tooled(r)'
    BY <1>2, FormCommandDoes, ToolIdles
  <2> QED
    BY <2>1, <2>2, <2>3, ServedFacts, SameRows, RequestsStay, RunStepIsSound DEF FilesTake
<1>3. CASE RefuseCreate(r)
  <2>1. UNCHANGED <<scene, session, current, ticket, turn, request, result, declined, faults>>
    BY <1>3 DEF RefuseCreate, rows
  <2>2. ToolMoves(r) /\ Tooled(r)'
    BY <1>3, RefuseCreateDoes, ToolIdles
  <2> QED
    BY <2>1, <2>2, ServedFacts, SameRows, RequestsStay, RunStepIsSound
<1>4. CASE CreateCommand(r)
  <2>1. UNCHANGED <<scene, session, current, ticket, turn, result, declined, faults>>
    BY <1>4 DEF CreateCommand, rows
  <2>2. PICK n \in Orders :
           /\ ToolMoves(r) /\ tool'[r].pc = "waiting" /\ Started(r[1])
           /\ tool'[r].commands = n /\ RequestMoves(r, n) /\ request'[r][n].pc = "lookup"
    BY <1>4, CreateCommandDoes
  <2>3. Tooled(r)'
    BY <2>1, <2>2 DEF Tooled, Started
  <2>4. RequestsFine(r)
    BY <2>1, <2>2, SameRows, RequestsMove
  <2> QED
    BY <2>1, <2>2, <2>3, <2>4, ServedFacts, SameRows, RunStepIsSound
<1>5. CASE ContinueCommand(r)
  <2>1. UNCHANGED <<scene, session, current, ticket, turn, request, result, declined, faults>>
    BY <1>5 DEF ContinueCommand, rows
  <2>2. /\ ToolMoves(r) /\ tool'[r].pc = "respond" /\ Started(r[1])
        /\ tool'[r].ticket \in DOMAIN ticket' /\ tool'[r].asks # "spawn"
    BY <1>5, <2>1, ContinueCommandDoes
  <2>3. Tooled(r)'
    BY <2>1, <2>2, ToolGoesOn
  <2> QED
    BY <2>1, <2>2, <2>3, ServedFacts, SameRows, RequestsStay, RunStepIsSound
<1> QED
  BY <1>1, <1>2, <1>3, <1>4, <1>5 DEF Command

LEMMA ServeIsSound ==
  ASSUME Sound, NEW r \in Runs, NEW n \in Orders, Lookup(r, n) \/ InsertTicket(r, n) \/ WriteScope(r, n)
  PROVE  Sound' /\ Kept
<1>1. CASE Lookup(r, n)
  <2>1. UNCHANGED <<scene, session, current, ticket, turn, tool, result, declined, faults>>
    BY <1>1 DEF Lookup, rows
  <2>2. /\ RequestMoves(r, n) /\ Started(r[1])
        /\ request'[r][n].pc = "insert" \/ (request'[r][n].pc = "replayed" /\ request'[r][n].ticket \in DOMAIN ticket)
    BY <1>1, LookupDoes
  <2>3. RequestsFine(r)
    BY <2>1, <2>2, SameRows, RequestsMove
  <2> QED
    BY <2>1, <2>3, ServedFacts, SameRows, ToolStays, RunStepIsSound
<1>2. CASE InsertTicket(r, n)
  <2>1. UNCHANGED <<scene, session, current, turn, tool, result, declined, faults>>
    BY <1>2 DEF InsertTicket
  <2>2. PICK k \in Nat \ {0} :
           /\ RequestMoves(r, n) /\ Started(r[1])
           /\ request'[r][n].pc = "scope" /\ request'[r][n].ticket = k
           /\ ticket' \in Seq(Row) /\ DOMAIN ticket' = DOMAIN ticket \cup {k} /\ k \notin DOMAIN ticket
           /\ \A j \in DOMAIN ticket : ticket'[j] = ticket[j]
    BY <1>2, InsertTicketDoes
  <2>3. RowsKept
    BY <2>2, NewRow
  <2>4. DOMAIN ticket \subseteq DOMAIN ticket' /\ k \in DOMAIN ticket'
    BY <2>2
  <2>5. RequestsFine(r)
    BY <2>1, <2>2, <2>3, <2>4, RequestsMove
  <2> QED
    BY <2>1, <2>2, <2>3, <2>4, <2>5, ServedFacts, ToolStays, RunStepIsSound
<1>3. CASE WriteScope(r, n)
  <2>1. UNCHANGED <<scene, session, current, turn, tool, result, declined, faults>>
    BY <1>3 DEF WriteScope
  <2>2. /\ RequestMoves(r, n) /\ request[r][n].pc = "scope" /\ Started(r[1])
        /\ request'[r][n].pc = "created" /\ request'[r][n].ticket = request[r][n].ticket
        /\ Scoped(request[r][n].ticket, turn[r[1]].session)
    BY <1>3, WriteScopeDoes
  <2>3. ticket' \in Seq(Row) /\ DOMAIN ticket' = DOMAIN ticket /\ RowsKept
    BY <2>2, ServedFacts, ScopedRow DEF RowStep
  <2>4. request'[r][n].ticket \in DOMAIN ticket'
    BY <2>2, <2>3, RequestTicket
  <2>5. RequestsFine(r)
    BY <2>1, <2>2, <2>3, <2>4, RequestsMove
  <2> QED
    BY <2>1, <2>3, <2>5, ServedFacts, ToolStays, RunStepIsSound
<1> QED
  BY <1>1, <1>2, <1>3

LEMMA ToolStepIsSound ==
  ASSUME Sound, NEW r \in Runs, ToolStep(r)
  PROVE  Sound' /\ Kept
<1>0. ToolPcs = {"idle", "waiting", "first", "assign", "last", "respond", "status", "report"} /\ {"ticket", "update"} \subseteq Modes
  BY DEF ToolPcs, Modes
<1>1. CASE PostNote(r)
  <2>1. UNCHANGED <<scene, session, current, turn, request, result, faults>>
    BY <1>1 DEF PostNote
  <2>2. PICK k : k = Posted(r).ticket
    OBVIOUS
  <2>3. /\ ToolMoves(r) /\ tool'[r].pc = "first" /\ tool'[r].ticket = k /\ k \in DOMAIN ticket
        /\ Started(r[1]) /\ declined' \in SUBSET Nat /\ \E n : NotedAs(k, n)
    BY <1>1, <2>2, PostNoteDoes DEF Declined
  <2>4. ticket' \in Seq(Row) /\ DOMAIN ticket' = DOMAIN ticket /\ RowsKept
    BY <2>3, ServedFacts, NotedRow DEF RowStep
  <2>5. Tooled(r)'
    BY <2>1, <2>3, <2>4, ToolGoesOn
  <2> QED
    BY <2>1, <2>3, <2>4, <2>5, ServedFacts, RequestsStay, RunStepIsSound
<1>2. CASE TakeReplay(r)
  <2>1. UNCHANGED <<scene, session, current, ticket, turn, request, result, faults>>
    BY <1>2 DEF TakeReplay, rows
  <2>2. /\ ToolMoves(r) /\ tool'[r].pc \in {"assign", "last"} /\ tool'[r].ticket \in DOMAIN ticket'
        /\ Started(r[1]) /\ declined' \in SUBSET Nat
    BY <1>2, <2>1, TakeReplayDoes DEF Declined
  <2>3. Tooled(r)'
    BY <2>1, <2>2, ToolGoesOn
  <2> QED
    BY <2>1, <2>2, <2>3, ServedFacts, SameRows, RequestsStay, RunStepIsSound
<1>3. CASE FirstResult(r) \/ LastResult(r) \/ ReportUpdate(r)
  <2>1. UNCHANGED <<scene, session, current, ticket, turn, request, declined, faults>>
    BY <1>3 DEF FirstResult, LastResult, ReportUpdate, rows
  <2>2. PICK mode \in Modes, pc \in {"assign", "last", "idle"} :
           Write(r, Result(mode, tool[r].ticket)) /\ ToolAt(r, pc) /\ tool[r].pc \notin {"idle", "waiting"}
    <3>1. /\ Write(r, Result("ticket", tool[r].ticket)) \/ Write(r, Result("update", tool[r].ticket))
          /\ ToolAt(r, "assign") \/ ToolAt(r, "last") \/ ToolAt(r, "idle")
          /\ tool[r].pc \in {"first", "last", "report"}
      BY <1>3 DEF FirstResult, LastResult, ReportUpdate
    <3> QED
      BY <1>0, <3>1
  <2>3. /\ ToolMoves(r) /\ Hits(r, pc) /\ Started(r[1]) /\ tool[r].ticket \in DOMAIN ticket
        /\ FilesTake(r, Result(mode, tool[r].ticket)) /\ Result(mode, tool[r].ticket).ticket = tool[r].ticket
    BY <1>0, <2>2, ReportDoes
  <2>4. Tooled(r)'
    BY <2>1, <2>2, <2>3, ToolGoesOn DEF Hits
  <2> QED
    BY <2>1, <2>3, <2>4, ServedFacts, SameRows, RequestsStay, RunStepIsSound DEF FilesTake
<1>4. CASE AssignAgent(r)
  <2>1. UNCHANGED <<scene, session, current, turn, request, result, declined, faults>>
    BY <1>4 DEF AssignAgent
  <2>2. ToolMoves(r) /\ tool[r].pc = "assign" /\ Hits(r, "last") /\ Started(r[1]) /\ Assigned(tool[r].ticket)
    BY <1>4, AssignAgentDoes
  <2>3. ticket' \in Seq(Row) /\ DOMAIN ticket' = DOMAIN ticket /\ RowsKept
    BY <2>2, ServedFacts, AssignedRow DEF RowStep
  <2>4. Tooled(r)'
    BY <2>1, <2>2, <2>3, ServedFacts, ToolGoesOn DEF Hits
  <2> QED
    BY <2>1, <2>2, <2>3, <2>4, ServedFacts, RequestsStay, RunStepIsSound
<1>5. CASE Respond(r)
  <2>1. UNCHANGED <<scene, session, current, turn, request, result, declined, faults>>
    BY <1>5 DEF Respond
  <2>2. /\ ToolMoves(r) /\ tool[r].pc = "respond" /\ tool'[r].pc \in {"status", "report"}
        /\ tool'[r].ticket = tool[r].ticket /\ tool'[r].asks = tool[r].asks /\ Started(r[1])
        /\ RespondedTo(tool[r].ticket, says[r[1]])
    BY <1>5, RespondDoes DEF Hits
  <2>3. ticket' \in Seq(Row) /\ DOMAIN ticket' = DOMAIN ticket /\ RowsKept
    BY <2>2, ServedFacts, RespondedRow DEF RowStep
  <2>4. tool[r].asks # "spawn"
    BY <2>2 DEF Sound, RefInv, Served, Tooled
  <2>5. Tooled(r)'
    BY <2>1, <2>2, <2>3, <2>4, ServedFacts, ToolGoesOn
  <2> QED
    BY <2>1, <2>2, <2>3, <2>5, ServedFacts, RequestsStay, RunStepIsSound
<1>6. CASE SetStatus(r)
  <2>1. UNCHANGED <<scene, session, current, turn, request, result, declined, faults>>
    BY <1>6 DEF SetStatus
  <2>2. /\ ToolMoves(r) /\ tool[r].pc = "status" /\ Hits(r, "report") /\ Started(r[1])
        /\ \E status \in Status : StatusTo(tool[r].ticket, status)
    BY <1>6, SetStatusDoes
  <2>3. ticket' \in Seq(Row) /\ DOMAIN ticket' = DOMAIN ticket /\ RowsKept
    BY <2>2, ServedFacts, StatusRow DEF RowStep
  <2>4. Tooled(r)'
    BY <2>1, <2>2, <2>3, ServedFacts, ToolGoesOn DEF Hits
  <2> QED
    BY <2>1, <2>2, <2>3, <2>4, ServedFacts, RequestsStay, RunStepIsSound
<1> QED
  BY <1>1, <1>2, <1>3, <1>4, <1>5, <1>6 DEF ToolStep

\* Whatever the failed request did in the dashboard, rows are kept.
LEMMA FailedRow ==
  ASSUME TypeInv, NEW r \in Runs, ServedAnyway(r)
  PROVE  ticket' \in Seq(Row) /\ DOMAIN ticket' = DOMAIN ticket /\ RowsKept
<1>1. CASE ticket' = ticket
  BY <1>1, SameRows DEF TypeInv
<1>2. CASE \E n : NotedAs(Posted(r).ticket, n)
  BY <1>2, NotedRow DEF RowStep
<1>3. CASE Assigned(tool[r].ticket)
  BY <1>3, AssignedRow DEF RowStep
<1>4. CASE RespondedTo(tool[r].ticket, says[r[1]])
  BY <1>4, RespondedRow DEF RowStep
<1>5. CASE \E status \in Status : StatusTo(tool[r].ticket, status)
  BY <1>5, StatusRow DEF RowStep
<1> QED
  BY <1>1, <1>2, <1>3, <1>4, <1>5 DEF ServedAnyway

LEMMA FailsIsSound ==
  ASSUME Sound, NEW r \in Runs, ToolFails(r)
  PROVE  Sound' /\ Kept
<1>1. UNCHANGED <<scene, session, current, turn, request, result, declined>>
  BY DEF ToolFails
<1>2. ToolMoves(r) /\ Hits(r, "idle") /\ faults' = faults + 1 /\ ServedAnyway(r)
  BY ToolFailsDoes
<1>3. TypeInv /\ faults' \in Nat
  BY <1>2 DEF Sound, TypeInv
<1>4. ticket' \in Seq(Row) /\ DOMAIN ticket' = DOMAIN ticket /\ RowsKept
  BY <1>2, <1>3, FailedRow
<1>5. Tooled(r)'
  BY <1>2, ToolIdles DEF Hits
<1> QED
  BY <1>1, <1>2, <1>3, <1>4, <1>5, ServedFacts, RequestsStay, RunStepIsSound

LEMMA SoundStarts == Init => Sound
<1> SUFFICES ASSUME Init PROVE Sound
  OBVIOUS
<1>1. /\ scene \in Scenes /\ scene.before \in Seq(Row) /\ Attempts \in 1..MaxAttempts /\ MaxAttempts \in Nat
      /\ says \in [Turns -> Messages \cup {Silence}]
  BY TurnAssumption DEF Init, says, Attempts
<1>2. /\ ticket = scene.before /\ current = Len(session)
      /\ session = IF ticket = <<>> THEN <<>>
                   ELSE <<[tickets |-> DOMAIN ticket, messages |-> {ticket[k].text : k \in DOMAIN ticket}]>>
      /\ declined = {} /\ faults = 0
  BY DEF Init
<1>3. ticket \in Seq(Row) /\ \A k \in DOMAIN ticket : ticket[k] \in Row /\ ticket[k].text \in Messages /\ k \in Nat
  <2>1. ticket \in Seq(Row)
    BY <1>1, <1>2
  <2>2. \A k \in DOMAIN ticket : ticket[k] \in Row /\ k \in Nat
    BY <2>1
  <2> QED
    BY <2>1, <2>2 DEF Row
<1>4. session \in Seq(Rooms) /\ \A s \in DOMAIN session : session[s].tickets \subseteq DOMAIN ticket
  <2>1. CASE ticket = <<>>
    BY <1>2, <2>1
  <2>2. CASE ticket # <<>>
    <3> DEFINE room == [tickets |-> DOMAIN ticket, messages |-> {ticket[k].text : k \in DOMAIN ticket}]
    <3>1. room \in Rooms /\ room.tickets = DOMAIN ticket
      BY <1>3 DEF Rooms
    <3> HIDE DEF room
    <3>2. session = <<room>>
      BY <1>2, <2>2 DEF room
    <3> QED
      BY <3>1, <3>2
  <2> QED
    BY <2>1, <2>2
<1>5. current \in 0..Len(session)
  BY <1>2, <1>4
<1>6. /\ \A t \in Turns : (IF says[t] = Silence THEN "absent" ELSE "new") \in Pcs
      /\ turn = [t \in Turns |-> [pc |-> IF says[t] = Silence THEN "absent" ELSE "new", session |-> 0,
                                  attempt |-> 1, history |-> {}, allowed |-> {}, reply |-> NoResult]]
  BY DEF Init, Pcs
<1>7. turn \in [Turns -> Coroutines]
  BY <1>6, NoResultFacts DEF Coroutines
<1>8. tool \in [Runs -> Tools]
  BY DEF Init, Tools, ToolPcs, Asks
<1>9. request \in [Runs -> [Orders -> Requests]]
  BY DEF Init, Requests, RequestPcs
<1>10. result \in [Runs -> Files]
  BY NoResultFacts DEF Init, Files
<1>11. TypeInv
  BY <1>1, <1>2, <1>3, <1>4, <1>5, <1>7, <1>8, <1>9, <1>10 DEF TypeInv
<1>12. ASSUME NEW t \in Turns PROVE Placed(t)
  <2>1. /\ turn[t].pc = IF says[t] = Silence THEN "absent" ELSE "new"
        /\ turn[t].attempt = 1 /\ turn[t].allowed = {} /\ turn[t].reply.ticket = 0
    BY <1>6, NoResultFacts
  <2>2. turn[t].pc \in {"absent", "new"} /\ (turn[t].pc # "absent" => says[t] \in Messages)
    BY <1>1, <2>1
  <2> QED
    BY <1>1, <2>1, <2>2 DEF Placed, Known
<1>13. ASSUME NEW r \in Runs PROVE Served(r)
  BY NoResultFacts DEF Served, Tooled, Requested, Known, Init
<1> QED
  BY <1>4, <1>11, <1>12, <1>13 DEF Sound, RefInv

\* One step: a turn's or a run's.
LEMMA SoundStep == Sound /\ [Next]_vars => Sound' /\ Kept
<1> SUFFICES ASSUME Sound, [Next]_vars PROVE Sound' /\ Kept
  OBVIOUS
<1>1. ASSUME NEW t \in Turns, Open(t) \/ HarnessEnds(t) \/ TimesOut(t) \/ Close(t) PROVE Sound' /\ Kept
  BY <1>1, OpenIsSound, EndIsSound, CloseIsSound DEF Close
<1>2. ASSUME NEW r \in Runs, Command(r) \/ Serve(r) \/ ToolStep(r) \/ ToolFails(r) PROVE Sound' /\ Kept
  BY <1>2, CommandIsSound, ServeIsSound, ToolStepIsSound, FailsIsSound DEF Serve
<1>3. CASE UNCHANGED vars
  <2>1. /\ scene' = scene /\ session' = session /\ current' = current /\ ticket' = ticket /\ turn' = turn
        /\ tool' = tool /\ request' = request /\ result' = result /\ declined' = declined /\ faults' = faults
    BY <1>3 DEF vars, rows
  <2>2. Kept
    BY <2>1, SameRows, SameRooms, SameTurns DEF Kept
  <2>3. TypeInv'
    BY <2>1 DEF Sound, TypeInv
  <2>4. /\ \A u \in Turns : Placed(u)'
        /\ \A q \in Runs : Served(q)'
    BY <2>1, <2>2, PlacedStays, ServedStays DEF ToolAlike
  <2> QED
    BY <2>1, <2>2, <2>3, <2>4, RoomsStay DEF Sound, RefInv
<1> QED
  BY <1>1, <1>2, <1>3 DEF Next

\* Rows, rooms, turns, tools, requests and result files stay in their domains.
THEOREM TypesKept == Spec => []TypeInv
<1>1. Init => Sound
  BY SoundStarts
<1>2. Sound /\ [Next]_vars => Sound'
  BY SoundStep
<1>3. Sound => TypeInv
  BY DEF Sound
<1> QED
  BY <1>1, <1>2, <1>3, PTL DEF Spec
-----------------------------------------------------------------------------
(* A turn that gives up leaves no ticket that its harness opened in time.  *)

\* The message is in what the turn has read, and it has no result once the attempts are over.
SearchTurn(t) ==
  /\ turn[t].pc = "context" => says[t] \in session[turn[t].session].messages
  /\ Started(t) => says[t] \in turn[t].history
  /\ turn[t].pc = "recoverTicket" => turn[t].reply = NoResult
  /\ turn[t].pc = "recoverUpdate" /\ turn[t].attempt > Attempts => turn[t].reply = NoResult
\* A ticket holds the message it was opened for, that of the run which has opened it.
SearchRequest(r, n) == request[r][n].pc \in {"scope", "created"} => ticket[request[r][n].ticket].by = r
SearchRun(r) == \A n \in Orders : SearchRequest(r, n)
SearchRow(k) ==
  /\ ticket[k].text \in ticket[k].described
  /\ ticket[k].by \in Runs => ticket[k].text = says[ticket[k].by[1]]

GaveUp(t) ==
  \/ turn[t].pc = "fallback"
  \/ turn[t].pc \in {"cancel", "reply", "done"} /\ turn[t].attempt > Attempts /\ turn[t].reply.mode = "general"
Unnoticed(rs, t) == \A k \in DOMAIN rs : rs[k].by[1] = t => rs[k].noted # "yes"
Missed(t) == GaveUp(t) /\ ~UpdateLike(says[t]) => Unnoticed(ticket, t)

SearchInv ==
  /\ \A t \in Turns : SearchTurn(t) /\ Missed(t)
  /\ \A r \in Runs : SearchRun(r)
  /\ \A k \in DOMAIN ticket : SearchRow(k)

LEMMA SameSays == ASSUME Kept PROVE says' = says /\ Attempts' = Attempts /\ RowsKept
  BY DEF Kept, says, Attempts

LEMMA SearchRowsStay ==
  ASSUME SearchInv, Kept, \A k \in DOMAIN ticket' \ DOMAIN ticket : SearchRow(k)'
  PROVE  \A k \in DOMAIN ticket' : SearchRow(k)'
<1> SUFFICES ASSUME NEW k \in DOMAIN ticket PROVE SearchRow(k)'
  OBVIOUS
<1>1. SearchRow(k) /\ says' = says /\ RowsKept
  BY SameSays DEF SearchInv
<1> QED
  BY <1>1 DEF SearchRow, RowsKept

LEMMA SearchRequestStays ==
  ASSUME SearchInv, Sound, Kept, NEW q \in Runs, NEW n \in Orders, request'[q][n] = request[q][n]
  PROVE  SearchRequest(q, n)'
<1> SUFFICES ASSUME request[q][n].pc \in {"scope", "created"} PROVE ticket'[request[q][n].ticket].by = q
  BY DEF SearchRequest
<1>1. ticket[request[q][n].ticket].by = q /\ request[q][n].ticket \in DOMAIN ticket
  BY RequestTicket DEF SearchInv, SearchRun, SearchRequest
<1> QED
  BY <1>1, SameSays DEF RowsKept

LEMMA SearchRunStays ==
  ASSUME SearchInv, Sound, Kept, NEW q \in Runs, request'[q] = request[q]
  PROVE  SearchRun(q)'
  BY SearchRequestStays DEF SearchRun

LEMMA SearchRunMoves ==
  ASSUME SearchInv, Sound, Kept, NEW r \in Runs, NEW n \in Orders, RequestMoves(r, n), SearchRequest(r, n)'
  PROVE  SearchRun(r)'
<1> SUFFICES ASSUME NEW m \in Orders PROVE SearchRequest(r, m)'
  BY DEF SearchRun
<1>1. CASE m = n
  BY <1>1
<1>2. CASE m # n
  BY <1>2, SearchRequestStays DEF RequestMoves
<1> QED
  BY <1>1, <1>2

LEMMA SearchTurnStays ==
  ASSUME SearchInv, Sound, Kept, NEW u \in Turns, turn'[u] = turn[u]
  PROVE  SearchTurn(u)'
<1>1. /\ SearchTurn(u) /\ says' = says /\ Attempts' = Attempts /\ RoomsKept
      /\ turn[u].pc = "context" => turn[u].session \in DOMAIN session
  BY SameSays, PlacedFacts DEF SearchInv, Kept
<1>2. turn[u].pc = "context" => says[u] \in session'[turn[u].session].messages
  BY <1>1 DEF SearchTurn, RoomsKept
<1> QED
  BY <1>1, <1>2 DEF SearchTurn, Started

\* A note in time is of a run whose turn has not given up.
LEMMA MissedStays ==
  ASSUME SearchInv, Kept, NEW u \in Turns, turn'[u] = turn[u],
         \A k \in DOMAIN ticket' : ticket'[k].noted = "yes" /\ ticket'[k].by[1] = u =>
           (k \in DOMAIN ticket /\ ticket[k].noted = "yes") \/ turn[u].pc = "harness"
  PROVE  Missed(u)'
<1>1. Missed(u) /\ says' = says /\ Attempts' = Attempts /\ RowsKept
  BY SameSays DEF SearchInv
<1> SUFFICES ASSUME GaveUp(u), ~UpdateLike(says[u]) PROVE Unnoticed(ticket', u)
  BY <1>1 DEF Missed, GaveUp, UpdateLike
<1>2. Unnoticed(ticket, u) /\ turn[u].pc # "harness"
  BY <1>1 DEF Missed, GaveUp
<1> QED
  BY <1>1, <1>2 DEF Unnoticed, RowsKept

LEMMA SearchAfterTurn ==
  ASSUME SearchInv, Sound, Kept, NEW t \in Turns, Moves(t), request' = request, SearchTurn(t)', Missed(t)',
         DOMAIN ticket' = DOMAIN ticket, \A k \in DOMAIN ticket : ticket'[k].noted = ticket[k].noted
  PROVE  SearchInv'
<1>1. ASSUME NEW u \in Turns PROVE SearchTurn(u)' /\ Missed(u)'
  <2>1. CASE u = t
    BY <2>1
  <2>2. CASE u # t
    BY <2>2, SearchTurnStays, MissedStays DEF Moves
  <2> QED
    BY <2>1, <2>2
<1>2. \A q \in Runs : SearchRun(q)'
  BY SearchRunStays
<1>3. \A k \in DOMAIN ticket' : SearchRow(k)'
  BY SearchRowsStay
<1> QED
  BY <1>1, <1>2, <1>3 DEF SearchInv

LEMMA SearchAfterRun ==
  ASSUME SearchInv, Sound, Kept, NEW r \in Runs, turn' = turn, SearchRun(r)',
         \A q \in Runs \ {r} : request'[q] = request[q],
         \A k \in DOMAIN ticket' \ DOMAIN ticket : SearchRow(k)',
         \A k \in DOMAIN ticket' : ticket'[k].noted = "yes" =>
           (k \in DOMAIN ticket /\ ticket[k].noted = "yes") \/ (ticket'[k].by = r /\ InTime(r))
  PROVE  SearchInv'
<1>1. ASSUME NEW u \in Turns PROVE SearchTurn(u)' /\ Missed(u)'
  <2>1. SearchTurn(u)'
    BY SearchTurnStays
  <2>2. \A k \in DOMAIN ticket' : ticket'[k].noted = "yes" /\ ticket'[k].by[1] = u =>
           (k \in DOMAIN ticket /\ ticket[k].noted = "yes") \/ turn[u].pc = "harness"
    BY DEF InTime
  <2> QED
    BY <2>1, <2>2, MissedStays
<1>2. ASSUME NEW q \in Runs PROVE SearchRun(q)'
  <2>1. CASE q = r
    BY <2>1
  <2>2. CASE q # r
    BY <2>2, SearchRunStays
  <2> QED
    BY <2>1, <2>2
<1>3. \A k \in DOMAIN ticket' : SearchRow(k)'
  BY SearchRowsStay
<1> QED
  BY <1>1, <1>2, <1>3 DEF SearchInv

\* A turn that has started, and what it has to show for it after a step.
LEMMA SearchMoved ==
  ASSUME SearchInv, Kept, NEW t \in Turns, Started(t), turn'[t].pc # "context",
         turn'[t].pc = "recoverTicket" => turn'[t].reply = NoResult,
         turn'[t].pc = "recoverUpdate" /\ turn'[t].attempt > Attempts => turn'[t].reply = NoResult
  PROVE  SearchTurn(t)'
<1>1. says[t] \in turn[t].history /\ says' = says /\ Attempts' = Attempts /\ Keeps(t)
  BY SameSays DEF SearchInv, SearchTurn, Kept, TurnsKept
<1> QED
  BY <1>1 DEF SearchTurn, Keeps

\* It has not given up.
LEMMA NotMissed ==
  ASSUME Kept, NEW t \in Turns, turn'[t].pc # "fallback",
         \/ turn'[t].pc \notin {"cancel", "reply", "done"}
         \/ ~(turn'[t].attempt > Attempts)
         \/ turn'[t].reply.mode # "general"
  PROVE  Missed(t)'
<1>1. Attempts' = Attempts
  BY SameSays
<1> QED
  BY <1>1 DEF Missed, GaveUp

LEMMA MissedOn ==
  ASSUME SearchInv, Kept, NEW t \in Turns, turn[t].pc \in {"fallback", "cancel", "reply"},
         turn'[t].pc \in {"cancel", "reply", "done"},
         turn'[t].attempt = turn[t].attempt,
         turn[t].pc = "fallback" \/ turn'[t].reply = turn[t].reply,
         DOMAIN ticket' = DOMAIN ticket, \A k \in DOMAIN ticket : ticket'[k].noted = ticket[k].noted
  PROVE  Missed(t)'
<1>1. Missed(t) /\ says' = says /\ Attempts' = Attempts /\ RowsKept
  BY SameSays DEF SearchInv
<1> SUFFICES ASSUME GaveUp(t)', ~UpdateLike(says[t]) PROVE Unnoticed(ticket', t)
  BY <1>1 DEF Missed, UpdateLike
<1>2. GaveUp(t)
  BY <1>1 DEF GaveUp
<1>3. Unnoticed(ticket, t)
  BY <1>1, <1>2 DEF Missed
<1> QED
  BY <1>1, <1>3 DEF Unnoticed, RowsKept

LEMMA ResultModes == \A mode, k : Result(mode, k).mode = mode
  BY DEF Result

LEMMA EarlierIsNobody == \A t \in Turns : Earlier[1] # t
  BY TurnAssumption DEF Earlier

LEMMA SearchOpenStep ==
  ASSUME Sound, SearchInv, Kept, NEW t \in Turns, Open(t)
  PROVE  SearchInv'
<1>1. UNCHANGED <<ticket, request>>
  BY DEF Open, FindSession, InsertSession, RecordUser, ReadContext, rows
<1>2. says' = says /\ Attempts' = Attempts /\ SearchTurn(t)
  BY SameSays DEF SearchInv
<1>3. Moves(t) /\ turn'[t].pc \notin {"fallback", "cancel", "reply", "done"}
  BY FindDoes, InsertDoes, RecordUserDoes, ReadContextDoes DEF Open
<1>4. Missed(t)'
  BY <1>3, NotMissed
<1>5. SearchTurn(t)'
  <2>1. CASE FindSession(t) \/ InsertSession(t)
    <3>1. turn'[t].pc \in {"insert", "record"}
      BY <2>1, FindDoes, InsertDoes
    <3> QED
      BY <3>1 DEF SearchTurn, Started
  <2>2. CASE RecordUser(t)
    <3>1. /\ turn'[t].pc = "context" /\ turn'[t].session = turn[t].session
          /\ says[t] \in session'[turn[t].session].messages
      BY <2>2, RecordUserDoes DEF Keeps
    <3> QED
      BY <1>2, <3>1 DEF SearchTurn, Started
  <2>3. CASE ReadContext(t)
    <3>1. /\ turn[t].pc = "context" /\ turn'[t].pc = "harness"
          /\ turn'[t].history = session[turn[t].session].messages
      BY <2>3, ReadContextDoes
    <3> QED
      BY <1>2, <3>1 DEF SearchTurn, Started
  <2> QED
    BY <2>1, <2>2, <2>3 DEF Open
<1> QED
  BY <1>1, <1>3, <1>4, <1>5, SearchAfterTurn

LEMMA SearchEndStep ==
  ASSUME Sound, SearchInv, Kept, NEW t \in Turns, HarnessEnds(t) \/ TimesOut(t) \/ Killed(t)
  PROVE  SearchInv'
<1>1. UNCHANGED <<ticket, request>>
  BY DEF HarnessEnds, TimesOut, Killed, rows
<1>2. /\ Moves(t) /\ turn'[t].attempt = turn[t].attempt /\ turn[t].pc \in {"harness", "killing"}
      /\ turn'[t].pc \in {"killing", "reply", "recoverUpdate"}
  BY HarnessEndsDoes, TimesOutDoes, KilledDoes
<1>3. turn[t].attempt =< Attempts /\ turn[t].attempt \in Nat /\ Attempts \in Nat
  BY <1>2, PlacedFacts DEF Trying
<1>4. ~(turn'[t].attempt > Attempts)
  BY <1>2, <1>3
<1>5. Missed(t)'
  BY <1>2, <1>4, NotMissed
<1>6. Started(t)
  BY <1>2 DEF Started
<1>7. SearchTurn(t)'
  BY <1>2, <1>4, <1>6, SearchMoved
<1> QED
  BY <1>1, <1>2, <1>5, <1>7, SearchAfterTurn

LEMMA SearchRecoverStep ==
  ASSUME Sound, SearchInv, Kept, NEW t \in Turns, RecoverUpdate(t) \/ RecoverTicket(t)
  PROVE  SearchInv'
<1>1. UNCHANGED <<ticket, request>>
  BY DEF RecoverUpdate, RecoverTicket, rows
<1>2. says' = says /\ Attempts' = Attempts /\ SearchTurn(t)
  BY SameSays DEF SearchInv
<1>3. Moves(t) /\ Started(t)
  BY RecoverUpdateDoes, RecoverTicketDoes DEF Started
<1>4. CASE RecoverUpdate(t)
  <2>1. /\ turn'[t].attempt = turn[t].attempt /\ turn[t].pc = "recoverUpdate"
        /\ \/ \E k \in DOMAIN ticket :
                turn'[t].pc = "reply" /\ turn'[t].reply = Result("update", k)
           \/ turn'[t].pc = "recoverTicket" /\ turn'[t].reply = NoResult
           \/ turn'[t].pc = "reply" /\ turn[t].reply # NoResult /\ turn'[t].reply = turn[t].reply
    BY <1>4, RecoverUpdateDoes
  <2>2. SearchTurn(t)'
    BY <1>3, <2>1, SearchMoved
  <2>3. Missed(t)'
    <3>1. CASE turn'[t].reply.mode = "update" /\ turn'[t].pc = "reply"
      BY <3>1, NotMissed
    <3>2. CASE turn'[t].pc = "recoverTicket"
      BY <3>2, NotMissed
    <3>3. CASE turn'[t].pc = "reply" /\ turn[t].reply # NoResult
      <4>1. ~(turn[t].attempt > Attempts)
        BY <1>2, <2>1, <3>3 DEF SearchTurn
      <4> QED
        BY <2>1, <3>3, <4>1, NotMissed
    <3> QED
      BY <2>1, <3>1, <3>2, <3>3, ResultModes
  <2> QED
    BY <1>1, <1>3, <2>2, <2>3, SearchAfterTurn
<1>5. CASE RecoverTicket(t)
  <2>1. /\ turn[t].pc = "recoverTicket"
        /\ \/ turn'[t].pc = "reply" /\ turn'[t].reply.mode \in {"ticket", "found"}
           \/ /\ Recoverable(t) = {} /\ turn'[t].reply = turn[t].reply
              /\ turn'[t].pc \in {"harness", "recoverUpdate", "fallback"}
    BY <1>5, RecoverTicketDoes
  <2>2. turn[t].reply = NoResult
    BY <1>2, <2>1 DEF SearchTurn
  <2>3. SearchTurn(t)'
    BY <1>3, <2>1, <2>2, SearchMoved
  <2>4. Missed(t)'
    <3>1. CASE turn'[t].reply.mode \in {"ticket", "found"} /\ turn'[t].pc = "reply"
      BY <3>1, NotMissed
    <3>2. CASE turn'[t].pc \in {"harness", "recoverUpdate"}
      BY <3>2, NotMissed
    <3>3. CASE turn'[t].pc = "fallback" /\ Recoverable(t) = {}
      <4> SUFFICES ASSUME ~UpdateLike(says[t]), NEW k \in DOMAIN ticket, ticket[k].by[1] = t, ticket[k].noted = "yes"
                   PROVE  FALSE
        BY <1>1, <1>2 DEF Missed, Unnoticed, UpdateLike
      <4>1. ticket[k].by \in Runs
        <5>1. ticket[k] \in Row
          BY DEF Sound, TypeInv
        <5>2. ticket[k].by # Earlier
          BY EarlierIsNobody
        <5> QED
          BY <5>1, <5>2 DEF Row
      <4>2. says[t] \in ticket[k].described
        BY <4>1 DEF SearchInv, SearchRow
      <4>3. Noted(k)
        BY DEF Noted
      <4> QED
        BY <2>1, <3>3, <4>2, <4>3, RecoverableIsNoted
    <3> QED
      BY <2>1, <3>1, <3>2, <3>3
  <2> QED
    BY <1>1, <1>3, <2>3, <2>4, SearchAfterTurn
<1> QED
  BY <1>4, <1>5

LEMMA SearchCloseStep ==
  ASSUME Sound, SearchInv, Kept, NEW t \in Turns, Fallback(t) \/ FallbackCancel(t) \/ RecordReply(t)
  PROVE  SearchInv'
<1>0. TypeInv
  BY DEF Sound
<1>1. request' = request
  BY DEF Fallback, FallbackCancel, RecordReply
<1>2. /\ Moves(t) /\ turn'[t].attempt = turn[t].attempt
      /\ turn[t].pc \in {"fallback", "cancel", "reply"} /\ turn'[t].pc \in {"cancel", "reply", "done"}
      /\ turn[t].pc = "fallback" \/ turn'[t].reply = turn[t].reply
  BY FallbackDoes, FallbackCancelDoes, RecordReplyDoes
<1>3. DOMAIN ticket' = DOMAIN ticket /\ \A k \in DOMAIN ticket : ticket'[k].noted = ticket[k].noted
  <2>1. CASE ticket' = ticket
    BY <2>1
  <2>2. CASE \E k \in DOMAIN ticket :
               RowTo(k, [ticket[k] EXCEPT !.responses = ticket[k].responses \cup {says[t]}, !.assigned = TRUE])
    <3>1. PICK k \in DOMAIN ticket :
               RowTo(k, [ticket[k] EXCEPT !.responses = ticket[k].responses \cup {says[t]}, !.assigned = TRUE])
      BY <2>2
    <3>2. RowStep(k) /\ ticket'[k].noted = ticket[k].noted
      BY <1>0, <3>1, FallbackRow
    <3> QED
      BY <3>2 DEF RowStep
  <2>3. CASE StatusTo(turn[t].reply.ticket, "cancelled")
    <3>1. RowStep(turn[t].reply.ticket) /\ ticket'[turn[t].reply.ticket].noted = ticket[turn[t].reply.ticket].noted
      BY <1>0, <2>3, StatusRow
    <3> QED
      BY <3>1 DEF RowStep
  <2>4. RecordReply(t) => ticket' = ticket
    BY DEF RecordReply
  <2>5. FallbackCancel(t) => StatusTo(turn[t].reply.ticket, "cancelled")
    BY FallbackCancelDoes DEF StatusTo
  <2>6. ASSUME Fallback(t)
        PROVE  \/ ticket' = ticket
               \/ \E k \in DOMAIN ticket :
                    RowTo(k, [ticket[k] EXCEPT !.responses = ticket[k].responses \cup {says[t]}, !.assigned = TRUE])
    BY <2>6, FallbackDoes
  <2> QED
    BY <2>1, <2>2, <2>3, <2>4, <2>5, <2>6
<1>4. Missed(t)'
  BY <1>2, <1>3, MissedOn
<1>5. Started(t)
  BY <1>2 DEF Started
<1>6. SearchTurn(t)'
  BY <1>2, <1>5, SearchMoved
<1> QED
  BY <1>1, <1>2, <1>3, <1>4, <1>6, SearchAfterTurn

\* The opening note of a run is written on the ticket that the run has opened.
LEMMA NoteOfRun ==
  ASSUME Sound, SearchInv, Kept, NEW r \in Runs, tool[r].pc = "waiting", Posted(r).pc = "created",
         \E n : NotedAs(Posted(r).ticket, n) /\ (n = "yes" => InTime(r))
  PROVE  /\ DOMAIN ticket' = DOMAIN ticket
         /\ \A k \in DOMAIN ticket' : ticket'[k].noted = "yes" =>
              (k \in DOMAIN ticket /\ ticket[k].noted = "yes") \/ (ticket'[k].by = r /\ InTime(r))
<1>1. PICK j : j = Posted(r).ticket
  OBVIOUS
<1>2. PICK n : NotedAs(j, n) /\ (n = "yes" => InTime(r))
  BY <1>1
<1>3. TypeInv /\ RowsKept
  BY SameSays DEF Sound
<1>4. RowStep(j) /\ ticket'[j].noted = n
  BY <1>2, <1>3, NotedRow
<1>5. ticket[j].by = r /\ j \in DOMAIN ticket
  BY <1>1, PostedRequest DEF SearchInv, SearchRun, SearchRequest
<1>6. ticket'[j].by = r
  BY <1>3, <1>5 DEF RowsKept
<1> QED
  BY <1>2, <1>4, <1>6 DEF RowStep

LEMMA SearchRunStep ==
  ASSUME Sound, SearchInv, Kept, NEW r \in Runs, Command(r) \/ Serve(r) \/ ToolStep(r) \/ ToolFails(r)
  PROVE  SearchInv'
<1>0. TypeInv /\ RowsKept /\ says' = says /\ SearchRun(r)
  BY SameSays DEF Sound, SearchInv
<1>a. turn' = turn
  BY DEF Command, AnswerCommand, FormCommand, RefuseCreate, CreateCommand, ContinueCommand, Serve, Lookup,
         InsertTicket, WriteScope, ToolStep, PostNote, TakeReplay, FirstResult, AssignAgent, LastResult, Respond,
         SetStatus, ReportUpdate, ToolFails
\* A step that opens no ticket and writes no opening note.
<1>b. ASSUME \A q \in Runs \ {r} : request'[q] = request[q], SearchRun(r)', DOMAIN ticket' = DOMAIN ticket,
             \A k \in DOMAIN ticket : ticket'[k].noted = ticket[k].noted
      PROVE  SearchInv'
  BY <1>a, <1>b, SearchAfterRun
<1>c. ASSUME request' = request PROVE (\A q \in Runs \ {r} : request'[q] = request[q]) /\ SearchRun(r)'
  BY <1>c, SearchRunStays
<1>d. ASSUME NEW n \in Orders, RequestMoves(r, n), SearchRequest(r, n)'
      PROVE  (\A q \in Runs \ {r} : request'[q] = request[q]) /\ SearchRun(r)'
  BY <1>d, SearchRunMoves DEF RequestMoves
<1>1. CASE Command(r)
  <2>1. ticket' = ticket
    BY <1>1 DEF Command, AnswerCommand, FormCommand, RefuseCreate, CreateCommand, ContinueCommand, rows
  <2>2. CASE CreateCommand(r)
    <3>1. PICK n \in Orders : RequestMoves(r, n) /\ request'[r][n].pc = "lookup"
      BY <2>2, CreateCommandDoes
    <3>2. SearchRequest(r, n)'
      BY <3>1 DEF SearchRequest
    <3> QED
      BY <1>b, <1>d, <2>1, <3>1, <3>2
  <2>3. CASE request' = request
    BY <1>b, <1>c, <2>1, <2>3
  <2> QED
    BY <1>1, <2>2, <2>3 DEF Command, AnswerCommand, FormCommand, RefuseCreate, ContinueCommand
<1>2. ASSUME NEW n \in Orders, Lookup(r, n) PROVE SearchInv'
  <2>1. ticket' = ticket
    BY <1>2 DEF Lookup, rows
  <2>2. RequestMoves(r, n) /\ request'[r][n].pc \in {"insert", "replayed"}
    BY <1>2, LookupDoes
  <2>3. SearchRequest(r, n)'
    BY <2>2 DEF SearchRequest
  <2> QED
    BY <1>b, <1>d, <2>1, <2>2, <2>3
<1>3. ASSUME NEW n \in Orders, InsertTicket(r, n) PROVE SearchInv'
  <2>1. PICK k \in Nat \ {0} :
           /\ RequestMoves(r, n) /\ request[r][n].pc = "insert" /\ Started(r[1])
           /\ request'[r][n].pc = "scope" /\ request'[r][n].ticket = k
           /\ ticket' \in Seq(Row) /\ DOMAIN ticket' = DOMAIN ticket \cup {k} /\ k \notin DOMAIN ticket
           /\ \A j \in DOMAIN ticket : ticket'[j] = ticket[j]
           /\ ticket'[k].by = r /\ ticket'[k].text = says[r[1]] /\ ticket'[k].described = turn[r[1]].history
           /\ ticket'[k].session = 0 /\ ticket'[k].status = "new" /\ ticket'[k].noted = "no"
    BY <1>3, InsertTicketDoes
  <2>2. SearchRequest(r, n)'
    BY <2>1 DEF SearchRequest
  <2>3. says[r[1]] \in turn[r[1]].history
    BY <2>1, RunOfTurn DEF SearchInv, SearchTurn
  <2>4. SearchRow(k)'
    BY <1>0, <2>1, <2>3 DEF SearchRow
  <2>5. (\A q \in Runs \ {r} : request'[q] = request[q]) /\ SearchRun(r)'
    BY <1>d, <2>1, <2>2
  <2> QED
    BY <1>a, <2>1, <2>4, <2>5, SearchAfterRun
<1>4. ASSUME NEW n \in Orders, WriteScope(r, n) PROVE SearchInv'
  <2>1. /\ RequestMoves(r, n) /\ request[r][n].pc = "scope" /\ request'[r][n].ticket = request[r][n].ticket
        /\ Scoped(request[r][n].ticket, turn[r[1]].session)
    BY <1>4, WriteScopeDoes
  <2>2. RowStep(request[r][n].ticket) /\ ticket'[request[r][n].ticket].noted = ticket[request[r][n].ticket].noted
    BY <1>0, <2>1, ScopedRow
  <2>3. DOMAIN ticket' = DOMAIN ticket /\ \A k \in DOMAIN ticket : ticket'[k].noted = ticket[k].noted
    BY <2>2 DEF RowStep
  <2>4. ticket'[request[r][n].ticket].by = r
    BY <1>0, <2>1, <2>2 DEF SearchRun, SearchRequest, RowsKept, RowStep
  <2>5. SearchRequest(r, n)'
    BY <2>1, <2>4 DEF SearchRequest
  <2> QED
    BY <1>b, <1>d, <2>1, <2>3, <2>5
<1>5. CASE PostNote(r)
  <2>1. /\ tool[r].pc = "waiting" /\ Posted(r).pc = "created"
        /\ \E n : NotedAs(Posted(r).ticket, n) /\ (n = "yes" => InTime(r))
    BY <1>5, PostNoteDoes
  <2>2. request' = request
    BY <1>5 DEF PostNote
  <2>3. /\ DOMAIN ticket' = DOMAIN ticket
        /\ \A k \in DOMAIN ticket' : ticket'[k].noted = "yes" =>
             (k \in DOMAIN ticket /\ ticket[k].noted = "yes") \/ (ticket'[k].by = r /\ InTime(r))
    BY <2>1, NoteOfRun
  <2> QED
    BY <1>a, <1>c, <2>2, <2>3, SearchAfterRun
<1>6. CASE TakeReplay(r) \/ FirstResult(r) \/ LastResult(r) \/ ReportUpdate(r)
  BY <1>6, <1>b, <1>c DEF TakeReplay, FirstResult, LastResult, ReportUpdate, rows
<1>7. CASE AssignAgent(r) \/ Respond(r) \/ SetStatus(r)
  <2>1. request' = request
    BY <1>7 DEF AssignAgent, Respond, SetStatus
  <2>2. \/ Assigned(tool[r].ticket) \/ RespondedTo(tool[r].ticket, says[r[1]])
        \/ \E status \in Status : StatusTo(tool[r].ticket, status)
    BY <1>7, AssignAgentDoes, RespondDoes, SetStatusDoes
  <2>3. RowStep(tool[r].ticket) /\ ticket'[tool[r].ticket].noted = ticket[tool[r].ticket].noted
    BY <1>0, <2>2, AssignedRow, RespondedRow, StatusRow
  <2>4. DOMAIN ticket' = DOMAIN ticket /\ \A k \in DOMAIN ticket : ticket'[k].noted = ticket[k].noted
    BY <2>3 DEF RowStep
  <2> QED
    BY <1>b, <1>c, <2>1, <2>4
<1>8. CASE ToolFails(r)
  <2>1. request' = request
    BY <1>8 DEF ToolFails
  <2>2. ServedAnyway(r)
    BY <1>8, ToolFailsDoes
  <2>3. CASE ticket' = ticket
    BY <1>b, <1>c, <2>1, <2>3
  <2>4. CASE /\ tool[r].pc = "waiting" /\ Posted(r).pc = "created"
             /\ \E n : NotedAs(Posted(r).ticket, n) /\ (n = "yes" => InTime(r))
    BY <1>a, <1>c, <2>1, <2>4, NoteOfRun, SearchAfterRun
  <2>5. CASE \/ Assigned(tool[r].ticket) \/ RespondedTo(tool[r].ticket, says[r[1]])
             \/ \E status \in Status : StatusTo(tool[r].ticket, status)
    <3>1. RowStep(tool[r].ticket) /\ ticket'[tool[r].ticket].noted = ticket[tool[r].ticket].noted
      BY <1>0, <2>5, AssignedRow, RespondedRow, StatusRow
    <3>2. DOMAIN ticket' = DOMAIN ticket /\ \A k \in DOMAIN ticket : ticket'[k].noted = ticket[k].noted
      BY <3>1 DEF RowStep
    <3> QED
      BY <1>b, <1>c, <2>1, <3>2
  <2> QED
    BY <2>2, <2>3, <2>4, <2>5 DEF ServedAnyway
<1> QED
  BY <1>1, <1>2, <1>3, <1>4, <1>5, <1>6, <1>7, <1>8 DEF ToolStep, Serve

LEMMA SearchStarts == Init => SearchInv
<1> SUFFICES ASSUME Init PROVE SearchInv
  OBVIOUS
<1>1. ASSUME NEW t \in Turns PROVE SearchTurn(t) /\ Missed(t)
  <2>1. turn[t].pc \in {"absent", "new"}
    BY DEF Init
  <2> QED
    BY <2>1 DEF SearchTurn, Missed, Started, GaveUp
<1>2. ASSUME NEW r \in Runs PROVE SearchRun(r)
  <2>1. \A n \in Orders : request[r][n].pc = "none"
    BY DEF Init
  <2> QED
    BY <2>1 DEF SearchRun, SearchRequest
<1>3. ASSUME NEW k \in DOMAIN ticket PROVE ticket[k].by \notin Runs /\ ticket[k].text \in ticket[k].described
  <2>1. scene \in Scenes /\ ticket = scene.before
    BY DEF Init
  <2>2. ticket[k].by = Earlier /\ ticket[k].text \in ticket[k].described
    BY <2>1, EarlierAssumption
  <2> QED
    BY <2>2, EarlierIsNobody, RunOfTurn
<1> QED
  BY <1>1, <1>2, <1>3 DEF SearchInv, SearchRow

LEMMA SearchStep == Sound /\ SearchInv /\ [Next]_vars => SearchInv'
<1> SUFFICES ASSUME Sound, SearchInv, [Next]_vars PROVE SearchInv'
  OBVIOUS
<1>0. Kept
  BY SoundStep
<1>1. ASSUME NEW t \in Turns, Open(t) \/ HarnessEnds(t) \/ TimesOut(t) \/ Close(t) PROVE SearchInv'
  BY <1>0, <1>1, SearchOpenStep, SearchEndStep, SearchRecoverStep, SearchCloseStep DEF Close
<1>2. ASSUME NEW r \in Runs, Command(r) \/ Serve(r) \/ ToolStep(r) \/ ToolFails(r) PROVE SearchInv'
  BY <1>0, <1>2, SearchRunStep
<1>3. CASE UNCHANGED vars
  <2>1. turn' = turn /\ request' = request /\ ticket' = ticket
    BY <1>3 DEF vars, rows
  <2>2. \A k \in DOMAIN ticket' : SearchRow(k)'
    BY <1>0, <2>1, SearchRowsStay
  <2>3. \A q \in Runs : SearchRun(q)'
    BY <1>0, <2>1, SearchRunStays
  <2>4. \A u \in Turns : SearchTurn(u)' /\ Missed(u)'
    BY <1>0, <2>1, SearchTurnStays, MissedStays
  <2> QED
    BY <2>2, <2>3, <2>4 DEF SearchInv
<1> QED
  BY <1>1, <1>2, <1>3 DEF Next

\* A turn that gives up after its last attempt, and had not asked for an update,
\* leaves no ticket behind that one of its harnesses opened and noted in time
\* (_recover_ticket_side_effect looks once more after the last attempt).
THEOREM GivesUpEmpty == Spec => []GivesUpWithoutTicket
<1>1. Init => Sound /\ SearchInv
  BY SoundStarts, SearchStarts
<1>2. Sound /\ SearchInv /\ [Next]_vars => (Sound /\ SearchInv)'
  BY SoundStep, SearchStep
<1>3. Sound /\ SearchInv => GivesUpWithoutTicket
  <2> SUFFICES ASSUME SearchInv, NEW t \in Turns, NEW k \in DOMAIN ticket,
                      Says(t, "general"), turn[t].attempt > Attempts, ~UpdateLike(says[t])
               PROVE  ~(ticket[k].by[1] = t /\ ticket[k].noted = "yes")
    BY DEF GivesUpWithoutTicket
  <2>1. Missed(t) /\ GaveUp(t)
    BY DEF SearchInv, GaveUp, Says, Done
  <2> QED
    BY <2>1 DEF Missed, Unnoticed
<1> QED
  BY <1>1, <1>2, <1>3, PTL DEF Spec
-----------------------------------------------------------------------------
(* What a turn says of tickets is so.                                      *)

\* The rows back an update of a message, and the opening of a ticket for it.
UpdatedIn(rs, m, k) == k \in DOMAIN rs /\ m \in rs[k].responses
OpenedIn(rs, m, k) == k \in DOMAIN rs /\ m \in rs[k].described
BackedIn(rs, m, res) ==
  /\ res.mode = "update" => UpdatedIn(rs, m, res.ticket)
  /\ res.mode = "ticket" => OpenedIn(rs, m, res.ticket)
  /\ res.mode = "found" => Kind[m] = "work"
Honest(res) == res.mode = "general" => res.claims = FALSE

ClaimTurn(t) ==
  /\ BackedIn(ticket, says[t], turn[t].reply)
  /\ turn[t].pc # "killing" => Honest(turn[t].reply)

\* A tool on its way has done what it is about to report, and a request what it is to answer.
ClaimRequest(r, n) ==
  request[r][n].pc \in {"scope", "created", "replayed"} => OpenedIn(ticket, says[r[1]], request[r][n].ticket)
ClaimRun(r) ==
  /\ BackedIn(ticket, says[r[1]], result[r].shown) /\ BackedIn(ticket, says[r[1]], result[r].action)
  /\ tool[r].pc \in {"status", "report"} => UpdatedIn(ticket, says[r[1]], tool[r].ticket)
  /\ tool[r].pc \in {"first", "assign", "last"} => OpenedIn(ticket, says[r[1]], tool[r].ticket)
  /\ \A n \in Orders : ClaimRequest(r, n)

ClaimsInv == (\A t \in Turns : ClaimTurn(t)) /\ (\A r \in Runs : ClaimRun(r))

LEMMA BackingStays ==
  ASSUME RowsKept
  PROVE  \A m : /\ \A k : UpdatedIn(ticket, m, k) => UpdatedIn(ticket', m, k)
                /\ \A k : OpenedIn(ticket, m, k) => OpenedIn(ticket', m, k)
                /\ \A res : BackedIn(ticket, m, res) => BackedIn(ticket', m, res)
<1> SUFFICES ASSUME NEW m
             PROVE  /\ \A k : UpdatedIn(ticket, m, k) => UpdatedIn(ticket', m, k)
                    /\ \A k : OpenedIn(ticket, m, k) => OpenedIn(ticket', m, k)
                    /\ \A res : BackedIn(ticket, m, res) => BackedIn(ticket', m, res)
  OBVIOUS
<1>1. \A k : UpdatedIn(ticket, m, k) => UpdatedIn(ticket', m, k)
  BY DEF RowsKept, UpdatedIn
<1>2. \A k : OpenedIn(ticket, m, k) => OpenedIn(ticket', m, k)
  BY DEF RowsKept, OpenedIn
<1> QED
  BY <1>1, <1>2 DEF BackedIn

LEMMA ClaimTurnStays ==
  ASSUME Kept, NEW u, ClaimTurn(u), turn'[u] = turn[u]
  PROVE  ClaimTurn(u)'
<1>1. says' = says /\ RowsKept
  BY SameSays
<1>2. BackedIn(ticket', says[u], turn[u].reply)
  BY <1>1, BackingStays DEF ClaimTurn
<1> QED
  BY <1>1, <1>2 DEF ClaimTurn

LEMMA ClaimRunStays ==
  ASSUME Kept, NEW q, ClaimRun(q), ToolAlike(q), request'[q] = request[q], result'[q] = result[q]
  PROVE  ClaimRun(q)'
<1>1. says' = says /\ RowsKept
  BY SameSays
<1>2. /\ BackedIn(ticket', says[q[1]], result[q].shown) /\ BackedIn(ticket', says[q[1]], result[q].action)
      /\ tool[q].pc \in {"status", "report"} => UpdatedIn(ticket', says[q[1]], tool[q].ticket)
      /\ tool[q].pc \in {"first", "assign", "last"} => OpenedIn(ticket', says[q[1]], tool[q].ticket)
  BY <1>1, BackingStays DEF ClaimRun
<1>3. \A n \in Orders : ClaimRequest(q, n)'
  BY <1>1, BackingStays DEF ClaimRun, ClaimRequest
<1> QED
  BY <1>1, <1>2, <1>3 DEF ClaimRun, ToolAlike

LEMMA ClaimsAfterTurn ==
  ASSUME ClaimsInv, Kept, NEW t \in Turns, Moves(t), ClaimTurn(t)',
         \A q \in Runs : ToolAlike(q), request' = request, result' = result
  PROVE  ClaimsInv'
<1>1. ASSUME NEW u \in Turns PROVE ClaimTurn(u)'
  <2>1. CASE u = t
    BY <2>1
  <2>2. CASE u # t
    BY <2>2, ClaimTurnStays DEF Moves, ClaimsInv
  <2> QED
    BY <2>1, <2>2
<1>2. ASSUME NEW q \in Runs PROVE ClaimRun(q)'
  BY ClaimRunStays DEF ClaimsInv
<1> QED
  BY <1>1, <1>2 DEF ClaimsInv

LEMMA ClaimsAfterRun ==
  ASSUME ClaimsInv, Kept, NEW r \in Runs, turn' = turn, ClaimRun(r)',
         \A q \in Runs \ {r} : tool'[q] = tool[q] /\ request'[q] = request[q] /\ result'[q] = result[q]
  PROVE  ClaimsInv'
<1>1. ASSUME NEW u \in Turns PROVE ClaimTurn(u)'
  BY ClaimTurnStays DEF ClaimsInv
<1>2. ASSUME NEW q \in Runs PROVE ClaimRun(q)'
  <2>1. CASE q = r
    BY <2>1
  <2>2. CASE q # r
    BY <2>2, ClaimRunStays DEF ClaimsInv, ToolAlike
  <2> QED
    BY <2>1, <2>2
<1> QED
  BY <1>1, <1>2 DEF ClaimsInv

\* A turn whose answer is one it had, or is backed by the rows.
LEMMA ClaimMoved ==
  ASSUME Kept, NEW t \in Turns,
         BackedIn(ticket, says[t], turn'[t].reply) \/ BackedIn(ticket', says[t], turn'[t].reply),
         turn'[t].pc # "killing" => Honest(turn'[t].reply)
  PROVE  ClaimTurn(t)'
<1>1. says' = says /\ RowsKept
  BY SameSays
<1>2. BackedIn(ticket', says[t], turn'[t].reply)
  BY <1>1, BackingStays
<1> QED
  BY <1>1, <1>2 DEF ClaimTurn

LEMMA NothingClaimed == \A rs, m : BackedIn(rs, m, NoResult) /\ Honest(NoResult)
  BY NoResultFacts DEF BackedIn, Honest

LEMMA ResultClaims ==
  \A rs, m, k : /\ Honest(Result("update", k)) /\ Honest(Result("ticket", k)) /\ Honest(Result("general", k))
                /\ BackedIn(rs, m, Result("update", k)) <=> UpdatedIn(rs, m, k)
                /\ Honest(Result("found", k)) /\ (BackedIn(rs, m, Result("found", k)) <=> Kind[m] = "work")
                /\ BackedIn(rs, m, Result("ticket", k)) <=> OpenedIn(rs, m, k)
                /\ BackedIn(rs, m, Result("general", k)) /\ BackedIn(rs, m, Result("form", k))
  BY DEF Result, Honest, BackedIn

LEMMA ClaimsTurnStep ==
  ASSUME Sound, ClaimsInv, Kept, NEW t \in Turns, Open(t) \/ HarnessEnds(t) \/ TimesOut(t) \/ Close(t)
  PROVE  ClaimsInv'
<1>0. ClaimTurn(t) /\ BackedIn(ticket, says[t], turn[t].reply) /\ turn[t].reply \in Outcomes
  BY DEF ClaimsInv, ClaimTurn, Sound, TypeInv, Coroutines
<1>1. CASE Open(t)
  <2>1. UNCHANGED <<tool, request, result>>
    BY <1>1 DEF Open, FindSession, InsertSession, RecordUser, ReadContext
  <2>2. Moves(t) /\ turn'[t].reply = turn[t].reply /\ turn[t].pc # "killing"
    BY <1>1, FindDoes, InsertDoes, RecordUserDoes, ReadContextDoes DEF Open
  <2>3. ClaimTurn(t)'
    BY <1>0, <2>2, ClaimMoved DEF ClaimTurn
  <2> QED
    BY <2>1, <2>2, <2>3, ClaimsAfterTurn DEF ToolAlike
<1>2. CASE HarnessEnds(t)
  <2>1. UNCHANGED <<tool, request, result>>
    BY <1>2 DEF HarnessEnds
  <2>2. PICK r \in Runs : \E res \in {result[r].shown, result[r].action} :
           /\ r[1] = t /\ Moves(t)
           /\ \/ turn'[t].reply = res /\ res.mode \in {"form", "ticket", "update"}
              \/ /\ turn'[t].reply \in {res, NoResult}
                 /\ turn'[t].reply = res => (res = NoResult \/ Trusted(res))
    BY <1>2, HarnessEndsDoes
  <2>3. PICK res \in {result[r].shown, result[r].action} :
           /\ r[1] = t /\ Moves(t)
           /\ \/ turn'[t].reply = res /\ res.mode \in {"form", "ticket", "update"}
              \/ /\ turn'[t].reply \in {res, NoResult}
                 /\ turn'[t].reply = res => (res = NoResult \/ Trusted(res))
    BY <2>2
  <2>4. BackedIn(ticket, says[t], res) /\ res \in Outcomes
    BY <2>3, ReadFacts DEF ClaimsInv, ClaimRun, Sound
  <2>5. BackedIn(ticket, says[t], turn'[t].reply)
    BY <2>3, <2>4, NothingClaimed
  <2>6. Honest(turn'[t].reply)
    <3>1. CASE turn'[t].reply = res /\ res.mode \in {"form", "ticket", "update"}
      BY <3>1 DEF Honest
    <3>2. CASE turn'[t].reply = NoResult
      BY <3>2, NothingClaimed
    <3>3. CASE turn'[t].reply = res /\ Trusted(res)
      BY <2>4, <3>3 DEF Honest, Trusted, Outcomes
    <3> QED
      BY <2>3, <3>1, <3>2, <3>3
  <2>7. ClaimTurn(t)'
    BY <2>5, <2>6, ClaimMoved
  <2> QED
    BY <2>1, <2>3, <2>7, ClaimsAfterTurn DEF ToolAlike
<1>3. CASE TimesOut(t)
  <2>1. UNCHANGED <<tool, request, result>>
    BY <1>3 DEF TimesOut
  <2>2. PICK r \in Runs :
           /\ r[1] = t /\ turn'[t].pc = "killing" /\ turn'[t].reply \in {result[r].shown, result[r].action} /\ Moves(t)
    BY <1>3, TimesOutDoes
  <2>3. BackedIn(ticket, says[t], turn'[t].reply)
    BY <2>2 DEF ClaimsInv, ClaimRun
  <2>4. ClaimTurn(t)'
    BY <2>2, <2>3, ClaimMoved
  <2> QED
    BY <2>1, <2>2, <2>4, ClaimsAfterTurn DEF ToolAlike
<1>4. CASE Killed(t)
  <2>1. UNCHANGED <<request, result>>
    BY <1>4 DEF Killed
  <2>2. /\ Moves(t)
        /\ \/ turn'[t].reply = turn[t].reply /\ turn[t].reply.mode \in {"form", "ticket", "update"}
           \/ /\ turn'[t].reply \in {turn[t].reply, NoResult}
              /\ turn'[t].reply = turn[t].reply => (turn[t].reply = NoResult \/ Trusted(turn[t].reply))
        /\ \A q \in Runs : ToolAlike(q)
    BY <1>4, KilledDoes
  <2>3. BackedIn(ticket, says[t], turn'[t].reply)
    BY <1>0, <2>2, NothingClaimed
  <2>4. Honest(turn'[t].reply)
    <3>1. CASE turn'[t].reply = turn[t].reply /\ turn[t].reply.mode \in {"form", "ticket", "update"}
      BY <3>1 DEF Honest
    <3>2. CASE turn'[t].reply = NoResult
      BY <3>2, NothingClaimed
    <3>3. CASE turn'[t].reply = turn[t].reply /\ Trusted(turn[t].reply)
      BY <1>0, <3>3 DEF Honest, Trusted, Outcomes
    <3> QED
      BY <2>2, <3>1, <3>2, <3>3
  <2>5. ClaimTurn(t)'
    BY <2>3, <2>4, ClaimMoved
  <2> QED
    BY <2>1, <2>2, <2>5, ClaimsAfterTurn
<1>5. CASE RecoverUpdate(t)
  <2>1. UNCHANGED <<tool, request, result>>
    BY <1>5 DEF RecoverUpdate
  <2>2. /\ Moves(t) /\ turn[t].pc = "recoverUpdate"
        /\ \/ turn'[t].reply = turn[t].reply
           \/ \E k \in DOMAIN ticket : says[t] \in ticket[k].responses /\ turn'[t].reply = Result("update", k)
    BY <1>5, RecoverUpdateDoes
  <2>3. BackedIn(ticket, says[t], turn'[t].reply) /\ Honest(turn'[t].reply)
    BY <1>0, <2>2, ResultClaims DEF ClaimTurn, UpdatedIn
  <2>4. ClaimTurn(t)'
    BY <2>3, ClaimMoved
  <2> QED
    BY <2>1, <2>2, <2>4, ClaimsAfterTurn DEF ToolAlike
<1>6. CASE RecoverTicket(t)
  <2>1. UNCHANGED <<tool, request, result>>
    BY <1>6 DEF RecoverTicket
  <2>2. /\ Moves(t) /\ turn[t].pc = "recoverTicket"
        /\ \/ turn'[t].reply = turn[t].reply
           \/ \E k \in DOMAIN ticket : Taken(t, turn'[t].reply, k)
    BY <1>6, RecoverTicketDoes
  <2>3. BackedIn(ticket, says[t], turn'[t].reply) /\ Honest(turn'[t].reply)
    BY <1>0, <2>2, ResultClaims DEF ClaimTurn, OpenedIn, Taken
  <2>4. ClaimTurn(t)'
    BY <2>3, ClaimMoved
  <2> QED
    BY <2>1, <2>2, <2>4, ClaimsAfterTurn DEF ToolAlike
<1>7. CASE Fallback(t)
  <2>1. UNCHANGED <<tool, request, result>>
    BY <1>7 DEF Fallback
  <2>2. Moves(t) /\ turn[t].pc = "fallback" /\ TypeInv
    BY <1>7, FallbackDoes DEF Sound
  <2>3. CASE \E k \in DOMAIN ticket :
               /\ turn'[t].reply = Result("update", k)
               /\ RowTo(k, [ticket[k] EXCEPT !.responses = ticket[k].responses \cup {says[t]}, !.assigned = TRUE])
    <3>1. PICK k \in DOMAIN ticket :
               /\ turn'[t].reply = Result("update", k)
               /\ RowTo(k, [ticket[k] EXCEPT !.responses = ticket[k].responses \cup {says[t]}, !.assigned = TRUE])
      BY <2>3
    <3>2. says[t] \in ticket'[k].responses /\ DOMAIN ticket' = DOMAIN ticket
      BY <2>2, <3>1, FallbackRow DEF RowStep
    <3>3. BackedIn(ticket', says[t], turn'[t].reply) /\ Honest(turn'[t].reply)
      BY <3>1, <3>2, ResultClaims DEF UpdatedIn
    <3> QED
      BY <3>3, <2>1, <2>2, ClaimMoved, ClaimsAfterTurn DEF ToolAlike
  <2>4. CASE turn'[t].reply = Result("general", 0)
    <3>1. BackedIn(ticket', says[t], turn'[t].reply) /\ Honest(turn'[t].reply)
      BY <2>4, ResultClaims
    <3> QED
      BY <3>1, <2>1, <2>2, ClaimMoved, ClaimsAfterTurn DEF ToolAlike
  <2> QED
    BY <1>7, <2>3, <2>4, FallbackDoes
<1>8. CASE FallbackCancel(t) \/ RecordReply(t)
  <2>1. UNCHANGED <<tool, request, result>>
    BY <1>8 DEF FallbackCancel, RecordReply
  <2>2. Moves(t) /\ turn'[t].reply = turn[t].reply /\ turn[t].pc # "killing"
    BY <1>8, FallbackCancelDoes, RecordReplyDoes
  <2>3. ClaimTurn(t)'
    BY <1>0, <2>2, ClaimMoved DEF ClaimTurn
  <2> QED
    BY <2>1, <2>2, <2>3, ClaimsAfterTurn DEF ToolAlike
<1> QED
  BY <1>1, <1>2, <1>3, <1>4, <1>5, <1>6, <1>7, <1>8 DEF Close

LEMMA ClaimsRunStep ==
  ASSUME Sound, SearchInv, ClaimsInv, Kept, NEW r \in Runs, Command(r) \/ Serve(r) \/ ToolStep(r) \/ ToolFails(r)
  PROVE  ClaimsInv'
<1>0. /\ ClaimRun(r) /\ TypeInv /\ RowsKept /\ says' = says
      /\ tool \in [Runs -> Tools] /\ result \in [Runs -> Files]
  BY SameSays DEF ClaimsInv, Sound, TypeInv
<1>a. turn' = turn
  BY DEF Command, AnswerCommand, FormCommand, RefuseCreate, CreateCommand, ContinueCommand, Serve, Lookup,
         InsertTicket, WriteScope, ToolStep, PostNote, TakeReplay, FirstResult, AssignAgent, LastResult, Respond,
         SetStatus, ReportUpdate, ToolFails
\* What is kept of the files, and what the rows back already.
<1>b. /\ \A k : UpdatedIn(ticket, says[r[1]], k) => UpdatedIn(ticket', says[r[1]], k)
      /\ \A k : OpenedIn(ticket, says[r[1]], k) => OpenedIn(ticket', says[r[1]], k)
      /\ \A res : BackedIn(ticket, says[r[1]], res) => BackedIn(ticket', says[r[1]], res)
  BY <1>0, BackingStays
<1>c. ASSUME NEW res, FilesTake(r, res), BackedIn(ticket', says[r[1]], res)
      PROVE  BackedIn(ticket', says[r[1]], result'[r].shown) /\ BackedIn(ticket', says[r[1]], result'[r].action)
  BY <1>0, <1>b, <1>c DEF ClaimRun, FilesTake
<1>d. ASSUME result' = result
      PROVE  BackedIn(ticket', says[r[1]], result'[r].shown) /\ BackedIn(ticket', says[r[1]], result'[r].action)
  BY <1>0, <1>b, <1>d DEF ClaimRun
<1>e. ASSUME NEW n \in Orders, request'[r][n] = request[r][n] PROVE ClaimRequest(r, n)'
  BY <1>0, <1>b, <1>e DEF ClaimRun, ClaimRequest
<1>f. ASSUME request' = request PROVE \A n \in Orders : ClaimRequest(r, n)'
  BY <1>e, <1>f
\* A step of the tool alone, and one of a request alone.
<1>g. ASSUME request' = request, ToolMoves(r), result' = result \/ (\E res : FilesTake(r, res) /\ BackedIn(ticket', says[r[1]], res)),
             tool'[r].pc \in {"status", "report"} => UpdatedIn(ticket', says[r[1]], tool'[r].ticket),
             tool'[r].pc \in {"first", "assign", "last"} => OpenedIn(ticket', says[r[1]], tool'[r].ticket)
      PROVE  ClaimsInv'
  <2>1. BackedIn(ticket', says[r[1]], result'[r].shown) /\ BackedIn(ticket', says[r[1]], result'[r].action)
    BY <1>c, <1>d, <1>g
  <2>2. ClaimRun(r)'
    BY <1>0, <1>f, <1>g, <2>1 DEF ClaimRun
  <2>3. \A q \in Runs \ {r} : tool'[q] = tool[q] /\ request'[q] = request[q] /\ result'[q] = result[q]
    BY <1>g DEF ToolMoves, FilesTake
  <2> QED
    BY <1>a, <2>2, <2>3, ClaimsAfterRun
<1>h. ASSUME result' = result, ToolMoves(r), tool' = tool \/ tool'[r].pc \in {"idle", "waiting"},
             NEW n \in Orders, RequestMoves(r, n), ClaimRequest(r, n)'
      PROVE  ClaimsInv'
  <2>1. BackedIn(ticket', says[r[1]], result'[r].shown) /\ BackedIn(ticket', says[r[1]], result'[r].action)
    BY <1>d, <1>h
  <2>2. /\ tool'[r].pc \in {"status", "report"} => UpdatedIn(ticket', says[r[1]], tool'[r].ticket)
        /\ tool'[r].pc \in {"first", "assign", "last"} => OpenedIn(ticket', says[r[1]], tool'[r].ticket)
    BY <1>0, <1>b, <1>h DEF ClaimRun
  <2>3. \A m \in Orders : ClaimRequest(r, m)'
    <3> SUFFICES ASSUME NEW m \in Orders PROVE ClaimRequest(r, m)'
      OBVIOUS
    <3>1. CASE m = n
      BY <1>h, <3>1
    <3>2. CASE m # n
      BY <1>e, <1>h, <3>2 DEF RequestMoves
    <3> QED
      BY <3>1, <3>2
  <2>4. ClaimRun(r)'
    BY <1>0, <2>1, <2>2, <2>3 DEF ClaimRun
  <2>5. \A q \in Runs \ {r} : tool'[q] = tool[q] /\ request'[q] = request[q] /\ result'[q] = result[q]
    BY <1>h DEF ToolMoves, RequestMoves
  <2> QED
    BY <1>a, <2>4, <2>5, ClaimsAfterRun
<1>1. CASE Command(r)
  <2>1. CASE AnswerCommand(r) \/ FormCommand(r)
    <3>1. request' = request
      BY <2>1 DEF AnswerCommand, FormCommand
    <3>2. PICK res : FilesTake(r, res) /\ res.mode \in {"general", "form"}
      BY <2>1, AnswerCommandDoes, FormCommandDoes
    <3>3. ToolMoves(r) /\ tool'[r].pc = "idle"
      BY <2>1, AnswerCommandDoes, FormCommandDoes
    <3>4. BackedIn(ticket', says[r[1]], res)
      BY <3>2 DEF BackedIn
    <3> QED
      BY <1>g, <3>1, <3>2, <3>3, <3>4
  <2>2. CASE CreateCommand(r)
    <3>1. result' = result
      BY <2>2 DEF CreateCommand
    <3>2. PICK n \in Orders :
            ToolMoves(r) /\ tool'[r].pc = "waiting" /\ RequestMoves(r, n) /\ request'[r][n].pc = "lookup"
      BY <2>2, CreateCommandDoes
    <3>3. ClaimRequest(r, n)'
      BY <3>2 DEF ClaimRequest
    <3> QED
      BY <1>h, <3>1, <3>2, <3>3
  <2>3. CASE RefuseCreate(r) \/ ContinueCommand(r)
    <3>1. result' = result /\ request' = request
      BY <2>3 DEF RefuseCreate, ContinueCommand
    <3>2. ToolMoves(r) /\ tool'[r].pc \in {"idle", "respond"}
      BY <2>3, RefuseCreateDoes, ContinueCommandDoes
    <3> QED
      BY <1>g, <3>1, <3>2
  <2> QED
    BY <1>1, <2>1, <2>2, <2>3 DEF Command
<1>2. ASSUME NEW n \in Orders, Lookup(r, n) \/ InsertTicket(r, n) \/ WriteScope(r, n) PROVE ClaimsInv'
  <2>1. result' = result /\ tool' = tool
    BY <1>2 DEF Lookup, InsertTicket, WriteScope
  <2>2. ToolMoves(r)
    BY <1>0, <2>1 DEF ToolMoves
  <2>3. RequestMoves(r, n) /\ ClaimRequest(r, n)'
    <3>1. CASE Lookup(r, n)
      <4>1. ticket' = ticket
        BY <3>1 DEF Lookup, rows
      <4>2. /\ RequestMoves(r, n)
            /\ \/ request'[r][n].pc = "insert"
               \/ request'[r][n].ticket \in DOMAIN ticket /\ ticket[request'[r][n].ticket].text = says[r[1]]
        BY <3>1, LookupDoes DEF Idempotent
      <4>3. \A k \in DOMAIN ticket : ticket[k].text \in ticket[k].described
        BY DEF SearchInv, SearchRow
      <4> QED
        BY <1>0, <4>1, <4>2, <4>3 DEF ClaimRequest, OpenedIn
    <3>2. CASE InsertTicket(r, n)
      <4>1. PICK k \in Nat \ {0} :
               /\ RequestMoves(r, n) /\ request[r][n].pc = "insert" /\ Started(r[1])
               /\ request'[r][n].pc = "scope" /\ request'[r][n].ticket = k
               /\ ticket' \in Seq(Row) /\ DOMAIN ticket' = DOMAIN ticket \cup {k} /\ k \notin DOMAIN ticket
               /\ \A j \in DOMAIN ticket : ticket'[j] = ticket[j]
               /\ ticket'[k].by = r /\ ticket'[k].text = says[r[1]] /\ ticket'[k].described = turn[r[1]].history
               /\ ticket'[k].session = 0 /\ ticket'[k].status = "new" /\ ticket'[k].noted = "no"
        BY <3>2, InsertTicketDoes
      <4>2. says[r[1]] \in turn[r[1]].history
        BY <4>1, RunOfTurn DEF SearchInv, SearchTurn
      <4> QED
        BY <1>0, <4>1, <4>2 DEF ClaimRequest, OpenedIn
    <3>3. CASE WriteScope(r, n)
      <4>1. /\ RequestMoves(r, n) /\ request[r][n].pc = "scope" /\ request'[r][n].ticket = request[r][n].ticket
        BY <3>3, WriteScopeDoes
      <4>2. OpenedIn(ticket', says[r[1]], request[r][n].ticket)
        BY <1>0, <1>b, <4>1 DEF ClaimRun, ClaimRequest
      <4> QED
        BY <1>0, <4>1, <4>2 DEF ClaimRequest
    <3> QED
      BY <1>2, <3>1, <3>2, <3>3
  <2> QED
    BY <1>h, <2>1, <2>2, <2>3
<1>3. CASE PostNote(r) \/ TakeReplay(r)
  <2>1. result' = result /\ request' = request
    BY <1>3 DEF PostNote, TakeReplay
  <2>2. PICK k : k = Posted(r).ticket
    OBVIOUS
  <2>3. /\ ToolMoves(r) /\ tool'[r].pc \in {"first", "last", "assign"} /\ tool'[r].ticket = k
        /\ tool[r].pc = "waiting" /\ Posted(r).pc \in {"created", "replayed"}
    BY <1>3, <2>2, PostNoteDoes, TakeReplayDoes
  <2>4. PICK n \in Orders : Posted(r) = request[r][n]
    BY <2>3, PostedRequest
  <2>5. OpenedIn(ticket', says[r[1]], k)
    BY <1>0, <1>b, <2>2, <2>3, <2>4 DEF ClaimRun, ClaimRequest
  <2> QED
    BY <1>g, <2>1, <2>3, <2>5
<1>5. CASE FirstResult(r) \/ LastResult(r)
  <2>1. request' = request /\ "ticket" \in Modes
    BY <1>5 DEF FirstResult, LastResult, Modes
  <2>2. PICK pc \in {"assign", "last", "idle"} :
           /\ Write(r, Result("ticket", tool[r].ticket)) /\ ToolAt(r, pc) /\ tool[r].pc \in {"first", "last"}
    BY <1>5 DEF FirstResult, LastResult
  <2>3. pc \in ToolPcs /\ tool[r].pc \notin {"idle", "waiting"}
    BY <2>2, ToolPcsFacts
  <2>4. ToolMoves(r) /\ Hits(r, pc) /\ FilesTake(r, Result("ticket", tool[r].ticket))
    BY <2>1, <2>2, <2>3, ReportDoes
  <2>5. OpenedIn(ticket', says[r[1]], tool[r].ticket)
    BY <1>0, <1>b, <2>2 DEF ClaimRun
  <2>6. BackedIn(ticket', says[r[1]], Result("ticket", tool[r].ticket))
    BY <2>5, ResultClaims
  <2>7. tool'[r].pc \in {"assign", "last", "idle"} /\ tool'[r].ticket = tool[r].ticket
    BY <2>2, <2>4 DEF Hits
  <2> QED
    BY <1>g, <2>1, <2>4, <2>5, <2>6, <2>7
<1>6. CASE ReportUpdate(r)
  <2>1. request' = request /\ "update" \in Modes /\ "idle" \in ToolPcs
    BY <1>6 DEF ReportUpdate, Modes, ToolPcs
  <2>2. /\ Write(r, Result("update", tool[r].ticket)) /\ ToolAt(r, "idle") /\ tool[r].pc = "report"
    BY <1>6 DEF ReportUpdate
  <2>3. ToolMoves(r) /\ Hits(r, "idle") /\ FilesTake(r, Result("update", tool[r].ticket))
    BY <2>1, <2>2, ReportDoes
  <2>4. UpdatedIn(ticket', says[r[1]], tool[r].ticket)
    BY <1>0, <1>b, <2>2 DEF ClaimRun
  <2>5. BackedIn(ticket', says[r[1]], Result("update", tool[r].ticket))
    BY <2>4, ResultClaims
  <2> QED
    BY <1>g, <2>1, <2>3, <2>5 DEF Hits
<1>7. CASE AssignAgent(r)
  <2>1. request' = request /\ result' = result
    BY <1>7 DEF AssignAgent
  <2>2. ToolMoves(r) /\ tool[r].pc = "assign" /\ Hits(r, "last")
    BY <1>7, AssignAgentDoes
  <2>3. OpenedIn(ticket', says[r[1]], tool[r].ticket)
    BY <1>0, <1>b, <2>2 DEF ClaimRun
  <2> QED
    BY <1>g, <2>1, <2>2, <2>3 DEF Hits
<1>8. CASE Respond(r) \/ SetStatus(r)
  <2>1. request' = request /\ result' = result
    BY <1>8 DEF Respond, SetStatus
  <2>2. /\ ToolMoves(r) /\ tool'[r].pc \in {"status", "report"} /\ tool'[r].ticket = tool[r].ticket
        /\ tool[r].pc = "status" \/ RespondedTo(tool[r].ticket, says[r[1]])
    BY <1>8, RespondDoes, SetStatusDoes DEF Hits
  <2>3. UpdatedIn(ticket', says[r[1]], tool[r].ticket)
    <3>1. CASE tool[r].pc = "status"
      BY <1>0, <1>b, <3>1 DEF ClaimRun
    <3>2. CASE RespondedTo(tool[r].ticket, says[r[1]])
      BY <1>0, <3>2, RespondedRow DEF UpdatedIn, RowStep
    <3> QED
      BY <2>2, <3>1, <3>2
  <2> QED
    BY <1>g, <2>1, <2>2, <2>3
<1>9. CASE ToolFails(r)
  <2>1. result' = result /\ request' = request
    BY <1>9 DEF ToolFails
  <2>2. ToolMoves(r) /\ tool'[r].pc = "idle"
    BY <1>9, ToolFailsDoes DEF Hits
  <2> QED
    BY <1>g, <2>1, <2>2
<1> QED
  BY <1>1, <1>2, <1>3, <1>5, <1>6, <1>7, <1>8, <1>9 DEF ToolStep, Serve

LEMMA ClaimsStart == Init => ClaimsInv
<1> SUFFICES ASSUME Init PROVE ClaimsInv
  OBVIOUS
<1>1. ASSUME NEW t \in Turns PROVE ClaimTurn(t)
  <2>1. turn[t].reply = NoResult
    BY DEF Init
  <2> QED
    BY <2>1, NothingClaimed DEF ClaimTurn
<1>2. ASSUME NEW r \in Runs PROVE ClaimRun(r)
  <2>1. /\ tool[r].pc = "idle" /\ \A n \in Orders : request[r][n].pc = "none"
        /\ result[r].shown = NoResult /\ result[r].action = NoResult
    BY DEF Init
  <2> QED
    BY <2>1, NothingClaimed DEF ClaimRun, ClaimRequest
<1> QED
  BY <1>1, <1>2 DEF ClaimsInv

LEMMA ClaimsStep == Sound /\ SearchInv /\ ClaimsInv /\ [Next]_vars => ClaimsInv'
<1> SUFFICES ASSUME Sound, SearchInv, ClaimsInv, [Next]_vars PROVE ClaimsInv'
  OBVIOUS
<1>0. Kept
  BY SoundStep
<1>1. ASSUME NEW t \in Turns, Open(t) \/ HarnessEnds(t) \/ TimesOut(t) \/ Close(t) PROVE ClaimsInv'
  BY <1>0, <1>1, ClaimsTurnStep
<1>2. ASSUME NEW r \in Runs, Command(r) \/ Serve(r) \/ ToolStep(r) \/ ToolFails(r) PROVE ClaimsInv'
  BY <1>0, <1>2, ClaimsRunStep
<1>3. CASE UNCHANGED vars
  BY <1>0, <1>3, ClaimTurnStays, ClaimRunStays DEF vars, ClaimsInv, ToolAlike
<1> QED
  BY <1>1, <1>2, <1>3 DEF Next

\* What a turn tells the user about tickets is so (_chat_agent_turn and
\* ops_chat_tool.py): an update is noted on the ticket the reply names, a general
\* reply claims no ticket work, a ticket reported as opened holds the message in
\* its description, and one that was only found by its session is reported of
\* requests of work alone.
THEOREM RepliesAreBacked == Spec => []ClaimsAreBacked
<1>1. Init => Sound /\ SearchInv /\ ClaimsInv
  BY SoundStarts, SearchStarts, ClaimsStart
<1>2. Sound /\ SearchInv /\ ClaimsInv /\ [Next]_vars => (Sound /\ SearchInv /\ ClaimsInv)'
  BY SoundStep, SearchStep, ClaimsStep
<1>3. Sound /\ SearchInv /\ ClaimsInv => ClaimsAreBacked
  <2> SUFFICES ASSUME ClaimsInv, NEW t \in Turns
               PROVE  /\ Says(t, "general") => ~turn[t].reply.claims
                      /\ Says(t, "update") => says[t] \in ticket[turn[t].reply.ticket].responses
                      /\ Says(t, "ticket") => says[t] \in ticket[turn[t].reply.ticket].described
                      /\ Says(t, "found") => Kind[says[t]] = "work"
    BY DEF ClaimsAreBacked
  <2>1. ClaimTurn(t)
    BY DEF ClaimsInv
  <2> QED
    BY <2>1 DEF ClaimTurn, Says, Done, BackedIn, UpdatedIn, OpenedIn, Honest
<1> QED
  BY <1>1, <1>2, <1>3, PTL DEF Spec
-----------------------------------------------------------------------------
(* A ticket reported as opened has its agent, was to have none, or has     *)
(* somebody on the way.                                                    *)

\* The ticket has its agent, was to have none, is in the hands of a tool that is on
\* its way to assign one, or a request failed.
AttendedIn(rs, off, tools, failed, k) ==
  /\ k \in DOMAIN rs
  /\ \/ rs[k].assigned \/ k \in off \/ failed > 0
     \/ \E r \in Runs : tools[r].ticket = k /\ tools[r].pc \in {"first", "assign"}
Attends(rs, off, tools, failed, res) ==
  res.mode \in {"ticket", "found"} => AttendedIn(rs, off, tools, failed, res.ticket)

\* It has its agent or is to have none.
Settled(rs, off, k) == k \in DOMAIN rs /\ (rs[k].assigned \/ k \in off)

AssignTurn(t) == Attends(ticket, declined, tool, faults, turn[t].reply)
AssignRun(r) ==
  /\ Attends(ticket, declined, tool, faults, result[r].shown) /\ Attends(ticket, declined, tool, faults, result[r].action)
  /\ tool[r].pc = "last" => Settled(ticket, declined, tool[r].ticket)
  /\ tool[r].pc = "first" /\ ~Spawns(r) => tool[r].ticket \in declined
AssignRow(k) == ticket[k].noted # "no" => AttendedIn(ticket, declined, tool, faults, k)

AssignInv ==
  /\ \A t \in Turns : AssignTurn(t)
  /\ \A r \in Runs : AssignRun(r)
  /\ \A k \in DOMAIN ticket : AssignRow(k)

\* Nothing that was attended is forgotten by a step.
StillAttended == \A k : AttendedIn(ticket, declined, tool, faults, k) => AttendedIn(ticket', declined', tool', faults', k)

LEMMA NobodyLeaves ==
  ASSUME Kept, faults' = faults, declined' = declined, \A q \in Runs : ToolAlike(q)
  PROVE  StillAttended
<1>1. RowsKept
  BY SameSays
<1> SUFFICES ASSUME NEW k, AttendedIn(ticket, declined, tool, faults, k) PROVE AttendedIn(ticket', declined', tool', faults', k)
  BY DEF StillAttended
<1> QED
  BY <1>1 DEF AttendedIn, RowsKept, ToolAlike

LEMMA OneMoves ==
  ASSUME Kept, faults' = faults, declined \subseteq declined', NEW r \in Runs, ToolMoves(r),
         \/ tool[r].pc \notin {"first", "assign"}
         \/ tool'[r].ticket = tool[r].ticket /\ tool'[r].pc \in {"first", "assign"}
         \/ Settled(ticket', declined', tool[r].ticket)
  PROVE  StillAttended
<1>1. RowsKept
  BY SameSays
<1> SUFFICES ASSUME NEW k, AttendedIn(ticket, declined, tool, faults, k) PROVE AttendedIn(ticket', declined', tool', faults', k)
  BY DEF StillAttended
<1>2. k \in DOMAIN ticket /\ k \in DOMAIN ticket'
  BY <1>1 DEF AttendedIn, RowsKept
<1>3. CASE ticket[k].assigned \/ k \in declined \/ faults > 0
  BY <1>1, <1>2, <1>3 DEF AttendedIn, RowsKept
<1>4. CASE \E q \in Runs : tool[q].ticket = k /\ tool[q].pc \in {"first", "assign"}
  <2>1. PICK q \in Runs : tool[q].ticket = k /\ tool[q].pc \in {"first", "assign"}
    BY <1>4
  <2>2. CASE q # r
    BY <1>2, <2>1, <2>2 DEF AttendedIn, ToolMoves
  <2>3. CASE q = r
    BY <1>2, <2>1, <2>3 DEF AttendedIn, Settled
  <2> QED
    BY <2>2, <2>3
<1> QED
  BY <1>3, <1>4 DEF AttendedIn

LEMMA AttendsStays ==
  ASSUME StillAttended
  PROVE  \A res : Attends(ticket, declined, tool, faults, res) => Attends(ticket', declined', tool', faults', res)
  BY DEF StillAttended, Attends

LEMMA AssignRunStays ==
  ASSUME Kept, StillAttended, declined \subseteq declined', NEW q, AssignRun(q), ToolAlike(q), result'[q] = result[q]
  PROVE  AssignRun(q)'
<1>1. RowsKept
  BY SameSays
<1>2. /\ Attends(ticket', declined', tool', faults', result[q].shown) /\ Attends(ticket', declined', tool', faults', result[q].action)
  BY AttendsStays DEF AssignRun
<1>3. tool[q].pc = "last" => Settled(ticket', declined', tool[q].ticket)
  BY <1>1 DEF AssignRun, RowsKept, Settled
<1> QED
  BY <1>2, <1>3 DEF AssignRun, ToolAlike, Spawns

LEMMA AssignTurnStays ==
  ASSUME StillAttended, NEW u, AssignTurn(u), turn'[u] = turn[u]
  PROVE  AssignTurn(u)'
<1>1. Attends(ticket', declined', tool', faults', turn[u].reply)
  BY AttendsStays DEF AssignTurn
<1> QED
  BY <1>1 DEF AssignTurn

\* The rows: a note that is new is on a ticket that is attended.
LEMMA AssignRowsStay ==
  ASSUME AssignInv, StillAttended,
         \A k \in DOMAIN ticket' : ticket'[k].noted # "no" =>
           (k \in DOMAIN ticket /\ ticket[k].noted # "no") \/ AttendedIn(ticket', declined', tool', faults', k)
  PROVE  \A k \in DOMAIN ticket' : AssignRow(k)'
<1> SUFFICES ASSUME NEW k \in DOMAIN ticket', ticket'[k].noted # "no"
             PROVE  AttendedIn(ticket', declined', tool', faults', k)
  BY DEF AssignRow
<1> QED
  BY DEF AssignInv, AssignRow, StillAttended

LEMMA AssignAfterTurn ==
  ASSUME AssignInv, Kept, NEW t \in Turns, Moves(t), faults' = faults, result' = result,
         declined' = declined, \A q \in Runs : ToolAlike(q),
         DOMAIN ticket' = DOMAIN ticket, \A k \in DOMAIN ticket : ticket'[k].noted = ticket[k].noted,
         \/ Attends(ticket, declined, tool, faults, turn'[t].reply)
         \/ Attends(ticket', declined', tool', faults', turn'[t].reply)
  PROVE  AssignInv'
<1>1. StillAttended
  BY NobodyLeaves
<1>2. Attends(ticket', declined', tool', faults', turn'[t].reply)
  BY <1>1, AttendsStays
<1>3. ASSUME NEW u \in Turns PROVE AssignTurn(u)'
  <2>1. CASE u = t
    BY <1>2, <2>1 DEF AssignTurn
  <2>2. CASE u # t
    BY <1>1, <2>2, AssignTurnStays DEF Moves, AssignInv
  <2> QED
    BY <2>1, <2>2
<1>4. ASSUME NEW q \in Runs PROVE AssignRun(q)'
  BY <1>1, AssignRunStays DEF AssignInv
<1>5. \A k \in DOMAIN ticket' : AssignRow(k)'
  BY <1>1, AssignRowsStay
<1> QED
  BY <1>3, <1>4, <1>5 DEF AssignInv

LEMMA AssignAfterRun ==
  ASSUME AssignInv, Kept, StillAttended, NEW r \in Runs, turn' = turn, AssignRun(r)', declined \subseteq declined',
         \A q \in Runs \ {r} : tool'[q] = tool[q] /\ result'[q] = result[q],
         \A k \in DOMAIN ticket' : ticket'[k].noted # "no" =>
           (k \in DOMAIN ticket /\ ticket[k].noted # "no") \/ AttendedIn(ticket', declined', tool', faults', k)
  PROVE  AssignInv'
<1>1. ASSUME NEW u \in Turns PROVE AssignTurn(u)'
  BY AssignTurnStays DEF AssignInv
<1>2. ASSUME NEW q \in Runs PROVE AssignRun(q)'
  <2>1. CASE q = r
    BY <2>1
  <2>2. CASE q # r
    BY <2>2, AssignRunStays DEF AssignInv, ToolAlike
  <2> QED
    BY <2>1, <2>2
<1>3. \A k \in DOMAIN ticket' : AssignRow(k)'
  BY AssignRowsStay
<1> QED
  BY <1>1, <1>2, <1>3 DEF AssignInv

LEMMA OtherResults ==
  \A rs, off, tools, f, k :
    /\ Attends(rs, off, tools, f, NoResult) /\ Attends(rs, off, tools, f, Result("update", k))
    /\ Attends(rs, off, tools, f, Result("general", k)) /\ Attends(rs, off, tools, f, Result("form", k))
    /\ Attends(rs, off, tools, f, Result("ticket", k)) <=> AttendedIn(rs, off, tools, f, k)
    /\ Attends(rs, off, tools, f, Result("found", k)) <=> AttendedIn(rs, off, tools, f, k)
  BY DEF Attends, Result, NoResult

LEMMA AssignTurnStep ==
  ASSUME Sound, AssignInv, Kept, NEW t \in Turns, Open(t) \/ HarnessEnds(t) \/ TimesOut(t) \/ Close(t)
  PROVE  AssignInv'
<1>0. /\ Attends(ticket, declined, tool, faults, turn[t].reply) /\ TypeInv
      /\ \A r \in Runs : Attends(ticket, declined, tool, faults, result[r].shown) /\ Attends(ticket, declined, tool, faults, result[r].action)
  BY DEF AssignInv, AssignTurn, AssignRun, Sound
<1>1. CASE Open(t)
  <2>1. UNCHANGED <<ticket, tool, result, declined, faults>>
    BY <1>1 DEF Open, FindSession, InsertSession, RecordUser, ReadContext, rows
  <2>2. Moves(t) /\ turn'[t].reply = turn[t].reply
    BY <1>1, FindDoes, InsertDoes, RecordUserDoes, ReadContextDoes DEF Open
  <2> QED
    BY <1>0, <2>1, <2>2, AssignAfterTurn DEF ToolAlike
<1>2. CASE HarnessEnds(t)
  <2>1. UNCHANGED <<ticket, tool, result, declined, faults>>
    BY <1>2 DEF HarnessEnds, rows
  <2>2. PICK r \in Runs : \E res \in {result[r].shown, result[r].action} :
           Moves(t) /\ turn'[t].reply \in {res, NoResult}
    BY <1>2, HarnessEndsDoes
  <2>3. Moves(t) /\ turn'[t].reply \in {result[r].shown, result[r].action, NoResult}
    BY <2>2
  <2>4. Attends(ticket, declined, tool, faults, turn'[t].reply)
    BY <1>0, <2>3, OtherResults
  <2> QED
    BY <2>1, <2>3, <2>4, AssignAfterTurn DEF ToolAlike
<1>3. CASE TimesOut(t)
  <2>1. UNCHANGED <<ticket, tool, result, declined, faults>>
    BY <1>3 DEF TimesOut, rows
  <2>2. PICK r \in Runs :
           /\ r[1] = t /\ turn'[t].pc = "killing" /\ turn'[t].reply \in {result[r].shown, result[r].action} /\ Moves(t)
    BY <1>3, TimesOutDoes
  <2>3. Attends(ticket, declined, tool, faults, turn'[t].reply)
    BY <1>0, <2>2
  <2> QED
    BY <2>1, <2>2, <2>3, AssignAfterTurn DEF ToolAlike
<1>4. CASE Killed(t)
  <2>1. UNCHANGED <<ticket, result, declined, faults>>
    BY <1>4 DEF Killed, rows
  <2>2. /\ Moves(t) /\ turn'[t].reply \in {turn[t].reply, NoResult}
        /\ \A q \in Runs : ToolAlike(q)
    BY <1>4, KilledDoes
  <2>3. Attends(ticket, declined, tool, faults, turn'[t].reply)
    BY <1>0, <2>2, OtherResults
  <2> QED
    BY <2>1, <2>2, <2>3, AssignAfterTurn DEF ToolAlike
<1>5. CASE RecoverUpdate(t)
  <2>1. UNCHANGED <<ticket, tool, result, declined, faults>>
    BY <1>5 DEF RecoverUpdate, rows
  <2>2. /\ Moves(t)
        /\ turn'[t].reply = turn[t].reply \/ \E k \in DOMAIN ticket : turn'[t].reply = Result("update", k)
    BY <1>5, RecoverUpdateDoes
  <2>3. Attends(ticket, declined, tool, faults, turn'[t].reply)
    BY <1>0, <2>2, OtherResults
  <2> QED
    BY <2>1, <2>2, <2>3, AssignAfterTurn DEF ToolAlike
<1>6. CASE RecoverTicket(t)
  <2>1. UNCHANGED <<ticket, tool, result, declined, faults>>
    BY <1>6 DEF RecoverTicket, rows
  <2>2. /\ Moves(t)
        /\ \/ turn'[t].reply = turn[t].reply
           \/ \E k \in DOMAIN ticket : Taken(t, turn'[t].reply, k)
    BY <1>6, RecoverTicketDoes
  <2>3. \A k \in DOMAIN ticket : Noted(k) => AttendedIn(ticket, declined, tool, faults, k)
    BY DEF AssignInv, AssignRow, Noted
  <2>4. Attends(ticket, declined, tool, faults, turn'[t].reply)
    BY <1>0, <2>2, <2>3, OtherResults DEF Taken
  <2> QED
    BY <2>1, <2>2, <2>4, AssignAfterTurn DEF ToolAlike
<1>7. CASE Fallback(t)
  <2>1. UNCHANGED <<tool, result, declined, faults>>
    BY <1>7 DEF Fallback
  <2>2. Moves(t)
    BY <1>7, FallbackDoes
  <2>3. CASE \E k \in DOMAIN ticket :
               /\ turn'[t].reply = Result("update", k)
               /\ RowTo(k, [ticket[k] EXCEPT !.responses = ticket[k].responses \cup {says[t]}, !.assigned = TRUE])
    <3>1. PICK k \in DOMAIN ticket :
               /\ turn'[t].reply = Result("update", k)
               /\ RowTo(k, [ticket[k] EXCEPT !.responses = ticket[k].responses \cup {says[t]}, !.assigned = TRUE])
      BY <2>3
    <3>2. RowStep(k) /\ ticket'[k].noted = ticket[k].noted
      BY <1>0, <3>1, FallbackRow
    <3>3. DOMAIN ticket' = DOMAIN ticket /\ \A j \in DOMAIN ticket : ticket'[j].noted = ticket[j].noted
      BY <3>2 DEF RowStep
    <3>4. Attends(ticket, declined, tool, faults, turn'[t].reply)
      BY <3>1, OtherResults
    <3> QED
      BY <2>1, <2>2, <3>3, <3>4, AssignAfterTurn DEF ToolAlike
  <2>4. CASE turn'[t].reply = Result("general", 0) /\ ticket' = ticket
    <3>1. Attends(ticket, declined, tool, faults, turn'[t].reply)
      BY <2>4, OtherResults
    <3> QED
      BY <2>1, <2>2, <2>4, <3>1, AssignAfterTurn DEF ToolAlike
  <2> QED
    BY <1>7, <2>3, <2>4, FallbackDoes
<1>8. CASE FallbackCancel(t)
  <2>1. UNCHANGED <<tool, result, declined, faults>>
    BY <1>8 DEF FallbackCancel
  <2>2. /\ Moves(t) /\ turn'[t].reply = turn[t].reply /\ StatusTo(turn[t].reply.ticket, "cancelled")
    BY <1>8, FallbackCancelDoes DEF StatusTo
  <2>3. RowStep(turn[t].reply.ticket) /\ ticket'[turn[t].reply.ticket].noted = ticket[turn[t].reply.ticket].noted
    BY <1>0, <2>2, StatusRow
  <2>4. DOMAIN ticket' = DOMAIN ticket /\ \A j \in DOMAIN ticket : ticket'[j].noted = ticket[j].noted
    BY <2>3 DEF RowStep
  <2> QED
    BY <1>0, <2>1, <2>2, <2>4, AssignAfterTurn DEF ToolAlike
<1>9. CASE RecordReply(t)
  <2>1. UNCHANGED <<ticket, tool, result, declined, faults>>
    BY <1>9 DEF RecordReply
  <2>2. Moves(t) /\ turn'[t].reply = turn[t].reply
    BY <1>9, RecordReplyDoes
  <2> QED
    BY <1>0, <2>1, <2>2, AssignAfterTurn DEF ToolAlike
<1> QED
  BY <1>1, <1>2, <1>3, <1>4, <1>5, <1>6, <1>7, <1>8, <1>9 DEF Close

LEMMA AssignRunMoved ==
  ASSUME StillAttended, NEW r, AssignRun(r),
         result' = result \/ \E res : FilesTake(r, res) /\ Attends(ticket', declined', tool', faults', res),
         tool'[r].pc = "last" => Settled(ticket', declined', tool'[r].ticket),
         tool'[r].pc = "first" /\ ~Spawns(r)' => tool'[r].ticket \in declined'
  PROVE  AssignRun(r)'
<1>1. /\ Attends(ticket', declined', tool', faults', result[r].shown) /\ Attends(ticket', declined', tool', faults', result[r].action)
  BY AttendsStays DEF AssignRun
<1>2. /\ Attends(ticket', declined', tool', faults', result'[r].shown) /\ Attends(ticket', declined', tool', faults', result'[r].action)
  <2>1. CASE result' = result
    BY <1>1, <2>1
  <2>2. CASE \E res : FilesTake(r, res) /\ Attends(ticket', declined', tool', faults', res)
    BY <1>1, <2>2 DEF FilesTake
  <2> QED
    BY <2>1, <2>2
<1> QED
  BY <1>2 DEF AssignRun

LEMMA AssignRunStep ==
  ASSUME Sound, AssignInv, Kept, NEW r \in Runs, Command(r) \/ Serve(r) \/ ToolStep(r) \/ ToolFails(r)
  PROVE  AssignInv'
<1>0. /\ AssignRun(r) /\ TypeInv /\ RowsKept /\ result \in [Runs -> Files] /\ tool \in [Runs -> Tools]
      /\ faults \in Nat
  BY SameSays DEF AssignInv, Sound, TypeInv
<1>a. turn' = turn
  BY DEF Command, AnswerCommand, FormCommand, RefuseCreate, CreateCommand, ContinueCommand, Serve, Lookup,
         InsertTicket, WriteScope, ToolStep, PostNote, TakeReplay, FirstResult, AssignAgent, LastResult, Respond,
         SetStatus, ReportUpdate, ToolFails
<1>1. CASE Command(r)
  <2>1. ticket' = ticket /\ declined' = declined /\ faults' = faults
    BY <1>1 DEF Command, AnswerCommand, FormCommand, RefuseCreate, CreateCommand, ContinueCommand, rows
  <2>2. ToolMoves(r) /\ tool[r].pc = "idle" /\ tool'[r].pc \in {"idle", "waiting", "respond"}
    BY <1>1, AnswerCommandDoes, FormCommandDoes, RefuseCreateDoes, CreateCommandDoes, ContinueCommandDoes DEF Command
  <2>3. StillAttended
    BY <2>1, <2>2, OneMoves
  <2>4. result' = result \/ \E res : FilesTake(r, res) /\ res.mode \in {"general", "form"}
    BY <1>1, AnswerCommandDoes, FormCommandDoes DEF Command, RefuseCreate, CreateCommand, ContinueCommand
  <2>5. result' = result \/ \E res : FilesTake(r, res) /\ Attends(ticket', declined', tool', faults', res)
    BY <2>4 DEF Attends
  <2>6. AssignRun(r)'
    BY <1>0, <2>2, <2>3, <2>5, AssignRunMoved
  <2>7. \A q \in Runs \ {r} : tool'[q] = tool[q] /\ result'[q] = result[q]
    BY <2>2, <2>4 DEF ToolMoves, FilesTake
  <2> QED
    BY <1>a, <2>1, <2>3, <2>6, <2>7, AssignAfterRun
<1>2. ASSUME NEW n \in Orders, Lookup(r, n) \/ InsertTicket(r, n) \/ WriteScope(r, n) PROVE AssignInv'
  <2>1. result' = result /\ tool' = tool /\ declined' = declined /\ faults' = faults
    BY <1>2 DEF Lookup, InsertTicket, WriteScope
  <2>2. StillAttended
    BY <2>1, NobodyLeaves DEF ToolAlike
  <2>3. AssignRun(r)'
    BY <1>0, <2>1, <2>2, AssignRunStays DEF ToolAlike
  <2>4. \A k \in DOMAIN ticket' : ticket'[k].noted # "no" => k \in DOMAIN ticket /\ ticket[k].noted # "no"
    <3>1. CASE Lookup(r, n)
      BY <3>1 DEF Lookup, rows
    <3>2. CASE InsertTicket(r, n)
      <4>1. PICK k \in Nat \ {0} :
               /\ RequestMoves(r, n) /\ request[r][n].pc = "insert" /\ Started(r[1])
               /\ request'[r][n].pc = "scope" /\ request'[r][n].ticket = k
               /\ ticket' \in Seq(Row) /\ DOMAIN ticket' = DOMAIN ticket \cup {k} /\ k \notin DOMAIN ticket
               /\ \A j \in DOMAIN ticket : ticket'[j] = ticket[j]
               /\ ticket'[k].by = r /\ ticket'[k].text = says[r[1]] /\ ticket'[k].described = turn[r[1]].history
               /\ ticket'[k].session = 0 /\ ticket'[k].status = "new" /\ ticket'[k].noted = "no"
        BY <3>2, InsertTicketDoes
      <4> QED
        BY <4>1
    <3>3. CASE WriteScope(r, n)
      <4>1. PICK k : k = request[r][n].ticket
        OBVIOUS
      <4>2. Scoped(k, turn[r[1]].session)
        BY <3>3, <4>1, WriteScopeDoes
      <4>3. RowStep(k) /\ ticket'[k].noted = ticket[k].noted
        BY <1>0, <4>2, ScopedRow
      <4> QED
        BY <4>3 DEF RowStep
    <3> QED
      BY <1>2, <3>1, <3>2, <3>3
  <2> QED
    BY <1>a, <2>1, <2>2, <2>3, <2>4, AssignAfterRun
<1>3. CASE PostNote(r)
  <2>1. result' = result /\ faults' = faults
    BY <1>3 DEF PostNote
  <2>2. PICK j : j = Posted(r).ticket
    OBVIOUS
  <2>3. /\ ToolMoves(r) /\ tool[r].pc = "waiting" /\ tool'[r].pc = "first" /\ tool'[r].ticket = j
        /\ tool'[r].asks = tool[r].asks /\ Declined(r, j) /\ \E n : NotedAs(j, n)
    BY <1>3, <2>2, PostNoteDoes
  <2>4. declined \subseteq declined' /\ (~Spawns(r)' => j \in declined')
    BY <2>3 DEF Declined, Spawns
  <2>5. StillAttended
    BY <2>1, <2>3, <2>4, OneMoves
  <2>6. AssignRun(r)'
    BY <1>0, <2>1, <2>3, <2>4, <2>5, AssignRunMoved
  <2>7. RowStep(j)
    BY <1>0, <2>3, NotedRow
  <2>8. AttendedIn(ticket', declined', tool', faults', j)
    BY <2>3, <2>7 DEF AttendedIn, RowStep
  <2>9. \A k \in DOMAIN ticket' : ticket'[k].noted # "no" =>
          (k \in DOMAIN ticket /\ ticket[k].noted # "no") \/ AttendedIn(ticket', declined', tool', faults', k)
    BY <2>7, <2>8 DEF RowStep
  <2> QED
    BY <1>a, <2>1, <2>3, <2>4, <2>5, <2>6, <2>9, AssignAfterRun DEF ToolMoves
<1>4. CASE TakeReplay(r)
  <2>1. result' = result /\ faults' = faults /\ ticket' = ticket
    BY <1>4 DEF TakeReplay, rows
  <2>2. PICK j : j = Posted(r).ticket
    OBVIOUS
  <2>3. /\ ToolMoves(r) /\ tool[r].pc = "waiting" /\ tool'[r].ticket = j /\ j \in DOMAIN ticket
        /\ \/ tool'[r].pc = "assign"
           \/ tool'[r].pc = "last" /\ (ticket[j].assigned \/ ~Spawns(r))
        /\ Declined(r, j)
    BY <1>4, <2>2, TakeReplayDoes
  <2>4. declined \subseteq declined' /\ (tool'[r].pc = "last" => Settled(ticket', declined', j))
    BY <2>1, <2>3 DEF Declined, Settled
  <2>5. StillAttended
    BY <2>1, <2>3, <2>4, OneMoves
  <2>6. AssignRun(r)'
    BY <1>0, <2>1, <2>3, <2>4, <2>5, AssignRunMoved
  <2> QED
    BY <1>a, <2>1, <2>3, <2>4, <2>5, <2>6, AssignAfterRun DEF ToolMoves
<1>5. CASE FirstResult(r)
  <2>1. ticket' = ticket /\ declined' = declined /\ faults' = faults /\ "ticket" \in Modes
    BY <1>5 DEF FirstResult, Modes, rows
  <2>2. PICK pc \in {"assign", "last"} :
          /\ Write(r, Result("ticket", tool[r].ticket)) /\ ToolAt(r, pc) /\ tool[r].pc = "first"
          /\ pc = "last" => ~Spawns(r)
    BY <1>5 DEF FirstResult
  <2>3. /\ ToolMoves(r) /\ Hits(r, pc) /\ FilesTake(r, Result("ticket", tool[r].ticket))
        /\ tool[r].ticket \in DOMAIN ticket
    BY <2>1, <2>2, ReportDoes, ToolPcsFacts
  <2>4. pc = "last" => Settled(ticket', declined', tool[r].ticket)
    BY <1>0, <2>1, <2>2, <2>3 DEF AssignRun, Settled
  <2>5. StillAttended
    BY <2>1, <2>2, <2>3, <2>4, OneMoves DEF Hits
  <2>6. AttendedIn(ticket', declined', tool', faults', tool[r].ticket)
    <3>1. CASE pc = "assign"
      BY <2>1, <2>3, <3>1 DEF AttendedIn, Hits
    <3>2. CASE pc = "last"
      BY <2>4, <3>2 DEF AttendedIn, Settled
    <3> QED
      BY <2>2, <3>1, <3>2
  <2>7. Attends(ticket', declined', tool', faults', Result("ticket", tool[r].ticket))
    BY <2>6, OtherResults
  <2>8. AssignRun(r)'
    BY <1>0, <2>2, <2>3, <2>4, <2>5, <2>7, AssignRunMoved DEF Hits
  <2> QED
    BY <1>a, <2>1, <2>3, <2>5, <2>8, AssignAfterRun DEF ToolMoves, FilesTake
<1>6. CASE AssignAgent(r)
  <2>1. result' = result /\ declined' = declined /\ faults' = faults
    BY <1>6 DEF AssignAgent
  <2>2. ToolMoves(r) /\ Hits(r, "last") /\ Assigned(tool[r].ticket)
    BY <1>6, AssignAgentDoes
  <2>3. /\ RowStep(tool[r].ticket) /\ ticket'[tool[r].ticket].assigned = TRUE
        /\ ticket'[tool[r].ticket].noted = ticket[tool[r].ticket].noted
    BY <1>0, <2>2, AssignedRow
  <2>4. Settled(ticket', declined', tool[r].ticket)
    BY <2>3 DEF RowStep, Settled
  <2>5. StillAttended
    BY <2>1, <2>2, <2>4, OneMoves
  <2>6. AssignRun(r)'
    BY <1>0, <2>1, <2>2, <2>4, <2>5, AssignRunMoved DEF Hits
  <2>7. \A k \in DOMAIN ticket' : ticket'[k].noted # "no" => k \in DOMAIN ticket /\ ticket[k].noted # "no"
    BY <2>3 DEF RowStep
  <2> QED
    BY <1>a, <2>1, <2>2, <2>5, <2>6, <2>7, AssignAfterRun DEF ToolMoves
<1>7. CASE LastResult(r)
  <2>1. ticket' = ticket /\ declined' = declined /\ faults' = faults /\ "ticket" \in Modes
    BY <1>7 DEF LastResult, Modes, rows
  <2>2. /\ Write(r, Result("ticket", tool[r].ticket)) /\ ToolAt(r, "idle") /\ tool[r].pc = "last"
    BY <1>7 DEF LastResult
  <2>3. ToolMoves(r) /\ Hits(r, "idle") /\ FilesTake(r, Result("ticket", tool[r].ticket))
    BY <2>1, <2>2, ReportDoes, ToolPcsFacts
  <2>4. StillAttended
    BY <2>1, <2>2, <2>3, OneMoves
  <2>5. AttendedIn(ticket', declined', tool', faults', tool[r].ticket)
    BY <1>0, <2>1, <2>2 DEF AttendedIn, AssignRun, Settled
  <2>6. Attends(ticket', declined', tool', faults', Result("ticket", tool[r].ticket))
    BY <2>5, OtherResults
  <2>7. AssignRun(r)'
    BY <1>0, <2>3, <2>4, <2>6, AssignRunMoved DEF Hits
  <2> QED
    BY <1>a, <2>1, <2>3, <2>4, <2>7, AssignAfterRun DEF ToolMoves, FilesTake
<1>8. CASE Respond(r) \/ SetStatus(r)
  <2>1. result' = result /\ declined' = declined /\ faults' = faults
    BY <1>8 DEF Respond, SetStatus
  <2>2. /\ ToolMoves(r) /\ tool[r].pc \in {"respond", "status"} /\ tool'[r].pc \in {"status", "report"}
        /\ \/ RespondedTo(tool[r].ticket, says[r[1]])
           \/ \E status \in Status : StatusTo(tool[r].ticket, status)
    BY <1>8, RespondDoes, SetStatusDoes DEF Hits
  <2>3. StillAttended
    BY <2>1, <2>2, OneMoves
  <2>4. AssignRun(r)'
    BY <1>0, <2>1, <2>2, <2>3, AssignRunMoved
  <2>5. RowStep(tool[r].ticket) /\ ticket'[tool[r].ticket].noted = ticket[tool[r].ticket].noted
    BY <1>0, <2>2, RespondedRow, StatusRow
  <2>6. \A k \in DOMAIN ticket' : ticket'[k].noted # "no" => k \in DOMAIN ticket /\ ticket[k].noted # "no"
    BY <2>5 DEF RowStep
  <2> QED
    BY <1>a, <2>1, <2>2, <2>3, <2>4, <2>6, AssignAfterRun DEF ToolMoves
<1>9. CASE ReportUpdate(r)
  <2>1. ticket' = ticket /\ declined' = declined /\ faults' = faults /\ "update" \in Modes
    BY <1>9 DEF ReportUpdate, Modes, rows
  <2>2. /\ Write(r, Result("update", tool[r].ticket)) /\ ToolAt(r, "idle") /\ tool[r].pc = "report"
    BY <1>9 DEF ReportUpdate
  <2>3. ToolMoves(r) /\ Hits(r, "idle") /\ FilesTake(r, Result("update", tool[r].ticket))
    BY <2>1, <2>2, ReportDoes, ToolPcsFacts
  <2>4. StillAttended
    BY <2>1, <2>2, <2>3, OneMoves
  <2>5. Attends(ticket', declined', tool', faults', Result("update", tool[r].ticket))
    BY OtherResults
  <2>6. AssignRun(r)'
    BY <1>0, <2>3, <2>4, <2>5, AssignRunMoved DEF Hits
  <2> QED
    BY <1>a, <2>1, <2>3, <2>4, <2>6, AssignAfterRun DEF ToolMoves, FilesTake
<1>10. CASE ToolFails(r)
  <2>1. result' = result /\ declined' = declined
    BY <1>10 DEF ToolFails
  <2>2. ToolMoves(r) /\ tool'[r].pc = "idle" /\ faults' > 0
    BY <1>0, <1>10, ToolFailsDoes DEF Hits
  <2>3. \A k \in DOMAIN ticket' : AttendedIn(ticket', declined', tool', faults', k)
    BY <2>2 DEF AttendedIn
  <2>4. StillAttended
    BY <1>0, <2>3 DEF StillAttended, AttendedIn, RowsKept
  <2>5. AssignRun(r)'
    BY <1>0, <2>1, <2>2, <2>4, AssignRunMoved
  <2> QED
    BY <1>a, <2>1, <2>2, <2>3, <2>4, <2>5, AssignAfterRun DEF ToolMoves
<1> QED
  BY <1>1, <1>2, <1>3, <1>4, <1>5, <1>6, <1>7, <1>8, <1>9, <1>10 DEF ToolStep, Serve

LEMMA AssignStarts == Init => AssignInv
<1> SUFFICES ASSUME Init PROVE AssignInv
  OBVIOUS
<1>1. ASSUME NEW t \in Turns PROVE AssignTurn(t)
  <2>1. turn[t].reply = NoResult
    BY DEF Init
  <2> QED
    BY <2>1, OtherResults DEF AssignTurn
<1>2. ASSUME NEW r \in Runs PROVE AssignRun(r)
  <2>1. tool[r].pc = "idle" /\ result[r].shown = NoResult /\ result[r].action = NoResult
    BY DEF Init
  <2> QED
    BY <2>1, OtherResults DEF AssignRun
<1>3. ASSUME NEW k \in DOMAIN ticket, ticket[k].noted # "no" PROVE AttendedIn(ticket, declined, tool, faults, k)
  <2>1. scene \in Scenes /\ ticket = scene.before
    BY DEF Init
  <2>2. ticket[k].assigned
    BY <2>1, <1>3, EarlierAssumption
  <2> QED
    BY <1>3, <2>2 DEF AttendedIn
<1> QED
  BY <1>1, <1>2, <1>3 DEF AssignInv, AssignRow

LEMMA AssignStep == Sound /\ AssignInv /\ [Next]_vars => AssignInv'
<1> SUFFICES ASSUME Sound, AssignInv, [Next]_vars PROVE AssignInv'
  OBVIOUS
<1>0. Kept
  BY SoundStep
<1>1. ASSUME NEW t \in Turns, Open(t) \/ HarnessEnds(t) \/ TimesOut(t) \/ Close(t) PROVE AssignInv'
  BY <1>0, <1>1, AssignTurnStep
<1>2. ASSUME NEW r \in Runs, Command(r) \/ Serve(r) \/ ToolStep(r) \/ ToolFails(r) PROVE AssignInv'
  BY <1>0, <1>2, AssignRunStep
<1>3. CASE UNCHANGED vars
  BY <1>3 DEF vars, rows, AssignInv, AssignTurn, AssignRun, AssignRow, Attends, AttendedIn, Settled, Spawns
<1> QED
  BY <1>1, <1>2, <1>3 DEF Next

\* A ticket that a turn reports as opened has its agent, or a command was told not
\* to start one, or a tool that has it is still on its way to assign one, or a
\* request of a tool failed (create-ticket: note, result, assign-agent if
\* --spawn-agent is given and allowed, result again).
THEOREM ReportsHaveAnAgent == Spec => []ReportedIsAssigned
<1>1. Init => Sound /\ AssignInv
  BY SoundStarts, AssignStarts
<1>2. Sound /\ AssignInv /\ [Next]_vars => (Sound /\ AssignInv)'
  BY SoundStep, AssignStep
<1>3. Sound /\ AssignInv => ReportedIsAssigned
  <2> SUFFICES ASSUME AssignInv, NEW t \in Turns, Says(t, "ticket") \/ Says(t, "found")
               PROVE  \/ ticket[turn[t].reply.ticket].assigned \/ turn[t].reply.ticket \in declined \/ faults > 0
                      \/ \E r \in Runs : tool[r].ticket = turn[t].reply.ticket /\ tool[r].pc \in {"first", "assign"}
    BY DEF ReportedIsAssigned
  <2>1. AssignTurn(t)
    BY DEF AssignInv
  <2> QED
    BY <2>1 DEF AssignTurn, Attends, AttendedIn, Says
<1> QED
  BY <1>1, <1>2, <1>3, PTL DEF Spec
=============================================================================
