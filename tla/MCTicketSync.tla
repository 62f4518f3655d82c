---------------------------- MODULE MCTicketSync ----------------------------
EXTENDS TicketSync, TLC

CONSTANTS a, b, d, loop

Order(do, k) == [op |-> do, ticket |-> k, to |-> "new"]
Nothing == Order("none", 0)
Looping == Order("loop", 0)
Known == <<[ref |-> 1, status |-> "assigned", asked |-> None, agent |-> 0, told |-> FALSE]>>

\* The orders of three calls and of the loop, the rows at the start, how many objects
\* people create, the states they move them to, and how many requests and processes fail;
\* no agent's row is written late.
Scene(calls, looping, before, created, states, failing, crashing) ==
  [orders |-> (a :> calls[1]) @@ (b :> calls[2]) @@ (d :> calls[3]) @@ (loop :> looping),
   tickets |-> before, tracked |-> FALSE, known |-> Len(before), people |-> created, moves |-> states, faults |-> failing, crashes |-> crashing]

Tracked(s) == [s EXCEPT !.tracked = TRUE]

All == {"assigned", "resolved"}
Alone == <<Nothing, Nothing, Nothing>>

AllScenes == {
  \* the sync: two new objects; one that is created here; a full pass on demand beside
  \* the loop; an object pushed a second time
  Scene(Alone, Looping, <<>>, 2, All, 1, 0),
  Scene(<<Order("create", 0), Nothing, Nothing>>, Looping, <<>>, 0, {}, 1, 1),
  Scene(<<Order("syncAll", 0), Nothing, Nothing>>, Looping, <<>>, 1, {}, 0, 0),
  Scene(<<Order("push", 1), Order("ask", 1), Nothing>>, Looping, Known, 0, {}, 0, 0),
  \* the row: a question and its answer, a cancellation and a closing, beside the loop
  Scene(<<Order("ask", 1), Order("respond", 1), Nothing>>, Looping, Known, 0, All, 1, 0),
  Scene(<<[Order("status", 1) EXCEPT !.to = "cancelled"], [Order("close", 1) EXCEPT !.to = "resolved"], Nothing>>,
        Looping, Known, 0, All, 1, 0),
  \* a form with two submissions; a wait of the agent and a follow-up in the chat
  Scene(<<Order("askSecure", 1), Order("submit", 1), Order("submit", 1)>>, Nothing, Known, 0, {}, 0, 1),
  Scene(<<Order("assign", 1), Order("wait", 1), Order("chat", 1)>>, Nothing, Known, 0, {}, 0, 0),
  \* agents: two automatic assignments; what is assigned, taken away and resumed; a
  \* postmortem and a workflow build beside an agent
  Scene(<<Order("create", 0), Order("create", 0), Order("refresh", 1)>>, Nothing, <<>>, 0, {}, 0, 0),
  Scene(<<Order("assign", 1), Order("unassign", 1), Order("respond", 1)>>, Looping, Known, 0, {}, 0, 0),
  Tracked(Scene(<<Order("create", 0), Order("unassign", 1), Order("create", 0)>>, Nothing, <<>>, 0, {}, 0, 0)),
  Tracked(Scene(<<Order("assign", 1), Order("unassign", 1), Order("assign", 1)>>, Nothing, Known, 0, {}, 0, 0)),
  Scene(<<Order("postmortem", 1), Order("assign", 1), Order("respond", 1)>>, Nothing, Known, 0, {}, 0, 0),
  Scene(<<Order("workflow", 1), Order("assign", 1), Order("respond", 1)>>, Nothing, Known, 0, {}, 0, 0)}

\* A form and two submissions.
SubmittedTwice == {Scene(<<Order("askSecure", 1), Order("submit", 1), Order("submit", 1)>>, Nothing, Known, 0, {}, 0, 0)}
=============================================================================
