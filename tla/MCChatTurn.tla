----------------------------- MODULE MCChatTurn -----------------------------
EXTENDS ChatTurn, TLC

CONSTANTS t1, t2, work, more, chat, cancel, correct

Words == (work :> "work") @@ (more :> "work") @@ (chat :> "chat") @@ (cancel :> "cancel") @@
         (correct :> "update")
Before(status) ==
  <<[by |-> Earlier, text |-> more, described |-> {more}, session |-> 1, status |-> status,
     noted |-> "yes", responses |-> {}, assigned |-> TRUE]>>

\* One message, with one turn for it.
Alone(m, earlier, tries, orders, offered, options, mishaps) ==
  [says |-> (t1 :> m) @@ (t2 :> Silence), before |-> earlier, attempts |-> tries, commands |-> orders,
   offers |-> [t \in Turns |-> offered], asks |-> options, faults |-> mishaps]

\* A request of work with two attempts, two commands in each; the same with agents
\* that may not be started; two creates in one attempt, of which one may fail; a
\* new request, a cancellation, a correction that the tool takes for a new request,
\* and a chat in a room with a ticket; and one message posted twice.
AllScenes ==
  {Alone(work, <<>>, 2, 2, {"create", "answer", "form"}, {"spawn"}, 0),
   Alone(work, <<>>, 2, 1, {"create"}, {"spawn", "none"}, 0),
   Alone(work, <<>>, 1, 2, {"create"}, {"spawn"}, 1),
   Alone(work, Before("cancelled"), 2, 1, Commands, {"spawn", "none"}, 1),
   Alone(cancel, Before("new"), 2, 1, Commands, {"none", "closed"}, 1),
   Alone(correct, Before("in_progress"), 2, 1, {"create", "continue"}, {"spawn", "none"}, 0),
   Alone(chat, Before("new"), 2, 1, Commands, {"spawn"}, 1),
   [says |-> (t1 :> work) @@ (t2 :> work), before |-> <<>>, attempts |-> 1, commands |-> 1,
    offers |-> (t1 :> {"create"}) @@ (t2 :> {"answer"}), asks |-> {"spawn"}, faults |-> 1]}
=============================================================================
