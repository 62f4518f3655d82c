---------------------------- MODULE MCChatBridge ----------------------------
EXTENDS ChatBridge, TLC

CONSTANTS invite, m1, m2, n1, n2, n3, t1, t2

\* The bot is invited and a message follows; two messages come in one transaction;
\* a message comes while a note waits; three notes wait on two tickets.
Scenes ==
  {[transactions |-> <<<<invite>>, <<m1>>>>, notes |-> {}],
   [transactions |-> <<<<m1, m2>>>>, notes |-> {}],
   [transactions |-> <<<<m1>>>>, notes |-> {n1}],
   [transactions |-> <<>>, notes |-> {n1, n2, n3}]}
TwoTickets == (n1 :> t1) @@ (n2 :> t1) @@ (n3 :> t2)
=============================================================================
