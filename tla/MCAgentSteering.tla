-------------------------- MODULE MCAgentSteering --------------------------
EXTENDS AgentSteering

CONSTANTS a1, a2

\* Two notes for an agent that is spawned, and one note for two agents, with a failing
\* call and a restart; three notes for an agent at work, which do not fit in its inbox.
Companies ==
  {[working |-> {}, spawned |-> {a1}, notes |-> {1, 2}, faults |-> 1, crashes |-> 1],
   [working |-> {a2}, spawned |-> {a1}, notes |-> {1}, faults |-> 1, crashes |-> 1],
   [working |-> {a1}, spawned |-> {}, notes |-> {1, 2, 3}, faults |-> 0, crashes |-> 0]}
=============================================================================
