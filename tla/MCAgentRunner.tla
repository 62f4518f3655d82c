--------------------------- MODULE MCAgentRunner ---------------------------
(* Constants of AgentRunner for the model checker: one urgent incident. *)
EXTENDS AgentRunner, TLC

CONSTANTS t1

OneTask == {t1}
MCPriority == [t \in Tasks |-> "P2"]
MCTaskType == [t \in Tasks |-> "ticket_resolution"]

Symmetry == Permutations(Workers) \cup Permutations(Pids)
=============================================================================
