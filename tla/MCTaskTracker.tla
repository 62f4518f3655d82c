--------------------------- MODULE MCTaskTracker ---------------------------
(* Constants of TaskTracker for the model checker: one incident. *)
EXTENDS TaskTracker

CONSTANTS t1

OneTask == {t1}
MCPriority == [t \in Tasks |-> "P2"]
MCTaskType == [t \in Tasks |-> "ticket_resolution"]
=============================================================================
