--------------------------- MODULE MCApprovalGate ---------------------------
(* Constants of ApprovalGate for the model checker: an access gate, whose    *)
(* completion is always manual.                                              *)
EXTENDS ApprovalGate

CONSTANT accessGate

AccessGate == {accessGate}

\* One approval of one gate.
OneApproval == {[agents |-> 4, gates |-> AccessGate, calls |-> 1, works |-> {},
                 exits |-> {"waiting", "completed", "failed"}]}
=============================================================================
