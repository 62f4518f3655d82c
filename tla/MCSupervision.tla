--------------------------- MODULE MCSupervision ----------------------------
(* Constants of Supervision for the model checker: an access gate, whose     *)
(* completion is always manual, and a change gate that completes by itself.  *)
EXTENDS Supervision

CONSTANTS accessGate, changeGate, post

BothGates == {accessGate, changeGate}
AccessGate == {accessGate}
ChangeGate == {changeGate}

Orders == {"stop", "wake", "restart"}

Quiet == [agents |-> 1, exits |-> {"waiting", "completed", "failed"}, gates |-> {}, calls |-> 0,
          works |-> {}, audits |-> {}, posts |-> 0, orders |-> {}, given |-> 0, faults |-> 0,
          hangs |-> FALSE, recovers |-> FALSE]

\* Two decisions about an access gate; one decision where both gates may be open.
AccessScene == [Quiet EXCEPT !.agents = 3, !.gates = AccessGate, !.calls = 2]
GatesScene == [Quiet EXCEPT !.agents = 3, !.gates = BothGates, !.calls = 1]
\* A harness that hangs with its work done; beside it, a gate may move.
DoneScene == [Quiet EXCEPT !.works = {"note", "postmortem", "resolve"}, !.audits = {Loop}, !.hangs = TRUE]
MovingScene == [Quiet EXCEPT !.agents = 2, !.exits = {"failed"}, !.gates = ChangeGate,
                 !.calls = 1, !.works = {"note", "postmortem"}, !.audits = {Loop}, !.hangs = TRUE]
\* A gate that is approved when its agent is done already.
SweepScene == [Quiet EXCEPT !.agents = 2, !.exits = {"completed"}, !.gates = ChangeGate, !.calls = 1,
                !.audits = {Loop}]
\* Two passes replace a silent agent; one pass that may fail does.
PassesScene == [Quiet EXCEPT !.agents = 3, !.exits = {"failed"}, !.audits = {Loop, post}, !.posts = 1,
                 !.recovers = TRUE]
FaultScene == [Quiet EXCEPT !.agents = 3, !.exits = {"failed"}, !.audits = {Loop}, !.faults = 1,
                !.recovers = TRUE]
\* An operator beside the auditor, and beside an approval.
OrderScene == [Quiet EXCEPT !.agents = 3, !.exits = {"failed"}, !.audits = {Loop}, !.orders = Orders,
                !.given = 1, !.recovers = TRUE]
GateOrderScene == [Quiet EXCEPT !.agents = 3, !.exits = {"waiting"}, !.gates = ChangeGate, !.calls = 1,
                    !.orders = {"stop", "wake"}, !.given = 1]

AllScenes == {AccessScene, GatesScene, DoneScene, MovingScene, SweepScene, PassesScene, FaultScene, OrderScene,
              GateOrderScene}
=============================================================================
