------------------------------ MODULE MCRunner ------------------------------
(***************************************************************************)
(* The runner and the tracker for the model checker, in four scenes.  A    *)
(* scene says what the environment may do of what the constants allow:     *)
(*                                                                         *)
(*   pool     an incident that is stopped or restarted at any time, with   *)
(*            two workers, a retry, a poll, and a self-heal pass or crash; *)
(*   faults   an urgent incident and a postmortem, two workers, retries,   *)
(*            the fallback model and failing calls;                        *)
(*   boot     a crash while two tasks are spawned and queued, and a boot   *)
(*            pass whose query returns one row;                            *)
(*   tracked  an incident with the tracker beside the runner, a stop and a *)
(*            crash, and no retry.                                         *)
(*                                                                         *)
(* Process ids are given out in order, and of two idle workers the first   *)
(* takes the task: the others of these choices differ in names only.       *)
(***************************************************************************)
EXTENDS TaskTracker

CONSTANTS t1, t2

TwoTasks == {t1, t2}
MCPriority == [t \in Tasks |-> IF t = t1 THEN "P2" ELSE "P3"]
MCTaskType == [t \in Tasks |-> IF t = t1 THEN "ticket_resolution" ELSE "postmortem"]

VARIABLE scene

Exits(results) == \A p \in Pids : proc'[p].state \in {"unborn", "alive"} \cup results
Reports(checkpoints) == \A t \in Tasks : checkpoint'[t] \in {"none", "running"} \cup checkpoints
Born(n) == \A p \in Pids : p > n => proc'[p].state = "unborn"
OnlyIncident == task'[t2].status = "absent"
OnlyPostmortem == task'[t1].status = "absent"
NoTracker == tracker' = IdleTracker
NoStop == \A t \in Tasks : stopper'[t].pc = "none"
Undisturbed == heals' = 0 /\ polls' = 0

Allowed ==
  CASE scene = "pool" ->
         /\ NoTracker /\ OnlyIncident /\ faults' = 0 /\ heals' <= 1 /\ Born(2)
         /\ Exits({"ok", "transient"}) /\ Reports({})
    [] scene = "faults" ->
         /\ NoTracker /\ Undisturbed /\ (OnlyIncident \/ OnlyPostmortem)
         /\ (faults' = 0 \/ NoStop)
         /\ Exits({"ok", "transient", "error"}) /\ Reports({"done", "wait"})
    [] scene = "boot" ->
         /\ NoTracker /\ polls' = 0 /\ NoStop /\ faults' <= 1 /\ Born(0)
    [] scene = "tracked" ->
         /\ OnlyIncident /\ faults' = 0 /\ heals' = crashes' /\ polls' = 0 /\ Born(2)
         /\ Exits({"error"}) /\ Reports({"done"}) /\ worker'[2] = IdleWorker

InOrder ==
  /\ \A p, q \in Pids : p < q /\ proc'[q].state # "unborn" => proc'[p].state # "unborn"
  /\ worker[1].pc = "idle" /\ worker[2].pc = "idle" => worker'[2].pc = "idle"

SceneInit == TrackedInit /\ scene \in {"pool", "faults", "boot", "tracked"}
SceneNext == TrackedNext /\ Allowed /\ InOrder /\ UNCHANGED scene
SceneSpec == SceneInit /\ [][SceneNext]_<<trackedVars, scene>> /\ Fairness
=============================================================================
