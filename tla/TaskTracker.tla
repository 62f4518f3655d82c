---------------------------- MODULE TaskTracker ----------------------------
(***************************************************************************)
(* The task tracker (api/services/task_tracker.py) beside the agent        *)
(* runner.  Every ten seconds it takes a snapshot of the running tasks,    *)
(* finalises those whose process is gone, copies the checkpoint of the     *)
(* others into the rows, and fails the tasks that show no activity.  It    *)
(* decides from the snapshot and from checkpoint.json and writes without   *)
(* looking at the rows again, while the runner does the same.              *)
(***************************************************************************)
EXTENDS AgentRunner

VARIABLE tracker \* the track_loop coroutine

trackedVars == <<vars, tracker>>

NoPids == [t \in Tasks |-> NoPid]
IdleTracker == [pc |-> "idle", phase |-> "sync", todo |-> {}, pids |-> NoPids,
                current |-> NoTask, verdict |-> "none", orphan |-> FALSE]

-----------------------------------------------------------------------------
(* track_loop *)

TrackSnapshot ==
  /\ tracker.pc = "idle"
  /\ tracker' = [IdleTracker EXCEPT
       !.pc = "loop",
       !.todo = {t \in Tasks : task[t].status = "running"},
       !.pids = [t \in Tasks |-> IF task[t].status = "running" THEN task[t].pid ELSE NoPid]]
  /\ UNCHANGED vars

ManagedByPid(t) == task[t].pid # NoPid               \* mutant: trusts the row
ManagedAlive(t) == active[t] # NoPid /\ Alive(active[t]) \* mutant: asks for the process
\* _runner_is_managing_task
RunnerIsManaging(t) == active[t] # NoPid

Orphaned(t) ==
  /\ tracker.pids[t] # NoPid /\ ~Alive(tracker.pids[t])
  /\ ~RunnerIsManaging(t)

Judge(t, verdict, orphan) ==
  tracker' = [tracker EXCEPT !.pc = "writeTask", !.todo = @ \ {t}, !.current = t,
                             !.verdict = verdict, !.orphan = orphan]

\* _mark_orphaned: a finished or waiting agent keeps its result.
JudgeOrphan(t) ==
  /\ tracker.pc = "loop" /\ tracker.phase = "sync" /\ t \in tracker.todo
  /\ Orphaned(t)
  /\ Judge(t, CASE checkpoint[t] = "done" -> "completed"
                [] checkpoint[t] = "wait" -> "waiting"
                [] OTHER -> "failed", TRUE)
  /\ UNCHANGED vars

\* _sync_task_status: a wait whose gate is already open counts as running.
JudgeSync(t) ==
  /\ tracker.pc = "loop" /\ tracker.phase = "sync" /\ t \in tracker.todo
  /\ ~Orphaned(t)
  /\ \/ checkpoint[t] = "none" /\ tracker' = [tracker EXCEPT !.todo = @ \ {t}]
     \/ checkpoint[t] \in {"running", "partial", "wait"} /\ Judge(t, "running", FALSE)
     \/ checkpoint[t] = "wait" /\ Judge(t, "waiting", FALSE)
     \/ checkpoint[t] = "done" /\ Judge(t, "completed", FALSE)
     \/ checkpoint[t] = "error" /\ Judge(t, "failed", FALSE)
  /\ UNCHANGED vars

\* Back to the loop, with nothing of the task remembered.
Resume ==
  tracker' = [IdleTracker EXCEPT !.pc = "loop", !.phase = tracker.phase, !.todo = tracker.todo,
                                 !.pids = [tracker.pids EXCEPT ![tracker.current] = NoPid]]

TrackTask ==
  /\ tracker.pc = "writeTask"
  /\ task' = [task EXCEPT ![tracker.current].status = tracker.verdict]
  /\ tracker' = [tracker EXCEPT !.pc = "writeAgent"]
  /\ UNCHANGED <<agent, checkpoint, memory, worker, proc, spawner, healer, stopper, history>>

TrackedAgentStatus ==
  IF tracker.verdict = "running" THEN "working" ELSE AgentStatusFor(tracker.verdict)

\* A write over the row of an agent that is not live, because it was stopped or
\* failed meanwhile, can show a task as runnable that nobody has any more.
TrackAgent ==
  /\ tracker.pc = "writeAgent"
  /\ agent' = [agent EXCEPT ![tracker.current].status = TrackedAgentStatus]
  /\ lost' = IF agent[tracker.current].status \in Live THEN lost ELSE lost \cup {tracker.current}
  /\ IF tracker.verdict \in {"completed", "failed"} /\ tracker.phase = "sync" /\ ~tracker.orphan
       THEN tracker' = [tracker EXCEPT !.pc = "finish"]
       ELSE Resume
  /\ UNCHANGED <<task, checkpoint, memory, worker, proc, spawner, healer, stopper,
                 heals, polls, crashes, faults>>

\* The row of a finished or failed agent is closed by a second update.  Before it
\* the process of a completed task is signalled and not waited for, so its end is
\* a ProcessExit.
TrackFinish ==
  /\ tracker.pc = "finish"
  /\ agent' = [agent EXCEPT ![tracker.current].status = AgentStatusFor(tracker.verdict)]
  /\ Resume
  /\ UNCHANGED <<task, checkpoint, memory, worker, proc, spawner, healer, stopper, history>>

\* _detect_stuck_tasks: the tracker itself refreshes the heartbeat of a task
\* whose checkpoint it can read, so only the others can look inactive.
TrackStuckScan ==
  /\ tracker.pc = "loop" /\ tracker.phase = "sync" /\ tracker.todo = {}
  /\ \E inactive \in SUBSET {t \in Tasks : task[t].status = "running" /\ checkpoint[t] = "none"} :
       tracker' = [IdleTracker EXCEPT !.pc = "loop", !.phase = "stuck", !.todo = inactive]
  /\ UNCHANGED vars

JudgeStuck(t) ==
  /\ tracker.pc = "loop" /\ tracker.phase = "stuck" /\ t \in tracker.todo
  /\ Judge(t, "failed", FALSE)
  /\ UNCHANGED vars

TrackSleep ==
  /\ tracker.pc = "loop" /\ tracker.phase = "stuck" /\ tracker.todo = {}
  /\ tracker' = IdleTracker
  /\ UNCHANGED vars

Track ==
  \/ TrackSnapshot \/ TrackTask \/ TrackAgent \/ TrackFinish \/ TrackStuckScan \/ TrackSleep
  \/ \E t \in Tasks : JudgeOrphan(t) \/ JudgeSync(t) \/ JudgeStuck(t)

-----------------------------------------------------------------------------
TrackedInit == Init /\ tracker = IdleTracker

TrackedNext ==
  \/ Step /\ UNCHANGED tracker
  \/ Crash /\ tracker' = IdleTracker
  \/ Track

TrackedSpec == TrackedInit /\ [][TrackedNext]_trackedVars

\* The event loop runs every coroutine that is ready; a harness process ends,
\* at the latest when a watchdog of _run_agent ends it.  Nobody has to press
\* Stop, poll the dashboard, crash or fail.
Fairness ==
  /\ WF_trackedVars(Track)
  /\ \A w \in Workers : WF_trackedVars(Work(w) /\ UNCHANGED tracker)
  /\ \A t \in Tasks :
       WF_trackedVars((SpawnProvision(t) \/ SpawnEnqueue(t) \/ TimerFires(t)) /\ UNCHANGED tracker)
  /\ \A t \in Tasks :
       WF_trackedVars((StopTask(t) \/ StopAgent(t) \/ TerminateAgent(t)) /\ UNCHANGED tracker)
  /\ \A p \in Pids : WF_trackedVars(ProcessExit(p) /\ UNCHANGED tracker)
  /\ WF_trackedVars((HealRead \/ HealPut) /\ UNCHANGED tracker)

FairSpec == TrackedSpec /\ Fairness

-----------------------------------------------------------------------------
(* Properties.                                                             *)

\* Every task that is queued with its work directory, or running, is eventually
\* completed, failed, stopped or left waiting at a gate.
Settles ==
  \A t \in Tasks :
    (task[t].status = "queued" /\ task[t].workDir) \/ task[t].status = "running"
      ~> task[t].status \in {"completed", "failed", "stopped", "waiting"}

TrackerAt(t) == t \in tracker.todo \/ tracker.current = t
Halted(t) ==
  /\ task[t].status = "stopped" /\ agent[t].status \in {"stopped", "terminated"}
  /\ ~TrackerAt(t) /\ \A w \in Workers : ~Committed(w, t)

\* A task is finalised as an orphan only when no runner coroutine still has the
\* result of its dead process to write, unless the registry entry that
\* _runner_is_managing_task relies on was dropped by another: by a poll of the
\* process list, by a stop, or by a second worker to which a self-heal pass gave
\* the task.
OrphanHasNoRunner ==
  \A t \in Tasks :
    /\ polls = 0 /\ stopper[t].pc = "none"
    /\ heals = 0 \/ \A v, w \in Workers : v = w
    /\ tracker.pc = "writeTask" /\ tracker.current = t /\ tracker.orphan
    => \A w \in Workers : worker[w].pid = tracker.pids[t] => worker[w].pc \notin Running \cup Finishing

\* A stop whose two writes found no worker committed to the task and the tracker
\* not at it is final: no queue entry, retry timer, self-heal pass, process exit or
\* pass of the tracker undoes it.
StopSticks ==
  [][\A t \in Tasks : Halted(t) => Halted(t)']_trackedVars
=============================================================================
