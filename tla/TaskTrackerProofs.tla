------------------------- MODULE TaskTrackerProofs -------------------------
(***************************************************************************)
(* Proofs about TaskTracker: the tracker beside the agent runner, for      *)
(* every number of tasks, workers and processes.  The rows and the         *)
(* snapshot of the tracker are well typed, the tracker changes nothing     *)
(* that the theorems about the runner's processes and queue rest on, and a *)
(* task it takes for an orphan has no worker left.                         *)
(***************************************************************************)
EXTENDS TaskTracker, AgentRunnerProofs

-----------------------------------------------------------------------------
(* Types. *)

Verdicts == {"none", "running", "waiting", "completed", "failed"}
TrackerOK ==
  /\ tracker \in [pc : {"idle", "loop", "writeTask", "writeAgent", "finish"},
                  phase : {"sync", "stuck"}, todo : SUBSET Tasks,
                  pids : [Tasks -> Pids \cup {NoPid}], current : Tasks \cup {NoTask},
                  verdict : Verdicts, orphan : BOOLEAN]
  /\ tracker.pc \in {"writeTask", "writeAgent", "finish"} =>
       tracker.current \in Tasks /\ tracker.verdict # "none"
  /\ tracker.pc = "finish" => tracker.verdict \in {"completed", "failed"}

LEMMA TrackedNextIsNext ==
  ASSUME TrackedNext, ~Track
  PROVE  Next /\ tracker' \in {tracker, IdleTracker}
BY DEF TrackedNext, Next, Step

LEMMA TrackerStep ==
  ASSUME TypeOK, TrackerOK, [TrackedNext]_trackedVars
  PROVE  TrackerOK'
<1>0. NoPids \in [Tasks -> Pids \cup {NoPid}]
  BY DEF NoPids
<1>1. ASSUME tracker' = IdleTracker PROVE TrackerOK'
  BY <1>0, <1>1 DEF IdleTracker, TrackerOK, Verdicts
<1>2. CASE UNCHANGED tracker
  BY <1>2 DEF TrackerOK
<1>3. CASE Track
  <2>1. CASE TrackSnapshot
    <3>1. task \in [Tasks -> [status : TaskStatus, pid : Pids \cup {NoPid}, workDir : BOOLEAN]]
      BY DEF TypeOK, RowsOK
    <3> QED
      BY <2>1, <3>1 DEF TrackSnapshot, IdleTracker, TrackerOK, Verdicts
  <2>2. ASSUME NEW t \in Tasks, NEW v \in Verdicts \ {"none"}, NEW o \in BOOLEAN, Judge(t, v, o)
        PROVE  TrackerOK'
    BY <2>2 DEF Judge, TrackerOK
  <2>3. ASSUME NEW t \in Tasks, JudgeOrphan(t) \/ JudgeSync(t) \/ JudgeStuck(t) PROVE TrackerOK'
    <3>1. CASE JudgeOrphan(t)
      <4>1. PICK v \in {"completed", "waiting", "failed"} : Judge(t, v, TRUE)
        BY <3>1 DEF JudgeOrphan
      <4> QED
        BY <2>2, <4>1 DEF Verdicts
    <3>2. CASE JudgeSync(t)
      <4>1. CASE tracker' = [tracker EXCEPT !.todo = @ \ {t}]
        BY <3>2, <4>1 DEF JudgeSync, TrackerOK
      <4>2. CASE \E v \in {"running", "waiting", "completed", "failed"} : Judge(t, v, FALSE)
        BY <2>2, <4>2 DEF Verdicts
      <4> QED
        BY <3>2, <4>1, <4>2 DEF JudgeSync
    <3>3. CASE JudgeStuck(t)
      <4>1. Judge(t, "failed", FALSE)
        BY <3>3 DEF JudgeStuck
      <4> QED
        BY <2>2, <4>1 DEF Verdicts
    <3> QED
      BY <2>3, <3>1, <3>2, <3>3
  <2>4. ASSUME Resume PROVE TrackerOK'
    BY <2>4 DEF Resume, IdleTracker, TrackerOK, Verdicts
  <2>5. CASE TrackTask \/ TrackAgent \/ TrackFinish
    BY <2>4, <2>5 DEF TrackTask, TrackAgent, TrackFinish, TrackerOK
  <2>6. CASE TrackStuckScan
    <3>1. PICK inactive \in SUBSET Tasks :
            tracker' = [IdleTracker EXCEPT !.pc = "loop", !.phase = "stuck", !.todo = inactive]
      BY <2>6 DEF TrackStuckScan
    <3> QED
      BY <1>0, <3>1 DEF IdleTracker, TrackerOK, Verdicts
  <2> QED
    BY <1>1, <1>3, <2>1, <2>3, <2>5, <2>6 DEF Track, TrackSleep
<1> QED
  BY <1>1, <1>2, <1>3 DEF TrackedNext, trackedVars

-----------------------------------------------------------------------------
(* What the tracker leaves alone: everything of the runner but the status  *)
(* of a row, so the runner's own guarantees hold beside it.                *)

LEMMA TrackFrame ==
  ASSUME Track
  PROVE  /\ UNCHANGED <<checkpoint, queue, timers, active, worker, proc, spawner, healer, stopper,
                        heals, polls, crashes, faults>>
         /\ lost' \in {lost, lost \cup {tracker.current}}
<1> USE DEF memory, history, vars
<1>1. CASE TrackTask \/ TrackAgent \/ TrackFinish
  BY <1>1 DEF TrackTask, TrackAgent, TrackFinish
<1>2. CASE TrackSnapshot \/ TrackStuckScan \/ TrackSleep
  BY <1>2 DEF TrackSnapshot, TrackStuckScan, TrackSleep
<1>3. ASSUME NEW t \in Tasks, JudgeOrphan(t) \/ JudgeSync(t) \/ JudgeStuck(t) PROVE UNCHANGED vars
  BY <1>3 DEF JudgeOrphan, JudgeSync, JudgeStuck
<1> QED
  BY <1>1, <1>2, <1>3 DEF Track

LEMMA TrackRows ==
  ASSUME TypeOK, TrackerOK, Track
  PROVE  /\ RowsOK'
         /\ \A t \in Tasks :
              /\ task'[t].pid = task[t].pid
              /\ task'[t].status = "absent" => task[t].status = "absent"
              /\ agent'[t].attempts = agent[t].attempts /\ agent'[t].onFallback = agent[t].onFallback
<1>0. /\ RowsOK
      /\ tracker.pc \in {"writeTask", "writeAgent", "finish"} =>
           /\ tracker.current \in Tasks
           /\ tracker.verdict \in {"running", "waiting", "completed", "failed"}
  BY DEF TypeOK, TrackerOK, Verdicts
<1> USE <1>0 DEF RowsOK, TaskStatus, AgentStatus
<1>1. CASE TrackTask
  BY <1>1 DEF TrackTask
<1>2. CASE TrackAgent
  <2>1. TrackedAgentStatus \in {"working", "waiting", "finished", "failed"}
    BY <1>2 DEF TrackAgent, TrackedAgentStatus, AgentStatusFor
  <2> QED
    BY <1>2, <2>1 DEF TrackAgent
<1>3. CASE TrackFinish
  <2>1. AgentStatusFor(tracker.verdict) \in {"running", "waiting", "finished", "failed"}
    BY <1>3 DEF TrackFinish, AgentStatusFor
  <2> QED
    BY <1>3, <2>1 DEF TrackFinish
<1>4. CASE TrackSnapshot \/ TrackStuckScan \/ TrackSleep
  BY <1>4 DEF TrackSnapshot, TrackStuckScan, TrackSleep, vars
<1>5. ASSUME NEW t \in Tasks, JudgeOrphan(t) \/ JudgeSync(t) \/ JudgeStuck(t) PROVE UNCHANGED vars
  BY <1>5 DEF JudgeOrphan, JudgeSync, JudgeStuck
<1> QED
  BY <1>1, <1>2, <1>3, <1>4, <1>5 DEF Track, vars

\* The tracker drops no task but the one whose agent it writes over.
LEMMA LostByTracker ==
  ASSUME Track, lost' # lost
  PROVE  TrackAgent /\ lost' = lost \cup {tracker.current}
<1>1. ASSUME NEW t \in Tasks, JudgeOrphan(t) \/ JudgeSync(t) \/ JudgeStuck(t) PROVE FALSE
  BY <1>1 DEF JudgeOrphan, JudgeSync, JudgeStuck, vars
<1>2. ~TrackSnapshot /\ ~TrackStuckScan /\ ~TrackSleep /\ ~TrackTask /\ ~TrackFinish
  BY DEF TrackSnapshot, TrackStuckScan, TrackSleep, TrackTask, TrackFinish, vars, history
<1>3. TrackAgent
  BY <1>1, <1>2 DEF Track
<1> QED
  BY <1>3 DEF TrackAgent

\* No write of the tracker makes a row look runnable that was not, unless the
\* agent of the row was not live: that task is counted as lost.
LEMMA TrackRevivesNone ==
  ASSUME TypeOK, TrackerOK, Track, NEW t \in Tasks, t \notin lost', Rehydratable(t)'
  PROVE  Rehydratable(t) /\ t \notin lost
<1>0. /\ RowsOK
      /\ tracker.pc \in {"writeTask", "writeAgent", "finish"} =>
           /\ tracker.current \in Tasks
           /\ tracker.verdict \in {"running", "waiting", "completed", "failed"}
  BY DEF TypeOK, TrackerOK, Verdicts
<1> USE <1>0 DEF RowsOK, Rehydratable, Live
<1>1. t \notin lost
  BY TrackFrame
<1>2. CASE TrackTask
  <2>1. t # tracker.current
    BY <1>2 DEF TrackTask
  <2> QED
    BY <1>1, <1>2, <2>1 DEF TrackTask
<1>3. CASE TrackAgent
  <2>1. task' = task /\ (t # tracker.current => agent'[t] = agent[t])
    BY <1>3 DEF TrackAgent
  <2>2. t = tracker.current => agent[t].status \in Live
    BY <1>3 DEF TrackAgent
  <2> QED
    BY <1>1, <2>1, <2>2
<1>4. CASE TrackFinish
  <2>1. AgentStatusFor(tracker.verdict) \in {"finished", "failed"}
    BY <1>4 DEF TrackFinish, TrackerOK, AgentStatusFor
  <2>2. t # tracker.current
    BY <1>4, <2>1 DEF TrackFinish
  <2> QED
    BY <1>1, <1>4, <2>2 DEF TrackFinish
<1>5. CASE UNCHANGED vars
  BY <1>1, <1>5 DEF vars
<1>6. TrackTask \/ TrackAgent \/ TrackFinish \/ UNCHANGED vars
  BY DEF Track, TrackSnapshot, TrackStuckScan, TrackSleep, JudgeOrphan, JudgeSync, JudgeStuck
<1> QED
  BY <1>2, <1>3, <1>4, <1>5, <1>6

RunnerInv == TypeOK /\ TrackerOK /\ Attendance /\ Custody /\ Budgeted /\ Tracking

LEMMA TrackKeepsRunner == RunnerInv /\ Track => TypeOK' /\ Attendance' /\ Custody' /\ Budgeted' /\ Tracking'
<1> SUFFICES ASSUME RunnerInv, Track PROVE TypeOK' /\ Attendance' /\ Custody' /\ Budgeted' /\ Tracking'
  OBVIOUS
<1>0. TypeOK /\ TrackerOK /\ Attendance /\ Custody /\ Budgeted /\ Tracking
  BY DEF RunnerInv
<1>1. /\ UNCHANGED <<checkpoint, queue, timers, active, worker, proc, spawner, healer, stopper,
                     heals, polls, crashes, faults>>
      /\ lost' \subseteq Tasks
  <2>1. lost \subseteq Tasks
    BY <1>0 DEF TypeOK, RequestsOK
  <2>2. lost' # lost => tracker.current \in Tasks
    BY <1>0, LostByTracker DEF TrackerOK, TrackAgent
  <2> QED
    BY <2>1, <2>2, TrackFrame
<1>2. /\ RowsOK'
      /\ \A t \in Tasks :
           /\ task'[t].status = "absent" => task[t].status = "absent"
           /\ agent'[t].attempts = agent[t].attempts /\ agent'[t].onFallback = agent[t].onFallback
  BY <1>0, TrackRows
<1>3. TypeOK'
  BY <1>0, <1>1, <1>2 DEF TypeOK, MemoryOK, WorkersOK, ProcsOK, RequestsOK
<1>4. Attendance'
  <2>1. End
    BY <1>1 DEF End
  <2> QED
    BY <1>0, <2>1, EndKeepsAttendance
<1>5. Custody'
  <2>1. Calm
    BY <1>1, <1>2 DEF Calm
  <2> QED
    BY <1>0, <2>1, CalmKeepsCustody
<1>6. Budgeted'
  <2>1. ASSUME NEW t \in Tasks PROVE (Over(t)' <=> Over(t)) /\ (Switching(t)' <=> Switching(t))
    BY <1>1 DEF Over, Switching, Holds
  <2> QED
    BY <1>0, <1>1, <1>2, <2>1 DEF Budgeted, Within
<1>7. Tracking'
  <2>1. ASSUME NEW t \in Tasks \ lost', Rehydratable(t)' PROVE Rehydratable(t) /\ t \notin lost
    BY <1>0, <2>1, TrackRevivesNone
  <2>2. ASSUME NEW t \in Tasks PROVE (Kept(t)' <=> Kept(t)) /\ (Seen(t)' <=> Seen(t))
    BY <1>1 DEF Kept, Carries, Holds, Seen
  <2> HIDE DEF Kept, Seen, Rehydratable
  <2> QED
    BY <1>0, <1>1, <2>1, <2>2 DEF Tracking
<1> QED
  BY <1>3, <1>4, <1>5, <1>6, <1>7

LEMMA RunnerStep == RunnerInv /\ [TrackedNext]_trackedVars => RunnerInv'
<1> SUFFICES ASSUME RunnerInv, [TrackedNext]_trackedVars PROVE RunnerInv'
  OBVIOUS
<1>1. TrackerOK'
  BY TrackerStep DEF RunnerInv
<1>2. CASE Track
  BY <1>1, <1>2, TrackKeepsRunner DEF RunnerInv
<1>3. CASE ~Track
  <2>1. [Next]_vars
    BY <1>3, TrackedNextIsNext DEF trackedVars
  <2> QED
    BY <1>1, <2>1, TypeStep, AttendanceStep, CustodyStep, BudgetStep, TrackingStep DEF RunnerInv
<1> QED
  BY <1>2, <1>3

LEMMA RunnerInit == TrackedInit => RunnerInv
<1>1. IdleTracker \in [pc : {"idle"}, phase : {"sync"}, todo : SUBSET Tasks,
                       pids : [Tasks -> Pids \cup {NoPid}], current : {NoTask},
                       verdict : {"none"}, orphan : BOOLEAN]
  BY DEF IdleTracker, NoPids
<1> QED
  BY <1>1, TypeInit, AttendanceInit, CustodyInit, BudgetInit, TrackingInit DEF TrackedInit, RunnerInv, TrackerOK, Verdicts

LEMMA RunnerInvariant == TrackedSpec => []RunnerInv
  BY RunnerInit, RunnerStep, PTL DEF TrackedSpec

\* The tracker writes the rows behind the runner's back and the runner's own
\* guarantees survive it: every live process has its worker, the pool is
\* bounded, a task is in one place, only self-heals and failing calls duplicate
\* a run, the retries are bounded, and no task is lost but by the tracker's own
\* writes over agents that are not live and the gaps of QueuedIsTracked.
THEOREM RunnerSurvivesTracker ==
  TrackedSpec => [](/\ ProcessesAreAttended /\ PoolBound /\ OneHolder
                    /\ OnlyHealOrFaultDuplicates /\ RetryBudget /\ QueuedIsTracked)
<1>1. RunnerInv => /\ ProcessesAreAttended /\ PoolBound /\ OneHolder
                   /\ OnlyHealOrFaultDuplicates /\ RetryBudget /\ QueuedIsTracked
  BY AttendanceSuffices, AttendanceBoundsPool, CustodySuffices, AttendanceAndCustodySuffice,
     BudgetSuffices, TrackingSuffices DEF RunnerInv
<1> QED
  BY <1>1, RunnerInvariant, PTL

-----------------------------------------------------------------------------
(* Orphans.  The strengthening of OrphanHasNoRunner: the process ids in    *)
(* the rows and in the snapshot are those of processes started for the     *)
(* task, and a worker that still has a process to answer for is in the     *)
(* registry unless somebody else dropped the entry.                        *)

ProcessOf(p, t) == proc[p].state # "unborn" /\ proc[p].task = t
PidsKnown ==
  \A t \in Tasks :
    /\ task[t].pid # NoPid => ProcessOf(task[t].pid, t)
    /\ tracker.pids[t] # NoPid => ProcessOf(tracker.pids[t], t)

AtWork(w) == worker[w].pid # NoPid /\ worker[w].pc \in Running \cup Finishing
Sole == heals = 0 \/ \A v, w \in Workers : v = w
Registered ==
  Sole => \A w \in Workers : AtWork(w) =>
    active[worker[w].task] # NoPid \/ polls # 0 \/ stopper[worker[w].task].pc # "none"

Judged(t) == tracker.pc = "writeTask" /\ tracker.current = t /\ tracker.orphan
Abandoned ==
  \A t \in Tasks : Judged(t) =>
    /\ tracker.pids[t] # NoPid
    /\ polls = 0 /\ stopper[t].pc = "none" /\ Sole =>
         \A w \in Workers : worker[w].pid = tracker.pids[t] => ~AtWork(w)

OrphanInv == RunnerInv /\ PidsKnown /\ Registered /\ Abandoned

LEMMA TypeFacts ==
  ASSUME TypeOK
  PROVE  /\ worker \in [Workers -> [pc : WorkerPcs, task : Tasks \cup {NoTask},
                                    pid : Pids \cup {NoPid}, outcome : Outcomes]]
         /\ task \in [Tasks -> [status : TaskStatus, pid : Pids \cup {NoPid}, workDir : BOOLEAN]]
         /\ proc \in [Pids -> [state : {"unborn", "alive"} \cup Results, task : Tasks \cup {NoTask}]]
         /\ active \in [Tasks -> Pids \cup {NoPid}]
         /\ stopper \in [Tasks -> [pc : {"none", "stopTask", "stopAgent", "terminate", "done"},
                                   pid : Pids \cup {NoPid}, restart : BOOLEAN]]
         /\ heals \in Nat
         /\ \A w \in Workers : worker[w].pc = "idle" <=> worker[w].task = NoTask
BY DEF TypeOK, RowsOK, MemoryOK, WorkersOK, ProcsOK, RequestsOK

\* A worker that is at work after a step has just launched its process, or was
\* at work for the same process before and kept its registry entry.
LEMMA WorkStaysAtWork ==
  ASSUME TypeOK, Attendance, NEW w \in Workers, Work(w), AtWork(w)'
  PROVE  \/ Launch(w)
         \/ /\ AtWork(w) /\ worker'[w].pid = worker[w].pid /\ worker'[w].task = worker[w].task
            /\ active' = active
<1>0. worker \in [Workers -> [pc : WorkerPcs, task : Tasks \cup {NoTask},
                              pid : Pids \cup {NoPid}, outcome : Outcomes]]
  BY TypeFacts
<1> USE <1>0 DEF AtWork, Running, Finishing, Goto, Release, Finalise, IdleWorker, memory
<1>1. CASE Dequeue(w) \/ CheckRunnable(w)
  <2>1. worker[w].pid = NoPid
    BY <1>1 DEF Attendance, Dequeue, CheckRunnable, Unstarted
  <2> QED
    BY <1>1, <2>1 DEF Dequeue, CheckRunnable
<1>2. CASE MarkRunning(w)
  BY <1>2 DEF MarkRunning
<1>3. CASE ExitAtGate(w) \/ ExitSuccess(w)
  BY <1>3 DEF ExitAtGate, ExitSuccess, Exited
<1>4. CASE ExitError(w) \/ RetryAgent(w)
  BY <1>4 DEF ExitError, RetryAgent, Exited
<1>5. CASE RetryModel(w) \/ RetryTask(w) \/ WriteTask(w) \/ WriteAgent(w)
  BY <1>5 DEF RetryModel, RetryTask, WriteTask, WriteAgent
<1>6. CASE ExitAfterStop(w) \/ RetryTimer(w) \/ Close(w)
  BY <1>6 DEF ExitAfterStop, RetryTimer, Close
<1>7. CASE HandleErrorTask(w) \/ HandleErrorAgent(w)
  BY <1>7 DEF HandleErrorTask, HandleErrorAgent
<1> QED
  BY <1>1, <1>2, <1>3, <1>4, <1>5, <1>6, <1>7 DEF Work

LEMMA FaultStaysAtWork ==
  ASSUME TypeOK, NEW w \in Workers, Fault(w)
  PROVE  ~AtWork(w)' /\ active' = active /\ \A v \in Workers \ {w} : worker'[v] = worker[v]
<1>0. worker \in [Workers -> [pc : WorkerPcs, task : Tasks \cup {NoTask},
                              pid : Pids \cup {NoPid}, outcome : Outcomes]]
  BY TypeFacts
<1> QED
  BY <1>0 DEF Fault, RunFault, WorkerFault, HandlerFault, Goto, Release, IdleWorker, AtWork,
              Running, Finishing, memory

LEMMA WorkKeepsProcesses ==
  ASSUME NEW w \in Workers, Work(w), ~Launch(w)
  PROVE  proc' = proc
<1>1. CASE Dequeue(w) \/ CheckRunnable(w) \/ MarkRunning(w) \/ ExitAfterStop(w)
  BY <1>1 DEF Dequeue, CheckRunnable, MarkRunning, ExitAfterStop
<1>2. CASE ExitAtGate(w) \/ ExitSuccess(w) \/ ExitError(w) \/ RetryAgent(w)
  BY <1>2 DEF ExitAtGate, ExitSuccess, ExitError, RetryAgent
<1>3. CASE RetryModel(w) \/ RetryTask(w) \/ RetryTimer(w) \/ WriteTask(w) \/ WriteAgent(w)
  BY <1>3 DEF RetryModel, RetryTask, RetryTimer, WriteTask, WriteAgent
<1>4. CASE Close(w) \/ HandleErrorTask(w) \/ HandleErrorAgent(w)
  BY <1>4 DEF Close, HandleErrorTask, HandleErrorAgent
<1> QED
  BY <1>1, <1>2, <1>3, <1>4 DEF Work

\* A process keeps its task, and is never unborn again.
LEMMA ProcessesStay ==
  ASSUME TypeOK, [TrackedNext]_trackedVars, NEW p \in Pids \cup {NoPid}, NEW t \in Tasks,
         p # NoPid, ProcessOf(p, t)
  PROVE  ProcessOf(p, t)'
<1>0. proc \in [Pids -> [state : {"unborn", "alive"} \cup Results, task : Tasks \cup {NoTask}]]
  BY TypeFacts
<1> USE <1>0 DEF ProcessOf, Results
<1>1. ASSUME NEW w \in Workers, Work(w) PROVE ProcessOf(p, t)'
  <2>1. CASE Launch(w)
    BY <2>1 DEF Launch
  <2>2. CASE ~Launch(w)
    BY <1>1, <2>2, WorkKeepsProcesses
  <2> QED
    BY <2>1, <2>2
<1>2. ASSUME NEW w \in Workers, Fault(w) PROVE ProcessOf(p, t)'
  BY <1>2 DEF Fault, RunFault, WorkerFault, HandlerFault
<1>3. ASSUME NEW u \in Tasks, Spawn(u) \/ TimerFires(u) \/ Stop(u) PROVE ProcessOf(p, t)'
  BY <1>3 DEF Spawn, SpawnRows, SpawnProvision, SpawnEnqueue, TimerFires, Stop, StopBegin,
              StopTask, StopAgent, TerminateAgent
<1>4. ASSUME NEW q \in Pids, WriteCheckpoint(q) \/ ProcessExit(q) PROVE ProcessOf(p, t)'
  BY <1>4, HarnessAssumption DEF WriteCheckpoint, ProcessExit
<1>5. CASE Heal \/ PruneRegistry \/ OtherFault \/ Crash
  <2>1. CASE Heal \/ PruneRegistry \/ OtherFault
    <3>1. UNCHANGED proc
      BY <2>1 DEF Heal, HealBegin, HealRead, HealPut, OtherFault, HealFault, SpawnFault,
                  TimerFault, PruneRegistry
    <3> QED
      BY <3>1
  <2>2. CASE Crash
    BY <2>2 DEF Crash
  <2> QED
    BY <1>5, <2>1, <2>2
<1>6. CASE Track \/ UNCHANGED trackedVars
  BY <1>6, TrackFrame DEF trackedVars, vars
<1> QED
  BY <1>1, <1>2, <1>3, <1>4, <1>5, <1>6 DEF TrackedNext, Next, Step

\* A row takes a process id only from the worker that marks it running.
LEMMA PidsOfRows ==
  ASSUME TypeOK, TrackerOK, Attendance, [TrackedNext]_trackedVars, NEW t \in Tasks, task'[t].pid # NoPid
  PROVE  task'[t].pid = task[t].pid \/ ProcessOf(task'[t].pid, t)
<1>0. /\ task \in [Tasks -> [status : TaskStatus, pid : Pids \cup {NoPid}, workDir : BOOLEAN]]
      /\ worker \in [Workers -> [pc : WorkerPcs, task : Tasks \cup {NoTask},
                                 pid : Pids \cup {NoPid}, outcome : Outcomes]]
  BY TypeFacts
<1> USE <1>0 DEF store
<1>1. ASSUME NEW w \in Workers, Work(w)
      PROVE  task'[t].pid = task[t].pid \/ ProcessOf(task'[t].pid, t)
  <2>1. CASE MarkRunning(w)
    <3>1. CASE worker[w].task = t
      <4>1. task'[t].pid = worker[w].pid
        BY <2>1, <3>1 DEF MarkRunning
      <4> QED
        BY <3>1, <4>1 DEF Attendance, ProcessOf
    <3>2. CASE worker[w].task # t
      BY <2>1, <3>2 DEF MarkRunning
    <3> QED
      BY <3>1, <3>2
  <2>2. CASE Dequeue(w) \/ CheckRunnable(w) \/ Launch(w) \/ ExitAfterStop(w)
    BY <2>2 DEF Dequeue, CheckRunnable, Launch, ExitAfterStop
  <2>3. CASE ExitAtGate(w) \/ ExitSuccess(w) \/ ExitError(w)
    BY <2>3 DEF ExitAtGate, ExitSuccess, ExitError
  <2>4. CASE RetryAgent(w) \/ RetryModel(w) \/ RetryTimer(w) \/ WriteAgent(w) \/ Close(w) \/ HandleErrorAgent(w)
    BY <2>4 DEF RetryAgent, RetryModel, RetryTimer, WriteAgent, Close, HandleErrorAgent
  <2>5. CASE RetryTask(w) \/ WriteTask(w) \/ HandleErrorTask(w)
    BY <2>5 DEF RetryTask, WriteTask, HandleErrorTask
  <2> QED
    BY <1>1, <2>1, <2>2, <2>3, <2>4, <2>5 DEF Work
<1>2. ASSUME NEW w \in Workers, Fault(w) PROVE task' = task
  BY <1>2 DEF Fault, RunFault, WorkerFault, HandlerFault
<1>3. ASSUME NEW u \in Tasks, Spawn(u) \/ TimerFires(u) PROVE task'[t].pid = task[t].pid
  BY <1>3 DEF Spawn, SpawnRows, SpawnProvision, SpawnEnqueue, TimerFires
<1>4. ASSUME NEW u \in Tasks, Stop(u) PROVE task'[t].pid = task[t].pid
  BY <1>4 DEF Stop, StopBegin, StopTask, StopAgent, TerminateAgent
<1>5. ASSUME NEW q \in Pids, WriteCheckpoint(q) \/ ProcessExit(q) PROVE task' = task
  BY <1>5 DEF WriteCheckpoint, ProcessExit
<1>6. CASE Heal \/ PruneRegistry \/ OtherFault \/ Crash
  BY <1>6 DEF Heal, HealBegin, HealRead, HealPut, OtherFault, HealFault, SpawnFault, TimerFault, PruneRegistry, Crash
<1>7. CASE Track \/ UNCHANGED trackedVars
  BY <1>7, TrackRows DEF trackedVars, vars
<1> QED
  BY <1>1, <1>2, <1>3, <1>4, <1>5, <1>6, <1>7 DEF TrackedNext, Next, Step

\* The snapshot takes its process ids from the rows.
LEMMA PidsOfSnapshot ==
  ASSUME TypeOK, TrackerOK, [TrackedNext]_trackedVars, NEW t \in Tasks
  PROVE  tracker'.pids[t] \in {NoPid, tracker.pids[t], task[t].pid}
<1>0. TrackerOK
  OBVIOUS
<1>1. ASSUME tracker' = IdleTracker PROVE tracker'.pids[t] = NoPid
  BY <1>1 DEF IdleTracker, NoPids
<1>2. CASE Track
  <2> USE DEF TrackerOK, IdleTracker, NoPids
  <2>1. CASE TrackSnapshot
    BY <2>1 DEF TrackSnapshot
  <2>2. ASSUME NEW u \in Tasks, JudgeOrphan(u) \/ JudgeSync(u) \/ JudgeStuck(u)
        PROVE  tracker'.pids = tracker.pids
    BY <2>2 DEF JudgeOrphan, JudgeSync, JudgeStuck, Judge
  <2>3. ASSUME Resume PROVE tracker'.pids[t] \in {NoPid, tracker.pids[t]}
    <3>1. tracker'.pids = [tracker.pids EXCEPT ![tracker.current] = NoPid]
      BY <2>3 DEF Resume
    <3>2. tracker.pids \in [Tasks -> Pids \cup {NoPid}]
      OBVIOUS
    <3> QED
      BY <3>1, <3>2
  <2>4. CASE TrackTask \/ TrackAgent \/ TrackFinish
    <3>1. Resume \/ tracker'.pids = tracker.pids
      BY <2>4 DEF TrackTask, TrackAgent, TrackFinish
    <3> QED
      BY <2>3, <3>1
  <2>5. CASE TrackStuckScan
    <3>1. tracker'.pids = NoPids
      BY <2>5 DEF TrackStuckScan
    <3> QED
      BY <3>1
  <2> QED
    BY <1>1, <1>2, <2>1, <2>2, <2>4, <2>5 DEF Track, TrackSleep
<1> QED
  BY <1>1, <1>2 DEF TrackedNext, trackedVars

LEMMA PidsStep ==
  ASSUME RunnerInv, PidsKnown, [TrackedNext]_trackedVars
  PROVE  PidsKnown'
<1>0. TypeOK /\ TrackerOK /\ Attendance
  BY DEF RunnerInv
<1>1. task \in [Tasks -> [status : TaskStatus, pid : Pids \cup {NoPid}, workDir : BOOLEAN]]
  BY <1>0, TypeFacts
<1>2. ASSUME NEW t \in Tasks, NEW p, p # NoPid, p = task'[t].pid PROVE ProcessOf(p, t)'
  <2>1. CASE task[t].pid = p
    <3>1. ProcessOf(p, t) /\ p \in Pids \cup {NoPid}
      BY <1>1, <1>2, <2>1 DEF PidsKnown
    <3> QED
      BY <1>0, <1>2, <3>1, ProcessesStay
  <2>2. CASE task[t].pid # p
    <3>1. ProcessOf(p, t)
      BY <1>0, <1>2, <2>2, PidsOfRows
    <3>2. p \in Pids \cup {NoPid}
      BY <1>0, <1>2, RunnerStep DEF RunnerInv, TypeOK, RowsOK
    <3> QED
      BY <1>0, <1>2, <3>1, <3>2, ProcessesStay
  <2> QED
    BY <2>1, <2>2
<1>3. ASSUME NEW t \in Tasks, NEW p, p # NoPid, p = tracker'.pids[t] PROVE ProcessOf(p, t)'
  <2>1. p = tracker.pids[t] \/ p = task[t].pid
    BY <1>0, <1>3, PidsOfSnapshot
  <2>2. ProcessOf(p, t) /\ p \in Pids \cup {NoPid}
    BY <1>0, <1>1, <1>3, <2>1 DEF PidsKnown, TrackerOK
  <2> QED
    BY <1>0, <1>3, <2>2, ProcessesStay
<1> QED
  BY <1>2, <1>3 DEF PidsKnown, ProcessOf

LEMMA SoleStep == TypeOK /\ [TrackedNext]_trackedVars /\ Sole' => Sole
<1>1. [TrackedNext]_trackedVars => heals' = heals \/ heals' = heals + 1
  BY HealsGrow, TrackFrame, TrackedNextIsNext DEF trackedVars, vars
<1> QED
  BY <1>1, TypeFacts DEF Sole

LEMMA WorkersOwnEntries ==
  ASSUME TypeOK, NEW w \in Workers, Work(w), NEW t \in Tasks, worker[w].task # t
  PROVE  active'[t] = active[t]
<1>0. active \in [Tasks -> Pids \cup {NoPid}]
  BY TypeFacts
<1> USE <1>0 DEF memory
<1>1. CASE Dequeue(w) \/ CheckRunnable(w) \/ MarkRunning(w)
  BY <1>1 DEF Dequeue, CheckRunnable, MarkRunning
<1>2. CASE ExitAtGate(w) \/ ExitSuccess(w) \/ ExitError(w) \/ RetryAgent(w)
  BY <1>2 DEF ExitAtGate, ExitSuccess, ExitError, RetryAgent
<1>3. CASE RetryModel(w) \/ RetryTask(w) \/ WriteTask(w) \/ WriteAgent(w) \/ HandleErrorTask(w) \/ HandleErrorAgent(w)
  BY <1>3 DEF RetryModel, RetryTask, WriteTask, WriteAgent, HandleErrorTask, HandleErrorAgent
<1>4. CASE Launch(w) \/ ExitAfterStop(w) \/ RetryTimer(w) \/ Close(w)
  BY <1>4 DEF Launch, ExitAfterStop, RetryTimer, Close
<1> QED
  BY <1>1, <1>2, <1>3, <1>4 DEF Work

\* Only a stop, a poll, a crash and the worker of a task drop its registry entry.
LEMMA EntriesStay ==
  ASSUME TypeOK, [TrackedNext]_trackedVars, ~Crash, ~PruneRegistry, NEW t \in Tasks,
         \A w \in Workers : Work(w) => worker[w].task # t \/ active' = active,
         stopper'[t].pc = "none"
  PROVE  active'[t] = active[t] /\ stopper[t].pc = "none"
<1>0. /\ active \in [Tasks -> Pids \cup {NoPid}]
      /\ stopper \in [Tasks -> [pc : {"none", "stopTask", "stopAgent", "terminate", "done"},
                                pid : Pids \cup {NoPid}, restart : BOOLEAN]]
  BY TypeFacts
<1>1. ASSUME NEW w \in Workers, Work(w) PROVE active'[t] = active[t] /\ stopper' = stopper
  <2>1. CASE active' = active
    BY <1>1, <2>1, WorkFrame
  <2>2. CASE worker[w].task # t
    <3>1. active'[t] = active[t]
      BY <1>0, <1>1, <2>2, WorkersOwnEntries
    <3> QED
      BY <1>1, <3>1, WorkFrame
  <2> QED
    BY <1>1, <2>1, <2>2
<1>2. ASSUME NEW w \in Workers, Fault(w) PROVE active' = active /\ stopper' = stopper
  BY <1>2 DEF Fault, RunFault, WorkerFault, HandlerFault, memory
<1>3. ASSUME NEW u \in Tasks, Spawn(u) \/ TimerFires(u) PROVE active' = active /\ stopper' = stopper
  BY <1>3 DEF Spawn, SpawnRows, SpawnProvision, SpawnEnqueue, TimerFires, memory
<1>4. ASSUME NEW u \in Tasks, Stop(u) PROVE active'[t] = active[t] /\ stopper[t].pc = "none"
  <2>1. CASE StopBegin(u)
    <3>1. u # t
      BY <1>0, <2>1 DEF StopBegin, Request
    <3> QED
      BY <1>0, <2>1, <3>1 DEF StopBegin
  <2>2. CASE StopTask(u) \/ StopAgent(u) \/ TerminateAgent(u)
    <3>1. u # t
      BY <1>0, <2>2 DEF StopTask, StopAgent, TerminateAgent, Request
    <3> QED
      BY <1>0, <2>2, <3>1 DEF StopTask, StopAgent, TerminateAgent, memory
  <2> QED
    BY <1>4, <2>1, <2>2 DEF Stop
<1>5. ASSUME NEW q \in Pids, WriteCheckpoint(q) \/ ProcessExit(q) PROVE active' = active /\ stopper' = stopper
  BY <1>5 DEF WriteCheckpoint, ProcessExit, memory
<1>6. CASE Heal \/ OtherFault
  BY <1>6 DEF Heal, HealBegin, HealRead, HealPut, OtherFault, HealFault, SpawnFault, TimerFault, memory
<1>7. CASE Track \/ UNCHANGED trackedVars
  BY <1>7, TrackFrame DEF trackedVars, vars
<1> QED
  BY <1>1, <1>2, <1>3, <1>4, <1>5, <1>6, <1>7 DEF TrackedNext, Next, Step

\* Where a worker that is at work after a step comes from.
LEMMA AtWorkBefore ==
  ASSUME TypeOK, Attendance, [TrackedNext]_trackedVars, NEW w \in Workers, AtWork(w)'
  PROVE  \/ Launch(w)
         \/ /\ ~Crash /\ AtWork(w)
            /\ worker'[w].pid = worker[w].pid /\ worker'[w].task = worker[w].task
            /\ Work(w) => active' = active
<1>0. /\ worker \in [Workers -> [pc : WorkerPcs, task : Tasks \cup {NoTask},
                                 pid : Pids \cup {NoPid}, outcome : Outcomes]]
  BY TypeFacts
<1>1. ~Crash
  BY DEF Crash, IdleWorker, AtWork
<1>2. CASE Work(w)
  BY <1>1, <1>2, WorkStaysAtWork
<1>3. CASE ~Work(w)
  <2>1. worker'[w] = worker[w]
    <3>1. ASSUME NEW v \in Workers, Work(v) PROVE worker'[w] = worker[w]
      BY <1>0, <1>3, <3>1, WorkersMoveAlone
    <3>2. ASSUME NEW v \in Workers, Fault(v) PROVE worker'[w] = worker[w]
      BY <3>2, FaultStaysAtWork
    <3>3. CASE Track
      BY <3>3, TrackFrame
    <3>4. CASE ~Track
      BY <1>1, <3>1, <3>2, <3>4, OthersLeaveWorkers, TrackedNextIsNext DEF Next, Step, trackedVars
    <3> QED
      BY <3>3, <3>4
  <2> QED
    BY <1>1, <1>3, <2>1 DEF AtWork
<1> QED
  BY <1>2, <1>3

\* A poll that dropped an entry is remembered.
LEMMA PollsGrow ==
  ASSUME TypeOK, [TrackedNext]_trackedVars, polls' = 0
  PROVE  polls = 0 /\ ~PruneRegistry
<1>0. polls \in Nat
  BY DEF TypeOK, RequestsOK
<1>1. ~PruneRegistry
  BY <1>0 DEF PruneRegistry
<1>2. ASSUME NEW w \in Workers, Work(w) \/ Fault(w) PROVE polls' = polls
  BY <1>2, WorkFrame DEF Fault, RunFault, WorkerFault, HandlerFault, history
<1>3. ASSUME NEW u \in Tasks, Spawn(u) \/ TimerFires(u) \/ Stop(u) PROVE polls' = polls
  BY <1>3 DEF Spawn, SpawnRows, SpawnProvision, SpawnEnqueue, TimerFires, Stop, StopBegin,
              StopTask, StopAgent, TerminateAgent, history
<1>4. ASSUME NEW p \in Pids, WriteCheckpoint(p) \/ ProcessExit(p) PROVE polls' = polls
  BY <1>4 DEF WriteCheckpoint, ProcessExit, history
<1>5. CASE Heal \/ OtherFault \/ Crash
  BY <1>1, <1>5 DEF Heal, HealBegin, HealRead, HealPut, OtherFault, HealFault, SpawnFault, TimerFault,
                    Crash, history
<1>6. CASE Track \/ UNCHANGED trackedVars
  BY <1>1, <1>6, TrackFrame DEF trackedVars, vars
<1> QED
  BY <1>1, <1>2, <1>3, <1>4, <1>5, <1>6 DEF TrackedNext, Step

LEMMA RegisteredStep ==
  ASSUME RunnerInv, Registered, [TrackedNext]_trackedVars
  PROVE  Registered'
<1>0. TypeOK /\ Attendance /\ Custody
  BY DEF RunnerInv
<1> SUFFICES ASSUME Sole', NEW w \in Workers, AtWork(w)', polls' = 0, NEW t, t = worker'[w].task,
                    stopper'[t].pc = "none"
             PROVE  active'[t] # NoPid
  BY DEF Registered, AtWork
<1>1. CASE Launch(w)
  <2>1. worker[w].pc = "starting" /\ worker[w].task \in Tasks
    BY <1>0, <1>1 DEF Launch, TypeOK, WorkersOK
  <2>2. PICK p \in Pids : active' = [active EXCEPT ![worker[w].task] = p] /\ worker' = [worker EXCEPT ![w].pc = "launched", ![w].pid = p]
    BY <1>1 DEF Launch
  <2>3. worker'[w].task = worker[w].task
    BY <1>0, <2>2, TypeFacts
  <2>4. active'[worker[w].task] = p
    BY <1>0, <2>1, <2>2, TypeFacts
  <2> QED
    BY <2>3, <2>4, PidsAssumption
<1>2. CASE ~Launch(w)
  <2>1. /\ ~Crash /\ AtWork(w) /\ worker[w].task = t
        /\ Work(w) => active' = active
    BY <1>0, <1>2, AtWorkBefore
  <2>2. t \in Tasks
    BY <1>0, <2>1, TypeFacts DEF AtWork, Running, Finishing
  <2>3. ~PruneRegistry /\ polls = 0
    BY <1>0, PollsGrow
  <2>4. ASSUME NEW v \in Workers, Work(v) PROVE worker[v].task # t \/ active' = active
    <3>1. Sole
      BY <1>0, SoleStep
    <3>2. worker[v].task = t => v = w
      BY <1>0, <2>1, <2>2, <3>1 DEF Sole, Custody, Holds
    <3> QED
      BY <2>1, <2>4, <3>2
  <2>5. active'[t] = active[t] /\ stopper[t].pc = "none"
    BY <1>0, <2>1, <2>2, <2>3, <2>4, EntriesStay
  <2>6. active[t] # NoPid
    BY <1>0, <2>1, <2>3, <2>5, SoleStep DEF Registered
  <2> QED
    BY <2>5, <2>6
<1> QED
  BY <1>1, <1>2

\* A verdict of orphan is new only in the step that finds the process dead and
\* the registry empty; until the tracker has written it the snapshot stays.
LEMMA VerdictStep ==
  ASSUME TrackerOK, [TrackedNext]_trackedVars, NEW t \in Tasks, Judged(t)'
  PROVE  /\ tracker'.pids[t] = tracker.pids[t]
         /\ JudgeOrphan(t) \/ (Judged(t) /\ ~Track)
<1> USE DEF TrackerOK, Judged
<1>1. CASE Track
  <2>1. ASSUME NEW u \in Tasks, JudgeOrphan(u)
        PROVE  tracker'.pids = tracker.pids /\ tracker'.current = u
    BY <2>1 DEF JudgeOrphan, Judge
  <2>2. ASSUME NEW u \in Tasks, JudgeSync(u) \/ JudgeStuck(u) PROVE FALSE
    BY <2>2 DEF JudgeSync, JudgeStuck, Judge
  <2>3. ~(TrackTask \/ TrackAgent \/ TrackFinish)
    BY DEF TrackTask, TrackAgent, TrackFinish, Resume, IdleTracker
  <2>4. ASSUME TrackSnapshot PROVE tracker'.pc = "loop"
    BY <2>4 DEF TrackSnapshot, IdleTracker
  <2>5. ASSUME TrackStuckScan PROVE tracker'.pc = "loop"
    BY <2>5 DEF TrackStuckScan, IdleTracker
  <2>6. ASSUME TrackSleep PROVE tracker'.pc = "idle"
    BY <2>6 DEF TrackSleep, IdleTracker
  <2>7. JudgeOrphan(t)
    <3>1. PICK u \in Tasks : JudgeOrphan(u)
      BY <1>1, <2>2, <2>3, <2>4, <2>5, <2>6 DEF Track
    <3>2. u = t
      BY <2>1, <3>1
    <3> QED
      BY <3>1, <3>2
  <2> QED
    BY <2>1, <2>7
<1>2. CASE ~Track
  <2>1. tracker' # IdleTracker
    BY DEF IdleTracker
  <2>2. tracker' = tracker
    BY <1>2, <2>1, TrackedNextIsNext DEF trackedVars
  <2> QED
    BY <1>2, <2>2
<1> QED
  BY <1>1, <1>2

LEMMA LaunchTakesUnborn ==
  ASSUME TypeOK, NEW w \in Workers, Launch(w)
  PROVE  worker'[w].pid # NoPid /\ proc[worker'[w].pid].state = "unborn"
  BY TypeFacts, PidsAssumption DEF Launch

\* A stop once asked for is remembered.
LEMMA RequestsStay ==
  ASSUME TypeOK, [TrackedNext]_trackedVars, NEW t \in Tasks, stopper'[t].pc = "none"
  PROVE  stopper[t].pc = "none"
<1>0. stopper \in [Tasks -> [pc : {"none", "stopTask", "stopAgent", "terminate", "done"},
                             pid : Pids \cup {NoPid}, restart : BOOLEAN]]
  BY TypeFacts
<1>1. ASSUME NEW u \in Tasks, Stop(u) PROVE stopper[t].pc = "none"
  <2>1. u # t
    BY <1>0, <1>1 DEF Stop, StopBegin, StopTask, StopAgent, TerminateAgent, Request
  <2> QED
    BY <1>0, <1>1, <2>1 DEF Stop, StopBegin, StopTask, StopAgent, TerminateAgent
<1>2. CASE Crash
  BY <1>2 DEF Crash, Request
<1>3. ASSUME NEW w \in Workers, Work(w) \/ Fault(w) PROVE stopper' = stopper
  BY <1>3, WorkFrame DEF Fault, RunFault, WorkerFault, HandlerFault
<1>4. ASSUME NEW u \in Tasks, Spawn(u) \/ TimerFires(u) PROVE stopper' = stopper
  BY <1>4 DEF Spawn, SpawnRows, SpawnProvision, SpawnEnqueue, TimerFires
<1>5. ASSUME \/ \E p \in Pids : WriteCheckpoint(p) \/ ProcessExit(p)
             \/ Heal \/ PruneRegistry \/ OtherFault
      PROVE  stopper' = stopper
  BY <1>5 DEF WriteCheckpoint, ProcessExit, Heal, HealBegin, HealRead, HealPut, OtherFault, HealFault, SpawnFault, TimerFault, PruneRegistry
<1>6. CASE Track \/ UNCHANGED trackedVars
  BY <1>6, TrackFrame DEF trackedVars, vars
<1> QED
  BY <1>1, <1>2, <1>3, <1>4, <1>5, <1>6 DEF TrackedNext, Next, Step

LEMMA AbandonedStep ==
  ASSUME OrphanInv, [TrackedNext]_trackedVars
  PROVE  Abandoned'
<1>0. /\ TypeOK /\ TrackerOK /\ Attendance /\ PidsKnown /\ Registered /\ Abandoned
      /\ tracker.pids \in [Tasks -> Pids \cup {NoPid}]
  BY DEF OrphanInv, RunnerInv, TrackerOK
<1>1. ASSUME NEW t \in Tasks, Judged(t)'
      PROVE  tracker'.pids[t] = tracker.pids[t] /\ tracker.pids[t] # NoPid
  BY <1>0, <1>1, VerdictStep DEF Abandoned, JudgeOrphan, Orphaned
<1>2. ASSUME NEW t \in Tasks, Judged(t)', polls' = 0, stopper'[t].pc = "none", Sole',
             NEW w \in Workers, worker'[w].pid = tracker.pids[t], AtWork(w)'
      PROVE  FALSE
  <2>1. ProcessOf(tracker.pids[t], t) /\ tracker.pids[t] # NoPid
    BY <1>0, <1>1, <1>2 DEF PidsKnown
  <2>2. ~Launch(w)
    BY <1>0, <1>2, <2>1, LaunchTakesUnborn DEF ProcessOf
  <2>3. /\ ~Crash /\ AtWork(w) /\ worker[w].pid = tracker.pids[t]
        /\ Work(w) => active' = active
    BY <1>0, <1>2, <2>2, AtWorkBefore
  <2>4. worker[w].task = t
    BY <1>0, <2>1, <2>3 DEF Attendance, ProcessOf
  <2>5. Sole
    BY <1>0, <1>2, SoleStep
  <2>6. stopper[t].pc = "none"
    BY <1>0, <1>2, <2>3, RequestsStay
  <2>a. polls = 0
    BY <1>0, <1>2, PollsGrow
  <2>7. active[t] # NoPid
    BY <1>0, <1>2, <2>3, <2>4, <2>5, <2>6, <2>a DEF Registered
  <2>8. ~JudgeOrphan(t)
    BY <2>7 DEF JudgeOrphan, Orphaned, RunnerIsManaging
  <2>9. Judged(t)
    BY <1>0, <1>2, <2>8, VerdictStep
  <2> QED
    BY <1>0, <1>2, <2>3, <2>5, <2>6, <2>9, <2>a DEF Abandoned
<1> QED
  BY <1>1, <1>2 DEF Abandoned

LEMMA OrphanStep == OrphanInv /\ [TrackedNext]_trackedVars => OrphanInv'
  BY RunnerStep, PidsStep, RegisteredStep, AbandonedStep DEF OrphanInv

LEMMA OrphanInit == TrackedInit => OrphanInv
<1> SUFFICES ASSUME TrackedInit PROVE OrphanInv
  OBVIOUS
<1>1. \A w \in Workers : ~AtWork(w)
  BY DEF TrackedInit, Init, IdleWorker, AtWork
<1>2. PidsKnown
  BY DEF TrackedInit, Init, PidsKnown, IdleTracker, NoPids
<1>3. \A t \in Tasks : ~Judged(t)
  BY DEF TrackedInit, IdleTracker, Judged
<1> QED
  BY <1>1, <1>2, <1>3, RunnerInit DEF OrphanInv, Registered, Abandoned

\* The tracker decides from a snapshot and an old look at the registry, and still
\* no worker has the result of an orphan's process left to write.
THEOREM OrphansAreAbandoned == TrackedSpec => []OrphanHasNoRunner
<1>1. OrphanInv => OrphanHasNoRunner
  BY DEF OrphanInv, Abandoned, OrphanHasNoRunner, Judged, Sole, AtWork
<1> QED
  BY <1>1, OrphanInit, OrphanStep, PTL DEF TrackedSpec

-----------------------------------------------------------------------------
(* The operator's stop beside the runner and the tracker. *)

\* The tracker at work elsewhere leaves the rows of a stopped task alone and
\* does not turn to it: its snapshots hold running tasks only.
LEMMA TrackKeepsHalted ==
  ASSUME TypeOK, TrackerOK, Track, NEW t \in Tasks, Halted(t)
  PROVE  Halted(t)'
<1>0. /\ RowsOK /\ t # NoTask
      /\ tracker.current # t /\ t \notin tracker.todo /\ task[t].status = "stopped"
  BY TasksAssumption DEF TypeOK, Halted, TrackerAt
<1>1. UNCHANGED worker
  BY TrackFrame
<1>2. task'[t] = task[t] /\ agent'[t] = agent[t]
  <2>1. CASE TrackTask
    BY <1>0, <2>1 DEF TrackTask, RowsOK
  <2>2. CASE TrackAgent \/ TrackFinish
    BY <1>0, <2>2 DEF TrackAgent, TrackFinish, RowsOK
  <2>3. CASE UNCHANGED vars
    BY <2>3 DEF vars
  <2> QED
    BY <2>1, <2>2, <2>3 DEF Track, TrackSnapshot, TrackStuckScan, TrackSleep, JudgeOrphan, JudgeSync, JudgeStuck
<1>3. tracker'.current # t /\ t \notin tracker'.todo
  <2> USE <1>0 DEF TrackerOK
  <2>1. CASE TrackSnapshot
    BY <2>1 DEF TrackSnapshot, IdleTracker
  <2>2. CASE TrackStuckScan
    <3>1. PICK inactive \in SUBSET {u \in Tasks : task[u].status = "running" /\ checkpoint[u] = "none"} :
            tracker' = [IdleTracker EXCEPT !.pc = "loop", !.phase = "stuck", !.todo = inactive]
      BY <2>2 DEF TrackStuckScan
    <3> QED
      BY <3>1 DEF IdleTracker
  <2>3. CASE TrackSleep
    BY <2>3 DEF TrackSleep, IdleTracker
  <2>4. ASSUME Resume PROVE tracker'.current # t /\ t \notin tracker'.todo
    BY <2>4 DEF Resume, IdleTracker
  <2>5. CASE TrackTask \/ TrackAgent \/ TrackFinish
    BY <2>4, <2>5 DEF TrackTask, TrackAgent, TrackFinish
  <2>6. ASSUME NEW u \in Tasks, NEW v, NEW o, u \in tracker.todo, Judge(u, v, o)
        PROVE  tracker'.current # t /\ t \notin tracker'.todo
    BY <2>6 DEF Judge
  <2>7. ASSUME NEW u \in Tasks, JudgeOrphan(u) \/ JudgeSync(u) \/ JudgeStuck(u)
        PROVE  tracker'.current # t /\ t \notin tracker'.todo
    <3>1. CASE tracker' = [tracker EXCEPT !.todo = @ \ {u}]
      BY <3>1
    <3>2. CASE tracker' # [tracker EXCEPT !.todo = @ \ {u}]
      <4>1. u \in tracker.todo /\ \E v \in Verdicts, o \in BOOLEAN : Judge(u, v, o)
        BY <2>7, <3>2 DEF JudgeOrphan, JudgeSync, JudgeStuck, Verdicts
      <4> QED
        BY <2>6, <4>1
    <3> QED
      BY <3>1, <3>2
  <2> QED
    BY <2>1, <2>2, <2>3, <2>5, <2>7 DEF Track
<1> QED
  BY <1>1, <1>2, <1>3 DEF Halted, TrackerAt, Committed, Holds

LEMMA HaltedStep ==
  ASSUME TypeOK, TrackerOK, [TrackedNext]_trackedVars, NEW t \in Tasks, Halted(t)
  PROVE  Halted(t)'
<1>1. CASE Track
  BY <1>1, TrackKeepsHalted
<1>2. CASE ~Track
  <2>1. [Next]_vars /\ tracker' \in {tracker, IdleTracker}
    BY <1>2, TrackedNextIsNext DEF trackedVars
  <2>2. Settled(t)
    BY DEF Settled, Halted
  <2>3. Settled(t)'
    BY <2>1, <2>2, SettledStays
  <2>4. ~TrackerAt(t)'
    BY <2>1, TasksAssumption DEF Halted, TrackerAt, IdleTracker
  <2> QED
    BY <2>3, <2>4 DEF Settled, Halted
<1> QED
  BY <1>1, <1>2

\* Once both writes of a stop are made, no worker is between reading the rows of
\* the task and writing them and the tracker is not at it, no later step of the
\* queue, the timers, the self-heal pass, the tracker, a crash or a failing call
\* makes the task live again.
THEOREM StopFinal == TrackedSpec => StopSticks
<1>1. RunnerInv /\ [TrackedNext]_trackedVars => [\A t \in Tasks : Halted(t) => Halted(t)']_trackedVars
  BY HaltedStep DEF RunnerInv
<1> QED
  BY <1>1, RunnerInvariant, PTL DEF TrackedSpec, StopSticks
=============================================================================
