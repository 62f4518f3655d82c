------------------------- MODULE AgentRunnerProofs -------------------------
(***************************************************************************)
(* Proofs about AgentRunner, for every number of tasks, workers and        *)
(* processes and every bound: type correctness; each live harness process  *)
(* is attended by its own queue worker; MAX_CONCURRENT_AGENTS bounds the   *)
(* processes; only a self-heal pass or a failing database call can start a *)
(* second process for a task; retries are bounded; no queued task is lost; *)
(* a stop is final.                                                        *)
(***************************************************************************)
EXTENDS AgentRunner, FiniteSetTheorems, TLAPS

-----------------------------------------------------------------------------
(* Type correctness, one part of TypeOK at a time. *)

LEMMA WorkersStep == TypeOK /\ [Next]_vars => WorkersOK'
<1> SUFFICES ASSUME TypeOK, [Next]_vars PROVE WorkersOK'
  OBVIOUS
<1>0. WorkersOK
  BY DEF TypeOK
<1> USE <1>0, TasksAssumption DEF WorkersOK, WorkerPcs, Outcomes
<1>1. ASSUME NEW w \in Workers, Work(w) PROVE WorkersOK'
  <2>1. CASE Dequeue(w)
    <3>1. PICK t \in Tasks : worker' = [worker EXCEPT ![w].pc = "dequeued", ![w].task = t]
      BY <2>1 DEF Dequeue
    <3>2. t # NoTask
      OBVIOUS
    <3> QED
      BY <3>1, <3>2 DEF Unstarted
  <2>2. CASE CheckRunnable(w)
    BY <2>2 DEF CheckRunnable, Unstarted, Goto, Release, IdleWorker
  <2>3. CASE Launch(w)
    <3>1. PICK p \in Pids : worker' = [worker EXCEPT ![w].pc = "launched", ![w].pid = p]
      BY <2>3 DEF Launch
    <3>2. worker[w].task # NoTask
      BY <2>3 DEF Launch, Unstarted
    <3> QED
      BY <3>1, <3>2 DEF Running
  <2>4. CASE MarkRunning(w)
    BY <2>4 DEF MarkRunning, Running, Goto
  <2>5. CASE ExitAtGate(w) \/ ExitSuccess(w)
    BY <2>5 DEF ExitAtGate, ExitSuccess, Exited, Finalise, Finishing
  <2>6. CASE ExitError(w) \/ RetryAgent(w)
    <3>1. PICK pc \in {"retryAgent", "retryModel", "retryTask", "writeTask"}, o \in Outcomes :
            /\ pc = "writeTask" => o # "none"
            /\ worker' = [worker EXCEPT ![w].pc = pc, ![w].outcome = o]
      <4>1. worker[w].outcome \in Outcomes
        OBVIOUS
      <4>2. ASSUME NEW pc \in {"retryAgent", "retryModel", "retryTask"}, Goto(w, pc)
            PROVE worker' = [worker EXCEPT ![w].pc = pc, ![w].outcome = worker[w].outcome]
        BY <4>2 DEF Goto
      <4> QED
        BY <2>6, <4>1, <4>2 DEF ExitError, RetryAgent, Finalise
    <3>2. worker[w].task # NoTask
      BY <2>6 DEF ExitError, RetryAgent, Exited
    <3> QED
      BY <3>1, <3>2 DEF Finishing
  <2>7. CASE RetryModel(w) \/ RetryTask(w) \/ WriteTask(w) \/ WriteAgent(w) \/ HandleErrorTask(w)
    BY <2>7 DEF RetryModel, RetryTask, WriteTask, WriteAgent, HandleErrorTask, Goto, Finishing, Handling
  <2>8. CASE ExitAfterStop(w) \/ RetryTimer(w) \/ Close(w) \/ HandleErrorAgent(w)
    BY <2>8 DEF ExitAfterStop, RetryTimer, Close, HandleErrorAgent, Release, IdleWorker
  <2> QED
    BY <1>1, <2>1, <2>2, <2>3, <2>4, <2>5, <2>6, <2>7, <2>8 DEF Work
<1>2. ASSUME NEW w \in Workers, Fault(w) PROVE WorkersOK'
  <2>1. CASE RunFault(w)
    <3>1. worker' = [worker EXCEPT ![w].pc = "attending", ![w].pid = NoPid]
      BY <2>1 DEF RunFault
    <3>2. worker[w].task # NoTask
      BY <2>1 DEF RunFault, Attends
    <3> QED
      BY <3>1, <3>2 DEF Running
  <2>2. CASE WorkerFault(w)
    BY <2>2 DEF WorkerFault, Exited, Goto, Unstarted, Finishing, Handling
  <2>3. CASE HandlerFault(w)
    BY <2>3 DEF HandlerFault, Release, IdleWorker
  <2> QED
    BY <1>2, <2>1, <2>2, <2>3 DEF Fault
<1>3. ASSUME NEW t \in Tasks, Spawn(t) \/ TimerFires(t) \/ Stop(t) PROVE WorkersOK'
  BY <1>3 DEF Spawn, SpawnRows, SpawnProvision, SpawnEnqueue, TimerFires,
              Stop, StopBegin, StopTask, StopAgent, TerminateAgent
<1>4. ASSUME NEW p \in Pids, WriteCheckpoint(p) \/ ProcessExit(p) PROVE WorkersOK'
  BY <1>4 DEF WriteCheckpoint, ProcessExit
<1>5. CASE Heal \/ PruneRegistry \/ OtherFault
  BY <1>5 DEF Heal, HealBegin, HealRead, HealPut, OtherFault, HealFault, SpawnFault, TimerFault, PruneRegistry
<1>6. CASE Crash
  BY <1>6 DEF Crash, IdleWorker
<1>7. CASE UNCHANGED vars
  BY <1>7 DEF vars
<1> QED
  BY <1>1, <1>2, <1>3, <1>4, <1>5, <1>6, <1>7 DEF Next, Step

LEMMA RowsStep == TypeOK /\ [Next]_vars => RowsOK'
<1> SUFFICES ASSUME TypeOK, [Next]_vars PROVE RowsOK'
  OBVIOUS
<1>0. RowsOK /\ WorkersOK
  BY DEF TypeOK
<1> USE <1>0 DEF RowsOK, TaskStatus, AgentStatus, Checkpoints
<1>1. ASSUME NEW w \in Workers, Work(w) PROVE RowsOK'
  <2>0. /\ worker[w].pc # "idle" => worker[w].task \in Tasks
        /\ worker[w].pid \in Pids \cup {NoPid}
        /\ worker[w].pc \in {"writeTask", "writeAgent"} =>
             worker[w].outcome \in {"completed", "waiting", "failed"}
    BY DEF WorkersOK, Outcomes
  <2> HIDE DEF WorkersOK
  <2>1. CASE Dequeue(w) \/ CheckRunnable(w) \/ Launch(w) \/ ExitAfterStop(w)
             \/ ExitAtGate(w) \/ RetryTimer(w) \/ Close(w)
    BY <2>1 DEF Dequeue, CheckRunnable, Launch, ExitAfterStop, ExitAtGate, RetryTimer, Close, store
  <2>2. CASE MarkRunning(w)
    BY <2>0, <2>2 DEF MarkRunning
  <2>3. CASE ExitSuccess(w)
    BY <2>0, <2>3 DEF ExitSuccess, Exited
  <2>4. CASE ExitError(w)
    BY <2>0, <2>4 DEF ExitError, Exited
  <2>5. CASE RetryAgent(w) \/ RetryModel(w)
    BY <2>0, <2>5 DEF RetryAgent, RetryModel
  <2>6. CASE RetryTask(w)
    BY <2>0, <2>6 DEF RetryTask
  <2>7. CASE WriteTask(w)
    BY <2>0, <2>7 DEF WriteTask
  <2>8. CASE HandleErrorTask(w)
    <3>1. worker[w].task \in Tasks
      BY <2>0, <2>8 DEF HandleErrorTask
    <3> QED
      BY <2>8, <3>1 DEF HandleErrorTask
  <2>9. CASE WriteAgent(w) \/ HandleErrorAgent(w)
    BY <2>0, <2>9 DEF WriteAgent, HandleErrorAgent, AgentStatusFor
  <2> QED
    BY <1>1, <2>1, <2>2, <2>3, <2>4, <2>5, <2>6, <2>7, <2>8, <2>9 DEF Work
<1>2. ASSUME NEW w \in Workers, Fault(w) PROVE RowsOK'
  BY <1>2 DEF Fault, RunFault, WorkerFault, HandlerFault, store
<1>3. ASSUME NEW t \in Tasks, Spawn(t) \/ TimerFires(t) PROVE RowsOK'
  <2>1. CASE SpawnRows(t)
    BY <2>1 DEF SpawnRows
  <2>2. CASE SpawnProvision(t)
    BY <2>2 DEF SpawnProvision
  <2>3. CASE SpawnEnqueue(t) \/ TimerFires(t)
    BY <2>3 DEF SpawnEnqueue, TimerFires, store
  <2> QED
    BY <1>3, <2>1, <2>2, <2>3 DEF Spawn
<1>4. ASSUME NEW t \in Tasks, Stop(t) PROVE RowsOK'
  <2>1. CASE StopBegin(t)
    BY <2>1 DEF StopBegin, store
  <2>2. CASE StopTask(t)
    BY <2>2 DEF StopTask
  <2>3. CASE StopAgent(t)
    BY <2>3 DEF StopAgent
  <2>4. CASE TerminateAgent(t)
    BY <2>4 DEF TerminateAgent
  <2> QED
    BY <1>4, <2>1, <2>2, <2>3, <2>4 DEF Stop
<1>5. ASSUME NEW p \in Pids, WriteCheckpoint(p) PROVE RowsOK'
  <2>1. proc[p].task \in Tasks
    BY <1>5 DEF TypeOK, ProcsOK, WriteCheckpoint
  <2> QED
    BY <1>5, <2>1, HarnessAssumption DEF WriteCheckpoint
<1>6. ASSUME NEW p \in Pids, ProcessExit(p) PROVE RowsOK'
  BY <1>6 DEF ProcessExit, store
<1>7. CASE Heal \/ PruneRegistry \/ OtherFault \/ Crash
  BY <1>7 DEF Heal, HealBegin, HealRead, HealPut, OtherFault, HealFault, SpawnFault, TimerFault, PruneRegistry, Crash, store
<1>8. CASE UNCHANGED vars
  BY <1>8 DEF vars
<1> QED
  BY <1>1, <1>2, <1>3, <1>4, <1>5, <1>6, <1>7, <1>8 DEF Next, Step

LEMMA MemoryStep == TypeOK /\ [Next]_vars => MemoryOK'
<1> SUFFICES ASSUME TypeOK, [Next]_vars PROVE MemoryOK'
  OBVIOUS
<1>0. MemoryOK
  BY DEF TypeOK
<1> USE <1>0 DEF MemoryOK, memory
<1>1. ASSUME NEW w \in Workers, Work(w) PROVE MemoryOK'
  <2>1. CASE Dequeue(w)
    BY <2>1 DEF Dequeue
  <2>2. CASE Launch(w) \/ ExitAfterStop(w) \/ RetryTimer(w) \/ Close(w)
    BY <2>2 DEF Launch, ExitAfterStop, RetryTimer, Close
  <2>3. CASE CheckRunnable(w) \/ MarkRunning(w) \/ ExitAtGate(w) \/ ExitSuccess(w) \/ ExitError(w)
    BY <2>3 DEF CheckRunnable, MarkRunning, ExitAtGate, ExitSuccess, ExitError
  <2>4. CASE RetryAgent(w) \/ RetryModel(w) \/ RetryTask(w) \/ WriteTask(w) \/ WriteAgent(w)
             \/ HandleErrorTask(w) \/ HandleErrorAgent(w)
    BY <2>4 DEF RetryAgent, RetryModel, RetryTask, WriteTask, WriteAgent, HandleErrorTask, HandleErrorAgent
  <2> QED
    BY <1>1, <2>1, <2>2, <2>3, <2>4 DEF Work
<1>2. ASSUME NEW w \in Workers, Fault(w) PROVE MemoryOK'
  BY <1>2 DEF Fault, RunFault, WorkerFault, HandlerFault
<1>3. ASSUME NEW t \in Tasks, Spawn(t) \/ TimerFires(t) PROVE MemoryOK'
  BY <1>3 DEF Spawn, SpawnRows, SpawnProvision, SpawnEnqueue, TimerFires, Put
<1>4. ASSUME NEW t \in Tasks, Stop(t) PROVE MemoryOK'
  BY <1>4 DEF Stop, StopBegin, StopTask, StopAgent, TerminateAgent
<1>5. ASSUME NEW p \in Pids, WriteCheckpoint(p) \/ ProcessExit(p) PROVE MemoryOK'
  BY <1>5 DEF WriteCheckpoint, ProcessExit
<1>6. CASE Heal \/ OtherFault
  <2>1. CASE HealBegin \/ HealRead \/ HealFault
    BY <2>1 DEF HealBegin, HealRead, HealFault
  <2>2. CASE HealPut
    BY <2>2 DEF HealPut
  <2>3. ASSUME NEW t \in Tasks, SpawnFault(t) \/ TimerFault(t) PROVE MemoryOK'
    BY <2>3 DEF SpawnFault, TimerFault
  <2> QED
    BY <1>6, <2>1, <2>2, <2>3 DEF Heal, OtherFault
<1>7. CASE PruneRegistry \/ Crash
  BY <1>7 DEF PruneRegistry, Crash
<1>8. CASE UNCHANGED vars
  BY <1>8 DEF vars
<1> QED
  BY <1>1, <1>2, <1>3, <1>4, <1>5, <1>6, <1>7, <1>8 DEF Next, Step

LEMMA ProcsStep == TypeOK /\ [Next]_vars => ProcsOK'
<1> SUFFICES ASSUME TypeOK, [Next]_vars PROVE ProcsOK'
  OBVIOUS
<1>0. ProcsOK
  BY DEF TypeOK
<1> USE <1>0 DEF ProcsOK, Results
<1>1. ASSUME NEW w \in Workers, Work(w) PROVE ProcsOK'
  <2>1. CASE Launch(w)
    <3>1. worker[w].task \in Tasks
      BY <2>1 DEF TypeOK, WorkersOK, Launch
    <3>2. worker[w].task # NoTask
      BY <3>1, TasksAssumption
    <3>3. PICK p \in Pids :
            proc' = [proc EXCEPT ![p] = [state |-> "alive", task |-> worker[w].task]]
      BY <2>1 DEF Launch
    <3> QED
      BY <3>1, <3>2, <3>3
  <2>2. CASE Dequeue(w) \/ CheckRunnable(w) \/ MarkRunning(w) \/ ExitAfterStop(w)
             \/ ExitAtGate(w) \/ ExitSuccess(w) \/ ExitError(w)
    BY <2>2 DEF Dequeue, CheckRunnable, MarkRunning, ExitAfterStop, ExitAtGate, ExitSuccess, ExitError
  <2>3. CASE RetryAgent(w) \/ RetryModel(w) \/ RetryTask(w) \/ RetryTimer(w) \/ WriteTask(w)
             \/ WriteAgent(w) \/ Close(w) \/ HandleErrorTask(w) \/ HandleErrorAgent(w)
    BY <2>3 DEF RetryAgent, RetryModel, RetryTask, RetryTimer, WriteTask, WriteAgent, Close,
                HandleErrorTask, HandleErrorAgent
  <2> QED
    BY <1>1, <2>1, <2>2, <2>3 DEF Work
<1>2. ASSUME NEW w \in Workers, Fault(w) PROVE ProcsOK'
  BY <1>2 DEF Fault, RunFault, WorkerFault, HandlerFault
<1>3. ASSUME NEW t \in Tasks, Spawn(t) \/ TimerFires(t) PROVE ProcsOK'
  BY <1>3 DEF Spawn, SpawnRows, SpawnProvision, SpawnEnqueue, TimerFires
<1>4. ASSUME NEW t \in Tasks, Stop(t) PROVE ProcsOK'
  <2>1. CASE StopTask(t)
    BY <2>1 DEF StopTask
  <2>2. CASE StopBegin(t) \/ StopAgent(t) \/ TerminateAgent(t)
    BY <2>2 DEF StopBegin, StopAgent, TerminateAgent
  <2> QED
    BY <1>4, <2>1, <2>2 DEF Stop
<1>5. ASSUME NEW p \in Pids, WriteCheckpoint(p) PROVE ProcsOK'
  BY <1>5 DEF WriteCheckpoint
<1>6. ASSUME NEW p \in Pids, ProcessExit(p) PROVE ProcsOK'
  BY <1>6, HarnessAssumption DEF ProcessExit
<1>7. CASE Heal \/ PruneRegistry \/ OtherFault
  BY <1>7 DEF Heal, HealBegin, HealRead, HealPut, OtherFault, HealFault, SpawnFault, TimerFault, PruneRegistry
<1>8. CASE Crash
  BY <1>8 DEF Crash
<1>9. CASE UNCHANGED vars
  BY <1>9 DEF vars
<1> QED
  BY <1>1, <1>2, <1>3, <1>4, <1>5, <1>6, <1>7, <1>8, <1>9 DEF Next, Step

LEMMA RequestsStep == TypeOK /\ [Next]_vars => RequestsOK'
<1> SUFFICES ASSUME TypeOK, [Next]_vars PROVE RequestsOK'
  OBVIOUS
<1>0. RequestsOK
  BY DEF TypeOK
<1> USE <1>0 DEF RequestsOK, history
<1>1. ASSUME NEW w \in Workers, Work(w) PROVE RequestsOK'
  <2>1. CASE Dequeue(w) \/ CheckRunnable(w) \/ Launch(w) \/ MarkRunning(w)
    BY <2>1 DEF Dequeue, CheckRunnable, Launch, MarkRunning
  <2>2. CASE ExitAfterStop(w) \/ ExitAtGate(w) \/ ExitSuccess(w) \/ ExitError(w)
    BY <2>2 DEF ExitAfterStop, ExitAtGate, ExitSuccess, ExitError
  <2>3. CASE RetryAgent(w) \/ RetryModel(w) \/ RetryTask(w) \/ RetryTimer(w)
    BY <2>3 DEF RetryAgent, RetryModel, RetryTask, RetryTimer
  <2>4. CASE WriteTask(w) \/ WriteAgent(w) \/ Close(w) \/ HandleErrorTask(w) \/ HandleErrorAgent(w)
    BY <2>4 DEF WriteTask, WriteAgent, Close, HandleErrorTask, HandleErrorAgent
  <2> QED
    BY <1>1, <2>1, <2>2, <2>3, <2>4 DEF Work
<1>2. ASSUME NEW w \in Workers, Fault(w) PROVE RequestsOK'
  BY <1>2 DEF Fault, RunFault, WorkerFault, HandlerFault
<1>3. ASSUME NEW t \in Tasks, Spawn(t) \/ TimerFires(t) PROVE RequestsOK'
  BY <1>3 DEF Spawn, SpawnRows, SpawnProvision, SpawnEnqueue, TimerFires
<1>4. ASSUME NEW t \in Tasks, StopBegin(t) PROVE RequestsOK'
  <2>1. active[t] \in Pids \cup {NoPid}
    BY DEF TypeOK, MemoryOK
  <2>2. PICK r \in [pc : {"stopTask", "stopAgent", "terminate"},
                    pid : Pids \cup {NoPid}, restart : BOOLEAN] :
          stopper' = [stopper EXCEPT ![t] = r]
    <3>1. PICK restart \in BOOLEAN :
            \/ \E pid \in {active[t], NoPid} :
                 stopper' = [stopper EXCEPT ![t] =
                   [pc |-> "stopTask", restart |-> restart, pid |-> pid]]
            \/ stopper' = [stopper EXCEPT ![t] =
                   [pc |-> IF restart THEN "terminate" ELSE "stopAgent",
                    pid |-> NoPid, restart |-> FALSE]]
      BY <1>4 DEF StopBegin, Request
    <3> QED
      BY <2>1, <3>1
  <2> QED
    BY <1>4, <2>2 DEF StopBegin
<1>5. ASSUME NEW t \in Tasks, StopTask(t) \/ StopAgent(t) \/ TerminateAgent(t) PROVE RequestsOK'
  <2>1. CASE StopTask(t)
    BY <2>1 DEF StopTask
  <2>2. CASE StopAgent(t)
    <3>1. PICK pc \in {"terminate", "done"} :
            stopper' = [stopper EXCEPT ![t] = [pc |-> pc, pid |-> NoPid, restart |-> FALSE]]
      BY <2>2 DEF StopAgent, Request
    <3>2. UNCHANGED <<spawner, healer, heals, polls, crashes, faults, lost>>
      BY <2>2 DEF StopAgent
    <3> QED
      BY <3>1, <3>2
  <2>3. CASE TerminateAgent(t)
    BY <2>3 DEF TerminateAgent
  <2> QED
    BY <1>5, <2>1, <2>2, <2>3
<1>6. ASSUME NEW p \in Pids, WriteCheckpoint(p) \/ ProcessExit(p) PROVE RequestsOK'
  BY <1>6 DEF WriteCheckpoint, ProcessExit
<1>7. CASE HealBegin
  BY <1>7 DEF HealBegin, Queued
<1>8. CASE HealRead \/ HealPut \/ PruneRegistry \/ OtherFault
  <2>1. CASE HealRead
    <3>1. PICK found \in SUBSET {t \in Tasks : Rehydratable(t)} :
            /\ healer' = [healer EXCEPT !.pc = "put", !.rows = found]
            /\ lost' = IF healer.pc = "boot" THEN lost \cup ({t \in Tasks : Rehydratable(t)} \ found)
                       ELSE lost
      BY <2>1 DEF HealRead
    <3> QED
      BY <2>1, <3>1 DEF HealRead
  <2>2. CASE HealPut
    BY <2>2 DEF HealPut, IdleHealer
  <2>3. CASE PruneRegistry
    BY <2>3 DEF PruneRegistry
  <2>4. CASE HealFault
    BY <2>4 DEF HealFault, IdleHealer
  <2>5. ASSUME NEW t \in Tasks, SpawnFault(t) \/ TimerFault(t) PROVE RequestsOK'
    BY <2>5 DEF SpawnFault, TimerFault
  <2> QED
    BY <1>8, <2>1, <2>2, <2>3, <2>4, <2>5 DEF OtherFault
<1>9. CASE Crash
  <2>1. healer' \in [pc : {"idle", "boot", "read", "put"}, queued : SUBSET Tasks, rows : SUBSET Tasks]
    BY <1>9 DEF Crash, IdleHealer
  <2>2. stopper' \in [Tasks -> [pc : {"none", "stopTask", "stopAgent", "terminate", "done"},
                                pid : Pids \cup {NoPid}, restart : BOOLEAN]]
    BY <1>9 DEF Crash, Request
  <2>3. spawner' \in [Tasks -> {"none", "provisioning", "enqueueing"}]
    BY <1>9 DEF Crash
  <2>4. heals' \in Nat /\ polls' \in Nat /\ crashes' \in Nat /\ faults' \in Nat /\ lost' \subseteq Tasks
    BY <1>9 DEF Crash
  <2> QED
    BY <2>1, <2>2, <2>3, <2>4
<1>10. CASE UNCHANGED vars
  BY <1>10 DEF vars
<1> QED
  BY <1>1, <1>2, <1>3, <1>4, <1>5, <1>6, <1>7, <1>8, <1>9, <1>10 DEF Next, Step, Stop, Heal

LEMMA TypeInit == Init => TypeOK
<1> SUFFICES ASSUME Init PROVE TypeOK
  OBVIOUS
<1>1. RowsOK
  BY DEF Init, RowsOK, TaskStatus, AgentStatus, Checkpoints
<1>2. MemoryOK
  BY DEF Init, MemoryOK
<1>3. WorkersOK
  BY DEF Init, WorkersOK, WorkerPcs, Outcomes, IdleWorker
<1>4. ProcsOK
  BY DEF Init, ProcsOK
<1>5. RequestsOK
  BY DEF Init, RequestsOK, IdleHealer, Request
<1> QED
  BY <1>1, <1>2, <1>3, <1>4, <1>5 DEF TypeOK

LEMMA TypeStep == TypeOK /\ [Next]_vars => TypeOK'
  BY RowsStep, MemoryStep, WorkersStep, ProcsStep, RequestsStep DEF TypeOK

\* The rows, coroutines and processes of the runner stay in their domains.
THEOREM TypeCorrect == Spec => []TypeOK
  BY TypeInit, TypeStep, PTL DEF Spec

-----------------------------------------------------------------------------
(* Attendance of the processes.  ProcessesAreAttended is not inductive: it *)
(* says nothing of a worker whose process has ended, nor that a process    *)
(* id is fresh when a worker takes it.                                     *)

Attendance ==
  /\ \A w \in Workers : worker[w].pc \in {"idle"} \cup Unstarted => worker[w].pid = NoPid
  /\ \A w \in Workers : worker[w].pid # NoPid =>
       /\ proc[worker[w].pid].state # "unborn"
       /\ proc[worker[w].pid].task = worker[w].task
  /\ \A v, w \in Workers : worker[v].pid = worker[w].pid /\ worker[v].pid # NoPid => v = w
  /\ faults = 0 => \A p \in Pids : proc[p].state = "alive" =>
       \E w \in Workers : worker[w].pid = p /\ worker[w].pc \in Running

\* Worker w moves on and leaves the processes alone; unless a call failed it
\* does not leave its own process while that is alive.
Move(w) ==
  /\ proc' = proc
  /\ faults' = 0 => faults = 0
  /\ \A v \in Workers \ {w} : worker'[v] = worker[v]
  /\ worker'[w].pid \in {NoPid, worker[w].pid}
  /\ worker'[w].pid # NoPid => worker'[w].task = worker[w].task
  /\ worker'[w].pc \in {"idle"} \cup Unstarted => worker'[w].pid = NoPid
  /\ faults' = 0 /\ worker[w].pc \in Running /\ Alive(worker[w].pid) =>
       worker'[w].pc \in Running /\ worker'[w].pid = worker[w].pid

\* Processes may end, and nothing else happens to processes and workers.
End ==
  /\ worker' = worker
  /\ faults' = 0 => faults = 0
  /\ \A p \in Pids : /\ proc'[p].task = proc[p].task
                     /\ proc'[p].state # proc[p].state =>
                          proc[p].state = "alive" /\ proc'[p].state \in Results

LEMMA MoveKeepsAttendance ==
  ASSUME TypeOK, Attendance, NEW w \in Workers, Move(w)
  PROVE  Attendance'
<1>0. \A v \in Workers : worker[v].pid \in Pids \cup {NoPid}
  BY DEF TypeOK, WorkersOK
<1>1. (\A v \in Workers : worker[v].pc \in {"idle"} \cup Unstarted => worker[v].pid = NoPid)'
  BY DEF Attendance, Move
<1>2. (\A v \in Workers : worker[v].pid # NoPid =>
         /\ proc[worker[v].pid].state # "unborn"
         /\ proc[worker[v].pid].task = worker[v].task)'
  BY DEF Attendance, Move
<1>3. (\A u, v \in Workers : worker[u].pid = worker[v].pid /\ worker[u].pid # NoPid => u = v)'
  BY DEF Attendance, Move
<1>4. ASSUME faults' = 0, NEW p \in Pids, proc'[p].state = "alive"
      PROVE \E v \in Workers : worker'[v].pid = p /\ worker'[v].pc \in Running
  <2>1. PICK v \in Workers : worker[v].pid = p /\ worker[v].pc \in Running
    BY <1>4 DEF Attendance, Move
  <2>2. Alive(worker[v].pid)
    BY <1>4, <2>1, PidsAssumption DEF Alive, Move
  <2> QED
    BY <1>4, <2>1, <2>2 DEF Move
<1> QED
  BY <1>1, <1>2, <1>3, <1>4 DEF Attendance, Running, Unstarted

LEMMA EndKeepsAttendance == TypeOK /\ Attendance /\ End => Attendance'
<1> SUFFICES ASSUME TypeOK, Attendance, End PROVE Attendance'
  OBVIOUS
<1>1. \A w \in Workers : worker[w].pid \in Pids \cup {NoPid}
  BY DEF TypeOK, WorkersOK
<1> QED
  BY <1>1 DEF Attendance, End, Running, Unstarted, Results

LEMMA LaunchKeepsAttendance ==
  ASSUME TypeOK, Attendance, NEW w \in Workers, Launch(w)
  PROVE  Attendance'
<1>0. /\ \A v \in Workers : worker[v].pid \in Pids \cup {NoPid}
      /\ worker[w].pid = NoPid
  BY DEF TypeOK, WorkersOK, Attendance, Launch, Unstarted
<1>1. PICK p \in Pids : /\ proc[p].state = "unborn"
                        /\ proc' = [proc EXCEPT ![p] = [state |-> "alive", task |-> worker[w].task]]
                        /\ worker' = [worker EXCEPT ![w].pc = "launched", ![w].pid = p]
  BY DEF Launch
<1>2. /\ worker'[w].pid = p /\ worker'[w].pc = "launched" /\ worker'[w].task = worker[w].task
      /\ \A v \in Workers \ {w} : worker'[v] = worker[v] /\ worker[v].pid # p
      /\ proc'[p] = [state |-> "alive", task |-> worker[w].task]
      /\ \A q \in Pids \ {p} : proc'[q] = proc[q]
  BY <1>0, <1>1, PidsAssumption DEF TypeOK, WorkersOK, ProcsOK, Attendance
<1>3. faults' = faults
  BY DEF Launch, history
<1> QED
  BY <1>0, <1>2, <1>3, PidsAssumption DEF Attendance, Running, Unstarted

LEMMA AttendanceStep == TypeOK /\ Attendance /\ [Next]_vars => Attendance'
<1> SUFFICES ASSUME TypeOK, Attendance, [Next]_vars PROVE Attendance'
  OBVIOUS
<1>0. /\ worker \in [Workers -> [pc : WorkerPcs, task : Tasks \cup {NoTask},
                                pid : Pids \cup {NoPid}, outcome : Outcomes]]
      /\ proc \in [Pids -> [state : {"unborn", "alive"} \cup Results, task : Tasks \cup {NoTask}]]
      /\ faults \in Nat
  BY DEF TypeOK, WorkersOK, ProcsOK, RequestsOK
<1>1. ASSUME NEW w \in Workers, Work(w) PROVE Attendance'
  <2>1. CASE Launch(w)
    BY <2>1, LaunchKeepsAttendance
  <2> USE <1>0 DEF Move, Goto, Release, Finalise, Running, Unstarted, IdleWorker, history
  <2>2. CASE Dequeue(w)
    <3>1. PICK t \in Tasks : worker' = [worker EXCEPT ![w].pc = "dequeued", ![w].task = t]
      BY <2>2 DEF Dequeue
    <3>2. worker[w].pid = NoPid
      BY <2>2 DEF Attendance, Dequeue
    <3>3. Move(w)
      BY <2>2, <3>1, <3>2 DEF Dequeue
    <3> QED
      BY <3>3, MoveKeepsAttendance
  <2>3. CASE CheckRunnable(w) \/ MarkRunning(w)
    <3>1. Move(w)
      BY <2>3 DEF CheckRunnable, MarkRunning, Attendance
    <3> QED
      BY <3>1, MoveKeepsAttendance
  <2>4. CASE ExitAfterStop(w) \/ ExitAtGate(w) \/ ExitSuccess(w)
    <3>1. Move(w)
      BY <2>4 DEF ExitAfterStop, ExitAtGate, ExitSuccess, Exited
    <3> QED
      BY <3>1, MoveKeepsAttendance
  <2>5. CASE ExitError(w)
    <3>1. Move(w)
      BY <2>5 DEF ExitError, Exited
    <3> QED
      BY <3>1, MoveKeepsAttendance
  <2>6. CASE RetryAgent(w) \/ RetryModel(w) \/ RetryTask(w) \/ RetryTimer(w)
    <3>1. Move(w)
      BY <2>6 DEF RetryAgent, RetryModel, RetryTask, RetryTimer
    <3> QED
      BY <3>1, MoveKeepsAttendance
  <2>7. CASE WriteTask(w) \/ WriteAgent(w) \/ Close(w) \/ HandleErrorTask(w) \/ HandleErrorAgent(w)
    <3>1. Move(w)
      BY <2>7 DEF WriteTask, WriteAgent, Close, HandleErrorTask, HandleErrorAgent
    <3> QED
      BY <3>1, MoveKeepsAttendance
  <2> QED
    BY <1>1, <2>1, <2>2, <2>3, <2>4, <2>5, <2>6, <2>7 DEF Work
<1>2. ASSUME NEW w \in Workers, Fault(w) PROVE Attendance'
  <2>1. Move(w)
    BY <1>0, <1>2 DEF Fault, RunFault, WorkerFault, HandlerFault, Move, Goto, Release,
                      IdleWorker, Unstarted
  <2> QED
    BY <2>1, MoveKeepsAttendance
<1>3. ASSUME NEW t \in Tasks, Spawn(t) \/ TimerFires(t) PROVE Attendance'
  <2>1. End
    BY <1>3 DEF Spawn, SpawnRows, SpawnProvision, SpawnEnqueue, TimerFires, End, history
  <2> QED
    BY <2>1, EndKeepsAttendance
<1>4. ASSUME NEW t \in Tasks, Stop(t) PROVE Attendance'
  <2>1. End
    BY <1>0, <1>4 DEF Stop, StopBegin, StopTask, StopAgent, TerminateAgent, End, Results, history
  <2> QED
    BY <2>1, EndKeepsAttendance
<1>5. ASSUME NEW p \in Pids, WriteCheckpoint(p) \/ ProcessExit(p) PROVE Attendance'
  <2>1. End
    BY <1>0, <1>5, HarnessAssumption DEF WriteCheckpoint, ProcessExit, End, history
  <2> QED
    BY <2>1, EndKeepsAttendance
<1>6. CASE Heal \/ PruneRegistry \/ OtherFault
  <2>1. worker' = worker /\ proc' = proc
    BY <1>6 DEF Heal, HealBegin, HealRead, HealPut, OtherFault, HealFault, SpawnFault,
         TimerFault, PruneRegistry
  <2>2. faults' \in {faults, faults + 1}
    BY <1>6 DEF Heal, HealBegin, HealRead, HealPut, OtherFault, HealFault, SpawnFault,
         TimerFault, PruneRegistry
  <2>3. faults \in Nat
    BY DEF TypeOK, RequestsOK
  <2>4. End
    BY <2>1, <2>2, <2>3 DEF End
  <2> QED
    BY <2>4, EndKeepsAttendance
<1>7. CASE Crash
  <2>1. /\ \A w \in Workers : worker'[w].pid = NoPid
        /\ \A p \in Pids : proc'[p].state # "alive"
    BY <1>0, <1>7 DEF Crash, IdleWorker
  <2> QED
    BY <2>1 DEF Attendance
<1>8. CASE UNCHANGED vars
  <2>1. End
    BY <1>8 DEF vars, End
  <2> QED
    BY <2>1, EndKeepsAttendance
<1> QED
  BY <1>1, <1>2, <1>3, <1>4, <1>5, <1>6, <1>7, <1>8 DEF Next, Step

LEMMA AttendanceInit == Init => Attendance
  BY DEF Init, Attendance, IdleWorker

LEMMA AttendanceInvariant == Spec => [](TypeOK /\ Attendance)
<1>1. Init => TypeOK /\ Attendance
  BY TypeInit, AttendanceInit
<1>2. TypeOK /\ Attendance /\ [Next]_vars => (TypeOK /\ Attendance)'
  BY TypeStep, AttendanceStep
<1> QED
  BY <1>1, <1>2, PTL DEF Spec

LEMMA AttendanceSuffices == Attendance => ProcessesAreAttended
  BY PidsAssumption DEF Attendance, ProcessesAreAttended

\* Until a call fails inside _run_agent, every live harness process is attended
\* by exactly one queue worker, through stops, retries, self-heals and crashes.
THEOREM Attended == Spec => []ProcessesAreAttended
  BY AttendanceSuffices, AttendanceInvariant, PTL

-----------------------------------------------------------------------------
(* The pool: the attending workers inject the live processes into Workers. *)

LEMMA AttendanceBoundsPool ==
  ASSUME TypeOK, Attendance
  PROVE  PoolBound
<1> SUFFICES ASSUME faults = 0
             PROVE  Cardinality({p \in Pids : proc[p].state = "alive"}) <= Cardinality(Workers)
  BY DEF PoolBound
<1> DEFINE Living == {p \in Pids : proc[p].state = "alive"}
           attendant == [p \in Living |-> CHOOSE w \in Workers : worker[w].pid = p]
<1>1. \A p \in Living : attendant[p] \in Workers /\ worker[attendant[p]].pid = p
  BY DEF Attendance
<1>2. attendant \in [Living -> Workers]
  BY <1>1
<1>3. \A p, q \in Living : attendant[p] = attendant[q] => p = q
  <2> HIDE DEF attendant
  <2> QED
    BY <1>1
<1>4. attendant \in Injection(Living, Workers)
  <2> HIDE DEF attendant, Living
  <2> QED
    BY <1>2, <1>3 DEF Injection, IsInjective
<1> HIDE DEF attendant
<1> QED
  BY <1>4, WorkersAssumption, FS_Injection

\* MAX_CONCURRENT_AGENTS bounds the harness processes alive at a time.
THEOREM PoolBounded == Spec => []PoolBound
  BY AttendanceBoundsPool, AttendanceInvariant, PTL

-----------------------------------------------------------------------------
(* Tasks in one place.  The strengthening of OneHolder: a task that was    *)
(* not spawned is nowhere, and no self-heal pass is under way.             *)

Free(t) == \A w \in Workers : ~Holds(w, t)

Custody ==
  heals = 0 =>
    /\ healer.pc = "idle"
    /\ \A t \in Tasks : task[t].status = "absent" =>
         queue[t] = 0 /\ timers[t] = 0 /\ spawner[t] = "none" /\ Free(t)
    /\ \A t \in Tasks : queue[t] + timers[t] <= 1
    /\ \A t \in Tasks : queue[t] + timers[t] = 1 \/ spawner[t] # "none" => Free(t)
    /\ \A t \in Tasks : spawner[t] # "none" => queue[t] + timers[t] = 0
    /\ \A t \in Tasks : \A v, w \in Workers : Holds(v, t) /\ Holds(w, t) => v = w

\* No task changes hands, except that workers may let go of theirs.
Calm ==
  /\ UNCHANGED <<queue, timers, spawner, healer, heals>>
  /\ \A t \in Tasks : task'[t].status = "absent" => task[t].status = "absent"
  /\ \A w \in Workers : worker'[w].task \in {worker[w].task, NoTask}

LEMMA CalmKeepsCustody == Custody /\ Calm => Custody'
  BY TasksAssumption DEF Custody, Calm, Free, Holds

LEMMA SpawnKeepsCustody ==
  ASSUME TypeOK, Custody, NEW t \in Tasks, Spawn(t)
  PROVE  Custody'
<1>0. /\ task \in [Tasks -> [status : TaskStatus, pid : Pids \cup {NoPid}, workDir : BOOLEAN]]
      /\ queue \in [Tasks -> Nat] /\ timers \in [Tasks -> Nat]
      /\ spawner \in [Tasks -> {"none", "provisioning", "enqueueing"}]
  BY DEF TypeOK, RowsOK, MemoryOK, RequestsOK
<1> USE <1>0 DEF Custody, Free, Holds, history, memory
<1>1. CASE SpawnRows(t)
  BY <1>1 DEF SpawnRows
<1>2. CASE SpawnProvision(t)
  BY <1>2 DEF SpawnProvision
<1>3. CASE SpawnEnqueue(t)
  BY <1>3 DEF SpawnEnqueue, Put, store
<1> QED
  BY <1>1, <1>2, <1>3 DEF Spawn

LEMMA DequeueKeepsCustody ==
  ASSUME TypeOK, Custody, NEW w \in Workers, Dequeue(w)
  PROVE  Custody'
<1>0. /\ queue \in [Tasks -> Nat] /\ timers \in [Tasks -> Nat]
      /\ worker \in [Workers -> [pc : WorkerPcs, task : Tasks \cup {NoTask},
                                pid : Pids \cup {NoPid}, outcome : Outcomes]]
  BY DEF TypeOK, MemoryOK, WorkersOK
<1>1. PICK t \in Tasks : /\ queue[t] > 0
                         /\ queue' = [queue EXCEPT ![t] = @ - 1]
                         /\ worker' = [worker EXCEPT ![w].pc = "dequeued", ![w].task = t]
  BY DEF Dequeue
<1>2. UNCHANGED <<task, timers, spawner, healer, heals>>
  BY DEF Dequeue, store, history
<1>3. /\ queue'[t] = queue[t] - 1
      /\ \A u \in Tasks \ {t} : queue'[u] = queue[u]
      /\ worker'[w].task = t
      /\ \A v \in Workers \ {w} : worker'[v].task = worker[v].task
  BY <1>0, <1>1
<1> QED
  BY <1>0, <1>1, <1>2, <1>3 DEF Custody, Free, Holds

LEMMA TimersKeepCustody ==
  ASSUME TypeOK, Custody,
         (\E w \in Workers : RetryTimer(w)) \/ (\E t \in Tasks : TimerFires(t))
  PROVE  Custody'
<1>0. /\ queue \in [Tasks -> Nat] /\ timers \in [Tasks -> Nat]
      /\ worker \in [Workers -> [pc : WorkerPcs, task : Tasks \cup {NoTask},
                                pid : Pids \cup {NoPid}, outcome : Outcomes]]
  BY DEF TypeOK, MemoryOK, WorkersOK
<1>1. ASSUME NEW w \in Workers, RetryTimer(w) PROVE Custody'
  <2>1. worker[w].task \in Tasks
    BY <1>1 DEF TypeOK, WorkersOK, RetryTimer
  <2>2. /\ worker'[w].task = NoTask
        /\ \A v \in Workers \ {w} : worker'[v].task = worker[v].task
    BY <1>0, <1>1 DEF RetryTimer, Release, IdleWorker
  <2>3. /\ timers' = [timers EXCEPT ![worker[w].task] = @ + 1]
        /\ UNCHANGED <<task, queue, spawner, healer, heals>>
    BY <1>1 DEF RetryTimer, store, history
  <2>4. ASSUME heals = 0
        PROVE  LET t == worker[w].task IN
               queue[t] = 0 /\ timers[t] = 0 /\ spawner[t] = "none"
    <3>1. ~Free(worker[w].task)
      BY <2>1 DEF Free, Holds
    <3>2. queue[worker[w].task] + timers[worker[w].task] = 0
      <4>1. /\ queue[worker[w].task] + timers[worker[w].task] <= 1
            /\ queue[worker[w].task] + timers[worker[w].task] # 1
        BY <2>1, <2>4, <3>1 DEF Custody
      <4>2. queue[worker[w].task] \in Nat /\ timers[worker[w].task] \in Nat
        BY <1>0, <2>1
      <4> QED
        BY <4>1, <4>2
    <3>3. spawner[worker[w].task] = "none"
      BY <2>1, <2>4, <3>1 DEF Custody
    <3> QED
      BY <1>0, <2>1, <3>2, <3>3
  <2>5. task[worker[w].task].status # "absent" \/ heals # 0
    BY <2>1 DEF Custody, Free, Holds
  <2>6. heals = 0 => \A u \in Tasks : Free(u)' <=> Free(u) \/ u = worker[w].task
    BY <1>0, <2>1, <2>2, TasksAssumption DEF Custody, Free, Holds
  <2>7. /\ timers'[worker[w].task] = timers[worker[w].task] + 1
        /\ \A u \in Tasks \ {worker[w].task} : timers'[u] = timers[u]
    BY <1>0, <2>1, <2>3
  <2>8. \A u \in Tasks, v \in Workers : Holds(v, u)' => Holds(v, u)
    BY <2>2, TasksAssumption DEF Holds
  <2> QED
    BY <1>0, <2>1, <2>3, <2>4, <2>5, <2>6, <2>7, <2>8 DEF Custody
<1>2. ASSUME NEW t \in Tasks, TimerFires(t) PROVE Custody'
  BY <1>0, <1>2 DEF TimerFires, Put, Custody, Free, Holds, store, history
<1> QED
  BY <1>1, <1>2

LEMMA CustodyStep == TypeOK /\ Custody /\ [Next]_vars => Custody'
<1> SUFFICES ASSUME TypeOK, Custody, [Next]_vars PROVE Custody'
  OBVIOUS
<1>0. /\ worker \in [Workers -> [pc : WorkerPcs, task : Tasks \cup {NoTask},
                                pid : Pids \cup {NoPid}, outcome : Outcomes]]
      /\ task \in [Tasks -> [status : TaskStatus, pid : Pids \cup {NoPid}, workDir : BOOLEAN]]
      /\ heals \in Nat
      /\ \A w \in Workers : worker[w].pc = "writeTask" => worker[w].outcome # "absent"
  BY DEF TypeOK, RowsOK, WorkersOK, RequestsOK, Outcomes
<1>1. ASSUME NEW w \in Workers, Work(w) PROVE Custody'
  <2>1. CASE Dequeue(w)
    BY <2>1, DequeueKeepsCustody
  <2>2. CASE RetryTimer(w)
    BY <2>2, TimersKeepCustody
  <2> USE <1>0 DEF Calm, Goto, Release, Finalise, IdleWorker, store, memory, history
  <2>3. CASE CheckRunnable(w) \/ Launch(w) \/ MarkRunning(w)
    <3>1. Calm
      BY <2>3 DEF CheckRunnable, Launch, MarkRunning
    <3> QED
      BY <3>1, CalmKeepsCustody
  <2>4. CASE ExitAfterStop(w) \/ ExitAtGate(w) \/ ExitSuccess(w)
    <3>1. worker'[w].task \in {worker[w].task, NoTask}
      BY <2>4 DEF ExitAfterStop, ExitAtGate, ExitSuccess
    <3>2. \A v \in Workers \ {w} : worker'[v].task = worker[v].task
      BY <2>4 DEF ExitAfterStop, ExitAtGate, ExitSuccess
    <3>3. Calm
      BY <2>4, <3>1, <3>2 DEF ExitAfterStop, ExitAtGate, ExitSuccess
    <3> QED
      BY <3>3, CalmKeepsCustody
  <2>5. CASE ExitError(w) \/ RetryAgent(w)
    <3>1. \A v \in Workers : worker'[v].task = worker[v].task
      BY <2>5 DEF ExitError, RetryAgent
    <3>2. Calm
      BY <2>5, <3>1 DEF ExitError, RetryAgent
    <3> QED
      BY <3>2, CalmKeepsCustody
  <2>6. CASE RetryModel(w) \/ RetryTask(w) \/ WriteTask(w) \/ WriteAgent(w) \/ Close(w)
             \/ HandleErrorTask(w) \/ HandleErrorAgent(w)
    <3>1. Calm
      <4>0. CASE RetryModel(w)
        BY <4>0 DEF RetryModel
      <4>1. CASE RetryTask(w)
        <5>1. \A t \in Tasks : task'[t].status \in {task[t].status, "queued"}
          BY <4>1 DEF RetryTask
        <5> QED
          BY <4>1, <5>1 DEF RetryTask
      <4>2. CASE WriteTask(w)
        BY <4>2 DEF WriteTask
      <4>3. CASE WriteAgent(w) \/ Close(w)
        BY <4>3 DEF WriteAgent, Close
      <4>4. CASE HandleErrorTask(w)
        BY <4>4 DEF HandleErrorTask
      <4>5. CASE HandleErrorAgent(w)
        BY <4>5 DEF HandleErrorAgent
      <4> QED
        BY <2>6, <4>0, <4>1, <4>2, <4>3, <4>4, <4>5
    <3> QED
      BY <3>1, CalmKeepsCustody
  <2> QED
    BY <1>1, <2>1, <2>2, <2>3, <2>4, <2>5, <2>6 DEF Work
<1>2. ASSUME NEW w \in Workers, Fault(w) PROVE Custody'
  <2>1. Calm
    BY <1>0, <1>2 DEF Fault, RunFault, WorkerFault, HandlerFault, Calm, Goto, Release, IdleWorker,
                      store, memory
  <2> QED
    BY <2>1, CalmKeepsCustody
<1>3. ASSUME NEW t \in Tasks, Spawn(t) \/ TimerFires(t) PROVE Custody'
  BY <1>3, SpawnKeepsCustody, TimersKeepCustody
<1>4. ASSUME NEW t \in Tasks, Stop(t) PROVE Custody'
  <2>1. Calm
    BY <1>0, <1>4 DEF Stop, StopBegin, StopTask, StopAgent, TerminateAgent, Calm, store, memory, history
  <2> QED
    BY <2>1, CalmKeepsCustody
<1>5. ASSUME NEW p \in Pids, WriteCheckpoint(p) \/ ProcessExit(p) PROVE Custody'
  <2>1. Calm
    BY <1>5 DEF WriteCheckpoint, ProcessExit, Calm, store, memory, history
  <2> QED
    BY <2>1, CalmKeepsCustody
<1>6. CASE HealBegin \/ Crash
  BY <1>0, <1>6 DEF HealBegin, Crash, Custody
<1>7. CASE HealRead \/ HealPut
  BY <1>7 DEF HealRead, HealPut, Custody, history
<1>8. CASE PruneRegistry \/ UNCHANGED vars
  <2>1. Calm
    BY <1>8 DEF PruneRegistry, vars, Calm, store, history
  <2> QED
    BY <2>1, CalmKeepsCustody
<1>9. CASE OtherFault
  <2>1. CASE HealFault
    BY <2>1 DEF HealFault, Custody
  <2>2. ASSUME NEW t \in Tasks, SpawnFault(t) \/ TimerFault(t) PROVE Custody'
    <3>0. /\ queue \in [Tasks -> Nat] /\ timers \in [Tasks -> Nat]
          /\ spawner \in [Tasks -> {"none", "provisioning", "enqueueing"}]
      BY DEF TypeOK, MemoryOK, RequestsOK
    <3>1. UNCHANGED <<task, queue, worker, healer, heals>>
      BY <2>2 DEF SpawnFault, TimerFault, store, memory
    <3>2. \A u \in Tasks : /\ spawner'[u] \in {spawner[u], "none"}
                           /\ timers'[u] \in {timers[u], timers[u] - 1}
                           /\ timers[u] = 0 => timers'[u] = 0
                           /\ timers'[u] \in Nat
      BY <3>0, <2>2 DEF SpawnFault, TimerFault, memory
    <3> QED
      <4>1. ASSUME heals' = 0, NEW u \in Tasks
            PROVE  /\ task'[u].status = "absent" =>
                        queue'[u] = 0 /\ timers'[u] = 0 /\ spawner'[u] = "none" /\ Free(u)'
                   /\ queue'[u] + timers'[u] <= 1
                   /\ queue'[u] + timers'[u] = 1 \/ spawner'[u] # "none" => Free(u)'
                   /\ spawner'[u] # "none" => queue'[u] + timers'[u] = 0
                   /\ \A v, w \in Workers : Holds(v, u)' /\ Holds(w, u)' => v = w
        <5>1. /\ queue'[u] = queue[u] /\ queue[u] \in Nat /\ timers[u] \in Nat
              /\ timers'[u] \in {timers[u], timers[u] - 1} /\ timers'[u] \in Nat
              /\ spawner'[u] \in {spawner[u], "none"} /\ task'[u] = task[u]
              /\ Free(u)' <=> Free(u)
          BY <3>0, <3>1, <3>2 DEF Free, Holds
        <5>2. timers[u] = 0 => timers'[u] = 0
          BY <3>2
        <5>3. heals = 0
          BY <3>1, <4>1
        <5> QED
          BY <3>1, <5>1, <5>2, <5>3 DEF Custody, Holds
      <4> QED
        BY <3>1, <4>1 DEF Custody
  <2> QED
    BY <1>9, <2>1, <2>2 DEF OtherFault
<1> QED
  BY <1>1, <1>2, <1>3, <1>4, <1>5, <1>6, <1>7, <1>8, <1>9 DEF Next, Step, Heal

LEMMA CustodyInit == Init => Custody
  BY TasksAssumption DEF Init, Custody, Free, Holds, IdleWorker, IdleHealer

LEMMA CustodyInvariant == Spec => [](TypeOK /\ Custody)
<1>1. Init => TypeOK /\ Custody
  BY TypeInit, CustodyInit
<1>2. TypeOK /\ Custody /\ [Next]_vars => (TypeOK /\ Custody)'
  BY TypeStep, CustodyStep
<1> QED
  BY <1>1, <1>2, PTL DEF Spec

LEMMA CustodySuffices == Custody => OneHolder
  BY DEF Custody, OneHolder, Free

\* Without a self-heal pass a task is in one place only: with the coroutine that
\* spawns it, on the queue, on a retry timer, or with one worker.
THEOREM SingleHolder == Spec => []OneHolder
  BY CustodySuffices, CustodyInvariant, PTL

LEMMA AttendanceAndCustodySuffice ==
  ASSUME TypeOK, Attendance, Custody
  PROVE  OnlyHealOrFaultDuplicates
<1> SUFFICES ASSUME heals = 0, faults = 0, NEW p \in Pids, NEW q \in Pids,
                    proc[p].state = "alive", proc[q].state = "alive", proc[p].task = proc[q].task
             PROVE  p = q
  BY DEF OnlyHealOrFaultDuplicates, NoDuplicateRun
<1>1. PICK v \in Workers : worker[v].pid = p
  BY DEF Attendance
<1>2. PICK w \in Workers : worker[w].pid = q
  BY DEF Attendance
<1>3. proc[p].task \in Tasks
  BY DEF TypeOK, ProcsOK
<1>4. Holds(v, proc[p].task) /\ Holds(w, proc[p].task)
  BY <1>1, <1>2, PidsAssumption DEF Attendance, Holds
<1> QED
  BY <1>1, <1>2, <1>3, <1>4 DEF Custody

\* Only a self-heal pass or a failing database call can start a second process
\* for a task that has one.
THEOREM NoDuplicates == Spec => []OnlyHealOrFaultDuplicates
  BY AttendanceAndCustodySuffice, AttendanceInvariant, CustodyInvariant, PTL

-----------------------------------------------------------------------------
(* The retry budget.  RetryBudget is not inductive: a task at the bound    *)
(* must not come to a worker again.  It is over then, in nobody's hands    *)
(* but those of a worker that ends it, or its last turn is the switch to   *)
(* the fallback model.                                                     *)

Ending == {"writeTask", "writeAgent", "closing"} \cup Handling
Over(t) ==
  /\ queue[t] = 0 /\ timers[t] = 0 /\ spawner[t] = "none"
  /\ \A w \in Workers : Holds(w, t) => worker[w].pc \in Ending
Switching(t) == \E w \in Workers : Holds(w, t) /\ worker[w].pc = "retryModel"

Within(t) ==
  /\ task[t].status = "absent" => agent[t].attempts = 0
  /\ agent[t].onFallback \/ Switching(t) => Fallback
  /\ \/ agent[t].attempts <= RetryMax + (IF agent[t].onFallback THEN 1 ELSE 0)
     \/ Over(t) /\ agent[t].attempts <= RetryMax + (IF Fallback THEN 2 ELSE 1)
     \/ Switching(t) /\ agent[t].attempts <= RetryMax + 1
Budgeted == heals = 0 => \A t \in Tasks : Within(t)

LEMMA OverStays ==
  ASSUME TypeOK, Custody, heals = 0, heals' = 0, [Next]_vars,
         NEW t \in Tasks, task[t].status # "absent", Over(t)
  PROVE  Over(t)'
<1>0. /\ worker \in [Workers -> [pc : WorkerPcs, task : Tasks \cup {NoTask},
                                pid : Pids \cup {NoPid}, outcome : Outcomes]]
      /\ queue \in [Tasks -> Nat] /\ timers \in [Tasks -> Nat]
      /\ spawner \in [Tasks -> {"none", "provisioning", "enqueueing"}]
      /\ healer.pc = "idle"
  BY DEF TypeOK, WorkersOK, MemoryOK, RequestsOK, Custody
<1> USE <1>0, TasksAssumption DEF Over, Holds, Ending, Handling
<1>1. ASSUME NEW w \in Workers, Work(w) PROVE Over(t)'
  <2> USE DEF Goto, Release, Finalise, IdleWorker, store, memory, history
  <2>1. CASE Dequeue(w)
    BY <2>1 DEF Dequeue
  <2>2. CASE CheckRunnable(w) \/ Launch(w) \/ MarkRunning(w)
    BY <2>2 DEF CheckRunnable, Launch, MarkRunning
  <2>3. CASE ExitAfterStop(w) \/ ExitAtGate(w)
    BY <2>3 DEF ExitAfterStop, ExitAtGate, Exited
  <2>4. CASE ExitSuccess(w) \/ ExitError(w)
    BY <2>4 DEF ExitSuccess, ExitError, Exited
  <2>5. CASE RetryAgent(w) \/ RetryModel(w) \/ RetryTask(w)
    BY <2>5 DEF RetryAgent, RetryModel, RetryTask
  <2>6. CASE RetryTimer(w)
    <3>1. worker[w].task # t
      BY <2>6 DEF RetryTimer
    <3> QED
      BY <2>6, <3>1 DEF RetryTimer
  <2>7. CASE WriteTask(w) \/ WriteAgent(w) \/ Close(w)
    BY <2>7 DEF WriteTask, WriteAgent, Close
  <2>8. CASE HandleErrorTask(w) \/ HandleErrorAgent(w)
    BY <2>8 DEF HandleErrorTask, HandleErrorAgent
  <2> QED
    BY <1>1, <2>1, <2>2, <2>3, <2>4, <2>5, <2>6, <2>7, <2>8 DEF Work
<1>2. ASSUME NEW w \in Workers, Fault(w) PROVE Over(t)'
  BY <1>2 DEF Fault, RunFault, WorkerFault, HandlerFault, Attends, Goto, Release, IdleWorker, store, memory
<1>3. ASSUME NEW u \in Tasks, Spawn(u) \/ TimerFires(u) PROVE Over(t)'
  <2>1. u # t
    BY <1>3 DEF Spawn, SpawnRows, SpawnProvision, SpawnEnqueue, TimerFires
  <2> QED
    BY <1>3, <2>1 DEF Spawn, SpawnRows, SpawnProvision, SpawnEnqueue, TimerFires, Put, memory, store, history
<1>4. ASSUME NEW u \in Tasks, Stop(u) PROVE Over(t)'
  BY <1>4 DEF Stop, StopBegin, StopTask, StopAgent, TerminateAgent, store, memory, history
<1>5. ASSUME NEW p \in Pids, WriteCheckpoint(p) \/ ProcessExit(p) PROVE Over(t)'
  BY <1>5 DEF WriteCheckpoint, ProcessExit, store, memory, history
<1>6. CASE Heal \/ PruneRegistry \/ OtherFault
  BY <1>6 DEF Heal, HealBegin, HealRead, HealPut, OtherFault, HealFault, SpawnFault, TimerFault, PruneRegistry, memory, store, history
<1>7. CASE Crash
  BY <1>7 DEF Crash, IdleWorker
<1>8. CASE UNCHANGED vars
  BY <1>8 DEF vars
<1> QED
  BY <1>1, <1>2, <1>3, <1>4, <1>5, <1>6, <1>7, <1>8 DEF Next, Step

\* A worker in the middle of a retry is the only one to hold its task.
LEMMA RetrierHoldsAlone ==
  ASSUME TypeOK, Custody, heals = 0, NEW w \in Workers, worker[w].pc # "idle"
  PROVE  LET t == worker[w].task IN
         /\ t \in Tasks /\ task[t].status # "absent"
         /\ queue[t] = 0 /\ timers[t] = 0 /\ spawner[t] = "none"
         /\ \A v \in Workers : Holds(v, t) => v = w
<1> DEFINE t == worker[w].task
<1>1. t \in Tasks /\ Holds(w, t)
  BY DEF TypeOK, WorkersOK, Holds
<1>2. ~Free(t) /\ queue[t] \in Nat /\ timers[t] \in Nat
  BY <1>1 DEF Free, TypeOK, MemoryOK
<1>3. /\ task[t].status # "absent" /\ spawner[t] = "none"
      /\ queue[t] + timers[t] <= 1 /\ queue[t] + timers[t] # 1
      /\ \A v \in Workers : Holds(v, t) => v = w
  BY <1>1, <1>2 DEF Custody
<1> QED
  BY <1>1, <1>2, <1>3

\* The attempt is counted before the model is compared.
LEMMA RetryAgentKeepsBudget ==
  ASSUME TypeOK, Custody, Budgeted, heals = 0, NEW w \in Workers, RetryAgent(w), NEW t \in Tasks
  PROVE  Within(t)'
<1> DEFINE u == worker[w].task
<1>0. /\ worker \in [Workers -> [pc : WorkerPcs, task : Tasks \cup {NoTask},
                                pid : Pids \cup {NoPid}, outcome : Outcomes]]
      /\ agent \in [Tasks -> [status : AgentStatus, attempts : Nat, onFallback : BOOLEAN]]
      /\ worker[w].pc = "retryAgent"
  BY DEF TypeOK, WorkersOK, RowsOK, RetryAgent
<1>1. /\ u \in Tasks /\ task[u].status # "absent"
      /\ queue[u] = 0 /\ timers[u] = 0 /\ spawner[u] = "none"
      /\ \A v \in Workers : Holds(v, u) => v = w
  BY <1>0, RetrierHoldsAlone
<1>2. UNCHANGED <<task, queue, timers, spawner>>
  BY DEF RetryAgent, memory
<1>3. /\ agent'[u].attempts = agent[u].attempts + 1 /\ agent'[u].onFallback = agent[u].onFallback
      /\ \A v \in Tasks \ {u} : agent'[v] = agent[v]
  BY <1>0, <1>1 DEF RetryAgent
<1>4. /\ worker'[w].task = u /\ worker'[w].pc \in {"retryTask", "retryModel", "writeTask"}
      /\ \A v \in Workers \ {w} : worker'[v] = worker[v]
  BY <1>0 DEF RetryAgent, Goto, Finalise
<1>5. agent[u].attempts \in Nat /\ agent[u].onFallback \in BOOLEAN /\ RetryMax \in Nat /\ Fallback \in BOOLEAN
  BY <1>0, <1>1, BoundsAssumption
<1>6. CASE t = u
  <2>1. agent[u].onFallback => Fallback
    BY <1>1 DEF Budgeted, Within
  <2>2. agent[u].attempts <= RetryMax + (IF agent[u].onFallback THEN 1 ELSE 0)
    <3>1. ~Over(u)
      BY <1>0 DEF Over, Holds, Ending, Handling
    <3>2. ~Switching(u)
      BY <1>0, <1>1 DEF Switching
    <3> QED
      BY <1>1, <3>1, <3>2 DEF Budgeted, Within
  <2>3. CASE agent'[u].attempts <= RetryMax
    <3>1. worker'[w].pc = "retryTask"
      BY <1>0, <1>3, <1>5, <2>3 DEF RetryAgent, Goto
    <3>2. ~Switching(t)'
      BY <1>1, <1>4, <1>6, <3>1 DEF Switching, Holds
    <3> QED
      BY <1>1, <1>2, <1>3, <1>5, <1>6, <2>1, <2>3, <3>2 DEF Within
  <2>4. CASE ~(agent'[u].attempts <= RetryMax)
    <3>1. agent'[u].attempts > RetryMax
      BY <1>3, <1>5, <2>4
    <3>2. CASE FallsBack(u)
      <4>1. worker'[w].pc = "retryModel"
        BY <1>0, <3>1, <3>2, <2>4 DEF RetryAgent, Goto
      <4>2. Switching(t)'
        BY <1>4, <1>6, <4>1 DEF Switching, Holds
      <4>3. Fallback /\ agent'[u].attempts <= RetryMax + 1
        BY <1>3, <1>5, <2>2, <3>2 DEF FallsBack
      <4> QED
        BY <1>1, <1>2, <1>3, <1>6, <2>1, <4>2, <4>3 DEF Within
    <3>3. CASE ~FallsBack(u)
      <4>1. worker'[w].pc = "writeTask"
        BY <1>0, <2>4, <3>1, <3>3 DEF RetryAgent, Finalise
      <4>2. Over(t)'
        BY <1>1, <1>2, <1>4, <1>6, <4>1 DEF Over, Holds, Ending
      <4>3. agent'[u].attempts <= RetryMax + (IF Fallback THEN 2 ELSE 1)
        BY <1>3, <1>5, <2>1, <2>2
      <4>4. ~Switching(t)'
        BY <1>1, <1>4, <1>6, <4>1 DEF Switching, Holds
      <4> QED
        BY <1>1, <1>2, <1>3, <1>6, <2>1, <4>2, <4>3, <4>4 DEF Within
    <3> QED
      BY <3>2, <3>3
  <2> QED
    BY <2>3, <2>4
<1>7. CASE t # u
  <2>1. Over(t) => Over(t)'
    BY <1>2, <1>4, <1>7 DEF Over, Holds
  <2>2. Switching(t) <=> Switching(t)'
    BY <1>4, <1>7 DEF Switching, Holds
  <2>3. agent'[t] = agent[t] /\ task' = task
    BY <1>2, <1>3, <1>7
  <2>4. Within(t)
    BY DEF Budgeted
  <2> QED
    BY <2>1, <2>2, <2>3, <2>4 DEF Within
<1> QED
  BY <1>6, <1>7

LEMMA RetryModelKeepsBudget ==
  ASSUME TypeOK, Custody, Budgeted, heals = 0, NEW w \in Workers, RetryModel(w), NEW t \in Tasks
  PROVE  Within(t)'
<1> DEFINE u == worker[w].task
<1>0. /\ worker \in [Workers -> [pc : WorkerPcs, task : Tasks \cup {NoTask},
                                pid : Pids \cup {NoPid}, outcome : Outcomes]]
      /\ agent \in [Tasks -> [status : AgentStatus, attempts : Nat, onFallback : BOOLEAN]]
      /\ worker[w].pc = "retryModel"
  BY DEF TypeOK, WorkersOK, RowsOK, RetryModel
<1>1. u \in Tasks /\ task[u].status # "absent"
  BY <1>0, RetrierHoldsAlone
<1>2. UNCHANGED <<task, queue, timers, spawner>>
  BY DEF RetryModel, memory
<1>3. /\ agent'[u].attempts = agent[u].attempts /\ agent'[u].onFallback
      /\ \A v \in Tasks \ {u} : agent'[v] = agent[v]
  BY <1>0, <1>1 DEF RetryModel
<1>4. /\ worker'[w].task = u
      /\ \A v \in Workers \ {w} : worker'[v] = worker[v]
  BY <1>0 DEF RetryModel, Goto
<1>5. agent[u].attempts \in Nat /\ agent[u].onFallback \in BOOLEAN /\ RetryMax \in Nat /\ Fallback \in BOOLEAN
  BY <1>0, <1>1, BoundsAssumption
<1>6. CASE t = u
  <2>1. ~Over(u)
    BY <1>0 DEF Over, Holds, Ending, Handling
  <2>2. Fallback /\ agent[u].attempts <= RetryMax + 1
    <3>1. Switching(u)
      BY <1>0, <1>1 DEF Switching, Holds
    <3> QED
      BY <1>1, <1>5, <2>1, <3>1 DEF Budgeted, Within
  <2>3. task'[t].status # "absent" /\ agent'[t].onFallback
    BY <1>1, <1>2, <1>3, <1>6
  <2>4. agent'[t].attempts <= RetryMax + 1
    BY <1>3, <1>6, <2>2
  <2> QED
    BY <2>2, <2>3, <2>4 DEF Within
<1>7. CASE t # u
  <2>1. Over(t) => Over(t)'
    BY <1>2, <1>4, <1>7 DEF Over, Holds
  <2>2. Switching(t) <=> Switching(t)'
    BY <1>4, <1>7 DEF Switching, Holds
  <2>3. agent'[t] = agent[t] /\ task' = task
    BY <1>2, <1>3, <1>7
  <2>4. Within(t)
    BY DEF Budgeted
  <2> QED
    BY <2>1, <2>2, <2>3, <2>4 DEF Within
<1> QED
  BY <1>6, <1>7

\* Every other step leaves the attempts and the model of a task alone.
LEMMA OthersKeepAttempts ==
  ASSUME TypeOK, [Next]_vars, \A w \in Workers : ~RetryAgent(w) /\ ~RetryModel(w), NEW t \in Tasks
  PROVE  /\ agent'[t].attempts = agent[t].attempts /\ agent'[t].onFallback = agent[t].onFallback
         /\ task'[t].status = "absent" => task[t].status = "absent"
<1> DEFINE Kept == /\ agent'[t].attempts = agent[t].attempts
                   /\ agent'[t].onFallback = agent[t].onFallback
                   /\ task'[t].status = "absent" => task[t].status = "absent"
<1>0. /\ agent \in [Tasks -> [status : AgentStatus, attempts : Nat, onFallback : BOOLEAN]]
      /\ task \in [Tasks -> [status : TaskStatus, pid : Pids \cup {NoPid}, workDir : BOOLEAN]]
      /\ \A w \in Workers : worker[w].outcome # "absent"
  BY DEF TypeOK, RowsOK, WorkersOK, Outcomes
<1> USE <1>0
<1>1. ASSUME NEW w \in Workers, Work(w) PROVE Kept
  <2>1. CASE Dequeue(w) \/ CheckRunnable(w) \/ Launch(w) \/ ExitAfterStop(w) \/ RetryTimer(w) \/ Close(w)
    BY <2>1 DEF Dequeue, CheckRunnable, Launch, ExitAfterStop, RetryTimer, Close, store
  <2>2. CASE ExitAtGate(w) \/ ExitSuccess(w) \/ ExitError(w)
    BY <2>2 DEF ExitAtGate, ExitSuccess, ExitError, store
  <2>3. CASE MarkRunning(w) \/ RetryTask(w) \/ WriteTask(w) \/ HandleErrorTask(w)
    BY <2>3 DEF MarkRunning, RetryTask, WriteTask, HandleErrorTask
  <2>4. CASE WriteAgent(w) \/ HandleErrorAgent(w)
    BY <2>4 DEF WriteAgent, HandleErrorAgent
  <2> QED
    BY <1>1, <2>1, <2>2, <2>3, <2>4 DEF Work
<1>2. ASSUME NEW w \in Workers, Fault(w) PROVE Kept
  BY <1>2 DEF Fault, RunFault, WorkerFault, HandlerFault, store
<1>3. ASSUME NEW u \in Tasks, Spawn(u) \/ TimerFires(u) PROVE Kept
  BY <1>3 DEF Spawn, SpawnRows, SpawnProvision, SpawnEnqueue, TimerFires, store
<1>4. ASSUME NEW u \in Tasks, Stop(u) PROVE Kept
  BY <1>4 DEF Stop, StopBegin, StopTask, StopAgent, TerminateAgent, store
<1>5. ASSUME NEW p \in Pids, WriteCheckpoint(p) \/ ProcessExit(p) PROVE Kept
  BY <1>5 DEF WriteCheckpoint, ProcessExit, store
<1>6. CASE Heal \/ PruneRegistry \/ OtherFault \/ Crash \/ UNCHANGED vars
  BY <1>6 DEF Heal, HealBegin, HealRead, HealPut, OtherFault, HealFault, SpawnFault, TimerFault, PruneRegistry, Crash, store, vars
<1> QED
  BY <1>1, <1>2, <1>3, <1>4, <1>5, <1>6 DEF Next, Step

\* A step of a worker leaves the other workers alone.
LEMMA WorkersMoveAlone ==
  ASSUME NEW w \in Workers, Work(w), NEW v \in Workers \ {w},
         worker \in [Workers -> [pc : WorkerPcs, task : Tasks \cup {NoTask},
                                 pid : Pids \cup {NoPid}, outcome : Outcomes]]
  PROVE  worker'[v] = worker[v]
<1> USE DEF Goto, Release, Finalise
<1>1. CASE Dequeue(w)
  BY <1>1 DEF Dequeue
<1>2. CASE CheckRunnable(w) \/ Launch(w) \/ MarkRunning(w)
  BY <1>2 DEF CheckRunnable, Launch, MarkRunning
<1>3. CASE ExitAfterStop(w) \/ ExitAtGate(w) \/ ExitSuccess(w)
  BY <1>3 DEF ExitAfterStop, ExitAtGate, ExitSuccess
<1>4. CASE ExitError(w) \/ RetryAgent(w)
  BY <1>4 DEF ExitError, RetryAgent
<1>5. CASE RetryModel(w) \/ RetryTask(w) \/ RetryTimer(w) \/ WriteTask(w) \/ WriteAgent(w)
           \/ Close(w) \/ HandleErrorTask(w) \/ HandleErrorAgent(w)
  BY <1>5 DEF RetryModel, RetryTask, RetryTimer, WriteTask, WriteAgent, Close, HandleErrorTask,
              HandleErrorAgent
<1> QED
  BY <1>1, <1>2, <1>3, <1>4, <1>5 DEF Work

\* A queue worker touches no request, no self-heal pass and no counter.
LEMMA WorkFrame ==
  ASSUME NEW w \in Workers, Work(w)
  PROVE  UNCHANGED <<spawner, healer, stopper, history>>
<1> USE DEF history
<1>1. CASE Dequeue(w) \/ CheckRunnable(w) \/ Launch(w) \/ MarkRunning(w)
  BY <1>1 DEF Dequeue, CheckRunnable, Launch, MarkRunning
<1>2. CASE ExitAfterStop(w) \/ ExitAtGate(w) \/ ExitSuccess(w) \/ ExitError(w)
  BY <1>2 DEF ExitAfterStop, ExitAtGate, ExitSuccess, ExitError
<1>3. CASE RetryAgent(w) \/ RetryModel(w) \/ RetryTask(w) \/ RetryTimer(w)
  BY <1>3 DEF RetryAgent, RetryModel, RetryTask, RetryTimer
<1>4. CASE WriteTask(w) \/ WriteAgent(w) \/ Close(w) \/ HandleErrorTask(w) \/ HandleErrorAgent(w)
  BY <1>4 DEF WriteTask, WriteAgent, Close, HandleErrorTask, HandleErrorAgent
<1> QED
  BY <1>1, <1>2, <1>3, <1>4 DEF Work

\* Only the start of a self-heal pass and a crash count as one.
LEMMA HealsGrow == [Next]_vars => heals' = heals \/ heals' = heals + 1
<1> USE DEF history
<1>1. ASSUME NEW w \in Workers, Work(w) PROVE heals' = heals
  BY <1>1, WorkFrame
<1>2. ASSUME NEW w \in Workers, Fault(w) PROVE heals' = heals
  BY <1>2 DEF Fault, RunFault, WorkerFault, HandlerFault
<1>3. ASSUME NEW u \in Tasks, Spawn(u) \/ TimerFires(u) \/ Stop(u) PROVE heals' = heals
  BY <1>3 DEF Spawn, SpawnRows, SpawnProvision, SpawnEnqueue, TimerFires, Stop, StopBegin,
              StopTask, StopAgent, TerminateAgent
<1>4. ASSUME NEW p \in Pids, WriteCheckpoint(p) \/ ProcessExit(p) PROVE heals' = heals
  BY <1>4 DEF WriteCheckpoint, ProcessExit
<1>5. CASE Heal \/ PruneRegistry \/ OtherFault \/ Crash \/ UNCHANGED vars
  BY <1>5 DEF Heal, HealBegin, HealRead, HealPut, OtherFault, HealFault, SpawnFault, TimerFault, PruneRegistry, Crash, vars
<1> QED
  BY <1>1, <1>2, <1>3, <1>4, <1>5 DEF Next, Step

\* A worker leaves the switch through RetryModel or through a fault that ends its turn.
LEMMA SwitchStep ==
  ASSUME TypeOK, Custody, heals = 0, heals' = 0, [Next]_vars, NEW t \in Tasks,
         \A w \in Workers : ~RetryAgent(w) /\ ~RetryModel(w)
  PROVE  /\ Switching(t)' => Switching(t)
         /\ Switching(t) => Switching(t)' \/ Over(t)'
<1> DEFINE Kept == /\ Switching(t)' => Switching(t)
                   /\ Switching(t) => Switching(t)' \/ Over(t)'
<1>0. worker \in [Workers -> [pc : WorkerPcs, task : Tasks \cup {NoTask},
                              pid : Pids \cup {NoPid}, outcome : Outcomes]]
  BY DEF TypeOK, WorkersOK
<1>2. ASSUME NEW w \in Workers, Work(w) PROVE Kept
  <2>1. \A v \in Workers \ {w} : worker'[v] = worker[v]
    BY <1>0, <1>2, WorkersMoveAlone
  <2>2. worker[w].pc # "retryModel"
    BY <1>2 DEF Work, Dequeue, CheckRunnable, Launch, MarkRunning, ExitAfterStop, ExitAtGate,
         ExitSuccess, ExitError, RetryTask, RetryTimer, WriteTask, WriteAgent,
         Close, HandleErrorTask, HandleErrorAgent, Exited
  <2>3. worker'[w].pc # "retryModel"
    BY <1>0, <1>2 DEF Work, Dequeue, CheckRunnable, Launch, MarkRunning, ExitAfterStop, ExitAtGate,
         ExitSuccess, ExitError, RetryTask, RetryTimer, WriteTask, WriteAgent,
         Close, HandleErrorTask, HandleErrorAgent, Goto, Release, Finalise, IdleWorker
  <2> QED
    BY <2>1, <2>2, <2>3 DEF Switching, Holds
<1>3. ASSUME NEW w \in Workers, Fault(w) PROVE Kept
  <2>1. /\ \A v \in Workers \ {w} : worker'[v] = worker[v]
        /\ worker'[w].pc # "retryModel"
    BY <1>0, <1>3 DEF Fault, RunFault, WorkerFault, HandlerFault, Goto, Release, IdleWorker
  <2>2. CASE worker[w].pc = "retryModel" /\ Holds(w, t)
    <3>1. /\ queue[t] = 0 /\ timers[t] = 0 /\ spawner[t] = "none"
          /\ \A v \in Workers : Holds(v, t) => v = w
      BY <2>2, RetrierHoldsAlone DEF Holds
    <3>2. UNCHANGED <<queue, timers, spawner>>
      BY <1>3 DEF Fault, RunFault, WorkerFault, HandlerFault, memory
    <3>3. worker'[w].pc = "errTask"
      BY <1>0, <1>3, <2>2 DEF Fault, RunFault, WorkerFault, HandlerFault, Goto, Handling, Attends
    <3>4. Over(t)'
      BY <2>1, <3>1, <3>2, <3>3 DEF Over, Holds, Ending, Handling
    <3> QED
      BY <2>1, <2>2, <3>4 DEF Switching, Holds
  <2>3. CASE ~(worker[w].pc = "retryModel" /\ Holds(w, t))
    BY <2>1, <2>3 DEF Switching, Holds
  <2> QED
    BY <2>2, <2>3
<1>4. ASSUME UNCHANGED worker PROVE Kept
  BY <1>4 DEF Switching, Holds
<1>5. ASSUME NEW u \in Tasks, Spawn(u) \/ TimerFires(u) \/ Stop(u) PROVE UNCHANGED worker
  BY <1>5 DEF Spawn, SpawnRows, SpawnProvision, SpawnEnqueue, TimerFires, Stop, StopBegin,
              StopTask, StopAgent, TerminateAgent
<1>6. ASSUME NEW p \in Pids, WriteCheckpoint(p) \/ ProcessExit(p) PROVE UNCHANGED worker
  BY <1>6 DEF WriteCheckpoint, ProcessExit
<1>7. ASSUME Heal \/ PruneRegistry \/ OtherFault \/ UNCHANGED vars PROVE UNCHANGED worker
  BY <1>7 DEF Heal, HealBegin, HealRead, HealPut, OtherFault, HealFault, SpawnFault, TimerFault, PruneRegistry, vars
<1>8. ~Crash
  BY DEF Crash
<1> HIDE DEF Kept
<1>9. Kept
  BY <1>2, <1>3, <1>4, <1>5, <1>6, <1>7, <1>8 DEF Next, Step
<1> QED
  BY <1>9 DEF Kept

LEMMA BudgetStep == TypeOK /\ Custody /\ Budgeted /\ [Next]_vars => Budgeted'
<1> SUFFICES ASSUME TypeOK, Custody, Budgeted, [Next]_vars, heals' = 0, NEW t \in Tasks
             PROVE  Within(t)'
  BY DEF Budgeted
<1>1. heals = 0
  <2>1. heals' = heals \/ heals' = heals + 1
    BY HealsGrow
  <2>2. heals \in Nat
    BY DEF TypeOK, RequestsOK
  <2> QED
    BY <2>1, <2>2
<1>2. CASE \E w \in Workers : RetryAgent(w) \/ RetryModel(w)
  BY <1>1, <1>2, RetryAgentKeepsBudget, RetryModelKeepsBudget
<1>3. CASE \A w \in Workers : ~RetryAgent(w) /\ ~RetryModel(w)
  <2>1. /\ agent'[t].attempts = agent[t].attempts /\ agent'[t].onFallback = agent[t].onFallback
        /\ task'[t].status = "absent" => task[t].status = "absent"
    BY <1>3, OthersKeepAttempts
  <2>2. /\ Switching(t)' => Switching(t)
        /\ Switching(t) => Switching(t)' \/ Over(t)'
    BY <1>1, <1>3, SwitchStep
  <2>3. task[t].status # "absent" /\ Over(t) => Over(t)'
    BY <1>1, OverStays
  <2>4. Within(t)
    BY <1>1 DEF Budgeted
  <2>5. /\ agent[t].attempts \in Nat /\ agent[t].onFallback \in BOOLEAN
        /\ RetryMax \in Nat /\ Fallback \in BOOLEAN
    BY BoundsAssumption DEF TypeOK, RowsOK
  <2> HIDE DEF Over, Switching
  <2>6. CASE agent[t].attempts <= RetryMax + (IF agent[t].onFallback THEN 1 ELSE 0)
    BY <2>1, <2>2, <2>4, <2>6 DEF Within
  <2>7. CASE Over(t) /\ agent[t].attempts <= RetryMax + (IF Fallback THEN 2 ELSE 1)
    <3>1. CASE task[t].status = "absent"
      BY <2>1, <2>2, <2>4, <2>5, <3>1 DEF Within
    <3>2. CASE task[t].status # "absent"
      BY <2>1, <2>2, <2>3, <2>4, <2>7, <3>2 DEF Within
    <3> QED
      BY <3>1, <3>2
  <2>8. CASE Switching(t) /\ agent[t].attempts <= RetryMax + 1
    BY <2>1, <2>2, <2>4, <2>5, <2>8 DEF Within
  <2> QED
    BY <2>4, <2>6, <2>7, <2>8 DEF Within
<1> QED
  BY <1>2, <1>3

LEMMA BudgetInit == Init => Budgeted
<1> SUFFICES ASSUME Init, NEW t \in Tasks PROVE Within(t)
  BY DEF Budgeted
<1>1. ~Switching(t)
  BY TasksAssumption DEF Init, Switching, Holds, IdleWorker
<1>2. agent[t].attempts = 0 /\ ~agent[t].onFallback
  BY DEF Init
<1> QED
  BY <1>1, <1>2, BoundsAssumption DEF Within

LEMMA BudgetSuffices == TypeOK /\ Budgeted => RetryBudget
<1> SUFFICES ASSUME TypeOK, Budgeted, heals = 0, NEW t \in Tasks
             PROVE  agent[t].attempts <= RetryMax + (IF Fallback THEN 2 ELSE 1)
  BY DEF RetryBudget
<1>1. agent[t].attempts \in Nat /\ agent[t].onFallback \in BOOLEAN /\ Within(t)
  BY DEF TypeOK, RowsOK, Budgeted
<1> QED
  BY <1>1, BoundsAssumption DEF Within

\* Every capacity error is counted and the bound is final: without a self-heal
\* pass, which may re-add a task its worker has given up, no sequence of capacity
\* errors, delays, stops and failing calls makes a task retry more than RETRY_MAX
\* times and once more on the fallback model.
THEOREM RetriesBounded == Spec => []RetryBudget
<1>1. Init => TypeOK /\ Custody /\ Budgeted
  BY TypeInit, CustodyInit, BudgetInit
<1>2. TypeOK /\ Custody /\ Budgeted /\ [Next]_vars => (TypeOK /\ Custody /\ Budgeted)'
  BY TypeStep, CustodyStep, BudgetStep
<1> QED
  BY <1>1, <1>2, BudgetSuffices, PTL DEF Spec

-----------------------------------------------------------------------------
(* No task is lost by the queue.  The strengthening of QueuedIsTracked: a  *)
(* worker carries its task only until it has written the task row, what    *)
(* the self-heal pass has seen is worth as much as an entry of the queue   *)
(* unless the registry still names a process, and then someone has it.     *)

Carries(w, t) == Holds(w, t) /\ worker[w].pc \notin {"writeAgent", "closing", "errAgent"}
Kept(t) ==
  \/ queue[t] > 0 \/ timers[t] > 0 \/ spawner[t] # "none"
  \/ \E w \in Workers : Carries(w, t)
Seen(t) ==
  \/ healer.pc = "boot" /\ t \notin healer.queued
  \/ healer.pc = "put" /\ t \in healer.rows \ healer.queued

Tracking ==
  /\ faults = 0 => \A w \in Workers : worker[w].pc \notin Handling
  /\ faults <= 1 => \A t \in Tasks \ lost : Rehydratable(t) =>
       /\ Kept(t) \/ Seen(t)
       /\ active[t] # NoPid => Kept(t)

\* A step keeps what was kept, and what becomes queued or registered is kept.
KeepsTrack(t) ==
  /\ Rehydratable(t)' => Kept(t)' \/ (Rehydratable(t) /\ ~Kept(t))
  /\ Rehydratable(t)' /\ active'[t] # NoPid => Kept(t)' \/ active[t] # NoPid

LEMMA WorkKeepsTrack ==
  ASSUME TypeOK, NEW w \in Workers, Work(w), NEW t \in Tasks
  PROVE  KeepsTrack(t)
<1>0. /\ worker \in [Workers -> [pc : WorkerPcs, task : Tasks \cup {NoTask},
                                pid : Pids \cup {NoPid}, outcome : Outcomes]]
      /\ agent \in [Tasks -> [status : AgentStatus, attempts : Nat, onFallback : BOOLEAN]]
      /\ task \in [Tasks -> [status : TaskStatus, pid : Pids \cup {NoPid}, workDir : BOOLEAN]]
      /\ queue \in [Tasks -> Nat] /\ timers \in [Tasks -> Nat]
      /\ active \in [Tasks -> Pids \cup {NoPid}]
      /\ worker[w].pc # "idle" => worker[w].task \in Tasks
  BY DEF TypeOK, RowsOK, MemoryOK, WorkersOK
<1>1. \A v \in Workers \ {w} : worker'[v] = worker[v]
  BY <1>0, WorkersMoveAlone
<1>2. ASSUME Carries(w, t)' PROVE Kept(t)'
  BY <1>2 DEF Kept, Carries, Holds
<1>3. ASSUME Carries(w, t) => Carries(w, t)', Kept(t), UNCHANGED spawner,
             queue[t] > 0 => queue'[t] > 0, timers[t] > 0 => timers'[t] > 0
      PROVE  Kept(t)'
  BY <1>1, <1>3 DEF Kept, Carries, Holds
<1>4. ASSUME UNCHANGED <<queue, timers, active, spawner, task>>, Carries(w, t)' <=> Carries(w, t),
             Rehydratable(t)' => Rehydratable(t) \/ Carries(w, t)
      PROVE  KeepsTrack(t)
  BY <1>2, <1>3, <1>4 DEF KeepsTrack
<1>5. CASE Dequeue(w)
  <2>1. PICK u \in Tasks : /\ queue' = [queue EXCEPT ![u] = @ - 1]
                           /\ worker' = [worker EXCEPT ![w].pc = "dequeued", ![w].task = u]
    BY <1>5 DEF Dequeue
  <2>2. UNCHANGED <<task, agent, active, timers, spawner>>
    BY <1>5 DEF Dequeue, store
  <2>3. CASE u = t
    <3>1. Carries(w, t)'
      BY <1>0, <2>1, <2>3 DEF Carries, Holds
    <3> QED
      BY <1>2, <3>1 DEF KeepsTrack
  <2>4. CASE u # t
    <3>1. ~Carries(w, t)
      BY <1>0, <1>5, TasksAssumption DEF TypeOK, WorkersOK, Dequeue, Carries, Holds
    <3>2. queue'[t] = queue[t]
      BY <1>0, <2>1, <2>4
    <3>3. Kept(t) => Kept(t)'
      BY <1>3, <2>2, <3>1, <3>2
    <3> QED
      BY <2>2, <3>3 DEF KeepsTrack, Rehydratable, Live
  <2> QED
    BY <2>3, <2>4
<1>6. CASE ~Dequeue(w) /\ ~Holds(w, t)
  <2>1. /\ task'[t] = task[t] /\ agent'[t] = agent[t] /\ active'[t] = active[t]
        /\ timers'[t] = timers[t] /\ UNCHANGED <<queue, spawner>>
    <3> USE <1>0, <1>6 DEF Holds, store, memory
    <3>1. CASE CheckRunnable(w) \/ Launch(w) \/ MarkRunning(w) \/ ExitAfterStop(w)
      BY <3>1 DEF CheckRunnable, Launch, MarkRunning, ExitAfterStop
    <3>2. CASE ExitAtGate(w) \/ ExitSuccess(w) \/ ExitError(w)
      BY <3>2 DEF ExitAtGate, ExitSuccess, ExitError
    <3>3. CASE RetryAgent(w) \/ RetryModel(w) \/ RetryTask(w) \/ RetryTimer(w)
      BY <3>3 DEF RetryAgent, RetryModel, RetryTask, RetryTimer
    <3>4. CASE WriteTask(w) \/ WriteAgent(w) \/ Close(w) \/ HandleErrorTask(w) \/ HandleErrorAgent(w)
      BY <3>4 DEF WriteTask, WriteAgent, Close, HandleErrorTask, HandleErrorAgent
    <3> QED
      BY <3>1, <3>2, <3>3, <3>4 DEF Work
  <2>2. Kept(t) => Kept(t)'
    BY <1>3, <1>6, <2>1 DEF Carries
  <2> QED
    BY <2>1, <2>2 DEF KeepsTrack, Rehydratable, Live
<1>7. CASE ~Dequeue(w) /\ Holds(w, t)
  <2>1. worker[w].task = t
    BY <1>7 DEF Holds
  <2> USE <1>0, <2>1 DEF Goto, Release, Finalise
  <2>2. CASE \/ Launch(w) \/ MarkRunning(w) \/ ExitAtGate(w) \/ ExitSuccess(w)
             \/ ExitError(w) \/ RetryAgent(w) \/ RetryModel(w) \/ RetryTask(w)
    <3>1. /\ worker'[w].task = t
          /\ worker'[w].pc \in {"launched", "attending", "writeTask", "retryAgent", "retryModel",
                                "retryTask", "retryTimer"}
      <4>1. CASE Launch(w) \/ MarkRunning(w) \/ ExitAtGate(w) \/ ExitSuccess(w)
        BY <4>1 DEF Launch, MarkRunning, ExitAtGate, ExitSuccess
      <4>2. CASE ExitError(w) \/ RetryAgent(w)
        BY <4>2 DEF ExitError, RetryAgent
      <4>3. CASE RetryModel(w) \/ RetryTask(w)
        BY <4>3 DEF RetryModel, RetryTask
      <4> QED
        BY <2>2, <4>1, <4>2, <4>3
    <3>2. Carries(w, t)'
      BY <3>1 DEF Carries, Holds
    <3> QED
      BY <1>2, <3>2 DEF KeepsTrack
  <2>3. CASE CheckRunnable(w)
    <3>1. UNCHANGED <<task, agent, queue, timers, active, spawner>>
      BY <2>3 DEF CheckRunnable, store, memory
    <3>2. CASE Runnable(t)
      <4>1. worker'[w].task = t /\ worker'[w].pc = "starting"
        BY <2>3, <3>2 DEF CheckRunnable
      <4>2. Carries(w, t)'
        BY <4>1 DEF Carries, Holds
      <4> QED
        BY <1>2, <4>2 DEF KeepsTrack
    <3>3. CASE ~Runnable(t)
      BY <3>1, <3>3 DEF KeepsTrack, Runnable, Rehydratable, Live
    <3> QED
      BY <3>2, <3>3
  <2>4. CASE ExitAfterStop(w)
    BY <2>4 DEF ExitAfterStop, StoppedByOperator, store, KeepsTrack, Rehydratable, Live
  <2>5. CASE RetryTimer(w)
    <3>1. timers'[t] > 0
      BY <2>5 DEF RetryTimer
    <3> QED
      BY <3>1 DEF KeepsTrack, Kept
  <2>6. CASE WriteTask(w)
    <3>1. worker[w].outcome # "queued"
      BY DEF Outcomes
    <3> QED
      BY <2>6, <3>1 DEF WriteTask, KeepsTrack, Rehydratable, Live
  <2>7. CASE WriteAgent(w)
    <3>1. AgentStatusFor(worker[w].outcome) \notin {"spawned", "working", "running"}
      BY DEF Outcomes, AgentStatusFor
    <3> QED
      BY <2>7, <3>1 DEF WriteAgent, KeepsTrack, Rehydratable, Live
  <2>8. CASE Close(w)
    <3>1. /\ UNCHANGED <<task, agent, queue, timers, spawner>>
          /\ active'[t] = NoPid /\ ~Carries(w, t)
      BY <2>8 DEF Close, store, Carries
    <3>2. Kept(t) => Kept(t)'
      BY <1>3, <3>1
    <3> QED
      BY <3>1, <3>2 DEF KeepsTrack, Rehydratable, Live
  <2>9. CASE HandleErrorTask(w)
    BY <2>9 DEF HandleErrorTask, KeepsTrack, Rehydratable, Live
  <2>10. CASE HandleErrorAgent(w)
    BY <2>10 DEF HandleErrorAgent, KeepsTrack, Rehydratable, Live
  <2> QED
    BY <1>7, <2>2, <2>3, <2>4, <2>5, <2>6, <2>7, <2>8, <2>9, <2>10 DEF Work
<1> QED
  BY <1>5, <1>6, <1>7

LEMMA FaultKeepsTrack ==
  ASSUME TypeOK, Tracking, NEW w \in Workers, Fault(w), faults' <= 1, NEW t \in Tasks
  PROVE  KeepsTrack(t)
<1>0. /\ worker \in [Workers -> [pc : WorkerPcs, task : Tasks \cup {NoTask},
                                pid : Pids \cup {NoPid}, outcome : Outcomes]]
      /\ faults \in Nat
  BY DEF TypeOK, WorkersOK, RequestsOK
<1>1. faults' = faults + 1 /\ UNCHANGED <<task, agent, queue, timers, active, spawner>>
  BY DEF Fault, RunFault, WorkerFault, HandlerFault, store, memory
<1>2. worker[w].pc \notin Handling
  BY <1>0, <1>1 DEF Tracking
<1>3. \E pc \in {"attending", "errTask"} : worker'[w].pc = pc /\ worker'[w].task = worker[w].task
  BY <1>0, <1>2 DEF Fault, RunFault, WorkerFault, HandlerFault, Goto
<1>4. \A v \in Workers \ {w} : worker'[v] = worker[v]
  BY <1>0 DEF Fault, RunFault, WorkerFault, HandlerFault, Goto, Release
<1>5. Kept(t) => Kept(t)'
  BY <1>1, <1>3, <1>4 DEF Kept, Carries, Holds
<1> QED
  BY <1>1, <1>5 DEF KeepsTrack, Rehydratable, Live

\* The coroutines that are not queue workers, and the processes.
LEMMA OthersKeepTrack ==
  ASSUME TypeOK, NEW t \in Tasks,
         \/ \E u \in Tasks : Spawn(u) \/ TimerFires(u) \/ Stop(u)
         \/ \E p \in Pids : WriteCheckpoint(p) \/ ProcessExit(p)
         \/ Heal \/ PruneRegistry \/ OtherFault \/ UNCHANGED vars,
         t \notin lost'
  PROVE  KeepsTrack(t)
<1>0. /\ agent \in [Tasks -> [status : AgentStatus, attempts : Nat, onFallback : BOOLEAN]]
      /\ task \in [Tasks -> [status : TaskStatus, pid : Pids \cup {NoPid}, workDir : BOOLEAN]]
      /\ queue \in [Tasks -> Nat] /\ timers \in [Tasks -> Nat]
      /\ active \in [Tasks -> Pids \cup {NoPid}]
      /\ spawner \in [Tasks -> {"none", "provisioning", "enqueueing"}]
  BY DEF TypeOK, RowsOK, MemoryOK, RequestsOK
<1>1. UNCHANGED worker
  BY DEF Spawn, SpawnRows, SpawnProvision, SpawnEnqueue, TimerFires, Stop, StopBegin, StopTask,
         StopAgent, TerminateAgent, WriteCheckpoint, ProcessExit, Heal, HealBegin, HealRead, HealPut, OtherFault, HealFault, SpawnFault, TimerFault,
         PruneRegistry, vars
<1>2. ASSUME queue'[t] > 0 \/ timers'[t] > 0 \/ spawner'[t] # "none" PROVE KeepsTrack(t)
  BY <1>2 DEF KeepsTrack, Kept
<1>3. ASSUME queue'[t] >= queue[t], queue'[t] \in Nat, timers'[t] = timers[t], spawner'[t] = spawner[t]
      PROVE  Kept(t) => Kept(t)'
  <2>1. queue[t] > 0 => queue'[t] > 0
    BY <1>0, <1>3
  <2> QED
    BY <1>1, <1>3, <2>1 DEF Kept, Carries, Holds
<1>4. ASSUME NEW u \in Tasks, Spawn(u) PROVE KeepsTrack(t)
  <2>1. CASE u = t
    <3>1. queue'[t] > 0 \/ spawner'[t] # "none"
      BY <1>0, <1>4, <2>1 DEF Spawn, SpawnRows, SpawnProvision, SpawnEnqueue, Put
    <3> QED
      BY <1>2, <3>1
  <2>2. CASE u # t
    <3>1. /\ task'[t] = task[t] /\ agent'[t] = agent[t] /\ active'[t] = active[t]
          /\ queue'[t] = queue[t] /\ timers'[t] = timers[t] /\ spawner'[t] = spawner[t]
      BY <1>0, <1>4, <2>2 DEF Spawn, SpawnRows, SpawnProvision, SpawnEnqueue, Put, memory, store
    <3>2. Kept(t) => Kept(t)'
      BY <1>0, <1>3, <3>1
    <3> QED
      BY <3>1, <3>2 DEF KeepsTrack, Rehydratable, Live
  <2> QED
    BY <2>1, <2>2
<1>5. ASSUME NEW u \in Tasks, TimerFires(u) PROVE KeepsTrack(t)
  <2>1. task' = task /\ agent' = agent /\ active' = active /\ spawner' = spawner
    BY <1>5 DEF TimerFires, store
  <2>2. CASE u = t
    <3>1. CASE Requeueable(t)
      <4>1. queue'[t] > 0
        BY <1>0, <1>5, <2>2, <3>1 DEF TimerFires, Put
      <4> QED
        BY <1>2, <4>1
    <3>2. CASE ~Requeueable(t)
      BY <2>1, <3>2 DEF KeepsTrack, Rehydratable, Requeueable, Live
    <3> QED
      BY <3>1, <3>2
  <2>3. CASE u # t
    <3>1. queue'[t] = queue[t] /\ timers'[t] = timers[t]
      BY <1>0, <1>5, <2>3 DEF TimerFires, Put
    <3>2. Kept(t) => Kept(t)'
      BY <1>0, <1>3, <2>1, <3>1
    <3> QED
      BY <2>1, <3>2 DEF KeepsTrack, Rehydratable, Live
  <2> QED
    BY <2>2, <2>3
<1>6. ASSUME NEW u \in Tasks, Stop(u) PROVE KeepsTrack(t)
  <2>1. /\ queue' = queue /\ timers' = timers /\ spawner' = spawner
        /\ active'[t] # NoPid => active[t] # NoPid
    BY <1>0, <1>6 DEF Stop, StopBegin, StopTask, StopAgent, TerminateAgent, memory
  <2>2. /\ task'[t].workDir = task[t].workDir
        /\ task'[t].status = "queued" => task[t].status = "queued"
        /\ agent'[t].status \in {"spawned", "working", "running"} => agent'[t].status = agent[t].status
    <3>1. CASE StopBegin(u)
      BY <1>0, <3>1 DEF StopBegin, store
    <3>2. CASE StopTask(u)
      BY <1>0, <3>2 DEF StopTask
    <3>3. CASE StopAgent(u) \/ TerminateAgent(u)
      <4>1. task' = task /\ \E s \in {"stopped", "terminated"} : agent' = [agent EXCEPT ![u].status = s]
        BY <3>3 DEF StopAgent, TerminateAgent
      <4> QED
        BY <1>0, <4>1
    <3> QED
      BY <1>6, <3>1, <3>2, <3>3 DEF Stop
  <2>3. Kept(t) => Kept(t)'
    BY <1>0, <1>3, <2>1
  <2> QED
    BY <2>1, <2>2, <2>3 DEF KeepsTrack, Rehydratable, Live
<1>7. CASE (\E p \in Pids : WriteCheckpoint(p) \/ ProcessExit(p)) \/ UNCHANGED vars
  <2>1. UNCHANGED <<task, agent, queue, timers, active, spawner>>
    BY <1>7 DEF WriteCheckpoint, ProcessExit, vars, store, memory
  <2>2. Kept(t) => Kept(t)'
    BY <1>0, <1>3, <2>1
  <2> QED
    BY <2>1, <2>2 DEF KeepsTrack, Rehydratable, Live
<1>8. CASE Heal \/ PruneRegistry \/ HealFault
  <2>1. /\ UNCHANGED <<task, agent, timers, spawner>>
        /\ active'[t] # NoPid => active[t] # NoPid
        /\ queue'[t] \in Nat /\ queue'[t] >= queue[t]
    <3>1. CASE HealBegin \/ HealRead \/ HealFault
      <4>1. UNCHANGED <<store, memory, spawner>>
        BY <3>1 DEF HealBegin, HealRead, HealFault
      <4> QED
        BY <1>0, <4>1 DEF store, memory
    <3>2. CASE HealPut
      BY <1>0, <3>2 DEF HealPut, store
    <3>3. CASE PruneRegistry
      BY <1>0, <3>3 DEF PruneRegistry, store
    <3> QED
      BY <1>8, <3>1, <3>2, <3>3 DEF Heal
  <2>2. Kept(t) => Kept(t)'
    BY <1>0, <1>3, <2>1
  <2> QED
    BY <2>1, <2>2 DEF KeepsTrack, Rehydratable, Live
<1>9. ASSUME NEW u \in Tasks, SpawnFault(u) \/ TimerFault(u) PROVE KeepsTrack(t)
  <2>1. u # t
    BY <1>9 DEF SpawnFault, TimerFault
  <2>2. /\ UNCHANGED <<task, agent, active, queue>>
        /\ timers'[t] = timers[t] /\ spawner'[t] = spawner[t]
    <3>1. CASE SpawnFault(u)
      BY <1>0, <3>1, <2>1 DEF SpawnFault, store, memory
    <3>2. CASE TimerFault(u)
      BY <1>0, <3>2, <2>1 DEF TimerFault, store
    <3> QED
      BY <1>9, <3>1, <3>2
  <2>3. Kept(t) => Kept(t)'
    BY <1>0, <1>3, <2>2
  <2> QED
    BY <2>2, <2>3 DEF KeepsTrack, Rehydratable, Live
<1> QED
  BY <1>4, <1>5, <1>6, <1>7, <1>8, <1>9 DEF OtherFault

\* What the boot pass has to find it keeps in sight or puts on the queue.
LEMMA SeenStep ==
  ASSUME TypeOK, Tracking, faults <= 1, [Next]_vars, ~Crash, NEW t \in Tasks, t \notin lost,
         t \notin lost', Rehydratable(t), Seen(t), ~Kept(t)
  PROVE  Seen(t)' \/ Kept(t)'
<1>0. /\ queue \in [Tasks -> Nat] /\ healer.pc \in {"boot", "put"}
      /\ healer \in [pc : {"idle", "boot", "read", "put"}, queued : SUBSET Tasks, rows : SUBSET Tasks]
  BY DEF TypeOK, MemoryOK, RequestsOK, Seen
<1>1. CASE HealPut
  <2>1. active[t] = NoPid /\ t \in healer.rows \ healer.queued
    BY <1>1 DEF Tracking, Seen, HealPut
  <2>2. queue'[t] > 0
    BY <1>0, <1>1, <2>1 DEF HealPut, Missing
  <2> QED
    BY <2>2 DEF Kept
<1>2. CASE HealRead
  <2>1. PICK found \in SUBSET {u \in Tasks : Rehydratable(u)} :
          /\ healer' = [healer EXCEPT !.pc = "put", !.rows = found]
          /\ lost' = lost \cup ({u \in Tasks : Rehydratable(u)} \ found)
    BY <1>0, <1>2 DEF HealRead
  <2>2. t \in found
    BY <2>1
  <2> QED
    BY <1>0, <1>2, <2>1, <2>2 DEF HealRead, Seen
<1>3. CASE UNCHANGED healer
  BY <1>3 DEF Seen
<1>4. ~HealBegin /\ ~HealFault
  BY <1>0 DEF HealBegin, HealFault
<1>5. ASSUME NEW w \in Workers, Work(w) PROVE UNCHANGED healer
  BY <1>5, WorkFrame
<1>6. ASSUME NEW w \in Workers, Fault(w) PROVE UNCHANGED healer
  BY <1>6 DEF Fault, RunFault, WorkerFault, HandlerFault
<1>7. ASSUME NEW u \in Tasks, Spawn(u) \/ TimerFires(u) \/ Stop(u) PROVE UNCHANGED healer
  BY <1>7 DEF Spawn, SpawnRows, SpawnProvision, SpawnEnqueue, TimerFires, Stop, StopBegin,
              StopTask, StopAgent, TerminateAgent
<1>8. ASSUME (\E p \in Pids : WriteCheckpoint(p) \/ ProcessExit(p)) \/ PruneRegistry \/ UNCHANGED vars
      PROVE  UNCHANGED healer
  BY <1>8 DEF WriteCheckpoint, ProcessExit, PruneRegistry, vars
<1>9. ASSUME NEW u \in Tasks, SpawnFault(u) \/ TimerFault(u) PROVE UNCHANGED healer
  BY <1>9 DEF SpawnFault, TimerFault
<1> QED
  BY <1>1, <1>2, <1>3, <1>4, <1>5, <1>6, <1>7, <1>8, <1>9 DEF Next, Step, Heal, OtherFault

\* Only a failing call brings a worker to its error handler.
LEMMA WorkHandlesNoError ==
  ASSUME TypeOK, NEW w \in Workers, Work(w), worker[w].pc \notin Handling
  PROVE  worker'[w].pc \notin Handling
<1>0. worker \in [Workers -> [pc : WorkerPcs, task : Tasks \cup {NoTask},
                              pid : Pids \cup {NoPid}, outcome : Outcomes]]
  BY DEF TypeOK, WorkersOK
<1> USE <1>0 DEF Goto, Release, Finalise, IdleWorker, Handling
<1>1. CASE Dequeue(w)
  BY <1>1 DEF Dequeue
<1>2. CASE CheckRunnable(w) \/ Launch(w) \/ MarkRunning(w)
  BY <1>2 DEF CheckRunnable, Launch, MarkRunning
<1>3. CASE ExitAfterStop(w) \/ ExitAtGate(w) \/ ExitSuccess(w)
  BY <1>3 DEF ExitAfterStop, ExitAtGate, ExitSuccess
<1>4. CASE ExitError(w) \/ RetryAgent(w)
  BY <1>4 DEF ExitError, RetryAgent
<1>5. CASE RetryModel(w) \/ RetryTask(w) \/ RetryTimer(w) \/ WriteTask(w) \/ WriteAgent(w)
           \/ Close(w) \/ HandleErrorTask(w) \/ HandleErrorAgent(w)
  BY <1>5 DEF RetryModel, RetryTask, RetryTimer, WriteTask, WriteAgent, Close, HandleErrorTask,
              HandleErrorAgent
<1> QED
  BY <1>1, <1>2, <1>3, <1>4, <1>5 DEF Work

LEMMA OthersLeaveWorkers ==
  ASSUME \/ \E u \in Tasks : Spawn(u) \/ TimerFires(u) \/ Stop(u)
         \/ \E p \in Pids : WriteCheckpoint(p) \/ ProcessExit(p)
         \/ Heal \/ PruneRegistry \/ OtherFault \/ UNCHANGED vars
  PROVE  UNCHANGED worker
BY DEF Spawn, SpawnRows, SpawnProvision, SpawnEnqueue, TimerFires, Stop, StopBegin, StopTask,
       StopAgent, TerminateAgent, WriteCheckpoint, ProcessExit, Heal, HealBegin, HealRead, HealPut, OtherFault, HealFault, SpawnFault, TimerFault,
       PruneRegistry, vars

\* Only a pass that puts a task back makes it no longer lost.
LEMMA LostStays ==
  ASSUME [Next]_vars, NEW t \in lost, t \notin lost'
  PROVE  HealPut /\ t \in Missing
<1>1. ASSUME NEW w \in Workers, Work(w) \/ Fault(w) PROVE FALSE
  <2>1. UNCHANGED history \/ UNCHANGED lost
    BY <1>1, WorkFrame DEF Fault, RunFault, WorkerFault, HandlerFault
  <2> QED
    BY <2>1 DEF history
<1>2. ASSUME NEW u \in Tasks, Spawn(u) \/ TimerFires(u) \/ Stop(u) PROVE FALSE
  BY <1>2 DEF Spawn, SpawnRows, SpawnProvision, SpawnEnqueue, TimerFires, Stop, StopBegin,
              StopTask, StopAgent, TerminateAgent, history
<1>3. ASSUME (\E p \in Pids : WriteCheckpoint(p) \/ ProcessExit(p)) \/ PruneRegistry \/ UNCHANGED vars
      PROVE  FALSE
  BY <1>3 DEF WriteCheckpoint, ProcessExit, PruneRegistry, vars, history
<1>4. CASE HealBegin \/ HealRead \/ HealFault \/ Crash
  BY <1>4 DEF HealBegin, HealRead, HealFault, Crash
<1>5. ASSUME NEW u \in Tasks, SpawnFault(u) \/ TimerFault(u) PROVE FALSE
  BY <1>5 DEF SpawnFault, TimerFault
<1>6. CASE HealPut
  BY <1>6 DEF HealPut
<1> QED
  BY <1>1, <1>2, <1>3, <1>4, <1>5, <1>6 DEF Next, Step, Heal, OtherFault

LEMMA TrackingStep == TypeOK /\ Tracking /\ [Next]_vars => Tracking'
<1> SUFFICES ASSUME TypeOK, Tracking, [Next]_vars PROVE Tracking'
  OBVIOUS
<1>0. /\ faults \in Nat /\ queue \in [Tasks -> Nat]
      /\ worker \in [Workers -> [pc : WorkerPcs, task : Tasks \cup {NoTask},
                                 pid : Pids \cup {NoPid}, outcome : Outcomes]]
  BY DEF TypeOK, RequestsOK, WorkersOK, MemoryOK
<1>1. CASE Crash
  <2>1. /\ \A w \in Workers : worker'[w].pc = "idle"
        /\ healer'.pc = "boot" /\ healer'.queued = {}
        /\ \A t \in Tasks : active'[t] = NoPid
    BY <1>1 DEF Crash, IdleWorker, IdleHealer
  <2>2. \A t \in Tasks : Seen(t)'
    BY <2>1 DEF Seen
  <2>3. \A w \in Workers : worker'[w].pc \notin Handling
    BY <2>1 DEF Handling
  <2> QED
    BY <2>1, <2>2, <2>3 DEF Tracking
<1>2. CASE ~Crash
  <2>1. faults' = faults \/ (faults' = faults + 1 /\ ((\E w \in Workers : Fault(w)) \/ OtherFault))
    BY <1>2, WorkFrame DEF Next, Step, Fault, RunFault, WorkerFault, HandlerFault, Spawn, SpawnRows,
         SpawnProvision, SpawnEnqueue, TimerFires, Stop, StopBegin, StopTask, StopAgent,
         TerminateAgent, WriteCheckpoint, ProcessExit, Heal, HealBegin, HealRead, HealPut,
         OtherFault, HealFault, SpawnFault, TimerFault, PruneRegistry, vars, history
  <2>2. ASSUME faults' = 0, NEW w \in Workers PROVE worker'[w].pc \notin Handling
    <3>1. /\ worker[w].pc \notin Handling /\ faults = 0
          /\ \A v \in Workers : worker[v].pc \notin Handling
      BY <1>0, <2>1, <2>2 DEF Tracking
    <3>2. ASSUME NEW v \in Workers, Work(v) PROVE worker'[v].pc \notin Handling
      BY <3>1, <3>2, WorkHandlesNoError
    <3>3. ASSUME NEW v \in Workers, Work(v) PROVE worker'[w].pc \notin Handling
      BY <1>0, <3>1, <3>2, <3>3, WorkersMoveAlone
    <3>4. ASSUME NEW v \in Workers, Fault(v) PROVE FALSE
      BY <2>2, <3>1, <3>4 DEF Fault, RunFault, WorkerFault, HandlerFault
    <3> QED
      BY <1>2, <3>1, <3>3, <3>4, OthersLeaveWorkers DEF Next, Step
  <2>3. ASSUME faults' <= 1, NEW t \in Tasks, t \notin lost', Rehydratable(t)'
        PROVE  (Kept(t)' \/ Seen(t)') /\ (active'[t] # NoPid => Kept(t)')
    <3>1. KeepsTrack(t)
      BY <1>2, <2>3, WorkKeepsTrack, FaultKeepsTrack, OthersKeepTrack DEF Next, Step
    <3>2. faults <= 1
      BY <1>0, <2>1, <2>3
    <3>3. CASE t \notin lost
      <4>1. Rehydratable(t) => (Kept(t) \/ Seen(t)) /\ (active[t] # NoPid => Kept(t))
        BY <3>2, <3>3 DEF Tracking
      <4>2. Rehydratable(t) /\ Seen(t) /\ ~Kept(t) => Seen(t)' \/ Kept(t)'
        BY <1>2, <2>3, <3>2, <3>3, SeenStep
      <4> QED
        BY <2>3, <3>1, <4>1, <4>2 DEF KeepsTrack
    <3>4. CASE t \in lost
      <4>1. HealPut /\ t \in Missing
        BY <1>2, <2>3, <3>4, LostStays
      <4>2. queue'[t] > 0
        BY <1>0, <4>1 DEF HealPut
      <4> QED
        BY <4>2 DEF Kept
    <3> QED
      BY <3>3, <3>4
  <2> HIDE DEF Seen
  <2> QED
    BY <2>2, <2>3 DEF Tracking
<1> QED
  BY <1>1, <1>2

LEMMA TrackingInit == Init => Tracking
  BY DEF Init, Tracking, IdleWorker, Handling, Rehydratable

LEMMA TrackingSuffices == TypeOK /\ Tracking => QueuedIsTracked
  BY DEF Tracking, QueuedIsTracked, Rehydratable, Kept, Seen, Carries

\* While at most one call fails, no interleaving of the queue, its workers, the
\* retry timers, Stop requests, self-heal passes and crashes leaves a queued task
\* that nobody will run or put back, but for the three gaps the code has: a spawn
\* that fails before its put, a timer whose look at the rows fails, and a boot
\* pass that fails or has more rows than the query returns.
THEOREM QueuedTracked == Spec => []QueuedIsTracked
<1>1. Init => TypeOK /\ Tracking
  BY TypeInit, TrackingInit
<1>2. TypeOK /\ Tracking /\ [Next]_vars => (TypeOK /\ Tracking)'
  BY TypeStep, TrackingStep
<1> QED
  BY <1>1, <1>2, TrackingSuffices, PTL DEF Spec

-----------------------------------------------------------------------------
(* The runner leaves a stopped task stopped: both rows say so and no worker *)
(* is between reading them and writing them.                              *)

Settled(t) ==
  /\ task[t].status = "stopped" /\ agent[t].status \in {"stopped", "terminated"}
  /\ \A w \in Workers : ~Committed(w, t)

LEMMA WorkKeepsSettled ==
  ASSUME TypeOK, NEW w \in Workers, Work(w), NEW t \in Tasks, Settled(t)
  PROVE  Settled(t)'
<1>0. /\ worker \in [Workers -> [pc : WorkerPcs, task : Tasks \cup {NoTask},
                                pid : Pids \cup {NoPid}, outcome : Outcomes]]
      /\ agent \in [Tasks -> [status : AgentStatus, attempts : Nat, onFallback : BOOLEAN]]
      /\ task \in [Tasks -> [status : TaskStatus, pid : Pids \cup {NoPid}, workDir : BOOLEAN]]
      /\ task[t].status = "stopped" /\ agent[t].status \in {"stopped", "terminated"}
      /\ ~Committed(w, t)
  BY DEF TypeOK, RowsOK, WorkersOK, Settled
<1>1. \A v \in Workers \ {w} : worker'[v] = worker[v]
  BY <1>0, WorkersMoveAlone
<1>2. ASSUME task'[t].status = task[t].status, agent'[t].status = agent[t].status, ~Committed(w, t)'
      PROVE  Settled(t)'
  BY <1>1, <1>2 DEF Settled, Committed, Holds
<1> USE <1>0, TasksAssumption DEF Committed, Holds, Goto, Release, IdleWorker, store
<1>3. CASE Dequeue(w) \/ ExitAfterStop(w) \/ RetryTimer(w) \/ Close(w)
  BY <1>2, <1>3 DEF Dequeue, ExitAfterStop, RetryTimer, Close
<1>4. CASE CheckRunnable(w)
  BY <1>2, <1>4 DEF CheckRunnable, Runnable
<1>5. CASE ExitAtGate(w) \/ ExitSuccess(w) \/ ExitError(w)
  <2>1. ~Holds(w, t)
    BY <1>5 DEF ExitAtGate, ExitSuccess, ExitError, StoppedByOperator
  <2>2. /\ task' = task /\ agent' = agent
        /\ worker'[w].task = worker[w].task
    BY <1>5 DEF ExitAtGate, ExitSuccess, ExitError, Finalise
  <2> QED
    BY <1>2, <2>1, <2>2
<1>6. CASE \/ Launch(w) \/ MarkRunning(w) \/ RetryAgent(w) \/ RetryModel(w) \/ RetryTask(w)
           \/ WriteTask(w) \/ WriteAgent(w)
  <2>1. worker[w].task # t
    BY <1>6 DEF Launch, MarkRunning, RetryAgent, RetryModel, RetryTask, WriteTask, WriteAgent
  <2>2. task'[t] = task[t] /\ agent'[t] = agent[t]
    BY <1>6, <2>1 DEF Launch, MarkRunning, RetryAgent, RetryModel, RetryTask, WriteTask, WriteAgent
  <2>3. worker'[w].task = worker[w].task
    BY <1>6 DEF Launch, MarkRunning, RetryAgent, RetryModel, RetryTask, WriteTask, WriteAgent, Finalise
  <2> QED
    BY <1>2, <2>1, <2>2, <2>3
<1>7. CASE HandleErrorTask(w) \/ HandleErrorAgent(w)
  BY <1>2, <1>7 DEF HandleErrorTask, HandleErrorAgent, Live
<1> QED
  BY <1>3, <1>4, <1>5, <1>6, <1>7 DEF Work

LEMMA SettledStays ==
  ASSUME TypeOK, [Next]_vars, NEW t \in Tasks, Settled(t)
  PROVE  Settled(t)'
<1>0. /\ worker \in [Workers -> [pc : WorkerPcs, task : Tasks \cup {NoTask},
                                pid : Pids \cup {NoPid}, outcome : Outcomes]]
      /\ agent \in [Tasks -> [status : AgentStatus, attempts : Nat, onFallback : BOOLEAN]]
      /\ task \in [Tasks -> [status : TaskStatus, pid : Pids \cup {NoPid}, workDir : BOOLEAN]]
  BY DEF TypeOK, RowsOK, WorkersOK
<1>1. ASSUME NEW w \in Workers, Fault(w) PROVE Settled(t)'
  <2>1. task' = task /\ agent' = agent
    BY <1>1 DEF Fault, RunFault, WorkerFault, HandlerFault, store
  <2>2. /\ \A v \in Workers \ {w} : worker'[v] = worker[v]
        /\ worker'[w].pc \in {"attending", "errTask", "idle"}
    BY <1>0, <1>1 DEF Fault, RunFault, WorkerFault, HandlerFault, Goto, Release, IdleWorker
  <2>3. \A v \in Workers : Committed(v, t)' => Committed(v, t)
    BY <2>2 DEF Committed, Holds
  <2> QED
    BY <2>1, <2>3 DEF Settled
<1>2. ASSUME \/ \E u \in Tasks : Spawn(u) \/ TimerFires(u) \/ Stop(u)
             \/ \E p \in Pids : WriteCheckpoint(p) \/ ProcessExit(p)
             \/ Heal \/ PruneRegistry \/ OtherFault \/ UNCHANGED vars
      PROVE  Settled(t)'
  <2>1. worker' = worker
    BY <1>2, OthersLeaveWorkers
  <2>2. task'[t].status = "stopped" /\ agent'[t].status \in {"stopped", "terminated"}
    <3> USE <1>0 DEF Settled, store
    <3>1. ASSUME NEW u \in Tasks, Spawn(u) \/ TimerFires(u)
             PROVE  task'[t].status = "stopped" /\ agent'[t].status \in {"stopped", "terminated"}
      BY <3>1 DEF Spawn, SpawnRows, SpawnProvision, SpawnEnqueue, TimerFires
    <3>2. ASSUME NEW u \in Tasks, Stop(u)
             PROVE  task'[t].status = "stopped" /\ agent'[t].status \in {"stopped", "terminated"}
      <4>1. CASE StopBegin(u)
        BY <4>1 DEF StopBegin
      <4>2. CASE StopTask(u)
        BY <4>2 DEF StopTask
      <4>3. CASE StopAgent(u) \/ TerminateAgent(u)
        BY <4>3 DEF StopAgent, TerminateAgent
      <4> QED
        BY <3>2, <4>1, <4>2, <4>3 DEF Stop
    <3>3. ASSUME NEW p \in Pids, WriteCheckpoint(p) \/ ProcessExit(p)
             PROVE  task'[t].status = "stopped" /\ agent'[t].status \in {"stopped", "terminated"}
      BY <3>3 DEF WriteCheckpoint, ProcessExit
    <3>4. CASE Heal \/ PruneRegistry \/ OtherFault \/ UNCHANGED vars
      BY <3>4 DEF Heal, HealBegin, HealRead, HealPut, OtherFault, HealFault, SpawnFault, TimerFault, PruneRegistry, vars
    <3> QED
      BY <1>2, <3>1, <3>2, <3>3, <3>4
  <2> QED
    BY <2>1, <2>2 DEF Settled, Committed, Holds
<1>3. CASE Crash
  <2>1. \A w \in Workers : worker'[w].pc = "idle"
    BY <1>3 DEF Crash, IdleWorker
  <2>2. task' = task /\ agent' = agent
    BY <1>3 DEF Crash, store
  <2>3. \A w \in Workers : ~Committed(w, t)'
    BY <2>1 DEF Committed
  <2> QED
    BY <2>2, <2>3 DEF Settled
<1> QED
  BY <1>1, <1>2, <1>3, WorkKeepsSettled DEF Next, Step

=============================================================================
