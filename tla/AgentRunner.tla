---------------------------- MODULE AgentRunner ----------------------------
(***************************************************************************)
(* The agent runner of the control plane (api/services/agent_runner.py):   *)
(* the durable agent/task rows, the in-memory priority queue with its      *)
(* bounded workers, the harness subprocesses, the retry timers, the        *)
(* operator's Stop and Restart, the queue self-heal pass and an API crash. *)
(*                                                                         *)
(* Every `await` on the database is a point where the other coroutines of  *)
(* the event loop run, and every statement commits on its own, so each     *)
(* action below is the code between two awaits.  spawn_agent creates one   *)
(* agent row and one task row together: a member of Tasks names the pair.  *)
(***************************************************************************)
EXTENDS Naturals, FiniteSets

CONSTANTS
  Tasks,        \* (task, agent) pairs that spawn_agent may create
  Workers,      \* the queue workers, one per MAX_CONCURRENT_AGENTS slot
  Pids,         \* process ids of the harness processes of a run
  NoTask, NoPid,
  Priority,     \* the priority of the ticket of a task
  TaskType,     \* agent_tasks.task_type
  RetryMax,     \* AGENT_TRANSIENT_MODEL_RETRY_MAX
  Fallback,     \* AGENT_TRANSIENT_MODEL_FALLBACK_ENABLED
  AgentWrites,  \* what the agents of a run write to their checkpoint file
  ExitResults,  \* how the harness processes of a run may end
  StopTargets,  \* tasks whose agent the operator may stop, once each
  HealLimit,    \* the LIMIT of the self-heal query
  MaxHeals,     \* bound on the self-heal passes
  MaxPolls,     \* bound on the polls of the process list that drop an entry
  MaxCrashes,   \* bound on the crashes of the API process
  MaxFaults     \* bound on the failing database calls

ASSUME TasksAssumption == IsFiniteSet(Tasks) /\ NoTask \notin Tasks
ASSUME WorkersAssumption == IsFiniteSet(Workers) /\ Workers # {}
ASSUME PidsAssumption == NoPid \notin Pids
ASSUME TicketsAssumption ==
  /\ Priority \in [Tasks -> {"P1", "P2", "P3", "P4"}]
  /\ TaskType \in [Tasks -> {"ticket_resolution", "postmortem", "workflow_build", "workflow_rerun"}]
ASSUME BoundsAssumption ==
  /\ RetryMax \in Nat /\ Fallback \in BOOLEAN /\ StopTargets \subseteq Tasks /\ HealLimit \in Nat \ {0}
  /\ MaxHeals \in Nat /\ MaxPolls \in Nat /\ MaxCrashes \in Nat /\ MaxFaults \in Nat

VARIABLES
  task,        \* row of agent_tasks: [status, pid, workDir]
  agent,       \* row of agents: [status, attempts, onFallback]
  checkpoint,  \* what checkpoint.json of the task's work directory says
  queue,       \* _agent_queue: number of entries per task
  timers,      \* pending _requeue_transient_model_retry coroutines per task
  active,      \* _active_processes
  worker,      \* the _agent_queue_worker coroutines
  proc,        \* operating-system processes of the harnesses: [state, task]
  spawner,     \* the spawn_agent coroutine that creates a task
  healer,      \* the ensure_agent_queue_health coroutine
  stopper,     \* the Stop / Restart request on a task
  heals, polls, crashes, faults, \* how often these happened
  lost         \* history: tasks whose entry in memory was dropped, and not put back by a pass

store == <<task, agent, checkpoint>>
memory == <<queue, timers, active>>
history == <<heals, polls, crashes, faults, lost>>
vars == <<task, agent, checkpoint, queue, timers, active, worker, proc,
          spawner, healer, stopper, heals, polls, crashes, faults, lost>>

-----------------------------------------------------------------------------
(* Statuses.  The four wait statuses pending_approval, awaiting_access,    *)
(* awaiting_user_response and blocked are one: the runner treats them      *)
(* alike.                                                                  *)

TaskStatus == {"absent", "queued", "running", "waiting",
               "completed", "failed", "stopped"}
AgentStatus == {"absent", "spawned", "running", "working", "waiting",
                "finished", "failed", "stopped", "terminated"}
Live == {"spawned", "running", "working"}

\* "none" is a missing or unreadable file, "partial" a done status below 100%.
Checkpoints == {"none", "running", "wait", "partial", "done", "error"}
SaysDone(t) == checkpoint[t] \in {"partial", "done"}

\* How a process ended: exit code 0, a provider-capacity error, another error.
Results == {"ok", "transient", "error"}

ASSUME HarnessAssumption == AgentWrites \subseteq Checkpoints /\ ExitResults \subseteq Results

\* Where a worker is in _agent_queue_worker, _spawn_with_semaphore, _run_agent.
Unstarted == {"dequeued", "starting"}
Running == {"launched", "attending"}
Finishing == {"retryAgent", "retryModel", "retryTask", "retryTimer", "writeTask", "writeAgent", "closing"}
Handling == {"errTask", "errAgent"}
WorkerPcs == {"idle"} \cup Unstarted \cup Running \cup Finishing \cup Handling

Outcomes == {"none", "completed", "waiting", "failed"}
AgentStatusAsTask(outcome) == outcome \* mutant: the agent takes the task's status
AgentStatusFor(outcome) == IF outcome = "completed" THEN "finished" ELSE outcome

IdleWorker == [pc |-> "idle", task |-> NoTask, pid |-> NoPid, outcome |-> "none"]
IdleHealer == [pc |-> "idle", queued |-> {}, rows |-> {}]
Request(pc) == [pc |-> pc, pid |-> NoPid, restart |-> FALSE]

Goto(w, pc) == worker' = [worker EXCEPT ![w].pc = pc]
Release(w) == worker' = [worker EXCEPT ![w] = IdleWorker]
Holds(w, t) == worker[w].task = t
Alive(p) == p # NoPid /\ proc[p].state = "alive"
Put(t) == queue' = [queue EXCEPT ![t] = @ + 1]

\* Lower is more urgent.
TicketPriorityRank(t) ==
  LET base == CASE Priority[t] = "P1" -> 0 [] Priority[t] = "P2" -> 1
                [] Priority[t] = "P3" -> 2 [] Priority[t] = "P4" -> 3
  IN  IF TaskType[t] \in {"postmortem", "workflow_build", "workflow_rerun"} THEN base + 2 ELSE base

-----------------------------------------------------------------------------
(* spawn_agent.  The rows are inserted, the work directory is provisioned  *)
(* and recorded, and the task is put on the queue.                         *)

SpawnRows(t) ==
  /\ task[t].status = "absent"
  /\ task' = [task EXCEPT ![t].status = "queued"]
  /\ agent' = [agent EXCEPT ![t].status = "spawned"]
  /\ spawner' = [spawner EXCEPT ![t] = "provisioning"]
  /\ UNCHANGED <<checkpoint, memory, worker, proc, healer, stopper, history>>

SpawnProvision(t) ==
  /\ spawner[t] = "provisioning"
  /\ task' = [task EXCEPT ![t].workDir = TRUE]
  /\ checkpoint' = [checkpoint EXCEPT ![t] = "running"]
  /\ spawner' = [spawner EXCEPT ![t] = "enqueueing"]
  /\ UNCHANGED <<agent, memory, worker, proc, healer, stopper, history>>

SpawnEnqueue(t) ==
  /\ spawner[t] = "enqueueing"
  /\ Put(t)
  /\ spawner' = [spawner EXCEPT ![t] = "none"]
  /\ UNCHANGED <<store, timers, active, worker, proc, healer, stopper, history>>

\* A failing call ends spawn_agent: before the directory is recorded, or at the
\* note that comes between this and the queue.
SpawnFault(t) ==
  /\ faults < MaxFaults
  /\ spawner[t] # "none"
  /\ spawner' = [spawner EXCEPT ![t] = "none"]
  /\ faults' = faults + 1
  /\ lost' = lost \cup {t}
  /\ UNCHANGED <<store, memory, worker, proc, healer, stopper, heals, polls, crashes>>

-----------------------------------------------------------------------------
(* _agent_queue_worker and the head of _spawn_with_semaphore.              *)

\* The queue hands out an entry of the most urgent rank; entries of one rank
\* come in insertion order, which no property distinguishes.
Dequeue(w) ==
  /\ worker[w].pc = "idle"
  /\ \E t \in Tasks :
       /\ queue[t] > 0
       /\ \A u \in Tasks : queue[u] > 0 => TicketPriorityRank(t) <= TicketPriorityRank(u)
       /\ queue' = [queue EXCEPT ![t] = @ - 1]
       /\ worker' = [worker EXCEPT ![w].pc = "dequeued", ![w].task = t]
  /\ UNCHANGED <<store, timers, active, proc, spawner, healer, stopper, history>>

Runnable(t) ==
  /\ task[t].status \in {"queued", "running"}
  /\ agent[t].status \notin {"stopped", "terminated", "failed"}

CheckRunnable(w) ==
  /\ worker[w].pc = "dequeued"
  /\ IF Runnable(worker[w].task) THEN Goto(w, "starting") ELSE Release(w)
  /\ UNCHANGED <<store, memory, proc, spawner, healer, stopper, history>>

(* _run_agent: the process is created and registered in one step, the row  *)
(* is marked running in the next.                                          *)

Launch(w) ==
  LET t == worker[w].task IN
  /\ worker[w].pc = "starting"
  /\ \E p \in Pids :
       /\ proc[p].state = "unborn"
       /\ proc' = [proc EXCEPT ![p] = [state |-> "alive", task |-> t]]
       /\ active' = [active EXCEPT ![t] = p]
       /\ worker' = [worker EXCEPT ![w].pc = "launched", ![w].pid = p]
  /\ UNCHANGED <<store, queue, timers, spawner, healer, stopper, history>>

MarkRunning(w) ==
  LET t == worker[w].task IN
  /\ worker[w].pc = "launched"
  /\ task' = [task EXCEPT ![t] = [status |-> "running", pid |-> worker[w].pid, workDir |-> TRUE]]
  /\ Goto(w, "attending")
  /\ UNCHANGED <<agent, checkpoint, memory, proc, spawner, healer, stopper, history>>

Attends(w) == worker[w].pc = "attending" /\ Alive(worker[w].pid)
ExitedTooSoon(w) == worker[w].pc = "attending" \* mutant: the exit is not awaited
Exited(w) == worker[w].pc = "attending" /\ ~Alive(worker[w].pid)

\* An exception inside _run_agent (the process cannot be created, or a row
\* cannot be updated) becomes an error result; a process already created is
\* neither killed nor waited for.
RunFault(w) ==
  /\ faults < MaxFaults
  /\ worker[w].pc \in {"starting", "launched"} \/ Attends(w)
  /\ worker' = [worker EXCEPT ![w].pc = "attending", ![w].pid = NoPid]
  /\ faults' = faults + 1
  /\ UNCHANGED <<store, memory, proc, spawner, healer, stopper, heals, polls, crashes, lost>>

-----------------------------------------------------------------------------
(* The harness process.  It reports through checkpoint.json and ends by    *)
(* itself, through one of the watchdogs of _run_agent or by a signal.      *)

WriteCheckpoint(p) ==
  /\ proc[p].state = "alive"
  /\ \E c \in AgentWrites : checkpoint' = [checkpoint EXCEPT ![proc[p].task] = c]
  /\ UNCHANGED <<task, agent, memory, worker, proc, spawner, healer, stopper, history>>

ProcessExit(p) ==
  /\ proc[p].state = "alive"
  /\ \E r \in ExitResults : proc' = [proc EXCEPT ![p].state = r]
  /\ UNCHANGED <<store, memory, worker, spawner, healer, stopper, history>>

-----------------------------------------------------------------------------
(* The tail of _spawn_with_semaphore: what the runner does of an exit.     *)

ResultOf(w) == IF worker[w].pid = NoPid THEN "error" ELSE proc[worker[w].pid].state

\* mutant: only a restarted agent counts as stopped.
TerminatedByOperator(t) == agent[t].status = "terminated"
StoppedByOperator(t) ==
  task[t].status = "stopped" \/ agent[t].status \in {"stopped", "terminated"}

Finalise(w, outcome) ==
  worker' = [worker EXCEPT ![w].pc = "writeTask", ![w].outcome = outcome]

ExitAfterStop(w) ==
  LET t == worker[w].task IN
  /\ Exited(w)
  /\ StoppedByOperator(t)
  /\ active' = [active EXCEPT ![t] = NoPid]
  /\ Release(w)
  /\ UNCHANGED <<store, queue, timers, proc, spawner, healer, stopper, history>>

\* A wait checkpoint ends the task at its gate, or completes it when the gate
\* is already open (the continuation is the spawn of another task).
ExitAtGate(w) ==
  LET t == worker[w].task IN
  /\ Exited(w)
  /\ ~StoppedByOperator(t)
  /\ checkpoint[t] = "wait"
  /\ \E outcome \in {"waiting", "completed"} : Finalise(w, outcome)
  /\ UNCHANGED <<store, memory, proc, spawner, healer, stopper, history>>

\* A postmortem task that left no artifact fails.
ExitSuccess(w) ==
  LET t == worker[w].task IN
  /\ Exited(w)
  /\ ~StoppedByOperator(t)
  /\ checkpoint[t] # "wait"
  /\ ResultOf(w) = "ok" \/ SaysDone(t)
  /\ \/ /\ Finalise(w, "completed")
        /\ checkpoint' = [checkpoint EXCEPT ![t] = IF SaysDone(t) THEN @ ELSE "done"]
     \/ /\ TaskType[t] = "postmortem"
        /\ Finalise(w, "failed")
        /\ UNCHANGED checkpoint
  /\ UNCHANGED <<task, agent, memory, proc, spawner, healer, stopper, history>>

\* Dashboard evidence may show that the work was done; a capacity error is
\* retried; a provider safety stop becomes an access gate; else the task fails.
ExitError(w) ==
  LET t == worker[w].task IN
  /\ Exited(w)
  /\ ~StoppedByOperator(t)
  /\ checkpoint[t] # "wait"
  /\ ResultOf(w) # "ok" /\ ~SaysDone(t)
  /\ \/ /\ TaskType[t] = "ticket_resolution"
        /\ Finalise(w, "completed")
        /\ checkpoint' = [checkpoint EXCEPT ![t] = "done"]
     \/ /\ IF ResultOf(w) = "transient" /\ RetryMax > 0
             THEN Goto(w, "retryAgent")
             ELSE \/ TaskType[t] = "ticket_resolution" /\ Finalise(w, "waiting")
                  \/ Finalise(w, "failed")
        /\ UNCHANGED checkpoint
  /\ UNCHANGED <<task, agent, memory, proc, spawner, healer, stopper, history>>

(* _schedule_transient_model_retry and _schedule_transient_model_fallback. *)

FallsBackAgain(t) == Fallback \* mutant: the current model is not compared
FallsBack(t) == Fallback /\ ~agent[t].onFallback

RetryAgent(w) ==
  LET t == worker[w].task IN
  /\ worker[w].pc = "retryAgent"
  /\ agent' = [agent EXCEPT ![t].status = "running", ![t].attempts = @ + 1]
  /\ CASE agent'[t].attempts <= RetryMax -> Goto(w, "retryTask")
       [] agent'[t].attempts > RetryMax /\ FallsBack(t) -> Goto(w, "retryModel")
       [] OTHER -> \/ TaskType[t] = "ticket_resolution" /\ Finalise(w, "waiting")
                   \/ Finalise(w, "failed")
  /\ UNCHANGED <<task, checkpoint, memory, proc, spawner, healer, stopper, history>>

RetryModel(w) ==
  LET t == worker[w].task IN
  /\ worker[w].pc = "retryModel"
  /\ agent' = [agent EXCEPT ![t].status = "running", ![t].onFallback = TRUE]
  /\ Goto(w, "retryTask")
  /\ UNCHANGED <<task, checkpoint, memory, proc, spawner, healer, stopper, history>>

RetryTask(w) ==
  /\ worker[w].pc = "retryTask"
  /\ task' = [task EXCEPT ![worker[w].task].status = "queued", ![worker[w].task].pid = NoPid]
  /\ Goto(w, "retryTimer")
  /\ UNCHANGED <<agent, checkpoint, memory, proc, spawner, healer, stopper, history>>

RetryTimer(w) ==
  LET t == worker[w].task IN
  /\ worker[w].pc = "retryTimer"
  /\ timers' = [timers EXCEPT ![t] = @ + 1]
  /\ active' = [active EXCEPT ![t] = NoPid]
  /\ Release(w)
  /\ UNCHANGED <<store, queue, proc, spawner, healer, stopper, history>>

\* mutant: an agent marked running counts as being run.
RequeueableOnce(t) == task[t].status = "queued" /\ agent[t].status = "spawned"
Requeueable(t) ==
  /\ task[t].status = "queued"
  /\ agent[t].status \notin {"stopped", "terminated", "failed", "finished"}

\* mutant: the coroutine keeps re-queueing after every delay.
TimerRepeats(t) ==
  /\ timers[t] > 0
  /\ task[t].status = "queued"
  /\ Put(t)
  /\ UNCHANGED <<store, timers, active, worker, proc, spawner, healer, stopper, history>>

\* _requeue_transient_model_retry after its delay.
TimerFires(t) ==
  /\ timers[t] > 0
  /\ timers' = [timers EXCEPT ![t] = @ - 1]
  /\ IF Requeueable(t) THEN Put(t) ELSE UNCHANGED queue
  /\ UNCHANGED <<store, active, worker, proc, spawner, healer, stopper, history>>

\* The coroutine looks at the rows outside any try: a failing look ends it.
TimerFault(t) ==
  /\ faults < MaxFaults
  /\ timers[t] > 0
  /\ timers' = [timers EXCEPT ![t] = @ - 1]
  /\ faults' = faults + 1
  /\ lost' = lost \cup {t}
  /\ UNCHANGED <<store, queue, active, worker, proc, spawner, healer, stopper, heals, polls, crashes>>

(* The final writes, none of which is conditional on the current status.   *)

WriteTask(w) ==
  /\ worker[w].pc = "writeTask"
  /\ task' = [task EXCEPT ![worker[w].task].status = worker[w].outcome]
  /\ Goto(w, "writeAgent")
  /\ UNCHANGED <<agent, checkpoint, memory, proc, spawner, healer, stopper, history>>

WriteAgent(w) ==
  /\ worker[w].pc = "writeAgent"
  /\ agent' = [agent EXCEPT ![worker[w].task].status = AgentStatusFor(worker[w].outcome)]
  /\ Goto(w, "closing")
  /\ UNCHANGED <<task, checkpoint, memory, proc, spawner, healer, stopper, history>>

Close(w) ==
  /\ worker[w].pc = "closing"
  /\ active' = [active EXCEPT ![worker[w].task] = NoPid]
  /\ Release(w)
  /\ UNCHANGED <<store, queue, timers, proc, spawner, healer, stopper, history>>

(* A database call that fails outside _run_agent unwinds to the queue      *)
(* worker, whose handler fails the rows that are still live.               *)

WorkerFault(w) ==
  /\ faults < MaxFaults
  /\ worker[w].pc \in Unstarted \cup Finishing \/ Exited(w)
  /\ Goto(w, "errTask")
  /\ faults' = faults + 1
  /\ UNCHANGED <<store, memory, proc, spawner, healer, stopper, heals, polls, crashes, lost>>

HandleErrorTask(w) ==
  LET t == worker[w].task IN
  /\ worker[w].pc = "errTask"
  /\ task' = [task EXCEPT ![t].status = IF @ \in {"queued", "running"} THEN "failed" ELSE @]
  /\ Goto(w, "errAgent")
  /\ UNCHANGED <<agent, checkpoint, memory, proc, spawner, healer, stopper, history>>

HandleErrorAgent(w) ==
  LET t == worker[w].task IN
  /\ worker[w].pc = "errAgent"
  /\ agent' = [agent EXCEPT ![t].status =
                 IF @ \in Live THEN "failed" ELSE @]
  /\ Release(w)
  /\ UNCHANGED <<task, checkpoint, memory, proc, spawner, healer, stopper, history>>

\* The handler's own updates fail: the error is logged, the rows stay.
HandlerFault(w) ==
  /\ faults < MaxFaults
  /\ worker[w].pc \in Handling
  /\ Release(w)
  /\ faults' = faults + 1
  /\ UNCHANGED <<store, memory, proc, spawner, healer, stopper, heals, polls, crashes, lost>>

-----------------------------------------------------------------------------
(* stop_agent_task behind the Stop and Restart buttons.  A registered      *)
(* process is signalled when the row already has a pid, and its entry is   *)
(* dropped when it has ended.  An unregistered process is signalled too,   *)
(* but not waited for: its end is a ProcessExit.                           *)

StopBegin(t) ==
  /\ t \in StopTargets
  /\ stopper[t].pc = "none"
  /\ task[t].status # "absent"
  /\ \E restart \in BOOLEAN :
       IF task[t].status \in {"queued", "running"}
         THEN LET signalled == task[t].pid # NoPid /\ Alive(active[t]) IN
              /\ stopper' = [stopper EXCEPT ![t] =
                   [pc |-> "stopTask", restart |-> restart,
                    pid |-> IF signalled THEN active[t] ELSE NoPid]]
              /\ active' = [active EXCEPT ![t] =
                   IF task[t].pid # NoPid /\ ~signalled THEN NoPid ELSE @]
         ELSE /\ stopper' = [stopper EXCEPT ![t] =
                   Request(IF restart THEN "terminate" ELSE "stopAgent")]
              /\ UNCHANGED active
  /\ UNCHANGED <<store, queue, timers, worker, proc, spawner, healer, history>>

\* The signalled process has ended, or is killed after five seconds.
StopTask(t) ==
  /\ stopper[t].pc = "stopTask"
  /\ proc' = [p \in Pids |-> IF p = stopper[t].pid /\ proc[p].state = "alive"
                               THEN [proc[p] EXCEPT !.state = "error"] ELSE proc[p]]
  /\ task' = [task EXCEPT ![t].status = "stopped"]
  /\ stopper' = [stopper EXCEPT ![t].pc = "stopAgent", ![t].pid = NoPid]
  /\ UNCHANGED <<agent, checkpoint, memory, worker, spawner, healer, history>>

StopAgent(t) ==
  /\ stopper[t].pc = "stopAgent"
  /\ agent' = [agent EXCEPT ![t].status = "stopped"]
  /\ stopper' = [stopper EXCEPT ![t] = Request(IF @.restart THEN "terminate" ELSE "done")]
  /\ UNCHANGED <<task, checkpoint, memory, worker, proc, spawner, healer, history>>

\* restart_agent then spawns a replacement: SpawnRows of another task.
TerminateAgent(t) ==
  /\ stopper[t].pc = "terminate"
  /\ agent' = [agent EXCEPT ![t].status = "terminated"]
  /\ stopper' = [stopper EXCEPT ![t].pc = "done"]
  /\ UNCHANGED <<task, checkpoint, memory, worker, proc, spawner, healer, history>>

\* get_process_snapshot drops the registry entries of processes that ended.
PruneRegistry ==
  /\ polls < MaxPolls
  /\ active' = [t \in Tasks |-> IF Alive(active[t]) THEN active[t] ELSE NoPid]
  /\ active' # active
  /\ polls' = polls + 1
  /\ UNCHANGED <<store, queue, timers, worker, proc, spawner, healer, stopper, heals, crashes, faults, lost>>

-----------------------------------------------------------------------------
(* ensure_agent_queue_health: the entries in memory are read, then the     *)
(* queued rows, then the missing ones are put on the queue.                *)

Queued == {t \in Tasks : queue[t] > 0}

Rehydratable(t) ==
  /\ task[t].status = "queued" /\ task[t].workDir
  /\ agent[t].status \in Live

HealBegin ==
  /\ healer.pc = "idle"
  /\ heals < MaxHeals
  /\ healer' = [pc |-> "read", queued |-> Queued, rows |-> {}]
  /\ heals' = heals + 1
  /\ UNCHANGED <<store, memory, worker, proc, spawner, stopper, polls, crashes, faults, lost>>

\* The query returns HealLimit rows at most, the oldest; the model does not keep
\* their age.  What the boot pass leaves out has no other entry in memory.
HealRead ==
  LET rows == {t \in Tasks : Rehydratable(t)} IN
  /\ healer.pc \in {"boot", "read"}
  /\ \E found \in SUBSET rows :
       /\ Cardinality(found) <= HealLimit
       /\ found = rows \/ Cardinality(found) = HealLimit
       /\ healer' = [healer EXCEPT !.pc = "put", !.rows = found]
       /\ lost' = IF healer.pc = "boot" THEN lost \cup (rows \ found) ELSE lost
  /\ UNCHANGED <<store, memory, worker, proc, spawner, stopper, heals, polls, crashes, faults>>

\* A pass whose query fails is over; at the boot that is only logged.
HealFault ==
  /\ faults < MaxFaults
  /\ healer.pc \in {"boot", "read"}
  /\ healer' = IdleHealer
  /\ faults' = faults + 1
  /\ lost' = IF healer.pc = "boot" THEN lost \cup {t \in Tasks : Rehydratable(t)} ELSE lost
  /\ UNCHANGED <<store, memory, worker, proc, spawner, stopper, heals, polls, crashes>>

Missing == {t \in healer.rows \ healer.queued : active[t] = NoPid}

HealPut ==
  /\ healer.pc = "put"
  /\ queue' = [t \in Tasks |-> IF t \in Missing THEN queue[t] + 1 ELSE queue[t]]
  /\ lost' = lost \ Missing
  /\ healer' = IdleHealer
  /\ UNCHANGED <<store, timers, active, worker, proc, spawner, stopper, heals, polls, crashes, faults>>

\* The API container dies with its processes and coroutines; when it is back,
\* rehydrate_queued_tasks runs the self-heal pass once (the boot pass).
Crash ==
  /\ crashes < MaxCrashes
  /\ crashes' = crashes + 1
  /\ heals' = heals + 1
  /\ queue' = [t \in Tasks |-> 0]
  /\ timers' = [t \in Tasks |-> 0]
  /\ active' = [t \in Tasks |-> NoPid]
  /\ worker' = [w \in Workers |-> IdleWorker]
  /\ proc' = [p \in Pids |-> IF proc[p].state = "alive"
                               THEN [proc[p] EXCEPT !.state = "error"] ELSE proc[p]]
  /\ spawner' = [t \in Tasks |-> "none"]
  /\ stopper' = [t \in Tasks |-> Request(IF stopper[t].pc = "none" THEN "none" ELSE "done")]
  /\ healer' = [IdleHealer EXCEPT !.pc = "boot"]
  /\ UNCHANGED <<store, polls, faults, lost>>

-----------------------------------------------------------------------------
Init ==
  /\ task = [t \in Tasks |-> [status |-> "absent", pid |-> NoPid, workDir |-> FALSE]]
  /\ agent = [t \in Tasks |-> [status |-> "absent", attempts |-> 0, onFallback |-> FALSE]]
  /\ checkpoint = [t \in Tasks |-> "none"]
  /\ queue = [t \in Tasks |-> 0]
  /\ timers = [t \in Tasks |-> 0]
  /\ active = [t \in Tasks |-> NoPid]
  /\ worker = [w \in Workers |-> IdleWorker]
  /\ proc = [p \in Pids |-> [state |-> "unborn", task |-> NoTask]]
  /\ spawner = [t \in Tasks |-> "none"]
  /\ healer = IdleHealer
  /\ stopper = [t \in Tasks |-> Request("none")]
  /\ heals = 0 /\ polls = 0 /\ crashes = 0 /\ faults = 0 /\ lost = {}

Spawn(t) == SpawnRows(t) \/ SpawnProvision(t) \/ SpawnEnqueue(t)

Work(w) ==
  \/ Dequeue(w) \/ CheckRunnable(w) \/ Launch(w) \/ MarkRunning(w)
  \/ ExitAfterStop(w) \/ ExitAtGate(w) \/ ExitSuccess(w) \/ ExitError(w)
  \/ RetryAgent(w) \/ RetryModel(w) \/ RetryTask(w) \/ RetryTimer(w)
  \/ WriteTask(w) \/ WriteAgent(w) \/ Close(w)
  \/ HandleErrorTask(w) \/ HandleErrorAgent(w)

Fault(w) == RunFault(w) \/ WorkerFault(w) \/ HandlerFault(w)
Stop(t) == StopBegin(t) \/ StopTask(t) \/ StopAgent(t) \/ TerminateAgent(t)
Heal == HealBegin \/ HealRead \/ HealPut
OtherFault == HealFault \/ \E t \in Tasks : SpawnFault(t) \/ TimerFault(t)

Step ==
  \/ \E t \in Tasks : Spawn(t) \/ TimerFires(t) \/ Stop(t)
  \/ \E w \in Workers : Work(w) \/ Fault(w)
  \/ \E p \in Pids : WriteCheckpoint(p) \/ ProcessExit(p)
  \/ Heal \/ PruneRegistry \/ OtherFault

Next == Step \/ Crash

Spec == Init /\ [][Next]_vars

-----------------------------------------------------------------------------
(* Properties.                                                             *)

RowsOK ==
  /\ task \in [Tasks -> [status : TaskStatus, pid : Pids \cup {NoPid}, workDir : BOOLEAN]]
  /\ agent \in [Tasks -> [status : AgentStatus, attempts : Nat, onFallback : BOOLEAN]]
  /\ checkpoint \in [Tasks -> Checkpoints]
MemoryOK ==
  /\ queue \in [Tasks -> Nat] /\ timers \in [Tasks -> Nat]
  /\ active \in [Tasks -> Pids \cup {NoPid}]
WorkersOK ==
  /\ worker \in [Workers -> [pc : WorkerPcs, task : Tasks \cup {NoTask},
                             pid : Pids \cup {NoPid}, outcome : Outcomes]]
  /\ \A w \in Workers :
       /\ worker[w].pc = "idle" <=> worker[w].task = NoTask
       /\ worker[w].pc \in {"writeTask", "writeAgent"} => worker[w].outcome # "none"
ProcsOK ==
  /\ proc \in [Pids -> [state : {"unborn", "alive"} \cup Results, task : Tasks \cup {NoTask}]]
  /\ \A p \in Pids : proc[p].state = "unborn" <=> proc[p].task = NoTask
RequestsOK ==
  /\ spawner \in [Tasks -> {"none", "provisioning", "enqueueing"}]
  /\ healer \in [pc : {"idle", "boot", "read", "put"}, queued : SUBSET Tasks, rows : SUBSET Tasks]
  /\ stopper \in [Tasks -> [pc : {"none", "stopTask", "stopAgent", "terminate", "done"},
                            pid : Pids \cup {NoPid}, restart : BOOLEAN]]
  /\ heals \in Nat /\ polls \in Nat /\ crashes \in Nat /\ faults \in Nat /\ lost \subseteq Tasks

\* The rows, the coroutines and the processes stay in their domains: a worker
\* that is not idle has a task, one that writes the rows has an outcome, and a
\* process has the task it was started for.
TypeOK == RowsOK /\ MemoryOK /\ WorkersOK /\ ProcsOK /\ RequestsOK

\* Until a database call fails inside _run_agent, every live harness process is
\* attended by exactly one queue worker, the one that runs its task.
ProcessesAreAttended ==
  faults = 0 =>
    /\ \A p \in Pids : proc[p].state = "alive" =>
         \E w \in Workers : /\ worker[w].pid = p /\ worker[w].pc \in Running
                            /\ worker[w].task = proc[p].task
    /\ \A v, w \in Workers : worker[v].pid = worker[w].pid /\ worker[v].pid # NoPid => v = w

\* MAX_CONCURRENT_AGENTS bounds the harness processes alive at a time, whatever
\* retries, stops, self-heal passes and crashes do.
PoolBound ==
  faults = 0 => Cardinality({p \in Pids : proc[p].state = "alive"}) <= Cardinality(Workers)

\* A task is never run by two harness processes at once.
NoDuplicateRun ==
  \A p, q \in Pids :
    proc[p].state = "alive" /\ proc[q].state = "alive" /\ proc[p].task = proc[q].task => p = q

\* Without a self-heal pass, a task is in one place only: with the coroutine that
\* spawns it, on the queue, on a retry timer, or with one worker.
OneHolder ==
  heals = 0 =>
    \A t \in Tasks :
      /\ queue[t] + timers[t] <= 1
      /\ (queue[t] + timers[t] = 1 \/ spawner[t] # "none") => \A w \in Workers : ~Holds(w, t)
      /\ spawner[t] # "none" => queue[t] + timers[t] = 0
      /\ \A v, w \in Workers : Holds(v, t) /\ Holds(w, t) => v = w

\* The self-heal pass and the failure of a database call are the only sources
\* of a second process for a task.
OnlyHealOrFaultDuplicates == heals = 0 /\ faults = 0 => NoDuplicateRun

\* A capacity error is retried RETRY_MAX times and, once, on the fallback model:
\* a task that was never re-added by the self-heal pass does not retry forever.
RetryBudget ==
  heals = 0 => \A t \in Tasks :
    agent[t].attempts <= RetryMax + (IF Fallback THEN 2 ELSE 1)

\* A provisioned task that the database says is queued has someone who will run
\* or re-queue it, through stops, retries, crashes, their boot passes and one
\* failing call anywhere: the handler of a worker that fails settles the row.  The
\* code leaves three gaps, and only these lose a task until a later pass finds it:
\* a spawn that fails before the queue, a retry timer whose look at the rows fails,
\* and a boot pass that fails or has more rows than its query returns; beside the
\* tracker, also its write over the row of an agent that is not live.
QueuedIsTracked ==
  faults <= 1 => \A t \in Tasks \ lost :
    task[t].status = "queued" /\ task[t].workDir /\ agent[t].status \in Live =>
      \/ queue[t] > 0 \/ timers[t] > 0 \/ spawner[t] # "none"
      \/ \E w \in Workers : Holds(w, t)
      \/ healer.pc = "boot" /\ t \notin healer.queued
      \/ healer.pc = "put" /\ t \in healer.rows \ healer.queued

\* A worker that has read the rows of t and will write them without reading
\* them again.
Committed(w, t) ==
  Holds(w, t) /\ worker[w].pc \in {"starting", "launched", "retryAgent", "retryModel",
                                  "retryTask", "writeTask", "writeAgent"}
=============================================================================
