# Agentic IT control plane: TLA+ models and proofs

Agentic IT is a FastAPI control plane that lets software agents work on IT tickets. This directory holds
TLA+ models of its core, the TLC configurations that check them on small instances, and machine-checked
proofs (TLAPS) of the properties that matter most, for every size.

How to run, in this directory:

    tlc -workers 2 -config runner.cfg MCRunner
    tlapm AgentRunnerProofs.tla

`PROJECT.json` lists the runs with their properties, the lines of code behind every definition (`map`), a
seeded bug for every property (`mutants`), the hazards of the code, the findings and the theorems.

## 1. The system

One Python process, the API, runs everything in `src/api` on one asyncio event loop; the Matrix bridge is a
second process. All durable state is in PostgreSQL, and **every statement commits on its own**:
`api/database.py` offers `execute` and `fetch*` on a pool and no transactions. Each `await` is a point at which
any other coroutine may run. Interleavings at awaits, not threads, are what makes this program hard, and one
action of the models is the code between two awaits that touch shared state.

### Inventory

| Component | State | Operations | Interacts with | Hard behaviour | What makes it correct |
|---|---|---|---|---|---|
| Agent runner `services/agent_runner.py` | rows `agents`, `agent_tasks`; in memory: priority queue, workers, `_active_processes`, retry timers; `checkpoint.json` | spawn, dequeue, run, exit handling, retry and fallback, stop, self-heal, boot | harness processes, tracker, gates, routes | stops, timers, self-heal and crashes against a worker that decides from rows read earlier | no task lost, none run twice, stops final, processes bounded |
| Harness processes `services/agent_harness.py` | checkpoint file, exit code | write checkpoint, end | runner (signals, `wait`) | external, may end at any time, stall, or be killed | attended by the worker that started them |
| Task tracker `services/task_tracker.py` | a snapshot of running rows | every 10 s: orphans, checkpoint sync, stuck scan | writes the runner's rows | acts on a stale snapshot, unconditionally | no result overwritten, every task settles |
| Approval and access gates `routes/changes.py`, `services/ticket_service.py` | `change_requests`, `access_requests`, `agent_vault_leases` | request, approve, reject, complete, resume | runner (both spawn continuations) | check-then-act on both sides of a gate | approval resumes the ticket once, access follows the gate |
| Lifecycle routes `routes/agents.py` | the runner's rows | stop, restart, wake | runner | stop during every phase of a run | as the runner |
| Agent auditor `services/agent_auditor.py` | findings, attempt counters | supervise, end hung runs, replace, recover finished tickets | runner, gates, tickets | acts on a snapshot; two passes overlap; replacement races with the runner and wake | bounded replacements, nothing finished is undone |
| Auto assignment `services/auto_assignment.py` | tickets, rules | assign on a ticket event | runner | check-then-spawn, capacity | one agent per ticket, rule capacity |
| Steering inbox `services/agent_steering.py` | `agent_steering_events`, inbox files | record, deliver, acknowledge | running agents, spawns | deliveries overlap; the file is replaced; the inbox is full | what is shown as delivered is in the file, recorded notes arrive |
| Sensitive intake broker `services/sensitive_intake.py` | one-time forms, encrypted values | create, submit, expire, resume ticket | tickets, runner | double submission | each form takes values once, ticket resumed once |
| Ticket provider sync `services/itop_sync.py`, `provider_registry.py` | `tickets`, the highest key seen | full sync, discovery, refresh, push, close | iTop, auto assignment | overlapping passes, dashboard writes between read and write, requests that fail after they took effect | one row per object, nothing ended is reopened, every object arrives |
| Ticket service and routes | `tickets`, notes | create, note, update, ask, answer, request access | all of the above | read, then write some statements later | waits end, closed stays closed |
| Operations chat `routes/ops_chat.py` | sessions, messages, outbound ledger; result files of the harness tool | turn, tool commands, recovery, fallback, outbound polls and acknowledgements | bridge, tickets, runner | a killed harness whose tool goes on; retried creates | claims are true, no duplicate tickets, every turn ends |
| Access control and leases `services/access_control.py` | leases, decision log | grant, check | gates | expiry | lease only behind a completed gate |
| Chat bridge `deploy/ops-chat/bridge/bridge.py` | set of processed events | Matrix transactions, outbound poll | homeserver, operations chat | retried transactions, lost acknowledgements, restart | each message handled, each update delivered at least once |
| AI proxy `deploy/ai-proxy/ai_proxy.py` | round-robin index | route, fall back | model providers | provider order | no provider tried twice |
| Others | | postmortems, workflows, skills, CI/CD evidence, search, dashboard, setup | | sequential single-row writes or pure I/O | see `components` in PROJECT.json |

## 2. Plan

1. `AgentRunner` with `AgentRunnerProofs` (types, attendance, custody, retries, queue): done.
2. `TaskTracker` EXTENDS `AgentRunner` and composes the tracker with it, with `TaskTrackerProofs` (the runner's
   invariants beside the tracker, stops, orphans): done.
3. `ApprovalGate`, the gates of one ticket with the part of the runner that meets them: done.
4. `Delivery` and `ChatBridge`: the outbound queue as an abstract specification and the bridge that implements
   it, with `ChatBridgeProofs`: done.
5. `ChatTurn`, the dashboard's side of a chat room, with `ChatTurnProofs`: done.
6. `TicketReply`, everything at the desk that writes a ticket's row, and `TicketSync`, which composes it with the
   provider, with `TicketSyncProofs` and `TicketSafetyProofs`: done.
7. `AgentSteering`, with `AgentSteeringProofs`: done.
8. `Supervision` EXTENDS `ApprovalGate` with the auditor and the calls of an operator, with `SupervisionProofs`: done.
9. Left: a `WorkerPool` for a changing concurrency limit; the pure functions of the AI proxy; an abstract job-pool
   contract that the runner implements.

The modules have no RECURSIVE operators, their parameters are CONSTANTS with named assumptions, and their
type invariants are conjunctions of named parts, so that they can be proved about.

## 3. The modules

### AgentRunner

| Variable | Code |
|---|---|
| `task`, `agent` | the rows of `agent_tasks` and `agents`; `spawn_agent` creates them in pairs, so one index names both |
| `checkpoint` | what `checkpoint.json` of the task says, by class: missing, running, wait, done below 100 %, done, error |
| `queue` | `_agent_queue`, as the number of entries of each task |
| `timers` | pending `_requeue_transient_model_retry` coroutines |
| `active` | `_active_processes` |
| `worker` | the `_agent_queue_worker` coroutines with their position in `_spawn_with_semaphore` and `_run_agent` |
| `proc` | operating-system processes: unborn, alive, or how they ended |
| `spawner`, `healer`, `stopper` | the `spawn_agent`, `ensure_agent_queue_health` (or boot) and stop or restart coroutines |
| `heals`, `polls`, `crashes`, `faults` | how often these happened |
| `lost` | history: tasks whose entry in memory the code drops, until a later pass puts them back on the queue |

A worker moves `idle -> dequeued -> starting -> launched -> attending`, and after the exit either through
`writeTask, writeAgent, closing` (the final rows, with the outcome in `worker[w].outcome`) or through
`retryAgent, [retryModel,] retryTask, retryTimer` (a transient provider error). Process creation and
registration are one action because no await separates them; marking the row running is the next one.
`ExitAfterStop`, `ExitAtGate`, `ExitSuccess` and `ExitError` are the four branches after the exit, in the order
of the code; where the code decides from data the model does not hold (is the gate already open, does dashboard
evidence show the work was done, is there a postmortem artifact), both outcomes are allowed.
A database call may fail anywhere: inside `_run_agent` (`RunFault`), in the rest of a worker's run
(`WorkerFault`), in the worker's own error handler (`HandlerFault`), in the spawn before the queue, where nothing catches it
(`SpawnFault`, 3347-3377), in a retry timer's look at the rows (`TimerFault`, 390), and in a self-heal or boot pass
(`HealFault`). `Crash` is the death of the API container with all its coroutines and processes. What comes
back is the healer at "boot", whose steps `HealRead` and `HealPut` are those of a self-heal pass: the query has
`HealLimit` rows (the code's LIMIT 100, 1218-1220 and 1276), which are any of the queued ones since the model keeps no
ages, and a boot pass that fails is only logged (`app.py` 82-88). `PruneRegistry` is a poll of the process list, which drops
the registry entries of processes that have ended.

`QueuedIsTracked` is stated beside what the code does drop, and the model puts in `lost`: the task of a spawn or a timer
that fails, the rows that a boot pass leaves out or, if it fails, all of them. Every other single failing call leaves a
queued task with somebody, a worker's first of all, whose handler settles the row.

Simplifications: the four wait statuses are one; entries of one priority rank leave the queue in any order;
the two inserts of `spawn_agent` are one step (nothing else can know of the rows yet, except readers of all
rows, which need the work directory); one self-heal pass runs at a time; a Stop is issued once per task; ticket-level
effects (notes, ticket status, broadcasts) are left out.

### TaskTracker

EXTENDS AgentRunner with one variable, the `track_loop` coroutine: its snapshot, the rows still to do, the
verdict and the writes to come. It takes its verdicts from the snapshot, the registry and the checkpoint, and
writes rows unconditionally, as the code does; where it makes a task queued whose agent is not live, no pass will find
it, and the task is `lost`. `StopSticks` is stated here, since the tracker may overwrite a stop like a worker that is
committed may. `OrphanHasNoRunner` excepts what drops the registry entry that
`_runner_is_managing_task` relies on behind a worker's back: a poll, a stop, or a second worker to which a self-heal
pass (`heals`) gave the same task. With one worker a self-heal pass is harmless. Failing database calls, notes, and the change sweep after a
completion are left out.

### ApprovalGate

One ticket, its agents in the order they were spawned, its gates, and the HTTP handlers.

| Variable | Code |
|---|---|
| `task`, `agent` | the rows of `agent_tasks` and `agents`; queued, spawned, running and working are one status, `active` |
| `runner` | the harness process of an agent, then its runner coroutine, with the outcome and the changes it has still to close |
| `change`, `access`, `leases` | `change_requests`, `access_requests`, granted `agent_vault_leases` |
| `request`, `calls` | the open approve, reject and complete handlers; how many there were |
| `ticket` | `tickets.status`: in progress, waiting, resolved |
| `noted`, `learned` | the agents that find a note that reads as final, or a postmortem, from after their start |
| `scene` | what may happen in this behaviour |

Both sides of the race at a gate are there: the runner reads the gates after a wait checkpoint (`ReadGates`,
`CheckOthers`, `SpawnContinuation`, `WriteTask`, `WriteAgent`, `ParkTicket`) and the handler decides and resumes
(`ReadChange`, `WriteChange`, `SyncAccess`, `ResumeOwn`, `ResumeTicket`, `ResumeSpawn`, `HandAgent`, `HandTask`).
An agent that ends done has its approved changes closed (`SweepChanges`, `CloseChange`) and its ticket settled
(`ReportDone`, `SettleTicket`). One that ends without a word is judged by `TerminalEvidence` (`ReadEvidence`,
`ResolveRecovered`): a final note and a postmortem or a completed change from after its start, and no open change.
The code finds final notes by words, so some of the control plane's own notes count, and which they are matters: those of a
completion, of a recovery, of a closed change, and that of an assignment, which names `ticket_resolution`;
`FinalNote` stands where they are written.

Simplifications: gates without an agent, expiry and policy evaluation are left out; a completed access gate may or may
not get its lease, since that depends on text in the request; a stale wait's note may fall before or after the
start of its continuation.

### Supervision

EXTENDS `ApprovalGate` with two more actors on the same ticket.

| Variable | Code |
|---|---|
| `audit` | the passes of `audit_once` (the loop and `POST /audits/run`): position, agent, the rows read at the start (`seen`, `tries`), the changes still to close |
| `attempts` | `agents.attempts` |
| `order` | the open stop, wake and restart calls of `routes/agents.py` |
| `spent` | passes on demand, calls of the operator and failing statements so far |
| `replaced`, `finalized`, `unsettled`, `raced` | history: replacements per agent; agents finalized from evidence; those of them whose evidence moved or whose runner had looked before; spawners that overlapped |

A pass reads all rows (`AuditStarts`) and judges one agent after the other from what it has read, newest first: it sweeps
the changes of a completed one (`AuditSweeps`, `AuditCloses`), leaves alone an agent beside which another is at
work or a gate is pending (`AuditSeesOthers`, `AuditSeesPending`), finalizes one whose work is done
(`AuditRecovers`, `AuditResolves`, `AuditFinishesTask`, `AuditFinishesAgent`, `AuditKills`), or replaces it (`AuditJudges`,
`AuditLooks`, `AuditSpawns`, `AuditCounts`). `Order`, `ReadTask`, `StopProcess`, `StopTask`, `StopAgent`, `Reassign` and
`SpawnAgain` are the operator's calls. `Hang` is a harness that goes on without getting anywhere; `AuditFails` a
statement of a pass that raises.

Simplifications: whether a task makes progress is a choice, since it depends on the age and text of its output;
review records and findings are left out; a retry of the runner counts on the same counter and could only lower
the number of replacements; a completed agent without a change of its own has nothing a pass would do;
`AUTO_RECOVER` is off unless configured, so it varies with the scene (`recovers`); failed and waiting tasks
only get a review; queueing between spawn and start belongs to `AgentRunner` and is left out here.

### Delivery and ChatBridge

`Delivery` is what an outbound queue promises, in four actions: post, deliver, refuse, settle, where only what was
delivered or refused may settle. `ChatBridge` is one Matrix room with the bridge in the middle.

| Variable | Code |
|---|---|
| `server` | the homeserver: the transaction it has to deliver, and the handler it waits for |
| `processed` | `PROCESSED`, emptied when it grows beyond `ClearAt` |
| `handler` | the `transactions` handlers, each at an event, an invite's join, a recent message, or a dashboard call; the messages of the history still to do are a set, taken oldest first |
| `recalled` | messages taken from the room's history after an invite |
| `handed`, `turns`, `session` | the dashboard: posts of a message, posts whose turn still runs, the ticket of the room's session |
| `written`, `ledger`, `acking` | notes for the user, those with an outbound row, acknowledgements in progress |
| `poll` | `poll_dashboard_outbound` with its batch |
| `copies`, `refused` | what the room got of each note |
| `spent` | failing steps, server timeouts, restarts, and emptyings of `PROCESSED` so far |

Inbound: a homeserver that stops waiting sends the transaction again while the first handler goes on with it.
Outbound: `Fetch`, `Send`, `Ack`, `AckAnswered` beside `RecordAck` and `MoveSession` inside the dashboard. A send
may be posted, forbidden, failed, raised, or posted without an answer. `AtLeastOnce` is the refinement:
`Delivery` with the notes as items, `copies` and `refused` as themselves and the ledger as what has settled.
Rendering, media, the typing notice and the "working on it" note are left out.

### ChatTurn

One chat room in the dashboard: `turn[t]` is a call of `_handle_chat_message` (session, user row, context, up to
`Attempts` harness runs, recovery, fallback, reply), `tool[r]` the tool process of an attempt, `request[r]` its
`POST /api/tickets` inside the dashboard, `result[r]` the result file and the last structured line of the actions
file. On a timeout the result is read, the harness is ended, and the tool may survive; a request goes on
whatever happens to its sender. An attempt gives the tool up to `MaxCommands` commands, each with a request of its own, so
that one attempt may create twice. A create takes `--spawn-agent` or not, and is heeded only where
`SPAWN_AGENT_ALLOWED` says so (`asks`); what is told to start no agent goes into `declined`. A message that the tool
takes for a follow-up by words of its own (`FollowUps`) refuses the create (`RefuseCreate`). A continued ticket may be given
another status (`SetStatus`). A reply is "ticket" (opened for this message), "update", "general", or "found": the recovery
of a request of work that took the newest noted ticket of the session, of whatever message and status. `scene` holds what varies: the messages, the tickets before, the attempts, the
commands a harness may give and how many requests may fail. `Runs` are the attempts that any scene allows, up to
`MaxAttempts`. `EarlierAssumption` says that the tickets there before are those of earlier turns that went well.

Simplifications: messages do not name ticket ids (`ops_chat.py` 615-665); artifact results and the retries of a
request are left out; assigning an agent is one step; the commands of a harness are bounded per scene;
history and context are read in one step; the windows of 30, 15 and 10 minutes are taken as never over.

### TicketReply and TicketSync

`TicketReply` is the ticket's row with everyone at the desk who writes it: `job[c]` is a coroutine (a status
change, a close, a question with or without a form, an answer, a chat follow-up, an assignment, an
unassignment, a postmortem or workflow build, a push, a form submission, an agent's wait) with what it has read of
the row, which it writes back some statements later.

| Variable | Code |
|---|---|
| `ticket` | rows of `tickets`: the provider reference, the status, the status remembered in `provider_payload`, the agent, whether the requester was asked |
| `agent` | rows of `agents` with their task: `active` (the agent's row), `runs` (the task's row), who spawned it (`by`); history: `seen` (read as running by somebody who has yet to write), `revived` (written as working after it had ended or was taken away) |
| `form` | rows of `sensitive_intake_requests`, with the submissions stored in each |
| `raced`, `closed` | history: tickets on which two coroutines that may spawn overlapped or a workflow build was started beside an agent; tickets whose last writer ended them with nobody else at work on them |

The row of the agent and that of its task part: `Unassign` writes the agent's row only and `ClearAgent` the ticket's, while
task and harness go on; `Resume` looks at the task, an assignment at the agent. `TaskEnds` and `AgentEnds` are an ordinary end,
`Finished` one that writes both. `TaskRead` and `WrittenBack` are the tracker's snapshot and its later write (421), or the
runner's at a retry, which show an agent at work again whatever became of it. `LookForSame` is the test of a postmortem
or a workflow build, which look for a task of their own kind only, and so spawn beside a working agent.

`TicketSync` EXTENDS it with the provider: `object` (the provider's objects), `maxKey` (the file of the highest key
seen), `sync[s]` (the keys to do and the object read, of the loop, a full sync on demand or a refresh), creation and
push (`MakeObject`, `BindRow`, `ConfirmRow`), the close sequence (`Resolve`, `AssignFirst`, `PollState`, `CloseRow`),
the automatic assignment (`AutoLook`, `AutoCapacity`) and a restart. A request to the provider may fail, also after
it took effect. `rushed` (two automatic assignments overlapped) and the `early` field of an object are history.

Simplifications: one ticket class; the case log, titles and other columns are left out; `close_ticket`'s own SELECT
is merged with the route's; the note and the payload of the runner's wait are one step; reopening at the provider
is left out; one RACI rule, which matches every ticket; an agent that stalls is one that works; agents are written back
in the scenes that say so (`tracked`); permission
decisions and failing database calls are left out; a spawn that a restart cuts off counts as raced.

### AgentSteering

`call[c]` is a coroutine: the spawn of an agent (`SpawnAgent`, `InitializeInbox`, `SaveWorkDir`) or the recording of a
note (`ReadActive`, `InsertEvent`). Both deliver by `Select`, `WriteInbox`, `MarkDelivered`; the agent acknowledges rows
it may have read (`shown`). `missed`, `crossed`, `stale` and `acked` are history: rows that a delivery left out or that
had none, deliveries that overlapped between reading and writing (or read a row that came back after its
acknowledgement), agents whose file was last written by such a delivery, rows acknowledged at some time.

Simplifications: the two inserts of a spawn are one step; an agent has one task; the recording goes through its
agents in any order; notes are numbered in the order of their recordings; the upsert branch of a row with the id of
another note's is not reached by the callers, and neither is a delivery without a work directory. The notes of
the tracker and of approvals are recordings like the others.

### MC modules

The `MC` modules define constants, and `MCRunner` also the scenes of one run over the runner and the tracker: a scene
is a conjunct that leaves out steps of the environment, and orders names that make no difference. Where an instance has scenes, casts or agendas, the initial
states choose one from a set, so that one run covers many small situations side by side instead of one large one.

## 4. Runs

| Run | Module | Result | What it shows |
|---|---|---|---|
| `runner` | MCRunner | passes, 447 k states | `TypeOK`, `ProcessesAreAttended`, `QueuedIsTracked`, `OneHolder`, `OnlyHealOrFaultDuplicates`, `RetryBudget`, `StopSticks`, `OrphanHasNoRunner`, `Settles`, in four scenes |
| `approval` | MCSupervision | passes, 147 k states | `SupervisionTypeOK`, `OneAgentAtWork`, `AccessFollowsGate`, `ReplacementsBounded`, `FinalizedStays`, `ApprovalOfWaitingAgentResumes`, `FreedWhenDone` |
| `chat_bridge` | MCChatBridge | passes, 162 k states | `BridgeTypeOK`, `NoSpuriousRepeat`, `AcceptedIsHandled`, `DeliveredWhileCurrent`, `MessagesArrive`, and the refinement `AtLeastOnce` |
| `chat_turn` | MCChatTurn | passes, 379 k states | `ClaimsAreBacked`, `GivesUpWithoutTicket`, `ReportedIsAssigned`, `TurnsEnd` |
| `ticket_sync` | MCTicketSync | passes, 199 k states | `TypeOK`, `WaitRemembersWork`, `OneAgentUnlessRaced`, `ClosedStaysClosed`, `OneTicketPerObject`, `AutoCapacityKept`, `ObjectsArrive`, `EndsArrive` |
| `steering` | MCAgentSteering | passes, 48 k states | `DeliveredIsInInbox`, `UpdatesArrive` |
| `runner_duplicate` | MCAgentRunner | violation | `NoDuplicateRun`: a self-heal pass queues a task that a worker has in hand |
| `tracker_retry` | MCTaskTracker | violation | `Settles`: the tracker's stale running hides a queued retry |
| `approval_lost_wakeup` | MCApprovalGate | violation | `ApprovalResumes`: an approval between the runner's read and its writes |
| `bridge_duplicate` | MCChatBridge | violation | `DeliveredOnce`: a restart between the post and its acknowledgement |
| `chat_duplicate` | MCChatTurn | violation | `RetriesOpenOneTicket`: a retry between the lookup and the late write of the key |
| `form_twice` | MCTicketSync | violation | `OneSubmit`: two submissions that both found the form pending |

The six violations are disagreements between documents and code; `findings` in PROJECT.json quotes both. Four more
that the models show have no run of their own: the passing properties except them, and `hazards` quotes the document beside the line:

- a request of work may be answered with an older or cancelled ticket of its session (`ops_chat.py` 709; the comment at
  619-622 and `GLOBAL_SEARCH_AND_OPS_CHAT.md` 277-279, 441-443): `ClaimsAreBacked` calls this reply "found";
- `unassign-agent` leaves the task and its harness at work, and the tracker shows the agent working again
  (`tickets.py` 1206; `API.md` 323): `OneAgentUnlessRaced` and `AutoCapacityKept` do not count such an agent;
- a second question remembers the wait of the first as the status to go back to (`tickets.py` 1109; `API.md` 161,
  `USER_RESPONSE_WORKFLOW.md` 45): `WaitRemembersWork` excepts a second question;
- a refresh replaces the payload that holds the remembered status (`itop_sync.py` 398; `USER_RESPONSE_WORKFLOW.md` 26 and
  45): `WaitRemembersWork` says nothing of a status that is gone.

Other weaknesses contradict no document; they are in `hazards` too, and the property that covers them names
the exception: a stop overwritten by a worker that was already committed (`StopSticks`), a queued task dropped by a failing
spawn, timer or boot pass (`QueuedIsTracked`), approvals of one gate that overlap while no task of the ticket is active, and other
spawners that overlap between their look and their insert (`OneAgentAtWork`; `AGENT_OPERATIONS.md` 281-283 speaks of a
task that is still active), passes that overlap and spend the last recovery attempt twice (`ReplacementsBounded`), a message of
the room's history lost with its handler (`MayBeLost`), overlapping deliveries of the steering inbox (`stale`), a workflow build
started beside an agent (`raced`).

The passing runs then state the strongest property that does hold: a duplicate run needs a self-heal pass
or a failed call (also proved); without retries every task settles; an approval of an agent already recorded as waiting
resumes; an update is delivered at least once; a turn that gives up leaves no ticket behind that was noted in time; a second agent
needs overlapping spawners; a closed ticket is reopened by nobody who was not already at work on it.

### Bounds, and why they are enough

- `runner`, scene pool: one task suffices because all interference is between actors on the same task: two workers,
  a timer, a stop, a self-heal pass, a poll, a crash. `RetryMax = 1`, one self-heal pass beside the boot pass; two
  processes allow the first run and its retry, or a duplicate.
- `runner`, scene faults: an incident or a postmortem (which differ in rank and in how they end), two workers, four processes; two
  failing calls at any points, so that the handler of one may fail too (`QueuedIsTracked` is stated for one: a
  second failure can leave a queued row to the next self-heal pass), without a stop beside them. The model fallback is on, so a
  task can have its retry and a run on the fallback model.
- `runner`, scene boot: two tasks and `HealLimit = 1`, so that a boot pass has more rows than its query returns, and one failing
  call. No process is started here: what matters is which rows find back to the queue.
- `runner`, scene tracked: one task and one worker; the races are between the tracker, the runner, a stop and a crash. Without
  retries, since `Settles` does not hold with them (`tracker_retry`). No symmetry is used, because the run checks liveness;
  process ids are given out in order instead.
- `approval`: nine scenes, each for a pair of actors that can disturb each other: two decisions on one access gate; one
  decision with both gates open; a harness that hangs with its work done, alone and beside a gate that moves; a
  gate approved for an agent that is done already; two passes, and one that may fail, replacing a silent agent; an operator's
  call beside the auditor and beside an approval. Three agents (a source, its continuation or replacement, and one
  more), two gates with different completion policies, one handler, one operator, `MaxRecovery = 1`. With the
  agents of a scene used up a spawn blocks; no property is about a behaviour that gets there. One handler at a
  time: two overlapping approvals both find nobody at work and both spawn, a hazard listed at `changes.py:423`;
  `OneAgentAtWork` excepts them, and is proved for any number of handlers.
- `approval_lost_wakeup`: one gate, one handler, `MCApprovalGate`.
- `chat_bridge`: four agendas (an invite and a message; two messages in one transaction; a message beside a note;
  three notes on two tickets). `PollLimit = 1` and `ClearAt = 1` bring the limits of 50 and 5000 within reach; one
  failing step, one server timeout and one restart, in every combination.
- `chat_turn`, `chat_duplicate`: eight scenes; two turns only where they interfere (the same message twice), two attempts
  where a retry matters, two commands in an attempt, with the agents allowed and not, a ticket there before that is new, in
  progress or cancelled, one failing request.
- `ticket_sync`: fourteen scenes of up to three calls beside the loop, one for each pair of writers of the row that can
  disturb each other; agents are written back in two of them, an unassignment between two assignments by hand and between two automatic
  ones. `MaxObjects = 2` (an object and a later one), `FullEvery = 2` (a discovery and a full pass alternate),
  `MaxActive = 1`; one failing request or restart. `form_twice` has one of these scenes.
- `bridge_duplicate`: the agendas of `chat_bridge` with one restart and no other failure.
- `steering`: `InboxLimit = 1` stands for 50; two agents, up to three notes, one failing call and one restart.
- Deadlock checking is off: every instance ends when its bounded tasks are done.
- `MaxHeals`, `MaxPolls`, `MaxCrashes`, `MaxFaults`, `MaxTimeouts`, `MaxCalls`, the bounds in scenes and casts (`people`, `faults`,
  `crashes`, `commands`) and the finite `Pids` and `MaxAgents` cap what the code leaves unbounded; they appear only in
  guards. `MaxObjects` is the range of a quantifier in liveness properties.

### Fairness

`TaskTracker!Fairness` is weak fairness of the tracker, of each worker, of each provisioning, timer and stop
coroutine and of the self-heal and boot pass, since the event loop runs every ready coroutine and the sleeps between are
finite; and of `ProcessExit`, since a watchdog of `_run_agent` ends a stalled process. Starting a stop, a poll,
a crash, a fault or a new task is not fair. `ApprovalGate!FairSpec` likewise: runner and handlers are fair, an
agent eventually stops, nobody has to decide on a gate. `Supervision!FairSupSpec` adds the auditor's loop, which comes round
for ever, and an operator's call that has begun; nobody need call or ask for a pass, a hung harness need not
end, and `FreedWhenDone` rests on the loop alone. `ChatBridge!FairSpec`: the homeserver keeps trying, handlers,
poll and acknowledgements go on, and a turn of the dashboard ends at its timeout. `ChatTurn!FairSpec`: turns and
requests inside the dashboard go on and the timeout of an attempt comes; what a harness does with its tool is not
fair. `TicketSync!FairSpec`: a coroutine that has begun is run to its end and the loop for ever; nobody need call, no agent
need end, people at the provider need not act. `AgentSteering!FairSpec`: a call that has begun goes on. Nothing
that goes wrong is ever fair.

## 5. Proofs

All theorems hold for every value of the constants that satisfies the named assumptions, which TLC evaluates
in the runs: any finite sets of tasks, workers, handlers, calls and notes, and every bound.

### AgentRunnerProofs

- **TypeCorrect**: `Spec => []TypeOK`. One lemma per part of the invariant, one case per action.
- **Attended**: `Spec => []ProcessesAreAttended`. "Every live process has a worker" is not inductive alone: it
  says nothing of a worker whose process has ended, nor that a new process id is not one a worker already
  remembers. `Attendance` adds that workers before a launch remember no process, that a remembered process
  was started for the worker's task, and that two workers never remember the same one. The steps fall into
  three kinds, one lemma each: a worker moves and keeps its process (`MoveKeepsAttendance`), a process ends
  (`EndKeepsAttendance`), a process is started with a fresh id (`LaunchKeepsAttendance`). It holds until a call
  fails inside `_run_agent`: `RunFault` forgets a process that it does not end.
- **PoolBounded**: `Spec => []PoolBound`. The worker that attends a process is a function from live processes to
  workers, and by `Attendance` an injection, so the cardinalities compare.
- **SingleHolder**: `Spec => []OneHolder`. `Custody` strengthens it with where the rows of an absent task are: a
  task has at most one token, which is handed from spawner to queue to worker to timer to queue. Most actions
  move no token (`CalmKeepsCustody`).
- **NoDuplicates**: `Spec => []OnlyHealOrFaultDuplicates`, from both: two live processes of a task have
  workers by `Attendance`, both hold the task, so by `Custody` they are one worker, which has one process.

- **RetriesBounded**: `Spec => []RetryBudget`. The bound on the counter is reached while the worker that counted
  may still put the task back. `Budgeted` distinguishes a task that may be retried, one that has spent its retries and
  will not be (`Over`: it runs on no worker that may still retry it, and is out of the queue), and one that is being
  switched to the fallback model. It needs `Custody`: a second holder would count on its own. Without a self-heal pass
  only, since a pass may put back what a worker has given up; a crash brings one.
- **QueuedTracked**: `Spec => []QueuedIsTracked`. "Somebody holds it" is not inductive: a worker that has written the row
  still holds its task for a while. `Tracking` counts a worker only until it writes the row (`Carries`); what a
  self-heal pass has seen counts as much as an entry of the queue, unless the registry names a process, and then
  somebody carries the task; and as long as no call has failed nobody is in an error handler. After a crash the boot pass
  owns every queued row until it has read, and then those it has found; the rest it makes `lost`, as the failing spawn,
  timer and pass do. The theorem so says that nothing else loses a queued task.

### TaskTrackerProofs

- **StopFinal**: `TrackedSpec => StopSticks`, an action property: one case per action, from the types. The guard of each
  writer of the rows (`Runnable`, the tests for a stop) rules it out, or the writer is `Committed`, or it is the tracker
  between its reads and its writes.
- **RunnerSurvivesTracker**: `TrackedSpec => [](...)` of the invariants of the runner. The tracker's writes were not
  there when `AgentRunnerProofs` stated them: `TrackKeepsRunner` shows that its rows, written from an old
  snapshot, keep types, attendance, custody, budget and tracking.
- **OrphansAreAbandoned**: `TrackedSpec => []OrphanHasNoRunner`. The verdict is taken some awaits before the writes,
  so `OrphanInv` is stated from the verdict on (`Judged`) and adds that a worker with a process to answer for is in the
  registry unless somebody dropped the entry (`Registered`), and that the process ids in rows and snapshot are those
  of processes started for the task (`PidsKnown`): a worker cannot come to hold a process of the past. The proof
  needed the exception for a second worker, which a run with one worker could not show.

### ChatBridgeProofs

- **Implements**: `Spec => AtLeastOnce`, the refinement of `Delivery` through `INSTANCE ... WITH`. A note may settle only
  after a copy or a refusal, so the invariant `Backed` says that a note whose acknowledgement the poll is at, or the
  dashboard has in hand, has one; each action of the bridge then is one action of `Delivery` or a stutter.
- **CopiesAccountedFor**: `Spec => []CopiesBounded`: the duplicates of `bridge_duplicate` are one for each failure or restart at
  most. The bound alone does not survive a send. `Paid` leaves one copy free for a note
  that is going to be posted again (in the batch, or outside the ledger with no acknowledgement to come); what
  puts a note back among those is a failure or a restart, which pays for the further copy.
- **RepeatedForAReason**: `Spec => []NoSpuriousRepeat`. `Accounted`: the posts of a message and the handlers about to post
  it are together at most one if the bridge remembers the message, none if not, beyond the failures, restarts
  and emptyings so far. A handler takes a message only when it is not remembered.
- **AcceptedAreHandled**: `Spec => []AcceptedIsHandled`. `RoomInv` says where a handler is (`Placed`: its event exists, and the
  message in its hands is that event or came from the history) and what the homeserver waits for (`Awaited`:
  without a timeout the handler awaited is the only one). `Coverage` says that a message is handed over, in hand,
  or may be lost, whenever it is remembered, passed over by a handler that has not failed, or in a transaction answered
  with 200: a handler passes over what is remembered and an answer follows what was passed over, so only
  the three together are inductive. When a handler
  fails, the message it loses was forgotten in the same step and belongs to a transaction that will come
  again, unless a timeout or the history let another handler pass over it (`LostIsAwaited`).
- **BridgeTyped**: `Spec => []BridgeTypeOK`, from `RoomInv`, `Posting` (what the queue works with was written for this room)
  and `Memory` (without the messages of the history, `PROCESSED` stays within its limit).

### TicketSyncProofs and TicketSafetyProofs

- **Typed**, **WellTyped**: `Spec => []TypeInv` and `Spec => []TypeOK`. `TypeInv` is `Shapes`, `Unique` (no two rows with one
  key), `Links` (an agent belongs to the ticket that names it), `Tied` (a coroutine at work holds a ticket that
  exists, a form likewise) and `Synced` (the keys a sync holds are keys of objects).
- **StaysClosed**: `Spec => []ClosedStaysClosed`. `ClosedInv` is `Ended` (the property) and `Aware`: a sync that is about to
  write the row of a closed ticket's key has read a terminal status. Any other writer removes the ticket from `closed`,
  or adds it when no coroutine is at work on the row or its object.
- **OneTicket**: `Spec => []OneTicketPerObject`. `KeyInv`: a coroutine about to bind a row's key made the object for that
  row; an object whose link was read, and which is its maker's only one, has that row. Then a sync that finds no row for an
  object either came early, which is recorded, or the object is not the maker's only one.
- **OneAgent**: `Spec => []OneAgentUnlessRaced`, where an agent at work is one whose row is active and whose task runs, and that was
  not written back; a postmortem is not counted. `AgentInv`: on a ticket that is not raced one coroutine at most is past
  the read that lets it spawn, what it read of the agents at work holds still (`Finds`), and the ticket knows the agent at
  work or the coroutine that is about to link it does (`Knows`). The last part is what an answer relies on that looks
  only at the agent the row names; only a postmortem is spawned past all that (`Reviews`).
- **CapacityHolds**: `Spec => []AutoCapacityKept`. The count leaves out the coroutine's own ticket, so `CapacityInv` must
  say that this ticket has no automatic agent: a coroutine that may assign owns its ticket (`OwnersApart`) and comes
  first to it (`OwnersFirst`). `StaysOff` keeps an automatic coroutine out of the steps that only
  people's calls take. An agent that was unassigned or written back is not in the count. `Room`: unless rushed, one coroutine at most is between count and spawn, and then there is
  room for one more.
- **WaitsRemember**: `Spec => []WaitRemembersWork`. `HoldInv`: until the one call that puts a ticket on hold writes the wait,
  nobody has read a wait from the row, and from then on it keeps the status the call has read (`Remembers`); coroutines stay
  on the course of their operation (`InTurns`), and the provider knows no such status (`NoWaitThere`). A sync writes the row
  that carries the key it has read (`UPDATE tickets ... WHERE itop_ref`), not the row it has read the status from. That they are
  one row needs `KeysStand`: a key moves only by a push, and a created row has one maker, by `OwnersApart` of `CapacityInv`.
  The proof brought out three conditions which the property had left to the scenes, and now states: a status
  change asks for a wait too, a ticket may be on hold from the start, and a push of another ticket moves that one's key, so
  that a sync which read it may write its wait to a row inserted in the meantime.

### AgentSteeringProofs

- **DeliveredReachesInbox**: `Spec => []DeliveredIsInInbox`. A delivery reads rows, replaces the file, and marks rows,
  with other calls in between. `InboxInv` follows a batch: what a delivery that crossed no other is about to
  write holds every row that is delivered or that another delivery is marking (`BatchesAreFull`); what is being marked
  is in the file (`MarkedAreWritten`). The limit of the inbox needs `Due`: a row once within the limit stays
  within it, since only acknowledged rows leave the count of those ahead of it, so no later batch leaves it out.

### ChatTurnProofs

`Sound` (types, and references to rows, rooms and tickets that exist) and `Kept` (rows, rooms and turns that have begun
only grow) hold of every step and carry the rest.

- **TypesKept**: `Spec => []TypeInv`.
- **RepliesAreBacked**: `Spec => []ClaimsAreBacked`. What a reply says was read from a result file, which a tool wrote
  after a request, or from the database. `ClaimsInv` says of each of them (`ClaimTurn`, `ClaimRun`) what the reply must
  be able to rely on: a ticket reported as opened holds the message in its description, an update is noted on its ticket. What backs a
  claim only grows, so a late or killed reader does not matter; a search by the message finds only tickets that hold it,
  which takes `SearchInv` of the next theorem but one. A search by the session alone gives "found", and only a request of
  work makes it.
- **ReportsHaveAnAgent**: `Spec => []ReportedIsAssigned`. A ticket is reported as opened before it has its agent. `AssignInv`:
  every noted ticket is assigned, or its tool is still on the way (`AttendedIn`), or a command was told to start no agent
  (`declined`), or a request failed.
- **GivesUpEmpty**: `Spec => []GivesUpWithoutTicket`. `SearchInv`: the description of a ticket holds the message of the turn that
  opened it, the message is in the turn's history, and a turn that has searched after its last attempt and found
  nothing has no ticket noted in time (`Missed`); a note that comes after that search is late.

### SupervisionProofs

- **ReplacedBounded**: `SupSpec => []ReplacementsBounded`. `_spawn_replacement` tests attempts that its pass has read long
  before, and counts after the new agent is there, so the counter alone bounds nothing. The invariant is an account: a
  pass holds a permission for an agent from the reading of attempts below the limit until it has counted the
  replacement or gone past the agent. `Budget`: attempts and permissions out are together at most the limit and one
  for every pass beside the loop, because a new permission is given below the limit only and each pass holds at most
  one. `Ledger`: a replacement is counted, is about to be counted by a pass that holds a permission, or was cut off by
  a failure. For any number of agents, passes, operators and failures.
- **SupervisionTyped**: `SupSpec => []SupervisionTypeOK`. `SupInv` adds to the account the types of the gates and runs
  (`GateRows`), of the passes and calls (`Callers`) and of the history (`FinalsOK`). Steps of the gates and the runner
  keep all but their own rows, so the other proofs go through `Steps`, which says once what a step does to the rows
  and the run of one agent.
- **FinalizedKept**: `SupSpec => []FinalizedStays`. The auditor writes a result and ends the process, and the runner then
  sees it die on a signal. `FinalInv`: the evidence on which a pass acts is there from its look to its write
  (`Grounded`), and what the runner of a finalized agent has yet to write is the same result (`Firm`): it either
  judges the exit by the evidence that the pass found, or had decided before. Evidence only grows, except by a gate that moves,
  and that marks the agent `unsettled`.
- **OneWorks**: `SupSpec => []OneAgentAtWork`. Four kinds of spawners look for an agent at work and insert one some
  awaits later. `OneInv`: the row of an agent is active as long as its task is, also between the two
  writes that end them (`RowsNested`); and unless raced, what a spawner saw when it looked still holds (`Looked`), no two are past
  their looks in a way that can cross (`~Overlap`), and of two agents at work one has been replaced
  (`Paired`). The runner that continues its own agent and an approval never cross: the row of the runner's task is active
  until after its insert (`SoleSpawner`).
- **AccessFollows**: `SupSpec /\ []OneDecides => []AccessFollowsGate`, for any number of handlers, agents, gates and passes.
  `OneDecides` says that no two handlers are between the read of one gate and the write of its access request. The
  code does not enforce that (nothing locks the row), so it stands in the theorem, not among the assumptions; decisions on
  different gates, passes, agents that open gates and stops of agents overlap freely. `AccessInv`: a gate is still as a decision read or wrote it
  until the decision is through (`Decides`), only a handler between its two writes may have the access request behind
  the gate (`Syncing`), and the agent between the two inserts of a request is alone with it (`HalfOpen`).

### What is only model-checked

`AccessFollowsGate` is not proved for decisions that overlap on one gate, where it is false: the two writes of one
fall between those of the other. The run has one handler. The leads-to properties (`Settles`,
`ApprovalOfWaitingAgentResumes`, `FreedWhenDone`, `ApprovalResumes`, `DeliveredWhileCurrent`, `MessagesArrive`, `TurnsEnd`, `ObjectsArrive`,
`EndsArrive`, `UpdatesArrive`) stay with TLC, since liveness under fairness is out of the prover's reach.

## 6. What is not modelled

`components` in PROJECT.json says for each part why, and `hazards` lists what the code is exposed to, covered or
not. In short: text processing, prompts and rendering, policy evaluation, read-only views, external probes, the
browser code and the installers have no state that a step of another actor could disturb; they are also the larger
part of the repository's lines. A changing concurrency limit and the AI proxy are planned (section 2).
