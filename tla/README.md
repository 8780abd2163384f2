# Sasuke in TLA+

Sasuke is a desktop client for coding agents: it keeps conversations, workflows
and scheduled jobs, and runs them by driving agent processes over ACP. This
directory holds TLA+ models of the parts whose correctness depends on the order
of concurrent steps, on restarts and on lost messages, the TLC configurations
that check them, and TLAPS proofs of their main properties.

Paths below are relative to the repository. `PROJECT.json` maps every definition
to the lines it models.

## 1. Inventory

| Part | State | Operations | Hard behaviour | What makes it correct |
|---|---|---|---|---|
| Scheduler store (`src/scheduler/db.rs`, `occurrence.rs`, `queue.rs`) | SQLite: one row per job (definition, revision, `retry_at`), one row per occurrence (status, owner, lease, attempt, accepted links) | materialize, claim, renew, accept links, release, finish, recover expired, mark missed, resume attention, update the job or its projection | leases that expire while their owner works; compare-and-set of owner and revision; missed points written in two transactions | a delivery is launched once; a settled row is final; a live lease is exclusive |
| Scheduled runtime (`src-tauri/src/scheduled_runtime.rs`, `scheduled_runtime/lease.rs`) | the coordinator task; registry of active occurrences with heartbeat guards; spawned finish and release tasks | deadlines, run now, resume after an answer, reconciliation, lifecycle events, restart | the coordinator, heartbeats, tasks and runs interleave without a common lock; events are lost at a restart; the machine sleeps | no row stays with nobody; every row is settled in the end; no overlap; success means done |
| Scheduled service (`scheduled_service.rs`) | the job definitions | create, update, enable, delete | an edit meets a run that is going on | an edit loses no run |
| Prompt queue (`src/acp/prompt_queue.rs`, callers in `commands.rs`) | a durable file of at most 10 prompts with a revision and a suspension flag; process-local owners of the prompts being dispatched | enqueue, reorder, take back, delete, claim, release, settle, recover, suspend | a 600 ms grace before an automatic dispatch, in which the user may act; a crash between claim and acceptance | a prompt is sent once, none is lost, a stop suspends automatic dispatch |
| Session turns (`src/acp/events.rs`) | the persisted header of a session: turn, status, lifecycle revision | admit, claim, finish, stop, reconcile orphans | late writers of an old turn; two admissions | one turn at a time; a terminal write is not undone |
| Permissions, elicitations (`src/acp/permission.rs`, `elicitation.rs`, `interaction.rs`; handlers in `client.rs`) | a request file, a response file and a timeline item for each question | ask, answer, poll, sweep at a stop, a close or the end of a prompt | a thread that polls, windows that answer and sweeps that cancel share files and no lock; JSON-RPC ids are used again | a question is answered with what the user chose for it, no card and no polling thread is left over |
| Connections (`src/acp/client.rs`, `connection.rs`, `control.rs`) | the pool of agent processes, the gate of creation, bindings of attempts, attached sessions, routes, counts of users and prompts | borrow, spawn, initialize, replace, evict, attach, prompt, drain, close | five tables under locks of their own; whoever takes an entry out acts on it later, when a prompt may have replaced it | nobody loses a connection for a reason that is another's; no process is left behind; nobody waits for ever |
| Orchestrator (`src/app/orchestrator.rs`, `node_executor.rs`, `mod.rs`, `state_access.rs`) | run, round, node and attempt files; continue leases | start, drive, repair, retry, check, transition, pause, continue, recover a result, stop | a stop or a continue races a thread that is inside its provider; every file is written by itself | one driver; a stopped run is not advanced by an old execution; a pause leaves a way on; loops are limited |
| AI-DYNAMIC (`src/dynamic.rs`, `dynamic_store.rs`, `orchestrator.rs`) | graph of leaves and groups; the registry of drivers and continue requests | plan, launch, complete, continue a leaf, stop a leaf or the run | a continue finds a driver, waits for one or becomes one, while drivers end, requests time out and late results arrive | a failed continue starts nothing; a stop stands; a running leaf has an agent; the driver ends |
| Runtime recovery (`src/app/runtime_recovery.rs`, `src-tauri/src/state.rs`) | candidates with tokens in SQLite and in a registry, phase of startup and shutdown | begin, commit, finish, abandon, consume, gate, exit | a crash between registration and start; stale tokens; the exit races a registration | every run left running is found and paused, no other one |
| Observability bus, notifications | subscribers | emit | lossy | none that safety depends on |
| Storage, process, git, DSL, configuration, analytics, profiles, skills, MCP, shell, UI | files, settings | I/O and data transformation | little concurrency of their own | data-level |

Interaction: the desktop shell calls commands; commands drive the prompt queue,
the session turns and the orchestrator; the scheduler's coordinator prepares and
launches runs through the same orchestrator and, to continue a session, through
the same admission as a prompt of the user. Runs publish lifecycle events on the
bus; the scheduler finishes its occurrences from those events, and from the
state of the runs when an event was lost.

## 2. Modules

| Module | Models |
|---|---|
| `ScheduledRuntime` | the occurrences of one job: the store's rows, the coordinator, leases and heartbeats, spawned tasks, runs and prompts, edits and restarts |
| `OccurrenceContract` | what the scheduler promises about each occurrence; `ScheduledRuntime` is shown to implement it |
| `ScheduledRuntimeProofs` | the inductive invariant and the safety theorems |
| `OccurrenceContractProofs` | the refinement theorem; what may leave a held row with nobody |
| `PromptQueue` | the prompt queue of one direct conversation, with the commands, the session header and the provider runtime that move its prompts |
| `RunLifecycle` | one run of a workflow: requests, drives, control decisions, stops, recovery candidates, exits and restarts |
| `MCRunLifecycle` | two workflows for it, and the view under which its safety is checked |
| `DynamicGraph` | one AI-DYNAMIC node: leaves, drivers, agents, explicit continues of leaves, stops, timeouts |
| `DynamicGraphProofs` | its two inductive invariants and four theorems |
| `PromptInteraction` | permission requests and forms of one attempt directory: runtime thread, answering commands, sweeps |
| `ConnectionPool` | the agent processes of one provider in one workspace and the prompts that borrow them |
| `MCConnectionPool` | two attempts of one session |
| `ConnectionPoolProofs`, `PromptInteractionProofs`, `RunLifecycleProofs` | the inductive invariants of the three modules and the theorems on every safety property their runs check |
| `PromptQueueProofs` | the inductive invariant of the queue: types and limit, nothing is lost, turns are carried |
| `PromptQueueOrderProofs` | above it, for queues whose prompts are not used by hand: dispatches are carried, sent prompts leave, nothing is sent twice, a stop holds |

The modules meet at narrow interfaces, and each shows the other side as it sees
it: `ScheduledRuntime` has a run that ends, pauses or asks (`RunLifecycle`
opens it up); `RunLifecycle` has a node whose turn ends in some way
(`DynamicGraph` is such a node, `PromptInteraction` and `ConnectionPool` such a
turn); `PromptQueue` has a provider that answers or does not. The operators
called *faulty variant* or *mutant* are plausible bugs used to test the
properties; nothing refers to them.

### ScheduledRuntime

One job, its occurrences `Occ` numbered in the order of their planned points.
The program counter `co.pc` of the coordinator stands at every point where
another task, a run or the user may act: between two transactions of the store,
and around the preparation and the launch of a run. One action is one
transaction or one call with its effects.

- `row`: the occurrence's row. The owner is the process' owner id, which is new
  at every start, so `epoch` (the number of restarts) stands for it. A lease is
  `live` or `expired`; `Holds` and `Owned` are the two WHERE clauses the store
  uses. `attempt` saturates one above `MaxRetries`, where all decisions agree.
- `job`: the task id of the definition and whether `retry_at` lies ahead. The
  revision compared by `update_job_runtime_projection` is kept by its holders:
  `fresh`, `stale`, or `none` when the code dropped it after a conflict.
- `exec`, `bound`, `taskOf`: the run or prompt launched for each occurrence. A
  run is named by the occurrence that created it. A session that is continued
  binds a later occurrence to an older run (`Continues`).
- `entry`, `guard`, `tasks`: the registry of active occurrences with the revision
  each entry carries, the heartbeat of each entry, and the tasks spawned to
  finish or release a row. A task owns the guard of the entry it took.
- `events`: what runs published and the subscriber has not yet seen; a restart
  loses them, and an event whose occurrence is not registered is dropped.

`Wake` to `Rearm` are `handle_deadline`; `Wake(TRUE)` is the registration of a
workspace, where nothing is reconciled. `Claim` to `Bind` are
`process_occurrence`, and `run_manual` where `co.how = "manual"` differs.
`ResumeClaim`, `ResumeBind` and `AnswerDirectly` are the two ways in which the
answer to a question reaches the run. `Heartbeat`, `TaskHeartbeat` and
`HeartbeatFault` are the guard's loop, with the renewal, the release of the row
and the look at why the release was refused as transactions of their own
(`GuardStep`). `LeaseLost` and `TaskLeaseLost` are the notice that follows later:
it detaches whatever is registered for the occurrence by then. A guard that is
stopped is waited for; one that is dropped without a stop (its entry detached)
is taken to be off at once, while in the code a transaction it has begun may still
end.

### What is left out of it

Other jobs and workspaces (the coordinator is serial, so another job only delays
this one); the heap of deadlines (the coordinator may wake at any time, which
includes a deadline registered under an older revision); deletion and disabling
of the job; graceful shutdown (a restart at any point includes it, except its
release of rows, which is a `ReleaseTask`); a content fingerprint that does not
match; database errors other than those of the heartbeat; what is inside a run.

### PromptQueue

One direct conversation whose run has completed, so that every turn is a
follow-up. A *flow* is one path of execution: a submission from the composer,
the use of a queued prompt, or an automatic dispatch, from its command through
the turn to the settlement. Flows run in `Slots`; `flow[s].pc` stands before
the next critical section, and one action is one critical section of the code:
the queue's lock, the header's lock, the registry's mutex, or a read of one of
them on which a later step depends.

- `queue`, `parked`: the queue file. An item has an id, the turn it will be sent
  in, its place `rank` and its state. The revision is only compared with the one
  a pending automatic dispatch has read, so `fresh`, kept by that dispatch and
  cleared by every `Persist`, stands for it. `Loaded` is what every load does to
  the file: a dispatch that nobody in this process has registered is dropped if
  its prompt is in the timeline, and queued again if not.
- `timeline`: the turns whose prompt was recorded, which is also the moment the
  prompt is sent. `header`: the session's latest turn, its live state and owner;
  `alive` says whether the process that began it is this one.
- `gate`, `active`, `control`: the process-local suspension, the registry of
  dispatches, and the provider control, held together with the prompt lock.
- `stop`: the stop command between its steps. `sent`, `owed` and `halted` are
  history for the properties.

`Submit` to `Admit` are `submit_conversation_prompt`; `Execute` to `Unlock` the
turn (`execute_admitted_acp_prompt`, `run_prompt_inner`); `Notify` to `Clear`
the settlements by the drain and by the task that sent the prompt, and the
drain's decision; `Fire` to `Release` the automatic dispatch after its 600 ms;
`Use` to `Track` the use of a queued prompt with the recovery of a turn that had
already been settled. `Published`, `Notified`, `Clear`, `Untrack` and `Track`
are actions of their own because the code releases the queue's lock before it
touches the registry. `Restart` empties what is process-local; it may fall
between any two steps.

The constant `Delays` says how long a thread may be held up. If it is FALSE, the
600 ms of a dispatch and the provider's turn outlast the local steps that are
going on (`Elapsed`); if TRUE, they outlast only the statement between the
release of the queue's lock and the update of the registry.

### What is left out of it

A run that is itself going on (prompts are then queued without a provider
control), workflows and nested attempts; errors of the file system; migration of
old queue files; the reply counter and the notifications; texts, attachments and
the composer's draft; deletion of the conversation; a second stop while one is
between its steps.

### RunLifecycle

One run of a fixed workflow. A *thread* is a request (start, continue, recovery
of a result, answer of a manual check, `run_retry`) from its command to the end
of the drive that follows. One action is a critical section of an attempt lock
or of the recovery registry, one file, or a callback.

- `run`, `node`: `run.json` and the `node.json` of the current attempt, each
  written by itself; `row`: the run's token in `runtime_recovery_candidates`.
- `recovery`: the phase of the recovery coordinator (or "down"), `active` the
  token in its registry, `blocked` a project that could not be recovered.
- `lease`: the continue lease of the run; `stop`: a stop between its steps, of
  the user, of the exit, or of the startup that finds a candidate.
- Tokens, attempts and executions are fresh in the code. Here an identity that
  nothing refers to any more may be used again, so that a run of any length has
  finitely many states.

The actions follow a request through registration (with its two looks at the
gate), claim, the node's turn with automatic retry and repair, the manual check,
and the control decision with its limits on attempts and rounds; next to them
stop, exit, crash and startup go on. `Environment` switches on requests and
failures some questions are about. Left out: a continue whose thread cannot be
spawned, the finalizing phase, the round's own status, revisions of the files,
several runs and projects, the limit of the candidate table, artifacts,
worktrees, hooks and prompts.

The first files of a run are written one by one, without the attempt lock
(`Prepare`, `PrepareRound`, `PrepareNode`; the snapshot of the workflow belongs to
the first). Until the second, the node's status is `none`; until the third, `absent`.
The process may end in between, and what startup makes of it is modelled: without
a round it writes the run paused, fails, and blocks the project (`StopFails`); with a
round it pauses a run that has no node. `Environment` restricts two things at these
steps: a stop or an exit of the same process that finds the run between its first files
is part of `racing-stop` (the node would be written running under a paused run), and an end
of the process between the two files of a stop, a failure or a check is `torn-stop`.

### DynamicGraph

One AI-DYNAMIC node. The plan is fixed: a bootstrap leaf, a group of `Width`
children, merge, acceptance. Thread 0 drives the graph from the start; thread
`r` serves the continue `r` and drives when nobody else does.

- `leaf`, `group`, `graph`: `graph.json`; an execution is named by the request
  that began it. `run` is the outer attempt with its execution.
- `coord`: the registry of the driver, of drivers that are starting, and of
  requests that wait (`pending`) or are in flight; `answer` is what a caller was
  told. `jobs` and `mail` are agents at work and results on their way.
- `late`, `sweeping`: the second halves of a timeout and of a stop of the run.
  `launched` and `overtaken` are history.

One action is a critical section of the graph lock, of the coordinator or of the
attempt lock. Left out: proposals and other plans, nested groups, workflow
invocations, worktrees, the reconciliation of a completion that was accepted
before the pause, continues of the outer node, automatic retries.

### PromptInteraction

The questions of one attempt directory. `request` and `response` are the two
files of a name, `item` its timeline item, `handler` the runtime thread,
`users` the commands that answer, `sweep` the sweeps of the control thread and
of the runtime thread. Each action reads or writes one of the files, which is
the granularity at which the parties meet. A permission request is named by the
JSON-RPC id the agent chose, which the next process may choose again; a form has
a fresh name. `sent`, `chosen`, `calm` are history. Payloads, the branch a
question belongs to and polling intervals are abstracted.

### ConnectionPool

One key of the pool: a provider in a workspace. `conn[g]` is the connection of
generation `g` with its state, its handshake, its settings and why it was
closed; `pool`, `gate`, `bound`, `attached`, `route` are the five shared tables
(`connections`, `creation_gate`, `attempt_sessions`, the registry of attached
sessions, `session_routes`), and `opened` the sessions each agent has open.

- `thread[a]` is the prompt of attempt `a` from `get_or_spawn_with_outcome`
  to the release or the shutdown of its runtime. Every action is one critical
  section, or one answer of the agent. `use` is the `AdapterConnectionUse` a
  prompt holds; `InUse` and `Counted` are the counters derived from it.
- `work[w]` are `evict_attached_session` and `detach_attached_session` for
  entries that have left the registry: by the attempt's own thread, which waits
  for them, or by the pruner.
- `pruner` is `prune`, which any attempt may call; it is one actor here, so that
  two prunings do not overlap. Any inactive session and any idle connection may
  be due: time is not modelled.
- `closer` is `close_provider_connections_bounded` or the close of a workspace.

Every attempt continues an existing session. Left out: `session/new`, frames
and their order, titles, usage and configuration transactions, the retries of a
prompt inside `run_prompt`, other keys, `close_attempt_session_bounded` (nothing
calls it). A process that has exited and a transport that is closed are one thing.
When a closer detaches a provider, its entries leave the registry and then lose
their routes one by one; `Close` does both in one step, since a route is removed only
by the generation that set it up.

## 3. Runs

Each property has in `PROJECT.json` a *mutant*: a plausible bug in the code it
models, within the same bounds, under which TLC finds the property violated.

| Run | Instance | What holds |
|---|---|---|
| `ScheduledWorkflow` | a planned and a manual occurrence of a workflow job whose runs share a task, retries, a restart, an edit | types, at most one launch, serial runs of a task, settled rows final, leases fenced |
| `ScheduledFaults` | one occurrence, a restart, two store faults or sleeps, a question, under fairness (140k states) | no orphan run; only the late notice of a lost lease leaves a held row with nobody; the contract of an occurrence; it is settled or asks the user in the end |
| `ScheduledProgress` | two occurrences of one session, a restart, a question, under fairness | every created occurrence is settled or asks the user |
| `QueueFaults` | three prompts, an edit, a stop, a restart, a failed turn; no use of a queued prompt, no long delays | sent at most once, none lost, sent ones leave the queue, live turns are carried by a flow, a stop holds automatic dispatch |
| `QueueUses` | two prompts, one used from the queue, an edit, a restart, a failed turn, any delays | live turns are carried by a flow |
| `QueueDrains` | four prompts against a limit of two, under fairness | types and limit, the queue is emptied again and again |
| `RunFaults` | two requests at a time, a node whose checked review sends it back, a repair, one end of the process, also between the first files, a startup that cannot read what it needs (1.2M states) | types, a running run is in the candidates, or has a thread; one driver; a paused run offers a way on, once its first files are written; an exit leaves nothing running; a stop is not undone by a superseded thread |
| `RunSettles` | one request at a time, a checked node that is retried and opens rounds, every limit at one, two ends of the process, stale recoveries, `run_retry`, torn stops, under fairness | a running run ends, asks or pauses |
| `Interactions` | a permission request and a form in either order, one stop, close or crash, second answers, a broken connection, under fairness | types; a card that shows a question has a file or a thread that settles it; undisturbed answers reach agent and timeline alike; an answered or stopped question releases its thread |
| `DynamicRuns` | two children at a time, two continues, one stop (of a leaf or the run), timeout, crash or error (3.8M states) | types, a failed continue starts no agent, a running leaf has an agent, a stop stands |
| `DynamicSettles` | one child at a time, two continues, one timeout, under fairness | a run that goes on is over or waits for the user in the end |
| `Connections` | two attempts of one session, two prompts, two processes, one pruning, death, refusal, cancellation, edit or close; slow drains and failed closes at will, under fairness | types and handshakes, connections end for reasons of their own, no process left behind, drains are complete, every prompt is served |

**Bounds.** Two occurrences are what it takes for one to find the task busy with the
other, and one suffices for everything about leases, since rows meet only in the
task and in the coordinator. Two restarts or faults give a row three owners, or a
recovery that is itself interrupted; more repeat these. `MaxRetries` is
`QUEUE_MAX_RETRIES`, 3 in the code and 1 or 2 here: what depends on it is a
comparison with a counter. `ScheduledFaults` has one restart and no edit, because
liveness is checked on the whole graph; its safety properties also hold, for one
occurrence, with two restarts and an edit.

For the queue, three prompts give one that is live, one that is being
dispatched and one that waits; a fourth meets the limit of two (10 in the code).
`Slots` must not be what keeps something from happening: four flows are one per
prompt and one armed dispatch, and `QueueDrains`, where nobody may wait for a
slot for ever, has five. One edit, stop, restart and failure each, at every
point, cover every pair of them.

`RunFaults`: two threads are a drive and the request that takes its attempt
over, or two requests; one repair and one return to an earlier node reach every
limit on both sides. The tokens and identities suffice for one to be free always.
`VIEW Seen` takes states for equal when they agree up to the names of identities
and threads: identities are only compared, a superseded one never becomes current
again, and the two threads are interchangeable; it is used with safety
properties only. Larger instances were run beside the project: with
everything in `Environment` but `racing-stop` and one automatic retry, `TypeOK`,
`OneDriver` and `PauseIsKept` hold (6.2M states); `RunSettles` holds with two
threads and no failures (850k).

`Interactions`: questions meet only in the thread that handles them one after the
other, so two suffice for a late answer to meet the next question. With two faults
everything holds as well (2.4M states), and so do the safety properties with two
names of each kind (25.7M).

`DynamicRuns`: two children and two slots let one leaf run while another is
stopped and continued; two continues are one that drives and one that joins it,
or one that is overtaken. `DynamicSettles` also holds with a stop of a leaf
(335k states), of the run (682k), and with two slots and no faults (108k).

`Connections`: two attempts of one session contend for everything that exists once.
The safety properties also hold with two disturbances (3.2M states), with
three connections and two disturbances (4.2M), and with three prompts (1.7M).
`MaxConnections` bounds the processes; the start of a third fails, as a start may.

**Fairness.** `ScheduledProgress`: weak fairness of the coordinator's steps, of the delivery
of events and of spawned tasks and heartbeats: they are tasks of the async
runtime and none waits for another of them. The coordinator's timer keeps firing
while an occurrence is open, and the next deadline reconciles, hence strong
fairness of `Wake(FALSE)`. A lease that nobody renews runs out. A run ends, a
prompt starts or is refused, and the user answers a question and finishes a
paused run in the end: without these no scheduler could settle anything. The user
is never obliged to edit, and nothing obliges a fault or a restart. The run has
no stalls: with store faults a release task that compares only the owner can
release a newer claim of the same process again and again (listed as a hazard).

`ScheduledFaults` has them, and adds `Steadiness`: a release task that is spawned runs before
the coordinator's next deadlines have come for ever, and a heartbeat, which beats several
times within a lease, decides before its lease has run out again and again. Both are
strong fairness of steps that take milliseconds against timers of seconds and
minutes; the code guarantees neither formally, but relies on both.

`QueueDrains` assumes weak fairness of each flow and of the stop's later steps:
they are threads and tasks that go on, a timer that fires, a prompt lock that is
released, and a provider that answers in the end. Without the assumption on
delays the property is false, and the code says so itself: an automatic dispatch
that finds a prompt active, or its revision out of date, is not armed again.

`RunSettles`: threads are scheduled, the provider answers or its prompt is
cancelled, a stop that was begun goes on, and the application is started again.
`Interactions`: the runtime thread, the commands and the sweeps go on; nobody has
to ask, answer or stop. `DynamicSettles`: threads, agents and the second halves of
stops and timeouts go on; nobody has to continue, stop or time out. `Connections`:
prompts, evictions, the pruner and the closer go on, the agent ends what it
was asked or the request times out; nobody has to prompt, prune, close or cancel.

**Deadlock** is not checked where the system may really stop: nothing is left that
the bounds allow. That nobody waits for ever is what the liveness properties say.

## 4. Proofs

TLAPS checks, for every set of occurrences, every mode, policy and bound:

- `Invariance`: `Spec => []Inv`, where `Inv` is the conjunction of
  `TypeOK`; `Target` (the coordinator names an occurrence while it works on
  one); `Planned` (what the coordinator has decided fits the row it works on);
  `RowInv` (owner and lease go with the status); `LaunchInv` (a launched
  occurrence has accepted links, and one with links is never about to be
  launched again); `ExecInv` (a run that goes on is linked or being accepted);
  `RetryInv` (the retries are bounded by the attempts, the attempts by the bound).
  None of the properties is inductive alone: that a claim cannot relaunch follows
  from what the coordinator does between the claim and the launch, so the
  invariant speaks of `co` as much as of `row`. `Inv` was checked by TLC in the
  three modes before it was proved.
- From it: `TypeCorrect`, `LaunchedAtMostOnce`, `NoRunIsOrphan`,
  `RetriesBounded`, `SettledIsFinal` and `LeasesAreFenced`.
- `Implements`: `OwnRuns => (Spec => ImplementsContract)`, the refinement, when
  each occurrence has a run of its own (every mode but `direct_continuous`, where
  `ScheduledSession` shows it false). Beyond `Inv` it needs `ReportInv`: whatever
  is about to be reported, by an event, a task or the coordinator, is
  what happened to a launched run; and `OwnRunInv`: a linked row is bound to the
  run it created. Each step of the rows is classified once (`Reports`), each step
  of the runs once (`WorkSteps`), and the two are combined.

- `SerialRuns`: `SerialPerTask`, in every mode. Beyond `Inv` it needs `TaskInv`, that
  whatever names a task names one whose links were accepted or that is being created, and
  `SerialInv`, that the answer of the check for a busy task stands until the launch. The
  check is not repeated: nothing starts in between because only the coordinator
  launches, and an answer resumes a run that was under way already.
- `RowsAreKept`: `OwnRuns => (Spec => AbandonedByLossOnly)`. Registry, heartbeat, spawned
  tasks and coordinator change without a common lock, and the notice of a lost lease is
  the only step that can leave a held row with nobody. That it can is a flaw of the code
  (section 5), so that no invariant says more. `RegistryInv` says that an entry whose
  heartbeat has ended is that of a settled row, and that a row which the coordinator has
  registered and still holds is attended by somebody else as well; `AskInv` that a run
  which goes on has at most one question to be written down, and none while its row is
  registered again. The latter rests on `ContractInv`: a second question needs
  the answer to the first. Without `OwnRuns` TLC refutes the property (section 5).

The assumptions are those on the constants only.

`DynamicGraphProofs` does the same for every width, number of slots, requests
and faults. Its invariant `Inv` is `Typed /\ Ledger /\ Delivery /\ Shape`: `Ledger`
says that requests are numbered as they come, that those in flight are
unanswered and that those launched were answered started or lost; `Delivery` that
a request is in one place, a worker, the pending queue or the mail of a driver;
`Shape` that leaves come into being with the status of the group that allows
them. There is one lemma for each action, named after it (`...Keeps`). From it:

- `TypeCorrect`: `TypeOK`.
- `RevokedNeverLaunched`: `FailedNeverRuns`. Launch and revocation both need the
  request in flight, and each takes it out.
- `StopHolds`: `StopStands`, action by action. A stop stands because a late result is
  compared with the leaf's execution, and only requests in flight are taken.
- `RunningLeavesHaveWorkers`: `StopsAreWhole => (Spec => []RunningLeafHasWorker)`. It needs
  `Watch`: a paused graph has no active leaf (`GraphRests`), nor has a run that does not
  go on, unless its sweep is to come or it was overtaken (`RunRests`), and the agent of a
  running leaf reports to a driver that still listens *and is current* (`Attended`). The
  last part is what makes it inductive: a driver is replaced while it waits, and
  several may be current together, but one that is not drops results.
  `StopsAreWhole` excludes a crash between the two halves of `run_pause` (at most one fault,
  as in the runs, or an environment without one of the two), after which the property
  fails (section 5).

`ConnectionPoolProofs`, in every environment and for every number of attempts, sessions,
connections, prompts and faults. `Inv` is `Typed` with `Born` (connections come one
after the other, nobody knows of a later one), `Gate` (one attempt replaces the connection
of the pool, which is empty meanwhile), `Places` (what a place in the code holds),
`Handshake` (one attempt asks a connection to initialize, only a failed one is evicted),
`Ended` (what the pruner chose or ended is not in the pool) and `Drained`. `RightlyEnded` is
not inductive without `Gate` and `Ended`: that an idle connection is not borrowed
follows from the order in which the pruner takes it out of the pool and looks at it. From it
`PoolTyped`, `ConnectionsRightlyEnded`, `NoProcessLeftBehind` and `DrainsAreComplete`.

`PromptInteractionProofs`: `InteractionTyped` in every environment, `PendingIsNeverLost` and
`CalmAgreement` when each question has a name of its own (`NamedOnce`). The code gives no
such guarantee, JSON-RPC ids start again with the agent's process, and section 5
shows what happens then; within one process of the agent they are distinct. `Inv` adds
to the types `Names` (whatever is written under a name belongs to its question),
`OnFile` (request, item and response are written and removed in an order that leaves no
open item alone), `Fresh`, and `Calm`, the chain from the choice of the user over the file
and the thread to the agent, as long as nothing interrupts.

`RunLifecycleProofs`, for every workflow, any number of requests at a time and every
limit: `RunTyped` in every environment; `ListedWhileRunning`, `DrivenWhileRunning`,
`DrivenByOneThread`, `PausedHasAWayOn`, `NothingRunsAtTheExit` and `PausesAreKept` when the
environment is `Ordinary`: requests, drives, stops, ends of the process (between the
first files of a run as well, but not between the two files of a stop, a failure or a
check) and startups that cannot read what they need. What `Ordinary` excludes are the
requests and failures of section 5 under which the code breaks one of these properties; the
environment of `RunFaults` is within it. `PausedIsOffered` itself names the two cases it
leaves out: a node that completed without success, and a run without its first files
after the end of a process. `Inv` says that a request in
progress has a candidate and a drive an execution (`Shapes`), which no other
has (`Distinct`); who holds the lease (`Leased`); that the first request is alone
(`First`) and one that has not claimed its run finds it not running (`Entered`); that the
thread which drives is the one whose candidate the run has (`Driver`); and from there
that running runs are listed, paused ones offered, and the phase of the coordinator fits
both; and that only the first request of a run that nobody else knows of is between its
first files, and only the end of a process leaves a run without them (`Prepared`). None of the properties is inductive without `Entered`: that a claim
does not meet a running run is what the lease and the registration are for.

`PromptQueueProofs`, for every number of slots and prompts, every limit, with uses by hand
and delays: `QueueTyped`, `NothingIsLost` and `TurnsAreCarried`. `Inv` says which item, turn
and message a flow has at its place (`Shapes`); that items are told apart, that a flow
has the message of its item, and that an item whose prompt is in the timeline was
sent (`Contents`); that the owner of the header is at its turn (`Owner`, `Headed`);
and that the identities still to be asked for stay within the bound (`Counted`), which counts
flows with the library's theorems on cardinality. An item is lost only if two
flows disagree about what it contains, hence `Contents`.

`PromptQueueOrderProofs`. `DispatchesAreCarried` when `Uses = 0`: then items keep their turns
(`Plain`), and delays make no difference. `SentLeavesTheQueue` and `NothingIsSentTwice` when
`Uses = 0` and `Delays = FALSE`, which are also the parameters of `QueueFaults`: section 5
has the counterexamples for each of the other cases. `OrderInv` says that no two flows
have the same turn (`Alone`); that an automatic dispatch about to claim finds no flow
with the turn of a queued item (`Ready`), since those that have one are done with it
(`Idle`); that an item being dispatched is tracked until its flow settles it (`Held`);
and that a message still to be sent is in one place and was not sent (`Unsent`). Most
steps are *quiet*, they give nobody a turn, a message or an item, and one lemma
(`QuietOrder`) carries the invariant over them all; what is left are the submission, the
enqueueing, the admission of a new turn, the acceptance and the claim. `StopsHold`:
`StopHolds` when `Uses = 0` and `Stops <= 1`, with delays or without, whatever is edited,
refused or restarted. Until the stop closes the gate, only the session's turn is under way
(`Foreseen`); from then on the gate stays closed until the user lifts it, and no turn
but the stopped one is past it, or the process was restarted, the gate forgotten, and
nothing can begin that the user has not begun (`Lasting`, `Cold`). The steps that are
not of the stop, a restart or the beginning of a turn are *ordinary*: nobody comes to a turn or
past a closed gate, and one lemma (`OrdinaryStep`) carries the invariant over them.

Each of these invariants was checked by TLC, as an invariant of the runs' instances and of
smaller ones in other environments, before it was proved.

Only model-checked: everything about liveness, which is out of the prover's reach. Every
safety property of the runs is stated by a theorem, under the hypotheses given here.

## 5. Where the code and the documents differ

These properties are stated in the modules and are not among the runs: the code violates
them. Documents are under `src/docs/sasuke/`, most of them in `产品设计文档/`.

`ScheduledRuntime`:

- `RetriesAsDocumented` (`runtime/scheduled-task.md:106`: three retries, then
  skipped). `decide_queue` is given `claimed.attempt`, which the claim has already
  counted: one retry is missing.
- `SucceededMeansDone` (`:156`: success means that the chain really ended) fails when a
  session is continued: reconciliation judges by the session's run, which an
  earlier prompt completed. In the other modes it follows from the contract.
- `NoConcurrentRuns` (`:108`). An edit of a workflow job's content forgets its task while
  a run goes on; the overlap check then finds nothing.
- `CompletedRunSettles` (`runtime/scheduled-task-runtime-implementation.md:49`). The answer
  precedes the task that writes `attention_required`; the event that ends the run
  is dropped and nothing revisits the row.

- `RowIsAttended` (`docs/superpowers/specs/2026-08-03-scheduled-task-parity-design.md:81`: "Renew
  the lease while the execution is active"). When the renewal of a lease fails, the
  heartbeat releases the row in a transaction (`lease.rs:366`) and detaches the
  registry entry later, when its blocking task has been awaited (`lease.rs:231`,
  `scheduled_runtime.rs:562`). In between the coordinator claims the row again and is refused
  a guard, because the entry is still there (`scheduled_runtime.rs:477`); the notice then
  removes it. The row is running, under a live lease of this process, with nobody to
  renew it, finish it or release it, although its run may go on; it is recovered
  when the lease has run out. TLC finds it in 17 steps, with one store fault and no
  restart. `AbandonedByLossOnly` says that this is the only way, and
  `EventuallySettled` in `ScheduledFaults` that the occurrence is settled in spite of it.
- `AbandonedByLossOnly` in `direct_continuous` with `Asks = 3` and one sleep. Two questions of one
  prompt are written down late. The recovery between them pauses the session's run, which an
  earlier prompt made, so that this prompt goes on; the second task then ends the
  heartbeat of the entry the recovery registered. The next resume is refused a guard by that
  entry and holds a row nobody renews, until the lease runs out and the row is recovered.

`PromptQueue`:

- `DispatchIsCarried` with `Uses = 1` (without uses it is a theorem) (`interaction/app/conversational-runtime.md:675`).
  Another prompt becomes live between the use of an item and its submission: the text is
  queued a second time and the item stays `dispatching`.
- `SubmissionResumes` (`:410`). When the queue was emptied in between, the next submission
  lifts the suspension in memory only; the one in the file stays.
- `AcceptedLeaves` with `Uses = 1` and a stop or a failure: a use that claims an
  item between a settlement's release of the lock and its update of the registry
  loses its registration, any load queues the item again although its turn is
  going on, and after a failure it may be sent a second time. Also with `Delays`
  and three prompts, because the second settlement of a turn may come after the
  item was claimed again.
- `StopHolds` with `Uses = 1` and `Stops = 1`: a recovered item has a turn without the
  prefix `turn-queued-`, by which the last look at the gate recognises automatic
  dispatches. Also with `Uses = 0` and `Stops = 2`: an automatic dispatch is past its last
  look at the gate when the turn before it is stopped; a second stop, of another turn,
  suspends the queue again, and the dispatch is accepted after it.
- `QueueDrains` with `Delays`, as explained above.

`RunLifecycle`:

- `RunningIsListed` with `racing-exit` (`commands.rs:2068`: a start appears in the snapshot
  or observes `ShuttingDown`; `runtime/core-state-and-recovery.md:69`). A continue has
  registered; the exit finds the run still paused and deletes the row; the continue
  claims the run afterwards. Also with `stale-recover` and `retry`, whose
  requests drop or replace a row that is in use.
- `RunningIsDriven` with `late-error` (`orchestrator.rs:1020`). An error after the first
  transition is attributed to the node the drive began with, taken for superseded
  and dropped: the run stays running with no thread.
- `PausedIsOffered` without its exception for runs that lack their first files.
  `prepare_run_from_workflow` writes `run.json` as
  running (`orchestrator.rs:1213`), then the snapshot, `round.json` (1240) and `node.json` (1256).
  When the process ends in between, the recovery at startup writes `run.json` as paused and
  fails on the missing round (`mod.rs:4354`): the project is blocked at this startup, and
  the run stays paused. With a round but no node the recovery succeeds. Either
  way neither continue nor a recovery of the result nor a check accepts the run, which has
  no node to read.
- `PausedIsOffered` with `torn-stop`: a crash between `run.json` and `node.json` of a
  stop, or of the pause after a failure, leaves a run that none of the three ways on accepts.
- `PauseIsKept` with `racing-stop`: between a check and its transition nothing compares
  an execution, and a stop that falls there is overwritten. Also `PausedIsOffered`: a stop
  or an exit that finds a run between its first files pauses it, and the preparation then
  writes a running node under it.
- `PausedIsResumable`: a node that completed without success can neither be continued,
  nor recovered, nor checked.

`DynamicGraph`:

- `LeafIsAttended` (`runtime/control.md:63`: no active state without a thread). A driver
  unregisters before its pause of the run is written (`orchestrator.rs:15827`). A
  continue in between finds the run running and no driver, launches the agent under the
  same outer execution, and the late pause makes it drop the agent's result: the leaf
  stays running on disk and cannot be continued. No fault is needed. With three
  continues and a timeout, `TimeoutPause` does the same to another leaf.
- Seen in passing: a continue that waits behind one in `QueuedStarting`, which is then
  stopped, has no driver and waits for its 60 s timeout (`control.md:65` wants
  `runtime.continue-driver-ended` at once); explicit continues and the creation of merge
  and acceptance exceed `maxParallel` (`dsl/nodes/ai-dynamic.md:43`); after a crash between the
  two halves of a stop of the run (`MaxFaults = 2`) leaves stay running on disk, since the
  recovery pauses running runs only, and `LeafIsAttended` and `RunningLeafHasWorker` fail.

`PromptInteraction`:

- `CloseReleases` with `close` (`conversational-runtime.md:467`, `:452`). A sweep passes over
  a request whose timeline event is not yet written, and a close does not cancel the
  prompt: the thread then polls for ever.
- `DecisionStands` with `stop` (`:453`): a stop overwrites a choice that was not yet sent, and
  the other way round.
- `AcceptIsChosen` and `PendingIsOwned` with `reuse` (`开发计划/acp接入/acp-ui.md:250`): an answer
  to a question of a dead process meets the next one of the same JSON-RPC id.

`ConnectionPool` (`开发计划/acp接入/ACP会话长连接与历史同步技术方案.md`):

- `SessionIsKept`. An idle entry leaves the registry; before `evict_attached_session`
  sends `session/close`, an attempt of the same session restores it on the same connection
  and prompts; the close ends the session under the prompt.
- `RouteIsKept` (`:939`: routes are cleaned up by generation). Two attempts that set up the
  same session replace each other's route, and the one that finds the other active
  takes its own, the current one, away; the answer to a `session/close` removes the
  route of the session whichever it is by then.
- `PromptIsBound`. `close_connection_bounded` looks at the bindings after it gave up the pool
  and removes them by the attempt's name: also that of a prompt that has moved to the
  next connection, which a later close then does not wait for.
- `SessionIsExclusive` (`:193`). The check for an active owner sees registered sessions and
  counted prompts; two attempts that are still setting up see neither, and both prompt.
  In the same window `detach_aliases_for_attachment` detaches an entry that became
  active after the check, so that `DrainIsComplete` speaks of the attempts that are
  bound when the drain begins.

## 6. Not modelled

The scheduler's calendar arithmetic (a pure computation), timelines, history, branches and
usage (append-only projections), the workflow DSL and model bindings (validation of
documents), storage helpers (assumed atomic where the code makes them so), the bus and
notifications, processes and git, analytics, configuration, profiles, skills, MCP and
providers, the shell, view models and user interfaces: I/O, presentation or data
transformation with little order to get wrong. `PROJECT.json` gives the reason for each
component; what each module leaves out is in section 2. Most of the source lines are of
this kind, so that the map covers a small share of them.

## 7. Plan

1. Proofs of `PausesAreKept` and `DrivenByOneThread` in the larger environments in which TLC
   finds them to hold.
2. `SessionTurn`: revisions, closing and orchestrated turns of a session header beyond what
   `PromptQueue` needs.
3. Schedules as functions over a bounded calendar.
