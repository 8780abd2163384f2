-------------------------- MODULE ScheduledRuntime --------------------------
(***************************************************************************)
(* The occurrences of one scheduled job: the rows of the scheduler's       *)
(* SQLite store (src/scheduler/db.rs), the single coordinator task that    *)
(* claims and launches them, the heartbeat guard that keeps the lease of a *)
(* claimed row, the tasks spawned by lifecycle events that finish it, and  *)
(* the runs and prompts launched for it (src-tauri/src/scheduled_runtime). *)
(*                                                                         *)
(* The application is a single instance, so there is one coordinator; its  *)
(* owner id is new at every start, and is modelled by `epoch'.             *)
(*                                                                         *)
(* Time is abstract.  A lease is "live" until Expire makes it "expired";   *)
(* retry_at in the future is job.retry = TRUE until RetryElapses.          *)
(* The revision compared by update_job_runtime_projection is abstract too: *)
(* whoever holds a revision holds "fresh" (the row still has it), "stale"  *)
(* (somebody wrote the row since) or "none" (expected_revision is None).   *)
(***************************************************************************)
EXTENDS Naturals

CONSTANTS
  Occ,        \* the occurrences, numbered in the order of scheduled_at
  Manual,     \* those created by run-now; the others are planned points
  None,       \* the absent occurrence, task or run
  Mode,       \* "workflow" (also auto), "direct_new" or "direct_continuous"
  Policy,     \* the overlap policy: "skip" or "retry"
  MaxRetries, \* QUEUE_MAX_RETRIES
  Crashes, Stalls, Edits, \* bounds: restarts, faults, edits by the user,
  Asks                    \* and questions asked or pauses made during the runs

ASSUME OccAssumption == Occ \subseteq Nat /\ None \notin Occ
ASSUME ManualAssumption == Manual \subseteq Occ
ASSUME ModeAssumption == Mode \in {"workflow", "direct_new", "direct_continuous"}
ASSUME PolicyAssumption == Policy \in {"skip", "retry"}
ASSUME BoundAssumption ==
  {MaxRetries, Crashes, Stalls, Edits, Asks} \subseteq Nat

VARIABLES
  \* the SQLite store
  job,       \* task: the task id of the definition; retry: retry_at > now
  row,       \* each occurrence's row; status "future" before it is created
  \* what runs on behalf of the occurrences
  exec,      \* the execution launched for each occurrence
  bound,     \* the run each execution is bound to, named by its creator
  taskOf,    \* the task of that run, named by its creator
  events,    \* terminal events persisted by a run and not yet published
  \* the process
  epoch,     \* the owner id of this process
  co,        \* the coordinator's program counter and local variables
  entry,     \* the active registry: expected_revision, or "absent"
  guard,     \* the heartbeat guard held by the registry entry
  tasks,     \* spawned finish and release tasks
  \* bounds and history
  budget, launches, retries

vars == <<job, row, exec, bound, taskOf, events, epoch, co, entry, guard,
          tasks, budget, launches, retries>>
store == <<job, row>>
runs == <<exec, bound, taskOf, events>>
process == <<epoch, co, entry, guard, tasks>>
history == <<launches, retries>>

-----------------------------------------------------------------------------
Terminal == {"succeeded", "failed", "skipped", "missed", "attention"}
Status == {"future", "pending", "running", "retrying"} \cup Terminal
Runnable == {"pending", "retrying"}
Exec == {"none", "prepared", "spawned", "active", "waiting", "paused",
         "ok", "failed", "lost"}
Revision == {"fresh", "stale", "none"}
\* a guard that does not renew is about to release, to look why it could not,
\* or to tell the registry
GuardState == {"off", "renew", "release", "inspect", "lost"}
PC == {"idle", "wake", "settle", "missed", "claim", "guard", "recover", "busy",
       "finish", "prepare", "accept", "launch", "bind", "fail", "resume"}
Row == [status : Status, owner : Nat \cup {None}, lease : {"none", "live", "expired"},
        attempt : 0 .. MaxRetries + 1, linked : BOOLEAN]
Local == [pc : PC, how : {"scheduled", "manual", "resume"}, occ : Occ \cup {None},
          task : Occ \cup {None}, rev : Revision,
          next : Terminal \cup {"retrying"}, todo : SUBSET Occ]
Event == [occ : Occ, status : Terminal]
Task == [occ : Occ, do : Terminal \cup {"release"}, rev : Revision,
         guard : GuardState]

\* the coordinator between two deadlines
Idle == [pc |-> "idle", how |-> "scheduled", occ |-> None, task |-> None,
         rev |-> "none", next |-> "failed", todo |-> {}]

TypeOK ==
  /\ job \in [task : Occ \cup {None}, retry : BOOLEAN]
  /\ row \in [Occ -> Row]
  /\ exec \in [Occ -> Exec]
  /\ bound \in [Occ -> Occ \cup {None}]
  /\ taskOf \in [Occ -> Occ \cup {None}]
  /\ events \subseteq Event
  /\ epoch \in Nat
  /\ co \in Local
  /\ entry \in [Occ -> Revision \cup {"absent"}]
  /\ guard \in [Occ -> GuardState]
  /\ tasks \subseteq Task
  /\ budget \in [crashes : Nat, stalls : Nat, edits : Nat, asks : Nat]
  /\ launches \in [Occ -> Nat]
  /\ retries \in [Occ -> Nat]

Init ==
  /\ job = [task |-> None, retry |-> FALSE]
  /\ row = [o \in Occ |-> [status |-> "future", owner |-> None,
                           lease |-> "none", attempt |-> 0, linked |-> FALSE]]
  /\ exec = [o \in Occ |-> "none"]
  /\ bound = [o \in Occ |-> None]
  /\ taskOf = [o \in Occ |-> None]
  /\ events = {}
  /\ epoch = 0
  /\ co = Idle
  /\ entry = [o \in Occ |-> "absent"]
  /\ guard = [o \in Occ |-> "off"]
  /\ tasks = {}
  /\ budget = [crashes |-> Crashes, stalls |-> Stalls, edits |-> Edits, asks |-> Asks]
  /\ launches = [o \in Occ |-> 0]
  /\ retries = [o \in Occ |-> 0]

-----------------------------------------------------------------------------
(* Rows: the WHERE clauses and SET lists of the store's transactions.      *)

\* (faulty variant) the owner is not compared
OwnedByAnyone(o) == row[o].status = "running"

Owned(o) == row[o].status = "running" /\ row[o].owner = epoch

\* finish_occurrence, renew_lease and accept_occurrence_links also demand the lease
Holds(o) == Owned(o) /\ row[o].lease = "live"

Claimable(o) ==
  \/ row[o].status \in Runnable
  \/ row[o].status = "running" /\ row[o].lease = "expired"

Saturated(n) == IF n > MaxRetries THEN n ELSE n + 1

\* (faulty variant) the claim forgets the links accepted by an earlier owner
ClaimedRowForgetsLinks(r) ==
  [r EXCEPT !.status = "running", !.owner = epoch, !.lease = "live",
            !.attempt = Saturated(r.attempt), !.linked = FALSE]

ClaimedRow(r) ==
  [r EXCEPT !.status = "running", !.owner = epoch, !.lease = "live",
            !.attempt = Saturated(r.attempt)]

ClosedRow(r, status) ==
  [r EXCEPT !.status = status, !.owner = None, !.lease = "none"]

\* (faulty variant) the recovery looks at the lease only
RecoverLeaseless ==
  [o \in Occ |-> IF row[o].status # "future" /\ row[o].lease # "live"
                 THEN ClosedRow(row[o], "retrying") ELSE row[o]]

\* (faulty variant) rows left by a dead owner are not recovered
RecoverNothing == row

RecoverExpired ==
  [o \in Occ |-> IF row[o].status = "running" /\ row[o].lease = "expired"
                 THEN ClosedRow(row[o], "retrying") ELSE row[o]]

-----------------------------------------------------------------------------
(* The job row.  A write bumps its revision: every other holder is stale.  *)

Staled(rev) == IF rev = "fresh" THEN "stale" ELSE rev
StaledEntries == [o \in Occ |-> Staled(entry[o])]
StaledTasks(ts) == {[t EXCEPT !.rev = Staled(t.rev)] : t \in ts}

\* persist_active_projection, on behalf of the coordinator
PersistProjection(task, retry) ==
  IF co.rev = "fresh"
  THEN /\ job' = [task |-> task, retry |-> retry]
       /\ entry' = [StaledEntries EXCEPT ![co.occ] =
                       IF entry[co.occ] = "absent" THEN "absent" ELSE "fresh"]
       /\ tasks' = StaledTasks(tasks)
  ELSE /\ entry' = [entry EXCEPT ![co.occ] = IF @ = "absent" THEN @ ELSE "none"]
       /\ UNCHANGED <<job, tasks>>

RevAfterPersist == IF co.rev = "fresh" THEN "fresh" ELSE "none"

\* apply_terminal_occurrence_side_effects: the finished row's task id is
\* written back under the revision its metadata carries
TerminalProjection(o, rev, ts) ==
  IF rev = "fresh"
  THEN /\ job' = [job EXCEPT !.task = IF row[o].linked THEN taskOf[o] ELSE @]
       /\ entry' = StaledEntries
       /\ tasks' = StaledTasks(ts)
  ELSE /\ tasks' = ts
       /\ UNCHANGED <<job, entry>>

-----------------------------------------------------------------------------
(* Runs.  A run is named by the occurrence that created it; a continued    *)
(* session binds a later occurrence to an existing run.                    *)

Continues(o) == bound[o] # o
LiveRun == {"prepared", "active", "waiting", "paused"}

PromptActive(r) ==
  \E o \in Occ : bound[o] = r /\ Continues(o) /\ exec[o] \in {"active", "waiting"}

RunLive(r) == exec[r] \in LiveRun \/ PromptActive(r)

RunsOf(t) == {r \in Occ : bound[r] = r /\ taskOf[r] = t}

\* (faulty variant) only the prompts of the task are looked at
TaskBusyWithPrompts(t) == t # None /\ \E r \in RunsOf(t) : PromptActive(r)

\* active_execution_for_task(...).is_active()
TaskBusy(t) == t # None /\ \E r \in RunsOf(t) : RunLive(r)

\* (faulty variant) the status of the run is taken for the occurrence's
RunStatusAsOutcome(r) == exec[r]

OutcomeOfRun(r) == IF exec[r] = "ok" THEN "succeeded" ELSE "failed"

\* scheduled_execution_action: a new run of the job's task, a prompt to the
\* session of its task, or else a new task with its first run
StartsNewRun == Mode = "workflow" /\ co.task # None
ContinuesSession == Mode = "direct_continuous" /\ RunsOf(co.task) # {}

-----------------------------------------------------------------------------
(* The coordinator: handle_deadline.                                       *)

Goto(pc) == co' = [co EXCEPT !.pc = pc]

\* a deadline fires (or the workspace is registered, at start and after a
\* sleep: nothing is reconciled then): expired leases are recovered, then the
\* job is loaded
Wake(registering) ==
  /\ co.pc = "idle"
  /\ \E o \in Occ : row[o].status \notin Terminal
  /\ row' = RecoverExpired
  /\ co' = [Idle EXCEPT !.pc = "wake", !.task = job.task, !.rev = "fresh",
            !.todo = {o \in Occ : ~registering /\ row'[o].status = "running"
                                  /\ row'[o].linked}]
  /\ UNCHANGED <<job, runs, epoch, entry, guard, tasks, budget, history>>

\* reconcile_running_occurrences: a run still active is left alone ...
KeepRunning(o) ==
  /\ co.pc = "wake" /\ o \in co.todo
  /\ RunLive(bound[o])
  /\ co' = [co EXCEPT !.todo = @ \ {o}]
  /\ UNCHANGED <<store, runs, epoch, entry, guard, tasks, budget, history>>

\* ... one that is not is given its outcome, after its guard has stopped
Reconcile(o) ==
  /\ co.pc = "wake" /\ o \in co.todo
  /\ ~RunLive(bound[o])
  /\ co' = [co EXCEPT !.pc = "settle", !.occ = o, !.todo = @ \ {o},
                      !.next = OutcomeOfRun(bound[o])]
  /\ entry' = [entry EXCEPT ![o] = "absent"]
  /\ guard' = [guard EXCEPT ![o] = "off"]
  /\ UNCHANGED <<store, runs, epoch, tasks, budget, history>>

\* the job record the coordinator holds is not reloaded after the projection
Settle ==
  /\ co.pc = "settle"
  /\ IF Holds(co.occ)
     THEN /\ row' = [row EXCEPT ![co.occ] = ClosedRow(@, co.next)]
          /\ TerminalProjection(co.occ, co.rev, tasks)
     ELSE UNCHANGED <<row, job, entry, tasks>>
  /\ co' = [co EXCEPT !.pc = "wake", !.occ = None,
                      !.rev = IF Holds(co.occ) THEN Staled(@) ELSE @]
  /\ UNCHANGED <<runs, epoch, guard, budget, history>>

Candidates == {o \in Occ : row[o].status \in Runnable}
Due == {o \in Occ \ Manual : row[o].status = "future"}
Oldest(o, S) == o \in S /\ \A p \in S : o <= p

\* oldest_runnable_occurrence comes before any new planned point
Pick(o) ==
  /\ co.pc = "wake" /\ co.todo = {} /\ Oldest(o, Candidates) /\ ~job.retry
  /\ co' = [co EXCEPT !.pc = "claim", !.occ = o]
  /\ UNCHANGED <<store, runs, epoch, entry, guard, tasks, budget, history>>

\* materialize_due_occurrence, under the revision that was registered
Materialize(o) ==
  /\ co.pc = "wake" /\ co.todo = {} /\ Candidates = {} /\ Oldest(o, Due)
  /\ co.rev = "fresh"
  /\ row' = [row EXCEPT ![o].status = "pending"]
  /\ co' = [co EXCEPT !.pc = "claim", !.occ = o]
  /\ entry' = StaledEntries
  /\ tasks' = StaledTasks(tasks)
  /\ UNCHANGED <<job, runs, epoch, guard, budget, history>>

\* reconcile_missed_deadlines: a point that is too late is materialized ...
MaterializeMissed(o) ==
  /\ co.pc = "wake" /\ co.todo = {} /\ Candidates = {} /\ Oldest(o, Due)
  /\ row' = [row EXCEPT ![o].status = "pending"]
  /\ co' = [co EXCEPT !.pc = "missed", !.occ = o, !.rev = "fresh"]
  /\ entry' = StaledEntries
  /\ tasks' = StaledTasks(tasks)
  /\ UNCHANGED <<job, runs, epoch, guard, budget, history>>

\* ... and marked, unless it was claimed: the mark is a second transaction.
\* Its projection writes back the task of the record just read
MarkMissed ==
  /\ co.pc = "missed"
  /\ row' = [row EXCEPT ![co.occ] =
                IF @.status = "pending" THEN [@ EXCEPT !.status = "missed"] ELSE @]
  /\ IF co.rev = "fresh"
     THEN entry' = StaledEntries /\ tasks' = StaledTasks(tasks)
     ELSE UNCHANGED <<entry, tasks>>
  /\ co' = [co EXCEPT !.pc = "wake", !.occ = None, !.rev = "stale"]
  /\ UNCHANGED <<job, runs, epoch, guard, budget, history>>

\* nothing to do, retry_at ahead, or a stale deadline: it is registered again
Rearm ==
  /\ co.pc = "wake" /\ co.todo = {}
  /\ \/ Candidates # {} /\ job.retry
     \/ Candidates = {} /\ (Due = {} \/ co.rev # "fresh")
  /\ co' = Idle
  /\ UNCHANGED <<store, runs, epoch, entry, guard, tasks, budget, history>>

\* run_now: the manual occurrence is created, then processed
RunNow(o) ==
  /\ co.pc = "idle" /\ o \in Manual /\ row[o].status = "future"
  /\ row' = [row EXCEPT ![o].status = "pending"]
  /\ co' = [Idle EXCEPT !.pc = "claim", !.how = "manual", !.occ = o,
                        !.task = job.task, !.rev = "fresh"]
  /\ UNCHANGED <<job, runs, epoch, entry, guard, tasks, budget, history>>

-----------------------------------------------------------------------------
(* The coordinator: process_occurrence and run_manual.                     *)

Claim ==
  /\ co.pc = "claim"
  /\ IF Claimable(co.occ)
     THEN row' = [row EXCEPT ![co.occ] = ClaimedRow(@)] /\ Goto("guard")
     ELSE UNCHANGED row /\ co' = Idle
  /\ UNCHANGED <<job, runs, epoch, entry, guard, tasks, budget, history>>

\* ClaimToHandoffGuard::new: refused when the occurrence is registered, and
\* the row just claimed is then left as it is
InstallGuard ==
  /\ co.pc = "guard"
  /\ IF entry[co.occ] = "absent"
     THEN /\ entry' = [entry EXCEPT ![co.occ] = co.rev]
          /\ guard' = [guard EXCEPT ![co.occ] = "renew"]
          /\ Goto(CASE co.how = "resume" -> "resume"
                    [] co.how = "scheduled" /\ row[co.occ].linked -> "recover"
                    [] OTHER -> "busy")
     ELSE UNCHANGED <<entry, guard>> /\ co' = Idle
  /\ UNCHANGED <<store, runs, epoch, tasks, budget, history>>

\* handoff.stop(): the registry entry is taken and its guard stopped
StopGuard(o) ==
  /\ entry' = [entry EXCEPT ![o] = "absent"]
  /\ guard' = [guard EXCEPT ![o] = "off"]

\* recovery_outcome_for_accepted_occurrence: never launched again; a run
\* that is still running is paused
Recover ==
  /\ co.pc = "recover"
  /\ LET r == bound[co.occ] IN
     /\ co' = [co EXCEPT !.pc = "finish", !.next = OutcomeOfRun(r),
                         !.task = taskOf[co.occ]]
     /\ exec' = IF exec[r] \in {"prepared", "active", "waiting"}
                THEN [exec EXCEPT ![r] = "paused"] ELSE exec
  /\ StopGuard(co.occ)
  /\ UNCHANGED <<store, bound, taskOf, events, epoch, tasks, budget, history>>

\* decide_queue is passed the claimed row's attempt as the retry count
DecideQueue(attempt) ==
  IF Policy = "retry" /\ attempt < MaxRetries THEN "retrying" ELSE "skipped"

Busy ==
  /\ co.pc = "busy" /\ TaskBusy(co.task)
  /\ LET next == DecideQueue(row[co.occ].attempt) IN
     /\ co' = [co EXCEPT !.pc = "finish", !.next = next]
     /\ retries' = [retries EXCEPT ![co.occ] =
                      IF next = "retrying" THEN @ + 1 ELSE @]
  /\ StopGuard(co.occ)
  /\ UNCHANGED <<store, runs, epoch, tasks, budget, launches>>

\* a planned occurrence is projected as running before its execution starts
Start ==
  /\ co.pc = "busy" /\ ~TaskBusy(co.task)
  /\ IF co.how = "manual"
     THEN Goto("prepare") /\ UNCHANGED <<job, entry, tasks>>
     ELSE /\ PersistProjection(co.task, FALSE)
          /\ co' = [co EXCEPT !.pc = "prepare", !.rev = RevAfterPersist]
  /\ UNCHANGED <<row, runs, epoch, guard, budget, history>>

\* the drop of an armed ClaimToHandoffGuard releases the row in a spawned task
SpawnRelease ==
  tasks' = tasks \cup {[occ |-> co.occ, do |-> "release", rev |-> "none",
                        guard |-> "off"]}

\* a recovered, delayed or skipped occurrence is finished and projected
Finish ==
  /\ co.pc = "finish"
  /\ IF Holds(co.occ)
     THEN /\ row' = [row EXCEPT ![co.occ] = ClosedRow(@, co.next)]
          /\ IF co.how = "manual" /\ co.next = "skipped"
             THEN UNCHANGED <<job, entry, tasks>>
             ELSE PersistProjection(co.task, co.next = "retrying")
     ELSE SpawnRelease /\ UNCHANGED <<row, job, entry>>
  /\ co' = Idle
  /\ UNCHANGED <<runs, epoch, guard, budget, history>>

\* execute_definition, up to the acceptance of its links: a run is prepared ...
PrepareRun ==
  /\ co.pc = "prepare" /\ ~ContinuesSession
  /\ bound' = [bound EXCEPT ![co.occ] = co.occ]
  /\ taskOf' = [taskOf EXCEPT ![co.occ] =
                  IF StartsNewRun THEN co.task ELSE co.occ]
  /\ exec' = [exec EXCEPT ![co.occ] = "prepared"]
  /\ Goto("accept")
  /\ UNCHANGED <<store, events, epoch, entry, guard, tasks, budget, history>>

\* ... or the latest run of the task is the session to continue
PreparePrompt(r) ==
  /\ co.pc = "prepare" /\ ContinuesSession
  /\ r \in RunsOf(co.task) /\ \A q \in RunsOf(co.task) : q <= r
  /\ bound' = [bound EXCEPT ![co.occ] = r]
  /\ taskOf' = [taskOf EXCEPT ![co.occ] = co.task]
  /\ Goto("accept")
  /\ UNCHANGED <<store, exec, events, epoch, entry, guard, tasks, budget, history>>

PrepareFails ==
  /\ co.pc = "prepare" /\ budget.stalls > 0
  /\ budget' = [budget EXCEPT !.stalls = @ - 1]
  /\ StopGuard(co.occ)
  /\ Goto("fail")
  /\ UNCHANGED <<store, runs, epoch, tasks, history>>

\* accept_occurrence_links, before the launch
Accept ==
  /\ co.pc = "accept" /\ Holds(co.occ)
  /\ row' = [row EXCEPT ![co.occ].linked = TRUE]
  /\ Goto("launch")
  /\ UNCHANGED <<job, runs, epoch, entry, guard, tasks, budget, history>>

\* (faulty variant) the prepared run is kept
AcceptFailsKeepingRun ==
  /\ co.pc = "accept" /\ ~Holds(co.occ)
  /\ StopGuard(co.occ)
  /\ Goto("fail")
  /\ UNCHANGED <<store, runs, epoch, tasks, budget, history>>

\* the prepared run is dropped with its directory
AcceptFails ==
  /\ co.pc = "accept" /\ ~Holds(co.occ)
  /\ exec' = [exec EXCEPT ![co.occ] = "none"]
  /\ bound' = [bound EXCEPT ![co.occ] = None]
  /\ taskOf' = [taskOf EXCEPT ![co.occ] = None]
  /\ StopGuard(co.occ)
  /\ Goto("fail")
  /\ UNCHANGED <<store, events, epoch, tasks, budget, history>>

Launch ==
  /\ co.pc = "launch"
  /\ exec' = [exec EXCEPT ![co.occ] =
                IF Continues(co.occ) THEN "spawned"
                ELSE IF @ = "prepared" THEN "active" ELSE @]
  /\ launches' = [launches EXCEPT ![co.occ] = @ + 1]
  /\ co' = [co EXCEPT !.pc = "bind", !.task = taskOf[co.occ]]
  /\ UNCHANGED <<store, bound, taskOf, events, epoch, entry, guard, tasks,
                 budget, retries>>

\* the thread cannot be spawned; the accepted run keeps its state file
LaunchFails ==
  /\ co.pc = "launch" /\ budget.stalls > 0
  /\ budget' = [budget EXCEPT !.stalls = @ - 1]
  /\ StopGuard(co.occ)
  /\ Goto("fail")
  /\ UNCHANGED <<store, runs, epoch, tasks, history>>

\* handoff(), then the projection that records the new task id
Bind ==
  /\ co.pc = "bind"
  /\ PersistProjection(co.task, job.retry)
  /\ co' = Idle
  /\ UNCHANGED <<row, runs, epoch, guard, budget, history>>

\* finish_execution_failure
FinishFailure ==
  /\ co.pc = "fail"
  /\ IF Holds(co.occ)
     THEN row' = [row EXCEPT ![co.occ] = ClosedRow(@, "failed")] /\ UNCHANGED tasks
     ELSE SpawnRelease /\ UNCHANGED row
  /\ co' = Idle
  /\ UNCHANGED <<job, runs, epoch, entry, guard, budget, history>>

-----------------------------------------------------------------------------
(* Answering a question asked by a run: respond_elicitation.               *)

\* resume_attention_occurrence, run by the coordinator before the response
ResumeClaim(o) ==
  /\ co.pc = "idle" /\ exec[o] = "waiting" /\ row[o].status = "attention"
  /\ row' = [row EXCEPT ![o] = ClaimedRow(@)]
  /\ co' = [Idle EXCEPT !.pc = "guard", !.how = "resume", !.occ = o,
                        !.task = job.task, !.rev = "fresh"]
  /\ UNCHANGED <<job, runs, epoch, entry, guard, tasks, budget, history>>

\* the projection, the handoff, and only then the response
ResumeBind ==
  /\ co.pc = "resume"
  /\ PersistProjection(co.task, FALSE)
  /\ exec' = [exec EXCEPT ![co.occ] = IF @ = "waiting" THEN "active" ELSE @]
  /\ co' = Idle
  /\ UNCHANGED <<row, bound, taskOf, events, epoch, guard, budget, history>>

\* scheduled_attention_requires_coordinator is FALSE: the response is written
AnswerDirectly(o) ==
  /\ exec[o] = "waiting" /\ row[o].status # "attention"
  /\ exec' = [exec EXCEPT ![o] = "active"]
  /\ UNCHANGED <<store, bound, taskOf, events, process, budget, history>>

-----------------------------------------------------------------------------
(* Runs and prompts, and the events they publish.                          *)

\* it completes, or (a run, not a prompt) is blocked by an error: paused
RunEnds(o, as) ==
  /\ exec[o] = "active"
  /\ as = "paused" => ~Continues(o)
  /\ exec' = [exec EXCEPT ![o] = as]
  /\ events' = events \cup
       {[occ |-> o, status |-> IF as = "ok" THEN "succeeded" ELSE "failed"]}
  /\ UNCHANGED <<store, bound, taskOf, process, budget, history>>

RunAsksUser(o) ==
  /\ exec[o] = "active" /\ budget.asks > 0
  /\ budget' = [budget EXCEPT !.asks = @ - 1]
  /\ exec' = [exec EXCEPT ![o] = "waiting"]
  /\ events' = events \cup {[occ |-> o, status |-> "attention"]}
  /\ UNCHANGED <<store, bound, taskOf, process, history>>

\* a permission request fails the occurrence while its run goes on
RunAsksPermission(o) ==
  /\ exec[o] = "active" /\ budget.asks > 0
  /\ budget' = [budget EXCEPT !.asks = @ - 1]
  /\ events' = events \cup {[occ |-> o, status |-> "failed"]}
  /\ UNCHANGED <<store, exec, bound, taskOf, process, history>>

\* the thread of a continued session admits its prompt, or is refused
PromptStarts(o) ==
  /\ exec[o] = "spawned" /\ ~PromptActive(bound[o])
  /\ exec' = [exec EXCEPT ![o] = "active"]
  /\ UNCHANGED <<store, bound, taskOf, events, process, budget, history>>

PromptRefused(o) ==
  /\ exec[o] = "spawned"
  /\ exec' = [exec EXCEPT ![o] = "lost"]
  /\ UNCHANGED <<store, bound, taskOf, events, process, budget, history>>

\* the user pauses a run: RunPaused names no occurrence and finishes none
UserPausesRun(o) ==
  /\ exec[o] = "active" /\ ~Continues(o) /\ budget.asks > 0
  /\ budget' = [budget EXCEPT !.asks = @ - 1]
  /\ exec' = [exec EXCEPT ![o] = "paused"]
  /\ UNCHANGED <<store, bound, taskOf, events, process, history>>

\* and resumes it to its end, without the occurrence's id
UserFinishesPausedRun(o) ==
  /\ exec[o] = "paused"
  /\ exec' = [exec EXCEPT ![o] = "ok"]
  /\ UNCHANGED <<store, bound, taskOf, events, process, budget, history>>

\* handle_lifecycle_event: the entry is taken and a task spawned; the guard
\* runs on until that task stops it.  Without an entry the event is dropped
Deliver(e) ==
  /\ e \in events
  /\ events' = events \ {e}
  /\ IF entry[e.occ] = "absent"
     THEN UNCHANGED <<entry, guard, tasks>>
     ELSE /\ tasks' = tasks \cup {[occ |-> e.occ, do |-> e.status,
                                   rev |-> entry[e.occ], guard |-> guard[e.occ]]}
          /\ StopGuard(e.occ)
  /\ UNCHANGED <<store, exec, bound, taskOf, epoch, co, budget, history>>

\* (faulty variant) the owner and the lease are not checked
FinishTaskUnfenced(t) ==
  /\ t \in tasks /\ t.do # "release"
  /\ row' = [row EXCEPT ![t.occ] = ClosedRow(@, t.do)]
  /\ TerminalProjection(t.occ, t.rev, tasks \ {t})
  /\ co' = [co EXCEPT !.rev = IF t.rev = "fresh" THEN Staled(@) ELSE @]
  /\ UNCHANGED <<runs, epoch, guard, budget, history>>

\* finish_lifecycle_occurrence, or the release after a dropped handoff
FinishTask(t) ==
  /\ t \in tasks /\ t.do # "release"
  /\ IF Holds(t.occ)
     THEN /\ row' = [row EXCEPT ![t.occ] = ClosedRow(@, t.do)]
          /\ TerminalProjection(t.occ, t.rev, tasks \ {t})
          /\ co' = [co EXCEPT !.rev = IF t.rev = "fresh" THEN Staled(@) ELSE @]
     ELSE tasks' = tasks \ {t} /\ UNCHANGED <<row, job, entry, co>>
  /\ UNCHANGED <<runs, epoch, guard, budget, history>>

ReleaseTask(t) ==
  /\ t \in tasks /\ t.do = "release"
  /\ row' = IF Owned(t.occ)
            THEN [row EXCEPT ![t.occ] = ClosedRow(@, "retrying")] ELSE row
  /\ tasks' = tasks \ {t}
  /\ UNCHANGED <<job, runs, epoch, co, entry, guard, budget, history>>

-----------------------------------------------------------------------------
(* Leases: the heartbeat of OccurrenceExecutionGuard.  A renewal that      *)
(* succeeds changes nothing here.                                          *)

\* heartbeat_step, one transaction at a time: the renewal is refused; the row
\* is released, or was not owned any more; why not is read from the row
GuardStep(o, from, to) ==
  \/ from = "renew" /\ ~Holds(o) /\ to = "release" /\ UNCHANGED row
  \/ /\ from = "release" /\ Owned(o) /\ to = "lost"
     /\ row' = [row EXCEPT ![o] = ClosedRow(@, "retrying")]
  \/ from = "release" /\ ~Owned(o) /\ to = "inspect" /\ UNCHANGED row
  \/ /\ from = "inspect" /\ UNCHANGED row
     /\ to = CASE Owned(o) -> "release"
               [] row[o].status \in Terminal -> "off"
               [] OTHER -> "lost"

Heartbeat(o) ==
  \E to \in GuardState :
    /\ GuardStep(o, guard[o], to)
    /\ guard' = [guard EXCEPT ![o] = to]
    /\ UNCHANGED <<job, runs, epoch, co, entry, tasks, budget, history>>

\* the guard of an entry already taken, until the task stops it
TaskHeartbeat(t) ==
  \E to \in GuardState :
    /\ t \in tasks /\ GuardStep(t.occ, t.guard, to)
    /\ tasks' = (tasks \ {t}) \cup {[t EXCEPT !.guard = to]}
    /\ UNCHANGED <<job, runs, epoch, co, entry, guard, budget, history>>

\* on_lease_lost, some time after the release, unless the guard was stopped:
\* whatever is registered for the occurrence by then is detached
LeaseLost(o) ==
  /\ guard[o] = "lost"
  /\ StopGuard(o)
  /\ UNCHANGED <<store, runs, epoch, co, tasks, budget, history>>

TaskLeaseLost(t) ==
  /\ t \in tasks /\ t.guard = "lost"
  /\ tasks' = (tasks \ {t}) \cup {[t EXCEPT !.guard = "off"]}
  /\ StopGuard(t.occ)
  /\ UNCHANGED <<store, runs, epoch, co, budget, history>>

\* (faulty variant) the guard gives up
HeartbeatGivesUp(o) ==
  /\ guard[o] = "renew" /\ budget.stalls > 0
  /\ budget' = [budget EXCEPT !.stalls = @ - 1]
  /\ guard' = [guard EXCEPT ![o] = "off"]
  /\ UNCHANGED <<store, runs, epoch, co, entry, tasks, history>>

\* the store fails at the renewal of a lease that is still good
HeartbeatFault(o) ==
  /\ guard[o] = "renew" /\ budget.stalls > 0
  /\ budget' = [budget EXCEPT !.stalls = @ - 1]
  /\ guard' = [guard EXCEPT ![o] = "release"]
  /\ UNCHANGED <<store, runs, epoch, co, entry, tasks, history>>

Renewed(o) == guard[o] = "renew" \/ \E t \in tasks : t.occ = o /\ t.guard = "renew"

\* a lease runs out when nobody renews it and nobody is about to end it (the
\* lease is far longer than those steps), or when the machine sleeps
Expire(o) ==
  /\ row[o].status = "running" /\ row[o].lease = "live"
  /\ ~Renewed(o)
  /\ Owned(o) => co.occ # o /\ \A t \in tasks : t.occ # o
  /\ row' = [row EXCEPT ![o].lease = "expired"]
  /\ UNCHANGED <<job, runs, process, budget, history>>

Sleep ==
  /\ budget.stalls > 0
  /\ budget' = [budget EXCEPT !.stalls = @ - 1]
  /\ row' = [o \in Occ |-> IF row[o].lease = "live"
                           THEN [row[o] EXCEPT !.lease = "expired"] ELSE row[o]]
  /\ UNCHANGED <<job, runs, process, history>>

RetryElapses ==
  /\ job.retry
  /\ job' = [job EXCEPT !.retry = FALSE]
  /\ UNCHANGED <<row, runs, process, budget, history>>

-----------------------------------------------------------------------------
(* The user edits the job; the process stops and a new one starts.         *)

\* update_job: a change of content resets the task of a workflow job
EditJob(reset) ==
  /\ budget.edits > 0
  /\ budget' = [budget EXCEPT !.edits = @ - 1]
  /\ reset => Mode = "workflow"
  /\ job' = [job EXCEPT !.task = IF reset THEN None ELSE @]
  /\ co' = [co EXCEPT !.rev = Staled(@)]
  /\ entry' = StaledEntries
  /\ tasks' = StaledTasks(tasks)
  /\ UNCHANGED <<row, runs, epoch, guard, history>>

\* startup recovery pauses the runs the last process left; its prompts are gone
Restart ==
  /\ budget.crashes > 0
  /\ budget' = [budget EXCEPT !.crashes = @ - 1]
  /\ epoch' = epoch + 1
  /\ co' = Idle
  /\ entry' = [o \in Occ |-> "absent"]
  /\ guard' = [o \in Occ |-> "off"]
  /\ tasks' = {}
  /\ events' = {}
  /\ exec' = [o \in Occ |->
       IF Continues(o) /\ exec[o] \in {"spawned", "active", "waiting"} THEN "lost"
       ELSE IF exec[o] \in {"prepared", "active", "waiting"} THEN "paused"
       ELSE exec[o]]
  /\ UNCHANGED <<store, bound, taskOf, history>>

-----------------------------------------------------------------------------
Coordinator ==
  \/ \E registering \in BOOLEAN : Wake(registering)
  \/ \E o \in Occ : KeepRunning(o) \/ Reconcile(o)
  \/ \E o \in Occ : Pick(o) \/ Materialize(o) \/ MaterializeMissed(o)
  \/ Settle \/ MarkMissed \/ Rearm
  \/ Claim \/ InstallGuard \/ Recover \/ Busy \/ Start \/ Finish
  \/ PrepareRun \/ \E r \in Occ : PreparePrompt(r)
  \/ Accept \/ AcceptFails \/ Launch \/ Bind
  \/ FinishFailure \/ ResumeBind

Background ==
  \/ \E t \in tasks : FinishTask(t) \/ ReleaseTask(t)
                     \/ TaskHeartbeat(t) \/ TaskLeaseLost(t)
  \/ \E e \in events : Deliver(e)
  \/ \E o \in Occ : Heartbeat(o) \/ LeaseLost(o)

Execution ==
  \E o \in Occ :
    \/ \E as \in {"ok", "failed", "paused"} : RunEnds(o, as)
    \/ RunAsksUser(o) \/ RunAsksPermission(o)
    \/ PromptStarts(o) \/ PromptRefused(o)
    \/ UserPausesRun(o) \/ UserFinishesPausedRun(o)

Environment ==
  \/ \E o \in Occ : RunNow(o) \/ ResumeClaim(o) \/ AnswerDirectly(o)
                    \/ HeartbeatFault(o) \/ Expire(o)
  \/ PrepareFails \/ LaunchFails \/ Sleep \/ RetryElapses \/ Restart
  \/ \E reset \in BOOLEAN : EditJob(reset)

Next == Coordinator \/ Background \/ Execution \/ Environment

Spec == Init /\ [][Next]_vars

-----------------------------------------------------------------------------
(* What must hold of the occurrences, at every instant.                    *)

\* A delivery whose links were accepted is never launched again, whoever
\* claims the row after a crash, a lost lease or a retry
\* (process_occurrence reads the accepted links before it decides).
LaunchAtMostOnce == \A o \in Occ : launches[o] <= 1

\* At most one run of a task is running at a time: the overlap check of
\* process_occurrence looks at the task's runs, whatever occurrence made them.
SerialPerTask ==
  \A p, q \in Occ :
    /\ p # q /\ bound[p] = p /\ bound[q] = q /\ taskOf[p] = taskOf[q]
    /\ exec[p] \in {"active", "waiting"}
    => exec[q] \notin {"prepared", "active", "waiting"}

\* A run never starts unless the occurrence's row names it, so that a restart
\* finds it; a run whose links are refused is dropped
\* (accept_occurrence_links_then_deferred).
NoOrphanRun ==
  \A o \in Occ : exec[o] \in {"prepared", "active"} =>
    row[o].linked \/ (co.occ = o /\ co.pc = "accept")

\* A busy task delays an occurrence at most QUEUE_MAX_RETRIES times.
RetriesAreBounded == \A o \in Occ : retries[o] <= MaxRetries

\* An occurrence reported as succeeded has an execution that completed.
SucceededMeansDone ==
  \A o \in Occ : row[o].status = "succeeded" => exec[o] = "ok"

-----------------------------------------------------------------------------
(* What a step may never do.                                               *)

\* A settled row is never written again by a late event, a late release, an
\* expired guard or a recovery; only an answer reopens an attention row.
TerminalIsFinal ==
  [][\A o \in Occ : row[o].status \in {"succeeded", "failed", "skipped", "missed"}
                       => row'[o] = row[o]]_vars

\* A registered guard is to renew or release the row, a spawned task to finish it,
\* or the coordinator is working on it.
Attended(o) ==
  \/ entry[o] # "absent" /\ guard[o] # "off"
  \/ \E t \in tasks : t.occ = o
  \/ co.occ = o

Abandoned(o) == Holds(o) /\ ~Attended(o)

\* Registry, guard and row are changed by three kinds of tasks without a common
\* lock, and still nothing but the notice of a lost lease, overtaken by a new claim
\* of the row, leaves a row this process holds under a live lease with nobody.
AbandonedByLossOnly ==
  [][\A o \in Occ : Abandoned(o)' /\ ~Abandoned(o) => guard[o] = "lost"]_vars

\* A live lease of another process is fenced: nothing this process does
\* changes that row until the lease has expired.
LeaseIsFenced ==
  [][\A o \in Occ :
       row[o].status = "running" /\ row[o].lease = "live" /\ row[o].owner # epoch
       => row'[o] \in {row[o], [row[o] EXCEPT !.lease = "expired"]}]_vars

-----------------------------------------------------------------------------
(* The contract of an occurrence, which these rows implement when every    *)
(* delivery has a run of its own.                                          *)

Phase(o) ==
  CASE row[o].status \in {"pending", "running", "retrying"} -> "open"
    [] row[o].status = "attention" -> "asking"
    [] OTHER -> row[o].status

Work(o) ==
  CASE row[o].linked /\ exec[o] = "ok" -> "done"
    [] ~(row[o].linked /\ exec[o] = "ok") /\ launches[o] > 0 -> "started"
    [] OTHER -> "none"

Contract == INSTANCE OccurrenceContract
              WITH phase <- [o \in Occ |-> Phase(o)], work <- [o \in Occ |-> Work(o)]

\* Crashes, lost leases, lost and late events, repeated claims: every step is
\* a step the contract of the occurrence allows, or changes nothing in it.
ImplementsContract == Contract!Spec

-----------------------------------------------------------------------------
(* Progress.  Every task the process spawned runs; the coordinator's timer *)
(* fires again and again; a lease nobody renews runs out; a run ends and a *)
(* question is answered (the user, in the end, does).                      *)

Fairness ==
  /\ WF_vars(Coordinator) /\ SF_vars(Wake(FALSE))
  /\ \A o \in Occ :
       /\ WF_vars(\E e \in events : e.occ = o /\ Deliver(e))
       /\ WF_vars(\E t \in tasks : t.occ = o /\ (FinishTask(t) \/ ReleaseTask(t)))
       /\ WF_vars(Heartbeat(o) \/ LeaseLost(o))
       /\ WF_vars(Expire(o))
       /\ WF_vars(\E as \in {"ok", "failed", "paused"} : RunEnds(o, as))
       /\ WF_vars(PromptStarts(o) \/ PromptRefused(o))
       /\ WF_vars(ResumeClaim(o) \/ AnswerDirectly(o))
       /\ WF_vars(UserFinishesPausedRun(o))
  /\ WF_vars(RetryElapses)

FairSpec == Spec /\ Fairness

\* Where guards lose their leases: a spawned release is not overtaken by the next
\* deadline for ever, and a guard, which beats several times in a lease, is not
\* by the end of the lease.
Steadiness ==
  \A o \in Occ :
    /\ SF_vars(co.pc = "idle" /\ \E t \in tasks : t.occ = o /\ ReleaseTask(t))
    /\ SF_vars(Heartbeat(o) /\ guard'[o] = "lost")

SteadySpec == FairSpec /\ Steadiness

\* An occurrence that was created is settled or asks the user, in spite of
\* restarts, lost events and busy tasks.
EventuallySettled ==
  \A o \in Occ : row[o].status \in {"pending", "running", "retrying"}
                 ~> row[o].status \in Terminal

-----------------------------------------------------------------------------
(* What the documents say and the code does not do.                        *)

\* "Renew the lease while the execution is active": a row that is claimed again
\* before the last guard's notice arrives is left running with nobody.
RowIsAttended == \A o \in Occ : ~Abandoned(o)

\* "retries at most 3 times, and is skipped if it still cannot run".
RetriesAsDocumented ==
  \A o \in Occ : row[o].status = "skipped" /\ Policy = "retry"
                 => retries[o] = MaxRetries

\* "neither policy lets a scheduled task run concurrently".
NoConcurrentRuns ==
  \A p, q \in Occ : exec[p] = "active" /\ exec[q] = "active" => p = q

\* "attention_required only means that the occurrence still waits for the
\* user": once its run has ended, the row does not stay in attention.
CompletedRunSettles ==
  \A o \in Occ : exec[o] \in {"ok", "failed"} ~>
                    row[o].status \in Terminal \ {"attention"}

=============================================================================
