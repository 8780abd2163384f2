---------------------------- MODULE RunLifecycle ----------------------------
(***************************************************************************)
(* One run of a fixed workflow: the requests that start, continue, recover *)
(* and stop it, the threads that drive it from node to node                *)
(* (src/app/orchestrator.rs), the state they share on disk                 *)
(* (src/app/state_access.rs), and the candidates by which an interrupted   *)
(* run is found again (src/app/runtime_recovery.rs).                       *)
(*                                                                         *)
(* A thread is a request from its command to the end of the drive that     *)
(* follows from it.  Each action is a critical section of an attempt lock  *)
(* or of the registry, a single file, or a callback.                       *)
(*                                                                         *)
(* Tokens, attempts and executions have fresh identities in the code; here *)
(* an identity nothing refers to any more may be used again, so that runs  *)
(* of any length have finitely many states.  The round's own status moves  *)
(* with the run's and is left out.                                         *)
(***************************************************************************)
EXTENDS Naturals, FiniteSets

CONSTANTS
  None,
  Threads,      \* bound: how many requests are served at a time
  Tokens,       \* candidate tokens: a finite set of naturals
  Identities,   \* of attempts, and of executions: a finite set of naturals
  Nodes, Entry, ManualNodes,
  OnSuccess, OnFailure,  \* the edges: to a node, to "new-round" or to "end"
  MaxAttempts, MaxRounds,  \* the control limits of the workflow
  MaxRepairs,   \* MAX_INVALID_OUTPUT_REPAIR_PROMPTS
  MaxTries,     \* automatic retries of a node
  Crashes,      \* bound: how often the process ends
  Environment   \* what may happen besides: a subset of Events

\* Requests and failures that are switched on where a run asks about them.
Events == {"stale-recover",  \* recovery is requested of a run that needs none
           "retry",          \* run_retry is called
           "racing-exit",    \* the application exits between a registration and its claim
           "late-error",     \* an error ends a drive after its first node
           "torn-stop",      \* the process ends between the files of a stop, a failure
                             \* or a check
           "racing-stop",    \* a stop falls between a check and its transition, or
                             \* between the first files of a run
           "unreadable"}     \* the candidates or the workspace cannot be read at startup

ASSUME IdentityAssumption == Tokens \subseteq Nat /\ Identities \subseteq Nat
\* What is written where something may also be None.
Reasons == {"interrupted", "abnormal", "blocked", "waiting"}
Outcomes == {"success", "failure", "invalid"}
Fallbacks == {"own", "past"}
Stoppers == {"user", "exit", "startup"}

ASSUME NoneAssumption ==
  None \notin Nat \cup Threads \cup Reasons \cup Outcomes \cup Fallbacks \cup Stoppers
ASSUME BoundAssumption ==
  {MaxAttempts, MaxRounds, MaxRepairs, MaxTries, Crashes} \subseteq Nat
ASSUME WorkflowAssumption ==
  /\ Entry \in Nodes /\ ManualNodes \subseteq Nodes
  /\ {OnSuccess, OnFailure} \subseteq [Nodes -> Nodes \cup {"new-round", "end"}]
ASSUME EnvironmentAssumption == Environment \subseteq Events

VARIABLES
  \* on disk
  run,       \* run.json
  node,      \* node.json of the current attempt
  row,       \* the token of the run's row in runtime_recovery_candidates
  \* in the process
  recovery,  \* the phase of the recovery coordinator, or "down"
  blocked,   \* the project could not be recovered
  active,    \* the token of the run in the registry
  lease,     \* the thread that holds the run's continue lease
  thread,    \* the requests and the drives
  stop,      \* the stop in progress: of the user, of the exit, of startup
  crashes

vars == <<run, node, row, recovery, blocked, active, lease, thread, stop, crashes>>
disk == <<run, node, row>>
process == <<recovery, blocked, crashes>>

(***************************************************************************)
(* State.                                                                  *)
(***************************************************************************)
NoRun == [status |-> "none", reason |-> None, phase |-> None, token |-> None,
          attempt |-> None, rounds |-> 0, failures |-> [n \in Nodes |-> 0]]
NoNode == [id |-> None, status |-> "none", outcome |-> None, manual |-> FALSE,
           execution |-> None]
Idle == [pc |-> "idle", request |-> None, token |-> None, attempt |-> None,
         execution |-> None, fallback |-> None, phase |-> None,
         result |-> None, tries |-> 0, repairs |-> 0]
NoStop == [pc |-> "idle", by |-> None, attempt |-> None, token |-> None,
           candidate |-> None]

Init ==
  /\ run = NoRun /\ node = NoNode /\ row = None
  /\ recovery = "accepting" /\ blocked = FALSE
  /\ active = None /\ lease = None
  /\ thread = [t \in Threads |-> Idle]
  /\ stop = NoStop
  /\ crashes = 0

\* An identity that nothing refers to.
Least(S) == CHOOSE k \in S : \A j \in S : k <= j
FreeTokens == Tokens \ ({run.token, row, active, stop.token, stop.candidate}
                          \cup {thread[t].token : t \in Threads})
FreeAttempts == Identities \ ({run.attempt, stop.attempt}
                  \cup {thread[t].attempt : t \in Threads})
FreeExecutions == Identities \ ({node.execution}
                    \cup {thread[t].execution : t \in Threads})

\* Mutant: only the attempt is compared, which a continue keeps.
CurrentAttempt(t) == run.status = "running" /\ run.attempt = thread[t].attempt

\* The first files of a run are written one by one: the run, which names its node;
\* the round, until when the node's status is "none"; the node, until when it is "absent".
HasNode == node.status \notin {"none", "absent"}

\* The execution of a thread is the one the files name, and the run is running.
Current(t) ==
  /\ run.status = "running"
  /\ run.attempt = thread[t].attempt
  /\ node.execution = thread[t].execution

\* What the files allow to be asked of the run.
Continuable == run.status = "paused" /\ run.reason \in {"interrupted", "abnormal"}
Recoverable == /\ Continuable
               /\ node.status = "completed" /\ node.outcome = "success"
               /\ ~node.manual
AwaitsCheck == run.status = "paused" /\ node.status = "paused" /\ node.manual

NewNode(n, e) == [id |-> n, status |-> "running", outcome |-> None, manual |-> FALSE,
                  execution |-> e]
PausedRun(reason) == [run EXCEPT !.status = "paused", !.reason = reason, !.phase = "paused"]
RunningRun(phase) == [run EXCEPT !.status = "running", !.reason = None, !.phase = phase]
\* Mutants: a stop forgets that a completed node is past pausing, or forgets the node.
PausedNodeAlways == [node EXCEPT !.status = "paused", !.execution = None]
PausedNodeNever == [node EXCEPT !.execution = None]

PausedNode == IF node.status = "completed" \/ ~HasNode THEN node
              ELSE [node EXCEPT !.status = "paused", !.outcome = None, !.execution = None]

Go(t, pc) == thread' = [thread EXCEPT ![t].pc = pc]
Free(t) == lease' = IF lease = t THEN None ELSE lease
Leave(t) == thread' = [thread EXCEPT ![t] = Idle] /\ Free(t)

\* What the coordinator does with a token: register, finish, forget.
Accepting == recovery = "accepting" /\ ~blocked
\* Mutant: a candidate is removed whatever token it has.
WithoutAny(token, held) == None

Without(token, held) == IF held = token THEN None ELSE held
Finish(token) == active' = Without(token, active) /\ row' = Without(token, row)
Abandon(t) == active' = Without(thread[t].token, active) /\ UNCHANGED row

\* From where the table of runtime phases lets a provider's callback go on.
Callable == {"preparing", "starting", "running", "repairing", "launching"}

(***************************************************************************)
(* Requests.  A request registers a candidate: the row is written first    *)
(* and the gate is looked at again before the registry is changed.         *)
(***************************************************************************)
Admissible(request) ==
  CASE request = "start" ->
         run.status = "none" /\ \A t \in Threads : thread[t].request # "start"
    [] request = "continue" -> lease = None /\ Continuable /\ HasNode /\ ~node.manual
    [] request = "recover" ->
         /\ lease = None /\ run.status # "none"
         /\ Recoverable \/ "stale-recover" \in Environment
    [] request = "check" -> lease = None /\ AwaitsCheck
    [] request = "retry" -> HasNode /\ "retry" \in Environment

Request(t, request) ==
  /\ thread[t].pc = "idle"
  /\ Admissible(request)
  /\ Accepting
  /\ FreeTokens # {}
  /\ row' = Least(FreeTokens)
  /\ thread' = [thread EXCEPT ![t] =
       [Idle EXCEPT !.pc = "register", !.request = request, !.token = Least(FreeTokens),
                    !.attempt = run.attempt]]
  /\ lease' = IF request \in {"continue", "recover", "check"} THEN t ELSE lease
  /\ UNCHANGED <<run, node, active, stop, process>>

\* A refused request changes nothing, except that a check reports the failure.
RefuseCheck(t) ==
  /\ thread[t].pc = "idle"
  /\ Admissible("check")
  /\ recovery # "down" /\ ~Accepting
  /\ thread' = [thread EXCEPT ![t] =
       [Idle EXCEPT !.pc = "refused", !.request = "check", !.attempt = run.attempt]]
  /\ lease' = t
  /\ UNCHANGED <<disk, active, stop, process>>

\* Mutant: the gate is not looked at again after the row was written.
RegisterUngated(t) ==
  /\ thread[t].pc = "register"
  /\ active' = thread[t].token
  /\ Go(t, "claim")
  /\ UNCHANGED <<run, node, row, lease, stop, process>>

Register(t) ==
  /\ thread[t].pc = "register"
  /\ \/ /\ Accepting
        /\ active' = thread[t].token
        /\ Go(t, "claim")
        /\ UNCHANGED <<row, lease>>
     \/ /\ ~Accepting
        /\ row' = Without(thread[t].token, row)
        /\ IF thread[t].request = "check"
           THEN Go(t, "refused") /\ UNCHANGED lease
           ELSE Leave(t)
        /\ UNCHANGED active
  /\ UNCHANGED <<run, node, stop, process>>

Claims(t, request) == thread[t].pc = "claim" /\ thread[t].request = request

\* prepare_run_from_workflow writes the run, its round and its node, without a lock.
Prepare(t) ==
  /\ Claims(t, "start")
  /\ FreeAttempts # {}
  /\ \E phase \in {"starting", "preparing"} :
       /\ run' = [NoRun EXCEPT !.status = "running", !.phase = phase,
                    !.token = thread[t].token, !.attempt = Least(FreeAttempts)]
       /\ thread' = [thread EXCEPT ![t].pc = "round", ![t].attempt = Least(FreeAttempts),
                                   ![t].phase = phase]
  /\ node' = [NoNode EXCEPT !.id = Entry]
  /\ UNCHANGED <<row, active, lease, stop, process>>

PrepareRound(t) ==
  /\ thread[t].pc = "round"
  /\ node' = [NoNode EXCEPT !.id = Entry, !.status = "absent"]
  /\ Go(t, "node")
  /\ UNCHANGED <<run, row, active, lease, stop, process>>

\* The last of the files, and the launch of the prepared run.
PrepareNode(t) ==
  /\ thread[t].pc = "node"
  /\ FreeExecutions # {}
  /\ LET e == Least(FreeExecutions)
     IN /\ node' = NewNode(Entry, e)
        /\ thread' = [thread EXCEPT ![t].execution = e, ![t].fallback = "own",
              ![t].pc = IF thread[t].phase = "preparing" THEN "worktree" ELSE "start"]
  /\ UNCHANGED <<run, row, active, lease, stop, process>>

\* run_continue_background, under the attempt lock.
Continue(t) ==
  /\ Claims(t, "continue")
  /\ Continuable /\ run.attempt = thread[t].attempt
  /\ node.status = "paused" /\ ~node.manual
  /\ FreeExecutions # {}
  /\ LET e == Least(FreeExecutions)
     IN /\ node' = [node EXCEPT !.execution = e]
        /\ run' = [RunningRun("starting") EXCEPT !.token = thread[t].token]
        /\ thread' = [thread EXCEPT ![t].pc = "load", ![t].execution = e,
                                    ![t].fallback = "own"]
  /\ UNCHANGED <<row, active, lease, stop, process>>

\* run_recover_completed_background, under the attempt lock.
Recover(t) ==
  /\ Claims(t, "recover")
  /\ Recoverable /\ run.attempt = thread[t].attempt
  /\ FreeExecutions # {}
  /\ LET e == Least(FreeExecutions)
     IN /\ node' = [node EXCEPT !.execution = e]
        /\ run' = [RunningRun("transitioning") EXCEPT !.token = thread[t].token]
        /\ thread' = [thread EXCEPT ![t].pc = "decide", ![t].execution = e]
  /\ UNCHANGED <<row, active, lease, stop, process>>

\* A claim that is refused, or whose revision is stale, drops its registration.
ClaimFails(t) ==
  /\ \/ /\ Claims(t, "continue")
        /\ \/ ~Continuable
           \/ run.attempt # thread[t].attempt
           \/ node.status # "paused" \/ node.manual
     \/ Claims(t, "recover")
     \/ Claims(t, "retry")
  /\ Abandon(t)
  /\ Leave(t)
  /\ UNCHANGED <<run, node, stop, process>>

\* submit_manual_check_with_launch_signal writes what it read before it registered.
Check(t) ==
  /\ Claims(t, "check")
  /\ \E outcome \in {"success", "failure"} :
       node' = [node EXCEPT !.status = "completed", !.outcome = outcome, !.manual = FALSE]
  /\ run' = [RunningRun("transitioning") EXCEPT !.token = thread[t].token]
  /\ Go(t, "decide")
  /\ UNCHANGED <<row, active, lease, stop, process>>

\* terminalize_manual_check_precommit_error
CheckFails(t) ==
  /\ thread[t].pc = "refused"
  /\ IF AwaitsCheck /\ run.attempt = thread[t].attempt
     THEN run' = PausedRun("abnormal") /\ node' = PausedNode
     ELSE UNCHANGED <<run, node>>
  /\ IF run.status = "running" THEN UNCHANGED <<active, row>> ELSE Finish(run.token)
  /\ Leave(t)
  /\ UNCHANGED <<stop, process>>

(***************************************************************************)
(* The drive.                                                              *)
(***************************************************************************)
\* prepare_run_worktree_background
Worktree(t) ==
  /\ thread[t].pc = "worktree"
  /\ IF Current(t)
     THEN /\ run' = [run EXCEPT !.phase = "starting"]
          /\ thread' = [thread EXCEPT ![t].pc = "start", ![t].phase = "starting"]
          /\ UNCHANGED lease
     ELSE Leave(t) /\ UNCHANGED run
  /\ UNCHANGED <<node, row, active, stop, process>>

\* run_continue_with_launch_signal, in the thread of the continue.
Load(t) ==
  /\ thread[t].pc = "load"
  /\ IF Current(t) /\ run.phase = "starting"
     THEN thread' = [thread EXCEPT ![t].pc = "start", ![t].phase = "starting"]
     ELSE Go(t, "fail")
  /\ UNCHANGED <<disk, active, lease, stop, process>>

\* The head of the loop: the node starts and a continue is answered.
StartNode(t) ==
  /\ thread[t].pc = "start"
  /\ IF Current(t)
     THEN LET phase == IF thread[t].phase = "repairing" THEN "repairing" ELSE "starting"
          IN /\ run' = RunningRun(phase)
             /\ node' = [node EXCEPT !.status = IF @ = "paused" THEN "running" ELSE @]
             /\ thread' = [thread EXCEPT ![t].pc = "provider", ![t].phase = None,
                                         ![t].tries = 0]
             /\ Free(t)
     ELSE Leave(t) /\ UNCHANGED <<run, node>>
  /\ UNCHANGED <<row, active, stop, process>>

\* The provider accepts the prompt: transition_runtime_execution_phase compares the
\* attempt, not the execution, and leaves the phase of a repair.
Accepted(t) ==
  /\ thread[t].pc = "provider"
  /\ run' = [run EXCEPT !.phase =
       IF /\ run.status = "running" /\ run.attempt = thread[t].attempt
          /\ @ \in Callable \ {"repairing"}
       THEN "running" ELSE @]
  /\ Go(t, "turn")
  /\ UNCHANGED <<node, row, active, lease, stop, process>>

\* What the drive makes of the result of a turn.
Completed(outcome) == IF node.id \in ManualNodes THEN "check" ELSE outcome
Results(t) ==
  {"interrupted", "abnormal", "blocked"} \cup {Completed(outcome) : outcome \in Outcomes}
    \cup (IF thread[t].repairs < MaxRepairs THEN {"repair", "unreferenced"} ELSE {"exhausted"})

Result(t) ==
  /\ thread[t].pc = "turn"
  /\ IF Current(t)
     THEN /\ \E result \in Results(t) :
               thread' = [thread EXCEPT ![t].pc = "persist", ![t].result = result]
          /\ UNCHANGED lease
     ELSE Leave(t)
  /\ UNCHANGED <<disk, active, stop, process>>

\* The provider's error: the turn is tried again, or the run pauses.
Error(t) ==
  /\ thread[t].pc \in {"provider", "turn"}
  /\ IF Current(t)
     THEN /\ \/ /\ thread[t].tries < MaxTries
                /\ thread' = [thread EXCEPT ![t].pc = "provider", ![t].tries = @ + 1]
             \/ \E result \in {"abnormal", "blocked"} :
                  thread' = [thread EXCEPT ![t].pc = "persist", ![t].result = result]
          /\ UNCHANGED lease
     ELSE Leave(t)
  /\ UNCHANGED <<disk, active, stop, process>>

Pauses == {"interrupted", "abnormal", "blocked", "exhausted"}
NodeOf(result) ==
  CASE result \in Pauses -> [node EXCEPT !.status = "paused", !.outcome = None,
                                         !.execution = None]
    [] result = "unreferenced" -> [node EXCEPT !.status = "completed", !.outcome = "invalid"]
    [] result = "check" -> [node EXCEPT !.status = "paused", !.outcome = None, !.manual = TRUE]
    [] result = "repair" -> [node EXCEPT !.status = "running", !.outcome = None]
    [] OTHER -> [node EXCEPT !.status = "completed", !.outcome = result]
RunOf(result) ==
  CASE result \in Pauses ->
         PausedRun(IF result = "exhausted" THEN "abnormal" ELSE result)
    [] result = "unreferenced" -> PausedRun("blocked")
    [] result = "check" -> [PausedRun("waiting") EXCEPT !.phase = "checking"]
    [] result = "repair" -> RunningRun("repairing")
    [] OTHER -> run
NextOf(result) ==
  CASE result = "repair" -> "start"
    [] result \in Outcomes -> "decide"
    [] OTHER -> "finish"

\* persist_runtime_state_if_expected_execution_current; what is decided by
\* apply_control_decision finishes the candidate also when it was superseded.
Persist(t) ==
  LET result == thread[t].result
  IN
  /\ thread[t].pc = "persist"
  /\ IF Current(t)
     THEN /\ node' = NodeOf(result) /\ run' = RunOf(result)
          /\ thread' = [thread EXCEPT ![t].pc = NextOf(result), ![t].result = None,
               ![t].phase = IF result = "repair" THEN "repairing" ELSE @,
               ![t].repairs = IF result = "repair" THEN @ + 1 ELSE @]
          /\ UNCHANGED lease
     ELSE /\ IF result \in {"exhausted", "unreferenced"}
             THEN Go(t, "finish") /\ UNCHANGED lease
             ELSE Leave(t)
          /\ UNCHANGED <<run, node>>
  /\ UNCHANGED <<row, active, stop, process>>

(***************************************************************************)
(* The control decision.  A check decides without an execution to compare. *)
(***************************************************************************)
\* Mutant: the decision does not look at the execution again.
DecidesAnyway(t) == thread[t].pc = "decide"

Decides(t) ==
  /\ thread[t].pc = "decide"
  /\ Current(t) \/ thread[t].execution = None

\* decide_next_step
Target == CASE node.outcome = "success" -> OnSuccess[node.id]
            [] node.outcome = "failure" -> OnFailure[node.id]
            [] OTHER -> "end"
RepairsTo(n) == IF node.outcome = "failure" THEN run.failures[node.id] + 1 ELSE 0

\* A failing recovery or check falls back to this successor; a drive that began
\* with a node keeps that node to fall back to.
Proceed(t, n) ==
  LET a == Least(FreeAttempts)
      e == Least(FreeExecutions)
  IN
  /\ FreeAttempts # {} /\ FreeExecutions # {}
  /\ node' = NewNode(n, e)
  /\ thread' = [thread EXCEPT ![t].pc = "start", ![t].attempt = a, ![t].execution = e,
       ![t].phase = "launching", ![t].repairs = 0,
       ![t].fallback = IF @ = None THEN "own" ELSE "past"]
  /\ Free(t)

Transition(t) ==
  /\ Decides(t)
  /\ Target \in Nodes /\ RepairsTo(Target) <= MaxAttempts
  /\ Proceed(t, Target)
  /\ run' = [RunningRun("launching") EXCEPT !.attempt = Least(FreeAttempts),
               !.failures[node.id] = IF node.outcome = "failure" THEN @ + 1 ELSE @]
  /\ UNCHANGED <<row, active, stop, process>>

OpenNewRound(t) ==
  /\ Decides(t)
  /\ Target = "new-round" /\ run.rounds < MaxRounds
  /\ Proceed(t, Entry)
  /\ run' = [RunningRun("launching") EXCEPT !.attempt = Least(FreeAttempts),
               !.rounds = @ + 1, !.failures = NoRun.failures]
  /\ UNCHANGED <<row, active, stop, process>>

\* The run ends, at the end of the workflow or at one of its limits.
CompleteRun(t) ==
  /\ Decides(t)
  /\ \/ Target = "end"
     \/ Target \in Nodes /\ RepairsTo(Target) > MaxAttempts
     \/ Target = "new-round" /\ run.rounds = MaxRounds
  /\ run' = [run EXCEPT !.status = "completed", !.reason = None, !.phase = "terminal"]
  /\ Go(t, "finish")
  /\ UNCHANGED <<node, row, active, lease, stop, process>>

Superseded(t) ==
  /\ thread[t].pc = "decide" /\ ~Decides(t)
  /\ Leave(t)
  /\ UNCHANGED <<disk, active, stop, process>>

Conclude(t) ==
  /\ thread[t].pc = "finish"
  /\ Finish(thread[t].token)
  /\ Leave(t)
  /\ UNCHANGED <<run, node, stop, process>>

\* Mutant: an error ends the thread without going through terminalization.
FailReturns(t) ==
  /\ thread[t].pc \in {"worktree", "load", "provider", "decide"}
  /\ thread[t].fallback = "own"
  /\ Leave(t)
  /\ UNCHANGED <<disk, active, stop, process>>

\* An error of the drive itself.  It is charged to the node the drive began
\* with; where there is none yet, a recovery returns it and a check reports it.
Fail(t) ==
  /\ thread[t].pc \in {"worktree", "load", "provider", "decide"}
  /\ thread[t].fallback = "own" \/ "late-error" \in Environment
  /\ IF thread[t].fallback # None THEN Go(t, "fail") /\ UNCHANGED lease
     ELSE IF thread[t].request = "check" THEN Go(t, "refused") /\ UNCHANGED lease
     ELSE Leave(t)
  /\ UNCHANGED <<disk, active, stop, process>>

\* terminalize_background_drive_error.  A continue does not finish what it finds
\* half converged.
Terminalize(t) ==
  LET own == thread[t].fallback = "own" /\ Current(t)
      half == /\ thread[t].fallback = "own" /\ run.attempt = thread[t].attempt
              /\ run.status = "paused" /\ run.reason = "abnormal"
              /\ thread[t].request # "continue"
  IN
  /\ thread[t].pc = "fail"
  /\ IF own THEN run' = PausedRun("abnormal") /\ node' = PausedNode
            ELSE UNCHANGED <<run, node>>
  /\ IF own \/ half THEN Finish(run.token) ELSE UNCHANGED <<active, row>>
  /\ Leave(t)
  /\ UNCHANGED <<stop, process>>

(***************************************************************************)
(* Stops: run_pause, called by the user, by the exit of the application    *)
(* for each registered run, and by the recovery at startup.                *)
(***************************************************************************)
\* A stop reads the run, and then takes the lock of the attempt it read.
Observed(s) ==
  IF run.status = "running" THEN [s EXCEPT !.pc = "commit", !.attempt = run.attempt]
  ELSE [s EXCEPT !.pc = "finish", !.attempt = None, !.token = run.token]

StopRequest ==
  /\ stop.pc = "idle" /\ recovery # "down"
  /\ run.status # "none"
  /\ stop' = Observed([NoStop EXCEPT !.by = "user"])
  /\ UNCHANGED <<disk, active, lease, thread, process>>

\* prepare_app_exit_inner closes the gate and takes the registered candidates.
ExitRequest ==
  /\ stop.pc = "idle" /\ recovery \notin {"down", "shutting-down"}
  /\ crashes < Crashes
  /\ \/ "racing-exit" \in Environment
     \/ \A t \in Threads : thread[t].pc # "claim"
  /\ recovery' = "shutting-down"
  /\ stop' = [NoStop EXCEPT !.by = IF Accepting THEN "exit" ELSE "startup",
                            !.candidate = active,
                            !.pc = IF active = None THEN "exit" ELSE "observe"]
  /\ UNCHANGED <<disk, blocked, active, lease, thread, crashes>>

AfterStop == IF stop.by = "user" THEN NoStop
             ELSE [stop EXCEPT !.pc = "consume", !.attempt = None, !.token = None]

StopObserve ==
  /\ stop.pc = "observe"
  /\ stop' = IF run.status = "none" THEN [stop EXCEPT !.pc = "exit"] ELSE Observed(stop)
  /\ UNCHANGED <<disk, active, lease, thread, process>>

\* No execution protects the attempt while the first files of the run are written,
\* and between a check and its transition.
MayStop ==
  \/ "racing-stop" \in Environment
  \/ \A t \in Threads :
       /\ thread[t].pc \notin {"round", "node"}
       /\ thread[t].pc = "decide" => thread[t].execution # None

\* The run of the attempt that was read is still the one that runs.
Stoppable == run.status = "running" /\ run.attempt = stop.attempt

StopCommit ==
  /\ stop.pc = "commit"
  /\ \/ /\ Stoppable /\ MayStop
        /\ node.status # "none"
        /\ run' = PausedRun("interrupted") /\ node' = PausedNode
        /\ stop' = [stop EXCEPT !.pc = "finish", !.token = run.token, !.attempt = None]
     \/ /\ ~Stoppable
        /\ stop' = Observed(stop)
        /\ UNCHANGED <<run, node>>
  /\ UNCHANGED <<row, active, lease, thread, process>>

\* run_pause writes the run before it misses the round: the candidate stays, and
\* at startup the project is blocked.
StopFails ==
  /\ stop.pc = "commit" /\ Stoppable /\ MayStop
  /\ node.status = "none"
  /\ run' = PausedRun("interrupted")
  /\ stop' = IF stop.by = "exit" THEN [NoStop EXCEPT !.pc = "exit", !.by = "exit"] ELSE NoStop
  /\ IF stop.by = "startup" THEN recovery' = "accepting" /\ blocked' = TRUE
                            ELSE UNCHANGED <<recovery, blocked>>
  /\ UNCHANGED <<node, row, active, lease, thread, crashes>>

StopFinish ==
  /\ stop.pc = "finish"
  /\ Finish(stop.token)
  /\ stop' = AfterStop
  /\ UNCHANGED <<run, node, lease, thread, process>>

\* consume_persisted_candidate
StopConsume ==
  /\ stop.pc = "consume"
  /\ Finish(stop.candidate)
  /\ stop' = IF stop.by = "exit" THEN [NoStop EXCEPT !.pc = "exit", !.by = "exit"] ELSE NoStop
  /\ UNCHANGED <<run, node, lease, thread, process>>

(***************************************************************************)
(* The end of the process, and the recovery at the next startup.           *)
(***************************************************************************)
Down ==
  /\ recovery' = "down" /\ blocked' = FALSE
  /\ active' = None /\ lease' = None
  /\ thread' = [t \in Threads |-> Idle]
  /\ stop' = NoStop
  /\ crashes' = crashes + 1
  /\ UNCHANGED row

Exit == stop.pc = "exit" /\ Down /\ UNCHANGED <<run, node>>

Crash ==
  /\ recovery # "down" /\ crashes < Crashes
  /\ Down
  /\ UNCHANGED <<run, node>>

\* The process ends between two of the files of one step: node.json is written
\* before run.json by a drive and by a check, and after it by a stop and a failure.
TornPersist(t) ==
  /\ thread[t].pc = "persist" /\ Current(t) /\ crashes < Crashes
  /\ node' = NodeOf(thread[t].result)
  /\ Down
  /\ UNCHANGED run

TornStop ==
  /\ "torn-stop" \in Environment
  /\ crashes < Crashes
  /\ \/ /\ stop.pc = "commit" /\ Stoppable
        /\ run' = PausedRun("interrupted")
        /\ UNCHANGED node
     \/ \E t \in Threads :
          /\ \/ thread[t].pc = "fail" /\ thread[t].fallback = "own" /\ Current(t)
             \/ thread[t].pc = "refused" /\ AwaitsCheck /\ run.attempt = thread[t].attempt
          /\ run' = PausedRun("abnormal")
          /\ UNCHANGED node
     \/ \E t \in Threads :
          /\ Claims(t, "check")
          /\ node' = [node EXCEPT !.status = "completed", !.outcome = "success",
                                  !.manual = FALSE]
          /\ UNCHANGED run
  /\ Down

Restart ==
  /\ recovery = "down"
  /\ recovery' = "recovering"
  /\ UNCHANGED <<disk, blocked, active, lease, thread, stop, crashes>>

\* Mutant: the startup forgets the rows of its runs.
RecoverRowForgets ==
  /\ recovery = "recovering" /\ stop.pc = "idle" /\ row # None
  /\ row' = None
  /\ UNCHANGED <<run, node, active, lease, thread, stop, process>>

\* recover_interrupted_conversation_workspaces_with_app, for the run's row.
RecoverRow ==
  /\ recovery = "recovering" /\ stop.pc = "idle" /\ row # None
  /\ IF run.status = "running" /\ run.token = row
     THEN /\ stop' = [NoStop EXCEPT !.pc = "commit", !.by = "startup",
                            !.attempt = run.attempt, !.candidate = row]
          /\ UNCHANGED row
     ELSE row' = None /\ UNCHANGED stop
  /\ UNCHANGED <<run, node, active, lease, thread, process>>

CompleteRecovery ==
  /\ recovery = "recovering" /\ stop.pc = "idle" /\ row = None
  /\ recovery' = "accepting"
  /\ UNCHANGED <<disk, blocked, active, lease, thread, stop, crashes>>

\* The row's workspace, or the table itself, cannot be read.
RecoveryFails ==
  /\ "unreadable" \in Environment
  /\ recovery = "recovering" /\ stop.pc = "idle"
  /\ \/ recovery' = "failed" /\ UNCHANGED blocked
     \/ row # None /\ recovery' = "accepting" /\ blocked' = TRUE
  /\ UNCHANGED <<disk, active, lease, thread, stop, crashes>>

(***************************************************************************)
(* The specification.                                                      *)
(***************************************************************************)
Requests == {"start", "continue", "recover", "check", "retry"}

Drive(t) ==
  \/ Register(t) \/ Prepare(t) \/ PrepareRound(t) \/ PrepareNode(t)
  \/ Continue(t) \/ Recover(t) \/ ClaimFails(t)
  \/ Check(t) \/ CheckFails(t)
  \/ Worktree(t) \/ Load(t) \/ StartNode(t)
  \/ Accepted(t) \/ Result(t) \/ Error(t) \/ Persist(t)
  \/ Transition(t) \/ OpenNewRound(t) \/ CompleteRun(t) \/ Superseded(t)
  \/ Conclude(t) \/ Terminalize(t)

Stop == StopObserve \/ StopCommit \/ StopFails \/ StopFinish \/ StopConsume \/ Exit
Recovery == Restart \/ RecoverRow \/ CompleteRecovery

Next ==
  \/ \E t \in Threads :
       \/ \E request \in Requests : Request(t, request)
       \/ RefuseCheck(t) \/ Drive(t)
       \/ Fail(t) \/ TornPersist(t)
  \/ StopRequest \/ ExitRequest \/ Stop
  \/ Crash \/ TornStop \/ Recovery \/ RecoveryFails

Spec == Init /\ [][Next]_vars

\* Threads are scheduled, the provider answers or its prompt is cancelled, a
\* stop that was begun goes on, and the application is started again.
Fairness ==
  /\ \A t \in Threads : WF_vars(Drive(t))
  /\ WF_vars(Stop) /\ WF_vars(Recovery)

FairSpec == Spec /\ Fairness

(***************************************************************************)
(* Properties.                                                             *)
(***************************************************************************)
TokenOrNone == Tokens \cup {None}
IdOrNone == Identities \cup {None}

\* The types, the shapes that validate_run_state and validate_node_state ask for,
\* and the holder of the continue lease (runtime/mod.rs, orchestrator.rs).
TypeOK ==
  /\ run \in [status : {"none", "running", "paused", "completed"},
              reason : Reasons \cup {None},
              phase : {None, "preparing", "starting", "running", "repairing",
                       "checking", "transitioning", "launching", "paused", "terminal"},
              token : TokenOrNone, attempt : IdOrNone, rounds : 0 .. MaxRounds,
              failures : [Nodes -> 0 .. MaxAttempts]]
  /\ (run.status = "paused") = (run.reason # None)
  /\ run.status = "paused" => run.phase \in {"paused", "checking"}
  /\ node \in [id : Nodes \cup {None},
               status : {"none", "absent", "running", "paused", "completed"},
               outcome : Outcomes \cup {None}, manual : BOOLEAN,
               execution : IdOrNone]
  /\ (node.status = "completed") = (node.outcome # None)
  /\ row \in TokenOrNone /\ active \in TokenOrNone
  /\ recovery \in {"recovering", "accepting", "failed", "shutting-down", "down"}
  /\ blocked \in BOOLEAN
  /\ lease \in Threads \cup {None}
  /\ lease # None => thread[lease].pc # "idle"

\* A running run is listed under its own token, in the table the next startup
\* reads and in the registry the exit reads (core-state-and-recovery.md:69).
RunningIsListed ==
  run.status = "running" =>
    /\ row = run.token
    /\ recovery = "accepting" /\ ~blocked => active = run.token

\* A thread drives the run: it goes on with the current execution, or converges it.
Driving(t) ==
  \/ /\ thread[t].pc \in {"round", "node", "worktree", "load", "start", "provider",
                           "turn", "persist", "decide"}
     /\ Current(t)
  \/ thread[t].pc = "decide" /\ thread[t].execution = None
  \/ thread[t].pc = "fail" /\ Current(t) /\ thread[t].fallback = "own"

\* A run that is shown as running is driven by somebody, as long as the process
\* accepts requests (launch_prepared_run_background, orchestrator.rs).
RunningIsDriven ==
  run.status = "running" /\ recovery = "accepting" /\ ~blocked =>
    \E t \in Threads : Driving(t)

\* Two threads never drive the run at the same time: a continue after a stop takes
\* the attempt from a thread that is still inside its provider (state_access.rs).
OneDriver == \A t, u \in Threads : Driving(t) /\ Driving(u) => t = u

\* A stopped run runs again, or ends, only by a request that registered a candidate of its
\* own, never by what a superseded thread still writes.
PauseIsKept ==
  [][run.status = "paused" /\ run'.status # "paused" => run'.token # run.token]_vars

\* A paused run offers the user a way on: to continue its node, to recover its
\* result, or to decide its check.  A node that completed without success, and a run
\* whose process ended before its first files were written, are left to PausedIsResumable.
PausedIsOffered ==
  run.status = "paused" /\ run.reason # "blocked" =>
    \/ Continuable /\ node.status = "paused" /\ ~node.manual
    \/ Recoverable
    \/ AwaitsCheck
    \/ node.status = "completed" /\ node.outcome # "success"
    \/ ~HasNode /\ crashes > 0

\* Every paused run whose reason allows it can be resumed.
PausedIsResumable ==
  run.status = "paused" /\ run.reason # "blocked" =>
    \/ Continuable /\ node.status = "paused" /\ ~node.manual
    \/ Recoverable
    \/ AwaitsCheck

\* When a process that accepted requests has dealt with its candidates at the exit,
\* no run is left running (prepare_app_exit_inner, commands.rs).
ExitLeavesNothingRunning ==
  stop.pc = "exit" /\ stop.by = "exit" => run.status # "running"

\* A run that is running comes to an end, to a question or to a stop, also when the
\* process ends under it: retries, repairs, failures and rounds are limited.
RunSettles == run.status = "running" ~> run.status # "running"
=============================================================================
