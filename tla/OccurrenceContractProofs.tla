---------------------- MODULE OccurrenceContractProofs ----------------------
(***************************************************************************)
(* When every delivery has a run of its own, that is in every mode but     *)
(* "direct_continuous", ScheduledRuntime implements OccurrenceContract and *)
(* a row this process holds loses its last attendant in one way only.      *)
(***************************************************************************)
EXTENDS ScheduledRuntimeProofs

\* an outcome that waits to be written down is the outcome of a launched run
Justified(o, outcome) ==
  /\ outcome \in {"succeeded", "failed", "attention"}
  /\ row[o].linked
  /\ outcome = "succeeded" => exec[o] = "ok"

\* what events, spawned tasks and the coordinator are about to report
ReportInv ==
  /\ \A e \in events : Justified(e.occ, e.status) /\ launches[e.occ] = 1
  /\ \A t \in tasks :
       t.do # "release" => Justified(t.occ, t.do) /\ launches[t.occ] = 1
  /\ \A o \in co.todo : row[o].linked
  /\ co.pc = "recover" => row[co.occ].linked
  /\ co.pc = "settle" => Justified(co.occ, co.next) /\ co.next # "attention"
  /\ co.pc = "finish" => \/ Justified(co.occ, co.next) /\ co.next # "attention"
                         \/ co.next = "retrying"
                         \/ co.next = "skipped" /\ ~row[co.occ].linked
  /\ co.pc = "launch" => row[co.occ].status \notin Terminal

\* a linked row is bound to the run it created
OwnRunInv ==
  /\ \A o \in Occ : row[o].linked => bound[o] = o
  /\ co.pc = "accept" => bound[co.occ] = co.occ
  /\ co.pc \in {"accept", "launch"} => exec[co.occ] = "prepared"

ContractInv == Inv /\ ReportInv /\ OwnRunInv

OwnRuns == Mode # "direct_continuous"

-----------------------------------------------------------------------------
(* Runs.                                                                   *)

LEMMA BoundSteps ==
  ASSUME Typed, [Next]_vars, OwnRuns, NEW o \in Occ
  PROVE  \/ bound'[o] = bound[o]
         \/ /\ co.occ = o /\ co.pc \in {"prepare", "accept"} /\ co'.pc \in {"accept", "fail"}
            /\ co'.pc = "accept" => PrepareRun /\ bound'[o] = o /\ exec'[o] = "prepared"
<1>0. /\ bound \in [Occ -> Occ \cup {None}] /\ exec \in [Occ -> Exec] /\ co \in Local
      /\ co.pc \notin {"idle", "wake"} => co.occ \in Occ
  BY DEF Typed, TypeOK, Target
<1>1. CASE PrepareRun
  <2>1. co'.pc = "accept" /\ co.pc = "prepare"
    BY <1>0, <1>1 DEF PrepareRun, Goto, Local
  <2>2. \/ bound'[o] = bound[o]
        \/ co.occ = o /\ bound'[o] = o /\ exec'[o] = "prepared"
    BY <1>0, <1>1 DEF PrepareRun
  <2>3. QED
    BY <1>1, <2>1, <2>2
<1>2. CASE AcceptFails
  <2>1. co'.pc = "fail" /\ co.pc = "accept"
    BY <1>0, <1>2 DEF AcceptFails, Goto, Local
  <2>2. bound'[o] = bound[o] \/ co.occ = o
    BY <1>0, <1>2 DEF AcceptFails
  <2>3. QED
    BY <2>1, <2>2
<1>3. ASSUME Coordinator, ~(PrepareRun \/ AcceptFails) PROVE UNCHANGED bound
  BY <1>3 DEF Coordinator, Wake, KeepRunning, Reconcile, Pick, Materialize,
       MaterializeMissed, Settle, MarkMissed, Rearm, Claim, InstallGuard, Recover, Busy,
       Start, Finish, PreparePrompt, ContinuesSession, OwnRuns, Accept, Launch, Bind,
       FinishFailure, ResumeBind, runs
<1>4. ASSUME Background \/ Execution \/ UNCHANGED vars PROVE UNCHANGED bound
  BY <1>4 DEF Background, FinishTask, ReleaseTask, TaskHeartbeat, TaskLeaseLost, Deliver, Heartbeat, LeaseLost,
       Execution, RunEnds, RunAsksUser, RunAsksPermission, PromptStarts, PromptRefused,
       UserPausesRun, UserFinishesPausedRun, runs, vars
<1>5. ASSUME Environment PROVE UNCHANGED bound
  BY <1>5 DEF Environment, RunNow, ResumeClaim, AnswerDirectly, HeartbeatFault, Expire,
       PrepareFails, LaunchFails, Sleep, RetryElapses, Restart, EditJob, runs
<1>6. QED
  BY <1>1, <1>2, <1>3, <1>4, <1>5 DEF Next

\* a run is prepared whenever the coordinator goes from "prepare" to "accept"
LEMMA PrepareSteps ==
  ASSUME Typed, [Next]_vars, OwnRuns, co.pc = "prepare", co'.pc = "accept"
  PROVE  PrepareRun
<1>0. co \in Local
  BY DEF Typed, TypeOK
<1>1. ASSUME Coordinator, ~PrepareRun PROVE FALSE
  BY <1>0, <1>1 DEF Coordinator, Wake, KeepRunning, Reconcile, Pick, Materialize,
       MaterializeMissed, Settle, MarkMissed, Rearm, Claim, InstallGuard, Recover, Busy,
       Start, Finish, PreparePrompt, ContinuesSession, OwnRuns, Accept, AcceptFails,
       Launch, Bind, FinishFailure, ResumeBind, Idle
<1>2. ASSUME Background \/ Execution \/ UNCHANGED vars PROVE FALSE
  BY <1>0, <1>2 DEF Background, FinishTask, ReleaseTask, TaskHeartbeat, TaskLeaseLost, Deliver,
       Heartbeat, LeaseLost, Execution, RunEnds, RunAsksUser, RunAsksPermission, PromptStarts,
       PromptRefused, UserPausesRun, UserFinishesPausedRun, process, vars, Local
<1>3. ASSUME Environment PROVE FALSE
  BY <1>0, <1>3 DEF Environment, RunNow, ResumeClaim, AnswerDirectly, HeartbeatFault,
       Expire, PrepareFails, LaunchFails, Sleep, RetryElapses, Restart, EditJob, process,
       Goto, Idle, Local
<1>4. QED
  BY <1>1, <1>2, <1>3 DEF Next

LEMMA OwnRunInvariance ==
  ASSUME OwnRuns, Inv, Inv', OwnRunInv, [Next]_vars
  PROVE  OwnRunInv'
<1>0. Typed /\ Typed' /\ CoStep
  BY CoSteps DEF Inv, Typed
<1>1. ASSUME NEW o \in Occ, row'[o].linked PROVE bound'[o] = o
  <2>1. CASE row[o].linked
    <3>1. ~(co.occ = o /\ co.pc \in {"prepare", "accept"})
      BY <2>1 DEF Inv, LaunchInv
    <3>2. QED
      BY <1>0, <2>1, <3>1, BoundSteps DEF OwnRunInv
  <2>2. CASE ~row[o].linked
    <3>1. co.pc = "accept" /\ co.occ = o /\ co'.pc = "launch"
      BY <1>0, <1>1, <2>2, FieldSteps DEF Typed, TypeOK, Row
    <3>2. QED
      BY <1>0, <3>1, BoundSteps DEF OwnRunInv
  <2>3. QED
    BY <2>1, <2>2
<1>2. ASSUME co'.pc = "accept"
      PROVE  bound'[co'.occ] = co'.occ /\ exec'[co'.occ] = "prepared"
  <2>0. co'.occ \in Occ /\ co.occ = co'.occ /\ co.pc \in {"prepare", "accept"}
    BY <1>0, <1>2 DEF CoStep, Path, Typed, Target
  <2>1. CASE PrepareRun
    BY <1>0, <2>0, <2>1 DEF PrepareRun, Typed, TypeOK
  <2>2. CASE ~PrepareRun /\ co.pc = "accept"
    <3>1. bound'[co.occ] = bound[co.occ]
      BY <1>0, <1>2, <2>0, <2>2, BoundSteps
    <3>2. exec'[co.occ] = exec[co.occ]
      BY <1>0, <1>2, <2>0, <2>2, ExecSteps
         DEF ExecStep, OwnRunInv, Going, Launch
    <3>3. QED
      BY <2>0, <2>2, <3>1, <3>2 DEF OwnRunInv
  <2>3. co.pc = "prepare" => PrepareRun
    BY <1>0, <1>2, PrepareSteps DEF OwnRuns
  <2>4. QED
    BY <2>0, <2>1, <2>2, <2>3
<1>3. ASSUME co'.pc = "launch" PROVE exec'[co'.occ] = "prepared"
  <2>0. co'.occ \in Occ /\ co.occ = co'.occ /\ co.pc \in {"accept", "launch"}
    BY <1>0, <1>3 DEF CoStep, Path, Typed, Target
  <2>1. exec[co.occ] = "prepared" /\ bound[co.occ] = co.occ
    BY <2>0 DEF OwnRunInv, Inv, LaunchInv
  <2>2. ~Launch
    BY <1>0, <1>3 DEF Launch, Typed, TypeOK, Local
  <2>3. QED
    BY <1>0, <1>3, <2>0, <2>1, <2>2, ExecSteps DEF ExecStep, Going
<1>4. QED
  BY <1>1, <1>2, <1>3 DEF OwnRunInv

-----------------------------------------------------------------------------
(* Reports.                                                                 *)

\* the execution of a linked row that is done stays done
LEMMA Stable ==
  ASSUME OwnRuns, Inv, OwnRunInv, [Next]_vars, NEW o \in Occ, row[o].linked
  PROVE  /\ row'[o].linked
         /\ exec[o] = "ok" => exec'[o] = "ok"
         /\ launches[o] = 1 => launches'[o] = 1
<1>0. Typed /\ bound[o] = o
  BY DEF Inv, Typed, OwnRunInv
<1>1. row'[o].linked
  BY <1>0, FieldSteps DEF Typed, TypeOK, Row
<1>2. ASSUME exec[o] = "ok" PROVE exec'[o] = "ok"
  <2>1. ~(co.occ = o /\ co.pc \in {"prepare", "accept"})
    BY DEF Inv, LaunchInv
  <2>2. QED
    BY <1>0, <1>2, <2>1, ExecSteps DEF ExecStep, Going, Continues
<1>3. ASSUME launches[o] = 1 PROVE launches'[o] = 1
  <2>1. CASE Launch
    BY <1>0, <1>3, <2>1 DEF Launch, Inv, LaunchInv, Typed, TypeOK
  <2>2. QED
    BY <1>0, <1>3, <2>1, LaunchSteps
<1>4. QED
  BY <1>1, <1>2, <1>3

\* an event is about a run that goes on, or has just ended
LEMMA EventSteps ==
  ASSUME Typed, [Next]_vars, NEW e \in events', e \notin events
  PROVE  /\ e.occ \in Occ /\ exec[e.occ] = "active"
         /\ \/ e.status = "succeeded" /\ exec'[e.occ] = "ok"
            \/ e.status \in {"failed", "attention"}
<1>0. exec \in [Occ -> Exec]
  BY DEF Typed, TypeOK
<1>1. CASE Execution
  <2>1. CASE \E o \in Occ, as \in {"ok", "failed", "paused"} : RunEnds(o, as)
    <3>1. PICK o \in Occ, as \in {"ok", "failed", "paused"} : RunEnds(o, as)
      BY <2>1
    <3>2. e = [occ |-> o, status |-> IF as = "ok" THEN "succeeded" ELSE "failed"]
      BY <3>1 DEF RunEnds
    <3>3. exec[o] = "active" /\ exec'[o] = as
      BY <1>0, <3>1 DEF RunEnds
    <3>4. QED
      BY <3>2, <3>3
  <2>2. CASE \E o \in Occ : RunAsksUser(o) \/ RunAsksPermission(o)
    BY <2>2 DEF RunAsksUser, RunAsksPermission
  <2>3. CASE \E o \in Occ : \/ PromptStarts(o) \/ PromptRefused(o)
                           \/ UserPausesRun(o) \/ UserFinishesPausedRun(o)
    BY <2>3 DEF PromptStarts, PromptRefused, UserPausesRun, UserFinishesPausedRun
  <2>4. QED
    BY <1>1, <2>1, <2>2, <2>3 DEF Execution
<1>2. ASSUME Coordinator PROVE FALSE
  BY <1>2 DEF Coordinator, Wake, KeepRunning, Reconcile, Pick, Materialize,
       MaterializeMissed, Settle, MarkMissed, Rearm, Claim, InstallGuard, Recover, Busy,
       Start, Finish, PrepareRun, PreparePrompt, Accept, AcceptFails, Launch, Bind,
       FinishFailure, ResumeBind, runs
<1>3. ASSUME Background \/ UNCHANGED vars PROVE FALSE
  BY <1>3 DEF Background, FinishTask, ReleaseTask, TaskHeartbeat, TaskLeaseLost, Deliver, Heartbeat, LeaseLost,
       runs, vars
<1>4. ASSUME Environment PROVE FALSE
  BY <1>4 DEF Environment, RunNow, ResumeClaim, AnswerDirectly, HeartbeatFault, Expire,
       PrepareFails, LaunchFails, Sleep, RetryElapses, Restart, EditJob, runs
<1>5. QED
  BY <1>1, <1>2, <1>3, <1>4 DEF Next

\* a spawned task carries the status of an event
LEMMA TaskSteps ==
  ASSUME Typed, [Next]_vars
  PROVE  \A t \in tasks' :
           \/ t.do = "release"
           \/ \E u \in tasks : u.occ = t.occ /\ u.do = t.do
           \/ \E e \in events : e.occ = t.occ /\ e.status = t.do
<1> DEFINE From(t) == \/ t.do = "release"
                      \/ \E u \in tasks : u.occ = t.occ /\ u.do = t.do
                      \/ \E e \in events : e.occ = t.occ /\ e.status = t.do
<1>0. tasks \subseteq Task
  BY DEF Typed, TypeOK
<1>1. ASSUME NEW ts, ts \subseteq tasks, NEW t \in StaledTasks(ts) PROVE From(t)
  <2>1. PICK u \in ts : t = [u EXCEPT !.rev = Staled(u.rev)]
    BY <1>1 DEF StaledTasks
  <2>2. u \in tasks /\ u.occ = t.occ /\ u.do = t.do
    BY <1>0, <1>1, <2>1 DEF Task
  <2>3. QED
    BY <2>2
<1>2. ASSUME NEW t \in tasks PROVE From(t)
  OBVIOUS
<1>3. CASE Coordinator
  <2>1. CASE \/ \E o \in Occ : Materialize(o) \/ MaterializeMissed(o)
             \/ MarkMissed \/ Settle \/ Start \/ Bind \/ ResumeBind
    <3>1. tasks' \subseteq tasks \/ tasks' = StaledTasks(tasks)
      BY <2>1 DEF Materialize, MaterializeMissed, MarkMissed, Settle, Start, Bind,
           ResumeBind, PersistProjection, TerminalProjection
    <3>2. QED
      BY <1>1, <1>2, <3>1
  <2>2. CASE Finish \/ FinishFailure
    <3>1. \/ tasks' \subseteq tasks \/ tasks' = StaledTasks(tasks)
          \/ tasks' = tasks \cup {[occ |-> co.occ, do |-> "release", rev |-> "none",
                                   guard |-> "off"]}
      BY <2>2 DEF Finish, FinishFailure, PersistProjection, SpawnRelease
    <3>2. QED
      BY <1>1, <1>2, <3>1
  <2>3. CASE \/ \E registering \in BOOLEAN : Wake(registering)
             \/ \E o \in Occ : KeepRunning(o) \/ Reconcile(o) \/ Pick(o) \/ PreparePrompt(o)
             \/ Rearm \/ Claim \/ InstallGuard \/ Recover \/ Busy \/ PrepareRun
             \/ Accept \/ AcceptFails \/ Launch
    <3>1. tasks' = tasks
      BY <2>3 DEF Wake, KeepRunning, Reconcile, Pick, PreparePrompt, Rearm, Claim,
           InstallGuard, Recover, Busy, PrepareRun, Accept, AcceptFails, Launch
    <3>2. QED
      BY <3>1
  <2>4. QED
    BY <1>3, <2>1, <2>2, <2>3 DEF Coordinator
<1>4. CASE Background
  <2>1. CASE \E t \in tasks : FinishTask(t)
    <3>1. PICK t \in tasks : FinishTask(t)
      BY <2>1
    <3>2. tasks' = tasks \ {t} \/ tasks' = StaledTasks(tasks \ {t})
      BY <3>1 DEF FinishTask, TerminalProjection
    <3>3. QED
      BY <1>1, <1>2, <3>2
  <2>2. CASE \E t \in tasks : ReleaseTask(t)
    BY <2>2 DEF ReleaseTask
  <2>3. CASE \E t \in tasks : TaskHeartbeat(t) \/ TaskLeaseLost(t)
    <3>1. PICK t \in tasks, u \in Task :
            u.occ = t.occ /\ u.do = t.do /\ tasks' = (tasks \ {t}) \cup {u}
      BY <2>3, HeartbeatTask
    <3>2. QED
      BY <1>2, <3>1
  <2>4. CASE \E e \in events : Deliver(e)
    <3>1. PICK e \in events : Deliver(e)
      BY <2>4
    <3>2. \/ tasks' = tasks
          \/ tasks' = tasks \cup {[occ |-> e.occ, do |-> e.status,
                                   rev |-> entry[e.occ], guard |-> guard[e.occ]]}
      BY <3>1 DEF Deliver
    <3>3. QED
      BY <1>2, <3>2
  <2>5. CASE \E o \in Occ : Heartbeat(o) \/ LeaseLost(o)
    BY <2>5 DEF Heartbeat, LeaseLost
  <2>6. QED
    BY <1>4, <2>1, <2>2, <2>3, <2>4, <2>5 DEF Background
<1>5. CASE Execution \/ UNCHANGED vars
  <2>1. tasks' = tasks
    BY <1>5 DEF Execution, RunEnds, RunAsksUser, RunAsksPermission, PromptStarts,
         PromptRefused, UserPausesRun, UserFinishesPausedRun, process, vars
  <2>2. QED
    BY <2>1
<1>6. CASE Environment
  <2>1. tasks' = tasks \/ tasks' = {} \/ tasks' = StaledTasks(tasks)
    BY <1>6 DEF Environment, RunNow, ResumeClaim, AnswerDirectly, HeartbeatFault,
         Expire, PrepareFails, LaunchFails, Sleep, RetryElapses, Restart, EditJob, process
  <2>2. QED
    BY <1>1, <2>1
<1>7. QED
  BY <1>3, <1>4, <1>5, <1>6 DEF Next

\* what the coordinator is about to report
LEMMA NextSteps ==
  ASSUME Typed, [Next]_vars
  PROVE  /\ \A o \in co'.todo : o \in co.todo \/ row'[o].linked
         /\ co'.pc = "recover" => \/ co.pc = "recover" /\ co'.occ = co.occ
                                  \/ co'.occ = co.occ /\ row[co.occ].linked
         /\ co'.pc = "settle" =>
              \/ co.pc = "settle" /\ co'.occ = co.occ /\ co'.next = co.next
              \/ co'.occ \in co.todo /\ co'.next = OutcomeOfRun(bound[co'.occ])
         /\ co'.pc = "finish" =>
              \/ co.pc = "finish" /\ co'.occ = co.occ /\ co'.next = co.next
              \/ /\ co.pc = "recover" /\ co'.occ = co.occ
                 /\ co'.next = OutcomeOfRun(bound[co.occ])
              \/ /\ co.pc = "busy" /\ co'.occ = co.occ
                 /\ co'.next \in {"retrying", "skipped"}
<1>0. co \in Local /\ (co.pc \notin {"idle", "wake"} => co.occ \in Occ)
  BY DEF Typed, TypeOK, Target
<1> USE <1>0 DEF Local, Goto
<1>1. CASE \E registering \in BOOLEAN : Wake(registering)
  BY <1>1 DEF Wake, Idle
<1>2. CASE \E o \in Occ : KeepRunning(o)
  BY <1>2 DEF KeepRunning
<1>3. CASE \E o \in Occ : Reconcile(o)
  BY <1>3 DEF Reconcile
<1>4. CASE \E o \in Occ : Pick(o) \/ Materialize(o) \/ MaterializeMissed(o)
  BY <1>4 DEF Pick, Materialize, MaterializeMissed
<1>5. CASE Settle \/ MarkMissed
  BY <1>5 DEF Settle, MarkMissed
<1>6. CASE Rearm \/ Finish \/ Bind \/ FinishFailure \/ ResumeBind
  <2>1. co' = Idle
    BY <1>6 DEF Rearm, Finish, Bind, FinishFailure, ResumeBind
  <2>2. QED
    BY <2>1 DEF Idle
<1>7. CASE Restart
  BY <1>7 DEF Restart, Idle
<1>8. CASE \E o \in Occ : RunNow(o) \/ ResumeClaim(o)
  BY <1>8 DEF RunNow, ResumeClaim, Idle
<1>9. CASE Claim
  BY <1>9 DEF Claim, Idle
<1>10. CASE InstallGuard
  BY <1>10 DEF InstallGuard, Idle
<1>11. CASE Recover
  BY <1>11 DEF Recover
<1>12. CASE Busy
  BY <1>12 DEF Busy, DecideQueue
<1>13. CASE Start
  BY <1>13 DEF Start
<1>14. CASE \/ PrepareRun \/ (\E r \in Occ : PreparePrompt(r)) \/ PrepareFails
            \/ Accept \/ AcceptFails \/ Launch \/ LaunchFails
  BY <1>14 DEF PrepareRun, PreparePrompt, PrepareFails, Accept, AcceptFails, Launch,
               LaunchFails
<1>15. CASE (\E t \in tasks : FinishTask(t)) \/ (\E reset \in BOOLEAN : EditJob(reset))
  BY <1>15 DEF FinishTask, EditJob
<1>16. CASE \/ \E t \in tasks : ReleaseTask(t) \/ TaskHeartbeat(t) \/ TaskLeaseLost(t)
            \/ \E e \in events : Deliver(e)
            \/ \E o \in Occ : Heartbeat(o) \/ LeaseLost(o)
            \/ Execution \/ UNCHANGED vars
  <2>1. co' = co
    BY <1>16 DEF ReleaseTask, TaskHeartbeat, TaskLeaseLost, Deliver, Heartbeat, LeaseLost, Execution, RunEnds,
         RunAsksUser, RunAsksPermission, PromptStarts, PromptRefused, UserPausesRun,
         UserFinishesPausedRun, process, vars
  <2>2. QED
    BY <2>1
<1>17. CASE \/ \E o \in Occ : AnswerDirectly(o) \/ HeartbeatFault(o) \/ Expire(o)
            \/ Sleep \/ RetryElapses
  <2>1. co' = co
    BY <1>17 DEF AnswerDirectly, HeartbeatFault, Expire, Sleep, RetryElapses, process
  <2>2. QED
    BY <2>1
<1>18. CASE Coordinator
  BY ONLY <1>1, <1>2, <1>3, <1>4, <1>5, <1>6, <1>9, <1>10, <1>11, <1>12, <1>13,
     <1>14, <1>18 DEF Coordinator
<1>19. CASE Background \/ Execution \/ UNCHANGED vars
  BY ONLY <1>15, <1>16, <1>19 DEF Background
<1>20. CASE Environment
  BY ONLY <1>7, <1>8, <1>14, <1>15, <1>17, <1>20 DEF Environment
<1>21. QED
  BY ONLY [Next]_vars, <1>18, <1>19, <1>20 DEF Next

LEMMA ReportInvariance ==
  ASSUME OwnRuns, Inv, Inv', OwnRunInv, OwnRunInv', ReportInv, [Next]_vars
  PROVE  ReportInv'
<1>0. /\ Typed /\ Typed' /\ CoStep
      /\ \A o \in Occ : RowStep(o)
      /\ events \subseteq Event /\ tasks \subseteq Task /\ tasks' \subseteq Task
      /\ co \in Local
      /\ co.pc \notin {"idle", "wake"} => co.occ \in Occ
      /\ co'.pc \notin {"idle", "wake"} => co'.occ \in Occ
  BY CoSteps, RowSteps DEF Inv, Typed, TypeOK, Target
<1>1. ASSUME NEW o \in Occ, NEW st, Justified(o, st)
      PROVE  /\ st \in {"succeeded", "failed", "attention"} /\ row'[o].linked
             /\ st = "succeeded" => exec'[o] = "ok"
  BY <1>1, Stable DEF Justified
<1>2. ASSUME NEW e \in events'
      PROVE  Justified(e.occ, e.status)' /\ launches'[e.occ] = 1
  <2>1. CASE e \in events
    <3>1. e.occ \in Occ /\ Justified(e.occ, e.status) /\ launches[e.occ] = 1
      BY <1>0, <2>1 DEF ReportInv, Event
    <3>2. QED
      BY <1>1, <3>1, Stable DEF Justified
  <2>2. CASE e \notin events
    <3>1. /\ e.occ \in Occ /\ exec[e.occ] = "active"
          /\ \/ e.status = "succeeded" /\ exec'[e.occ] = "ok"
             \/ e.status \in {"failed", "attention"}
      BY <1>0, <1>2, <2>2, EventSteps
    <3>2. row[e.occ].linked /\ launches[e.occ] = 1
      BY <3>1 DEF Inv, ExecInv
    <3>3. QED
      BY <3>1, <3>2, Stable DEF Justified
  <2>3. QED
    BY <2>1, <2>2
<1>3. ASSUME NEW t \in tasks', t.do # "release"
      PROVE  Justified(t.occ, t.do)' /\ launches'[t.occ] = 1
  <2>1. t.occ \in Occ
    BY <1>0, <1>3 DEF Task
  <2>2. Justified(t.occ, t.do) /\ launches[t.occ] = 1
    <3>1. \/ \E u \in tasks : u.occ = t.occ /\ u.do = t.do
          \/ \E e \in events : e.occ = t.occ /\ e.status = t.do
      BY <1>0, <1>3, TaskSteps
    <3>2. QED
      BY <1>3, <3>1 DEF ReportInv
  <2>3. QED
    BY <1>1, <2>1, <2>2, Stable DEF Justified
<1>4. \A o \in co'.todo : row'[o].linked
  BY <1>0, NextSteps, Stable DEF ReportInv, Local
<1>5. co'.pc = "recover" => row'[co'.occ].linked
  BY <1>0, NextSteps, Stable DEF ReportInv
<1>6. ASSUME NEW o \in Occ, row[o].linked
      PROVE  /\ OutcomeOfRun(bound[o]) \in {"succeeded", "failed"}
             /\ Justified(o, OutcomeOfRun(bound[o]))
  BY <1>6 DEF OutcomeOfRun, Justified, OwnRunInv
<1>7. co'.pc = "settle" => Justified(co.occ, co.next)' /\ co'.next # "attention"
  <2>1. SUFFICES ASSUME co'.pc = "settle"
                 PROVE  Justified(co'.occ, co'.next) /\ co'.next # "attention"
    BY <1>0, <1>1 DEF Justified
  <2>2. \/ co.pc = "settle" /\ co'.occ = co.occ /\ co'.next = co.next
        \/ co'.occ \in co.todo /\ co'.next = OutcomeOfRun(bound[co'.occ])
    BY <1>0, <2>1, NextSteps
  <2>3. QED
    BY <1>0, <1>6, <2>1, <2>2 DEF ReportInv
<1>8. ASSUME co'.pc = "finish"
      PROVE  \/ Justified(co.occ, co.next)' /\ co'.next # "attention"
             \/ co'.next = "retrying"
             \/ co'.next = "skipped" /\ ~row'[co'.occ].linked
  <2>1. \/ co.pc = "finish" /\ co'.occ = co.occ /\ co'.next = co.next
        \/ /\ co.pc = "recover" /\ co'.occ = co.occ
           /\ co'.next = OutcomeOfRun(bound[co.occ])
        \/ /\ co.pc = "busy" /\ co'.occ = co.occ
           /\ co'.next \in {"retrying", "skipped"}
    BY <1>0, <1>8, NextSteps
  <2>2. co'.occ \in Occ /\ (~row[co'.occ].linked => ~row'[co'.occ].linked)
    BY <1>0, <1>8, FieldSteps
  <2>3. \/ Justified(co'.occ, co'.next) /\ co'.next # "attention"
        \/ co'.next = "retrying"
        \/ co'.next = "skipped" /\ ~row[co'.occ].linked
    BY <1>6, <2>1, <2>2 DEF ReportInv, Inv, LaunchInv
  <2>4. QED
    BY <1>1, <2>2, <2>3 DEF Justified
<1>9. ASSUME co'.pc = "launch" PROVE row'[co'.occ].status \notin Terminal
  <2>0. co.occ \in Occ /\ co'.occ = co.occ /\ co.pc \in {"accept", "launch"}
    BY <1>0, <1>9 DEF CoStep, Path
  <2>1. row[co.occ] \in Row /\ row'[co.occ] \in Row /\ RowStep(co.occ)
    BY <1>0, <2>0 DEF Typed, TypeOK
  <2>2. row'[co.occ].linked
    BY <1>9, <2>0 DEF Inv, LaunchInv
  <2>3. CASE co.pc = "accept"
    <3>1. ~row[co.occ].linked
      BY <2>3 DEF Inv, LaunchInv
    <3>2. row[co.occ].status = "running" /\ row'[co.occ].status = "running"
      BY <2>1, <2>2, <3>1 DEF RowStep, Row, Holds, Owned, ClaimedRow, ClosedRow
    <3>3. QED
      BY <2>0, <3>2 DEF Terminal
  <2>4. CASE co.pc = "launch"
    <3>1. /\ row[co.occ].linked /\ launches[co.occ] = 0
          /\ row[co.occ].status \notin Terminal \cup {"future", "pending"}
      BY <2>0, <2>4 DEF Inv, LaunchInv, RowInv, ReportInv
    <3>2. \A t \in tasks : t.occ = co.occ => t.do = "release"
      BY <3>1 DEF ReportInv
    <3>3. CASE \E st \in Closing : Closer(co.occ, st)
                                  /\ row'[co.occ] = ClosedRow(row[co.occ], st)
      BY <2>0, <2>1, <2>4, <3>2, <3>3 DEF Closer, Closing, Terminal, ClosedRow, Row
    <3>4. CASE row'[co.occ] = ClaimedRow(row[co.occ])
      BY <2>0, <2>1, <3>4 DEF ClaimedRow, Row, Terminal
    <3>5. CASE \/ row'[co.occ] = row[co.occ]
               \/ row'[co.occ] = [row[co.occ] EXCEPT !.lease = "expired"]
      BY <2>0, <2>1, <3>1, <3>5 DEF Row
    <3>6. QED
      BY <2>1, <2>4, <3>1, <3>3, <3>4, <3>5 DEF RowStep
  <2>5. QED
    BY <2>0, <2>3, <2>4
<1>10. QED
  BY <1>2, <1>3, <1>4, <1>5, <1>7, <1>8, <1>9 DEF ReportInv

-----------------------------------------------------------------------------
(* The refinement.                                                         *)

P == [o \in Occ |-> Phase(o)]
W == [o \in Occ |-> Work(o)]

Open == {"pending", "running", "retrying"}

LEMMA PhaseIs ==
  ASSUME Typed, NEW o \in Occ
  PROVE  /\ row[o].status \in Open => Phase(o) = "open"
         /\ row[o].status = "attention" => Phase(o) = "asking"
         /\ row[o].status \notin Open \cup {"attention"} => Phase(o) = row[o].status
  BY DEF Phase, Open

LEMMA WorkIs ==
  ASSUME NEW o \in Occ
  PROVE  /\ row[o].linked /\ exec[o] = "ok" => Work(o) = "done"
         /\ ~(row[o].linked /\ exec[o] = "ok") /\ launches[o] > 0 => Work(o) = "started"
         /\ ~(row[o].linked /\ exec[o] = "ok") /\ ~(launches[o] > 0) => Work(o) = "none"
  BY DEF Work

\* an execution is done when its run ends well, or the user finishes it
LEMMA OkSteps ==
  ASSUME Typed, [Next]_vars, NEW o \in Occ, exec[o] # "ok", exec'[o] = "ok"
  PROVE  /\ row' = row /\ launches' = launches
         /\ \A p \in Occ \ {o} : exec'[p] = exec[p]
<1>0. exec \in [Occ -> Exec]
  BY DEF Typed, TypeOK
<1>1. CASE Execution
  BY <1>0, <1>1 DEF Execution, RunEnds, RunAsksUser, RunAsksPermission, PromptStarts,
       PromptRefused, UserPausesRun, UserFinishesPausedRun, store, history
<1>2. ASSUME Coordinator PROVE FALSE
  BY <1>0, <1>2 DEF Coordinator, Wake, KeepRunning, Reconcile, Pick, Materialize,
       MaterializeMissed, Settle, MarkMissed, Rearm, Claim, InstallGuard, Recover, Busy,
       Start, Finish, PrepareRun, PreparePrompt, Accept, AcceptFails, Launch, Bind,
       FinishFailure, ResumeBind, runs
<1>3. ASSUME Background \/ UNCHANGED vars PROVE FALSE
  BY <1>3 DEF Background, FinishTask, ReleaseTask, TaskHeartbeat, TaskLeaseLost, Deliver, Heartbeat, LeaseLost,
       runs, vars
<1>4. ASSUME Environment PROVE FALSE
  BY <1>0, <1>4 DEF Environment, RunNow, ResumeClaim, AnswerDirectly, HeartbeatFault,
       Expire, PrepareFails, LaunchFails, Sleep, RetryElapses, Restart, EditJob, runs
<1>5. QED
  BY <1>1, <1>2, <1>3, <1>4 DEF Next

\* the other steps do not change what is known of an execution
LEMMA WorkSteps ==
  ASSUME OwnRuns, Inv, OwnRunInv, OwnRunInv', [Next]_vars, UNCHANGED launches,
         NEW o \in Occ, exec'[o] = "ok" => exec[o] = "ok"
  PROVE  Work(o)' = Work(o)
<1>1. row[o].linked => row'[o].linked /\ (exec[o] = "ok" => exec'[o] = "ok")
  BY Stable
<1>2. row'[o].linked /\ ~row[o].linked => exec'[o] # "ok"
  BY FieldSteps, CoSteps DEF Inv, Typed, OwnRunInv, CoStep, Path
<1>3. QED
  BY <1>1, <1>2 DEF Work

\* a step changes what is reported of one occurrence at most
Reported(o, st) == /\ row' = [row EXCEPT ![o] = row'[o]]
                   /\ row'[o].status = st

Quiet ==
  \A o \in Occ : \/ row'[o].status = row[o].status
                 \/ row[o].status \in Open /\ row'[o].status \in Open

Creates == \E o \in Occ : row[o].status = "future" /\ Reported(o, "pending")

Misses == \E o \in Occ : row[o].status = "pending" /\ Reported(o, "missed")

Reopens == \E o \in Occ : row[o].status = "attention" /\ Reported(o, "running")

Closes ==
  \E o \in Occ, st \in Closing :
    /\ row[o].status = "running" /\ Reported(o, st)
    /\ \/ co.pc \in {"settle", "finish"} /\ co.occ = o /\ co.next = st
       \/ st = "failed"
       \/ \E t \in tasks : t.occ = o /\ t.do = st /\ t.do # "release" /\ FinishTask(t)

Reports == Quiet \/ Creates \/ Misses \/ Reopens \/ Closes

LEMMA ReportSteps == Typed /\ [Next]_vars => Reports
<1> SUFFICES ASSUME Typed, [Next]_vars PROVE Reports
  OBVIOUS
<1>0. /\ row \in [Occ -> Row] /\ tasks \subseteq Task /\ co \in Local
      /\ co.pc \notin {"idle", "wake"} => co.occ \in Occ
  BY DEF Typed, TypeOK, Target
<1>1. \A r \in Row : /\ ClaimedRow(r).status = "running"
                     /\ \A st : ClosedRow(r, st).status = st
                     /\ \A st : [r EXCEPT !.status = st].status = st
                     /\ [r EXCEPT !.linked = TRUE].status = r.status
                     /\ [r EXCEPT !.lease = "expired"].status = r.status
  BY DEF ClaimedRow, ClosedRow, Row
<1>2. CASE UNCHANGED row
  BY <1>2 DEF Reports, Quiet
<1>3. CASE \E registering \in BOOLEAN : Wake(registering)
  BY <1>0, <1>1, <1>3 DEF Wake, RecoverExpired, Reports, Quiet, Open
<1>4. CASE \E o \in Occ : Materialize(o) \/ MaterializeMissed(o) \/ RunNow(o)
  <2>1. PICK o \in Occ : /\ row[o].status = "future"
                        /\ row' = [row EXCEPT ![o] = [row[o] EXCEPT !.status = "pending"]]
    BY <1>0, <1>4 DEF Materialize, MaterializeMissed, RunNow, Oldest, Due
  <2>2. row' = [row EXCEPT ![o] = row'[o]] /\ row'[o] = [row[o] EXCEPT !.status = "pending"]
    BY <1>0, <2>1
  <2>3. Reported(o, "pending")
    BY <1>0, <2>2 DEF Reported, Row
  <2>4. QED
    BY <2>1, <2>3 DEF Reports, Creates
<1>5. CASE MarkMissed
  <2>1. CASE row[co.occ].status = "pending"
    <3>1. /\ co.occ \in Occ
          /\ row' = [row EXCEPT ![co.occ] = [row[co.occ] EXCEPT !.status = "missed"]]
      BY <1>0, <1>5, <2>1 DEF MarkMissed
    <3>2. /\ row' = [row EXCEPT ![co.occ] = row'[co.occ]]
          /\ row'[co.occ] = [row[co.occ] EXCEPT !.status = "missed"]
      BY <1>0, <3>1
    <3>3. Reported(co.occ, "missed")
      BY <1>0, <3>1, <3>2 DEF Reported, Row
    <3>4. QED
      BY <2>1, <3>1, <3>3 DEF Reports, Misses
  <2>2. CASE row[co.occ].status # "pending"
    <3>1. row' = [row EXCEPT ![co.occ] = row[co.occ]]
      BY <1>5, <2>2 DEF MarkMissed
    <3>2. QED
      BY <1>0, <1>2, <3>1
  <2>3. QED
    BY <2>1, <2>2
<1>6. CASE Claim
  <2>1. CASE Claimable(co.occ)
    <3>1. row' = [row EXCEPT ![co.occ] = ClaimedRow(row[co.occ])] /\ co.occ \in Occ
      BY <1>0, <1>6, <2>1 DEF Claim
    <3>2. QED
      BY <1>0, <1>1, <2>1, <3>1 DEF Claimable, Runnable, Reports, Quiet, Open
  <2>2. CASE ~Claimable(co.occ)
    BY <1>2, <1>6, <2>2 DEF Claim
  <2>3. QED
    BY <2>1, <2>2
<1>7. CASE \E o \in Occ : ResumeClaim(o)
  <2>1. PICK o \in Occ : /\ row[o].status = "attention"
                        /\ row' = [row EXCEPT ![o] = ClaimedRow(row[o])]
    BY <1>7 DEF ResumeClaim
  <2>2. row' = [row EXCEPT ![o] = row'[o]] /\ row'[o] = ClaimedRow(row[o])
    BY <1>0, <2>1
  <2>3. Reported(o, "running")
    BY <1>0, <1>1, <2>2 DEF Reported
  <2>4. QED
    BY <2>1, <2>3 DEF Reports, Reopens
<1>8. CASE Settle \/ Finish
  <2>1. CASE Holds(co.occ)
    <3>1. /\ co.pc \in {"settle", "finish"} /\ co.occ \in Occ /\ co.next \in Closing
          /\ row' = [row EXCEPT ![co.occ] = ClosedRow(row[co.occ], co.next)]
      BY <1>0, <1>8, <2>1 DEF Settle, Finish, Local, Closing
    <3>2. /\ row' = [row EXCEPT ![co.occ] = row'[co.occ]]
          /\ row'[co.occ] = ClosedRow(row[co.occ], co.next)
      BY <1>0, <2>1, <3>1
    <3>3. row[co.occ].status = "running" /\ Reported(co.occ, co.next)
      BY <1>0, <1>1, <2>1, <3>1, <3>2 DEF Holds, Owned, Reported
    <3>4. QED
      BY <3>1, <3>3 DEF Reports, Closes
  <2>2. CASE ~Holds(co.occ)
    BY <1>2, <1>8, <2>2 DEF Settle, Finish
  <2>3. QED
    BY <2>1, <2>2
<1>9. CASE FinishFailure
  <2>1. CASE Holds(co.occ)
    <3>1. /\ co.occ \in Occ
          /\ row' = [row EXCEPT ![co.occ] = ClosedRow(row[co.occ], "failed")]
      BY <1>0, <1>9, <2>1 DEF FinishFailure
    <3>2. /\ row' = [row EXCEPT ![co.occ] = row'[co.occ]]
          /\ row'[co.occ] = ClosedRow(row[co.occ], "failed")
      BY <1>0, <2>1, <3>1
    <3>3. row[co.occ].status = "running" /\ Reported(co.occ, "failed")
      BY <1>0, <1>1, <2>1, <3>1, <3>2 DEF Holds, Owned, Reported
    <3>4. QED
      BY <3>1, <3>3 DEF Reports, Closes, Closing, Terminal
  <2>2. CASE ~Holds(co.occ)
    BY <1>2, <1>9, <2>2 DEF FinishFailure
  <2>3. QED
    BY <2>1, <2>2
<1>10. CASE \E t \in tasks : FinishTask(t)
  <2>1. PICK t \in tasks : FinishTask(t)
    BY <1>10
  <2>2. t.occ \in Occ /\ t.do \in Closing /\ t.do # "release"
    BY <1>0, <2>1 DEF FinishTask, Task, Closing
  <2>3. CASE Holds(t.occ)
    <3>1. row' = [row EXCEPT ![t.occ] = ClosedRow(row[t.occ], t.do)]
      BY <2>1, <2>3 DEF FinishTask
    <3>2. /\ row' = [row EXCEPT ![t.occ] = row'[t.occ]]
          /\ row'[t.occ] = ClosedRow(row[t.occ], t.do)
      BY <1>0, <2>2, <2>3, <3>1
    <3>3. row[t.occ].status = "running" /\ Reported(t.occ, t.do)
      BY <1>0, <1>1, <2>2, <2>3, <3>1, <3>2 DEF Holds, Owned, Reported
    <3>4. QED
      BY <2>1, <2>2, <3>3 DEF Reports, Closes
  <2>4. CASE ~Holds(t.occ)
    BY <1>2, <2>1, <2>4 DEF FinishTask
  <2>5. QED
    BY <2>3, <2>4
<1>11. CASE \/ \E t \in tasks : ReleaseTask(t) \/ TaskHeartbeat(t) \/ TaskLeaseLost(t)
            \/ \E o \in Occ : Heartbeat(o) \/ LeaseLost(o)
  BY <1>0, <1>1, <1>11, HeartbeatRows DEF ReleaseTask, Owned, Reports, Quiet, Open
<1>12. CASE Accept
  BY <1>0, <1>1, <1>12 DEF Accept, Reports, Quiet
<1>13. CASE Sleep \/ \E o \in Occ : Expire(o)
  <2>1. \A o \in Occ : row'[o] \in {row[o], [row[o] EXCEPT !.lease = "expired"]}
    BY <1>0, <1>13 DEF Sleep, Expire
  <2>2. \A o \in Occ : row'[o].status = row[o].status
    BY <1>0, <2>1 DEF Row
  <2>3. QED
    BY <2>2 DEF Reports, Quiet
<1>14. CASE \/ \E o \in Occ : KeepRunning(o) \/ Reconcile(o) \/ Pick(o) \/ PreparePrompt(o)
            \/ Rearm \/ InstallGuard \/ Recover \/ Busy \/ Start \/ PrepareRun
            \/ AcceptFails \/ Launch \/ Bind \/ ResumeBind
  <2>1. row' = row
    BY <1>14 DEF KeepRunning, Reconcile, Pick, PreparePrompt, Rearm, InstallGuard,
         Recover, Busy, Start, PrepareRun, AcceptFails, Launch, Bind, ResumeBind, store
  <2>2. QED
    BY <1>2, <2>1
<1>15. CASE Execution \/ (\E e \in events : Deliver(e)) \/ UNCHANGED vars
  <2>1. row' = row
    BY <1>15 DEF Execution, RunEnds, RunAsksUser, RunAsksPermission, PromptStarts,
         PromptRefused, UserPausesRun, UserFinishesPausedRun, Deliver, store, vars
  <2>2. QED
    BY <1>2, <2>1
<1>16. CASE \/ \E o \in Occ : AnswerDirectly(o) \/ HeartbeatFault(o)
            \/ RetryElapses \/ Restart \/ (\E reset \in BOOLEAN : EditJob(reset))
            \/ PrepareFails \/ LaunchFails
  <2>1. row' = row
    BY <1>16 DEF AnswerDirectly, HeartbeatFault, RetryElapses, Restart, EditJob,
         PrepareFails, LaunchFails, store
  <2>2. QED
    BY <1>2, <2>1
<1>17. CASE Coordinator
  BY ONLY <1>3, <1>4, <1>5, <1>6, <1>8, <1>9, <1>12, <1>14, <1>17 DEF Coordinator
<1>18. CASE Background \/ Execution \/ UNCHANGED vars
  BY ONLY <1>10, <1>11, <1>15, <1>18 DEF Background
<1>19. CASE Environment
  BY ONLY <1>4, <1>7, <1>13, <1>19, <1>16 DEF Environment
<1>20. QED
  BY ONLY [Next]_vars, <1>17, <1>18, <1>19 DEF Next

\* the phase and the work of the rows, step by step
LEMMA OnePhase ==
  ASSUME Typed, Typed', NEW o \in Occ, NEW st, Reported(o, st)
  PROVE  P' = [P EXCEPT ![o] = Phase(o)']
<1>1. \A p \in Occ \ {o} : row'[p] = row[p]
  BY DEF Typed, TypeOK, Reported
<1>2. \A p \in Occ \ {o} : Phase(p)' = Phase(p)
  BY <1>1 DEF Phase
<1>3. QED
  BY <1>2 DEF P

LEMMA SamePhase ==
  ASSUME Typed, Typed',
         \A o \in Occ : \/ row'[o].status = row[o].status
                        \/ row[o].status \in Open /\ row'[o].status \in Open
  PROVE  P' = P
<1>1. \A o \in Occ : Phase(o)' = Phase(o)
  BY DEF Phase, Open
<1>2. QED
  BY <1>1 DEF P

LEMMA PhaseNow ==
  ASSUME Typed', NEW o \in Occ
  PROVE  /\ row'[o].status \in Open => Phase(o)' = "open"
         /\ row'[o].status = "attention" => Phase(o)' = "asking"
         /\ row'[o].status \notin Open \cup {"attention"} => Phase(o)' = row'[o].status
  BY DEF Phase, Open

ContractMove ==
  \/ P' = P /\ W' = W
  \/ \E o \in Occ :
       \/ Contract!Create(o) \/ Contract!Start(o) \/ Contract!Complete(o)
       \/ Contract!Ask(o) \/ Contract!Reopen(o)
       \/ \E outcome \in {"succeeded", "failed", "skipped", "missed"} :
            Contract!Settle(o, outcome)

LEMMA ContractStep ==
  ASSUME OwnRuns, ContractInv, ContractInv', [Next]_vars
  PROVE  [Contract!Next]_(Contract!vars)
<1> SUFFICES ContractMove
  BY DEF ContractMove, Contract!Next, Contract!vars, Contract!Outcome, P, W
<1>0. /\ Typed /\ Typed' /\ Reports
      /\ \A o \in Occ : P[o] = Phase(o) /\ W[o] = Work(o)
  BY ReportSteps DEF ContractInv, Inv, Typed, P, W
<1>1. CASE UNCHANGED launches /\ \A o \in Occ : exec'[o] = "ok" => exec[o] = "ok"
  <2>1. \A o \in Occ : Work(o)' = Work(o)
    BY <1>1, WorkSteps DEF ContractInv
  <2>2. W' = W
    BY <2>1 DEF W
  <2>3. CASE Quiet
    BY <1>0, <2>2, <2>3, SamePhase DEF ContractMove, Quiet
  <2>4. CASE Creates
    <3>1. PICK o \in Occ : row[o].status = "future" /\ Reported(o, "pending")
      BY <2>4 DEF Creates
    <3>2. P[o] = "future" /\ P' = [P EXCEPT ![o] = "open"]
      BY <1>0, <3>1, PhaseIs, PhaseNow, OnePhase DEF Reported, Open
    <3>3. Contract!Create(o)
      BY <2>2, <3>2 DEF Contract!Create, P, W
    <3>4. QED
      BY <3>3 DEF ContractMove
  <2>5. CASE Misses
    <3>1. PICK o \in Occ : row[o].status = "pending" /\ Reported(o, "missed")
      BY <2>5 DEF Misses
    <3>2. P[o] = "open" /\ P' = [P EXCEPT ![o] = "missed"]
      BY <1>0, <3>1, PhaseIs, PhaseNow, OnePhase DEF Reported, Open
    <3>3. W[o] = "none"
      BY <1>0, <3>1, WorkIs DEF ContractInv, Inv, RowInv, LaunchInv
    <3>4. Contract!Settle(o, "missed")
      BY <2>2, <3>2, <3>3 DEF Contract!Settle, P, W
    <3>5. QED
      BY <3>4 DEF ContractMove
  <2>6. CASE Reopens
    <3>1. PICK o \in Occ : row[o].status = "attention" /\ Reported(o, "running")
      BY <2>6 DEF Reopens
    <3>2. P[o] = "asking" /\ P' = [P EXCEPT ![o] = "open"]
      BY <1>0, <3>1, PhaseIs, PhaseNow, OnePhase DEF Reported, Open
    <3>3. Contract!Reopen(o)
      BY <2>2, <3>2 DEF Contract!Reopen, P, W
    <3>4. QED
      BY <3>3 DEF ContractMove
  <2>7. CASE Closes
    <3>1. PICK o \in Occ, st \in Closing :
               /\ row[o].status = "running" /\ Reported(o, st)
               /\ \/ co.pc \in {"settle", "finish"} /\ co.occ = o /\ co.next = st
                  \/ st = "failed"
                  \/ \E t \in tasks : t.occ = o /\ t.do = st /\ t.do # "release"
      BY <2>7 DEF Closes
    <3>2. P[o] = "open" /\ P' = [P EXCEPT ![o] = Phase(o)']
      BY <1>0, <3>1, PhaseIs, OnePhase DEF Open
    <3>3. \/ Justified(o, st) /\ (st = "attention" => launches[o] = 1)
          \/ st \in {"failed", "retrying"}
          \/ st = "skipped" /\ ~row[o].linked
      BY <3>1 DEF ContractInv, ReportInv
    <3>4. CASE st = "retrying"
      <4>1. P' = P
        BY <1>0, <3>1, <3>4, SamePhase DEF Reported, Open, Typed, TypeOK
      <4>2. QED
        BY <2>2, <4>1 DEF ContractMove
    <3>5. CASE st = "attention"
      <4>1. P' = [P EXCEPT ![o] = "asking"]
        BY <1>0, <3>1, <3>2, <3>5, PhaseNow DEF Reported
      <4>2. W[o] # "none"
        BY <1>0, <3>3, <3>5, WorkIs
      <4>3. Contract!Ask(o)
        BY <2>2, <3>2, <4>1, <4>2 DEF Contract!Ask, P, W
      <4>4. QED
        BY <4>3 DEF ContractMove
    <3>6. CASE st \in {"succeeded", "failed", "skipped"}
      <4>1. P' = [P EXCEPT ![o] = st]
        BY <1>0, <3>1, <3>2, <3>6, PhaseNow DEF Reported, Open
      <4>2. /\ st = "succeeded" => W[o] = "done"
            /\ st = "skipped" => W[o] = "none"
        BY <1>0, <3>3, <3>6, WorkIs DEF ContractInv, Inv, LaunchInv, Justified
      <4>3. Contract!Settle(o, st)
        BY <2>2, <3>2, <3>6, <4>1, <4>2 DEF Contract!Settle, P, W
      <4>4. QED
        BY <3>6, <4>3 DEF ContractMove
    <3>7. QED
      BY <3>3, <3>4, <3>5, <3>6 DEF Justified
  <2>8. QED
    BY ONLY <1>0, <2>3, <2>4, <2>5, <2>6, <2>7 DEF Reports
<1>2. CASE Launch
  <2>0. /\ co.pc = "launch" /\ co.occ \in Occ /\ row' = row
        /\ launches' = [launches EXCEPT ![co.occ] = launches[co.occ] + 1]
    BY <1>0, <1>2 DEF Launch, store, Typed, Target
  <2>1. /\ row[co.occ].linked /\ launches[co.occ] = 0 /\ exec[co.occ] = "prepared"
        /\ bound[co.occ] = co.occ /\ row[co.occ].status \notin Terminal
        /\ row[co.occ].status \notin {"future", "pending"}
    BY <2>0 DEF ContractInv, Inv, LaunchInv, OwnRunInv, ReportInv, RowInv
  <2>2. exec' = [exec EXCEPT ![co.occ] = "active"]
    BY <1>2, <2>0, <2>1 DEF Launch, Continues
  <2>3. P' = P
    BY <1>0, <2>0, SamePhase
  <2>4. P[co.occ] = "open" /\ W[co.occ] = "none"
    BY <1>0, <2>0, <2>1, PhaseIs, WorkIs DEF Open, Typed, TypeOK, Row, Status
  <2>5. W' = [W EXCEPT ![co.occ] = "started"]
    <3>1. \A o \in Occ \ {co.occ} : W'[o] = W[o]
      BY <1>0, <2>0, <2>2 DEF W, Work, Typed, TypeOK
    <3>2. W'[co.occ] = "started"
      BY <2>0, <2>1, <2>2, <1>0 DEF W, Work, Typed, TypeOK
    <3>3. QED
      BY <2>0, <3>1, <3>2 DEF W
  <2>6. Contract!Start(co.occ)
    BY <2>3, <2>4, <2>5 DEF Contract!Start, P, W
  <2>7. QED
    BY <2>0, <2>6 DEF ContractMove
<1>3. CASE \E o \in Occ : exec[o] # "ok" /\ exec'[o] = "ok"
  <2>1. PICK o \in Occ : exec[o] # "ok" /\ exec'[o] = "ok"
    BY <1>3
  <2>2. row' = row /\ launches' = launches /\ \A p \in Occ \ {o} : exec'[p] = exec[p]
    BY <1>0, <2>1, OkSteps
  <2>3. P' = P
    BY <1>0, <2>2, SamePhase
  <2>4. \A p \in Occ \ {o} : W'[p] = W[p]
    BY <2>2 DEF W, Work
  <2>5. CASE row[o].linked
    <3>1. W[o] # "done" /\ W'[o] = "done"
      BY <2>1, <2>2, <2>5 DEF W, Work
    <3>2. W' = [W EXCEPT ![o] = "done"]
      BY <2>4, <3>1 DEF W
    <3>3. Contract!Complete(o)
      BY <2>3, <3>1, <3>2 DEF Contract!Complete, P, W
    <3>4. QED
      BY <3>3 DEF ContractMove
  <2>6. CASE ~row[o].linked
    <3>1. W'[o] = W[o]
      BY <2>2, <2>6 DEF W, Work
    <3>2. W' = W
      BY <2>4, <3>1 DEF W
    <3>3. QED
      BY <2>3, <3>2 DEF ContractMove
  <2>7. QED
    BY <2>5, <2>6
<1>4. QED
  BY <1>0, <1>1, <1>2, <1>3, LaunchSteps

LEMMA ContractInitially == Init => ContractInv /\ Contract!Init
<1> SUFFICES ASSUME Init PROVE ContractInv /\ Contract!Init
  OBVIOUS
<1>1. co.pc = "idle" /\ co.todo = {} /\ events = {} /\ tasks = {}
  BY DEF Init, Idle
<1>2. \A o \in Occ : row[o].status = "future" /\ ~row[o].linked /\ launches[o] = 0
  BY DEF Init
<1>3. ContractInv
  BY <1>1, <1>2, Initially DEF ContractInv, ReportInv, OwnRunInv
<1>4. ASSUME NEW o \in Occ PROVE Phase(o) = "future" /\ Work(o) = "none"
  <2>1. Typed
    BY <1>3 DEF ContractInv, Inv, Typed
  <2>2. Phase(o) = "future"
    BY <1>2, <2>1, PhaseIs DEF Open
  <2>3. Work(o) = "none"
    BY <1>2, WorkIs
  <2>4. QED
    BY <2>2, <2>3
<1>5. QED
  BY <1>3, <1>4 DEF Contract!Init

LEMMA ContractInductive ==
  OwnRuns /\ ContractInv /\ [Next]_vars => ContractInv'
<1> SUFFICES ASSUME OwnRuns, ContractInv, [Next]_vars PROVE ContractInv'
  OBVIOUS
<1>1. Inv'
  BY Inductive DEF ContractInv
<1>2. OwnRunInv'
  BY <1>1, OwnRunInvariance DEF ContractInv
<1>3. ReportInv'
  BY <1>1, <1>2, ReportInvariance DEF ContractInv
<1>4. QED
  BY <1>1, <1>2, <1>3 DEF ContractInv

\* What is about to be reported is what happened, in every reachable state.
THEOREM ContractInvariance == OwnRuns => (Spec => []ContractInv)
<1> SUFFICES ASSUME OwnRuns PROVE Spec => []ContractInv
  OBVIOUS
<1>1. Init => ContractInv
  BY ContractInitially
<1>2. ContractInv /\ [Next]_vars => ContractInv'
  BY ContractInductive
<1>3. QED
  BY <1>1, <1>2, PTL DEF Spec

\* When every delivery has a run of its own, the scheduler implements the
\* contract of an occurrence, whatever is lost, late or restarted.
THEOREM Implements == OwnRuns => (Spec => ImplementsContract)
<1> SUFFICES ASSUME OwnRuns PROVE Spec => ImplementsContract
  OBVIOUS
<1>1. Init => Contract!Init
  BY ContractInitially
<1>2. ContractInv /\ ContractInv' /\ [Next]_vars => [Contract!Next]_(Contract!vars)
  BY ContractStep
<1>3. Spec => []ContractInv
  BY ContractInvariance
<1>4. QED
  BY <1>1, <1>2, <1>3, PTL DEF Spec, ImplementsContract, Contract!Spec

-----------------------------------------------------------------------------
(* The registry, the guard and the spawned tasks of an occurrence.         *)

Present(o) == entry[o] # "absent"

\* somebody besides the coordinator is to renew, finish or release the row
Guarded(o) == (Present(o) /\ guard[o] # "off") \/ \E t \in tasks : t.occ = o

\* tasks about to write that the occurrence waits for the user
Asking(o) == {t \in tasks : t.occ = o /\ t.do = "attention"}
AsksOnce(o) == \A t, u \in Asking(o) : t = u

\* an execution that goes on, and is not about to be paused by the recovery
Out(o) == exec[o] \in Going /\ ~(co.occ = o /\ co.pc = "recover")

\* the states of the coordinator in which the row it claimed is registered
Registered == {"recover", "busy", "prepare", "accept", "launch", "bind", "resume"}

RegistryInv ==
  /\ \A o \in Occ :
       /\ row[o].status = "running" => row[o].owner \in Nat /\ row[o].owner <= epoch
       /\ ~Present(o) => guard[o] = "off"
       /\ Present(o) /\ guard[o] = "off" => row[o].status \in Terminal
       /\ row[o].status = "attention" => launches[o] # 0
       /\ exec[o] # "spawned"
  /\ co.pc \in {"idle", "wake"} => co.occ = None
  /\ co.pc \in {"claim", "missed"} => row[co.occ].status # "running"
  /\ co.pc = "claim" => co.how # "resume"
  /\ co.pc \in Registered /\ Holds(co.occ) => Guarded(co.occ) /\ guard[co.occ] # "lost"

\* a question is written down once, and answered before the row is registered
AskInv ==
  \A o \in Occ : Out(o) =>
    /\ AsksOnce(o)
    /\ Asking(o) # {} => ~Present(o) /\ row[o].status # "attention"
    /\ Present(o) => row[o].status # "attention"
    /\ co.pc = "guard" /\ co.how = "resume" /\ co.occ = o =>
         ~Present(o) /\ Asking(o) = {} /\ row[o].status # "attention"

\* a task goes on as itself when the job's revision moves
LEMMA StaledTask ==
  ASSUME NEW ts, ts \subseteq Task
  PROVE  /\ \A t \in ts : \E u \in StaledTasks(ts) : u.occ = t.occ /\ u.do = t.do
         /\ \A u \in StaledTasks(ts) :
              \E t \in ts : u = [t EXCEPT !.rev = Staled(t.rev)] /\ u.occ = t.occ /\ u.do = t.do
<1>1. ASSUME NEW t \in ts
      PROVE  /\ [t EXCEPT !.rev = Staled(t.rev)].occ = t.occ
             /\ [t EXCEPT !.rev = Staled(t.rev)].do = t.do
  <2>1. t \in Task
    OBVIOUS
  <2>2. QED
    BY <2>1 DEF Task
<1>2. QED
  BY <1>1 DEF StaledTasks

\* what a step may do to the registered guard of an occurrence
RegStep(o) ==
  \/ (Present(o)' <=> Present(o)) /\ guard'[o] = guard[o]
  \/ ~Present(o)' /\ guard'[o] = "off"
  \/ /\ InstallGuard /\ co.occ = o /\ co.pc = "guard" /\ co'.occ = o
     /\ ~Present(o) /\ Present(o)' /\ guard'[o] = "renew"
     /\ UNCHANGED <<row, tasks, exec>> /\ co'.pc # "guard"
     /\ co.how = "resume" \/ co'.pc = "recover" \/ ~row[o].linked \/ co.how = "manual"
  \/ guard'[o] = "off" /\ (Present(o)' <=> Present(o)) /\ row' = row /\ row[o].status \in Terminal
  \/ /\ guard[o] \notin {"off", "lost"} /\ guard'[o] # "off" /\ (Present(o)' <=> Present(o))
     /\ guard'[o] = "lost" => ~Holds(o)'

LEMMA StaledPresent ==
  ASSUME Typed, NEW o \in Occ
  PROVE  /\ StaledEntries[o] = "absent" <=> entry[o] = "absent"
         /\ \A task, retry : PersistProjection(task, retry) => (Present(o)' <=> Present(o))
         /\ \A p, rev, ts : TerminalProjection(p, rev, ts) => (Present(o)' <=> Present(o))
<1>0. entry \in [Occ -> Revision \cup {"absent"}]
  BY DEF Typed, TypeOK
<1>1. StaledEntries[o] = "absent" <=> entry[o] = "absent"
  BY <1>0 DEF StaledEntries, Staled
<1>2. ASSUME NEW task, NEW retry, PersistProjection(task, retry) PROVE Present(o)' <=> Present(o)
  <2>1. CASE co.rev = "fresh"
    <3>1. entry' = [StaledEntries EXCEPT ![co.occ] = IF entry[co.occ] = "absent" THEN "absent" ELSE "fresh"]
      BY <1>2, <2>1 DEF PersistProjection
    <3>2. StaledEntries \in [Occ -> Revision \cup {"absent"}]
      BY <1>0, StaledEntriesType
    <3>3. QED
      BY <1>1, <3>1, <3>2 DEF Present
  <2>2. CASE co.rev # "fresh"
    BY <1>0, <1>2, <2>2 DEF PersistProjection, Present
  <2>3. QED
    BY <2>1, <2>2
<1>3. ASSUME NEW p, NEW rev, NEW ts, TerminalProjection(p, rev, ts) PROVE Present(o)' <=> Present(o)
  BY <1>1, <1>3 DEF TerminalProjection, Present
<1>4. QED
  BY <1>1, <1>2, <1>3

\* what the heartbeat of an occurrence makes of its guard
LEMMA HeartbeatSteps ==
  ASSUME row \in [Occ -> Row], NEW o \in Occ, NEW from, NEW to,
         GuardStep(o, from, to), epoch' = epoch
  PROVE  /\ from \notin {"off", "lost"}
         /\ to = "lost" => ~Holds(o)'
         /\ to = "off" => row' = row /\ row[o].status \in Terminal
<1>1. ASSUME row' = [row EXCEPT ![o] = ClosedRow(row[o], "retrying")] PROVE ~Holds(o)'
  BY <1>1 DEF ClosedRow, Row, Holds, Owned
<1>2. ASSUME ~Owned(o), row' = row PROVE ~Holds(o)'
  BY <1>2 DEF Holds, Owned
<1>3. QED
  BY <1>1, <1>2 DEF GuardStep

LEMMA RegSteps == Typed /\ [Next]_vars => \A o \in Occ : RegStep(o)
<1> SUFFICES ASSUME Typed, [Next]_vars, NEW o \in Occ PROVE RegStep(o)
  OBVIOUS
<1>0. /\ entry \in [Occ -> Revision \cup {"absent"}] /\ guard \in [Occ -> GuardState]
      /\ co \in Local /\ tasks \subseteq Task
      /\ co.pc \notin {"idle", "wake"} => co.occ \in Occ
  BY DEF Typed, TypeOK, Target
<1> DEFINE Same == (Present(o)' <=> Present(o)) /\ guard'[o] = guard[o]
           Stopped == ~Present(o)' /\ guard'[o] = "off"
<1>1. CASE UNCHANGED <<entry, guard>> \/ Same \/ Stopped
  BY <1>1 DEF RegStep, Present
<1>2. ASSUME \E p \in Occ : StopGuard(p) PROVE Same \/ Stopped
  BY <1>0, <1>2 DEF StopGuard, Present
<1>3. ASSUME \/ \E p \in Occ : Materialize(p) \/ MaterializeMissed(p)
             \/ MarkMissed \/ Settle \/ Start \/ Finish \/ Bind \/ ResumeBind
             \/ \E t \in tasks : FinishTask(t)
             \/ \E reset \in BOOLEAN : EditJob(reset)
      PROVE  Same
  BY <1>3, StaledPresent DEF Materialize, MaterializeMissed, MarkMissed, Settle, Start,
     Finish, Bind, ResumeBind, FinishTask, EditJob, Present
<1>4. CASE Restart
  BY <1>4 DEF Restart, RegStep, Present
<1>5. CASE InstallGuard
  <2>1. CASE entry[co.occ] = "absent"
    <3>1. /\ co.pc = "guard" /\ co.occ \in Occ /\ co.rev \in Revision
          /\ entry' = [entry EXCEPT ![co.occ] = co.rev]
          /\ guard' = [guard EXCEPT ![co.occ] = "renew"]
          /\ co' = [co EXCEPT !.pc = CASE co.how = "resume" -> "resume"
                        [] co.how = "scheduled" /\ row[co.occ].linked -> "recover"
                        [] OTHER -> "busy"]
          /\ UNCHANGED <<row, tasks, exec>>
      BY <1>0, <1>5, <2>1 DEF InstallGuard, Goto, Local, store, runs
    <3>2. /\ co'.occ = co.occ /\ co'.pc # "guard"
          /\ co.how = "resume" \/ co'.pc = "recover" \/ ~row[co.occ].linked \/ co.how = "manual"
      BY <1>0, <3>1 DEF Local
    <3>3. CASE o = co.occ
      <4>1. ~Present(o) /\ Present(o)' /\ guard'[o] = "renew"
        BY <1>0, <2>1, <3>1, <3>3 DEF Present, Revision
      <4>2. QED
        BY <1>5, <3>1, <3>2, <3>3, <4>1 DEF RegStep
    <3>4. CASE o # co.occ
      BY <1>0, <1>1, <3>1, <3>4 DEF Present
    <3>5. QED
      BY <3>3, <3>4
  <2>2. CASE entry[co.occ] # "absent"
    BY <1>1, <1>5, <2>2 DEF InstallGuard
  <2>3. QED
    BY <2>1, <2>2
<1>6. ASSUME Recover \/ Busy \/ PrepareFails \/ AcceptFails \/ LaunchFails
      PROVE  \E p \in Occ : StopGuard(p)
  BY <1>0, <1>6 DEF Recover, Busy, PrepareFails, AcceptFails, LaunchFails
<1>7. ASSUME \E p \in Occ : Reconcile(p) PROVE \E p \in Occ : StopGuard(p)
  BY <1>7 DEF Reconcile, StopGuard
<1>8. ASSUME \/ \E e \in events : Deliver(e)
             \/ \E t \in tasks : TaskHeartbeat(t) \/ TaskLeaseLost(t)
             \/ \E p \in Occ : LeaseLost(p)
      PROVE  UNCHANGED <<entry, guard>> \/ \E p \in Occ : StopGuard(p)
  BY <1>0, <1>8 DEF Deliver, TaskHeartbeat, TaskLeaseLost, LeaseLost, Task, Event, Typed, TypeOK
<1>9. CASE \E p \in Occ : Heartbeat(p)
  <2>1. PICK p \in Occ, to \in GuardState :
          /\ GuardStep(p, guard[p], to) /\ guard' = [guard EXCEPT ![p] = to]
          /\ entry' = entry /\ epoch' = epoch
    BY <1>9 DEF Heartbeat
  <2>2. CASE p # o
    BY <1>0, <1>1, <2>1, <2>2 DEF Present
  <2>3. CASE p = o
    BY <1>0, <2>1, <2>3, HeartbeatSteps DEF Present, RegStep, Typed, TypeOK
  <2>4. QED
    BY <2>2, <2>3
<1>10. CASE \E p \in Occ : HeartbeatFault(p)
  BY <1>0, <1>10 DEF HeartbeatFault, Present, RegStep
<1>11. ASSUME \/ \E registering \in BOOLEAN : Wake(registering)
              \/ \E p \in Occ : KeepRunning(p) \/ Pick(p) \/ PreparePrompt(p)
              \/ Rearm \/ Claim \/ PrepareRun \/ Accept \/ Launch \/ FinishFailure
              \/ Execution \/ (\E t \in tasks : ReleaseTask(t)) \/ UNCHANGED vars
       PROVE  UNCHANGED <<entry, guard>>
  BY <1>11 DEF Wake, KeepRunning, Pick, PreparePrompt, Rearm, Claim, PrepareRun, Accept,
     Launch, FinishFailure, Execution, RunEnds, RunAsksUser, RunAsksPermission,
     PromptStarts, PromptRefused, UserPausesRun, UserFinishesPausedRun, ReleaseTask,
     process, vars
<1>12. ASSUME \/ \E p \in Occ : RunNow(p) \/ ResumeClaim(p) \/ AnswerDirectly(p) \/ Expire(p)
              \/ Sleep \/ RetryElapses
       PROVE  UNCHANGED <<entry, guard>>
  BY <1>12 DEF RunNow, ResumeClaim, AnswerDirectly, Expire, Sleep, RetryElapses, process
<1>13. CASE Coordinator
  BY ONLY <1>1, <1>2, <1>3, <1>5, <1>6, <1>7, <1>11, <1>13 DEF Coordinator
<1>14. CASE Background \/ Execution \/ UNCHANGED vars
  BY ONLY <1>1, <1>2, <1>3, <1>8, <1>9, <1>11, <1>14 DEF Background
<1>15. CASE Environment
  BY ONLY <1>1, <1>2, <1>3, <1>4, <1>6, <1>10, <1>12, <1>15 DEF Environment
<1>16. QED
  BY ONLY [Next]_vars, <1>13, <1>14, <1>15 DEF Next

\* who attends to an occurrence goes on, unless the row is given up or the
\* coordinator takes over
LEMMA GuardedSteps ==
  ASSUME Typed, [Next]_vars, epoch' = epoch, NEW o \in Occ, Guarded(o)
  PROVE  \/ Guarded(o)' \/ ~Holds(o)' \/ (co'.occ = o /\ co'.pc \notin Registered)
         \/ guard[o] = "lost"
<1>0. /\ entry \in [Occ -> Revision \cup {"absent"}] /\ guard \in [Occ -> GuardState]
      /\ row \in [Occ -> Row]
      /\ co \in Local /\ tasks \subseteq Task /\ events \subseteq Event
      /\ co.pc \notin {"idle", "wake"} => co.occ \in Occ
  BY DEF Typed, TypeOK, Target
<1> DEFINE Same == (Present(o)' <=> Present(o)) /\ guard'[o] = guard[o]
           Kept == (\E t \in tasks : t.occ = o) => (\E t \in tasks' : t.occ = o)
           Goal == \/ Guarded(o)' \/ ~Holds(o)' \/ (co'.occ = o /\ co'.pc \notin Registered)
                   \/ guard[o] = "lost"
<1>1. Same /\ Kept => Goal
  BY DEF Guarded
<1>3. tasks' = StaledTasks(tasks) => Kept
  BY <1>0, StaledTask
<1>4. \A task, retry : PersistProjection(task, retry) => Kept
  BY <1>3 DEF PersistProjection
<1>5. \A p, rev, ts : TerminalProjection(p, rev, ts) => tasks' = StaledTasks(ts) \/ tasks' = ts
  BY DEF TerminalProjection
<1>6. CASE \/ \E p \in Occ : Materialize(p) \/ MaterializeMissed(p)
           \/ MarkMissed \/ Settle \/ Start \/ Bind \/ ResumeBind \/ Finish
           \/ \E reset \in BOOLEAN : EditJob(reset)
  <2>1. Same
    BY <1>6, StaledPresent DEF Materialize, MaterializeMissed, MarkMissed, Settle, Start,
       Finish, Bind, ResumeBind, EditJob, Present
  <2>2. Kept
    <3>1. CASE Settle
      BY <1>3, <1>5, <3>1 DEF Settle
    <3>2. CASE Finish
      BY <1>4, <3>2 DEF Finish, SpawnRelease
    <3>3. QED
      BY <1>3, <1>4, <1>6, <3>1, <3>2 DEF Materialize, MaterializeMissed, MarkMissed, Start,
         Bind, ResumeBind, EditJob
  <2>3. QED
    BY <1>1, <2>1, <2>2
<1>7. CASE Restart
  BY <1>0, <1>7 DEF Restart, Typed, TypeOK
<1>8. CASE InstallGuard
  <2>1. CASE Same
    BY <1>1, <1>8, <2>1 DEF InstallGuard
  <2>2. CASE co.occ = o
    <3>1. Guarded(o)' \/ Same
      BY <1>0, <1>8, <2>2 DEF InstallGuard, Local, Revision, Present, Guarded
    <3>2. QED
      BY <2>1, <3>1
  <2>3. co.occ # o => Same
    BY <1>0, <1>8 DEF InstallGuard, Present
  <2>4. QED
    BY <2>1, <2>2, <2>3
<1>9. CASE Recover \/ Busy \/ PrepareFails \/ AcceptFails \/ LaunchFails
  <2>1. StopGuard(co.occ) /\ tasks' = tasks
    BY <1>9 DEF Recover, Busy, PrepareFails, AcceptFails, LaunchFails
  <2>2. co'.occ = co.occ /\ co'.pc \notin Registered
    BY <1>0, <1>9 DEF Recover, Busy, PrepareFails, AcceptFails, LaunchFails, Goto, Local,
       Registered
  <2>3. CASE co.occ # o
    BY <1>0, <1>1, <2>1, <2>3 DEF StopGuard, Present
  <2>4. QED
    BY <2>2, <2>3
<1>10. CASE \E p \in Occ : Reconcile(p)
  <2>1. PICK p \in Occ : Reconcile(p)
    BY <1>10
  <2>2. p = o => co'.occ = o /\ co'.pc \notin Registered
    BY <1>0, <2>1 DEF Reconcile, Local, Registered
  <2>3. p # o => Same /\ Kept
    BY <1>0, <2>1 DEF Reconcile, Present
  <2>4. QED
    BY <1>1, <2>2, <2>3
<1>11. CASE \E e \in events : Deliver(e)
  <2>1. PICK e \in events : Deliver(e)
    BY <1>11
  <2>2. CASE entry[e.occ] = "absent"
    BY <1>1, <2>1, <2>2 DEF Deliver, Present
  <2>3. CASE entry[e.occ] # "absent" /\ e.occ = o
    <3>1. PICK t : t = [occ |-> e.occ, do |-> e.status, rev |-> entry[e.occ],
                        guard |-> guard[e.occ]]
      OBVIOUS
    <3>2. t.occ = o /\ t \in tasks'
      BY <2>1, <2>3, <3>1 DEF Deliver
    <3>3. QED
      BY <3>2 DEF Guarded
  <2>4. CASE entry[e.occ] # "absent" /\ e.occ # o
    BY <1>0, <1>1, <2>1, <2>4 DEF Deliver, StopGuard, Present
  <2>5. QED
    BY <2>2, <2>3, <2>4
<1>12. CASE \E t \in tasks : TaskHeartbeat(t) \/ TaskLeaseLost(t)
  <2>1. PICK t \in tasks : TaskHeartbeat(t) \/ TaskLeaseLost(t)
    BY <1>12
  <2>2. PICK u \in Task : u.occ = t.occ /\ tasks' = (tasks \ {t}) \cup {u}
    BY <2>1, HeartbeatTask
  <2>3. CASE t.occ = o
    BY <2>2, <2>3 DEF Guarded
  <2>4. CASE t.occ # o
    <3>1. UNCHANGED <<entry, guard>> \/ StopGuard(t.occ)
      BY <2>1 DEF TaskHeartbeat, TaskLeaseLost
    <3>2. Same /\ Kept
      BY <1>0, <2>2, <2>4, <3>1 DEF StopGuard, Present
    <3>3. QED
      BY <1>1, <3>2
  <2>5. QED
    BY <2>3, <2>4
<1>13. CASE \E p \in Occ : Heartbeat(p) \/ LeaseLost(p)
  <2>1. PICK p \in Occ : Heartbeat(p) \/ LeaseLost(p)
    BY <1>13
  <2>2. CASE Heartbeat(p) /\ p = o
    <3>1. PICK to \in GuardState :
            /\ GuardStep(o, guard[o], to) /\ guard' = [guard EXCEPT ![o] = to]
            /\ UNCHANGED <<entry, tasks, epoch>>
      BY <2>2 DEF Heartbeat
    <3>2. CASE to = "off"
      BY <1>0, <3>1, <3>2, HeartbeatSteps DEF Holds, Owned, Terminal
    <3>3. CASE to # "off"
      BY <1>0, <3>1, <3>3, HeartbeatSteps DEF Guarded, Present
    <3>4. QED
      BY <3>2, <3>3
  <2>3. CASE LeaseLost(p) /\ p = o
    BY <2>3 DEF LeaseLost
  <2>4. CASE p # o
    <3>1. Same /\ tasks' = tasks
      BY <1>0, <2>1, <2>4 DEF Heartbeat, LeaseLost, StopGuard, Present
    <3>2. QED
      BY <1>1, <3>1
  <2>5. QED
    BY <2>1, <2>2, <2>3, <2>4
<1>14. CASE \E p \in Occ : HeartbeatFault(p)
  BY <1>0, <1>14 DEF HeartbeatFault, Present, Guarded
<1>15. CASE \E t \in tasks : FinishTask(t)
  <2>1. PICK t \in tasks : FinishTask(t)
    BY <1>15
  <2>2. t.occ \in Occ /\ t.do \in Terminal
    BY <1>0, <2>1 DEF FinishTask, Task
  <2>3. Same
    BY <2>1, StaledPresent DEF FinishTask, Present
  <2>4. CASE t.occ # o
    <3>1. tasks' = StaledTasks(tasks \ {t}) \/ tasks' = tasks \ {t}
      BY <1>5, <2>1 DEF FinishTask
    <3>2. Kept
      BY <1>0, <2>4, <3>1, StaledTask
    <3>3. QED
      BY <1>1, <2>3, <3>2
  <2>5. CASE t.occ = o
    <3>1. CASE Holds(o)
      <4>1. row'[o] = ClosedRow(row[o], t.do)
        BY <1>0, <2>1, <2>5, <3>1 DEF FinishTask
      <4>2. row'[o].status # "running"
        BY <1>0, <2>2, <4>1 DEF ClosedRow, Row, Terminal
      <4>3. QED
        BY <4>2 DEF Holds, Owned
    <3>2. CASE ~Holds(o)
      BY <2>1, <2>5, <3>2 DEF FinishTask, Holds, Owned
    <3>3. QED
      BY <3>1, <3>2
  <2>6. QED
    BY <2>4, <2>5
<1>16. CASE \E t \in tasks : ReleaseTask(t)
  <2>1. PICK t \in tasks : ReleaseTask(t)
    BY <1>16
  <2>2. CASE t.occ # o
    BY <1>1, <2>1, <2>2 DEF ReleaseTask, Present
  <2>3. CASE t.occ = o
    <3>1. CASE Owned(o)
      <4>1. row'[o] = ClosedRow(row[o], "retrying")
        BY <1>0, <2>1, <2>3, <3>1 DEF ReleaseTask
      <4>2. QED
        BY <1>0, <4>1 DEF ClosedRow, Row, Holds, Owned
    <3>2. CASE ~Owned(o)
      BY <2>1, <2>3, <3>2 DEF ReleaseTask, Holds, Owned
    <3>3. QED
      BY <3>1, <3>2
  <2>4. QED
    BY <2>2, <2>3
<1>17. CASE FinishFailure
  BY <1>1, <1>17 DEF FinishFailure, SpawnRelease, Present
<1>18. ASSUME \/ \E registering \in BOOLEAN : Wake(registering)
              \/ \E p \in Occ : KeepRunning(p) \/ Pick(p) \/ PreparePrompt(p)
              \/ Rearm \/ Claim \/ PrepareRun \/ Accept \/ Launch
              \/ Execution \/ UNCHANGED vars
       PROVE  UNCHANGED <<entry, guard, tasks>>
  BY <1>18 DEF Wake, KeepRunning, Pick, PreparePrompt, Rearm, Claim, PrepareRun, Accept,
     Launch, Execution, RunEnds, RunAsksUser, RunAsksPermission,
     PromptStarts, PromptRefused, UserPausesRun, UserFinishesPausedRun,
     process, vars
<1>19. ASSUME \/ \E p \in Occ : RunNow(p) \/ ResumeClaim(p) \/ AnswerDirectly(p) \/ Expire(p)
              \/ Sleep \/ RetryElapses
       PROVE  UNCHANGED <<entry, guard, tasks>>
  BY <1>19 DEF RunNow, ResumeClaim, AnswerDirectly, Expire, Sleep, RetryElapses, process
<1>20. CASE UNCHANGED <<entry, guard, tasks>>
  BY <1>1, <1>20 DEF Present
<1>21. CASE Coordinator
  BY ONLY <1>6, <1>8, <1>9, <1>10, <1>17, <1>18, <1>20, <1>21 DEF Coordinator
<1>22. CASE Background \/ Execution \/ UNCHANGED vars
  BY ONLY <1>11, <1>12, <1>13, <1>15, <1>16, <1>18, <1>20, <1>22 DEF Background
<1>23. CASE Environment
  BY ONLY <1>6, <1>7, <1>9, <1>14, <1>19, <1>20, <1>23 DEF Environment
<1>24. QED
  BY ONLY [Next]_vars, <1>21, <1>22, <1>23 DEF Next

\* what a step may do to the questions about to be written down
AskStep(o) ==
  \/ /\ AsksOnce(o) => AsksOnce(o)'
     /\ Asking(o) = {} => Asking(o)' = {}
  \/ /\ Present(o) /\ ~Present(o)' /\ row' = row /\ co' = co /\ exec' = exec
     /\ Asking(o) = {} => AsksOnce(o)'

LEMMA AskSteps == Typed /\ [Next]_vars => \A o \in Occ : AskStep(o)
<1> SUFFICES ASSUME Typed, [Next]_vars, NEW o \in Occ PROVE AskStep(o)
  OBVIOUS
<1>0. /\ tasks \subseteq Task /\ events \subseteq Event
      /\ entry \in [Occ -> Revision \cup {"absent"}]
  BY DEF Typed, TypeOK
<1>1. ASSUME tasks' \subseteq tasks PROVE AskStep(o)
  BY <1>1 DEF AskStep, AsksOnce, Asking
<1>2. ASSUME NEW ts, ts \subseteq tasks, tasks' = StaledTasks(ts) PROVE AskStep(o)
  <2>1. \A u \in Asking(o)' : \E t \in Asking(o) : u = [t EXCEPT !.rev = Staled(t.rev)]
    BY <1>0, <1>2, StaledTask DEF Asking
  <2>2. QED
    BY <2>1 DEF AskStep, AsksOnce
<1>3. ASSUME NEW t, t.do = "release", tasks' = tasks \cup {t} PROVE AskStep(o)
  BY <1>3 DEF AskStep, AsksOnce, Asking
<1>4. CASE Coordinator
  <2>1. CASE \/ \E p \in Occ : Materialize(p) \/ MaterializeMissed(p)
             \/ MarkMissed \/ Settle \/ Start \/ Bind \/ ResumeBind
    <3>1. tasks' \subseteq tasks \/ tasks' = StaledTasks(tasks)
      BY <2>1 DEF Materialize, MaterializeMissed, MarkMissed, Settle, Start, Bind,
           ResumeBind, PersistProjection, TerminalProjection
    <3>2. QED
      BY <1>1, <1>2, <3>1
  <2>2. CASE Finish \/ FinishFailure
    <3>1. \/ tasks' \subseteq tasks \/ tasks' = StaledTasks(tasks)
          \/ tasks' = tasks \cup {[occ |-> co.occ, do |-> "release", rev |-> "none",
                                   guard |-> "off"]}
      BY <2>2 DEF Finish, FinishFailure, PersistProjection, SpawnRelease
    <3>2. QED
      BY <1>1, <1>2, <1>3, <3>1
  <2>3. CASE \/ \E registering \in BOOLEAN : Wake(registering)
             \/ \E p \in Occ : KeepRunning(p) \/ Reconcile(p) \/ Pick(p) \/ PreparePrompt(p)
             \/ Rearm \/ Claim \/ InstallGuard \/ Recover \/ Busy \/ PrepareRun
             \/ Accept \/ AcceptFails \/ Launch
    <3>1. tasks' = tasks
      BY <2>3 DEF Wake, KeepRunning, Reconcile, Pick, PreparePrompt, Rearm, Claim,
           InstallGuard, Recover, Busy, PrepareRun, Accept, AcceptFails, Launch
    <3>2. QED
      BY <1>1, <3>1
  <2>4. QED
    BY <1>4, <2>1, <2>2, <2>3 DEF Coordinator
<1>5. CASE Background
  <2>1. CASE \E t \in tasks : FinishTask(t)
    <3>1. PICK t \in tasks : FinishTask(t)
      BY <2>1
    <3>2. tasks' = tasks \ {t} \/ tasks' = StaledTasks(tasks \ {t})
      BY <3>1 DEF FinishTask, TerminalProjection
    <3>3. QED
      BY <1>1, <1>2, <3>2
  <2>2. CASE \E t \in tasks : ReleaseTask(t)
    BY <1>1, <2>2 DEF ReleaseTask
  <2>3. CASE \E t \in tasks : TaskHeartbeat(t) \/ TaskLeaseLost(t)
    <3>1. PICK t \in tasks, u \in Task :
            u.occ = t.occ /\ u.do = t.do /\ tasks' = (tasks \ {t}) \cup {u}
      BY <1>0, <2>3, HeartbeatTask
    <3>2. QED
      BY <3>1 DEF AskStep, AsksOnce, Asking
  <2>4. CASE \E e \in events : Deliver(e)
    <3>1. PICK e \in events : Deliver(e)
      BY <2>4
    <3>2. CASE entry[e.occ] = "absent"
      BY <1>1, <3>1, <3>2 DEF Deliver
    <3>3. CASE entry[e.occ] # "absent"
      <4>1. PICK u : u = [occ |-> e.occ, do |-> e.status, rev |-> entry[e.occ],
                          guard |-> guard[e.occ]]
        OBVIOUS
      <4>2. u.occ = e.occ /\ tasks' = tasks \cup {u} /\ StopGuard(e.occ)
        BY <3>1, <3>3, <4>1 DEF Deliver
      <4>3. CASE e.occ # o
        BY <4>2, <4>3 DEF AskStep, AsksOnce, Asking
      <4>4. CASE e.occ = o
        <5>1. Present(o) /\ ~Present(o)' /\ row' = row /\ co' = co /\ exec' = exec
          BY <1>0, <3>1, <3>3, <4>2, <4>4 DEF Present, StopGuard, Deliver, store
        <5>2. Asking(o) = {} => AsksOnce(o)'
          BY <4>2 DEF AsksOnce, Asking
        <5>3. QED
          BY <5>1, <5>2 DEF AskStep
      <4>5. QED
        BY <4>3, <4>4
    <3>4. QED
      BY <3>2, <3>3
  <2>5. CASE \E p \in Occ : Heartbeat(p) \/ LeaseLost(p)
    BY <1>1, <2>5 DEF Heartbeat, LeaseLost
  <2>6. QED
    BY <1>5, <2>1, <2>2, <2>3, <2>4, <2>5 DEF Background
<1>6. CASE Execution \/ UNCHANGED vars
  <2>1. tasks' = tasks
    BY <1>6 DEF Execution, RunEnds, RunAsksUser, RunAsksPermission, PromptStarts,
         PromptRefused, UserPausesRun, UserFinishesPausedRun, process, vars
  <2>2. QED
    BY <1>1, <2>1
<1>7. CASE Environment
  <2>1. tasks' = tasks \/ tasks' = {} \/ tasks' = StaledTasks(tasks)
    BY <1>7 DEF Environment, RunNow, ResumeClaim, AnswerDirectly, HeartbeatFault,
         Expire, PrepareFails, LaunchFails, Sleep, RetryElapses, Restart, EditJob, process
  <2>2. QED
    BY <1>1, <1>2, <2>1
<1>8. QED
  BY <1>4, <1>5, <1>6, <1>7 DEF Next

\* a row starts to wait for the user when such a task is finished
LEMMA AttentionSteps ==
  ASSUME ContractInv, [Next]_vars, NEW o \in Occ,
         row'[o].status = "attention", row[o].status # "attention"
  PROVE  /\ Asking(o) # {} /\ (AsksOnce(o) => Asking(o)' = {})
         /\ launches[o] = 1
<1>0. Typed /\ row \in [Occ -> Row] /\ tasks \subseteq Task
  BY DEF ContractInv, Inv, Typed, TypeOK
<1>1. \E t \in tasks : t.occ = o /\ t.do = "attention" /\ FinishTask(t)
  <2>1. \A p \in Occ : \A st : Reported(p, st) => p = o /\ st = "attention"
    BY <1>0 DEF Reported
  <2>2. Closes
    BY <1>0, <2>1, ReportSteps DEF Reports, Quiet, Creates, Misses, Reopens, Open
  <2>3. PICK p \in Occ, st \in Closing :
            /\ Reported(p, st)
            /\ \/ co.pc \in {"settle", "finish"} /\ co.occ = p /\ co.next = st
               \/ st = "failed"
               \/ \E t \in tasks : t.occ = p /\ t.do = st /\ FinishTask(t)
    BY <2>2 DEF Closes
  <2>4. co.pc \in {"settle", "finish"} => co.next # "attention"
    BY DEF ContractInv, ReportInv
  <2>5. QED
    BY <2>1, <2>3, <2>4
<1>2. PICK t \in tasks : t.occ = o /\ t.do = "attention" /\ FinishTask(t)
  BY <1>1
<1>3. tasks' = tasks \ {t} \/ tasks' = StaledTasks(tasks \ {t})
  BY <1>2 DEF FinishTask, TerminalProjection
<1>4. \A u \in Asking(o)' : \E v \in Asking(o) : v # t
  BY <1>0, <1>3, StaledTask DEF Asking
<1>5. t \in Asking(o) /\ launches[o] = 1
  BY <1>2 DEF Asking, ContractInv, ReportInv
<1>6. QED
  BY <1>4, <1>5 DEF AsksOnce

\* only a restart changes the owner
LEMMA EpochSteps ==
  [Next]_vars => UNCHANGED epoch \/ (Restart /\ epoch' = epoch + 1 /\ row' = row)
<1> SUFFICES ASSUME [Next]_vars PROVE UNCHANGED epoch \/ Restart
  BY DEF Restart, store
<1>1. ASSUME Coordinator PROVE UNCHANGED epoch
  BY <1>1 DEF Coordinator, Wake, KeepRunning, Reconcile, Pick, Materialize,
       MaterializeMissed, Settle, MarkMissed, Rearm, Claim, InstallGuard, Recover, Busy,
       Start, Finish, PrepareRun, PreparePrompt, Accept, AcceptFails, Launch, Bind,
       FinishFailure, ResumeBind
<1>2. ASSUME Background \/ Execution \/ UNCHANGED vars PROVE UNCHANGED epoch
  BY <1>2 DEF Background, FinishTask, ReleaseTask, TaskHeartbeat, TaskLeaseLost, Deliver, Heartbeat, LeaseLost,
       Execution, RunEnds, RunAsksUser, RunAsksPermission, PromptStarts, PromptRefused,
       UserPausesRun, UserFinishesPausedRun, process, vars
<1>3. ASSUME Environment, ~Restart PROVE UNCHANGED epoch
  BY <1>3 DEF Environment, RunNow, ResumeClaim, AnswerDirectly, HeartbeatFault, Expire,
       PrepareFails, LaunchFails, Sleep, RetryElapses, EditJob, process
<1>4. QED
  BY <1>1, <1>2, <1>3 DEF Next

\* how the coordinator comes to an occurrence, and how it leaves it
TurnStep ==
  /\ co'.pc \in {"idle", "wake"} =>
       co'.occ = None \/ (co'.pc = co.pc /\ co'.occ = co.occ)
  /\ co'.pc \in {"claim", "missed"} =>
       (co'.pc = co.pc /\ co'.occ = co.occ) \/ row'[co'.occ].status # "running"
  /\ co'.pc = "guard" =>
       \/ co'.pc = co.pc /\ co'.occ = co.occ /\ co'.how = co.how
       \/ co.pc = "claim" /\ co'.how = co.how
       \/ co.pc = "idle" /\ \E o \in Occ : co'.occ = o /\ ResumeClaim(o)
  /\ co.pc = "guard" /\ co'.pc \in Registered =>
       \E o \in Occ : o = co'.occ /\ Guarded(o)' /\ guard'[o] # "lost"
  /\ co.pc = "recover" =>
       (co'.pc = co.pc /\ co'.occ = co.occ) \/ Recover \/ Restart
  /\ co'.occ # co.occ =>
       \/ co.pc \in {"idle", "wake", "bind", "resume", "missed"}
       \/ Restart
       \/ \E o \in Occ : o = co.occ /\ ~Holds(o)'
       \/ co.pc = "claim" /\ row' = row
       \/ co.pc = "guard" /\ Present(co.occ) /\ UNCHANGED <<row, entry, guard, tasks>>

LEMMA TurnSteps == Typed /\ [Next]_vars => TurnStep
<1> SUFFICES ASSUME Typed, [Next]_vars PROVE TurnStep
  OBVIOUS
<1>0. /\ co \in Local /\ row \in [Occ -> Row]
      /\ co.pc \notin {"idle", "wake"} => co.occ \in Occ
  BY DEF Typed, TypeOK, Target
<1>i. Idle.pc = "idle" /\ Idle.occ = None
  BY DEF Idle
<1>1. CASE co' = co \/ \E rev \in Revision : co' = [co EXCEPT !.rev = rev]
  BY <1>0, <1>1 DEF TurnStep, Registered, Local
<1>2. CASE \E registering \in BOOLEAN : Wake(registering)
  <2>1. co.pc = "idle" /\ co'.pc = "wake" /\ co'.occ = None
    BY <1>2 DEF Wake, Idle
  <2>2. QED
    BY <2>1 DEF TurnStep
<1>3. CASE \E o \in Occ : RunNow(o)
  BY <1>0, <1>3 DEF RunNow, Idle, TurnStep, Row
<1>4. CASE \E o \in Occ : ResumeClaim(o)
  <2>1. PICK o \in Occ : ResumeClaim(o)
    BY <1>4
  <2>2. co'.pc = "guard" /\ co'.occ = o /\ co.pc = "idle"
    BY <2>1 DEF ResumeClaim, Idle
  <2>3. QED
    BY <2>1, <2>2 DEF TurnStep
<1>5. CASE \E o \in Occ : KeepRunning(o) \/ Reconcile(o)
  BY <1>0, <1>5 DEF KeepRunning, Reconcile, TurnStep, Local
<1>6. CASE \E o \in Occ : Pick(o)
  BY <1>0, <1>6 DEF Pick, Oldest, Candidates, Runnable, store, TurnStep, Local
<1>7. CASE \E o \in Occ : Materialize(o) \/ MaterializeMissed(o)
  <2>1. PICK o \in Occ : Materialize(o) \/ MaterializeMissed(o)
    BY <1>7
  <2>2. co.pc = "wake" /\ co'.pc \in {"claim", "missed"} /\ co'.occ = o
    BY <1>0, <2>1 DEF Materialize, MaterializeMissed, Local
  <2>3. row'[o].status = "pending"
    BY <1>0, <2>1 DEF Materialize, MaterializeMissed, Row
  <2>4. QED
    BY <2>2, <2>3 DEF TurnStep
<1>8. CASE Settle
  <2>1. co'.pc = "wake" /\ co'.occ = None /\ co.pc = "settle" /\ co.occ \in Occ
    BY <1>0, <1>8 DEF Settle, Local
  <2>2. ~Holds(co.occ) => row' = row
    BY <1>8 DEF Settle
  <2>3. epoch' = epoch /\ co.next \in Terminal \cup {"retrying"}
    BY <1>0, <1>8 DEF Settle, Local
  <2>4. Holds(co.occ) => row'[co.occ].status # "running"
    <3>1. ASSUME Holds(co.occ) PROVE row'[co.occ] = ClosedRow(row[co.occ], co.next)
      BY <1>0, <1>8, <2>1, <3>1 DEF Settle
    <3>2. QED
      BY <1>0, <2>1, <2>3, <3>1 DEF ClosedRow, Row, Terminal
  <2>5. \A o \in Occ : row'[o].status = "running" /\ row'[o].owner = epoch' /\ row'[o].lease = "live"
                       => row'[o] # row[o] \/ Holds(o)
    BY <2>3 DEF Holds, Owned
  <2>6. ~(row'[co.occ].status = "running" /\ row'[co.occ].owner = epoch' /\ row'[co.occ].lease = "live")
    BY <2>1, <2>2, <2>4, <2>5
  <2>7. \A o \in Occ : o = co.occ => ~Holds(o)'
    BY <2>6 DEF Holds, Owned
  <2>8. QED
    BY <2>1, <2>7 DEF TurnStep
<1>9. CASE MarkMissed
  <2>1. co.pc = "missed" /\ co'.pc = "wake" /\ co'.occ = None
    BY <1>0, <1>9 DEF MarkMissed, Local
  <2>2. QED
    BY <2>1 DEF TurnStep
<1>10. CASE Claim
  <2>1. CASE Claimable(co.occ)
    BY <1>0, <1>10, <2>1 DEF Claim, Goto, TurnStep, Local
  <2>2. CASE ~Claimable(co.occ)
    <3>1. co'.pc = "idle" /\ co'.occ = None /\ co.pc = "claim" /\ row' = row
      BY <1>i, <1>10, <2>2 DEF Claim
    <3>2. QED
      BY <3>1 DEF TurnStep
  <2>3. QED
    BY <2>1, <2>2
<1>11. CASE InstallGuard
  <2>1. CASE entry[co.occ] = "absent"
    <3>1. co'.occ = co.occ /\ co'.pc \in {"resume", "recover", "busy"} /\ co.pc = "guard"
      BY <1>0, <1>11, <2>1 DEF InstallGuard, Goto, Local
    <3>2. PICK o \in Occ : o = co.occ
      BY <1>0, <3>1
    <3>3. Guarded(o)' /\ guard'[o] # "lost"
      BY <1>0, <1>11, <2>1, <3>2
         DEF InstallGuard, Local, Revision, Typed, TypeOK, Present, Guarded
    <3>4. QED
      BY <3>1, <3>2, <3>3 DEF TurnStep
  <2>2. CASE entry[co.occ] # "absent"
    <3>1. /\ co'.pc = "idle" /\ co'.occ = None /\ co.pc = "guard" /\ Present(co.occ)
          /\ UNCHANGED <<row, entry, guard, tasks>>
      BY <1>i, <1>11, <2>2 DEF InstallGuard, store, Present
    <3>2. QED
      BY <3>1 DEF TurnStep, Registered
  <2>3. QED
    BY <2>1, <2>2
<1>12. CASE Recover
  BY <1>0, <1>12 DEF Recover, TurnStep, Local
<1>13. CASE Busy \/ PrepareFails \/ AcceptFails \/ LaunchFails
  BY <1>0, <1>13 DEF Busy, PrepareFails, AcceptFails, LaunchFails, Goto, TurnStep, Local
<1>14. CASE PrepareRun \/ (\E r \in Occ : PreparePrompt(r)) \/ Accept \/ Launch \/ Start
  BY <1>0, <1>14 DEF PrepareRun, PreparePrompt, Accept, Launch, Start, Goto, TurnStep, Local
<1>15. CASE Finish \/ FinishFailure
  <2>1. co' = Idle /\ co.pc \in {"finish", "fail"} /\ co.occ \in Occ /\ epoch' = epoch
    BY <1>0, <1>15 DEF Finish, FinishFailure
  <2>2. ~Holds(co.occ) => row' = row
    BY <1>15 DEF Finish, FinishFailure
  <2>3. Holds(co.occ) => \E st \in Terminal \cup {"retrying"} :
                            row'[co.occ] = ClosedRow(row[co.occ], st)
    BY <1>0, <1>15, <2>1 DEF Finish, FinishFailure, Local, Terminal
  <2>4. Holds(co.occ) => row'[co.occ].status # "running"
    BY <1>0, <2>1, <2>3 DEF ClosedRow, Row, Terminal
  <2>5. ~(row'[co.occ].status = "running" /\ row'[co.occ].owner = epoch' /\ row'[co.occ].lease = "live")
    BY <2>1, <2>2, <2>4 DEF Holds, Owned
  <2>6. \A o \in Occ : o = co.occ => ~Holds(o)'
    BY <2>5 DEF Holds, Owned
  <2>7. QED
    BY <1>i, <2>1, <2>6 DEF TurnStep
<1>16. CASE Rearm \/ Bind \/ ResumeBind \/ Restart
  <2>1. co'.pc = "idle" /\ co'.occ = None
    BY <1>i, <1>16 DEF Rearm, Bind, ResumeBind, Restart
  <2>2. co.pc \in {"wake", "bind", "resume"} \/ Restart
    BY <1>16 DEF Rearm, Bind, ResumeBind
  <2>3. QED
    BY <2>1, <2>2 DEF TurnStep, Registered
<1>17. ASSUME (\E t \in tasks : FinishTask(t)) \/ \E reset \in BOOLEAN : EditJob(reset)
       PROVE  co' = co \/ \E rev \in Revision : co' = [co EXCEPT !.rev = rev]
  BY <1>0, <1>17, StaledType DEF FinishTask, EditJob, Local
<1>18. ASSUME \/ \E t \in tasks : ReleaseTask(t) \/ TaskHeartbeat(t) \/ TaskLeaseLost(t)
              \/ \E e \in events : Deliver(e)
              \/ \E o \in Occ : Heartbeat(o) \/ LeaseLost(o)
              \/ Execution \/ UNCHANGED vars
       PROVE  co' = co
  BY <1>18 DEF ReleaseTask, TaskHeartbeat, TaskLeaseLost, Deliver, Heartbeat, LeaseLost, Execution, RunEnds,
       RunAsksUser, RunAsksPermission, PromptStarts, PromptRefused, UserPausesRun,
       UserFinishesPausedRun, process, vars
<1>19. ASSUME \/ \E o \in Occ : AnswerDirectly(o) \/ HeartbeatFault(o) \/ Expire(o)
              \/ Sleep \/ RetryElapses
       PROVE  co' = co
  BY <1>19 DEF AnswerDirectly, HeartbeatFault, Expire, Sleep, RetryElapses, process
<1>20. CASE Coordinator
  BY ONLY <1>2, <1>5, <1>6, <1>7, <1>8, <1>9, <1>10, <1>11, <1>12, <1>13, <1>14, <1>15, <1>16,
     <1>20 DEF Coordinator
<1>21. CASE Background \/ Execution \/ UNCHANGED vars
  BY ONLY <1>1, <1>17, <1>18, <1>21 DEF Background
<1>22. CASE Environment
  BY ONLY <1>1, <1>3, <1>4, <1>13, <1>16, <1>17, <1>19, <1>22 DEF Environment
<1>23. QED
  BY ONLY [Next]_vars, <1>20, <1>21, <1>22 DEF Next

\* a row becomes held by this process when the coordinator claims it
LEMMA HoldSteps ==
  ASSUME Typed, [Next]_vars, NEW o \in Occ, row'[o].status = "running"
  PROVE  \/ row[o].status = "running" /\ (UNCHANGED epoch /\ Holds(o)' => Holds(o))
         \/ co'.pc = "guard" /\ co'.occ = o
<1>0. row[o] \in Row /\ co \in Local /\ RowStep(o)
  BY RowSteps DEF Typed, TypeOK
<1>1. CASE row'[o] = row[o]
  BY <1>1 DEF Holds, Owned
<1>2. CASE Claimable(o) /\ Claim /\ co.occ = o
  BY <1>0, <1>2 DEF Claim, Goto, Local
<1>3. CASE ResumeClaim(o)
  BY <1>3 DEF ResumeClaim, Idle
<1>4. CASE Holds(o)
  BY <1>4 DEF Holds, Owned
<1>5. CASE row[o].lease = "live" /\ row'[o] = [row[o] EXCEPT !.lease = "expired"]
  BY <1>0, <1>5 DEF Holds, Owned, Row
<1>6. CASE \/ row'[o] = [row[o] EXCEPT !.status = "pending"]
           \/ row'[o] = [row[o] EXCEPT !.status = "missed"]
           \/ \E st \in Closing : row'[o] = ClosedRow(row[o], st)
  BY <1>0, <1>6 DEF Row, ClosedRow, Closing, Terminal
<1>7. QED
  BY <1>0, <1>1, <1>2, <1>3, <1>4, <1>5, <1>6 DEF RowStep

\* a row that is settled, or waits for the user, is not running for anybody:
\* only the answer to a question that waits reopens it
LEMMA ClosedSteps ==
  ASSUME Inv, [Next]_vars, NEW o \in Occ, row[o].status \in Terminal, row'[o] # row[o]
  PROVE  /\ ResumeClaim(o) /\ row[o].status = "attention" /\ exec[o] = "waiting"
         /\ co.pc = "idle" /\ co'.pc = "guard"
<1>1. row[o].lease = "none" /\ RowStep(o)
  BY RowSteps DEF Inv, RowInv, Typed, Terminal
<1>2. ResumeClaim(o) /\ row[o].status = "attention"
  BY <1>1 DEF RowStep, Claimable, Runnable, Holds, Owned, Terminal
<1>3. QED
  BY <1>2 DEF ResumeClaim, Idle

\* an execution goes on since it was launched; the recovery pauses it
LEMMA OutSteps ==
  ASSUME ContractInv, RegistryInv, [Next]_vars, NEW o \in Occ, Out(o)'
  PROVE  Out(o) \/ (Launch /\ co.occ = o)
<1>0. Typed /\ ExecStep(o) /\ TurnStep /\ exec \in [Occ -> Exec] /\ bound \in [Occ -> Occ \cup {None}]
  BY ExecSteps, TurnSteps DEF ContractInv, Inv, Typed, TypeOK
<1>1. exec[o] \in Going \/ (Launch /\ co.occ = o)
  BY <1>0 DEF ExecStep, Out, Going
<1>2. ASSUME exec[o] \in Going, co.occ = o, co.pc = "recover" PROVE FALSE
  <2>1. bound[o] = o /\ exec[o] \in {"active", "waiting"}
    BY <1>2 DEF ContractInv, Inv, ExecInv, OwnRunInv, RegistryInv, Going
  <2>2. CASE Recover
    BY <1>0, <1>2, <2>1, <2>2 DEF Recover, Out, Going
  <2>3. CASE Restart
    BY <1>0, <2>1, <2>3 DEF Restart, Continues, Out, Going
  <2>4. QED
    BY <1>0, <1>2, <2>2, <2>3 DEF TurnStep, Out
<1>3. QED
  BY <1>1, <1>2 DEF Out

LEMMA RegistryInvariance ==
  ContractInv /\ RegistryInv /\ AskInv /\ [Next]_vars => RegistryInv'
<1> SUFFICES ASSUME ContractInv, RegistryInv, AskInv, [Next]_vars PROVE RegistryInv'
  OBVIOUS
<1>0. /\ Typed /\ Typed' /\ TurnStep /\ CoStep
      /\ co.pc \notin {"idle", "wake"} => co.occ \in Occ
      /\ co'.pc \notin {"idle", "wake"} => co'.occ \in Occ
      /\ epoch \in Nat /\ row \in [Occ -> Row]
  BY TurnSteps, CoSteps, TypeInvariance DEF ContractInv, Inv, Typed, TypeOK, Target
<1>e. UNCHANGED epoch \/ (Restart /\ epoch' = epoch + 1 /\ row' = row /\ co'.pc = "idle")
  BY EpochSteps DEF Restart, Idle
<1>1. ASSUME NEW o \in Occ, row'[o].status = "running"
      PROVE  row'[o].owner \in Nat /\ row'[o].owner <= epoch'
  <2>1. RowStep(o) /\ row[o] \in Row
    BY <1>0, RowSteps
  <2>2. \/ row'[o].owner = epoch
        \/ row'[o].owner = row[o].owner /\ row[o].status = "running"
    BY <1>1, <2>1 DEF RowStep, ClaimedRow, ClosedRow, Closing, Terminal, Row
  <2>3. row[o].status = "running" => row[o].owner \in Nat /\ row[o].owner <= epoch
    BY DEF RegistryInv
  <2>4. epoch' \in Nat /\ epoch <= epoch'
    BY <1>0, <1>e
  <2>5. QED
    BY <1>0, <2>2, <2>3, <2>4
<1>2. ASSUME NEW o \in Occ
      PROVE  /\ ~Present(o)' => guard'[o] = "off"
             /\ Present(o)' /\ guard'[o] = "off" => row'[o].status \in Terminal
  <2>1. RegStep(o)
    BY <1>0, RegSteps
  <2>2. /\ ~Present(o) => guard[o] = "off"
        /\ Present(o) /\ guard[o] = "off" => row[o].status \in Terminal
    BY DEF RegistryInv
  <2>3. Present(o) /\ guard[o] = "off" => row'[o] = row[o]
    <3>1. ASSUME Present(o), guard[o] = "off", row'[o] # row[o] PROVE FALSE
      <4>1. row[o].status = "attention" /\ exec[o] = "waiting" /\ co.pc = "idle"
        BY <2>2, <3>1, ClosedSteps DEF ContractInv
      <4>2. Out(o)
        BY <4>1 DEF Out, Going
      <4>3. QED
        BY <3>1, <4>1, <4>2 DEF AskInv
    <3>2. QED
      BY <3>1
  <2>4. QED
    BY <2>1, <2>2, <2>3 DEF RegStep
<1>3. ASSUME NEW o \in Occ, row'[o].status = "attention" PROVE launches'[o] # 0
  <2>1. launches[o] # 0
    BY <1>3, AttentionSteps DEF RegistryInv
  <2>2. launches \in [Occ -> Nat]
    BY <1>0 DEF Typed, TypeOK
  <2>3. UNCHANGED launches \/ launches' = [launches EXCEPT ![co.occ] = launches[co.occ] + 1]
    BY <1>0, LaunchSteps DEF Launch
  <2>4. QED
    BY <2>1, <2>2, <2>3
<1>4. ASSUME NEW o \in Occ PROVE exec'[o] # "spawned"
  <2>1. ExecStep(o) /\ exec[o] # "spawned"
    BY <1>0, ExecSteps DEF RegistryInv
  <2>2. Launch /\ co.occ = o => ~Continues(o)
    BY DEF Launch, ContractInv, Inv, LaunchInv, OwnRunInv, Continues
  <2>3. QED
    BY <2>1, <2>2 DEF ExecStep
<1>5. co'.pc \in {"idle", "wake"} => co'.occ = None
  BY <1>0 DEF TurnStep, RegistryInv
<1>6. ASSUME co'.pc \in {"claim", "missed"} PROVE row'[co'.occ].status # "running"
  <2>1. CASE co'.pc = co.pc /\ co'.occ = co.occ
    BY <1>0, <1>6, <2>1, HoldSteps DEF RegistryInv
  <2>2. QED
    BY <1>0, <1>6, <2>1 DEF TurnStep
<1>7. co'.pc = "claim" => co'.how # "resume"
  BY <1>0 DEF CoStep, Path, RegistryInv, ContractInv, Inv, Planned
<1>8. ASSUME co'.pc \in Registered, Holds(co.occ)', co'.occ = co.occ
      PROVE  Guarded(co.occ)' /\ guard'[co.occ] # "lost"
  <2>1. PICK o \in Occ : o = co.occ
    BY <1>0, <1>8 DEF Registered
  <2>2. Holds(o)' /\ row'[o].status = "running" /\ UNCHANGED epoch /\ co'.pc # "guard"
    BY <1>e, <1>8, <2>1 DEF Holds, Owned, Registered
  <2>3. Guarded(o)' /\ guard'[o] # "lost"
    <3>1. CASE co.pc \in Registered
      <4>1. Guarded(o) /\ guard[o] # "lost"
        BY <1>0, <2>1, <2>2, <3>1, HoldSteps DEF RegistryInv
      <4>2. guard'[o] # "lost"
        BY <1>0, <2>2, <4>1, RegSteps DEF RegStep
      <4>3. QED
        BY <1>0, <1>8, <2>2, <4>1, <4>2, GuardedSteps
    <3>2. CASE co.pc = "guard"
      BY <1>0, <1>8, <2>1, <3>2 DEF TurnStep
    <3>3. QED
      BY <1>0, <1>8, <3>1, <3>2 DEF CoStep, Path, Registered
  <2>4. QED
    BY <1>8, <2>1, <2>3 DEF Guarded, Present
<1>9. co'.pc \in Registered => co'.occ = co.occ
  BY <1>0 DEF CoStep, Registered
<1>10. QED
  BY <1>1, <1>2, <1>3, <1>4, <1>5, <1>6, <1>7, <1>8, <1>9 DEF RegistryInv, Holds, Owned

LEMMA AskInvariance ==
  ContractInv /\ RegistryInv /\ AskInv /\ [Next]_vars => AskInv'
<1> SUFFICES ASSUME ContractInv, RegistryInv, AskInv, [Next]_vars PROVE AskInv'
  OBVIOUS
<1>0. /\ Typed /\ Typed' /\ TurnStep /\ CoStep /\ co \in Local
      /\ co.pc \notin {"idle", "wake"} => co.occ \in Occ
      /\ co'.pc \notin {"idle", "wake"} => co'.occ \in Occ
  BY TurnSteps, CoSteps, TypeInvariance DEF ContractInv, Inv, Typed, TypeOK, Target
\* what holds of an execution that goes on, before the step
<1> DEFINE Before(o) == /\ AsksOnce(o)
                        /\ Asking(o) # {} => ~Present(o) /\ row[o].status # "attention"
                        /\ Present(o) => row[o].status # "attention"
<1>1. ASSUME NEW o \in Occ, Out(o) PROVE Before(o) /\ row[o].linked
  BY <1>1 DEF AskInv, Out, Going, ContractInv, Inv, ExecInv
\* the registration of such an occurrence finds no question of its own
<1>2. ASSUME NEW o \in Occ, Out(o), Out(o)', ~Present(o), Present(o)'
      PROVE  /\ row' = row /\ row[o].status # "attention"
             /\ Asking(o) = {} /\ Asking(o)' = {}
  <2>1. /\ co.occ = o /\ co.pc = "guard" /\ co'.occ = o
        /\ UNCHANGED <<row, tasks, exec>>
        /\ co.how = "resume" \/ co'.pc = "recover" \/ ~row[o].linked \/ co.how = "manual"
    BY <1>0, <1>2, RegSteps DEF RegStep
  <2>2. co.how = "resume"
    BY <1>1, <1>2, <2>1 DEF ContractInv, Inv, LaunchInv, Out
  <2>3. QED
    BY <1>2, <2>1, <2>2 DEF AskInv, Asking
<1>3. ASSUME NEW o \in Occ, Out(o), AsksOnce(o), Asking(o) = {}, row[o].status # "attention"
      PROVE  row'[o].status # "attention"
  BY <1>3, AttentionSteps
<1>4. ASSUME NEW o \in Occ, Out(o)', Out(o)
      PROVE  /\ AsksOnce(o)'
             /\ Asking(o)' # {} => ~Present(o)' /\ row'[o].status # "attention"
             /\ Present(o)' => row'[o].status # "attention"
  <2>0. Before(o) /\ AskStep(o)
    BY <1>0, <1>1, <1>4, AskSteps
  <2>1. CASE Present(o) /\ ~Present(o)' /\ row' = row /\ (Asking(o) = {} => AsksOnce(o)')
    BY <2>0, <2>1
  <2>2. CASE /\ AsksOnce(o) => AsksOnce(o)'
             /\ Asking(o) = {} => Asking(o)' = {}
    <3>1. AsksOnce(o)'
      BY <2>0, <2>2
    <3>2. ASSUME Asking(o)' # {} PROVE ~Present(o)' /\ row'[o].status # "attention"
      <4>1. Asking(o) # {} /\ ~Present(o) /\ row[o].status # "attention"
        BY <2>0, <2>2, <3>2
      <4>2. QED
        BY <1>2, <1>4, <2>0, <3>2, <4>1, AttentionSteps
    <3>3. ASSUME Present(o)' PROVE row'[o].status # "attention"
      <4>1. CASE Present(o)
        <5>1. Asking(o) = {} /\ row[o].status # "attention"
          BY <2>0, <4>1
        <5>2. QED
          BY <1>3, <1>4, <2>0, <5>1
      <4>2. CASE ~Present(o)
        BY <1>2, <1>4, <3>3, <4>2
      <4>3. QED
        BY <4>1, <4>2
    <3>4. QED
      BY <3>1, <3>2, <3>3
  <2>3. QED
    BY <2>0, <2>1, <2>2 DEF AskStep
\* an execution that is launched has never asked
<1>5. ASSUME NEW o \in Occ, Launch, co.occ = o
      PROVE  /\ Asking(o)' = {} /\ row'[o].status # "attention" /\ co'.pc = "bind"
  <2>1. co.pc = "launch" /\ co'.pc = "bind" /\ row' = row /\ tasks' = tasks
    BY <1>0, <1>5 DEF Launch, store, Local
  <2>2. launches[o] = 0
    BY <1>5, <2>1 DEF ContractInv, Inv, LaunchInv
  <2>3. Asking(o) = {}
    BY <2>2 DEF Asking, ContractInv, ReportInv
  <2>4. QED
    BY <2>1, <2>2, <2>3 DEF Asking, RegistryInv
<1>6. ASSUME NEW o \in Occ, co'.pc = "guard", co'.how = "resume", co'.occ = o, Out(o)'
      PROVE  ~Present(o)' /\ Asking(o)' = {} /\ row'[o].status # "attention"
  <2>0. Out(o) /\ AskStep(o)
    BY <1>0, <1>5, <1>6, OutSteps, AskSteps
  <2>1. CASE co'.pc = co.pc /\ co'.occ = co.occ /\ co'.how = co.how
    <3>1. ~Present(o) /\ Asking(o) = {} /\ row[o].status # "attention" /\ AsksOnce(o)
      BY <1>1, <1>6, <2>0, <2>1 DEF AskInv
    <3>2. ~Present(o)'
      BY <1>0, <1>6, <3>1, RegSteps DEF RegStep
    <3>3. Asking(o)' = {}
      BY <2>0, <3>1 DEF AskStep
    <3>4. QED
      BY <1>3, <2>0, <3>1, <3>2, <3>3
  <2>2. CASE co.pc = "idle" /\ ResumeClaim(o)
    <3>1. row[o].status = "attention" /\ UNCHANGED <<entry, tasks>>
      BY <2>2 DEF ResumeClaim
    <3>2. row'[o].status # "attention"
      BY <1>0, <2>2 DEF ResumeClaim, ClaimedRow, Typed, TypeOK, Row
    <3>3. ~Present(o) /\ Asking(o) = {}
      BY <1>1, <2>0, <3>1
    <3>4. QED
      BY <3>1, <3>2, <3>3 DEF Present, Asking
  <2>3. co.pc = "claim" => FALSE
    BY <1>0, <1>6 DEF CoStep, Path, RegistryInv
  <2>4. QED
    BY <1>0, <1>6, <2>1, <2>2, <2>3 DEF TurnStep
<1>7. ASSUME NEW o \in Occ, Out(o)'
      PROVE  /\ AsksOnce(o)'
             /\ Asking(o)' # {} => ~Present(o)' /\ row'[o].status # "attention"
             /\ Present(o)' => row'[o].status # "attention"
  <2>1. CASE Out(o)
    BY <1>4, <1>7, <2>1
  <2>2. CASE Launch /\ co.occ = o
    BY <1>5, <2>2 DEF AsksOnce
  <2>3. QED
    BY <1>7, <2>1, <2>2, OutSteps
<1>8. QED
  BY <1>6, <1>7 DEF AskInv

\* the coordinator lets go of a row it holds only when somebody attends to it
LEMMA AbandonedSteps ==
  ASSUME ContractInv, RegistryInv, [Next]_vars, NEW o \in Occ,
         Holds(o)', ~Guarded(o)', co'.occ # o,
         ~Abandoned(o), guard[o] # "lost"
  PROVE  FALSE
<1>0. /\ Typed /\ TurnStep /\ row'[o].status = "running"
      /\ co.pc \notin {"idle", "wake"} => co.occ \in Occ
      /\ None \notin Occ
  BY TurnSteps, OccAssumption DEF ContractInv, Inv, Typed, Target, Holds, Owned
<1>1. UNCHANGED epoch
  <2>1. ASSUME epoch' = epoch + 1, row' = row PROVE FALSE
    <3>1. row[o].owner = epoch + 1 /\ epoch \in Nat
      BY <1>0, <2>1 DEF Holds, Owned, Typed, TypeOK
    <3>2. row[o].status = "running"
      BY <1>0, <2>1
    <3>3. row[o].owner \in Nat /\ row[o].owner <= epoch
      BY <3>2 DEF RegistryInv
    <3>4. QED
      BY <3>1, <3>3
  <2>2. QED
    BY <2>1, EpochSteps
<1>2. Holds(o)
  BY <1>0, <1>1, HoldSteps
<1>3. ~Guarded(o)
  BY <1>0, <1>1, GuardedSteps
<1>4. co.occ = o
  BY <1>2, <1>3 DEF Abandoned, Attended, Guarded, Present
<1>5. co.pc \notin {"idle", "wake"} /\ ~(co.pc \in {"claim", "missed"})
  BY <1>0, <1>2, <1>4 DEF RegistryInv, Holds, Owned
<1>6. co.pc \notin {"bind", "resume"}
  BY <1>2, <1>3, <1>4 DEF RegistryInv, Registered
<1>7. ~Restart
  BY <1>0, <1>1 DEF Restart, Typed, TypeOK
<1>8. ~(co.pc = "guard" /\ Present(o) /\ UNCHANGED <<row, entry, guard, tasks>>)
  BY <1>2, <1>3 DEF RegistryInv, Guarded, Holds, Owned, Terminal
<1>9. QED
  BY <1>0, <1>4, <1>5, <1>6, <1>7, <1>8 DEF TurnStep

\* When every delivery has a run of its own, only the notice of a lost lease
\* can leave a row this process holds with nobody to renew it, to finish it or
\* to release it: the registered guard, the spawned tasks and the coordinator
\* change registry, guard and row without a common lock, and no other step of
\* theirs does.
THEOREM RowsAreKept == OwnRuns => (Spec => AbandonedByLossOnly)
<1> SUFFICES ASSUME OwnRuns PROVE Spec => AbandonedByLossOnly
  OBVIOUS
<1>1. Init => RegistryInv /\ AskInv
  <2> SUFFICES ASSUME Init PROVE RegistryInv /\ AskInv
    OBVIOUS
  <2>1. co.pc = "idle" /\ co.occ = None
    BY DEF Init, Idle
  <2>2. \A o \in Occ : /\ row[o].status = "future" /\ row[o].owner = None
                       /\ entry[o] = "absent" /\ guard[o] = "off" /\ exec[o] = "none"
    BY DEF Init
  <2>3. QED
    BY <2>1, <2>2 DEF RegistryInv, Registered, AskInv, Out, Going, Present
<1>2. ContractInv /\ RegistryInv /\ AskInv /\ [Next]_vars => RegistryInv' /\ AskInv'
  BY RegistryInvariance, AskInvariance
<1>3. Spec => []ContractInv
  BY ContractInvariance
<1>4. ContractInv /\ RegistryInv /\ [Next]_vars
        => [\A o \in Occ : Abandoned(o)' /\ ~Abandoned(o) => guard[o] = "lost"]_vars
  <2> SUFFICES ASSUME ContractInv, RegistryInv, [Next]_vars, NEW o \in Occ,
                      Abandoned(o)', ~Abandoned(o), guard[o] # "lost"
               PROVE  FALSE
    OBVIOUS
  <2>1. Holds(o)' /\ co'.occ # o
    BY DEF Abandoned, Attended
  <2>2. ~Guarded(o)'
    BY DEF Abandoned, Attended, Guarded, Present
  <2>3. QED
    BY <2>1, <2>2, AbandonedSteps
<1>5. QED
  BY <1>1, <1>2, <1>3, <1>4, PTL DEF Spec, AbandonedByLossOnly

=============================================================================
