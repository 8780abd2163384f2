----------------------- MODULE ScheduledRuntimeProofs -----------------------
(***************************************************************************)
(* What the rows of ScheduledRuntime guarantee for every set of            *)
(* occurrences and every number of restarts, faults and edits.             *)
(***************************************************************************)
EXTENDS ScheduledRuntime, TLAPS

(* The inductive invariant, by parts.                                      *)

\* the coordinator has an occurrence in hand between two deadlines
Target == co.pc \notin {"idle", "wake"} => co.occ \in Occ

\* what the deadline handler processes is processed as planned
Planned == co.pc \in {"wake", "settle", "missed"} => co.how = "scheduled"

\* a lease belongs to a running row; a row not claimed yet has no links
RowInv ==
  \A o \in Occ :
    /\ row[o].status # "running" => row[o].lease = "none"
    /\ row[o].status \in {"future", "pending"} => ~row[o].linked

\* nothing is launched without links, and nothing with links is launched again
LaunchInv ==
  /\ \A o \in Occ : /\ ~row[o].linked => launches[o] = 0
                    /\ launches[o] <= 1
  /\ co.pc \in {"claim", "guard"} /\ co.how = "manual" => ~row[co.occ].linked
  /\ co.pc \in {"busy", "prepare", "accept"} => ~row[co.occ].linked
  /\ co.pc = "launch" => row[co.occ].linked /\ launches[co.occ] = 0

\* a run or a prompt that goes on was launched, for a row that names it
ExecInv ==
  \A o \in Occ :
    /\ exec[o] \in {"spawned", "active", "waiting"}
         => row[o].linked /\ launches[o] = 1
    /\ exec[o] = "prepared"
         => row[o].linked \/ (co.occ = o /\ co.pc = "accept")

\* each delay was preceded by a claim
RetryInv ==
  /\ \A o \in Occ : retries[o] <= row[o].attempt /\ retries[o] <= MaxRetries
  /\ co.pc \in {"guard", "busy"} => retries[co.occ] < row[co.occ].attempt

Inv == /\ TypeOK /\ Target /\ Planned /\ RowInv /\ LaunchInv /\ ExecInv /\ RetryInv

Typed == TypeOK /\ Target

-----------------------------------------------------------------------------
(* Types.                                                                  *)

LEMMA Constants == /\ MaxRetries \in Nat /\ Crashes \in Nat /\ Stalls \in Nat
                   /\ Edits \in Nat /\ Asks \in Nat
  BY BoundAssumption

LEMMA ClaimedType == ASSUME NEW r \in Row, epoch \in Nat PROVE ClaimedRow(r) \in Row
<1>1. MaxRetries \in Nat /\ r.attempt \in 0 .. MaxRetries + 1
  BY Constants DEF Row
<1>2. Saturated(r.attempt) \in 0 .. MaxRetries + 1
  BY <1>1 DEF Saturated
<1>3. QED
  BY <1>2 DEF ClaimedRow, Row, Status

LEMMA ClosedType == ASSUME NEW r \in Row, NEW st \in Status PROVE ClosedRow(r, st) \in Row
  BY DEF ClosedRow, Row

LEMMA StaledType ==
  /\ \A rev \in Revision : Staled(rev) \in Revision
  /\ \A ts : ts \subseteq Task => StaledTasks(ts) \subseteq Task
<1>1. \A rev \in Revision : Staled(rev) \in Revision
  BY DEF Staled, Revision
<1>2. ASSUME NEW t \in Task PROVE [t EXCEPT !.rev = Staled(t.rev)] \in Task
  BY <1>1 DEF Task
<1>3. QED
  BY <1>1, <1>2 DEF StaledTasks

LEMMA StaledEntriesType ==
  ASSUME entry \in [Occ -> Revision \cup {"absent"}]
  PROVE  StaledEntries \in [Occ -> Revision \cup {"absent"}]
  BY DEF StaledEntries, Staled, Revision

LEMMA PersistType ==
  ASSUME Typed, co.occ \in Occ, NEW task \in Occ \cup {None}, NEW retry \in BOOLEAN,
         PersistProjection(task, retry)
  PROVE  /\ job' \in [task : Occ \cup {None}, retry : BOOLEAN]
         /\ entry' \in [Occ -> Revision \cup {"absent"}]
         /\ tasks' \subseteq Task
  BY StaledType, StaledEntriesType DEF Typed, TypeOK, PersistProjection, Revision

LEMMA ProjectionType ==
  ASSUME Typed, NEW o \in Occ, NEW rev \in Revision, NEW ts \in SUBSET Task,
         TerminalProjection(o, rev, ts)
  PROVE  /\ job' \in [task : Occ \cup {None}, retry : BOOLEAN]
         /\ entry' \in [Occ -> Revision \cup {"absent"}]
         /\ tasks' \subseteq Task
  BY StaledType, StaledEntriesType DEF Typed, TypeOK, TerminalProjection, Revision
\* every action keeps the types
LEMMA StatusType ==
  /\ \A o \in Occ : row \in [Occ -> Row] => row[o] \in Row
  /\ \A r \in Row : /\ [r EXCEPT !.status = "pending"] \in Row
                    /\ [r EXCEPT !.status = "missed"] \in Row
                    /\ [r EXCEPT !.linked = TRUE] \in Row
  BY DEF Row, Status, Terminal

LEMMA IdleType == Idle \in Local
  BY DEF Idle, Local, PC, Revision, Terminal

LEMMA PreparedType ==
  ASSUME co \in Local
  PROVE  /\ [co EXCEPT !.pc = "prepare"] \in Local
         /\ [co EXCEPT !.pc = "prepare"].occ = co.occ
         /\ [co EXCEPT !.pc = "prepare", !.rev = RevAfterPersist] \in Local
         /\ [co EXCEPT !.pc = "prepare", !.rev = RevAfterPersist].occ = co.occ
  BY DEF Local, PC, RevAfterPersist, Revision

LEMMA PickedType ==
  ASSUME co \in Local, NEW o \in Occ
  PROVE  /\ [co EXCEPT !.pc = "claim", !.occ = o] \in Local
         /\ [co EXCEPT !.pc = "claim", !.occ = o].occ = o
  BY DEF Local, PC

LEMMA RecoverType == row \in [Occ -> Row] => RecoverExpired \in [Occ -> Row]
  BY ClosedType DEF RecoverExpired, Status

\* a heartbeat leaves the rows alone, or releases one of this process
LEMMA GuardSteps ==
  ASSUME row \in [Occ -> Row], NEW o \in Occ, NEW from, NEW to, GuardStep(o, from, to)
  PROVE  /\ row' \in [Occ -> Row]
         /\ \/ row' = row
            \/ Owned(o) /\ row' = [row EXCEPT ![o] = ClosedRow(row[o], "retrying")]
<1>1. \/ row' = row
      \/ Owned(o) /\ row' = [row EXCEPT ![o] = ClosedRow(row[o], "retrying")]
  BY DEF GuardStep
<1>2. QED
  BY <1>1, ClosedType DEF Status

LEMMA ReleaseType ==
  ASSUME NEW o \in Occ
  PROVE  [occ |-> o, do |-> "release", rev |-> "none", guard |-> "off"] \in Task
  BY DEF Task, Revision, GuardState

LEMMA TypeInvariance == Typed /\ [Next]_vars => Typed'
<1> SUFFICES ASSUME Typed, [Next]_vars PROVE Typed'
  OBVIOUS
<1> USE DEF Typed, TypeOK, Target
<1>1. CASE \E registering \in BOOLEAN : Wake(registering)
  <2>0. PICK registering \in BOOLEAN : Wake(registering)
    BY <1>1
  <2>1. row' \in [Occ -> Row]
    BY <2>0, RecoverType DEF Wake
  <2>2. co' \in Local /\ co'.pc = "wake"
    BY <2>0, IdleType DEF Wake, Idle, Local, PC, Revision
  <2>3. QED
    BY <2>0, <2>1, <2>2 DEF Wake, runs, history
<1>2. CASE \E o \in Occ : KeepRunning(o)
  BY <1>2 DEF KeepRunning, store, runs, history, Local, PC, Idle, Goto
<1>3. CASE \E o \in Occ : Reconcile(o)
  <2>0. PICK o \in Occ : Reconcile(o)
    BY <1>3
  <2>1. co' \in Local
    BY <2>0 DEF Reconcile, OutcomeOfRun, Local, PC, Terminal
  <2>2. co'.occ \in Occ
    BY <2>0 DEF Reconcile, Local
  <2>3. QED
    BY <2>0, <2>1, <2>2 DEF Reconcile, store, runs, history, GuardState
<1>4. CASE \E o \in Occ : Pick(o)
  <2>0. PICK o \in Occ : Pick(o)
    BY <1>4
  <2>1. co' \in Local /\ co'.occ \in Occ
    BY <2>0, PickedType DEF Pick
  <2>2. QED
    BY <2>0, <2>1 DEF Pick, store, runs, history
<1>5. CASE \E o \in Occ : Materialize(o)
  <2>0. PICK o \in Occ : Materialize(o)
    BY <1>5
  <2>1. row' \in [Occ -> Row]
    BY <2>0, StatusType DEF Materialize
  <2>2. co' \in Local /\ co'.occ \in Occ
    BY <2>0 DEF Materialize, Local, PC, Revision
  <2>3. entry' \in [Occ -> Revision \cup {"absent"}] /\ tasks' \subseteq Task
    BY <2>0, StaledType, StaledEntriesType DEF Materialize
  <2>4. QED
    BY <2>0, <2>1, <2>2, <2>3 DEF Materialize, runs, history
<1>6. CASE \E o \in Occ : MaterializeMissed(o)
  <2>0. PICK o \in Occ : MaterializeMissed(o)
    BY <1>6
  <2>1. row' \in [Occ -> Row]
    BY <2>0, StatusType DEF MaterializeMissed
  <2>2. co' \in Local /\ co'.occ \in Occ
    BY <2>0 DEF MaterializeMissed, Local, PC, Revision
  <2>3. entry' \in [Occ -> Revision \cup {"absent"}] /\ tasks' \subseteq Task
    BY <2>0, StaledType, StaledEntriesType DEF MaterializeMissed
  <2>4. QED
    BY <2>0, <2>1, <2>2, <2>3 DEF MaterializeMissed, runs, history
<1>7. CASE Settle
  <2>1. row' \in [Occ -> Row]
    BY <1>7, ClosedType DEF Settle, Status, Local
  <2>2. co' \in Local /\ co'.pc = "wake"
    BY <1>7, StaledType DEF Settle, Local, PC
  <2>3. /\ job' \in [task : Occ \cup {None}, retry : BOOLEAN]
          /\ entry' \in [Occ -> Revision \cup {"absent"}]
          /\ tasks' \subseteq Task
    BY <1>7, ProjectionType DEF Settle, Local
  <2>4. QED
    BY <1>7, <2>1, <2>2, <2>3 DEF Settle, runs, history
<1>8. CASE MarkMissed
  <2>1. row' \in [Occ -> Row]
    BY <1>8, StatusType DEF MarkMissed
  <2>2. co' \in Local /\ co'.pc = "wake"
    BY <1>8 DEF MarkMissed, Local, PC, Revision
  <2>3. entry' \in [Occ -> Revision \cup {"absent"}] /\ tasks' \subseteq Task
    BY <1>8, StaledType, StaledEntriesType DEF MarkMissed
  <2>4. QED
    BY <1>8, <2>1, <2>2, <2>3 DEF MarkMissed, runs, history
<1>9. CASE Rearm
  BY <1>9 DEF Rearm, store, runs, history, Revision, Terminal, Local, PC, Idle, Goto
<1>10. CASE \E o \in Occ : RunNow(o)
  <2>0. PICK o \in Occ : RunNow(o)
    BY <1>10
  <2>1. row' \in [Occ -> Row]
    BY <2>0, StatusType DEF RunNow
  <2>2. co' \in Local /\ co'.occ \in Occ
    BY <2>0, IdleType DEF RunNow, Idle, Local, PC, Revision
  <2>3. QED
    BY <2>0, <2>1, <2>2 DEF RunNow, runs, history
<1>11. CASE Claim
  BY <1>11, ClaimedType DEF Claim, runs, history, Revision, Terminal, Local, PC, Idle, Goto
<1>12. CASE InstallGuard
  BY <1>12 DEF InstallGuard, store, runs, history, GuardState, Revision, Terminal, Local, PC, Idle, Goto
<1>13. CASE Recover
  BY <1>13 DEF Recover, StopGuard, OutcomeOfRun, Terminal, Exec, GuardState, store, history, Local, PC, Idle, Goto
<1>14. CASE Busy
  <2>1. co' \in Local /\ co'.occ \in Occ
    BY <1>14 DEF Busy, DecideQueue, Local, PC, Terminal
  <2>2. QED
    BY <1>14, <2>1 DEF Busy, StopGuard, GuardState, store, runs
<1>15. CASE Start
  <2>0. /\ co.occ \in Occ /\ co \in Local
        /\ \/ co' = [co EXCEPT !.pc = "prepare"]
           \/ co' = [co EXCEPT !.pc = "prepare", !.rev = RevAfterPersist]
    BY <1>15 DEF Start, Goto
  <2>1. co' \in Local /\ co'.occ \in Occ
    BY <2>0, PreparedType
  <2>2. /\ job' \in [task : Occ \cup {None}, retry : BOOLEAN]
          /\ entry' \in [Occ -> Revision \cup {"absent"}]
          /\ tasks' \subseteq Task
    BY <1>15, PersistType DEF Start, Local
  <2>3. QED
    BY <1>15, <2>1, <2>2 DEF Start, runs, history
<1>16. CASE Finish
  <2>0. co.occ \in Occ /\ co.next \in Status /\ co.task \in Occ \cup {None}
    BY <1>16 DEF Finish, Local, Status
  <2>1. row' \in [Occ -> Row]
    BY <1>16, <2>0, ClosedType DEF Finish
  <2>2. co' \in Local /\ co'.pc = "idle"
    BY <1>16, IdleType DEF Finish, Idle
  <2>3. SpawnRelease => tasks' \subseteq Task
    BY <2>0, ReleaseType DEF SpawnRelease
  <2>4. /\ job' \in [task : Occ \cup {None}, retry : BOOLEAN]
          /\ entry' \in [Occ -> Revision \cup {"absent"}]
          /\ tasks' \subseteq Task
    BY <1>16, <2>0, <2>3, PersistType DEF Finish
  <2>5. QED
    BY <1>16, <2>1, <2>2, <2>3, <2>4 DEF Finish, runs, history
<1>17. CASE PrepareRun
  BY <1>17 DEF PrepareRun, Exec, store, history, Local, PC, Idle, Goto
<1>18. CASE \E r \in Occ : PreparePrompt(r)
  BY <1>18 DEF PreparePrompt, store, history, Local, PC, Idle, Goto
<1>19. CASE PrepareFails
  BY <1>19 DEF PrepareFails, StopGuard, GuardState, store, runs, history, Local, PC, Idle, Goto
<1>20. CASE Accept
  BY <1>20, StatusType DEF Accept, runs, history, Local, PC, Idle, Goto
<1>21. CASE AcceptFails
  BY <1>21 DEF AcceptFails, StopGuard, Exec, GuardState, store, history, Local, PC, Idle, Goto
<1>22. CASE Launch
  <2>1. co' \in Local /\ co'.occ \in Occ
    BY <1>22 DEF Launch, Local, PC
  <2>2. exec' \in [Occ -> Exec]
    BY <1>22 DEF Launch, Exec
  <2>3. launches' \in [Occ -> Nat]
    BY <1>22 DEF Launch
  <2>4. QED
    BY <1>22, <2>1, <2>2, <2>3 DEF Launch, store
<1>23. CASE LaunchFails
  BY <1>23 DEF LaunchFails, StopGuard, GuardState, store, runs, history, Local, PC, Idle, Goto
<1>24. CASE Bind
  BY <1>24, PersistType DEF Bind, Terminal, Revision, runs, history, Local, PC, Idle, Goto
<1>25. CASE FinishFailure
  BY <1>25, ClosedType DEF FinishFailure, SpawnRelease, Task, Status, Terminal, Revision, GuardState, runs, history, Local, PC, Idle, Goto
<1>26. CASE \E o \in Occ : ResumeClaim(o)
  <2>0. PICK o \in Occ : ResumeClaim(o)
    BY <1>26
  <2>1. row' \in [Occ -> Row]
    BY <2>0, ClaimedType DEF ResumeClaim
  <2>2. co' \in Local /\ co'.occ \in Occ
    BY <2>0, IdleType DEF ResumeClaim, Idle, Local, PC, Revision
  <2>3. QED
    BY <2>0, <2>1, <2>2 DEF ResumeClaim, runs, history
<1>27. CASE ResumeBind
  BY <1>27, PersistType DEF ResumeBind, Exec, Terminal, Revision, history, Local, PC, Idle, Goto
<1>28. CASE \E o \in Occ : AnswerDirectly(o)
  BY <1>28 DEF AnswerDirectly, Exec, store, process, history
<1>29. CASE \E o \in Occ, as \in {"ok", "failed", "paused"} : RunEnds(o, as)
  <2>0. PICK o \in Occ, as \in {"ok", "failed", "paused"} : RunEnds(o, as)
    BY <1>29
  <2>1. exec' \in [Occ -> Exec]
    BY <2>0 DEF RunEnds, Exec
  <2>2. \A st \in {"succeeded", "failed"} : [occ |-> o, status |-> st] \in Event
    BY DEF Event, Terminal
  <2>3. events' \subseteq Event
    BY <2>0, <2>2 DEF RunEnds
  <2>4. QED
    BY <2>0, <2>1, <2>3 DEF RunEnds, store, process, history
<1>30. CASE \E o \in Occ : RunAsksUser(o)
  BY <1>30 DEF RunAsksUser, Exec, Event, Terminal, store, process, history
<1>31. CASE \E o \in Occ : RunAsksPermission(o)
  BY <1>31 DEF RunAsksPermission, Event, Terminal, store, process, history
<1>32. CASE \E o \in Occ : PromptStarts(o)
  BY <1>32 DEF PromptStarts, Exec, store, process, history
<1>33. CASE \E o \in Occ : PromptRefused(o)
  BY <1>33 DEF PromptRefused, Exec, store, process, history
<1>34. CASE \E o \in Occ : UserPausesRun(o)
  BY <1>34 DEF UserPausesRun, Exec, store, process, history
<1>35. CASE \E o \in Occ : UserFinishesPausedRun(o)
  BY <1>35 DEF UserFinishesPausedRun, Exec, store, process, history
<1>36. CASE \E e \in events : Deliver(e)
  BY <1>36 DEF Deliver, StopGuard, Event, Task, GuardState, store, history
<1>37. CASE \E t \in tasks : FinishTask(t)
  BY <1>37, ClosedType, ProjectionType, StaledType DEF FinishTask, Task, Status, runs, history, Local
<1>38. CASE \E t \in tasks : ReleaseTask(t)
  BY <1>38, ClosedType DEF ReleaseTask, Task, Status, runs, history
<1>39. CASE \E t \in tasks : TaskHeartbeat(t) \/ TaskLeaseLost(t)
  <2>0. PICK t \in tasks : TaskHeartbeat(t) \/ TaskLeaseLost(t)
    BY <1>39
  <2>1. t.occ \in Occ /\ \A to \in GuardState : [t EXCEPT !.guard = to] \in Task
    BY <2>0 DEF Task
  <2>2. CASE TaskHeartbeat(t)
    <3>1. PICK to \in GuardState :
            /\ GuardStep(t.occ, t.guard, to)
            /\ tasks' = (tasks \ {t}) \cup {[t EXCEPT !.guard = to]}
            /\ UNCHANGED <<job, runs, epoch, co, entry, guard, budget, history>>
      BY <2>2 DEF TaskHeartbeat
    <3>2. row' \in [Occ -> Row]
      BY <2>1, <3>1, GuardSteps
    <3>3. tasks' \subseteq Task
      BY <2>1, <3>1
    <3>4. QED
      BY <3>1, <3>2, <3>3 DEF runs, history
  <2>3. CASE TaskLeaseLost(t)
    <3>1. tasks' \subseteq Task
      BY <2>1, <2>3 DEF TaskLeaseLost, GuardState
    <3>2. QED
      BY <2>1, <2>3, <3>1 DEF TaskLeaseLost, StopGuard, GuardState, store, runs, history
  <2>4. QED
    BY <2>0, <2>2, <2>3
<1>40. CASE \E o \in Occ : Heartbeat(o) \/ LeaseLost(o)
  <2>0. PICK o \in Occ : Heartbeat(o) \/ LeaseLost(o)
    BY <1>40
  <2>1. CASE Heartbeat(o)
    <3>1. PICK to \in GuardState :
            /\ GuardStep(o, guard[o], to)
            /\ guard' = [guard EXCEPT ![o] = to]
            /\ UNCHANGED <<job, runs, epoch, co, entry, tasks, budget, history>>
      BY <2>1 DEF Heartbeat
    <3>2. row' \in [Occ -> Row]
      BY <3>1, GuardSteps
    <3>3. QED
      BY <3>1, <3>2 DEF runs, history
  <2>2. CASE LeaseLost(o)
    BY <2>2 DEF LeaseLost, StopGuard, GuardState, store, runs, history
  <2>3. QED
    BY <2>0, <2>1, <2>2
<1>41. CASE \E o \in Occ : HeartbeatFault(o)
  BY <1>41 DEF HeartbeatFault, GuardState, store, runs, history
<1>42. CASE \E o \in Occ : Expire(o)
  <2>0. PICK o \in Occ : Expire(o)
    BY <1>42
  <2>1. [row[o] EXCEPT !.lease = "expired"] \in Row
    BY <2>0 DEF Row
  <2>2. QED
    BY <2>0, <2>1 DEF Expire, runs, process, history
<1>43. CASE Sleep
  <2>1. \A o \in Occ : [row[o] EXCEPT !.lease = "expired"] \in Row
    BY <1>43 DEF Row
  <2>2. QED
    BY <1>43, <2>1 DEF Sleep, runs, process, history
<1>44. CASE RetryElapses
  BY <1>44 DEF RetryElapses, runs, process, history
<1>45. CASE \E reset \in BOOLEAN : EditJob(reset)
  BY <1>45, StaledType, StaledEntriesType DEF EditJob, runs, history, Local
<1>46. CASE Restart
  BY <1>46 DEF Restart, store, history, Exec, GuardState, Revision, Terminal, Local, PC, Idle, Goto
<1>47. CASE UNCHANGED vars
  BY <1>47 DEF vars
<1>q. QED
  BY <1>1, <1>2, <1>3, <1>4, <1>5, <1>6, <1>7, <1>8, <1>9, <1>10, <1>11, <1>12, <1>13, <1>14, <1>15, <1>16, <1>17, <1>18, <1>19, <1>20, <1>21, <1>22, <1>23, <1>24, <1>25, <1>26, <1>27, <1>28, <1>29, <1>30, <1>31, <1>32, <1>33, <1>34, <1>35, <1>36, <1>37, <1>38, <1>39, <1>40, <1>41, <1>42, <1>43, <1>44, <1>45, <1>46, <1>47
     DEF Next, Coordinator, Background, Execution, Environment

-----------------------------------------------------------------------------
(* Rows.                                                                   *)

Closing == Terminal \cup {"retrying"}

\* a row is closed by the coordinator, by a lifecycle event, or to be retried
Closer(o, st) ==
  \/ st = "retrying"
  \/ co.pc \in {"settle", "finish", "fail"}
  \/ \E t \in tasks : t.occ = o /\ t.do = st

\* what a step may do to a row
RowStep(o) ==
  \/ row'[o] = row[o]
  \/ row[o].status = "future" /\ row'[o] = [row[o] EXCEPT !.status = "pending"]
  \/ row[o].status = "pending" /\ row'[o] = [row[o] EXCEPT !.status = "missed"]
  \/ /\ \/ Claimable(o) /\ Claim /\ co.occ = o
        \/ row[o].status = "attention" /\ ResumeClaim(o)
     /\ row'[o] = ClaimedRow(row[o])
  \/ /\ row[o].status = "running" /\ (row[o].owner = epoch \/ row[o].lease = "expired")
     /\ \E st \in Closing : Closer(o, st) /\ row'[o] = ClosedRow(row[o], st)
  \/ /\ Holds(o) /\ co.pc = "accept" /\ co.occ = o /\ co'.pc = "launch"
     /\ row'[o] = [row[o] EXCEPT !.linked = TRUE]
  \/ row[o].lease = "live" /\ row'[o] = [row[o] EXCEPT !.lease = "expired"]

LEMMA HeartbeatRows ==
  ASSUME Typed,
         \/ \E t \in tasks : TaskHeartbeat(t) \/ TaskLeaseLost(t)
         \/ \E o \in Occ : Heartbeat(o) \/ LeaseLost(o)
  PROVE  \/ row' = row
         \/ \E o \in Occ : Owned(o) /\ row' = [row EXCEPT ![o] = ClosedRow(row[o], "retrying")]
<1>0. row \in [Occ -> Row] /\ tasks \subseteq Task
  BY DEF Typed, TypeOK
<1>1. ASSUME NEW t \in tasks, TaskHeartbeat(t)
      PROVE  t.occ \in Occ /\ \E to \in GuardState : GuardStep(t.occ, t.guard, to)
  BY <1>0, <1>1 DEF TaskHeartbeat, Task
<1>2. ASSUME NEW o \in Occ, Heartbeat(o)
      PROVE  \E to \in GuardState : GuardStep(o, guard[o], to)
  BY <1>2 DEF Heartbeat
<1>3. ASSUME (\E t \in tasks : TaskLeaseLost(t)) \/ \E o \in Occ : LeaseLost(o)
      PROVE  row' = row
  BY <1>3 DEF TaskLeaseLost, LeaseLost, store
<1>4. QED
  BY <1>0, <1>1, <1>2, <1>3, GuardSteps

\* the task whose guard makes a step stays the same task
LEMMA HeartbeatTask ==
  ASSUME Typed, NEW t \in tasks, TaskHeartbeat(t) \/ TaskLeaseLost(t)
  PROVE  \E u \in Task : u.occ = t.occ /\ u.do = t.do /\ tasks' = (tasks \ {t}) \cup {u}
<1>0. t \in Task
  BY DEF Typed, TypeOK
<1>1. PICK to \in GuardState : tasks' = (tasks \ {t}) \cup {[t EXCEPT !.guard = to]}
  BY DEF TaskHeartbeat, TaskLeaseLost, GuardState
<1>2. PICK u : u = [t EXCEPT !.guard = to]
  OBVIOUS
<1>3. u \in Task /\ u.occ = t.occ /\ u.do = t.do
  BY <1>0, <1>2 DEF Task
<1>4. QED
  BY <1>1, <1>2, <1>3

LEMMA RowSteps == Typed /\ [Next]_vars => \A o \in Occ : RowStep(o)
<1> SUFFICES ASSUME Typed, [Next]_vars PROVE \A o \in Occ : RowStep(o)
  OBVIOUS
<1> USE DEF Typed, TypeOK, Target
<1>0. row \in [Occ -> Row]
  OBVIOUS
<1>1. CASE UNCHANGED row
  BY <1>1 DEF RowStep
<1>2. CASE \E registering \in BOOLEAN : Wake(registering)
  BY <1>2 DEF Wake, RecoverExpired, RowStep, Closing, Closer
<1>3. CASE \E o \in Occ : Materialize(o) \/ MaterializeMissed(o) \/ RunNow(o)
  BY <1>3 DEF Materialize, MaterializeMissed, RunNow, Oldest, Due, RowStep
<1>4. CASE MarkMissed
  BY <1>4 DEF MarkMissed, RowStep
<1>5. CASE Claim \/ \E o \in Occ : ResumeClaim(o)
  <2>1. \A o \in Occ : \/ row'[o] = row[o]
                      \/ /\ \/ Claimable(o) /\ Claim /\ co.occ = o
                            \/ row[o].status = "attention" /\ ResumeClaim(o)
                         /\ row'[o] = ClaimedRow(row[o])
    <3>1. CASE Claim
      <4>1. CASE Claimable(co.occ)
        <5>1. row' = [row EXCEPT ![co.occ] = ClaimedRow(row[co.occ])]
          BY <3>1, <4>1 DEF Claim
        <5>2. QED
          BY <3>1, <4>1, <5>1
      <4>2. CASE ~Claimable(co.occ)
        BY <3>1, <4>2 DEF Claim
      <4>3. QED
        BY <4>1, <4>2
    <3>2. ASSUME NEW p \in Occ, ResumeClaim(p)
          PROVE  \A o \in Occ : \/ row'[o] = row[o]
                                \/ /\ row[o].status = "attention" /\ ResumeClaim(o)
                                   /\ row'[o] = ClaimedRow(row[o])
      <4>1. row[p].status = "attention" /\ row' = [row EXCEPT ![p] = ClaimedRow(row[p])]
        BY <3>2 DEF ResumeClaim
      <4> HIDE DEF Typed, TypeOK, Target
      <4>2. row'[p] = ClaimedRow(row[p]) /\ \A o \in Occ : o # p => row'[o] = row[o]
        BY <1>0, <4>1
      <4>3. QED
        BY <3>2, <4>1, <4>2
    <3>3. QED
      BY <1>5, <3>1, <3>2
  <2>2. QED
    BY <2>1 DEF RowStep
<1>6. CASE Settle
  BY <1>6 DEF Settle, Holds, Owned, Local, RowStep, Closing, Closer
<1>7. CASE Finish
  BY <1>7 DEF Finish, Holds, Owned, Local, RowStep, Closing, Closer
<1>8. CASE FinishFailure
  BY <1>8 DEF FinishFailure, Holds, Owned, RowStep, Closing, Closer, Terminal
<1>9. CASE \E t \in tasks : FinishTask(t)
  <2>1. PICK t \in tasks : FinishTask(t)
    BY <1>9
  <2>2. t.occ \in Occ /\ t.do \in Closing
    BY <2>1 DEF FinishTask, Task, Closing
  <2>3. QED
    BY <2>1, <2>2 DEF FinishTask, Holds, Owned, RowStep, Closer
<1>10. CASE \E t \in tasks : ReleaseTask(t)
  BY <1>10 DEF ReleaseTask, Owned, RowStep, Closing, Closer
<1>11. CASE \/ \E t \in tasks : TaskHeartbeat(t) \/ TaskLeaseLost(t)
            \/ \E o \in Occ : Heartbeat(o) \/ LeaseLost(o)
  <2>1. \/ row' = row
        \/ \E o \in Occ : Owned(o) /\ row' = [row EXCEPT ![o] = ClosedRow(row[o], "retrying")]
    BY <1>11, HeartbeatRows
  <2>2. QED
    BY <2>1 DEF Owned, RowStep, Closing, Closer
<1>12. CASE Accept
  <2>1. co'.pc = "launch" /\ co.pc = "accept"
    BY <1>12 DEF Accept, Goto, Local
  <2>2. QED
    BY <1>12, <2>1 DEF Accept, RowStep
<1>13. CASE Sleep \/ \E o \in Occ : Expire(o)
  BY <1>13 DEF Sleep, Expire, RowStep
<1>14. ASSUME \/ \E o \in Occ : KeepRunning(o) \/ Reconcile(o) \/ Pick(o)
             \/ Rearm \/ InstallGuard \/ Recover \/ Busy \/ Start
             \/ PrepareRun \/ (\E r \in Occ : PreparePrompt(r))
             \/ AcceptFails \/ Launch \/ Bind \/ ResumeBind
             \/ PrepareFails \/ LaunchFails
       PROVE  UNCHANGED row
  BY <1>14 DEF KeepRunning, Reconcile, Pick, Rearm, InstallGuard, Recover, Busy, Start,
       PrepareRun, PreparePrompt, AcceptFails, Launch, Bind, ResumeBind,
       PrepareFails, LaunchFails, store
<1>15. ASSUME \/ Execution \/ (\E e \in events : Deliver(e))
             \/ \E o \in Occ : AnswerDirectly(o) \/ HeartbeatFault(o)
             \/ RetryElapses \/ Restart \/ (\E reset \in BOOLEAN : EditJob(reset))
             \/ UNCHANGED vars
       PROVE  UNCHANGED row
  BY <1>15 DEF Execution, RunEnds, RunAsksUser, RunAsksPermission, PromptStarts,
       PromptRefused, UserPausesRun, UserFinishesPausedRun, Deliver, AnswerDirectly,
       HeartbeatFault, RetryElapses, Restart, EditJob, store, vars
<1>16. QED
  BY <1>1, <1>2, <1>3, <1>4, <1>5, <1>6, <1>7, <1>8, <1>9, <1>10, <1>11, <1>12,
     <1>13, <1>14, <1>15 DEF Next, Coordinator, Background, Environment

LEMMA RowInvariance == Typed /\ RowInv /\ [Next]_vars => RowInv'
<1> SUFFICES ASSUME Typed, RowInv, [Next]_vars, NEW o \in Occ
             PROVE  /\ row'[o].status # "running" => row'[o].lease = "none"
                    /\ row'[o].status \in {"future", "pending"} => ~row'[o].linked
  BY DEF RowInv
<1>1. row[o] \in Row
  BY DEF Typed, TypeOK
<1>2. RowStep(o)
  BY RowSteps
<1>3. ASSUME NEW st \in Closing PROVE st \notin {"future", "pending", "running"}
  BY DEF Closing, Terminal
<1>4. /\ ClaimedRow(row[o]).status = "running"
      /\ \A st : /\ ClosedRow(row[o], st).status = st
               /\ ClosedRow(row[o], st).lease = "none"
  BY <1>1 DEF ClaimedRow, ClosedRow, Row
<1>5. CASE \/ row'[o] = row[o]
           \/ row'[o] = ClaimedRow(row[o])
           \/ \E st \in Closing : row'[o] = ClosedRow(row[o], st)
  BY <1>3, <1>4, <1>5 DEF RowInv
<1>6. CASE \/ row[o].status = "future" /\ row'[o] = [row[o] EXCEPT !.status = "pending"]
           \/ row[o].status = "pending" /\ row'[o] = [row[o] EXCEPT !.status = "missed"]
  BY <1>1, <1>6 DEF RowInv, Row
<1>7. CASE \/ Holds(o) /\ row'[o] = [row[o] EXCEPT !.linked = TRUE]
           \/ row[o].lease = "live" /\ row'[o] = [row[o] EXCEPT !.lease = "expired"]
  BY <1>1, <1>7 DEF RowInv, Row, Holds, Owned
<1>8. QED
  BY <1>2, <1>5, <1>6, <1>7 DEF RowStep

-----------------------------------------------------------------------------
(* Launches.                                                               *)

\* links are added by Accept only, attempts are counted by claims only
LEMMA FieldSteps ==
  ASSUME Typed, [Next]_vars, NEW o \in Occ
  PROVE  /\ \/ row'[o].linked = row[o].linked
            \/ co.pc = "accept" /\ co.occ = o /\ co'.pc = "launch" /\ row'[o].linked
         /\ \/ row'[o].attempt = row[o].attempt
            \/ row'[o].attempt = Saturated(row[o].attempt)
<1>1. row[o] \in Row
  BY DEF Typed, TypeOK
<1>2. RowStep(o)
  BY RowSteps
<1>3. QED
  BY <1>1, <1>2 DEF RowStep, Row, ClaimedRow, ClosedRow

\* the coordinator's path from one deadline, or one command, to the next
Path == {<<"guard", "resume">>, <<"guard", "recover">>, <<"recover", "finish">>,
         <<"busy", "finish">>, <<"busy", "prepare">>, <<"prepare", "accept">>,
         <<"prepare", "fail">>, <<"accept", "fail">>, <<"launch", "bind">>,
         <<"launch", "fail">>}

Claimed(o) == o \in Occ /\ row'[o].attempt = Saturated(row[o].attempt)

CoStep ==
  \/ co'.pc = co.pc /\ co'.how = co.how /\ co'.occ = co.occ
  \/ co'.pc = "idle"
  \/ co.pc = "idle" /\ co'.pc = "wake" /\ co'.how = "scheduled"
  \/ /\ co.pc = "idle" /\ co'.pc = "claim" /\ co'.how = "manual"
     /\ co'.occ \in Occ /\ row[co'.occ].status = "future"
  \/ co.pc = "idle" /\ co'.pc = "guard" /\ co'.how = "resume" /\ Claimed(co'.occ)
  \/ co.pc = "wake" /\ co'.pc \in {"settle", "claim", "missed"} /\ co'.how = co.how
  \/ co.pc \in {"settle", "missed"} /\ co'.pc = "wake" /\ co'.how = co.how
  \/ /\ co'.how = co.how /\ co'.occ = co.occ
     /\ \/ <<co.pc, co'.pc>> \in Path
        \/ co.pc = "claim" /\ co'.pc = "guard" /\ Claimed(co.occ)
        \/ /\ co.pc = "guard" /\ co'.pc = "busy"
           /\ co.how = "manual" \/ ~row[co.occ].linked
        \/ co.pc = "accept" /\ co'.pc = "launch" /\ row'[co.occ].linked

LEMMA ClaimedAttempt ==
  \A r \in Row : ClaimedRow(r).attempt = Saturated(r.attempt)
  BY DEF ClaimedRow, Row

LEMMA CoSteps == Typed /\ [Next]_vars => CoStep
<1> SUFFICES ASSUME Typed, [Next]_vars PROVE CoStep
  OBVIOUS
<1>0. co \in Local
  BY DEF Typed, TypeOK
<1> USE <1>0 DEF CoStep, Local, Goto
<1>1. CASE \E registering \in BOOLEAN : Wake(registering)
  BY <1>1 DEF Wake, Idle
<1>2. CASE \E o \in Occ : KeepRunning(o)
  BY <1>2 DEF KeepRunning
<1>3. CASE \E o \in Occ : Reconcile(o)
  BY <1>3 DEF Reconcile
<1>4. CASE \E o \in Occ : Pick(o)
  BY <1>4 DEF Pick
<1>5. CASE \E o \in Occ : Materialize(o)
  BY <1>5 DEF Materialize
<1>6. CASE \E o \in Occ : MaterializeMissed(o)
  BY <1>6 DEF MaterializeMissed
<1>7. CASE Settle
  BY <1>7 DEF Settle
<1>8. CASE MarkMissed
  BY <1>8 DEF MarkMissed
<1>9. CASE Rearm
  BY <1>9 DEF Rearm, Idle
<1>10. CASE \E o \in Occ : RunNow(o)
  BY <1>10 DEF RunNow, Idle
<1>11. CASE Claim
  <2>1. CASE Claimable(co.occ)
    <3>1. co.pc = "claim" /\ co.occ \in Occ
      BY <1>11 DEF Claim, Typed, Target
    <3>2. co' = [co EXCEPT !.pc = "guard"] /\ row'[co.occ] = ClaimedRow(row[co.occ])
      BY <1>11, <2>1, <3>1 DEF Claim, Typed, TypeOK
    <3>3. QED
      BY <3>1, <3>2, ClaimedAttempt DEF Claimed, Typed, TypeOK
  <2>2. CASE ~Claimable(co.occ)
    BY <1>11, <2>2 DEF Claim, Idle
  <2>3. QED
    BY <2>1, <2>2
<1>12. CASE InstallGuard
  BY <1>12 DEF InstallGuard, Idle, Path
<1>13. CASE Recover
  BY <1>13 DEF Recover, Path
<1>14. CASE Busy
  BY <1>14 DEF Busy, Path
<1>15. CASE Start
  BY <1>15 DEF Start, Path
<1>16. CASE Finish
  BY <1>16 DEF Finish, Idle
<1>17. CASE PrepareRun
  BY <1>17 DEF PrepareRun, Path
<1>18. CASE \E r \in Occ : PreparePrompt(r)
  BY <1>18 DEF PreparePrompt, Path
<1>19. CASE PrepareFails
  BY <1>19 DEF PrepareFails, Path
<1>20. CASE Accept
  <2>1. row'[co.occ].linked
    BY <1>20 DEF Accept, Typed, TypeOK, Target, Row
  <2>2. QED
    BY <1>20, <2>1 DEF Accept
<1>21. CASE AcceptFails
  BY <1>21 DEF AcceptFails, Path
<1>22. CASE Launch
  BY <1>22 DEF Launch, Path
<1>23. CASE LaunchFails
  BY <1>23 DEF LaunchFails, Path
<1>24. ASSUME Bind \/ FinishFailure \/ ResumeBind \/ Restart
       PROVE  CoStep
  <2>1. co' = Idle
    BY <1>24 DEF Bind, FinishFailure, ResumeBind, Restart
  <2>2. QED
    BY <2>1 DEF Idle
<1>25. CASE \E o \in Occ : ResumeClaim(o)
  <2>1. PICK o \in Occ : ResumeClaim(o)
    BY <1>25
  <2>2. row'[o] = ClaimedRow(row[o])
    BY <2>1 DEF ResumeClaim, Typed, TypeOK
  <2>3. QED
    BY <2>1, <2>2, ClaimedAttempt DEF ResumeClaim, Idle, Claimed, Typed, TypeOK
<1>26. CASE \E t \in tasks : FinishTask(t)
  BY <1>26 DEF FinishTask
<1>27. CASE \E reset \in BOOLEAN : EditJob(reset)
  BY <1>27 DEF EditJob
<1>28. CASE \/ \E t \in tasks : ReleaseTask(t) \/ TaskHeartbeat(t) \/ TaskLeaseLost(t)
            \/ \E e \in events : Deliver(e)
            \/ \E o \in Occ : Heartbeat(o) \/ LeaseLost(o)
            \/ Execution \/ UNCHANGED vars
  <2>1. co' = co
    BY <1>28 DEF ReleaseTask, TaskHeartbeat, TaskLeaseLost, Deliver, Heartbeat, LeaseLost, Execution, RunEnds,
         RunAsksUser, RunAsksPermission, PromptStarts, PromptRefused, UserPausesRun,
         UserFinishesPausedRun, process, vars
  <2>2. QED
    BY <2>1
<1>29. CASE \/ \E o \in Occ : AnswerDirectly(o) \/ HeartbeatFault(o) \/ Expire(o)
            \/ Sleep \/ RetryElapses
  <2>1. co' = co
    BY <1>29 DEF AnswerDirectly, HeartbeatFault, Expire, Sleep, RetryElapses, process
  <2>2. QED
    BY <2>1
<1>30. CASE Coordinator
  BY ONLY <1>1, <1>2, <1>3, <1>4, <1>5, <1>6, <1>7, <1>8, <1>9, <1>11, <1>12, <1>13,
     <1>14, <1>15, <1>16, <1>17, <1>18, <1>20, <1>21, <1>22, <1>24, <1>30
     DEF Coordinator
<1>31. CASE Background \/ Execution \/ UNCHANGED vars
  BY ONLY <1>26, <1>28, <1>31 DEF Background
<1>32. CASE Environment
  BY ONLY <1>10, <1>19, <1>23, <1>24, <1>25, <1>27, <1>29, <1>32
     DEF Environment
<1>33. QED
  BY ONLY [Next]_vars, <1>30, <1>31, <1>32 DEF Next

LEMMA PlannedInvariance == Typed /\ Planned /\ [Next]_vars => Planned'
  BY CoSteps DEF Planned, CoStep, Path

\* only Launch launches
LEMMA LaunchSteps ==
  Typed /\ [Next]_vars => Launch \/ UNCHANGED launches
<1> SUFFICES ASSUME Typed, [Next]_vars, ~Launch PROVE UNCHANGED launches
  OBVIOUS
<1>1. CASE Coordinator
  BY <1>1 DEF Coordinator, Wake, KeepRunning, Reconcile, Pick, Materialize,
       MaterializeMissed, Settle, MarkMissed, Rearm, Claim, InstallGuard, Recover, Busy,
       Start, Finish, PrepareRun, PreparePrompt, Accept, AcceptFails, Bind,
       FinishFailure, ResumeBind, history
<1>2. CASE Background \/ Execution \/ UNCHANGED vars
  BY <1>2 DEF Background, FinishTask, ReleaseTask, TaskHeartbeat, TaskLeaseLost, Deliver, Heartbeat, LeaseLost,
       Execution, RunEnds, RunAsksUser, RunAsksPermission, PromptStarts, PromptRefused,
       UserPausesRun, UserFinishesPausedRun, history, vars
<1>3. CASE Environment
  BY <1>3 DEF Environment, RunNow, ResumeClaim, AnswerDirectly, HeartbeatFault, Expire,
       PrepareFails, LaunchFails, Sleep, RetryElapses, Restart, EditJob, history
<1>4. QED
  BY <1>1, <1>2, <1>3 DEF Next

LEMMA LaunchInvariance ==
  Typed /\ Typed' /\ Planned /\ RowInv /\ LaunchInv /\ [Next]_vars => LaunchInv'
<1> SUFFICES ASSUME Typed, Typed', Planned, RowInv, LaunchInv, [Next]_vars
             PROVE  LaunchInv'
  OBVIOUS
<1>1. ASSUME NEW o \in Occ
      PROVE  /\ row[o].linked => row'[o].linked
             /\ co.pc # "accept" => row'[o].linked = row[o].linked
             /\ co'.pc # "launch" => row'[o].linked = row[o].linked
  BY FieldSteps DEF Typed, TypeOK, Row
<1>2. /\ launches \in [Occ -> Nat]
      /\ co.pc \notin {"idle", "wake"} => co.occ \in Occ
      /\ co'.pc \notin {"idle", "wake"} => co'.occ \in Occ
  BY DEF Typed, TypeOK, Target
<1>3. CoStep
  BY CoSteps
<1>4. CASE Launch
  <2>1. /\ launches' = [launches EXCEPT ![co.occ] = @ + 1]
        /\ co.pc = "launch" /\ co'.pc = "bind" /\ row' = row
    BY <1>4 DEF Launch, store, Typed, TypeOK, Local
  <2>2. QED
    BY <1>2, <2>1 DEF LaunchInv
<1>5. CASE UNCHANGED launches
  <2>1. \A o \in Occ : (~row'[o].linked => launches'[o] = 0) /\ launches'[o] <= 1
    BY <1>1, <1>5 DEF LaunchInv
  <2>2. ASSUME co'.pc \in {"claim", "guard"}, co'.how = "manual"
        PROVE  ~row'[co'.occ].linked
    BY <1>1, <1>2, <1>3, <2>2 DEF CoStep, Path, LaunchInv, RowInv, Planned
  <2>3. ASSUME co'.pc \in {"busy", "prepare", "accept"} PROVE ~row'[co'.occ].linked
    BY <1>1, <1>2, <1>3, <2>3 DEF CoStep, Path, LaunchInv
  <2>4. ASSUME co'.pc = "launch" PROVE row'[co'.occ].linked /\ launches'[co'.occ] = 0
    BY <1>1, <1>2, <1>3, <1>5, <2>4 DEF CoStep, Path, LaunchInv
  <2>5. QED
    BY <2>1, <2>2, <2>3, <2>4 DEF LaunchInv
<1>6. QED
  BY <1>4, <1>5, LaunchSteps

-----------------------------------------------------------------------------
(* Retries.                                                                *)

LEMMA RetrySteps ==
  Typed /\ [Next]_vars => Busy \/ UNCHANGED retries
<1> SUFFICES ASSUME Typed, [Next]_vars, ~Busy PROVE UNCHANGED retries
  OBVIOUS
<1>1. CASE Coordinator
  BY <1>1 DEF Coordinator, Wake, KeepRunning, Reconcile, Pick, Materialize,
       MaterializeMissed, Settle, MarkMissed, Rearm, Claim, InstallGuard, Recover,
       Start, Finish, PrepareRun, PreparePrompt, Accept, AcceptFails, Launch, Bind,
       FinishFailure, ResumeBind, history
<1>2. CASE Background \/ Execution \/ UNCHANGED vars
  BY <1>2 DEF Background, FinishTask, ReleaseTask, TaskHeartbeat, TaskLeaseLost, Deliver, Heartbeat, LeaseLost,
       Execution, RunEnds, RunAsksUser, RunAsksPermission, PromptStarts, PromptRefused,
       UserPausesRun, UserFinishesPausedRun, history, vars
<1>3. CASE Environment
  BY <1>3 DEF Environment, RunNow, ResumeClaim, AnswerDirectly, HeartbeatFault, Expire,
       PrepareFails, LaunchFails, Sleep, RetryElapses, Restart, EditJob, history
<1>4. QED
  BY <1>1, <1>2, <1>3 DEF Next

LEMMA RetryInvariance ==
  Typed /\ Typed' /\ RetryInv /\ [Next]_vars => RetryInv'
<1> SUFFICES ASSUME Typed, Typed', RetryInv, [Next]_vars PROVE RetryInv'
  OBVIOUS
<1>0. MaxRetries \in Nat
  BY Constants
<1>1. ASSUME NEW o \in Occ
      PROVE  /\ row[o].attempt \in 0 .. MaxRetries + 1
             /\ row'[o].attempt \in 0 .. MaxRetries + 1
             /\ retries[o] \in Nat
             /\ row'[o].attempt >= row[o].attempt
             /\ row'[o].attempt = Saturated(row[o].attempt) /\ retries[o] <= MaxRetries
                  /\ retries[o] <= row[o].attempt => retries[o] < row'[o].attempt
  <2>1. /\ row[o].attempt \in 0 .. MaxRetries + 1
        /\ row'[o].attempt \in 0 .. MaxRetries + 1
        /\ retries[o] \in Nat
    BY DEF Typed, TypeOK, Row
  <2>2. row'[o].attempt = row[o].attempt \/ row'[o].attempt = Saturated(row[o].attempt)
    BY FieldSteps
  <2>3. QED
    BY <1>0, <2>1, <2>2 DEF Saturated
<1>2. /\ co.pc \notin {"idle", "wake"} => co.occ \in Occ
      /\ co'.pc \notin {"idle", "wake"} => co'.occ \in Occ
  BY DEF Typed, TypeOK, Target
<1>3. CASE Busy
  <2>1. /\ co.pc = "busy" /\ co'.pc = "finish" /\ row' = row
        /\ retries' = [retries EXCEPT ![co.occ] =
             IF DecideQueue(row[co.occ].attempt) = "retrying" THEN @ + 1 ELSE @]
    BY <1>3 DEF Busy, store, Typed, TypeOK, Local
  <2>2. /\ retries[co.occ] < row[co.occ].attempt
        /\ DecideQueue(row[co.occ].attempt) = "retrying" => row[co.occ].attempt < MaxRetries
    BY <2>1 DEF RetryInv, DecideQueue
  <2>3. \A o \in Occ : retries'[o] <= row'[o].attempt /\ retries'[o] <= MaxRetries
    <3>1. ASSUME NEW o \in Occ, o # co.occ
          PROVE  retries'[o] <= row'[o].attempt /\ retries'[o] <= MaxRetries
      BY <2>1, <3>1 DEF RetryInv, Typed, TypeOK
    <3>2. retries'[co.occ] <= row[co.occ].attempt /\ retries'[co.occ] <= MaxRetries
      BY <1>0, <1>1, <1>2, <2>1, <2>2 DEF RetryInv, Typed, TypeOK
    <3>3. QED
      BY <2>1, <3>1, <3>2
  <2>4. QED
    BY <2>1, <2>3 DEF RetryInv
<1>4. CASE UNCHANGED retries
  <2>1. CoStep
    BY CoSteps
  <2>2. \A o \in Occ : retries'[o] <= row'[o].attempt /\ retries'[o] <= MaxRetries
    BY <1>0, <1>1, <1>4 DEF RetryInv
  <2>3. ASSUME co'.pc \in {"guard", "busy"} PROVE retries'[co'.occ] < row'[co'.occ].attempt
    <3>1. CASE co'.occ = co.occ /\ co.pc \in {"guard", "busy"}
      BY <1>1, <1>2, <1>4, <3>1 DEF RetryInv
    <3>2. CASE Claimed(co'.occ)
      BY <1>1, <1>2, <1>4, <3>2 DEF RetryInv, Claimed
    <3>3. QED
      BY <2>1, <2>3, <3>1, <3>2 DEF CoStep, Path
  <2>4. QED
    BY <2>2, <2>3 DEF RetryInv
<1>5. QED
  BY <1>3, <1>4, RetrySteps

-----------------------------------------------------------------------------
(* Executions.                                                              *)

Going == {"spawned", "active", "waiting"}

\* what a step may do to the execution of an occurrence
ExecStep(o) ==
  \/ exec'[o] = exec[o]
  \/ exec[o] \in Going /\ exec'[o] \in {"active", "waiting", "paused", "ok", "failed", "lost"}
  \/ /\ exec[o] = "prepared" /\ exec'[o] = "paused"
     /\ co.pc = "recover" \/ co'.pc = "idle"
  \/ exec[o] = "paused" /\ exec'[o] = "ok"
  \/ co.pc = "prepare" /\ co.occ = o /\ exec'[o] = "prepared" /\ PrepareRun
  \/ co.pc = "accept" /\ co.occ = o /\ exec'[o] = "none" /\ co'.pc = "fail"
  \/ /\ Launch /\ co.occ = o
     /\ \/ exec[o] = "prepared" /\ exec'[o] = "active"
        \/ Continues(o) /\ exec'[o] = "spawned"

LEMMA ExecSteps == Typed /\ [Next]_vars => \A o \in Occ : ExecStep(o)
<1> SUFFICES ASSUME Typed, [Next]_vars PROVE \A o \in Occ : ExecStep(o)
  OBVIOUS
<1>0. exec \in [Occ -> Exec]
  BY DEF Typed, TypeOK
<1>1. CASE UNCHANGED exec
  BY <1>1 DEF ExecStep
<1>2. CASE Recover
  BY <1>0, <1>2 DEF Recover, ExecStep, Going
<1>3. CASE PrepareRun
  BY <1>0, <1>3 DEF PrepareRun, ExecStep
<1>4. CASE AcceptFails
  <2>1. co'.pc = "fail" /\ co.pc = "accept"
    BY <1>4 DEF AcceptFails, Goto, Typed, TypeOK, Local
  <2>2. QED
    BY <1>0, <1>4, <2>1 DEF AcceptFails, ExecStep
<1>5. CASE Launch
  <2>1. \A o \in Occ : \/ exec'[o] = exec[o]
                      \/ /\ co.occ = o
                         /\ \/ exec[o] = "prepared" /\ exec'[o] = "active"
                            \/ Continues(o) /\ exec'[o] = "spawned"
    BY <1>0, <1>5 DEF Launch
  <2>2. QED
    BY <1>5, <2>1 DEF ExecStep
<1>6. CASE Execution \/ ResumeBind \/ \E o \in Occ : AnswerDirectly(o)
  BY <1>0, <1>6 DEF Execution, RunEnds, RunAsksUser, RunAsksPermission, PromptStarts,
       PromptRefused, UserPausesRun, UserFinishesPausedRun, ResumeBind, AnswerDirectly,
       ExecStep, Going
<1>7. CASE Restart
  BY <1>0, <1>7 DEF Restart, Idle, ExecStep, Going
<1>8. ASSUME Coordinator, ~(Recover \/ PrepareRun \/ AcceptFails \/ Launch \/ ResumeBind)
      PROVE  UNCHANGED exec
  BY <1>8 DEF Coordinator, Wake, KeepRunning, Reconcile, Pick, Materialize,
       MaterializeMissed, Settle, MarkMissed, Rearm, Claim, InstallGuard, Busy, Start,
       Finish, PreparePrompt, Accept, Bind, FinishFailure, runs
<1>9. ASSUME Background \/ UNCHANGED vars PROVE UNCHANGED exec
  BY <1>9 DEF Background, FinishTask, ReleaseTask, TaskHeartbeat, TaskLeaseLost, Deliver, Heartbeat, LeaseLost,
       runs, vars
<1>10. ASSUME Environment, ~(Restart \/ \E o \in Occ : AnswerDirectly(o))
       PROVE  UNCHANGED exec
  BY <1>10 DEF Environment, RunNow, ResumeClaim, HeartbeatFault, Expire, PrepareFails,
       LaunchFails, Sleep, RetryElapses, EditJob, runs
<1>11. QED
  BY <1>1, <1>2, <1>3, <1>4, <1>5, <1>6, <1>7, <1>8, <1>9, <1>10 DEF Next

\* a run that was prepared and not accepted does not stay prepared
LEMMA DropSteps ==
  ASSUME Typed, [Next]_vars, co.pc = "accept", co'.pc \notin {"accept", "launch"}
  PROVE  exec'[co.occ] # "prepared"
<1>0. exec \in [Occ -> Exec] /\ co.occ \in Occ /\ co \in Local
  BY DEF Typed, TypeOK, Target
<1>1. CASE AcceptFails
  BY <1>0, <1>1 DEF AcceptFails
<1>2. CASE Restart
  BY <1>0, <1>2 DEF Restart
<1>3. ASSUME Coordinator, ~AcceptFails PROVE FALSE
  BY <1>0, <1>3 DEF Coordinator, Wake, KeepRunning, Reconcile, Pick, Materialize,
       MaterializeMissed, Settle, MarkMissed, Rearm, Claim, InstallGuard, Recover, Busy,
       Start, Finish, PrepareRun, PreparePrompt, Accept, Launch, Bind, FinishFailure,
       ResumeBind, Goto, Local
<1>4. ASSUME Background \/ Execution \/ UNCHANGED vars PROVE FALSE
  BY <1>0, <1>4 DEF Background, FinishTask, ReleaseTask, TaskHeartbeat, TaskLeaseLost, Deliver,
       Heartbeat, LeaseLost, Execution, RunEnds, RunAsksUser, RunAsksPermission, PromptStarts,
       PromptRefused, UserPausesRun, UserFinishesPausedRun, process, vars, Local
<1>5. ASSUME Environment, ~Restart PROVE FALSE
  BY <1>0, <1>5 DEF Environment, RunNow, ResumeClaim, AnswerDirectly, HeartbeatFault,
       Expire, PrepareFails, LaunchFails, Sleep, RetryElapses, EditJob, process, Local
<1>6. QED
  BY <1>1, <1>2, <1>3, <1>4, <1>5 DEF Next

LEMMA ExecInvariance ==
  Typed /\ Typed' /\ LaunchInv /\ LaunchInv' /\ ExecInv /\ [Next]_vars => ExecInv'
<1> SUFFICES ASSUME Typed, Typed', LaunchInv, LaunchInv', ExecInv, [Next]_vars,
                    NEW o \in Occ
             PROVE  /\ exec'[o] \in Going => row'[o].linked /\ launches'[o] = 1
                    /\ exec'[o] = "prepared"
                         => row'[o].linked \/ (co'.occ = o /\ co'.pc = "accept")
  BY DEF ExecInv, Going
<1>1. row[o].linked => row'[o].linked
  BY FieldSteps DEF Typed, TypeOK, Row
<1>2. CoStep /\ ExecStep(o)
  BY CoSteps, ExecSteps
<1>3. /\ exec[o] \in Going => row[o].linked /\ launches[o] = 1
      /\ exec[o] = "prepared" => row[o].linked \/ (co.occ = o /\ co.pc = "accept")
  BY DEF ExecInv, Going
<1>4. Launch => /\ co.pc = "launch" /\ row[co.occ].linked /\ launches[co.occ] = 0
                /\ launches' = [launches EXCEPT ![co.occ] = 1]
  <2>1. ASSUME Launch
        PROVE  /\ co.pc = "launch" /\ row[co.occ].linked /\ launches[co.occ] = 0
               /\ launches' = [launches EXCEPT ![co.occ] = launches[co.occ] + 1]
    BY <2>1 DEF Launch, LaunchInv
  <2>2. QED
    BY <2>1
<1>5. ASSUME exec'[o] \in Going PROVE row'[o].linked /\ launches'[o] = 1
  <2>1. CASE exec[o] \in Going
    BY <1>1, <1>3, <1>4, <2>1, LaunchSteps DEF Typed, TypeOK
  <2>2. CASE Launch /\ co.occ = o
    BY <1>1, <1>4, <2>2 DEF Typed, TypeOK
  <2>3. QED
    BY <1>2, <1>5, <2>1, <2>2 DEF ExecStep, Going
<1>6. ASSUME exec'[o] = "prepared"
      PROVE  row'[o].linked \/ (co'.occ = o /\ co'.pc = "accept")
  <2>1. CASE exec[o] = "prepared" /\ co.occ = o /\ co.pc = "accept"
    <3>1. co'.pc \in {"accept", "launch"}
      BY <1>6, <2>1, DropSteps
    <3>2. co'.occ = o
      BY <1>2, <2>1, <3>1 DEF CoStep
    <3>3. QED
      BY <3>1, <3>2 DEF LaunchInv
  <2>2. CASE PrepareRun /\ co.occ = o
    BY <2>2 DEF PrepareRun, Goto, Typed, TypeOK, Local
  <2>3. QED
    BY <1>1, <1>2, <1>3, <1>6, <2>1, <2>2 DEF ExecStep, Going
<1>7. QED
  BY <1>5, <1>6

-----------------------------------------------------------------------------
(* The theorems.                                                           *)

LEMMA Initially == Init => Inv
<1> SUFFICES ASSUME Init PROVE Inv
  OBVIOUS
<1>1. Idle \in Local /\ Idle.pc = "idle"
  BY IdleType DEF Idle
<1>2. \A o \in Occ : row[o] = [status |-> "future", owner |-> None, lease |-> "none",
                              attempt |-> 0, linked |-> FALSE]
  BY DEF Init
<1>3. row \in [Occ -> Row]
  BY Constants DEF Init, Row, Status
<1>4. Typed
  BY <1>1, <1>3, Constants DEF Init, Typed, TypeOK, Target, Exec, GuardState
<1>5. Planned /\ RowInv /\ LaunchInv /\ ExecInv /\ RetryInv
  BY <1>1, <1>2, Constants DEF Init, Planned, RowInv, LaunchInv, ExecInv, RetryInv
<1>6. QED
  BY <1>4, <1>5 DEF Inv, Typed

LEMMA Inductive == Inv /\ [Next]_vars => Inv'
<1> SUFFICES ASSUME Inv, [Next]_vars PROVE Inv'
  OBVIOUS
<1>1. Typed
  BY DEF Inv, Typed
<1>2. Typed'
  BY <1>1, TypeInvariance
<1>3. Planned' /\ RowInv'
  BY <1>1, PlannedInvariance, RowInvariance DEF Inv
<1>4. LaunchInv'
  BY <1>1, <1>2, LaunchInvariance DEF Inv
<1>5. RetryInv'
  BY <1>1, <1>2, RetryInvariance DEF Inv
<1>6. ExecInv'
  BY <1>1, <1>2, <1>4, ExecInvariance DEF Inv
<1>7. QED
  BY <1>2, <1>3, <1>4, <1>5, <1>6 DEF Inv, Typed

\* Inv is an invariant for every set of occurrences and every bound.
THEOREM Invariance == Spec => []Inv
  BY Initially, Inductive, PTL DEF Spec

\* Every variable keeps its type.
THEOREM TypeCorrect == Spec => []TypeOK
<1>1. Inv => TypeOK
  BY DEF Inv
<1>2. QED
  BY <1>1, Invariance, PTL

\* No occurrence is launched twice: process_occurrence launches only a claimed
\* row without links, and the links are accepted before the launch.
THEOREM LaunchedAtMostOnce == Spec => []LaunchAtMostOnce
<1>1. Inv => LaunchAtMostOnce
  BY DEF Inv, LaunchInv, LaunchAtMostOnce
<1>2. QED
  BY <1>1, Invariance, PTL

\* A run that goes on, or is about to, is named by the row of its occurrence.
THEOREM NoRunIsOrphan == Spec => []NoOrphanRun
<1>1. Inv => NoOrphanRun
  BY DEF Inv, ExecInv, NoOrphanRun
<1>2. QED
  BY <1>1, Invariance, PTL

\* A busy task delays an occurrence at most QUEUE_MAX_RETRIES times.
THEOREM RetriesBounded == Spec => []RetriesAreBounded
<1>1. Inv => RetriesAreBounded
  BY DEF Inv, RetryInv, RetriesAreBounded
<1>2. QED
  BY <1>1, Invariance, PTL

\* No step rewrites a settled row, whatever is late: an event, a release, a
\* heartbeat or the recovery of expired leases.
THEOREM SettledIsFinal == Spec => TerminalIsFinal
<1> DEFINE Final == \A o \in Occ :
      row[o].status \in {"succeeded", "failed", "skipped", "missed"} => row'[o] = row[o]
<1>1. Inv /\ [Next]_vars => [Final]_vars
  <2> SUFFICES ASSUME Inv, [Next]_vars, NEW o \in Occ,
                      row[o].status \in {"succeeded", "failed", "skipped", "missed"}
               PROVE  row'[o] = row[o]
    OBVIOUS
  <2>1. row[o].lease = "none"
    BY DEF Inv, RowInv
  <2>2. RowStep(o)
    BY RowSteps DEF Inv, Typed
  <2>3. QED
    BY <2>1, <2>2 DEF RowStep, Claimable, Runnable, Holds, Owned
<1>2. QED
  BY <1>1, Invariance, PTL DEF Spec, TerminalIsFinal

\* No step of this process changes a row another process holds, except that
\* its lease runs out.
THEOREM LeasesAreFenced == Spec => LeaseIsFenced
<1> DEFINE Fenced == \A o \in Occ :
      row[o].status = "running" /\ row[o].lease = "live" /\ row[o].owner # epoch
      => row'[o] \in {row[o], [row[o] EXCEPT !.lease = "expired"]}
<1>1. Inv /\ [Next]_vars => [Fenced]_vars
  <2> SUFFICES ASSUME Inv, [Next]_vars, NEW o \in Occ,
                      row[o].status = "running", row[o].lease = "live",
                      row[o].owner # epoch
               PROVE  row'[o] \in {row[o], [row[o] EXCEPT !.lease = "expired"]}
    OBVIOUS
  <2>1. RowStep(o)
    BY RowSteps DEF Inv, Typed
  <2>2. QED
    BY <2>1 DEF RowStep, Claimable, Runnable, Holds, Owned
<1>2. QED
  BY <1>1, Invariance, PTL DEF Spec, LeaseIsFenced

-----------------------------------------------------------------------------
(* Tasks: one run at a time.                                               *)

\* the executions that occupy a task
UnderWay == {"prepared", "active", "waiting"}

\* the occurrence has a run of its own
Owns(o) == bound[o] = o

\* whatever names a task by an occurrence finds the links of that occurrence
\* accepted, except the occurrence that is creating the task
TaskInv ==
  /\ job.task # None => row[job.task].linked
  /\ co.task # None => row[co.task].linked
  /\ co.pc = "recover" => row[co.occ].linked
  /\ \A o \in Occ : /\ taskOf[o] # None => taskOf[o] = o \/ row[taskOf[o]].linked
                    /\ Owns(o) => taskOf[o] # None

\* no other run of the task is under way
Alone(p) ==
  \A q \in Occ : q # p /\ Owns(q) /\ taskOf[q] = taskOf[p] => exec[q] \notin UnderWay

\* the answer of TaskBusy still holds when the run starts
SerialInv ==
  /\ \A o \in Occ : exec[o] = "spawned" => ~Owns(o)
  /\ \A p \in Occ : Owns(p) /\ exec[p] \in {"active", "waiting"} => Alone(p)
  /\ co.pc = "prepare" => \A r \in RunsOf(co.task) : exec[r] \notin UnderWay
  /\ co.pc \in {"accept", "launch"} /\ Owns(co.occ) => Alone(co.occ)

\* only the preparation of an execution, and its refusal, name runs and tasks
LEMMA NameSteps ==
  [Next]_vars => \/ PrepareRun \/ (\E r \in Occ : PreparePrompt(r)) \/ AcceptFails
                 \/ UNCHANGED <<bound, taskOf>>
<1> SUFFICES ASSUME [Next]_vars, ~PrepareRun, ~(\E r \in Occ : PreparePrompt(r)),
                    ~AcceptFails
             PROVE  UNCHANGED <<bound, taskOf>>
  OBVIOUS
<1>1. CASE Coordinator
  BY <1>1 DEF Coordinator, Wake, KeepRunning, Reconcile, Pick, Materialize,
       MaterializeMissed, Settle, MarkMissed, Rearm, Claim, InstallGuard, Recover, Busy,
       Start, Finish, Accept, Launch, Bind, FinishFailure, ResumeBind, runs
<1>2. CASE Background \/ Execution \/ UNCHANGED vars
  BY <1>2 DEF Background, FinishTask, ReleaseTask, TaskHeartbeat, TaskLeaseLost, Deliver, Heartbeat, LeaseLost,
       Execution, RunEnds, RunAsksUser, RunAsksPermission, PromptStarts, PromptRefused,
       UserPausesRun, UserFinishesPausedRun, runs, vars
<1>3. CASE Environment
  BY <1>3 DEF Environment, RunNow, ResumeClaim, AnswerDirectly, HeartbeatFault, Expire,
       PrepareFails, LaunchFails, Sleep, RetryElapses, Restart, EditJob, runs
<1>4. QED
  BY <1>1, <1>2, <1>3 DEF Next

\* the job's task is the coordinator's, or that of a row with links, or reset
JobStep ==
  \/ job'.task \in {job.task, co.task, None}
  \/ \E o \in Occ : row[o].linked /\ job'.task = taskOf[o]

LEMMA JobSteps == Typed /\ [Next]_vars => JobStep
<1> SUFFICES ASSUME Typed, [Next]_vars PROVE JobStep
  OBVIOUS
<1>0. /\ job \in [task : Occ \cup {None}, retry : BOOLEAN]
      /\ co.pc \notin {"idle", "wake"} => co.occ \in Occ
      /\ tasks \subseteq Task
  BY DEF Typed, TypeOK, Target
<1>1. \A task, retry : PersistProjection(task, retry) => job'.task \in {job.task, task}
  BY DEF PersistProjection
<1>2. \A o, rev, ts : TerminalProjection(o, rev, ts) =>
        job'.task = job.task \/ (row[o].linked /\ job'.task = taskOf[o])
  BY <1>0 DEF TerminalProjection
<1>3. CASE Settle
  BY <1>0, <1>2, <1>3 DEF Settle, JobStep
<1>4. CASE \E t \in tasks : FinishTask(t)
  <2>1. PICK t \in tasks : FinishTask(t)
    BY <1>4
  <2>2. t.occ \in Occ
    BY <1>0 DEF Task
  <2>3. QED
    BY <1>2, <2>1, <2>2 DEF FinishTask, JobStep
<1>5. CASE Start \/ Finish \/ Bind \/ ResumeBind
  BY <1>1, <1>5 DEF Start, Finish, Bind, ResumeBind, JobStep
<1>6. CASE RetryElapses \/ \E reset \in BOOLEAN : EditJob(reset)
  BY <1>0, <1>6 DEF RetryElapses, EditJob, JobStep
<1>7. ASSUME Coordinator, ~(Settle \/ Start \/ Finish \/ Bind \/ ResumeBind)
      PROVE  UNCHANGED job
  BY <1>7 DEF Coordinator, Wake, KeepRunning, Reconcile, Pick, Materialize,
       MaterializeMissed, MarkMissed, Rearm, Claim, InstallGuard, Recover, Busy,
       PrepareRun, PreparePrompt, Accept, AcceptFails, Launch, FinishFailure, store
<1>8. ASSUME Background \/ Execution \/ UNCHANGED vars, ~\E t \in tasks : FinishTask(t)
      PROVE  UNCHANGED job
  BY <1>8 DEF Background, ReleaseTask, TaskHeartbeat, TaskLeaseLost, Deliver, Heartbeat, LeaseLost,
       Execution, RunEnds, RunAsksUser, RunAsksPermission, PromptStarts, PromptRefused,
       UserPausesRun, UserFinishesPausedRun, store, vars
<1>9. ASSUME Environment, ~(RetryElapses \/ \E reset \in BOOLEAN : EditJob(reset))
      PROVE  UNCHANGED job
  BY <1>9 DEF Environment, RunNow, ResumeClaim, AnswerDirectly, HeartbeatFault, Expire,
       PrepareFails, LaunchFails, Sleep, Restart, store
<1>10. CASE UNCHANGED job
  BY <1>10 DEF JobStep
<1>11. QED
  BY <1>3, <1>4, <1>5, <1>6, <1>7, <1>8, <1>9, <1>10 DEF Next

\* what a step does to the task in the coordinator's hands, and where it looks
\* at the other runs of that task
ChoiceStep ==
  /\ \/ co'.task \in {co.task, job.task, None}
     \/ co.pc \in {"recover", "launch"} /\ co'.task = taskOf[co.occ]
  /\ co'.pc = "recover" => /\ co'.occ = co.occ
                           /\ co.pc = "recover" \/ row[co.occ].linked
  /\ co'.pc = "prepare" => /\ co'.task = co.task
                           /\ co.pc = "prepare" \/ ~TaskBusy(co.task)
  /\ co'.pc \in {"accept", "launch"} =>
        /\ co'.occ = co.occ
        /\ co.pc \in {"accept", "launch"} \/ PrepareRun \/ \E r \in Occ : PreparePrompt(r)

LEMMA ChoiceSteps == Typed /\ [Next]_vars => ChoiceStep
<1> SUFFICES ASSUME Typed, [Next]_vars PROVE ChoiceStep
  OBVIOUS
<1>0. co \in Local
  BY DEF Typed, TypeOK
<1>1. CASE co' = co \/ co' = Idle \/ \E rev \in Revision : co' = [co EXCEPT !.rev = rev]
  BY <1>0, <1>1 DEF ChoiceStep, Local, Idle
<1>2. CASE (\E registering \in BOOLEAN : Wake(registering)) \/ \E o \in Occ : RunNow(o) \/ ResumeClaim(o)
  BY <1>2 DEF Wake, RunNow, ResumeClaim, Idle, ChoiceStep
<1>3. CASE \E o \in Occ : \/ KeepRunning(o) \/ Reconcile(o) \/ Pick(o) \/ Materialize(o)
                         \/ MaterializeMissed(o)
  BY <1>0, <1>3 DEF KeepRunning, Reconcile, Pick, Materialize, MaterializeMissed,
       ChoiceStep, Local
<1>4. CASE Settle \/ MarkMissed
  BY <1>0, <1>4 DEF Settle, MarkMissed, ChoiceStep, Local
<1>5. CASE Claim \/ InstallGuard \/ Accept
  <2>1. CASE Claim
    BY <1>0, <1>1, <2>1 DEF Claim, Goto, ChoiceStep, Local
  <2>2. CASE InstallGuard
    BY <1>0, <1>1, <2>2 DEF InstallGuard, Goto, ChoiceStep, Local
  <2>3. CASE Accept
    BY <1>0, <2>3 DEF Accept, Goto, ChoiceStep, Local
  <2>4. QED
    BY <1>5, <2>1, <2>2, <2>3
<1>6. CASE Recover \/ Busy \/ Launch
  BY <1>0, <1>6 DEF Recover, Busy, Launch, ChoiceStep, Local
<1>7. CASE Start
  <2>1. /\ co'.pc = "prepare" /\ co'.task = co.task
        /\ ~TaskBusy(co.task)
    BY <1>0, <1>7 DEF Start, Goto, Local
  <2>2. QED
    BY <2>1 DEF ChoiceStep
<1>8. CASE PrepareRun \/ \E r \in Occ : PreparePrompt(r)
  <2>1. co' = [co EXCEPT !.pc = "accept"]
    BY <1>8 DEF PrepareRun, PreparePrompt, Goto
  <2>2. co'.pc = "accept" /\ co'.occ = co.occ /\ co'.task = co.task
    BY <1>0, <2>1 DEF Local
  <2>3. QED
    BY <1>8, <2>2 DEF ChoiceStep
<1>9. CASE PrepareFails \/ LaunchFails \/ AcceptFails
  BY <1>0, <1>9 DEF PrepareFails, LaunchFails, AcceptFails, Goto, ChoiceStep, Local
<1>10. ASSUME Rearm \/ Finish \/ Bind \/ FinishFailure \/ ResumeBind \/ Restart
       PROVE  co' = Idle
  BY <1>10 DEF Rearm, Finish, Bind, FinishFailure, ResumeBind, Restart
<1>11. ASSUME (\E t \in tasks : FinishTask(t)) \/ \E reset \in BOOLEAN : EditJob(reset)
       PROVE  co' = co \/ \E rev \in Revision : co' = [co EXCEPT !.rev = rev]
  BY <1>0, <1>11, StaledType DEF FinishTask, EditJob, Local
<1>12. ASSUME \/ \E t \in tasks : ReleaseTask(t) \/ TaskHeartbeat(t) \/ TaskLeaseLost(t)
              \/ \E e \in events : Deliver(e)
              \/ \E o \in Occ : Heartbeat(o) \/ LeaseLost(o)
              \/ Execution \/ UNCHANGED vars
       PROVE  co' = co
  BY <1>12 DEF ReleaseTask, TaskHeartbeat, TaskLeaseLost, Deliver, Heartbeat, LeaseLost, Execution, RunEnds,
       RunAsksUser, RunAsksPermission, PromptStarts, PromptRefused, UserPausesRun,
       UserFinishesPausedRun, process, vars
<1>13. ASSUME \/ \E o \in Occ : AnswerDirectly(o) \/ HeartbeatFault(o) \/ Expire(o)
              \/ Sleep \/ RetryElapses
       PROVE  co' = co
  BY <1>13 DEF AnswerDirectly, HeartbeatFault, Expire, Sleep, RetryElapses, process
<1>14. CASE Coordinator
  BY ONLY <1>1, <1>2, <1>3, <1>4, <1>5, <1>6, <1>7, <1>8, <1>9, <1>10, <1>14
     DEF Coordinator
<1>15. CASE Background \/ Execution \/ UNCHANGED vars
  BY ONLY <1>1, <1>11, <1>12, <1>15 DEF Background
<1>16. CASE Environment
  BY ONLY <1>1, <1>2, <1>9, <1>10, <1>11, <1>13, <1>16 DEF Environment
<1>17. QED
  BY ONLY [Next]_vars, <1>14, <1>15, <1>16 DEF Next

\* an occurrence whose execution is being prepared has none
LEMMA NotUnderWay ==
  ASSUME Inv, co.pc = "prepare"
  PROVE  /\ co.occ \in Occ /\ ~row[co.occ].linked
         /\ exec[co.occ] \notin UnderWay /\ exec[co.occ] # "spawned"
<1>1. co.occ \in Occ /\ ~row[co.occ].linked
  BY DEF Inv, Target, LaunchInv
<1>2. QED
  BY <1>1 DEF Inv, ExecInv, UnderWay

LEMMA TaskInvariance == Inv /\ TaskInv /\ [Next]_vars => TaskInv'
<1> SUFFICES ASSUME Inv, TaskInv, [Next]_vars PROVE TaskInv'
  OBVIOUS
<1>0. Typed
  BY DEF Inv, Typed
<1>1. /\ job.task \in Occ \cup {None} /\ co.task \in Occ \cup {None}
      /\ taskOf \in [Occ -> Occ \cup {None}] /\ bound \in [Occ -> Occ \cup {None}]
      /\ co.pc \notin {"idle", "wake"} => co.occ \in Occ
      /\ None \notin Occ
  BY <1>0, OccAssumption DEF Typed, TypeOK, Target, Local
<1> DEFINE Linked(o) == o # None => row[o].linked
           Linked1(o) == o # None => row'[o].linked
<1>2. \A o \in Occ \cup {None} : Linked(o) => Linked1(o)
  <2>1. ASSUME NEW o \in Occ, row[o].linked PROVE row'[o].linked
    BY <1>0, <2>1, FieldSteps
  <2>2. QED
    BY <1>1, <2>1
<1>3. \A o \in Occ : row[o].linked => Linked(taskOf[o])
  BY <1>1 DEF TaskInv
<1>4. co.pc \in {"recover", "launch"} => Linked(taskOf[co.occ]) /\ taskOf[co.occ] \in Occ \cup {None}
  BY <1>1, <1>3 DEF TaskInv, Inv, LaunchInv
<1>5. Linked1(job'.task)
  BY <1>0, <1>1, <1>2, <1>3, JobSteps DEF JobStep, TaskInv
<1>6. Linked1(co'.task)
  BY <1>0, <1>1, <1>2, <1>4, ChoiceSteps DEF ChoiceStep, TaskInv
<1>7. ASSUME co'.pc = "recover" PROVE row'[co'.occ].linked
  <2>1. /\ co'.occ = co.occ
        /\ co.pc = "recover" \/ row[co.occ].linked
    BY <1>0, <1>7, ChoiceSteps DEF ChoiceStep
  <2>2. co'.occ \in Occ
    BY <1>0, <1>7, TypeInvariance DEF Typed, Target
  <2>3. QED
    BY <1>0, <2>1, <2>2, FieldSteps DEF TaskInv
<1>8. ASSUME NEW o \in Occ
      PROVE  /\ taskOf'[o] # None => taskOf'[o] = o \/ row'[taskOf'[o]].linked
             /\ Owns(o)' => taskOf'[o] # None
  <2>1. CASE taskOf'[o] = taskOf[o] /\ bound'[o] = bound[o]
    BY <1>1, <1>2, <2>1 DEF TaskInv, Owns
  <2>2. CASE PrepareRun /\ o = co.occ
    <3>1. taskOf'[o] = o \/ (co.task # None /\ taskOf'[o] = co.task)
      BY <1>1, <2>2 DEF PrepareRun, StartsNewRun
    <3>2. QED
      BY <1>1, <1>2, <3>1 DEF TaskInv
  <2>3. CASE (\E r \in Occ : PreparePrompt(r)) /\ o = co.occ
    <3>1. PICK r \in Occ : PreparePrompt(r)
      BY <2>3
    <3>2. taskOf'[o] = co.task /\ Owns(r) /\ taskOf[r] = co.task
      BY <1>1, <2>3, <3>1 DEF PreparePrompt, RunsOf, Owns
    <3>3. co.task # None
      BY <3>2 DEF TaskInv
    <3>4. QED
      BY <1>1, <1>2, <3>2, <3>3 DEF TaskInv
  <2>4. CASE AcceptFails /\ o = co.occ
    BY <1>1, <2>4 DEF AcceptFails, Owns
  <2>5. ASSUME o # co.occ, PrepareRun \/ (\E r \in Occ : PreparePrompt(r)) \/ AcceptFails
        PROVE  taskOf'[o] = taskOf[o] /\ bound'[o] = bound[o]
    BY <1>1, <2>5 DEF PrepareRun, PreparePrompt, AcceptFails
  <2>6. QED
    BY <2>1, <2>2, <2>3, <2>4, <2>5, NameSteps
<1>9. QED
  BY <1>5, <1>6, <1>7, <1>8 DEF TaskInv

\* the steps that neither prepare, refuse nor launch an execution start none
LEMMA CalmSteps ==
  ASSUME Typed, [Next]_vars, ~PrepareRun, ~AcceptFails, ~Launch, NEW o \in Occ
  PROVE  /\ exec'[o] \in UnderWay => exec[o] \in UnderWay \/ exec[o] = "spawned"
         /\ exec'[o] \in {"active", "waiting"} => exec[o] \in {"spawned", "active", "waiting"}
         /\ exec'[o] = "spawned" => exec[o] = "spawned"
  <1>1. ExecStep(o)
    BY ExecSteps
  <1>2. \/ exec'[o] = exec[o]
        \/ exec[o] \in {"spawned", "active", "waiting"}
             /\ exec'[o] \in {"active", "waiting", "paused", "ok", "failed", "lost"}
        \/ exec'[o] \in {"paused", "ok", "none"}
    BY <1>1 DEF ExecStep, Going
  <1>3. QED
    BY <1>2 DEF UnderWay

LEMMA SerialInvariance == Inv /\ TaskInv /\ SerialInv /\ [Next]_vars => SerialInv'
<1> SUFFICES ASSUME Inv, TaskInv, SerialInv, [Next]_vars PROVE SerialInv'
  OBVIOUS
<1>0. Typed
  BY DEF Inv, Typed
<1>1. /\ co \in Local /\ co.task \in Occ \cup {None} /\ exec \in [Occ -> Exec]
      /\ taskOf \in [Occ -> Occ \cup {None}] /\ bound \in [Occ -> Occ \cup {None}]
      /\ co.pc \notin {"idle", "wake"} => co.occ \in Occ
      /\ None \notin Occ
  BY <1>0, OccAssumption DEF Typed, TypeOK, Target, Local
<1>2. ChoiceStep
  BY <1>0, ChoiceSteps
<1>c. co'.pc \notin {"idle", "wake"} => co'.occ \in Occ
  BY <1>0, TypeInvariance DEF Typed, Target
<1>3. CASE PrepareRun
  <2>0. PICK c \in Occ : c = co.occ
    BY <1>3, NotUnderWay DEF PrepareRun
  <2> DEFINE T == IF StartsNewRun THEN co.task ELSE c
  <2>1. /\ co.pc = "prepare" /\ co'.pc = "accept" /\ co'.occ = c /\ c \in Occ
        /\ ~row[c].linked
    BY <1>1, <1>3, <2>0, NotUnderWay DEF PrepareRun, Goto, Local
  <2>2. /\ bound'[c] = c /\ taskOf'[c] = T /\ exec'[c] = "prepared"
        /\ \A o \in Occ : o # c => /\ bound'[o] = bound[o] /\ taskOf'[o] = taskOf[o]
                                   /\ exec'[o] = exec[o]
    BY <1>1, <1>3, <2>0 DEF PrepareRun
  <2>3. ASSUME NEW q \in Occ, q # c, Owns(q), taskOf[q] = T PROVE exec[q] \notin UnderWay
    <3>1. CASE StartsNewRun
      BY <2>1, <2>3, <3>1 DEF SerialInv, RunsOf, Owns
    <3>2. CASE ~StartsNewRun
      BY <1>1, <2>1, <2>3, <3>2 DEF TaskInv
    <3>3. QED
      BY <3>1, <3>2
  <2> HIDE DEF T
  <2>4. \A o \in Occ : exec'[o] = "spawned" => ~Owns(o)'
    BY <2>1, <2>2 DEF SerialInv, Owns
  <2>5. ASSUME NEW p \in Occ, Owns(p)', exec'[p] \in {"active", "waiting"} PROVE Alone(p)'
    <3>1. p # c /\ Owns(p) /\ exec[p] \in {"active", "waiting"} /\ taskOf'[p] = taskOf[p]
      BY <2>2, <2>5 DEF Owns
    <3>2. Alone(p) /\ taskOf[p] # T
      BY <2>3, <3>1 DEF SerialInv, UnderWay
    <3>3. QED
      BY <2>2, <3>1, <3>2 DEF Alone, Owns
  <2>6. Alone(c)'
    BY <2>2, <2>3 DEF Alone, Owns
  <2>7. QED
    BY <2>1, <2>4, <2>5, <2>6 DEF SerialInv
<1>4. CASE \E r \in Occ : PreparePrompt(r)
  <2>r. PICK r \in Occ : PreparePrompt(r)
    BY <1>4
  <2>0. PICK c \in Occ : c = co.occ
    BY <2>r, NotUnderWay DEF PreparePrompt
  <2>1. /\ co.pc = "prepare" /\ co'.pc = "accept" /\ co'.occ = c /\ c \in Occ
        /\ exec[c] \notin UnderWay /\ exec[c] # "spawned"
    BY <1>1, <2>r, <2>0, NotUnderWay DEF PreparePrompt, Goto, Local
  <2>2. /\ taskOf'[c] = co.task /\ exec' = exec
        /\ \A o \in Occ : o # c => bound'[o] = bound[o] /\ taskOf'[o] = taskOf[o]
    BY <1>1, <2>r, <2>0 DEF PreparePrompt
  <2>4. \A o \in Occ : exec'[o] = "spawned" => ~Owns(o)'
    BY <2>1, <2>2 DEF SerialInv, Owns
  <2>5. ASSUME NEW p \in Occ, Owns(p)', exec'[p] \in {"active", "waiting"} PROVE Alone(p)'
    <3>1. p # c /\ Owns(p) /\ exec[p] \in {"active", "waiting"} /\ taskOf'[p] = taskOf[p]
      BY <2>1, <2>2, <2>5 DEF Owns, UnderWay
    <3>2. Alone(p)
      BY <3>1 DEF SerialInv
    <3>3. QED
      BY <2>1, <2>2, <3>1, <3>2 DEF Alone, Owns
  <2>6. Alone(c)'
    <3>1. \A q \in Occ : q # c /\ Owns(q) /\ taskOf[q] = co.task => exec[q] \notin UnderWay
      BY <2>1 DEF SerialInv, RunsOf, Owns
    <3>2. QED
      BY <2>1, <2>2, <3>1 DEF Alone, Owns
  <2>7. QED
    BY <2>1, <2>4, <2>5, <2>6 DEF SerialInv
<1>5. CASE AcceptFails
  <2>0. PICK c \in Occ : c = co.occ
    BY <1>1, <1>5 DEF AcceptFails
  <2>1. co.pc = "accept" /\ co'.pc = "fail"
    BY <1>1, <1>5 DEF AcceptFails, Goto, Local
  <2>2. /\ bound'[c] = None /\ exec'[c] = "none"
        /\ \A o \in Occ : o # c => /\ bound'[o] = bound[o] /\ taskOf'[o] = taskOf[o]
                                   /\ exec'[o] = exec[o]
    BY <1>1, <1>5, <2>0 DEF AcceptFails
  <2>3. \A o \in Occ : exec'[o] = "spawned" => ~Owns(o)'
    BY <2>1, <2>2 DEF SerialInv, Owns
  <2>4. ASSUME NEW p \in Occ, Owns(p)', exec'[p] \in {"active", "waiting"} PROVE Alone(p)'
    <3>1. p # c /\ Owns(p) /\ exec[p] \in {"active", "waiting"} /\ taskOf'[p] = taskOf[p]
      BY <2>2, <2>4 DEF Owns
    <3>2. Alone(p)
      BY <3>1 DEF SerialInv
    <3>3. QED
      BY <1>1, <2>2, <3>1, <3>2 DEF Alone, Owns, UnderWay
  <2>5. QED
    BY <2>1, <2>3, <2>4 DEF SerialInv
<1>6. CASE Launch
  <2>0. PICK c \in Occ : c = co.occ
    BY <1>1, <1>6 DEF Launch
  <2>1. co.pc = "launch" /\ co'.pc = "bind"
    BY <1>1, <1>6 DEF Launch, Local
  <2>2. /\ bound' = bound /\ taskOf' = taskOf
        /\ exec'[c] = IF Continues(c) THEN "spawned"
                      ELSE IF exec[c] = "prepared" THEN "active" ELSE exec[c]
        /\ \A o \in Occ : o # c => exec'[o] = exec[o]
    BY <1>1, <1>6, <2>0 DEF Launch
  <2>3. \A o \in Occ : Owns(o) => /\ exec'[o] \in UnderWay => exec[o] \in UnderWay
                                  /\ exec'[o] = "spawned" => exec[o] = "spawned"
    BY <2>2 DEF Owns, Continues, UnderWay
  <2>4. ASSUME NEW p \in Occ, Owns(p), exec'[p] \in {"active", "waiting"} PROVE Alone(p)
    <3>1. CASE p = c
      BY <2>0, <2>1, <2>4, <3>1 DEF SerialInv
    <3>2. CASE p # c
      BY <2>2, <2>4, <3>2 DEF SerialInv
    <3>3. QED
      BY <3>1, <3>2
  <2>5. \A p : Alone(p) => Alone(p)'
    BY <2>2, <2>3 DEF Alone, Owns
  <2>6. QED
    BY <2>1, <2>2, <2>3, <2>4, <2>5 DEF SerialInv, Owns
<1>7. CASE ~PrepareRun /\ ~(\E r \in Occ : PreparePrompt(r)) /\ ~AcceptFails /\ ~Launch
  <2>1. bound' = bound /\ taskOf' = taskOf
    BY <1>7, NameSteps
  <2>2. ASSUME NEW o \in Occ, Owns(o)
        PROVE  /\ exec'[o] \in UnderWay => exec[o] \in UnderWay
               /\ exec'[o] \in {"active", "waiting"} => exec[o] \in {"active", "waiting"}
               /\ exec'[o] # "spawned"
    BY <1>0, <1>7, <2>2, CalmSteps DEF SerialInv
  <2>3. \A p : Alone(p) => Alone(p)'
    BY <2>1, <2>2 DEF Alone, Owns
  <2>4. \A o \in Occ : exec'[o] = "spawned" => ~Owns(o)'
    BY <2>1, <2>2 DEF Owns
  <2>5. \A p \in Occ : Owns(p)' /\ exec'[p] \in {"active", "waiting"} => Alone(p)'
    BY <2>1, <2>2, <2>3 DEF SerialInv, Owns
  <2>6. ASSUME co'.pc = "prepare", NEW r \in Occ, bound'[r] = r, taskOf'[r] = co'.task
        PROVE  exec'[r] \notin UnderWay
    <3>1. Owns(r) /\ taskOf[r] = co.task /\ r \in RunsOf(co.task)
      BY <1>2, <2>1, <2>6 DEF ChoiceStep, Owns, RunsOf
    <3>2. co.task # None
      BY <3>1 DEF TaskInv
    <3>3. exec[r] \notin UnderWay
      <4>1. CASE co.pc = "prepare"
        BY <3>1, <4>1 DEF SerialInv
      <4>2. CASE ~TaskBusy(co.task)
        BY <3>1, <3>2, <4>2 DEF TaskBusy, RunLive, LiveRun, UnderWay
      <4>3. QED
        BY <1>2, <2>6, <4>1, <4>2 DEF ChoiceStep
    <3>4. QED
      BY <2>2, <3>1, <3>3
  <2>7. ASSUME co'.pc \in {"accept", "launch"}, Owns(co.occ)' PROVE Alone(co.occ)'
    <3>1. co'.occ = co.occ /\ co.pc \in {"accept", "launch"}
      BY <1>2, <1>7, <2>7 DEF ChoiceStep
    <3>2. PICK c \in Occ : c = co.occ
      BY <1>1, <3>1
    <3>3. Owns(c)
      BY <2>1, <2>7, <3>1, <3>2 DEF Owns
    <3>4. Alone(c)'
      BY <2>3, <3>1, <3>2, <3>3 DEF SerialInv
    <3>5. QED
      BY <3>1, <3>2, <3>4 DEF Alone
  <2>8. QED
    BY <2>4, <2>5, <2>6, <2>7 DEF SerialInv, RunsOf
<1>8. QED
  BY <1>3, <1>4, <1>5, <1>6, <1>7

\* No two runs of one task are under way at a time: the task that
\* process_occurrence finds idle is still idle when the run it prepares starts,
\* whatever the events, the user and the restarts have done in between.
THEOREM SerialRuns == Spec => []SerialPerTask
<1>1. Init => TaskInv /\ SerialInv
  BY OccAssumption DEF Init, Idle, TaskInv, SerialInv, Owns
<1>2. Inv /\ TaskInv /\ SerialInv /\ [Next]_vars => TaskInv' /\ SerialInv'
  BY TaskInvariance, SerialInvariance
<1>3. SerialInv => SerialPerTask
  BY DEF SerialInv, SerialPerTask, Alone, Owns, UnderWay
<1>4. QED
  BY <1>1, <1>2, <1>3, Invariance, PTL DEF Spec

=============================================================================
