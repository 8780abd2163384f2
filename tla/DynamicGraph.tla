---------------------------- MODULE DynamicGraph ----------------------------
(***************************************************************************)
(* One AI-DYNAMIC node of a run: the graph of leaves its agents plan, the  *)
(* driver that launches them and takes their results, and the coordinator  *)
(* by which an explicit continue of one leaf finds a driver or becomes one *)
(* (src/src/app/orchestrator.rs).                                          *)
(*                                                                         *)
(* The plan is fixed: a bootstrap leaf fans out into a group of children,  *)
(* which are merged and then accepted.  Thread 0 drives the graph from the *)
(* start of the run; thread r serves the continue request r and drives the *)
(* graph when no one else does.  An identity of an execution is that of    *)
(* the request that began it.                                              *)
(*                                                                         *)
(* Each action is a critical section of the graph lock, of the coordinator *)
(* or of the attempt lock.  A revocation that falls inside a section of    *)
(* the graph lock has the effect of one that falls before or after it.     *)
(* The run stands for run.json and the outer node's file, which are        *)
(* written together; reasons of a pause are those that allow an explicit   *)
(* continue ("stopped") and those that do not ("blocked").                 *)
(***************************************************************************)
EXTENDS Integers, FiniteSets

CONSTANTS
  Width,        \* children of the group
  MaxParallel,  \* control.max_parallel
  MaxRequests,  \* bound: continue requests
  MaxFaults,    \* bound: stops, timeouts and crashes
  Environment   \* subset of {"stop-leaf", "stop-run", "timeout", "crash", "error"}

ASSUME WidthAssumption == Width \in Nat \ {0}
ASSUME BoundsAssumption == {MaxParallel, MaxRequests, MaxFaults} \subseteq Nat /\ MaxParallel > 0

Bootstrap == 1
Children == 2 .. (Width + 1)
Merge == Width + 2
Acceptance == Width + 3
Leaves == 1 .. Acceptance
Requests == 1 .. MaxRequests
Threads == 0 .. MaxRequests
NoThread == -1
\* Executions: of a leaf launched for the first time, and of a request.
None == 0
First == MaxRequests + 1

VARIABLES
  leaf,      \* the leaves of graph.json: status, execution, reason of a pause
  group,     \* the status of the group
  graph,     \* status and reason of the graph
  run,       \* status, reason and execution of the outer attempt
  coord,     \* the coordinator: driver, starting, pending, inflight
  thread,    \* the threads
  jobs,      \* the executions whose agent is at work
  mail,      \* their results on the way to the driver that launched them
  target,    \* the leaf of each request
  answer,    \* what the caller of each request was told
  late,      \* requests that timed out and have yet to pause the run
  sweeping,  \* the run was stopped and its leaves have yet to be paused
  launched,  \* the requests whose agent was started
  overtaken, \* the run was paused behind the back of the driver
  faults     \* stops, timeouts and crashes so far

vars == <<leaf, group, graph, run, coord, thread, jobs, mail, target, answer,
          late, sweeping, launched, overtaken, faults>>
tree == <<leaf, group, graph>>
agents == <<jobs, mail, launched>>
outside == <<target, late, sweeping, overtaken, faults>>

Absent == [status |-> "absent", exec |-> None, why |-> "none"]
Ready(exec) == [status |-> "Ready", exec |-> exec, why |-> "none"]
Paused(why) == [status |-> "Paused", exec |-> None, why |-> why]
Completed == [status |-> "Completed", exec |-> None, why |-> "none"]
GraphIs(status) == [status |-> status, why |-> "none"]
GraphPaused(why) == [status |-> "Paused", why |-> why]

\* A thread: the outer execution it drives under, the requests sent to it and
\* in its hands, those it has to fail, and how its drive ended.
Idle == [pc |-> "idle", outer |-> None, resumed |-> FALSE, inbox |-> {}, held |-> {},
         failed |-> {}, result |-> "none"]

Init ==
  /\ leaf = [l \in Leaves |-> IF l = Bootstrap THEN Ready(None) ELSE Absent]
  /\ group = "absent" /\ graph = GraphIs("Running")
  /\ run = [status |-> "Running", why |-> "none", exec |-> First]
  /\ coord = [driver |-> NoThread, starting |-> FALSE, pending |-> {}, inflight |-> {}]
  /\ thread = [t \in Threads |-> IF t = 0 THEN [Idle EXCEPT !.pc = "register", !.outer = First]
                                 ELSE Idle]
  /\ jobs = {} /\ mail = {}
  /\ target = [r \in Requests |-> 0]
  /\ answer = [r \in Requests |-> "none"]
  /\ late = {} /\ sweeping = FALSE /\ launched = {} /\ overtaken = FALSE /\ faults = 0

-----------------------------------------------------------------------------
(* The graph. *)

Active(tr) == {l \in Leaves : tr[l].status \in {"Ready", "Running"}}
Exist(tr) == {l \in Leaves : tr[l].status # "absent"}
PausedLeaves(tr) == {l \in Leaves : tr[l].status = "Paused"}
Done(tr, S) == \A l \in S : tr[l].status = "Completed"

\* aggregate_dynamic_pause_reason
Aggregate(tr) == IF \E l \in PausedLeaves(tr) : tr[l].why = "blocked" THEN "blocked" ELSE "stopped"

\* The run is Running under the execution the thread drives for.
Current(t) == run.status = "Running" /\ run.exec = thread[t].outer
PauseRun(why) == run' = [run EXCEPT !.status = "Paused", !.why = why]

\* refresh_dynamic_ready_nodes: pending leaves in order, while there are slots.
Refreshed(tr) ==
  LET slots == MaxParallel - Cardinality(Active(tr))
      pending == {l \in Leaves : tr[l].status = "Pending"}
  IN  [l \in Leaves |->
         IF l \in pending /\ Cardinality({k \in pending : k < l}) < slots THEN Ready(None)
         ELSE tr[l]]

\* materialize_dynamic_next, along the fixed plan.
Completing(tr, l) ==
  [k \in Leaves |-> IF k = l THEN Completed
                    ELSE IF l = Bootstrap /\ k \in Children
                    THEN [Absent EXCEPT !.status = "Pending"] ELSE tr[k]]
GroupAfter(l) == IF l = Bootstrap THEN "Open" ELSE IF l = Acceptance THEN "Closed" ELSE group

-----------------------------------------------------------------------------
(* The coordinator. *)

\* Mistaken: failed requests stay in the queue for a starting driver.
FailingKeepsPending(S) ==
  LET lost == S \cap coord.inflight
  IN  /\ coord' = [coord EXCEPT !.inflight = @ \ lost]
      /\ answer' = [r \in Requests |-> IF r \in lost THEN "failed" ELSE answer[r]]

\* fail_dynamic_resume_requests: the last request of a graph to fail also ends
\* the wait for a driver.
Failing(S) ==
  LET lost == S \cap coord.inflight
      left == coord.inflight \ lost
  IN  /\ coord' = [coord EXCEPT !.inflight = left, !.pending = @ \ lost,
                                !.starting = @ /\ ~(coord.inflight # {} /\ left = {})]
      /\ answer' = [r \in Requests |-> IF r \in lost THEN "failed" ELSE answer[r]]

\* pause_dynamic_leaf_runtime_state_with_policy: the leaves of S are paused, and
\* with the last active leaf the graph and the run.
PauseLeaves(S) ==
  LET next == [l \in Leaves |-> IF l \in S THEN Paused("stopped") ELSE leaf[l]]
      last == S # {} /\ Active(next) = {}
  IN  /\ leaf' = next
      /\ graph' = IF S = {} THEN graph
                  ELSE IF ~last THEN GraphIs("Running")
                  ELSE IF graph.status = "Running" THEN GraphPaused("stopped") ELSE graph
      /\ IF last /\ run.status = "Running" THEN PauseRun("stopped") ELSE UNCHANGED run
\* The leaves some requests resumed and that are still theirs.
HeldBy(S) == {l \in Active(leaf) : leaf[l].exec \in S}

-----------------------------------------------------------------------------
(* An explicit continue of a leaf: run_continue_dynamic_inner_background. *)

Step(t, pc) == thread[t].pc = pc
Goto(t, pc) == thread' = [thread EXCEPT ![t].pc = pc]
Continuable == run.status = "Paused" /\ run.why = "stopped"
NextRequest == Cardinality({r \in Requests : target[r] # 0}) + 1

\* reserve_dynamic_resume_request: one request at a time for a leaf.
Continue(l) ==
  LET r == NextRequest
  IN  /\ r \in Requests /\ leaf[l].status = "Paused" /\ leaf[l].why = "stopped"
      /\ Continuable \/ run.status = "Running"
      /\ \A q \in coord.inflight : target[q] # l
      /\ coord' = [coord EXCEPT !.inflight = @ \cup {r}]
      /\ target' = [target EXCEPT ![r] = l]
      /\ Goto(r, "read")
      /\ UNCHANGED <<tree, run, agents, answer, late, sweeping, overtaken, faults>>

\* The worker reads the run before it takes the graph lock.
ReadRun(t) ==
  /\ Step(t, "read")
  /\ thread' = [thread EXCEPT
       ![t].pc = IF Continuable \/ run.status = "Running" THEN "dispatch" ELSE "fail",
       ![t].resumed = (run.status = "Running"), ![t].outer = run.exec]
  /\ UNCHANGED <<tree, run, coord, agents, answer, outside>>

\* dispatch_dynamic_resume_override_with_lease: to the driver, to the one that
\* is starting, or to become it.
Dispatch(t) ==
  /\ Step(t, "dispatch")
  /\ IF leaf[target[t]].status # "Paused" \/ leaf[target[t]].why # "stopped"
     THEN Goto(t, "fail") /\ UNCHANGED coord
     ELSE IF t \notin coord.inflight THEN Goto(t, "done") /\ UNCHANGED coord
     ELSE IF coord.driver # NoThread
     THEN /\ thread' = [thread EXCEPT ![t].pc = "done", ![coord.driver].inbox = @ \cup {t}]
          /\ UNCHANGED coord
     ELSE IF coord.starting
     THEN coord' = [coord EXCEPT !.pending = @ \cup {t}] /\ Goto(t, "done")
     ELSE coord' = [coord EXCEPT !.starting = TRUE] /\ Goto(t, "rearm")
  /\ UNCHANGED <<tree, run, agents, answer, outside>>

\* rearm_dynamic_outer_runtime_for_resume
Rearm(t) ==
  /\ Step(t, "rearm")
  /\ \/ /\ thread[t].resumed
        /\ Goto(t, "enter") /\ UNCHANGED run
     \/ /\ ~thread[t].resumed /\ t \notin coord.inflight
        /\ Goto(t, "done") /\ UNCHANGED run
     \/ /\ ~thread[t].resumed /\ t \in coord.inflight /\ Continuable
        /\ run' = [status |-> "Running", why |-> "none", exec |-> t]
        /\ thread' = [thread EXCEPT ![t].pc = "enter", ![t].outer = t]
     \/ /\ ~thread[t].resumed /\ t \in coord.inflight /\ ~Continuable
        /\ Goto(t, "fail") /\ UNCHANGED run
  /\ UNCHANGED <<tree, coord, agents, answer, outside>>

\* drive_from_node persists its start, when it is current; execute_ai_dynamic_node
\* then rearms the leaf of its request.
Enter(t) ==
  LET l == target[t]
  IN  /\ Step(t, "enter")
      /\ IF ~Current(t) THEN Goto(t, "returned") /\ UNCHANGED tree
         ELSE IF t \in coord.inflight /\ leaf[l].status = "Paused" /\ leaf[l].why = "stopped"
         THEN /\ leaf' = [leaf EXCEPT ![l] = Ready(t)]
              /\ graph' = GraphIs("Running")
              /\ thread' = [thread EXCEPT ![t].pc = "register", ![t].held = {t}]
              /\ UNCHANGED group
         ELSE thread' = [thread EXCEPT ![t].pc = "after", ![t].result = "stopped"] /\ UNCHANGED tree
      /\ UNCHANGED <<run, coord, agents, answer, outside>>

-----------------------------------------------------------------------------
(* The driver: drive_dynamic_graph. *)

\* The phase of the run is advanced, when it is current, and the channel for
\* continues registered; a driver already there is replaced.
Register(t) ==
  /\ Step(t, "register")
  /\ \/ /\ coord' = [coord EXCEPT !.driver = t, !.starting = FALSE, !.pending = {}]
        /\ thread' = [thread EXCEPT ![t].pc = "pass", ![t].inbox = coord.pending]
     \/ /\ ~Current(t)
        /\ Goto(t, "returned") /\ UNCHANGED coord
  /\ UNCHANGED <<tree, run, agents, answer, outside>>

\* apply_dynamic_resume_overrides: a request fits a leaf that waits for it.
Fits(r) ==
  LET l == leaf[target[r]]
  IN  (l.status = "Paused" /\ l.why = "stopped") \/ (l.status = "Ready" /\ l.exec = r)
Taken(t) == {r \in thread[t].inbox \cap coord.inflight : Fits(r)}
Refused(t) == {r \in thread[t].inbox \cap coord.inflight : ~Fits(r)}
Rearmed(t) ==
  [l \in Leaves |-> IF \E r \in Taken(t) : target[r] = l
                    THEN Ready(CHOOSE r \in Taken(t) : target[r] = l) ELSE leaf[l]]
ReadyToLaunch(tr) == {l \in Leaves : tr[l].status = "Ready"}
\* The request a leaf is launched for: the last one taken for it.
RequestOf(held, l) ==
  LET mine == {r \in held : target[r] = l}
  IN  IF mine = {} THEN None ELSE CHOOSE r \in mine : \A q \in mine : q <= r

\* Mistaken: a leaf is launched though its request was revoked.
RevokedNever(tr, held) == {}
\* discard_revoked_dynamic_resume_before_launch and the claim that
\* persist_dynamic_node_running_and_ack makes: the lease is gone.
Revoked(tr, held) ==
  {l \in ReadyToLaunch(tr) : RequestOf(held, l) \notin coord.inflight \cup {None}}
Launched(tr, gone) ==
  [l \in Leaves |->
     IF l \in gone THEN Paused("stopped")
     ELSE IF l \in ReadyToLaunch(tr)
     THEN [status |-> "Running", exec |-> IF tr[l].exec = None THEN First ELSE tr[l].exec,
           why |-> "none"]
     ELSE tr[l]]

\* advance_dynamic_groups: the merge follows the children, the acceptance the
\* merge; neither asks for a slot.
NextOfGroup(tr) ==
  IF group = "Open" /\ Done(tr, Children) THEN Merge
  ELSE IF group = "Merging" /\ Done(tr, {Merge}) THEN Acceptance ELSE 0

\* What the loop does once the leaves are launched.
Looked(t, tr, held) ==
  LET next == NextOfGroup(tr)
      go(pc, result) == thread' = [thread EXCEPT ![t].inbox = {}, ![t].held = held,
                                                 ![t].pc = pc, ![t].result = result]
  IN  \/ /\ next # 0
         /\ leaf' = Refreshed([tr EXCEPT ![next] = Ready(None)])
         /\ group' = IF next = Merge THEN "Merging" ELSE "Accepting"
         /\ graph' = GraphIs("Running") /\ go("pass", "none")
      \/ /\ next = 0 /\ leaf' = tr /\ UNCHANGED group
         /\ \/ /\ group \in {"absent", "Closed"} /\ Done(tr, Exist(tr))
               /\ graph' = GraphIs("Completed") /\ go("drop", "completed")
            \/ /\ Active(tr) # {}
               /\ graph' = GraphIs("Running") /\ go("wait", "none")
            \/ /\ Active(tr) = {} /\ PausedLeaves(tr) # {}
               /\ graph' = GraphPaused(Aggregate(tr)) /\ go("drop", "paused")

\* One turn of the loop, up to the wait for a result: the requests sent are
\* applied, leaves that find a slot made ready and every ready leaf launched.
Pass(t) ==
  LET tr == Refreshed(Rearmed(t))
      held == thread[t].held \cup Taken(t)
      gone == Revoked(tr, held)
      started == ReadyToLaunch(tr) \ gone
      claims == {RequestOf(held, l) : l \in started} \ {None}
      next == Launched(tr, gone)
  IN  /\ Step(t, "pass") /\ Current(t)
      /\ Looked(t, next, held \ {RequestOf(held, l) : l \in ReadyToLaunch(tr)})
      /\ coord' = [coord EXCEPT !.inflight = @ \ (claims \cup Refused(t))]
      /\ answer' = [r \in Requests |-> IF r \in claims \cap coord.inflight THEN "started"
                                       ELSE IF r \in Refused(t) THEN "failed" ELSE answer[r]]
      /\ jobs' = jobs \cup {[leaf |-> l, exec |-> next[l].exec, by |-> t] : l \in started}
      /\ launched' = launched \cup claims
      /\ UNCHANGED <<run, mail, outside>>

\* A driver that is no longer current leaves and writes nothing.
PassSuperseded(t) ==
  /\ Step(t, "pass") /\ ~Current(t)
  /\ thread' = [thread EXCEPT ![t].pc = "drop", ![t].result = "paused"]
  /\ UNCHANGED <<tree, run, coord, agents, answer, outside>>

\* Mistaken: a result is taken whatever execution the leaf is in.
StaleNever(m) == FALSE
\* Mistaken: the execution of the outer attempt is compared.
StaleOuter(m) == thread[m.by].outer # m.exec
\* apply_dynamic_execution_message: the leaf is not in the execution the
\* result is of.
Stale(m) == leaf[m.leaf].exec # m.exec

\* rx.recv_timeout: a result, or nothing for a while.  Errors are applied
\* before the driver asks whether it is current, and a blocked leaf that was
\* the last active one ends the drive with an error.
TakeResult(t) ==
  /\ Step(t, "wait")
  /\ \E m \in {n \in mail : n.by = t} :
       LET l == m.leaf
           paused == [leaf EXCEPT ![l] = Paused(m.result)]
           last == Active(paused) = {}
           onwards(pc, result) == thread' = [thread EXCEPT ![t].pc = pc, ![t].result = result]
       IN  /\ mail' = mail \ {m}
           /\ \/ /\ Stale(m) /\ UNCHANGED tree
                 /\ IF graph.status = "Paused" THEN onwards("drop", "paused")
                    ELSE onwards("pass", "none")
              \/ /\ ~Stale(m) /\ m.result # "completed" /\ (m.error \/ Current(t))
                 /\ leaf' = paused /\ UNCHANGED group
                 /\ graph' = IF last THEN GraphPaused(m.result) ELSE GraphIs("Running")
                 /\ IF ~last THEN onwards("pass", "none")
                    ELSE onwards("drop", IF m.result = "blocked" THEN "blocked" ELSE "paused")
              \/ /\ ~Stale(m) /\ ~m.error /\ ~Current(t) /\ UNCHANGED tree
                 /\ onwards("drop", "paused")
              \/ /\ ~Stale(m) /\ m.result = "completed" /\ Current(t)
                 /\ leaf' = Completing(leaf, l) /\ group' = GroupAfter(l) /\ UNCHANGED graph
                 /\ onwards("pass", "none")
  /\ UNCHANGED <<run, coord, jobs, launched, answer, outside>>

NothingCame(t) ==
  /\ Step(t, "wait") /\ \A m \in mail : m.by # t
  /\ Goto(t, "pass")
  /\ UNCHANGED <<tree, run, coord, agents, answer, outside>>

-----------------------------------------------------------------------------
(* The end of a drive, and what it leaves to the requests of others. *)

\* unregister_dynamic_resume_driver; results on the way to the driver are lost.
Drop(t) ==
  /\ Step(t, "drop")
  /\ mail' = {m \in mail : m.by # t}
  /\ IF coord.driver = t
     THEN /\ coord' = [driver |-> NoThread, starting |-> FALSE, pending |-> {}, inflight |-> {}]
          /\ answer' = [r \in Requests |-> IF r \in coord.inflight THEN "failed" ELSE answer[r]]
          /\ thread' = [thread EXCEPT ![t].pc = "unwind", ![t].failed = coord.inflight,
                                      ![t].inbox = {}, ![t].held = {}]
     ELSE /\ thread' = [thread EXCEPT ![t].pc = "unwind", ![t].inbox = {}, ![t].held = {}]
          /\ UNCHANGED <<coord, answer>>
  /\ UNCHANGED <<tree, run, jobs, launched, outside>>

\* The leaves of the failed requests are paused one by one, while they are
\* still theirs.
PauseNext(S) ==
  \E l \in HeldBy(S) : PauseLeaves({l}) /\ Failing({r \in Requests : target[r] = l})
\* With the last of them drive_from_node reads why the graph is paused.
Unwind(t) ==
  LET ended == thread[t].result
  IN  /\ Step(t, "unwind")
      /\ \/ PauseNext(thread[t].failed) /\ UNCHANGED thread
         \/ /\ HeldBy(thread[t].failed) = {}
            /\ thread' = [thread EXCEPT
                 ![t].pc = "after", ![t].failed = {},
                 ![t].result = IF ended # "paused" THEN ended
                               ELSE IF graph.why = "none" THEN "stopped" ELSE graph.why]
            /\ UNCHANGED <<leaf, graph, run, coord, answer>>
      /\ UNCHANGED <<group, agents, outside>>

\* History: the run is paused, not by a stop, while a leaf is active.
NoteOvertaken == overtaken' = (overtaken \/ (run' # run /\ Active(leaf) # {}))

\* drive_from_node persists how the node ended, when it is still current.
After(t) ==
  /\ Step(t, "after")
  /\ run' = IF ~Current(t) THEN run
            ELSE IF thread[t].result = "completed"
            THEN [status |-> "Completed", why |-> "none", exec |-> None]
            ELSE [status |-> "Paused", why |-> thread[t].result, exec |-> None]
  /\ NoteOvertaken
  /\ Goto(t, "returned")
  /\ UNCHANGED <<tree, coord, agents, answer, target, late, sweeping, faults>>

\* run_continue_dynamic_inner: a drive that left its own request unserved.
Returned(t) ==
  /\ Step(t, "returned")
  /\ Goto(t, IF t \in coord.inflight THEN "fail" ELSE "done")
  /\ UNCHANGED <<tree, run, coord, agents, answer, outside>>

\* The worker of a failed continue fails every request of the graph.
Fail(t) ==
  /\ Step(t, "fail")
  /\ Failing(Requests)
  /\ thread' = [thread EXCEPT ![t].pc = "converge", ![t].failed = coord.inflight \cup {t}]
  /\ UNCHANGED <<tree, run, agents, outside>>
\* No thread that comes here has the run under its own execution still Running,
\* so the pause of the outer attempt that follows does nothing.
Converge(t) ==
  /\ Step(t, "converge")
  /\ \/ PauseNext(thread[t].failed) /\ UNCHANGED thread
     \/ /\ HeldBy(thread[t].failed) = {}
        /\ thread' = [thread EXCEPT ![t].pc = "done", ![t].failed = {}]
        /\ UNCHANGED <<leaf, graph, run, coord, answer>>
  /\ UNCHANGED <<group, agents, outside>>

-----------------------------------------------------------------------------
(* The agents. *)

\* A result is sent to the driver that launched the leaf, while it listens.
\* Errors are reported of a leaf that is still running; a result whose proposal
\* was rejected is blocked without one.
JobEnds(j) ==
  \E result \in {"completed", "stopped", "blocked"}, error \in BOOLEAN :
    /\ error \/ result = "blocked" => "error" \in Environment
    /\ error => result # "completed"
    /\ error => leaf[j.leaf].status = "Running" /\ leaf[j.leaf].exec = j.exec
    /\ jobs' = jobs \ {j}
    /\ mail' = IF thread[j.by].pc \in {"pass", "wait", "drop"}
               THEN mail \cup {[leaf |-> j.leaf, exec |-> j.exec, by |-> j.by,
                                result |-> result, error |-> error]}
               ELSE mail
    /\ UNCHANGED <<tree, run, coord, thread, launched, answer, outside>>

-----------------------------------------------------------------------------
(* Stops, timeouts and crashes. *)

Fault(kind) == kind \in Environment /\ faults < MaxFaults /\ faults' = faults + 1

\* persist_active_session_stop of a leaf: it is paused, its continue revoked.
StopLeaf(l) ==
  LET continuing == {r \in coord.inflight : target[r] = l}
  IN  /\ Fault("stop-leaf")
      /\ run.status = "Running" \/ continuing # {} \/ \E j \in jobs : j.leaf = l
      /\ \/ leaf[l].status \in {"Ready", "Running"}
         \/ leaf[l].status = "Paused" /\ continuing # {}
      /\ PauseLeaves({l}) /\ Failing(continuing)
      /\ UNCHANGED <<group, thread, agents, target, late, sweeping, overtaken>>

\* run_pause pauses the run first and its leaves afterwards.
StopRun ==
  /\ Fault("stop-run") /\ run.status = "Running"
  /\ run' = [status |-> "Paused", why |-> "stopped", exec |-> None]
  /\ sweeping' = TRUE
  /\ UNCHANGED <<tree, coord, thread, agents, answer, target, late, overtaken>>
\* Mistaken: leaves that have started are left to their agents.
SweptReady == [l \in Leaves |-> IF leaf[l].status \in {"Pending", "Ready"} THEN Paused("stopped")
                               ELSE leaf[l]]
\* update_dynamic_descendants_best_effort
Swept == [l \in Leaves |-> IF leaf[l].status \in {"absent", "Completed"} THEN leaf[l]
                          ELSE Paused("stopped")]
SweepLeaves ==
  /\ sweeping /\ sweeping' = FALSE
  /\ leaf' = Swept /\ graph' = GraphPaused("stopped")
  /\ UNCHANGED <<group, run, coord, thread, agents, answer, target, late, overtaken, faults>>

\* wait_for_dynamic_runtime_continue_launch: the caller gives up; the run is
\* paused in a second step, when the request had it rearmed.
Timeout(r) ==
  /\ Fault("timeout") /\ r \in coord.inflight
  /\ Failing({r}) /\ late' = late \cup {r}
  /\ UNCHANGED <<tree, run, thread, agents, target, sweeping, overtaken>>
TimeoutPause(r) ==
  /\ r \in late /\ late' = late \ {r}
  /\ run' = IF run.status = "Running" /\ run.exec = r
            THEN [status |-> "Paused", why |-> "stopped", exec |-> None] ELSE run
  /\ NoteOvertaken
  /\ UNCHANGED <<tree, coord, thread, agents, answer, target, sweeping, faults>>

\* Everything in memory is lost; the recovery pauses a run it finds Running,
\* with its leaves.
Crash ==
  /\ Fault("crash")
  /\ IF run.status = "Running"
     THEN /\ run' = [status |-> "Paused", why |-> "stopped", exec |-> None]
          /\ leaf' = Swept /\ graph' = GraphPaused("stopped")
     ELSE UNCHANGED <<run, leaf, graph>>
  /\ coord' = [driver |-> NoThread, starting |-> FALSE, pending |-> {}, inflight |-> {}]
  /\ thread' = [t \in Threads |->
                  IF thread[t].pc = "idle" THEN Idle ELSE [Idle EXCEPT !.pc = "done"]]
  /\ jobs' = {} /\ mail' = {} /\ late' = {} /\ sweeping' = FALSE
  /\ answer' = [r \in Requests |-> IF target[r] # 0 /\ answer[r] = "none" THEN "lost" ELSE answer[r]]
  /\ UNCHANGED <<group, launched, target, overtaken>>

-----------------------------------------------------------------------------
Progress(t) ==
  \/ ReadRun(t) \/ Dispatch(t) \/ Rearm(t) \/ Enter(t) \/ Register(t)
  \/ Pass(t) \/ PassSuperseded(t) \/ TakeResult(t)
  \/ Drop(t) \/ Unwind(t) \/ After(t) \/ Returned(t) \/ Fail(t) \/ Converge(t)

Next ==
  \/ \E l \in Leaves : Continue(l)
  \/ \E t \in Threads : Progress(t) \/ NothingCame(t)
  \/ \E j \in jobs : JobEnds(j)
  \/ \E l \in Leaves : StopLeaf(l)
  \/ StopRun \/ SweepLeaves
  \/ \E r \in Requests : Timeout(r) \/ TimeoutPause(r)
  \/ Crash

Spec == Init /\ [][Next]_vars

-----------------------------------------------------------------------------
(* Properties. *)

Statuses == {"absent", "Pending", "Ready", "Running", "Paused", "Completed"}
Reasons == {"none", "stopped", "blocked"}
Steps == {"idle", "read", "dispatch", "rearm", "enter", "register", "pass", "wait", "drop",
          "unwind", "after", "returned", "fail", "converge", "done"}
Executions == 0 .. First
Jobs == [leaf : Leaves, exec : Executions \ {None}, by : Threads]

\* Every variable keeps its type; only a live leaf has an execution; a driver
\* is a thread that runs, and a pending request is in flight.
TypeOK ==
  /\ leaf \in [Leaves -> [status : Statuses, exec : Executions, why : Reasons]]
  /\ \A l \in Leaves : /\ leaf[l].exec # None => leaf[l].status \in {"Ready", "Running"}
                       /\ leaf[l].status = "Running" => leaf[l].exec # None
  /\ group \in {"absent", "Open", "Merging", "Accepting", "Closed"}
  /\ graph \in [status : {"Running", "Paused", "Completed"}, why : Reasons]
  /\ run \in [status : {"Running", "Paused", "Completed"}, why : Reasons, exec : Executions]
  /\ coord \in [driver : Threads \cup {NoThread}, starting : BOOLEAN,
                pending : SUBSET Requests, inflight : SUBSET Requests]
  /\ coord.pending \subseteq coord.inflight
  /\ coord.driver \in Threads => thread[coord.driver].pc \in {"pass", "wait", "drop"}
  /\ thread \in [Threads -> [pc : Steps, outer : Executions, resumed : BOOLEAN,
                            inbox : SUBSET Requests, held : SUBSET Requests,
                            failed : SUBSET Requests, result : Reasons \cup {"paused", "completed"}]]
  /\ jobs \subseteq Jobs
  /\ mail \subseteq [leaf : Leaves, exec : Executions \ {None}, by : Threads,
                     result : {"completed", "stopped", "blocked"}, error : BOOLEAN]
  /\ target \in [Requests -> 0 .. Acceptance]
  /\ answer \in [Requests -> {"none", "started", "failed", "lost"}]
  /\ late \subseteq Requests /\ {sweeping, overtaken} \subseteq BOOLEAN
  /\ launched \subseteq Requests /\ faults \in 0 .. MaxFaults

\* A continue whose caller was told that it failed, timed out or was stopped
\* never starts an agent: the launch and the revocation compete for one lease.
FailedNeverRuns == \A r \in launched : answer[r] \notin {"failed", "none"}

\* The documents' "no active state without a thread that executes it": a leaf that
\* runs has an agent at work for that execution, or its result is on the way to
\* the driver that launched it, or the leaf is about to be paused.
LeafIsAttended ==
  \A l \in Leaves :
    ~sweeping /\ leaf[l].status = "Running" =>
      \E j \in jobs \cup {[leaf |-> m.leaf, exec |-> m.exec, by |-> m.by] : m \in mail} :
        j.leaf = l /\ j.exec = leaf[l].exec
\* So it is, unless the run was paused behind the back of the driver: by an
\* earlier driver that ends, or by the timeout of a continue.
RunningLeafHasWorker == overtaken \/ LeafIsAttended

\* A stop stands: a paused leaf goes on only for a request that is still to be
\* answered, whatever results, drivers and earlier requests arrive late.
StopStands ==
  [][\A l \in Leaves :
       leaf[l].status = "Paused" /\ leaf'[l].status # "Paused" =>
         \E r \in coord.inflight : target[r] = l /\ leaf'[l].exec = r /\ answer[r] = "none"]_vars

\* Threads, agents and the second halves of stops and timeouts go on; nobody
\* has to continue, stop or time out.
Fairness ==
  /\ \A t \in Threads : WF_vars(Progress(t)) /\ WF_vars(NothingCame(t))
  /\ WF_vars(\E j \in jobs : JobEnds(j))
  /\ WF_vars(SweepLeaves) /\ \A r \in Requests : WF_vars(TimeoutPause(r))
FairSpec == Spec /\ Fairness

\* A run that goes on is over or waits for the user in the end: no driver waits
\* for a leaf that nobody works on.
RunSettles == (run.status = "Running") ~> (run.status # "Running" \/ overtaken)
=============================================================================
