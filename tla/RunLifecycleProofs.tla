-------------------------- MODULE RunLifecycleProofs --------------------------
(***************************************************************************)
(* What RunLifecycle guarantees for every workflow, every number of        *)
(* requests and every bound.                                               *)
(***************************************************************************)
EXTENDS RunLifecycle, TLAPS, NaturalsInduction, WellFoundedInduction

(* The records of the model, kept as sets of their own.                    *)

RunStatuses == {"none", "running", "paused", "completed"}
NodeStatuses == RunStatuses \cup {"absent"}
Phases == {None, "preparing", "starting", "running", "repairing",
           "checking", "transitioning", "launching", "paused", "terminal"}
Pcs == {"idle", "register", "refused", "claim", "round", "node", "worktree", "load",
        "start", "provider", "turn", "persist", "decide", "finish", "fail"}
StopPcs == {"idle", "observe", "commit", "finish", "consume", "exit"}
Outputs == Pauses \cup {"unreferenced", "check", "repair", "success", "failure", "invalid"}
Runs == [status : RunStatuses, reason : Reasons \cup {None}, phase : Phases,
         token : TokenOrNone, attempt : IdOrNone, rounds : 0 .. MaxRounds,
         failures : [Nodes -> 0 .. MaxAttempts]]
NodeRuns == [id : Nodes \cup {None}, status : NodeStatuses, outcome : Outcomes \cup {None},
             manual : BOOLEAN, execution : IdOrNone]
Works == [pc : Pcs, request : Requests \cup {None}, token : TokenOrNone, attempt : IdOrNone,
          execution : IdOrNone, fallback : Fallbacks \cup {None}, phase : Phases,
          result : Outputs \cup {None}, tries : Nat, repairs : Nat]
Stops == [pc : StopPcs, by : Stoppers \cup {None}, attempt : IdOrNone, token : TokenOrNone,
          candidate : TokenOrNone]

\* what validate_run_state and validate_node_state ask for
GoodRuns == {r \in Runs : /\ r.status = "paused" <=> r.reason # None
                          /\ r.status = "paused" => r.phase \in {"paused", "checking"}}
GoodNodes == {n \in NodeRuns : n.status = "completed" <=> n.outcome # None}

RunType == run \in GoodRuns
NodeType == node \in GoodNodes /\ (run.status # "none" => node.id \in Nodes)
CandidateType == row \in TokenOrNone /\ active \in TokenOrNone
GateType == /\ recovery \in {"recovering", "accepting", "failed", "shutting-down", "down"}
            /\ blocked \in BOOLEAN /\ crashes \in Nat
LeaseType == lease \in Threads \cup {None} /\ (lease # None => thread[lease].pc # "idle")
ThreadType == thread \in [Threads -> Works]
StopType == stop \in Stops
\* a result is there to be persisted, and only a run that was started is decided about
Fed == \A t \in Threads :
  /\ thread[t].pc = "persist" => thread[t].result \in Outputs
  /\ thread[t].pc = "decide" \/ (thread[t].pc # "idle" /\ thread[t].request = "check") =>
       run.status # "none"

Typed == /\ RunType /\ NodeType /\ CandidateType /\ GateType /\ LeaseType
         /\ ThreadType /\ StopType /\ Fed

LEMMA TypedIsTypeOK == Typed => TypeOK
<1> SUFFICES ASSUME Typed PROVE TypeOK
  OBVIOUS
<1> USE DEF Typed, RunType, NodeType, GoodRuns, GoodNodes
<1>1. run \in Runs /\ node \in NodeRuns
  OBVIOUS
<1>2. (run.status = "paused") = (run.reason # None)
  OBVIOUS
<1>3. (node.status = "completed") = (node.outcome # None)
  OBVIOUS
<1>4. run.status = "paused" => run.phase \in {"paused", "checking"}
  OBVIOUS
<1>5. QED
  BY <1>1, <1>2, <1>3, <1>4 DEF TypeOK, CandidateType, GateType, LeaseType, Runs, NodeRuns,
     RunStatuses, NodeStatuses, Phases

LEMMA Words ==
  /\ None \notin Reasons /\ None \notin Outcomes /\ None \notin Fallbacks /\ None \notin Stoppers
  /\ None \notin Nat /\ None \notin Threads
  /\ "own" # None /\ "past" # None
  BY NoneAssumption DEF Fallbacks

LEMMA Constants ==
  /\ MaxAttempts \in Nat /\ MaxRounds \in Nat /\ None \in TokenOrNone /\ None \in IdOrNone
  /\ 0 \in 0 .. MaxRounds /\ 0 \in 0 .. MaxAttempts
  BY BoundAssumption DEF TokenOrNone, IdOrNone

\* Among the identities that nothing refers to there is a least one.
LEMMA LeastIn == ASSUME NEW S, S \subseteq Nat, S # {} PROVE Least(S) \in S
<1>1. PICK n \in S : \A m \in S : ~ (<<m, n>> \in OpToRel(<, Nat))
  BY NatLessThanWellFounded, WFMin
<1>2. \A m \in S : n \in Nat /\ m \in Nat /\ ~ (m < n)
  BY <1>1 DEF OpToRel
<1>3. \A m \in S : n <= m
  BY <1>2
<1>4. QED
  BY <1>3 DEF Least

LEMMA FreshToken ==
  ASSUME FreeTokens # {}
  PROVE  /\ Least(FreeTokens) \in Tokens /\ Least(FreeTokens) # None
         /\ Least(FreeTokens) \notin {run.token, row, active, stop.token, stop.candidate}
         /\ \A u \in Threads : thread[u].token # Least(FreeTokens)
<1>1. FreeTokens \subseteq Nat
  BY IdentityAssumption DEF FreeTokens
<1>2. Least(FreeTokens) \in FreeTokens
  BY <1>1, LeastIn
<1>3. QED
  BY <1>1, <1>2, Words DEF FreeTokens

LEMMA FreshAttempt ==
  ASSUME FreeAttempts # {}
  PROVE  /\ Least(FreeAttempts) \in Identities /\ Least(FreeAttempts) # None
         /\ Least(FreeAttempts) \notin {run.attempt, stop.attempt}
         /\ \A u \in Threads : thread[u].attempt # Least(FreeAttempts)
<1>1. FreeAttempts \subseteq Nat
  BY IdentityAssumption DEF FreeAttempts
<1>2. Least(FreeAttempts) \in FreeAttempts
  BY <1>1, LeastIn
<1>3. QED
  BY <1>1, <1>2, Words DEF FreeAttempts

LEMMA FreshExecution ==
  ASSUME FreeExecutions # {}
  PROVE  /\ Least(FreeExecutions) \in Identities /\ Least(FreeExecutions) # None
         /\ Least(FreeExecutions) # node.execution
         /\ \A u \in Threads : thread[u].execution # Least(FreeExecutions)
<1>1. FreeExecutions \subseteq Nat
  BY IdentityAssumption DEF FreeExecutions
<1>2. Least(FreeExecutions) \in FreeExecutions
  BY <1>1, LeastIn
<1>3. QED
  BY <1>1, <1>2, Words DEF FreeExecutions

-----------------------------------------------------------------------------
(* What the operators of the model make of a record.                       *)

\* The fields the invariant speaks of.
RunReads(r, status, reason, token, attempt) ==
  r.status = status /\ r.reason = reason /\ r.token = token /\ r.attempt = attempt
NodeReads(n, id, status, outcome, manual, execution) ==
  /\ n.id = id /\ n.status = status /\ n.outcome = outcome
  /\ n.manual = manual /\ n.execution = execution

LEMMA Nothing ==
  /\ NoRun \in GoodRuns /\ NoNode \in GoodNodes /\ Idle \in Works /\ NoStop \in Stops
  /\ NoRun.failures \in [Nodes -> 0 .. MaxAttempts]
  /\ NoRun.status = "none" /\ NoRun.token = None
  /\ Idle.pc = "idle" /\ Idle.token = None /\ Idle.attempt = None /\ Idle.execution = None
  /\ Idle.fallback = None /\ Idle.request = None
  /\ NoStop.pc = "idle" /\ NoStop.by = None /\ NoStop.token = None /\ NoStop.candidate = None
<1>1. NoRun \in Runs
  BY Constants DEF NoRun, Runs, RunStatuses, Phases
<1>2. NoRun \in GoodRuns
  BY <1>1 DEF NoRun, GoodRuns
<1>3. NoNode \in GoodNodes
  BY Constants DEF NoNode, NodeRuns, NodeStatuses, RunStatuses, GoodNodes
<1>4. Idle \in Works
  BY Constants DEF Idle, Works, Pcs, Phases
<1>5. NoStop \in Stops
  BY Constants DEF NoStop, Stops, StopPcs
<1>6. QED
  BY <1>2, <1>3, <1>4, <1>5, Constants DEF NoRun, Idle, NoStop

LEMMA Pausing ==
  ASSUME RunType, NEW reason \in Reasons
  PROVE  /\ PausedRun(reason) \in GoodRuns
         /\ RunReads(PausedRun(reason), "paused", reason, run.token, run.attempt)
         /\ [PausedRun(reason) EXCEPT !.phase = "checking"] \in GoodRuns
         /\ RunReads([PausedRun(reason) EXCEPT !.phase = "checking"],
                     "paused", reason, run.token, run.attempt)
<1>1. run \in Runs
  BY DEF RunType, GoodRuns
<1>2. /\ PausedRun(reason) \in Runs
      /\ RunReads(PausedRun(reason), "paused", reason, run.token, run.attempt)
      /\ PausedRun(reason).phase = "paused"
  BY <1>1 DEF PausedRun, RunReads, Runs, RunStatuses, Phases
<1>3. reason # None
  BY Words
<1>4. PausedRun(reason) \in GoodRuns
  BY <1>2, <1>3 DEF GoodRuns, RunReads
<1> DEFINE p == PausedRun(reason)
           q == [p EXCEPT !.phase = "checking"]
<1> HIDE DEF p
<1>5. /\ q \in Runs /\ q.phase = "checking"
      /\ RunReads(q, p.status, p.reason, p.token, p.attempt)
  BY <1>2 DEF p, Runs, RunReads, Phases
<1>6. q \in GoodRuns
  BY <1>2, <1>3, <1>5 DEF p, GoodRuns, RunReads
<1>7. QED
  BY <1>2, <1>4, <1>5, <1>6 DEF p, RunReads

LEMMA RunningOn ==
  ASSUME RunType, NEW phase \in Phases
  PROVE  /\ RunningRun(phase) \in GoodRuns
         /\ RunReads(RunningRun(phase), "running", None, run.token, run.attempt)
         /\ RunningRun(phase).rounds = run.rounds /\ RunningRun(phase).failures = run.failures
         /\ RunningRun(phase).phase = phase
<1>1. run \in Runs
  BY DEF RunType, GoodRuns
<1>2. /\ RunningRun(phase) \in Runs
      /\ RunReads(RunningRun(phase), "running", None, run.token, run.attempt)
      /\ RunningRun(phase).rounds = run.rounds /\ RunningRun(phase).failures = run.failures
      /\ RunningRun(phase).phase = phase
  BY <1>1 DEF RunningRun, RunReads, Runs, RunStatuses
<1>3. QED
  BY <1>2 DEF GoodRuns, RunReads

LEMMA RunRecords ==
  ASSUME NEW r \in GoodRuns, r.status = "running"
  PROVE  /\ \A phase \in Phases :
              /\ [r EXCEPT !.phase = phase] \in GoodRuns
              /\ RunReads([r EXCEPT !.phase = phase], "running", r.reason, r.token, r.attempt)
         /\ \A k \in TokenOrNone :
              /\ [r EXCEPT !.token = k] \in GoodRuns
              /\ RunReads([r EXCEPT !.token = k], "running", r.reason, k, r.attempt)
         /\ \A a \in Identities, f \in [Nodes -> 0 .. MaxAttempts], k \in 0 .. MaxRounds :
              /\ [r EXCEPT !.attempt = a, !.rounds = k, !.failures = f] \in GoodRuns
              /\ RunReads([r EXCEPT !.attempt = a, !.rounds = k, !.failures = f],
                          "running", r.reason, r.token, a)
              /\ [r EXCEPT !.attempt = a, !.failures = f] \in GoodRuns
              /\ RunReads([r EXCEPT !.attempt = a, !.failures = f],
                          "running", r.reason, r.token, a)
<1>1. r \in Runs /\ r.reason = None
  BY DEF GoodRuns
<1>2. \A phase \in Phases :
        /\ [r EXCEPT !.phase = phase] \in Runs
        /\ RunReads([r EXCEPT !.phase = phase], "running", r.reason, r.token, r.attempt)
  BY <1>1 DEF Runs, RunReads
<1>3. \A k \in TokenOrNone :
        /\ [r EXCEPT !.token = k] \in Runs
        /\ RunReads([r EXCEPT !.token = k], "running", r.reason, k, r.attempt)
  BY <1>1 DEF Runs, RunReads
<1>4. ASSUME NEW a \in Identities, NEW f \in [Nodes -> 0 .. MaxAttempts], NEW k \in 0 .. MaxRounds
      PROVE  /\ [r EXCEPT !.attempt = a, !.rounds = k, !.failures = f] \in Runs
             /\ RunReads([r EXCEPT !.attempt = a, !.rounds = k, !.failures = f],
                         "running", r.reason, r.token, a)
             /\ [r EXCEPT !.attempt = a, !.failures = f] \in Runs
             /\ RunReads([r EXCEPT !.attempt = a, !.failures = f],
                         "running", r.reason, r.token, a)
  <2>1. a \in IdOrNone
    BY DEF IdOrNone
  <2>2. QED
    BY <1>1, <2>1 DEF Runs, RunReads
<1>5. \A s \in Runs : s.status = "running" /\ s.reason = None => s \in GoodRuns
  BY DEF GoodRuns
<1>6. \A phase \in Phases : [r EXCEPT !.phase = phase] \in GoodRuns
  BY <1>1, <1>2, <1>5 DEF RunReads
<1>7. \A k \in TokenOrNone : [r EXCEPT !.token = k] \in GoodRuns
  BY <1>1, <1>3, <1>5 DEF RunReads
<1>8. ASSUME NEW a \in Identities, NEW f \in [Nodes -> 0 .. MaxAttempts], NEW k \in 0 .. MaxRounds
      PROVE  /\ [r EXCEPT !.attempt = a, !.rounds = k, !.failures = f] \in GoodRuns
             /\ [r EXCEPT !.attempt = a, !.failures = f] \in GoodRuns
  <2> DEFINE q == [r EXCEPT !.attempt = a, !.rounds = k, !.failures = f]
             p == [r EXCEPT !.attempt = a, !.failures = f]
  <2>1. q \in Runs /\ p \in Runs /\ RunReads(q, "running", r.reason, r.token, a)
                  /\ RunReads(p, "running", r.reason, r.token, a)
    BY <1>4
  <2> HIDE DEF q, p
  <2>2. q \in GoodRuns /\ p \in GoodRuns
    BY <1>1, <1>5, <2>1 DEF RunReads
  <2>3. QED
    BY <2>2 DEF q, p
<1>9. QED
  BY <1>2, <1>3, <1>4, <1>6, <1>7, <1>8

LEMMA Completing ==
  ASSUME RunType
  PROVE  /\ [run EXCEPT !.status = "completed", !.reason = None, !.phase = "terminal"] \in GoodRuns
         /\ RunReads([run EXCEPT !.status = "completed", !.reason = None, !.phase = "terminal"],
                     "completed", None, run.token, run.attempt)
<1> DEFINE r == [run EXCEPT !.status = "completed", !.reason = None, !.phase = "terminal"]
<1>1. run \in Runs
  BY DEF RunType, GoodRuns
<1>2. r \in Runs /\ RunReads(r, "completed", None, run.token, run.attempt)
  BY <1>1 DEF Runs, RunReads, RunStatuses, Phases
<1>3. QED
  BY <1>2 DEF GoodRuns, RunReads

FirstRun(phase, k, a) ==
  [NoRun EXCEPT !.status = "running", !.phase = phase, !.token = k, !.attempt = a]

LEMMA Starting ==
  ASSUME NEW phase \in Phases, NEW k \in TokenOrNone, NEW a \in Identities
  PROVE  FirstRun(phase, k, a) \in GoodRuns /\ RunReads(FirstRun(phase, k, a), "running", None, k, a)
<1>1. a \in IdOrNone
  BY DEF IdOrNone
<1>2. /\ FirstRun(phase, k, a) \in Runs
      /\ RunReads(FirstRun(phase, k, a), "running", None, k, a)
  BY <1>1, Constants DEF FirstRun, Runs, RunReads, RunStatuses, Phases, NoRun
<1>3. QED
  BY <1>2 DEF GoodRuns, RunReads

\* The states of a node the actions make.
ExecutingNode(n, e) == [n EXCEPT !.execution = e]
CompletedNode(n, o) == [n EXCEPT !.status = "completed", !.outcome = o]
CheckedNode(n, o) == [n EXCEPT !.status = "completed", !.outcome = o, !.manual = FALSE]
StoppedNode(n) == [n EXCEPT !.status = "paused", !.outcome = None, !.execution = None]
AskedNode(n) == [n EXCEPT !.status = "paused", !.outcome = None, !.manual = TRUE]
RepairedNode(n) == [n EXCEPT !.status = "running", !.outcome = None]

LEMMA NodeRecords ==
  ASSUME NEW n \in GoodNodes
  PROVE  /\ \A e \in IdOrNone :
              ExecutingNode(n, e) \in GoodNodes /\ NodeReads(ExecutingNode(n, e), n.id, n.status, n.outcome, n.manual, e)
         /\ \A o \in Outcomes :
              CompletedNode(n, o) \in GoodNodes /\ NodeReads(CompletedNode(n, o), n.id, "completed", o, n.manual, n.execution)
         /\ \A o \in Outcomes :
              CheckedNode(n, o) \in GoodNodes /\ NodeReads(CheckedNode(n, o), n.id, "completed", o, FALSE, n.execution)
         /\ StoppedNode(n) \in GoodNodes /\ NodeReads(StoppedNode(n), n.id, "paused", None, n.manual, None)
         /\ AskedNode(n) \in GoodNodes /\ NodeReads(AskedNode(n), n.id, "paused", None, TRUE, n.execution)
         /\ RepairedNode(n) \in GoodNodes /\ NodeReads(RepairedNode(n), n.id, "running", None, n.manual, n.execution)
<1> USE DEF NodeReads
<1>1. n \in NodeRuns /\ (n.status = "completed" <=> n.outcome # None)
  BY DEF GoodNodes
<1>2. \A m \in NodeRuns : (m.status = "completed" <=> m.outcome # None) => m \in GoodNodes
  BY DEF GoodNodes
<1>3. ASSUME NEW e \in IdOrNone
      PROVE  ExecutingNode(n, e) \in GoodNodes /\ NodeReads(ExecutingNode(n, e), n.id, n.status, n.outcome, n.manual, e)
  BY <1>1, <1>2, Words, Constants DEF ExecutingNode, NodeRuns, NodeStatuses, RunStatuses
<1>4. ASSUME NEW o \in Outcomes
      PROVE  CompletedNode(n, o) \in GoodNodes /\ NodeReads(CompletedNode(n, o), n.id, "completed", o, n.manual, n.execution)
  BY <1>1, <1>2, Words, Constants DEF CompletedNode, NodeRuns, NodeStatuses, RunStatuses
<1>5. ASSUME NEW o \in Outcomes
      PROVE  CheckedNode(n, o) \in GoodNodes /\ NodeReads(CheckedNode(n, o), n.id, "completed", o, FALSE, n.execution)
  BY <1>1, <1>2, Words, Constants DEF CheckedNode, NodeRuns, NodeStatuses, RunStatuses
<1>6. StoppedNode(n) \in GoodNodes /\ NodeReads(StoppedNode(n), n.id, "paused", None, n.manual, None)
  BY <1>1, <1>2, Words, Constants DEF StoppedNode, NodeRuns, NodeStatuses, RunStatuses
<1>7. AskedNode(n) \in GoodNodes /\ NodeReads(AskedNode(n), n.id, "paused", None, TRUE, n.execution)
  BY <1>1, <1>2, Words, Constants DEF AskedNode, NodeRuns, NodeStatuses, RunStatuses
<1>8. RepairedNode(n) \in GoodNodes /\ NodeReads(RepairedNode(n), n.id, "running", None, n.manual, n.execution)
  BY <1>1, <1>2, Words, Constants DEF RepairedNode, NodeRuns, NodeStatuses, RunStatuses
<1>9. QED
  BY <1>3, <1>4, <1>5, <1>6, <1>7, <1>8

LEMMA Launched ==
  ASSUME NEW n \in Nodes, NEW e \in Identities
  PROVE  NewNode(n, e) \in GoodNodes /\ NodeReads(NewNode(n, e), n, "running", None, FALSE, e)
<1>1. NewNode(n, e) \in NodeRuns
  BY DEF NewNode, NodeRuns, NodeStatuses, RunStatuses, IdOrNone
<1>2. QED
  BY <1>1 DEF NewNode, GoodNodes, NodeReads

\* The node of a run whose first files are not all written yet.
UnwrittenNode(status) == [NoNode EXCEPT !.id = Entry, !.status = status]

LEMMA Unwritten ==
  ASSUME NEW status \in {"none", "absent"}
  PROVE  /\ UnwrittenNode(status) \in GoodNodes
         /\ NodeReads(UnwrittenNode(status), Entry, status, None, FALSE, None)
<1>1. NoNode \in NodeRuns /\ status \in NodeStatuses /\ Entry \in Nodes
  BY Nothing, WorkflowAssumption DEF GoodNodes, NodeStatuses, RunStatuses
<1>2. /\ UnwrittenNode(status) \in NodeRuns
      /\ NodeReads(UnwrittenNode(status), Entry, status, None, FALSE, None)
  BY <1>1 DEF UnwrittenNode, NodeRuns, NodeReads, NoNode
<1>3. QED
  BY <1>2 DEF GoodNodes, NodeReads

LEMMA FirstNode == [NoNode EXCEPT !.id = Entry] = UnwrittenNode("none")
<1>1. NoNode \in NodeRuns /\ NoNode.status = "none"
  BY Nothing DEF GoodNodes, NoNode
<1>2. [NoNode EXCEPT !.id = Entry] = [NoNode EXCEPT !.id = Entry, !.status = NoNode.status]
  BY <1>1 DEF NodeRuns
<1>3. QED
  BY <1>1, <1>2 DEF UnwrittenNode

LEMMA PausingNode ==
  ASSUME NodeType
  PROVE  /\ PausedNode \in GoodNodes /\ PausedNode.id = node.id
         /\ PausedNode.status # "running" /\ PausedNode.manual = node.manual
         /\ HasNode => PausedNode.status \in {"paused", "completed"}
         /\ \/ PausedNode = node /\ node.status # "paused"
            \/ PausedNode.execution = None /\ PausedNode.status = "paused"
         /\ node.status = "paused" => PausedNode.execution = None /\ PausedNode.status = "paused"
<1>1. CASE node.status = "completed" \/ ~HasNode
  BY <1>1 DEF PausedNode, NodeType, HasNode
<1>2. CASE ~(node.status = "completed" \/ ~HasNode)
  <2>1. PausedNode = StoppedNode(node)
    BY <1>2 DEF PausedNode, StoppedNode
  <2>2. QED
    BY <2>1, NodeRecords DEF NodeType, NodeReads
<1>3. QED
  BY <1>1, <1>2

LEMMA StartingNode ==
  ASSUME NodeType
  PROVE  LET m == [node EXCEPT !.status = IF @ = "paused" THEN "running" ELSE @]
         IN /\ m \in GoodNodes /\ m.id = node.id /\ m.manual = node.manual
            /\ m.execution = node.execution /\ m.outcome = node.outcome
            /\ m.status \in {node.status, "running"}
            /\ m.status # "paused" /\ (node.status # "paused" => m.status = node.status)
<1> DEFINE m == [node EXCEPT !.status = IF @ = "paused" THEN "running" ELSE @]
<1>1. node \in NodeRuns /\ (node.status = "completed" <=> node.outcome # None)
  BY DEF NodeType, GoodNodes
<1>2. m \in NodeRuns
  BY <1>1 DEF NodeRuns, NodeStatuses, RunStatuses
<1>3. /\ m.status = IF node.status = "paused" THEN "running" ELSE node.status
      /\ m.id = node.id /\ m.manual = node.manual /\ m.execution = node.execution
      /\ m.outcome = node.outcome
  BY <1>1 DEF NodeRuns
<1> HIDE DEF m
<1>4. m.status = "completed" <=> m.outcome # None
  BY <1>1, <1>3
<1>5. m \in GoodNodes
  BY <1>2, <1>4 DEF GoodNodes
<1>6. QED
  BY <1>3, <1>5 DEF m

-----------------------------------------------------------------------------
(* The steps of a thread.                                                  *)

\* One thread is written.  It keeps its request and its candidate.
Puts(t, w) == /\ thread' \in [Threads -> Works] /\ thread'[t] = w
              /\ \A u \in Threads \ {t} : thread'[u] = thread[u]
Keeps(t, pc) == /\ Puts(t, thread'[t]) /\ thread'[t].pc = pc
                /\ thread'[t].request = thread[t].request /\ thread'[t].token = thread[t].token
Goes(t, pc, attempt, execution, fallback) ==
  /\ Keeps(t, pc) /\ thread'[t].attempt = attempt
  /\ thread'[t].execution = execution /\ thread'[t].fallback = fallback
\* It goes on with what it has.
Moves(t, pc) == Goes(t, pc, thread[t].attempt, thread[t].execution, thread[t].fallback)
Leaves(t) == Puts(t, Idle) /\ lease' = IF lease = t THEN None ELSE lease

LEMMA Putting ==
  ASSUME ThreadType, NEW t \in Threads, NEW w \in Works, thread' = [thread EXCEPT ![t] = w]
  PROVE  Puts(t, w)
  BY DEF ThreadType, Puts

LEMMA Leaving == ASSUME ThreadType, NEW t \in Threads, Leave(t) PROVE Leaves(t)
  BY Putting, Nothing DEF Leave, Leaves, Free

\* What is written of a thread, whatever else is.
LEMMA Writing ==
  ASSUME ThreadType, NEW t \in Threads, NEW w \in Works,
         w.request = thread[t].request, w.token = thread[t].token,
         thread' = [thread EXCEPT ![t] = w]
  PROVE  Goes(t, w.pc, w.attempt, w.execution, w.fallback) /\ thread'[t] = w
<1>1. Puts(t, w)
  BY Putting
<1>2. thread'[t] = w
  BY <1>1 DEF Puts
<1>3. QED
  BY <1>1, <1>2 DEF Goes, Keeps

LEMMA Going ==
  ASSUME ThreadType, NEW t \in Threads, NEW pc \in Pcs, Go(t, pc)
  PROVE  Moves(t, pc) /\ thread'[t].result = thread[t].result
<1> DEFINE w == [thread[t] EXCEPT !.pc = pc]
<1>1. thread' = [thread EXCEPT ![t] = w]
  BY DEF Go, ThreadType
<1>2. /\ w \in Works /\ w.pc = pc /\ w.request = thread[t].request /\ w.token = thread[t].token
      /\ w.attempt = thread[t].attempt /\ w.execution = thread[t].execution
      /\ w.fallback = thread[t].fallback /\ w.result = thread[t].result
  <2>1. thread[t] \in Works
    BY DEF ThreadType
  <2>2. QED
    BY <2>1 DEF Works
<1> HIDE DEF w
<1>3. QED
  BY <1>1, <1>2, Writing DEF Moves

\* The thread writes its phase, and its tries or its result, and goes on with what it has.
LEMMA Proceeding ==
  ASSUME ThreadType, NEW t \in Threads, NEW pc \in Pcs,
         \/ \E phase \in Phases : thread' = [thread EXCEPT ![t].pc = pc, ![t].phase = phase]
         \/ \E phase \in Phases, k \in Nat :
              thread' = [thread EXCEPT ![t].pc = pc, ![t].phase = phase, ![t].tries = k]
         \/ \E k \in Nat : thread' = [thread EXCEPT ![t].pc = pc, ![t].tries = k]
  PROVE  Moves(t, pc)
<1>1. thread[t] \in Works /\ thread[t].tries \in Nat /\ thread[t].phase \in Phases
  BY DEF ThreadType, Works
<1>2. PICK phase \in Phases, k \in Nat :
        thread' = [thread EXCEPT ![t] = [thread[t] EXCEPT !.pc = pc, !.phase = phase, !.tries = k]]
  <2>1. CASE \E phase \in Phases : thread' = [thread EXCEPT ![t].pc = pc, ![t].phase = phase]
    <3>1. PICK phase \in Phases : thread' = [thread EXCEPT ![t].pc = pc, ![t].phase = phase]
      BY <2>1
    <3>2. [thread[t] EXCEPT !.pc = pc, !.phase = phase]
            = [thread[t] EXCEPT !.pc = pc, !.phase = phase, !.tries = thread[t].tries]
      BY <1>1 DEF Works
    <3>3. thread' = [thread EXCEPT ![t] = [thread[t] EXCEPT !.pc = pc, !.phase = phase]]
      BY <3>1 DEF ThreadType
    <3>4. QED
      BY <1>1, <3>2, <3>3
  <2>2. CASE \E phase \in Phases, k \in Nat :
               thread' = [thread EXCEPT ![t].pc = pc, ![t].phase = phase, ![t].tries = k]
    <3>1. PICK phase \in Phases, k \in Nat :
               thread' = [thread EXCEPT ![t].pc = pc, ![t].phase = phase, ![t].tries = k]
      BY <2>2
    <3>2. thread' = [thread EXCEPT ![t] = [thread[t] EXCEPT !.pc = pc, !.phase = phase, !.tries = k]]
      BY <3>1 DEF ThreadType
    <3>3. QED
      BY <3>2
  <2>3. CASE \E k \in Nat : thread' = [thread EXCEPT ![t].pc = pc, ![t].tries = k]
    <3>1. PICK k \in Nat : thread' = [thread EXCEPT ![t].pc = pc, ![t].tries = k]
      BY <2>3
    <3>2. [thread[t] EXCEPT !.pc = pc, !.tries = k]
            = [thread[t] EXCEPT !.pc = pc, !.phase = thread[t].phase, !.tries = k]
      BY <1>1 DEF Works
    <3>3. thread' = [thread EXCEPT ![t] = [thread[t] EXCEPT !.pc = pc, !.tries = k]]
      BY <3>1 DEF ThreadType
    <3>4. QED
      BY <1>1, <3>2, <3>3
  <2>4. QED
    BY <2>1, <2>2, <2>3
<1> DEFINE v == [thread[t] EXCEPT !.pc = pc, !.phase = phase, !.tries = k]
<1>3. /\ v \in Works /\ v.pc = pc /\ v.request = thread[t].request /\ v.token = thread[t].token
      /\ v.attempt = thread[t].attempt /\ v.execution = thread[t].execution
      /\ v.fallback = thread[t].fallback
  BY <1>1 DEF Works
<1>4. thread' = [thread EXCEPT ![t] = v]
  BY <1>2
<1> HIDE DEF v
<1>5. QED
  BY <1>3, <1>4, Writing DEF Moves

LEMMA Fields ==
  ASSUME ThreadType, NEW t \in Threads
  PROVE  /\ thread[t] \in Works /\ thread[t].pc \in Pcs
         /\ thread[t].attempt \in IdOrNone /\ thread[t].execution \in IdOrNone
         /\ thread[t].fallback \in Fallbacks \cup {None} /\ thread[t].phase \in Phases
         /\ thread[t].result \in Outputs \cup {None}
         /\ thread[t].repairs \in Nat /\ thread[t].tries \in Nat
         /\ thread[t].token \in TokenOrNone /\ thread[t].request \in Requests \cup {None}
  BY DEF ThreadType, Works

LEMMA PreparingGoes ==
  ASSUME ThreadType, NEW t \in Threads, NEW a \in Identities, NEW phase \in Phases,
         thread' = [thread EXCEPT ![t].pc = "round", ![t].attempt = a, ![t].phase = phase]
  PROVE  Goes(t, "round", a, thread[t].execution, thread[t].fallback)
<1> DEFINE x == thread[t]
           w == [x EXCEPT !.pc = "round", !.attempt = a, !.phase = phase]
<1>1. x \in Works /\ a \in IdOrNone /\ "round" \in Pcs
  BY Fields DEF IdOrNone, Pcs
<1>2. thread' = [thread EXCEPT ![t] = w]
  BY DEF ThreadType
<1>3. /\ w \in Works /\ w.pc = "round" /\ w.request = x.request /\ w.token = x.token
      /\ w.attempt = a /\ w.execution = x.execution /\ w.fallback = x.fallback
  BY <1>1 DEF Works
<1> HIDE DEF w
<1>4. Goes(t, w.pc, w.attempt, w.execution, w.fallback)
  BY <1>2, <1>3, Writing
<1>5. QED
  BY <1>3, <1>4

LEMMA PreparedGoes ==
  ASSUME ThreadType, NEW t \in Threads, NEW pc \in Pcs, NEW e \in Identities,
         thread' = [thread EXCEPT ![t].execution = e, ![t].fallback = "own", ![t].pc = pc]
  PROVE  Goes(t, pc, thread[t].attempt, e, "own")
<1> DEFINE x == thread[t]
           w == [x EXCEPT !.execution = e, !.fallback = "own", !.pc = pc]
<1>1. x \in Works /\ e \in IdOrNone /\ "own" \in Fallbacks
  BY Fields DEF IdOrNone, Fallbacks
<1>2. thread' = [thread EXCEPT ![t] = w]
  BY DEF ThreadType
<1>3. /\ w \in Works /\ w.pc = pc /\ w.request = x.request /\ w.token = x.token
      /\ w.attempt = x.attempt /\ w.execution = e /\ w.fallback = "own"
  BY <1>1 DEF Works
<1> HIDE DEF w
<1>4. Goes(t, w.pc, w.attempt, w.execution, w.fallback)
  BY <1>2, <1>3, Writing
<1>5. QED
  BY <1>3, <1>4

LEMMA ContinuedGoes ==
  ASSUME ThreadType, NEW t \in Threads, NEW e \in Identities,
         thread' = [thread EXCEPT ![t].pc = "load", ![t].execution = e, ![t].fallback = "own"]
  PROVE  Goes(t, "load", thread[t].attempt, e, "own")
<1> DEFINE x == thread[t]
           w == [x EXCEPT !.pc = "load", !.execution = e, !.fallback = "own"]
<1>1. x \in Works /\ e \in IdOrNone /\ "own" \in Fallbacks /\ "load" \in Pcs
  BY Fields DEF IdOrNone, Fallbacks, Pcs
<1>2. thread' = [thread EXCEPT ![t] = w]
  BY DEF ThreadType
<1>3. /\ w \in Works /\ w.pc = "load" /\ w.request = x.request /\ w.token = x.token
      /\ w.attempt = x.attempt /\ w.execution = e /\ w.fallback = "own"
  BY <1>1 DEF Works
<1> HIDE DEF w
<1>4. Goes(t, w.pc, w.attempt, w.execution, w.fallback)
  BY <1>2, <1>3, Writing
<1>5. QED
  BY <1>3, <1>4

LEMMA RecoveredGoes ==
  ASSUME ThreadType, NEW t \in Threads, NEW e \in Identities,
         thread' = [thread EXCEPT ![t].pc = "decide", ![t].execution = e]
  PROVE  Goes(t, "decide", thread[t].attempt, e, thread[t].fallback)
<1> DEFINE x == thread[t]
           w == [x EXCEPT !.pc = "decide", !.execution = e]
<1>1. x \in Works /\ e \in IdOrNone /\ "decide" \in Pcs
  BY Fields DEF IdOrNone, Pcs
<1>2. thread' = [thread EXCEPT ![t] = w]
  BY DEF ThreadType
<1>3. /\ w \in Works /\ w.pc = "decide" /\ w.request = x.request /\ w.token = x.token
      /\ w.attempt = x.attempt /\ w.execution = e /\ w.fallback = x.fallback
  BY <1>1 DEF Works
<1> HIDE DEF w
<1>4. Goes(t, w.pc, w.attempt, w.execution, w.fallback)
  BY <1>2, <1>3, Writing
<1>5. QED
  BY <1>3, <1>4

LEMMA ResultGoes ==
  ASSUME ThreadType, NEW t \in Threads, NEW result \in Outputs,
         thread' = [thread EXCEPT ![t].pc = "persist", ![t].result = result]
  PROVE  Moves(t, "persist") /\ thread'[t].result = result
<1> DEFINE x == thread[t]
           w == [x EXCEPT !.pc = "persist", !.result = result]
<1>1. x \in Works /\ "persist" \in Pcs
  BY Fields DEF Pcs
<1>2. thread' = [thread EXCEPT ![t] = w]
  BY DEF ThreadType
<1>3. /\ w \in Works /\ w.pc = "persist" /\ w.request = x.request /\ w.token = x.token
      /\ w.attempt = x.attempt /\ w.execution = x.execution /\ w.fallback = x.fallback
      /\ w.result = result
  BY <1>1 DEF Works
<1> HIDE DEF w
<1>4. QED
  BY <1>2, <1>3, Writing DEF Moves

LEMMA PersistGoes ==
  ASSUME ThreadType, NEW t \in Threads, NEW pc \in Pcs, NEW result,
         thread' = [thread EXCEPT ![t].pc = pc, ![t].result = None,
               ![t].phase = IF result = "repair" THEN "repairing" ELSE @,
               ![t].repairs = IF result = "repair" THEN @ + 1 ELSE @]
  PROVE  Moves(t, pc)
<1> DEFINE x == thread[t]
           phase == IF result = "repair" THEN "repairing" ELSE x.phase
           k == IF result = "repair" THEN x.repairs + 1 ELSE x.repairs
           w == [x EXCEPT !.pc = pc, !.result = None, !.phase = phase, !.repairs = k]
<1>1. x \in Works /\ phase \in Phases /\ k \in Nat
  BY Fields DEF Phases
<1>2. thread' = [thread EXCEPT ![t] = w]
  BY <1>1 DEF ThreadType, Works
<1> HIDE DEF phase, k
<1>3. /\ w \in Works /\ w.pc = pc /\ w.request = x.request /\ w.token = x.token
      /\ w.attempt = x.attempt /\ w.execution = x.execution /\ w.fallback = x.fallback
  BY <1>1 DEF Works
<1> HIDE DEF w
<1>4. QED
  BY <1>2, <1>3, Writing DEF Moves

LEMMA ProceedGoes ==
  ASSUME ThreadType, NEW t \in Threads, NEW a \in Identities, NEW e \in Identities,
         thread' = [thread EXCEPT ![t].pc = "start", ![t].attempt = a, ![t].execution = e,
           ![t].phase = "launching", ![t].repairs = 0,
           ![t].fallback = IF @ = None THEN "own" ELSE "past"]
  PROVE  \E f \in Fallbacks : Goes(t, "start", a, e, f)
<1> DEFINE x == thread[t]
           f == IF x.fallback = None THEN "own" ELSE "past"
           w == [x EXCEPT !.pc = "start", !.attempt = a, !.execution = e, !.phase = "launching",
                          !.repairs = 0, !.fallback = f]
<1>1. /\ x \in Works /\ f \in Fallbacks /\ a \in IdOrNone /\ e \in IdOrNone
      /\ "start" \in Pcs /\ "launching" \in Phases /\ 0 \in Nat
  BY Fields DEF Fallbacks, IdOrNone, Pcs, Phases
<1>2. thread' = [thread EXCEPT ![t] = w]
  BY <1>1 DEF ThreadType, Works
<1> HIDE DEF f
<1>3. /\ w \in Works /\ w.pc = "start" /\ w.request = x.request /\ w.token = x.token
      /\ w.attempt = a /\ w.execution = e /\ w.fallback = f
  BY <1>1 DEF Works
<1> HIDE DEF w
<1>4. Goes(t, "start", a, e, f)
  BY <1>2, <1>3, Writing
<1>5. QED
  BY <1>1, <1>4

-----------------------------------------------------------------------------
(* Every variable keeps its type.                                          *)

\* What a step that leaves the candidates, the stop and the coordinator alone keeps.
LEMMA Elsewhere ==
  ASSUME Typed, UNCHANGED <<row, active, stop, process>>
  PROVE  CandidateType' /\ GateType' /\ StopType'
  BY DEF Typed, CandidateType, GateType, StopType, process

LEMMA Undisturbed == ASSUME Typed, UNCHANGED <<run, node>> PROVE RunType' /\ NodeType'
  BY DEF Typed, RunType, NodeType

\* The candidates when one is removed.
LEMMA Removed ==
  ASSUME Typed, row' \in {row, None}, active' \in {active, None} PROVE CandidateType'
  BY Constants DEF Typed, CandidateType

LEMMA Removing == \A k, held : Without(k, held) \in {held, None}
  BY DEF Without

\* A thread that is at work goes on.
LEMMA GoesTyped ==
  ASSUME Typed, NEW t \in Threads, NEW pc \in Pcs \ {"idle"}, thread[t].pc # "idle",
         Keeps(t, pc), lease' \in {lease, t, None},
         RunType', NodeType', CandidateType', GateType', StopType',
         run.status # "none" => run'.status # "none",
         pc = "persist" => thread'[t].result \in Outputs,
         pc = "decide" => run'.status # "none"
  PROVE  Typed'
<1>1. thread' \in [Threads -> Works] /\ thread'[t].pc = pc
  BY DEF Keeps, Puts
<1>2. \A u \in Threads \ {t} : thread'[u] = thread[u]
  BY DEF Keeps, Puts
<1>3. ThreadType'
  BY <1>1 DEF ThreadType
<1>4. LeaseType'
  BY <1>1, <1>2, Words DEF Typed, LeaseType
<1>5. Fed'
  <2>1. thread'[t].request = thread[t].request
    BY DEF Keeps
  <2>2. \A u \in Threads : /\ thread[u].pc = "persist" => thread[u].result \in Outputs
                           /\ thread[u].pc = "decide" => run.status # "none"
                           /\ thread[u].pc # "idle" /\ thread[u].request = "check" =>
                                run.status # "none"
    BY DEF Typed, Fed
  <2>3. QED
    BY <1>1, <1>2, <2>1, <2>2 DEF Fed
<1>6. QED
  BY <1>3, <1>4, <1>5 DEF Typed

LEMMA LeavesTyped ==
  ASSUME Typed, NEW t \in Threads, Leaves(t),
         RunType', NodeType', CandidateType', GateType', StopType',
         run.status # "none" => run'.status # "none"
  PROVE  Typed'
<1>1. thread' \in [Threads -> Works] /\ thread'[t] = Idle
  BY DEF Leaves, Puts
<1>2. \A u \in Threads \ {t} : thread'[u] = thread[u]
  BY DEF Leaves, Puts
<1>3. lease' = IF lease = t THEN None ELSE lease
  BY DEF Leaves
<1>4. ThreadType'
  BY <1>1 DEF ThreadType
<1>5. LeaseType'
  BY <1>1, <1>2, <1>3, Words DEF Typed, LeaseType
<1>6. Fed'
  <2>1. Idle.pc = "idle"
    BY Nothing
  <2>2. \A u \in Threads : /\ thread[u].pc = "persist" => thread[u].result \in Outputs
                           /\ thread[u].pc = "decide" => run.status # "none"
                           /\ thread[u].pc # "idle" /\ thread[u].request = "check" =>
                                run.status # "none"
    BY DEF Typed, Fed
  <2>3. QED
    BY <1>1, <1>2, <2>1, <2>2 DEF Fed
<1>7. QED
  BY <1>4, <1>5, <1>6 DEF Typed

\* Steps of the stop and of the coordinator.
LEMMA StopTyped ==
  ASSUME Typed, UNCHANGED <<lease, thread>>, RunType', NodeType', CandidateType', GateType', StopType',
         run.status # "none" => run'.status # "none"
  PROVE  Typed'
<1>1. LeaseType' /\ ThreadType'
  BY DEF Typed, LeaseType, ThreadType
<1>2. Fed'
  BY DEF Typed, Fed
<1>3. QED
  BY <1>1, <1>2 DEF Typed

LEMMA DownTyped == ASSUME Typed, Down, RunType', NodeType' PROVE Typed'
<1>1. thread' = [t \in Threads |-> Idle] /\ lease' = None /\ stop' = NoStop
  BY DEF Down
<1>2. ThreadType' /\ LeaseType' /\ StopType'
  BY <1>1, Nothing DEF ThreadType, LeaseType, StopType
<1>3. CandidateType' /\ GateType'
  <2>1. CandidateType'
    BY Constants DEF Typed, CandidateType, Down
  <2>2. recovery' = "down" /\ blocked' = FALSE /\ crashes' = crashes + 1
    BY DEF Down
  <2>3. crashes' \in Nat
    BY <2>2 DEF Typed, GateType
  <2>4. GateType'
    BY <2>2, <2>3 DEF GateType
  <2>5. QED
    BY <2>1, <2>4
<1>4. Fed'
  BY <1>1, Nothing DEF Fed
<1>5. QED
  BY <1>2, <1>3, <1>4 DEF Typed

LEMMA RequestTyped ==
  ASSUME Typed, NEW t \in Threads, NEW request \in Requests, Request(t, request)
  PROVE  Typed'
<1> DEFINE k == Least(FreeTokens)
           w == [Idle EXCEPT !.pc = "register", !.request = request, !.token = k,
                             !.attempt = run.attempt]
<1>1. k \in TokenOrNone /\ run.attempt \in IdOrNone
  BY FreshToken DEF Request, TokenOrNone, Typed, RunType, GoodRuns, Runs
<1> HIDE DEF k
<1>2. w \in Works /\ w.pc = "register" /\ w.request = request /\ w.token = k
  BY <1>1, Nothing DEF Works, Pcs
<1>3. thread' = [thread EXCEPT ![t] = w] /\ row' = k
  BY DEF Request, k
<1> HIDE DEF w
<1>4. Puts(t, w)
  BY <1>2, <1>3, Putting DEF Typed
<1>5. RunType' /\ NodeType' /\ GateType' /\ StopType'
  BY Undisturbed DEF Request, Typed, GateType, StopType, process
<1>6. CandidateType'
  BY <1>1, <1>3 DEF Request, Typed, CandidateType
<1>7. ThreadType'
  BY <1>4 DEF Puts, ThreadType
<1>8. LeaseType'
  BY <1>2, <1>4 DEF Puts, Typed, LeaseType, Request
<1>9. request = "check" => run.status # "none"
  BY DEF Request, Admissible, AwaitsCheck, Requests
<1>10. Fed'
  <2>1. \A u \in Threads : /\ thread[u].pc = "persist" => thread[u].result \in Outputs
                           /\ thread[u].pc = "decide" => run.status # "none"
                           /\ thread[u].pc # "idle" /\ thread[u].request = "check" =>
                                run.status # "none"
    BY DEF Typed, Fed
  <2>2. run' = run
    BY DEF Request
  <2>3. QED
    BY <1>2, <1>4, <1>9, <2>1, <2>2 DEF Puts, Fed
<1>11. QED
  BY <1>5, <1>6, <1>7, <1>8, <1>10 DEF Typed

LEMMA RefuseCheckTyped ==
  ASSUME Typed, NEW t \in Threads, RefuseCheck(t) PROVE Typed'
<1> DEFINE w == [Idle EXCEPT !.pc = "refused", !.request = "check", !.attempt = run.attempt]
<1>1. run.attempt \in IdOrNone
  BY DEF Typed, RunType, GoodRuns, Runs
<1>2. w \in Works /\ w.pc = "refused" /\ w.request = "check"
  BY <1>1, Nothing DEF Works, Pcs, Requests
<1>3. thread' = [thread EXCEPT ![t] = w]
  BY DEF RefuseCheck
<1> HIDE DEF w
<1>4. Puts(t, w)
  BY <1>2, <1>3, Putting DEF Typed
<1>5. RunType' /\ NodeType'
  BY Undisturbed DEF RefuseCheck, disk
<1>6. CandidateType' /\ GateType' /\ StopType'
  BY Elsewhere DEF RefuseCheck, disk
<1>7. ThreadType'
  BY <1>4 DEF Puts, ThreadType
<1>8. LeaseType'
  BY <1>2, <1>4 DEF Puts, Typed, LeaseType, RefuseCheck
<1>9. run.status # "none" /\ run' = run
  BY DEF RefuseCheck, Admissible, AwaitsCheck, disk
<1>10. Fed'
  BY <1>2, <1>4, <1>9 DEF Puts, Fed, Typed
<1>11. QED
  BY <1>5, <1>6, <1>7, <1>8, <1>10 DEF Typed

\* A thread that does not write the run leaves, or goes on with what it has.
LEMMA AsideTyped ==
  ASSUME Typed, NEW t \in Threads, thread[t].pc # "idle",
         UNCHANGED <<run, node>>, CandidateType', GateType', StopType',
         \/ Leave(t)
         \/ \E pc \in Pcs \ {"idle", "persist", "decide"} :
              Moves(t, pc) /\ lease' \in {lease, t, None}
  PROVE  Typed'
<1>1. RunType' /\ NodeType'
  BY Undisturbed
<1>2. CASE Leave(t)
  <2>1. Leaves(t)
    BY <1>2, Leaving DEF Typed
  <2>2. QED
    BY <1>1, <2>1, LeavesTyped
<1>3. ASSUME NEW pc \in Pcs \ {"idle", "persist", "decide"}, Moves(t, pc),
             lease' \in {lease, t, None}
      PROVE  Typed'
  <2>1. Keeps(t, pc) /\ pc \in Pcs \ {"idle"} /\ pc # "persist" /\ pc # "decide"
    BY <1>3 DEF Moves, Goes
  <2>2. QED
    BY <1>1, <1>3, <2>1, GoesTyped
<1>4. QED
  BY <1>2, <1>3

LEMMA RegisterTyped == ASSUME Typed, NEW t \in Threads, Register(t) PROVE Typed'
<1>1. thread[t].pc # "idle" /\ thread[t].token \in TokenOrNone /\ UNCHANGED <<run, node, stop, process>>
  BY Fields DEF Register, Typed
<1>2. GateType' /\ StopType'
  BY <1>1 DEF Typed, GateType, StopType, process
<1>3. CandidateType'
  <2>1. \A k, held : Without(k, held) \in {held, None}
    BY Removing
  <2>2. QED
    BY <1>1, <2>1, Constants DEF Register, Typed, CandidateType
<1>4. \/ Leave(t)
      \/ \E pc \in Pcs \ {"idle", "persist", "decide"} : Go(t, pc) /\ lease' = lease
  BY DEF Register, Pcs
<1>5. QED
  BY <1>1, <1>2, <1>3, <1>4, Going, AsideTyped DEF Typed

LEMMA PrepareTyped == ASSUME Typed, NEW t \in Threads, Prepare(t) PROVE Typed'
<1> DEFINE a == Least(FreeAttempts)
<1>1. PICK phase \in {"starting", "preparing"} :
        /\ run' = [NoRun EXCEPT !.status = "running", !.phase = phase,
                     !.token = thread[t].token, !.attempt = a]
        /\ thread' = [thread EXCEPT ![t].pc = "round", ![t].attempt = a, ![t].phase = phase]
  BY DEF Prepare
<1>2. a \in Identities /\ phase \in Phases
  BY FreshAttempt DEF Prepare, Phases
<1> HIDE DEF a
<1>3. Goes(t, "round", a, thread[t].execution, thread[t].fallback)
  BY <1>1, <1>2, PreparingGoes DEF Typed
<1>4. RunType' /\ run'.status = "running"
  <2>1. thread[t].token \in TokenOrNone
    BY Fields DEF Typed
  <2>2. /\ FirstRun(phase, thread[t].token, a) \in GoodRuns
        /\ FirstRun(phase, thread[t].token, a).status = "running"
    BY <1>2, <2>1, Starting DEF RunReads
  <2>3. QED
    BY <1>1, <2>2 DEF RunType, FirstRun
<1>5. NodeType'
  BY Unwritten, FirstNode, WorkflowAssumption DEF Prepare, NodeType, NodeReads
<1>6. QED
  BY <1>3, <1>4, <1>5, Elsewhere, GoesTyped DEF Prepare, Claims, Goes, Pcs

LEMMA PrepareRoundTyped == ASSUME Typed, NEW t \in Threads, PrepareRound(t) PROVE Typed'
<1>1. Moves(t, "node")
  BY Going DEF PrepareRound, Typed, Pcs
<1>2. RunType' /\ run' = run
  BY DEF PrepareRound, Typed, RunType
<1>3. NodeType'
  BY Unwritten, WorkflowAssumption DEF PrepareRound, UnwrittenNode, NodeType, NodeReads
<1>4. QED
  BY <1>1, <1>2, <1>3, Elsewhere, GoesTyped DEF PrepareRound, Moves, Goes, Pcs

LEMMA PrepareNodeTyped == ASSUME Typed, NEW t \in Threads, PrepareNode(t) PROVE Typed'
<1> DEFINE e == Least(FreeExecutions)
<1>1. PICK pc \in {"worktree", "start"} :
        thread' = [thread EXCEPT ![t].execution = e, ![t].fallback = "own", ![t].pc = pc]
  BY DEF PrepareNode
<1>2. e \in Identities /\ node' = NewNode(Entry, e)
  BY FreshExecution DEF PrepareNode
<1> HIDE DEF e
<1>3. Goes(t, pc, thread[t].attempt, e, "own")
  BY <1>1, <1>2, PreparedGoes DEF Typed, Pcs
<1>4. RunType' /\ run' = run
  BY DEF PrepareNode, Typed, RunType
<1>5. NodeType'
  <2>1. Entry \in Nodes
    BY WorkflowAssumption
  <2>2. node' \in GoodNodes /\ NodeReads(node', Entry, "running", None, FALSE, e)
    BY <1>2, <2>1, Launched
  <2>3. QED
    BY <2>1, <2>2 DEF NodeType, NodeReads
<1>6. QED
  BY <1>3, <1>4, <1>5, Elsewhere, GoesTyped DEF PrepareNode, Goes, Pcs

\* The run is claimed by a thread.
LEMMA Tokened ==
  ASSUME Typed, NEW t \in Threads, NEW phase \in Phases,
         run' = [RunningRun(phase) EXCEPT !.token = thread[t].token]
  PROVE  RunType' /\ RunReads(run', "running", None, thread[t].token, run.attempt)
         /\ run'.status = "running"
<1>1. /\ RunningRun(phase) \in GoodRuns
      /\ RunReads(RunningRun(phase), "running", None, run.token, run.attempt)
  BY RunningOn DEF Typed
<1>2. thread[t].token \in TokenOrNone
  BY Fields DEF Typed
<1>3. QED
  BY <1>1, <1>2, RunRecords DEF RunType, RunReads

LEMMA ContinueTyped == ASSUME Typed, NEW t \in Threads, Continue(t) PROVE Typed'
<1> DEFINE e == Least(FreeExecutions)
<1>1. /\ node' = [node EXCEPT !.execution = e]
      /\ run' = [RunningRun("starting") EXCEPT !.token = thread[t].token]
      /\ thread' = [thread EXCEPT ![t].pc = "load", ![t].execution = e, ![t].fallback = "own"]
  BY DEF Continue
<1>2. e \in Identities /\ e \in IdOrNone
  BY FreshExecution DEF Continue, IdOrNone
<1> HIDE DEF e
<1>3. Goes(t, "load", thread[t].attempt, e, "own")
  BY <1>1, <1>2, ContinuedGoes DEF Typed
<1>4. RunType' /\ run'.status = "running"
  BY <1>1, Tokened DEF Typed, Phases
<1>5. NodeType'
  <2>1. node' \in GoodNodes /\ node'.id = node.id
    <3>1. node \in GoodNodes
      BY DEF Typed, NodeType
    <3>2. ExecutingNode(node, e) \in GoodNodes /\ ExecutingNode(node, e).id = node.id
      BY <1>2, <3>1, NodeRecords DEF NodeReads
    <3>3. QED
      BY <1>1, <3>2 DEF ExecutingNode
  <2>2. run.status = "paused"
    BY DEF Continue, Continuable
  <2>3. QED
    BY <2>1, <2>2 DEF NodeType, Typed
<1>6. QED
  BY <1>3, <1>4, <1>5, Elsewhere, GoesTyped DEF Continue, Claims, Goes, Pcs

LEMMA RecoverTyped == ASSUME Typed, NEW t \in Threads, Recover(t) PROVE Typed'
<1> DEFINE e == Least(FreeExecutions)
<1>1. /\ node' = [node EXCEPT !.execution = e]
      /\ run' = [RunningRun("transitioning") EXCEPT !.token = thread[t].token]
      /\ thread' = [thread EXCEPT ![t].pc = "decide", ![t].execution = e]
  BY DEF Recover
<1>2. e \in Identities /\ e \in IdOrNone
  BY FreshExecution DEF Recover, IdOrNone
<1> HIDE DEF e
<1>3. Goes(t, "decide", thread[t].attempt, e, thread[t].fallback)
  BY <1>1, <1>2, RecoveredGoes DEF Typed
<1>4. RunType' /\ run'.status = "running"
  BY <1>1, Tokened DEF Typed, Phases
<1>5. NodeType'
  <2>1. node' \in GoodNodes /\ node'.id = node.id
    <3>1. node \in GoodNodes
      BY DEF Typed, NodeType
    <3>2. ExecutingNode(node, e) \in GoodNodes /\ ExecutingNode(node, e).id = node.id
      BY <1>2, <3>1, NodeRecords DEF NodeReads
    <3>3. QED
      BY <1>1, <3>2 DEF ExecutingNode
  <2>2. run.status = "paused"
    BY DEF Recover, Recoverable, Continuable
  <2>3. QED
    BY <2>1, <2>2 DEF NodeType, Typed
<1>6. QED
  BY <1>3, <1>4, <1>5, Elsewhere, GoesTyped DEF Recover, Claims, Goes, Pcs

LEMMA CheckTyped == ASSUME Typed, NEW t \in Threads, Check(t) PROVE Typed'
<1>1. PICK outcome \in {"success", "failure"} :
        node' = [node EXCEPT !.status = "completed", !.outcome = outcome, !.manual = FALSE]
  BY DEF Check
<1>2. run' = [RunningRun("transitioning") EXCEPT !.token = thread[t].token]
  BY DEF Check
<1>3. Moves(t, "decide")
  BY Going DEF Typed, Check, Pcs
<1>4. RunType' /\ run'.status = "running"
  BY <1>2, Tokened DEF Typed, Phases
<1>5. NodeType'
  <2>1. node' \in GoodNodes /\ node'.id = node.id
    <3>1. node \in GoodNodes /\ outcome \in Outcomes
      BY DEF Typed, NodeType, Outcomes
    <3>2. CheckedNode(node, outcome) \in GoodNodes /\ CheckedNode(node, outcome).id = node.id
      BY <3>1, NodeRecords DEF NodeReads
    <3>3. QED
      BY <1>1, <3>2 DEF CheckedNode
  <2>2. run.status # "none"
    BY DEF Check, Claims, Typed, Fed
  <2>3. QED
    BY <2>1, <2>2 DEF NodeType, Typed
<1>6. QED
  BY <1>3, <1>4, <1>5, Elsewhere, GoesTyped DEF Check, Claims, Moves, Goes, Pcs

LEMMA ClaimFailsTyped == ASSUME Typed, NEW t \in Threads, ClaimFails(t) PROVE Typed'
<1>1. CandidateType'
  BY Removing, Removed DEF ClaimFails, Abandon
<1>2. thread[t].pc # "idle" /\ GateType' /\ StopType'
  BY DEF ClaimFails, Claims, Typed, GateType, StopType, process
<1>3. QED
  BY <1>1, <1>2, AsideTyped DEF ClaimFails

\* What pauses the run and its node keeps their types.
LEMMA PauseTyped ==
  ASSUME Typed, NEW reason \in Reasons, run.status # "none",
         run' = PausedRun(reason), node' = PausedNode
  PROVE  RunType' /\ NodeType' /\ run'.status = "paused"
<1>1. RunType' /\ run'.status = "paused"
  BY Pausing DEF Typed, RunType, RunReads
<1>2. NodeType'
  BY PausingNode DEF Typed, NodeType
<1>3. QED
  BY <1>1, <1>2

LEMMA FinishTyped == ASSUME Typed, NEW k, Finish(k) PROVE CandidateType'
  BY Removing, Removed DEF Finish

LEMMA CheckFailsTyped == ASSUME Typed, NEW t \in Threads, CheckFails(t) PROVE Typed'
<1>1. RunType' /\ NodeType' /\ (run.status # "none" => run'.status # "none")
  BY PauseTyped, Undisturbed DEF CheckFails, AwaitsCheck, Reasons
<1>2. CandidateType'
  BY FinishTyped DEF CheckFails, Typed, CandidateType
<1>3. GateType' /\ StopType' /\ Leaves(t)
  BY Leaving DEF CheckFails, Typed, GateType, StopType, process
<1>4. QED
  BY <1>1, <1>2, <1>3, LeavesTyped

\* The phase of a running run is written.
LEMMA PhaseTyped ==
  ASSUME Typed, NEW phase \in Phases, run.status = "running", run' = [run EXCEPT !.phase = phase]
  PROVE  RunType' /\ RunReads(run', "running", run.reason, run.token, run.attempt)
  BY RunRecords DEF Typed, RunType

LEMMA WorktreeTyped == ASSUME Typed, NEW t \in Threads, Worktree(t) PROVE Typed'
<1>1. CandidateType' /\ GateType' /\ StopType' /\ thread[t].pc # "idle"
  BY Elsewhere DEF Worktree
<1>2. CASE Current(t)
  <2>1. run' = [run EXCEPT !.phase = "starting"] /\ run.status = "running"
    BY <1>2 DEF Worktree, Current
  <2>2. RunType' /\ run'.status = "running"
    BY <2>1, PhaseTyped DEF Phases, RunReads
  <2>3. NodeType'
    BY <2>1 DEF Worktree, Typed, NodeType
  <2>4. Moves(t, "start")
    BY <1>2, Proceeding DEF Worktree, Typed, Pcs, Phases
  <2>5. QED
    BY <1>1, <1>2, <2>2, <2>3, <2>4, GoesTyped DEF Worktree, Moves, Goes, Pcs
<1>3. CASE ~Current(t)
  BY <1>1, <1>3, AsideTyped DEF Worktree
<1>4. QED
  BY <1>2, <1>3

LEMMA LoadTyped == ASSUME Typed, NEW t \in Threads, Load(t) PROVE Typed'
<1>1. CandidateType' /\ GateType' /\ StopType' /\ thread[t].pc # "idle"
  BY Elsewhere DEF Load, disk
<1>2. Moves(t, "start") \/ Moves(t, "fail")
  <2>1. CASE Current(t) /\ run.phase = "starting"
    BY <2>1, Proceeding DEF Load, Typed, Pcs, Phases
  <2>2. CASE ~(Current(t) /\ run.phase = "starting")
    BY <2>2, Going DEF Load, Typed, Pcs
  <2>3. QED
    BY <2>1, <2>2
<1>3. \E pc \in Pcs \ {"idle", "persist", "decide"} : Moves(t, pc) /\ lease' \in {lease, t, None}
  BY <1>2 DEF Load, Pcs
<1>4. QED
  BY <1>1, <1>3, AsideTyped DEF Load, disk

\* A node starts.
LEMMA StartNodeTyped == ASSUME Typed, NEW t \in Threads, StartNode(t) PROVE Typed'
<1>1. CandidateType' /\ GateType' /\ StopType' /\ thread[t].pc # "idle"
  BY Elsewhere DEF StartNode
<1>2. CASE Current(t)
  <2>1. PICK phase \in {"repairing", "starting"} : run' = RunningRun(phase)
    BY <1>2 DEF StartNode
  <2>2. RunType' /\ run'.status = "running"
    BY <2>1, RunningOn DEF Typed, RunType, RunReads, Phases
  <2>3. NodeType'
    <3>1. run.status # "none"
      BY <1>2 DEF Current
    <3>2. node' \in GoodNodes /\ node'.id = node.id
      BY <1>2, StartingNode DEF StartNode, Typed
    <3>3. QED
      BY <3>1, <3>2 DEF Typed, NodeType
  <2>4. Moves(t, "provider")
    BY <1>2, Proceeding DEF StartNode, Typed, Pcs, Phases
  <2>5. lease' \in {lease, t, None}
    BY <1>2 DEF StartNode, Free
  <2>6. QED
    BY <1>1, <2>2, <2>3, <2>4, <2>5, GoesTyped DEF Moves, Goes, Pcs
<1>3. CASE ~Current(t)
  BY <1>1, <1>3, AsideTyped DEF StartNode
<1>4. QED
  BY <1>2, <1>3

\* What the answer of a provider writes, of whichever thread it is.
LEMMA AcceptedWrites ==
  ASSUME Typed, NEW t \in Threads, Accepted(t)
  PROVE  /\ RunType' /\ RunReads(run', run.status, run.reason, run.token, run.attempt)
         /\ Moves(t, "turn")
<1>1. Moves(t, "turn")
  BY Going DEF Accepted, Typed, Pcs
<1>2. CASE run.status = "running" /\ run.attempt = thread[t].attempt /\ run.phase \in Callable \ {"repairing"}
  <2>1. run' = [run EXCEPT !.phase = "running"]
    BY <1>2 DEF Accepted
  <2>2. QED
    BY <1>1, <1>2, <2>1, PhaseTyped DEF Phases
<1>3. CASE ~(run.status = "running" /\ run.attempt = thread[t].attempt /\ run.phase \in Callable \ {"repairing"})
  <2>1. run \in Runs
    BY DEF Typed, RunType, GoodRuns
  <2>2. run' = [run EXCEPT !.phase = run.phase]
    BY <1>3 DEF Accepted
  <2>3. run' = run
    BY <2>1, <2>2 DEF Runs
  <2>4. QED
    BY <1>1, <2>3 DEF Typed, RunType, RunReads
<1>4. QED
  BY <1>2, <1>3

LEMMA AcceptedTyped == ASSUME Typed, NEW t \in Threads, Accepted(t) PROVE Typed'
<1>1. CandidateType' /\ GateType' /\ StopType' /\ thread[t].pc # "idle"
  BY Elsewhere DEF Accepted
<1>2. RunType' /\ run'.status = run.status /\ Moves(t, "turn")
  BY AcceptedWrites DEF RunReads
<1>3. NodeType'
  BY <1>2 DEF Accepted, Typed, NodeType
<1>4. QED
  BY <1>1, <1>2, <1>3, GoesTyped DEF Accepted, Moves, Goes, Pcs

LEMMA OutputsOfTurns ==
  ASSUME NEW t, run.status # "none", NodeType
  PROVE  Results(t) \subseteq Outputs /\ {"abnormal", "blocked"} \subseteq Outputs
  BY DEF Results, Outputs, Pauses, Completed, Outcomes

\* The result of a turn is on its way to the files.
LEMMA ResultTyped == ASSUME Typed, NEW t \in Threads, Result(t) \/ Error(t) PROVE Typed'
<1>1. CandidateType' /\ GateType' /\ StopType' /\ thread[t].pc # "idle" /\ UNCHANGED <<run, node>>
  BY Elsewhere DEF Result, Error, disk
<1>2. CASE Leave(t)
  BY <1>1, <1>2, AsideTyped
<1>3. CASE ~Leave(t)
  <2>1. run.status # "none" /\ lease' = lease
    BY <1>3 DEF Result, Error, Current
  <2>2. CASE \E result \in Outputs : thread' = [thread EXCEPT ![t].pc = "persist", ![t].result = result]
    <3>1. PICK result \in Outputs : thread' = [thread EXCEPT ![t].pc = "persist", ![t].result = result]
      BY <2>2
    <3>2. Moves(t, "persist") /\ thread'[t].result = result
      BY <3>1, ResultGoes DEF Typed
    <3>3. QED
      BY <1>1, <2>1, <3>2, Undisturbed, GoesTyped DEF Moves, Goes, Pcs
  <2>3. CASE thread[t].tries < MaxTries /\ thread' = [thread EXCEPT ![t].pc = "provider", ![t].tries = @ + 1]
    <3>1. thread[t].tries + 1 \in Nat
      BY Fields DEF Typed
    <3>2. Moves(t, "provider")
      BY <2>3, <3>1, Proceeding DEF Typed, Pcs
    <3>3. QED
      BY <1>1, <2>1, <3>2, AsideTyped DEF Pcs
  <2>4. QED
    BY <1>3, <2>1, <2>2, <2>3, OutputsOfTurns DEF Result, Error, Typed
<1>4. QED
  BY <1>2, <1>3

\* What a result makes of the run and of its node.
LEMMA Concluding ==
  ASSUME Typed, NEW result \in Outputs, run.status = "running"
  PROVE  /\ RunOf(result) \in GoodRuns /\ NodeOf(result) \in GoodNodes
         /\ NodeOf(result).id = node.id
         /\ RunOf(result).token = run.token /\ RunOf(result).attempt = run.attempt
         /\ \/ /\ result \in {"repair", "success", "failure", "invalid"} /\ RunOf(result).status = "running"
               /\ NodeOf(result).manual = node.manual /\ NodeOf(result).execution = node.execution
               /\ NodeOf(result).status \in {"running", "completed"} /\ NextOf(result) \in {"start", "decide"}
            \/ /\ result = "check" /\ RunOf(result).status = "paused" /\ NextOf(result) = "finish"
               /\ NodeOf(result).status = "paused" /\ NodeOf(result).manual = TRUE
               /\ NodeOf(result).execution = node.execution /\ RunOf(result).reason = "waiting"
            \/ /\ result = "unreferenced" /\ RunOf(result).status = "paused" /\ NextOf(result) = "finish"
               /\ NodeOf(result).status = "completed" /\ NodeOf(result).manual = node.manual
               /\ NodeOf(result).execution = node.execution /\ RunOf(result).reason = "blocked"
            \/ /\ result \in Pauses /\ RunOf(result).status = "paused" /\ NextOf(result) = "finish"
               /\ NodeOf(result).status = "paused" /\ NodeOf(result).manual = node.manual
               /\ NodeOf(result).execution = None
               /\ RunOf(result).reason \in {"interrupted", "abnormal", "blocked"}
<1>1. node \in GoodNodes /\ RunType /\ run \in GoodRuns
  BY DEF Typed, NodeType, RunType
<1>2. CASE result \in Pauses
  <2>1. NodeOf(result) = StoppedNode(node) /\ NextOf(result) = "finish"
    BY <1>2 DEF NodeOf, StoppedNode, NextOf, Pauses, Outcomes
  <2>2. PICK reason \in {"interrupted", "abnormal", "blocked"} : RunOf(result) = PausedRun(reason)
    BY <1>2 DEF RunOf, Pauses
  <2>3. reason \in Reasons
    BY DEF Reasons
  <2>4. PausedRun(reason) \in GoodRuns /\ RunReads(PausedRun(reason), "paused", reason, run.token, run.attempt)
    BY <1>1, <2>3, Pausing
  <2>5. StoppedNode(node) \in GoodNodes
        /\ NodeReads(StoppedNode(node), node.id, "paused", None, node.manual, None)
    BY <1>1, NodeRecords
  <2>6. QED
    BY <1>2, <2>1, <2>2, <2>4, <2>5 DEF RunReads, NodeReads
<1>3. CASE result = "unreferenced"
  <2>1. NodeOf(result) = CompletedNode(node, "invalid") /\ NextOf(result) = "finish"
        /\ RunOf(result) = PausedRun("blocked")
    BY <1>3 DEF NodeOf, CompletedNode, NextOf, RunOf, Pauses, Outcomes
  <2>2. "blocked" \in Reasons /\ "invalid" \in Outcomes
    BY DEF Reasons, Outcomes
  <2>3. PausedRun("blocked") \in GoodRuns
        /\ RunReads(PausedRun("blocked"), "paused", "blocked", run.token, run.attempt)
    BY <1>1, <2>2, Pausing
  <2>4. CompletedNode(node, "invalid") \in GoodNodes
        /\ NodeReads(CompletedNode(node, "invalid"), node.id, "completed", "invalid", node.manual, node.execution)
    BY <1>1, <2>2, NodeRecords
  <2>5. QED
    BY <1>3, <2>1, <2>3, <2>4 DEF RunReads, NodeReads
<1>4. CASE result = "check"
  <2> DEFINE r == [PausedRun("waiting") EXCEPT !.phase = "checking"]
  <2>1. NodeOf(result) = AskedNode(node) /\ NextOf(result) = "finish" /\ RunOf(result) = r
    BY <1>4 DEF NodeOf, AskedNode, NextOf, RunOf, Pauses, Outcomes
  <2>2. "waiting" \in Reasons
    BY DEF Reasons
  <2>3. r \in GoodRuns /\ RunReads(r, "paused", "waiting", run.token, run.attempt)
    BY <1>1, <2>2, Pausing
  <2>4. AskedNode(node) \in GoodNodes
        /\ NodeReads(AskedNode(node), node.id, "paused", None, TRUE, node.execution)
    BY <1>1, NodeRecords
  <2> HIDE DEF r
  <2>5. QED
    BY <1>4, <2>1, <2>3, <2>4 DEF RunReads, NodeReads
<1>5. CASE result = "repair"
  <2>1. NodeOf(result) = RepairedNode(node) /\ NextOf(result) = "start"
        /\ RunOf(result) = RunningRun("repairing")
    BY <1>5 DEF NodeOf, RepairedNode, NextOf, RunOf, Pauses, Outcomes
  <2>2. "repairing" \in Phases
    BY DEF Phases
  <2>3. RunningRun("repairing") \in GoodRuns
        /\ RunReads(RunningRun("repairing"), "running", None, run.token, run.attempt)
    BY <1>1, <2>2, RunningOn
  <2>4. RepairedNode(node) \in GoodNodes
        /\ NodeReads(RepairedNode(node), node.id, "running", None, node.manual, node.execution)
    BY <1>1, NodeRecords
  <2>5. QED
    BY <1>5, <2>1, <2>3, <2>4 DEF RunReads, NodeReads
<1>6. CASE result \in Outcomes
  <2>1. NodeOf(result) = CompletedNode(node, result) /\ NextOf(result) = "decide" /\ RunOf(result) = run
    BY <1>6 DEF NodeOf, CompletedNode, NextOf, RunOf, Pauses, Outcomes
  <2>2. result \in Outcomes
    BY <1>6
  <2>3. CompletedNode(node, result) \in GoodNodes
        /\ NodeReads(CompletedNode(node, result), node.id, "completed", result, node.manual, node.execution)
    BY <1>1, <2>2, NodeRecords
  <2>4. QED
    BY <1>1, <1>6, <2>1, <2>3 DEF RunReads, NodeReads, Outcomes
<1>7. QED
  BY <1>2, <1>3, <1>4, <1>5, <1>6 DEF Outputs, Outcomes

\* What a thread persists is persisted as a whole, or not at all.
LEMMA Persisting ==
  ASSUME Typed, NEW t \in Threads, Persist(t), Current(t)
  PROVE  /\ thread[t].result \in Outputs /\ run.status = "running"
         /\ run' = RunOf(thread[t].result) /\ node' = NodeOf(thread[t].result)
         /\ Moves(t, NextOf(thread[t].result)) /\ lease' = lease
<1> DEFINE result == thread[t].result
<1>1. result \in Outputs /\ run.status = "running"
  BY DEF Persist, Typed, Fed, Current
<1>2. NextOf(result) \in Pcs
  BY DEF NextOf, Pcs
<1> HIDE DEF result
<1>3. /\ run' = RunOf(result) /\ node' = NodeOf(result) /\ lease' = lease
      /\ thread' = [thread EXCEPT ![t].pc = NextOf(result), ![t].result = None,
               ![t].phase = IF result = "repair" THEN "repairing" ELSE @,
               ![t].repairs = IF result = "repair" THEN @ + 1 ELSE @]
  BY DEF Persist, result
<1>4. Moves(t, NextOf(result))
  BY <1>2, <1>3, PersistGoes DEF Typed
<1>5. QED
  BY <1>1, <1>3, <1>4 DEF result

LEMMA PersistTyped == ASSUME Typed, NEW t \in Threads, Persist(t) PROVE Typed'
<1>1. CandidateType' /\ GateType' /\ StopType' /\ thread[t].pc # "idle"
  BY Elsewhere DEF Persist
<1>2. CASE Current(t)
  <2>1. PICK result \in Outputs :
          /\ run' = RunOf(result) /\ node' = NodeOf(result)
          /\ Moves(t, NextOf(result)) /\ lease' = lease /\ run.status = "running"
    BY <1>2, Persisting
  <2>2. RunType'
    BY <2>1, Concluding DEF RunType
  <2>3. NodeType'
    BY <2>1, Concluding DEF NodeType, Typed
  <2>4. run'.status # "none" /\ NextOf(result) \in Pcs \ {"idle", "persist"}
    BY <2>1, Concluding DEF NextOf, Pcs
  <2>5. QED
    BY <1>1, <2>1, <2>2, <2>3, <2>4, GoesTyped DEF Moves, Goes
<1>3. CASE ~Current(t)
  <2>1. CASE Go(t, "finish") /\ UNCHANGED lease
    <3>1. Moves(t, "finish")
      BY <2>1, Going DEF Typed, Pcs
    <3>2. QED
      BY <1>1, <1>3, <2>1, <3>1, AsideTyped DEF Persist, Pcs
  <2>2. CASE Leave(t)
    BY <1>1, <1>3, <2>2, AsideTyped DEF Persist
  <2>3. QED
    BY <1>3, <2>1, <2>2 DEF Persist
<1>4. QED
  BY <1>2, <1>3

LEMMA StartedBefore ==
  ASSUME Typed, NEW t \in Threads, thread[t].pc = "decide"
  PROVE  run.status # "none" /\ node.id \in Nodes
  BY DEF Typed, Fed, NodeType

\* The next node is written under new identities, and the thread goes on with it.
LEMMA NextNode ==
  ASSUME Typed, NEW t \in Threads, NEW n \in Nodes, Proceed(t, n)
  PROVE  LET a == Least(FreeAttempts)
             e == Least(FreeExecutions)
         IN /\ a \in Identities /\ e \in Identities /\ e # None /\ e # node.execution
            /\ \A u \in Threads : thread[u].execution # e
            /\ \E f \in Fallbacks : Goes(t, "start", a, e, f)
            /\ node' \in GoodNodes /\ NodeReads(node', n, "running", None, FALSE, e)
            /\ lease' \in {lease, None}
<1> DEFINE a == Least(FreeAttempts)
           e == Least(FreeExecutions)
<1>1. a \in Identities
  BY FreshAttempt DEF Proceed
<1>2. e \in Identities /\ e # None /\ e # node.execution /\ \A u \in Threads : thread[u].execution # e
  BY FreshExecution DEF Proceed
<1>3. /\ node' = NewNode(n, e) /\ lease' \in {lease, None}
      /\ thread' = [thread EXCEPT ![t].pc = "start", ![t].attempt = a, ![t].execution = e,
           ![t].phase = "launching", ![t].repairs = 0,
           ![t].fallback = IF @ = None THEN "own" ELSE "past"]
  BY DEF Proceed, Free
<1> HIDE DEF a, e
<1>4. \E f \in Fallbacks : Goes(t, "start", a, e, f)
  BY <1>1, <1>2, <1>3, ProceedGoes DEF Typed
<1>5. node' \in GoodNodes /\ NodeReads(node', n, "running", None, FALSE, e)
  BY <1>2, <1>3, Launched
<1>6. QED
  BY <1>1, <1>2, <1>3, <1>4, <1>5 DEF a, e

NextRun(r, a, f) == [r EXCEPT !.attempt = a, !.failures = f]
RoundRun(r, a, k, f) == [r EXCEPT !.attempt = a, !.rounds = k, !.failures = f]

LEMMA Transiting ==
  ASSUME Typed, NEW t \in Threads, Transition(t)
  PROVE  /\ Target \in Nodes /\ Proceed(t, Target)
         /\ RunType' /\ RunReads(run', "running", None, run.token, Least(FreeAttempts))
<1> DEFINE r == RunningRun("launching")
           a == Least(FreeAttempts)
           f == [run.failures EXCEPT ![node.id] = IF node.outcome = "failure" THEN @ + 1 ELSE @]
<1>1. Target \in Nodes /\ Proceed(t, Target) /\ a \in Identities
  BY FreshAttempt DEF Transition, Proceed
<1>2. run.status # "none" /\ node.id \in Nodes /\ run.failures \in [Nodes -> 0 .. MaxAttempts]
  BY StartedBefore DEF Transition, Decides, Typed, RunType, GoodRuns, Runs
<1>3. f \in [Nodes -> 0 .. MaxAttempts]
  <2>1. run.failures[node.id] \in 0 .. MaxAttempts
    BY <1>2
  <2>2. node.outcome = "failure" => run.failures[node.id] + 1 <= MaxAttempts
    BY DEF Transition, RepairsTo
  <2>3. (IF node.outcome = "failure" THEN run.failures[node.id] + 1 ELSE run.failures[node.id])
          \in 0 .. MaxAttempts
    BY <2>1, <2>2, Constants
  <2>4. QED
    BY <1>2, <2>3
<1>4. r \in GoodRuns /\ RunReads(r, "running", None, run.token, run.attempt) /\ r.failures = run.failures
  BY RunningOn DEF Typed, Phases
<1>5. run' = NextRun(r, a, f)
  <2>1. run' = [r EXCEPT !.attempt = a,
                  !.failures[node.id] = IF node.outcome = "failure" THEN @ + 1 ELSE @]
    BY DEF Transition
  <2>2. r \in Runs
    BY <1>4 DEF GoodRuns
  <2> HIDE DEF r, a
  <2>3. QED
    BY <1>4, <2>1, <2>2 DEF NextRun, Runs
<1> HIDE DEF r, a, f
<1>6. NextRun(r, a, f) \in GoodRuns /\ RunReads(NextRun(r, a, f), "running", r.reason, r.token, a)
  <2>1. r.status = "running" /\ 0 \in 0 .. MaxRounds
    BY <1>4, Constants DEF RunReads
  <2>2. QED
    BY <1>1, <1>3, <1>4, <2>1, RunRecords DEF NextRun
<1>7. QED
  BY <1>1, <1>4, <1>5, <1>6 DEF RunType, RunReads, a

LEMMA Rounding ==
  ASSUME Typed, NEW t \in Threads, OpenNewRound(t)
  PROVE  /\ Proceed(t, Entry)
         /\ RunType' /\ RunReads(run', "running", None, run.token, Least(FreeAttempts))
<1> DEFINE r == RunningRun("launching")
           a == Least(FreeAttempts)
           k == run.rounds + 1
<1>1. Proceed(t, Entry) /\ a \in Identities
  BY FreshAttempt DEF OpenNewRound, Proceed
<1>2. k \in 0 .. MaxRounds
  <2>1. run.rounds \in 0 .. MaxRounds
    BY DEF Typed, RunType, GoodRuns, Runs
  <2>2. QED
    BY <2>1, Constants DEF OpenNewRound
<1>3. NoRun.failures \in [Nodes -> 0 .. MaxAttempts]
  BY Nothing
<1>4. r \in GoodRuns /\ RunReads(r, "running", None, run.token, run.attempt) /\ r.rounds = run.rounds
  BY RunningOn DEF Typed, Phases
<1>5. run' = RoundRun(r, a, k, NoRun.failures)
  <2>1. run' = [r EXCEPT !.attempt = a, !.rounds = @ + 1, !.failures = NoRun.failures]
    BY DEF OpenNewRound
  <2>2. r \in Runs
    BY <1>4 DEF GoodRuns
  <2> HIDE DEF r, a
  <2>3. QED
    BY <1>4, <2>1, <2>2 DEF RoundRun, Runs
<1> HIDE DEF r, a, k
<1>6. /\ RoundRun(r, a, k, NoRun.failures) \in GoodRuns
      /\ RunReads(RoundRun(r, a, k, NoRun.failures), "running", r.reason, r.token, a)
  <2>1. r.status = "running"
    BY <1>4 DEF RunReads
  <2>2. QED
    BY <1>1, <1>2, <1>3, <1>4, <2>1, RunRecords DEF RoundRun
<1>7. QED
  BY <1>1, <1>4, <1>5, <1>6 DEF RunType, RunReads, a

LEMMA TransitionTyped ==
  ASSUME Typed, NEW t \in Threads, Transition(t) \/ OpenNewRound(t) PROVE Typed'
<1>1. CandidateType' /\ GateType' /\ StopType' /\ thread[t].pc # "idle"
  BY Elsewhere DEF Transition, OpenNewRound, Decides
<1>2. PICK n \in Nodes : Proceed(t, n)
  BY Transiting, Rounding, WorkflowAssumption
<1>3. RunType' /\ run'.status = "running"
  BY Transiting, Rounding DEF RunReads
<1>4. NodeType'
  BY <1>2, NextNode DEF NodeType, NodeReads
<1>5. Keeps(t, "start") /\ lease' \in {lease, None}
  BY <1>2, NextNode DEF Goes
<1>6. QED
  BY <1>1, <1>3, <1>4, <1>5, GoesTyped DEF Pcs

LEMMA CompleteRunTyped == ASSUME Typed, NEW t \in Threads, CompleteRun(t) PROVE Typed'
<1>1. CandidateType' /\ GateType' /\ StopType' /\ thread[t].pc # "idle"
  BY Elsewhere DEF CompleteRun, Decides
<1>2. RunType' /\ run'.status = "completed"
  BY Completing DEF CompleteRun, Typed, RunType, RunReads
<1>3. NodeType'
  BY StartedBefore DEF CompleteRun, Decides, Typed, NodeType
<1>4. Moves(t, "finish")
  BY Going DEF CompleteRun, Typed, Pcs
<1>5. QED
  BY <1>1, <1>2, <1>3, <1>4, GoesTyped DEF CompleteRun, Moves, Goes, Pcs

LEMMA LeaversTyped ==
  ASSUME Typed, NEW t \in Threads, Superseded(t) \/ Conclude(t) \/ Fail(t) PROVE Typed'
<1>1. GateType' /\ StopType' /\ thread[t].pc # "idle" /\ UNCHANGED <<run, node>>
  BY DEF Superseded, Conclude, Fail, Typed, GateType, StopType, disk, process
<1>2. CandidateType'
  BY FinishTyped, Elsewhere DEF Superseded, Conclude, Fail, disk
<1>3. CASE Leave(t)
  BY <1>1, <1>2, <1>3, AsideTyped
<1>4. CASE ~Leave(t)
  <2>1. PICK pc \in {"fail", "refused"} : Go(t, pc) /\ lease' = lease
    BY <1>4 DEF Superseded, Conclude, Fail
  <2>2. Moves(t, pc) /\ pc \in Pcs \ {"idle", "persist", "decide"}
    BY <2>1, Going DEF Typed, Pcs
  <2>3. QED
    BY <1>1, <1>2, <2>1, <2>2, AsideTyped
<1>5. QED
  BY <1>3, <1>4

LEMMA TerminalizeTyped == ASSUME Typed, NEW t \in Threads, Terminalize(t) PROVE Typed'
<1>1. GateType' /\ StopType' /\ Leaves(t)
  BY Leaving DEF Terminalize, Typed, GateType, StopType, process
<1>2. CandidateType'
  BY FinishTyped DEF Terminalize, Typed, CandidateType
<1>3. RunType' /\ NodeType' /\ (run.status # "none" => run'.status # "none")
  BY PauseTyped, Undisturbed DEF Terminalize, Current, Reasons
<1>4. QED
  BY <1>1, <1>2, <1>3, LeavesTyped

LEMMA DriveTyped == ASSUME Typed, NEW t \in Threads, Drive(t) PROVE Typed'
  BY RegisterTyped, PrepareTyped, PrepareRoundTyped, PrepareNodeTyped, ContinueTyped, RecoverTyped, ClaimFailsTyped, CheckTyped,
     CheckFailsTyped, WorktreeTyped, LoadTyped, StartNodeTyped, AcceptedTyped, ResultTyped,
     PersistTyped, TransitionTyped, CompleteRunTyped, LeaversTyped, TerminalizeTyped DEF Drive

\* The states of the stop the actions make.
LEMMA StopRecords ==
  ASSUME NEW s \in Stops
  PROVE  /\ \A pc \in StopPcs : [s EXCEPT !.pc = pc] \in Stops
         /\ \A pc \in StopPcs, a \in IdOrNone : [s EXCEPT !.pc = pc, !.attempt = a] \in Stops
         /\ \A pc \in StopPcs, a \in IdOrNone, k \in TokenOrNone :
              [s EXCEPT !.pc = pc, !.attempt = a, !.token = k] \in Stops
  BY DEF Stops

LEMMA RunFields ==
  ASSUME RunType PROVE run.token \in TokenOrNone /\ run.attempt \in IdOrNone
  BY DEF RunType, GoodRuns, Runs

\* What a stop knows after it looked at the run.
LEMMA Observing ==
  ASSUME RunType, NEW s \in Stops
  PROVE  /\ Observed(s) \in Stops
         /\ Observed(s).by = s.by /\ Observed(s).candidate = s.candidate
         /\ \/ run.status = "running" /\ Observed(s).pc = "commit" /\ Observed(s).token = s.token
            \/ run.status # "running" /\ Observed(s).pc = "finish" /\ Observed(s).token = run.token
<1>1. run.token \in TokenOrNone /\ run.attempt \in IdOrNone
  BY RunFields
<1>2. CASE run.status = "running"
  <2>1. Observed(s) = [s EXCEPT !.pc = "commit", !.attempt = run.attempt]
    BY <1>2 DEF Observed
  <2>2. QED
    BY <1>1, <1>2, <2>1 DEF Stops, StopPcs
<1>3. CASE run.status # "running"
  <2>1. Observed(s) = [s EXCEPT !.pc = "finish", !.attempt = None, !.token = run.token]
    BY <1>3 DEF Observed
  <2>2. QED
    BY <1>1, <1>3, <2>1, Constants DEF Stops, StopPcs
<1>4. QED
  BY <1>2, <1>3

LEMMA UserStop ==
  LET s == [NoStop EXCEPT !.by = "user"]
  IN s \in Stops /\ s.by = "user" /\ s.candidate = None /\ s.token = None
  BY Nothing DEF Stops, Stoppers

LEMMA Exiting ==
  ASSUME Typed, ExitRequest
  PROVE  /\ stop' \in Stops /\ stop'.candidate = active /\ stop'.token = None
         /\ stop'.by = IF Accepting THEN "exit" ELSE "startup"
         /\ stop'.pc = IF active = None THEN "exit" ELSE "observe"
<1> DEFINE by == IF Accepting THEN "exit" ELSE "startup"
           pc == IF active = None THEN "exit" ELSE "observe"
<1>1. stop' = [NoStop EXCEPT !.by = by, !.candidate = active, !.pc = pc]
  BY DEF ExitRequest
<1>2. by \in Stoppers /\ pc \in StopPcs /\ active \in TokenOrNone
  BY DEF Stoppers, StopPcs, Typed, CandidateType
<1> HIDE DEF by, pc
<1>3. stop' \in Stops /\ stop'.by = by /\ stop'.pc = pc /\ stop'.candidate = active /\ stop'.token = None
  BY <1>1, <1>2, Nothing DEF Stops
<1>4. QED
  BY <1>3 DEF by, pc

LEMMA GateTyped ==
  ASSUME Typed, UNCHANGED process PROVE GateType'
  BY DEF Typed, GateType, process

LEMMA StopRequestTyped == ASSUME Typed, StopRequest PROVE Typed'
<1>1. RunType' /\ NodeType' /\ GateType' /\ CandidateType'
  BY Undisturbed, GateTyped DEF StopRequest, disk, Typed, CandidateType
<1>2. StopType'
  BY UserStop, Observing DEF StopRequest, StopType, Typed
<1>3. QED
  BY <1>1, <1>2, StopTyped DEF StopRequest, disk

LEMMA ExitRequestTyped == ASSUME Typed, ExitRequest PROVE Typed'
<1>1. RunType' /\ NodeType' /\ GateType' /\ CandidateType'
  BY Undisturbed DEF ExitRequest, disk, Typed, CandidateType, GateType
<1>2. StopType'
  BY Exiting DEF StopType
<1>3. QED
  BY <1>1, <1>2, StopTyped DEF ExitRequest, disk

LEMMA StopObserveTyped == ASSUME Typed, StopObserve PROVE Typed'
<1>1. RunType' /\ NodeType' /\ GateType' /\ CandidateType'
  BY Undisturbed, GateTyped DEF StopObserve, disk, Typed, CandidateType
<1>2. StopType'
  <2>1. stop \in Stops /\ "exit" \in StopPcs
    BY DEF Typed, StopType, StopPcs
  <2>2. [stop EXCEPT !.pc = "exit"] \in Stops /\ Observed(stop) \in Stops
    BY <2>1, StopRecords, Observing DEF Typed
  <2>3. QED
    BY <2>2 DEF StopObserve, StopType
<1>3. QED
  BY <1>1, <1>2, StopTyped DEF StopObserve, disk

\* A stop pauses the run, or looks at it again.
LEMMA Stopping ==
  ASSUME Typed, StopCommit
  PROVE  \/ /\ run.status = "running" /\ MayStop
            /\ run' = PausedRun("interrupted") /\ node' = PausedNode
            /\ stop' \in Stops /\ stop'.pc = "finish" /\ stop'.token = run.token
            /\ stop'.by = stop.by /\ stop'.candidate = stop.candidate
         \/ /\ UNCHANGED <<run, node>> /\ stop' = Observed(stop)
<1>1. CASE /\ MayStop /\ run.status = "running"
           /\ run' = PausedRun("interrupted") /\ node' = PausedNode
           /\ stop' = [stop EXCEPT !.pc = "finish", !.token = run.token, !.attempt = None]
  <2>1. stop \in Stops /\ run.token \in TokenOrNone
    BY RunFields DEF Typed, StopType
  <2>2. stop' \in Stops /\ stop'.pc = "finish" /\ stop'.token = run.token
        /\ stop'.by = stop.by /\ stop'.candidate = stop.candidate
    BY <1>1, <2>1, Constants DEF Stops, StopPcs
  <2>3. QED
    BY <1>1, <2>2
<1>2. CASE stop' = Observed(stop) /\ UNCHANGED <<run, node>>
  BY <1>2
<1>3. QED
  BY <1>1, <1>2 DEF StopCommit, Stoppable

LEMMA StopCommitTyped == ASSUME Typed, StopCommit PROVE Typed'
<1>1. GateType' /\ CandidateType'
  BY GateTyped DEF StopCommit, Typed, CandidateType
<1>2. RunType' /\ NodeType' /\ (run.status # "none" => run'.status # "none")
  BY Stopping, PauseTyped, Undisturbed DEF Reasons
<1>3. StopType'
  <2>1. stop \in Stops /\ Observed(stop) \in Stops
    BY Observing DEF Typed, StopType
  <2>2. QED
    BY <2>1, Stopping DEF StopType
<1>4. QED
  BY <1>1, <1>2, <1>3, StopTyped DEF StopCommit

\* What is left of a stop that finished its candidate.
LEMMA AfterFinish ==
  ASSUME Typed
  PROVE  /\ AfterStop \in Stops
         /\ \/ stop.by = "user" /\ AfterStop = NoStop
            \/ /\ stop.by # "user" /\ AfterStop.pc = "consume" /\ AfterStop.by = stop.by
               /\ AfterStop.candidate = stop.candidate /\ AfterStop.token = None
<1>1. CASE stop.by = "user"
  BY <1>1, Nothing DEF AfterStop
<1>2. CASE stop.by # "user"
  <2>1. AfterStop = [stop EXCEPT !.pc = "consume", !.attempt = None, !.token = None]
    BY <1>2 DEF AfterStop
  <2>2. stop \in Stops
    BY DEF Typed, StopType
  <2>3. QED
    BY <1>2, <2>1, <2>2, Constants DEF Stops, StopPcs
<1>3. QED
  BY <1>1, <1>2

LEMMA ExitStop ==
  LET s == [NoStop EXCEPT !.pc = "exit", !.by = "exit"]
  IN s \in Stops /\ s.by = "exit" /\ s.pc = "exit" /\ s.candidate = None /\ s.token = None
  BY Nothing DEF Stops, Stoppers, StopPcs

LEMMA StopFailsTyped == ASSUME Typed, StopFails PROVE Typed'
<1>1. run.status = "running" /\ run' = PausedRun("interrupted") /\ node' = node
  BY DEF StopFails, Stoppable
<1>2. RunType' /\ run'.status = "paused"
  BY <1>1, Pausing DEF Typed, RunType, RunReads, Reasons
<1>3. NodeType'
  BY <1>1 DEF Typed, NodeType
<1>4. GateType' /\ CandidateType'
  BY DEF StopFails, Typed, GateType, CandidateType
<1>5. StopType'
  BY ExitStop, Nothing DEF StopFails, StopType
<1>6. QED
  BY <1>2, <1>3, <1>4, <1>5, StopTyped DEF StopFails

LEMMA StopFinishTyped == ASSUME Typed, StopFinish \/ StopConsume PROVE Typed'
<1>1. RunType' /\ NodeType' /\ GateType'
  BY Undisturbed, GateTyped DEF StopFinish, StopConsume
<1>2. CandidateType'
  BY FinishTyped DEF StopFinish, StopConsume
<1>3. StopType'
  BY AfterFinish, ExitStop, Nothing DEF StopFinish, StopConsume, StopType
<1>4. QED
  BY <1>1, <1>2, <1>3, StopTyped DEF StopFinish, StopConsume

LEMMA DownsTyped ==
  ASSUME Typed, Exit \/ Crash \/ TornStop \/ \E t \in Threads : TornPersist(t) PROVE Typed'
<1>1. Down
  BY DEF Exit, Crash, TornStop, TornPersist
<1>2. CASE Exit \/ Crash
  <2>1. UNCHANGED <<run, node>>
    BY <1>2 DEF Exit, Crash
  <2>2. QED
    BY <1>1, <2>1, Undisturbed, DownTyped
<1>3. CASE \E t \in Threads : TornPersist(t)
  <2>1. PICK t \in Threads : TornPersist(t)
    BY <1>3
  <2>2. thread[t].result \in Outputs /\ run.status = "running" /\ run' = run
        /\ node' = NodeOf(thread[t].result)
    BY <2>1 DEF TornPersist, Current, Typed, Fed
  <2>3. node' \in GoodNodes /\ node'.id = node.id
    BY <2>2, Concluding
  <2>4. RunType' /\ NodeType'
    BY <2>2, <2>3 DEF Typed, RunType, NodeType
  <2>5. QED
    BY <1>1, <2>4, DownTyped
<1>4. CASE TornStop
  <2>1. CASE /\ \E reason \in {"interrupted", "abnormal"} : run' = PausedRun(reason)
             /\ run.status # "none" /\ UNCHANGED node
    <3>1. RunType' /\ NodeType'
      BY <2>1, Pausing DEF Typed, RunType, NodeType, RunReads, Reasons
    <3>2. QED
      BY <1>1, <3>1, DownTyped
  <2>2. CASE \E t \in Threads :
          /\ Claims(t, "check")
          /\ node' = [node EXCEPT !.status = "completed", !.outcome = "success", !.manual = FALSE]
          /\ UNCHANGED run
    <3>1. node' = CheckedNode(node, "success") /\ run' = run
      BY <2>2 DEF CheckedNode
    <3>2. node \in GoodNodes /\ "success" \in Outcomes
      BY DEF Typed, NodeType, Outcomes
    <3>3. node' \in GoodNodes /\ node'.id = node.id
      BY <3>1, <3>2, NodeRecords DEF NodeReads
    <3>4. RunType' /\ NodeType'
      BY <3>1, <3>3 DEF Typed, RunType, NodeType
    <3>5. QED
      BY <1>1, <3>4, DownTyped
  <2>3. QED
    BY <1>4, <2>1, <2>2 DEF TornStop, Stoppable, Current, AwaitsCheck
<1>5. QED
  BY <1>2, <1>3, <1>4

LEMMA RecoveryTyped ==
  ASSUME Typed, Restart \/ RecoverRow \/ CompleteRecovery \/ RecoveryFails PROVE Typed'
<1>1. RunType' /\ NodeType' /\ UNCHANGED <<run, lease, thread>>
  BY Undisturbed DEF Restart, RecoverRow, CompleteRecovery, RecoveryFails, disk
<1>2. GateType'
  BY DEF Restart, RecoverRow, CompleteRecovery, RecoveryFails, Typed, GateType, process
<1>3. CandidateType'
  BY Constants DEF Restart, RecoverRow, CompleteRecovery, RecoveryFails, Typed, CandidateType, disk
<1>4. StopType'
  <2>1. [NoStop EXCEPT !.pc = "commit", !.by = "startup", !.attempt = run.attempt,
           !.candidate = row] \in Stops
    BY RunFields, Nothing DEF Typed, CandidateType, Stops, StopPcs, Stoppers
  <2>2. QED
    BY <2>1 DEF Restart, RecoverRow, CompleteRecovery, RecoveryFails, Typed, StopType
<1>5. QED
  BY <1>1, <1>2, <1>3, <1>4, StopTyped

LEMMA InitTyped == Init => Typed
<1> SUFFICES ASSUME Init PROVE Typed
  OBVIOUS
<1>1. RunType /\ NodeType
  BY Nothing DEF Init, RunType, NodeType
<1>2. CandidateType /\ GateType /\ LeaseType /\ StopType
  BY Nothing, Constants DEF Init, CandidateType, GateType, LeaseType, StopType
<1>3. ThreadType /\ Fed
  BY Nothing DEF Init, ThreadType, Fed
<1>4. QED
  BY <1>1, <1>2, <1>3 DEF Typed

LEMMA NextTyped == Typed /\ [Next]_vars => Typed'
<1> SUFFICES ASSUME Typed, [Next]_vars PROVE Typed'
  OBVIOUS
<1>1. CASE UNCHANGED vars
  BY <1>1, Undisturbed, StopTyped DEF vars, Typed, CandidateType, GateType, StopType
<1>2. ASSUME NEW t \in Threads,
             \/ \E request \in Requests : Request(t, request)
             \/ RefuseCheck(t) \/ Drive(t) \/ Fail(t) \/ TornPersist(t)
      PROVE  Typed'
  BY <1>2, RequestTyped, RefuseCheckTyped, DriveTyped, LeaversTyped, DownsTyped
<1>3. CASE StopRequest \/ ExitRequest \/ Stop \/ Crash \/ TornStop
  BY <1>3, StopRequestTyped, ExitRequestTyped, StopObserveTyped, StopCommitTyped,
     StopFailsTyped, StopFinishTyped, DownsTyped DEF Stop
<1>4. CASE Recovery \/ RecoveryFails
  BY <1>4, RecoveryTyped DEF Recovery
<1>5. QED
  BY <1>1, <1>2, <1>3, <1>4 DEF Next

\* The files keep the shapes that validate_run_state and validate_node_state ask for, and a
\* request or a drive holds the continue lease that is held, whatever happens.
THEOREM RunTyped == Spec => []TypeOK
<1>1. Typed => TypeOK
  BY TypedIsTypeOK
<1>2. QED
  BY <1>1, InitTyped, NextTyped, PTL DEF Spec

-----------------------------------------------------------------------------
(* The inductive invariant, by parts.  It holds when nothing happens       *)
(* besides the requests, the drives, the stops, the ends of the process    *)
(* and startups that cannot read what they need.                           *)

Ordinary == Environment \subseteq {"unreadable"}

At(t, pcs) == thread[t].pc \in pcs
Entering(t) == At(t, {"register", "claim"})
Steering == {"worktree", "load", "start", "provider", "turn", "persist"}
Working == Steering \cup {"decide", "fail"}
Checking(t) == thread[t].pc = "decide" /\ thread[t].execution = None
NoneYet == run.status = "none"

\* a request has a candidate, and a drive an execution, except that of a check
Shapes == \A t \in Threads :
  /\ ~At(t, {"idle", "refused"}) => thread[t].token # None
  /\ At(t, Steering) \/ thread[t].fallback # None => thread[t].execution # None
  /\ Entering(t) => thread[t].execution = None /\ thread[t].fallback = None
  /\ At(t, {"load"}) => thread[t].fallback = "own"

\* which no other has
Distinct == \A t, u \in Threads : t # u =>
  /\ thread[t].token = None \/ thread[t].token # thread[u].token
  /\ thread[t].execution = None \/ thread[t].execution # thread[u].execution

\* what nothing else protects holds the lease
Leased == \A t \in Threads :
  (Entering(t) /\ thread[t].request # "start") \/ Checking(t) \/ At(t, {"refused"}) => lease = t

\* the first request is alone
First ==
  /\ \A t \in Threads : Entering(t) /\ thread[t].request = "start" => NoneYet
  /\ NoneYet => \A t \in Threads : ~At(t, {"idle"}) => Entering(t) /\ thread[t].request = "start"

\* the run of a request that has yet to claim it is not running, and its candidate is listed
Entered == \A t \in Threads : Entering(t) =>
  /\ run.status # "running" /\ row = thread[t].token
  /\ thread[t].token \notin {run.token, stop.token, stop.candidate}
  /\ At(t, {"register"}) => active # thread[t].token
  /\ At(t, {"claim"}) => Accepting /\ active = thread[t].token
  /\ thread[t].request = "check" => AwaitsCheck

\* the thread that drives a running run is the one whose candidate the run has
Driver ==
  /\ \A t \in Threads : Driving(t) =>
       run.status = "running" /\ run.token = thread[t].token /\ ~node.manual
  /\ \A t \in Threads : run.status = "running" /\ ~At(t, {"idle"}) /\ run.token = thread[t].token =>
       Driving(t)
  /\ node.manual => \A t \in Threads :
       At(t, Working) /\ thread[t].execution # None => thread[t].execution # node.execution

\* a running run is listed, and driven as long as the process accepts requests
Listed == run.status = "running" =>
  /\ run.token # None /\ row = run.token /\ stop.token # run.token
  /\ Accepting => active = run.token /\ \E t \in Threads : Driving(t)

\* the node of a paused run does not run, and a question is paused
Offered ==
  /\ run.status = "paused" => node.status # "running"
  /\ node.manual => node.status = "paused"
  /\ run.reason = "waiting" => node.manual

\* what the phase of the coordinator says of the threads and of the stop
Coordinated ==
  /\ recovery = "down" => lease = None /\ stop.pc = "idle" /\ \A t \in Threads : At(t, {"idle"})
  /\ ~Accepting /\ recovery # "shutting-down" =>
       active = None /\ \A t \in Threads : At(t, {"idle", "refused"})
  /\ stop.pc = "idle" <=> stop.by = None
  /\ stop.by = "exit" => recovery = "shutting-down"
  /\ stop.by = "startup" /\ stop.pc # "exit" => recovery = "recovering"
  /\ stop.by \in {"exit", "startup"} /\ stop.pc \in {"finish", "consume"} => run.status # "running"
  /\ stop.by = "exit" /\ stop.pc = "exit" => run.status # "running"
  /\ stop.pc = "consume" => stop.by # "user"

Shared == /\ Shapes /\ Distinct /\ Leased /\ First /\ Entered
          /\ Driver /\ Listed /\ Offered /\ Coordinated

\* the thread that writes the first files of a run drives it, without an execution yet;
\* and a run without them lost that thread when its process ended
Preparing(t) == At(t, {"round", "node"})
Prepared ==
  /\ \A t \in Threads : Preparing(t) =>
       Driving(t) /\ thread[t].execution = None /\ thread[t].fallback = None
  /\ run.status # "none" /\ ~HasNode => crashes > 0 \/ \E t \in Threads : Preparing(t)

Inv == Typed /\ Shared /\ Prepared

LEMMA EnteringAlone ==
  ASSUME Inv, NEW t \in Threads, NEW u \in Threads, Entering(t), Entering(u) PROVE t = u
  BY DEF Inv, Shared, Entered, Shapes, Distinct, Entering, At

LEMMA NotDrivenYet ==
  ASSUME Inv, NEW t \in Threads, Entering(t) PROVE \A u \in Threads : ~Driving(u)
  BY DEF Inv, Shared, Entered, Driver

LEMMA DrivenByOne ==
  ASSUME Inv, NEW t \in Threads, NEW u \in Threads, Driving(t), Driving(u) PROVE t = u
<1>1. ~At(t, {"idle", "refused"})
  BY DEF Driving, At
<1>2. thread[t].token # None /\ thread[t].token = thread[u].token
  BY <1>1 DEF Inv, Shared, Shapes, Driver
<1>3. QED
  BY <1>2 DEF Inv, Shared, Distinct

\* The run keeps what a thread compares, and the node is left alone.
Stays == /\ run'.status = run.status /\ run'.reason = run.reason /\ run'.token = run.token
         /\ run'.attempt = run.attempt /\ node' = node
\* No candidate is removed of a running run, nor of a request that has yet to claim it.
Spared ==
  /\ row' \in {row, None} /\ active' \in {active, None}
  /\ run.status = "running" => row' = row /\ (Accepting => active' = active)
  /\ \A u \in Threads : Entering(u)' => row' = row /\ (At(u, {"claim"})' => active' = active)

\* A thread that does not drive the run steps aside.
Steps(t) ==
  \/ Leaves(t)
  \/ /\ lease' = lease
     /\ \/ \E pc \in (Steering \ {"load"}) \cup {"finish", "fail"} :
             /\ Moves(t, pc) /\ thread[t].pc \in Working
             /\ pc \in Steering => thread[t].pc \in Steering
        \/ /\ Moves(t, "refused") /\ thread[t].pc = "register" /\ thread[t].request = "check"

LEMMA StepsAside ==
  ASSUME Inv, NEW t \in Threads, ~Driving(t), thread[t].pc # "idle", Steps(t), Stays, Spared,
         UNCHANGED <<stop, process>>
  PROVE  Shared'
<1> USE DEF At, Entering, Checking
<1>1. \A u \in Threads \ {t} : thread'[u] = thread[u]
  BY DEF Steps, Leaves, Moves, Goes, Keeps, Puts
<1>2. \/ thread'[t] = Idle /\ thread'[t].pc = "idle" /\ thread'[t].token = None
         /\ thread'[t].execution = None /\ thread'[t].fallback = None
      \/ /\ thread'[t].token = thread[t].token /\ thread'[t].execution = thread[t].execution
         /\ thread'[t].attempt = thread[t].attempt /\ thread'[t].request = thread[t].request
         /\ thread'[t].fallback = thread[t].fallback /\ lease' = lease
         /\ \/ thread[t].pc \in Working /\ thread'[t].pc \in (Steering \ {"load"}) \cup {"finish", "fail"}
               /\ (thread'[t].pc \in Steering => thread[t].pc \in Steering)
            \/ thread[t].pc = "register" /\ thread'[t].pc = "refused" /\ thread[t].request = "check"
  BY Nothing DEF Steps, Leaves, Moves, Goes, Keeps, Puts
<1>3. \A u \in Threads \ {t} : lease = u => lease' = u
  BY DEF Steps, Leaves
<1>4. ~Entering(t)' /\ ~Checking(t)'
  BY <1>2 DEF Steering, Working
<1>5. \A u \in Threads : Current(u)' => Current(u) \/ u = t
  BY <1>1 DEF Stays, Current
<1>6. ~Driving(t)'
  <2>1. CASE thread[t].pc \in Working
    <3>1. thread'[t].attempt = thread[t].attempt /\ thread'[t].execution = thread[t].execution
            => (Current(t)' <=> Current(t))
      BY DEF Stays, Current
    <3>2. QED
      BY <1>2, <1>4, <2>1, <3>1 DEF Driving, Working, Steering
  <2>2. CASE thread[t].pc \notin Working
    BY <1>2, <2>2 DEF Driving
  <2>3. QED
    BY <2>1, <2>2
<1>7. \A u \in Threads \ {t} : Driving(u)' <=> Driving(u)
  BY <1>1 DEF Driving, Stays, Current
<1>8. Shapes'
  BY <1>1, <1>2, <1>4 DEF Inv, Shared, Shapes, Working, Steering
<1>9. Distinct'
  BY <1>1, <1>2 DEF Inv, Shared, Distinct
<1>10. Leased'
  BY <1>1, <1>2, <1>3, <1>4 DEF Inv, Shared, Leased, Working, Steering
<1>11. First'
  BY <1>1, <1>2, <1>4 DEF Inv, Shared, First, NoneYet, Stays, Working, Steering
<1>12. Entered'
  <2> SUFFICES ASSUME NEW u \in Threads, Entering(u)'
               PROVE  /\ run'.status # "running" /\ row' = thread'[u].token
                      /\ thread'[u].token \notin {run'.token, stop'.token, stop'.candidate}
                      /\ At(u, {"register"})' => active' # thread'[u].token
                      /\ At(u, {"claim"})' => Accepting' /\ active' = thread'[u].token
                      /\ thread'[u].request = "check" => AwaitsCheck'
    BY DEF Entered
  <2>1. thread'[u] = thread[u] /\ Entering(u)
    BY <1>1, <1>4
  <2>2. /\ run.status # "running" /\ row = thread[u].token
        /\ thread[u].token \notin {run.token, stop.token, stop.candidate}
        /\ At(u, {"register"}) => active # thread[u].token
        /\ At(u, {"claim"}) => Accepting /\ active = thread[u].token
        /\ thread[u].request = "check" => AwaitsCheck
    BY <2>1 DEF Inv, Shared, Entered
  <2>3. thread[u].token # None
    BY <2>1 DEF Inv, Shared, Shapes
  <2>4. row' = row /\ active' \in {active, None} /\ (At(u, {"claim"})' => active' = active)
    BY DEF Spared
  <2>5. run'.status # "running" /\ row' = thread'[u].token
    BY <2>1, <2>2, <2>4 DEF Stays
  <2>6. thread'[u].token \notin {run'.token, stop'.token, stop'.candidate}
    BY <2>1, <2>2 DEF Stays
  <2>7. At(u, {"register"})' => active' # thread'[u].token
    BY <2>1, <2>2, <2>3, <2>4
  <2>8. Accepting' <=> Accepting
    BY DEF Accepting, process
  <2>9. At(u, {"claim"})' => Accepting' /\ active' = thread'[u].token
    BY <2>1, <2>2, <2>4, <2>8
  <2>10. AwaitsCheck' <=> AwaitsCheck
    BY DEF AwaitsCheck, Stays
  <2>11. thread'[u].request = "check" => AwaitsCheck'
    BY <2>1, <2>2, <2>10
  <2>12. QED
    BY <2>5, <2>6, <2>7, <2>9, <2>11
<1>13. Driver'
  BY <1>1, <1>2, <1>6, <1>7 DEF Inv, Shared, Driver, Stays, Working, Steering
<1>14. Listed'
  BY <1>1, <1>6, <1>7 DEF Inv, Shared, Listed, Stays, Spared, Accepting, process
<1>15. Offered'
  BY DEF Inv, Shared, Offered, Stays
<1>16. Coordinated'
  <2>1. lease' \in {lease, None} /\ active' \in {active, None} /\ stop' = stop
        /\ recovery' = recovery /\ (Accepting' <=> Accepting) /\ run'.status = run.status
    BY DEF Steps, Leaves, Spared, process, Accepting, Stays
  <2>2. (recovery = "down" => lease = None /\ stop.pc = "idle" /\ \A u \in Threads : At(u, {"idle"}))'
    BY <2>1 DEF Inv, Shared, Coordinated
  <2>3. (~Accepting /\ recovery # "shutting-down" =>
           active = None /\ \A u \in Threads : At(u, {"idle", "refused"}))'
    BY <1>1, <1>2, <2>1 DEF Inv, Shared, Coordinated, Working, Steering
  <2>4. QED
    BY <2>1, <2>2, <2>3 DEF Inv, Shared, Coordinated
<1>17. QED
  BY <1>8, <1>9, <1>10, <1>11, <1>12, <1>13, <1>14, <1>15, <1>16 DEF Shared

\* The thread that drives the run goes on with it, with its execution or with a new one.
LEMMA DriverGoesOn ==
  ASSUME Inv, NEW t \in Threads, Driving(t), NEW a, NEW e, NEW f,
         NEW pc \in (Working \ {"load"}) \cup {"node"},
         Goes(t, pc, a, e, f), Driving(t)', e # None \/ (pc = "node" /\ f = None),
         run'.status = "running", run'.token = run.token, run'.reason = None, node'.manual = FALSE,
         \/ e = thread[t].execution /\ run'.attempt = run.attempt /\ node'.execution = node.execution
         \/ node'.execution = e /\ \A u \in Threads : thread[u].execution # e,
         lease' \in {lease, IF lease = t THEN None ELSE lease},
         UNCHANGED <<row, active, stop, process>>
  PROVE  Shared'
<1> USE DEF At, Entering, Checking
<1>1. \A u \in Threads \ {t} : thread'[u] = thread[u]
  BY DEF Goes, Keeps, Puts
<1>2. /\ thread'[t].pc = pc /\ thread'[t].token = thread[t].token
      /\ thread'[t].execution = e /\ thread'[t].fallback = f /\ thread'[t].request = thread[t].request
  BY DEF Goes, Keeps
<1>3. \A u \in Threads \ {t} : ~Driving(u) /\ (e = None \/ thread[u].execution # e)
  <2>1. \A u \in Threads : Driving(u) => u = t
    BY DrivenByOne
  <2>2. \A u \in Threads \ {t} : e = thread[t].execution => e = None \/ thread[u].execution # e
    BY DEF Inv, Shared, Distinct
  <2>3. QED
    BY <2>1, <2>2
<1>4. run.status = "running" /\ run.token = thread[t].token
  BY DEF Inv, Shared, Driver
<1>5. \A u \in Threads : ~Entering(u)
  BY <1>4 DEF Inv, Shared, Entered
<1>6. /\ pc \notin {"idle", "register", "claim", "refused", "load"}
      /\ e = None => pc \notin Steering \cup {"decide"}
  BY DEF Working, Steering
<1>7. \A u \in Threads \ {t} : ~Driving(u)'
  <2>1. ASSUME NEW u \in Threads \ {t}, Driving(u)' PROVE FALSE
    <3>1. Current(u)' => Current(u)
      BY <1>1, <1>4 DEF Current
    <3>2. Driving(u)
      BY <1>1, <2>1, <3>1 DEF Driving
    <3>3. QED
      BY <1>3, <3>2
  <2>2. QED
    BY <2>1
<1>8. Shapes'
  BY <1>1, <1>2, <1>6 DEF Inv, Shared, Shapes, Driving
<1>9. Distinct'
  BY <1>1, <1>2, <1>3 DEF Inv, Shared, Distinct
<1>10. Leased'
  <2>1. ASSUME NEW u \in Threads \ {t} PROVE lease = u => lease' = u
    OBVIOUS
  <2>2. QED
    BY <1>1, <1>2, <1>6, <2>1 DEF Inv, Shared, Leased
<1>11. First'
  BY <1>1, <1>2, <1>4, <1>5, <1>6 DEF Inv, Shared, First, NoneYet
<1>12. Entered'
  BY <1>1, <1>2, <1>5, <1>6 DEF Entered
<1>13. Driver'
  <2>1. \A u \in Threads : Driving(u)' =>
          run'.status = "running" /\ run'.token = thread'[u].token /\ ~node'.manual
    BY <1>2, <1>4, <1>7
  <2>2. ASSUME NEW u \in Threads \ {t}, thread'[u].pc # "idle", run'.token = thread'[u].token PROVE FALSE
    BY <1>1, <1>3, <1>4, <2>2 DEF Inv, Shared, Driver
  <2>3. QED
    BY <2>1, <2>2 DEF Driver
<1>14. Listed'
  BY <1>4 DEF Inv, Shared, Listed, Accepting, process
<1>15. Offered'
  <2>1. run'.reason # "waiting"
    BY Words DEF Reasons
  <2>2. QED
    BY <2>1 DEF Offered
<1>16. Coordinated'
  <2>1. thread[t].pc \notin {"idle", "refused"}
    BY DEF Driving
  <2>2. recovery # "down" /\ (Accepting \/ recovery = "shutting-down")
    BY <2>1 DEF Inv, Shared, Coordinated
  <2>3. recovery' = recovery /\ (Accepting' <=> Accepting)
    BY DEF process, Accepting
  <2>4. QED
    BY <1>4, <2>2, <2>3 DEF Inv, Shared, Coordinated
<1>17. QED
  BY <1>8, <1>9, <1>10, <1>11, <1>12, <1>13, <1>14, <1>15, <1>16 DEF Shared

\* Nobody goes on when the run is stopped, ends or asks.
Retires == \/ UNCHANGED <<thread, lease>> /\ \A u \in Threads : ~Checking(u)
           \/ \E t \in Threads : Driving(t) /\ (Leaves(t) \/ (Moves(t, "finish") /\ lease' = lease))

LEMMA RunHalts ==
  ASSUME Inv, run.status = "running", Retires,
         run'.status \in {"paused", "completed"}, Offered',
         \/ ~node'.manual
         \/ node'.execution = None
         \/ node'.execution = node.execution /\ \E t \in Threads : Current(t) /\ Moves(t, "finish")
  PROVE  Shapes' /\ Distinct' /\ Leased' /\ First' /\ Entered' /\ Driver' /\ Listed'
<1> USE DEF At, Entering, Checking
<1> DEFINE
     Same(u) == thread'[u] = thread[u] /\ ~Checking(u) /\ (lease = u => lease' = u)
     Ends(u) == \/ /\ thread'[u].pc = "idle" /\ thread'[u].token = None
                   /\ thread'[u].execution = None /\ thread'[u].fallback = None
                \/ /\ thread'[u].pc = "finish" /\ thread'[u].token = thread[u].token
                   /\ thread'[u].execution = thread[u].execution
                   /\ thread'[u].fallback = thread[u].fallback
<1>1. \A u \in Threads : Same(u) \/ (Driving(u) /\ Ends(u))
  <2>1. CASE UNCHANGED <<thread, lease>> /\ \A u \in Threads : ~Checking(u)
    BY <2>1
  <2>2. ASSUME NEW t \in Threads, Driving(t), Leaves(t) \/ (Moves(t, "finish") /\ lease' = lease)
        PROVE  \A u \in Threads : Same(u) \/ (Driving(u) /\ Ends(u))
    <3>1. \A u \in Threads \ {t} : thread'[u] = thread[u] /\ (lease = u => lease' = u)
      BY <2>2 DEF Leaves, Moves, Goes, Keeps, Puts
    <3>2. \A u \in Threads \ {t} : ~Checking(u)
      <4>1. \A u \in Threads : Driving(u) => u = t
        BY <2>2, DrivenByOne
      <4>2. QED
        BY <4>1 DEF Driving
    <3>3. Ends(t)
      BY <2>2, Nothing DEF Leaves, Moves, Goes, Keeps, Puts
    <3> HIDE DEF Ends
    <3>4. QED
      BY <2>2, <3>1, <3>2, <3>3
  <2>3. QED
    BY <2>1, <2>2 DEF Retires
<1>2. \A u \in Threads : ~Entering(u) /\ ~Entering(u)'
  BY <1>1 DEF Inv, Shared, Entered
<1>3. \A u \in Threads : ~Driving(u)' /\ ~Checking(u)'
  BY <1>1 DEF Driving, Current
<1>4. Shapes'
  BY <1>1, <1>2 DEF Inv, Shared, Shapes, Steering, Driving
<1>5. Distinct'
  BY <1>1 DEF Inv, Shared, Distinct
<1>6. Leased'
  BY <1>1, <1>2, <1>3 DEF Inv, Shared, Leased
<1>7. First'
  BY <1>1, <1>2 DEF First, NoneYet
<1>8. Entered' /\ Listed'
  BY <1>2 DEF Entered, Listed
<1>9. Driver'
  <2>1. ASSUME NEW u \in Threads, node'.manual, At(u, Working)', thread'[u].execution # None
        PROVE  thread'[u].execution # node'.execution
    <3>1. CASE node'.execution = None
      BY <2>1, <3>1
    <3>2. ASSUME NEW t \in Threads, node'.execution = node.execution, Current(t), Moves(t, "finish")
          PROVE  thread'[u].execution # node'.execution
      <4>1. thread'[t].pc = "finish" /\ thread'[u].pc # "finish"
        BY <2>1, <3>2 DEF Moves, Goes, Keeps, Working, Steering
      <4>2. u # t /\ thread'[u] = thread[u]
        BY <3>2, <4>1 DEF Moves, Goes, Keeps, Puts
      <4>3. QED
        BY <2>1, <3>2, <4>2 DEF Inv, Shared, Distinct, Current
    <3>3. QED
      BY <2>1, <3>1, <3>2
  <2>2. QED
    BY <1>3, <2>1 DEF Driver
<1>10. QED
  BY <1>4, <1>5, <1>6, <1>7, <1>8, <1>9

\* A thread that halts the run leaves the coordinator and the stop alone.
LEMMA DriverHalts ==
  ASSUME Inv, NEW t \in Threads, Driving(t), Leaves(t) \/ (Moves(t, "finish") /\ lease' = lease),
         run'.status # "running", active' \in {active, None}, UNCHANGED <<stop, process>>
  PROVE  Coordinated' /\ Retires
<1>1. thread[t].pc \notin {"idle", "refused"}
  BY DEF Driving
<1>2. recovery # "down" /\ (Accepting \/ recovery = "shutting-down")
  BY <1>1 DEF Inv, Shared, Coordinated, At
<1>3. recovery' = recovery /\ (Accepting' <=> Accepting)
  BY DEF process, Accepting
<1>4. Coordinated'
  BY <1>2, <1>3 DEF Inv, Shared, Coordinated
<1>5. QED
  BY <1>4 DEF Retires

\* A request that registered its candidate claims the run.
LEMMA RunIsClaimed ==
  ASSUME Inv, NEW t \in Threads, thread[t].pc = "claim", NEW pc \in Working \cup {"round"},
         NEW a, NEW e, NEW f, Goes(t, pc, a, e, f), Driving(t)',
         pc \notin {"decide", "round"} => e # None, f # None => e # None, pc = "load" => f = "own",
         run'.status = "running", run'.token = thread[t].token, run'.reason = None,
         node'.manual = FALSE,
         \/ /\ e # None /\ node'.execution = e /\ \A u \in Threads : thread[u].execution # e
         \/ /\ thread[t].request = "check" /\ e = None
            /\ run'.attempt = run.attempt /\ node'.execution = node.execution
         \/ thread[t].request = "start" /\ pc = "round" /\ e = None,
         UNCHANGED <<row, active, lease, stop, process>>
  PROVE  Shared'
<1> USE DEF At, Entering, Checking
<1>1. \A u \in Threads \ {t} : thread'[u] = thread[u]
  BY DEF Goes, Keeps, Puts
<1>2. /\ thread'[t].pc = pc /\ thread'[t].token = thread[t].token
      /\ thread'[t].execution = e /\ thread'[t].fallback = f /\ thread'[t].request = thread[t].request
  BY DEF Goes, Keeps
<1>3. /\ run.status # "running" /\ row = thread[t].token /\ active = thread[t].token /\ Accepting
      /\ thread[t].token # stop.token /\ thread[t].token # None
      /\ thread[t].request = "check" => AwaitsCheck
      /\ thread[t].execution = None
  BY DEF Inv, Shared, Entered, Shapes
<1>4. \A u \in Threads \ {t} : ~Entering(u) /\ thread[u].token # thread[t].token
  <2>1. \A u \in Threads \ {t} : ~Entering(u)
    BY EnteringAlone
  <2>2. QED
    BY <1>3, <2>1 DEF Inv, Shared, Distinct
<1>5. pc \notin {"idle", "register", "claim", "refused"}
  BY DEF Working, Steering
<1>6. \A u \in Threads : ~Driving(u)
  BY NotDrivenYet
<1>7. \A u \in Threads \ {t} : ~Driving(u)'
  <2>1. ASSUME NEW u \in Threads \ {t}, Driving(u)' PROVE FALSE
    <3>1. ~Checking(u) /\ thread[u].pc \notin {"round", "node"}
      BY <1>6 DEF Driving, Inv, Prepared, Preparing
    <3>2. Current(u)' /\ thread[u].pc \in Working
      BY <1>1, <2>1, <3>1 DEF Driving, Working, Steering
    <3>3. thread[u].execution = node'.execution
      BY <1>1, <3>2 DEF Current
    <3>4. thread[t].request = "check" /\ node'.execution = node.execution
      <4>1. thread[t].request # "start"
        <5>1. thread[t].request = "start" => NoneYet
          BY DEF Inv, Shared, First
        <5>2. NoneYet => Entering(u)
          BY <3>2 DEF Inv, Shared, First, Working, Steering
        <5>3. QED
          BY <1>4, <5>1, <5>2
      <4>2. QED
        BY <3>3, <4>1
    <3>5. node.manual
      BY <1>3, <3>4 DEF AwaitsCheck
    <3>6. thread[u].execution # None
      <4>1. thread[u].pc \in Steering \/ thread[u].pc = "decide" \/ thread[u].fallback = "own"
        BY <1>1, <2>1, <3>2 DEF Driving, Working
      <4>2. QED
        BY <3>1, <4>1, Words DEF Inv, Shared, Shapes
    <3>7. QED
      BY <3>2, <3>3, <3>4, <3>5, <3>6 DEF Inv, Shared, Driver
  <2>2. QED
    BY <2>1
<1>8. Shapes'
  <2>1. pc \in Steering \/ f # None => e # None
    BY DEF Steering
  <2>2. ~Entering(t)' /\ thread'[t].token # None
    BY <1>2, <1>3, <1>5
  <2>3. QED
    BY <1>1, <1>2, <2>1, <2>2 DEF Inv, Shared, Shapes
<1>9. Distinct'
  BY <1>1, <1>2, <1>3 DEF Inv, Shared, Distinct
<1>10. Leased'
  <2>1. Checking(t)' => lease = t
    <3>1. e = None /\ pc = "decide" => thread[t].request = "check"
      OBVIOUS
    <3>2. QED
      BY <1>2, <3>1 DEF Inv, Shared, Leased
  <2>2. QED
    BY <1>1, <1>2, <1>5, <2>1 DEF Inv, Shared, Leased
<1>11. First'
  BY <1>1, <1>2, <1>4, <1>5 DEF First, NoneYet
<1>12. Entered'
  BY <1>1, <1>2, <1>4, <1>5 DEF Entered
<1>13. Driver'
  <2>1. \A u \in Threads : Driving(u)' =>
          run'.status = "running" /\ run'.token = thread'[u].token /\ ~node'.manual
    BY <1>2, <1>7
  <2>2. \A u \in Threads \ {t} : run'.token # thread'[u].token
    BY <1>1, <1>4
  <2>3. QED
    BY <2>1, <2>2 DEF Driver
<1>14. Listed'
  BY <1>3 DEF Listed
<1>15. Offered'
  <2>1. run'.reason # "waiting"
    BY Words DEF Reasons
  <2>2. QED
    BY <2>1 DEF Offered
<1>16. Coordinated'
  <2>1. recovery' = recovery /\ (Accepting' <=> Accepting) /\ recovery = "accepting"
    BY <1>3 DEF process, Accepting
  <2>2. QED
    BY <1>3, <2>1 DEF Inv, Shared, Coordinated
<1>17. QED
  BY <1>8, <1>9, <1>10, <1>11, <1>12, <1>13, <1>14, <1>15, <1>16 DEF Shared

\* A step of the stop, which leaves the run and the threads alone.
LEMMA StopGoes ==
  ASSUME Inv, UNCHANGED <<run, node, lease, thread, blocked>>, Spared,
         recovery' = recovery \/ (recovery' = "shutting-down" /\ \A t \in Threads : thread[t].pc # "claim"),
         stop'.token \in {None, stop.token} \/ (run.status # "running" /\ stop'.token = run.token),
         stop'.candidate \in {None, stop.candidate, active},
         stop'.candidate = active => recovery' # recovery \/ active \in {None, stop.candidate},
         Coordinated'
  PROVE  Shared'
<1> USE DEF At, Entering, Checking
<1>1. Shapes' /\ Distinct' /\ Leased' /\ First'
  BY DEF Inv, Shared, Shapes, Distinct, Leased, First, NoneYet
<1>2. \A t \in Threads : Driving(t)' <=> Driving(t)
  BY DEF Driving, Current
<1>3. Driver'
  BY <1>2 DEF Inv, Shared, Driver
<1>4. Listed'
  BY <1>2 DEF Inv, Shared, Listed, Spared, Accepting
<1>5. Offered'
  BY DEF Inv, Shared, Offered
<1>6. Entered'
  <2> SUFFICES ASSUME NEW t \in Threads, Entering(t)'
               PROVE  /\ run'.status # "running" /\ row' = thread'[t].token
                      /\ thread'[t].token \notin {run'.token, stop'.token, stop'.candidate}
                      /\ At(t, {"register"})' => active' # thread'[t].token
                      /\ At(t, {"claim"})' => Accepting' /\ active' = thread'[t].token
                      /\ thread'[t].request = "check" => AwaitsCheck'
    BY DEF Entered
  <2>1. /\ Entering(t) /\ run.status # "running" /\ row = thread[t].token
        /\ thread[t].token \notin {run.token, stop.token, stop.candidate}
        /\ At(t, {"register"}) => active # thread[t].token
        /\ At(t, {"claim"}) => Accepting /\ active = thread[t].token
        /\ thread[t].request = "check" => AwaitsCheck
    BY DEF Inv, Shared, Entered
  <2>2. thread[t].token # None
    BY <2>1 DEF Inv, Shared, Shapes
  <2>3. row' = row /\ active' \in {active, None} /\ (At(t, {"claim"}) => active' = active)
    BY DEF Spared
  <2>4. thread[t].token # stop'.token
    BY <2>1, <2>2
  <2>5. thread[t].token # stop'.candidate
    BY <2>1, <2>2
  <2>6. At(t, {"claim"})' => Accepting' /\ active' = thread'[t].token
    BY <2>1, <2>3 DEF Accepting
  <2>7. AwaitsCheck' <=> AwaitsCheck
    BY DEF AwaitsCheck
  <2>8. At(t, {"register"})' => active' # thread'[t].token
    BY <2>1, <2>2, <2>3
  <2>9. run'.status # "running" /\ row' = thread'[t].token
    BY <2>1, <2>3
  <2>10. thread'[t].token \notin {run'.token, stop'.token, stop'.candidate}
    BY <2>1, <2>4, <2>5
  <2>11. thread'[t].request = "check" => AwaitsCheck'
    BY <2>1, <2>7
  <2>12. QED
    BY <2>6, <2>8, <2>9, <2>10, <2>11
<1>7. QED
  BY <1>1, <1>3, <1>4, <1>5, <1>6 DEF Shared

\* The candidate of another is removed.
Spares(k) ==
  /\ row' \in {row, Without(k, row)} /\ active' \in {active, Without(k, active)}
  /\ run.status = "running" => run.token # k
  /\ \A u \in Threads : Entering(u)' => thread'[u] = thread[u] /\ thread[u].token # k

LEMMA Sparing == ASSUME Inv, NEW k, Spares(k) PROVE Spared
<1> USE DEF Spares
<1>1. row' \in {row, None} /\ active' \in {active, None}
  BY DEF Without
<1>2. run.status = "running" => row' = row /\ (Accepting => active' = active)
  BY DEF Without, Inv, Shared, Listed
<1>3. ASSUME NEW u \in Threads, Entering(u)'
      PROVE  row' = row /\ (At(u, {"claim"})' => active' = active)
  <2>1. thread'[u] = thread[u] /\ thread[u].token # k
    BY <1>3
  <2>2. Entering(u) /\ (At(u, {"claim"})' => At(u, {"claim"}))
    BY <1>3, <2>1 DEF Entering, At
  <2>3. row = thread[u].token /\ (At(u, {"claim"}) => active = thread[u].token)
    BY <2>2 DEF Inv, Shared, Entered
  <2>4. QED
    BY <2>1, <2>2, <2>3 DEF Without
<1>4. QED
  BY <1>1, <1>2, <1>3 DEF Spared

\* What a thread does that neither enters nor writes the run.
LEMMA Apart ==
  ASSUME NEW t \in Threads, Steps(t)
  PROVE  \A u \in Threads : Entering(u)' => u # t /\ thread'[u] = thread[u]
<1>1. \A u \in Threads \ {t} : thread'[u] = thread[u]
  BY DEF Steps, Leaves, Moves, Goes, Keeps, Puts
<1>2. ~Entering(t)'
  BY Nothing DEF Steps, Leaves, Moves, Goes, Keeps, Puts, Steering, Working, Entering, At
<1>3. QED
  BY <1>1, <1>2

\* A thread removes its own candidate, when it does not drive the run.
LEMMA OwnCandidate ==
  ASSUME Inv, NEW t \in Threads, ~Driving(t), thread[t].pc \notin {"idle", "refused"}, Steps(t),
         row' \in {row, Without(thread[t].token, row)},
         active' \in {active, Without(thread[t].token, active)}
  PROVE  Spared
<1>1. run.status = "running" => run.token # thread[t].token
  BY DEF Inv, Shared, Driver, At
<1>2. thread[t].token # None
  BY DEF Inv, Shared, Shapes, At
<1>3. \A u \in Threads : Entering(u)' => thread'[u] = thread[u] /\ thread[u].token # thread[t].token
  BY <1>2, Apart DEF Inv, Shared, Distinct
<1>4. PICK k : k = thread[t].token
  OBVIOUS
<1>5. Spares(k)
  BY <1>1, <1>3, <1>4 DEF Spares
<1>6. QED
  BY <1>5, Sparing

\* A thread removes the candidate of a run that is not running.
LEMMA RunCandidate ==
  ASSUME Inv, NEW t \in Threads, Steps(t), run.status # "running",
         row' \in {row, Without(run.token, row)}, active' \in {active, Without(run.token, active)}
  PROVE  Spared
<1>1. \A u \in Threads : Entering(u)' => thread'[u] = thread[u] /\ Entering(u)
  BY Apart DEF Entering, At
<1>2. \A u \in Threads : Entering(u)' => thread'[u] = thread[u] /\ thread[u].token # run.token
  BY <1>1 DEF Inv, Shared, Entered
<1>3. PICK k : k = run.token
  OBVIOUS
<1>4. Spares(k)
  BY <1>2, <1>3 DEF Spares
<1>5. QED
  BY <1>4, Sparing

LEMMA NoneRemoved == ASSUME UNCHANGED <<row, active>> PROVE Spared
  BY DEF Spared

LEMMA LeavesSteps ==
  ASSUME Inv, NEW t \in Threads, Leave(t) PROVE Steps(t)
  BY Leaving DEF Steps, Inv, Typed

LEMMA SameStays == ASSUME UNCHANGED <<run, node>> PROVE Stays
  BY DEF Stays

LEMMA ConcludeKeeps == ASSUME Inv, NEW t \in Threads, Conclude(t) PROVE Shared'
<1>1. Steps(t) /\ ~Driving(t) /\ thread[t].pc \notin {"idle", "refused"}
  BY LeavesSteps DEF Conclude, Driving
<1>2. Spared
  BY <1>1, OwnCandidate DEF Conclude, Finish
<1>3. QED
  BY <1>1, <1>2, SameStays, StepsAside DEF Conclude

LEMMA ClaimFailsKeeps == ASSUME Inv, NEW t \in Threads, ClaimFails(t) PROVE Shared'
<1>1. Steps(t) /\ ~Driving(t) /\ thread[t].pc \notin {"idle", "refused"}
  BY LeavesSteps DEF ClaimFails, Claims, Driving
<1>2. Spared
  BY <1>1, OwnCandidate DEF ClaimFails, Abandon
<1>3. QED
  BY <1>1, <1>2, SameStays, StepsAside DEF ClaimFails

LEMMA SupersededKeeps == ASSUME Inv, NEW t \in Threads, Superseded(t) PROVE Shared'
<1>1. Steps(t) /\ ~Driving(t) /\ thread[t].pc # "idle"
  BY LeavesSteps DEF Superseded, Decides, Driving
<1>2. Spared
  BY NoneRemoved DEF Superseded, disk
<1>3. QED
  BY <1>1, <1>2, SameStays, StepsAside DEF Superseded, disk

\* The thread that drives the run goes on with its execution.
LEMMA DriverStays ==
  ASSUME Inv, NEW t \in Threads, Driving(t), Current(t), thread[t].execution # None,
         NEW pc \in Working \ {"load"}, Moves(t, pc), pc = "fail" => thread[t].fallback = "own",
         run'.status = "running", run'.token = run.token, run'.attempt = run.attempt,
         run'.reason = None, node'.manual = node.manual, node'.execution = node.execution,
         lease' \in {lease, IF lease = t THEN None ELSE lease},
         UNCHANGED <<row, active, stop, process>>
  PROVE  Shared'
<1> DEFINE a == thread[t].attempt
           e == thread[t].execution
           f == thread[t].fallback
<1>1. Goes(t, pc, a, e, f)
  BY DEF Moves
<1>2. Driving(t)'
  <2>1. thread'[t].pc = pc /\ thread'[t].attempt = a /\ thread'[t].execution = e /\ thread'[t].fallback = f
    BY <1>1 DEF Goes, Keeps
  <2>2. Current(t)'
    BY <2>1 DEF Current
  <2>3. QED
    BY <2>1, <2>2 DEF Driving, Working, Steering
<1>3. node'.manual = FALSE
  <2>1. node.manual \in BOOLEAN
    BY DEF Inv, Typed, NodeType, GoodNodes, NodeRuns
  <2>2. QED
    BY <2>1 DEF Inv, Shared, Driver
<1>4. e # None /\ e = thread[t].execution
  OBVIOUS
<1> HIDE DEF a, e, f
<1>5. QED
  BY <1>1, <1>2, <1>3, <1>4, DriverGoesOn

\* Who drives a running run has an execution, unless it decides a check.
LEMMA DrivesCurrent ==
  ASSUME Inv, NEW t \in Threads, thread[t].pc \in Steering \/ thread[t].fallback # None
  PROVE  /\ thread[t].execution # None
         /\ Current(t) /\ thread[t].pc \in Steering \cup {"decide"} => Driving(t)
         /\ Driving(t) => Current(t)
<1>1. thread[t].execution # None
  BY DEF Inv, Shared, Shapes, At
<1>2. QED
  BY <1>1 DEF Driving, Steering

\* A running run has no reason to be paused.
LEMMA NoReason == ASSUME Inv, run.status = "running" PROVE run.reason = None
  BY DEF Inv, Typed, RunType, GoodRuns

LEMMA WorktreeKeeps == ASSUME Inv, NEW t \in Threads, Worktree(t) PROVE Shared'
<1>1. thread[t].pc = "worktree" /\ thread[t].pc \in Steering
  BY DEF Worktree, Steering
<1>2. CASE Current(t)
  <2>1. Driving(t) /\ thread[t].execution # None /\ run.status = "running" /\ run.reason = None
    BY <1>1, <1>2, DrivesCurrent, NoReason DEF Current
  <2>2. run' = [run EXCEPT !.phase = "starting"]
    BY <1>2 DEF Worktree
  <2>3. RunReads(run', "running", run.reason, run.token, run.attempt)
    BY <2>1, <2>2, PhaseTyped DEF Phases, Inv
  <2>4. Moves(t, "start")
    BY <1>2, Proceeding DEF Worktree, Inv, Typed, Pcs, Phases
  <2>5. node' = node /\ lease' = lease /\ UNCHANGED <<row, active, stop, process>>
    BY <1>2 DEF Worktree
  <2>6. "start" \in Working \ {"load"}
    BY DEF Working, Steering
  <2>7. QED
    BY <1>2, <2>1, <2>3, <2>4, <2>5, <2>6, DriverStays DEF RunReads
<1>3. CASE ~Current(t)
  <2>1. Steps(t) /\ ~Driving(t)
    BY <1>1, <1>3, DrivesCurrent, LeavesSteps DEF Worktree
  <2>2. UNCHANGED <<run, node, row, active, stop, process>>
    BY <1>3 DEF Worktree
  <2>3. QED
    BY <1>1, <2>1, <2>2, NoneRemoved, SameStays, StepsAside
<1>4. QED
  BY <1>2, <1>3

LEMMA LoadKeeps == ASSUME Inv, NEW t \in Threads, Load(t) PROVE Shared'
<1>1. /\ thread[t].pc = "load" /\ thread[t].pc \in Steering /\ thread[t].fallback = "own"
      /\ UNCHANGED <<run, node, row, active, lease, stop, process>>
  BY DEF Load, Steering, disk, Inv, Shared, Shapes, At
<1>2. (Moves(t, "start") /\ Current(t)) \/ Moves(t, "fail")
  <2>1. CASE Current(t) /\ run.phase = "starting"
    BY <2>1, Proceeding DEF Load, Inv, Typed, Pcs, Phases
  <2>2. CASE ~(Current(t) /\ run.phase = "starting")
    BY <2>2, Going DEF Load, Inv, Typed, Pcs
  <2>3. QED
    BY <2>1, <2>2
<1>3. CASE Current(t)
  <2>1. Driving(t) /\ thread[t].execution # None /\ run.status = "running" /\ run.reason = None
    BY <1>1, <1>3, DrivesCurrent, NoReason DEF Current
  <2>2. {"start", "fail"} \subseteq Working \ {"load"}
    BY DEF Working, Steering
  <2>3. PICK pc \in {"start", "fail"} : Moves(t, pc)
    BY <1>2
  <2>4. QED
    BY <1>1, <1>3, <2>1, <2>2, <2>3, DriverStays
<1>4. CASE ~Current(t)
  <2>1. Moves(t, "fail") /\ ~Driving(t)
    BY <1>1, <1>2, <1>4, DrivesCurrent
  <2>2. Steps(t)
    BY <1>1, <2>1 DEF Steps, Working, Steering
  <2>3. QED
    BY <1>1, <2>1, <2>2, NoneRemoved, SameStays, StepsAside
<1>5. QED
  BY <1>3, <1>4

LEMMA StartNodeKeeps == ASSUME Inv, NEW t \in Threads, StartNode(t) PROVE Shared'
<1>1. thread[t].pc = "start" /\ thread[t].pc \in Steering /\ UNCHANGED <<row, active, stop, process>>
  BY DEF StartNode, Steering
<1>2. CASE Current(t)
  <2>1. Driving(t) /\ thread[t].execution # None
    BY <1>1, <1>2, DrivesCurrent
  <2>2. PICK phase \in {"repairing", "starting"} : run' = RunningRun(phase)
    BY <1>2 DEF StartNode
  <2>3. RunReads(run', "running", None, run.token, run.attempt)
    BY <2>2, RunningOn DEF Inv, Typed, Phases
  <2>4. node'.manual = node.manual /\ node'.execution = node.execution
    BY <1>2, StartingNode DEF StartNode, Inv, Typed
  <2>5. Moves(t, "provider")
    BY <1>2, Proceeding DEF StartNode, Inv, Typed, Pcs, Phases
  <2>6. lease' = IF lease = t THEN None ELSE lease
    BY <1>2 DEF StartNode, Free
  <2>7. "provider" \in Working \ {"load"}
    BY DEF Working, Steering
  <2>8. QED
    BY <1>1, <1>2, <2>1, <2>3, <2>4, <2>5, <2>6, <2>7, DriverStays DEF RunReads
<1>3. CASE ~Current(t)
  <2>1. Steps(t) /\ ~Driving(t) /\ UNCHANGED <<run, node>>
    BY <1>1, <1>3, DrivesCurrent, LeavesSteps DEF StartNode
  <2>2. QED
    BY <1>1, <2>1, NoneRemoved, SameStays, StepsAside
<1>4. QED
  BY <1>2, <1>3

LEMMA AcceptedKeeps == ASSUME Inv, NEW t \in Threads, Accepted(t) PROVE Shared'
<1>1. /\ thread[t].pc = "provider" /\ thread[t].pc \in Steering
      /\ UNCHANGED <<node, row, active, lease, stop, process>>
  BY DEF Accepted, Steering
<1>2. Moves(t, "turn") /\ RunReads(run', run.status, run.reason, run.token, run.attempt)
  BY AcceptedWrites DEF Inv
<1>3. "turn" \in Working \ {"load"} /\ "turn" \in Steering \ {"load"}
  BY DEF Working, Steering
<1>4. CASE Current(t)
  <2>1. Driving(t) /\ thread[t].execution # None /\ run.status = "running" /\ run.reason = None
    BY <1>1, <1>4, DrivesCurrent, NoReason DEF Current
  <2>2. QED
    BY <1>1, <1>2, <1>3, <1>4, <2>1, DriverStays DEF RunReads
<1>5. CASE ~Current(t)
  <2>1. ~Driving(t)
    BY <1>1, <1>5, DrivesCurrent
  <2>2. Steps(t)
    BY <1>1, <1>2, <1>3 DEF Steps, Working
  <2>3. Stays
    BY <1>1, <1>2 DEF Stays, RunReads
  <2>4. QED
    BY <1>1, <2>1, <2>2, <2>3, NoneRemoved, StepsAside
<1>6. QED
  BY <1>4, <1>5

LEMMA ResultKeeps == ASSUME Inv, NEW t \in Threads, Result(t) \/ Error(t) PROVE Shared'
<1>1. /\ thread[t].pc \in Steering /\ thread[t].pc # "idle"
      /\ UNCHANGED <<run, node, row, active, stop, process>>
  BY DEF Result, Error, Steering, disk
<1>2. CASE Current(t)
  <2>1. Driving(t) /\ thread[t].execution # None /\ run.status = "running" /\ run.reason = None
    BY <1>1, <1>2, DrivesCurrent, NoReason DEF Current
  <2>2. {"persist", "provider"} \subseteq Working \ {"load"} /\ lease' = lease
    BY <1>2 DEF Working, Steering, Result, Error
  <2>3. \E pc \in {"persist", "provider"} : Moves(t, pc)
    <3>1. \/ \E result \in Outputs : thread' = [thread EXCEPT ![t].pc = "persist", ![t].result = result]
          \/ thread' = [thread EXCEPT ![t].pc = "provider", ![t].tries = @ + 1]
      <4>1. Results(t) \subseteq Outputs /\ {"abnormal", "blocked"} \subseteq Outputs
        BY <2>1, OutputsOfTurns DEF Inv, Typed
      <4>2. QED
        BY <1>2, <4>1 DEF Result, Error
    <3>2. CASE \E result \in Outputs : thread' = [thread EXCEPT ![t].pc = "persist", ![t].result = result]
      BY <3>2, ResultGoes DEF Inv, Typed
    <3>3. CASE thread' = [thread EXCEPT ![t].pc = "provider", ![t].tries = @ + 1]
      <4>1. thread[t].tries + 1 \in Nat
        BY Fields DEF Inv, Typed
      <4>2. QED
        BY <3>3, <4>1, Proceeding DEF Inv, Typed, Pcs
    <3>4. QED
      BY <3>1, <3>2, <3>3
  <2>4. PICK pc \in {"persist", "provider"} : Moves(t, pc)
    BY <2>3
  <2>5. QED
    BY <1>1, <1>2, <2>1, <2>2, <2>4, DriverStays
<1>3. CASE ~Current(t)
  <2>1. Steps(t) /\ ~Driving(t)
    BY <1>1, <1>3, DrivesCurrent, LeavesSteps DEF Result, Error
  <2>2. QED
    BY <1>1, <2>1, NoneRemoved, SameStays, StepsAside
<1>4. QED
  BY <1>2, <1>3

\* The drive pauses the run, ends it or asks: nobody drives it any more.
LEMMA DriveHalts ==
  ASSUME Inv, NEW t \in Threads, Driving(t), Leaves(t) \/ (Moves(t, "finish") /\ lease' = lease),
         run'.status \in {"paused", "completed"}, Offered',
         \/ ~node'.manual
         \/ node'.execution = None
         \/ node'.execution = node.execution /\ Current(t) /\ Moves(t, "finish"),
         active' \in {active, None}, UNCHANGED <<stop, process>>
  PROVE  Shared'
<1>1. run.status = "running"
  BY DEF Inv, Shared, Driver
<1>2. run'.status # "running"
  OBVIOUS
<1>3. Coordinated' /\ Retires
  BY <1>2, DriverHalts
<1>4. Shapes' /\ Distinct' /\ Leased' /\ First' /\ Entered' /\ Driver' /\ Listed'
  BY <1>1, <1>3, RunHalts
<1>5. QED
  BY <1>3, <1>4 DEF Shared

LEMMA PersistKeeps == ASSUME Inv, NEW t \in Threads, Persist(t) PROVE Shared'
<1>1. /\ thread[t].pc = "persist" /\ thread[t].pc \in Steering
      /\ UNCHANGED <<row, active, stop, process>>
  BY DEF Persist, Steering
<1>2. CASE Current(t)
  <2>1. Driving(t) /\ thread[t].execution # None
    BY <1>1, <1>2, DrivesCurrent
  <2>2. PICK result \in Outputs :
          /\ run' = RunOf(result) /\ node' = NodeOf(result)
          /\ Moves(t, NextOf(result)) /\ lease' = lease /\ run.status = "running"
    BY <1>2, Persisting DEF Inv
  <2>3. RunOf(result) \in GoodRuns /\ RunOf(result).token = run.token /\ RunOf(result).attempt = run.attempt
    BY <2>2, Concluding DEF Inv
  <2>4. node.manual = FALSE
    <3>1. node.manual \in BOOLEAN
      BY DEF Inv, Typed, NodeType, GoodNodes, NodeRuns
    <3>2. QED
      BY <2>1, <3>1 DEF Inv, Shared, Driver
  <2>5. CASE RunOf(result).status = "running"
    <3>1. /\ NodeOf(result).manual = node.manual /\ NodeOf(result).execution = node.execution
          /\ NextOf(result) \in {"start", "decide"}
      BY <2>2, <2>5, Concluding DEF Inv
    <3>2. run'.reason = None
      BY <2>2, <2>3, <2>5 DEF GoodRuns
    <3>3. NextOf(result) \in Working \ {"load"} /\ NextOf(result) # "fail"
      BY <3>1 DEF Working, Steering
    <3>4. QED
      BY <1>1, <1>2, <2>1, <2>2, <2>3, <2>5, <3>1, <3>2, <3>3, DriverStays
  <2>6. CASE RunOf(result).status # "running"
    <3>1. /\ run'.status = "paused" /\ NextOf(result) = "finish" /\ node'.status \in {"paused", "completed"}
          /\ \/ node'.manual = FALSE
             \/ node'.status = "paused" /\ node'.manual = TRUE /\ node'.execution = node.execution
          /\ run'.reason = "waiting" => node'.manual = TRUE
      BY <2>2, <2>4, <2>6, Concluding DEF Inv
    <3>2. Offered'
      BY <3>1 DEF Offered
    <3>3. Moves(t, "finish") /\ lease' = lease
      BY <2>2, <3>1
    <3>4. QED
      BY <1>1, <1>2, <2>1, <3>1, <3>2, <3>3, DriveHalts
  <2>7. QED
    BY <2>5, <2>6
<1>3. CASE ~Current(t)
  <2>1. ~Driving(t) /\ UNCHANGED <<run, node>>
    BY <1>1, <1>3, DrivesCurrent DEF Persist
  <2>2. Steps(t)
    <3>1. CASE Leave(t)
      BY <3>1, LeavesSteps
    <3>2. CASE Go(t, "finish") /\ UNCHANGED lease
      <4>1. Moves(t, "finish")
        BY <3>2, Going DEF Inv, Typed, Pcs
      <4>2. QED
        BY <1>1, <3>2, <4>1 DEF Steps, Working, Steering
    <3>3. QED
      BY <1>3, <3>1, <3>2 DEF Persist
  <2>3. QED
    BY <1>1, <2>1, <2>2, NoneRemoved, SameStays, StepsAside
<1>4. QED
  BY <1>2, <1>3

\* An error of a drive, where it is charged to the node the drive began with.
LEMMA FailKeeps == ASSUME Ordinary, Inv, NEW t \in Threads, Fail(t) PROVE Shared'
<1>1. thread[t].fallback = "own" /\ thread[t].pc \in {"worktree", "load", "provider", "decide"}
  BY DEF Fail, Ordinary
<1>2. Go(t, "fail") /\ UNCHANGED <<run, node, row, active, lease, stop, process>>
  BY <1>1, Words DEF Fail, disk
<1>3. Moves(t, "fail") /\ thread[t].fallback # None
  BY <1>1, <1>2, Going, Words DEF Inv, Typed, Pcs
<1>4. CASE Driving(t)
  <2>1. Current(t) /\ thread[t].execution # None /\ run.status = "running" /\ run.reason = None
    BY <1>3, <1>4, DrivesCurrent, NoReason DEF Current
  <2>2. "fail" \in Working \ {"load"}
    BY DEF Working
  <2>3. QED
    BY <1>1, <1>2, <1>3, <1>4, <2>1, <2>2, DriverStays
<1>5. CASE ~Driving(t)
  <2>1. Steps(t) /\ thread[t].pc # "idle"
    BY <1>1, <1>2, <1>3 DEF Steps, Working, Steering
  <2>2. QED
    BY <1>2, <1>5, <2>1, NoneRemoved, SameStays, StepsAside
<1>6. QED
  BY <1>4, <1>5

\* What follows on a node is driven by the thread that decided it.
LEMMA TransitionKeeps ==
  ASSUME Inv, NEW t \in Threads, Transition(t) \/ OpenNewRound(t) PROVE Shared'
<1>1. Driving(t) /\ UNCHANGED <<row, active, stop, process>>
  BY DEF Transition, OpenNewRound, Decides, Driving
<1>2. PICK n \in Nodes : Proceed(t, n)
  BY Transiting, Rounding, WorkflowAssumption DEF Inv
<1> DEFINE a == Least(FreeAttempts)
           e == Least(FreeExecutions)
<1>3. RunReads(run', "running", None, run.token, a)
  BY Transiting, Rounding DEF Inv
<1>4. PICK f \in Fallbacks : Goes(t, "start", a, e, f)
  BY <1>2, NextNode DEF Inv
<1>5. e # None /\ (\A u \in Threads : thread[u].execution # e)
      /\ NodeReads(node', n, "running", None, FALSE, e)
  BY <1>2, NextNode DEF Inv
<1>6. lease' = IF lease = t THEN None ELSE lease
  BY <1>2 DEF Proceed, Free
<1> HIDE DEF a, e
<1>7. "start" \in Working \ {"load"}
  BY DEF Working, Steering
<1>8. Driving(t)'
  <2>1. thread'[t].pc = "start" /\ thread'[t].attempt = a /\ thread'[t].execution = e
    BY <1>4 DEF Goes, Keeps
  <2>2. QED
    BY <1>3, <1>5, <2>1 DEF Driving, Current, RunReads, NodeReads
<1>9. QED
  BY <1>1, <1>3, <1>4, <1>5, <1>6, <1>7, <1>8, DriverGoesOn DEF RunReads, NodeReads

LEMMA CompleteRunKeeps == ASSUME Inv, NEW t \in Threads, CompleteRun(t) PROVE Shared'
<1>1. Driving(t) /\ UNCHANGED <<node, row, active, lease, stop, process>>
  BY DEF CompleteRun, Decides, Driving
<1>2. Moves(t, "finish")
  BY Going DEF CompleteRun, Inv, Typed, Pcs
<1>3. run'.status = "completed" /\ run'.reason = None
  BY Completing DEF CompleteRun, Inv, Typed, RunReads
<1>4. ~node'.manual
  BY <1>1 DEF Inv, Shared, Driver
<1>5. Offered'
  BY <1>3, <1>4, Words DEF Offered, Reasons
<1>6. QED
  BY <1>1, <1>2, <1>3, <1>4, <1>5, DriveHalts

\* A run is paused with its node.
LEMMA RunPauses ==
  ASSUME Inv, ~node.manual, run.status = "running", NEW reason \in {"interrupted", "abnormal"},
         run' = PausedRun(reason), node' = PausedNode
  PROVE  run'.status = "paused" /\ run'.reason = reason /\ ~node'.manual /\ Offered'
<1>1. run'.status = "paused" /\ run'.reason = reason
  BY Pausing DEF Reasons, Inv, Typed, RunReads
<1>2. node'.status # "running" /\ ~node'.manual
  BY PausingNode DEF Inv, Typed
<1>3. QED
  BY <1>1, <1>2, Words DEF Offered, Reasons

LEMMA TerminalizeKeeps == ASSUME Inv, NEW t \in Threads, Terminalize(t) PROVE Shared'
<1>1. thread[t].pc = "fail" /\ Leave(t) /\ Leaves(t) /\ Steps(t) /\ UNCHANGED <<stop, process>>
  BY Leaving, LeavesSteps DEF Terminalize, Inv, Typed
<1>2. row' \in {row, Without(run.token, row)} /\ active' \in {active, Without(run.token, active)}
  BY DEF Terminalize, Finish
<1>3. CASE Driving(t)
  <2>1. thread[t].fallback = "own" /\ Current(t) /\ run.status = "running" /\ ~node.manual
    BY <1>1, <1>3 DEF Driving, Inv, Shared, Driver
  <2>2. run' = PausedRun("abnormal") /\ node' = PausedNode
    BY <2>1 DEF Terminalize
  <2>3. run'.status = "paused" /\ ~node'.manual /\ Offered'
    BY <2>1, <2>2, RunPauses
  <2>4. active' \in {active, None}
    BY <1>2 DEF Without
  <2>5. QED
    BY <1>1, <1>3, <2>3, <2>4, DriveHalts
<1>4. CASE ~Driving(t)
  <2>1. ~(thread[t].fallback = "own" /\ Current(t))
    BY <1>1, <1>4 DEF Driving
  <2>2. UNCHANGED <<run, node>>
    BY <2>1 DEF Terminalize
  <2>3. run.status # "running" \/ UNCHANGED <<row, active>>
    BY <2>1 DEF Terminalize
  <2>4. Spared
    BY <1>1, <1>2, <2>3, RunCandidate, NoneRemoved
  <2>5. QED
    BY <1>1, <1>4, <2>2, <2>4, SameStays, StepsAside
<1>5. QED
  BY <1>3, <1>4

-----------------------------------------------------------------------------
(* The requests.                                                           *)

LEMMA Preparation ==
  ASSUME Inv, NEW t \in Threads, Prepare(t)
  PROVE  LET a == Least(FreeAttempts)
         IN /\ Goes(t, "round", a, None, None) /\ RunReads(run', "running", None, thread[t].token, a)
            /\ node'.manual = FALSE /\ node'.execution = None /\ Driving(t)'
<1> DEFINE a == Least(FreeAttempts)
<1>1. PICK phase \in {"starting", "preparing"} :
        /\ run' = FirstRun(phase, thread[t].token, a)
        /\ thread' = [thread EXCEPT ![t].pc = "round", ![t].attempt = a, ![t].phase = phase]
  BY DEF Prepare, FirstRun
<1>2. thread[t].pc = "claim" /\ a \in Identities /\ node' = UnwrittenNode("none")
  BY FreshAttempt, FirstNode DEF Prepare, Claims
<1> HIDE DEF a
<1>3. thread[t].execution = None /\ thread[t].fallback = None
  BY <1>2 DEF Inv, Shared, Shapes, Entering, At
<1>4. Goes(t, "round", a, None, None)
  BY <1>1, <1>2, <1>3, PreparingGoes DEF Inv, Typed, Phases
<1>5. RunReads(run', "running", None, thread[t].token, a)
  <2>1. phase \in Phases /\ thread[t].token \in TokenOrNone
    BY Fields DEF Inv, Typed, Phases
  <2>2. QED
    BY <1>1, <1>2, <2>1, Starting
<1>6. node'.manual = FALSE /\ node'.execution = None
  BY <1>2, Unwritten DEF NodeReads
<1>7. Driving(t)'
  <2>1. thread'[t].pc = "round" /\ thread'[t].attempt = a /\ thread'[t].execution = None
    BY <1>4 DEF Goes, Keeps
  <2>2. QED
    BY <1>5, <1>6, <2>1 DEF Driving, Current, RunReads
<1>8. QED
  BY <1>4, <1>5, <1>6, <1>7 DEF a

LEMMA PrepareKeeps == ASSUME Inv, NEW t \in Threads, Prepare(t) PROVE Shared'
<1> DEFINE a == Least(FreeAttempts)
<1>1. /\ Goes(t, "round", a, None, None) /\ RunReads(run', "running", None, thread[t].token, a)
      /\ node'.manual = FALSE /\ Driving(t)'
  BY Preparation
<1>2. /\ thread[t].pc = "claim" /\ thread[t].request = "start"
      /\ UNCHANGED <<row, active, lease, stop, process>>
  BY DEF Prepare, Claims
<1> HIDE DEF a
<1>3. QED
  BY <1>1, <1>2, RunIsClaimed DEF RunReads

\* The thread that writes the first files goes on with them.
LEMMA RoundPreparation ==
  ASSUME Inv, NEW t \in Threads, PrepareRound(t)
  PROVE  /\ Goes(t, "node", thread[t].attempt, None, None) /\ Driving(t) /\ Driving(t)'
         /\ run.status = "running" /\ run.reason = None
         /\ node'.manual = FALSE /\ node'.execution = None
         /\ node.execution = None /\ thread[t].execution = None
<1>1. /\ thread[t].pc = "round" /\ Driving(t) /\ thread[t].execution = None /\ thread[t].fallback = None
      /\ node' = UnwrittenNode("absent") /\ run' = run
  BY DEF PrepareRound, UnwrittenNode, Inv, Prepared, Preparing, At
<1>2. run.status = "running" /\ run.reason = None /\ Current(t)
  BY <1>1, NoReason DEF Driving, Current
<1>3. Goes(t, "node", thread[t].attempt, None, None)
  BY <1>1, Going DEF PrepareRound, Inv, Typed, Pcs, Moves
<1>4. node'.manual = FALSE /\ node'.execution = None /\ node.execution = None
  BY <1>1, <1>2, Unwritten DEF NodeReads, Current
<1>5. Driving(t)'
  <2>1. thread'[t].pc = "node" /\ thread'[t].attempt = thread[t].attempt /\ thread'[t].execution = None
    BY <1>3 DEF Goes, Keeps
  <2>2. QED
    BY <1>1, <1>2, <1>4, <2>1 DEF Driving, Current
<1>6. QED
  BY <1>1, <1>2, <1>3, <1>4, <1>5

LEMMA PrepareRoundKeeps == ASSUME Inv, NEW t \in Threads, PrepareRound(t) PROVE Shared'
<1> DEFINE a == thread[t].attempt
<1>1. /\ Goes(t, "node", a, None, None) /\ Driving(t) /\ Driving(t)'
      /\ run.status = "running" /\ run.reason = None /\ node'.manual = FALSE
      /\ node'.execution = node.execution /\ thread[t].execution = None
  BY RoundPreparation
<1>2. UNCHANGED <<run, row, active, lease, stop, process>>
  BY DEF PrepareRound
<1> HIDE DEF a
<1>3. QED
  BY <1>1, <1>2, DriverGoesOn

LEMMA PrepareNodeKeeps == ASSUME Inv, NEW t \in Threads, PrepareNode(t) PROVE Shared'
<1> DEFINE a == thread[t].attempt
           e == Least(FreeExecutions)
<1>1. /\ thread[t].pc = "node" /\ Driving(t)
      /\ node' = NewNode(Entry, e) /\ UNCHANGED <<run, row, active, lease, stop, process>>
  BY DEF PrepareNode, Inv, Prepared, Preparing, At
<1>2. e \in Identities /\ e # None /\ \A u \in Threads : thread[u].execution # e
  BY FreshExecution DEF PrepareNode
<1>3. run.status = "running" /\ run.reason = None /\ run.attempt = a
  BY <1>1, NoReason DEF Driving, Current
<1> HIDE DEF e
<1>4. PICK pc \in {"worktree", "start"} :
        thread' = [thread EXCEPT ![t].execution = e, ![t].fallback = "own", ![t].pc = pc]
  BY DEF PrepareNode, e
<1>5. pc \in Pcs /\ pc \in Working \ {"load"}
  BY DEF Pcs, Working, Steering
<1>6. Goes(t, pc, a, e, "own")
  BY <1>2, <1>4, <1>5, PreparedGoes DEF Inv, Typed
<1>7. node'.manual = FALSE /\ node'.execution = e
  <2>1. Entry \in Nodes
    BY WorkflowAssumption
  <2>2. NodeReads(node', Entry, "running", None, FALSE, e)
    BY <1>1, <1>2, <2>1, Launched
  <2>3. QED
    BY <2>2 DEF NodeReads
<1> HIDE DEF a
<1>8. Driving(t)'
  <2>1. thread'[t].pc = pc /\ thread'[t].attempt = a /\ thread'[t].execution = e
    BY <1>6 DEF Goes, Keeps
  <2>2. QED
    BY <1>1, <1>3, <1>7, <2>1 DEF Driving, Current
<1>9. QED
  BY <1>1, <1>2, <1>3, <1>5, <1>6, <1>7, <1>8, DriverGoesOn

LEMMA ContinueKeeps == ASSUME Inv, NEW t \in Threads, Continue(t) PROVE Shared'
<1> DEFINE a == thread[t].attempt
           e == Least(FreeExecutions)
<1>1. /\ node' = [node EXCEPT !.execution = e]
      /\ run' = [RunningRun("starting") EXCEPT !.token = thread[t].token]
      /\ thread' = [thread EXCEPT ![t].pc = "load", ![t].execution = e, ![t].fallback = "own"]
      /\ node.manual = FALSE /\ run.attempt = a
  BY DEF Continue, Inv, Typed, NodeType, GoodNodes, NodeRuns
<1>2. e \in Identities /\ e \in IdOrNone /\ e # None /\ \A u \in Threads : thread[u].execution # e
  BY FreshExecution DEF Continue, IdOrNone
<1>3. thread[t].pc = "claim" /\ UNCHANGED <<row, active, lease, stop, process>>
  BY DEF Continue, Claims
<1> HIDE DEF e
<1>4. Goes(t, "load", a, e, "own")
  BY <1>1, <1>2, ContinuedGoes DEF Inv, Typed
<1>5. RunReads(run', "running", None, thread[t].token, run.attempt)
  BY <1>1, Tokened DEF Inv, Phases
<1>6. node'.manual = FALSE /\ node'.execution = e
  <2>1. node \in GoodNodes
    BY DEF Inv, Typed, NodeType
  <2>2. NodeReads(ExecutingNode(node, e), node.id, node.status, node.outcome, node.manual, e)
    BY <1>2, <2>1, NodeRecords
  <2>3. QED
    BY <1>1, <2>2 DEF ExecutingNode, NodeReads
<1> HIDE DEF a
<1>7. Driving(t)'
  <2>1. thread'[t].pc = "load" /\ thread'[t].attempt = a /\ thread'[t].execution = e
    BY <1>4 DEF Goes, Keeps
  <2>2. QED
    BY <1>1, <1>5, <1>6, <2>1 DEF Driving, Current, RunReads
<1>8. "load" \in Working
  BY DEF Working, Steering
<1>9. QED
  BY <1>2, <1>3, <1>4, <1>5, <1>6, <1>7, <1>8, RunIsClaimed DEF RunReads

LEMMA RecoverKeeps == ASSUME Inv, NEW t \in Threads, Recover(t) PROVE Shared'
<1> DEFINE a == thread[t].attempt
           f == thread[t].fallback
           e == Least(FreeExecutions)
<1>1. /\ node' = [node EXCEPT !.execution = e]
      /\ run' = [RunningRun("transitioning") EXCEPT !.token = thread[t].token]
      /\ thread' = [thread EXCEPT ![t].pc = "decide", ![t].execution = e]
      /\ node.manual = FALSE /\ run.attempt = a
  BY DEF Recover, Recoverable, Inv, Typed, NodeType, GoodNodes, NodeRuns
<1>2. e \in Identities /\ e \in IdOrNone /\ e # None /\ \A u \in Threads : thread[u].execution # e
  BY FreshExecution DEF Recover, IdOrNone
<1>3. thread[t].pc = "claim" /\ UNCHANGED <<row, active, lease, stop, process>>
  BY DEF Recover, Claims
<1> HIDE DEF e
<1>4. Goes(t, "decide", a, e, f)
  BY <1>1, <1>2, RecoveredGoes DEF Inv, Typed
<1>5. RunReads(run', "running", None, thread[t].token, run.attempt)
  BY <1>1, Tokened DEF Inv, Phases
<1>6. node'.manual = FALSE /\ node'.execution = e
  <2>1. node \in GoodNodes
    BY DEF Inv, Typed, NodeType
  <2>2. NodeReads(ExecutingNode(node, e), node.id, node.status, node.outcome, node.manual, e)
    BY <1>2, <2>1, NodeRecords
  <2>3. QED
    BY <1>1, <2>2 DEF ExecutingNode, NodeReads
<1> HIDE DEF a, f
<1>7. Driving(t)'
  <2>1. thread'[t].pc = "decide" /\ thread'[t].attempt = a /\ thread'[t].execution = e
    BY <1>4 DEF Goes, Keeps
  <2>2. QED
    BY <1>1, <1>5, <1>6, <2>1 DEF Driving, Current, RunReads
<1>8. "decide" \in Working
  BY DEF Working
<1>9. QED
  BY <1>2, <1>3, <1>4, <1>5, <1>6, <1>7, <1>8, RunIsClaimed DEF RunReads

LEMMA CheckKeeps == ASSUME Inv, NEW t \in Threads, Check(t) PROVE Shared'
<1>1. PICK outcome \in {"success", "failure"} :
        node' = [node EXCEPT !.status = "completed", !.outcome = outcome, !.manual = FALSE]
  BY DEF Check
<1>2. /\ run' = [RunningRun("transitioning") EXCEPT !.token = thread[t].token]
      /\ thread[t].pc = "claim" /\ thread[t].request = "check"
      /\ UNCHANGED <<row, active, lease, stop, process>>
  BY DEF Check, Claims
<1>3. thread[t].execution = None /\ thread[t].fallback = None
  BY <1>2 DEF Inv, Shared, Shapes, Entering, At
<1> DEFINE a == thread[t].attempt
<1>4. Goes(t, "decide", a, None, None)
  BY <1>3, Going DEF Inv, Typed, Check, Pcs, Moves
<1>5. RunReads(run', "running", None, thread[t].token, run.attempt)
  BY <1>2, Tokened DEF Inv, Phases
<1>6. node'.manual = FALSE /\ node'.execution = node.execution
  <2>1. node \in GoodNodes /\ outcome \in Outcomes
    BY DEF Inv, Typed, NodeType, Outcomes
  <2>2. NodeReads(CheckedNode(node, outcome), node.id, "completed", outcome, FALSE, node.execution)
    BY <2>1, NodeRecords
  <2>3. QED
    BY <1>1, <2>2 DEF CheckedNode, NodeReads
<1> HIDE DEF a
<1>7. Driving(t)'
  BY <1>4 DEF Goes, Keeps, Driving
<1>8. "decide" \in Working
  BY DEF Working
<1>9. QED
  BY <1>2, <1>4, <1>5, <1>6, <1>7, <1>8, RunIsClaimed DEF RunReads

\* A request that is admitted finds the run at rest, and no other that has yet to claim it.
LEMMA AtRest ==
  ASSUME Ordinary, Inv, NEW request \in Requests, Admissible(request)
  PROVE  /\ run.status # "running" /\ (\A u \in Threads : ~Entering(u) /\ ~Checking(u))
         /\ request # "start" => ~NoneYet /\ lease = None /\ \A u \in Threads : ~At(u, {"refused"})
         /\ request = "start" => NoneYet /\ \A u \in Threads : At(u, {"idle"})
         /\ request = "check" => AwaitsCheck
<1>1. request # "retry" /\ (request = "recover" => Recoverable)
  BY DEF Admissible, Ordinary, Requests
<1>2. \A u \in Threads : Entering(u) \/ Checking(u) => thread[u].pc # "idle"
  BY DEF Entering, Checking, At
<1>3. \A u \in Threads : Checking(u) => run.status = "running"
  BY DEF Checking, Inv, Shared, Driver, Driving
<1>4. CASE request = "start"
  <2>1. NoneYet /\ \A u \in Threads : thread[u].request # "start"
    BY <1>4 DEF Admissible, NoneYet
  <2>2. \A u \in Threads : At(u, {"idle"})
    BY <2>1 DEF Inv, Shared, First
  <2>3. QED
    BY <1>2, <1>4, <2>1, <2>2 DEF NoneYet, At
<1>5. CASE request # "start"
  <2>1. run.status = "paused" /\ lease = None /\ (request = "check" => AwaitsCheck)
    BY <1>1, <1>5 DEF Admissible, Recoverable, Continuable, AwaitsCheck, Requests
  <2>2. \A u \in Threads : ~(Entering(u) /\ thread[u].request # "start") /\ ~At(u, {"refused"})
    BY <2>1, Words DEF Inv, Shared, Leased
  <2>3. \A u \in Threads : ~Entering(u)
    BY <2>1, <2>2 DEF Inv, Shared, First, NoneYet
  <2>4. QED
    BY <1>3, <1>5, <2>1, <2>2, <2>3 DEF NoneYet
<1>6. QED
  BY <1>4, <1>5

LEMMA Requested ==
  ASSUME Typed, NEW t \in Threads, NEW request \in Requests, Request(t, request)
  PROVE  \E w \in Works :
           /\ Puts(t, w) /\ w.pc = "register" /\ w.request = request
           /\ w.token = Least(FreeTokens) /\ w.execution = None /\ w.fallback = None
<1> DEFINE k == Least(FreeTokens)
           w == [Idle EXCEPT !.pc = "register", !.request = request, !.token = k,
                             !.attempt = run.attempt]
<1>1. k \in TokenOrNone /\ run.attempt \in IdOrNone
  BY FreshToken, RunFields DEF Request, TokenOrNone, Typed
<1>2. thread' = [thread EXCEPT ![t] = w]
  BY DEF Request
<1> HIDE DEF k
<1>3. /\ w \in Works /\ w.pc = "register" /\ w.request = request /\ w.token = k
      /\ w.execution = None /\ w.fallback = None
  BY <1>1, Nothing DEF Works, Pcs
<1> HIDE DEF w
<1>4. Puts(t, w)
  BY <1>2, <1>3, Putting DEF Typed
<1>5. QED
  BY <1>3, <1>4 DEF k

LEMMA RequestKeeps ==
  ASSUME Ordinary, Inv, NEW t \in Threads, NEW request \in Requests, Request(t, request)
  PROVE  Shared'
<1> USE DEF At, Entering, Checking
<1> DEFINE k == Least(FreeTokens)
<1>1. /\ thread[t].pc = "idle" /\ Admissible(request) /\ Accepting /\ row' = k
      /\ UNCHANGED <<run, node, active, stop, process>>
      /\ lease' = IF request \in {"continue", "recover", "check"} THEN t ELSE lease
  BY DEF Request
<1>2. PICK w \in Works : /\ Puts(t, w) /\ w.pc = "register" /\ w.request = request /\ w.token = k
                         /\ w.execution = None /\ w.fallback = None
  BY Requested DEF Inv
<1>3. /\ k # None /\ k \notin {run.token, row, active, stop.token, stop.candidate}
      /\ \A u \in Threads : thread[u].token # k
  BY FreshToken DEF Request
<1> HIDE DEF k
<1>4. thread'[t] = w /\ \A u \in Threads \ {t} : thread'[u] = thread[u]
  BY <1>2 DEF Puts
<1>5. /\ run.status # "running" /\ (\A u \in Threads : ~Entering(u) /\ ~Checking(u))
      /\ request # "start" => ~NoneYet /\ lease = None /\ \A u \in Threads : thread[u].pc # "refused"
      /\ request = "start" => NoneYet /\ \A u \in Threads : thread[u].pc = "idle"
      /\ request = "check" => AwaitsCheck
  BY <1>1, AtRest
<1>6. \A u \in Threads : ~Driving(u)'
  BY <1>1, <1>2, <1>4, <1>5 DEF Driving, Current
<1>7. Shapes'
  BY <1>2, <1>3, <1>4 DEF Inv, Shared, Shapes, Steering
<1>8. Distinct'
  BY <1>2, <1>3, <1>4 DEF Inv, Shared, Distinct
<1>9. Leased'
  <2>1. request # "start" => lease' = t
    BY <1>1, <1>2 DEF Requests, Admissible, Ordinary
  <2>2. \A u \in Threads \ {t} : ~Entering(u)' /\ ~Checking(u)' /\ ~At(u, {"refused"})'
    BY <1>4, <1>5
  <2>3. QED
    BY <1>2, <1>4, <2>1, <2>2 DEF Leased
<1>10. First'
  <2>1. NoneYet' <=> NoneYet
    BY <1>1 DEF NoneYet
  <2>2. QED
    BY <1>2, <1>4, <1>5, <2>1 DEF First
<1>11. Entered'
  <2>1. \A u \in Threads \ {t} : ~Entering(u)'
    BY <1>4, <1>5
  <2>2. AwaitsCheck' <=> AwaitsCheck
    BY <1>1 DEF AwaitsCheck
  <2>3. QED
    BY <1>1, <1>2, <1>3, <1>4, <1>5, <2>1, <2>2 DEF Entered
<1>12. Driver'
  BY <1>1, <1>2, <1>4, <1>5, <1>6 DEF Inv, Shared, Driver, Working, Steering
<1>13. Listed' /\ Offered'
  BY <1>1, <1>5 DEF Inv, Shared, Listed, Offered
<1>14. Coordinated'
  <2>1. recovery' = recovery /\ Accepting' /\ recovery = "accepting"
    BY <1>1 DEF process, Accepting
  <2>2. QED
    BY <1>1, <2>1 DEF Inv, Shared, Coordinated
<1>15. QED
  BY <1>7, <1>8, <1>9, <1>10, <1>11, <1>12, <1>13, <1>14 DEF Shared

LEMMA RefuseCheckKeeps ==
  ASSUME Ordinary, Inv, NEW t \in Threads, RefuseCheck(t) PROVE Shared'
<1> USE DEF At, Entering, Checking
<1> DEFINE w == [Idle EXCEPT !.pc = "refused", !.request = "check", !.attempt = run.attempt]
<1>1. /\ thread[t].pc = "idle" /\ Admissible("check") /\ ~Accepting /\ recovery # "down" /\ lease' = t
      /\ UNCHANGED <<run, node, row, active, stop, process>>
  BY DEF RefuseCheck, disk
<1>2. /\ w \in Works /\ w.pc = "refused" /\ w.token = None
      /\ w.execution = None /\ w.fallback = None
  <2>1. run.attempt \in IdOrNone
    BY RunFields DEF Inv, Typed
  <2>2. QED
    BY <2>1, Nothing DEF Works, Pcs, Requests
<1>3. thread' = [thread EXCEPT ![t] = w]
  BY DEF RefuseCheck
<1> HIDE DEF w
<1>4. thread'[t] = w /\ \A u \in Threads \ {t} : thread'[u] = thread[u]
  BY <1>2, <1>3, Putting DEF Puts, Inv, Typed
<1>5. /\ run.status # "running" /\ (\A u \in Threads : ~Entering(u) /\ ~Checking(u))
      /\ ~NoneYet /\ \A u \in Threads : thread[u].pc # "refused"
  BY <1>1, AtRest DEF Requests
<1>6. \A u \in Threads : ~Driving(u)'
  BY <1>1, <1>2, <1>4, <1>5 DEF Driving, Current
<1>7. Shapes'
  BY <1>2, <1>4 DEF Inv, Shared, Shapes, Steering
<1>8. Distinct'
  BY <1>2, <1>4 DEF Inv, Shared, Distinct
<1>9. Leased'
  BY <1>1, <1>2, <1>4, <1>5 DEF Leased
<1>10. First'
  BY <1>1, <1>2, <1>4, <1>5 DEF First, NoneYet
<1>11. Entered'
  BY <1>2, <1>4, <1>5 DEF Entered
<1>12. Driver'
  BY <1>1, <1>2, <1>4, <1>5, <1>6 DEF Inv, Shared, Driver, Working, Steering
<1>13. Listed' /\ Offered'
  BY <1>1, <1>5 DEF Inv, Shared, Listed, Offered
<1>14. Coordinated'
  <2>1. recovery' = recovery /\ (Accepting' <=> Accepting)
    BY <1>1 DEF process, Accepting
  <2>2. QED
    BY <1>1, <1>2, <1>4, <2>1 DEF Inv, Shared, Coordinated
<1>15. QED
  BY <1>7, <1>8, <1>9, <1>10, <1>11, <1>12, <1>13, <1>14 DEF Shared

LEMMA RegisterKeeps == ASSUME Inv, NEW t \in Threads, Register(t) PROVE Shared'
<1> USE DEF At, Entering, Checking
<1>1. thread[t].pc = "register" /\ Entering(t) /\ UNCHANGED <<run, node, stop, process>> /\ ~Driving(t)
  BY DEF Register, Driving
<1>2. CASE /\ ~Accepting /\ row' = Without(thread[t].token, row) /\ UNCHANGED active
           /\ IF thread[t].request = "check" THEN Go(t, "refused") /\ UNCHANGED lease ELSE Leave(t)
  <2>1. Steps(t)
    BY <1>1, <1>2, LeavesSteps, Going DEF Steps, Inv, Typed, Pcs
  <2>2. Spared
    BY <1>1, <1>2, <2>1, OwnCandidate
  <2>3. QED
    BY <1>1, <2>1, <2>2, SameStays, StepsAside
<1>3. CASE Accepting /\ active' = thread[t].token /\ Go(t, "claim") /\ UNCHANGED <<row, lease>>
  <2>1. Moves(t, "claim")
    BY <1>3, Going DEF Inv, Typed, Pcs
  <2>2. /\ thread'[t].pc = "claim" /\ thread'[t].token = thread[t].token
        /\ thread'[t].request = thread[t].request /\ thread'[t].execution = thread[t].execution
        /\ thread'[t].fallback = thread[t].fallback
        /\ \A u \in Threads \ {t} : thread'[u] = thread[u]
    BY <2>1 DEF Moves, Goes, Keeps, Puts
  <2>3. \A u \in Threads \ {t} : ~Entering(u)
    BY <1>1, EnteringAlone
  <2>4. run.status # "running" /\ \A u \in Threads : ~Driving(u)'
    <3>1. run.status # "running" /\ \A u \in Threads : ~Driving(u)
      BY <1>1, NotDrivenYet DEF Inv, Shared, Entered
    <3>2. QED
      BY <1>1, <2>2, <3>1 DEF Driving, Current
  <2>5. Shapes'
    BY <1>1, <2>2 DEF Inv, Shared, Shapes, Steering
  <2>6. Distinct'
    BY <1>1, <2>2 DEF Inv, Shared, Distinct
  <2>7. Leased'
    BY <1>1, <1>3, <2>2 DEF Inv, Shared, Leased
  <2>8. First'
    BY <1>1, <2>2 DEF Inv, Shared, First, NoneYet
  <2>9. Entered'
    <3>1. (AwaitsCheck' <=> AwaitsCheck) /\ (Accepting' <=> Accepting)
      BY <1>1 DEF AwaitsCheck, Accepting, process
    <3>2. QED
      BY <1>1, <1>3, <2>2, <2>3, <3>1 DEF Inv, Shared, Entered
  <2>10. Driver'
    BY <1>1, <2>2, <2>4 DEF Inv, Shared, Driver, Working, Steering
  <2>11. Listed' /\ Offered'
    BY <1>1, <2>4 DEF Inv, Shared, Listed, Offered
  <2>12. Coordinated'
    <3>1. recovery' = recovery /\ (Accepting' <=> Accepting) /\ recovery = "accepting"
      BY <1>1, <1>3 DEF process, Accepting
    <3>2. QED
      BY <1>1, <1>3, <3>1 DEF Inv, Shared, Coordinated
  <2>13. QED
    BY <2>5, <2>6, <2>7, <2>8, <2>9, <2>10, <2>11, <2>12 DEF Shared
<1>4. QED
  BY <1>2, <1>3 DEF Register

\* A check that cannot be decided leaves the run paused, with its node.
LEMMA CheckFailsKeeps == ASSUME Inv, NEW t \in Threads, CheckFails(t) PROVE Shared'
<1> USE DEF At, Entering, Checking
<1>1. /\ thread[t].pc = "refused" /\ ~Driving(t) /\ Leaves(t) /\ Steps(t) /\ UNCHANGED <<stop, process>>
      /\ IF run.status = "running" THEN UNCHANGED <<active, row>> ELSE Finish(run.token)
  BY Leaving, LeavesSteps DEF CheckFails, Driving, Inv, Typed
<1>2. CASE ~(AwaitsCheck /\ run.attempt = thread[t].attempt)
  <2>1. UNCHANGED <<run, node>>
    BY <1>2 DEF CheckFails
  <2>2. Spared
    BY <1>1, RunCandidate, NoneRemoved DEF Finish
  <2>3. QED
    BY <1>1, <2>1, <2>2, SameStays, StepsAside
<1>3. CASE AwaitsCheck /\ run.attempt = thread[t].attempt
  <2>1. run' = PausedRun("abnormal") /\ node' = PausedNode /\ run.status = "paused" /\ node.status = "paused"
    BY <1>3 DEF CheckFails, AwaitsCheck
  <2>2. run'.status = "paused" /\ run'.reason = "abnormal"
    BY <2>1, Pausing DEF Reasons, Inv, Typed, RunReads
  <2>3. node'.status = "paused" /\ node'.execution = None
    BY <2>1, PausingNode DEF Inv, Typed
  <2>4. /\ thread'[t].pc = "idle" /\ thread'[t].token = None /\ thread'[t].execution = None
        /\ thread'[t].fallback = None /\ \A u \in Threads \ {t} : thread'[u] = thread[u]
    BY <1>1, Nothing DEF Leaves, Puts
  <2>5. lease = t /\ \A u \in Threads \ {t} : ~Entering(u) /\ ~Checking(u) /\ ~At(u, {"refused"})
    <3>1. lease = t /\ \A u \in Threads \ {t} :
            ~(Entering(u) /\ thread[u].request # "start") /\ ~Checking(u) /\ ~At(u, {"refused"})
      BY <1>1 DEF Inv, Shared, Leased
    <3>2. QED
      BY <2>1, <3>1 DEF Inv, Shared, First, NoneYet
  <2>6. \A u \in Threads : ~Driving(u)' /\ ~Entering(u)' /\ ~Checking(u)' /\ ~At(u, {"refused"})'
    <3>1. \A u \in Threads : ~Entering(u)' /\ ~Checking(u)' /\ ~At(u, {"refused"})'
      BY <2>4, <2>5
    <3>2. QED
      BY <2>2, <3>1 DEF Driving, Current
  <2>7. Shapes'
    BY <2>4 DEF Inv, Shared, Shapes, Steering
  <2>8. Distinct'
    BY <2>4 DEF Inv, Shared, Distinct
  <2>9. Leased' /\ First' /\ Entered' /\ Listed'
    BY <2>2, <2>6 DEF Leased, First, NoneYet, Entered, Listed
  <2>10. Driver'
    BY <2>2, <2>3, <2>6 DEF Driver
  <2>11. Offered'
    BY <2>2, <2>3 DEF Offered
  <2>12. Coordinated'
    <3>1. recovery' = recovery /\ (Accepting' <=> Accepting) /\ active' \in {active, None}
          /\ lease' \in {lease, None}
      BY <1>1, <2>1 DEF process, Accepting, Finish, Without, Leaves
    <3>2. (recovery = "down" => lease = None /\ stop.pc = "idle" /\ \A u \in Threads : At(u, {"idle"}))'
      BY <1>1, <2>4, <3>1 DEF Inv, Shared, Coordinated
    <3>3. (~Accepting /\ recovery # "shutting-down" =>
             active = None /\ \A u \in Threads : At(u, {"idle", "refused"}))'
      BY <2>4, <3>1 DEF Inv, Shared, Coordinated
    <3>4. QED
      BY <1>1, <2>2, <3>1, <3>2, <3>3 DEF Inv, Shared, Coordinated
  <2>13. QED
    BY <2>7, <2>8, <2>9, <2>10, <2>11, <2>12 DEF Shared
<1>4. QED
  BY <1>2, <1>3

LEMMA DriveKeeps == ASSUME Inv, NEW t \in Threads, Drive(t) PROVE Shared'
  BY RegisterKeeps, PrepareKeeps, PrepareRoundKeeps, PrepareNodeKeeps, ContinueKeeps, RecoverKeeps, ClaimFailsKeeps, CheckKeeps,
     CheckFailsKeeps, WorktreeKeeps, LoadKeeps, StartNodeKeeps, AcceptedKeeps, ResultKeeps,
     PersistKeeps, TransitionKeeps, CompleteRunKeeps, SupersededKeeps, ConcludeKeeps,
     TerminalizeKeeps DEF Drive

-----------------------------------------------------------------------------
(* The stops, the ends of the process and the recovery.                    *)

\* What the stop and the coordinator are about.
LEMMA StopFields ==
  ASSUME Inv
  PROVE  /\ stop.pc \in StopPcs /\ stop.by \in Stoppers \cup {None}
         /\ (stop.pc = "idle" <=> stop.by = None)
         /\ recovery = "down" => stop.pc = "idle"
         /\ stop.by \in {"exit", "startup"} /\ stop.pc \in {"finish", "consume"} => run.status # "running"
         /\ stop.pc = "consume" => stop.by \in {"exit", "startup"}
  BY DEF Inv, Typed, StopType, Stops, Shared, Coordinated, Stoppers

\* The stop moves, and says who asked for it.
LEMMA StopCoordinated ==
  ASSUME Inv, UNCHANGED <<lease, thread>>, UNCHANGED process, active' \in {active, None},
         recovery # "down",
         stop'.pc = "idle" <=> stop'.by = None,
         stop'.by = "exit" => recovery = "shutting-down",
         stop'.by = "startup" /\ stop'.pc # "exit" => recovery = "recovering",
         stop'.by \in {"exit", "startup"} /\ stop'.pc \in {"finish", "consume"} => run'.status # "running",
         stop'.by = "exit" /\ stop'.pc = "exit" => run'.status # "running",
         stop'.pc = "consume" => stop'.by # "user"
  PROVE  Coordinated'
<1>1. recovery' = recovery /\ (Accepting' <=> Accepting)
  BY DEF process, Accepting
<1>2. (~Accepting /\ recovery # "shutting-down" =>
         active = None /\ \A u \in Threads : At(u, {"idle", "refused"}))'
  BY <1>1 DEF Inv, Shared, Coordinated, At
<1>3. QED
  BY <1>1, <1>2 DEF Coordinated

LEMMA StopRequestKeeps == ASSUME Inv, StopRequest PROVE Shared'
<1> DEFINE s == [NoStop EXCEPT !.by = "user"]
<1>1. /\ stop' = Observed(s) /\ recovery # "down"
      /\ UNCHANGED <<run, node, row, active, lease, thread>> /\ UNCHANGED process
  BY DEF StopRequest, disk
<1>2. s \in Stops /\ s.by = "user" /\ s.candidate = None /\ s.token = None
  BY UserStop
<1> HIDE DEF s
<1>3. /\ stop'.by = "user" /\ stop'.candidate = None /\ stop'.pc \in {"commit", "finish"}
      /\ stop'.token = None \/ (run.status # "running" /\ stop'.token = run.token)
  BY <1>1, <1>2, Observing DEF Inv, Typed
<1>4. Coordinated'
  BY <1>1, <1>3, Words, StopCoordinated DEF Stoppers
<1>5. Spared /\ recovery' = recovery /\ blocked' = blocked
  BY <1>1, NoneRemoved DEF process
<1>6. QED
  BY <1>1, <1>3, <1>4, <1>5, StopGoes

LEMMA ExitRequestKeeps == ASSUME Ordinary, Inv, ExitRequest PROVE Shared'
<1>1. /\ recovery' = "shutting-down" /\ recovery # "shutting-down" /\ \A t \in Threads : thread[t].pc # "claim"
      /\ UNCHANGED <<run, node, row, active, lease, thread, blocked>>
  BY DEF ExitRequest, Ordinary, disk
<1>2. /\ stop'.candidate = active /\ stop'.token = None
      /\ stop'.by = IF Accepting THEN "exit" ELSE "startup"
      /\ stop'.pc = IF active = None THEN "exit" ELSE "observe"
  BY Exiting DEF Inv
<1>3. Accepting /\ active = None => run.status # "running"
  BY DEF Inv, Shared, Listed
<1>4. ~Accepting => active = None
  BY <1>1 DEF Inv, Shared, Coordinated
<1>5. Coordinated'
  BY <1>1, <1>2, <1>3, <1>4, Words DEF Coordinated, Stoppers
<1>6. Spared
  BY <1>1, NoneRemoved
<1>7. QED
  BY <1>1, <1>2, <1>5, <1>6, StopGoes

LEMMA StopObserveKeeps == ASSUME Inv, StopObserve PROVE Shared'
<1>1. /\ stop.pc = "observe"
      /\ UNCHANGED <<run, node, row, active, lease, thread>> /\ UNCHANGED process
  BY DEF StopObserve, disk
<1>2. stop \in Stops
  BY DEF Inv, Typed, StopType
<1>3. /\ stop'.by = stop.by /\ stop'.candidate = stop.candidate
      /\ \/ run.status # "running" /\ stop'.pc = "exit" /\ stop'.token = stop.token
         \/ run.status = "running" /\ stop'.pc = "commit" /\ stop'.token = stop.token
         \/ run.status # "running" /\ stop'.pc = "finish" /\ stop'.token = run.token
  <2>1. CASE run.status = "none"
    <3>1. stop' = [stop EXCEPT !.pc = "exit"]
      BY <2>1 DEF StopObserve
    <3>2. QED
      BY <1>2, <2>1, <3>1 DEF Stops
  <2>2. CASE run.status # "none"
    BY <1>2, <2>2, Observing DEF StopObserve, Inv, Typed
  <2>3. QED
    BY <2>1, <2>2
<1>4. recovery # "down" /\ stop.by # None /\ (stop.by = "exit" => recovery = "shutting-down")
      /\ (stop.by = "startup" => recovery = "recovering")
  BY <1>1, StopFields DEF Inv, Shared, Coordinated
<1>5. Coordinated'
  BY <1>1, <1>3, <1>4, StopCoordinated
<1>6. Spared /\ recovery' = recovery /\ blocked' = blocked
  BY <1>1, NoneRemoved DEF process
<1>7. QED
  BY <1>1, <1>3, <1>5, <1>6, StopGoes

LEMMA StopCommitKeeps == ASSUME Ordinary, Inv, StopCommit PROVE Shared'
<1>1. /\ stop.pc = "commit" /\ stop \in Stops
      /\ UNCHANGED <<row, active, lease, thread>> /\ UNCHANGED process
  BY DEF StopCommit, Inv, Typed, StopType
<1>2. recovery # "down" /\ stop.by # None /\ (stop.by = "exit" => recovery = "shutting-down")
      /\ (stop.by = "startup" => recovery = "recovering")
  BY <1>1, StopFields DEF Inv, Shared, Coordinated
<1>3. CASE /\ run.status = "running" /\ MayStop
           /\ run' = PausedRun("interrupted") /\ node' = PausedNode
           /\ stop' \in Stops /\ stop'.pc = "finish" /\ stop'.token = run.token
           /\ stop'.by = stop.by /\ stop'.candidate = stop.candidate
  <2>1. run'.status = "paused"
    BY <1>3, Pausing DEF Reasons, Inv, Typed, RunReads
  <2>2. node'.status # "running" /\ (node'.manual => node'.status = "paused")
        /\ (~node'.manual \/ node'.execution = None)
    <3>1. \/ PausedNode = node /\ node.status \notin {"paused", "running"}
          \/ PausedNode.execution = None /\ PausedNode.status = "paused"
      BY PausingNode DEF Inv, Typed
    <3>2. node.manual => node.status = "paused"
      BY DEF Inv, Shared, Offered
    <3>3. QED
      BY <1>3, <3>1, <3>2
  <2>3. run'.reason # "waiting"
    BY <1>3, Pausing DEF Reasons, Inv, Typed, RunReads
  <2>4. Offered'
    BY <2>1, <2>2, <2>3 DEF Offered
  <2>5. Retires
    BY <1>1, <1>3 DEF Retires, MayStop, Ordinary, Checking
  <2>6. Shapes' /\ Distinct' /\ Leased' /\ First' /\ Entered' /\ Driver' /\ Listed'
    BY <1>3, <2>1, <2>2, <2>4, <2>5, RunHalts
  <2>7. Coordinated'
    BY <1>1, <1>2, <1>3, <2>1, StopCoordinated
  <2>8. QED
    BY <2>4, <2>6, <2>7 DEF Shared
<1>4. CASE UNCHANGED <<run, node>> /\ stop' = Observed(stop)
  <2>1. /\ stop'.by = stop.by /\ stop'.candidate = stop.candidate
        /\ \/ stop'.pc = "commit" /\ stop'.token = stop.token
           \/ run.status # "running" /\ stop'.pc = "finish" /\ stop'.token = run.token
    BY <1>1, <1>4, Observing DEF Inv, Typed
  <2>2. Coordinated'
    BY <1>1, <1>2, <1>4, <2>1, StopCoordinated
  <2>3. Spared /\ recovery' = recovery /\ blocked' = blocked
    BY <1>1, NoneRemoved DEF process
  <2>4. QED
    BY <1>1, <1>4, <2>1, <2>2, <2>3, StopGoes
<1>5. QED
  BY <1>3, <1>4, Stopping DEF Inv

\* A stop that misses the round leaves the run paused, and the project blocked at startup.
LEMMA StopFailsKeeps == ASSUME Ordinary, Inv, StopFails PROVE Shared'
<1>1. /\ stop.pc = "commit" /\ run.status = "running" /\ MayStop /\ node.status = "none"
      /\ run' = PausedRun("interrupted") /\ UNCHANGED <<node, row, active, lease, thread, crashes>>
  BY DEF StopFails, Stoppable
<1>2. run'.status = "paused" /\ run'.reason = "interrupted"
  BY <1>1, Pausing DEF Reasons, Inv, Typed, RunReads
<1>3. ~node.manual
  <2>1. node.manual => node.status = "paused"
    BY DEF Inv, Shared, Offered
  <2>2. QED
    BY <1>1, <2>1
<1>4. Offered'
  BY <1>1, <1>2, <1>3, Words DEF Offered, Reasons
<1>5. Retires
  BY <1>1 DEF Retires, MayStop, Ordinary, Checking
<1>6. Shapes' /\ Distinct' /\ Leased' /\ First' /\ Entered' /\ Driver' /\ Listed'
  BY <1>1, <1>2, <1>3, <1>4, <1>5, RunHalts
<1>7. recovery # "down" /\ stop.by \in Stoppers /\ (stop.by = "exit" => recovery = "shutting-down")
      /\ (stop.by = "startup" => recovery = "recovering")
  <2>1. recovery # "down" /\ stop.by \in Stoppers
    BY <1>1, StopFields
  <2>2. QED
    BY <1>1, <2>1 DEF Inv, Shared, Coordinated
<1>8. Coordinated'
  <2>1. CASE stop.by = "startup"
    <3>1. recovery' = "accepting" /\ blocked' = TRUE /\ stop'.pc = "idle" /\ stop'.by = None
      BY <2>1, Nothing DEF StopFails
    <3>2. active = None /\ \A u \in Threads : At(u, {"idle", "refused"})
      BY <1>7, <2>1 DEF Inv, Shared, Coordinated, Accepting
    <3>3. ~Accepting' /\ active' = None /\ \A u \in Threads : At(u, {"idle", "refused"})'
      BY <1>1, <3>1, <3>2 DEF Accepting, At
    <3>4. QED
      BY <3>1, <3>3, Words DEF Coordinated, Stoppers
  <2>2. CASE stop.by # "startup"
    <3>1. UNCHANGED process
      BY <1>1, <2>2 DEF StopFails, process
    <3>2. \/ stop'.pc = "idle" /\ stop'.by = None
          \/ stop'.pc = "exit" /\ stop'.by = "exit" /\ stop.by = "exit"
      BY <2>2, ExitStop, Nothing DEF StopFails
    <3>3. stop'.pc = "idle" <=> stop'.by = None
      BY <3>2, Words DEF Stoppers
    <3>4. stop'.by = "exit" => stop.by = "exit"
      BY <3>2, Words DEF Stoppers
    <3>5. stop'.by # "startup" /\ stop'.pc # "consume"
      BY <3>2, Words DEF Stoppers
    <3>6. QED
      BY <1>1, <1>2, <1>7, <3>1, <3>2, <3>3, <3>4, <3>5, StopCoordinated
  <2>3. QED
    BY <2>1, <2>2
<1>9. QED
  BY <1>4, <1>6, <1>8 DEF Shared

\* The stop removes the candidate of the run it stopped, and its own.
LEMMA StopFinishKeeps == ASSUME Inv, StopFinish \/ StopConsume PROVE Shared'
<1>1. /\ UNCHANGED <<run, node, lease, thread>> /\ UNCHANGED process
      /\ recovery' = recovery /\ blocked' = blocked
  BY DEF StopFinish, StopConsume, process
<1>2. /\ stop.by \in Stoppers /\ recovery # "down" /\ stop.by # None
      /\ (stop.by = "exit" => recovery = "shutting-down")
      /\ (stop.by = "startup" => recovery = "recovering")
      /\ (stop.by \in {"exit", "startup"} => run.status # "running")
  BY StopFields DEF StopFinish, StopConsume, Inv, Shared, Coordinated
<1>3. \A u \in Threads : Entering(u)' =>
        thread'[u] = thread[u] /\ thread[u].token # stop.token /\ thread[u].token # stop.candidate
  BY <1>1 DEF Inv, Shared, Entered, Entering, At
<1>4. Spared
  <2>1. CASE StopFinish
    <3>1. run.status = "running" => run.token # stop.token
      BY DEF Inv, Shared, Listed
    <3>2. PICK k : k = stop.token
      OBVIOUS
    <3>3. Spares(k)
      BY <1>3, <2>1, <3>1, <3>2 DEF StopFinish, Finish, Spares
    <3>4. QED
      BY <3>3, Sparing
  <2>2. CASE StopConsume
    <3>1. run.status # "running"
      BY <1>2, <2>2, StopFields DEF StopConsume
    <3>2. PICK k : k = stop.candidate
      OBVIOUS
    <3>3. Spares(k)
      BY <1>3, <2>2, <3>1, <3>2 DEF StopConsume, Finish, Spares
    <3>4. QED
      BY <3>3, Sparing
  <2>3. QED
    BY <2>1, <2>2
<1>5. /\ stop'.token \in {None, stop.token} /\ stop'.candidate \in {None, stop.candidate}
      /\ \/ stop'.pc = "idle" /\ stop'.by = None
         \/ stop'.pc = "consume" /\ stop'.by = stop.by /\ stop.by # "user"
         \/ stop'.pc = "exit" /\ stop'.by = "exit" /\ stop.by = "exit"
  <2>1. CASE StopFinish
    BY <2>1, AfterFinish, Nothing DEF StopFinish, Inv
  <2>2. CASE StopConsume
    BY <2>2, ExitStop, Nothing DEF StopConsume
  <2>3. QED
    BY <2>1, <2>2
<1>6. active' \in {active, None}
  BY <1>4 DEF Spared
<1>7. Coordinated'
  <2>1. stop'.pc = "idle" <=> stop'.by = None
    BY <1>2, <1>5, Words
  <2>2. stop'.by = "exit" => stop.by = "exit"
    BY <1>5, Words DEF Stoppers
  <2>3. stop'.by = "startup" /\ stop'.pc # "exit" => stop.by = "startup"
    BY <1>5, Words DEF Stoppers
  <2>4. stop'.pc = "consume" => stop'.by # "user"
    BY <1>5
  <2>5. run' = run
    BY <1>1
  <2>6. QED
    BY <1>1, <1>2, <1>6, <2>1, <2>2, <2>3, <2>4, <2>5, StopCoordinated
<1>8. stop'.candidate = active => active \in {None, stop.candidate}
  BY <1>5
<1>9. QED
  BY <1>1, <1>4, <1>5, <1>7, <1>8, StopGoes

\* The process ends: nothing is left of the threads, and the files stay as they are, but
\* for what a drive was about to write of its node.
LEMMA DownKeeps ==
  ASSUME Inv, Down, run' = run, Offered' PROVE Shared'
<1> USE DEF At, Entering, Checking
<1>1. /\ thread' = [t \in Threads |-> Idle] /\ lease' = None /\ active' = None /\ row' = row
      /\ stop'.pc = "idle" /\ stop'.by = None /\ stop'.token = None /\ recovery' = "down"
  BY Nothing DEF Down
<1>2. \A t \in Threads : /\ thread'[t].pc = "idle" /\ thread'[t].token = None
                         /\ thread'[t].execution = None /\ thread'[t].fallback = None
  BY <1>1, Nothing
<1>3. Shapes' /\ Distinct' /\ Leased' /\ First' /\ Entered'
  BY <1>2 DEF Shapes, Distinct, Leased, First, Entered, Steering
<1>4. Driver'
  BY <1>2 DEF Driver, Driving, Working, Steering
<1>5. Listed'
  BY <1>1 DEF Inv, Shared, Listed, Accepting
<1>6. Coordinated'
  BY <1>1, <1>2, Words DEF Coordinated, Stoppers
<1>7. QED
  BY <1>3, <1>4, <1>5, <1>6 DEF Shared

LEMMA EndKeeps ==
  ASSUME Ordinary, Inv, Exit \/ Crash \/ TornStop \/ \E t \in Threads : TornPersist(t)
  PROVE  Shared'
<1>1. Down /\ run' = run
  BY DEF Exit, Crash, TornStop, TornPersist, Ordinary
<1>2. Offered'
  <2>1. CASE Exit \/ Crash
    BY <2>1 DEF Exit, Crash, Inv, Shared, Offered
  <2>2. CASE \E t \in Threads : TornPersist(t)
    <3>1. PICK t \in Threads : TornPersist(t)
      BY <2>2
    <3>2. thread[t].result \in Outputs /\ run.status = "running" /\ run.reason = None
          /\ node' = NodeOf(thread[t].result)
      BY <3>1, NoReason DEF TornPersist, Current, Inv, Typed, Fed
    <3>3. ~node.manual
      <4>1. Driving(t)
        BY <3>1 DEF TornPersist, Driving
      <4>2. QED
        BY <4>1 DEF Inv, Shared, Driver
    <3>4. node'.manual => node'.status = "paused"
      BY <3>2, <3>3, Concluding DEF Inv
    <3>5. QED
      BY <1>1, <3>2, <3>4, Words DEF Offered, Reasons
  <2>3. ~TornStop
    BY DEF TornStop, Ordinary
  <2>4. QED
    BY <2>1, <2>2, <2>3
<1>3. QED
  BY <1>1, <1>2, DownKeeps

\* The recovery works while nobody else does.
LEMMA RecoveryKeeps ==
  ASSUME Inv, Restart \/ RecoverRow \/ CompleteRecovery \/ RecoveryFails PROVE Shared'
<1> USE DEF At, Entering, Checking
<1>1. /\ stop.pc = "idle" /\ stop.by = None /\ ~Accepting /\ recovery # "shutting-down"
      /\ UNCHANGED <<run, node, active, lease, thread>>
  BY StopFields DEF Restart, RecoverRow, CompleteRecovery, RecoveryFails, disk, Accepting, Inv,
     Shared, Coordinated
<1>2. active = None /\ \A t \in Threads : thread[t].pc \in {"idle", "refused"}
  BY <1>1 DEF Inv, Shared, Coordinated
<1>3. Shapes' /\ Distinct' /\ Leased' /\ First' /\ Offered'
  BY <1>1 DEF Inv, Shared, Shapes, Distinct, Leased, First, NoneYet, Offered
<1>4. Entered'
  BY <1>1, <1>2 DEF Entered
<1>5. Driver'
  <2>1. \A t \in Threads : Driving(t)' <=> Driving(t)
    BY <1>1 DEF Driving, Current
  <2>2. QED
    BY <1>1, <2>1 DEF Inv, Shared, Driver
<1>6. run.status = "running" => run.token # None /\ row = run.token /\ stop.token # run.token
  BY DEF Inv, Shared, Listed
<1>7. CASE RecoverRow
  <2>1. recovery' = recovery /\ blocked' = blocked /\ recovery = "recovering" /\ (Accepting' <=> Accepting)
    BY <1>7 DEF RecoverRow, process, Accepting
  <2>2. \/ UNCHANGED stop /\ run.status # "running"
        \/ /\ stop'.pc = "commit" /\ stop'.by = "startup" /\ stop'.token = None /\ row' = row
    BY <1>6, <1>7, Nothing DEF RecoverRow, NoStop
  <2>3. Listed'
    BY <1>1, <1>6, <2>1, <2>2 DEF Listed
  <2>4. Coordinated'
    <3>1. stop'.by # "exit" /\ (stop'.by = None <=> stop'.pc = "idle") /\ stop'.pc \in {"idle", "commit"}
      BY <1>1, <2>2, Words DEF Stoppers
    <3>2. QED
      BY <1>1, <1>2, <2>1, <3>1 DEF Coordinated
  <2>5. QED
    BY <1>3, <1>4, <1>5, <2>3, <2>4 DEF Shared
<1>8. CASE Restart \/ CompleteRecovery \/ RecoveryFails
  <2>1. UNCHANGED <<row, stop>> /\ recovery' \in {"recovering", "accepting", "failed"}
    BY <1>8 DEF Restart, CompleteRecovery, RecoveryFails, disk
  <2>2. run.status = "running" => ~Accepting'
    BY <1>6, <1>8 DEF Restart, CompleteRecovery, RecoveryFails, Accepting
  <2>3. Listed'
    BY <1>1, <1>6, <2>1, <2>2 DEF Listed
  <2>4. Coordinated'
    BY <1>1, <1>2, <2>1, Words DEF Coordinated, Stoppers
  <2>5. QED
    BY <1>3, <1>4, <1>5, <2>3, <2>4 DEF Shared
<1>9. QED
  BY <1>7, <1>8

-----------------------------------------------------------------------------
(* What follows from it.                                                   *)

LEMMA InitInv == Init => Inv
<1> SUFFICES ASSUME Init PROVE Inv
  OBVIOUS
<1> USE DEF At, Entering, Checking
<1>1. /\ \A t \in Threads : /\ thread[t].pc = "idle" /\ thread[t].token = None
                            /\ thread[t].execution = None /\ thread[t].fallback = None
      /\ run.status = "none" /\ run.reason = None /\ node.manual = FALSE
      /\ stop.pc = "idle" /\ stop.by = None /\ recovery = "accepting" /\ blocked = FALSE
  BY Nothing DEF Init, NoRun, NoNode
<1>2. Shapes /\ Distinct /\ Leased /\ First /\ Entered /\ Listed
  BY <1>1 DEF Shapes, Distinct, Leased, First, NoneYet, Entered, Listed, Steering
<1>3. Driver
  BY <1>1 DEF Driver, Driving
<1>4. Offered
  BY <1>1, Words DEF Offered, Reasons
<1>5. Coordinated
  BY <1>1, Words DEF Coordinated, Accepting, Stoppers
<1>6. Prepared
  BY <1>1 DEF Prepared, Preparing
<1>7. QED
  BY <1>2, <1>3, <1>4, <1>5, <1>6, InitTyped DEF Inv, Shared

LEMMA StutterKeeps == ASSUME Inv, UNCHANGED vars PROVE Shared'
<1>1. UNCHANGED <<run, node, row, recovery, blocked, active, lease, thread, stop>>
  BY DEF vars
<1>2. Coordinated'
  BY <1>1 DEF Inv, Shared, Coordinated, Accepting, At
<1>3. Spared
  BY <1>1, NoneRemoved
<1>4. QED
  BY <1>1, <1>2, <1>3, StopGoes

\* The thread that writes the first files is left alone, and they stay once they are written.
LEMMA PreparedStays ==
  ASSUME Inv,
         \A u \in Threads : Preparing(u)' => Preparing(u),
         \A u \in Threads : Preparing(u) =>
           /\ thread'[u] = thread[u] /\ node' = node
           /\ run'.status = run.status /\ run'.attempt = run.attempt,
         run'.status # "none" => run.status # "none" \/ HasNode',
         HasNode => HasNode', crashes' = crashes
  PROVE  Prepared'
<1>1. ASSUME NEW u \in Threads, Preparing(u)'
      PROVE  Driving(u)' /\ thread'[u].execution = None /\ thread'[u].fallback = None
  <2>1. /\ Preparing(u) /\ Driving(u) /\ thread[u].execution = None /\ thread[u].fallback = None
    BY <1>1 DEF Inv, Prepared
  <2>2. /\ thread'[u] = thread[u] /\ node' = node
        /\ run'.status = run.status /\ run'.attempt = run.attempt
    BY <2>1
  <2>3. QED
    BY <2>1, <2>2 DEF Driving, Current
<1>2. ASSUME run'.status # "none", ~HasNode', ~(crashes' > 0)
      PROVE  \E u \in Threads : Preparing(u)'
  <2>1. PICK u \in Threads : Preparing(u)
    BY <1>2 DEF Inv, Prepared
  <2>2. thread'[u] = thread[u]
    BY <2>1
  <2>3. QED
    BY <2>1, <2>2 DEF Preparing, At
<1>3. QED
  BY <1>1, <1>2 DEF Prepared

\* While a thread writes the first files, no other claims the run or drives it.
LEMMA WhilePreparing ==
  ASSUME Inv, NEW u \in Threads, Preparing(u), NEW t \in Threads \ {u}
  PROVE  run.status = "running" /\ ~Entering(t) /\ ~Driving(t) /\ ~Preparing(t)
<1>1. Driving(u)
  BY DEF Inv, Prepared
<1>2. run.status = "running"
  BY <1>1 DEF Inv, Shared, Driver
<1>3. ~Driving(t)
  BY <1>1, DrivenByOne
<1>4. ~Entering(t)
  BY <1>2 DEF Inv, Shared, Entered
<1>5. ~Preparing(t)
  BY <1>3 DEF Inv, Prepared
<1>6. QED
  BY <1>2, <1>3, <1>4, <1>5

\* Another thread takes a step: it leaves the files alone where it neither enters nor drives.
Turns(t) == /\ Puts(t, thread'[t]) /\ thread'[t].pc \notin {"round", "node"}
            /\ ~Preparing(t) /\ crashes' = crashes
Untouched == node' = node /\ run'.status = run.status /\ run'.attempt = run.attempt

LEMMA TurnPrepared ==
  ASSUME Inv, NEW t \in Threads, Turns(t),
         run.status = "running" /\ ~Driving(t) /\ ~Entering(t) => Untouched,
         run'.status # "none" => run.status # "none" \/ HasNode', HasNode => HasNode'
  PROVE  Prepared'
<1>1. \A u \in Threads \ {t} : thread'[u] = thread[u]
  BY DEF Turns, Puts
<1>2. \A u \in Threads : Preparing(u)' => Preparing(u)
  BY <1>1 DEF Turns, Preparing, At
<1>3. ASSUME NEW u \in Threads, Preparing(u) PROVE thread'[u] = thread[u] /\ Untouched
  <2>1. u # t
    BY <1>3 DEF Turns
  <2>2. run.status = "running" /\ ~Driving(t) /\ ~Entering(t)
    BY <1>3, <2>1, WhilePreparing
  <2>3. QED
    BY <1>1, <2>1, <2>2
<1>4. crashes' = crashes
  BY DEF Turns
<1>5. QED
  BY <1>2, <1>3, <1>4, PreparedStays DEF Untouched

LEMMA LeaveTurns ==
  ASSUME Inv, NEW t \in Threads, Leave(t), ~Preparing(t), crashes' = crashes PROVE Turns(t)
  BY Leaving, Nothing DEF Leaves, Puts, Turns, Inv, Typed

LEMMA GoTurns ==
  ASSUME Inv, NEW t \in Threads, NEW pc \in Pcs \ {"round", "node"}, Go(t, pc), ~Preparing(t),
         crashes' = crashes
  PROVE  Turns(t)
<1>1. Moves(t, pc)
  BY Going DEF Inv, Typed
<1>2. QED
  BY <1>1 DEF Moves, Goes, Keeps, Turns

LEMMA GoesTurns ==
  ASSUME NEW t \in Threads, NEW pc, NEW a, NEW e, NEW f, pc \notin {"round", "node"},
         Goes(t, pc, a, e, f), ~Preparing(t), crashes' = crashes
  PROVE  Turns(t)
  BY DEF Goes, Keeps, Turns

\* Steps of a thread that write no file.
LEMMA AsidePrepared ==
  ASSUME Inv, NEW t \in Threads, Turns(t), UNCHANGED <<run, node>> PROVE Prepared'
<1>1. Untouched /\ (HasNode => HasNode') /\ run'.status = run.status
  BY DEF Untouched, HasNode
<1>2. QED
  BY <1>1, TurnPrepared

LEMMA WriterPrepared ==
  ASSUME Ordinary, Inv, NEW t \in Threads,
         \/ Register(t) \/ ClaimFails(t) \/ Load(t) \/ Result(t) \/ Error(t)
         \/ Superseded(t) \/ Conclude(t) \/ Fail(t)
  PROVE  Prepared'
<1>1. UNCHANGED <<run, node>> /\ crashes' = crashes /\ ~Preparing(t)
  BY DEF Register, ClaimFails, Claims, Load, Result, Error, Superseded, Conclude, Fail, disk,
         process, Preparing, At
<1>2. \/ Leave(t) \/ \E pc \in {"claim", "refused", "fail"} : Go(t, pc)
      \/ Moves(t, "start") \/ Moves(t, "persist") \/ Moves(t, "provider")
  <2>1. CASE Register(t) \/ ClaimFails(t) \/ Superseded(t) \/ Conclude(t) \/ Fail(t)
    BY <2>1 DEF Register, ClaimFails, Superseded, Conclude, Fail
  <2>2. CASE Load(t)
    <3>1. CASE Current(t) /\ run.phase = "starting"
      BY <2>2, <3>1, Proceeding DEF Load, Inv, Typed, Pcs, Phases
    <3>2. CASE ~(Current(t) /\ run.phase = "starting")
      BY <2>2, <3>2 DEF Load
    <3>3. QED
      BY <3>1, <3>2
  <2>3. CASE Result(t) \/ Error(t)
    <3>1. CASE ~Current(t)
      BY <2>3, <3>1 DEF Result, Error
    <3>2. CASE Current(t)
      <4>1. run.status = "running"
        BY <3>2 DEF Current
      <4>2. Results(t) \subseteq Outputs /\ {"abnormal", "blocked"} \subseteq Outputs
        BY <4>1, OutputsOfTurns DEF Inv, Typed
      <4>3. \/ \E result \in Outputs : thread' = [thread EXCEPT ![t].pc = "persist", ![t].result = result]
            \/ thread' = [thread EXCEPT ![t].pc = "provider", ![t].tries = @ + 1]
        BY <2>3, <3>2, <4>2 DEF Result, Error
      <4>4. thread[t].tries + 1 \in Nat
        BY Fields DEF Inv, Typed
      <4>5. QED
        BY <4>3, <4>4, ResultGoes, Proceeding DEF Inv, Typed, Pcs
    <3>3. QED
      BY <3>1, <3>2
  <2>4. QED
    BY <2>1, <2>2, <2>3
<1>3. Turns(t)
  BY <1>1, <1>2, LeaveTurns, GoTurns, GoesTurns DEF Moves, Pcs
<1>4. QED
  BY <1>1, <1>3, AsidePrepared

LEMMA RequestPrepared ==
  ASSUME Inv, NEW t \in Threads, RefuseCheck(t) \/ \E request \in Requests : Request(t, request)
  PROVE  Prepared'
<1>1. UNCHANGED <<run, node>> /\ crashes' = crashes /\ ~Preparing(t)
  BY DEF Request, RefuseCheck, disk, process, Preparing, At
<1>2. PICK w \in Works : Puts(t, w) /\ w.pc \in {"register", "refused"}
  <2>1. CASE \E request \in Requests : Request(t, request)
    BY <2>1, Requested DEF Inv
  <2>2. CASE RefuseCheck(t)
    <3>1. thread' = [thread EXCEPT ![t] =
            [Idle EXCEPT !.pc = "refused", !.request = "check", !.attempt = run.attempt]]
      BY <2>2 DEF RefuseCheck
    <3>2. /\ [Idle EXCEPT !.pc = "refused", !.request = "check", !.attempt = run.attempt] \in Works
          /\ [Idle EXCEPT !.pc = "refused", !.request = "check", !.attempt = run.attempt].pc = "refused"
      BY RunFields, Nothing DEF Works, Pcs, Requests, Inv, Typed
    <3>3. QED
      BY <3>1, <3>2, Putting DEF Inv, Typed
  <2>3. QED
    BY <2>1, <2>2
<1>3. Turns(t)
  BY <1>1, <1>2 DEF Turns, Puts
<1>4. QED
  BY <1>1, <1>3, AsidePrepared

\* The requests that claim the run find its node.
LEMMA ClaimPrepared ==
  ASSUME Inv, NEW t \in Threads, Continue(t) \/ Recover(t) \/ Check(t) PROVE Prepared'
<1> DEFINE e == Least(FreeExecutions)
<1>1. Entering(t) /\ ~Preparing(t) /\ crashes' = crashes /\ node \in GoodNodes
  BY DEF Continue, Recover, Check, Claims, Entering, Preparing, At, process, Inv, Typed, NodeType
<1>2. (e \in Identities /\ e \in IdOrNone) \/ Check(t)
  BY FreshExecution DEF Continue, Recover, IdOrNone
<1>3. /\ Continue(t) => /\ node' = ExecutingNode(node, e) /\ node.status = "paused"
                        /\ thread' = [thread EXCEPT ![t].pc = "load", ![t].execution = e,
                                                    ![t].fallback = "own"]
      /\ Recover(t) => /\ node' = ExecutingNode(node, e) /\ node.status = "completed"
                       /\ thread' = [thread EXCEPT ![t].pc = "decide", ![t].execution = e]
      /\ Check(t) => /\ Go(t, "decide")
                     /\ \E o \in {"success", "failure"} : node' = CheckedNode(node, o)
  BY DEF Continue, Recover, Recoverable, Check, ExecutingNode, CheckedNode
<1> HIDE DEF e
<1>4. Turns(t)
  <2>1. CASE Continue(t)
    <3>1. e \in Identities
      BY <1>2, <2>1 DEF Continue, Check, Claims
    <3>2. Goes(t, "load", thread[t].attempt, e, "own")
      BY <1>3, <2>1, <3>1, ContinuedGoes DEF Inv, Typed
    <3>3. QED
      BY <1>1, <3>2, GoesTurns
  <2>2. CASE Recover(t)
    <3>1. e \in Identities
      BY <1>2, <2>2 DEF Recover, Check, Claims
    <3>2. Goes(t, "decide", thread[t].attempt, e, thread[t].fallback)
      BY <1>3, <2>2, <3>1, RecoveredGoes DEF Inv, Typed
    <3>3. QED
      BY <1>1, <3>2, GoesTurns
  <2>3. CASE Check(t)
    BY <1>1, <1>3, <2>3, GoTurns DEF Pcs
  <2>4. QED
    BY <2>1, <2>2, <2>3
<1>5. node'.status \in {"paused", "completed"}
  <2>1. CASE Continue(t) \/ Recover(t)
    <3>1. e \in IdOrNone
      BY <1>2, <2>1 DEF Continue, Recover, Check, Claims
    <3>2. NodeReads(ExecutingNode(node, e), node.id, node.status, node.outcome, node.manual, e)
      BY <1>1, <3>1, NodeRecords
    <3>3. QED
      BY <1>3, <2>1, <3>2 DEF NodeReads
  <2>2. CASE Check(t)
    <3>1. PICK o \in Outcomes : node' = CheckedNode(node, o)
      BY <1>3, <2>2 DEF Outcomes
    <3>2. NodeReads(CheckedNode(node, o), node.id, "completed", o, FALSE, node.execution)
      BY <1>1, NodeRecords
    <3>3. QED
      BY <3>1, <3>2 DEF NodeReads
  <2>3. QED
    BY <2>1, <2>2
<1>6. HasNode'
  BY <1>5 DEF HasNode
<1>7. QED
  BY <1>1, <1>4, <1>6, TurnPrepared

\* What drives the run keeps its node, or writes the next.
LEMMA DriverPrepared ==
  ASSUME Inv, NEW t \in Threads,
         \/ CheckFails(t) \/ Worktree(t) \/ StartNode(t) \/ Accepted(t) \/ Persist(t)
         \/ Transition(t) \/ OpenNewRound(t) \/ CompleteRun(t) \/ Terminalize(t)
  PROVE  Prepared'
<1>1. crashes' = crashes /\ ~Preparing(t)
  BY DEF CheckFails, Worktree, StartNode, Accepted, Persist, Transition, OpenNewRound, Decides,
         CompleteRun, Terminalize, process, Preparing, At
<1>2. CASE CheckFails(t)
  <2>1. Turns(t)
    BY <1>1, <1>2, LeaveTurns DEF CheckFails
  <2>2. CASE AwaitsCheck /\ run.attempt = thread[t].attempt
    <3>1. run.status = "paused" /\ node.status = "paused" /\ node' = PausedNode
      BY <1>2, <2>2 DEF CheckFails, AwaitsCheck
    <3>2. node'.status = "paused"
      BY <3>1, PausingNode DEF Inv, Typed
    <3>3. QED
      BY <2>1, <3>1, <3>2, TurnPrepared DEF HasNode
  <2>3. CASE ~(AwaitsCheck /\ run.attempt = thread[t].attempt)
    BY <1>2, <2>1, <2>3, AsidePrepared DEF CheckFails
  <2>4. QED
    BY <2>2, <2>3
<1>3. CASE Worktree(t)
  <2>1. CASE Current(t)
    <3>1. Moves(t, "start") /\ node' = node /\ Driving(t) /\ run.status = "running"
      BY <1>3, <2>1, Proceeding DEF Worktree, Inv, Typed, Pcs, Phases, Driving, Current
    <3>2. Turns(t)
      BY <1>1, <3>1, GoesTurns DEF Moves
    <3>3. QED
      BY <3>1, <3>2, TurnPrepared DEF HasNode
  <2>2. CASE ~Current(t)
    BY <1>1, <1>3, <2>2, LeaveTurns, AsidePrepared DEF Worktree
  <2>3. QED
    BY <2>1, <2>2
<1>4. CASE StartNode(t)
  <2>1. CASE Current(t)
    <3>1. Moves(t, "provider") /\ Driving(t) /\ run.status = "running"
      BY <1>4, <2>1, Proceeding DEF StartNode, Inv, Typed, Pcs, Phases, Driving, Current
    <3>2. node'.status \in {node.status, "running"}
      BY <1>4, <2>1, StartingNode DEF StartNode, Inv, Typed
    <3>3. Turns(t)
      BY <1>1, <3>1, GoesTurns DEF Moves
    <3>4. QED
      BY <3>1, <3>2, <3>3, TurnPrepared DEF HasNode
  <2>2. CASE ~Current(t)
    BY <1>1, <1>4, <2>2, LeaveTurns, AsidePrepared DEF StartNode
  <2>3. QED
    BY <2>1, <2>2
<1>5. CASE Accepted(t)
  <2>1. Moves(t, "turn") /\ RunReads(run', run.status, run.reason, run.token, run.attempt)
    BY <1>5, AcceptedWrites DEF Inv
  <2>2. Turns(t) /\ Untouched
    BY <1>1, <1>5, <2>1, GoesTurns DEF Moves, Untouched, RunReads, Accepted
  <2>3. QED
    BY <2>2, TurnPrepared DEF Untouched, HasNode
<1>6. CASE Persist(t)
  <2>1. CASE Current(t)
    <3>1. PICK result \in Outputs :
            node' = NodeOf(result) /\ Moves(t, NextOf(result)) /\ run.status = "running"
      BY <1>6, <2>1, Persisting DEF Inv
    <3>2. NodeOf(result).status \in {"running", "completed", "paused"}
          /\ NextOf(result) \in {"start", "decide", "finish"}
      BY <3>1, Concluding DEF Inv
    <3>3. HasNode'
      BY <3>1, <3>2 DEF HasNode
    <3>4. Turns(t) /\ Driving(t)
      BY <1>1, <1>6, <2>1, <3>1, <3>2, GoesTurns DEF Moves, Driving, Persist
    <3>5. QED
      BY <3>3, <3>4, TurnPrepared
  <2>2. CASE ~Current(t)
    BY <1>1, <1>6, <2>2, LeaveTurns, GoTurns, AsidePrepared DEF Persist, Pcs
  <2>3. QED
    BY <2>1, <2>2
<1>7. CASE Transition(t) \/ OpenNewRound(t)
  <2>1. Driving(t)
    BY <1>7 DEF Transition, OpenNewRound, Decides, Driving
  <2>2. PICK n \in Nodes : Proceed(t, n)
    BY <1>7, Transiting, Rounding, WorkflowAssumption DEF Inv
  <2>3. PICK a, e, f : Goes(t, "start", a, e, f)
    BY <2>2, NextNode DEF Inv
  <2>4. node'.status = "running"
    BY <2>2, NextNode DEF Inv, NodeReads
  <2>5. Turns(t) /\ HasNode'
    BY <1>1, <2>3, <2>4, GoesTurns DEF HasNode
  <2>6. QED
    BY <2>1, <2>5, TurnPrepared
<1>8. CASE CompleteRun(t)
  <2>1. Driving(t) /\ node' = node /\ Turns(t)
    BY <1>1, <1>8, GoTurns DEF CompleteRun, Decides, Driving, Pcs
  <2>2. run.status = "running"
    BY <2>1 DEF Inv, Shared, Driver
  <2>3. QED
    BY <2>1, <2>2, TurnPrepared DEF HasNode
<1>9. CASE Terminalize(t)
  <2>1. Turns(t)
    BY <1>1, <1>9, LeaveTurns DEF Terminalize
  <2>2. CASE thread[t].fallback = "own" /\ Current(t)
    <3>1. Driving(t) /\ run.status = "running" /\ node' = PausedNode
      BY <1>9, <2>2 DEF Terminalize, Driving, Current
    <3>2. HasNode => HasNode'
      <4>1. HasNode => node'.status \in {"paused", "completed"}
        BY <3>1, PausingNode DEF Inv, Typed
      <4>2. QED
        BY <4>1 DEF HasNode
    <3>3. QED
      BY <2>1, <3>1, <3>2, TurnPrepared
  <2>3. CASE ~(thread[t].fallback = "own" /\ Current(t))
    BY <1>9, <2>1, <2>3, AsidePrepared DEF Terminalize
  <2>4. QED
    BY <2>2, <2>3
<1>10. QED
  BY <1>2, <1>3, <1>4, <1>5, <1>6, <1>7, <1>8, <1>9

\* The thread that writes the first files.
LEMMA PreparePrepared ==
  ASSUME Inv, NEW t \in Threads, Prepare(t) \/ PrepareRound(t) PROVE Prepared'
<1>1. /\ Driving(t)' /\ thread'[t].pc \in {"round", "node"} /\ thread'[t].execution = None
      /\ thread'[t].fallback = None /\ \A u \in Threads \ {t} : thread'[u] = thread[u]
  BY Preparation, RoundPreparation DEF Goes, Keeps, Puts
<1>2. \A u \in Threads \ {t} : ~Preparing(u)
  <2>1. CASE Prepare(t)
    <3>1. \A u \in Threads : ~Driving(u)
      BY <2>1, NotDrivenYet DEF Prepare, Claims, Entering, At
    <3>2. QED
      BY <3>1 DEF Inv, Prepared
  <2>2. CASE PrepareRound(t)
    BY <2>2, WhilePreparing DEF PrepareRound, Preparing, At
  <2>3. QED
    BY <2>1, <2>2
<1>3. \A u \in Threads \ {t} : ~Preparing(u)'
  BY <1>1, <1>2 DEF Preparing, At
<1>4. Preparing(t)'
  BY <1>1 DEF Preparing, At
<1>5. QED
  BY <1>1, <1>3, <1>4 DEF Prepared

LEMMA PrepareNodePrepared ==
  ASSUME Inv, NEW t \in Threads, PrepareNode(t) PROVE Prepared'
<1>1. PICK pc \in {"worktree", "start"}, e \in Identities :
        /\ thread' = [thread EXCEPT ![t].execution = e, ![t].fallback = "own", ![t].pc = pc]
        /\ node' = NewNode(Entry, e)
  BY FreshExecution DEF PrepareNode
<1>2. Goes(t, pc, thread[t].attempt, e, "own")
  BY <1>1, PreparedGoes DEF Inv, Typed, Pcs
<1>3. HasNode'
  BY <1>1 DEF NewNode, HasNode
<1>4. \A u \in Threads \ {t} : ~Preparing(u) /\ thread'[u] = thread[u]
  BY <1>2, WhilePreparing DEF PrepareNode, Preparing, At, Goes, Keeps, Puts
<1>5. \A u \in Threads : ~Preparing(u)'
  BY <1>2, <1>4 DEF Preparing, At, Goes, Keeps
<1>6. QED
  BY <1>3, <1>5 DEF Prepared

\* The stops wait for the first files, the end of the process counts, and its recovery
\* leaves the files alone.
LEMMA StopPrepared ==
  ASSUME Ordinary, Inv,
         \/ StopRequest \/ ExitRequest \/ StopObserve \/ StopCommit \/ StopFails
         \/ StopFinish \/ StopConsume \/ Recovery \/ RecoveryFails \/ UNCHANGED vars
  PROVE  Prepared'
<1>1. thread' = thread /\ crashes' = crashes
  BY DEF StopRequest, ExitRequest, StopObserve, StopCommit, StopFails, StopFinish, StopConsume,
         Recovery, Restart, RecoverRow, CompleteRecovery, RecoveryFails, process, vars
<1>2. \/ UNCHANGED <<run, node>>
      \/ /\ MayStop /\ run.status = "running" /\ run' = PausedRun("interrupted")
         /\ (node' = PausedNode \/ node' = node)
  BY DEF StopRequest, ExitRequest, StopObserve, StopCommit, StopFails, StopFinish, StopConsume,
         Recovery, Restart, RecoverRow, CompleteRecovery, RecoveryFails, disk, vars, Stoppable
<1>3. HasNode => HasNode'
  <2>1. HasNode => PausedNode.status \in {"paused", "completed"}
    BY PausingNode DEF Inv, Typed
  <2>2. QED
    BY <1>2, <2>1 DEF HasNode
<1>4. \/ UNCHANGED <<run, node>>
      \/ run.status = "running" /\ \A u \in Threads : ~Preparing(u)
  BY <1>2 DEF MayStop, Ordinary, Preparing, At
<1>5. \A u \in Threads : Preparing(u)' => Preparing(u)
  BY <1>1 DEF Preparing, At
<1>6. QED
  BY <1>1, <1>3, <1>4, <1>5, PreparedStays

LEMMA DownPrepared == ASSUME Inv, Down PROVE Prepared'
<1>1. \A u \in Threads : ~Preparing(u)'
  BY Nothing DEF Down, Preparing, At
<1>2. crashes' > 0
  BY DEF Down, Inv, Typed, GateType
<1>3. QED
  BY <1>1, <1>2 DEF Prepared

LEMMA NextPrepared == ASSUME Ordinary, Inv, [Next]_vars PROVE Prepared'
<1>1. ASSUME NEW t \in Threads, Drive(t) PROVE Prepared'
  BY <1>1, WriterPrepared, ClaimPrepared, DriverPrepared, PreparePrepared, PrepareNodePrepared
     DEF Drive
<1>2. ASSUME NEW t \in Threads,
             \/ \E request \in Requests : Request(t, request)
             \/ RefuseCheck(t) \/ Fail(t) \/ TornPersist(t)
      PROVE  Prepared'
  BY <1>2, RequestPrepared, WriterPrepared, DownPrepared DEF TornPersist
<1>3. CASE StopRequest \/ ExitRequest \/ Stop \/ Crash \/ TornStop
  BY <1>3, StopPrepared, DownPrepared DEF Stop, Exit, Crash, TornStop
<1>4. CASE Recovery \/ RecoveryFails \/ UNCHANGED vars
  BY <1>4, StopPrepared
<1>5. QED
  BY <1>1, <1>2, <1>3, <1>4 DEF Next

LEMMA NextInv == ASSUME Ordinary, Inv, [Next]_vars PROVE Inv'
<1>1. Typed'
  BY NextTyped DEF Inv
<1>2. UNCHANGED vars => Shared'
  BY StutterKeeps
<1>3. ASSUME NEW t \in Threads,
             \/ \E request \in Requests : Request(t, request)
             \/ RefuseCheck(t) \/ Drive(t) \/ Fail(t) \/ TornPersist(t)
      PROVE  Shared'
  BY <1>3, RequestKeeps, RefuseCheckKeeps, DriveKeeps, FailKeeps, EndKeeps
<1>4. ASSUME StopRequest \/ ExitRequest \/ Stop \/ Crash \/ TornStop
      PROVE  Shared'
  BY <1>4, StopRequestKeeps, ExitRequestKeeps, StopObserveKeeps, StopCommitKeeps,
     StopFailsKeeps, StopFinishKeeps, EndKeeps DEF Stop
<1>5. ASSUME Recovery \/ RecoveryFails
      PROVE  Shared'
  BY <1>5, RecoveryKeeps DEF Recovery
<1>6. Next => Shared'
  BY <1>3, <1>4, <1>5 DEF Next
<1>7. Prepared'
  BY NextPrepared
<1>8. QED
  BY <1>1, <1>2, <1>6, <1>7 DEF Inv

LEMMA Invariance == ASSUME Ordinary PROVE Spec => []Inv
<1>1. Inv /\ [Next]_vars => Inv'
  BY Ordinary, NextInv
<1>2. QED
  BY <1>1, InitInv, PTL DEF Spec

\* A run that is shown as running is listed under its own token in the table the next
\* startup reads and in the registry the exit reads, at every moment: between a claim and its
\* registration, under a stop, and after the process ended in any of its steps.
THEOREM ListedWhileRunning == ASSUME Ordinary PROVE Spec => []RunningIsListed
<1>1. Inv => RunningIsListed
  BY DEF Inv, Shared, Listed, RunningIsListed, Accepting
<1>2. QED
  BY <1>1, Invariance, PTL

\* As long as the process accepts requests, a running run is driven by a thread: no thread
\* gives it up before it has paused it, ended it or handed it on.
THEOREM DrivenWhileRunning == ASSUME Ordinary PROVE Spec => []RunningIsDriven
<1>1. Inv => RunningIsDriven
  BY DEF Inv, Shared, Listed, RunningIsDriven, Accepting
<1>2. QED
  BY <1>1, Invariance, PTL

\* Two threads never drive the run at the same time, however many requests are served and
\* although a thread that a stop superseded is still inside its provider.
THEOREM DrivenByOneThread == ASSUME Ordinary PROVE Spec => []OneDriver
<1>1. Inv => OneDriver
  BY DrivenByOne DEF OneDriver
<1>2. QED
  BY <1>1, Invariance, PTL

\* A paused run whose node was written offers a way on, whoever paused it and wherever it
\* was: its node can be continued, asks, or completed; it completed without success where
\* none is offered.  A run whose node was not written lost its process on the way.
THEOREM PausedHasAWayOn == ASSUME Ordinary PROVE Spec => []PausedIsOffered
<1>1. Inv => PausedIsOffered
  <2> SUFFICES ASSUME Inv, run.status = "paused", run.reason # "blocked"
               PROVE  \/ Continuable /\ node.status = "paused" /\ ~node.manual
                      \/ Recoverable
                      \/ AwaitsCheck
                      \/ node.status = "completed" /\ node.outcome # "success"
                      \/ ~HasNode /\ crashes > 0
    BY DEF PausedIsOffered
  <2>1. run.reason \in {"interrupted", "abnormal", "waiting"}
    BY DEF Inv, Typed, RunType, GoodRuns, Runs, Reasons
  <2>2. /\ node.status # "running" /\ (node.manual => node.status = "paused")
        /\ (run.reason = "waiting" => node.manual)
    BY DEF Inv, Shared, Offered
  <2>3. ~HasNode => crashes > 0
    BY DEF Inv, Prepared, Shared, Driver
  <2>4. HasNode => node.status \in {"paused", "completed"}
    BY <2>2 DEF HasNode, Inv, Typed, NodeType, GoodNodes, NodeRuns, NodeStatuses, RunStatuses
  <2>5. QED
    BY <2>1, <2>2, <2>3, <2>4 DEF Continuable, Recoverable, AwaitsCheck
<1>2. QED
  BY <1>1, Invariance, PTL

\* When a process that accepted requests has dealt with its candidates at the exit, no run is
\* left running: no registration escapes the gate, and no stop is overtaken by a claim.
THEOREM NothingRunsAtTheExit == ASSUME Ordinary PROVE Spec => []ExitLeavesNothingRunning
<1>1. Inv => ExitLeavesNothingRunning
  BY DEF Inv, Shared, Coordinated, ExitLeavesNothingRunning
<1>2. QED
  BY <1>1, Invariance, PTL

\* A thread drives no paused run.
LEMMA PausedIsNotDriven ==
  ASSUME Inv, run.status = "paused", NEW t \in Threads
  PROVE  ~Current(t) /\ ~Decides(t)
<1>1. ~Driving(t)
  BY DEF Inv, Shared, Driver
<1>2. QED
  BY <1>1 DEF Current, Decides, Driving

\* A request claims the run with a candidate of its own.
LEMMA ClaimsAnew ==
  ASSUME Inv, NEW t \in Threads, Prepare(t) \/ Continue(t) \/ Recover(t) \/ Check(t)
  PROVE  run'.token # run.token
<1>1. thread[t].token # run.token
  BY DEF Prepare, Continue, Recover, Check, Claims, Inv, Shared, Entered, Entering, At
<1>2. run'.token = thread[t].token
  <2>1. CASE Prepare(t)
    <3>1. PICK phase \in {"starting", "preparing"} :
            run' = FirstRun(phase, thread[t].token, Least(FreeAttempts))
      BY <2>1 DEF Prepare, FirstRun
    <3>2. phase \in Phases /\ thread[t].token \in TokenOrNone /\ Least(FreeAttempts) \in Identities
      BY <2>1, Fields, FreshAttempt DEF Prepare, Phases, Inv, Typed
    <3>3. QED
      BY <3>1, <3>2, Starting DEF RunReads
  <2>2. CASE Continue(t) \/ Recover(t) \/ Check(t)
    <3>1. PICK phase \in Phases : run' = [RunningRun(phase) EXCEPT !.token = thread[t].token]
      BY <2>2 DEF Continue, Recover, Check, Phases
    <3>2. QED
      BY <3>1, Tokened DEF Inv, RunReads
  <2>3. QED
    BY <2>1, <2>2
<1>3. QED
  BY <1>1, <1>2

LEMMA PauseStep ==
  ASSUME Ordinary, Inv, [Next]_vars, run.status = "paused"
  PROVE  run'.status = "paused" \/ run'.token # run.token
<1>1. CASE UNCHANGED vars
  BY <1>1 DEF vars
<1>2. ASSUME NEW t \in Threads, Drive(t) PROVE run'.status = "paused" \/ run'.token # run.token
  <2>1. ~Current(t) /\ ~Decides(t)
    BY PausedIsNotDriven
  <2>2. CASE Prepare(t) \/ Continue(t) \/ Recover(t) \/ Check(t)
    BY <2>2, ClaimsAnew
  <2>3. CASE CheckFails(t)
    <3>1. run' = PausedRun("abnormal") \/ run' = run
      BY <2>3 DEF CheckFails
    <3>2. QED
      BY <3>1, Pausing DEF Reasons, Inv, Typed, RunReads
  <2>4. CASE Accepted(t)
    BY <2>4, AcceptedWrites DEF Inv, RunReads
  <2>5. CASE \/ Register(t) \/ PrepareRound(t) \/ PrepareNode(t) \/ ClaimFails(t)
             \/ Load(t) \/ Result(t) \/ Error(t) \/ Superseded(t) \/ Conclude(t)
    BY <2>5 DEF PrepareRound, PrepareNode, Register, ClaimFails, Load, Result, Error, Superseded, Conclude, disk
  <2>6. CASE Worktree(t) \/ StartNode(t) \/ Persist(t) \/ Terminalize(t)
    BY <2>1, <2>6 DEF Worktree, StartNode, Persist, Terminalize
  <2>7. CASE Transition(t) \/ OpenNewRound(t) \/ CompleteRun(t)
    BY <2>1, <2>7 DEF Transition, OpenNewRound, CompleteRun
  <2>8. QED
    BY <1>2, <2>2, <2>3, <2>4, <2>5, <2>6, <2>7 DEF Drive
<1>3. ASSUME NEW t \in Threads,
             \/ \E request \in Requests : Request(t, request)
             \/ RefuseCheck(t) \/ Fail(t) \/ TornPersist(t)
      PROVE  run' = run
  BY <1>3 DEF Request, RefuseCheck, Fail, TornPersist, disk
<1>4. CASE StopRequest \/ ExitRequest \/ StopObserve \/ StopFinish \/ StopConsume \/ Exit \/ Crash
  BY <1>4 DEF StopRequest, ExitRequest, StopObserve, StopFinish, StopConsume, Exit, Crash, disk
<1>5. CASE StopCommit \/ StopFails
  BY <1>5 DEF StopCommit, StopFails, Stoppable
<1>6. CASE Recovery \/ RecoveryFails
  BY <1>6 DEF Recovery, Restart, RecoverRow, CompleteRecovery, RecoveryFails, disk
<1>7. ~TornStop
  BY DEF TornStop, Ordinary
<1>8. QED
  BY <1>1, <1>2, <1>3, <1>4, <1>5, <1>6, <1>7 DEF Next, Stop

\* A paused run runs again, or ends, only by a request that registered a candidate of its own:
\* nothing that a superseded thread, a stop or a recovery still writes takes it out of its pause.
THEOREM PausesAreKept == ASSUME Ordinary PROVE Spec => PauseIsKept
<1>1. Inv /\ [Next]_vars => [run.status = "paused" /\ run'.status # "paused" => run'.token # run.token]_vars
  BY Ordinary, PauseStep
<1>2. QED
  BY <1>1, Invariance, PTL DEF Spec, PauseIsKept
=============================================================================
