------------------------- MODULE DynamicGraphProofs -------------------------
(***************************************************************************)
(* What the graph of DynamicGraph guarantees for every width, every number *)
(* of slots, continue requests and faults, and every environment.          *)
(***************************************************************************)
EXTENDS DynamicGraph, FiniteSetTheorems, WellFoundedInduction, TLAPS

(* The inductive invariant, by parts.                                      *)

GoodLeaf == {x \in [status : Statuses, exec : Executions, why : Reasons] :
               /\ x.exec # None => x.status \in {"Ready", "Running"}
               /\ x.status = "Running" => x.exec # None}
Trees == [Leaves -> GoodLeaf]
Groups == {"absent", "Open", "Merging", "Accepting", "Closed"}
Graphs == [status : {"Running", "Paused", "Completed"}, why : Reasons]
Runs == [status : {"Running", "Paused", "Completed"}, why : Reasons, exec : Executions]
Coords == [driver : Threads \cup {NoThread}, starting : BOOLEAN,
           pending : SUBSET Requests, inflight : SUBSET Requests]
\* what "paused" stands for is known once the drive has been unwound
ThreadStates == {x \in [pc : Steps, outer : Executions, resumed : BOOLEAN,
                        inbox : SUBSET Requests, held : SUBSET Requests,
                        failed : SUBSET Requests, result : Reasons \cup {"paused", "completed"}] :
                   x.pc = "after" => x.result # "paused"}
Driving == {"pass", "wait", "drop"}
Mails == [leaf : Leaves, exec : Executions \ {None}, by : Threads,
          result : {"completed", "stopped", "blocked"}, error : BOOLEAN]
Answers == {"none", "started", "failed", "lost"}

TreeType == leaf \in Trees /\ group \in Groups /\ graph \in Graphs /\ run \in Runs
CoordType == /\ coord \in Coords
             /\ coord.pending \subseteq coord.inflight
             /\ coord.driver \in Threads => thread[coord.driver].pc \in Driving
ThreadType == thread \in [Threads -> ThreadStates]
AgentType == jobs \subseteq Jobs /\ mail \subseteq Mails /\ launched \subseteq Requests
RequestType == /\ target \in [Requests -> 0 .. Acceptance] /\ answer \in [Requests -> Answers]
               /\ late \subseteq Requests
FlagType == sweeping \in BOOLEAN /\ overtaken \in BOOLEAN /\ faults \in 0 .. MaxFaults
Typed == TreeType /\ CoordType /\ ThreadType /\ AgentType /\ RequestType /\ FlagType

\* requests are numbered as they come; one in flight was not answered yet, and
\* one whose agent was started was not told that it failed
Ledger ==
  /\ \E k \in 0 .. MaxRequests : {r \in Requests : target[r] # 0} = 1 .. k
  /\ \A r \in Requests : target[r] = 0 =>
       thread[r].pc = "idle" /\ answer[r] = "none" /\ r \notin launched
  /\ \A r \in coord.inflight : answer[r] = "none" /\ target[r] # 0
  /\ \A r \in launched : answer[r] \in {"started", "lost"}

\* a request is in one place: with its worker, queued for a starting driver, or
\* sent to a driver; the thread that starts the run serves none
Before == {"idle", "read", "dispatch", "rearm", "enter"}
Delivery ==
  /\ thread[0].pc \notin {"read", "dispatch", "rearm", "enter", "fail"}
  /\ \A r \in Requests : thread[r].pc \in Before => r \notin coord.pending
  /\ \A r \in Requests : thread[r].pc \in Before \/ r \in coord.pending =>
       \A t \in Threads : r \notin thread[t].inbox /\ r \notin thread[t].held

\* leaves come into being with the status of the group that allows them
Shape ==
  /\ group = "absent" => \A l \in Leaves : l # Bootstrap => leaf[l].status = "absent"
  /\ group # "absent" => leaf[Bootstrap].status = "Completed"
  /\ group = "Open" => leaf[Merge].status = "absent"
  /\ group \in {"Open", "Merging"} => leaf[Acceptance].status = "absent"

Inv == Typed /\ Ledger /\ Delivery /\ Shape

-----------------------------------------------------------------------------
(* Constants and operators.                                                *)

LEMMA Constants == /\ Width \in Nat /\ Width > 0 /\ MaxParallel \in Nat
                   /\ MaxRequests \in Nat /\ MaxFaults \in Nat
  BY WidthAssumption, BoundsAssumption

LEMMA Identities ==
  /\ Requests \subseteq Threads /\ Requests \subseteq Executions /\ 0 \notin Requests
  /\ Threads \subseteq Executions /\ 0 \in Threads /\ Threads = Requests \cup {0}
  /\ First \in Executions /\ First # None /\ None \in Executions /\ NoThread \notin Threads
  /\ None \notin Requests
  BY Constants DEF Requests, Threads, Executions, First, None, NoThread

LEMMA Plan ==
  /\ Bootstrap \in Leaves /\ Merge \in Leaves /\ Acceptance \in Leaves
  /\ Children \subseteq Leaves /\ Bootstrap \notin Children
  /\ Bootstrap # Merge /\ Bootstrap # Acceptance /\ Merge # Acceptance
  /\ Merge \notin Children /\ Acceptance \notin Children
  /\ 0 \notin Leaves /\ Leaves \subseteq 0 .. Acceptance
  BY Constants DEF Bootstrap, Children, Merge, Acceptance, Leaves

\* The requests that were made are the first ones, so the next one is new.
LEMMA NextIsNew ==
  ASSUME Ledger, RequestType, NextRequest \in Requests
  PROVE  /\ target[NextRequest] = 0
         /\ {r \in Requests : target[r] # 0} \cup {NextRequest} = 1 .. NextRequest
<1>1. PICK k \in 0 .. MaxRequests : {r \in Requests : target[r] # 0} = 1 .. k
  BY DEF Ledger
<1>2. k \in Nat /\ Cardinality(1 .. k) = k
  BY <1>1, Constants, FS_Interval
<1>3. NextRequest = k + 1
  BY <1>1, <1>2 DEF NextRequest
<1>4. k + 1 \notin 1 .. k /\ (1 .. k) \cup {k + 1} = 1 .. (k + 1)
  BY <1>2
<1>5. NextRequest \notin {r \in Requests : target[r] # 0}
  BY <1>1, <1>3, <1>4
<1>6. QED
  BY <1>1, <1>3, <1>4, <1>5

\* A request a leaf is launched for is one of those held for it.
LEMMA RequestHeld ==
  ASSUME NEW held, held \subseteq Requests, NEW l
  PROVE  RequestOf(held, l) \in {r \in held : target[r] = l} \cup {None}
<1> DEFINE mine == {r \in held : target[r] = l}
<1>1. CASE mine = {}
  BY <1>1 DEF RequestOf
<1>2. CASE mine # {}
  <2> DEFINE mirrored == {n \in 0 .. MaxRequests : MaxRequests - n \in mine}
  <2>1. \A r \in mine : MaxRequests - r \in mirrored
    BY Constants DEF Requests
  <2>2. mirrored # {} /\ mirrored \subseteq Nat
    BY <1>2, <2>1
  <2>3. PICK n \in mirrored : \A m \in mirrored : n <= m
    <3>1. PICK n \in mirrored : \A m \in mirrored : ~ (<<m, n>> \in OpToRel(<, Nat))
      <4> HIDE DEF mirrored
      <4> QED BY <2>2, NatLessThanWellFounded, WFMin
    <3>2. \A m \in mirrored : n \in Nat /\ m \in Nat /\ ~ (m < n)
      BY <2>2, <3>1 DEF OpToRel
    <3>3. \A m \in mirrored : n <= m
      BY <3>2
    <3>4. QED
      BY <3>3
  <2>4. \A q \in mine : q <= MaxRequests - n
    <3>1. \A q \in mine : q \in 1 .. MaxRequests /\ n <= MaxRequests - q
      BY <2>1, <2>3 DEF Requests
    <3>2. n \in Nat
      BY <2>2, <2>3
    <3>3. QED
      BY <3>1, <3>2, Constants
  <2>5. \E r \in mine : \A q \in mine : q <= r
    BY <2>3, <2>4
  <2>6. RequestOf(held, l) = CHOOSE r \in mine : \A q \in mine : q <= r
    BY <1>2 DEF RequestOf
  <2>7. RequestOf(held, l) \in mine
    BY <2>5, <2>6
  <2>8. QED
    BY <2>7
<1>3. QED
  BY <1>1, <1>2

\* The states of a leaf the actions make.
LEMMA GoodLeaves ==
  /\ Absent \in GoodLeaf /\ Completed \in GoodLeaf
  /\ [Absent EXCEPT !.status = "Pending"] \in GoodLeaf
  /\ \A e \in Executions : Ready(e) \in GoodLeaf
  /\ \A why \in Reasons : Paused(why) \in GoodLeaf
  BY Identities DEF GoodLeaf, Absent, Completed, Ready, Paused, Statuses, Reasons, None

LEMMA RefreshedType == ASSUME NEW tr \in Trees PROVE Refreshed(tr) \in Trees
  BY GoodLeaves, Identities DEF Trees, Refreshed

LEMMA RearmedType ==
  ASSUME TreeType, ThreadType, NEW t \in Threads PROVE Rearmed(t) \in Trees
<1>1. \A l \in Leaves : (\E r \in Taken(t) : target[r] = l) =>
        (CHOOSE r \in Taken(t) : target[r] = l) \in Requests
  BY DEF Taken, ThreadType, ThreadStates
<1>2. QED
  BY <1>1, GoodLeaves, Identities DEF Rearmed, Trees, TreeType

LEMMA LaunchedType ==
  ASSUME NEW tr \in Trees, NEW gone PROVE Launched(tr, gone) \in Trees
<1>1. \A l \in Leaves : tr[l] \in GoodLeaf
  BY DEF Trees
<1>2. \A l \in Leaves :
        [status |-> "Running", exec |-> IF tr[l].exec = None THEN First ELSE tr[l].exec,
         why |-> "none"] \in GoodLeaf
  BY <1>1, Identities DEF GoodLeaf, Statuses, Reasons
<1>3. Paused("stopped") \in GoodLeaf
  BY GoodLeaves DEF Reasons
<1>4. QED
  BY <1>1, <1>2, <1>3 DEF Launched, Trees

LEMMA CompletingType ==
  ASSUME NEW tr \in Trees, NEW l \in Leaves PROVE Completing(tr, l) \in Trees
  BY GoodLeaves DEF Completing, Trees

LEMMA SweptType == ASSUME TreeType PROVE Swept \in Trees
<1>1. Paused("stopped") \in GoodLeaf
  BY GoodLeaves DEF Reasons
<1>2. QED
  BY <1>1 DEF Swept, Trees, TreeType

LEMMA GraphValues ==
  /\ \A st \in {"Running", "Paused", "Completed"} : GraphIs(st) \in Graphs
  /\ \A why \in Reasons : GraphPaused(why) \in Graphs
  BY DEF GraphIs, GraphPaused, Graphs, Reasons

LEMMA AggregateReason == ASSUME NEW tr PROVE Aggregate(tr) \in Reasons
  BY DEF Aggregate, Reasons

LEMMA PausedRuns ==
  ASSUME run \in Runs, NEW why \in Reasons
  PROVE  /\ [status |-> "Paused", why |-> why, exec |-> None] \in Runs
         /\ [run EXCEPT !.status = "Paused", !.why = why] \in Runs
  BY Identities DEF Runs

-----------------------------------------------------------------------------
(* The two operators several actions share.                                *)

\* Requests that fail leave the coordinator, and are told.
LEMMA FailingKeeps ==
  ASSUME CoordType, RequestType, Ledger, NEW S, Failing(S)
  PROVE  /\ coord' \in Coords /\ coord'.pending \subseteq coord'.inflight
         /\ coord'.driver = coord.driver /\ coord'.inflight \subseteq coord.inflight
         /\ coord'.pending \subseteq coord.pending
         /\ answer' \in [Requests -> Answers]
         /\ \A r \in Requests : r \notin coord.inflight => answer'[r] = answer[r]
         /\ \A r \in coord'.inflight : answer'[r] = answer[r]
<1>1. coord.pending \subseteq coord.inflight /\ coord.inflight \subseteq Requests
  BY DEF CoordType, Coords
<1>2. /\ coord' = [coord EXCEPT !.inflight = @ \ (S \cap coord.inflight),
                     !.pending = @ \ (S \cap coord.inflight),
                     !.starting = @ /\ ~(coord.inflight # {} /\ coord.inflight \ (S \cap coord.inflight) = {})]
      /\ answer' = [r \in Requests |-> IF r \in S \cap coord.inflight THEN "failed" ELSE answer[r]]
  BY DEF Failing
<1>3. coord' \in Coords /\ coord'.driver = coord.driver
      /\ coord'.inflight = coord.inflight \ (S \cap coord.inflight)
      /\ coord'.pending = coord.pending \ (S \cap coord.inflight)
  BY <1>1, <1>2 DEF CoordType, Coords
<1>4. answer' \in [Requests -> Answers]
  BY <1>2 DEF RequestType, Answers
<1>5. QED
  BY <1>1, <1>2, <1>3, <1>4

\* Leaves that are paused were live, or paused already.
LEMMA PauseKeeps ==
  ASSUME TreeType, NEW S, S \subseteq Leaves, PauseLeaves(S)
  PROVE  /\ leaf' \in Trees /\ graph' \in Graphs /\ run' \in Runs
         /\ \A l \in Leaves : leaf'[l] = IF l \in S THEN Paused("stopped") ELSE leaf[l]
<1>1. Paused("stopped") \in GoodLeaf /\ "stopped" \in Reasons
  BY GoodLeaves DEF Reasons
<1>2. leaf' = [l \in Leaves |-> IF l \in S THEN Paused("stopped") ELSE leaf[l]]
  BY DEF PauseLeaves
<1>3. leaf' \in Trees
  BY <1>1, <1>2 DEF TreeType, Trees
<1>4. graph' \in {graph, GraphIs("Running"), GraphPaused("stopped")}
  BY DEF PauseLeaves
<1>5. graph' \in Graphs
  BY <1>1, <1>4, GraphValues DEF TreeType
<1>6. run' = run \/ run' = [run EXCEPT !.status = "Paused", !.why = "stopped"]
  BY DEF PauseLeaves, PauseRun
<1>7. run' \in Runs
  BY <1>1, <1>6, PausedRuns DEF TreeType
<1>8. QED
  BY <1>2, <1>3, <1>5, <1>7

-----------------------------------------------------------------------------
(* What the parts of the invariant depend on.                              *)

\* Going on changes where the thread is and nothing else.
LEMMA Goes ==
  ASSUME ThreadType, NEW t \in Threads, NEW pc \in Steps \ {"after"}, Goto(t, pc)
  PROVE  /\ thread' \in [Threads -> ThreadStates]
         /\ thread'[t] = [thread[t] EXCEPT !.pc = pc]
         /\ thread'[t].pc = pc /\ thread'[t].inbox = thread[t].inbox
         /\ thread'[t].held = thread[t].held
         /\ \A u \in Threads : u # t => thread'[u] = thread[u]
<1>1. thread[t] \in ThreadStates
  BY DEF ThreadType
<1>2. [thread[t] EXCEPT !.pc = pc] \in ThreadStates
  BY <1>1 DEF ThreadStates
<1>3. thread' = [thread EXCEPT ![t] = [thread[t] EXCEPT !.pc = pc]]
  BY DEF Goto
<1>4. thread' \in [Threads -> ThreadStates] /\ thread'[t] = [thread[t] EXCEPT !.pc = pc]
      /\ \A u \in Threads : u # t => thread'[u] = thread[u]
  BY <1>2, <1>3 DEF ThreadType
<1>5. QED
  BY <1>1, <1>4 DEF ThreadStates

\* Steps every thread may go to.
LEMMA Known == {"returned", "pass"} \subseteq Steps \ {"after"}
  BY DEF Steps

\* A thread that goes on receives nothing and is not idle again; the
\* coordinator forgets requests at most.
LEMMA Moves ==
  ASSUME ThreadType, Ledger, Delivery, NEW t \in Threads, thread[t].pc # "idle",
         thread' \in [Threads -> ThreadStates],
         \A u \in Threads : u # t => thread'[u] = thread[u],
         thread'[t].inbox \subseteq thread[t].inbox,
         thread'[t].held \subseteq thread[t].held,
         thread'[t].pc # "idle",
         thread'[t].pc \in Before => thread[t].pc \in Before,
         t = 0 => thread'[t].pc # "fail",
         coord'.pending \subseteq coord.pending, UNCHANGED target
  PROVE  /\ Delivery'
         /\ \A r \in Requests : target'[r] = 0 => thread'[r].pc = "idle"
<1>1. \A u \in Threads : /\ thread'[u].inbox \subseteq thread[u].inbox
                         /\ thread'[u].held \subseteq thread[u].held
                         /\ thread'[u].pc \in Before => thread[u].pc \in Before
  OBVIOUS
<1>2. thread'[0].pc \notin {"read", "dispatch", "rearm", "enter", "fail"}
  <2>1. thread[0].pc \notin {"read", "dispatch", "rearm", "enter", "fail"}
    BY DEF Delivery
  <2>2. CASE t = 0
    BY <1>1, <2>1, <2>2 DEF Before
  <2>3. CASE t # 0
    BY <2>1, <2>3, Identities
  <2>4. QED
    BY <2>2, <2>3
<1>3. \A r \in Requests : thread'[r].pc \in Before => r \notin coord'.pending
  BY <1>1, Identities DEF Delivery
<1>4. \A r \in Requests : thread'[r].pc \in Before \/ r \in coord'.pending =>
        \A u \in Threads : r \notin thread'[u].inbox /\ r \notin thread'[u].held
  <2> SUFFICES ASSUME NEW r \in Requests, thread'[r].pc \in Before \/ r \in coord'.pending,
                      NEW u \in Threads
               PROVE  r \notin thread'[u].inbox /\ r \notin thread'[u].held
    OBVIOUS
  <2>1. thread[r].pc \in Before \/ r \in coord.pending
    BY <1>1, Identities
  <2>2. r \notin thread[u].inbox /\ r \notin thread[u].held
    BY <2>1 DEF Delivery
  <2>3. QED
    BY <1>1, <2>2
<1>5. \A r \in Requests : target'[r] = 0 => thread'[r].pc = "idle"
  BY Identities DEF Ledger
<1>6. QED
  BY <1>2, <1>3, <1>4, <1>5 DEF Delivery

\* Answers given to requests in flight, which leave with them.
LEMMA LedgerKept ==
  ASSUME Ledger, UNCHANGED <<target, launched>>,
         \A r \in Requests : target'[r] = 0 => thread'[r].pc = "idle",
         coord.inflight \subseteq Requests, launched \subseteq Requests,
         coord'.inflight \subseteq coord.inflight,
         \A r \in Requests : r \notin coord.inflight => answer'[r] = answer[r],
         \A r \in coord'.inflight : answer'[r] = answer[r]
  PROVE  Ledger'
<1>1. \E k \in 0 .. MaxRequests : {r \in Requests : target'[r] # 0} = 1 .. k
  BY DEF Ledger
<1>2. \A r \in Requests : target'[r] = 0 => /\ thread'[r].pc = "idle" /\ answer'[r] = "none"
                                            /\ r \notin launched'
  BY DEF Ledger
<1>3. \A r \in coord'.inflight : answer'[r] = "none" /\ target'[r] # 0
  BY DEF Ledger
<1>4. \A r \in launched' : answer'[r] \in {"started", "lost"}
  BY DEF Ledger
<1>5. QED
  BY <1>1, <1>2, <1>3, <1>4 DEF Ledger

\* Live leaves that are paused, or paused ones that are made ready, keep it.
LEMMA ShapeKept ==
  ASSUME Shape, UNCHANGED group,
         \A l \in Leaves : /\ leaf[l].status = "absent" => leaf'[l].status = "absent"
                           /\ leaf[l].status = "Completed" => leaf'[l].status = "Completed"
  PROVE  Shape'
  BY Plan DEF Shape

\* A driver that is registered drives.
LEMMA CoordKept ==
  ASSUME CoordType, coord' \in Coords, coord'.pending \subseteq coord'.inflight,
         coord'.driver = coord.driver,
         coord.driver \in Threads => thread'[coord.driver].pc \in Driving
  PROVE  CoordType'
  BY DEF CoordType

-----------------------------------------------------------------------------
(* A continue and its worker.                                              *)

LEMMA ContinueKeeps == ASSUME Inv, NEW l \in Leaves, Continue(l) PROVE Inv'
<1> DEFINE r == NextRequest
<1>1. /\ r \in Requests /\ r \in Threads /\ target[r] = 0
      /\ {q \in Requests : target[q] # 0} \cup {r} = 1 .. r
  BY NextIsNew, Identities DEF Continue, Inv, Typed
<1>2. /\ coord' = [coord EXCEPT !.inflight = @ \cup {r}]
      /\ target' = [target EXCEPT ![r] = l] /\ Goto(r, "read")
      /\ UNCHANGED <<leaf, group, graph, run, jobs, mail, launched, answer, late, sweeping,
                     overtaken, faults>>
  BY DEF Continue, tree, agents
<1> HIDE DEF r
<1>3. thread[r].pc = "idle" /\ answer[r] = "none" /\ r \notin launched
  BY <1>1 DEF Inv, Ledger
<1>4. /\ thread' \in [Threads -> ThreadStates]
      /\ thread'[r] = [thread[r] EXCEPT !.pc = "read"]
      /\ \A u \in Threads : u # r => thread'[u] = thread[u]
  BY <1>1, <1>2, Goes DEF Inv, Typed, Steps
<1>5. coord' \in Coords /\ coord'.driver = coord.driver /\ coord'.pending = coord.pending
      /\ coord'.inflight = coord.inflight \cup {r}
  BY <1>1, <1>2 DEF Inv, Typed, CoordType, Coords
<1>6. l \in 0 .. Acceptance /\ l # 0
  BY Plan
<1>7. Typed'
  <2>1. TreeType' /\ AgentType' /\ FlagType'
    BY <1>2 DEF Inv, Typed, TreeType, AgentType, FlagType
  <2>2. CoordType'
    BY <1>3, <1>4, <1>5 DEF Inv, Typed, CoordType, Driving
  <2>3. RequestType'
    BY <1>2, <1>6 DEF Inv, Typed, RequestType
  <2>4. QED
    BY <1>4, <2>1, <2>2, <2>3 DEF Typed, ThreadType
<1>8. Ledger'
  <2>1. target' \in [Requests -> 0 .. Acceptance]
        /\ \A q \in Requests : target'[q] = IF q = r THEN l ELSE target[q]
    BY <1>2, <1>6 DEF Inv, Typed, RequestType
  <2>2. {q \in Requests : target'[q] # 0} = {q \in Requests : target[q] # 0} \cup {r}
    BY <1>1, <1>6, <2>1
  <2>3. r \in 0 .. MaxRequests
    BY <1>1, Constants DEF Requests
  <2>4. \E k \in 0 .. MaxRequests : {q \in Requests : target'[q] # 0} = 1 .. k
    BY <1>1, <2>2, <2>3
  <2>5. \A q \in Requests : target'[q] = 0 =>
          thread'[q].pc = "idle" /\ answer'[q] = "none" /\ q \notin launched'
    BY <1>2, <1>4, <1>6, <2>1, Identities DEF Inv, Ledger
  <2>6. \A q \in coord'.inflight : answer'[q] = "none" /\ target'[q] # 0
    <3>1. coord.inflight \subseteq Requests
      BY DEF Inv, Typed, CoordType, Coords
    <3>2. QED
      BY <1>1, <1>2, <1>3, <1>5, <1>6, <2>1, <3>1 DEF Inv, Ledger
  <2>7. QED
    BY <1>2, <2>4, <2>5, <2>6 DEF Inv, Ledger
<1>9. Delivery'
  <2>1. r # 0 /\ thread'[0].pc = thread[0].pc
    BY <1>1, <1>4, Identities
  <2>2. \A u \in Threads : /\ thread'[u].inbox = thread[u].inbox /\ thread'[u].held = thread[u].held
                           /\ thread'[u].pc \in Before => thread[u].pc \in Before
    BY <1>1, <1>3, <1>4 DEF Inv, Typed, ThreadType, ThreadStates, Before
  <2>3. QED
    BY <1>5, <2>1, <2>2, Identities DEF Inv, Delivery
<1>10. Shape'
  BY <1>2 DEF Inv, Shape
<1>11. QED
  BY <1>7, <1>8, <1>9, <1>10 DEF Inv

\* A thread that goes on and leaves the coordinator alone.
LEMMA Steady ==
  ASSUME Inv, NEW t \in Threads, thread[t].pc # "idle",
         thread' \in [Threads -> ThreadStates],
         \A u \in Threads : u # t => thread'[u] = thread[u],
         thread'[t].inbox \subseteq thread[t].inbox,
         thread'[t].held \subseteq thread[t].held,
         thread'[t].pc # "idle",
         thread'[t].pc \in Before => thread[t].pc \in Before,
         t = 0 => thread'[t].pc # "fail",
         thread[t].pc \in Driving => thread'[t].pc \in Driving,
         UNCHANGED <<coord, answer, target, launched>>
  PROVE  Ledger' /\ Delivery' /\ CoordType' /\ ThreadType'
<1>1. Delivery' /\ \A r \in Requests : target'[r] = 0 => thread'[r].pc = "idle"
  BY Moves DEF Inv, Typed
<1>2. Ledger'
  BY <1>1, LedgerKept DEF Inv, Typed, CoordType, Coords, AgentType
<1>3. CoordType'
  BY DEF Inv, Typed, CoordType
<1>4. QED
  BY <1>1, <1>2, <1>3 DEF ThreadType

LEMMA ReadRunKeeps == ASSUME Inv, NEW t \in Threads, ReadRun(t) PROVE Inv'
<1>1. /\ thread[t].pc = "read"
      /\ UNCHANGED <<leaf, group, graph, run, coord, jobs, mail, launched, answer, target,
                     late, sweeping, overtaken, faults>>
  BY DEF ReadRun, Step, tree, agents, outside
<1> DEFINE s == [thread[t] EXCEPT
                   !.pc = IF Continuable \/ run.status = "Running" THEN "dispatch" ELSE "fail",
                   !.resumed = (run.status = "Running"), !.outer = run.exec]
<1>2. thread' = [thread EXCEPT ![t] = s]
  BY DEF ReadRun
<1>3. t # 0
  BY <1>1 DEF Inv, Delivery
<1>4. /\ s \in ThreadStates /\ s.pc \in {"dispatch", "fail"}
      /\ s.inbox = thread[t].inbox /\ s.held = thread[t].held
  <2>1. thread[t] \in ThreadStates /\ run.exec \in Executions
    BY DEF Inv, Typed, ThreadType, TreeType, Runs
  <2> DEFINE pc == IF Continuable \/ run.status = "Running" THEN "dispatch" ELSE "fail"
             resumed == run.status = "Running"
  <2>2. pc \in {"dispatch", "fail"} /\ resumed \in BOOLEAN
    OBVIOUS
  <2>3. s = [thread[t] EXCEPT !.pc = pc, !.resumed = resumed, !.outer = run.exec]
    OBVIOUS
  <2> HIDE DEF s, pc, resumed
  <2>4. QED
    BY <2>1, <2>2, <2>3 DEF ThreadStates, Steps
<1> HIDE DEF s
<1>5. /\ thread' \in [Threads -> ThreadStates] /\ thread'[t] = s
      /\ \A u \in Threads : u # t => thread'[u] = thread[u]
  BY <1>2, <1>4 DEF Inv, Typed, ThreadType
<1>6. Ledger' /\ Delivery' /\ CoordType' /\ ThreadType'
  BY <1>1, <1>3, <1>4, <1>5, Steady DEF Before, Driving
<1>7. TreeType' /\ AgentType' /\ RequestType' /\ FlagType' /\ Shape'
  BY <1>1 DEF Inv, Typed, TreeType, AgentType, RequestType, FlagType, Shape
<1>8. QED
  BY <1>6, <1>7 DEF Inv, Typed

LEMMA DispatchKeeps == ASSUME Inv, NEW t \in Threads, Dispatch(t) PROVE Inv'
<1>1. /\ thread[t].pc = "dispatch"
      /\ UNCHANGED <<leaf, group, graph, run, jobs, mail, launched, answer, target,
                     late, sweeping, overtaken, faults>>
  BY DEF Dispatch, Step, tree, agents, outside
<1>2. t # 0
  BY <1>1 DEF Inv, Delivery
<1>3. TreeType' /\ AgentType' /\ RequestType' /\ FlagType' /\ Shape'
  BY <1>1 DEF Inv, Typed, TreeType, AgentType, RequestType, FlagType, Shape
<1>4. CASE \E pc \in {"fail", "done"} : Goto(t, pc) /\ UNCHANGED coord
  <2>1. PICK pc \in {"fail", "done"} : Goto(t, pc) /\ UNCHANGED coord
    BY <1>4
  <2>2. pc \in Steps
    BY DEF Steps
  <2>3. Ledger' /\ Delivery' /\ CoordType' /\ ThreadType'
    BY <1>1, <1>2, <2>1, <2>2, Goes, Steady DEF Inv, Typed, Before, Driving
  <2>4. QED
    BY <1>3, <2>3 DEF Inv, Typed
<1>5. CASE /\ t \in coord.inflight /\ coord.driver # NoThread
           /\ thread' = [thread EXCEPT ![t].pc = "done", ![coord.driver].inbox = @ \cup {t}]
           /\ UNCHANGED coord
  <2> DEFINE d == coord.driver
  <2>1. d \in Threads /\ thread[d].pc \in Driving /\ d # t /\ t \in Requests
    BY <1>1, <1>5 DEF Inv, Typed, CoordType, Coords, Driving
  <2> HIDE DEF d
  <2>2. thread[t] \in ThreadStates /\ thread[d] \in ThreadStates
    BY <2>1 DEF Inv, Typed, ThreadType
  <2> DEFINE st == [thread[t] EXCEPT !.pc = "done"]
             sd == [thread[d] EXCEPT !.inbox = @ \cup {t}]
  <2>3. /\ st \in ThreadStates /\ st.pc = "done" /\ st.inbox = thread[t].inbox
        /\ st.held = thread[t].held
    BY <2>2 DEF ThreadStates, Steps
  <2>4. /\ sd \in ThreadStates /\ sd.pc = thread[d].pc /\ sd.inbox = thread[d].inbox \cup {t}
        /\ sd.held = thread[d].held
    BY <2>1, <2>2 DEF ThreadStates
  <2>5. thread' = [thread EXCEPT ![t] = st, ![d] = sd]
    BY <1>5, <2>1 DEF d, Inv, Typed, ThreadType
  <2> HIDE DEF st, sd
  <2>6. /\ thread' \in [Threads -> ThreadStates] /\ thread'[t] = st /\ thread'[d] = sd
        /\ \A u \in Threads : u \notin {t, d} => thread'[u] = thread[u]
    BY <2>1, <2>3, <2>4, <2>5 DEF Inv, Typed, ThreadType
  <2>7. \A u \in Threads : /\ thread'[u].inbox \subseteq thread[u].inbox \cup {t}
                           /\ thread'[u].held = thread[u].held
                           /\ thread'[u].pc = IF u = t THEN "done" ELSE thread[u].pc
    BY <2>3, <2>4, <2>6
  <2>8. t \notin coord.pending /\ coord.inflight \subseteq Requests
    BY <1>1, <2>1 DEF Inv, Delivery, Before, Typed, CoordType, Coords
  <2>9. Delivery'
    <3>1. thread'[0].pc = thread[0].pc
      BY <1>2, <2>7, Identities
    <3>2. \A r \in Requests : thread'[r].pc \in Before \/ r \in coord.pending =>
            r # t /\ (thread[r].pc \in Before \/ r \in coord.pending)
      BY <2>7, <2>8, Identities DEF Before
    <3>3. \A r \in Requests : thread'[r].pc \in Before \/ r \in coord.pending =>
            \A u \in Threads : r \notin thread'[u].inbox /\ r \notin thread'[u].held
      BY <2>7, <3>2 DEF Inv, Delivery
    <3>4. \A r \in Requests : thread'[r].pc \in Before => r \notin coord.pending
      BY <2>7, Identities DEF Inv, Delivery, Before
    <3>5. coord' = coord
      BY <1>5
    <3>6. QED
      BY <3>1, <3>3, <3>4, <3>5 DEF Inv, Delivery
  <2>10. Ledger'
    <3>1. \A r \in Requests : target'[r] = 0 => thread'[r].pc = "idle"
      BY <1>1, <2>7, Identities DEF Inv, Ledger
    <3>2. QED
      BY <1>1, <1>5, <2>8, <3>1, LedgerKept DEF Inv, Typed, AgentType
  <2>11. CoordType'
    BY <1>5, <2>1, <2>7 DEF d, Inv, Typed, CoordType
  <2>12. QED
    BY <1>3, <2>6, <2>9, <2>10, <2>11 DEF Inv, Typed, ThreadType
<1>6. CASE /\ t \in coord.inflight /\ coord.driver = NoThread
           /\ coord' = [coord EXCEPT !.pending = @ \cup {t}] /\ Goto(t, "done")
  <2>1. coord' \in Coords /\ coord'.driver = NoThread /\ coord'.inflight = coord.inflight
        /\ coord'.pending = coord.pending \cup {t} /\ coord.inflight \subseteq Requests
    BY <1>6 DEF Inv, Typed, CoordType, Coords
  <2>2. /\ thread' \in [Threads -> ThreadStates] /\ thread'[t].pc = "done"
        /\ \A u \in Threads : /\ thread'[u].inbox = thread[u].inbox
                              /\ thread'[u].held = thread[u].held
                              /\ u # t => thread'[u].pc = thread[u].pc
    BY <1>6, Goes DEF Inv, Typed, Steps
  <2>3. CoordType'
    BY <1>6, <2>1, Identities DEF Inv, Typed, CoordType
  <2>4. Ledger'
    <3>1. \A r \in Requests : target'[r] = 0 => thread'[r].pc = "idle"
      BY <1>1, <2>2, Identities DEF Inv, Ledger
    <3>2. QED
      BY <1>1, <2>1, <3>1, LedgerKept DEF Inv, Typed, AgentType
  <2>5. Delivery'
    <3>1. thread'[0].pc = thread[0].pc
      BY <1>2, <2>2, Identities
    <3>2. \A r \in Requests : thread'[r].pc \in Before => r # t /\ thread[r].pc \in Before
      BY <2>2, Identities DEF Before
    <3>3. \A r \in Requests : thread'[r].pc \in Before \/ r \in coord'.pending =>
            thread[r].pc \in Before \/ r \in coord.pending
      BY <1>1, <2>1, <3>2 DEF Before
    <3>4. \A r \in Requests : thread'[r].pc \in Before => r \notin coord'.pending
      BY <2>1, <3>2 DEF Inv, Delivery
    <3>5. QED
      BY <2>2, <3>1, <3>3, <3>4 DEF Inv, Delivery
  <2>6. QED
    BY <1>3, <2>2, <2>3, <2>4, <2>5 DEF Inv, Typed, ThreadType
<1>7. CASE coord' = [coord EXCEPT !.starting = TRUE] /\ Goto(t, "rearm")
  <2>1. coord' \in Coords /\ coord'.driver = coord.driver /\ coord'.inflight = coord.inflight
        /\ coord'.pending = coord.pending /\ coord.inflight \subseteq Requests
    BY <1>7 DEF Inv, Typed, CoordType, Coords
  <2>2. /\ thread' \in [Threads -> ThreadStates] /\ thread'[t].pc = "rearm"
        /\ thread'[t].inbox = thread[t].inbox /\ thread'[t].held = thread[t].held
        /\ \A u \in Threads : u # t => thread'[u] = thread[u]
    BY <1>7, Goes DEF Inv, Typed, Steps
  <2>3. Delivery' /\ \A r \in Requests : target'[r] = 0 => thread'[r].pc = "idle"
    BY <1>1, <1>2, <2>1, <2>2, Moves DEF Inv, Typed, Before
  <2>4. Ledger'
    BY <1>1, <2>1, <2>3, LedgerKept DEF Inv, Typed, AgentType
  <2>5. CoordType'
    BY <1>1, <2>1, <2>2 DEF Inv, Typed, CoordType, Driving
  <2>6. QED
    BY <1>3, <2>2, <2>3, <2>4, <2>5 DEF Inv, Typed, ThreadType
<1>8. QED
  BY <1>4, <1>5, <1>6, <1>7 DEF Dispatch

LEMMA RearmKeeps == ASSUME Inv, NEW t \in Threads, Rearm(t) PROVE Inv'
<1>1. /\ thread[t].pc = "rearm"
      /\ UNCHANGED <<leaf, group, graph, coord, jobs, mail, launched, answer, target,
                     late, sweeping, overtaken, faults>>
  BY DEF Rearm, Step, tree, agents, outside
<1>2. t # 0
  BY <1>1 DEF Inv, Delivery
<1>3. AgentType' /\ RequestType' /\ FlagType' /\ Shape'
  BY <1>1 DEF Inv, Typed, AgentType, RequestType, FlagType, Shape
<1>4. run' = run \/ run' = [status |-> "Running", why |-> "none", exec |-> t]
  BY DEF Rearm
<1>5. TreeType'
  BY <1>1, <1>4, Identities DEF Inv, Typed, TreeType, Runs, Reasons
<1>6. CASE \E pc \in {"enter", "done", "fail"} : Goto(t, pc)
  <2>1. PICK pc \in {"enter", "done", "fail"} : Goto(t, pc)
    BY <1>6
  <2>2. pc \in Steps
    BY DEF Steps
  <2>3. Ledger' /\ Delivery' /\ CoordType' /\ ThreadType'
    BY <1>1, <1>2, <2>1, <2>2, Goes, Steady DEF Inv, Typed, Before, Driving
  <2>4. QED
    BY <1>3, <1>5, <2>3 DEF Inv, Typed
<1>7. CASE thread' = [thread EXCEPT ![t].pc = "enter", ![t].outer = t]
  <2> DEFINE s == [thread[t] EXCEPT !.pc = "enter", !.outer = t]
  <2>1. /\ s \in ThreadStates /\ s.pc = "enter"
        /\ s.inbox = thread[t].inbox /\ s.held = thread[t].held
    <3>1. thread[t] \in ThreadStates
      BY DEF Inv, Typed, ThreadType
    <3>2. "enter" \in Steps /\ t \in Executions
      BY Identities DEF Steps
    <3>3. QED
      BY <3>1, <3>2 DEF ThreadStates
  <2>2. thread' = [thread EXCEPT ![t] = s]
    BY <1>7
  <2> HIDE DEF s
  <2>3. /\ thread' \in [Threads -> ThreadStates] /\ thread'[t] = s
        /\ \A u \in Threads : u # t => thread'[u] = thread[u]
    BY <2>1, <2>2 DEF Inv, Typed, ThreadType
  <2>4. Ledger' /\ Delivery' /\ CoordType' /\ ThreadType'
    BY <1>1, <1>2, <2>1, <2>3, Steady DEF Before, Driving
  <2>5. QED
    BY <1>3, <1>5, <2>4 DEF Inv, Typed
<1>8. QED
  BY <1>6, <1>7 DEF Rearm

LEMMA EnterKeeps == ASSUME Inv, NEW t \in Threads, Enter(t) PROVE Inv'
<1>1. /\ thread[t].pc = "enter"
      /\ UNCHANGED <<run, coord, jobs, mail, launched, answer, target,
                     late, sweeping, overtaken, faults>>
  BY DEF Enter, Step, agents, outside
<1>2. t # 0
  BY <1>1 DEF Inv, Delivery
<1>3. AgentType' /\ RequestType' /\ FlagType'
  BY <1>1 DEF Inv, Typed, AgentType, RequestType, FlagType
<1>4. CASE Goto(t, "returned") /\ UNCHANGED tree
  <2>1. Ledger' /\ Delivery' /\ CoordType' /\ ThreadType'
    BY <1>1, <1>2, <1>4, Known, Goes, Steady DEF Inv, Typed, Before, Driving
  <2>2. TreeType' /\ Shape'
    BY <1>1, <1>4 DEF Inv, Typed, TreeType, Shape, tree
  <2>3. QED
    BY <1>3, <2>1, <2>2 DEF Inv, Typed
<1>5. CASE thread' = [thread EXCEPT ![t].pc = "after", ![t].result = "stopped"] /\ UNCHANGED tree
  <2> DEFINE s == [thread[t] EXCEPT !.pc = "after", !.result = "stopped"]
  <2>1. /\ s \in ThreadStates /\ s.pc = "after"
        /\ s.inbox = thread[t].inbox /\ s.held = thread[t].held
    BY DEF Inv, Typed, ThreadType, ThreadStates, Steps, Reasons
  <2>2. thread' = [thread EXCEPT ![t] = s]
    BY <1>5
  <2> HIDE DEF s
  <2>3. /\ thread' \in [Threads -> ThreadStates] /\ thread'[t] = s
        /\ \A u \in Threads : u # t => thread'[u] = thread[u]
    BY <2>1, <2>2 DEF Inv, Typed, ThreadType
  <2>4. Ledger' /\ Delivery' /\ CoordType' /\ ThreadType'
    BY <1>1, <1>2, <2>1, <2>3, Steady DEF Before, Driving
  <2>5. TreeType' /\ Shape'
    BY <1>1, <1>5 DEF Inv, Typed, TreeType, Shape, tree
  <2>6. QED
    BY <1>3, <2>4, <2>5 DEF Inv, Typed
<1>6. CASE /\ t \in coord.inflight /\ leaf[target[t]].status = "Paused"
           /\ leaf' = [leaf EXCEPT ![target[t]] = Ready(t)]
           /\ graph' = GraphIs("Running") /\ UNCHANGED group
           /\ thread' = [thread EXCEPT ![t].pc = "register", ![t].held = {t}]
  <2> DEFINE s == [thread[t] EXCEPT !.pc = "register", !.held = {t}]
  <2>1. t \in Requests /\ t \notin coord.pending
    BY <1>1, <1>6 DEF Inv, Typed, CoordType, Coords, Delivery, Before
  <2>2. /\ s \in ThreadStates /\ s.pc = "register"
        /\ s.inbox = thread[t].inbox /\ s.held = {t}
    BY <2>1 DEF Inv, Typed, ThreadType, ThreadStates, Steps
  <2>3. thread' = [thread EXCEPT ![t] = s]
    BY <1>6
  <2> HIDE DEF s
  <2>4. /\ thread' \in [Threads -> ThreadStates] /\ thread'[t] = s
        /\ \A u \in Threads : u # t => thread'[u] = thread[u]
    BY <2>2, <2>3 DEF Inv, Typed, ThreadType
  <2>5. TreeType'
    <3>1. Ready(t) \in GoodLeaf
      BY GoodLeaves, Identities
    <3>2. leaf' \in Trees
      BY <1>6, <3>1 DEF Inv, Typed, TreeType, Trees
    <3>3. QED
      BY <1>1, <1>6, <3>2, GraphValues DEF Inv, Typed, TreeType
  <2>6. Shape'
    <3>1. \A l \in Leaves : leaf'[l] = IF l = target[t] THEN Ready(t) ELSE leaf[l]
      BY <1>6 DEF Inv, Typed, TreeType, Trees
    <3>2. \A l \in Leaves : leaf[l].status \in {"absent", "Completed"} => leaf'[l] = leaf[l]
      BY <1>6, <3>1
    <3>3. QED
      BY <1>6, <3>2, ShapeKept DEF Inv
  <2>7. CoordType'
    BY <1>1, <2>4 DEF Inv, Typed, CoordType, Driving
  <2>8. Ledger'
    <3>1. \A r \in Requests : target'[r] = 0 => thread'[r].pc = "idle"
      BY <1>1, <2>4, Identities DEF Inv, Ledger
    <3>2. QED
      BY <1>1, <3>1, LedgerKept DEF Inv, Typed, AgentType, CoordType, Coords
  <2>9. Delivery'
    <3>1. thread'[0].pc = thread[0].pc
      BY <1>2, <2>4, Identities
    <3>2. \A r \in Requests : thread'[r].pc \in Before => r # t /\ thread[r].pc \in Before
      BY <2>2, <2>4, Identities DEF Before
    <3>3. \A r \in Requests : thread'[r].pc \in Before \/ r \in coord.pending =>
            r # t /\ (thread[r].pc \in Before \/ r \in coord.pending)
      BY <2>1, <3>2
    <3>4. \A u \in Threads : /\ thread'[u].inbox = thread[u].inbox
                             /\ thread'[u].held \subseteq thread[u].held \cup {t}
      BY <2>2, <2>4
    <3>5. \A r \in Requests : thread'[r].pc \in Before \/ r \in coord.pending =>
            \A u \in Threads : r \notin thread'[u].inbox /\ r \notin thread'[u].held
      BY <3>3, <3>4 DEF Inv, Delivery
    <3>6. QED
      BY <1>1, <3>1, <3>2, <3>5 DEF Inv, Delivery
  <2>10. QED
    BY <1>3, <2>4, <2>5, <2>6, <2>7, <2>8, <2>9 DEF Inv, Typed, ThreadType
<1>7. QED
  BY <1>4, <1>5, <1>6 DEF Enter

-----------------------------------------------------------------------------
(* The driver.                                                             *)

LEMMA RegisterKeeps == ASSUME Inv, NEW t \in Threads, Register(t) PROVE Inv'
<1>1. /\ thread[t].pc = "register"
      /\ UNCHANGED <<leaf, group, graph, run, jobs, mail, launched, answer, target,
                     late, sweeping, overtaken, faults>>
  BY DEF Register, Step, tree, agents, outside
<1>2. TreeType' /\ AgentType' /\ RequestType' /\ FlagType' /\ Shape'
  BY <1>1 DEF Inv, Typed, TreeType, AgentType, RequestType, FlagType, Shape
<1>3. CASE Goto(t, "returned") /\ UNCHANGED coord
  <2>1. Ledger' /\ Delivery' /\ CoordType' /\ ThreadType'
    BY <1>1, <1>3, Known, Goes, Steady DEF Inv, Typed, Before, Driving
  <2>2. QED
    BY <1>2, <2>1 DEF Inv, Typed
<1>4. CASE /\ coord' = [coord EXCEPT !.driver = t, !.starting = FALSE, !.pending = {}]
           /\ thread' = [thread EXCEPT ![t].pc = "pass", ![t].inbox = coord.pending]
  <2> DEFINE s == [thread[t] EXCEPT !.pc = "pass", !.inbox = coord.pending]
  <2>1. coord' \in Coords /\ coord'.driver = t /\ coord'.inflight = coord.inflight
        /\ coord'.pending = {} /\ coord.inflight \subseteq Requests /\ coord.pending \subseteq Requests
    BY <1>4 DEF Inv, Typed, CoordType, Coords
  <2>2. /\ s \in ThreadStates /\ s.pc = "pass"
        /\ s.inbox = coord.pending /\ s.held = thread[t].held
    <3>1. thread[t] \in ThreadStates
      BY DEF Inv, Typed, ThreadType
    <3>2. "pass" \in Steps
      BY DEF Steps
    <3>3. QED
      BY <2>1, <3>1, <3>2 DEF ThreadStates
  <2>3. thread' = [thread EXCEPT ![t] = s]
    BY <1>4
  <2> HIDE DEF s
  <2>4. /\ thread' \in [Threads -> ThreadStates] /\ thread'[t] = s
        /\ \A u \in Threads : u # t => thread'[u] = thread[u]
    BY <2>2, <2>3 DEF Inv, Typed, ThreadType
  <2>5. CoordType'
    BY <2>1, <2>2, <2>4 DEF CoordType, Driving
  <2>6. Ledger'
    <3>1. \A r \in Requests : target'[r] = 0 => thread'[r].pc = "idle"
      BY <1>1, <2>4, Identities DEF Inv, Ledger
    <3>2. QED
      BY <1>1, <2>1, <3>1, LedgerKept DEF Inv, Typed, AgentType
  <2>7. Delivery'
    <3>1. thread'[0].pc \notin {"read", "dispatch", "rearm", "enter", "fail"}
      BY <2>2, <2>4, Identities DEF Inv, Delivery
    <3>2. \A r \in Requests : thread'[r].pc \in Before => thread[r].pc \in Before
      BY <2>2, <2>4, Identities DEF Before
    <3>3. \A u \in Threads : /\ thread'[u].inbox \subseteq thread[u].inbox \cup coord.pending
                             /\ thread'[u].held = thread[u].held
      BY <2>2, <2>4
    <3>4. \A r \in Requests : thread'[r].pc \in Before =>
            \A u \in Threads : r \notin thread'[u].inbox /\ r \notin thread'[u].held
      BY <3>2, <3>3 DEF Inv, Delivery
    <3>5. QED
      BY <2>1, <3>1, <3>4 DEF Delivery
  <2>8. QED
    BY <1>2, <2>4, <2>5, <2>6, <2>7 DEF Inv, Typed, ThreadType
<1>5. QED
  BY <1>3, <1>4 DEF Register

\* The tree and the requests in the hands of a driver once it has applied what
\* was sent to it, and the tree once the ready leaves are launched.
TreeNow(t) == Refreshed(Rearmed(t))
HeldNow(t) == thread[t].held \cup Taken(t)
GoneNow(t) == Revoked(TreeNow(t), HeldNow(t))
StartedNow(t) == ReadyToLaunch(TreeNow(t)) \ GoneNow(t)
ClaimsNow(t) == {RequestOf(HeldNow(t), l) : l \in StartedNow(t)} \ {None}
NextTree(t) == Launched(TreeNow(t), GoneNow(t))

\* Leaves that do not exist, and completed ones, stay as they are.
Respects(tr) == \A l \in Leaves : leaf[l].status \in {"absent", "Completed"} => tr[l] = leaf[l]

LEMMA RefreshedRespects ==
  ASSUME NEW tr \in Trees
  PROVE  \A l \in Leaves : tr[l].status # "Pending" => Refreshed(tr)[l] = tr[l]
  BY DEF Refreshed, Trees

LEMMA TakenAreSent ==
  ASSUME Inv, NEW t \in Threads
  PROVE  /\ Taken(t) \subseteq thread[t].inbox /\ Refused(t) \subseteq thread[t].inbox
         /\ Taken(t) \subseteq coord.inflight /\ Refused(t) \subseteq coord.inflight
         /\ HeldNow(t) \subseteq Requests
         /\ HeldNow(t) \subseteq thread[t].held \cup thread[t].inbox
<1>1. thread[t].held \subseteq Requests /\ thread[t].inbox \subseteq Requests
  BY DEF Inv, Typed, ThreadType, ThreadStates
<1>2. QED
  BY <1>1 DEF Taken, Refused, HeldNow

LEMMA PassTrees ==
  ASSUME Inv, NEW t \in Threads
  PROVE  /\ TreeNow(t) \in Trees /\ NextTree(t) \in Trees
         /\ Respects(NextTree(t))
         /\ \A l \in StartedNow(t) : NextTree(t)[l].exec \in Executions \ {None}
<1>1. leaf \in Trees /\ Rearmed(t) \in Trees
  BY RearmedType DEF Inv, Typed, TreeType
<1>2. TreeNow(t) \in Trees
  BY <1>1, RefreshedType DEF TreeNow
<1>3. NextTree(t) \in Trees
  BY <1>2, LaunchedType DEF NextTree
<1>4. \A l \in Leaves : leaf[l].status \in {"absent", "Completed"} => Rearmed(t)[l] = leaf[l]
  BY DEF Rearmed, Taken, Fits
<1>5. \A l \in Leaves : leaf[l].status \in {"absent", "Completed"} => TreeNow(t)[l] = leaf[l]
  BY <1>1, <1>4, RefreshedRespects DEF TreeNow
<1>6. GoneNow(t) \subseteq ReadyToLaunch(TreeNow(t))
  BY DEF GoneNow, Revoked
<1>7. Respects(NextTree(t))
  BY <1>5, <1>6 DEF Respects, NextTree, Launched, ReadyToLaunch
<1>8. \A l \in StartedNow(t) : NextTree(t)[l].exec \in Executions \ {None}
  <2> SUFFICES ASSUME NEW l \in StartedNow(t)
               PROVE  NextTree(t)[l].exec \in Executions \ {None}
    OBVIOUS
  <2>1. l \in Leaves /\ l \notin GoneNow(t) /\ l \in ReadyToLaunch(TreeNow(t))
    BY DEF StartedNow, ReadyToLaunch
  <2>2. TreeNow(t)[l].exec \in Executions
    BY <1>2, <2>1 DEF Trees, GoodLeaf
  <2>3. NextTree(t)[l].exec = IF TreeNow(t)[l].exec = None THEN First ELSE TreeNow(t)[l].exec
    BY <2>1 DEF NextTree, Launched
  <2>4. QED
    BY <2>2, <2>3, Identities
<1>9. QED
  BY <1>2, <1>3, <1>7, <1>8

\* Only requests in flight that this driver holds are claimed.
LEMMA ClaimsAreHeld ==
  ASSUME Inv, NEW t \in Threads
  PROVE  ClaimsNow(t) \subseteq coord.inflight /\ ClaimsNow(t) \subseteq HeldNow(t)
<1> SUFFICES ASSUME NEW l \in StartedNow(t), RequestOf(HeldNow(t), l) # None
             PROVE  RequestOf(HeldNow(t), l) \in coord.inflight \cap HeldNow(t)
  BY DEF ClaimsNow
<1>1. l \in ReadyToLaunch(TreeNow(t)) /\ l \notin Revoked(TreeNow(t), HeldNow(t))
  BY DEF StartedNow, GoneNow
<1>2. RequestOf(HeldNow(t), l) \in coord.inflight \cup {None}
  BY <1>1 DEF Revoked
<1>3. RequestOf(HeldNow(t), l) \in HeldNow(t) \cup {None}
  BY RequestHeld, TakenAreSent
<1>4. QED
  BY <1>2, <1>3

LEMMA LookedKeeps ==
  ASSUME Inv, NEW t \in Threads, NEW tr \in Trees, Respects(tr),
         NEW held, held \subseteq Requests, Looked(t, tr, held)
  PROVE  /\ leaf' \in Trees /\ group' \in Groups /\ graph' \in Graphs /\ Shape'
         /\ thread' \in [Threads -> ThreadStates]
         /\ thread'[t].inbox = {} /\ thread'[t].held = held /\ thread'[t].pc \in Driving
         /\ \A u \in Threads : u # t => thread'[u] = thread[u]
<1>1. PICK pc \in Driving, result \in Reasons \cup {"paused", "completed"} :
        thread' = [thread EXCEPT ![t].inbox = {}, ![t].held = held,
                                 ![t].pc = pc, ![t].result = result]
  BY DEF Looked, Driving, Reasons
<1> DEFINE s == [thread[t] EXCEPT !.inbox = {}, !.held = held, !.pc = pc, !.result = result]
<1>2. s \in ThreadStates /\ s.inbox = {} /\ s.held = held /\ s.pc = pc
  <2>1. thread[t] \in ThreadStates
    BY DEF Inv, Typed, ThreadType
  <2>2. pc \in Steps /\ pc # "after"
    BY DEF Driving, Steps
  <2>3. QED
    BY <2>1, <2>2 DEF ThreadStates
<1>3. thread' = [thread EXCEPT ![t] = s]
  BY <1>1
<1> HIDE DEF s
<1>4. /\ thread' \in [Threads -> ThreadStates] /\ thread'[t] = s
      /\ \A u \in Threads : u # t => thread'[u] = thread[u]
  BY <1>2, <1>3 DEF Inv, Typed, ThreadType
<1>5. graph' \in Graphs
  <2>1. Aggregate(tr) \in Reasons
    BY AggregateReason
  <2>2. QED
    BY <2>1, GraphValues DEF Looked
<1>6. CASE leaf' = tr /\ UNCHANGED group
  <2>1. Shape'
    BY <1>6, ShapeKept DEF Inv, Respects
  <2>2. QED
    BY <1>2, <1>4, <1>5, <1>6, <2>1 DEF Inv, Typed, TreeType
<1>7. CASE /\ NextOfGroup(tr) # 0
           /\ leaf' = Refreshed([tr EXCEPT ![NextOfGroup(tr)] = Ready(None)])
           /\ group' = IF NextOfGroup(tr) = Merge THEN "Merging" ELSE "Accepting"
  <2> DEFINE next == NextOfGroup(tr)
             armed == [tr EXCEPT ![next] = Ready(None)]
  <2>1. \/ next = Merge /\ group = "Open"
        \/ next = Acceptance /\ group = "Merging"
    BY <1>7 DEF NextOfGroup
  <2> HIDE DEF next
  <2>2. next \in Leaves /\ Ready(None) \in GoodLeaf
    BY <2>1, Plan, GoodLeaves, Identities
  <2>3. armed \in Trees /\ \A l \in Leaves : l # next => armed[l] = tr[l]
    BY <2>2 DEF Trees
  <2> HIDE DEF armed
  <2>4. leaf' = Refreshed(armed) /\ leaf' \in Trees
    BY <1>7, <2>3, RefreshedType DEF armed, next
  <2>5. \A l \in Leaves : l # next /\ leaf[l].status \in {"absent", "Completed"} =>
          leaf'[l] = leaf[l]
    BY <2>3, <2>4, RefreshedRespects DEF Respects
  <2>6. leaf[Bootstrap].status = "Completed"
        /\ (group = "Open" => leaf[Acceptance].status = "absent")
    BY <2>1 DEF Inv, Shape
  <2>7. leaf'[Bootstrap].status = "Completed"
        /\ (group = "Open" => leaf'[Acceptance].status = "absent")
    BY <2>1, <2>5, <2>6, Plan
  <2>8. group' = IF next = Merge THEN "Merging" ELSE "Accepting"
    BY <1>7 DEF next
  <2>9. Shape' /\ group' \in Groups
    BY <2>1, <2>7, <2>8, Plan DEF Shape, Groups
  <2>10. QED
    BY <1>2, <1>4, <1>5, <2>4, <2>9
<1>8. QED
  BY <1>6, <1>7 DEF Looked

LEMMA PassKeeps == ASSUME Inv, NEW t \in Threads, Pass(t) PROVE Inv'
<1> DEFINE claims == ClaimsNow(t)
           left == HeldNow(t) \ {RequestOf(HeldNow(t), l) : l \in ReadyToLaunch(TreeNow(t))}
<1>1. /\ thread[t].pc = "pass" /\ Looked(t, NextTree(t), left)
      /\ coord' = [coord EXCEPT !.inflight = @ \ (claims \cup Refused(t))]
      /\ answer' = [r \in Requests |-> IF r \in claims \cap coord.inflight THEN "started"
                                       ELSE IF r \in Refused(t) THEN "failed" ELSE answer[r]]
      /\ jobs' = jobs \cup {[leaf |-> l, exec |-> NextTree(t)[l].exec, by |-> t] : l \in StartedNow(t)}
      /\ launched' = launched \cup claims
      /\ UNCHANGED <<run, mail, target, late, sweeping, overtaken, faults>>
  BY DEF Pass, Step, TreeNow, HeldNow, GoneNow, StartedNow, ClaimsNow, NextTree, outside
<1>2. /\ NextTree(t) \in Trees /\ Respects(NextTree(t))
      /\ \A l \in StartedNow(t) : NextTree(t)[l].exec \in Executions \ {None}
      /\ left \subseteq Requests /\ left \subseteq thread[t].held \cup thread[t].inbox
  BY PassTrees, TakenAreSent
<1>3. /\ claims \subseteq coord.inflight /\ Refused(t) \subseteq coord.inflight
      /\ claims \subseteq thread[t].held \cup thread[t].inbox
      /\ Refused(t) \subseteq thread[t].inbox
      /\ coord.inflight \subseteq Requests
  BY ClaimsAreHeld, TakenAreSent DEF Inv, Typed, CoordType, Coords
<1> HIDE DEF claims, left
<1>4. /\ leaf' \in Trees /\ group' \in Groups /\ graph' \in Graphs /\ Shape'
      /\ thread' \in [Threads -> ThreadStates]
      /\ thread'[t].inbox = {} /\ thread'[t].held = left /\ thread'[t].pc \in Driving
      /\ \A u \in Threads : u # t => thread'[u] = thread[u]
  BY <1>1, <1>2, LookedKeeps
<1>5. coord' \in Coords /\ coord'.driver = coord.driver /\ coord'.pending = coord.pending
      /\ coord'.inflight = coord.inflight \ (claims \cup Refused(t))
  BY <1>1, <1>3 DEF Inv, Typed, CoordType, Coords
<1>6. \A r \in coord.pending : r \notin claims /\ r \notin Refused(t) /\ r \notin left
  <2>1. \A r \in coord.pending : r \notin thread[t].held /\ r \notin thread[t].inbox
    BY <1>3 DEF Inv, Typed, CoordType, Delivery
  <2>2. QED
    BY <1>2, <1>3, <2>1
<1>7. Typed'
  <2>1. TreeType'
    BY <1>1, <1>4 DEF Inv, Typed, TreeType
  <2>2. CoordType'
    BY <1>4, <1>5, <1>6 DEF Inv, Typed, CoordType
  <2>3. AgentType'
    <3>1. \A l \in StartedNow(t) : l \in Leaves
      BY DEF StartedNow, ReadyToLaunch
    <3>2. \A l \in StartedNow(t) :
            [leaf |-> l, exec |-> NextTree(t)[l].exec, by |-> t] \in Jobs
      BY <1>2, <3>1 DEF Jobs
    <3>3. QED
      BY <1>1, <1>3, <3>2 DEF Inv, Typed, AgentType
  <2>4. RequestType'
    BY <1>1 DEF Inv, Typed, RequestType, Answers
  <2>5. FlagType'
    BY <1>1 DEF Inv, Typed, FlagType
  <2>6. QED
    BY <1>4, <2>1, <2>2, <2>3, <2>4, <2>5 DEF Typed, ThreadType
<1>8. Ledger'
  <2>1. \E k \in 0 .. MaxRequests : {r \in Requests : target'[r] # 0} = 1 .. k
    BY <1>1 DEF Inv, Ledger
  <2>2. \A r \in coord.inflight : answer[r] = "none" /\ target[r] # 0
    BY DEF Inv, Ledger
  <2>3. \A r \in Requests : target'[r] = 0 =>
          thread'[r].pc = "idle" /\ answer'[r] = "none" /\ r \notin launched'
    <3> SUFFICES ASSUME NEW r \in Requests, target[r] = 0
                 PROVE  thread'[r].pc = "idle" /\ answer'[r] = "none" /\ r \notin launched'
      BY <1>1
    <3>1. thread[r].pc = "idle" /\ answer[r] = "none" /\ r \notin launched
      BY DEF Inv, Ledger
    <3>2. r \notin claims /\ r \notin Refused(t)
      BY <1>3, <2>2
    <3>3. r # t
      BY <1>1, <3>1
    <3>4. QED
      BY <1>1, <1>4, <3>1, <3>2, <3>3, Identities
  <2>4. \A r \in coord'.inflight : answer'[r] = "none" /\ target'[r] # 0
    BY <1>1, <1>3, <1>5, <2>2
  <2>5. \A r \in launched' : answer'[r] \in {"started", "lost"}
    <3>1. \A r \in launched : r \in Requests /\ answer[r] \in {"started", "lost"}
      BY DEF Inv, Ledger, Typed, AgentType
    <3>2. \A r \in launched : r \notin claims /\ r \notin Refused(t)
      BY <1>3, <2>2, <3>1
    <3>3. QED
      BY <1>1, <1>3, <3>1, <3>2
  <2>6. QED
    BY <2>1, <2>3, <2>4, <2>5 DEF Ledger
<1>9. Delivery'
  <2>1. thread'[0].pc \notin {"read", "dispatch", "rearm", "enter", "fail"}
    BY <1>4, Identities DEF Inv, Delivery, Driving
  <2>2. \A r \in Requests : thread'[r].pc \in Before => thread[r].pc \in Before
    BY <1>4, Identities DEF Before, Driving
  <2>3. \A u \in Threads : /\ thread'[u].inbox \subseteq thread[u].inbox
                           /\ thread'[u].held \subseteq thread[u].held \cup thread[u].inbox
    BY <1>2, <1>4
  <2>4. QED
    BY <1>5, <2>1, <2>2, <2>3 DEF Inv, Delivery
<1>10. QED
  BY <1>4, <1>7, <1>8, <1>9 DEF Inv

LEMMA PassSupersededKeeps == ASSUME Inv, NEW t \in Threads, PassSuperseded(t) PROVE Inv'
<1>1. /\ thread[t].pc = "pass"
      /\ thread' = [thread EXCEPT ![t].pc = "drop", ![t].result = "paused"]
      /\ UNCHANGED <<leaf, group, graph, run, coord, jobs, mail, launched, answer, target,
                     late, sweeping, overtaken, faults>>
  BY DEF PassSuperseded, Step, tree, agents, outside
<1> DEFINE s == [thread[t] EXCEPT !.pc = "drop", !.result = "paused"]
<1>2. /\ s \in ThreadStates /\ s.pc = "drop"
      /\ s.inbox = thread[t].inbox /\ s.held = thread[t].held
  BY DEF Inv, Typed, ThreadType, ThreadStates, Steps
<1>3. thread' = [thread EXCEPT ![t] = s]
  BY <1>1
<1> HIDE DEF s
<1>4. /\ thread' \in [Threads -> ThreadStates] /\ thread'[t] = s
      /\ \A u \in Threads : u # t => thread'[u] = thread[u]
  BY <1>2, <1>3 DEF Inv, Typed, ThreadType
<1>5. Ledger' /\ Delivery' /\ CoordType' /\ ThreadType'
  BY <1>1, <1>2, <1>4, Steady DEF Before, Driving
<1>6. TreeType' /\ AgentType' /\ RequestType' /\ FlagType' /\ Shape'
  BY <1>1 DEF Inv, Typed, TreeType, AgentType, RequestType, FlagType, Shape
<1>7. QED
  BY <1>5, <1>6 DEF Inv, Typed

LEMMA NothingCameKeeps == ASSUME Inv, NEW t \in Threads, NothingCame(t) PROVE Inv'
<1>1. /\ thread[t].pc = "wait" /\ Goto(t, "pass")
      /\ UNCHANGED <<leaf, group, graph, run, coord, jobs, mail, launched, answer, target,
                     late, sweeping, overtaken, faults>>
  BY DEF NothingCame, Step, tree, agents, outside
<1>2. Ledger' /\ Delivery' /\ CoordType' /\ ThreadType'
  BY <1>1, Known, Goes, Steady DEF Inv, Typed, Before, Driving
<1>3. TreeType' /\ AgentType' /\ RequestType' /\ FlagType' /\ Shape'
  BY <1>1 DEF Inv, Typed, TreeType, AgentType, RequestType, FlagType, Shape
<1>4. QED
  BY <1>2, <1>3 DEF Inv, Typed

LEMMA TakeResultKeeps == ASSUME Inv, NEW t \in Threads, TakeResult(t) PROVE Inv'
<1>1. /\ thread[t].pc = "wait"
      /\ UNCHANGED <<run, coord, jobs, launched, answer, target, late, sweeping, overtaken, faults>>
  BY DEF TakeResult, Step, outside
<1>2. PICK m \in mail :
        /\ mail' = mail \ {m}
        /\ \/ leaf' = leaf /\ group' = group /\ graph' = graph
           \/ /\ ~Stale(m) /\ m.result # "completed"
              /\ leaf' = [leaf EXCEPT ![m.leaf] = Paused(m.result)] /\ group' = group
              /\ graph' \in {GraphPaused(m.result), GraphIs("Running")}
           \/ /\ ~Stale(m)
              /\ leaf' = Completing(leaf, m.leaf) /\ group' = GroupAfter(m.leaf) /\ graph' = graph
        /\ \E pc \in {"pass", "drop"}, result \in {"none", "paused", "blocked"} :
             thread' = [thread EXCEPT ![t].pc = pc, ![t].result = result]
  BY DEF TakeResult, tree
<1>3. m \in Mails /\ m.leaf \in Leaves /\ m.exec # None
      /\ (m.result # "completed" => m.result \in Reasons)
  BY DEF Inv, Typed, AgentType, Mails, Reasons
<1>4. ~Stale(m) => leaf[m.leaf].status \in {"Ready", "Running"}
  <2>1. leaf[m.leaf] \in GoodLeaf
    BY <1>3 DEF Inv, Typed, TreeType, Trees
  <2>2. QED
    BY <1>3, <2>1 DEF Stale, GoodLeaf
<1>5. leaf' \in Trees /\ group' \in Groups /\ graph' \in Graphs
  <2>1. CASE leaf' = leaf /\ group' = group /\ graph' = graph
    BY <2>1 DEF Inv, Typed, TreeType
  <2>2. CASE /\ m.result # "completed"
             /\ leaf' = [leaf EXCEPT ![m.leaf] = Paused(m.result)] /\ group' = group
             /\ graph' \in {GraphPaused(m.result), GraphIs("Running")}
    <3>1. Paused(m.result) \in GoodLeaf
      BY <1>3, <2>2, GoodLeaves
    <3>2. leaf' \in Trees
      BY <1>3, <2>2, <3>1 DEF Inv, Typed, TreeType, Trees
    <3>3. graph' \in Graphs
      BY <1>3, <2>2, GraphValues
    <3>4. QED
      BY <2>2, <3>2, <3>3 DEF Inv, Typed, TreeType
  <2>3. CASE leaf' = Completing(leaf, m.leaf) /\ group' = GroupAfter(m.leaf) /\ graph' = graph
    BY <1>3, <2>3, CompletingType DEF Inv, Typed, TreeType, GroupAfter, Groups
  <2>4. QED
    BY <1>2, <2>1, <2>2, <2>3
<1>6. Shape'
  <2>1. CASE leaf' = leaf /\ group' = group
    BY <2>1 DEF Inv, Shape
  <2>2. CASE ~Stale(m) /\ leaf' = [leaf EXCEPT ![m.leaf] = Paused(m.result)] /\ group' = group
    <3>1. \A l \in Leaves : leaf[l].status \in {"absent", "Completed"} => leaf'[l] = leaf[l]
      BY <1>4, <2>2 DEF Inv, Typed, TreeType, Trees
    <3>2. QED
      BY <2>2, <3>1, ShapeKept DEF Inv
  <2>3. CASE ~Stale(m) /\ leaf' = Completing(leaf, m.leaf) /\ group' = GroupAfter(m.leaf)
    <3>1. leaf[m.leaf].status \in {"Ready", "Running"}
      BY <1>4, <2>3
    <3>2. \A k \in Leaves : leaf'[k] = IF k = m.leaf THEN Completed
                                       ELSE IF m.leaf = Bootstrap /\ k \in Children
                                       THEN [Absent EXCEPT !.status = "Pending"] ELSE leaf[k]
      BY <2>3 DEF Completing
    <3>3. CASE m.leaf = Bootstrap
      <4>1. group = "absent" /\ group' = "Open"
        BY <2>3, <3>1, <3>3 DEF Inv, Shape, GroupAfter
      <4>2. leaf[Merge].status = "absent" /\ leaf[Acceptance].status = "absent"
        BY <4>1, Plan DEF Inv, Shape
      <4>3. leaf'[Bootstrap] = Completed /\ leaf'[Merge] = leaf[Merge]
            /\ leaf'[Acceptance] = leaf[Acceptance]
        BY <3>2, <3>3, Plan
      <4>4. QED
        BY <4>1, <4>2, <4>3 DEF Shape, Completed
    <3>4. CASE m.leaf # Bootstrap
      <4>1. group # "absent" /\ leaf[Bootstrap].status = "Completed"
        BY <1>3, <3>1, <3>4 DEF Inv, Shape
      <4>2. \A k \in Leaves : k # m.leaf => leaf'[k] = leaf[k]
        BY <3>2, <3>4
      <4>3. leaf'[Bootstrap].status = "Completed"
        BY <3>4, <4>1, <4>2, Plan
      <4>4. group' = IF m.leaf = Acceptance THEN "Closed" ELSE group
        BY <2>3, <3>4 DEF GroupAfter
      <4>5. /\ group' = "Open" => m.leaf # Merge /\ leaf[Merge].status = "absent"
            /\ group' \in {"Open", "Merging"} =>
                 m.leaf # Acceptance /\ leaf[Acceptance].status = "absent"
        BY <3>1, <4>4 DEF Inv, Shape
      <4>6. QED
        BY <4>1, <4>2, <4>3, <4>4, <4>5, Plan DEF Shape
    <3>5. QED
      BY <3>3, <3>4
  <2>4. QED
    BY <1>2, <2>1, <2>2, <2>3
<1>7. PICK pc \in {"pass", "drop"}, result \in {"none", "paused", "blocked"} :
        thread' = [thread EXCEPT ![t].pc = pc, ![t].result = result]
  BY <1>2
<1> DEFINE s == [thread[t] EXCEPT !.pc = pc, !.result = result]
<1>8. /\ s \in ThreadStates /\ s.pc \in {"pass", "drop"}
      /\ s.inbox = thread[t].inbox /\ s.held = thread[t].held
  <2>1. thread[t] \in ThreadStates
    BY DEF Inv, Typed, ThreadType
  <2>2. pc \in Steps /\ result \in Reasons \cup {"paused", "completed"}
    BY DEF Steps, Reasons
  <2>3. QED
    BY <2>1, <2>2 DEF ThreadStates
<1>9. thread' = [thread EXCEPT ![t] = s]
  BY <1>7
<1> HIDE DEF s
<1>10. /\ thread' \in [Threads -> ThreadStates] /\ thread'[t] = s
       /\ \A u \in Threads : u # t => thread'[u] = thread[u]
  BY <1>8, <1>9 DEF Inv, Typed, ThreadType
<1>11. Ledger' /\ Delivery' /\ CoordType' /\ ThreadType'
  BY <1>1, <1>8, <1>10, Steady DEF Before, Driving
<1>12. TreeType' /\ AgentType' /\ RequestType' /\ FlagType'
  BY <1>1, <1>2, <1>5 DEF Inv, Typed, TreeType, AgentType, RequestType, FlagType
<1>13. QED
  BY <1>6, <1>11, <1>12 DEF Inv, Typed

-----------------------------------------------------------------------------
(* The end of a drive.                                                     *)

\* The coordinator forgets everything when its driver leaves.
LEMMA DropKeeps == ASSUME Inv, NEW t \in Threads, Drop(t) PROVE Inv'
<1>1. /\ thread[t].pc = "drop" /\ mail' = {m \in mail : m.by # t}
      /\ UNCHANGED <<leaf, group, graph, run, jobs, launched, target, late, sweeping,
                     overtaken, faults>>
  BY DEF Drop, Step, tree, outside
<1>2. TreeType' /\ AgentType' /\ FlagType' /\ Shape'
  BY <1>1 DEF Inv, Typed, TreeType, AgentType, FlagType, Shape
<1>3. coord.inflight \subseteq Requests /\ coord.pending \subseteq coord.inflight
  BY DEF Inv, Typed, CoordType, Coords
<1>4. PICK failed \in SUBSET Requests, ended \in ThreadStates :
        /\ ended = [thread[t] EXCEPT !.pc = "unwind", !.failed = failed, !.inbox = {}, !.held = {}]
        /\ thread' = [thread EXCEPT ![t] = ended]
  <2> DEFINE after(failed) ==
               [thread[t] EXCEPT !.pc = "unwind", !.failed = failed, !.inbox = {}, !.held = {}]
  <2>1. thread[t] \in ThreadStates /\ "unwind" \in Steps
    BY DEF Inv, Typed, ThreadType, Steps
  <2>2. \A failed \in SUBSET Requests : after(failed) \in ThreadStates
    BY <2>1 DEF ThreadStates
  <2>3. thread[t].failed \in SUBSET Requests
        /\ after(thread[t].failed) = [thread[t] EXCEPT !.pc = "unwind", !.inbox = {}, !.held = {}]
    BY <2>1 DEF ThreadStates
  <2>4. CASE coord.driver = t
    <3>1. thread' = [thread EXCEPT ![t] = after(coord.inflight)]
      BY <2>4 DEF Drop
    <3>2. coord.inflight \in SUBSET Requests /\ after(coord.inflight) \in ThreadStates
      BY <1>3, <2>2
    <3>3. QED
      BY <3>1, <3>2
  <2>5. CASE coord.driver # t
    <3>1. thread' = [thread EXCEPT ![t] = after(thread[t].failed)]
      BY <2>3, <2>5 DEF Drop
    <3>2. QED
      BY <2>2, <2>3, <3>1
  <2>6. QED
    BY <2>4, <2>5
<1> DEFINE s == ended
<1>5. s \in ThreadStates /\ s.pc = "unwind" /\ s.inbox = {} /\ s.held = {}
  BY <1>4 DEF Inv, Typed, ThreadType, ThreadStates
<1>6. thread' = [thread EXCEPT ![t] = s]
  BY <1>4
<1> HIDE DEF s
<1>7. /\ thread' \in [Threads -> ThreadStates] /\ thread'[t] = s
      /\ \A u \in Threads : u # t => thread'[u] = thread[u]
  BY <1>5, <1>6 DEF Inv, Typed, ThreadType
<1>8. /\ coord' \in Coords /\ coord'.pending \subseteq coord'.inflight
      /\ coord'.pending \subseteq coord.pending /\ coord'.inflight \subseteq coord.inflight
      /\ coord'.driver \in Threads => coord'.driver = coord.driver /\ coord.driver # t
      /\ answer' \in [Requests -> Answers]
      /\ \A r \in Requests : r \notin coord.inflight => answer'[r] = answer[r]
      /\ \A r \in coord'.inflight : answer'[r] = answer[r]
  <2>1. CASE coord.driver = t
    <3>1. coord' = [driver |-> NoThread, starting |-> FALSE, pending |-> {}, inflight |-> {}]
          /\ answer' = [r \in Requests |-> IF r \in coord.inflight THEN "failed" ELSE answer[r]]
      BY <2>1 DEF Drop
    <3>2. coord' \in Coords
      BY <3>1 DEF Coords
    <3>3. QED
      BY <3>1, <3>2, Identities DEF Inv, Typed, RequestType, Answers
  <2>2. CASE coord.driver # t
    BY <2>2 DEF Drop, Inv, Typed, CoordType, RequestType
  <2>3. QED
    BY <2>1, <2>2
<1>9. CoordType'
  BY <1>7, <1>8 DEF Inv, Typed, CoordType
<1>10. Delivery' /\ \A r \in Requests : target'[r] = 0 => thread'[r].pc = "idle"
  BY <1>1, <1>5, <1>7, <1>8, Moves DEF Inv, Typed, Before
<1>11. Ledger'
  BY <1>1, <1>3, <1>8, <1>10, LedgerKept DEF Inv, Typed, AgentType
<1>12. RequestType'
  BY <1>1, <1>8 DEF Inv, Typed, RequestType
<1>13. QED
  BY <1>2, <1>7, <1>9, <1>10, <1>11, <1>12 DEF Inv, Typed, ThreadType

\* A live leaf, or a paused one, is paused, and some requests fail with it.
LEMMA HaltKeeps ==
  ASSUME Inv, NEW l \in Leaves, leaf[l].status \notin {"absent", "Completed"}, NEW S,
         PauseLeaves({l}), Failing(S), faults' \in 0 .. MaxFaults,
         UNCHANGED <<group, thread, jobs, mail, launched, target, late, sweeping, overtaken>>
  PROVE  Inv'
<1>1. /\ leaf' \in Trees /\ graph' \in Graphs /\ run' \in Runs
      /\ \A k \in Leaves : leaf'[k] = IF k \in {l} THEN Paused("stopped") ELSE leaf[k]
  BY PauseKeeps DEF Inv, Typed
<1>2. /\ coord' \in Coords /\ coord'.pending \subseteq coord'.inflight
      /\ coord'.driver = coord.driver /\ coord'.inflight \subseteq coord.inflight
      /\ coord'.pending \subseteq coord.pending
      /\ answer' \in [Requests -> Answers]
      /\ \A r \in Requests : r \notin coord.inflight => answer'[r] = answer[r]
      /\ \A r \in coord'.inflight : answer'[r] = answer[r]
  BY FailingKeeps DEF Inv, Typed
<1>3. TreeType' /\ ThreadType' /\ AgentType' /\ RequestType' /\ FlagType'
  BY <1>1, <1>2 DEF Inv, Typed, TreeType, ThreadType, AgentType, RequestType, FlagType
<1>4. CoordType'
  BY <1>2, CoordKept DEF Inv, Typed, CoordType
<1>5. Shape'
  BY <1>1, ShapeKept DEF Inv
<1>6. Ledger'
  <2>1. \A r \in Requests : target'[r] = 0 => thread'[r].pc = "idle"
    BY DEF Inv, Ledger
  <2>2. QED
    BY <1>2, <2>1, LedgerKept DEF Inv, Typed, CoordType, Coords, AgentType
<1>7. Delivery'
  BY <1>2 DEF Inv, Delivery
<1>8. QED
  BY <1>3, <1>4, <1>5, <1>6, <1>7 DEF Inv, Typed

LEMMA PauseNextKeeps ==
  ASSUME Inv, NEW S, PauseNext(S),
         UNCHANGED <<group, thread, jobs, mail, launched, target, late, sweeping, overtaken, faults>>
  PROVE  Inv'
<1>1. PICK l \in HeldBy(S) :
        PauseLeaves({l}) /\ Failing({r \in Requests : target[r] = l})
  BY DEF PauseNext
<1>2. l \in Leaves /\ leaf[l].status \notin {"absent", "Completed"}
  BY DEF HeldBy, Active
<1>3. faults' \in 0 .. MaxFaults
  BY DEF Inv, Typed, FlagType
<1>4. QED
  BY <1>1, <1>2, <1>3, HaltKeeps

LEMMA UnwindKeeps == ASSUME Inv, NEW t \in Threads, Unwind(t) PROVE Inv'
<1>1. /\ thread[t].pc = "unwind"
      /\ UNCHANGED <<group, jobs, mail, launched, target, late, sweeping, overtaken, faults>>
  BY DEF Unwind, Step, agents, outside
<1>2. CASE PauseNext(thread[t].failed) /\ UNCHANGED thread
  BY <1>1, <1>2, PauseNextKeeps
<1>3. CASE ~ (PauseNext(thread[t].failed) /\ UNCHANGED thread)
  <2> DEFINE ended == thread[t].result
             why == IF ended # "paused" THEN ended
                    ELSE IF graph.why = "none" THEN "stopped" ELSE graph.why
             s == [thread[t] EXCEPT !.pc = "after", !.failed = {}, !.result = why]
  <2>1. thread' = [thread EXCEPT ![t] = s] /\ UNCHANGED <<leaf, graph, run, coord, answer>>
    BY <1>3 DEF Unwind
  <2>2. thread[t] \in ThreadStates /\ "after" \in Steps
    BY DEF Inv, Typed, ThreadType, Steps
  <2>3. why \in Reasons \cup {"paused", "completed"} /\ why # "paused"
    BY <2>2 DEF ThreadStates, Inv, Typed, TreeType, Graphs, Reasons
  <2> HIDE DEF why
  <2>4. /\ s \in ThreadStates /\ s.pc = "after"
        /\ s.inbox = thread[t].inbox /\ s.held = thread[t].held
    BY <2>2, <2>3 DEF ThreadStates
  <2> HIDE DEF s
  <2>5. /\ thread' \in [Threads -> ThreadStates] /\ thread'[t] = s
        /\ \A u \in Threads : u # t => thread'[u] = thread[u]
    BY <2>1, <2>4 DEF Inv, Typed, ThreadType
  <2>6. Ledger' /\ Delivery' /\ CoordType' /\ ThreadType'
    BY <1>1, <2>1, <2>4, <2>5, Steady DEF Before, Driving
  <2>7. TreeType' /\ AgentType' /\ RequestType' /\ FlagType' /\ Shape'
    BY <1>1, <2>1 DEF Inv, Typed, TreeType, AgentType, RequestType, FlagType, Shape
  <2>8. QED
    BY <2>6, <2>7 DEF Inv, Typed
<1>4. QED
  BY <1>2, <1>3

LEMMA ConvergeKeeps == ASSUME Inv, NEW t \in Threads, Converge(t) PROVE Inv'
<1>1. /\ thread[t].pc = "converge"
      /\ UNCHANGED <<group, jobs, mail, launched, target, late, sweeping, overtaken, faults>>
  BY DEF Converge, Step, agents, outside
<1>2. CASE PauseNext(thread[t].failed) /\ UNCHANGED thread
  BY <1>1, <1>2, PauseNextKeeps
<1>3. CASE ~ (PauseNext(thread[t].failed) /\ UNCHANGED thread)
  <2> DEFINE s == [thread[t] EXCEPT !.pc = "done", !.failed = {}]
  <2>1. thread' = [thread EXCEPT ![t] = s] /\ UNCHANGED <<leaf, graph, run, coord, answer>>
    BY <1>3 DEF Converge
  <2>2. thread[t] \in ThreadStates /\ "done" \in Steps
    BY DEF Inv, Typed, ThreadType, Steps
  <2>3. /\ s \in ThreadStates /\ s.pc = "done"
        /\ s.inbox = thread[t].inbox /\ s.held = thread[t].held
    BY <2>2 DEF ThreadStates
  <2> HIDE DEF s
  <2>4. /\ thread' \in [Threads -> ThreadStates] /\ thread'[t] = s
        /\ \A u \in Threads : u # t => thread'[u] = thread[u]
    BY <2>1, <2>3 DEF Inv, Typed, ThreadType
  <2>5. Ledger' /\ Delivery' /\ CoordType' /\ ThreadType'
    BY <1>1, <2>1, <2>3, <2>4, Steady DEF Before, Driving
  <2>6. TreeType' /\ AgentType' /\ RequestType' /\ FlagType' /\ Shape'
    BY <1>1, <2>1 DEF Inv, Typed, TreeType, AgentType, RequestType, FlagType, Shape
  <2>7. QED
    BY <2>5, <2>6 DEF Inv, Typed
<1>4. QED
  BY <1>2, <1>3

LEMMA AfterKeeps == ASSUME Inv, NEW t \in Threads, After(t) PROVE Inv'
<1>1. /\ thread[t].pc = "after" /\ Goto(t, "returned")
      /\ UNCHANGED <<leaf, group, graph, coord, jobs, mail, launched, answer, target, late,
                     sweeping, faults>>
  BY DEF After, Step, tree, agents
<1>2. run' \in Runs
  <2>1. CASE run' = run
    BY <2>1 DEF Inv, Typed, TreeType
  <2>2. CASE run' = [status |-> "Completed", why |-> "none", exec |-> None]
    BY <2>2, Identities DEF Runs, Reasons
  <2>3. CASE run' = [status |-> "Paused", why |-> thread[t].result, exec |-> None]
             /\ thread[t].result \in Reasons
    BY <2>3, PausedRuns DEF Inv, Typed, TreeType
  <2>4. thread[t] \in ThreadStates
    BY DEF Inv, Typed, ThreadType
  <2>5. thread[t].result \in Reasons \cup {"completed"}
    BY <1>1, <2>4 DEF ThreadStates
  <2>6. QED
    BY <2>1, <2>2, <2>3, <2>5 DEF After
<1>3. overtaken' \in BOOLEAN
  BY DEF After, NoteOvertaken, Inv, Typed, FlagType
<1>4. Ledger' /\ Delivery' /\ CoordType' /\ ThreadType'
  BY <1>1, Known, Goes, Steady DEF Inv, Typed, Before, Driving
<1>5. TreeType' /\ AgentType' /\ RequestType' /\ FlagType' /\ Shape'
  BY <1>1, <1>2, <1>3 DEF Inv, Typed, TreeType, AgentType, RequestType, FlagType, Shape
<1>6. QED
  BY <1>4, <1>5 DEF Inv, Typed

LEMMA ReturnedKeeps == ASSUME Inv, NEW t \in Threads, Returned(t) PROVE Inv'
<1>1. PICK pc \in {"fail", "done"} : Goto(t, pc) /\ (t = 0 => pc # "fail")
  BY Identities DEF Returned, Inv, Typed, CoordType, Coords
<1>2. /\ thread[t].pc = "returned"
      /\ UNCHANGED <<leaf, group, graph, run, coord, jobs, mail, launched, answer, target,
                     late, sweeping, overtaken, faults>>
  BY DEF Returned, Step, tree, agents, outside
<1>3. Ledger' /\ Delivery' /\ CoordType' /\ ThreadType'
  <2>1. pc \in Steps
    BY DEF Steps
  <2>2. QED
    BY <1>1, <1>2, <2>1, Goes, Steady DEF Inv, Typed, Before, Driving
<1>4. TreeType' /\ AgentType' /\ RequestType' /\ FlagType' /\ Shape'
  BY <1>2 DEF Inv, Typed, TreeType, AgentType, RequestType, FlagType, Shape
<1>5. QED
  BY <1>3, <1>4 DEF Inv, Typed

LEMMA FailKeeps == ASSUME Inv, NEW t \in Threads, Fail(t) PROVE Inv'
<1>1. /\ thread[t].pc = "fail" /\ Failing(Requests)
      /\ UNCHANGED <<leaf, group, graph, run, jobs, mail, launched, target, late, sweeping,
                     overtaken, faults>>
  BY DEF Fail, Step, tree, agents, outside
<1>2. t \in Requests /\ coord.inflight \subseteq Requests
  BY <1>1, Identities DEF Inv, Delivery, Typed, CoordType, Coords
<1> DEFINE s == [thread[t] EXCEPT !.pc = "converge", !.failed = coord.inflight \cup {t}]
<1>3. thread' = [thread EXCEPT ![t] = s]
  BY DEF Fail
<1>4. /\ s \in ThreadStates /\ s.pc = "converge"
      /\ s.inbox = thread[t].inbox /\ s.held = thread[t].held
  <2>1. thread[t] \in ThreadStates /\ "converge" \in Steps
    BY DEF Inv, Typed, ThreadType, Steps
  <2>2. coord.inflight \cup {t} \subseteq Requests
    BY <1>2
  <2>3. QED
    BY <2>1, <2>2 DEF ThreadStates
<1> HIDE DEF s
<1>5. /\ thread' \in [Threads -> ThreadStates] /\ thread'[t] = s
      /\ \A u \in Threads : u # t => thread'[u] = thread[u]
  BY <1>3, <1>4 DEF Inv, Typed, ThreadType
<1>6. /\ coord' \in Coords /\ coord'.pending \subseteq coord'.inflight
      /\ coord'.driver = coord.driver /\ coord'.inflight \subseteq coord.inflight
      /\ coord'.pending \subseteq coord.pending
      /\ answer' \in [Requests -> Answers]
      /\ \A r \in Requests : r \notin coord.inflight => answer'[r] = answer[r]
      /\ \A r \in coord'.inflight : answer'[r] = answer[r]
  BY <1>1, FailingKeeps DEF Inv, Typed
<1>7. Delivery' /\ \A r \in Requests : target'[r] = 0 => thread'[r].pc = "idle"
  BY <1>1, <1>4, <1>5, <1>6, Moves DEF Inv, Typed, Before
<1>8. Ledger'
  BY <1>1, <1>2, <1>6, <1>7, LedgerKept DEF Inv, Typed, AgentType
<1>9. CoordType'
  <2>1. coord.driver \in Threads => thread'[coord.driver].pc \in Driving
    BY <1>1, <1>5 DEF Inv, Typed, CoordType, Driving
  <2>2. QED
    BY <1>6, <2>1, CoordKept DEF Inv, Typed
<1>10. TreeType' /\ AgentType' /\ RequestType' /\ FlagType' /\ Shape'
  BY <1>1, <1>6 DEF Inv, Typed, TreeType, AgentType, RequestType, FlagType, Shape
<1>11. QED
  BY <1>5, <1>7, <1>8, <1>9, <1>10 DEF Inv, Typed, ThreadType

-----------------------------------------------------------------------------
(* Agents, stops, timeouts and crashes.                                    *)

LEMMA JobEndsKeeps == ASSUME Inv, NEW j \in jobs, JobEnds(j) PROVE Inv'
<1>1. PICK result \in {"completed", "stopped", "blocked"}, error \in BOOLEAN :
        mail' \in {mail, mail \cup {[leaf |-> j.leaf, exec |-> j.exec, by |-> j.by,
                                     result |-> result, error |-> error]}}
  BY DEF JobEnds
<1>2. /\ jobs' = jobs \ {j}
      /\ UNCHANGED <<leaf, group, graph, run, coord, thread, launched, answer, target, late,
                     sweeping, overtaken, faults>>
  BY DEF JobEnds, tree, outside
<1>3. [leaf |-> j.leaf, exec |-> j.exec, by |-> j.by, result |-> result, error |-> error] \in Mails
  BY DEF Inv, Typed, AgentType, Jobs, Mails
<1>4. AgentType'
  BY <1>1, <1>2, <1>3 DEF Inv, Typed, AgentType
<1>5. TreeType' /\ CoordType' /\ ThreadType' /\ RequestType' /\ FlagType'
  BY <1>2 DEF Inv, Typed, TreeType, CoordType, ThreadType, RequestType, FlagType
<1>6. Ledger' /\ Delivery' /\ Shape'
  BY <1>2 DEF Inv, Ledger, Delivery, Shape
<1>7. QED
  BY <1>4, <1>5, <1>6 DEF Inv, Typed

LEMMA FaultCounts == ASSUME Inv, NEW kind, Fault(kind) PROVE faults' \in 0 .. MaxFaults
  BY Constants DEF Fault, Inv, Typed, FlagType

LEMMA StopLeafKeeps == ASSUME Inv, NEW l \in Leaves, StopLeaf(l) PROVE Inv'
<1>1. /\ leaf[l].status \notin {"absent", "Completed"} /\ Fault("stop-leaf")
      /\ PauseLeaves({l}) /\ Failing({r \in coord.inflight : target[r] = l})
      /\ UNCHANGED <<group, thread, jobs, mail, launched, target, late, sweeping, overtaken>>
  BY DEF StopLeaf, agents
<1>2. QED
  BY <1>1, FaultCounts, HaltKeeps

LEMMA StopRunKeeps == ASSUME Inv, StopRun PROVE Inv'
<1>1. /\ run' = [status |-> "Paused", why |-> "stopped", exec |-> None] /\ sweeping' = TRUE
      /\ UNCHANGED <<leaf, group, graph, coord, thread, jobs, mail, launched, answer, target,
                     late, overtaken>>
  BY DEF StopRun, tree, agents
<1>2. run' \in Runs /\ faults' \in 0 .. MaxFaults
  <2>1. "stopped" \in Reasons /\ Fault("stop-run")
    BY DEF Reasons, StopRun
  <2>2. QED
    BY <1>1, <2>1, PausedRuns, FaultCounts DEF Inv, Typed, TreeType
<1>3. TreeType' /\ CoordType' /\ ThreadType' /\ AgentType' /\ RequestType' /\ FlagType'
  BY <1>1, <1>2 DEF Inv, Typed, TreeType, CoordType, ThreadType, AgentType, RequestType, FlagType
<1>4. Ledger' /\ Delivery' /\ Shape'
  BY <1>1 DEF Inv, Ledger, Delivery, Shape
<1>5. QED
  BY <1>3, <1>4 DEF Inv, Typed

\* Leaves that do not exist, and completed ones, are not swept.
LEMMA SweptRespects == ASSUME TreeType PROVE Respects(Swept)
  BY DEF Respects, Swept

LEMMA SweepLeavesKeeps == ASSUME Inv, SweepLeaves PROVE Inv'
<1>1. /\ sweeping' = FALSE /\ leaf' = Swept /\ graph' = GraphPaused("stopped")
      /\ UNCHANGED <<group, run, coord, thread, jobs, mail, launched, answer, target, late,
                     overtaken, faults>>
  BY DEF SweepLeaves, agents
<1>2. leaf' \in Trees /\ graph' \in Graphs
  BY <1>1, SweptType, GraphValues DEF Inv, Typed, Reasons
<1>3. Shape'
  BY <1>1, SweptRespects, ShapeKept DEF Inv, Typed, Respects
<1>4. TreeType' /\ CoordType' /\ ThreadType' /\ AgentType' /\ RequestType' /\ FlagType'
  BY <1>1, <1>2 DEF Inv, Typed, TreeType, CoordType, ThreadType, AgentType, RequestType, FlagType
<1>5. Ledger' /\ Delivery'
  BY <1>1 DEF Inv, Ledger, Delivery
<1>6. QED
  BY <1>3, <1>4, <1>5 DEF Inv, Typed

LEMMA TimeoutKeeps == ASSUME Inv, NEW r \in Requests, Timeout(r) PROVE Inv'
<1>1. /\ Fault("timeout") /\ Failing({r}) /\ late' = late \cup {r}
      /\ UNCHANGED <<leaf, group, graph, run, thread, jobs, mail, launched, target, sweeping,
                     overtaken>>
  BY DEF Timeout, tree, agents
<1>2. /\ coord' \in Coords /\ coord'.pending \subseteq coord'.inflight
      /\ coord'.driver = coord.driver /\ coord'.inflight \subseteq coord.inflight
      /\ coord'.pending \subseteq coord.pending
      /\ answer' \in [Requests -> Answers]
      /\ \A q \in Requests : q \notin coord.inflight => answer'[q] = answer[q]
      /\ \A q \in coord'.inflight : answer'[q] = answer[q]
  BY <1>1, FailingKeeps DEF Inv, Typed
<1>3. faults' \in 0 .. MaxFaults
  BY <1>1, FaultCounts
<1>4. TreeType' /\ ThreadType' /\ AgentType' /\ RequestType' /\ FlagType' /\ Shape'
  BY <1>1, <1>2, <1>3
  DEF Inv, Typed, TreeType, ThreadType, AgentType, RequestType, FlagType, Shape
<1>5. CoordType'
  BY <1>1, <1>2, CoordKept DEF Inv, Typed, CoordType
<1>6. Ledger'
  <2>1. \A q \in Requests : target'[q] = 0 => thread'[q].pc = "idle"
    BY <1>1 DEF Inv, Ledger
  <2>2. QED
    BY <1>1, <1>2, <2>1, LedgerKept DEF Inv, Typed, CoordType, Coords, AgentType
<1>7. Delivery'
  BY <1>1, <1>2 DEF Inv, Delivery
<1>8. QED
  BY <1>4, <1>5, <1>6, <1>7 DEF Inv, Typed

LEMMA TimeoutPauseKeeps == ASSUME Inv, NEW r \in Requests, TimeoutPause(r) PROVE Inv'
<1>1. /\ late' = late \ {r}
      /\ run' \in {run, [status |-> "Paused", why |-> "stopped", exec |-> None]}
      /\ overtaken' \in BOOLEAN
      /\ UNCHANGED <<leaf, group, graph, coord, thread, jobs, mail, launched, answer, target,
                     sweeping, faults>>
  BY DEF TimeoutPause, tree, agents, NoteOvertaken, Inv, Typed, FlagType
<1>2. run' \in Runs
  <2>1. "stopped" \in Reasons
    BY DEF Reasons
  <2>2. QED
    BY <1>1, <2>1, PausedRuns DEF Inv, Typed, TreeType
<1>3. TreeType' /\ CoordType' /\ ThreadType' /\ AgentType' /\ RequestType' /\ FlagType'
  BY <1>1, <1>2 DEF Inv, Typed, TreeType, CoordType, ThreadType, AgentType, RequestType, FlagType
<1>4. Ledger' /\ Delivery' /\ Shape'
  BY <1>1 DEF Inv, Ledger, Delivery, Shape
<1>5. QED
  BY <1>3, <1>4 DEF Inv, Typed

LEMMA CrashKeeps == ASSUME Inv, Crash PROVE Inv'
<1>1. /\ Fault("crash")
      /\ coord' = [driver |-> NoThread, starting |-> FALSE, pending |-> {}, inflight |-> {}]
      /\ thread' = [t \in Threads |->
                      IF thread[t].pc = "idle" THEN Idle ELSE [Idle EXCEPT !.pc = "done"]]
      /\ jobs' = {} /\ mail' = {} /\ late' = {} /\ sweeping' = FALSE
      /\ answer' = [r \in Requests |-> IF target[r] # 0 /\ answer[r] = "none" THEN "lost"
                                       ELSE answer[r]]
      /\ UNCHANGED <<group, launched, target, overtaken>>
  BY DEF Crash
<1>2. leaf' \in Trees /\ graph' \in Graphs /\ run' \in Runs /\ Shape'
  <2>1. CASE /\ run' = [status |-> "Paused", why |-> "stopped", exec |-> None]
             /\ leaf' = Swept /\ graph' = GraphPaused("stopped")
    <3>1. "stopped" \in Reasons
      BY DEF Reasons
    <3>2. leaf' \in Trees /\ graph' \in Graphs /\ run' \in Runs
      BY <2>1, <3>1, SweptType, GraphValues, PausedRuns DEF Inv, Typed, TreeType
    <3>3. Shape'
      BY <1>1, <2>1, SweptRespects, ShapeKept DEF Inv, Typed, Respects
    <3>4. QED
      BY <3>2, <3>3
  <2>2. CASE UNCHANGED <<run, leaf, graph>>
    BY <1>1, <2>2 DEF Inv, Typed, TreeType, Shape
  <2>3. QED
    BY <2>1, <2>2 DEF Crash
<1> DEFINE over == [Idle EXCEPT !.pc = "done"]
<1>3. /\ Idle \in ThreadStates /\ Idle.pc = "idle" /\ Idle.inbox = {} /\ Idle.held = {}
      /\ over \in ThreadStates /\ over.pc = "done" /\ over.inbox = {} /\ over.held = {}
  <2>1. "idle" \in Steps /\ "done" \in Steps /\ "none" \in Reasons
    BY DEF Steps, Reasons
  <2>2. Idle \in ThreadStates /\ Idle.pc = "idle" /\ Idle.inbox = {} /\ Idle.held = {}
    BY <2>1, Identities DEF Idle, ThreadStates
  <2>3. over \in ThreadStates /\ over.pc = "done" /\ over.inbox = Idle.inbox /\ over.held = Idle.held
    BY <2>1, <2>2, Identities DEF ThreadStates
  <2>4. QED
    BY <2>2, <2>3
<1>4. /\ thread' \in [Threads -> ThreadStates]
      /\ \A t \in Threads : /\ thread'[t].inbox = {} /\ thread'[t].held = {}
                            /\ thread'[t].pc \in {"idle", "done"}
                            /\ thread[t].pc = "idle" => thread'[t].pc = "idle"
                            /\ thread'[t].pc = "idle" => thread[t].pc = "idle"
  <2>1. thread' = [t \in Threads |-> IF thread[t].pc = "idle" THEN Idle ELSE over]
    BY <1>1
  <2> HIDE DEF over
  <2>2. QED
    BY <1>3, <2>1
<1>5. coord' \in Coords /\ coord'.inflight = {} /\ coord'.pending = {} /\ coord'.driver = NoThread
  BY <1>1 DEF Coords
<1>6. faults' \in 0 .. MaxFaults
  BY <1>1, FaultCounts
<1>7. TreeType' /\ AgentType' /\ RequestType' /\ FlagType' /\ CoordType' /\ ThreadType'
  <2>1. TreeType' /\ AgentType'
    BY <1>1, <1>2 DEF Inv, Typed, TreeType, AgentType
  <2>2. RequestType' /\ FlagType'
    BY <1>1, <1>6 DEF Inv, Typed, RequestType, FlagType, Answers
  <2>3. CoordType' /\ ThreadType'
    BY <1>4, <1>5, Identities DEF CoordType, ThreadType
  <2>4. QED
    BY <2>1, <2>2, <2>3
<1>8. Ledger'
  <2>1. \A r \in Requests : answer'[r] = IF target[r] # 0 /\ answer[r] = "none" THEN "lost"
                                         ELSE answer[r]
    BY <1>1
  <2>2. \A r \in launched : r \in Requests
    BY DEF Inv, Typed, AgentType
  <2>3. \A r \in Requests : target'[r] = 0 =>
          thread'[r].pc = "idle" /\ answer'[r] = "none" /\ r \notin launched'
    BY <1>1, <1>4, <2>1, Identities DEF Inv, Ledger
  <2>4. \A r \in launched' : answer'[r] \in {"started", "lost"}
    BY <1>1, <2>1, <2>2 DEF Inv, Ledger
  <2>5. \E k \in 0 .. MaxRequests : {r \in Requests : target'[r] # 0} = 1 .. k
    BY <1>1 DEF Inv, Ledger
  <2>6. QED
    BY <1>5, <2>3, <2>4, <2>5 DEF Ledger
<1>9. Delivery'
  BY <1>4, <1>5, Identities DEF Delivery
<1>10. QED
  BY <1>2, <1>7, <1>8, <1>9 DEF Inv, Typed

-----------------------------------------------------------------------------
(* The invariant.                                                          *)

LEMMA InitInv == ASSUME Init PROVE Inv
<1> DEFINE start == [Idle EXCEPT !.pc = "register", !.outer = First]
<1>1. /\ leaf = [l \in Leaves |-> IF l = Bootstrap THEN Ready(None) ELSE Absent]
      /\ group = "absent" /\ graph = GraphIs("Running")
      /\ run = [status |-> "Running", why |-> "none", exec |-> First]
      /\ coord = [driver |-> NoThread, starting |-> FALSE, pending |-> {}, inflight |-> {}]
      /\ thread = [t \in Threads |-> IF t = 0 THEN start ELSE Idle]
      /\ jobs = {} /\ mail = {} /\ target = [r \in Requests |-> 0]
      /\ answer = [r \in Requests |-> "none"]
      /\ late = {} /\ sweeping = FALSE /\ launched = {} /\ overtaken = FALSE /\ faults = 0
  BY DEF Init
<1>2. /\ start \in ThreadStates /\ Idle \in ThreadStates
      /\ start.pc = "register" /\ Idle.pc = "idle"
      /\ \A x \in {start, Idle} : x.inbox = {} /\ x.held = {}
  <2>1. {"idle", "register"} \subseteq Steps /\ "none" \in Reasons
    BY DEF Steps, Reasons
  <2>2. Idle \in ThreadStates /\ Idle.pc = "idle" /\ Idle.inbox = {} /\ Idle.held = {}
    BY <2>1, Identities DEF Idle, ThreadStates
  <2>3. start \in ThreadStates /\ start.pc = "register" /\ start.inbox = Idle.inbox /\ start.held = Idle.held
    BY <2>1, <2>2, Identities DEF ThreadStates
  <2>4. QED
    BY <2>2, <2>3
<1> HIDE DEF start
<1>3. TreeType
  <2>1. leaf \in Trees
    BY <1>1, GoodLeaves, Identities DEF Trees
  <2>2. run \in Runs
    BY <1>1, Identities DEF Runs, Reasons
  <2>3. QED
    BY <1>1, <2>1, <2>2, GraphValues DEF TreeType, Groups
<1>4. CoordType /\ ThreadType /\ AgentType /\ RequestType /\ FlagType
  <2>1. CoordType
    BY <1>1, Identities DEF CoordType, Coords
  <2>2. ThreadType /\ AgentType
    BY <1>1, <1>2 DEF ThreadType, AgentType
  <2>3. 0 \in 0 .. Acceptance /\ 0 \in 0 .. MaxFaults
    BY Constants DEF Acceptance
  <2>4. RequestType
    BY <1>1, <2>3 DEF RequestType, Answers
  <2>5. FlagType
    BY <1>1, <2>3 DEF FlagType
  <2>6. QED
    BY <2>1, <2>2, <2>4, <2>5
<1>5. Ledger
  <2>1. {r \in Requests : target[r] # 0} = 1 .. 0
    BY <1>1
  <2>2. \A r \in Requests : thread[r].pc = "idle"
    BY <1>1, <1>2, Identities
  <2>3. QED
    BY <1>1, <2>1, <2>2, Constants DEF Ledger
<1>6. Delivery
  <2>1. thread[0].pc = "register"
    BY <1>1, <1>2, Identities
  <2>2. \A t \in Threads : thread[t].inbox = {} /\ thread[t].held = {}
    BY <1>1, <1>2
  <2>3. QED
    BY <1>1, <2>1, <2>2 DEF Delivery
<1>7. Shape
  BY <1>1, Plan DEF Shape, Absent
<1>8. QED
  BY <1>3, <1>4, <1>5, <1>6, <1>7 DEF Inv, Typed

LEMMA ProgressKeeps == ASSUME Inv, NEW t \in Threads, Progress(t) PROVE Inv'
  BY ReadRunKeeps, DispatchKeeps, RearmKeeps, EnterKeeps, RegisterKeeps, PassKeeps,
     PassSupersededKeeps, TakeResultKeeps, DropKeeps, UnwindKeeps, AfterKeeps, ReturnedKeeps,
     FailKeeps, ConvergeKeeps DEF Progress

LEMMA NextKeeps == ASSUME Inv, [Next]_vars PROVE Inv'
<1>1. CASE Next
  BY <1>1, ContinueKeeps, ProgressKeeps, NothingCameKeeps, JobEndsKeeps, StopLeafKeeps,
     StopRunKeeps, SweepLeavesKeeps, TimeoutKeeps, TimeoutPauseKeeps, CrashKeeps DEF Next
<1>2. CASE UNCHANGED vars
  BY <1>2 DEF vars, Inv, Typed, TreeType, CoordType, ThreadType, AgentType, RequestType,
              FlagType, Ledger, Delivery, Shape
<1>3. QED
  BY <1>1, <1>2

LEMMA Invariance == Spec => []Inv
<1>1. Init => Inv
  BY InitInv
<1>2. Inv /\ [Next]_vars => Inv'
  BY NextKeeps
<1>3. QED
  BY <1>1, <1>2, PTL DEF Spec

\* Type correctness of the driver, the coordinator and the graph they share.
THEOREM TypeCorrect == Spec => []TypeOK
<1>1. Inv => TypeOK
  <2> SUFFICES ASSUME Inv PROVE TypeOK
    OBVIOUS
  <2>1. leaf \in [Leaves -> [status : Statuses, exec : Executions, why : Reasons]]
        /\ \A l \in Leaves : /\ leaf[l].exec # None => leaf[l].status \in {"Ready", "Running"}
                             /\ leaf[l].status = "Running" => leaf[l].exec # None
    BY DEF Inv, Typed, TreeType, Trees, GoodLeaf
  <2>2. thread \in [Threads -> [pc : Steps, outer : Executions, resumed : BOOLEAN,
                    inbox : SUBSET Requests, held : SUBSET Requests,
                    failed : SUBSET Requests, result : Reasons \cup {"paused", "completed"}]]
    BY DEF Inv, Typed, ThreadType, ThreadStates
  <2>3. /\ group \in Groups /\ graph \in Graphs /\ run \in Runs /\ coord \in Coords
        /\ coord.pending \subseteq coord.inflight
        /\ coord.driver \in Threads => thread[coord.driver].pc \in Driving
    BY DEF Inv, Typed, TreeType, CoordType
  <2>4. AgentType /\ RequestType /\ FlagType
    BY DEF Inv, Typed
  <2>5. QED
    BY <2>1, <2>2, <2>3, <2>4
    DEF TypeOK, Groups, Graphs, Runs, Coords, Driving, AgentType, Mails, RequestType, Answers,
        FlagType
<1>2. QED
  BY <1>1, Invariance, PTL

\* The launch of an agent (persist_dynamic_node_running_and_ack) and every way
\* to revoke a continue (fail_dynamic_resume_requests, a stop, a timeout, the
\* end of a driver) compete for one lease: whoever was told that the continue
\* failed never sees its agent start.
THEOREM RevokedNeverLaunched == Spec => []FailedNeverRuns
<1>1. Inv => FailedNeverRuns
  BY DEF Inv, Ledger, FailedNeverRuns
<1>2. QED
  BY <1>1, Invariance, PTL

-----------------------------------------------------------------------------
(* What may happen to a leaf that was paused.                              *)

\* A paused leaf goes on for a request in flight that nobody answered.
GoesOnFor(l) ==
  leaf[l].status = "Paused" /\ leaf'[l].status # "Paused" =>
    \E r \in coord.inflight : target[r] = l /\ leaf'[l].exec = r /\ answer[r] = "none"
Stands == \A l \in Leaves : GoesOnFor(l)

LEMMA UntouchedStands == ASSUME UNCHANGED leaf PROVE Stands
  BY DEF Stands, GoesOnFor

LEMMA SweptStands == ASSUME leaf' = Swept PROVE Stands
  BY DEF Stands, GoesOnFor, Swept, Paused

LEMMA HaltStands == ASSUME NEW l, PauseLeaves({l}) PROVE Stands
  BY DEF Stands, GoesOnFor, PauseLeaves, Paused

LEMMA EnterStands == ASSUME Inv, NEW t \in Threads, Enter(t) PROVE Stands
<1>1. CASE UNCHANGED leaf
  BY <1>1, UntouchedStands
<1>2. CASE t \in coord.inflight /\ leaf' = [leaf EXCEPT ![target[t]] = Ready(t)]
  <2>1. answer[t] = "none"
    BY <1>2 DEF Inv, Ledger
  <2>2. \A l \in Leaves : leaf'[l] = IF l = target[t] THEN Ready(t) ELSE leaf[l]
    BY <1>2 DEF Inv, Typed, TreeType, Trees
  <2>3. QED
    BY <1>2, <2>1, <2>2 DEF Stands, GoesOnFor, Ready
<1>3. QED
  BY <1>1, <1>2 DEF Enter, tree

LEMMA TakeResultStands == ASSUME Inv, NEW t \in Threads, TakeResult(t) PROVE Stands
<1>1. PICK m \in mail :
        \/ UNCHANGED leaf
        \/ leaf' = [leaf EXCEPT ![m.leaf] = Paused(m.result)]
        \/ ~Stale(m) /\ leaf' = Completing(leaf, m.leaf)
  BY DEF TakeResult, tree
<1>2. CASE UNCHANGED leaf
  BY <1>2, UntouchedStands
<1>3. CASE leaf' = [leaf EXCEPT ![m.leaf] = Paused(m.result)]
  BY <1>3 DEF Stands, GoesOnFor, Paused, Inv, Typed, TreeType, Trees
<1>4. CASE ~Stale(m) /\ leaf' = Completing(leaf, m.leaf)
  <2>1. m.leaf \in Leaves /\ m.exec # None
    BY DEF Inv, Typed, AgentType, Mails
  <2>2. leaf[m.leaf] \in GoodLeaf
    BY <2>1 DEF Inv, Typed, TreeType, Trees
  <2>3. leaf[m.leaf].status \in {"Ready", "Running"}
    BY <1>4, <2>1, <2>2 DEF Stale, GoodLeaf
  <2>4. m.leaf = Bootstrap => \A k \in Children : leaf[k].status = "absent"
    BY <2>3, Plan DEF Inv, Shape
  <2>5. \A l \in Leaves : leaf[l].status = "Paused" => leaf'[l] = leaf[l]
    BY <1>4, <2>3, <2>4 DEF Completing
  <2>6. QED
    BY <2>5 DEF Stands, GoesOnFor
<1>5. QED
  BY <1>1, <1>2, <1>3, <1>4

\* What a driver launches of the leaves that were paused was sent to it.
LEMMA NextTreeStands ==
  ASSUME Inv, NEW t \in Threads, NEW l \in Leaves, leaf[l].status = "Paused"
  PROVE  /\ NextTree(t)[l].status \in {"Paused", "Running"}
         /\ NextTree(t)[l].status = "Running" =>
              \E r \in coord.inflight :
                target[r] = l /\ NextTree(t)[l].exec = r /\ answer[r] = "none"
<1>1. Rearmed(t) \in Trees
  BY RearmedType DEF Inv, Typed
<1>2. CASE \E r \in Taken(t) : target[r] = l
  <2> DEFINE r == CHOOSE r \in Taken(t) : target[r] = l
  <2>1. r \in Taken(t) /\ target[r] = l
    BY <1>2
  <2>2. Rearmed(t)[l] = Ready(r)
    BY <1>2 DEF Rearmed
  <2> HIDE DEF r
  <2>3. r \in coord.inflight /\ answer[r] = "none" /\ r # None
    BY <2>1, TakenAreSent, Identities DEF Inv, Typed, CoordType, Coords, Ledger
  <2>4. TreeNow(t)[l] = Ready(r)
    BY <1>1, <2>2, RefreshedRespects DEF TreeNow, Ready
  <2>5. NextTree(t)[l] \in {Paused("stopped"),
                            [status |-> "Running", exec |-> r, why |-> "none"]}
    BY <2>3, <2>4 DEF NextTree, Launched, ReadyToLaunch, Ready
  <2>6. QED
    BY <2>1, <2>3, <2>5 DEF Paused
<1>3. CASE ~ \E r \in Taken(t) : target[r] = l
  <2>1. Rearmed(t)[l] = leaf[l]
    BY <1>3 DEF Rearmed
  <2>2. TreeNow(t)[l] = leaf[l]
    BY <1>1, <2>1, RefreshedRespects DEF TreeNow
  <2>3. NextTree(t)[l].status = "Paused"
    BY <2>2 DEF NextTree, Launched, ReadyToLaunch, Paused
  <2>4. QED
    BY <2>3
<1>4. QED
  BY <1>2, <1>3

LEMMA PassStands == ASSUME Inv, NEW t \in Threads, Pass(t) PROVE Stands
<1> SUFFICES ASSUME NEW l \in Leaves, leaf[l].status = "Paused" PROVE leaf'[l] = NextTree(t)[l]
  BY NextTreeStands DEF Stands, GoesOnFor
<1>1. NextTree(t)[l].status # "Pending" /\ NextTree(t) \in Trees
  BY NextTreeStands, PassTrees
<1>2. \E held : Looked(t, NextTree(t), held)
  BY DEF Pass, TreeNow, HeldNow, GoneNow, NextTree
<1> DEFINE next == NextOfGroup(NextTree(t))
           armed == [NextTree(t) EXCEPT ![next] = Ready(None)]
<1>3. \/ leaf' = NextTree(t)
      \/ next # 0 /\ leaf' = Refreshed(armed)
  BY <1>2 DEF Looked
<1>4. CASE next # 0 /\ leaf' = Refreshed(armed)
  <2>1. \/ next = Merge /\ group = "Open"
        \/ next = Acceptance /\ group = "Merging"
    BY <1>4 DEF NextOfGroup
  <2> HIDE DEF next
  <2>2. leaf[next].status = "absent" /\ next \in Leaves
    BY <2>1, Plan DEF Inv, Shape
  <2>3. armed \in Trees /\ armed[l] = NextTree(t)[l]
    BY <1>1, <2>2, GoodLeaves, Identities DEF Trees
  <2>4. QED
    BY <1>1, <1>4, <2>3, RefreshedRespects
<1>5. QED
  BY <1>3, <1>4

LEMMA ProgressStands == ASSUME Inv, NEW t \in Threads, Progress(t) PROVE Stands
<1>1. CASE ReadRun(t) \/ Dispatch(t) \/ Rearm(t) \/ Register(t) \/ PassSuperseded(t) \/ Drop(t)
           \/ After(t) \/ Returned(t) \/ Fail(t)
  BY <1>1, UntouchedStands
  DEF ReadRun, Dispatch, Rearm, Register, PassSuperseded, Drop, After, Returned, Fail, tree
<1>2. CASE Unwind(t) \/ Converge(t)
  <2>1. UNCHANGED leaf \/ \E l \in Leaves : PauseLeaves({l})
    BY <1>2 DEF Unwind, Converge, PauseNext, HeldBy, Active
  <2>2. QED
    BY <2>1, UntouchedStands, HaltStands
<1>3. QED
  BY <1>1, <1>2, EnterStands, PassStands, TakeResultStands DEF Progress

LEMMA NextStands == ASSUME Inv, Next PROVE Stands
<1>1. CASE \E l \in Leaves : Continue(l)
  BY <1>1, UntouchedStands DEF Continue, tree
<1>2. CASE \E t \in Threads : NothingCame(t)
  BY <1>2, UntouchedStands DEF NothingCame, tree
<1>3. CASE \E j \in jobs : JobEnds(j)
  BY <1>3, UntouchedStands DEF JobEnds, tree
<1>4. CASE \E l \in Leaves : StopLeaf(l)
  BY <1>4, HaltStands DEF StopLeaf
<1>5. CASE StopRun
  BY <1>5, UntouchedStands DEF StopRun, tree
<1>6. CASE SweepLeaves
  BY <1>6, SweptStands DEF SweepLeaves
<1>7. CASE \E r \in Requests : Timeout(r) \/ TimeoutPause(r)
  BY <1>7, UntouchedStands DEF Timeout, TimeoutPause, tree
<1>8. CASE Crash
  BY <1>8, UntouchedStands, SweptStands DEF Crash
<1>9. QED
  BY <1>1, <1>2, <1>3, <1>4, <1>5, <1>6, <1>7, <1>8, ProgressStands DEF Next

\* A leaf the user stopped, or a stop of the run paused, goes on for no late
\* result (apply_dynamic_execution_message), no starting or replaced driver and
\* no continue that was answered already: only for one still in flight.
THEOREM StopHolds == Spec => StopStands
<1>1. Inv /\ [Next]_vars =>
        [\A l \in Leaves :
           leaf[l].status = "Paused" /\ leaf'[l].status # "Paused" =>
             \E r \in coord.inflight : target[r] = l /\ leaf'[l].exec = r /\ answer[r] = "none"]_vars
  BY NextStands DEF Stands, GoesOnFor
<1>2. QED
  BY <1>1, Invariance, PTL DEF Spec, StopStands

-----------------------------------------------------------------------------
(* Who works on the leaves that run.                                       *)

\* no crash between the two halves of a stop of the run (run_pause writes the
\* run first, and a recovery looks at running runs only)
StopsAreWhole == MaxFaults <= 1 \/ "stop-run" \notin Environment \/ "crash" \notin Environment

\* a driver that takes results and may go on launching
Busy == {"pass", "wait"}
\* an agent, or its result, whose driver will still take what it reports
AtWork(j) == thread[j.by].pc \in Busy /\ Current(j.by)
Serves(j, l) == j.leaf = l /\ j.exec = leaf[l].exec /\ AtWork(j)

\* a paused graph has no active leaf, and neither has a run that does not go on
\* unless its leaves are still to be swept
SweepIsFault == sweeping => faults > 0 /\ "stop-run" \in Environment
GraphRests == graph.status = "Paused" => Active(leaf) = {}
RunRests == run.status # "Running" => sweeping \/ overtaken \/ Active(leaf) = {}
Attended ==
  sweeping \/ overtaken \/
    \A l \in Leaves : leaf[l].status = "Running" => \E j \in jobs \cup mail : Serves(j, l)

Watch == SweepIsFault /\ GraphRests /\ RunRests /\ Attended

\* Where no leaf is active there is nobody to watch.
LEMMA RestWatches ==
  ASSUME SweepIsFault', GraphRests', sweeping' \/ overtaken' \/ Active(leaf)' = {}
  PROVE  Watch'
  BY DEF Watch, RunRests, Attended, Active

\* A step that makes no leaf run, while those who work on the running ones
\* go on.
LEMMA WorkGoesOn ==
  ASSUME Watch, SweepIsFault', UNCHANGED <<run, sweeping, overtaken>>,
         graph' = graph \/ graph'.status # "Paused",
         \A l \in Leaves : leaf'[l].status = "Running" => leaf'[l] = leaf[l],
         \/ Active(leaf)' \subseteq Active(leaf)
         \/ run.status = "Running" /\ graph'.status # "Paused",
         \A j \in jobs \cup mail :
           AtWork(j) /\ leaf'[j.leaf].status = "Running" /\ leaf'[j.leaf].exec = j.exec =>
             \E k \in jobs' \cup mail' : k.leaf = j.leaf /\ k.exec = j.exec /\ AtWork(k)'
  PROVE  Watch'
<1>1. GraphRests' /\ RunRests'
  BY DEF Watch, GraphRests, RunRests
<1>2. Attended'
  <2> SUFFICES ASSUME ~sweeping, ~overtaken, NEW l \in Leaves, leaf'[l].status = "Running"
               PROVE  \E k \in jobs' \cup mail' : Serves(k, l)'
    BY DEF Attended
  <2>1. leaf'[l] = leaf[l]
    OBVIOUS
  <2>2. PICK j \in jobs \cup mail : j.leaf = l /\ j.exec = leaf[l].exec /\ AtWork(j)
    BY <2>1 DEF Watch, Attended, Serves
  <2>3. PICK k \in jobs' \cup mail' : k.leaf = j.leaf /\ k.exec = j.exec /\ AtWork(k)'
    BY <2>1, <2>2
  <2>4. QED
    BY <2>1, <2>2, <2>3 DEF Serves
<1>3. QED
  BY <1>1, <1>2 DEF Watch

\* The graph and the agents are left alone, and busy drivers stay busy.
LEMMA QuietWatches ==
  ASSUME Inv, Watch, UNCHANGED <<leaf, graph, run, jobs, sweeping, overtaken>>,
         faults' = faults \/ faults' = faults + 1,
         \A m \in mail : thread[m.by].pc \in Busy => m \in mail',
         \A u \in Threads : thread[u].pc \in Busy /\ Current(u) =>
           thread'[u].pc \in Busy /\ thread'[u].outer = thread[u].outer
  PROVE  Watch'
<1>1. SweepIsFault'
  BY Constants DEF Watch, SweepIsFault, Inv, Typed, FlagType
<1>2. \A j \in jobs \cup mail : j.by \in Threads
  BY DEF Inv, Typed, AgentType, Jobs, Mails
<1>3. \A j \in jobs \cup mail : AtWork(j) => j \in jobs' \cup mail' /\ AtWork(j)'
  BY <1>2 DEF AtWork, Current
<1>4. Active(leaf)' \subseteq Active(leaf)
  BY DEF Active
<1>5. QED
  BY <1>1, <1>3, <1>4, WorkGoesOn

\* The leaves of S are paused, and with the last active leaf the run.
LEMMA HaltWatches ==
  ASSUME Inv, Watch, NEW l \in Leaves, PauseLeaves({l}), SweepIsFault',
         UNCHANGED <<thread, jobs, mail, sweeping, overtaken>>
  PROVE  Watch'
<1> DEFINE next == [k \in Leaves |-> IF k \in {l} THEN Paused("stopped") ELSE leaf[k]]
<1>1. /\ leaf' = next
      /\ Active(next) # {} => graph' = GraphIs("Running") /\ UNCHANGED run
  BY DEF PauseLeaves
<1>2. Active(leaf)' = Active(next)
  BY <1>1 DEF Active
<1>3. CASE Active(next) = {}
  BY <1>2, <1>3, RestWatches DEF GraphRests
<1>4. CASE Active(next) # {}
  <2>1. graph'.status # "Paused" /\ run' = run
    BY <1>1, <1>4 DEF GraphIs
  <2>2. \A k \in Leaves : leaf'[k].status \in {"Ready", "Running"} => leaf'[k] = leaf[k]
    BY <1>1 DEF Paused
  <2>3. Active(leaf)' \subseteq Active(leaf)
    BY <2>2 DEF Active
  <2>4. \A j \in jobs \cup mail : AtWork(j) => AtWork(j)'
    BY <2>1 DEF AtWork, Current
  <2>5. QED
    BY <2>1, <2>2, <2>3, <2>4, WorkGoesOn
<1>5. QED
  BY <1>3, <1>4

LEMMA PauseNextWatches ==
  ASSUME Inv, Watch, NEW S, PauseNext(S), UNCHANGED <<thread, jobs, mail, sweeping, overtaken, faults>>
  PROVE  Watch'
<1>1. PICK l \in HeldBy(S) : PauseLeaves({l})
  BY DEF PauseNext
<1>2. l \in Leaves /\ SweepIsFault'
  BY <1>1 DEF HeldBy, Active, Watch, SweepIsFault
<1>3. QED
  BY <1>1, <1>2, HaltWatches

\* The steps in which a thread goes on and the graph stays as it is.
LEMMA ThreadGoes ==
  ASSUME Inv, Watch, NEW t \in Threads, ~(thread[t].pc \in Busy /\ Current(t)),
         UNCHANGED <<leaf, graph, run, jobs, mail, sweeping, overtaken, faults>>,
         \A u \in Threads : u # t => thread'[u].pc = thread[u].pc /\ thread'[u].outer = thread[u].outer
  PROVE  Watch'
  BY QuietWatches

LEMMA GoingAlone ==
  ASSUME Inv, NEW t \in Threads, NEW s, thread' = [thread EXCEPT ![t] = s]
  PROVE  \A u \in Threads : u # t => thread'[u] = thread[u]
  BY DEF Inv, Typed, ThreadType

LEMMA DispatchWatches == ASSUME Inv, Watch, NEW t \in Threads, Dispatch(t) PROVE Watch'
<1>1. /\ thread[t].pc = "dispatch"
      /\ UNCHANGED <<leaf, graph, run, jobs, mail, sweeping, overtaken, faults>>
      /\ \/ \E pc \in Steps : Goto(t, pc)
         \/ /\ coord.driver # NoThread
            /\ thread' = [thread EXCEPT ![t].pc = "done", ![coord.driver].inbox = @ \cup {t}]
  BY DEF Dispatch, Step, tree, agents, outside, Steps
<1>2. \A u \in Threads : u # t => thread'[u].pc = thread[u].pc /\ thread'[u].outer = thread[u].outer
  <2>1. CASE \E pc \in Steps : Goto(t, pc)
    BY <2>1 DEF Goto, Inv, Typed, ThreadType
  <2>2. CASE coord.driver # NoThread
             /\ thread' = [thread EXCEPT ![t].pc = "done", ![coord.driver].inbox = @ \cup {t}]
    <3>1. coord.driver \in Threads
      BY <2>2 DEF Inv, Typed, CoordType, Coords
    <3>2. \A u \in Threads : thread[u] \in ThreadStates
      BY DEF Inv, Typed, ThreadType
    <3>3. QED
      BY <2>2, <3>1, <3>2 DEF Inv, Typed, ThreadType, ThreadStates
  <2>3. QED
    BY <1>1, <2>1, <2>2
<1>3. QED
  BY <1>1, <1>2, ThreadGoes DEF Busy

LEMMA EnterWatches == ASSUME Inv, Watch, NEW t \in Threads, Enter(t) PROVE Watch'
<1> DEFINE l == target[t]
<1>1. /\ thread[t].pc = "enter" /\ UNCHANGED <<run, jobs, mail, sweeping, overtaken, faults>>
      /\ \/ UNCHANGED <<leaf, graph>>
         \/ /\ Current(t) /\ leaf' = [leaf EXCEPT ![l] = Ready(t)] /\ graph' = GraphIs("Running")
      /\ \E s : thread' = [thread EXCEPT ![t] = s]
  BY DEF Enter, Step, Goto, tree, agents, outside
<1> HIDE DEF l
<1>2. \A u \in Threads : u # t => thread'[u] = thread[u]
  BY <1>1, GoingAlone
<1>3. CASE UNCHANGED <<leaf, graph>>
  BY <1>1, <1>2, <1>3, ThreadGoes DEF Busy
<1>4. CASE Current(t) /\ leaf' = [leaf EXCEPT ![l] = Ready(t)] /\ graph' = GraphIs("Running")
  <2>1. run.status = "Running" /\ graph'.status # "Paused" /\ SweepIsFault'
    BY <1>1, <1>4 DEF Current, GraphIs, Watch, SweepIsFault
  <2>2. \A k \in Leaves : leaf'[k].status = "Running" => leaf'[k] = leaf[k]
    BY <1>4 DEF Ready, Inv, Typed, TreeType, Trees
  <2>3. \A j \in jobs \cup mail : AtWork(j) => AtWork(j)'
    <3>1. \A j \in jobs \cup mail : j.by \in Threads
      BY DEF Inv, Typed, AgentType, Jobs, Mails
    <3>2. QED
      BY <1>1, <1>2, <3>1 DEF AtWork, Current, Busy
  <2>4. QED
    BY <1>1, <2>1, <2>2, <2>3, WorkGoesOn
<1>5. QED
  BY <1>1, <1>3, <1>4

\* What runs after a pass has the agent just started, or ran before.
LEMMA LaunchedOrRan ==
  ASSUME Inv, NEW t \in Threads, NEW l \in Leaves, NextTree(t)[l].status = "Running"
  PROVE  l \in StartedNow(t) \/ NextTree(t)[l] = leaf[l]
<1>1. Rearmed(t) \in Trees /\ TreeNow(t) \in Trees
  BY RearmedType, PassTrees DEF Inv, Typed
<1>2. CASE l \in ReadyToLaunch(TreeNow(t))
  BY <1>2 DEF NextTree, Launched, StartedNow, Paused
<1>3. CASE l \notin ReadyToLaunch(TreeNow(t))
  <2>1. NextTree(t)[l] = TreeNow(t)[l]
    BY <1>3 DEF NextTree, Launched, GoneNow, Revoked
  <2>2. TreeNow(t)[l] = Rearmed(t)[l]
    BY <2>1 DEF TreeNow, Refreshed, Ready
  <2>3. Rearmed(t)[l] = leaf[l]
    BY <2>1, <2>2 DEF Rearmed, Ready
  <2>4. QED
    BY <2>1, <2>2, <2>3
<1>4. QED
  BY <1>2, <1>3

\* A pass that looked on goes on driving, unless no leaf is active any more.
LEMMA LookedWatches ==
  ASSUME Inv, NEW t \in Threads, NEW tr \in Trees, NEW held, Looked(t, tr, held)
  PROVE  \/ Active(leaf)' = {}
         \/ /\ \A l \in Leaves : leaf'[l].status = "Running" => leaf'[l] = tr[l]
            /\ graph'.status # "Paused"
            /\ thread'[t].pc \in Busy /\ thread'[t].outer = thread[t].outer
            /\ \A u \in Threads : u # t => thread'[u] = thread[u]
<1> DEFINE next == NextOfGroup(tr)
           armed == [tr EXCEPT ![next] = Ready(None)]
           go(pc, result) == thread' = [thread EXCEPT ![t].inbox = {}, ![t].held = held,
                                                      ![t].pc = pc, ![t].result = result]
<1>1. \/ /\ leaf' = Refreshed(armed) /\ graph' = GraphIs("Running") /\ go("pass", "none")
      \/ /\ leaf' = tr /\ Done(tr, Exist(tr))
      \/ /\ leaf' = tr /\ graph' = GraphIs("Running") /\ go("wait", "none")
      \/ /\ leaf' = tr /\ Active(tr) = {}
  BY DEF Looked
<1>2. CASE leaf' = tr /\ Done(tr, Exist(tr))
  BY <1>2 DEF Done, Exist, Active
<1>3. CASE leaf' = tr /\ Active(tr) = {}
  BY <1>3 DEF Active
<1>4. ASSUME graph' = GraphIs("Running"), NEW pc \in {"pass", "wait"}, go(pc, "none")
      PROVE  /\ graph'.status # "Paused"
             /\ thread'[t].pc \in Busy /\ thread'[t].outer = thread[t].outer
             /\ \A u \in Threads : u # t => thread'[u] = thread[u]
  <2>1. thread[t] \in ThreadStates /\ thread \in [Threads -> ThreadStates]
    BY DEF Inv, Typed, ThreadType
  <2>2. thread' = [thread EXCEPT ![t] = [thread[t] EXCEPT !.inbox = {}, !.held = held,
                                                         !.pc = pc, !.result = "none"]]
    BY <1>4, <2>1
  <2>3. thread'[t].pc = pc /\ thread'[t].outer = thread[t].outer
    BY <2>1, <2>2 DEF ThreadStates
  <2>4. QED
    BY <1>4, <2>1, <2>2, <2>3 DEF GraphIs, Busy
<1>5. CASE leaf' = Refreshed(armed)
  <2>1. \A l \in Leaves : leaf'[l].status = "Running" => leaf'[l] = armed[l]
    BY <1>5 DEF Refreshed, Ready
  <2>2. \A l \in Leaves : armed[l].status = "Running" => armed[l] = tr[l]
    BY DEF Ready, Trees
  <2>3. QED
    BY <1>1, <1>2, <1>3, <1>4, <2>1, <2>2
<1>6. QED
  BY <1>1, <1>2, <1>3, <1>4, <1>5

\* A pass launches what is ready: each running leaf has the agent just started,
\* or the one it had.
LEMMA PassWatches == ASSUME Inv, Watch, NEW t \in Threads, Pass(t) PROVE Watch'
<1> DEFINE started == {[leaf |-> l, exec |-> NextTree(t)[l].exec, by |-> t] : l \in StartedNow(t)}
<1>1. /\ thread[t].pc = "pass" /\ Current(t) /\ \E held : Looked(t, NextTree(t), held)
      /\ jobs' = jobs \cup started
      /\ UNCHANGED <<run, mail, sweeping, overtaken, faults>>
  BY DEF Pass, Step, TreeNow, HeldNow, GoneNow, StartedNow, NextTree, outside
<1>2. NextTree(t) \in Trees /\ run.status = "Running" /\ SweepIsFault'
  BY <1>1, PassTrees DEF Current, Watch, SweepIsFault
<1>3. CASE Active(leaf)' = {}
  BY <1>2, <1>3, RestWatches DEF GraphRests
<1>4. CASE /\ \A l \in Leaves : leaf'[l].status = "Running" => leaf'[l] = NextTree(t)[l]
           /\ graph'.status # "Paused"
           /\ thread'[t].pc \in Busy /\ thread'[t].outer = thread[t].outer
           /\ \A u \in Threads : u # t => thread'[u] = thread[u]
  <2>1. GraphRests' /\ RunRests'
    BY <1>1, <1>2, <1>4 DEF GraphRests, RunRests
  <2>2. Attended'
    <3> SUFFICES ASSUME ~sweeping, ~overtaken, NEW l \in Leaves, leaf'[l].status = "Running"
                 PROVE  \E k \in jobs' \cup mail' : Serves(k, l)'
      BY <1>1 DEF Attended
    <3>1. NextTree(t)[l].status = "Running" /\ leaf'[l] = NextTree(t)[l]
      BY <1>4
    <3>2. CASE l \in StartedNow(t)
      <4>1. PICK k \in jobs' : k.leaf = l /\ k.exec = leaf'[l].exec /\ k.by = t
        <5>1. [leaf |-> l, exec |-> NextTree(t)[l].exec, by |-> t] \in jobs'
          BY <1>1, <3>2
        <5>2. QED
          BY <3>1, <5>1
      <4>2. AtWork(k)'
        BY <1>1, <1>4, <4>1 DEF AtWork, Current
      <4>3. QED
        BY <4>1, <4>2 DEF Serves
    <3>3. CASE NextTree(t)[l] = leaf[l]
      <4>1. PICK j \in jobs \cup mail : Serves(j, l)
        BY <3>1, <3>3 DEF Watch, Attended
      <4>2. j \in jobs' \cup mail' /\ j.by \in Threads
        BY <1>1 DEF Inv, Typed, AgentType, Jobs, Mails
      <4>3. AtWork(j)'
        BY <1>1, <1>4, <4>1, <4>2 DEF Serves, AtWork, Current
      <4>4. QED
        BY <3>1, <3>3, <4>1, <4>2, <4>3 DEF Serves
    <3>4. QED
      BY <3>1, <3>2, <3>3, LaunchedOrRan
  <2>3. QED
    BY <1>2, <2>1, <2>2 DEF Watch
<1>5. QED
  BY <1>1, <1>2, <1>3, <1>4, LookedWatches

LEMMA PassSupersededWatches ==
  ASSUME Inv, Watch, NEW t \in Threads, PassSuperseded(t) PROVE Watch'
<1>1. /\ ~Current(t) /\ UNCHANGED <<leaf, graph, run, jobs, mail, sweeping, overtaken, faults>>
      /\ thread' = [thread EXCEPT ![t].pc = "drop", ![t].result = "paused"]
  BY DEF PassSuperseded, tree, agents, outside
<1>2. \A u \in Threads : u # t => thread'[u] = thread[u]
  BY <1>1 DEF Inv, Typed, ThreadType
<1>3. QED
  BY <1>1, <1>2, ThreadGoes

\* A result is taken by the driver whose agent it is of.
LEMMA TakeResultWatches == ASSUME Inv, Watch, NEW t \in Threads, TakeResult(t) PROVE Watch'
<1> DEFINE goes(pc, result) == thread' = [thread EXCEPT ![t].pc = pc, ![t].result = result]
<1>1. PICK m \in mail :
        /\ m.by = t /\ mail' = mail \ {m}
        /\ \/ /\ Stale(m) /\ UNCHANGED <<leaf, graph>>
              /\ graph.status # "Paused" => goes("pass", "none")
           \/ /\ ~Stale(m) /\ m.result # "completed"
              /\ leaf' = [leaf EXCEPT ![m.leaf] = Paused(m.result)]
              /\ Active(leaf)' # {} => graph' = GraphIs("Running") /\ goes("pass", "none")
           \/ /\ ~Stale(m) /\ ~Current(t) /\ UNCHANGED <<leaf, graph>> /\ goes("drop", "paused")
           \/ /\ ~Stale(m) /\ leaf' = Completing(leaf, m.leaf) /\ UNCHANGED graph
              /\ goes("pass", "none")
  BY DEF TakeResult, tree, Active
<1>2. /\ thread[t].pc = "wait" /\ UNCHANGED <<run, jobs, sweeping, overtaken, faults>>
  BY DEF TakeResult, Step, outside
<1>3. m.leaf \in Leaves /\ SweepIsFault' /\ leaf \in Trees
  BY <1>2 DEF Inv, Typed, TreeType, AgentType, Mails, Watch, SweepIsFault
<1>4. \A pc, result : goes(pc, result) =>
        /\ thread'[t].pc = pc /\ thread'[t].outer = thread[t].outer
        /\ \A u \in Threads : u # t => thread'[u] = thread[u]
  <2>1. thread[t] \in ThreadStates /\ thread \in [Threads -> ThreadStates]
    BY DEF Inv, Typed, ThreadType
  <2>2. QED
    BY <2>1 DEF ThreadStates
<1>5. CASE Active(leaf)' = {}
  BY <1>3, <1>5, RestWatches DEF GraphRests
<1> HIDE DEF goes
\* every other agent and result is where it was
<1>6. ASSUME goes("pass", "none") \/ (~Current(t) /\ goes("drop", "paused")),
             NEW j \in jobs \cup mail, AtWork(j)
      PROVE  AtWork(j)' /\ (j # m => j \in jobs' \cup mail')
  <2>1. j.by \in Threads
    BY DEF Inv, Typed, AgentType, Jobs, Mails
  <2>2. AtWork(j)'
    BY <1>2, <1>4, <1>6, <2>1 DEF AtWork, Current, Busy
  <2>3. QED
    BY <1>1, <1>2, <2>2
<1>7. CASE Stale(m) /\ UNCHANGED <<leaf, graph>> /\ graph.status # "Paused"
  <2>1. leaf'[m.leaf].exec # m.exec
    BY <1>7 DEF Stale
  <2>2. goes("pass", "none")
    BY <1>1, <1>7
  <2>3. Active(leaf)' \subseteq Active(leaf)
    BY <1>7 DEF Active
  <2>4. QED
    BY <1>2, <1>3, <1>6, <1>7, <2>1, <2>2, <2>3, WorkGoesOn
<1>8. CASE /\ leaf' = [leaf EXCEPT ![m.leaf] = Paused(m.result)]
           /\ graph' = GraphIs("Running") /\ goes("pass", "none")
  <2>1. /\ leaf'[m.leaf].status = "Paused" /\ graph'.status # "Paused"
        /\ \A l \in Leaves : l # m.leaf => leaf'[l] = leaf[l]
    BY <1>3, <1>8 DEF Paused, GraphIs, Trees
  <2>2. Active(leaf)' \subseteq Active(leaf)
    BY <2>1 DEF Active
  <2>3. QED
    BY <1>2, <1>3, <1>6, <1>8, <2>1, <2>2, WorkGoesOn
<1>9. CASE ~Current(t) /\ UNCHANGED <<leaf, graph>> /\ goes("drop", "paused")
  <2>1. ~AtWork(m)
    BY <1>1, <1>9 DEF AtWork
  <2>2. Active(leaf)' \subseteq Active(leaf)
    BY <1>9 DEF Active
  <2>3. QED
    BY <1>2, <1>3, <1>6, <1>9, <2>1, <2>2, WorkGoesOn
<1>10. CASE leaf' = Completing(leaf, m.leaf) /\ UNCHANGED graph /\ goes("pass", "none")
  <2>1. \A l \in Leaves : \/ leaf'[l] = leaf[l] /\ l # m.leaf
                          \/ leaf'[l].status \in {"Completed", "Pending"}
    BY <1>10 DEF Completing, Completed
  <2>2. leaf'[m.leaf].status # "Running"
    BY <1>3, <2>1
  <2>3. Active(leaf)' \subseteq Active(leaf)
    BY <2>1 DEF Active
  <2>4. QED
    BY <1>2, <1>3, <1>6, <1>10, <2>1, <2>2, <2>3, WorkGoesOn
<1>11. QED
  <2>1. CASE Stale(m) /\ UNCHANGED <<leaf, graph>> /\ graph.status = "Paused"
    BY <1>5, <2>1 DEF Watch, GraphRests, Active
  <2>2. QED
    BY <1>1, <1>5, <1>7, <1>8, <1>9, <1>10, <2>1 DEF goes

\* A result is sent to a driver that may still take it.
LEMMA JobEndsWatches == ASSUME Inv, Watch, NEW j \in jobs, JobEnds(j) PROVE Watch'
<1>1. /\ jobs' = jobs \ {j} /\ mail \subseteq mail'
      /\ UNCHANGED <<leaf, graph, run, thread, sweeping, overtaken, faults>>
      /\ thread[j.by].pc \in Busy => \E m \in mail' : m.leaf = j.leaf /\ m.exec = j.exec /\ m.by = j.by
  <2>1. PICK result, error :
          /\ jobs' = jobs \ {j}
          /\ mail' = IF thread[j.by].pc \in {"pass", "wait", "drop"}
                     THEN mail \cup {[leaf |-> j.leaf, exec |-> j.exec, by |-> j.by,
                                      result |-> result, error |-> error]}
                     ELSE mail
          /\ UNCHANGED <<leaf, graph, run, thread, sweeping, overtaken, faults>>
    BY DEF JobEnds, tree, outside
  <2>2. CASE thread[j.by].pc \in Busy
    <3>1. [leaf |-> j.leaf, exec |-> j.exec, by |-> j.by, result |-> result, error |-> error]
            \in mail'
      BY <2>1, <2>2 DEF Busy
    <3>2. QED
      BY <2>1, <3>1
  <2>3. QED
    BY <2>1, <2>2
<1>2. SweepIsFault' /\ Active(leaf)' \subseteq Active(leaf)
  BY <1>1 DEF Watch, SweepIsFault, Active
<1>3. \A i \in jobs \cup mail : AtWork(i) =>
        \E k \in jobs' \cup mail' : k.leaf = i.leaf /\ k.exec = i.exec /\ k.by = i.by
  BY <1>1 DEF AtWork
<1>4. \A i \in jobs \cup mail : AtWork(i) =>
        \E k \in jobs' \cup mail' : k.leaf = i.leaf /\ k.exec = i.exec /\ AtWork(k)'
  BY <1>1, <1>3 DEF AtWork, Current
<1>5. QED
  BY <1>1, <1>2, <1>4, WorkGoesOn

\* A run that changes leaves no active leaf, unless that is written down.
LEMMA RunChangeWatches ==
  ASSUME Watch, UNCHANGED <<leaf, graph>>, SweepIsFault',
         sweeping' \/ overtaken' \/ Active(leaf) = {}
  PROVE  Watch'
<1>1. GraphRests'
  BY DEF Watch, GraphRests, Active
<1>2. QED
  BY <1>1, RestWatches DEF Active

LEMMA RearmWatches == ASSUME Inv, Watch, NEW t \in Threads, Rearm(t) PROVE Watch'
<1>1. /\ thread[t].pc = "rearm" /\ UNCHANGED <<leaf, graph, jobs, mail, sweeping, overtaken, faults>>
      /\ UNCHANGED run \/ run.status = "Paused"
      /\ \E s : thread' = [thread EXCEPT ![t] = s]
  BY DEF Rearm, Step, Goto, Continuable, tree, agents, outside
<1>2. CASE UNCHANGED run
  BY <1>1, <1>2, ThreadGoes, GoingAlone DEF Busy
<1>3. CASE run.status = "Paused"
  BY <1>1, <1>3, RunChangeWatches DEF Watch, RunRests, SweepIsFault
<1>4. QED
  BY <1>1, <1>2, <1>3

LEMMA AfterWatches == ASSUME Inv, Watch, NEW t \in Threads, After(t) PROVE Watch'
<1>1. /\ thread[t].pc = "after" /\ UNCHANGED <<leaf, graph, jobs, mail, sweeping, faults>>
      /\ overtaken' = (overtaken \/ (run' # run /\ Active(leaf) # {}))
      /\ \E s : thread' = [thread EXCEPT ![t] = s]
  BY DEF After, NoteOvertaken, Step, Goto, tree, agents
<1>2. CASE run' = run
  BY <1>1, <1>2, ThreadGoes, GoingAlone DEF Busy, Inv, Typed, FlagType
<1>3. CASE run' # run
  BY <1>1, <1>3, RunChangeWatches DEF Watch, SweepIsFault
<1>4. QED
  BY <1>2, <1>3

LEMMA TimeoutPauseWatches ==
  ASSUME Inv, Watch, NEW r \in Requests, TimeoutPause(r) PROVE Watch'
<1>1. /\ UNCHANGED <<leaf, graph, thread, jobs, mail, sweeping, faults>>
      /\ overtaken' = (overtaken \/ (run' # run /\ Active(leaf) # {}))
  BY DEF TimeoutPause, NoteOvertaken, tree, agents
<1>2. CASE run' = run
  BY <1>1, <1>2, QuietWatches DEF Inv, Typed, FlagType
<1>3. CASE run' # run
  BY <1>1, <1>3, RunChangeWatches DEF Watch, SweepIsFault
<1>4. QED
  BY <1>2, <1>3

LEMMA StopRunWatches == ASSUME Inv, Watch, StopRun PROVE Watch'
<1>1. /\ UNCHANGED <<leaf, graph>> /\ sweeping' /\ faults' = faults + 1
      /\ "stop-run" \in Environment /\ faults \in Nat
  BY Constants DEF StopRun, Fault, tree, Inv, Typed, FlagType
<1>2. SweepIsFault'
  BY <1>1 DEF SweepIsFault
<1>3. QED
  BY <1>1, <1>2, RunChangeWatches

LEMMA SweptRests ==
  ASSUME Inv, leaf' = Swept PROVE Active(leaf)' = {}
  BY DEF Swept, Active, Paused

LEMMA SweepLeavesWatches == ASSUME Inv, Watch, SweepLeaves PROVE Watch'
<1>1. leaf' = Swept /\ ~sweeping'
  BY DEF SweepLeaves
<1>2. QED
  BY <1>1, SweptRests, RestWatches DEF GraphRests, SweepIsFault

\* A crash finds no stop half done.
LEMMA CrashWatches == ASSUME StopsAreWhole, Inv, Watch, Crash PROVE Watch'
<1>1. /\ "crash" \in Environment /\ faults < MaxFaults /\ ~sweeping' /\ UNCHANGED overtaken
      /\ leaf' = Swept \/ (run.status # "Running" /\ UNCHANGED <<leaf, graph>>)
  BY DEF Crash, Fault
<1>2. ~sweeping
  BY <1>1, Constants DEF StopsAreWhole, Watch, SweepIsFault, Inv, Typed, FlagType
<1>3. CASE leaf' = Swept
  BY <1>1, <1>3, SweptRests, RestWatches DEF GraphRests, SweepIsFault
<1>4. CASE run.status # "Running" /\ UNCHANGED <<leaf, graph>>
  BY <1>1, <1>2, <1>4, RunChangeWatches DEF Watch, RunRests, SweepIsFault
<1>5. QED
  BY <1>1, <1>3, <1>4

LEMMA StopLeafWatches == ASSUME Inv, Watch, NEW l \in Leaves, StopLeaf(l) PROVE Watch'
<1>1. /\ PauseLeaves({l}) /\ UNCHANGED <<thread, jobs, mail, sweeping, overtaken>>
      /\ faults' = faults + 1 /\ faults \in Nat
  BY Constants DEF StopLeaf, Fault, agents, Inv, Typed, FlagType
<1>2. SweepIsFault'
  BY <1>1 DEF Watch, SweepIsFault
<1>3. QED
  BY <1>1, <1>2, HaltWatches

\* A new request goes to a thread that was idle.
LEMMA ContinueWatches == ASSUME Inv, Watch, NEW l \in Leaves, Continue(l) PROVE Watch'
<1>1. /\ NextRequest \in Requests /\ Goto(NextRequest, "read")
      /\ UNCHANGED <<leaf, graph, run, jobs, mail, sweeping, overtaken, faults>>
  BY DEF Continue, tree, agents
<1>2. thread[NextRequest].pc = "idle" /\ NextRequest \in Threads
  BY <1>1, NextIsNew, Identities DEF Inv, Typed, Ledger
<1>3. \A u \in Threads : u # NextRequest => thread'[u] = thread[u]
  BY <1>1 DEF Goto, Inv, Typed, ThreadType
<1>4. QED
  BY <1>1, <1>2, <1>3, ThreadGoes DEF Busy

LEMMA TimeoutWatches == ASSUME Inv, Watch, NEW r \in Requests, Timeout(r) PROVE Watch'
<1>1. /\ UNCHANGED <<leaf, graph, run, thread, jobs, mail, sweeping, overtaken>>
      /\ faults' = faults + 1
  BY DEF Timeout, Fault, tree, agents
<1>2. QED
  BY <1>1, QuietWatches

\* The steps of a thread that is not driving, and of one that begins or goes on.
LEMMA ThreadWatches ==
  ASSUME Inv, Watch, NEW t \in Threads,
         ReadRun(t) \/ Register(t) \/ Returned(t) \/ Fail(t)
  PROVE  Watch'
<1>1. /\ thread[t].pc \in {"read", "register", "returned", "fail"}
      /\ UNCHANGED <<leaf, graph, run, jobs, mail, sweeping, overtaken, faults>>
      /\ \E s : thread' = [thread EXCEPT ![t] = s]
  BY DEF ReadRun, Register, Returned, Fail, Step, Goto, tree, agents, outside
<1>2. QED
  BY <1>1, ThreadGoes, GoingAlone DEF Busy

LEMMA NothingCameWatches == ASSUME Inv, Watch, NEW t \in Threads, NothingCame(t) PROVE Watch'
<1>1. /\ Goto(t, "pass")
      /\ UNCHANGED <<leaf, graph, run, jobs, mail, sweeping, overtaken, faults>>
  BY DEF NothingCame, tree, agents, outside
<1>2. /\ thread'[t].pc = "pass" /\ thread'[t].outer = thread[t].outer
      /\ \A u \in Threads : u # t => thread'[u] = thread[u]
  <2>1. thread[t] \in ThreadStates
    BY DEF Inv, Typed, ThreadType
  <2>2. QED
    BY <1>1, <2>1 DEF Goto, Inv, Typed, ThreadType, ThreadStates
<1>3. QED
  BY <1>1, <1>2, QuietWatches DEF Busy

\* The driver that drops its results had no leaf to run any more.
LEMMA DropWatches == ASSUME Inv, Watch, NEW t \in Threads, Drop(t) PROVE Watch'
<1>1. /\ thread[t].pc = "drop" /\ mail' = {m \in mail : m.by # t}
      /\ UNCHANGED <<leaf, graph, run, jobs, sweeping, overtaken, faults>>
      /\ \E s : thread' = [thread EXCEPT ![t] = s]
  BY DEF Drop, Step, tree, outside
<1>2. \A u \in Threads : u # t => thread'[u] = thread[u]
  BY <1>1, GoingAlone
<1>3. \A m \in mail : thread[m.by].pc \in Busy => m \in mail'
  BY <1>1 DEF Busy
<1>4. QED
  BY <1>1, <1>2, <1>3, QuietWatches DEF Busy

LEMMA UnwindWatches ==
  ASSUME Inv, Watch, NEW t \in Threads, Unwind(t) \/ Converge(t) PROVE Watch'
<1>1. /\ thread[t].pc \in {"unwind", "converge"}
      /\ UNCHANGED <<jobs, mail, sweeping, overtaken, faults>>
      /\ \/ UNCHANGED thread /\ \E S : PauseNext(S)
         \/ UNCHANGED <<leaf, graph, run>> /\ \E s : thread' = [thread EXCEPT ![t] = s]
  BY DEF Unwind, Converge, Step, agents, outside
<1>2. CASE UNCHANGED thread /\ \E S : PauseNext(S)
  BY <1>1, <1>2, PauseNextWatches
<1>3. CASE UNCHANGED <<leaf, graph, run>> /\ \E s : thread' = [thread EXCEPT ![t] = s]
  BY <1>1, <1>3, ThreadGoes, GoingAlone DEF Busy
<1>4. QED
  BY <1>1, <1>2, <1>3

LEMMA NextWatches == ASSUME StopsAreWhole, Inv, Watch, [Next]_vars PROVE Watch'
<1>1. ASSUME NEW t \in Threads, Progress(t) PROVE Watch'
  BY <1>1, ThreadWatches, DispatchWatches, RearmWatches, EnterWatches, PassWatches,
     PassSupersededWatches, TakeResultWatches, DropWatches, UnwindWatches, AfterWatches
  DEF Progress
<1>2. CASE UNCHANGED vars
  BY <1>2 DEF vars, Watch, SweepIsFault, GraphRests, RunRests, Attended, Active, Serves, AtWork,
              Current
<1>3. CASE Next
  BY <1>1, <1>3, ContinueWatches, NothingCameWatches, JobEndsWatches, StopLeafWatches,
     StopRunWatches, SweepLeavesWatches, TimeoutWatches, TimeoutPauseWatches, CrashWatches
  DEF Next
<1>4. QED
  BY <1>2, <1>3

LEMMA InitWatch == Init => Watch
<1> SUFFICES ASSUME Init PROVE Watch
  OBVIOUS
<1>1. /\ leaf = [l \in Leaves |-> IF l = Bootstrap THEN Ready(None) ELSE Absent]
      /\ graph.status = "Running" /\ run.status = "Running" /\ ~sweeping
  BY DEF Init, GraphIs
<1>2. \A l \in Leaves : leaf[l].status # "Running"
  BY <1>1 DEF Ready, Absent
<1>3. QED
  BY <1>1, <1>2 DEF Watch, SweepIsFault, GraphRests, RunRests, Attended

\* No leaf runs without an agent at work for it, or a result on the way to a
\* driver that takes it, whichever drivers, continues and stops overlap, unless
\* the run was paused behind the back of its driver (the pause an earlier driver
\* or a timed-out continue writes late).
THEOREM RunningLeavesHaveWorkers == StopsAreWhole => (Spec => []RunningLeafHasWorker)
<1> SUFFICES ASSUME StopsAreWhole PROVE Spec => []RunningLeafHasWorker
  OBVIOUS
<1>1. Inv /\ Watch /\ [Next]_vars => Watch'
  BY NextWatches
<1>2. Watch => RunningLeafHasWorker
  <2> SUFFICES ASSUME Watch, ~sweeping, ~overtaken, NEW l \in Leaves, leaf[l].status = "Running"
               PROVE  \E j \in jobs \cup {[leaf |-> m.leaf, exec |-> m.exec, by |-> m.by] : m \in mail} :
                        j.leaf = l /\ j.exec = leaf[l].exec
    BY DEF RunningLeafHasWorker, LeafIsAttended
  <2>1. PICK j \in jobs \cup mail : j.leaf = l /\ j.exec = leaf[l].exec
    BY DEF Watch, Attended, Serves
  <2>2. CASE j \in mail
    <3>1. [leaf |-> j.leaf, exec |-> j.exec, by |-> j.by]
            \in {[leaf |-> m.leaf, exec |-> m.exec, by |-> m.by] : m \in mail}
      BY <2>2
    <3>2. QED
      BY <2>1, <3>1
  <2>3. QED
    BY <2>1, <2>2
<1>3. QED
  BY <1>1, <1>2, InitWatch, Invariance, PTL DEF Spec

=============================================================================
