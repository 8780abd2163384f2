------------------------- MODULE PromptQueueProofs -------------------------
(***************************************************************************)
(* Proofs about PromptQueue, for every number of slots and prompts, every   *)
(* limit and every number of uses, edits, stops, restarts and faults.      *)
(***************************************************************************)
EXTENDS PromptQueue, FiniteSetTheorems, FunctionTheorems, WellFoundedInduction, TLAPS

(***************************************************************************)
(* The inductive invariant.                                                *)
(***************************************************************************)
Given == 1 .. ids
Items == [id : Given, rank : Given, turn : Given, msg : Msg, st : {"queued", "dispatching"}]
Flows == [pc : PC, kind : {"composer", "use", "auto"}, msg : Msg \cup {None},
          item : Given \cup {None}, turn : Given \cup {None}, fresh : BOOLEAN,
          ok : BOOLEAN, again : BOOLEAN]
Headers == [turn : Given \cup {None}, live : Live, owner : Slot \cup {None},
            alive : BOOLEAN, last : {"none", "completed", "cancelled", "failed"}]
Pairs == [turn : Given, item : Given]
Controls == [by : Slot \cup {None}, st : {"none", "starting", "accepted", "cancel", "stopped"}]
Halts == {None} \cup [turn : Given, before : 0 .. Sends]
Budgets == [sends : 0 .. Sends, uses : 0 .. Uses, edits : Nat, stops : Nat,
            crashes : Nat, faults : Nat]

RestTyped ==
  /\ parked \in BOOLEAN /\ gate \in BOOLEAN
  /\ timeline \subseteq Given /\ active \subseteq Pairs
  /\ control \in Controls /\ stop \in {"idle", "cancel", "gate", "inspect", "suspend", "park", "cleanup"}
  /\ sent \in [Msg -> Nat] /\ owed \subseteq Msg
  /\ halted \in Halts /\ budget \in Budgets

Typed == /\ ids \in Nat
         /\ queue \subseteq Items /\ flow \in [Slot -> Flows] /\ header \in Headers
         /\ RestTyped

\* What the place of a flow says of the item, the turn and the message it has.
Taking == {"check", "enqueue", "priority", "lift", "mark", "admit"}
Shape(f) ==
  /\ f.pc \in {"free", "redrain", "armed", "next", "claim"} => f.turn = None
  /\ f.pc \in {"free", "redrain"} => f.kind = "composer"
  /\ f.pc \in {"armed", "next"} => f.kind = "auto" /\ f.item = None
  /\ f.pc \in {"claim", "recover", "rename", "track"} => f.kind = "use"
  /\ f.pc \in Taking => f.msg # None
  /\ f.pc \in Taking \ {"admit"} => f.kind # "auto"
  /\ f.kind = "composer" => f.item = None /\ (f.pc \in Taking => f.turn = None)
  /\ f.kind = "use" => f.item # None /\ (f.pc # "claim" => f.turn # None /\ f.msg # None)
  /\ f.kind = "auto" /\ f.pc \notin {"armed", "next"} =>
       f.turn # None /\ f.item # None /\ f.msg # None
  /\ f.pc = "claimed" => f.kind = "auto"
  /\ f.pc = "release" => f.kind # "composer"
  /\ f.pc \in Turning \cup {"unlock", "notify", "notified"} => f.turn # None
  /\ f.pc \in {"claim", "recover"} => ~f.again
  /\ f.pc \in {"rename", "track"} => f.again
Shapes == \A s \in Slot : Shape(flow[s])

\* Items are told apart, a flow has the message of its turn and of its item, and one
\* whose prompt is in the timeline has been sent.
Sole(q) == \A x, y \in q : x.id = y.id \/ x.rank = y.rank \/ x.turn = y.turn => x = y
Small(q) == IsFiniteSet(q) /\ Cardinality(q) <= Limit
SentOnes == \A x \in queue : x.turn \in timeline => sent[x.msg] > 0
Belongs == \A s \in Slot : \A x \in queue : flow[s].turn = x.turn => flow[s].msg = x.msg
Claims == \A s \in Slot : \A x \in queue :
  flow[s].item = x.id /\ flow[s].turn # None => flow[s].msg = x.msg
Accepted == \A s \in Slot : flow[s].pc = "publish" => flow[s].turn \in timeline
Contents == /\ Sole(queue) /\ Small(queue)
            /\ SentOnes /\ Belongs /\ Claims /\ Accepted /\ NothingLost

\* The owner of the session's turn is at it, and a turn that goes on has an owner or is stopped.
Owner == \A s \in Slot : header.owner = s =>
  /\ flow[s].turn = header.turn /\ flow[s].pc \in Turning
  /\ header.live \in {"starting", "claimed"}
Headed == /\ header.alive /\ header.live \in {"starting", "claimed"} => header.owner # None
          /\ header.alive /\ header.live = "stopping" => stop # "idle"
          /\ header.turn = None => header.live = "idle" /\ stop = "idle"

\* The identities that flows may still ask for, with those given, stay within the bound.
Owes(f) == \/ f.kind = "composer" /\ f.pc \in Taking
           \/ f.kind = "use" /\ f.pc \in Taking \cup {"claim", "recover", "rename", "track"}
OwesTwo(f) == f.kind = "use" /\ ~f.again
              /\ f.pc \in (Taking \ {"enqueue"}) \cup {"claim", "recover"}
Owing == {s \in Slot : Owes(flow[s])}
OwingTwo == {s \in Slot : OwesTwo(flow[s])}
Counted == ids + Cardinality(Owing) + Cardinality(OwingTwo) + budget.sends + 2 * budget.uses
             <= Sends + 2 * Uses

Inv == Typed /\ Shapes /\ Contents /\ Owner /\ Headed /\ Counted

(***************************************************************************)
(* Facts about constants.                                                  *)
(***************************************************************************)
LEMMA Words == /\ None \notin Nat /\ None \notin Slot /\ None \notin Msg /\ None \notin Given
               /\ Slot \subseteq Nat /\ Msg \subseteq Nat /\ Given \subseteq Nat
  BY NoneAssumption DEF Slot, Msg, Given

LEMMA Bounds == /\ Slots \in Nat /\ Limit \in Nat /\ Sends \in Nat /\ Uses \in Nat
                /\ Edits \in Nat /\ Stops \in Nat /\ Crashes \in Nat /\ Faults \in Nat
  BY BoundAssumption

LEMMA Finite == IsFiniteSet(Slot)
  BY Bounds, FS_Interval DEF Slot

\* A set of numbers has a least one.
LEMMA Least == ASSUME NEW S, S \subseteq Nat, S # {} PROVE \E n \in S : \A m \in S : n <= m
<1>1. PICK n \in S : \A m \in S : ~ (<<m, n>> \in OpToRel(<, Nat))
  BY NatLessThanWellFounded, WFMin
<1>2. \A m \in S : n \in Nat /\ m \in Nat /\ ~ (m < n)
  BY <1>1 DEF OpToRel
<1>3. \A m \in S : n <= m
  BY <1>2
<1>4. QED
  BY <1>3

LEMMA SpareSlot ==
  ASSUME Spare # {} PROVE NextSlot \in Slot /\ flow[NextSlot].pc = "free"
<1>1. Spare \subseteq Nat
  BY Words DEF Spare
<1>2. \E s \in Spare : \A r \in Spare : s <= r
  BY <1>1, Least
<1>3. NextSlot \in Spare
  BY <1>2 DEF NextSlot
<1>4. QED
  BY <1>3 DEF Spare

LEMMA FirstIn ==
  ASSUME Typed, NEW S, S \subseteq queue, S # {} PROVE First(S) \in S
<1>1. {x.rank : x \in S} \subseteq Nat
  BY Words DEF Typed, Items
<1>2. PICK n \in {x.rank : x \in S} : \A m \in {x.rank : x \in S} : n <= m
  BY <1>1, Least
<1>3. \E x \in S : \A y \in S : x.rank <= y.rank
  BY <1>2
<1>4. QED
  BY <1>3 DEF First

LEMMA Spending ==
  ASSUME budget \in Budgets,
         NEW what \in {"sends", "uses", "edits", "stops", "crashes", "faults"}, Spend(what)
  PROVE  /\ budget' \in Budgets /\ budget[what] > 0
         /\ budget'.sends = IF what = "sends" THEN budget.sends - 1 ELSE budget.sends
         /\ budget'.uses = IF what = "uses" THEN budget.uses - 1 ELSE budget.uses
<1>1. budget' \in Budgets /\ budget[what] > 0
  BY Bounds DEF Budgets, Spend
<1>2. QED
  BY <1>1 DEF Budgets, Spend

(***************************************************************************)
(* What a step does to the flows.                                          *)
(***************************************************************************)
\* Two states of a flow differ at most in that the revision it has read is out of date.
Alike(f, g) == /\ f.pc = g.pc /\ f.kind = g.kind /\ f.msg = g.msg /\ f.item = g.item
               /\ f.turn = g.turn /\ f.again = g.again /\ (f.fresh => g.fresh)
\* The flows become those of f, and none is up to date where the file has changed.
Becomes(f) ==
  /\ flow' \in [Slot -> Flows]
  /\ \A r \in Slot : Alike(flow'[r], f[r]) /\ (queue' # queue => ~flow'[r].fresh)

Others(s) == \A r \in Slot \ {s} : Alike(flow'[r], flow[r])
Moves(s, pc) ==
  /\ Others(s)
  /\ flow'[s].pc = pc /\ flow'[s].kind = flow[s].kind /\ flow'[s].msg = flow[s].msg
  /\ flow'[s].item = flow[s].item /\ flow'[s].turn = flow[s].turn
  /\ flow'[s].again = flow[s].again /\ (flow'[s].fresh => flow[s].fresh)
Ends(s) == Others(s) /\ Alike(flow'[s], Free)

LEMMA FreeFlow == Free \in Flows
  BY DEF Free, Flows, PC

LEMMA FlowBecomes ==
  ASSUME NEW f, f \in [Slot -> Flows], flow' = f, queue' = queue PROVE Becomes(f)
  BY DEF Becomes, Alike

LEMMA PersistBecomes ==
  ASSUME NEW f, f \in [Slot -> Flows], NEW q, Persist(q, f) PROVE queue' = q /\ Becomes(f)
<1>1. queue' = q /\ flow' = [s \in Slot |-> [f[s] EXCEPT !.fresh = FALSE]]
  BY DEF Persist
<1>2. \A g \in Flows : /\ [g EXCEPT !.fresh = FALSE] \in Flows
                       /\ Alike([g EXCEPT !.fresh = FALSE], g)
                       /\ [g EXCEPT !.fresh = FALSE].fresh = FALSE
  BY DEF Flows, Alike
<1>3. \A s \in Slot : f[s] \in Flows /\ flow'[s] = [f[s] EXCEPT !.fresh = FALSE]
  BY <1>1
<1>4. flow' \in [Slot -> Flows]
  BY <1>1, <1>2, <1>3
<1>5. QED
  BY <1>1, <1>2, <1>3, <1>4 DEF Becomes

LEMMA LoadBecomes ==
  ASSUME NEW f, f \in [Slot -> Flows], Load(f) PROVE queue' = Loaded /\ Becomes(f)
<1>1. CASE Loaded = queue
  BY <1>1, FlowBecomes DEF Load
<1>2. CASE Loaded # queue
  BY <1>2, PersistBecomes DEF Load
<1>3. QED
  BY <1>1, <1>2

\* A flow goes on to another place.
LEMMA GotoFlows ==
  ASSUME flow \in [Slot -> Flows], NEW s \in Slot, NEW pc \in PC
  PROVE  /\ Goto(s, pc) \in [Slot -> Flows]
         /\ Goto(s, pc)[s] = [flow[s] EXCEPT !.pc = pc]
         /\ \A r \in Slot \ {s} : Goto(s, pc)[r] = flow[r]
<1>1. [flow[s] EXCEPT !.pc = pc] \in Flows
  BY DEF Flows
<1>2. Goto(s, pc) = [flow EXCEPT ![s] = [flow[s] EXCEPT !.pc = pc]]
  BY DEF Goto
<1>3. QED
  BY <1>1, <1>2

LEMMA Going ==
  ASSUME flow \in [Slot -> Flows], NEW s \in Slot, NEW pc \in PC, Becomes(Goto(s, pc))
  PROVE  flow' \in [Slot -> Flows] /\ Moves(s, pc)
<1>1. Goto(s, pc)[s] = [flow[s] EXCEPT !.pc = pc] /\ flow[s] \in Flows
      /\ \A r \in Slot \ {s} : Goto(s, pc)[r] = flow[r]
  BY GotoFlows
<1>2. flow' \in [Slot -> Flows] /\ Alike(flow'[s], [flow[s] EXCEPT !.pc = pc])
      /\ \A r \in Slot \ {s} : Alike(flow'[r], flow[r])
  BY <1>1 DEF Becomes
<1>3. QED
  BY <1>1, <1>2 DEF Moves, Others, Alike, Flows

\* The same, with the outcome of the turn.
LEMMA GoingWith ==
  ASSUME flow \in [Slot -> Flows], NEW s \in Slot, NEW pc \in PC, NEW ok \in BOOLEAN,
         Becomes([flow EXCEPT ![s].pc = pc, ![s].ok = ok])
  PROVE  flow' \in [Slot -> Flows] /\ Moves(s, pc)
<1> DEFINE f == [flow EXCEPT ![s].pc = pc, ![s].ok = ok]
<1>1. f[s] = [flow[s] EXCEPT !.pc = pc, !.ok = ok] /\ flow[s] \in Flows
      /\ \A r \in Slot \ {s} : f[r] = flow[r]
  OBVIOUS
<1>2. flow' \in [Slot -> Flows] /\ Alike(flow'[s], f[s])
      /\ \A r \in Slot \ {s} : Alike(flow'[r], flow[r])
  BY <1>1 DEF Becomes
<1>3. QED
  BY <1>1, <1>2 DEF Moves, Others, Alike, Flows

LEMMA WithFlows ==
  ASSUME flow \in [Slot -> Flows], NEW s \in Slot, NEW pc \in PC, NEW ok \in BOOLEAN
  PROVE  [flow EXCEPT ![s].pc = pc, ![s].ok = ok] \in [Slot -> Flows]
<1> DEFINE f == [flow EXCEPT ![s].pc = pc, ![s].ok = ok]
<1>1. [flow[s] EXCEPT !.pc = pc, !.ok = ok] \in Flows
  BY DEF Flows
<1>2. f = [flow EXCEPT ![s] = [flow[s] EXCEPT !.pc = pc, !.ok = ok]]
  OBVIOUS
<1>3. QED
  BY <1>1, <1>2

LEMMA EndedFlows ==
  ASSUME flow \in [Slot -> Flows], NEW s \in Slot
  PROVE  /\ Ended(s) \in [Slot -> Flows] /\ Ended(s)[s] = Free
         /\ \A r \in Slot \ {s} : Ended(s)[r] = flow[r]
  BY FreeFlow DEF Ended

LEMMA Ending ==
  ASSUME flow \in [Slot -> Flows], NEW s \in Slot, Becomes(Ended(s))
  PROVE  flow' \in [Slot -> Flows] /\ Ends(s)
  BY EndedFlows DEF Becomes, Ends, Others

LEMMA Staying ==
  ASSUME flow \in [Slot -> Flows], Becomes(flow)
  PROVE  flow' \in [Slot -> Flows] /\ \A r \in Slot : Alike(flow'[r], flow[r])
  BY DEF Becomes

(***************************************************************************)
(* What a step does to the items.                                          *)
(***************************************************************************)
Twin(y, x) == y.id = x.id /\ y.turn = x.turn /\ y.msg = x.msg
\* Every item of q is an item of the queue, perhaps with another state or rank ...
Derived(q) == q \subseteq Items /\ Sole(q) /\ \A y \in q : \E x \in queue : Twin(y, x)
\* ... and every item of the queue but those that were sent is in q.
Covers(q) == \A x \in queue : x.turn \in timeline \/ \E y \in q : Twin(y, x)

\* A set of items with identities from the queue is no larger.
LEMMA NoLarger ==
  ASSUME Small(queue), NEW q, \A y \in q : \E x \in queue : y.id = x.id,
         \A y, z \in q : y.id = z.id => y = z
  PROVE  Small(q)
<1> DEFINE f == [y \in q |-> CHOOSE x \in queue : y.id = x.id]
<1>1. \A y \in q : f[y] \in queue /\ y.id = f[y].id
  OBVIOUS
<1>2. \A y, z \in q : f[y] = f[z] => y.id = z.id
  BY <1>1
<1>3. \A y, z \in q : f[y] = f[z] => y = z
  BY <1>2
<1>4. f \in Injection(q, queue)
  BY <1>1, <1>3 DEF Injection, IsInjective
<1>5. IsFiniteSet(q) /\ Cardinality(q) <= Cardinality(queue)
  BY <1>4, FS_Injection DEF Small
<1>6. Cardinality(q) \in Nat /\ Cardinality(queue) \in Nat
  BY <1>5, FS_CardinalityType DEF Small
<1>7. QED
  BY <1>5, <1>6, Bounds DEF Small

LEMMA NoMore == ASSUME Typed, Small(queue), NEW q, Derived(q) PROVE Small(q)
  BY NoLarger DEF Derived, Twin, Sole

LEMMA Itself == ASSUME Typed, Sole(queue) PROVE Derived(queue) /\ Covers(queue)
  BY DEF Typed, Derived, Covers, Twin

\* What the reconciliation makes of an item.
Reconciled(x) == IF Orphan(x) THEN [x EXCEPT !.st = "queued"] ELSE x

LEMMA ItemFields ==
  ASSUME NEW x \in Items, NEW st \in {"queued", "dispatching"}
  PROVE  /\ [x EXCEPT !.st = st] \in Items /\ Twin([x EXCEPT !.st = st], x)
         /\ [x EXCEPT !.st = st].rank = x.rank /\ [x EXCEPT !.st = st].st = st
  BY DEF Items, Twin

LEMMA ReconciledItem ==
  ASSUME NEW x \in Items
  PROVE  Reconciled(x) \in Items /\ Twin(Reconciled(x), x) /\ Reconciled(x).rank = x.rank
  BY ItemFields DEF Reconciled, Twin

LEMMA LoadedItems ==
  \/ Loaded = queue
  \/ /\ \A y \in Loaded : \E x \in queue :
          y = Reconciled(x) /\ (x.turn \in timeline => x.st = "dispatching" /\ ~Orphan(x))
     /\ \A x \in queue : x.turn \notin timeline => Reconciled(x) \in Loaded
<1>1. CASE \E x \in queue : Orphan(x)
  <2> DEFINE kept == {y \in queue : y.turn \in timeline => y.st = "dispatching" /\ ~Orphan(y)}
  <2>1. Loaded = {Reconciled(x) : x \in kept}
    BY <1>1 DEF Loaded, Reconciled
  <2>2. QED
    BY <2>1
<1>2. CASE ~\E x \in queue : Orphan(x)
  BY <1>2 DEF Loaded
<1>3. QED
  BY <1>1, <1>2

LEMMA LoadedDerived ==
  ASSUME Typed, Sole(queue) PROVE Derived(Loaded) /\ Covers(Loaded)
<1>1. CASE Loaded = queue
  BY <1>1, Itself
<1>2. CASE Loaded # queue
  <2>1. \A y \in Loaded : \E x \in queue : y = Reconciled(x)
    BY <1>2, LoadedItems
  <2>2. \A x \in queue : x.turn \notin timeline => Reconciled(x) \in Loaded
    BY <1>2, LoadedItems
  <2>3. \A x \in queue : /\ Reconciled(x) \in Items /\ Twin(Reconciled(x), x)
                         /\ Reconciled(x).rank = x.rank
    BY ReconciledItem DEF Typed
  <2>4. Loaded \subseteq Items /\ \A y \in Loaded : \E x \in queue : Twin(y, x)
    BY <2>1, <2>3
  <2>5. ASSUME NEW y \in Loaded, NEW z \in Loaded,
               y.id = z.id \/ y.rank = z.rank \/ y.turn = z.turn
        PROVE  y = z
    <3>1. PICK x \in queue : y = Reconciled(x)
      BY <2>1
    <3>2. PICK w \in queue : z = Reconciled(w)
      BY <2>1
    <3>3. x.id = w.id \/ x.rank = w.rank \/ x.turn = w.turn
      BY <2>3, <2>5, <3>1, <3>2 DEF Twin
    <3>4. x = w
      BY <3>3 DEF Sole
    <3>5. QED
      BY <3>1, <3>2, <3>4
  <2>6. QED
    BY <2>2, <2>3, <2>4, <2>5 DEF Derived, Covers, Sole
<1>3. QED
  BY <1>1, <1>2

\* A change of state of one item.
LEMMA PutDerived ==
  ASSUME NEW q, Derived(q), Covers(q), NEW x \in q, NEW st \in {"queued", "dispatching"}
  PROVE  Derived(Put(q, x, st)) /\ Covers(Put(q, x, st))
<1> DEFINE y == [x EXCEPT !.st = st]
<1>1. y \in Items /\ Twin(y, x) /\ y.rank = x.rank
  BY ItemFields DEF Derived
<1>2. Put(q, x, st) = (q \ {x}) \cup {y}
  BY DEF Put
<1> HIDE DEF y
<1>3. \A z \in q \ {x} : z.id # y.id /\ z.rank # y.rank /\ z.turn # y.turn
  BY <1>1 DEF Derived, Sole, Twin
<1>4. Sole(Put(q, x, st))
  BY <1>2, <1>3 DEF Derived, Sole
<1>5. \E w \in queue : Twin(y, w)
  BY <1>1 DEF Derived, Twin
<1>6. Derived(Put(q, x, st))
  BY <1>1, <1>2, <1>4, <1>5 DEF Derived
<1>7. Covers(Put(q, x, st))
  BY <1>1, <1>2 DEF Covers, Twin
<1>8. QED
  BY <1>6, <1>7

\* Items that were sent leave.
LEMMA SentLeave ==
  ASSUME Typed, Sole(queue), NEW S, \A x \in S : x.turn \in timeline
  PROVE  Derived(queue \ S) /\ Covers(queue \ S)
  BY DEF Typed, Derived, Covers, Sole, Twin

LEMMA ReleaseDerived ==
  ASSUME NEW q, Derived(q), Covers(q), NEW id
  PROVE  LET p == {IF x.id = id THEN [x EXCEPT !.st = "queued"] ELSE x : x \in q}
         IN  Derived(p) /\ Covers(p)
<1> DEFINE back(x) == IF x.id = id THEN [x EXCEPT !.st = "queued"] ELSE x
           p == {back(x) : x \in q}
<1>1. \A x \in q : back(x) \in Items /\ Twin(back(x), x) /\ back(x).rank = x.rank
  BY ItemFields DEF Derived, Twin
<1>2. /\ \A y \in p : \E x \in q : y = back(x)
      /\ \A x \in q : back(x) \in p
  OBVIOUS
<1> HIDE DEF back, p
<1>3. ASSUME NEW y \in p, NEW z \in p, y.id = z.id \/ y.rank = z.rank \/ y.turn = z.turn
      PROVE  y = z
  <2>1. PICK x \in q : y = back(x)
    BY <1>2
  <2>2. PICK w \in q : z = back(w)
    BY <1>2
  <2>3. x.id = w.id \/ x.rank = w.rank \/ x.turn = w.turn
    BY <1>1, <1>3, <2>1, <2>2 DEF Twin
  <2>4. x = w
    BY <2>3 DEF Derived, Sole
  <2>5. QED
    BY <2>1, <2>2, <2>4
<1>4. \A y \in p : y \in Items /\ \E x \in queue : Twin(y, x)
  <2> TAKE y \in p
  <2>1. PICK x \in q : y = back(x)
    BY <1>2
  <2>2. PICK w \in queue : Twin(x, w)
    BY DEF Derived
  <2>3. QED
    BY <1>1, <2>1, <2>2 DEF Twin
<1>5. \A x \in queue : x.turn \in timeline \/ \E y \in p : Twin(y, x)
  <2> TAKE x \in queue
  <2>1. CASE \E w \in q : Twin(w, x)
    <3>1. PICK w \in q : Twin(w, x)
      BY <2>1
    <3>2. back(w) \in p /\ Twin(back(w), x)
      BY <1>1, <1>2, <3>1 DEF Twin
    <3>3. QED
      BY <3>2
  <2>2. QED
    BY <2>1 DEF Covers
<1>6. Derived(p) /\ Covers(p)
  BY <1>3, <1>4, <1>5 DEF Derived, Covers, Sole
<1>7. QED
  BY <1>6 DEF p, back

(***************************************************************************)
(* What most steps keep.                                                   *)
(***************************************************************************)
\* The header is left alone, or the turn it names is settled.
HeaderKept == \/ header' = header
              \/ header'.turn = header.turn /\ header'.live = "idle" /\ header'.owner = None

\* A flow keeps what it has, or is done with it, and asks for no more than before.
Calm(r) ==
  /\ Shape(flow'[r])
  /\ Owes(flow'[r]) => Owes(flow[r])
  /\ OwesTwo(flow'[r]) => OwesTwo(flow[r])
  /\ \/ flow'[r].turn = None
     \/ /\ flow'[r].turn = flow[r].turn /\ flow'[r].msg = flow[r].msg
        /\ flow'[r].item = flow[r].item
  /\ flow'[r].pc = "publish" => flow[r].pc = "publish" /\ flow'[r].turn = flow[r].turn
  /\ header'.owner = r => flow'[r].turn = flow[r].turn /\ flow'[r].pc \in Turning

LEMMA AlikeCalm ==
  ASSUME Shapes, Owner, HeaderKept, NEW r \in Slot, Alike(flow'[r], flow[r])
  PROVE  Calm(r)
<1>1. Shape(flow'[r])
  BY DEF Shapes, Shape, Alike
<1>2. header'.owner = r => header.owner = r
  BY Words DEF HeaderKept
<1>3. header'.owner = r => flow'[r].turn = flow[r].turn /\ flow'[r].pc \in Turning
  BY <1>2 DEF Owner, Alike
<1>4. QED
  BY <1>1, <1>3 DEF Calm, Alike, Owes, OwesTwo

LEMMA OthersCalm ==
  ASSUME Shapes, Owner, HeaderKept, NEW s \in Slot, Others(s), Calm(s)
  PROVE  \A r \in Slot : Calm(r)
  BY AlikeCalm DEF Others

LEMMA CountKept ==
  ASSUME Counted, ids' = ids, budget'.sends = budget.sends, budget'.uses = budget.uses,
         \A r \in Slot : (Owes(flow'[r]) => Owes(flow[r])) /\ (OwesTwo(flow'[r]) => OwesTwo(flow[r])),
         ids \in Nat, budget \in Budgets
  PROVE  Counted'
<1>1. Owing' \subseteq Owing /\ OwingTwo' \subseteq OwingTwo
  BY DEF Owing, OwingTwo
<1>2. IsFiniteSet(Owing) /\ IsFiniteSet(OwingTwo)
  BY Finite, FS_Subset DEF Owing, OwingTwo
<1>3. /\ Cardinality(Owing') <= Cardinality(Owing)
      /\ Cardinality(OwingTwo') <= Cardinality(OwingTwo)
      /\ IsFiniteSet(Owing') /\ IsFiniteSet(OwingTwo')
  BY <1>1, <1>2, FS_Subset
<1>4. /\ Cardinality(Owing) \in Nat /\ Cardinality(OwingTwo) \in Nat
      /\ Cardinality(Owing') \in Nat /\ Cardinality(OwingTwo') \in Nat
  BY <1>2, <1>3, FS_CardinalityType
<1>5. budget.sends \in Nat /\ budget.uses \in Nat
  BY DEF Budgets
<1>6. QED
  BY <1>3, <1>4, <1>5, Bounds DEF Counted

LEMMA MostKept ==
  ASSUME Typed, Contents, Derived(queue'), timeline' = timeline, sent' = sent,
         \A r \in Slot : Calm(r)
  PROVE  Sole(queue') /\ Small(queue') /\ SentOnes' /\ Belongs' /\ Claims' /\ Accepted'
<1>1. Sole(queue') /\ \A y \in queue' : \E x \in queue : Twin(y, x)
  BY DEF Derived
<1>2. Small(queue')
  BY NoMore DEF Contents
<1>3. SentOnes'
  BY <1>1 DEF Contents, SentOnes, Twin
<1>4. \A y \in queue' : y.turn # None
  BY Words DEF Derived, Items
<1>5. Belongs'
  BY <1>1, <1>4 DEF Contents, Belongs, Twin, Calm
<1>6. Claims'
  BY <1>1 DEF Contents, Claims, Twin, Calm
<1>7. Accepted'
  BY DEF Contents, Accepted, Calm
<1>8. QED
  BY <1>1, <1>2, <1>3, <1>5, <1>6, <1>7

\* What is not sent is still queued.
LEMMA StillThere ==
  ASSUME Contents, Covers(queue'), sent' = sent, owed' = owed PROVE NothingLost'
<1> SUFFICES ASSUME NEW m \in owed', ~(sent'[m] > 0)
             PROVE  \E y \in queue' : y.msg = m
  BY DEF NothingLost
<1>1. PICK x \in queue : x.msg = m
  BY DEF Contents, NothingLost
<1>2. x.turn \notin timeline
  BY <1>1 DEF Contents, SentOnes
<1>3. QED
  BY <1>1, <1>2 DEF Covers, Twin

LEMMA ContentsKept ==
  ASSUME Typed, Contents, Derived(queue'), Covers(queue'),
         timeline' = timeline, sent' = sent, owed' = owed, \A r \in Slot : Calm(r)
  PROVE  Contents'
BY MostKept, StillThere DEF Contents

LEMMA OwnerKept ==
  ASSUME Owner, HeaderKept,
         \A r \in Slot : header'.owner = r => flow'[r].turn = flow[r].turn /\ flow'[r].pc \in Turning
  PROVE  Owner'
<1>1. CASE header' = header
  BY <1>1 DEF Owner
<1>2. CASE header'.owner = None
  BY <1>2, Words DEF Owner
<1>3. QED
  BY <1>1, <1>2 DEF HeaderKept

LEMMA HeadedKept == ASSUME Headed, HeaderKept, stop' = stop PROVE Headed'
  BY DEF Headed, HeaderKept

\* A step that gives no identity, sends nothing and leaves the stop alone.
LEMMA CalmStep ==
  ASSUME Inv, HeaderKept, \A r \in Slot : Calm(r),
         Derived(queue'), Covers(queue'), Typed',
         UNCHANGED <<timeline, sent, owed, ids, stop>>,
         budget'.sends = budget.sends /\ budget'.uses = budget.uses
  PROVE  Inv'
<1>1. Shapes'
  BY DEF Calm, Shapes
<1>2. Contents'
  BY ContentsKept DEF Inv, Calm
<1>3. Owner' /\ Headed'
  BY OwnerKept, HeadedKept DEF Inv, Calm
<1>4. Counted'
  BY CountKept DEF Inv, Typed, RestTyped, Calm
<1>5. QED
  BY <1>1, <1>2, <1>3, <1>4 DEF Inv

\* From where a flow may go on to where, keeping what it has.
Way(f, pc) ==
  \/ f.pc = "check" /\ pc \in {"enqueue", "priority"}
  \/ f.pc \in {"check", "admit"} /\ pc = "recover" /\ f.turn # None /\ f.kind # "auto" /\ ~f.again
  \/ f.pc \in {"priority", "lift", "mark"} /\ pc \in {"lift", "mark", "admit"}
  \/ f.pc \in {"admit", "enqueue", "claimed"} /\ pc = "release" /\ f.kind # "composer"
  \/ f.pc = "claimed" /\ pc = "admit" /\ f.kind = "auto"
  \/ f.pc \in Turning /\ pc \in (Turning \ {"publish"}) \cup {"unlock"}
  \/ f.pc = "unlock" /\ pc = "notify"
  \/ f.pc = "notify" /\ pc = "notified"
  \/ f.pc = "rename" /\ pc = "track"
  \/ f.pc = "track" /\ pc = "check"
  \/ f.pc = "armed" /\ pc = "next"
  \/ f.pc \notin {"free", "armed", "next", "claim"} /\ pc \in {"drain", "settle", "clear"}

LEMMA WayShape ==
  ASSUME NEW f \in Flows, NEW g, NEW pc, Shape(f), Way(f, pc),
         g.pc = pc /\ g.kind = f.kind /\ g.msg = f.msg /\ g.item = f.item
           /\ g.turn = f.turn /\ g.again = f.again
  PROVE  Shape(g) /\ (Owes(g) => Owes(f)) /\ (OwesTwo(g) => OwesTwo(f))
<1>1. CASE pc \in {"drain", "settle", "clear"}
  <2>1. Shape(g)
    BY <1>1 DEF Way, Shape, Taking, Turning
  <2>2. ~Owes(g) /\ ~OwesTwo(g)
    BY <1>1 DEF Owes, OwesTwo, Taking
  <2>3. QED
    BY <2>1, <2>2
<1>2. CASE pc \in Turning \cup {"unlock", "notify", "notified"}
  <2>1. Shape(g)
    BY <1>2 DEF Way, Shape, Taking, Turning
  <2>2. ~Owes(g) /\ ~OwesTwo(g)
    BY <1>2 DEF Owes, OwesTwo, Taking, Turning
  <2>3. QED
    BY <2>1, <2>2
<1>3. CASE pc \in {"enqueue", "priority", "lift", "mark"}
  <2>1. f.pc \in {"check", "priority", "lift", "mark"}
    BY <1>3 DEF Way, Turning
  <2>2. Shape(g)
    BY <1>3, <2>1 DEF Shape, Taking, Turning
  <2>3. QED
    BY <1>3, <2>1, <2>2 DEF Owes, OwesTwo, Taking
<1>4. CASE pc = "recover"
  <2>1. f.pc \in {"check", "admit"} /\ f.turn # None /\ f.kind # "auto" /\ ~f.again
    BY <1>4 DEF Way, Turning
  <2>2. f.kind = "use"
    BY <2>1 DEF Flows, Shape, Taking
  <2>3. Shape(g)
    BY <1>4, <2>1, <2>2 DEF Shape, Taking, Turning
  <2>4. QED
    BY <1>4, <2>1, <2>2, <2>3 DEF Owes, OwesTwo, Taking
<1>5. CASE pc \in {"release", "next"}
  <2>1. Shape(g)
    BY <1>5 DEF Way, Shape, Taking, Turning
  <2>2. ~Owes(g) /\ ~OwesTwo(g)
    BY <1>5 DEF Owes, OwesTwo, Taking
  <2>3. QED
    BY <2>1, <2>2
<1>6. CASE pc \in {"admit", "track", "check"}
  <2>1. Shape(g)
    BY <1>6 DEF Way, Shape, Taking, Turning
  <2>2. (Owes(g) => Owes(f)) /\ (OwesTwo(g) => OwesTwo(f))
    BY <1>6 DEF Way, Shape, Owes, OwesTwo, Taking, Turning
  <2>3. QED
    BY <2>1, <2>2
<1>7. QED
  BY <1>1, <1>2, <1>3, <1>4, <1>5, <1>6 DEF Way

LEMMA SameIds ==
  ASSUME ids' = ids
  PROVE  Given' = Given /\ Items' = Items /\ Flows' = Flows /\ Headers' = Headers
  BY DEF Given, Items, Flows, Headers

LEMMA StillTyped ==
  ASSUME Typed, ids' = ids, Derived(queue'), flow' \in [Slot -> Flows], header' \in Headers,
         RestTyped'
  PROVE  Typed'
  BY SameIds DEF Typed, Derived

LEMMA NotOwner ==
  ASSUME Owner, HeaderKept, NEW s \in Slot, flow[s].pc \notin Turning PROVE header'.owner # s
  BY Words DEF Owner, HeaderKept

\* A flow goes on.
LEMMA MoveStep ==
  ASSUME Inv, NEW s \in Slot, NEW pc, Moves(s, pc), flow' \in [Slot -> Flows],
         Way(flow[s], pc), HeaderKept, header' \in Headers, RestTyped',
         pc \in Turning \/ header'.owner # s,
         Derived(queue'), Covers(queue'),
         UNCHANGED <<timeline, sent, owed, ids, stop>>,
         budget'.sends = budget.sends /\ budget'.uses = budget.uses
  PROVE  Inv'
<1>1. Shape(flow[s]) /\ flow[s] \in Flows
  BY DEF Inv, Shapes, Typed
<1>2. Shape(flow'[s]) /\ (Owes(flow'[s]) => Owes(flow[s])) /\ (OwesTwo(flow'[s]) => OwesTwo(flow[s]))
  BY <1>1, WayShape DEF Moves
<1>7. pc # "publish"
  BY DEF Way, Turning
<1>3. Calm(s)
  BY <1>2, <1>7 DEF Calm, Moves
<1>4. \A r \in Slot : Calm(r)
  BY <1>3, OthersCalm DEF Inv, Moves
<1>5. Typed'
  BY StillTyped DEF Inv
<1>6. QED
  BY <1>4, <1>5, CalmStep

LEMMA FreeShape == ASSUME NEW f, Alike(f, Free) PROVE Shape(f) /\ ~Owes(f) /\ ~OwesTwo(f)
  BY DEF Alike, Free, Shape, Owes, OwesTwo, Taking, Turning

\* A flow ends.
LEMMA EndStep ==
  ASSUME Inv, NEW s \in Slot, Ends(s), flow' \in [Slot -> Flows],
         HeaderKept, header' \in Headers, RestTyped', header'.owner # s,
         Derived(queue'), Covers(queue'),
         UNCHANGED <<timeline, sent, owed, ids, stop>>,
         budget'.sends = budget.sends /\ budget'.uses = budget.uses
  PROVE  Inv'
<1>1. Shape(flow'[s]) /\ ~Owes(flow'[s]) /\ ~OwesTwo(flow'[s])
  BY FreeShape DEF Ends
<1>2. Calm(s)
  BY <1>1 DEF Calm, Ends, Alike, Free
<1>3. \A r \in Slot : Calm(r)
  BY <1>2, OthersCalm DEF Inv, Ends
<1>4. Typed'
  BY StillTyped DEF Inv
<1>5. QED
  BY <1>3, <1>4, CalmStep

(***************************************************************************)
(* The header, and what stays as it is.                                    *)
(***************************************************************************)
LEMMA InspectedHeader ==
  ASSUME header \in Headers
  PROVE  /\ Inspected \in Headers /\ Inspected.turn = header.turn
         /\ Inspected = header \/ (Inspected.live = "idle" /\ Inspected.owner = None)
         /\ Inspected.live = "idle" => ~Inspected.alive \/ header.live = "idle"
  BY DEF Inspected, Headers, Live

LEMMA ClosedHeader ==
  ASSUME header \in Headers, NEW last \in {"none", "completed", "cancelled", "failed"}
  PROVE  /\ Closed(last) \in Headers /\ Closed(last).turn = header.turn
         /\ Closed(last).live = "idle" /\ Closed(last).owner = None
  BY DEF Closed, Headers, Live

LEMMA Closing ==
  ASSUME header \in Headers, NEW s \in Slot, CloseTurn(s, "failed") \/ CloseTurn(s, "cancelled")
                                             \/ CloseTurn(s, "completed")
  PROVE  header' \in Headers /\ HeaderKept /\ header'.owner # s
<1>1. CASE header.owner = s
  <2>1. PICK last \in {"completed", "cancelled", "failed"} : header' = Closed(last)
    BY <1>1 DEF CloseTurn
  <2>2. QED
    BY <2>1, ClosedHeader, Words DEF HeaderKept
<1>2. CASE header.owner # s
  BY <1>2 DEF CloseTurn, HeaderKept
<1>3. QED
  BY <1>1, <1>2

LEMMA Inspecting ==
  ASSUME header \in Headers, header' = Inspected PROVE header' \in Headers /\ HeaderKept
  BY InspectedHeader DEF HeaderKept

LEMMA SameHeader ==
  ASSUME header \in Headers, header' = header PROVE header' \in Headers /\ HeaderKept
  BY DEF HeaderKept

LEMMA SameQueue == ASSUME Inv, queue' = queue PROVE Derived(queue') /\ Covers(queue')
  BY Itself DEF Inv, Contents

LEMMA LoadedQueue == ASSUME Inv, queue' = Loaded PROVE Derived(queue') /\ Covers(queue')
  BY LoadedDerived DEF Inv, Contents

\* What has changed of the rest keeps its type.
LEMMA RestKept ==
  ASSUME Typed, ids' = ids, UNCHANGED <<timeline, sent, owed, stop>>,
         parked' \in BOOLEAN, gate' \in BOOLEAN, active' \subseteq Pairs, control' \in Controls,
         halted' \in Halts, budget' \in Budgets
  PROVE  RestTyped'
<1>1. Given' = Given /\ Pairs' = Pairs /\ Halts' = Halts /\ Controls' = Controls
  BY DEF Given, Pairs, Halts, Controls
<1>2. QED
  BY <1>1 DEF Typed, RestTyped, Budgets

LEMMA AllKept ==
  ASSUME Typed, UNCHANGED <<ids, timeline, sent, owed, stop, parked, gate, active, control, halted, budget>>
  PROVE  RestTyped'
  BY RestKept DEF Typed, RestTyped

(***************************************************************************)
(* The command that submits or uses a prompt, up to the admission.         *)
(***************************************************************************)
LEMMA CheckKeeps == ASSUME Inv, NEW s \in Slot, Check(s) PROVE Inv'
<1>1. /\ flow[s].pc = "check" /\ flow \in [Slot -> Flows] /\ header \in Headers
      /\ UNCHANGED <<queue, parked, timeline, gate, active, control, stop, ids, budget, sent, owed, halted>>
  BY DEF Check, At, Inv, Typed, file, history
<1>2. header' \in Headers /\ HeaderKept
  BY <1>1, Inspecting, SameHeader DEF Check
<1>3. header'.owner # s
  BY <1>1, <1>2, NotOwner DEF Inv, Turning
<1>4. RestTyped' /\ Derived(queue') /\ Covers(queue')
  BY <1>1, AllKept, SameQueue DEF Inv
<1>5. Shape(flow[s])
  BY DEF Inv, Shapes
<1>6. CASE flow' = Ended(s)
  BY <1>1, <1>2, <1>3, <1>4, <1>6, FlowBecomes, EndedFlows, Ending, EndStep
<1>7. ASSUME NEW pc \in {"recover", "enqueue", "priority"}, flow' = Goto(s, pc), Way(flow[s], pc)
      PROVE  Inv'
  <2>1. pc \in PC
    BY DEF PC
  <2>2. Moves(s, pc) /\ flow' \in [Slot -> Flows]
    BY <1>1, <1>7, <2>1, FlowBecomes, GotoFlows, Going
  <2>3. QED
    BY <1>1, <1>2, <1>3, <1>4, <1>7, <2>2, MoveStep
<1>8. \/ flow' = Ended(s) \/ flow' = Goto(s, "enqueue") \/ flow' = Goto(s, "priority")
      \/ flow' = Goto(s, "recover") /\ flow[s].turn # None /\ ~flow[s].again
  BY DEF Check, Exists
<1>9. Way(flow[s], "enqueue") /\ Way(flow[s], "priority")
  BY <1>1 DEF Way
<1>10. flow[s].turn # None /\ ~flow[s].again => Way(flow[s], "recover")
  BY <1>1, <1>5 DEF Way, Shape, Taking
<1>11. QED
  BY <1>6, <1>7, <1>8, <1>9, <1>10

\* The rest is left alone, or keeps its type.
Outer == /\ UNCHANGED <<timeline, sent, owed, ids, stop>> /\ RestTyped'
         /\ budget'.sends = budget.sends /\ budget'.uses = budget.uses
\* The queue is left alone, or only reconciled or given another state.
Inner == Derived(queue') /\ Covers(queue')

LEMMA GoStep ==
  ASSUME Inv, NEW s \in Slot, NEW pc \in PC, Becomes(Goto(s, pc)), Way(flow[s], pc),
         HeaderKept, header' \in Headers, pc \in Turning \/ header'.owner # s, Inner, Outer
  PROVE  Inv'
<1>1. Moves(s, pc) /\ flow' \in [Slot -> Flows]
  BY Going DEF Inv, Typed
<1>2. QED
  BY <1>1, MoveStep DEF Inner, Outer

LEMMA StopStep ==
  ASSUME Inv, NEW s \in Slot, Becomes(Ended(s)),
         HeaderKept, header' \in Headers, header'.owner # s, Inner, Outer
  PROVE  Inv'
<1>1. Ends(s) /\ flow' \in [Slot -> Flows]
  BY Ending DEF Inv, Typed
<1>2. QED
  BY <1>1, EndStep DEF Inner, Outer

\* A flow that is not in its turn leaves the header to its owner.
LEMMA Aside ==
  ASSUME Inv, NEW s \in Slot, flow[s].pc \notin Turning, header' = header
  PROVE  HeaderKept /\ header' \in Headers /\ header'.owner # s
BY NotOwner DEF Inv, Typed, HeaderKept

LEMMA RedrainKeeps == ASSUME Inv, NEW s \in Slot, Redrain(s) PROVE Inv'
<1>1. /\ flow[s].pc = "redrain" /\ flow \in [Slot -> Flows]
      /\ UNCHANGED <<header, queue, parked, timeline, gate, active, control, stop, ids, budget,
                     sent, owed, halted>>
  BY DEF Redrain, At, Inv, Typed, file, session, history
<1>2. HeaderKept /\ header' \in Headers /\ header'.owner # s
  BY <1>1, Aside DEF Turning
<1>3. Inner /\ Outer
  BY <1>1, AllKept, SameQueue DEF Inner, Outer, Inv
<1>4. CASE flow' = Ended(s)
  BY <1>1, <1>2, <1>3, <1>4, FlowBecomes, EndedFlows, StopStep
<1>5. CASE flow' = [flow EXCEPT ![s].pc = "drain", ![s].ok = TRUE]
  <2>1. "drain" \in PC /\ TRUE \in BOOLEAN /\ Way(flow[s], "drain")
    BY <1>1 DEF PC, Way
  <2>2. Becomes([flow EXCEPT ![s].pc = "drain", ![s].ok = TRUE])
    BY <1>1, <1>5, <2>1, WithFlows, FlowBecomes
  <2>3. Moves(s, "drain") /\ flow' \in [Slot -> Flows]
    BY <1>1, <2>1, <2>2, GoingWith
  <2>4. QED
    BY <1>2, <1>3, <2>1, <2>3, MoveStep DEF Inner, Outer
<1>6. QED
  BY <1>4, <1>5 DEF Redrain

LEMMA PriorityKeeps == ASSUME Inv, NEW s \in Slot, Priority(s) \/ Lift(s) \/ Mark(s) PROVE Inv'
<1>1. /\ flow[s].pc \in {"priority", "lift", "mark"} /\ flow \in [Slot -> Flows]
      /\ UNCHANGED <<header, timeline, active, control, stop, ids, budget, sent, owed>>
      /\ parked' \in {parked, FALSE} /\ gate' \in {gate, FALSE} /\ halted' \in {halted, None}
  BY DEF Priority, Lift, Mark, At, Inv, Typed, session, file, history, OpenGate
<1>2. HeaderKept /\ header' \in Headers /\ header'.owner # s
  BY <1>1, Aside DEF Turning
<1>3. PICK pc \in {"lift", "mark", "admit"} :
        (queue' = Loaded \/ queue' = queue) /\ Becomes(Goto(s, pc))
  <2>1. \A pc \in {"lift", "mark", "admit"} : pc \in PC /\ Goto(s, pc) \in [Slot -> Flows]
    BY <1>1, GotoFlows DEF PC
  <2>2. CASE Priority(s)
    BY <2>1, <2>2, LoadBecomes DEF Priority
  <2>3. CASE Mark(s)
    BY <2>1, <2>3, PersistBecomes DEF Mark
  <2>4. CASE Lift(s)
    BY <2>1, <2>4, FlowBecomes DEF Lift, file
  <2>5. QED
    BY <2>2, <2>3, <2>4
<1>4. pc \in PC /\ Way(flow[s], pc)
  BY <1>1, <1>3 DEF PC, Way
<1>5. Outer
  BY <1>1, RestKept DEF Outer, Inv, Typed, RestTyped, Halts
<1>6. Inner
  BY <1>3, LoadedQueue, SameQueue DEF Inner
<1>7. QED
  BY <1>2, <1>3, <1>4, <1>5, <1>6, GoStep

\* A new identity is not yet given, and leaves what there is as it is.
LEMMA Wider ==
  ASSUME ids \in Nat, ids' = ids + 1
  PROVE  /\ Given \subseteq Given' /\ ids + 1 \in Given' /\ ids + 1 \notin Given
         /\ Items \subseteq Items' /\ Flows \subseteq Flows' /\ Headers \subseteq Headers'
         /\ Pairs \subseteq Pairs' /\ Halts \subseteq Halts'
<1>1. Given \subseteq Given' /\ ids + 1 \in Given' /\ ids + 1 \notin Given
  BY DEF Given
<1>2. Items \subseteq Items'
  BY <1>1 DEF Items
<1>3. Flows \subseteq Flows'
  BY <1>1 DEF Flows
<1>4. Headers \subseteq Headers' /\ Pairs \subseteq Pairs' /\ Halts \subseteq Halts'
  BY <1>1 DEF Headers, Pairs, Halts
<1>5. QED
  BY <1>1, <1>2, <1>3, <1>4

LEMMA OwingFinite ==
  /\ IsFiniteSet(Owing) /\ IsFiniteSet(OwingTwo)
  /\ Cardinality(Owing) \in Nat /\ Cardinality(OwingTwo) \in Nat
<1>1. IsFiniteSet(Owing) /\ IsFiniteSet(OwingTwo)
  BY Finite, FS_Subset DEF Owing, OwingTwo
<1>2. QED
  BY <1>1, FS_CardinalityType

\* An identity is given to a flow that asks for one less from then on.
LEMMA CountSpent ==
  ASSUME Counted, ids \in Nat, ids' = ids + 1, budget \in Budgets,
         budget'.sends = budget.sends, budget'.uses = budget.uses,
         NEW s \in Slot,
         \A r \in Slot : (Owes(flow'[r]) => Owes(flow[r])) /\ (OwesTwo(flow'[r]) => OwesTwo(flow[r])),
         \/ Owes(flow[s]) /\ ~Owes(flow'[s])
         \/ OwesTwo(flow[s]) /\ ~OwesTwo(flow'[s])
  PROVE  Counted'
<1>1. Owing' \subseteq Owing /\ OwingTwo' \subseteq OwingTwo
  BY DEF Owing, OwingTwo
<1>2. IsFiniteSet(Owing) /\ IsFiniteSet(OwingTwo)
  BY OwingFinite
<1>3. /\ IsFiniteSet(Owing') /\ Cardinality(Owing') <= Cardinality(Owing)
      /\ Cardinality(Owing) = Cardinality(Owing') => Owing = Owing'
  BY <1>1, <1>2, FS_Subset
<1>4. /\ IsFiniteSet(OwingTwo') /\ Cardinality(OwingTwo') <= Cardinality(OwingTwo)
      /\ Cardinality(OwingTwo) = Cardinality(OwingTwo') => OwingTwo = OwingTwo'
  BY <1>1, <1>2, FS_Subset
<1>5. Owing # Owing' \/ OwingTwo # OwingTwo'
  BY DEF Owing, OwingTwo
<1>6. /\ Cardinality(Owing) \in Nat /\ Cardinality(OwingTwo) \in Nat
      /\ Cardinality(Owing') \in Nat /\ Cardinality(OwingTwo') \in Nat
  BY <1>2, <1>3, <1>4, FS_CardinalityType
<1>7. budget.sends \in Nat /\ budget.uses \in Nat
  BY DEF Budgets
<1>8. Cardinality(Owing') + Cardinality(OwingTwo') + 1 <= Cardinality(Owing) + Cardinality(OwingTwo)
  BY <1>3, <1>4, <1>5, <1>6
<1>9. QED
  BY <1>6, <1>7, <1>8, Bounds DEF Counted

\* A new item has an identity, a rank and a turn that nothing else has.
LEMMA Appended ==
  ASSUME Typed, Sole(queue), Small(queue), ids' = ids + 1, NEW x, x \in Items',
         x.id = ids + 1, x.rank = ids + 1, x.turn = ids + 1,
         ~(Cardinality(Loaded) >= Limit), queue' = Loaded \cup {x}
  PROVE  queue' \subseteq Items' /\ Sole(queue') /\ Small(queue')
<1>1. Derived(Loaded)
  BY LoadedDerived
<1>2. Small(Loaded)
  BY <1>1, NoMore
<1>3. ids \in Nat
  BY DEF Typed
<1>4. queue' \subseteq Items'
  BY <1>1, <1>3, Wider DEF Derived
<1>5. \A y \in Loaded : y.id # ids + 1 /\ y.rank # ids + 1 /\ y.turn # ids + 1
  BY <1>1, <1>3, Wider DEF Derived, Items
<1>6. Sole(queue')
  BY <1>1, <1>5 DEF Derived, Sole
<1>7. IsFiniteSet(Loaded) /\ Cardinality(Loaded) \in Nat
  BY <1>2, FS_CardinalityType DEF Small
<1>8. IsFiniteSet(queue') /\ Cardinality(queue') <= Cardinality(Loaded) + 1
  <2>1. /\ IsFiniteSet(Loaded \cup {x})
        /\ Cardinality(Loaded \cup {x}) = IF x \in Loaded THEN Cardinality(Loaded) ELSE Cardinality(Loaded) + 1
    BY <1>7, FS_AddElement
  <2>2. QED
    BY <1>7, <2>1
<1>9. Cardinality(queue') \in Nat
  BY <1>8, FS_CardinalityType
<1>10. Small(queue')
  BY <1>7, <1>8, <1>9, Bounds DEF Small
<1>11. QED
  BY <1>4, <1>6, <1>10

LEMMA RedrainFlow ==
  ASSUME NEW f, Alike(f, [Free EXCEPT !.pc = "redrain"])
  PROVE  Shape(f) /\ ~Owes(f) /\ ~OwesTwo(f) /\ f.turn = None /\ f.pc = "redrain"
  BY DEF Alike, Free, Shape, Owes, OwesTwo, Taking, Turning

LEMMA AppendKeeps ==
  ASSUME Inv, NEW s \in Slot, Enqueue(s), ~(Cardinality(Loaded) >= Limit) PROVE Inv'
<1> DEFINE n == ids + 1
           x == [id |-> n, rank |-> n, turn |-> n, msg |-> flow[s].msg, st |-> "queued"]
           f == [flow EXCEPT ![s] = [Free EXCEPT !.pc = "redrain"]]
<1>1. /\ flow[s].pc = "enqueue" /\ flow \in [Slot -> Flows] /\ ids' = n /\ ids \in Nat
      /\ UNCHANGED <<header, parked, timeline, gate, active, control, stop, budget, sent, halted>>
      /\ owed' = owed \cup {flow[s].msg} /\ Persist(Loaded \cup {x}, f)
  BY DEF Enqueue, At, Inv, Typed, session
<1>2. flow[s].msg \in Msg /\ flow[s] \in Flows /\ Shape(flow[s])
  BY <1>1 DEF Inv, Shapes, Shape, Taking, Flows
<1>3. x \in Items' /\ x.id = ids + 1 /\ x.rank = ids + 1 /\ x.turn = ids + 1 /\ x.msg = flow[s].msg
  BY <1>1, <1>2, Wider DEF Items
<1>4. f \in [Slot -> Flows] /\ f[s] = [Free EXCEPT !.pc = "redrain"]
      /\ \A r \in Slot \ {s} : f[r] = flow[r]
  <2>1. [Free EXCEPT !.pc = "redrain"] \in Flows
    BY DEF Free, Flows, PC
  <2>2. QED
    BY <1>1, <2>1
<1>5. queue' = Loaded \cup {x} /\ Becomes(f)
  BY <1>1, <1>4, PersistBecomes
<1> HIDE DEF x, f
<1>6. /\ flow' \in [Slot -> Flows] /\ Others(s)
      /\ Shape(flow'[s]) /\ ~Owes(flow'[s]) /\ ~OwesTwo(flow'[s]) /\ flow'[s].turn = None
      /\ flow'[s].pc = "redrain"
  BY <1>4, <1>5, RedrainFlow DEF Becomes, Others
<1>7. HeaderKept /\ header'.owner # s
  BY <1>1, Aside DEF Turning
<1>8. \A r \in Slot : Calm(r)
  BY <1>6, <1>7, OthersCalm DEF Calm, Inv
<1>9. queue' \subseteq Items' /\ Sole(queue') /\ Small(queue')
  BY <1>1, <1>3, <1>5, Appended DEF Inv, Contents
<1>10. Typed'
  <2>1. flow' \in [Slot -> Flows'] /\ header' \in Headers' /\ ids' \in Nat
    BY <1>1, <1>6, Wider DEF Inv, Typed
  <2>2. RestTyped'
    <3>1. Controls' = Controls /\ Budgets' = Budgets
      BY DEF Controls, Budgets
    <3>2. QED
      BY <1>1, <1>2, <3>1, Wider DEF Inv, Typed, RestTyped
  <2>3. QED
    BY <1>9, <2>1, <2>2 DEF Typed
<1>11. Derived(Loaded) /\ Covers(Loaded)
  BY LoadedDerived DEF Inv, Contents
<1>12. ids + 1 \notin timeline /\ ids + 1 # None
       /\ \A r \in Slot : flow[r].turn # ids + 1 /\ flow[r].item # ids + 1
  BY <1>1, Wider, Words DEF Inv, Typed, RestTyped, Flows
<1>13. SentOnes'
  BY <1>1, <1>3, <1>5, <1>11, <1>12 DEF Inv, Contents, SentOnes, Derived, Twin
<1>14. \A r \in Slot : \/ flow'[r].turn = None
                       \/ flow'[r].turn = flow[r].turn /\ flow'[r].msg = flow[r].msg
                          /\ flow'[r].item = flow[r].item
  BY <1>8 DEF Calm
<1>15. \A y \in queue' : y.turn # None
  BY <1>9, NoneAssumption DEF Items, Given
<1>16. Belongs'
  BY <1>3, <1>5, <1>11, <1>12, <1>14, <1>15 DEF Inv, Contents, Belongs, Derived, Twin
<1>17. Claims'
  BY <1>3, <1>5, <1>11, <1>12, <1>14 DEF Inv, Contents, Claims, Derived, Twin
<1>18. NothingLost'
  <2> SUFFICES ASSUME NEW m \in owed', ~(sent'[m] > 0)
               PROVE  \E y \in queue' : y.msg = m
    BY DEF NothingLost
  <2>1. CASE m = flow[s].msg
    BY <1>3, <1>5, <2>1
  <2>2. CASE m # flow[s].msg
    <3>1. PICK y \in queue : y.msg = m
      BY <1>1, <2>2 DEF Inv, Contents, NothingLost
    <3>2. y.turn \notin timeline
      BY <1>1, <3>1 DEF Inv, Contents, SentOnes
    <3>3. QED
      BY <1>5, <1>11, <3>1, <3>2 DEF Covers, Twin
  <2>3. QED
    BY <2>1, <2>2
<1>19. Counted'
  <2>1. Owes(flow[s])
    BY <1>1, <1>2 DEF Owes, Shape, Taking, Flows
  <2>2. \A r \in Slot : (Owes(flow'[r]) => Owes(flow[r])) /\ (OwesTwo(flow'[r]) => OwesTwo(flow[r]))
    BY <1>8 DEF Calm
  <2>3. QED
    BY <1>1, <1>6, <2>1, <2>2, CountSpent DEF Inv, Typed, RestTyped
<1>20. Owner' /\ Headed' /\ Shapes'
  BY <1>1, <1>7, <1>8, OwnerKept, HeadedKept DEF Inv, Calm, Shapes
<1>21. Accepted'
  BY <1>1, <1>8 DEF Inv, Contents, Accepted, Calm
<1>22. QED
  BY <1>9, <1>10, <1>13, <1>16, <1>17, <1>18, <1>19, <1>20, <1>21 DEF Inv, Contents

\* An item is queued, with an identity and a turn that are new.
LEMMA EnqueueKeeps == ASSUME Inv, NEW s \in Slot, Enqueue(s) PROVE Inv'
<1>1. /\ flow[s].pc = "enqueue" /\ flow \in [Slot -> Flows]
      /\ UNCHANGED <<header, parked, timeline, gate, active, control, stop, budget, sent, halted>>
  BY DEF Enqueue, At, Inv, Typed, session
<1>2. HeaderKept /\ header' \in Headers /\ header'.owner # s
  BY <1>1, Aside DEF Turning
<1>3. CASE Cardinality(Loaded) >= Limit
  <2>1. /\ Load(IF flow[s].kind = "use" THEN Goto(s, "release") ELSE Ended(s))
        /\ ids' = ids /\ owed' = owed
    BY <1>3 DEF Enqueue
  <2>2. Outer
    BY <1>1, <2>1, AllKept DEF Outer, Inv
  <2>3. CASE flow[s].kind = "use"
    <3>1. "release" \in PC /\ Way(flow[s], "release")
      BY <1>1, <2>3 DEF PC, Way
    <3>2. queue' = Loaded /\ Becomes(Goto(s, "release"))
      BY <1>1, <2>1, <2>3, <3>1, GotoFlows, LoadBecomes
    <3>3. QED
      BY <1>2, <2>2, <3>1, <3>2, LoadedQueue, GoStep DEF Inner
  <2>4. CASE flow[s].kind # "use"
    <3>1. queue' = Loaded /\ Becomes(Ended(s))
      BY <1>1, <2>1, <2>4, EndedFlows, LoadBecomes
    <3>2. QED
      BY <1>2, <2>2, <3>1, LoadedQueue, StopStep DEF Inner
  <2>5. QED
    BY <2>3, <2>4
<1>4. CASE ~(Cardinality(Loaded) >= Limit)
  BY <1>4, AppendKeeps
<1>5. QED
  BY <1>3, <1>4

\* A turn begins: its flow owns it.
LEMMA BegunFlow ==
  ASSUME Inv, NEW s \in Slot, NEW t, flow' = [flow EXCEPT ![s].pc = "execute", ![s].turn = t],
         flow[s].pc = "admit", t # None, flow[s].turn \in {None, t}
  PROVE  /\ Others(s) /\ flow'[s] = [flow[s] EXCEPT !.pc = "execute", !.turn = t]
         /\ flow'[s].pc = "execute" /\ flow'[s].turn = t /\ flow'[s].msg = flow[s].msg
         /\ flow'[s].item = flow[s].item /\ Shape(flow'[s]) /\ ~Owes(flow'[s]) /\ ~OwesTwo(flow'[s])
<1>1. flow \in [Slot -> Flows] /\ flow[s] \in Flows /\ Shape(flow[s])
  BY DEF Inv, Typed, Shapes
<1>2. flow'[s] = [flow[s] EXCEPT !.pc = "execute", !.turn = t]
      /\ \A r \in Slot \ {s} : flow'[r] = flow[r]
  BY <1>1
<1>3. /\ flow'[s].pc = "execute" /\ flow'[s].turn = t /\ flow'[s].msg = flow[s].msg
      /\ flow'[s].item = flow[s].item /\ flow'[s].kind = flow[s].kind
  BY <1>1, <1>2 DEF Flows
<1>4. Others(s)
  BY <1>2 DEF Others, Alike
<1>5. Shape(flow'[s])
  BY <1>1, <1>3 DEF Shape, Taking, Turning
<1>6. ~Owes(flow'[s]) /\ ~OwesTwo(flow'[s])
  BY <1>3 DEF Owes, OwesTwo, Taking
<1>7. QED
  BY <1>2, <1>3, <1>4, <1>5, <1>6

LEMMA BeginKeeps ==
  ASSUME Inv, NEW s \in Slot, flow[s].pc = "admit", Begin(s),
         UNCHANGED <<queue, parked, timeline, gate, active, control, stop, sent, owed, halted>>
  PROVE  Inv'
<1> DEFINE t == IF flow[s].turn = None THEN ids + 1 ELSE flow[s].turn
<1>1. /\ header' = [turn |-> t, live |-> "starting", owner |-> s, alive |-> TRUE, last |-> "none"]
      /\ flow' = [flow EXCEPT ![s].pc = "execute", ![s].turn = t]
      /\ ids' = (IF flow[s].turn = None THEN t ELSE ids) /\ budget' = budget
  BY DEF Begin
<1>2. ids \in Nat /\ flow \in [Slot -> Flows] /\ flow[s] \in Flows /\ Shape(flow[s])
  BY DEF Inv, Typed, Shapes
<1>3. /\ flow[s].turn = None => t = ids + 1
      /\ flow[s].turn # None => t = flow[s].turn
  OBVIOUS
<1> HIDE DEF t
<1>14. t # None /\ t \in Nat /\ flow[s].turn \in {None, t}
  <2>1. flow[s].turn \in Given \cup {None}
    BY <1>2 DEF Flows
  <2>2. ids + 1 \in Nat
    BY <1>2
  <2>3. CASE flow[s].turn = None
    BY <1>3, <2>2, <2>3, Words
  <2>4. CASE flow[s].turn # None
    BY <1>3, <2>1, <2>4, Words
  <2>5. QED
    BY <2>3, <2>4
<1>4. /\ Others(s) /\ flow'[s] = [flow[s] EXCEPT !.pc = "execute", !.turn = t]
      /\ flow'[s].pc = "execute" /\ flow'[s].turn = t /\ flow'[s].msg = flow[s].msg
      /\ flow'[s].item = flow[s].item /\ Shape(flow'[s]) /\ ~Owes(flow'[s]) /\ ~OwesTwo(flow'[s])
  BY <1>1, <1>14, BegunFlow
<1>5. /\ t \in Given' /\ Given \subseteq Given'
      /\ Items \subseteq Items' /\ Flows \subseteq Flows' /\ Pairs \subseteq Pairs' /\ Halts \subseteq Halts'
  <2>1. CASE flow[s].turn = None
    BY <1>1, <1>2, <1>3, <2>1, Wider
  <2>2. CASE flow[s].turn # None
    <3>1. ids' = ids /\ flow[s].turn \in Given
      BY <1>1, <1>2, <2>2 DEF Flows
    <3>2. Given' = Given /\ Items' = Items /\ Flows' = Flows /\ Pairs' = Pairs /\ Halts' = Halts
      BY <3>1 DEF Given, Items, Flows, Pairs, Halts
    <3>3. QED
      BY <1>3, <2>2, <3>1, <3>2
  <2>3. QED
    BY <2>1, <2>2
<1>6. Typed'
  <2>1. header' \in Headers'
    BY <1>1, <1>5 DEF Headers, Live
  <2>2. flow'[s] \in Flows'
    <3>1. flow[s] \in Flows'
      BY <1>2, <1>5
    <3>2. QED
      BY <1>4, <1>5, <3>1 DEF Flows, PC
  <2>3. flow' \in [Slot -> Flows']
    <3>1. flow' = [flow EXCEPT ![s] = flow'[s]]
      BY <1>1, <1>2
    <3>2. \A r \in Slot : flow[r] \in Flows'
      BY <1>2, <1>5
    <3>3. QED
      BY <1>2, <2>2, <3>1, <3>2
  <2>4. RestTyped'
    <3>1. Controls' = Controls /\ Budgets' = Budgets
      BY DEF Controls, Budgets
    <3>2. QED
      BY <1>1, <1>5, <3>1 DEF Inv, Typed, RestTyped
  <2>5. ids' \in Nat /\ queue' \subseteq Items'
    BY <1>1, <1>2, <1>14, <1>5 DEF Inv, Typed
  <2>6. QED
    BY <2>1, <2>3, <2>4, <2>5 DEF Typed
<1>7. Shapes'
  <2>1. ASSUME NEW r \in Slot \ {s} PROVE Shape(flow'[r])
    <3>1. Alike(flow'[r], flow[r]) /\ Shape(flow[r])
      BY <1>4 DEF Others, Inv, Shapes
    <3>2. QED
      BY <3>1 DEF Alike, Shape
  <2>2. QED
    BY <1>4, <2>1 DEF Shapes
<1>8. \A x \in queue : flow[s].turn = None => x.turn # t /\ flow[s].item # x.id
  <2>1. flow[s].turn = None => flow[s].item = None
    BY <1>2 DEF Shape, Flows
  <2>2. flow[s].turn = None => t \notin Given
    BY <1>2, <1>3 DEF Given
  <2>3. QED
    BY <2>1, <2>2, Words DEF Inv, Typed, Items
<1>9. Contents'
  <2>1. ASSUME NEW r \in Slot, NEW x \in queue
        PROVE  /\ flow'[r].turn = x.turn => flow'[r].msg = x.msg
               /\ flow'[r].item = x.id /\ flow'[r].turn # None => flow'[r].msg = x.msg
    <3>1. CASE r = s
      <4>1. CASE flow[s].turn = None
        BY <1>3, <1>4, <1>8, <3>1, <4>1
      <4>2. CASE flow[s].turn # None
        <5>1. flow'[s].turn = flow[s].turn /\ flow'[s].msg = flow[s].msg /\ flow'[s].item = flow[s].item
          BY <1>3, <1>4, <4>2
        <5>2. QED
          BY <3>1, <4>2, <5>1 DEF Inv, Contents, Belongs, Claims
      <4>3. QED
        BY <4>1, <4>2
    <3>2. CASE r # s
      BY <1>4, <3>2 DEF Inv, Contents, Belongs, Claims, Others, Alike
    <3>3. QED
      BY <3>1, <3>2
  <2>2. Belongs' /\ Claims'
    BY <2>1 DEF Belongs, Claims
  <2>3. SentOnes' /\ NothingLost' /\ Sole(queue') /\ Small(queue')
    BY DEF Inv, Contents, SentOnes, NothingLost
  <2>4. Accepted'
    BY <1>4 DEF Inv, Contents, Accepted, Others, Alike
  <2>5. QED
    BY <2>2, <2>3, <2>4 DEF Contents
<1>10. Owner'
  BY <1>1, <1>4 DEF Owner, Turning
<1>11. Headed'
  BY <1>1, <1>14, Words DEF Headed
<1>12. Counted'
  <2>1. \A r \in Slot : (Owes(flow'[r]) => Owes(flow[r])) /\ (OwesTwo(flow'[r]) => OwesTwo(flow[r]))
    <3>1. ASSUME NEW r \in Slot \ {s} PROVE (Owes(flow'[r]) => Owes(flow[r])) /\ (OwesTwo(flow'[r]) => OwesTwo(flow[r]))
      <4>1. Alike(flow'[r], flow[r])
        BY <1>4 DEF Others
      <4>2. QED
        BY <4>1 DEF Alike, Owes, OwesTwo
    <3>2. QED
      BY <1>4, <3>1
  <2>2. budget \in Budgets /\ Counted
    BY DEF Inv, Typed, RestTyped
  <2>3. CASE flow[s].turn = None
    <3>1. Owes(flow[s])
      BY <1>2, <2>3 DEF Shape, Owes, Taking, Flows
    <3>2. ids' = ids + 1
      BY <1>1, <1>3, <2>3
    <3>3. QED
      BY <1>1, <1>2, <1>4, <2>1, <2>2, <3>1, <3>2, CountSpent
  <2>4. CASE flow[s].turn # None
    BY <1>1, <1>2, <2>1, <2>2, <2>4, CountKept
  <2>5. QED
    BY <2>3, <2>4
<1>13. QED
  BY <1>6, <1>7, <1>9, <1>10, <1>11, <1>12 DEF Inv

LEMMA AdmitKeeps == ASSUME Inv, NEW s \in Slot, Admit(s) PROVE Inv'
<1>1. /\ flow[s].pc = "admit" /\ flow \in [Slot -> Flows] /\ flow[s] \in Flows /\ Shape(flow[s])
      /\ header \in Headers /\ budget \in Budgets
      /\ UNCHANGED <<queue, parked, timeline, gate, active, control, stop, sent, owed, halted>>
  BY DEF Admit, At, Inv, Typed, Shapes, RestTyped, file, history
<1>2. CASE header' = Inspected /\ ids' = ids /\ (budget' = budget \/ Spend("faults"))
           /\ ((Exists(s, Inspected) /\ flow[s].kind # "auto") \/ Refused(s) = flow')
  <2>1. header' \in Headers /\ HeaderKept
    BY <1>1, <1>2, Inspecting
  <2>2. header'.owner # s
    BY <1>1, <2>1, NotOwner DEF Inv, Turning
  <2>3. budget' \in Budgets /\ budget'.sends = budget.sends /\ budget'.uses = budget.uses
    BY <1>1, <1>2, Spending
  <2>4. Outer
    BY <1>1, <1>2, <2>3, RestKept DEF Outer, Inv, Typed, RestTyped
  <2>5. Inner
    BY <1>1, SameQueue DEF Inner
  <2>6. CASE flow' = Ended(s)
    BY <1>1, <2>1, <2>2, <2>4, <2>5, <2>6, FlowBecomes, EndedFlows, StopStep
  <2>7. ASSUME NEW pc \in {"recover", "release", "settle"}, flow' = Goto(s, pc), Way(flow[s], pc)
        PROVE  Inv'
    <3>1. pc \in PC
      BY DEF PC
    <3>2. Becomes(Goto(s, pc))
      BY <1>1, <2>7, <3>1, GotoFlows, FlowBecomes
    <3>3. QED
      BY <2>1, <2>2, <2>4, <2>5, <2>7, <3>1, <3>2, GoStep
  <2>8. /\ flow[s].kind = "use" => Way(flow[s], "release")
        /\ Way(flow[s], "settle")
        /\ flow[s].turn # None /\ flow[s].kind # "auto" /\ ~flow[s].again => Way(flow[s], "recover")
    BY <1>1 DEF Way
  <2>9. \/ flow' = Ended(s) \/ (flow' = Goto(s, "release") /\ flow[s].kind = "use")
        \/ flow' = Goto(s, "settle")
        \/ flow' = Goto(s, "recover") /\ flow[s].turn # None /\ flow[s].kind # "auto" /\ ~flow[s].again
    <3>1. flow[s].kind \in {"composer", "use", "auto"}
      BY <1>1 DEF Flows
    <3>2. QED
      BY <1>2, <3>1 DEF Exists, Refused
  <2>10. QED
    BY <2>6, <2>7, <2>8, <2>9
<1>3. CASE flow[s].kind = "auto" /\ flow' = Goto(s, "settle") /\ header' = Inspected
           /\ ids' = ids /\ budget' = budget
  BY <1>2, <1>3 DEF Refused
<1>4. CASE Begin(s)
  BY <1>1, <1>4, BeginKeeps
<1>5. QED
  BY <1>2, <1>3, <1>4 DEF Admit

(***************************************************************************)
(* The turn.                                                               *)
(***************************************************************************)
LEMMA SpendRest ==
  ASSUME budget \in Budgets, budget' = budget \/ Spend("faults")
  PROVE  budget' \in Budgets /\ budget'.sends = budget.sends /\ budget'.uses = budget.uses
  BY Spending

\* A step of a turn that leaves the file, the timeline and the gate alone.
LEMMA TurnStep ==
  ASSUME Inv, NEW s \in Slot, NEW pc \in PC,
         flow' = Goto(s, pc) \/ \E ok \in BOOLEAN : flow' = [flow EXCEPT ![s].pc = pc, ![s].ok = ok],
         Way(flow[s], pc), HeaderKept, header' \in Headers, pc \in Turning \/ header'.owner # s,
         UNCHANGED <<queue, parked, timeline, gate, stop, ids, sent, owed, halted>>,
         active' \subseteq active, control' \in Controls, budget' = budget \/ Spend("faults")
  PROVE  Inv'
<1>1. flow \in [Slot -> Flows] /\ budget \in Budgets /\ active \subseteq Pairs
  BY DEF Inv, Typed, RestTyped
<1>2. budget' \in Budgets /\ budget'.sends = budget.sends /\ budget'.uses = budget.uses
  BY <1>1, SpendRest
<1>3. Outer
  BY <1>1, <1>2, RestKept DEF Outer, Inv, Typed, RestTyped
<1>4. Inner
  BY SameQueue DEF Inner
<1>5. Moves(s, pc) /\ flow' \in [Slot -> Flows]
  <2>1. CASE flow' = Goto(s, pc)
    BY <1>1, <2>1, GotoFlows, FlowBecomes, Going
  <2>2. CASE \E ok \in BOOLEAN : flow' = [flow EXCEPT ![s].pc = pc, ![s].ok = ok]
    <3>1. PICK ok \in BOOLEAN : flow' = [flow EXCEPT ![s].pc = pc, ![s].ok = ok]
      BY <2>2
    <3>2. Becomes([flow EXCEPT ![s].pc = pc, ![s].ok = ok])
      BY <1>1, <3>1, WithFlows, FlowBecomes
    <3>3. QED
      BY <1>1, <3>2, GoingWith
  <2>3. QED
    BY <2>1, <2>2
<1>6. QED
  BY <1>3, <1>4, <1>5, MoveStep DEF Inner, Outer

LEMMA SameControl == ASSUME Inv, control' = control PROVE control' \in Controls
  BY DEF Inv, Typed, RestTyped, Controls

LEMMA SomeControl ==
  ASSUME Inv, NEW s \in Slot
  PROVE  /\ [by |-> s, st |-> "starting"] \in Controls /\ NoControl \in Controls
         /\ [control EXCEPT !.st = "stopped"] \in Controls /\ [control EXCEPT !.st = "accepted"] \in Controls
         /\ CancelledControl \in Controls
<1>1. control \in Controls
  BY DEF Inv, Typed, RestTyped
<1>2. QED
  BY <1>1 DEF Controls, NoControl, CancelledControl

LEMMA ExecuteKeeps == ASSUME Inv, NEW s \in Slot, Execute(s) PROVE Inv'
<1>1. /\ flow[s].pc = "execute" /\ header \in Headers
      /\ UNCHANGED <<queue, parked, timeline, gate, active, control, stop, ids, budget, sent, owed, halted>>
  BY DEF Execute, At, file, history, Inv, Typed
<1>2. CASE header.owner = s
  <2>1. flow' = Goto(s, "gate") /\ header' = [header EXCEPT !.live = "claimed"]
    BY <1>2 DEF Execute
  <2>2. "gate" \in PC /\ Way(flow[s], "gate") /\ "gate" \in Turning
    BY <1>1 DEF PC, Way, Turning
  <2>3. header' \in Headers /\ header'.turn = header.turn /\ header'.owner = header.owner
        /\ header'.live = "claimed" /\ header'.alive = header.alive
    BY <1>1, <2>1 DEF Headers, Live
  <2>4. /\ Moves(s, "gate") /\ flow' \in [Slot -> Flows]
    BY <2>1, <2>2, GotoFlows, FlowBecomes, Going, <1>1 DEF Inv, Typed
  <2>5. \A r \in Slot : header'.owner = r => flow'[r].turn = flow[r].turn /\ flow'[r].pc \in Turning
    BY <1>2, <2>2, <2>3, <2>4 DEF Moves
  <2>6. Shape(flow[s]) /\ flow[s] \in Flows
    BY DEF Inv, Typed, Shapes
  <2>7. Shape(flow'[s]) /\ (Owes(flow'[s]) => Owes(flow[s])) /\ (OwesTwo(flow'[s]) => OwesTwo(flow[s]))
    BY <2>2, <2>4, <2>6, WayShape DEF Moves
  <2>8. \A r \in Slot : Calm(r)
    <3>1. ASSUME NEW r \in Slot \ {s} PROVE Calm(r)
      <4>1. Alike(flow'[r], flow[r]) /\ Shape(flow[r])
        BY <2>4 DEF Moves, Others, Inv, Shapes
      <4>2. Shape(flow'[r])
        BY <4>1 DEF Alike, Shape
      <4>3. QED
        BY <2>5, <4>1, <4>2 DEF Calm, Alike, Owes, OwesTwo
    <3>2. Calm(s)
      BY <2>4, <2>5, <2>7 DEF Calm, Moves
    <3>3. QED
      BY <3>1, <3>2
  <2>9. RestTyped'
    BY <1>1, AllKept DEF Inv
  <2>10. Derived(queue') /\ Covers(queue')
    BY <1>1, SameQueue
  <2>11. Typed'
    BY <1>1, <2>3, <2>4, <2>9, <2>10, StillTyped DEF Inv
  <2>12. Shapes' /\ Contents' /\ Counted'
    BY <1>1, <2>8, <2>10, ContentsKept, CountKept DEF Inv, Typed, RestTyped, Calm, Shapes
  <2>13. Owner'
    BY <2>3, <2>5 DEF Inv, Owner
  <2>14. Headed'
    BY <1>1, <1>2, <2>3, Words DEF Inv, Owner, Headed
  <2>15. QED
    BY <2>11, <2>12, <2>13, <2>14 DEF Inv
<1>3. CASE header.owner # s
  <2>1. flow' = Goto(s, "settle") /\ header' = header
    BY <1>3 DEF Execute
  <2>2. "settle" \in PC /\ Way(flow[s], "settle")
    BY <1>1 DEF PC, Way
  <2>3. QED
    BY <1>1, <1>3, <2>1, <2>2, SameHeader, SameControl, TurnStep
<1>4. QED
  BY <1>2, <1>3

LEMMA TurnKeeps ==
  ASSUME Inv, NEW s \in Slot,
         \/ Gate(s) \/ Failed(s) \/ Start(s) \/ Break(s) \/ Interrupt(s)
         \/ Published(s) \/ Respond(s) \/ MarkStopped(s) \/ Write(s)
  PROVE  Inv'
<1> USE DEF At, file, session, history
<1>1. header \in Headers
  BY DEF Inv, Typed
<1>2. CASE Gate(s)
  <2>1. PICK pc \in {"failed", "lock"} : flow' = Goto(s, pc)
    BY <1>2 DEF Gate
  <2>2. pc \in PC /\ Way(flow[s], pc) /\ pc \in Turning
    BY <1>2 DEF Gate, PC, Way, Turning
  <2>3. QED
    BY <1>1, <1>2, <2>1, <2>2, SameHeader, SameControl, TurnStep DEF Gate
<1>3. CASE Failed(s)
  <2>1. "settle" \in PC /\ Way(flow[s], "settle") /\ header' \in Headers /\ HeaderKept /\ header'.owner # s
    BY <1>1, <1>3, Closing DEF Failed, PC, Way
  <2>2. QED
    BY <1>3, <2>1, SameControl, TurnStep DEF Failed
<1>4. CASE Start(s)
  <2>1. "start" \in PC /\ Way(flow[s], "start") /\ "start" \in Turning
    BY <1>4 DEF Start, PC, Way, Turning
  <2>2. QED
    BY <1>1, <1>4, <2>1, SameHeader, SomeControl, TurnStep DEF Start
<1>5. CASE Break(s)
  <2>1. "failed" \in PC /\ Way(flow[s], "failed") /\ "failed" \in Turning
    BY <1>5 DEF Break, PC, Way, Turning
  <2>2. QED
    BY <1>1, <1>5, <2>1, SameHeader, SomeControl, TurnStep DEF Break
<1>6. CASE Interrupt(s)
  <2>1. "unlock" \in PC /\ Way(flow[s], "unlock") /\ header' \in Headers /\ HeaderKept /\ header'.owner # s
    BY <1>1, <1>6, Closing DEF Interrupt, PC, Way, Turning
  <2>2. \E ok \in BOOLEAN : flow' = [flow EXCEPT ![s].pc = "unlock", ![s].ok = ok]
    BY <1>6 DEF Interrupt
  <2>3. QED
    BY <1>6, <2>1, <2>2, SameControl, TurnStep DEF Interrupt
<1>7. CASE Published(s)
  <2>1. "prompt" \in PC /\ Way(flow[s], "prompt") /\ "prompt" \in Turning /\ active' \subseteq active
    BY <1>7 DEF Published, PC, Way, Turning
  <2>2. QED
    BY <1>1, <1>7, <2>1, SameHeader, SameControl, TurnStep DEF Published
<1>8. CASE Respond(s)
  <2>1. "stop" \in PC /\ Way(flow[s], "stop") /\ "stop" \in Turning
    BY <1>8 DEF Respond, PC, Way, Turning
  <2>2. \E ok \in BOOLEAN : flow' = [flow EXCEPT ![s].pc = "stop", ![s].ok = ok]
    <3>1. (~CancelSeen(s)) \in BOOLEAN
      BY DEF CancelSeen
    <3>2. QED
      BY <1>8, <3>1 DEF Respond
  <2>3. QED
    BY <1>1, <1>8, <2>1, <2>2, SameHeader, SameControl, TurnStep DEF Respond
<1>9. CASE MarkStopped(s)
  <2>1. "write" \in PC /\ Way(flow[s], "write") /\ "write" \in Turning
    BY <1>9 DEF MarkStopped, PC, Way, Turning
  <2>2. QED
    BY <1>1, <1>9, <2>1, SameHeader, SomeControl, TurnStep DEF MarkStopped
<1>10. CASE Write(s)
  <2>1. "unlock" \in PC /\ Way(flow[s], "unlock") /\ header' \in Headers /\ HeaderKept /\ header'.owner # s
    BY <1>1, <1>10, Closing DEF Write, PC, Way, Turning
  <2>2. QED
    BY <1>10, <2>1, SameControl, TurnStep DEF Write
<1>11. QED
  BY <1>2, <1>3, <1>4, <1>5, <1>6, <1>7, <1>8, <1>9, <1>10

\* The prompt is in the timeline from now on, and its message sent.
LEMMA AcceptKeeps == ASSUME Inv, NEW s \in Slot, Accept(s) PROVE Inv'
<1>1. /\ flow[s].pc = "start" /\ flow' = Goto(s, "publish")
      /\ timeline' = timeline \cup {flow[s].turn}
      /\ sent' = [sent EXCEPT ![flow[s].msg] = @ + 1]
      /\ control' \in {control, [control EXCEPT !.st = "accepted"]}
      /\ UNCHANGED <<queue, parked, header, gate, active, stop, ids, budget, owed, halted>>
  BY DEF Accept, At, file
<1>2. /\ flow \in [Slot -> Flows] /\ flow[s] \in Flows /\ Shape(flow[s]) /\ header \in Headers
      /\ sent \in [Msg -> Nat]
  BY DEF Inv, Typed, Shapes, RestTyped
<1>3. "publish" \in PC
  BY DEF PC
<1>4. Moves(s, "publish") /\ flow' \in [Slot -> Flows]
  BY <1>1, <1>2, <1>3, GotoFlows, FlowBecomes, Going
<1>5. HeaderKept /\ \A r \in Slot : header'.owner = r => flow'[r].turn = flow[r].turn /\ flow'[r].pc \in Turning
  BY <1>1, <1>4 DEF HeaderKept, Moves, Others, Alike, Inv, Owner, Turning
<1>6. \A r \in Slot :
        /\ Shape(flow'[r]) /\ (Owes(flow'[r]) => Owes(flow[r])) /\ (OwesTwo(flow'[r]) => OwesTwo(flow[r]))
        /\ flow'[r].turn = flow[r].turn /\ flow'[r].msg = flow[r].msg /\ flow'[r].item = flow[r].item
        /\ r # s => flow'[r].pc = flow[r].pc
  <2>1. Shape(flow'[s])
    BY <1>1, <1>2, <1>4 DEF Moves, Shape, Taking, Turning
  <2>2. ~Owes(flow'[s]) /\ ~OwesTwo(flow'[s])
    BY <1>4 DEF Moves, Owes, OwesTwo, Taking
  <2>3. ASSUME NEW r \in Slot \ {s}
        PROVE  /\ Shape(flow'[r]) /\ (Owes(flow'[r]) => Owes(flow[r])) /\ (OwesTwo(flow'[r]) => OwesTwo(flow[r]))
               /\ flow'[r].turn = flow[r].turn /\ flow'[r].msg = flow[r].msg /\ flow'[r].item = flow[r].item
               /\ flow'[r].pc = flow[r].pc
    <3>1. Alike(flow'[r], flow[r]) /\ Shape(flow[r])
      BY <1>4 DEF Moves, Others, Inv, Shapes
    <3>2. Shape(flow'[r])
      BY <3>1 DEF Alike, Shape
    <3>3. QED
      BY <3>1, <3>2 DEF Alike, Owes, OwesTwo
  <2>4. QED
    BY <1>4, <2>1, <2>2, <2>3 DEF Moves
<1>7. sent' \in [Msg -> Nat] /\ \A m \in Msg : sent'[m] >= sent[m]
      /\ (flow[s].msg \in Msg => sent'[flow[s].msg] > 0)
  <2>1. CASE flow[s].msg \in Msg
    BY <1>1, <1>2, <2>1
  <2>2. CASE flow[s].msg \notin Msg
    <3>1. sent' = sent
      BY <1>1, <1>2, <2>2
    <3>2. QED
      BY <1>2, <2>2, <3>1
  <2>3. QED
    BY <2>1, <2>2
<1>8. Typed'
  <2>1. flow[s].turn \in Given
    BY <1>1, <1>2 DEF Shape, Turning, Flows
  <2>2. Given' = Given /\ Pairs' = Pairs /\ Halts' = Halts /\ Controls' = Controls /\ Budgets' = Budgets
    BY <1>1 DEF Given, Pairs, Halts, Controls, Budgets
  <2>3. control' \in Controls
    BY <1>1, SomeControl DEF Inv, Typed, RestTyped
  <2>4. RestTyped'
    BY <1>1, <1>7, <2>1, <2>2, <2>3 DEF Inv, Typed, RestTyped
  <2>5. QED
    BY <1>1, <1>2, <1>4, <2>4, SameIds DEF Inv, Typed
<1>9. SentOnes'
  <2> SUFFICES ASSUME NEW x \in queue, x.turn \in timeline' PROVE sent'[x.msg] > 0
    BY <1>1 DEF SentOnes
  <2>1. x.msg \in Msg
    BY DEF Inv, Typed, Items
  <2>2. CASE x.turn \in timeline
    <3>1. sent[x.msg] > 0
      BY <2>2 DEF Inv, Contents, SentOnes
    <3>2. sent[x.msg] \in Nat /\ sent'[x.msg] \in Nat /\ sent'[x.msg] >= sent[x.msg]
      BY <1>2, <1>7, <2>1
    <3>3. QED
      BY <3>1, <3>2
  <2>3. CASE x.turn = flow[s].turn
    <3>1. flow[s].msg = x.msg
      BY <2>3 DEF Inv, Contents, Belongs
    <3>2. QED
      BY <1>7, <2>1, <3>1
  <2>4. QED
    BY <1>1, <2>2, <2>3
<1>10. Belongs' /\ Claims'
  BY <1>1, <1>6 DEF Inv, Contents, Belongs, Claims
<1>11. NothingLost'
  <2> SUFFICES ASSUME NEW m \in owed PROVE sent'[m] > 0 \/ \E x \in queue : x.msg = m
    BY <1>1 DEF NothingLost
  <2>1. m \in Msg /\ sent[m] \in Nat /\ sent'[m] \in Nat /\ sent'[m] >= sent[m]
    BY <1>2, <1>7 DEF Inv, Typed, RestTyped
  <2>2. QED
    BY <2>1 DEF Inv, Contents, NothingLost
<1>16. Accepted'
  BY <1>1, <1>6 DEF Inv, Contents, Accepted
<1>12. Contents'
  BY <1>1, <1>9, <1>10, <1>11, <1>16 DEF Inv, Contents
<1>13. Shapes' /\ Counted'
  BY <1>1, <1>6, CountKept DEF Inv, Shapes, Typed, RestTyped
<1>14. Owner' /\ Headed'
  BY <1>1, <1>5, OwnerKept, HeadedKept DEF Inv
<1>15. QED
  BY <1>8, <1>12, <1>13, <1>14 DEF Inv

\* The item of an accepted prompt leaves the queue.
LEMMA PublishKeeps == ASSUME Inv, NEW s \in Slot, Publish(s) PROVE Inv'
<1> DEFINE done == {x \in queue : x.turn = flow[s].turn /\ x.st = "dispatching"}
<1>1. /\ flow[s].pc = "publish" /\ flow \in [Slot -> Flows] /\ header \in Headers
      /\ UNCHANGED <<header, parked, timeline, gate, active, control, stop, ids, budget, sent, owed, halted>>
  BY DEF Publish, At, Inv, Typed, session, history
<1>2. Outer
  BY <1>1, AllKept DEF Outer, Inv
<1>3. \A pc \in {"prompt", "published"} : /\ pc \in PC /\ Way(flow[s], pc) /\ pc \in Turning
                                         /\ Goto(s, pc) \in [Slot -> Flows]
  BY <1>1, GotoFlows DEF PC, Way, Turning
<1>4. CASE queue' = queue /\ \E pc \in {"prompt", "published"} : flow' = Goto(s, pc)
  <2>1. PICK pc \in {"prompt", "published"} : flow' = Goto(s, pc)
    BY <1>4
  <2>2. QED
    BY <1>1, <1>2, <1>3, <1>4, <2>1, FlowBecomes, SameQueue, SameHeader, GoStep DEF Inner
<1>5. CASE Persist(queue \ done, Goto(s, "published"))
  <2>1. queue' = queue \ done /\ Becomes(Goto(s, "published"))
    BY <1>3, <1>5, PersistBecomes
  <2>2. flow[s].turn \in timeline => Inner
    BY <2>1, SentLeave DEF Inner, Inv, Contents
  <2>3. flow[s].turn \in timeline
    BY <1>1 DEF Inv, Contents, Accepted
  <2>4. QED
    BY <1>1, <1>2, <1>3, <2>1, <2>2, <2>3, SameHeader, GoStep
<1>6. QED
  BY <1>4, <1>5 DEF Publish

(***************************************************************************)
(* After a turn.                                                           *)
(***************************************************************************)
\* A settlement: the items that leave were sent.
LEMMA Settling ==
  ASSUME Inv, NEW s \in Slot, NEW pc \in PC, NEW next, next \in [Slot -> Flows],
         SettleItem(s, pc, next)
  PROVE  Inner /\ (Becomes(next) \/ Becomes(Goto(s, pc)))
<1> DEFINE mine == {x \in queue : /\ x.turn = flow[s].turn /\ x.st = "dispatching"
                                  /\ [turn |-> x.turn, item |-> x.id] \in active}
<1>1. Goto(s, pc) \in [Slot -> Flows] /\ Derived(queue) /\ Covers(queue) /\ Typed /\ Sole(queue)
  BY GotoFlows, Itself DEF Inv, Typed, Contents
<1>2. CASE mine = {}
  <2>1. flow' = next /\ queue' = queue
    BY <1>2 DEF SettleItem
  <2>2. QED
    BY <2>1, <1>1, FlowBecomes DEF Inner
<1>3. CASE mine # {}
  <2>1. PICK x \in mine :
          Persist(IF x.turn \in timeline THEN queue \ {x} ELSE Put(queue, x, "queued"), Goto(s, pc))
    BY <1>3 DEF SettleItem
  <2>2. x \in queue
    BY <2>1
  <2>3. CASE x.turn \in timeline
    <3>1. queue' = queue \ {x} /\ Becomes(Goto(s, pc))
      BY <1>1, <2>1, <2>3, PersistBecomes
    <3>2. QED
      BY <1>1, <2>3, <3>1, SentLeave DEF Inner
  <2>4. CASE x.turn \notin timeline
    <3>1. queue' = Put(queue, x, "queued") /\ Becomes(Goto(s, pc))
      BY <1>1, <2>1, <2>4, PersistBecomes
    <3>2. QED
      BY <1>1, <2>2, <3>1, PutDerived DEF Inner
  <2>5. QED
    BY <2>3, <2>4
<1>4. QED
  BY <1>2, <1>3

LEMMA UnlockKeeps == ASSUME Inv, NEW s \in Slot, Unlock(s) PROVE Inv'
<1>1. /\ flow[s].pc = "unlock" /\ flow' = Goto(s, "notify") /\ control' = NoControl
      /\ UNCHANGED <<header, queue, parked, timeline, gate, active, stop, ids, budget, sent, owed, halted>>
  BY DEF Unlock, At, file, history
<1>2. "notify" \in PC /\ Way(flow[s], "notify")
  BY <1>1 DEF PC, Way
<1>3. HeaderKept /\ header' \in Headers /\ header'.owner # s
  BY <1>1, Aside DEF Turning
<1>4. QED
  BY <1>1, <1>2, <1>3, SomeControl, TurnStep

LEMMA SettlementKeeps ==
  ASSUME Inv, NEW s \in Slot, Notify(s) \/ Settle(s) PROVE Inv'
<1>1. /\ flow[s].pc \in {"notify", "settle"} /\ flow \in [Slot -> Flows]
      /\ UNCHANGED <<header, parked, timeline, gate, active, control, stop, ids, budget, sent, owed, halted>>
  BY DEF Notify, Settle, At, session, history, Inv, Typed
<1>2. HeaderKept /\ header' \in Headers /\ header'.owner # s
  BY <1>1, Aside DEF Turning
<1>3. Outer
  BY <1>1, AllKept DEF Outer, Inv
<1>4. CASE Notify(s)
  <2>1. \A pc \in {"notified", "drain"} : /\ pc \in PC /\ Goto(s, pc) \in [Slot -> Flows]
                                          /\ Way(flow[s], pc)
    BY <1>1, <1>4, GotoFlows DEF PC, Way, Notify, At
  <2>2. SettleItem(s, "notified", Goto(s, "drain"))
    BY <1>4 DEF Notify
  <2>3. Inner /\ \E pc \in {"notified", "drain"} : Becomes(Goto(s, pc))
    BY <2>1, <2>2, Settling
  <2>4. QED
    BY <1>2, <1>3, <2>1, <2>3, GoStep
<1>5. CASE Settle(s)
  <2>1. "clear" \in PC /\ Way(flow[s], "clear") /\ Ended(s) \in [Slot -> Flows]
    BY <1>1, EndedFlows DEF PC, Way
  <2>2. SettleItem(s, "clear", Ended(s))
    BY <1>5 DEF Settle
  <2>3. Inner /\ (Becomes(Ended(s)) \/ Becomes(Goto(s, "clear")))
    BY <2>1, <2>2, Settling
  <2>4. QED
    BY <1>2, <1>3, <2>1, <2>3, GoStep, StopStep
<1>6. QED
  BY <1>4, <1>5

LEMMA ClearingKeeps ==
  ASSUME Inv, NEW s \in Slot, Notified(s) \/ Clear(s) \/ Untrack(s) PROVE Inv'
<1>1. /\ flow[s].pc \in {"notified", "clear", "rename"} /\ flow \in [Slot -> Flows]
      /\ active' \subseteq active
      /\ UNCHANGED <<header, queue, parked, timeline, gate, control, stop, ids, budget, sent, owed, halted>>
  BY DEF Notified, Clear, Untrack, Untracked, At, file, session, history, Inv, Typed
<1>2. HeaderKept /\ header' \in Headers /\ header'.owner # s
  BY <1>1, Aside DEF Turning
<1>3. Outer
  BY <1>1, RestKept DEF Outer, Inv, Typed, RestTyped
<1>4. Inner
  BY <1>1, SameQueue DEF Inner
<1>5. CASE flow' = Ended(s)
  BY <1>1, <1>2, <1>3, <1>4, <1>5, FlowBecomes, EndedFlows, StopStep
<1>6. CASE flow' = Goto(s, "drain")
  <2>1. "drain" \in PC /\ Way(flow[s], "drain")
    BY <1>1 DEF PC, Way
  <2>2. QED
    BY <1>1, <1>2, <1>3, <1>4, <1>6, <2>1, FlowBecomes, GotoFlows, GoStep
<1>7. CASE flow' = Goto(s, "track") /\ flow[s].pc = "rename"
  <2>1. "track" \in PC /\ Way(flow[s], "track")
    BY <1>7 DEF PC, Way
  <2>2. QED
    BY <1>1, <1>2, <1>3, <1>4, <1>7, <2>1, FlowBecomes, GotoFlows, GoStep
<1>8. QED
  BY <1>5, <1>6, <1>7 DEF Notified, Clear, Untrack, At

LEMMA TrackKeeps == ASSUME Inv, NEW s \in Slot, Track(s) PROVE Inv'
<1>1. /\ flow[s].pc = "track" /\ flow \in [Slot -> Flows] /\ flow' = Goto(s, "check")
      /\ active' = active \cup {[turn |-> flow[s].turn, item |-> flow[s].item]}
      /\ UNCHANGED <<header, queue, parked, timeline, gate, control, stop, ids, budget, sent, owed, halted>>
  BY DEF Track, At, file, session, history, Inv, Typed
<1>2. HeaderKept /\ header' \in Headers /\ header'.owner # s
  BY <1>1, Aside DEF Turning
<1>3. [turn |-> flow[s].turn, item |-> flow[s].item] \in Pairs
  <2>1. Shape(flow[s]) /\ flow[s] \in Flows
    BY <1>1 DEF Inv, Shapes
  <2>2. flow[s].turn \in Given /\ flow[s].item \in Given
    BY <1>1, <2>1 DEF Shape, Flows
  <2>3. QED
    BY <2>2 DEF Pairs
<1>4. Outer
  BY <1>1, <1>3, RestKept DEF Outer, Inv, Typed, RestTyped
<1>5. Inner
  BY <1>1, SameQueue DEF Inner
<1>6. "check" \in PC /\ Way(flow[s], "check")
  BY <1>1 DEF PC, Way
<1>7. QED
  BY <1>1, <1>2, <1>4, <1>5, <1>6, FlowBecomes, GotoFlows, GoStep

(***************************************************************************)
(* The automatic dispatch.                                                 *)
(***************************************************************************)
LEMMA FireKeeps == ASSUME Inv, NEW s \in Slot, Fire(s) \/ Claimed(s) PROVE Inv'
<1>1. /\ flow[s].pc \in {"armed", "claimed"} /\ flow \in [Slot -> Flows] /\ Shape(flow[s])
      /\ UNCHANGED <<header, queue, parked, timeline, gate, active, control, stop, ids, budget,
                     sent, owed, halted>>
  BY DEF Fire, Claimed, At, file, session, history, Inv, Typed, Shapes
<1>2. HeaderKept /\ header' \in Headers /\ header'.owner # s
  BY <1>1, Aside DEF Turning
<1>3. Outer
  BY <1>1, AllKept DEF Outer, Inv
<1>4. Inner
  BY <1>1, SameQueue DEF Inner
<1>5. CASE flow' = Ended(s)
  BY <1>1, <1>2, <1>3, <1>4, <1>5, FlowBecomes, EndedFlows, StopStep
<1>6. ASSUME NEW pc \in {"next", "release", "admit"}, flow' = Goto(s, pc), Way(flow[s], pc)
      PROVE  Inv'
  <2>1. pc \in PC
    BY DEF PC
  <2>2. QED
    BY <1>1, <1>2, <1>3, <1>4, <1>6, <2>1, FlowBecomes, GotoFlows, GoStep
<1>7. CASE Fire(s)
  <2>1. Way(flow[s], "next")
    BY <1>7 DEF Fire, At, Way
  <2>2. QED
    BY <1>5, <1>6, <1>7, <2>1 DEF Fire
<1>8. CASE Claimed(s)
  <2>1. flow[s].pc = "claimed"
    BY <1>8 DEF Claimed, At
  <2>2. flow[s].kind # "composer"
    BY <1>1, <2>1 DEF Shape
  <2>3. Way(flow[s], "release")
    BY <2>1, <2>2 DEF Way
  <2>4. flow[s].kind = "auto" => Way(flow[s], "admit")
    BY <2>1 DEF Way
  <2>5. flow[s].kind = "auto"
    BY <2>1, <1>1 DEF Shape
  <2>6. QED
    BY <1>6, <1>8, <2>3, <2>4, <2>5 DEF Claimed
<1>9. QED
  BY <1>7, <1>8

LEMMA ReleaseKeeps == ASSUME Inv, NEW s \in Slot, Release(s) PROVE Inv'
<1> DEFINE p == {IF x.id = flow[s].item THEN [x EXCEPT !.st = "queued"] ELSE x : x \in Loaded}
<1>1. /\ flow[s].pc = "release" /\ flow \in [Slot -> Flows] /\ Persist(p, Goto(s, "clear"))
      /\ UNCHANGED <<header, parked, timeline, gate, active, control, stop, ids, budget,
                     sent, owed, halted>>
  BY DEF Release, At, session, history, Inv, Typed
<1>2. HeaderKept /\ header' \in Headers /\ header'.owner # s
  BY <1>1, Aside DEF Turning
<1>3. Outer
  BY <1>1, AllKept DEF Outer, Inv
<1>4. "clear" \in PC /\ Way(flow[s], "clear")
  BY <1>1 DEF PC, Way
<1>5. Derived(Loaded) /\ Covers(Loaded)
  BY LoadedDerived DEF Inv, Contents
<1>6. Derived(p) /\ Covers(p)
  BY <1>5, ReleaseDerived
<1> HIDE DEF p
<1>7. queue' = p /\ Becomes(Goto(s, "clear"))
  BY <1>1, <1>4, GotoFlows, PersistBecomes
<1>8. QED
  BY <1>2, <1>3, <1>4, <1>6, <1>7, GoStep DEF Inner

\* A drain settles its turn next, and may arm a dispatch in another slot.
LEMMA DrainKeeps == ASSUME Inv, NEW s \in Slot, Drain(s) PROVE Inv'
<1>1. /\ flow[s].pc = "drain" /\ flow \in [Slot -> Flows]
      /\ UNCHANGED <<header, parked, timeline, gate, active, control, stop, ids, budget,
                     sent, owed, halted>>
  BY DEF Drain, At, session, history, Inv, Typed
<1>2. HeaderKept /\ header' \in Headers /\ header'.owner # s
  BY <1>1, Aside DEF Turning
<1>3. Outer
  BY <1>1, AllKept DEF Outer, Inv
<1>4. "settle" \in PC /\ Way(flow[s], "settle")
  BY <1>1 DEF PC, Way
<1>5. CASE ~MayDrain(s)
  <2>1. queue' = Loaded /\ Becomes(Goto(s, "settle"))
    BY <1>1, <1>4, <1>5, GotoFlows, LoadBecomes DEF Drain
  <2>2. QED
    BY <1>2, <1>3, <1>4, <2>1, LoadedQueue, GoStep DEF Inner
<1>6. CASE MayDrain(s)
  <2> DEFINE f == IF Loaded = queue THEN flow
                  ELSE [r \in Slot |-> [flow[r] EXCEPT !.fresh = FALSE]]
             a == [Free EXCEPT !.pc = "armed", !.kind = "auto", !.fresh = TRUE]
  <2>1. /\ Spare # {} /\ queue' = Loaded
        /\ flow' = [f EXCEPT ![s].pc = "settle", ![NextSlot] = a]
    BY <1>6 DEF Drain
  <2>2. NextSlot \in Slot /\ NextSlot # s /\ flow[NextSlot].pc = "free"
    BY <1>1, <2>1, SpareSlot
  <2>3. f \in [Slot -> Flows] /\ \A r \in Slot : Alike(f[r], flow[r])
    <3>1. \A g \in Flows : /\ [g EXCEPT !.fresh = FALSE] \in Flows
                           /\ Alike([g EXCEPT !.fresh = FALSE], g) /\ Alike(g, g)
      BY DEF Flows, Alike
    <3>2. QED
      BY <1>1, <3>1
  <2>4. a \in Flows /\ Shape(a) /\ ~Owes(a) /\ ~OwesTwo(a) /\ a.turn = None /\ a.pc = "armed"
    <3>1. a \in Flows /\ a.pc = "armed" /\ a.kind = "auto" /\ a.item = None /\ a.turn = None
          /\ a.again = FALSE
      BY DEF Free, Flows, PC
    <3> HIDE DEF a
    <3>2. QED
      BY <3>1 DEF Shape, Owes, OwesTwo, Taking, Turning
  <2> HIDE DEF f, a
  <2>5. [f[s] EXCEPT !.pc = "settle"] \in Flows
    BY <1>4, <2>3 DEF Flows
  <2>6. /\ flow' \in [Slot -> Flows] /\ flow'[NextSlot] = a
        /\ flow'[s] = [f[s] EXCEPT !.pc = "settle"]
        /\ \A r \in Slot \ {s, NextSlot} : flow'[r] = f[r]
    <3>1. flow' = [[f EXCEPT ![s] = [f[s] EXCEPT !.pc = "settle"]] EXCEPT ![NextSlot] = a]
      BY <2>1
    <3>2. QED
      BY <2>2, <2>3, <2>4, <2>5, <3>1
  <2>7. Calm(NextSlot)
    <3>1. header'.owner # NextSlot
      BY <1>2, <2>2, NotOwner DEF Inv, Turning
    <3>2. QED
      BY <2>4, <2>6, <3>1 DEF Calm
  <2>8. Calm(s)
    <3>1. /\ flow'[s].pc = "settle" /\ flow'[s].kind = flow[s].kind /\ flow'[s].msg = flow[s].msg
          /\ flow'[s].item = flow[s].item /\ flow'[s].turn = flow[s].turn
          /\ flow'[s].again = flow[s].again
      BY <2>3, <2>6 DEF Alike, Flows
    <3>2. Shape(flow[s]) /\ flow[s] \in Flows
      BY <1>1 DEF Inv, Shapes
    <3>3. Shape(flow'[s]) /\ (Owes(flow'[s]) => Owes(flow[s])) /\ (OwesTwo(flow'[s]) => OwesTwo(flow[s]))
      BY <1>4, <3>1, <3>2, WayShape
    <3>4. QED
      BY <1>2, <3>1, <3>3 DEF Calm
  <2>9. \A r \in Slot \ {s, NextSlot} : Calm(r)
    BY <1>2, <2>3, <2>6, AlikeCalm DEF Inv
  <2>10. \A r \in Slot : Calm(r)
    BY <2>7, <2>8, <2>9
  <2>11. Derived(queue') /\ Covers(queue')
    BY <2>1, LoadedQueue
  <2>12. Typed'
    BY <1>2, <1>3, <2>6, <2>11, StillTyped DEF Inv, Outer
  <2>13. QED
    BY <1>2, <1>3, <2>10, <2>11, <2>12, CalmStep DEF Outer
<1>7. QED
  BY <1>5, <1>6

(***************************************************************************)
(* A flow takes an item.                                                   *)
(***************************************************************************)
Took(s, x) == flow'[s].turn = x.turn /\ flow'[s].item = x.id /\ flow'[s].msg = x.msg

LEMMA TakeStep ==
  ASSUME Inv, NEW s \in Slot, NEW x \in queue, Others(s), Took(s, x), flow' \in [Slot -> Flows],
         Shape(flow'[s]), Owes(flow'[s]) => Owes(flow[s]), OwesTwo(flow'[s]) => OwesTwo(flow[s]),
         flow'[s].pc # "publish", flow[s].pc \notin Turning, header' = header, Inner, Outer
  PROVE  Inv'
<1>1. HeaderKept /\ header' \in Headers /\ header'.owner # s
  BY Aside
<1>2. \A r \in Slot \ {s} : Calm(r)
  BY <1>1, AlikeCalm DEF Others, Inv
<1>3. \A y \in queue' : \E w \in queue : Twin(y, w)
  BY DEF Inner, Derived
<1>4. \A y \in queue' : y.turn # None
  BY Words DEF Inner, Derived, Items
<1>5. Sole(queue') /\ Small(queue')
  BY NoMore DEF Inner, Derived, Inv, Contents
<1>6. SentOnes'
  BY <1>3 DEF Inv, Contents, SentOnes, Twin, Outer
<1>7. ASSUME NEW y \in queue'
      PROVE  /\ flow'[s].turn = y.turn => flow'[s].msg = y.msg
             /\ flow'[s].item = y.id => flow'[s].msg = y.msg
  <2>1. PICK w \in queue : Twin(y, w)
    BY <1>3
  <2>2. x.turn = w.turn \/ x.id = w.id => x = w
    BY DEF Inv, Contents, Sole
  <2>3. QED
    BY <2>1, <2>2 DEF Took, Twin
<1>8. Belongs' /\ Claims'
  <2>1. ASSUME NEW r \in Slot \ {s}, NEW y \in queue'
        PROVE  /\ flow'[r].turn = y.turn => flow'[r].msg = y.msg
               /\ flow'[r].item = y.id /\ flow'[r].turn # None => flow'[r].msg = y.msg
    BY <1>2, <1>3, <1>4 DEF Calm, Twin, Inv, Contents, Belongs, Claims
  <2>2. QED
    BY <1>7, <2>1 DEF Belongs, Claims
<1>9. Accepted'
  BY <1>2 DEF Inv, Contents, Accepted, Calm, Outer
<1>10. NothingLost'
  BY StillThere DEF Inner, Outer, Inv
<1>11. Contents'
  BY <1>5, <1>6, <1>8, <1>9, <1>10 DEF Contents
<1>12. Owner' /\ Headed'
  BY <1>1, <1>2, OwnerKept, HeadedKept DEF Inv, Calm, Outer
<1>13. Shapes' /\ Counted'
  BY <1>2, CountKept DEF Shapes, Calm, Outer, Inv, Typed, RestTyped
<1>14. Typed'
  BY <1>1, StillTyped DEF Inner, Outer, Inv
<1>15. QED
  BY <1>11, <1>12, <1>13, <1>14 DEF Inv

LEMMA TrackedPairs == ASSUME Typed, NEW x \in Items PROVE Tracked(x) \subseteq Pairs
  BY DEF Tracked, Typed, RestTyped, Items, Pairs

LEMMA ClaimNextKeeps == ASSUME Inv, NEW s \in Slot, ClaimNext(s) PROVE Inv'
<1>1. /\ flow[s].pc = "next" /\ flow \in [Slot -> Flows] /\ flow[s] \in Flows /\ Shape(flow[s])
      /\ queue \subseteq Items
      /\ UNCHANGED <<header, parked, timeline, gate, control, stop, ids, budget, sent, owed, halted>>
  BY DEF ClaimNext, At, session, history, Inv, Typed, Shapes
<1>2. CASE Preempted(s) \/ parked \/ gate \/ Queued(queue) = {}
  <2>1. queue' = Loaded /\ Becomes(Ended(s)) /\ active' = active
    BY <1>1, <1>2, EndedFlows, LoadBecomes DEF ClaimNext
  <2>2. HeaderKept /\ header' \in Headers /\ header'.owner # s
    BY <1>1, Aside DEF Turning
  <2>3. Outer
    BY <1>1, <2>1, AllKept DEF Outer, Inv
  <2>4. QED
    BY <2>1, <2>2, <2>3, LoadedQueue, StopStep DEF Inner
<1>3. CASE ~(Preempted(s) \/ parked \/ gate \/ Queued(queue) = {})
  <2> DEFINE x == First(Queued(queue))
             g == [flow[s] EXCEPT !.pc = "claimed", !.item = x.id, !.turn = x.turn, !.msg = x.msg]
             f == [flow EXCEPT ![s].pc = "claimed", ![s].item = x.id, ![s].turn = x.turn,
                               ![s].msg = x.msg]
  <2>1. Persist(Put(queue, x, "dispatching"), f) /\ active' = Tracked(x)
    BY <1>3 DEF ClaimNext
  <2>2. x \in queue
    BY <1>3, FirstIn DEF Queued, Inv
  <2> HIDE DEF x
  <2>3. /\ x \in Items /\ x.id \in Given /\ x.turn \in Given /\ x.msg \in Msg
        /\ x.id # None /\ x.turn # None /\ x.msg # None
    BY <1>1, <2>2, Words DEF Items
  <2>4. g \in Flows /\ g.pc = "claimed" /\ g.item = x.id /\ g.turn = x.turn /\ g.msg = x.msg
        /\ g.kind = flow[s].kind /\ g.again = flow[s].again
    BY <1>1, <2>3 DEF Flows, PC
  <2>5. f = [flow EXCEPT ![s] = g]
    BY <1>1
  <2> HIDE DEF g, f
  <2>6. f \in [Slot -> Flows] /\ f[s] = g /\ \A r \in Slot \ {s} : f[r] = flow[r]
    BY <1>1, <2>4, <2>5
  <2>7. queue' = Put(queue, x, "dispatching") /\ Becomes(f)
    BY <2>1, <2>6, PersistBecomes
  <2>8. flow' \in [Slot -> Flows] /\ Others(s) /\ Alike(flow'[s], g)
    BY <2>6, <2>7 DEF Becomes, Others
  <2>9. Took(s, x) /\ flow'[s].pc = "claimed" /\ flow'[s].kind = "auto"
    BY <1>1, <2>4, <2>8 DEF Took, Alike, Shape
  <2>10. Shape(flow'[s]) /\ ~Owes(flow'[s]) /\ ~OwesTwo(flow'[s])
    BY <2>3, <2>9 DEF Took, Shape, Owes, OwesTwo, Taking, Turning
  <2>11. Inner
    BY <2>2, <2>7, Itself, PutDerived DEF Inner, Inv, Contents
  <2>12. Outer
    BY <1>1, <2>1, <2>3, TrackedPairs, RestKept DEF Outer, Inv, Typed, RestTyped
  <2>13. QED
    BY <1>1, <2>2, <2>8, <2>9, <2>10, <2>11, <2>12, TakeStep DEF Turning
<1>4. QED
  BY <1>2, <1>3

LEMMA ClaimUsedKeeps == ASSUME Inv, NEW s \in Slot, ClaimUsed(s) PROVE Inv'
<1> DEFINE mine == {x \in Loaded : x.id = flow[s].item /\ x.st = "queued"}
<1>1. /\ flow[s].pc = "claim" /\ flow \in [Slot -> Flows] /\ flow[s] \in Flows /\ Shape(flow[s])
      /\ UNCHANGED <<header, timeline, control, stop, ids, budget, sent, owed>>
  BY DEF ClaimUsed, At, session, Inv, Typed, Shapes
<1>2. CASE mine = {}
  <2>1. queue' = Loaded /\ Becomes(Ended(s)) /\ UNCHANGED <<parked, gate, active, halted>>
    BY <1>1, <1>2, EndedFlows, LoadBecomes DEF ClaimUsed
  <2>2. HeaderKept /\ header' \in Headers /\ header'.owner # s
    BY <1>1, Aside DEF Turning
  <2>3. Outer
    BY <1>1, <2>1, AllKept DEF Outer, Inv
  <2>4. QED
    BY <2>1, <2>2, <2>3, LoadedQueue, StopStep DEF Inner
<1>3. CASE mine # {}
  <2>1. PICK x \in mine :
          /\ Persist(Put(Loaded, x, "dispatching"),
                     [flow EXCEPT ![s].pc = "check", ![s].turn = x.turn, ![s].msg = x.msg])
          /\ active' = Tracked(x) /\ parked' = FALSE /\ OpenGate
    BY <1>3 DEF ClaimUsed
  <2> DEFINE g == [flow[s] EXCEPT !.pc = "check", !.turn = x.turn, !.msg = x.msg]
             f == [flow EXCEPT ![s].pc = "check", ![s].turn = x.turn, ![s].msg = x.msg]
  <2>2. x \in Loaded /\ x.id = flow[s].item /\ Derived(Loaded) /\ Covers(Loaded)
    BY LoadedDerived DEF Inv, Contents
  <2>3. /\ x \in Items /\ x.turn \in Given /\ x.msg \in Msg /\ x.id # None
        /\ x.turn # None /\ x.msg # None
    BY <2>2, Words DEF Derived, Items
  <2>4. PICK w \in queue : Twin(x, w)
    BY <2>2 DEF Derived
  <2>5. g \in Flows /\ g.pc = "check" /\ g.item = x.id /\ g.turn = x.turn /\ g.msg = x.msg
        /\ g.kind = flow[s].kind /\ g.again = flow[s].again
    BY <1>1, <2>2, <2>3 DEF Flows, PC
  <2>6. f = [flow EXCEPT ![s] = g]
    BY <1>1
  <2> HIDE DEF g, f
  <2>7. f \in [Slot -> Flows] /\ f[s] = g /\ \A r \in Slot \ {s} : f[r] = flow[r]
    BY <1>1, <2>5, <2>6
  <2>8. queue' = Put(Loaded, x, "dispatching") /\ Becomes(f)
    BY <2>1, <2>7, PersistBecomes DEF f
  <2>9. flow' \in [Slot -> Flows] /\ Others(s) /\ Alike(flow'[s], g)
    BY <2>7, <2>8 DEF Becomes, Others
  <2>10. Took(s, w) /\ Took(s, x) /\ flow'[s].pc = "check" /\ flow'[s].kind = "use" /\ ~flow'[s].again
    BY <1>1, <2>4, <2>5, <2>9 DEF Took, Alike, Shape, Twin
  <2>11. Shape(flow'[s])
    BY <2>3, <2>10 DEF Took, Shape, Taking, Turning
  <2>12. Owes(flow[s]) /\ OwesTwo(flow[s])
    BY <1>1 DEF Shape, Owes, OwesTwo
  <2>13. Inner
    BY <2>2, <2>8, PutDerived DEF Inner
  <2>14. Outer
    BY <1>1, <2>1, <2>3, TrackedPairs, RestKept DEF Outer, Inv, Typed, RestTyped, OpenGate, Halts
  <2>15. QED
    BY <1>1, <2>4, <2>9, <2>10, <2>11, <2>12, <2>13, <2>14, TakeStep DEF Turning
<1>4. QED
  BY <1>2, <1>3

(***************************************************************************)
(* A failed use is tried once more, under a new turn.                      *)
(***************************************************************************)
LEMMA RecoverKeeps == ASSUME Inv, NEW s \in Slot, Recover(s) PROVE Inv'
<1> DEFINE mine == {x \in queue : x.id = flow[s].item /\ x.st = "dispatching"}
<1>1. /\ flow[s].pc = "recover" /\ flow \in [Slot -> Flows] /\ flow[s] \in Flows /\ Shape(flow[s])
      /\ queue \subseteq Items /\ ids \in Nat
      /\ UNCHANGED <<header, parked, timeline, gate, active, control, stop, budget, sent, owed, halted>>
  BY DEF Recover, At, session, history, Inv, Typed, Shapes
<1>2. HeaderKept /\ header' \in Headers /\ header'.owner # s
  BY <1>1, Aside DEF Turning
<1>3. "clear" \in PC /\ Way(flow[s], "clear") /\ Goto(s, "clear") \in [Slot -> Flows]
  BY <1>1, GotoFlows DEF PC, Way
<1>4. CASE mine = {}
  <2>1. flow' = Goto(s, "clear") /\ queue' = queue /\ ids' = ids
    BY <1>4 DEF Recover
  <2>2. Outer
    BY <1>1, <2>1, AllKept DEF Outer, Inv
  <2>3. QED
    BY <1>2, <1>3, <2>1, <2>2, FlowBecomes, SameQueue, GoStep DEF Inner
<1>5. CASE mine # {}
  <2>1. PICK x \in mine :
          IF x.turn \in timeline
          THEN Persist(queue \ {x}, Goto(s, "clear")) /\ UNCHANGED ids
          ELSE /\ ids' = ids + 1
               /\ Persist((queue \ {x}) \cup {[x EXCEPT !.turn = ids + 1]},
                          [flow EXCEPT ![s].pc = "rename", ![s].turn = ids + 1, ![s].again = TRUE])
    BY <1>5 DEF Recover
  <2>2. x \in queue /\ x.id = flow[s].item
    BY <2>1
  <2>3. CASE x.turn \in timeline
    <3>1. queue' = queue \ {x} /\ Becomes(Goto(s, "clear")) /\ ids' = ids
      BY <1>3, <2>1, <2>3, PersistBecomes
    <3>2. Outer
      BY <1>1, <3>1, AllKept DEF Outer, Inv
    <3>3. Inner
      BY <2>3, <3>1, SentLeave DEF Inner, Inv, Contents
    <3>4. QED
      BY <1>2, <1>3, <3>1, <3>2, <3>3, GoStep
  <2>4. CASE x.turn \notin timeline
    <3> DEFINE n == ids + 1
               y == [x EXCEPT !.turn = n]
               g == [flow[s] EXCEPT !.pc = "rename", !.turn = n, !.again = TRUE]
               f == [flow EXCEPT ![s].pc = "rename", ![s].turn = n, ![s].again = TRUE]
    <3>1. ids' = n /\ Persist((queue \ {x}) \cup {y}, f)
      BY <2>1, <2>4
    <3>2. /\ n \in Given' /\ n \notin Given /\ n # None
          /\ Given \subseteq Given' /\ Items \subseteq Items' /\ Flows \subseteq Flows'
          /\ Headers \subseteq Headers' /\ Pairs \subseteq Pairs' /\ Halts \subseteq Halts'
      BY <1>1, <3>1, Wider, NoneAssumption
    <3>3. /\ y \in Items' /\ y.id = x.id /\ y.rank = x.rank /\ y.msg = x.msg /\ y.turn = n
      BY <1>1, <2>2, <3>2 DEF Items
    <3>4. /\ g \in Flows' /\ g.pc = "rename" /\ g.turn = n /\ g.again = TRUE
          /\ g.kind = flow[s].kind /\ g.msg = flow[s].msg /\ g.item = flow[s].item
      BY <1>1, <3>2 DEF Flows, PC
    <3>5. f = [flow EXCEPT ![s] = g]
      BY <1>1
    <3> HIDE DEF n, y, g, f
    <3>6. f[s] = g /\ \A r \in Slot \ {s} : f[r] = flow[r]
      BY <1>1, <3>5
    <3>7. \A r \in Slot : f[r] \in Flows'
      BY <1>1, <3>2, <3>4, <3>6
    <3>8. queue' = (queue \ {x}) \cup {y} /\ flow' = [r \in Slot |-> [f[r] EXCEPT !.fresh = FALSE]]
      BY <3>1 DEF Persist
    <3>9. \A h \in Flows' : [h EXCEPT !.fresh = FALSE] \in Flows' /\ Alike([h EXCEPT !.fresh = FALSE], h)
      BY DEF Flows, Alike
    <3>10. flow' \in [Slot -> Flows'] /\ \A r \in Slot : Alike(flow'[r], f[r])
      BY <3>7, <3>8, <3>9
    <3>11. Others(s) /\ Alike(flow'[s], g)
      BY <3>6, <3>10 DEF Others
    <3>12. \A r \in Slot \ {s} : Calm(r)
      BY <1>2, <3>11, AlikeCalm DEF Others, Inv
    <3>13. flow[s].kind = "use" /\ flow[s].turn # None /\ ~flow[s].again /\ flow[s].msg # None
           /\ flow[s].item # None
      BY <1>1 DEF Shape
    <3>14. /\ flow'[s].pc = "rename" /\ flow'[s].turn = n /\ flow'[s].kind = "use"
           /\ flow'[s].item = x.id /\ flow'[s].again = TRUE /\ flow'[s].msg = flow[s].msg
      BY <2>2, <3>4, <3>11, <3>13 DEF Alike
    <3>15. /\ Shape(flow'[s]) /\ Owes(flow[s]) /\ OwesTwo(flow[s]) /\ ~OwesTwo(flow'[s])
      BY <1>1, <2>2, <3>2, <3>13, <3>14 DEF Shape, Owes, OwesTwo, Taking, Turning
    <3>16. flow[s].msg = x.msg
      BY <2>2, <3>13 DEF Inv, Contents, Claims
    <3>17. \A z \in queue : z.turn # n /\ z.turn # None
      BY <1>1, <3>2, Words DEF Items
    <3>18. n \notin timeline /\ \A r \in Slot : flow[r].turn # n
      BY <1>1, <3>2 DEF Inv, Typed, RestTyped, Flows
    <3>19. Sole(queue')
      BY <2>2, <3>3, <3>8, <3>17 DEF Inv, Contents, Sole
    <3>20. Small(queue')
      <4>1. \A z \in queue' : \E w \in queue : z.id = w.id
        BY <2>2, <3>3, <3>8
      <4>2. \A z, w \in queue' : z.id = w.id => z = w
        BY <3>19 DEF Sole
      <4>3. QED
        BY <4>1, <4>2, NoLarger DEF Inv, Contents
    <3>21. SentOnes' /\ NothingLost'
      BY <1>1, <2>2, <3>3, <3>8, <3>18 DEF Inv, Contents, SentOnes, NothingLost
    <3>22. ASSUME NEW r \in Slot, NEW z \in queue'
           PROVE  /\ flow'[r].turn = z.turn => flow'[r].msg = z.msg
                  /\ flow'[r].item = z.id /\ flow'[r].turn # None => flow'[r].msg = z.msg
      <4>1. CASE r = s
        <5>1. flow'[s].msg = y.msg
          BY <3>3, <3>14, <3>16
        <5>2. z # y => flow'[s].turn # z.turn /\ flow'[s].item # z.id
          BY <2>2, <3>8, <3>14, <3>17 DEF Inv, Contents, Sole
        <5>3. QED
          BY <4>1, <5>1, <5>2
      <4>2. CASE r # s
        <5>1. \/ flow'[r].turn = None
              \/ flow'[r].turn = flow[r].turn /\ flow'[r].msg = flow[r].msg /\ flow'[r].item = flow[r].item
          BY <3>12, <4>2 DEF Calm
        <5>2. z.turn # None
          BY <3>2, <3>3, <3>8, <3>17
        <5>3. flow[r].turn # n
          BY <3>18
        <5>4. CASE z = y
          BY <2>2, <3>3, <5>1, <5>2, <5>3, <5>4 DEF Inv, Contents, Claims
        <5>5. CASE z \in queue
          BY <5>1, <5>2, <5>5 DEF Inv, Contents, Claims, Belongs
        <5>6. QED
          BY <3>8, <5>4, <5>5
      <4>3. QED
        BY <4>1, <4>2
    <3>23. Belongs' /\ Claims'
      BY <3>22 DEF Belongs, Claims
    <3>24. Accepted'
      BY <1>1, <3>12, <3>14 DEF Inv, Contents, Accepted, Calm
    <3>25. Contents'
      BY <3>19, <3>20, <3>21, <3>23, <3>24 DEF Contents
    <3>26. Typed'
      <4>1. Controls' = Controls /\ Budgets' = Budgets
        BY DEF Controls, Budgets
      <4>2. RestTyped'
        BY <1>1, <3>2, <4>1 DEF Inv, Typed, RestTyped
      <4>3. queue' \subseteq Items' /\ ids' \in Nat /\ header' \in Headers'
        BY <1>1, <1>2, <3>1, <3>2, <3>3, <3>8 DEF n
      <4>4. QED
        BY <3>10, <4>2, <4>3 DEF Typed
    <3>27. Counted'
      <4>1. \A r \in Slot : (Owes(flow'[r]) => Owes(flow[r])) /\ (OwesTwo(flow'[r]) => OwesTwo(flow[r]))
        BY <3>12, <3>15 DEF Calm
      <4>2. QED
        BY <1>1, <3>1, <3>15, <4>1, CountSpent DEF Inv, Typed, RestTyped, n
    <3>28. Owner' /\ Headed'
      BY <1>1, <1>2, <3>12, OwnerKept, HeadedKept DEF Inv, Calm
    <3>29. Shapes'
      BY <3>12, <3>15 DEF Shapes, Calm
    <3>30. QED
      BY <3>25, <3>26, <3>27, <3>28, <3>29 DEF Inv
  <2>5. QED
    BY <2>3, <2>4
<1>6. QED
  BY <1>4, <1>5

(***************************************************************************)
(* A command takes a free slot.                                            *)
(***************************************************************************)
\* One flow more asks for identities, and the bound is lowered by as much.
LEMMA CountMoved ==
  ASSUME Counted, ids \in Nat, ids' = ids, budget \in Budgets, budget' \in Budgets,
         NEW s \in Slot, \A r \in Slot \ {s} : flow'[r] = flow[r],
         \/ /\ ~OwesTwo(flow'[s])
            /\ budget'.sends = budget.sends - 1 /\ budget'.uses = budget.uses
         \/ budget'.sends = budget.sends /\ budget'.uses = budget.uses - 1
  PROVE  Counted'
<1>1. Owing' \subseteq Owing \cup {s} /\ OwingTwo' \subseteq OwingTwo \cup {s}
      /\ (~OwesTwo(flow'[s]) => OwingTwo' \subseteq OwingTwo)
  BY DEF Owing, OwingTwo
<1>2. /\ IsFiniteSet(Owing) /\ IsFiniteSet(OwingTwo)
      /\ Cardinality(Owing) \in Nat /\ Cardinality(OwingTwo) \in Nat
  BY OwingFinite
<1>3. ASSUME NEW S, IsFiniteSet(S), Cardinality(S) \in Nat
      PROVE  IsFiniteSet(S \cup {s}) /\ Cardinality(S \cup {s}) <= Cardinality(S) + 1
             /\ Cardinality(S \cup {s}) \in Nat
  <2>1. /\ IsFiniteSet(S \cup {s})
        /\ Cardinality(S \cup {s}) = IF s \in S THEN Cardinality(S) ELSE Cardinality(S) + 1
    BY <1>3, FS_AddElement
  <2>2. QED
    BY <1>3, <2>1
<1>4. /\ Cardinality(Owing \cup {s}) <= Cardinality(Owing) + 1
      /\ Cardinality(OwingTwo \cup {s}) <= Cardinality(OwingTwo) + 1
      /\ IsFiniteSet(Owing \cup {s}) /\ IsFiniteSet(OwingTwo \cup {s})
      /\ Cardinality(Owing \cup {s}) \in Nat /\ Cardinality(OwingTwo \cup {s}) \in Nat
  BY <1>2, <1>3
<1>5. /\ IsFiniteSet(Owing') /\ Cardinality(Owing') <= Cardinality(Owing \cup {s})
      /\ IsFiniteSet(OwingTwo') /\ Cardinality(OwingTwo') <= Cardinality(OwingTwo \cup {s})
      /\ (~OwesTwo(flow'[s]) => Cardinality(OwingTwo') <= Cardinality(OwingTwo))
  BY <1>1, <1>2, <1>4, FS_Subset
<1>6. Cardinality(Owing') \in Nat /\ Cardinality(OwingTwo') \in Nat
  BY <1>5, FS_CardinalityType
<1>7. /\ budget.sends \in Nat /\ budget.uses \in Nat /\ budget'.sends \in Nat /\ budget'.uses \in Nat
  BY DEF Budgets
<1>8. QED
  BY <1>2, <1>4, <1>5, <1>6, <1>7, Bounds DEF Counted

LEMMA CommandStep ==
  ASSUME Inv, NEW s \in Slot, flow[s].pc = "free", flow' \in [Slot -> Flows],
         \A r \in Slot \ {s} : flow'[r] = flow[r],
         Shape(flow'[s]), flow'[s].turn = None, flow'[s].pc # "publish",
         UNCHANGED <<queue, parked, timeline, gate, active, header, control, stop, ids, sent, owed, halted>>,
         budget' \in Budgets, Counted'
  PROVE  Inv'
<1>1. header.owner # s
  BY DEF Inv, Owner, Turning
<1>2. Typed'
  <2>1. RestTyped'
    BY RestKept DEF Inv, Typed, RestTyped
  <2>2. QED
    BY <2>1, SameIds DEF Inv, Typed
<1>3. Shapes'
  BY DEF Inv, Shapes
<1>4. Contents'
  <2>1. \A x \in queue : x.turn # None
    BY Words DEF Inv, Typed, Items
  <2>2. Belongs' /\ Claims' /\ Accepted'
    BY <2>1 DEF Inv, Contents, Belongs, Claims, Accepted
  <2>3. QED
    BY <2>2 DEF Inv, Contents, SentOnes, NothingLost
<1>5. Owner' /\ Headed'
  BY <1>1 DEF Inv, Owner, Headed
<1>6. QED
  BY <1>2, <1>3, <1>4, <1>5 DEF Inv

LEMMA SubmitKeeps == ASSUME Inv, Submit PROVE Inv'
<1> DEFINE s == NextSlot
           g == [Free EXCEPT !.pc = "check", !.msg = Sends - budget.sends + 1]
<1>1. /\ flow \in [Slot -> Flows] /\ budget \in Budgets /\ Spend("sends") /\ Spare # {}
      /\ flow' = [flow EXCEPT ![s] = g]
      /\ UNCHANGED <<queue, parked, timeline, gate, active, header, control, stop, ids, sent, owed, halted>>
  BY DEF Submit, file, session, history, Inv, Typed, RestTyped
<1>2. s \in Slot /\ flow[s].pc = "free"
  BY <1>1, SpareSlot
<1>3. /\ budget' \in Budgets /\ budget.sends > 0
      /\ budget'.sends = budget.sends - 1 /\ budget'.uses = budget.uses
  BY <1>1, Spending
<1>4. Sends - budget.sends + 1 \in Msg
  BY <1>1, <1>3, Bounds DEF Budgets, Msg
<1>5. g \in Flows /\ g.pc = "check" /\ g.kind = "composer" /\ g.msg = Sends - budget.sends + 1
      /\ g.item = None /\ g.turn = None /\ g.again = FALSE
  BY <1>4 DEF Free, Flows, PC
<1> HIDE DEF s, g
<1>6. flow' \in [Slot -> Flows] /\ flow'[s] = g /\ \A r \in Slot \ {s} : flow'[r] = flow[r]
  BY <1>1, <1>2, <1>5
<1>7. Shape(g) /\ ~OwesTwo(g)
  BY <1>4, <1>5, Words DEF Shape, OwesTwo, Taking, Turning
<1>8. Counted'
  BY <1>1, <1>2, <1>3, <1>6, <1>7, CountMoved DEF Inv, Typed
<1>9. QED
  BY <1>1, <1>2, <1>3, <1>5, <1>6, <1>7, <1>8, CommandStep

LEMMA UseKeeps == ASSUME Inv, NEW x \in queue, Use(x) PROVE Inv'
<1> DEFINE s == NextSlot
           g == [Free EXCEPT !.pc = "claim", !.kind = "use", !.item = x.id]
<1>1. /\ flow \in [Slot -> Flows] /\ budget \in Budgets /\ Spend("uses") /\ Spare # {}
      /\ flow' = [flow EXCEPT ![s] = g]
      /\ UNCHANGED <<queue, parked, timeline, gate, active, header, control, stop, ids, sent, owed, halted>>
  BY DEF Use, file, session, history, Inv, Typed, RestTyped
<1>2. s \in Slot /\ flow[s].pc = "free"
  BY <1>1, SpareSlot
<1>3. /\ budget' \in Budgets
      /\ budget'.sends = budget.sends /\ budget'.uses = budget.uses - 1
  BY <1>1, Spending
<1>4. x.id \in Given /\ x.id # None
  BY Words DEF Inv, Typed, Items
<1>5. g \in Flows /\ g.pc = "claim" /\ g.kind = "use"
      /\ g.item = x.id /\ g.turn = None /\ g.again = FALSE
  BY <1>4 DEF Free, Flows, PC
<1> HIDE DEF s, g
<1>6. flow' \in [Slot -> Flows] /\ flow'[s] = g /\ \A r \in Slot \ {s} : flow'[r] = flow[r]
  BY <1>1, <1>2, <1>5
<1>7. Shape(g)
  BY <1>4, <1>5 DEF Shape, Taking, Turning
<1>8. Counted'
  BY <1>1, <1>2, <1>3, <1>6, CountMoved DEF Inv, Typed
<1>9. QED
  BY <1>1, <1>2, <1>3, <1>5, <1>6, <1>7, <1>8, CommandStep

(***************************************************************************)
(* The user's edits, the stop and a restart.                               *)
(***************************************************************************)
LEMMA Unmoved ==
  ASSUME Inv, \A r \in Slot : Alike(flow'[r], flow[r]), header'.owner \in {header.owner, None}
  PROVE  \A r \in Slot : Calm(r)
<1> TAKE r \in Slot
<1>1. Shape(flow'[r])
  BY DEF Inv, Shapes, Shape, Alike
<1>2. header'.owner = r => flow'[r].turn = flow[r].turn /\ flow'[r].pc \in Turning
  BY Words DEF Inv, Owner, Alike
<1>3. QED
  BY <1>1, <1>2 DEF Calm, Alike, Owes, OwesTwo

LEMMA DeleteKeeps == ASSUME Inv, NEW x \in Loaded, Delete(x) PROVE Inv'
<1>1. /\ flow \in [Slot -> Flows] /\ budget \in Budgets /\ header \in Headers /\ Spend("edits")
      /\ Persist(Loaded \ {x}, flow) /\ owed' = owed \ {x.msg}
      /\ UNCHANGED <<parked, timeline, header, control, stop, gate, active, ids, sent, halted>>
  BY DEF Delete, session, Inv, Typed, RestTyped
<1>2. queue' = Loaded \ {x} /\ flow' \in [Slot -> Flows] /\ \A r \in Slot : Alike(flow'[r], flow[r])
  BY <1>1, PersistBecomes, Staying
<1>3. \A r \in Slot : Calm(r)
  BY <1>1, <1>2, Unmoved
<1>4. Derived(Loaded) /\ Covers(Loaded)
  BY LoadedDerived DEF Inv, Contents
<1>5. Derived(queue')
  BY <1>2, <1>4 DEF Derived, Sole
<1>6. NothingLost'
  <2> SUFFICES ASSUME NEW m \in owed', ~(sent'[m] > 0)
               PROVE  \E y \in queue' : y.msg = m
    BY DEF NothingLost
  <2>1. PICK w \in queue : w.msg = m
    BY <1>1 DEF Inv, Contents, NothingLost
  <2>2. w.turn \notin timeline
    BY <1>1, <2>1 DEF Inv, Contents, SentOnes
  <2>3. PICK y \in Loaded : Twin(y, w)
    BY <1>4, <2>2 DEF Covers
  <2>4. y # x
    BY <1>1, <2>1, <2>3 DEF Twin
  <2>5. QED
    BY <1>2, <2>1, <2>3, <2>4 DEF Twin
<1>7. Contents'
  BY <1>1, <1>3, <1>5, <1>6, MostKept DEF Inv, Contents
<1>8. /\ budget' \in Budgets /\ budget'.sends = budget.sends /\ budget'.uses = budget.uses
  BY <1>1, Spending
<1>9. RestTyped'
  <2>1. Given' = Given /\ Pairs' = Pairs /\ Halts' = Halts /\ Controls' = Controls /\ Budgets' = Budgets
    BY <1>1 DEF Given, Pairs, Halts, Controls, Budgets
  <2>2. QED
    BY <1>1, <1>8, <2>1 DEF Inv, Typed, RestTyped
<1>10. Typed'
  BY <1>1, <1>2, <1>5, <1>9, StillTyped DEF Inv
<1>11. Counted' /\ Shapes'
  BY <1>1, <1>3, <1>8, CountKept DEF Inv, Typed, Calm, Shapes
<1>12. Owner' /\ Headed'
  BY <1>1, <1>3, OwnerKept, HeadedKept DEF Inv, Calm, HeaderKept
<1>13. QED
  BY <1>7, <1>10, <1>11, <1>12 DEF Inv

\* Two items exchange their ranks.
LEMMA SwapDerived ==
  ASSUME NEW q, Derived(q), Covers(q), NEW x \in q, NEW y \in q, x.rank # y.rank
  PROVE  LET p == (q \ {x, y}) \cup {[x EXCEPT !.rank = y.rank], [y EXCEPT !.rank = x.rank]}
         IN  Derived(p) /\ Covers(p)
<1> DEFINE a == [x EXCEPT !.rank = y.rank]
           b == [y EXCEPT !.rank = x.rank]
           p == (q \ {x, y}) \cup {a, b}
<1>1. x \in Items /\ y \in Items /\ x # y
  BY DEF Derived
<1>2. /\ a \in Items /\ Twin(a, x) /\ a.rank = y.rank
      /\ b \in Items /\ Twin(b, y) /\ b.rank = x.rank
  BY <1>1 DEF Items, Twin
<1> HIDE DEF a, b
<1>3. /\ \A z \in q \ {x} : z.id # x.id /\ z.rank # x.rank /\ z.turn # x.turn
      /\ \A z \in q \ {y} : z.id # y.id /\ z.rank # y.rank /\ z.turn # y.turn
  BY DEF Derived, Sole
<1>4. \A z \in q \ {x, y} : /\ z.id # a.id /\ z.rank # a.rank /\ z.turn # a.turn
                            /\ z.id # b.id /\ z.rank # b.rank /\ z.turn # b.turn
  BY <1>2, <1>3 DEF Twin
<1>5. a.id # b.id /\ a.rank # b.rank /\ a.turn # b.turn
  BY <1>1, <1>2, <1>3 DEF Twin
<1>6. \A z, w \in q \ {x, y} : z.id = w.id \/ z.rank = w.rank \/ z.turn = w.turn => z = w
  BY DEF Derived, Sole
<1>7. Sole(p)
  BY <1>4, <1>5, <1>6 DEF Sole
<1>8. (\E w \in queue : Twin(a, w)) /\ (\E w \in queue : Twin(b, w))
  BY <1>2 DEF Derived, Twin
<1>9. p \subseteq Items /\ \A z \in p : \E w \in queue : Twin(z, w)
  BY <1>2, <1>8 DEF Derived
<1>10. Derived(p)
  BY <1>7, <1>9 DEF Derived
<1>11. Covers(p)
  <2> SUFFICES ASSUME NEW w \in queue, w.turn \notin timeline PROVE \E z \in p : Twin(z, w)
    BY DEF Covers
  <2>1. PICK z \in q : Twin(z, w)
    BY DEF Covers
  <2>2. CASE z = x
    BY <1>2, <2>1, <2>2 DEF Twin
  <2>3. CASE z = y
    BY <1>2, <2>1, <2>3 DEF Twin
  <2>4. CASE z \notin {x, y}
    BY <2>1, <2>4
  <2>5. QED
    BY <2>2, <2>3, <2>4
<1>12. QED
  BY <1>10, <1>11 DEF a, b

LEMMA MoveKeeps == ASSUME Inv, NEW x \in Loaded, NEW y \in Loaded, Move(x, y) PROVE Inv'
<1> DEFINE p == (Loaded \ {x, y}) \cup {[x EXCEPT !.rank = y.rank], [y EXCEPT !.rank = x.rank]}
<1>1. /\ flow \in [Slot -> Flows] /\ budget \in Budgets /\ header \in Headers /\ Spend("edits")
      /\ Persist(p, flow) /\ x.rank < y.rank
      /\ UNCHANGED <<parked, timeline, header, control, stop, gate, active, ids, sent, owed, halted>>
  BY DEF Move, session, history, Inv, Typed, RestTyped
<1>2. Derived(Loaded) /\ Covers(Loaded)
  BY LoadedDerived DEF Inv, Contents
<1>3. x.rank # y.rank
  BY <1>1, <1>2, Words DEF Derived, Items
<1>4. Derived(p) /\ Covers(p)
  BY <1>2, <1>3, SwapDerived
<1> HIDE DEF p
<1>5. queue' = p /\ flow' \in [Slot -> Flows] /\ \A r \in Slot : Alike(flow'[r], flow[r])
  BY <1>1, PersistBecomes, Staying
<1>6. \A r \in Slot : Calm(r)
  BY <1>1, <1>5, Unmoved
<1>7. /\ budget' \in Budgets /\ budget'.sends = budget.sends /\ budget'.uses = budget.uses
  BY <1>1, Spending
<1>8. Typed'
  BY <1>1, <1>4, <1>5, <1>7, RestKept, StillTyped DEF Inv, Typed, RestTyped
<1>9. QED
  BY <1>1, <1>4, <1>5, <1>6, <1>7, <1>8, CalmStep DEF HeaderKept

\* A step of the stop command, or a restart.
LEMMA StopCommandStep ==
  ASSUME Inv, \A r \in Slot : Calm(r), flow' \in [Slot -> Flows], Derived(queue'), Covers(queue'),
         header' \in Headers, parked' \in BOOLEAN, gate' \in BOOLEAN, active' \subseteq active,
         control' \in Controls, stop' \in {"idle", "cancel", "gate", "inspect", "suspend", "park", "cleanup"},
         halted' \in Halts, budget' \in Budgets,
         budget'.sends = budget.sends, budget'.uses = budget.uses,
         UNCHANGED <<timeline, sent, owed, ids>>, Owner', Headed'
  PROVE  Inv'
<1>1. Given' = Given /\ Pairs' = Pairs /\ Halts' = Halts /\ Controls' = Controls /\ Budgets' = Budgets
  BY DEF Given, Pairs, Halts, Controls, Budgets
<1>2. RestTyped'
  BY <1>1 DEF Inv, Typed, RestTyped
<1>3. Typed'
  BY <1>2, StillTyped DEF Inv
<1>4. Shapes'
  BY DEF Calm, Shapes
<1>5. Contents'
  BY ContentsKept DEF Inv, Calm
<1>6. Counted'
  BY CountKept DEF Inv, Typed, RestTyped, Calm
<1>7. QED
  BY <1>3, <1>4, <1>5, <1>6 DEF Inv

LEMMA StopKeeps == ASSUME Inv, StopCommand PROVE Inv'
<1>1. /\ flow \in [Slot -> Flows] /\ header \in Headers /\ budget \in Budgets
      /\ parked \in BOOLEAN /\ gate \in BOOLEAN /\ control \in Controls /\ halted \in Halts
      /\ stop \in {"idle", "cancel", "gate", "inspect", "suspend", "park", "cleanup"}
  BY DEF Inv, Typed, RestTyped
<1>2. /\ Inv => Owner /\ Headed
      /\ CancelledControl \in Controls \/ Slot = {}
  BY SomeControl DEF Inv
<1>3. CancelledControl \in Controls
  BY <1>1 DEF Controls, CancelledControl
<1>4. ASSUME queue' = queue, flow' = flow
      PROVE  /\ flow' \in [Slot -> Flows] /\ Derived(queue') /\ Covers(queue')
             /\ \A r \in Slot : Alike(flow'[r], flow[r])
  BY <1>1, <1>4, SameQueue DEF Alike
<1>5. CASE RequestStop
  <2>1. /\ header' = [header EXCEPT !.live = "stopping", !.owner = None] /\ stop' = "cancel"
        /\ header.live \in {"starting", "claimed"} /\ Spend("stops")
        /\ UNCHANGED <<queue, parked, timeline, gate, active, control, flow, ids, sent, owed, halted>>
    BY <1>5 DEF RequestStop, file, history
  <2>2. /\ header' \in Headers /\ header'.turn = header.turn /\ header'.live = "stopping"
        /\ header'.owner = None
    BY <1>1, <2>1 DEF Headers, Live
  <2>3. \A r \in Slot : Calm(r)
    BY <1>4, <2>1, <2>2, Unmoved
  <2>4. Owner' /\ Headed'
    BY <1>2, <2>1, <2>2, Words DEF Owner, Headed
  <2>5. /\ budget' \in Budgets /\ budget'.sends = budget.sends /\ budget'.uses = budget.uses
    BY <1>1, <2>1, Spending
  <2>6. QED
    BY <1>1, <1>4, <2>1, <2>2, <2>3, <2>4, <2>5, StopCommandStep
<1>6. CASE CancelPrompt \/ SetGate \/ Suspend
  <2>1. /\ stop \in {"cancel", "gate", "suspend"} /\ control' \in {control, CancelledControl}
        /\ stop' \in {"idle", "gate", "inspect", "park"} /\ gate' \in BOOLEAN
        /\ UNCHANGED <<queue, parked, timeline, header, active, flow, ids, budget, sent, owed>>
    BY <1>1, <1>6 DEF CancelPrompt, SetGate, Suspend, file, history
  <2>2. stop' = "idle" => header.live # "stopping"
    BY <1>6 DEF CancelPrompt, SetGate, Suspend
  <2>3. header.turn # None
    BY <1>2, <2>1 DEF Headed
  <2>4. halted' \in Halts
    <3>1. CASE CancelPrompt
      BY <1>1, <3>1 DEF CancelPrompt, history
    <3>2. CASE SetGate
      <4>1. header.turn \in Given
        BY <1>1, <2>3 DEF Headers
      <4>2. Sends - budget.sends \in 0 .. Sends
        BY <1>1, Bounds DEF Budgets
      <4>3. QED
        BY <3>2, <4>1, <4>2 DEF SetGate, Halts
    <3>3. CASE Suspend
      BY <1>1, <3>3 DEF Suspend, history
    <3>4. QED
      BY <1>6, <3>1, <3>2, <3>3
  <2>5. \A r \in Slot : Calm(r)
    BY <1>4, <2>1, Unmoved
  <2>6. Owner' /\ Headed'
    BY <1>2, <2>1, <2>2, <2>3 DEF Owner, Headed
  <2>7. QED
    BY <1>1, <1>3, <1>4, <2>1, <2>4, <2>5, <2>6, StopCommandStep
<1>7. CASE Inspect \/ Park
  <2>1. /\ stop \in {"inspect", "park"} /\ stop' \in {"suspend", "cleanup"} /\ parked' \in BOOLEAN
        /\ UNCHANGED <<timeline, header, gate, active, control, ids, budget, sent, owed, halted>>
    BY <1>1, <1>7 DEF Inspect, Park, history
  <2>2. queue' = Loaded /\ Becomes(flow)
    BY <1>1, <1>7, LoadBecomes, PersistBecomes DEF Inspect, Park
  <2>3. Derived(queue') /\ Covers(queue') /\ flow' \in [Slot -> Flows]
        /\ \A r \in Slot : Alike(flow'[r], flow[r])
    BY <1>1, <2>2, LoadedQueue, Staying
  <2>4. \A r \in Slot : Calm(r)
    BY <2>1, <2>3, Unmoved
  <2>5. Owner' /\ Headed'
    BY <1>2, <2>1, <2>3 DEF Owner, Headed, Alike
  <2>6. QED
    BY <1>1, <2>1, <2>3, <2>4, <2>5, StopCommandStep
<1>8. CASE Cleanup
  <2>1. /\ stop = "cleanup" /\ stop' = "idle" /\ control' \in {control, CancelledControl}
        /\ UNCHANGED <<queue, parked, timeline, gate, active, flow, ids, budget, sent, owed, halted>>
    BY <1>8 DEF Cleanup, file, history
  <2>2. header' \in Headers /\ HeaderKept
        /\ header'.turn = header.turn /\ header'.live # "stopping"
    <3>1. CASE header.live = "stopping"
      BY <1>1, <1>8, <3>1, ClosedHeader DEF Cleanup, HeaderKept
    <3>2. CASE header.live # "stopping"
      BY <1>1, <1>8, <3>2 DEF Cleanup, HeaderKept
    <3>3. QED
      BY <3>1, <3>2
  <2>3. \A r \in Slot : Calm(r)
    BY <1>4, <2>1, <2>2, Unmoved DEF HeaderKept
  <2>4. Owner' /\ Headed'
    <3>1. Owner'
      BY <1>2, <2>2, <2>3, OwnerKept DEF Calm
    <3>2. header.turn # None
      BY <1>2, <2>1 DEF Headed
    <3>3. Headed'
      BY <1>2, <2>2, <3>2 DEF HeaderKept, Headed
    <3>4. QED
      BY <3>1, <3>3
  <2>5. QED
    BY <1>1, <1>3, <1>4, <2>1, <2>2, <2>3, <2>4, StopCommandStep
<1>9. QED
  BY <1>5, <1>6, <1>7, <1>8 DEF StopCommand

LEMMA RestartKeeps == ASSUME Inv, Restart PROVE Inv'
<1>1. /\ flow' = [s \in Slot |-> Free] /\ header' = [header EXCEPT !.owner = None, !.alive = FALSE]
      /\ gate' = FALSE /\ active' = {} /\ control' = NoControl /\ stop' = "idle" /\ Spend("crashes")
      /\ UNCHANGED <<queue, parked, timeline, ids, sent, owed, halted>>
  BY DEF Restart, file, history
<1>2. header \in Headers /\ budget \in Budgets /\ parked \in BOOLEAN /\ halted \in Halts
  BY DEF Inv, Typed, RestTyped
<1>3. /\ header' \in Headers /\ header'.turn = header.turn /\ header'.live = header.live
      /\ header'.owner = None /\ header'.alive = FALSE
  BY <1>1, <1>2 DEF Headers
<1>4. flow' \in [Slot -> Flows] /\ \A r \in Slot : Alike(flow'[r], Free)
  BY <1>1, FreeFlow DEF Alike
<1>5. \A r \in Slot : Calm(r)
  BY <1>3, <1>4, FreeShape, Words DEF Calm, Alike, Free
<1>6. Owner' /\ Headed'
  BY <1>1, <1>3, Words DEF Inv, Owner, Headed
<1>7. /\ budget' \in Budgets /\ budget'.sends = budget.sends /\ budget'.uses = budget.uses
  BY <1>1, <1>2, Spending
<1>8. NoControl \in Controls
  BY DEF NoControl, Controls
<1>9. QED
  BY <1>1, <1>2, <1>3, <1>4, <1>5, <1>6, <1>7, <1>8, SameQueue, StopCommandStep

(***************************************************************************)
(* The invariant.                                                          *)
(***************************************************************************)
LEMMA InitInv == Init => Inv
<1> SUFFICES ASSUME Init PROVE Inv
  OBVIOUS
<1>1. \A s \in Slot : flow[s] = Free
  BY DEF Init
<1>2. Typed
  <2>1. header \in Headers
    BY DEF Init, Headers, Live
  <2>2. flow \in [Slot -> Flows] /\ control \in Controls
    BY FreeFlow DEF Init, NoControl, Controls
  <2>3. budget \in Budgets
    BY Bounds DEF Init, Budgets
  <2>4. sent \in [Msg -> Nat]
    BY DEF Init
  <2>5. halted \in Halts
    BY DEF Init, Halts
  <2>6. RestTyped
    BY <2>2, <2>3, <2>4, <2>5 DEF Init, RestTyped
  <2>7. QED
    BY <2>1, <2>2, <2>6 DEF Init, Typed
<1>3. Shapes
  BY <1>1, FreeShape DEF Shapes, Alike
<1>4. Contents
  <2>1. IsFiniteSet({}) /\ Cardinality({}) = 0
    BY FS_EmptySet
  <2>2. Small(queue)
    BY <2>1, Bounds DEF Init, Small
  <2>3. Accepted
    BY <1>1 DEF Accepted, Free
  <2>4. QED
    BY <2>2, <2>3 DEF Init, Contents, Sole, SentOnes, Belongs, Claims, NothingLost
<1>5. Owner /\ Headed
  BY Words DEF Init, Owner, Headed
<1>6. Counted
  <2>1. Owing = {} /\ OwingTwo = {}
    BY <1>1, FreeShape DEF Owing, OwingTwo, Alike
  <2>2. Cardinality({}) = 0
    BY FS_EmptySet
  <2>3. QED
    BY <2>1, <2>2, Bounds DEF Init, Counted
<1>7. QED
  BY <1>2, <1>3, <1>4, <1>5, <1>6 DEF Inv

LEMMA RunKeeps == ASSUME Inv, NEW s \in Slot, Run(s) PROVE Inv'
<1>1. CASE \/ Check(s) \/ Enqueue(s) \/ Redrain(s) \/ Priority(s) \/ Lift(s) \/ Mark(s) \/ Admit(s)
  BY <1>1, CheckKeeps, EnqueueKeeps, RedrainKeeps, PriorityKeeps, AdmitKeeps
<1>2. CASE \/ Execute(s) \/ Gate(s) \/ Failed(s) \/ Start(s) \/ Break(s) \/ Interrupt(s)
           \/ Accept(s) \/ Publish(s) \/ Published(s) \/ Respond(s)
           \/ MarkStopped(s) \/ Write(s) \/ Unlock(s)
  BY <1>2, ExecuteKeeps, TurnKeeps, AcceptKeeps, PublishKeeps, UnlockKeeps
<1>3. CASE \/ Notify(s) \/ Notified(s) \/ Drain(s) \/ Settle(s) \/ Clear(s)
           \/ Fire(s) \/ ClaimNext(s) \/ Claimed(s) \/ Release(s)
  BY <1>3, SettlementKeeps, ClearingKeeps, DrainKeeps, FireKeeps, ClaimNextKeeps, ReleaseKeeps
<1>4. CASE ClaimUsed(s) \/ Recover(s) \/ Untrack(s) \/ Track(s)
  BY <1>4, ClaimUsedKeeps, RecoverKeeps, ClearingKeeps, TrackKeeps
<1>5. QED
  BY <1>1, <1>2, <1>3, <1>4 DEF Run

LEMMA StutterKeeps == ASSUME Inv, UNCHANGED vars PROVE Inv'
<1>1. UNCHANGED <<queue, parked, timeline, header, gate, active, control, flow, stop, ids, budget,
                  sent, owed, halted>>
  BY DEF vars
<1>2. \A r \in Slot : Alike(flow'[r], flow[r])
  BY <1>1 DEF Alike
<1>3. \A r \in Slot : Calm(r)
  BY <1>1, <1>2, Unmoved
<1>4. Owner' /\ Headed'
  BY <1>1 DEF Inv, Owner, Headed
<1>5. QED
  BY <1>1, <1>3, <1>4, SameQueue, StopCommandStep DEF Inv, Typed, RestTyped

\* Every step keeps the invariant.
LEMMA NextInv == Inv /\ [Next]_vars => Inv'
<1> SUFFICES ASSUME Inv, [Next]_vars PROVE Inv'
  OBVIOUS
<1>1. CASE \E s \in Slot : Run(s)
  BY <1>1, RunKeeps
<1>2. CASE StopCommand
  BY <1>2, StopKeeps
<1>3. CASE User
  BY <1>3, SubmitKeeps, UseKeeps, DeleteKeeps, MoveKeeps DEF User
<1>4. CASE Restart
  BY <1>4, RestartKeeps
<1>5. CASE UNCHANGED vars
  BY <1>5, StutterKeeps
<1>6. QED
  BY <1>1, <1>2, <1>3, <1>4, <1>5 DEF Next

LEMMA InvTypeOK == Inv => TypeOK
<1> SUFFICES ASSUME Inv PROVE TypeOK
  OBVIOUS
<1>1. ids \in 0 .. Sends + 2 * Uses
  <2>1. ids \in Nat /\ budget.sends \in Nat /\ budget.uses \in Nat
    BY DEF Inv, Typed, RestTyped, Budgets
  <2>2. Cardinality(Owing) \in Nat /\ Cardinality(OwingTwo) \in Nat
    BY OwingFinite
  <2>3. QED
    BY <2>1, <2>2, Bounds DEF Inv, Counted
<1>2. Given \subseteq Id
  BY <1>1, Bounds DEF Given, Id
<1>3. queue \subseteq Item /\ flow \in [Slot -> Flow]
  <2>1. Items \subseteq Item /\ Flows \subseteq Flow
    BY <1>2 DEF Items, Item, Flows, Flow
  <2>2. queue \subseteq Items /\ flow \in [Slot -> Flows]
    BY DEF Inv, Typed
  <2>3. QED
    BY <2>1, <2>2
<1>4. header \in [turn : Id \cup {None}, live : Live, owner : Slot \cup {None},
                  alive : BOOLEAN, last : {"none", "completed", "cancelled", "failed"}]
  BY <1>2 DEF Inv, Typed, Headers
<1>5. timeline \subseteq Id /\ active \subseteq [turn : Id, item : Id]
      /\ halted \in {None} \cup [turn : Id, before : 0 .. Sends]
  BY <1>2 DEF Inv, Typed, RestTyped, Pairs, Halts
<1>6. Cardinality(queue) <= Limit /\ \A x, y \in queue : (x.id = y.id \/ x.rank = y.rank) => x = y
  BY DEF Inv, Contents, Small, Sole
<1>7. {parked, gate} \subseteq BOOLEAN
      /\ control \in [by : Slot \cup {None}, st : {"none", "starting", "accepted", "cancel", "stopped"}]
      /\ stop \in {"idle", "cancel", "gate", "inspect", "suspend", "park", "cleanup"}
      /\ sent \in [Msg -> Nat] /\ owed \subseteq Msg
  BY DEF Inv, Typed, RestTyped, Controls
<1>8. QED
  BY <1>1, <1>3, <1>4, <1>5, <1>6, <1>7 DEF TypeOK

LEMMA InvCarried == Inv => TurnIsCarried
<1> SUFFICES ASSUME Inv, header.alive, header.live # "idle",
                    ~(header.live = "stopping" /\ stop # "idle")
             PROVE  \E s \in Slot : /\ header.owner = s /\ flow[s].turn = header.turn
                                    /\ flow[s].pc \in Turning
  BY DEF TurnIsCarried
<1>1. header.live \in Live /\ header.owner \in Slot \cup {None}
  BY DEF Inv, Typed, Headers
<1>2. header.live # "stopping"
  BY DEF Inv, Headed
<1>3. header.owner # None
  BY <1>1, <1>2 DEF Live, Inv, Headed
<1>4. QED
  BY <1>1, <1>3 DEF Inv, Owner

\* The variables have their types: in particular the queue never exceeds its limit, no
\* two items share an identity or a rank, and no more identities are given out than the
\* submissions and uses account for.
THEOREM QueueTyped == Spec => []TypeOK
<1>1. Inv => TypeOK
  BY InvTypeOK
<1>2. QED
  BY InitInv, NextInv, <1>1, PTL DEF Spec

\* A message taken into the queue is in the queue or was sent, unless the user deleted it,
\* whatever the settlements, the reconciliation, the recovery and the restarts do in between.
THEOREM NothingIsLost == Spec => []NothingLost
<1>1. Inv => NothingLost
  BY DEF Inv, Contents
<1>2. QED
  BY InitInv, NextInv, <1>1, PTL DEF Spec

\* A turn that is going on in this process is in the hands of the flow that owns it, or of
\* the stop command.
THEOREM TurnsAreCarried == Spec => []TurnIsCarried
<1>1. Inv => TurnIsCarried
  BY InvCarried
<1>2. QED
  BY InitInv, NextInv, <1>1, PTL DEF Spec

=============================================================================
