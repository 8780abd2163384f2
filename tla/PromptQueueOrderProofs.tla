----------------------- MODULE PromptQueueOrderProofs -----------------------
(***************************************************************************)
(* Proofs about PromptQueue when no queued prompt is used by hand: that    *)
(* every dispatch is carried by a flow and a stop holds, however long      *)
(* threads are held up, and, when they are not held up for as long as a    *)
(* dispatch waits, that sent prompts leave the queue and none is sent      *)
(* twice.                                                                  *)
(***************************************************************************)
EXTENDS PromptQueueProofs

(***************************************************************************)
(* The inductive invariants, above Inv.                                    *)
(***************************************************************************)
\* Without uses an item keeps the turn it was queued with, which has its identity, a flow
\* that has an item has its turn, and only automatic dispatches have turns of items.
Plain ==
  /\ \A x \in queue : x.turn = x.id
  /\ \A a \in active : a.turn = a.item
  /\ \A s \in Slot : flow[s].kind # "use" /\ (flow[s].item # None => flow[s].turn = flow[s].item)
  /\ \A s \in Slot : \A x \in queue : flow[s].turn = x.turn => flow[s].kind = "auto"
CarriedInv == Plain /\ DispatchIsCarried

\* The prompt of a flow has not been sent; its turn is being settled; the registry is about to be
\* cleared of its item, which has left the queue or waits in it again.
Ahead == Taking \cup {"claimed", "release", "execute", "gate", "lock", "start"}
Late == {"notified", "drain", "settle", "clear"}
Leaving == {"notified", "clear", "published"}

\* No two flows have the same turn.
Alone == \A r, s \in Slot : flow[r].turn # None /\ flow[r].turn = flow[s].turn => r = s
\* When an automatic dispatch is about to claim an item, and the file is as it has read it, no
\* flow has the turn of a queued item: the settlements have taken less than the dispatch waits.
Ready == \A s \in Slot : flow[s].pc = "next" /\ flow[s].fresh =>
           \A x \in Queued(queue) : \A r \in Slot : flow[r].turn # x.turn
\* The flow that has the turn of a queued item is done with it.
Idle == \A x \in Queued(queue) : \A r \in Slot : flow[r].turn = x.turn => flow[r].pc \in Late
\* The item that a flow dispatches is tracked until the flow settles it.
Held == \A x \in queue : x.st = "dispatching" => \A r \in Slot : flow[r].turn = x.turn =>
          ~Orphan(x) /\ flow[r].pc \notin Leaving

\* A prompt that is still to be sent was not sent, and is in one place.
Taken == Sends - budget.sends
Unsent ==
  /\ \A s \in Slot : flow[s].pc \in Ahead =>
       flow[s].msg \in Msg /\ flow[s].msg <= Taken /\ sent[flow[s].msg] = 0
  /\ \A x \in queue : x.turn \notin timeline => sent[x.msg] = 0
  /\ \A r, s \in Slot : flow[r].pc \in Ahead /\ flow[s].pc \in Ahead
                          /\ flow[r].msg = flow[s].msg => r = s
  /\ \A x, y \in queue : x.msg = y.msg => x = y
  /\ \A s \in Slot : \A x \in queue :
       flow[s].pc \in Ahead /\ flow[s].msg = x.msg => flow[s].turn = x.turn
  /\ \A x \in queue : x.msg <= Taken
  /\ \A m \in Msg : m > Taken => sent[m] = 0
  /\ \A s \in Slot : flow[s].pc \in Ahead /\ flow[s].turn # None => flow[s].turn \notin timeline
OrderInv == Alone /\ Ready /\ Idle /\ Held /\ AcceptedLeaves /\ Unsent /\ SentAtMostOnce

(***************************************************************************)
(* The steps that give nobody a turn, a message or an item.                *)
(***************************************************************************)
Pair(x) == [turn |-> x.turn, item |-> x.id]

\* A flow goes on with what it has ...
Same(r) == /\ flow'[r].kind = flow[r].kind /\ flow'[r].msg = flow[r].msg
           /\ flow'[r].item = flow[r].item /\ flow'[r].turn = flow[r].turn
Onward(r) ==
  /\ Same(r)
  /\ flow'[r].pc \in Ahead => flow[r].pc \in Ahead
  /\ flow[r].pc \in Late => flow'[r].pc \in Late
  /\ flow'[r].pc \in Leaving => \/ flow'[r].pc = flow[r].pc
                                \/ \A y \in queue' : y.turn = flow[r].turn => y.st = "queued"
\* ... or lets go of it, when nothing is tracked for it.
Parts(r) ==
  /\ flow'[r].turn = None /\ flow'[r].item = None /\ flow'[r].kind # "use"
  /\ \A y \in queue' : y.turn = flow[r].turn /\ y.st = "dispatching" => Pair(y) \notin active'
Onwards == \A r \in Slot : Onward(r) \/ (Parts(r) /\ flow'[r].pc \notin Ahead)

\* Items are queued again only where nobody has their turn, or its flow is done with it.
Eased ==
  \A y \in queue' : \E x \in queue :
    /\ Twin(y, x)
    /\ \/ y.st = x.st
       \/ y.st = "queued" /\ Orphan(x) /\ x.turn \notin timeline
       \/ /\ y.st = "queued"
          /\ \E r \in Slot : /\ flow[r].turn = x.turn /\ flow'[r].pc \in Late
                            /\ (x.turn \notin timeline \/ flow[r].pc \in Ahead)
Quiet == /\ Eased /\ Onwards /\ active' \subseteq active
         /\ timeline' = timeline /\ sent' = sent /\ budget'.sends = budget.sends

\* An automatic dispatch that is up to date is so in spite of the step.
Fresher == \A r \in Slot : flow'[r].pc = "next" /\ flow'[r].fresh =>
             flow[r].pc = "next" /\ flow[r].fresh /\ queue' = queue

\* A flow that has no turn begins one that is nobody else's.
Begins(r) == /\ flow[r].turn = None /\ flow'[r].item = None /\ flow'[r].kind # "use"
             /\ \A y \in queue' : y.turn # flow'[r].turn

\* What keeps Plain: an item is one that was there, or has a turn of its own.
LEMMA PlainKept ==
  ASSUME Inv, Plain, active' \subseteq active,
         \A y \in queue' : \/ \E x \in queue : Twin(y, x)
                           \/ y.turn = y.id /\ \A r \in Slot : flow'[r].turn # y.turn,
         \A r \in Slot : Same(r) \/ Parts(r) \/ Begins(r)
  PROVE  Plain'
<1>1. \A y \in queue' : y.turn = y.id
  BY DEF Plain, Twin
<1>2. \A a \in active' : a.turn = a.item
  BY DEF Plain
<1>3. \A r \in Slot : /\ flow'[r].kind # "use"
                      /\ flow'[r].item # None => flow'[r].turn = flow'[r].item
  BY DEF Plain, Same, Parts, Begins
<1>4. ASSUME NEW r \in Slot, NEW y \in queue', flow'[r].turn = y.turn PROVE flow'[r].kind = "auto"
  <2>1. PICK x \in queue : Twin(y, x)
    BY <1>4
  <2>2. x.turn # None
    BY Words DEF Inv, Typed, Items
  <2>3. QED
    BY <1>4, <2>1, <2>2 DEF Plain, Same, Parts, Begins, Twin
<1>5. QED
  BY <1>1, <1>2, <1>3, <1>4 DEF Plain

\* An item that is tracked was so before, and its flow is there.
LEMMA CarriedKept ==
  ASSUME Inv, DispatchIsCarried, active' \subseteq active,
         \A r \in Slot : Same(r) \/ Parts(r) \/ Begins(r),
         \A y \in queue' : y.st = "dispatching" => \E x \in queue : Twin(y, x) /\ x.st = "dispatching"
  PROVE  DispatchIsCarried'
<1> SUFFICES ASSUME NEW y \in queue', y.st = "dispatching", Pair(y) \in active'
             PROVE  \E s \in Slot : flow'[s].turn = y.turn
  BY DEF DispatchIsCarried, Orphan, Pair
<1>1. PICK x \in queue : Twin(y, x) /\ x.st = "dispatching"
  OBVIOUS
<1>2. ~Orphan(x) /\ x.turn # None
  BY <1>1, Words DEF Orphan, Pair, Twin, Inv, Typed, Items
<1>3. PICK s \in Slot : flow[s].turn = x.turn
  BY <1>1, <1>2 DEF DispatchIsCarried
<1>4. QED
  BY <1>1, <1>2, <1>3 DEF Same, Parts, Begins, Twin

LEMMA QuietCarried == ASSUME Inv, CarriedInv, Quiet PROVE CarriedInv'
<1>1. \A y \in queue' : \E x \in queue : Twin(y, x) /\ (y.st = "dispatching" => x.st = "dispatching")
  BY DEF Quiet, Eased
<1>2. \A r \in Slot : Same(r) \/ Parts(r)
  BY DEF Quiet, Onwards, Onward
<1>3. QED
  BY <1>1, <1>2, PlainKept, CarriedKept DEF CarriedInv, Quiet

LEMMA ReadyKept == ASSUME Inv, Ready, Quiet, Fresher PROVE Ready'
<1> SUFFICES ASSUME NEW s \in Slot, flow'[s].pc = "next", flow'[s].fresh,
                    NEW x \in queue', x.st = "queued", NEW r \in Slot
             PROVE  flow'[r].turn # x.turn
  BY DEF Ready, Queued
<1>1. flow[s].pc = "next" /\ flow[s].fresh /\ x \in queue
  BY DEF Fresher
<1>2. flow[r].turn # x.turn
  BY <1>1 DEF Ready, Queued
<1>3. x.turn # None
  BY <1>1, Words DEF Inv, Typed, Items
<1>4. QED
  BY <1>2, <1>3 DEF Quiet, Onwards, Onward, Same, Parts

\* The pairs that leave the registry are of items that no flow has the turn of.
Cut == \A y \in queue' : y.st = "dispatching" /\ Pair(y) \in active =>
         Pair(y) \in active' \/ \A r \in Slot : flow'[r].turn # y.turn

LEMMA QuietUnsent == ASSUME Inv, Plain, OrderInv, Quiet, Sole(queue') PROVE Unsent'
<1>1. Taken' = Taken /\ sent' = sent /\ timeline' = timeline
  BY DEF Taken, Quiet
<1>2. ASSUME NEW r \in Slot, flow'[r].pc \in Ahead
      PROVE  flow[r].pc \in Ahead /\ flow'[r].msg = flow[r].msg /\ flow'[r].turn = flow[r].turn
  BY <1>2 DEF Quiet, Onwards, Onward, Same
<1>3. \A y \in queue' : \E x \in queue : y.id = x.id /\ y.turn = x.turn /\ y.msg = x.msg
  BY DEF Quiet, Eased, Twin
<1>4. Unsent
  BY DEF OrderInv
<1>5. \A s \in Slot : flow'[s].pc \in Ahead =>
        flow'[s].msg \in Msg /\ flow'[s].msg <= Taken /\ sent[flow'[s].msg] = 0
  BY <1>2, <1>4 DEF Unsent
<1>6. \A x \in queue' : (x.turn \notin timeline => sent[x.msg] = 0) /\ x.msg <= Taken
  BY <1>3, <1>4 DEF Unsent
<1>7. \A r, s \in Slot : flow'[r].pc \in Ahead /\ flow'[s].pc \in Ahead
                           /\ flow'[r].msg = flow'[s].msg => r = s
  BY <1>2, <1>4 DEF Unsent
<1>8. \A x, y \in queue' : x.msg = y.msg => x = y
  <2> TAKE x, y \in queue'
  <2> HAVE x.msg = y.msg
  <2>1. PICK v \in queue : x.id = v.id /\ x.msg = v.msg
    BY <1>3
  <2>2. PICK w \in queue : y.id = w.id /\ y.msg = w.msg
    BY <1>3
  <2>3. v = w
    BY <1>4, <2>1, <2>2 DEF Unsent
  <2>4. QED
    BY <2>1, <2>2, <2>3 DEF Sole
<1>9. \A s \in Slot : \A x \in queue' :
        flow'[s].pc \in Ahead /\ flow'[s].msg = x.msg => flow'[s].turn = x.turn
  BY <1>2, <1>3, <1>4 DEF Unsent
<1>10. \A s \in Slot : flow'[s].pc \in Ahead /\ flow'[s].turn # None => flow'[s].turn \notin timeline
  BY <1>2, <1>4 DEF Unsent
<1>11. \A m \in Msg : m > Taken => sent[m] = 0
  BY <1>4 DEF Unsent
<1>12. QED
  BY <1>1, <1>5, <1>6, <1>7, <1>8, <1>9, <1>10, <1>11 DEF Unsent

LEMMA QuietOrder ==
  ASSUME Inv, Inv', Plain, OrderInv, Quiet, Ready', Cut PROVE OrderInv'
<1>1. Sole(queue') /\ Sole(queue)
  BY DEF Inv, Contents
<1>2. Unsent' /\ SentAtMostOnce'
  BY <1>1, QuietUnsent DEF OrderInv, SentAtMostOnce, Quiet
<1>3. ASSUME NEW r \in Slot, flow'[r].turn # None
      PROVE  Onward(r) /\ flow'[r].turn = flow[r].turn
  BY <1>3 DEF Quiet, Onwards, Onward, Same, Parts
<1>4. \A y \in queue' : y.turn # None
  BY NoneAssumption DEF Inv, Typed, Items, Given
<1>5. Alone'
  BY <1>3 DEF OrderInv, Alone
<1>6. ASSUME NEW y \in queue', y.st = "queued"
      PROVE  /\ y.turn \notin timeline
             /\ \A r \in Slot : flow'[r].turn = y.turn => flow'[r].pc \in Late
  <2>1. PICK x \in queue :
          /\ Twin(y, x)
          /\ \/ y.st = x.st
             \/ Orphan(x) /\ x.turn \notin timeline
             \/ \E r \in Slot : /\ flow[r].turn = x.turn /\ flow'[r].pc \in Late
                                /\ (x.turn \notin timeline \/ flow[r].pc \in Ahead)
    BY DEF Quiet, Eased
  <2>2. y.turn = x.turn /\ x.turn # None
    BY <1>4, <2>1 DEF Twin
  <2>3. CASE x.st = "queued"
    <3>1. x.turn \notin timeline
      BY <2>3 DEF OrderInv, AcceptedLeaves, Queued
    <3>2. \A r \in Slot : flow[r].turn = x.turn => flow[r].pc \in Late
      BY <2>3 DEF OrderInv, Idle, Queued
    <3>3. QED
      BY <1>3, <2>2, <3>1, <3>2 DEF Onward
  <2>4. CASE Orphan(x) /\ x.turn \notin timeline
    <3>1. \A r \in Slot : flow[r].turn # x.turn
      BY <2>4 DEF OrderInv, Held, Orphan
    <3>2. QED
      BY <1>3, <2>2, <2>4, <3>1
  <2>5. CASE \E r \in Slot : /\ flow[r].turn = x.turn /\ flow'[r].pc \in Late
                             /\ (x.turn \notin timeline \/ flow[r].pc \in Ahead)
    <3>1. PICK q \in Slot : /\ flow[q].turn = x.turn /\ flow'[q].pc \in Late
                            /\ (x.turn \notin timeline \/ flow[q].pc \in Ahead)
      BY <2>5
    <3>2. x.turn \notin timeline
      BY <2>2, <3>1 DEF OrderInv, Unsent
    <3>3. \A r \in Slot : flow'[r].turn = x.turn => r = q
      BY <1>3, <2>2, <3>1 DEF OrderInv, Alone
    <3>4. QED
      BY <2>2, <3>1, <3>2, <3>3
  <2>6. QED
    BY <1>6, <2>1, <2>3, <2>4, <2>5
<1>7. AcceptedLeaves' /\ Idle'
  BY <1>6 DEF AcceptedLeaves, Idle, Queued, Quiet
<1>8. Held'
  <2> SUFFICES ASSUME NEW y \in queue', y.st = "dispatching", NEW r \in Slot, flow'[r].turn = y.turn
               PROVE  Pair(y) \in active' /\ flow'[r].pc \notin Leaving
    BY DEF Held, Orphan, Pair
  <2>1. PICK x \in queue : Twin(y, x) /\ x.st = "dispatching"
    <3>1. PICK x \in queue : Twin(y, x) /\ (y.st = x.st \/ y.st = "queued")
      BY DEF Quiet, Eased
    <3>2. QED
      BY <3>1
  <2>2. Onward(r) /\ flow[r].turn = x.turn
    BY <1>3, <1>4, <2>1 DEF Twin
  <2>3. Pair(y) \in active /\ flow[r].pc \notin Leaving
    BY <2>1, <2>2 DEF OrderInv, Held, Orphan, Pair, Twin
  <2>4. Pair(y) \in active'
    BY <2>3 DEF Cut
  <2>5. flow'[r].pc \notin Leaving
    BY <2>1, <2>2, <2>3 DEF Onward, Twin
  <2>6. QED
    BY <2>4, <2>5
<1>9. QED
  BY <1>2, <1>5, <1>7, <1>8 DEF OrderInv

(***************************************************************************)
(* The quiet steps.                                                        *)
(***************************************************************************)
Rest == timeline' = timeline /\ sent' = sent /\ budget'.sends = budget.sends
\* Where the file has changed, no dispatch that has read it is up to date.
Changed == queue' # queue => \A r \in Slot : ~flow'[r].fresh

LEMMA EasedSame == ASSUME queue' = queue PROVE Eased
  BY DEF Eased, Twin

LEMMA LoadedEased ==
  ASSUME Inv
  PROVE  \A y \in Loaded : \E x \in queue :
           Twin(y, x) /\ (y.st = x.st \/ (y.st = "queued" /\ Orphan(x) /\ x.turn \notin timeline))
<1> SUFFICES ASSUME NEW y \in Loaded
             PROVE  \E x \in queue :
                      /\ Twin(y, x)
                      /\ y.st = x.st \/ (y.st = "queued" /\ Orphan(x) /\ x.turn \notin timeline)
  OBVIOUS
<1>1. CASE Loaded = queue
  BY <1>1 DEF Twin
<1>2. CASE Loaded # queue
  <2>1. PICK x \in queue :
          y = Reconciled(x) /\ (x.turn \in timeline => x.st = "dispatching" /\ ~Orphan(x))
    BY <1>2, LoadedItems
  <2>2. x \in Items
    BY DEF Inv, Typed
  <2>3. CASE Orphan(x)
    BY <2>1, <2>2, <2>3, ItemFields DEF Reconciled
  <2>4. CASE ~Orphan(x)
    BY <2>1, <2>4 DEF Reconciled, Twin
  <2>5. QED
    BY <2>3, <2>4
<1>3. QED
  BY <1>1, <1>2

LEMMA EasedLoaded == ASSUME Inv, queue' \subseteq Loaded PROVE Eased
  BY LoadedEased DEF Eased

LEMMA AlikeOnward ==
  ASSUME NEW r \in Slot, Alike(flow'[r], flow[r]) PROVE Onward(r)
  BY DEF Alike, Onward, Same, Ahead, Late, Leaving

\* A flow may go on from one place to the other.
Passes(f, pc) == /\ pc \in Ahead => f.pc \in Ahead
                 /\ f.pc \in Late => pc \in Late
                 /\ pc \in Leaving => \A y \in queue' : y.turn = f.turn => y.st = "queued"

LEMMA MoveQuiet ==
  ASSUME NEW s \in Slot, NEW pc, Moves(s, pc), Passes(flow[s], pc), Eased, Rest,
         active' \subseteq active
  PROVE  Quiet
<1>1. \A r \in Slot \ {s} : Onward(r)
  BY AlikeOnward DEF Moves, Others
<1>2. Onward(s)
  BY DEF Moves, Passes, Onward, Same
<1>3. QED
  BY <1>1, <1>2 DEF Quiet, Onwards, Rest

LEMMA MoveFresher ==
  ASSUME NEW s \in Slot, NEW pc, Moves(s, pc), pc # "next", Changed PROVE Fresher
  BY DEF Fresher, Changed, Moves, Others, Alike

LEMMA EndQuiet ==
  ASSUME NEW s \in Slot, Ends(s), Eased, Rest, active' \subseteq active, Changed,
         \A y \in queue' : y.turn = flow[s].turn /\ y.st = "dispatching" => Pair(y) \notin active'
  PROVE  Quiet /\ Fresher
<1>1. \A r \in Slot \ {s} : Onward(r)
  BY AlikeOnward DEF Ends, Others
<1>2. Parts(s) /\ flow'[s].pc = "free"
  BY DEF Ends, Parts, Alike, Free
<1>3. "free" \notin Ahead
  BY DEF Ahead, Taking
<1>4. Quiet
  BY <1>1, <1>2, <1>3 DEF Quiet, Onwards, Rest
<1>5. Fresher
  BY <1>2 DEF Fresher, Changed, Ends, Others, Alike
<1>6. QED
  BY <1>4, <1>5

LEMMA StayQuiet ==
  ASSUME \A r \in Slot : Alike(flow'[r], flow[r]), Eased, Rest, active' \subseteq active, Changed
  PROVE  Quiet /\ Fresher
<1>1. \A r \in Slot : Onward(r)
  BY AlikeOnward
<1>2. QED
  BY <1>1 DEF Quiet, Onwards, Rest, Fresher, Changed, Alike

LEMMA GoQuiet ==
  ASSUME Inv, NEW s \in Slot, NEW pc \in PC, Becomes(Goto(s, pc)), Passes(flow[s], pc), pc # "next",
         Eased, Rest, active' \subseteq active
  PROVE  Quiet /\ Fresher
<1>1. Moves(s, pc) /\ Changed
  BY Going DEF Inv, Typed, Becomes, Changed
<1>2. QED
  BY <1>1, MoveQuiet, MoveFresher

\* A flow that has no turn ends.
LEMMA StopQuiet ==
  ASSUME Inv, NEW s \in Slot, Becomes(Ended(s)), flow[s].turn = None, queue' \subseteq Items,
         Eased, Rest, active' \subseteq active
  PROVE  Quiet /\ Fresher
<1>1. Ends(s) /\ Changed
  BY Ending DEF Inv, Typed, Becomes, Changed
<1>2. \A y \in queue' : y.turn # flow[s].turn
  BY Words DEF Items
<1>3. QED
  BY <1>1, <1>2, EndQuiet

LEMMA SpentRest ==
  ASSUME Inv, UNCHANGED <<timeline, sent>>, budget' = budget \/ \E what \in {"uses", "edits", "stops", "crashes", "faults"} : Spend(what)
  PROVE  Rest
<1>1. budget \in Budgets
  BY DEF Inv, Typed, RestTyped
<1>2. QED
  BY <1>1, Spending DEF Rest

\* The command that submits a prompt, up to the admission: its flow is the composer's.
LEMMA CommandQuiet ==
  ASSUME Inv, Plain, NEW s \in Slot,
         \/ Check(s) \/ (Enqueue(s) /\ Cardinality(Loaded) >= Limit)
         \/ Redrain(s) \/ Priority(s) \/ Lift(s) \/ Mark(s)
  PROVE  Quiet /\ Fresher /\ active' = active
<1>1. /\ flow \in [Slot -> Flows] /\ flow[s] \in Flows /\ Shape(flow[s]) /\ flow[s].kind # "use"
      /\ queue \subseteq Items
  BY DEF Inv, Typed, Shapes, Plain
<1>2. /\ flow[s].pc \in {"check", "enqueue", "redrain", "priority", "lift", "mark"} /\ active' = active /\ Rest
  BY DEF Check, Enqueue, Redrain, Priority, Lift, Mark, At, history, Rest
<1>3. flow[s].turn = None
  BY <1>1, <1>2 DEF Shape, Flows, Taking
<1>4. Loaded \subseteq Items
  BY LoadedDerived DEF Inv, Contents, Derived
<1>5. \A pc \in {"enqueue", "priority", "lift", "mark", "admit"} :
        /\ pc \in PC /\ Goto(s, pc) \in [Slot -> Flows] /\ pc # "next"
        /\ (flow[s].pc \in {"check", "priority", "lift", "mark"} => Passes(flow[s], pc))
  BY <1>1, GotoFlows DEF PC, Passes, Ahead, Late, Leaving, Taking
<1>6. CASE Check(s)
  <2>1. queue' = queue /\ (flow' = Goto(s, "enqueue") \/ flow' = Goto(s, "priority"))
    BY <1>3, <1>6 DEF Check, Exists, file
  <2>2. flow[s].pc = "check"
    BY <1>6 DEF Check, At
  <2>3. QED
    BY <1>2, <1>5, <2>1, <2>2, FlowBecomes, EasedSame, GoQuiet
<1>7. CASE Enqueue(s) /\ Cardinality(Loaded) >= Limit
  <2>1. Load(Ended(s))
    BY <1>1, <1>7 DEF Enqueue
  <2>2. queue' = Loaded /\ Becomes(Ended(s))
    BY <1>1, <2>1, EndedFlows, LoadBecomes
  <2>3. QED
    BY <1>2, <1>3, <1>4, <2>2, EasedLoaded, StopQuiet
<1>8. CASE Redrain(s)
  <2>1. queue' = queue
    BY <1>8 DEF Redrain, file
  <2>2. CASE flow' = Ended(s)
    BY <1>1, <1>2, <1>3, <2>1, <2>2, EndedFlows, FlowBecomes, EasedSame, StopQuiet
  <2>3. CASE flow' = [flow EXCEPT ![s].pc = "drain", ![s].ok = TRUE]
    <3>1. "drain" \in PC /\ TRUE \in BOOLEAN
      BY DEF PC
    <3>2. Becomes([flow EXCEPT ![s].pc = "drain", ![s].ok = TRUE])
      BY <1>1, <2>1, <2>3, <3>1, WithFlows, FlowBecomes
    <3>3. Moves(s, "drain") /\ Changed
      BY <1>1, <2>1, <3>1, <3>2, GoingWith DEF Changed
    <3>4. Passes(flow[s], "drain")
      BY DEF Passes, Ahead, Late, Leaving, Taking
    <3>5. QED
      BY <1>2, <2>1, <3>3, <3>4, EasedSame, MoveQuiet, MoveFresher
  <2>4. QED
    BY <1>8, <2>2, <2>3 DEF Redrain
<1>9. CASE Priority(s) \/ Lift(s) \/ Mark(s)
  <2>1. PICK pc \in {"lift", "mark", "admit"} :
          (queue' = Loaded \/ queue' = queue) /\ Becomes(Goto(s, pc))
    <3>1. CASE Priority(s)
      BY <1>5, <3>1, LoadBecomes DEF Priority
    <3>2. CASE Lift(s)
      BY <1>5, <3>2, FlowBecomes DEF Lift, file
    <3>3. CASE Mark(s)
      BY <1>5, <3>3, PersistBecomes DEF Mark
    <3>4. QED
      BY <1>9, <3>1, <3>2, <3>3
  <2>2. flow[s].pc \in {"priority", "lift", "mark"}
    BY <1>9 DEF Priority, Lift, Mark, At
  <2>3. QED
    BY <1>2, <1>5, <2>1, <2>2, EasedLoaded, EasedSame, GoQuiet
<1>10. QED
  BY <1>6, <1>7, <1>8, <1>9

LEMMA AdmitQuiet ==
  ASSUME Inv, Plain, NEW s \in Slot, Admit(s) PROVE Begin(s) \/ (Quiet /\ Fresher /\ active' = active)
<1>1. /\ flow \in [Slot -> Flows] /\ flow[s] \in Flows /\ Shape(flow[s]) /\ flow[s].kind # "use"
      /\ queue \subseteq Items /\ flow[s].pc = "admit"
  BY DEF Inv, Typed, Shapes, Plain, Admit, At
<1>2. queue' = queue /\ active' = active /\ UNCHANGED <<timeline, sent>>
  BY DEF Admit, file, history
<1>3. CASE (budget' = budget \/ Spend("faults")) /\ flow[s].kind = "composer" /\ flow' = Ended(s)
  <2>1. flow[s].turn = None
    BY <1>1, <1>3 DEF Shape, Taking
  <2>2. Rest
    BY <1>2, <1>3, SpentRest
  <2>3. QED
    BY <1>1, <1>2, <1>3, <2>1, <2>2, EndedFlows, FlowBecomes, EasedSame, StopQuiet
<1>4. CASE (budget' = budget \/ Spend("faults")) /\ flow' = Goto(s, "settle")
  <2>1. Rest
    BY <1>2, <1>4, SpentRest
  <2>2. "settle" \in PC /\ Passes(flow[s], "settle")
    BY <1>1 DEF PC, Passes, Ahead, Late, Leaving, Taking
  <2>3. QED
    BY <1>1, <1>2, <1>4, <2>1, <2>2, GotoFlows, FlowBecomes, EasedSame, GoQuiet
<1>5. flow[s].kind \in {"composer", "auto"} /\ (flow[s].kind = "composer" => flow[s].turn = None)
  BY <1>1 DEF Flows, Shape, Taking
<1>6. QED
  BY <1>3, <1>4, <1>5 DEF Admit, Refused

\* The turn.
LEMMA TurnQuiet ==
  ASSUME Inv, NEW s \in Slot,
         \/ Execute(s) \/ Gate(s) \/ Failed(s) \/ Start(s) \/ Break(s) \/ Interrupt(s)
         \/ Publish(s) \/ Published(s) \/ Respond(s) \/ MarkStopped(s) \/ Write(s) \/ Unlock(s)
  PROVE  Quiet /\ Fresher /\ (Published(s) \/ active' = active)
<1>1. /\ flow \in [Slot -> Flows] /\ Typed /\ Sole(queue)
      /\ flow[s].pc \in Turning \cup {"unlock"} /\ UNCHANGED <<timeline, sent>>
      /\ (queue' = queue \/ Publish(s)) /\ active' \subseteq active /\ (Published(s) \/ active' = active)
      /\ (budget' = budget \/ Spend("faults"))
  BY DEF Inv, Typed, Contents, At, Turning, file, session, history, Execute, Gate, Failed, Start, Break,
         Interrupt, Publish, Published, Respond, MarkStopped, Write, Unlock
<1>2. Rest
  BY <1>1, SpentRest
<1>3. CASE queue' = queue /\ \E pc \in {"gate", "settle", "failed", "lock", "prompt", "write", "unlock", "notify"} :
             flow' = Goto(s, pc) /\ (pc \in {"gate", "lock"} => flow[s].pc \in {"execute", "gate"})
  <2>1. PICK pc \in {"gate", "settle", "failed", "lock", "prompt", "write", "unlock", "notify"} :
             flow' = Goto(s, pc) /\ (pc \in {"gate", "lock"} => flow[s].pc \in {"execute", "gate"})
    BY <1>3
  <2>2. pc \in PC /\ pc # "next" /\ Passes(flow[s], pc)
    BY <1>1, <2>1 DEF PC, Passes, Ahead, Late, Leaving, Taking, Turning
  <2>3. QED
    BY <1>1, <1>2, <1>3, <2>1, <2>2, GotoFlows, FlowBecomes, EasedSame, GoQuiet
<1>4. CASE Start(s)
  <2>1. "start" \in PC /\ "start" # "next" /\ Passes(flow[s], "start")
    BY <1>4 DEF PC, Passes, Ahead, Late, Leaving, Taking, Start, At
  <2>2. queue' = queue /\ flow' = Goto(s, "start")
    BY <1>4 DEF Start, file
  <2>3. QED
    BY <1>1, <1>2, <2>1, <2>2, GotoFlows, FlowBecomes, EasedSame, GoQuiet
<1>5. CASE Interrupt(s) \/ Respond(s)
  <2>1. PICK pc \in {"unlock", "stop"}, ok \in BOOLEAN : flow' = [flow EXCEPT ![s].pc = pc, ![s].ok = ok]
    <3>1. (~CancelSeen(s)) \in BOOLEAN
      BY DEF CancelSeen
    <3>2. QED
      BY <1>5, <3>1 DEF Interrupt, Respond
  <2>2. queue' = queue /\ pc \in PC /\ pc # "next" /\ Passes(flow[s], pc)
    BY <1>1, <1>5 DEF PC, Passes, Ahead, Late, Leaving, Taking, Turning, Interrupt, Respond, file
  <2>3. Becomes([flow EXCEPT ![s].pc = pc, ![s].ok = ok])
    BY <1>1, <2>1, <2>2, WithFlows, FlowBecomes
  <2>4. Moves(s, pc) /\ Changed
    BY <1>1, <2>2, <2>3, GoingWith DEF Changed
  <2>5. QED
    BY <1>1, <1>2, <2>2, <2>4, EasedSame, MoveQuiet, MoveFresher
<1>6. CASE Publish(s)
  <2> DEFINE done == {x \in queue : x.turn = flow[s].turn /\ x.st = "dispatching"}
  <2>1. CASE queue' = queue /\ flow' = Goto(s, "prompt")
    BY <1>3, <2>1
  <2>2. CASE \/ flow' = Goto(s, "published") /\ done = {} /\ queue' = queue
             \/ Persist(queue \ done, Goto(s, "published"))
    <3>1. "published" \in PC /\ Goto(s, "published") \in [Slot -> Flows]
      BY <1>1, GotoFlows DEF PC
    <3>2. queue' = queue \ done /\ Becomes(Goto(s, "published"))
      BY <2>2, <3>1, FlowBecomes, PersistBecomes
    <3>3. \A y \in queue' : y.turn = flow[s].turn => y.st = "queued"
      BY <1>1, <3>2 DEF Typed, Items
    <3>4. Passes(flow[s], "published")
      BY <1>1, <3>3 DEF Passes, Ahead, Late, Taking, Turning
    <3>5. Eased
      BY <3>2 DEF Eased, Twin
    <3>6. QED
      BY <1>1, <1>2, <3>1, <3>2, <3>4, <3>5, GoQuiet
  <2>3. QED
    BY <1>6, <2>1, <2>2 DEF Publish
<1>7. CASE Execute(s) \/ Gate(s) \/ Failed(s) \/ Break(s) \/ Published(s) \/ MarkStopped(s) \/ Write(s) \/ Unlock(s)
  <2>1. queue' = queue
    BY <1>7 DEF Execute, Gate, Failed, Break, Published, MarkStopped, Write, Unlock, file
  <2>2. \E pc \in {"gate", "settle", "failed", "lock", "prompt", "write", "unlock", "notify"} :
             flow' = Goto(s, pc) /\ (pc \in {"gate", "lock"} => flow[s].pc \in {"execute", "gate"})
    BY <1>7 DEF Execute, Gate, Failed, Break, Published, MarkStopped, Write, Unlock, At
  <2>3. QED
    BY <1>3, <2>1, <2>2
<1>8. QED
  BY <1>1, <1>4, <1>5, <1>6, <1>7

\* A settlement.
LEMMA SettleQuiet ==
  ASSUME Inv, NEW s \in Slot, NEW pc \in {"notified", "clear"}, NEW next, next \in [Slot -> Flows],
         SettleItem(s, pc, next), flow[s].pc \notin Late \/ pc \in Late,
         active' = active, Rest
  PROVE  \/ Quiet /\ Fresher
         \/ /\ queue' = queue /\ Becomes(next)
            /\ \A y \in queue' : y.turn = flow[s].turn /\ y.st = "dispatching" => Pair(y) \notin active'
<1> DEFINE mine == {x \in queue : /\ x.turn = flow[s].turn /\ x.st = "dispatching"
                                  /\ [turn |-> x.turn, item |-> x.id] \in active}
<1>1. flow \in [Slot -> Flows] /\ queue \subseteq Items /\ Sole(queue)
  BY DEF Inv, Typed, Contents
<1>2. CASE mine = {}
  <2>1. flow' = next /\ queue' = queue
    BY <1>2 DEF SettleItem
  <2>2. QED
    BY <1>2, <2>1, FlowBecomes DEF Pair
<1>3. CASE mine # {}
  <2>1. PICK x \in mine :
          Persist(IF x.turn \in timeline THEN queue \ {x} ELSE Put(queue, x, "queued"), Goto(s, pc))
    BY <1>3 DEF SettleItem
  <2>2. x \in queue /\ x.turn = flow[s].turn /\ x \in Items
    BY <1>1, <2>1
  <2>3. pc \in PC /\ pc # "next" /\ pc \in Late /\ pc \notin Ahead /\ Goto(s, pc) \in [Slot -> Flows]
    BY <1>1, GotoFlows DEF PC, Late, Ahead, Taking
  <2>4. /\ queue' = IF x.turn \in timeline THEN queue \ {x} ELSE Put(queue, x, "queued")
        /\ Becomes(Goto(s, pc))
    BY <2>1, <2>3, PersistBecomes
  <2>5. flow'[s].pc = pc
    BY <1>1, <2>3, <2>4, Going DEF Moves
  <2>6. ASSUME NEW y \in queue'
        PROVE  \/ y \in queue /\ y # x
               \/ Twin(y, x) /\ y.st = "queued" /\ x.turn \notin timeline
    <3>1. CASE x.turn \in timeline
      BY <2>4, <3>1
    <3>2. CASE x.turn \notin timeline
      BY <2>2, <2>4, <3>2, ItemFields DEF Put
    <3>3. QED
      BY <3>1, <3>2
  <2>7. Eased
    BY <2>2, <2>3, <2>5, <2>6 DEF Eased, Twin
  <2>8. \A y \in queue' : y.turn = flow[s].turn => y.st = "queued"
    BY <1>1, <2>2, <2>6 DEF Sole
  <2>9. Passes(flow[s], pc)
    BY <2>3, <2>8 DEF Passes
  <2>10. QED
    BY <2>3, <2>4, <2>7, <2>9, GoQuiet
<1>4. QED
  BY <1>2, <1>3

LEMMA SettlementQuiet ==
  ASSUME Inv, NEW s \in Slot, Notify(s) \/ Settle(s) PROVE Quiet /\ Fresher /\ active' = active
<1>1. /\ flow \in [Slot -> Flows] /\ active' = active /\ Rest
  BY DEF Notify, Settle, history, Inv, Typed, Rest
<1>2. CASE Notify(s)
  <2>1. /\ flow[s].pc = "notify" /\ "drain" \in PC /\ Goto(s, "drain") \in [Slot -> Flows]
        /\ SettleItem(s, "notified", Goto(s, "drain"))
    BY <1>1, <1>2, GotoFlows DEF PC, Notify, At
  <2>2. Passes(flow[s], "drain") /\ flow[s].pc \notin Late
    BY <2>1 DEF Passes, Late, Ahead, Taking, Leaving
  <2>3. \/ Quiet /\ Fresher
        \/ queue' = queue /\ Becomes(Goto(s, "drain"))
    BY <1>1, <2>1, <2>2, SettleQuiet
  <2>4. QED
    BY <1>1, <2>1, <2>2, <2>3, EasedSame, GoQuiet
<1>3. CASE Settle(s)
  <2>1. SettleItem(s, "clear", Ended(s)) /\ Ended(s) \in [Slot -> Flows] /\ "clear" \in Late
    BY <1>1, <1>3, EndedFlows DEF Settle, Late
  <2>2. \/ Quiet /\ Fresher
        \/ /\ queue' = queue /\ Becomes(Ended(s))
           /\ \A y \in queue' : y.turn = flow[s].turn /\ y.st = "dispatching" => Pair(y) \notin active'
    BY <1>1, <2>1, SettleQuiet
  <2>3. CASE /\ queue' = queue /\ Becomes(Ended(s))
             /\ \A y \in queue' : y.turn = flow[s].turn /\ y.st = "dispatching" => Pair(y) \notin active'
    <3>1. Ends(s) /\ Changed
      BY <1>1, <2>3, Ending DEF Changed
    <3>2. QED
      BY <1>1, <2>3, <3>1, EasedSame, EndQuiet
  <2>4. QED
    BY <1>1, <2>2, <2>3
<1>4. QED
  BY <1>2, <1>3

\* The registry is cleared of the item of the flow.
LEMMA ClearingQuiet ==
  ASSUME Inv, Plain, NEW s \in Slot, Notified(s) \/ Clear(s) PROVE Quiet /\ Fresher
<1>1. /\ flow \in [Slot -> Flows] /\ flow[s] \in Flows /\ Shape(flow[s]) /\ queue \subseteq Items
      /\ flow[s].pc \in {"notified", "clear"}
      /\ active' = Untracked(flow[s].item) /\ active' \subseteq active /\ queue' = queue /\ Rest
  BY DEF Notified, Clear, Untracked, At, file, history, Inv, Typed, Shapes, Rest
<1>2. CASE Notified(s)
  <2>1. flow[s].pc = "notified" /\ flow' = Goto(s, "drain") /\ "drain" \in PC
    BY <1>2 DEF PC, Notified, At
  <2>2. Passes(flow[s], "drain")
    BY DEF Passes, Late, Ahead, Taking, Leaving
  <2>3. QED
    BY <1>1, <2>1, <2>2, GotoFlows, FlowBecomes, EasedSame, GoQuiet
<1>3. CASE Clear(s)
  <2>1. Ends(s) /\ Changed
    BY <1>1, <1>3, EndedFlows, FlowBecomes, Ending DEF Clear, Changed
  <2>2. ASSUME NEW y \in queue, y.turn = flow[s].turn PROVE Pair(y) \notin active'
    <3>1. flow[s].kind = "auto" /\ y.turn = y.id
      BY <2>2 DEF Plain
    <3>2. flow[s].item # None
      BY <1>1, <3>1 DEF Shape
    <3>3. flow[s].item = y.id
      BY <2>2, <3>1, <3>2 DEF Plain
    <3>4. QED
      BY <1>1, <3>3 DEF Untracked, Pair
  <2>3. QED
    BY <1>1, <2>1, <2>2, EasedSame, EndQuiet
<1>4. QED
  BY <1>2, <1>3

\* A drain settles its turn next; the dispatch it may arm has nothing yet.
LEMMA DrainQuiet ==
  ASSUME Inv, NEW s \in Slot, Drain(s) PROVE Quiet /\ Fresher /\ active' = active
<1>1. /\ flow[s].pc = "drain" /\ flow \in [Slot -> Flows] /\ active' = active /\ Rest
  BY DEF Drain, At, history, Inv, Typed, Rest
<1>2. "settle" \in PC /\ Passes(flow[s], "settle")
  BY <1>1 DEF PC, Passes, Ahead, Late, Leaving, Taking
<1>3. CASE ~MayDrain(s)
  <2>1. queue' = Loaded /\ Becomes(Goto(s, "settle"))
    BY <1>1, <1>2, <1>3, GotoFlows, LoadBecomes DEF Drain
  <2>2. QED
    BY <1>1, <1>2, <2>1, EasedLoaded, GoQuiet
<1>4. CASE MayDrain(s)
  <2> DEFINE f == IF Loaded = queue THEN flow
                  ELSE [r \in Slot |-> [flow[r] EXCEPT !.fresh = FALSE]]
             a == [Free EXCEPT !.pc = "armed", !.kind = "auto", !.fresh = TRUE]
  <2>1. /\ Spare # {} /\ queue' = Loaded
        /\ flow' = [f EXCEPT ![s].pc = "settle", ![NextSlot] = a]
    BY <1>4 DEF Drain
  <2>2. NextSlot \in Slot /\ NextSlot # s /\ flow[NextSlot].pc = "free"
    BY <1>1, <2>1, SpareSlot
  <2>3. f \in [Slot -> Flows] /\ \A r \in Slot : Alike(f[r], flow[r]) /\ (queue' # queue => ~f[r].fresh)
    <3>1. \A g \in Flows : /\ [g EXCEPT !.fresh = FALSE] \in Flows
                           /\ Alike([g EXCEPT !.fresh = FALSE], g) /\ Alike(g, g)
                           /\ [g EXCEPT !.fresh = FALSE].fresh = FALSE
      BY DEF Flows, Alike
    <3>2. CASE Loaded = queue
      BY <1>1, <2>1, <3>1, <3>2
    <3>3. CASE Loaded # queue
      <4>1. \A r \in Slot : f[r] = [flow[r] EXCEPT !.fresh = FALSE]
        BY <3>3
      <4>2. QED
        BY <1>1, <3>1, <3>3, <4>1
    <3>4. QED
      BY <3>2, <3>3
  <2>4. a.kind = "auto" /\ a.item = None /\ a.turn = None /\ a.pc = "armed"
    BY DEF Free
  <2> HIDE DEF f, a
  <2>5. /\ flow'[NextSlot] = a /\ flow'[s] = [f[s] EXCEPT !.pc = "settle"]
        /\ \A r \in Slot \ {s, NextSlot} : flow'[r] = f[r]
    <3>1. flow' = [[f EXCEPT ![s] = [f[s] EXCEPT !.pc = "settle"]] EXCEPT ![NextSlot] = a]
      BY <2>1
    <3>2. QED
      BY <2>2, <2>3, <3>1
  <2>6. /\ flow'[s].pc = "settle" /\ Same(s)
    BY <2>3, <2>5 DEF Alike, Flows, Same
  <2>7. \A r \in Slot \ {s, NextSlot} : Onward(r)
    BY <2>3, <2>5, AlikeOnward
  <2>8. Onward(s)
    BY <1>2, <2>6 DEF Onward, Passes
  <2>9. Parts(NextSlot) /\ flow'[NextSlot].pc \notin Ahead
    <3>1. Shape(flow[NextSlot])
      BY <2>2 DEF Inv, Shapes
    <3>2. flow[NextSlot].turn = None
      BY <2>2, <3>1 DEF Shape
    <3>3. \A y \in queue' : y.turn # None
      BY <2>1, LoadedDerived, Words DEF Inv, Contents, Derived, Items
    <3>4. QED
      BY <2>4, <2>5, <3>2, <3>3 DEF Parts, Ahead, Taking
  <2>10. Eased
    BY <2>1, EasedLoaded
  <2>11. Quiet
    BY <1>1, <2>7, <2>8, <2>9, <2>10 DEF Quiet, Onwards, Rest
  <2>12. Fresher
    <3> SUFFICES ASSUME NEW r \in Slot, flow'[r].pc = "next", flow'[r].fresh
                 PROVE  flow[r].pc = "next" /\ flow[r].fresh /\ queue' = queue
      BY DEF Fresher
    <3>1. r # s /\ r # NextSlot
      BY <2>4, <2>5, <2>6
    <3>2. flow'[r] = f[r] /\ Alike(f[r], flow[r]) /\ (queue' # queue => ~f[r].fresh)
      BY <2>3, <2>5, <3>1
    <3>3. QED
      BY <3>2 DEF Alike
  <2>13. QED
    BY <1>1, <2>11, <2>12
<1>5. QED
  BY <1>3, <1>4

LEMMA FireQuiet ==
  ASSUME Inv, NEW s \in Slot, Fire(s)
  PROVE  /\ Quiet /\ active' = active /\ queue' = queue
         /\ Fresher \/ (Elapsed /\ flow[s].pc = "armed" /\ Others(s))
<1>1. /\ flow[s].pc = "armed" /\ Elapsed /\ flow \in [Slot -> Flows] /\ Shape(flow[s])
      /\ queue \subseteq Items /\ queue' = queue /\ active' = active /\ Rest
  BY DEF Fire, At, file, history, Inv, Typed, Shapes, Rest
<1>2. CASE flow' = Ended(s)
  <2>1. flow[s].turn = None
    BY <1>1 DEF Shape
  <2>2. QED
    BY <1>1, <1>2, <2>1, EndedFlows, FlowBecomes, EasedSame, StopQuiet
<1>3. CASE flow' = Goto(s, "next")
  <2>1. "next" \in PC /\ Passes(flow[s], "next")
    BY <1>1 DEF PC, Passes, Ahead, Late, Leaving, Taking
  <2>2. Moves(s, "next")
    BY <1>1, <1>3, <2>1, GotoFlows, FlowBecomes, Going
  <2>3. QED
    BY <1>1, <2>1, <2>2, EasedSame, MoveQuiet DEF Moves
<1>4. QED
  BY <1>2, <1>3 DEF Fire

Claiming(s) == ClaimNext(s) /\ ~(Preempted(s) \/ parked \/ gate \/ Queued(queue) = {})

LEMMA ClaimedQuiet ==
  ASSUME Inv, NEW s \in Slot, (ClaimNext(s) /\ ~Claiming(s)) \/ Claimed(s)
  PROVE  Quiet /\ Fresher /\ active' = active
<1>1. /\ flow \in [Slot -> Flows] /\ Shape(flow[s]) /\ queue \subseteq Items /\ Rest
  BY DEF ClaimNext, Claimed, history, Inv, Typed, Shapes, Rest
<1>2. CASE ClaimNext(s) /\ ~Claiming(s)
  <2>1. Load(Ended(s)) /\ active' = active /\ flow[s].pc = "next"
    BY <1>2 DEF ClaimNext, Claiming, At
  <2>2. queue' = Loaded /\ Becomes(Ended(s)) /\ flow[s].turn = None
    BY <1>1, <2>1, EndedFlows, LoadBecomes DEF Shape
  <2>3. Loaded \subseteq Items
    BY LoadedDerived DEF Inv, Contents, Derived
  <2>4. QED
    BY <1>1, <2>1, <2>2, <2>3, EasedLoaded, StopQuiet
<1>3. CASE Claimed(s)
  <2>1. PICK pc \in {"release", "admit"} : flow' = Goto(s, pc)
    BY <1>3 DEF Claimed
  <2>2. pc \in PC /\ pc # "next" /\ Passes(flow[s], pc)
    BY <1>3 DEF PC, Passes, Ahead, Late, Leaving, Taking, Claimed, At
  <2>3. queue' = queue /\ active' = active
    BY <1>3 DEF Claimed, file
  <2>4. QED
    BY <1>1, <2>1, <2>2, <2>3, GotoFlows, FlowBecomes, EasedSame, GoQuiet
<1>4. QED
  BY <1>2, <1>3

\* The claimed item is given back: it is the one that has the turn of the flow.
LEMMA ReleaseQuiet ==
  ASSUME Inv, Plain, NEW s \in Slot, Release(s) PROVE Quiet /\ Fresher /\ active' = active
<1> DEFINE p == {IF x.id = flow[s].item THEN [x EXCEPT !.st = "queued"] ELSE x : x \in Loaded}
<1>1. /\ flow[s].pc = "release" /\ flow \in [Slot -> Flows] /\ flow[s] \in Flows /\ Shape(flow[s])
      /\ Persist(p, Goto(s, "clear")) /\ active' = active /\ Rest
  BY DEF Release, At, history, Inv, Typed, Shapes, Rest
<1>2. "clear" \in PC /\ Goto(s, "clear") \in [Slot -> Flows] /\ "clear" \in Late
  BY <1>1, GotoFlows DEF PC, Late
<1> HIDE DEF p
<1>3. queue' = p /\ Becomes(Goto(s, "clear"))
  BY <1>1, <1>2, PersistBecomes
<1>4. flow'[s].pc = "clear"
  BY <1>1, <1>2, <1>3, Going DEF Moves
<1>5. flow[s].item # None /\ flow[s].turn = flow[s].item
  <2>1. flow[s].kind \in {"composer", "use", "auto"} /\ flow[s].kind # "use"
    BY <1>1 DEF Flows, Plain
  <2>2. flow[s].item # None
    BY <1>1, <2>1 DEF Shape
  <2>3. QED
    BY <2>2 DEF Plain
<1>6. ASSUME NEW y \in p
      PROVE  \E x \in queue : /\ Twin(y, x)
                              /\ \/ y.id # flow[s].item /\ (y.st = x.st \/ (y.st = "queued" /\ Orphan(x) /\ x.turn \notin timeline))
                                 \/ y.id = flow[s].item /\ y.st = "queued"
  <2>1. PICK z \in Loaded : y = IF z.id = flow[s].item THEN [z EXCEPT !.st = "queued"] ELSE z
    BY <1>6 DEF p
  <2>2. z \in Items /\ \E x \in queue :
          Twin(z, x) /\ (z.st = x.st \/ (z.st = "queued" /\ Orphan(x) /\ x.turn \notin timeline))
    BY LoadedDerived, LoadedEased DEF Inv, Contents, Derived
  <2>3. CASE z.id = flow[s].item
    <3>1. y.st = "queued" /\ Twin(y, z)
      BY <2>1, <2>2, <2>3, ItemFields
    <3>2. QED
      BY <2>2, <2>3, <3>1 DEF Twin
  <2>4. CASE z.id # flow[s].item
    BY <2>1, <2>2, <2>4
  <2>5. QED
    BY <2>3, <2>4
<1>7. \A x \in queue : x.id = x.turn
  BY DEF Plain
<1>8. flow[s].pc \in Ahead
  BY <1>1 DEF Ahead
<1>9. Eased
  <2> SUFFICES ASSUME NEW y \in p
               PROVE  \E x \in queue :
                        /\ Twin(y, x)
                        /\ \/ y.st = x.st
                           \/ y.st = "queued" /\ Orphan(x) /\ x.turn \notin timeline
                           \/ /\ y.st = "queued"
                              /\ \E r \in Slot : /\ flow[r].turn = x.turn /\ flow'[r].pc \in Late
                                                /\ (x.turn \notin timeline \/ flow[r].pc \in Ahead)
    BY <1>3 DEF Eased
  <2>1. PICK x \in queue : /\ Twin(y, x)
                           /\ \/ y.id # flow[s].item /\ (y.st = x.st \/ (y.st = "queued" /\ Orphan(x) /\ x.turn \notin timeline))
                              \/ y.id = flow[s].item /\ y.st = "queued"
    BY <1>6
  <2>2. CASE y.id # flow[s].item
    BY <2>1, <2>2
  <2>3. CASE y.id = flow[s].item
    <3>1. flow[s].turn = x.turn /\ y.st = "queued"
      BY <1>5, <1>7, <2>1, <2>3 DEF Twin
    <3>2. QED
      BY <1>2, <1>4, <1>8, <2>1, <3>1
  <2>4. QED
    BY <2>2, <2>3
<1>10. \A y \in queue' : y.turn = flow[s].turn => y.st = "queued"
  BY <1>3, <1>5, <1>6, <1>7 DEF Twin
<1>11. Passes(flow[s], "clear")
  BY <1>1, <1>10 DEF Passes, Ahead, Late, Taking
<1>12. QED
  BY <1>1, <1>2, <1>3, <1>9, <1>11, GoQuiet

\* The user's edits, the stop, a restart.
LEMMA EditQuiet ==
  ASSUME Inv, (\E x \in Loaded : Delete(x)) \/ (\E x, y \in Loaded : Move(x, y))
  PROVE  Quiet /\ Fresher /\ active' = active
<1>1. flow \in [Slot -> Flows] /\ Derived(Loaded) /\ UNCHANGED <<timeline, sent, active>> /\ Spend("edits")
  BY LoadedDerived DEF Delete, Move, history, Inv, Typed, Contents
<1>2. Rest
  BY <1>1, SpentRest
<1>3. PICK q : Persist(q, flow)
  BY DEF Delete, Move
<1>4. /\ queue' = q /\ Changed /\ \A r \in Slot : Alike(flow'[r], flow[r])
  BY <1>1, <1>3, PersistBecomes, Staying DEF Becomes, Changed
<1>5. Eased
  <2>1. CASE \E x \in Loaded : Delete(x)
    <3>1. queue' \subseteq Loaded
      BY <2>1 DEF Delete, Persist
    <3>2. QED
      BY <3>1, EasedLoaded
  <2>2. ASSUME NEW x \in Loaded, NEW y \in Loaded, Move(x, y) PROVE Eased
    <3>1. queue' = (Loaded \ {x, y}) \cup {[x EXCEPT !.rank = y.rank], [y EXCEPT !.rank = x.rank]}
      BY <2>2 DEF Move, Persist
    <3>2. \A z \in queue' : \E w \in Loaded : Twin(z, w) /\ z.st = w.st
      BY <1>1, <3>1 DEF Derived, Items, Twin
    <3>3. \A w \in Loaded : \E v \in queue :
            Twin(w, v) /\ (w.st = v.st \/ (w.st = "queued" /\ Orphan(v) /\ v.turn \notin timeline))
      BY LoadedEased
    <3>4. QED
      BY <3>2, <3>3 DEF Eased, Twin
  <2>3. QED
    BY <2>1, <2>2
<1>6. QED
  BY <1>1, <1>2, <1>4, <1>5, StayQuiet

LEMMA StopCommandQuiet ==
  ASSUME Inv, StopCommand \/ UNCHANGED vars PROVE Quiet /\ Fresher /\ active' = active
<1>1. /\ flow \in [Slot -> Flows] /\ UNCHANGED <<timeline, sent, active>>
      /\ (budget' = budget \/ Spend("stops"))
  BY DEF StopCommand, RequestStop, CancelPrompt, SetGate, Inspect, Suspend, Park, Cleanup, vars, history, Inv, Typed
<1>2. Rest
  BY <1>1, SpentRest
<1>3. CASE Inspect \/ Park
  <2>1. queue' = Loaded /\ Becomes(flow)
    BY <1>1, <1>3, LoadBecomes, PersistBecomes DEF Inspect, Park
  <2>2. Changed /\ \A r \in Slot : Alike(flow'[r], flow[r])
    BY <1>1, <2>1, Staying DEF Becomes, Changed
  <2>3. QED
    BY <1>1, <1>2, <2>1, <2>2, EasedLoaded, StayQuiet
<1>4. CASE ~(Inspect \/ Park)
  <2>1. queue' = queue /\ flow' = flow
    BY <1>4 DEF StopCommand, RequestStop, CancelPrompt, SetGate, Suspend, Cleanup, vars, file
  <2>2. Changed /\ \A r \in Slot : Alike(flow'[r], flow[r])
    BY <2>1 DEF Alike, Changed
  <2>3. QED
    BY <1>1, <1>2, <2>1, <2>2, EasedSame, StayQuiet
<1>5. QED
  BY <1>3, <1>4

LEMMA RestartQuiet == ASSUME Inv, Restart PROVE Quiet /\ Fresher
<1>1. /\ UNCHANGED <<timeline, sent, queue>> /\ Spend("crashes") /\ active' = {}
      /\ \A r \in Slot : flow'[r] = Free
  BY DEF Restart, file, history
<1>2. Rest
  BY <1>1, SpentRest
<1>3. \A r \in Slot : Parts(r) /\ flow'[r].pc \notin Ahead
  BY <1>1 DEF Parts, Free, Ahead, Taking
<1>4. Fresher
  BY <1>1 DEF Fresher, Free
<1>5. QED
  BY <1>1, <1>2, <1>3, <1>4, EasedSame DEF Quiet, Onwards, Rest

(***************************************************************************)
(* The other steps.                                                        *)
(***************************************************************************)
LEMMA SubmitFacts ==
  ASSUME Inv, Submit
  PROVE  /\ \E s \in Slot :
              /\ flow[s].pc = "free" /\ \A r \in Slot \ {s} : flow'[r] = flow[r]
              /\ flow'[s].pc = "check" /\ flow'[s].kind = "composer" /\ flow'[s].item = None
              /\ flow'[s].turn = None /\ flow'[s].msg = Taken + 1
         /\ Taken' = Taken + 1 /\ Taken \in Nat /\ Taken + 1 \in Msg
         /\ UNCHANGED <<queue, timeline, active, sent>>
<1> DEFINE g == [Free EXCEPT !.pc = "check", !.msg = Sends - budget.sends + 1]
<1>1. /\ flow \in [Slot -> Flows] /\ budget \in Budgets /\ Spend("sends") /\ Spare # {}
      /\ flow' = [flow EXCEPT ![NextSlot] = g] /\ UNCHANGED <<queue, timeline, active, sent>>
  BY DEF Submit, file, history, Inv, Typed, RestTyped
<1>2. NextSlot \in Slot /\ flow[NextSlot].pc = "free"
  BY <1>1, SpareSlot
<1>3. budget.sends > 0 /\ budget'.sends = budget.sends - 1
  BY <1>1, Spending
<1>4. g.pc = "check" /\ g.kind = "composer" /\ g.msg = Sends - budget.sends + 1
      /\ g.item = None /\ g.turn = None
  BY DEF Free
<1> HIDE DEF g
<1>5. Taken' = Taken + 1 /\ Taken \in Nat /\ Taken + 1 \in Msg /\ g.msg = Taken + 1
  BY <1>1, <1>3, <1>4, Bounds DEF Budgets, Msg, Taken
<1>6. flow'[NextSlot] = g /\ \A r \in Slot \ {NextSlot} : flow'[r] = flow[r]
  BY <1>1, <1>2
<1>7. QED
  BY <1>1, <1>2, <1>4, <1>5, <1>6

Appending(s) == Enqueue(s) /\ ~(Cardinality(Loaded) >= Limit)
Added(s) == [id |-> ids + 1, rank |-> ids + 1, turn |-> ids + 1, msg |-> flow[s].msg, st |-> "queued"]

LEMMA AppendFacts ==
  ASSUME Inv, Plain, NEW s \in Slot, Appending(s)
  PROVE  /\ flow[s].pc = "enqueue" /\ flow[s].turn = None /\ Others(s)
         /\ flow'[s].pc = "redrain" /\ flow'[s].kind = "composer" /\ flow'[s].item = None
         /\ flow'[s].turn = None
         /\ queue' = Loaded \cup {Added(s)} /\ \A r \in Slot : ~flow'[r].fresh
         /\ ids + 1 \notin timeline /\ \A r \in Slot : flow[r].turn # ids + 1
         /\ ids + 1 # None
         /\ UNCHANGED <<timeline, active, sent, budget>>
<1> DEFINE f == [flow EXCEPT ![s] = [Free EXCEPT !.pc = "redrain"]]
<1>1. /\ flow[s].pc = "enqueue" /\ flow \in [Slot -> Flows] /\ ids \in Nat /\ timeline \subseteq Given
      /\ flow[s] \in Flows /\ Shape(flow[s]) /\ flow[s].kind # "use"
      /\ Persist(Loaded \cup {Added(s)}, f) /\ UNCHANGED <<timeline, active, sent, budget>>
  BY DEF Appending, Enqueue, At, Added, Inv, Typed, RestTyped, Shapes, Plain
<1>2. flow[s].turn = None
  BY <1>1 DEF Flows, Shape, Taking
<1>3. f \in [Slot -> Flows] /\ f[s] = [Free EXCEPT !.pc = "redrain"]
      /\ \A r \in Slot \ {s} : f[r] = flow[r]
  <2>1. [Free EXCEPT !.pc = "redrain"] \in Flows
    BY DEF Free, Flows, PC
  <2>2. QED
    BY <1>1, <2>1
<1> HIDE DEF f
<1>4. queue' = Loaded \cup {Added(s)} /\ Becomes(f)
  BY <1>1, <1>3, PersistBecomes
<1>5. \A r \in Slot : ~flow'[r].fresh
  <2>1. \A g \in Flows : [g EXCEPT !.fresh = FALSE].fresh = FALSE
    BY DEF Flows
  <2>2. QED
    BY <1>1, <1>3, <2>1 DEF Persist
<1>6. ids + 1 \notin Given /\ ids + 1 # None
  BY <1>1, NoneAssumption DEF Given
<1>7. ids + 1 \notin timeline /\ \A r \in Slot : flow[r].turn # ids + 1
  BY <1>1, <1>6 DEF Flows
<1>8. Others(s) /\ Alike(flow'[s], [Free EXCEPT !.pc = "redrain"])
  BY <1>3, <1>4 DEF Becomes, Others
<1>9. /\ flow'[s].pc = "redrain" /\ flow'[s].kind = "composer" /\ flow'[s].item = None
      /\ flow'[s].turn = None
  BY <1>8 DEF Alike, Free
<1>10. QED
  BY <1>1, <1>2, <1>4, <1>5, <1>6, <1>7, <1>8, <1>9

LEMMA BeginFacts ==
  ASSUME Inv, NEW s \in Slot, Admit(s), Begin(s)
  PROVE  /\ flow[s].pc = "admit" /\ flow'[s].pc = "execute" /\ flow'[s].msg = flow[s].msg
         /\ flow'[s].kind = flow[s].kind /\ flow'[s].item = flow[s].item
         /\ \A r \in Slot \ {s} : flow'[r] = flow[r]
         /\ \/ flow[s].turn # None /\ flow'[s].turn = flow[s].turn
            \/ /\ flow[s].turn = None /\ flow[s].item = None
               /\ flow'[s].turn = ids + 1
         /\ ids + 1 \notin Given /\ ids + 1 # None
         /\ UNCHANGED <<queue, timeline, active, sent, budget>>
<1> DEFINE t == IF flow[s].turn = None THEN ids + 1 ELSE flow[s].turn
<1>1. /\ flow[s].pc = "admit" /\ flow \in [Slot -> Flows] /\ flow[s] \in Flows /\ Shape(flow[s])
      /\ ids \in Nat /\ flow' = [flow EXCEPT ![s].pc = "execute", ![s].turn = t]
      /\ UNCHANGED <<queue, timeline, active, sent, budget>>
  BY DEF Admit, Begin, At, file, history, Inv, Typed, Shapes
<1>2. ids + 1 \notin Given /\ ids + 1 # None
  BY <1>1, NoneAssumption DEF Given
<1>3. /\ flow[s].turn = None => t = ids + 1
      /\ flow[s].turn # None => t = flow[s].turn
  OBVIOUS
<1> HIDE DEF t
<1>4. flow'[s] = [flow[s] EXCEPT !.pc = "execute", !.turn = t]
      /\ \A r \in Slot \ {s} : flow'[r] = flow[r]
  BY <1>1
<1>5. /\ flow'[s].pc = "execute" /\ flow'[s].msg = flow[s].msg /\ flow'[s].turn = t
      /\ flow'[s].kind = flow[s].kind /\ flow'[s].item = flow[s].item
  BY <1>1, <1>4 DEF Flows
<1>6. flow[s].turn = None => flow[s].item = None
  BY <1>1 DEF Flows, Shape
<1>7. QED
  BY <1>1, <1>2, <1>3, <1>4, <1>5, <1>6

LEMMA AcceptFacts ==
  ASSUME Inv, NEW s \in Slot, Accept(s)
  PROVE  /\ flow[s].pc = "start" /\ Moves(s, "publish") /\ flow[s].turn # None
         /\ timeline' = timeline \cup {flow[s].turn}
         /\ sent' = [sent EXCEPT ![flow[s].msg] = @ + 1] /\ sent \in [Msg -> Nat]
         /\ UNCHANGED <<queue, active, budget>>
<1>1. /\ flow[s].pc = "start" /\ flow \in [Slot -> Flows] /\ Shape(flow[s])
      /\ flow' = Goto(s, "publish") /\ timeline' = timeline \cup {flow[s].turn}
      /\ sent' = [sent EXCEPT ![flow[s].msg] = @ + 1] /\ sent \in [Msg -> Nat]
      /\ UNCHANGED <<queue, active, budget>>
  BY DEF Accept, At, file, Inv, Typed, RestTyped, Shapes
<1>2. "publish" \in PC
  BY DEF PC
<1>3. QED
  BY <1>1, <1>2, GotoFlows, FlowBecomes, Going DEF Shape, Turning

LEMMA ClaimFacts ==
  ASSUME Inv, NEW s \in Slot, Claiming(s)
  PROVE  \E x \in queue :
           /\ x.st = "queued" /\ queue' = Put(queue, x, "dispatching") /\ active' = Tracked(x)
           /\ flow[s].pc = "next" /\ flow[s].fresh /\ flow[s].turn = None
           /\ flow'[s].pc = "claimed" /\ flow'[s].kind = "auto" /\ Took(s, x) /\ Others(s)
           /\ \A r \in Slot : ~flow'[r].fresh
           /\ UNCHANGED <<timeline, sent, budget>>
<1> DEFINE x == First(Queued(queue))
           g == [flow[s] EXCEPT !.pc = "claimed", !.item = x.id, !.turn = x.turn, !.msg = x.msg]
           f == [flow EXCEPT ![s].pc = "claimed", ![s].item = x.id, ![s].turn = x.turn,
                             ![s].msg = x.msg]
<1>1. /\ flow[s].pc = "next" /\ flow \in [Slot -> Flows] /\ flow[s] \in Flows /\ Shape(flow[s])
      /\ queue \subseteq Items /\ flow[s].fresh
      /\ UNCHANGED <<timeline, sent, budget>>
      /\ Persist(Put(queue, x, "dispatching"), f) /\ active' = Tracked(x)
  BY DEF Claiming, ClaimNext, Preempted, At, history, Inv, Typed, Shapes
<1>2. x \in queue /\ x.st = "queued"
  BY FirstIn DEF Queued, Inv, Claiming
<1> HIDE DEF x
<1>3. x.id \in Given /\ x.turn \in Given /\ x.msg \in Msg
  BY <1>1, <1>2 DEF Items
<1>4. g \in Flows /\ g.pc = "claimed" /\ g.item = x.id /\ g.turn = x.turn /\ g.msg = x.msg
      /\ g.kind = "auto"
  BY <1>1, <1>3 DEF Flows, PC, Shape
<1>5. f = [flow EXCEPT ![s] = g]
  BY <1>1
<1> HIDE DEF g, f
<1>6. f \in [Slot -> Flows] /\ f[s] = g /\ \A r \in Slot \ {s} : f[r] = flow[r]
  BY <1>1, <1>4, <1>5
<1>7. queue' = Put(queue, x, "dispatching") /\ Becomes(f)
  BY <1>1, <1>6, PersistBecomes
<1>8. Others(s) /\ Alike(flow'[s], g)
  BY <1>6, <1>7 DEF Becomes, Others
<1>9. Took(s, x) /\ flow'[s].pc = "claimed" /\ flow'[s].kind = "auto" /\ flow[s].turn = None
  BY <1>1, <1>4, <1>8 DEF Took, Alike, Shape
<1>10. \A r \in Slot : ~flow'[r].fresh
  <2>1. \A h \in Flows : [h EXCEPT !.fresh = FALSE].fresh = FALSE
    BY DEF Flows
  <2>2. QED
    BY <1>1, <1>6, <2>1 DEF Persist
<1>11. QED
  BY <1>1, <1>2, <1>7, <1>8, <1>9, <1>10

(***************************************************************************)
(* Every dispatch is carried.                                              *)
(***************************************************************************)
LEMMA SubmitCarried == ASSUME Inv, CarriedInv, Submit PROVE CarriedInv'
<1>1. PICK s \in Slot :
              /\ flow[s].pc = "free" /\ \A r \in Slot \ {s} : flow'[r] = flow[r]
              /\ flow'[s].pc = "check" /\ flow'[s].kind = "composer" /\ flow'[s].item = None
              /\ flow'[s].turn = None
  BY SubmitFacts
<1>2. UNCHANGED <<queue, active>>
  BY SubmitFacts
<1>3. flow[s].turn = None
  BY <1>1 DEF Inv, Shapes, Shape
<1>4. \A x \in queue : x.turn # None
  BY Words DEF Inv, Typed, Items
<1>5. \A r \in Slot : Same(r) \/ Parts(r)
  BY <1>1, <1>2, <1>3, <1>4 DEF Same, Parts
<1>6. QED
  BY <1>2, <1>5, PlainKept, CarriedKept DEF CarriedInv, Twin

LEMMA AppendCarried == ASSUME Inv, CarriedInv, NEW s \in Slot, Appending(s) PROVE CarriedInv'
<1>1. /\ flow[s].pc = "enqueue" /\ flow[s].turn = None /\ Others(s)
      /\ flow'[s].kind = "composer" /\ flow'[s].item = None /\ flow'[s].turn = None
      /\ queue' = Loaded \cup {Added(s)} /\ active' = active
      /\ ids + 1 # None /\ \A r \in Slot : flow[r].turn # ids + 1
  BY AppendFacts DEF CarriedInv
<1>2. /\ Added(s).turn = ids + 1 /\ Added(s).id = ids + 1 /\ Added(s).st = "queued"
  BY DEF Added
<1>3. \A y \in Loaded : \E x \in queue : Twin(y, x) /\ (y.st = x.st \/ y.st = "queued")
  BY LoadedEased
<1>4. \A y \in queue' : y.turn # None
  BY <1>1, <1>2, LoadedDerived, Words DEF Inv, Contents, Derived, Items
<1>5. \A r \in Slot : Same(r) \/ Parts(r)
  BY <1>1, <1>4 DEF Same, Parts, Others, Alike
<1>6. \A r \in Slot : flow'[r].turn # ids + 1
  BY <1>1 DEF Others, Alike
<1>7. QED
  BY <1>1, <1>2, <1>3, <1>5, <1>6, PlainKept, CarriedKept DEF CarriedInv

LEMMA BeginCarried ==
  ASSUME Inv, CarriedInv, NEW s \in Slot, Admit(s), Begin(s) PROVE CarriedInv'
<1>1. /\ \A r \in Slot \ {s} : flow'[r] = flow[r]
      /\ flow'[s].msg = flow[s].msg /\ flow'[s].kind = flow[s].kind /\ flow'[s].item = flow[s].item
      /\ \/ flow[s].turn # None /\ flow'[s].turn = flow[s].turn
         \/ flow[s].turn = None /\ flow[s].item = None /\ flow'[s].turn = ids + 1
      /\ ids + 1 \notin Given /\ UNCHANGED <<queue, active>>
  BY BeginFacts
<1>2. \A y \in queue : y.turn # ids + 1
  BY <1>1 DEF Inv, Typed, Items
<1>3. \A r \in Slot : Same(r) \/ Begins(r)
  BY <1>1, <1>2 DEF Same, Begins, CarriedInv, Plain
<1>4. QED
  BY <1>1, <1>3, PlainKept, CarriedKept DEF CarriedInv, Twin

LEMMA AcceptCarried == ASSUME Inv, CarriedInv, NEW s \in Slot, Accept(s) PROVE CarriedInv'
<1>1. Moves(s, "publish") /\ UNCHANGED <<queue, active>>
  BY AcceptFacts
<1>2. \A r \in Slot : Same(r)
  BY <1>1 DEF Moves, Others, Alike, Same
<1>3. QED
  BY <1>1, <1>2, PlainKept, CarriedKept DEF CarriedInv, Twin

LEMMA ClaimCarried == ASSUME Inv, CarriedInv, NEW s \in Slot, Claiming(s) PROVE CarriedInv'
<1>1. PICK x \in queue :
           /\ queue' = Put(queue, x, "dispatching") /\ active' = Tracked(x)
           /\ flow[s].turn = None
           /\ flow'[s].kind = "auto" /\ Took(s, x) /\ Others(s)
  BY ClaimFacts
<1>2. x.turn = x.id /\ x \in Items /\ x.turn # None
  BY Words DEF CarriedInv, Plain, Inv, Typed, Items
<1>3. ASSUME NEW y \in queue' PROVE (y \in queue /\ y # x) \/ Twin(y, x)
  BY <1>1, <1>2, <1>3, ItemFields DEF Put
<1>4. active' = active \cup {Pair(x)} /\ Pair(x).turn = x.turn /\ Pair(x).item = x.id
  BY <1>1 DEF Tracked, Pair
<1>5. ASSUME NEW r \in Slot \ {s} PROVE Same(r)
  BY <1>1 DEF Others, Alike, Same
<1>6. Plain'
  <2>1. \A y \in queue' : y.turn = y.id
    BY <1>2, <1>3 DEF CarriedInv, Plain, Twin
  <2>2. \A a \in active' : a.turn = a.item
    BY <1>2, <1>4 DEF CarriedInv, Plain
  <2>3. \A r \in Slot : flow'[r].kind # "use" /\ (flow'[r].item # None => flow'[r].turn = flow'[r].item)
    BY <1>1, <1>2, <1>5 DEF CarriedInv, Plain, Took, Same
  <2>4. \A r \in Slot : \A y \in queue' : flow'[r].turn = y.turn => flow'[r].kind = "auto"
    BY <1>1, <1>3, <1>5 DEF CarriedInv, Plain, Same, Twin
  <2>5. QED
    BY <2>1, <2>2, <2>3, <2>4 DEF Plain
<1>7. DispatchIsCarried'
  <2> SUFFICES ASSUME NEW y \in queue', y.st = "dispatching", Pair(y) \in active'
               PROVE  \E r \in Slot : flow'[r].turn = y.turn
    BY DEF DispatchIsCarried, Orphan, Pair
  <2>1. CASE Twin(y, x)
    BY <1>1, <2>1 DEF Took, Twin
  <2>2. CASE y \in queue /\ y # x
    <3>1. Pair(y) # Pair(x)
      BY <2>2 DEF Pair, Inv, Contents, Sole
    <3>2. ~Orphan(y) /\ y.turn # None
      BY <1>4, <2>2, <3>1, Words DEF Orphan, Pair, Inv, Typed, Items
    <3>3. PICK r \in Slot : flow[r].turn = y.turn
      BY <2>2, <3>2 DEF CarriedInv, DispatchIsCarried
    <3>4. r # s
      BY <1>1, <3>2, <3>3
    <3>5. QED
      BY <1>5, <3>3, <3>4 DEF Same
  <2>3. QED
    BY <1>3, <2>1, <2>2
<1>8. QED
  BY <1>6, <1>7 DEF CarriedInv

\* Without uses there is no flow that uses an item.
LEMMA NoUse ==
  ASSUME Uses = 0, Inv, Plain
  PROVE  /\ \A s \in Slot : ~(ClaimUsed(s) \/ Recover(s) \/ Untrack(s) \/ Track(s))
         /\ \A x \in queue : ~Use(x)
<1>1. \A s \in Slot : flow[s].pc \notin {"claim", "recover", "rename", "track"}
  BY DEF Inv, Shapes, Shape, Plain
<1>2. budget \in Budgets
  BY DEF Inv, Typed, RestTyped
<1>3. ~(budget["uses"] > 0)
  BY <1>2 DEF Budgets
<1>4. QED
  BY <1>1, <1>3 DEF ClaimUsed, Recover, Untrack, Track, At, Use, Spend

\* The steps that are not quiet, and those that are.
LEMMA Steps ==
  ASSUME Uses = 0, Inv, Plain, [Next]_vars
  PROVE  \/ Submit \/ \E s \in Slot : \/ Appending(s) \/ Accept(s) \/ Claiming(s)
                                      \/ Admit(s) /\ Begin(s)
         \/ \E s \in Slot : Published(s) \/ Notified(s) \/ Clear(s) \/ Fire(s)
         \/ Restart
         \/ Quiet /\ Fresher /\ active' = active
<1>1. ASSUME NEW s \in Slot, Run(s)
      PROVE  \/ Appending(s) \/ Accept(s) \/ Claiming(s) \/ (Admit(s) /\ Begin(s))
             \/ Published(s) \/ Notified(s) \/ Clear(s) \/ Fire(s)
             \/ Quiet /\ Fresher /\ active' = active
  <2>1. CASE Check(s) \/ Enqueue(s) \/ Redrain(s) \/ Priority(s) \/ Lift(s) \/ Mark(s) \/ Admit(s)
    BY <2>1, CommandQuiet, AdmitQuiet DEF Appending
  <2>2. CASE \/ Execute(s) \/ Gate(s) \/ Failed(s) \/ Start(s) \/ Break(s) \/ Interrupt(s)
             \/ Accept(s) \/ Publish(s) \/ Published(s) \/ Respond(s)
             \/ MarkStopped(s) \/ Write(s) \/ Unlock(s)
    BY <2>2, TurnQuiet
  <2>3. CASE \/ Notify(s) \/ Notified(s) \/ Drain(s) \/ Settle(s) \/ Clear(s)
    BY <2>3, SettlementQuiet, DrainQuiet
  <2>4. CASE Fire(s) \/ ClaimNext(s) \/ Claimed(s) \/ Release(s)
    BY <2>4, ClaimedQuiet, ReleaseQuiet
  <2>5. QED
    BY <1>1, <2>1, <2>2, <2>3, <2>4, NoUse DEF Run
<1>2. CASE StopCommand \/ UNCHANGED vars
  BY <1>2, StopCommandQuiet
<1>3. CASE User
  BY <1>3, NoUse, EditQuiet DEF User
<1>4. QED
  BY <1>1, <1>2, <1>3 DEF Next

LEMMA NextCarried == ASSUME Uses = 0, Inv, CarriedInv, [Next]_vars PROVE CarriedInv'
<1>1. Plain
  BY DEF CarriedInv
<1>2. CASE Submit \/ \E s \in Slot : \/ Appending(s) \/ Accept(s) \/ Claiming(s)
                                     \/ (Admit(s) /\ Begin(s))
  BY <1>2, SubmitCarried, AppendCarried, AcceptCarried, ClaimCarried, BeginCarried
<1>3. CASE (\E s \in Slot : Published(s) \/ Notified(s) \/ Clear(s) \/ Fire(s)) \/ Restart
  <2>1. Quiet
    BY <1>1, <1>3, TurnQuiet, ClearingQuiet, FireQuiet, RestartQuiet
  <2>2. QED
    BY <2>1, QuietCarried
<1>4. CASE Quiet
  BY <1>4, QuietCarried
<1>5. QED
  BY <1>1, <1>2, <1>3, <1>4, Steps

LEMMA InitCarried == Init => CarriedInv
<1> SUFFICES ASSUME Init PROVE CarriedInv
  OBVIOUS
<1>1. \A s \in Slot : flow[s].kind = "composer" /\ flow[s].item = None /\ flow[s].turn = None
  BY DEF Init, Free
<1>2. queue = {} /\ active = {}
  BY DEF Init
<1>3. QED
  BY <1>1, <1>2 DEF CarriedInv, Plain, DispatchIsCarried

\* When no queued prompt is used by hand, an item that is tracked as being dispatched is in
\* the hands of a flow that will settle it, however long threads are held up.
THEOREM DispatchesAreCarried ==
  ASSUME Uses = 0 PROVE Spec => []DispatchIsCarried
<1>1. Init => Inv /\ CarriedInv
  BY InitInv, InitCarried
<1>2. (Inv /\ CarriedInv) /\ [Next]_vars => (Inv /\ CarriedInv)'
  BY NextInv, NextCarried
<1>3. Inv /\ CarriedInv => DispatchIsCarried
  BY DEF CarriedInv
<1>4. QED
  BY <1>1, <1>2, <1>3, PTL DEF Spec

(***************************************************************************)
(* Sent prompts leave the queue, and no prompt is sent twice.              *)
(***************************************************************************)
LEMMA QuietStep ==
  ASSUME Inv, Inv', Plain, OrderInv, Quiet, Fresher, Cut PROVE OrderInv'
  BY ReadyKept, QuietOrder DEF OrderInv

LEMMA StillStep ==
  ASSUME Inv, Inv', Plain, OrderInv, Quiet, Fresher, active' = active PROVE OrderInv'
<1>1. Cut
  BY DEF Cut
<1>2. QED
  BY <1>1, QuietStep

\* The registry loses only what no flow has the turn of.
LEMMA ClearingOrder ==
  ASSUME Inv, Inv', Plain, OrderInv, NEW s \in Slot, Published(s) \/ Notified(s) \/ Clear(s)
  PROVE  OrderInv'
<1>1. Quiet /\ Fresher
  BY TurnQuiet, ClearingQuiet
<1>2. queue' = queue /\ flow[s].pc \in Leaving
  BY DEF Published, Notified, Clear, At, file, Leaving
<1>3. ASSUME NEW y \in queue, y.st = "dispatching", Pair(y) \in active PROVE Pair(y) \in active'
  <2>1. flow[s].turn # y.turn
    BY <1>2, <1>3 DEF OrderInv, Held
  <2>2. CASE Published(s)
    BY <1>3, <2>1, <2>2 DEF Published, Pair
  <2>3. CASE Notified(s) \/ Clear(s)
    <3>1. flow[s].item # None => flow[s].turn = flow[s].item
      BY DEF Plain
    <3>2. y.id # None /\ y.id = y.turn
      BY Words DEF Plain, Inv, Typed, Items
    <3>3. flow[s].item # y.id
      BY <2>1, <3>1, <3>2
    <3>4. active' = {a \in active : a.item # flow[s].item}
      BY <2>3 DEF Notified, Clear, Untracked
    <3>5. QED
      BY <1>3, <3>3, <3>4 DEF Pair
  <2>4. QED
    BY <2>2, <2>3
<1>4. Cut
  BY <1>2, <1>3 DEF Cut
<1>5. QED
  BY <1>1, <1>4, QuietStep

LEMMA RestartOrder == ASSUME Inv, Inv', Plain, OrderInv, Restart PROVE OrderInv'
<1>1. Quiet /\ Fresher
  BY RestartQuiet
<1>2. \A r \in Slot : flow'[r].turn = None
  BY DEF Restart, Free
<1>3. \A y \in queue' : y.turn # None
  BY NoneAssumption DEF Inv, Typed, Items, Given
<1>4. Cut
  BY <1>2, <1>3 DEF Cut
<1>5. QED
  BY <1>1, <1>4, QuietStep

\* When the time of a dispatch is over, no settlement is going on.
LEMMA FireOrder ==
  ASSUME Delays = FALSE, Inv, Inv', Plain, OrderInv, NEW s \in Slot, Fire(s) PROVE OrderInv'
<1>1. /\ Quiet /\ active' = active /\ queue' = queue
      /\ Fresher \/ (Elapsed /\ flow[s].pc = "armed" /\ Others(s))
  BY FireQuiet
<1>2. CASE Elapsed /\ flow[s].pc = "armed" /\ Others(s)
  <2>1. \A r \in Slot : flow[r].pc \in {"free", "armed", "start", "prompt"}
    BY <1>2 DEF Elapsed, Inv, Typed, Flows
  <2>2. \A x \in Queued(queue) : \A r \in Slot : flow[r].turn # x.turn
    BY <2>1 DEF OrderInv, Idle, Late
  <2>3. \A x \in queue : x.turn # None
    BY Words DEF Inv, Typed, Items
  <2>4. \A r \in Slot : flow'[r].turn = flow[r].turn \/ flow'[r].turn = None
    BY <1>1 DEF Quiet, Onwards, Onward, Same, Parts
  <2>5. Ready'
    BY <1>1, <2>2, <2>3, <2>4 DEF Ready, Queued
  <2>6. Cut
    BY <1>1 DEF Cut
  <2>7. QED
    BY <1>1, <2>5, <2>6, QuietOrder
<1>3. QED
  BY <1>1, <1>2, StillStep

\* The queue, the timeline and the registry stay, and so do the turns and the places of the
\* flows but one, which is at work on a prompt and has a turn of its own if it has one.
LEMMA OneFlowOrder ==
  ASSUME Inv, OrderInv, NEW s \in Slot, Others(s), UNCHANGED <<queue, timeline, active>>,
         flow'[s].pc \in Ahead \ {"next"},
         \A r \in Slot \ {s} : flow'[s].turn # None => flow[r].turn # flow'[s].turn,
         \A x \in queue : flow'[s].turn # x.turn
  PROVE  Alone' /\ Ready' /\ Idle' /\ Held' /\ AcceptedLeaves'
<1>1. \A r \in Slot \ {s} : /\ flow'[r].turn = flow[r].turn /\ flow'[r].pc = flow[r].pc
                            /\ (flow'[r].fresh => flow[r].fresh)
  BY DEF Others, Alike
<1>2. Alone'
  BY <1>1 DEF OrderInv, Alone
<1>3. Ready'
  BY <1>1 DEF OrderInv, Ready, Queued
<1>4. Idle'
  BY <1>1 DEF OrderInv, Idle, Queued
<1>5. Held'
  BY <1>1 DEF OrderInv, Held, Orphan
<1>6. AcceptedLeaves'
  BY DEF OrderInv, AcceptedLeaves, Queued
<1>7. QED
  BY <1>2, <1>3, <1>4, <1>5, <1>6

LEMMA SubmitOrder == ASSUME Inv, OrderInv, Submit PROVE OrderInv'
<1>1. PICK s \in Slot :
              /\ flow[s].pc = "free" /\ \A r \in Slot \ {s} : flow'[r] = flow[r]
              /\ flow'[s].pc = "check" /\ flow'[s].turn = None /\ flow'[s].msg = Taken + 1
  BY SubmitFacts
<1>2. /\ Taken' = Taken + 1 /\ Taken \in Nat /\ Taken + 1 \in Msg
      /\ UNCHANGED <<queue, timeline, active, sent>>
  BY SubmitFacts
<1>3. \A x \in queue : x.turn # None /\ x.msg \in Nat
  BY Words DEF Inv, Typed, Items
<1>4. Alone' /\ Ready' /\ Idle' /\ Held' /\ AcceptedLeaves'
  BY <1>1, <1>2, <1>3, OneFlowOrder DEF Others, Alike, Ahead, Taking
<1>5. Unsent
  BY DEF OrderInv
<1>6. \A r \in Slot : r = s \/ flow'[r] = flow[r]
  BY <1>1
<1>7. \A m \in Msg : m \in Nat
  BY Words
<1>8. \A r \in Slot : flow'[r].pc \in Ahead =>
        flow'[r].msg \in Msg /\ flow'[r].msg <= Taken + 1 /\ sent[flow'[r].msg] = 0
  <2>1. sent[Taken + 1] = 0
    BY <1>2, <1>5 DEF Unsent
  <2>2. ASSUME NEW r \in Slot, flow'[r] = flow[r], flow'[r].pc \in Ahead
        PROVE  flow'[r].msg \in Msg /\ flow'[r].msg <= Taken + 1 /\ sent[flow'[r].msg] = 0
    BY <1>2, <1>5, <1>7, <2>2 DEF Unsent
  <2>3. QED
    BY <1>1, <1>2, <1>6, <2>1, <2>2
<1>9. \A p, r \in Slot : flow'[p].pc \in Ahead /\ flow'[r].pc \in Ahead
                          /\ flow'[p].msg = flow'[r].msg => p = r
  <2>1. \A r \in Slot \ {s} : flow[r].pc \in Ahead => flow[r].msg # Taken + 1
    BY <1>2, <1>5, <1>7 DEF Unsent
  <2>2. QED
    BY <1>1, <1>5, <1>6, <2>1 DEF Unsent
<1>10. \A r \in Slot : \A x \in queue :
         flow'[r].pc \in Ahead /\ flow'[r].msg = x.msg => flow'[r].turn = x.turn
  <2>1. \A x \in queue : x.msg # Taken + 1
    BY <1>2, <1>3, <1>5 DEF Unsent
  <2>2. QED
    BY <1>1, <1>5, <1>6, <2>1 DEF Unsent
<1>11. \A x \in queue : x.msg <= Taken + 1
  BY <1>2, <1>3, <1>5 DEF Unsent
<1>12. \A m \in Msg : m > Taken + 1 => sent[m] = 0
  BY <1>2, <1>5, <1>7 DEF Unsent
<1>13. \A r \in Slot : flow'[r].pc \in Ahead /\ flow'[r].turn # None => flow'[r].turn \notin timeline
  BY <1>1, <1>5, <1>6 DEF Unsent
<1>14. (\A x \in queue : x.turn \notin timeline => sent[x.msg] = 0)
       /\ (\A x, y \in queue : x.msg = y.msg => x = y)
  BY <1>5 DEF Unsent
<1>15. Unsent'
  BY <1>2, <1>8, <1>9, <1>10, <1>11, <1>12, <1>13, <1>14 DEF Unsent
<1>16. QED
  BY <1>2, <1>4, <1>15 DEF OrderInv, SentAtMostOnce

LEMMA BeginOrder ==
  ASSUME Inv, Inv', Plain, OrderInv, NEW s \in Slot, Admit(s), Begin(s) PROVE OrderInv'
<1>1. /\ flow[s].pc = "admit" /\ flow'[s].pc = "execute" /\ flow'[s].msg = flow[s].msg
      /\ flow'[s].kind = flow[s].kind /\ flow'[s].item = flow[s].item
      /\ \A r \in Slot \ {s} : flow'[r] = flow[r]
      /\ \/ flow[s].turn # None /\ flow'[s].turn = flow[s].turn
         \/ flow[s].turn = None /\ flow'[s].turn = ids + 1
      /\ ids + 1 \notin Given /\ ids + 1 # None
      /\ UNCHANGED <<queue, timeline, active, sent, budget>>
  BY BeginFacts
<1>2. {"admit", "execute"} \subseteq Ahead \ {"next"} /\ {"admit", "execute"} \cap (Late \cup Leaving) = {}
  BY DEF Ahead, Taking, Late, Leaving
<1>3. \A r \in Slot \ {s} : Alike(flow'[r], flow[r])
  BY <1>1 DEF Alike
<1>4. CASE flow'[s].turn = flow[s].turn
  <2>1. Onward(s)
    BY <1>1, <1>2, <1>4 DEF Onward, Same
  <2>2. Quiet
    BY <1>1, <1>3, <2>1, EasedSame, AlikeOnward DEF Quiet, Onwards
  <2>3. Fresher
    BY <1>1 DEF Fresher
  <2>4. QED
    BY <1>1, <2>2, <2>3, StillStep
<1>5. CASE flow[s].turn = None /\ flow'[s].turn = ids + 1
  <2>1. /\ \A x \in queue : x.turn # None /\ x.turn # ids + 1
        /\ \A r \in Slot : flow[r].turn # ids + 1
        /\ ids + 1 \notin timeline
    BY <1>1, Words DEF Inv, Typed, RestTyped, Items, Flows
  <2>2. Alone' /\ Ready' /\ Idle' /\ Held' /\ AcceptedLeaves'
    BY <1>1, <1>2, <1>3, <1>5, <2>1, OneFlowOrder DEF Others
  <2>3. Unsent /\ Taken' = Taken
    BY <1>1 DEF OrderInv, Taken
  <2>4. \A r \in Slot : flow'[r].pc \in Ahead => flow[r].pc \in Ahead /\ flow'[r].msg = flow[r].msg
    BY <1>1, <1>2
  <2>5. \A x \in queue : flow[s].msg # x.msg
    BY <1>1, <1>2, <1>5, <2>1, <2>3 DEF Unsent
  <2>6. \A r \in Slot : flow'[r].pc \in Ahead =>
          flow'[r].msg \in Msg /\ flow'[r].msg <= Taken /\ sent[flow'[r].msg] = 0
    BY <2>3, <2>4 DEF Unsent
  <2>7. \A p, r \in Slot : flow'[p].pc \in Ahead /\ flow'[r].pc \in Ahead
                             /\ flow'[p].msg = flow'[r].msg => p = r
    BY <2>3, <2>4 DEF Unsent
  <2>8. \A r \in Slot : \A x \in queue :
          flow'[r].pc \in Ahead /\ flow'[r].msg = x.msg => flow'[r].turn = x.turn
    BY <1>1, <2>3, <2>5 DEF Unsent
  <2>9. \A r \in Slot : flow'[r].pc \in Ahead /\ flow'[r].turn # None => flow'[r].turn \notin timeline
    BY <1>1, <1>5, <2>1, <2>3 DEF Unsent
  <2>10. Unsent'
    BY <1>1, <2>3, <2>6, <2>7, <2>8, <2>9 DEF Unsent
  <2>11. QED
    BY <1>1, <2>2, <2>10 DEF OrderInv, SentAtMostOnce
<1>6. QED
  BY <1>1, <1>4, <1>5

LEMMA AcceptOrder ==
  ASSUME Inv, OrderInv, NEW s \in Slot, Accept(s) PROVE OrderInv'
<1> DEFINE t == flow[s].turn
           m == flow[s].msg
<1>1. /\ flow[s].pc = "start" /\ Moves(s, "publish") /\ t # None
      /\ timeline' = timeline \cup {t} /\ sent' = [sent EXCEPT ![m] = @ + 1] /\ sent \in [Msg -> Nat]
      /\ UNCHANGED <<queue, active, budget>>
  BY AcceptFacts
<1>2. /\ "start" \in Ahead /\ "publish" \notin Ahead \cup Late \cup Leaving \cup {"next"}
      /\ "start" \notin Late
  BY DEF Ahead, Taking, Late, Leaving
<1>3. /\ \A r \in Slot : flow'[r].turn = flow[r].turn /\ flow'[r].msg = flow[r].msg
                         /\ (flow'[r].fresh => flow[r].fresh)
      /\ \A r \in Slot \ {s} : flow'[r].pc = flow[r].pc
      /\ flow'[s].pc = "publish"
  BY <1>1 DEF Moves, Others, Alike
<1>4. Unsent /\ Taken' = Taken
  BY <1>1 DEF OrderInv, Taken
<1>5. m \in Msg /\ m <= Taken /\ sent[m] = 0
  BY <1>1, <1>2, <1>4 DEF Unsent
<1>6. sent'[m] = 1 /\ \A n \in Msg \ {m} : sent'[n] = sent[n]
  BY <1>1, <1>5
<1> HIDE DEF t, m
<1>7. t = flow[s].turn /\ m = flow[s].msg
  BY DEF t, m
<1>8. Alone'
  BY <1>3 DEF OrderInv, Alone
<1>9. \A x \in Queued(queue) : x.turn # t
  BY <1>1, <1>2, <1>7 DEF OrderInv, Idle
<1>10. Ready'
  BY <1>1, <1>2, <1>3 DEF OrderInv, Ready, Queued
<1>11. Idle'
  BY <1>1, <1>3, <1>7, <1>9 DEF OrderInv, Idle, Queued
<1>12. Held'
  BY <1>1, <1>2, <1>3 DEF OrderInv, Held, Orphan
<1>13. AcceptedLeaves'
  BY <1>1, <1>9 DEF OrderInv, AcceptedLeaves, Queued
<1>14. SentAtMostOnce'
  BY <1>5, <1>6 DEF OrderInv, SentAtMostOnce
<1>15. \A r \in Slot : flow'[r].pc \in Ahead => r # s /\ flow[r].pc \in Ahead /\ flow[r].msg # m
  BY <1>1, <1>2, <1>3, <1>4, <1>7 DEF Unsent
<1>16. Unsent'
  <2>1. \A r \in Slot : flow'[r].pc \in Ahead =>
          flow'[r].msg \in Msg /\ flow'[r].msg <= Taken /\ sent'[flow'[r].msg] = 0
    BY <1>3, <1>4, <1>6, <1>15 DEF Unsent
  <2>2. \A x \in queue : x.turn \notin timeline' => sent'[x.msg] = 0
    <3> TAKE x \in queue
    <3> HAVE x.turn \notin timeline'
    <3>1. x.turn # t /\ x.turn \notin timeline /\ x.msg \in Msg
      BY <1>1 DEF Inv, Typed, Items
    <3>2. x.msg # m
      BY <1>1, <1>2, <1>4, <1>7, <3>1 DEF Unsent
    <3>3. sent[x.msg] = 0
      BY <1>4, <3>1 DEF Unsent
    <3>4. QED
      BY <1>6, <3>1, <3>2, <3>3
  <2>3. \A p, r \in Slot : flow'[p].pc \in Ahead /\ flow'[r].pc \in Ahead
                             /\ flow'[p].msg = flow'[r].msg => p = r
    BY <1>3, <1>4, <1>15 DEF Unsent
  <2>4. \A r \in Slot : \A x \in queue :
          flow'[r].pc \in Ahead /\ flow'[r].msg = x.msg => flow'[r].turn = x.turn
    BY <1>3, <1>4, <1>15 DEF Unsent
  <2>5. \A n \in Msg : n > Taken => sent'[n] = 0
    <3> TAKE n \in Msg
    <3> HAVE n > Taken
    <3>1. n # m
      <4>1. n \in Nat /\ m \in Nat /\ Taken \in Nat
        BY <1>5, Words, Bounds DEF Taken, Inv, Typed, RestTyped, Budgets
      <4>2. QED
        BY <1>5, <4>1
    <3>2. QED
      BY <1>4, <1>6, <3>1 DEF Unsent
  <2>6. ASSUME NEW r \in Slot, flow'[r].pc \in Ahead, flow'[r].turn # None
        PROVE  flow'[r].turn \notin timeline'
    <3>1. r # s /\ flow[r].pc \in Ahead /\ flow[r].turn # None
      BY <1>3, <1>15, <2>6
    <3>2. flow[r].turn # t
      BY <1>7, <3>1 DEF OrderInv, Alone
    <3>3. flow[r].turn \notin timeline
      BY <1>4, <3>1 DEF Unsent
    <3>4. QED
      BY <1>1, <1>3, <3>2, <3>3
  <2>7. (\A x, y \in queue : x.msg = y.msg => x = y) /\ \A x \in queue : x.msg <= Taken
    BY <1>4 DEF Unsent
  <2>8. QED
    BY <1>1, <1>4, <2>1, <2>2, <2>3, <2>4, <2>5, <2>6, <2>7 DEF Unsent
<1>17. QED
  BY <1>8, <1>10, <1>11, <1>12, <1>13, <1>14, <1>16 DEF OrderInv

LEMMA ClaimOrder ==
  ASSUME Inv, OrderInv, NEW s \in Slot, Claiming(s) PROVE OrderInv'
<1>1. PICK x \in queue :
           /\ x.st = "queued" /\ queue' = Put(queue, x, "dispatching") /\ active' = Tracked(x)
           /\ flow[s].pc = "next" /\ flow[s].fresh /\ flow[s].turn = None
           /\ flow'[s].pc = "claimed" /\ Took(s, x) /\ Others(s)
           /\ \A r \in Slot : ~flow'[r].fresh
           /\ UNCHANGED <<timeline, sent, budget>>
  BY ClaimFacts
<1>2. x \in Items /\ x.turn # None /\ x.msg \in Msg /\ Sole(queue)
  BY Words DEF Inv, Typed, Items, Contents
<1>3. ASSUME NEW y \in queue'
      PROVE  (y \in queue /\ y # x) \/ (Twin(y, x) /\ y.st = "dispatching")
  BY <1>1, <1>2, <1>3, ItemFields DEF Put
<1>4. active' = active \cup {Pair(x)} /\ Pair(x).turn = x.turn /\ Pair(x).item = x.id
  BY <1>1 DEF Tracked, Pair
<1>5. /\ \A r \in Slot \ {s} : /\ flow'[r].turn = flow[r].turn /\ flow'[r].pc = flow[r].pc
                               /\ flow'[r].msg = flow[r].msg
      /\ flow'[s].turn = x.turn /\ flow'[s].msg = x.msg
  BY <1>1 DEF Others, Alike, Took
<1>6. \A r \in Slot : flow[r].turn # x.turn
  BY <1>1 DEF OrderInv, Ready, Queued
<1>7. x.turn \notin timeline
  BY <1>1 DEF OrderInv, AcceptedLeaves, Queued
<1>8. "claimed" \in Ahead \ (Late \cup Leaving)
  BY DEF Ahead, Late, Leaving
<1>9. \A y \in queue : y # x => y.turn # x.turn
  BY <1>2 DEF Sole
<1>10. Alone'
  BY <1>5, <1>6 DEF OrderInv, Alone
<1>11. Ready'
  BY <1>1 DEF Ready
<1>12. \A y \in Queued(queue') : y \in Queued(queue) /\ y # x
  BY <1>3 DEF Queued
<1>13. Idle'
  <2> SUFFICES ASSUME NEW y \in Queued(queue'), NEW r \in Slot, flow'[r].turn = y.turn
               PROVE  flow'[r].pc \in Late
    BY DEF Idle
  <2>1. y \in Queued(queue) /\ y \in queue /\ y # x
    BY <1>12 DEF Queued
  <2>2. r # s
    BY <1>5, <1>9, <2>1
  <2>3. QED
    BY <1>5, <2>1, <2>2 DEF OrderInv, Idle
<1>14. Held'
  <2> SUFFICES ASSUME NEW y \in queue', y.st = "dispatching", NEW r \in Slot, flow'[r].turn = y.turn
               PROVE  Pair(y) \in active' /\ flow'[r].pc \notin Leaving
    BY DEF Held, Orphan, Pair
  <2>1. CASE y \in queue /\ y # x
    <3>1. r # s
      BY <1>5, <1>9, <2>1
    <3>2. flow[r].turn = y.turn /\ flow'[r].pc = flow[r].pc
      BY <1>5, <3>1
    <3>3. QED
      BY <1>4, <2>1, <3>2 DEF OrderInv, Held, Orphan, Pair
  <2>2. CASE Twin(y, x)
    <3>1. r = s
      BY <1>5, <1>6, <2>2 DEF Twin
    <3>2. QED
      BY <1>1, <1>4, <1>8, <2>2, <3>1 DEF Pair, Twin
  <2>3. QED
    BY <1>3, <2>1, <2>2
<1>15. AcceptedLeaves'
  BY <1>1, <1>12 DEF OrderInv, AcceptedLeaves
<1>16. Unsent /\ Taken' = Taken
  BY <1>1 DEF OrderInv, Taken
<1>17. Unsent'
  <2>1. x.msg <= Taken /\ sent[x.msg] = 0
    BY <1>7, <1>16 DEF Unsent
  <2>2. \A r \in Slot : flow[r].pc \in Ahead => flow[r].msg # x.msg
    BY <1>6, <1>16 DEF Unsent
  <2>3. ASSUME NEW y \in queue' PROVE \E z \in queue : Twin(y, z) /\ (y = z \/ z = x)
    BY <1>3 DEF Twin
  <2>4. \A r \in Slot : flow'[r].pc \in Ahead =>
          flow'[r].msg \in Msg /\ flow'[r].msg <= Taken /\ sent[flow'[r].msg] = 0
    BY <1>2, <1>5, <1>16, <2>1 DEF Unsent
  <2>5. \A y \in queue' : (y.turn \notin timeline => sent[y.msg] = 0) /\ y.msg <= Taken
    BY <1>16, <2>3 DEF Unsent, Twin
  <2>6. \A p, r \in Slot : flow'[p].pc \in Ahead /\ flow'[r].pc \in Ahead
                             /\ flow'[p].msg = flow'[r].msg => p = r
    BY <1>5, <1>16, <2>2 DEF Unsent
  <2>7. \A v, w \in queue' : v.msg = w.msg => v = w
    <3>1. \A y \in queue : y # x => y.msg # x.msg
      BY <1>16 DEF Unsent
    <3>2. \A v, w \in queue' : Twin(v, x) /\ Twin(w, x) => v = w
      BY <1>1, <1>2, <1>9, ItemFields DEF Put, Twin
    <3>3. QED
      BY <1>3, <1>16, <3>1, <3>2 DEF Unsent, Twin
  <2>8. ASSUME NEW r \in Slot, NEW y \in queue', flow'[r].pc \in Ahead, flow'[r].msg = y.msg
        PROVE  flow'[r].turn = y.turn
    <3>1. PICK z \in queue : Twin(y, z)
      BY <2>3
    <3>2. CASE r = s
      BY <1>5, <1>16, <2>8, <3>1, <3>2 DEF Unsent, Twin
    <3>3. CASE r # s
      BY <1>5, <1>16, <2>8, <3>1, <3>3 DEF Unsent, Twin
    <3>4. QED
      BY <3>2, <3>3
  <2>9. \A r \in Slot : flow'[r].pc \in Ahead /\ flow'[r].turn # None => flow'[r].turn \notin timeline
    BY <1>5, <1>7, <1>16 DEF Unsent
  <2>10. \A m \in Msg : m > Taken => sent[m] = 0
    BY <1>16 DEF Unsent
  <2>11. QED
    BY <1>1, <1>16, <2>4, <2>5, <2>6, <2>7, <2>8, <2>9, <2>10 DEF Unsent
<1>18. QED
  BY <1>1, <1>10, <1>11, <1>13, <1>14, <1>15, <1>17 DEF OrderInv, SentAtMostOnce

LEMMA AppendOrder ==
  ASSUME Inv, Inv', Plain, OrderInv, NEW s \in Slot, Appending(s) PROVE OrderInv'
<1>1. /\ flow[s].pc = "enqueue" /\ flow[s].turn = None /\ Others(s)
      /\ flow'[s].pc = "redrain" /\ flow'[s].turn = None
      /\ queue' = Loaded \cup {Added(s)} /\ \A r \in Slot : ~flow'[r].fresh
      /\ ids + 1 \notin timeline /\ \A r \in Slot : flow[r].turn # ids + 1
      /\ UNCHANGED <<timeline, active, sent, budget>>
  BY AppendFacts
<1>2. Added(s).turn = ids + 1 /\ Added(s).st = "queued" /\ Added(s).msg = flow[s].msg
  BY DEF Added
<1>3. /\ \A y \in queue' : y.turn # None
      /\ \A x \in queue : x.turn # None
      /\ Sole(queue')
  BY NoneAssumption DEF Inv, Typed, Items, Given, Contents
<1>4. \A r \in Slot \ {s} : /\ flow'[r].turn = flow[r].turn /\ flow'[r].pc = flow[r].pc
                            /\ flow'[r].msg = flow[r].msg
  BY <1>1 DEF Others, Alike
<1>5. "enqueue" \in Ahead /\ "redrain" \notin Ahead \cup Leaving \cup Late
  BY DEF Ahead, Taking, Leaving, Late
<1>6. ASSUME NEW y \in Loaded
      PROVE  \E x \in queue :
               /\ Twin(y, x)
               /\ y.st = x.st \/ (y.st = "queued" /\ Orphan(x) /\ x.turn \notin timeline)
  BY LoadedEased
<1>7. Alone'
  BY <1>1, <1>4 DEF OrderInv, Alone
<1>8. Ready'
  BY <1>1 DEF Ready
<1>9. ASSUME NEW y \in queue', y.st = "queued"
      PROVE  y.turn \notin timeline /\ \A r \in Slot : flow'[r].turn = y.turn => flow'[r].pc \in Late
  <2>1. CASE y \in Loaded
    <3>1. PICK x \in queue : Twin(y, x) /\ (x.st = "queued" \/ (Orphan(x) /\ x.turn \notin timeline))
      BY <1>6, <1>9, <2>1
    <3>2. x.turn \notin timeline
      BY <3>1 DEF OrderInv, AcceptedLeaves, Queued
    <3>3. \A r \in Slot : flow[r].turn = x.turn => flow[r].pc \in Late
      <4>1. CASE x.st = "queued"
        BY <4>1 DEF OrderInv, Idle, Queued
      <4>2. CASE Orphan(x)
        BY <4>2 DEF OrderInv, Held, Orphan
      <4>3. QED
        BY <3>1, <4>1, <4>2
    <3>4. QED
      BY <1>1, <1>3, <1>4, <3>1, <3>2, <3>3 DEF Twin
  <2>2. CASE y = Added(s)
    BY <1>1, <1>2, <1>3, <1>4, <2>2
  <2>3. QED
    BY <1>1, <2>1, <2>2
<1>10. Idle' /\ AcceptedLeaves'
  BY <1>1, <1>9 DEF Idle, AcceptedLeaves, Queued
<1>11. Held'
  <2> SUFFICES ASSUME NEW y \in queue', y.st = "dispatching", NEW r \in Slot, flow'[r].turn = y.turn
               PROVE  Pair(y) \in active' /\ flow'[r].pc \notin Leaving
    BY DEF Held, Orphan, Pair
  <2>1. PICK x \in queue : Twin(y, x) /\ x.st = "dispatching"
    BY <1>1, <1>2, <1>6
  <2>2. r # s
    BY <1>1, <1>3
  <2>3. QED
    BY <1>1, <1>4, <2>1, <2>2 DEF OrderInv, Held, Orphan, Pair, Twin
<1>12. Unsent /\ Taken' = Taken
  BY <1>1 DEF OrderInv, Taken
<1>13. flow[s].msg \in Msg /\ flow[s].msg <= Taken /\ sent[flow[s].msg] = 0
  BY <1>1, <1>5, <1>12 DEF Unsent
<1>14. \A x \in queue : x.msg # flow[s].msg
  BY <1>1, <1>3, <1>5, <1>12 DEF Unsent
<1>15. \A r \in Slot : flow'[r].pc \in Ahead => r # s /\ flow[r].pc \in Ahead /\ flow[r].msg # flow[s].msg
  BY <1>1, <1>4, <1>5, <1>12 DEF Unsent
<1>16. ASSUME NEW y \in queue' PROVE y = Added(s) \/ \E x \in queue : Twin(y, x)
  BY <1>1, <1>6
<1>17. Unsent'
  <2>1. \A r \in Slot : flow'[r].pc \in Ahead =>
          flow'[r].msg \in Msg /\ flow'[r].msg <= Taken /\ sent[flow'[r].msg] = 0
    BY <1>4, <1>12, <1>15 DEF Unsent
  <2>2. \A y \in queue' : (y.turn \notin timeline => sent[y.msg] = 0) /\ y.msg <= Taken
    <3> TAKE y \in queue'
    <3>1. CASE y = Added(s)
      BY <1>2, <1>13, <3>1
    <3>2. CASE \E x \in queue : Twin(y, x)
      BY <1>12, <3>2 DEF Unsent, Twin
    <3>3. QED
      BY <1>16, <3>1, <3>2
  <2>3. \A p, r \in Slot : flow'[p].pc \in Ahead /\ flow'[r].pc \in Ahead
                             /\ flow'[p].msg = flow'[r].msg => p = r
    BY <1>4, <1>12, <1>15 DEF Unsent
  <2>4. \A v, w \in queue' : v.msg = w.msg => v = w
    <3> TAKE v, w \in queue'
    <3> HAVE v.msg = w.msg
    <3>1. CASE v = Added(s) \/ w = Added(s)
      BY <1>2, <1>14, <1>16, <3>1 DEF Twin
    <3>2. CASE v # Added(s) /\ w # Added(s)
      <4>1. PICK x \in queue : Twin(v, x)
        BY <1>16, <3>2
      <4>2. PICK z \in queue : Twin(w, z)
        BY <1>16, <3>2
      <4>3. x = z
        BY <1>12, <4>1, <4>2 DEF Unsent, Twin
      <4>4. QED
        BY <1>3, <4>1, <4>2, <4>3 DEF Sole, Twin
    <3>3. QED
      BY <3>1, <3>2
  <2>5. ASSUME NEW r \in Slot, NEW y \in queue', flow'[r].pc \in Ahead, flow'[r].msg = y.msg
        PROVE  flow'[r].turn = y.turn
    <3>1. r # s /\ flow[r].pc \in Ahead /\ flow[r].msg = y.msg /\ flow[r].msg # flow[s].msg
      BY <1>4, <1>15, <2>5
    <3>2. PICK x \in queue : Twin(y, x)
      BY <1>2, <1>16, <3>1
    <3>3. QED
      BY <1>4, <1>12, <3>1, <3>2 DEF Unsent, Twin
  <2>6. \A r \in Slot : flow'[r].pc \in Ahead /\ flow'[r].turn # None => flow'[r].turn \notin timeline
    BY <1>4, <1>12, <1>15 DEF Unsent
  <2>7. \A m \in Msg : m > Taken => sent[m] = 0
    BY <1>12 DEF Unsent
  <2>8. QED
    BY <1>1, <1>12, <2>1, <2>2, <2>3, <2>4, <2>5, <2>6, <2>7 DEF Unsent
<1>18. QED
  BY <1>1, <1>7, <1>8, <1>10, <1>11, <1>17 DEF OrderInv, SentAtMostOnce

LEMMA NextOrder ==
  ASSUME Uses = 0, Delays = FALSE, Inv, Plain, OrderInv, [Next]_vars PROVE OrderInv'
<1>1. Inv'
  BY NextInv
<1>2. CASE Submit \/ \E s \in Slot : \/ Appending(s) \/ Accept(s) \/ Claiming(s)
                                     \/ (Admit(s) /\ Begin(s))
  BY <1>1, <1>2, SubmitOrder, AppendOrder, AcceptOrder, ClaimOrder, BeginOrder
<1>3. CASE (\E s \in Slot : Published(s) \/ Notified(s) \/ Clear(s) \/ Fire(s)) \/ Restart
  BY <1>1, <1>3, ClearingOrder, FireOrder, RestartOrder
<1>4. CASE Quiet /\ Fresher /\ active' = active
  BY <1>1, <1>4, StillStep
<1>5. QED
  BY <1>2, <1>3, <1>4, Steps

LEMMA InitOrder == Init => OrderInv
<1> SUFFICES ASSUME Init PROVE OrderInv
  OBVIOUS
<1>1. \A s \in Slot : flow[s].pc = "free" /\ flow[s].turn = None
  BY DEF Init, Free
<1>2. queue = {} /\ "free" \notin Ahead /\ \A m \in Msg : sent[m] = 0
  BY DEF Init, Ahead, Taking
<1>3. Alone /\ Ready /\ Idle /\ Held /\ AcceptedLeaves
  BY <1>1, <1>2 DEF Alone, Ready, Idle, Held, AcceptedLeaves, Queued
<1>4. Unsent /\ SentAtMostOnce
  BY <1>1, <1>2 DEF Unsent, SentAtMostOnce
<1>5. QED
  BY <1>3, <1>4 DEF OrderInv

LEMMA SpecOrder ==
  ASSUME Uses = 0, Delays = FALSE PROVE Spec => [](AcceptedLeaves /\ SentAtMostOnce)
<1>1. Init => Inv /\ CarriedInv /\ OrderInv
  BY InitInv, InitCarried, InitOrder
<1>2. (Inv /\ CarriedInv /\ OrderInv) /\ [Next]_vars => (Inv /\ CarriedInv /\ OrderInv)'
  BY NextInv, NextCarried, NextOrder DEF CarriedInv
<1>3. Inv /\ CarriedInv /\ OrderInv => AcceptedLeaves /\ SentAtMostOnce
  BY DEF OrderInv
<1>4. QED
  BY <1>1, <1>2, <1>3, PTL DEF Spec

\* When no queued prompt is used by hand, and no thread is held up for as long as a dispatch
\* waits, an item whose prompt is in the timeline is not queued again, by no settlement and
\* no restart.
THEOREM SentLeavesTheQueue ==
  ASSUME Uses = 0, Delays = FALSE PROVE Spec => []AcceptedLeaves
<1>1. QED
  BY SpecOrder, PTL

\* Under the same hypotheses no message is written to the timeline, that is, sent to the
\* provider, more than once, whatever is stopped, edited, refused or restarted.
THEOREM NothingIsSentTwice ==
  ASSUME Uses = 0, Delays = FALSE PROVE Spec => []SentAtMostOnce
<1>1. QED
  BY SpecOrder, PTL

(***************************************************************************)
(* A stop.                                                                 *)
(***************************************************************************)
Halting == stop \in {"cancel", "gate"}
\* The turn of a flow is the one that a stop will find, or has found.
Stoppable(s) ==
  \/ header.owner = s
  \/ Halting /\ header.live = "stopping" /\ header.alive /\ flow[s].turn = header.turn
\* After a restart nothing goes on but what the user has begun, and not got through yet.
Cold == control = NoControl /\ \A s \in Slot : flow[s].pc \in {"free", "check", "priority", "lift", "mark"}

Lives == header.owner # None => header.alive
Before == budget.stops <= Stops /\ (budget.stops = Stops => halted = None /\ stop = "idle")
Once == halted # None => ~Halting
\* Until a stop closes the gate, only the session's turn is under way.
Foreseen == budget.stops = Stops \/ Halting =>
              \A s \in Slot : flow[s].pc \in Turning => Stoppable(s)
\* From then on the gate is closed, and of the turns that had passed it only the stopped one
\* is left; or the process was restarted, and no turn is under way at all.
Lasting == halted # None =>
  \/ /\ gate
     /\ \A s \in Slot : flow[s].kind = "auto" /\ flow[s].pc \in {"lock", "start"} =>
                          flow[s].turn = halted.turn
  \/ Cold
StopInv == Lives /\ Before /\ Once /\ Foreseen /\ Lasting

\* A flow is not at a turn, or stays at the one it was at and passes no closed gate.
Stays(r) ==
  \/ flow'[r].pc \notin Turning
  \/ /\ flow[r].pc \in Turning
     /\ flow'[r].turn = flow[r].turn /\ flow'[r].kind = flow[r].kind
     /\ flow'[r].pc \in {"lock", "start"} =>
          \/ flow[r].pc \in {"lock", "start"}
          \/ flow[r].pc = "gate" /\ ~(gate /\ flow[r].item = flow[r].turn)
\* The session's turn goes on, or is closed by its flow, or is found after a restart.
Heads ==
  \/ header' = header
  \/ header'.owner = header.owner /\ header'.alive = header.alive /\ header.owner \in Slot
  \/ header'.owner = None /\ ~header.alive
  \/ header'.owner = None /\ \E s \in Slot : header.owner = s /\ flow'[s].pc \notin Turning
Settled == stop' = stop /\ budget'.stops = budget.stops
           /\ (halted' = None \/ (halted' = halted /\ gate' = gate))
Ordinary == (\A r \in Slot : Stays(r)) /\ Heads /\ Settled /\ (halted' # None /\ Cold => Cold')

LEMMA OrdinaryStep == ASSUME Inv, Plain, StopInv, Ordinary PROVE StopInv'
<1>1. /\ \A r \in Slot : Stays(r)
      /\ Heads /\ stop' = stop /\ budget'.stops = budget.stops
      /\ halted' = None \/ (halted' = halted /\ gate' = gate)
      /\ halted' # None /\ Cold => Cold'
  BY DEF Ordinary, Settled
<1>2. Lives /\ Before /\ Once /\ Foreseen /\ Lasting /\ Owner /\ Shapes
  BY DEF StopInv, Inv
<1>3. Lives'
  BY <1>1, <1>2 DEF Lives, Heads
<1>4. Before' /\ Once'
  BY <1>1, <1>2 DEF Before, Once, Halting
<1>5. Foreseen'
  <2> SUFFICES ASSUME budget.stops = Stops \/ Halting, NEW r \in Slot, flow'[r].pc \in Turning
               PROVE  Stoppable(r)'
    BY <1>1 DEF Foreseen, Halting
  <2>1. flow[r].pc \in Turning /\ flow'[r].turn = flow[r].turn
    BY <1>1 DEF Stays
  <2>2. Stoppable(r)
    BY <1>2, <2>1 DEF Foreseen
  <2>3. CASE header'.owner = header.owner /\ header'.alive = header.alive /\ header.owner \in Slot
    <3>1. header.live # "stopping"
      BY <1>2, <2>3 DEF Owner
    <3>2. QED
      BY <2>2, <2>3, <3>1 DEF Stoppable
  <2>4. CASE header'.owner = None /\ ~header.alive
    BY <1>2, <2>2, <2>4, Words DEF Stoppable, Lives
  <2>5. ASSUME NEW s \in Slot, header.owner = s, flow'[s].pc \notin Turning PROVE FALSE
    <3>1. header.live # "stopping"
      BY <1>2, <2>5 DEF Owner
    <3>2. r = s
      BY <2>2, <2>5, <3>1 DEF Stoppable
    <3>3. QED
      BY <2>5, <3>2
  <2>6. CASE header' = header
    BY <1>1, <2>1, <2>2, <2>6 DEF Stoppable, Halting
  <2>7. QED
    BY <1>1, <2>3, <2>4, <2>5, <2>6 DEF Heads
<1>6. Lasting'
  <2> SUFFICES ASSUME halted' # None, ~Cold
               PROVE  gate' /\ \A r \in Slot : flow'[r].kind = "auto" /\ flow'[r].pc \in {"lock", "start"}
                                                 => flow'[r].turn = halted'.turn
    BY <1>1 DEF Lasting
  <2>1. /\ halted' = halted /\ gate' = gate /\ gate
        /\ \A s \in Slot : flow[s].kind = "auto" /\ flow[s].pc \in {"lock", "start"} =>
                             flow[s].turn = halted.turn
    BY <1>1, <1>2 DEF Lasting
  <2>2. ASSUME NEW r \in Slot, flow'[r].kind = "auto", flow'[r].pc \in {"lock", "start"}
        PROVE  flow'[r].turn = halted.turn
    <3>1. flow'[r].pc \in Turning
      BY <2>2 DEF Turning
    <3>2. /\ flow'[r].turn = flow[r].turn /\ flow[r].kind = "auto"
          /\ \/ flow[r].pc \in {"lock", "start"}
             \/ flow[r].pc = "gate" /\ flow[r].item # flow[r].turn
      BY <1>1, <2>1, <2>2, <3>1 DEF Stays
    <3>3. Shape(flow[r])
      BY <1>2 DEF Shapes
    <3>4. flow[r].pc = "gate" => flow[r].item = flow[r].turn
      BY <3>2, <3>3 DEF Shape, Plain
    <3>5. QED
      BY <2>1, <3>2, <3>4
  <2>3. QED
    BY <2>1, <2>2
<1>7. QED
  BY <1>3, <1>4, <1>5, <1>6 DEF StopInv

\* A flow that is at no turn after the step, when the others have not moved.
LEMMA AsideStays ==
  ASSUME NEW s \in Slot, Others(s), flow'[s].pc \notin Turning PROVE \A r \in Slot : Stays(r)
<1> TAKE r \in Slot
<1>1. CASE r = s
  BY <1>1 DEF Stays
<1>2. CASE r # s
  BY <1>2 DEF Others, Alike, Stays, Turning
<1>3. QED
  BY <1>1, <1>2

LEMMA MoveStays ==
  ASSUME NEW s \in Slot, NEW pc, Moves(s, pc), flow[s].pc \in Turning,
         pc \in {"lock", "start"} =>
           \/ flow[s].pc \in {"lock", "start"}
           \/ flow[s].pc = "gate" /\ ~(gate /\ flow[s].item = flow[s].turn)
  PROVE  \A r \in Slot : Stays(r)
<1> TAKE r \in Slot
<1>1. CASE r = s
  BY <1>1 DEF Moves, Stays
<1>2. CASE r # s
  BY <1>2 DEF Moves, Others, Alike, Stays, Turning
<1>3. QED
  BY <1>1, <1>2

LEMMA StillStays ==
  ASSUME \A r \in Slot : Alike(flow'[r], flow[r]) PROVE \A r \in Slot : Stays(r)
  BY DEF Alike, Stays, Turning

LEMMA StopsLeft ==
  ASSUME Inv,
         budget' = budget \/ \E what \in {"sends", "edits", "crashes", "faults"} : Spend(what)
  PROVE  budget'.stops = budget.stops
<1>1. budget \in Budgets
  BY DEF Inv, Typed, RestTyped
<1>2. QED
  BY <1>1 DEF Budgets, Spend

\* A flow goes on, or ends, where it is at no turn.
LEMMA GoAside ==
  ASSUME Inv, NEW s \in Slot,
         Becomes(Ended(s)) \/ \E pc \in PC \ Turning : Becomes(Goto(s, pc))
  PROVE  Others(s) /\ flow'[s].pc \notin Turning
<1>1. flow \in [Slot -> Flows]
  BY DEF Inv, Typed
<1>2. CASE Becomes(Ended(s))
  BY <1>1, <1>2, Ending DEF Ends, Alike, Free, Turning
<1>3. ASSUME NEW pc \in PC \ Turning, Becomes(Goto(s, pc))
      PROVE  Others(s) /\ flow'[s].pc \notin Turning
  BY <1>1, <1>3, Going DEF Moves
<1>4. QED
  BY <1>2, <1>3

\* The commands of a submission.
LEMMA SubmissionAside ==
  ASSUME Inv, Plain, NEW s \in Slot, Check(s) \/ Enqueue(s) \/ Redrain(s) \/ Priority(s) \/ Lift(s) \/ Mark(s)
  PROVE  /\ Others(s) /\ flow'[s].pc \notin Turning
         /\ Check(s) /\ ~LivePrompt => flow'[s].pc = "priority"
         /\ Priority(s) => flow'[s].pc \in {"lift", "mark"}
<1>1. /\ flow \in [Slot -> Flows] /\ flow[s] \in Flows /\ Shape(flow[s]) /\ flow[s].kind # "use"
  BY DEF Inv, Typed, Shapes, Plain
<1>2. flow[s].pc \in {"check", "enqueue", "redrain", "priority", "lift", "mark"}
  BY DEF Check, Enqueue, Redrain, Priority, Lift, Mark, At
<1>3. flow[s].turn = None
  BY <1>1, <1>2 DEF Shape, Flows, Taking
<1>4. \A pc \in {"enqueue", "priority", "lift", "mark", "admit"} :
        pc \in PC \ Turning /\ Goto(s, pc) \in [Slot -> Flows]
  BY <1>1, GotoFlows DEF PC, Turning
<1>5. CASE Check(s)
  <2>1. queue' = queue /\ flow' = Goto(s, IF LivePrompt THEN "enqueue" ELSE "priority")
    BY <1>3, <1>5 DEF Check, Exists, file
  <2>2. flow[s].pc = "check"
    BY <1>5 DEF Check, At
  <2>3. PICK pc \in {"enqueue", "priority"} :
          Becomes(Goto(s, pc)) /\ (~LivePrompt => pc = "priority")
    BY <1>4, <2>1, FlowBecomes
  <2>4. pc \in PC /\ pc \notin Turning
    BY <1>4, <2>3
  <2>5. Moves(s, pc)
    BY <1>1, <2>3, <2>4, Going
  <2>6. QED
    BY <2>2, <2>3, <2>4, <2>5 DEF Moves, Priority, At
<1>6. CASE Enqueue(s)
  <2>1. CASE Cardinality(Loaded) >= Limit
    <3>1. Load(Ended(s))
      BY <1>1, <1>6, <2>1 DEF Enqueue
    <3>2. Becomes(Ended(s))
      BY <1>1, <3>1, EndedFlows, LoadBecomes
    <3>3. QED
      BY <1>6, <3>2, GoAside DEF Enqueue, Check, Priority, At
  <2>2. CASE ~(Cardinality(Loaded) >= Limit)
    <3>1. Others(s) /\ flow'[s].pc = "redrain"
      BY <1>6, <2>2, AppendFacts DEF Appending
    <3>2. QED
      BY <1>6, <3>1 DEF Enqueue, Check, Priority, At, Turning
  <2>3. QED
    BY <2>1, <2>2
<1>7. CASE Redrain(s)
  <2>1. queue' = queue /\ flow[s].pc = "redrain"
    BY <1>7 DEF Redrain, file, At
  <2>2. CASE flow' = Ended(s)
    BY <1>1, <2>1, <2>2, EndedFlows, FlowBecomes, GoAside DEF Check, Priority, At
  <2>3. CASE flow' = [flow EXCEPT ![s].pc = "drain", ![s].ok = TRUE]
    <3>1. "drain" \in PC /\ TRUE \in BOOLEAN /\ "drain" \notin Turning
      BY DEF PC, Turning
    <3>2. Becomes([flow EXCEPT ![s].pc = "drain", ![s].ok = TRUE])
      BY <1>1, <2>1, <2>3, <3>1, WithFlows, FlowBecomes
    <3>3. Moves(s, "drain")
      BY <1>1, <3>1, <3>2, GoingWith
    <3>4. QED
      BY <2>1, <3>1, <3>3 DEF Moves, Check, Priority, At
  <2>4. QED
    BY <1>7, <2>2, <2>3 DEF Redrain
<1>8. CASE Priority(s) \/ Lift(s) \/ Mark(s)
  <2>1. PICK pc \in {"lift", "mark", "admit"} :
          Becomes(Goto(s, pc)) /\ (Priority(s) => pc \in {"lift", "mark"})
    <3>1. CASE Priority(s)
      BY <1>4, <3>1, LoadBecomes DEF Priority
    <3>2. CASE Lift(s)
      BY <1>4, <3>2, FlowBecomes DEF Lift, Priority, At, file
    <3>3. CASE Mark(s)
      BY <1>4, <3>3, PersistBecomes DEF Mark, Priority, At
    <3>4. QED
      BY <1>8, <3>1, <3>2, <3>3
  <2>2. pc \in PC /\ pc \notin Turning
    BY <1>4, <2>1
  <2>3. Moves(s, pc)
    BY <1>1, <2>1, <2>2, Going
  <2>4. QED
    BY <1>8, <2>1, <2>2, <2>3 DEF Moves, Priority, Lift, Mark, Check, At
<1>9. QED
  BY <1>5, <1>6, <1>7, <1>8

LEMMA SubmissionStops ==
  ASSUME Inv, Plain, NEW s \in Slot, Check(s) \/ Enqueue(s) \/ Redrain(s) \/ Priority(s) \/ Lift(s) \/ Mark(s)
  PROVE  Ordinary
<1>1. /\ Others(s) /\ flow'[s].pc \notin Turning
      /\ Check(s) /\ ~LivePrompt => flow'[s].pc = "priority"
      /\ Priority(s) => flow'[s].pc \in {"lift", "mark"}
  BY SubmissionAside
<1>2. \A r \in Slot : Stays(r)
  BY <1>1, AsideStays
<1>3. header \in Headers
  BY DEF Inv, Typed
<1>4. Heads
  <2>1. header' = header \/ header' = Inspected
    BY DEF Check, Enqueue, Redrain, Priority, Lift, Mark, session
  <2>2. Inspected = header \/ (Inspected.owner = None /\ ~header.alive)
    BY <1>3 DEF Inspected, Headers
  <2>3. QED
    BY <2>1, <2>2 DEF Heads
<1>5. /\ stop' = stop /\ budget' = budget /\ control' = control
      /\ halted' = None \/ (halted' = halted /\ gate' = gate)
  BY DEF Check, Enqueue, Redrain, Priority, Lift, Mark, session, history, OpenGate
<1>6. ASSUME halted' # None, Cold PROVE Cold'
  <2>1. ~LivePrompt
    BY <1>6 DEF Cold, NoControl, LivePrompt
  <2>2. flow[s].pc \in {"check", "priority", "lift", "mark"}
    BY <1>6 DEF Cold, Check, Enqueue, Redrain, Priority, Lift, Mark, At
  <2>3. Check(s) \/ Priority(s)
    BY <1>6, <2>2 DEF Enqueue, Redrain, Priority, Lift, Mark, At, OpenGate
  <2>4. flow'[s].pc \in {"priority", "lift", "mark"}
    BY <1>1, <2>1, <2>3
  <2>5. \A r \in Slot : flow'[r].pc \in {"free", "check", "priority", "lift", "mark"}
    BY <1>1, <1>6, <2>4 DEF Others, Alike, Cold
  <2>6. QED
    BY <1>5, <1>6, <2>5 DEF Cold
<1>7. QED
  BY <1>2, <1>4, <1>5, <1>6 DEF Ordinary, Settled

LEMMA AdmissionStops ==
  ASSUME Inv, Plain, NEW s \in Slot, Admit(s), ~Begin(s) PROVE Ordinary
<1>1. /\ flow \in [Slot -> Flows] /\ flow[s] \in Flows /\ Shape(flow[s]) /\ flow[s].kind # "use"
      /\ header \in Headers /\ flow[s].pc = "admit"
      /\ UNCHANGED <<queue, gate, control, stop, halted>>
  BY DEF Inv, Typed, Shapes, Plain, Admit, At, file, history
<1>2. header' = Inspected /\ (flow' = Ended(s) \/ flow' = Goto(s, "settle"))
  <2>1. flow[s].kind \in {"composer", "auto"} /\ (flow[s].kind = "composer" => flow[s].turn = None)
    BY <1>1 DEF Flows, Shape, Taking
  <2>2. QED
    BY <2>1 DEF Admit, Refused
<1>3. "settle" \in PC \ Turning
  BY DEF PC, Turning
<1>4. Becomes(Ended(s)) \/ Becomes(Goto(s, "settle"))
  BY <1>1, <1>2, <1>3, EndedFlows, GotoFlows, FlowBecomes
<1>5. \A r \in Slot : Stays(r)
  BY <1>3, <1>4, GoAside, AsideStays
<1>6. Heads
  BY <1>1, <1>2 DEF Heads, Inspected, Headers
<1>7. budget'.stops = budget.stops
  BY StopsLeft DEF Admit
<1>8. ~Cold
  BY <1>1 DEF Cold
<1>9. QED
  BY <1>1, <1>5, <1>6, <1>7, <1>8 DEF Ordinary, Settled

\* The steps of a turn, from its claim to the release of the prompt lock.
LEMMA TurnMoves ==
  ASSUME Inv, NEW s \in Slot,
         \/ Execute(s) \/ Gate(s) \/ Failed(s) \/ Start(s) \/ Break(s) \/ Interrupt(s)
         \/ Accept(s) \/ Publish(s) \/ Published(s) \/ Respond(s)
         \/ MarkStopped(s) \/ Write(s) \/ Unlock(s)
  PROVE  \E pc \in PC :
           /\ Moves(s, pc)
           /\ pc \in {"lock", "start"} =>
                \/ flow[s].pc = "lock"
                \/ flow[s].pc = "gate" /\ ~(gate /\ flow[s].item = flow[s].turn)
           /\ Failed(s) \/ Interrupt(s) \/ Write(s) => pc \notin Turning
           /\ flow[s].pc \in Turning \/ pc \notin Turning
<1> USE DEF At
<1>1. flow \in [Slot -> Flows] /\ (queue' = queue \/ Publish(s))
  BY DEF Inv, Typed, file, Execute, Gate, Failed, Start, Break,
         Interrupt, Accept, Publish, Published, Respond, MarkStopped, Write, Unlock
<1>2. ASSUME NEW pc \in PC, queue' = queue, flow' = Goto(s, pc) PROVE Moves(s, pc)
  BY <1>1, <1>2, GotoFlows, FlowBecomes, Going
<1>3. CASE Interrupt(s) \/ Respond(s)
  <2>1. PICK pc \in {"unlock", "stop"}, ok \in BOOLEAN :
          flow' = [flow EXCEPT ![s].pc = pc, ![s].ok = ok] /\ (Interrupt(s) => pc = "unlock")
    <3>1. (~CancelSeen(s)) \in BOOLEAN
      BY DEF CancelSeen
    <3>2. QED
      BY <1>3, <3>1 DEF Interrupt, Respond
  <2>2. queue' = queue /\ pc \in PC /\ "unlock" \notin Turning /\ flow[s].pc \in Turning
        /\ pc \notin {"lock", "start"} /\ ~Failed(s) /\ ~Write(s)
    BY <1>3 DEF PC, Turning, Interrupt, Respond, Failed, Write, file
  <2>3. Becomes([flow EXCEPT ![s].pc = pc, ![s].ok = ok])
    BY <1>1, <2>1, <2>2, WithFlows, FlowBecomes
  <2>4. Moves(s, pc)
    BY <1>1, <2>2, <2>3, GoingWith
  <2>5. QED
    BY <2>1, <2>2, <2>4
<1>4. CASE Publish(s)
  <2>1. PICK pc \in {"prompt", "published"} : Becomes(Goto(s, pc))
    <3>1. \A pc \in {"prompt", "published"} : Goto(s, pc) \in [Slot -> Flows]
      BY <1>1, GotoFlows DEF PC
    <3>2. QED
      BY <1>4, <3>1, FlowBecomes, PersistBecomes DEF Publish
  <2>2. pc \in PC /\ pc \notin {"lock", "start"} /\ flow[s].pc \in Turning
        /\ ~(Failed(s) \/ Interrupt(s) \/ Write(s))
    BY <1>4 DEF PC, Turning, Publish, Failed, Interrupt, Write
  <2>3. Moves(s, pc)
    BY <1>1, <2>1, <2>2, Going
  <2>4. QED
    BY <2>2, <2>3
<1>5. CASE Gate(s)
  <2>1. queue' = queue /\ flow[s].pc = "gate" /\ ~(Failed(s) \/ Interrupt(s) \/ Write(s))
    BY <1>5 DEF Gate, file, Failed, Interrupt, Write
  <2>2. \/ flow' = Goto(s, "failed")
        \/ flow' = Goto(s, "lock") /\ ~(gate /\ flow[s].item = flow[s].turn)
    BY <1>5 DEF Gate
  <2>3. "failed" \in PC /\ "lock" \in PC /\ "gate" \in Turning
    BY DEF PC, Turning
  <2>4. QED
    BY <1>2, <2>1, <2>2, <2>3
<1>6. CASE Start(s)
  <2>1. queue' = queue /\ flow[s].pc = "lock" /\ flow' = Goto(s, "start")
        /\ ~(Failed(s) \/ Interrupt(s) \/ Write(s))
    BY <1>6 DEF Start, file, Failed, Interrupt, Write
  <2>2. "start" \in PC /\ "lock" \in Turning
    BY DEF PC, Turning
  <2>3. QED
    BY <1>2, <2>1, <2>2
<1>7. CASE Failed(s) \/ Write(s) \/ Unlock(s)
  <2>1. PICK pc \in {"settle", "unlock", "notify"} : flow' = Goto(s, pc)
    BY <1>7 DEF Failed, Write, Unlock
  <2>2. pc \in PC /\ pc \notin Turning /\ queue' = queue
    BY <1>7 DEF PC, Turning, Failed, Write, Unlock, file
  <2>3. QED
    BY <1>2, <2>1, <2>2 DEF Turning
<1>8. CASE Execute(s) \/ Break(s) \/ Accept(s) \/ Published(s) \/ MarkStopped(s)
  <2>1. PICK pc \in {"gate", "settle", "failed", "publish", "prompt", "write"} : flow' = Goto(s, pc)
    BY <1>8 DEF Execute, Break, Accept, Published, MarkStopped
  <2>2. /\ pc \in PC /\ flow[s].pc \in Turning /\ queue' = queue /\ pc \notin {"lock", "start"}
        /\ ~(Failed(s) \/ Write(s)) /\ (Interrupt(s) => Accept(s) \/ Break(s))
    BY <1>8 DEF PC, Turning, Execute, Break, Accept, Published, MarkStopped, Failed, Write, Interrupt, file
  <2>3. QED
    BY <1>2, <1>3, <2>1, <2>2
<1>9. QED
  BY <1>3, <1>4, <1>5, <1>6, <1>7, <1>8

LEMMA TurnStops ==
  ASSUME Inv, NEW s \in Slot,
         \/ Execute(s) \/ Gate(s) \/ Failed(s) \/ Start(s) \/ Break(s) \/ Interrupt(s)
         \/ Accept(s) \/ Publish(s) \/ Published(s) \/ Respond(s)
         \/ MarkStopped(s) \/ Write(s) \/ Unlock(s)
  PROVE  Ordinary
<1>1. PICK pc \in PC :
        /\ Moves(s, pc)
        /\ pc \in {"lock", "start"} =>
             \/ flow[s].pc = "lock"
             \/ flow[s].pc = "gate" /\ ~(gate /\ flow[s].item = flow[s].turn)
        /\ Failed(s) \/ Interrupt(s) \/ Write(s) => pc \notin Turning
        /\ flow[s].pc \in Turning \/ pc \notin Turning
  BY TurnMoves
<1>2. Others(s) /\ flow'[s].pc = pc
  BY <1>1 DEF Moves
<1>3. \A r \in Slot : Stays(r)
  <2>1. CASE pc \notin Turning
    BY <1>2, <2>1, AsideStays
  <2>2. CASE flow[s].pc \in Turning
    BY <1>1, <2>2, MoveStays
  <2>3. QED
    BY <1>1, <2>1, <2>2
<1>4. header \in Headers
  BY DEF Inv, Typed
<1>5. Heads
  <2>1. CASE Failed(s) \/ Interrupt(s) \/ Write(s)
    <3>1. PICK last \in {"failed", "cancelled", "completed"} : CloseTurn(s, last)
      BY <2>1 DEF Failed, Interrupt, Write
    <3>2. header' = header \/ (header.owner = s /\ header' = Closed(last))
      BY <3>1 DEF CloseTurn
    <3>3. Closed(last).owner = None
      BY <1>4, ClosedHeader
    <3>4. QED
      BY <1>1, <1>2, <2>1, <3>2, <3>3 DEF Heads
  <2>2. CASE Execute(s)
    <3>1. header' = header \/ (header.owner = s /\ header' = [header EXCEPT !.live = "claimed"])
      BY <2>2 DEF Execute
    <3>2. QED
      BY <1>4, <3>1 DEF Heads, Headers
  <2>3. CASE \/ Gate(s) \/ Start(s) \/ Break(s) \/ Accept(s) \/ Publish(s) \/ Published(s)
             \/ Respond(s) \/ MarkStopped(s) \/ Unlock(s)
    BY <2>3 DEF Heads, Gate, Start, Break, Accept, Publish, Published, Respond, MarkStopped, Unlock, session
  <2>4. QED
    BY <2>1, <2>2, <2>3
<1>6. UNCHANGED <<stop, halted, gate>> /\ flow[s].pc \in Turning \cup {"unlock"}
  BY DEF At, Turning, session, history, Execute, Gate, Failed, Start, Break, Interrupt, Accept, Publish,
         Published, Respond, MarkStopped, Write, Unlock
<1>7. budget'.stops = budget.stops
  <2>1. budget' = budget \/ Spend("faults")
    BY DEF session, history, Execute, Gate, Failed, Start, Break, Interrupt, Accept, Publish,
           Published, Respond, MarkStopped, Write, Unlock
  <2>2. QED
    BY <2>1, StopsLeft
<1>8. ~Cold
  BY <1>6 DEF Cold, Turning
<1>9. QED
  BY <1>3, <1>5, <1>6, <1>7, <1>8 DEF Ordinary, Settled

\* What comes after a turn, and an automatic dispatch before its turn.
LEMMA AfterwardsAside ==
  ASSUME Inv, NEW s \in Slot,
         \/ Notify(s) \/ Notified(s) \/ Settle(s) \/ Clear(s) \/ (Drain(s) /\ ~MayDrain(s))
         \/ Fire(s) \/ Claimed(s) \/ Release(s) \/ ClaimNext(s)
  PROVE  Others(s) /\ flow'[s].pc \notin Turning
<1> DEFINE Places == {"drain", "notified", "clear", "settle", "next", "release", "admit"}
<1>1. flow \in [Slot -> Flows]
  BY DEF Inv, Typed
<1>2. Ended(s) \in [Slot -> Flows] /\ \A pc \in Places : pc \in PC \ Turning /\ Goto(s, pc) \in [Slot -> Flows]
  BY <1>1, EndedFlows, GotoFlows DEF PC, Turning
<1>3. CASE Notify(s) \/ Settle(s)
  <2>1. PICK pc \in Places, next \in [Slot -> Flows] :
          SettleItem(s, pc, next) /\ next \in {Ended(s), Goto(s, "drain")}
    BY <1>2, <1>3 DEF Notify, Settle
  <2>2. Becomes(next) \/ Becomes(Goto(s, pc))
    BY <1>2, <2>1, Settling
  <2>3. QED
    BY <1>2, <2>1, <2>2, GoAside
<1>4. CASE Drain(s) /\ ~MayDrain(s)
  <2>1. Load(Goto(s, "settle"))
    BY <1>4 DEF Drain
  <2>2. QED
    BY <1>2, <2>1, LoadBecomes, GoAside
<1>5. CASE Release(s)
  <2>1. PICK q : Persist(q, Goto(s, "clear"))
    BY <1>5 DEF Release
  <2>2. QED
    BY <1>2, <2>1, PersistBecomes, GoAside
<1>6. CASE ClaimNext(s)
  <2>1. CASE Claiming(s)
    <3>1. Others(s) /\ flow'[s].pc = "claimed"
      BY <2>1, ClaimFacts
    <3>2. QED
      BY <3>1 DEF Turning
  <2>2. CASE ~Claiming(s)
    <3>1. Load(Ended(s))
      BY <1>6, <2>2 DEF ClaimNext, Claiming
    <3>2. QED
      BY <1>2, <3>1, LoadBecomes, GoAside
  <2>3. QED
    BY <2>1, <2>2
<1>7. CASE Notified(s) \/ Clear(s) \/ Fire(s) \/ Claimed(s)
  <2>1. queue' = queue /\ (flow' = Ended(s) \/ \E pc \in Places : flow' = Goto(s, pc))
    BY <1>7 DEF Notified, Clear, Fire, Claimed, file
  <2>2. Becomes(Ended(s)) \/ \E pc \in Places : Becomes(Goto(s, pc))
    BY <1>2, <2>1, FlowBecomes
  <2>3. QED
    BY <1>2, <2>2, GoAside
<1>8. QED
  BY <1>3, <1>4, <1>5, <1>6, <1>7

\* The automatic dispatch is armed in another slot.
LEMMA DrainStays == ASSUME Inv, NEW s \in Slot, Drain(s), MayDrain(s) PROVE \A r \in Slot : Stays(r)
<1> DEFINE f == IF Loaded = queue THEN flow
                ELSE [r \in Slot |-> [flow[r] EXCEPT !.fresh = FALSE]]
           a == [Free EXCEPT !.pc = "armed", !.kind = "auto", !.fresh = TRUE]
<1>1. flow \in [Slot -> Flows] /\ Spare # {} /\ flow' = [f EXCEPT ![s].pc = "settle", ![NextSlot] = a]
      /\ flow[s].pc = "drain"
  BY DEF Inv, Typed, Drain, At
<1>2. NextSlot \in Slot /\ NextSlot # s
  BY <1>1, SpareSlot
<1>3. f \in [Slot -> Flows] /\ \A r \in Slot : Alike(f[r], flow[r])
  <2>1. \A g \in Flows : /\ [g EXCEPT !.fresh = FALSE] \in Flows
                         /\ Alike([g EXCEPT !.fresh = FALSE], g) /\ Alike(g, g)
    BY DEF Flows, Alike
  <2>2. QED
    BY <1>1, <2>1
<1>4. a.pc = "armed"
  BY DEF Free
<1> HIDE DEF f, a
<1>5. /\ flow'[NextSlot] = a /\ flow'[s] = [f[s] EXCEPT !.pc = "settle"]
      /\ \A r \in Slot \ {s, NextSlot} : flow'[r] = f[r]
  <2>1. flow' = [[f EXCEPT ![s] = [f[s] EXCEPT !.pc = "settle"]] EXCEPT ![NextSlot] = a]
    BY <1>1
  <2>2. QED
    BY <1>2, <1>3, <2>1
<1>6. flow'[s].pc = "settle"
  BY <1>3, <1>5 DEF Flows
<1>7. Stays(s) /\ Stays(NextSlot)
  BY <1>4, <1>5, <1>6 DEF Stays, Turning
<1>8. \A r \in Slot \ {s, NextSlot} : Stays(r)
  BY <1>3, <1>5 DEF Alike, Stays, Turning
<1>9. QED
  BY <1>7, <1>8

LEMMA AfterwardsStops ==
  ASSUME Inv, NEW s \in Slot,
         \/ Notify(s) \/ Notified(s) \/ Drain(s) \/ Settle(s) \/ Clear(s)
         \/ Fire(s) \/ ClaimNext(s) \/ Claimed(s) \/ Release(s)
  PROVE  Ordinary
<1>1. \A r \in Slot : Stays(r)
  BY AfterwardsAside, AsideStays, DrainStays
<1>2. /\ UNCHANGED <<header, stop, halted, gate, budget>>
      /\ flow[s].pc \notin {"free", "check", "priority", "lift", "mark"}
  BY DEF At, session, history, Notify, Notified, Drain, Settle, Clear, Fire, ClaimNext, Claimed, Release
<1>3. ~Cold
  BY <1>2 DEF Cold
<1>4. QED
  BY <1>1, <1>2, <1>3 DEF Ordinary, Settled, Heads

LEMMA UserStops ==
  ASSUME Inv, Submit \/ (\E x \in Loaded : Delete(x)) \/ (\E x, y \in Loaded : Move(x, y))
              \/ UNCHANGED vars
  PROVE  Ordinary
<1>1. /\ UNCHANGED <<header, control, stop, halted, gate>>
      /\ budget' = budget \/ Spend("sends") \/ Spend("edits")
      /\ flow \in [Slot -> Flows]
  BY DEF Submit, Delete, Move, vars, session, history, Inv, Typed
<1>2. budget'.stops = budget.stops
  BY <1>1, StopsLeft
<1>3. CASE Submit
  <2>1. PICK s \in Slot : /\ flow[s].pc = "free" /\ \A r \in Slot \ {s} : flow'[r] = flow[r]
                          /\ flow'[s].pc = "check"
    BY <1>3, SubmitFacts
  <2>2. \A r \in Slot : Stays(r)
    BY <2>1, AsideStays DEF Others, Alike, Turning
  <2>3. Cold => Cold'
    BY <1>1, <2>1 DEF Cold
  <2>4. QED
    BY <1>1, <1>2, <2>2, <2>3 DEF Ordinary, Settled, Heads
<1>4. CASE ~Submit
  <2>1. \A r \in Slot : Alike(flow'[r], flow[r])
    <3>1. CASE UNCHANGED vars
      BY <3>1 DEF vars, Alike
    <3>2. CASE \E q : Persist(q, flow)
      BY <1>1, <3>2, PersistBecomes, Staying
    <3>3. QED
      BY <1>4, <3>1, <3>2 DEF Delete, Move
  <2>2. \A r \in Slot : Stays(r)
    BY <2>1, StillStays
  <2>3. Cold => Cold'
    BY <1>1, <2>1 DEF Cold, Alike
  <2>4. QED
    BY <1>1, <1>2, <2>2, <2>3 DEF Ordinary, Settled, Heads
<1>5. QED
  BY <1>3, <1>4

LEMMA BeginStops == ASSUME Inv, Plain, StopInv, NEW s \in Slot, Admit(s), Begin(s) PROVE StopInv'
<1>1. /\ flow[s].pc = "admit" /\ flow'[s].pc = "execute"
      /\ \A r \in Slot \ {s} : flow'[r] = flow[r]
  BY BeginFacts
<1>2. /\ header'.owner = s /\ header'.alive = TRUE /\ UNCHANGED <<stop, halted, gate, control, budget>>
      /\ Lives /\ Before /\ Once /\ Foreseen /\ Lasting /\ Owner
  BY DEF Admit, Begin, history, StopInv, Inv
<1>3. Lives' /\ Before' /\ Once'
  BY <1>2 DEF Lives, Before, Once, Halting
<1>4. Foreseen'
  <2> SUFFICES ASSUME budget.stops = Stops \/ Halting, NEW r \in Slot, flow'[r].pc \in Turning
               PROVE  r = s
    BY <1>2 DEF Foreseen, Halting, Stoppable
  <2>1. SUFFICES ASSUME r # s PROVE FALSE
    OBVIOUS
  <2>2. Stoppable(r)
    BY <1>1, <1>2, <2>1 DEF Foreseen
  <2>3. header.alive /\ header.live # "idle"
    BY <1>2, <2>2, Words DEF Stoppable, Lives, Owner
  <2>4. Inspected = header
    BY <2>3 DEF Inspected
  <2>5. header' # header
    BY <1>1, <1>2 DEF Owner, Turning
  <2>6. QED
    BY <2>3, <2>4, <2>5 DEF Admit
<1>5. Lasting'
  <2>1. ~Cold
    BY <1>1 DEF Cold
  <2>2. QED
    BY <1>1, <1>2, <2>1 DEF Lasting
<1>6. QED
  BY <1>3, <1>4, <1>5 DEF StopInv

LEMMA CommandStops ==
  ASSUME Stops <= 1, Inv, StopInv, StopCommand PROVE StopInv'
<1>1. /\ Lives /\ Before /\ Once /\ Foreseen /\ Lasting /\ Owner
      /\ header \in Headers /\ budget \in Budgets /\ flow \in [Slot -> Flows] /\ Stops \in Nat
  BY Bounds DEF StopInv, Inv, Typed, RestTyped
<1>2. CASE RequestStop
  <2>1. /\ stop = "idle" /\ stop' = "cancel" /\ header' = [header EXCEPT !.live = "stopping", !.owner = None]
        /\ UNCHANGED <<flow, gate, control, halted>> /\ Spend("stops")
    BY <1>2 DEF RequestStop, history
  <2>2. budget.stops = Stops /\ budget'.stops < Stops
    BY <1>1, <2>1 DEF Budgets, Spend, Before
  <2>3. /\ header'.owner = None /\ header'.live = "stopping"
        /\ header'.alive = header.alive /\ header'.turn = header.turn
    BY <1>1, <2>1 DEF Headers
  <2>4. halted = None
    BY <1>1, <2>2 DEF Before
  <2>5. Lives' /\ Before' /\ Once' /\ Lasting'
    BY <1>1, <2>1, <2>2, <2>3, <2>4 DEF Lives, Before, Once, Lasting, Budgets, Spend
  <2>6. ASSUME NEW r \in Slot, flow[r].pc \in Turning
        PROVE  header.alive /\ flow[r].turn = header.turn
    <3>1. Stoppable(r)
      BY <1>1, <2>2, <2>6 DEF Foreseen
    <3>2. header.owner = r
      BY <2>1, <3>1 DEF Stoppable, Halting
    <3>3. QED
      BY <1>1, <3>2, Words DEF Lives, Owner
  <2>7. Foreseen'
    BY <2>1, <2>3, <2>6 DEF Foreseen, Stoppable, Halting
  <2>8. QED
    BY <2>5, <2>7 DEF StopInv
<1>3. CASE CancelPrompt
  <2>1. /\ stop = "cancel" /\ stop' \in {"gate", "idle"}
        /\ UNCHANGED <<flow, gate, halted, header, budget>>
    BY <1>3 DEF CancelPrompt, history
  <2>2. halted = None /\ budget.stops # Stops
    BY <1>1, <2>1 DEF Before, Once, Halting
  <2>3. Lives' /\ Before' /\ Once' /\ Lasting'
    BY <1>1, <2>1, <2>2 DEF Lives, Before, Once, Lasting
  <2>4. Foreseen'
    BY <1>1, <2>1, <2>2 DEF Foreseen, Stoppable, Halting
  <2>5. QED
    BY <2>3, <2>4 DEF StopInv
<1>4. CASE SetGate
  <2>1. /\ stop = "gate" /\ stop' = "inspect" /\ gate' = TRUE /\ halted'.turn = header.turn
        /\ UNCHANGED <<flow, header, budget>>
    BY <1>4 DEF SetGate
  <2>2. budget.stops # Stops
    BY <1>1, <2>1 DEF Before
  <2>3. Lives' /\ Before' /\ Once' /\ Foreseen'
    BY <1>1, <2>1, <2>2 DEF Lives, Before, Once, Foreseen, Halting
  <2>4. ASSUME NEW r \in Slot, flow[r].pc \in {"lock", "start"} PROVE flow[r].turn = header.turn
    <3>1. Stoppable(r)
      BY <1>1, <2>1, <2>4 DEF Foreseen, Halting, Turning
    <3>2. QED
      BY <1>1, <3>1 DEF Stoppable, Owner
  <2>5. Lasting'
    BY <2>1, <2>4 DEF Lasting
  <2>6. QED
    BY <2>3, <2>5 DEF StopInv
<1>5. CASE Inspect \/ Suspend \/ Park \/ Cleanup
  <2>1. /\ stop \in {"inspect", "suspend", "park", "cleanup"}
        /\ stop' \in {"suspend", "park", "cleanup", "idle"}
        /\ control' \in {control, CancelledControl}
        /\ header' = header \/ header' = Closed("cancelled")
        /\ gate' \in {gate, TRUE} /\ UNCHANGED <<halted, budget>>
    BY <1>5 DEF Inspect, Suspend, Park, Cleanup, history
  <2>2. \A r \in Slot : Alike(flow'[r], flow[r])
    <3>1. CASE Inspect \/ Park
      BY <1>1, <3>1, LoadBecomes, PersistBecomes, Staying DEF Inspect, Park
    <3>2. CASE Suspend \/ Cleanup
      BY <3>2 DEF Suspend, Cleanup, Alike
    <3>3. QED
      BY <1>5, <3>1, <3>2
  <2>3. budget.stops # Stops
    BY <1>1, <2>1 DEF Before
  <2>4. Lives'
    BY <1>1, <2>1, ClosedHeader DEF Lives
  <2>5. Before' /\ Once' /\ Foreseen'
    BY <1>1, <2>1, <2>3 DEF Before, Once, Foreseen, Halting
  <2>6. Cold => Cold'
    BY <2>1, <2>2 DEF Cold, Alike, CancelledControl, LivePrompt, NoControl
  <2>7. Lasting'
    <3>1. gate => gate'
      BY <2>1
    <3>2. QED
      BY <1>1, <2>1, <2>2, <2>6, <3>1 DEF Lasting, Alike
  <2>8. QED
    BY <2>4, <2>5, <2>7 DEF StopInv
<1>6. QED
  BY <1>2, <1>3, <1>4, <1>5 DEF StopCommand

LEMMA RestartStops == ASSUME Inv, StopInv, Restart PROVE StopInv'
<1>1. /\ header' = [header EXCEPT !.owner = None, !.alive = FALSE] /\ header \in Headers
      /\ stop' = "idle" /\ control' = NoControl /\ \A r \in Slot : flow'[r] = Free
      /\ halted' = halted /\ Spend("crashes") /\ Before
  BY DEF Restart, history, Inv, Typed, StopInv
<1>2. budget'.stops = budget.stops
  BY <1>1, StopsLeft
<1>3. header'.owner = None
  BY <1>1 DEF Headers
<1>4. \A r \in Slot : flow'[r].pc = "free"
  BY <1>1 DEF Free
<1>5. Lives' /\ Before' /\ Once' /\ Foreseen'
  BY <1>1, <1>2, <1>3, <1>4 DEF Lives, Before, Once, Halting, Foreseen, Turning
<1>6. Lasting'
  BY <1>1, <1>4 DEF Lasting, Cold, NoControl
<1>7. QED
  BY <1>5, <1>6 DEF StopInv

LEMMA NextStops ==
  ASSUME Uses = 0, Stops <= 1, Inv, Plain, StopInv, [Next]_vars PROVE StopInv'
<1>1. ASSUME NEW s \in Slot, Run(s) PROVE Ordinary \/ (Admit(s) /\ Begin(s))
  <2>1. CASE Check(s) \/ Enqueue(s) \/ Redrain(s) \/ Priority(s) \/ Lift(s) \/ Mark(s) \/ Admit(s)
    BY <2>1, SubmissionStops, AdmissionStops
  <2>2. CASE \/ Execute(s) \/ Gate(s) \/ Failed(s) \/ Start(s) \/ Break(s) \/ Interrupt(s)
             \/ Accept(s) \/ Publish(s) \/ Published(s) \/ Respond(s)
             \/ MarkStopped(s) \/ Write(s) \/ Unlock(s)
    BY <2>2, TurnStops
  <2>3. CASE \/ Notify(s) \/ Notified(s) \/ Drain(s) \/ Settle(s) \/ Clear(s)
             \/ Fire(s) \/ ClaimNext(s) \/ Claimed(s) \/ Release(s)
    BY <2>3, AfterwardsStops
  <2>4. QED
    BY <1>1, <2>1, <2>2, <2>3, NoUse DEF Run
<1>2. CASE User \/ UNCHANGED vars
  BY <1>2, NoUse, UserStops, OrdinaryStep DEF User
<1>3. CASE \E s \in Slot : Run(s)
  BY <1>1, <1>3, BeginStops, OrdinaryStep
<1>4. CASE StopCommand \/ Restart
  BY <1>4, CommandStops, RestartStops
<1>5. QED
  BY <1>2, <1>3, <1>4 DEF Next

LEMMA InitStops == Init => StopInv
<1> SUFFICES ASSUME Init PROVE StopInv
  OBVIOUS
<1>1. /\ header.owner = None /\ budget.stops = Stops /\ halted = None /\ stop = "idle"
      /\ \A s \in Slot : flow[s].pc = "free"
  BY DEF Init, Free
<1>2. Lives /\ Before /\ Once /\ Foreseen /\ Lasting
  BY <1>1, Bounds DEF Lives, Before, Once, Foreseen, Lasting, Turning
<1>3. QED
  BY <1>2 DEF StopInv

\* When no queued prompt is used by hand, a stop holds: until the user submits a prompt, no
\* automatic dispatch but the one that was stopped, too late for its cancellation to be seen,
\* is sent, at whatever point the stop has found it and whatever is edited, refused or restarted.
\* One stop is allowed for: a second one, of another turn, may find a dispatch past the gate
\* from the time of the first.
THEOREM StopsHold ==
  ASSUME Uses = 0, Stops <= 1 PROVE Spec => StopHolds
<1>1. Init => Inv /\ CarriedInv /\ StopInv
  BY InitInv, InitCarried, InitStops
<1>2. (Inv /\ CarriedInv /\ StopInv) /\ [Next]_vars => (Inv /\ CarriedInv /\ StopInv)'
  BY NextInv, NextCarried, NextStops DEF CarriedInv
<1>3. Inv /\ CarriedInv /\ StopInv =>
        [\A s \in Slot :
           At(s, "start") /\ flow'[s].pc = "publish" /\ flow[s].kind = "auto"
           => halted = None \/ flow[s].turn = halted.turn]_vars
  BY DEF StopInv, Lasting, Cold, At
<1>4. QED
  BY <1>1, <1>2, <1>3, PTL DEF Spec, StopHolds

=============================================================================
