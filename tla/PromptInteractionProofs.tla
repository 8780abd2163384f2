----------------------- MODULE PromptInteractionProofs -----------------------
(***************************************************************************)
(* What PromptInteraction guarantees for every set of names, users,        *)
(* questions and faults.                                                   *)
(***************************************************************************)
EXTENDS PromptInteraction, TLAPS

(* The records of the model, kept as sets of their own.                    *)

HandlerPcs == {"idle", "file", "look", "event", "bind", "bind-read", "bind-write",
               "wait", "poll", "take", "decided", "settled", "record", "clean",
               "clean-response", "send", "failed", "sweeping"}
Away == {"idle", "failed", "sweeping"}
UserPcs == {"idle", "check", "resolve", "settle", "write"}
SweepPcs == {"idle", "visit", "settle", "write", "remove"}
Numbers == 0 .. MaxRequests
Says == Decisions \cup {"none"}
Handlers == [pc : HandlerPcs, of : Numbers, late : BOOLEAN, got : Says]
Items == [of : Numbers, status : Statuses, revision : Nat]
Responses == [to : Numbers, says : Says]
Answers == [pc : UserPcs, key : Keys, of : Numbers, says : Says, revision : Nat]
Sweeps == [pc : SweepPcs, todo : SUBSET Keys, key : Keys, of : Numbers, says : Says,
           writes : BOOLEAN, revision : Nat]

AskedType == asked \in Seq(Keys) /\ Len(asked) <= MaxRequests
FileType == /\ request \in [Keys -> Numbers] /\ response \in [Keys -> Responses]
            /\ item \in [Keys -> Items]
HandlerType == /\ handler \in Handlers /\ handler.of <= Len(asked)
               /\ handler.pc \in Away \/ handler.of > 0
FlagType == turn \in BOOLEAN /\ cancel \in BOOLEAN /\ calm \in BOOLEAN
ActorType == users \in [Users -> Answers] /\ sweep \in [Sweepers -> Sweeps]
FateType == /\ sent \in [Requests -> Says] /\ chosen \in [Requests -> SUBSET Choices]
            /\ faults \in 0 .. MaxFaults

LEMMA Types ==
  TypeOK <=> AskedType /\ FileType /\ HandlerType /\ FlagType /\ ActorType /\ FateType
  BY DEF TypeOK, AskedType, FileType, HandlerType, FlagType, ActorType, FateType, Away,
         HandlerPcs, UserPcs, SweepPcs, Numbers, Says, Handlers, Items, Responses, Answers, Sweeps

LEMMA TypesNext ==
  TypeOK' <=> AskedType' /\ FileType' /\ HandlerType' /\ FlagType' /\ ActorType' /\ FateType'
  BY DEF TypeOK, AskedType, FileType, HandlerType, FlagType, ActorType, FateType, Away,
         HandlerPcs, UserPcs, SweepPcs, Numbers, Says, Handlers, Items, Responses, Answers, Sweeps

LEMMA Constants ==
  /\ MaxRequests \in Nat /\ 0 \in Numbers /\ Numbers \subseteq Nat /\ Requests \subseteq Numbers
  /\ Choices \subseteq Says /\ Says \subseteq Statuses /\ "none" \in Says /\ "cancelled" \in Says
  /\ "decline" \in Says /\ \A k \in Keys : CancelOf(k) \in Says
  BY BoundsAssumption DEF Numbers, Requests, Says, Statuses, Decisions, Choices, CancelOf

\* The records that stand for nothing.
LEMMA Nothing ==
  /\ NoResponse \in Responses /\ NoItem \in Items /\ Waiting \in Handlers
  /\ NoAnswer \in Answers /\ NoSweep \in Sweeps
  /\ Waiting.pc = "idle" /\ Waiting.of = 0 /\ NoAnswer.pc = "idle" /\ NoSweep.pc = "idle"
<1>1. (CHOOSE k \in Keys : TRUE) \in Keys
  BY KeysExist DEF Keys
<1>2. NoResponse \in Responses /\ NoItem \in Items /\ Waiting \in Handlers
  BY Constants DEF NoResponse, Responses, NoItem, Items, Statuses, Waiting, Handlers, HandlerPcs
<1>3. NoAnswer \in Answers /\ NoSweep \in Sweeps
  BY <1>1, Constants DEF NoAnswer, Answers, UserPcs, NoSweep, Sweeps, SweepPcs
<1>4. QED
  BY <1>2, <1>3 DEF Waiting, NoAnswer, NoSweep

\* The question in hand has a name, and every question made so far its number.
LEMMA InHandIsAsked ==
  ASSUME TypeOK, handler.pc \notin Away
  PROVE  /\ handler.of \in 1 .. Len(asked) /\ handler.of \in Requests /\ handler.of \in Numbers
         /\ Key \in Keys
<1>1. handler.of \in Nat /\ handler.of > 0 /\ handler.of <= Len(asked) /\ Len(asked) \in Nat
  <2>1. handler \in Handlers /\ handler.of <= Len(asked) /\ (handler.pc \in Away \/ handler.of > 0)
    BY Types DEF HandlerType
  <2>2. handler.of \in Nat
    BY <2>1, Constants DEF Handlers
  <2>3. Len(asked) \in Nat
    BY Types DEF AskedType
  <2>4. QED
    BY <2>1, <2>2, <2>3
<1>2. QED
  BY <1>1, Types, Constants DEF AskedType, Requests, Key, Numbers

-----------------------------------------------------------------------------
(* The steps of one file or one actor.                                     *)

\* One item is written; the others stay.
Written(k, o, status) ==
  /\ item' \in [Keys -> Items]
  /\ item'[k].of = o /\ item'[k].status = status
  /\ \A j \in Keys \ {k} : item'[j] = item[j]

LEMMA Patching ==
  ASSUME TypeOK, NEW k \in Keys, NEW o \in Numbers, NEW status \in Statuses, Patch(k, o, status)
  PROVE  Written(k, o, status)
<1>1. item \in [Keys -> Items]
  BY Types DEF FileType
<1>2. item[k] \in Items /\ item[k].revision + 1 \in Nat
  BY <1>1 DEF Items
<1> DEFINE i == [of |-> o, status |-> status, revision |-> item[k].revision + 1]
<1>3. i \in Items /\ i.of = o /\ i.status = status
  BY <1>2 DEF Items
<1>4. item' = [item EXCEPT ![k] = i]
  BY <1>1 DEF Patch
<1>5. QED
  BY <1>1, <1>3, <1>4 DEF Written

\* The thread goes on with the question in hand.
Turns(pc, got) ==
  /\ handler' \in Handlers /\ handler'.pc = pc /\ handler'.of = handler.of /\ handler'.got = got

LEMMA HandlerRecords ==
  ASSUME NEW h \in Handlers, NEW pc \in HandlerPcs
  PROVE  /\ [h EXCEPT !.pc = pc] \in Handlers
         /\ \A b \in BOOLEAN : [h EXCEPT !.pc = pc, !.late = b] \in Handlers
         /\ \A g \in Says : [h EXCEPT !.pc = pc, !.got = g] \in Handlers
         /\ \A o \in Numbers : [h EXCEPT !.pc = pc, !.of = o] \in Handlers
  BY DEF Handlers

LEMMA Going ==
  ASSUME TypeOK, NEW pc \in HandlerPcs, Goto(pc)
  PROVE  Turns(pc, handler.got) /\ handler'.late = handler.late
<1>1. handler \in Handlers
  BY Types DEF HandlerType
<1>2. QED
  BY <1>1, HandlerRecords DEF Goto, Turns, Handlers

LEMMA Getting ==
  ASSUME TypeOK, NEW pc \in HandlerPcs, NEW g \in Says, handler' = [handler EXCEPT !.pc = pc, !.got = g]
  PROVE  Turns(pc, g)
<1>1. handler \in Handlers
  BY Types DEF HandlerType
<1>2. QED
  BY <1>1, HandlerRecords DEF Turns, Handlers

\* Steps of the thread keep the types when the files do.
LEMMA HandlerTyped ==
  ASSUME TypeOK, FileType', HandlerOnly, sent' \in [Requests -> Says],
         \/ \E pc \in HandlerPcs, g \in Says : Turns(pc, g) /\ (handler.pc \in Away => pc \in Away)
         \/ handler' = Waiting
  PROVE  TypeOK'
<1> USE DEF HandlerOnly
<1>1. AskedType' /\ FlagType' /\ ActorType' /\ FateType'
  BY Types DEF AskedType, FlagType, ActorType, FateType
<1>2. HandlerType'
  BY Types, Nothing, Constants DEF HandlerType, Turns, AskedType, Away
<1>3. QED
  BY <1>1, <1>2, TypesNext

LEMMA HandleTyped == TypeOK /\ Handle => TypeOK'
<1> SUFFICES ASSUME TypeOK, Handle PROVE TypeOK'
  OBVIOUS
<1> DEFINE Onward(pcs) ==
      \/ \E pc \in HandlerPcs, g \in Says : Turns(pc, g) /\ (handler.pc \in Away => pc \in Away)
      \/ handler' = Waiting
<1>1. handler \in Handlers /\ handler.got \in Says /\ FileType /\ sent \in [Requests -> Says]
  BY Types DEF HandlerType, Handlers, FateType
<1>2. \A pc \in HandlerPcs : Goto(pc) /\ handler.pc \notin Away => Turns(pc, handler.got)
  BY Going
<1>3. CASE WriteRequest
  <2>1. handler.pc \notin Away
    BY <1>3 DEF WriteRequest, At, Away
  <2>2. Turns("event", handler.got) \/ Turns("look", handler.got)
    BY <1>2, <1>3, <2>1 DEF WriteRequest, HandlerPcs
  <2>3. FileType'
    BY <1>1, <1>3, <2>1, InHandIsAsked DEF WriteRequest, FileType
  <2>4. QED
    BY <1>1, <1>3, <2>1, <2>2, <2>3, HandlerTyped DEF WriteRequest, HandlerPcs
<1>4. CASE LookForCancelled
  <2>1. handler.pc \notin Away
    BY <1>4 DEF LookForCancelled, At, Away
  <2>2. handler' \in Handlers
    BY <1>1, <1>4, HandlerRecords DEF LookForCancelled, HandlerPcs
  <2>3. Turns("event", handler.got)
    BY <1>1, <1>4, <2>2 DEF LookForCancelled, Turns, Handlers
  <2>4. FileType'
    BY <1>1, <1>4 DEF LookForCancelled, FileType, files
  <2>5. QED
    BY <1>1, <1>4, <2>1, <2>3, <2>4, HandlerTyped DEF LookForCancelled, HandlerPcs
<1>5. CASE PersistEvent
  <2>1. handler.pc \notin Away
    BY <1>5 DEF PersistEvent, At, Away
  <2>2. Turns("bind", handler.got)
    BY <1>2, <1>5, <2>1 DEF PersistEvent, HandlerPcs
  <2>3. (IF handler.late THEN "cancelled" ELSE "pending") \in Statuses
    BY DEF Statuses, Decisions
  <2>4. item' \in [Keys -> Items]
    BY <1>5, <2>1, <2>3, InHandIsAsked, Patching DEF PersistEvent, Written
  <2>5. FileType'
    BY <1>1, <1>5, <2>4 DEF PersistEvent, FileType
  <2>6. QED
    BY <1>1, <1>5, <2>1, <2>2, <2>5, HandlerTyped DEF PersistEvent, HandlerPcs
<1>6. CASE BindLook \/ BindRead \/ LookSettled
  <2>1. handler.pc \notin Away
    BY <1>6 DEF BindLook, BindRead, LookSettled, At, Away
  <2>2. \E pc \in HandlerPcs : Turns(pc, handler.got)
    <3>1. \E pc \in {"bind-read", "wait", "failed", "bind-write", "record", "clean"} : Goto(pc)
      BY <1>6 DEF BindLook, BindRead, LookSettled
    <3>2. QED
      BY <1>2, <2>1, <3>1 DEF HandlerPcs
  <2>3. FileType' /\ UNCHANGED sent /\ HandlerOnly
    BY <1>1, <1>6 DEF BindLook, BindRead, LookSettled, FileType, files
  <2>4. QED
    BY <1>1, <2>1, <2>2, <2>3, HandlerTyped
<1>7. CASE BindWrite
  <2>1. handler.pc \notin Away
    BY <1>7 DEF BindWrite, At, Away
  <2>2. Turns("wait", handler.got)
    BY <1>2, <1>7, <2>1 DEF BindWrite, HandlerPcs
  <2>3. FileType'
    BY <1>1, <1>7, <2>1, InHandIsAsked DEF BindWrite, FileType
  <2>4. QED
    BY <1>1, <1>7, <2>1, <2>2, <2>3, HandlerTyped DEF BindWrite, HandlerPcs
<1>8. CASE WaitCancelled \/ WaitPoll
  <2>1. handler.pc \notin Away
    BY <1>8 DEF WaitCancelled, WaitPoll, At, Away
  <2>2. CancelOf(Key) \in Says /\ response[Key].says \in Says
    BY <1>1, <2>1, InHandIsAsked, Constants DEF FileType, Responses
  <2>3. \/ \E pc \in {"decided", "take"}, g \in Says : handler' = [handler EXCEPT !.pc = pc, !.got = g]
        \/ \E pc \in {"poll", "wait"} : Goto(pc)
    BY <1>8, <2>2 DEF WaitCancelled, WaitPoll, Goto
  <2>4. \E pc \in HandlerPcs, g \in Says : Turns(pc, g)
    <3>1. {"decided", "take", "poll", "wait"} \subseteq HandlerPcs
      BY DEF HandlerPcs
    <3>2. QED
      BY <1>1, <1>2, <2>1, <2>3, <3>1, Getting
  <2>5. FileType' /\ UNCHANGED sent /\ HandlerOnly
    BY <1>1, <1>8 DEF WaitCancelled, WaitPoll, FileType, files
  <2>6. QED
    BY <1>1, <2>1, <2>4, <2>5, HandlerTyped
<1>9. CASE TakeResponse
  <2>1. handler.pc \notin Away
    BY <1>9 DEF TakeResponse, At, Away
  <2>2. Turns("decided", handler.got)
    BY <1>2, <1>9, <2>1 DEF TakeResponse, HandlerPcs
  <2>3. FileType'
    BY <1>1, <1>9, Nothing DEF TakeResponse, FileType
  <2>4. QED
    BY <1>1, <1>9, <2>1, <2>2, <2>3, HandlerTyped DEF TakeResponse, HandlerPcs
<1>10. CASE SendForm \/ SendPermission
  <2>1. handler.pc \notin Away
    BY <1>10 DEF SendForm, SendPermission, At, Away
  <2>2. handler' = Waiting \/ \E pc \in HandlerPcs : Turns(pc, handler.got)
    <3>1. handler' = Waiting \/ \E pc \in {"settled", "failed"} : Goto(pc)
      BY <1>10 DEF SendForm, SendPermission, SendFails
    <3>2. QED
      BY <1>2, <2>1, <3>1 DEF HandlerPcs
  <2>3. sent' \in [Requests -> Says]
    BY <1>1, <1>10 DEF SendForm, SendPermission, SendFails, Reply
  <2>4. FileType' /\ HandlerOnly
    BY <1>1, <1>10 DEF SendForm, SendPermission, FileType, files
  <2>5. QED
    BY <1>1, <2>1, <2>2, <2>3, <2>4, HandlerTyped
<1>11. CASE Record
  <2>1. handler.pc \notin Away
    BY <1>11 DEF Record, At, Away
  <2>2. Turns("clean", handler.got)
    BY <1>2, <1>11, <2>1 DEF Record, HandlerPcs
  <2>3. item' \in [Keys -> Items]
    BY <1>1, <1>11, <2>1, InHandIsAsked, Patching, Constants DEF Record, Written
  <2>4. FileType'
    BY <1>1, <1>11, <2>3 DEF Record, FileType
  <2>5. QED
    BY <1>1, <1>11, <2>1, <2>2, <2>4, HandlerTyped DEF Record, HandlerPcs
<1>12. CASE RemoveRequest
  <2>1. handler.pc \notin Away
    BY <1>12 DEF RemoveRequest, At, Away
  <2>2. Turns("clean-response", handler.got)
    BY <1>2, <1>12, <2>1 DEF RemoveRequest, HandlerPcs
  <2>3. FileType'
    BY <1>1, <1>12, Constants DEF RemoveRequest, FileType
  <2>4. QED
    BY <1>1, <1>12, <2>1, <2>2, <2>3, HandlerTyped DEF RemoveRequest, HandlerPcs
<1>13. CASE RemoveResponse
  <2>1. handler.pc \notin Away
    BY <1>13 DEF RemoveResponse, At, Away
  <2>2. handler' = Waiting \/ Turns("send", handler.got)
    BY <1>2, <1>13, <2>1 DEF RemoveResponse, HandlerPcs
  <2>3. FileType'
    BY <1>1, <1>13, Nothing DEF RemoveResponse, FileType
  <2>4. QED
    BY <1>1, <1>13, <2>1, <2>2, <2>3, HandlerTyped DEF RemoveResponse, HandlerPcs
<1>14. CASE TurnSwept
  <2>1. HandlerType'
    BY <1>14, Nothing, Constants, Types DEF TurnSwept, HandlerType, AskedType, Away
  <2>2. QED
    BY <1>14, <2>1, Types, TypesNext DEF TurnSwept, AskedType, FileType, FlagType, ActorType, FateType, files, fate
<1>15. QED
  BY <1>3, <1>4, <1>5, <1>6, <1>7, <1>8, <1>9, <1>10, <1>11, <1>12, <1>13, <1>14 DEF Handle

\* An answering command goes on.
UserBecomes(u, pc, k, o, says, revision) ==
  /\ users' \in [Users -> Answers]
  /\ users'[u].pc = pc /\ users'[u].key = k /\ users'[u].of = o /\ users'[u].says = says
  /\ users'[u].revision = revision
  /\ \A v \in Users \ {u} : users'[v] = users[v]
UserPcBecomes(u, pc) ==
  UserBecomes(u, pc, users[u].key, users[u].of, users[u].says, users[u].revision)
UserEnds(u) == /\ users' \in [Users -> Answers] /\ users'[u].pc = "idle"
               /\ \A v \in Users \ {u} : users'[v] = users[v]

LEMMA UserGoing ==
  ASSUME TypeOK, NEW u \in Users
  PROVE  /\ \A pc \in UserPcs : UserGoes(u, pc) => UserPcBecomes(u, pc)
         /\ UserDone(u) => UserEnds(u)
         /\ \A pc \in UserPcs, r \in Nat :
              users' = [users EXCEPT ![u] = [@ EXCEPT !.pc = pc, !.revision = r]] =>
                UserBecomes(u, pc, users[u].key, users[u].of, users[u].says, r)
<1>1. users \in [Users -> Answers] /\ users[u] \in Answers
  BY Types DEF ActorType
<1>2. ASSUME NEW pc \in UserPcs, UserGoes(u, pc) PROVE UserPcBecomes(u, pc)
  <2> DEFINE t == [users[u] EXCEPT !.pc = pc]
  <2>1. t \in Answers /\ t.pc = pc /\ t.key = users[u].key /\ t.of = users[u].of
        /\ t.says = users[u].says /\ t.revision = users[u].revision
    BY <1>1 DEF Answers
  <2>2. users' = [users EXCEPT ![u] = t]
    BY <1>2 DEF UserGoes
  <2>3. QED
    BY <1>1, <2>1, <2>2 DEF UserPcBecomes, UserBecomes
<1>3. UserDone(u) => UserEnds(u)
  BY <1>1, Nothing DEF UserDone, UserEnds
<1>4. ASSUME NEW pc \in UserPcs, NEW r \in Nat,
             users' = [users EXCEPT ![u] = [@ EXCEPT !.pc = pc, !.revision = r]]
      PROVE  UserBecomes(u, pc, users[u].key, users[u].of, users[u].says, r)
  <2> DEFINE t == [users[u] EXCEPT !.pc = pc, !.revision = r]
  <2>1. t \in Answers /\ t.pc = pc /\ t.key = users[u].key /\ t.of = users[u].of
        /\ t.says = users[u].says /\ t.revision = r
    BY <1>1 DEF Answers
  <2>2. users' = [users EXCEPT ![u] = t]
    BY <1>4
  <2>3. QED
    BY <1>1, <2>1, <2>2 DEF UserBecomes
<1>5. QED
  BY <1>2, <1>3, <1>4

\* An answer settles the item it read, or leaves it.
LEMMA SettlingItem ==
  ASSUME TypeOK, NEW k \in Keys, NEW r \in Nat, NEW says \in Says, Settle(k, r, says)
  PROVE  /\ Unchanged(k, r) => Written(k, item[k].of, says)
         /\ ~Unchanged(k, r) => UNCHANGED item
         /\ item' \in [Keys -> Items]
<1>1. item \in [Keys -> Items] /\ item[k].of \in Numbers /\ says \in Statuses
  BY Types, Constants DEF FileType, Items
<1>2. CASE Unchanged(k, r)
  BY <1>1, <1>2, Patching DEF Settle, Written
<1>3. CASE ~Unchanged(k, r)
  BY <1>1, <1>3 DEF Settle
<1>4. QED
  BY <1>2, <1>3

\* Steps of a command keep the types when its own record and the files do.
LEMMA UserTyped ==
  ASSUME TypeOK, UserOnly, users' \in [Users -> Answers], FileType',
         chosen' \in [Requests -> SUBSET Choices], calm' \in BOOLEAN
  PROVE  TypeOK'
  BY Types, TypesNext DEF UserOnly, AskedType, HandlerType, FlagType, ActorType, FateType, Away

LEMMA AnswerTyped ==
  ASSUME TypeOK, NEW u \in Users, Answer(u)
  PROVE  TypeOK'
<1>1. users[u] \in Answers /\ FileType /\ chosen \in [Requests -> SUBSET Choices] /\ calm \in BOOLEAN
  BY Types DEF ActorType, FateType, FlagType
<1>2. users[u].key \in Keys /\ users[u].of \in Numbers /\ users[u].says \in Says /\ users[u].revision \in Nat
  BY <1>1 DEF Answers
<1>3. {"write", "resolve", "settle"} \subseteq UserPcs
  BY DEF UserPcs
<1>4. CASE UserChecks(u)
  <2>1. users' \in [Users -> Answers]
    BY <1>3, <1>4, UserGoing DEF UserChecks, UserPcBecomes, UserBecomes, UserEnds
  <2>2. QED
    BY <1>1, <1>4, <2>1, UserTyped DEF UserChecks, FileType, files
<1>5. CASE UserResolves(u)
  <2> DEFINE k == users[u].key
             found == IF k \in Forms THEN request[k] # 0 /\ item[k] # NoItem ELSE Pending(k)
  <2>1. users' = [users EXCEPT ![u] = IF found THEN [@ EXCEPT !.pc = "settle", !.revision = item[k].revision]
                                      ELSE IF k \in Forms THEN [@ EXCEPT !.pc = "write"]
                                      ELSE NoAnswer]
    BY <1>5 DEF UserResolves
  <2>2. item[k].revision \in Nat
    BY <1>1, <1>2 DEF FileType, Items
  <2> HIDE DEF found
  <2>3. users' \in [Users -> Answers]
    <3>1. CASE found
      BY <1>3, <2>1, <2>2, <3>1, UserGoing DEF UserBecomes
    <3>2. CASE ~found /\ k \in Forms
      <4>1. UserGoes(u, "write")
        BY <2>1, <3>2 DEF UserGoes
      <4>2. QED
        BY <1>3, <4>1, UserGoing DEF UserPcBecomes, UserBecomes
    <3>3. CASE ~found /\ k \notin Forms
      <4>1. UserDone(u)
        BY <2>1, <3>3 DEF UserDone
      <4>2. QED
        BY <4>1, UserGoing DEF UserEnds
    <3>4. QED
      BY <3>1, <3>2, <3>3
  <2>4. QED
    BY <1>1, <1>5, <2>3, UserTyped DEF UserResolves, FileType, files
<1>6. CASE UserSettles(u)
  <2>1. users' \in [Users -> Answers]
    BY <1>3, <1>6, UserGoing DEF UserSettles, UserPcBecomes, UserBecomes, UserEnds
  <2>2. item' \in [Keys -> Items]
    BY <1>2, <1>6, SettlingItem DEF UserSettles
  <2>3. QED
    BY <1>1, <1>6, <2>1, <2>2, UserTyped DEF UserSettles, FileType
<1>7. CASE UserWrites(u)
  <2>1. users' \in [Users -> Answers]
    BY <1>3, <1>7, UserGoing DEF UserWrites, UserPcBecomes, UserBecomes, UserEnds
  <2>2. [to |-> users[u].of, says |-> users[u].says] \in Responses
    BY <1>2 DEF Responses
  <2>3. response' \in [Keys -> Responses]
    BY <1>1, <1>7, <2>2 DEF UserWrites, FileType
  <2>4. QED
    BY <1>1, <1>7, <2>1, <2>3, UserTyped DEF UserWrites, FileType
<1>8. QED
  BY <1>4, <1>5, <1>6, <1>7 DEF Answer

LEMMA ClickTyped ==
  ASSUME TypeOK, NEW u \in Users, NEW k \in Keys, NEW choice \in Choices, Click(u, k, choice)
  PROVE  /\ TypeOK'
         /\ \E pc \in {"resolve", "check"} : UserBecomes(u, pc, k, item[k].of, choice, 0)
         /\ users'[u].pc = IF k \in Forms THEN "resolve" ELSE "check"
<1>1. FileType /\ users \in [Users -> Answers] /\ chosen \in [Requests -> SUBSET Choices]
  BY Types DEF ActorType, FateType
<1>2. item[k].of \in Numbers
  BY <1>1 DEF FileType, Items
<1> DEFINE t == [pc |-> IF k \in Forms THEN "resolve" ELSE "check",
                 key |-> k, of |-> item[k].of, says |-> choice, revision |-> 0]
<1>3. t \in Answers
  BY <1>2, Constants DEF Answers, UserPcs
<1>4. users' = [users EXCEPT ![u] = t]
  BY DEF Click
<1>5. users' \in [Users -> Answers] /\ users'[u] = t /\ \A v \in Users \ {u} : users'[v] = users[v]
  BY <1>1, <1>3, <1>4
<1>6. chosen' \in [Requests -> SUBSET Choices]
  BY <1>1 DEF Click
<1>7. TypeOK'
  <2>1. calm' \in BOOLEAN
    BY DEF Click
  <2>2. QED
    BY <1>1, <1>5, <1>6, <2>1, UserTyped DEF Click, FileType, files
<1>8. QED
  BY <1>5, <1>7 DEF UserBecomes

\* A sweep goes on.
SweepBecomes(s, pc, k, o, says) ==
  /\ sweep' \in [Sweepers -> Sweeps]
  /\ sweep'[s].pc = pc /\ sweep'[s].key = k /\ sweep'[s].of = o /\ sweep'[s].says = says
  /\ \A r \in Sweepers \ {s} : sweep'[r] = sweep[r]
SweepPcBecomes(s, pc) == SweepBecomes(s, pc, sweep[s].key, sweep[s].of, sweep[s].says)
SweepLooks(s, pcs) == /\ sweep' \in [Sweepers -> Sweeps] /\ sweep'[s].pc \in pcs
                      /\ \A r \in Sweepers \ {s} : sweep'[r] = sweep[r]

LEMMA SweepGoing ==
  ASSUME TypeOK, NEW s \in Sweepers
  PROVE  /\ \A pc \in {"write", "remove"} : SweepGoes(s, pc) => SweepPcBecomes(s, pc)
         /\ SweepGoes(s, "visit") => SweepLooks(s, {"visit"})
         /\ sweep' = [sweep EXCEPT ![s] = NoSweep] => SweepLooks(s, {"idle"})
         /\ StartSweep(s) => SweepLooks(s, {"visit"})
<1>1. sweep \in [Sweepers -> Sweeps] /\ sweep[s] \in Sweeps
  BY Types DEF ActorType
<1>2. ASSUME NEW pc \in {"write", "remove"}, SweepGoes(s, pc) PROVE SweepPcBecomes(s, pc)
  <2> DEFINE t == [sweep[s] EXCEPT !.pc = pc]
  <2>1. t \in Sweeps /\ t.pc = pc /\ t.key = sweep[s].key /\ t.of = sweep[s].of /\ t.says = sweep[s].says
    BY <1>1 DEF Sweeps, SweepPcs
  <2>2. sweep' = [sweep EXCEPT ![s] = t]
    BY <1>2 DEF SweepGoes
  <2>3. QED
    BY <1>1, <2>1, <2>2 DEF SweepPcBecomes, SweepBecomes
<1>3. \A d \in SUBSET Keys : /\ [NoSweep EXCEPT !.pc = "visit", !.todo = d] \in Sweeps
                             /\ [NoSweep EXCEPT !.pc = "visit", !.todo = d].pc = "visit"
  <2>1. [NoSweep EXCEPT !.pc = "visit"] \in Sweeps
    BY Nothing DEF Sweeps, SweepPcs
  <2>2. \A r \in Sweeps, d \in SUBSET Keys : [r EXCEPT !.todo = d] \in Sweeps
    BY DEF Sweeps
  <2>3. \A d : [NoSweep EXCEPT !.pc = "visit", !.todo = d] = [[NoSweep EXCEPT !.pc = "visit"] EXCEPT !.todo = d]
    OBVIOUS
  <2>4. QED
    BY <2>1, <2>2, <2>3 DEF NoSweep
<1>4. sweep[s].todo \in SUBSET Keys
  BY <1>1 DEF Sweeps
<1>5. SweepGoes(s, "visit") => SweepLooks(s, {"visit"})
  <2> SUFFICES ASSUME SweepGoes(s, "visit") PROVE SweepLooks(s, {"visit"})
    OBVIOUS
  <2>1. sweep' = [sweep EXCEPT ![s] = [NoSweep EXCEPT !.pc = "visit", !.todo = sweep[s].todo]]
    BY DEF SweepGoes
  <2>2. QED
    BY <1>1, <1>3, <1>4, <2>1 DEF SweepLooks
<1>6. StartSweep(s) => SweepLooks(s, {"visit"})
  <2>1. [NoSweep EXCEPT !.pc = "visit", !.todo = Keys] \in Sweeps
        /\ [NoSweep EXCEPT !.pc = "visit", !.todo = Keys].pc = "visit"
    BY <1>3
  <2> DEFINE t == [NoSweep EXCEPT !.pc = "visit", !.todo = Keys]
  <2>2. StartSweep(s) => sweep' = [sweep EXCEPT ![s] = t]
    BY DEF StartSweep
  <2> HIDE DEF t
  <2>3. t \in Sweeps /\ t.pc = "visit"
    BY <2>1 DEF t
  <2>4. QED
    BY <1>1, <2>2, <2>3 DEF SweepLooks
<1>7. QED
  BY <1>1, <1>2, <1>5, <1>6, Nothing DEF SweepLooks

\* What a sweep takes up.
LEMMA Visiting ==
  ASSUME TypeOK, NEW s \in Sweepers, NEW k \in Keys, Visit(s, k)
  PROVE  \/ SweepLooks(s, {"visit"})
         \/ /\ SweepBecomes(s, "settle", k, request[k], sweep'[s].says) /\ Open(k)
            /\ sweep'[s].revision = item[k].revision
<1>1. sweep \in [Sweepers -> Sweeps] /\ sweep[s] \in Sweeps /\ FileType
  BY Types DEF ActorType
<1>2. sweep[s].todo \ {k} \in SUBSET Keys
  BY <1>1 DEF Sweeps
<1>3. /\ request[k] \in Numbers /\ item[k].revision \in Nat
      /\ (IF response[k] = NoResponse THEN CancelOf(k) ELSE response[k].says) \in Says
  BY <1>1, Constants DEF FileType, Items, Responses
<1>4. CASE Open(k)
  <2> DEFINE t == [pc |-> "settle", todo |-> sweep[s].todo \ {k}, key |-> k, of |-> request[k],
                   writes |-> response[k] = NoResponse,
                   says |-> IF response[k] = NoResponse THEN CancelOf(k) ELSE response[k].says,
                   revision |-> item[k].revision]
  <2>1. t \in Sweeps /\ t.pc = "settle" /\ t.key = k /\ t.of = request[k] /\ t.revision = item[k].revision
    BY <1>2, <1>3 DEF Sweeps, SweepPcs
  <2>2. sweep' = [sweep EXCEPT ![s] = t]
    BY <1>4 DEF Visit
  <2> HIDE DEF t
  <2>3. QED
    BY <1>1, <1>4, <2>1, <2>2 DEF SweepBecomes
<1>5. CASE ~Open(k)
  <2> DEFINE t == [sweep[s] EXCEPT !.todo = sweep[s].todo \ {k}]
  <2>1. t \in Sweeps /\ t.pc = "visit"
    BY <1>1, <1>2 DEF Sweeps, Visit
  <2>2. sweep' = [sweep EXCEPT ![s] = t]
    BY <1>5 DEF Visit
  <2> HIDE DEF t
  <2>3. QED
    BY <1>1, <2>1, <2>2 DEF SweepLooks
<1>6. QED
  BY <1>4, <1>5

LEMMA SweepTyped ==
  ASSUME TypeOK, NEW s \in Sweepers, Settling(s)
  PROVE  TypeOK'
<1>1. sweep[s] \in Sweeps /\ FileType
  BY Types DEF ActorType
<1>2. sweep[s].key \in Keys /\ sweep[s].of \in Numbers /\ sweep[s].says \in Says /\ sweep[s].revision \in Nat
  BY <1>1 DEF Sweeps
<1>3. SweepOnly
  BY DEF Settling, Visit, SweepSettles, SweepWrites, SweepRemoves, SweepEnds
<1>4. sweep' \in [Sweepers -> Sweeps]
  <2>1. ASSUME NEW k \in Keys, Visit(s, k) PROVE sweep' \in [Sweepers -> Sweeps]
    BY <2>1, Visiting DEF SweepLooks, SweepBecomes
  <2>2. ASSUME NEW pc \in {"write", "remove", "visit"}, SweepGoes(s, pc) PROVE sweep' \in [Sweepers -> Sweeps]
    BY <2>2, SweepGoing DEF SweepLooks, SweepPcBecomes, SweepBecomes
  <2>3. CASE SweepEnds(s)
    BY <2>3, SweepGoing DEF SweepEnds, SweepLooks
  <2>4. CASE SweepSettles(s)
    <3>1. \E pc \in {"write", "visit"} : SweepGoes(s, pc)
      BY <2>4 DEF SweepSettles
    <3>2. QED
      BY <2>2, <3>1
  <2>5. CASE SweepWrites(s)
    <3>1. \E pc \in {"remove", "visit"} : SweepGoes(s, pc)
      BY <2>5 DEF SweepWrites
    <3>2. QED
      BY <2>2, <3>1
  <2>6. QED
    BY <2>1, <2>2, <2>3, <2>4, <2>5 DEF Settling, SweepRemoves
<1>5. FileType'
  <2>1. CASE SweepSettles(s)
    BY <1>1, <1>2, <2>1, SettlingItem DEF SweepSettles, FileType
  <2>2. CASE SweepWrites(s)
    <3>1. [to |-> sweep[s].of, says |-> sweep[s].says] \in Responses
      BY <1>2 DEF Responses
    <3>2. QED
      BY <1>1, <2>2, <3>1 DEF SweepWrites, FileType
  <2>3. CASE SweepRemoves(s)
    BY <1>1, <2>3, Constants DEF SweepRemoves, FileType
  <2>4. CASE SweepEnds(s) \/ \E k \in Keys : Visit(s, k)
    BY <1>1, <2>4 DEF SweepEnds, Visit, FileType, files
  <2>5. QED
    BY <2>1, <2>2, <2>3, <2>4 DEF Settling
<1>6. QED
  BY <1>3, <1>4, <1>5, Types, TypesNext DEF SweepOnly, AskedType, HandlerType, FlagType, ActorType,
     FateType, fate, Away

LEMMA AskTyped ==
  ASSUME TypeOK, NEW k \in Keys, Ask(k)
  PROVE  /\ TypeOK' /\ Len(asked') = Len(asked) + 1 /\ Len(asked) + 1 \in Requests
         /\ asked'[Len(asked) + 1] = k /\ \A o \in 1 .. Len(asked) : asked'[o] = asked[o]
         /\ handler' # handler => /\ handler'.pc = "file" /\ handler'.of = Len(asked) + 1
                                   /\ ~handler'.late
<1>1. asked \in Seq(Keys) /\ Len(asked) \in Nat /\ Len(asked) < MaxRequests /\ asked' = Append(asked, k)
  BY Types DEF AskedType, Ask
<1>2. /\ asked' \in Seq(Keys) /\ Len(asked') = Len(asked) + 1 /\ asked'[Len(asked) + 1] = k
      /\ \A o \in 1 .. Len(asked) : asked'[o] = asked[o]
  BY <1>1
<1>3. Len(asked) + 1 \in Requests /\ Len(asked) + 1 \in Numbers /\ Len(asked') <= MaxRequests
  BY <1>1, <1>2, Constants DEF Requests, Numbers
<1> DEFINE h == [Waiting EXCEPT !.pc = "file", !.of = Len(asked) + 1]
<1>4. h \in Handlers /\ h.pc = "file" /\ h.of = Len(asked) + 1 /\ ~h.late
  <2>1. h \in Handlers
    BY <1>3, Nothing, HandlerRecords DEF HandlerPcs
  <2>2. QED
    BY <2>1 DEF Waiting
<1> HIDE DEF h
<1>5. handler' \in {handler, h}
  BY DEF Ask, h
<1>6. HandlerType'
  <2>1. handler \in Handlers /\ handler.of <= Len(asked) /\ (handler.pc \in Away \/ handler.of > 0)
    BY Types DEF HandlerType
  <2>2. handler.of \in Nat
    BY <2>1, Constants DEF Handlers
  <2>3. QED
    BY <1>1, <1>2, <1>4, <1>5, <2>1, <2>2 DEF HandlerType
<1>7. FateType'
  <2>1. sent' \in [Requests -> Says]
    BY <1>3, Types, Constants DEF FateType, Ask
  <2>2. QED
    BY <2>1, Types DEF FateType, Ask, fate
<1>8. TypeOK'
  BY <1>2, <1>3, <1>6, <1>7, Types, TypesNext DEF Ask, AskedType, FileType, FlagType, ActorType, files, fate
<1>9. QED
  BY <1>2, <1>3, <1>4, <1>5, <1>8

LEMMA OutsideTyped == TypeOK /\ (BeginTurn \/ EndTurn \/ Stop \/ Close \/ Crash) => TypeOK'
<1> SUFFICES ASSUME TypeOK, BeginTurn \/ EndTurn \/ Stop \/ Close \/ Crash PROVE TypeOK'
  OBVIOUS
<1>1. AskedType' /\ FileType' /\ sent' = sent /\ chosen' = chosen
  BY Types DEF AskedType, FileType, BeginTurn, EndTurn, Stop, Close, Crash, Interruption, files, fate
<1>2. ActorType'
  <2>1. Sweepers = {"control", "runtime"} /\ users \in [Users -> Answers] /\ sweep \in [Sweepers -> Sweeps]
    BY Types DEF Sweepers, ActorType
  <2>2. \A s \in Sweepers : StartSweep(s) => sweep' \in [Sweepers -> Sweeps]
    BY SweepGoing DEF SweepLooks
  <2>3. users' \in [Users -> Answers]
    BY <2>1, Nothing DEF BeginTurn, EndTurn, Stop, Close, Crash
  <2>4. sweep' \in [Sweepers -> Sweeps]
    BY <2>1, <2>2, Nothing DEF BeginTurn, EndTurn, Stop, Close, Crash
  <2>5. QED
    BY <2>3, <2>4 DEF ActorType
<1>3. HandlerType'
  <2>1. handler' \in {handler, Waiting} \/ (handler.pc \in Away /\ Goto("sweeping"))
    BY DEF BeginTurn, EndTurn, Stop, Close, Crash, Away
  <2>2. Goto("sweeping") => Turns("sweeping", handler.got)
    BY Going DEF HandlerPcs
  <2>3. handler' \in Handlers /\ handler'.of \in {handler.of, 0} /\ (handler'.pc \in Away \/ handler' = handler)
    BY <2>1, <2>2, Nothing, Types DEF HandlerType, Turns, Away
  <2>4. Len(asked) \in Nat /\ asked' = asked
    BY Types DEF AskedType, BeginTurn, EndTurn, Stop, Close, Crash, Interruption
  <2>5. QED
    BY <2>3, <2>4, Types DEF HandlerType
<1>4. FlagType'
  BY Types DEF FlagType, BeginTurn, EndTurn, Stop, Close, Crash, Interruption, fate
<1>5. faults' \in 0 .. MaxFaults
  BY Types, BoundsAssumption DEF FateType, BeginTurn, EndTurn, Stop, Close, Crash, Interruption, fate
<1>6. QED
  BY <1>1, <1>2, <1>3, <1>4, <1>5, Types, TypesNext DEF FateType

LEMMA InitTyped == Init => TypeOK
<1> SUFFICES ASSUME Init PROVE TypeOK
  OBVIOUS
<1>1. AskedType /\ Len(asked) = 0
  BY Constants DEF Init, AskedType
<1>2. FileType /\ ActorType /\ FlagType
  BY Nothing, Constants DEF Init, FileType, ActorType, FlagType
<1>3. HandlerType
  BY <1>1, Nothing DEF Init, HandlerType, Away
<1>4. FateType
  BY Constants, BoundsAssumption DEF Init, FateType
<1>5. QED
  BY <1>1, <1>2, <1>3, <1>4, Types

LEMMA NextTyped == TypeOK /\ [Next]_vars => TypeOK'
<1> SUFFICES ASSUME TypeOK, [Next]_vars PROVE TypeOK'
  OBVIOUS
<1>1. CASE UNCHANGED vars
  BY <1>1 DEF TypeOK, vars
<1>2. CASE \E u \in Users : (\E k \in Keys, c \in Choices : Click(u, k, c)) \/ Answer(u)
  BY <1>2, ClickTyped, AnswerTyped
<1>3. QED
  BY <1>1, <1>2, AskTyped, HandleTyped, SweepTyped, OutsideTyped DEF Next

\* The runtime thread, the answers, the sweeps and their files are in one of their states,
\* whatever is interrupted and whatever name an agent gives to its questions.
THEOREM InteractionTyped == Spec => []TypeOK
  BY InitTyped, NextTyped, PTL DEF Spec

-----------------------------------------------------------------------------
(* The inductive invariant, by parts.  It holds when no name is given      *)
(* twice, as when one agent process asks all the questions of an attempt.  *)

NamedOnce == "reuse" \notin Environment

Before == {"file", "look", "event"}
During == {"bind", "bind-read", "bind-write", "wait", "poll"}
After == {"take", "decided", "settled", "record", "clean", "clean-response", "send"}
Asked == 1 .. Len(asked)
Known(o, k) == o \in Asked /\ asked[o] = k

\* whatever is written under a name belongs to the one question of that name
Names ==
  /\ \A i, j \in Asked : asked[i] = asked[j] => i = j
  /\ \A k \in Keys : request[k] # 0 => Known(request[k], k)
  /\ \A k \in Keys : item[k].of # 0 => Known(item[k].of, k)
  /\ \A k \in Keys : Pending(k) => item[k].of # 0
  /\ \A k \in Keys : response[k] # NoResponse => Known(response[k].to, k)
  /\ \A u \in Users : users[u].pc # "idle" => Known(users[u].of, users[u].key)
  /\ \A s \in Sweepers : sweep[s].pc \in {"settle", "write", "remove"} => Known(sweep[s].of, sweep[s].key)

\* a request is removed only when its item is settled, and written before there is one
OnFile ==
  /\ \A k \in Keys : Pending(k) => request[k] # 0
  /\ handler.pc \in Before => item[Key].of = 0
  /\ handler.pc \in {"look", "event"} => request[Key] # 0
  /\ handler.pc = "clean" => ~Pending(Key)
  /\ \A s \in Sweepers :
       sweep[s].pc = "remove" \/ (sweep[s].pc = "write" /\ sweep[s].key \in Ids) =>
         sweep[s].key \in Ids /\ ~Pending(sweep[s].key) /\ item[sweep[s].key].of # 0

\* nothing is said about a question that was not asked
Fresh == \A o \in Requests : o \notin Asked => sent[o] = "none" /\ chosen[o] = {}

\* as long as nothing interrupts, only the question in hand is open
Undisturbed ==
  /\ ~cancel /\ sweep["control"].pc = "idle"
  /\ sweep["runtime"].pc # "idle" => handler.pc = "sweeping"
  /\ \A k \in Keys : Pending(k) => InHand(item[k].of)

\* one answer is given to a question, and it finds the item as the card showed it
OneAnswer ==
  \A u, v \in Users : users[u].pc # "idle" /\ users[v].pc # "idle" /\ users[u].of = users[v].of => u = v
Answered(u) ==
  /\ chosen[users[u].of] = {users[u].says}
  /\ users[u].pc = "check" => users[u].key \in Ids
  /\ users[u].pc = "settle" /\ Pending(users[u].key) => users[u].revision = item[users[u].key].revision
  /\ users[u].key \in Forms /\ users[u].pc # "write" => Pending(users[u].key)
  /\ users[u].key \in Forms /\ users[u].pc = "write" => item[users[u].key].status = users[u].says
Answering == \A u \in Users : users[u].pc # "idle" => Answered(u)

\* what the thread finds about its question is the choice of the user, if there is one
Untouched == /\ chosen[handler.of] = {} /\ response[Key] = NoResponse /\ ~handler.late
             /\ sent[handler.of] = "none"
Shown == /\ item[Key].of = handler.of /\ request[Key] # 0 /\ sent[handler.of] = "none"
         /\ Pending(Key) \/ chosen[handler.of] = {item[Key].status}
         /\ response[Key] # NoResponse => chosen[handler.of] = {response[Key].says}
         /\ response[Key] # NoResponse /\ IsForm => item[Key].status = response[Key].says
Taken == /\ item[Key].of = handler.of /\ chosen[handler.of] = {handler.got}
         /\ Pending(Key) \/ item[Key].status = handler.got
         /\ IsForm \/ handler.pc \in {"clean", "clean-response", "send"} => item[Key].status = handler.got
         /\ ~IsForm \/ handler.pc \in {"take", "decided"} => sent[handler.of] = "none"
         /\ handler.pc \in {"take", "record", "send"} => ~IsForm
InTurn == /\ handler.pc \in Before => Untouched
          /\ handler.pc \in During => Shown
          /\ handler.pc \in After => Taken

\* what the agent was told is what the user chose and what the timeline shows
Agreed == \A o \in Asked : sent[o] # "none" /\ item[asked[o]].of = o =>
                             chosen[o] = {sent[o]} /\ item[asked[o]].status = sent[o]

Calm == calm => Undisturbed /\ OneAnswer /\ Answering /\ InTurn /\ Agreed
Shared == Names /\ OnFile /\ Fresh /\ Calm
Inv == TypeOK /\ Shared

LEMMA Phases ==
  /\ HandlerPcs = Away \cup Before \cup During \cup After
  /\ Away \cap (Before \cup During \cup After) = {}
  /\ Before \cap (During \cup After) = {} /\ During \cap After = {}
  BY DEF HandlerPcs, Away, Before, During, After

LEMMA Values ==
  ASSUME Inv
  PROVE  /\ item \in [Keys -> Items] /\ request \in [Keys -> Numbers] /\ response \in [Keys -> Responses]
         /\ \A k \in Keys : item[k].status \in Statuses /\ item[k].of \in Numbers
         /\ handler.pc \in HandlerPcs /\ handler.got \in Says
         /\ \A u \in Users : /\ users[u] \in Answers /\ users[u].key \in Keys /\ users[u].says \in Says
                             /\ users[u].of \in Numbers /\ users[u].revision \in Nat
         /\ \A s \in Sweepers : /\ sweep[s] \in Sweeps /\ sweep[s].key \in Keys /\ sweep[s].says \in Says
                                /\ sweep[s].of \in Numbers /\ sweep[s].revision \in Nat
         /\ "pending" \notin Says /\ 0 \notin Asked /\ Asked \subseteq Requests
<1>1. "pending" \notin Says
  BY DEF Says, Decisions, Choices
<1>2. /\ item \in [Keys -> Items] /\ request \in [Keys -> Numbers] /\ response \in [Keys -> Responses]
      /\ handler \in Handlers /\ users \in [Users -> Answers] /\ sweep \in [Sweepers -> Sweeps]
  BY Types DEF Inv, FileType, HandlerType, ActorType
<1>3. 0 \notin Asked /\ Asked \subseteq Requests
  BY Types, Constants DEF Inv, AskedType, Asked, Requests
<1>4. QED
  BY <1>1, <1>2, <1>3 DEF Items, Handlers, Answers, Sweeps

\* In a calm session the open question is the one in hand.
LEMMA PendingInHand ==
  ASSUME Inv, calm, NEW k \in Keys, Pending(k)
  PROVE  handler.pc \in During \cup After /\ handler.of = item[k].of /\ k = Key
<1>1. handler.pc \notin Away /\ handler.of = item[k].of
  BY DEF Inv, Shared, Calm, Undisturbed, InHand, Away
<1>2. k = Key /\ item[k].of # 0
  BY <1>1 DEF Inv, Shared, Names, Known, Key
<1>3. QED
  BY <1>1, <1>2, Phases, Values DEF Inv, Shared, OnFile

\* In a calm session whoever answers the question in hand made the one choice.
LEMMA AnswersInHand ==
  ASSUME Inv, calm, NEW u \in Users, users[u].pc # "idle"
  PROVE  /\ \A v \in Users : users[v].pc # "idle" /\ users[v].key = users[u].key => u = v
         /\ handler.pc \notin Away /\ users[u].key = Key =>
              users[u].of = handler.of /\ handler.pc \notin Before
<1>1. users[u].of \in Asked /\ asked[users[u].of] = users[u].key /\ chosen[users[u].of] = {users[u].says}
  BY DEF Inv, Shared, Names, Known, Calm, Answering, Answered
<1>2. ASSUME NEW v \in Users, users[v].pc # "idle", users[v].key = users[u].key PROVE u = v
  BY <1>1, <1>2 DEF Inv, Shared, Names, Known, Calm, OneAnswer
<1>3. ASSUME handler.pc \notin Away, users[u].key = Key
      PROVE  users[u].of = handler.of /\ handler.pc \notin Before
  <2>1. handler.of \in Asked
    BY <1>3, InHandIsAsked DEF Inv, Asked
  <2>2. users[u].of = handler.of
    BY <1>1, <1>3, <2>1 DEF Inv, Shared, Names, Key
  <2>3. QED
    BY <1>1, <2>2 DEF Inv, Shared, Calm, InTurn, Untouched
<1>4. QED
  BY <1>2, <1>3

-----------------------------------------------------------------------------
(* The runtime thread.                                                     *)

\* It goes on with the question in hand, and leaves the items be.
LEMMA Onward ==
  ASSUME Inv, UNCHANGED <<asked, item, users, sweep, chosen, calm, cancel>>,
         handler.pc \notin Away, handler'.pc \in HandlerPcs \ Away, handler'.of = handler.of,
         \A j \in Keys \ {Key} : request'[j] = request[j] /\ response'[j] = response[j],
         request'[Key] \in {0, handler.of, request[Key]}, response'[Key] \in {NoResponse, response[Key]},
         Pending(Key) => request'[Key] # 0,
         handler'.pc \in Before => handler.pc \in Before,
         handler'.pc \in {"look", "event"} => request'[Key] # 0,
         handler'.pc = "clean" => ~Pending(Key),
         \/ sent' = sent
         \/ /\ sent' = [sent EXCEPT ![handler.of] = handler.got]
            /\ calm => chosen[handler.of] = {handler.got} /\ item[Key].status = handler.got,
         calm => InTurn'
  PROVE  Shared'
<1>1. handler.of \in Asked /\ handler.of \in Requests /\ Key \in Keys /\ Key' = Key /\ Asked' = Asked
  BY InHandIsAsked DEF Inv, Asked, Key
<1> USE DEF Inv, Shared
<1>2. Names'
  BY <1>1 DEF Names, Known, Key, Pending
<1>3. OnFile'
  BY <1>1 DEF OnFile, Pending
<1>4. Fresh'
  <2>1. sent \in [Requests -> Says]
    BY Types DEF FateType
  <2>2. QED
    BY <1>1, <2>1 DEF Fresh
<1>5. Calm'
  <2> SUFFICES ASSUME calm PROVE Undisturbed' /\ OneAnswer' /\ Answering' /\ InTurn' /\ Agreed'
    BY DEF Calm
  <2>1. Undisturbed'
    BY DEF Calm, Undisturbed, InHand, Pending, Away
  <2>2. OneAnswer' /\ Answering'
    BY DEF Calm, OneAnswer, Answering, Answered, Pending
  <2>3. Agreed'
    <3>1. sent \in [Requests -> Says]
      BY Types DEF FateType
    <3>2. QED
      BY <1>1, <3>1, Values DEF Calm, Agreed, Key
  <2>4. QED
    BY <2>1, <2>2, <2>3
<1>6. QED
  BY <1>2, <1>3, <1>4, <1>5

\* It is done with the question in hand, which is settled by then.
LEMMA Done ==
  ASSUME Inv, UNCHANGED <<asked, item, request, users, sweep, chosen, calm, cancel>>,
         handler.pc \notin Away, handler'.pc \in Away,
         \A j \in Keys \ {Key} : response'[j] = response[j], response'[Key] \in {NoResponse, response[Key]},
         \/ sent' = sent
         \/ /\ sent' = [sent EXCEPT ![handler.of] = handler.got]
            /\ calm => chosen[handler.of] = {handler.got} /\ item[Key].status = handler.got,
         calm => ~Pending(Key)
  PROVE  Shared'
<1>1. handler.of \in Asked /\ handler.of \in Requests /\ Key \in Keys /\ Asked' = Asked
  BY InHandIsAsked DEF Inv, Asked
<1> USE DEF Inv, Shared
<1>2. Names'
  BY <1>1 DEF Names, Known, Pending
<1>3. OnFile'
  BY Phases DEF OnFile, Pending, Away
<1>4. Fresh'
  <2>1. sent \in [Requests -> Says]
    BY Types DEF FateType
  <2>2. QED
    BY <1>1, <2>1 DEF Fresh
<1>5. Calm'
  <2> SUFFICES ASSUME calm PROVE Undisturbed' /\ OneAnswer' /\ Answering' /\ InTurn' /\ Agreed'
    BY DEF Calm
  <2>1. Undisturbed'
    <3>1. \A k \in Keys : ~Pending(k)
      BY PendingInHand
    <3>2. QED
      BY <3>1 DEF Calm, Undisturbed, Pending, Away
  <2>2. OneAnswer' /\ Answering'
    BY DEF Calm, OneAnswer, Answering, Answered, Pending
  <2>3. InTurn'
    BY Phases DEF InTurn
  <2>4. Agreed'
    <3>1. sent \in [Requests -> Says]
      BY Types DEF FateType
    <3>2. QED
      BY <1>1, <3>1, Values DEF Calm, Agreed, Key
  <2>5. QED
    BY <2>1, <2>2, <2>3, <2>4
<1>6. QED
  BY <1>2, <1>3, <1>4, <1>5

\* What holds while the thread is on a question.
LEMMA InHandFacts ==
  ASSUME Inv, handler.pc \notin Away
  PROVE  /\ handler.of \in Asked /\ handler.of \in Requests /\ handler.of # 0 /\ Key \in Keys
         /\ asked' = asked /\ handler'.of = handler.of => Key' = Key /\ IsForm' = IsForm
         /\ handler \in Handlers /\ handler.got \in Says
         /\ handler.pc \in Before => item[Key].of = 0 /\ ~Pending(Key)
         /\ calm => InTurn
<1>1. handler.of \in Asked /\ handler.of \in Requests /\ handler.of # 0 /\ Key \in Keys
  BY InHandIsAsked DEF Inv, Asked, Requests
<1>2. handler.pc \in Before => item[Key].of = 0 /\ ~Pending(Key)
  BY <1>1 DEF Inv, Shared, OnFile, Names
<1>3. QED
  BY <1>1, <1>2, Types, Values DEF Inv, HandlerType, Shared, Calm, Key, IsForm

LEMMA WriteRequestKeeps ==
  ASSUME Inv, WriteRequest
  PROVE  Shared'
<1>1. handler.pc \in Before /\ handler.pc \notin Away
  BY DEF WriteRequest, At, Before, Away
<1>2. \E pc \in {"look", "event"} : Turns(pc, handler.got) /\ handler'.late = handler.late
  BY Going DEF Inv, WriteRequest, HandlerPcs
<1>3. handler'.pc \in Before /\ handler'.pc \in HandlerPcs \ Away
  BY <1>2 DEF Turns, Before, HandlerPcs, Away
<1>4. request'[Key] = handler.of /\ \A j \in Keys \ {Key} : request'[j] = request[j]
  BY <1>1, InHandFacts, Values DEF WriteRequest
<1>5. calm => InTurn'
  BY <1>1, <1>2, <1>3, Phases, InHandFacts DEF InTurn, Untouched, WriteRequest, HandlerOnly, Turns
<1>6. QED
  BY <1>1, <1>2, <1>3, <1>4, <1>5, InHandFacts, Onward DEF WriteRequest, HandlerOnly, Turns

LEMMA LookForCancelledKeeps ==
  ASSUME Inv, LookForCancelled
  PROVE  Shared'
<1>1. handler.pc \in Before /\ handler.pc \notin Away /\ handler.pc = "look"
  BY DEF LookForCancelled, At, Before, Away
<1>2. handler'.pc = "event" /\ handler'.of = handler.of /\ handler'.late = (response[Key].says = "cancelled")
  BY <1>1, InHandFacts DEF LookForCancelled, Handlers
<1>3. handler'.pc \in Before /\ handler'.pc \in HandlerPcs \ Away
  BY <1>2 DEF Before, HandlerPcs, Away
<1>4. request[Key] # 0 /\ UNCHANGED files
  BY <1>1 DEF Inv, Shared, OnFile, LookForCancelled
<1>5. calm => InTurn'
  <2>1. SUFFICES ASSUME calm PROVE InTurn'
    OBVIOUS
  <2>2. Untouched
    BY <1>1, <2>1, InHandFacts DEF InTurn
  <2>3. ~handler'.late
    <3>1. response[Key].says # "cancelled"
      BY <2>2 DEF Untouched, NoResponse
    <3>2. QED
      BY <1>2, <3>1
  <2>4. QED
    BY <1>1, <1>2, <1>3, <2>2, <2>3, Phases, InHandFacts DEF InTurn, Untouched, LookForCancelled, HandlerOnly, files
<1>6. QED
  BY <1>1, <1>2, <1>3, <1>4, <1>5, InHandFacts, Onward DEF LookForCancelled, HandlerOnly, files

\* The item of the question appears.
LEMMA PersistEventKeeps ==
  ASSUME Inv, PersistEvent
  PROVE  Shared'
<1>1. handler.pc \in Before /\ handler.pc \notin Away /\ handler.pc = "event"
  BY DEF PersistEvent, At, Before, Away
<1>2. handler'.pc = "bind" /\ handler'.of = handler.of
  BY Going DEF Inv, PersistEvent, HandlerPcs, Turns
<1> DEFINE status == IF handler.late THEN "cancelled" ELSE "pending"
<1>3. status \in Statuses
  BY DEF Statuses, Decisions
<1>4. Written(Key, handler.of, status)
  BY <1>1, <1>3, InHandFacts, InHandIsAsked, Patching DEF Inv, PersistEvent
<1>5. /\ handler.of \in Asked /\ handler.of # 0 /\ Key \in Keys /\ Key' = Key /\ Asked' = Asked
      /\ IsForm' = IsForm /\ item[Key].of = 0 /\ ~Pending(Key)
  BY <1>1, <1>2, InHandFacts DEF PersistEvent, HandlerOnly, Asked
<1>6. UNCHANGED <<asked, request, response, sent, turn, cancel, users, sweep, chosen, calm>>
  BY DEF PersistEvent, HandlerOnly
<1> HIDE DEF status
<1> USE DEF Inv, Shared, Written
<1>7. Names'
  BY <1>4, <1>5, <1>6 DEF Names, Known, Pending, Key
<1>8. OnFile'
  <2>1. request[Key] # 0
    BY <1>1 DEF OnFile
  <2>2. handler'.pc \notin Before /\ handler'.pc # "clean"
    BY <1>2 DEF Before
  <2>3. \A k \in Keys : Pending(k)' => request'[k] # 0
    BY <1>4, <1>5, <1>6, <2>1 DEF OnFile, Pending
  <2>4. ASSUME NEW s \in Sweepers, sweep[s].key \in Ids, ~Pending(sweep[s].key), item[sweep[s].key].of # 0
        PROVE  ~Pending(sweep[s].key)' /\ item'[sweep[s].key].of # 0
    BY <1>4, <1>5, <1>6, <2>4 DEF Pending, Keys
  <2>5. QED
    BY <1>6, <2>2, <2>3, <2>4 DEF OnFile, Before
<1>9. Fresh'
  BY <1>5, <1>6 DEF Fresh
<1>10. ASSUME calm PROVE Undisturbed' /\ OneAnswer' /\ Answering' /\ InTurn' /\ Agreed'
  <2>1. Untouched /\ request[Key] # 0
    BY <1>1, <1>10, InHandFacts DEF InTurn, OnFile
  <2>2. status = "pending"
    BY <2>1 DEF Untouched, status
  <2>3. \A k \in Keys : ~Pending(k)
    BY <1>1, <1>10, PendingInHand, Phases
  <2>4. Undisturbed'
    BY <1>1, <1>2, <1>4, <1>5, <1>6, <1>10, <2>3 DEF Calm, Undisturbed, InHand, Pending, Away
  <2>5. \A u \in Users : users[u].pc # "idle" => users[u].key # Key
    BY <1>1, <1>10, AnswersInHand
  <2>6. OneAnswer'
    BY <1>6, <1>10 DEF Calm, OneAnswer
  <2>7. Answering'
    BY <1>4, <1>5, <1>6, <1>10, <2>5, Values DEF Calm, Answering, Answered, Pending
  <2>8. InTurn'
    <3>1. Shown'
      BY <1>2, <1>4, <1>5, <1>6, <2>1, <2>2 DEF Untouched, Shown, Pending
    <3>2. handler'.pc \in During
      BY <1>2 DEF During
    <3>3. QED
      BY <3>1, <3>2, Phases DEF InTurn
  <2>9. Agreed'
    BY <1>4, <1>5, <1>6, <1>10, <2>1, Types DEF Calm, Agreed, Untouched, Names, Asked, AskedType
  <2>10. QED
    BY <2>4, <2>6, <2>7, <2>8, <2>9
<1>11. QED
  BY <1>6, <1>7, <1>8, <1>9, <1>10 DEF Calm

\* Binding the request to its item, and a look for an answer that finds none.
LEMMA LooksKeep ==
  ASSUME Inv, BindLook \/ BindWrite \/ (BindRead /\ request[Key] # 0)
  PROVE  Shared'
<1>1. handler.pc \in During /\ handler.pc \notin Away
  BY DEF BindLook, BindRead, BindWrite, At, During, Away
<1>2. handler'.pc \in {"bind-read", "bind-write", "wait"} /\ handler'.of = handler.of
  <2>1. \E pc \in {"bind-read", "bind-write", "wait"} : Goto(pc)
    BY DEF BindLook, BindRead, BindWrite
  <2>2. QED
    BY <2>1, Going DEF Inv, HandlerPcs, Turns
<1>3. handler'.pc \in During /\ handler'.pc \in HandlerPcs \ Away
  BY <1>2 DEF During, HandlerPcs, Away
<1>4. /\ request'[Key] \in {request[Key], handler.of} /\ \A j \in Keys \ {Key} : request'[j] = request[j]
      /\ UNCHANGED <<response, item, sent>> /\ HandlerOnly
  BY <1>1, InHandFacts, Values DEF BindLook, BindRead, BindWrite, files
<1>5. Pending(Key) => request'[Key] # 0
  BY <1>1, <1>4, InHandFacts DEF Inv, Shared, OnFile
<1>6. calm => InTurn'
  <2> SUFFICES ASSUME calm PROVE InTurn'
    OBVIOUS
  <2>1. Shown
    BY <1>1, InHandFacts DEF InTurn
  <2>2. Shown'
    BY <1>1, <1>2, <1>4, <2>1, InHandFacts DEF Shown, HandlerOnly, Pending
  <2>3. QED
    BY <1>3, <2>2, Phases DEF InTurn
<1>7. QED
  BY <1>1, <1>2, <1>3, <1>4, <1>5, <1>6, Phases, InHandFacts, Onward DEF HandlerOnly

\* The response is found: it is what the user chose, and a form's item shows it.
LEMMA WaitKeeps ==
  ASSUME Inv, WaitCancelled \/ WaitPoll
  PROVE  Shared'
<1>1. handler.pc \in During /\ handler.pc \notin Away
  BY DEF WaitCancelled, WaitPoll, At, During, Away
<1>2. UNCHANGED files /\ UNCHANGED sent /\ HandlerOnly
  BY DEF WaitCancelled, WaitPoll
<1>3. /\ handler'.of = handler.of /\ handler'.pc \in {"wait", "poll", "decided", "take"}
      /\ calm => \/ handler'.pc \in {"wait", "poll"}
                 \/ /\ response[Key] # NoResponse /\ handler'.got = response[Key].says
                    /\ handler'.pc = (IF IsForm THEN "decided" ELSE "take")
  <2>1. handler \in Handlers
    BY <1>1, InHandFacts
  <2>2. calm => ~cancel
    BY DEF Inv, Shared, Calm, Undisturbed
  <2>3. CASE WaitCancelled
    BY <2>1, <2>2, <2>3 DEF WaitCancelled, Handlers
  <2>4. CASE WaitPoll
    BY <2>1, <2>4 DEF WaitPoll, Handlers
  <2>5. QED
    BY <2>3, <2>4
<1>4. handler'.pc \in HandlerPcs \ Away /\ handler'.pc \notin Before /\ handler'.pc # "clean"
  BY <1>3 DEF HandlerPcs, Away, Before
<1>5. Pending(Key) => request[Key] # 0
  BY <1>1, InHandFacts DEF Inv, Shared, OnFile
<1>6. calm => InTurn'
  <2> SUFFICES ASSUME calm PROVE InTurn'
    OBVIOUS
  <2>1. Shown
    BY <1>1, InHandFacts DEF InTurn
  <2>2. CASE handler'.pc \in {"wait", "poll"}
    <3>1. Shown'
      BY <1>1, <1>2, <1>3, <2>1, InHandFacts DEF Shown, HandlerOnly, Pending, files
    <3>2. handler'.pc \in During
      BY <2>2 DEF During
    <3>3. QED
      BY <3>1, <3>2, Phases DEF InTurn
  <2>3. CASE /\ response[Key] # NoResponse /\ handler'.got = response[Key].says
             /\ handler'.pc = (IF IsForm THEN "decided" ELSE "take")
    <3>1. handler'.pc \in After
      BY <2>3 DEF After
    <3>2. chosen[handler.of] = {handler'.got} /\ (IsForm => item[Key].status = handler'.got)
      BY <2>1, <2>3 DEF Shown
    <3>3. Pending(Key) \/ item[Key].status = handler'.got
      BY <2>1, <3>2 DEF Shown
    <3>4. handler'.pc \in {"decided", "take"} /\ (handler'.pc = "take" => ~IsForm)
      BY <2>3
    <3>5. Taken'
      BY <1>1, <1>2, <1>3, <2>1, <3>2, <3>3, <3>4, InHandFacts DEF Shown, Taken, HandlerOnly, Pending, files
    <3>6. QED
      BY <3>1, <3>5, Phases DEF InTurn
  <2>4. QED
    BY <1>3, <2>2, <2>3
<1>7. QED
  BY <1>1, <1>2, <1>3, <1>4, <1>5, <1>6, InHandFacts, Onward DEF HandlerOnly, files, Before

\* Steps with the outcome at hand.
LEMMA TakenGoes ==
  ASSUME Inv, HandlerOnly, UNCHANGED item, handler.pc \in After,
         NEW pc \in After \ {"take"}, Turns(pc, handler.got),
         \A j \in Keys \ {Key} : request'[j] = request[j] /\ response'[j] = response[j],
         request'[Key] \in {0, request[Key]}, response'[Key] \in {NoResponse, response[Key]},
         Pending(Key) => request'[Key] # 0, pc = "clean" => ~Pending(Key),
         \/ sent' = sent /\ (pc = "decided" => handler.pc = "take")
         \/ IsForm /\ pc = "settled" /\ Reply,
         pc \in {"clean-response", "send"} => handler.pc \in {"clean", "clean-response"},
         pc \in {"record", "send"} => ~IsForm \/ Pending(Key)
  PROVE  Shared'
<1>1. handler.pc \notin Away /\ pc \in HandlerPcs \ Away /\ pc \notin Before
  BY Phases
<1>2. handler'.pc = pc /\ handler'.of = handler.of /\ handler'.got = handler.got
  BY DEF Turns
<1>3. UNCHANGED <<asked, item, users, sweep, chosen, calm, cancel>>
  BY DEF HandlerOnly
<1>4. pc \notin {"look", "event"}
  BY <1>1 DEF Before
<1>5. calm => Taken
  BY <1>1, InHandFacts DEF InTurn
<1>6. \/ sent' = sent
      \/ /\ sent' = [sent EXCEPT ![handler.of] = handler.got]
         /\ calm => chosen[handler.of] = {handler.got} /\ item[Key].status = handler.got
  BY <1>5 DEF Taken, Reply
<1>7. calm => Taken'
  <2> SUFFICES ASSUME calm PROVE Taken'
    OBVIOUS
  <2>1. Taken /\ Key' = Key /\ IsForm' = IsForm /\ Key \in Keys /\ Pending(Key)' = Pending(Key)
    BY <1>1, <1>2, <1>3, <1>5, InHandFacts DEF Pending
  <2>2. (IsForm \/ pc \in {"clean", "clean-response", "send"}) => item[Key].status = handler.got
    BY <2>1 DEF Taken
  <2>3. ~IsForm \/ pc \in {"take", "decided"} => sent'[handler.of] = "none"
    BY <2>1 DEF Taken
  <2>4. pc \in {"record", "send"} => ~IsForm
    <3>1. IsForm => ~Pending(Key)
      BY <1>1, <2>1, InHandFacts, Values DEF Taken, Pending
    <3>2. QED
      BY <3>1
  <2>5. QED
    BY <1>2, <1>3, <2>1, <2>2, <2>3, <2>4 DEF Taken
<1>8. calm => InTurn'
  BY <1>2, <1>7, Phases DEF InTurn
<1>9. QED
  BY <1>1, <1>2, <1>3, <1>4, <1>6, <1>8, Onward

LEMMA OutcomeKeeps ==
  ASSUME Inv, TakeResponse \/ LookSettled \/ RemoveRequest \/ (SendForm /\ At("decided") /\ Goto("settled") /\ Reply)
  PROVE  Shared'
<1>1. handler.pc \in After /\ handler.pc \notin Away /\ HandlerOnly /\ UNCHANGED item
  BY DEF TakeResponse, LookSettled, RemoveRequest, SendForm, At, After, Away, files
<1>2. Key \in Keys /\ (Pending(Key) => request[Key] # 0)
  BY <1>1, InHandFacts DEF Inv, Shared, OnFile
<1>3. \A pc \in HandlerPcs : Goto(pc) => Turns(pc, handler.got)
  BY Going DEF Inv
<1>4. {"decided", "record", "clean", "clean-response", "settled"} \subseteq (After \ {"take"}) \cap HandlerPcs
  BY DEF After, HandlerPcs
<1>5. CASE TakeResponse
  <2>1. Turns("decided", handler.got) /\ handler.pc = "take"
    BY <1>3, <1>4, <1>5 DEF TakeResponse, At
  <2>2. response'[Key] = NoResponse /\ (\A j \in Keys \ {Key} : response'[j] = response[j])
        /\ UNCHANGED <<request, sent>>
    BY <1>2, <1>5, Values DEF TakeResponse
  <2>3. QED
    BY <1>1, <1>2, <1>4, <2>1, <2>2, TakenGoes
<1>6. CASE LookSettled
  <2>1. \/ Turns("record", handler.got) /\ Pending(Key)
        \/ Turns("clean", handler.got) /\ ~Pending(Key)
    BY <1>3, <1>4, <1>6 DEF LookSettled
  <2>2. UNCHANGED <<request, response, sent>>
    BY <1>6 DEF LookSettled, files
  <2>3. QED
    BY <1>1, <1>2, <1>4, <2>1, <2>2, TakenGoes
<1>7. CASE RemoveRequest
  <2>1. Turns("clean-response", handler.got) /\ handler.pc = "clean" /\ ~Pending(Key)
    BY <1>3, <1>4, <1>7 DEF RemoveRequest, At, Inv, Shared, OnFile
  <2>2. request'[Key] = 0 /\ (\A j \in Keys \ {Key} : request'[j] = request[j])
        /\ UNCHANGED <<response, sent>>
    BY <1>2, <1>7, Values DEF RemoveRequest
  <2>3. QED
    BY <1>1, <1>2, <1>4, <2>1, <2>2, TakenGoes
<1>8. CASE SendForm /\ At("decided") /\ Goto("settled") /\ Reply
  <2>1. Turns("settled", handler.got) /\ IsForm /\ UNCHANGED <<request, response>>
    BY <1>3, <1>4, <1>8 DEF SendForm, files
  <2>2. QED
    BY <1>1, <1>2, <1>4, <1>8, <2>1, TakenGoes
<1>9. QED
  BY <1>5, <1>6, <1>7, <1>8

\* A permission's item that the user's answer did not reach is written by the thread.
LEMMA RecordKeeps ==
  ASSUME Inv, Record
  PROVE  Shared'
<1>1. handler.pc \in After /\ handler.pc \notin Away /\ handler.pc = "record"
  BY DEF Record, At, After, Away
<1>2. handler'.pc = "clean" /\ handler'.of = handler.of /\ handler'.got = handler.got
  BY Going DEF Inv, Record, HandlerPcs, Turns
<1>3. Written(Key, handler.of, handler.got)
  BY <1>1, InHandFacts, InHandIsAsked, Patching, Constants DEF Inv, Record
<1>4. /\ handler.of \in Asked /\ handler.of # 0 /\ Key \in Keys /\ Key' = Key /\ Asked' = Asked
      /\ IsForm' = IsForm
  BY <1>1, <1>2, InHandFacts DEF Record, HandlerOnly, Asked
<1>5. UNCHANGED <<asked, request, response, sent, turn, cancel, users, sweep, chosen, calm>>
  BY DEF Record, HandlerOnly
<1>6. ~Pending(Key)' /\ \A k \in Keys : Pending(k)' => k # Key /\ Pending(k)
  BY <1>1, <1>3, <1>4, Values, InHandFacts DEF Written, Pending
<1> USE DEF Inv, Shared, Written
<1>7. Names'
  BY <1>3, <1>4, <1>5, <1>6 DEF Names, Known, Key
<1>8. OnFile'
  <2>1. handler'.pc \notin Before
    BY <1>2 DEF Before
  <2>2. \A k \in Keys : Pending(k)' => request'[k] # 0
    BY <1>5, <1>6 DEF OnFile
  <2>3. ASSUME NEW s \in Sweepers, sweep[s].key \in Ids, ~Pending(sweep[s].key), item[sweep[s].key].of # 0
        PROVE  ~Pending(sweep[s].key)' /\ item'[sweep[s].key].of # 0
    BY <1>3, <1>4, <1>5, <1>6, <2>3 DEF Keys
  <2>4. QED
    BY <1>4, <1>5, <1>6, <2>1, <2>2, <2>3 DEF OnFile, Before
<1>9. Fresh'
  BY <1>4, <1>5 DEF Fresh
<1>10. ASSUME calm PROVE Undisturbed' /\ OneAnswer' /\ Answering' /\ InTurn' /\ Agreed'
  <2>1. Taken /\ ~IsForm
    BY <1>1, <1>10, InHandFacts DEF InTurn, Taken
  <2>2. Undisturbed'
    BY <1>1, <1>2, <1>3, <1>5, <1>6, <1>10, PendingInHand DEF Calm, Undisturbed, Away
  <2>3. OneAnswer'
    BY <1>5, <1>10 DEF Calm, OneAnswer
  <2>4. Answering'
    BY <1>3, <1>4, <1>5, <1>6, <1>10, <2>1, Values DEF Calm, Answering, Answered, IsForm, Pending
  <2>5. InTurn'
    <3>1. Taken'
      BY <1>2, <1>3, <1>4, <1>5, <2>1 DEF Taken, Pending
    <3>2. handler'.pc \in After
      BY <1>2 DEF After
    <3>3. QED
      BY <3>1, <3>2, Phases DEF InTurn
  <2>6. Agreed'
    BY <1>3, <1>4, <1>5, <1>10, <2>1, Types DEF Calm, Agreed, Taken, Names, Asked, AskedType
  <2>7. QED
    BY <2>2, <2>3, <2>4, <2>5, <2>6
<1>11. QED
  BY <1>5, <1>7, <1>8, <1>9, <1>10 DEF Calm

\* The question is answered, or the prompt fails.
LEMMA LastStepsKeep ==
  ASSUME Inv, \/ RemoveResponse \/ SendPermission \/ (SendForm /\ SendFails)
              \/ (BindRead /\ request[Key] = 0)
  PROVE  Shared'
<1>1. handler.pc \in During \cup After /\ handler.pc \notin Away /\ HandlerOnly /\ UNCHANGED <<item, request>>
  BY DEF RemoveResponse, SendPermission, SendForm, BindRead, At, During, After, Away, files
<1>2. /\ Key \in Keys /\ (calm => InTurn) /\ handler.got \in Says
      /\ "pending" \notin Says /\ response \in [Keys -> Responses]
  BY <1>1, InHandFacts, Values
<1>3. Waiting.pc = "idle" /\ \A pc \in {"failed", "send"} : Goto(pc) => Turns(pc, handler.got)
  BY Nothing, Going DEF Inv, HandlerPcs
<1>4. CASE BindRead /\ request[Key] = 0
  <2>1. handler'.pc = "failed" /\ handler.pc \in During /\ UNCHANGED <<response, sent>>
    BY <1>3, <1>4 DEF BindRead, At, During, Turns, files
  <2>2. ~calm
    BY <1>2, <1>4, <2>1 DEF InTurn, Shown
  <2>3. QED
    BY <1>1, <2>1, <2>2, Done DEF HandlerOnly, Away
<1>5. CASE SendForm /\ SendFails
  <2>1. handler'.pc = "failed" /\ handler.pc \in After /\ IsForm /\ UNCHANGED <<response, sent>>
    BY <1>3, <1>5 DEF SendForm, SendFails, At, After, Turns, files
  <2>2. calm => ~Pending(Key)
    BY <1>2, <2>1 DEF InTurn, Taken, Pending
  <2>3. QED
    BY <1>1, <2>1, <2>2, Done DEF HandlerOnly, Away
<1>6. CASE SendPermission
  <2>1. handler.pc \in After /\ handler.pc = "send" /\ UNCHANGED <<response>>
    BY <1>6 DEF SendPermission, At, After, files
  <2>2. calm => chosen[handler.of] = {handler.got} /\ item[Key].status = handler.got /\ ~Pending(Key)
    BY <1>2, <2>1 DEF InTurn, Taken, Pending
  <2>3. handler'.pc \in Away /\ (sent' = sent \/ sent' = [sent EXCEPT ![handler.of] = handler.got])
    BY <1>3, <1>6 DEF SendPermission, SendFails, Reply, Turns, Away
  <2>4. QED
    BY <1>1, <2>1, <2>2, <2>3, Done DEF HandlerOnly
<1>7. CASE RemoveResponse
  <2>1. /\ handler.pc \in After /\ handler.pc = "clean-response" /\ UNCHANGED <<request, sent>>
        /\ response'[Key] = NoResponse /\ \A j \in Keys \ {Key} : response'[j] = response[j]
    BY <1>2, <1>7 DEF RemoveResponse, At, After
  <2>2. calm => ~Pending(Key) /\ item[Key].status = handler.got
    BY <1>2, <2>1 DEF InTurn, Taken, Pending
  <2>3. CASE IsForm
    BY <1>1, <1>3, <1>7, <2>1, <2>2, <2>3, Done DEF RemoveResponse, HandlerOnly, Away
  <2>4. CASE ~IsForm
    <3>1. Turns("send", handler.got)
      BY <1>3, <1>7, <2>4 DEF RemoveResponse
    <3>2. "send" \in After \ {"take"} /\ (Pending(Key) => request[Key] # 0)
      BY <1>2 DEF After, Inv, Shared, OnFile
    <3>3. QED
      BY <1>1, <2>1, <2>4, <3>1, <3>2, TakenGoes
  <2>5. QED
    BY <2>3, <2>4
<1>8. QED
  BY <1>4, <1>5, <1>6, <1>7

LEMMA HandleKeeps ==
  ASSUME Inv, Handle, ~TurnSwept
  PROVE  Shared'
<1>1. SendForm => (At("decided") /\ Goto("settled") /\ Reply) \/ SendFails
  BY DEF SendForm
<1>2. QED
  BY <1>1, WriteRequestKeeps, LookForCancelledKeeps, PersistEventKeeps, LooksKeep, WaitKeeps,
     OutcomeKeeps, RecordKeeps, LastStepsKeep DEF Handle

-----------------------------------------------------------------------------
(* The answers.                                                            *)

\* A question that is not asked yet has left nothing under its name.
LEMMA AskKeeps ==
  ASSUME Inv, NamedOnce, NEW k \in Keys, Ask(k)
  PROVE  Shared'
<1> DEFINE o == Len(asked) + 1
<1>1. /\ Len(asked') = o /\ o \in Requests /\ asked'[o] = k /\ \A i \in Asked : asked'[i] = asked[i]
      /\ Len(asked) \in Nat /\ handler.pc = "idle"
      /\ handler' # handler => handler'.pc = "file" /\ handler'.of = o /\ ~handler'.late
  BY AskTyped, Types DEF Inv, Asked, AskedType, Ask, At
<1>2. \A i \in Asked : asked[i] # k
  BY DEF Ask, NamedOnce, Asked
<1>3. o \notin Asked /\ Asked' = Asked \cup {o} /\ \A i, j : Known(i, j) => Known(i, j)'
  BY <1>1 DEF Asked, Known
<1> HIDE DEF o
<1>4. UNCHANGED <<request, response, item, users, sweep, chosen, calm, turn, cancel>>
  BY DEF Ask, files, fate
<1> USE DEF Inv, Shared
<1>5. \A j \in Keys : Pending(j)' = Pending(j)
  BY <1>4 DEF Pending
<1>6. Names'
  <2>1. \A i, j \in Asked' : asked'[i] = asked'[j] => i = j
    BY <1>1, <1>2, <1>3 DEF Names
  <2>2. QED
    BY <1>3, <1>4, <1>5, <2>1 DEF Names
<1>7. request[k] = 0 /\ item[k].of = 0 /\ response[k] = NoResponse
  BY <1>2 DEF Names, Known
<1>8. handler' # handler => Key' = k
  BY <1>1 DEF Key
<1>9. handler'.pc \in {"idle", "file"}
  BY <1>1
<1>10. OnFile'
  <2>1. handler'.pc \in Before => handler' # handler /\ handler'.pc = "file"
    BY <1>1, <1>9 DEF Before
  <2>2. handler'.pc \in Before => item'[Key'].of = 0
    BY <1>4, <1>7, <1>8, <2>1
  <2>3. handler'.pc \notin {"look", "event", "clean"}
    BY <1>9
  <2>4. QED
    BY <1>4, <1>5, <2>2, <2>3 DEF OnFile, Keys, Pending
<1>11. sent[o] = "none" /\ chosen[o] = {}
  BY <1>1, <1>3 DEF Fresh
<1>12. sent \in [Requests -> Says] /\ \A i \in Requests \ {o} : sent'[i] = sent[i]
  BY Types DEF FateType, Ask, o
<1>13. Fresh'
  BY <1>3, <1>4, <1>12 DEF Fresh
<1>14. ASSUME calm PROVE Undisturbed' /\ OneAnswer' /\ Answering' /\ InTurn' /\ Agreed'
  <2>1. \A j \in Keys : ~Pending(j)
    BY <1>1, <1>14, PendingInHand, Phases DEF Away
  <2>2. Undisturbed'
    BY <1>1, <1>4, <1>5, <1>14, <2>1 DEF Calm, Undisturbed
  <2>3. OneAnswer' /\ Answering'
    BY <1>4, <1>14 DEF Calm, OneAnswer, Answering, Answered, Pending
  <2>4. InTurn'
    <3>1. CASE handler' = handler
      BY <1>1, <3>1, Phases DEF InTurn, Away
    <3>2. CASE handler' # handler
      <4>1. sent' = sent
        BY <3>2 DEF Ask
      <4>2. Untouched'
        BY <1>1, <1>4, <1>7, <1>8, <1>11, <3>2, <4>1 DEF Untouched
      <4>3. handler'.pc \in Before
        BY <1>1, <3>2 DEF Before
      <4>4. QED
        BY <4>2, <4>3, Phases DEF InTurn
    <3>3. QED
      BY <3>1, <3>2
  <2>5. Agreed'
    <3>1. \A i \in Asked : i \in Requests /\ i # o
      BY <1>3, Values
    <3>2. \A i \in Asked' : i \in Asked \/ (i = o /\ item'[asked'[i]].of = 0)
      BY <1>1, <1>3, <1>4, <1>7
    <3>3. o # 0
      BY <1>1 DEF Requests
    <3>4. QED
      BY <1>1, <1>4, <1>12, <1>14, <3>1, <3>2, <3>3 DEF Calm, Agreed
  <2>6. QED
    BY <2>2, <2>3, <2>4, <2>5
<1>15. QED
  BY <1>4, <1>6, <1>10, <1>13, <1>14 DEF Calm

\* An answer is given to an open card.
LEMMA ClickKeeps ==
  ASSUME Inv, NEW u \in Users, NEW k \in Keys, NEW choice \in Choices, Click(u, k, choice)
  PROVE  Shared'
<1> DEFINE o == item[k].of
<1>1. \E pc \in {"resolve", "check"} : UserBecomes(u, pc, k, o, choice, 0)
  BY ClickTyped DEF Inv
<1>2. UNCHANGED <<asked, request, response, item, handler, turn, cancel, sweep, sent>>
  BY DEF Click, UserOnly, files
<1>3. users[u].pc = "idle" /\ Pending(k) /\ chosen' = [chosen EXCEPT ![o] = chosen[o] \cup {choice}]
      /\ (calm' => calm /\ chosen[o] = {})
  BY DEF Click
<1>4. o \in Asked /\ o \in Requests /\ o # 0 /\ Known(o, k) /\ asked[o] = k
  BY <1>3, Values DEF Inv, Shared, Names, Known
<1>5. Key' = Key /\ IsForm' = IsForm /\ Asked' = Asked /\ chosen \in [Requests -> SUBSET Choices]
  BY <1>2, Types DEF Key, IsForm, Asked, Inv, FateType
<1>6. \A j \in Requests \ {o} : chosen'[j] = chosen[j]
  BY <1>3, <1>5
<1>7. k \in Ids \/ users'[u].pc = "resolve"
  BY ClickTyped DEF Inv, Keys
<1> HIDE DEF o
<1> USE DEF Inv, Shared
<1>8. Names'
  BY <1>1, <1>2, <1>4, <1>5 DEF Names, Known, Pending, UserBecomes
<1>9. OnFile'
  BY <1>2, <1>5 DEF OnFile, Pending
<1>10. Fresh'
  BY <1>2, <1>4, <1>5, <1>6 DEF Fresh
<1>11. ASSUME calm' PROVE Undisturbed' /\ OneAnswer' /\ Answering' /\ InTurn' /\ Agreed'
  <2>1. calm /\ chosen[o] = {} /\ chosen'[o] = {choice}
    BY <1>3, <1>4, <1>5, <1>11
  <2>2. handler.pc \in During \cup After /\ handler.of = o /\ k = Key
    BY <1>3, <2>1, PendingInHand DEF o
  <2>3. Undisturbed'
    BY <1>2, <2>1 DEF Calm, Undisturbed, InHand, Pending
  <2>4. \A v \in Users : users[v].pc # "idle" => users[v].of # o /\ users[v].of \in Requests
    <3>1. ASSUME NEW v \in Users, users[v].pc # "idle" PROVE users[v].of \in Asked /\ users[v].of # o
      <4>1. users[v].of \in Asked
        BY <3>1 DEF Names, Known
      <4>2. chosen[users[v].of] = {users[v].says}
        BY <2>1, <3>1 DEF Calm, Answering, Answered
      <4>3. QED
        BY <2>1, <4>1, <4>2
    <3>2. QED
      BY <3>1, Values
  <2>5. OneAnswer'
    BY <1>1, <2>1, <2>4 DEF Calm, OneAnswer, UserBecomes
  <2>6. Answering'
    <3>1. ASSUME NEW v \in Users \ {u}, users'[v].pc # "idle" PROVE Answered(v)'
      BY <1>1, <1>2, <1>6, <2>1, <2>4, <3>1 DEF Calm, Answering, Answered, UserBecomes, Pending
    <3>2. Answered(u)'
      <4>1. /\ users'[u].pc \in {"resolve", "check"} /\ users'[u].key = k /\ users'[u].of = o
            /\ users'[u].says = choice
        BY <1>1 DEF UserBecomes
      <4>2. Pending(k)'
        BY <1>2, <1>3 DEF Pending
      <4>3. users'[u].pc = "check" => k \in Ids
        BY <1>7
      <4>4. QED
        BY <2>1, <4>1, <4>2, <4>3 DEF Answered, Pending
    <3>3. QED
      BY <3>1, <3>2 DEF Answering
  <2>7. InTurn'
    <3>1. handler.pc \notin After
      <4>1. handler.pc \in After => chosen[handler.of] = {handler.got}
        BY <2>1 DEF Calm, InTurn, Taken
      <4>2. QED
        BY <2>1, <2>2, <4>1
    <3>2. Shown
      BY <2>1, <2>2, <3>1 DEF Calm, InTurn
    <3>3. response[Key] = NoResponse
      BY <2>1, <2>2, <3>2 DEF Shown
    <3>4. Shown'
      BY <1>2, <1>3, <1>5, <2>2, <3>2, <3>3 DEF Shown, Pending
    <3>5. QED
      BY <1>2, <2>2, <3>1, <3>4, Phases DEF InTurn
  <2>8. Agreed'
    <3>1. \A i \in Asked : i \in Requests
      BY Values
    <3>2. o \in Asked => ~(sent[o] # "none" /\ item[asked[o]].of = o)
      BY <2>1 DEF Calm, Agreed
    <3>3. QED
      BY <1>2, <1>4, <1>5, <1>6, <2>1, <3>1, <3>2 DEF Calm, Agreed
  <2>9. QED
    BY <2>3, <2>5, <2>6, <2>7, <2>8
<1>12. QED
  BY <1>8, <1>9, <1>10, <1>11 DEF Calm

\* Where an answer goes next, with the question and the choice it was given.
UserMoves(u) ==
  /\ users' \in [Users -> Answers] /\ \A v \in Users \ {u} : users'[v] = users[v]
  /\ users'[u].pc # "idle" => /\ users'[u].key = users[u].key /\ users'[u].of = users[u].of
                              /\ users'[u].says = users[u].says
UserResponds(u) == response' = [response EXCEPT ![users[u].key] = [to |-> users[u].of, says |-> users[u].says]]

\* An answer that leaves the item be.
LEMMA AnswerGoes ==
  ASSUME Inv, NEW u \in Users, UserOnly, UNCHANGED <<item, request, chosen, calm>>,
         users[u].pc # "idle", UserMoves(u), UNCHANGED response \/ UserResponds(u),
         calm /\ users'[u].pc # "idle" => Answered(u)',
         calm => InTurn'
  PROVE  Shared'
<1>1. UNCHANGED <<asked, handler, turn, cancel, sweep, sent>> /\ Key' = Key /\ Asked' = Asked
  BY DEF UserOnly, Key, Asked
<1> USE DEF Inv, Shared, UserMoves
<1>2. Known(users[u].of, users[u].key) /\ users[u].key \in Keys
  BY Values DEF Names
<1>3. \A k \in Keys : response'[k] # NoResponse => Known(response'[k].to, k)
  BY <1>2, Values DEF Names, UserResponds
<1>4. Names'
  BY <1>1, <1>2, <1>3 DEF Names, Known, Pending
<1>5. OnFile'
  BY <1>1 DEF OnFile, Pending
<1>6. Fresh'
  BY <1>1 DEF Fresh
<1>7. ASSUME calm PROVE Undisturbed' /\ OneAnswer' /\ Answering' /\ InTurn' /\ Agreed'
  <2>1. Undisturbed'
    BY <1>1, <1>7 DEF Calm, Undisturbed, InHand, Pending
  <2>2. OneAnswer'
    BY <1>7 DEF Calm, OneAnswer
  <2>3. Answering'
    <3>1. ASSUME NEW v \in Users \ {u}, users'[v].pc # "idle" PROVE Answered(v)'
      BY <1>7, <3>1 DEF Calm, Answering, Answered, Pending
    <3>2. QED
      BY <1>7, <3>1 DEF Answering
  <2>4. Agreed'
    BY <1>1, <1>7 DEF Calm, Agreed
  <2>5. QED
    BY <1>7, <2>1, <2>2, <2>3, <2>4
<1>8. QED
  BY <1>4, <1>5, <1>6, <1>7 DEF Calm

LEMMA InTurnStays ==
  ASSUME InTurn, UNCHANGED <<asked, item, request, response, handler, chosen, sent>>
  PROVE  InTurn'
  BY DEF InTurn, Untouched, Shown, Taken, Key, IsForm, Pending

LEMMA UserChecksKeeps ==
  ASSUME Inv, NEW u \in Users, UserChecks(u)
  PROVE  Shared'
<1>1. UNCHANGED <<request, response, item, chosen, calm>> /\ UserOnly /\ users[u].pc = "check"
  BY DEF UserChecks, files
<1>2. UserPcBecomes(u, "write") \/ UserEnds(u)
  BY UserGoing DEF Inv, UserChecks, UserPcs
<1>3. UserMoves(u) /\ users'[u].pc \in {"write", "idle"}
  BY <1>2 DEF UserPcBecomes, UserBecomes, UserEnds, UserMoves
<1>4. calm /\ users'[u].pc # "idle" => Answered(u)'
  <2> SUFFICES ASSUME calm, users'[u].pc # "idle" PROVE Answered(u)'
    OBVIOUS
  <2>1. users[u].key \in Ids /\ chosen[users[u].of] = {users[u].says}
    BY <1>1 DEF Inv, Shared, Calm, Answering, Answered
  <2>2. users[u].key \notin Forms
    BY <2>1, KeysApart
  <2>3. QED
    BY <1>1, <1>3, <2>1, <2>2 DEF Answered, UserMoves
<1>5. calm => InTurn'
  BY <1>1, InTurnStays DEF Inv, Shared, Calm, UserOnly
<1>6. QED
  BY <1>1, <1>3, <1>4, <1>5, AnswerGoes

LEMMA UserResolvesKeeps ==
  ASSUME Inv, NEW u \in Users, UserResolves(u)
  PROVE  Shared'
<1> DEFINE k == users[u].key
           found == IF k \in Forms THEN request[k] # 0 /\ item[k] # NoItem ELSE Pending(k)
<1>1. UNCHANGED <<request, response, item, chosen, calm>> /\ UserOnly /\ users[u].pc = "resolve"
  BY DEF UserResolves, files
<1>2. users' = [users EXCEPT ![u] = IF found THEN [@ EXCEPT !.pc = "settle", !.revision = item[k].revision]
                                    ELSE IF k \in Forms THEN [@ EXCEPT !.pc = "write"]
                                    ELSE NoAnswer]
  BY DEF UserResolves
<1>3. k \in Keys /\ item[k].revision \in Nat
  BY Values DEF Items
<1>4. Pending(k) => request[k] # 0 /\ item[k] # NoItem
  BY <1>3 DEF Pending, NoItem, Inv, Shared, OnFile
<1>5. Pending(k) => found
  BY <1>4
<1> HIDE DEF found
<1>6. \/ found /\ UserBecomes(u, "settle", k, users[u].of, users[u].says, item[k].revision)
      \/ ~found /\ k \in Forms /\ UserPcBecomes(u, "write")
      \/ ~found /\ UserEnds(u)
  <2>1. CASE found
    BY <1>2, <1>3, <2>1, UserGoing DEF Inv, UserPcs
  <2>2. CASE ~found /\ k \in Forms
    <3>1. UserGoes(u, "write")
      BY <1>2, <2>2 DEF UserGoes
    <3>2. QED
      BY <2>2, <3>1, UserGoing DEF Inv, UserPcs
  <2>3. CASE ~found /\ k \notin Forms
    <3>1. UserDone(u)
      BY <1>2, <2>3 DEF UserDone
    <3>2. QED
      BY <2>3, <3>1, UserGoing DEF Inv
  <2>4. QED
    BY <2>1, <2>2, <2>3
<1>7. UserMoves(u)
  BY <1>6 DEF UserPcBecomes, UserBecomes, UserEnds, UserMoves
<1>8. calm /\ users'[u].pc # "idle" => Answered(u)'
  <2> SUFFICES ASSUME calm, users'[u].pc # "idle" PROVE Answered(u)'
    OBVIOUS
  <2>1. chosen[users[u].of] = {users[u].says} /\ (k \in Forms => Pending(k))
    BY <1>1 DEF Inv, Shared, Calm, Answering, Answered
  <2>2. users'[u].pc = "settle" /\ users'[u].revision = item[k].revision
    BY <1>5, <1>6, <2>1 DEF UserBecomes, UserEnds
  <2>3. QED
    BY <1>1, <1>7, <2>1, <2>2 DEF Answered, UserMoves, Pending
<1>9. calm => InTurn'
  BY <1>1, InTurnStays DEF Inv, Shared, Calm, UserOnly
<1>10. QED
  BY <1>1, <1>7, <1>8, <1>9, AnswerGoes

LEMMA UserWritesKeeps ==
  ASSUME Inv, NEW u \in Users, UserWrites(u)
  PROVE  Shared'
<1>1. UNCHANGED <<request, item, chosen, calm>> /\ UserOnly /\ users[u].pc = "write" /\ UserResponds(u)
  BY DEF UserWrites, UserResponds
<1>2. users[u].key \in Keys /\ (users[u].key \in Ids \/ users[u].key \in Forms)
  BY Values DEF Keys
<1>3. \/ users[u].key \in Forms /\ UserEnds(u)
      \/ users[u].key \notin Forms /\ UserPcBecomes(u, "resolve")
  BY UserGoing DEF Inv, UserWrites, UserPcs
<1>4. UserMoves(u)
  BY <1>3 DEF UserPcBecomes, UserBecomes, UserEnds, UserMoves
<1>5. calm /\ users'[u].pc # "idle" => Answered(u)'
  <2> SUFFICES ASSUME calm, users'[u].pc # "idle" PROVE Answered(u)'
    OBVIOUS
  <2>1. chosen[users[u].of] = {users[u].says}
    BY <1>1 DEF Inv, Shared, Calm, Answering, Answered
  <2>2. users'[u].pc = "resolve" /\ users[u].key \notin Forms
    BY <1>3 DEF UserPcBecomes, UserBecomes, UserEnds
  <2>3. QED
    BY <1>1, <1>4, <2>1, <2>2 DEF Answered, UserMoves
<1>6. calm => InTurn'
  <2> SUFFICES ASSUME calm PROVE InTurn'
    OBVIOUS
  <2>1. UNCHANGED <<asked, handler, sent>> /\ Key' = Key /\ IsForm' = IsForm
    BY <1>1 DEF UserOnly, Key, IsForm
  <2>2. InTurn
    BY DEF Inv, Shared, Calm
  <2>3. CASE handler.pc \in Away
    BY <2>1, <2>3, Phases DEF InTurn
  <2>4. CASE handler.pc \notin Away
    <3>1. Key \in Keys
      BY <2>4, InHandFacts
    <3>2. response \in [Keys -> Responses]
      BY Values
    <3>3. CASE users[u].key # Key
      <4>1. response'[Key] = response[Key]
        BY <1>1, <1>2, <3>1, <3>2, <3>3 DEF UserResponds
      <4>2. QED
        BY <1>1, <2>1, <2>2, <4>1 DEF InTurn, Untouched, Shown, Taken, Pending
    <3>4. CASE users[u].key = Key
      <4>1. users[u].of = handler.of /\ handler.pc \notin Before /\ chosen[handler.of] = {users[u].says}
        BY <1>1, <2>4, <3>4, AnswersInHand DEF Inv, Shared, Calm, Answering, Answered
      <4>2. IsForm => item[Key].status = users[u].says
        BY <1>1, <3>4 DEF Inv, Shared, Calm, Answering, Answered, IsForm
      <4>3. response'[Key].says = users[u].says
        BY <1>1, <3>1, <3>2, <3>4 DEF UserResponds
      <4>4. Shown => Shown'
        BY <1>1, <2>1, <4>1, <4>2, <4>3 DEF Shown, Pending
      <4>5. Taken => Taken'
        BY <1>1, <2>1 DEF Taken, Pending
      <4>6. QED
        BY <2>1, <2>2, <4>1, <4>4, <4>5 DEF InTurn
    <3>5. QED
      BY <3>3, <3>4
  <2>5. QED
    BY <2>3, <2>4
<1>7. QED
  BY <1>1, <1>4, <1>5, <1>6, AnswerGoes

\* The item of an open question is settled with the user's choice.
LEMMA UserSettlesKeeps ==
  ASSUME Inv, NEW u \in Users, UserSettles(u)
  PROVE  Shared'
<1> DEFINE k == users[u].key
           says == users[u].says
<1>1. UNCHANGED <<request, response, chosen, calm>> /\ UserOnly /\ users[u].pc = "settle"
      /\ Settle(k, users[u].revision, says)
  BY DEF UserSettles
<1>2. k \in Keys /\ says \in Says /\ says # "pending" /\ users[u].revision \in Nat
  BY Values
<1>3. \/ k \in Forms /\ UserPcBecomes(u, "write")
      \/ k \notin Forms /\ UserEnds(u)
  BY UserGoing DEF Inv, UserSettles, UserPcs
<1>4. UserMoves(u)
  BY <1>3 DEF UserPcBecomes, UserBecomes, UserEnds, UserMoves
<1>5. Unchanged(k, users[u].revision) => Written(k, item[k].of, says)
  BY <1>1, <1>2, SettlingItem DEF Inv
<1>6. ~Unchanged(k, users[u].revision) => UNCHANGED item
  BY <1>1, <1>2, SettlingItem DEF Inv
<1>7. UNCHANGED <<asked, handler, turn, cancel, sweep, sent>> /\ Key' = Key /\ IsForm' = IsForm /\ Asked' = Asked
  BY <1>1 DEF UserOnly, Key, IsForm, Asked
<1>8. \A j \in Keys : item'[j].of = item[j].of /\ (Pending(j)' => Pending(j))
                      /\ (item'[j] # item[j] => j = k /\ Pending(k) /\ item'[k].status = says)
  BY <1>2, <1>5, <1>6 DEF Written, Unchanged, Pending
<1> HIDE DEF k, says
<1> USE DEF Inv, Shared
<1>9. Known(users[u].of, k)
  BY <1>1 DEF Names, k
<1>10. Names'
  BY <1>1, <1>4, <1>7, <1>8, <1>9 DEF Names, Known, UserMoves, k
<1>11. OnFile'
  <2>1. handler.pc \notin Away => Key \in Keys
    BY InHandFacts
  <2>2. ASSUME NEW s \in Sweepers, sweep[s].key \in Ids, ~Pending(sweep[s].key), item[sweep[s].key].of # 0
        PROVE  ~Pending(sweep[s].key)' /\ item'[sweep[s].key].of # 0
    BY <1>7, <1>8, <2>2 DEF Keys
  <2>3. \A j \in Keys : Pending(j)' => request'[j] # 0
    BY <1>1, <1>8 DEF OnFile
  <2>4. handler.pc \in Before => item'[Key].of = 0
    BY <1>8, <2>1, Phases DEF OnFile
  <2>5. handler.pc = "clean" => ~Pending(Key)'
    BY <1>7, <1>8, <2>1 DEF OnFile, Away
  <2>6. QED
    BY <1>1, <1>7, <2>2, <2>3, <2>4, <2>5 DEF OnFile
<1>12. Fresh'
  BY <1>1, <1>7 DEF Fresh
<1>13. ASSUME calm PROVE Undisturbed' /\ OneAnswer' /\ Answering' /\ InTurn' /\ Agreed'
  <2>1. chosen[users[u].of] = {says} /\ (k \in Forms => Unchanged(k, users[u].revision))
    BY <1>1, <1>13 DEF Calm, Answering, Answered, Unchanged, k, says
  <2>2. Pending(k) => handler.pc \in During \cup After /\ handler.of = users[u].of /\ k = Key
    BY <1>1, <1>2, <1>13, PendingInHand, AnswersInHand, Phases DEF k
  <2>3. Undisturbed'
    BY <1>7, <1>8, <1>13 DEF Calm, Undisturbed, InHand
  <2>4. OneAnswer'
    BY <1>1, <1>4, <1>13 DEF Calm, OneAnswer, UserMoves
  <2>5. Answering'
    <3>1. ASSUME NEW v \in Users \ {u}, users'[v].pc # "idle" PROVE Answered(v)'
      <4>1. users[v].pc # "idle" /\ users'[v] = users[v] /\ users[v].key # k /\ users[v].key \in Keys
        BY <1>1, <1>4, <1>13, <3>1, AnswersInHand, Values DEF UserMoves, k
      <4>2. item'[users[v].key] = item[users[v].key]
        BY <1>8, <4>1
      <4>3. Answered(v)
        BY <1>13, <4>1 DEF Calm, Answering
      <4>4. QED
        BY <1>1, <4>1, <4>2, <4>3 DEF Answered, Pending
    <3>2. ASSUME users'[u].pc # "idle" PROVE Answered(u)'
      <4>1. users'[u].pc = "write" /\ k \in Forms /\ users'[u].key = k /\ users'[u].says = says
            /\ users'[u].of = users[u].of
        BY <1>3, <3>2 DEF UserEnds, UserPcBecomes, UserBecomes, k, says
      <4>2. item'[k].status = says
        BY <1>5, <2>1, <4>1 DEF Written
      <4>3. QED
        BY <1>1, <2>1, <4>1, <4>2 DEF Answered
    <3>3. QED
      BY <3>1, <3>2 DEF Answering
  <2>6. InTurn'
    <3>1. InTurn
      BY <1>13 DEF Calm
    <3>2. CASE UNCHANGED item
      BY <1>1, <1>7, <3>1, <3>2, InTurnStays
    <3>3. CASE Unchanged(k, users[u].revision)
      <4>1. handler.pc \in During \cup After /\ handler.of = users[u].of /\ k = Key
        BY <2>2, <3>3 DEF Unchanged
      <4>2. item'[Key].of = item[Key].of /\ item'[Key].status = says /\ chosen[handler.of] = {says}
        BY <1>5, <2>1, <3>3, <4>1 DEF Written
      <4>3. Pending(Key)
        BY <3>3, <4>1 DEF Unchanged
      <4>4. handler.pc \in During => Shown'
        <5>1. ASSUME Shown PROVE Shown'
          <6>1. response[Key] # NoResponse => response[Key].says = says
            BY <4>2, <5>1 DEF Shown
          <6>2. QED
            BY <1>1, <1>7, <4>2, <5>1, <6>1 DEF Shown
        <5>2. QED
          BY <3>1, <5>1 DEF InTurn
      <4>5. handler.pc \in After => Taken'
        <5>1. ASSUME Taken PROVE Taken'
          <6>1. handler.got = says
            BY <4>2, <5>1 DEF Taken
          <6>2. QED
            BY <1>1, <1>7, <4>2, <5>1, <6>1 DEF Taken
        <5>2. QED
          BY <3>1, <5>1 DEF InTurn
      <4>6. QED
        BY <1>7, <4>1, <4>4, <4>5, Phases DEF InTurn
    <3>4. QED
      BY <1>6, <3>2, <3>3
  <2>7. Agreed'
    <3>1. ASSUME NEW o \in Asked, sent[o] # "none", item'[asked[o]].of = o
          PROVE  chosen[o] = {sent[o]} /\ item'[asked[o]].status = sent[o]
      <4>1. asked[o] \in Keys /\ item[asked[o]].of = o
        BY <1>8, <3>1, Types DEF AskedType, Asked
      <4>2. chosen[o] = {sent[o]} /\ item[asked[o]].status = sent[o]
        BY <1>13, <3>1, <4>1 DEF Calm, Agreed
      <4>3. sent[o] \in Says /\ "pending" \notin Says
        BY <3>1, Types, Values DEF FateType
      <4>4. ~Pending(asked[o])
        BY <4>2, <4>3 DEF Pending
      <4>5. item'[asked[o]] = item[asked[o]]
        BY <1>8, <4>1, <4>4
      <4>6. QED
        BY <4>2, <4>5
    <3>2. QED
      BY <1>1, <1>7, <3>1 DEF Agreed
  <2>8. QED
    BY <2>3, <2>4, <2>5, <2>6, <2>7
<1>14. QED
  BY <1>1, <1>10, <1>11, <1>12, <1>13 DEF Calm

-----------------------------------------------------------------------------
(* The sweeps, the prompt and what interrupts it.                          *)

\* In a calm session a sweep runs only for the prompt that failed, and finds nothing open.
LEMMA SweepCalm ==
  ASSUME Inv, SweepOnly, NEW s \in Sweepers, sweep[s].pc # "idle",
         \A r \in Sweepers \ {s} : sweep'[r] = sweep[r],
         (\A k \in Keys : ~Pending(k)) => UNCHANGED item
  PROVE  Fresh' /\ Calm'
<1> USE DEF Inv, Shared
<1>1. UNCHANGED <<asked, handler, turn, cancel, users, sent, chosen, calm>> /\ Asked' = Asked
  BY DEF SweepOnly, fate, Asked
<1>2. Fresh'
  BY <1>1 DEF Fresh
<1>3. ASSUME calm PROVE Undisturbed' /\ OneAnswer' /\ Answering' /\ InTurn' /\ Agreed'
  <2>1. s = "runtime" /\ handler.pc = "sweeping"
    BY <1>3 DEF Calm, Undisturbed, Sweepers
  <2>2. \A k \in Keys : ~Pending(k)
    BY <1>3, <2>1, PendingInHand, Phases DEF Away
  <2>3. Undisturbed'
    BY <1>1, <1>3, <2>1, <2>2 DEF Calm, Undisturbed, Pending, Sweepers
  <2>4. OneAnswer' /\ Answering'
    BY <1>1, <1>3, <2>2 DEF Calm, OneAnswer, Answering, Answered, Pending
  <2>5. InTurn'
    BY <1>1, <2>1, Phases DEF InTurn, Away
  <2>6. Agreed'
    BY <1>1, <1>3, <2>2 DEF Calm, Agreed
  <2>7. QED
    BY <2>3, <2>4, <2>5, <2>6
<1>4. QED
  BY <1>1, <1>2, <1>3 DEF Calm

\* What the files hold for the questions, when no new item appears.
LEMMA FilesStay ==
  ASSUME Inv, UNCHANGED <<asked, handler>>,
         \A k \in Keys : item'[k].of = item[k].of /\ (Pending(k)' => Pending(k) /\ request'[k] # 0),
         handler.pc \in {"look", "event"} => request'[Key] # 0
  PROVE  /\ \A k \in Keys : item'[k].of # 0 => Known(item[k].of, k)'
         /\ \A k \in Keys : Pending(k)' => request'[k] # 0 /\ item'[k].of # 0
         /\ handler'.pc \in Before => item'[Key'].of = 0
         /\ handler'.pc \in {"look", "event"} => request'[Key'] # 0
         /\ handler'.pc = "clean" => ~Pending(Key)'
<1>1. Key' = Key /\ (handler.pc \notin Away => Key \in Keys)
  BY InHandFacts DEF Key
<1>2. handler.pc = "clean" \/ handler.pc \in Before => handler.pc \notin Away
  BY Phases DEF Away
<1>3. \A k \in Keys : item'[k].of # 0 => Known(item[k].of, k)'
  BY DEF Inv, Shared, Names, Known, Asked
<1>4. \A k \in Keys : Pending(k)' => request'[k] # 0 /\ item'[k].of # 0
  BY DEF Inv, Shared, Names
<1>5. handler'.pc \in Before => item'[Key].of = 0
  BY <1>1, <1>2 DEF Inv, Shared, OnFile
<1>6. handler'.pc = "clean" => ~Pending(Key)'
  BY <1>1, <1>2 DEF Inv, Shared, OnFile
<1>7. QED
  BY <1>1, <1>3, <1>4, <1>5, <1>6

\* Where a sweep is that has settled its question.
Settled(s) == sweep[s].pc = "remove" \/ (sweep[s].pc = "write" /\ sweep[s].key \in Ids) =>
                sweep[s].key \in Ids /\ ~Pending(sweep[s].key) /\ item[sweep[s].key].of # 0

\* What was settled for another sweep stays so.
LEMMA SettledStays ==
  ASSUME Inv, NEW r \in Sweepers, sweep'[r] = sweep[r],
         \A k \in Keys : item'[k].of = item[k].of /\ (Pending(k)' => Pending(k))
  PROVE  Settled(r)'
<1>1. Settled(r)
  BY DEF Inv, Shared, OnFile, Settled
<1>2. sweep[r].key \in Keys
  BY Values
<1>3. QED
  BY <1>1, <1>2 DEF Settled

LEMMA SweepSettlesKeeps ==
  ASSUME Inv, NEW s \in Sweepers, SweepSettles(s)
  PROVE  Shared'
<1> DEFINE k == sweep[s].key
           says == sweep[s].says
<1>1. /\ UNCHANGED <<request, response>> /\ SweepOnly /\ sweep[s].pc = "settle"
      /\ Settle(k, sweep[s].revision, says)
  BY DEF SweepSettles
<1>2. k \in Keys /\ says \in Says /\ says # "pending" /\ sweep[s].revision \in Nat
  BY Values
<1>3. \/ SweepLooks(s, {"visit"})
      \/ SweepPcBecomes(s, "write") /\ (k \in Forms \/ Unchanged(k, sweep[s].revision))
  BY SweepGoing DEF Inv, SweepSettles
<1>4. Unchanged(k, sweep[s].revision) => Written(k, item[k].of, says)
  BY <1>1, <1>2, SettlingItem DEF Inv
<1>5. ~Unchanged(k, sweep[s].revision) => UNCHANGED item
  BY <1>1, <1>2, SettlingItem DEF Inv
<1>6. UNCHANGED <<asked, handler, users>> /\ Key' = Key /\ Asked' = Asked
  BY <1>1 DEF SweepOnly, Key, Asked
<1>7. \A j \in Keys : item'[j].of = item[j].of /\ (Pending(j)' => Pending(j))
  BY <1>2, <1>4, <1>5 DEF Written, Unchanged, Pending
<1>8. (\A j \in Keys : ~Pending(j)) => UNCHANGED item
  BY <1>2, <1>5 DEF Unchanged
<1>9. \A r \in Sweepers \ {s} : sweep'[r] = sweep[r]
  BY <1>3 DEF SweepLooks, SweepPcBecomes, SweepBecomes
<1>10. Known(sweep[s].of, k)
  BY <1>1 DEF Inv, Shared, Names
<1>11. sweep'[s].pc = "visit" \/ (sweep'[s].pc = "write" /\ sweep'[s].key = k /\ sweep'[s].of = sweep[s].of)
  BY <1>3 DEF SweepLooks, SweepPcBecomes, SweepBecomes
<1>12. Settled(s)'
  <2>1. CASE sweep'[s].pc = "write" /\ k \in Ids
    <3>1. Unchanged(k, sweep[s].revision)
      BY <1>3, <2>1, KeysApart DEF SweepLooks
    <3>2. item'[k].status # "pending" /\ item'[k].of # 0
      BY <1>2, <1>4, <3>1 DEF Written, Unchanged, Inv, Shared, Names
    <3>3. QED
      BY <1>11, <2>1, <3>2 DEF Settled, Pending
  <2>2. CASE ~(sweep'[s].pc = "write" /\ k \in Ids)
    BY <1>11, <2>2 DEF Settled
  <2>3. QED
    BY <2>1, <2>2
<1>13. \A r \in Sweepers : Settled(r)'
  BY <1>7, <1>9, <1>12, SettledStays
<1>14. Names'
  BY <1>1, <1>6, <1>7, <1>9, <1>10, <1>11 DEF Inv, Shared, Names, Known, k
<1>15. OnFile'
  BY <1>1, <1>6, <1>7, <1>13, FilesStay DEF Inv, Shared, OnFile, Settled
<1>16. QED
  BY <1>1, <1>8, <1>9, <1>14, <1>15, SweepCalm DEF Shared

LEMMA SweepWritesKeeps ==
  ASSUME Inv, NEW s \in Sweepers, SweepWrites(s)
  PROVE  Shared'
<1> DEFINE k == sweep[s].key
<1>1. /\ UNCHANGED <<request, item>> /\ SweepOnly /\ sweep[s].pc = "write"
      /\ response' = [response EXCEPT ![k] = [to |-> sweep[s].of, says |-> sweep[s].says]]
  BY DEF SweepWrites
<1>2. k \in Keys /\ (k \in Ids \/ k \in Forms)
  BY Values DEF Keys
<1>3. \/ SweepLooks(s, {"visit"})
      \/ SweepPcBecomes(s, "remove") /\ k \notin Forms
  BY SweepGoing DEF Inv, SweepWrites
<1>4. UNCHANGED <<asked, handler, users>> /\ Key' = Key /\ Asked' = Asked
  BY <1>1 DEF SweepOnly, Key, Asked
<1>5. \A j \in Keys : item'[j].of = item[j].of /\ Pending(j)' = Pending(j)
  BY <1>1 DEF Pending
<1>6. \A r \in Sweepers \ {s} : sweep'[r] = sweep[r]
  BY <1>3 DEF SweepLooks, SweepPcBecomes, SweepBecomes
<1>7. Known(sweep[s].of, k)
  BY <1>1 DEF Inv, Shared, Names
<1>8. sweep'[s].pc = "visit" \/ (sweep'[s].pc = "remove" /\ sweep'[s].key = k /\ sweep'[s].of = sweep[s].of)
  BY <1>3 DEF SweepLooks, SweepPcBecomes, SweepBecomes
<1>9. Settled(s)'
  <2>1. CASE sweep'[s].pc = "visit"
    BY <2>1 DEF Settled
  <2>2. CASE sweep'[s].pc # "visit"
    <3>1. k \in Ids /\ ~Pending(k) /\ item[k].of # 0
      BY <1>1, <1>2, <1>3, <2>2 DEF Inv, Shared, OnFile, SweepLooks
    <3>2. QED
      BY <1>1, <1>8, <2>2, <3>1 DEF Settled, Pending
  <2>3. QED
    BY <2>1, <2>2
<1>10. \A r \in Sweepers : Settled(r)'
  BY <1>5, <1>6, <1>9, SettledStays
<1>11. \A j \in Keys : response'[j] # NoResponse => Known(response'[j].to, j)
  BY <1>1, <1>2, <1>7, Values DEF Inv, Shared, Names
<1>12. Names'
  BY <1>1, <1>4, <1>5, <1>6, <1>7, <1>8, <1>11 DEF Inv, Shared, Names, Known, k
<1>13. OnFile'
  BY <1>1, <1>4, <1>5, <1>10, FilesStay DEF Inv, Shared, OnFile, Settled
<1>14. QED
  BY <1>1, <1>6, <1>12, <1>13, SweepCalm DEF Shared

\* The request that a sweep removes is settled: no item is left without its request.
LEMMA SweepRemovesKeeps ==
  ASSUME Inv, NEW s \in Sweepers, SweepRemoves(s)
  PROVE  Shared'
<1> DEFINE k == sweep[s].key
<1>1. /\ UNCHANGED <<response, item>> /\ SweepOnly /\ sweep[s].pc = "remove"
      /\ request' = [request EXCEPT ![k] = 0] /\ SweepLooks(s, {"visit"})
  BY SweepGoing DEF Inv, SweepRemoves
<1>2. k \in Keys /\ ~Pending(k) /\ item[k].of # 0 /\ request \in [Keys -> Numbers]
  BY <1>1, Values DEF Inv, Shared, OnFile
<1>3. UNCHANGED <<asked, handler, users>> /\ Key' = Key /\ Asked' = Asked
  BY <1>1 DEF SweepOnly, Key, Asked
<1>4. \A j \in Keys : /\ item'[j].of = item[j].of /\ Pending(j)' = Pending(j)
                      /\ request'[j] = (IF j = k THEN 0 ELSE request[j])
  BY <1>1, <1>2 DEF Pending
<1>5. (\A r \in Sweepers \ {s} : sweep'[r] = sweep[r]) /\ sweep'[s].pc = "visit"
  BY <1>1 DEF SweepLooks
<1>6. \A r \in Sweepers : Settled(r)'
  BY <1>4, <1>5, SettledStays DEF Settled
<1> HIDE DEF k
<1>7. handler.pc \in Before => Key \in Keys /\ Key # k
  BY <1>2, InHandFacts, Phases
<1>8. handler.pc \in {"look", "event"} => request'[Key] # 0
  BY <1>4, <1>7 DEF Before, Inv, Shared, OnFile
<1>9. \A j \in Keys : Pending(j)' => Pending(j) /\ request'[j] # 0
  BY <1>2, <1>4 DEF Inv, Shared, OnFile
<1>10. Names'
  BY <1>1, <1>3, <1>4, <1>5 DEF Inv, Shared, Names, Known
<1>11. OnFile'
  BY <1>3, <1>4, <1>6, <1>8, <1>9, FilesStay DEF OnFile, Settled
<1>12. QED
  BY <1>1, <1>5, <1>10, <1>11, SweepCalm DEF Shared

LEMMA VisitKeeps ==
  ASSUME Inv, NEW s \in Sweepers, SweepEnds(s) \/ \E k \in Keys : Visit(s, k)
  PROVE  Shared'
<1>1. UNCHANGED <<request, response, item>> /\ SweepOnly /\ sweep[s].pc = "visit"
  BY DEF SweepEnds, Visit, files
<1>2. UNCHANGED <<asked, handler, users>> /\ Key' = Key /\ Asked' = Asked
  BY <1>1 DEF SweepOnly, Key, Asked
<1>3. \A r \in Sweepers \ {s} : sweep'[r] = sweep[r]
  BY Visiting, SweepGoing DEF Inv, SweepEnds, SweepLooks, SweepBecomes
<1>4. \/ sweep'[s].pc \in {"visit", "idle"}
      \/ /\ sweep'[s].pc = "settle" /\ sweep'[s].key \in Keys /\ sweep'[s].of = request[sweep'[s].key]
         /\ request[sweep'[s].key] # 0
  BY Visiting, SweepGoing DEF Inv, SweepEnds, SweepLooks, SweepBecomes, Open
<1>5. \A j \in Keys : item'[j].of = item[j].of /\ Pending(j)' = Pending(j)
  BY <1>1 DEF Pending
<1>6. \A r \in Sweepers : Settled(r)'
  BY <1>3, <1>4, <1>5, SettledStays DEF Settled
<1>7. Names'
  BY <1>1, <1>2, <1>3, <1>4, <1>5 DEF Inv, Shared, Names, Known
<1>8. OnFile'
  BY <1>1, <1>2, <1>5, <1>6, FilesStay DEF Inv, Shared, OnFile, Settled
<1>9. QED
  BY <1>1, <1>3, <1>7, <1>8, SweepCalm DEF Shared

\* A prompt begins and ends, and a sweep begins: nothing is written.
LEMMA TurnKeeps ==
  ASSUME Inv, BeginTurn \/ EndTurn \/ TurnSwept
  PROVE  Shared'
<1>1. UNCHANGED <<asked, request, response, item, users, sent, chosen, calm>> /\ Asked' = Asked
      /\ cancel' \in {cancel, FALSE}
  BY DEF BeginTurn, EndTurn, TurnSwept, files, fate, Asked
<1>2. \/ UNCHANGED <<handler, sweep>>
      \/ /\ handler.pc \in Away /\ handler'.pc = "sweeping"
         /\ SweepLooks("runtime", {"visit"})
      \/ /\ handler.pc = "sweeping" /\ handler'.pc = "idle" /\ sweep["runtime"].pc = "idle"
         /\ UNCHANGED sweep
  <2>1. "runtime" \in Sweepers /\ "sweeping" \in HandlerPcs
    BY DEF Sweepers, HandlerPcs
  <2>2. QED
    BY <2>1, Going, SweepGoing, Nothing DEF Inv, BeginTurn, EndTurn, TurnSwept, Turns, At, Away
<1>3. handler' # handler => handler.pc \in Away /\ handler'.pc \in Away
  BY <1>2 DEF Away
<1>4. \A r \in Sweepers : sweep'[r] = sweep[r] \/ sweep'[r].pc = "visit"
  BY <1>2 DEF SweepLooks
<1>5. \A j \in Keys : item'[j].of = item[j].of /\ Pending(j)' = Pending(j)
  BY <1>1 DEF Pending
<1>6. \A r \in Sweepers : Settled(r)'
  BY <1>4, <1>5, SettledStays DEF Settled
<1>7. Names'
  BY <1>1, <1>4, <1>5 DEF Inv, Shared, Names, Known
<1>8. OnFile'
  <2>1. CASE handler' = handler
    <3>1. Key' = Key
      BY <1>1, <2>1 DEF Key
    <3>2. QED
      BY <1>1, <1>5, <1>6, <2>1, <3>1 DEF Inv, Shared, OnFile, Settled, Pending
  <2>2. CASE handler' # handler
    BY <1>1, <1>3, <1>5, <1>6, <2>2, Phases DEF Inv, Shared, OnFile, Settled, Away
  <2>3. QED
    BY <2>1, <2>2
<1>9. Fresh'
  BY <1>1 DEF Inv, Shared, Fresh
<1>10. ASSUME calm PROVE Undisturbed' /\ OneAnswer' /\ Answering' /\ InTurn' /\ Agreed'
  <2>1. handler.pc \in Away => \A k \in Keys : ~Pending(k)
    BY <1>10, PendingInHand, Phases
  <2>2. \A k \in Keys : Pending(k)' => InHand(item[k].of)'
    BY <1>1, <1>3, <1>5, <1>10, <2>1 DEF Inv, Shared, Calm, Undisturbed, InHand
  <2>3. ~cancel' /\ sweep'["control"].pc = "idle"
    <3>1. ~cancel /\ sweep["control"].pc = "idle"
      BY <1>10 DEF Inv, Shared, Calm, Undisturbed
    <3>2. ~cancel'
      BY <1>1, <3>1
    <3>3. sweep'["control"] = sweep["control"]
      BY <1>2 DEF SweepLooks, Sweepers
    <3>4. QED
      BY <3>1, <3>2, <3>3
  <2>4. sweep'["runtime"].pc # "idle" => handler'.pc = "sweeping"
    BY <1>2, <1>10 DEF Inv, Shared, Calm, Undisturbed
  <2>5. Undisturbed'
    BY <2>2, <2>3, <2>4 DEF Undisturbed
  <2>6. OneAnswer' /\ Answering'
    BY <1>1, <1>10 DEF Inv, Shared, Calm, OneAnswer, Answering, Answered, Pending
  <2>7. InTurn'
    BY <1>1, <1>3, <1>10, InTurnStays, Phases DEF Inv, Shared, Calm, InTurn
  <2>8. Agreed'
    BY <1>1, <1>10 DEF Inv, Shared, Calm, Agreed
  <2>9. QED
    BY <2>5, <2>6, <2>7, <2>8
<1>11. QED
  BY <1>1, <1>7, <1>8, <1>9, <1>10 DEF Calm, Shared

LEMMA InterruptionKeeps ==
  ASSUME Inv, Stop \/ Close \/ Crash
  PROVE  Shared'
<1>1. UNCHANGED <<asked, request, response, item, sent, chosen>> /\ ~calm' /\ Asked' = Asked
  BY DEF Stop, Close, Crash, Interruption, files, Asked
<1>2. handler' = handler \/ handler'.pc = "idle"
  BY Nothing DEF Stop, Close, Crash
<1>3. \A u \in Users : users'[u] = users[u] \/ users'[u].pc = "idle"
  BY Nothing DEF Stop, Close, Crash
<1>4. \A r \in Sweepers : sweep'[r] = sweep[r] \/ sweep'[r].pc \in {"idle", "visit"}
  <2>1. "control" \in Sweepers
    BY DEF Sweepers
  <2>2. QED
    BY <2>1, SweepGoing, Nothing DEF Inv, Stop, Close, Crash, SweepLooks
<1>5. \A j \in Keys : item'[j].of = item[j].of /\ Pending(j)' = Pending(j)
  BY <1>1 DEF Pending
<1>6. \A r \in Sweepers : Settled(r)'
  BY <1>4, <1>5, SettledStays DEF Settled
<1>7. Names'
  BY <1>1, <1>3, <1>4, <1>5 DEF Inv, Shared, Names, Known
<1>8. OnFile'
  <2>1. handler' = handler => Key' = Key
    BY <1>1 DEF Key
  <2>2. QED
    BY <1>1, <1>2, <1>5, <1>6, <2>1 DEF Inv, Shared, OnFile, Settled, Pending, Before
<1>9. QED
  BY <1>1, <1>7, <1>8 DEF Inv, Shared, Fresh, Calm

-----------------------------------------------------------------------------
LEMMA InitInv == Init => Inv
<1> SUFFICES ASSUME Init PROVE Shared
  BY InitTyped DEF Inv
<1>1. Asked = {}
  BY DEF Init, Asked
<1>2. \A k \in Keys : ~Pending(k) /\ item[k].of = 0 /\ request[k] = 0 /\ response[k] = NoResponse
  BY DEF Init, Pending, NoItem
<1>3. handler.pc = "idle" /\ \A u \in Users : users[u].pc = "idle"
  BY Nothing DEF Init
<1>4. \A s \in Sweepers : sweep[s].pc = "idle"
  BY Nothing DEF Init
<1>5. Names
  BY <1>1, <1>2, <1>3, <1>4 DEF Names
<1>6. OnFile
  BY <1>2, <1>3, <1>4 DEF OnFile, Before
<1>7. Fresh
  BY DEF Init, Fresh
<1>8. Undisturbed
  BY <1>2, <1>4 DEF Init, Undisturbed, Sweepers
<1>9. InTurn
  BY <1>3, Phases DEF InTurn, Away
<1>10. QED
  BY <1>1, <1>3, <1>5, <1>6, <1>7, <1>8, <1>9 DEF Shared, Calm, OneAnswer, Answering, Agreed

LEMMA NextInv == NamedOnce /\ Inv /\ [Next]_vars => Inv'
<1> SUFFICES ASSUME NamedOnce, Inv, [Next]_vars PROVE Shared'
  BY NextTyped DEF Inv
<1>1. CASE UNCHANGED vars
  BY <1>1 DEF vars, Inv, Shared, Names, Known, Asked, OnFile, Fresh, Calm, Undisturbed, OneAnswer,
     Answering, Answered, InTurn, Untouched, Shown, Taken, Agreed, Key, IsForm, Pending, InHand
<1>2. ASSUME NEW k \in Keys, Ask(k) PROVE Shared'
  BY <1>2, AskKeeps
<1>3. CASE Handle
  BY <1>3, HandleKeeps, TurnKeeps
<1>4. CASE BeginTurn \/ EndTurn \/ Stop \/ Close \/ Crash
  BY <1>4, TurnKeeps, InterruptionKeeps
<1>5. ASSUME NEW u \in Users, (\E k \in Keys, c \in Choices : Click(u, k, c)) \/ Answer(u) PROVE Shared'
  BY <1>5, ClickKeeps, UserChecksKeeps, UserResolvesKeeps, UserSettlesKeeps, UserWritesKeeps DEF Answer
<1>6. ASSUME NEW s \in Sweepers, Settling(s) PROVE Shared'
  BY <1>6, VisitKeeps, SweepSettlesKeeps, SweepWritesKeeps, SweepRemovesKeeps DEF Settling
<1>7. QED
  BY <1>1, <1>2, <1>3, <1>4, <1>5, <1>6 DEF Next

LEMMA Invariance == ASSUME NamedOnce PROVE Spec => []Inv
  BY NamedOnce, InitInv, NextInv, PTL DEF Spec

\* A card that is open can still be settled, at every step of the thread, the answers and the
\* sweeps and after a crash between any two of them: its request file is there for the next
\* sweep, or the thread is still on it.  The names of the agent are given once.
THEOREM PendingIsNeverLost == ASSUME NamedOnce PROVE Spec => []PendingIsOwned
<1>1. Inv => PendingIsOwned
  BY DEF Inv, Shared, OnFile, PendingIsOwned
<1>2. QED
  BY <1>1, Invariance, PTL

\* In a session that nothing interrupts the agent is told what the user chose for this very
\* question, and the timeline shows the same.  The names of the agent are given once.
THEOREM CalmAgreement == ASSUME NamedOnce PROVE Spec => []CalmAnswersAgree
<1>1. Inv => CalmAnswersAgree
  BY DEF Inv, Shared, Calm, Agreed, Asked, CalmAnswersAgree
<1>2. QED
  BY <1>1, Invariance, PTL
=============================================================================
