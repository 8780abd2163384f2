------------------------ MODULE ConnectionPoolProofs ------------------------
(***************************************************************************)
(* What ConnectionPool guarantees for every number of attempts, sessions,  *)
(* connections, prompts and faults, and in every environment.              *)
(***************************************************************************)
EXTENDS ConnectionPool, TLAPS

(* The inductive invariant, by parts.                                      *)

Past == {"acquire", "reuse", "alias", "restore", "restoring", "route", "bind",
         "transfer", "aliases", "ready", "mark", "send", "prompting", "release", "drop"}
Connected == Past \cup {"init", "initializing", "evict", "evicted", "retry",
                        "shutdown", "unroute", "unbind"}
States == {"unborn", "open", "draining", "closed"}
Inits == {"no", "going", "done", "failed"}
Causes == {"none", "death", "stale", "init", "idle", "close"}
Conns == [state : States, init : Inits, config : {0, 1}, cause : Causes]
Threads == [pc : ThreadPcs, no : Routes, use : Gens, got : Gens, seen : Gens, tries : {0, 1},
            config : {0, 1}, lost : BOOLEAN, route : Routes]

Typed == ConnType /\ ThreadType /\ TableType /\ WorkType /\ ActorType

\* connections are born one after the other, and nobody knows of a later one
Born ==
  /\ \A g \in Generations : g > born => conn[g] = Unborn
  /\ \A g \in Generations : g <= born => conn[g].state # "unborn"
  /\ pool <= born /\ pruner.victim <= born /\ closer.gen <= born
  /\ \A a \in Attempts : thread[a].use <= born /\ thread[a].got <= born /\ thread[a].seen <= born

\* one attempt at a time replaces the connection of the pool, which is empty meanwhile
Gate ==
  /\ \A a, b \in gate : a = b
  /\ \A a \in Attempts : thread[a].pc \in {"remove", "replace", "spawn", "insert"} => a \in gate
  /\ \A a \in Attempts : thread[a].pc \in {"replace", "spawn", "insert"} => pool = NoOne

\* a connection taken out of the pool is held while, and only while, it is dealt with
Places ==
  /\ \A a \in Attempts :
       /\ thread[a].got # NoOne <=> thread[a].pc = "insert"
       /\ thread[a].pc \in {"borrow", "replace", "evicted"} => thread[a].seen # NoOne
       /\ thread[a].pc \in Connected => thread[a].use # NoOne
  /\ pruner.victim # NoOne <=> pruner.pc = "shutdown"
  /\ closer.gen # NoOne <=> closer.pc \notin {"idle", "take"}

\* one attempt asks a connection to initialize, and only a failed one is evicted
Handshake ==
  /\ \A a \in Attempts : At(a, "initializing") => Conn(a).init = "going"
  /\ \A a, b \in Attempts :
       At(a, "initializing") /\ At(b, "initializing") /\ thread[a].use = thread[b].use => a = b
  /\ \A a \in Attempts : At(a, "evict") => Conn(a).init = "failed"
  /\ \A a \in Attempts : At(a, "evicted") => conn[thread[a].seen].init = "failed"

\* what the pruner chose or ended is not in the pool, where it could be borrowed
Ended ==
  /\ RightlyEnded
  /\ \A g \in Generations : pruner.victim = g \/ conn[g].cause = "idle" => pool # g

\* the connection that is closed takes no prompt anymore
Drained ==
  /\ closer.gen # NoOne => conn[closer.gen].state \in {"draining", "closed"}
  /\ DrainIsComplete

Shared == Born /\ Gate /\ Places /\ Handshake /\ ThreadStates /\ Ended /\ NoStray /\ Drained
Inv == Typed /\ Shared

-----------------------------------------------------------------------------
(* Constants, and the records the actions make.                            *)

LEMMA Constants == MaxConnections \in Nat /\ MaxPrompts \in Nat /\ MaxFaults \in Nat
  BY BoundsAssumption

LEMMA Zero == NoOne = 0 /\ 0 \in Gens /\ 0 \in Routes /\ 0 \notin Generations
  BY Constants DEF Gens, Routes, NoOne, Generations

LEMMA Numbers == Gens \subseteq Nat /\ Generations \subseteq Gens /\ Gens = Generations \cup {0}
  BY Constants DEF Gens, Generations

LEMMA Types ==
  /\ ConnType <=> conn \in [Generations -> Conns]
  /\ ThreadType <=> thread \in [Attempts -> Threads]
  BY DEF ConnType, ThreadType, Conns, Threads, States, Inits, Causes

LEMMA TypesNext ==
  /\ ConnType' <=> conn' \in [Generations -> Conns]
  /\ ThreadType' <=> thread' \in [Attempts -> Threads]
  BY DEF ConnType, ThreadType, Conns, Threads, States, Inits, Causes

LEMMA Values ==
  /\ Unbound \in [gen : Gens, route : Routes]
  /\ Detached \in [gen : Gens, route : Routes, active : BOOLEAN]
  BY Zero DEF Unbound, Detached

\* What a thread may be turned into, and what its fields are then.
LEMMA ThreadRecords ==
  ASSUME NEW t \in Threads, NEW pc \in ThreadPcs
  PROVE  /\ Idle \in Threads /\ [t EXCEPT !.pc = pc] \in Threads
         /\ \A g \in Gens : /\ [t EXCEPT !.pc = pc, !.seen = g] \in Threads
                            /\ [t EXCEPT !.pc = pc, !.got = g] \in Threads
         /\ \A r \in Routes : [t EXCEPT !.pc = pc, !.route = r] \in Threads
         /\ \A b \in BOOLEAN : [t EXCEPT !.pc = pc, !.lost = b] \in Threads
         /\ [t EXCEPT !.pc = pc, !.tries = 1] \in Threads
<1>1. Idle \in Threads
  BY Zero DEF Threads, Idle, ThreadPcs
<1>2. QED
  BY <1>1 DEF Threads

LEMMA NewThread ==
  ASSUME NEW no \in Routes, NEW c \in {0, 1}
  PROVE  [Idle EXCEPT !.pc = "look", !.no = no, !.config = c] \in Threads
<1>1. [Idle EXCEPT !.pc = "look"] \in Threads
  BY Zero DEF Threads, Idle, ThreadPcs
<1>2. \A u \in Threads : [u EXCEPT !.no = no, !.config = c] \in Threads
  BY DEF Threads
<1>3. [Idle EXCEPT !.pc = "look", !.no = no, !.config = c]
        = [[Idle EXCEPT !.pc = "look"] EXCEPT !.no = no, !.config = c]
  OBVIOUS
<1>4. QED
  BY <1>1, <1>2, <1>3

LEMMA ObtainedThread ==
  ASSUME NEW t \in Threads, NEW g \in Gens
  PROVE  /\ Obtained(t, g) \in Threads /\ Obtained(t, g).pc = "init" /\ Obtained(t, g).use = g
         /\ Obtained(t, g).got = NoOne /\ Obtained(t, g).seen = NoOne
<1>1. [t EXCEPT !.pc = "init", !.use = g] \in Threads
  BY DEF Threads, ThreadPcs
<1>2. \A u \in Threads : [u EXCEPT !.got = 0, !.seen = 0] \in Threads
  BY Zero DEF Threads
<1>3. Obtained(t, g) = [[t EXCEPT !.pc = "init", !.use = g] EXCEPT !.got = 0, !.seen = 0]
  BY Zero DEF Obtained
<1>4. Obtained(t, g) \in Threads
  BY <1>1, <1>2, <1>3
<1>5. QED
  BY <1>4 DEF Obtained, Threads

\* A step of one thread: where it goes and which connections it holds then.
Becomes(a, pc, use, got, seen) ==
  /\ thread' \in [Attempts -> Threads]
  /\ thread'[a].pc = pc /\ thread'[a].use = use /\ thread'[a].got = got /\ thread'[a].seen = seen
  /\ \A b \in Attempts \ {a} : thread'[b] = thread[b]
Goes(a, pc) == Becomes(a, pc, thread[a].use, thread[a].got, thread[a].seen)

LEMMA Becoming ==
  ASSUME Typed, NEW a \in Attempts, NEW t \in Threads, thread' = [thread EXCEPT ![a] = t]
  PROVE  Becomes(a, t.pc, t.use, t.got, t.seen)
  BY Types DEF Becomes, Typed

LEMMA Going ==
  ASSUME Typed, NEW a \in Attempts, NEW pc \in ThreadPcs, Go(a, pc)
  PROVE  Goes(a, pc)
<1>1. thread[a] \in Threads
  BY Types DEF Typed
<1>2. [thread[a] EXCEPT !.pc = pc] \in Threads
  BY <1>1, ThreadRecords
<1>3. thread' = [thread EXCEPT ![a] = [thread[a] EXCEPT !.pc = pc]]
  BY DEF Go
<1> DEFINE t == [thread[a] EXCEPT !.pc = pc]
<1>4. t.pc = pc /\ t.use = thread[a].use /\ t.got = thread[a].got /\ t.seen = thread[a].seen
  BY <1>1 DEF Threads
<1>5. QED
  BY <1>2, <1>3, <1>4, Becoming DEF Goes

LEMMA GoingIdle ==
  ASSUME Typed, NEW a \in Attempts, thread' = [thread EXCEPT ![a] = Idle]
  PROVE  Becomes(a, "idle", NoOne, NoOne, NoOne)
<1>1. Idle \in Threads
  BY Zero DEF Threads, Idle, ThreadPcs
<1>2. Idle.pc = "idle" /\ Idle.use = NoOne /\ Idle.got = NoOne /\ Idle.seen = NoOne
  BY DEF Idle
<1>3. QED
  BY <1>1, <1>2, Becoming

\* The end of a connection: its initialization stays what it was, and the first cause counts.
LEMMA Closing ==
  ASSUME Typed, NEW g \in Generations, NEW cause \in Causes, CloseConnection(g, cause)
  PROVE  /\ conn' \in [Generations -> Conns] /\ route' \in [Generations -> [Sessions -> Routes]]
         /\ conn'[g].state = "closed" /\ conn'[g].init = conn[g].init
         /\ conn'[g].cause \in {conn[g].cause, cause}
         /\ \A h \in Generations \ {g} : conn'[h] = conn[h]
<1>1. conn[g] \in Conns
  BY Types DEF Typed
<1> DEFINE c == [conn[g] EXCEPT !.state = "closed", !.cause = IF Closed(g) THEN @ ELSE cause]
<1>2. c \in Conns /\ c.state = "closed" /\ c.init = conn[g].init /\ c.cause \in {conn[g].cause, cause}
  BY <1>1 DEF Conns, States
<1>3. conn' = [conn EXCEPT ![g] = c]
  BY DEF CloseConnection
<1>4. route' \in [Generations -> [Sessions -> Routes]]
  BY Zero DEF CloseConnection, Typed, TableType
<1>5. QED
  BY <1>2, <1>3, <1>4, Types DEF Typed

\* The outcome of a handshake leaves the rest of the connection alone.
LEMMA Initializing ==
  ASSUME Typed, NEW g \in Generations, NEW init \in Inits, Initialized(g, init)
  PROVE  /\ conn' \in [Generations -> Conns] /\ conn'[g].init = init
         /\ \A h \in Generations : conn'[h].state = conn[h].state /\ conn'[h].cause = conn[h].cause
         /\ \A h \in Generations \ {g} : conn'[h] = conn[h]
<1>1. conn[g] \in Conns
  BY Types DEF Typed
<1> DEFINE c == [conn[g] EXCEPT !.init = init]
<1>2. c \in Conns /\ c.init = init /\ c.state = conn[g].state /\ c.cause = conn[g].cause
  BY <1>1 DEF Conns
<1>3. conn' = [conn EXCEPT ![g] = c]
  BY DEF Initialized
<1>4. QED
  BY <1>2, <1>3, Types DEF Typed
\* What a thread is at, it has.
LEMMA Holding ==
  ASSUME Inv, NEW a \in Attempts
  PROVE  /\ thread[a] \in Threads
         /\ thread[a].use \in Gens /\ thread[a].got \in Gens /\ thread[a].seen \in Gens
         /\ thread[a].pc \in Connected => thread[a].use \in Generations
         /\ thread[a].pc = "insert" => thread[a].got \in Generations
         /\ thread[a].pc \in {"borrow", "replace", "evicted"} => thread[a].seen \in Generations
         /\ Past \subseteq Connected /\ {"init", "initializing", "evict", "evicted", "retry"} \subseteq Connected
<1>1. thread[a] \in Threads
  BY Types DEF Inv, Typed
<1>2. thread[a].use \in Gens /\ thread[a].got \in Gens /\ thread[a].seen \in Gens
  BY <1>1 DEF Threads
<1>3. QED
  BY <1>1, <1>2, Numbers, Zero DEF Inv, Shared, Places, Connected

\* Ending a connection that was born leaves the others as they are, every handshake with
\* its outcome, and nothing open that nobody attends to.
LEMMA Ending ==
  ASSUME Inv, NEW g \in Generations, NEW cause \in Causes, CloseConnection(g, cause), g <= born
  PROVE  /\ conn' \in [Generations -> Conns] /\ route' \in [Generations -> [Sessions -> Routes]]
         /\ \A h \in Generations : conn'[h].init = conn[h].init /\ (h # g => conn'[h] = conn[h])
         /\ conn'[g].state = "closed" /\ conn'[g].cause \in {conn[g].cause, cause}
         /\ \A h \in Generations : h > born => conn'[h] = Unborn
         /\ \A h \in Generations : h <= born => conn'[h].state # "unborn"
         /\ \A h \in Generations : conn'[h].state \in {"open", "draining"} => h # g /\ Attended(h)
         /\ closer.gen # NoOne => conn'[closer.gen].state \in {"draining", "closed"}
<1> USE DEF Inv, Shared
<1>1. /\ conn' \in [Generations -> Conns] /\ route' \in [Generations -> [Sessions -> Routes]]
      /\ \A h \in Generations : conn'[h].init = conn[h].init /\ (h # g => conn'[h] = conn[h])
      /\ conn'[g].state = "closed" /\ conn'[g].cause \in {conn[g].cause, cause}
  BY Closing
<1>2. born \in Nat /\ g \in Nat /\ ~ (g > born)
  BY Numbers DEF Typed, TableType
<1>3. \A h \in Generations : h > born => conn'[h] = Unborn
  BY <1>1, <1>2 DEF Born
<1>4. \A h \in Generations : h <= born => conn'[h].state # "unborn"
  BY <1>1 DEF Born
<1>5. \A h \in Generations : conn'[h].state \in {"open", "draining"} => h # g /\ Attended(h)
  BY <1>1 DEF NoStray
<1>6. closer.gen # NoOne => conn'[closer.gen].state \in {"draining", "closed"}
  BY <1>1, Zero, Numbers DEF Drained, Typed, ActorType
<1>7. QED
  BY <1>1, <1>3, <1>4, <1>5, <1>6

-----------------------------------------------------------------------------
(* Steps that leave the connections and their holders be.                  *)

\* Steps on the tables of sessions alone.
LEMMA Aloof ==
  ASSUME Shared, UNCHANGED <<conn, born, pool, gate, thread, pruner, closer>>
  PROVE  Shared'
  BY DEF Shared, Born, Gate, Places, Handshake, ThreadStates, Ended, RightlyEnded, InUse,
         NoStray, Attended, Drained, DrainIsComplete, At, Conn

\* A thread goes on with the connection it has; it is past the handshake only if it was
\* before, and sends its prompt only while the connection is open.
LEMMA Proceeding ==
  ASSUME Inv, NEW a \in Attempts, UNCHANGED <<conn, born, pool, gate, pruner, closer>>,
         thread[a].pc \in Past \cup {"init", "retry", "shutdown", "unroute", "unbind"},
         NEW pc \in Past \cup {"look", "shutdown", "unroute", "unbind"}, Goes(a, pc),
         pc \in Past => thread[a].pc \in Past,
         pc = "prompting" => conn[thread[a].use].state = "open"
  PROVE  Shared'
<1> USE DEF Inv, Shared, Goes, Becomes, Past
<1>1. Born'
  BY DEF Born
<1>2. Gate'
  BY DEF Gate
<1>3. Places'
  BY DEF Places, Connected
<1>4. Handshake'
  BY DEF Handshake, At, Conn
<1>5. ThreadStates'
  BY DEF ThreadStates, Conn
<1>6. Ended'
  BY DEF Ended, RightlyEnded, InUse
<1>7. NoStray'
  BY DEF NoStray, Attended
<1>8. Drained'
  <2>1. closer.gen # NoOne /\ pc = "prompting" => thread[a].use # closer.gen
    BY DEF Drained
  <2>2. ASSUME NEW e \in closer.seen, closer.pc \in {"sessions", "forget", "shutdown"}, ~closer.cut,
               e.gen = closer.gen, thread'[e.of].use = closer.gen
        PROVE  thread'[e.of].pc # "prompting"
    <3>1. e.of \in Attempts /\ closer.gen # NoOne
      BY <2>2 DEF Typed, ActorType, Places
    <3>2. CASE e.of = a
      BY <2>1, <2>2, <3>1, <3>2
    <3>3. CASE e.of # a
      BY <2>2, <3>1, <3>3 DEF Drained, DrainIsComplete, At
    <3>4. QED
      BY <3>2, <3>3
  <2>3. QED
    BY <2>2 DEF Drained, DrainIsComplete, At
<1>9. QED
  BY <1>1, <1>2, <1>3, <1>4, <1>5, <1>6, <1>7, <1>8

\* A thread ends its prompt, and leaves the gate if it fails there.
LEMMA Leaving ==
  ASSUME Inv, NEW a \in Attempts, UNCHANGED <<conn, born, pool, pruner, closer>>,
         gate' \in {gate, gate \ {a}},
         thread[a].pc \in Past \cup {"spawn", "retry", "unbind"},
         Becomes(a, "idle", NoOne, NoOne, NoOne)
  PROVE  Shared'
<1> USE DEF Inv, Shared, Becomes, Past
<1>1. Born'
  BY Zero, Constants DEF Born, Typed, TableType, Gens
<1>2. Gate'
  BY DEF Gate
<1>3. Places'
  BY DEF Places, Connected
<1>4. Handshake'
  BY DEF Handshake, At, Conn
<1>5. ThreadStates'
  BY DEF ThreadStates, Conn
<1>6. Ended'
  BY Zero DEF Ended, RightlyEnded, InUse
<1>7. NoStray'
  BY Zero DEF NoStray, Attended, Places
<1>8. Drained'
  BY DEF Drained, DrainIsComplete, At, Typed, ActorType
<1>9. QED
  BY <1>1, <1>2, <1>3, <1>4, <1>5, <1>6, <1>7, <1>8
-----------------------------------------------------------------------------
(* A prompt obtains its connection.                                        *)

LEMMA BeginKeeps == ASSUME Inv, NEW a \in Attempts, Begin(a) PROVE Inv'
<1> USE DEF Inv
<1> DEFINE t == [Idle EXCEPT !.pc = "look", !.no = begun + 1, !.config = config]
<1>1. begun + 1 \in Routes /\ config \in {0, 1}
  BY Constants DEF Begin, Typed, ActorType, Routes
<1>2. t \in Threads
  BY <1>1, NewThread
<1>3. t.pc = "look" /\ t.use = NoOne /\ t.got = NoOne /\ t.seen = NoOne
  BY DEF Idle
<1>4. thread' = [thread EXCEPT ![a] = t]
  BY DEF Begin
<1>5. Becomes(a, "look", NoOne, NoOne, NoOne)
  <2> HIDE DEF t
  <2> QED
    BY <1>2, <1>3, <1>4, Becoming
<1>6. Typed'
  BY <1>1, <1>5, Types, TypesNext DEF Begin, Becomes, Typed, TableType, WorkType, ActorType, tables
<1>7. UNCHANGED <<conn, born, pool, gate, pruner, closer>> /\ thread[a].pc = "idle"
  BY DEF Begin, At
<1> USE DEF Shared, Becomes
<1>8. Born'
  BY <1>5, <1>7, Zero, Constants DEF Born, Typed, TableType, Gens
<1>9. Gate'
  BY <1>5, <1>7 DEF Gate
<1>10. Places'
  BY <1>5, <1>7 DEF Places, Connected, Past
<1>11. Handshake' /\ ThreadStates'
  BY <1>5, <1>7 DEF Handshake, ThreadStates, At, Conn
<1>12. Ended'
  BY <1>5, <1>7, Zero DEF Ended, RightlyEnded, InUse
<1>13. NoStray'
  BY <1>5, <1>7, Zero DEF NoStray, Attended, Places
<1>14. Drained'
  BY <1>5, <1>7 DEF Drained, DrainIsComplete, At, Typed, ActorType
<1>15. QED
  BY <1>6, <1>8, <1>9, <1>10, <1>11, <1>12, <1>13, <1>14

LEMMA LookKeeps == ASSUME Inv, NEW a \in Attempts, Look(a) PROVE Inv'
<1> USE DEF Inv
<1>1. thread[a] \in Threads /\ pool \in Gens
  BY Types DEF Typed, TableType
<1>2. \/ pool # NoOne /\ Becomes(a, "borrow", thread[a].use, thread[a].got, pool)
      \/ a \notin gate /\ Goes(a, "gate")
      \/ a \in gate /\ Goes(a, "remove")
  <2>1. CASE thread' = [thread EXCEPT ![a].pc = "borrow", ![a].seen = pool] /\ pool # NoOne
    <3> DEFINE t == [thread[a] EXCEPT !.pc = "borrow", !.seen = pool]
    <3>1. t \in Threads /\ t.pc = "borrow" /\ t.use = thread[a].use /\ t.got = thread[a].got /\ t.seen = pool
      BY <1>1 DEF Threads, ThreadPcs
    <3>2. thread' = [thread EXCEPT ![a] = t]
      BY <2>1
    <3>3. QED
      BY <2>1, <3>1, <3>2, Becoming
  <2>2. CASE Missed(a)
    BY <2>2, Going DEF Missed, ThreadPcs
  <2>3. QED
    BY <2>1, <2>2 DEF Look
<1>3. UNCHANGED <<conn, born, pool, gate, pruner, closer>> /\ thread[a].pc = "look"
  BY DEF Look, At, PoolOnly
<1>4. Typed'
  BY <1>2, <1>3, Types, TypesNext DEF Look, PoolOnly, Goes, Becomes, Typed, TableType, WorkType, ActorType, tables, bounds
<1> USE DEF Shared, Goes, Becomes
<1>5. Born'
  BY <1>2, <1>3 DEF Born
<1>6. Gate'
  BY <1>2, <1>3 DEF Gate
<1>7. Places'
  BY <1>2, <1>3 DEF Places, Connected, Past
<1>8. Handshake' /\ ThreadStates'
  BY <1>2, <1>3 DEF Handshake, ThreadStates, At, Conn
<1>9. Ended'
  BY <1>2, <1>3 DEF Ended, RightlyEnded, InUse
<1>10. NoStray'
  BY <1>2, <1>3 DEF NoStray, Attended
<1>11. Drained'
  BY <1>2, <1>3 DEF Drained, DrainIsComplete, At, Typed, ActorType
<1>12. QED
  BY <1>4, <1>5, <1>6, <1>7, <1>8, <1>9, <1>10, <1>11

LEMMA BorrowKeeps == ASSUME Inv, NEW a \in Attempts, Borrow(a) PROVE Inv'
<1> USE DEF Inv
<1>1. thread[a] \in Threads /\ pool \in Gens
  BY Types DEF Typed, TableType
<1>2. \/ pool # NoOne /\ Becomes(a, "init", pool, NoOne, NoOne) /\ gate' = gate \ {a}
      \/ a \notin gate /\ Goes(a, "gate") /\ gate' = gate
      \/ a \in gate /\ Goes(a, "remove") /\ gate' = gate
  <2>1. CASE pool = thread[a].seen
    <3> DEFINE t == Obtained(thread[a], pool)
    <3>1. t \in Threads /\ t.pc = "init" /\ t.use = pool /\ t.got = NoOne /\ t.seen = NoOne
      BY <1>1, ObtainedThread
    <3>2. thread' = [thread EXCEPT ![a] = t] /\ gate' = gate \ {a}
      BY <2>1 DEF Borrow
    <3>3. Becomes(a, "init", pool, NoOne, NoOne)
      <4> HIDE DEF t
      <4> QED BY <3>1, <3>2, Becoming
    <3>4. pool # NoOne
      BY <2>1 DEF Borrow, At, Shared, Places
    <3>5. QED
      BY <3>2, <3>3, <3>4
  <2>2. CASE Missed(a) /\ UNCHANGED gate
    BY <2>2, Going DEF Missed, ThreadPcs
  <2>3. QED
    BY <2>1, <2>2 DEF Borrow
<1>3. UNCHANGED <<conn, born, pool, pruner, closer>> /\ thread[a].pc = "borrow"
  BY DEF Borrow, At, PoolOnly
<1>4. Typed'
  BY <1>2, <1>3, Types, TypesNext DEF Borrow, PoolOnly, Goes, Becomes, Typed, TableType,
     WorkType, ActorType, tables, bounds
<1> USE DEF Shared, Goes, Becomes
<1>5. Born'
  BY <1>2, <1>3, Zero, Constants DEF Born, Typed, TableType, Gens
<1>6. Gate'
  BY <1>2, <1>3 DEF Gate
<1>7. Places'
  BY <1>2, <1>3 DEF Places, Connected, Past
<1>8. Handshake' /\ ThreadStates'
  BY <1>2, <1>3 DEF Handshake, ThreadStates, At, Conn
<1>9. Ended'
  BY <1>2, <1>3, Zero DEF Ended, RightlyEnded, InUse
<1>10. NoStray'
  BY <1>2, <1>3, Zero DEF NoStray, Attended, Places
<1>11. Drained'
  BY <1>2, <1>3 DEF Drained, DrainIsComplete, At, Typed, ActorType
<1>12. QED
  BY <1>4, <1>5, <1>6, <1>7, <1>8, <1>9, <1>10, <1>11

LEMMA EnterGateKeeps == ASSUME Inv, NEW a \in Attempts, EnterGate(a) PROVE Inv'
<1> USE DEF Inv
<1>1. Goes(a, "look")
  BY Going DEF EnterGate, ThreadPcs
<1>2. /\ UNCHANGED <<conn, born, pool, pruner, closer>> /\ thread[a].pc = "gate"
      /\ gate = {} /\ gate' = {a}
  BY DEF EnterGate, At, PoolOnly
<1>3. Typed'
  BY <1>1, <1>2, Types, TypesNext DEF EnterGate, PoolOnly, Goes, Becomes, Typed, TableType,
     WorkType, ActorType, tables, bounds
<1> USE DEF Shared, Goes, Becomes
<1>4. Born' /\ Gate'
  BY <1>1, <1>2 DEF Born, Gate
<1>5. Places'
  BY <1>1, <1>2 DEF Places, Connected, Past
<1>6. Handshake' /\ ThreadStates'
  BY <1>1, <1>2 DEF Handshake, ThreadStates, At, Conn
<1>7. Ended'
  BY <1>1, <1>2 DEF Ended, RightlyEnded, InUse
<1>8. NoStray'
  BY <1>1, <1>2 DEF NoStray, Attended
<1>9. Drained'
  BY <1>1, <1>2 DEF Drained, DrainIsComplete, At, Typed, ActorType
<1>10. QED
  BY <1>3, <1>4, <1>5, <1>6, <1>7, <1>8, <1>9

\* What leaves the pool stays with the thread that takes it out.
LEMMA RemoveStaleKeeps == ASSUME Inv, NEW a \in Attempts, RemoveStale(a) PROVE Inv'
<1> USE DEF Inv
<1>1. thread[a] \in Threads /\ pool \in Gens
  BY Types DEF Typed, TableType
<1>2. \/ pool = NoOne /\ Becomes(a, "spawn", thread[a].use, thread[a].got, pool)
      \/ pool # NoOne /\ Becomes(a, "replace", thread[a].use, thread[a].got, pool)
  <2> DEFINE t == [thread[a] EXCEPT !.pc = IF pool = NoOne THEN "spawn" ELSE "replace", !.seen = pool]
  <2>1. /\ t \in Threads /\ t.use = thread[a].use /\ t.got = thread[a].got /\ t.seen = pool
        /\ t.pc = IF pool = NoOne THEN "spawn" ELSE "replace"
    BY <1>1 DEF Threads, ThreadPcs
  <2>2. thread' = [thread EXCEPT ![a] = t]
    BY DEF RemoveStale
  <2>3. Becomes(a, t.pc, t.use, t.got, t.seen)
    <3> HIDE DEF t
    <3> QED BY <2>1, <2>2, Becoming
  <2>4. QED
    BY <2>1, <2>3
<1>3. /\ UNCHANGED <<conn, born, gate, pruner, closer>> /\ pool' = NoOne
      /\ thread[a].pc = "remove"
  BY DEF RemoveStale, At, PoolOnly
<1>4. Typed'
  BY <1>2, <1>3, Zero, Types, TypesNext DEF RemoveStale, PoolOnly, Goes, Becomes, Typed,
     TableType, WorkType, ActorType, tables, bounds
<1> USE DEF Shared, Goes, Becomes
<1>5. Born' /\ Gate'
  BY <1>2, <1>3, Zero, Constants DEF Born, Gate, Typed, TableType, Gens
<1>6. Places'
  BY <1>2, <1>3 DEF Places, Connected, Past
<1>7. Handshake' /\ ThreadStates'
  BY <1>2, <1>3 DEF Handshake, ThreadStates, At, Conn
<1>8. Ended'
  BY <1>2, <1>3, Zero DEF Ended, RightlyEnded, InUse
<1>9. NoStray'
  BY <1>2, <1>3, Zero DEF NoStray, Attended
<1>10. Drained'
  BY <1>2, <1>3 DEF Drained, DrainIsComplete, At, Typed, ActorType
<1>11. QED
  BY <1>4, <1>5, <1>6, <1>7, <1>8, <1>9, <1>10

LEMMA ShutdownStaleKeeps == ASSUME Inv, NEW a \in Attempts, ShutdownStale(a) PROVE Inv'
<1> USE DEF Inv
<1> DEFINE g == thread[a].seen
<1>1. thread[a] \in Threads /\ g \in Generations
  BY Holding DEF ShutdownStale, At
<1>2. Becomes(a, "spawn", thread[a].use, thread[a].got, NoOne)
  <2> DEFINE t == [thread[a] EXCEPT !.pc = "spawn", !.seen = NoOne]
  <2>1. t \in Threads /\ t.use = thread[a].use /\ t.got = thread[a].got /\ t.seen = NoOne /\ t.pc = "spawn"
    BY <1>1, Zero DEF Threads, ThreadPcs
  <2>2. thread' = [thread EXCEPT ![a] = t]
    BY DEF ShutdownStale
  <2>3. QED
    BY <2>1, <2>2, Becoming
<1>3. g <= born
  BY DEF Shared, Born
<1>4. /\ conn' \in [Generations -> Conns] /\ route' \in [Generations -> [Sessions -> Routes]]
      /\ \A h \in Generations : conn'[h].init = conn[h].init /\ (h # g => conn'[h] = conn[h])
      /\ conn'[g].cause \in {conn[g].cause, "stale"}
      /\ \A h \in Generations : h > born => conn'[h] = Unborn
      /\ \A h \in Generations : h <= born => conn'[h].state # "unborn"
      /\ \A h \in Generations : conn'[h].state \in {"open", "draining"} => h # g /\ Attended(h)
      /\ closer.gen # NoOne => conn'[closer.gen].state \in {"draining", "closed"}
  BY <1>1, <1>3, Ending DEF ShutdownStale, Causes
<1>5. UNCHANGED <<born, pool, gate, pruner, closer>> /\ thread[a].pc = "replace"
  BY DEF ShutdownStale, At
<1>6. Typed'
  BY <1>2, <1>4, <1>5, Zero, TypesNext DEF ShutdownStale, Becomes, Typed,
     TableType, WorkType, ActorType, tables, bounds
<1> USE DEF Shared, Becomes
<1>7. Born'
  BY <1>2, <1>4, <1>5, Zero, Constants DEF Born, Typed, TableType, Gens
<1>8. Gate' /\ Places'
  BY <1>2, <1>5 DEF Gate, Places, Connected, Past
<1>9. Handshake'
  <2>1. \A b \in Attempts : thread'[b].pc \in {"initializing", "evict", "evicted"} =>
          /\ thread'[b] = thread[b] /\ thread[b].use \in Generations
          /\ thread[b].pc = "evicted" => thread[b].seen \in Generations
    BY <1>2, Holding
  <2>2. QED
    BY <1>4, <2>1 DEF Handshake, At, Conn
<1>10. ThreadStates'
  BY <1>2, <1>4, <1>5, Holding DEF ThreadStates, Conn, Past
<1>11. Ended'
  BY <1>1, <1>2, <1>4, <1>5, Zero DEF Ended, RightlyEnded, InUse
<1>12. NoStray'
  <2>1. \A h \in Generations : h # g /\ Attended(h) => Attended(h)'
    BY <1>2, <1>5 DEF Attended
  <2>2. QED
    BY <1>4, <2>1 DEF NoStray
<1>13. Drained'
  BY <1>2, <1>4, <1>5 DEF Drained, DrainIsComplete, At, Typed, ActorType
<1>14. QED
  BY <1>6, <1>7, <1>8, <1>9, <1>10, <1>11, <1>12, <1>13

\* A new connection is its thread's alone until it is in the pool.
LEMMA SpawnKeeps == ASSUME Inv, NEW a \in Attempts, Spawn(a) PROVE Inv'
<1> USE DEF Inv
<1> DEFINE g == born + 1
           c == [Unborn EXCEPT !.state = "open", !.config = thread[a].config]
<1>1. /\ thread[a] \in Threads /\ born \in Nat /\ g \in Generations /\ g \in Gens
      /\ thread[a].pc = "spawn" /\ pool = NoOne /\ conn[g] = Unborn
  BY Types, Numbers, Constants DEF Typed, TableType, Spawn, At, Generations, Gens, Shared, Gate, Born
<1>2. Becomes(a, "insert", thread[a].use, g, thread[a].seen)
  <2> DEFINE t == [thread[a] EXCEPT !.pc = "insert", !.got = g]
  <2>1. t \in Threads /\ t.use = thread[a].use /\ t.got = g /\ t.seen = thread[a].seen /\ t.pc = "insert"
    BY <1>1 DEF Threads, ThreadPcs
  <2>2. thread' = [thread EXCEPT ![a] = t]
    BY DEF Spawn
  <2>3. QED
    BY <2>1, <2>2, Becoming
<1>3. /\ conn' \in [Generations -> Conns] /\ conn'[g].state = "open" /\ conn'[g].cause = "none"
      /\ \A h \in Generations \ {g} : conn'[h] = conn[h]
  <2>1. c \in Conns /\ c.state = "open" /\ c.cause = "none"
    <3>1. Unborn \in Conns /\ thread[a].config \in {0, 1}
      BY <1>1 DEF Unborn, Conns, States, Inits, Causes, Threads
    <3>2. QED
      BY <3>1 DEF Conns, States, Unborn
  <2>2. conn' = [conn EXCEPT ![g] = c]
    BY DEF Spawn
  <2>3. QED
    BY <1>1, <2>1, <2>2, Types DEF Typed
<1>4. UNCHANGED <<pool, gate, pruner, closer>> /\ born' = g
  BY DEF Spawn, PoolOnly
<1>5. Typed'
  BY <1>1, <1>2, <1>3, <1>4, TypesNext DEF Spawn, PoolOnly, Becomes, Typed,
     TableType, WorkType, ActorType, tables, bounds
<1> USE DEF Shared, Becomes
<1>6. \A h \in Gens : h <= born => h <= g /\ h # g
  BY <1>1, Numbers
<1>7. Born'
  <2>1. \A h \in Generations : h > g => conn'[h] = Unborn
    BY <1>1, <1>3, Numbers DEF Born
  <2>2. \A h \in Generations : h <= g => conn'[h].state # "unborn"
    BY <1>1, <1>3, Numbers DEF Born
  <2>3. pool <= g /\ pruner.victim <= g /\ closer.gen <= g
    BY <1>6 DEF Born, Typed, TableType, ActorType
  <2>4. \A b \in Attempts : thread'[b].use <= g /\ thread'[b].got <= g /\ thread'[b].seen <= g
    BY <1>1, <1>2, <1>6, Holding DEF Born
  <2>5. QED
    BY <1>4, <2>1, <2>2, <2>3, <2>4 DEF Born
<1>8. Gate'
  BY <1>1, <1>2, <1>4 DEF Gate
<1>9. Places'
  BY <1>1, <1>2, <1>4, Zero DEF Places, Connected, Past
<1>10. Handshake'
  BY <1>1, <1>2, <1>3, <1>4, <1>6, Holding DEF Handshake, At, Conn, Born
<1>11. ThreadStates'
  BY <1>1, <1>2, <1>3, <1>4, <1>6, Holding DEF ThreadStates, Conn, Past, Born
<1>12. Ended'
  BY <1>1, <1>2, <1>3, <1>4, <1>6 DEF Ended, RightlyEnded, InUse, Born, Typed, ActorType
<1>13. NoStray'
  <2>1. \A h \in Generations : h = g => Attended(h)'
    BY <1>2 DEF Attended
  <2>2. \A h \in Generations : Attended(h) => Attended(h)'
    BY <1>1, <1>2, <1>4, Zero, Numbers DEF Attended, Places
  <2>3. QED
    BY <1>3, <2>1, <2>2 DEF NoStray
<1>14. Drained'
  BY <1>1, <1>2, <1>3, <1>4, <1>6, Numbers, Zero DEF Drained, DrainIsComplete, At, Typed, ActorType, Born
<1>15. QED
  BY <1>5, <1>7, <1>8, <1>9, <1>10, <1>11, <1>12, <1>13, <1>14

LEMMA SpawnFailsKeeps == ASSUME Inv, NEW a \in Attempts, SpawnFails(a) PROVE Inv'
<1> USE DEF Inv
<1>1. Becomes(a, "idle", NoOne, NoOne, NoOne) /\ gate' = gate \ {a}
  BY GoingIdle DEF SpawnFails
<1>2. UNCHANGED <<conn, born, pool, pruner, closer>> /\ thread[a].pc = "spawn"
  BY DEF SpawnFails, PoolOnly, At
<1>3. Typed'
  BY <1>1, <1>2, Types, TypesNext DEF SpawnFails, PoolOnly, Becomes, Typed,
     TableType, WorkType, ActorType, tables, bounds
<1>4. Shared'
  BY <1>1, <1>2, Leaving
<1>5. QED
  BY <1>3, <1>4

LEMMA InsertKeeps == ASSUME Inv, NEW a \in Attempts, Insert(a) PROVE Inv'
<1> USE DEF Inv
<1> DEFINE g == thread[a].got
<1>1. thread[a] \in Threads /\ g \in Generations /\ g \in Gens /\ g # NoOne
  BY Holding, Zero, Numbers DEF Insert, At
<1>2. Becomes(a, "init", g, NoOne, NoOne)
  <2> DEFINE t == Obtained(thread[a], g)
  <2>1. t \in Threads /\ t.pc = "init" /\ t.use = g /\ t.got = NoOne /\ t.seen = NoOne
    BY <1>1, ObtainedThread
  <2>2. thread' = [thread EXCEPT ![a] = t]
    BY DEF Insert
  <2>3. QED
    <3> HIDE DEF t
    <3> QED BY <2>1, <2>2, Becoming
<1>3. /\ UNCHANGED <<conn, born, pruner, closer>> /\ pool' = g /\ gate' = gate \ {a}
      /\ thread[a].pc = "insert" /\ pool = NoOne /\ a \in gate
  BY DEF Insert, PoolOnly, At, Shared, Gate
<1>4. Typed'
  BY <1>1, <1>2, <1>3, Types, TypesNext DEF Insert, PoolOnly, Becomes, Typed,
     TableType, WorkType, ActorType, tables, bounds
<1> USE DEF Shared, Becomes
<1>5. Born'
  BY <1>2, <1>3, Zero, Constants DEF Born, Typed, TableType, Gens
<1>6. Gate'
  BY <1>2, <1>3 DEF Gate
<1>7. Places'
  BY <1>1, <1>2, <1>3 DEF Places, Connected, Past
<1>8. Handshake' /\ ThreadStates'
  BY <1>2, <1>3 DEF Handshake, ThreadStates, At, Conn
<1>9. Ended'
  BY <1>1, <1>2, <1>3, Zero DEF Ended, RightlyEnded, InUse
<1>10. NoStray'
  BY <1>2, <1>3, Zero DEF NoStray, Attended
<1>11. Drained'
  BY <1>2, <1>3 DEF Drained, DrainIsComplete, At, Typed, ActorType
<1>12. QED
  BY <1>4, <1>5, <1>6, <1>7, <1>8, <1>9, <1>10, <1>11

-----------------------------------------------------------------------------
(* The handshake, and what follows when it fails.                          *)

LEMMA InitializeKeeps == ASSUME Inv, NEW a \in Attempts, Initialize(a) PROVE Inv'
<1> USE DEF Inv
<1> DEFINE g == thread[a].use
<1>1. /\ thread[a] \in Threads /\ g \in Generations /\ thread[a].pc = "init" /\ conn[g].init = "no"
  BY Holding DEF Initialize, At, Conn
<1>2. \/ Goes(a, "initializing") /\ Initialized(g, "going")
      \/ Goes(a, "evict") /\ Initialized(g, "failed")
  <2>1. CASE Initialized(g, "going") /\ Go(a, "initializing")
    BY <2>1, Going DEF ThreadPcs
  <2>2. CASE Initialized(g, "failed") /\ thread' = [thread EXCEPT ![a].pc = "evict", ![a].lost = TRUE]
    <3> DEFINE t == [thread[a] EXCEPT !.pc = "evict", !.lost = TRUE]
    <3>1. /\ t \in Threads /\ t.pc = "evict"
          /\ t.use = thread[a].use /\ t.got = thread[a].got /\ t.seen = thread[a].seen
      BY <1>1 DEF Threads, ThreadPcs
    <3>2. thread' = [thread EXCEPT ![a] = t]
      BY <2>2
    <3>3. QED
      BY <2>2, <3>1, <3>2, Becoming DEF Goes
  <2>3. QED
    BY <2>1, <2>2 DEF Initialize
<1>3. /\ conn' \in [Generations -> Conns]
      /\ conn'[g].init = IF thread'[a].pc = "evict" THEN "failed" ELSE "going"
      /\ \A h \in Generations : conn'[h].state = conn[h].state /\ conn'[h].cause = conn[h].cause
      /\ \A h \in Generations \ {g} : conn'[h] = conn[h]
  BY <1>1, <1>2, Initializing DEF Inits, Goes, Becomes
<1>4. UNCHANGED <<born, pool, gate, pruner, closer>>
  BY DEF Initialize, Step
<1>5. Typed'
  BY <1>2, <1>3, <1>4, TypesNext DEF Initialize, Step, Goes, Becomes, Typed,
     TableType, WorkType, ActorType, tables, bounds
<1> USE DEF Shared, Goes, Becomes
<1>6. Born'
  <2>1. g <= born /\ born \in Nat /\ g \in Nat
    BY <1>1, Numbers DEF Born, Typed, TableType
  <2>2. \A h \in Generations : h > born => h # g
    BY <2>1
  <2>3. QED
    BY <1>2, <1>3, <1>4, <2>2 DEF Born
<1>7. Gate' /\ Places'
  BY <1>1, <1>2, <1>4 DEF Gate, Places, Connected
<1>8. Handshake'
  <2>1. \A b \in Attempts : b # a /\ thread[b].pc = "initializing" => thread[b].use # g
    BY <1>1 DEF Handshake, At, Conn
  <2>2. \A b \in Attempts : b # a =>
          /\ thread'[b] = thread[b]
          /\ thread[b].pc \in {"initializing", "evict"} => thread[b].use \in Generations /\ thread[b].use # g
          /\ thread[b].pc = "evicted" => thread[b].seen \in Generations /\ thread[b].seen # g
    BY <1>1, <1>2, <2>1, Holding DEF Handshake, At, Conn
  <2>3. QED
    BY <1>1, <1>2, <1>3, <2>1, <2>2 DEF Handshake, At, Conn
<1>9. ThreadStates'
  <2>1. \A b \in Attempts : thread'[b].pc \in Past =>
          /\ thread'[b] = thread[b] /\ thread[b].use \in Generations /\ thread[b].use # g
    BY <1>1, <1>2, Holding DEF ThreadStates, Past, Conn
  <2>2. QED
    BY <1>3, <2>1 DEF ThreadStates, Past, Conn
<1>10. Ended'
  BY <1>1, <1>2, <1>3, <1>4 DEF Ended, RightlyEnded, InUse
<1>11. NoStray'
  BY <1>1, <1>2, <1>3, <1>4 DEF NoStray, Attended
<1>12. Drained'
  BY <1>2, <1>3, <1>4, Zero, Numbers DEF Drained, DrainIsComplete, At, Typed, ActorType
<1>13. QED
  BY <1>5, <1>6, <1>7, <1>8, <1>9, <1>10, <1>11, <1>12

LEMMA InitializedAlreadyKeeps ==
  ASSUME Inv, NEW a \in Attempts, InitializedAlready(a) PROVE Inv'
<1> USE DEF Inv
<1>1. /\ thread[a] \in Threads /\ thread[a].use \in Generations /\ thread[a].pc = "init"
      /\ Conn(a).init \in {"done", "failed"}
  BY Holding DEF InitializedAlready, At
<1>2. Goes(a, IF Conn(a).init = "done" THEN "acquire" ELSE "evict")
  <2> DEFINE t == [thread[a] EXCEPT !.pc = IF Conn(a).init = "done" THEN "acquire" ELSE "evict", !.lost = FALSE]
  <2>1. /\ t \in Threads /\ t.pc = IF Conn(a).init = "done" THEN "acquire" ELSE "evict"
        /\ t.use = thread[a].use /\ t.got = thread[a].got /\ t.seen = thread[a].seen
    BY <1>1 DEF Threads, ThreadPcs
  <2>2. thread' = [thread EXCEPT ![a] = t]
    BY DEF InitializedAlready
  <2>3. Becomes(a, t.pc, t.use, t.got, t.seen)
    <3> HIDE DEF t
    <3> QED BY <2>1, <2>2, Becoming
  <2>4. QED
    BY <2>1, <2>3 DEF Goes
<1>3. UNCHANGED <<conn, born, pool, gate, pruner, closer>>
  BY DEF InitializedAlready, Step
<1>4. Typed'
  BY <1>2, <1>3, Types, TypesNext DEF InitializedAlready, Step, Goes, Becomes, Typed,
     TableType, WorkType, ActorType, tables, bounds
<1> USE DEF Shared, Goes, Becomes
<1>5. Born' /\ Gate'
  BY <1>1, <1>2, <1>3 DEF Born, Gate
<1>6. Places'
  BY <1>1, <1>2, <1>3 DEF Places, Connected, Past
<1>7. Handshake' /\ ThreadStates'
  BY <1>1, <1>2, <1>3, Zero DEF Handshake, ThreadStates, At, Conn
<1>8. Ended'
  BY <1>2, <1>3 DEF Ended, RightlyEnded, InUse
<1>9. NoStray'
  BY <1>1, <1>2, <1>3 DEF NoStray, Attended
<1>10. Drained'
  BY <1>2, <1>3 DEF Drained, DrainIsComplete, At, Typed, ActorType
<1>11. QED
  BY <1>4, <1>5, <1>6, <1>7, <1>8, <1>9, <1>10

\* The outcome of a handshake comes to the one attempt that asked for it.
LEMMA Settling ==
  ASSUME Inv, NEW a \in Attempts, thread[a].pc = "initializing",
         NEW init \in {"done", "failed"}, Initialized(thread[a].use, init),
         Goes(a, IF init = "done" THEN "acquire" ELSE "evict"),
         UNCHANGED <<born, pool, gate, pruner, closer>>
  PROVE  Shared' /\ ConnType'
<1> USE DEF Inv, Shared, Goes, Becomes
<1> DEFINE g == thread[a].use
<1>1. g \in Generations /\ conn[g].init = "going"
  BY Holding DEF Handshake, At, Conn
<1>2. /\ conn' \in [Generations -> Conns] /\ conn'[g].init = init
      /\ \A h \in Generations : conn'[h].state = conn[h].state /\ conn'[h].cause = conn[h].cause
      /\ \A h \in Generations \ {g} : conn'[h] = conn[h]
  BY <1>1, Initializing DEF Inits
<1>3. Born'
  <2>1. g <= born /\ born \in Nat /\ g \in Nat
    BY <1>1, Numbers DEF Born, Typed, TableType
  <2>2. \A h \in Generations : h > born => h # g
    BY <2>1
  <2>3. QED
    BY <1>2, <2>2 DEF Born
<1>4. Gate' /\ Places'
  BY <1>1 DEF Gate, Places, Connected, Past
<1>5. Handshake'
  <2>1. \A b \in Attempts : b # a =>
          /\ thread'[b] = thread[b]
          /\ thread[b].pc \in {"initializing", "evict"} => thread[b].use \in Generations /\ thread[b].use # g
          /\ thread[b].pc = "evicted" => thread[b].seen \in Generations /\ thread[b].seen # g
    BY <1>1, Holding DEF Handshake, At, Conn
  <2>2. QED
    BY <1>1, <1>2, <2>1 DEF Handshake, At, Conn
<1>6. ThreadStates'
  <2>1. \A b \in Attempts : b # a /\ thread'[b].pc \in Past =>
          /\ thread'[b] = thread[b] /\ thread[b].use \in Generations /\ thread[b].use # g
    BY <1>1, Holding DEF ThreadStates, Past, Conn
  <2>2. thread'[a].pc \in Past => thread'[a].use = g /\ g # NoOne /\ conn'[g].init = "done"
    BY <1>1, <1>2, Zero DEF Past
  <2>3. QED
    BY <1>2, <2>1, <2>2 DEF ThreadStates, Past, Conn
<1>7. Ended'
  BY <1>1, <1>2 DEF Ended, RightlyEnded, InUse
<1>8. NoStray'
  BY <1>1, <1>2 DEF NoStray, Attended
<1>9. Drained'
  <2>1. closer.gen \in Gens
    BY DEF Typed, ActorType
  <2>2. closer.gen # NoOne => conn'[closer.gen].state \in {"draining", "closed"}
    BY <1>2, <2>1, Zero, Numbers DEF Drained
  <2>3. DrainIsComplete'
    BY DEF Drained, DrainIsComplete, At, Typed, ActorType
  <2>4. QED
    BY <2>2, <2>3 DEF Drained
<1>10. QED
  BY <1>2, <1>3, <1>4, <1>5, <1>6, <1>7, <1>8, <1>9, TypesNext

LEMMA InitializeAnsweredKeeps ==
  ASSUME Inv, NEW a \in Attempts, InitializeAnswered(a) PROVE Inv'
<1> USE DEF Inv
<1>1. thread[a].pc = "initializing" /\ Goes(a, "acquire") /\ Initialized(thread[a].use, "done")
  BY Going DEF InitializeAnswered, At, ThreadPcs
<1>2. UNCHANGED <<born, pool, gate, pruner, closer>>
  BY DEF InitializeAnswered, Step
<1>3. Shared' /\ ConnType'
  BY <1>1, <1>2, Settling
<1>4. Typed'
  BY <1>1, <1>2, <1>3, TypesNext DEF InitializeAnswered, Step, Goes, Becomes, Typed,
     TableType, WorkType, ActorType, tables, bounds
<1>5. QED
  BY <1>3, <1>4

LEMMA InitializeFailsKeeps ==
  ASSUME Inv, NEW a \in Attempts, InitializeFails(a) PROVE Inv'
<1> USE DEF Inv
<1>1. thread[a] \in Threads /\ thread[a].pc = "initializing" /\ Initialized(thread[a].use, "failed")
  BY Holding DEF InitializeFails, At
<1>2. Goes(a, "evict")
  <2> DEFINE t == [thread[a] EXCEPT !.pc = "evict", !.lost = Closed(thread[a].use)]
  <2>1. Closed(thread[a].use) \in BOOLEAN
    BY DEF Closed
  <2>2. /\ t \in Threads /\ t.pc = "evict"
        /\ t.use = thread[a].use /\ t.got = thread[a].got /\ t.seen = thread[a].seen
    BY <1>1, <2>1 DEF Threads, ThreadPcs
  <2>3. thread' = [thread EXCEPT ![a] = t]
    BY DEF InitializeFails
  <2>4. QED
    BY <2>2, <2>3, Becoming DEF Goes
<1>3. UNCHANGED <<born, pool, gate, pruner, closer>>
  BY DEF InitializeFails, Step
<1>4. Shared' /\ ConnType'
  BY <1>1, <1>2, <1>3, Settling
<1>5. faults' \in 0 .. MaxFaults
  BY Constants DEF InitializeFails, Fault, Typed, ActorType
<1>6. Typed'
  BY <1>2, <1>3, <1>4, <1>5, TypesNext DEF InitializeFails, Step, Goes, Becomes, Typed,
     TableType, WorkType, ActorType, tables
<1>7. QED
  BY <1>4, <1>6

LEMMA EvictKeeps == ASSUME Inv, NEW a \in Attempts, Evict(a) PROVE Inv'
<1> USE DEF Inv
<1>1. /\ thread[a] \in Threads /\ thread[a].use \in Generations /\ thread[a].pc = "evict"
      /\ pool \in Gens /\ conn[thread[a].use].init = "failed"
  BY Holding DEF Evict, At, Typed, TableType, Shared, Handshake, Conn
<1>2. \/ Goes(a, "retry") /\ pool' = pool
      \/ /\ Becomes(a, "evicted", thread[a].use, thread[a].got, pool)
         /\ pool = thread[a].use /\ pool' = NoOne
  <2>1. CASE thread' = [thread EXCEPT ![a].pc = "evicted", ![a].seen = pool]
    <3> DEFINE t == [thread[a] EXCEPT !.pc = "evicted", !.seen = pool]
    <3>1. /\ t \in Threads /\ t.pc = "evicted"
          /\ t.use = thread[a].use /\ t.got = thread[a].got /\ t.seen = pool
      BY <1>1 DEF Threads, ThreadPcs
    <3>2. thread' = [thread EXCEPT ![a] = t]
      BY <2>1
    <3>3. Becomes(a, "evicted", thread[a].use, thread[a].got, pool)
      <4> HIDE DEF t
      <4> QED BY <3>1, <3>2, Becoming
    <3>4. pool # thread[a].use => Goes(a, "retry") /\ pool' = pool
      BY Going DEF Evict, ThreadPcs
    <3>5. QED
      BY <3>3, <3>4 DEF Evict
  <2>2. CASE pool # thread[a].use
    BY <2>2, Going DEF Evict, ThreadPcs
  <2>3. QED
    BY <2>1, <2>2 DEF Evict
<1>3. UNCHANGED <<conn, born, gate, pruner, closer>>
  BY DEF Evict, PoolOnly
<1>4. Typed'
  BY <1>2, <1>3, Zero, Types, TypesNext DEF Evict, PoolOnly, Goes, Becomes, Typed,
     TableType, WorkType, ActorType, tables, bounds
<1> USE DEF Shared, Goes, Becomes
<1>5. Born'
  BY <1>2, <1>3, Zero, Constants DEF Born, Typed, TableType, Gens
<1>6. Gate'
  BY <1>1, <1>2, <1>3 DEF Gate
<1>7. Places'
  BY <1>1, <1>2, <1>3, Zero DEF Places, Connected, Past
<1>8. Handshake' /\ ThreadStates'
  BY <1>1, <1>2, <1>3 DEF Handshake, ThreadStates, At, Conn
<1>9. Ended'
  BY <1>2, <1>3, Zero DEF Ended, RightlyEnded, InUse
<1>10. NoStray'
  BY <1>1, <1>2, <1>3, Zero DEF NoStray, Attended
<1>11. Drained'
  BY <1>2, <1>3 DEF Drained, DrainIsComplete, At, Typed, ActorType
<1>12. QED
  BY <1>4, <1>5, <1>6, <1>7, <1>8, <1>9, <1>10, <1>11

LEMMA ShutdownFailedKeeps == ASSUME Inv, NEW a \in Attempts, ShutdownFailed(a) PROVE Inv'
<1> USE DEF Inv
<1> DEFINE g == thread[a].seen
<1>1. /\ thread[a] \in Threads /\ g \in Generations /\ thread[a].use \in Generations
      /\ conn[g].init = "failed" /\ thread[a].pc = "evicted"
  BY Holding DEF ShutdownFailed, At, Shared, Handshake
<1>2. Becomes(a, "retry", thread[a].use, thread[a].got, NoOne)
  <2> DEFINE t == [thread[a] EXCEPT !.pc = "retry", !.seen = NoOne]
  <2>1. t \in Threads /\ t.use = thread[a].use /\ t.got = thread[a].got /\ t.seen = NoOne /\ t.pc = "retry"
    BY <1>1, Zero DEF Threads, ThreadPcs
  <2>2. thread' = [thread EXCEPT ![a] = t]
    BY DEF ShutdownFailed
  <2>3. QED
    BY <2>1, <2>2, Becoming
<1>3. g <= born
  BY DEF Shared, Born
<1>4. /\ conn' \in [Generations -> Conns] /\ route' \in [Generations -> [Sessions -> Routes]]
      /\ \A h \in Generations : conn'[h].init = conn[h].init /\ (h # g => conn'[h] = conn[h])
      /\ conn'[g].cause \in {conn[g].cause, "init"}
      /\ \A h \in Generations : h > born => conn'[h] = Unborn
      /\ \A h \in Generations : h <= born => conn'[h].state # "unborn"
      /\ \A h \in Generations : conn'[h].state \in {"open", "draining"} => h # g /\ Attended(h)
      /\ closer.gen # NoOne => conn'[closer.gen].state \in {"draining", "closed"}
  BY <1>1, <1>3, Ending DEF ShutdownFailed, Causes
<1>5. UNCHANGED <<born, pool, gate, pruner, closer>>
  BY DEF ShutdownFailed
<1>6. Typed'
  BY <1>2, <1>4, <1>5, Zero, TypesNext DEF ShutdownFailed, Becomes, Typed,
     TableType, WorkType, ActorType, tables, bounds
<1> USE DEF Shared, Becomes
<1>7. Born'
  <2>1. NoOne <= born
    BY Zero, Numbers DEF Typed, TableType
  <2>2. QED
    BY <1>2, <1>4, <1>5, <2>1 DEF Born
<1>8. Gate' /\ Places'
  BY <1>1, <1>2, <1>5 DEF Gate, Places, Connected, Past
<1>9. Handshake'
  <2>1. \A b \in Attempts : thread'[b].pc \in {"initializing", "evict", "evicted"} =>
          /\ thread'[b] = thread[b] /\ thread[b].use \in Generations
          /\ thread[b].pc = "evicted" => thread[b].seen \in Generations
    BY <1>2, Holding
  <2>2. QED
    BY <1>4, <2>1 DEF Handshake, At, Conn
<1>10. ThreadStates'
  BY <1>2, <1>4, <1>5, Holding DEF ThreadStates, Conn, Past
<1>11. Ended'
  <2>1. \A h \in Generations : InUse(h)' <=> InUse(h)
    BY <1>2 DEF InUse
  <2>2. \A h \in Generations : /\ conn'[h].cause = "idle" => conn[h].cause = "idle"
                               /\ conn'[h].cause = "init" => conn[h].cause = "init" \/ h = g
    BY <1>4
  <2>3. QED
    BY <1>1, <1>4, <1>5, <2>1, <2>2 DEF Ended, RightlyEnded
<1>12. NoStray'
  <2>1. \A h \in Generations : h # g /\ Attended(h) => Attended(h)'
    BY <1>1, <1>2, <1>5 DEF Attended
  <2>2. QED
    BY <1>4, <2>1 DEF NoStray
<1>13. Drained'
  BY <1>2, <1>4, <1>5 DEF Drained, DrainIsComplete, At, Typed, ActorType
<1>14. QED
  BY <1>6, <1>7, <1>8, <1>9, <1>10, <1>11, <1>12, <1>13

\* A second connection, or the end of the prompt.
LEMMA RetryKeeps == ASSUME Inv, NEW a \in Attempts, Retry(a) PROVE Inv'
<1> USE DEF Inv
<1>1. thread[a] \in Threads /\ thread[a].pc = "retry"
  BY Holding DEF Retry, At
<1>2. \/ Goes(a, "look") \/ Goes(a, "shutdown") \/ Becomes(a, "idle", NoOne, NoOne, NoOne)
  <2>1. CASE thread' = [thread EXCEPT ![a] = [thread[a] EXCEPT !.pc = "look", !.tries = 1]]
    <3> DEFINE t == [thread[a] EXCEPT !.pc = "look", !.tries = 1]
    <3>1. /\ t \in Threads /\ t.pc = "look"
          /\ t.use = thread[a].use /\ t.got = thread[a].got /\ t.seen = thread[a].seen
      BY <1>1 DEF Threads, ThreadPcs
    <3>2. QED
      BY <2>1, <3>1, Becoming DEF Goes
  <2>2. CASE thread' = [thread EXCEPT ![a] = [thread[a] EXCEPT !.pc = "shutdown"]]
    <3> DEFINE t == [thread[a] EXCEPT !.pc = "shutdown"]
    <3>1. /\ t \in Threads /\ t.pc = "shutdown"
          /\ t.use = thread[a].use /\ t.got = thread[a].got /\ t.seen = thread[a].seen
      BY <1>1 DEF Threads, ThreadPcs
    <3>2. QED
      BY <2>2, <3>1, Becoming DEF Goes
  <2>3. CASE thread' = [thread EXCEPT ![a] = Idle]
    BY <2>3, GoingIdle
  <2>4. QED
    BY <2>1, <2>2, <2>3 DEF Retry
<1>3. UNCHANGED <<conn, born, pool, gate, pruner, closer>>
  BY DEF Retry, PoolOnly
<1>4. Typed'
  BY <1>2, <1>3, Types, TypesNext DEF Retry, PoolOnly, Goes, Becomes, Typed,
     TableType, WorkType, ActorType, tables, bounds
<1>5. Shared'
  BY <1>1, <1>2, <1>3, Proceeding, Leaving DEF Past
<1>6. QED
  BY <1>4, <1>5

LEMMA CancelledKeeps == ASSUME Inv, NEW a \in Attempts, Cancelled(a) PROVE Inv'
<1> USE DEF Inv
<1>1. Goes(a, "shutdown") /\ thread[a].pc \in {"init", "acquire", "retry", "prompting"}
  BY Going DEF Cancelled, ThreadPcs
<1>2. UNCHANGED <<conn, born, pool, gate, pruner, closer>>
  BY DEF Cancelled, Step
<1>3. faults' \in 0 .. MaxFaults
  BY Constants DEF Cancelled, Fault, Typed, ActorType
<1>4. Typed'
  BY <1>1, <1>2, <1>3, Types, TypesNext DEF Cancelled, Step, Goes, Becomes, Typed,
     TableType, WorkType, ActorType, tables
<1>5. Shared'
  BY <1>1, <1>2, Proceeding DEF Past
<1>6. QED
  BY <1>4, <1>5

-----------------------------------------------------------------------------
(* The provider session and the prompt.                                    *)

Records == [gen : Gens, route : Routes, active : BOOLEAN]

LEMMA EntryTyped ==
  ASSUME Typed, NEW a \in Attempts
  PROVE  Entry(a) \in Entries
  BY DEF Typed, TableType, Entry, Entries

\* The evictions somebody begins are of entries.
LEMMA BegunTyped ==
  ASSUME Typed, NEW w \in Workers, NEW kind \in {"evict", "detach"},
         NEW todo \in SUBSET Entries, Begun(w, kind, todo)
  PROVE  WorkType'
<1> DEFINE Jobs == [pc : {"idle", "next", "decide", "close", "closed", "unbind", "unroute"},
                    kind : {"none", "evict", "detach"}, todo : SUBSET Entries,
                    entry : Entries \cup {NoEntry}]
<1>1. [NoWork EXCEPT !.pc = "next"] \in Jobs
  BY DEF NoWork
<1>2. \A k \in Jobs : [k EXCEPT !.kind = kind, !.todo = todo] \in Jobs
  OBVIOUS
<1>3. [NoWork EXCEPT !.pc = "next", !.kind = kind, !.todo = todo]
        = [[NoWork EXCEPT !.pc = "next"] EXCEPT !.kind = kind, !.todo = todo]
  OBVIOUS
<1>4. work' = [work EXCEPT ![w] = [NoWork EXCEPT !.pc = "next", !.kind = kind, !.todo = todo]]
  BY DEF Begun
<1>5. QED
  BY <1>1, <1>2, <1>3, <1>4 DEF Typed, WorkType

\* The session and the prompt of a thread leave the connection alone, and take the
\* thread on; what they do to the tables is well typed.
LEMMA Onward ==
  ASSUME Inv, NEW a \in Attempts, UNCHANGED <<conn, born, pool, gate, pruner, closer>>,
         thread[a].pc \in Past \cup {"init", "retry", "shutdown", "unroute", "unbind"},
         NEW pc \in Past \cup {"look", "shutdown", "unroute", "unbind"}, Goes(a, pc),
         pc \in Past => thread[a].pc \in Past,
         pc = "prompting" => conn[thread[a].use].state = "open",
         bound' \in [Attempts -> [gen : Gens, route : Routes]], attached' \in [Attempts -> Records],
         route' \in [Generations -> [Sessions -> Routes]], opened' \subseteq Generations \X Sessions,
         WorkType', UNCHANGED <<config, begun>>, faults' \in 0 .. MaxFaults
  PROVE  Inv'
<1>1. Typed'
  BY Types, TypesNext DEF Inv, Goes, Becomes, Typed, TableType, ActorType, Records
<1>2. QED
  BY <1>1, Proceeding DEF Inv

\* The tables as they are.
LEMMA TablesTyped ==
  ASSUME Typed
  PROVE  /\ bound \in [Attempts -> [gen : Gens, route : Routes]] /\ attached \in [Attempts -> Records]
         /\ route \in [Generations -> [Sessions -> Routes]] /\ opened \subseteq Generations \X Sessions
         /\ faults \in 0 .. MaxFaults /\ (work' = work => WorkType')
  BY DEF Typed, TableType, WorkType, ActorType, Records

LEMMA QuietSteps ==
  ASSUME Inv, NEW a \in Attempts,
         \/ Reuse(a) \/ EnsureAlias(a) \/ EnsureTransfer(a) \/ BeginPrompt(a) \/ MarkActive(a)
         \/ SendPrompt(a) \/ PromptEnds(a)
  PROVE  Inv'
<1>1. /\ UNCHANGED <<conn, born, pool, gate, pruner, closer, tables, work, bounds>>
      /\ thread[a].pc \in Past
  BY DEF Reuse, EnsureAlias, EnsureTransfer, BeginPrompt, MarkActive, SendPrompt, PromptEnds,
         At, Calm, Past
<1>2. \E pc \in Past \cup {"shutdown"} :
        Go(a, pc) /\ (pc = "prompting" => conn[thread[a].use].state = "open")
  BY DEF Reuse, EnsureAlias, EnsureTransfer, BeginPrompt, MarkActive, SendPrompt, PromptEnds,
         Past, Conn
<1>3. PICK pc \in Past \cup {"shutdown"} :
        Go(a, pc) /\ (pc = "prompting" => conn[thread[a].use].state = "open")
  BY <1>2
<1>4. Goes(a, pc)
  BY <1>3, Going DEF Inv, Past, ThreadPcs
<1>5. QED
  BY <1>1, <1>3, <1>4, TablesTyped, Onward DEF Inv, tables, bounds

LEMMA AcquireKeeps == ASSUME Inv, NEW a \in Attempts, Acquire(a) PROVE Inv'
<1> USE DEF Inv
<1>1. /\ thread[a] \in Threads /\ thread[a].pc = "acquire"
      /\ UNCHANGED <<conn, born, pool, gate, pruner, closer, bounds, bound, route, opened>>
  BY Holding DEF Acquire, At, Calm
<1>2. CASE Go(a, "alias") /\ UNCHANGED <<attached, work>>
  BY <1>1, <1>2, Going, TablesTyped, Onward DEF Past, ThreadPcs, bounds
<1>3. CASE /\ attached' = [attached EXCEPT ![a].active = TRUE] /\ UNCHANGED work
           /\ thread' = [thread EXCEPT ![a].pc = "reuse", ![a].route = attached[a].route]
  <2> DEFINE t == [thread[a] EXCEPT !.pc = "reuse", !.route = attached[a].route]
  <2>1. attached[a].route \in Routes /\ attached' \in [Attempts -> Records]
    BY <1>3, TablesTyped DEF Records
  <2>2. /\ t \in Threads /\ t.pc = "reuse"
        /\ t.use = thread[a].use /\ t.got = thread[a].got /\ t.seen = thread[a].seen
    BY <1>1, <2>1 DEF Threads, ThreadPcs
  <2>3. Goes(a, "reuse")
    BY <1>3, <2>2, Becoming DEF Goes
  <2>4. QED
    BY <1>1, <1>3, <2>1, <2>3, TablesTyped, Onward DEF Past, bounds
<1>4. CASE attached' = [attached EXCEPT ![a] = Detached] /\ Go(a, "alias") /\ Begun(a, "evict", {Entry(a)})
  <2>1. attached' \in [Attempts -> Records] /\ WorkType'
    BY <1>4, Values, TablesTyped, EntryTyped, BegunTyped DEF Records, Workers
  <2>2. QED
    BY <1>1, <1>4, <2>1, Going, TablesTyped, Onward DEF Past, ThreadPcs, bounds
<1>5. QED
  BY <1>2, <1>3, <1>4 DEF Acquire

LEMMA ReloadKeeps == ASSUME Inv, NEW a \in Attempts, Reload(a) PROVE Inv'
<1> USE DEF Inv
<1>1. /\ thread[a] \in Threads /\ thread[a].pc = "reuse"
      /\ UNCHANGED <<conn, born, pool, gate, pruner, closer, bounds, bound, route, opened>>
  BY Holding DEF Reload, At, Calm
<1>2. Goes(a, "alias")
  <2> DEFINE t == [thread[a] EXCEPT !.pc = "alias", !.route = NoOne]
  <2>1. /\ t \in Threads /\ t.pc = "alias"
        /\ t.use = thread[a].use /\ t.got = thread[a].got /\ t.seen = thread[a].seen
    BY <1>1, Zero DEF Threads, ThreadPcs
  <2>2. QED
    BY <2>1, Becoming DEF Reload, Goes
<1>3. attached' \in [Attempts -> Records] /\ WorkType'
  BY Values, TablesTyped, EntryTyped, BegunTyped DEF Reload, Records, Workers
<1>4. QED
  BY <1>1, <1>2, <1>3, TablesTyped, Onward DEF Past, bounds

LEMMA RestoreKeeps ==
  ASSUME Inv, NEW a \in Attempts, Restore(a) \/ Restored(a) \/ RestoreFails(a) PROVE Inv'
<1> USE DEF Inv
<1>1. /\ thread[a] \in Threads /\ thread[a].pc \in {"restore", "restoring"}
      /\ thread[a].use \in Generations
      /\ UNCHANGED <<conn, born, pool, gate, pruner, closer, config, begun, bound, attached, route, work>>
  BY Holding DEF Restore, Restored, RestoreFails, At, Calm, Step, bounds, tables, Past
<1>2. \E pc \in {"restoring", "route", "shutdown"} : Goes(a, pc)
  <2>1. CASE Restore(a)
    <3> DEFINE t == [thread[a] EXCEPT !.pc = IF Conn(a).state = "open" THEN "restoring" ELSE "route",
                                      !.lost = Conn(a).state # "open"]
    <3>1. /\ t \in Threads /\ t.pc \in {"restoring", "route"}
          /\ t.use = thread[a].use /\ t.got = thread[a].got /\ t.seen = thread[a].seen
      BY <1>1 DEF Threads, ThreadPcs
    <3>2. thread' = [thread EXCEPT ![a] = t]
      BY <2>1 DEF Restore
    <3>3. QED
      <4> HIDE DEF t
      <4>1. Becomes(a, t.pc, t.use, t.got, t.seen)
        BY <3>1, <3>2, Becoming
      <4>2. QED
        BY <3>1, <4>1 DEF Goes
  <2>2. CASE Restored(a)
    BY <2>2, Going DEF Restored, ThreadPcs
  <2>3. CASE RestoreFails(a)
    <3> DEFINE t == [thread[a] EXCEPT !.pc = "route", !.lost = TRUE]
    <3>1. /\ t \in Threads /\ t.pc = "route"
          /\ t.use = thread[a].use /\ t.got = thread[a].got /\ t.seen = thread[a].seen
      BY <1>1 DEF Threads, ThreadPcs
    <3>2. thread' = [thread EXCEPT ![a] = t] \/ Go(a, "shutdown")
      BY <2>3 DEF RestoreFails
    <3>3. QED
      BY <3>1, <3>2, Becoming, Going DEF Goes, ThreadPcs
  <2>4. QED
    BY <2>1, <2>2, <2>3
<1>3. opened' \subseteq Generations \X Sessions
  <2>1. s(a) \in Sessions
    BY SessionAssumption DEF s
  <2>2. QED
    BY <1>1, <2>1, TablesTyped DEF Restore, Restored, RestoreFails, Step, tables
<1>4. faults' \in 0 .. MaxFaults
  BY Constants, TablesTyped DEF Restore, Restored, RestoreFails, Fault, Calm, bounds
<1>5. QED
  BY <1>1, <1>2, <1>3, <1>4, TablesTyped, Onward DEF Past

LEMMA RegisterRouteKeeps == ASSUME Inv, NEW a \in Attempts, RegisterRoute(a) PROVE Inv'
<1> USE DEF Inv
<1>1. /\ thread[a] \in Threads /\ thread[a].pc = "route" /\ thread[a].no \in Routes
      /\ UNCHANGED <<conn, born, pool, gate, pruner, closer, bounds, bound, attached, opened, work>>
  BY Holding DEF RegisterRoute, At, Calm, Threads
<1>2. Goes(a, "bind")
  <2> DEFINE t == [thread[a] EXCEPT !.pc = "bind", !.route = thread[a].no]
  <2>1. /\ t \in Threads /\ t.pc = "bind"
        /\ t.use = thread[a].use /\ t.got = thread[a].got /\ t.seen = thread[a].seen
    BY <1>1 DEF Threads, ThreadPcs
  <2>2. QED
    BY <2>1, Becoming DEF RegisterRoute, Goes
<1>3. route' \in [Generations -> [Sessions -> Routes]]
  BY <1>1, TablesTyped DEF RegisterRoute
<1>4. QED
  BY <1>1, <1>2, <1>3, TablesTyped, Onward DEF Past, bounds

LEMMA BindKeeps == ASSUME Inv, NEW a \in Attempts, Bind(a) PROVE Inv'
<1> USE DEF Inv
<1>1. /\ thread[a].pc = "bind" /\ thread[a].no \in Routes /\ thread[a].use \in Gens
      /\ UNCHANGED <<conn, born, pool, gate, pruner, closer, bounds, attached, route, opened, work>>
  BY Holding DEF Bind, At, Calm, Threads
<1>2. Goes(a, "shutdown") \/ Goes(a, "transfer")
  BY Going DEF Bind, ThreadPcs
<1>3. bound' \in [Attempts -> [gen : Gens, route : Routes]]
  BY <1>1, TablesTyped DEF Bind
<1>4. QED
  BY <1>1, <1>2, <1>3, TablesTyped, Onward DEF Past, bounds

LEMMA DetachAliasesKeeps == ASSUME Inv, NEW a \in Attempts, DetachAliases(a) PROVE Inv'
<1> USE DEF Inv
<1>1. /\ thread[a].pc = "aliases" /\ Goes(a, "ready")
      /\ UNCHANGED <<conn, born, pool, gate, pruner, closer, bounds, bound, route, opened>>
  BY Going DEF DetachAliases, At, Calm, ThreadPcs
<1>2. attached' \in [Attempts -> Records]
  BY Values, TablesTyped DEF DetachAliases, Records
<1>3. WorkType'
  <2>1. {Entry(b) : b \in Aliases(a)} \in SUBSET Entries
    BY EntryTyped DEF Aliases
  <2>2. QED
    BY <2>1, TablesTyped, BegunTyped DEF DetachAliases, Workers
<1>4. QED
  BY <1>1, <1>2, <1>3, TablesTyped, Onward DEF Past, bounds

LEMMA PromptFailsKeeps == ASSUME Inv, NEW a \in Attempts, PromptFails(a) PROVE Inv'
<1> USE DEF Inv
<1>1. /\ thread[a].pc = "prompting" /\ Goes(a, "shutdown")
      /\ UNCHANGED <<conn, born, pool, gate, pruner, closer, config, begun, tables, work>>
  BY Going DEF PromptFails, At, Step, ThreadPcs
<1>2. faults' \in 0 .. MaxFaults
  BY Constants, TablesTyped DEF PromptFails, Fault
<1>3. QED
  BY <1>1, <1>2, TablesTyped, Onward DEF Past, tables

LEMMA ReleaseKeeps == ASSUME Inv, NEW a \in Attempts, Release(a) PROVE Inv'
<1> USE DEF Inv
<1>1. /\ thread[a].pc = "release" /\ Goes(a, "drop")
      /\ UNCHANGED <<conn, born, pool, gate, pruner, closer, bounds, bound, route, opened, work>>
  BY Going DEF Release, At, Calm, ThreadPcs
<1>2. attached' \in [Attempts -> Records]
  BY Holding, TablesTyped DEF Release, Records, Threads
<1>3. QED
  BY <1>1, <1>2, TablesTyped, Onward DEF Past, bounds

LEMMA ShutdownKeeps == ASSUME Inv, NEW a \in Attempts, Shutdown(a) PROVE Inv'
<1> USE DEF Inv
<1>1. /\ thread[a].pc = "shutdown" /\ Goes(a, "unroute")
      /\ UNCHANGED <<conn, born, pool, gate, pruner, closer, bounds, bound, route, opened>>
  BY Going DEF Shutdown, At, Calm, ThreadPcs
<1>2. attached' \in [Attempts -> Records] /\ WorkType'
  BY Values, TablesTyped, EntryTyped, BegunTyped DEF Shutdown, Records, Workers
<1>3. QED
  BY <1>1, <1>2, TablesTyped, Onward DEF Past, bounds

LEMMA UnroutedTyped ==
  ASSUME Typed, NEW g, NEW sess, NEW r
  PROVE  Unrouted(g, sess, r) \in [Generations -> [Sessions -> Routes]]
  BY TablesTyped, Zero DEF Unrouted

LEMMA UnregisterRouteKeeps == ASSUME Inv, NEW a \in Attempts, UnregisterRoute(a) PROVE Inv'
<1> USE DEF Inv
<1>1. /\ thread[a].pc = "unroute" /\ Goes(a, "unbind")
      /\ UNCHANGED <<conn, born, pool, gate, pruner, closer, bounds, bound, attached, opened, work>>
  BY Going DEF UnregisterRoute, At, Calm, ThreadPcs
<1>2. route' \in [Generations -> [Sessions -> Routes]]
  BY UnroutedTyped DEF UnregisterRoute
<1>3. QED
  BY <1>1, <1>2, TablesTyped, Onward DEF Past, bounds

\* The prompt is over, and its connection is released.
LEMMA OverKeeps == ASSUME Inv, NEW a \in Attempts, Drop(a) \/ UnregisterAttempt(a) PROVE Inv'
<1> USE DEF Inv
<1>1. /\ thread[a].pc \in {"drop", "unbind"} /\ Becomes(a, "idle", NoOne, NoOne, NoOne)
      /\ UNCHANGED <<conn, born, pool, gate, pruner, closer, bounds, attached, route, opened, work>>
  BY GoingIdle DEF Drop, UnregisterAttempt, At, Calm, tables
<1>2. bound' \in [Attempts -> [gen : Gens, route : Routes]]
  BY Values, TablesTyped DEF Drop, UnregisterAttempt, tables
<1>3. Typed'
  BY <1>1, <1>2, Types, TypesNext DEF Becomes, Typed, TableType, WorkType, ActorType, bounds
<1>4. Shared'
  BY <1>1, Leaving DEF Past
<1>5. QED
  BY <1>3, <1>4

-----------------------------------------------------------------------------
(* Evictions, the settings, and the death of a connection.                 *)

LEMMA WorkKeeps == ASSUME Inv, NEW w \in Workers, Work(w) PROVE Inv'
<1> USE DEF Inv
<1> DEFINE e == work[w].entry
           Jobs == [pc : {"idle", "next", "decide", "close", "closed", "unbind", "unroute"},
                    kind : {"none", "evict", "detach"}, todo : SUBSET Entries,
                    entry : Entries \cup {NoEntry}]
<1>1. UNCHANGED <<conn, born, pool, gate, thread, pruner, closer, bounds>>
  BY DEF Work, NextEntry, Decide, CloseSession, CloseSessionFails, SessionClosed, Unbind,
         Unroute, Aside
<1>2. work[w] \in Jobs /\ NoWork \in Jobs
  BY DEF Typed, WorkType, NoWork
<1>3. bound' \in [Attempts -> [gen : Gens, route : Routes]]
  BY Values, TablesTyped DEF Work, NextEntry, Decide, CloseSession, CloseSessionFails,
     SessionClosed, Unbind, Unroute, tables
<1>4. attached' \in [Attempts -> Records] /\ opened' \subseteq Generations \X Sessions
  BY TablesTyped DEF Work, NextEntry, Decide, CloseSession, CloseSessionFails,
     SessionClosed, Unbind, Unroute, tables
<1>5. route' \in [Generations -> [Sessions -> Routes]]
  <2>1. CASE Unroute(w)
    BY <2>1, UnroutedTyped DEF Unroute
  <2>2. CASE SessionClosed(w)
    <3>1. route' = [route EXCEPT ![e.gen][s(e.of)] = 0]
      BY <2>2, Zero DEF SessionClosed, Todo
    <3>2. QED
      BY <3>1, TablesTyped, Zero
  <2>3. CASE ~ Unroute(w) /\ ~ SessionClosed(w)
    BY <2>3, TablesTyped DEF Work, NextEntry, Decide, CloseSession, CloseSessionFails, Unbind, tables
  <2>4. QED
    BY <2>1, <2>2, <2>3
<1>6. \E k \in Jobs : work' = [work EXCEPT ![w] = k]
  <2>1. ASSUME NEW pc \in {"close", "closed", "unbind", "unroute"}, To(w, pc)
        PROVE  \E k \in Jobs : work' = [work EXCEPT ![w] = k]
    <3>1. [work[w] EXCEPT !.pc = pc] \in Jobs
      BY <1>2
    <3>2. QED
      BY <2>1, <3>1 DEF To
  <2>2. CASE NextEntry(w)
    <3>1. PICK x \in work[w].todo :
            work' = [work EXCEPT ![w].pc = IF @ = "next" /\ work[w].kind = "evict" THEN "decide" ELSE "unbind",
                                 ![w].entry = x, ![w].todo = @ \ {x}]
      BY <2>2 DEF NextEntry
    <3> DEFINE pc == IF work[w].pc = "next" /\ work[w].kind = "evict" THEN "decide" ELSE "unbind"
               k == [work[w] EXCEPT !.pc = pc, !.entry = x, !.todo = work[w].todo \ {x}]
    <3>2. k \in Jobs
      BY <1>2
    <3>3. work' = [work EXCEPT ![w] = k]
      BY <3>1
    <3>4. QED
      BY <3>2, <3>3
  <2>3. CASE Unroute(w)
    <3>1. [work[w] EXCEPT !.pc = "next", !.entry = NoEntry] \in Jobs
      BY <1>2
    <3>2. QED
      BY <1>2, <2>3, <3>1 DEF Unroute
  <2>4. CASE ~ NextEntry(w) /\ ~ Unroute(w)
    BY <2>1, <2>4 DEF Work, Decide, CloseSession, CloseSessionFails, SessionClosed, Unbind
  <2>5. QED
    BY <2>2, <2>3, <2>4
<1>7. WorkType'
  BY <1>6 DEF Typed, WorkType
<1>8. Typed'
  BY <1>1, <1>3, <1>4, <1>5, <1>7, Types, TypesNext DEF Typed, TableType, ActorType, Records, bounds
<1>9. QED
  BY <1>1, <1>8, Aloof

LEMMA ChangeConfigKeeps == ASSUME Inv, ChangeConfig PROVE Inv'
<1>1. Typed'
  BY Constants, Types, TypesNext DEF Inv, ChangeConfig, Fault, Typed, TableType, WorkType,
     ActorType, tables
<1>2. Shared'
  BY Aloof DEF Inv, ChangeConfig
<1>3. QED
  BY <1>1, <1>2 DEF Inv

\* What a step that ends connection g for some cause does not depend on.
LEMMA EndedKeeps ==
  ASSUME Inv, NEW g \in Generations, conn[g].state # "unborn", NEW cause \in Causes \ {"init"},
         cause = "idle" => pruner.victim = g, CloseConnection(g, cause),
         UNCHANGED <<born, pool, gate, thread>>,
         pruner' = pruner \/ (pruner.victim = g /\ pruner'.victim = NoOne /\ pruner'.pc = "idle"),
         closer' = closer \/ (closer.gen = g /\ closer'.gen = NoOne /\ closer'.pc = "idle")
  PROVE  /\ conn' \in [Generations -> Conns] /\ route' \in [Generations -> [Sessions -> Routes]]
         /\ Shared'
<1> USE DEF Inv, Shared
<1>1. g <= born /\ NoOne <= born
  <2>1. g > born => conn[g].state = "unborn"
    BY DEF Born, Unborn
  <2>2. g \in Nat /\ born \in Nat
    BY Numbers DEF Typed, TableType
  <2>3. QED
    BY <2>1, <2>2, Zero
<1>2. /\ conn' \in [Generations -> Conns] /\ route' \in [Generations -> [Sessions -> Routes]]
      /\ \A h \in Generations : conn'[h].init = conn[h].init /\ (h # g => conn'[h] = conn[h])
      /\ conn'[g].cause \in {conn[g].cause, cause}
      /\ \A h \in Generations : h > born => conn'[h] = Unborn
      /\ \A h \in Generations : h <= born => conn'[h].state # "unborn"
      /\ \A h \in Generations : conn'[h].state \in {"open", "draining"} => h # g /\ Attended(h)
      /\ closer.gen # NoOne => conn'[closer.gen].state \in {"draining", "closed"}
  BY <1>1, Ending
<1>3. Born' /\ Gate'
  BY <1>1, <1>2 DEF Born, Gate
<1>4. Places'
  BY DEF Places
<1>5. Handshake' /\ ThreadStates'
  <2>1. Handshake'
    BY <1>2, Holding DEF Handshake, At, Conn
  <2>2. ThreadStates'
    BY <1>2, Holding DEF ThreadStates, Conn, Past
  <2>3. QED
    BY <2>1, <2>2
<1>6. Ended'
  <2>1. \A h \in Generations : InUse(h)' <=> InUse(h)
    BY DEF InUse
  <2>2. \A h \in Generations :
          /\ pruner'.victim = h \/ conn'[h].cause = "idle" => pruner.victim = h \/ conn[h].cause = "idle"
          /\ conn'[h].cause = "init" => conn[h].cause = "init"
    BY <1>2, Zero
  <2>3. QED
    BY <1>2, <2>1, <2>2 DEF Ended, RightlyEnded
<1>7. NoStray'
  BY <1>2 DEF NoStray, Attended
<1>8. Drained'
  BY <1>2 DEF Drained, DrainIsComplete, At
<1>9. QED
  BY <1>2, <1>3, <1>4, <1>5, <1>6, <1>7, <1>8

LEMMA DeathKeeps == ASSUME Inv, NEW g \in Generations, Death(g) PROVE Inv'
<1>1. /\ conn' \in [Generations -> Conns] /\ route' \in [Generations -> [Sessions -> Routes]]
      /\ Shared'
  BY EndedKeeps DEF Death, Causes
<1>2. faults' \in 0 .. MaxFaults
  BY Constants DEF Death, Fault, Inv, Typed, ActorType
<1>3. Typed'
  BY <1>1, <1>2, Types, TypesNext DEF Death, CalmBounds, Inv, Typed, TableType, WorkType, ActorType
<1>4. QED
  BY <1>1, <1>3 DEF Inv

-----------------------------------------------------------------------------
(* The pruner.                                                             *)

\* The pruner goes on without a connection of its own.
LEMMA Choosing ==
  ASSUME Shared, UNCHANGED <<conn, born, pool, gate, thread, closer>>,
         pruner'.victim = pruner.victim, pruner.pc # "shutdown", pruner'.pc # "shutdown"
  PROVE  Shared'
<1> USE DEF Shared
<1>1. Born' /\ Gate' /\ Places'
  BY DEF Born, Gate, Places
<1>2. Handshake' /\ ThreadStates'
  BY DEF Handshake, ThreadStates, At, Conn
<1>3. Ended' /\ NoStray' /\ Drained'
  BY DEF Ended, RightlyEnded, InUse, NoStray, Attended, Drained, DrainIsComplete, At
<1>4. QED
  BY <1>1, <1>2, <1>3

LEMMA PruneKeeps == ASSUME Inv, Prune PROVE Inv'
<1> USE DEF Inv
<1>1. PICK due \in SUBSET Attempts :
        /\ attached' = [a \in Attempts |-> IF a \in due THEN Detached ELSE attached[a]]
        /\ IF due = {} THEN UNCHANGED work ELSE Begun("pruner", "evict", {Entry(a) : a \in due})
  BY DEF Prune
<1>2. /\ UNCHANGED <<conn, born, pool, gate, bound, route, opened, thread, closer, config, begun>>
      /\ pruner' = [pruner EXCEPT !.pc = "snapshot"] /\ pruner.pc = "idle"
  BY DEF Prune, Pruner, CalmBounds
<1>3. pruner'.pc = "snapshot" /\ pruner'.victim = pruner.victim /\ pruner'.snap = pruner.snap
      /\ pruner' \in [pc : {"idle", "snapshot", "collect", "shutdown"}, snap : SUBSET Gens, victim : Gens]
  BY <1>2 DEF Typed, ActorType
<1>4. attached' \in [Attempts -> Records]
  BY <1>1, Values, TablesTyped DEF Records
<1>5. WorkType'
  <2>1. {Entry(a) : a \in due} \in SUBSET Entries
    BY EntryTyped
  <2>2. QED
    BY <1>1, <2>1, TablesTyped, BegunTyped DEF Workers
<1>6. faults' \in 0 .. MaxFaults
  BY Constants DEF Prune, Fault, Typed, ActorType
<1>7. Typed'
  BY <1>2, <1>3, <1>4, <1>5, <1>6, Types, TypesNext DEF Typed, TableType, ActorType, Records
<1>8. Shared'
  BY <1>2, <1>3, Choosing
<1>9. QED
  BY <1>7, <1>8

LEMMA SnapshotKeeps == ASSUME Inv, Snapshot PROVE Inv'
<1> USE DEF Inv
<1> DEFINE snap == {bound[a].gen : a \in Attempts} \ {NoOne}
<1>1. /\ UNCHANGED <<conn, born, pool, gate, tables, thread, work, closer, bounds>>
      /\ pruner' = [pruner EXCEPT !.pc = "collect", !.snap = snap] /\ pruner.pc = "snapshot"
  BY DEF Snapshot
<1>2. snap \in SUBSET Gens
  BY TablesTyped
<1>3. pruner'.pc = "collect" /\ pruner'.victim = pruner.victim
      /\ pruner' \in [pc : {"idle", "snapshot", "collect", "shutdown"}, snap : SUBSET Gens, victim : Gens]
  BY <1>1, <1>2 DEF Typed, ActorType
<1>4. Typed'
  BY <1>1, <1>3, Types, TypesNext DEF Typed, TableType, WorkType, ActorType, tables, bounds
<1>5. Shared'
  BY <1>1, <1>3, Choosing
<1>6. QED
  BY <1>4, <1>5

\* Nobody borrows the connection between the look at its users and its leaving the pool.
LEMMA CollectKeeps == ASSUME Inv, Collect PROVE Inv'
<1> USE DEF Inv
<1>1. /\ UNCHANGED <<conn, born, gate, tables, thread, work, closer, bounds>>
      /\ pruner.pc = "collect" /\ pool \in Gens
  BY DEF Collect, Typed, TableType
<1>2. \/ /\ pool # NoOne /\ ~InUse(pool) /\ pool' = NoOne
         /\ pruner'.pc = "shutdown" /\ pruner'.victim = pool
      \/ pool' = pool /\ pruner'.pc = "idle" /\ pruner'.victim = pruner.victim
  BY DEF Collect, Typed, ActorType
<1>3. pruner' \in [pc : {"idle", "snapshot", "collect", "shutdown"}, snap : SUBSET Gens, victim : Gens]
  BY <1>1 DEF Collect, Typed, ActorType
<1>4. Typed'
  BY <1>1, <1>2, <1>3, Zero, Types, TypesNext DEF Typed, TableType, WorkType, ActorType, tables, bounds
<1> USE DEF Shared
<1>5. Born'
  <2>1. NoOne <= born
    BY Zero, Numbers DEF Typed, TableType
  <2>2. QED
    BY <1>1, <1>2, <2>1 DEF Born
<1>6. Gate' /\ Places'
  BY <1>1, <1>2 DEF Gate, Places
<1>7. Handshake' /\ ThreadStates'
  BY <1>1 DEF Handshake, ThreadStates, At, Conn
<1>8. Ended'
  BY <1>1, <1>2, Zero DEF Ended, RightlyEnded, InUse, Places
<1>9. NoStray'
  BY <1>1, <1>2, Zero DEF NoStray, Attended, Places
<1>10. Drained'
  BY <1>1 DEF Drained, DrainIsComplete, At
<1>11. QED
  BY <1>4, <1>5, <1>6, <1>7, <1>8, <1>9, <1>10

LEMMA ShutdownIdleKeeps == ASSUME Inv, ShutdownIdle PROVE Inv'
<1> USE DEF Inv
<1> DEFINE g == pruner.victim
<1>1. pruner.pc = "shutdown" /\ g \in Generations /\ g <= born
  BY Zero, Numbers DEF ShutdownIdle, Typed, ActorType, Shared, Places, Born
<1>2. /\ UNCHANGED <<born, pool, gate, bound, attached, opened, thread, work, closer, bounds>>
      /\ CloseConnection(g, "idle")
      /\ pruner' = [pruner EXCEPT !.pc = "idle", !.victim = NoOne]
  BY DEF ShutdownIdle
<1>3. pruner'.victim = NoOne /\ pruner'.pc = "idle"
      /\ pruner' \in [pc : {"idle", "snapshot", "collect", "shutdown"}, snap : SUBSET Gens, victim : Gens]
  BY <1>2, Zero DEF Typed, ActorType
<1>4. /\ conn' \in [Generations -> Conns] /\ route' \in [Generations -> [Sessions -> Routes]]
      /\ Shared'
  BY <1>1, <1>2, <1>3, EndedKeeps DEF Causes, Shared, Born
<1>5. Typed'
  BY <1>2, <1>3, <1>4, Types, TypesNext DEF Typed, TableType, WorkType, ActorType, bounds
<1>6. QED
  BY <1>4, <1>5

-----------------------------------------------------------------------------
(* The close.                                                              *)

Closers == [pc : {"idle", "take", "look", "drain", "sessions", "forget", "shutdown"},
            gen : Gens, seen : SUBSET [of : Attempts, gen : Gens], cut : BOOLEAN]

\* The closer goes on with the connection it took, which is drained as far as it says.
LEMMA ClosingOn ==
  ASSUME Inv, UNCHANGED <<conn, born, pool, gate, thread, work, pruner, config, begun>>,
         closer' \in Closers, closer'.gen = closer.gen,
         closer.pc \in {"idle", "take"} <=> closer'.pc \in {"idle", "take"}, DrainIsComplete',
         bound' \in [Attempts -> [gen : Gens, route : Routes]], attached' \in [Attempts -> Records],
         route' \in [Generations -> [Sessions -> Routes]], opened' \subseteq Generations \X Sessions,
         faults' \in 0 .. MaxFaults
  PROVE  Inv'
<1> USE DEF Inv
<1>1. Typed'
  BY Types, TypesNext DEF Typed, TableType, WorkType, ActorType, Records, Closers
<1> USE DEF Shared
<1>2. Born' /\ Gate' /\ Places'
  BY DEF Born, Gate, Places
<1>3. Handshake' /\ ThreadStates'
  BY DEF Handshake, ThreadStates, At, Conn
<1>4. Ended' /\ NoStray' /\ Drained'
  BY DEF Ended, RightlyEnded, InUse, NoStray, Attended, Drained
<1>5. QED
  BY <1>1, <1>2, <1>3, <1>4

\* What is seen stays seen when the closer goes on.
LEMMA CloserGoes ==
  ASSUME Inv, NEW pc \in {"idle", "take", "look", "drain", "sessions", "forget", "shutdown"}, Closer(pc)
  PROVE  /\ closer' \in Closers /\ closer'.pc = pc /\ closer'.gen = closer.gen
         /\ closer'.seen = closer.seen /\ closer'.cut = closer.cut
  BY DEF Inv, Typed, ActorType, Closers, Closer

LEMMA CloseKeeps == ASSUME Inv, Close PROVE Inv'
<1>1. /\ UNCHANGED <<conn, born, pool, gate, thread, work, pruner, config, begun, bound, opened>>
      /\ closer.pc = "idle" /\ Closer("take")
  BY DEF Close, Here
<1>2. faults' \in 0 .. MaxFaults
  BY Constants DEF Close, Fault, Inv, Typed, ActorType
<1>3. attached' \in [Attempts -> Records] /\ route' \in [Generations -> [Sessions -> Routes]]
  <2>1. CASE UNCHANGED <<attached, route>>
    BY <2>1, TablesTyped DEF Inv
  <2>2. CASE attached' = [a \in Attempts |-> Detached] /\ ~ UNCHANGED <<attached, route>>
    <3>1. attached' \in [Attempts -> Records]
      BY <2>2, Values DEF Records
    <3>2. route' = [g \in Generations |-> [ss \in Sessions |->
             IF \E a \in Attempts : s(a) = ss /\ attached[a].gen = g /\ route[g][ss] = attached[a].route
             THEN NoOne ELSE route[g][ss]]]
      BY <2>2 DEF Close
    <3>3. \A g \in Generations : \A ss \in Sessions : NoOne \in Routes /\ route[g][ss] \in Routes
      BY Zero, TablesTyped DEF Inv
    <3>4. QED
      BY <3>1, <3>2, <3>3
  <2>3. QED
    BY <2>1, <2>2 DEF Close
<1>4. closer' \in Closers /\ closer'.pc = "take" /\ closer'.gen = closer.gen
  BY <1>1, CloserGoes
<1>5. DrainIsComplete'
  BY <1>4 DEF DrainIsComplete
<1>6. QED
  BY <1>1, <1>2, <1>3, <1>4, <1>5, TablesTyped, ClosingOn DEF Inv

\* The connection leaves the pool and takes no request from then on.
LEMMA TakeKeeps == ASSUME Inv, Take PROVE Inv'
<1> USE DEF Inv
<1>1. /\ UNCHANGED <<born, gate, thread, work, pruner, config, begun, tables, faults>>
      /\ closer.pc = "take" /\ pool \in Gens
  BY DEF Take, Here, Typed, TableType
<1>2. CASE pool = NoOne
  <2>1. Closer("idle") /\ UNCHANGED <<conn, pool>>
    BY <1>2 DEF Take
  <2>2. closer' \in Closers /\ closer'.pc = "idle" /\ closer'.gen = closer.gen
    BY <2>1, CloserGoes
  <2>3. DrainIsComplete'
    BY <2>2 DEF DrainIsComplete
  <2>4. QED
    BY <1>1, <2>1, <2>2, <2>3, TablesTyped, ClosingOn DEF tables
<1>3. CASE pool # NoOne
  <2> DEFINE g == pool
             c == [conn[g] EXCEPT !.state = IF Closed(g) THEN "closed" ELSE "draining"]
  <2>1. g \in Generations /\ conn[g] \in Conns /\ g <= born /\ conn[g].state # "unborn"
    BY <1>1, <1>3, Zero, Numbers, Types DEF Typed, Shared, Born
  <2>2. /\ c \in Conns /\ c.state \in {"draining", "closed"} /\ c.init = conn[g].init
        /\ c.cause = conn[g].cause
    BY <2>1 DEF Conns, States
  <2>3. /\ conn' = [conn EXCEPT ![g] = c] /\ pool' = NoOne
        /\ closer' = [closer EXCEPT !.pc = "look", !.gen = g]
    BY <1>3 DEF Take
  <2>4. /\ conn' \in [Generations -> Conns] /\ conn'[g] = c
        /\ \A h \in Generations : /\ conn'[h].init = conn[h].init /\ conn'[h].cause = conn[h].cause
                                  /\ h # g => conn'[h] = conn[h]
    <3> HIDE DEF c
    <3> QED BY <2>1, <2>2, <2>3, Types DEF Typed
  <2>5. closer' \in Closers /\ closer'.pc = "look" /\ closer'.gen = g
    BY <1>1, <2>3 DEF Typed, ActorType, Closers
  <2>6. Typed'
    BY <1>1, <2>3, <2>4, <2>5, Zero, Types, TypesNext DEF Typed, TableType, WorkType, ActorType,
       Closers, tables
  <2> USE DEF Shared
  <2>7. closer.gen = NoOne
    BY <1>1 DEF Places
  <2>8. Born'
    <3>1. NoOne <= born /\ ~ (g > born)
      BY <2>1, Zero, Numbers DEF Typed, TableType
    <3>2. c.state # "unborn"
      BY <2>2
    <3> HIDE DEF c
    <3>3. \A h \in Generations : h > born => conn'[h] = Unborn
      BY <2>4, <3>1 DEF Born
    <3>4. \A h \in Generations : h <= born => conn'[h].state # "unborn"
      BY <2>4, <3>2 DEF Born
    <3>5. QED
      BY <1>1, <2>1, <2>3, <2>5, <3>1, <3>3, <3>4 DEF Born
  <2>9. Gate' /\ Places'
    BY <1>1, <1>3, <2>3, <2>5 DEF Gate, Places
  <2>10. Handshake'
    BY <1>1, <2>4, Holding DEF Handshake, At, Conn
  <2>11. ThreadStates'
    BY <1>1, <2>4, Holding DEF ThreadStates, Conn, Past
  <2>12. Ended'
    <3>1. \A h \in Generations : InUse(h)' <=> InUse(h)
      BY <1>1 DEF InUse
    <3>2. \A h \in Generations : h # pool'
      BY <2>3, Zero
    <3>3. QED
      BY <1>1, <2>4, <3>1, <3>2 DEF Ended, RightlyEnded
  <2>13. NoStray'
    BY <1>1, <2>1, <2>3, <2>4, <2>5, <2>7, Zero DEF NoStray, Attended
  <2>14. Drained'
    BY <2>2, <2>4, <2>5 DEF Drained, DrainIsComplete
  <2>15. QED
    BY <2>6, <2>8, <2>9, <2>10, <2>11, <2>12, <2>13, <2>14
<1>4. QED
  BY <1>2, <1>3

LEMMA LookAtBoundKeeps == ASSUME Inv, LookAtBound PROVE Inv'
<1> DEFINE seen == {[of |-> a, gen |-> bound[a].gen] : a \in {b \in Attempts : bound[b] # Unbound}}
<1>1. /\ UNCHANGED <<conn, born, pool, gate, thread, work, pruner, config, begun, tables, faults>>
      /\ closer.pc = "look" /\ closer' = [closer EXCEPT !.pc = "drain", !.seen = seen]
  BY DEF LookAtBound, Here
<1>2. seen \in SUBSET [of : Attempts, gen : Gens]
  BY TablesTyped DEF Inv
<1>3. closer' \in Closers /\ closer'.pc = "drain" /\ closer'.gen = closer.gen
  BY <1>1, <1>2 DEF Inv, Typed, ActorType, Closers
<1>4. DrainIsComplete'
  BY <1>3 DEF DrainIsComplete
<1>5. QED
  BY <1>1, <1>3, <1>4, TablesTyped, ClosingOn DEF Inv, tables

\* The drain ends when nobody that was bound to the connection prompts there, or is cut short.
LEMMA DrainKeeps == ASSUME Inv, Drain PROVE Inv'
<1>1. /\ UNCHANGED <<conn, born, pool, gate, thread, work, pruner, config, begun, tables, faults>>
      /\ closer.pc = "drain" /\ closer' = [closer EXCEPT !.pc = "sessions", !.cut = Waited # {}]
  BY DEF Drain, Here
<1>2. /\ closer' \in Closers /\ closer'.pc = "sessions" /\ closer'.gen = closer.gen
      /\ closer'.seen = closer.seen /\ closer'.cut = (Waited # {})
  BY <1>1 DEF Inv, Typed, ActorType, Closers
<1>3. DrainIsComplete'
  <2> SUFFICES ASSUME Waited = {}, NEW e \in closer.seen, e.gen = closer.gen,
                      thread[e.of].use = closer.gen, thread[e.of].pc = "prompting"
               PROVE  FALSE
    BY <1>1, <1>2 DEF DrainIsComplete, At
  <2>1. e.of \in Attempts
    BY DEF Inv, Typed, ActorType
  <2>2. e.of \in Counted(closer.gen) /\ s(e.of) \in Listed
    BY <2>1 DEF Counted, Listed
  <2>3. QED
    BY <2>2 DEF Waited
<1>4. QED
  BY <1>1, <1>2, <1>3, TablesTyped, ClosingOn DEF Inv, tables

LEMMA CloseSessionsKeeps == ASSUME Inv, CloseSessions PROVE Inv'
<1>1. /\ UNCHANGED <<conn, born, pool, gate, thread, work, pruner, config, begun, bound, attached, faults>>
      /\ closer.pc = "sessions" /\ Closer("forget")
  BY DEF CloseSessions, Here
<1>2. /\ closer' \in Closers /\ closer'.pc = "forget" /\ closer'.gen = closer.gen
      /\ closer'.seen = closer.seen /\ closer'.cut = closer.cut
  BY <1>1, CloserGoes
<1>3. opened' \subseteq Generations \X Sessions
  BY TablesTyped DEF CloseSessions, Inv
<1>4. route' \in [Generations -> [Sessions -> Routes]]
  <2> DEFINE left == [ss \in Sessions |-> IF ss \in Listed THEN NoOne ELSE route[closer.gen][ss]]
  <2>1. route' = route \/ route' = [route EXCEPT ![closer.gen] = left]
    BY DEF CloseSessions
  <2>2. closer.gen \in Generations => left \in [Sessions -> Routes]
    BY TablesTyped, Zero DEF Inv
  <2>3. QED
    <3> HIDE DEF left
    <3> QED BY <2>1, <2>2, TablesTyped DEF Inv
<1>5. DrainIsComplete'
  BY <1>1, <1>2 DEF Inv, Shared, Drained, DrainIsComplete, At
<1>6. QED
  BY <1>1, <1>2, <1>3, <1>4, <1>5, TablesTyped, ClosingOn DEF Inv

LEMMA ForgetKeeps == ASSUME Inv, Forget PROVE Inv'
<1>1. /\ UNCHANGED <<conn, born, pool, gate, thread, work, pruner, config, begun, attached, route,
                     opened, faults>>
      /\ closer.pc = "forget" /\ Closer("shutdown")
  BY DEF Forget, Here
<1>2. /\ closer' \in Closers /\ closer'.pc = "shutdown" /\ closer'.gen = closer.gen
      /\ closer'.seen = closer.seen /\ closer'.cut = closer.cut
  BY <1>1, CloserGoes
<1>3. bound' \in [Attempts -> [gen : Gens, route : Routes]]
  BY Values, TablesTyped DEF Forget, Inv
<1>4. DrainIsComplete'
  BY <1>1, <1>2 DEF Inv, Shared, Drained, DrainIsComplete, At
<1>5. QED
  BY <1>1, <1>2, <1>3, <1>4, TablesTyped, ClosingOn DEF Inv

LEMMA ShutdownClosedKeeps == ASSUME Inv, ShutdownClosed PROVE Inv'
<1> USE DEF Inv
<1> DEFINE g == closer.gen
<1>1. /\ UNCHANGED <<born, gate, thread, work, pruner, config, begun, pool, bound, attached, opened, faults>>
      /\ closer.pc = "shutdown" /\ CloseConnection(g, "close")
      /\ closer' = [pc |-> "idle", gen |-> NoOne, seen |-> {}, cut |-> FALSE]
  BY DEF ShutdownClosed, Here
<1>2. g \in Generations /\ conn[g].state # "unborn"
  <2>1. g # NoOne /\ g \in Gens
    BY <1>1 DEF Typed, ActorType, Shared, Places
  <2>2. QED
    BY <2>1, Zero, Numbers DEF Shared, Drained
<1>3. closer'.gen = NoOne /\ closer'.pc = "idle" /\ closer' \in Closers
  BY <1>1, Zero DEF Closers
<1>4. /\ conn' \in [Generations -> Conns] /\ route' \in [Generations -> [Sessions -> Routes]]
      /\ Shared'
  BY <1>1, <1>2, <1>3, EndedKeeps DEF Causes
<1>5. Typed'
  BY <1>1, <1>3, <1>4, Types, TypesNext DEF Typed, TableType, WorkType, ActorType, Closers
<1>6. QED
  BY <1>4, <1>5

-----------------------------------------------------------------------------
(* The theorems.                                                           *)

LEMMA InitInv == Init => Inv
<1> SUFFICES ASSUME Init PROVE Inv
  OBVIOUS
<1>1. Idle \in Threads /\ Unborn \in Conns
  BY Zero DEF Idle, Threads, ThreadPcs, Unborn, Conns, States, Inits, Causes
<1>2. Typed
  BY <1>1, Zero, Values, Constants, Types DEF Init, Typed, TableType, WorkType, ActorType, NoWork, Routes
<1>3. \A a \in Attempts : thread[a].pc = "idle" /\ thread[a].use = 0 /\ thread[a].got = 0 /\ thread[a].seen = 0
  BY Zero DEF Init, Idle
<1>4. \A g \in Generations : conn[g] = Unborn /\ g > 0
  BY Constants DEF Init, Generations
<1>5. Born /\ Gate
  BY <1>3, <1>4, Zero, Numbers DEF Init, Born, Gate
<1>6. Places /\ Handshake
  BY <1>3, Zero DEF Init, Places, Connected, Past, Handshake, At
<1>7. ThreadStates /\ Ended /\ NoStray /\ Drained
  BY <1>3, <1>4, Zero DEF Init, ThreadStates, Ended, RightlyEnded, InUse, NoStray, Drained,
     DrainIsComplete, Unborn
<1>8. QED
  BY <1>2, <1>5, <1>6, <1>7 DEF Inv, Shared

LEMMA NextInv == Inv /\ [Next]_vars => Inv'
<1> SUFFICES ASSUME Inv, [Next]_vars PROVE Inv'
  OBVIOUS
<1>1. ASSUME NEW a \in Attempts, Begin(a) PROVE Inv'
  BY <1>1, BeginKeeps
<1>2. ASSUME NEW a \in Attempts, Serve(a) PROVE Inv'
  <2>1. CASE Look(a) \/ Borrow(a) \/ EnterGate(a) \/ RemoveStale(a) \/ ShutdownStale(a)
             \/ Spawn(a) \/ SpawnFails(a) \/ Insert(a)
    BY <2>1, LookKeeps, BorrowKeeps, EnterGateKeeps, RemoveStaleKeeps, ShutdownStaleKeeps,
       SpawnKeeps, SpawnFailsKeeps, InsertKeeps
  <2>2. CASE Initialize(a) \/ InitializedAlready(a) \/ InitializeAnswered(a) \/ InitializeFails(a)
             \/ Evict(a) \/ ShutdownFailed(a) \/ Retry(a) \/ Cancelled(a)
    BY <2>2, InitializeKeeps, InitializedAlreadyKeeps, InitializeAnsweredKeeps,
       InitializeFailsKeeps, EvictKeeps, ShutdownFailedKeeps, RetryKeeps, CancelledKeeps
  <2>3. CASE Acquire(a) \/ Reuse(a) \/ Reload(a) \/ EnsureAlias(a) \/ Restore(a) \/ Restored(a)
             \/ RestoreFails(a) \/ RegisterRoute(a) \/ Bind(a) \/ EnsureTransfer(a) \/ DetachAliases(a)
    BY <2>3, AcquireKeeps, QuietSteps, ReloadKeeps, RestoreKeeps, RegisterRouteKeeps, BindKeeps,
       DetachAliasesKeeps
  <2>4. CASE BeginPrompt(a) \/ MarkActive(a) \/ SendPrompt(a) \/ PromptEnds(a) \/ PromptFails(a)
             \/ Release(a) \/ Drop(a) \/ Shutdown(a) \/ UnregisterRoute(a) \/ UnregisterAttempt(a)
    BY <2>4, QuietSteps, PromptFailsKeeps, ReleaseKeeps, OverKeeps, ShutdownKeeps, UnregisterRouteKeeps
  <2>5. QED
    BY <1>2, <2>1, <2>2, <2>3, <2>4 DEF Serve
<1>3. ASSUME NEW w \in Workers, Work(w) PROVE Inv'
  BY <1>3, WorkKeeps
<1>4. ASSUME NEW g \in Generations, Death(g) PROVE Inv'
  BY <1>4, DeathKeeps
<1>5. CASE Prune \/ PrunerStep
  BY <1>5, PruneKeeps, SnapshotKeeps, CollectKeeps, ShutdownIdleKeeps DEF PrunerStep
<1>6. CASE Close \/ CloserStep
  BY <1>6, CloseKeeps, TakeKeeps, LookAtBoundKeeps, DrainKeeps, CloseSessionsKeeps, ForgetKeeps,
     ShutdownClosedKeeps DEF CloserStep
<1>7. CASE UNCHANGED vars
  <2>1. Typed'
    BY <1>7, Types, TypesNext DEF vars, Inv, Typed, TableType, WorkType, ActorType
  <2>2. QED
    BY <1>7, <2>1, Aloof DEF vars, Inv
<1>8. QED
  BY <1>1, <1>2, <1>3, <1>4, <1>5, <1>6, <1>7, ChangeConfigKeeps DEF Next

LEMMA Invariance == Spec => []Inv
  BY InitInv, NextInv, PTL DEF Spec

\* Every table, thread and worker is in one of its states, and no prompt goes past the
\* handshake of its connection before it has succeeded (initialize_once).
THEOREM PoolTyped == Spec => []TypeOK
<1>1. Inv => TypeOK
  BY DEF Inv, Typed, Shared, TypeOK
<1>2. QED
  BY <1>1, Invariance, PTL

\* Nobody's connection is ended for a reason that is another's: the idle eviction ends none
\* that a prompt holds, and a failed handshake ends the connection that failed.
THEOREM ConnectionsRightlyEnded == Spec => []RightlyEnded
<1>1. Inv => RightlyEnded
  BY DEF Inv, Shared, Ended
<1>2. QED
  BY <1>1, Invariance, PTL

\* No agent process is left behind: a connection that is not closed is in the pool, or
\* somebody who is still at it will put it there or end it.
THEOREM NoProcessLeftBehind == Spec => []NoStray
<1>1. Inv => NoStray
  BY DEF Inv, Shared
<1>2. QED
  BY <1>1, Invariance, PTL

\* Past a drain that was not cut short, no attempt that was bound to the connection has a
\* prompt in flight there.
THEOREM DrainsAreComplete == Spec => []DrainIsComplete
<1>1. Inv => DrainIsComplete
  BY DEF Inv, Shared, Drained
<1>2. QED
  BY <1>1, Invariance, PTL
=============================================================================
