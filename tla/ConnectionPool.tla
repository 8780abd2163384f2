--------------------------- MODULE ConnectionPool ---------------------------
(***************************************************************************)
(* The connections to the agent processes of one provider in one workspace *)
(* (src/src/acp/connection.rs) and the prompts that borrow them            *)
(* (src/src/acp/client.rs).                                                *)
(*                                                                         *)
(* Five tables are shared, each under a lock of its own and none held      *)
(* while a process is started, asked or ended: the pool, the gate of       *)
(* creation, the bindings of attempts to provider sessions, the registry   *)
(* of sessions that stay attached between prompts, and the routes of each  *)
(* connection.  Whoever takes an entry out of a table acts on it later,    *)
(* when the tables may have moved on.                                      *)
(*                                                                         *)
(* An attempt serves one prompt at a time (the prompt lock), and attempts  *)
(* may continue the same provider session.  Each action is a critical      *)
(* section of one lock, or the answer of the agent to one request.         *)
(***************************************************************************)
EXTENDS Naturals, FiniteSets

CONSTANTS
  Attempts,
  Sessions,
  Session,         \* the provider session each attempt continues
  MaxConnections,  \* bound: processes started; a start beyond it fails
  MaxPrompts,      \* bound: prompts begun
  MaxFaults,       \* bound: deaths, refusals, cancellations, edits, prunings and closes
  Environment      \* subset of {"idle", "death", "refusal", "timeout", "cancel", "config", "close"}

ASSUME SessionAssumption == Session \in [Attempts -> Sessions]
ASSUME BoundsAssumption == {MaxConnections, MaxPrompts, MaxFaults} \subseteq Nat
ASSUME PrunerAssumption == "pruner" \notin Attempts

Generations == 1 .. MaxConnections
NoOne == 0                   \* no connection, no route
Prompts == 1 .. MaxPrompts   \* a prompt's number stands for the route it registers
Workers == Attempts \cup {"pruner"}

VARIABLES
  conn,      \* the connections: state, initialization, settings, why it was closed
  born,      \* the connections so far
  pool,      \* the connection of the key
  gate,      \* who holds the gate of creation: a set of at most one attempt
  bound,     \* the binding of each attempt: connection and route
  attached,  \* the registry of attached sessions: connection, route, in use
  route,     \* the route of each session on each connection
  opened,    \* the sessions each agent process has open
  thread,    \* the prompt each attempt serves
  work,      \* the evictions and detachments going on
  pruner,    \* the eviction of idle connections
  closer,    \* the close of the provider's or the workspace's connection
  config,    \* the settings of the agent
  begun, faults

vars == <<conn, born, pool, gate, bound, attached, route, opened, thread, work,
          pruner, closer, config, begun, faults>>
tables == <<bound, attached, route, opened>>
bounds == <<config, begun, faults>>

Unborn == [state |-> "unborn", init |-> "no", config |-> 0, cause |-> "none"]
Unbound == [gen |-> NoOne, route |-> NoOne]
Detached == [gen |-> NoOne, route |-> NoOne, active |-> FALSE]
\* A thread: its prompt, its connection, the one it is about to get, the one it saw.
Idle == [pc |-> "idle", no |-> NoOne, use |-> NoOne, got |-> NoOne, seen |-> NoOne,
         tries |-> 0, config |-> 0, lost |-> FALSE, route |-> NoOne]
NoEntry == [of |-> "none", gen |-> NoOne, route |-> NoOne]
NoWork == [pc |-> "idle", kind |-> "none", todo |-> {}, entry |-> NoEntry]

Init ==
  /\ conn = [g \in Generations |-> Unborn] /\ born = 0
  /\ pool = NoOne /\ gate = {}
  /\ bound = [a \in Attempts |-> Unbound]
  /\ attached = [a \in Attempts |-> Detached]
  /\ route = [g \in Generations |-> [s \in Sessions |-> NoOne]]
  /\ opened = {}
  /\ thread = [a \in Attempts |-> Idle]
  /\ work = [w \in Workers |-> NoWork]
  /\ pruner = [pc |-> "idle", snap |-> {}, victim |-> NoOne]
  /\ closer = [pc |-> "idle", gen |-> NoOne, seen |-> {}, cut |-> FALSE]
  /\ config = 0 /\ begun = 0 /\ faults = 0

-----------------------------------------------------------------------------
(* Connections. *)

At(a, pc) == thread[a].pc = pc
Go(a, pc) == thread' = [thread EXCEPT ![a].pc = pc]
Conn(a) == conn[thread[a].use]
Closed(g) == conn[g].state = "closed"
InUse(g) == \E a \in Attempts : g \in {thread[a].use, thread[a].got}
\* The prompts the tracker of a connection counts.
Counted(g) == {a \in Attempts : thread[a].use = g /\ thread[a].pc \in {"send", "prompting"}}
Fault(kind) == kind \in Environment /\ faults < MaxFaults /\ faults' = faults + 1
CalmBounds == UNCHANGED <<config, begun>>

\* mark_transport_closed: the first cause counts, and every route ends.
CloseConnection(g, cause) ==
  /\ conn' = [conn EXCEPT ![g].state = "closed", ![g].cause = IF Closed(g) THEN @ ELSE cause]
  /\ route' = [route EXCEPT ![g] = [s \in Sessions |-> NoOne]]

\* The agent process ends, or its pipe breaks.
Death(g) ==
  /\ conn[g].state \in {"open", "draining"}
  /\ Fault("death")
  /\ CloseConnection(g, "death")
  /\ UNCHANGED <<born, pool, gate, bound, attached, opened, thread, work, pruner, closer>>
  /\ CalmBounds

ChangeConfig ==
  /\ Fault("config") /\ config = 0 /\ config' = 1
  /\ UNCHANGED <<conn, born, pool, gate, tables, thread, work, pruner, closer, begun>>

-----------------------------------------------------------------------------
(* A prompt obtains its connection: get_or_spawn_with_outcome.             *)

PoolOnly == UNCHANGED <<tables, work, pruner, closer, bounds>>

Begin(a) ==
  /\ At(a, "idle") /\ begun < MaxPrompts
  /\ begun' = begun + 1
  /\ thread' = [thread EXCEPT ![a] = [Idle EXCEPT !.pc = "look", !.no = begun + 1, !.config = config]]
  /\ UNCHANGED <<conn, born, pool, gate, tables, work, pruner, closer, config, faults>>

Healthy(a, g) == conn[g].config = thread[a].config /\ ~Closed(g)
Missed(a) == Go(a, IF a \in gate THEN "remove" ELSE "gate")

\* The health of the pooled connection is checked outside the pool's lock.
Look(a) ==
  /\ At(a, "look")
  /\ IF pool # NoOne /\ Healthy(a, pool)
     THEN thread' = [thread EXCEPT ![a].pc = "borrow", ![a].seen = pool]
     ELSE Missed(a)
  /\ UNCHANGED <<conn, born, pool, gate>> /\ PoolOnly

\* The connection is the thread's now; the one it had before is released.
Obtained(t, g) == [t EXCEPT !.pc = "init", !.use = g, !.got = NoOne, !.seen = NoOne]

Borrow(a) ==
  /\ At(a, "borrow")
  /\ IF pool = thread[a].seen
     THEN thread' = [thread EXCEPT ![a] = Obtained(@, pool)] /\ gate' = gate \ {a}
     ELSE Missed(a) /\ UNCHANGED gate
  /\ UNCHANGED <<conn, born, pool>> /\ PoolOnly

\* (faulty variant) nobody waits.
EnterGateAnyway(a) ==
  /\ At(a, "gate")
  /\ gate' = {a}
  /\ Go(a, "look")
  /\ UNCHANGED <<conn, born, pool>> /\ PoolOnly

EnterGate(a) ==
  /\ At(a, "gate") /\ gate = {}
  /\ gate' = {a}
  /\ Go(a, "look")
  /\ UNCHANGED <<conn, born, pool>> /\ PoolOnly

RemoveStale(a) ==
  /\ At(a, "remove")
  /\ pool' = NoOne
  /\ thread' = [thread EXCEPT ![a].pc = IF pool = NoOne THEN "spawn" ELSE "replace",
                              ![a].seen = pool]
  /\ UNCHANGED <<conn, born, gate>> /\ PoolOnly

ShutdownStale(a) ==
  /\ At(a, "replace")
  /\ CloseConnection(thread[a].seen, "stale")
  /\ thread' = [thread EXCEPT ![a].pc = "spawn", ![a].seen = NoOne]
  /\ UNCHANGED <<born, pool, gate, bound, attached, opened, work, pruner, closer, bounds>>

Spawn(a) ==
  /\ At(a, "spawn") /\ born < MaxConnections
  /\ born' = born + 1
  /\ conn' = [conn EXCEPT ![born + 1] = [Unborn EXCEPT !.state = "open", !.config = thread[a].config]]
  /\ thread' = [thread EXCEPT ![a].pc = "insert", ![a].got = born + 1]
  /\ UNCHANGED <<pool, gate>> /\ PoolOnly

\* (faulty variant) the gate stays shut.
SpawnFailsAtGate(a) ==
  /\ At(a, "spawn") /\ born = MaxConnections
  /\ thread' = [thread EXCEPT ![a] = Idle]
  /\ UNCHANGED <<conn, born, pool, gate>> /\ PoolOnly

SpawnFails(a) ==
  /\ At(a, "spawn") /\ born = MaxConnections
  /\ thread' = [thread EXCEPT ![a] = Idle]
  /\ gate' = gate \ {a}
  /\ UNCHANGED <<conn, born, pool>> /\ PoolOnly

Insert(a) ==
  /\ At(a, "insert")
  /\ pool' = thread[a].got
  /\ thread' = [thread EXCEPT ![a] = Obtained(@, thread[a].got)]
  /\ gate' = gate \ {a}
  /\ UNCHANGED <<conn, born>> /\ PoolOnly

-----------------------------------------------------------------------------
(* The handshake, once per connection: initialize_once, and what follows   *)
(* when it fails: evict_if_current, a second connection.                   *)

Initialized(g, init) == conn' = [conn EXCEPT ![g].init = init]
Step(a) == UNCHANGED <<born, pool, gate, tables, work, pruner, closer, config, begun>>

\* One thread sends the request, unless the connection is draining or closed.
Initialize(a) ==
  /\ At(a, "init") /\ Conn(a).init = "no"
  /\ IF Conn(a).state = "open"
     THEN Initialized(thread[a].use, "going") /\ Go(a, "initializing")
     ELSE /\ Initialized(thread[a].use, "failed")
          /\ thread' = [thread EXCEPT ![a].pc = "evict", ![a].lost = TRUE]
  /\ Step(a) /\ UNCHANGED faults

\* (faulty variant) nobody waits.
InitializedSoon(a) ==
  /\ At(a, "init") /\ Conn(a).init # "no"
  /\ thread' = [thread EXCEPT ![a].pc = IF Conn(a).init = "failed" THEN "evict" ELSE "acquire",
                              ![a].lost = FALSE]
  /\ UNCHANGED conn /\ Step(a) /\ UNCHANGED faults

\* The others wait for it.
InitializedAlready(a) ==
  /\ At(a, "init") /\ Conn(a).init \in {"done", "failed"}
  /\ thread' = [thread EXCEPT ![a].pc = IF Conn(a).init = "done" THEN "acquire" ELSE "evict",
                              ![a].lost = FALSE]
  /\ UNCHANGED conn /\ Step(a) /\ UNCHANGED faults

InitializeAnswered(a) ==
  /\ At(a, "initializing") /\ ~Closed(thread[a].use)
  /\ Initialized(thread[a].use, "done")
  /\ Go(a, "acquire")
  /\ Step(a) /\ UNCHANGED faults

\* The connection is gone, or the agent refuses or does not answer in time.
InitializeFails(a) ==
  /\ At(a, "initializing")
  /\ \/ Closed(thread[a].use) /\ UNCHANGED faults
     \/ ~Closed(thread[a].use) /\ Fault("refusal")
  /\ Initialized(thread[a].use, "failed")
  /\ thread' = [thread EXCEPT ![a].pc = "evict", ![a].lost = Closed(thread[a].use)]
  /\ Step(a)

\* Only the connection that failed leaves the pool.
Evict(a) ==
  /\ At(a, "evict")
  /\ IF pool = thread[a].use
     THEN pool' = NoOne /\ thread' = [thread EXCEPT ![a].pc = "evicted", ![a].seen = pool]
     ELSE Go(a, "retry") /\ UNCHANGED pool
  /\ UNCHANGED <<conn, born, gate>> /\ PoolOnly

ShutdownFailed(a) ==
  /\ At(a, "evicted")
  /\ CloseConnection(thread[a].seen, "init")
  /\ thread' = [thread EXCEPT ![a].pc = "retry", ![a].seen = NoOne]
  /\ UNCHANGED <<born, pool, gate, bound, attached, opened, work, pruner, closer, bounds>>

\* A second connection is tried.  Then a lost one settles the prompt as interrupted,
\* any other error ends it.
Retry(a) ==
  /\ At(a, "retry")
  /\ thread' = [thread EXCEPT ![a] =
       IF thread[a].tries = 0 THEN [@ EXCEPT !.pc = "look", !.tries = 1]
       ELSE IF thread[a].lost THEN [@ EXCEPT !.pc = "shutdown"] ELSE Idle]
  /\ UNCHANGED <<conn, born, pool, gate>> /\ PoolOnly

\* The user stops a prompt that has not been sent, or that the agent does not end.
Cancelled(a) ==
  /\ thread[a].pc \in {"init", "acquire", "retry", "prompting"}
  /\ Fault("cancel")
  /\ Go(a, "shutdown")
  /\ UNCHANGED conn /\ Step(a)

-----------------------------------------------------------------------------
(* The provider session: an attached one is used again, or the session is  *)
(* restored, bound and routed anew.                                        *)

s(a) == Session[a]
Entry(a) == [of |-> a, gen |-> attached[a].gen, route |-> attached[a].route]
Begun(w, kind, todo) ==
  work' = [work EXCEPT ![w] = [NoWork EXCEPT !.pc = "next", !.kind = kind, !.todo = todo]]
Calm == UNCHANGED <<conn, born, pool, gate, pruner, closer, bounds>>

\* AcpSessionRuntimeRegistry::acquire; an entry of another connection is evicted.
Acquire(a) ==
  /\ At(a, "acquire")
  /\ IF attached[a].gen = NoOne
     THEN Go(a, "alias") /\ UNCHANGED <<attached, work>>
     ELSE IF attached[a].gen = thread[a].use /\ ~Closed(thread[a].use)
     THEN /\ attached' = [attached EXCEPT ![a].active = TRUE]
          /\ thread' = [thread EXCEPT ![a].pc = "reuse", ![a].route = attached[a].route]
          /\ UNCHANGED work
     ELSE /\ attached' = [attached EXCEPT ![a] = Detached]
          /\ Go(a, "alias")
          /\ Begun(a, "evict", {Entry(a)})
  /\ UNCHANGED <<bound, route, opened>> /\ Calm

Reuse(a) ==
  /\ At(a, "reuse")
  /\ Go(a, "ready")
  /\ UNCHANGED <<tables, work>> /\ Calm

\* The settings or the history changed: detach_for_reload.
Reload(a) ==
  /\ At(a, "reuse")
  /\ attached' = [attached EXCEPT ![a] = Detached]
  /\ IF attached[a].gen = NoOne THEN UNCHANGED work ELSE Begun(a, "detach", {Entry(a)})
  /\ thread' = [thread EXCEPT ![a].pc = "alias", ![a].route = NoOne]
  /\ UNCHANGED <<bound, route, opened>> /\ Calm

\* Whoever has its own evictions to finish goes on afterwards.
Free(a) == work[a].pc = "idle"

\* ensure_alias_transfer_available
Aliases(a) == {b \in Attempts \ {a} : s(b) = s(a) /\ attached[b].gen = thread[a].use}
Taken(a) == \/ \E b \in Aliases(a) : attached[b].active
            \/ \E b \in Counted(thread[a].use) : s(b) = s(a)

EnsureAlias(a) ==
  /\ At(a, "alias") /\ Free(a)
  /\ Go(a, IF Taken(a) THEN "shutdown" ELSE "restore")
  /\ UNCHANGED <<tables, work>> /\ Calm

\* session/resume or session/load; a draining or closed connection takes no request.
Restore(a) ==
  /\ At(a, "restore")
  /\ thread' = [thread EXCEPT ![a].pc = IF Conn(a).state = "open" THEN "restoring" ELSE "route",
                              ![a].lost = Conn(a).state # "open"]
  /\ UNCHANGED <<tables, work>> /\ Calm

Restored(a) ==
  /\ At(a, "restoring") /\ ~Closed(thread[a].use)
  /\ opened' = opened \cup {<<thread[a].use, s(a)>>}
  /\ Go(a, "route")
  /\ UNCHANGED <<bound, attached, route, work>> /\ Calm

RestoreFails(a) ==
  /\ At(a, "restoring")
  /\ \/ /\ Closed(thread[a].use)
        /\ thread' = [thread EXCEPT ![a].pc = "route", ![a].lost = TRUE]
        /\ UNCHANGED faults
     \/ ~Closed(thread[a].use) /\ Fault("refusal") /\ Go(a, "shutdown")
  /\ UNCHANGED conn /\ Step(a)

\* set_session_id registers a route and a binding, also when the connection was lost.
RegisterRoute(a) ==
  /\ At(a, "route")
  /\ route' = [route EXCEPT ![thread[a].use][s(a)] = thread[a].no]
  /\ thread' = [thread EXCEPT ![a].pc = "bind", ![a].route = thread[a].no]
  /\ UNCHANGED <<bound, attached, opened, work>> /\ Calm

Bind(a) ==
  /\ At(a, "bind")
  /\ bound' = [bound EXCEPT ![a] = [gen |-> thread[a].use, route |-> thread[a].no]]
  /\ Go(a, IF thread[a].lost THEN "shutdown" ELSE "transfer")
  /\ UNCHANGED <<attached, route, opened, work>> /\ Calm

\* detach_aliases_for_attachment looks for an active owner again, then detaches.
EnsureTransfer(a) ==
  /\ At(a, "transfer")
  /\ Go(a, IF Taken(a) THEN "shutdown" ELSE "aliases")
  /\ UNCHANGED <<tables, work>> /\ Calm

DetachAliases(a) ==
  /\ At(a, "aliases")
  /\ attached' = [b \in Attempts |-> IF b \in Aliases(a) THEN Detached ELSE attached[b]]
  /\ IF Aliases(a) = {} THEN UNCHANGED work
     ELSE Begun(a, "detach", {Entry(b) : b \in Aliases(a)})
  /\ Go(a, "ready")
  /\ UNCHANGED <<bound, route, opened>> /\ Calm

-----------------------------------------------------------------------------
(* The prompt: begin_prompt and begin_request look at the connection one   *)
(* after the other, and the prompt is counted in between.                  *)

BeginPrompt(a) ==
  /\ At(a, "ready") /\ Free(a)
  /\ Go(a, IF Conn(a).state = "open" THEN "mark" ELSE "release")
  /\ UNCHANGED <<tables, work>> /\ Calm

MarkActive(a) ==
  /\ At(a, "mark") /\ Go(a, "send")
  /\ UNCHANGED <<tables, work>> /\ Calm

\* (faulty variant) only the first look counts.
SendUnchecked(a) ==
  /\ At(a, "send")
  /\ Go(a, IF Closed(thread[a].use) THEN "release" ELSE "prompting")
  /\ UNCHANGED <<tables, work>> /\ Calm

SendPrompt(a) ==
  /\ At(a, "send")
  /\ Go(a, IF Conn(a).state = "open" THEN "prompting" ELSE "release")
  /\ UNCHANGED <<tables, work>> /\ Calm

\* The agent ends the prompt, or its connection is lost; then the session stays attached.
PromptEnds(a) ==
  /\ At(a, "prompting")
  /\ Go(a, "release")
  /\ UNCHANGED <<tables, work>> /\ Calm

PromptFails(a) ==
  /\ At(a, "prompting") /\ ~Closed(thread[a].use)
  /\ Fault("refusal")
  /\ Go(a, "shutdown")
  /\ UNCHANGED conn /\ Step(a)

\* release_managed_session; the connection is released when the runtime is dropped.
Release(a) ==
  /\ At(a, "release")
  /\ attached' = [attached EXCEPT ![a] = [gen |-> thread[a].use, route |-> thread[a].route,
                                          active |-> FALSE]]
  /\ Go(a, "drop")
  /\ UNCHANGED <<bound, route, opened, work>> /\ Calm

Drop(a) ==
  /\ At(a, "drop") /\ thread' = [thread EXCEPT ![a] = Idle]
  /\ UNCHANGED <<tables, work>> /\ Calm

\* AcpRuntime::shutdown: the attached session is evicted, then the route and the
\* binding of the attempt go.
Shutdown(a) ==
  /\ At(a, "shutdown") /\ Free(a)
  /\ attached' = [attached EXCEPT ![a] = Detached]
  /\ IF attached[a].gen = NoOne THEN UNCHANGED work ELSE Begun(a, "evict", {Entry(a)})
  /\ Go(a, "unroute")
  /\ UNCHANGED <<bound, route, opened>> /\ Calm

Unrouted(g, sess, r) ==
  IF g # NoOne /\ r # NoOne /\ route[g][sess] = r
  THEN [route EXCEPT ![g][sess] = NoOne] ELSE route

UnregisterRoute(a) ==
  /\ At(a, "unroute") /\ Free(a)
  /\ route' = Unrouted(thread[a].use, s(a), thread[a].route)
  /\ Go(a, "unbind")
  /\ UNCHANGED <<bound, attached, opened, work>> /\ Calm

UnregisterAttempt(a) ==
  /\ At(a, "unbind")
  /\ bound' = [bound EXCEPT ![a] = Unbound]
  /\ thread' = [thread EXCEPT ![a] = Idle]
  /\ UNCHANGED <<attached, route, opened, work>> /\ Calm

-----------------------------------------------------------------------------
(* evict_attached_session and detach_attached_session, for each entry that *)
(* left the registry: by a prompt's own thread, or by the pruner.          *)

Todo(w) == work[w].entry
To(w, pc) == work' = [work EXCEPT ![w].pc = pc]
Aside == UNCHANGED <<conn, born, pool, gate, thread, pruner, closer, bounds>>

NextEntry(w) == \E e \in work[w].todo :
  /\ work[w].pc = "next"
  /\ work' = [work EXCEPT ![w].pc = IF @ = "next" /\ work[w].kind = "evict" THEN "decide" ELSE "unbind",
                          ![w].entry = e, ![w].todo = @ \ {e}]
  /\ UNCHANGED tables /\ Aside

Matches(e) == bound[e.of] = [gen |-> e.gen, route |-> e.route]
SharedSession(e) == \E b \in Attempts \ {e.of} : bound[b].gen = e.gen /\ s(b) = s(e.of)

\* begin_attempt_session_detach_if_matches: the last binding stays until the session is closed.
Decide(w) == LET e == Todo(w) IN
  /\ work[w].pc = "decide"
  /\ IF Matches(e) /\ SharedSession(e)
     THEN bound' = [bound EXCEPT ![e.of] = Unbound]
     ELSE UNCHANGED bound
  /\ To(w, IF Matches(e) /\ ~SharedSession(e) THEN "close" ELSE "unroute")
  /\ UNCHANGED <<attached, route, opened>> /\ Aside

\* The agent closes the session; or the connection is gone, or the agent refuses.
CloseSession(w) == LET e == Todo(w) IN
  /\ work[w].pc = "close" /\ ~Closed(e.gen)
  /\ opened' = opened \ {<<e.gen, s(e.of)>>}
  /\ To(w, "closed")
  /\ UNCHANGED <<bound, attached, route>> /\ Aside

CloseSessionFails(w) ==
  /\ work[w].pc = "close"
  /\ Closed(Todo(w).gen) \/ "refusal" \in Environment
  /\ To(w, "unbind")
  /\ UNCHANGED tables /\ Aside

\* The answer removes the session's route, whichever it is by then.
SessionClosed(w) == LET e == Todo(w) IN
  /\ work[w].pc = "closed"
  /\ route' = [route EXCEPT ![e.gen][s(e.of)] = NoOne]
  /\ To(w, "unbind")
  /\ UNCHANGED <<bound, attached, opened>> /\ Aside

Unbind(w) == LET e == Todo(w) IN
  /\ work[w].pc = "unbind"
  /\ IF Matches(e) THEN bound' = [bound EXCEPT ![e.of] = Unbound] ELSE UNCHANGED bound
  /\ To(w, "unroute")
  /\ UNCHANGED <<attached, route, opened>> /\ Aside

Unroute(w) == LET e == Todo(w) IN
  /\ work[w].pc = "unroute"
  /\ route' = Unrouted(e.gen, s(e.of), e.route)
  /\ work' = [work EXCEPT ![w] = IF @.todo = {} THEN NoWork
                                 ELSE [@ EXCEPT !.pc = "next", !.entry = NoEntry]]
  /\ UNCHANGED <<bound, attached, opened>> /\ Aside

-----------------------------------------------------------------------------
(* The pruner: idle sessions are evicted, then idle connections.  Any      *)
(* session that is not active, and any idle connection, may be due.        *)

Pruner(pc) == pruner' = [pruner EXCEPT !.pc = pc]
Prune ==
  /\ pruner.pc = "idle" /\ Fault("idle")
  /\ \E due \in SUBSET {a \in Attempts : attached[a].gen # NoOne /\ ~attached[a].active} :
       /\ attached' = [a \in Attempts |-> IF a \in due THEN Detached ELSE attached[a]]
       /\ IF due = {} THEN UNCHANGED work ELSE Begun("pruner", "evict", {Entry(a) : a \in due})
  /\ Pruner("snapshot")
  /\ UNCHANGED <<conn, born, pool, gate, bound, route, opened, thread, closer>> /\ CalmBounds

Snapshot ==
  /\ pruner.pc = "snapshot" /\ work["pruner"].pc = "idle"
  /\ pruner' = [pruner EXCEPT !.pc = "collect", !.snap = {bound[a].gen : a \in Attempts} \ {NoOne}]
  /\ UNCHANGED <<conn, born, pool, gate, tables, thread, work, closer, bounds>>

\* (faulty variant) a connection that somebody uses is collected once its snapshot is empty.
CollectUnbound ==
  /\ pruner.pc = "collect"
  /\ \/ /\ pool # NoOne /\ pool \notin pruner.snap /\ Counted(pool) = {}
        /\ pruner' = [pruner EXCEPT !.pc = "shutdown", !.snap = {}, !.victim = pool]
        /\ pool' = NoOne
     \/ pruner' = [pruner EXCEPT !.pc = "idle", !.snap = {}] /\ UNCHANGED pool
  /\ UNCHANGED <<conn, born, gate, tables, thread, work, closer, bounds>>

\* Under the pool's lock, which a borrower needs too.
Collect ==
  /\ pruner.pc = "collect"
  /\ \/ /\ pool # NoOne /\ pool \notin pruner.snap /\ ~InUse(pool) /\ Counted(pool) = {}
        /\ pruner' = [pruner EXCEPT !.pc = "shutdown", !.snap = {}, !.victim = pool]
        /\ pool' = NoOne
     \/ pruner' = [pruner EXCEPT !.pc = "idle", !.snap = {}] /\ UNCHANGED pool
  /\ UNCHANGED <<conn, born, gate, tables, thread, work, closer, bounds>>

ShutdownIdle ==
  /\ pruner.pc = "shutdown"
  /\ CloseConnection(pruner.victim, "idle")
  /\ pruner' = [pruner EXCEPT !.pc = "idle", !.victim = NoOne]
  /\ UNCHANGED <<born, pool, gate, bound, attached, opened, thread, work, closer, bounds>>

-----------------------------------------------------------------------------
(* The close of the provider, or of the workspace: the connection is       *)
(* drained, its prompts are waited for, its sessions closed, and it ends.  *)

Closer(pc) == closer' = [closer EXCEPT !.pc = pc]
Here == UNCHANGED <<born, gate, thread, work, pruner, config, begun>>

\* detach_provider takes every entry and its route, and leaves the bindings.
Close ==
  /\ closer.pc = "idle" /\ Fault("close")
  /\ \/ UNCHANGED <<attached, route>>
     \/ /\ attached' = [a \in Attempts |-> Detached]
        /\ route' = [g \in Generations |-> [ss \in Sessions |->
             IF \E a \in Attempts : s(a) = ss /\ attached[a].gen = g /\ route[g][ss] = attached[a].route
             THEN NoOne ELSE route[g][ss]]]
  /\ Closer("take")
  /\ UNCHANGED <<conn, pool, bound, opened>> /\ Here

Take ==
  /\ closer.pc = "take"
  /\ IF pool = NoOne
     THEN Closer("idle") /\ UNCHANGED <<conn, pool>>
     ELSE /\ conn' = [conn EXCEPT ![pool].state = IF Closed(pool) THEN "closed" ELSE "draining"]
          /\ pool' = NoOne
          /\ closer' = [closer EXCEPT !.pc = "look", !.gen = pool]
  /\ UNCHANGED <<tables, faults>> /\ Here

\* The attempts bound by then, of whatever connection.
LookAtBound ==
  /\ closer.pc = "look"
  /\ closer' = [closer EXCEPT !.pc = "drain",
       !.seen = {[of |-> a, gen |-> bound[a].gen] : a \in {b \in Attempts : bound[b] # Unbound}}]
  /\ UNCHANGED <<conn, pool, tables, faults>> /\ Here

Listed == {s(e.of) : e \in {x \in closer.seen : x.gen = closer.gen}}
Waited == {a \in Counted(closer.gen) : s(a) \in Listed}

Drain ==
  /\ closer.pc = "drain"
  /\ Waited = {} \/ "timeout" \in Environment
  /\ closer' = [closer EXCEPT !.pc = "sessions", !.cut = Waited # {}]
  /\ UNCHANGED <<conn, pool, tables, faults>> /\ Here

\* The close of each session is bounded; its failure is reported and the shutdown goes on.
CloseSessions ==
  /\ closer.pc = "sessions"
  /\ \/ /\ Closed(closer.gen) \/ "refusal" \in Environment
        /\ UNCHANGED <<opened, route>>
     \/ /\ ~Closed(closer.gen)
        /\ opened' = opened \ {<<closer.gen, ss>> : ss \in Listed}
        /\ route' = [route EXCEPT ![closer.gen] =
                       [ss \in Sessions |-> IF ss \in Listed THEN NoOne ELSE @[ss]]]
  /\ Closer("forget")
  /\ UNCHANGED <<conn, pool, bound, attached, faults>> /\ Here

\* By the attempt's name, whatever it is bound to now.
Forget ==
  /\ closer.pc = "forget"
  /\ bound' = [a \in Attempts |-> IF \E e \in closer.seen : e.of = a THEN Unbound ELSE bound[a]]
  /\ Closer("shutdown")
  /\ UNCHANGED <<conn, pool, attached, route, opened, faults>> /\ Here

ShutdownClosed ==
  /\ closer.pc = "shutdown"
  /\ CloseConnection(closer.gen, "close")
  /\ closer' = [pc |-> "idle", gen |-> NoOne, seen |-> {}, cut |-> FALSE]
  /\ UNCHANGED <<pool, bound, attached, opened, faults>> /\ Here

-----------------------------------------------------------------------------
Serve(a) ==
  \/ Look(a) \/ Borrow(a) \/ EnterGate(a) \/ RemoveStale(a) \/ ShutdownStale(a)
  \/ Spawn(a) \/ SpawnFails(a) \/ Insert(a)
  \/ Initialize(a) \/ InitializedAlready(a) \/ InitializeAnswered(a) \/ InitializeFails(a)
  \/ Evict(a) \/ ShutdownFailed(a) \/ Retry(a) \/ Cancelled(a)
  \/ Acquire(a) \/ Reuse(a) \/ Reload(a) \/ EnsureAlias(a)
  \/ Restore(a) \/ Restored(a) \/ RestoreFails(a) \/ RegisterRoute(a) \/ Bind(a)
  \/ EnsureTransfer(a) \/ DetachAliases(a)
  \/ BeginPrompt(a) \/ MarkActive(a) \/ SendPrompt(a) \/ PromptEnds(a) \/ PromptFails(a)
  \/ Release(a) \/ Drop(a) \/ Shutdown(a) \/ UnregisterRoute(a) \/ UnregisterAttempt(a)
Work(w) ==
  \/ NextEntry(w) \/ Decide(w) \/ CloseSession(w) \/ CloseSessionFails(w)
  \/ SessionClosed(w) \/ Unbind(w) \/ Unroute(w)
PrunerStep == Snapshot \/ Collect \/ ShutdownIdle
CloserStep == Take \/ LookAtBound \/ Drain \/ CloseSessions \/ Forget \/ ShutdownClosed

Next ==
  \/ \E a \in Attempts : Begin(a) \/ Serve(a)
  \/ \E w \in Workers : Work(w)
  \/ \E g \in Generations : Death(g)
  \/ ChangeConfig \/ Prune \/ PrunerStep \/ Close \/ CloserStep

\* Threads run, the agent ends what it was asked or its request times out.  Nobody has
\* to prompt, prune, close, edit or cancel, and no process has to die.
Fairness ==
  /\ \A a \in Attempts : WF_vars(Serve(a))
  /\ \A w \in Workers : WF_vars(Work(w))
  /\ WF_vars(PrunerStep) /\ WF_vars(CloserStep)
Spec == Init /\ [][Next]_vars
FairSpec == Spec /\ Fairness

-----------------------------------------------------------------------------
(* Properties *)

ConnType == conn \in [Generations -> [
  state : {"unborn", "open", "draining", "closed"}, init : {"no", "going", "done", "failed"},
  config : {0, 1}, cause : {"none", "death", "stale", "init", "idle", "close"}]]
ThreadPcs == {"idle", "look", "borrow", "gate", "remove", "replace", "spawn", "insert", "init",
  "initializing", "evict", "evicted", "retry", "acquire", "reuse", "alias", "restore",
  "restoring", "route", "bind", "transfer", "aliases", "ready", "mark", "send", "prompting",
  "release", "drop", "shutdown", "unroute", "unbind"}
Gens == 0 .. MaxConnections
Routes == 0 .. MaxPrompts
ThreadType == thread \in [Attempts -> [
  pc : ThreadPcs, no : Routes, use : Gens, got : Gens, seen : Gens, tries : {0, 1},
  config : {0, 1}, lost : BOOLEAN, route : Routes]]
\* Whoever is past the handshake has a connection, which is initialized.
ThreadStates == \A a \in Attempts :
  thread[a].pc \in {"acquire", "reuse", "alias", "restore", "restoring", "route", "bind",
                   "transfer", "aliases", "ready", "mark", "send", "prompting", "release", "drop"}
    => thread[a].use # NoOne /\ Conn(a).init = "done"
TableType ==
  /\ pool \in Gens /\ gate \subseteq Attempts /\ born \in Gens
  /\ bound \in [Attempts -> [gen : Gens, route : Routes]]
  /\ attached \in [Attempts -> [gen : Gens, route : Routes, active : BOOLEAN]]
  /\ route \in [Generations -> [Sessions -> Routes]]
  /\ opened \subseteq Generations \X Sessions
Entries == [of : Attempts, gen : Gens, route : Routes]
WorkType == work \in [Workers -> [
  pc : {"idle", "next", "decide", "close", "closed", "unbind", "unroute"},
  kind : {"none", "evict", "detach"}, todo : SUBSET Entries, entry : Entries \cup {NoEntry}]]
ActorType ==
  /\ pruner \in [pc : {"idle", "snapshot", "collect", "shutdown"}, snap : SUBSET Gens, victim : Gens]
  /\ closer \in [pc : {"idle", "take", "look", "drain", "sessions", "forget", "shutdown"},
                 gen : Gens, seen : SUBSET [of : Attempts, gen : Gens], cut : BOOLEAN]
  /\ config \in {0, 1} /\ begun \in Routes /\ faults \in 0 .. MaxFaults
\* Type: every table, thread and worker is in one of its states, and no prompt goes past
\* the handshake of its connection before it has succeeded (initialize_once).
TypeOK == ConnType /\ ThreadType /\ ThreadStates /\ TableType /\ WorkType /\ ActorType

\* Nobody's connection is ended for a reason that is another's: one that a prompt holds is
\* neither chosen nor ended as idle (the pruner chooses under the lock under which prompts
\* borrow), and a failed handshake ends the connection that failed, not its replacement.
RightlyEnded == \A g \in Generations :
  /\ pruner.victim = g \/ conn[g].cause = "idle" => ~InUse(g)
  /\ conn[g].cause = "init" => conn[g].init = "failed"

\* No agent process is left behind: a connection that is not closed is in the pool, or
\* somebody who is still at it will put it there or end it.
Attended(g) ==
  \/ pool = g \/ pruner.victim = g \/ closer.gen = g
  \/ \E a \in Attempts : thread[a].got = g
  \/ \E a \in Attempts : thread[a].seen = g /\ thread[a].pc \in {"replace", "evicted"}
NoStray == \A g \in Generations : conn[g].state \in {"open", "draining"} => Attended(g)

\* Past a drain that was not cut short, no attempt that was bound to the connection has a
\* prompt in flight there, also none whose begin_prompt had looked before the drain began.
DrainIsComplete ==
  closer.pc \in {"sessions", "forget", "shutdown"} /\ ~closer.cut =>
    \A e \in closer.seen : e.gen = closer.gen /\ thread[e.of].use = closer.gen => ~At(e.of, "prompting")

\* Liveness: every prompt that begins is served, refused or interrupted; nobody waits
\* for ever at the gate of creation or for the handshake of another prompt.
Served == \A a \in Attempts : ~At(a, "idle") ~> At(a, "idle")

(* Stated, and violated by the code; the README gives the counterexamples. *)

InFlight(a) == At(a, "prompting") /\ conn[thread[a].use].state = "open"
\* The agent has the session of a prompt in flight open.
SessionIsKept == \A a \in Attempts : InFlight(a) => <<thread[a].use, s(a)>> \in opened
\* The frames of a prompt in flight reach it.
RouteIsKept == \A a \in Attempts : InFlight(a) => route[thread[a].use][s(a)] # NoOne
\* A prompt in flight is bound to its connection, so that a close waits for it.
PromptIsBound == \A a \in Attempts : InFlight(a) => bound[a].gen = thread[a].use
\* One attempt at a time prompts a session on a connection.
SessionIsExclusive == \A a, b \in Attempts :
  InFlight(a) /\ InFlight(b) /\ s(a) = s(b) /\ thread[a].use = thread[b].use => a = b
=============================================================================
