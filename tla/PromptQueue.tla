---------------------------- MODULE PromptQueue ----------------------------
(***************************************************************************)
(* The prompt queue of one direct conversation (src/acp/prompt_queue.rs),  *)
(* the commands that use it (src-tauri/src/commands.rs), the header of the *)
(* session's current turn (src/acp/events.rs) and the provider runtime     *)
(* that carries prompts out, one at a time (src/acp/client.rs).            *)
(*                                                                         *)
(* A flow is one path of execution: a submission from the composer, the    *)
(* use of a queued prompt, or an automatic dispatch, from its command to   *)
(* the settlement of its turn.  Flows run in slots; each action is one     *)
(* critical section of the code.                                           *)
(*                                                                         *)
(* The run of the conversation has completed: every turn is a follow-up.   *)
(* The queue's revision is only ever compared with the one a pending       *)
(* automatic dispatch has read: fresh says that they are still equal.      *)
(***************************************************************************)
EXTENDS Naturals, FiniteSets

CONSTANTS
  None,      \* no flow, no turn
  Slots,     \* bound: how many flows there are at a time
  Limit,     \* MAX_QUEUED_PROMPTS
  Delays,    \* a thread may be held up for as long as the 600 ms of a dispatch,
             \* or for as long as the provider takes
  Sends, Uses, Edits,     \* bounds: prompts submitted, queued prompts used,
  Stops, Crashes, Faults  \* deleted or moved; stops, restarts, failed turns

ASSUME BoundAssumption ==
  {Slots, Limit, Sends, Uses, Edits, Stops, Crashes, Faults} \subseteq Nat
ASSUME NoneAssumption == None \notin Nat
ASSUME DelaysAssumption == Delays \in BOOLEAN

Slot == 1 .. Slots

VARIABLES
  \* the queue file
  queue,     \* the items
  parked,    \* auto_dispatch_suspended
  \* what else survives a restart
  timeline,  \* the turns whose prompt is written to the timeline
  header,    \* the lifecycle header of the session's latest turn
  \* the process
  gate,      \* AUTO_DISPATCH_SUSPENSIONS holds the queue
  active,    \* ACTIVE_DISPATCHES: turns, each with its item
  control,   \* the provider control, held with the session's prompt lock
  flow,      \* the flows
  stop,      \* the program counter of the stop command
  \* bounds and history
  ids,       \* the ids given to turns and items so far
  budget,
  sent,      \* how often each message was written to the timeline
  owed,      \* the messages queued, not deleted since
  halted     \* the last stop, until the user lifts the gate: the turn it stopped,
             \* and how many messages had been submitted before

vars == <<queue, parked, timeline, header, gate, active, control, flow, stop,
          ids, budget, sent, owed, halted>>
file == <<queue, parked>>
session == <<header, control, stop>>
history == <<sent, owed, halted>>

-----------------------------------------------------------------------------
Id == 1 .. Sends + 2 * Uses  \* a use may requeue its message, or rename its turn
Msg == 1 .. Sends
Live == {"idle", "starting", "claimed", "stopping"}
PC == {"free", "check", "claim", "enqueue", "redrain", "priority", "lift", "mark", "admit",
       "execute", "gate", "lock", "start", "publish", "published", "prompt", "stop", "write",
       "unlock", "notify", "notified", "drain", "settle", "clear",
       "armed", "next", "claimed", "release", "recover", "rename", "track", "failed"}
Turning == {"execute", "gate", "lock", "start", "publish", "published", "prompt", "stop",
            "write", "failed"}
Item == [id : Id, rank : Id, turn : Id, msg : Msg, st : {"queued", "dispatching"}]
Flow == [pc : PC, kind : {"composer", "use", "auto"}, msg : Msg \cup {None},
         item : Id \cup {None}, turn : Id \cup {None}, fresh : BOOLEAN,
         ok : BOOLEAN, again : BOOLEAN]

Free == [pc |-> "free", kind |-> "composer", msg |-> None, item |-> None,
         turn |-> None, fresh |-> FALSE, ok |-> FALSE, again |-> FALSE]

TypeOK ==
  /\ queue \subseteq Item /\ Cardinality(queue) <= Limit
  /\ \A x, y \in queue : (x.id = y.id \/ x.rank = y.rank) => x = y
  /\ {parked, gate} \subseteq BOOLEAN
  /\ timeline \subseteq Id
  /\ header \in [turn : Id \cup {None}, live : Live, owner : Slot \cup {None},
                 alive : BOOLEAN, last : {"none", "completed", "cancelled", "failed"}]
  /\ active \subseteq [turn : Id, item : Id]
  /\ control \in [by : Slot \cup {None},
                  st : {"none", "starting", "accepted", "cancel", "stopped"}]
  /\ flow \in [Slot -> Flow]
  /\ stop \in {"idle", "cancel", "gate", "inspect", "suspend", "park", "cleanup"}
  /\ ids \in 0 .. Sends + 2 * Uses
  /\ sent \in [Msg -> Nat]
  /\ owed \subseteq Msg
  /\ halted \in {None} \cup [turn : Id, before : 0 .. Sends]

NoControl == [by |-> None, st |-> "none"]

Init ==
  /\ queue = {} /\ parked = FALSE
  /\ timeline = {}
  /\ header = [turn |-> None, live |-> "idle", owner |-> None, alive |-> FALSE,
               last |-> "none"]
  /\ gate = FALSE /\ active = {}
  /\ control = NoControl
  /\ flow = [s \in Slot |-> Free]
  /\ stop = "idle"
  /\ ids = 0
  /\ budget = [sends |-> Sends, uses |-> Uses, edits |-> Edits, stops |-> Stops,
               crashes |-> Crashes, faults |-> Faults]
  /\ sent = [m \in Msg |-> 0] /\ owed = {}
  /\ halted = None

-----------------------------------------------------------------------------
(* The queue file, read and written under the queue's lock.                *)

Orphan(x) == x.st = "dispatching" /\ [turn |-> x.turn, item |-> x.id] \notin active

\* faulty variant: the timeline is not consulted
LoadedUnread == {IF Orphan(x) THEN [x EXCEPT !.st = "queued"] ELSE x : x \in queue}

\* faulty variant: an orphaned dispatch is taken for a sent one
LoadedAsSent == {x \in queue : ~Orphan(x)}

\* load_and_reconcile_unlocked: nothing is done unless a dispatch was orphaned
Loaded ==
  IF \E x \in queue : Orphan(x)
  THEN {IF Orphan(x) THEN [x EXCEPT !.st = "queued"] ELSE x :
          x \in {y \in queue : y.turn \in timeline => y.st = "dispatching" /\ ~Orphan(y)}}
  ELSE queue

Queued(q) == {x \in q : x.st = "queued"}
First(S) == CHOOSE x \in S : \A y \in S : x.rank <= y.rank
Put(q, x, st) == (q \ {x}) \cup {[x EXCEPT !.st = st]}

\* persist_mutation_unlocked: the revision moves on, every pending automatic
\* dispatch is out of date
Persist(q, f) ==
  /\ queue' = q
  /\ flow' = [s \in Slot |-> [f[s] EXCEPT !.fresh = FALSE]]

\* the file is only loaded, and written if something was reconciled
Load(f) == IF Loaded = queue THEN flow' = f /\ UNCHANGED queue ELSE Persist(Loaded, f)

Tracked(x) == active \cup {[turn |-> x.turn, item |-> x.id]}
Untracked(i) == {a \in active : a.item # i}

-----------------------------------------------------------------------------
(* Flows and the session.                                                  *)

Spare == {s \in Slot : flow[s].pc = "free"}
NextSlot == CHOOSE s \in Spare : \A r \in Spare : s <= r
At(s, pc) == flow[s].pc = pc
Goto(s, pc) == [flow EXCEPT ![s].pc = pc]
Ended(s) == [flow EXCEPT ![s] = Free]

\* The 600 ms of a dispatch are over.  They outlast the step from the release of
\* the queue's lock to the next statement, which clears the registry; and unless
\* there are delays, they outlast every step but the provider's.
Elapsed ==
  \A s \in Slot : flow[s].pc \notin IF Delays
                        THEN {"published", "notified", "clear", "rename", "track"}
                        ELSE PC \ {"free", "armed", "start", "prompt"}

\* prompt_activity
LivePrompt == control.st \in {"starting", "accepted"}
Activity == LivePrompt \/ control.st = "cancel"
CancelledControl == IF LivePrompt THEN [control EXCEPT !.st = "cancel"] ELSE control

\* the user's submission, or use, opens the gate
OpenGate == gate' = FALSE /\ halted' = None

\* inspect_session_turn settles a turn left behind by a dead process
Inspected ==
  IF header.live # "idle" /\ ~header.alive
  THEN [header EXCEPT !.live = "idle", !.owner = None,
                      !.last = IF header.live = "stopping" THEN "cancelled" ELSE "failed"]
  ELSE header

Closed(last) ==
  [header EXCEPT !.live = "idle", !.owner = None, !.alive = FALSE, !.last = last]

\* a terminal write of flow s, void when a stop has taken the turn over
CloseTurn(s, last) == header' = IF header.owner = s THEN Closed(last) ELSE header

\* is_prompt_cancel_requested
CancelSeen(s) ==
  \/ control.st = "cancel"
  \/ header.turn = flow[s].turn /\ header.live \in {"stopping", "idle"}

Spend(what) == budget[what] > 0 /\ budget' = [budget EXCEPT ![what] = @ - 1]

-----------------------------------------------------------------------------
(* submit_conversation_prompt, up to the admission of a turn.              *)

Submit ==
  /\ Spend("sends") /\ Spare # {}
  /\ flow' = [flow EXCEPT ![NextSlot] =
                [Free EXCEPT !.pc = "check", !.msg = Sends - budget.sends + 1]]
  /\ UNCHANGED <<file, timeline, session, gate, active, ids, history>>

\* the turn exists already (a queued prompt used again): it is either left
\* to its executor, or, when it is settled, recovered once
Exists(s, h) ==
  /\ flow[s].turn # None /\ h.turn = flow[s].turn
  /\ flow' = IF h.live \in {"idle", "stopping"} /\ ~flow[s].again
             THEN Goto(s, "recover") ELSE Ended(s)

Check(s) ==
  /\ At(s, "check")
  /\ header' = IF flow[s].turn = None THEN header ELSE Inspected
  /\ \/ Exists(s, Inspected)
     \/ /\ flow[s].turn = None \/ Inspected.turn # flow[s].turn
        /\ flow' = Goto(s, IF LivePrompt THEN "enqueue" ELSE "priority")
  /\ UNCHANGED <<file, timeline, gate, active, control, stop, ids, budget, history>>

\* faulty variant: the limit is not looked at
EnqueueUnbounded(s) ==
  /\ At(s, "enqueue")
  /\ LET n == ids + 1 IN
     /\ ids' = n
     /\ Persist(Loaded \cup {[id |-> n, rank |-> n, turn |-> n,
                              msg |-> flow[s].msg, st |-> "queued"]},
                [flow EXCEPT ![s] = [Free EXCEPT !.pc = "redrain"]])
  /\ owed' = owed \cup {flow[s].msg}
  /\ UNCHANGED <<parked, timeline, session, gate, active, budget, sent, halted>>

\* enqueue_prompt: a new item with a new turn, whatever the flow came from
Enqueue(s) ==
  /\ At(s, "enqueue")
  /\ IF Cardinality(Loaded) >= Limit
     THEN /\ Load(IF flow[s].kind = "use" THEN Goto(s, "release") ELSE Ended(s))
          /\ UNCHANGED <<ids, owed>>
     ELSE LET n == ids + 1 IN
          /\ ids' = n
          /\ Persist(Loaded \cup {[id |-> n, rank |-> n, turn |-> n,
                                   msg |-> flow[s].msg, st |-> "queued"]},
                     [flow EXCEPT ![s] = [Free EXCEPT !.pc = "redrain"]])
          /\ owed' = owed \cup {flow[s].msg}
  /\ UNCHANGED <<parked, timeline, session, gate, active, budget, sent, halted>>

\* faulty variant: the prompt that was live is trusted to drain the queue
RedrainNever(s) ==
  /\ At(s, "redrain") /\ flow' = Ended(s)
  /\ UNCHANGED <<file, timeline, session, gate, active, ids, budget, history>>

\* the prompt that was live may have ended before the item was there
Redrain(s) ==
  /\ At(s, "redrain")
  /\ flow' = IF Activity THEN Ended(s)
             ELSE [flow EXCEPT ![s].pc = "drain", ![s].ok = TRUE]
  /\ UNCHANGED <<file, timeline, session, gate, active, ids, budget, history>>

\* a prompt of the user goes before the queue
Priority(s) ==
  /\ At(s, "priority")
  /\ Load(Goto(s, IF Loaded = {} THEN "lift" ELSE "mark"))
  /\ UNCHANGED <<parked, timeline, session, gate, active, ids, budget, history>>

\* clear_auto_dispatch_suspension: in memory only
Lift(s) ==
  /\ At(s, "lift") /\ OpenGate /\ flow' = Goto(s, "admit")
  /\ UNCHANGED <<file, timeline, session, active, ids, budget, sent, owed>>

\* mark_user_priority
Mark(s) ==
  /\ At(s, "mark")
  /\ Persist(Loaded, Goto(s, "admit"))
  /\ parked' = FALSE /\ OpenGate
  /\ UNCHANGED <<timeline, session, active, ids, budget, sent, owed>>

\* the command fails: the composer keeps its draft, a claimed item is given back
Refused(s) ==
  CASE flow[s].kind = "composer" -> Ended(s)
    [] flow[s].kind = "use" -> Goto(s, "release")
    [] flow[s].kind = "auto" -> Goto(s, "settle")

\* begin_session_turn
Begin(s) ==
  LET t == IF flow[s].turn = None THEN ids + 1 ELSE flow[s].turn IN
  /\ header' = [turn |-> t, live |-> "starting", owner |-> s, alive |-> TRUE,
                last |-> "none"]
  /\ flow' = [flow EXCEPT ![s].pc = "execute", ![s].turn = t]
  /\ ids' = IF flow[s].turn = None THEN t ELSE ids
  /\ UNCHANGED budget

\* admit_conversation_prompt_turn
Admit(s) ==
  /\ At(s, "admit")
  /\ \/ /\ Inspected.turn = flow[s].turn /\ flow[s].turn # None
        /\ IF flow[s].kind = "auto" THEN flow' = Goto(s, "settle")
           ELSE Exists(s, Inspected)
        /\ header' = Inspected /\ UNCHANGED <<ids, budget>>
     \/ /\ flow[s].turn = None \/ Inspected.turn # flow[s].turn
        /\ \/ /\ Inspected.live # "idle" \* acp.prompt-session-busy
              /\ header' = Inspected /\ flow' = Refused(s)
              /\ UNCHANGED <<ids, budget>>
           \/ /\ Spend("faults") \* the preflight refuses
              /\ header' = Inspected /\ flow' = Refused(s) /\ UNCHANGED ids
           \/ Inspected.live = "idle" /\ Begin(s)
  /\ UNCHANGED <<file, timeline, gate, active, control, stop, history>>

-----------------------------------------------------------------------------
(* execute_admitted_acp_prompt and run_prompt: the turn of flow s.         *)

\* claim_session_turn_for_execution, lost to a stop
Execute(s) ==
  /\ At(s, "execute")
  /\ IF header.owner = s
     THEN header' = [header EXCEPT !.live = "claimed"] /\ flow' = Goto(s, "gate")
     ELSE UNCHANGED header /\ flow' = Goto(s, "settle")
  /\ UNCHANGED <<file, timeline, gate, active, control, stop, ids, budget, history>>

\* faulty variant: the gate is looked at before the claim only
GateOpen(s) ==
  /\ At(s, "gate")
  /\ \/ flow' = Goto(s, "lock") /\ UNCHANGED budget
     \/ Spend("faults") /\ flow' = Goto(s, "failed")
  /\ UNCHANGED <<file, timeline, session, gate, active, ids, history>>

\* the turn of an item carries the prefix turn-queued- unless it was renamed
Gate(s) ==
  /\ At(s, "gate")
  /\ \/ /\ flow' = Goto(s, IF gate /\ flow[s].item = flow[s].turn THEN "failed" ELSE "lock")
        /\ UNCHANGED budget
     \/ Spend("faults") /\ flow' = Goto(s, "failed")
  /\ UNCHANGED <<file, timeline, session, gate, active, ids, history>>

\* faulty variant: the failure is reported and the turn left as it is
FailedSilently(s) ==
  /\ At(s, "failed") /\ flow' = Goto(s, "settle")
  /\ UNCHANGED <<file, timeline, session, gate, active, ids, budget, history>>

\* settle_failed_prompt_submission; nothing is scheduled after an error
Failed(s) ==
  /\ At(s, "failed")
  /\ CloseTurn(s, "failed")
  /\ flow' = Goto(s, "settle")
  /\ UNCHANGED <<file, timeline, gate, active, control, stop, ids, budget, history>>

\* the prompt lock of the session, then AcpRuntime::start
Start(s) ==
  /\ At(s, "lock") /\ control.by = None
  /\ control' = [by |-> s, st |-> "starting"]
  /\ flow' = Goto(s, "start")
  /\ UNCHANGED <<file, timeline, header, gate, active, stop, ids, budget, history>>

\* faulty variant: a broken runtime is started again, whether the prompt was
\* accepted or not
BreakRetries(s) ==
  /\ At(s, "start") \/ At(s, "prompt")
  /\ Spend("faults")
  /\ control' = NoControl /\ flow' = Goto(s, "lock")
  /\ UNCHANGED <<file, timeline, header, gate, active, stop, ids, history>>

\* an error before or after the acceptance: the runtime is shut down
Break(s) ==
  /\ At(s, "start") \/ At(s, "prompt")
  /\ Spend("faults")
  /\ control' = NoControl /\ flow' = Goto(s, "failed")
  /\ UNCHANGED <<file, timeline, header, gate, active, stop, ids, history>>

\* finalize_unaccepted_prompt_interruption: cancelled, or the transport is lost
Interrupt(s) ==
  /\ At(s, "start")
  /\ \/ CancelSeen(s) /\ UNCHANGED budget
     \/ Spend("faults")
  /\ CloseTurn(s, "cancelled")
  /\ flow' = [flow EXCEPT ![s].pc = "unlock", ![s].ok = FALSE]
  /\ UNCHANGED <<file, timeline, gate, active, control, stop, ids, history>>

\* record_user_prompt_event, which a cancellation may come too late for
Accept(s) ==
  /\ At(s, "start")
  /\ timeline' = timeline \cup {flow[s].turn}
  /\ sent' = [sent EXCEPT ![flow[s].msg] = @ + 1]
  /\ control' = IF LivePrompt THEN [control EXCEPT !.st = "accepted"] ELSE control
  /\ flow' = Goto(s, "publish")
  /\ UNCHANGED <<file, header, gate, active, stop, ids, budget, owed, halted>>

\* complete_accepted_prompt: the item of an active dispatch leaves the queue;
\* the registry is cleared after the lock was released
Publish(s) ==
  /\ At(s, "publish")
  /\ LET t == flow[s].turn
         done == {x \in queue : x.turn = t /\ x.st = "dispatching"} IN
     IF \A a \in active : a.turn # t THEN flow' = Goto(s, "prompt") /\ UNCHANGED queue
     ELSE IF done = {} THEN flow' = Goto(s, "published") /\ UNCHANGED queue
     ELSE Persist(queue \ done, Goto(s, "published"))
  /\ UNCHANGED <<parked, timeline, session, gate, active, ids, budget, history>>

Published(s) ==
  /\ At(s, "published")
  /\ active' = {a \in active : a.turn # flow[s].turn}
  /\ flow' = Goto(s, "prompt")
  /\ UNCHANGED <<file, timeline, session, gate, ids, budget, history>>

\* the provider answers, or ends the turn early
Respond(s) ==
  /\ At(s, "prompt") /\ (Delays \/ Elapsed)
  /\ \/ flow' = [flow EXCEPT ![s].pc = "stop", ![s].ok = ~CancelSeen(s)] /\ UNCHANGED budget
     \/ flow' = [flow EXCEPT ![s].pc = "stop", ![s].ok = FALSE] /\ Spend("faults")
  /\ UNCHANGED <<file, timeline, session, gate, active, ids, history>>

MarkStopped(s) ==
  /\ At(s, "stop")
  /\ control' = [control EXCEPT !.st = "stopped"]
  /\ flow' = Goto(s, "write")
  /\ UNCHANGED <<file, timeline, header, gate, active, stop, ids, budget, history>>

Write(s) ==
  /\ At(s, "write")
  /\ CloseTurn(s, IF flow[s].ok THEN "completed" ELSE "cancelled")
  /\ flow' = Goto(s, "unlock")
  /\ UNCHANGED <<file, timeline, gate, active, control, stop, ids, budget, history>>

Unlock(s) ==
  /\ At(s, "unlock")
  /\ control' = NoControl /\ flow' = Goto(s, "notify")
  /\ UNCHANGED <<file, timeline, header, gate, active, stop, ids, budget, history>>

-----------------------------------------------------------------------------
(* After a turn: its dispatch is settled, and the queue drained.           *)

\* settle_dispatching_prompt: the lock is released before the registry is
\* cleared, at pc `clear'
SettleItem(s, clear, next) ==
  LET mine == {x \in queue : /\ x.turn = flow[s].turn /\ x.st = "dispatching"
                             /\ [turn |-> x.turn, item |-> x.id] \in active} IN
  IF mine = {} THEN flow' = next /\ UNCHANGED queue
  ELSE \E x \in mine :
         Persist(IF x.turn \in timeline THEN queue \ {x} ELSE Put(queue, x, "queued"),
                 Goto(s, clear))

\* schedule_direct_prompt_queue_drain settles the turn that has finished ...
Notify(s) ==
  /\ At(s, "notify") /\ SettleItem(s, "notified", Goto(s, "drain"))
  /\ UNCHANGED <<parked, timeline, session, gate, active, ids, budget, history>>

Notified(s) ==
  /\ At(s, "notified")
  /\ active' = Untracked(flow[s].item) /\ flow' = Goto(s, "drain")
  /\ UNCHANGED <<file, timeline, session, gate, ids, budget, history>>

MayDrain(s) == flow[s].ok /\ ~parked /\ ~gate /\ Queued(Loaded) # {}

\* ... and, after a success, arms an automatic dispatch
Drain(s) ==
  /\ At(s, "drain")
  /\ IF MayDrain(s)
     THEN /\ Spare # {}
          /\ LET f == IF Loaded = queue THEN flow
                      ELSE [r \in Slot |-> [flow[r] EXCEPT !.fresh = FALSE]] IN
             flow' = [f EXCEPT ![s].pc = "settle",
                        ![NextSlot] = [Free EXCEPT !.pc = "armed", !.kind = "auto",
                                                   !.fresh = TRUE]]
          /\ queue' = Loaded
     ELSE Load(Goto(s, "settle"))
  /\ UNCHANGED <<parked, timeline, session, gate, active, ids, budget, history>>

\* the task that sent the prompt settles it once more
Settle(s) ==
  /\ At(s, "settle") /\ SettleItem(s, "clear", Ended(s))
  /\ UNCHANGED <<parked, timeline, session, gate, active, ids, budget, history>>

Clear(s) ==
  /\ At(s, "clear")
  /\ active' = Untracked(flow[s].item) /\ flow' = Ended(s)
  /\ UNCHANGED <<file, timeline, session, gate, ids, budget, history>>

-----------------------------------------------------------------------------
(* The automatic dispatch.                                                 *)

\* the user's 600 ms are over
Fire(s) ==
  /\ At(s, "armed") /\ Elapsed
  /\ flow' = IF Activity THEN Ended(s) ELSE Goto(s, "next")
  /\ UNCHANGED <<file, timeline, session, gate, active, ids, budget, history>>

Preempted(s) == ~flow[s].fresh \/ Loaded # queue

\* claim_next_for_auto_dispatch
ClaimNext(s) ==
  /\ At(s, "next")
  /\ IF Preempted(s) \/ parked \/ gate \/ Queued(queue) = {}
     THEN Load(Ended(s)) /\ UNCHANGED active
     ELSE LET x == First(Queued(queue)) IN
          /\ Persist(Put(queue, x, "dispatching"),
                     [flow EXCEPT ![s].pc = "claimed", ![s].item = x.id,
                                  ![s].turn = x.turn, ![s].msg = x.msg])
          /\ active' = Tracked(x)
  /\ UNCHANGED <<parked, timeline, session, gate, ids, budget, history>>

\* faulty variant: the claimed item is not given back
ClaimedDropped(s) ==
  /\ At(s, "claimed")
  /\ flow' = IF gate THEN Ended(s) ELSE Goto(s, "admit")
  /\ UNCHANGED <<file, timeline, session, gate, active, ids, budget, history>>

\* the gate is looked at once more before the prompt is sent
Claimed(s) ==
  /\ At(s, "claimed")
  /\ flow' = Goto(s, IF gate THEN "release" ELSE "admit")
  /\ UNCHANGED <<file, timeline, session, gate, active, ids, budget, history>>

\* release_queued_prompt
Release(s) ==
  /\ At(s, "release")
  /\ Persist({IF x.id = flow[s].item THEN [x EXCEPT !.st = "queued"] ELSE x : x \in Loaded},
             Goto(s, "clear"))
  /\ UNCHANGED <<parked, timeline, session, gate, active, ids, budget, history>>

-----------------------------------------------------------------------------
(* The user's commands on the queue.                                       *)

\* use_conversation_queued_prompt is refused while a prompt is active ...
Use(x) ==
  /\ ~Activity
  /\ Spend("uses") /\ Spare # {}
  /\ flow' = [flow EXCEPT ![NextSlot] = [Free EXCEPT !.pc = "claim", !.kind = "use",
                                                     !.item = x.id]]
  /\ UNCHANGED <<file, timeline, session, gate, active, ids, history>>

\* ... then claim_queued_prompt opens the gate and takes the item
ClaimUsed(s) ==
  /\ At(s, "claim")
  /\ LET mine == {x \in Loaded : x.id = flow[s].item /\ x.st = "queued"} IN
     IF mine = {} THEN Load(Ended(s)) /\ UNCHANGED <<parked, gate, active, halted>>
     ELSE \E x \in mine :
            /\ Persist(Put(Loaded, x, "dispatching"),
                       [flow EXCEPT ![s].pc = "check", ![s].turn = x.turn, ![s].msg = x.msg])
            /\ active' = Tracked(x)
            /\ parked' = FALSE /\ OpenGate
  /\ UNCHANGED <<timeline, session, ids, budget, sent, owed>>

\* recover_terminal_dispatch: the item gets a new turn, under the lock ...
Recover(s) ==
  /\ At(s, "recover")
  /\ LET mine == {x \in queue : x.id = flow[s].item /\ x.st = "dispatching"} IN
     IF mine = {} THEN flow' = Goto(s, "clear") /\ UNCHANGED <<queue, ids>>
     ELSE \E x \in mine :
            IF x.turn \in timeline
            THEN Persist(queue \ {x}, Goto(s, "clear")) /\ UNCHANGED ids
            ELSE /\ ids' = ids + 1
                 /\ Persist((queue \ {x}) \cup {[x EXCEPT !.turn = ids + 1]},
                            [flow EXCEPT ![s].pc = "rename", ![s].turn = ids + 1,
                                         ![s].again = TRUE])
  /\ UNCHANGED <<parked, timeline, session, gate, active, budget, history>>

\* ... and is tracked under the new turn after the lock was released
Untrack(s) ==
  /\ At(s, "rename")
  /\ active' = Untracked(flow[s].item) /\ flow' = Goto(s, "track")
  /\ UNCHANGED <<file, timeline, session, gate, ids, budget, history>>

Track(s) ==
  /\ At(s, "track")
  /\ active' = active \cup {[turn |-> flow[s].turn, item |-> flow[s].item]}
  /\ flow' = Goto(s, "check")
  /\ UNCHANGED <<file, timeline, session, gate, ids, budget, history>>

\* delete_queued_prompt, or take_queued_prompt back into the composer
Delete(x) ==
  /\ x \in Queued(Loaded) /\ Spend("edits")
  /\ Persist(Loaded \ {x}, flow)
  /\ owed' = owed \ {x.msg}
  /\ UNCHANGED <<parked, timeline, session, gate, active, ids, sent, halted>>

\* reorder_queued_prompts
Move(x, y) ==
  /\ {x, y} \subseteq Queued(Loaded) /\ x.rank < y.rank /\ Spend("edits")
  /\ Persist((Loaded \ {x, y}) \cup {[x EXCEPT !.rank = y.rank], [y EXCEPT !.rank = x.rank]},
             flow)
  /\ UNCHANGED <<parked, timeline, session, gate, active, ids, history>>

-----------------------------------------------------------------------------
(* stop_active_session, one at a time.                                     *)

RequestStop ==
  /\ stop = "idle" /\ header.live \in {"starting", "claimed"} /\ Spend("stops")
  /\ header' = [header EXCEPT !.live = "stopping", !.owner = None]
  /\ stop' = "cancel"
  /\ UNCHANGED <<file, timeline, gate, active, control, flow, ids, history>>

CancelPrompt ==
  /\ stop = "cancel"
  /\ IF header.live = "stopping" THEN control' = CancelledControl /\ stop' = "gate"
     ELSE stop' = "idle" /\ UNCHANGED control
  /\ UNCHANGED <<file, timeline, header, gate, active, flow, ids, budget, history>>

\* request_auto_dispatch_suspension: in memory first ...
SetGate ==
  /\ stop = "gate" /\ gate' = TRUE /\ stop' = "inspect"
  /\ halted' = [turn |-> header.turn, before |-> Sends - budget.sends]
  /\ UNCHANGED <<file, timeline, header, active, control, flow, ids, budget, sent, owed>>

\* ... and in the file unless the queue is empty
Inspect ==
  /\ stop = "inspect" /\ Load(flow)
  /\ stop' = IF Loaded = {} THEN "cleanup" ELSE "suspend"
  /\ UNCHANGED <<parked, timeline, header, gate, active, control, ids, budget, history>>

\* suspend_auto_dispatch: in memory once more, then under the lock of the file
Suspend ==
  /\ stop = "suspend" /\ gate' = TRUE /\ stop' = "park"
  /\ UNCHANGED <<file, timeline, header, active, control, flow, ids, budget, history>>

Park ==
  /\ stop = "park" /\ parked' = TRUE /\ Persist(Loaded, flow)
  /\ stop' = "cleanup"
  /\ UNCHANGED <<timeline, header, gate, active, control, ids, budget, history>>

\* spawn_active_session_stop_cleanup
Cleanup ==
  /\ stop = "cleanup"
  /\ IF header.live = "stopping"
     THEN control' = CancelledControl /\ header' = Closed("cancelled")
     ELSE UNCHANGED <<control, header>>
  /\ stop' = "idle"
  /\ UNCHANGED <<file, timeline, gate, active, flow, ids, budget, history>>

\* the application is closed, or dies, and is started again
Restart ==
  /\ Spend("crashes")
  /\ gate' = FALSE /\ active' = {} /\ control' = NoControl /\ stop' = "idle"
  /\ flow' = [s \in Slot |-> Free]
  /\ header' = [header EXCEPT !.owner = None, !.alive = FALSE]
  /\ UNCHANGED <<file, timeline, ids, history>>

-----------------------------------------------------------------------------
Run(s) ==
  \/ Check(s) \/ Enqueue(s) \/ Redrain(s) \/ Priority(s) \/ Lift(s) \/ Mark(s) \/ Admit(s)
  \/ Execute(s) \/ Gate(s) \/ Failed(s) \/ Start(s) \/ Break(s) \/ Interrupt(s)
  \/ Accept(s) \/ Publish(s) \/ Published(s) \/ Respond(s)
  \/ MarkStopped(s) \/ Write(s) \/ Unlock(s)
  \/ Notify(s) \/ Notified(s) \/ Drain(s) \/ Settle(s) \/ Clear(s)
  \/ Fire(s) \/ ClaimNext(s) \/ Claimed(s) \/ Release(s)
  \/ ClaimUsed(s) \/ Recover(s) \/ Untrack(s) \/ Track(s)

StopCommand == RequestStop \/ CancelPrompt \/ SetGate \/ Inspect \/ Suspend \/ Park \/ Cleanup

User ==
  \/ Submit
  \/ \E x \in queue : Use(x)
  \/ \E x \in Loaded : Delete(x)
  \/ \E x, y \in Loaded : Move(x, y)

Next == (\E s \in Slot : Run(s)) \/ StopCommand \/ User \/ Restart

Spec == Init /\ [][Next]_vars

\* threads go on, and a provider that was sent a prompt answers
FairSpec == Spec /\ (\A s \in Slot : WF_vars(Run(s)))
                 /\ WF_vars(CancelPrompt \/ SetGate \/ Inspect \/ Suspend \/ Park \/ Cleanup)

-----------------------------------------------------------------------------
(* Properties.                                                             *)

\* A message is written to the timeline once, that is, sent to the provider
\* once, however its dispatch was settled, released, recovered or repeated.
SentAtMostOnce == \A m \in Msg : sent[m] <= 1

\* A message taken into the queue is in the queue or was sent, unless the user
\* deleted it: the three settlements and the reconciliation lose none.
NothingLost ==
  \A m \in owed : sent[m] > 0 \/ \E x \in queue : x.msg = m

\* An item whose prompt is in the timeline is not queued again: settlement and
\* acceptance run in different tasks, and a restart may fall between them.
AcceptedLeaves == \A x \in Queued(queue) : x.turn \notin timeline

\* An item that is tracked as being dispatched is in the hands of a flow, which
\* will settle it: otherwise it could not be used, moved or deleted any more.
DispatchIsCarried ==
  \A x \in queue :
    x.st = "dispatching" /\ ~Orphan(x) => \E s \in Slot : flow[s].turn = x.turn

\* A turn that is going on in this process is in the hands of the flow it belongs
\* to, or of the stop: otherwise the session would stay busy until a restart.
TurnIsCarried ==
  header.alive /\ header.live # "idle" =>
    \/ header.live = "stopping" /\ stop # "idle"
    \/ \E s \in Slot : /\ header.owner = s /\ flow[s].turn = header.turn
                      /\ flow[s].pc \in Turning

\* After a stop no automatic dispatch is sent until the user submits or uses a
\* prompt, at whatever point the stop found the dispatch.
StopHolds ==
  [][\A s \in Slot :
       At(s, "start") /\ flow'[s].pc = "publish" /\ flow[s].kind = "auto"
       => halted = None \/ flow[s].turn = halted.turn]_vars

\* A prompt that the user submits after a stop lifts the suspension it has left,
\* in memory and in the file.
SubmissionResumes ==
  [][\A s \in Slot :
       /\ flow[s].pc \in {"lift", "mark"} /\ flow'[s].pc = "admit"
       /\ halted # None /\ flow[s].msg > halted.before
       => ~gate' /\ ~parked']_vars

\* The queue is emptied again and again, whoever enqueues when.
QueueDrains == []<>(queue = {})
=============================================================================
