------------------------- MODULE PromptInteraction -------------------------
(***************************************************************************)
(* The questions an agent asks during a prompt: permission requests        *)
(* (src/src/acp/permission.rs) and forms, called elicitations              *)
(* (src/src/acp/elicitation.rs), of one attempt directory.                 *)
(*                                                                         *)
(* Three parties meet in the directory and share no lock: the runtime      *)
(* thread that received the question and waits for its answer              *)
(* (src/src/acp/client.rs), the commands by which a window answers         *)
(* (src/src-tauri/src/commands.rs), and the sweeps by which a stop, a      *)
(* close of the session or the end of a cancelled prompt settles what is   *)
(* open.  They talk through a request file, a response file and an item of *)
(* the timeline for each question, and each step below reads or writes one *)
(* of them.  A permission request is named by the JSON-RPC id of the       *)
(* agent, which a new agent process may use again; a form gets a fresh     *)
(* name.                                                                   *)
(***************************************************************************)
EXTENDS Integers, Sequences, FiniteSets

CONSTANTS
    Ids,          \* JSON-RPC ids an agent gives to its permission requests
    Forms,        \* fresh names of forms
    Users,        \* the answers being given at a time
    MaxRequests,  \* bound: questions of the agents
    MaxFaults,    \* bound: stops, closes and crashes
    Environment   \* subset of {"stop", "close", "crash", "second-answer", "reuse", "broken"}

ASSUME KeysApart == Ids \cap Forms = {}
ASSUME KeysExist == Ids \cup Forms # {}
ASSUME BoundsAssumption == MaxRequests \in Nat /\ MaxFaults \in Nat

Keys == Ids \cup Forms
Requests == 1 .. MaxRequests
\* "accept" stands for the option a user picks, "decline" for a refusal.
Choices == {"accept", "decline"}
Decisions == Choices \cup {"cancelled"}
\* What an interruption answers: a form knows no cancelled outcome.
CancelOf(k) == IF k \in Forms THEN "decline" ELSE "cancelled"
Sweepers == {"control", "runtime"}

VARIABLES
    asked,     \* the questions so far, each with its name
    request,   \* the request file of a name: its question, 0 when there is none
    response,  \* the response file of a name
    item,      \* the timeline item of a name
    handler,   \* the runtime thread
    turn,      \* a prompt is in progress
    cancel,    \* its cancellation is requested
    users,     \* the answering commands
    sweep,     \* the sweeps
    sent,      \* what the agent was told about each question
    chosen,    \* what users answered to each question
    calm,      \* nothing interrupted the session so far
    faults     \* stops, closes and crashes so far

vars == <<asked, request, response, item, handler, turn, cancel, users, sweep,
          sent, chosen, calm, faults>>
files == <<request, response, item>>
told == <<asked, sent>>
fate == <<chosen, calm, faults>>

NoResponse == [to |-> 0, says |-> "none"]
NoItem == [of |-> 0, status |-> "none", revision |-> 0]
Waiting == [pc |-> "idle", of |-> 0, late |-> FALSE, got |-> "none"]
NoAnswer == [pc |-> "idle", key |-> CHOOSE k \in Keys : TRUE, of |-> 0, says |-> "none", revision |-> 0]
NoSweep == [pc |-> "idle", todo |-> {}, key |-> CHOOSE k \in Keys : TRUE, of |-> 0,
            says |-> "none", writes |-> FALSE, revision |-> 0]

Init ==
    /\ asked = <<>>
    /\ request = [k \in Keys |-> 0]
    /\ response = [k \in Keys |-> NoResponse]
    /\ item = [k \in Keys |-> NoItem]
    /\ handler = Waiting
    /\ turn = TRUE /\ cancel = FALSE
    /\ users = [u \in Users |-> NoAnswer]
    /\ sweep = [s \in Sweepers |-> NoSweep]
    /\ sent = [o \in Requests |-> "none"]
    /\ chosen = [o \in Requests |-> {}]
    /\ calm = TRUE /\ faults = 0

Key == asked[handler.of]      \* the name of the question in hand
IsForm == Key \in Forms
Pending(k) == item[k].status = "pending"
\* A timeline patch: the next revision of the item of a name.
Patch(k, o, status) ==
    item' = [item EXCEPT ![k] = [of |-> o, status |-> status, revision |-> @.revision + 1]]
\* settle_permission_item and append_elicitation_response_item compare, under
\* the lock of the timeline, the revision the caller read and the status.
Unchanged(k, revision) == Pending(k) /\ item[k].revision = revision
Settle(k, revision, status) ==
    IF Unchanged(k, revision) THEN Patch(k, item[k].of, status) ELSE UNCHANGED item

-----------------------------------------------------------------------------
(* The runtime thread: handle_permission_request, handle_elicitation_request. *)

At(pc) == handler.pc = pc
Goto(pc) == handler' = [handler EXCEPT !.pc = pc]
HandlerOnly == UNCHANGED <<asked, turn, cancel, users, sweep, chosen, calm, faults>>

\* A question arrives.  Outside a prompt and in a cancelled one it is answered
\* at once and leaves no trace.
Ask(k) ==
    /\ At("idle") /\ Len(asked) < MaxRequests
    /\ k \in Forms \/ "reuse" \notin Environment => \A o \in 1 .. Len(asked) : asked[o] # k
    /\ asked' = Append(asked, k)
    /\ IF turn /\ ~cancel
       THEN handler' = [Waiting EXCEPT !.pc = "file", !.of = Len(asked) + 1] /\ UNCHANGED sent
       ELSE sent' = [sent EXCEPT ![Len(asked) + 1] = CancelOf(k)] /\ UNCHANGED handler
    /\ UNCHANGED <<files, turn, cancel, users, sweep, fate>>

WriteRequest ==
    /\ At("file")
    /\ request' = [request EXCEPT ![Key] = handler.of]
    /\ Goto(IF IsForm THEN "event" ELSE "look")
    /\ UNCHANGED <<response, item, sent>> /\ HandlerOnly

\* A sweep may have cancelled the request between its file and its event.
LookForCancelled ==
    /\ At("look")
    /\ handler' = [handler EXCEPT !.pc = "event", !.late = response[Key].says = "cancelled"]
    /\ UNCHANGED <<files, sent>> /\ HandlerOnly

PersistEvent ==
    /\ At("event")
    /\ Patch(Key, handler.of, IF handler.late THEN "cancelled" ELSE "pending")
    /\ Goto("bind")
    /\ UNCHANGED <<request, response, sent>> /\ HandlerOnly

\* The request file is read and written back with the place of its item.  A
\* sweep that removed it in between fails the whole prompt.
BindLook ==
    /\ At("bind")
    /\ Goto(IF Pending(Key) THEN "bind-read" ELSE "wait")
    /\ UNCHANGED <<files, sent>> /\ HandlerOnly
BindRead ==
    /\ At("bind-read")
    /\ Goto(IF request[Key] = 0 THEN "failed" ELSE "bind-write")
    /\ UNCHANGED <<files, sent>> /\ HandlerOnly
BindWrite ==
    /\ At("bind-write")
    /\ request' = [request EXCEPT ![Key] = handler.of]
    /\ Goto("wait")
    /\ UNCHANGED <<response, item, sent>> /\ HandlerOnly

\* wait_for_..._until_cancelled: the cancellation is looked at first, then the file.
WaitCancelled ==
    /\ At("wait")
    /\ handler' = IF cancel THEN [handler EXCEPT !.pc = "decided", !.got = CancelOf(Key)]
                            ELSE [handler EXCEPT !.pc = "poll"]
    /\ UNCHANGED <<files, sent>> /\ HandlerOnly

\* Mistaken: a missing response is read as a refusal.
WaitPollMissing ==
    /\ At("poll")
    /\ handler' = [handler EXCEPT !.pc = "decided",
                      !.got = IF response[Key] = NoResponse THEN CancelOf(Key) ELSE response[Key].says]
    /\ UNCHANGED <<files, sent>> /\ HandlerOnly

\* Mistaken: the response is taken without the question it belongs to.
WaitPollForgets ==
    /\ At("poll") /\ response[Key] # NoResponse
    /\ handler' = [Waiting EXCEPT !.pc = "decided", !.got = response[Key].says]
    /\ UNCHANGED <<files, sent>> /\ HandlerOnly

WaitPoll ==
    /\ At("poll")
    /\ handler' = IF response[Key] = NoResponse THEN [handler EXCEPT !.pc = "wait"]
                  ELSE [handler EXCEPT !.pc = IF IsForm THEN "decided" ELSE "take",
                                       !.got = response[Key].says]
    /\ UNCHANGED <<files, sent>> /\ HandlerOnly
TakeResponse ==
    /\ At("take")
    /\ response' = [response EXCEPT ![Key] = NoResponse]
    /\ Goto("decided")
    /\ UNCHANGED <<request, item, sent>> /\ HandlerOnly

\* The connection may be gone by now: that fails the prompt.
SendFails == "broken" \in Environment /\ Goto("failed") /\ UNCHANGED sent
Reply == sent' = [sent EXCEPT ![handler.of] = handler.got]

\* A form is answered to the agent before its item is looked at.
SendForm ==
    /\ At("decided") /\ IsForm
    /\ (Reply /\ Goto("settled")) \/ SendFails
    /\ UNCHANGED files /\ HandlerOnly

\* Mistaken: whoever answered is trusted to have settled the item.
LookSettledTrusts ==
    /\ At("settled") \/ (At("decided") /\ ~IsForm)
    /\ Goto("clean")
    /\ UNCHANGED <<files, sent>> /\ HandlerOnly

LookSettled ==
    /\ At("settled") \/ (At("decided") /\ ~IsForm)
    /\ Goto(IF Pending(Key) THEN "record" ELSE "clean")
    /\ UNCHANGED <<files, sent>> /\ HandlerOnly
\* persist_event writes the item whatever it holds by now.
Record ==
    /\ At("record")
    /\ Patch(Key, handler.of, handler.got)
    /\ Goto("clean")
    /\ UNCHANGED <<request, response, sent>> /\ HandlerOnly
RemoveRequest ==
    /\ At("clean")
    /\ request' = [request EXCEPT ![Key] = 0]
    /\ Goto("clean-response")
    /\ UNCHANGED <<response, item, sent>> /\ HandlerOnly
RemoveResponse ==
    /\ At("clean-response")
    /\ response' = [response EXCEPT ![Key] = NoResponse]
    /\ IF IsForm THEN handler' = Waiting ELSE Goto("send")
    /\ UNCHANGED <<request, item, sent>> /\ HandlerOnly
SendPermission ==
    /\ At("send")
    /\ (Reply /\ handler' = Waiting) \/ SendFails
    /\ UNCHANGED files /\ HandlerOnly

(* The prompt the questions belong to. *)

StartSweep(s) == sweep' = [sweep EXCEPT ![s] = [NoSweep EXCEPT !.pc = "visit", !.todo = Keys]]

BeginTurn ==
    /\ ~turn
    /\ turn' = TRUE /\ cancel' = FALSE
    /\ UNCHANGED <<asked, files, handler, users, sweep, sent, fate>>
\* A prompt that was cancelled or failed sweeps the questions before it ends.
EndTurn ==
    /\ turn /\ handler.pc \in {"idle", "failed"}
    /\ IF At("failed") \/ cancel
       THEN StartSweep("runtime") /\ Goto("sweeping") /\ UNCHANGED turn
       ELSE turn' = FALSE /\ UNCHANGED <<sweep, handler>>
    /\ UNCHANGED <<asked, files, cancel, users, sent, fate>>
TurnSwept ==
    /\ At("sweeping") /\ sweep["runtime"].pc = "idle"
    /\ turn' = FALSE /\ handler' = Waiting
    /\ UNCHANGED <<asked, files, cancel, users, sweep, sent, fate>>

-----------------------------------------------------------------------------
(* A window answers: write_permission_response_if_pending, write_elicitation_response. *)

UserOnly == UNCHANGED <<asked, handler, turn, cancel, sweep, sent, faults>>
UserGoes(u, pc) == users' = [users EXCEPT ![u].pc = pc]
UserDone(u) == users' = [users EXCEPT ![u] = NoAnswer]

\* The card of a pending item is answered; it closes, unless a second window shows it.
Click(u, k, choice) ==
    LET o == item[k].of
    IN  /\ users[u].pc = "idle" /\ Pending(k)
        /\ \/ chosen[o] = {}
           \/ "second-answer" \in Environment /\ Cardinality(chosen[o]) = 1
        /\ users' = [users EXCEPT ![u] = [pc |-> IF k \in Forms THEN "resolve" ELSE "check",
                        key |-> k, of |-> o, says |-> choice, revision |-> 0]]
        /\ chosen' = [chosen EXCEPT ![o] = @ \cup {choice}]
        /\ calm' = (calm /\ chosen[o] = {})
        /\ UNCHANGED files /\ UserOnly
\* A permission is answered only when it is open and has no response yet.
UserChecks(u) ==
    LET k == users[u].key
    IN  /\ users[u].pc = "check"
        /\ IF request[k] # 0 /\ response[k] = NoResponse THEN UserGoes(u, "write") ELSE UserDone(u)
        /\ UNCHANGED <<files, chosen, calm>> /\ UserOnly
\* The item is looked for; a form is answered even when it is not found.
UserResolves(u) ==
    LET k == users[u].key
        found == IF k \in Forms THEN request[k] # 0 /\ item[k] # NoItem ELSE Pending(k)
    IN  /\ users[u].pc = "resolve"
        /\ users' = [users EXCEPT ![u] =
                        IF found THEN [@ EXCEPT !.pc = "settle", !.revision = item[k].revision]
                        ELSE IF k \in Forms THEN [@ EXCEPT !.pc = "write"]
                        ELSE NoAnswer]
        /\ UNCHANGED <<files, chosen, calm>> /\ UserOnly
UserSettles(u) ==
    LET k == users[u].key
    IN  /\ users[u].pc = "settle"
        /\ Settle(k, users[u].revision, users[u].says)
        /\ IF k \in Forms THEN UserGoes(u, "write") ELSE UserDone(u)
        /\ UNCHANGED <<request, response, chosen, calm>> /\ UserOnly
\* The response of a permission comes before its item, that of a form after it.
UserWrites(u) ==
    LET k == users[u].key
    IN  /\ users[u].pc = "write"
        /\ response' = [response EXCEPT ![k] = [to |-> users[u].of, says |-> users[u].says]]
        /\ IF k \in Forms THEN UserDone(u) ELSE UserGoes(u, "resolve")
        /\ UNCHANGED <<request, item, chosen, calm>> /\ UserOnly

-----------------------------------------------------------------------------
(* cancel_pending_permission_requests and cancel_pending_elicitation_requests. *)

SweepOnly == UNCHANGED <<asked, handler, turn, cancel, users, sent, fate>>
SweepGoes(s, pc) ==
    sweep' = [sweep EXCEPT ![s] = IF pc = "visit" THEN [NoSweep EXCEPT !.pc = pc, !.todo = sweep[s].todo]
                                  ELSE [@ EXCEPT !.pc = pc]]
\* Permissions are swept before forms.
Upcoming(todo) == IF todo \cap Ids # {} THEN todo \cap Ids ELSE todo

\* Which questions a sweep takes up.  A permission without a pending item is
\* passed over; a form that has its response only gets its item settled.
Open(k) == /\ request[k] # 0
           /\ k \in Ids => response[k] = NoResponse /\ Pending(k)
Visit(s, k) ==
    LET own == response[k] = NoResponse
    IN  /\ sweep[s].pc = "visit" /\ k \in Upcoming(sweep[s].todo)
        /\ sweep' = [sweep EXCEPT ![s] =
                IF Open(k) THEN [pc |-> "settle", todo |-> @.todo \ {k}, key |-> k, of |-> request[k],
                                 writes |-> own,
                                 says |-> IF own THEN CancelOf(k) ELSE response[k].says,
                                 revision |-> item[k].revision]
                ELSE [sweep[s] EXCEPT !.todo = @ \ {k}]]
        /\ UNCHANGED files /\ SweepOnly

\* Mistaken: a sweep closes the request without a response for the waiting thread.
SweepSettlesOnly(s) ==
    LET k == sweep[s].key
        applied == Unchanged(k, sweep[s].revision)
    IN  /\ sweep[s].pc = "settle"
        /\ Settle(k, sweep[s].revision, sweep[s].says)
        /\ SweepGoes(s, IF k \in Forms /\ sweep[s].writes THEN "write"
                        ELSE IF k \in Ids /\ applied THEN "remove" ELSE "visit")
        /\ UNCHANGED <<request, response>> /\ SweepOnly
SweepSettles(s) ==
    LET k == sweep[s].key
        applied == Unchanged(k, sweep[s].revision)
    IN  /\ sweep[s].pc = "settle"
        /\ Settle(k, sweep[s].revision, sweep[s].says)
        /\ SweepGoes(s, IF sweep[s].writes /\ (k \in Forms \/ applied) THEN "write" ELSE "visit")
        /\ UNCHANGED <<request, response>> /\ SweepOnly
SweepWrites(s) ==
    LET k == sweep[s].key
    IN  /\ sweep[s].pc = "write"
        /\ response' = [response EXCEPT ![k] = [to |-> sweep[s].of, says |-> sweep[s].says]]
        /\ SweepGoes(s, IF k \in Forms THEN "visit" ELSE "remove")
        /\ UNCHANGED <<request, item>> /\ SweepOnly
SweepRemoves(s) ==
    /\ sweep[s].pc = "remove"
    /\ request' = [request EXCEPT ![sweep[s].key] = 0]
    /\ SweepGoes(s, "visit")
    /\ UNCHANGED <<response, item>> /\ SweepOnly
SweepEnds(s) ==
    /\ sweep[s].pc = "visit" /\ sweep[s].todo = {}
    /\ sweep' = [sweep EXCEPT ![s] = NoSweep]
    /\ UNCHANGED files /\ SweepOnly

-----------------------------------------------------------------------------
(* What interrupts a session. *)

Interruption(kind) ==
    /\ kind \in Environment /\ faults < MaxFaults
    /\ faults' = faults + 1 /\ calm' = FALSE
    /\ UNCHANGED <<asked, files, sent, chosen>>

\* A stop requests the cancellation first and then sweeps; so does the recovery
\* of an attempt that was left active, when no prompt is in progress.
Stop ==
    /\ Interruption("stop") /\ sweep["control"].pc = "idle"
    /\ cancel' = turn /\ StartSweep("control")
    /\ UNCHANGED <<handler, turn, users>>
\* A close of the session, or the end of its node, sweeps and requests nothing.
Close ==
    /\ Interruption("close") /\ sweep["control"].pc = "idle"
    /\ StartSweep("control")
    /\ UNCHANGED <<handler, turn, cancel, users>>
\* The files outlive the process.
Crash ==
    /\ Interruption("crash")
    /\ handler' = Waiting /\ turn' = FALSE /\ cancel' = FALSE
    /\ users' = [u \in Users |-> NoAnswer] /\ sweep' = [s \in Sweepers |-> NoSweep]

-----------------------------------------------------------------------------
Handle ==
    \/ WriteRequest \/ LookForCancelled \/ PersistEvent \/ BindLook \/ BindRead \/ BindWrite
    \/ WaitCancelled \/ WaitPoll \/ TakeResponse \/ SendForm \/ LookSettled \/ Record
    \/ RemoveRequest \/ RemoveResponse \/ SendPermission \/ TurnSwept
Answer(u) == UserChecks(u) \/ UserResolves(u) \/ UserSettles(u) \/ UserWrites(u)
Settling(s) ==
    \/ \E k \in Keys : Visit(s, k)
    \/ SweepSettles(s) \/ SweepWrites(s) \/ SweepRemoves(s) \/ SweepEnds(s)

Next ==
    \/ \E k \in Keys : Ask(k)
    \/ Handle
    \/ BeginTurn \/ EndTurn
    \/ \E u \in Users : (\E k \in Keys, c \in Choices : Click(u, k, c)) \/ Answer(u)
    \/ \E s \in Sweepers : Settling(s)
    \/ Stop \/ Close \/ Crash

Spec == Init /\ [][Next]_vars

\* Threads go on: the runtime thread, the commands and the sweeps.  Nobody has
\* to ask, to answer or to stop.
Fairness ==
    /\ WF_vars(Handle)
    /\ \A u \in Users : WF_vars(Answer(u))
    /\ \A s \in Sweepers : WF_vars(Settling(s))
FairSpec == Spec /\ Fairness

-----------------------------------------------------------------------------
Statuses == {"none", "pending"} \cup Decisions
TypeOK ==
    /\ asked \in Seq(Keys) /\ Len(asked) <= MaxRequests
    /\ request \in [Keys -> 0 .. MaxRequests]
    /\ response \in [Keys -> [to : 0 .. MaxRequests, says : Decisions \cup {"none"}]]
    /\ item \in [Keys -> [of : 0 .. MaxRequests, status : Statuses, revision : Nat]]
    /\ handler \in [pc : {"idle", "file", "look", "event", "bind", "bind-read", "bind-write",
                          "wait", "poll", "take", "decided", "settled", "record", "clean",
                          "clean-response", "send", "failed", "sweeping"},
                    of : 0 .. MaxRequests, late : BOOLEAN, got : Decisions \cup {"none"}]
    /\ handler.of <= Len(asked)
    /\ handler.pc \in {"idle", "failed", "sweeping"} \/ handler.of > 0
    /\ turn \in BOOLEAN /\ cancel \in BOOLEAN /\ calm \in BOOLEAN
    /\ users \in [Users -> [pc : {"idle", "check", "resolve", "settle", "write"}, key : Keys,
                            of : 0 .. MaxRequests, says : Decisions \cup {"none"}, revision : Nat]]
    /\ sweep \in [Sweepers -> [pc : {"idle", "visit", "settle", "write", "remove"}, todo : SUBSET Keys,
                               key : Keys, of : 0 .. MaxRequests, says : Decisions \cup {"none"},
                               writes : BOOLEAN, revision : Nat]]
    /\ sent \in [Requests -> Decisions \cup {"none"}]
    /\ chosen \in [Requests -> SUBSET Choices]
    /\ faults \in 0 .. MaxFaults

InHand(o) == handler.of = o /\ handler.pc \notin {"idle", "failed", "sweeping"}

\* A question that the timeline shows as open can still be settled: its request
\* file is there for the next sweep, or the runtime thread is still on it.  A
\* crash at any step leaves no card that nothing will ever close.
PendingIsOwned ==
    \A k \in Keys :
        Pending(k) => \/ request[k] # 0
                      \/ InHand(item[k].of) /\ ~At("clean-response")

\* As long as nothing interrupts the session and nobody answers twice, a question
\* that was put to the user is answered with the user's choice for this very
\* question, and the timeline shows that choice.
CalmAnswersAgree ==
    calm => \A o \in 1 .. Len(asked) :
        sent[o] # "none" /\ item[asked[o]].of = o =>
            sent[o] \in chosen[o] /\ item[asked[o]].status = sent[o]

\* What the agent is told to go ahead with was chosen for this very question.
AcceptIsChosen ==
    \A o \in 1 .. Len(asked) : sent[o] = "accept" => "accept" \in chosen[o]

\* Once a question is settled its outcome stays: a stop does not turn a choice
\* into a cancellation, and a late click does not turn a cancellation into a choice.
DecisionStands ==
    [][\A k \in Keys : item[k].status \in Decisions /\ item'[k].of = item[k].of
                        => item'[k].status = item[k].status]_vars

\* The runtime thread does not wait for ever on a question that the user
\* answered or whose prompt was stopped, whoever else touches the files.
AnswerOrStopReleases ==
    \A o \in Requests : InHand(o) /\ (cancel \/ chosen[o] # {}) ~> ~InHand(o)
\* Nor on one whose request was on file when a close of the session began.
CloseReleases ==
    \A o \in Requests :
        InHand(o) /\ request[Key] = o /\ sweep["control"].todo = Keys ~> ~InHand(o)
=============================================================================
