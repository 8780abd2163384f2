------------------------- MODULE OccurrenceContract -------------------------
(***************************************************************************)
(* What the scheduler promises about every occurrence of a job, whatever   *)
(* crashes, lost leases and lost events do to it:                          *)
(*                                                                         *)
(*  - its execution is started at most once, and only while it is open;    *)
(*  - it is reported as succeeded only when its execution has completed,   *)
(*    and as skipped or missed only when none was ever started;            *)
(*  - a settled occurrence stays as it was reported, except that one that  *)
(*    awaits an answer is reopened.                                        *)
(***************************************************************************)
CONSTANT Occ

VARIABLES
  phase,  \* what is reported of each occurrence
  work    \* what became of its execution

vars == <<phase, work>>

Outcome == {"succeeded", "failed", "skipped", "missed"}
Phase == {"future", "open", "asking"} \cup Outcome
Work == {"none", "started", "done"}

TypeOK == phase \in [Occ -> Phase] /\ work \in [Occ -> Work]

Init ==
  /\ phase = [o \in Occ |-> "future"]
  /\ work = [o \in Occ |-> "none"]

Create(o) ==
  /\ phase[o] = "future"
  /\ phase' = [phase EXCEPT ![o] = "open"]
  /\ UNCHANGED work

Start(o) ==
  /\ phase[o] = "open" /\ work[o] = "none"
  /\ work' = [work EXCEPT ![o] = "started"]
  /\ UNCHANGED phase

\* a run that was created and never started may be completed by the user
Complete(o) ==
  /\ work[o] # "done"
  /\ work' = [work EXCEPT ![o] = "done"]
  /\ UNCHANGED phase

Ask(o) ==
  /\ phase[o] = "open" /\ work[o] # "none"
  /\ phase' = [phase EXCEPT ![o] = "asking"]
  /\ UNCHANGED work

Reopen(o) ==
  /\ phase[o] = "asking"
  /\ phase' = [phase EXCEPT ![o] = "open"]
  /\ UNCHANGED work

Settle(o, outcome) ==
  /\ phase[o] = "open"
  /\ outcome = "succeeded" => work[o] = "done"
  /\ outcome \in {"skipped", "missed"} => work[o] = "none"
  /\ phase' = [phase EXCEPT ![o] = outcome]
  /\ UNCHANGED work

Next ==
  \E o \in Occ :
    \/ Create(o) \/ Start(o) \/ Complete(o) \/ Ask(o) \/ Reopen(o)
    \/ \E outcome \in Outcome : Settle(o, outcome)

Spec == Init /\ [][Next]_vars

=============================================================================
