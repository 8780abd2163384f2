--------------------------- MODULE MCRunLifecycle ---------------------------
(***************************************************************************)
(* The workflows of the checked instances of RunLifecycle.                 *)
(***************************************************************************)
EXTENDS RunLifecycle, TLC

\* Work, and its review: a failed review sends the work back.
ReviewSuccess == [work |-> "review", review |-> "end"]
ReviewFailure == [work |-> "end", review |-> "work"]

\* One node, tried again when it fails; its success opens a new round.
RoundSuccess == [work |-> "new-round"]
RoundFailure == [work |-> "work"]

\* Identities are only compared, and a past attempt or execution never becomes
\* current again: states are the same when they agree on which identities are equal.
\* Of two threads it does not matter which is which.
Names == <<run.token, row, active, stop.token, stop.candidate>>
Pattern == [i \in DOMAIN Names |-> {j \in DOMAIN Names : Names[j] = Names[i]}]
SeenThread(t) ==
  [thread[t] EXCEPT
     !.token = {i \in DOMAIN Names : Names[i] = @},
     !.attempt = <<@ = None, @ = run.attempt, @ = stop.attempt>>,
     !.execution = <<@ = None, @ = node.execution>>]
Seen ==
  <<[run EXCEPT !.token = None, !.attempt = None],
    [node EXCEPT !.execution = (@ = None)],
    Pattern, {i \in DOMAIN Names : Names[i] = None},
    [stop EXCEPT !.token = None, !.candidate = None,
                 !.attempt = <<@ = None, @ = run.attempt>>],
    recovery, blocked, crashes,
    {<<SeenThread(t), lease = t>> : t \in Threads}>>
=============================================================================
