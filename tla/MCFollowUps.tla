---------------------------- MODULE MCFollowUps ----------------------------
(* Small instances of FollowUps: whose runs, and the lists of steps. *)
EXTENDS FollowUps

CONSTANTS r1, s1, l1

OneRun == {r1}

\* all runs of one sequence and one lead
SameSequence == [r \in Run |-> s1]
SameLead == [r \in Run |-> l1]

List(n, c) == {[order |-> k, channel |-> c] : k \in 1..n}
TwoSteps == List(2, "WHATSAPP")
EmailLast == List(1, "WHATSAPP") \cup {[order |-> 2, channel |-> "EMAIL"]}

OnlyTwoSteps == {TwoSteps}
WithEmail == {TwoSteps, EmailLast}
=============================================================================
