---------------------------- MODULE MCQueueDrain ----------------------------
(* Small instances of QueueDrain: which item belongs to whom, and which are *)
(* retried and edited.                                                      *)
EXTENDS QueueDrain

CONSTANTS a1, a2, r1, r2

TwoItems == 1..2
ThreeItems == 1..3

\* every item of one agent and one rule
OneGroup == [i \in Item |-> a1]
OneRule == [i \in Item |-> r1]

\* users retry and edit the first item, or none
OnlyFirst == [i \in Item |-> IF i = 1 THEN 1 ELSE 0]
NeverAny == [i \in Item |-> 0]

\* the last item belongs to the other agent
LastElsewhere == [i \in Item |-> IF i + 1 \in Item THEN a1 ELSE a2]
=============================================================================
