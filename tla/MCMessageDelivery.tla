------------------------- MODULE MCMessageDelivery -------------------------
(* Small instances of MessageDelivery. *)
EXTENDS MessageDelivery

CONSTANTS m1, a1, a2

OneMessage == {m1}
OneAgent == {a1}
TwoAgents == {a1, a2}
=============================================================================
