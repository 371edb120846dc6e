------------------------- MODULE MCInboundMessages -------------------------
(* Small instances of InboundMessages: the messages of one contact. *)
EXTENDS InboundMessages, TLC

CONSTANTS c1, l1, l2, h1, h2

OneContact == [m \in Message |-> c1]

Symmetry == Permutations({l1, l2}) \cup Permutations({h1, h2})
=============================================================================
