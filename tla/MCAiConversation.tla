-------------------------- MODULE MCAiConversation --------------------------
(* Small instances of AiConversation: two messages of one lead. *)
EXTENDS AiConversation, TLC

CONSTANTS n1, n2

Symmetry == Permutations({n1, n2})
=============================================================================
