--------------------------- MODULE MCLeadRecovery ---------------------------
(* Small instances of LeadRecovery. *)
EXTENDS LeadRecovery, TLC

CONSTANTS c1, c2, f1, f2

RequestSymmetry == Permutations({c1, c2}) \cup Permutations({f1, f2})
=============================================================================
