------------------------------- MODULE MCSlots -------------------------------
(* The slots that the API offers, over every question of OfficeFunctions. *)
EXTENDS OfficeFunctions

Spec == FunctionInit /\ [][UNCHANGED question]_question
=============================================================================
