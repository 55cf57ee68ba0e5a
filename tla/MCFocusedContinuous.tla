------------------------ MODULE MCFocusedContinuous ------------------------
(* Two dwells, two starts of the supervisor, from two releases; three identities *)
(* of analysis processes, for an orphan beside the attempts of both dwells.      *)
EXTENDS FocusedContinuous

CONSTANTS p1, p2
=============================================================================
