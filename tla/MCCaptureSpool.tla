--------------------------- MODULE MCCaptureSpool ---------------------------
(* Instances of CaptureSpool: two plans, more recordings than plans so that  *)
(* failed captures are tried again.                                          *)
EXTENDS CaptureSpool

CONSTANTS p1, p2
=============================================================================
