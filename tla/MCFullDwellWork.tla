-------------------------- MODULE MCFullDwellWork --------------------------
(* Two workers, two suites for a backlog of one, a handover of the guard.  *)
EXTENDS FullDwellWork

CONSTANTS w1, w2
=============================================================================
