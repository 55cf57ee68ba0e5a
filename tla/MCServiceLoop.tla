---------------------------- MODULE MCServiceLoop ----------------------------
(* One service process, in both of its modes.                              *)
EXTENDS ServiceLoop
=============================================================================
