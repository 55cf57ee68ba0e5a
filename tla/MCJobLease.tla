----------------------------- MODULE MCJobLease -----------------------------
(* Two workers compete for a recording-analysis and a suite job.  The clock  *)
(* is long enough for a lease to expire twice.                               *)
EXTENDS JobLease

CONSTANTS w1, w2
=============================================================================
