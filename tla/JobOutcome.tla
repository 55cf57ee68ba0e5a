----------------------------- MODULE JobOutcome -----------------------------
(***************************************************************************)
(* What the job table promises, with no clock, lease or worker: a job is   *)
(* open until it either succeeds, which makes its product and its          *)
(* projection work visible in the same step, or is parked with neither.    *)
(***************************************************************************)
CONSTANT Jobs

VARIABLES outcome, products, delivered

vars == <<outcome, products, delivered>>

Init ==
    /\ outcome = [j \in Jobs |-> "open"]
    /\ products = {}
    /\ delivered = {}

Succeed(j) ==
    /\ outcome[j] = "open"
    /\ outcome' = [outcome EXCEPT ![j] = "succeeded"]
    /\ products' = products \cup {j}
    /\ delivered' = delivered \cup {j}

Park(j) ==
    /\ outcome[j] = "open"
    /\ outcome' = [outcome EXCEPT ![j] = "parked"]
    /\ UNCHANGED <<products, delivered>>

Next == \E j \in Jobs : Succeed(j) \/ Park(j)

Spec == Init /\ [][Next]_vars
=============================================================================
