------------------------- MODULE MCObjectLifecycle -------------------------
(* Instances of ObjectLifecycle.  Two recordings share their data object, so  *)
(* that the bytes of a withdrawn recording can be published again.            *)
EXTENDS ObjectLifecycle

CONSTANTS r1, r2, c1, c2, q1, q2

ObjectsShared == [r \in Recordings |-> IF r = r1 THEN <<1, 2>> ELSE <<1, 3>>]
=============================================================================
