---------------------------- MODULE CaptureBatch ----------------------------
(***************************************************************************)
(* What a capture batch promises its readers: it is registered once, each  *)
(* attempt gets one terminal outcome that never changes, and two           *)
(* successful attempts never claim the same recording.                     *)
(***************************************************************************)
CONSTANT Attempts

VARIABLES
    registered,   \* the batch row exists
    outcome,      \* the terminal outcome of each attempt
    recording     \* the recording a successful attempt refers to

vars == <<registered, outcome, recording>>

NoRecording == <<>>

Init ==
    /\ registered = FALSE
    /\ outcome = [a \in Attempts |-> "none"]
    /\ recording = [a \in Attempts |-> NoRecording]

Register ==
    /\ ~registered
    /\ registered' = TRUE
    /\ UNCHANGED <<outcome, recording>>

Fail(a) ==
    /\ registered /\ outcome[a] = "none"
    /\ outcome' = [outcome EXCEPT ![a] = "failed"]
    /\ UNCHANGED <<registered, recording>>

Succeed(a, r) ==
    /\ registered /\ outcome[a] = "none"
    /\ r # NoRecording
    /\ \A b \in Attempts : recording[b] # r
    /\ outcome' = [outcome EXCEPT ![a] = "succeeded"]
    /\ recording' = [recording EXCEPT ![a] = r]
    /\ UNCHANGED registered

\* The recordings an attempt may name: its own, or one that both runners name.
Recordings(a) == {<<"own", a>>, <<"shared">>}

Next ==
    \/ Register
    \/ \E a \in Attempts : Fail(a) \/ \E r \in Recordings(a) : Succeed(a, r)

Spec == Init /\ [][Next]_vars
=============================================================================
