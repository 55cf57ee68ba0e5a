-------------------------- MODULE CaptureCampaigns --------------------------
(***************************************************************************)
(* A campaign under any of the three coordinators, over the same capture   *)
(* port and the same batch rows.                                           *)
(***************************************************************************)
EXTENDS StagedDrain, OneShotCampaign, SupercycleCanary

CONSTANTS Kinds, Targets

ASSUME KindsAssumption ==
    Kinds \subseteq {"deferred", "one_shot", "canary"} /\ Targets \subseteq Nat

CampaignInit == kind \in Kinds /\ target \in Targets /\ Init /\ DrainInit

ProcStep(p) == PortStep(p) \/ DeferredStep(p) \/ OneShotStep(p) \/ CanaryStep(p)

Next ==
    \/ Tick /\ UNCHANGED drainVars
    \/ \E p \in Procs : ProcStep(p) /\ UNCHANGED drainVars
    \/ \E p \in Procs : StagedStep(p)
    \/ \E d \in Drains : LaneStep(d)
    \/ LeaseExpires \/ OnlineStarts \/ OnlineStops

Spec == CampaignInit /\ [][Next]_allVars

FairSpec == Spec /\ DeferredFairness /\ StagedFairness

-----------------------------------------------------------------------------
(* Properties of all three.                                                *)

\* The journal of a deferred campaign stays one that the constructor of its state
\* accepts, and that of a one-shot campaign, whose state checks nothing, has one
\* unit at a time, whatever is halted, closed or repeated.
JournalIsCanonical == StateIsCanonical /\ OneUnitAtATime

\* The radios capture a slot at most once, although the journal counts its
\* invocations before the call, the call is repeated after an exception, and the
\* process dies anywhere in between.
CapturedOnce == \A s \in AllSlots : rf[s] <= 1

\* The journal never runs ahead of the batch rows: an accepted record has an
\* eligible batch, and no slot was called more often than its record says.
JournalIsBacked ==
    \A s \in 1 .. Len(journal.records) :
        /\ s \in Accepted(journal) => batch[s] = "eligible" /\ rf[s] = 1
        /\ journal.records[s].phase = "planned" => calls[s] <= journal.records[s].captures
        /\ kind # "canary" => calls[s] <= MaximumCaptureInvocations
=============================================================================
