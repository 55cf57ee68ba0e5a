-------------------------- MODULE SupercycleCanary --------------------------
(***************************************************************************)
(* SupercycleCanaryCoordinator: every slot is captured once or the canary  *)
(* halts.  Its operator takes no lock of its own, so two processes may     *)
(* work on the journal: each decides on the copy it loaded, and the        *)
(* revision decides whose write counts.                                    *)
(***************************************************************************)
EXTENDS CampaignCapture

View(p) == proc[p].view

\* Mutant: the last write wins.
CompareAndSwapBlind(p, new) == journal' = new

\* compare_and_swap: the write of a copy that is no longer current raises.
CompareAndSwap(p, new) == journal = View(p) /\ journal' = new

\* A write that ends the operation, and one after which it goes on.
Finish(p, new) ==
    /\ CompareAndSwap(p, new)
    /\ Return(p)
    /\ UNCHANGED <<kind, target, now, batch, rf, calls>>
Continue(p, new, pc) ==
    /\ CompareAndSwap(p, new)
    /\ proc' = [proc EXCEPT ![p].pc = pc, ![p].view = new]
    /\ UNCHANGED <<kind, target, now, batch, rf, calls>>

\* capture_next and reconcile_next load the journal, the former with the time.
Load(p) ==
    /\ kind = "canary" /\ proc[p].pc = "idle"
    /\ journal.phase \in {"capturing", "analyzing"}
    /\ proc' = [proc EXCEPT ![p] = [pc |-> "loaded", view |-> journal, at |-> now]]
    /\ UNCHANGED <<kind, target, now, journal, batch, rf, calls>>

Loaded(p, phase) ==
    kind = "canary" /\ proc[p].pc = "loaded" /\ View(p).phase = phase

AllCaptured(j) == Cardinality(Accepted(j)) = Slots

\* All slots captured: the canary turns to analysis.
StartAnalysis(p) ==
    /\ Loaded(p, "capturing")
    /\ AllCaptured(View(p))
    /\ Finish(p, [View(p) EXCEPT !.phase = "analyzing"])

\* Mutant: an invocation found in the journal is taken for a planned record.
MayCaptureAgain(j) == LastIs(j, "planned") \/ LastIs(j, "capture_invoked")

MayCapture(j) == LastIs(j, "planned")

\* A record that an earlier process left invoked.
FindInvoked(p) ==
    /\ Loaded(p, "capturing")
    /\ LastIs(View(p), "capture_invoked") /\ ~MayCapture(View(p))
    /\ Finish(p, Halted(View(p), "capture_uncertain"))

PlanCanary(p) ==
    /\ Loaded(p, "capturing")
    /\ ~AllCaptured(View(p))
    /\ ~LastIs(View(p), "capture_invoked") /\ ~LastIs(View(p), "planned")
    /\ Continue(p, [View(p) EXCEPT !.records = Append(@, NewRecord)], "planned")

\* The planned record, loaded or just written.
AtPlanned(p) ==
    /\ kind = "canary"
    /\ \/ proc[p].pc = "planned"
       \/ proc[p].pc = "loaded" /\ View(p).phase = "capturing" /\ MayCapture(View(p))

MissSlot(p) ==
    /\ AtPlanned(p)
    /\ proc[p].at > Requested(SlotOf(p))
    /\ Finish(p, Halted(View(p), "missed_slot"))

\* Not due, or no capacity: the call returns and the loop calls again.
Postpone(p) ==
    /\ AtPlanned(p)
    /\ proc[p].at <= Requested(SlotOf(p))
    /\ Return(p)
    /\ UNCHANGED <<kind, target, now, journal, batch, rf, calls>>

InvokeCanary(p) ==
    LET new == WithPhase(View(p), SlotOf(p), "capture_invoked") IN
    /\ AtPlanned(p)
    /\ proc[p].at = Requested(SlotOf(p))
    /\ CompareAndSwap(p, new)
    /\ Call(p, new)
    /\ UNCHANGED <<kind, target, now, batch, rf>>

CanaryUncertain(p) ==
    /\ kind = "canary" /\ proc[p].pc = "raised"
    /\ Finish(p, Halted(View(p), "capture_uncertain"))

CanarySettled(p) ==
    /\ kind = "canary" /\ proc[p].pc = "returned"
    /\ Finish(p, IF batch[SlotOf(p)] = "eligible"
                 THEN WithPhase(View(p), SlotOf(p), "captured")
                 ELSE Halted(View(p), "integrity_failure"))

Unanalyzed(j) == {s \in 1 .. Len(j.records) : j.records[s].phase = "captured"}
FirstUnanalyzed(j) == CHOOSE s \in Unanalyzed(j) : \A t \in Unanalyzed(j) : s <= t

\* reconcile_next: one receipt, or the end; any failure halts.
Reconcile(p) ==
    /\ Loaded(p, "analyzing")
    /\ \/ /\ Unanalyzed(View(p)) = {}
          /\ Finish(p, [View(p) EXCEPT !.phase = "complete"])
       \/ /\ Unanalyzed(View(p)) # {}
          /\ Finish(p, WithPhase(View(p), FirstUnanalyzed(View(p)), "complete"))

\* halt_analysis, or a receipt that is missing, late or for another batch.
ReconcileFails(p) ==
    /\ Loaded(p, "analyzing")
    /\ Unanalyzed(View(p)) # {}
    /\ Finish(p, Halted(View(p), "analysis_failed"))

\* The write is refused because the copy is no longer current.
LoseRace(p) ==
    /\ kind = "canary" /\ proc[p].pc \in {"loaded", "planned", "raised", "returned"}
    /\ journal # View(p)
    /\ Return(p)
    /\ UNCHANGED <<kind, target, now, journal, batch, rf, calls>>

CanaryStep(p) ==
    \/ Load(p) \/ StartAnalysis(p) \/ FindInvoked(p) \/ PlanCanary(p) \/ MissSlot(p)
    \/ Postpone(p) \/ InvokeCanary(p) \/ CanaryUncertain(p) \/ CanarySettled(p)
    \/ Reconcile(p) \/ ReconcileFails(p) \/ LoseRace(p)

-----------------------------------------------------------------------------
(* Properties.                                                             *)

\* Never replay: whatever two processes and their crashes do, the capture of a
\* slot is called at most once, and never again after the canary halted.
NeverReplay ==
    kind = "canary" =>
        /\ \A s \in AllSlots : calls[s] <= 1
        /\ journal.phase \in {"halted", "analyzing", "complete"} =>
             \A s \in AllSlots : s > Len(journal.records) => calls[s] = 0

\* A halted canary stays halted and keeps its records ("halt and preserve"), and
\* every analysis was preceded by the capture of all slots.
HaltIsFinal ==
    [][kind = "canary" =>
         /\ journal.phase = "halted" => journal' = journal
         /\ journal'.phase \in {"analyzing", "complete"} => AllCaptured(journal')]_vars
=============================================================================
