-------------------------- MODULE OneShotCampaign --------------------------
(***************************************************************************)
(* CampaignCoordinator: each capture is analysed before the next, a failed *)
(* capture is tried again in a fresh slot.  run_next holds the campaign    *)
(* lock; a missed slot, an exhausted invocation or an analysis that ran    *)
(* out of attempts or of time is reported and changes nothing.             *)
(***************************************************************************)
EXTENDS CampaignCapture

CONSTANT Qualification   \* a qualification campaign allows no retry

ASSUME QualificationAssumption == Qualification \in BOOLEAN

\* run_next begins.
RunNext(p) ==
    /\ kind = "one_shot" /\ proc[p].pc = "idle" /\ LockFree
    /\ Cardinality(Analyzed(journal)) < target

MayRetry(record) == ~Qualification /\ record.retry + 1 < MaximumFreshAttempts

\* A new record: the first, after a complete one, or a fresh attempt at the cell
\* of a failed one.
PlanUnit(p) ==
    LET slot == Len(journal.records) + 1
        failed == LastIs(journal, "terminal_failed")
        retry == IF failed THEN Last(journal.records).retry + 1 ELSE 0
    IN
    /\ RunNext(p)
    /\ journal.records = <<>> \/ LastIs(journal, "complete") \/ failed
    /\ failed => MayRetry(Last(journal.records))
    /\ slot <= Slots
    /\ now <= Requested(slot)
    /\ journal' = [journal EXCEPT !.records = Append(@, [NewRecord EXCEPT !.retry = retry])]
    /\ UNCHANGED <<kind, target, now, batch, proc, rf, calls>>

\* _run_capture of a planned record that is due, not late and not exhausted.
RunCapture(p) ==
    LET record == Last(journal.records) IN
    /\ RunNext(p)
    /\ LastIs(journal, "planned")
    /\ record.captures < MaximumCaptureInvocations
    /\ now = Requested(Len(journal.records))
    /\ Call(p, WithLast(journal, [record EXCEPT !.captures = @ + 1]))
    /\ UNCHANGED <<kind, target, now, batch, rf>>

CaptureUncertain(p) ==
    /\ kind = "one_shot" /\ proc[p].pc = "raised"
    /\ Return(p)
    /\ UNCHANGED <<kind, target, now, journal, batch, rf, calls>>

CaptureFailed(p) ==
    /\ kind = "one_shot" /\ proc[p].pc = "returned"
    /\ batch[SlotOf(p)] = "rejected"
    /\ journal' = WithPhase(journal, SlotOf(p), "terminal_failed")
    /\ Return(p)
    /\ UNCHANGED <<kind, target, now, batch, rf, calls>>

\* The analysis follows at once; the first call passes the requested start for
\* the time, so that only the receipt is compared with the deadline.
Captured(p) ==
    /\ kind = "one_shot" /\ proc[p].pc = "returned"
    /\ batch[SlotOf(p)] = "eligible"
    /\ journal' = WithPhase(journal, SlotOf(p), "captured")
    /\ Goto(p, "planned")
    /\ UNCHANGED <<kind, target, now, batch, rf, calls>>

CountAnalysis(p) ==
    /\ journal' = [journal EXCEPT !.records[Len(journal.records)].analyses = @ + 1]
    /\ Goto(p, "analysing")
    /\ UNCHANGED <<kind, target, now, batch, rf, calls>>

RunAnalysis(p) ==
    /\ LET record == Last(journal.records) IN
       \/ /\ kind = "one_shot" /\ proc[p].pc = "planned"
          /\ record.analyses < MaximumAnalysisInvocations
       \/ /\ RunNext(p)
          /\ LastIs(journal, "captured") \/ LastIs(journal, "analysis_failed")
          /\ record.analyses < MaximumAnalysisInvocations
          /\ now < Deadline(Len(journal.records))
    /\ CountAnalysis(p)

InTime(s) == now <= Deadline(s)

\* A valid receipt in time completes the unit; an error or a late receipt fails
\* this analysis.  The time of the action is the receipt's.
AnalysisReturns(p) ==
    LET s == Len(journal.records) IN
    /\ kind = "one_shot" /\ proc[p].pc = "analysing"
    /\ \/ InTime(s) /\ journal' = WithPhase(journal, s, "complete")
       \/ journal' = WithPhase(journal, s, "analysis_failed")
    /\ Return(p)
    /\ UNCHANGED <<kind, target, now, batch, rf, calls>>

OneShotStep(p) ==
    \/ PlanUnit(p) \/ RunCapture(p) \/ CaptureUncertain(p) \/ CaptureFailed(p)
    \/ Captured(p) \/ RunAnalysis(p) \/ AnalysisReturns(p)

-----------------------------------------------------------------------------
(* Properties.                                                             *)

\* No capture begins while an accepted unit waits for its analysis, and a cell
\* takes no more slots than the limit allows: the slots since the last complete
\* unit are failed attempts of one cell.
OneUnitAtATime ==
    kind = "one_shot" =>
        LET done == Analyzed(journal)
            current == {s \in 1 .. Len(journal.records) : \A t \in done : t < s}
        IN  /\ Cardinality(current) <= MaximumFreshAttempts
            /\ \A s \in 1 .. Len(journal.records) - 1 :
                 journal.records[s].phase \in {"complete", "terminal_failed"}
=============================================================================
