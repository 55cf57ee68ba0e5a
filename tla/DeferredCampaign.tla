-------------------------- MODULE DeferredCampaign --------------------------
(***************************************************************************)
(* DeferredCampaignCoordinator: capture first, analysis after the capture  *)
(* is closed.  Every command holds the campaign lock, so what a command    *)
(* does to the journal before and after a call of a port is one action     *)
(* each; a crash between two writes leaves what an earlier return leaves.  *)
(* The staged and the online drain are in StagedDrain.                     *)
(***************************************************************************)
EXTENDS CampaignCapture

\* A command of the continuous operator begins.
Command(p) == kind = "deferred" /\ proc[p].pc = "idle" /\ LockFree

Write(new) == journal' = new /\ UNCHANGED <<kind, target, now, batch, proc, rf, calls>>

NextSlot == Len(journal.records) + 1

Collected == Cardinality(Accepted(journal)) >= target

WindowHas(s) == s <= Slots

\* capture_next, as far as a new record.  Whether it goes on with the capture or
\* returns because it is not due is up to the next actions.
PlanSlot(p) ==
    /\ Command(p)
    /\ journal.phase = "capturing"
    /\ ~LastIs(journal, "planned")
    /\ \/ /\ Collected
          /\ Write([journal EXCEPT !.phase = "analyzing"])
       \/ /\ ~Collected
          /\ ~WindowHas(NextSlot)
          /\ Write(Halted(journal, "window_ended"))
       \/ /\ ~Collected
          /\ WindowHas(NextSlot)
          /\ now > Requested(NextSlot)
          /\ Write(Halted(journal, "missed_slot"))
       \/ /\ ~Collected
          /\ WindowHas(NextSlot)
          /\ now <= Requested(NextSlot)
          /\ Write([journal EXCEPT !.records = Append(@, NewRecord)])

Exhausted(record) == record.captures >= MaximumCaptureInvocations

\* The planned record can no longer be captured.
GiveUp(p) ==
    LET record == Last(journal.records) IN
    /\ Command(p)
    /\ journal.phase = "capturing" /\ LastIs(journal, "planned")
    /\ \/ /\ Exhausted(record)
          /\ Write(Halted(journal, "capture_uncertain"))
       \/ /\ ~Exhausted(record)
          /\ now > Requested(Len(journal.records))
          /\ Write(Halted(WithLast(journal, [record EXCEPT !.phase = "abandoned"]),
                          "missed_slot"))

\* _capture_planned with capacity: the invocation is counted before the call.
Invoke(p) ==
    LET record == Last(journal.records) IN
    /\ Command(p)
    /\ journal.phase = "capturing" /\ LastIs(journal, "planned")
    /\ ~Exhausted(record)
    /\ now = Requested(Len(journal.records))
    /\ Call(p, WithLast(journal, [record EXCEPT !.captures = @ + 1]))
    /\ UNCHANGED <<kind, target, now, batch, rf>>

\* An exception leaves the record planned: the same identity is called again.
Uncertain(p) ==
    /\ kind = "deferred" /\ proc[p].pc = "raised"
    /\ Return(p)
    /\ UNCHANGED <<kind, target, now, journal, batch, rf, calls>>

\* Mutant: a terminal batch counts as captured.
SettledAnyway(j, s) == WithPhase(j, s, "captured")

\* The record after the port returned a terminal snapshot.
Settled(j, s) ==
    IF batch[s] = "eligible" THEN WithPhase(j, s, "captured")
    ELSE Halted(WithPhase(j, s, "terminal_failed"), "integrity_failure")

Journalled(p) ==
    /\ kind = "deferred" /\ proc[p].pc = "returned"
    /\ journal' = Settled(journal, SlotOf(p))
    /\ Return(p)
    /\ UNCHANGED <<kind, target, now, batch, rf, calls>>

\* Mutant: a planned record does not keep the capture open.
ClosableAnyway == journal.phase \in {"capturing", "halted"}

\* close_capture raises while the last record is planned.
Closable == journal.phase \in {"capturing", "halted"} /\ ~LastIs(journal, "planned")

CloseCapture(p) ==
    /\ Command(p)
    /\ Closable
    /\ Write([journal EXCEPT !.phase = "analyzing", !.halt = "none"])

Pending == {s \in 1 .. Len(journal.records) :
              journal.records[s].phase \in {"captured", "analysis_failed"}}
Candidate == CHOOSE s \in Pending : \A t \in Pending : s <= t

\* Mutant: the invocation is not counted.
CountedNever(record) == record

\* The invocation is in the journal before the port is called.
Counted(record) == [record EXCEPT !.analyses = @ + 1]

\* analyze_next, as far as the call of the analysis port.
AnalyzeNext(p) ==
    /\ Command(p)
    /\ journal.phase = "analyzing"
    /\ \/ /\ Pending = {}
          /\ Write([journal EXCEPT !.phase = "complete"])
       \/ /\ Pending # {}
          /\ journal.records[Candidate].analyses >= MaximumAnalysisInvocations
          /\ Write(Halted(journal, "analysis_failed"))
       \/ /\ Pending # {}
          /\ journal.records[Candidate].analyses < MaximumAnalysisInvocations
          /\ journal' = [journal EXCEPT !.records[Candidate] = Counted(@)]
          /\ Goto(p, "analysing")
          /\ UNCHANGED <<kind, target, now, batch, rf, calls>>

\* The receipt is valid and in time, or the analysis failed.
AnalysisEnds(p) ==
    /\ kind = "deferred" /\ proc[p].pc = "analysing"
    /\ \E phase \in {"complete", "analysis_failed"} :
         journal' = WithPhase(journal, Candidate, phase)
    /\ Return(p)
    /\ UNCHANGED <<kind, target, now, batch, rf, calls>>

DeferredStep(p) ==
    \/ PlanSlot(p) \/ GiveUp(p) \/ Invoke(p) \/ Uncertain(p) \/ Journalled(p)
    \/ CloseCapture(p) \/ AnalyzeNext(p) \/ AnalysisEnds(p)

\* Calls of the ports return.  Nothing runs the serial commands again.
DeferredFairness ==
    \A p \in Procs : WF_vars(AnalysisEnds(p) \/ Uncertain(p) \/ Journalled(p))

-----------------------------------------------------------------------------
(* Properties.                                                             *)

\* What ContinuousCollectionState demands of every state it is asked to hold:
\* no operation may lead to one that its constructor refuses, or the operation
\* fails for good.  Only the last record is planned and a closed collection has
\* no planned record, a complete one has nothing left to analyse, and a capture
\* that stopped is halted.
StateIsCanonical ==
    kind = "deferred" =>
        /\ (journal.phase = "halted") = (journal.halt # "none")
        /\ \A s \in 1 .. Len(journal.records) - 1 : journal.records[s].phase # "planned"
        /\ journal.phase \in {"analyzing", "complete"} =>
             \A s \in 1 .. Len(journal.records) : journal.records[s].phase # "planned"
        /\ journal.phase = "complete" => Accepted(journal) = Analyzed(journal)
        /\ journal.phase = "capturing" =>
             ~LastIs(journal, "abandoned") /\ ~LastIs(journal, "terminal_failed")
        /\ Cardinality(Accepted(journal)) <= target

\* The guide: no capture after the collection is closed, and no analysis while
\* it is open, whatever the order of commands, crashes and halts; a capture that
\* has begun stays the last record's.
CaptureThenAnalysis ==
    [][kind = "deferred" =>
         /\ (\E s \in AllSlots : rf'[s] > rf[s]) => journal.phase = "capturing"
         /\ (\E p \in Procs : proc[p].pc \in {"analysing", "reconciling"}) => journal.phase = "analyzing"
         /\ journal.phase \in {"analyzing", "complete"} => journal'.phase # "capturing"]_vars
=============================================================================
