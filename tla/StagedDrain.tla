---------------------------- MODULE StagedDrain ----------------------------
(***************************************************************************)
(* The two windowed drains of a deferred campaign.  The staged drain holds *)
(* the campaign lock, drains the jobs of one window of batches stage by    *)
(* stage with spawned children, and then reconciles one receipt per batch  *)
(* through analyze_next.  The online drain has a lock of its own, runs the *)
(* stages of full windows while the capture is open, and only reads the    *)
(* journal; it may still be at work when the staged drain begins.          *)
(*                                                                         *)
(* Odd stages are jobs, which prepare submits; an even stage is the outbox *)
(* that the commits of the stage before it fill.  The children die with    *)
(* their drain and leave leases, which JobLease models in detail.          *)
(***************************************************************************)
EXTENDS DeferredCampaign

CONSTANTS
    WindowBatches,  \* DEFERRED_ANALYSIS_WINDOW_BATCHES
    Stages,         \* number of _STAGES
    Items           \* job identities of one stage of one window

ASSUME StagedAssumption == WindowBatches \in Nat \ {0} /\ Stages \in Nat \ {0}

VARIABLES
    work,    \* the state of each row, by window, stage and item
    drain    \* window and stage at which each drain is; stage 0: at none

drainVars == <<work, drain>>
allVars == <<vars, drainVars>>

Drains == {"staged", "online"}
Windows == 0 .. (Slots \div WindowBatches) - 1
AtNone == [window |-> 0, stage |-> 0]

DrainInit ==
    /\ work = [w \in Windows |-> [k \in 1 .. Stages |-> [i \in Items |-> "none"]]]
    /\ drain = [d \in Drains |-> AtNone]

DrainTypeOK ==
    /\ \A w \in Windows, k \in 1 .. Stages, i \in Items :
         work[w][k][i] \in {"none", "ready", "lost", "succeeded", "parked"} \cup Drains
    /\ drain \in [Drains -> [window : Windows, stage : 0 .. Stages + 1]]

-----------------------------------------------------------------------------
(* Rows.  A leased row names the drain whose child holds it, or is "lost".  *)

Row(d, i) == work[drain[d].window][drain[d].stage][i]
InLane(d) == drain[d].stage \in 1 .. Stages

SetRow(d, i, state) ==
    work' = [work EXCEPT ![drain[d].window][drain[d].stage][i] = state]

\* prepare submits every job of the window; a second submission finds the first.
Prepared(w) ==
    [work EXCEPT ![w] = [k \in 1 .. Stages |-> [i \in Items |->
        IF k % 2 = 1 /\ work[w][k][i] = "none" THEN "ready" ELSE work[w][k][i]]]]

\* The children of a drain are gone and their leases run on.
Orphaned(d) ==
    [w \in Windows |-> [k \in 1 .. Stages |-> [i \in Items |->
        IF work[w][k][i] = d THEN "lost" ELSE work[w][k][i]]]]

\* The coordinators refuse a target that is not a number of whole windows.
Windowed == kind = "deferred" /\ target % WindowBatches = 0

ChildClaims(d) ==
    /\ InLane(d)
    /\ \E i \in Items : Row(d, i) = "ready" /\ SetRow(d, i, d)
    /\ UNCHANGED <<vars, drain>>

\* The commit of a job also inserts its row of the next stage.
ChildCommits(d) ==
    LET k == drain[d].stage IN
    /\ InLane(d)
    /\ \E i \in Items :
         /\ Row(d, i) = d
         /\ work' = [work EXCEPT ![drain[d].window] = [@ EXCEPT ![k][i] = "succeeded",
                ![IF k % 2 = 1 /\ k < Stages THEN k + 1 ELSE k][i] =
                    IF k % 2 = 1 /\ k < Stages THEN "ready" ELSE "succeeded"]]
    /\ UNCHANGED <<vars, drain>>

\* A failure is retried, or parked when the worker's attempts are used up.
ChildFails(d) ==
    /\ InLane(d)
    /\ \E i \in Items, state \in {"ready", "parked"} :
         Row(d, i) = d /\ SetRow(d, i, state)
    /\ UNCHANGED <<vars, drain>>

LeaseExpires ==
    /\ \E w \in Windows, k \in 1 .. Stages, i \in Items :
         /\ work[w][k][i] \in Drains \cup {"lost"}
         /\ work' = [work EXCEPT ![w][k][i] = "ready"]
    /\ UNCHANGED <<vars, drain>>

-----------------------------------------------------------------------------
(* One lane: spawn children, wait for all of them, look at the rows.        *)

States(d) == {Row(d, i) : i \in Items}

\* Mutant: a row that another process holds does not count as waiting.
LaneCompleteUnclaimed(d) == States(d) \cap {"ready", "none", "parked"} = {}

LaneComplete(d) == States(d) = {"succeeded"}
LaneParked(d) == "parked" \in States(d)
ChildrenJoined(d) == d \notin States(d)

LaneAdvances(d) ==
    /\ InLane(d) /\ ChildrenJoined(d)
    /\ LaneComplete(d)
    /\ drain' = [drain EXCEPT ![d] =
         IF d = "online" /\ @.stage = Stages THEN AtNone
         ELSE [window |-> @.window, stage |-> @.stage + 1]]
    /\ UNCHANGED <<vars, work>>

-----------------------------------------------------------------------------
(* The online drain.                                                       *)

WindowDone(w) == \A k \in 1 .. Stages, i \in Items : work[w][k][i] = "succeeded"

\* advance_available: the first full window that is not done, if there is one.
OnlineStarts ==
    /\ Windowed /\ journal.phase = "capturing"
    /\ drain["online"] = AtNone
    /\ \E w \in 0 .. (Cardinality(Pending) \div WindowBatches) - 1 :
         /\ ~WindowDone(w)
         /\ \A v \in 0 .. w - 1 : WindowDone(v)
         /\ work' = Prepared(w)
         /\ drain' = [drain EXCEPT !["online"] = [window |-> w, stage |-> 1]]
    /\ UNCHANGED <<vars>>

\* Parked work, a failed child, the deadline, or the death of the process.
OnlineStops ==
    /\ InLane("online")
    /\ work' = Orphaned("online")
    /\ drain' = [drain EXCEPT !["online"] = AtNone]
    /\ UNCHANGED <<vars>>

-----------------------------------------------------------------------------
(* The staged drain, in process p.                                         *)

DrainBegins(p) ==
    /\ Command(p) /\ Windowed
    /\ Goto(p, "draining")
    /\ UNCHANGED <<kind, target, now, journal, batch, rf, calls, drainVars>>

\* The command ends with the journal new, whatever its children hold.
DrainExits(p, new) ==
    /\ journal' = new
    /\ Return(p)
    /\ work' = Orphaned("staged")
    /\ drain' = [drain EXCEPT !["staged"] = AtNone]
    /\ UNCHANGED <<kind, target, now, batch, rf, calls>>

AtLoopHead(p) == proc[p].pc = "draining" /\ drain["staged"].stage = 0

\* _pending_window accepts the records that wait for their analysis.
PendingWindow(j) ==
    LET waiting == {s \in 1 .. Len(j.records) :
                      j.records[s].phase \in {"captured", "analysis_failed"}} IN
    /\ Cardinality(waiting) >= WindowBatches
    /\ (Min(waiting) - 1) % WindowBatches = 0

\* Status 0 when the campaign is complete, 4 when its phase is wrong, when it has
\* no such window or prepare raises, 75 when the slice is used up.
DrainReturns(p) ==
    /\ AtLoopHead(p)
    /\ \/ DrainExits(p, journal)
       \/ /\ journal.phase = "analyzing"
          /\ Cardinality(Analyzed(journal)) = target
          /\ DrainExits(p, [journal EXCEPT !.phase = "complete"])

WindowBegins(p) ==
    LET w == (Min(Pending) - 1) \div WindowBatches IN
    /\ AtLoopHead(p)
    /\ journal.phase = "analyzing" /\ PendingWindow(journal)
    /\ work' = Prepared(w)
    /\ drain' = [drain EXCEPT !["staged"] = [window |-> w, stage |-> 1]]
    /\ UNCHANGED <<vars>>

\* halt_analysis, and the halt of analyze_next.
HaltAnalysis == Halted(journal, "analysis_failed")

\* Parked work halts the campaign; a failed child or the deadline raises.  Both
\* end with status 4.
LaneStops(p) ==
    /\ proc[p].pc = "draining" /\ InLane("staged")
    /\ \/ /\ ChildrenJoined("staged") /\ LaneParked("staged")
          /\ DrainExits(p, HaltAnalysis)
       \/ DrainExits(p, journal)

\* reconcile_one, as far as the call of the analysis port.
ReconcileOne(p) ==
    /\ proc[p].pc = "draining" /\ drain["staged"].stage = Stages + 1
    /\ \/ /\ journal.records[Candidate].analyses >= MaximumAnalysisInvocations
          /\ DrainExits(p, HaltAnalysis)
       \/ /\ journal.records[Candidate].analyses < MaximumAnalysisInvocations
          /\ journal' = [journal EXCEPT !.records[Candidate] = Counted(@)]
          /\ Goto(p, "reconciling")
          /\ UNCHANGED <<kind, target, now, batch, rf, calls, drainVars>>

LastOfWindow(s) == s % WindowBatches = 0

\* A receipt, and the next one or the next window; or a failure, which ends the
\* slice with status 75 and keeps the receipts before it.
ReceiptEnds(p) ==
    LET s == Candidate IN
    /\ proc[p].pc = "reconciling"
    /\ \/ /\ journal' = WithPhase(journal, s, "complete")
          /\ Goto(p, "draining")
          /\ drain' = [drain EXCEPT !["staged"] = IF LastOfWindow(s) THEN AtNone ELSE @]
          /\ UNCHANGED <<kind, target, now, batch, rf, calls, work>>
       \/ DrainExits(p, WithPhase(journal, s, "analysis_failed"))

\* Any process dies; the children of a drain die with it.
AnyProcessDies(p) ==
    /\ ProcessDies(p)
    /\ IF proc[p].pc \in {"draining", "reconciling"}
       THEN /\ work' = Orphaned("staged")
            /\ drain' = [drain EXCEPT !["staged"] = AtNone]
       ELSE UNCHANGED drainVars

StagedStep(p) ==
    \/ DrainBegins(p) \/ DrainReturns(p) \/ WindowBegins(p) \/ LaneStops(p)
    \/ ReconcileOne(p) \/ ReceiptEnds(p) \/ AnyProcessDies(p)

LaneStep(d) ==
    \/ ChildClaims(d) \/ ChildCommits(d) \/ ChildFails(d) \/ LaneAdvances(d)

\* A drain that has begun goes on, and its deadline passes.  The analysis unit
\* starts the staged drain again after status 75 and after a kill; that it does so
\* after status 4 as well, which its RestartPreventExitStatus excludes, only adds
\* behaviours that DrainEnds excepts.
StagedFairness ==
    /\ \A p \in Procs :
        WF_allVars(DrainReturns(p) \/ LaneStops(p) \/ ReconcileOne(p) \/ ReceiptEnds(p))
    /\ SF_allVars(\E p \in Procs : DrainBegins(p))

-----------------------------------------------------------------------------
(* Properties.                                                             *)

\* The barriers of the staged drain: no drain works on a stage, and no receipt is
\* reconciled, before every row of every earlier stage of the window has
\* succeeded, although both drains, their lost leases and rows that do not exist
\* yet meet in the same tables.
StageBarrier ==
    \A d \in Drains : \A k \in 1 .. drain[d].stage - 1, i \in Items :
        work[drain[d].window][k][i] = "succeeded"

\* The unit is restarted after status 75 "from its fenced SQLite/PostgreSQL
\* state": what a slice leaves that records a failed receipt and ends with that
\* status is a window that the next slice accepts.
RetryableSliceIsResumable ==
    [][\A p \in Procs :
         proc[p].pc = "reconciling" /\ proc'[p].pc = "idle" /\ journal' # journal
         => PendingWindow(journal')]_allVars

\* The slice of p ends outside a receipt and leaves the analysis open: status 4, a
\* kill, or 75 after whole windows, of which there are only so many.
GivesUp(p) ==
    /\ proc[p].pc = "draining" /\ proc'[p].pc = "idle"
    /\ journal'.phase = "analyzing"

\* The unit restarts a slice that ends with status 75 without any limit
\* (StartLimitIntervalSec=0).  Failed and interrupted receipts do not keep it at
\* that for ever: the campaign completes or halts, unless slice after slice gives
\* up before its receipts.
DrainEnds ==
    Windowed => \/ []<>(journal.phase # "analyzing")
                \/ []<><<\E p \in Procs : GivesUp(p)>>_allVars
=============================================================================
