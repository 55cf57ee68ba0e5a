-------------------------- MODULE CampaignCapture --------------------------
(***************************************************************************)
(* What the campaign coordinators share: slots of a fixed schedule, a      *)
(* durable journal of one record per slot, and the capture port that       *)
(* executes the batch of the last record.  The journal and the batch rows  *)
(* are different databases, and the process may die between any two of     *)
(* their writes.  DualCapture models what happens inside the port.         *)
(*                                                                         *)
(* Slot s is requested at time 2(s - 1): a start is in time only at that   *)
(* time, late at the next, and the slot is over with the one after.  The   *)
(* journal's revision is left out: no state of the journal recurs while a  *)
(* process holds a copy of it, so copies are compared instead.             *)
(***************************************************************************)
EXTENDS Integers, Sequences, FiniteSets, SequencesExt

CONSTANTS
    Procs,                      \* operator processes
    Slots,                      \* slots of the window
    MaximumCaptureInvocations,  \* maximum_capture_invocations
    MaximumAnalysisInvocations, \* maximum_analysis_invocations
    MaximumFreshAttempts        \* maximum_fresh_attempts_per_cell

ASSUME CampaignAssumption ==
    /\ Slots \in Nat \ {0}
    /\ MaximumCaptureInvocations \in Nat \ {0}
    /\ MaximumAnalysisInvocations \in Nat \ {0}
    /\ MaximumFreshAttempts \in Nat \ {0}

VARIABLES
    kind,      \* which coordinator owns the journal
    target,    \* target_successes
    now,
    journal,   \* phase, halt reason and records
    batch,     \* the batch row of each slot
    proc,      \* the operator processes
    rf,        \* history: captures begun for each slot
    calls      \* history: calls of the capture port for each slot

vars == <<kind, target, now, journal, batch, proc, rf, calls>>

AllSlots == 1 .. Slots
MaxTime == 2 * Slots      \* bound: the clock stops when the window is over
Requested(s) == 2 * (s - 1)
Deadline(s) == 2 * s

RecordPhase == {"planned", "capture_invoked", "abandoned", "captured",
                "terminal_failed", "analysis_failed", "complete"}
Phase == {"capturing", "analyzing", "complete", "halted"}
HaltReason == {"none", "missed_slot", "window_ended", "capture_uncertain",
               "integrity_failure", "analysis_failed"}
Record == [phase : RecordPhase, captures : Nat, analyses : Nat, retry : Nat]
NewRecord == [phase |-> "planned", captures |-> 0, analyses |-> 0, retry |-> 0]
EmptyJournal == [phase |-> "capturing", halt |-> "none", records |-> <<>>]
IdleProc == [pc |-> "idle", view |-> EmptyJournal, at |-> 0]

Init ==
    /\ now = 0
    /\ journal = EmptyJournal
    /\ batch = [s \in AllSlots |-> "none"]
    /\ proc = [p \in Procs |-> IdleProc]
    /\ rf = [s \in AllSlots |-> 0]
    /\ calls = [s \in AllSlots |-> 0]

IsJournal(j) ==
    /\ j.phase \in Phase /\ j.halt \in HaltReason
    /\ Len(j.records) <= Slots
    /\ \A s \in 1 .. Len(j.records) : j.records[s] \in Record

TypeOK ==
    /\ kind \in {"deferred", "one_shot", "canary", "focused"}
    /\ target \in Nat
    /\ now \in 0 .. MaxTime
    /\ IsJournal(journal)
    /\ batch \in [AllSlots -> {"none", "open", "rejected", "eligible"}]
    /\ \A p \in Procs :
         /\ proc[p].pc \in {"idle", "loaded", "planned", "invoked", "running",
                            "settled", "returned", "raised", "analysing",
                            "draining", "reconciling"}
         /\ IsJournal(proc[p].view) /\ proc[p].at \in 0 .. MaxTime
    /\ rf \in [AllSlots -> Nat] /\ calls \in [AllSlots -> Nat]

\* The slots whose batch was accepted, whatever became of its analysis.
Accepted(j) == {s \in 1 .. Len(j.records) :
                  j.records[s].phase \in {"captured", "analysis_failed", "complete"}}
Analyzed(j) == {s \in 1 .. Len(j.records) : j.records[s].phase = "complete"}

LastIs(j, phase) == j.records # <<>> /\ Last(j.records).phase = phase
WithLast(j, record) == [j EXCEPT !.records = Front(@) \o <<record>>]
WithPhase(j, s, phase) == [j EXCEPT !.records[s].phase = phase]
Halted(j, reason) == [j EXCEPT !.phase = "halted", !.halt = reason]

Goto(p, pc) == proc' = [proc EXCEPT ![p].pc = pc]
Return(p) == proc' = [proc EXCEPT ![p] = IdleProc]

\* The slot a process captures: the last record of the journal it works on.
SlotOf(p) == Len(proc[p].view.records)

-----------------------------------------------------------------------------
(* ProcessIsolatedCampaignCapture.capture, called with pc = "invoked".      *)

\* Ownership, admission or credential are not in order, the mode lock is taken,
\* the slot is over, or the row is there and not terminal.
PortRefuses(p) ==
    /\ proc[p].pc = "invoked"
    /\ Goto(p, "raised")
    /\ UNCHANGED <<kind, target, now, journal, batch, rf, calls>>

PortReplays(p) ==
    /\ proc[p].pc = "invoked"
    /\ batch[SlotOf(p)] \in {"rejected", "eligible"}
    /\ Goto(p, "settled")
    /\ UNCHANGED <<kind, target, now, journal, batch, rf, calls>>

\* Mutant: a row without outcomes is executed again, as execute would.
ExecutableAgain(s) == batch[s] \in {"none", "open"}

Executable(s) == batch[s] = "none"

ModeLockFree == \A p \in Procs : proc[p].pc \notin {"running", "settled"}

PortExecutes(p) ==
    LET s == SlotOf(p) IN
    /\ proc[p].pc = "invoked"
    /\ Executable(s)
    /\ now < Deadline(s)
    /\ ModeLockFree
    /\ batch' = [batch EXCEPT ![s] = "open"]
    /\ rf' = [rf EXCEPT ![s] = @ + 1]
    /\ Goto(p, "running")
    /\ UNCHANGED <<kind, target, now, journal, calls>>

\* Both outcomes are recorded: eligible when both attempts succeeded within the
\* slot and the skew, though the record may be written later than that.
PortSettles(p) ==
    /\ proc[p].pc = "running"
    /\ \E result \in {"rejected", "eligible"} :
         batch' = [batch EXCEPT ![SlotOf(p)] = result]
    /\ Goto(p, "settled")
    /\ UNCHANGED <<kind, target, now, journal, rf, calls>>

\* execute or the cleanup raises before, publication or ownership after the row
\* is terminal.
PortFails(p) ==
    /\ proc[p].pc \in {"running", "settled"}
    /\ Goto(p, "raised")
    /\ UNCHANGED <<kind, target, now, journal, batch, rf, calls>>

PortReturns(p) ==
    /\ proc[p].pc = "settled"
    /\ Goto(p, "returned")
    /\ UNCHANGED <<kind, target, now, journal, batch, rf, calls>>

\* The process stops anywhere, and the kernel frees its locks.
ProcessDies(p) ==
    /\ proc[p].pc # "idle"
    /\ Return(p)
    /\ UNCHANGED <<kind, target, now, journal, batch, rf, calls>>

\* Bound: the clock also stops when a deferred capture is closed or halted, for
\* nothing reads it after that.
Tick ==
    /\ now < MaxTime
    /\ kind = "deferred" => journal.phase = "capturing"
    /\ kind # "focused"
    /\ now' = now + 1
    /\ UNCHANGED <<kind, target, journal, batch, proc, rf, calls>>

PortStep(p) ==
    \/ PortRefuses(p) \/ PortReplays(p) \/ PortExecutes(p) \/ PortSettles(p)
    \/ PortFails(p) \/ PortReturns(p)

\* A coordinator writes the invocation into the journal, then calls the port.
Call(p, new) ==
    /\ journal' = new
    /\ calls' = [calls EXCEPT ![Len(new.records)] = @ + 1]
    /\ proc' = [proc EXCEPT ![p] = [pc |-> "invoked", view |-> new, at |-> 0]]

\* Mutant: a command that finds the lock taken goes on.
LockIgnored == TRUE

\* The campaign lock of the deferred and the one-shot operator.
LockFree == \A p \in Procs : proc[p].pc = "idle"
=============================================================================
