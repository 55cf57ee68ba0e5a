---------------------- MODULE FocusedContinuousProofs ----------------------
(***************************************************************************)
(* The continuous supervisor's invariants for every number of dwells,      *)
(* processes, releases and starts.  The three invariants the run checks    *)
(* are not inductive one by one: a row keeps its evidence only if the port *)
(* never rewrites a closed batch and the supervisor reaps only rows it     *)
(* watches, and it watches them only if the row it captures is the planned *)
(* last row of a journal without gaps.                                     *)
(***************************************************************************)
EXTENDS FocusedContinuous, FiniteSetTheorems, TLAPS

RowType == [state : RowState, pid : Children \cup {NoChild},
            command : Releases \cup {NoRelease}, attempts : Nat]
ChildType == [dwell : Dwells \cup {0},
              pc : {"waiting", "analysing", "written", "exit0", "exit1"}]
SupPc == {"off", "recover", "recover_act", "dispatch", "loop", "reap",
          "refill", "gate", "planned", "capturing"}
SupType == [pc : SupPc, release : Releases \cup {NoRelease},
            allow : SUBSET (Dwells \X Releases), todo : SUBSET Dwells,
            kids : SUBSET Dwells, adopted : SUBSET Dwells,
            spawned : Children \cup {NoChild}, capture : SUBSET Procs,
            stopping : BOOLEAN]
BatchState == {"none", "open", "rejected", "eligible"}
PortPc == {"idle", "invoked", "running", "settled", "returned", "raised"}
ProcType == [pc : PortPc,
             view : [phase : Phase, halt : HaltReason, records : Seq(Record)],
             at : 0 .. MaxTime]

-----------------------------------------------------------------------------
(* The inductive invariant.                                                *)

\* What no action of the supervisor's window touches.
WindowInv ==
    /\ kind = "focused" /\ target = 0 /\ now = 0 /\ journal = EmptyJournal
    /\ rf \in [AllSlots -> Nat] /\ calls \in [AllSlots -> Nat]
    /\ latch \in BOOLEAN /\ starts \in 0 .. MaxStarts

\* One process runs a batch at a time, and the batch it runs is open: no other
\* process can have closed it.
PortInv ==
    /\ batch \in [AllSlots -> BatchState]
    /\ proc \in [Procs -> ProcType]
    /\ \A p \in Procs : SlotOf(p) <= Slots
    /\ \A p \in Procs : proc[p].pc = "running" /\ SlotOf(p) \in AllSlots
                          => batch[SlotOf(p)] = "open"
    /\ \A p, q \in Procs : proc[p].pc = "running" /\ proc[q].pc = "running" => p = q

\* Who holds the attempt lock of a dwell holds it alone, and analyses it only
\* while there is no receipt.
ChildInv ==
    /\ child \in [Children -> ChildType]
    /\ receipt \in [Dwells -> BOOLEAN]
    /\ \A c \in Children : Alive(c) => child[c].dwell \in Dwells
    /\ \A c \in Children : child[c].pc = "analysing" => ~receipt[child[c].dwell]
    /\ \A c, d \in Children :
         HoldsAttemptLock(c) /\ HoldsAttemptLock(d) /\ child[c].dwell = child[d].dwell => c = d

\* Every claim that rests on a capture finds its batch closed.
EvidenceInv ==
    /\ RowHasEvidence
    /\ \A s \in Dwells : receipt[s] => batch[s] = "eligible"
    /\ \A c \in Children : HoldsAttemptLock(c) => batch[child[c].dwell] = "eligible"

Running == {s \in Dwells : dwell[s].state = "analysis_running"}
Recovers == sup.pc \in {"recover", "recover_act"}

\* The journal has no gaps, and the row that is being captured is its last one.
JournalInv ==
    /\ dwell \in [Dwells -> RowType]
    /\ Rows = 1 .. Cardinality(Rows)
    /\ sup.pc \in {"planned", "capturing"} =>
         /\ Rows # {}
         /\ dwell[Cardinality(Rows)].state = "planned"

\* A recovery has still to look at every running row it does not watch, and a
\* process is spawned only while there is a captured row for it to claim.
WatchInv ==
    /\ sup \in SupType
    /\ sup.adopted \subseteq sup.kids
    /\ sup.kids \subseteq Running
    /\ Recovers => /\ Running \subseteq sup.kids \cup sup.todo
                   /\ sup.kids \cap sup.todo = {}
                   /\ sup.todo \subseteq Rows
    /\ sup.spawned # NoChild => /\ Dispatching
                                /\ CapturedWork # {}
                                /\ SlotAvailable
    /\ RunningRowsAreWatched

\* The journal never holds more running rows than --maximum-in-flight-analyses,
\* although each supervisor counts only the rows it watches and the next one
\* inherits what the last one left.
InFlightIsBounded == Cardinality(Running) <= MaximumInFlightAnalyses

Inv == /\ WindowInv /\ PortInv /\ ChildInv /\ EvidenceInv
       /\ JournalInv /\ WatchInv /\ InFlightIsBounded

-----------------------------------------------------------------------------
(* Facts about the operators.                                              *)

USE CampaignAssumption, FocusedAssumption

\* The journal's "ORDER BY sequence LIMIT 1" finds a row whenever there is one:
\* among the initial segments of the set one is the smallest.
LEMMA LeastIsMember ==
    ASSUME NEW S \in SUBSET Dwells, S # {}
    PROVE  Least(S) \in S
<1> DEFINE Upto(x) == {y \in S : y <= x}
           Segments == {Upto(x) : x \in S}
<1>1. Dwells \subseteq Int /\ IsFiniteSet(Dwells)
  BY FS_Interval DEF Dwells
<1>2. FiniteSubsetsOf(Dwells) = SUBSET Dwells
  BY <1>1, FS_FiniteSubsetsOfFinite
<1>3. IsWellFoundedOn(StrictSubsetOrdering(Dwells), SUBSET Dwells)
  BY <1>2, FS_StrictSubsetOrderingWellFounded
<1>4. Segments \subseteq SUBSET Dwells /\ Segments # {}
  OBVIOUS
<1>5. PICK U \in Segments : \A V \in Segments : ~(<<V, U>> \in StrictSubsetOrdering(Dwells))
  BY <1>3, <1>4, WFMin
<1>6. PICK x \in S : U = Upto(x)
  BY <1>5
<1>7. ASSUME NEW y \in S PROVE x <= y
  <2>1. CASE y < x
    <3>1. Upto(y) \subseteq Upto(x) /\ x \in Upto(x) /\ x \notin Upto(y)
      <4> HIDE DEF Segments
      <4>1. S \subseteq Int /\ x \in Int /\ y \in Int
        BY <1>1
      <4>2. \A z \in S : z <= y => z <= x
        BY <4>1, <2>1
      <4>3. x <= x /\ ~(x <= y)
        BY <4>1, <2>1
      <4>4. QED BY <4>2, <4>3
    <3>2. <<Upto(y), Upto(x)>> \in StrictSubsetOrdering(Dwells)
      BY <3>1 DEF StrictSubsetOrdering
    <3>3. Upto(y) \in Segments
      OBVIOUS
    <3>4. QED BY <1>5, <1>6, <3>2, <3>3
  <2>2. QED BY <1>1, <2>1
<1>8. QED BY <1>7 DEF Least

\* Dwells are slots of the window.
LEMMA DwellsAreSlots == Dwells \subseteq AllSlots /\ Dwells \subseteq Nat /\ IsFiniteSet(Dwells)
BY FS_Interval DEF Dwells, AllSlots

\* A set without gaps has the sequence numbers up to its size.
LEMMA RowsAreCounted ==
    ASSUME NEW S \in SUBSET Dwells
    PROVE  /\ IsFiniteSet(S) /\ Cardinality(S) \in 0 .. MaximumDwells
           /\ \A n \in Nat : S = 1 .. n => Cardinality(S) = n
<1>1. IsFiniteSet(Dwells) /\ Cardinality(Dwells) = MaximumDwells
  BY FS_Interval DEF Dwells
<1>2. IsFiniteSet(S) /\ Cardinality(S) <= MaximumDwells
  BY <1>1, FS_Subset
<1>3. Cardinality(S) \in Nat
  BY <1>2, FS_CardinalityType
<1>4. ASSUME NEW n \in Nat, S = 1 .. n PROVE Cardinality(S) = n
  BY <1>4, FS_Interval
<1>5. QED BY <1>2, <1>3, <1>4

\* What RowTo writes.
LEMMA RowToWrites ==
    ASSUME dwell \in [Dwells -> RowType], NEW s, NEW state \in RowState, RowTo(s, state)
    PROVE  /\ dwell' \in [Dwells -> RowType]
           /\ s \in Dwells => dwell'[s].state = state
           /\ \A t \in Dwells : t # s => dwell'[t] = dwell[t]
BY DEF RowTo, RowType

-----------------------------------------------------------------------------
(* The shape of a step: what it may do to the port, and what to the        *)
(* children.                                                               *)

PortMoves(p) == PortStep(p) \/ ProcessDies(p)

\* A step is one of the port's, one of the two that start and end a capture, or
\* leaves the window alone.
VarsShape ==
    \/ UNCHANGED vars
    \/ \E p \in Procs : PortMoves(p) /\ UNCHANGED focusedVars
    \/ \E p \in Procs : OrphanedCaptureEnds(p)
    \/ RunCapture
    \/ CaptureReturns

\* A step is one of a child, spawns one, terminates some, or leaves all alone.
ChildShape ==
    \/ UNCHANGED <<child, receipt>>
    \/ \E c \in Children : ChildStep(c) \/ ChildDies(c)
    \/ Spawn
    \/ child' = Terminated /\ UNCHANGED receipt

LatchShape ==
    /\ latch' = latch \/ latch' \in BOOLEAN
    /\ starts' = starts \/ (starts < MaxStarts /\ starts' = starts + 1)

Shape == VarsShape /\ ChildShape /\ LatchShape

\* Every way for the supervisor to end.
LEMMA EndsShape ==
    ASSUME (Leaves /\ UNCHANGED latch) \/ Halts
    PROVE  Shape /\ sup' = Off
BY DEF Leaves, Halts, HaltEnds, Ends, Shape, VarsShape, ChildShape, LatchShape

\* The recovery's steps have the shape.
LEMMA RecoveryShape ==
    ASSUME \/ RecoverRefuses \/ RecoverReceipt \/ RecoverNoReceipt \/ RecoverPlanned
           \/ RecoverCaptured \/ RecoverRunning \/ RecoverFailed \/ Recovered
    PROVE  Shape
<1> USE DEF Shape, VarsShape, ChildShape, LatchShape
<1>1. CASE RecoverRefuses
  BY <1>1, EndsShape DEF RecoverRefuses
<1>2. CASE RecoverReceipt
  BY <1>2, EndsShape DEF RecoverReceipt
<1>3. CASE RecoverNoReceipt \/ RecoverCaptured \/ Recovered
  BY <1>3 DEF RecoverNoReceipt, RecoverCaptured, Recovered
<1>4. CASE RecoverPlanned
  BY <1>4, EndsShape DEF RecoverPlanned
<1>5. CASE RecoverRunning
  BY <1>5, EndsShape DEF RecoverRunning
<1>6. CASE RecoverFailed
  BY <1>6, EndsShape DEF RecoverFailed
<1>7. QED BY <1>1, <1>2, <1>3, <1>4, <1>5, <1>6

\* So have the other steps.
LEMMA NextShape ==
    ASSUME FocusedNext
    PROVE  Shape
<1> USE DEF Shape, VarsShape, ChildShape, LatchShape
<1>1. CASE \/ RecoverRefuses \/ RecoverReceipt \/ RecoverNoReceipt \/ RecoverPlanned
           \/ RecoverCaptured \/ RecoverRunning \/ RecoverFailed \/ Recovered
  BY <1>1, RecoveryShape
<1>2. CASE Spawn \/ ClaimAnalysisProcess \/ Dispatched \/ ReapDone \/ GateToDrain \/ Plan
  BY <1>2 DEF Spawn, ClaimAnalysisProcess, Dispatched, ReapDone, GateToDrain, Plan
<1>3. CASE \E s \in Dwells : ReapSuccess(s) \/ ReapFailure(s)
  BY <1>3 DEF ReapSuccess, ReapFailure, Reaped
<1>4. CASE Loop \/ DiskFull \/ Raises
  BY <1>4, EndsShape DEF Loop, DiskFull, Raises
<1>5. CASE RunCapture
  BY <1>5 DEF RunCapture
<1>6. CASE CaptureReturns
  BY <1>6 DEF CaptureReturns, HaltEnds, Ends
<1>7. CASE \E c \in Children : ChildStep(c) \/ ChildDies(c)
  BY <1>7 DEF ChildStep, ChildDies, ChildLocks, ChildWrites, ChildExits, ChildTo
<1>8. CASE \E r \in Releases : \/ Start(r, {})
                                \/ \E s \in Dwells, q \in Releases : Start(r, {<<s, q>>})
  BY <1>8 DEF Start
<1>9. CASE \E p \in Procs : (PortStep(p) \/ ProcessDies(p)) /\ UNCHANGED focusedVars
  BY <1>9 DEF PortMoves, focusedVars
<1>10. CASE \E p \in Procs : OrphanedCaptureEnds(p)
  BY <1>10 DEF OrphanedCaptureEnds, focusedVars
<1>11. CASE RequestStop \/ Killed \/ ClearLatch
  BY <1>11 DEF RequestStop, Killed, ClearLatch
<1>12. QED
  BY <1>1, <1>2, <1>3, <1>4, <1>5, <1>6, <1>7, <1>8, <1>9, <1>10, <1>11
     DEF FocusedNext, SupStep

-----------------------------------------------------------------------------
(* The capture port.                                                       *)

\* A move of the port leaves every process but its own alone, and its slot too.
LEMMA GotoWrites ==
    ASSUME PortInv, NEW p \in Procs, NEW pc \in PortPc, Goto(p, pc)
    PROVE  /\ proc' \in [Procs -> ProcType]
           /\ proc'[p].pc = pc /\ proc'[p].view = proc[p].view
           /\ \A q \in Procs : q # p => proc'[q] = proc[q]
BY DEF PortInv, Goto, ProcType

\* A process that returns is idle.
LEMMA ReturnWrites ==
    ASSUME PortInv, NEW p \in Procs, Return(p)
    PROVE  /\ proc' \in [Procs -> ProcType]
           /\ proc'[p].pc = "idle" /\ proc'[p].view.records = <<>>
           /\ \A q \in Procs : q # p => proc'[q] = proc[q]
<1>1. IdleProc \in ProcType /\ IdleProc.pc = "idle" /\ IdleProc.view.records = <<>>
  BY DEF IdleProc, ProcType, EmptyJournal, PortPc, Phase, HaltReason, MaxTime
<1>2. QED BY <1>1 DEF PortInv, Return

EligibleStays == \A s \in AllSlots : batch[s] = "eligible" => batch'[s] = "eligible"

\* An accepted batch is never rewritten: the port executes only a batch that has
\* no row, and settles only the one batch it opened itself.
LEMMA PortMovesKeep ==
    ASSUME PortInv, NEW p \in Procs, PortMoves(p)
    PROVE  PortInv' /\ EligibleStays
<1> USE DEF SlotOf
<1>1. CASE PortRefuses(p) \/ PortFails(p) \/ PortReturns(p) \/ PortReplays(p)
  <2>1. PICK pc \in {"raised", "returned", "settled"} : Goto(p, pc)
    BY <1>1 DEF PortRefuses, PortFails, PortReturns, PortReplays
  <2>2. batch' = batch
    BY <1>1 DEF PortRefuses, PortFails, PortReturns, PortReplays
  <2>3. pc \in PortPc /\ pc # "running"
    BY <2>1 DEF PortPc
  <2>4. QED BY <2>1, <2>2, <2>3, GotoWrites DEF PortInv, EligibleStays
<1>2. CASE PortExecutes(p)
  <2>1. Goto(p, "running") /\ batch[SlotOf(p)] = "none"
        /\ batch' = [batch EXCEPT ![SlotOf(p)] = "open"]
        /\ \A q \in Procs : proc[q].pc # "running"
    BY <1>2 DEF PortExecutes, Executable, ModeLockFree
  <2>2. /\ proc' \in [Procs -> ProcType]
        /\ proc'[p].pc = "running" /\ proc'[p].view = proc[p].view
        /\ \A q \in Procs : q # p => proc'[q] = proc[q]
    BY <2>1, GotoWrites DEF PortPc
  <2>3. batch' \in [AllSlots -> BatchState]
    BY <2>1 DEF PortInv, BatchState
  <2>4. QED BY <2>1, <2>2, <2>3 DEF PortInv, EligibleStays
<1>3. CASE PortSettles(p)
  <2>1. PICK result \in {"rejected", "eligible"} : batch' = [batch EXCEPT ![SlotOf(p)] = result]
    BY <1>3 DEF PortSettles
  <2>2. Goto(p, "settled") /\ proc[p].pc = "running"
    BY <1>3 DEF PortSettles
  <2>3. /\ proc' \in [Procs -> ProcType]
        /\ proc'[p].pc = "settled" /\ proc'[p].view = proc[p].view
        /\ \A q \in Procs : q # p => proc'[q] = proc[q]
    BY <2>2, GotoWrites DEF PortPc
  <2>4. batch' \in [AllSlots -> BatchState]
    BY <2>1 DEF PortInv, BatchState
  <2>5. \A q \in Procs : proc'[q].pc # "running"
    BY <2>2, <2>3 DEF PortInv
  <2>6. EligibleStays
    BY <2>1, <2>2 DEF PortInv, EligibleStays
  <2>7. QED BY <2>3, <2>4, <2>5, <2>6 DEF PortInv
<1>4. CASE ProcessDies(p)
  <2>1. Return(p) /\ batch' = batch
    BY <1>4 DEF ProcessDies
  <2>2. QED BY <2>1, ReturnWrites DEF PortInv, EligibleStays
<1>5. QED BY <1>1, <1>2, <1>3, <1>4 DEF PortMoves, PortStep

\* The capture command starts a process on the last row's slot.
LEMMA RunCaptureKeepsPort ==
    ASSUME Inv, RunCapture
    PROVE  PortInv' /\ EligibleStays
<1> DEFINE s == Cardinality(Rows)
           p == CHOOSE q \in Procs : proc[q].pc = "idle"
           records == [i \in 1 .. s |-> NewRecord]
           view == [EmptyJournal EXCEPT !.records = records]
           new == [pc |-> "invoked", at |-> 0, view |-> view]
<1>1. p \in Procs /\ batch' = batch /\ proc' = [proc EXCEPT ![p] = new]
  BY DEF RunCapture
<1>2. s \in Nat /\ s <= Slots
  BY RowsAreCounted DEF Rows
<1>3. NewRecord \in Record
  BY DEF NewRecord, Record, RecordPhase
<1>4. records \in Seq(Record) /\ Len(records) = s
  BY <1>2, <1>3
<1> HIDE DEF s, p, records
<1>5. new \in ProcType /\ new.pc = "invoked" /\ new.view.records = records
  <2>1. view \in [phase : Phase, halt : HaltReason, records : Seq(Record)]
        /\ view.records = records
    BY <1>4 DEF EmptyJournal, Phase, HaltReason
  <2> HIDE DEF view
  <2>2. QED BY <2>1 DEF ProcType, PortPc, MaxTime
<1> HIDE DEF new, view
<1>6. QED BY <1>1, <1>2, <1>4, <1>5 DEF Inv, PortInv, EligibleStays, SlotOf

\* The port's invariant is kept, and an accepted batch stays accepted.
LEMMA PortKept ==
    ASSUME Inv, FocusedNext
    PROVE  PortInv' /\ EligibleStays
<1>1. PortInv /\ VarsShape
  BY NextShape DEF Inv, Shape
<1>2. CASE UNCHANGED vars
  BY <1>1, <1>2 DEF vars, PortInv, EligibleStays, SlotOf
<1>3. CASE \E p \in Procs : PortMoves(p) /\ UNCHANGED focusedVars
  BY <1>1, <1>3, PortMovesKeep
<1>4. CASE RunCapture
  BY <1>4, RunCaptureKeepsPort
<1>5. CASE (\E p \in Procs : OrphanedCaptureEnds(p)) \/ CaptureReturns
  <2>1. PICK p : p \in Procs /\ Return(p)
    BY <1>5 DEF OrphanedCaptureEnds, CaptureReturns, Inv, WatchInv, SupType
  <2>2. batch' = batch
    BY <1>5 DEF OrphanedCaptureEnds, CaptureReturns
  <2>3. QED BY <1>1, <2>1, <2>2, ReturnWrites DEF PortInv, EligibleStays, SlotOf
<1>6. QED BY <1>1, <1>2, <1>3, <1>4, <1>5 DEF VarsShape

\* A counter per slot stays one.
LEMMA CountTyped ==
    ASSUME NEW f \in [AllSlots -> Nat], NEW s
    PROVE  [f EXCEPT ![s] = @ + 1] \in [AllSlots -> Nat]
<1> DEFINE g == [f EXCEPT ![s] = @ + 1]
<1>1. g = [t \in AllSlots |-> IF t = s THEN f[s] + 1 ELSE f[t]]
  BY Zenon
<1>2. \A t \in AllSlots : (IF t = s THEN f[s] + 1 ELSE f[t]) \in Nat
  OBVIOUS
<1> HIDE DEF g
<1>3. QED BY <1>1, <1>2

\* The window's constants and histories keep their types.
LEMMA WindowKept ==
    ASSUME Inv, FocusedNext
    PROVE  WindowInv'
<1>1. WindowInv /\ VarsShape /\ LatchShape
  BY NextShape DEF Inv, Shape
<1>2. latch' \in BOOLEAN /\ starts' \in 0 .. MaxStarts
  BY <1>1 DEF WindowInv, LatchShape
<1>3. CASE UNCHANGED vars
  BY <1>1, <1>2, <1>3 DEF WindowInv, vars
<1>4. CASE \E p \in Procs : PortMoves(p) /\ UNCHANGED focusedVars
  <2>1. UNCHANGED <<kind, target, now, journal, calls>>
    BY <1>4 DEF PortMoves, PortStep, PortRefuses, PortReplays, PortExecutes, PortSettles,
                PortFails, PortReturns, ProcessDies
  <2>2. rf' = rf \/ \E s : rf' = [rf EXCEPT ![s] = @ + 1]
    BY <1>4 DEF PortMoves, PortStep, PortRefuses, PortReplays, PortExecutes, PortSettles,
                PortFails, PortReturns, ProcessDies
  <2>3. QED BY <1>1, <1>2, <2>1, <2>2 DEF WindowInv
<1>5. CASE RunCapture
  <2>1. UNCHANGED <<kind, target, now, journal, rf>>
    BY <1>5 DEF RunCapture
  <2>2. calls' = [calls EXCEPT ![Cardinality(Rows)] = @ + 1]
    BY <1>5 DEF RunCapture
  <2>3. calls' \in [AllSlots -> Nat]
    BY <1>1, <2>2, CountTyped DEF WindowInv
  <2>4. QED BY <1>1, <1>2, <2>1, <2>3 DEF WindowInv
<1>6. CASE (\E p \in Procs : OrphanedCaptureEnds(p)) \/ CaptureReturns
  BY <1>1, <1>2, <1>6 DEF OrphanedCaptureEnds, CaptureReturns, WindowInv
<1>7. QED BY <1>1, <1>3, <1>4, <1>5, <1>6 DEF VarsShape

-----------------------------------------------------------------------------
(* The analysis children.                                                  *)

\* A child that dies, exits or is terminated holds no lock any more, and the lock
\* of every other child is what it was.
LEMMA EndingsKeepChildren ==
    ASSUME ChildInv, UNCHANGED receipt,
           child' \in [Children -> ChildType],
           \A c \in Children : child'[c] = child[c] \/ child'[c].pc \in {"exit0", "exit1"}
    PROVE  ChildInv'
BY DEF ChildInv, Alive, HoldsAttemptLock

\* Terminating children ends them.
LEMMA TerminatedKeepsChildren ==
    ASSUME ChildInv, child' = Terminated, UNCHANGED receipt
    PROVE  ChildInv'
<1>1. Exited("exit1") \in ChildType /\ Exited("exit1").pc = "exit1"
  BY DEF Exited, ChildType
<1>2. \A c \in Children : child'[c] = child[c] \/ child'[c] = Exited("exit1")
  BY DEF Terminated
<1>3. child' \in [Children -> ChildType]
  BY <1>1, <1>2 DEF Terminated, ChildInv
<1>4. QED BY <1>1, <1>2, <1>3, EndingsKeepChildren

\* A child that waits for the lock is in nobody's way.
LEMMA SpawnKeepsChildren ==
    ASSUME ChildInv, WatchInv, Spawn
    PROVE  ChildInv'
<1> DEFINE c == CHOOSE x \in Unused : TRUE
           new == [dwell |-> Least(CapturedWork), pc |-> "waiting"]
<1>1. child' = [child EXCEPT ![c] = new] /\ receipt' = receipt
  BY DEF Spawn
<1>2. Least(CapturedWork) \in Dwells
  BY LeastIsMember DEF Spawn, CapturedWork
<1>3. new \in ChildType /\ new.pc = "waiting" /\ new.dwell \in Dwells
  BY <1>2 DEF ChildType
<1> HIDE DEF c, new
<1>4. /\ child' \in [Children -> ChildType]
      /\ \A d \in Children : child'[d] = child[d] \/ child'[d] = new
  BY <1>1, <1>3 DEF ChildInv
<1>5. QED BY <1>1, <1>3, <1>4 DEF ChildInv, Alive, HoldsAttemptLock

\* The lock is taken when nobody holds it, and the receipt is written under it.
LEMMA ChildKeepsChildren ==
    ASSUME ChildInv, NEW c \in Children, ChildStep(c) \/ ChildDies(c)
    PROVE  ChildInv'
<1> USE DEF ChildInv
<1>1. CASE UNCHANGED receipt /\ \E pc \in {"exit0", "exit1"} : ChildTo(c, Exited(pc))
  <2>1. PICK pc \in {"exit0", "exit1"} : child' = [child EXCEPT ![c] = Exited(pc)]
    BY <1>1 DEF ChildTo
  <2>2. Exited(pc) \in ChildType /\ Exited(pc).pc = pc
    BY <2>1 DEF Exited, ChildType
  <2>3. /\ child' \in [Children -> ChildType]
        /\ \A d \in Children : child'[d] = child[d] \/ child'[d] = Exited(pc)
    BY <2>1, <2>2
  <2>4. QED BY <1>1, <2>1, <2>2, <2>3, EndingsKeepChildren
<1>2. CASE ChildLocks(c) /\ batch[child[c].dwell] = "eligible" /\ ~receipt[child[c].dwell]
           /\ ChildTo(c, Working(c, "analysing"))
  <2>1. /\ child[c].pc = "waiting" /\ receipt' = receipt
        /\ \A d \in Children : HoldsAttemptLock(d) => child[d].dwell # child[c].dwell
    BY <1>2 DEF ChildLocks, AttemptLockFree
  <2>2. /\ child' \in [Children -> ChildType]
        /\ child'[c].pc = "analysing" /\ child'[c].dwell = child[c].dwell
        /\ \A d \in Children : d # c => child'[d] = child[d]
    BY <1>2 DEF ChildTo, Working, ChildType
  <2>3. QED BY <1>2, <2>1, <2>2 DEF Alive, HoldsAttemptLock
<1>3. CASE ChildWrites(c)
  <2>1. /\ child[c].pc = "analysing"
        /\ receipt' = [receipt EXCEPT ![child[c].dwell] = TRUE]
    BY <1>3 DEF ChildWrites
  <2>2. /\ child' \in [Children -> ChildType]
        /\ child'[c].pc = "written" /\ child'[c].dwell = child[c].dwell
        /\ \A d \in Children : d # c => child'[d] = child[d]
    BY <1>3 DEF ChildWrites, ChildTo, Working, ChildType
  <2>3. receipt' \in [Dwells -> BOOLEAN]
    BY <2>1
  <2>4. \A d \in Children : child'[d].pc = "analysing" => ~receipt'[child'[d].dwell]
    <3> SUFFICES ASSUME NEW d \in Children, child'[d].pc = "analysing"
                 PROVE  ~receipt'[child'[d].dwell]
      OBVIOUS
    <3>1. d # c /\ child'[d] = child[d]
      BY <2>2
    <3>2. child[d].dwell # child[c].dwell /\ child[d].dwell \in Dwells
      BY <2>1, <3>1 DEF HoldsAttemptLock, Alive
    <3>3. QED BY <2>1, <3>1, <3>2
  <2>5. QED BY <2>1, <2>2, <2>3, <2>4 DEF Alive, HoldsAttemptLock
<1>4. QED
  BY <1>1, <1>2, <1>3 DEF ChildStep, ChildLocks, ChildExits, ChildDies

\* The children's invariant is kept.
LEMMA ChildKept ==
    ASSUME Inv, FocusedNext
    PROVE  ChildInv'
<1>1. ChildInv /\ WatchInv /\ ChildShape
  BY NextShape DEF Inv, Shape
<1>2. CASE UNCHANGED <<child, receipt>>
  BY <1>1, <1>2 DEF ChildInv, Alive, HoldsAttemptLock
<1>3. QED
  BY <1>1, <1>2, ChildKeepsChildren, SpawnKeepsChildren, TerminatedKeepsChildren
     DEF ChildShape

-----------------------------------------------------------------------------
(* The supervisor and its journal.                                         *)

SupInv == JournalInv /\ WatchInv /\ InFlightIsBounded

\* Row s is rewritten, and no other.
Changes(s, state) ==
    /\ dwell' \in [Dwells -> RowType]
    /\ dwell'[s].state = state
    /\ \A t \in Dwells : t # s => dwell'[t] = dwell[t]

\* What a rewritten row does to the sets the supervisor selects by.
LEMMA ChangesSets ==
    ASSUME NEW s \in Rows, NEW state, state # "none", Changes(s, state)
    PROVE  /\ Rows' = Rows
           /\ state # "analysis_running" => Running' = Running \ {s}
           /\ state = "analysis_running" => Running' = Running \cup {s}
           /\ state # "captured" => CapturedWork' = CapturedWork \ {s}
BY DEF Changes, Rows, Running, CapturedWork

\* RowTo changes a row.
LEMMA RowToChanges ==
    ASSUME dwell \in [Dwells -> RowType], NEW s \in Dwells, NEW state \in RowState, RowTo(s, state)
    PROVE  Changes(s, state)
BY RowToWrites DEF Changes

\* The journal's part of a step that neither adds a row nor starts an attempt.
LEMMA JournalKeeps ==
    ASSUME SupInv, dwell' \in [Dwells -> RowType], Rows' = Rows, Running' \subseteq Running,
           sup'.pc \notin {"planned", "capturing"}
    PROVE  JournalInv' /\ InFlightIsBounded'
<1>1. JournalInv'
  BY DEF SupInv, JournalInv
<1>2. Running \subseteq Dwells /\ Running' \subseteq Dwells
  BY DEF Running
<1>3. IsFiniteSet(Running)
  BY <1>2, RowsAreCounted
<1>4. Cardinality(Running') <= Cardinality(Running)
  BY <1>3, FS_Subset
<1>5. Cardinality(Running) \in Nat /\ Cardinality(Running') \in Nat
  BY <1>2, RowsAreCounted
<1>6. InFlightIsBounded'
  BY <1>4, <1>5 DEF SupInv, InFlightIsBounded
<1>7. QED BY <1>1, <1>6

\* The supervisor that is off watches nothing.
LEMMA OffKeeps ==
    ASSUME SupInv, sup' = Off, dwell' \in [Dwells -> RowType],
           Rows' = Rows, Running' \subseteq Running
    PROVE  SupInv'
<1>1. /\ Off \in SupType /\ Off.pc = "off" /\ Off.kids = {} /\ Off.adopted = {}
      /\ Off.spawned = NoChild
  BY DEF Off, SupType, SupPc
<1>2. JournalInv' /\ InFlightIsBounded'
  BY <1>1, JournalKeeps
<1>3. WatchInv'
  BY <1>1 DEF WatchInv, Recovers, RunningRowsAreWatched
<1>4. QED BY <1>2, <1>3 DEF SupInv

\* So it may be stopped, killed or halted at any point, with or without a last
\* write to a row that is there.
LEMMA EndsKeep ==
    ASSUME SupInv, sup' = Off,
           \/ dwell' = dwell
           \/ \E s \in Rows, state \in RowState \ {"none", "analysis_running"} : Changes(s, state)
    PROVE  SupInv'
<1>1. CASE dwell' = dwell
  BY <1>1, OffKeeps DEF SupInv, JournalInv, Rows, Running
<1>2. CASE \E s \in Rows, state \in RowState \ {"none", "analysis_running"} : Changes(s, state)
  <2>1. PICK s \in Rows, state \in RowState \ {"none", "analysis_running"} : Changes(s, state)
    BY <1>2
  <2>2. Rows' = Rows /\ Running' \subseteq Running
    BY <2>1, ChangesSets
  <2>3. dwell' \in [Dwells -> RowType]
    BY <2>1 DEF Changes
  <2>4. QED BY <2>2, <2>3, OffKeeps
<1>3. QED BY <1>1, <1>2

\* Steps that leave the rows and what the supervisor watches alone, and only go on.
LEMMA GoesOn ==
    ASSUME SupInv, dwell' = dwell, NEW pc \in SupPc, SupTo(pc),
           pc \notin {"planned", "capturing"},
           pc \in {"recover", "recover_act"} => Recovers,
           Recovers /\ pc \notin {"recover", "recover_act"} => sup.todo = {},
           sup.pc # "off", sup.spawned = NoChild
    PROVE  SupInv'
<1>1. /\ sup' \in SupType /\ sup'.pc = pc
      /\ sup'.kids = sup.kids /\ sup'.adopted = sup.adopted
      /\ sup'.todo = sup.todo /\ sup'.spawned = NoChild
  BY DEF SupTo, SupInv, WatchInv, SupType
<1>2. Rows' = Rows /\ Running' = Running /\ CapturedWork' = CapturedWork
  BY DEF Rows, Running, CapturedWork
<1>3. JournalInv' /\ InFlightIsBounded'
  BY <1>1, <1>2, JournalKeeps DEF SupInv, JournalInv
<1>4. WatchInv'
  BY <1>1, <1>2 DEF SupInv, WatchInv, Recovers, RunningRowsAreWatched, Running
<1>5. QED BY <1>3, <1>4 DEF SupInv

\* Nothing of the supervisor moves.
LEMMA QuietKeeps ==
    ASSUME SupInv, UNCHANGED <<dwell, sup>>
    PROVE  SupInv'
<1>1. Rows' = Rows /\ Running' = Running /\ CapturedWork' = CapturedWork
  BY DEF Rows, Running, CapturedWork
<1>2. QED
  BY <1>1 DEF SupInv, JournalInv, WatchInv, InFlightIsBounded, Recovers, Dispatching,
              SlotAvailable, RunningRowsAreWatched, Running

-----------------------------------------------------------------------------
(* Recovery.                                                               *)

\* The row the recovery looks at: there is one, and nobody watches it.
LEMMA TodoRow ==
    ASSUME SupInv, Recovers, sup.todo # {}
    PROVE  /\ Least(sup.todo) \in sup.todo /\ Least(sup.todo) \in Rows
           /\ Least(sup.todo) \in Dwells /\ Least(sup.todo) \notin sup.kids
<1>1. sup.todo \subseteq Dwells /\ sup.todo \subseteq Rows /\ sup.kids \cap sup.todo = {}
  BY DEF SupInv, WatchInv, SupType
<1>2. Least(sup.todo) \in sup.todo
  BY <1>1, LeastIsMember
<1>3. QED BY <1>1, <1>2

\* The recovery goes to the next row when it has adopted the running row, or left
\* one that does not run.
LEMMA RecoverNextKeeps ==
    ASSUME SupInv, Recovers, sup.todo # {}, NEW kids \in SUBSET {Least(sup.todo)},
           RecoverNext(kids), dwell' \in [Dwells -> RowType], Rows' = Rows,
           Running' \subseteq Running, Running \ {Least(sup.todo)} \subseteq Running',
           kids \subseteq Running',
           Least(sup.todo) \in Running' => Least(sup.todo) \in kids
    PROVE  SupInv'
<1> DEFINE s == Least(sup.todo)
<1>1. s \in sup.todo /\ s \in Dwells /\ s \notin sup.kids
  BY TodoRow
<1> HIDE DEF s
<1>2. /\ sup' \in SupType /\ sup'.pc = "recover"
      /\ sup'.kids = sup.kids \cup kids /\ sup'.adopted = sup.adopted \cup kids
      /\ sup'.todo = sup.todo \ {s} /\ sup'.spawned = sup.spawned
  BY <1>1 DEF RecoverNext, SupInv, WatchInv, SupType, SupPc, s
<1>3. JournalInv' /\ InFlightIsBounded'
  BY <1>2, JournalKeeps
<1>4. sup.spawned = NoChild
  BY DEF SupInv, WatchInv, Recovers, Dispatching
<1>5. sup'.adopted \subseteq sup'.kids
  BY <1>2 DEF SupInv, WatchInv
<1>6. sup'.kids \subseteq Running'
  BY <1>1, <1>2 DEF SupInv, WatchInv, s
<1>7. /\ Running' \subseteq sup'.kids \cup sup'.todo
      /\ sup'.kids \cap sup'.todo = {}
      /\ sup'.todo \subseteq Rows'
  BY <1>1, <1>2 DEF SupInv, WatchInv, s
<1>8. WatchInv'
  BY <1>2, <1>4, <1>5, <1>6, <1>7 DEF WatchInv, Recovers, RunningRowsAreWatched
<1>9. QED BY <1>3, <1>8 DEF SupInv

\* The states of a row that rest on an accepted batch.
Rests == {"captured", "analysis_running", "conflicted", "complete"}

\* A step writes no row that its evidence does not support.
EvidenceStep ==
    \A t \in Dwells : /\ dwell'[t].state \in Rests => batch[t] = "eligible"
                      /\ dwell'[t].state = "complete" => receipt[t]

\* It does not if it changes none, or one row whose evidence is there.
LEMMA EvidenceOfChange ==
    ASSUME EvidenceInv,
           \/ dwell' = dwell
           \/ \E s \in Dwells, state \in RowState :
                /\ Changes(s, state)
                /\ state \in Rests => batch[s] = "eligible"
                /\ state = "complete" => receipt[s]
    PROVE  EvidenceStep
<1>1. CASE dwell' = dwell
  BY <1>1 DEF EvidenceInv, RowHasEvidence, EvidenceStep, Rests
<1>2. ASSUME NEW s \in Dwells, NEW state \in RowState, Changes(s, state),
             state \in Rests => batch[s] = "eligible", state = "complete" => receipt[s]
      PROVE  EvidenceStep
  BY <1>2 DEF EvidenceInv, RowHasEvidence, EvidenceStep, Rests, Changes
<1>3. QED BY <1>1, <1>2

\* A receipt closes a row, and is evidence for it.
LEMMA ReceiptKeeps ==
    ASSUME SupInv, EvidenceInv, RecoverReceipt
    PROVE  SupInv' /\ EvidenceStep
<1> DEFINE s == Least(sup.todo)
<1>1. Recovers /\ sup.todo # {} /\ receipt[s]
  BY DEF RecoverReceipt, Recovering, Recovers
<1>2. s \in Rows /\ s \in Dwells
  BY <1>1, TodoRow
<1>3. batch[s] = "eligible"
  BY <1>1, <1>2 DEF EvidenceInv
<1> HIDE DEF s
<1>4. CASE RowTo(s, "complete") /\ RecoverNext({})
  <2>1. Changes(s, "complete")
    BY <1>2, <1>4, RowToChanges DEF SupInv, JournalInv, RowState
  <2>2. Rows' = Rows /\ Running' = Running \ {s} /\ dwell' \in [Dwells -> RowType]
    BY <1>2, <2>1, ChangesSets DEF Changes
  <2>3. SupInv'
    BY <1>1, <1>4, <2>2, RecoverNextKeeps DEF s
  <2>4. QED BY <1>1, <1>2, <1>3, <2>1, <2>3, EvidenceOfChange DEF RowState
<1>5. CASE RowTo(s, "failed") /\ Halts
  <2>1. Changes(s, "failed")
    BY <1>2, <1>5, RowToChanges DEF SupInv, JournalInv, RowState
  <2>2. sup' = Off
    BY <1>5, EndsShape
  <2>3. SupInv'
    BY <1>2, <2>1, <2>2, EndsKeep DEF RowState
  <2>4. QED BY <1>2, <2>1, <2>3, EvidenceOfChange DEF RowState, Rests
<1>6. CASE Leaves /\ dwell' = dwell
  BY <1>6, EndsKeep, EvidenceOfChange DEF Leaves, Ends
<1>7. QED BY <1>4, <1>5, <1>6 DEF RecoverReceipt, s

\* A planned row becomes captured only when its batch is closed.
LEMMA PlannedKeeps ==
    ASSUME SupInv, EvidenceInv, RecoverPlanned
    PROVE  SupInv' /\ EvidenceStep
<1> DEFINE s == Least(sup.todo)
<1>1. Recovers /\ sup.todo # {} /\ dwell[s].state = "planned"
  BY DEF RecoverPlanned, Recovering, Recovers
<1>2. s \in Rows /\ s \in Dwells
  BY <1>1, TodoRow
<1> HIDE DEF s
<1>3. CASE RowTo(s, "captured") /\ RecoverNext({}) /\ batch[s] = "eligible"
  <2>1. Changes(s, "captured")
    BY <1>2, <1>3, RowToChanges DEF SupInv, JournalInv, RowState
  <2>2. Rows' = Rows /\ Running' = Running \ {s} /\ dwell' \in [Dwells -> RowType]
    BY <1>2, <2>1, ChangesSets DEF Changes
  <2>3. SupInv'
    BY <1>1, <1>3, <2>2, RecoverNextKeeps DEF s
  <2>4. QED BY <1>2, <1>3, <2>1, <2>3, EvidenceOfChange DEF RowState
<1>4. CASE RowTo(s, "failed") /\ Halts
  <2>1. Changes(s, "failed")
    BY <1>2, <1>4, RowToChanges DEF SupInv, JournalInv, RowState
  <2>2. sup' = Off
    BY <1>4, EndsShape
  <2>3. SupInv'
    BY <1>2, <2>1, <2>2, EndsKeep DEF RowState
  <2>4. QED BY <1>2, <2>1, <2>3, EvidenceOfChange DEF RowState, Rests
<1>5. QED BY <1>3, <1>4 DEF RecoverPlanned, CaptureClosed, s

\* A running row is adopted, abandoned, or left as a conflict.
LEMMA RunningKeeps ==
    ASSUME SupInv, EvidenceInv, RecoverRunning
    PROVE  SupInv' /\ EvidenceStep
<1> DEFINE s == Least(sup.todo)
<1>1. Recovers /\ sup.todo # {} /\ dwell[s].state = "analysis_running"
  BY DEF RecoverRunning, Recovering, Recovers
<1>2. s \in Rows /\ s \in Dwells /\ s \in Running
  BY <1>1, TodoRow DEF Running
<1>3. batch[s] = "eligible"
  BY <1>1, <1>2 DEF EvidenceInv, RowHasEvidence
<1> HIDE DEF s
<1>4. CASE RecoverNext({s}) /\ dwell' = dwell
  <2>1. Rows' = Rows /\ Running' = Running /\ dwell' \in [Dwells -> RowType]
    BY <1>4 DEF Rows, Running, SupInv, JournalInv
  <2>2. SupInv'
    BY <1>1, <1>2, <1>4, <2>1, RecoverNextKeeps DEF s
  <2>3. QED BY <1>4, <2>2, EvidenceOfChange
<1>5. CASE RecoverNext({}) /\ RowTo(s, "captured")
  <2>1. Changes(s, "captured")
    BY <1>2, <1>5, RowToChanges DEF SupInv, JournalInv, RowState
  <2>2. Rows' = Rows /\ Running' = Running \ {s} /\ dwell' \in [Dwells -> RowType]
    BY <1>2, <2>1, ChangesSets DEF Changes
  <2>3. SupInv'
    BY <1>1, <1>5, <2>2, RecoverNextKeeps DEF s
  <2>4. QED BY <1>2, <1>3, <2>1, <2>3, EvidenceOfChange DEF RowState
<1>6. CASE dwell' = [dwell EXCEPT ![s].state = "conflicted"] /\ Halts
  <2>1. Changes(s, "conflicted")
    BY <1>2, <1>6 DEF SupInv, JournalInv, RowState, RowType, Changes
  <2>2. sup' = Off
    BY <1>6, EndsShape
  <2>3. SupInv'
    BY <1>2, <2>1, <2>2, EndsKeep DEF RowState
  <2>4. QED BY <1>2, <1>3, <2>1, <2>3, EvidenceOfChange DEF RowState
<1>7. QED BY <1>4, <1>5, <1>6 DEF RecoverRunning, AdoptsOrAbandons, s

\* A conflict is reopened, or ends the recovery.
LEMMA FailedKeeps ==
    ASSUME SupInv, EvidenceInv, RecoverFailed
    PROVE  SupInv' /\ EvidenceStep
<1> DEFINE s == Least(sup.todo)
<1>1. Recovers /\ sup.todo # {}
  BY DEF RecoverFailed, Recovering, Recovers
<1>2. s \in Rows /\ s \in Dwells
  BY <1>1, TodoRow
<1> HIDE DEF s
<1>3. CASE dwell[s].state = "conflicted" /\ RowTo(s, "captured") /\ RecoverNext({})
  <2>1. Changes(s, "captured")
    BY <1>2, <1>3, RowToChanges DEF SupInv, JournalInv, RowState
  <2>2. Rows' = Rows /\ Running' = Running \ {s} /\ dwell' \in [Dwells -> RowType]
    BY <1>2, <2>1, ChangesSets DEF Changes
  <2>3. SupInv'
    BY <1>1, <1>3, <2>2, RecoverNextKeeps DEF s
  <2>4. batch[s] = "eligible"
    BY <1>2, <1>3 DEF EvidenceInv, RowHasEvidence
  <2>5. QED BY <1>2, <2>1, <2>3, <2>4, EvidenceOfChange DEF RowState
<1>4. CASE Halts /\ dwell' = dwell
  BY <1>4, EndsShape, EndsKeep, EvidenceOfChange
<1>5. QED BY <1>3, <1>4 DEF RecoverFailed, s

\* The other steps of the recovery write no row.
LEMMA RecoveryKeeps ==
    ASSUME SupInv, EvidenceInv,
           \/ RecoverRefuses \/ RecoverReceipt \/ RecoverNoReceipt \/ RecoverPlanned
           \/ RecoverCaptured \/ RecoverRunning \/ RecoverFailed \/ Recovered
    PROVE  SupInv' /\ EvidenceStep
<1>1. CASE RecoverRefuses
  BY <1>1, EndsShape, EndsKeep, EvidenceOfChange DEF RecoverRefuses
<1>2. CASE RecoverNoReceipt
  <2>1. Recovers /\ SupTo("recover_act") /\ dwell' = dwell
    BY <1>2 DEF RecoverNoReceipt, Recovering, Recovers
  <2>2. sup.spawned = NoChild /\ sup.pc # "off"
    BY <2>1 DEF SupInv, WatchInv, Recovers, Dispatching
  <2>3. QED BY <2>1, <2>2, GoesOn, EvidenceOfChange DEF SupPc
<1>3. CASE Recovered
  <2>1. Recovers /\ SupTo("dispatch") /\ dwell' = dwell /\ sup.todo = {}
    BY <1>3 DEF Recovered, Recovers
  <2>2. sup.spawned = NoChild /\ sup.pc # "off"
    BY <2>1 DEF SupInv, WatchInv, Recovers, Dispatching
  <2>3. QED BY <2>1, <2>2, GoesOn, EvidenceOfChange DEF SupPc
<1>4. CASE RecoverCaptured
  <2> DEFINE s == Least(sup.todo)
  <2>1. /\ Recovers /\ sup.todo # {} /\ dwell[s].state = "captured"
        /\ RecoverNext({}) /\ dwell' = dwell
    BY <1>4 DEF RecoverCaptured, Recovering, Recovers
  <2>2. /\ Rows' = Rows /\ Running' = Running /\ s \notin Running
        /\ dwell' \in [Dwells -> RowType]
    BY <2>1 DEF Rows, Running, SupInv, JournalInv
  <2>3. SupInv'
    BY <2>1, <2>2, RecoverNextKeeps
  <2>4. QED BY <2>1, <2>3, EvidenceOfChange
<1>5. QED BY <1>1, <1>2, <1>3, <1>4, ReceiptKeeps, PlannedKeeps, RunningKeeps, FailedKeeps

\* A new supervisor has to look at every row that an earlier one left running.
LEMMA StartKeeps ==
    ASSUME SupInv, EvidenceInv, NEW r \in Releases, NEW allow \in SUBSET (Dwells \X Releases),
           Start(r, allow)
    PROVE  SupInv' /\ EvidenceStep
<1> DEFINE todo == {s \in Rows :
                      \/ dwell[s].state \in {"planned", "captured", "analysis_running"}
                      \/ /\ dwell[s].state \in {"failed", "conflicted"}
                         /\ \E q \in Releases : <<s, q>> \in allow}
<1>1. dwell' = dwell /\ sup' = [Off EXCEPT !.pc = "recover", !.release = r, !.allow = allow,
                                           !.todo = todo]
  BY DEF Start
<1>2. todo \subseteq Rows /\ Running \subseteq todo /\ todo \subseteq Dwells
  BY DEF Running, Rows
<1> HIDE DEF todo
<1>3. /\ sup' \in SupType /\ sup'.pc = "recover" /\ sup'.kids = {} /\ sup'.adopted = {}
      /\ sup'.todo = todo /\ sup'.spawned = NoChild
  BY <1>1, <1>2 DEF Off, SupType, SupPc
<1>4. Rows' = Rows /\ Running' = Running /\ dwell' \in [Dwells -> RowType]
  BY <1>1 DEF Rows, Running, SupInv, JournalInv
<1>5. JournalInv' /\ InFlightIsBounded'
  BY <1>3, <1>4, JournalKeeps
<1>6. WatchInv'
  BY <1>2, <1>3, <1>4 DEF WatchInv, Recovers, RunningRowsAreWatched
<1>7. QED BY <1>1, <1>5, <1>6, EvidenceOfChange DEF SupInv

-----------------------------------------------------------------------------
(* Dispatch, reap, capture.                                                *)

\* Past its recovery the supervisor watches the running rows.
LEMMA Watches ==
    ASSUME SupInv, sup.pc \notin {"off", "recover", "recover_act"}
    PROVE  sup.kids = Running
BY DEF SupInv, WatchInv, RunningRowsAreWatched, Running

\* A spawned process finds the captured row it was spawned for.
LEMMA SpawnKeeps ==
    ASSUME SupInv, EvidenceInv, Spawn
    PROVE  SupInv' /\ EvidenceStep
<1>1. /\ Dispatching /\ CapturedWork # {} /\ SlotAvailable /\ dwell' = dwell
      /\ sup' = [sup EXCEPT !.spawned = CHOOSE x \in Unused : TRUE]
      /\ Unused # {} /\ Unused \subseteq Children
  BY DEF Spawn, Unused
<1>2. PICK c \in Children : sup' = [sup EXCEPT !.spawned = c]
  BY <1>1
<1>3. /\ sup' \in SupType /\ sup'.pc = sup.pc /\ sup'.kids = sup.kids
      /\ sup'.adopted = sup.adopted
  BY <1>2 DEF SupInv, WatchInv, SupType
<1>4. /\ Rows' = Rows /\ Running' = Running /\ CapturedWork' = CapturedWork
      /\ dwell' \in [Dwells -> RowType]
  BY <1>1 DEF Rows, Running, CapturedWork, SupInv, JournalInv
<1>5. JournalInv' /\ InFlightIsBounded'
  BY <1>1, <1>3, <1>4, JournalKeeps DEF Dispatching
<1>6. WatchInv'
  BY <1>1, <1>3, <1>4
     DEF SupInv, WatchInv, Recovers, Dispatching, SlotAvailable, RunningRowsAreWatched, Running
<1>7. QED BY <1>1, <1>5, <1>6, EvidenceOfChange DEF SupInv

\* The claim turns the oldest captured row into a running one, and the supervisor
\* had room for it.
LEMMA ClaimKeeps ==
    ASSUME SupInv, EvidenceInv, ClaimAnalysisProcess
    PROVE  SupInv' /\ EvidenceStep
<1> DEFINE s == Least(CapturedWork)
<1>1. /\ Dispatching /\ sup.spawned # NoChild
      /\ dwell' = [dwell EXCEPT ![s] = Claimed(dwell[s])]
      /\ sup' = [sup EXCEPT !.spawned = NoChild, !.kids = @ \cup {s}]
  BY DEF ClaimAnalysisProcess
<1>2. CapturedWork # {} /\ SlotAvailable
  BY <1>1 DEF SupInv, WatchInv
<1>3. s \in CapturedWork
  BY <1>2, LeastIsMember DEF CapturedWork
<1> HIDE DEF s
<1>4. s \in Dwells /\ dwell[s].state = "captured" /\ s \in Rows /\ batch[s] = "eligible"
  BY <1>3 DEF CapturedWork, Rows, EvidenceInv, RowHasEvidence
<1>5. Claimed(dwell[s]) \in RowType /\ Claimed(dwell[s]).state = "analysis_running"
  BY <1>4 DEF Claimed, RowType, SupInv, JournalInv, WatchInv, SupType, RowState
<1>6. Changes(s, "analysis_running")
  BY <1>1, <1>4, <1>5 DEF Changes, SupInv, JournalInv
<1>7. Rows' = Rows /\ Running' = Running \cup {s} /\ dwell' \in [Dwells -> RowType]
  BY <1>4, <1>6, ChangesSets DEF Changes
<1>8. /\ sup' \in SupType /\ sup'.pc = sup.pc /\ sup'.spawned = NoChild
      /\ sup'.kids = sup.kids \cup {s} /\ sup'.adopted = sup.adopted
  BY <1>1, <1>4 DEF SupInv, WatchInv, SupType
<1>9. sup.kids = Running
  BY <1>1, Watches DEF Dispatching
<1>10. InFlightIsBounded'
  <2>1. IsFiniteSet(Running) /\ Cardinality(Running) \in Nat
    BY RowsAreCounted DEF Running
  <2>2. Cardinality(Running) < MaximumInFlightAnalyses
    BY <1>2, <1>9 DEF SlotAvailable
  <2>3. s \notin Running
    BY <1>4 DEF Running
  <2>4. Cardinality(Running \cup {s}) = Cardinality(Running) + 1
    BY <2>1, <2>3, FS_AddElement
  <2>5. QED BY <1>7, <2>1, <2>2, <2>4 DEF InFlightIsBounded
<1>11. JournalInv'
  BY <1>1, <1>7, <1>8 DEF SupInv, JournalInv, Dispatching
<1>12. WatchInv'
  BY <1>1, <1>7, <1>8, <1>9
     DEF SupInv, WatchInv, Recovers, Dispatching, RunningRowsAreWatched, Running
<1>13. EvidenceStep
  BY <1>4, <1>6, EvidenceOfChange DEF RowState
<1>14. QED BY <1>10, <1>11, <1>12, <1>13 DEF SupInv

\* A reaped row no longer runs, and nobody watches it.
LEMMA ReapKeeps ==
    ASSUME SupInv, EvidenceInv, NEW s \in Dwells, ReapSuccess(s) \/ ReapFailure(s)
    PROVE  SupInv' /\ EvidenceStep
<1>1. /\ sup.pc = "reap" /\ s \in sup.kids
      /\ sup' = [sup EXCEPT !.kids = @ \ {s}, !.adopted = @ \ {s}]
  BY DEF ReapSuccess, ReapFailure, Reaped
<1>2. PICK state \in {"complete", "captured", "failed"} :
        RowTo(s, state) /\ (state = "complete" => receipt[s])
  BY DEF ReapSuccess, ReapFailure, SeesSuccess
<1>3. s \in Running /\ s \in Rows /\ batch[s] = "eligible" /\ sup.kids = Running
  BY <1>1, Watches DEF Running, Rows, EvidenceInv, RowHasEvidence
<1>4. Changes(s, state)
  BY <1>2, RowToChanges DEF SupInv, JournalInv, RowState
<1>5. Rows' = Rows /\ Running' = Running \ {s} /\ dwell' \in [Dwells -> RowType]
  BY <1>3, <1>4, ChangesSets DEF Changes
<1>6. /\ sup' \in SupType /\ sup'.pc = "reap" /\ sup'.spawned = sup.spawned
      /\ sup'.kids = sup.kids \ {s} /\ sup'.adopted = sup.adopted \ {s}
  BY <1>1 DEF SupInv, WatchInv, SupType
<1>7. sup.spawned = NoChild
  BY <1>1 DEF SupInv, WatchInv, Dispatching
<1>8. JournalInv' /\ InFlightIsBounded'
  BY <1>5, <1>6, JournalKeeps
<1>9. WatchInv'
  BY <1>3, <1>5, <1>6, <1>7 DEF SupInv, WatchInv, Recovers, RunningRowsAreWatched, Running
<1>10. EvidenceStep
  BY <1>2, <1>3, <1>4, EvidenceOfChange DEF RowState
<1>11. QED BY <1>8, <1>9, <1>10 DEF SupInv

\* The next row follows the last one, and is new.
LEMMA PlanKeeps ==
    ASSUME SupInv, EvidenceInv, Plan
    PROVE  SupInv' /\ EvidenceStep
<1> DEFINE n == Cardinality(Rows)
<1>1. /\ sup.pc = "gate" /\ SupTo("planned") /\ ~(n + 1 > MaximumDwells)
      /\ dwell' = [dwell EXCEPT ![n + 1].state = "planned"]
  BY DEF Plan, Draining, NextSequence
<1>2. n \in Nat
  BY RowsAreCounted DEF Rows
<1>3. Rows = 1 .. n
  BY DEF SupInv, JournalInv
<1> HIDE DEF n
<1>4. n + 1 \in Dwells /\ n + 1 \notin Rows
  BY <1>1, <1>2, <1>3 DEF Dwells
<1>5. Changes(n + 1, "planned")
  BY <1>1, <1>4 DEF Changes, SupInv, JournalInv, RowType, RowState
<1>6. dwell[n + 1].state = "none"
  BY <1>4 DEF Rows
<1>7. Rows' = Rows \cup {n + 1} /\ Running' = Running
  BY <1>4, <1>5, <1>6 DEF Changes, Rows, Running
<1>8. Rows' = 1 .. n + 1
  BY <1>2, <1>3, <1>7
<1>9. Cardinality(Rows') = n + 1
  <2>1. Rows' \subseteq Dwells
    BY DEF Rows
  <2>2. QED BY <1>2, <1>8, <2>1, RowsAreCounted
<1>10. /\ sup' \in SupType /\ sup'.pc = "planned" /\ sup'.spawned = sup.spawned
       /\ sup'.kids = sup.kids /\ sup'.adopted = sup.adopted
  BY <1>1 DEF SupTo, SupInv, WatchInv, SupType, SupPc
<1>11. JournalInv'
  BY <1>2, <1>5, <1>8, <1>9, <1>10 DEF JournalInv, Changes
<1>12. InFlightIsBounded'
  BY <1>7 DEF SupInv, InFlightIsBounded
<1>13. sup.spawned = NoChild /\ sup.kids = Running
  BY <1>1, Watches DEF SupInv, WatchInv, Dispatching
<1>14. WatchInv'
  BY <1>7, <1>10, <1>13 DEF SupInv, WatchInv, Recovers, RunningRowsAreWatched, Running
<1>15. EvidenceStep
  BY <1>4, <1>5, EvidenceOfChange DEF RowState, Rests
<1>16. QED BY <1>11, <1>12, <1>14, <1>15 DEF SupInv

\* The capture command leaves the journal alone.
LEMMA RunCaptureKeeps ==
    ASSUME SupInv, EvidenceInv, RunCapture
    PROVE  SupInv' /\ EvidenceStep
<1>1. PICK p \in Procs : sup' = [sup EXCEPT !.pc = "capturing", !.capture = {p}]
  BY DEF RunCapture
<1>2. dwell' = dwell /\ sup.pc = "planned"
  BY DEF RunCapture
<1>3. /\ sup' \in SupType /\ sup'.pc = "capturing" /\ sup'.spawned = sup.spawned
      /\ sup'.kids = sup.kids /\ sup'.adopted = sup.adopted
  BY <1>1 DEF SupInv, WatchInv, SupType, SupPc
<1>4. Rows' = Rows /\ Running' = Running
  BY <1>2 DEF Rows, Running
<1>5. sup.spawned = NoChild /\ sup.kids = Running
  BY <1>2, Watches DEF SupInv, WatchInv, Dispatching
<1>6. WatchInv'
  BY <1>3, <1>4, <1>5 DEF SupInv, WatchInv, Recovers, RunningRowsAreWatched, Running
<1>7. JournalInv' /\ InFlightIsBounded'
  BY <1>2, <1>3, <1>4 DEF SupInv, JournalInv, InFlightIsBounded
<1>8. QED BY <1>2, <1>6, <1>7, EvidenceOfChange DEF SupInv

\* The row of a capture that ended is the planned last one, not one that runs, and
\* is captured only if its batch is closed.
LEMMA CaptureReturnsKeeps ==
    ASSUME SupInv, EvidenceInv, CaptureReturns
    PROVE  SupInv' /\ EvidenceStep
<1> DEFINE s == Cardinality(Rows)
<1>1. sup.pc = "capturing"
  BY DEF CaptureReturns
<1>2. s \in Rows /\ s \in Dwells /\ dwell[s].state = "planned" /\ s \notin Running
  <2>1. Rows = 1 .. s /\ Rows # {} /\ dwell[s].state = "planned"
    BY <1>1 DEF SupInv, JournalInv
  <2>2. s \in Nat
    BY RowsAreCounted DEF Rows
  <2>3. s \in Rows
    BY <2>1, <2>2
  <2>4. QED BY <2>1, <2>3 DEF Rows, Running
<1>3. \/ /\ batch[s] = "eligible" /\ RowTo(s, "captured")
         /\ sup' = [sup EXCEPT !.pc = "dispatch", !.capture = {}]
      \/ RowTo(s, "failed") /\ sup' = Off
  BY DEF CaptureReturns, CaptureClosed, HaltEnds, Ends
<1> HIDE DEF s
<1>4. CASE /\ batch[s] = "eligible" /\ RowTo(s, "captured")
           /\ sup' = [sup EXCEPT !.pc = "dispatch", !.capture = {}]
  <2>1. Changes(s, "captured")
    BY <1>2, <1>4, RowToChanges DEF SupInv, JournalInv, RowState
  <2>2. Rows' = Rows /\ Running' = Running /\ dwell' \in [Dwells -> RowType]
    <3>1. Running' = Running \ {s}
      BY <1>2, <2>1, ChangesSets
    <3>2. QED BY <1>2, <2>1, <3>1, ChangesSets DEF Changes
  <2>3. /\ sup' \in SupType /\ sup'.pc = "dispatch" /\ sup'.spawned = sup.spawned
        /\ sup'.kids = sup.kids /\ sup'.adopted = sup.adopted
    BY <1>4 DEF SupInv, WatchInv, SupType, SupPc
  <2>4. JournalInv' /\ InFlightIsBounded'
    BY <2>2, <2>3, JournalKeeps
  <2>5. sup.spawned = NoChild /\ sup.kids = Running
    BY <1>1, Watches DEF SupInv, WatchInv, Dispatching
  <2>6. WatchInv'
    BY <2>2, <2>3, <2>5 DEF SupInv, WatchInv, Recovers, RunningRowsAreWatched, Running
  <2>7. EvidenceStep
    BY <1>2, <1>4, <2>1, EvidenceOfChange DEF RowState
  <2>8. QED BY <2>4, <2>6, <2>7 DEF SupInv
<1>5. CASE RowTo(s, "failed") /\ sup' = Off
  <2>1. Changes(s, "failed")
    BY <1>2, <1>5, RowToChanges DEF SupInv, JournalInv, RowState
  <2>2. SupInv'
    BY <1>2, <1>5, <2>1, EndsKeep DEF RowState
  <2>3. QED BY <1>2, <2>1, <2>2, EvidenceOfChange DEF RowState, Rests
<1>6. QED BY <1>3, <1>4, <1>5

\* The steps that only go on.
LEMMA LoopKeeps ==
    ASSUME SupInv, EvidenceInv, Dispatched \/ ReapDone \/ Loop \/ GateToDrain
    PROVE  SupInv' /\ EvidenceStep
<1>1. dwell' = dwell
  BY DEF Dispatched, ReapDone, Loop, GateToDrain
<1>2. CASE Loop /\ Leaves
  BY <1>1, <1>2, EndsKeep, EvidenceOfChange DEF Leaves, Ends
<1>3. CASE ~(Loop /\ Leaves)
  <2>1. PICK pc \in {"loop", "gate", "refill", "reap"} : SupTo(pc)
    BY <1>3 DEF Dispatched, ReapDone, Loop, GateToDrain
  <2>2. ~Recovers /\ sup.pc # "off"
    BY DEF Recovers, Dispatched, Dispatching, ReapDone, Loop, GateToDrain
  <2>3. sup.spawned = NoChild
    BY DEF SupInv, WatchInv, Dispatched, Dispatching, ReapDone, Loop, GateToDrain
  <2>4. SupInv'
    BY <1>1, <2>1, <2>2, <2>3, GoesOn DEF SupPc
  <2>5. QED BY <1>1, <2>4, EvidenceOfChange
<1>4. QED BY <1>2, <1>3

\* A request to stop is only noted.
LEMMA RequestStopKeeps ==
    ASSUME SupInv, EvidenceInv, RequestStop
    PROVE  SupInv' /\ EvidenceStep
<1>1. dwell' = dwell /\ sup' = [sup EXCEPT !.stopping = TRUE]
  BY DEF RequestStop
<1>2. /\ sup' \in SupType /\ sup'.pc = sup.pc /\ sup'.spawned = sup.spawned
      /\ sup'.kids = sup.kids /\ sup'.adopted = sup.adopted /\ sup'.todo = sup.todo
  BY <1>1 DEF SupInv, WatchInv, SupType
<1>3. Rows' = Rows /\ Running' = Running /\ CapturedWork' = CapturedWork
  BY <1>1 DEF Rows, Running, CapturedWork
<1>4. SupInv'
  BY <1>1, <1>2, <1>3
     DEF SupInv, JournalInv, WatchInv, InFlightIsBounded, Recovers, Dispatching,
         SlotAvailable, RunningRowsAreWatched, Running
<1>5. QED BY <1>1, <1>4, EvidenceOfChange

-----------------------------------------------------------------------------
(* The theorems.                                                           *)

\* Every step keeps the supervisor's invariant and writes no unsupported row.
LEMMA SupKept ==
    ASSUME Inv, FocusedNext
    PROVE  SupInv' /\ EvidenceStep
<1>1. SupInv /\ EvidenceInv
  BY DEF Inv, SupInv
<1>2. CASE \/ RecoverRefuses \/ RecoverReceipt \/ RecoverNoReceipt \/ RecoverPlanned
           \/ RecoverCaptured \/ RecoverRunning \/ RecoverFailed \/ Recovered
  BY <1>1, <1>2, RecoveryKeeps
<1>3. CASE Spawn \/ ClaimAnalysisProcess \/ Plan \/ RunCapture \/ CaptureReturns
  BY <1>1, <1>3, SpawnKeeps, ClaimKeeps, PlanKeeps, RunCaptureKeeps, CaptureReturnsKeeps
<1>4. CASE \E s \in Dwells : ReapSuccess(s) \/ ReapFailure(s)
  BY <1>1, <1>4, ReapKeeps
<1>5. CASE Dispatched \/ ReapDone \/ Loop \/ GateToDrain
  BY <1>1, <1>5, LoopKeeps
<1>6. CASE DiskFull \/ Raises \/ Killed
  <2>1. dwell' = dwell /\ sup' = Off
    BY <1>6, EndsShape DEF DiskFull, Raises, Killed
  <2>2. QED BY <1>1, <2>1, EndsKeep, EvidenceOfChange
<1>7. CASE \E c \in Children : ChildStep(c) \/ ChildDies(c)
  <2>1. UNCHANGED <<dwell, sup>>
    BY <1>7 DEF ChildStep, ChildDies, ChildLocks, ChildWrites, ChildExits, ChildTo
  <2>2. QED BY <1>1, <2>1, QuietKeeps, EvidenceOfChange
<1>8. CASE \E r \in Releases : \/ Start(r, {})
                                \/ \E s \in Dwells, q \in Releases : Start(r, {<<s, q>>})
  <2>1. ASSUME NEW r \in Releases, Start(r, {}) PROVE SupInv' /\ EvidenceStep
    BY <1>1, <2>1, StartKeeps
  <2>2. ASSUME NEW r \in Releases, NEW s \in Dwells, NEW q \in Releases, Start(r, {<<s, q>>})
        PROVE  SupInv' /\ EvidenceStep
    <3>1. {<<s, q>>} \in SUBSET (Dwells \X Releases)
      OBVIOUS
    <3>2. QED BY <1>1, <2>2, <3>1, StartKeeps
  <2>3. QED BY <1>8, <2>1, <2>2
<1>9. CASE \/ \E p \in Procs : (PortStep(p) \/ ProcessDies(p)) /\ UNCHANGED focusedVars
           \/ \E p \in Procs : OrphanedCaptureEnds(p)
           \/ ClearLatch
  <2>1. UNCHANGED <<dwell, sup>>
    BY <1>9 DEF OrphanedCaptureEnds, ClearLatch, focusedVars
  <2>2. QED BY <1>1, <2>1, QuietKeeps, EvidenceOfChange
<1>10. CASE RequestStop
  BY <1>1, <1>10, RequestStopKeeps
<1>11. QED
  BY <1>2, <1>3, <1>4, <1>5, <1>6, <1>7, <1>8, <1>9, <1>10 DEF FocusedNext, SupStep

\* A receipt is written, and a lock held, only over an accepted batch.
LEMMA ChildEvidence ==
    ASSUME Inv, FocusedNext
    PROVE  /\ \A s \in Dwells : receipt[s] => receipt'[s]
           /\ \A s \in Dwells : receipt'[s] => batch[s] = "eligible"
           /\ \A c \in Children : HoldsAttemptLock(c)' =>
                child'[c].dwell \in Dwells /\ batch[child'[c].dwell] = "eligible"
<1> USE DEF HoldsAttemptLock
<1>1. ChildInv /\ EvidenceInv /\ WatchInv /\ ChildShape
  BY NextShape DEF Inv, Shape
<1>2. \A c \in Children : HoldsAttemptLock(c) =>
        child[c].dwell \in Dwells /\ batch[child[c].dwell] = "eligible"
  BY <1>1 DEF ChildInv, EvidenceInv, Alive
<1>3. CASE /\ UNCHANGED receipt
           /\ \A c \in Children : child'[c] = child[c]
                 \/ child'[c].pc \in {"waiting", "exit0", "exit1"}
  BY <1>1, <1>2, <1>3 DEF EvidenceInv
<1>4. CASE UNCHANGED <<child, receipt>>
  BY <1>3, <1>4
<1>5. CASE Spawn
  <2>1. \E c, d : child' = [child EXCEPT ![c] = [dwell |-> d, pc |-> "waiting"]]
    BY <1>5 DEF Spawn
  <2>2. receipt' = receipt
    BY <1>5 DEF Spawn
  <2>3. QED BY <1>1, <1>3, <2>1, <2>2 DEF ChildInv
<1>6. CASE child' = Terminated /\ UNCHANGED receipt
  BY <1>1, <1>3, <1>6 DEF Terminated, Exited
<1>7. ASSUME NEW c \in Children, ChildStep(c) \/ ChildDies(c)
      PROVE  /\ \A s \in Dwells : receipt[s] => receipt'[s]
             /\ \A s \in Dwells : receipt'[s] => batch[s] = "eligible"
             /\ \A d \in Children : HoldsAttemptLock(d)' =>
                  child'[d].dwell \in Dwells /\ batch[child'[d].dwell] = "eligible"
  <2>1. CASE UNCHANGED receipt /\ \E pc \in {"exit0", "exit1"} : ChildTo(c, Exited(pc))
    <3>1. PICK pc \in {"exit0", "exit1"} : child' = [child EXCEPT ![c] = Exited(pc)]
      BY <2>1 DEF ChildTo
    <3>2. Exited(pc).pc = pc
      BY DEF Exited
    <3>3. \A d \in Children : child'[d] = child[d] \/ child'[d] = Exited(pc)
      BY <1>1, <3>1 DEF ChildInv
    <3>4. QED BY <1>3, <2>1, <3>1, <3>2, <3>3
  <2>2. CASE /\ child[c].pc = "waiting" /\ batch[child[c].dwell] = "eligible"
             /\ UNCHANGED receipt /\ ChildTo(c, Working(c, "analysing"))
    <3>1. /\ child'[c].dwell = child[c].dwell /\ child[c].dwell \in Dwells
          /\ \A d \in Children : d # c => child'[d] = child[d]
      BY <1>1, <2>2 DEF ChildTo, Working, ChildInv, ChildType, Alive
    <3>2. QED BY <1>1, <1>2, <2>2, <3>1 DEF EvidenceInv
  <2>3. CASE ChildWrites(c)
    <3>1. /\ child[c].pc = "analysing"
          /\ receipt' = [receipt EXCEPT ![child[c].dwell] = TRUE]
          /\ child'[c].dwell = child[c].dwell
          /\ \A d \in Children : d # c => child'[d] = child[d]
      BY <1>1, <2>3 DEF ChildWrites, ChildTo, Working, ChildInv, ChildType
    <3>2. child[c].dwell \in Dwells /\ batch[child[c].dwell] = "eligible"
      BY <1>2, <3>1
    <3>3. \A s \in Dwells : receipt'[s] = IF s = child[c].dwell THEN TRUE ELSE receipt[s]
      BY <1>1, <3>1, Zenon DEF ChildInv
    <3>4. QED BY <1>1, <1>2, <3>1, <3>2, <3>3 DEF EvidenceInv
  <2>4. QED
    BY <1>7, <2>1, <2>2, <2>3 DEF ChildStep, ChildLocks, ChildExits, ChildDies
<1>8. QED BY <1>1, <1>4, <1>5, <1>6, <1>7 DEF ChildShape

\* So every row, receipt and lock keeps its evidence.
LEMMA EvidenceKept ==
    ASSUME Inv, FocusedNext
    PROVE  EvidenceInv'
<1>1. EligibleStays /\ EvidenceStep
  BY PortKept, SupKept
<1>2. RowHasEvidence'
  BY <1>1, ChildEvidence, DwellsAreSlots
     DEF RowHasEvidence, EligibleStays, EvidenceStep, Rests
<1>3. \A s \in Dwells : receipt'[s] => batch'[s] = "eligible"
  BY <1>1, ChildEvidence, DwellsAreSlots DEF EligibleStays
<1>4. \A c \in Children : HoldsAttemptLock(c)' => batch'[child'[c].dwell] = "eligible"
  BY <1>1, ChildEvidence, DwellsAreSlots DEF EligibleStays
<1>5. QED BY <1>2, <1>3, <1>4 DEF EvidenceInv

\* The initial journal, port and children.
LEMMA InitInv == FocusedInit => Inv
<1> SUFFICES ASSUME FocusedInit PROVE Inv
  OBVIOUS
<1> USE DEF FocusedInit, Init
<1>1. WindowInv
  <2>1. rf \in [AllSlots -> Nat] /\ calls \in [AllSlots -> Nat]
    OBVIOUS
  <2>2. latch \in BOOLEAN /\ starts \in 0 .. MaxStarts
    <3>1. latch = FALSE /\ starts = 0
      OBVIOUS
    <3>2. 0 \in 0 .. MaxStarts
      OBVIOUS
    <3>3. QED BY <3>1, <3>2, Zenon
  <2>3. QED BY <2>1, <2>2, Zenon DEF WindowInv
<1>2. PortInv
  <2>1. IdleProc \in ProcType /\ IdleProc.pc = "idle" /\ Len(IdleProc.view.records) = 0
    BY DEF IdleProc, ProcType, EmptyJournal, PortPc, Phase, HaltReason, MaxTime
  <2>2. QED BY <2>1 DEF PortInv, BatchState, SlotOf
<1>3. ChildInv
  BY DEF ChildInv, ChildType, Exited, Alive, HoldsAttemptLock
<1>4. NoRow \in RowType /\ NoRow.state = "none"
  BY DEF NoRow, RowType, RowState
<1>5. EvidenceInv
  BY <1>4 DEF EvidenceInv, RowHasEvidence, HoldsAttemptLock, Exited
<1>6. Rows = {} /\ Running = {}
  BY <1>4 DEF Rows, Running
<1>7. /\ Off \in SupType /\ Off.pc = "off" /\ Off.kids = {} /\ Off.adopted = {}
      /\ Off.spawned = NoChild
  BY DEF Off, SupType, SupPc
<1>8. Cardinality({}) = 0
  BY FS_EmptySet
<1>9. JournalInv /\ InFlightIsBounded
  BY <1>4, <1>6, <1>7, <1>8 DEF JournalInv, InFlightIsBounded
<1>10. WatchInv
  BY <1>6, <1>7 DEF WatchInv, Recovers, RunningRowsAreWatched
<1>11. QED BY <1>1, <1>2, <1>3, <1>5, <1>9, <1>10 DEF Inv

\* Every step keeps the invariant.
LEMMA NextInv == Inv /\ [FocusedNext]_<<vars, focusedVars>> => Inv'
<1>1. ASSUME Inv, FocusedNext PROVE Inv'
  BY <1>1, WindowKept, PortKept, ChildKept, EvidenceKept, SupKept DEF Inv, SupInv
<1>2. ASSUME Inv, UNCHANGED <<vars, focusedVars>> PROVE Inv'
  <2>1. SupInv'
    BY <1>2, QuietKeeps DEF Inv, SupInv, focusedVars
  <2>2. WindowInv' /\ PortInv'
    BY <1>2 DEF Inv, WindowInv, PortInv, SlotOf, vars, focusedVars
  <2>3. ChildInv' /\ EvidenceInv'
    BY <1>2 DEF Inv, ChildInv, EvidenceInv, RowHasEvidence, Alive, HoldsAttemptLock,
                vars, focusedVars
  <2>4. QED BY <2>1, <2>2, <2>3 DEF Inv, SupInv
<1>3. QED BY <1>1, <1>2

\* The inductive invariant holds in every reachable state.
THEOREM Invariance == FocusedSpec => []Inv
BY InitInv, NextInv, PTL DEF FocusedSpec

\* The window, the port, the journal, the children and the supervisor keep their
\* types, for every number of dwells, processes, releases and starts.
THEOREM TypeCorrect == FocusedSpec => [](TypeOK /\ FocusedTypeOK)
<1>1. Inv => TypeOK
  <2> SUFFICES ASSUME Inv PROVE TypeOK
    OBVIOUS
  <2>1. IsJournal(EmptyJournal)
    BY DEF IsJournal, EmptyJournal, Phase, HaltReason
  <2>2. ASSUME NEW p \in Procs
        PROVE  /\ proc[p].pc \in PortPc
               /\ IsJournal(proc[p].view) /\ proc[p].at \in 0 .. MaxTime
    BY DEF Inv, PortInv, ProcType, IsJournal, SlotOf
  <2>3. 0 \in 0 .. MaxTime
    BY DEF MaxTime
  <2>4. QED BY <2>1, <2>2, <2>3 DEF TypeOK, Inv, WindowInv, PortInv, BatchState, PortPc
<1>2. Inv => FocusedTypeOK
  BY DEF FocusedTypeOK, Inv, WindowInv, ChildInv, JournalInv, WatchInv, SupType, SupPc,
         RowType, ChildType
<1>3. QED BY Invariance, <1>1, <1>2, PTL

\* A row is never better than its evidence, wherever the supervisor is killed.
THEOREM RowsHaveEvidence == FocusedSpec => []RowHasEvidence
<1>1. Inv => RowHasEvidence
  BY DEF Inv, EvidenceInv
<1>2. QED BY Invariance, <1>1, PTL

\* Two processes never analyse a dwell at once, and none after its receipt.
THEOREM AnalysesAreSerial == FocusedSpec => []AnalysisIsSerialized
<1>1. Inv => AnalysisIsSerialized
  BY DEF Inv, ChildInv, AnalysisIsSerialized, HoldsAttemptLock
<1>2. QED BY Invariance, <1>1, PTL

\* A supervisor past its recovery watches exactly the running rows.
THEOREM NoAttemptIsForgotten == FocusedSpec => []RunningRowsAreWatched
<1>1. Inv => RunningRowsAreWatched
  BY DEF Inv, WatchInv
<1>2. QED BY Invariance, <1>1, PTL

\* The running rows never exceed --maximum-in-flight-analyses, across restarts.
THEOREM AttemptsStayBounded == FocusedSpec => []InFlightIsBounded
<1>1. Inv => InFlightIsBounded
  BY DEF Inv
<1>2. QED BY Invariance, <1>1, PTL

\* An accepted batch and a completion receipt are final: no capture that is left
\* behind rewrites the one, and no attempt takes back the other.
THEOREM EvidenceIsFinal ==
    FocusedSpec => [][/\ EligibleStays
                      /\ \A s \in Dwells : receipt[s] => receipt'[s]]_<<vars, focusedVars>>
<1>1. Inv /\ [FocusedNext]_<<vars, focusedVars>> =>
        [EligibleStays /\ \A s \in Dwells : receipt[s] => receipt'[s]]_<<vars, focusedVars>>
  BY PortKept, ChildEvidence
<1>2. QED BY Invariance, <1>1, PTL DEF FocusedSpec
=============================================================================
