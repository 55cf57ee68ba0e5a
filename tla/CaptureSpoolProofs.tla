------------------------- MODULE CaptureSpoolProofs -------------------------
(***************************************************************************)
(* Proofs about CaptureSpool, for any number of plans and recordings and   *)
(* every limit of the reconciler and the retention budget.                 *)
(*                                                                         *)
(* The argument: the spool never holds more than one row that is not       *)
(* settled.  A capture starts only at a supervisor that takes requests,    *)
(* and one that takes requests has no such row.  Therefore the reconciler, *)
(* whose limit is at least one, always sees all there is.                  *)
(***************************************************************************)
EXTENDS CaptureSpool, FiniteSetTheorems, TLAPS

\* Rows that a restart or the reconciler has still to settle, and rows that
\* are, or may become, the durable recording of their plan.
Open == {"allocated", "complete", "acknowledged"}
Live == Durable \cup {"allocated"}

NothingOpen == \A r \in Recordings : row[r] \notin Open
NothingAllocated == \A r \in Recordings : row[r] # "allocated"

\* What the rows say of each other and of the disk.
RowInv ==
    /\ RowsTellTheTruth
    /\ \A r \in Recordings : row[r] = "none" => disk[r] = "absent"
    /\ \A r, s \in Recordings : row[r] \in Open /\ row[s] \in Open => r = s
    /\ \A r, s \in Recordings :
         row[r] \in Live /\ row[s] \in Live /\ planOf[r] = planOf[s] => r = s

\* A receipt names a settled recording of its plan.
ReceiptInv ==
    \A p \in Plans : receipt[p] # NoRecording =>
        planOf[receipt[p]] = p /\ row[receipt[p]] = "cleaned"

\* Recovery has still to visit exactly the rows that are allocated.
RecoverInv ==
    /\ proc.pc \in {"recovering", "quarantined"} => proc.todo = InState("allocated")
    /\ proc.pc = "quarantined" => proc.current \in proc.todo

\* The capture in progress is the allocated row, and how far its directory is.
CaptureInv ==
    /\ proc.pc \in {"allocated", "writing", "finalized", "failing"} =>
         row[proc.current] = "allocated" /\ planOf[proc.current] = proc.goal
    /\ proc.pc = "allocated" => disk[proc.current] = "absent"
    /\ proc.pc = "finalized" => disk[proc.current] = "final"

\* Once recovery and the capture are over no row is allocated; the row at hand is
\* the only one, and it is in the state in which the loop has selected it.
ReconcileInv ==
    /\ proc.pc \in {"cleanups", "cleaning", "publications", "publishing", "published",
                    "ready", "settled"} => NothingAllocated
    /\ proc.pc = "cleanups" => \A r \in proc.todo : row[r] = "acknowledged"
    /\ proc.pc = "publications" => \A r \in proc.todo : row[r] = "complete"
    /\ proc.pc \in {"cleaning", "publishing", "published"} => proc.todo = {}
    /\ proc.pc = "cleaning" => row[proc.current] = "acknowledged"
    /\ proc.pc \in {"publishing", "published"} =>
         row[proc.current] = "complete" /\ proc.loop = "publications"
    /\ proc.pc = "published" => proc.current \in catalog

\* Unless something was put off, the reconciler misses no row: an open row is
\* the one at hand or still to be visited, or the limit leaves room for it.
CoverInv ==
    /\ ~proc.deferred =>
         /\ proc.pc = "cleanups" =>
              \A r \in Recordings : row[r] \in Open =>
                  r \in proc.todo \/ (row[r] = "complete" /\ proc.todo = {} /\ proc.quota >= 1)
         /\ proc.pc = "publications" =>
              \A r \in Recordings : row[r] \in Open => r \in proc.todo
    /\ proc.pc \in {"ready", "settled"} => NothingOpen
    /\ proc.pc = "settled" => proc.goal \in Plans

ProcInv == RecoverInv /\ CaptureInv /\ ReconcileInv /\ CoverInv

Inv == TypeOK /\ RowInv /\ ReceiptInv /\ ProcInv

\* The fields of a process record.
Fields(p, pc, todo, current, goal, quota, loop, deferred) ==
    /\ p.pc = pc /\ p.todo = todo /\ p.current = current /\ p.goal = goal
    /\ p.quota = quota /\ p.loop = loop /\ p.deferred = deferred

stores == <<row, planOf, disk, catalog, receipt>>

-----------------------------------------------------------------------------
(* Selections and sets of at most one element.                             *)

\* A set without two distinct elements has at most one.
LEMMA AtMostOne ==
    ASSUME NEW S, \A x, y \in S : x = y
    PROVE  /\ IsFiniteSet(S) /\ Cardinality(S) \in {0, 1}
           /\ Cardinality(S) = 0 <=> S = {}
  <1>1. CASE S = {}
    BY <1>1, FS_EmptySet
  <1>2. CASE S # {}
    <2>1. PICK x : S = {x}
      BY <1>2
    <2>2. IsFiniteSet(S) /\ Cardinality(S) = 1
      BY <2>1, FS_Singleton
    <2> QED BY <2>2, <1>2
  <1> QED BY <1>1, <1>2

\* A SELECT with a limit returns no more than the limit, and of at most one row
\* it returns all.
LEMMA SelectionTakesAll ==
    ASSUME NEW rows, \A x, y \in rows : x = y, NEW n \in Nat, NEW s \in Selection(rows, n)
    PROVE  /\ s \subseteq rows
           /\ Cardinality(s) \in Nat /\ Cardinality(s) <= n
           /\ n >= 1 => s = rows
           /\ s = {} => Cardinality(s) = 0
  <1>1. s \subseteq rows /\ Cardinality(s) = IF Cardinality(rows) < n THEN Cardinality(rows) ELSE n
    BY DEF Selection
  <1>2. /\ IsFiniteSet(rows) /\ Cardinality(rows) \in {0, 1}
        /\ Cardinality(rows) = 0 <=> rows = {}
    BY AtMostOne
  <1>3. /\ IsFiniteSet(s) /\ Cardinality(s) \in Nat
        /\ Cardinality(s) = Cardinality(rows) => s = rows
    BY <1>1, <1>2, FS_Subset, FS_CardinalityType
  <1>4. s = {} => Cardinality(s) = 0
    BY FS_EmptySet
  <1> QED BY <1>1, <1>2, <1>3, <1>4

-----------------------------------------------------------------------------
(* What a step does to the stores.                                         *)

\* A step that leaves the stores alone leaves what they say alone.
LEMMA StoresKept ==
    ASSUME RowInv, ReceiptInv, UNCHANGED stores
    PROVE  RowInv' /\ ReceiptInv'
  BY DEF stores, RowInv, ReceiptInv, RowsTellTheTruth

\* One row changes its state: it may not be opened or revived, and what it says
\* now must be so (record_complete, record_failure, acknowledge, mark_cleaned).
LEMMA RowMoves ==
    ASSUME TypeOK, RowInv, ReceiptInv, NEW c \in Recordings, NEW x \in SpoolState \ {"none"},
           row' = [row EXCEPT ![c] = x], UNCHANGED <<planOf, disk, catalog, receipt>>,
           row[c] \in Open, x = "complete" => disk[c] = "final",
           x = "acknowledged" => c \in catalog,
           x = "cleaned" => c \in catalog /\ disk[c] = "absent"
    PROVE  RowInv' /\ ReceiptInv'
  <1>1. row \in [Recordings -> SpoolState]
    BY DEF TypeOK
  <1>2. RowInv'
    BY <1>1 DEF RowInv, RowsTellTheTruth, Open, Live, Durable, SpoolState
  <1>3. ReceiptInv'
    BY <1>1 DEF ReceiptInv, TypeOK, Open
  <1> QED BY <1>2, <1>3

\* One directory changes: that of an allocated or an acknowledged row.
LEMMA DirectoryMoves ==
    ASSUME TypeOK, RowInv, ReceiptInv, NEW c \in Recordings, NEW d,
           disk' = [disk EXCEPT ![c] = d], UNCHANGED <<row, planOf, catalog, receipt>>,
           row[c] \in {"allocated", "acknowledged"}
    PROVE  RowInv' /\ ReceiptInv'
  <1>1. disk \in [Recordings -> DiskState]
    BY DEF TypeOK
  <1>2. RowInv'
    BY <1>1 DEF RowInv, RowsTellTheTruth
  <1>3. ReceiptInv'
    BY DEF ReceiptInv
  <1> QED BY <1>2, <1>3

\* A process that is down has nothing to keep.
LEMMA DownHolds ==
    ASSUME proc' = Down
    PROVE  proc' \in Process /\ proc'.pc = "down" /\ ProcInv'
  <1>1. proc'.pc = "down" /\ proc' \in Process
    BY DEF Down, Process, ProcessState, NoRecording
  <1> QED BY <1>1 DEF ProcInv, RecoverInv, CaptureInv, ReconcileInv, CoverInv

-----------------------------------------------------------------------------
(* Start and recovery.                                                     *)

\* Recovery begins with every allocated row (start).
LEMMA StartKeeps ==
    ASSUME Inv, Start
    PROVE  Inv'
  <1>1. /\ proc' \in Process
        /\ Fields(proc', "recovering", InState("allocated"), NoRecording, NoPlan, 0, "cleanups", FALSE)
    BY DEF Start, Down, Fields, Process, ProcessState, InState, NoRecording
  <1>2. UNCHANGED stores
    BY DEF Start, stores
  <1>3. TypeOK'
    BY <1>1, <1>2 DEF Inv, TypeOK, Fields, stores
  <1>4. ProcInv'
    BY <1>1, <1>2 DEF Fields, ProcInv, RecoverInv, CaptureInv, ReconcileInv, CoverInv, InState, stores
  <1> QED BY <1>2, <1>3, <1>4, StoresKept DEF Inv

\* _recover completes the row of a finalized pair and moves anything less aside.
LEMMA RecoverKeeps ==
    ASSUME Inv, NEW r \in Recordings, Recover(r)
    PROVE  Inv'
  <1>0. /\ proc \in Process /\ proc.pc = "recovering" /\ r \in proc.todo
        /\ proc.todo = InState("allocated") /\ row[r] = "allocated"
        /\ row \in [Recordings -> SpoolState] /\ disk \in [Recordings -> DiskState]
    BY DEF Inv, TypeOK, Recover, ProcInv, RecoverInv, InState
  <1>1. CASE disk[r] = "final"
    <2>1. /\ row' = [row EXCEPT ![r] = "complete"] /\ UNCHANGED <<planOf, disk, catalog, receipt>>
          /\ proc' = [proc EXCEPT !.todo = proc.todo \ {r}]
      BY <1>1 DEF Recover
    <2>2. /\ proc' \in Process
          /\ Fields(proc', "recovering", proc.todo \ {r}, proc.current, proc.goal, proc.quota,
                    proc.loop, proc.deferred)
      BY <1>0, <2>1 DEF Process, Fields
    <2>3. TypeOK'
      BY <2>1, <2>2 DEF Inv, TypeOK, Fields, SpoolState
    <2>4. RowInv' /\ ReceiptInv'
      BY <1>0, <1>1, <2>1, RowMoves DEF Inv, Open, SpoolState
    <2>5. ProcInv'
      BY <1>0, <2>1, <2>2 DEF Fields, ProcInv, RecoverInv, CaptureInv, ReconcileInv, CoverInv, InState
    <2> QED BY <2>3, <2>4, <2>5 DEF Inv
  <1>2. CASE disk[r] # "final"
    <2> DEFINE d == IF disk[r] = "partial" THEN "quarantined" ELSE disk[r]
    <2>1. /\ disk' = [disk EXCEPT ![r] = d] /\ UNCHANGED <<row, planOf, catalog, receipt>>
          /\ proc' = [proc EXCEPT !.pc = "quarantined", !.current = r]
      BY <1>2 DEF Recover
    <2>d. d \in DiskState
      BY <1>0 DEF DiskState
    <2> HIDE DEF d
    <2>2. /\ proc' \in Process
          /\ Fields(proc', "quarantined", proc.todo, r, proc.goal, proc.quota,
                    proc.loop, proc.deferred)
      BY <1>0, <2>1 DEF Process, Fields, ProcessState
    <2>3. TypeOK'
      BY <1>0, <2>1, <2>2, <2>d DEF Inv, TypeOK, Fields
    <2>4. RowInv' /\ ReceiptInv'
      BY <1>0, <2>1, DirectoryMoves DEF Inv
    <2>5. ProcInv'
      BY <1>0, <2>1, <2>2 DEF Fields, ProcInv, RecoverInv, CaptureInv, ReconcileInv, CoverInv, InState
    <2> QED BY <2>3, <2>4, <2>5 DEF Inv
  <1> QED BY <1>1, <1>2

\* record_failure in _recover takes the row off the list.
LEMMA FailRecoveredKeeps ==
    ASSUME Inv, FailRecovered
    PROVE  Inv'
  <1> DEFINE c == proc.current
  <1>0. /\ proc \in Process /\ proc.pc = "quarantined" /\ proc.todo = InState("allocated")
        /\ c \in Recordings /\ row[c] = "allocated" /\ row \in [Recordings -> SpoolState]
    BY DEF Inv, TypeOK, FailRecovered, ProcInv, RecoverInv, InState
  <1>1. row' = [row EXCEPT ![c] = "failed"] /\ UNCHANGED <<planOf, disk, catalog, receipt>>
    BY DEF FailRecovered
  <1>2. /\ proc' \in Process
        /\ Fields(proc', "recovering", proc.todo \ {c}, NoRecording, proc.goal, proc.quota,
                  proc.loop, proc.deferred)
    BY <1>0 DEF FailRecovered, Process, Fields, ProcessState, NoRecording
  <1>3. TypeOK'
    BY <1>1, <1>2 DEF Inv, TypeOK, Fields, SpoolState
  <1>4. RowInv' /\ ReceiptInv'
    BY <1>0, <1>1, RowMoves DEF Inv, Open, SpoolState
  <1>5. ProcInv'
    BY <1>0, <1>1, <1>2 DEF Fields, ProcInv, RecoverInv, CaptureInv, ReconcileInv, CoverInv, InState
  <1> QED BY <1>3, <1>4, <1>5 DEF Inv

-----------------------------------------------------------------------------
(* PublicationReconciler.reconcile.                                        *)

\* The beginning of reconcile: with at most one row to clean up it selects all
\* there is, and with none the whole limit is left for publications.
LEMMA ReconcileBegins ==
    ASSUME TypeOK, RowInv, NEW p \in Plans \cup {NoPlan}, Reconcile(p)
    PROVE  /\ proc' \in Process
           /\ Fields(proc', "cleanups", InState("acknowledged"), NoRecording, p, proc'.quota,
                     "cleanups", FALSE)
           /\ InState("acknowledged") = {} => proc'.quota >= 1
  <1> USE SpoolAssumption
  <1>1. PICK batch \in Selection(InState("acknowledged"), ReconcileLimit) :
          proc' = [Down EXCEPT !.pc = "cleanups", !.todo = batch, !.goal = p,
                               !.quota = Quota(batch)]
    BY DEF Reconcile
  <1>2. \A x, y \in InState("acknowledged") : x = y
    BY DEF RowInv, InState, Open
  <1>3. /\ batch = InState("acknowledged")
        /\ Cardinality(batch) \in Nat /\ Cardinality(batch) <= ReconcileLimit
        /\ batch = {} => Cardinality(batch) = 0
    BY <1>2, SelectionTakesAll
  <1>4. Quota(batch) \in Nat /\ (batch = {} => Quota(batch) >= 1)
    BY <1>3 DEF Quota
  <1>5. batch \subseteq Recordings
    BY <1>3 DEF InState
  <1>6. proc' \in Process
    BY <1>1, <1>4, <1>5 DEF Process, ProcessState, Down, NoRecording
  <1>7. Fields(proc', "cleanups", batch, NoRecording, p, Quota(batch), "cleanups", FALSE)
    BY <1>1 DEF Fields, Down
  <1> QED BY <1>3, <1>4, <1>6, <1>7 DEF Fields

\* A reconciliation that starts without an allocated row, and with no open row
\* but those it selects or one complete row, keeps the invariant of the process.
LEMMA ReconcileCovers ==
    ASSUME TypeOK, RowInv, RowInv', NEW p \in Plans \cup {NoPlan}, Reconcile(p),
           NothingAllocated', InState("acknowledged")' = InState("acknowledged")
    PROVE  ProcInv'
  <1>1. /\ Fields(proc', "cleanups", InState("acknowledged"), NoRecording, p, proc'.quota,
                  "cleanups", FALSE)
        /\ InState("acknowledged") = {} => proc'.quota >= 1
    BY ReconcileBegins
  <1>2. \A r \in proc'.todo : row'[r] = "acknowledged"
    BY <1>1 DEF Fields, InState
  <1>3. ASSUME NEW r \in Recordings, row'[r] \in Open
        PROVE  r \in proc'.todo \/ (row'[r] = "complete" /\ proc'.todo = {} /\ proc'.quota >= 1)
    <2>1. CASE row'[r] = "acknowledged"
      BY <1>1, <2>1 DEF Fields, InState
    <2>2. CASE row'[r] = "complete"
      <3>1. InState("acknowledged")' = {}
        BY <2>2 DEF RowInv, InState, Open
      <3> QED BY <1>1, <2>2, <3>1 DEF Fields
    <2> QED BY <1>3, <2>1, <2>2 DEF Open, NothingAllocated
  <1> QED BY <1>1, <1>2, <1>3 DEF Fields, ProcInv, RecoverInv, CaptureInv, ReconcileInv, CoverInv

\* reconcile at the end of start().
LEMMA ReconcileAtStartKeeps ==
    ASSUME Inv, ReconcileAtStart
    PROVE  Inv'
  <1>1. UNCHANGED stores /\ Reconcile(NoPlan) /\ proc.pc = "recovering" /\ proc.todo = {}
    BY DEF ReconcileAtStart, stores
  <1>2. RowInv' /\ ReceiptInv'
    BY <1>1, StoresKept DEF Inv
  <1>3. NothingAllocated' /\ InState("acknowledged")' = InState("acknowledged")
    BY <1>1 DEF Inv, ProcInv, RecoverInv, InState, NothingAllocated, stores
  <1>4. ProcInv'
    BY <1>1, <1>2, <1>3, ReconcileCovers DEF Inv
  <1>5. proc' \in Process /\ proc'.pc = "cleanups"
    BY <1>1, ReconcileBegins DEF Inv, Fields
  <1>6. TypeOK'
    BY <1>1, <1>5 DEF Inv, TypeOK, stores
  <1> QED BY <1>2, <1>4, <1>6 DEF Inv

\* The loop over the cleanups takes its row, which is the only one.
LEMMA NextCleanupKeeps ==
    ASSUME Inv, NEW r \in Recordings, NextCleanup(r)
    PROVE  Inv'
  <1>0. /\ proc \in Process /\ proc.pc = "cleanups" /\ r \in proc.todo
        /\ row[r] = "acknowledged" /\ proc.todo \subseteq Recordings
        /\ \A q \in proc.todo : row[q] = "acknowledged"
    BY DEF Inv, TypeOK, Process, NextCleanup, ProcInv, ReconcileInv
  <1>1. UNCHANGED stores
    BY DEF NextCleanup, stores
  <1>2. proc.todo \ {r} = {}
    BY <1>0 DEF Inv, RowInv, Open
  <1>3. /\ proc' \in Process
        /\ Fields(proc', "cleaning", {}, r, proc.goal, proc.quota, "cleanups", proc.deferred)
    BY <1>0, <1>2 DEF NextCleanup, Process, ProcessState, Fields
  <1>4. TypeOK'
    BY <1>1, <1>3 DEF Inv, TypeOK, Fields, stores
  <1>5. ProcInv'
    BY <1>0, <1>1, <1>3 DEF Inv, Fields, ProcInv, RecoverInv, CaptureInv, ReconcileInv, CoverInv, NothingAllocated, stores
  <1> QED BY <1>1, <1>4, <1>5, StoresKept DEF Inv

\* cleanup removes the pair and the directory of an acknowledged row.
LEMMA CleanupKeeps ==
    ASSUME Inv, Unlink \/ RemoveDirectory
    PROVE  Inv'
  <1> DEFINE c == proc.current
  <1>0. /\ proc.pc = "cleaning" /\ c \in Recordings /\ row[c] = "acknowledged"
    BY DEF Inv, TypeOK, Unlink, RemoveDirectory, ProcInv, ReconcileInv
  <1>1. PICK d \in DiskState : disk' = [disk EXCEPT ![c] = d]
    BY DEF Unlink, RemoveDirectory, DiskState
  <1>2. UNCHANGED <<row, planOf, catalog, receipt, proc>>
    BY DEF Unlink, RemoveDirectory
  <1>3. TypeOK'
    BY <1>1, <1>2 DEF Inv, TypeOK
  <1>4. RowInv' /\ ReceiptInv'
    BY <1>0, <1>1, <1>2, DirectoryMoves DEF Inv
  <1>5. ProcInv'
    BY <1>0, <1>2 DEF Inv, Fields, ProcInv, RecoverInv, CaptureInv, ReconcileInv, CoverInv, NothingAllocated, NothingOpen
  <1> QED BY <1>3, <1>4, <1>5 DEF Inv

\* mark_cleaned settles the only open row.
LEMMA MarkCleanedKeeps ==
    ASSUME Inv, MarkCleaned
    PROVE  Inv'
  <1> DEFINE c == proc.current
  <1>0. /\ proc \in Process /\ proc.pc = "cleaning" /\ c \in Recordings
        /\ row[c] = "acknowledged" /\ disk[c] = "absent" /\ proc.todo = {}
        /\ row \in [Recordings -> SpoolState] /\ c \in catalog
    BY DEF Inv, TypeOK, MarkCleaned, ProcInv, ReconcileInv, RowInv, RowsTellTheTruth
  <1>1. row' = [row EXCEPT ![c] = "cleaned"] /\ UNCHANGED <<planOf, disk, catalog, receipt>>
    BY DEF MarkCleaned
  <1>2. /\ proc' \in Process /\ proc.loop \in {"cleanups", "publications"}
        /\ Fields(proc', proc.loop, {}, NoRecording, proc.goal, proc.quota, proc.loop, proc.deferred)
    BY <1>0 DEF MarkCleaned, Process, ProcessState, Fields, NoRecording
  <1>3. TypeOK'
    BY <1>1, <1>2 DEF Inv, TypeOK, Fields, SpoolState
  <1>4. RowInv' /\ ReceiptInv'
    BY <1>0, <1>1, RowMoves DEF Inv, Open, SpoolState
  <1>5. NothingOpen'
    BY <1>0, <1>1 DEF Inv, RowInv, NothingOpen, Open
  <1>6. ProcInv'
    BY <1>2, <1>5 DEF Fields, ProcInv, RecoverInv, CaptureInv, ReconcileInv, CoverInv, NothingOpen, NothingAllocated, Open
  <1> QED BY <1>3, <1>4, <1>6 DEF Inv

\* A cleanup that raises is counted, and the loop goes on.
LEMMA CleanupDeferredKeeps ==
    ASSUME Inv, CleanupDeferred
    PROVE  Inv'
  <1>0. proc \in Process /\ proc.pc = "cleaning" /\ proc.todo = {} /\ NothingAllocated
    BY DEF Inv, TypeOK, CleanupDeferred, ProcInv, ReconcileInv
  <1>1. UNCHANGED stores
    BY DEF CleanupDeferred, stores
  <1>2. /\ proc' \in Process /\ proc.loop \in {"cleanups", "publications"}
        /\ Fields(proc', proc.loop, {}, NoRecording, proc.goal, proc.quota, proc.loop, TRUE)
    BY <1>0 DEF CleanupDeferred, Process, ProcessState, Fields, NoRecording
  <1>3. TypeOK'
    BY <1>1, <1>2 DEF Inv, TypeOK, Fields, stores
  <1>4. ProcInv'
    BY <1>0, <1>1, <1>2 DEF Fields, ProcInv, RecoverInv, CaptureInv, ReconcileInv, CoverInv, NothingAllocated, stores
  <1> QED BY <1>1, <1>3, <1>4, StoresKept DEF Inv

\* The publications are selected: a complete row is the only open one, and the
\* cleanups have left at least one of the limit for it.
LEMMA SelectPublicationsKeeps ==
    ASSUME Inv, SelectPublications
    PROVE  Inv'
  <1>0. /\ proc \in Process /\ proc.pc = "cleanups" /\ proc.todo = {} /\ NothingAllocated
        /\ proc.quota \in Nat
    BY DEF Inv, TypeOK, Process, SelectPublications, ProcInv, ReconcileInv
  <1>1. UNCHANGED stores
    BY DEF SelectPublications, stores
  <1>2. PICK batch \in Selection(InState("complete"), proc.quota) :
          proc' = [proc EXCEPT !.pc = "publications", !.todo = batch]
    BY DEF SelectPublications
  <1>3. \A x, y \in InState("complete") : x = y
    BY DEF Inv, RowInv, InState, Open
  <1>4. batch \subseteq InState("complete") /\ (proc.quota >= 1 => batch = InState("complete"))
    BY <1>0, <1>3, SelectionTakesAll
  <1>5. batch \subseteq Recordings
    BY <1>4 DEF InState
  <1>6. /\ proc' \in Process
        /\ Fields(proc', "publications", batch, proc.current, proc.goal, proc.quota, proc.loop,
                  proc.deferred)
    BY <1>0, <1>2, <1>5 DEF Process, ProcessState, Fields
  <1>7. TypeOK'
    BY <1>1, <1>6 DEF Inv, TypeOK, Fields, stores
  <1>8. ~proc.deferred => \A r \in Recordings : row[r] \in Open => r \in batch
    BY <1>0, <1>4 DEF Inv, ProcInv, CoverInv, InState
  <1>9. ProcInv'
    BY <1>0, <1>1, <1>4, <1>6, <1>8 DEF Fields, ProcInv, RecoverInv, CaptureInv, ReconcileInv, CoverInv, NothingAllocated, InState, stores
  <1> QED BY <1>1, <1>7, <1>9, StoresKept DEF Inv

\* The loop over the publications takes its row, which is the only one.
LEMMA NextPublicationKeeps ==
    ASSUME Inv, NEW r \in Recordings, NextPublication(r)
    PROVE  Inv'
  <1>0. /\ proc \in Process /\ proc.pc = "publications" /\ r \in proc.todo
        /\ row[r] = "complete" /\ proc.todo \subseteq Recordings
        /\ \A q \in proc.todo : row[q] = "complete"
    BY DEF Inv, TypeOK, Process, NextPublication, ProcInv, ReconcileInv
  <1>1. UNCHANGED stores
    BY DEF NextPublication, stores
  <1>2. proc.todo \ {r} = {}
    BY <1>0 DEF Inv, RowInv, Open
  <1>3. /\ proc' \in Process
        /\ Fields(proc', "publishing", {}, r, proc.goal, proc.quota, "publications", proc.deferred)
    BY <1>0, <1>2 DEF NextPublication, Process, ProcessState, Fields
  <1>4. TypeOK'
    BY <1>1, <1>3 DEF Inv, TypeOK, Fields, stores
  <1>5. ProcInv'
    BY <1>0, <1>1, <1>3 DEF Inv, Fields, ProcInv, RecoverInv, CaptureInv, ReconcileInv, CoverInv, NothingAllocated, stores
  <1> QED BY <1>1, <1>4, <1>5, StoresKept DEF Inv

\* The publisher commits the row at hand.
LEMMA PublishCommitsKeeps ==
    ASSUME Inv, PublishCommits
    PROVE  Inv'
  <1>0. /\ proc \in Process /\ proc.pc = "publishing" /\ proc.current \in Recordings
        /\ row[proc.current] = "complete" /\ proc.todo = {}
        /\ proc.loop = "publications" /\ NothingAllocated
    BY DEF Inv, TypeOK, PublishCommits, ProcInv, ReconcileInv
  <1>1. catalog' = catalog \cup {proc.current} /\ UNCHANGED <<row, planOf, disk, receipt>>
    BY DEF PublishCommits
  <1>2. /\ proc' \in Process
        /\ Fields(proc', "published", {}, proc.current, proc.goal, proc.quota, "publications",
                  proc.deferred)
    BY <1>0 DEF PublishCommits, Process, ProcessState, Fields
  <1>3. TypeOK'
    BY <1>0, <1>1, <1>2 DEF Inv, TypeOK, Fields
  <1>4. RowInv' /\ ReceiptInv'
    BY <1>1 DEF Inv, RowInv, RowsTellTheTruth, ReceiptInv
  <1>5. ProcInv'
    BY <1>0, <1>1, <1>2 DEF Fields, ProcInv, RecoverInv, CaptureInv, ReconcileInv, CoverInv, NothingAllocated
  <1> QED BY <1>3, <1>4, <1>5 DEF Inv

\* A publication that raises is put off.
LEMMA PublicationDeferredKeeps ==
    ASSUME Inv, PublicationDeferred
    PROVE  Inv'
  <1>0. /\ proc \in Process /\ proc.pc \in {"publishing", "published"} /\ proc.todo = {}
        /\ NothingAllocated
    BY DEF Inv, TypeOK, PublicationDeferred, ProcInv, ReconcileInv
  <1>1. UNCHANGED stores
    BY DEF PublicationDeferred, stores
  <1>2. /\ proc' \in Process
        /\ Fields(proc', "publications", {}, NoRecording, proc.goal, proc.quota, proc.loop, TRUE)
    BY <1>0 DEF PublicationDeferred, Process, ProcessState, Fields, NoRecording
  <1>3. TypeOK'
    BY <1>1, <1>2 DEF Inv, TypeOK, Fields, stores
  <1>4. ProcInv'
    BY <1>0, <1>1, <1>2 DEF Fields, ProcInv, RecoverInv, CaptureInv, ReconcileInv, CoverInv, NothingAllocated, stores
  <1> QED BY <1>1, <1>3, <1>4, StoresKept DEF Inv

\* acknowledge: the row at hand is in the catalog.
LEMMA AcknowledgeKeeps ==
    ASSUME Inv, Acknowledge
    PROVE  Inv'
  <1> DEFINE c == proc.current
  <1>0. /\ proc \in Process /\ proc.pc = "published" /\ c \in Recordings
        /\ row[c] = "complete" /\ c \in catalog /\ proc.todo = {}
        /\ row \in [Recordings -> SpoolState] /\ NothingAllocated
    BY DEF Inv, TypeOK, Acknowledge, ProcInv, ReconcileInv
  <1>1. row' = [row EXCEPT ![c] = "acknowledged"] /\ UNCHANGED <<planOf, disk, catalog, receipt>>
    BY DEF Acknowledge
  <1>2. /\ proc' \in Process
        /\ Fields(proc', "cleaning", {}, c, proc.goal, proc.quota, proc.loop, proc.deferred)
    BY <1>0 DEF Acknowledge, Process, ProcessState, Fields
  <1>3. TypeOK'
    BY <1>0, <1>1, <1>2 DEF Inv, TypeOK, Fields, SpoolState
  <1>4. RowInv' /\ ReceiptInv'
    BY <1>0, <1>1, RowMoves DEF Inv, Open, SpoolState
  <1>5. ProcInv'
    BY <1>0, <1>1, <1>2 DEF Fields, ProcInv, RecoverInv, CaptureInv, ReconcileInv, CoverInv, NothingAllocated
  <1> QED BY <1>3, <1>4, <1>5 DEF Inv

\* The end of reconcile: with nothing put off there is nothing open.
LEMMA EndReconcileKeeps ==
    ASSUME Inv, EndReconcile
    PROVE  Inv'
  <1> DEFINE p == proc.goal
             next == IF p = NoPlan THEN "ready" ELSE "settled"
  <1>0. /\ proc.pc = "publications" /\ proc.todo = {} /\ p \in Plans \cup {NoPlan}
        /\ UNCHANGED stores
    BY DEF Inv, TypeOK, Process, EndReconcile, Reconciled, stores
  <1>1. CASE proc' = Down
    <2>1. proc' \in Process /\ proc'.pc = "down" /\ ProcInv'
      BY <1>1, DownHolds
    <2>2. TypeOK'
      BY <1>0, <2>1 DEF Inv, TypeOK, stores
    <2> QED BY <1>0, <2>1, <2>2, StoresKept DEF Inv
  <1>2. CASE proc' = [Down EXCEPT !.pc = next, !.goal = p] /\ ~proc.deferred
    <2>1. NothingOpen
      BY <1>0, <1>2 DEF Inv, ProcInv, CoverInv, NothingOpen
    <2>2. /\ proc' \in Process
          /\ Fields(proc', next, {}, NoRecording, p, 0, "cleanups", FALSE)
      BY <1>0, <1>2 DEF Process, ProcessState, Fields, Down, NoRecording
    <2>3. TypeOK'
      BY <1>0, <2>2 DEF Inv, TypeOK, Fields, stores
    <2>4. ProcInv'
      BY <1>0, <2>1, <2>2 DEF Fields, ProcInv, RecoverInv, CaptureInv, ReconcileInv, CoverInv, NothingOpen, NothingAllocated, Open, stores
    <2> QED BY <1>0, <2>3, <2>4, StoresKept DEF Inv
  <1> QED BY <1>1, <1>2 DEF EndReconcile, Reconciled

-----------------------------------------------------------------------------
(* V5DwellSupervisor.process and the capture.                              *)

\* A replayed plan is only reconciled, and there is nothing to reconcile.
LEMMA ProcessReplayKeeps ==
    ASSUME Inv, NEW p \in Plans, ProcessReplay(p)
    PROVE  Inv'
  <1>1. UNCHANGED stores /\ Reconcile(p) /\ proc.pc = "ready"
    BY DEF ProcessReplay, stores
  <1>2. RowInv' /\ ReceiptInv'
    BY <1>1, StoresKept DEF Inv
  <1>3. NothingAllocated' /\ InState("acknowledged")' = InState("acknowledged")
    BY <1>1 DEF Inv, ProcInv, ReconcileInv, InState, NothingAllocated, stores
  <1>4. ProcInv'
    BY <1>1, <1>2, <1>3, ReconcileCovers DEF Inv
  <1>5. proc' \in Process /\ proc'.pc = "cleanups"
    BY <1>1, ReconcileBegins DEF Inv, Fields
  <1>6. TypeOK'
    BY <1>1, <1>5 DEF Inv, TypeOK, stores
  <1> QED BY <1>2, <1>4, <1>6 DEF Inv

\* The engine allocates a row where none is open and none of the plan is durable.
LEMMA ProcessCaptureKeeps ==
    ASSUME Inv, NEW p \in Plans, ProcessCapture(p)
    PROVE  Inv'
  <1>0. /\ proc.pc = "ready" /\ NothingOpen /\ DurableOf(p) = {}
        /\ row \in [Recordings -> SpoolState] /\ planOf \in [Recordings -> Plans \cup {NoPlan}]
    BY DEF Inv, TypeOK, ProcessCapture, DurableForPlan, ProcInv, CoverInv
  <1>1. PICK r \in Recordings :
          /\ row[r] = "none"
          /\ row' = [row EXCEPT ![r] = "allocated"]
          /\ planOf' = [planOf EXCEPT ![r] = p]
          /\ proc' = [Down EXCEPT !.pc = "allocated", !.current = r, !.goal = p]
    BY DEF ProcessCapture
  <1>2. UNCHANGED <<disk, catalog, receipt>>
    BY DEF ProcessCapture
  <1>3. /\ proc' \in Process
        /\ Fields(proc', "allocated", {}, r, p, 0, "cleanups", FALSE)
    BY <1>1 DEF Process, ProcessState, Fields, Down
  <1>4. TypeOK'
    BY <1>1, <1>2, <1>3 DEF Inv, TypeOK, Fields, SpoolState
  <1>5. /\ row'[r] = "allocated" /\ planOf'[r] = p
        /\ \A q \in Recordings : q # r => row'[q] = row[q] /\ planOf'[q] = planOf[q]
    BY <1>0, <1>1
  <1>6. \A q \in Recordings : ~(row[q] \in Live /\ planOf[q] = p)
    BY <1>0 DEF NothingOpen, Open, Live, Durable, DurableOf
  <1>7. RowInv'
    <2>1. RowsTellTheTruth' /\ \A q \in Recordings : row'[q] = "none" => disk'[q] = "absent"
      BY <1>2, <1>5 DEF Inv, RowInv, RowsTellTheTruth
    <2>2. \A q, s \in Recordings : row'[q] \in Open /\ row'[s] \in Open => q = s
      BY <1>0, <1>5 DEF NothingOpen
    <2>3. \A q, s \in Recordings :
            row'[q] \in Live /\ row'[s] \in Live /\ planOf'[q] = planOf'[s] => q = s
      BY <1>5, <1>6 DEF Inv, RowInv
    <2> QED BY <2>1, <2>2, <2>3 DEF RowInv
  <1>8. ReceiptInv'
    BY <1>1, <1>2, <1>5 DEF Inv, ReceiptInv, TypeOK
  <1>9. ProcInv'
    BY <1>1, <1>2, <1>3, <1>5 DEF Inv, RowInv, Fields, ProcInv, RecoverInv, CaptureInv, ReconcileInv, CoverInv
  <1> QED BY <1>4, <1>7, <1>8, <1>9 DEF Inv

\* RecordingWriter.begin, finalize, and an error of the capture: the directory of
\* the allocated row changes, the row does not.
LEMMA CaptureKeeps ==
    ASSUME Inv, BeginWriting \/ Finalize \/ CaptureError
    PROVE  Inv'
  <1> DEFINE c == proc.current
  <1>0. /\ proc \in Process /\ c \in Recordings /\ row[c] = "allocated"
        /\ planOf[c] = proc.goal /\ proc.goal \in Plans /\ disk \in [Recordings -> DiskState]
    BY DEF Inv, TypeOK, ProcInv, CaptureInv, BeginWriting, Finalize, CaptureError
  <1>1. PICK d \in DiskState, pc \in {"writing", "finalized", "failing"} :
          /\ disk' = [disk EXCEPT ![c] = d] /\ proc' = [proc EXCEPT !.pc = pc]
          /\ pc = "finalized" => d = "final"
    <2>1. CASE BeginWriting
      BY <2>1 DEF BeginWriting, DiskState
    <2>2. CASE Finalize
      BY <2>2 DEF Finalize, DiskState
    <2>3. CASE CaptureError
      <3> DEFINE e == IF disk[c] = "partial" THEN "absent" ELSE disk[c]
      <3>1. e \in DiskState
        BY <1>0 DEF DiskState
      <3>2. disk' = [disk EXCEPT ![c] = e] /\ proc' = [proc EXCEPT !.pc = "failing"]
        BY <2>3 DEF CaptureError
      <3> HIDE DEF e
      <3> QED BY <3>1, <3>2
    <2> QED BY <2>1, <2>2, <2>3
  <1>2. UNCHANGED <<row, planOf, catalog, receipt>>
    BY DEF BeginWriting, Finalize, CaptureError
  <1>3. /\ proc' \in Process
        /\ Fields(proc', pc, proc.todo, c, proc.goal, proc.quota, proc.loop, proc.deferred)
    BY <1>0, <1>1 DEF Process, ProcessState, Fields
  <1>4. TypeOK'
    BY <1>0, <1>1, <1>2, <1>3 DEF Inv, TypeOK, Fields
  <1>5. RowInv' /\ ReceiptInv'
    BY <1>0, <1>1, <1>2, DirectoryMoves DEF Inv
  <1>6. ProcInv'
    BY <1>0, <1>1, <1>2, <1>3 DEF Fields, ProcInv, RecoverInv, CaptureInv, ReconcileInv, CoverInv
  <1> QED BY <1>4, <1>5, <1>6 DEF Inv

\* record_complete: the allocated row becomes the one complete row that the
\* reconciliation begins with.
LEMMA RecordCompleteKeeps ==
    ASSUME Inv, RecordComplete
    PROVE  Inv'
  <1> DEFINE c == proc.current
  <1>0. /\ c \in Recordings /\ row[c] = "allocated" /\ disk[c] = "final"
        /\ proc.goal \in Plans /\ row \in [Recordings -> SpoolState]
    BY DEF Inv, TypeOK, ProcInv, CaptureInv, RecordComplete
  <1>1. /\ row' = [row EXCEPT ![c] = "complete"] /\ Reconcile(proc.goal)
        /\ UNCHANGED <<planOf, disk, catalog, receipt>>
    BY DEF RecordComplete
  <1>2. RowInv' /\ ReceiptInv'
    BY <1>0, <1>1, RowMoves DEF Inv, Open, SpoolState
  <1>3. NothingAllocated' /\ InState("acknowledged")' = InState("acknowledged")
    BY <1>0, <1>1 DEF Inv, RowInv, InState, NothingAllocated, Open
  <1>4. ProcInv'
    BY <1>0, <1>1, <1>2, <1>3, ReconcileCovers DEF Inv
  <1>5. proc' \in Process /\ proc'.pc = "cleanups"
    BY <1>0, <1>1, ReconcileBegins DEF Inv, Fields
  <1>6. TypeOK'
    BY <1>1, <1>5 DEF Inv, TypeOK, SpoolState
  <1> QED BY <1>2, <1>4, <1>6 DEF Inv

\* record_failure of the capture's row; the process leaves.
LEMMA RecordFailureKeeps ==
    ASSUME Inv, RecordFailure
    PROVE  Inv'
  <1> DEFINE c == proc.current
  <1>0. c \in Recordings /\ row[c] = "allocated"
    BY DEF Inv, TypeOK, ProcInv, CaptureInv, RecordFailure
  <1>1. /\ row' = [row EXCEPT ![c] = "failed"] /\ proc' = Down
        /\ UNCHANGED <<planOf, disk, catalog, receipt>>
    BY DEF RecordFailure
  <1>2. proc' \in Process /\ proc'.pc = "down" /\ ProcInv'
    BY <1>1, DownHolds
  <1>3. TypeOK'
    BY <1>1, <1>2 DEF Inv, TypeOK, SpoolState
  <1>4. RowInv' /\ ReceiptInv'
    BY <1>0, <1>1, RowMoves DEF Inv, Open, SpoolState
  <1> QED BY <1>2, <1>3, <1>4 DEF Inv

\* record_receipt: the plan's durable recording, which is settled as all are.
LEMMA RecordReceiptKeeps ==
    ASSUME Inv, RecordReceipt
    PROVE  Inv'
  <1> DEFINE p == proc.goal
  <1>0. proc.pc = "settled" /\ p \in Plans /\ NothingOpen
    BY DEF Inv, ProcInv, CoverInv, RecordReceipt
  <1>1. PICK r \in DurableOf(p) :
          /\ receipt' = IF receipt[p] = NoRecording THEN [receipt EXCEPT ![p] = r] ELSE receipt
          /\ proc' = IF receipt[p] \in {NoRecording, r} THEN [Down EXCEPT !.pc = "ready"] ELSE Down
    BY DEF RecordReceipt, DurableForPlan
  <1>2. UNCHANGED <<row, planOf, disk, catalog>>
    BY DEF RecordReceipt
  <1>3. r \in Recordings /\ planOf[r] = p /\ row[r] = "cleaned"
    BY <1>0 DEF DurableOf, NothingOpen, Open, Durable
  <1>4. proc' \in Process /\ proc'.pc \in {"ready", "down"}
    BY <1>1 DEF Down, Process, ProcessState, NoRecording
  <1>5. TypeOK'
    BY <1>0, <1>1, <1>2, <1>3, <1>4 DEF Inv, TypeOK
  <1>6. RowInv'
    BY <1>2 DEF Inv, RowInv, RowsTellTheTruth
  <1>7. ReceiptInv'
    BY <1>0, <1>1, <1>2, <1>3 DEF Inv, ReceiptInv, TypeOK
  <1>8. ProcInv'
    BY <1>0, <1>2, <1>4 DEF Fields, ProcInv, RecoverInv, CaptureInv, ReconcileInv, CoverInv, NothingOpen, NothingAllocated, Open
  <1> QED BY <1>5, <1>6, <1>7, <1>8 DEF Inv

\* The process is refused a request, or dies.
LEMMA LeavingKeeps ==
    ASSUME Inv, proc' = Down, UNCHANGED stores
    PROVE  Inv'
  <1>1. proc' \in Process /\ proc'.pc = "down" /\ ProcInv'
    BY DownHolds
  <1>2. TypeOK'
    BY <1>1 DEF Inv, TypeOK, stores
  <1> QED BY <1>1, <1>2, StoresKept DEF Inv

-----------------------------------------------------------------------------
(* The theorems.                                                           *)

\* Inv is an inductive invariant of the specification.
THEOREM Invariance == Spec => []Inv
  <1>1. Init => Inv
    <2> SUFFICES ASSUME Init PROVE Inv
      OBVIOUS
    <2>1. proc \in Process /\ proc.pc = "down"
      BY DEF Init, Down, Process, ProcessState, NoRecording
    <2>2. TypeOK
      BY <2>1 DEF Init, TypeOK, SpoolState, DiskState
    <2>3. RowInv /\ ReceiptInv
      BY DEF Init, RowInv, ReceiptInv, RowsTellTheTruth, Open, Live, Durable
    <2>4. ProcInv
      BY <2>1 DEF ProcInv, RecoverInv, CaptureInv, ReconcileInv, CoverInv
    <2> QED BY <2>2, <2>3, <2>4 DEF Inv
  <1>2. Inv /\ [Next]_vars => Inv'
    <2> SUFFICES ASSUME Inv, [Next]_vars PROVE Inv'
      OBVIOUS
    <2>1. CASE StartStep
      BY <2>1, StartKeeps, RecoverKeeps, FailRecoveredKeeps, ReconcileAtStartKeeps DEF StartStep
    <2>2. CASE ReconcileStep
      BY <2>2, NextCleanupKeeps, NextPublicationKeeps, CleanupKeeps, MarkCleanedKeeps,
         SelectPublicationsKeeps, PublishCommitsKeeps, AcknowledgeKeeps, EndReconcileKeeps
      DEF ReconcileStep
    <2>3. CASE CaptureStep
      BY <2>3, CaptureKeeps, RecordCompleteKeeps, RecordFailureKeeps, RecordReceiptKeeps
      DEF CaptureStep
    <2>4. ASSUME NEW p \in Plans, ProcessReplay(p) \/ ProcessCapture(p) \/ ProcessRefused(p)
          PROVE  Inv'
      <3>1. ProcessRefused(p) => proc' = Down /\ UNCHANGED stores
        BY DEF ProcessRefused, stores
      <3> QED BY <2>4, <3>1, ProcessReplayKeeps, ProcessCaptureKeeps, LeavingKeeps
    <2>5. CASE CleanupDeferred \/ PublicationDeferred \/ CaptureError
      BY <2>5, CleanupDeferredKeeps, PublicationDeferredKeeps, CaptureKeeps
    <2>6. CASE Crash
      BY <2>6, LeavingKeeps DEF Crash, stores
    <2>7. CASE UNCHANGED vars
      BY <2>7 DEF vars, Inv, TypeOK, RowInv, RowsTellTheTruth, ReceiptInv, ProcInv, RecoverInv,
                  CaptureInv, ReconcileInv, CoverInv, NothingOpen, NothingAllocated, InState
    <2> QED BY <2>1, <2>2, <2>3, <2>4, <2>5, <2>6, <2>7 DEF Next
  <1> QED BY <1>1, <1>2, PTL DEF Spec

\* What the spool says is what there is (record_complete, acknowledge,
\* mark_cleaned against the local directory and the catalog).
THEOREM SpoolIsTruthful == Spec => []RowsTellTheTruth
  <1>1. Inv => RowsTellTheTruth
    BY DEF Inv, RowInv
  <1> QED BY <1>1, Invariance, PTL

\* A plan never has two durable recordings, whatever crashes, recovers and is
\* replayed: durable_recording_for_plan does not raise.
THEOREM OneRecordingPerPlan == Spec => []OneDurableRecordingPerPlan
  <1>1. Inv => OneDurableRecordingPerPlan
    <2> SUFFICES ASSUME Inv, NEW p \in Plans PROVE Cardinality(DurableOf(p)) <= 1
      BY DEF OneDurableRecordingPerPlan
    <2>1. \A x, y \in DurableOf(p) : x = y
      BY DEF Inv, RowInv, DurableOf, Live
    <2>2. Cardinality(DurableOf(p)) \in {0, 1}
      BY <2>1, AtMostOne
    <2> QED BY <2>2
  <1> QED BY <1>1, Invariance, PTL

\* A receipt names a recording that is published and cleaned, and a supervisor
\* that takes requests has no backlog, for every limit of the reconciler.
THEOREM AnswersAreSettled == Spec => []SettledBeforeAnswered
  <1>1. Inv => SettledBeforeAnswered
    <2> SUFFICES ASSUME Inv PROVE SettledBeforeAnswered
      OBVIOUS
    <2>1. proc.pc = "ready" => \A r \in Recordings : row[r] \in {"none", "failed", "cleaned"}
      BY DEF Inv, TypeOK, ProcInv, CoverInv, NothingOpen, Open, SpoolState
    <2> QED BY <2>1 DEF Inv, ReceiptInv, SettledBeforeAnswered
  <1> QED BY <1>1, Invariance, PTL

\* A finalized pair is touched only after its row is acknowledged and the
\* catalog has committed it (cleanup, _recover, begin, abort).
THEOREM BytesOutlivePublication == Spec => LocalBytesOutlivePublication
  <1>1. ASSUME Inv, [Next]_vars, NEW r \in Recordings, disk[r] = "final", disk'[r] # "final"
        PROVE  row[r] = "acknowledged" /\ r \in catalog
    <2>0. disk \in [Recordings -> DiskState]
      BY <1>1 DEF Inv, TypeOK
    <2>1. Unlink => proc.current = r
      BY <1>1, <2>0 DEF Unlink
    <2>2. ~RemoveDirectory /\ ~Finalize /\ ~CaptureError /\ \A q \in Recordings : ~Recover(q)
      BY <1>1, <2>0 DEF RemoveDirectory, Finalize, CaptureError, Recover
    <2>3. ~BeginWriting
      BY <1>1, <2>0 DEF BeginWriting, Inv, ProcInv, CaptureInv
    <2>4. ~UNCHANGED disk
      BY <1>1
    <2>5. ~StartStep
      BY <2>2, <2>4 DEF StartStep, Start, FailRecovered, ReconcileAtStart
    <2>6. ~CaptureStep
      BY <2>2, <2>3, <2>4 DEF CaptureStep, RecordComplete, RecordFailure, RecordReceipt
    <2>7. ReconcileStep => Unlink
      BY <2>2, <2>4 DEF ReconcileStep, NextCleanup, NextPublication, MarkCleaned,
                        SelectPublications, PublishCommits, Acknowledge, EndReconcile
    <2>8. ~\E p \in Plans : ProcessReplay(p) \/ ProcessCapture(p) \/ ProcessRefused(p)
      BY <2>4 DEF ProcessReplay, ProcessCapture, ProcessRefused
    <2>9. ~(CleanupDeferred \/ PublicationDeferred \/ Crash \/ UNCHANGED vars)
      BY <2>4 DEF CleanupDeferred, PublicationDeferred, Crash, vars
    <2>10. Unlink
      BY <1>1, <2>2, <2>5, <2>6, <2>7, <2>8, <2>9 DEF Next
    <2> QED BY <1>1, <2>1, <2>10 DEF Unlink, Inv, RowInv, RowsTellTheTruth, ProcInv, ReconcileInv
  <1>2. Inv /\ [Next]_vars =>
          [\A r \in Recordings : disk[r] = "final" /\ disk'[r] # "final"
             => row[r] = "acknowledged" /\ r \in catalog]_vars
    BY <1>1
  <1> QED BY <1>2, Invariance, PTL DEF Spec, LocalBytesOutlivePublication
=============================================================================
