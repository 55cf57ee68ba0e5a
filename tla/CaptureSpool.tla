---------------------------- MODULE CaptureSpool ----------------------------
(***************************************************************************)
(* The capture host: the SQLite spool, the local recording directories,    *)
(* the plan engine that fills them, the reconciler that publishes and      *)
(* cleans them, and the dwell supervisor that drives all of these for one  *)
(* request at a time.                                                      *)
(*                                                                         *)
(* The spool row, the local directory, the remote catalog and the          *)
(* supervisor's receipts are four stores that no transaction spans.  The   *)
(* process may die, or leave on an error, between any two writes; systemd  *)
(* starts it again.  The host lock admits one process at a time.           *)
(***************************************************************************)
EXTENDS Integers, FiniteSets

CONSTANTS
    Plans,
    NoPlan,
    ReconcileLimit,   \* limit of PublicationReconciler.reconcile
    MaxRetained,      \* maximum_retained_recordings
    MaxRecordings     \* bound: recordings ever allocated

ASSUME SpoolAssumption ==
    /\ NoPlan \notin Plans
    /\ ReconcileLimit \in Nat \ {0}
    /\ MaxRetained \in Nat \ {0}
    /\ MaxRecordings \in Nat

Recordings == 1..MaxRecordings
NoRecording == 0

VARIABLES
    row,        \* state column of the spool's recordings table
    planOf,     \* its plan_id column
    disk,       \* the recording's directory below the recording root
    catalog,    \* recordings the publisher has committed remotely
    receipt,    \* dwell_supervisor_receipts: plan -> recording
    proc        \* the supervisor process

vars == <<row, planOf, disk, catalog, receipt, proc>>

SpoolState == {"none", "allocated", "complete", "failed", "acknowledged", "cleaned"}
Durable == {"complete", "acknowledged", "cleaned"}

\* final.partial, the finalized pair, a pair that a cleanup has begun to
\* unlink, and a partial directory moved aside
DiskState == {"absent", "partial", "final", "gutted", "quarantined"}

ProcessState ==
    {"down", "recovering", "quarantined", "ready", "allocated", "writing",
     "finalized", "failing", "cleanups", "publications", "publishing",
     "published", "cleaning", "settled"}

\* todo: rows the current loop has still to visit; current: the one it is
\* at; goal: the plan whose request is being processed, NoPlan in start();
\* quota: what is left of the reconciler's limit; loop: the loop a cleanup
\* returns to; deferred: the reconciler has put something off.
Process == [pc : ProcessState, todo : SUBSET Recordings,
            current : Recordings \cup {NoRecording}, goal : Plans \cup {NoPlan},
            quota : Nat, loop : {"cleanups", "publications"}, deferred : BOOLEAN]

Down == [pc |-> "down", todo |-> {}, current |-> NoRecording, goal |-> NoPlan,
         quota |-> 0, loop |-> "cleanups", deferred |-> FALSE]

TypeOK ==
    /\ row \in [Recordings -> SpoolState]
    /\ planOf \in [Recordings -> Plans \cup {NoPlan}]
    /\ disk \in [Recordings -> DiskState]
    /\ catalog \subseteq Recordings
    /\ receipt \in [Plans -> Recordings \cup {NoRecording}]
    /\ proc \in Process
    /\ proc.pc \in {"quarantined", "allocated", "writing", "finalized", "failing",
                    "publishing", "published", "cleaning"}
         => proc.current \in Recordings
    /\ proc.pc \in {"allocated", "writing", "finalized", "failing"}
         => proc.goal \in Plans

Init ==
    /\ row = [r \in Recordings |-> "none"]
    /\ planOf = [r \in Recordings |-> NoPlan]
    /\ disk = [r \in Recordings |-> "absent"]
    /\ catalog = {}
    /\ receipt = [p \in Plans |-> NoRecording]
    /\ proc = Down

InState(s) == {r \in Recordings : row[r] = s}
DurableOf(p) == {r \in Recordings : planOf[r] = p /\ row[r] \in Durable}
DurableRows == {r \in Recordings : row[r] \in Durable}

\* The rows a SELECT ... LIMIT n returns.  Which of them come first is left
\* open; the code orders them by their timestamps.
Selection(rows, n) ==
    {s \in SUBSET rows : Cardinality(s) = IF Cardinality(rows) < n
                                          THEN Cardinality(rows) ELSE n}

-----------------------------------------------------------------------------
(* V5DwellSupervisor.start: host lock, recovery, reconciliation.           *)

Start ==
    /\ proc.pc = "down"
    /\ proc' = [Down EXCEPT !.pc = "recovering", !.todo = InState("allocated")]
    /\ UNCHANGED <<row, planOf, disk, catalog, receipt>>

\* Mutant: whatever stands in the directory counts as finalized.
RecoverUnchecked(r) ==
    /\ proc.pc = "recovering"
    /\ r \in proc.todo
    /\ row' = [row EXCEPT ![r] = "complete"]
    /\ proc' = [proc EXCEPT !.todo = @ \ {r}]
    /\ UNCHANGED <<planOf, disk, catalog, receipt>>

\* _recover: a finalized pair becomes a complete row, anything less is moved
\* aside before the row is failed.
Recover(r) ==
    /\ proc.pc = "recovering"
    /\ r \in proc.todo
    /\ \/ /\ disk[r] = "final"
          /\ row' = [row EXCEPT ![r] = "complete"]
          /\ proc' = [proc EXCEPT !.todo = @ \ {r}]
          /\ UNCHANGED disk
       \/ /\ disk[r] # "final"
          /\ disk' = [disk EXCEPT ![r] = IF @ = "partial" THEN "quarantined" ELSE @]
          /\ proc' = [proc EXCEPT !.pc = "quarantined", !.current = r]
          /\ UNCHANGED row
    /\ UNCHANGED <<planOf, catalog, receipt>>

\* record_failure of _recover.
FailRecovered ==
    /\ proc.pc = "quarantined"
    /\ row' = [row EXCEPT ![proc.current] = "failed"]
    /\ proc' = [proc EXCEPT !.pc = "recovering", !.todo = @ \ {proc.current},
                            !.current = NoRecording]
    /\ UNCHANGED <<planOf, disk, catalog, receipt>>

\* Mutant: one too few.
QuotaShort(batch) == ReconcileLimit - 1 - Cardinality(batch)

\* remaining: what the cleanups leave of the limit.
Quota(batch) == ReconcileLimit - Cardinality(batch)

\* The beginning of reconcile: pending_cleanup, and the rest of the limit.
Reconcile(p) ==
    \E batch \in Selection(InState("acknowledged"), ReconcileLimit) :
        proc' = [Down EXCEPT !.pc = "cleanups", !.todo = batch, !.goal = p,
                             !.quota = Quota(batch)]

ReconcileAtStart ==
    /\ proc.pc = "recovering"
    /\ proc.todo = {}
    /\ Reconcile(NoPlan)
    /\ UNCHANGED <<row, planOf, disk, catalog, receipt>>

-----------------------------------------------------------------------------
(* PublicationReconciler.reconcile.                                        *)

NextCleanup(r) ==
    /\ proc.pc = "cleanups"
    /\ r \in proc.todo
    /\ proc' = [proc EXCEPT !.pc = "cleaning", !.todo = @ \ {r}, !.current = r,
                            !.loop = "cleanups"]
    /\ UNCHANGED <<row, planOf, disk, catalog, receipt>>

\* RootedSigMFRecordingStore.cleanup: the two files, then the directory.
Unlink ==
    /\ proc.pc = "cleaning"
    /\ disk[proc.current] = "final"
    /\ disk' = [disk EXCEPT ![proc.current] = "gutted"]
    /\ UNCHANGED <<row, planOf, catalog, receipt, proc>>

RemoveDirectory ==
    /\ proc.pc = "cleaning"
    /\ disk[proc.current] = "gutted"
    /\ disk' = [disk EXCEPT ![proc.current] = "absent"]
    /\ UNCHANGED <<row, planOf, catalog, receipt, proc>>

\* Cleanup has returned: mark_cleaned.
MarkCleaned ==
    /\ proc.pc = "cleaning"
    /\ disk[proc.current] = "absent"
    /\ row' = [row EXCEPT ![proc.current] = "cleaned"]
    /\ proc' = [proc EXCEPT !.pc = proc.loop, !.current = NoRecording]
    /\ UNCHANGED <<planOf, disk, catalog, receipt>>

\* Cleanup or mark_cleaned raises: counted, and on to the next row.
CleanupDeferred ==
    /\ proc.pc = "cleaning"
    /\ proc' = [proc EXCEPT !.pc = proc.loop, !.current = NoRecording, !.deferred = TRUE]
    /\ UNCHANGED <<row, planOf, disk, catalog, receipt>>

\* The cleanups are done: pending_publication, within what is left of the limit.
SelectPublications ==
    /\ proc.pc = "cleanups"
    /\ proc.todo = {}
    /\ \E batch \in Selection(InState("complete"), proc.quota) :
         proc' = [proc EXCEPT !.pc = "publications", !.todo = batch]
    /\ UNCHANGED <<row, planOf, disk, catalog, receipt>>

NextPublication(r) ==
    /\ proc.pc = "publications"
    /\ r \in proc.todo
    /\ proc' = [proc EXCEPT !.pc = "publishing", !.todo = @ \ {r}, !.current = r,
                            !.loop = "publications"]
    /\ UNCHANGED <<row, planOf, disk, catalog, receipt>>

\* publisher.publish commits: it reads the local pair, and the key makes a
\* second publication of the recording the first one again.
PublishCommits ==
    /\ proc.pc = "publishing"
    /\ disk[proc.current] = "final"
    /\ catalog' = catalog \cup {proc.current}
    /\ proc' = [proc EXCEPT !.pc = "published"]
    /\ UNCHANGED <<row, planOf, disk, receipt>>

\* The publisher raises, before its commit or (from "published") after it, or
\* the SQLite acknowledgement fails: the row stays complete, same key next time.
PublicationDeferred ==
    /\ proc.pc \in {"publishing", "published"}
    /\ proc' = [proc EXCEPT !.pc = "publications", !.current = NoRecording,
                            !.deferred = TRUE]
    /\ UNCHANGED <<row, planOf, disk, catalog, receipt>>

\* Mutant: the row is settled when the publication is handed over.
AcknowledgeEarly ==
    /\ proc.pc \in {"publishing", "published"}
    /\ row' = [row EXCEPT ![proc.current] = "acknowledged"]
    /\ proc' = [proc EXCEPT !.pc = "cleaning"]
    /\ UNCHANGED <<planOf, disk, catalog, receipt>>

\* note_publish_attempt and acknowledge.
Acknowledge ==
    /\ proc.pc = "published"
    /\ row' = [row EXCEPT ![proc.current] = "acknowledged"]
    /\ proc' = [proc EXCEPT !.pc = "cleaning"]
    /\ UNCHANGED <<planOf, disk, catalog, receipt>>

\* Mutant: the reconciler's result is not looked at.
ReconciledAnyway(p) ==
    /\ proc.pc = "publications" /\ proc.todo = {}
    /\ proc' = [Down EXCEPT !.pc = IF p = NoPlan THEN "ready" ELSE "settled", !.goal = p]

\* The end of reconcile.  Anything deferred is an error of start() and of
\* process(): the process leaves.  start() then checks the retention budget.
Reconciled(p) ==
    /\ proc.pc = "publications" /\ proc.todo = {}
    /\ proc' = IF proc.deferred \/ (p = NoPlan /\ Cardinality(DurableRows) > MaxRetained)
               THEN Down
               ELSE [Down EXCEPT !.pc = IF p = NoPlan THEN "ready" ELSE "settled",
                                 !.goal = p]

EndReconcile ==
    /\ Reconciled(proc.goal)
    /\ UNCHANGED <<row, planOf, disk, catalog, receipt>>

-----------------------------------------------------------------------------
(* V5DwellSupervisor.process and OneShotDwellCaptureScheduler.run.         *)

\* Mutant: only rows that are not settled yet count as durable.
DurableUnsettled(p) == {r \in DurableOf(p) : row[r] # "cleaned"}

\* durable_recording_for_plan.
DurableForPlan(p) == DurableOf(p)

\* The budget is checked before the plan is looked up; a durable recording of
\* the plan is only reconciled.
ProcessReplay(p) ==
    /\ proc.pc = "ready"
    /\ Cardinality(DurableRows) < MaxRetained
    /\ Cardinality(DurableForPlan(p)) = 1
    /\ Reconcile(p)
    /\ UNCHANGED <<row, planOf, disk, catalog, receipt>>

\* No durable recording: PlanCaptureEngine.execute allocates the next one.
ProcessCapture(p) ==
    /\ proc.pc = "ready"
    /\ Cardinality(DurableRows) < MaxRetained
    /\ DurableForPlan(p) = {}
    /\ \E r \in Recordings :
        /\ row[r] = "none" /\ \A s \in Recordings : s < r => row[s] # "none"
        /\ row' = [row EXCEPT ![r] = "allocated"]
        /\ planOf' = [planOf EXCEPT ![r] = p]
        /\ proc' = [Down EXCEPT !.pc = "allocated", !.current = r, !.goal = p]
    /\ UNCHANGED <<disk, catalog, receipt>>

\* The budget is used up, or the plan has two durable recordings: process()
\* raises, and a supervisor that has failed takes no other request.
ProcessRefused(p) ==
    /\ proc.pc = "ready"
    /\ ~(Cardinality(DurableRows) < MaxRetained /\ Cardinality(DurableForPlan(p)) <= 1)
    /\ proc' = Down
    /\ UNCHANGED <<row, planOf, disk, catalog, receipt>>

\* RecordingWriter.begin
BeginWriting ==
    /\ proc.pc = "allocated"
    /\ disk' = [disk EXCEPT ![proc.current] = "partial"]
    /\ proc' = [proc EXCEPT !.pc = "writing"]
    /\ UNCHANGED <<row, planOf, catalog, receipt>>

\* RecordingWriteSession.finalize up to os.replace
Finalize ==
    /\ proc.pc = "writing"
    /\ disk' = [disk EXCEPT ![proc.current] = "final"]
    /\ proc' = [proc EXCEPT !.pc = "finalized"]
    /\ UNCHANGED <<row, planOf, catalog, receipt>>

\* record_complete, and reconcile begins.
RecordComplete ==
    /\ proc.pc = "finalized"
    /\ row' = [row EXCEPT ![proc.current] = "complete"]
    /\ Reconcile(proc.goal)
    /\ UNCHANGED <<planOf, disk, catalog, receipt>>

\* execute catches an error: session.abort removes the partial directory.  An
\* error after os.replace leaves the finalized pair where it is.
CaptureError ==
    /\ proc.pc \in {"allocated", "writing", "finalized"}
    /\ disk' = [disk EXCEPT ![proc.current] = IF @ = "partial" THEN "absent" ELSE @]
    /\ proc' = [proc EXCEPT !.pc = "failing"]
    /\ UNCHANGED <<row, planOf, catalog, receipt>>

\* record_failure, and the error leaves process().
RecordFailure ==
    /\ proc.pc = "failing"
    /\ row' = [row EXCEPT ![proc.current] = "failed"]
    /\ proc' = Down
    /\ UNCHANGED <<planOf, disk, catalog, receipt>>

\* record_receipt: the plan's recording, or a conflict with an earlier receipt.
RecordReceipt ==
    /\ proc.pc = "settled"
    /\ \E r \in DurableForPlan(proc.goal) :
        /\ receipt' = IF receipt[proc.goal] = NoRecording
                      THEN [receipt EXCEPT ![proc.goal] = r] ELSE receipt
        /\ proc' = IF receipt[proc.goal] \in {NoRecording, r}
                   THEN [Down EXCEPT !.pc = "ready"] ELSE Down
    /\ UNCHANGED <<row, planOf, disk, catalog>>

\* The process dies, or leaves on an error nobody handles.
Crash ==
    /\ proc.pc # "down"
    /\ proc' = Down
    /\ UNCHANGED <<row, planOf, disk, catalog, receipt>>

-----------------------------------------------------------------------------
ReconcileStep ==
    \/ \E r \in Recordings : NextCleanup(r) \/ NextPublication(r)
    \/ Unlink \/ RemoveDirectory \/ MarkCleaned
    \/ SelectPublications \/ PublishCommits \/ Acknowledge \/ EndReconcile

StartStep ==
    \/ Start \/ FailRecovered \/ ReconcileAtStart
    \/ \E r \in Recordings : Recover(r)

CaptureStep ==
    \/ BeginWriting \/ Finalize \/ RecordComplete \/ RecordFailure \/ RecordReceipt

Next ==
    \/ StartStep \/ ReconcileStep \/ CaptureStep
    \/ \E p \in Plans : ProcessReplay(p) \/ ProcessCapture(p) \/ ProcessRefused(p)
    \/ CleanupDeferred \/ PublicationDeferred \/ CaptureError \/ Crash

Spec == Init /\ [][Next]_vars

\* systemd restarts the unit, calls return, and the publisher, the local file
\* system and SQLite do not fail every single time they are tried.
FairSpec ==
    /\ Spec
    /\ WF_vars(StartStep) /\ WF_vars(ReconcileStep) /\ WF_vars(CaptureStep)
    /\ SF_vars(ReconcileAtStart) /\ SF_vars(SelectPublications)
    /\ SF_vars(\E r \in Recordings : NextCleanup(r))
    /\ SF_vars(\E r \in Recordings : NextPublication(r))
    /\ SF_vars(PublishCommits) /\ SF_vars(Acknowledge)
    /\ SF_vars(Unlink) /\ SF_vars(RemoveDirectory) /\ SF_vars(MarkCleaned)

-----------------------------------------------------------------------------
(* Properties.                                                             *)

\* A finalized local pair is touched only when its row is acknowledged and the
\* catalog has committed it: no crash, retry or recovery removes bytes that
\* exist nowhere else (reconcile, cleanup, _recover, abort).
LocalBytesOutlivePublication ==
    [][\A r \in Recordings : disk[r] = "final" /\ disk'[r] # "final"
          => row[r] = "acknowledged" /\ r \in catalog]_vars

\* What the spool says is what there is: a complete row has its pair, an
\* acknowledged row is published, a cleaned row is published and gone from
\* the host.
RowsTellTheTruth ==
    \A r \in Recordings :
        /\ row[r] = "complete" => disk[r] = "final"
        /\ row[r] = "acknowledged" => r \in catalog
        /\ row[r] = "cleaned" => r \in catalog /\ disk[r] = "absent"

\* A plan is captured into at most one durable recording, across crashes,
\* recovery and replays (durable_recording_for_plan raises otherwise, for good).
OneDurableRecordingPerPlan ==
    \A p \in Plans : Cardinality(DurableOf(p)) <= 1

\* A receipt names the plan's recording, and by then it is published and
\* cleaned; and a supervisor that takes requests has no backlog, for start()
\* settles or fails whatever the last process left.  Neither is answered while a
\* recording still waits in the spool, although reconcile swallows errors and
\* stops at its limit.
SettledBeforeAnswered ==
    /\ \A p \in Plans : receipt[p] # NoRecording =>
         planOf[receipt[p]] = p /\ row[receipt[p]] = "cleaned"
    /\ proc.pc = "ready" =>
         \A r \in Recordings : row[r] \in {"none", "failed", "cleaned"}

\* Every complete recording is published and cleaned in the end.
CompleteIsSettled ==
    \A r \in Recordings : row[r] = "complete" ~> row[r] = "cleaned"

\* What the startup order says of a finalized pair left between the rename
\* and the SQLite completion: its row still leads to it after recovery.
FinalizedPairIsOwned ==
    \A r \in Recordings : disk[r] = "final" => row[r] # "failed"
=============================================================================
