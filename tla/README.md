# A TLA+ model of leo_flow's capture, storage and job protocols

leo_flow captures radio recordings on a host with a receiver, publishes them to a
content-addressed store and a PostgreSQL catalog, and lets analysis workers turn
them into products. The numerical work is pure; what can go wrong between the
processes is in a handful of protocols: leases, spools, fences, claims, journals
and supervised children. This
directory models those protocols, checks them with TLC on small instances, and
proves the most important facts with TLAPS for every instance.

## Inventory

| Component | State | Operations | Talks to |
|---|---|---|---|
| Job table (`migrations/0017`, `jobs/`) | `public.job` rows: state, availability, attempt, generation, token, expiry | enqueue, claim, heartbeat, lock, complete, fail, park | every worker, through stored functions |
| Recording-analysis worker (`services/recording_analysis.py`, `adapters/recording_analysis_postgres.py`) | the lease it remembers | prepare, upload, commit, fail and leave | job table, store, catalog, projection outbox |
| Detector-suite worker (`services/starlink_suite_analysis.py`, `adapters/starlink_suite_postgres.py`) | the lease, a heartbeat thread | as above, and renew, park, retry later | as above |
| Content-addressed store (`storage/filesystem.py`) | one leaf per digest | put, verify | file system |
| Recording catalog (`storage/postgres_catalog.py`) | `object_blob`, `recording` | register, publish | store, job table |
| Object GC (`maintenance/object_gc.py`, `postgres_gc.py`, `filesystem_gc.py`) | `object_blob` lifecycle and claim columns | candidates, claim, unlink, complete, record failure | store, catalog |
| Orphan reconciliation (`maintenance/orphan_reconciliation.py`, `postgres_orphans.py`, `filesystem_orphans.py`) | `object_orphan_observation`, the digest's advisory lock | observe, claim, check under the fence, unlink, complete | store, catalog |
| Spool and local store (`capture/spool.py`, `storage/local_recording.py`, `storage/recording_codec.py`) | SQLite rows, directories below the recording root | allocate, complete, fail, acknowledge, mark cleaned; write, rename, recover, quarantine, unlink | publisher |
| Capture engine and publication reconciler (`capture/engine.py`, `capture/publication.py`) | none of their own | execute one plan; clean up and publish up to a limit | spool, local store, catalog |
| Dwell supervisor (`deployments/v5_dwell_supervisor.py`) | receipts in SQLite, host lock | start (recover, reconcile, budget), process a request, record a receipt | all of the capture host |
| Service loop (`services/lifecycle.py`, `services/cli.py`) | health, stop flag, close thread | start, run units, drain, close by a deadline | every service, signals |
| Dual capture (`capture/dual.py`, `application/capture_batches.py`, `deployments/v5_dual_capture_operator.py`) | two runner threads, their gate, the batch's rows | register, start, release or refuse, cancel, record | coordinators, isolated attempts |
| Isolated attempts and mode lock (`deployments/process_isolated_capture.py`, `process_mode_lock.py`) | one child per radio, an flock | spawn, ready, release, result, cancel, abort_all | dual capture, the radio |
| Campaign coordinators (`capture/campaign.py`, `capture/continuous.py`, `deployments/gauss_campaign_runtime.py`) | a journal replaced by revision, the campaign lock | plan a slot, capture, close, analyze, halt | dual capture through the capture port |
| Supercycle canary (`capture/supercycle_canary.py`) | a journal without a lock | capture_next, reconcile_next, halt | capture port |
| Staged analysis (`application/deferred_analysis.py`, `deployments/staged_analysis_pool.py`, `gauss_staged_analysis_runtime.py`) | a window of batches, child workers, scoped claims | prepare, drain a lane, reconcile receipts | deferred coordinator, job table |
| Continuous supervisor (`deployments/gauss_focused_continuous_operator.py`, `adapters/focused_continuous_sqlite.py`) | a journal of dwells, completion receipts, a failure latch | recover, plan, capture, dispatch, reap, drain | capture and analysis children, guard |
| Heavy-work admission (`adapters/optional_heavy_work_admission.py`) | guard file, ownership file, flock slots | take over, publish, decide, take a slot | supervisor, full-dwell workers |
| Full-dwell work (`migrations/0042`, `services/starlink_full_dwell_producer.py`, `leo_station/full_dwell_operator.py`) | bounded backlog with leases and attempts | admit, claim, produce, complete, retry, park | catalog, guard |
| Dwell request queue (`migrations/0019`) | requests with an expiry of their own and a lease | enqueue, claim, complete, park | supervisor, dashboard |
| Feature projection work (`migrations/0020`) | outbox rows with leases | claim, complete, fail | filled by the analysis commit |
| Analysis, contracts, dashboard, qualification | none that outlives a call | - | - |

What is hard here: a lease that expires while its holder still works; a commit
whose answer is lost; bytes and rows in stores that no transaction spans; a
process that dies between a rename and the row that records it; claims that
outlive their claimant; a journal and the rows it speaks of in different databases;
children that outlive the process that started them, or threads that stall past
every timeout; two processes that decide on copies of one state. `PROJECT.json` lists these hazards at their lines.

## Modules

| Module | Models | Properties |
|---|---|---|
| `JobLease` | job table and both kinds of worker | `SuccessIsPublication`, `CommitHoldsTheFence`, `LiveLeaseIsKept`, `LeaseIsReclaimed`, `ImplementsOutcome`; proved only: `RetryHasBudget`, `OutcomeIsFinal` |
| `JobOutcome` | what the table promises: one outcome per job, a product exactly with success | refined by `JobLease` |
| `JobLeaseProofs` | theorems about `JobLease` | |
| `ObjectLifecycle` | store, catalog, publishers, collectors, reconcilers | `ReferencedIsLive`, `ClaimExcludesCatalog`, `FenceCoversDeletion`, `OrphanRemovesOnlyClaimed`, `OrphanClaimIsResolvedUnlessReput`, and the documented ones that fail |
| `ObjectLifecycleProofs` | theorems about `ObjectLifecycle` | |
| `CaptureSpool` | spool, local directories, engine, reconciler, supervisor | `RowsTellTheTruth`, `OneDurableRecordingPerPlan`, `SettledBeforeAnswered`, `LocalBytesOutlivePublication`, `CompleteIsSettled`, and the documented one that fails |
| `CaptureSpoolProofs` | theorems about `CaptureSpool` | |
| `ServiceLoop` | one service process: main thread, close thread, signals | `FailureIsNotForgotten`, `CleanExitIsClean`, `AtMostOneLateUnit`, `StopIsHonoured` |
| `ServiceLoopProofs` | theorems about `ServiceLoop` | |
| `CaptureBatch` | what a batch promises its readers: registered once, one terminal outcome per attempt, no shared recording | refined by `DualCapture` |
| `DualCapture` | one batch: the invocation, the executor, two runner threads, two children | `CapturedAtMostOnce`, `SuccessIsEarned`, `TeardownPrecedesProjection`, `CaptureIsReleased`, `ImplementsBatch`, `ExecutionEnds` |
| `DualCaptureProofs` | theorems about `DualCapture`, its refinement of `CaptureBatch` included | |
| `CampaignCapture` | slots, journal, batch rows and the capture port that the coordinators share | |
| `DeferredCampaign` | capture now, analyse after the close | `StateIsCanonical`, `CaptureThenAnalysis` |
| `StagedDrain` | the staged and the online drain of a deferred campaign | `StageBarrier`, `DrainEnds`, and the documented one that fails |
| `OneShotCampaign` | each capture analysed before the next | `OneUnitAtATime` |
| `SupercycleCanary` | the canary, in two processes without a lock | `NeverReplay`, `HaltIsFinal` |
| `CaptureCampaigns` | the composition of the five modules above | `JournalIsCanonical`, `CapturedOnce`, `JournalIsBacked` |
| `CaptureCampaignsProofs` | theorems about `CaptureCampaigns` | |
| `FocusedContinuous` | the continuous supervisor over `CampaignCapture`'s port, its analysis children and its successors | `RowHasEvidence`, `AnalysisIsSerialized`, `RunningRowsAreWatched`, `StopDrains`; proved only: `InFlightIsBounded` |
| `FocusedContinuousProofs` | theorems about `FocusedContinuous` | |
| `FullDwellWork` | guard, slots, the full-dwell queue and its workers | `BacklogIsBounded`, `GuardIsTheOwners`, `AdmittedIsSettled`; proved only: `OneLeaseHolder` |
| `FullDwellWorkProofs` | theorems about `FullDwellWork` | |
| `MC*` | the instances TLC checks | |

The operators called mutants in the modules are plausible bugs of the definition
they stand before; each property is known to fail under one of them.

### JobLease

`job[j]` is the row of `public.job`, `rowLock[j]` the worker whose open
transaction holds it, `worker[w]` a process with the lease it remembers. Tokens
are numbers handed out once (`uuid4` in the code). A stored function is one
statement, so one action. A commit is two: `BeginCommit` (`LOCK_ACTIVE_SQL`,
the row lock) and `Commit` (`COMPLETE_SQL` and the end of the transaction), with
`Rollback`, `Crash` and the clock between them. `Commit` may lose its answer: the
worker then runs its error handler over a job that has succeeded. The product,
its projection work and the completed row appear together because the code puts
them in one transaction; that they never appear behind or beside a successor's
is what has to be shown. `PrepareError` chooses between a `ValueError`, which the
suite worker parks, and anything else, which it retries after `RetryDelay` until
`MaximumAttempts`; the recording worker records the failure, makes the job
available at once and leaves the process.

### ObjectLifecycle

`file[d]` is the incarnation of the leaf, which stands for the device, inode,
size and times that the reconciler compares. `blob[d]` is the `object_blob` row,
`orphan[d]` the observation, `fence` the advisory locks that an open orphan
deletion holds. Every other catalog transaction is one action that waits for the
fence. A publisher puts both objects of a recording and then registers them;
each of these steps may be the last before a crash, and the spool offers the
recording again. Retention policies are constant: `Deletable` holds the digests
that they allow to delete. The withdrawal of a recording is the database owner's
act; no code in the repository does it, and without it an object that was
referenced once would never be collected. A reconciliation run has a limit: its first
`PageLimit` pending claims in the order of the digests, and what they leave of it for
the inventory, whose cursor selects the `Inventoried` digests; without a rest it
returns at once. `LeaveFence` has both ends of `delete_under_fence`, the
`RuntimeError` of a lost fence included, and `FenceCoversDeletion` says that this one
is unreachable: in the window in which the bytes go, neither another reconciler
completes the claim nor a publisher registers the digest.

### CaptureSpool

Four stores: the SQLite row, the directory (`partial`, `final`, `gutted` while a
cleanup is half done, `quarantined`), the remote catalog, the receipts. `proc` is
the supervisor process with its position in `start`, `process` or `reconcile`.
`Crash` stands for a process death and for an error that leaves the process; a
restart goes through `Start`. `CaptureError` is the `except` of
`PlanCaptureEngine.execute`, which can also be entered after the rename.

### ServiceLoop

`pc` is the position of the main thread in `main`, `run_forever`, `run_once`,
`_ensure_started` and `shutdown`; `hook` is the daemon thread that runs the close
hook. A handler of Python runs on the main thread between two bytecodes, so
`RequestStop` is one step that can come between any two of the others, also
inside the critical sections (the lock is reentrant). The event `_stop` has a lock
of its own in the standard library that is not: a handler that falls into the few
instructions on either side of the sleep waits for its own thread
(`RequestStopHangs`, external). `asked` and `late` are history: a signal was
delivered, units were begun after it. The early return of `shutdown` for a
stopped service is not reached in either mode of the host.

### DualCapture

`op` is the invoking thread (the dual-capture operator or the capture port of a
campaign), with its position in `execute` and the teardown around it; `thread[a]`
a runner thread, `child[a]` the process it spawned. `registered`, `outcome` and
`recording` are the SQLite rows and survive a crash; the mode lock, the threads
and, by the parent-death signal, the children do not. There is no clock: a timeout
may fire whenever the executor waits, which includes every relation of the three
timeouts. A child may refuse to die; a stalled thread may spawn its child after
`abort_all` has looked at the handles. The rows refine `CaptureBatch`.
`TeardownPrecedesProjection` is stated for the projection only: at the release of
the lock such a child can be alive in the model (see below).

### The campaigns

`CampaignCapture` holds what the coordinators share. `journal` is the campaign's
SQLite state, `batch` the rows of the batch database, `rf` and `calls` count what
the radios and the port were asked to do, `proc[p]` is an operator process with
the copy of the journal it works on. Two units of time make a slot. The revision
of a journal is left out: no value of the journal recurs while a process holds a
copy, so that copies are compared instead. The commands of the deferred and the
one-shot operator hold the campaign lock (`LockFree`), those of the canary do not
and depend on `CompareAndSwap`. The port registers, executes or refuses a batch in
the steps of `ProcessIsolatedCampaignCapture.capture`; what happens inside it is
`DualCapture`'s subject, of which it uses only what `CaptureBatch` promises.

`StagedDrain` has one table of rows per window and stage. Odd stages are jobs,
which `prepare` submits, and even stages the outbox that the commits before fill.
A row is held by the drain whose child claimed it or by nobody (`lost`) when that
child died; children die with their drain. The staged drain takes the campaign
lock, the online drain has a lock of its own and only reads the journal, so the
two can meet in one window. The exit statuses (done, 75 for a restart, 4 for a
halt) are the ways in which `DrainExits` and `DrainReturns` leave.
`JournalIsCanonical` is, for a deferred campaign, what the constructor of
`ContinuousCollectionState` demands of a state. `CampaignJournalState` of the one-shot
campaign demands nothing: there `OneUnitAtATime` is a property of its runs.

### FocusedContinuous

`dwell[s]` is the row of `focused_dwell`, `receipt[s]` the completion receipt,
`child[c]` an analysis process, `sup` the supervisor with its position in `main`,
`_recover`, `_reap` and `_dispatch`. The unit has `KillMode=process`: after
`Killed` the capture and the analyses go on, and the next supervisor may find any
mixture of them; `Raises` is an exception, whose `finally` terminates them. A
process identity (pid and start ticks) never recurs; the command is told by the
release it is built from. Fork and journal are two steps (`Spawn`,
`ClaimAnalysisProcess`), and so are the look for a receipt and the look for the
process in recovery. A process that was adopted is not a child: its receipt is
taken for its end. A halt writes the row, then the latch, then terminates the
children; `HaltEnds` has the kill between them. The clock of `CampaignCapture`
stands still: each dwell is requested when it is planned.

### FullDwellWork

`guard` is the status file with the generation that wrote it and the phase of its
window (`ahead`, `inside`, `over`, then `stale`), `owner` the ownership file,
`sup[g]` the supervisor of generation `g`, which may still run when its successor
has taken over. `work[s]` is the row of the queue; its time, `available_at` or
the expiry of the lease, is `due` or not. `attempt` stands for generation and
token as well, since only a claim changes them. The decision and the slot are two
steps, so a worker may hold a decision that the guard has overtaken. The product
is published without a look at the lease; the three settling functions look at it.
`Admits` is the guard's part of the decision; the refusals for the focused backlog and
the host's resources leave the worker idle like a decision that is not made. The claim
function leases a row before it looks at the state of its bundle (`0042:68`); the model
leaves that look out, because the suite's row references the bundle (`0029:43`) and a
referenced object is live (`ReferencedIsLive`).

## Runs

| Run | Question | Answer |
|---|---|---|
| `job_lease` | is the fence sound under expiry, crashes and lost answers, and is a dead worker's job taken over? | yes |
| `objects` | can a collector claim what a recording references, does the digest fence cover an orphan deletion, and is an orphan claim resolved? | no; yes; yes, unless the leaf is put again |
| `object_gc_race` | are the bytes of a committed recording present (ADR 0028)? | no: `put` found them, they were collected, the registration revived the tombstone |
| `object_gc_stuck` | is the claim of a dead collector reclaimed (ADR 0028)? | no: `candidates` never offers it |
| `capture_spool` | do rows, directories, catalog and receipts agree across crashes, and is every complete recording published and cleaned? | yes |
| `capture_spool_stranded` | is a finalized pair always recovered (v5 runbook)? | no: an error after the rename fails the row and strands the pair |
| `service_loop` | does a failure reach health and exit code, and a signal end the process, wherever it falls? | yes |
| `dual_capture` | is an attempt captured once and only when released, is a success earned, does every execution end? | yes |
| `capture_campaigns` | is a slot captured once under each coordinator, does the journal agree with the rows, are the stages kept apart, does a drain end? | yes |
| `staged_drain_resume` | is a slice that ends with status 75 resumable (operations guide)? | no: a failed receipt in the middle of a window leaves a state that every later slice refuses |
| `focused_continuous` | does a supervisor find out correctly what became of the work of a killed one, and does a stop drain? | yes |
| `full_dwell_work` | do backlog, guard and leases hold under two workers and a handover? | yes |

### Bounds

- Jobs: one of each kind and two workers, so that a slow worker and its successor
  meet; the clock reaches 3 with leases of 1, so a lease expires, is claimed and
  expires again; two claims reach `MaximumAttempts` = 2.
- Objects: `objects` has two recordings that share an object, so that one is published
  between another's withdrawal and the claim of the collector that saw it; two
  reconcilers, so that both work on one claim; two incarnations of a leaf, so that a
  claimed leaf can be replaced. Runs have a limit of 1, so that a pending claim uses it
  up, and inventory the shared object. That a page full of claims whose leaves were put
  again keeps the claims after it from every run, which
  `OrphanClaimIsResolvedUnlessReput` excepts, needs a second claim and does not occur
  in this instance. The safety proofs have no such bound.
- Spool: more recordings than plans, so that a failed capture is tried again; a
  reconcile limit of 1, so that a cleanup uses it up.
- Service: three units with work and any number without, so that a signal can fall
  into the first and into a later round; nothing else is bounded.
- Dual capture: one batch of two attempts in both modes, invoked by a campaign, which
  has every gate and deadline of the other entry point and one more; nothing else is
  bounded.
- Campaigns: two processes and three slots; targets of 2, which can be met with a
  failed slot, and 5, which outlasts the window; two invocations, so that a repeated
  call and the exhausted limit both occur; one window of two batches, two stages of
  two rows, so that an earlier stage, a partly reconciled window and two drains in one
  stage occur.
- Continuous supervisor: two dwells, so that one is captured while the other is
  analysed; two starts from two releases, so that a conflict and an allowed prior
  release occur; one analysis in flight and two attempts; three identities, for an
  orphan beside the attempts of both dwells.
- Full-dwell work: two workers with two slots, two suites for a backlog of one, two
  attempts, two supervisors, and one crash or overrun.

`Max...` constants are bounds of the models, each in the guard of the action
that would go on counting. `CHECK_DEADLOCK FALSE` is used where the bounds, or a
queue with no work, really stop the system.

### Fairness

The clock advances, a scheduled thread takes its next step, systemd restarts a
unit that left, maintenance commands are run again (timers), and an operation
that is tried again and again does not fail every time (strong fairness on the
unlink, the publication and their acknowledgements, for which the code retries
without limit). Of the service process, that the main thread goes on (services.md
demands a finite deadline of every operation of a unit) and that timeouts pass,
but not that a close hook returns. Of a dual capture, that the invoking thread goes
on, all of whose waits are bounded, and nothing of runners and children. Of a
campaign, that the ports return, that a staged drain goes on or meets its deadline,
and that it is started again. The analysis unit restarts it after status 75 and after
a kill, without a start limit, but not after status 4 (`RestartPreventExitStatus`);
`DrainEnds` therefore promises nothing of slices that give up before their receipts,
which is where status 4 arises, and says that failed or interrupted receipts alone do
not keep the unit restarting: the campaign completes, halts, or a slice gives up, as
it does for good after the failure that `staged_drain_resume` shows. No serial command
is assumed to run at all. Of the orphan reconcilers, that a run goes on and that the
steps of a deletion are reached again and again and then taken, by whichever run; of
publishers, collectors and the clock nothing is assumed in `objects`. Of the continuous supervisor, that it, its children
(whose analyses have a deadline) and the capture port go on, but neither that it is
started again nor that a process is spared. Of the full-dwell workers, that they
poll and go on and that the time of a row nobody holds comes; `AdmittedIsSettled` is
conditional on a guard that admits work again and again, which no code promises, and
the strong fairness of `Decide` assumes of the host that focused backlog and resources
(`optional_heavy_work_admission.py:247-267`) do not refuse each time. No
fairness is assumed of crashes, errors, new
work, signals or renewals.

## Proofs

The proofs hold for all sets of jobs, workers, digests, recordings and processes,
and for all bounds; their only assumptions are the named `ASSUME`s of the
modules (times and limits are positive, null values are not members).

`JobLeaseProofs`:

- `TypeCorrect`: `TypeOK` is an invariant.
- `SuccessTheorem`: `SuccessIsPublication`. `StepShape` and `CommitShape` say what
  a step can do to the table and to the products: it either leaves the products
  alone and no row enters or leaves `succeeded`, or it is a commit, and then the
  committed row was leased with the committer's generation. With that the
  property is inductive together with `TypeOK`.
- `FinalTheorem`: the action property `OutcomeIsFinal`.
- `OutcomeRefinement`: `JobLease` implements `JobOutcome`; a commit is its
  `Succeed`, a parking its `Park`, everything else a stutter.
- `LiveLeaseTheorem`: the action property `LiveLeaseIsKept`: before a lease expires,
  no step shortens it, hands the row on or ends it, but the completion, failure or
  parking of a worker with the row's token. A claim takes an expired lease only, and a
  renewal never shortens one because no row's expiry is further ahead than one
  `LeaseTtl` (`ExpiryBounded`, inductive since the clock does not go back).
- `FenceTheorem` and `BudgetTheorem`. Neither of these
  properties is inductive: a worker that lost its lease still remembers a token.
  `FenceInv` adds what the tokens' history gives: every remembered token was issued
  and is not null (`TokensIssued`), no two workers remember the same one
  (`TokensDistinct`), and a worker whose token is the row's knows the row's attempt
  (`AttemptKnown`). Every action is a quiet step (no token, no lock), a release (the
  token is cleared), a claim or a locking, and each kind has its lemma.

`ObjectLifecycleProofs`: `TypeCorrect`; `ReferencedTheorem` and `ClaimTheorem`, from
`CatalogStep`, which says which rows a step may change under which condition;
`CoveredTheorem` (`FenceCoversDeletion`) from `FenceInv`, which adds that the fence of
a deletion is held and that no two reconcilers are in one deletion: every step of
another process either waits for the fence or changes a catalogued row; and the action
property `RemovalTheorem`, from `CoveredTheorem` and the invariant that a claimed
observation has outlived the grace period.

`ServiceLoopProofs`: `TypeCorrect`, `LateTheorem`, `FailureTheorem` and
`CleanExitTheorem`. The invariant `LoopInv` says of each position of the main
thread what is known there: whether the service was started, that a delivered
signal has set the flag and a late unit is past every test of it, and that an
exception is on its way to `shutdown` with its cause remembered in `state` or
`wasFailed`.

`CaptureSpoolProofs`: `SpoolIsTruthful` (`RowsTellTheTruth`), `OneRecordingPerPlan`
(`OneDurableRecordingPerPlan`), `AnswersAreSettled` (`SettledBeforeAnswered`) and the
action property `BytesOutlivePublication` (`LocalBytesOutlivePublication`). None is
inductive: what a row says is true only because of where the process is that will
write it next. `Invariance` proves `Inv`, whose parts say what a row of each state
has on disk and in the catalog (`RowInv`), what a receipt was given for
(`ReceiptInv`), and what the process knows at each step of recovery, capture and
reconciliation (`ProcInv`). The core is that at most one row is open, so that a
reconciliation with a limit of 1 or more always reaches it (`CoverInv`).

`DualCaptureProofs`: `AtMostOneCapture` (`CapturedAtMostOnce`), `SuccessesAreEarned`
(`SuccessIsEarned`), `TeardownComesFirst` (`TeardownPrecedesProjection`), the action
property `CapturesAreReleased` (`CaptureIsReleased`), and `Implementation`: every
step is a step of `CaptureBatch` or a stutter. `Inv` relates the threads: how far a
runner, its child and its pipe are together (`RunnerInv`), that the invocation
executes only what it registered and holds (`InvocationInv`), that after the join
whatever still runs is cancelled (`JoinInv`), that the registry names every child
that lives (`HandleInv`), that the gate opens when all is clear or nobody can pass it
(`GateInv`), and that an outcome is what the child returned (`OutcomeInv`).

`FocusedContinuousProofs`: `TypeCorrect`, `RowsHaveEvidence` (`RowHasEvidence`),
`AnalysesAreSerial` (`AnalysisIsSerialized`), `NoAttemptIsForgotten`
(`RunningRowsAreWatched`), `AttemptsStayBounded` (`InFlightIsBounded`: running rows
never exceed `--maximum-in-flight-analyses`, although each supervisor counts only
what it watches) and `EvidenceIsFinal` (an accepted batch and a receipt are never
taken back). The three properties of the run need each other: a row keeps its
evidence only if the port never rewrites a closed batch (`PortInv`: one process
runs a batch at a time, and the batch it runs is open) and only watched rows are
reaped; a recovery has still to look at every running row it does not watch
(`WatchInv`); and the row a capture settles is the planned last row of a journal
without gaps (`JournalInv`), so it is never one that runs. That "the oldest row"
exists is proved from the well-foundedness of the strict subset order
(`LeastIsMember`), as induction over the naturals is out of the prover's reach.

`FullDwellWorkProofs`: `TypeCorrect`, `GuardStaysWithOwner` (`GuardIsTheOwners`),
`BacklogStaysBounded` (`BacklogIsBounded`) and `LeaseIsExclusive` (`OneLeaseHolder`:
at most one of the workers at a suite may still settle its row). Queue and guard
share no variable that both write (`QueueLeavesGuard`, `GuardLeavesQueue`), and only
an admission grows the backlog (`OnlyAdmitGrows`).

`CaptureCampaignsProofs`, in two layers. `CampaignInvariant` proves `Inv`: a slot
without a batch row has not been captured (`OnceInv`); under the campaign lock one
process is at work, the journal's phase tells at what, and a staged drain in a
window is that process (`LockInv`); the canary, which has no lock, has called no
slot that its journal does not show as invoked (`CanaryInv`); an outbox row does not
exist before the commit of its job, so no commit sets back a row that has succeeded
(`WorkInv`). From it `CampaignCapturedOnce` (`CapturedOnce`), `CanaryNeverReplays`
(`NeverReplay`), `StagesAreBarriers` (`StageBarrier`) and the action properties
`CanaryHaltIsFinal` (`HaltIsFinal`) and `CapturesThenAnalyses`
(`CaptureThenAnalysis`).

`DurableInvariant` proves, on top of `Inv`, the invariant `Durable` of what survives a
crash: the journal is `Backed` by calls and batch rows; the one process that executes
has an open row, so that no eligible row is ever written again (`BatchInv`); under
the lock a caller's copy has the journal's last record, which is planned (`HeldInv`);
a deferred journal is `Canonical`, that is without gaps and with its receipts in the
order of the slots, and the last batch of a drained window still waits
(`DeferredInv`); the slots of a one-shot journal since its last complete unit are as
many as the retry count of the last record says (`UnitInv`); and a canary has no gap
(`CanarySlots`). It gives `CampaignJournalIsBacked` (`JournalIsBacked`) and
`CampaignJournalIsCanonical` (`JournalIsCanonical`). The order of the receipts is what
makes the windowed drain safe: a window whose first batch waits and for which enough
wait ends with one that waits (`WindowIsFull`), so a receipt is always due when one
is asked for.

Every invariant and every action property of a passing run is a theorem. Liveness
under fairness is only model-checked, for the prover does not handle it:
`LeaseIsReclaimed`, `OrphanClaimIsResolvedUnlessReput`, `CompleteIsSettled`,
`StopIsHonoured`, `ExecutionEnds`, `DrainEnds`, `StopDrains` and `AdmittedIsSettled`.
The other way round, the type invariants, `RetryHasBudget`,
`OutcomeIsFinal`, `OneLeaseHolder`, `InFlightIsBounded` and `EvidenceIsFinal` are
proved and are in no run.

## Disagreements that no run shows

Five more places where the code and its documents part, found while modelling and
kept as they are in the models:

- After a crash between the unlink and the completion of an orphan deletion, and a
  new put of the digest, `unlink_exact` raises `EvidenceChangedError` at every
  resumption: the claim never ends. `filesystem_orphans.py:100` and ADR 0032:39-40
  call this crash point safely resumable. `OrphanClaimIsResolvedUnlessReput` excepts it.
- A signal after `run_once` has tested `_stop` and before `_ensure_started` takes the
  lock makes it raise: an orderly stop leaves with `ExitCode.RUNTIME`, against
  `docs/operations/services.md:61-63`.
- `docs/operations/v5-dual-capture.md:71-72` has every path join both children before
  projection and release of the mode lock. For the projection it holds; a child that
  is spawned late or resists its kill can be alive at the release.
- `deploy/gauss-focused-continuous-v1/README.md:17` says that analyses are retried up to
  three times. `_recover` returns a dead attempt to `captured` without comparing its
  count, so each restart can add one.
- The same file says that a failed write of the guard makes optional work fail closed.
  The previous guard stays valid for at least 180 seconds after it was observed, and
  its window may be over: work is admitted.

## Plan

1. Dwell request queue (`0019`), composed with the supervisor of `CaptureSpool`.
2. Feature projection work (`0020`) as the consumer of `JobLease`'s outbox, and the
   dependence of its claim on live objects.

## Not modelled

- The dwell request queue and the projection queues, as planned above, and the prompt
  timeline queue (`0044`), which has the shape of the full-dwell queue.
- The registration of a campaign's scope and the capture gate that reads it (`0032`,
  `0037`): admission facts that a capture reads once.
- The other operators of `leo_station` and the other analysis workers: the loops and
  the commits of the modelled ones around other numerical work.
- Numerical analysis, the contracts' canonical encoding, the dashboard's queries,
  qualification, readiness and import scripts: no state that outlives a call, or
  arrays of samples that a model checker cannot enumerate. They are most of the
  repository's lines.
- Roles and grants of the database, the radio and its firmware.
