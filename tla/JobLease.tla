------------------------------ MODULE JobLease ------------------------------
(***************************************************************************)
(* The PostgreSQL job table and the analysis workers that lease its rows.  *)
(*                                                                         *)
(* A worker claims one row (attempt, generation and token move on), keeps  *)
(* the lease in its own memory while it prepares a product, uploads the    *)
(* product to the content-addressed store, and then runs one transaction:  *)
(* lock the row under its lease, insert the product and its projection     *)
(* work, complete the job.  The clock may pass the lease's expiry between  *)
(* any two of these steps, and the process may die between any two.        *)
(*                                                                         *)
(* Two kinds of worker share the table.  The recording-analysis worker     *)
(* never renews its lease and dies of the error it has recorded.  The      *)
(* detector-suite worker renews from a second thread while it prepares,    *)
(* parks what it will not retry, and goes on.                              *)
(***************************************************************************)
EXTENDS Integers, FiniteSets

CONSTANTS
    Jobs,             \* job identifiers, ordered as the table orders them
    SuiteJobs,        \* those of type starlink_suite_analysis
    Workers,
    NoWorker,         \* the holder of a row no transaction holds
    LeaseTtl,         \* lease_ttl_s, in clock ticks
    RetryDelay,       \* retry_delay_s of the suite worker
    MaximumAttempts,  \* maximum_attempts of the suite worker
    MaxClock,         \* bound: the database clock stops here
    MaxClaims         \* bound: claims of one job

ASSUME JobsAssumption == Jobs \subseteq Nat \ {0} /\ SuiteJobs \subseteq Jobs
ASSUME WorkersAssumption == NoWorker \notin Workers
ASSUME TimesAssumption ==
    /\ LeaseTtl \in Nat \ {0} /\ RetryDelay \in Nat \ {0}
    /\ MaximumAttempts \in Nat \ {0}
    /\ MaxClock \in Nat /\ MaxClaims \in Nat

VARIABLES
    now,        \* clock_timestamp() of the database
    job,        \* the rows of public.job
    rowLock,    \* the worker whose open transaction holds the row, per job
    issued,     \* lease tokens handed out so far: tokens are never reused
    published,  \* committed products, as <<job, generation>>
    outbox,     \* jobs whose projection work has been committed
    worker      \* each worker's program counter and the lease it remembers

vars == <<now, job, rowLock, issued, published, outbox, worker>>

NoToken == 0
NoTime == -1
NoJob == 0

JobState == {"absent", "ready", "leased", "failed", "succeeded", "parked"}
Terminal == {"succeeded", "parked"}
Raisable == {"invalid", "transient"}
Fault == Raisable \cup {"none"}
WorkerState ==
    {"idle", "preparing", "uploading", "uploaded", "locked", "raised", "down"}

Row == [state : JobState, available : Nat, attempt : Nat, generation : Nat,
        token : Nat, expires : Nat \cup {NoTime}, result : Nat]
Lease == [job : Jobs \cup {NoJob}, token : Nat, generation : Nat, attempt : Nat]
Process == [pc : WorkerState, lease : Lease, fault : Fault,
            heartbeat : {"off", "running", "failed"}]

Busy(w) == worker[w].pc \notin {"idle", "down"}

TypeOK ==
    /\ now \in Nat
    /\ job \in [Jobs -> Row]
    /\ rowLock \in [Jobs -> Workers \cup {NoWorker}]
    /\ issued \in Nat
    /\ published \subseteq Jobs \X Nat
    /\ outbox \subseteq Jobs
    /\ worker \in [Workers -> Process]
    /\ \A w \in Workers : Busy(w) => worker[w].lease.job \in Jobs

NoLease == [job |-> NoJob, token |-> NoToken, generation |-> 0, attempt |-> 0]
Idle == [pc |-> "idle", lease |-> NoLease, fault |-> "none", heartbeat |-> "off"]

Init ==
    /\ now = 0
    /\ job = [j \in Jobs |->
                [state |-> "absent", available |-> 0, attempt |-> 0,
                 generation |-> 0, token |-> NoToken, expires |-> NoTime,
                 result |-> 0]]
    /\ rowLock = [j \in Jobs |-> NoWorker]
    /\ issued = NoToken
    /\ published = {}
    /\ outbox = {}
    /\ worker = [w \in Workers |-> Idle]

-----------------------------------------------------------------------------
(* The stored functions: conditions on a row, and the row they leave.      *)

\* enqueue_job; the insert does nothing when the identity is taken.
Enqueue(j, available) ==
    /\ job[j].state = "absent"
    /\ job' = [job EXCEPT ![j].state = "ready", ![j].available = available]
    /\ UNCHANGED <<now, rowLock, issued, published, outbox, worker>>

\* Mutants of Claimable: no SKIP LOCKED; leases that have not expired; no expired
\* leases.
ClaimableLocked(j) ==
    /\ job[j].state \in {"ready", "failed", "leased"}
    /\ job[j].available <= now
    /\ job[j].state = "leased" => job[j].expires <= now
    /\ job[j].generation < MaxClaims
ClaimableLive(j) ==
    /\ job[j].state \in {"ready", "failed", "leased"}
    /\ job[j].available <= now
    /\ rowLock[j] = NoWorker
    /\ job[j].generation < MaxClaims
ClaimableUnleased(j) ==
    /\ job[j].state \in {"ready", "failed"}
    /\ job[j].available <= now
    /\ rowLock[j] = NoWorker
    /\ job[j].generation < MaxClaims

\* The candidates of claim_job.  FOR UPDATE SKIP LOCKED passes over a row that
\* a committing transaction holds.
Claimable(j) ==
    /\ job[j].state \in {"ready", "failed", "leased"}
    /\ job[j].available <= now
    /\ job[j].state = "leased" => job[j].expires <= now
    /\ rowLock[j] = NoWorker
    /\ job[j].generation < MaxClaims  \* the bound, not a condition of the code

\* ORDER BY available_at_utc, job_id
Before(i, j) ==
    \/ job[i].available < job[j].available
    \/ job[i].available = job[j].available /\ i <= j

\* Mutant: the fence checks state and expiry only.
LeaseIsLive(l) == job[l.job].state = "leased" /\ job[l.job].expires > now

\* The condition of heartbeat_job, lock_active_job_lease, complete_job,
\* fail_job and park_job on the caller's lease.
LeaseIsCurrent(l) ==
    /\ job[l.job].state = "leased"
    /\ job[l.job].token = l.token
    /\ job[l.job].generation = l.generation
    /\ job[l.job].expires > now

CompletedRow(row, result) ==
    [row EXCEPT !.state = "succeeded", !.result = result,
                !.token = NoToken, !.expires = NoTime]

FailedRow(row, retryAt) ==
    [row EXCEPT !.state = "failed", !.available = retryAt,
                !.token = NoToken, !.expires = NoTime]

ParkedRow(row) ==
    [row EXCEPT !.state = "parked", !.result = 0,
                !.token = NoToken, !.expires = NoTime]

-----------------------------------------------------------------------------
(* The workers.                                                            *)

IsSuite(w) == worker[w].lease.job \in SuiteJobs

\* process_one_job: claim_job under a fresh token, then execute(lease).  The
\* suite worker starts its heartbeat thread before it prepares.
Claim(w) ==
    /\ worker[w].pc = "idle"
    /\ \E j \in Jobs :
        /\ Claimable(j)
        /\ \A i \in Jobs : Claimable(i) => Before(j, i)
        /\ issued' = issued + 1
        /\ job' = [job EXCEPT ![j].state = "leased",
                              ![j].attempt = @ + 1,
                              ![j].generation = @ + 1,
                              ![j].token = issued + 1,
                              ![j].expires = now + LeaseTtl]
        /\ worker' = [worker EXCEPT ![w] =
                [pc |-> "preparing", fault |-> "none",
                 lease |-> [job |-> j, token |-> issued + 1,
                            generation |-> job[j].generation + 1,
                            attempt |-> job[j].attempt + 1],
                 heartbeat |-> IF j \in SuiteJobs THEN "running" ELSE "off"]]
    /\ UNCHANGED <<now, rowLock, published, outbox>>

\* One round of _LeaseHeartbeat._run that reaches the database.  The first
\* refusal ends the thread and is kept for the owner.
Heartbeat(w) ==
    /\ worker[w].pc = "preparing"
    /\ worker[w].heartbeat = "running"
    /\ \/ /\ LeaseIsCurrent(worker[w].lease)
          /\ job' = [job EXCEPT ![worker[w].lease.job].expires = now + LeaseTtl]
          /\ UNCHANGED worker
       \/ /\ ~LeaseIsCurrent(worker[w].lease)
          /\ worker' = [worker EXCEPT ![w].heartbeat = "failed"]
          /\ UNCHANGED job
    /\ UNCHANGED <<now, rowLock, issued, published, outbox>>

\* The heartbeat's own call fails (connection lost): the same end of the thread.
HeartbeatError(w) ==
    /\ worker[w].pc = "preparing"
    /\ worker[w].heartbeat = "running"
    /\ worker' = [worker EXCEPT ![w].heartbeat = "failed"]
    /\ UNCHANGED <<now, job, rowLock, issued, published, outbox>>

\* prepare returns; heartbeat.stop() joins the thread, raise_if_failed()
\* turns a failed renewal into an error of the owner.
Prepared(w) ==
    /\ worker[w].pc = "preparing"
    /\ worker' = [worker EXCEPT
            ![w].heartbeat = "off",
            ![w].pc = IF worker[w].heartbeat = "failed" THEN "raised" ELSE "uploading",
            ![w].fault = IF worker[w].heartbeat = "failed" THEN "transient" ELSE "none"]
    /\ UNCHANGED <<now, job, rowLock, issued, published, outbox>>

\* prepare raises, a ValueError ("invalid") or anything else ("transient").
PrepareError(w, fault) ==
    /\ worker[w].pc = "preparing"
    /\ worker' = [worker EXCEPT ![w].heartbeat = "off",
                                ![w].pc = "raised", ![w].fault = fault]
    /\ UNCHANGED <<now, job, rowLock, issued, published, outbox>>

\* BlobWriter.put of the encoded product, before any database work.
Upload(w) ==
    /\ worker[w].pc = "uploading"
    /\ worker' = [worker EXCEPT ![w].pc = "uploaded"]
    /\ UNCHANGED <<now, job, rowLock, issued, published, outbox>>

\* LOCK_ACTIVE_SQL opens the transaction and takes the row, or finds the lease
\* stale and rolls back.
BeginCommit(w) ==
    /\ worker[w].pc = "uploaded"
    /\ \/ /\ LeaseIsCurrent(worker[w].lease)
          /\ rowLock' = [rowLock EXCEPT ![worker[w].lease.job] = w]
          /\ worker' = [worker EXCEPT ![w].pc = "locked"]
       \/ /\ ~LeaseIsCurrent(worker[w].lease)
          /\ worker' = [worker EXCEPT ![w].pc = "raised", ![w].fault = "transient"]
          /\ UNCHANGED rowLock
    /\ UNCHANGED <<now, job, issued, published, outbox>>

\* COMPLETE_SQL and the end of the transaction: the product row, the
\* projection work and the completed job become visible together.  The answer
\* may be lost on the way: the worker then raises, and what it does next must
\* not undo the outcome.
Commit(w) ==
    LET l == worker[w].lease IN
    /\ worker[w].pc = "locked"
    /\ LeaseIsCurrent(l)
    /\ job' = [job EXCEPT ![l.job] = CompletedRow(@, l.generation)]
    /\ published' = published \cup {<<l.job, l.generation>>}
    /\ outbox' = outbox \cup {l.job}
    /\ rowLock' = [rowLock EXCEPT ![l.job] = NoWorker]
    /\ worker' \in {[worker EXCEPT ![w] = Idle],
                    [worker EXCEPT ![w].pc = "raised", ![w].fault = "transient"]}
    /\ UNCHANGED <<now, issued>>

\* Mutant: the product was committed by a transaction of its own.
RollbackLeaves(w, fault) ==
    /\ worker[w].pc = "locked"
    /\ published' = published \cup {<<worker[w].lease.job, worker[w].lease.generation>>}
    /\ rowLock' = [rowLock EXCEPT ![worker[w].lease.job] = NoWorker]
    /\ worker' = [worker EXCEPT ![w].pc = "raised", ![w].fault = fault]
    /\ UNCHANGED <<now, job, issued, outbox>>

\* A statement of the transaction fails, or COMPLETE_SQL finds the lease
\* expired under the lock: everything it wrote is rolled back.
Rollback(w, fault) ==
    /\ worker[w].pc = "locked"
    /\ rowLock' = [rowLock EXCEPT ![worker[w].lease.job] = NoWorker]
    /\ worker' = [worker EXCEPT ![w].pc = "raised", ![w].fault = fault]
    /\ UNCHANGED <<now, job, issued, published, outbox>>

\* Projecting, encoding or uploading the product fails before any transaction.
UploadError(w, fault) ==
    /\ worker[w].pc = "uploading"
    /\ worker' = [worker EXCEPT ![w].pc = "raised", ![w].fault = fault]
    /\ UNCHANGED <<now, job, rowLock, issued, published, outbox>>

\* except Exception of FencedRecordingAnalysisWorker.execute: record the
\* failure if the lease still stands, retry at once, and raise.
FailRecording(w) ==
    LET l == worker[w].lease IN
    /\ worker[w].pc = "raised"
    /\ ~IsSuite(w)
    /\ job' = IF LeaseIsCurrent(l)
              THEN [job EXCEPT ![l.job] = FailedRow(@, now)]
              ELSE job
    /\ worker' = [worker EXCEPT ![w] = [Idle EXCEPT !.pc = "down"]]
    /\ UNCHANGED <<now, rowLock, issued, published, outbox>>

\* The except clauses of FencedStarlinkSuiteAnalysisWorkerV0_2.execute: park
\* invalid input and exhausted attempts, delay a retry otherwise, keep going.
SuiteOutcome(row, l, fault) ==
    IF fault = "invalid" \/ l.attempt >= MaximumAttempts
    THEN ParkedRow(row)
    ELSE FailedRow(row, now + RetryDelay)

FailSuite(w) ==
    LET l == worker[w].lease IN
    /\ worker[w].pc = "raised"
    /\ IsSuite(w)
    /\ job' = IF LeaseIsCurrent(l)
              THEN [job EXCEPT ![l.job] = SuiteOutcome(@, l, worker[w].fault)]
              ELSE job
    /\ worker' = [worker EXCEPT ![w] = Idle]
    /\ UNCHANGED <<now, rowLock, issued, published, outbox>>

\* The process dies; an open transaction is rolled back, the row keeps its lease.
Crash(w) ==
    /\ Busy(w)
    /\ rowLock' = [j \in Jobs |-> IF rowLock[j] = w THEN NoWorker ELSE rowLock[j]]
    /\ worker' = [worker EXCEPT ![w] = [Idle EXCEPT !.pc = "down"]]
    /\ UNCHANGED <<now, job, issued, published, outbox>>

\* The supervisor starts the service again.
Restart(w) ==
    /\ worker[w].pc = "down"
    /\ worker' = [worker EXCEPT ![w] = Idle]
    /\ UNCHANGED <<now, job, rowLock, issued, published, outbox>>

Tick ==
    /\ now < MaxClock
    /\ now' = now + 1
    /\ UNCHANGED <<job, rowLock, issued, published, outbox, worker>>

-----------------------------------------------------------------------------
Progress(w) ==
    \/ Claim(w) \/ Prepared(w) \/ Upload(w) \/ BeginCommit(w) \/ Commit(w)
    \/ FailRecording(w) \/ FailSuite(w) \/ Restart(w)

Adversity(w) ==
    \/ HeartbeatError(w) \/ Crash(w)
    \/ \E fault \in Raisable :
         PrepareError(w, fault) \/ UploadError(w, fault) \/ Rollback(w, fault)

Next ==
    \/ Tick
    \/ \E j \in Jobs, a \in {now, now + RetryDelay} : Enqueue(j, a)
    \/ \E w \in Workers : Progress(w) \/ Heartbeat(w) \/ Adversity(w)

Spec == Init /\ [][Next]_vars

\* The database clock advances, each worker thread is scheduled, prepare and
\* every statement return, and the supervisor restarts a dead process.
FairSpec ==
    /\ Spec
    /\ WF_vars(Tick)
    /\ \A w \in Workers : WF_vars(Progress(w) \/ Rollback(w, "transient"))

-----------------------------------------------------------------------------
(* Properties.                                                             *)

\* A product is visible exactly when its job has succeeded, it is the only
\* product of that job, and it comes from the last generation ever leased, so
\* an expired worker never publishes behind or beside its successor
\* (AtomicPostgresRecordingAnalysisCommitter.commit).
SuccessIsPublication ==
    \A j \in Jobs :
        IF job[j].state = "succeeded"
        THEN /\ {p \in published : p[1] = j} = {<<j, job[j].generation>>}
             /\ job[j].result = job[j].generation
             /\ j \in outbox
        ELSE /\ \A p \in published : p[1] # j
             /\ j \notin outbox

\* Until it expires, a lease is its holder's: no step of another worker, of a
\* predecessor that still believes in the lease it has lost, or of the holder's
\* heartbeat shortens it, hands the row on or ends it.  Only the holder's own
\* completion, failure or parking does (claim_job's test of lease_expires_utc, and
\* the token in heartbeat_job, complete_job, fail_job and park_job).
LeaseKept(j) ==
    /\ job'[j].state = "leased" /\ job'[j].token = job[j].token
    /\ job'[j].expires >= job[j].expires
LeaseEndedByHolder(j) ==
    /\ job'[j].state \in {"succeeded", "failed", "parked"}
    /\ \E w \in Workers :
         /\ worker[w].pc \in {"locked", "raised"}
         /\ worker[w].lease.job = j /\ worker[w].lease.token = job[j].token
         /\ worker'[w] # worker[w]
LiveLeaseIsKept ==
    [][\A j \in Jobs : job[j].state = "leased" /\ job[j].expires > now
          => LeaseKept(j) \/ LeaseEndedByHolder(j)]_vars

\* The row a commit transaction holds is still leased to the committer, however
\* long the transaction takes: no claim slips in once the fence is taken, even
\* when the lease runs out under it.
CommitHoldsTheFence ==
    \A j \in Jobs : rowLock[j] # NoWorker =>
        LET l == worker[rowLock[j]].lease IN
        /\ worker[rowLock[j]].pc = "locked"
        /\ l.job = j
        /\ job[j].state = "leased"
        /\ job[j].token = l.token
        /\ job[j].generation = l.generation

\* A suite job waiting for a retry still has an attempt left: an error on the
\* last attempt parks the job instead of queueing it again.
RetryHasBudget ==
    \A j \in SuiteJobs : job[j].state = "failed" => job[j].attempt < MaximumAttempts

\* A succeeded or parked row never changes again: no claim, late failure, late
\* parking or late heartbeat touches it.
OutcomeIsFinal ==
    [][\A j \in Jobs : job[j].state \in Terminal => job'[j] = job[j]]_vars

\* A lease never outlives its holder for good: once the clock has passed its
\* expiry the job is finished, failed or leased again, unless the bounds on
\* claims and on the clock have been reached.
LeaseIsReclaimed ==
    \A j \in Jobs : \A g \in 1..(MaxClaims - 1) :
        (job[j].state = "leased" /\ job[j].generation = g)
            ~> (job[j].state # "leased" \/ job[j].generation > g
                \/ job[j].expires > MaxClock)

\* The leases implement the promise of JobOutcome: one outcome per job, a
\* product exactly with success, for every interleaving, expiry and crash.
Outcome == INSTANCE JobOutcome WITH
    outcome <- [j \in Jobs |->
                  IF job[j].state \in Terminal THEN job[j].state ELSE "open"],
    products <- {p[1] : p \in published},
    delivered <- outbox
ImplementsOutcome == Outcome!Spec
=============================================================================
