--------------------------- MODULE JobLeaseProofs ---------------------------
(***************************************************************************)
(* Proofs about JobLease for every set of jobs and workers and every value *)
(* of the time constants and bounds.                                       *)
(***************************************************************************)
EXTENDS JobLease, TLAPS

\* The three ways a current lease ends leave a well-formed row.
LEMMA RowTypes ==
  ASSUME NEW row \in Row, NEW n \in Nat
  PROVE  /\ CompletedRow(row, n) \in Row
         /\ FailedRow(row, n) \in Row
         /\ ParkedRow(row) \in Row
  BY DEF Row, JobState, CompletedRow, FailedRow, ParkedRow, NoTime, NoToken

\* An idle and a stopped worker are well-formed processes.
LEMMA IdleTypes ==
  /\ Idle \in Process
  /\ [Idle EXCEPT !.pc = "down"] \in Process
  BY DEF Idle, NoLease, Process, Lease, WorkerState, Fault, NoToken, NoJob

\* A worker that raises stays a well-formed process.
LEMMA RaisedType ==
  ASSUME NEW p \in Process, NEW f \in Raisable
  PROVE  [p EXCEPT !.pc = "raised", !.fault = f] \in Process
  BY DEF Process, WorkerState, Fault

\* The empty table and idle workers are well-formed.
LEMMA InitTypes == Init => TypeOK
  BY JobsAssumption, WorkersAssumption, TimesAssumption
     DEF Init, TypeOK, Row, Process, Lease, Idle, NoLease, JobState, WorkerState,
         Fault, NoTime, NoToken, NoJob, Busy

\* Every row, lock, lease and product keeps its type under every operation of
\* the job table and of the workers.
THEOREM TypeCorrect == Spec => []TypeOK
<1> USE JobsAssumption, WorkersAssumption, TimesAssumption
<1>1. Init => TypeOK
  BY InitTypes
<1>2. TypeOK /\ [Next]_vars => TypeOK'
  <2> SUFFICES ASSUME TypeOK, [Next]_vars PROVE TypeOK'
    OBVIOUS
  <2> USE DEF TypeOK, Busy
  <2>1. CASE Tick
    BY <2>1 DEF Tick
  <2>2. ASSUME NEW j \in Jobs, NEW a \in {now, now + RetryDelay}, Enqueue(j, a)
        PROVE  TypeOK'
    <3>1. a \in Nat
      OBVIOUS
    <3>2. job' \in [Jobs -> Row]
      <4>1. job[j] \in Row
        OBVIOUS
      <4>2. [job[j] EXCEPT !.state = "ready", !.available = a] \in Row
        BY ONLY <3>1, <4>1 DEF Row, JobState
      <4> QED
        BY <2>2, <4>2 DEF Enqueue
    <3> QED
      BY <2>2, <3>2 DEF Enqueue
  <2>3. ASSUME NEW w \in Workers, Claim(w) PROVE TypeOK'
    <3>1. PICK j \in Jobs :
            /\ issued' = issued + 1
            /\ job' = [job EXCEPT ![j].state = "leased",
                                  ![j].attempt = @ + 1,
                                  ![j].generation = @ + 1,
                                  ![j].token = issued + 1,
                                  ![j].expires = now + LeaseTtl]
            /\ worker' = [worker EXCEPT ![w] =
                 [pc |-> "preparing", fault |-> "none",
                  lease |-> [job |-> j, token |-> issued + 1,
                             generation |-> job[j].generation + 1,
                             attempt |-> job[j].attempt + 1],
                  heartbeat |-> IF j \in SuiteJobs THEN "running" ELSE "off"]]
      BY <2>3 DEF Claim
    <3>2. job' \in [Jobs -> Row]
      BY <3>1 DEF Row, JobState
    <3>3. worker' \in [Workers -> Process]
      BY <3>1 DEF Row, Process, Lease, WorkerState, Fault
    <3> QED
      BY <2>3, <3>1, <3>2, <3>3 DEF Claim
  <2>4. ASSUME NEW w \in Workers, Heartbeat(w) PROVE TypeOK'
    <3>1. worker' \in [Workers -> Process]
      BY <2>4 DEF Heartbeat, Process
    <3>2. job' \in [Jobs -> Row]
      <4>1. CASE UNCHANGED job
        BY <4>1
      <4>2. CASE job' = [job EXCEPT ![worker[w].lease.job].expires = now + LeaseTtl]
        <5> DEFINE j == worker[w].lease.job
        <5>1. j \in Jobs /\ now + LeaseTtl \in Nat
          BY <2>4 DEF Heartbeat
        <5>2. [job[j] EXCEPT !.expires = now + LeaseTtl] \in Row
          BY <5>1 DEF Row
        <5> QED
          BY <4>2, <5>1, <5>2
      <4> QED
        BY <2>4, <4>1, <4>2 DEF Heartbeat
    <3>3. \A v \in Workers : worker'[v].pc = worker[v].pc
                              /\ worker'[v].lease = worker[v].lease
      BY <2>4 DEF Heartbeat, Process
    <3> QED
      BY <2>4, <3>1, <3>2, <3>3 DEF Heartbeat
  <2>5. ASSUME NEW w \in Workers, HeartbeatError(w) PROVE TypeOK'
    BY <2>5 DEF HeartbeatError, Process
  <2>6. ASSUME NEW w \in Workers, Prepared(w) PROVE TypeOK'
    BY <2>6 DEF Prepared, Process, WorkerState, Fault
  <2>7. ASSUME NEW w \in Workers, NEW f \in Raisable,
               PrepareError(w, f)
        PROVE  TypeOK'
    BY <2>7 DEF PrepareError, Process, WorkerState, Fault
  <2>8. ASSUME NEW w \in Workers, Upload(w) PROVE TypeOK'
    BY <2>8 DEF Upload, Process, WorkerState
  <2>9. ASSUME NEW w \in Workers, BeginCommit(w) PROVE TypeOK'
    BY <2>9 DEF BeginCommit, Process, WorkerState, Fault
  <2>10. ASSUME NEW w \in Workers, Commit(w) PROVE TypeOK'
    <3>1. worker[w].lease.job \in Jobs
      BY <2>10 DEF Commit
    <3>2. worker[w].lease.generation \in Nat
      BY DEF Process, Lease
    <3>3. job' \in [Jobs -> Row]
      BY <2>10, <3>1, <3>2, RowTypes DEF Commit
    <3>4. worker' \in [Workers -> Process]
      <4>1. CASE worker' = [worker EXCEPT ![w] = Idle]
        BY <4>1, IdleTypes
      <4>2. CASE worker' = [worker EXCEPT ![w].pc = "raised", ![w].fault = "transient"]
        BY <4>2, RaisedType DEF Raisable
      <4> QED
        BY <2>10, <4>1, <4>2 DEF Commit
    <3>5. published' \subseteq Jobs \X Nat /\ outbox' \subseteq Jobs
      <4>1. <<worker[w].lease.job, worker[w].lease.generation>> \in Jobs \X Nat
        BY <3>1, <3>2
      <4> QED
        BY <2>10, <3>1, <4>1 DEF Commit
    <3>6. rowLock' \in [Jobs -> Workers \cup {NoWorker}]
      BY <2>10 DEF Commit
    <3>7. \A v \in Workers : Busy(v)' => worker'[v].lease.job \in Jobs
      <4>1. CASE worker' = [worker EXCEPT ![w] = Idle]
        BY <4>1 DEF Idle
      <4>2. CASE worker' = [worker EXCEPT ![w].pc = "raised", ![w].fault = "transient"]
        BY <3>1, <4>2 DEF Process
      <4> QED
        BY <2>10, <4>1, <4>2 DEF Commit
    <3> QED
      BY <2>10, <3>3, <3>4, <3>5, <3>6, <3>7 DEF Commit
  <2>11. ASSUME NEW w \in Workers, NEW f \in Raisable, Rollback(w, f) PROVE TypeOK'
    <3>1. worker' \in [Workers -> Process]
      BY <2>11, RaisedType DEF Rollback
    <3> QED
      BY <2>11, <3>1 DEF Rollback
  <2>12. ASSUME NEW w \in Workers, NEW f \in Raisable, UploadError(w, f) PROVE TypeOK'
    <3>1. worker' \in [Workers -> Process]
      BY <2>12, RaisedType DEF UploadError
    <3> QED
      BY <2>12, <3>1 DEF UploadError
  <2>13. ASSUME NEW w \in Workers, FailRecording(w) PROVE TypeOK'
    <3>1. worker[w].lease.job \in Jobs
      BY <2>13 DEF FailRecording
    <3>2. worker' \in [Workers -> Process]
      BY <2>13, IdleTypes DEF FailRecording
    <3>3. job' \in [Jobs -> Row]
      BY <2>13, <3>1, RowTypes DEF FailRecording
    <3> QED
      BY <2>13, <3>2, <3>3 DEF FailRecording, Idle
  <2>14. ASSUME NEW w \in Workers, FailSuite(w) PROVE TypeOK'
    <3>1. worker[w].lease.job \in Jobs
      BY <2>14 DEF FailSuite
    <3>2. worker' \in [Workers -> Process]
      BY <2>14, IdleTypes DEF FailSuite
    <3>3. now + RetryDelay \in Nat
      OBVIOUS
    <3>4. job' \in [Jobs -> Row]
      BY <2>14, <3>1, <3>3, RowTypes DEF FailSuite, SuiteOutcome
    <3> QED
      BY <2>14, <3>2, <3>4 DEF FailSuite, Idle
  <2>15. ASSUME NEW w \in Workers, Crash(w) PROVE TypeOK'
    <3>1. worker' \in [Workers -> Process]
      BY <2>15, IdleTypes DEF Crash
    <3> QED
      BY <2>15, <3>1 DEF Crash, Idle
  <2>16. ASSUME NEW w \in Workers, Restart(w) PROVE TypeOK'
    <3>1. worker' \in [Workers -> Process]
      BY <2>16, IdleTypes DEF Restart
    <3> QED
      BY <2>16, <3>1 DEF Restart, Idle
  <2>17. CASE UNCHANGED vars
    BY <2>17 DEF vars
  <2> QED
    BY <2>1, <2>2, <2>3, <2>4, <2>5, <2>6, <2>7, <2>8, <2>9, <2>10, <2>11, <2>12,
       <2>13, <2>14, <2>15, <2>16, <2>17 DEF Next, Progress, Adversity
<1> QED
  BY <1>1, <1>2, PTL DEF Spec

-----------------------------------------------------------------------------
\* What a step may do to the table: Commit completes one leased row, and every
\* other step leaves products and outbox alone and rewrites at most one row,
\* which was not terminal and does not become succeeded.
LEMMA StepShape ==
  ASSUME TypeOK, [Next]_vars
  PROVE  \/ \E w \in Workers : Commit(w)
         \/ /\ UNCHANGED <<published, outbox>>
            /\ \/ UNCHANGED job
               \/ \E j \in Jobs : \E r :
                    /\ job' = [job EXCEPT ![j] = r]
                    /\ job[j].state \notin Terminal
                    /\ r.state \in JobState \ {"succeeded"}
<1> DEFINE Rewrites == \E j \in Jobs : \E r :
                          /\ job' = [job EXCEPT ![j] = r]
                          /\ job[j].state \notin Terminal
                          /\ r.state \in JobState \ {"succeeded"}
           Shape == /\ UNCHANGED <<published, outbox>>
                    /\ UNCHANGED job \/ Rewrites
<1>1. CASE Tick
  BY <1>1 DEF Tick
<1>2. ASSUME NEW j \in Jobs, NEW a \in {now, now + RetryDelay}, Enqueue(j, a)
      PROVE  Shape
  <2> DEFINE r == [job[j] EXCEPT !.state = "ready", !.available = a]
  <2>1. job' = [job EXCEPT ![j] = r] /\ r.state = "ready"
    BY <1>2 DEF Enqueue, TypeOK, Row
  <2>2. job[j].state \notin Terminal
    BY <1>2 DEF Enqueue, Terminal
  <2> QED
    BY <1>2, <2>1, <2>2 DEF Enqueue, JobState
<1>3. ASSUME NEW w \in Workers, Claim(w) PROVE Shape
  <2>1. PICK j \in Jobs :
          /\ Claimable(j)
          /\ job' = [job EXCEPT ![j].state = "leased",
                                ![j].attempt = @ + 1,
                                ![j].generation = @ + 1,
                                ![j].token = issued + 1,
                                ![j].expires = now + LeaseTtl]
    BY <1>3 DEF Claim
  <2> DEFINE r == [job[j] EXCEPT !.state = "leased", !.attempt = @ + 1,
                                 !.generation = @ + 1, !.token = issued + 1,
                                 !.expires = now + LeaseTtl]
  <2>2. job' = [job EXCEPT ![j] = r] /\ r.state = "leased"
    BY <2>1 DEF TypeOK, Row
  <2>3. job[j].state \notin Terminal
    BY <2>1 DEF Claimable, Terminal
  <2> QED
    BY <1>3, <2>2, <2>3 DEF Claim, JobState
<1>4. ASSUME NEW w \in Workers, Heartbeat(w) PROVE Shape
  <2> DEFINE j == worker[w].lease.job
             r == [job[j] EXCEPT !.expires = now + LeaseTtl]
  <2>1. CASE UNCHANGED job
    BY <1>4, <2>1 DEF Heartbeat
  <2>2. CASE LeaseIsCurrent(worker[w].lease) /\ job' = [job EXCEPT ![j] = r]
    <3>1. j \in Jobs
      BY <1>4 DEF Heartbeat, TypeOK, Busy
    <3>2. job[j].state = "leased" /\ r.state = "leased"
      BY <2>2, <3>1 DEF LeaseIsCurrent, TypeOK, Row
    <3>3. Rewrites
      BY <2>2, <3>1, <3>2 DEF Terminal, JobState
    <3> QED
      BY <1>4, <3>3 DEF Heartbeat
  <2> QED
    BY <1>4, <2>1, <2>2 DEF Heartbeat
<1>5. ASSUME NEW w \in Workers, FailRecording(w) PROVE Shape
  <2> DEFINE j == worker[w].lease.job
             r == FailedRow(job[j], now)
  <2>1. CASE UNCHANGED job
    BY <1>5, <2>1 DEF FailRecording
  <2>2. CASE LeaseIsCurrent(worker[w].lease) /\ job' = [job EXCEPT ![j] = r]
    <3>1. j \in Jobs
      BY <1>5 DEF FailRecording, TypeOK, Busy
    <3>2. job[j].state = "leased" /\ r.state = "failed"
      BY <2>2, <3>1 DEF LeaseIsCurrent, TypeOK, Row, FailedRow
    <3>3. Rewrites
      BY <2>2, <3>1, <3>2 DEF Terminal, JobState
    <3> QED
      BY <1>5, <3>3 DEF FailRecording
  <2> QED
    BY <1>5, <2>1, <2>2 DEF FailRecording
<1>6. ASSUME NEW w \in Workers, FailSuite(w) PROVE Shape
  <2> DEFINE j == worker[w].lease.job
             r == SuiteOutcome(job[j], worker[w].lease, worker[w].fault)
  <2>1. CASE UNCHANGED job
    BY <1>6, <2>1 DEF FailSuite
  <2>2. CASE LeaseIsCurrent(worker[w].lease) /\ job' = [job EXCEPT ![j] = r]
    <3>1. j \in Jobs
      BY <1>6 DEF FailSuite, TypeOK, Busy
    <3>2. job[j].state = "leased" /\ r.state \in {"failed", "parked"}
      BY <2>2, <3>1 DEF LeaseIsCurrent, TypeOK, Row, SuiteOutcome, FailedRow, ParkedRow
    <3>3. Rewrites
      BY <2>2, <3>1, <3>2 DEF Terminal, JobState
    <3> QED
      BY <1>6, <3>3 DEF FailSuite
  <2> QED
    BY <1>6, <2>1, <2>2 DEF FailSuite
<1>7. ASSUME NEW w \in Workers,
             \/ HeartbeatError(w) \/ Prepared(w) \/ Upload(w) \/ BeginCommit(w)
             \/ Crash(w) \/ Restart(w)
             \/ \E f \in Raisable :
                  PrepareError(w, f) \/ UploadError(w, f) \/ Rollback(w, f)
      PROVE  Shape
  BY <1>7 DEF HeartbeatError, Prepared, Upload, BeginCommit, Rollback, UploadError,
              Crash, Restart, PrepareError
<1>8. CASE UNCHANGED vars
  BY <1>8 DEF vars
<1> QED
  BY <1>1, <1>2, <1>3, <1>4, <1>5, <1>6, <1>7, <1>8 DEF Next, Progress, Adversity

\* What Commit does: the row was leased to the committer and is completed with
\* the committer's generation.
LEMMA CommitShape ==
  ASSUME TypeOK, NEW w \in Workers, Commit(w)
  PROVE  \E j \in Jobs :
           /\ job[j].state = "leased"
           /\ job' = [job EXCEPT ![j] = CompletedRow(@, job[j].generation)]
           /\ published' = published \cup {<<j, job[j].generation>>}
           /\ outbox' = outbox \cup {j}
<1>1. worker[w].lease.job \in Jobs
  BY DEF Commit, TypeOK, Busy
<1> QED
  BY <1>1 DEF Commit, LeaseIsCurrent

\* Product visibility and job success are one decision, and only the last
\* generation publishes: SuccessIsPublication is inductive together with the
\* types (AtomicPostgresRecordingAnalysisCommitter.commit).
THEOREM SuccessTheorem == Spec => []SuccessIsPublication
<1>1. Init => SuccessIsPublication
  BY DEF Init, SuccessIsPublication
<1>2. TypeOK /\ SuccessIsPublication /\ [Next]_vars => SuccessIsPublication'
  <2> SUFFICES ASSUME TypeOK, SuccessIsPublication, [Next]_vars
               PROVE  SuccessIsPublication'
    OBVIOUS
  <2> USE DEF SuccessIsPublication
  <2>1. ASSUME NEW w \in Workers, Commit(w) PROVE SuccessIsPublication'
    <3>1. PICK j \in Jobs :
            /\ job[j].state = "leased"
            /\ job' = [job EXCEPT ![j] = CompletedRow(@, job[j].generation)]
            /\ published' = published \cup {<<j, job[j].generation>>}
            /\ outbox' = outbox \cup {j}
      BY <2>1, CommitShape
    <3>2. /\ job'[j].state = "succeeded"
          /\ job'[j].generation = job[j].generation
          /\ job'[j].result = job[j].generation
      BY <3>1 DEF CompletedRow, TypeOK, Row
    <3>3. \A p \in published : p[1] # j
      BY <3>1
    <3>4. {p \in published' : p[1] = j} = {<<j, job'[j].generation>>}
      BY <3>1, <3>2, <3>3
    <3>5. ASSUME NEW i \in Jobs, i # j
          PROVE  /\ job'[i] = job[i]
                 /\ {p \in published' : p[1] = i} = {p \in published : p[1] = i}
                 /\ i \in outbox' <=> i \in outbox
      BY <3>1, <3>5 DEF TypeOK
    <3>6. ASSUME NEW i \in Jobs, i # j, job'[i].state # "succeeded"
          PROVE  (\A p \in published' : p[1] # i) /\ i \notin outbox'
      BY <3>5, <3>6
    <3> QED
      BY <3>1, <3>2, <3>4, <3>5, <3>6
  <2>2. CASE UNCHANGED <<published, outbox>> /\ UNCHANGED job
    BY <2>2
  <2>3. ASSUME UNCHANGED <<published, outbox>>, NEW j \in Jobs, NEW r,
               job' = [job EXCEPT ![j] = r], job[j].state \notin Terminal,
               r.state \in JobState \ {"succeeded"}
        PROVE  SuccessIsPublication'
    <3>1. job'[j].state # "succeeded" /\ job[j].state # "succeeded"
      BY <2>3 DEF TypeOK, Terminal
    <3>2. \A i \in Jobs : i # j => job'[i] = job[i]
      BY <2>3 DEF TypeOK
    <3> QED
      BY <2>3, <3>1, <3>2
  <2> QED
    BY <2>1, <2>2, <2>3, StepShape
<1> QED
  BY <1>1, <1>2, TypeCorrect, PTL DEF Spec

\* No step changes a succeeded or parked row: late completions, failures,
\* parkings and heartbeats of lost leases have no effect on it.
THEOREM FinalTheorem == Spec => OutcomeIsFinal
<1>1. TypeOK /\ [Next]_vars
        => [\A j \in Jobs : job[j].state \in Terminal => job'[j] = job[j]]_vars
  <2> SUFFICES ASSUME TypeOK, [Next]_vars, NEW j \in Jobs, job[j].state \in Terminal
               PROVE  job'[j] = job[j]
    OBVIOUS
  <2>1. ASSUME NEW w \in Workers, Commit(w) PROVE job'[j] = job[j]
    <3>1. PICK i \in Jobs :
            /\ job[i].state = "leased"
            /\ job' = [job EXCEPT ![i] = CompletedRow(@, job[i].generation)]
      BY <2>1, CommitShape
    <3> QED
      BY <3>1 DEF TypeOK, Terminal
  <2> QED
    BY <2>1, StepShape DEF TypeOK
<1> QED
  BY <1>1, TypeCorrect, PTL DEF Spec, OutcomeIsFinal

-----------------------------------------------------------------------------
\* Every behaviour of the leases is a behaviour of JobOutcome: a commit is its
\* Succeed, a parking its Park, and everything else a stutter.
THEOREM OutcomeRefinement == Spec => ImplementsOutcome
<1> DEFINE out == [j \in Jobs |->
                     IF job[j].state \in Terminal THEN job[j].state ELSE "open"]
           prods == {p[1] : p \in published}
<1>1. Init => Outcome!Init
  BY DEF Init, Outcome!Init, Terminal
<1>2. TypeOK /\ [Next]_vars => [Outcome!Next]_(Outcome!vars)
  <2> SUFFICES ASSUME TypeOK, [Next]_vars PROVE [Outcome!Next]_(Outcome!vars)
    OBVIOUS
  <2>1. ASSUME NEW w \in Workers, Commit(w) PROVE Outcome!Next
    <3>1. PICK j \in Jobs :
            /\ job[j].state = "leased"
            /\ job' = [job EXCEPT ![j] = CompletedRow(@, job[j].generation)]
            /\ published' = published \cup {<<j, job[j].generation>>}
            /\ outbox' = outbox \cup {j}
      BY <2>1, CommitShape
    <3>2. job'[j].state = "succeeded"
      BY <3>1 DEF CompletedRow, TypeOK, Row
    <3>3. out' = [out EXCEPT ![j] = "succeeded"]
      BY <3>1, <3>2 DEF TypeOK, Terminal
    <3>4. prods' = prods \cup {j}
      <4>1. \A x : x \in prods' <=> \E p \in published' : x = p[1]
        OBVIOUS
      <4>2. \A x : x \in prods <=> \E p \in published : x = p[1]
        OBVIOUS
      <4>3. <<j, job[j].generation>>[1] = j
        OBVIOUS
      <4> HIDE DEF prods
      <4>4. \A x : x \in prods' <=> x \in prods \/ x = j
        BY <3>1, <4>1, <4>2, <4>3
      <4> QED
        BY <4>4
    <3>5. Outcome!Succeed(j)
      <4>1. out[j] = "open"
        BY <3>1 DEF Terminal
      <4> QED
        BY <3>1, <3>3, <3>4, <4>1 DEF Outcome!Succeed
    <3> QED
      BY <3>5 DEF Outcome!Next
  <2>2. CASE UNCHANGED <<published, outbox>> /\ UNCHANGED job
    BY <2>2 DEF Outcome!vars
  <2>3. ASSUME UNCHANGED <<published, outbox>>, NEW j \in Jobs, NEW r,
               job' = [job EXCEPT ![j] = r], job[j].state \notin Terminal,
               r.state \in JobState \ {"succeeded"}
        PROVE  [Outcome!Next]_(Outcome!vars)
    <3>1. CASE r.state = "parked"
      <4>1. out' = [out EXCEPT ![j] = "parked"]
        BY <2>3, <3>1 DEF TypeOK, Terminal
      <4>2. Outcome!Park(j)
        BY <2>3, <4>1 DEF Outcome!Park
      <4> QED
        BY <4>2 DEF Outcome!Next
    <3>2. CASE r.state # "parked"
      <4>1. out' = out
        BY <2>3, <3>2 DEF TypeOK, Terminal
      <4> QED
        BY <2>3, <4>1 DEF Outcome!vars
    <3> QED
      BY <3>1, <3>2
  <2> QED
    BY <2>1, <2>2, <2>3, StepShape
<1> QED
  BY <1>1, <1>2, TypeCorrect, PTL DEF Spec, ImplementsOutcome, Outcome!Spec


-----------------------------------------------------------------------------
(***************************************************************************)
(* The lease token as a fence: what JobLease promises about who may act on *)
(* a row.  CommitHoldsTheFence and RetryHasBudget are                      *)
(* not inductive: a worker that has lost its lease still remembers a       *)
(* token, and only the history of the tokens tells why it can never match  *)
(* again.  FenceInv adds that history.                                     *)
(***************************************************************************)

\* Every token in a row or in a worker's memory has been issued, and a
\* worker's is never the null token of a released row.
TokensIssued ==
    /\ \A w \in Workers : Busy(w) => worker[w].lease.token \in 1..issued
    /\ \A j \in Jobs : job[j].token <= issued

\* No two workers remember one token.
TokensDistinct ==
    \A v, w \in Workers :
        Busy(v) /\ Busy(w) /\ worker[v].lease.token = worker[w].lease.token => v = w

\* The attempt a worker compares with the maximum is the row's own as long as
\* its token is.
AttemptKnown ==
    \A w \in Workers :
        LET l == worker[w].lease IN
        Busy(w) /\ job[l.job].token = l.token => job[l.job].attempt = l.attempt

FenceInv ==
    /\ TypeOK /\ TokensIssued /\ TokensDistinct /\ AttemptKnown
    /\ CommitHoldsTheFence /\ RetryHasBudget

-----------------------------------------------------------------------------
\* A step that leaves tokens, attempts and generations alone and takes no lock.
\* The worker w keeps its lease or forgets it; NoWorker stands for a step that
\* is no worker's.
QuietStep(w) ==
    /\ issued' = issued
    /\ \A v \in Workers \ {w} : worker'[v] = worker[v]
    /\ w \in Workers =>
        \/ worker'[w].pc \in {"idle", "down"}
        \/ worker'[w].lease = worker[w].lease /\ Busy(w)
    /\ \A j \in Jobs :
        /\ job'[j].token = job[j].token
        /\ job'[j].attempt = job[j].attempt
        /\ job'[j].generation = job[j].generation
        /\ \/ job'[j].state = job[j].state
           \/ job[j].state = "absent" /\ job'[j].state = "ready"
        /\ rowLock'[j] \in {rowLock[j], NoWorker}
        /\ w \in Workers => rowLock'[j] # w

\* Whatever does not touch tokens and locks preserves the fence.
LEMMA QuietPreserves ==
  ASSUME FenceInv, TypeOK', NEW w, QuietStep(w)
  PROVE  FenceInv'
<1> USE DEF FenceInv, QuietStep, Busy
<1>1. TokensIssued'
  BY DEF TokensIssued, TypeOK
<1>2. TokensDistinct'
  BY DEF TokensDistinct
<1>3. AttemptKnown'
  BY DEF AttemptKnown, TypeOK
<1>4. CommitHoldsTheFence'
  <2> SUFFICES ASSUME NEW j \in Jobs, rowLock'[j] # NoWorker
               PROVE  LET l == worker'[rowLock'[j]].lease IN
                      /\ worker'[rowLock'[j]].pc = "locked"
                      /\ l.job = j
                      /\ job'[j].state = "leased"
                      /\ job'[j].token = l.token
                      /\ job'[j].generation = l.generation
    BY DEF CommitHoldsTheFence
  <2>1. rowLock'[j] = rowLock[j] /\ rowLock[j] \in Workers \ {w}
    BY DEF TypeOK
  <2>2. worker'[rowLock'[j]] = worker[rowLock[j]]
    BY <2>1
  <2> QED
    BY <2>1, <2>2 DEF CommitHoldsTheFence
<1>5. RetryHasBudget'
  BY JobsAssumption DEF RetryHasBudget
<1> QED
  BY <1>1, <1>2, <1>3, <1>4, <1>5

\* A worker ends its current lease of row j: the token is cleared, and a suite
\* job that fails has attempts left.
ReleaseStep(w, j) ==
    /\ issued' = issued
    /\ Busy(w) /\ worker[w].lease.job = j
    /\ \A v \in Workers \ {w} : worker'[v] = worker[v]
    /\ \/ worker'[w].pc \in {"idle", "down"}
       \/ worker'[w].lease = worker[w].lease
    /\ \A i \in Jobs \ {j} : job'[i] = job[i] /\ rowLock'[i] = rowLock[i]
    /\ rowLock'[j] = NoWorker
    /\ job'[j].token = NoToken
    /\ job'[j].attempt = job[j].attempt
    /\ j \in SuiteJobs /\ job'[j].state = "failed" => job[j].attempt < MaximumAttempts

\* The end of a lease preserves the fence.
LEMMA ReleasePreserves ==
  ASSUME FenceInv, TypeOK', NEW w \in Workers, NEW j \in Jobs, ReleaseStep(w, j)
  PROVE  FenceInv'
<1> USE DEF FenceInv, ReleaseStep, Busy
<1>1. TokensIssued'
  BY DEF TokensIssued, TypeOK, NoToken
<1>2. TokensDistinct'
  BY DEF TokensDistinct
<1>3. AttemptKnown'
  <2> SUFFICES ASSUME NEW v \in Workers, Busy(v)',
                      job'[worker'[v].lease.job].token = worker'[v].lease.token
               PROVE  job'[worker'[v].lease.job].attempt = worker'[v].lease.attempt
    BY DEF AttemptKnown
  <2>1. Busy(v) /\ worker'[v].lease = worker[v].lease
    OBVIOUS
  <2>2. worker[v].lease.token # NoToken /\ worker[v].lease.job \in Jobs
    BY <2>1 DEF TokensIssued, NoToken, TypeOK
  <2>3. worker[v].lease.job # j
    BY <2>1, <2>2
  <2> QED
    BY <2>1, <2>2, <2>3 DEF AttemptKnown
<1>4. CommitHoldsTheFence'
  <2> SUFFICES ASSUME NEW i \in Jobs, rowLock'[i] # NoWorker
               PROVE  LET l == worker'[rowLock'[i]].lease IN
                      /\ worker'[rowLock'[i]].pc = "locked"
                      /\ l.job = i
                      /\ job'[i].state = "leased"
                      /\ job'[i].token = l.token
                      /\ job'[i].generation = l.generation
    BY DEF CommitHoldsTheFence
  <2>1. i # j /\ rowLock'[i] = rowLock[i] /\ job'[i] = job[i]
    OBVIOUS
  <2>2. rowLock[i] \in Workers /\ worker[rowLock[i]].lease.job = i
    BY <2>1 DEF TypeOK, CommitHoldsTheFence
  <2>3. worker'[rowLock'[i]] = worker[rowLock[i]]
    BY <2>1, <2>2
  <2> QED
    BY <2>1, <2>3 DEF CommitHoldsTheFence
<1>5. RetryHasBudget'
  BY JobsAssumption DEF RetryHasBudget
<1> QED
  BY <1>1, <1>2, <1>3, <1>4, <1>5

\* A worker whose lease is current is the only one whose transaction can hold
\* the row.
LEMMA HolderIsOwner ==
  ASSUME FenceInv, NEW w \in Workers, Busy(w), LeaseIsCurrent(worker[w].lease)
  PROVE  rowLock[worker[w].lease.job] \in {w, NoWorker}
<1> DEFINE j == worker[w].lease.job
<1>1. j \in Jobs
  BY DEF FenceInv, TypeOK
<1>2. SUFFICES ASSUME rowLock[j] # NoWorker PROVE rowLock[j] = w
  BY <1>1
<1>3. rowLock[j] \in Workers
  BY <1>1, <1>2 DEF FenceInv, TypeOK
<1>4. Busy(rowLock[j]) /\ worker[rowLock[j]].lease.token = worker[w].lease.token
  BY <1>1, <1>2 DEF FenceInv, CommitHoldsTheFence, LeaseIsCurrent, Busy
<1> QED
  BY <1>3, <1>4 DEF FenceInv, TokensDistinct

\* A claim issues a token nobody has and takes a row nobody holds.
LEMMA ClaimPreserves ==
  ASSUME FenceInv, TypeOK', NEW w \in Workers, Claim(w)
  PROVE  FenceInv'
<1> USE DEF FenceInv
<1>1. PICK j \in Jobs :
        /\ Claimable(j)
        /\ job' = [job EXCEPT ![j].state = "leased",
                              ![j].attempt = @ + 1,
                              ![j].generation = @ + 1,
                              ![j].token = issued + 1,
                              ![j].expires = now + LeaseTtl]
        /\ worker' = [worker EXCEPT ![w] =
             [pc |-> "preparing", fault |-> "none",
              lease |-> [job |-> j, token |-> issued + 1,
                         generation |-> job[j].generation + 1,
                         attempt |-> job[j].attempt + 1],
              heartbeat |-> IF j \in SuiteJobs THEN "running" ELSE "off"]]
  BY DEF Claim
<1>2. /\ issued' = issued + 1 /\ issued \in Nat
      /\ rowLock' = rowLock /\ rowLock[j] = NoWorker
      /\ ~Busy(w)
  BY <1>1 DEF Claim, Claimable, Busy, TypeOK
<1>3. \A i \in Jobs \ {j} : job'[i] = job[i]
  BY <1>1 DEF TypeOK
<1>4. /\ job'[j].token = issued + 1
      /\ job'[j].attempt = job[j].attempt + 1
      /\ job'[j].state = "leased"
  BY <1>1 DEF TypeOK, Row
<1>5. \A v \in Workers \ {w} : worker'[v] = worker[v]
  BY <1>1 DEF TypeOK
<1>6. /\ worker'[w].lease.job = j
      /\ worker'[w].lease.token = issued + 1
      /\ worker'[w].lease.attempt = job[j].attempt + 1
  BY <1>1 DEF TypeOK
<1>7. \A v \in Workers \ {w} : Busy(v)' <=> Busy(v)
  BY <1>5 DEF Busy
<1>8. TokensIssued'
  <2>1. \A v \in Workers \ {w} : Busy(v) =>
            worker[v].lease.token \in 1..(issued + 1)
    BY <1>2 DEF TokensIssued, TypeOK, Process, Lease
  <2>2. issued + 1 \in 1..(issued + 1)
    BY <1>2
  <2>3. \A i \in Jobs \ {j} : job[i].token <= issued + 1
    BY <1>2 DEF TokensIssued, TypeOK, Row
  <2> QED
    BY <1>2, <1>3, <1>4, <1>5, <1>6, <1>7, <2>1, <2>2, <2>3 DEF TokensIssued
<1>9. \A v \in Workers \ {w} : Busy(v) => worker[v].lease.token # issued + 1
  BY <1>2 DEF TokensIssued
<1>10. TokensDistinct'
  BY <1>5, <1>6, <1>7, <1>9 DEF TokensDistinct
<1>11. AttemptKnown'
  <2> SUFFICES ASSUME NEW v \in Workers, Busy(v)',
                      job'[worker'[v].lease.job].token = worker'[v].lease.token
               PROVE  job'[worker'[v].lease.job].attempt = worker'[v].lease.attempt
    BY DEF AttemptKnown
  <2>1. CASE v = w
    BY <1>4, <1>6, <2>1
  <2>2. CASE v # w
    <3>1. Busy(v) /\ worker'[v] = worker[v] /\ worker[v].lease.job \in Jobs
      BY <1>5, <1>7, <2>2 DEF TypeOK
    <3>2. worker[v].lease.job # j
      BY <1>4, <1>9, <2>2, <3>1
    <3> QED
      BY <1>3, <3>1, <3>2 DEF AttemptKnown
  <2> QED
    BY <2>1, <2>2
<1>12. CommitHoldsTheFence'
  <2> SUFFICES ASSUME NEW i \in Jobs, rowLock'[i] # NoWorker
               PROVE  LET l == worker'[rowLock'[i]].lease IN
                      /\ worker'[rowLock'[i]].pc = "locked"
                      /\ l.job = i
                      /\ job'[i].state = "leased"
                      /\ job'[i].token = l.token
                      /\ job'[i].generation = l.generation
    BY DEF CommitHoldsTheFence
  <2>1. i # j /\ rowLock'[i] = rowLock[i] /\ job'[i] = job[i]
    BY <1>2, <1>3
  <2>2. rowLock[i] \in Workers /\ worker[rowLock[i]].pc = "locked"
    BY <2>1 DEF TypeOK, CommitHoldsTheFence
  <2>3. rowLock[i] # w
    BY <1>2, <2>2 DEF Busy
  <2>4. worker'[rowLock'[i]] = worker[rowLock[i]]
    BY <1>5, <2>1, <2>2, <2>3
  <2> QED
    BY <2>1, <2>4 DEF CommitHoldsTheFence
<1>13. RetryHasBudget'
  BY <1>3, <1>4, JobsAssumption DEF RetryHasBudget
<1> QED
  BY <1>8, <1>10, <1>11, <1>12, <1>13

\* Taking the row lock: the lease is current, so nobody else holds the row.
LEMMA LockPreserves ==
  ASSUME FenceInv, TypeOK', NEW w \in Workers,
         worker[w].pc = "uploaded", LeaseIsCurrent(worker[w].lease),
         rowLock' = [rowLock EXCEPT ![worker[w].lease.job] = w],
         worker' = [worker EXCEPT ![w].pc = "locked"],
         UNCHANGED <<job, issued>>
  PROVE  FenceInv'
<1> USE DEF FenceInv
<1>1. /\ worker'[w].pc = "locked" /\ worker'[w].lease = worker[w].lease
      /\ \A v \in Workers \ {w} : worker'[v] = worker[v]
      /\ Busy(w) /\ Busy(w)'
  BY DEF TypeOK, Process, Busy
<1>2. \A v \in Workers : (Busy(v)' <=> Busy(v)) /\ worker'[v].lease = worker[v].lease
  BY <1>1 DEF Busy
<1>3. TokensIssued' /\ TokensDistinct' /\ AttemptKnown' /\ RetryHasBudget'
  BY <1>2 DEF TokensIssued, TokensDistinct, AttemptKnown, RetryHasBudget
<1>4. CommitHoldsTheFence'
  <2> SUFFICES ASSUME NEW i \in Jobs, rowLock'[i] # NoWorker
               PROVE  LET l == worker'[rowLock'[i]].lease IN
                      /\ worker'[rowLock'[i]].pc = "locked"
                      /\ l.job = i
                      /\ job'[i].state = "leased"
                      /\ job'[i].token = l.token
                      /\ job'[i].generation = l.generation
    BY DEF CommitHoldsTheFence
  <2>1. CASE i = worker[w].lease.job
    BY <1>1, <2>1 DEF TypeOK, LeaseIsCurrent
  <2>2. CASE i # worker[w].lease.job
    <3>1. rowLock'[i] = rowLock[i] /\ rowLock[i] \in Workers
      BY <2>2 DEF TypeOK
    <3>2. worker[rowLock[i]].pc = "locked"
      BY <3>1 DEF CommitHoldsTheFence
    <3>3. worker'[rowLock'[i]] = worker[rowLock[i]]
      BY <1>1, <3>1, <3>2
    <3> QED
      BY <3>1, <3>3 DEF CommitHoldsTheFence
  <2> QED
    BY <2>1, <2>2
<1> QED
  BY <1>3, <1>4

-----------------------------------------------------------------------------
\* The token fences the row: FenceInv is an invariant of the job table and its
\* workers under every expiry, renewal, error, crash and lost answer.
THEOREM FenceInvariant == Spec => []FenceInv
<1>1. Init => FenceInv
  BY InitTypes, JobsAssumption DEF Init, FenceInv, TokensIssued, TokensDistinct, AttemptKnown,
     Busy, Idle, CommitHoldsTheFence, RetryHasBudget, NoToken
<1>2. FenceInv /\ TypeOK' /\ [Next]_vars => FenceInv'
  <2> SUFFICES ASSUME FenceInv, TypeOK', [Next]_vars PROVE FenceInv'
    OBVIOUS
  <2>0. TypeOK
    BY DEF FenceInv
  <2>1. ASSUME Tick \/ UNCHANGED vars PROVE FenceInv'
    <3>1. QuietStep(NoWorker)
      BY <2>1, <2>0, WorkersAssumption DEF Tick, vars, QuietStep, TypeOK
    <3> QED
      BY <3>1, QuietPreserves
  <2>2. ASSUME NEW j \in Jobs, NEW a \in {now, now + RetryDelay}, Enqueue(j, a)
        PROVE  FenceInv'
    <3>1. QuietStep(NoWorker)
      BY <2>2, <2>0, WorkersAssumption DEF Enqueue, QuietStep, TypeOK, Row
    <3> QED
      BY <3>1, QuietPreserves
  <2>3. ASSUME NEW w \in Workers, Claim(w) PROVE FenceInv'
    BY <2>3, ClaimPreserves
  <2>4. ASSUME NEW w \in Workers,
               \/ Heartbeat(w) \/ HeartbeatError(w) \/ Prepared(w) \/ Upload(w)
               \/ \E f \in Raisable : PrepareError(w, f) \/ UploadError(w, f)
        PROVE  FenceInv'
    <3>1. \A j \in Jobs : rowLock[j] # w
      BY <2>4, WorkersAssumption
      DEF FenceInv, CommitHoldsTheFence, Heartbeat, HeartbeatError, Prepared, Upload,
          PrepareError, UploadError
    <3>2. QuietStep(w)
      BY <2>4, <2>0, <3>1 DEF QuietStep, Busy, TypeOK, Process, Row, Heartbeat,
         HeartbeatError, Prepared, Upload, PrepareError, UploadError
    <3> QED
      BY <3>2, QuietPreserves
  <2>5. ASSUME NEW w \in Workers, BeginCommit(w) PROVE FenceInv'
    <3>1. CASE LeaseIsCurrent(worker[w].lease)
      BY <2>5, <3>1, LockPreserves DEF BeginCommit
    <3>2. CASE ~LeaseIsCurrent(worker[w].lease)
      <4>1. \A j \in Jobs : rowLock[j] # w
        BY <2>5, WorkersAssumption DEF FenceInv, CommitHoldsTheFence, BeginCommit
      <4>2. QuietStep(w)
        BY <2>5, <2>0, <3>2, <4>1 DEF QuietStep, Busy, TypeOK, Process, BeginCommit
      <4> QED
        BY <4>2, QuietPreserves
    <3> QED
      BY <3>1, <3>2
  <2>6. ASSUME NEW w \in Workers, Commit(w) PROVE FenceInv'
    <3> DEFINE j == worker[w].lease.job
    <3>1. Busy(w) /\ j \in Jobs
      BY <2>6, <2>0 DEF Commit, Busy, TypeOK
    <3>2. /\ job'[j].token = NoToken /\ job'[j].state = "succeeded"
          /\ job'[j].attempt = job[j].attempt
          /\ \A i \in Jobs \ {j} : job'[i] = job[i] /\ rowLock'[i] = rowLock[i]
          /\ rowLock'[j] = NoWorker
      BY <2>6, <2>0, <3>1 DEF Commit, CompletedRow, TypeOK, Row
    <3>3. \A v \in Workers \ {w} : worker'[v] = worker[v]
      BY <2>6, <2>0 DEF Commit, TypeOK
    <3>4. \/ worker'[w].pc \in {"idle", "down"}
          \/ worker'[w].lease = worker[w].lease
      BY <2>6, <2>0 DEF Commit, Idle, TypeOK, Process
    <3>5. ReleaseStep(w, j)
      BY <2>6, <3>1, <3>2, <3>3, <3>4 DEF ReleaseStep, Commit
    <3> QED
      BY <3>1, <3>5, ReleasePreserves
  <2>7. ASSUME NEW w \in Workers, NEW f \in Raisable, Rollback(w, f) PROVE FenceInv'
    <3>1. \A j \in Jobs : rowLock[j] = w => j = worker[w].lease.job
      BY WorkersAssumption DEF FenceInv, CommitHoldsTheFence
    <3>2. QuietStep(w)
      BY <2>7, <2>0, <3>1, WorkersAssumption
         DEF QuietStep, Busy, TypeOK, Process, Rollback
    <3> QED
      BY <3>2, QuietPreserves
  <2>8. ASSUME NEW w \in Workers, Crash(w) PROVE FenceInv'
    <3>1. QuietStep(w)
      BY <2>8, <2>0, WorkersAssumption DEF QuietStep, TypeOK, Crash, Idle
    <3> QED
      BY <3>1, QuietPreserves
  <2>9. ASSUME NEW w \in Workers, Restart(w) PROVE FenceInv'
    <3>1. \A j \in Jobs : rowLock[j] # w
      BY <2>9, <2>0, WorkersAssumption DEF FenceInv, CommitHoldsTheFence, Restart, TypeOK
    <3>2. QuietStep(w)
      BY <2>9, <2>0, <3>1 DEF QuietStep, TypeOK, Restart, Idle
    <3> QED
      BY <3>2, QuietPreserves
  <2>10. ASSUME NEW w \in Workers, FailRecording(w) \/ FailSuite(w) PROVE FenceInv'
    <3> DEFINE j == worker[w].lease.job
    <3>1. Busy(w) /\ j \in Jobs
      BY <2>10, <2>0 DEF FailRecording, FailSuite, Busy, TypeOK
    <3>2. \A i \in Jobs : rowLock[i] # w
      BY <2>10, <2>0, WorkersAssumption
         DEF FenceInv, CommitHoldsTheFence, FailRecording, FailSuite, TypeOK
    <3>3. /\ issued' = issued /\ rowLock' = rowLock
          /\ worker'[w].pc \in {"idle", "down"}
          /\ \A v \in Workers \ {w} : worker'[v] = worker[v]
      BY <2>10, <2>0 DEF FailRecording, FailSuite, Idle, TypeOK
    <3>4. CASE UNCHANGED job
      <4>1. QuietStep(w)
        BY <3>2, <3>3, <3>4 DEF QuietStep
      <4> QED
        BY <4>1, QuietPreserves
    <3>5. CASE LeaseIsCurrent(worker[w].lease)
      <4>1. rowLock[j] = NoWorker
        BY <3>1, <3>2, <3>5, HolderIsOwner
      <4>2. job[j].attempt = worker[w].lease.attempt
        BY <3>1, <3>5 DEF FenceInv, AttemptKnown, LeaseIsCurrent
      <4>3. CASE FailRecording(w)
        <5>1. j \notin SuiteJobs
          BY <4>3 DEF FailRecording, IsSuite
        <5>2. job' = [job EXCEPT ![j] = FailedRow(job[j], now)]
          BY <3>5, <4>3 DEF FailRecording
        <5>3. /\ job'[j].token = NoToken /\ job'[j].attempt = job[j].attempt
              /\ \A i \in Jobs \ {j} : job'[i] = job[i]
          BY <2>0, <3>1, <5>2 DEF FailedRow, TypeOK, Row
        <5>4. ReleaseStep(w, j)
          BY <3>1, <3>3, <4>1, <5>1, <5>3 DEF ReleaseStep
        <5> QED
          BY <3>1, <5>4, ReleasePreserves
      <4>4. CASE FailSuite(w)
        <5> DEFINE l == worker[w].lease
        <5>1. job' = [job EXCEPT ![j] = SuiteOutcome(job[j], l, worker[w].fault)]
          BY <3>5, <4>4 DEF FailSuite
        <5>2. /\ job'[j].token = NoToken /\ job'[j].attempt = job[j].attempt
              /\ \A i \in Jobs \ {j} : job'[i] = job[i]
          BY <2>0, <3>1, <5>1 DEF SuiteOutcome, FailedRow, ParkedRow, TypeOK, Row
        <5>3. job'[j].state = "failed" => ~(l.attempt >= MaximumAttempts)
          BY <2>0, <3>1, <5>1 DEF SuiteOutcome, ParkedRow, TypeOK, Row
        <5>4. job'[j].state = "failed" => job[j].attempt < MaximumAttempts
          BY <2>0, <3>1, <4>2, <5>3, TimesAssumption DEF TypeOK, Row
        <5>5. ReleaseStep(w, j)
          BY <3>1, <3>3, <4>1, <5>2, <5>4 DEF ReleaseStep
        <5> QED
          BY <3>1, <5>5, ReleasePreserves
      <4> QED
        BY <2>10, <4>3, <4>4
    <3> QED
      BY <2>10, <3>4, <3>5 DEF FailRecording, FailSuite
  <2> QED
    BY <2>1, <2>2, <2>3, <2>4, <2>5, <2>6, <2>7, <2>8, <2>9, <2>10
       DEF Next, Progress, Adversity
<1> QED
  BY <1>1, <1>2, TypeCorrect, PTL DEF Spec

\* A lease never runs further ahead than one lease_ttl_s of the database clock.
ExpiryBounded == \A j \in Jobs : job[j].expires <= now + LeaseTtl

\* What a step does to the expiry of a row: it takes it away, sets it one
\* lease_ttl_s ahead, or leaves it.
LEMMA ExpiryStep ==
  ASSUME TypeOK, [Next]_vars, NEW j \in Jobs
  PROVE  \/ job'[j].expires = job[j].expires
         \/ job'[j].expires = NoTime
         \/ job'[j].expires = now + LeaseTtl
<1> USE DEF TypeOK
<1>1. ASSUME NEW i \in Jobs, NEW a \in {now, now + RetryDelay}, Enqueue(i, a)
      PROVE  job'[j].expires = job[j].expires
  BY <1>1 DEF Enqueue, Row
<1>2. ASSUME NEW w \in Workers, Claim(w)
      PROVE  job'[j].expires \in {job[j].expires, now + LeaseTtl}
  BY <1>2 DEF Claim, Row
<1>3. ASSUME NEW w \in Workers, Heartbeat(w)
      PROVE  job'[j].expires \in {job[j].expires, now + LeaseTtl}
  BY <1>3 DEF Heartbeat, Row
<1>4. ASSUME NEW w \in Workers, Commit(w)
      PROVE  job'[j].expires \in {job[j].expires, NoTime}
  BY <1>4 DEF Commit, CompletedRow, Row
<1>5. ASSUME NEW w \in Workers, FailRecording(w) \/ FailSuite(w)
      PROVE  job'[j].expires \in {job[j].expires, NoTime}
  <2>1. \A r \in Row : /\ \A t : FailedRow(r, t).expires = NoTime
                       /\ ParkedRow(r).expires = NoTime
    BY DEF FailedRow, ParkedRow, Row
  <2> QED
    BY <1>5, <2>1 DEF FailRecording, FailSuite, SuiteOutcome
<1>6. ASSUME NEW w \in Workers,
             \/ HeartbeatError(w) \/ Prepared(w) \/ Upload(w) \/ BeginCommit(w)
             \/ Crash(w) \/ Restart(w)
             \/ \E f \in Raisable :
                  PrepareError(w, f) \/ UploadError(w, f) \/ Rollback(w, f)
      PROVE  UNCHANGED job
  BY <1>6 DEF HeartbeatError, Prepared, Upload, BeginCommit, Rollback, UploadError,
              Crash, Restart, PrepareError
<1>7. ASSUME Tick \/ UNCHANGED vars PROVE UNCHANGED job
  BY <1>7 DEF Tick, vars
<1> QED
  BY <1>1, <1>2, <1>3, <1>4, <1>5, <1>6, <1>7 DEF Next, Progress, Adversity

\* The bound is inductive: the clock does not go back.
LEMMA ExpiryInvariant == Spec => []ExpiryBounded
<1> USE TimesAssumption
<1>1. Init => ExpiryBounded
  BY DEF Init, ExpiryBounded, NoTime
<1>2. TypeOK /\ ExpiryBounded /\ [Next]_vars => ExpiryBounded'
  <2> SUFFICES ASSUME TypeOK, ExpiryBounded, [Next]_vars, NEW j \in Jobs
               PROVE  job'[j].expires <= now' + LeaseTtl
    BY DEF ExpiryBounded
  <2>1. now' \in {now, now + 1}
    <3>1. CASE Tick \/ UNCHANGED vars
      BY <3>1 DEF Tick, vars
    <3>2. ASSUME NEW i \in Jobs, NEW a \in {now, now + RetryDelay}, Enqueue(i, a)
          PROVE  now' = now
      BY <3>2 DEF Enqueue
    <3>3. ASSUME NEW w \in Workers, Progress(w) \/ Heartbeat(w) \/ Adversity(w)
          PROVE  now' = now
      BY <3>3 DEF Progress, Adversity, Claim, Prepared, Upload, BeginCommit, Commit,
         FailRecording, FailSuite, Restart, Heartbeat, HeartbeatError, Crash,
         PrepareError, UploadError, Rollback
    <3> QED
      BY <3>1, <3>2, <3>3 DEF Next
  <2>2. /\ now \in Nat /\ job[j].expires \in Int
        /\ job[j].expires <= now + LeaseTtl
    BY DEF ExpiryBounded, TypeOK, Row, NoTime
  <2> QED
    BY <2>1, <2>2, ExpiryStep DEF NoTime
<1> QED
  BY <1>1, <1>2, TypeCorrect, PTL DEF Spec

\* A worker that finishes the row of its current lease is the one that ends it.
LEMMA HolderEnds ==
  ASSUME NEW w \in Workers, worker[w].pc \in {"locked", "raised"},
         LeaseIsCurrent(worker[w].lease), worker'[w] # worker[w],
         job'[worker[w].lease.job].state \in {"succeeded", "failed", "parked"}
  PROVE  LeaseEndedByHolder(worker[w].lease.job)
  BY DEF LeaseEndedByHolder, LeaseIsCurrent

\* Until it expires a lease is its holder's: no claim, no late predecessor and no
\* renewal shortens it, hands the row on or ends it, for any number of workers and
\* any lease_ttl_s (claim_job, heartbeat_job, complete_job, fail_job, park_job).
THEOREM LiveLeaseTheorem == Spec => LiveLeaseIsKept
<1> USE TimesAssumption
<1>1. TypeOK /\ ExpiryBounded /\ [Next]_vars =>
        [\A j \in Jobs : job[j].state = "leased" /\ job[j].expires > now
            => LeaseKept(j) \/ LeaseEndedByHolder(j)]_vars
  <2> SUFFICES ASSUME TypeOK, ExpiryBounded, [Next]_vars, NEW j \in Jobs,
                      job[j].state = "leased", job[j].expires > now
               PROVE  LeaseKept(j) \/ LeaseEndedByHolder(j)
    OBVIOUS
  <2>0. /\ job[j] \in Row /\ now \in Nat /\ job[j].expires \in Int
        /\ job[j].expires <= now + LeaseTtl
    BY DEF TypeOK, Row, NoTime, ExpiryBounded
  <2>1. ASSUME job'[j] = job[j] PROVE LeaseKept(j)
    BY <2>0, <2>1 DEF LeaseKept
  <2>2. ASSUME NEW i \in Jobs, NEW a \in {now, now + RetryDelay}, Enqueue(i, a)
        PROVE  job'[j] = job[j]
    BY <2>2 DEF Enqueue, TypeOK
  <2>3. ASSUME NEW w \in Workers, Claim(w) PROVE job'[j] = job[j]
    <3>1. PICK i \in Jobs :
            /\ Claimable(i)
            /\ job' = [job EXCEPT ![i].state = "leased", ![i].attempt = @ + 1,
                                  ![i].generation = @ + 1, ![i].token = issued + 1,
                                  ![i].expires = now + LeaseTtl]
      BY <2>3 DEF Claim
    <3>2. i # j
      BY <2>0, <3>1 DEF Claimable
    <3> QED
      BY <3>1, <3>2 DEF TypeOK
  <2>4. ASSUME NEW w \in Workers, Heartbeat(w) PROVE LeaseKept(j)
    <3>1. CASE job'[j] = job[j]
      BY <2>1, <3>1
    <3>2. CASE job'[j] # job[j]
      <4>1. /\ job'[j].state = job[j].state /\ job'[j].token = job[j].token
            /\ job'[j].expires = now + LeaseTtl
        BY <2>4, <3>2 DEF Heartbeat, TypeOK, Row
      <4> QED
        BY <2>0, <4>1 DEF LeaseKept
    <3> QED
      BY <3>1, <3>2
  <2>5. ASSUME NEW w \in Workers, Commit(w)
        PROVE  job'[j] = job[j] \/ LeaseEndedByHolder(j)
    <3> DEFINE l == worker[w].lease
    <3>1. l.job \in Jobs /\ worker[w].pc = "locked" /\ LeaseIsCurrent(l)
      BY <2>5 DEF Commit, TypeOK, Busy
    <3>2. job'[l.job].state = "succeeded" /\ (j # l.job => job'[j] = job[j])
      BY <2>5, <3>1 DEF Commit, CompletedRow, TypeOK, Row
    <3>3. worker'[w].pc \in {"idle", "raised"}
      BY <2>5 DEF Commit, Idle, TypeOK, Process
    <3>4. worker'[w] # worker[w]
      BY <3>1, <3>3
    <3> QED
      BY <3>1, <3>2, <3>4, HolderEnds
  <2>6. ASSUME NEW w \in Workers, FailRecording(w) \/ FailSuite(w)
        PROVE  job'[j] = job[j] \/ LeaseEndedByHolder(j)
    <3> DEFINE l == worker[w].lease
    <3>1. l.job \in Jobs /\ worker[w].pc = "raised"
      BY <2>6 DEF FailRecording, FailSuite, TypeOK, Busy
    <3>2. worker'[w].pc \in {"idle", "down"}
      BY <2>6 DEF FailRecording, FailSuite, Idle, TypeOK
    <3>3. worker'[w] # worker[w]
      BY <3>1, <3>2
    <3>4. CASE UNCHANGED job
      BY <3>4
    <3>5. CASE LeaseIsCurrent(l)
      <4>1. /\ \A t : FailedRow(job[l.job], t).state = "failed"
            /\ ParkedRow(job[l.job]).state = "parked"
        BY <3>1 DEF FailedRow, ParkedRow, TypeOK, Row
      <4>2. SuiteOutcome(job[l.job], l, worker[w].fault).state \in {"failed", "parked"}
        BY <4>1 DEF SuiteOutcome
      <4>3. /\ job'[l.job].state \in {"failed", "parked"}
            /\ j # l.job => job'[j] = job[j]
        BY <2>6, <3>1, <3>5, <4>1, <4>2 DEF FailRecording, FailSuite, TypeOK
      <4> QED
        BY <3>1, <3>3, <3>5, <4>3, HolderEnds
    <3> QED
      BY <2>6, <3>4, <3>5 DEF FailRecording, FailSuite
  <2>7. ASSUME NEW w \in Workers,
               \/ HeartbeatError(w) \/ Prepared(w) \/ Upload(w) \/ BeginCommit(w)
               \/ Crash(w) \/ Restart(w)
               \/ \E f \in Raisable :
                    PrepareError(w, f) \/ UploadError(w, f) \/ Rollback(w, f)
        PROVE  job'[j] = job[j]
    BY <2>7 DEF HeartbeatError, Prepared, Upload, BeginCommit, Rollback, UploadError,
                Crash, Restart, PrepareError
  <2>8. ASSUME Tick \/ UNCHANGED vars PROVE job'[j] = job[j]
    BY <2>8 DEF Tick, vars
  <2> QED
    BY <2>1, <2>2, <2>3, <2>4, <2>5, <2>6, <2>7, <2>8 DEF Next, Progress, Adversity
<1> QED
  BY <1>1, TypeCorrect, ExpiryInvariant, PTL DEF Spec, LiveLeaseIsKept

\* The row a commit transaction holds stays leased to the committer
\* (lock_active_job_lease, FOR UPDATE SKIP LOCKED of claim_job).
THEOREM FenceTheorem == Spec => []CommitHoldsTheFence
<1>1. FenceInv => CommitHoldsTheFence
  BY DEF FenceInv
<1> QED
  BY <1>1, FenceInvariant, PTL

\* A suite job that waits for a retry has an attempt left
\* (FencedStarlinkSuiteAnalysisWorkerV0_2.execute).
THEOREM BudgetTheorem == Spec => []RetryHasBudget
<1>1. FenceInv => RetryHasBudget
  BY DEF FenceInv
<1> QED
  BY <1>1, FenceInvariant, PTL

=============================================================================
