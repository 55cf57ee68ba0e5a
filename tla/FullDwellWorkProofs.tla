------------------------ MODULE FullDwellWorkProofs ------------------------
(***************************************************************************)
(* Proofs about FullDwellWork, for any number of suites, workers and       *)
(* supervisors: the backlog limit, the ownership of the guard, and the     *)
(* lease that at most one worker holds.                                    *)
(***************************************************************************)
EXTENDS FullDwellWork, FiniteSetTheorems, TLAPS

Producing == {"producing", "produced"}

\* A worker that produces has claimed a suite.
WorkerHasSuite ==
    \A w \in Workers : worker[w].pc \in Producing => worker[w].suite \in Suites

Typed == TypeOK /\ WorkerHasSuite

\* The actions that concern the guard, and those that concern the queue.
GuardStep ==
    \/ TakeOwnership \/ GuardTimePasses
    \/ \E g \in Generations : PublishGuard(g) \/ SupervisorEnds(g)

QueueStep ==
    \/ \E w \in Workers : Decide(w) \/ WorkerStep(w) \/ Crash(w)
    \/ \E s \in Suites : RowIsDue(s)

\* Next is one or the other (the disjuncts of Next, regrouped).
LEMMA NextSplits == Next <=> GuardStep \/ QueueStep
  BY Zenon DEF Next, GuardStep, QueueStep

\* An action of the queue leaves the guard, its owner and the supervisors alone.
LEMMA QueueLeavesGuard ==
    ASSUME QueueStep
    PROVE  UNCHANGED guardVars
  BY DEF QueueStep, Decide, WorkerStep, AcquireSlot, Admit, NothingToClaim, Claim, Produce,
         Complete, InvalidInput, TransientFailure, Settle, Crash, RowIsDue, guardVars

\* An action of the guard leaves the queue and its workers alone.
LEMMA GuardLeavesQueue ==
    ASSUME GuardStep
    PROVE  UNCHANGED queueVars
  BY DEF GuardStep, TakeOwnership, GuardTimePasses, PublishGuard, SupervisorEnds, queueVars

-----------------------------------------------------------------------------
(* The types.                                                              *)

RowType == [state : Active \cup {"none", "succeeded", "parked"}, attempt : Nat, due : BOOLEAN]

WorkerType == [pc : {"idle", "decided", "permitted", "claiming", "producing", "produced"},
               suite : Suites \cup {NoSuite}, attempt : Nat]

\* The types of the queue's variables, and of the guard's.
QueueTypes ==
    /\ work \in [Suites -> RowType]
    /\ worker \in [Workers -> WorkerType]
    /\ WorkerHasSuite
    /\ faults \in 0 .. MaxFaults
    /\ product \subseteq Suites

GuardTypes ==
    /\ guard \in [generation : 0 .. MaxSupervisors,
                  phase : {"ahead", "inside", "over", "stale"}]
    /\ owner \in 0 .. MaxSupervisors
    /\ sup \in [Generations -> {"none", "silent", "published", "ended"}]

\* What settling a lease writes to the row is a row (complete, retry, park).
LEMMA SettleTyped ==
    ASSUME Typed, NEW w \in Workers, worker[w].pc \in Producing,
           NEW row \in RowType, Settle(w, row)
    PROVE  /\ work' \in [Suites -> RowType]
           /\ worker' \in [Workers -> WorkerType]
           /\ WorkerHasSuite'
  <1>1. worker[w].suite \in Suites
    BY DEF Typed, WorkerHasSuite
  <1>2. Idle \in WorkerType
    BY DEF Idle, WorkerType
  <1>3. work' \in [Suites -> RowType]
    BY <1>1 DEF Settle, Typed, TypeOK, RowType
  <1>4. worker' = [worker EXCEPT ![w] = Idle]
    BY DEF Settle, Release
  <1>5. worker' \in [Workers -> WorkerType]
    BY <1>2, <1>4 DEF Typed, TypeOK, WorkerType
  <1>6. WorkerHasSuite'
    BY <1>4 DEF Typed, TypeOK, WorkerHasSuite, Idle, Producing
  <1> QED BY <1>3, <1>5, <1>6

\* A worker that moves on keeps its suite and its attempt; it may start to
\* produce only at a claim, and go on to "produced" only from "producing".
LEMMA GotoTyped ==
    ASSUME Typed, NEW w \in Workers, NEW pc, Goto(w, pc),
           pc \in {"decided", "idle", "permitted", "claiming", "produced"},
           pc = "produced" => worker[w].pc = "producing"
    PROVE  worker' \in [Workers -> WorkerType] /\ WorkerHasSuite'
  <1>1. worker' = [worker EXCEPT ![w] = [worker[w] EXCEPT !.pc = pc]]
    BY DEF Goto
  <1>2. [worker[w] EXCEPT !.pc = pc] \in WorkerType
    BY DEF Typed, TypeOK, WorkerType
  <1>3. worker' \in [Workers -> WorkerType]
    BY <1>1, <1>2 DEF Typed, TypeOK, WorkerType
  <1>4. WorkerHasSuite'
    BY <1>1 DEF Typed, TypeOK, WorkerHasSuite, Producing
  <1> QED BY <1>3, <1>4

\* The queue's actions keep the types.
LEMMA QueueTyped ==
    ASSUME Typed, QueueStep
    PROVE  Typed'
  <1> USE FullDwellAssumption DEF QueueTypes
  <1>0. /\ work \in [Suites -> RowType] /\ worker \in [Workers -> WorkerType]
        /\ faults \in 0 .. MaxFaults /\ product \subseteq Suites
    BY DEF Typed, TypeOK, RowType, WorkerType
  <1>1. SUFFICES QueueTypes'
    <2>1. UNCHANGED guardVars
      BY QueueLeavesGuard
    <2> QED BY <2>1 DEF Typed, TypeOK, QueueTypes, RowType, WorkerType, guardVars
  <1>r. Idle \in WorkerType
    BY DEF Idle, WorkerType
  <1>rel. ASSUME NEW w \in Workers, Release(w)
          PROVE  worker' \in [Workers -> WorkerType] /\ WorkerHasSuite'
    BY <1>0, <1>r, <1>rel DEF Release, Idle, Typed, WorkerHasSuite, Producing
  <1>2. ASSUME NEW w \in Workers, Decide(w)
        PROVE  QueueTypes'
    BY <1>2, <1>0, GotoTyped DEF Decide
  <1>3. ASSUME NEW w \in Workers, AcquireSlot(w)
        PROVE  QueueTypes'
    BY <1>3, <1>0, GotoTyped DEF AcquireSlot
  <1>4. ASSUME NEW w \in Workers, Admit(w)
        PROVE  QueueTypes'
    <2>1. Goto(w, "claiming") /\ UNCHANGED <<product, faults>>
      BY <1>4 DEF Admit
    <2>2. PICK new \in SUBSET Candidates :
            work' = [s \in Suites |-> IF s \in new
                       THEN [work[s] EXCEPT !.state = "ready", !.due = TRUE] ELSE work[s]]
      BY <1>4 DEF Admit
    <2>3. ASSUME NEW s \in Suites
          PROVE  [work[s] EXCEPT !.state = "ready", !.due = TRUE] \in RowType
      BY <1>0 DEF RowType, Active
    <2>4. work' \in [Suites -> RowType]
      BY <2>2, <2>3, <1>0
    <2> QED BY <2>1, <2>4, <1>0, GotoTyped
  <1>5. ASSUME NEW w \in Workers, NothingToClaim(w)
        PROVE  QueueTypes'
    BY <1>5, <1>0, <1>rel DEF NothingToClaim
  <1>6. ASSUME NEW w \in Workers, NEW s \in Suites, Claim(w, s)
        PROVE  QueueTypes'
    <2> DEFINE r == [state |-> "leased", attempt |-> work[s].attempt + 1, due |-> FALSE]
               k == [pc |-> "producing", suite |-> s, attempt |-> work[s].attempt + 1]
    <2>1. r \in RowType /\ k \in WorkerType
      BY <1>0 DEF RowType, WorkerType, Active
    <2>2. work' = [work EXCEPT ![s] = r] /\ worker' = [worker EXCEPT ![w] = k]
          /\ UNCHANGED <<product, faults>>
      BY <1>6 DEF Claim
    <2>3. k.suite = s
      OBVIOUS
    <2> HIDE DEF r, k
    <2>4. WorkerHasSuite'
      BY <2>2, <2>3, <1>0 DEF Typed, WorkerHasSuite
    <2> QED BY <2>1, <2>2, <2>4, <1>0
  <1>7. ASSUME NEW w \in Workers, Produce(w)
        PROVE  QueueTypes'
    BY <1>7, <1>0, GotoTyped DEF Produce, Typed, WorkerHasSuite, Producing
  <1>8. ASSUME NEW w \in Workers, NEW row \in RowType, worker[w].pc \in Producing, Settle(w, row)
        PROVE  QueueTypes'
    <2>1. UNCHANGED <<product, faults>>
      BY <1>8 DEF Settle
    <2> QED BY <2>1, <1>8, <1>0, SettleTyped
  <1>9. ASSUME NEW w \in Workers, Complete(w) \/ InvalidInput(w) \/ TransientFailure(w)
        PROVE  QueueTypes'
    <2>1. /\ Settled("succeeded") \in RowType /\ Settled("parked") \in RowType
          /\ Retry(w) \in RowType
      BY <1>0 DEF Settled, Retry, RowType, WorkerType, Active
    <2>2. PICK row \in RowType : worker[w].pc \in Producing /\ Settle(w, row)
      BY <1>9, <2>1 DEF Complete, InvalidInput, TransientFailure, Producing
    <2> QED BY <2>2, <1>8
  <1>10. ASSUME NEW w \in Workers, Crash(w)
         PROVE  QueueTypes'
    BY <1>10, <1>0, <1>rel DEF Crash
  <1>11. ASSUME NEW s \in Suites, RowIsDue(s)
         PROVE  QueueTypes'
    <2>1. work' = [work EXCEPT ![s] = [work[s] EXCEPT !.due = TRUE]]
      BY <1>11 DEF RowIsDue
    <2>2. [work[s] EXCEPT !.due = TRUE] \in RowType
      BY <1>0 DEF RowType
    <2>3. work' \in [Suites -> RowType]
      BY <2>1, <2>2, <1>0
    <2>4. faults' \in 0 .. MaxFaults
      BY <1>11, <1>0 DEF RowIsDue
    <2>5. UNCHANGED <<product, worker>>
      BY <1>11 DEF RowIsDue
    <2> QED BY <2>3, <2>4, <2>5, <1>0 DEF Typed, WorkerHasSuite
  <1> QED
    BY <1>2, <1>3, <1>4, <1>5, <1>6, <1>7, <1>9, <1>10, <1>11 DEF QueueStep, WorkerStep

\* The guard's actions keep the types.
LEMMA GuardTyped ==
    ASSUME Typed, GuardStep
    PROVE  Typed'
  <1> USE FullDwellAssumption DEF GuardTypes
  <1>1. UNCHANGED queueVars
    BY GuardLeavesQueue
  <1>2. SUFFICES GuardTypes'
    BY <1>1 DEF Typed, TypeOK, GuardTypes, WorkerHasSuite, queueVars
  <1>3. CASE TakeOwnership
    BY <1>3 DEF TakeOwnership, Typed, TypeOK, Generations
  <1>4. CASE GuardTimePasses
    BY <1>4 DEF GuardTimePasses, Passes, Typed, TypeOK
  <1>5. ASSUME NEW g \in Generations, PublishGuard(g) PROVE  GuardTypes'
    BY <1>5 DEF PublishGuard, Typed, TypeOK, Generations
  <1>6. ASSUME NEW g \in Generations, SupervisorEnds(g) PROVE  GuardTypes'
    BY <1>6 DEF SupervisorEnds, Typed, TypeOK, Generations
  <1> QED BY <1>3, <1>4, <1>5, <1>6 DEF GuardStep

\* The types hold at the start.
LEMMA InitTyped == Init => Typed
  BY FullDwellAssumption DEF Init, Typed, TypeOK, WorkerHasSuite, Idle, NoGuard, Active, Producing

\* Type correctness: whatever is claimed, retried or expired, a row, a worker and
\* the guard stay what they are, and a worker that produces has a suite.
THEOREM TypeCorrect == Spec => []Typed
  <1>1. Typed /\ [Next]_vars => Typed'
    <2>1. Typed /\ UNCHANGED vars => Typed'
      BY DEF Typed, TypeOK, WorkerHasSuite, vars
    <2> QED BY <2>1, NextSplits, QueueTyped, GuardTyped
  <1> QED BY <1>1, InitTyped, PTL DEF Spec

-----------------------------------------------------------------------------
(* The guard.                                                              *)

\* A generation that nobody has taken yet has no supervisor, and the guard of a
\* supervisor that has published as the owner is its own.
GuardInv ==
    /\ \A g \in Generations : g > owner => sup[g] = "none"
    /\ GuardIsTheOwners

\* The guard belongs to the supervisor that took it over last and has published:
\* the last word of a predecessor does not reach the file (PublishGuard,
\* SupervisorEnds, TakeOwnership).
THEOREM GuardStaysWithOwner == Spec => []GuardIsTheOwners
  <1> USE FullDwellAssumption
  <1>1. Init => GuardInv
    BY DEF Init, GuardInv, GuardIsTheOwners
  <1>2. Typed /\ GuardInv /\ [Next]_vars => GuardInv'
    <2> SUFFICES ASSUME GuardTypes, GuardInv, [Next]_vars PROVE GuardInv'
      BY DEF Typed, TypeOK, GuardTypes
    <2> USE DEF GuardTypes, GuardInv, GuardIsTheOwners, Generations
    <2>1. CASE UNCHANGED guardVars
      BY <2>1 DEF guardVars
    <2>2. CASE TakeOwnership
      BY <2>2 DEF TakeOwnership
    <2>3. CASE GuardTimePasses
      BY <2>3 DEF GuardTimePasses, Passes
    <2>4. ASSUME NEW g \in Generations, PublishGuard(g) PROVE GuardInv'
      BY <2>4 DEF PublishGuard, Owns
    <2>5. ASSUME NEW g \in Generations, SupervisorEnds(g) PROVE GuardInv'
      BY <2>5 DEF SupervisorEnds, Owns
    <2>6. UNCHANGED vars => UNCHANGED guardVars
      BY DEF vars, guardVars
    <2> QED BY <2>1, <2>2, <2>3, <2>4, <2>5, <2>6, NextSplits, QueueLeavesGuard DEF GuardStep
  <1>3. GuardInv => GuardIsTheOwners
    BY DEF GuardInv
  <1> QED BY <1>1, <1>2, <1>3, TypeCorrect, PTL DEF Spec

-----------------------------------------------------------------------------
(* The backlog.                                                            *)

\* A union has no more elements than its parts together.
LEMMA UnionBound ==
    ASSUME NEW S, NEW T, IsFiniteSet(S), IsFiniteSet(T)
    PROVE  /\ IsFiniteSet(S \cup T)
           /\ Cardinality(S \cup T) \in Nat
           /\ Cardinality(S \cup T) <= Cardinality(S) + Cardinality(T)
  <1>1. /\ IsFiniteSet(S \cup T)
        /\ Cardinality(S \cup T) = Cardinality(S) + Cardinality(T) - Cardinality(S \cap T)
    BY FS_Union
  <1>2. IsFiniteSet(S \cap T)
    BY FS_Intersection
  <1>3. /\ Cardinality(S) \in Nat /\ Cardinality(T) \in Nat
        /\ Cardinality(S \cap T) \in Nat /\ Cardinality(S \cup T) \in Nat
    BY <1>1, <1>2, FS_CardinalityType
  <1> QED BY <1>1, <1>3

\* What a worker may admit is what is left of the limit, and never a negative
\* number (capacity in admit).
LEMMA CapacityFits ==
    ASSUME Cardinality(Backlog) \in Nat, Cardinality(Backlog) <= MaximumActive
    PROVE  Capacity \in Nat /\ Cardinality(Backlog) + Capacity <= MaximumActive
  <1> USE FullDwellAssumption
  <1> DEFINE room == MaximumActive - Cardinality(Backlog)
  <1>1. room \in Nat
    OBVIOUS
  <1>2. Capacity = IF room < MaximumAdmissions THEN Max({0, room}) ELSE MaximumAdmissions
    BY DEF Capacity
  <1>3. Max({0, room}) = CHOOSE x \in {0, room} : \A y \in {0, room} : x >= y
    BY DEF Max
  <1>4. Max({0, room}) \in {0, room} /\ Max({0, room}) >= room
    <2>1. \E x \in {0, room} : \A y \in {0, room} : x >= y
      BY <1>1
    <2> QED BY <1>3, <2>1
  <1> QED BY <1>1, <1>2, <1>4

\* A step of the queue other than an admission activates no row.
LEMMA OnlyAdmitGrows ==
    ASSUME Typed, QueueStep, \A w \in Workers : ~Admit(w)
    PROVE  Backlog' \subseteq Backlog
  <1> USE DEF Backlog, Active
  <1>0. work \in [Suites -> RowType]
    BY DEF Typed, TypeOK, RowType
  <1>1. CASE UNCHANGED work
    BY <1>1
  <1>2. ASSUME NEW w \in Workers, NEW s \in Suites, Claim(w, s)
        PROVE  Backlog' \subseteq Backlog
    BY <1>2, <1>0 DEF Claim, Claimable
  <1>3. ASSUME NEW w \in Workers, NEW row, worker[w].pc \in Producing, Settle(w, row)
        PROVE  Backlog' \subseteq Backlog
    <2>1. worker[w].suite \in Suites
      BY <1>3 DEF Typed, WorkerHasSuite
    <2> QED BY <1>0, <1>3, <2>1 DEF Settle, LeaseIsHeld
  <1>4. ASSUME NEW s \in Suites, RowIsDue(s)
        PROVE  Backlog' \subseteq Backlog
    <2>1. work' = [work EXCEPT ![s] = [work[s] EXCEPT !.due = TRUE]] /\ work[s].state \in Active
      BY <1>4 DEF RowIsDue
    <2>2. [work[s] EXCEPT !.due = TRUE].state = work[s].state
      BY <1>0 DEF RowType
    <2> QED BY <1>0, <2>1, <2>2
  <1>5. ASSUME NEW w \in Workers, Decide(w) \/ AcquireSlot(w) \/ NothingToClaim(w) \/ Produce(w) \/ Crash(w)
        PROVE  UNCHANGED work
    BY <1>5 DEF Decide, AcquireSlot, NothingToClaim, Produce, Crash
  <1>6. ASSUME NEW w \in Workers, Complete(w) \/ InvalidInput(w) \/ TransientFailure(w)
        PROVE  Backlog' \subseteq Backlog
    BY <1>6, <1>3 DEF Complete, InvalidInput, TransientFailure, Producing
  <1> QED BY <1>1, <1>2, <1>4, <1>5, <1>6 DEF QueueStep, WorkerStep

\* The backlog never exceeds the limit: each worker admits by its own count, and
\* what is reclaimed, retried or settled in between does not add to it
\* (admit's capacity, claim, retry, complete and park).
THEOREM BacklogStaysBounded == Spec => []BacklogIsBounded
  <1> USE FullDwellAssumption
  <1> DEFINE Bounded == Cardinality(Backlog) <= MaximumActive
  <1>0. BacklogIsBounded <=> Bounded
    BY DEF BacklogIsBounded, Backlog, Active
  <1>f. /\ IsFiniteSet(Backlog) /\ Cardinality(Backlog) \in Nat
        /\ IsFiniteSet(Backlog)' /\ Cardinality(Backlog)' \in Nat
    <2>1. Backlog \subseteq Suites /\ Backlog' \subseteq Suites
      BY DEF Backlog
    <2> QED BY <2>1, FS_Subset, FS_CardinalityType
  <1>1. Init => Bounded
    <2>1. Init => Backlog = {}
      BY DEF Init, Backlog, Active
    <2> QED BY <2>1, FS_EmptySet
  <1>2. Typed /\ Bounded /\ [Next]_vars => Bounded'
    <2> SUFFICES ASSUME Typed, Bounded, [Next]_vars PROVE Bounded'
      OBVIOUS
    <2>1. ASSUME Backlog' \subseteq Backlog PROVE Bounded'
      BY <2>1, <1>f, FS_Subset
    <2>2. CASE UNCHANGED work
      BY <2>2, <2>1 DEF Backlog
    <2>3. ASSUME NEW w \in Workers, Admit(w) PROVE Bounded'
      <3>1. PICK new \in SUBSET Candidates :
              /\ Cardinality(new) <= Capacity
              /\ work' = [s \in Suites |-> IF s \in new
                            THEN [work[s] EXCEPT !.state = "ready", !.due = TRUE] ELSE work[s]]
        BY <2>3 DEF Admit
      <3>2. new \subseteq Suites
        BY DEF Candidates
      <3>3. IsFiniteSet(new) /\ Cardinality(new) \in Nat
        BY <3>2, FS_Subset, FS_CardinalityType
      <3>4. Backlog' \subseteq Backlog \cup new
        BY <3>1 DEF Backlog
      <3>5. /\ IsFiniteSet(Backlog \cup new)
            /\ Cardinality(Backlog \cup new) \in Nat
            /\ Cardinality(Backlog \cup new) <= Cardinality(Backlog) + Cardinality(new)
        BY <1>f, <3>3, UnionBound
      <3>6. Cardinality(Backlog') <= Cardinality(Backlog \cup new) /\ Cardinality(Backlog') \in Nat
        BY <3>4, <3>5, FS_Subset, FS_CardinalityType
      <3>7. Capacity \in Nat /\ Cardinality(Backlog) + Capacity <= MaximumActive
        BY <1>f, CapacityFits
      <3>8. Cardinality(Backlog') <= MaximumActive
        <4>1. Cardinality(new) <= Capacity
          BY <3>1
        <4>2. Cardinality(Backlog) \in Nat
          BY <1>f
        <4> HIDE DEF Bounded
        <4> QED BY <4>1, <4>2, <3>3, <3>5, <3>6, <3>7
      <3> QED BY <3>8
    <2>4. GuardStep \/ UNCHANGED vars => UNCHANGED work
      BY GuardLeavesQueue DEF vars, queueVars
    <2> QED BY <2>1, <2>2, <2>3, <2>4, NextSplits, OnlyAdmitGrows
  <1> HIDE DEF Bounded
  <1> QED BY <1>0, <1>1, <1>2, TypeCorrect, PTL DEF Spec

-----------------------------------------------------------------------------
(* The lease.                                                              *)

IsAt(w, s) == worker[w].pc \in Producing /\ worker[w].suite = s

\* At most one worker may still settle a row: the others that work on the suite,
\* because their leases ran out and the row was claimed again, are turned away.
OneLeaseHolder ==
    \A s \in Suites : \A v, w \in Workers :
        IsAt(v, s) /\ IsAt(w, s) /\ LeaseIsHeld(v) /\ LeaseIsHeld(w) => v = w

\* No worker is ahead of its row, and two workers at one suite claimed it in
\* different attempts.
LeaseInv ==
    \A s \in Suites :
        /\ \A w \in Workers : IsAt(w, s) =>
             work[s].state # "none"
             /\ (work[s].state \in Active => worker[w].attempt <= work[s].attempt)
        /\ \A v, w \in Workers : v # w /\ IsAt(v, s) /\ IsAt(w, s) =>
             worker[v].attempt # worker[w].attempt

\* A step that claims nothing keeps LeaseInv, if it starts no row afresh and
\* lowers no attempt of an active row, and nobody starts to produce.
LEMMA LeaseInvKept ==
    ASSUME LeaseInv, Typed, Typed',
           \A w \in Workers : worker'[w].pc \in Producing =>
             /\ worker[w].pc \in Producing
             /\ worker'[w].suite = worker[w].suite
             /\ worker'[w].attempt = worker[w].attempt,
           \A s \in Suites : work[s].state # "none" =>
             /\ work'[s].state # "none"
             /\ work'[s].state \in Active =>
                  work[s].state \in Active /\ work'[s].attempt >= work[s].attempt
    PROVE  LeaseInv'
  <1>1. /\ \A w \in Workers : worker[w].attempt \in Nat /\ worker'[w].attempt \in Nat
        /\ \A s \in Suites : work[s].attempt \in Nat /\ work'[s].attempt \in Nat
    BY DEF Typed, TypeOK
  <1> QED BY <1>1 DEF LeaseInv, IsAt

\* A worker that leaves, or goes on with what it has, starts nothing.
LEMMA WorkerLeaves ==
    ASSUME Typed, NEW w \in Workers,
           \/ Release(w)
           \/ \E pc : Goto(w, pc) /\ (pc \in Producing => worker[w].pc \in Producing)
    PROVE  \A v \in Workers : worker'[v].pc \in Producing =>
             /\ worker[v].pc \in Producing
             /\ worker'[v].suite = worker[v].suite
             /\ worker'[v].attempt = worker[v].attempt
  <1>0. worker \in [Workers -> WorkerType]
    BY DEF Typed, TypeOK, WorkerType
  <1>1. CASE Release(w)
    BY <1>0, <1>1 DEF Release, Idle, Producing
  <1>2. ASSUME NEW pc, Goto(w, pc), pc \in Producing => worker[w].pc \in Producing
        PROVE  \A v \in Workers : worker'[v].pc \in Producing =>
                 /\ worker[v].pc \in Producing
                 /\ worker'[v].suite = worker[v].suite
                 /\ worker'[v].attempt = worker[v].attempt
    <2> DEFINE k == [worker[w] EXCEPT !.pc = pc]
    <2>1. worker' = [worker EXCEPT ![w] = k]
      BY <1>2 DEF Goto
    <2>2. k.pc = pc /\ k.suite = worker[w].suite /\ k.attempt = worker[w].attempt
      BY <1>0 DEF WorkerType
    <2> HIDE DEF k
    <2> QED BY <1>0, <1>2, <2>1, <2>2
  <1> QED BY <1>1, <1>2

\* At most one worker holds the lease of a row, across expiries and reclaims:
\* what settles a row is the last claim of it (Claim, LeaseIsHeld, Settle).
THEOREM LeaseIsExclusive == Spec => []OneLeaseHolder
  <1> USE FullDwellAssumption
  <1>1. Init => LeaseInv
    BY DEF Init, LeaseInv, IsAt, Idle, Producing
  <1>2. Typed /\ Typed' /\ LeaseInv /\ [Next]_vars => LeaseInv'
    <2> SUFFICES ASSUME Typed, Typed', LeaseInv, [Next]_vars PROVE LeaseInv'
      OBVIOUS
    <2>0. work \in [Suites -> RowType] /\ worker \in [Workers -> WorkerType]
      BY DEF Typed, TypeOK, RowType, WorkerType
    <2>t. /\ \A s \in Suites : work[s].attempt \in Nat
          /\ \A w \in Workers : worker[w].attempt \in Nat
      BY <2>0 DEF RowType, WorkerType
    <2>1. CASE UNCHANGED <<work, worker>>
      BY <2>1, <2>t, LeaseInvKept
    <2>2. ASSUME NEW w \in Workers, UNCHANGED work,
                 Decide(w) \/ AcquireSlot(w) \/ NothingToClaim(w) \/ Produce(w) \/ Crash(w)
          PROVE  LeaseInv'
      <3>1. \/ Release(w)
            \/ \E pc : Goto(w, pc) /\ (pc \in Producing => worker[w].pc \in Producing)
        BY <2>2 DEF Decide, AcquireSlot, NothingToClaim, Produce, Crash, Producing
      <3> QED BY <3>1, <2>2, <2>t, WorkerLeaves, LeaseInvKept
    <2>3. ASSUME NEW w \in Workers, Admit(w) PROVE LeaseInv'
      <3>1. Goto(w, "claiming") /\ "claiming" \notin Producing
        BY <2>3 DEF Admit, Producing
      <3>2. PICK new \in SUBSET Candidates :
              work' = [s \in Suites |-> IF s \in new
                         THEN [work[s] EXCEPT !.state = "ready", !.due = TRUE] ELSE work[s]]
        BY <2>3 DEF Admit
      <3>3. \A s \in Suites : work[s].state # "none" => work'[s] = work[s]
        BY <3>2 DEF Candidates
      <3> QED BY <3>1, <3>3, <2>t, WorkerLeaves, LeaseInvKept
    <2>4. ASSUME NEW w \in Workers, NEW s \in Suites, Claim(w, s) PROVE LeaseInv'
      <3> DEFINE r == [state |-> "leased", attempt |-> work[s].attempt + 1, due |-> FALSE]
                 k == [pc |-> "producing", suite |-> s, attempt |-> work[s].attempt + 1]
      <3>1. /\ work' = [work EXCEPT ![s] = r] /\ worker' = [worker EXCEPT ![w] = k]
            /\ work[s].state \in Active /\ worker[w].pc = "claiming"
        BY <2>4 DEF Claim, Claimable
      <3>2. /\ r.state = "leased" /\ r.attempt = work[s].attempt + 1
            /\ k.pc = "producing" /\ k.suite = s /\ k.attempt = work[s].attempt + 1
        OBVIOUS
      <3> HIDE DEF r, k
      <3>3. /\ work'[s] = r /\ \A q \in Suites : q # s => work'[q] = work[q]
            /\ worker'[w] = k /\ \A v \in Workers : v # w => worker'[v] = worker[v]
        BY <3>1, <2>0
      <3>4. \A v \in Workers : v # w /\ IsAt(v, s) => worker[v].attempt <= work[s].attempt
        BY <3>1 DEF LeaseInv
      <3>5. ASSUME NEW q \in Suites
            PROVE  \A v \in Workers : IsAt(v, q)' =>
                     /\ work'[q].state # "none"
                     /\ work'[q].state \in Active => worker'[v].attempt <= work'[q].attempt
        BY <3>1, <3>2, <3>3, <3>4, <2>t DEF LeaseInv, IsAt, Active
      <3>6. ASSUME NEW q \in Suites, NEW u \in Workers, NEW v \in Workers, u # v,
                   IsAt(u, q)', IsAt(v, q)'
            PROVE  worker'[u].attempt # worker'[v].attempt
        BY <3>2, <3>3, <3>4, <3>6, <2>t DEF LeaseInv, IsAt
      <3> QED BY <3>5, <3>6 DEF LeaseInv
    <2>5. ASSUME NEW w \in Workers, NEW row, worker[w].pc \in Producing, Settle(w, row),
                 row.state # "none",
                 row.state \in Active => row.attempt = worker[w].attempt
          PROVE  LeaseInv'
      <3>1. worker[w].suite \in Suites /\ Release(w)
        BY <2>5 DEF Typed, WorkerHasSuite, Settle
      <3>2. ASSUME NEW s \in Suites, work[s].state # "none"
            PROVE  /\ work'[s].state # "none"
                   /\ work'[s].state \in Active =>
                        work[s].state \in Active /\ work'[s].attempt >= work[s].attempt
        <4>1. CASE LeaseIsHeld(w) /\ s = worker[w].suite
          <5>1. work'[s] = row
            BY <4>1, <2>5, <2>0 DEF Settle
          <5> QED BY <4>1, <5>1, <2>5, <2>t DEF LeaseIsHeld, Active
        <4>2. CASE ~(LeaseIsHeld(w) /\ s = worker[w].suite)
          <5>1. work'[s] = work[s]
            BY <4>2, <2>5, <2>0 DEF Settle
          <5> QED BY <5>1, <3>2, <2>t
        <4> QED BY <4>1, <4>2
      <3> QED BY <3>1, <3>2, WorkerLeaves, LeaseInvKept
    <2>6. ASSUME NEW w \in Workers, Complete(w) \/ InvalidInput(w) \/ TransientFailure(w)
          PROVE  LeaseInv'
      <3>1. \E row : /\ worker[w].pc \in Producing /\ Settle(w, row) /\ row.state # "none"
                     /\ row.state \in Active => row.attempt = worker[w].attempt
        BY <2>6 DEF Complete, InvalidInput, TransientFailure, Settled, Retry, Producing, Active
      <3> QED BY <3>1, <2>5
    <2>7. ASSUME NEW s \in Suites, RowIsDue(s) PROVE LeaseInv'
      <3>1. work' = [work EXCEPT ![s] = [work[s] EXCEPT !.due = TRUE]] /\ UNCHANGED worker
        BY <2>7 DEF RowIsDue
      <3>2. /\ [work[s] EXCEPT !.due = TRUE].state = work[s].state
            /\ [work[s] EXCEPT !.due = TRUE].attempt = work[s].attempt
        BY <2>0 DEF RowType
      <3>3. \A q \in Suites : work'[q].state = work[q].state /\ work'[q].attempt = work[q].attempt
        BY <3>1, <3>2, <2>0
      <3> QED BY <3>1, <3>3, <2>t, LeaseInvKept
    <2>8. GuardStep \/ UNCHANGED vars => UNCHANGED <<work, worker>>
      BY GuardLeavesQueue DEF vars, queueVars
    <2>9. ASSUME NEW w \in Workers,
                 Decide(w) \/ AcquireSlot(w) \/ NothingToClaim(w) \/ Produce(w) \/ Crash(w)
          PROVE  UNCHANGED work
      BY <2>9 DEF Decide, AcquireSlot, NothingToClaim, Produce, Crash
    <2> QED BY <2>1, <2>2, <2>3, <2>4, <2>6, <2>7, <2>8, <2>9, NextSplits DEF QueueStep, WorkerStep
  <1>3. LeaseInv => OneLeaseHolder
    BY DEF LeaseInv, OneLeaseHolder, IsAt, LeaseIsHeld
  <1> QED BY <1>1, <1>2, <1>3, TypeCorrect, PTL DEF Spec
=============================================================================
