--------------------------- MODULE FullDwellWork ---------------------------
(***************************************************************************)
(* Optional heavy work beside the capture: the full-dwell workers and the  *)
(* guard that keeps them from starting while the radios sample.            *)
(*                                                                         *)
(* The continuous supervisor publishes the guard, a status file with the   *)
(* window of the next capture; a worker reads it, takes one of the         *)
(* concurrency slots (an flock), admits candidates to the work table up to *)
(* the backlog limit, claims one, publishes its product and settles the    *)
(* row under its lease.  The guard's times are kept as the phase of its    *)
(* window: ahead, inside or over, and stale once the guard is not valid    *)
(* any more, which it is at least until its window is over.  The time in a *)
(* row (available_at, or the lease's expiry) is due or not.  attempt       *)
(* stands for the lease generation and the token too: only a claim changes *)
(* them.                                                                   *)
(***************************************************************************)
EXTENDS Integers, FiniteSets, FiniteSetsExt

CONSTANTS
    Suites,               \* detector suites with candidates
    Workers,              \* worker processes
    MaximumActive,        \* --maximum-active
    MaximumAdmissions,    \* --maximum-admissions-per-cycle
    MaximumAttempts,      \* maximum_attempts
    MaximumConcurrency,   \* --maximum-optional-concurrency
    MaxSupervisors,       \* bound: supervisors that ever own the guard
    MaxFaults,            \* bound: crashes, and leases that run out under their holder
    NoSuite

ASSUME FullDwellAssumption ==
    /\ IsFiniteSet(Suites) /\ NoSuite \notin Suites
    /\ MaximumActive \in Nat \ {0} /\ MaximumAdmissions \in 1 .. MaximumActive
    /\ MaximumAttempts \in Nat \ {0} /\ MaximumConcurrency \in Nat \ {0}
    /\ MaxSupervisors \in Nat /\ MaxFaults \in Nat

VARIABLES
    work,      \* rows of starlink_full_dwell_work
    product,   \* suites with a published full-dwell product
    worker,
    guard,     \* the status file, and the generation that wrote it
    owner,     \* the generation in the ownership file
    sup,       \* the supervisors, by generation
    faults

vars == <<work, product, worker, guard, owner, sup, faults>>
queueVars == <<work, product, worker, faults>>
guardVars == <<guard, owner, sup>>

Active == {"ready", "leased", "failed"}
Generations == 1 .. MaxSupervisors
Idle == [pc |-> "idle", suite |-> NoSuite, attempt |-> 0]
NoGuard == [generation |-> 0, phase |-> "stale"]

Init ==
    /\ work = [s \in Suites |-> [state |-> "none", attempt |-> 0, due |-> FALSE]]
    /\ product = {}
    /\ worker = [w \in Workers |-> Idle]
    /\ guard = NoGuard
    /\ owner = 0
    /\ sup = [g \in Generations |-> "none"]
    /\ faults = 0

TypeOK ==
    /\ work \in [Suites -> [state : Active \cup {"none", "succeeded", "parked"},
                            attempt : Nat, due : BOOLEAN]]
    /\ product \subseteq Suites
    /\ worker \in [Workers -> [pc : {"idle", "decided", "permitted", "claiming",
                                     "producing", "produced"},
                               suite : Suites \cup {NoSuite}, attempt : Nat]]
    /\ guard \in [generation : 0 .. MaxSupervisors,
                  phase : {"ahead", "inside", "over", "stale"}]
    /\ owner \in 0 .. MaxSupervisors
    /\ sup \in [Generations -> {"none", "silent", "published", "ended"}]
    /\ faults \in 0 .. MaxFaults

-----------------------------------------------------------------------------
(* The guard.                                                              *)

\* A new publisher takes the next generation; its predecessor may still run.
TakeOwnership ==
    /\ owner < MaxSupervisors
    /\ owner' = owner + 1
    /\ sup' = [sup EXCEPT ![owner + 1] = "silent"]
    /\ UNCHANGED <<guard, queueVars>>

\* Mutant: the generation is not compared.
OwnsAlways(g) == TRUE

Owns(g) == owner = g

\* The window of the next capture; the first publication's has begun.
\* A publication that fails changes nothing.
PublishGuard(g) ==
    /\ sup[g] \in {"silent", "published"}
    /\ Owns(g)
    /\ \E phase \in {"ahead", "inside"} :
         /\ phase = "inside" => sup[g] = "silent"
         /\ guard' = [generation |-> g, phase |-> phase]
    /\ sup' = [sup EXCEPT ![g] = "published"]
    /\ UNCHANGED <<owner, queueVars>>

\* The finally clause publishes that no capture is active, which admits work like a
\* window that is over; a supervisor that is killed, or whose last publication
\* fails, says nothing.
SupervisorEnds(g) ==
    /\ sup[g] \in {"silent", "published"}
    /\ \/ Owns(g) /\ guard' = [generation |-> g, phase |-> "over"]
       \/ UNCHANGED guard
    /\ sup' = [sup EXCEPT ![g] = "ended"]
    /\ UNCHANGED <<owner, queueVars>>

Passes(from, to) == guard.phase = from /\ guard' = [guard EXCEPT !.phase = to]

GuardTimePasses ==
    /\ Passes("ahead", "inside") \/ Passes("inside", "over") \/ Passes("over", "stale")
    /\ UNCHANGED <<owner, sup, queueVars>>

Admits == guard.phase \in {"ahead", "over"}

-----------------------------------------------------------------------------
(* The worker.                                                             *)

Goto(w, pc) == worker' = [worker EXCEPT ![w].pc = pc]
Release(w) == worker' = [worker EXCEPT ![w] = Idle]
HoldsPermit(w) == worker[w].pc \notin {"idle", "decided"}

\* The guard is read and the resources are probed; the slot is taken later.  A
\* high focused backlog, CPU, memory or I/O pressure, or a failed probe, refuse as
\* well, and the worker stays idle: the step is not taken.
Decide(w) ==
    /\ worker[w].pc = "idle"
    /\ Admits
    /\ Goto(w, "decided")
    /\ UNCHANGED <<work, product, faults, guardVars>>

AcquireSlot(w) ==
    /\ worker[w].pc = "decided"
    /\ Goto(w, IF Cardinality({v \in Workers : HoldsPermit(v)}) < MaximumConcurrency
               THEN "permitted" ELSE "idle")
    /\ UNCHANGED <<work, product, faults, guardVars>>

\* Mutant: a row that is leased has left the backlog.
BacklogUnleased == {s \in Suites : work[s].state \in {"ready", "failed"}}

Backlog == {s \in Suites : work[s].state \in Active}

Candidates == {s \in Suites : work[s].state = "none" /\ s \notin product}

Capacity ==
    LET room == MaximumActive - Cardinality(Backlog)
    IN  IF room < MaximumAdmissions THEN Max({0, room}) ELSE MaximumAdmissions

\* One transaction under the advisory lock; which candidates are the newest is
\* left open.
Admit(w) ==
    /\ worker[w].pc = "permitted"
    /\ \E new \in SUBSET Candidates :
         /\ Cardinality(new) <= Capacity
         /\ Cardinality(new) = Capacity \/ new = Candidates
         /\ work' = [s \in Suites |-> IF s \in new THEN [work[s] EXCEPT !.state = "ready", !.due = TRUE]
                                                   ELSE work[s]]
    /\ Goto(w, "claiming")
    /\ UNCHANGED <<product, faults, guardVars>>

\* Mutant: an expired lease is not offered again.
ClaimableUnleased(s) == work[s].state \in {"ready", "failed"} /\ work[s].due

Claimable(s) == work[s].state \in Active /\ work[s].due

\* The row is leased whether or not its bundle is live, and is returned only if
\* it is.  It always is: the suite's row references the bundle.
Claim(w, s) ==
    /\ worker[w].pc = "claiming"
    /\ Claimable(s)
    /\ work' = [work EXCEPT ![s] = [state |-> "leased", attempt |-> @.attempt + 1, due |-> FALSE]]
    /\ worker' = [worker EXCEPT ![w] = [pc |-> "producing", suite |-> s,
                                        attempt |-> work[s].attempt + 1]]
    /\ UNCHANGED <<product, faults, guardVars>>

NothingToClaim(w) ==
    /\ worker[w].pc = "claiming"
    /\ \A s \in Suites : ~Claimable(s)
    /\ Release(w)
    /\ UNCHANGED <<work, product, faults, guardVars>>

\* The product is published without regard to the lease; a second publication
\* finds the same row.
Produce(w) ==
    /\ worker[w].pc = "producing"
    /\ product' = product \cup {worker[w].suite}
    /\ Goto(w, "produced")
    /\ UNCHANGED <<work, faults, guardVars>>

LeaseIsHeld(w) ==
    LET row == work[worker[w].suite]
    IN  row.state = "leased" /\ row.attempt = worker[w].attempt /\ ~row.due

\* The attempts of a row that is settled are not looked at again.
Settled(state) == [state |-> state, attempt |-> 0, due |-> FALSE]
Retry(w) == [state |-> "failed", attempt |-> worker[w].attempt, due |-> FALSE]

\* complete, retry and park change the row of a lease that is held; otherwise the
\* lease is stale, and the worker goes on.
Settle(w, row) ==
    /\ work' = IF LeaseIsHeld(w) THEN [work EXCEPT ![worker[w].suite] = row] ELSE work
    /\ Release(w)
    /\ UNCHANGED <<product, faults, guardVars>>

Complete(w) == worker[w].pc = "produced" /\ Settle(w, Settled("succeeded"))

InvalidInput(w) == worker[w].pc = "producing" /\ Settle(w, Settled("parked"))

\* Any other error of the production, or of the completion.
TransientFailure(w) ==
    /\ worker[w].pc \in {"producing", "produced"}
    /\ Settle(w, IF worker[w].attempt >= MaximumAttempts THEN Settled("parked") ELSE Retry(w))

\* The process dies, or an error outside the production ends it; the kernel
\* closes its slot, and systemd starts it again.
Crash(w) ==
    /\ worker[w].pc # "idle"
    /\ faults < MaxFaults
    /\ faults' = faults + 1
    /\ Release(w)
    /\ UNCHANGED <<work, product, guardVars>>

HasHolder(s) == \E w \in Workers : worker[w].suite = s /\ LeaseIsHeld(w)

\* The retry delay passes, or a lease runs out.
RowIsDue(s) ==
    /\ work[s].state \in {"leased", "failed"} /\ ~work[s].due
    /\ IF HasHolder(s) THEN faults < MaxFaults /\ faults' = faults + 1 ELSE UNCHANGED faults
    /\ work' = [work EXCEPT ![s].due = TRUE]
    /\ UNCHANGED <<product, worker, guardVars>>

-----------------------------------------------------------------------------

WorkerStep(w) ==
    \/ AcquireSlot(w) \/ Admit(w) \/ NothingToClaim(w)
    \/ \E s \in Suites : Claim(w, s)
    \/ Produce(w) \/ Complete(w) \/ InvalidInput(w) \/ TransientFailure(w)

Next ==
    \/ TakeOwnership \/ GuardTimePasses
    \/ \E g \in Generations : PublishGuard(g) \/ SupervisorEnds(g)
    \/ \E w \in Workers : Decide(w) \/ WorkerStep(w) \/ Crash(w)
    \/ \E s \in Suites : RowIsDue(s)

Spec == Init /\ [][Next]_vars

\* A worker polls and goes on, and the time of a row that nobody works on comes.
\* Strong fairness of Decide assumes of the host that backlog and resources do not
\* refuse every time the guard admits.
FairSpec ==
    /\ Spec
    /\ \A w \in Workers : SF_vars(Decide(w)) /\ WF_vars(WorkerStep(w))
    /\ \A s \in Suites : WF_vars(~HasHolder(s) /\ RowIsDue(s))

-----------------------------------------------------------------------------
(* Properties.                                                             *)

\* Whatever is claimed, retried, expired and reclaimed in the meantime, no more
\* rows are active than the limit allows, for each worker admits by its own count.
BacklogIsBounded ==
    Cardinality({s \in Suites : work[s].state \in {"ready", "leased", "failed"}}) <= MaximumActive

\* Once a supervisor that took over the guard has published, the guard is its
\* own: the last word of a predecessor that ends later does not reach the file.
GuardIsTheOwners ==
    owner # 0 /\ sup[owner] = "published" => guard.generation = owner

\* As long as guard and host keep admitting work, every row that was admitted is
\* settled, across crashes and leases that run out.
AdmittedIsSettled ==
    []<>Admits => \A s \in Suites :
        (work[s].state \in Active) ~> (work[s].state \in {"succeeded", "parked"})
=============================================================================
