----------------------- MODULE ObjectLifecycleProofs -----------------------
(***************************************************************************)
(* Proofs about ObjectLifecycle for every set of digests, recordings,      *)
(* collectors and reconcilers and every value of the times and bounds.     *)
(***************************************************************************)
EXTENDS ObjectLifecycle, TLAPS

\* The constant rows and processes are well-formed.
LEMMA ConstantTypes ==
  /\ NoClaim \in BlobRow
  /\ \A s \in BlobState : [NoClaim EXCEPT !.state = s] \in BlobRow
  /\ Unseen \in OrphanRow
  /\ GcIdle \in Collector
  /\ NoRun \in Reconciler
  BY DEF NoClaim, Unseen, GcIdle, NoRun, BlobRow, OrphanRow, Collector, Reconciler,
         BlobState, OrphanState, CollectorState, ReconcilerState

\* The objects of a recording are digests of the store.
LEMMA DigestsOfType ==
  ASSUME NEW r \in Recordings
  PROVE  /\ Objects[r][1] \in Digests /\ Objects[r][2] \in Digests
         /\ DigestsOf(r) \subseteq Digests
  BY ObjectsAssumption DEF DigestsOf

\* put leaves a well-formed store.
LEMMA PutType ==
  ASSUME file \in [Digests -> Nat], created \in [Digests -> Nat],
         NEW d \in Digests, Put(d)
  PROVE  file' \in [Digests -> Nat] /\ created' \in [Digests -> Nat]
<1>1. created[d] + 1 \in Nat
  OBVIOUS
<1> QED
  BY <1>1 DEF Put

\* What a collector becomes in one step is a collector.
LEMMA CollectorTypes ==
  ASSUME NEW p \in Collector, NEW d \in Digests, NEW n \in Nat
  PROVE  /\ [p EXCEPT !.pc = "claimed", !.batch = @ \ {d}, !.digest = d, !.token = n]
              \in Collector
         /\ [p EXCEPT !.batch = @ \ {d}] \in Collector
         /\ [p EXCEPT !.pc = "batch", !.digest = NoDigest, !.token = 0] \in Collector
         /\ p.pc = "claimed" => /\ [p EXCEPT !.pc = "unlinked"] \in Collector
                                /\ [p EXCEPT !.pc = "error"] \in Collector
  BY DEF Collector, CollectorState

\* An entry of the inventory makes a reconciler of a reconciler.
LEMMA InventoriedType ==
  ASSUME NEW p \in Reconciler, NEW d \in Digests, NEW n \in Nat, p.remaining > 0
  PROVE  [p EXCEPT !.pc = "inventoried", !.digest = d, !.evidence = n,
                   !.remaining = @ - 1] \in Reconciler
<1>1. p.remaining - 1 \in Nat
  BY DEF Reconciler
<1> QED
  BY <1>1 DEF Reconciler, ReconcilerState

\* Done and Goto keep the reconcilers well-formed.
LEMMA DoneType ==
  ASSUME NEW q \in Reconcilers, rec \in [Reconcilers -> Reconciler], Done(q)
  PROVE  rec' \in [Reconcilers -> Reconciler]
<1>1. rec' = [rec EXCEPT ![q] = [rec[q] EXCEPT !.pc = "idle", !.digest = NoDigest,
                                               !.evidence = 0]]
  BY DEF Done, Reconciler
<1>2. [rec[q] EXCEPT !.pc = "idle", !.digest = NoDigest, !.evidence = 0] \in Reconciler
  BY DEF Reconciler, ReconcilerState
<1> QED
  BY <1>1, <1>2
LEMMA GotoType ==
  ASSUME NEW q \in Reconcilers, rec \in [Reconcilers -> Reconciler],
         rec[q].pc \notin {"stopped", "idle"},
         NEW pc \in {"observed", "authorized", "fenced", "unlinked"}, Goto(q, pc)
  PROVE  rec' \in [Reconcilers -> Reconciler]
<1>1. rec' = [rec EXCEPT ![q] = [rec[q] EXCEPT !.pc = pc]]
  BY DEF Goto
<1>2. [rec[q] EXCEPT !.pc = pc] \in Reconciler
  BY DEF Reconciler, ReconcilerState
<1> QED
  BY <1>1, <1>2

\* Every row, leaf and process keeps its type under every step of publishers,
\* collectors and reconcilers.
THEOREM TypeCorrect == Spec => []TypeOK
<1> USE ObjectsAssumption, BoundsAssumption
<1>1. Init => TypeOK
  BY ConstantTypes DEF Init, TypeOK
<1>2. TypeOK /\ [Next]_vars => TypeOK'
  <2> SUFFICES ASSUME TypeOK, [Next]_vars PROVE TypeOK'
    OBVIOUS
  <2> USE DEF TypeOK
  <2>1. CASE Tick
    BY <2>1 DEF Tick
  <2>2. ASSUME NEW r \in Recordings, PutData(r) \/ PutMetadata(r) PROVE TypeOK'
    <3>1. file' \in [Digests -> Nat] /\ created' \in [Digests -> Nat]
      BY <2>2, PutType, DigestsOfType DEF PutData, PutMetadata
    <3> QED
      BY <2>2, <3>1 DEF PutData, PutMetadata
  <2>3. ASSUME NEW r \in Recordings, Publish(r) PROVE TypeOK'
    <3>1. blob' \in [Digests -> BlobRow]
      <4>1. \A row \in BlobRow : Registered(row) \in BlobRow
        BY ConstantTypes DEF Registered, BlobState
      <4> QED
        BY <2>3, <4>1 DEF Publish
    <3>2. orphan' \in [Digests -> OrphanRow]
      <4>1. \A d \in Digests : [orphan[d] EXCEPT !.state = "registered"] \in OrphanRow
        BY DEF OrphanRow, OrphanState
      <4> QED
        BY <2>3, <4>1 DEF Publish
    <3> QED
      BY <2>3, <3>1, <3>2 DEF Publish
  <2>4. ASSUME NEW r \in Recordings,
               PublishRefused(r) \/ PublisherCrash(r) \/ RetireReference(r)
        PROVE  TypeOK'
    BY <2>4 DEF PublishRefused, PublisherCrash, RetireReference
  <2>5. ASSUME NEW c \in Collectors, GcCandidates(c) PROVE TypeOK'
    <3>1. PICK batch \in SUBSET Digests :
            gc' = [gc EXCEPT ![c] = [GcIdle EXCEPT !.pc = "batch", !.asOf = now,
                                                   !.batch = batch]]
      BY <2>5 DEF GcCandidates
    <3>2. [GcIdle EXCEPT !.pc = "batch", !.asOf = now, !.batch = batch] \in Collector
      BY DEF GcIdle, Collector, CollectorState
    <3> QED
      BY <2>5, <3>1, <3>2 DEF GcCandidates
  <2>6. ASSUME NEW c \in Collectors, NEW d \in Digests, GcClaim(c, d) PROVE TypeOK'
    <3>1. gc[c] \in Collector /\ claims[d] + 1 \in Nat
      OBVIOUS
    <3>2. ClaimExpiry(c) \in Nat
      BY <3>1 DEF ClaimExpiry, Collector
    <3>3. claims' \in [Digests -> Nat]
      BY <2>6, <3>1 DEF GcClaim
    <3>4. blob' \in [Digests -> BlobRow]
      <4>1. [state |-> "gc_claimed", token |-> claims[d] + 1, expires |-> ClaimExpiry(c)]
              \in BlobRow
        BY <3>1, <3>2 DEF BlobRow, BlobState
      <4> QED
        BY <2>6, <4>1 DEF GcClaim
    <3>5. gc' \in [Collectors -> Collector]
      <4>1. CASE gc' = [gc EXCEPT ![c].pc = "claimed", ![c].batch = @ \ {d},
                                  ![c].digest = d, ![c].token = claims[d] + 1]
        <5>1. gc' = [gc EXCEPT ![c] = [gc[c] EXCEPT !.pc = "claimed", !.batch = @ \ {d},
                                         !.digest = d, !.token = claims[d] + 1]]
          BY <3>1, <4>1 DEF Collector
        <5> QED
          BY <3>1, <5>1, CollectorTypes
      <4>2. CASE gc' = [gc EXCEPT ![c].batch = @ \ {d}]
        BY <3>1, <4>2, CollectorTypes
      <4> QED
        BY <2>6, <4>1, <4>2 DEF GcClaim
    <3> QED
      BY <2>6, <3>3, <3>4, <3>5 DEF GcClaim
  <2>7. ASSUME NEW c \in Collectors, GcUnlink(c) \/ GcUnlinkError(c) PROVE TypeOK'
    <3>1. gc[c] \in Collector /\ gc[c].pc = "claimed" /\ gc[c].digest \in Digests
      BY <2>7 DEF GcUnlink, GcUnlinkError, Collector
    <3>2. \/ gc' = [gc EXCEPT ![c] = [gc[c] EXCEPT !.pc = "unlinked"]]
          \/ gc' = [gc EXCEPT ![c] = [gc[c] EXCEPT !.pc = "error"]]
      BY <2>7 DEF GcUnlink, GcUnlinkError
    <3>3. gc' \in [Collectors -> Collector]
      BY <3>1, <3>2, CollectorTypes
    <3> QED
      BY <2>7, <3>3 DEF GcUnlink, GcUnlinkError
  <2>8. ASSUME NEW c \in Collectors, GcFinish(c) PROVE TypeOK'
    <3>1. gc[c] \in Collector /\ gc[c].digest \in Digests
      BY <2>8 DEF GcFinish, Collector
    <3>2. \/ gc' = [gc EXCEPT ![c] = [gc[c] EXCEPT !.pc = "batch", !.digest = NoDigest,
                                                   !.token = 0]]
          \/ gc' = [gc EXCEPT ![c] = GcIdle]
      BY <2>8, <3>1 DEF GcFinish, Collector
    <3>3. gc' \in [Collectors -> Collector]
      BY <3>1, <3>2, CollectorTypes, ConstantTypes
    <3>4. blob' \in [Digests -> BlobRow]
      <4>1. \/ UNCHANGED blob
            \/ \E s \in BlobState :
                 blob' = [blob EXCEPT ![gc[c].digest] = [NoClaim EXCEPT !.state = s]]
        BY <2>8 DEF GcFinish, BlobState
      <4>2. blob \in [Digests -> BlobRow]
        OBVIOUS
      <4> QED
        BY ONLY <4>1, <4>2, ConstantTypes
    <3> QED
      BY <2>8, <3>3, <3>4 DEF GcFinish
  <2>9. ASSUME NEW c \in Collectors, GcBatchDone(c) \/ GcCrash(c) PROVE TypeOK'
    <3>1. gc' \in [Collectors -> Collector]
      BY <2>9, ConstantTypes DEF GcBatchDone, GcCrash
    <3> QED
      BY <2>9, <3>1 DEF GcBatchDone, GcCrash
  <2>10. ASSUME NEW q \in Reconcilers, StartRun(q) PROVE TypeOK'
    <3>1. PICK first \in SUBSET Digests, n \in 0..PageLimit :
            rec' = [rec EXCEPT ![q] =
              [NoRun EXCEPT !.pc = "idle", !.remaining = PageLimit - n,
                            !.pending = {<<d, orphan[d].evidence>> : d \in first}]]
      BY <2>10 DEF StartRun
    <3> DEFINE left == {<<d, orphan[d].evidence>> : d \in first}
    <3>2. left \in SUBSET (Digests \X Nat) /\ PageLimit - n \in Nat
      BY DEF OrphanRow
    <3> HIDE DEF left
    <3>3. [NoRun EXCEPT !.pc = "idle", !.remaining = PageLimit - n, !.pending = left]
            \in Reconciler
      BY ONLY <3>2 DEF NoRun, Reconciler, ReconcilerState, NoDigest
    <3>4. rec' \in [Reconcilers -> Reconciler]
      BY <3>1, <3>3 DEF left
    <3> QED
      BY <2>10, <3>4 DEF StartRun
  <2>11. ASSUME NEW q \in Reconcilers, NEW entry \in rec[q].pending, ResumeClaim(q, entry)
         PROVE  TypeOK'
    <3>1. entry \in Digests \X Nat /\ rec[q].pending \ {entry} \in SUBSET (Digests \X Nat)
      BY DEF Reconciler
    <3>2. [pc |-> "authorized", digest |-> entry[1], evidence |-> entry[2],
           pending |-> rec[q].pending \ {entry}, remaining |-> rec[q].remaining]
             \in Reconciler
      BY <3>1 DEF Reconciler, ReconcilerState
    <3>3. rec' \in [Reconcilers -> Reconciler]
      BY <2>11, <3>2 DEF ResumeClaim
    <3> QED
      BY <2>11, <3>3 DEF ResumeClaim
  <2>12. ASSUME NEW q \in Reconcilers, NEW d \in Digests, Inventory(q, d) PROVE TypeOK'
    <3>1. rec' = [rec EXCEPT ![q] = [rec[q] EXCEPT !.pc = "inventoried", !.digest = d,
                                                   !.evidence = file[d],
                                                   !.remaining = @ - 1]]
      BY <2>12 DEF Inventory, Reconciler
    <3>2. rec' \in [Reconcilers -> Reconciler]
      <4>1. rec[q] \in Reconciler /\ rec[q].remaining > 0 /\ file[d] \in Nat
        BY <2>12 DEF Inventory
      <4> QED
        BY <3>1, <4>1, InventoriedType
    <3> QED
      BY <2>12, <3>2 DEF Inventory
  <2>13. ASSUME NEW q \in Reconcilers, EndRun(q) \/ ReconcilerCrash(q) PROVE TypeOK'
    <3>1. rec' \in [Reconcilers -> Reconciler]
      BY <2>13, ConstantTypes DEF EndRun, ReconcilerCrash
    <3> QED
      BY <2>13, <3>1 DEF EndRun, ReconcilerCrash
  <2>14. ASSUME NEW q \in Reconcilers, Observe(q) PROVE TypeOK'
    <3>1. rec' \in [Reconcilers -> Reconciler]
      BY <2>14, DoneType, GotoType DEF Observe
    <3>2. [state |-> "observed", evidence |-> rec[q].evidence, first |-> now] \in OrphanRow
      BY DEF Reconciler, OrphanRow, OrphanState
    <3>3. orphan' \in [Digests -> OrphanRow]
      BY <2>14, <3>2 DEF Observe
    <3> QED
      BY <2>14, <3>1, <3>3 DEF Observe
  <2>15. ASSUME NEW q \in Reconcilers, ClaimOrphan(q) PROVE TypeOK'
    <3>1. rec' \in [Reconcilers -> Reconciler]
      BY <2>15, DoneType, GotoType DEF ClaimOrphan
    <3>2. orphan' \in [Digests -> OrphanRow]
      <4>1. \A d \in Digests : [orphan[d] EXCEPT !.state = "claimed"] \in OrphanRow
        BY DEF OrphanRow, OrphanState
      <4> QED
        BY <2>15, <4>1 DEF ClaimOrphan
    <3> QED
      BY <2>15, <3>1, <3>2 DEF ClaimOrphan
  <2>16. ASSUME NEW q \in Reconcilers, EnterFence(q) PROVE TypeOK'
    <3>1. rec' \in [Reconcilers -> Reconciler]
      BY <2>16, DoneType, GotoType DEF EnterFence
    <3>2. rec[q].digest \in Digests
      BY <2>16 DEF EnterFence, Reconciler
    <3> QED
      BY <2>16, <3>1, <3>2 DEF EnterFence
  <2>17. ASSUME NEW q \in Reconcilers, UnlinkExact(q) PROVE TypeOK'
    <3>1. rec' \in [Reconcilers -> Reconciler]
      BY <2>17, GotoType DEF UnlinkExact
    <3> QED
      BY <2>17, <3>1 DEF UnlinkExact
  <2>18. ASSUME NEW q \in Reconcilers, EvidenceChanged(q) \/ UnlinkError(q) PROVE TypeOK'
    <3>1. rec' \in [Reconcilers -> Reconciler]
      BY <2>18, DoneType, ConstantTypes
         DEF EvidenceChanged, UnlinkError, DeleteFailed, LeaveFence
    <3> QED
      BY <2>18, <3>1 DEF EvidenceChanged, UnlinkError, DeleteFailed, LeaveFence
  <2>19. ASSUME NEW q \in Reconcilers, CompleteOrphan(q) PROVE TypeOK'
    <3>1. rec' \in [Reconcilers -> Reconciler]
      BY <2>19, DoneType, ConstantTypes DEF CompleteOrphan, LeaveFence
    <3>2. orphan' \in [Digests -> OrphanRow]
      <4>1. \A d \in Digests : [orphan[d] EXCEPT !.state = "deleted"] \in OrphanRow
        BY DEF OrphanRow, OrphanState
      <4> QED
        BY <2>19, <4>1 DEF CompleteOrphan
    <3> QED
      BY <2>19, <3>1, <3>2 DEF CompleteOrphan, LeaveFence
  <2>20. CASE UNCHANGED vars
    BY <2>20 DEF vars
  <2> QED
    BY <2>1, <2>2, <2>3, <2>4, <2>5, <2>6, <2>7, <2>8, <2>9, <2>10, <2>11, <2>12,
       <2>13, <2>14, <2>15, <2>16, <2>17, <2>18, <2>19, <2>20
       DEF Next, PublisherStep, CollectorStep, DeletionStep
<1> QED
  BY <1>1, <1>2, PTL DEF Spec

-----------------------------------------------------------------------------
\* What a step does to the catalog: publication, collection and reconciliation
\* change different rows under conditions that exclude each other.
LEMMA CatalogStep ==
  ASSUME TypeOK, [Next]_vars
  PROVE  \/ \E r \in Recordings : Publish(r)
         \/ UNCHANGED <<blob, orphan>> /\ refs' \subseteq refs
         \/ \E d \in Digests : \E b \in BlobRow :
              /\ blob' = [blob EXCEPT ![d] = b]
              /\ b.state # "none" /\ blob[d].state # "none"
              /\ ~Referenced(d) \/ blob[d].state # "live"
              /\ UNCHANGED <<orphan, refs, rec, fence>>
         \/ \E d \in Digests : \E o \in OrphanRow :
              /\ orphan' = [orphan EXCEPT ![d] = o]
              /\ o.state = "claimed" => blob[d].state = "none"
              /\ UNCHANGED <<blob, refs>>
<1> DEFINE Quiet == UNCHANGED <<blob, orphan>> /\ refs' \subseteq refs
           Collects == \E d \in Digests : \E b \in BlobRow :
              /\ blob' = [blob EXCEPT ![d] = b]
              /\ b.state # "none" /\ blob[d].state # "none"
              /\ ~Referenced(d) \/ blob[d].state # "live"
              /\ UNCHANGED <<orphan, refs, rec, fence>>
           Resolves == \E d \in Digests : \E o \in OrphanRow :
              /\ orphan' = [orphan EXCEPT ![d] = o]
              /\ o.state = "claimed" => blob[d].state = "none"
              /\ UNCHANGED <<blob, refs>>
<1>1. ASSUME NEW r \in Recordings,
             \/ PutData(r) \/ PutMetadata(r) \/ PublishRefused(r)
             \/ PublisherCrash(r) \/ RetireReference(r)
      PROVE  Quiet
  BY <1>1 DEF PutData, PutMetadata, PublishRefused, PublisherCrash, RetireReference
<1>2. ASSUME NEW c \in Collectors,
             \/ GcCandidates(c) \/ GcUnlink(c) \/ GcUnlinkError(c) \/ GcBatchDone(c)
             \/ GcCrash(c)
      PROVE  Quiet
  BY <1>2 DEF GcCandidates, GcUnlink, GcUnlinkError, GcBatchDone, GcCrash
<1>3. ASSUME NEW c \in Collectors, NEW d \in Digests, GcClaim(c, d)
      PROVE  Quiet \/ Collects
  <2> DEFINE b == [state |-> "gc_claimed", token |-> claims[d] + 1,
                   expires |-> ClaimExpiry(c)]
  <2>1. CASE UNCHANGED blob
    BY <1>3, <2>1 DEF GcClaim
  <2>2. CASE /\ Collectable(d) /\ blob' = [blob EXCEPT ![d] = b]
             /\ blob[d].state \in {"live", "gc_delete_failed", "gc_claimed"}
    <3>1. b \in BlobRow
      BY BoundsAssumption DEF TypeOK, BlobRow, BlobState, ClaimExpiry, Collector
    <3>2. b.state = "gc_claimed"
      OBVIOUS
    <3> HIDE DEF b
    <3> QED
      BY <1>3, <2>2, <3>1, <3>2 DEF GcClaim, Collectable
  <2> QED
    BY <1>3, <2>1, <2>2 DEF GcClaim, GcClaimable
<1>4. ASSUME NEW c \in Collectors, GcFinish(c) PROVE Quiet \/ Collects
  <2> DEFINE d == gc[c].digest
             out == IF gc[c].pc = "unlinked" THEN "gc_deleted" ELSE "gc_delete_failed"
             b == [NoClaim EXCEPT !.state = out]
  <2>1. CASE UNCHANGED blob
    BY <1>4, <2>1 DEF GcFinish
  <2>2. CASE blob' = [blob EXCEPT ![d] = b] /\ blob[d].state = "gc_claimed"
    <3>1. d \in Digests
      BY <1>4 DEF GcFinish, TypeOK, Collector
    <3>2. b \in BlobRow /\ b.state # "none"
      BY DEF NoClaim, BlobRow, BlobState
    <3> HIDE DEF b
    <3> QED
      BY <1>4, <2>2, <3>1, <3>2 DEF GcFinish
  <2> QED
    BY <1>4, <2>1, <2>2 DEF GcFinish
<1>5. ASSUME NEW q \in Reconcilers,
             \/ StartRun(q) \/ EndRun(q) \/ ReconcilerCrash(q) \/ EnterFence(q)
             \/ UnlinkExact(q) \/ EvidenceChanged(q) \/ UnlinkError(q)
             \/ (\E entry \in rec[q].pending : ResumeClaim(q, entry))
             \/ (\E d \in Digests : Inventory(q, d))
      PROVE  Quiet
  BY <1>5 DEF StartRun, EndRun, ReconcilerCrash, EnterFence, UnlinkExact,
              EvidenceChanged, UnlinkError, DeleteFailed, ResumeClaim, Inventory
<1>6. ASSUME NEW q \in Reconcilers, Observe(q) PROVE Quiet \/ Resolves
  <2> DEFINE d == rec[q].digest
             o == [state |-> "observed", evidence |-> rec[q].evidence, first |-> now]
  <2>1. CASE UNCHANGED orphan
    BY <1>6, <2>1 DEF Observe
  <2>2. CASE orphan' = [orphan EXCEPT ![d] = o]
    <3>1. d \in Digests /\ o \in OrphanRow
      BY <1>6 DEF Observe, TypeOK, Reconciler, OrphanRow, OrphanState
    <3>2. o.state = "observed"
      OBVIOUS
    <3> HIDE DEF o
    <3> QED
      BY <1>6, <2>2, <3>1, <3>2 DEF Observe
  <2> QED
    BY <1>6, <2>1, <2>2 DEF Observe
<1>7. ASSUME NEW q \in Reconcilers, ClaimOrphan(q) PROVE Quiet \/ Resolves
  <2> DEFINE d == rec[q].digest
             o == [orphan[d] EXCEPT !.state = "claimed"]
  <2>1. CASE UNCHANGED orphan
    BY <1>7, <2>1 DEF ClaimOrphan
  <2>2. CASE orphan' = [orphan EXCEPT ![d] = o] /\ blob[d].state = "none"
    <3>1. d \in Digests /\ o \in OrphanRow
      BY <1>7 DEF ClaimOrphan, TypeOK, Reconciler, OrphanRow, OrphanState
    <3> HIDE DEF o
    <3> QED
      BY <1>7, <2>2, <3>1 DEF ClaimOrphan
  <2> QED
    BY <1>7, <2>1, <2>2 DEF ClaimOrphan, Unregistered
<1>8. ASSUME NEW q \in Reconcilers, CompleteOrphan(q) PROVE Quiet \/ Resolves
  <2> DEFINE d == rec[q].digest
             o == [orphan[d] EXCEPT !.state = "deleted"]
  <2>1. CASE UNCHANGED orphan
    BY <1>8, <2>1 DEF CompleteOrphan
  <2>2. CASE orphan' = [orphan EXCEPT ![d] = o]
    <3>1. d \in Digests /\ o \in OrphanRow /\ o.state = "deleted"
      BY <1>8 DEF CompleteOrphan, TypeOK, Reconciler, OrphanRow, OrphanState
    <3> HIDE DEF o
    <3> QED
      BY <1>8, <2>2, <3>1 DEF CompleteOrphan
  <2> QED
    BY <1>8, <2>1, <2>2 DEF CompleteOrphan
<1>9. CASE Tick \/ UNCHANGED vars
  BY <1>9 DEF Tick, vars
<1> QED
  BY <1>1, <1>2, <1>3, <1>4, <1>5, <1>6, <1>7, <1>8, <1>9
     DEF Next, PublisherStep, CollectorStep, DeletionStep

\* Whatever the interleaving of registrations, claims, failed deletions and
\* crashes, the objects of a committed recording are live rows
\* (gc_claim_object, gc_complete_object_delete, register_live_object_blob).
THEOREM ReferencedTheorem == Spec => []ReferencedIsLive
<1>1. Init => ReferencedIsLive
  BY DEF Init, ReferencedIsLive
<1>2. TypeOK /\ ReferencedIsLive /\ [Next]_vars => ReferencedIsLive'
  <2> SUFFICES ASSUME TypeOK, ReferencedIsLive, [Next]_vars,
                      NEW r \in refs', NEW d \in DigestsOf(r)
               PROVE  blob'[d].state = "live"
    BY DEF ReferencedIsLive, DigestsOf
  <2>1. ASSUME NEW s \in Recordings, Publish(s) PROVE blob'[d].state = "live"
    <3>1. r \in Recordings /\ d \in Digests
      BY <2>1, DigestsOfType DEF Publish, TypeOK
    <3>2. CASE d \in DigestsOf(s)
      BY <2>1, <3>1, <3>2 DEF Publish, Registrable
    <3>3. CASE d \notin DigestsOf(s)
      <4>1. r \in refs
        BY <2>1, <3>3 DEF Publish
      <4> QED
        BY <2>1, <3>1, <3>3, <4>1 DEF Publish, ReferencedIsLive
    <3> QED
      BY <3>2, <3>3
  <2>2. CASE UNCHANGED <<blob, orphan>> /\ refs' \subseteq refs
    BY <2>2 DEF ReferencedIsLive
  <2>3. ASSUME NEW x \in Digests, NEW b \in BlobRow,
               blob' = [blob EXCEPT ![x] = b],
               ~Referenced(x) \/ blob[x].state # "live", UNCHANGED refs
        PROVE  blob'[d].state = "live"
    <3>1. d # x
      BY <2>3 DEF ReferencedIsLive, Referenced
    <3> QED
      BY <2>3, <3>1 DEF ReferencedIsLive, TypeOK
  <2>4. CASE UNCHANGED <<blob, refs>>
    BY <2>4 DEF ReferencedIsLive
  <2> QED
    BY <2>1, <2>2, <2>3, <2>4, CatalogStep
<1> QED
  BY <1>1, <1>2, TypeCorrect, PTL DEF Spec

\* No catalogued digest is under an orphan claim (claim_unregistered_object,
\* register_live_object_blob).
THEOREM ClaimTheorem == Spec => []ClaimExcludesCatalog
<1>1. Init => ClaimExcludesCatalog
  BY DEF Init, ClaimExcludesCatalog, Unseen
<1>2. TypeOK /\ ClaimExcludesCatalog /\ [Next]_vars => ClaimExcludesCatalog'
  <2> SUFFICES ASSUME TypeOK, ClaimExcludesCatalog, [Next]_vars,
                      NEW d \in Digests, orphan'[d].state = "claimed"
               PROVE  blob'[d].state = "none"
    BY DEF ClaimExcludesCatalog
  <2>1. ASSUME NEW s \in Recordings, Publish(s) PROVE blob'[d].state = "none"
    <3>1. d \notin DigestsOf(s)
      <4>1. ASSUME d \in DigestsOf(s) PROVE orphan'[d].state # "claimed"
        BY <2>1, <4>1 DEF Publish, Registrable, TypeOK, OrphanRow
      <4> QED
        BY <4>1
    <3> QED
      BY <2>1, <3>1 DEF Publish, ClaimExcludesCatalog
  <2>2. CASE UNCHANGED <<blob, orphan>>
    BY <2>2 DEF ClaimExcludesCatalog
  <2>3. ASSUME NEW x \in Digests, NEW b \in BlobRow,
               blob' = [blob EXCEPT ![x] = b], blob[x].state # "none", UNCHANGED orphan
        PROVE  blob'[d].state = "none"
    BY <2>3 DEF ClaimExcludesCatalog, TypeOK
  <2>4. ASSUME NEW x \in Digests, NEW o \in OrphanRow,
               orphan' = [orphan EXCEPT ![x] = o],
               o.state = "claimed" => blob[x].state = "none", UNCHANGED blob
        PROVE  blob'[d].state = "none"
    BY <2>4 DEF ClaimExcludesCatalog, TypeOK
  <2> QED
    BY <2>1, <2>2, <2>3, <2>4, CatalogStep
<1> QED
  BY <1>1, <1>2, TypeCorrect, PTL DEF Spec

-----------------------------------------------------------------------------
Deleting(q) == rec[q].pc \in {"fenced", "unlinked"}

\* What the fence means for one reconciler between its check and its commit: the
\* digest is fenced, uncatalogued and claimed by the evidence it checked, and
\* nobody else deletes it.
Covered(q) ==
    LET d == rec[q].digest IN
    /\ d \in fence
    /\ blob[d].state = "none"
    /\ orphan[d].state = "claimed" /\ orphan[d].evidence = rec[q].evidence
    /\ \A p \in Reconcilers \ {q} : Deleting(p) => rec[p].digest # d

\* The inductive invariant: FenceCoversDeletion with the lock that brings it about.
FenceInv == \A q \in Reconcilers : Deleting(q) => Covered(q)

\* A step of reconciler q after which it is not deleting: it may free its own
\* fence, and touches the observation of its own digest only.
LEMMA LeavesOthersCovered ==
  ASSUME TypeOK, FenceInv, NEW q \in Reconcilers, ~Deleting(q)', UNCHANGED blob,
         \A p \in Reconcilers \ {q} : rec'[p] = rec[p],
         \A d \in fence \ fence' : Deleting(q) /\ d = rec[q].digest,
         \A d \in Digests : orphan'[d] # orphan[d] =>
            d = rec[q].digest /\ (Deleting(q) \/ d \notin fence)
  PROVE  FenceInv'
<1> SUFFICES ASSUME NEW p \in Reconcilers, Deleting(p)' PROVE Covered(p)'
  BY DEF FenceInv, Covered, Deleting
<1>1. p # q /\ rec'[p] = rec[p] /\ Deleting(p) /\ rec[p].digest \in Digests
  BY DEF Deleting, TypeOK, Reconciler
<1>2. Covered(p)
  BY <1>1 DEF FenceInv, Covered, Deleting
<1>3. Deleting(q) => rec[q].digest # rec[p].digest
  BY <1>1, <1>2 DEF Covered
<1>4. rec[p].digest \in fence' /\ orphan'[rec[p].digest] = orphan[rec[p].digest]
  BY <1>1, <1>2, <1>3 DEF Covered
<1>5. \A v \in Reconcilers \ {p} : Deleting(v)' => rec'[v].digest # rec[p].digest
  BY <1>1, <1>2 DEF Covered, Deleting
<1> QED
  BY <1>1, <1>2, <1>4, <1>5 DEF Covered

\* A step that leaves the reconcilers and the fence alone and changes only rows
\* of digests that are catalogued or not fenced.
LEMMA CatalogKeepsCovered ==
  ASSUME TypeOK, FenceInv, UNCHANGED <<rec, fence>>,
         \A d \in Digests : blob'[d] # blob[d] \/ orphan'[d] # orphan[d] =>
            d \notin fence \/ blob[d].state # "none"
  PROVE  FenceInv'
<1> SUFFICES ASSUME NEW p \in Reconcilers, Deleting(p)' PROVE Covered(p)'
  BY DEF FenceInv, Covered, Deleting
<1>1. Deleting(p) /\ rec[p].digest \in Digests
  BY DEF Deleting, TypeOK, Reconciler
<1>2. Covered(p)
  BY <1>1 DEF FenceInv, Covered, Deleting
<1>3. /\ blob'[rec[p].digest] = blob[rec[p].digest]
      /\ orphan'[rec[p].digest] = orphan[rec[p].digest]
  BY <1>1, <1>2 DEF Covered
<1> QED
  BY <1>2, <1>3 DEF Covered, Deleting

\* Every step of publishers, collectors and reconcilers keeps the fenced window.
LEMMA FenceInvariant == Spec => []FenceInv
<1>1. Init => FenceInv
  BY DEF Init, FenceInv, Covered, Deleting, NoRun
<1>2. TypeOK /\ FenceInv /\ [Next]_vars => FenceInv'
  <2> SUFFICES ASSUME TypeOK, FenceInv, [Next]_vars
               PROVE  FenceInv'
    OBVIOUS
  <2>1. CASE Tick \/ UNCHANGED vars
    BY <2>1, CatalogKeepsCovered DEF Tick, vars
  <2>2. ASSUME NEW r \in Recordings,
               \/ PutData(r) \/ PutMetadata(r) \/ PublishRefused(r)
               \/ PublisherCrash(r) \/ RetireReference(r)
        PROVE  FenceInv'
    <3>1. UNCHANGED <<rec, fence, blob, orphan>>
      BY <2>2 DEF PutData, PutMetadata, PublishRefused, PublisherCrash, RetireReference
    <3> QED
      BY <3>1, CatalogKeepsCovered
  <2>3. ASSUME NEW r \in Recordings, Publish(r) PROVE FenceInv'
    <3>1. \A d \in Digests : blob'[d] # blob[d] \/ orphan'[d] # orphan[d] =>
            d \notin fence
      BY <2>3 DEF Publish
    <3> QED
      BY <2>3, <3>1, CatalogKeepsCovered DEF Publish
  <2>4. ASSUME NEW c \in Collectors,
               \/ GcCandidates(c) \/ GcUnlink(c) \/ GcUnlinkError(c) \/ GcBatchDone(c)
               \/ GcCrash(c)
        PROVE  FenceInv'
    <3>1. UNCHANGED <<rec, fence, blob, orphan>>
      BY <2>4 DEF GcCandidates, GcUnlink, GcUnlinkError, GcBatchDone, GcCrash
    <3> QED
      BY <3>1, CatalogKeepsCovered
  <2>5. ASSUME NEW c \in Collectors,
               GcFinish(c) \/ \E d \in Digests : GcClaim(c, d)
        PROVE  FenceInv'
    <3>1. UNCHANGED <<rec, fence, orphan>>
      BY <2>5 DEF GcFinish, GcClaim
    <3>2. \A d \in Digests : blob'[d] # blob[d] => blob[d].state # "none"
      BY <2>5 DEF GcFinish, GcClaim, GcClaimable, TypeOK
    <3> QED
      BY <3>1, <3>2, CatalogKeepsCovered
  <2>6. ASSUME NEW q \in Reconcilers,
               \/ StartRun(q) \/ EndRun(q) \/ ReconcilerCrash(q)
               \/ (\E entry \in rec[q].pending : ResumeClaim(q, entry))
               \/ (\E d \in Digests : Inventory(q, d))
        PROVE  FenceInv'
    <3>1. UNCHANGED <<blob, orphan>> /\ \A p \in Reconcilers \ {q} : rec'[p] = rec[p]
      BY <2>6 DEF StartRun, EndRun, ReconcilerCrash, ResumeClaim, Inventory, TypeOK
    <3>2. ~Deleting(q)'
      <4>1. ASSUME StartRun(q) PROVE ~Deleting(q)'
        BY <4>1 DEF StartRun, TypeOK, Reconciler, Deleting
      <4>2. ASSUME EndRun(q) \/ ReconcilerCrash(q) PROVE ~Deleting(q)'
        BY <4>2 DEF EndRun, ReconcilerCrash, TypeOK, NoRun, Deleting
      <4>3. ASSUME NEW entry, ResumeClaim(q, entry) PROVE ~Deleting(q)'
        BY <4>3 DEF ResumeClaim, TypeOK, Deleting
      <4>4. ASSUME NEW d \in Digests, Inventory(q, d) PROVE ~Deleting(q)'
        BY <4>4 DEF Inventory, TypeOK, Reconciler, Deleting
      <4> QED
        BY <2>6, <4>1, <4>2, <4>3, <4>4
    <3>3. \A d \in fence \ fence' : Deleting(q) /\ d = rec[q].digest
      BY <2>6 DEF StartRun, EndRun, ReconcilerCrash, ResumeClaim, Inventory, Deleting
    <3> QED
      BY <3>1, <3>2, <3>3, LeavesOthersCovered
  <2>7. ASSUME NEW q \in Reconcilers, Observe(q) \/ ClaimOrphan(q)
        PROVE  FenceInv'
    <3>1. UNCHANGED <<blob, fence>> /\ \A p \in Reconcilers \ {q} : rec'[p] = rec[p]
      BY <2>7 DEF Observe, ClaimOrphan, Done, Goto, TypeOK
    <3>2. ~Deleting(q)'
      BY <2>7 DEF Observe, ClaimOrphan, Done, Goto, TypeOK, Reconciler, Deleting
    <3>3. \A d \in Digests : orphan'[d] # orphan[d] =>
            d = rec[q].digest /\ d \notin fence
      BY <2>7 DEF Observe, ClaimOrphan, FenceFree, TypeOK
    <3> QED
      BY <3>1, <3>2, <3>3, LeavesOthersCovered
  <2>8. ASSUME NEW q \in Reconcilers, EnterFence(q) PROVE FenceInv'
    <3> DEFINE d == rec[q].digest
    <3>1. /\ UNCHANGED <<blob, orphan>> /\ \A p \in Reconcilers \ {q} : rec'[p] = rec[p]
          /\ d \notin fence /\ ~Deleting(q)
      BY <2>8 DEF EnterFence, Done, Goto, FenceFree, Deleting, TypeOK
    <3>2. CASE UNCHANGED fence /\ Done(q)
      <4>1. ~Deleting(q)'
        BY <3>2 DEF Done, Deleting, TypeOK, Reconciler
      <4> QED
        BY <3>1, <3>2, <4>1, LeavesOthersCovered
    <3>3. CASE /\ fence' = fence \cup {d} /\ Goto(q, "fenced")
               /\ blob[d].state = "none"
               /\ orphan[d].state = "claimed" /\ orphan[d].evidence = rec[q].evidence
      <4>1. rec'[q].digest = d /\ rec'[q].evidence = rec[q].evidence
        BY <3>3 DEF Goto, TypeOK, Reconciler
      <4>2. \A p \in Reconcilers \ {q} : Deleting(p)' =>
              Deleting(p) /\ rec'[p].digest = rec[p].digest /\ rec[p].digest \in fence
        BY <3>1 DEF FenceInv, Covered, Deleting
      <4>3. Covered(q)'
        BY <3>1, <3>3, <4>1, <4>2 DEF Covered
      <4>4. ASSUME NEW p \in Reconcilers \ {q}, Deleting(p)' PROVE Covered(p)'
        <5>1. Covered(p)
          BY <4>2, <4>4 DEF FenceInv, Covered, Deleting
        <5>2. \A v \in Reconcilers \ {p} : Deleting(v)' => rec'[v].digest # rec[p].digest
          BY <3>1, <4>1, <4>2, <4>4, <5>1 DEF Covered
        <5> QED
          BY <3>1, <3>3, <4>4, <5>1, <5>2 DEF Covered
      <4> QED
        BY <4>3, <4>4 DEF FenceInv, Covered, Deleting
    <3> QED
      BY <2>8, <3>2, <3>3 DEF EnterFence, Unregistered, ClaimStands
  <2>9. ASSUME NEW q \in Reconcilers, UnlinkExact(q) PROVE FenceInv'
    <3>1. /\ UNCHANGED <<blob, orphan, fence>> /\ Deleting(q)
          /\ \A p \in Reconcilers : /\ rec'[p].digest = rec[p].digest
                                    /\ rec'[p].evidence = rec[p].evidence
                                    /\ Deleting(p)' <=> Deleting(p)
      BY <2>9 DEF UnlinkExact, Goto, TypeOK, Reconciler, Deleting
    <3> QED
      BY <3>1 DEF FenceInv, Covered, Deleting
  <2>10. ASSUME NEW q \in Reconcilers,
                EvidenceChanged(q) \/ UnlinkError(q) \/ CompleteOrphan(q)
         PROVE  FenceInv'
    <3>1. UNCHANGED blob /\ Deleting(q) /\ \A p \in Reconcilers \ {q} : rec'[p] = rec[p]
      BY <2>10 DEF EvidenceChanged, UnlinkError, DeleteFailed, CompleteOrphan, LeaveFence, Done, NoRun,
                   Deleting, TypeOK
    <3>2. ~Deleting(q)'
      BY <2>10 DEF EvidenceChanged, UnlinkError, DeleteFailed, CompleteOrphan, LeaveFence, Done, NoRun,
                   Deleting, TypeOK, Reconciler
    <3>3. /\ \A d \in fence \ fence' : d = rec[q].digest
          /\ \A d \in Digests : orphan'[d] # orphan[d] => d = rec[q].digest
      BY <2>10 DEF EvidenceChanged, UnlinkError, DeleteFailed, CompleteOrphan, LeaveFence,
                   TypeOK
    <3> QED
      BY <3>1, <3>2, <3>3, LeavesOthersCovered
  <2> QED
    BY <2>1, <2>2, <2>3, <2>4, <2>5, <2>6, <2>7, <2>8, <2>9, <2>10
       DEF Next, PublisherStep, CollectorStep, DeletionStep
<1> QED
  BY <1>1, <1>2, TypeCorrect, PTL DEF Spec

\* While a reconciler is between its check and its commit, no other run completes
\* the claim it checked and no publisher registers the digest, for any number of
\* reconcilers that share the claim: the errors "lost its fence" of
\* delete_under_fence are unreachable (object_digest_fence).
THEOREM CoveredTheorem == Spec => []FenceCoversDeletion
<1>1. FenceInv => FenceCoversDeletion
  BY DEF FenceInv, Covered, Deleting, FenceCoversDeletion, ClaimStands, Unregistered
<1> QED
  BY <1>1, FenceInvariant, PTL

-----------------------------------------------------------------------------
\* A claimed observation has outlived the grace period.
ClaimAged ==
    \A d \in Digests :
        orphan[d].state = "claimed" => orphan[d].first + MinimumAge <= now

\* Observations change only through publication, observation, claim and
\* completion, and only a claim of an aged one makes a new claim.
LEMMA AgedInvariant == Spec => []ClaimAged
<1> USE BoundsAssumption
<1>1. Init => ClaimAged
  BY DEF Init, ClaimAged, Unseen
<1>2. TypeOK /\ ClaimAged /\ [Next]_vars => ClaimAged'
  <2> SUFFICES ASSUME TypeOK, ClaimAged, [Next]_vars,
                      NEW d \in Digests, orphan'[d].state = "claimed"
               PROVE  orphan'[d].first + MinimumAge <= now'
    BY DEF ClaimAged
  <2>1. CASE Tick
    BY <2>1 DEF Tick, ClaimAged, TypeOK, OrphanRow
  <2>2. ASSUME NEW r \in Recordings, Publish(r)
        PROVE  orphan'[d].first + MinimumAge <= now'
    <3>1. orphan'[d] = orphan[d]
      BY <2>2 DEF Publish, Registrable, TypeOK, OrphanRow
    <3> QED
      BY <2>2, <3>1 DEF Publish, ClaimAged
  <2>3. ASSUME NEW q \in Reconcilers, Observe(q)
        PROVE  orphan'[d].first + MinimumAge <= now'
    <3>1. orphan'[d] = orphan[d]
      BY <2>3 DEF Observe, TypeOK
    <3> QED
      BY <2>3, <3>1 DEF Observe, ClaimAged
  <2>4. ASSUME NEW q \in Reconcilers, ClaimOrphan(q)
        PROVE  orphan'[d].first + MinimumAge <= now'
    <3>1. CASE orphan'[d] = orphan[d]
      BY <2>4, <3>1 DEF ClaimOrphan, ClaimAged
    <3>2. CASE orphan'[d] # orphan[d]
      <4>1. /\ d = rec[q].digest /\ orphan'[d].first = orphan[d].first
            /\ \/ orphan[d].first + MinimumAge <= now
               \/ orphan[d].state = "claimed"
        BY <2>4, <3>2 DEF ClaimOrphan, TypeOK, OrphanRow
      <4> QED
        BY <2>4, <4>1 DEF ClaimOrphan, ClaimAged
    <3> QED
      BY <3>1, <3>2
  <2>5. ASSUME NEW q \in Reconcilers, CompleteOrphan(q)
        PROVE  orphan'[d].first + MinimumAge <= now'
    <3>1. orphan'[d] = orphan[d]
      BY <2>5 DEF CompleteOrphan, TypeOK, OrphanRow
    <3> QED
      BY <2>5, <3>1 DEF CompleteOrphan, ClaimAged
  <2>6. CASE UNCHANGED <<orphan, now>>
    BY <2>6 DEF ClaimAged
  <2>7. ASSUME NEW r \in Recordings,
               \/ PutData(r) \/ PutMetadata(r) \/ PublishRefused(r)
               \/ PublisherCrash(r) \/ RetireReference(r)
        PROVE  UNCHANGED <<orphan, now>>
    BY <2>7 DEF PutData, PutMetadata, PublishRefused, PublisherCrash, RetireReference
  <2>8. ASSUME NEW c \in Collectors,
               \/ GcCandidates(c) \/ GcUnlink(c) \/ GcUnlinkError(c) \/ GcBatchDone(c)
               \/ GcCrash(c) \/ GcFinish(c) \/ \E x \in Digests : GcClaim(c, x)
        PROVE  UNCHANGED <<orphan, now>>
    BY <2>8 DEF GcCandidates, GcUnlink, GcUnlinkError, GcBatchDone, GcCrash, GcFinish,
                GcClaim
  <2>9. ASSUME NEW q \in Reconcilers,
               \/ StartRun(q) \/ EndRun(q) \/ ReconcilerCrash(q) \/ EnterFence(q)
               \/ UnlinkExact(q) \/ EvidenceChanged(q) \/ UnlinkError(q)
               \/ (\E entry \in rec[q].pending : ResumeClaim(q, entry))
               \/ (\E x \in Digests : Inventory(q, x))
        PROVE  UNCHANGED <<orphan, now>>
    BY <2>9 DEF StartRun, EndRun, ReconcilerCrash, EnterFence, UnlinkExact,
                EvidenceChanged, UnlinkError, DeleteFailed, ResumeClaim, Inventory
  <2>10. CASE UNCHANGED vars
    BY <2>6, <2>10 DEF vars
  <2> QED
    BY <2>1, <2>2, <2>3, <2>4, <2>5, <2>6, <2>7, <2>8, <2>9, <2>10
       DEF Next, PublisherStep, CollectorStep, DeletionStep
<1> QED
  BY <1>1, <1>2, TypeCorrect, PTL DEF Spec

\* An orphan deletion removes exactly the incarnation that was observed,
\* outlived the grace period and was claimed (FileSystemCasInventory.unlink_exact
\* under delete_under_fence).
THEOREM RemovalTheorem == Spec => OrphanRemovesOnlyClaimed
<1>1. TypeOK /\ FenceCoversDeletion /\ ClaimAged /\ [Next]_vars =>
        [\A d \in Digests : file[d] # 0 /\ file'[d] = 0 /\ UNCHANGED gc
            => /\ orphan[d].state = "claimed" /\ orphan[d].evidence = file[d]
               /\ orphan[d].first + MinimumAge <= now]_vars
  <2> SUFFICES ASSUME TypeOK, FenceCoversDeletion, ClaimAged, [Next]_vars,
                      NEW d \in Digests, file[d] # 0, file'[d] = 0, UNCHANGED gc
               PROVE  /\ orphan[d].state = "claimed" /\ orphan[d].evidence = file[d]
                      /\ orphan[d].first + MinimumAge <= now
    OBVIOUS
  <2>1. PICK q \in Reconcilers : UnlinkExact(q)
    <3>1. ~(UNCHANGED file)
      OBVIOUS
    <3>2. ASSUME NEW r \in Recordings, PutData(r) \/ PutMetadata(r) PROVE FALSE
      <4>1. PICK x \in Digests : Put(x)
        BY <3>2, DigestsOfType DEF PutData, PutMetadata
      <4>2. created[x] + 1 # 0
        BY DEF TypeOK
      <4> QED
        BY <4>1, <4>2 DEF Put, TypeOK
    <3>3. ASSUME NEW r \in Recordings,
                 Publish(r) \/ PublishRefused(r) \/ PublisherCrash(r) \/ RetireReference(r)
          PROVE  FALSE
      BY <3>1, <3>3 DEF Publish, PublishRefused, PublisherCrash, RetireReference
    <3>4. ASSUME NEW c \in Collectors,
                 \/ GcCandidates(c) \/ GcUnlinkError(c) \/ GcBatchDone(c)
                 \/ GcCrash(c) \/ GcFinish(c) \/ \E x \in Digests : GcClaim(c, x)
          PROVE  FALSE
      BY <3>1, <3>4 DEF GcCandidates, GcUnlinkError, GcBatchDone, GcCrash, GcFinish, GcClaim
    <3>5. ASSUME NEW c \in Collectors, GcUnlink(c) PROVE FALSE
      <4>1. gc'[c].pc = "unlinked" /\ gc[c].pc = "claimed"
        BY <3>5 DEF GcUnlink, TypeOK, Collector
      <4> QED
        BY <4>1
    <3>6. ASSUME NEW q \in Reconcilers,
                 \/ StartRun(q) \/ EndRun(q) \/ ReconcilerCrash(q) \/ EnterFence(q)
                 \/ EvidenceChanged(q) \/ UnlinkError(q) \/ Observe(q) \/ ClaimOrphan(q)
                 \/ CompleteOrphan(q)
                 \/ (\E entry \in rec[q].pending : ResumeClaim(q, entry))
                 \/ (\E x \in Digests : Inventory(q, x))
          PROVE  FALSE
      BY <3>1, <3>6 DEF StartRun, EndRun, ReconcilerCrash, EnterFence, EvidenceChanged,
         UnlinkError, DeleteFailed, Observe, ClaimOrphan, CompleteOrphan, ResumeClaim,
         Inventory
    <3>7. ASSUME Tick \/ UNCHANGED vars PROVE FALSE
      BY <3>1, <3>7 DEF Tick, vars
    <3> QED
      BY <3>2, <3>3, <3>4, <3>5, <3>6, <3>7
         DEF Next, PublisherStep, CollectorStep, DeletionStep
  <2>2. d = rec[q].digest /\ rec[q].pc = "fenced" /\ file[d] = rec[q].evidence
    BY <2>1 DEF UnlinkExact, TypeOK
  <2>3. orphan[d].state = "claimed" /\ orphan[d].evidence = file[d]
    BY <2>2 DEF FenceCoversDeletion, ClaimStands
  <2> QED
    BY <2>3 DEF ClaimAged
<1> QED
  BY <1>1, TypeCorrect, CoveredTheorem, AgedInvariant, PTL
     DEF Spec, OrphanRemovesOnlyClaimed

=============================================================================
