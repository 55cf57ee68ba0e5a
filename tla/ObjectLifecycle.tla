-------------------------- MODULE ObjectLifecycle --------------------------
(***************************************************************************)
(* The content-addressed store, its catalog, and the three programs that   *)
(* touch both: publishers (put both objects, then one catalog              *)
(* transaction), garbage collectors (claim a row, unlink, complete the     *)
(* row) and orphan reconcilers (observe, claim, unlink under the digest    *)
(* fence).  Bytes live in a file system that no transaction covers; a      *)
(* process may stop between any two of its steps.                          *)
(*                                                                         *)
(* A catalog transaction is one action: the rows and digests it reads are  *)
(* locked until it commits.  The one exception is the orphan deletion,     *)
(* which keeps the digest fence while it works on the file system.         *)
(***************************************************************************)
EXTENDS Integers, Sequences, FiniteSets

CONSTANTS
    Digests,        \* numbers, ordered as the catalog orders digests
    Recordings,
    Objects,        \* Objects[r] = <<data digest, metadata digest>>
    Deletable,      \* digests whose retention policies allow deletion by now
    Collectors, Reconcilers,
    ClaimTtl,       \* claim_ttl_seconds
    MinimumAge,     \* minimum_age_seconds
    PageLimit,      \* limit of one reconciliation run
    Inventoried,    \* digests on the pages that the runs' cursors select
    MaxClock,       \* bound: the clocks stop here
    MaxFiles,       \* bound: times the file of one digest is created
    MaxClaims       \* bound: garbage-collection claims of one digest

ASSUME ObjectsAssumption ==
    /\ Objects \in [Recordings -> Digests \X Digests]
    /\ Deletable \subseteq Digests /\ Inventoried \subseteq Digests
    /\ Digests \subseteq Nat \ {0}
ASSUME BoundsAssumption ==
    /\ ClaimTtl \in Nat \ {0} /\ MinimumAge \in Nat \ {0} /\ PageLimit \in Nat \ {0}
    /\ MaxClock \in Nat /\ MaxFiles \in Nat /\ MaxClaims \in Nat

VARIABLES
    now,       \* the database's and the collectors' clock
    file,      \* incarnation of the digest's leaf in the store, 0 if missing
    created,   \* incarnations so far; stands for inode, device and mtime
    blob,      \* rows of object_blob
    claims,    \* claim tokens issued for the digest; a token is never reused
    orphan,    \* rows of object_orphan_observation
    refs,      \* recordings whose catalog row is committed
    fence,     \* digests whose advisory lock an open deletion holds
    pub, gc, rec  \* the processes

vars == <<now, file, created, blob, claims, orphan, refs, fence, pub, gc, rec>>

BlobState == {"none", "live", "gc_claimed", "gc_delete_failed", "gc_deleted"}
OrphanState == {"none", "observed", "claimed", "deleted", "registered"}
NoDigest == 0
NoClaim == [state |-> "none", token |-> 0, expires |-> 0]
Unseen == [state |-> "none", evidence |-> 0, first |-> 0]
GcIdle == [pc |-> "idle", asOf |-> 0, batch |-> {}, digest |-> NoDigest, token |-> 0]
NoRun == [pc |-> "stopped", digest |-> NoDigest, evidence |-> 0, pending |-> {},
          remaining |-> 0]

BlobRow == [state : BlobState, token : Nat, expires : Nat]
OrphanRow == [state : OrphanState, evidence : Nat, first : Nat]

\* A collector: the time and the rest of its batch, and the claim it works on.
CollectorState == {"idle", "batch", "claimed", "unlinked", "error"}
Collector ==
    {p \in [pc : CollectorState, asOf : Nat, batch : SUBSET Digests,
            digest : Digests \cup {NoDigest}, token : Nat] :
        p.pc \in {"claimed", "unlinked", "error"} => p.digest \in Digests}

\* A reconciler: the leaf it works on as the scan or the claim described it, the
\* claims of earlier runs that it has still to resume, and what its limit leaves
\* for the inventory.
ReconcilerState == {"stopped", "idle", "inventoried", "observed", "authorized",
                    "fenced", "unlinked"}
Reconciler ==
    {p \in [pc : ReconcilerState, digest : Digests \cup {NoDigest}, evidence : Nat,
            pending : SUBSET (Digests \X Nat), remaining : Nat] :
        p.pc \notin {"stopped", "idle"} => p.digest \in Digests}

TypeOK ==
    /\ now \in Nat
    /\ file \in [Digests -> Nat] /\ created \in [Digests -> Nat]
    /\ blob \in [Digests -> BlobRow]
    /\ claims \in [Digests -> Nat]
    /\ orphan \in [Digests -> OrphanRow]
    /\ refs \subseteq Recordings
    /\ fence \subseteq Digests
    /\ pub \in [Recordings -> {"spooled", "data", "both", "published", "retired"}]
    /\ gc \in [Collectors -> Collector]
    /\ rec \in [Reconcilers -> Reconciler]

Init ==
    /\ now = 0
    /\ file = [d \in Digests |-> 0]
    /\ created = [d \in Digests |-> 0]
    /\ blob = [d \in Digests |-> NoClaim]
    /\ claims = [d \in Digests |-> 0]
    /\ orphan = [d \in Digests |-> Unseen]
    /\ refs = {}
    /\ fence = {}
    /\ pub = [r \in Recordings |-> "spooled"]
    /\ gc = [c \in Collectors |-> GcIdle]
    /\ rec = [q \in Reconcilers |-> NoRun]

DigestsOf(r) == {Objects[r][1], Objects[r][2]}
Referenced(d) == \E r \in refs : d \in DigestsOf(r)

-----------------------------------------------------------------------------
(* Publishers: PostgresRecordingPublisher.publish, retried from the spool.  *)

\* FileSystemBlobStore.put: link the bytes, or accept the bytes already there.
Put(d) ==
    \/ /\ file[d] # 0
       /\ UNCHANGED <<file, created>>
    \/ /\ file[d] = 0
       /\ created[d] < MaxFiles
       /\ created' = [created EXCEPT ![d] = @ + 1]
       /\ file' = [file EXCEPT ![d] = created[d] + 1]

PutData(r) ==
    /\ pub[r] = "spooled"
    /\ Put(Objects[r][1])
    /\ pub' = [pub EXCEPT ![r] = "data"]
    /\ UNCHANGED <<now, blob, claims, orphan, refs, fence, gc, rec>>

PutMetadata(r) ==
    /\ pub[r] = "data"
    /\ Put(Objects[r][2])
    /\ pub' = [pub EXCEPT ![r] = "both"]
    /\ UNCHANGED <<now, blob, claims, orphan, refs, fence, gc, rec>>

\* The row register_live_object_blob leaves: an insert that does nothing on
\* conflict, and an update of a tombstone.
Registered(row) ==
    IF row.state \in {"none", "gc_deleted"} THEN [NoClaim EXCEPT !.state = "live"] ELSE row

\* Mutant: the caller does not verify that the row is live.
RegistrableUnverified(d) == orphan[d].state # "claimed"

\* No orphan claim stands, and VERIFY_OBJECT_SQL finds a live row.
Registrable(d) ==
    /\ orphan[d].state # "claimed"
    /\ Registered(blob[d]).state = "live"

\* PostgresRecordingCatalog.publish: both registrations and the recording row
\* in one transaction, which waits for the digest fences.
Publish(r) ==
    /\ pub[r] = "both"
    /\ DigestsOf(r) \cap fence = {}
    /\ \A d \in DigestsOf(r) : Registrable(d)
    /\ blob' = [d \in Digests |->
                  IF d \in DigestsOf(r) THEN Registered(blob[d]) ELSE blob[d]]
    /\ orphan' = [d \in Digests |->
                    IF d \in DigestsOf(r) /\ orphan[d].state # "none"
                    THEN [orphan[d] EXCEPT !.state = "registered"]
                    ELSE orphan[d]]
    /\ refs' = refs \cup {r}
    /\ pub' = [pub EXCEPT ![r] = "published"]
    /\ UNCHANGED <<now, file, created, claims, fence, gc, rec>>

\* A registration is refused (orphan claim, or a row that is not live): the
\* whole transaction rolls back and the spool offers the recording again.
PublishRefused(r) ==
    /\ pub[r] = "both"
    /\ DigestsOf(r) \cap fence = {}
    /\ \E d \in DigestsOf(r) : ~Registrable(d)
    /\ pub' = [pub EXCEPT ![r] = "spooled"]
    /\ UNCHANGED <<now, file, created, blob, claims, orphan, refs, fence, gc, rec>>

\* The capture process dies before the catalog transaction, or after it and
\* before the spool's acknowledgement: the recording is published again.
PublisherCrash(r) ==
    /\ pub[r] \in {"data", "both", "published"}
    /\ pub' = [pub EXCEPT ![r] = "spooled"]
    /\ UNCHANGED <<now, file, created, blob, claims, orphan, refs, fence, gc, rec>>

\* The database owner withdraws a recording that is settled.
RetireReference(r) ==
    /\ pub[r] = "published"
    /\ refs' = refs \ {r}
    /\ pub' = [pub EXCEPT ![r] = "retired"]
    /\ UNCHANGED <<now, file, created, blob, claims, orphan, fence, gc, rec>>

-----------------------------------------------------------------------------
(* Garbage collection: collect_objects.                                    *)

\* object_retention_status, as candidates() and gc_claim_object read it.
Collectable(d) == d \in Deletable /\ ~Referenced(d)

\* candidates(): one reading of the clock and of the catalog for the batch.
GcCandidates(c) ==
    /\ gc[c].pc = "idle"
    /\ LET batch == {d \in Digests : /\ Collectable(d)
                                     /\ blob[d].state \in {"live", "gc_delete_failed"}}
       IN  /\ batch # {}
           /\ gc' = [gc EXCEPT ![c] = [GcIdle EXCEPT !.pc = "batch",
                                                     !.asOf = now, !.batch = batch]]
    /\ UNCHANGED <<now, file, created, blob, claims, orphan, refs, fence, pub, rec>>

\* expires of collect_objects: one value for the whole batch.
ClaimExpiry(c) == gc[c].asOf + ClaimTtl

\* Mutant: the candidate is claimed as the batch read it.
GcClaimableStale(c, d) == blob[d].state \in {"live", "gc_delete_failed"}

\* The conditions of gc_claim_object, on the row as it is now.
GcClaimable(c, d) ==
    /\ \/ blob[d].state \in {"live", "gc_delete_failed"}
       \/ blob[d].state = "gc_claimed" /\ blob[d].expires <= gc[c].asOf
    /\ Collectable(d)

\* gc_claim_object.
GcClaim(c, d) ==
    /\ gc[c].pc = "batch"
    /\ d \in gc[c].batch
    /\ claims[d] < MaxClaims
    /\ \/ /\ GcClaimable(c, d)
          /\ claims' = [claims EXCEPT ![d] = @ + 1]
          /\ blob' = [blob EXCEPT ![d] = [state |-> "gc_claimed",
                                          token |-> claims[d] + 1,
                                          expires |-> ClaimExpiry(c)]]
          /\ gc' = [gc EXCEPT ![c].pc = "claimed", ![c].batch = @ \ {d},
                              ![c].digest = d, ![c].token = claims[d] + 1]
       \/ /\ ~GcClaimable(c, d)
          /\ gc' = [gc EXCEPT ![c].batch = @ \ {d}]
          /\ UNCHANGED <<blob, claims>>
    /\ UNCHANGED <<now, file, created, orphan, refs, fence, pub, rec>>

\* MaintenanceFileSystemBlobDeleter.delete: unlink, missing bytes are fine.
GcUnlink(c) ==
    /\ gc[c].pc = "claimed"
    /\ file' = [file EXCEPT ![gc[c].digest] = 0]
    /\ gc' = [gc EXCEPT ![c].pc = "unlinked"]
    /\ UNCHANGED <<now, created, blob, claims, orphan, refs, fence, pub, rec>>

GcUnlinkError(c) ==
    /\ gc[c].pc = "claimed"
    /\ gc' = [gc EXCEPT ![c].pc = "error"]
    /\ UNCHANGED <<now, file, created, blob, claims, orphan, refs, fence, pub, rec>>

\* gc_complete_object_delete and gc_record_delete_failure: the row must still
\* carry the token; a lost claim raises and ends the batch.
GcFinish(c) ==
    LET d == gc[c].digest
        holds == blob[d].state = "gc_claimed" /\ blob[d].token = gc[c].token
        outcome == IF gc[c].pc = "unlinked" THEN "gc_deleted" ELSE "gc_delete_failed"
    IN
    /\ gc[c].pc \in {"unlinked", "error"}
    /\ \/ /\ holds
          /\ blob' = [blob EXCEPT ![d] = [NoClaim EXCEPT !.state = outcome]]
          /\ gc' = [gc EXCEPT ![c].pc = "batch", ![c].digest = NoDigest, ![c].token = 0]
       \/ /\ ~holds
          /\ gc' = [gc EXCEPT ![c] = GcIdle]
          /\ UNCHANGED blob
    /\ UNCHANGED <<now, file, created, claims, orphan, refs, fence, pub, rec>>

GcBatchDone(c) ==
    /\ gc[c].pc = "batch"
    /\ gc[c].batch = {}
    /\ gc' = [gc EXCEPT ![c] = GcIdle]
    /\ UNCHANGED <<now, file, created, blob, claims, orphan, refs, fence, pub, rec>>

GcCrash(c) ==
    /\ gc[c].pc # "idle"
    /\ gc' = [gc EXCEPT ![c] = GcIdle]
    /\ UNCHANGED <<now, file, created, blob, claims, orphan, refs, fence, pub, rec>>

-----------------------------------------------------------------------------
(* Orphan reconciliation: reconcile_unregistered_objects with a deleter.    *)

\* object_digest_fence: the transaction waits for the digest's advisory lock.
FenceFree(d) == d \notin fence

\* Mutant: the catalog is not asked.
UnregisteredUnasked(d) == blob[d].state \in BlobState

\* NOT EXISTS over object_blob, in every function of the reconciliation.
Unregistered(d) == blob[d].state = "none"

Goto(q, pc) == rec' = [rec EXCEPT ![q].pc = pc]
Done(q) == rec' = [rec EXCEPT ![q].pc = "idle", ![q].digest = NoDigest,
                              ![q].evidence = 0]

\* An invocation starts with pending_claims: the first PageLimit claims that
\* earlier ones left unresolved.  The inventory gets the rest of the limit.
StartRun(q) ==
    LET claimed == {d \in Digests : orphan[d].state = "claimed"} IN
    /\ rec[q].pc = "stopped"
    /\ \E first \in SUBSET claimed, n \in 0..PageLimit :
        /\ Cardinality(first) = n
        /\ n < PageLimit => first = claimed
        /\ \A d \in first, e \in claimed \ first : d < e
        /\ rec' = [rec EXCEPT ![q] =
                [NoRun EXCEPT !.pc = "idle", !.remaining = PageLimit - n,
                              !.pending = {<<d, orphan[d].evidence>> : d \in first}]]
    /\ UNCHANGED <<now, file, created, blob, claims, orphan, refs, fence, pub, gc>>

ResumeClaim(q, entry) ==
    /\ rec[q].pc = "idle"
    /\ entry \in rec[q].pending
    /\ rec' = [rec EXCEPT ![q] = [pc |-> "authorized", digest |-> entry[1],
                                  evidence |-> entry[2], pending |-> @.pending \ {entry},
                                  remaining |-> @.remaining]]
    /\ UNCHANGED <<now, file, created, blob, claims, orphan, refs, fence, pub, gc>>

\* One entry of the inventory page, with the evidence the scan saw.  A run whose
\* claims used up the limit returns without an inventory.
Inventory(q, d) ==
    /\ rec[q].pc = "idle"
    /\ rec[q].pending = {}
    /\ rec[q].remaining > 0
    /\ d \in Inventoried
    /\ file[d] # 0
    /\ rec' = [rec EXCEPT ![q].pc = "inventoried", ![q].digest = d,
                          ![q].evidence = file[d], ![q].remaining = @ - 1]
    /\ UNCHANGED <<now, file, created, blob, claims, orphan, refs, fence, pub, gc>>

EndRun(q) ==
    /\ rec[q].pc = "idle"
    /\ rec[q].pending = {}
    /\ rec' = [rec EXCEPT ![q] = NoRun]
    /\ UNCHANGED <<now, file, created, blob, claims, orphan, refs, fence, pub, gc>>

\* observe_unregistered_object: a catalogued or claimed digest is only
\* reported; changed evidence starts the grace period again.
Observe(q) ==
    LET d == rec[q].digest
        seen == [state |-> "observed", evidence |-> rec[q].evidence, first |-> now]
        same == orphan[d].state = "observed" /\ orphan[d].evidence = rec[q].evidence
    IN
    /\ rec[q].pc = "inventoried"
    /\ FenceFree(d)
    /\ \/ /\ ~Unregistered(d) \/ orphan[d].state = "claimed"
          /\ Done(q) /\ UNCHANGED orphan
       \/ /\ Unregistered(d) /\ orphan[d].state # "claimed"
          /\ orphan' = IF same THEN orphan ELSE [orphan EXCEPT ![d] = seen]
          /\ Goto(q, "observed")
    /\ UNCHANGED <<now, file, created, blob, claims, refs, fence, pub, gc>>

\* claim_unregistered_object: only what has kept its evidence for the grace
\* period, and a claim on the same evidence is shared.
ClaimOrphan(q) ==
    LET d == rec[q].digest
        same == orphan[d].evidence = rec[q].evidence
        aged == orphan[d].state = "observed" /\ orphan[d].first + MinimumAge <= now
        held == orphan[d].state = "claimed"
    IN
    /\ rec[q].pc = "observed"
    /\ FenceFree(d)
    /\ \/ /\ Unregistered(d) /\ same /\ (aged \/ held)
          /\ orphan' = [orphan EXCEPT ![d].state = "claimed"]
          /\ Goto(q, "authorized")
       \/ /\ ~(Unregistered(d) /\ same /\ (aged \/ held))
          /\ Done(q) /\ UNCHANGED orphan
    /\ UNCHANGED <<now, file, created, blob, claims, refs, fence, pub, gc>>

\* The claim that the reconciler works on, as the row has it: its token is a
\* function of digest and evidence.
ClaimStands(q) ==
    /\ orphan[rec[q].digest].state = "claimed"
    /\ orphan[rec[q].digest].evidence = rec[q].evidence

\* Mutant: the check is a transaction of its own, without the advisory lock.
EnterFenceUnlocked(q) ==
    LET d == rec[q].digest
        current == Unregistered(d) /\ ClaimStands(q)
    IN
    /\ rec[q].pc = "authorized"
    /\ FenceFree(d)
    /\ (current /\ Goto(q, "fenced")) \/ (~current /\ Done(q))
    /\ UNCHANGED <<now, file, created, blob, claims, orphan, refs, fence, pub, gc>>

\* delete_under_fence: orphan_claim_is_current under the digest fence.
EnterFence(q) ==
    LET d == rec[q].digest
        current == Unregistered(d) /\ ClaimStands(q)
    IN
    /\ rec[q].pc = "authorized"
    /\ FenceFree(d)
    /\ \/ current /\ fence' = fence \cup {d} /\ Goto(q, "fenced")
       \/ ~current /\ Done(q) /\ UNCHANGED fence
    /\ UNCHANGED <<now, file, created, blob, claims, orphan, refs, pub, gc>>

\* Mutants: any leaf is removed; a missing leaf is an error.
UnlinkAny(q) ==
    /\ rec[q].pc = "fenced"
    /\ file' = [file EXCEPT ![rec[q].digest] = 0]
    /\ Goto(q, "unlinked")
    /\ UNCHANGED <<now, created, blob, claims, orphan, refs, fence, pub, gc>>
UnlinkPresent(q) ==
    /\ rec[q].pc = "fenced"
    /\ file[rec[q].digest] = rec[q].evidence
    /\ file' = [file EXCEPT ![rec[q].digest] = 0]
    /\ Goto(q, "unlinked")
    /\ UNCHANGED <<now, created, blob, claims, orphan, refs, fence, pub, gc>>

\* unlink_exact: the exact leaf or nothing is there.
UnlinkExact(q) ==
    /\ rec[q].pc = "fenced"
    /\ file[rec[q].digest] \in {0, rec[q].evidence}
    /\ file' = [file EXCEPT ![rec[q].digest] = 0]
    /\ Goto(q, "unlinked")
    /\ UNCHANGED <<now, created, blob, claims, orphan, refs, fence, pub, gc>>

\* The end of delete_under_fence, which frees the fence: the next claim or entry,
\* or "orphan delete ... lost its fence" ends the run.
LeaveFence(q) ==
    /\ fence' = fence \ {rec[q].digest}
    /\ IF ClaimStands(q) THEN Done(q) ELSE rec' = [rec EXCEPT ![q] = NoRun]

\* record_unregistered_object_delete_failure: the failure is an audit event,
\* the claim stays.
DeleteFailed(q) ==
    /\ LeaveFence(q)
    /\ UNCHANGED <<now, file, created, blob, claims, orphan, refs, pub, gc>>

\* EvidenceChangedError: another leaf stands where the claimed one stood.
EvidenceChanged(q) ==
    /\ rec[q].pc = "fenced"
    /\ file[rec[q].digest] \notin {0, rec[q].evidence}
    /\ DeleteFailed(q)

UnlinkError(q) ==
    /\ rec[q].pc = "fenced"
    /\ DeleteFailed(q)

\* complete_unregistered_object_delete and the commit that frees the fence.
CompleteOrphan(q) ==
    /\ rec[q].pc = "unlinked"
    /\ orphan' = IF ClaimStands(q)
                 THEN [orphan EXCEPT ![rec[q].digest].state = "deleted"]
                 ELSE orphan
    /\ LeaveFence(q)
    /\ UNCHANGED <<now, file, created, blob, claims, refs, pub, gc>>

ReconcilerCrash(q) ==
    /\ rec[q].pc # "stopped"
    /\ fence' = IF rec[q].pc \in {"fenced", "unlinked"}
                THEN fence \ {rec[q].digest} ELSE fence
    /\ rec' = [rec EXCEPT ![q] = NoRun]
    /\ UNCHANGED <<now, file, created, blob, claims, orphan, refs, pub, gc>>

Tick ==
    /\ now < MaxClock
    /\ now' = now + 1
    /\ UNCHANGED <<file, created, blob, claims, orphan, refs, fence, pub, gc, rec>>

-----------------------------------------------------------------------------
PublisherStep(r) == PutData(r) \/ PutMetadata(r) \/ Publish(r) \/ PublishRefused(r)

CollectorStep(c) ==
    \/ GcCandidates(c) \/ (\E d \in Digests : GcClaim(c, d))
    \/ GcUnlink(c) \/ GcFinish(c) \/ GcBatchDone(c)

DeletionStep(q) ==
    \/ StartRun(q) \/ EndRun(q)
    \/ (\E entry \in rec[q].pending : ResumeClaim(q, entry))
    \/ Observe(q) \/ ClaimOrphan(q) \/ EnterFence(q) \/ CompleteOrphan(q)
    \/ UnlinkExact(q) \/ EvidenceChanged(q)

Next ==
    \/ Tick
    \/ \E r \in Recordings : PublisherStep(r) \/ PublisherCrash(r) \/ RetireReference(r)
    \/ \E c \in Collectors : CollectorStep(c) \/ GcUnlinkError(c) \/ GcCrash(c)
    \/ \E q \in Reconcilers :
         \/ DeletionStep(q) \/ UnlinkError(q) \/ ReconcilerCrash(q)
         \/ \E d \in Digests : Inventory(q, d)

Spec == Init /\ [][Next]_vars

\* Reconciliation runs again after it stops, its calls return, and a deletion that
\* is tried again and again, by whichever reconciler, is not broken off by a crash
\* or an I/O error every single time.  A waiter for an advisory lock is served.
ReconcilerFairSpec ==
    /\ Spec
    /\ \A q \in Reconcilers : WF_vars(DeletionStep(q))
    /\ \A d \in Inventoried :
         /\ SF_vars(\E q \in Reconcilers : \E entry \in rec[q].pending :
                       entry[1] = d /\ ResumeClaim(q, entry))
         /\ SF_vars(\E q \in Reconcilers : rec[q].digest = d /\ EnterFence(q))
         /\ SF_vars(\E q \in Reconcilers : rec[q].digest = d /\ UnlinkExact(q))
         /\ SF_vars(\E q \in Reconcilers : rec[q].digest = d /\ CompleteOrphan(q))

\* The clock advances, publishers retry, and the collectors are run again.
FairSpec ==
    /\ ReconcilerFairSpec
    /\ WF_vars(Tick)
    /\ \A r \in Recordings : WF_vars(PublisherStep(r))
    /\ \A c \in Collectors :
         WF_vars(CollectorStep(c)) /\ SF_vars(GcUnlink(c)) /\ SF_vars(GcFinish(c))

-----------------------------------------------------------------------------
(* Properties.                                                             *)

\* Publication and collection exclude each other: whatever the interleaving of
\* registrations, claims, failed deletions and crashes, the objects of a
\* committed recording are live rows (gc_claim_object's recheck against
\* object_blob_assert_live_reference).
ReferencedIsLive ==
    \A r \in refs : \A d \in DigestsOf(r) : blob[d].state = "live"

\* Registration and orphan claim exclude each other: no catalogued digest is
\* under an orphan claim, so a claim is resolved before its digest returns.
ClaimExcludesCatalog ==
    \A d \in Digests : orphan[d].state = "claimed" => blob[d].state = "none"

\* The digest fence covers the whole deletion: while a reconciler is between
\* its check and its commit, no other run that shares the claim completes it and
\* no publisher registers the digest, so that delete_under_fence never raises
\* that its completion or its failure "lost its fence".
FenceCoversDeletion ==
    \A q \in Reconcilers : rec[q].pc \in {"fenced", "unlinked"} =>
        ClaimStands(q) /\ Unregistered(rec[q].digest)

\* An orphan deletion removes only the incarnation that was observed and
\* outlived the grace period, never bytes that were put since.
OrphanRemovesOnlyClaimed ==
    [][\A d \in Digests : file[d] # 0 /\ file'[d] = 0 /\ UNCHANGED gc
          => /\ orphan[d].state = "claimed" /\ orphan[d].evidence = file[d]
             /\ orphan[d].first + MinimumAge <= now]_vars

\* What the runbook calls never acceptable: a committed recording whose bytes
\* are missing.
ReferencedBytesPresent ==
    \A r \in refs : \A d \in DigestsOf(r) : file[d] # 0

\* A claim does not outlive its collector for good.
GcClaimIsResolved ==
    \A d \in Digests : blob[d].state = "gc_claimed" ~> blob[d].state # "gc_claimed"

\* An orphan claim is eventually resolved, across crashes and I/O errors of the
\* reconcilers, unless the leaf it names is put again in the meantime, or the
\* leaves of as many claims before it as a run has room for.
Reput(d) == orphan[d].state = "claimed" /\ file[d] \notin {0, orphan[d].evidence}
OrphanClaimIsResolvedUnlessReput ==
    \A d \in Digests :
        orphan[d].state = "claimed"
            ~> \/ orphan[d].state # "claimed" \/ Reput(d)
               \/ Cardinality({e \in Digests : e < d /\ Reput(e)}) >= PageLimit
=============================================================================
