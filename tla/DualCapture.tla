---------------------------- MODULE DualCapture ----------------------------
(***************************************************************************)
(* One capture batch of two radios: the invocation that owns the pipeline  *)
(* mode lock (the dual-capture operator, or a campaign's capture port),    *)
(* the executor with its timeouts, one runner thread per attempt, and the  *)
(* spawned child that owns the radio.  The batch rows in SQLite survive    *)
(* the process; everything else dies with it.                              *)
(*                                                                         *)
(* There is no clock.  Every timeout may fire whenever the executor waits, *)
(* so a run in which it does not fire is one in which the runners were     *)
(* fast enough.  Reasons of failures are not told apart.                   *)
(***************************************************************************)
EXTENDS Integers, FiniteSets

CONSTANTS
    Modes,      \* subset of {"independent", "coordinated"}
    Slotted     \* a campaign invokes, with a slot deadline and a release gate

ASSUME ModesAssumption == Modes \subseteq {"independent", "coordinated"}
ASSUME SlottedAssumption == Slotted \in BOOLEAN

VARIABLES
    mode,        \* of the batch definition
    lock,        \* the pipeline mode lock
    registered, outcome, recording,   \* the batch row
    op,          \* the invocation and the executor
    release,     \* the start gate is open
    ready, cancelled,                 \* _AttemptControl
    thread, got, \* the runner threads and what they returned
    child, pipe, \* the children and the last unread message of each
    handles,     \* the supervisor's registry
    captures, yields,  \* history: captures begun, what the child returned
    interrupted        \* history: the process died or the store failed

control == <<release, ready, cancelled>>
runners == <<thread, got, child, pipe, handles, captures, yields>>
batch == <<registered, outcome, recording>>
vars == <<mode, lock, batch, op, control, runners, interrupted>>

Attempts == {1, 2}
NoRecording == <<>>

\* What a result names: the attempt's own recording, a recording that the other
\* attempt names too, or another batch, attempt, radio or plan.
Kinds == {"own", "shared", "foreign"}
RecordingOf(a, kind) == IF kind = "own" THEN <<"own", a>> ELSE <<"shared">>

Terminal == \A a \in Attempts : outcome[a] # "none"

IdleOp == [pc |-> "idle", fresh |-> FALSE, turn |-> 1, startup |-> "none",
           refused |-> {}, late |-> {}, leftover |-> {}, todo |-> {}, resisted |-> FALSE]

OpState == {"idle", "locked", "wait", "admit", "cancel", "classify", "open",
            "join", "cleanup", "record", "executed", "abort", "aborting",
            "publish", "finally", "unwinding", "unlock"}
Op == [pc : OpState, fresh : BOOLEAN, turn : Attempts,
       startup : {"none", "died", "timeout", "slot"},
       refused : SUBSET Attempts, late : SUBSET Attempts,
       leftover : SUBSET Attempts, todo : SUBSET Attempts, resisted : BOOLEAN]

ThreadState == {"none", "begun", "starting", "waiting", "dispatching",
                "receiving", "cleanup", "dead"}
ChildState == {"none", "preflight", "ready", "capturing", "exiting", "stuck", "gone"}

TypeOK ==
    /\ mode \in Modes
    /\ lock \in {"free", "held"}
    /\ registered \in BOOLEAN
    /\ outcome \in [Attempts -> {"none", "succeeded", "failed"}]
    /\ op \in Op
    /\ release \in BOOLEAN
    /\ ready \in [Attempts -> BOOLEAN] /\ cancelled \in [Attempts -> BOOLEAN]
    /\ thread \in [Attempts -> ThreadState]
    /\ got \in [Attempts -> {"none", "failure"} \cup Kinds]
    /\ child \in [Attempts -> ChildState]
    /\ pipe \in [Attempts -> {"none", "ready", "failed"} \cup Kinds]
    /\ handles \subseteq Attempts
    /\ captures \in [Attempts -> Nat]
    /\ yields \in [Attempts -> {"none"} \cup Kinds]
    /\ interrupted \in BOOLEAN
    /\ \A a \in Attempts : recording[a] \in
         IF outcome[a] = "succeeded" THEN {<<"own", a>>, <<"shared">>} ELSE {NoRecording}

Init ==
    /\ mode \in Modes
    /\ lock = "free"
    /\ registered = FALSE
    /\ outcome = [a \in Attempts |-> "none"]
    /\ recording = [a \in Attempts |-> NoRecording]
    /\ op = IdleOp
    /\ release = FALSE
    /\ ready = [a \in Attempts |-> FALSE]
    /\ cancelled = [a \in Attempts |-> FALSE]
    /\ thread = [a \in Attempts |-> "none"]
    /\ got = [a \in Attempts |-> "none"]
    /\ child = [a \in Attempts |-> "none"]
    /\ pipe = [a \in Attempts |-> "none"]
    /\ handles = {}
    /\ captures = [a \in Attempts |-> 0]
    /\ yields = [a \in Attempts |-> "none"]
    /\ interrupted = FALSE

Alive(a) == thread[a] \notin {"none", "dead"}
AliveThreads == {a \in Attempts : Alive(a)}
ChildAlive(a) == child[a] \notin {"none", "gone"}

Goto(pc) == op' = [op EXCEPT !.pc = pc]

-----------------------------------------------------------------------------
(* The invocation: main of the operator, capture of the campaign port.      *)

\* ExclusiveModeLock.acquire.
Acquire ==
    /\ op.pc = "idle"
    /\ lock = "free"
    /\ lock' = "held"
    /\ op' = [IdleOp EXCEPT !.pc = "locked"]
    /\ UNCHANGED <<mode, batch, control, runners, interrupted>>

\* A closed admission gate, a missing credential, a slot that is over: the
\* campaign asks before it looks for the batch, the operator only for a new one.
AdmissionBlocked ==
    /\ op.pc = "locked"
    /\ Slotted \/ ~registered
    /\ Goto("finally")
    /\ UNCHANGED <<mode, lock, batch, control, runners, interrupted>>

\* A terminal batch is only published again.
Replay ==
    /\ op.pc = "locked"
    /\ registered /\ Terminal
    /\ Goto("publish")
    /\ UNCHANGED <<mode, lock, batch, control, runners, interrupted>>

\* Mutant: only recorded outcomes stand in the way, as in execute.
UnsettledOutcomes == {a \in Attempts : outcome[a] # "none"} # {}

\* existing is not terminal: "partial batch cannot be recaptured".
Unsettled == registered /\ ~Terminal

RefusePartial ==
    /\ op.pc = "locked"
    /\ Unsettled
    /\ Goto("finally")
    /\ UNCHANGED <<mode, lock, batch, control, runners, interrupted>>

\* execute: register the batch and start one thread per attempt.  The gate of an
\* independent attempt is open from the start.
Execute ==
    /\ op.pc = "locked"
    /\ ~Unsettled /\ ~(registered /\ Terminal)
    /\ registered' = TRUE
    /\ op' = [op EXCEPT !.pc = "wait", !.fresh = TRUE]
    /\ release' = (mode = "independent")
    /\ thread' = [a \in Attempts |-> "begun"]
    /\ UNCHANGED <<mode, lock, outcome, recording, ready, cancelled, got,
                   child, pipe, handles, captures, yields, interrupted>>

\* execute with a slot deadline that has passed: two outcomes, no thread.
ExecuteTooLate ==
    /\ op.pc = "locked"
    /\ Slotted
    /\ ~Unsettled /\ ~(registered /\ Terminal)
    /\ registered' = TRUE
    /\ op' = [op EXCEPT !.pc = "record", !.fresh = TRUE, !.refused = Attempts]
    /\ UNCHANGED <<mode, lock, outcome, recording, control, runners, interrupted>>

\* SQLite refuses the registration or an outcome: the exception leaves execute.
StoreError ==
    /\ op.pc \in {"locked", "record"}
    /\ op' = [op EXCEPT !.pc = "finally"]
    /\ interrupted' = TRUE
    /\ UNCHANGED <<mode, lock, batch, control, runners>>

-----------------------------------------------------------------------------
(* _wait_for_start and the decision that follows it.                        *)

Started(how, pc) == op' = [op EXCEPT !.startup = how, !.pc = pc, !.turn = 1]

WaitReady ==
    /\ op.pc = "wait"
    /\ \A a \in Attempts : ready[a]
    /\ Started("none", IF mode = "coordinated" THEN "admit" ELSE "join")
    /\ UNCHANGED <<mode, lock, batch, control, runners, interrupted>>

\* The coordinated branch cancels before it looks, the independent one after.
FirstJudgement == IF mode = "coordinated" THEN "cancel" ELSE "classify"

WaitDied ==
    /\ op.pc = "wait"
    /\ \E a \in Attempts : ~ready[a] /\ ~Alive(a)
    /\ Started("died", FirstJudgement)
    /\ UNCHANGED <<mode, lock, batch, control, runners, interrupted>>

\* The startup timeout, or the slot deadline when that comes first.  A runner may
\* get ready after the last look at it.
WaitExpired ==
    /\ op.pc = "wait"
    /\ \/ Started("timeout", FirstJudgement)
       \/ Slotted /\ Started("slot", FirstJudgement)
    /\ UNCHANGED <<mode, lock, batch, control, runners, interrupted>>

\* UtcCoordinatedReleaseGate.admit and the second look at the slot deadline; the
\* operator has neither.
AdmitRelease ==
    /\ op.pc = "admit"
    /\ Goto("open")
    /\ UNCHANGED <<mode, lock, batch, control, runners, interrupted>>

RefuseRelease ==
    /\ op.pc = "admit"
    /\ Slotted
    /\ cancelled' = [a \in Attempts |-> TRUE]
    /\ op' = [op EXCEPT !.pc = "open", !.refused = Attempts]
    /\ UNCHANGED <<mode, lock, batch, release, ready, runners, interrupted>>

\* common_release.set().
OpenGate ==
    /\ op.pc = "open"
    /\ release' = TRUE
    /\ Goto("join")
    /\ UNCHANGED <<mode, lock, batch, ready, cancelled, runners, interrupted>>

\* The loops over both workers.
NextTurn(pc, done, refused) ==
    op' = IF op.turn = 1
          THEN [op EXCEPT !.turn = 2, !.pc = pc, !.refused = refused]
          ELSE [op EXCEPT !.turn = 1, !.pc = done, !.refused = refused, !.startup = "none"]

CancelCoordinated ==
    /\ op.pc = "cancel"
    /\ mode = "coordinated"
    /\ cancelled' = [cancelled EXCEPT ![op.turn] = TRUE]
    /\ Goto("classify")
    /\ UNCHANGED <<mode, lock, batch, release, ready, runners, interrupted>>

ClassifyCoordinated ==
    /\ op.pc = "classify"
    /\ mode = "coordinated"
    /\ LET a == op.turn
           refuse == \/ op.startup = "slot"
                     \/ ready[a]
                     \/ Alive(a) /\ op.startup = "timeout"
       IN  NextTurn("cancel", "open", IF refuse THEN op.refused \cup {a} ELSE op.refused)
    /\ UNCHANGED <<mode, lock, batch, control, runners, interrupted>>

ClassifyIndependent ==
    /\ op.pc = "classify"
    /\ mode = "independent"
    /\ LET a == op.turn
           refuse == ~ready[a] /\ Alive(a) /\ op.startup \in {"timeout", "slot"}
       IN \/ refuse /\ Goto("cancel")
          \/ ~refuse /\ NextTurn("classify", "join", op.refused)
    /\ UNCHANGED <<mode, lock, batch, control, runners, interrupted>>

CancelIndependent ==
    /\ op.pc = "cancel"
    /\ mode = "independent"
    /\ cancelled' = [cancelled EXCEPT ![op.turn] = TRUE]
    /\ NextTurn("classify", "join", op.refused \cup {op.turn})
    /\ UNCHANGED <<mode, lock, batch, release, ready, runners, interrupted>>

-----------------------------------------------------------------------------
(* The rest of execute: bounded joins, outcomes, teardown.                  *)

\* Mutant: the join has no deadline.
JoinFinishUnbounded ==
    /\ op.pc = "join"
    /\ AliveThreads = {}
    /\ op' = [op EXCEPT !.pc = "cleanup"]
    /\ UNCHANGED <<mode, lock, batch, control, runners, interrupted>>

\* Both threads have ended, or the finish deadline passed for those that have not.
JoinFinish ==
    /\ op.pc = "join"
    /\ op' = [op EXCEPT !.pc = "cleanup", !.late = AliveThreads]
    /\ cancelled' = [a \in Attempts |-> cancelled[a] \/ Alive(a)]
    /\ UNCHANGED <<mode, lock, batch, release, ready, runners, interrupted>>

JoinCleanup ==
    /\ op.pc = "cleanup"
    /\ op' = [op EXCEPT !.pc = "record", !.leftover = AliveThreads, !.turn = 1]
    /\ UNCHANGED <<mode, lock, batch, control, runners, interrupted>>

\* Mutant: the identities in a result are not compared.
ValidUnmatched(a) ==
    a \notin op.refused /\ a \notin op.late /\ got[a] \in Kinds /\ ready[a]

\* The precedence of _outcomes: refused at the start, late, failed or without a
\* result, never ready, a result for something else.
ValidResult(a) ==
    /\ a \notin op.refused /\ a \notin op.late
    /\ got[a] \in Kinds /\ ready[a]
    /\ got[a] # "foreign"

\* Mutant: two results for the same recording are not looked for.
SucceedsAlone(a) == ValidResult(a)

Succeeds(a) ==
    /\ ValidResult(a)
    /\ \A b \in Attempts \ {a} :
         ~(got[a] = "shared" /\ ValidResult(b) /\ got[b] = "shared")

\* CaptureBatchCoordinator.record: one outcome, one compare-and-swap.
Record ==
    LET a == op.turn IN
    /\ op.pc = "record"
    /\ outcome' = [outcome EXCEPT ![a] = IF Succeeds(a) THEN "succeeded" ELSE "failed"]
    /\ recording' = IF Succeeds(a)
                    THEN [recording EXCEPT ![a] = RecordingOf(a, got[a])] ELSE recording
    /\ NextTurn("record", "executed", op.refused)
    /\ UNCHANGED <<mode, lock, registered, control, runners, interrupted>>

\* DualCaptureCleanupError when a thread outlived the cleanup timeout.
Executed ==
    /\ op.pc = "executed"
    /\ op' = [op EXCEPT !.pc = IF op.leftover = {} THEN "abort" ELSE "finally",
                        !.late = {}, !.leftover = {}]
    /\ UNCHANGED <<mode, lock, batch, control, runners, interrupted>>

\* abort_all, after execute and again in the finally clause: a snapshot of the
\* registry, then one cleanup per handle.
AbortAll ==
    /\ op.pc = "abort" \/ (op.pc = "finally" /\ op.fresh)
    /\ op' = [op EXCEPT !.pc = IF @ = "abort" THEN "aborting" ELSE "unwinding",
                        !.todo = handles, !.resisted = FALSE]
    /\ UNCHANGED <<mode, lock, batch, control, runners, interrupted>>

AbortOne(a) ==
    /\ op.pc \in {"aborting", "unwinding"}
    /\ a \in op.todo
    /\ child[a] # "stuck"
    /\ op' = [op EXCEPT !.todo = @ \ {a}]
    /\ child' = [child EXCEPT ![a] = "gone"]
    /\ pipe' = [pipe EXCEPT ![a] = "none"]
    /\ handles' = handles \ {a}
    /\ UNCHANGED <<mode, lock, batch, control, thread, got, captures, yields,
                   interrupted>>

\* The child is in an uninterruptible driver call: terminate and kill time out,
\* and the kill takes effect when the call returns.
AbortResisted(a) ==
    /\ op.pc \in {"aborting", "unwinding"}
    /\ a \in op.todo
    /\ child[a] \in {"preflight", "capturing", "stuck"}
    /\ op' = [op EXCEPT !.todo = @ \ {a}, !.resisted = TRUE]
    /\ child' = [child EXCEPT ![a] = "stuck"]
    /\ UNCHANGED <<mode, lock, batch, control, thread, got, pipe, handles,
                   captures, yields, interrupted>>

\* Mutant: a failed abort_all does not stop the projection.
AfterAbortAnyway == "publish"

AfterAbort == IF op.resisted THEN "finally" ELSE "publish"

AbortDone ==
    /\ op.pc \in {"aborting", "unwinding"}
    /\ op.todo = {}
    /\ Goto(IF op.pc = "aborting" THEN AfterAbort ELSE "unlock")
    /\ UNCHANGED <<mode, lock, batch, control, runners, interrupted>>

\* publish_initial; its failure, or the ownership check after it, changes nothing
\* that lasts: the terminal row is the retry point.
Publish ==
    /\ op.pc = "publish"
    /\ Goto("finally")
    /\ UNCHANGED <<mode, lock, batch, control, runners, interrupted>>

ReleaseLock ==
    /\ op.pc = "unlock" \/ (op.pc = "finally" /\ ~op.fresh)
    /\ lock' = "free"
    /\ op' = IdleOp
    /\ UNCHANGED <<mode, batch, control, runners, interrupted>>

-----------------------------------------------------------------------------
(* The runner threads: SpawnIsolatedAttemptRunner.run under _run.           *)

Unwind(a) ==
    /\ got' = [got EXCEPT ![a] = "failure"]
    /\ thread' = [thread EXCEPT ![a] = "cleanup"]

\* supervisor.start; nothing asks whether the attempt is still wanted.
StartChild(a) ==
    /\ thread[a] = "begun"
    /\ child' = [child EXCEPT ![a] = "preflight"]
    /\ handles' = handles \cup {a}
    /\ thread' = [thread EXCEPT ![a] = "starting"]
    /\ UNCHANGED <<mode, lock, batch, op, control, got, pipe, captures, yields,
                   interrupted>>

\* The process cannot be spawned: there is no handle to clean up.
StartError(a) ==
    /\ thread[a] = "begun"
    /\ got' = [got EXCEPT ![a] = "failure"]
    /\ thread' = [thread EXCEPT ![a] = "dead"]
    /\ UNCHANGED <<mode, lock, batch, op, control, child, pipe, handles, captures,
                   yields, interrupted>>

\* _receive returns READY, and the thread marks itself ready.
ReceiveReady(a) ==
    /\ thread[a] = "starting"
    /\ pipe[a] = "ready"
    /\ pipe' = [pipe EXCEPT ![a] = "none"]
    /\ ready' = [ready EXCEPT ![a] = TRUE]
    /\ thread' = [thread EXCEPT ![a] = "waiting"]
    /\ UNCHANGED <<mode, lock, batch, op, release, cancelled, got, child, handles,
                   captures, yields, interrupted>>

\* _receive finds a failure, a cancelled attempt or a child that exited without a
\* word.  A message that is there may be read first or come too late to be.
ReceiveFailed(a) ==
    /\ thread[a] \in {"starting", "receiving"}
    /\ pipe[a] = "failed" \/ cancelled[a] \/ (child[a] = "gone" /\ pipe[a] = "none")
    /\ Unwind(a)
    /\ UNCHANGED <<mode, lock, batch, op, control, child, pipe, handles, captures,
                   yields, interrupted>>

\* Mutant: the second look at cancelled, after the release, is missing.
ReleasedUnchecked(a) == release

\* ready_and_wait_for_release returns true.
Released(a) == release /\ ~cancelled[a]

PassGate(a) ==
    /\ thread[a] = "waiting"
    /\ Released(a)
    /\ thread' = [thread EXCEPT ![a] = "dispatching"]
    /\ UNCHANGED <<mode, lock, batch, op, control, got, child, pipe, handles,
                   captures, yields, interrupted>>

\* Cancelled at the gate, or during the dispatch delay of the second station.
GateCancelled(a) ==
    /\ thread[a] \in {"waiting", "dispatching"}
    /\ cancelled[a]
    /\ Unwind(a)
    /\ UNCHANGED <<mode, lock, batch, op, control, child, pipe, handles, captures,
                   yields, interrupted>>

\* The RELEASE message: the child begins to capture, or the pipe is broken.
Dispatch(a) ==
    /\ thread[a] = "dispatching"
    /\ \/ /\ child[a] = "ready"
          /\ child' = [child EXCEPT ![a] = "capturing"]
          /\ captures' = [captures EXCEPT ![a] = @ + 1]
          /\ thread' = [thread EXCEPT ![a] = "receiving"]
          /\ UNCHANGED got
       \/ /\ child[a] # "ready"
          /\ Unwind(a)
          /\ UNCHANGED <<child, captures>>
    /\ UNCHANGED <<mode, lock, batch, op, control, pipe, handles, yields,
                   interrupted>>

ReceiveResult(a) ==
    /\ thread[a] = "receiving"
    /\ pipe[a] \in Kinds
    /\ pipe' = [pipe EXCEPT ![a] = "none"]
    /\ got' = [got EXCEPT ![a] = pipe[a]]
    /\ thread' = [thread EXCEPT ![a] = "cleanup"]
    /\ UNCHANGED <<mode, lock, batch, op, control, child, handles, captures, yields,
                   interrupted>>

\* The finally clause: cleanup, then discard.
Cleanup(a) ==
    /\ thread[a] = "cleanup"
    /\ child[a] # "stuck"
    /\ child' = [child EXCEPT ![a] = "gone"]
    /\ pipe' = [pipe EXCEPT ![a] = "none"]
    /\ handles' = handles \ {a}
    /\ thread' = [thread EXCEPT ![a] = "dead"]
    /\ UNCHANGED <<mode, lock, batch, op, control, got, captures, yields, interrupted>>

\* Cleanup raises: its error replaces a result, and the handle stays registered.
CleanupResisted(a) ==
    /\ thread[a] = "cleanup"
    /\ child[a] \in {"preflight", "capturing", "stuck"}
    /\ child' = [child EXCEPT ![a] = "stuck"]
    /\ got' = [got EXCEPT ![a] = "failure"]
    /\ thread' = [thread EXCEPT ![a] = "dead"]
    /\ UNCHANGED <<mode, lock, batch, op, control, pipe, handles, captures, yields,
                   interrupted>>

-----------------------------------------------------------------------------
(* The children: _child_main.                                              *)

ChildPreflight(a) ==
    /\ child[a] = "preflight"
    /\ \/ /\ child' = [child EXCEPT ![a] = "ready"]
          /\ pipe' = [pipe EXCEPT ![a] = "ready"]
       \/ /\ child' = [child EXCEPT ![a] = "exiting"]
          /\ pipe' = [pipe EXCEPT ![a] = "failed"]
    /\ UNCHANGED <<mode, lock, batch, op, control, thread, got, handles, captures,
                   yields, interrupted>>

\* capture, close and the one message that tells of both.
ChildCapture(a) ==
    /\ child[a] = "capturing"
    /\ child' = [child EXCEPT ![a] = "exiting"]
    /\ \/ pipe' = [pipe EXCEPT ![a] = "failed"] /\ UNCHANGED yields
       \/ \E kind \in Kinds :
            /\ pipe' = [pipe EXCEPT ![a] = kind]
            /\ yields' = [yields EXCEPT ![a] = kind]
    /\ UNCHANGED <<mode, lock, batch, op, control, thread, got, handles, captures,
                   interrupted>>

\* The child exits, is killed, or leaves the driver call that held off a kill.
ChildEnds(a) ==
    /\ ChildAlive(a)
    /\ child' = [child EXCEPT ![a] = "gone"]
    /\ UNCHANGED <<mode, lock, batch, op, control, thread, got, pipe, handles,
                   captures, yields, interrupted>>

-----------------------------------------------------------------------------
\* The process ends, by itself between invocations or not: the kernel frees the
\* lock and kills the children, save one that is stuck in the driver.
ProcessEnds ==
    /\ registered
    /\ lock' = "free"
    /\ op' = IdleOp
    /\ release' = FALSE
    /\ ready' = [a \in Attempts |-> FALSE]
    /\ cancelled' = [a \in Attempts |-> FALSE]
    /\ thread' = [a \in Attempts |-> "none"]
    /\ got' = [a \in Attempts |-> "none"]
    /\ child' = [a \in Attempts |-> IF child[a] = "stuck" THEN "stuck" ELSE "none"]
    /\ pipe' = [a \in Attempts |-> "none"]
    /\ handles' = {}
    /\ interrupted' = (interrupted \/ op.pc # "idle")
    /\ UNCHANGED <<mode, batch, captures, yields>>

\* The thread that invokes: each of its waits is bounded.
Invocation ==
    \/ AdmissionBlocked \/ Replay \/ RefusePartial \/ Execute
    \/ ExecuteTooLate \/ WaitReady \/ WaitDied \/ WaitExpired \/ AdmitRelease
    \/ RefuseRelease \/ OpenGate \/ CancelCoordinated \/ ClassifyCoordinated
    \/ ClassifyIndependent \/ CancelIndependent \/ JoinFinish \/ JoinCleanup
    \/ Record \/ Executed \/ AbortAll \/ AbortDone \/ Publish \/ ReleaseLock
    \/ \E a \in Attempts : AbortOne(a) \/ AbortResisted(a)

Runner(a) ==
    \/ StartChild(a) \/ StartError(a) \/ ReceiveReady(a) \/ ReceiveFailed(a)
    \/ PassGate(a) \/ GateCancelled(a) \/ Dispatch(a) \/ ReceiveResult(a)
    \/ Cleanup(a) \/ CleanupResisted(a)

Child(a) == ChildPreflight(a) \/ ChildCapture(a) \/ ChildEnds(a)

Next ==
    \/ Acquire \/ Invocation \/ StoreError \/ ProcessEnds
    \/ \E a \in Attempts : Runner(a) \/ Child(a)

Spec == Init /\ [][Next]_vars

\* Runners and children may stall for ever; the invoking thread runs on.
FairSpec == Spec /\ WF_vars(Invocation)

-----------------------------------------------------------------------------
(* Properties.                                                             *)

\* Across crashes, failed invocations and retries a radio captures at most once
\* for an attempt: the row is registered before any thread starts, and a row
\* that is not terminal is never executed again.
CapturedAtMostOnce == \A a \in Attempts : captures[a] <= 1

\* An attempt is recorded as successful only if its child captured once and
\* returned a result for this attempt, whatever timeout, cancellation, cleanup
\* failure or exit came in between; two successes name different recordings.
SuccessIsEarned ==
    /\ \A a \in Attempts : outcome[a] = "succeeded" =>
         captures[a] = 1 /\ recording[a] = RecordingOf(a, yields[a]) /\ yields[a] # "foreign"
    /\ recording[1] = recording[2] => recording[1] = NoRecording

\* When a new capture reaches the dashboard projection its threads have ended and
\* its children are gone (execute's cleanup error and the first abort_all).
TeardownPrecedesProjection ==
    op.pc = "publish" /\ op.fresh =>
        \A a \in Attempts : ~Alive(a) /\ ~ChildAlive(a)

\* A child begins to capture only under the mode lock; in coordinated mode only
\* when both attempts are ready and neither is refused at the start, whatever
\* the runners do while the executor takes its decision.
CaptureIsReleased ==
    [][\A a \in Attempts : captures'[a] > captures[a] =>
          /\ lock = "held"
          /\ mode = "coordinated" =>
               op.refused = {} /\ \A b \in Attempts : ready[b]]_vars

\* However the runners and the children hang, an execution ends: the lock is
\* free, and the batch is terminal unless the process died or the store failed.
ExecutionEnds ==
    op.pc = "wait" ~> lock = "free" /\ (Terminal \/ interrupted)

\* The rows implement the abstract batch.
Batch == INSTANCE CaptureBatch
ImplementsBatch == Batch!Spec
=============================================================================
