------------------------- MODULE FocusedContinuous -------------------------
(***************************************************************************)
(* The continuous supervisor: it plans a dwell, captures it in a child     *)
(* process, and dispatches the analysis of captured dwells to other        *)
(* children while it captures the next one.  systemd runs at most one      *)
(* supervisor and signals only it (KillMode=process), so its children      *)
(* outlive a supervisor that is killed, and the next one must find out     *)
(* from the journal, the receipts and the process table what became of     *)
(* them.  A process identity is the pid with its start ticks; a command is *)
(* told by the release it is started from.                                 *)
(***************************************************************************)
EXTENDS CampaignCapture

CONSTANTS
    Releases,                  \* sealed releases a supervisor is started from
    Children,                  \* identities of analysis processes
    MaximumDwells,             \* --maximum-dwells
    MaximumInFlightAnalyses,   \* --maximum-in-flight-analyses
    MaximumAnalysisAttempts,   \* --maximum-analysis-attempts
    MaxStarts,                 \* bound: starts of the supervisor
    NoChild, NoRelease

ASSUME FocusedAssumption ==
    /\ MaximumDwells \in 0 .. Slots
    /\ MaximumInFlightAnalyses \in Nat \ {0}
    /\ MaximumAnalysisAttempts \in Nat \ {0}
    /\ MaxStarts \in Nat
    /\ NoChild \notin Children /\ NoRelease \notin Releases

VARIABLES
    dwell,     \* the rows of focused_dwell
    receipt,   \* the completion receipt of a dwell exists
    child,     \* the analysis processes
    sup,       \* the supervisor
    latch,     \* failure-latch.json exists
    starts

focusedVars == <<dwell, receipt, child, sup, latch, starts>>

Dwells == 1 .. MaximumDwells

NoRow == [state |-> "none", pid |-> NoChild, command |-> NoRelease, attempts |-> 0]

\* What is left of a process is its status, as its parent sees it.
Exited(status) == [dwell |-> 0, pc |-> status]
Off == [pc |-> "off", release |-> NoRelease, allow |-> {}, todo |-> {},
        kids |-> {}, adopted |-> {}, spawned |-> NoChild, capture |-> {},
        stopping |-> FALSE]

\* A failed row is "conflicted" when its error is the identity conflict.
RowState == {"none", "planned", "captured", "analysis_running", "complete",
             "failed", "conflicted"}

FocusedInit ==
    /\ kind = "focused" /\ target = 0 /\ Init
    /\ dwell = [s \in Dwells |-> NoRow]
    /\ receipt = [s \in Dwells |-> FALSE]
    /\ child = [c \in Children |-> Exited("exit1")]
    /\ sup = Off
    /\ latch = FALSE
    /\ starts = 0

FocusedTypeOK ==
    /\ dwell \in [Dwells -> [state : RowState, pid : Children \cup {NoChild},
                             command : Releases \cup {NoRelease}, attempts : Nat]]
    /\ receipt \in [Dwells -> BOOLEAN]
    /\ child \in [Children -> [dwell : Dwells \cup {0},
                               pc : {"waiting", "analysing", "written", "exit0", "exit1"}]]
    /\ sup.pc \in {"off", "recover", "recover_act", "dispatch", "loop", "reap",
                   "refill", "gate", "planned", "capturing"}
    /\ sup.allow \subseteq Dwells \X Releases
    /\ sup.adopted \subseteq sup.kids /\ sup.kids \subseteq Dwells
    /\ sup.todo \subseteq Dwells /\ sup.capture \subseteq Procs
    /\ latch \in BOOLEAN /\ starts \in 0 .. MaxStarts

-----------------------------------------------------------------------------
(* The analysis child: leo-gauss-focused-analysis.                         *)

Alive(c) == child[c].pc \in {"waiting", "analysing", "written"}
HoldsAttemptLock(c) == child[c].pc \in {"analysing", "written"}

ChildTo(c, process) ==
    /\ child' = [child EXCEPT ![c] = process]
    /\ UNCHANGED <<vars, dwell, sup, latch, starts>>

Working(c, pc) == [child[c] EXCEPT !.pc = pc]

\* Mutant: the lock is not taken.
AttemptUnlocked(c) == TRUE

AttemptLockFree(c) ==
    \A d \in Children : HoldsAttemptLock(d) => child[d].dwell # child[c].dwell

\* Under the lock: a batch that is not closed or a receipt that cannot be read
\* ends the attempt, a valid receipt ends it as a success.
ChildLocks(c) ==
    LET s == child[c].dwell IN
    /\ child[c].pc = "waiting"
    /\ AttemptLockFree(c)
    /\ \/ batch[s] # "eligible" /\ ChildTo(c, Exited("exit1"))
       \/ batch[s] = "eligible" /\ receipt[s] /\ \E pc \in {"exit0", "exit1"} : ChildTo(c, Exited(pc))
       \/ batch[s] = "eligible" /\ ~receipt[s] /\ ChildTo(c, Working(c, "analysing"))
    /\ UNCHANGED receipt

\* analyze_focused_pair returns, and the receipt is linked into place.
ChildWrites(c) ==
    /\ child[c].pc = "analysing"
    /\ receipt' = [receipt EXCEPT ![child[c].dwell] = TRUE]
    /\ ChildTo(c, Working(c, "written"))

ChildExits(c) ==
    /\ child[c].pc = "written"
    /\ ChildTo(c, Exited("exit0"))
    /\ UNCHANGED receipt

\* An error, or a signal, in any state.
ChildDies(c) ==
    /\ Alive(c)
    /\ ChildTo(c, Exited("exit1"))
    /\ UNCHANGED receipt

-----------------------------------------------------------------------------
(* The supervisor.                                                         *)

On == sup.pc # "off"
Rows == {s \in Dwells : dwell[s].state # "none"}
NextSequence == Cardinality(Rows) + 1
Least(set) == CHOOSE s \in set : \A t \in set : s <= t

SupTo(pc) == sup' = [sup EXCEPT !.pc = pc]

\* A row that is settled or captured: its identity columns are null or are never
\* read again.
RowTo(s, state) ==
    dwell' = [dwell EXCEPT ![s].state = state, ![s].pid = NoChild,
                           ![s].command = NoRelease]

\* The finally clause terminates every child that still runs.  The receipt of an
\* adopted process counts as its end.
StillRuns(s) == ~(s \in sup.adopted /\ receipt[s])
Kids == {dwell[s].pid : s \in {k \in sup.kids : StillRuns(k)}} \cup {sup.spawned}
Terminated ==
    [c \in Children |-> IF c \in Kids /\ Alive(c) THEN Exited("exit1") ELSE child[c]]

Ends ==
    /\ child' = Terminated
    /\ sup' = Off

Leaves == Ends /\ UNCHANGED <<vars, receipt, starts>>

\* The row is written, then the latch that keeps the unit from starting again,
\* then the children are terminated; it may be killed before each.
HaltEnds ==
    \/ Ends /\ latch' = TRUE
    \/ sup' = Off /\ latch' \in BOOLEAN /\ UNCHANGED child

Halts == HaltEnds /\ UNCHANGED <<vars, receipt, starts>>

\* A new supervisor, with at most one entry of --allow-prior-analysis-release.
Start(r, allow) ==
    /\ kind = "focused"
    /\ ~On /\ ~latch
    /\ starts < MaxStarts
    /\ starts' = starts + 1
    /\ sup' = [Off EXCEPT !.pc = "recover", !.release = r, !.allow = allow,
                 !.todo = {s \in Rows :
                             \/ dwell[s].state \in {"planned", "captured", "analysis_running"}
                             \/ /\ dwell[s].state \in {"failed", "conflicted"}
                                /\ \E q \in Releases : <<s, q>> \in allow}]
    /\ UNCHANGED <<vars, dwell, receipt, child, latch>>

\* An allowed sequence that the journal does not hold ends the recovery.
RecoverRefuses ==
    /\ sup.pc = "recover"
    /\ \E a \in sup.allow : a[1] \notin Rows
    /\ Halts
    /\ UNCHANGED dwell

Recovering(pc) ==
    /\ sup.pc = pc
    /\ sup.todo # {}
    /\ \A a \in sup.allow : a[1] \in Rows

RecoverNext(kids) ==
    sup' = [sup EXCEPT !.pc = "recover", !.todo = @ \ {Least(sup.todo)},
                       !.kids = @ \cup kids, !.adopted = @ \cup kids]

\* A receipt closes the row.  One that cannot be read fails it and the recovery;
\* for a row that has failed before the journal refuses that, and raises.
RecoverReceipt ==
    LET s == Least(sup.todo) IN
    /\ Recovering("recover") /\ receipt[s]
    /\ \/ /\ RowTo(s, "complete")
          /\ RecoverNext({})
          /\ UNCHANGED <<vars, receipt, child, latch, starts>>
       \/ /\ dwell[s].state \in {"planned", "captured", "analysis_running"}
          /\ RowTo(s, "failed")
          /\ Halts
       \/ /\ dwell[s].state \in {"failed", "conflicted"}
          /\ Leaves
          /\ UNCHANGED <<dwell, latch>>

\* There is no receipt; one may be written before the process is looked up.
RecoverNoReceipt ==
    /\ Recovering("recover") /\ ~receipt[Least(sup.todo)]
    /\ SupTo("recover_act")
    /\ UNCHANGED <<vars, dwell, receipt, child, latch, starts>>

\* Mutant: the planned capture of an earlier supervisor is taken for closed.
PresumedClosed(s) == TRUE

CaptureClosed(s) == batch[s] = "eligible"

RecoverPlanned ==
    LET s == Least(sup.todo) IN
    /\ Recovering("recover_act") /\ dwell[s].state = "planned"
    /\ IF CaptureClosed(s)
       THEN /\ RowTo(s, "captured")
            /\ RecoverNext({})
            /\ UNCHANGED <<vars, receipt, child, latch, starts>>
       ELSE RowTo(s, "failed") /\ Halts

RecoverCaptured ==
    /\ Recovering("recover_act") /\ dwell[Least(sup.todo)].state = "captured"
    /\ RecoverNext({})
    /\ UNCHANGED <<vars, dwell, receipt, child, latch, starts>>

AllowedCommand(s) ==
    dwell[s].command = sup.release \/ <<s, dwell[s].command>> \in sup.allow

\* Mutant: any live process with the recorded identity is adopted, and one that
\* is not adopted is left to itself.
ForgetsAttempt(s) ==
    /\ RecoverNext(IF Alive(dwell[s].pid) THEN {s} ELSE {})
    /\ UNCHANGED dwell

\* A live process of an allowed command is adopted, a dead one is abandoned.
AdoptsOrAbandons(s) ==
    IF Alive(dwell[s].pid)
    THEN RecoverNext({s}) /\ UNCHANGED dwell
    ELSE RecoverNext({}) /\ RowTo(s, "captured")

RecoverRunning ==
    LET s == Least(sup.todo) IN
    /\ Recovering("recover_act") /\ dwell[s].state = "analysis_running"
    /\ IF AllowedCommand(s)
       THEN /\ AdoptsOrAbandons(s)
            /\ UNCHANGED <<vars, receipt, child, latch, starts>>
       ELSE /\ dwell' = [dwell EXCEPT ![s].state = "conflicted"]
            /\ Halts

\* A conflict of an earlier recovery is reopened for the release it names, once
\* its process is gone.
RecoverFailed ==
    LET s == Least(sup.todo) IN
    /\ Recovering("recover_act") /\ dwell[s].state \in {"failed", "conflicted"}
    /\ IF /\ dwell[s].state = "conflicted"
          /\ <<s, dwell[s].command>> \in sup.allow
          /\ ~Alive(dwell[s].pid)
       THEN /\ RowTo(s, "captured")
            /\ RecoverNext({})
            /\ UNCHANGED <<vars, receipt, child, latch, starts>>
       ELSE Halts /\ UNCHANGED dwell

Recovered ==
    /\ sup.pc = "recover" /\ sup.todo = {}
    /\ \A a \in sup.allow : a[1] \in Rows
    /\ SupTo("dispatch")
    /\ UNCHANGED <<vars, dwell, receipt, child, latch, starts>>

-----------------------------------------------------------------------------
(* Dispatch, reap, capture.                                                *)

CapturedWork == {s \in Dwells : dwell[s].state = "captured"}
Dispatching == sup.pc \in {"dispatch", "refill"}
SlotAvailable == Cardinality(sup.kids) < MaximumInFlightAnalyses

\* An identity never recurs; one that no row names is as good as new.
Unused == {c \in Children : ~Alive(c) /\ \A s \in Dwells : dwell[s].pid # c}

\* Popen for the oldest captured row; the journal does not know the process yet.
Spawn ==
    LET c == CHOOSE x \in Unused : TRUE IN
    /\ Dispatching /\ sup.spawned = NoChild
    /\ CapturedWork # {} /\ SlotAvailable /\ Unused # {}
    /\ child' = [child EXCEPT ![c] = [dwell |-> Least(CapturedWork), pc |-> "waiting"]]
    /\ sup' = [sup EXCEPT !.spawned = c]
    /\ UNCHANGED <<vars, dwell, receipt, latch, starts>>

\* Mutant: the attempt is not counted.
ClaimedUncounted(row) ==
    [state |-> "analysis_running", pid |-> sup.spawned, command |-> sup.release,
     attempts |-> row.attempts]

Claimed(row) ==
    [state |-> "analysis_running", pid |-> sup.spawned, command |-> sup.release,
     attempts |-> row.attempts + 1]

ClaimAnalysisProcess ==
    LET s == Least(CapturedWork) IN
    /\ Dispatching /\ sup.spawned # NoChild
    /\ dwell' = [dwell EXCEPT ![s] = Claimed(@)]
    /\ sup' = [sup EXCEPT !.spawned = NoChild, !.kids = @ \cup {s}]
    /\ UNCHANGED <<vars, receipt, child, latch, starts>>

Dispatched ==
    /\ Dispatching /\ sup.spawned = NoChild
    /\ CapturedWork = {} \/ ~SlotAvailable
    /\ SupTo(IF sup.pc = "dispatch" THEN "loop" ELSE "gate")
    /\ UNCHANGED <<vars, dwell, receipt, child, latch, starts>>

\* The outcomes _reap can see of a child.  An adopted process is not a child of
\* this supervisor: its receipt stands for its status, and a receipt that is read
\* too early or not at all for a failure.
SeesSuccess(s) ==
    receipt[s] /\ (s \in sup.adopted \/ child[dwell[s].pid].pc = "exit0")
SeesFailure(s) ==
    \/ ~Alive(dwell[s].pid)
    \/ s \in sup.adopted /\ receipt[s]

Reaped(s) ==
    /\ sup' = [sup EXCEPT !.kids = @ \ {s}, !.adopted = @ \ {s}]
    /\ UNCHANGED <<vars, receipt, child, latch, starts>>

ReapSuccess(s) ==
    /\ sup.pc = "reap" /\ s \in sup.kids
    /\ SeesSuccess(s)
    /\ RowTo(s, "complete")
    /\ Reaped(s)

MayRetry(s) == dwell[s].attempts < MaximumAnalysisAttempts

\* Another attempt, or the dead letter.
ReapFailure(s) ==
    /\ sup.pc = "reap" /\ s \in sup.kids
    /\ SeesFailure(s)
    /\ RowTo(s, IF MayRetry(s) THEN "captured" ELSE "failed")
    /\ Reaped(s)

\* A dead child is reaped before the loop goes on.
ReapDone ==
    /\ sup.pc = "reap"
    /\ \A s \in sup.kids : Alive(dwell[s].pid)
    /\ SupTo("refill")
    /\ UNCHANGED <<vars, dwell, receipt, child, latch, starts>>

Draining == sup.stopping \/ NextSequence > MaximumDwells

Loop ==
    /\ sup.pc = "loop"
    /\ IF Draining /\ sup.kids = {} /\ CapturedWork = {}
       THEN Leaves /\ UNCHANGED <<dwell, latch>>
       ELSE SupTo("reap") /\ UNCHANGED <<vars, dwell, receipt, child, latch, starts>>

GateToDrain ==
    /\ sup.pc = "gate" /\ Draining
    /\ SupTo("loop")
    /\ UNCHANGED <<vars, dwell, receipt, child, latch, starts>>

DiskFull ==
    /\ sup.pc = "gate" /\ ~Draining
    /\ Halts
    /\ UNCHANGED dwell

Plan ==
    /\ sup.pc = "gate" /\ ~Draining
    /\ dwell' = [dwell EXCEPT ![NextSequence].state = "planned"]
    /\ SupTo("planned")
    /\ UNCHANGED <<vars, receipt, child, latch, starts>>

\* The capture command, whose process calls the capture port of the last row.
RunCapture ==
    LET s == Cardinality(Rows)
        p == CHOOSE q \in Procs : proc[q].pc = "idle" IN
    /\ sup.pc = "planned"
    /\ \E q \in Procs : proc[q].pc = "idle"
    /\ proc' = [proc EXCEPT ![p] =
                   [pc |-> "invoked", at |-> 0,
                    view |-> [EmptyJournal EXCEPT !.records = [i \in 1 .. s |-> NewRecord]]]]
    /\ calls' = [calls EXCEPT ![s] = @ + 1]
    /\ sup' = [sup EXCEPT !.pc = "capturing", !.capture = {p}]
    /\ UNCHANGED <<kind, target, now, journal, batch, rf, dwell, receipt, child, latch, starts>>

CaptureEnded(p) == proc[p].pc \in {"idle", "returned", "raised"}

\* The process ended; status 0 means that the port returned two successes.
CaptureReturns ==
    LET s == Cardinality(Rows) IN
    /\ sup.pc = "capturing"
    /\ \E p \in sup.capture :
         /\ CaptureEnded(p)
         /\ IF proc[p].pc = "returned" /\ CaptureClosed(s)
            THEN /\ RowTo(s, "captured")
                 /\ sup' = [sup EXCEPT !.pc = "dispatch", !.capture = {}]
                 /\ UNCHANGED <<child, latch>>
            ELSE /\ RowTo(s, "failed")
                 /\ HaltEnds
         /\ Return(p)
    /\ UNCHANGED <<kind, target, now, journal, batch, rf, calls, receipt, starts>>

\* The capture process of a supervisor that is gone.
OrphanedCaptureEnds(p) ==
    /\ kind = "focused"
    /\ p \notin sup.capture
    /\ proc[p].pc \in {"returned", "raised"}
    /\ Return(p)
    /\ UNCHANGED <<kind, target, now, journal, batch, rf, calls, focusedVars>>

-----------------------------------------------------------------------------
(* Signals, errors, the kernel and the operator.                           *)

RequestStop ==
    /\ On /\ ~sup.stopping
    /\ sup' = [sup EXCEPT !.stopping = TRUE]
    /\ UNCHANGED <<vars, dwell, receipt, child, latch, starts>>

\* An exception that nothing catches: no latch is written.
Raises ==
    /\ On
    /\ \A p \in sup.capture : CaptureEnded(p)
    /\ Leaves
    /\ UNCHANGED <<dwell, latch>>

Killed ==
    /\ On
    /\ sup' = Off
    /\ UNCHANGED <<vars, dwell, receipt, child, latch, starts>>

ClearLatch ==
    /\ latch /\ ~On /\ starts < MaxStarts
    /\ latch' = FALSE
    /\ UNCHANGED <<vars, dwell, receipt, child, sup, starts>>

ChildStep(c) == ChildLocks(c) \/ ChildWrites(c) \/ ChildExits(c)

SupStep ==
    \/ RecoverRefuses \/ RecoverReceipt \/ RecoverNoReceipt \/ RecoverPlanned
    \/ RecoverCaptured \/ RecoverRunning \/ RecoverFailed \/ Recovered
    \/ Spawn \/ ClaimAnalysisProcess \/ Dispatched
    \/ (\E s \in Dwells : ReapSuccess(s) \/ ReapFailure(s)) \/ ReapDone
    \/ Loop \/ GateToDrain \/ DiskFull \/ Plan
    \/ RunCapture \/ CaptureReturns

FocusedNext ==
    \/ SupStep
    \/ \E c \in Children : ChildStep(c) \/ ChildDies(c)
    \/ \E r \in Releases : \/ Start(r, {})
                            \/ \E s \in Dwells, q \in Releases : Start(r, {<<s, q>>})
    \/ \E p \in Procs : (PortStep(p) \/ ProcessDies(p)) /\ UNCHANGED focusedVars
    \/ \E p \in Procs : OrphanedCaptureEnds(p)
    \/ RequestStop \/ Raises \/ Killed \/ ClearLatch

\* The supervisor goes on, its analyses have a deadline, its capture returns.
FocusedSpec ==
    /\ FocusedInit /\ [][FocusedNext]_<<vars, focusedVars>>
    /\ WF_<<vars, focusedVars>>(SupStep)
    /\ \A c \in Children : WF_<<vars, focusedVars>>(ChildStep(c))
    /\ \A p \in Procs : WF_<<vars, focusedVars>>(PortStep(p) /\ UNCHANGED focusedVars)

-----------------------------------------------------------------------------
(* Properties.                                                             *)

\* A row is never better than its evidence: a dwell that is captured, analysed or
\* complete has a closed batch, and a complete one has its receipt, although the
\* supervisor is killed between any two of the writes and the capture goes on.
RowHasEvidence ==
    \A s \in Dwells :
        /\ dwell[s].state \in {"captured", "analysis_running", "conflicted", "complete"}
             => batch[s] = "eligible"
        /\ dwell[s].state = "complete" => receipt[s]

\* The attempt lock closes the window between fork and journal: two processes
\* never analyse a dwell at once, and none analyses it after its receipt.
AnalysisIsSerialized ==
    \A c \in Children :
        child[c].pc = "analysing" =>
            /\ ~receipt[child[c].dwell]
            /\ \A d \in Children \ {c} :
                 child[d].dwell = child[c].dwell => ~HoldsAttemptLock(d)

\* No attempt is forgotten: a supervisor past its recovery watches exactly the
\* processes of the running rows, its own and those it adopted.
RunningRowsAreWatched ==
    sup.pc \notin {"off", "recover", "recover_act"} =>
        sup.kids = {s \in Dwells : dwell[s].state = "analysis_running"}

\* graceful-drain-v1: a supervisor that is asked to stop leaves, after the capture
\* in progress and the bounded attempts of its analyses.
StopDrains == sup.stopping ~> sup.pc = "off"
=============================================================================
