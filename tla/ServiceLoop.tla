----------------------------- MODULE ServiceLoop -----------------------------
(***************************************************************************)
(* One service process: the command-line host around ServiceLoop, with its *)
(* main thread, the thread that runs the close hook, and the signals that  *)
(* ask it to drain.  A Python signal handler runs on the main thread       *)
(* between two of its bytecodes, so it can come between any two steps of   *)
(* the main thread and is itself one step.  The diagnostic sink is taken   *)
(* not to fail, and the detail texts are left out.  With --once no handler *)
(* is installed and a signal just ends the process: no step is about that. *)
(***************************************************************************)
EXTENDS Naturals

CONSTANT MaxUnits       \* bound on the units that find work

ASSUME ServiceAssumption == MaxUnits \in Nat \ {0}

VARIABLES
    mode,       \* --once or --forever
    pc,         \* where the main thread is
    state,      \* ServiceState
    started,    \* _started
    stop,       \* the flag of the event _stop
    asked,      \* a signal has been delivered
    completed,  \* _completed
    failed,     \* _failed
    late,       \* units begun after a signal was delivered
    hook,       \* the thread that runs the close hook
    wasFailed,  \* local of shutdown
    raised,     \* an exception is on its way out of run_once or run_forever
    exit        \* exit code of the process

counters == <<completed, failed, late>>
ending == <<hook, wasFailed, exit>>
vars == <<mode, pc, state, started, stop, asked, counters, ending, raised>>

ServiceState == {"starting", "ready", "draining", "stopped", "failed"}

Running == 1000     \* no exit code yet
Runtime == 4        \* ExitCode.RUNTIME

(* The lock inside the event _stop is held: on the way into and out of a    *)
(* wait, before and after the thread sleeps.                               *)
InEvent == {"wait_entry", "wait_exit"}

TypeOK ==
    /\ mode \in {"once", "forever"}
    /\ pc \in InEvent \cup {"new", "boot", "start", "loop", "run_once", "admit",
                            "admitted", "unit", "waiting", "shutdown",
                            "closing", "exited", "hung"}
    /\ state \in ServiceState
    /\ started \in BOOLEAN /\ stop \in BOOLEAN /\ asked \in BOOLEAN
    /\ completed \in 0 .. MaxUnits /\ failed \in 0 .. 1 /\ late \in Nat
    /\ hook \in {"idle", "running", "returned", "raised"}
    /\ wasFailed \in BOOLEAN /\ raised \in BOOLEAN
    /\ exit \in {Running, 0, Runtime}

Init ==
    /\ mode \in {"once", "forever"}
    /\ pc = "new"
    /\ state = "stopped"
    /\ started = FALSE /\ stop = FALSE /\ asked = FALSE
    /\ completed = 0 /\ failed = 0 /\ late = 0
    /\ hook = "idle" /\ wasFailed = FALSE /\ raised = FALSE
    /\ exit = Running

Goto(p) == pc' = p
-----------------------------------------------------------------------------
(* run_forever installs the handlers and makes sure that the service has   *)
(* been started; run_once, alone, begins with its own test of the flag.    *)
Enter ==
    /\ pc = "new"
    /\ Goto(IF mode = "forever" THEN "boot" ELSE "run_once")
    /\ UNCHANGED <<mode, state, started, stop, asked, counters, ending, raised>>

(* The handler.  Event.set takes the lock inside the event, which is not    *)
(* reentrant: if the main thread holds it, the handler waits for ever.     *)
RequestStopOnlyReady ==
    /\ mode = "forever" /\ pc \notin InEvent \cup {"new", "exited", "hung"}
    /\ asked' = TRUE
    /\ stop' = (stop \/ state = "ready")
    /\ state' = IF state = "ready" THEN "draining" ELSE state
    /\ UNCHANGED <<mode, pc, started, counters, ending, raised>>

RequestStop ==
    /\ mode = "forever" /\ pc \notin InEvent \cup {"new", "exited", "hung"}
    /\ asked' = TRUE
    /\ stop' = TRUE
    /\ state' = IF state \in {"starting", "ready"} THEN "draining" ELSE state
    /\ UNCHANGED <<mode, pc, started, counters, ending, raised>>

RequestStopHangs ==
    /\ mode = "forever" /\ pc \in InEvent
    /\ asked' = TRUE
    /\ Goto("hung")
    /\ UNCHANGED <<mode, state, started, stop, counters, ending, raised>>
-----------------------------------------------------------------------------
(* _ensure_started, called before the loop and by every run_once.          *)
StartingUp ==
    /\ pc \in {"boot", "admit"} /\ ~started
    /\ state' = "starting"
    /\ Goto("start")
    /\ UNCHANGED <<mode, started, stop, asked, counters, ending, raised>>

Started ==
    /\ pc = "start"
    /\ started' = TRUE
    /\ state' = "ready"
    /\ Goto(IF mode = "forever" THEN "loop" ELSE "admitted")
    /\ UNCHANGED <<mode, stop, asked, counters, ending, raised>>

StartError ==
    /\ pc = "start"
    /\ state' = "failed"
    /\ raised' = TRUE
    /\ Goto("shutdown")
    /\ UNCHANGED <<mode, started, stop, asked, counters, ending>>

Admit ==
    /\ pc = "admit" /\ started
    /\ raised' = (state # "ready")
    /\ Goto(IF state = "ready" THEN "admitted" ELSE "shutdown")
    /\ UNCHANGED <<mode, state, started, stop, asked, counters, ending>>
-----------------------------------------------------------------------------
(* The loop of run_forever and the body of run_once.                       *)
Loop ==
    /\ pc = "loop"
    /\ Goto(IF stop THEN "shutdown" ELSE "run_once")
    /\ UNCHANGED <<mode, state, started, stop, asked, counters, ending, raised>>

(* A run_once that finds the flag set answers that it did no work.         *)
RunOnce ==
    /\ pc = "run_once"
    /\ Goto(IF stop THEN "wait_entry" ELSE "admit")
    /\ UNCHANGED <<mode, state, started, stop, asked, counters, ending, raised>>

BeginUnit ==
    /\ pc = "admitted"
    /\ late' = late + (IF asked THEN 1 ELSE 0)
    /\ Goto("unit")
    /\ UNCHANGED <<mode, state, started, stop, asked, completed, failed, ending,
                   raised>>

UnitCompleted ==
    /\ pc = "unit" /\ completed < MaxUnits
    /\ completed' = completed + 1
    /\ Goto(IF mode = "forever" THEN "loop" ELSE "shutdown")
    /\ UNCHANGED <<mode, state, started, stop, asked, failed, late, ending, raised>>

UnitIdle ==
    /\ pc = "unit"
    /\ Goto(IF mode = "forever" THEN "wait_entry" ELSE "shutdown")
    /\ UNCHANGED <<mode, state, started, stop, asked, counters, ending, raised>>

UnitFailed ==
    /\ pc = "unit"
    /\ failed' = failed + 1
    /\ state' = "failed"
    /\ raised' = TRUE
    /\ Goto("shutdown")
    /\ UNCHANGED <<mode, started, stop, asked, completed, late, ending>>

(* The wait for the poll interval, which a set flag or a signal ends early. *)
Wait ==
    /\ \/ pc = "wait_entry" /\ Goto(IF stop THEN "wait_exit" ELSE "waiting")
       \/ pc = "waiting" /\ Goto("wait_exit")
       \/ pc = "wait_exit" /\ Goto("loop")
    /\ UNCHANGED <<mode, state, started, stop, asked, counters, ending, raised>>
-----------------------------------------------------------------------------
(* shutdown: its first critical section and the start of the close thread. *)
ShutdownForgets ==
    /\ pc = "shutdown"
    /\ state' = "draining"
    /\ wasFailed' = (state' = "failed")
    /\ hook' = "running"
    /\ Goto("closing")
    /\ UNCHANGED <<mode, started, stop, asked, counters, raised, exit>>

Shutdown ==
    /\ pc = "shutdown"
    /\ wasFailed' = (state = "failed")
    /\ state' = "draining"
    /\ hook' = "running"
    /\ Goto("closing")
    /\ UNCHANGED <<mode, started, stop, asked, counters, raised, exit>>

(* The daemon thread, which ends with the process if not before.           *)
Close ==
    /\ hook = "running" /\ pc = "closing"
    /\ hook' \in {"returned", "raised"}
    /\ UNCHANGED <<mode, pc, state, started, stop, asked, counters, raised,
                   wasFailed, exit>>

(* The rest of shutdown: the hook came to an end or the deadline passed.    *)
(* main turns an exception of either into the exit code.                    *)
Finish(clean) ==
    /\ state' = IF clean /\ ~wasFailed THEN "stopped" ELSE "failed"
    /\ exit' = IF clean /\ ~raised THEN 0 ELSE Runtime
    /\ Goto("exited")
    /\ UNCHANGED <<mode, started, stop, asked, counters, raised, hook, wasFailed>>

ClosedUnchecked == pc = "closing" /\ hook # "running" /\ Finish(TRUE)

Closed == pc = "closing" /\ hook # "running" /\ Finish(hook = "returned")

DeadlineForgotten == FALSE

DeadlineExceeded == pc = "closing" /\ hook = "running" /\ Finish(FALSE)
-----------------------------------------------------------------------------
(* The main thread, whose steps take place as long as it has one.          *)
Main ==
    \/ Enter \/ StartingUp \/ Started \/ StartError \/ Admit
    \/ Loop \/ RunOnce \/ BeginUnit \/ UnitCompleted \/ UnitIdle \/ UnitFailed
    \/ Wait \/ Shutdown \/ Closed

Next == Main \/ DeadlineExceeded \/ Close \/ RequestStop \/ RequestStopHangs

Spec == Init /\ [][Next]_vars

(* A bounded unit returns, a timeout passes; the close hook may block and   *)
(* a signal may never come.                                                 *)
FairSpec == Spec /\ WF_vars(Main) /\ WF_vars(DeadlineExceeded)
-----------------------------------------------------------------------------
(* A failed start or a failed unit is never covered up: health does not     *)
(* return to ready, and the process ends failed with a failure's exit code, *)
(* although shutdown drains a failed service like any other.                *)
Broke == failed > 0 \/ (raised /\ ~started)

FailureIsNotForgotten ==
    Broke => /\ state \notin {"ready", "stopped"}
             /\ pc = "exited" => state = "failed" /\ exit = Runtime

(* Exit code 0 is given only to a process whose start, units and close hook *)
(* all succeeded and whose health says stopped (services.md, exit codes).   *)
CleanExitIsClean ==
    exit = 0 => started /\ ~Broke /\ hook = "returned" /\ state = "stopped"

(* However a signal falls between the tests of the flag and of the state,   *)
(* at most one more unit is begun after it: the one already admitted.       *)
AtMostOneLateUnit == late <= 1

(* A signalled process comes to an end, within the deadline even if the     *)
(* close hook blocks, unless the signal hit the event's own lock.           *)
StopIsHonoured == [](pc # "hung") => (asked ~> pc = "exited")
=============================================================================
