-------------------------- MODULE ServiceLoopProofs --------------------------
(***************************************************************************)
(* ServiceLoop for every bound on the units: types, and what the end of a  *)
(* process says about its life.                                            *)
(***************************************************************************)
EXTENDS ServiceLoop, TLAPS

(* Where the main thread can be before and after the service was started.  *)
StartedWhere ==
    /\ pc \in {"new", "boot", "start"} => ~started
    /\ pc \in {"run_once", "admit"} /\ mode = "forever" => started
    /\ pc \in InEvent \cup {"loop", "admitted", "unit", "waiting"} => started
    /\ pc \in {"shutdown", "closing", "exited"} /\ ~started => raised

(* A delivered signal has set the flag, and the loop lets nothing pass the   *)
(* flag: whoever began a unit late is on the way out.                       *)
LateWhere ==
    /\ asked /\ pc # "hung" => stop
    /\ stop => mode = "forever"
    /\ late > 0 => /\ asked
                   /\ late = 1
                   /\ pc \notin {"new", "boot", "start", "run_once", "admit",
                                 "admitted"}

(* An exception leads into shutdown and keeps the memory of its cause.      *)
RaisedWhere ==
    /\ raised => pc \in {"shutdown", "closing", "exited"}
    /\ failed > 0 => raised
    /\ state = "failed" => raised \/ pc = "exited"
    /\ Broke /\ pc = "shutdown" => state = "failed"
    /\ pc = "closing" => state = "draining" /\ (wasFailed => raised)
    /\ Broke /\ pc = "closing" => wasFailed
    /\ Broke /\ pc = "exited" => state = "failed" /\ exit = Runtime
    /\ state = "stopped" => pc = "exited" \/ ~started

(* An exit code belongs to a process that has ended.                       *)
ExitWhere ==
    /\ exit # Running => pc = "exited"
    /\ CleanExitIsClean

LoopInv == TypeOK /\ StartedWhere /\ LateWhere /\ RaisedWhere /\ ExitWhere

(* The program begins in the invariant.                                    *)
LEMMA LoopInit == Init => LoopInv
  <1> SUFFICES ASSUME Init PROVE LoopInv
    OBVIOUS
  <1>1. completed \in 0 .. MaxUnits /\ failed \in 0 .. 1 /\ late \in Nat
    BY ServiceAssumption DEF Init
  <1>2. TypeOK
    BY <1>1, Zenon DEF Init, TypeOK, ServiceState
  <1>3. StartedWhere /\ LateWhere
    BY DEF Init, StartedWhere, LateWhere, InEvent
  <1>4. RaisedWhere
    BY DEF Init, RaisedWhere, Broke
  <1>5. ExitWhere
    BY DEF Init, ExitWhere, CleanExitIsClean, Running
  <1>6. QED
    BY <1>2, <1>3, <1>4, <1>5 DEF LoopInv

(* Every step of the main thread, the close hook and the handler keeps it.  *)
LEMMA LoopStep == LoopInv /\ [Next]_vars => LoopInv'
  <1> SUFFICES ASSUME LoopInv, [Next]_vars PROVE LoopInv'
    OBVIOUS
  <1> USE ServiceAssumption
      DEF LoopInv, TypeOK, StartedWhere, LateWhere, RaisedWhere, ExitWhere,
          CleanExitIsClean, Broke, ServiceState, InEvent, Running, Runtime,
          Goto, counters, ending
  <1>1. CASE Enter
    <2>1. TypeOK'
      BY <1>1 DEF Enter
    <2>2. StartedWhere' /\ LateWhere'
      BY <1>1 DEF Enter
    <2>3. RaisedWhere'
      BY <1>1 DEF Enter
    <2>4. ExitWhere'
      BY <1>1 DEF Enter
    <2>5. QED
      BY <2>1, <2>2, <2>3, <2>4
  <1>2. CASE StartingUp
    BY <1>2 DEF StartingUp
  <1>3. CASE Started
    BY <1>3 DEF Started
  <1>4. CASE StartError
    BY <1>4 DEF StartError
  <1>5. CASE Admit
    <2>1. TypeOK'
      BY <1>5 DEF Admit
    <2>2. StartedWhere' /\ LateWhere'
      BY <1>5 DEF Admit
    <2>3. RaisedWhere'
      BY <1>5 DEF Admit
    <2>4. ExitWhere'
      BY <1>5 DEF Admit
    <2>5. QED
      BY <2>1, <2>2, <2>3, <2>4
  <1>6. CASE Loop
    BY <1>6 DEF Loop
  <1>7. CASE RunOnce
    <2>1. TypeOK'
      BY <1>7 DEF RunOnce
    <2>2. StartedWhere' /\ LateWhere'
      BY <1>7 DEF RunOnce
    <2>3. RaisedWhere'
      BY <1>7 DEF RunOnce
    <2>4. ExitWhere'
      BY <1>7 DEF RunOnce
    <2>5. QED
      BY <2>1, <2>2, <2>3, <2>4
  <1>8. CASE BeginUnit
    BY <1>8 DEF BeginUnit
  <1>9. CASE UnitCompleted
    BY <1>9 DEF UnitCompleted
  <1>10. CASE UnitIdle
    BY <1>10 DEF UnitIdle
  <1>11. CASE UnitFailed
    BY <1>11 DEF UnitFailed
  <1>12. CASE Wait
    BY <1>12 DEF Wait
  <1>13. CASE Shutdown
    BY <1>13 DEF Shutdown
  <1>14. CASE Closed
    BY <1>14 DEF Closed, Finish
  <1>15. CASE DeadlineExceeded
    BY <1>15 DEF DeadlineExceeded, Finish
  <1>16. CASE Close
    BY <1>16 DEF Close
  <1>17. CASE RequestStop
    BY <1>17 DEF RequestStop
  <1>18. CASE RequestStopHangs
    BY <1>18 DEF RequestStopHangs
  <1>19. CASE UNCHANGED vars
    BY <1>19 DEF vars
  <1>20. QED
    BY <1>1, <1>2, <1>3, <1>4, <1>5, <1>6, <1>7, <1>8, <1>9, <1>10, <1>11,
       <1>12, <1>13, <1>14, <1>15, <1>16, <1>17, <1>18, <1>19
    DEF Next, Main

THEOREM LoopInvariant == Spec => []LoopInv
  BY LoopInit, LoopStep, PTL DEF Spec

(* The variables of ServiceLoop keep their types.                          *)
THEOREM TypeCorrect == Spec => []TypeOK
  <1>1. LoopInv => TypeOK
    BY DEF LoopInv
  <1>2. QED
    BY <1>1, LoopInvariant, PTL

(* After a signal at most one more unit begins, wherever the signal falls   *)
(* between the tests in run_forever, run_once and _ensure_started.          *)
THEOREM LateTheorem == Spec => []AtMostOneLateUnit
  <1>1. LoopInv => AtMostOneLateUnit
    BY DEF LoopInv, TypeOK, LateWhere, AtMostOneLateUnit
  <1>2. QED
    BY <1>1, LoopInvariant, PTL

(* shutdown does not cover up a failed start or a failed unit.              *)
THEOREM FailureTheorem == Spec => []FailureIsNotForgotten
  <1>1. LoopInv => FailureIsNotForgotten
    BY DEF LoopInv, TypeOK, StartedWhere, RaisedWhere, Broke, InEvent,
           FailureIsNotForgotten, ServiceState
  <1>2. QED
    BY <1>1, LoopInvariant, PTL

(* Exit code 0 means that the start, every unit and the close hook          *)
(* succeeded.                                                               *)
THEOREM CleanExitTheorem == Spec => []CleanExitIsClean
  <1>1. LoopInv => CleanExitIsClean
    BY DEF LoopInv, ExitWhere
  <1>2. QED
    BY <1>1, LoopInvariant, PTL
=============================================================================
