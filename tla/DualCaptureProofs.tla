------------------------- MODULE DualCaptureProofs -------------------------
(***************************************************************************)
(* Proofs about DualCapture, for operators and campaigns alike and for     *)
(* executions of any length: any number of process exits and invocations.  *)
(*                                                                         *)
(* The argument: a batch is executed at most once, for its row is          *)
(* registered before the threads start and a registered batch is never     *)
(* executed.  So a thread that has not dispatched yet has not captured;    *)
(* once the executor has joined, whatever still runs is cancelled and does *)
(* not pass the gate any more; and a child that still waits for its        *)
(* release is in the registry which the finally clause works off before    *)
(* the lock is released.                                                   *)
(***************************************************************************)
EXTENDS DualCapture, TLAPS

\* The program counters of execute while threads may pass the gate, and all at
\* which the invocation has executed the batch itself.
Early == {"wait", "admit", "cancel", "classify", "open", "join"}
Executing == Early \cup {"cleanup", "record", "executed", "abort", "aborting", "unwinding", "unlock"}

\* The thread of an attempt has not sent RELEASE yet.
Before == {"begun", "starting", "waiting", "dispatching"}

\* The child waits for a RELEASE that its thread is about to send.
AboutToCapture(a) == thread[a] = "dispatching" /\ child[a] = "ready"

\* One attempt: what was captured and returned, and how far thread and child are.
RunnerInv ==
    \A a \in Attempts :
        /\ captures[a] <= 1
        /\ thread[a] \in Before => captures[a] = 0
        /\ child[a] = "capturing" => captures[a] = 1
        /\ yields[a] # "none" => captures[a] = 1 /\ child[a] # "capturing"
        /\ got[a] \in Kinds => yields[a] = got[a]
        /\ pipe[a] \in Kinds => yields[a] = pipe[a]
        /\ thread[a] = "begun" => ~ChildAlive(a) /\ pipe[a] = "none"
        /\ pipe[a] = "ready" => child[a] # "preflight"
        /\ thread[a] \in {"waiting", "dispatching"} => child[a] # "preflight"

\* The invocation: what it holds, and that it executes only what it registered.
InvocationInv ==
    /\ lock = "held" <=> op.pc # "idle"
    /\ op.pc \in {"idle", "locked"} =>
         ~op.fresh /\ op.turn = 1 /\ op.refused = {} /\ op.late = {} /\ op.leftover = {}
    /\ op.pc \in Executing => op.fresh
    /\ op.fresh => registered
    /\ ~registered =>
         /\ ~release
         /\ \A a \in Attempts : /\ thread[a] = "none" /\ child[a] = "none" /\ pipe[a] = "none"
                                /\ captures[a] = 0 /\ outcome[a] = "none"

\* Once the executor has joined, what still runs is cancelled; the attempts that
\* are neither late nor left over have ended.
JoinInv ==
    \A a \in Attempts :
        /\ op.pc \notin Early /\ Alive(a) => cancelled[a]
        /\ op.pc \in {"cleanup", "record"} /\ a \notin op.late => ~Alive(a)
        /\ op.pc \in {"record", "executed"} /\ a \notin op.leftover => ~Alive(a)
        /\ op.pc \in {"abort", "aborting"} => ~Alive(a)
        /\ op.pc = "publish" /\ op.fresh => ~Alive(a) /\ ~ChildAlive(a)

\* The registry names every child of this execution that lives, and the finally
\* clause leaves none behind that could still be released.
HandleInv ==
    \A a \in Attempts :
        /\ op.fresh /\ ChildAlive(a) => a \in handles
        /\ op.pc = "aborting" /\ ~op.resisted /\ ChildAlive(a) => a \in op.todo
        /\ op.pc = "unwinding" /\ AboutToCapture(a) => a \in op.todo
        /\ ~op.fresh \/ op.pc = "unlock" => ~AboutToCapture(a)

\* Both attempts are ready and none is refused.
Cleared == op.refused = {} /\ \A b \in Attempts : ready[b]
AllCancelled == \A b \in Attempts : cancelled[b]

\* The coordinated start: the gate opens when all is clear, or nobody can pass it.
GateInv ==
    mode = "coordinated" =>
        /\ op.pc \in Early \ {"join"} => ~release
        /\ ~release => \A a \in Attempts : thread[a] # "dispatching"
        /\ op.pc = "wait" => op.refused = {}
        /\ op.pc = "admit" => Cleared
        /\ op.pc \in {"cancel", "classify"} /\ op.turn = 2 => cancelled[1]
        /\ op.pc = "classify" => cancelled[op.turn]
        /\ op.pc = "open" \/ release => AllCancelled \/ Cleared
        /\ (\E a \in Attempts : thread[a] = "dispatching") => Cleared

\* The outcomes: none before its turn, and a success is what the child returned.
OutcomeInv ==
    /\ recording = [a \in Attempts |-> recording[a]]
    /\ op.pc \in Early \cup {"cleanup"} \/ (op.pc = "record" /\ op.turn = 1) =>
         \A a \in Attempts : outcome[a] = "none"
    /\ op.pc = "record" => outcome[2] = "none"
    /\ \A a \in Attempts : outcome[a] = "succeeded" =>
         yields[a] \in {"own", "shared"} /\ recording[a] = RecordingOf(a, yields[a])
    /\ op.pc = "record" /\ recording[1] = <<"shared">> => ~(ValidResult(2) /\ got[2] = "shared")
    /\ recording[1] = recording[2] => recording[1] = NoRecording

Inv == /\ TypeOK /\ RunnerInv /\ InvocationInv /\ JoinInv /\ HandleInv /\ GateInv
       /\ OutcomeInv

-----------------------------------------------------------------------------
(* Threads and children.                                                   *)

\* What a step of the runner or the child of a leaves alone.
RunnerFrame(a) ==
    /\ UNCHANGED <<mode, lock, batch, op, release, cancelled, interrupted>>
    /\ \A b \in Attempts \ {a} :
         /\ thread'[b] = thread[b] /\ got'[b] = got[b] /\ child'[b] = child[b]
         /\ pipe'[b] = pipe[b] /\ captures'[b] = captures[b] /\ yields'[b] = yields[b]
         /\ ready'[b] = ready[b] /\ (b \in handles' <=> b \in handles)

\* What it may do to a: nothing is revived, a child of this execution is
\* registered, the gate is passed only when it is open to the attempt, and what
\* was returned stays.
RunnerStep(a) ==
    /\ RunnerFrame(a)
    /\ Alive(a) \/ ChildAlive(a)
    /\ Alive(a)' => Alive(a)
    /\ ChildAlive(a)' => ChildAlive(a) \/ Alive(a)
    /\ ChildAlive(a)' => (ChildAlive(a) /\ handles' = handles) \/ a \in handles'
    /\ AboutToCapture(a)' => AboutToCapture(a) \/ (Alive(a) /\ ~cancelled[a])
    /\ thread'[a] = "dispatching" => thread[a] = "dispatching" \/ (release /\ ~cancelled[a])
    /\ yields[a] # "none" => yields'[a] = yields[a]
    /\ Alive(a) \/ (got'[a] = got[a] /\ ready'[a] = ready[a])
    /\ ready[a] => ready'[a]

\* Such a step keeps what the invocation relies on.
LEMMA RunnerStepKeeps ==
    ASSUME Inv, TypeOK', RunnerInv', NEW a \in Attempts, RunnerStep(a)
    PROVE  Inv'
  <1> USE DEF Inv, RunnerStep, RunnerFrame, batch, Attempts
  <1>1. registered
    BY DEF InvocationInv, Alive, ChildAlive
  <1>2. InvocationInv'
    BY <1>1 DEF InvocationInv, batch
  <1>3. \A b \in Attempts : /\ Alive(b)' => Alive(b)
                            /\ ChildAlive(b)' => ChildAlive(b) \/ Alive(b)
    BY DEF Alive, ChildAlive
  <1>4. JoinInv'
    BY <1>3 DEF JoinInv
  <1>5. HandleInv'
    <2> SUFFICES ASSUME NEW b \in Attempts
                 PROVE  /\ op.fresh /\ ChildAlive(b)' => b \in handles'
                        /\ op.pc = "aborting" /\ ~op.resisted /\ ChildAlive(b)' => b \in op.todo
                        /\ op.pc = "unwinding" /\ AboutToCapture(b)' => b \in op.todo
                        /\ ~op.fresh \/ op.pc = "unlock" => ~AboutToCapture(b)'
      BY DEF HandleInv
    <2>1. op.fresh /\ ChildAlive(b)' => b \in handles'
      BY DEF HandleInv, ChildAlive
    <2>2. op.pc = "aborting" /\ ~op.resisted /\ ChildAlive(b)' => b \in op.todo
      BY <1>3 DEF HandleInv, JoinInv
    <2>3. op.pc \notin Early \/ ~op.fresh => (AboutToCapture(b)' => AboutToCapture(b))
      BY DEF JoinInv, InvocationInv, Executing, AboutToCapture
    <2> QED BY <2>1, <2>2, <2>3 DEF HandleInv, Early
  <1>6. GateInv'
    <2>1. \A b \in Attempts : ready[b] => ready'[b]
      OBVIOUS
    <2>2. (Cleared => Cleared') /\ (AllCancelled => AllCancelled')
      BY <2>1 DEF Cleared, AllCancelled
    <2>3. /\ UNCHANGED <<op, release, cancelled, mode>> /\ GateInv
          /\ \A b \in Attempts : thread'[b] = "dispatching" =>
               thread[b] = "dispatching" \/ (release /\ ~cancelled[a])
      OBVIOUS
    <2> HIDE DEF Inv, RunnerStep, RunnerFrame, Attempts
    <2> SUFFICES ASSUME mode = "coordinated" PROVE GateInv'
      BY <2>3 DEF GateInv
    <2>4. ~cancelled[a] => ~AllCancelled
      BY Zenon DEF AllCancelled
    <2>5. /\ ~release => \A b \in Attempts : thread[b] # "dispatching"
          /\ release => AllCancelled \/ Cleared
          /\ (\E b \in Attempts : thread[b] = "dispatching") => Cleared
      BY <2>3, Zenon DEF GateInv
    <2>6. \A b \in Attempts : thread'[b] = "dispatching" => release /\ Cleared'
      BY <2>2, <2>3, <2>4, <2>5, Zenon
    <2>7. /\ op.pc = "admit" => Cleared'
          /\ op.pc = "open" \/ release => AllCancelled' \/ Cleared'
      BY <2>2, <2>3, Zenon DEF GateInv
    <2> QED BY <2>3, <2>6, <2>7 DEF GateInv
  <1>7. OutcomeInv'
    <2>1. \A b \in Attempts : yields[b] # "none" => yields'[b] = yields[b]
      OBVIOUS
    <2>2. op.pc = "record" /\ ValidResult(2)' /\ got'[2] = "shared" => ValidResult(2) /\ got[2] = "shared"
      BY DEF ValidResult, JoinInv, Alive
    <2> QED BY <2>1, <2>2 DEF OutcomeInv
  <1> QED BY <1>2, <1>4, <1>5, <1>6, <1>7

\* Every step of a runner thread or of its child keeps the invariant
\* (SpawnIsolatedAttemptRunner.run, _child_main).
LEMMA RunnerKeeps ==
    ASSUME Inv, NEW a \in Attempts, Runner(a) \/ Child(a)
    PROVE  Inv'
  <1> USE DEF Inv, control, runners, batch
  <1> SUFFICES TypeOK' /\ RunnerInv' /\ RunnerStep(a)
    BY RunnerStepKeeps
  <1>0. /\ thread \in [Attempts -> ThreadState] /\ child \in [Attempts -> ChildState]
        /\ a \in {1, 2} /\ Attempts = {1, 2}
    BY DEF TypeOK, Attempts
  \* supervisor.start: the first child of the attempt.
  <1>1. CASE StartChild(a)
    <2>1. TypeOK'
      BY <1>1 DEF StartChild, TypeOK, ThreadState, ChildState, Kinds
    <2>2. RunnerInv'
      BY <1>0, <1>1 DEF StartChild, TypeOK, RunnerInv, Before, ChildAlive, Kinds
    <2>3. RunnerStep(a)
      BY <1>0, <1>1 DEF StartChild, TypeOK, RunnerInv, RunnerStep, RunnerFrame, Alive, ChildAlive, AboutToCapture
    <2> QED BY <2>1, <2>2, <2>3
  \* The process cannot be spawned.
  <1>2. CASE StartError(a)
    <2>1. TypeOK'
      BY <1>2 DEF StartError, TypeOK, ThreadState, ChildState, Kinds
    <2>2. RunnerInv'
      BY <1>0, <1>2 DEF StartError, TypeOK, RunnerInv, Before, ChildAlive, Kinds
    <2>3. RunnerStep(a)
      BY <1>0, <1>2 DEF StartError, TypeOK, RunnerInv, RunnerStep, RunnerFrame, Alive, ChildAlive, AboutToCapture
    <2> QED BY <2>1, <2>2, <2>3
  \* READY is read.
  <1>3. CASE ReceiveReady(a)
    <2>1. TypeOK'
      BY <1>3 DEF ReceiveReady, TypeOK, ThreadState, ChildState, Kinds
    <2>2. RunnerInv'
      BY <1>0, <1>3 DEF ReceiveReady, TypeOK, RunnerInv, Before, ChildAlive, Kinds
    <2>3. RunnerStep(a)
      BY <1>0, <1>3 DEF ReceiveReady, TypeOK, RunnerInv, RunnerStep, RunnerFrame, Alive, ChildAlive, AboutToCapture
    <2> QED BY <2>1, <2>2, <2>3
  \* _receive fails.
  <1>4. CASE ReceiveFailed(a)
    <2>1. TypeOK'
      BY <1>4 DEF ReceiveFailed, Unwind, TypeOK, ThreadState, ChildState, Kinds
    <2>2. RunnerInv'
      BY <1>0, <1>4 DEF ReceiveFailed, Unwind, TypeOK, RunnerInv, Before, ChildAlive, Kinds
    <2>3. RunnerStep(a)
      BY <1>0, <1>4 DEF ReceiveFailed, Unwind, TypeOK, RunnerInv, RunnerStep, RunnerFrame, Alive, ChildAlive, AboutToCapture
    <2> QED BY <2>1, <2>2, <2>3
  \* The gate is open and the attempt is not cancelled.
  <1>5. CASE PassGate(a)
    <2>1. TypeOK'
      BY <1>5 DEF PassGate, Released, TypeOK, ThreadState, ChildState, Kinds
    <2>2. RunnerInv'
      BY <1>0, <1>5 DEF PassGate, Released, TypeOK, RunnerInv, Before, ChildAlive, Kinds
    <2>3. RunnerStep(a)
      BY <1>0, <1>5 DEF PassGate, Released, TypeOK, RunnerInv, RunnerStep, RunnerFrame, Alive, ChildAlive, AboutToCapture
    <2> QED BY <2>1, <2>2, <2>3
  \* Cancelled at the gate.
  <1>6. CASE GateCancelled(a)
    <2>1. TypeOK'
      BY <1>6 DEF GateCancelled, Unwind, TypeOK, ThreadState, ChildState, Kinds
    <2>2. RunnerInv'
      BY <1>0, <1>6 DEF GateCancelled, Unwind, TypeOK, RunnerInv, Before, ChildAlive, Kinds
    <2>3. RunnerStep(a)
      BY <1>0, <1>6 DEF GateCancelled, Unwind, TypeOK, RunnerInv, RunnerStep, RunnerFrame, Alive, ChildAlive, AboutToCapture
    <2> QED BY <2>1, <2>2, <2>3
  \* RELEASE is sent: the only step that captures, and it had not captured.
  <1>7. CASE Dispatch(a)
    <2>1. CASE child[a] = "ready"
      <3>1. /\ thread' = [thread EXCEPT ![a] = "receiving"] /\ child' = [child EXCEPT ![a] = "capturing"]
            /\ captures' = [captures EXCEPT ![a] = captures[a] + 1]
            /\ UNCHANGED <<mode, lock, batch, op, control, got, pipe, handles, yields, interrupted>>
        BY <1>7, <2>1 DEF Dispatch
      <3>2. TypeOK'
        <4>1. captures[a] + 1 \in Nat /\ captures \in [Attempts -> Nat]
          BY DEF TypeOK
        <4>2. captures' \in [Attempts -> Nat]
          BY <3>1, <4>1
        <4>3. thread' \in [Attempts -> ThreadState] /\ child' \in [Attempts -> ChildState]
          BY <3>1 DEF TypeOK, ThreadState, ChildState
        <4> QED BY <3>1, <4>2, <4>3 DEF TypeOK
      <3>3. RunnerInv'
        BY <1>0, <1>7, <2>1, <3>1 DEF Dispatch, TypeOK, RunnerInv, Before, ChildAlive, Kinds
      <3>4. RunnerStep(a)
        BY <1>0, <1>7, <2>1, <3>1 DEF Dispatch, TypeOK, RunnerStep, RunnerFrame, Alive, ChildAlive,
                                      AboutToCapture, RunnerInv, Before
      <3> QED BY <3>2, <3>3, <3>4
    <2>2. CASE child[a] # "ready"
      <3>1. /\ thread' = [thread EXCEPT ![a] = "cleanup"] /\ got' = [got EXCEPT ![a] = "failure"]
            /\ UNCHANGED <<mode, lock, batch, op, control, child, pipe, handles, captures, yields,
                           interrupted>>
        BY <1>7, <2>2 DEF Dispatch, Unwind
      <3>2. TypeOK'
        BY <3>1 DEF TypeOK, ThreadState
      <3>3. RunnerInv'
        BY <1>0, <3>1 DEF TypeOK, RunnerInv, Before, ChildAlive, Kinds
      <3>4. RunnerStep(a)
        BY <1>0, <1>7, <3>1 DEF Dispatch, TypeOK, RunnerStep, RunnerFrame, Alive, ChildAlive,
                                AboutToCapture
      <3> QED BY <3>2, <3>3, <3>4
    <2> QED BY <2>1, <2>2
  \* The result is read.
  <1>8. CASE ReceiveResult(a)
    <2>1. TypeOK'
      BY <1>8 DEF ReceiveResult, TypeOK, ThreadState, ChildState, Kinds
    <2>2. RunnerInv'
      BY <1>0, <1>8 DEF ReceiveResult, TypeOK, RunnerInv, Before, ChildAlive, Kinds
    <2>3. RunnerStep(a)
      BY <1>0, <1>8 DEF ReceiveResult, TypeOK, RunnerInv, RunnerStep, RunnerFrame, Alive, ChildAlive, AboutToCapture
    <2> QED BY <2>1, <2>2, <2>3
  \* The finally clause of the runner.
  <1>9. CASE Cleanup(a)
    <2>1. TypeOK'
      BY <1>9 DEF Cleanup, TypeOK, ThreadState, ChildState, Kinds
    <2>2. RunnerInv'
      BY <1>0, <1>9 DEF Cleanup, TypeOK, RunnerInv, Before, ChildAlive, Kinds
    <2>3. RunnerStep(a)
      BY <1>0, <1>9 DEF Cleanup, TypeOK, RunnerInv, RunnerStep, RunnerFrame, Alive, ChildAlive, AboutToCapture
    <2> QED BY <2>1, <2>2, <2>3
  \* Cleanup raises.
  <1>10. CASE CleanupResisted(a)
    <2>1. TypeOK'
      BY <1>10 DEF CleanupResisted, TypeOK, ThreadState, ChildState, Kinds
    <2>2. RunnerInv'
      BY <1>0, <1>10 DEF CleanupResisted, TypeOK, RunnerInv, Before, ChildAlive, Kinds
    <2>3. RunnerStep(a)
      BY <1>0, <1>10 DEF CleanupResisted, TypeOK, RunnerInv, RunnerStep, RunnerFrame, Alive, ChildAlive, AboutToCapture
    <2> QED BY <2>1, <2>2, <2>3
  \* The child's preflight.
  <1>11. CASE ChildPreflight(a)
    <2>1. TypeOK'
      BY <1>11 DEF ChildPreflight, TypeOK, ThreadState, ChildState, Kinds
    <2>2. RunnerInv'
      BY <1>0, <1>11 DEF ChildPreflight, TypeOK, RunnerInv, Before, ChildAlive, Kinds
    <2>3. RunnerStep(a)
      BY <1>0, <1>11 DEF ChildPreflight, TypeOK, RunnerInv, RunnerStep, RunnerFrame, Alive, ChildAlive, AboutToCapture
    <2> QED BY <2>1, <2>2, <2>3
  \* The child captures and tells.
  <1>12. CASE ChildCapture(a)
    <2>1. TypeOK'
      BY <1>12 DEF ChildCapture, TypeOK, ThreadState, ChildState, Kinds
    <2>2. RunnerInv'
      BY <1>0, <1>12 DEF ChildCapture, TypeOK, RunnerInv, Before, ChildAlive, Kinds
    <2>3. RunnerStep(a)
      BY <1>0, <1>12 DEF ChildCapture, TypeOK, RunnerInv, RunnerStep, RunnerFrame, Alive, ChildAlive, AboutToCapture
    <2> QED BY <2>1, <2>2, <2>3
  \* The child exits.
  <1>13. CASE ChildEnds(a)
    <2>1. TypeOK'
      BY <1>13 DEF ChildEnds, TypeOK, ThreadState, ChildState, Kinds
    <2>2. RunnerInv'
      BY <1>0, <1>13 DEF ChildEnds, TypeOK, RunnerInv, Before, ChildAlive, Kinds
    <2>3. RunnerStep(a)
      BY <1>0, <1>13 DEF ChildEnds, TypeOK, RunnerInv, RunnerStep, RunnerFrame, Alive, ChildAlive, AboutToCapture
    <2> QED BY <2>1, <2>2, <2>3
  <1> QED BY <1>1, <1>2, <1>3, <1>4, <1>5, <1>6, <1>7, <1>8, <1>9, <1>10, <1>11, <1>12, <1>13 DEF Runner, Child

-----------------------------------------------------------------------------
(* The executor, up to the join.                                           *)

\* The executor moves on before its join: only what the gate relies on can break.
LEMMA EarlyMoveKeeps ==
    ASSUME Inv, op.pc \in Early, op' \in Op, op'.pc \in Early, op'.fresh = op.fresh,
           UNCHANGED <<mode, lock, batch, ready, runners, interrupted>>,
           release' \in BOOLEAN, cancelled' \in [Attempts -> BOOLEAN], GateInv'
    PROVE  Inv'
  <1> USE DEF Inv, batch, runners
  <1>1. TypeOK'
    BY DEF TypeOK
  <1>2. RunnerInv'
    BY DEF RunnerInv, ChildAlive
  <1>3. InvocationInv'
    BY DEF InvocationInv, Early, Executing
  <1>4. JoinInv' /\ HandleInv'
    BY DEF JoinInv, HandleInv, InvocationInv, Early, Executing, ChildAlive, AboutToCapture
  <1>5. OutcomeInv'
    BY DEF OutcomeInv, Early
  <1> QED BY <1>1, <1>2, <1>3, <1>4, <1>5

\* The loops over both workers: the second follows the first, then the loop is done.
LEMMA NextTurnMoves ==
    ASSUME op \in Op, NEW pc \in OpState, NEW done \in OpState, NEW refused \in SUBSET Attempts,
           NextTurn(pc, done, refused)
    PROVE  /\ op' \in Op /\ op'.fresh = op.fresh /\ op'.refused = refused
           /\ op'.late = op.late /\ op'.leftover = op.leftover
           /\ op'.turn = IF op.turn = 1 THEN 2 ELSE 1
           /\ op'.pc = IF op.turn = 1 THEN pc ELSE done
  <1> USE DEF Attempts
  <1>1. CASE op.turn = 1
    <2>1. op' = [op EXCEPT !.turn = 2, !.pc = pc, !.refused = refused]
      BY <1>1 DEF NextTurn
    <2> QED BY <1>1, <2>1 DEF Op
  <1>2. CASE op.turn # 1
    <2> DEFINE o == [op EXCEPT !.turn = 1, !.pc = done]
    <2>1. op' = [o EXCEPT !.refused = refused, !.startup = "none"]
      BY <1>2 DEF NextTurn
    <2>2. /\ o \in Op /\ o.turn = 1 /\ o.pc = done /\ o.fresh = op.fresh
          /\ o.late = op.late /\ o.leftover = op.leftover
      BY DEF Op
    <2> HIDE DEF o
    <2>3. op' \in Op
      BY <2>1, <2>2 DEF Op
    <2>4. /\ op'.turn = o.turn /\ op'.pc = o.pc /\ op'.fresh = o.fresh /\ op'.refused = refused
          /\ op'.late = o.late /\ op'.leftover = o.leftover
      BY <2>1, <2>2 DEF Op
    <2> QED BY <1>2, <2>2, <2>3, <2>4
  <1> QED BY <1>1, <1>2

\* _wait_for_start returns: all ready, one died, or a deadline passed.
LEMMA WaitKeeps ==
    ASSUME Inv, WaitReady \/ WaitDied \/ WaitExpired
    PROVE  Inv'
  <1> USE DEF control
  <1>1. /\ op.pc = "wait" /\ op \in Op /\ UNCHANGED <<mode, lock, batch, control, runners, interrupted>>
        /\ mode \in {"independent", "coordinated"} /\ GateInv
        /\ release \in BOOLEAN /\ cancelled \in [Attempts -> BOOLEAN]
    BY ModesAssumption, Zenon DEF Inv, TypeOK, WaitReady, WaitDied, WaitExpired
  <1>2. PICK how \in {"none", "died", "timeout", "slot"}, pc \in Early :
          /\ Started(how, pc)
          /\ mode = "coordinated" => \/ pc = "admit" /\ \A a \in Attempts : ready[a]
                                     \/ pc = "cancel"
    <2>1. CASE WaitReady
      BY <1>1, <2>1, Zenon DEF WaitReady, Early
    <2>2. CASE WaitDied \/ WaitExpired
      <3>1. FirstJudgement \in Early /\ (mode = "coordinated" => FirstJudgement = "cancel")
        BY <1>1 DEF FirstJudgement, Early
      <3> QED BY <2>2, <3>1, Zenon DEF WaitDied, WaitExpired
    <2> QED BY <2>1, <2>2
  <1>3. /\ op' \in Op /\ op'.pc = pc /\ op'.fresh = op.fresh /\ op'.turn = 1
        /\ op'.refused = op.refused
    BY <1>1, <1>2 DEF Started, Op, OpState, Early, Attempts
  <1>4. GateInv'
    <2> SUFFICES ASSUME mode = "coordinated" PROVE GateInv'
      BY <1>1 DEF GateInv
    <2>1. /\ op.refused = {} /\ ~release
          /\ \A a \in Attempts : thread[a] # "dispatching"
      BY <1>1 DEF GateInv, Early
    <2>2. pc = "admit" => Cleared'
      BY <1>1, <1>2, <1>3, <2>1 DEF Cleared
    <2>3. UNCHANGED <<thread, release>>
      BY <1>1 DEF runners
    <2> QED BY <1>2, <1>3, <2>1, <2>2, <2>3 DEF GateInv, Early
  <1>5. UNCHANGED <<ready, release, cancelled>>
    BY <1>1
  <1> QED BY <1>1, <1>2, <1>3, <1>4, <1>5, EarlyMoveKeeps DEF Early

\* The release gate admits or refuses, and the start gate is opened.
LEMMA ReleaseKeeps ==
    ASSUME Inv, AdmitRelease \/ RefuseRelease \/ OpenGate
    PROVE  Inv'
  <1>1. /\ op.pc \in {"admit", "open"} /\ op \in Op
        /\ UNCHANGED <<mode, lock, batch, ready, runners, interrupted>> /\ GateInv
        /\ release \in BOOLEAN /\ cancelled \in [Attempts -> BOOLEAN]
    BY DEF Inv, TypeOK, AdmitRelease, RefuseRelease, OpenGate, control
  <1>2. CASE AdmitRelease
    <2>1. /\ op.pc = "admit" /\ UNCHANGED <<release, cancelled>>
          /\ op' \in Op /\ op'.pc = "open" /\ op'.fresh = op.fresh /\ op'.refused = op.refused
      BY <1>1, <1>2 DEF AdmitRelease, Goto, control, Op, OpState
    <2>2. GateInv'
      BY <1>1, <2>1 DEF GateInv, Cleared, AllCancelled, Early, runners
    <2> QED BY <1>1, <2>1, <2>2, EarlyMoveKeeps DEF Early
  <1>3. CASE RefuseRelease
    <2>1. /\ op.pc = "admit" /\ UNCHANGED release /\ cancelled' = [a \in Attempts |-> TRUE]
          /\ op' \in Op /\ op'.pc = "open" /\ op'.fresh = op.fresh
      BY <1>1, <1>3 DEF RefuseRelease, Op, OpState
    <2>2. AllCancelled'
      BY <2>1 DEF AllCancelled
    <2>3. GateInv'
      BY <1>1, <2>1, <2>2 DEF GateInv, Early, runners
    <2> QED BY <1>1, <2>1, <2>2, <2>3, EarlyMoveKeeps DEF Early
  <1>4. CASE OpenGate
    <2>1. /\ op.pc = "open" /\ release' = TRUE /\ UNCHANGED cancelled
          /\ op' \in Op /\ op'.pc = "join" /\ op'.fresh = op.fresh /\ op'.refused = op.refused
      BY <1>1, <1>4 DEF OpenGate, Goto, Op, OpState
    <2>2. GateInv'
      BY <1>1, <2>1 DEF GateInv, Cleared, AllCancelled, Early, runners
    <2> QED BY <1>1, <2>1, <2>2, EarlyMoveKeeps DEF Early
  <1> QED BY <1>2, <1>3, <1>4

\* The loop of a coordinated start that has failed: each worker is cancelled
\* before it is looked at.
LEMMA JudgeCoordinatedKeeps ==
    ASSUME Inv, CancelCoordinated \/ ClassifyCoordinated
    PROVE  Inv'
  <1>1. /\ op.pc \in {"cancel", "classify"} /\ op \in Op /\ mode = "coordinated" /\ op.turn \in {1, 2}
        /\ UNCHANGED <<mode, lock, batch, release, ready, runners, interrupted>> /\ GateInv
        /\ release \in BOOLEAN /\ cancelled \in [Attempts -> BOOLEAN]
    BY DEF Inv, TypeOK, CancelCoordinated, ClassifyCoordinated, control, Op, Attempts
  <1>2. CASE CancelCoordinated
    <2>1. /\ op.pc = "cancel" /\ cancelled' = [cancelled EXCEPT ![op.turn] = TRUE]
          /\ op' \in Op /\ op'.pc = "classify" /\ op'.fresh = op.fresh /\ op'.turn = op.turn
      BY <1>1, <1>2 DEF CancelCoordinated, Goto, Op, OpState
    <2>2. cancelled' \in [Attempts -> BOOLEAN] /\ cancelled'[op.turn]
          /\ (cancelled[1] => cancelled'[1])
      BY <1>1, <2>1 DEF Attempts
    <2>3. GateInv'
      BY <1>1, <2>1, <2>2 DEF GateInv, Early, runners
    <2> QED BY <1>1, <2>1, <2>2, <2>3, EarlyMoveKeeps DEF Early
  <1>3. CASE ClassifyCoordinated
    <2>1. PICK refused \in SUBSET Attempts : NextTurn("cancel", "open", refused)
      <3> DEFINE a == op.turn
                 refuse == op.startup = "slot" \/ ready[a] \/ (Alive(a) /\ op.startup = "timeout")
                 new == IF refuse THEN op.refused \cup {a} ELSE op.refused
      <3>1. new \in SUBSET Attempts
        BY <1>1 DEF Op
      <3>2. NextTurn("cancel", "open", new)
        BY <1>3 DEF ClassifyCoordinated
      <3> QED BY <3>1, <3>2
    <2>2. op.pc = "classify" /\ UNCHANGED cancelled
      BY <1>3 DEF ClassifyCoordinated, control
    <2>3. CASE op.turn = 1
      <3>1. op' \in Op /\ op'.pc = "cancel" /\ op'.fresh = op.fresh /\ op'.turn = 2
        BY <1>1, <2>1, <2>3, NextTurnMoves DEF OpState
      <3>2. GateInv'
        BY <1>1, <2>2, <2>3, <3>1 DEF GateInv, Early, runners
      <3> QED BY <1>1, <2>2, <3>1, <3>2, EarlyMoveKeeps DEF Early
    <2>4. CASE op.turn = 2
      <3>1. op' \in Op /\ op'.pc = "open" /\ op'.fresh = op.fresh
        BY <1>1, <2>1, <2>4, NextTurnMoves DEF OpState
      <3>2. AllCancelled'
        <4>1. cancelled[1] /\ cancelled[2]
          BY <1>1, <2>2, <2>4 DEF GateInv
        <4>2. \A b \in Attempts : b = 1 \/ b = 2
          BY DEF Attempts
        <4>3. AllCancelled
          BY <4>1, <4>2, Zenon DEF AllCancelled
        <4> QED BY <2>2, <4>3 DEF AllCancelled
      <3>3. GateInv'
        BY <1>1, <2>2, <3>1, <3>2 DEF GateInv, Early, runners
      <3> QED BY <1>1, <2>2, <3>1, <3>3, EarlyMoveKeeps DEF Early
    <2> QED BY <1>1, <2>3, <2>4
  <1> QED BY <1>2, <1>3

\* The loop of an independent start; there is no common gate.
LEMMA JudgeIndependentKeeps ==
    ASSUME Inv, ClassifyIndependent \/ CancelIndependent
    PROVE  Inv'
  <1>1. /\ op.pc \in {"cancel", "classify"} /\ op \in Op /\ mode = "independent" /\ op.turn \in {1, 2}
        /\ UNCHANGED <<mode, lock, batch, release, ready, runners, interrupted>>
        /\ release \in BOOLEAN /\ cancelled \in [Attempts -> BOOLEAN]
    BY DEF Inv, TypeOK, CancelIndependent, ClassifyIndependent, control, Op, Attempts
  <1>2. \/ Goto("cancel")
        \/ NextTurn("classify", "join", op.refused)
        \/ NextTurn("classify", "join", op.refused \cup {op.turn})
    BY Zenon DEF ClassifyIndependent, CancelIndependent
  <1>3. op' \in Op /\ op'.pc \in Early /\ op'.fresh = op.fresh
    <2>1. CASE Goto("cancel")
      BY <1>1, <2>1 DEF Goto, Op, OpState, Early
    <2>2. ASSUME NEW refused \in SUBSET Attempts, NextTurn("classify", "join", refused)
          PROVE  op' \in Op /\ op'.pc \in Early /\ op'.fresh = op.fresh
      BY <1>1, <2>2, NextTurnMoves DEF OpState, Early
    <2>3. op.refused \in SUBSET Attempts /\ op.refused \cup {op.turn} \in SUBSET Attempts
      BY <1>1 DEF Op
    <2> QED BY <1>2, <2>1, <2>2, <2>3
  <1>4. cancelled' \in [Attempts -> BOOLEAN]
    BY <1>1 DEF ClassifyIndependent, CancelIndependent, control
  <1>5. GateInv'
    BY <1>1 DEF GateInv
  <1> QED BY <1>1, <1>3, <1>4, <1>5, EarlyMoveKeeps DEF Early

-----------------------------------------------------------------------------
(* Registration.                                                           *)

\* What may be executed is not registered, and of it there is nothing yet.
LEMMA NothingBeforeRegistration ==
    ASSUME Inv, op.pc = "locked", ~Unsettled, ~(registered /\ Terminal)
    PROVE  /\ ~registered /\ ~release
           /\ \A a \in Attempts : /\ thread[a] = "none" /\ child[a] = "none" /\ pipe[a] = "none"
                                  /\ captures[a] = 0 /\ outcome[a] = "none"
           /\ lock = "held" /\ op \in Op /\ op.turn = 1 /\ op.refused = {} /\ op.late = {}
           /\ op.leftover = {}
  BY DEF Inv, TypeOK, InvocationInv, Unsettled

\* execute registers the batch and starts the threads.
LEMMA ExecuteKeeps ==
    ASSUME Inv, Execute
    PROVE  Inv'
  <1>1. /\ ~registered /\ ~release
        /\ \A a \in Attempts : /\ thread[a] = "none" /\ child[a] = "none" /\ pipe[a] = "none"
                               /\ captures[a] = 0 /\ outcome[a] = "none"
        /\ lock = "held" /\ op \in Op /\ op.turn = 1 /\ op.refused = {} /\ op.late = {}
        /\ op.leftover = {}
    BY NothingBeforeRegistration DEF Execute
  <1>2. /\ registered' = TRUE /\ release' = (mode = "independent")
        /\ thread' = [a \in Attempts |-> "begun"]
        /\ UNCHANGED <<mode, lock, outcome, recording, ready, cancelled, got,
                       child, pipe, handles, captures, yields, interrupted>>
    BY DEF Execute
  <1>3. /\ op' \in Op /\ op'.pc = "wait" /\ op'.fresh /\ op'.turn = 1 /\ op'.refused = {}
    BY <1>1 DEF Execute, Op, OpState
  <1>4. TypeOK'
    BY <1>2, <1>3 DEF Inv, TypeOK, ThreadState
  <1>5. RunnerInv'
    BY <1>1, <1>2 DEF Inv, RunnerInv, ChildAlive
  <1>6. InvocationInv'
    BY <1>1, <1>2, <1>3 DEF InvocationInv
  <1>7. JoinInv' /\ HandleInv'
    BY <1>1, <1>2, <1>3 DEF JoinInv, HandleInv, Early, ChildAlive, AboutToCapture
  <1>8. GateInv'
    BY <1>2, <1>3 DEF GateInv
  <1>9. OutcomeInv'
    BY <1>1, <1>2, <1>3 DEF Inv, OutcomeInv, TypeOK
  <1> QED BY <1>4, <1>5, <1>6, <1>7, <1>8, <1>9 DEF Inv

\* execute after the slot's deadline: two refused attempts and no thread.
LEMMA ExecuteTooLateKeeps ==
    ASSUME Inv, ExecuteTooLate
    PROVE  Inv'
  <1>1. /\ ~registered /\ ~release
        /\ \A a \in Attempts : /\ thread[a] = "none" /\ child[a] = "none" /\ pipe[a] = "none"
                               /\ captures[a] = 0 /\ outcome[a] = "none"
        /\ lock = "held" /\ op \in Op /\ op.turn = 1 /\ op.refused = {} /\ op.late = {}
        /\ op.leftover = {}
    BY NothingBeforeRegistration DEF ExecuteTooLate
  <1>2. /\ registered' = TRUE
        /\ UNCHANGED <<mode, lock, outcome, recording, release, ready, cancelled, thread, got,
                       child, pipe, handles, captures, yields, interrupted>>
    BY DEF ExecuteTooLate, control, runners
  <1>3. /\ op' \in Op /\ op'.pc = "record" /\ op'.fresh /\ op'.turn = 1
        /\ op'.refused = Attempts /\ op'.late = {} /\ op'.leftover = {}
    BY <1>1 DEF ExecuteTooLate, Op, OpState
  <1>4. TypeOK'
    BY <1>2, <1>3 DEF Inv, TypeOK
  <1>5. RunnerInv'
    BY <1>2 DEF Inv, RunnerInv, ChildAlive
  <1>6. InvocationInv'
    BY <1>1, <1>2, <1>3 DEF InvocationInv
  <1>7. JoinInv' /\ HandleInv'
    BY <1>1, <1>2, <1>3 DEF JoinInv, HandleInv, Early, Alive, ChildAlive, AboutToCapture
  <1>8. GateInv'
    BY <1>1, <1>2, <1>3 DEF GateInv, Early
  <1>9. OutcomeInv'
    BY <1>1, <1>2, <1>3 DEF Inv, OutcomeInv, TypeOK, Attempts, ValidResult
  <1> QED BY <1>4, <1>5, <1>6, <1>7, <1>8, <1>9 DEF Inv

-----------------------------------------------------------------------------
(* The rest of the invocation.                                             *)

\* The invocation moves on after the join, or without an execution: what the
\* gate and the outcomes rely on cannot break.
LEMMA LateMoveKeeps ==
    ASSUME Inv, op.pc # "idle", op' \in Op, op'.fresh = op.fresh, op'.refused = op.refused,
           op'.pc \in {"executed", "abort", "aborting", "publish", "finally", "unwinding", "unlock"},
           op'.pc \in Executing => op.fresh,
           UNCHANGED <<mode, lock, batch, control, runners>>, interrupted' \in BOOLEAN,
           JoinInv', HandleInv'
    PROVE  Inv'
  <1> USE DEF Inv, batch, runners, control
  <1>1. TypeOK'
    BY DEF TypeOK
  <1>2. RunnerInv'
    BY DEF RunnerInv, ChildAlive
  <1>3. InvocationInv'
    BY DEF InvocationInv
  <1>4. GateInv'
    BY DEF GateInv, Cleared, AllCancelled, Early
  <1>5. OutcomeInv'
    BY DEF OutcomeInv, Early
  <1> QED BY <1>1, <1>2, <1>3, <1>4, <1>5

\* Nothing is executed: the gate is closed, the batch is terminal, or partial.
LEMMA LockedKeeps ==
    ASSUME Inv, AdmissionBlocked \/ Replay \/ RefusePartial
    PROVE  Inv'
  <1> USE DEF Inv, control, runners
  <1>1. /\ op.pc = "locked" /\ op \in Op /\ ~op.fresh /\ interrupted \in BOOLEAN
        /\ UNCHANGED <<mode, lock, batch, control, runners, interrupted>>
    BY DEF TypeOK, InvocationInv, AdmissionBlocked, Replay, RefusePartial
  <1>2. PICK pc \in {"publish", "finally"} : Goto(pc)
    BY Zenon DEF AdmissionBlocked, Replay, RefusePartial
  <1>3. op' \in Op /\ op'.pc = pc /\ op'.fresh = op.fresh /\ op'.refused = op.refused
    BY <1>1, <1>2 DEF Goto, Op, OpState
  <1>4. JoinInv'
    BY <1>1, <1>3 DEF JoinInv, Alive, Early
  <1>5. HandleInv'
    BY <1>1, <1>3 DEF HandleInv, ChildAlive, AboutToCapture
  <1> QED BY <1>1, <1>3, <1>4, <1>5, LateMoveKeeps DEF Executing, Early

\* The exception of the store leaves execute.
LEMMA StoreErrorKeeps ==
    ASSUME Inv, StoreError
    PROVE  Inv'
  <1> USE DEF Inv, control, runners
  <1>1. /\ op.pc \in {"locked", "record"} /\ op \in Op
        /\ UNCHANGED <<mode, lock, batch, control, runners>> /\ interrupted' \in BOOLEAN
    BY DEF TypeOK, StoreError
  <1>2. op' \in Op /\ op'.pc = "finally" /\ op'.fresh = op.fresh /\ op'.refused = op.refused
    BY <1>1 DEF StoreError, Op, OpState
  <1>3. JoinInv'
    BY <1>1, <1>2 DEF JoinInv, Alive, Early
  <1>4. HandleInv'
    BY <1>1, <1>2 DEF HandleInv, InvocationInv, ChildAlive, AboutToCapture
  <1> QED BY <1>1, <1>2, <1>3, <1>4, LateMoveKeeps DEF Executing, Early

\* The cleanup error, the two abort_all and the publication.
LEMMA TeardownKeeps ==
    ASSUME Inv, Executed \/ AbortAll \/ AbortDone \/ Publish
    PROVE  Inv'
  <1> USE DEF Inv, control, runners
  <1>1. /\ op \in Op /\ op.pc # "idle" /\ op.pc \notin Early /\ interrupted \in BOOLEAN
        /\ UNCHANGED <<mode, lock, batch, control, runners, interrupted>>
    BY DEF TypeOK, Executed, AbortAll, AbortDone, Publish, Early
  <1>2. CASE Executed
    <2>1. op.pc = "executed" /\ op.fresh
      BY <1>2 DEF Executed, InvocationInv, Executing
    <2>2. /\ op' \in Op /\ op'.fresh = op.fresh /\ op'.refused = op.refused
          /\ op'.pc = IF op.leftover = {} THEN "abort" ELSE "finally"
      <3> DEFINE pc == IF op.leftover = {} THEN "abort" ELSE "finally"
      <3>1. op' = [op EXCEPT !.pc = pc, !.late = {}, !.leftover = {}] /\ pc \in OpState
        BY <1>2 DEF Executed, OpState
      <3> HIDE DEF pc
      <3>2. op' \in Op /\ op'.fresh = op.fresh /\ op'.refused = op.refused /\ op'.pc = pc
        BY <1>1, <3>1 DEF Op
      <3> QED BY <3>2 DEF pc
    <2>3. JoinInv'
      BY <1>1, <2>1, <2>2 DEF JoinInv, Alive, Early
    <2>4. HandleInv'
      BY <1>1, <2>1, <2>2 DEF HandleInv, ChildAlive, AboutToCapture
    <2> QED BY <1>1, <2>1, <2>2, <2>3, <2>4, LateMoveKeeps
  <1>3. CASE AbortAll
    <2>1. op.pc \in {"abort", "finally"} /\ op.fresh
      BY <1>3 DEF AbortAll, InvocationInv, Executing
    <2>2. /\ op' \in Op /\ op'.fresh = op.fresh /\ op'.refused = op.refused
          /\ op'.pc = (IF op.pc = "abort" THEN "aborting" ELSE "unwinding")
          /\ op'.todo = handles
      <3> DEFINE pc == IF op.pc = "abort" THEN "aborting" ELSE "unwinding"
      <3>1. op' = [op EXCEPT !.pc = pc, !.todo = handles, !.resisted = FALSE] /\ pc \in OpState
        BY <1>3 DEF AbortAll, OpState
      <3> HIDE DEF pc
      <3>2. /\ op' \in Op /\ op'.fresh = op.fresh /\ op'.refused = op.refused /\ op'.pc = pc
            /\ op'.todo = handles
        BY <1>1, <3>1 DEF Op, TypeOK
      <3> QED BY <3>2 DEF pc
    <2>3. JoinInv'
      BY <1>1, <2>1, <2>2 DEF JoinInv, Alive, Early
    <2>4. HandleInv'
      BY <1>1, <2>1, <2>2 DEF HandleInv, ChildAlive, AboutToCapture
    <2> QED BY <1>1, <2>1, <2>2, <2>3, <2>4, LateMoveKeeps
  <1>4. CASE AbortDone
    <2>1. op.pc \in {"aborting", "unwinding"} /\ op.fresh /\ op.todo = {}
      BY <1>4 DEF AbortDone, InvocationInv, Executing
    <2>2. /\ op' \in Op /\ op'.fresh = op.fresh /\ op'.refused = op.refused
          /\ op'.pc = IF op.pc = "aborting" THEN (IF op.resisted THEN "finally" ELSE "publish")
                                            ELSE "unlock"
      <3> DEFINE pc == IF op.pc = "aborting" THEN AfterAbort ELSE "unlock"
      <3>1. op' = [op EXCEPT !.pc = pc] /\ pc \in OpState
        BY <1>4 DEF AbortDone, Goto, AfterAbort, OpState
      <3> HIDE DEF pc
      <3>2. op' \in Op /\ op'.fresh = op.fresh /\ op'.refused = op.refused /\ op'.pc = pc
        BY <1>1, <3>1 DEF Op
      <3> QED BY <3>2 DEF pc, AfterAbort
    <2>3. JoinInv'
      BY <1>1, <2>1, <2>2 DEF JoinInv, HandleInv, Alive, ChildAlive, Early
    <2>4. HandleInv'
      BY <1>1, <2>1, <2>2 DEF HandleInv, ChildAlive, AboutToCapture
    <2> QED BY <1>1, <2>1, <2>2, <2>3, <2>4, LateMoveKeeps
  <1>5. CASE Publish
    <2>1. /\ op' \in Op /\ op'.fresh = op.fresh /\ op'.refused = op.refused
          /\ op.pc = "publish" /\ op'.pc = "finally"
      BY <1>1, <1>5 DEF Publish, Goto, Op, OpState
    <2>2. JoinInv'
      BY <1>1, <2>1 DEF JoinInv, Alive, Early
    <2>3. HandleInv'
      BY <1>1, <2>1 DEF HandleInv, ChildAlive, AboutToCapture
    <2> QED BY <1>1, <2>1, <2>2, <2>3, LateMoveKeeps DEF Executing, Early
  <1> QED BY <1>2, <1>3, <1>4, <1>5

\* The mode lock is taken and released: an invocation begins with a clean record.
LEMMA LockKeeps ==
    ASSUME Inv, Acquire \/ ReleaseLock
    PROVE  Inv'
  <1> USE DEF Inv, control, runners, batch
  <1>1. UNCHANGED <<mode, batch, control, runners, interrupted>>
    BY DEF Acquire, ReleaseLock
  <1>2. /\ op' \in Op /\ ~op'.fresh /\ op'.turn = 1 /\ op'.refused = {} /\ op'.late = {}
        /\ op'.leftover = {} /\ lock' \in {"free", "held"}
        /\ op'.pc = IF lock' = "held" THEN "locked" ELSE "idle"
    <2>1. IdleOp \in Op /\ [IdleOp EXCEPT !.pc = "locked"] \in Op
      BY DEF IdleOp, Op, OpState, Attempts
    <2>2. CASE Acquire
      BY <2>1, <2>2 DEF Acquire, IdleOp
    <2>3. CASE ReleaseLock
      BY <2>1, <2>3 DEF ReleaseLock, IdleOp
    <2> QED BY <2>2, <2>3
  <1>3. op.pc \notin Early /\ \A a \in Attempts : ~AboutToCapture(a)
    <2>1. \/ op.pc \in {"idle", "unlock"} /\ op.pc \notin Early
          \/ op.pc = "finally" /\ ~op.fresh
      BY DEF Acquire, ReleaseLock, Early
    <2> QED BY <2>1 DEF HandleInv, InvocationInv, Early
  <1>4. TypeOK'
    BY <1>1, <1>2 DEF TypeOK
  <1>5. RunnerInv'
    BY <1>1 DEF RunnerInv, ChildAlive
  <1>6. InvocationInv'
    BY <1>1, <1>2 DEF InvocationInv, Executing, Early
  <1>7. JoinInv'
    BY <1>1, <1>2, <1>3 DEF JoinInv, Alive, Early
  <1>8. HandleInv'
    BY <1>1, <1>2, <1>3 DEF HandleInv, ChildAlive, AboutToCapture
  <1>9. GateInv'
    BY <1>1, <1>2 DEF GateInv, Cleared, AllCancelled, Early
  <1>10. OutcomeInv'
    BY <1>1, <1>2 DEF OutcomeInv, Early
  <1> QED BY <1>4, <1>5, <1>6, <1>7, <1>8, <1>9, <1>10

\* The bounded joins: what has not ended is late, and cancelled.
LEMMA JoinKeeps ==
    ASSUME Inv, JoinFinish \/ JoinCleanup
    PROVE  Inv'
  <1> USE DEF Inv, control, runners, batch
  <1>1. /\ op \in Op /\ op.fresh /\ registered /\ lock = "held" /\ AliveThreads \in SUBSET Attempts
        /\ UNCHANGED <<mode, lock, batch, release, ready, runners, interrupted>>
    BY DEF TypeOK, InvocationInv, Executing, Early, JoinFinish, JoinCleanup, AliveThreads
  <1>2. RunnerInv'
    BY <1>1 DEF RunnerInv, ChildAlive
  <1>3. CASE JoinFinish
    <2>1. /\ op.pc = "join" /\ op' \in Op /\ op'.fresh = op.fresh /\ op'.refused = op.refused
          /\ op'.pc = "cleanup" /\ op'.late = AliveThreads
      BY <1>1, <1>3 DEF JoinFinish, Op, OpState
    <2>2. cancelled' = [a \in Attempts |-> cancelled[a] \/ Alive(a)]
      BY <1>3 DEF JoinFinish
    <2>3. /\ cancelled' \in [Attempts -> BOOLEAN]
          /\ \A a \in Attempts : (cancelled[a] => cancelled'[a]) /\ (Alive(a) => cancelled'[a])
      BY <2>2
    <2>4. TypeOK'
      BY <1>1, <2>1, <2>3 DEF TypeOK
    <2>5. InvocationInv'
      BY <1>1, <2>1 DEF InvocationInv
    <2>6. \A a \in Attempts : (Alive(a)' <=> Alive(a)) /\ (a \notin AliveThreads => ~Alive(a))
      BY <1>1 DEF Alive, AliveThreads
    <2>7. JoinInv'
      BY <2>1, <2>3, <2>6 DEF JoinInv
    <2>8. HandleInv'
      BY <1>1, <2>1 DEF HandleInv, ChildAlive, AboutToCapture
    <2>9. GateInv'
      <3>1. (AllCancelled => AllCancelled') /\ (Cleared => Cleared')
        BY <1>1, <2>1, <2>3 DEF AllCancelled, Cleared
      <3> QED BY <1>1, <2>1, <3>1 DEF GateInv, Early
    <2>10. OutcomeInv'
      BY <1>1, <2>1 DEF OutcomeInv, Early
    <2> QED BY <1>2, <2>4, <2>5, <2>7, <2>8, <2>9, <2>10
  <1>4. CASE JoinCleanup
    <2>1. /\ op.pc = "cleanup" /\ op' \in Op /\ op'.fresh = op.fresh /\ op'.refused = op.refused
          /\ op'.pc = "record" /\ op'.late = op.late /\ op'.leftover = AliveThreads /\ op'.turn = 1
      BY <1>1, <1>4 DEF JoinCleanup, Op, OpState, Attempts
    <2>2. UNCHANGED cancelled
      BY <1>4 DEF JoinCleanup
    <2>3. TypeOK'
      BY <1>1, <2>1, <2>2 DEF TypeOK
    <2>4. InvocationInv'
      BY <1>1, <2>1 DEF InvocationInv
    <2>5. \A a \in Attempts : (Alive(a)' <=> Alive(a)) /\ (a \notin AliveThreads => ~Alive(a))
      BY <1>1 DEF Alive, AliveThreads
    <2>6. JoinInv'
      BY <2>1, <2>2, <2>5 DEF JoinInv, Early
    <2>7. HandleInv'
      BY <1>1, <2>1 DEF HandleInv, ChildAlive, AboutToCapture
    <2>8. GateInv'
      BY <1>1, <2>1, <2>2 DEF GateInv, AllCancelled, Cleared, Early
    <2>9. \A a \in Attempts : outcome[a] = "none" /\ recording[a] = NoRecording
      BY <2>1 DEF OutcomeInv, TypeOK
    <2>10. <<"shared">> # NoRecording
      BY DEF NoRecording
    <2>11. OutcomeInv'
      BY <1>1, <2>1, <2>9, <2>10 DEF OutcomeInv, Attempts
    <2> QED BY <1>2, <2>3, <2>4, <2>6, <2>7, <2>8, <2>11
  <1> QED BY <1>3, <1>4

-----------------------------------------------------------------------------
(* The outcomes.                                                           *)

\* The names of recordings are told apart.
LEMMA RecordingsDiffer ==
    /\ <<"own", 1>> # <<"own", 2>>
    /\ \A a \in Attempts : /\ <<"own", a>> # <<"shared">>
                           /\ <<"own", a>> # NoRecording
    /\ <<"shared">> # NoRecording
  BY DEF NoRecording, Attempts

\* A success names a recording that the other attempt does not.
LEMMA SuccessIsNew ==
    ASSUME Inv, op.pc = "record", NEW a \in Attempts, a = op.turn, Succeeds(a)
    PROVE  /\ outcome[a] = "none" /\ got[a] \in {"own", "shared"} /\ yields[a] = got[a]
           /\ RecordingOf(a, got[a]) \in {<<"own", a>>, <<"shared">>}
           /\ RecordingOf(a, got[a]) # NoRecording
           /\ \A b \in Attempts : recording[b] # RecordingOf(a, got[a])
  <1> USE DEF Inv
  <1>1. got[a] \in {"own", "shared"} /\ yields[a] = got[a] /\ ValidResult(a)
    BY DEF Succeeds, ValidResult, Kinds, RunnerInv
  <1>2. /\ a = 1 => outcome[1] = "none" /\ outcome[2] = "none"
        /\ a = 2 => outcome[2] = "none"
        /\ a \in {1, 2}
    BY DEF OutcomeInv, Attempts
  <1>3. /\ RecordingOf(a, got[a]) = (IF got[a] = "own" THEN <<"own", a>> ELSE <<"shared">>)
        /\ RecordingOf(a, got[a]) # NoRecording
    BY <1>1, RecordingsDiffer DEF RecordingOf
  <1>4. /\ outcome[1] = "none" => recording[1] = NoRecording
        /\ outcome[2] = "none" => recording[2] = NoRecording
        /\ recording[1] \in {<<"own", 1>>, <<"shared">>, NoRecording}
    BY DEF TypeOK, Attempts
  <1>5. CASE a = 1
    BY <1>1, <1>2, <1>3, <1>4, <1>5 DEF Attempts
  <1>6. CASE a = 2
    <2>1. recording[1] = <<"shared">> => got[2] = "own"
      BY <1>1, <1>6 DEF OutcomeInv
    <2>2. recording[1] # RecordingOf(2, got[2])
      BY <1>1, <1>3, <1>4, <1>6, <2>1, RecordingsDiffer DEF Attempts
    <2> QED BY <1>1, <1>2, <1>3, <1>4, <1>6, <2>2 DEF Attempts
  <1> QED BY <1>2, <1>5, <1>6

\* CaptureBatchCoordinator.record.
LEMMA RecordKeeps ==
    ASSUME Inv, Record
    PROVE  Inv'
  <1> USE DEF Inv, control, runners
  <1> DEFINE a == op.turn
             new == IF Succeeds(a) THEN "succeeded" ELSE "failed"
             r == IF Succeeds(a) THEN RecordingOf(a, got[a]) ELSE NoRecording
  <1>1. /\ op.pc = "record" /\ op \in Op /\ a \in {1, 2} /\ op.fresh /\ registered
        /\ lock = "held" /\ UNCHANGED <<mode, lock, registered, control, runners, interrupted>>
        /\ outcome \in [Attempts -> {"none", "succeeded", "failed"}]
        /\ recording = [b \in Attempts |-> recording[b]]
        /\ outcome[a] = "none" /\ recording[a] = NoRecording
    BY DEF TypeOK, Op, Attempts, Record, InvocationInv, Executing, OutcomeInv
  <1>2. /\ op' \in Op /\ op'.fresh = op.fresh /\ op'.refused = op.refused
        /\ op'.late = op.late /\ op'.leftover = op.leftover
        /\ a = 1 => op'.pc = "record" /\ op'.turn = 2
        /\ a = 2 => op'.pc = "executed" /\ op'.turn = 1
    <2>1. NextTurn("record", "executed", op.refused)
      BY DEF Record
    <2>2. op.refused \in SUBSET Attempts
      BY <1>1 DEF Op
    <2>3. "record" \in OpState /\ "executed" \in OpState
      BY DEF OpState
    <2>4. op \in Op /\ op.turn \in {1, 2}
      BY <1>1
    <2>5. /\ op' \in Op /\ op'.fresh = op.fresh /\ op'.refused = op.refused
          /\ op'.late = op.late /\ op'.leftover = op.leftover
          /\ op'.turn = (IF op.turn = 1 THEN 2 ELSE 1)
          /\ op'.pc = (IF op.turn = 1 THEN "record" ELSE "executed")
      BY <2>1, <2>2, <2>3, <2>4, NextTurnMoves
    <2> HIDE DEF Inv, new, r
    <2> QED BY <2>4, <2>5
  <1>3. outcome' = [outcome EXCEPT ![a] = new] /\ recording' = [recording EXCEPT ![a] = r]
    <2>1. outcome' = [outcome EXCEPT ![a] = new]
      BY DEF Record
    <2>2. CASE Succeeds(a)
      BY <2>1, <2>2 DEF Record
    <2>3. CASE ~Succeeds(a)
      <3>1. recording' = recording
        BY <2>3 DEF Record
      <3>2. recording = [recording EXCEPT ![a] = recording[a]]
        BY <1>1
      <3> QED BY <1>1, <2>1, <2>3, <3>1, <3>2
    <2> QED BY <2>2, <2>3
  <1>4. /\ new \in {"succeeded", "failed"}
        /\ new = "succeeded" =>
             /\ yields[a] \in {"own", "shared"} /\ yields[a] = got[a]
             /\ r = RecordingOf(a, yields[a]) /\ r \in {<<"own", a>>, <<"shared">>}
             /\ \A b \in Attempts : recording[b] # r
        /\ new = "failed" => r = NoRecording
        /\ new = "succeeded" /\ r = <<"shared">> => got[a] = "shared" /\ Succeeds(a)
    BY <1>1, SuccessIsNew, RecordingsDiffer DEF Attempts, RecordingOf
  <1> HIDE DEF new, r
  <1>5. /\ outcome'[a] = new /\ recording'[a] = r
        /\ \A b \in Attempts : b # a => outcome'[b] = outcome[b] /\ recording'[b] = recording[b]
        /\ outcome' \in [Attempts -> {"none", "succeeded", "failed"}]
        /\ recording' = [b \in Attempts |-> recording'[b]]
    BY <1>1, <1>3, <1>4 DEF Attempts
  <1>6. TypeOK'
    <2>1. \A b \in Attempts : recording'[b] \in
            IF outcome'[b] = "succeeded" THEN {<<"own", b>>, <<"shared">>} ELSE {NoRecording}
      BY <1>4, <1>5 DEF TypeOK
    <2> QED BY <1>1, <1>2, <1>5, <2>1 DEF TypeOK
  <1>7. RunnerInv'
    BY <1>1 DEF RunnerInv, ChildAlive
  <1>8. InvocationInv'
    BY <1>1, <1>2 DEF InvocationInv
  <1>9. JoinInv'
    BY <1>1, <1>2 DEF JoinInv, Alive, Early
  <1>10. HandleInv'
    BY <1>1, <1>2 DEF HandleInv, ChildAlive, AboutToCapture
  <1>11. GateInv'
    BY <1>1, <1>2 DEF GateInv, Cleared, AllCancelled, Early
  <1>12. OutcomeInv'
    <2>1. \A b \in Attempts : outcome'[b] = "succeeded" =>
            yields[b] \in {"own", "shared"} /\ recording'[b] = RecordingOf(b, yields[b])
      BY <1>4, <1>5 DEF OutcomeInv
    <2>2. op'.pc = "record" => outcome'[2] = "none" /\ op'.turn # 1
      BY <1>1, <1>2, <1>5 DEF OutcomeInv, Attempts
    <2>3. ValidResult(2)' <=> ValidResult(2)
      BY <1>1, <1>2 DEF ValidResult
    <2>4. op'.pc = "record" /\ recording'[1] = <<"shared">> => ~(ValidResult(2) /\ got[2] = "shared")
      <3> SUFFICES ASSUME op'.pc = "record", recording'[1] = <<"shared">>
                   PROVE  ~(ValidResult(2) /\ got[2] = "shared")
        OBVIOUS
      <3>1. a = 1 /\ r = <<"shared">>
        BY <1>1, <1>2, <1>5
      <3>2. got[1] = "shared" /\ Succeeds(1)
        BY <1>4, <3>1, RecordingsDiffer
      <3> QED BY <3>2 DEF Succeeds, Attempts
    <2>5. recording'[1] = recording'[2] => recording'[1] = NoRecording
      BY <1>1, <1>4, <1>5 DEF OutcomeInv, Attempts
    <2>6. op'.pc \notin Early \cup {"cleanup"}
      BY <1>1, <1>2 DEF Early
    <2> QED BY <1>1, <1>5, <2>1, <2>2, <2>3, <2>4, <2>5, <2>6 DEF OutcomeInv
  <1> QED BY <1>6, <1>7, <1>8, <1>9, <1>10, <1>11, <1>12

-----------------------------------------------------------------------------
(* abort_all, and the end of the process.                                  *)

\* abort_all cleans one handle, or the child resists it.
LEMMA AbortKeeps ==
    ASSUME Inv, NEW a \in Attempts, AbortOne(a) \/ AbortResisted(a)
    PROVE  Inv'
  <1> USE DEF Inv, control, runners
  <1>0. /\ op \in Op /\ op.pc \in {"aborting", "unwinding"} /\ a \in op.todo
        /\ child \in [Attempts -> ChildState] /\ pipe \in [Attempts -> {"none", "ready", "failed"} \cup Kinds]
        /\ handles \subseteq Attempts
    BY DEF TypeOK, AbortOne, AbortResisted
  <1>1. /\ op' \in Op /\ op'.pc = op.pc /\ op'.fresh = op.fresh /\ op'.refused = op.refused
        /\ op'.todo = op.todo \ {a}
    BY <1>0 DEF AbortOne, AbortResisted, Op
  <1>2. /\ UNCHANGED <<mode, lock, batch, control, thread, got, captures, yields, interrupted>>
        /\ \A b \in Attempts : b # a =>
             child'[b] = child[b] /\ pipe'[b] = pipe[b] /\ (b \in handles' <=> b \in handles)
        /\ \/ child'[a] = "gone" /\ pipe'[a] = "none"
           \/ /\ child'[a] = "stuck" /\ ChildAlive(a) /\ pipe'[a] = pipe[a]
              /\ handles' = handles /\ op'.resisted
        /\ child' \in [Attempts -> ChildState] /\ handles' \subseteq Attempts
        /\ pipe' \in [Attempts -> {"none", "ready", "failed"} \cup Kinds]
    <2>1. CASE AbortOne(a)
      BY <1>0, <2>1 DEF AbortOne, ChildState
    <2>2. CASE AbortResisted(a)
      <3>1. op'.resisted
        BY <1>0, <2>2 DEF AbortResisted, Op
      <3> QED BY <1>0, <2>2, <3>1 DEF AbortResisted, ChildState, ChildAlive
    <2> QED BY <2>1, <2>2
  <1>3. TypeOK'
    BY <1>1, <1>2 DEF TypeOK, batch
  <1>4. RunnerInv'
    BY <1>2 DEF RunnerInv, ChildAlive, Kinds
  <1>5. op.fresh /\ registered
    BY <1>0 DEF InvocationInv, Executing
  <1>6. InvocationInv'
    BY <1>0, <1>1, <1>2, <1>5 DEF InvocationInv, batch
  <1>7. JoinInv'
    BY <1>0, <1>1, <1>2 DEF JoinInv, Alive, Early
  <1>8. HandleInv'
    <2>1. ASSUME NEW b \in Attempts
          PROVE  /\ op'.fresh /\ ChildAlive(b)' => b \in handles'
                 /\ op'.pc = "aborting" /\ ~op'.resisted /\ ChildAlive(b)' => b \in op'.todo
                 /\ op'.pc = "unwinding" /\ AboutToCapture(b)' => b \in op'.todo
      <3>1. CASE b = a
        BY <1>1, <1>2, <1>5, <3>1 DEF HandleInv, ChildAlive, AboutToCapture
      <3>2. CASE b # a
        <4>1. op.pc = "aborting" /\ ~op'.resisted => ~op.resisted
          BY <1>0 DEF AbortOne, AbortResisted, Op
        <4> QED BY <1>1, <1>2, <1>5, <3>2, <4>1 DEF HandleInv, ChildAlive, AboutToCapture
      <3> QED BY <3>1, <3>2
    <2> QED BY <1>0, <1>1, <1>5, <2>1 DEF HandleInv
  <1>9. GateInv'
    BY <1>0, <1>1, <1>2 DEF GateInv, Cleared, AllCancelled, Early
  <1>10. OutcomeInv'
    BY <1>0, <1>1, <1>2 DEF OutcomeInv, Early, batch
  <1> QED BY <1>3, <1>4, <1>6, <1>7, <1>8, <1>9, <1>10

\* The process ends: what lasts is the row, the history and a stuck child.
LEMMA ProcessEndsKeeps ==
    ASSUME Inv, ProcessEnds
    PROVE  Inv'
  <1> USE DEF Inv, batch
  <1>1. /\ registered /\ lock' = "free" /\ op' = IdleOp /\ release' = FALSE /\ handles' = {}
        /\ thread' = [a \in Attempts |-> "none"] /\ got' = [a \in Attempts |-> "none"]
        /\ child' = [a \in Attempts |-> IF child[a] = "stuck" THEN "stuck" ELSE "none"]
        /\ pipe' = [a \in Attempts |-> "none"]
        /\ ready' = [a \in Attempts |-> FALSE] /\ cancelled' = [a \in Attempts |-> FALSE]
        /\ UNCHANGED <<mode, batch, captures, yields>>
    BY DEF ProcessEnds
  <1>2. /\ op' \in Op /\ op'.pc = "idle" /\ ~op'.fresh /\ op'.turn = 1 /\ op'.refused = {}
        /\ op'.late = {} /\ op'.leftover = {}
    BY <1>1 DEF IdleOp, Op, OpState, Attempts
  <1>3. interrupted' \in BOOLEAN
    BY DEF ProcessEnds
  <1>4. TypeOK'
    <2>1. /\ thread' \in [Attempts -> ThreadState] /\ child' \in [Attempts -> ChildState]
          /\ got' \in [Attempts -> {"none", "failure"} \cup Kinds]
          /\ pipe' \in [Attempts -> {"none", "ready", "failed"} \cup Kinds]
          /\ ready' \in [Attempts -> BOOLEAN] /\ cancelled' \in [Attempts -> BOOLEAN]
      BY <1>1 DEF ThreadState, ChildState
    <2> QED BY <1>1, <1>2, <1>3, <2>1 DEF TypeOK
  <1>5. RunnerInv'
    BY <1>1 DEF RunnerInv, Before, Kinds
  <1>6. InvocationInv'
    BY <1>1, <1>2 DEF InvocationInv, Executing, Early
  <1>7. JoinInv' /\ HandleInv'
    BY <1>1, <1>2 DEF JoinInv, HandleInv, Alive, AboutToCapture
  <1>8. GateInv'
    BY <1>1, <1>2 DEF GateInv, Early
  <1>9. OutcomeInv'
    BY <1>1, <1>2 DEF OutcomeInv, Early
  <1> QED BY <1>4, <1>5, <1>6, <1>7, <1>8, <1>9

-----------------------------------------------------------------------------
(* The theorems.                                                           *)

\* Inv is an inductive invariant of the specification.
THEOREM Invariance == Spec => []Inv
  <1>1. Init => Inv
    <2> SUFFICES ASSUME Init PROVE Inv
      OBVIOUS
    <2>1. /\ op \in Op /\ op.pc = "idle" /\ ~op.fresh /\ op.turn = 1 /\ op.refused = {}
          /\ op.late = {} /\ op.leftover = {}
      BY DEF Init, IdleOp, Op, OpState, Attempts
    <2>2. TypeOK
      <3>1. /\ outcome \in [Attempts -> {"none", "succeeded", "failed"}]
            /\ thread \in [Attempts -> ThreadState] /\ child \in [Attempts -> ChildState]
            /\ got \in [Attempts -> {"none", "failure"} \cup Kinds]
            /\ pipe \in [Attempts -> {"none", "ready", "failed"} \cup Kinds]
            /\ yields \in [Attempts -> {"none"} \cup Kinds] /\ captures \in [Attempts -> Nat]
            /\ ready \in [Attempts -> BOOLEAN] /\ cancelled \in [Attempts -> BOOLEAN]
        BY DEF Init, ThreadState, ChildState
      <3> QED BY <2>1, <3>1 DEF Init, TypeOK
    <2>3. RunnerInv
      BY DEF Init, RunnerInv, Before, Kinds
    <2>4. InvocationInv
      BY <2>1 DEF Init, InvocationInv, Executing, Early
    <2>5. JoinInv /\ HandleInv
      BY <2>1 DEF Init, JoinInv, HandleInv, Alive, AboutToCapture
    <2>6. GateInv
      BY <2>1 DEF Init, GateInv, Early
    <2>7. OutcomeInv
      BY <2>1 DEF Init, OutcomeInv, Early, Attempts
    <2> QED BY <2>2, <2>3, <2>4, <2>5, <2>6, <2>7 DEF Inv
  <1>2. Inv /\ [Next]_vars => Inv'
    <2> SUFFICES ASSUME Inv, [Next]_vars PROVE Inv'
      OBVIOUS
    <2>1. CASE Invocation
      BY <2>1, LockedKeeps, ExecuteKeeps, ExecuteTooLateKeeps, WaitKeeps, ReleaseKeeps,
         JudgeCoordinatedKeeps, JudgeIndependentKeeps, JoinKeeps, RecordKeeps, TeardownKeeps,
         LockKeeps, AbortKeeps
      DEF Invocation
    <2>2. CASE Acquire \/ StoreError \/ ProcessEnds
      BY <2>2, LockKeeps, StoreErrorKeeps, ProcessEndsKeeps
    <2>3. ASSUME NEW a \in Attempts, Runner(a) \/ Child(a) PROVE Inv'
      BY <2>3, RunnerKeeps
    <2>4. CASE UNCHANGED vars
      <3>1. UNCHANGED <<mode, lock, registered, outcome, recording, op, release, ready, cancelled,
                        thread, got, child, pipe, handles, captures, yields, interrupted>>
        BY <2>4 DEF vars, batch, control, runners
      <3> QED BY <3>1 DEF Inv, TypeOK, RunnerInv, InvocationInv, JoinInv, HandleInv, GateInv,
                          OutcomeInv, Alive, ChildAlive, AboutToCapture, Cleared, AllCancelled,
                          ValidResult
    <2> QED BY <2>1, <2>2, <2>3, <2>4 DEF Next
  <1> QED BY <1>1, <1>2, PTL DEF Spec

\* A radio captures at most once for an attempt, over any number of exits,
\* invocations and retries: the row stands before the threads start.
THEOREM AtMostOneCapture == Spec => []CapturedAtMostOnce
  <1>1. Inv => CapturedAtMostOnce
    BY DEF Inv, RunnerInv, CapturedAtMostOnce
  <1> QED BY <1>1, Invariance, PTL

\* A recorded success is a capture that the child reported for this attempt, and
\* two successes name two recordings (_outcomes, record).
THEOREM SuccessesAreEarned == Spec => []SuccessIsEarned
  <1>1. Inv => SuccessIsEarned
    <2> SUFFICES ASSUME Inv PROVE SuccessIsEarned
      OBVIOUS
    <2>1. ASSUME NEW a \in Attempts, outcome[a] = "succeeded"
          PROVE  /\ captures[a] = 1 /\ recording[a] = RecordingOf(a, yields[a])
                 /\ yields[a] # "foreign"
      BY <2>1 DEF Inv, OutcomeInv, RunnerInv
    <2>2. recording[1] = recording[2] => recording[1] = NoRecording
      BY DEF Inv, OutcomeInv
    <2> QED BY <2>1, <2>2 DEF SuccessIsEarned
  <1> QED BY <1>1, Invariance, PTL

\* A new capture reaches the projection only without threads and children
\* (execute's cleanup error, the first abort_all).
THEOREM TeardownComesFirst == Spec => []TeardownPrecedesProjection
  <1>1. Inv => TeardownPrecedesProjection
    BY DEF Inv, JoinInv, TeardownPrecedesProjection
  <1> QED BY <1>1, Invariance, PTL

\* A capture begins only under the mode lock, and in coordinated mode only when
\* both attempts are ready and neither is refused (the start gate, cancelled).
THEOREM CapturesAreReleased == Spec => CaptureIsReleased
  <1>1. ASSUME Inv, [Next]_vars, NEW a \in Attempts, captures'[a] > captures[a]
        PROVE  /\ lock = "held"
               /\ mode = "coordinated" => op.refused = {} /\ \A b \in Attempts : ready[b]
    <2>0. captures \in [Attempts -> Nat] /\ captures'[a] # captures[a]
      BY <1>1 DEF Inv, TypeOK
    <2>1. ~UNCHANGED captures
      BY <2>0
    <2>2. ~Invocation /\ ~Acquire /\ ~StoreError /\ ~ProcessEnds /\ ~UNCHANGED vars
      BY <2>1 DEF Invocation, AdmissionBlocked, Replay, RefusePartial, Execute, ExecuteTooLate,
                  WaitReady, WaitDied, WaitExpired, AdmitRelease, RefuseRelease, OpenGate,
                  CancelCoordinated, ClassifyCoordinated, ClassifyIndependent,
                  CancelIndependent, JoinFinish, JoinCleanup, Record, Executed, AbortAll,
                  AbortDone, Publish, ReleaseLock, AbortOne, AbortResisted, Acquire, StoreError,
                  ProcessEnds, runners, vars
    <2>3. PICK b \in Attempts : Runner(b) \/ Child(b)
      BY <1>1, <2>2 DEF Next
    <2>4. Dispatch(b)
      BY <2>1, <2>3 DEF Runner, Child, StartChild, StartError, ReceiveReady, ReceiveFailed,
                        PassGate, GateCancelled, ReceiveResult, Cleanup, CleanupResisted,
                        ChildPreflight, ChildCapture, ChildEnds
    <2>5. AboutToCapture(b)
      BY <2>1, <2>4 DEF Dispatch, AboutToCapture
    <2>6. op.fresh
      BY <1>1, <2>5 DEF Inv, HandleInv
    <2>7. lock = "held"
      BY <1>1, <2>6 DEF Inv, InvocationInv
    <2>8. mode = "coordinated" => Cleared
      BY <1>1, <2>5 DEF Inv, GateInv, AboutToCapture
    <2> QED BY <2>7, <2>8 DEF Cleared
  <1>2. Inv /\ [Next]_vars =>
          [\A a \in Attempts : captures'[a] > captures[a] =>
             /\ lock = "held"
             /\ mode = "coordinated" => op.refused = {} /\ \A b \in Attempts : ready[b]]_vars
    BY <1>1
  <1> QED BY <1>2, Invariance, PTL DEF Spec, CaptureIsReleased

\* The rows implement the abstract batch: registered once, one terminal outcome
\* per attempt that never changes, never the same recording twice.
THEOREM Implementation == Spec => ImplementsBatch
  <1>1. Init => Batch!Init
    BY DEF Init, Batch!Init, NoRecording, Batch!NoRecording
  <1>2. Inv /\ [Next]_vars => [Batch!Next]_(Batch!vars)
    <2> SUFFICES ASSUME Inv, [Next]_vars PROVE [Batch!Next]_(Batch!vars)
      OBVIOUS
    <2>0. UNCHANGED batch => UNCHANGED Batch!vars
      BY DEF batch, Batch!vars
    \* Registration.
    <2>1. CASE Execute \/ ExecuteTooLate
      <3>1. ~registered /\ registered' = TRUE /\ UNCHANGED <<outcome, recording>>
        BY <2>1, NothingBeforeRegistration DEF Execute, ExecuteTooLate
      <3> QED BY <3>1 DEF Batch!Next, Batch!Register
    \* An outcome.
    <2>2. CASE Record
      <3> DEFINE a == op.turn
      <3>1. /\ op.pc = "record" /\ a \in Attempts /\ registered /\ UNCHANGED registered
            /\ outcome[a] = "none"
        BY <2>2 DEF Inv, TypeOK, Op, Attempts, Record, InvocationInv, Executing, OutcomeInv
      <3>2. CASE Succeeds(a)
        <4> DEFINE r == RecordingOf(a, got[a])
        <4>1. /\ r \in {<<"own", a>>, <<"shared">>} /\ r # NoRecording
              /\ \A b \in Attempts : recording[b] # r
          BY <3>1, <3>2, SuccessIsNew
        <4>2. /\ outcome' = [outcome EXCEPT ![a] = "succeeded"]
              /\ recording' = [recording EXCEPT ![a] = r]
          BY <2>2, <3>2 DEF Record
        <4> HIDE DEF r
        <4>3. Batch!Succeed(a, r) /\ r \in Batch!Recordings(a)
          BY <3>1, <4>1, <4>2 DEF Batch!Succeed, Batch!Recordings, NoRecording, Batch!NoRecording
        <4> QED BY <3>1, <4>3 DEF Batch!Next
      <3>3. CASE ~Succeeds(a)
        <4>1. outcome' = [outcome EXCEPT ![a] = "failed"] /\ recording' = recording
          BY <2>2, <3>3 DEF Record
        <4>2. Batch!Fail(a)
          BY <3>1, <4>1 DEF Batch!Fail
        <4> QED BY <3>1, <4>2 DEF Batch!Next
      <3> QED BY <3>2, <3>3
    \* Everything else leaves the rows alone.
    <2>3. CASE Invocation /\ ~Execute /\ ~ExecuteTooLate /\ ~Record
      <3>1. UNCHANGED batch
        BY <2>3 DEF Invocation, AdmissionBlocked, Replay, RefusePartial, WaitReady, WaitDied,
                    WaitExpired, AdmitRelease, RefuseRelease, OpenGate, CancelCoordinated,
                    ClassifyCoordinated, ClassifyIndependent, CancelIndependent, JoinFinish,
                    JoinCleanup, Executed, AbortAll, AbortDone, Publish, ReleaseLock, AbortOne,
                    AbortResisted
      <3> QED BY <2>0, <3>1
    <2>4. CASE Acquire \/ StoreError \/ ProcessEnds \/ UNCHANGED vars
      BY <2>0, <2>4 DEF Acquire, StoreError, ProcessEnds, vars
    <2>5. ASSUME NEW a \in Attempts, Runner(a) \/ Child(a) PROVE UNCHANGED batch
      BY <2>5 DEF Runner, Child, StartChild, StartError, ReceiveReady, ReceiveFailed, PassGate,
                  GateCancelled, Dispatch, ReceiveResult, Cleanup, CleanupResisted,
                  ChildPreflight, ChildCapture, ChildEnds
    <2> QED BY <2>0, <2>1, <2>2, <2>3, <2>4, <2>5 DEF Next
  <1> QED BY <1>1, <1>2, Invariance, PTL DEF Spec, ImplementsBatch, Batch!Spec
=============================================================================
