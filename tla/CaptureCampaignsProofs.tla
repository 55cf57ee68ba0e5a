----------------------- MODULE CaptureCampaignsProofs -----------------------
(***************************************************************************)
(* The campaigns for every number of processes, slots, batches of a        *)
(* window, stages and items: a slot is captured at most once under any     *)
(* coordinator, the canary never replays and its halt is final, captures   *)
(* and analyses of a deferred campaign keep apart, and the stages of its   *)
(* drains too.  The second half is about the durable state: the journal is *)
(* backed by the batch rows, and its records are in order.                 *)
(***************************************************************************)
EXTENDS CaptureCampaigns, FiniteSetTheorems, SequenceTheorems, TLAPS

JournalType == [phase : Phase, halt : HaltReason, records : Seq(Record)]
ProcPc == {"idle", "loaded", "planned", "invoked", "running", "settled",
           "returned", "raised", "analysing", "draining", "reconciling"}
ProcType == [pc : ProcPc, view : JournalType, at : 0 .. MaxTime]
BatchState == {"none", "open", "rejected", "eligible"}
WorkState == {"none", "ready", "lost", "succeeded", "parked"} \cup Drains
WorkType == [Windows -> [1 .. Stages -> [Items -> WorkState]]]

\* The positions of a process from the call of the capture port to its answer.
InPort == {"invoked", "running", "settled", "returned", "raised"}

-----------------------------------------------------------------------------
(* The inductive invariant.                                                *)

TypeInv ==
    /\ kind \in Kinds /\ target \in Nat
    /\ now \in 0 .. MaxTime
    /\ journal \in JournalType
    /\ batch \in [AllSlots -> BatchState]
    /\ proc \in [Procs -> ProcType]
    /\ rf \in [AllSlots -> Nat] /\ calls \in [AllSlots -> Nat]

\* A slot without a batch row has not been captured.
OnceInv == \A s \in AllSlots : rf[s] <= 1 /\ (batch[s] = "none" => rf[s] = 0)

\* Under the campaign lock one process is at work; the phase of the journal tells
\* at what, and a staged drain in a window is that process.
LockInv ==
    IF kind = "deferred"
    THEN /\ Len(journal.records) <= Slots
         /\ \A p, q \in Procs : proc[p].pc # "idle" /\ proc[q].pc # "idle" => p = q
         /\ \A p \in Procs : proc[p].pc \in InPort => journal.phase = "capturing"
         /\ \A p \in Procs : proc[p].pc \in {"analysing", "reconciling"}
                               => journal.phase = "analyzing"
         /\ drain["staged"].stage # 0 =>
              /\ journal.phase = "analyzing"
              /\ \E p \in Procs : proc[p].pc \in {"draining", "reconciling"}
    ELSE \A p \in Procs : proc[p].pc \notin {"draining", "reconciling"}

\* The canary has no lock: only the journal tells that a slot was called, and a
\* process that is past its plan works on a copy in which capture is open.
CanaryInv ==
    kind = "canary" =>
        /\ \A s \in AllSlots : calls[s] <= 1
        /\ \A s \in AllSlots : s > Len(journal.records) => calls[s] = 0
        /\ \A s \in AllSlots : s <= Len(journal.records) /\ journal.records[s].phase = "planned"
                                 => calls[s] = 0
        /\ \A p \in Procs : proc[p].pc = "planned" => LastIs(View(p), "planned")
        /\ \A p \in Procs : proc[p].pc \in InPort \cup {"planned"}
                              => View(p).phase = "capturing"
        /\ journal.phase \in {"analyzing", "complete"} => AllCaptured(journal)

\* A row of the outbox does not exist before the commit of its job, so that no
\* commit sets back a row that has succeeded.
WorkInv ==
    /\ work \in WorkType
    /\ drain \in [Drains -> [window : Nat, stage : 0 .. Stages + 1]]
    /\ \A d \in Drains : drain[d].stage # 0 => drain[d].window \in Windows
    /\ \A w \in Windows, k \in 1 .. Stages, i \in Items :
         k % 2 = 1 /\ k < Stages /\ work[w][k][i] # "succeeded" => work[w][k + 1][i] = "none"
    /\ StageBarrier

Inv == TypeInv /\ OnceInv /\ LockInv /\ CanaryInv /\ WorkInv

-----------------------------------------------------------------------------
(* The journal's operators.                                                *)

USE CampaignAssumption, StagedAssumption, KindsAssumption

\* A record is rewritten in its place.
LEMMA RecordTyped ==
    ASSUME NEW rs \in Seq(Record), NEW s, NEW r, s \in 1 .. Len(rs) => r \in Record
    PROVE  /\ [rs EXCEPT ![s] = r] \in Seq(Record)
           /\ Len([rs EXCEPT ![s] = r]) = Len(rs)
           /\ \A t \in 1 .. Len(rs) : [rs EXCEPT ![s] = r][t] = IF t = s THEN r ELSE rs[t]
<1> DEFINE new == [rs EXCEPT ![s] = r]
<1>1. DOMAIN new = 1 .. Len(rs)
  OBVIOUS
<1>2. \A t \in 1 .. Len(rs) : new[t] = IF t = s THEN r ELSE rs[t]
  OBVIOUS
<1>3. \A t \in 1 .. Len(rs) : new[t] \in Record
  BY <1>2
<1>4. new = [t \in 1 .. Len(rs) |-> new[t]]
  BY <1>1
<1> HIDE DEF new
<1>5. Len(rs) \in Nat
  OBVIOUS
<1>6. new \in Seq(Record) /\ Len(new) = Len(rs)
  BY <1>1, <1>3, <1>4, <1>5
<1>7. QED BY <1>2, <1>6 DEF new

\* A record's phase is rewritten.
LEMMA WithPhaseRewrites ==
    ASSUME NEW j \in JournalType, NEW s, NEW phase \in RecordPhase
    PROVE  LET new == WithPhase(j, s, phase) IN
           /\ new \in JournalType
           /\ Len(new.records) = Len(j.records)
           /\ new.phase = j.phase /\ new.halt = j.halt
           /\ \A t \in 1 .. Len(j.records) :
                new.records[t].phase = IF t = s THEN phase ELSE j.records[t].phase
<1> DEFINE new == WithPhase(j, s, phase)
           r == [j.records[s] EXCEPT !.phase = phase]
           rs == [j.records EXCEPT ![s] = r]
<1>1. new = [j EXCEPT !.records = rs]
  BY DEF WithPhase
<1>2. j.records \in Seq(Record)
  BY DEF JournalType
<1>3. s \in 1 .. Len(j.records) => j.records[s] \in Record
  BY <1>2
<1>4. s \in 1 .. Len(j.records) => r \in Record /\ r.phase = phase
  BY <1>3 DEF Record
<1> HIDE DEF r
<1>5. /\ rs \in Seq(Record) /\ Len(rs) = Len(j.records)
      /\ \A t \in 1 .. Len(j.records) : rs[t] = IF t = s THEN r ELSE j.records[t]
  BY <1>2, <1>4, RecordTyped
<1> HIDE DEF rs
<1>6. /\ new \in JournalType /\ new.records = rs /\ new.phase = j.phase /\ new.halt = j.halt
  BY <1>1, <1>5 DEF JournalType
<1>7. QED BY <1>4, <1>5, <1>6

\* A journal is halted.
LEMMA HaltedRewrites ==
    ASSUME NEW j \in JournalType, NEW reason \in HaltReason
    PROVE  LET new == Halted(j, reason) IN
           /\ new \in JournalType /\ new.records = j.records
           /\ new.phase = "halted"
BY DEF Halted, JournalType, Phase

\* The phase of a journal is rewritten.
LEMMA PhaseRewrites ==
    ASSUME NEW j \in JournalType, NEW phase \in Phase
    PROVE  LET new == [j EXCEPT !.phase = phase] IN
           /\ new \in JournalType /\ new.records = j.records /\ new.phase = phase
BY DEF JournalType

\* The last record is rewritten.
LEMMA WithLastRewrites ==
    ASSUME NEW j \in JournalType, j.records # <<>>, NEW r \in Record
    PROVE  LET new == WithLast(j, r) IN
           /\ new \in JournalType /\ new.phase = j.phase
           /\ Len(new.records) = Len(j.records)
<1> DEFINE rs == j.records
           new == Front(rs) \o <<r>>
<1>1. rs \in Seq(Record) /\ rs # <<>> /\ Len(rs) \in Nat
  BY DEF JournalType
<1>2. Len(rs) # 0
  BY <1>1
<1>3. Front(rs) \in Seq(Record) /\ Len(Front(rs)) = Len(rs) - 1
  BY <1>1, <1>2 DEF Front
<1>4. <<r>> \in Seq(Record) /\ Len(<<r>>) = 1
  OBVIOUS
<1>5. new \in Seq(Record) /\ Len(new) = Len(rs)
  BY <1>1, <1>3, <1>4
<1>6. WithLast(j, r) = [j EXCEPT !.records = new]
  BY DEF WithLast
<1> HIDE DEF new
<1>7. QED BY <1>5, <1>6 DEF JournalType

\* A record is appended.
LEMMA AppendRewrites ==
    ASSUME NEW j \in JournalType, NEW r \in Record
    PROVE  LET new == [j EXCEPT !.records = Append(@, r)] IN
           /\ new \in JournalType /\ new.phase = j.phase
           /\ Len(new.records) = Len(j.records) + 1
           /\ new.records[Len(j.records) + 1] = r
           /\ \A s \in 1 .. Len(j.records) : new.records[s] = j.records[s]
<1> DEFINE rs == Append(j.records, r)
<1>1. j.records \in Seq(Record)
  BY DEF JournalType
<1>2. /\ rs \in Seq(Record) /\ Len(rs) = Len(j.records) + 1
      /\ rs[Len(j.records) + 1] = r
      /\ \A s \in 1 .. Len(j.records) : rs[s] = j.records[s]
  BY <1>1
<1> HIDE DEF rs
<1>3. [j EXCEPT !.records = rs].records = rs
      /\ [j EXCEPT !.records = rs] \in JournalType
      /\ [j EXCEPT !.records = rs].phase = j.phase
  BY <1>2 DEF JournalType
<1>4. QED BY <1>2, <1>3 DEF rs

\* A record counts one more analysis.
LEMMA AnalysisCounts ==
    ASSUME NEW record \in Record
    PROVE  /\ Counted(record) \in Record /\ Counted(record).phase = record.phase
           /\ Counted(record).captures = record.captures /\ Counted(record).retry = record.retry
BY DEF Counted, Record

\* The record a process has counted an analysis in.
LEMMA CountedRewrites ==
    ASSUME NEW j \in JournalType, NEW s, NEW r,
           s \in 1 .. Len(j.records) => r \in Record
    PROVE  LET new == [j EXCEPT !.records[s] = r] IN
           /\ new \in JournalType /\ new.phase = j.phase
           /\ Len(new.records) = Len(j.records)
<1> DEFINE rs == [j.records EXCEPT ![s] = r]
<1>1. j.records \in Seq(Record)
  BY DEF JournalType
<1>2. rs \in Seq(Record) /\ Len(rs) = Len(j.records)
  BY <1>1, RecordTyped
<1>3. [j EXCEPT !.records[s] = r] = [j EXCEPT !.records = rs]
  OBVIOUS
<1> HIDE DEF rs
<1>4. QED BY <1>2, <1>3 DEF JournalType

-----------------------------------------------------------------------------
(* The rows of the drains.                                                 *)

Outbox(rows) ==
    \A w \in Windows, k \in 1 .. Stages, i \in Items :
        k % 2 = 1 /\ k < Stages /\ rows[w][k][i] # "succeeded" => rows[w][k + 1][i] = "none"

\* What has succeeded stays so.
SucceededStays ==
    \A w \in Windows, k \in 1 .. Stages, i \in Items :
        work[w][k][i] = "succeeded" => work'[w][k][i] = "succeeded"

\* Where a drain may go without a look at the rows: nowhere, or to the first stage.
DrainMoves ==
    /\ drain' \in [Drains -> [window : Nat, stage : 0 .. Stages + 1]]
    /\ \A d \in Drains : \/ drain'[d] = drain[d] \/ drain'[d].stage = 0
                         \/ drain'[d].stage = 1 /\ drain'[d].window \in Windows

\* A step that keeps what has succeeded, and moves drains only there, is safe.
LEMMA WorkKeeps ==
    ASSUME WorkInv, work' \in WorkType, SucceededStays, Outbox(work'), DrainMoves
    PROVE  WorkInv'
<1>1. StageBarrier'
  <2> SUFFICES ASSUME NEW d \in Drains, NEW k \in 1 .. drain'[d].stage - 1, NEW i \in Items
               PROVE  work'[drain'[d].window][k][i] = "succeeded"
    BY DEF StageBarrier
  <2>1. drain'[d].stage \in 0 .. Stages + 1
    BY DEF DrainMoves
  <2>2. drain'[d] = drain[d] /\ k \in 1 .. Stages /\ drain[d].stage # 0
    BY <2>1 DEF DrainMoves
  <2>3. work[drain[d].window][k][i] = "succeeded" /\ drain[d].window \in Windows
    BY <2>2 DEF WorkInv, StageBarrier
  <2>4. QED BY <2>2, <2>3 DEF SucceededStays
<1>2. \A d \in Drains : drain'[d].stage # 0 => drain'[d].window \in Windows
  BY DEF DrainMoves, WorkInv
<1>3. QED BY <1>1, <1>2 DEF WorkInv, Outbox, DrainMoves

\* A row that has not succeeded is claimed, retried, parked or expires.
LEMMA RowKeeps ==
    ASSUME WorkInv, NEW w \in Windows, NEW k \in 1 .. Stages, NEW i \in Items,
           NEW state \in WorkState, work[w][k][i] \notin {"none", "succeeded"},
           state # "succeeded",
           work' = [work EXCEPT ![w][k][i] = state], drain' = drain
    PROVE  WorkInv'
<1>1. /\ work' \in WorkType /\ work'[w][k][i] = state
      /\ \A v \in Windows, l \in 1 .. Stages, j \in Items :
           <<v, l, j>> # <<w, k, i>> => work'[v][l][j] = work[v][l][j]
  BY DEF WorkInv, WorkType
<1>2. SucceededStays
  BY <1>1 DEF SucceededStays
<1>3. Outbox(work')
  <2> SUFFICES ASSUME NEW v \in Windows, NEW l \in 1 .. Stages, NEW j \in Items,
                      l % 2 = 1, l < Stages, work'[v][l][j] # "succeeded"
               PROVE  work'[v][l + 1][j] = "none"
    BY DEF Outbox
  <2>1. l + 1 \in 1 .. Stages
    OBVIOUS
  <2>2. work[v][l][j] # "succeeded"
    BY <1>1
  <2>3. work[v][l + 1][j] = "none"
    BY <2>2 DEF WorkInv
  <2>4. QED BY <1>1, <2>1, <2>3
<1>4. DrainMoves
  BY DEF DrainMoves, WorkInv
<1>5. QED BY <1>1, <1>2, <1>3, <1>4, WorkKeeps

\* The steps of the children, and of the lease table.
LEMMA ChildrenKeepWork ==
    ASSUME WorkInv,
           \/ \E d \in Drains : ChildClaims(d) \/ ChildFails(d)
           \/ LeaseExpires
    PROVE  WorkInv'
<1>1. ASSUME NEW d \in Drains, NEW i \in Items, NEW state \in {d, "ready", "parked"},
             InLane(d), Row(d, i) \in {d, "ready"}, SetRow(d, i, state), drain' = drain
      PROVE  WorkInv'
  <2>1. drain[d].stage \in 1 .. Stages /\ drain[d].window \in Windows
    BY <1>1 DEF InLane, WorkInv
  <2>2. work[drain[d].window][drain[d].stage][i] \notin {"none", "succeeded"}
    BY <1>1 DEF Row, Drains
  <2>3. state \in WorkState /\ state # "succeeded"
    BY DEF WorkState, Drains
  <2>4. work' = [work EXCEPT ![drain[d].window][drain[d].stage][i] = state]
    BY <1>1 DEF SetRow
  <2>5. QED BY <1>1, <2>1, <2>2, <2>3, <2>4, RowKeeps
<1>2. ASSUME NEW d \in Drains, ChildClaims(d) PROVE WorkInv'
  BY <1>1, <1>2 DEF ChildClaims
<1>3. ASSUME NEW d \in Drains, ChildFails(d) PROVE WorkInv'
  BY <1>1, <1>3 DEF ChildFails
<1>4. CASE LeaseExpires
  <2>1. PICK w \in Windows, k \in 1 .. Stages, i \in Items :
          /\ work[w][k][i] \in Drains \cup {"lost"}
          /\ work' = [work EXCEPT ![w][k][i] = "ready"]
    BY <1>4 DEF LeaseExpires
  <2>2. work[w][k][i] \notin {"none", "succeeded"} /\ "ready" \in WorkState /\ drain' = drain
    BY <1>4, <2>1 DEF Drains, WorkState, LeaseExpires
  <2>3. QED BY <2>1, <2>2, RowKeeps
<1>5. QED BY <1>2, <1>3, <1>4

\* A commit inserts the row of the next stage, which was not there.
LEMMA CommitKeepsWork ==
    ASSUME WorkInv, NEW d \in Drains, ChildCommits(d)
    PROVE  WorkInv'
<1> DEFINE w == drain[d].window
           k == drain[d].stage
           inserts == k % 2 = 1 /\ k < Stages
           next == IF inserts THEN k + 1 ELSE k
           state == IF inserts THEN "ready" ELSE "succeeded"
<1>1. PICK i \in Items :
        /\ work[w][k][i] = d
        /\ work' = [work EXCEPT ![w] = [@ EXCEPT ![k][i] = "succeeded", ![next][i] = state]]
  BY DEF ChildCommits, Row
<1>2. k \in 1 .. Stages /\ w \in Windows
  BY DEF ChildCommits, InLane, WorkInv
<1>3. drain' = drain
  BY DEF ChildCommits
<1>4. next \in 1 .. Stages
  BY <1>2
<1>5. state \in WorkState /\ "succeeded" \in WorkState
  BY DEF WorkState
<1>6. work[w] \in [1 .. Stages -> [Items -> WorkState]]
  BY <1>2 DEF WorkInv, WorkType
<1>7. d # "succeeded" /\ d # "none"
  BY DEF Drains
<1>8. inserts => next = k + 1 /\ state = "ready" /\ work[w][next][i] = "none"
  <2> SUFFICES ASSUME inserts PROVE work[w][k + 1][i] = "none"
    OBVIOUS
  <2>1. QED BY <1>1, <1>2, <1>7 DEF WorkInv
<1>9. ~inserts => next = k /\ state = "succeeded"
  OBVIOUS
<1> HIDE DEF w, k, next, state
<1> DEFINE one == [work[w] EXCEPT ![k][i] = "succeeded"]
           rows == [one EXCEPT ![next][i] = state]
<1>10. work' = [work EXCEPT ![w] = rows]
  BY <1>1
<1>11. /\ one \in [1 .. Stages -> [Items -> WorkState]]
       /\ one[k][i] = "succeeded"
       /\ \A l \in 1 .. Stages, j \in Items : <<l, j>> # <<k, i>> => one[l][j] = work[w][l][j]
  BY <1>2, <1>5, <1>6
<1> HIDE DEF one
<1>12. /\ rows \in [1 .. Stages -> [Items -> WorkState]]
       /\ rows[next][i] = state
       /\ \A l \in 1 .. Stages, j \in Items : <<l, j>> # <<next, i>> => rows[l][j] = one[l][j]
  BY <1>4, <1>5, <1>11
<1> HIDE DEF rows
<1>13. /\ work' \in WorkType /\ work'[w] = rows
       /\ \A v \in Windows : v # w => work'[v] = work[v]
  BY <1>2, <1>10, <1>12 DEF WorkInv, WorkType
<1>14. rows[k][i] = "succeeded"
  BY <1>2, <1>8, <1>9, <1>11, <1>12
<1>15. \A l \in 1 .. Stages, j \in Items :
          /\ work[w][l][j] = "succeeded" => rows[l][j] = "succeeded"
          /\ rows[l][j] # "succeeded" => work[w][l][j] # "succeeded"
          /\ <<l, j>> # <<k, i>> /\ <<l, j>> # <<next, i>> => rows[l][j] = work[w][l][j]
  BY <1>7, <1>8, <1>9, <1>11, <1>12, <1>14
<1>16. SucceededStays
  BY <1>13, <1>15 DEF SucceededStays
<1>17. Outbox(work')
  <2> SUFFICES ASSUME NEW v \in Windows, NEW l \in 1 .. Stages, NEW j \in Items,
                      l % 2 = 1, l < Stages, work'[v][l][j] # "succeeded"
               PROVE  work'[v][l + 1][j] = "none"
    BY DEF Outbox
  <2>1. l + 1 \in 1 .. Stages
    OBVIOUS
  <2>2. work[v][l][j] # "succeeded"
    BY <1>13, <1>15
  <2>3. work[v][l + 1][j] = "none"
    BY <2>2 DEF WorkInv
  <2>4. CASE v # w
    BY <1>13, <2>3, <2>4
  <2>5. CASE v = w
    <3>1. <<l, j>> # <<k, i>>
      BY <1>13, <1>14, <2>5
    <3>2. <<l + 1, j>> # <<k, i>>
      BY <1>1, <1>7, <2>3, <2>5 DEF w, k
    <3>3. <<l + 1, j>> # <<next, i>>
      BY <1>2, <1>8, <1>9, <3>1, <3>2
    <3>4. QED BY <1>13, <1>15, <2>1, <2>3, <2>5, <3>2, <3>3
  <2>6. QED BY <2>4, <2>5
<1>18. DrainMoves
  BY <1>3 DEF DrainMoves, WorkInv
<1>19. QED BY <1>13, <1>16, <1>17, <1>18, WorkKeeps

\* A drain goes to the next stage when every row of this one has succeeded.
LEMMA AdvanceKeepsWork ==
    ASSUME WorkInv, NEW d \in Drains, LaneAdvances(d)
    PROVE  WorkInv'
<1> DEFINE w == drain[d].window
           k == drain[d].stage
<1>1. k \in 1 .. Stages /\ w \in Windows /\ work' = work
  BY DEF LaneAdvances, InLane, WorkInv
<1>2. \A i \in Items : work[w][k][i] = "succeeded"
  BY DEF LaneAdvances, LaneComplete, States, Row
<1>3. \A l \in 1 .. k - 1, i \in Items : work[w][l][i] = "succeeded"
  BY DEF WorkInv, StageBarrier
<1>4. drain[d] \in [window : Nat, stage : 0 .. Stages + 1]
  BY DEF WorkInv
<1> DEFINE new == IF d = "online" /\ drain[d].stage = Stages THEN AtNone
                  ELSE [window |-> w, stage |-> k + 1]
<1>5. /\ drain' = [drain EXCEPT ![d] = new]
      /\ new = AtNone \/ new = [window |-> w, stage |-> k + 1]
  BY DEF LaneAdvances
<1> HIDE DEF new
<1>6. new.stage = 0 \/ (new.stage = k + 1 /\ new.window = w)
  BY <1>4, <1>5 DEF AtNone
<1>7. new \in [window : Nat, stage : 0 .. Stages + 1]
  BY <1>1, <1>4, <1>5 DEF AtNone
<1>8. /\ drain' \in [Drains -> [window : Nat, stage : 0 .. Stages + 1]]
      /\ drain'[d] = new /\ \A e \in Drains : e # d => drain'[e] = drain[e]
  BY <1>5, <1>7 DEF WorkInv
<1>9. \A e \in Drains : drain'[e].stage # 0 => drain'[e].window \in Windows
  BY <1>1, <1>6, <1>8 DEF WorkInv
<1>10. StageBarrier'
  <2> SUFFICES ASSUME NEW e \in Drains, NEW l \in 1 .. drain'[e].stage - 1, NEW i \in Items
               PROVE  work'[drain'[e].window][l][i] = "succeeded"
    BY DEF StageBarrier
  <2>1. CASE e # d
    BY <1>1, <1>8, <2>1 DEF WorkInv, StageBarrier
  <2>2. CASE e = d
    <3>1. new.stage = k + 1 /\ new.window = w
      BY <1>6, <1>8, <2>2
    <3>2. l \in 1 .. k
      BY <1>1, <1>8, <2>2, <3>1
    <3>3. l = k \/ l \in 1 .. k - 1
      BY <1>1, <3>2
    <3>4. QED BY <1>1, <1>2, <1>3, <1>8, <2>2, <3>1, <3>3
  <2>3. QED BY <2>1, <2>2
<1>11. QED BY <1>1, <1>8, <1>9, <1>10 DEF WorkInv

\* prepare inserts what is not there, and only jobs.
LEMMA PreparedKeepsWork ==
    ASSUME WorkInv, NEW w \in Windows, work' = Prepared(w), DrainMoves
    PROVE  WorkInv'
<1> DEFINE rows == [k \in 1 .. Stages |-> [i \in Items |->
               IF k % 2 = 1 /\ work[w][k][i] = "none" THEN "ready" ELSE work[w][k][i]]]
<1>1. work' = [work EXCEPT ![w] = rows]
  BY DEF Prepared
<1>2. \A k \in 1 .. Stages, i \in Items : work[w][k][i] \in WorkState /\ "ready" \in WorkState
  BY DEF WorkInv, WorkType, WorkState
<1>3. rows \in [1 .. Stages -> [Items -> WorkState]]
  BY <1>2
<1>4. \A k \in 1 .. Stages, i \in Items :
        /\ work[w][k][i] = "succeeded" <=> rows[k][i] = "succeeded"
        /\ k % 2 # 1 => rows[k][i] = work[w][k][i]
  OBVIOUS
<1> HIDE DEF rows
<1>5. /\ work' \in WorkType /\ work'[w] = rows
      /\ \A v \in Windows : v # w => work'[v] = work[v]
  BY <1>1, <1>3 DEF WorkInv, WorkType
<1>6. SucceededStays
  BY <1>4, <1>5 DEF SucceededStays
<1>7. Outbox(work')
  <2> SUFFICES ASSUME NEW v \in Windows, NEW l \in 1 .. Stages, NEW j \in Items,
                      l % 2 = 1, l < Stages, work'[v][l][j] # "succeeded"
               PROVE  work'[v][l + 1][j] = "none"
    BY DEF Outbox
  <2>1. l + 1 \in 1 .. Stages /\ (l + 1) % 2 # 1
    OBVIOUS
  <2>2. work[v][l][j] # "succeeded"
    BY <1>4, <1>5
  <2>3. work[v][l + 1][j] = "none"
    BY <2>2 DEF WorkInv
  <2>4. QED BY <1>4, <1>5, <2>1, <2>3
<1>8. QED BY <1>5, <1>6, <1>7, WorkKeeps

\* The leases of dead children run on.
LEMMA OrphanedKeepsWork ==
    ASSUME WorkInv, NEW d \in Drains, work' = Orphaned(d),
           drain' = [drain EXCEPT ![d] = AtNone]
    PROVE  WorkInv'
<1>1. \A w \in Windows, k \in 1 .. Stages, i \in Items :
        work[w][k][i] \in WorkState /\ "lost" \in WorkState
  BY DEF WorkInv, WorkType, WorkState
<1>2. work' \in WorkType
  BY <1>1 DEF Orphaned, WorkType
<1>3. \A w \in Windows, k \in 1 .. Stages, i \in Items :
        /\ work[w][k][i] = "succeeded" <=> work'[w][k][i] = "succeeded"
        /\ work[w][k][i] = "none" => work'[w][k][i] = "none"
  BY DEF Orphaned, Drains
<1>4. SucceededStays
  BY <1>3 DEF SucceededStays
<1>5. Outbox(work')
  <2> SUFFICES ASSUME NEW v \in Windows, NEW l \in 1 .. Stages, NEW j \in Items,
                      l % 2 = 1, l < Stages, work'[v][l][j] # "succeeded"
               PROVE  work'[v][l + 1][j] = "none"
    BY DEF Outbox
  <2>1. l + 1 \in 1 .. Stages
    OBVIOUS
  <2>2. work[v][l][j] # "succeeded"
    BY <1>3
  <2>3. work[v][l + 1][j] = "none"
    BY <2>2 DEF WorkInv
  <2>4. QED BY <1>3, <2>1, <2>3
<1>6. DrainMoves
  BY DEF DrainMoves, WorkInv, AtNone
<1>7. QED BY <1>2, <1>4, <1>5, <1>6, WorkKeeps

-----------------------------------------------------------------------------
(* Windows of batches.                                                     *)

\* A number of batches holds no more whole windows than a larger one.
LEMMA DivMonotonic ==
    ASSUME NEW a \in Nat, NEW b \in Nat, a <= b, NEW c \in Nat \ {0}
    PROVE  a \div c <= b \div c
<1> DEFINE q == a \div c
           r == b \div c
<1>1. q \in Nat /\ r \in Nat
  OBVIOUS
<1>2. c * q <= a /\ b < c * (r + 1)
  OBVIOUS
<1> HIDE DEF q, r
<1>3. c * q < c * (r + 1)
  BY <1>1, <1>2
<1>4. q < r + 1
  BY <1>1, <1>3
<1>5. QED BY <1>1, <1>4 DEF q, r

\* A window more is one more.
LEMMA DivSuccessor ==
    ASSUME NEW a \in Nat, NEW c \in Nat \ {0}
    PROVE  (a + c) \div c = (a \div c) + 1
OBVIOUS

\* Min finds the first slot of a set.
LEMMA MinIsLeast ==
    ASSUME NEW n \in Nat, NEW S \in SUBSET (1 .. n), S # {}
    PROVE  Min(S) \in S /\ \A y \in S : Min(S) <= y
<1> DEFINE Upto(x) == {y \in S : y <= x}
           Segments == {Upto(x) : x \in S}
<1>1. IsFiniteSet(1 .. n)
  BY FS_Interval
<1>2. FiniteSubsetsOf(1 .. n) = SUBSET (1 .. n)
  BY <1>1, FS_FiniteSubsetsOfFinite
<1>3. IsWellFoundedOn(StrictSubsetOrdering(1 .. n), SUBSET (1 .. n))
  BY <1>2, FS_StrictSubsetOrderingWellFounded
<1>4. Segments \subseteq SUBSET (1 .. n) /\ Segments # {}
  <2>1. \A x \in S : Upto(x) \in SUBSET (1 .. n)
    OBVIOUS
  <2> HIDE DEF Upto
  <2>2. QED BY <2>1
<1>5. PICK U \in Segments : \A V \in Segments : ~(<<V, U>> \in StrictSubsetOrdering(1 .. n))
  BY <1>3, <1>4, WFMin
<1>6. PICK x \in S : U = Upto(x)
  BY <1>5
<1>7. ASSUME NEW y \in S PROVE x <= y
  <2>1. CASE y < x
    <3>1. Upto(y) \subseteq Upto(x) /\ x \in Upto(x) /\ x \notin Upto(y)
      <4> HIDE DEF Segments
      <4>1. S \subseteq Int /\ x \in Int /\ y \in Int
        OBVIOUS
      <4>2. \A z \in S : z <= y => z <= x
        BY <4>1, <2>1
      <4>3. x <= x /\ ~(x <= y)
        BY <4>1, <2>1
      <4>4. QED BY <4>2, <4>3
    <3>2. <<Upto(y), Upto(x)>> \in StrictSubsetOrdering(1 .. n)
      BY <3>1 DEF StrictSubsetOrdering
    <3>3. Upto(y) \in Segments
      OBVIOUS
    <3>4. QED BY <1>5, <1>6, <3>2, <3>3
  <2>2. QED BY <2>1
<1>8. QED BY <1>7 DEF Min

\* A window of batches that are captured is a window of the schedule.
LEMMA OnlineWindow ==
    ASSUME NEW S \in SUBSET (1 .. Slots), NEW w \in 0 .. (Cardinality(S) \div WindowBatches) - 1
    PROVE  w \in Windows
<1>1. IsFiniteSet(1 .. Slots) /\ Cardinality(1 .. Slots) = Slots
  BY FS_Interval
<1>2. Cardinality(S) <= Slots /\ Cardinality(S) \in Nat
  BY <1>1, FS_Subset, FS_CardinalityType
<1>3. Cardinality(S) \div WindowBatches <= Slots \div WindowBatches
  BY <1>2, DivMonotonic
<1>4. Cardinality(S) \div WindowBatches \in Nat /\ Slots \div WindowBatches \in Nat
  BY <1>2
<1>5. QED BY <1>3, <1>4 DEF Windows

\* So is the window of the first batch that waits, if enough of them do.
LEMMA StagedWindow ==
    ASSUME NEW n \in 0 .. Slots, NEW S \in SUBSET (1 .. n),
           Cardinality(S) >= WindowBatches
    PROVE  (Min(S) - 1) \div WindowBatches \in Windows
<1> DEFINE m == Min(S)
<1>1. S # {}
  BY FS_EmptySet
<1>2. m \in S /\ \A y \in S : m <= y
  BY <1>1, MinIsLeast
<1> HIDE DEF m
<1>3. S \subseteq m .. n /\ m \in 1 .. n
  BY <1>2
<1>4. IsFiniteSet(m .. n) /\ Cardinality(m .. n) = n - m + 1
  BY <1>3, FS_Interval
<1>5. Cardinality(S) <= n - m + 1 /\ Cardinality(S) \in Nat
  BY <1>3, <1>4, FS_Subset, FS_CardinalityType
<1>6. (m - 1) + WindowBatches <= Slots /\ m - 1 \in Nat
  BY <1>3, <1>5
<1>7. ((m - 1) + WindowBatches) \div WindowBatches <= Slots \div WindowBatches
  BY <1>6, DivMonotonic
<1>8. ((m - 1) \div WindowBatches) + 1 <= Slots \div WindowBatches
  BY <1>6, <1>7, DivSuccessor
<1>9. (m - 1) \div WindowBatches \in Nat /\ Slots \div WindowBatches \in Nat
  BY <1>6
<1>10. QED BY <1>8, <1>9 DEF Windows, m

-----------------------------------------------------------------------------
(* The processes.                                                          *)

\* Process p goes to pc with the copy view of the journal.
Moved(p, pc, view) ==
    /\ proc' \in [Procs -> ProcType]
    /\ proc'[p].pc = pc /\ proc'[p].view = view
    /\ \A q \in Procs : q # p => proc'[q] = proc[q]

\* A process goes on with the copy it has.
LEMMA GotoMoves ==
    ASSUME TypeInv, NEW p \in Procs, NEW pc \in ProcPc, Goto(p, pc)
    PROVE  Moved(p, pc, proc[p].view)
BY DEF TypeInv, Goto, ProcType, Moved

\* The journal of a campaign that has not begun.
LEMMA EmptyIsTyped == EmptyJournal \in JournalType
BY DEF EmptyJournal, JournalType, Phase, HaltReason

\* A command returns, or its process dies.
LEMMA ReturnMoves ==
    ASSUME TypeInv, NEW p \in Procs, Return(p)
    PROVE  Moved(p, "idle", EmptyJournal)
<1>1. IdleProc \in ProcType /\ IdleProc.pc = "idle" /\ IdleProc.view = EmptyJournal
  BY EmptyIsTyped DEF IdleProc, ProcType, ProcPc, MaxTime
<1>2. QED BY <1>1 DEF TypeInv, Return, Moved

\* A counter per slot stays one.
LEMMA CountTyped ==
    ASSUME NEW f \in [AllSlots -> Nat], NEW s
    PROVE  /\ [f EXCEPT ![s] = @ + 1] \in [AllSlots -> Nat]
           /\ \A t \in AllSlots : [f EXCEPT ![s] = @ + 1][t] = IF t = s THEN f[t] + 1 ELSE f[t]
<1> DEFINE g == [f EXCEPT ![s] = @ + 1]
<1>1. g = [t \in AllSlots |-> IF t = s THEN f[s] + 1 ELSE f[t]]
  BY Zenon
<1>2. \A t \in AllSlots : (IF t = s THEN f[s] + 1 ELSE f[t]) \in Nat
  OBVIOUS
<1> HIDE DEF g
<1>3. g \in [AllSlots -> Nat] /\ \A t \in AllSlots : g[t] = IF t = s THEN f[t] + 1 ELSE f[t]
  BY <1>1, <1>2
<1>4. QED BY <1>3 DEF g

\* A coordinator calls the port, which is counted for the last record's slot.
LEMMA CallMoves ==
    ASSUME TypeInv, NEW p \in Procs, NEW new \in JournalType, Call(p, new)
    PROVE  /\ Moved(p, "invoked", new) /\ journal' = new
           /\ calls' \in [AllSlots -> Nat]
           /\ \A s \in AllSlots : calls'[s] = IF s = Len(new.records) THEN calls[s] + 1 ELSE calls[s]
<1>1. [pc |-> "invoked", view |-> new, at |-> 0] \in ProcType
  BY DEF ProcType, ProcPc, MaxTime
<1>2. Moved(p, "invoked", new) /\ journal' = new
  BY <1>1 DEF Call, TypeInv, Moved
<1>3. calls' = [calls EXCEPT ![Len(new.records)] = @ + 1] /\ calls \in [AllSlots -> Nat]
  BY DEF Call, TypeInv
<1>4. QED BY <1>2, <1>3, CountTyped

\* What a step leaves alone.
LEMMA OnceFrame ==
    ASSUME OnceInv, UNCHANGED <<batch, rf>>
    PROVE  OnceInv'
BY DEF OnceInv

\* A step that leaves the drains alone keeps their invariant.
LEMMA WorkFrame ==
    ASSUME WorkInv, UNCHANGED drainVars
    PROVE  WorkInv'
BY DEF WorkInv, StageBarrier, drainVars

\* The processes of a deferred campaign: who works works alone.
Alone(p) == \A q \in Procs : q # p => proc[q].pc = "idle"

\* One process moves while the others are idle.
LEMMA LockMoves ==
    ASSUME kind = "deferred", kind' = kind, NEW p \in Procs, NEW pc, NEW view,
           Moved(p, pc, view), Alone(p),
           Len(journal'.records) <= Slots,
           pc \in InPort => journal'.phase = "capturing",
           pc \in {"analysing", "reconciling"} => journal'.phase = "analyzing",
           drain'["staged"].stage # 0 =>
               journal'.phase = "analyzing" /\ pc \in {"draining", "reconciling"}
    PROVE  LockInv'
<1>1. \A q \in Procs : q # p => proc'[q].pc = "idle"
  BY DEF Moved, Alone
<1>2. proc'[p].pc = pc
  BY DEF Moved
<1>3. QED BY <1>1, <1>2 DEF LockInv, InPort

\* A command that only writes the journal.
LEMMA LockWrites ==
    ASSUME kind = "deferred", kind' = kind, LockInv, LockFree, proc' = proc,
           UNCHANGED drainVars, Len(journal'.records) <= Slots
    PROVE  LockInv'
BY DEF LockInv, LockFree, drainVars, InPort

\* The lock: a process at work, or one that finds the lock free, is alone.
LEMMA BusyIsAlone ==
    ASSUME LockInv, kind = "deferred", NEW p \in Procs,
           proc[p].pc # "idle" \/ LockFree
    PROVE  Alone(p)
BY DEF LockInv, Alone, LockFree

-----------------------------------------------------------------------------
(* The capture port.                                                       *)

\* The moves of the port stay within the call.
LEMMA PortMoves ==
    ASSUME Inv, NEW p \in Procs, PortStep(p)
    PROVE  /\ proc[p].pc \in InPort
           /\ \E pc \in InPort : Moved(p, pc, proc[p].view)
           /\ UNCHANGED <<kind, target, now, journal, calls>>
<1>1. proc[p].pc \in InPort
  BY DEF PortStep, PortRefuses, PortReplays, PortExecutes, PortSettles, PortFails,
         PortReturns, InPort
<1>2. \E pc \in InPort : Goto(p, pc)
  BY DEF PortStep, PortRefuses, PortReplays, PortExecutes, PortSettles, PortFails,
         PortReturns, InPort
<1>3. UNCHANGED <<kind, target, now, journal, calls>>
  BY DEF PortStep, PortRefuses, PortReplays, PortExecutes, PortSettles, PortFails,
         PortReturns
<1>4. InPort \subseteq ProcPc /\ TypeInv
  BY DEF InPort, ProcPc, Inv
<1>5. QED BY <1>1, <1>2, <1>3, <1>4, GotoMoves

\* Only a slot without a row is captured, and then it has one.
LEMMA PortCapturesOnce ==
    ASSUME TypeInv, OnceInv, NEW p \in Procs, PortStep(p)
    PROVE  /\ OnceInv'
           /\ batch' \in [AllSlots -> BatchState] /\ rf' \in [AllSlots -> Nat]
<1>1. CASE PortExecutes(p)
  <2> DEFINE s == SlotOf(p)
  <2>1. /\ batch[s] = "none" /\ batch' = [batch EXCEPT ![s] = "open"]
        /\ rf' = [rf EXCEPT ![s] = @ + 1]
    BY <1>1 DEF PortExecutes, Executable
  <2>2. rf \in [AllSlots -> Nat] /\ batch \in [AllSlots -> BatchState]
    BY DEF TypeInv
  <2> HIDE DEF s
  <2>3. /\ rf' \in [AllSlots -> Nat]
        /\ \A t \in AllSlots : rf'[t] = IF t = s THEN rf[t] + 1 ELSE rf[t]
    BY <2>1, <2>2, CountTyped
  <2>4. /\ batch' \in [AllSlots -> BatchState]
        /\ \A t \in AllSlots : batch'[t] = IF t = s THEN "open" ELSE batch[t]
    BY <2>1, <2>2 DEF BatchState
  <2>5. QED BY <2>1, <2>2, <2>3, <2>4 DEF OnceInv
<1>2. CASE PortSettles(p)
  <2>1. PICK result \in {"rejected", "eligible"} : batch' = [batch EXCEPT ![SlotOf(p)] = result]
    BY <1>2 DEF PortSettles
  <2>2. rf' = rf
    BY <1>2 DEF PortSettles
  <2>3. /\ batch' \in [AllSlots -> BatchState]
        /\ \A t \in AllSlots : batch'[t] = "none" => batch[t] = "none"
    BY <2>1 DEF TypeInv, BatchState
  <2>4. QED BY <2>2, <2>3 DEF OnceInv, TypeInv
<1>3. CASE ~PortExecutes(p) /\ ~PortSettles(p)
  <2>1. UNCHANGED <<batch, rf>>
    BY <1>3 DEF PortStep, PortRefuses, PortReplays, PortFails, PortReturns
  <2>2. QED BY <2>1, OnceFrame DEF TypeInv
<1>4. QED BY <1>1, <1>2, <1>3

\* A call of the port keeps the invariant of every coordinator.
LEMMA PortKeeps ==
    ASSUME Inv, NEW p \in Procs, PortStep(p), UNCHANGED drainVars
    PROVE  Inv'
<1>1. PICK pc \in InPort : Moved(p, pc, proc[p].view)
  BY PortMoves
<1>2. UNCHANGED <<kind, target, now, journal, calls>> /\ proc[p].pc \in InPort
  BY PortMoves
<1>3. OnceInv' /\ WorkInv'
  BY PortCapturesOnce, WorkFrame DEF Inv
<1>4. TypeInv'
  BY <1>1, <1>2, PortCapturesOnce DEF Inv, TypeInv, Moved
<1>5. pc \notin {"idle", "planned", "analysing", "draining", "reconciling"}
      /\ proc[p].pc \notin {"idle", "planned", "analysing", "draining", "reconciling"}
  BY <1>1, <1>2 DEF InPort
<1>6. LockInv'
  <2>1. CASE kind = "deferred"
    <3>1. Alone(p) /\ journal.phase = "capturing" /\ Len(journal.records) <= Slots
      BY <1>2, <1>5, <2>1, BusyIsAlone DEF Inv, LockInv
    <3>2. drain'["staged"].stage = 0
      BY <1>2, <1>5, <2>1, <3>1 DEF Inv, LockInv, drainVars
    <3>3. QED BY <1>1, <1>2, <1>5, <2>1, <3>1, <3>2, LockMoves
  <2>2. CASE kind # "deferred"
    BY <1>1, <1>2, <1>5, <2>2 DEF Inv, LockInv, Moved
  <2>3. QED BY <2>1, <2>2
<1>7. CanaryInv'
  <2> SUFFICES ASSUME kind = "canary" PROVE CanaryInv'
    BY <1>2 DEF CanaryInv
  <2>1. \A q \in Procs : /\ proc'[q].view = proc[q].view
                         /\ proc'[q].pc = "planned" => proc[q].pc = "planned"
                         /\ proc'[q].pc \in InPort => proc[q].pc \in InPort
    BY <1>1, <1>2, <1>5 DEF Moved
  <2>2. QED BY <1>2, <2>1 DEF Inv, CanaryInv, View, LastIs, AllCaptured
<1>8. QED BY <1>3, <1>4, <1>6, <1>7 DEF Inv

-----------------------------------------------------------------------------
(* The deferred campaign.                                                  *)

\* The last record of a journal that has one.
LEMMA LastTyped ==
    ASSUME NEW j \in JournalType, j.records # <<>>
    PROVE  /\ Last(j.records) \in Record /\ Last(j.records) = j.records[Len(j.records)]
           /\ Len(j.records) \in Nat \ {0}
<1>1. j.records \in Seq(Record)
  BY DEF JournalType
<1>2. Len(j.records) \in Nat \ {0}
  BY <1>1
<1>3. QED BY <1>1, <1>2 DEF Last

\* A staged drain is in no window while another command is at work.
LEMMA NotInWindow ==
    ASSUME LockInv, kind = "deferred", NEW p \in Procs, Alone(p),
           proc[p].pc \notin {"draining", "reconciling"}
    PROVE  drain["staged"].stage = 0
BY DEF LockInv, Alone

\* A command writes the journal and returns.
LEMMA DeferredWrites ==
    ASSUME Inv, kind = "deferred", LockFree, NEW new \in JournalType, Write(new),
           Len(new.records) <= Slots, UNCHANGED drainVars
    PROVE  Inv'
<1>1. journal' = new /\ UNCHANGED <<kind, target, now, batch, proc, rf, calls>>
  BY DEF Write
<1>2. TypeInv'
  BY <1>1 DEF Inv, TypeInv
<1>3. OnceInv' /\ WorkInv'
  BY <1>1, OnceFrame, WorkFrame DEF Inv
<1>4. LockInv'
  BY <1>1, LockWrites DEF Inv
<1>5. CanaryInv'
  BY <1>1 DEF CanaryInv
<1>6. QED BY <1>2, <1>3, <1>4, <1>5 DEF Inv

\* The process that holds the lock moves on.
LEMMA DeferredMoves ==
    ASSUME Inv, kind = "deferred", NEW p \in Procs, Alone(p),
           NEW pc, NEW view, Moved(p, pc, view),
           UNCHANGED <<kind, target, now, batch, rf>>, calls' \in [AllSlots -> Nat],
           journal' \in JournalType, Len(journal'.records) <= Slots,
           pc \in InPort => journal'.phase = "capturing",
           pc \in {"analysing", "reconciling"} => journal'.phase = "analyzing",
           drain'["staged"].stage # 0 =>
               journal'.phase = "analyzing" /\ pc \in {"draining", "reconciling"},
           WorkInv'
    PROVE  Inv'
<1>1. TypeInv'
  BY DEF Inv, TypeInv, Moved
<1>2. OnceInv'
  BY OnceFrame DEF Inv
<1>3. LockInv'
  BY LockMoves
<1>4. CanaryInv'
  BY DEF CanaryInv
<1>5. QED BY <1>1, <1>2, <1>3, <1>4 DEF Inv

\* What every command of the deferred campaign finds.
LEMMA DeferredFinds ==
    ASSUME Inv, kind = "deferred"
    PROVE  journal \in JournalType /\ Len(journal.records) <= Slots
BY DEF Inv, TypeInv, LockInv

\* capture_next, as far as a record.
LEMMA PlanSlotKeeps ==
    ASSUME Inv, NEW p \in Procs, PlanSlot(p), UNCHANGED drainVars
    PROVE  Inv'
<1>1. kind = "deferred" /\ LockFree
  BY DEF PlanSlot, Command
<1>2. journal \in JournalType /\ Len(journal.records) <= Slots
  BY <1>1, DeferredFinds
<1>3. CASE Write([journal EXCEPT !.phase = "analyzing"])
  BY <1>1, <1>2, <1>3, PhaseRewrites, DeferredWrites DEF Phase
<1>4. CASE Write(Halted(journal, "window_ended"))
  BY <1>1, <1>2, <1>4, HaltedRewrites, DeferredWrites DEF HaltReason
<1>5. CASE Write(Halted(journal, "missed_slot"))
  BY <1>1, <1>2, <1>5, HaltedRewrites, DeferredWrites DEF HaltReason
<1>6. CASE WindowHas(NextSlot) /\ Write([journal EXCEPT !.records = Append(@, NewRecord)])
  <2>1. NewRecord \in Record
    BY DEF NewRecord, Record, RecordPhase
  <2>2. Len(journal.records) + 1 <= Slots
    BY <1>6 DEF WindowHas, NextSlot
  <2>3. QED BY <1>1, <1>2, <1>6, <2>1, <2>2, AppendRewrites, DeferredWrites
<1>7. QED BY <1>3, <1>4, <1>5, <1>6 DEF PlanSlot

\* A record that can no longer be captured.
LEMMA GiveUpKeeps ==
    ASSUME Inv, NEW p \in Procs, GiveUp(p), UNCHANGED drainVars
    PROVE  Inv'
<1>1. kind = "deferred" /\ LockFree /\ journal.records # <<>>
  BY DEF GiveUp, Command, LastIs
<1>2. journal \in JournalType /\ Len(journal.records) <= Slots
  BY <1>1, DeferredFinds
<1> DEFINE record == [Last(journal.records) EXCEPT !.phase = "abandoned"]
<1>3. record \in Record
  BY <1>1, <1>2, LastTyped DEF Record, RecordPhase
<1>4. CASE Write(Halted(journal, "capture_uncertain"))
  BY <1>1, <1>2, <1>4, HaltedRewrites, DeferredWrites DEF HaltReason
<1>5. CASE Write(Halted(WithLast(journal, record), "missed_slot"))
  <2>1. WithLast(journal, record) \in JournalType
        /\ Len(WithLast(journal, record).records) = Len(journal.records)
    BY <1>1, <1>2, <1>3, WithLastRewrites
  <2>2. Halted(WithLast(journal, record), "missed_slot") \in JournalType
        /\ Len(Halted(WithLast(journal, record), "missed_slot").records) <= Slots
    BY <1>2, <2>1, HaltedRewrites DEF HaltReason
  <2>3. QED BY <1>1, <1>5, <2>2, DeferredWrites
<1>6. QED BY <1>4, <1>5 DEF GiveUp

\* The invocation, counted before the call.
LEMMA InvokeKeeps ==
    ASSUME Inv, NEW p \in Procs, Invoke(p), UNCHANGED drainVars
    PROVE  Inv'
<1> DEFINE record == [Last(journal.records) EXCEPT !.captures = @ + 1]
           new == WithLast(journal, record)
<1>1. kind = "deferred" /\ LockFree /\ journal.records # <<>> /\ journal.phase = "capturing"
  BY DEF Invoke, Command, LastIs
<1>2. journal \in JournalType /\ Len(journal.records) <= Slots
  BY <1>1, DeferredFinds
<1>3. record \in Record
  BY <1>1, <1>2, LastTyped DEF Record
<1>4. Call(p, new) /\ UNCHANGED <<kind, target, now, batch, rf>>
  BY DEF Invoke
<1> HIDE DEF record
<1>5. new \in JournalType /\ new.phase = "capturing" /\ Len(new.records) <= Slots
  BY <1>1, <1>2, <1>3, WithLastRewrites
<1> HIDE DEF new
<1>6. /\ Moved(p, "invoked", new) /\ journal' = new
      /\ calls' \in [AllSlots -> Nat]
  BY <1>4, <1>5, CallMoves DEF Inv
<1>7. Alone(p)
  BY <1>1, BusyIsAlone DEF Inv
<1>8. proc[p].pc = "idle"
  BY <1>1 DEF LockFree
<1>9. drain'["staged"].stage = 0
  BY <1>1, <1>7, <1>8, NotInWindow DEF Inv, drainVars
<1>10. WorkInv'
  BY WorkFrame DEF Inv
<1>11. QED BY <1>1, <1>4, <1>5, <1>6, <1>7, <1>9, <1>10, DeferredMoves DEF InPort

\* The port has answered.
LEMMA AnswerKeeps ==
    ASSUME Inv, NEW p \in Procs, Uncertain(p) \/ Journalled(p), UNCHANGED drainVars
    PROVE  Inv'
<1>1. kind = "deferred" /\ proc[p].pc \in {"raised", "returned"} /\ Return(p)
      /\ UNCHANGED <<kind, target, now, batch, rf, calls>>
  BY DEF Uncertain, Journalled
<1>2. journal \in JournalType /\ Len(journal.records) <= Slots
  BY <1>1, DeferredFinds
<1>3. journal' \in JournalType /\ Len(journal'.records) <= Slots
  <2>1. CASE journal' = journal
    BY <1>2, <2>1
  <2> DEFINE failed == WithPhase(journal, SlotOf(p), "terminal_failed")
             captured == WithPhase(journal, SlotOf(p), "captured")
  <2>2. /\ failed \in JournalType /\ Len(failed.records) <= Slots
        /\ captured \in JournalType /\ Len(captured.records) <= Slots
    BY <1>2, WithPhaseRewrites DEF RecordPhase
  <2>3. CASE journal' = captured
    BY <2>2, <2>3
  <2>4. CASE journal' = Halted(failed, "integrity_failure")
    BY <2>2, <2>4, HaltedRewrites DEF HaltReason
  <2>5. QED BY <2>1, <2>3, <2>4 DEF Uncertain, Journalled, Settled
<1>4. Moved(p, "idle", EmptyJournal)
  BY <1>1, ReturnMoves DEF Inv
<1>5. Alone(p)
  BY <1>1, BusyIsAlone DEF Inv
<1>6. drain'["staged"].stage = 0
  BY <1>1, <1>5, NotInWindow DEF Inv, drainVars
<1>7. WorkInv' /\ calls' \in [AllSlots -> Nat]
  BY <1>1, WorkFrame DEF Inv, TypeInv
<1>8. QED BY <1>1, <1>3, <1>4, <1>5, <1>6, <1>7, DeferredMoves DEF InPort

\* The collection is closed.
LEMMA CloseCaptureKeeps ==
    ASSUME Inv, NEW p \in Procs, CloseCapture(p), UNCHANGED drainVars
    PROVE  Inv'
<1> DEFINE new == [journal EXCEPT !.phase = "analyzing", !.halt = "none"]
<1>1. kind = "deferred" /\ LockFree /\ Write(new)
  BY DEF CloseCapture, Command
<1>2. journal \in JournalType /\ Len(journal.records) <= Slots
  BY <1>1, DeferredFinds
<1>3. new \in JournalType /\ Len(new.records) <= Slots
  BY <1>2 DEF JournalType, Phase, HaltReason
<1> HIDE DEF new
<1>4. QED BY <1>1, <1>3, DeferredWrites

\* A record with one more analysis is a record.
LEMMA CountedTyped ==
    ASSUME NEW j \in JournalType, NEW s
    PROVE  LET new == [j EXCEPT !.records[s] = Counted(@)] IN
           /\ new \in JournalType /\ new.phase = j.phase
           /\ Len(new.records) = Len(j.records)
<1> DEFINE r == Counted(j.records[s])
<1>1. s \in 1 .. Len(j.records) => r \in Record
  <2>1. j.records \in Seq(Record)
    BY DEF JournalType
  <2>2. s \in 1 .. Len(j.records) => j.records[s] \in Record
    BY <2>1
  <2>3. QED BY <2>2, AnalysisCounts
<1>2. [j EXCEPT !.records[s] = Counted(@)] = [j EXCEPT !.records[s] = r]
  OBVIOUS
<1> HIDE DEF r
<1>3. QED BY <1>1, <1>2, CountedRewrites

\* analyze_next.
LEMMA AnalyzeNextKeeps ==
    ASSUME Inv, NEW p \in Procs, AnalyzeNext(p), UNCHANGED drainVars
    PROVE  Inv'
<1>1. kind = "deferred" /\ LockFree /\ proc[p].pc = "idle" /\ journal.phase = "analyzing"
  BY DEF AnalyzeNext, Command
<1>2. journal \in JournalType /\ Len(journal.records) <= Slots
  BY <1>1, DeferredFinds
<1>3. CASE Write([journal EXCEPT !.phase = "complete"])
  BY <1>1, <1>2, <1>3, PhaseRewrites, DeferredWrites DEF Phase
<1>4. CASE Write(Halted(journal, "analysis_failed"))
  BY <1>1, <1>2, <1>4, HaltedRewrites, DeferredWrites DEF HaltReason
<1>5. CASE /\ journal' = [journal EXCEPT !.records[Candidate] = Counted(@)]
           /\ Goto(p, "analysing")
           /\ UNCHANGED <<kind, target, now, batch, rf, calls>>
  <2>1. journal' \in JournalType /\ journal'.phase = "analyzing" /\ Len(journal'.records) <= Slots
    BY <1>1, <1>2, <1>5, CountedTyped
  <2>2. Moved(p, "analysing", proc[p].view)
    BY <1>5, GotoMoves DEF Inv, ProcPc
  <2>3. Alone(p)
    BY <1>1, BusyIsAlone DEF Inv
  <2>4. drain'["staged"].stage = 0
    BY <1>1, <2>3, NotInWindow DEF Inv, drainVars
  <2>5. WorkInv' /\ calls' \in [AllSlots -> Nat]
    BY <1>5, WorkFrame DEF Inv, TypeInv
  <2>6. QED BY <1>1, <1>5, <2>1, <2>2, <2>3, <2>4, <2>5, DeferredMoves DEF InPort
<1>6. QED BY <1>3, <1>4, <1>5 DEF AnalyzeNext

\* The answer of the analysis.
LEMMA AnalysisEndsKeeps ==
    ASSUME Inv, NEW p \in Procs, AnalysisEnds(p), UNCHANGED drainVars
    PROVE  Inv'
<1>1. kind = "deferred" /\ proc[p].pc = "analysing" /\ Return(p)
      /\ UNCHANGED <<kind, target, now, batch, rf, calls>>
  BY DEF AnalysisEnds
<1>2. journal \in JournalType /\ Len(journal.records) <= Slots
  BY <1>1, DeferredFinds
<1>3. journal' \in JournalType /\ Len(journal'.records) <= Slots
  <2>1. PICK phase \in {"complete", "analysis_failed"} : journal' = WithPhase(journal, Candidate, phase)
    BY DEF AnalysisEnds
  <2>2. QED BY <1>2, <2>1, WithPhaseRewrites DEF RecordPhase
<1>4. Moved(p, "idle", EmptyJournal)
  BY <1>1, ReturnMoves DEF Inv
<1>5. Alone(p)
  BY <1>1, BusyIsAlone DEF Inv
<1>6. drain'["staged"].stage = 0
  BY <1>1, <1>5, NotInWindow DEF Inv, drainVars
<1>7. WorkInv' /\ calls' \in [AllSlots -> Nat]
  BY <1>1, WorkFrame DEF Inv, TypeInv
<1>8. QED BY <1>1, <1>3, <1>4, <1>5, <1>6, <1>7, DeferredMoves DEF InPort

\* Every step of the deferred coordinator.
LEMMA DeferredKeeps ==
    ASSUME Inv, NEW p \in Procs, DeferredStep(p), UNCHANGED drainVars
    PROVE  Inv'
BY PlanSlotKeeps, GiveUpKeeps, InvokeKeeps, AnswerKeeps, CloseCaptureKeeps,
   AnalyzeNextKeeps, AnalysisEndsKeeps DEF DeferredStep

-----------------------------------------------------------------------------
(* The one-shot campaign.                                                  *)

\* Its process moves on; the drains are not its business.
LEMMA OneShotMoves ==
    ASSUME Inv, kind = "one_shot",
           UNCHANGED <<kind, target, now, batch, rf, drainVars>>,
           calls' \in [AllSlots -> Nat], journal' \in JournalType,
           \/ proc' = proc
           \/ \E p \in Procs, pc \in ProcPc \ {"draining", "reconciling"}, view \in JournalType :
                Moved(p, pc, view)
    PROVE  Inv'
<1>1. /\ proc' \in [Procs -> ProcType]
      /\ \A q \in Procs : proc'[q].pc \notin {"draining", "reconciling"}
  <2>1. CASE proc' = proc
    BY <2>1 DEF Inv, TypeInv, LockInv
  <2>2. CASE proc' # proc
    <3>1. PICK p \in Procs, pc \in ProcPc \ {"draining", "reconciling"}, view \in JournalType :
             Moved(p, pc, view)
      BY <2>2
    <3>2. QED BY <3>1 DEF Moved, Inv, LockInv
  <2>3. QED BY <2>1, <2>2
<1>2. TypeInv' /\ LockInv'
  BY <1>1 DEF Inv, TypeInv, LockInv
<1>3. OnceInv' /\ WorkInv'
  BY OnceFrame, WorkFrame DEF Inv
<1>4. CanaryInv'
  BY DEF CanaryInv
<1>5. QED BY <1>2, <1>3, <1>4 DEF Inv

\* A new record, or a fresh attempt.
LEMMA PlanUnitKeeps ==
    ASSUME Inv, NEW p \in Procs, PlanUnit(p), UNCHANGED drainVars
    PROVE  Inv'
<1> DEFINE retry == IF LastIs(journal, "terminal_failed") THEN Last(journal.records).retry + 1 ELSE 0
           record == [NewRecord EXCEPT !.retry = retry]
<1>1. /\ kind = "one_shot" /\ UNCHANGED <<kind, target, now, batch, proc, rf, calls>>
      /\ journal' = [journal EXCEPT !.records = Append(@, record)]
  BY DEF PlanUnit, RunNext
<1>2. journal \in JournalType /\ calls \in [AllSlots -> Nat]
  BY DEF Inv, TypeInv
<1>3. retry \in Nat
  BY <1>2, LastTyped DEF LastIs, Record
<1> HIDE DEF retry
<1>4. record \in Record
  BY <1>3 DEF NewRecord, Record, RecordPhase
<1> HIDE DEF record
<1>5. journal' \in JournalType
  BY <1>1, <1>2, <1>4, AppendRewrites
<1>6. QED BY <1>1, <1>2, <1>5, OneShotMoves

\* The invocation, counted before the call.
LEMMA RunCaptureKeeps ==
    ASSUME Inv, NEW p \in Procs, RunCapture(p), UNCHANGED drainVars
    PROVE  Inv'
<1> DEFINE record == [Last(journal.records) EXCEPT !.captures = @ + 1]
           new == WithLast(journal, record)
<1>1. kind = "one_shot" /\ journal.records # <<>> /\ Call(p, new)
      /\ UNCHANGED <<kind, target, now, batch, rf>>
  BY DEF RunCapture, RunNext, LastIs
<1>2. journal \in JournalType
  BY DEF Inv, TypeInv
<1>3. record \in Record
  BY <1>1, <1>2, LastTyped DEF Record
<1> HIDE DEF record
<1>4. new \in JournalType
  BY <1>1, <1>2, <1>3, WithLastRewrites
<1> HIDE DEF new
<1>5. /\ Moved(p, "invoked", new) /\ journal' = new
      /\ calls' \in [AllSlots -> Nat]
  BY <1>1, <1>4, CallMoves DEF Inv
<1>6. QED BY <1>1, <1>4, <1>5, OneShotMoves DEF ProcPc

\* The answer of the capture port, or of the analysis.
LEMMA UnitAnswerKeeps ==
    ASSUME Inv, NEW p \in Procs,
           CaptureUncertain(p) \/ CaptureFailed(p) \/ Captured(p) \/ AnalysisReturns(p),
           UNCHANGED drainVars
    PROVE  Inv'
<1>1. kind = "one_shot" /\ UNCHANGED <<kind, target, now, batch, rf, calls>>
      /\ (Return(p) \/ Goto(p, "planned"))
  BY DEF CaptureUncertain, CaptureFailed, Captured, AnalysisReturns
<1>2. journal \in JournalType /\ calls \in [AllSlots -> Nat] /\ proc[p].view \in JournalType
  BY DEF Inv, TypeInv, ProcType
<1>3. journal' \in JournalType
  <2>1. journal' = journal \/ \E s \in {SlotOf(p), Len(journal.records)}, phase \in RecordPhase :
          journal' = WithPhase(journal, s, phase)
    BY DEF CaptureUncertain, CaptureFailed, Captured, AnalysisReturns, RecordPhase
  <2>2. QED BY <1>2, <2>1, WithPhaseRewrites
<1>4. Moved(p, "idle", EmptyJournal) \/ Moved(p, "planned", proc[p].view)
  BY <1>1, ReturnMoves, GotoMoves DEF Inv, ProcPc
<1>5. QED BY <1>1, <1>2, <1>3, <1>4, EmptyIsTyped, OneShotMoves DEF ProcPc

\* The analysis that follows, counted before the call.
LEMMA RunAnalysisKeeps ==
    ASSUME Inv, NEW p \in Procs, RunAnalysis(p), UNCHANGED drainVars
    PROVE  Inv'
<1> DEFINE s == Len(journal.records)
           r == [journal.records[s] EXCEPT !.analyses = @ + 1]
<1>1. /\ kind = "one_shot" /\ UNCHANGED <<kind, target, now, batch, rf, calls>>
      /\ Goto(p, "analysing")
      /\ journal' = [journal EXCEPT !.records[s].analyses = @ + 1]
  BY DEF RunAnalysis, RunNext, CountAnalysis
<1>2. journal \in JournalType /\ calls \in [AllSlots -> Nat] /\ proc[p].view \in JournalType
  BY DEF Inv, TypeInv, ProcType
<1>3. s \in 1 .. s => r \in Record
  <2>1. journal.records \in Seq(Record)
    BY <1>2 DEF JournalType
  <2>2. s \in 1 .. s => journal.records[s] \in Record
    BY <2>1
  <2>3. r = Counted(journal.records[s])
    BY DEF Counted
  <2> HIDE DEF r
  <2>4. QED BY <2>2, <2>3, AnalysisCounts
<1>4. journal' = [journal EXCEPT !.records[s] = r]
  BY <1>1
<1> HIDE DEF r
<1>5. journal' \in JournalType
  BY <1>2, <1>3, <1>4, CountedRewrites
<1>6. Moved(p, "analysing", proc[p].view)
  BY <1>1, GotoMoves DEF Inv, ProcPc
<1>7. QED BY <1>1, <1>2, <1>5, <1>6, OneShotMoves DEF ProcPc

\* Every step of the one-shot coordinator.
LEMMA OneShotKeeps ==
    ASSUME Inv, NEW p \in Procs, OneShotStep(p), UNCHANGED drainVars
    PROVE  Inv'
BY PlanUnitKeeps, RunCaptureKeeps, UnitAnswerKeeps, RunAnalysisKeeps DEF OneShotStep

-----------------------------------------------------------------------------
(* The canary.                                                             *)

\* What journal j tells of the calls c.
JournalTells(j, c) ==
    /\ \A s \in AllSlots : c[s] <= 1
    /\ \A s \in AllSlots : s > Len(j.records) => c[s] = 0
    /\ \A s \in AllSlots : s <= Len(j.records) /\ j.records[s].phase = "planned" => c[s] = 0
    /\ j.phase \in {"analyzing", "complete"} => AllCaptured(j)

\* Process p moves, and the journal still tells of the calls.
LEMMA CanaryMoves ==
    ASSUME Inv, kind = "canary", NEW p \in Procs,
           NEW pc \in ProcPc \ {"draining", "reconciling"}, NEW view, Moved(p, pc, view),
           pc = "planned" => LastIs(view, "planned"),
           pc \in InPort \cup {"planned"} => view.phase = "capturing",
           UNCHANGED <<kind, target, now, batch, rf, drainVars>>,
           calls' \in [AllSlots -> Nat], journal' \in JournalType,
           JournalTells(journal', calls')
    PROVE  Inv'
<1>1. TypeInv'
  BY DEF Inv, TypeInv, Moved
<1>2. OnceInv' /\ WorkInv'
  BY OnceFrame, WorkFrame DEF Inv
<1>3. LockInv'
  BY DEF Inv, LockInv, Moved
<1>4. CanaryInv'
  <2>1. \A q \in Procs : /\ proc'[q].pc = "planned" => LastIs(proc'[q].view, "planned")
                         /\ proc'[q].pc \in InPort \cup {"planned"}
                              => proc'[q].view.phase = "capturing"
    <3> SUFFICES ASSUME NEW q \in Procs
                 PROVE  /\ proc'[q].pc = "planned" => LastIs(proc'[q].view, "planned")
                        /\ proc'[q].pc \in InPort \cup {"planned"}
                             => proc'[q].view.phase = "capturing"
      OBVIOUS
    <3>1. CASE q = p
      BY <3>1 DEF Moved
    <3>2. CASE q # p
      BY <3>2 DEF Moved, Inv, CanaryInv, View
    <3>3. QED BY <3>1, <3>2
  <2>2. QED BY <2>1 DEF CanaryInv, JournalTells, View, LastIs, AllCaptured
<1>5. QED BY <1>1, <1>2, <1>3, <1>4 DEF Inv

\* What every step of the canary finds.
LEMMA CanaryFinds ==
    ASSUME Inv, kind = "canary", NEW p \in Procs
    PROVE  /\ journal \in JournalType /\ View(p) \in JournalType
           /\ calls \in [AllSlots -> Nat] /\ JournalTells(journal, calls)
BY DEF Inv, TypeInv, CanaryInv, JournalTells, View, ProcType

\* Slots accepted are a matter of the records.
LEMMA AcceptedOfRecords ==
    ASSUME NEW i \in JournalType, NEW j \in JournalType, i.records = j.records
    PROVE  AllCaptured(i) = AllCaptured(j)
BY DEF AllCaptured, Accepted

\* The journal is halted, or turns to its next phase.
LEMMA TellsTheSame ==
    ASSUME NEW c, NEW j \in JournalType, JournalTells(j, c), NEW new \in JournalType,
           new.records = j.records,
           new.phase \in {"analyzing", "complete"} => AllCaptured(j)
    PROVE  JournalTells(new, c)
<1>1. AllCaptured(new) = AllCaptured(j)
  BY AcceptedOfRecords
<1>2. QED BY <1>1 DEF JournalTells

\* A record that is settled is no longer planned.
LEMMA TellsOfSettled ==
    ASSUME NEW c, NEW j \in JournalType, JournalTells(j, c), NEW new \in JournalType,
           Len(new.records) = Len(j.records),
           \A s \in 1 .. Len(j.records) :
              new.records[s].phase = "planned" => j.records[s].phase = "planned",
           new.phase \in {"analyzing", "complete"} => AllCaptured(new)
    PROVE  JournalTells(new, c)
<1>1. \A s \in AllSlots : s <= Len(j.records) => s \in 1 .. Len(j.records)
  BY DEF AllSlots, JournalType
<1>2. QED BY <1>1 DEF JournalTells

\* The operation ends with a write, or with the refusal of one.
LEMMA FinishKeeps ==
    ASSUME Inv, kind = "canary", NEW p \in Procs, Return(p), UNCHANGED drainVars,
           UNCHANGED <<kind, target, now, batch, rf, calls>>,
           journal' \in JournalType, JournalTells(journal', calls)
    PROVE  Inv'
<1>1. Moved(p, "idle", EmptyJournal) /\ calls' \in [AllSlots -> Nat]
  BY ReturnMoves DEF Inv, TypeInv
<1>2. JournalTells(journal', calls')
  OBVIOUS
<1>3. "idle" \in ProcPc \ {"draining", "reconciling"} /\ "idle" \notin InPort \cup {"planned"}
  BY DEF ProcPc, InPort
<1>4. QED BY <1>1, <1>2, <1>3, CanaryMoves

\* The copy in which a process captures or analyses.
LEMMA AtPlannedMeans ==
    ASSUME Inv, NEW p \in Procs, AtPlanned(p)
    PROVE  kind = "canary" /\ View(p).phase = "capturing" /\ LastIs(View(p), "planned")
BY DEF Inv, CanaryInv, AtPlanned, MayCapture

\* The operations that load the journal, give up or lose the race.
LEMMA LoadKeeps ==
    ASSUME Inv, NEW p \in Procs, Load(p) \/ Postpone(p) \/ LoseRace(p), UNCHANGED drainVars
    PROVE  Inv' /\ journal' = journal
<1>1. kind = "canary" /\ UNCHANGED <<kind, target, now, journal, batch, rf, calls>>
  BY DEF Load, Postpone, LoseRace, AtPlanned
<1>2. /\ journal \in JournalType /\ calls \in [AllSlots -> Nat]
      /\ JournalTells(journal, calls)
  BY <1>1, CanaryFinds
<1>3. CASE Return(p)
  <2>1. journal' \in JournalType /\ JournalTells(journal', calls)
    BY <1>1, <1>2
  <2>2. QED BY <1>1, <1>3, <2>1, FinishKeeps
<1>4. CASE Load(p)
  <2> DEFINE new == [pc |-> "loaded", view |-> journal, at |-> now]
  <2>1. new \in ProcType
    BY <1>2 DEF ProcType, ProcPc, Inv, TypeInv
  <2>2. proc' = [proc EXCEPT ![p] = new]
    BY <1>4 DEF Load
  <2>3. new.pc = "loaded" /\ new.view = journal
    OBVIOUS
  <2> HIDE DEF new
  <2>4. Moved(p, "loaded", journal)
    BY <2>1, <2>2, <2>3 DEF Moved, Inv, TypeInv
  <2>5. "loaded" \in ProcPc \ {"draining", "reconciling"} /\ "loaded" \notin InPort \cup {"planned"}
    BY DEF ProcPc, InPort
  <2>6. journal' \in JournalType /\ calls' \in [AllSlots -> Nat] /\ JournalTells(journal', calls')
    BY <1>1, <1>2
  <2>7. QED BY <1>1, <2>4, <2>5, <2>6, CanaryMoves
<1>5. QED BY <1>1, <1>3, <1>4 DEF Postpone, LoseRace

\* A halt, whatever its reason, finds the journal open.
LEMMA HaltKeeps ==
    ASSUME Inv, NEW p \in Procs,
           FindInvoked(p) \/ MissSlot(p) \/ CanaryUncertain(p) \/ ReconcileFails(p),
           UNCHANGED drainVars
    PROVE  Inv' /\ journal.phase # "halted"
<1>1. kind = "canary"
  BY DEF FindInvoked, MissSlot, CanaryUncertain, ReconcileFails, AtPlanned, Loaded
<1>2. PICK reason \in HaltReason : Finish(p, Halted(View(p), reason))
  BY DEF FindInvoked, MissSlot, CanaryUncertain, ReconcileFails, HaltReason
<1>3. /\ journal = View(p) /\ journal' = Halted(journal, reason) /\ Return(p)
      /\ UNCHANGED <<kind, target, now, batch, rf, calls>>
  BY <1>2 DEF Finish, CompareAndSwap
<1>4. View(p).phase # "halted"
  BY AtPlannedMeans DEF FindInvoked, MissSlot, CanaryUncertain, ReconcileFails, Loaded,
       Inv, CanaryInv, InPort
<1>5. journal \in JournalType /\ JournalTells(journal, calls)
  BY <1>1, CanaryFinds
<1>6. journal' \in JournalType /\ journal'.records = journal.records /\ journal'.phase = "halted"
  BY <1>3, <1>5, HaltedRewrites
<1>7. JournalTells(journal', calls)
  BY <1>5, <1>6, TellsTheSame
<1>8. QED BY <1>1, <1>3, <1>4, <1>6, <1>7, FinishKeeps

\* All slots are captured.
LEMMA StartAnalysisKeeps ==
    ASSUME Inv, NEW p \in Procs, StartAnalysis(p), UNCHANGED drainVars
    PROVE  Inv' /\ journal.phase # "halted"
<1>1. /\ kind = "canary" /\ journal = View(p) /\ View(p).phase = "capturing"
      /\ AllCaptured(journal) /\ Return(p)
      /\ journal' = [journal EXCEPT !.phase = "analyzing"]
      /\ UNCHANGED <<kind, target, now, batch, rf, calls>>
  BY DEF StartAnalysis, Finish, CompareAndSwap, Loaded
<1>2. journal \in JournalType /\ JournalTells(journal, calls)
  BY <1>1, CanaryFinds
<1>3. journal' \in JournalType /\ journal'.records = journal.records
  BY <1>1, <1>2, PhaseRewrites DEF Phase
<1>4. JournalTells(journal', calls)
  BY <1>1, <1>2, <1>3, TellsTheSame
<1>5. QED BY <1>1, <1>3, <1>4, FinishKeeps

\* A record is written and the operation goes on.
LEMMA PlanCanaryKeeps ==
    ASSUME Inv, NEW p \in Procs, PlanCanary(p), UNCHANGED drainVars
    PROVE  Inv' /\ journal.phase # "halted"
<1> DEFINE new == [journal EXCEPT !.records = Append(@, NewRecord)]
<1>1. /\ kind = "canary" /\ journal = View(p) /\ View(p).phase = "capturing"
      /\ journal' = new /\ proc' = [proc EXCEPT ![p].pc = "planned", ![p].view = new]
      /\ UNCHANGED <<kind, target, now, batch, rf, calls>>
  BY DEF PlanCanary, Continue, CompareAndSwap, Loaded
<1>2. journal \in JournalType /\ calls \in [AllSlots -> Nat] /\ JournalTells(journal, calls)
  BY <1>1, CanaryFinds
<1>3. NewRecord \in Record /\ NewRecord.phase = "planned"
  BY DEF NewRecord, Record, RecordPhase
<1>4. /\ new \in JournalType /\ new.phase = "capturing"
      /\ Len(new.records) = Len(journal.records) + 1
      /\ new.records[Len(journal.records) + 1] = NewRecord
      /\ \A s \in 1 .. Len(journal.records) : new.records[s] = journal.records[s]
  <2>1. journal.phase = "capturing"
    BY <1>1
  <2>2. QED BY <1>2, <1>3, <2>1, AppendRewrites
<1> HIDE DEF new
<1>5. LastIs(new, "planned")
  <2>1. Len(new.records) # 0 /\ new.records \in Seq(Record) /\ Len(journal.records) \in Nat
    BY <1>2, <1>4 DEF JournalType
  <2>2. new.records # <<>>
    BY <2>1
  <2>3. QED BY <1>3, <1>4, <2>2 DEF LastIs, Last
<1>6. Moved(p, "planned", new)
  <2> DEFINE moved == [proc[p] EXCEPT !.pc = "planned", !.view = new]
  <2>1. proc \in [Procs -> ProcType] /\ proc[p] \in ProcType
    BY DEF Inv, TypeInv
  <2>2. moved \in ProcType /\ moved.pc = "planned" /\ moved.view = new
    BY <1>4, <2>1 DEF ProcType, ProcPc
  <2>3. proc' = [proc EXCEPT ![p] = moved]
    BY <1>1, <2>1
  <2> HIDE DEF moved
  <2>4. QED BY <2>1, <2>2, <2>3 DEF Moved
<1>7. JournalTells(new, calls)
  <2>1. Len(journal.records) \in Nat
    BY <1>2 DEF JournalType
  <2>2. ASSUME NEW s \in AllSlots, s <= Len(new.records), new.records[s].phase = "planned"
        PROVE  calls[s] = 0
    <3>1. s \in Nat /\ s >= 1
      BY DEF AllSlots
    <3>2. CASE s \in 1 .. Len(journal.records)
      BY <1>2, <1>4, <2>2, <3>1, <3>2 DEF JournalTells
    <3>3. CASE s > Len(journal.records)
      BY <1>2, <3>3 DEF JournalTells
    <3>4. QED BY <2>1, <3>1, <3>2, <3>3
  <2>3. \A s \in AllSlots : s > Len(new.records) => s > Len(journal.records)
    BY <1>4, <2>1 DEF AllSlots
  <2>4. QED BY <1>2, <1>4, <2>2, <2>3 DEF JournalTells
<1>8. "planned" \in ProcPc \ {"draining", "reconciling"}
  BY DEF ProcPc
<1>9. JournalTells(journal', calls') /\ calls' \in [AllSlots -> Nat] /\ journal' \in JournalType
  BY <1>1, <1>2, <1>4, <1>7
<1>10. QED BY <1>1, <1>4, <1>5, <1>6, <1>8, <1>9, CanaryMoves

\* The only call of a slot: the journal in which it was planned told of none.
LEMMA InvokeCanaryKeeps ==
    ASSUME Inv, NEW p \in Procs, InvokeCanary(p), UNCHANGED drainVars
    PROVE  Inv' /\ journal.phase # "halted"
<1> DEFINE n == Len(journal.records)
           new == WithPhase(journal, n, "capture_invoked")
<1>1. /\ kind = "canary" /\ journal = View(p) /\ View(p).phase = "capturing"
      /\ LastIs(View(p), "planned")
  BY AtPlannedMeans DEF InvokeCanary, CompareAndSwap
<1>2. SlotOf(p) = n
  BY <1>1 DEF SlotOf, View
<1>3. Call(p, new) /\ UNCHANGED <<kind, target, now, batch, rf>>
  BY <1>1, <1>2 DEF InvokeCanary
<1>4. journal \in JournalType /\ calls \in [AllSlots -> Nat] /\ JournalTells(journal, calls)
  BY <1>1, CanaryFinds
<1>5. journal.phase = "capturing" /\ LastIs(journal, "planned")
  BY <1>1
<1>6. n \in Nat \ {0} /\ journal.records[n].phase = "planned"
  BY <1>4, <1>5, LastTyped DEF LastIs
<1>7. /\ new \in JournalType /\ Len(new.records) = n /\ new.phase = "capturing"
      /\ \A t \in 1 .. n : new.records[t].phase =
           IF t = n THEN "capture_invoked" ELSE journal.records[t].phase
  BY <1>4, <1>5, WithPhaseRewrites DEF RecordPhase
<1> HIDE DEF new
<1>8. /\ Moved(p, "invoked", new) /\ journal' = new /\ calls' \in [AllSlots -> Nat]
      /\ \A s \in AllSlots : calls'[s] = IF s = n THEN calls[s] + 1 ELSE calls[s]
  BY <1>3, <1>7, CallMoves DEF Inv
<1> HIDE DEF n
<1>9. JournalTells(new, calls')
  <2>1. n \in AllSlots => calls[n] = 0
    BY <1>4, <1>6 DEF JournalTells, n
  <2>2. \A s \in AllSlots : s > n => calls[s] = 0
    BY <1>4 DEF JournalTells, n
  <2>3. \A s \in AllSlots : s \in 1 .. n /\ journal.records[s].phase = "planned" => calls[s] = 0
    BY <1>4, <1>6 DEF JournalTells, n
  <2>4. \A s \in AllSlots : s \in Nat /\ s >= 1 /\ calls[s] <= 1 /\ calls[s] \in Nat
    BY <1>4 DEF JournalTells, AllSlots
  <2>5. \A s \in AllSlots : calls'[s] <= 1
    BY <1>8, <2>1, <2>4
  <2>6. \A s \in AllSlots : s > n => calls'[s] = 0
    BY <1>6, <1>8, <2>2, <2>4
  <2>7. ASSUME NEW s \in AllSlots, s <= n, new.records[s].phase = "planned"
        PROVE  calls'[s] = 0
    <3>1. s \in 1 .. n
      BY <1>6, <2>4, <2>7
    <3>2. s # n /\ journal.records[s].phase = "planned"
      BY <1>7, <2>7, <3>1
    <3>3. QED BY <1>8, <2>3, <3>1, <3>2
  <2>8. QED BY <1>7, <2>5, <2>6, <2>7 DEF JournalTells
<1>10. "invoked" \in ProcPc \ {"draining", "reconciling"}
  BY DEF ProcPc
<1>11. JournalTells(journal', calls') /\ journal' \in JournalType
  BY <1>7, <1>8, <1>9
<1>12. QED BY <1>1, <1>3, <1>5, <1>7, <1>8, <1>10, <1>11, CanaryMoves

\* The snapshot of the port is accepted, or halts the canary.
LEMMA CanarySettledKeeps ==
    ASSUME Inv, NEW p \in Procs, CanarySettled(p), UNCHANGED drainVars
    PROVE  Inv' /\ journal.phase # "halted"
<1> DEFINE captured == WithPhase(journal, SlotOf(p), "captured")
<1>1. /\ kind = "canary" /\ journal = View(p) /\ View(p).phase = "capturing"
      /\ Return(p) /\ UNCHANGED <<kind, target, now, batch, rf, calls>>
      /\ (journal' = captured \/ journal' = Halted(journal, "integrity_failure"))
  BY DEF CanarySettled, Finish, CompareAndSwap, Inv, CanaryInv, InPort
<1>2. journal \in JournalType /\ JournalTells(journal, calls) /\ journal.phase = "capturing"
  BY <1>1, CanaryFinds
<1>3. CASE journal' = captured
  <2>1. /\ journal' \in JournalType /\ Len(journal'.records) = Len(journal.records)
        /\ journal'.phase = "capturing"
        /\ \A t \in 1 .. Len(journal.records) :
             journal'.records[t].phase = "planned" => journal.records[t].phase = "planned"
    BY <1>2, <1>3, WithPhaseRewrites DEF RecordPhase
  <2>2. JournalTells(journal', calls)
    BY <1>2, <2>1, TellsOfSettled
  <2>3. QED BY <1>1, <1>2, <2>1, <2>2, FinishKeeps
<1>4. CASE journal' = Halted(journal, "integrity_failure")
  <2>1. journal' \in JournalType /\ journal'.records = journal.records /\ journal'.phase = "halted"
    BY <1>2, <1>4, HaltedRewrites DEF HaltReason
  <2>2. JournalTells(journal', calls)
    BY <1>2, <2>1, TellsTheSame
  <2>3. QED BY <1>1, <1>2, <2>1, <2>2, FinishKeeps
<1>5. QED BY <1>1, <1>3, <1>4

\* The record whose receipt is next has been captured.
LEMMA FirstIsCaptured ==
    ASSUME NEW j \in JournalType, Unanalyzed(j) # {}
    PROVE  FirstUnanalyzed(j) \in Unanalyzed(j)
<1> DEFINE S == Unanalyzed(j)
<1>1. Len(j.records) \in Nat /\ S \in SUBSET (1 .. Len(j.records))
  BY DEF Unanalyzed, JournalType
<1> HIDE DEF S
<1>2. S # {} /\ FirstUnanalyzed(j) = Min(S)
  BY DEF S, FirstUnanalyzed, Min
<1>3. QED BY <1>1, <1>2, MinIsLeast DEF S

\* A receipt, or the end of the canary.
LEMMA ReconcileKeeps ==
    ASSUME Inv, NEW p \in Procs, Reconcile(p), UNCHANGED drainVars
    PROVE  Inv' /\ journal.phase # "halted"
<1> DEFINE s == FirstUnanalyzed(journal)
           new == WithPhase(journal, s, "complete")
<1>1. /\ kind = "canary" /\ journal = View(p) /\ View(p).phase = "analyzing"
      /\ Return(p) /\ UNCHANGED <<kind, target, now, batch, rf, calls>>
  BY DEF Reconcile, Finish, CompareAndSwap, Loaded
<1>2. journal \in JournalType /\ JournalTells(journal, calls) /\ journal.phase = "analyzing"
  BY <1>1, CanaryFinds
<1>3. AllCaptured(journal)
  BY <1>2 DEF JournalTells
<1>4. CASE journal' = [journal EXCEPT !.phase = "complete"]
  <2>1. journal' \in JournalType /\ journal'.records = journal.records
    BY <1>2, <1>4, PhaseRewrites DEF Phase
  <2>2. JournalTells(journal', calls)
    BY <1>2, <1>3, <2>1, TellsTheSame
  <2>3. QED BY <1>1, <1>2, <2>1, <2>2, FinishKeeps
<1>5. CASE Unanalyzed(journal) # {} /\ journal' = new
  <2>1. s \in Unanalyzed(journal)
    BY <1>2, <1>5, FirstIsCaptured
  <2>2. s \in 1 .. Len(journal.records) /\ journal.records[s].phase = "captured"
    BY <2>1 DEF Unanalyzed
  <2> HIDE DEF s
  <2>3. /\ new \in JournalType /\ Len(new.records) = Len(journal.records)
        /\ \A t \in 1 .. Len(journal.records) :
             new.records[t].phase = IF t = s THEN "complete" ELSE journal.records[t].phase
    BY <1>2, WithPhaseRewrites DEF RecordPhase
  <2> HIDE DEF new
  <2>4. Accepted(new) = Accepted(journal)
    BY <2>2, <2>3 DEF Accepted
  <2>5. AllCaptured(new)
    BY <1>3, <2>4 DEF AllCaptured
  <2>6. \A t \in 1 .. Len(journal.records) :
          new.records[t].phase = "planned" => journal.records[t].phase = "planned"
    BY <2>3
  <2>7. JournalTells(new, calls)
    BY <1>2, <2>3, <2>5, <2>6, TellsOfSettled
  <2>8. journal' \in JournalType /\ JournalTells(journal', calls)
    BY <1>5, <2>3, <2>7
  <2>9. QED BY <1>1, <1>2, <2>8, FinishKeeps
<1>6. journal' = [journal EXCEPT !.phase = "complete"]
      \/ (Unanalyzed(journal) # {} /\ journal' = new)
  BY <1>1 DEF Reconcile, Finish, CompareAndSwap
<1>7. QED BY <1>4, <1>5, <1>6

\* Every step of the canary, and what it may do to a halted one.
LEMMA CanaryKeeps ==
    ASSUME Inv, NEW p \in Procs, CanaryStep(p), UNCHANGED drainVars
    PROVE  Inv' /\ (journal.phase = "halted" => journal' = journal)
BY LoadKeeps, HaltKeeps, StartAnalysisKeeps, PlanCanaryKeeps, InvokeCanaryKeeps,
   CanarySettledKeeps, ReconcileKeeps DEF CanaryStep

-----------------------------------------------------------------------------
(* The drains.                                                             *)

\* A step of the drains that leaves the campaign alone.
LEMMA DrainsKeep ==
    ASSUME Inv, UNCHANGED vars, WorkInv',
           drain'["staged"].stage # 0 => drain["staged"].stage # 0
    PROVE  Inv'
<1>1. UNCHANGED <<kind, target, now, journal, batch, proc, rf, calls>>
  BY DEF vars
<1>2. TypeInv' /\ OnceInv'
  BY <1>1 DEF Inv, TypeInv, OnceInv
<1>3. LockInv'
  BY <1>1 DEF Inv, LockInv
<1>4. CanaryInv'
  BY <1>1 DEF Inv, CanaryInv, View, LastIs, AllCaptured
<1>5. QED BY <1>2, <1>3, <1>4 DEF Inv

\* The children and the lanes.
LEMMA LaneKeeps ==
    ASSUME Inv, LeaseExpires \/ \E d \in Drains : LaneStep(d)
    PROVE  Inv' /\ UNCHANGED vars
<1>1. CASE \/ \E d \in Drains : ChildClaims(d) \/ ChildFails(d) \/ ChildCommits(d)
           \/ LeaseExpires
  <2>1. UNCHANGED <<vars, drain>>
    BY <1>1 DEF ChildClaims, ChildFails, ChildCommits, LeaseExpires
  <2>2. WorkInv'
    BY <1>1, ChildrenKeepWork, CommitKeepsWork DEF Inv
  <2>3. QED BY <2>1, <2>2, DrainsKeep
<1>2. ASSUME NEW d \in Drains, LaneAdvances(d)
      PROVE  Inv' /\ UNCHANGED vars
  <2>1. UNCHANGED vars
    BY <1>2 DEF LaneAdvances
  <2>2. WorkInv'
    BY <1>2, AdvanceKeepsWork DEF Inv
  <2>3. drain'["staged"].stage # 0 => drain["staged"].stage # 0
    <3>1. CASE d = "staged"
      <4>1. drain["staged"].stage \in 1 .. Stages
        BY <1>2, <3>1 DEF LaneAdvances, InLane
      <4>2. QED BY <4>1
    <3>2. CASE d # "staged"
      <4>1. drain'["staged"] = drain["staged"]
        BY <1>2, <3>2 DEF LaneAdvances, Inv, WorkInv, Drains
      <4>2. QED BY <4>1
    <3>3. QED BY <3>1, <3>2
  <2>4. QED BY <2>1, <2>2, <2>3, DrainsKeep
<1>3. QED BY <1>1, <1>2 DEF LaneStep

\* A drain starts at the first stage of a window of the schedule.
LEMMA StartMoves ==
    ASSUME WorkInv, NEW d \in Drains, NEW w \in Windows,
           drain' = [drain EXCEPT ![d] = [window |-> w, stage |-> 1]]
    PROVE  DrainMoves
<1>1. w \in Nat
  BY DEF Windows
<1>2. QED BY <1>1 DEF DrainMoves, WorkInv

\* The online drain.
LEMMA OnlineKeeps ==
    ASSUME Inv, OnlineStarts \/ OnlineStops
    PROVE  Inv' /\ UNCHANGED vars
<1>1. UNCHANGED vars /\ "online" \in Drains /\ "staged" \in Drains
  BY DEF OnlineStarts, OnlineStops, Drains
<1>2. CASE OnlineStarts
  <2>1. PICK w \in 0 .. (Cardinality(Pending) \div WindowBatches) - 1 :
          /\ work' = Prepared(w)
          /\ drain' = [drain EXCEPT !["online"] = [window |-> w, stage |-> 1]]
    BY <1>2 DEF OnlineStarts
  <2>2. kind = "deferred"
    BY <1>2 DEF OnlineStarts, Windowed
  <2>3. Pending \in SUBSET (1 .. Slots)
    BY <2>2, DeferredFinds DEF Pending, JournalType
  <2>4. w \in Windows
    BY <2>3, OnlineWindow
  <2>5. WorkInv'
    BY <1>1, <2>1, <2>4, StartMoves, PreparedKeepsWork DEF Inv
  <2>6. drain'["staged"] = drain["staged"]
    BY <1>1, <2>1 DEF Inv, WorkInv
  <2>7. QED BY <1>1, <2>5, <2>6, DrainsKeep
<1>3. CASE OnlineStops
  <2>1. work' = Orphaned("online") /\ drain' = [drain EXCEPT !["online"] = AtNone]
    BY <1>3 DEF OnlineStops
  <2>2. WorkInv'
    BY <1>1, <2>1, OrphanedKeepsWork DEF Inv
  <2>3. drain'["staged"] = drain["staged"]
    BY <1>1, <2>1 DEF Inv, WorkInv
  <2>4. QED BY <1>1, <2>2, <2>3, DrainsKeep
<1>4. QED BY <1>2, <1>3

\* Only a deferred campaign is drained, by one process.
LEMMA DrainerIsAlone ==
    ASSUME Inv, NEW p \in Procs, proc[p].pc \in {"draining", "reconciling"}
    PROVE  /\ kind = "deferred" /\ Alone(p)
           /\ journal \in JournalType /\ Len(journal.records) <= Slots
           /\ drain["staged"].stage # 0 => journal.phase = "analyzing"
           /\ proc[p].pc = "reconciling" => journal.phase = "analyzing"
<1>1. kind = "deferred"
  BY DEF Inv, LockInv
<1>2. QED BY <1>1, DeferredFinds, BusyIsAlone DEF Inv, LockInv

\* The drain exits, and its children with it.
LEMMA DrainExitsKeeps ==
    ASSUME Inv, NEW p \in Procs, proc[p].pc \in {"draining", "reconciling"},
           NEW new \in JournalType, Len(new.records) <= Slots, DrainExits(p, new)
    PROVE  Inv'
<1>1. /\ journal' = new /\ Return(p) /\ work' = Orphaned("staged")
      /\ drain' = [drain EXCEPT !["staged"] = AtNone]
      /\ UNCHANGED <<kind, target, now, batch, rf, calls>>
  BY DEF DrainExits
<1>2. "staged" \in Drains
  BY DEF Drains
<1>3. WorkInv'
  BY <1>1, <1>2, OrphanedKeepsWork DEF Inv
<1>4. drain'["staged"].stage = 0
  BY <1>1, <1>2 DEF Inv, WorkInv, AtNone
<1>5. Moved(p, "idle", EmptyJournal) /\ calls' \in [AllSlots -> Nat]
  BY <1>1, ReturnMoves DEF Inv, TypeInv
<1>6. kind = "deferred" /\ Alone(p)
  BY DrainerIsAlone
<1>7. QED BY <1>1, <1>3, <1>4, <1>5, <1>6, DeferredMoves DEF InPort

\* The steps of the staged drain that end it, or begin it.
LEMMA DrainReturnsKeeps ==
    ASSUME Inv, NEW p \in Procs, DrainReturns(p) \/ LaneStops(p)
    PROVE  Inv'
<1>1. proc[p].pc = "draining"
  BY DEF DrainReturns, LaneStops, AtLoopHead
<1>2. journal \in JournalType /\ Len(journal.records) <= Slots
  BY <1>1, DrainerIsAlone
<1>3. CASE DrainExits(p, journal)
  BY <1>1, <1>2, <1>3, DrainExitsKeeps
<1>4. CASE DrainExits(p, [journal EXCEPT !.phase = "complete"])
  BY <1>1, <1>2, <1>4, PhaseRewrites, DrainExitsKeeps DEF Phase
<1>5. CASE DrainExits(p, HaltAnalysis)
  BY <1>1, <1>2, <1>5, HaltedRewrites, DrainExitsKeeps DEF HaltAnalysis, HaltReason
<1>6. QED BY <1>3, <1>4, <1>5 DEF DrainReturns, LaneStops

\* run_staged_drain begins.
LEMMA DrainBeginsKeeps ==
    ASSUME Inv, NEW p \in Procs, DrainBegins(p)
    PROVE  Inv'
<1>1. /\ kind = "deferred" /\ LockFree /\ proc[p].pc = "idle" /\ Goto(p, "draining")
      /\ UNCHANGED <<kind, target, now, journal, batch, rf, calls>> /\ UNCHANGED drainVars
  BY DEF DrainBegins, Command
<1>2. journal \in JournalType /\ Len(journal.records) <= Slots
  BY <1>1, DeferredFinds
<1>3. Moved(p, "draining", proc[p].view)
  BY <1>1, GotoMoves DEF Inv, ProcPc
<1>4. Alone(p)
  BY <1>1, BusyIsAlone DEF Inv
<1>5. drain'["staged"].stage = 0
  BY <1>1, <1>4, NotInWindow DEF Inv, drainVars
<1>6. WorkInv' /\ calls' \in [AllSlots -> Nat] /\ journal' = journal
  BY <1>1, WorkFrame DEF Inv, TypeInv
<1>7. QED BY <1>1, <1>2, <1>3, <1>4, <1>5, <1>6, DeferredMoves DEF InPort

\* The drain enters the window of the first batch that waits.
LEMMA WindowBeginsKeeps ==
    ASSUME Inv, NEW p \in Procs, WindowBegins(p)
    PROVE  Inv'
<1> DEFINE w == (Min(Pending) - 1) \div WindowBatches
<1>1. /\ proc[p].pc = "draining" /\ journal.phase = "analyzing"
      /\ work' = Prepared(w) /\ UNCHANGED vars
      /\ drain' = [drain EXCEPT !["staged"] = [window |-> w, stage |-> 1]]
  BY DEF WindowBegins, AtLoopHead
<1>2. Cardinality(Pending) >= WindowBatches
  BY DEF WindowBegins, PendingWindow, Pending
<1>3. kind = "deferred" /\ journal \in JournalType /\ Len(journal.records) <= Slots
  BY <1>1, DrainerIsAlone
<1>4. Len(journal.records) \in 0 .. Slots /\ Pending \in SUBSET (1 .. Len(journal.records))
  BY <1>3 DEF Pending, JournalType
<1>5. w \in Windows
  BY <1>2, <1>4, StagedWindow
<1> HIDE DEF w
<1>6. "staged" \in Drains
  BY DEF Drains
<1>7. WorkInv'
  BY <1>1, <1>5, <1>6, StartMoves, PreparedKeepsWork DEF Inv
<1>8. UNCHANGED <<kind, target, now, journal, batch, proc, rf, calls>>
  BY <1>1 DEF vars
<1>9. TypeInv' /\ OnceInv'
  BY <1>8 DEF Inv, TypeInv, OnceInv
<1>10. LockInv'
  BY <1>1, <1>3, <1>8 DEF Inv, LockInv
<1>11. CanaryInv'
  BY <1>3, <1>8 DEF CanaryInv
<1>12. QED BY <1>7, <1>9, <1>10, <1>11 DEF Inv

\* An analysis is counted, or the invocations are used up.
LEMMA ReconcileOneKeeps ==
    ASSUME Inv, NEW p \in Procs, ReconcileOne(p)
    PROVE  Inv'
<1>1. proc[p].pc = "draining" /\ drain["staged"].stage = Stages + 1
  BY DEF ReconcileOne
<1>2. /\ kind = "deferred" /\ Alone(p) /\ journal.phase = "analyzing"
      /\ journal \in JournalType /\ Len(journal.records) <= Slots
  BY <1>1, DrainerIsAlone
<1>3. CASE DrainExits(p, HaltAnalysis)
  BY <1>1, <1>2, <1>3, HaltedRewrites, DrainExitsKeeps DEF HaltAnalysis, HaltReason
<1>4. CASE /\ journal' = [journal EXCEPT !.records[Candidate] = Counted(@)]
           /\ Goto(p, "reconciling")
           /\ UNCHANGED <<kind, target, now, batch, rf, calls, drainVars>>
  <2>1. journal' \in JournalType /\ journal'.phase = "analyzing" /\ Len(journal'.records) <= Slots
    BY <1>2, <1>4, CountedTyped
  <2>2. Moved(p, "reconciling", proc[p].view)
    BY <1>4, GotoMoves DEF Inv, ProcPc
  <2>3. WorkInv' /\ calls' \in [AllSlots -> Nat]
    BY <1>4, WorkFrame DEF Inv, TypeInv
  <2>4. QED BY <1>2, <1>4, <2>1, <2>2, <2>3, DeferredMoves DEF InPort
<1>5. QED BY <1>3, <1>4 DEF ReconcileOne

\* A receipt, or a failure that ends the slice.
LEMMA ReceiptEndsKeeps ==
    ASSUME Inv, NEW p \in Procs, ReceiptEnds(p)
    PROVE  Inv'
<1>1. proc[p].pc = "reconciling"
  BY DEF ReceiptEnds
<1>2. /\ kind = "deferred" /\ Alone(p) /\ journal.phase = "analyzing"
      /\ journal \in JournalType /\ Len(journal.records) <= Slots
  BY <1>1, DrainerIsAlone
<1>3. CASE DrainExits(p, WithPhase(journal, Candidate, "analysis_failed"))
  BY <1>1, <1>2, <1>3, WithPhaseRewrites, DrainExitsKeeps DEF RecordPhase
<1>4. CASE /\ journal' = WithPhase(journal, Candidate, "complete")
           /\ Goto(p, "draining")
           /\ drain' = [drain EXCEPT !["staged"] = IF LastOfWindow(Candidate) THEN AtNone ELSE @]
           /\ UNCHANGED <<kind, target, now, batch, rf, calls, work>>
  <2>1. journal' \in JournalType /\ journal'.phase = "analyzing" /\ Len(journal'.records) <= Slots
    BY <1>2, <1>4, WithPhaseRewrites DEF RecordPhase
  <2>2. Moved(p, "draining", proc[p].view)
    BY <1>4, GotoMoves DEF Inv, ProcPc
  <2>3. DrainMoves
    <3>1. drain' = [drain EXCEPT !["staged"] = AtNone] \/ drain' = drain
      BY <1>4 DEF Inv, WorkInv
    <3>2. QED BY <3>1 DEF DrainMoves, Inv, WorkInv, AtNone
  <2>4. work' \in WorkType /\ SucceededStays /\ Outbox(work')
    BY <1>4 DEF Inv, WorkInv, SucceededStays, Outbox
  <2>5. WorkInv' /\ calls' \in [AllSlots -> Nat]
    BY <1>4, <2>3, <2>4, WorkKeeps DEF Inv, TypeInv
  <2>6. QED BY <1>2, <1>4, <2>1, <2>2, <2>5, DeferredMoves DEF InPort
<1>5. QED BY <1>3, <1>4 DEF ReceiptEnds

\* A process dies anywhere.
LEMMA DeathKeeps ==
    ASSUME Inv, NEW p \in Procs, AnyProcessDies(p)
    PROVE  Inv'
<1>1. /\ proc[p].pc # "idle" /\ Return(p)
      /\ UNCHANGED <<kind, target, now, journal, batch, rf, calls>>
  BY DEF AnyProcessDies, ProcessDies
<1>2. journal \in JournalType /\ calls \in [AllSlots -> Nat] /\ kind \in {"deferred", "one_shot", "canary"}
  BY DEF Inv, TypeInv
<1>3. CASE proc[p].pc \in {"draining", "reconciling"}
  <2>1. DrainExits(p, journal)
    BY <1>1, <1>3 DEF AnyProcessDies, DrainExits
  <2>2. Len(journal.records) <= Slots
    BY <1>3, DrainerIsAlone
  <2>3. QED BY <1>2, <1>3, <2>1, <2>2, DrainExitsKeeps
<1>4. CASE proc[p].pc \notin {"draining", "reconciling"}
  <2>1. UNCHANGED drainVars
    BY <1>4 DEF AnyProcessDies
  <2>2. Moved(p, "idle", EmptyJournal)
    BY <1>1, ReturnMoves DEF Inv
  <2>3. journal' \in JournalType /\ calls' \in [AllSlots -> Nat] /\ journal' = journal
    BY <1>1, <1>2
  <2>4. CASE kind = "deferred"
    <3>1. Alone(p) /\ Len(journal.records) <= Slots
      BY <1>1, <2>4, BusyIsAlone, DeferredFinds DEF Inv
    <3>2. drain'["staged"].stage = 0
      BY <1>4, <2>1, <2>4, <3>1, NotInWindow DEF Inv, drainVars
    <3>3. WorkInv'
      BY <2>1, WorkFrame DEF Inv
    <3>4. QED BY <1>1, <2>2, <2>3, <2>4, <3>1, <3>2, <3>3, DeferredMoves DEF InPort
  <2>5. CASE kind = "one_shot"
    BY <1>1, <2>1, <2>2, <2>3, <2>5, EmptyIsTyped, OneShotMoves DEF ProcPc
  <2>6. CASE kind = "canary"
    <3>1. JournalTells(journal, calls)
      BY <2>6, CanaryFinds
    <3>2. JournalTells(journal', calls)
      BY <2>3, <3>1
    <3>3. QED BY <1>1, <2>1, <2>3, <2>6, <3>2, FinishKeeps
  <2>7. QED BY <1>2, <2>4, <2>5, <2>6
<1>5. QED BY <1>3, <1>4

\* Every step of the staged drain, and the deaths.
LEMMA StagedKeeps ==
    ASSUME Inv, NEW p \in Procs, StagedStep(p)
    PROVE  Inv'
BY DrainBeginsKeeps, DrainReturnsKeeps, WindowBeginsKeeps, ReconcileOneKeeps,
   ReceiptEndsKeeps, DeathKeeps DEF StagedStep

-----------------------------------------------------------------------------
(* Theorems.                                                               *)

\* The clock.
LEMMA TickKeeps ==
    ASSUME Inv, Tick, UNCHANGED drainVars
    PROVE  Inv'
<1>1. UNCHANGED <<kind, target, journal, batch, proc, rf, calls>> /\ now' \in 0 .. MaxTime
  BY DEF Tick, Inv, TypeInv, MaxTime
<1>2. TypeInv' /\ OnceInv'
  BY <1>1 DEF Inv, TypeInv, OnceInv
<1>3. LockInv'
  BY <1>1 DEF Inv, LockInv, drainVars
<1>4. CanaryInv'
  BY <1>1 DEF Inv, CanaryInv, View, LastIs, AllCaptured
<1>5. WorkInv'
  BY WorkFrame DEF Inv
<1>6. QED BY <1>2, <1>3, <1>4, <1>5 DEF Inv

\* The invariant holds at the start: no campaign has begun and no row exists.
LEMMA InitIsInv ==
    ASSUME CampaignInit
    PROVE  Inv
<1>1. /\ kind \in Kinds /\ target \in Nat /\ now = 0 /\ journal = EmptyJournal
      /\ batch = [s \in AllSlots |-> "none"] /\ proc = [p \in Procs |-> IdleProc]
      /\ rf = [s \in AllSlots |-> 0] /\ calls = [s \in AllSlots |-> 0]
  BY DEF CampaignInit, Init
<1>2. IdleProc \in ProcType /\ IdleProc.pc = "idle"
  BY EmptyIsTyped DEF IdleProc, ProcType, ProcPc, MaxTime
<1>3. TypeInv
  BY <1>1, <1>2, EmptyIsTyped DEF TypeInv, MaxTime, BatchState
<1>4. OnceInv
  BY <1>1 DEF OnceInv
<1>5. drain = [d \in Drains |-> AtNone] /\ AtNone.stage = 0 /\ AtNone.window = 0
  BY DEF CampaignInit, DrainInit, AtNone
<1>6. WorkInv
  <2>1. work = [w \in Windows |-> [k \in 1 .. Stages |-> [i \in Items |-> "none"]]]
    BY DEF CampaignInit, DrainInit
  <2>2. work \in WorkType
    BY <2>1 DEF WorkType, WorkState
  <2>3. drain \in [Drains -> [window : Nat, stage : 0 .. Stages + 1]]
    BY <1>5 DEF AtNone
  <2>4. ASSUME NEW w \in Windows, NEW k \in 1 .. Stages, NEW i \in Items, k < Stages
        PROVE  work[w][k + 1][i] = "none"
    BY <2>1, <2>4
  <2>5. StageBarrier
    BY <1>5 DEF StageBarrier
  <2>6. QED BY <1>5, <2>2, <2>3, <2>4, <2>5 DEF WorkInv
<1>7. journal.phase = "capturing" /\ journal.records = <<>>
  BY <1>1 DEF EmptyJournal
<1>8. LockInv
  BY <1>1, <1>2, <1>5, <1>7 DEF LockInv, InPort, Drains
<1>9. CanaryInv
  BY <1>1, <1>2, <1>7 DEF CanaryInv, InPort, AllSlots
<1>10. QED BY <1>3, <1>4, <1>6, <1>8, <1>9 DEF Inv

\* Every step keeps the invariant.
LEMMA NextKeeps ==
    ASSUME Inv, [Next]_allVars
    PROVE  Inv'
<1>1. CASE Next
  BY <1>1, TickKeeps, PortKeeps, DeferredKeeps, OneShotKeeps, CanaryKeeps, StagedKeeps,
     LaneKeeps, OnlineKeeps DEF Next, ProcStep
<1>2. CASE UNCHANGED allVars
  <2>1. UNCHANGED vars /\ UNCHANGED drainVars
    BY <1>2 DEF allVars
  <2>2. WorkInv'
    BY <2>1, WorkFrame DEF Inv
  <2>3. drain' = drain
    BY <2>1 DEF drainVars
  <2>4. QED BY <2>1, <2>2, <2>3, DrainsKeep
<1>3. QED BY <1>1, <1>2

\* The inductive invariant of the campaigns.
THEOREM CampaignInvariant == Spec => []Inv
<1>1. CampaignInit => Inv
  BY InitIsInv
<1>2. Inv /\ [Next]_allVars => Inv'
  BY NextKeeps
<1>3. QED BY <1>1, <1>2, PTL DEF Spec

\* A slot is captured at most once, whatever the coordinator, its retries, the
\* second process and the crashes do: only a batch without a row is executed.
THEOREM CampaignCapturedOnce == Spec => []CapturedOnce
<1>1. Inv => CapturedOnce
  BY DEF Inv, OnceInv, CapturedOnce
<1>2. QED BY <1>1, CampaignInvariant, PTL

\* The canary calls the port at most once for a slot, with two processes and no
\* lock: the journal names the invocation before the call, and the write of a
\* stale copy is refused.
THEOREM CanaryNeverReplays == Spec => []NeverReplay
<1>1. Inv => NeverReplay
  BY DEF Inv, CanaryInv, NeverReplay
<1>2. QED BY <1>1, CampaignInvariant, PTL

\* No drain reaches a stage before all rows of the earlier ones have succeeded,
\* with both drains, their dead children and expired leases in the same tables.
THEOREM StagesAreBarriers == Spec => []StageBarrier
<1>1. Inv => StageBarrier
  BY DEF Inv, WorkInv
<1>2. QED BY <1>1, CampaignInvariant, PTL

\* Only the canary's own steps write its journal.
LEMMA HaltedStays ==
    ASSUME Inv, Next, kind = "canary", journal.phase = "halted"
    PROVE  journal' = journal
<1>1. CASE Tick
  BY <1>1 DEF Tick
<1>2. ASSUME NEW p \in Procs, ProcStep(p), UNCHANGED drainVars
      PROVE  journal' = journal
  <2>1. ~DeferredStep(p)
    BY DEF DeferredStep, PlanSlot, GiveUp, Invoke, Uncertain, Journalled, CloseCapture,
           AnalyzeNext, AnalysisEnds, Command
  <2>2. ~OneShotStep(p)
    BY DEF OneShotStep, PlanUnit, RunCapture, CaptureUncertain, CaptureFailed, Captured,
           RunAnalysis, AnalysisReturns, RunNext
  <2>3. QED BY <1>2, <2>1, <2>2, PortMoves, CanaryKeeps DEF ProcStep
<1>3. ASSUME NEW p \in Procs, StagedStep(p)
      PROVE  journal' = journal
  <2>1. proc[p].pc \notin {"draining", "reconciling"}
    BY DEF Inv, LockInv
  <2>2. AnyProcessDies(p)
    BY <1>3, <2>1 DEF StagedStep, DrainBegins, DrainReturns, WindowBegins, LaneStops,
         ReconcileOne, ReceiptEnds, AtLoopHead, Command
  <2>3. QED BY <2>2 DEF AnyProcessDies, ProcessDies
<1>4. CASE LeaseExpires \/ OnlineStarts \/ OnlineStops \/ \E d \in Drains : LaneStep(d)
  BY <1>4, LaneKeeps, OnlineKeeps DEF vars
<1>5. QED BY <1>1, <1>2, <1>3, <1>4 DEF Next

\* No step changes the coordinator that owns the journal, and only the capture
\* port captures.
LEMMA KindStays ==
    ASSUME Next
    PROVE  /\ kind' = kind
           /\ rf' = rf \/ \E p \in Procs : PortStep(p)
<1>1. CASE Tick
  BY <1>1 DEF Tick
<1>2. ASSUME NEW p \in Procs, PortStep(p)
      PROVE  kind' = kind
  BY <1>2 DEF PortStep, PortRefuses, PortReplays, PortExecutes, PortSettles, PortFails,
         PortReturns
<1>3. ASSUME NEW p \in Procs, DeferredStep(p)
      PROVE  kind' = kind /\ rf' = rf
  BY <1>3 DEF DeferredStep, PlanSlot, GiveUp, Invoke, Uncertain, Journalled, CloseCapture,
              AnalyzeNext, AnalysisEnds, Write
<1>4. ASSUME NEW p \in Procs, OneShotStep(p)
      PROVE  kind' = kind /\ rf' = rf
  BY <1>4 DEF OneShotStep, PlanUnit, RunCapture, CaptureUncertain, CaptureFailed, Captured,
              RunAnalysis, AnalysisReturns, CountAnalysis
<1>5. ASSUME NEW p \in Procs, CanaryStep(p)
      PROVE  kind' = kind /\ rf' = rf
  BY <1>5 DEF CanaryStep, Load, StartAnalysis, FindInvoked, PlanCanary, MissSlot, Postpone,
              InvokeCanary, CanaryUncertain, CanarySettled, Reconcile, ReconcileFails,
              LoseRace, Finish, Continue
<1>6. ASSUME NEW p \in Procs, StagedStep(p)
      PROVE  kind' = kind /\ rf' = rf
  BY <1>6 DEF StagedStep, DrainBegins, DrainReturns, WindowBegins, LaneStops, ReconcileOne,
              ReceiptEnds, AnyProcessDies, ProcessDies, DrainExits, vars
<1>7. CASE LeaseExpires \/ OnlineStarts \/ OnlineStops \/ \E d \in Drains : LaneStep(d)
  BY <1>7 DEF LeaseExpires, OnlineStarts, OnlineStops, LaneStep, ChildClaims, ChildCommits,
              ChildFails, LaneAdvances, vars
<1>8. QED BY <1>1, <1>2, <1>3, <1>4, <1>5, <1>6, <1>7 DEF Next, ProcStep

\* A collection that is closed is not opened again.
LEMMA ClosedStays ==
    ASSUME Inv, Next, kind = "deferred", journal.phase \in {"analyzing", "complete"}
    PROVE  journal'.phase # "capturing"
<1>1. journal \in JournalType
  BY DEF Inv, TypeInv
<1>2. ASSUME journal' = journal PROVE journal'.phase # "capturing"
  BY <1>2
<1>3. \A reason \in HaltReason : Halted(journal, reason).phase = "halted"
  BY <1>1, HaltedRewrites
<1>4. [journal EXCEPT !.phase = "complete"].phase = "complete"
  BY <1>1, PhaseRewrites DEF Phase
<1>5. \A s : /\ WithPhase(journal, s, "complete").phase = journal.phase
             /\ WithPhase(journal, s, "analysis_failed").phase = journal.phase
             /\ [journal EXCEPT !.records[s] = Counted(@)].phase = journal.phase
  BY <1>1, WithPhaseRewrites, CountedTyped DEF RecordPhase
<1>6. ASSUME NEW p \in Procs, DeferredStep(p)
      PROVE  journal'.phase # "capturing"
  <2>1. proc[p].pc \notin InPort
    BY DEF Inv, LockInv
  <2>2. CASE AnalyzeNext(p)
    <3>1. \/ journal' = [journal EXCEPT !.phase = "complete"]
          \/ journal' = Halted(journal, "analysis_failed")
          \/ journal' = [journal EXCEPT !.records[Candidate] = Counted(@)]
      BY <2>2 DEF AnalyzeNext, Write
    <3>2. "analysis_failed" \in HaltReason
      BY DEF HaltReason
    <3>3. QED BY <1>3, <1>4, <1>5, <3>1, <3>2
  <2>3. CASE AnalysisEnds(p)
    BY <1>5, <2>3 DEF AnalysisEnds
  <2>4. QED BY <1>6, <2>1, <2>2, <2>3 DEF DeferredStep, PlanSlot, GiveUp, Invoke, Uncertain,
               Journalled, CloseCapture, Closable, InPort
<1>7. ASSUME NEW p \in Procs, StagedStep(p)
      PROVE  journal'.phase # "capturing"
  <2>1. CASE DrainBegins(p) \/ WindowBegins(p) \/ AnyProcessDies(p)
    BY <1>2, <2>1 DEF DrainBegins, WindowBegins, AnyProcessDies, ProcessDies, vars
  <2>2. CASE DrainReturns(p)
    BY <1>2, <1>4, <2>2 DEF DrainReturns, DrainExits
  <2>3. CASE LaneStops(p)
    BY <1>2, <1>3, <2>3 DEF LaneStops, DrainExits, HaltAnalysis, HaltReason
  <2>4. CASE ReconcileOne(p)
    BY <1>3, <1>5, <2>4 DEF ReconcileOne, DrainExits, HaltAnalysis, HaltReason
  <2>5. CASE ReceiptEnds(p)
    BY <1>5, <2>5 DEF ReceiptEnds, DrainExits
  <2>6. QED BY <1>7, <2>1, <2>2, <2>3, <2>4, <2>5 DEF StagedStep
<1>8. ASSUME NEW p \in Procs, ProcStep(p)
      PROVE  journal'.phase # "capturing"
  <2>1. ~OneShotStep(p)
    BY DEF OneShotStep, PlanUnit, RunCapture, CaptureUncertain, CaptureFailed, Captured,
           RunAnalysis, AnalysisReturns, RunNext
  <2>2. ~CanaryStep(p)
    BY DEF CanaryStep, Load, StartAnalysis, FindInvoked, PlanCanary, MissSlot, Postpone,
           InvokeCanary, CanaryUncertain, CanarySettled, Reconcile, ReconcileFails,
           LoseRace, Loaded, AtPlanned
  <2>3. QED BY <1>2, <1>6, <1>8, <2>1, <2>2, PortMoves DEF ProcStep
<1>9. CASE Tick \/ LeaseExpires \/ OnlineStarts \/ OnlineStops \/ \E d \in Drains : LaneStep(d)
  BY <1>2, <1>9, LaneKeeps, OnlineKeeps DEF vars, Tick
<1>10. QED BY <1>7, <1>8, <1>9 DEF Next

\* A halted canary stays as it is, and no analysis begins before all slots are
\* captured, though two processes write the journal.
THEOREM CanaryHaltIsFinal == Spec => HaltIsFinal
<1>1. Inv /\ Inv' /\ [Next]_allVars =>
        [kind = "canary" =>
          /\ journal.phase = "halted" => journal' = journal
          /\ journal'.phase \in {"analyzing", "complete"} => AllCaptured(journal')]_vars
  <2> SUFFICES ASSUME Inv, Inv', [Next]_allVars, ~UNCHANGED vars, kind = "canary"
               PROVE  /\ journal.phase = "halted" => journal' = journal
                      /\ journal'.phase \in {"analyzing", "complete"} => AllCaptured(journal')
    OBVIOUS
  <2>1. Next
    BY DEF allVars
  <2>2. kind' = "canary"
    <3>1. kind' = kind
      BY <2>1, KindStays
    <3>2. QED BY <3>1
  <2>3. journal'.phase \in {"analyzing", "complete"} => AllCaptured(journal')
    BY <2>2 DEF Inv, CanaryInv, AllCaptured
  <2>4. QED BY <2>1, <2>3, HaltedStays
<1>2. QED BY <1>1, CampaignInvariant, PTL DEF Spec, HaltIsFinal

\* No capture after the collection is closed, no analysis while it is open, and
\* no way back, whatever the order of commands, halts and crashes.
THEOREM CapturesThenAnalyses == Spec => CaptureThenAnalysis
<1>1. Inv /\ [Next]_allVars =>
        [kind = "deferred" =>
          /\ (\E s \in AllSlots : rf'[s] > rf[s]) => journal.phase = "capturing"
          /\ (\E p \in Procs : proc[p].pc \in {"analysing", "reconciling"})
               => journal.phase = "analyzing"
          /\ journal.phase \in {"analyzing", "complete"} => journal'.phase # "capturing"]_vars
  <2> SUFFICES ASSUME Inv, [Next]_allVars, ~UNCHANGED vars, kind = "deferred"
               PROVE  /\ (\E s \in AllSlots : rf'[s] > rf[s]) => journal.phase = "capturing"
                      /\ (\E p \in Procs : proc[p].pc \in {"analysing", "reconciling"})
                           => journal.phase = "analyzing"
                      /\ journal.phase \in {"analyzing", "complete"}
                           => journal'.phase # "capturing"
    OBVIOUS
  <2>1. Next
    BY DEF allVars
  <2>2. ASSUME NEW s \in AllSlots, rf'[s] > rf[s] PROVE journal.phase = "capturing"
    <3>1. rf' # rf
      BY <2>2 DEF Inv, TypeInv
    <3>2. PICK p \in Procs : PortStep(p)
      BY <2>1, <3>1, KindStays
    <3>3. proc[p].pc \in InPort
      BY <3>2, PortMoves
    <3>4. QED BY <3>3 DEF Inv, LockInv
  <2>3. (\E p \in Procs : proc[p].pc \in {"analysing", "reconciling"}) => journal.phase = "analyzing"
    BY DEF Inv, LockInv
  <2>4. QED BY <2>1, <2>2, <2>3, ClosedStays
<1>2. QED BY <1>1, CampaignInvariant, PTL DEF Spec, CaptureThenAnalysis

-----------------------------------------------------------------------------
(* The journal and what it speaks of: a second invariant, on top of the    *)
(* first.  Its parts about a journal are predicates of one, so that what   *)
(* a coordinator writes can be judged before it is written.                *)

Planned(j) == {s \in 1 .. Len(j.records) : j.records[s].phase = "planned"}
Waiting(j) == {s \in 1 .. Len(j.records) :
                 j.records[s].phase \in {"captured", "analysis_failed"}}

\* Journal j does not run ahead of the calls c and the batch rows b.
Backed(j, c, b) ==
    /\ Len(j.records) <= Slots
    /\ \A s \in AllSlots : s > Len(j.records) => c[s] = 0
    /\ \A s \in Planned(j) : c[s] <= j.records[s].captures
    /\ \A s \in Accepted(j) : b[s] = "eligible"

\* A deferred journal has no gap: every record but the last is accepted, and the
\* receipts come in the order of the slots.
Canonical(j, n) ==
    /\ j.phase = "halted" <=> j.halt # "none"
    /\ 1 .. Len(j.records) - 1 \subseteq Accepted(j)
    /\ j.phase = "capturing" => 1 .. Len(j.records) \subseteq Planned(j) \cup Accepted(j)
    /\ j.phase \in {"analyzing", "complete"} => Planned(j) = {}
    /\ \A s \in Waiting(j), t \in Accepted(j) : s <= t => t \in Waiting(j)
    /\ j.phase = "complete" => Waiting(j) = {}
    /\ Cardinality(Accepted(j)) <= n
    /\ Planned(j) # {} => Cardinality(Accepted(j)) < n

\* The slots after the last complete unit of a one-shot journal, which are the
\* attempts at one cell.
Current(j) == {s \in 1 .. Len(j.records) : \A t \in Analyzed(j) : t < s}
Units(j) ==
    /\ \A s \in 1 .. Len(j.records) - 1 : j.records[s].phase \in {"complete", "terminal_failed"}
    /\ j.records # <<>> =>
         /\ Last(j.records).retry < MaximumFreshAttempts
         /\ \A s \in Current(j) : s >= Len(j.records) - Last(j.records).retry

\* Every record of a canary but the last is accepted.
Gapless(j) ==
    /\ 1 .. Len(j.records) - 1 \subseteq Accepted(j)
    /\ \A s \in 1 .. Len(j.records) :
         j.records[s].phase \in {"planned", "capture_invoked"} \/ s \in Accepted(j)

\* The mode lock: one process executes a batch, whose row is open meanwhile.
BatchInv ==
    /\ \A p \in Procs : proc[p].pc \in InPort => SlotOf(p) \in AllSlots
    /\ \A p, q \in Procs : proc[p].pc = "running" /\ proc[q].pc = "running" => p = q
    /\ \A p \in Procs : proc[p].pc = "running" => batch[SlotOf(p)] = "open"
    /\ \A s \in AllSlots : batch[s] # "none" => rf[s] = 1

\* Under the campaign lock the copy of a caller of the port is the journal's.
HeldInv ==
    kind # "canary" =>
        /\ \A s \in AllSlots : calls[s] <= MaximumCaptureInvocations
        /\ \A p, q \in Procs : proc[p].pc # "idle" /\ proc[q].pc # "idle" => p = q
        /\ \A p \in Procs : proc[p].pc \in InPort =>
             SlotOf(p) = Len(journal.records) /\ SlotOf(p) \in Planned(journal)

\* The last batch of the window that is drained waits for its receipt.
DeferredInv ==
    kind = "deferred" =>
        /\ Canonical(journal, target)
        /\ \A p \in Procs : proc[p].pc \in {"analysing", "reconciling"} => Waiting(journal) # {}
        /\ drain["staged"].stage # 0 =>
             (drain["staged"].window + 1) * WindowBatches \in Waiting(journal)

UnitInv ==
    kind = "one_shot" =>
        /\ Units(journal)
        /\ \A p \in Procs : proc[p].pc \in {"planned", "analysing"} =>
             Len(journal.records) \in Waiting(journal)

CanarySlots == kind = "canary" => Gapless(journal)

Durable ==
    /\ Backed(journal, calls, batch)
    /\ BatchInv /\ HeldInv /\ DeferredInv /\ UnitInv /\ CanarySlots

-----------------------------------------------------------------------------
(* What a write does to the sets of slots.                                 *)

\* Slots by phase are a matter of the records' phases.
LEMMA SamePhases ==
    ASSUME NEW i, NEW j, Len(i.records) = Len(j.records),
           \A s \in 1 .. Len(j.records) : i.records[s].phase = j.records[s].phase
    PROVE  /\ Planned(i) = Planned(j) /\ Accepted(i) = Accepted(j)
           /\ Waiting(i) = Waiting(j) /\ Analyzed(i) = Analyzed(j)
BY DEF Planned, Accepted, Waiting, Analyzed

\* A record that changes its phase keeps the rest.
LEMMA WithPhaseKeeps ==
    ASSUME NEW j \in JournalType, NEW s \in 1 .. Len(j.records), NEW phase \in RecordPhase
    PROVE  LET new == WithPhase(j, s, phase) IN
           \A t \in 1 .. Len(j.records) :
              /\ new.records[t].captures = j.records[t].captures
              /\ new.records[t].retry = j.records[t].retry
<1> DEFINE r == [j.records[s] EXCEPT !.phase = phase]
           rs == [j.records EXCEPT ![s] = r]
<1>1. j.records \in Seq(Record)
  BY DEF JournalType
<1>2. j.records[s] \in Record
  BY <1>1
<1>3. r \in Record /\ r.captures = j.records[s].captures /\ r.retry = j.records[s].retry
  BY <1>2 DEF Record
<1>4. WithPhase(j, s, phase) = [j EXCEPT !.records = rs]
  BY DEF WithPhase
<1> HIDE DEF r
<1>5. \A t \in 1 .. Len(j.records) : rs[t] = IF t = s THEN r ELSE j.records[t]
  BY <1>1, <1>3, RecordTyped
<1> HIDE DEF rs
<1>6. WithPhase(j, s, phase).records = rs
  BY <1>4 DEF JournalType
<1>7. QED BY <1>3, <1>5, <1>6

\* The slots of a journal one of whose records is settled.
LEMMA WithPhaseMoves ==
    ASSUME NEW j \in JournalType, NEW s \in 1 .. Len(j.records),
           NEW phase \in RecordPhase \ {"planned"}
    PROVE  LET new == WithPhase(j, s, phase) IN
           /\ Planned(new) = Planned(j) \ {s}
           /\ phase \in {"captured", "analysis_failed", "complete"} => Accepted(new) = Accepted(j) \cup {s}
           /\ phase \notin {"captured", "analysis_failed", "complete"} => Accepted(new) = Accepted(j) \ {s}
           /\ phase \in {"captured", "analysis_failed"} => Waiting(new) = Waiting(j) \cup {s}
           /\ phase \notin {"captured", "analysis_failed"} => Waiting(new) = Waiting(j) \ {s}
           /\ phase = "complete" => Analyzed(new) = Analyzed(j) \cup {s}
           /\ phase # "complete" => Analyzed(new) = Analyzed(j) \ {s}
<1> DEFINE new == WithPhase(j, s, phase)
<1>1. /\ Len(new.records) = Len(j.records)
      /\ \A t \in 1 .. Len(j.records) :
           new.records[t].phase = IF t = s THEN phase ELSE j.records[t].phase
  BY WithPhaseRewrites
<1> HIDE DEF new
<1>2. Planned(new) = Planned(j) \ {s}
  BY <1>1 DEF Planned
<1>3. /\ phase \in {"captured", "analysis_failed", "complete"} => Accepted(new) = Accepted(j) \cup {s}
      /\ phase \notin {"captured", "analysis_failed", "complete"} => Accepted(new) = Accepted(j) \ {s}
  BY <1>1 DEF Accepted
<1>4. /\ phase \in {"captured", "analysis_failed"} => Waiting(new) = Waiting(j) \cup {s}
      /\ phase \notin {"captured", "analysis_failed"} => Waiting(new) = Waiting(j) \ {s}
  BY <1>1 DEF Waiting
<1>5. /\ phase = "complete" => Analyzed(new) = Analyzed(j) \cup {s}
      /\ phase # "complete" => Analyzed(new) = Analyzed(j) \ {s}
  BY <1>1 DEF Analyzed
<1>6. QED BY <1>2, <1>3, <1>4, <1>5 DEF new

\* The slots of a journal with a new record.
LEMMA AppendMoves ==
    ASSUME NEW j \in JournalType, NEW r \in Record, r.phase = "planned"
    PROVE  LET new == [j EXCEPT !.records = Append(@, r)] IN
           /\ Planned(new) = Planned(j) \cup {Len(j.records) + 1}
           /\ Accepted(new) = Accepted(j) /\ Waiting(new) = Waiting(j)
           /\ Analyzed(new) = Analyzed(j)
<1> DEFINE new == [j EXCEPT !.records = Append(@, r)]
           n == Len(j.records)
<1>1. /\ Len(new.records) = n + 1 /\ new.records[n + 1] = r
      /\ \A s \in 1 .. n : new.records[s] = j.records[s]
  BY AppendRewrites
<1>2. n \in Nat
  BY DEF JournalType
<1> HIDE DEF new
<1>3. 1 .. n + 1 = (1 .. n) \cup {n + 1}
  BY <1>2
<1>4. Planned(new) = Planned(j) \cup {n + 1}
  BY <1>1, <1>3 DEF Planned
<1>5. Accepted(new) = Accepted(j) /\ Waiting(new) = Waiting(j) /\ Analyzed(new) = Analyzed(j)
  BY <1>1, <1>3 DEF Accepted, Waiting, Analyzed
<1>6. QED BY <1>4, <1>5 DEF new

\* The last record is rewritten, the others are not.
LEMMA WithLastKeeps ==
    ASSUME NEW j \in JournalType, j.records # <<>>, NEW r \in Record
    PROVE  LET new == WithLast(j, r) IN
           /\ new.halt = j.halt
           /\ new.records[Len(j.records)] = r
           /\ \A t \in 1 .. Len(j.records) - 1 : new.records[t] = j.records[t]
<1> DEFINE rs == j.records
           new == Front(rs) \o <<r>>
<1>1. rs \in Seq(Record) /\ Len(rs) \in Nat \ {0}
  BY LastTyped DEF JournalType
<1>2. /\ Front(rs) \in Seq(Record) /\ Len(Front(rs)) = Len(rs) - 1
      /\ \A t \in 1 .. Len(rs) - 1 : Front(rs)[t] = rs[t]
  BY <1>1 DEF Front
<1>3. new[Len(rs)] = r /\ \A t \in 1 .. Len(rs) - 1 : new[t] = rs[t]
  <2> DEFINE front == Front(rs)
  <2>1. \A t \in 1 .. Len(front) + 1 :
          (front \o <<r>>)[t] = IF t <= Len(front) THEN front[t] ELSE <<r>>[t - Len(front)]
    <3> HIDE DEF front
    <3>1. front \in Seq(Record) /\ <<r>> \in Seq(Record) /\ Len(<<r>>) = 1
      BY <1>2 DEF front
    <3>2. QED BY <3>1
  <2>2. <<r>>[1] = r
    OBVIOUS
  <2>3. Len(front) + 1 = Len(rs) /\ Len(rs) \in 1 .. Len(front) + 1 /\ Len(rs) - Len(front) = 1
        /\ ~(Len(rs) <= Len(front))
    BY <1>1, <1>2
  <2>4. new[Len(rs)] = r
    BY <2>1, <2>2, <2>3
  <2>5. \A t \in 1 .. Len(rs) - 1 : t \in 1 .. Len(front) + 1 /\ t <= Len(front) /\ front[t] = rs[t]
    BY <1>1, <1>2
  <2>6. QED BY <2>1, <2>4, <2>5
<1>4. WithLast(j, r) = [j EXCEPT !.records = new]
  BY DEF WithLast
<1> HIDE DEF new
<1>5. QED BY <1>3, <1>4 DEF JournalType

\* A record counts one more invocation.
LEMMA CaptureCounts ==
    ASSUME NEW record \in Record
    PROVE  LET new == [record EXCEPT !.captures = @ + 1] IN
           /\ new \in Record /\ new.captures = record.captures + 1
           /\ new.phase = record.phase /\ new.retry = record.retry
BY DEF Record

\* The last record counts one more invocation.
LEMMA InvocationCounts ==
    ASSUME NEW j \in JournalType, j.records # <<>>
    PROVE  LET r == [Last(j.records) EXCEPT !.captures = @ + 1]
               new == WithLast(j, r)
           IN  /\ new \in JournalType /\ new.phase = j.phase /\ new.halt = j.halt
               /\ Len(new.records) = Len(j.records)
               /\ Planned(new) = Planned(j) /\ Accepted(new) = Accepted(j)
               /\ Waiting(new) = Waiting(j) /\ Analyzed(new) = Analyzed(j)
               /\ \A t \in 1 .. Len(j.records) :
                    /\ new.records[t].captures = IF t = Len(j.records)
                         THEN j.records[t].captures + 1 ELSE j.records[t].captures
                    /\ new.records[t].phase = j.records[t].phase
                    /\ new.records[t].retry = j.records[t].retry
<1> DEFINE last == Last(j.records)
           r == [last EXCEPT !.captures = @ + 1]
           new == WithLast(j, r)
           n == Len(j.records)
<1>1. last \in Record /\ last = j.records[n] /\ n \in Nat \ {0}
  BY LastTyped
<1>2. r \in Record /\ r.captures = last.captures + 1 /\ r.phase = last.phase /\ r.retry = last.retry
  BY <1>1, CaptureCounts
<1> HIDE DEF r, last
<1>3. new \in JournalType /\ new.phase = j.phase /\ Len(new.records) = n
  BY <1>2, WithLastRewrites
<1>4. /\ new.halt = j.halt /\ new.records[n] = r
      /\ \A t \in 1 .. n - 1 : new.records[t] = j.records[t]
  BY <1>2, WithLastKeeps
<1> HIDE DEF new
<1>5. \A t \in 1 .. n : t = n \/ t \in 1 .. n - 1
  BY <1>1
<1>6. \A t \in 1 .. n :
        /\ new.records[t].captures = IF t = n THEN j.records[t].captures + 1
                                     ELSE j.records[t].captures
        /\ new.records[t].phase = j.records[t].phase
        /\ new.records[t].retry = j.records[t].retry
  BY <1>1, <1>2, <1>4, <1>5
<1>7. /\ Planned(new) = Planned(j) /\ Accepted(new) = Accepted(j)
      /\ Waiting(new) = Waiting(j) /\ Analyzed(new) = Analyzed(j)
  BY <1>3, <1>6, SamePhases
<1>8. QED BY <1>3, <1>4, <1>6, <1>7 DEF new, r, last

\* A write that adds no record and no planned one stays backed.
LEMMA BackedKeeps ==
    ASSUME NEW j, NEW new, NEW c, NEW b, Backed(j, c, b),
           Len(new.records) = Len(j.records), Planned(new) \subseteq Planned(j),
           \A s \in Planned(new) : new.records[s].captures = j.records[s].captures,
           \A s \in Accepted(new) : b[s] = "eligible"
    PROVE  Backed(new, c, b)
BY DEF Backed

\* Nor does a new record run ahead: its slot has not been called.
LEMMA BackedAppends ==
    ASSUME NEW j \in JournalType, NEW c \in [AllSlots -> Nat], NEW b, Backed(j, c, b),
           Len(j.records) + 1 <= Slots, NEW r \in Record, r.phase = "planned"
    PROVE  Backed([j EXCEPT !.records = Append(@, r)], c, b)
<1> DEFINE new == [j EXCEPT !.records = Append(@, r)]
           n == Len(j.records)
<1>1. /\ Len(new.records) = n + 1 /\ new.records[n + 1] = r
      /\ \A s \in 1 .. n : new.records[s] = j.records[s]
  BY AppendRewrites
<1>2. Planned(new) = Planned(j) \cup {n + 1} /\ Accepted(new) = Accepted(j)
  BY AppendMoves
<1>3. n \in Nat /\ n + 1 \in AllSlots /\ r.captures \in Nat
  BY DEF JournalType, AllSlots, Record
<1> HIDE DEF new
<1>4. c[n + 1] = 0
  BY <1>3 DEF Backed
<1>5. \A s \in Planned(j) : s \in 1 .. n
  BY DEF Planned
<1>6. \A s \in Planned(new) : c[s] <= new.records[s].captures
  BY <1>1, <1>2, <1>3, <1>4, <1>5 DEF Backed
<1>7. \A s \in AllSlots : s > Len(new.records) => c[s] = 0
  BY <1>1, <1>3 DEF Backed, AllSlots
<1>8. QED BY <1>1, <1>2, <1>6, <1>7 DEF Backed, new

\* Invocation and call are counted together.
LEMMA BackedCounts ==
    ASSUME NEW j \in JournalType, j.records # <<>>, NEW c \in [AllSlots -> Nat], NEW b,
           Backed(j, c, b), NEW new, Len(new.records) = Len(j.records),
           Planned(new) = Planned(j), Accepted(new) = Accepted(j),
           \A t \in 1 .. Len(j.records) :
              new.records[t].captures = IF t = Len(j.records)
                 THEN j.records[t].captures + 1 ELSE j.records[t].captures,
           NEW d \in [AllSlots -> Nat],
           \A s \in AllSlots : d[s] = IF s = Len(j.records) THEN c[s] + 1 ELSE c[s]
    PROVE  Backed(new, d, b)
<1> DEFINE n == Len(j.records)
<1>1. n \in Nat /\ n \in AllSlots /\ \A s \in 1 .. n : s \in AllSlots /\ j.records[s] \in Record
  BY LastTyped DEF Backed, AllSlots, JournalType
<1>2. \A s \in Planned(j) : s \in 1 .. n
  BY DEF Planned
<1>3. \A s \in 1 .. n : j.records[s].captures \in Nat
  BY <1>1 DEF Record
<1>4. ASSUME NEW s \in Planned(new) PROVE d[s] <= new.records[s].captures
  <2>1. s \in 1 .. n /\ s \in AllSlots /\ c[s] <= j.records[s].captures /\ c[s] \in Nat
    BY <1>1, <1>2 DEF Backed
  <2>2. QED BY <1>3, <2>1
<1>5. ASSUME NEW s \in AllSlots, s > n PROVE d[s] = 0
  BY <1>1, <1>5 DEF Backed
<1>6. QED BY <1>4, <1>5 DEF Backed

\* A write that settles nothing keeps a deferred journal canonical.
LEMMA CanonicalKeeps ==
    ASSUME NEW j, NEW new, NEW n, Canonical(j, n), Len(new.records) = Len(j.records),
           Accepted(new) = Accepted(j), Waiting(new) = Waiting(j),
           Planned(new) \subseteq Planned(j),
           new.phase = "halted" <=> new.halt # "none",
           new.phase = "capturing" => j.phase = "capturing" /\ Planned(new) = Planned(j),
           new.phase \in {"analyzing", "complete"} => Planned(new) = {},
           new.phase = "complete" => Waiting(new) = {}
    PROVE  Canonical(new, n)
BY DEF Canonical

\* A record is planned when all records are accepted and one more is wanted.
LEMMA CanonicalAppends ==
    ASSUME NEW j \in JournalType, NEW n, Canonical(j, n), j.phase = "capturing",
           Planned(j) = {}, Cardinality(Accepted(j)) < n
    PROVE  Canonical([j EXCEPT !.records = Append(@, NewRecord)], n)
<1> DEFINE new == [j EXCEPT !.records = Append(@, NewRecord)]
           l == Len(j.records)
<1>1. NewRecord \in Record /\ NewRecord.phase = "planned" /\ l \in Nat
  BY DEF NewRecord, Record, RecordPhase, JournalType
<1>2. new.phase = j.phase /\ Len(new.records) = l + 1
  BY <1>1, AppendRewrites
<1>3. new.halt = j.halt
  BY DEF JournalType
<1>4. /\ Planned(new) = Planned(j) \cup {l + 1} /\ Accepted(new) = Accepted(j)
      /\ Waiting(new) = Waiting(j)
  BY <1>1, AppendMoves
<1> HIDE DEF new
<1>5. 1 .. l \subseteq Accepted(j)
  BY DEF Canonical
<1>6. 1 .. Len(new.records) - 1 = 1 .. l /\ 1 .. Len(new.records) = (1 .. l) \cup {l + 1}
  BY <1>1, <1>2
<1>7. QED BY <1>2, <1>3, <1>4, <1>5, <1>6 DEF Canonical, new

\* A batch of a schedule: finitely many slots are accepted.
LEMMA AcceptedFinite ==
    ASSUME NEW j \in JournalType
    PROVE  /\ IsFiniteSet(Accepted(j)) /\ Cardinality(Accepted(j)) \in Nat
           /\ Accepted(j) \subseteq 1 .. Len(j.records)
<1>1. Len(j.records) \in Nat
  BY DEF JournalType
<1>2. IsFiniteSet(1 .. Len(j.records))
  BY <1>1, FS_Interval
<1>3. Accepted(j) \subseteq 1 .. Len(j.records)
  BY DEF Accepted
<1>4. QED BY <1>2, <1>3, FS_Subset, FS_CardinalityType

\* The last, planned record is accepted: one more, and the last to wait.
LEMMA CanonicalSettles ==
    ASSUME NEW j \in JournalType, NEW n \in Nat, Canonical(j, n), j.phase = "capturing",
           Len(j.records) \in Planned(j)
    PROVE  Canonical(WithPhase(j, Len(j.records), "captured"), n)
<1> DEFINE l == Len(j.records)
           new == WithPhase(j, l, "captured")
<1>1. l \in 1 .. l /\ l \notin Accepted(j) /\ l \in Nat
  BY DEF Planned, Accepted, JournalType
<1>2. /\ new.phase = j.phase /\ new.halt = j.halt /\ Len(new.records) = l
  BY WithPhaseRewrites DEF RecordPhase
<1>3. /\ Planned(new) = Planned(j) \ {l} /\ Accepted(new) = Accepted(j) \cup {l}
      /\ Waiting(new) = Waiting(j) \cup {l}
  BY <1>1, WithPhaseMoves DEF RecordPhase
<1> HIDE DEF new
<1>4. /\ IsFiniteSet(Accepted(j)) /\ Cardinality(Accepted(j)) \in Nat
      /\ Accepted(j) \subseteq 1 .. l
  BY AcceptedFinite
<1>5. Cardinality(Accepted(new)) = Cardinality(Accepted(j)) + 1
  BY <1>1, <1>3, <1>4, FS_AddElement
<1>6. Cardinality(Accepted(j)) < n
  BY DEF Canonical
<1>7. Planned(j) = {l}
  <2>1. Planned(j) \subseteq 1 .. l /\ Planned(j) \cap Accepted(j) = {}
    BY DEF Planned, Accepted
  <2>2. 1 .. l - 1 \subseteq Accepted(j)
    BY DEF Canonical
  <2>3. \A s \in 1 .. l : s = l \/ s \in 1 .. l - 1
    BY <1>1
  <2>4. QED BY <2>1, <2>2, <2>3
<1>8. \A s \in Waiting(new), t \in Accepted(new) : s <= t => t \in Waiting(new)
  <2> SUFFICES ASSUME NEW s \in Waiting(new), NEW t \in Accepted(new), s <= t, t # l
               PROVE  t \in Waiting(new)
    BY <1>3
  <2>1. t \in Accepted(j) /\ t \in 1 .. l /\ t < l
    BY <1>1, <1>3, <1>4
  <2>2. s # l
    BY <1>1, <2>1
  <2>3. QED BY <1>3, <2>1, <2>2 DEF Canonical
<1>9. QED BY <1>2, <1>3, <1>4, <1>5, <1>6, <1>7, <1>8 DEF Canonical, new

\* The receipt of the first record that waits: the order of the slots is kept.
LEMMA CanonicalReceives ==
    ASSUME NEW j \in JournalType, NEW n \in Nat, Canonical(j, n), j.phase = "analyzing",
           NEW s \in Waiting(j), \A t \in Waiting(j) : s <= t,
           NEW phase \in {"complete", "analysis_failed"}
    PROVE  Canonical(WithPhase(j, s, phase), n)
<1> DEFINE new == WithPhase(j, s, phase)
<1>1. s \in 1 .. Len(j.records) /\ s \in Accepted(j) /\ phase \in RecordPhase \ {"planned"}
  BY DEF Waiting, Accepted, RecordPhase
<1>2. /\ new.phase = j.phase /\ new.halt = j.halt /\ Len(new.records) = Len(j.records)
  BY <1>1, WithPhaseRewrites
<1>3. /\ Planned(new) = Planned(j) \ {s} /\ Accepted(new) = Accepted(j)
      /\ Waiting(new) = IF phase = "complete" THEN Waiting(j) \ {s} ELSE Waiting(j)
  <2>1. /\ Planned(new) = Planned(j) \ {s} /\ Accepted(new) = Accepted(j) \cup {s}
        /\ phase # "complete" => Waiting(new) = Waiting(j) \cup {s}
        /\ phase = "complete" => Waiting(new) = Waiting(j) \ {s}
    BY <1>1, WithPhaseMoves
  <2> HIDE DEF new
  <2>2. Accepted(j) \cup {s} = Accepted(j) /\ Waiting(j) \cup {s} = Waiting(j)
    BY <1>1
  <2>3. QED BY <2>1, <2>2
<1> HIDE DEF new
<1>4. \A r \in Waiting(new), t \in Accepted(new) : r <= t => t \in Waiting(new)
  <2> SUFFICES ASSUME NEW r \in Waiting(new), NEW t \in Accepted(new), r <= t
               PROVE  t \in Waiting(new)
    OBVIOUS
  <2>1. r \in Waiting(j) /\ t \in Accepted(j) /\ t \in Waiting(j) /\ s <= r
    BY <1>3 DEF Canonical
  <2>2. r \in Nat /\ t \in Nat /\ s \in Nat
    BY <1>1, <2>1 DEF Waiting, JournalType
  <2>3. t = s => r = s
    BY <2>1, <2>2
  <2>4. QED BY <1>3, <2>1, <2>3
<1>5. QED BY <1>2, <1>3, <1>4 DEF Canonical, new

-----------------------------------------------------------------------------
(* The deferred campaign and its durable state.                            *)

\* What a command finds in the databases.
LEMMA DurableFinds ==
    ASSUME Inv, Durable
    PROVE  /\ journal \in JournalType /\ calls \in [AllSlots -> Nat] /\ target \in Nat
           /\ Backed(journal, calls, batch)
           /\ kind = "deferred" => Canonical(journal, target)
           /\ kind = "one_shot" => Units(journal)
           /\ kind = "canary" => Gapless(journal)
           /\ kind # "canary" => \A s \in AllSlots : calls[s] <= MaximumCaptureInvocations
BY DEF Inv, TypeInv, Durable, DeferredInv, UnitInv, CanarySlots, HeldInv

\* The process with the lock moves, and what it leaves is backed and canonical.
LEMMA DurableMoves ==
    ASSUME Inv, Durable, kind = "deferred", UNCHANGED <<kind, target, batch, rf>>,
           NEW p \in Procs, Alone(p), NEW pc, NEW view, Moved(p, pc, view),
           pc \notin {"running", "settled"},
           journal' \in JournalType,
           Backed(journal', calls', batch), Canonical(journal', target),
           \A s \in AllSlots : calls'[s] <= MaximumCaptureInvocations,
           pc \in InPort => Len(view.records) = Len(journal'.records)
                            /\ Len(view.records) \in Planned(journal'),
           pc \in {"analysing", "reconciling"} => Waiting(journal') # {},
           drain'["staged"].stage # 0 =>
               (drain'["staged"].window + 1) * WindowBatches \in Waiting(journal')
    PROVE  Durable'
<1>1. \A q \in Procs : q # p => proc'[q].pc = "idle"
  BY DEF Moved, Alone
<1>2. proc'[p].pc = pc /\ proc'[p].view = view
  BY DEF Moved
<1>3. "idle" \notin InPort /\ "idle" \notin {"running", "settled", "analysing", "reconciling"}
  BY DEF InPort
<1>4. Planned(journal') \subseteq AllSlots
  <2>1. Planned(journal') \subseteq 1 .. Len(journal'.records) /\ Len(journal'.records) <= Slots
    BY DEF Planned, Backed
  <2>2. Len(journal'.records) \in Nat
    BY DEF JournalType
  <2>3. QED BY <2>1, <2>2 DEF AllSlots
<1>5. BatchInv'
  BY <1>1, <1>2, <1>3, <1>4 DEF Durable, BatchInv, SlotOf
<1>6. HeldInv'
  BY <1>1, <1>2, <1>3 DEF HeldInv, SlotOf
<1>7. DeferredInv'
  BY <1>1, <1>2, <1>3 DEF DeferredInv
<1>8. UnitInv' /\ CanarySlots'
  BY DEF UnitInv, CanarySlots
<1>9. Backed(journal', calls', batch')
  OBVIOUS
<1>10. QED BY <1>5, <1>6, <1>7, <1>8, <1>9 DEF Durable

\* A command that only writes the journal.
LEMMA DurableWrites ==
    ASSUME Inv, Durable, kind = "deferred", NEW p \in Procs, LockFree,
           NEW new \in JournalType, Write(new), UNCHANGED drainVars,
           Backed(new, calls, batch), Canonical(new, target)
    PROVE  Durable'
<1>1. journal' = new /\ UNCHANGED <<kind, target, now, batch, proc, rf, calls>>
  BY DEF Write
<1>2. proc[p].pc = "idle" /\ Alone(p)
  BY DEF LockFree, Alone
<1>3. drain'["staged"].stage = 0
  BY <1>2, NotInWindow DEF Inv, drainVars
<1>4. Moved(p, "idle", proc[p].view)
  BY <1>1, <1>2 DEF Moved, Inv, TypeInv
<1>5. Backed(journal', calls', batch) /\ Canonical(journal', target) /\ journal' \in JournalType
  BY <1>1
<1>6. \A s \in AllSlots : calls'[s] <= MaximumCaptureInvocations
  BY <1>1, DurableFinds
<1>7. "idle" \notin InPort
  BY DEF InPort
<1>8. QED BY <1>1, <1>2, <1>3, <1>4, <1>5, <1>6, <1>7, DurableMoves

\* Only the last record of a canonical journal is planned.
LEMMA PlannedIsLast ==
    ASSUME NEW j \in JournalType, 1 .. Len(j.records) - 1 \subseteq Accepted(j)
    PROVE  /\ LastIs(j, "planned") => Len(j.records) \in Planned(j)
           /\ ~LastIs(j, "planned") => Planned(j) = {}
           /\ Planned(j) \subseteq {Len(j.records)}
<1> DEFINE l == Len(j.records)
<1>1. l \in Nat
  BY DEF JournalType
<1>2. \A s \in 1 .. l : s = l \/ s \in 1 .. l - 1
  BY <1>1
<1>3. Planned(j) \subseteq {l}
  BY <1>2 DEF Planned, Accepted
<1>4. j.records # <<>> => Last(j.records) = j.records[l] /\ l \in 1 .. l
  BY LastTyped
<1>5. j.records = <<>> => l = 0
  OBVIOUS
<1>6. LastIs(j, "planned") => l \in Planned(j)
  BY <1>4 DEF LastIs, Planned
<1>7. l \in Planned(j) => LastIs(j, "planned")
  BY <1>4, <1>5 DEF LastIs, Planned
<1>8. QED BY <1>3, <1>6, <1>7

\* Phases and halts change nothing else.
LEMMA PhaseOnly ==
    ASSUME NEW j, NEW new, new.records = j.records
    PROVE  /\ Len(new.records) = Len(j.records)
           /\ Planned(new) = Planned(j) /\ Accepted(new) = Accepted(j)
           /\ Waiting(new) = Waiting(j) /\ Analyzed(new) = Analyzed(j)
           /\ \A c, b : Backed(j, c, b) => Backed(new, c, b)
BY DEF Planned, Accepted, Waiting, Analyzed, Backed

\* A deferred journal is halted.
LEMMA HaltIsDurable ==
    ASSUME NEW j \in JournalType, NEW n, Canonical(j, n),
           NEW reason \in HaltReason \ {"none"}
    PROVE  Canonical(Halted(j, reason), n)
<1> DEFINE new == Halted(j, reason)
<1>1. new.records = j.records /\ new.phase = "halted"
  BY HaltedRewrites
<1>2. new.halt = reason
  BY DEF Halted, JournalType
<1> HIDE DEF new
<1>3. /\ Len(new.records) = Len(j.records) /\ Planned(new) = Planned(j)
      /\ Accepted(new) = Accepted(j) /\ Waiting(new) = Waiting(j)
  BY <1>1, PhaseOnly
<1>4. Canonical(new, n)
  BY <1>1, <1>2, <1>3, CanonicalKeeps
<1>5. QED BY <1>4 DEF new

\* capture_next, as far as a record.
LEMMA PlanSlotDurable ==
    ASSUME Inv, Durable, NEW p \in Procs, PlanSlot(p), UNCHANGED drainVars
    PROVE  Durable'
<1>1. kind = "deferred" /\ LockFree /\ journal.phase = "capturing" /\ ~LastIs(journal, "planned")
  BY DEF PlanSlot, Command
<1>2. /\ journal \in JournalType /\ calls \in [AllSlots -> Nat] /\ target \in Nat
      /\ Backed(journal, calls, batch) /\ Canonical(journal, target)
  BY <1>1, DurableFinds
<1>3. Planned(journal) = {} /\ journal.halt = "none"
  BY <1>1, <1>2, PlannedIsLast DEF Canonical
<1>4. CASE Write([journal EXCEPT !.phase = "analyzing"])
  <2> DEFINE new == [journal EXCEPT !.phase = "analyzing"]
  <2>1. new \in JournalType /\ new.records = journal.records /\ new.phase = "analyzing"
    BY <1>2, PhaseRewrites DEF Phase
  <2>2. new.halt = "none"
    BY <1>2, <1>3 DEF JournalType
  <2> HIDE DEF new
  <2>3. Backed(new, calls, batch) /\ Canonical(new, target)
    BY <1>2, <1>3, <2>1, <2>2, PhaseOnly, CanonicalKeeps
  <2>4. QED BY <1>1, <1>4, <2>1, <2>3, DurableWrites DEF new
<1>5. ASSUME NEW reason \in {"window_ended", "missed_slot"}, Write(Halted(journal, reason))
      PROVE  Durable'
  <2>1. Halted(journal, reason) \in JournalType /\ Halted(journal, reason).records = journal.records
    BY <1>2, HaltedRewrites DEF HaltReason
  <2>2. Backed(Halted(journal, reason), calls, batch)
    BY <1>2, <2>1, PhaseOnly
  <2>3. Canonical(Halted(journal, reason), target)
    BY <1>2, HaltIsDurable DEF HaltReason
  <2>4. QED BY <1>1, <1>5, <2>1, <2>2, <2>3, DurableWrites
<1>6. CASE /\ ~Collected /\ WindowHas(NextSlot)
           /\ Write([journal EXCEPT !.records = Append(@, NewRecord)])
  <2> DEFINE new == [journal EXCEPT !.records = Append(@, NewRecord)]
  <2>1. NewRecord \in Record /\ NewRecord.phase = "planned"
    BY DEF NewRecord, Record, RecordPhase
  <2>2. Len(journal.records) + 1 <= Slots
    BY <1>6 DEF WindowHas, NextSlot
  <2>3. new \in JournalType
    BY <1>2, <2>1, AppendRewrites
  <2>4. Backed(new, calls, batch)
    BY <1>2, <2>1, <2>2, BackedAppends
  <2>5. Cardinality(Accepted(journal)) < target
    BY <1>2, <1>6, AcceptedFinite DEF Collected
  <2>6. Canonical(new, target)
    BY <1>1, <1>2, <1>3, <2>5, CanonicalAppends
  <2>7. QED BY <1>1, <1>6, <2>3, <2>4, <2>6, DurableWrites
<1>7. QED BY <1>4, <1>5, <1>6 DEF PlanSlot

\* A record that can no longer be captured.
LEMMA GiveUpDurable ==
    ASSUME Inv, Durable, NEW p \in Procs, GiveUp(p), UNCHANGED drainVars
    PROVE  Durable'
<1>1. /\ kind = "deferred" /\ LockFree /\ LastIs(journal, "planned")
      /\ journal.records # <<>> /\ journal.phase = "capturing"
  BY DEF GiveUp, Command, LastIs
<1>2. /\ journal \in JournalType /\ target \in Nat
      /\ Backed(journal, calls, batch) /\ Canonical(journal, target)
  BY <1>1, DurableFinds
<1> DEFINE record == [Last(journal.records) EXCEPT !.phase = "abandoned"]
           l == Len(journal.records)
<1>3. CASE Write(Halted(journal, "capture_uncertain"))
  <2> DEFINE new == Halted(journal, "capture_uncertain")
  <2>1. new \in JournalType /\ new.records = journal.records
    BY <1>2, HaltedRewrites DEF HaltReason
  <2>2. Backed(new, calls, batch) /\ Canonical(new, target)
    BY <1>2, <2>1, PhaseOnly, HaltIsDurable DEF HaltReason
  <2>3. QED BY <1>1, <1>3, <2>1, <2>2, DurableWrites
<1>4. CASE Write(Halted(WithLast(journal, record), "missed_slot"))
  <2> DEFINE left == WithLast(journal, record)
             new == Halted(left, "missed_slot")
  <2>1. l \in Planned(journal) /\ Planned(journal) \subseteq {l}
    BY <1>1, <1>2, PlannedIsLast DEF Canonical
  <2>2. Last(journal.records) \in Record /\ l \in Nat \ {0}
    BY <1>1, <1>2, LastTyped
  <2>3. record \in Record /\ record.phase = "abandoned"
    BY <2>2 DEF Record, RecordPhase
  <2> HIDE DEF record
  <2>4. /\ left \in JournalType /\ Len(left.records) = l
        /\ left.records[l] = record
        /\ \A t \in 1 .. l - 1 : left.records[t] = journal.records[t]
    BY <1>1, <1>2, <2>3, WithLastRewrites, WithLastKeeps
  <2> HIDE DEF left
  <2>5. new \in JournalType /\ new.records = left.records /\ new.phase = "halted"
    BY <2>4, HaltedRewrites DEF HaltReason
  <2>6. new.halt = "missed_slot"
    BY <2>4 DEF Halted, JournalType
  <2> HIDE DEF new
  <2>7. \A s \in 1 .. l : s = l \/ s \in 1 .. l - 1
    BY <2>2
  <2>8. journal.records[l].phase = "planned"
    BY <2>1 DEF Planned
  <2>9. Planned(new) = {}
    BY <2>1, <2>3, <2>4, <2>5, <2>7 DEF Planned
  <2>10. Accepted(new) = Accepted(journal) /\ Waiting(new) = Waiting(journal)
    BY <2>3, <2>4, <2>5, <2>7, <2>8 DEF Accepted, Waiting
  <2>11. Backed(new, calls, batch)
    BY <1>2, <2>4, <2>5, <2>9, <2>10, BackedKeeps DEF Backed
  <2>12. Canonical(new, target)
    BY <1>2, <2>4, <2>5, <2>6, <2>9, <2>10, CanonicalKeeps
  <2>13. QED BY <1>1, <1>4, <2>5, <2>11, <2>12, DurableWrites DEF new, left
<1>5. QED BY <1>3, <1>4 DEF GiveUp

\* The invocation, counted before the call and within its maximum.
LEMMA InvokeDurable ==
    ASSUME Inv, Durable, NEW p \in Procs, Invoke(p), UNCHANGED drainVars
    PROVE  Durable'
<1> DEFINE record == [Last(journal.records) EXCEPT !.captures = @ + 1]
           new == WithLast(journal, record)
           l == Len(journal.records)
<1>1. /\ kind = "deferred" /\ LockFree /\ journal.records # <<>> /\ journal.phase = "capturing"
      /\ LastIs(journal, "planned")
      /\ Last(journal.records).captures < MaximumCaptureInvocations
  <2>1. ~(Last(journal.records).captures >= MaximumCaptureInvocations)
    BY DEF Invoke, Exhausted
  <2>2. kind = "deferred" /\ LockFree /\ journal.records # <<>> /\ journal.phase = "capturing"
        /\ LastIs(journal, "planned")
    BY DEF Invoke, Command, LastIs
  <2>3. journal \in JournalType
    BY DEF Inv, TypeInv
  <2>4. Last(journal.records).captures \in Nat
    BY <2>2, <2>3, LastTyped DEF Record
  <2>5. QED BY <2>1, <2>2, <2>4
<1>2. /\ journal \in JournalType /\ calls \in [AllSlots -> Nat] /\ target \in Nat
      /\ Backed(journal, calls, batch) /\ Canonical(journal, target)
      /\ \A s \in AllSlots : calls[s] <= MaximumCaptureInvocations
  BY <1>1, DurableFinds
<1>3. Call(p, new) /\ UNCHANGED <<kind, target, now, batch, rf>>
  BY DEF Invoke
<1>4. /\ new \in JournalType /\ new.phase = journal.phase /\ new.halt = journal.halt
      /\ Len(new.records) = l
      /\ Planned(new) = Planned(journal) /\ Accepted(new) = Accepted(journal)
      /\ Waiting(new) = Waiting(journal)
      /\ \A t \in 1 .. l : new.records[t].captures =
           IF t = l THEN journal.records[t].captures + 1 ELSE journal.records[t].captures
  BY <1>1, <1>2, InvocationCounts
<1> HIDE DEF new
<1>5. /\ Moved(p, "invoked", new) /\ journal' = new /\ calls' \in [AllSlots -> Nat]
      /\ \A s \in AllSlots : calls'[s] = IF s = l THEN calls[s] + 1 ELSE calls[s]
  BY <1>3, <1>4, CallMoves DEF Inv
<1>6. Backed(new, calls', batch)
  BY <1>1, <1>2, <1>4, <1>5, BackedCounts
<1>7. l \in Planned(journal) /\ Last(journal.records) = journal.records[l]
  BY <1>1, <1>2, PlannedIsLast, LastTyped DEF Canonical
<1>8. Canonical(new, target)
  <2>1. journal.phase \notin {"halted", "analyzing", "complete"} /\ journal.halt = "none"
    BY <1>1, <1>2 DEF Canonical
  <2>2. QED BY <1>1, <1>2, <1>4, <2>1, CanonicalKeeps
<1>9. \A s \in AllSlots : calls'[s] <= MaximumCaptureInvocations
  <2>1. l \in AllSlots => calls[l] + 1 <= MaximumCaptureInvocations
    <3>1. calls[l] <= journal.records[l].captures
      BY <1>2, <1>7 DEF Backed
    <3>2. journal.records[l].captures \in Nat /\ journal.records[l].captures < MaximumCaptureInvocations
      BY <1>1, <1>2, <1>7, LastTyped DEF Record
    <3>3. QED BY <1>2, <3>1, <3>2
  <2>2. QED BY <1>2, <1>5, <2>1
<1>10. Alone(p) /\ proc[p].pc = "idle"
  BY <1>1, BusyIsAlone DEF Inv, LockFree
<1>11. drain'["staged"].stage = 0
  BY <1>1, <1>10, NotInWindow DEF Inv, drainVars
<1>12. Backed(journal', calls', batch) /\ Canonical(journal', target) /\ journal' \in JournalType
      /\ Len(new.records) = Len(journal'.records) /\ Len(new.records) \in Planned(journal')
  BY <1>4, <1>5, <1>6, <1>7, <1>8
<1>13. QED BY <1>1, <1>3, <1>5, <1>9, <1>10, <1>11, <1>12, DurableMoves

\* A command ends: the answer of the capture port or of an analysis.
LEMMA AnswerDurable ==
    ASSUME Inv, Durable, kind = "deferred", NEW p \in Procs, proc[p].pc # "idle",
           proc[p].pc \notin {"draining", "reconciling"}, Return(p), UNCHANGED drainVars,
           UNCHANGED <<kind, target, now, batch, rf, calls>>, journal' \in JournalType,
           Backed(journal', calls, batch), Canonical(journal', target)
    PROVE  Durable'
<1>1. Moved(p, "idle", EmptyJournal)
  BY ReturnMoves DEF Inv
<1>2. Alone(p)
  BY BusyIsAlone DEF Inv
<1>3. drain'["staged"].stage = 0
  BY <1>2, NotInWindow DEF Inv, drainVars
<1>4. Backed(journal', calls', batch)
  OBVIOUS
<1>5. \A s \in AllSlots : calls'[s] <= MaximumCaptureInvocations
  BY DurableFinds
<1>6. "idle" \notin InPort
  BY DEF InPort
<1>7. QED BY <1>1, <1>2, <1>3, <1>4, <1>5, <1>6, DurableMoves

\* A record is settled, as accepted only when its batch is eligible.
LEMMA BackedSettles ==
    ASSUME NEW j \in JournalType, NEW s \in 1 .. Len(j.records),
           NEW phase \in RecordPhase \ {"planned"}, NEW c, NEW b, Backed(j, c, b),
           phase \in {"captured", "analysis_failed", "complete"} => b[s] = "eligible"
    PROVE  Backed(WithPhase(j, s, phase), c, b)
<1> DEFINE new == WithPhase(j, s, phase)
<1>1. Len(new.records) = Len(j.records)
  BY WithPhaseRewrites
<1>2. \A t \in 1 .. Len(j.records) : new.records[t].captures = j.records[t].captures
  BY WithPhaseKeeps
<1>3. /\ Planned(new) = Planned(j) \ {s}
      /\ phase \in {"captured", "analysis_failed", "complete"} => Accepted(new) = Accepted(j) \cup {s}
      /\ phase \notin {"captured", "analysis_failed", "complete"} => Accepted(new) = Accepted(j) \ {s}
  BY WithPhaseMoves
<1> HIDE DEF new
<1>4. Planned(j) \subseteq 1 .. Len(j.records)
  BY DEF Planned
<1>5. \A t \in Accepted(new) : b[t] = "eligible"
  BY <1>3 DEF Backed
<1>6. Backed(new, c, b)
  BY <1>1, <1>2, <1>3, <1>4, <1>5, BackedKeeps
<1>7. QED BY <1>6 DEF new

\* The terminal snapshot of the port is journalled.
LEMMA JournalledDurable ==
    ASSUME Inv, Durable, NEW p \in Procs, Journalled(p) \/ Uncertain(p), UNCHANGED drainVars
    PROVE  Durable'
<1> DEFINE l == Len(journal.records)
<1>1. /\ kind = "deferred" /\ proc[p].pc \in {"raised", "returned"} /\ Return(p)
      /\ UNCHANGED <<kind, target, now, batch, rf, calls>>
  BY DEF Journalled, Uncertain
<1>2. /\ journal \in JournalType /\ target \in Nat
      /\ Backed(journal, calls, batch) /\ Canonical(journal, target)
  BY <1>1, DurableFinds
<1>3. proc[p].pc \in InPort
  BY <1>1 DEF InPort
<1>4. SlotOf(p) = l /\ l \in Planned(journal) /\ journal.phase = "capturing"
  BY <1>1, <1>3 DEF Durable, HeldInv, Inv, LockInv
<1>5. l \in 1 .. l /\ l \notin Accepted(journal) /\ l \notin Waiting(journal)
  BY <1>4 DEF Planned, Accepted, Waiting
<1>6. CASE journal' = journal
  BY <1>1, <1>2, <1>6, AnswerDurable
<1>7. CASE batch[l] = "eligible" /\ journal' = WithPhase(journal, l, "captured")
  <2>1. journal' \in JournalType
    BY <1>2, <1>7, WithPhaseRewrites DEF RecordPhase
  <2>2. Backed(journal', calls, batch)
    BY <1>2, <1>5, <1>7, BackedSettles DEF RecordPhase
  <2>3. Canonical(journal', target)
    BY <1>2, <1>4, <1>7, CanonicalSettles
  <2>4. QED BY <1>1, <2>1, <2>2, <2>3, AnswerDurable
<1>8. CASE journal' = Halted(WithPhase(journal, l, "terminal_failed"), "integrity_failure")
  <2> DEFINE failed == WithPhase(journal, l, "terminal_failed")
  <2>1. failed \in JournalType /\ Len(failed.records) = l
    BY <1>2, WithPhaseRewrites DEF RecordPhase
  <2>2. Backed(failed, calls, batch)
    BY <1>2, <1>5, BackedSettles DEF RecordPhase
  <2>3. /\ Planned(failed) = Planned(journal) \ {l} /\ Accepted(failed) = Accepted(journal) \ {l}
        /\ Waiting(failed) = Waiting(journal) \ {l}
    BY <1>2, <1>5, WithPhaseMoves DEF RecordPhase
  <2> HIDE DEF failed
  <2>4. Accepted(failed) = Accepted(journal) /\ Waiting(failed) = Waiting(journal)
    BY <1>5, <2>3
  <2>5. journal' \in JournalType /\ journal'.records = failed.records /\ journal'.phase = "halted"
    BY <1>8, <2>1, HaltedRewrites DEF HaltReason, failed
  <2>6. journal'.halt = "integrity_failure"
    BY <1>8, <2>1 DEF Halted, JournalType, failed
  <2>7. /\ Len(journal'.records) = l /\ Planned(journal') = Planned(failed)
        /\ Accepted(journal') = Accepted(failed) /\ Waiting(journal') = Waiting(failed)
        /\ Backed(journal', calls, batch)
    BY <2>1, <2>2, <2>5, PhaseOnly
  <2>8. Canonical(journal', target)
    BY <1>2, <2>3, <2>4, <2>5, <2>6, <2>7, CanonicalKeeps
  <2>9. QED BY <1>1, <2>5, <2>7, <2>8, AnswerDurable
<1>9. QED BY <1>4, <1>6, <1>7, <1>8 DEF Journalled, Uncertain, Settled

\* The collection is closed.
LEMMA CloseDurable ==
    ASSUME Inv, Durable, NEW p \in Procs, CloseCapture(p), UNCHANGED drainVars
    PROVE  Durable'
<1> DEFINE new == [journal EXCEPT !.phase = "analyzing", !.halt = "none"]
<1>1. kind = "deferred" /\ LockFree /\ Write(new) /\ ~LastIs(journal, "planned")
  BY DEF CloseCapture, Command, Closable
<1>2. /\ journal \in JournalType
      /\ Backed(journal, calls, batch) /\ Canonical(journal, target)
  BY <1>1, DurableFinds
<1>3. /\ new \in JournalType /\ new.records = journal.records
      /\ new.phase = "analyzing" /\ new.halt = "none"
  BY <1>2 DEF JournalType, Phase, HaltReason
<1> HIDE DEF new
<1>4. Planned(journal) = {}
  BY <1>1, <1>2, PlannedIsLast DEF Canonical
<1>5. Backed(new, calls, batch) /\ Canonical(new, target)
  BY <1>2, <1>3, <1>4, PhaseOnly, CanonicalKeeps
<1>6. QED BY <1>1, <1>3, <1>5, DurableWrites

\* The candidate of an analysis is the first record that waits.
LEMMA CandidateWaits ==
    ASSUME journal \in JournalType, Waiting(journal) # {}
    PROVE  /\ Candidate \in Waiting(journal) /\ \A t \in Waiting(journal) : Candidate <= t
           /\ Candidate \in 1 .. Len(journal.records) /\ Candidate \in Accepted(journal)
<1> DEFINE S == Waiting(journal)
<1>1. Len(journal.records) \in Nat /\ S \in SUBSET (1 .. Len(journal.records))
  BY DEF Waiting, JournalType
<1>2. Candidate = Min(S)
  BY DEF Candidate, Pending, Waiting, Min
<1>3. S \subseteq Accepted(journal)
  BY DEF Waiting, Accepted
<1> HIDE DEF S
<1>4. Min(S) \in S /\ \A t \in S : Min(S) <= t
  BY <1>1, MinIsLeast DEF S
<1>5. QED BY <1>1, <1>2, <1>3, <1>4 DEF S

\* An invocation of the analysis is counted and nothing else.
LEMMA CountedKeeps ==
    ASSUME NEW j \in JournalType, NEW s \in 1 .. Len(j.records), NEW c, NEW b, NEW n
    PROVE  LET new == [j EXCEPT !.records[s] = Counted(@)] IN
           /\ Waiting(new) = Waiting(j)
           /\ Backed(j, c, b) => Backed(new, c, b)
           /\ Canonical(j, n) => Canonical(new, n)
           /\ \A t \in 1 .. Len(j.records) : /\ new.records[t].phase = j.records[t].phase
                                             /\ new.records[t].retry = j.records[t].retry
<1> DEFINE r == Counted(j.records[s])
           rs == [j.records EXCEPT ![s] = r]
           new == [j EXCEPT !.records[s] = Counted(@)]
<1>1. j.records \in Seq(Record) /\ j.records[s] \in Record
  BY DEF JournalType
<1>2. /\ r \in Record /\ r.phase = j.records[s].phase /\ r.captures = j.records[s].captures
      /\ r.retry = j.records[s].retry
  BY <1>1, AnalysisCounts
<1>3. new = [j EXCEPT !.records = rs]
  OBVIOUS
<1> HIDE DEF r
<1>4. /\ Len(rs) = Len(j.records)
      /\ \A t \in 1 .. Len(j.records) : rs[t] = IF t = s THEN r ELSE j.records[t]
  BY <1>1, <1>2, RecordTyped
<1> HIDE DEF rs
<1>5. new.records = rs /\ new.phase = j.phase /\ new.halt = j.halt
  BY <1>3 DEF JournalType
<1> HIDE DEF new
<1>6. \A t \in 1 .. Len(j.records) :
        /\ new.records[t].phase = j.records[t].phase
        /\ new.records[t].captures = j.records[t].captures
        /\ new.records[t].retry = j.records[t].retry
  BY <1>2, <1>4, <1>5
<1>7. Len(new.records) = Len(j.records)
  BY <1>4, <1>5
<1>8. /\ Planned(new) = Planned(j) /\ Accepted(new) = Accepted(j) /\ Waiting(new) = Waiting(j)
  BY <1>6, <1>7, SamePhases
<1>9. Planned(j) \subseteq 1 .. Len(j.records)
  BY DEF Planned
<1>10. Backed(j, c, b) => Backed(new, c, b)
  BY <1>6, <1>7, <1>8, <1>9, BackedKeeps DEF Backed
<1>11. Canonical(j, n) => Canonical(new, n)
  BY <1>5, <1>7, <1>8 DEF Canonical
<1>12. QED BY <1>6, <1>8, <1>10, <1>11 DEF new

\* analyze_next.
LEMMA AnalyzeDurable ==
    ASSUME Inv, Durable, NEW p \in Procs, AnalyzeNext(p), UNCHANGED drainVars
    PROVE  Durable'
<1>1. kind = "deferred" /\ LockFree /\ proc[p].pc = "idle" /\ journal.phase = "analyzing"
  BY DEF AnalyzeNext, Command
<1>2. /\ journal \in JournalType
      /\ Backed(journal, calls, batch) /\ Canonical(journal, target)
  BY <1>1, DurableFinds
<1>3. Planned(journal) = {} /\ journal.halt = "none" /\ Pending = Waiting(journal)
  BY <1>1, <1>2 DEF Canonical, Pending, Waiting
<1>4. CASE Pending = {} /\ Write([journal EXCEPT !.phase = "complete"])
  <2> DEFINE new == [journal EXCEPT !.phase = "complete"]
  <2>1. new \in JournalType /\ new.records = journal.records /\ new.phase = "complete"
    BY <1>2, PhaseRewrites DEF Phase
  <2>2. new.halt = "none"
    BY <1>2, <1>3 DEF JournalType
  <2> HIDE DEF new
  <2>3. Backed(new, calls, batch) /\ Canonical(new, target)
    BY <1>2, <1>3, <1>4, <2>1, <2>2, PhaseOnly, CanonicalKeeps
  <2>4. QED BY <1>1, <1>4, <2>1, <2>3, DurableWrites DEF new
<1>5. CASE Write(Halted(journal, "analysis_failed"))
  <2> DEFINE new == Halted(journal, "analysis_failed")
  <2>1. new \in JournalType /\ new.records = journal.records
    BY <1>2, HaltedRewrites DEF HaltReason
  <2>2. Backed(new, calls, batch) /\ Canonical(new, target)
    BY <1>2, <2>1, PhaseOnly, HaltIsDurable DEF HaltReason
  <2>3. QED BY <1>1, <1>5, <2>1, <2>2, DurableWrites
<1>6. CASE /\ Pending # {}
           /\ journal' = [journal EXCEPT !.records[Candidate] = Counted(@)]
           /\ Goto(p, "analysing")
           /\ UNCHANGED <<kind, target, now, batch, rf, calls>>
  <2>1. Candidate \in 1 .. Len(journal.records)
    BY <1>2, <1>3, <1>6, CandidateWaits
  <2>2. journal' \in JournalType
    BY <1>2, <1>6, CountedTyped
  <2>3. /\ Waiting(journal') = Waiting(journal) /\ Backed(journal', calls, batch)
        /\ Canonical(journal', target)
    BY <1>2, <1>6, <2>1, CountedKeeps
  <2>4. Moved(p, "analysing", proc[p].view)
    BY <1>6, GotoMoves DEF Inv, ProcPc
  <2>5. Alone(p)
    BY <1>1, BusyIsAlone DEF Inv
  <2>6. drain'["staged"].stage = 0
    BY <1>1, <2>5, NotInWindow DEF Inv, drainVars
  <2>7. Backed(journal', calls', batch) /\ \A s \in AllSlots : calls'[s] <= MaximumCaptureInvocations
    BY <1>1, <1>6, <2>3, DurableFinds
  <2>8. QED BY <1>1, <1>3, <1>6, <2>2, <2>3, <2>4, <2>5, <2>6, <2>7, DurableMoves DEF InPort
<1>7. QED BY <1>4, <1>5, <1>6 DEF AnalyzeNext

\* The answer of the analysis goes to the record it was called for.
LEMMA AnalysisEndsDurable ==
    ASSUME Inv, Durable, NEW p \in Procs, AnalysisEnds(p), UNCHANGED drainVars
    PROVE  Durable'
<1>1. kind = "deferred" /\ proc[p].pc = "analysing" /\ Return(p)
      /\ UNCHANGED <<kind, target, now, batch, rf, calls>>
  BY DEF AnalysisEnds
<1>2. /\ journal \in JournalType /\ target \in Nat
      /\ Backed(journal, calls, batch) /\ Canonical(journal, target)
  BY <1>1, DurableFinds
<1>3. Waiting(journal) # {} /\ journal.phase = "analyzing"
  BY <1>1 DEF Durable, DeferredInv, Inv, LockInv
<1>4. PICK phase \in {"complete", "analysis_failed"} : journal' = WithPhase(journal, Candidate, phase)
  BY DEF AnalysisEnds
<1>5. /\ Candidate \in Waiting(journal) /\ \A t \in Waiting(journal) : Candidate <= t
      /\ Candidate \in 1 .. Len(journal.records) /\ Candidate \in Accepted(journal)
  BY <1>2, <1>3, CandidateWaits
<1>6. journal' \in JournalType
  BY <1>2, <1>4, WithPhaseRewrites DEF RecordPhase
<1>7. batch[Candidate] = "eligible"
  BY <1>2, <1>5 DEF Backed
<1>8. Backed(journal', calls, batch)
  BY <1>2, <1>4, <1>5, <1>7, BackedSettles DEF RecordPhase
<1>9. Canonical(journal', target)
  BY <1>2, <1>3, <1>4, <1>5, CanonicalReceives
<1>10. QED BY <1>1, <1>6, <1>8, <1>9, AnswerDurable

\* Every step of the deferred coordinator.
LEMMA DeferredDurable ==
    ASSUME Inv, Durable, NEW p \in Procs, DeferredStep(p), UNCHANGED drainVars
    PROVE  Durable'
BY PlanSlotDurable, GiveUpDurable, InvokeDurable, JournalledDurable, CloseDurable,
   AnalyzeDurable, AnalysisEndsDurable DEF DeferredStep

-----------------------------------------------------------------------------
(* The drains and the durable state.                                       *)

\* A step of the drains that leaves the campaign and its window alone.
LEMMA DurableDrains ==
    ASSUME Durable, UNCHANGED vars,
           drain'["staged"].stage # 0 => /\ drain["staged"].stage # 0
                                         /\ drain'["staged"].window = drain["staged"].window
    PROVE  Durable'
<1>1. UNCHANGED <<kind, target, now, journal, batch, proc, rf, calls>>
  BY DEF vars
<1>2. Backed(journal, calls, batch)'
  BY <1>1 DEF Durable
<1>3. BatchInv' /\ HeldInv'
  BY <1>1 DEF Durable, BatchInv, HeldInv, SlotOf
<1>4. DeferredInv'
  BY <1>1 DEF Durable, DeferredInv
<1>5. UnitInv' /\ CanarySlots'
  BY <1>1 DEF Durable, UnitInv, CanarySlots
<1>6. QED BY <1>2, <1>3, <1>4, <1>5 DEF Durable

\* The children, the lanes and the online drain.
LEMMA LaneDurable ==
    ASSUME Inv, Durable,
           LeaseExpires \/ OnlineStarts \/ OnlineStops \/ \E d \in Drains : LaneStep(d)
    PROVE  Durable'
<1>1. UNCHANGED vars
  BY LaneKeeps, OnlineKeeps
<1>2. drain \in [Drains -> [window : Nat, stage : 0 .. Stages + 1]] /\ "staged" \in Drains
  BY DEF Inv, WorkInv, Drains
<1>3. CASE LeaseExpires \/ \E d \in Drains : ChildClaims(d) \/ ChildCommits(d) \/ ChildFails(d)
  <2>1. drain' = drain
    BY <1>3 DEF LeaseExpires, ChildClaims, ChildCommits, ChildFails
  <2>2. QED BY <1>1, <2>1, DurableDrains
<1>4. CASE OnlineStarts \/ OnlineStops
  <2>1. drain'["staged"] = drain["staged"]
    BY <1>2, <1>4 DEF OnlineStarts, OnlineStops
  <2>2. QED BY <1>1, <2>1, DurableDrains
<1>5. ASSUME NEW d \in Drains, LaneAdvances(d) PROVE Durable'
  <2>1. CASE d # "staged"
    <3>1. drain'["staged"] = drain["staged"]
      BY <1>2, <1>5, <2>1 DEF LaneAdvances
    <3>2. QED BY <1>1, <3>1, DurableDrains
  <2>2. CASE d = "staged"
    <3>1. drain["staged"].stage \in 1 .. Stages
      BY <1>5, <2>2 DEF LaneAdvances, InLane
    <3>2. drain'["staged"] = [window |-> drain["staged"].window, stage |-> drain["staged"].stage + 1]
      BY <1>2, <1>5, <2>2 DEF LaneAdvances
    <3>3. drain'["staged"].window = drain["staged"].window /\ drain["staged"].stage # 0
      BY <3>1, <3>2
    <3>4. QED BY <1>1, <3>3, DurableDrains
  <2>3. QED BY <2>1, <2>2
<1>6. QED BY <1>3, <1>4, <1>5 DEF LaneStep

\* The drain exits with a journal that is backed and canonical.
LEMMA ExitDurable ==
    ASSUME Inv, Durable, NEW p \in Procs, proc[p].pc \in {"draining", "reconciling"},
           NEW new \in JournalType, DrainExits(p, new),
           Backed(new, calls, batch), Canonical(new, target)
    PROVE  Durable'
<1>1. /\ journal' = new /\ Return(p)
      /\ drain' = [drain EXCEPT !["staged"] = AtNone]
      /\ UNCHANGED <<kind, target, now, batch, rf, calls>>
  BY DEF DrainExits
<1>2. drain'["staged"].stage = 0
  BY <1>1 DEF Inv, WorkInv, AtNone, Drains
<1>3. Moved(p, "idle", EmptyJournal)
  BY <1>1, ReturnMoves DEF Inv
<1>4. kind = "deferred" /\ Alone(p)
  BY DrainerIsAlone
<1>5. /\ journal' \in JournalType /\ Backed(journal', calls', batch) /\ Canonical(journal', target)
      /\ \A s \in AllSlots : calls'[s] <= MaximumCaptureInvocations
  BY <1>1, <1>4, DurableFinds
<1>6. QED BY <1>1, <1>2, <1>3, <1>4, <1>5, DurableMoves DEF InPort

\* The halt of the analysis leaves the records.
LEMMA HaltAnalysisDurable ==
    ASSUME Inv, Durable, NEW p \in Procs, proc[p].pc \in {"draining", "reconciling"},
           DrainExits(p, HaltAnalysis)
    PROVE  Durable'
<1>1. /\ journal \in JournalType
      /\ Backed(journal, calls, batch) /\ Canonical(journal, target)
  BY DrainerIsAlone, DurableFinds
<1>2. HaltAnalysis \in JournalType /\ HaltAnalysis.records = journal.records
  BY <1>1, HaltedRewrites DEF HaltReason, HaltAnalysis
<1>3. Backed(HaltAnalysis, calls, batch) /\ Canonical(HaltAnalysis, target)
  BY <1>1, <1>2, PhaseOnly, HaltIsDurable DEF HaltReason, HaltAnalysis
<1>4. QED BY <1>2, <1>3, ExitDurable

\* Status 0 is given only to a campaign that has nothing left to analyse: the
\* target is reached, so no accepted record waits.
LEMMA DrainReturnsDurable ==
    ASSUME Inv, Durable, NEW p \in Procs, DrainReturns(p) \/ LaneStops(p)
    PROVE  Durable'
<1>1. proc[p].pc = "draining"
  BY DEF DrainReturns, LaneStops, AtLoopHead
<1>2. /\ journal \in JournalType /\ target \in Nat
      /\ Backed(journal, calls, batch) /\ Canonical(journal, target)
  BY <1>1, DrainerIsAlone, DurableFinds
<1>3. CASE DrainExits(p, journal)
  BY <1>1, <1>2, <1>3, ExitDurable
<1>4. CASE DrainExits(p, HaltAnalysis)
  BY <1>1, <1>4, HaltAnalysisDurable
<1>5. CASE /\ journal.phase = "analyzing" /\ Cardinality(Analyzed(journal)) = target
           /\ DrainExits(p, [journal EXCEPT !.phase = "complete"])
  <2> DEFINE new == [journal EXCEPT !.phase = "complete"]
  <2>1. new \in JournalType /\ new.records = journal.records /\ new.phase = "complete"
    BY <1>2, PhaseRewrites DEF Phase
  <2>2. new.halt = "none" /\ Planned(journal) = {}
    BY <1>2, <1>5 DEF JournalType, Canonical
  <2> HIDE DEF new
  <2>3. Waiting(journal) = {}
    <3>1. Analyzed(journal) \subseteq Accepted(journal)
      BY DEF Analyzed, Accepted
    <3>2. IsFiniteSet(Accepted(journal)) /\ Cardinality(Accepted(journal)) <= target
      BY <1>2, AcceptedFinite DEF Canonical
    <3>3. Cardinality(Analyzed(journal)) <= Cardinality(Accepted(journal))
          /\ Cardinality(Accepted(journal)) \in Nat
      BY <1>2, <3>1, <3>2, FS_Subset, AcceptedFinite
    <3>4. Cardinality(Analyzed(journal)) = Cardinality(Accepted(journal))
      BY <1>2, <1>5, <3>2, <3>3
    <3>5. Analyzed(journal) = Accepted(journal)
      BY <3>1, <3>2, <3>4, FS_Subset
    <3>6. Waiting(journal) \subseteq Accepted(journal)
          /\ Waiting(journal) \cap Analyzed(journal) = {}
      BY DEF Waiting, Accepted, Analyzed
    <3>7. QED BY <3>5, <3>6
  <2>4. Backed(new, calls, batch) /\ Canonical(new, target)
    BY <1>2, <2>1, <2>2, <2>3, PhaseOnly, CanonicalKeeps
  <2>5. QED BY <1>1, <1>5, <2>1, <2>4, ExitDurable DEF new
<1>6. QED BY <1>3, <1>4, <1>5 DEF DrainReturns, LaneStops

\* The staged drain begins.
LEMMA DrainBeginsDurable ==
    ASSUME Inv, Durable, NEW p \in Procs, DrainBegins(p)
    PROVE  Durable'
<1>1. /\ kind = "deferred" /\ LockFree /\ proc[p].pc = "idle" /\ Goto(p, "draining")
      /\ UNCHANGED <<kind, target, now, journal, batch, rf, calls>> /\ UNCHANGED drainVars
  BY DEF DrainBegins, Command
<1>2. /\ journal \in JournalType
      /\ Backed(journal, calls, batch) /\ Canonical(journal, target)
      /\ \A s \in AllSlots : calls[s] <= MaximumCaptureInvocations
  BY <1>1, DurableFinds
<1>3. Moved(p, "draining", proc[p].view)
  BY <1>1, GotoMoves DEF Inv, ProcPc
<1>4. Alone(p)
  BY <1>1, BusyIsAlone DEF Inv
<1>5. drain'["staged"].stage = 0
  BY <1>1, <1>4, NotInWindow DEF Inv, drainVars
<1>6. /\ journal' \in JournalType /\ Backed(journal', calls', batch) /\ Canonical(journal', target)
      /\ \A s \in AllSlots : calls'[s] <= MaximumCaptureInvocations
  BY <1>1, <1>2
<1>7. QED BY <1>1, <1>3, <1>4, <1>5, <1>6, DurableMoves DEF InPort

\* A window that begins at slot m ends WindowBatches - 1 slots later.
LEMMA WindowEnd ==
    ASSUME NEW a \in Nat, NEW c \in Nat \ {0}, a % c = 0
    PROVE  ((a \div c) + 1) * c = a + c
<1> DEFINE q == a \div c
           r == a % c
<1>1. q \in Nat /\ r \in Nat /\ a = c * q + r
  OBVIOUS
<1>2. r = 0
  OBVIOUS
<1> HIDE DEF q, r
<1>3. (q + 1) * c = c * q + c
  BY <1>1
<1>4. QED BY <1>1, <1>2, <1>3 DEF q

\* A window that begins with the first record that waits, and for which enough
\* wait, ends with one that waits: there is no gap between them.
LEMMA WindowIsFull ==
    ASSUME NEW j \in JournalType, NEW n, Canonical(j, n),
           Cardinality(Waiting(j)) >= WindowBatches,
           (Min(Waiting(j)) - 1) % WindowBatches = 0
    PROVE  (((Min(Waiting(j)) - 1) \div WindowBatches) + 1) * WindowBatches \in Waiting(j)
<1> DEFINE S == Waiting(j)
           m == Min(S)
           l == Len(j.records)
           e == m - 1 + WindowBatches
<1>1. l \in Nat /\ S \in SUBSET (1 .. l) /\ Cardinality(S) >= WindowBatches
  BY DEF Waiting, JournalType
<1>2. (m - 1) % WindowBatches = 0
  OBVIOUS
<1>3. /\ \A s \in S, t \in Accepted(j) : s <= t => t \in S
      /\ 1 .. l - 1 \subseteq Accepted(j)
  BY DEF Canonical
<1> HIDE DEF S
<1>4. S # {}
  <2>1. Cardinality({}) = 0
    BY FS_EmptySet
  <2>2. ~(0 >= WindowBatches)
    OBVIOUS
  <2>3. QED BY <1>1, <2>1, <2>2, Zenon
<1>5. m \in S /\ \A y \in S : m <= y
  BY <1>1, <1>4, MinIsLeast
<1> HIDE DEF m, l
<1>6. m \in 1 .. l /\ m - 1 \in Nat
  BY <1>1, <1>5
<1>7. (((m - 1) \div WindowBatches) + 1) * WindowBatches = e /\ e \in Nat /\ m <= e
  <2>1. (((m - 1) \div WindowBatches) + 1) * WindowBatches = e
    BY <1>2, <1>6, WindowEnd
  <2>2. e \in Nat /\ m <= e
    BY <1>6
  <2>3. QED BY <2>1, <2>2
<1> HIDE DEF e
<1>8. ASSUME e \notin S PROVE FALSE
  <2>1. S \subseteq m .. e - 1
    <3> SUFFICES ASSUME NEW y \in S, y >= e PROVE FALSE
      BY <1>1, <1>5, <1>6, <1>7
    <3>1. y \in 1 .. l /\ y # e /\ y > e
      BY <1>1, <1>7, <1>8
    <3>2. e \in 1 .. l - 1
      BY <1>1, <1>6, <1>7, <3>1
    <3>3. QED BY <1>3, <1>5, <1>7, <1>8, <3>2
  <2>2. IsFiniteSet(m .. e - 1) /\ Cardinality(m .. e - 1) = e - m
    <3>1. m \in Int /\ e \in Int /\ e - 1 \in Int
      BY <1>6, <1>7
    <3>2. IsFiniteSet(m .. e - 1)
          /\ Cardinality(m .. e - 1) = IF m > e - 1 THEN 0 ELSE (e - 1) - m + 1
      BY <3>1, FS_Interval
    <3>3. QED BY <1>7, <3>1, <3>2
  <2>3. Cardinality(S) <= e - m /\ Cardinality(S) \in Nat
    BY <2>1, <2>2, FS_Subset, FS_CardinalityType
  <2>4. e - m = WindowBatches - 1
    BY <1>6 DEF e
  <2>5. QED BY <1>1, <2>3, <2>4
<1>9. QED BY <1>7, <1>8 DEF m, S

\* The drain enters a window.
LEMMA WindowBeginsDurable ==
    ASSUME Inv, Durable, NEW p \in Procs, WindowBegins(p)
    PROVE  Durable'
<1> DEFINE w == (Min(Pending) - 1) \div WindowBatches
<1>1. /\ proc[p].pc = "draining" /\ UNCHANGED vars
      /\ drain' = [drain EXCEPT !["staged"] = [window |-> w, stage |-> 1]]
  BY DEF WindowBegins, AtLoopHead
<1>2. kind = "deferred" /\ journal \in JournalType /\ Canonical(journal, target)
  BY <1>1, DrainerIsAlone, DurableFinds
<1>3. /\ Pending = Waiting(journal) /\ Cardinality(Waiting(journal)) >= WindowBatches
      /\ (Min(Waiting(journal)) - 1) % WindowBatches = 0
  BY DEF WindowBegins, PendingWindow, Pending, Waiting
<1>4. (w + 1) * WindowBatches \in Waiting(journal)
  BY <1>2, <1>3, WindowIsFull
<1> HIDE DEF w
<1>5. drain'["staged"].window = w
  BY <1>1 DEF Inv, WorkInv, Drains
<1>6. UNCHANGED <<kind, target, now, journal, batch, proc, rf, calls>>
  BY <1>1 DEF vars
<1>7. Backed(journal, calls, batch)' /\ BatchInv' /\ HeldInv'
  BY <1>6 DEF Durable, BatchInv, HeldInv, SlotOf
<1>8. DeferredInv'
  BY <1>4, <1>5, <1>6 DEF Durable, DeferredInv
<1>9. UnitInv' /\ CanarySlots'
  BY <1>2, <1>6 DEF UnitInv, CanarySlots
<1>10. QED BY <1>7, <1>8, <1>9 DEF Durable

\* A receipt is asked for while one is due.
LEMMA ReconcileOneDurable ==
    ASSUME Inv, Durable, NEW p \in Procs, ReconcileOne(p)
    PROVE  Durable'
<1>1. proc[p].pc = "draining" /\ drain["staged"].stage = Stages + 1
  BY DEF ReconcileOne
<1>2. kind = "deferred" /\ Alone(p) /\ journal.phase = "analyzing"
  BY <1>1, DrainerIsAlone
<1>3. /\ journal \in JournalType
      /\ Backed(journal, calls, batch) /\ Canonical(journal, target)
      /\ \A s \in AllSlots : calls[s] <= MaximumCaptureInvocations
  BY <1>2, DurableFinds
<1>4. (drain["staged"].window + 1) * WindowBatches \in Waiting(journal)
  BY <1>1, <1>2 DEF Durable, DeferredInv
<1>5. CASE DrainExits(p, HaltAnalysis)
  BY <1>1, <1>5, HaltAnalysisDurable
<1>6. CASE /\ journal' = [journal EXCEPT !.records[Candidate] = Counted(@)]
           /\ Goto(p, "reconciling")
           /\ UNCHANGED <<kind, target, now, batch, rf, calls, drainVars>>
  <2>1. Candidate \in 1 .. Len(journal.records)
    BY <1>3, <1>4, CandidateWaits
  <2>2. journal' \in JournalType
    BY <1>3, <1>6, CountedTyped
  <2>3. /\ Waiting(journal') = Waiting(journal) /\ Backed(journal', calls, batch)
        /\ Canonical(journal', target)
    BY <1>3, <1>6, <2>1, CountedKeeps
  <2>4. Moved(p, "reconciling", proc[p].view)
    BY <1>6, GotoMoves DEF Inv, ProcPc
  <2>5. /\ Backed(journal', calls', batch)
        /\ \A s \in AllSlots : calls'[s] <= MaximumCaptureInvocations
        /\ (drain'["staged"].window + 1) * WindowBatches \in Waiting(journal')
    BY <1>3, <1>4, <1>6, <2>3 DEF drainVars
  <2>6. QED BY <1>2, <1>6, <2>2, <2>3, <2>4, <2>5, DurableMoves DEF InPort
<1>7. QED BY <1>5, <1>6 DEF ReconcileOne

\* The last slot of a window is a multiple of its size.
LEMMA MultipleHasNoRest ==
    ASSUME NEW k \in Nat, NEW c \in Nat \ {0}
    PROVE  (k * c) % c = 0
<1> DEFINE a == k * c
           q == a \div c
           r == a % c
<1>1. a \in Nat /\ q \in Nat /\ r \in Nat /\ r < c /\ a = c * q + r
  OBVIOUS
<1>2. a = c * k
  OBVIOUS
<1> HIDE DEF a, q, r
<1>3. r = c * (k - q)
  BY <1>1, <1>2
<1>4. k - q <= 0 \/ c * (k - q) >= c
  BY <1>1
<1>5. k - q >= 0
  BY <1>1, <1>3
<1>6. k - q = 0
  BY <1>1, <1>3, <1>4, <1>5
<1>7. r = 0
  BY <1>3, <1>6
<1>8. QED BY <1>7 DEF r, a

\* A receipt: the last of the window, or another one is due.
LEMMA ReceiptEndsDurable ==
    ASSUME Inv, Durable, NEW p \in Procs, ReceiptEnds(p)
    PROVE  Durable'
<1>1. proc[p].pc = "reconciling"
  BY DEF ReceiptEnds
<1>2. kind = "deferred" /\ Alone(p) /\ journal.phase = "analyzing"
  BY <1>1, DrainerIsAlone
<1>3. /\ journal \in JournalType /\ target \in Nat
      /\ Backed(journal, calls, batch) /\ Canonical(journal, target)
      /\ \A s \in AllSlots : calls[s] <= MaximumCaptureInvocations
  BY <1>2, DurableFinds
<1>4. /\ Candidate \in Waiting(journal) /\ \A t \in Waiting(journal) : Candidate <= t
      /\ Candidate \in 1 .. Len(journal.records) /\ Candidate \in Accepted(journal)
  BY <1>1, <1>2, <1>3, CandidateWaits DEF Durable, DeferredInv
<1>5. batch[Candidate] = "eligible"
  BY <1>3, <1>4 DEF Backed
<1>6. ASSUME NEW phase \in {"complete", "analysis_failed"}
      PROVE  LET new == WithPhase(journal, Candidate, phase) IN
             new \in JournalType /\ Backed(new, calls, batch) /\ Canonical(new, target)
  <2>1. WithPhase(journal, Candidate, phase) \in JournalType
    BY <1>3, WithPhaseRewrites DEF RecordPhase
  <2>2. Backed(WithPhase(journal, Candidate, phase), calls, batch)
    BY <1>3, <1>4, <1>5, BackedSettles DEF RecordPhase
  <2>3. Canonical(WithPhase(journal, Candidate, phase), target)
    BY <1>2, <1>3, <1>4, CanonicalReceives
  <2>4. QED BY <2>1, <2>2, <2>3
<1>7. CASE DrainExits(p, WithPhase(journal, Candidate, "analysis_failed"))
  BY <1>1, <1>6, <1>7, ExitDurable
<1>8. CASE /\ journal' = WithPhase(journal, Candidate, "complete")
           /\ Goto(p, "draining")
           /\ drain' = [drain EXCEPT !["staged"] = IF LastOfWindow(Candidate) THEN AtNone ELSE @]
           /\ UNCHANGED <<kind, target, now, batch, rf, calls, work>>
  <2>1. journal' \in JournalType /\ Backed(journal', calls, batch) /\ Canonical(journal', target)
    BY <1>6, <1>8
  <2>2. Moved(p, "draining", proc[p].view)
    BY <1>8, GotoMoves DEF Inv, ProcPc
  <2>3. Waiting(journal') = Waiting(journal) \ {Candidate}
    BY <1>3, <1>4, <1>8, WithPhaseMoves DEF RecordPhase
  <2>4. drain \in [Drains -> [window : Nat, stage : 0 .. Stages + 1]] /\ "staged" \in Drains
    BY DEF Inv, WorkInv, Drains
  <2>5. ASSUME drain'["staged"].stage # 0
        PROVE  (drain'["staged"].window + 1) * WindowBatches \in Waiting(journal')
    <3>1. ~LastOfWindow(Candidate) /\ drain'["staged"] = drain["staged"]
      BY <1>8, <2>4, <2>5 DEF AtNone
    <3>2. (drain["staged"].window + 1) * WindowBatches \in Waiting(journal)
      BY <1>2, <2>5, <3>1 DEF Durable, DeferredInv
    <3>3. Candidate # (drain["staged"].window + 1) * WindowBatches
      <4> DEFINE k == drain["staged"].window + 1
      <4>1. k \in Nat
        BY <2>4
      <4> HIDE DEF k
      <4>2. (k * WindowBatches) % WindowBatches = 0
        BY <4>1, MultipleHasNoRest
      <4>3. QED BY <3>1, <4>2 DEF LastOfWindow, k
    <3>4. QED BY <2>3, <3>1, <3>2, <3>3
  <2>6. Backed(journal', calls', batch) /\ \A s \in AllSlots : calls'[s] <= MaximumCaptureInvocations
    BY <1>3, <1>8, <2>1
  <2>7. QED BY <1>2, <1>8, <2>1, <2>2, <2>5, <2>6, DurableMoves DEF InPort
<1>9. QED BY <1>7, <1>8 DEF ReceiptEnds

-----------------------------------------------------------------------------
(* The capture port and the durable state.                                 *)

\* The rows: only a process that executes changes one, from none to open and
\* from open to an outcome, so no accepted slot loses its eligible row.
LEMMA PortBatches ==
    ASSUME Inv, Durable, NEW p \in Procs, PortStep(p)
    PROVE  /\ BatchInv'
           /\ \A s \in AllSlots : batch[s] = "eligible" => batch'[s] = "eligible"
<1>1. PICK pc \in InPort : Moved(p, pc, proc[p].view)
  BY PortMoves
<1>2. /\ batch \in [AllSlots -> BatchState] /\ rf \in [AllSlots -> Nat]
      /\ proc \in [Procs -> ProcType] /\ proc[p].pc \in InPort
  BY PortMoves DEF Inv, TypeInv
<1>3. /\ SlotOf(p) \in AllSlots /\ BatchInv
      /\ \A s \in AllSlots : batch[s] = "none" => rf[s] = 0
  BY <1>2 DEF Durable, BatchInv, Inv, OnceInv
<1>4. \A q \in Procs : /\ SlotOf(q)' = SlotOf(q)
                       /\ proc'[q].pc \in InPort => proc[q].pc \in InPort
                       /\ q # p => proc'[q].pc = proc[q].pc
  BY <1>1, <1>2 DEF Moved, SlotOf
<1>5. \A q \in Procs : proc'[q].pc \in InPort => SlotOf(q)' \in AllSlots
  BY <1>3, <1>4 DEF BatchInv
<1>6. CASE PortExecutes(p)
  <2> DEFINE s == SlotOf(p)
  <2>1. /\ batch[s] = "none" /\ ModeLockFree
        /\ batch' = [batch EXCEPT ![s] = "open"]
        /\ rf' = [rf EXCEPT ![s] = @ + 1]
    BY <1>6 DEF PortExecutes, Executable
  <2> HIDE DEF s
  <2>2. \A t \in AllSlots : /\ batch'[t] = IF t = s THEN "open" ELSE batch[t]
                            /\ rf'[t] = IF t = s THEN rf[t] + 1 ELSE rf[t]
    BY <1>2, <2>1, CountTyped
  <2>3. rf[s] = 0 /\ s \in AllSlots
    BY <1>3, <2>1 DEF s
  <2>4. \A q \in Procs : q # p => proc'[q].pc # "running"
    BY <1>4, <2>1 DEF ModeLockFree
  <2>5. batch'[SlotOf(p)'] = "open"
    BY <1>4, <2>2, <2>3 DEF s
  <2>6. \A t \in AllSlots : batch'[t] # "none" => rf'[t] = 1
    BY <1>3, <2>2, <2>3 DEF BatchInv
  <2>7. BatchInv'
    BY <1>5, <2>4, <2>5, <2>6 DEF BatchInv
  <2>8. QED BY <2>1, <2>2, <2>7
<1>7. CASE PortSettles(p)
  <2>1. PICK result \in {"rejected", "eligible"} : batch' = [batch EXCEPT ![SlotOf(p)] = result]
    BY <1>7 DEF PortSettles
  <2>2. proc[p].pc = "running" /\ Goto(p, "settled") /\ rf' = rf
    BY <1>7 DEF PortSettles
  <2>3. proc'[p].pc = "settled" /\ batch[SlotOf(p)] = "open"
    BY <1>2, <1>3, <2>2, GotoMoves DEF BatchInv, Inv, ProcPc, Moved
  <2>4. \A t \in AllSlots : batch'[t] = IF t = SlotOf(p) THEN result ELSE batch[t]
    BY <1>2, <2>1
  <2>5. \A q \in Procs : proc'[q].pc # "running"
    BY <1>3, <1>4, <2>2, <2>3 DEF BatchInv
  <2>6. \A t \in AllSlots : batch'[t] # "none" => rf'[t] = 1
    BY <1>3, <2>2, <2>3, <2>4 DEF BatchInv
  <2>7. BatchInv'
    BY <1>5, <2>5, <2>6 DEF BatchInv
  <2>8. QED BY <2>3, <2>4, <2>7
<1>8. CASE ~PortExecutes(p) /\ ~PortSettles(p)
  <2>1. UNCHANGED <<batch, rf>> /\ \E r \in {"raised", "settled", "returned"} : Goto(p, r)
    BY <1>8 DEF PortStep, PortRefuses, PortReplays, PortFails, PortReturns
  <2>2. proc'[p].pc # "running"
    BY <2>1, GotoMoves DEF Inv, ProcPc, Moved
  <2>3. BatchInv'
    BY <1>3, <1>4, <1>5, <2>1, <2>2 DEF BatchInv
  <2>4. QED BY <2>1, <2>3
<1>9. QED BY <1>6, <1>7, <1>8

\* A call of the port leaves the journal backed.
LEMMA PortDurable ==
    ASSUME Inv, Durable, NEW p \in Procs, PortStep(p), UNCHANGED drainVars
    PROVE  Durable'
<1>1. PICK pc \in InPort : Moved(p, pc, proc[p].view)
  BY PortMoves
<1>2. UNCHANGED <<kind, target, now, journal, calls>> /\ proc[p].pc \in InPort
  BY PortMoves
<1>3. BatchInv' /\ \A s \in AllSlots : batch[s] = "eligible" => batch'[s] = "eligible"
  BY PortBatches
<1>4. \A q \in Procs : /\ SlotOf(q)' = SlotOf(q)
                       /\ proc'[q].pc \in InPort => proc[q].pc \in InPort
                       /\ q # p => proc'[q].pc = proc[q].pc
  BY <1>1, <1>2 DEF Moved, SlotOf
<1>5. proc'[p].pc \notin {"idle", "planned", "analysing", "reconciling"} /\ proc[p].pc # "idle"
  BY <1>1, <1>2 DEF Moved, InPort
<1>6. Backed(journal, calls, batch)'
  <2>1. Accepted(journal) \subseteq AllSlots
    <3>1. Len(journal.records) \in Nat /\ Len(journal.records) <= Slots
      BY DEF Durable, Backed, Inv, TypeInv, JournalType
    <3>2. QED BY <3>1 DEF Accepted, AllSlots
  <2>2. QED BY <1>2, <1>3, <2>1 DEF Durable, Backed
<1>7. HeldInv'
  BY <1>2, <1>4, <1>5 DEF Durable, HeldInv
<1>8. DeferredInv' /\ UnitInv' /\ CanarySlots'
  BY <1>2, <1>4, <1>5 DEF Durable, DeferredInv, UnitInv, CanarySlots, drainVars
<1>9. QED BY <1>3, <1>6, <1>7, <1>8 DEF Durable

\* The clock, and a step that changes nothing.
LEMMA TickDurable ==
    ASSUME Inv, Durable, Tick \/ UNCHANGED vars, UNCHANGED drainVars
    PROVE  Durable'
<1>1. UNCHANGED <<kind, target, journal, batch, proc, rf, calls>>
  BY DEF Tick, vars
<1>2. Backed(journal, calls, batch)' /\ BatchInv' /\ HeldInv'
  BY <1>1 DEF Durable, BatchInv, HeldInv, SlotOf
<1>3. DeferredInv' /\ UnitInv' /\ CanarySlots'
  BY <1>1 DEF Durable, DeferredInv, UnitInv, CanarySlots, drainVars
<1>4. QED BY <1>2, <1>3 DEF Durable

-----------------------------------------------------------------------------
(* The one-shot campaign and its durable state.                            *)

\* The lock of a one-shot campaign.
LEMMA UnitIsAlone ==
    ASSUME Durable, kind = "one_shot", NEW p \in Procs, proc[p].pc # "idle" \/ LockFree
    PROVE  Alone(p)
BY DEF Durable, HeldInv, Alone, LockFree

\* The process with the lock moves, and what it leaves is backed.
LEMMA UnitMoves ==
    ASSUME Inv, Durable, kind = "one_shot", UNCHANGED <<kind, target, batch, rf>>,
           NEW p \in Procs, Alone(p), NEW pc, NEW view, Moved(p, pc, view), pc # "running",
           journal' \in JournalType, Backed(journal', calls', batch), Units(journal'),
           \A s \in AllSlots : calls'[s] <= MaximumCaptureInvocations,
           pc \in InPort => Len(view.records) = Len(journal'.records)
                            /\ Len(view.records) \in Planned(journal'),
           pc \in {"planned", "analysing"} => Len(journal'.records) \in Waiting(journal')
    PROVE  Durable'
<1>1. \A q \in Procs : q # p => proc'[q].pc = "idle"
  BY DEF Moved, Alone
<1>2. proc'[p].pc = pc /\ proc'[p].view = view
  BY DEF Moved
<1>3. "idle" \notin InPort /\ "idle" \notin {"running", "planned", "analysing"}
  BY DEF InPort
<1>4. Planned(journal') \subseteq AllSlots
  <2>1. Planned(journal') \subseteq 1 .. Len(journal'.records) /\ Len(journal'.records) <= Slots
    BY DEF Planned, Backed
  <2>2. Len(journal'.records) \in Nat
    BY DEF JournalType
  <2>3. QED BY <2>1, <2>2 DEF AllSlots
<1>5. BatchInv'
  BY <1>1, <1>2, <1>3, <1>4 DEF Durable, BatchInv, SlotOf
<1>6. HeldInv'
  BY <1>1, <1>2, <1>3 DEF HeldInv, SlotOf
<1>7. UnitInv'
  BY <1>1, <1>2, <1>3 DEF UnitInv
<1>8. DeferredInv' /\ CanarySlots'
  BY DEF DeferredInv, CanarySlots
<1>9. Backed(journal', calls', batch')
  OBVIOUS
<1>10. QED BY <1>5, <1>6, <1>7, <1>8, <1>9 DEF Durable

\* A write that adds no record and takes no receipt back.
LEMMA UnitsKeep ==
    ASSUME NEW j \in JournalType, NEW new \in JournalType, Units(j),
           Len(new.records) = Len(j.records), Analyzed(j) \subseteq Analyzed(new),
           \A t \in 1 .. Len(j.records) : new.records[t].retry = j.records[t].retry,
           \A t \in 1 .. Len(j.records) - 1 : new.records[t].phase = j.records[t].phase
    PROVE  Units(new)
<1> DEFINE l == Len(j.records)
<1>1. \A s \in 1 .. Len(new.records) - 1 : new.records[s].phase \in {"complete", "terminal_failed"}
  BY DEF Units
<1>2. ASSUME new.records # <<>>
      PROVE  /\ Last(new.records).retry < MaximumFreshAttempts
             /\ \A s \in Current(new) : s >= l - Last(new.records).retry
  <2>1. Last(new.records) = new.records[l] /\ l \in Nat \ {0}
    BY <1>2, LastTyped
  <2>2. j.records # <<>>
    BY <2>1 DEF JournalType
  <2>3. Last(j.records) = j.records[l]
    BY <2>2, LastTyped
  <2>4. Last(new.records).retry = Last(j.records).retry
    BY <2>1, <2>3
  <2>5. Current(new) \subseteq Current(j)
    BY DEF Current
  <2>6. QED BY <2>2, <2>4, <2>5 DEF Units
<1>3. QED BY <1>1, <1>2 DEF Units

\* The first attempt at a cell follows a complete unit, a further one a failed
\* attempt that leaves it one.
LEMMA UnitsAppend ==
    ASSUME NEW j \in JournalType, Units(j), NEW r \in Record, r.phase = "planned",
           \/ (j.records = <<>> \/ LastIs(j, "complete")) /\ r.retry = 0
           \/ /\ LastIs(j, "terminal_failed") /\ r.retry = Last(j.records).retry + 1
              /\ r.retry < MaximumFreshAttempts
    PROVE  Units([j EXCEPT !.records = Append(@, r)])
<1> DEFINE new == [j EXCEPT !.records = Append(@, r)]
           l == Len(j.records)
<1>1. /\ new \in JournalType /\ Len(new.records) = l + 1 /\ new.records[l + 1] = r
      /\ \A s \in 1 .. l : new.records[s] = j.records[s]
  BY AppendRewrites
<1>2. Analyzed(new) = Analyzed(j)
  BY AppendMoves
<1> HIDE DEF new
<1>3. l \in Nat /\ new.records # <<>>
  BY <1>1 DEF JournalType
<1>4. Last(new.records) = r
  BY <1>1, <1>3, LastTyped
<1>5. j.records # <<>> => Last(j.records) = j.records[l] /\ l \in 1 .. l
                          /\ Last(j.records).retry \in Nat
  BY LastTyped DEF Record
<1>6. j.records = <<>> => l = 0
  OBVIOUS
<1>7. \A s \in 1 .. l : new.records[s].phase \in {"complete", "terminal_failed"}
  <2>1. \A s \in 1 .. l : s = l \/ s \in 1 .. l - 1
    BY <1>3
  <2>2. l # 0 => j.records[l].phase \in {"complete", "terminal_failed"}
    BY <1>5, <1>6 DEF LastIs
  <2>3. QED BY <1>1, <1>3, <2>1, <2>2 DEF Units
<1>8. r.retry < MaximumFreshAttempts /\ r.retry \in Nat
  BY DEF Record
<1>9. ASSUME NEW s \in Current(new) PROVE s >= l + 1 - r.retry
  <2>1. s \in 1 .. l + 1 /\ \A t \in Analyzed(j) : t < s
    BY <1>1, <1>2, <1>9 DEF Current
  <2>2. CASE s = l + 1
    BY <1>3, <1>8, <2>2
  <2>3. CASE s \in 1 .. l
    <3>1. j.records # <<>> /\ s \in Current(j)
      BY <1>6, <2>1, <2>3 DEF Current
    <3>2. ~LastIs(j, "complete")
      <4>1. ASSUME LastIs(j, "complete") PROVE l \in Analyzed(j)
        BY <1>5, <3>1, <4>1 DEF LastIs, Analyzed
      <4>2. ~(l < s)
        BY <1>3, <2>3
      <4>3. QED BY <2>1, <4>1, <4>2
    <3>3. r.retry = Last(j.records).retry + 1 /\ s >= l - Last(j.records).retry
      BY <3>1, <3>2 DEF Units
    <3>4. QED BY <1>3, <1>5, <2>3, <3>1, <3>3
  <2>4. QED BY <1>3, <2>1, <2>2, <2>3
<1>10. Units(new)
  BY <1>1, <1>3, <1>4, <1>7, <1>8, <1>9 DEF Units
<1>11. QED BY <1>10 DEF new

\* A new record, or a fresh attempt.
LEMMA PlanUnitDurable ==
    ASSUME Inv, Durable, NEW p \in Procs, PlanUnit(p), UNCHANGED drainVars
    PROVE  Durable'
<1> DEFINE failed == LastIs(journal, "terminal_failed")
           retry == IF failed THEN Last(journal.records).retry + 1 ELSE 0
           record == [NewRecord EXCEPT !.retry = retry]
           new == [journal EXCEPT !.records = Append(@, record)]
<1>1. /\ kind = "one_shot" /\ LockFree /\ proc[p].pc = "idle"
      /\ UNCHANGED <<kind, target, now, batch, proc, rf, calls>>
      /\ journal' = new /\ Len(journal.records) + 1 <= Slots
      /\ journal.records = <<>> \/ LastIs(journal, "complete") \/ failed
      /\ failed => Last(journal.records).retry + 1 < MaximumFreshAttempts
  BY DEF PlanUnit, RunNext, MayRetry
<1>2. /\ journal \in JournalType /\ calls \in [AllSlots -> Nat]
      /\ Backed(journal, calls, batch) /\ Units(journal)
      /\ \A s \in AllSlots : calls[s] <= MaximumCaptureInvocations
  BY <1>1, DurableFinds
<1>3. retry \in Nat
  BY <1>2, LastTyped DEF LastIs, Record
<1>4. failed => retry = Last(journal.records).retry + 1
  OBVIOUS
<1>5. ~failed => retry = 0
  OBVIOUS
<1> HIDE DEF retry
<1>6. record \in Record /\ record.phase = "planned" /\ record.retry = retry
  BY <1>3 DEF NewRecord, Record, RecordPhase
<1> HIDE DEF record
<1>7. new \in JournalType
  BY <1>2, <1>6, AppendRewrites
<1>8. Backed(new, calls, batch)
  BY <1>1, <1>2, <1>6, BackedAppends
<1>9. Units(new)
  BY <1>1, <1>2, <1>4, <1>5, <1>6, UnitsAppend
<1> HIDE DEF new
<1>10. Alone(p) /\ Moved(p, "idle", proc[p].view)
  BY <1>1, UnitIsAlone DEF Moved, Inv, TypeInv
<1>11. /\ journal' \in JournalType /\ Backed(journal', calls', batch) /\ Units(journal')
       /\ \A s \in AllSlots : calls'[s] <= MaximumCaptureInvocations
  BY <1>1, <1>2, <1>7, <1>8, <1>9
<1>12. QED BY <1>1, <1>10, <1>11, UnitMoves DEF InPort

\* The invocation, counted before the call and within its maximum.
LEMMA RunCaptureDurable ==
    ASSUME Inv, Durable, NEW p \in Procs, RunCapture(p), UNCHANGED drainVars
    PROVE  Durable'
<1> DEFINE record == [Last(journal.records) EXCEPT !.captures = @ + 1]
           new == WithLast(journal, record)
           l == Len(journal.records)
<1>1. /\ kind = "one_shot" /\ LockFree /\ journal.records # <<>>
      /\ LastIs(journal, "planned") /\ Call(p, new)
      /\ Last(journal.records).captures < MaximumCaptureInvocations
      /\ UNCHANGED <<kind, target, now, batch, rf>>
  BY DEF RunCapture, RunNext, LastIs
<1>2. /\ journal \in JournalType /\ calls \in [AllSlots -> Nat]
      /\ Backed(journal, calls, batch) /\ Units(journal)
      /\ \A s \in AllSlots : calls[s] <= MaximumCaptureInvocations
  BY <1>1, DurableFinds
<1>3. /\ new \in JournalType /\ Len(new.records) = l
      /\ Planned(new) = Planned(journal) /\ Accepted(new) = Accepted(journal)
      /\ Analyzed(new) = Analyzed(journal)
      /\ \A t \in 1 .. l :
           /\ new.records[t].captures =
                IF t = l THEN journal.records[t].captures + 1 ELSE journal.records[t].captures
           /\ new.records[t].phase = journal.records[t].phase
           /\ new.records[t].retry = journal.records[t].retry
  BY <1>1, <1>2, InvocationCounts
<1> HIDE DEF new
<1>4. /\ Moved(p, "invoked", new) /\ journal' = new /\ calls' \in [AllSlots -> Nat]
      /\ \A s \in AllSlots : calls'[s] = IF s = l THEN calls[s] + 1 ELSE calls[s]
  BY <1>1, <1>3, CallMoves DEF Inv
<1>5. Backed(new, calls', batch)
  BY <1>1, <1>2, <1>3, <1>4, BackedCounts
<1>6. l \in Planned(journal) /\ Last(journal.records) = journal.records[l] /\ l \in Nat \ {0}
  BY <1>1, <1>2, LastTyped DEF LastIs, Planned
<1>7. Units(new)
  <2>1. \A t \in 1 .. l - 1 : t \in 1 .. l
    BY <1>6
  <2>2. QED BY <1>2, <1>3, <2>1, UnitsKeep
<1>8. \A s \in AllSlots : calls'[s] <= MaximumCaptureInvocations
  <2>1. l \in AllSlots => calls[l] + 1 <= MaximumCaptureInvocations
    <3>1. calls[l] <= journal.records[l].captures
      BY <1>2, <1>6 DEF Backed
    <3>2. journal.records[l].captures \in Nat /\ journal.records[l].captures < MaximumCaptureInvocations
      BY <1>1, <1>2, <1>6, LastTyped DEF Record
    <3>3. QED BY <1>2, <3>1, <3>2
  <2>2. QED BY <1>2, <1>4, <2>1
<1>9. Alone(p)
  BY <1>1, UnitIsAlone
<1>10. /\ journal' \in JournalType /\ Backed(journal', calls', batch) /\ Units(journal')
       /\ Len(new.records) = Len(journal'.records) /\ Len(new.records) \in Planned(journal')
  BY <1>3, <1>4, <1>5, <1>6, <1>7
<1>11. QED BY <1>1, <1>4, <1>8, <1>9, <1>10, UnitMoves

\* The last record is settled, and was not complete before.
LEMMA UnitSettles ==
    ASSUME NEW j \in JournalType, Units(j), Len(j.records) \in 1 .. Len(j.records),
           Len(j.records) \notin Analyzed(j), NEW phase \in RecordPhase \ {"planned"}
    PROVE  Units(WithPhase(j, Len(j.records), phase))
<1> DEFINE l == Len(j.records)
           new == WithPhase(j, l, phase)
<1>1. /\ new \in JournalType /\ Len(new.records) = l
      /\ \A t \in 1 .. l : new.records[t].phase = IF t = l THEN phase ELSE j.records[t].phase
  BY WithPhaseRewrites
<1>2. \A t \in 1 .. l : new.records[t].retry = j.records[t].retry
  BY WithPhaseKeeps
<1>3. /\ phase = "complete" => Analyzed(new) = Analyzed(j) \cup {l}
      /\ phase # "complete" => Analyzed(new) = Analyzed(j) \ {l}
  BY WithPhaseMoves
<1> HIDE DEF new
<1>4. Analyzed(j) \subseteq Analyzed(new)
  BY <1>3
<1>5. \A t \in 1 .. l - 1 : t \in 1 .. l /\ t # l
  BY DEF JournalType
<1>6. Units(new)
  BY <1>1, <1>2, <1>4, <1>5, UnitsKeep
<1>7. QED BY <1>6 DEF new

\* The unit's process settles its record and returns, or goes on to the analysis.
LEMMA UnitAnswerDurable ==
    ASSUME Inv, Durable, kind = "one_shot", NEW p \in Procs, proc[p].pc # "idle",
           NEW pc, NEW view, Moved(p, pc, view), pc \in {"idle", "planned"},
           UNCHANGED <<kind, target, now, batch, rf, calls>>,
           Len(journal.records) \in 1 .. Len(journal.records),
           Len(journal.records) \notin Analyzed(journal),
           NEW phase \in RecordPhase \ {"planned"},
           journal' = WithPhase(journal, Len(journal.records), phase),
           phase \in {"captured", "analysis_failed", "complete"}
               => batch[Len(journal.records)] = "eligible",
           pc = "planned" => phase = "captured"
    PROVE  Durable'
<1> DEFINE l == Len(journal.records)
<1>1. /\ journal \in JournalType /\ Backed(journal, calls, batch) /\ Units(journal)
      /\ \A s \in AllSlots : calls[s] <= MaximumCaptureInvocations
  BY DurableFinds
<1>2. journal' \in JournalType /\ Len(journal'.records) = l
  BY <1>1, WithPhaseRewrites
<1>3. Backed(journal', calls, batch)
  BY <1>1, BackedSettles
<1>4. Units(journal')
  BY <1>1, UnitSettles
<1>5. phase = "captured" => l \in Waiting(journal')
  <2>1. phase = "captured" => Waiting(journal') = Waiting(journal) \cup {l}
    BY <1>1, WithPhaseMoves
  <2>2. QED BY <2>1
<1>6. Alone(p)
  BY UnitIsAlone
<1>7. Backed(journal', calls', batch) /\ \A s \in AllSlots : calls'[s] <= MaximumCaptureInvocations
  BY <1>1, <1>3
<1>8. pc \notin InPort /\ pc \notin {"running", "analysing"}
  BY DEF InPort
<1>9. QED BY <1>2, <1>4, <1>5, <1>6, <1>7, <1>8, UnitMoves

\* An exception of the port, and the death of the process.
LEMMA UnitReturnDurable ==
    ASSUME Inv, Durable, kind = "one_shot", NEW p \in Procs, proc[p].pc # "idle", Return(p),
           UNCHANGED <<kind, target, now, journal, batch, rf, calls>>
    PROVE  Durable'
<1>1. /\ journal \in JournalType /\ Backed(journal, calls, batch) /\ Units(journal)
      /\ \A s \in AllSlots : calls[s] <= MaximumCaptureInvocations
  BY DurableFinds
<1>2. Alone(p) /\ Moved(p, "idle", EmptyJournal)
  BY UnitIsAlone, ReturnMoves DEF Inv
<1>3. /\ journal' \in JournalType /\ Backed(journal', calls', batch) /\ Units(journal')
      /\ \A s \in AllSlots : calls'[s] <= MaximumCaptureInvocations
  BY <1>1
<1>4. "idle" \notin InPort /\ "idle" \notin {"running", "planned", "analysing"}
  BY DEF InPort
<1>5. QED BY <1>2, <1>3, <1>4, UnitMoves

\* The answer of the capture port.
LEMMA CapturedDurable ==
    ASSUME Inv, Durable, NEW p \in Procs,
           CaptureUncertain(p) \/ CaptureFailed(p) \/ Captured(p), UNCHANGED drainVars
    PROVE  Durable'
<1> DEFINE l == Len(journal.records)
<1>1. /\ kind = "one_shot" /\ proc[p].pc \in {"raised", "returned"}
      /\ UNCHANGED <<kind, target, now, batch, rf, calls>>
  BY DEF CaptureUncertain, CaptureFailed, Captured
<1>2. SlotOf(p) = l /\ l \in Planned(journal)
  BY <1>1 DEF Durable, HeldInv, InPort
<1>3. l \in 1 .. l /\ l \notin Analyzed(journal)
  BY <1>2 DEF Planned, Analyzed
<1>4. CASE CaptureUncertain(p)
  BY <1>1, <1>4, UnitReturnDurable DEF CaptureUncertain
<1>5. CASE CaptureFailed(p)
  <2>1. Return(p) /\ journal' = WithPhase(journal, l, "terminal_failed")
    BY <1>2, <1>5 DEF CaptureFailed
  <2>2. Moved(p, "idle", EmptyJournal)
    BY <2>1, ReturnMoves DEF Inv
  <2>3. "terminal_failed" \in RecordPhase \ {"planned"}
    BY DEF RecordPhase
  <2>4. QED BY <1>1, <1>3, <2>1, <2>2, <2>3, UnitAnswerDurable
<1>6. CASE Captured(p)
  <2>1. /\ Goto(p, "planned") /\ batch[l] = "eligible"
        /\ journal' = WithPhase(journal, l, "captured")
    BY <1>2, <1>6 DEF Captured
  <2>2. Moved(p, "planned", proc[p].view)
    BY <2>1, GotoMoves DEF Inv, ProcPc
  <2>3. "captured" \in RecordPhase \ {"planned"}
    BY DEF RecordPhase
  <2>4. QED BY <1>1, <1>3, <2>1, <2>2, <2>3, UnitAnswerDurable
<1>7. QED BY <1>4, <1>5, <1>6

\* The receipt, or the failure, goes to the unit that waits for it.
LEMMA AnalysisReturnsDurable ==
    ASSUME Inv, Durable, NEW p \in Procs, AnalysisReturns(p), UNCHANGED drainVars
    PROVE  Durable'
<1> DEFINE l == Len(journal.records)
<1>1. /\ kind = "one_shot" /\ proc[p].pc = "analysing" /\ Return(p)
      /\ UNCHANGED <<kind, target, now, batch, rf, calls>>
  BY DEF AnalysisReturns
<1>2. PICK phase \in {"complete", "analysis_failed"} : journal' = WithPhase(journal, l, phase)
  BY DEF AnalysisReturns
<1>3. l \in Waiting(journal)
  BY <1>1 DEF Durable, UnitInv
<1>4. l \in 1 .. l /\ l \notin Analyzed(journal) /\ l \in Accepted(journal)
  BY <1>3 DEF Waiting, Analyzed, Accepted
<1>5. batch[l] = "eligible"
  BY <1>4 DEF Durable, Backed
<1>6. Moved(p, "idle", EmptyJournal)
  BY <1>1, ReturnMoves DEF Inv
<1>7. phase \in RecordPhase \ {"planned"}
  BY DEF RecordPhase
<1>8. QED BY <1>1, <1>2, <1>4, <1>5, <1>6, <1>7, UnitAnswerDurable

\* The analysis is counted, for the unit that waits.
LEMMA RunAnalysisDurable ==
    ASSUME Inv, Durable, NEW p \in Procs, RunAnalysis(p), UNCHANGED drainVars
    PROVE  Durable'
<1> DEFINE l == Len(journal.records)
<1>1. /\ kind = "one_shot" /\ UNCHANGED <<kind, target, now, batch, rf, calls>>
      /\ Goto(p, "analysing") /\ (proc[p].pc # "idle" \/ LockFree)
      /\ journal' = [journal EXCEPT !.records[l].analyses = @ + 1]
  BY DEF RunAnalysis, RunNext, CountAnalysis
<1>2. /\ journal \in JournalType /\ Backed(journal, calls, batch) /\ Units(journal)
      /\ \A s \in AllSlots : calls[s] <= MaximumCaptureInvocations
  BY <1>1, DurableFinds
<1>3. l \in Waiting(journal)
  <2>1. CASE proc[p].pc = "planned"
    BY <1>1, <2>1 DEF Durable, UnitInv
  <2>2. CASE LastIs(journal, "captured") \/ LastIs(journal, "analysis_failed")
    BY <1>2, <2>2, LastTyped DEF LastIs, Waiting
  <2>3. QED BY <2>1, <2>2 DEF RunAnalysis
<1>4. l \in 1 .. l /\ l \in Nat
  BY <1>3 DEF Waiting
<1>5. journal' = [journal EXCEPT !.records[l] = Counted(@)]
  BY <1>1 DEF Counted
<1>6. journal.records[l] \in Record
  BY <1>2, <1>4 DEF JournalType
<1>7. journal' \in JournalType /\ Len(journal'.records) = l
  <2> DEFINE r == Counted(journal.records[l])
  <2>1. r \in Record
    BY <1>6, AnalysisCounts
  <2>2. journal' = [journal EXCEPT !.records[l] = r]
    BY <1>5
  <2> HIDE DEF r
  <2>3. QED BY <1>2, <2>1, <2>2, CountedRewrites
<1>8. /\ Waiting(journal') = Waiting(journal) /\ Backed(journal', calls, batch)
      /\ \A t \in 1 .. l : /\ journal'.records[t].phase = journal.records[t].phase
                           /\ journal'.records[t].retry = journal.records[t].retry
  BY <1>2, <1>4, <1>5, CountedKeeps
<1>9. Units(journal')
  <2>1. Analyzed(journal') = Analyzed(journal)
    BY <1>7, <1>8, SamePhases
  <2>2. \A t \in 1 .. l - 1 : t \in 1 .. l
    BY <1>4
  <2>3. QED BY <1>2, <1>7, <1>8, <2>1, <2>2, UnitsKeep
<1>10. Moved(p, "analysing", proc[p].view) /\ Alone(p)
  BY <1>1, GotoMoves, UnitIsAlone DEF Inv, ProcPc
<1>11. /\ Backed(journal', calls', batch) /\ Len(journal'.records) \in Waiting(journal')
       /\ \A s \in AllSlots : calls'[s] <= MaximumCaptureInvocations
  BY <1>1, <1>2, <1>3, <1>7, <1>8
<1>12. QED BY <1>1, <1>7, <1>9, <1>10, <1>11, UnitMoves DEF InPort

\* Every step of the one-shot coordinator.
LEMMA OneShotDurable ==
    ASSUME Inv, Durable, NEW p \in Procs, OneShotStep(p), UNCHANGED drainVars
    PROVE  Durable'
BY PlanUnitDurable, RunCaptureDurable, CapturedDurable, RunAnalysisDurable,
   AnalysisReturnsDurable DEF OneShotStep

-----------------------------------------------------------------------------
(* The canary and its durable state.                                       *)

\* Process p moves, and what it leaves is backed and has no gap.
LEMMA CanaryMovesDurable ==
    ASSUME Inv, Durable, kind = "canary", UNCHANGED <<kind, batch, rf>>,
           NEW p \in Procs, NEW pc, NEW view, Moved(p, pc, view), pc # "running",
           Backed(journal', calls', batch), Gapless(journal'),
           pc \in InPort => Len(view.records) \in AllSlots
    PROVE  Durable'
<1>1. \A q \in Procs : q # p => proc'[q] = proc[q]
  BY DEF Moved
<1>2. proc'[p].pc = pc /\ proc'[p].view = view
  BY DEF Moved
<1>3. BatchInv'
  BY <1>1, <1>2 DEF Durable, BatchInv, SlotOf
<1>4. HeldInv' /\ DeferredInv' /\ UnitInv' /\ CanarySlots'
  BY DEF HeldInv, DeferredInv, UnitInv, CanarySlots
<1>5. Backed(journal', calls', batch')
  OBVIOUS
<1>6. QED BY <1>3, <1>4, <1>5 DEF Durable

\* The operation ends, with a write or without; or the process dies.
LEMMA FinishDurable ==
    ASSUME Inv, Durable, kind = "canary", NEW p \in Procs, Return(p),
           UNCHANGED <<kind, target, now, batch, rf, calls>>,
           Backed(journal', calls, batch), Gapless(journal')
    PROVE  Durable'
<1>1. Moved(p, "idle", EmptyJournal)
  BY ReturnMoves DEF Inv
<1>2. Backed(journal', calls', batch)
  OBVIOUS
<1>3. "idle" \notin InPort /\ "idle" # "running"
  BY DEF InPort
<1>4. QED BY <1>1, <1>2, <1>3, CanaryMovesDurable

\* Gaps are a matter of the records.
LEMMA GaplessOfRecords ==
    ASSUME NEW j, NEW new, new.records = j.records, Gapless(j)
    PROVE  Gapless(new)
BY DEF Gapless, Accepted

\* A record is accepted, or its receipt arrives.
LEMMA GaplessSettles ==
    ASSUME NEW j \in JournalType, NEW s \in 1 .. Len(j.records), Gapless(j),
           NEW phase \in {"captured", "complete"}
    PROVE  Gapless(WithPhase(j, s, phase))
<1> DEFINE new == WithPhase(j, s, phase)
<1>1. /\ Len(new.records) = Len(j.records)
      /\ \A t \in 1 .. Len(j.records) :
           new.records[t].phase = IF t = s THEN phase ELSE j.records[t].phase
  BY WithPhaseRewrites DEF RecordPhase
<1>2. Accepted(new) = Accepted(j) \cup {s}
  BY WithPhaseMoves DEF RecordPhase
<1> HIDE DEF new
<1>3. Gapless(new)
  BY <1>1, <1>2 DEF Gapless
<1>4. QED BY <1>3 DEF new

\* The operations that load the journal, give up or lose the race.
LEMMA LoadDurable ==
    ASSUME Inv, Durable, NEW p \in Procs, Load(p) \/ Postpone(p) \/ LoseRace(p)
    PROVE  Durable'
<1>1. kind = "canary" /\ UNCHANGED <<kind, target, now, journal, batch, rf, calls>>
  BY DEF Load, Postpone, LoseRace, AtPlanned
<1>2. Backed(journal, calls, batch) /\ Gapless(journal) /\ journal \in JournalType
  BY <1>1, DurableFinds
<1>3. Backed(journal', calls', batch) /\ Backed(journal', calls, batch) /\ Gapless(journal')
  BY <1>1, <1>2
<1>4. CASE Return(p)
  BY <1>1, <1>3, <1>4, FinishDurable
<1>5. CASE Load(p)
  <2> DEFINE new == [pc |-> "loaded", view |-> journal, at |-> now]
  <2>1. new \in ProcType
    BY <1>2 DEF ProcType, ProcPc, Inv, TypeInv
  <2>2. proc' = [proc EXCEPT ![p] = new]
    BY <1>5 DEF Load
  <2>3. new.pc = "loaded" /\ new.view = journal
    OBVIOUS
  <2> HIDE DEF new
  <2>4. Moved(p, "loaded", journal)
    BY <2>1, <2>2, <2>3 DEF Moved, Inv, TypeInv
  <2>5. "loaded" \notin InPort /\ "loaded" # "running"
    BY DEF InPort
  <2>6. QED BY <1>1, <1>3, <2>4, <2>5, CanaryMovesDurable
<1>6. QED BY <1>4, <1>5 DEF Postpone, LoseRace

\* The canary halts, or turns to its next phase, and keeps its records.
LEMMA CanaryPhaseDurable ==
    ASSUME Inv, Durable, kind = "canary", NEW p \in Procs, NEW new, Finish(p, new),
           new.records = journal.records
    PROVE  Durable'
<1>1. journal' = new /\ Return(p) /\ UNCHANGED <<kind, target, now, batch, rf, calls>>
  BY DEF Finish, CompareAndSwap
<1>2. Backed(journal, calls, batch) /\ Gapless(journal)
  BY DurableFinds
<1>3. Backed(journal', calls, batch) /\ Gapless(journal')
  BY <1>1, <1>2, PhaseOnly, GaplessOfRecords
<1>4. QED BY <1>1, <1>3, FinishDurable

\* The halts and the begin of the analysis.
LEMMA HaltDurable ==
    ASSUME Inv, Durable, NEW p \in Procs,
           \/ FindInvoked(p) \/ MissSlot(p) \/ CanaryUncertain(p) \/ ReconcileFails(p)
           \/ StartAnalysis(p)
    PROVE  Durable'
<1>1. kind = "canary"
  BY DEF FindInvoked, MissSlot, CanaryUncertain, ReconcileFails, StartAnalysis, AtPlanned, Loaded
<1>2. journal \in JournalType
  BY DEF Inv, TypeInv
<1>3. CASE StartAnalysis(p)
  <2>1. journal = View(p) /\ Finish(p, [View(p) EXCEPT !.phase = "analyzing"])
    BY <1>3 DEF StartAnalysis, Finish, CompareAndSwap
  <2>2. [View(p) EXCEPT !.phase = "analyzing"].records = journal.records
    BY <1>2, <2>1, PhaseRewrites DEF Phase
  <2>3. QED BY <1>1, <2>1, <2>2, CanaryPhaseDurable
<1>4. CASE ~StartAnalysis(p)
  <2>1. PICK reason \in HaltReason : Finish(p, Halted(View(p), reason))
    BY <1>4 DEF FindInvoked, MissSlot, CanaryUncertain, ReconcileFails, HaltReason
  <2>2. journal = View(p)
    BY <2>1 DEF Finish, CompareAndSwap
  <2>3. Halted(View(p), reason).records = journal.records
    BY <1>2, <2>2, HaltedRewrites
  <2>4. QED BY <1>1, <2>1, <2>3, CanaryPhaseDurable
<1>5. QED BY <1>3, <1>4

\* The next slot is planned when all before it are accepted; as not all slots of
\* the window are, there is one.
LEMMA PlanCanaryDurable ==
    ASSUME Inv, Durable, NEW p \in Procs, PlanCanary(p)
    PROVE  Durable'
<1> DEFINE new == [journal EXCEPT !.records = Append(@, NewRecord)]
           l == Len(journal.records)
<1>1. /\ kind = "canary" /\ journal = View(p) /\ ~AllCaptured(journal)
      /\ ~LastIs(journal, "capture_invoked") /\ ~LastIs(journal, "planned")
      /\ journal' = new /\ proc' = [proc EXCEPT ![p].pc = "planned", ![p].view = new]
      /\ UNCHANGED <<kind, target, now, batch, rf, calls>>
  BY DEF PlanCanary, Continue, CompareAndSwap, Loaded
<1>2. /\ journal \in JournalType /\ calls \in [AllSlots -> Nat]
      /\ Backed(journal, calls, batch) /\ Gapless(journal)
  BY <1>1, DurableFinds
<1>3. NewRecord \in Record /\ NewRecord.phase = "planned" /\ l \in Nat
  BY <1>2 DEF NewRecord, Record, RecordPhase, JournalType
<1>4. Accepted(journal) = 1 .. l
  <2>1. l # 0 => journal.records # <<>> /\ Last(journal.records) = journal.records[l] /\ l \in 1 .. l
    BY <1>2, <1>3, LastTyped
  <2>2. l # 0 => l \in Accepted(journal)
    BY <1>1, <1>2, <2>1 DEF LastIs, Gapless
  <2>3. \A s \in 1 .. l : s = l \/ s \in 1 .. l - 1
    BY <1>3
  <2>4. 1 .. l \subseteq Accepted(journal)
    BY <1>2, <1>3, <2>2, <2>3 DEF Gapless
  <2>5. QED BY <2>4 DEF Accepted
<1>5. l + 1 <= Slots
  <2>1. Cardinality(1 .. l) = l
    <3>1. Cardinality(1 .. l) = IF 1 > l THEN 0 ELSE l - 1 + 1
      BY <1>3, FS_Interval
    <3>2. QED BY <1>3, <3>1
  <2>2. l # Slots
    BY <1>1, <1>4, <2>1 DEF AllCaptured
  <2>3. QED BY <1>2, <1>3, <2>2 DEF Backed
<1>6. /\ new \in JournalType /\ Len(new.records) = l + 1
      /\ new.records[l + 1] = NewRecord
      /\ \A s \in 1 .. l : new.records[s] = journal.records[s]
  BY <1>2, <1>3, AppendRewrites
<1>7. Accepted(new) = Accepted(journal)
  BY <1>2, <1>3, AppendMoves
<1>8. Backed(new, calls, batch)
  BY <1>2, <1>3, <1>5, BackedAppends
<1> HIDE DEF new
<1>9. Gapless(new)
  <2>1. 1 .. Len(new.records) - 1 = 1 .. l
    BY <1>3, <1>6
  <2>2. \A s \in 1 .. Len(new.records) : s = l + 1 \/ s \in 1 .. l
    BY <1>3, <1>6
  <2>3. QED BY <1>3, <1>4, <1>6, <1>7, <2>1, <2>2 DEF Gapless
<1>10. Moved(p, "planned", new)
  <2> DEFINE moved == [proc[p] EXCEPT !.pc = "planned", !.view = new]
  <2>1. proc \in [Procs -> ProcType] /\ proc[p] \in ProcType
    BY DEF Inv, TypeInv
  <2>2. moved \in ProcType /\ moved.pc = "planned" /\ moved.view = new
    BY <1>6, <2>1 DEF ProcType, ProcPc
  <2>3. proc' = [proc EXCEPT ![p] = moved]
    BY <1>1, <2>1
  <2> HIDE DEF moved
  <2>4. QED BY <2>1, <2>2, <2>3 DEF Moved
<1>11. Backed(journal', calls', batch) /\ Gapless(journal')
  BY <1>1, <1>8, <1>9
<1>12. QED BY <1>1, <1>10, <1>11, CanaryMovesDurable DEF InPort

\* The invocation: its record is no longer planned when the slot is called.
LEMMA InvokeCanaryDurable ==
    ASSUME Inv, Durable, NEW p \in Procs, InvokeCanary(p)
    PROVE  Durable'
<1> DEFINE n == Len(journal.records)
           new == WithPhase(journal, n, "capture_invoked")
<1>1. kind = "canary" /\ journal = View(p) /\ LastIs(View(p), "planned")
  BY AtPlannedMeans DEF InvokeCanary, CompareAndSwap
<1>2. SlotOf(p) = n /\ LastIs(journal, "planned")
  BY <1>1 DEF SlotOf, View
<1>3. Call(p, new) /\ UNCHANGED <<kind, target, now, batch, rf>>
  BY <1>1, <1>2 DEF InvokeCanary
<1>4. /\ journal \in JournalType /\ calls \in [AllSlots -> Nat]
      /\ Backed(journal, calls, batch) /\ Gapless(journal)
  BY <1>1, DurableFinds
<1>5. n \in Nat \ {0} /\ journal.records[n].phase = "planned" /\ n \in AllSlots /\ n \in 1 .. n
  BY <1>2, <1>4, LastTyped DEF LastIs, Backed, AllSlots
<1>6. /\ new \in JournalType /\ Len(new.records) = n
      /\ \A t \in 1 .. n : new.records[t].phase =
           IF t = n THEN "capture_invoked" ELSE journal.records[t].phase
  BY <1>4, WithPhaseRewrites DEF RecordPhase
<1>7. \A t \in 1 .. n : new.records[t].captures = journal.records[t].captures
  BY <1>4, <1>5, WithPhaseKeeps DEF RecordPhase
<1>8. Planned(new) = Planned(journal) \ {n} /\ Accepted(new) = Accepted(journal) \ {n}
  BY <1>4, <1>5, WithPhaseMoves DEF RecordPhase
<1> HIDE DEF new
<1>9. /\ Moved(p, "invoked", new) /\ journal' = new /\ calls' \in [AllSlots -> Nat]
      /\ \A s \in AllSlots : calls'[s] = IF s = n THEN calls[s] + 1 ELSE calls[s]
  BY <1>3, <1>6, CallMoves DEF Inv
<1>10. Accepted(new) = Accepted(journal)
  BY <1>5, <1>8 DEF Accepted
<1>11. Backed(new, calls', batch)
  <2>1. Planned(journal) \subseteq 1 .. n /\ 1 .. n \subseteq AllSlots
    BY <1>5 DEF Planned, AllSlots
  <2>2. \A s \in Planned(new) : calls'[s] <= new.records[s].captures
    BY <1>4, <1>7, <1>8, <1>9, <2>1 DEF Backed
  <2>3. \A s \in AllSlots : s > n => calls'[s] = 0
    BY <1>4, <1>5, <1>9 DEF Backed, AllSlots
  <2>4. QED BY <1>4, <1>6, <1>10, <2>2, <2>3 DEF Backed
<1>12. Gapless(new)
  BY <1>4, <1>6, <1>10 DEF Gapless
<1>13. Backed(journal', calls', batch) /\ Gapless(journal') /\ Len(new.records) \in AllSlots
  BY <1>5, <1>6, <1>9, <1>11, <1>12
<1>14. QED BY <1>1, <1>3, <1>9, <1>13, CanaryMovesDurable

\* The snapshot of the port is accepted only when its batch is eligible.
LEMMA CanarySettledDurable ==
    ASSUME Inv, Durable, NEW p \in Procs, CanarySettled(p)
    PROVE  Durable'
<1> DEFINE l == Len(journal.records)
           captured == WithPhase(journal, l, "captured")
<1>1. kind = "canary" /\ proc[p].pc = "returned" /\ journal = View(p)
  BY DEF CanarySettled, Finish, CompareAndSwap
<1>2. SlotOf(p) = l
  BY <1>1 DEF SlotOf, View
<1>3. /\ journal \in JournalType /\ Backed(journal, calls, batch) /\ Gapless(journal)
  BY <1>1, DurableFinds
<1>4. CASE Finish(p, captured) /\ batch[l] = "eligible"
  <2>1. journal' = captured /\ Return(p) /\ UNCHANGED <<kind, target, now, batch, rf, calls>>
    BY <1>4 DEF Finish, CompareAndSwap
  <2>2. l \in 1 .. l
    BY <1>1, <1>2 DEF Durable, BatchInv, AllSlots, InPort
  <2>3. Backed(captured, calls, batch)
    BY <1>3, <1>4, <2>2, BackedSettles DEF RecordPhase
  <2>4. Gapless(captured)
    BY <1>3, <2>2, GaplessSettles
  <2>5. Backed(journal', calls, batch) /\ Gapless(journal')
    BY <2>1, <2>3, <2>4
  <2>6. QED BY <1>1, <2>1, <2>5, FinishDurable
<1>5. CASE Finish(p, Halted(journal, "integrity_failure"))
  <2>1. Halted(journal, "integrity_failure").records = journal.records
    BY <1>3, HaltedRewrites DEF HaltReason
  <2>2. QED BY <1>1, <1>5, <2>1, CanaryPhaseDurable
<1>6. QED BY <1>1, <1>2, <1>4, <1>5 DEF CanarySettled

\* A receipt is for a slot that was accepted.
LEMMA ReconcileDurable ==
    ASSUME Inv, Durable, NEW p \in Procs, Reconcile(p)
    PROVE  Durable'
<1> DEFINE s == FirstUnanalyzed(journal)
           new == WithPhase(journal, s, "complete")
<1>1. kind = "canary" /\ journal = View(p)
  BY DEF Reconcile, Finish, CompareAndSwap, Loaded
<1>2. /\ journal \in JournalType /\ Backed(journal, calls, batch) /\ Gapless(journal)
  BY <1>1, DurableFinds
<1>3. CASE Finish(p, [journal EXCEPT !.phase = "complete"])
  <2>1. [journal EXCEPT !.phase = "complete"].records = journal.records
    BY <1>2, PhaseRewrites DEF Phase
  <2>2. QED BY <1>1, <1>3, <2>1, CanaryPhaseDurable
<1>4. CASE Unanalyzed(journal) # {} /\ Finish(p, new)
  <2>1. journal' = new /\ Return(p) /\ UNCHANGED <<kind, target, now, batch, rf, calls>>
    BY <1>4 DEF Finish, CompareAndSwap
  <2>2. s \in Unanalyzed(journal)
    BY <1>2, <1>4, FirstIsCaptured
  <2> HIDE DEF s
  <2>3. s \in 1 .. Len(journal.records) /\ s \in Accepted(journal)
    BY <2>2 DEF Unanalyzed, Accepted
  <2>4. batch[s] = "eligible"
    BY <1>2, <2>3 DEF Backed
  <2>5. Backed(new, calls, batch)
    BY <1>2, <2>3, <2>4, BackedSettles DEF RecordPhase
  <2>6. Gapless(new)
    BY <1>2, <2>3, GaplessSettles
  <2>7. Backed(journal', calls, batch) /\ Gapless(journal')
    BY <2>1, <2>5, <2>6
  <2>8. QED BY <1>1, <2>1, <2>7, FinishDurable
<1>5. QED BY <1>1, <1>3, <1>4 DEF Reconcile

\* Every step of the canary.
LEMMA CanaryDurable ==
    ASSUME Inv, Durable, NEW p \in Procs, CanaryStep(p)
    PROVE  Durable'
BY LoadDurable, HaltDurable, PlanCanaryDurable, InvokeCanaryDurable, CanarySettledDurable,
   ReconcileDurable DEF CanaryStep

-----------------------------------------------------------------------------
(* The durable state, and what it promises.                                *)

\* A process dies anywhere: what it had written is what the next one finds.
LEMMA DeathDurable ==
    ASSUME Inv, Durable, NEW p \in Procs, AnyProcessDies(p)
    PROVE  Durable'
<1>1. /\ proc[p].pc # "idle" /\ Return(p)
      /\ UNCHANGED <<kind, target, now, journal, batch, rf, calls>>
  BY DEF AnyProcessDies, ProcessDies
<1>2. /\ journal \in JournalType /\ kind \in {"deferred", "one_shot", "canary"}
      /\ Backed(journal, calls, batch)
  BY DurableFinds DEF Inv, TypeInv
<1>3. CASE proc[p].pc \in {"draining", "reconciling"}
  <2>1. DrainExits(p, journal)
    BY <1>1, <1>3 DEF AnyProcessDies, DrainExits
  <2>2. Canonical(journal, target)
    BY <1>3, DrainerIsAlone, DurableFinds
  <2>3. QED BY <1>2, <1>3, <2>1, <2>2, ExitDurable
<1>4. CASE proc[p].pc \notin {"draining", "reconciling"}
  <2>1. UNCHANGED drainVars
    BY <1>4 DEF AnyProcessDies
  <2>2. CASE kind = "deferred"
    <3>1. Canonical(journal, target)
      BY <2>2, DurableFinds
    <3>2. journal' \in JournalType /\ Backed(journal', calls, batch) /\ Canonical(journal', target)
      BY <1>1, <1>2, <3>1
    <3>3. QED BY <1>1, <1>4, <2>1, <2>2, <3>2, AnswerDurable
  <2>3. CASE kind = "one_shot"
    BY <1>1, <2>3, UnitReturnDurable
  <2>4. CASE kind = "canary"
    <3>1. Gapless(journal)
      BY <2>4, DurableFinds
    <3>2. Backed(journal', calls, batch) /\ Gapless(journal')
      BY <1>1, <1>2, <3>1
    <3>3. QED BY <1>1, <2>4, <3>2, FinishDurable
  <2>5. QED BY <1>2, <2>2, <2>3, <2>4
<1>5. QED BY <1>3, <1>4

\* Every step of the staged drain, and the deaths.
LEMMA StagedDurable ==
    ASSUME Inv, Durable, NEW p \in Procs, StagedStep(p)
    PROVE  Durable'
BY DrainBeginsDurable, DrainReturnsDurable, WindowBeginsDurable, ReconcileOneDurable,
   ReceiptEndsDurable, DeathDurable DEF StagedStep

\* An empty journal promises nothing.
LEMMA InitIsDurable ==
    ASSUME CampaignInit
    PROVE  Durable
<1>1. /\ target \in Nat /\ journal = EmptyJournal /\ batch = [s \in AllSlots |-> "none"]
      /\ proc = [p \in Procs |-> IdleProc] /\ calls = [s \in AllSlots |-> 0]
  BY DEF CampaignInit, Init
<1>2. IdleProc.pc = "idle"
  BY DEF IdleProc
<1>3. /\ journal.records = <<>> /\ journal.phase = "capturing" /\ journal.halt = "none"
      /\ Len(journal.records) = 0
  BY <1>1 DEF EmptyJournal
<1>4. /\ Planned(journal) = {} /\ Accepted(journal) = {} /\ Waiting(journal) = {}
      /\ 1 .. Len(journal.records) = {} /\ 1 .. Len(journal.records) - 1 = {}
  BY <1>3 DEF Planned, Accepted, Waiting
<1>5. Backed(journal, calls, batch)
  BY <1>1, <1>3, <1>4 DEF Backed, AllSlots
<1>6. BatchInv
  BY <1>1, <1>2 DEF BatchInv, InPort
<1>7. HeldInv
  BY <1>1, <1>2 DEF HeldInv, InPort
<1>8. drain["staged"].stage = 0
  BY DEF CampaignInit, DrainInit, AtNone, Drains
<1>9. Cardinality(Accepted(journal)) = 0
  BY <1>4, FS_EmptySet, Zenon
<1>10. Canonical(journal, target)
  BY <1>1, <1>3, <1>4, <1>9 DEF Canonical
<1>11. DeferredInv
  BY <1>1, <1>2, <1>8, <1>10 DEF DeferredInv
<1>12. UnitInv
  BY <1>1, <1>2, <1>3, <1>4 DEF UnitInv, Units
<1>13. CanarySlots
  BY <1>4 DEF CanarySlots, Gapless
<1>14. QED BY <1>5, <1>6, <1>7, <1>11, <1>12, <1>13 DEF Durable

\* Every step keeps the durable state.
LEMMA NextDurable ==
    ASSUME Inv, Durable, [Next]_allVars
    PROVE  Durable'
<1>1. CASE Next
  BY <1>1, TickDurable, PortDurable, DeferredDurable, OneShotDurable, CanaryDurable,
     StagedDurable, LaneDurable DEF Next, ProcStep
<1>2. CASE UNCHANGED allVars
  BY <1>2, TickDurable DEF allVars
<1>3. QED BY <1>1, <1>2

\* The journal, the batch rows and the processes agree, under every coordinator.
THEOREM DurableInvariant == Spec => []Durable
<1>1. CampaignInit => Durable
  BY InitIsDurable
<1>2. Inv /\ Durable /\ [Next]_allVars => Durable'
  BY NextDurable
<1>3. QED BY <1>1, <1>2, CampaignInvariant, PTL DEF Spec

\* An accepted record has an eligible batch that was captured, and the calls of a
\* slot are within what its record counts and within the maximum: the coordinator
\* counts before it calls and accepts after it has read the row.
THEOREM CampaignJournalIsBacked == Spec => []JournalIsBacked
<1>1. Inv /\ Durable => JournalIsBacked
  <2> SUFFICES ASSUME Inv, Durable, NEW s \in 1 .. Len(journal.records)
               PROVE  /\ s \in Accepted(journal) => batch[s] = "eligible" /\ rf[s] = 1
                      /\ journal.records[s].phase = "planned" => calls[s] <= journal.records[s].captures
                      /\ kind # "canary" => calls[s] <= MaximumCaptureInvocations
    BY DEF JournalIsBacked
  <2>1. Backed(journal, calls, batch) /\ BatchInv /\ HeldInv /\ journal \in JournalType
    BY DEF Durable, Inv, TypeInv
  <2>2. s \in AllSlots
    BY <2>1 DEF Backed, JournalType, AllSlots
  <2>3. s \in Accepted(journal) => batch[s] = "eligible" /\ rf[s] = 1
    BY <2>1, <2>2 DEF Backed, BatchInv
  <2>4. journal.records[s].phase = "planned" => s \in Planned(journal)
    BY DEF Planned
  <2>5. QED BY <2>1, <2>2, <2>3, <2>4 DEF Backed, HeldInv
<1>2. QED BY <1>1, CampaignInvariant, DurableInvariant, PTL

\* The slots from a to b, and no more of them than that.
LEMMA SlotsBetween ==
    ASSUME NEW a \in Int, NEW b \in Int, a <= b + 1, NEW S \in SUBSET (a .. b)
    PROVE  Cardinality(S) \in Nat /\ Cardinality(S) <= b - a + 1
<1>1. IsFiniteSet(a .. b) /\ Cardinality(a .. b) = IF a > b THEN 0 ELSE b - a + 1
  BY FS_Interval
<1>2. Cardinality(a .. b) = b - a + 1
  BY <1>1
<1>3. IsFiniteSet(S) /\ Cardinality(S) <= Cardinality(a .. b) /\ Cardinality(S) \in Nat
  BY <1>1, FS_Subset, FS_CardinalityType
<1>4. QED BY <1>2, <1>3

\* No command leads to a deferred journal that its state's constructor refuses:
\* the last record alone is open, the phases and the halts agree, and the target
\* is not exceeded.  No run of a one-shot campaign, whose state checks nothing,
\* plans a unit over an open one or gives a cell more than its attempts.
THEOREM CampaignJournalIsCanonical == Spec => []JournalIsCanonical
<1>1. Inv /\ Durable => StateIsCanonical
  <2> SUFFICES ASSUME Inv, Durable, kind = "deferred"
               PROVE  StateIsCanonical
    BY DEF StateIsCanonical
  <2>1. journal \in JournalType /\ target \in Nat /\ Canonical(journal, target)
    BY DurableFinds
  <2>2. (journal.phase = "halted") = (journal.halt # "none")
    <3>1. journal.phase = "halted" <=> journal.halt # "none"
      BY <2>1 DEF Canonical
    <3>2. QED BY <3>1
  <2>3. \A s \in 1 .. Len(journal.records) - 1 : journal.records[s].phase # "planned"
    BY <2>1 DEF Canonical, Accepted
  <2>4. journal.phase \in {"analyzing", "complete"} =>
           \A s \in 1 .. Len(journal.records) : journal.records[s].phase # "planned"
    BY <2>1 DEF Canonical, Planned
  <2>5. journal.phase = "complete" => Accepted(journal) = Analyzed(journal)
    <3>1. journal.phase = "complete" => Waiting(journal) = {}
      BY <2>1 DEF Canonical
    <3>2. Accepted(journal) = Waiting(journal) \cup Analyzed(journal)
      BY DEF Accepted, Waiting, Analyzed
    <3>3. QED BY <3>1, <3>2
  <2>6. journal.phase = "capturing" =>
           ~LastIs(journal, "abandoned") /\ ~LastIs(journal, "terminal_failed")
    <3> SUFFICES ASSUME journal.phase = "capturing", journal.records # <<>>
                 PROVE  Last(journal.records).phase \notin {"abandoned", "terminal_failed"}
      BY DEF LastIs
    <3>1. /\ Last(journal.records) = journal.records[Len(journal.records)]
          /\ Len(journal.records) \in 1 .. Len(journal.records)
      BY <2>1, LastTyped
    <3>2. QED BY <2>1, <3>1 DEF Canonical, Planned, Accepted
  <2>7. Cardinality(Accepted(journal)) <= target
    BY <2>1 DEF Canonical
  <2>8. QED BY <2>2, <2>3, <2>4, <2>5, <2>6, <2>7 DEF StateIsCanonical
<1>2. Inv /\ Durable => OneUnitAtATime
  <2> SUFFICES ASSUME Inv, Durable, kind = "one_shot"
               PROVE  /\ Cardinality(Current(journal)) <= MaximumFreshAttempts
                      /\ \A s \in 1 .. Len(journal.records) - 1 :
                           journal.records[s].phase \in {"complete", "terminal_failed"}
    BY DEF OneUnitAtATime, Current
  <2> DEFINE l == Len(journal.records)
             retry == Last(journal.records).retry
  <2>1. journal \in JournalType /\ Units(journal) /\ l \in Nat
    BY DurableFinds DEF JournalType
  <2>2. CASE journal.records = <<>>
    <3>1. Current(journal) \subseteq 1 .. 0
      BY <2>2 DEF Current
    <3>2. Cardinality(Current(journal)) \in Nat /\ Cardinality(Current(journal)) <= 0
      BY <3>1, SlotsBetween
    <3>3. Cardinality(Current(journal)) <= MaximumFreshAttempts
      BY <3>2
    <3>4. QED BY <2>1, <3>3 DEF Units
  <2>3. CASE journal.records # <<>>
    <3>1. retry \in Nat /\ retry < MaximumFreshAttempts
      BY <2>1, <2>3, LastTyped DEF Units, Record
    <3>2. \A s \in Current(journal) : s \in 1 .. l /\ s >= l - retry
      BY <2>1, <2>3 DEF Units, Current
    <3> HIDE DEF retry
    <3>3. Current(journal) \subseteq (l - retry) .. l
      BY <2>1, <3>1, <3>2
    <3>4. Cardinality(Current(journal)) \in Nat /\ Cardinality(Current(journal)) <= l - (l - retry) + 1
      <4>1. l \in Int /\ l - retry \in Int /\ l - retry <= l + 1
        BY <2>1, <3>1
      <4>2. QED BY <3>3, <4>1, SlotsBetween
    <3>5. Cardinality(Current(journal)) <= MaximumFreshAttempts
      BY <2>1, <3>1, <3>4
    <3>6. QED BY <2>1, <3>5 DEF Units
  <2>4. QED BY <2>2, <2>3
<1>3. Inv /\ Durable => JournalIsCanonical
  BY <1>1, <1>2 DEF JournalIsCanonical
<1>4. QED BY <1>3, CampaignInvariant, DurableInvariant, PTL
=============================================================================
