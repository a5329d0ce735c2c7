--------------------------- MODULE Consumer_proofs ---------------------------
(* Theorems about Consumer, for every number of replicas, partitions,        *)
(* goroutines, channel slots and records.                                    *)
EXTENDS Consumer, TLAPS

USE DEF polled

(* Each partition is a number and is served by one of the goroutines.        *)
LEMMA ConstantFacts ==
  /\ \A p \in Partitions : WorkerOf(p) \in WorkerIds
  /\ \A p \in Partitions : p \in Nat
BY ConsumerAssumption DEF Partitions, WorkerIds, WorkerOf

(* Which goroutine states there are, and what a record in hand is.           *)
LEMMA StateFacts ==
  /\ Idle \in WorkerStates /\ Failed \in WorkerStates /\ Exited \in WorkerStates
  /\ \A step \in InFlight, r \in Records : Busy(step, r) \in WorkerStates
  /\ \A s \in WorkerStates : s.at \in InFlight => s.rec \in Records
  /\ \A r \in Records : Part(r) \in Partitions /\ Offset(r) \in Nat
BY DEF Idle, Failed, Exited, Busy, WorkerStates, InFlight, Records, Part, Offset, Partitions

(* The fields of the states a goroutine can be in. *)
LEMMA StateFields ==
  /\ Idle.at = "idle" /\ Idle.rec = None
  /\ Failed.at = "failed" /\ Failed.rec = None
  /\ Exited.at = "exited" /\ Exited.rec = None
  /\ \A step, r : Busy(step, r).at = step /\ Busy(step, r).rec = r
BY DEF Idle, Failed, Exited, Busy

(* What a goroutine's action does to the worker table. *)
LEMMA BecomesType ==
  ASSUME TypeOK, NEW m \in Members, NEW w \in WorkerIds,
         NEW s \in WorkerStates, Becomes(m, w, s)
  PROVE  worker' \in [Members -> [WorkerIds -> WorkerStates]]
BY DEF TypeOK, Becomes

(* Settling the record in hand keeps the type of settled.                    *)
LEMMA SettleType ==
  ASSUME TypeOK, NEW m \in Members, NEW w \in WorkerIds,
         worker[m][w].at \in InFlight, SettleCurrent(m, w)
  PROVE  settled' \in [Partitions -> SUBSET Nat]
<1>1. Part(Current(m, w)) \in Partitions /\ Offset(Current(m, w)) \in Nat
  BY StateFacts DEF TypeOK, Current
<1> QED BY <1>1 DEF TypeOK, SettleCurrent

(* Committing the record in hand keeps the type of committed.                *)
LEMMA CommitType ==
  ASSUME TypeOK, NEW m \in Members, NEW w \in WorkerIds,
         worker[m][w].at \in InFlight, CommitCurrent(m, w)
  PROVE  committed' \in [Partitions -> Nat]
<1>1. Part(Current(m, w)) \in Partitions /\ Offset(Current(m, w)) \in Nat
  BY StateFacts DEF TypeOK, Current
<1> QED BY <1>1 DEF TypeOK, CommitCurrent

(* A goroutine that gives up keeps the types of the workers and of errs.     *)
LEMMA FailType ==
  ASSUME TypeOK, NEW m \in Members, NEW w \in WorkerIds, Fail(m, w)
  PROVE  /\ worker' \in [Members -> [WorkerIds -> WorkerStates]]
         /\ errs' \in [Members -> Nat]
<1>1. worker' \in [Members -> [WorkerIds -> WorkerStates]]
  BY StateFacts, BecomesType DEF Fail
<1>2. (IF errs[m] < ErrCap THEN errs[m] + 1 ELSE errs[m]) \in Nat
  BY DEF TypeOK
<1>3. errs' \in [Members -> Nat] BY <1>2 DEF Fail, TypeOK
<1> QED BY <1>1, <1>3

(* Turning to a partition, or to none, keeps the type of turn.               *)
LEMMA TurnType ==
  ASSUME TypeOK, NEW m \in Members, NEW p \in Partitions \cup {None}, TurnTo(m, p)
  PROVE  turn' \in [Members -> Partitions \cup {None}]
BY DEF TypeOK, TurnTo

(* A replica that ends keeps every type.                                     *)
LEMMA VanishType ==
  ASSUME TypeOK, NEW m \in Members, Vanish(m)
  PROVE  TypeOK'
<1>1. NoPending \in [Partitions -> SUBSET Nat] BY DEF NoPending
<1>2. NoJobs \in [WorkerIds -> Seq(Records)] BY DEF NoJobs
<1>3. AllIdle \in [WorkerIds -> WorkerStates] BY StateFacts DEF AllIdle
<1>4. owner' \in [Partitions -> Members \cup {None}] BY DEF TypeOK, Vanish
<1> QED BY <1>1, <1>2, <1>3, <1>4 DEF TypeOK, Vanish, broker

-----------------------------------------------------------------------------
(* The initial state is well typed.                                          *)
LEMMA InitType == Init => TypeOK
<1> SUFFICES ASSUME Init PROVE TypeOK OBVIOUS
<1>1. NoPending \in [Partitions -> SUBSET Nat] BY DEF NoPending
<1>2. NoJobs \in [WorkerIds -> Seq(Records)] BY DEF NoJobs
<1>3. AllIdle \in [WorkerIds -> WorkerStates] BY StateFacts DEF AllIdle
<1> QED BY <1>1, <1>2, <1>3 DEF Init, TypeOK

(* Every step keeps every type.                                              *)
LEMMA NextType == TypeOK /\ [Next]_vars => TypeOK'
<1> SUFFICES ASSUME TypeOK, [Next]_vars PROVE TypeOK' OBVIOUS
<1> USE DEF TypeOK
<1>1. CASE UNCHANGED vars BY <1>1 DEF vars, broker, group
<1>2. ASSUME NEW p \in Partitions, Produce(p) PROVE TypeOK'
  BY <1>2 DEF Produce, group
<1>3. ASSUME NEW p \in Partitions, NEW m \in Members, Assign(p, m) PROVE TypeOK'
  BY <1>3 DEF Assign, broker
<1>4. ASSUME NEW m \in Members, Start(m) \/ Cancel(m) PROVE TypeOK'
  BY <1>4 DEF Start, Cancel, broker, group, InLoop
<1>5. ASSUME NEW m \in Members, Crash(m) \/ Close(m) PROVE TypeOK'
  BY <1>5, VanishType DEF Crash, Close
<1>6. ASSUME NEW m \in Members, RunStep(m) PROVE TypeOK'
  <2>1. CASE EnterPoll(m) \/ PollErrors(m)
    BY <2>1 DEF EnterPoll, PollErrors, broker, group, InLoop
  <2>2. CASE PollRecords(m)
    <3>1. PICK upto \in [Partitions -> 0..MaxOffset] :
            /\ position' = upto
            /\ pending' = [pending EXCEPT ![m] =
                             [p \in Partitions |-> position[p]..(upto[p] - 1)]]
      BY <2>2 DEF PollRecords
    <3>2. \A p \in Partitions : position[p]..(upto[p] - 1) \subseteq Nat
      BY ConsumerAssumption
    <3>3. position' \in [Partitions -> Nat] BY <3>1, ConsumerAssumption
    <3>4. pending' \in [Members -> [Partitions -> SUBSET Nat]] BY <3>1, <3>2
    <3>5. turn' \in [Members -> Partitions \cup {None}]
      BY <2>2, TurnType DEF PollRecords
    <3> QED BY <2>2, <3>3, <3>4, <3>5 DEF PollRecords, broker, InLoop
  <2>3. ASSUME NEW p \in Partitions, Dispatch(m, p) PROVE TypeOK'
    <3>1. PICK o \in pending[m][p] :
            /\ jobs' = [jobs EXCEPT ![m][WorkerOf(p)] = Append(@, <<p, o>>)]
            /\ pending' = [pending EXCEPT ![m][p] = @ \ {o}]
      BY <2>3 DEF Dispatch
    <3>2. <<p, o>> \in Records BY DEF Records
    <3>3. Append(jobs[m][WorkerOf(p)], <<p, o>>) \in Seq(Records)
      BY <3>2, ConstantFacts
    <3>4. jobs' \in [Members -> [WorkerIds -> Seq(Records)]]
      BY <3>1, <3>3, ConstantFacts
    <3>5. pending' \in [Members -> [Partitions -> SUBSET Nat]] BY <3>1
    <3>6. run' \in [Members -> {"down"} \cup InLoop \cup Closed]
      BY <2>3 DEF Dispatch, InLoop
    <3>7. turn' \in [Members -> Partitions \cup {None}]
      BY <2>3, TurnType DEF Dispatch
    <3> QED BY <2>3, <3>4, <3>5, <3>6, <3>7 DEF Dispatch, broker, group
  <2>4. CASE ReturnCancelled(m) \/ ReturnError(m)
    <3>1. NoPending \in [Partitions -> SUBSET Nat] BY DEF NoPending
    <3>2. LeaveLoop(m) /\ UNCHANGED <<broker, group, jobs, worker>>
      BY <2>4 DEF ReturnCancelled, ReturnError
    <3>3. errs' \in [Members -> Nat]
      <4>1. CASE ReturnCancelled(m) BY <4>1 DEF ReturnCancelled
      <4>2. CASE ReturnError(m) BY <4>2 DEF ReturnError
      <4> QED BY <2>4, <4>1, <4>2
    <3> QED BY <3>1, <3>2, <3>3 DEF LeaveLoop, broker, group, Closed
  <2>5. CASE Join(m) BY <2>5 DEF Join, broker, group, Closed
  <2> QED BY <1>6, <2>1, <2>2, <2>3, <2>4, <2>5 DEF RunStep
<1>7. ASSUME NEW m \in Members, NEW w \in WorkerIds, WorkerStep(m, w) PROVE TypeOK'
  <2> USE DEF broker, group
  <2>1. worker[m][w].at \in InFlight => \A step \in InFlight :
          Busy(step, Current(m, w)) \in WorkerStates
    BY StateFacts DEF Current
  <2>2. CASE Take(m, w)
    <3>1. Head(jobs[m][w]) \in Records /\ Tail(jobs[m][w]) \in Seq(Records)
      BY <2>2 DEF Take
    <3>2. "handle" \in InFlight BY DEF InFlight
    <3>3. worker' \in [Members -> [WorkerIds -> WorkerStates]]
      BY <2>2, <3>1, <3>2, StateFacts, BecomesType DEF Take
    <3>4. jobs' \in [Members -> [WorkerIds -> Seq(Records)]] BY <2>2, <3>1 DEF Take
    <3> QED BY <2>2, <3>3, <3>4 DEF Take
  <2>3. CASE WorkerExits(m, w) BY <2>3, StateFacts, BecomesType DEF WorkerExits
  <2>4. CASE HandlerReturns(m, w)
    <3>1. worker[m][w].at \in InFlight
      BY <2>4 DEF HandlerReturns, HandlerSucceeds, HandlerRejects, HandlerErrs, At, InFlight
    <3>2. CASE HandlerSucceeds(m, w)
      BY <2>1, <3>1, <3>2, BecomesType, SettleType DEF HandlerSucceeds, InFlight
    <3>3. CASE HandlerRejects(m, w)
      BY <2>1, <3>1, <3>3, BecomesType DEF HandlerRejects, InFlight
    <3>4. CASE HandlerErrs(m, w)
      <4>1. worker' \in [Members -> [WorkerIds -> WorkerStates]]
        BY <2>1, <3>1, <3>4, StateFacts, BecomesType DEF HandlerErrs, InFlight
      <4>2. settled' \in [Partitions -> SUBSET Nat]
        BY <3>1, <3>4, SettleType DEF HandlerErrs
      <4> QED BY <3>4, <4>1, <4>2 DEF HandlerErrs
    <3> QED BY <2>4, <3>2, <3>3, <3>4 DEF HandlerReturns
  <2>5. CASE BackoffEnds(m, w)
    <3>1. worker' \in [Members -> [WorkerIds -> WorkerStates]]
      BY <2>1, <2>5, StateFacts, BecomesType DEF BackoffEnds, InFlight, At
    <3> QED BY <2>5, <3>1 DEF BackoffEnds
  <2>6. CASE DeadLetterSent(m, w)
    <3>1. worker[m][w].at \in InFlight BY <2>6 DEF DeadLetterSent, At, InFlight
    <3> QED BY <2>1, <2>6, <3>1, BecomesType, SettleType DEF DeadLetterSent, InFlight
  <2>7. CASE DeadLetterFails(m, w)
    <3>1. worker[m][w].at \in InFlight BY <2>7 DEF DeadLetterFails, At, InFlight
    <3>2. /\ worker' \in [Members -> [WorkerIds -> WorkerStates]]
          /\ errs' \in [Members -> Nat]
      BY <2>7, FailType DEF DeadLetterFails
    <3>3. settled' \in [Partitions -> SUBSET Nat]
      BY <2>7, <3>1, SettleType DEF DeadLetterFails
    <3> QED BY <2>7, <3>2, <3>3 DEF DeadLetterFails
  <2>8. CASE CommitSucceeds(m, w)
    <3>1. worker[m][w].at \in InFlight BY <2>8 DEF CommitSucceeds, At, InFlight
    <3> QED BY <2>8, <3>1, StateFacts, BecomesType, CommitType DEF CommitSucceeds
  <2>9. CASE CommitFails(m, w)
    <3>1. worker[m][w].at \in InFlight BY <2>9 DEF CommitFails, At, InFlight
    <3>2. /\ worker' \in [Members -> [WorkerIds -> WorkerStates]]
          /\ errs' \in [Members -> Nat]
      BY <2>9, FailType, StateFacts, BecomesType DEF CommitFails
    <3>3. committed' \in [Partitions -> Nat] BY <2>9, <3>1, CommitType DEF CommitFails
    <3> QED BY <2>9, <3>2, <3>3 DEF CommitFails
  <2> QED BY <1>7, <2>2, <2>3, <2>4, <2>5, <2>6, <2>7, <2>8, <2>9 DEF WorkerStep
<1> QED BY <1>1, <1>2, <1>3, <1>4, <1>5, <1>6, <1>7 DEF Next

(* Each variable of the consumer keeps its type. *)
THEOREM TypeCorrect == Spec => []TypeOK
BY InitType, NextType, PTL DEF Spec

-----------------------------------------------------------------------------
(* The inductive invariant.                                                  *)

IInv == TypeOK /\ InOrder /\ PipelineInv

(* The records a goroutine still has ahead of it, seen across a step of      *)
(* goroutine w of m that settles no less than before and, if it lets go of   *)
(* its record while it stays alive, leaves that record settled.              *)
LEMMA FollowsStable ==
  ASSUME TypeOK, NEW m \in Members, NEW w \in WorkerIds, NEW s \in WorkerStates,
         Becomes(m, w, s), UNCHANGED <<run, cancelled, jobs>>,
         worker[m][w] # Failed,
         \A p \in Partitions : settled[p] \subseteq settled'[p],
         \/ Live(m, w)' => s.rec = Current(m, w)
         \/ \A r \in Records : r = Current(m, w) => Offset(r) \in settled'[Part(r)],
         NEW m2 \in Members, NEW w2 \in WorkerIds, Live(m2, w2)'
  PROVE  /\ Live(m2, w2)
         /\ \A r \in Records, n \in Nat :
              Follows(m2, w2, r, n) => Follows(m2, w2, r, n)'
<1>1. Live(m2, w2) BY DEF Live, InGroup, Becomes, TypeOK
<1>2. ASSUME NEW r \in Records, NEW n \in Nat, Follows(m2, w2, r, n)
      PROVE  Follows(m2, w2, r, n)'
  <2>1. Part(r) \in Partitions BY StateFacts
  <2>2. CASE Current(m2, w2) = <<Part(r), Offset(r) - 1>> /\ Offset(r) # 0
    <3>1. <<Part(r), Offset(r) - 1>> \in Records BY <2>2, StateFacts DEF Records
    <3>2. CASE Current(m2, w2)' = Current(m2, w2) BY <2>2, <3>2 DEF Follows
    <3>3. CASE Current(m2, w2)' # Current(m2, w2)
      <4>1. m2 = m /\ w2 = w BY <3>3 DEF Becomes, Current, TypeOK
      <4>2. s.rec # Current(m, w) BY <3>3, <4>1 DEF Becomes, Current, TypeOK
      <4>3. Offset(r) - 1 \in settled'[Part(r)]
        BY <2>2, <3>1, <4>1, <4>2 DEF Part, Offset
      <4> QED BY <4>3 DEF Follows
    <3> QED BY <3>2, <3>3
  <2>3. CASE ~(Current(m2, w2) = <<Part(r), Offset(r) - 1>> /\ Offset(r) # 0)
    BY <1>2, <2>1, <2>3 DEF Follows
  <2> QED BY <2>2, <2>3
<1> QED BY <1>1, <1>2

(* Such a step keeps what the parts of PipelineInv say of queued and polled  *)
(* records.                                                                  *)
LEMMA GoroutineStep ==
  ASSUME IInv, NEW m \in Members, NEW w \in WorkerIds, NEW s \in WorkerStates,
         Becomes(m, w, s), UNCHANGED <<group, run, cancelled, pending, jobs>>,
         worker[m][w] # Failed, InGroup(m),
         \A p \in Partitions : settled[p] \subseteq settled'[p],
         \/ Live(m, w)' => s.rec = Current(m, w)
         \/ \A r \in Records : r = Current(m, w) => Offset(r) \in settled'[Part(r)]
  PROVE  ChannelFollows' /\ PendingFollows' /\ PositionFollows' /\ Quiescent'
<1> USE DEF IInv
<1>1. ASSUME NEW m2 \in Members, NEW w2 \in WorkerIds, Live(m2, w2)'
      PROVE  /\ Live(m2, w2)
             /\ \A r \in Records, n \in Nat :
                  Follows(m2, w2, r, n) => Follows(m2, w2, r, n)'
  BY <1>1, FollowsStable
<1>2. ChannelFollows'
  <2> SUFFICES ASSUME NEW m2 \in Members, NEW w2 \in WorkerIds, Live(m2, w2)',
                      NEW i \in 1..Len(jobs[m2][w2])
               PROVE  Follows(m2, w2, jobs[m2][w2][i], i - 1)'
    BY DEF ChannelFollows
  <2>1. PICK r \in Records : r = jobs[m2][w2][i] BY DEF TypeOK
  <2>2. Follows(m2, w2, r, i - 1)
    BY <1>1, <2>1 DEF PipelineInv, ChannelFollows
  <2>3. Follows(m2, w2, r, i - 1)' BY <1>1, <2>2
  <2> QED BY <2>1, <2>3 DEF Follows
<1>3. ASSUME NEW m2 \in Members, NEW p \in Partitions, NEW o \in Nat, NextFollows(m2, p, o)
      PROVE  NextFollows(m2, p, o)'
  <2>1. WorkerOf(p) \in WorkerIds BY ConstantFacts
  <2>2. <<p, o>> \in Records BY DEF Records
  <2>3. Len(jobs[m2][WorkerOf(p)]) \in Nat BY <2>1 DEF TypeOK
  <2> QED BY <1>1, <1>3, <2>1, <2>2, <2>3 DEF NextFollows
<1>4. PendingFollows'
  BY <1>3 DEF PipelineInv, PendingFollows, TypeOK
<1>5. PositionFollows'
  BY <1>3 DEF PipelineInv, PositionFollows, TypeOK, group
<1>6. Quiescent'
  BY DEF PipelineInv, Quiescent, TypeOK, group, Becomes, InGroup
<1> QED BY <1>2, <1>4, <1>5, <1>6

(* A goroutine settles its record, or not, and holds on to it, or not. *)
LEMMA GoroutineSettles ==
  ASSUME IInv, NEW m \in Members, NEW w \in WorkerIds, NEW s \in WorkerStates,
         Becomes(m, w, s), UNCHANGED <<logEnd, position, pending, jobs>>,
         worker[m][w].at \in InFlight,
         SettleCurrent(m, w) \/ UNCHANGED settled,
         s.at \in InFlight => s.rec = Current(m, w),
         s.at = "commit" => Offset(Current(m, w)) \in settled'[Part(Current(m, w))]
  PROVE  /\ \A p \in Partitions : settled[p] \subseteq settled'[p]
         /\ InOrder' /\ CurrentFollows' /\ WithinLog'
         /\ UNCHANGED committed => CommittedFollows'
<1> USE DEF IInv
<1> DEFINE r == Current(m, w)
<1>1. r \in Records BY StateFacts DEF TypeOK, Current
<1>2. Part(r) \in Partitions /\ Offset(r) \in Nat BY <1>1, StateFacts
<1>3. Offset(r) = 0 \/ Offset(r) - 1 \in settled[Part(r)]
  BY DEF PipelineInv, CurrentFollows
<1>4. Offset(r) < logEnd[Part(r)] BY DEF PipelineInv, WithinLog
<1> HIDE DEF r
<1>5. \/ settled' = [settled EXCEPT ![Part(r)] = @ \cup {Offset(r)}]
      \/ settled' = settled
  BY DEF SettleCurrent, r
<1>6. \A p \in Partitions : settled[p] \subseteq settled'[p]
  BY <1>5 DEF TypeOK
<1>7. InOrder'
  <2> SUFFICES ASSUME NEW p \in Partitions, NEW o \in settled'[p],
                      NEW q \in 0..(o - 1)
               PROVE  q \in settled'[p]
    BY DEF InOrder, SettledBelow
  <2>1. CASE o \in settled[p] BY <1>6, <2>1 DEF InOrder, SettledBelow
  <2>2. CASE o \notin settled[p]
    <3>1. p = Part(r) /\ o = Offset(r) BY <1>5, <2>2 DEF TypeOK
    <3>2. o - 1 \in settled[p] BY <1>2, <1>3, <3>1
    <3>3. q \in settled[p]
      <4>1. q = o - 1 \/ q \in 0..(o - 1 - 1) BY <1>2, <3>1
      <4> QED BY <3>2, <4>1 DEF InOrder, SettledBelow
    <3> QED BY <1>6, <3>3
  <2> QED BY <2>1, <2>2
<1>8. CurrentFollows'
  <2> SUFFICES ASSUME NEW m2 \in Members, NEW w2 \in WorkerIds,
                      worker'[m2][w2].at \in InFlight
               PROVE  LET x == worker'[m2][w2].rec
                      IN  /\ Offset(x) = 0 \/ Offset(x) - 1 \in settled'[Part(x)]
                          /\ worker'[m2][w2].at = "commit" => Offset(x) \in settled'[Part(x)]
    BY DEF CurrentFollows, At, Current
  <2>1. CASE m2 = m /\ w2 = w
    <3>1. worker'[m2][w2] = s BY <2>1 DEF Becomes, TypeOK
    <3>2. s.rec = r BY <3>1 DEF r
    <3> QED BY <1>2, <1>3, <1>6, <3>1, <3>2 DEF r
  <2>2. CASE ~(m2 = m /\ w2 = w)
    <3>1. worker'[m2][w2] = worker[m2][w2] BY <2>2 DEF Becomes, TypeOK
    <3>2. Part(worker[m2][w2].rec) \in Partitions
      BY <3>1, StateFacts DEF TypeOK
    <3> QED BY <1>6, <3>1, <3>2 DEF PipelineInv, CurrentFollows, At, Current
  <2> QED BY <2>1, <2>2
<1>9. WithinLog'
  <2>1. ASSUME NEW p \in Partitions, NEW o \in settled'[p] PROVE o < logEnd'[p]
    <3>1. o \in settled[p] \/ (p = Part(r) /\ o = Offset(r))
      BY <1>5 DEF TypeOK
    <3>2. o \in settled[p] => o < logEnd[p] BY DEF PipelineInv, WithinLog
    <3> QED BY <1>4, <3>1, <3>2
  <2>2. ASSUME NEW m2 \in Members, NEW w2 \in WorkerIds, worker'[m2][w2].at \in InFlight
        PROVE  Offset(worker'[m2][w2].rec) < logEnd[Part(worker'[m2][w2].rec)]
    <3>1. CASE m2 = m /\ w2 = w
      <4>1. worker'[m2][w2] = s BY <3>1 DEF Becomes, TypeOK
      <4>2. s.rec = r BY <2>2, <4>1 DEF r
      <4> QED BY <1>4, <4>1, <4>2
    <3>2. CASE ~(m2 = m /\ w2 = w)
      BY <2>2, <3>2 DEF Becomes, TypeOK, PipelineInv, WithinLog, Current
    <3> QED BY <3>1, <3>2
  <2>3. \A p \in Partitions : position'[p] <= logEnd'[p]
    BY DEF PipelineInv, WithinLog
  <2>4. \A m2 \in Members, p \in Partitions : \A o \in pending'[m2][p] : o < logEnd'[p]
    BY DEF PipelineInv, WithinLog
  <2>5. \A m2 \in Members, w2 \in WorkerIds : \A i \in 1..Len(jobs'[m2][w2]) :
          Offset(jobs'[m2][w2][i]) < logEnd'[Part(jobs'[m2][w2][i])]
    BY DEF PipelineInv, WithinLog
  <2> QED BY <2>1, <2>2, <2>3, <2>4, <2>5 DEF WithinLog, Current
<1>10. ASSUME UNCHANGED committed PROVE CommittedFollows'
  BY <1>6, <1>10 DEF PipelineInv, CommittedFollows
<1> QED BY <1>6, <1>7, <1>8, <1>9, <1>10

(* Committing the record in hand: it has settled. *)
LEMMA CommitFollows ==
  ASSUME IInv, NEW m \in Members, NEW w \in WorkerIds, At(m, w, "commit"),
         CommitCurrent(m, w), UNCHANGED settled
  PROVE  CommittedFollows'
<1> DEFINE r == Current(m, w)
<1>1. worker[m][w].at \in InFlight BY DEF At, InFlight
<1>2. Part(r) \in Partitions /\ Offset(r) \in Nat
  BY <1>1, StateFacts DEF IInv, TypeOK, Current
<1>3. Offset(r) \in settled[Part(r)]
  BY <1>1 DEF IInv, PipelineInv, CurrentFollows
<1>4. committed' = [committed EXCEPT ![Part(r)] = Offset(r) + 1]
  BY DEF CommitCurrent
<1> HIDE DEF r
<1>5. ASSUME NEW p \in Partitions
      PROVE  committed'[p] = 0 \/ committed'[p] - 1 \in settled[p]
  <2>1. CASE p = Part(r) BY <1>2, <1>3, <1>4, <2>1 DEF IInv, TypeOK
  <2>2. CASE p # Part(r)
    BY <1>4, <2>2 DEF IInv, TypeOK, PipelineInv, CommittedFollows
  <2> QED BY <2>1, <2>2
<1> QED BY <1>5 DEF CommittedFollows

-----------------------------------------------------------------------------
(* Each action keeps the inductive invariant.                                *)

(* The initial state satisfies the inductive invariant.                      *)
LEMMA InitIInv == Init => IInv
<1> SUFFICES ASSUME Init PROVE IInv OBVIOUS
<1> USE DEF Init
<1>1. TypeOK BY InitType
<1>2. InOrder BY DEF InOrder
<1>3. ChannelFollows BY DEF ChannelFollows, NoJobs
<1>4. PendingFollows /\ PositionFollows
  BY DEF PendingFollows, PositionFollows, NoPending
<1>5. CurrentFollows BY DEF CurrentFollows, AllIdle, Idle, InFlight
<1>6. CommittedFollows BY DEF CommittedFollows
<1>7. WithinLog
  <2>1. \A m \in Members, w \in WorkerIds : worker[m][w].at \notin InFlight
    BY DEF AllIdle, Idle, InFlight
  <2> QED BY <2>1 DEF WithinLog, NoJobs, NoPending
<1>8. Quiescent BY DEF Quiescent, InGroup
<1> QED BY <1>1, <1>2, <1>3, <1>4, <1>5, <1>6, <1>7, <1>8 DEF IInv, PipelineInv

(* NextFollows and ChannelFollows depend on these variables only. *)
LEMMA FollowsUnchanged ==
  ASSUME UNCHANGED <<settled, run, cancelled, jobs, worker, pending>>
  PROVE  /\ \A m, p, o : NextFollows(m, p, o) <=> NextFollows(m, p, o)'
         /\ ChannelFollows => ChannelFollows'
         /\ PendingFollows => PendingFollows'
<1>1. \A m, w : Live(m, w) <=> Live(m, w)' BY DEF Live, InGroup
<1>2. \A m, w, r, n : Follows(m, w, r, n) <=> Follows(m, w, r, n)'
  BY DEF Follows, Current
<1>3. \A m, p, o : NextFollows(m, p, o) <=> NextFollows(m, p, o)'
  BY <1>1, <1>2 DEF NextFollows
<1>4. ChannelFollows => ChannelFollows'
  BY <1>1 DEF ChannelFollows, Follows, Current
<1>5. PendingFollows => PendingFollows' BY <1>3 DEF PendingFollows
<1> QED BY <1>3, <1>4, <1>5

(* A step that leaves the channels of live goroutines alone keeps their order. *)
LEMMA ChannelUnchanged ==
  ASSUME TypeOK, ChannelFollows, UNCHANGED settled,
         \A m \in Members, w \in WorkerIds : Live(m, w)' =>
           Live(m, w) /\ jobs'[m][w] = jobs[m][w] /\ worker'[m][w] = worker[m][w]
  PROVE  ChannelFollows'
<1> SUFFICES ASSUME NEW m \in Members, NEW w \in WorkerIds, Live(m, w)',
                    NEW i \in 1..Len(jobs'[m][w])
             PROVE  Follows(m, w, jobs[m][w][i], i - 1)'
  BY DEF ChannelFollows
<1>1. PICK r : r = jobs[m][w][i] /\ r = jobs'[m][w][i] OBVIOUS
<1>2. Follows(m, w, r, i - 1) BY <1>1 DEF ChannelFollows
<1>3. Follows(m, w, r, i - 1)' BY <1>2 DEF Follows, Current
<1> QED BY <1>1, <1>3 DEF Follows

(* A new record disturbs nothing that is held.                               *)
LEMMA ProduceIInv ==
  ASSUME IInv, NEW p \in Partitions, Produce(p) PROVE PipelineInv' /\ InOrder'
<1> USE DEF IInv, PipelineInv, Produce, group
<1>1. InOrder' BY DEF InOrder, SettledBelow
<1>2. ChannelFollows' /\ PendingFollows' BY FollowsUnchanged
<1>3. PositionFollows' BY FollowsUnchanged DEF PositionFollows
<1>4. CurrentFollows' /\ CommittedFollows'
  BY DEF CurrentFollows, CommittedFollows, Current, At
<1>5. \A q \in Partitions : logEnd[q] <= logEnd'[q] /\ logEnd[q] \in Nat /\ logEnd'[q] \in Nat
  BY DEF TypeOK
<1>6. WithinLog'
  <2>1. \A q \in Partitions : position'[q] <= logEnd'[q]
    BY <1>5 DEF WithinLog, TypeOK
  <2>2. \A q \in Partitions : \A o \in settled'[q] : o < logEnd'[q]
    BY <1>5 DEF WithinLog, TypeOK
  <2>3. \A m \in Members, q \in Partitions : \A o \in pending'[m][q] : o < logEnd'[q]
    BY <1>5 DEF WithinLog, TypeOK
  <2>4. ASSUME NEW m \in Members, NEW w \in WorkerIds
        PROVE  /\ \A i \in 1..Len(jobs[m][w]) :
                    Offset(jobs[m][w][i]) < logEnd'[Part(jobs[m][w][i])]
               /\ worker[m][w].at \in InFlight =>
                    Offset(Current(m, w)) < logEnd'[Part(Current(m, w))]
    <3>1. ASSUME NEW i \in 1..Len(jobs[m][w])
          PROVE  Offset(jobs[m][w][i]) < logEnd'[Part(jobs[m][w][i])]
      <4>1. jobs[m][w][i] \in Records BY DEF TypeOK
      <4>2. Offset(jobs[m][w][i]) < logEnd[Part(jobs[m][w][i])] BY DEF WithinLog
      <4> QED BY <1>5, <4>1, <4>2, StateFacts
    <3>2. ASSUME worker[m][w].at \in InFlight
          PROVE  Offset(Current(m, w)) < logEnd'[Part(Current(m, w))]
      <4>1. Current(m, w) \in Records BY <3>2, StateFacts DEF TypeOK, Current
      <4>2. Offset(Current(m, w)) < logEnd[Part(Current(m, w))] BY <3>2 DEF WithinLog
      <4> QED BY <1>5, <4>1, <4>2, StateFacts
    <3> QED BY <3>1, <3>2
  <2> QED BY <2>1, <2>2, <2>3, <2>4 DEF WithinLog, Current
<1>7. Quiescent' BY DEF Quiescent, InGroup
<1> QED BY <1>1, <1>2, <1>3, <1>4, <1>6, <1>7

(* A committed offset is within the log: the record before it has settled. *)
LEMMA CommittedWithinLog ==
  ASSUME IInv PROVE \A p \in Partitions : committed[p] <= logEnd[p]
<1> SUFFICES ASSUME NEW p \in Partitions PROVE committed[p] <= logEnd[p] OBVIOUS
<1>1. committed[p] \in Nat /\ logEnd[p] \in Nat BY DEF IInv, TypeOK
<1>2. CASE committed[p] = 0 BY <1>1, <1>2
<1>3. CASE committed[p] - 1 \in settled[p]
  <2>1. committed[p] - 1 < logEnd[p] BY <1>3 DEF IInv, PipelineInv, WithinLog
  <2> QED BY <1>1, <2>1
<1> QED BY <1>2, <1>3 DEF IInv, PipelineInv, CommittedFollows

(* A new owner starts after the last settled record that was committed.      *)
LEMMA AssignIInv ==
  ASSUME IInv, NEW p \in Partitions, NEW m \in Members, Assign(p, m)
  PROVE  PipelineInv' /\ InOrder'
<1> USE DEF IInv, PipelineInv, Assign, broker
<1>1. InOrder' BY DEF InOrder, SettledBelow
<1>2. ChannelFollows' /\ PendingFollows' BY FollowsUnchanged
<1>3. PositionFollows'
  <2> SUFFICES ASSUME NEW q \in Partitions, owner'[q] # None
               PROVE  NextFollows(owner'[q], q, position'[q])
    BY FollowsUnchanged DEF PositionFollows
  <2>1. CASE q = p
    <3>1. position'[q] = committed[q] BY <2>1 DEF TypeOK
    <3>2. committed[q] = 0 \/ committed[q] - 1 \in settled[q] BY DEF CommittedFollows
    <3> QED BY <3>1, <3>2 DEF NextFollows, Follows, Part, Offset
  <2>2. CASE q # p BY <2>2 DEF TypeOK, PositionFollows
  <2> QED BY <2>1, <2>2
<1>4. CurrentFollows' /\ CommittedFollows'
  BY DEF CurrentFollows, CommittedFollows, Current, At
<1>5. WithinLog' BY CommittedWithinLog DEF WithinLog, TypeOK, Current
<1>6. Quiescent' BY DEF Quiescent, InGroup, TypeOK
<1> QED BY <1>1, <1>2, <1>3, <1>4, <1>5, <1>6

(* The steps of Run, and of the process, that move nothing: they only change *)
(* where Run is, end the context, forget the polled records or count errors. *)
LEMMA ControlIInv ==
  ASSUME IInv, NEW m \in Members, UNCHANGED <<broker, group, jobs, worker>>,
         \A n \in Members : n # m =>
           run'[n] = run[n] /\ cancelled'[n] = cancelled[n] /\ pending'[n] = pending[n],
         run'[m] # "down",
         pending'[m] = pending[m] \/ (pending'[m] = NoPending /\ cancelled'[m]),
         cancelled[m] => cancelled'[m],
         run'[m] # "dispatch" => pending'[m] = NoPending
  PROVE  PipelineInv' /\ InOrder'
<1> USE DEF IInv, PipelineInv, broker, group
<1>1. InOrder' BY DEF InOrder, SettledBelow
<1>2. ASSUME NEW n \in Members, NEW w \in WorkerIds, Live(n, w)'
      PROVE  \/ Live(n, w) /\ pending'[n] = pending[n]
             \/ n = m /\ run[m] = "down"
  BY <1>2 DEF Live, InGroup
<1>3. \A n, w, r, k : Follows(n, w, r, k) <=> Follows(n, w, r, k)'
  BY DEF Follows, Current
<1>4. run[m] = "down" => /\ \A w \in WorkerIds : jobs[m][w] = <<>>
                         /\ pending[m] = NoPending
                         /\ \A p \in Partitions : owner[p] # m
  <2>1. ASSUME run[m] = "down" PROVE \A p \in Partitions : owner[p] # m
    <3> SUFFICES ASSUME NEW p \in Partitions, owner[p] = m PROVE FALSE OBVIOUS
    <3>1. owner[p] # None BY ConsumerAssumption
    <3> QED BY <2>1, <3>1 DEF Quiescent, InGroup
  <2> QED BY <2>1 DEF Quiescent, InGroup, NoJobs
<1>5. ChannelFollows'
  <2> SUFFICES ASSUME NEW n \in Members, NEW w \in WorkerIds, Live(n, w)',
                      NEW i \in 1..Len(jobs[n][w])
               PROVE  Follows(n, w, jobs[n][w][i], i - 1)'
    BY DEF ChannelFollows
  <2>1. CASE Live(n, w) BY <2>1 DEF ChannelFollows, Follows, Current
  <2>2. CASE n = m /\ run[m] = "down" BY <1>4, <2>2
  <2> QED BY <1>2, <2>1, <2>2
<1>6. ASSUME NEW n \in Members, NEW p \in Partitions, NEW o, NextFollows(n, p, o),
             ~(n = m /\ run[m] = "down")
      PROVE  NextFollows(n, p, o)'
  <2>1. WorkerOf(p) \in WorkerIds BY ConstantFacts
  <2> QED BY <1>2, <1>3, <1>6, <2>1 DEF NextFollows
<1>7. PendingFollows'
  <2> SUFFICES ASSUME NEW n \in Members, NEW p \in Partitions, NEW o \in pending'[n][p]
               PROVE  NextFollows(n, p, o)'
    BY DEF PendingFollows
  <2>1. o \in pending[n][p] BY DEF NoPending
  <2>2. ~(n = m /\ run[m] = "down") BY <1>4, <2>1 DEF NoPending
  <2> QED BY <1>6, <2>1, <2>2 DEF PendingFollows
<1>8. PositionFollows'
  <2> SUFFICES ASSUME NEW p \in Partitions, owner[p] # None
               PROVE  NextFollows(owner[p], p, position[p])'
    BY DEF PositionFollows
  <2>1. PICK n \in Members : n = owner[p] BY DEF TypeOK
  <2>2. NextFollows(n, p, position[p])' BY <1>4, <1>6, <2>1 DEF PositionFollows
  <2> QED BY <2>1, <2>2
<1>9. CurrentFollows' /\ CommittedFollows'
  BY DEF CurrentFollows, CommittedFollows, Current, At
<1>10. WithinLog'
  <2>1. \A n \in Members, p \in Partitions : pending'[n][p] \subseteq pending[n][p]
    BY DEF NoPending
  <2> QED BY <2>1 DEF WithinLog, Current
<1>11. Quiescent' BY DEF Quiescent, InGroup, TypeOK
<1> QED BY <1>1, <1>5, <1>7, <1>8, <1>9, <1>10, <1>11

(* What is left when a replica ends keeps the invariant.                     *)
LEMMA VanishIInv ==
  ASSUME IInv, NEW m \in Members, Vanish(m) PROVE PipelineInv' /\ InOrder'
<1> USE DEF IInv, PipelineInv, Vanish, broker
<1>1. InOrder' BY DEF InOrder, SettledBelow
<1>2. \A n \in Members, w \in WorkerIds : Live(n, w)' => n # m /\ Live(n, w)
  BY DEF Live, InGroup, TypeOK
<1>3. \A n \in Members : n # m =>
        jobs'[n] = jobs[n] /\ worker'[n] = worker[n] /\ pending'[n] = pending[n]
  BY DEF TypeOK
<1>4. /\ jobs'[m] = NoJobs /\ worker'[m] = AllIdle /\ pending'[m] = NoPending
      /\ run'[m] = "down"
  BY DEF TypeOK
<1>5. ChannelFollows' BY <1>2, <1>3, ChannelUnchanged
<1>6. ASSUME NEW n \in Members, NEW p \in Partitions, NEW o, NextFollows(n, p, o)
      PROVE  NextFollows(n, p, o)'
  <2>1. WorkerOf(p) \in WorkerIds BY ConstantFacts
  <2> QED BY <1>2, <1>3, <1>6, <2>1 DEF NextFollows, Follows, Current
<1>7. PendingFollows'
  BY <1>3, <1>4, <1>6 DEF PendingFollows, NoPending
<1>8. PositionFollows'
  <2> SUFFICES ASSUME NEW p \in Partitions, owner'[p] # None
               PROVE  NextFollows(owner[p], p, position[p])'
    BY DEF PositionFollows
  <2>1. owner'[p] = owner[p] /\ position'[p] = position[p] /\ owner[p] \in Members
    BY DEF TypeOK
  <2>2. PICK n \in Members : n = owner[p] BY <2>1
  <2>3. NextFollows(n, p, position[p]) BY <2>1, <2>2 DEF PositionFollows
  <2>4. PICK o \in Nat : o = position[p] BY DEF TypeOK
  <2>5. NextFollows(n, p, o)' BY <1>6, <2>3, <2>4
  <2> QED BY <2>1, <2>2, <2>4, <2>5 DEF NextFollows, Follows, Live, InGroup, Current
<1>9. \A n \in Members, w \in WorkerIds : worker'[n][w].at \in InFlight =>
        n # m /\ worker'[n][w] = worker[n][w]
  BY <1>3, <1>4, StateFields DEF AllIdle, InFlight
<1>10. CurrentFollows' /\ CommittedFollows'
  BY <1>9 DEF CurrentFollows, CommittedFollows, Current, At
<1>11. WithinLog'
  <2>1. \A n \in Members, p \in Partitions : \A o \in pending'[n][p] : o < logEnd'[p]
    BY <1>3, <1>4 DEF WithinLog, NoPending
  <2>2. ASSUME NEW n \in Members, NEW w \in WorkerIds
        PROVE  /\ \A i \in 1..Len(jobs'[n][w]) :
                    Offset(jobs'[n][w][i]) < logEnd'[Part(jobs'[n][w][i])]
               /\ worker'[n][w].at \in InFlight =>
                    Offset(worker'[n][w].rec) < logEnd'[Part(worker'[n][w].rec)]
    <3>1. CASE n = m BY <1>4, <1>9, <3>1 DEF NoJobs
    <3>2. CASE n # m BY <1>3, <3>2 DEF WithinLog, Current
    <3> QED BY <3>1, <3>2
  <2> QED BY <2>1, <2>2 DEF WithinLog, Current
<1>12. Quiescent'
  <2>1. \A p \in Partitions : owner'[p] # None => InGroup(owner[p])'
    <3> SUFFICES ASSUME NEW p \in Partitions, owner'[p] # None PROVE InGroup(owner[p])'
      OBVIOUS
    <3>1. owner'[p] = owner[p] /\ owner[p] \in Members /\ owner[p] # m BY DEF TypeOK
    <3>2. run[owner[p]] # "down" BY <3>1 DEF Quiescent, InGroup
    <3>3. run'[owner[p]] = run[owner[p]] BY <3>1 DEF TypeOK
    <3> QED BY <3>1, <3>2, <3>3 DEF InGroup
  <2> QED BY <1>3, <1>4, <2>1 DEF Quiescent, InGroup, TypeOK
<1> QED BY <1>1, <1>5, <1>7, <1>8, <1>10, <1>11, <1>12

(* A poll takes a range that starts at the position, when nothing polled is  *)
(* left to dispatch.                                                         *)
LEMMA PollRecordsIInv ==
  ASSUME IInv, NEW m \in Members, PollRecords(m) PROVE PipelineInv' /\ InOrder'
<1> USE DEF IInv, PipelineInv, broker
<1>1. PICK upto \in [Partitions -> 0..MaxOffset] :
        /\ \A p \in Partitions :
             IF owner[p] = m THEN upto[p] \in position[p]..logEnd[p]
                             ELSE upto[p] = position[p]
        /\ position' = upto
        /\ pending' = [pending EXCEPT ![m] =
                         [p \in Partitions |-> position[p]..(upto[p] - 1)]]
  BY DEF PollRecords
<1>2. /\ UNCHANGED <<broker, owner, cancelled, jobs, errs, worker>>
      /\ run[m] = "poll" /\ run' = [run EXCEPT ![m] = "dispatch"]
  BY DEF PollRecords
<1>3. pending[m] = NoPending BY <1>2 DEF Quiescent
<1>4. \A n \in Members : n # m => pending'[n] = pending[n] BY <1>1 DEF TypeOK
<1>5. \A p \in Partitions : pending'[m][p] = position[p]..(upto[p] - 1)
  BY <1>1 DEF TypeOK
<1>6. \A n \in Members, w \in WorkerIds : Live(n, w)' <=> Live(n, w)
  BY <1>2 DEF Live, InGroup, TypeOK
<1>7. \A n, w, r, k : Follows(n, w, r, k) <=> Follows(n, w, r, k)'
  BY <1>2 DEF Follows, Current
<1>8. InOrder' BY <1>2 DEF InOrder, SettledBelow
<1>9. ChannelFollows' BY <1>2, <1>6, ChannelUnchanged
<1>10. \A p \in Partitions : position[p] \in Nat /\ upto[p] \in Nat
  BY <1>1, ConsumerAssumption DEF TypeOK
<1>11. ASSUME NEW n \in Members, NEW p \in Partitions, NEW o, n # m,
              NextFollows(n, p, o)
       PROVE  NextFollows(n, p, o)'
  <2>1. WorkerOf(p) \in WorkerIds BY ConstantFacts
  <2> QED BY <1>2, <1>4, <1>6, <1>7, <1>11, <2>1 DEF NextFollows
<1>12. ASSUME NEW p \in Partitions, owner[p] = m, NEW o \in position[p]..upto[p]
       PROVE  NextFollows(m, p, o)'
  <2>1. WorkerOf(p) \in WorkerIds BY ConstantFacts
  <2>2. CASE o = position[p]
    <3>1. owner[p] # None BY <1>12, ConsumerAssumption
    <3>2. NextFollows(m, p, o) BY <1>12, <2>2, <3>1 DEF PositionFollows
    <3>3. o - 1 \notin pending[m][p] BY <1>3 DEF NoPending
    <3> QED BY <1>2, <1>6, <1>7, <2>1, <3>2, <3>3 DEF NextFollows
  <2>3. CASE o # position[p]
    <3>1. o - 1 \in pending'[m][p] BY <1>5, <1>10, <1>12, <2>3
    <3> QED BY <3>1 DEF NextFollows
  <2> QED BY <2>2, <2>3
<1>13. PendingFollows'
  <2> SUFFICES ASSUME NEW n \in Members, NEW p \in Partitions, NEW o \in pending'[n][p]
               PROVE  NextFollows(n, p, o)'
    BY DEF PendingFollows
  <2>1. CASE n # m BY <1>4, <1>11, <2>1 DEF PendingFollows
  <2>2. CASE n = m
    <3>1. o \in position[p]..(upto[p] - 1) BY <1>5, <2>2
    <3>2. owner[p] = m BY <1>1, <1>10, <3>1
    <3> QED BY <1>10, <1>12, <2>2, <3>1, <3>2
  <2> QED BY <2>1, <2>2
<1>14. PositionFollows'
  <2> SUFFICES ASSUME NEW p \in Partitions, owner[p] # None
               PROVE  NextFollows(owner[p], p, upto[p])'
    BY <1>1, <1>2 DEF PositionFollows, NextFollows, Follows, Live, InGroup, Current
  <2>1. PICK n \in Members : n = owner[p] BY DEF TypeOK
  <2>2. NextFollows(n, p, upto[p])'
    <3>1. CASE n = m
      <4>1. upto[p] \in position[p]..logEnd[p] BY <1>1, <2>1, <3>1
      <4>2. upto[p] \in position[p]..upto[p] BY <1>10, <4>1
      <4> QED BY <1>12, <2>1, <3>1, <4>2
    <3>2. CASE n # m BY <1>1, <1>11, <2>1, <3>2 DEF PositionFollows
    <3> QED BY <3>1, <3>2
  <2> QED BY <1>2, <2>1, <2>2 DEF NextFollows, Follows, Live, InGroup, Current
<1>15. CurrentFollows' /\ CommittedFollows'
  BY <1>2 DEF CurrentFollows, CommittedFollows, Current, At
<1>16. WithinLog'
  <2>1. \A p \in Partitions : position'[p] <= logEnd'[p]
    BY <1>1, <1>2, <1>10 DEF WithinLog, TypeOK
  <2>2. ASSUME NEW n \in Members, NEW p \in Partitions, NEW o \in pending'[n][p]
        PROVE  o < logEnd'[p]
    <3>1. CASE n # m BY <1>2, <1>4, <3>1 DEF WithinLog
    <3>2. CASE n = m BY <1>2, <1>5, <1>10, <2>1, <3>2, <1>1 DEF TypeOK
    <3> QED BY <3>1, <3>2
  <2> QED BY <1>2, <2>1, <2>2 DEF WithinLog, Current
<1>17. Quiescent'
  BY <1>2, <1>4 DEF Quiescent, InGroup, TypeOK
<1> QED BY <1>8, <1>9, <1>13, <1>14, <1>15, <1>16, <1>17

(* The oldest polled record of a partition joins the channel; what is left   *)
(* to dispatch follows it.                                                   *)
LEMMA DispatchIInv ==
  ASSUME IInv, NEW m \in Members, NEW p \in Partitions, Dispatch(m, p)
  PROVE  PipelineInv' /\ InOrder'
<1> USE DEF IInv, PipelineInv, broker, group
<1> DEFINE w == WorkerOf(p)
           old == jobs[m][w]
           len == Len(old)
<1>1. PICK o \in pending[m][p] :
        /\ \A q \in pending[m][p] : o <= q
        /\ jobs' = [jobs EXCEPT ![m][w] = Append(@, <<p, o>>)]
        /\ pending' = [pending EXCEPT ![m][p] = @ \ {o}]
  BY DEF Dispatch
<1>2. /\ UNCHANGED <<broker, group, cancelled, errs, worker>>
      /\ run[m] = "dispatch"
      /\ run' = [run EXCEPT ![m] = IF pending'[m] = NoPending THEN "loop" ELSE @]
  BY DEF Dispatch
<1>3. w \in WorkerIds /\ p \in Nat BY ConstantFacts
<1>4. o \in Nat /\ <<p, o>> \in Records BY DEF TypeOK, Records
<1>5. old \in Seq(Records) /\ len \in Nat BY <1>3 DEF TypeOK
<1>6. jobs'[m][w] = Append(old, <<p, o>>) BY <1>1, <1>3 DEF TypeOK
<1>7. \A n \in Members, v \in WorkerIds : ~(n = m /\ v = w) => jobs'[n][v] = jobs[n][v]
  BY <1>1, <1>3 DEF TypeOK
<1> HIDE DEF w
<1>8. /\ Len(jobs'[m][w]) = len + 1
      /\ jobs'[m][w][len + 1] = <<p, o>>
      /\ \A i \in 1..len : jobs'[m][w][i] = old[i]
  BY <1>4, <1>5, <1>6
<1>9. \A n \in Members, v \in WorkerIds : Live(n, v)' <=> Live(n, v)
  BY <1>2 DEF Live, InGroup, TypeOK
<1>10. ASSUME NEW n \in Members, NEW v \in WorkerIds, NEW r,
              NEW k \in 0..Len(jobs[n][v]), Follows(n, v, r, k)
       PROVE  Follows(n, v, r, k)'
  <2>1. \A j \in 1..k : jobs'[n][v][j] = jobs[n][v][j]
    BY <1>5, <1>7, <1>8
  <2> QED BY <1>2, <1>10, <2>1 DEF Follows, Current
<1>11. \A n \in Members, v \in WorkerIds :
         Len(jobs[n][v]) \in Nat /\ Len(jobs'[n][v]) \in Nat
                                /\ Len(jobs[n][v]) <= Len(jobs'[n][v])
  <2> SUFFICES ASSUME NEW n \in Members, NEW v \in WorkerIds
               PROVE  /\ Len(jobs[n][v]) \in Nat /\ Len(jobs'[n][v]) \in Nat
                      /\ Len(jobs[n][v]) <= Len(jobs'[n][v])
    OBVIOUS
  <2>1. jobs[n][v] \in Seq(Records) BY DEF TypeOK
  <2>2. CASE n = m /\ v = w BY <1>5, <1>8, <2>2
  <2>3. CASE ~(n = m /\ v = w) BY <1>7, <2>1, <2>3
  <2> QED BY <2>2, <2>3
<1>12. ASSUME NEW n \in Members, NEW v \in WorkerIds, NEW r,
              Follows(n, v, r, Len(jobs[n][v]))
       PROVE  Follows(n, v, r, Len(jobs[n][v]))'
  <2>1. PICK k \in Nat : k = Len(jobs[n][v]) BY <1>11
  <2>2. PICK l \in Nat : l = Len(jobs'[n][v]) BY <1>11
  <2>3. Follows(n, v, r, k)' BY <1>10, <1>12, <2>1
  <2>4. Follows(n, v, r, l)' BY <1>11, <2>1, <2>2, <2>3 DEF Follows
  <2> QED BY <2>2, <2>4 DEF Follows
<1>13. InOrder' BY <1>2 DEF InOrder, SettledBelow
<1>14. Live(m, w) => Follows(m, w, <<p, o>>, len)
  <2>1. NextFollows(m, p, o) BY DEF PendingFollows
  <2>2. o - 1 \notin pending[m][p] BY <1>1, <1>4
  <2> QED BY <2>1, <2>2 DEF NextFollows, w
<1>15. ChannelFollows'
  <2> SUFFICES ASSUME NEW n \in Members, NEW v \in WorkerIds, Live(n, v)',
                      NEW i \in 1..Len(jobs'[n][v])
               PROVE  Follows(n, v, jobs[n][v][i], i - 1)'
    BY DEF ChannelFollows
  <2>1. CASE i \in 1..Len(jobs[n][v])
    <3>1. PICK r : r = jobs[n][v][i] OBVIOUS
    <3>2. jobs'[n][v][i] = r BY <1>7, <1>8, <2>1, <3>1
    <3>3. Follows(n, v, r, i - 1) BY <1>9, <2>1, <3>1 DEF ChannelFollows
    <3>4. i - 1 \in 0..Len(jobs[n][v]) BY <1>11, <2>1
    <3>5. Follows(n, v, r, i - 1)' BY <1>10, <3>3, <3>4
    <3> QED BY <3>2, <3>5 DEF Follows
  <2>2. CASE i \notin 1..Len(jobs[n][v])
    <3>1. n = m /\ v = w BY <1>7, <2>2
    <3>2. i = len + 1 BY <1>5, <1>8, <2>2, <3>1
    <3>3. jobs'[n][v][i] = <<p, o>> BY <1>8, <3>1, <3>2
    <3>4. Follows(n, v, <<p, o>>, len) BY <1>9, <1>14, <3>1
    <3>5. len \in 0..Len(jobs[n][v]) BY <1>5, <3>1
    <3>6. Follows(n, v, <<p, o>>, i - 1)
      BY <1>5, <3>2, <3>4
    <3>7. i - 1 \in 0..Len(jobs[n][v]) BY <1>5, <3>2, <3>5
    <3>8. Follows(n, v, <<p, o>>, i - 1)' BY <1>10, <3>6, <3>7
    <3> QED BY <3>3, <3>8 DEF Follows
  <2> QED BY <2>1, <2>2
<1>16. ASSUME NEW n \in Members, NEW q \in Partitions, NEW k \in Nat, NextFollows(n, q, k)
       PROVE  NextFollows(n, q, k)'
  <2>1. WorkerOf(q) \in WorkerIds BY ConstantFacts
  <2>2. CASE ~Live(n, WorkerOf(q)) BY <1>9, <2>1, <2>2 DEF NextFollows
  <2>3. CASE Follows(n, WorkerOf(q), <<q, k>>, Len(jobs[n][WorkerOf(q)]))
    BY <1>12, <2>1, <2>3 DEF NextFollows
  <2>4. CASE k - 1 \in pending[n][q]
    <3>1. CASE n = m /\ q = p /\ k - 1 = o
      <4>1. jobs'[m][w][len + 1] = <<p, k - 1>> BY <1>8, <3>1
      <4>2. len + 1 \in 1..Len(jobs'[m][w]) BY <1>5, <1>8
      <4>3. \E j \in 1..Len(jobs'[m][w]) : jobs'[m][w][j] = <<p, k - 1>>
        BY <4>1, <4>2
      <4> QED BY <3>1, <4>3 DEF NextFollows, Follows, Part, Offset, w
    <3>2. CASE ~(n = m /\ q = p /\ k - 1 = o)
      <4>1. k - 1 \in pending'[n][q] BY <1>1, <2>4, <3>2 DEF TypeOK
      <4> QED BY <4>1 DEF NextFollows
    <3> QED BY <3>1, <3>2
  <2> QED BY <1>16, <2>2, <2>3, <2>4 DEF NextFollows
<1>17. \A n \in Members, q \in Partitions : pending'[n][q] \subseteq pending[n][q]
  BY <1>1 DEF TypeOK
<1>18. PendingFollows'
  <2> SUFFICES ASSUME NEW n \in Members, NEW q \in Partitions, NEW k \in pending'[n][q]
               PROVE  NextFollows(n, q, k)'
    BY DEF PendingFollows
  <2>1. k \in Nat /\ NextFollows(n, q, k) BY <1>17 DEF PendingFollows, TypeOK
  <2> QED BY <1>16, <2>1
<1>19. PositionFollows'
  <2> SUFFICES ASSUME NEW q \in Partitions, owner[q] # None
               PROVE  NextFollows(owner[q], q, position[q])'
    BY <1>2 DEF PositionFollows
  <2>1. PICK n \in Members : n = owner[q] BY DEF TypeOK
  <2>2. PICK k \in Nat : k = position[q] BY DEF TypeOK
  <2>3. NextFollows(n, q, k)' BY <1>16, <2>1, <2>2 DEF PositionFollows
  <2> QED BY <1>2, <2>1, <2>2, <2>3
<1>20. CurrentFollows' /\ CommittedFollows'
  BY <1>2 DEF CurrentFollows, CommittedFollows, Current, At
<1>21. WithinLog'
  <2>1. \A n \in Members, q \in Partitions : \A k \in pending'[n][q] : k < logEnd'[q]
    BY <1>2, <1>17 DEF WithinLog
  <2>2. ASSUME NEW n \in Members, NEW v \in WorkerIds, NEW i \in 1..Len(jobs'[n][v])
        PROVE  Offset(jobs'[n][v][i]) < logEnd'[Part(jobs'[n][v][i])]
    <3>1. CASE i \in 1..Len(jobs[n][v])
      BY <1>2, <1>7, <1>8, <3>1 DEF WithinLog
    <3>2. CASE i \notin 1..Len(jobs[n][v])
      <4>1. n = m /\ v = w BY <1>7, <3>2
      <4>2. jobs'[n][v][i] = <<p, o>> BY <1>5, <1>8, <3>2, <4>1
      <4>3. o < logEnd[p] BY DEF WithinLog
      <4> QED BY <1>2, <4>2, <4>3 DEF Part, Offset
    <3> QED BY <3>1, <3>2
  <2> QED BY <1>2, <2>1, <2>2 DEF WithinLog, Current
<1>22. Quiescent'
  <2>1. \A n \in Members : n # m => pending'[n] = pending[n] /\ run'[n] = run[n]
                                  /\ jobs'[n] = jobs[n]
    BY <1>1, <1>2 DEF TypeOK
  <2>2. /\ run'[m] # "down"
        /\ run'[m] # "dispatch" => pending'[m] = NoPending
    BY <1>2 DEF TypeOK
  <2> QED BY <1>2, <2>1, <2>2 DEF Quiescent, InGroup, TypeOK
<1> QED BY <1>13, <1>15, <1>18, <1>19, <1>20, <1>21, <1>22

(* The head of a channel becomes the record in hand; a goroutine whose       *)
(* context is done drops it, and promises nothing any more.                  *)
LEMMA TakeIInv ==
  ASSUME IInv, TypeOK', NEW m \in Members, NEW w \in WorkerIds, Take(m, w)
  PROVE  PipelineInv' /\ InOrder'
<1> USE DEF IInv, PipelineInv, broker, group
<1> DEFINE old == jobs[m][w]
           len == Len(old)
           head == Head(old)
<1>1. /\ UNCHANGED <<broker, group, run, cancelled, pending, errs>>
      /\ InGroup(m) /\ worker[m][w] = Idle /\ old # <<>>
      /\ jobs' = [jobs EXCEPT ![m][w] = Tail(@)]
      /\ Becomes(m, w, IF cancelled[m] THEN Idle ELSE Busy("handle", head))
  BY DEF Take
<1>2. old \in Seq(Records) /\ len \in Nat \ {0} /\ head \in Records /\ head = old[1]
  BY <1>1 DEF TypeOK
<1>3. jobs'[m][w] = Tail(old) BY <1>1 DEF TypeOK
<1>4. /\ Len(jobs'[m][w]) = len - 1
      /\ \A i \in 1..(len - 1) : jobs'[m][w][i] = old[i + 1]
  BY <1>2, <1>3
<1>5. \A n \in Members, v \in WorkerIds : ~(n = m /\ v = w) =>
        jobs'[n][v] = jobs[n][v] /\ worker'[n][v] = worker[n][v]
  BY <1>1 DEF TypeOK, Becomes
<1>6. worker'[m][w] = IF cancelled[m] THEN Idle ELSE Busy("handle", head)
  BY <1>1 DEF TypeOK, Becomes
<1> HIDE DEF head
<1>7. \A n \in Members, v \in WorkerIds : Live(n, v)' => Live(n, v)
  <2>1. Idle # Failed BY DEF Idle, Failed
  <2> QED BY <1>1, <1>5, <2>1 DEF Live, InGroup
<1>8. ASSUME Live(m, w)', NEW r \in Records, NEW k \in 1..len, Follows(m, w, r, k)
      PROVE  Follows(m, w, r, k - 1)'
  <2>1. worker'[m][w] = Busy("handle", head) BY <1>1, <1>6, <1>8 DEF Live
  <2>2. Current(m, w)' = old[1] BY <1>2, <2>1, StateFields DEF Current
  <2>3. Part(r) \in Partitions /\ Offset(r) \in Nat BY StateFacts
  <2>4. ASSUME Offset(r) # 0 PROVE Current(m, w) # <<Part(r), Offset(r) - 1>>
    <3>1. <<Part(r), Offset(r) - 1>> \in Records BY <2>3, <2>4 DEF Records
    <3>2. Current(m, w) = None BY <1>1, StateFields DEF Current
    <3> QED BY <3>1, <3>2, ConsumerAssumption DEF Records, Partitions
  <2>5. ASSUME NEW j \in 1..k, old[j] = <<Part(r), Offset(r) - 1>>
        PROVE  \/ Current(m, w)' = <<Part(r), Offset(r) - 1>>
               \/ \E i \in 1..(k - 1) : jobs'[m][w][i] = <<Part(r), Offset(r) - 1>>
    <3>1. CASE j = 1 BY <2>2, <2>5, <3>1
    <3>2. CASE j # 1
      <4>1. j - 1 \in 1..(k - 1) /\ j - 1 \in 1..(len - 1) /\ (j - 1) + 1 = j
        BY <1>2, <3>2
      <4>2. jobs'[m][w][j - 1] = old[j] BY <1>4, <4>1
      <4> QED BY <2>5, <4>1, <4>2
    <3> QED BY <3>1, <3>2
  <2> QED BY <1>1, <1>8, <2>4, <2>5 DEF Follows
<1>9. ASSUME NEW n \in Members, NEW v \in WorkerIds, ~(n = m /\ v = w)
      PROVE  \A r, k : Follows(n, v, r, k) <=> Follows(n, v, r, k)'
  BY <1>1, <1>5, <1>9 DEF Follows, Current
<1>10. InOrder' BY <1>1 DEF InOrder, SettledBelow
<1>11. ChannelFollows'
  <2> SUFFICES ASSUME NEW n \in Members, NEW v \in WorkerIds, Live(n, v)',
                      NEW i \in 1..Len(jobs'[n][v])
               PROVE  Follows(n, v, jobs[n][v][i], i - 1)'
    BY DEF ChannelFollows
  <2>1. CASE n = m /\ v = w
    <3>1. i \in 1..(len - 1) /\ i + 1 \in 1..len /\ i \in 1..len /\ (i + 1) - 1 = i
      BY <1>2, <1>4, <2>1
    <3>2. PICK r \in Records : r = old[i + 1] BY <1>2, <3>1
    <3>3. Follows(m, w, old[i + 1], (i + 1) - 1)
      BY <1>7, <2>1, <3>1 DEF ChannelFollows
    <3>4. Follows(m, w, r, i) BY <3>1, <3>2, <3>3
    <3>5. Follows(m, w, r, i - 1)' BY <1>8, <2>1, <3>1, <3>4
    <3>6. jobs'[n][v][i] = r BY <1>4, <2>1, <3>1, <3>2
    <3> QED BY <2>1, <3>5, <3>6 DEF Follows
  <2>2. CASE ~(n = m /\ v = w)
    <3>1. PICK r : r = jobs[n][v][i] /\ r = jobs'[n][v][i] BY <1>5, <2>2
    <3>2. Follows(n, v, r, i - 1) BY <1>5, <1>7, <2>2, <3>1 DEF ChannelFollows
    <3>3. Follows(n, v, r, i - 1)' BY <1>9, <2>2, <3>2
    <3> QED BY <3>1, <3>3 DEF Follows
  <2> QED BY <2>1, <2>2
<1>12. ASSUME NEW n \in Members, NEW q \in Partitions, NEW o \in Nat, NextFollows(n, q, o)
       PROVE  NextFollows(n, q, o)'
  <2> DEFINE v == WorkerOf(q)
  <2>1. v \in WorkerIds BY ConstantFacts
  <2>2. <<q, o>> \in Records BY DEF Records
  <2>3. CASE o - 1 \in pending[n][q] BY <1>1, <2>3 DEF NextFollows
  <2>4. CASE ~Live(n, v) BY <1>7, <2>1, <2>4 DEF NextFollows
  <2>5. CASE Live(n, v)' /\ Follows(n, v, <<q, o>>, Len(jobs[n][v]))
    <3>1. CASE n = m /\ v = w
      <4>1. len \in 1..len BY <1>2
      <4>2. Follows(m, w, <<q, o>>, len) BY <2>5, <3>1
      <4>3. len - 1 \in Nat BY <1>2
      <4>4. PICK k \in Nat : k = len - 1 BY <4>3
      <4>5. Follows(m, w, <<q, o>>, k)'
        BY <1>8, <2>2, <2>5, <3>1, <4>1, <4>2, <4>4 DEF Follows
      <4>6. k = Len(jobs'[n][v]) BY <1>4, <3>1, <4>4
      <4> QED BY <3>1, <4>5, <4>6 DEF NextFollows, Follows
    <3>2. CASE ~(n = m /\ v = w)
      <4>1. jobs'[n][v] = jobs[n][v] BY <1>5, <2>1, <3>2
      <4>2. PICK k : k = Len(jobs[n][v]) OBVIOUS
      <4>3. Follows(n, v, <<q, o>>, k)' BY <1>9, <2>1, <2>5, <3>2, <4>2
      <4> QED BY <4>1, <4>2, <4>3 DEF NextFollows, Follows
    <3> QED BY <3>1, <3>2
  <2> QED BY <1>12, <2>3, <2>4, <2>5 DEF NextFollows
<1>13. PendingFollows'
  <2> SUFFICES ASSUME NEW n \in Members, NEW q \in Partitions, NEW k \in pending[n][q]
               PROVE  NextFollows(n, q, k)'
    BY <1>1 DEF PendingFollows
  <2>1. k \in Nat BY DEF TypeOK
  <2> QED BY <1>12, <2>1 DEF PendingFollows
<1>14. PositionFollows'
  <2> SUFFICES ASSUME NEW q \in Partitions, owner[q] # None
               PROVE  NextFollows(owner[q], q, position[q])'
    BY <1>1 DEF PositionFollows
  <2>1. PICK n \in Members : n = owner[q] BY DEF TypeOK
  <2>2. PICK k \in Nat : k = position[q] BY DEF TypeOK
  <2>3. NextFollows(n, q, k)' BY <1>12, <2>1, <2>2 DEF PositionFollows
  <2> QED BY <1>1, <2>1, <2>2, <2>3
<1>15. CurrentFollows' /\ CommittedFollows'
  <2>1. CommittedFollows' BY <1>1 DEF CommittedFollows
  <2>2. ASSUME ~cancelled[m]
        PROVE  Offset(head) = 0 \/ Offset(head) - 1 \in settled[Part(head)]
    <3>1. Live(m, w)
      <4>1. Idle # Failed BY DEF Idle, Failed
      <4> QED BY <1>1, <2>2, <4>1 DEF Live
    <3>2. 1 \in 1..len BY <1>2
    <3>3. Follows(m, w, old[1], 1 - 1) BY <3>1, <3>2 DEF ChannelFollows
    <3>4. Part(head) \in Partitions /\ Offset(head) \in Nat BY <1>2, StateFacts
    <3>5. ASSUME Offset(head) # 0 PROVE Current(m, w) # <<Part(head), Offset(head) - 1>>
      <4>1. <<Part(head), Offset(head) - 1>> \in Records BY <3>4, <3>5 DEF Records
      <4>2. Current(m, w) = None BY <1>1, StateFields DEF Current
      <4> QED BY <4>1, <4>2, ConsumerAssumption DEF Records, Partitions
    <3> QED BY <1>2, <3>3, <3>5 DEF Follows
  <2>3. ASSUME NEW n \in Members, NEW v \in WorkerIds, worker'[n][v].at \in InFlight
        PROVE  LET x == worker'[n][v].rec
               IN  /\ Offset(x) = 0 \/ Offset(x) - 1 \in settled[Part(x)]
                   /\ worker'[n][v].at = "commit" => Offset(x) \in settled[Part(x)]
    <3>1. CASE n = m /\ v = w
      <4>1. ~cancelled[m] /\ worker'[n][v] = Busy("handle", head)
        BY <1>6, <2>3, <3>1, StateFields DEF InFlight
      <4> QED BY <2>2, <4>1, StateFields
    <3>2. CASE ~(n = m /\ v = w)
      BY <1>5, <2>3, <3>2 DEF CurrentFollows, Current, At
    <3> QED BY <3>1, <3>2
  <2> QED BY <1>1, <2>1, <2>3 DEF CurrentFollows, Current, At
<1>16. WithinLog'
  <2>1. Offset(head) < logEnd[Part(head)] BY <1>2 DEF WithinLog
  <2>2. ASSUME NEW n \in Members, NEW v \in WorkerIds, worker'[n][v].at \in InFlight
        PROVE  Offset(worker'[n][v].rec) < logEnd[Part(worker'[n][v].rec)]
    <3>1. CASE n = m /\ v = w
      BY <1>6, <2>1, <2>2, <3>1, StateFields DEF InFlight
    <3>2. CASE ~(n = m /\ v = w)
      BY <1>5, <2>2, <3>2 DEF WithinLog, Current
    <3> QED BY <3>1, <3>2
  <2>3. ASSUME NEW n \in Members, NEW v \in WorkerIds, NEW i \in 1..Len(jobs'[n][v])
        PROVE  Offset(jobs'[n][v][i]) < logEnd[Part(jobs'[n][v][i])]
    <3>1. CASE n = m /\ v = w
      <4>1. i + 1 \in 1..len /\ jobs'[n][v][i] = old[i + 1] BY <1>2, <1>4, <3>1
      <4> QED BY <4>1 DEF WithinLog
    <3>2. CASE ~(n = m /\ v = w) BY <1>5, <3>2 DEF WithinLog
    <3> QED BY <3>1, <3>2
  <2> QED BY <1>1, <2>2, <2>3 DEF WithinLog, Current
<1>17. Quiescent'
  <2>1. \A n \in Members : n # m => jobs'[n] = jobs[n] /\ worker'[n] = worker[n]
    BY <1>1 DEF TypeOK, Becomes
  <2> QED BY <1>1, <2>1 DEF Quiescent, InGroup
<1> QED BY <1>10, <1>11, <1>13, <1>14, <1>15, <1>16, <1>17

(* The steps of a goroutine that has a record, or has none left to take. *)
LEMMA RecordStepIInv ==
  ASSUME IInv, TypeOK', NEW m \in Members, NEW w \in WorkerIds, NEW s \in WorkerStates,
         worker[m][w].at \in InFlight, Becomes(m, w, s),
         UNCHANGED <<logEnd, group, run, cancelled, pending, jobs>>,
         SettleCurrent(m, w) \/ UNCHANGED settled,
         s.at \in InFlight => s.rec = Current(m, w),
         s.at = "commit" => Offset(Current(m, w)) \in settled'[Part(Current(m, w))],
         \/ s.rec = Current(m, w)
         \/ ~Live(m, w)'
         \/ worker[m][w].at = "commit",
         \/ UNCHANGED committed
         \/ At(m, w, "commit") /\ CommitCurrent(m, w) /\ UNCHANGED settled
  PROVE  PipelineInv' /\ InOrder'
<1>1. /\ \A p \in Partitions : settled[p] \subseteq settled'[p]
      /\ InOrder' /\ CurrentFollows' /\ WithinLog'
      /\ UNCHANGED committed => CommittedFollows'
  BY GoroutineSettles DEF group
<1>2. InGroup(m) /\ worker[m][w] # Failed
  <2>1. Failed.at \notin InFlight /\ Idle.at \notin InFlight BY StateFields DEF InFlight
  <2> QED BY <2>1 DEF IInv, PipelineInv, Quiescent, AllIdle
<1>3. \/ Live(m, w)' => s.rec = Current(m, w)
      \/ \A r \in Records : r = Current(m, w) => Offset(r) \in settled'[Part(r)]
  <2>1. ASSUME worker[m][w].at = "commit", NEW r \in Records, r = Current(m, w)
        PROVE  Offset(r) \in settled'[Part(r)]
    <3>1. Offset(r) \in settled[Part(r)]
      BY <2>1 DEF IInv, PipelineInv, CurrentFollows, At
    <3>2. Part(r) \in Partitions BY <2>1, StateFacts
    <3> QED BY <1>1, <3>1, <3>2
  <2> QED BY <2>1
<1>4. ChannelFollows' /\ PendingFollows' /\ PositionFollows' /\ Quiescent'
  BY <1>1, <1>2, <1>3, GoroutineStep
<1>5. CommittedFollows' BY <1>1, CommitFollows
<1> QED BY <1>1, <1>4, <1>5 DEF PipelineInv

(* Each action of a goroutine keeps the invariant.                           *)
LEMMA WorkerIInv ==
  ASSUME IInv, TypeOK', NEW m \in Members, NEW w \in WorkerIds, WorkerStep(m, w)
  PROVE  PipelineInv' /\ InOrder'
<1> DEFINE r == Current(m, w)
<1> USE DEF broker, group
<1>1. worker[m][w].at \in InFlight =>
        /\ r \in Records /\ Part(r) \in Partitions /\ Offset(r) \in Nat
        /\ \A step \in InFlight : Busy(step, r) \in WorkerStates
  BY StateFacts DEF IInv, TypeOK, Current
<1>2. ASSUME worker[m][w].at \in InFlight, SettleCurrent(m, w)
      PROVE  Offset(r) \in settled'[Part(r)]
  BY <1>1, <1>2 DEF SettleCurrent, IInv, TypeOK
<1> HIDE DEF r
<1>3. /\ \A step : Busy(step, r).at = step /\ Busy(step, r).rec = r
      /\ Idle.at \notin InFlight /\ Failed.at \notin InFlight
      /\ Idle.at # "commit" /\ Failed.at # "commit"
  BY StateFields DEF InFlight
<1>4. \A s : Becomes(m, w, s) => worker'[m][w] = s
  BY DEF Becomes, IInv, TypeOK
<1>5. CASE Take(m, w) BY <1>5, TakeIInv
<1>6. CASE WorkerExits(m, w)
  <2>1. Becomes(m, w, Exited) /\ worker[m][w] = Idle /\ run[m] \in Closed
        /\ UNCHANGED <<broker, group, run, cancelled, pending, jobs, errs>>
    BY <1>6 DEF WorkerExits
  <2>2. Exited \in WorkerStates /\ Idle # Failed /\ Exited.rec = Idle.rec
        /\ Exited.at \notin InFlight
    BY StateFacts, StateFields DEF Idle, Failed, InFlight
  <2>3. InGroup(m) BY <2>1 DEF InGroup, Closed
  <2>4. ChannelFollows' /\ PendingFollows' /\ PositionFollows' /\ Quiescent'
    BY <2>1, <2>2, <2>3, GoroutineStep DEF Current
  <2>5. ASSUME NEW n \in Members, NEW v \in WorkerIds, worker'[n][v].at \in InFlight
        PROVE  worker'[n][v] = worker[n][v]
    BY <2>1, <2>2, <2>5 DEF Becomes, IInv, TypeOK
  <2>6. CurrentFollows'
    BY <2>1, <2>5 DEF IInv, PipelineInv, CurrentFollows, Current, At
  <2>7. WithinLog'
    BY <2>1, <2>5 DEF IInv, PipelineInv, WithinLog, Current
  <2>8. CommittedFollows' /\ InOrder'
    BY <2>1 DEF IInv, PipelineInv, CommittedFollows, InOrder, SettledBelow
  <2> QED BY <2>4, <2>6, <2>7, <2>8 DEF PipelineInv
<1>7. CASE HandlerSucceeds(m, w)
  <2>1. /\ worker[m][w].at = "handle" /\ SettleCurrent(m, w)
        /\ Becomes(m, w, Busy("commit", r))
        /\ UNCHANGED <<logEnd, committed, group, run, cancelled, pending, jobs, errs>>
    BY <1>7 DEF HandlerSucceeds, At, r
  <2>2. worker[m][w].at \in InFlight /\ "commit" \in InFlight BY <2>1 DEF InFlight
  <2> QED BY <1>1, <1>2, <1>3, <2>1, <2>2, RecordStepIInv DEF r
<1>8. CASE HandlerRejects(m, w)
  <2>1. /\ worker[m][w].at = "handle" /\ Becomes(m, w, Busy("deadletter", r))
        /\ UNCHANGED <<broker, group, run, cancelled, pending, jobs, errs>>
    BY <1>8 DEF HandlerRejects, At, r
  <2>2. worker[m][w].at \in InFlight /\ "deadletter" \in InFlight BY <2>1 DEF InFlight
  <2> QED BY <1>1, <1>3, <2>1, <2>2, RecordStepIInv DEF r
<1>9. CASE HandlerErrs(m, w)
  <2>1. /\ worker[m][w].at = "handle"
        /\ SettleCurrent(m, w) \/ UNCHANGED settled
        /\ Becomes(m, w, IF cancelled[m] THEN Idle ELSE Busy("backoff", r))
        /\ UNCHANGED <<logEnd, committed, group, run, cancelled, pending, jobs, errs>>
    BY <1>9 DEF HandlerErrs, At, r
  <2>2. worker[m][w].at \in InFlight /\ "backoff" \in InFlight BY <2>1 DEF InFlight
  <2>3. CASE cancelled[m]
    <3>1. ~Live(m, w)' BY <2>1, <2>3 DEF Live
    <3> QED BY <1>3, <2>1, <2>2, <2>3, <3>1, StateFacts, RecordStepIInv DEF r
  <2>4. CASE ~cancelled[m]
    BY <1>1, <1>3, <2>1, <2>2, <2>4, RecordStepIInv DEF r
  <2> QED BY <2>3, <2>4
<1>10. CASE BackoffEnds(m, w)
  <2>1. /\ worker[m][w].at = "backoff"
        /\ Becomes(m, w, IF cancelled[m] THEN Idle ELSE Busy("handle", r))
        /\ UNCHANGED <<broker, group, run, cancelled, pending, jobs, errs>>
    BY <1>10 DEF BackoffEnds, At, r
  <2>2. worker[m][w].at \in InFlight /\ "handle" \in InFlight BY <2>1 DEF InFlight
  <2>3. CASE cancelled[m]
    <3>1. ~Live(m, w)' BY <2>1, <2>3 DEF Live
    <3> QED BY <1>3, <2>1, <2>2, <2>3, <3>1, StateFacts, RecordStepIInv DEF r
  <2>4. CASE ~cancelled[m]
    BY <1>1, <1>3, <2>1, <2>2, <2>4, RecordStepIInv DEF r
  <2> QED BY <2>3, <2>4
<1>11. CASE DeadLetterSent(m, w)
  <2>1. /\ worker[m][w].at = "deadletter" /\ SettleCurrent(m, w)
        /\ Becomes(m, w, Busy("commit", r))
        /\ UNCHANGED <<logEnd, committed, group, run, cancelled, pending, jobs, errs>>
    BY <1>11 DEF DeadLetterSent, At, r
  <2>2. worker[m][w].at \in InFlight /\ "commit" \in InFlight BY <2>1 DEF InFlight
  <2> QED BY <1>1, <1>2, <1>3, <2>1, <2>2, RecordStepIInv DEF r
<1>12. CASE DeadLetterFails(m, w)
  <2>1. /\ worker[m][w].at = "deadletter"
        /\ SettleCurrent(m, w) \/ UNCHANGED settled
        /\ Becomes(m, w, Failed)
        /\ UNCHANGED <<logEnd, committed, group, run, cancelled, pending, jobs>>
    BY <1>12 DEF DeadLetterFails, Fail, At
  <2>2. worker[m][w].at \in InFlight BY <2>1 DEF InFlight
  <2>3. ~Live(m, w)' BY <1>4, <2>1 DEF Live
  <2> QED BY <1>3, <2>1, <2>2, <2>3, StateFacts, RecordStepIInv DEF r
<1>13. CASE CommitSucceeds(m, w) \/ CommitFails(m, w)
  <2>1. /\ worker[m][w].at = "commit"
        /\ CommitCurrent(m, w) \/ UNCHANGED committed
        /\ Becomes(m, w, Idle) \/ Becomes(m, w, Failed)
        /\ UNCHANGED <<logEnd, settled, group, run, cancelled, pending, jobs>>
    BY <1>13 DEF CommitSucceeds, CommitFails, Fail, At
  <2>2. worker[m][w].at \in InFlight BY <2>1 DEF InFlight
  <2> QED BY <1>3, <2>1, <2>2, StateFacts, RecordStepIInv DEF r, At
<1> QED BY <1>5, <1>6, <1>7, <1>8, <1>9, <1>10, <1>11, <1>12, <1>13
        DEF WorkerStep, HandlerReturns

(* The invariant is inductive.                                               *)
LEMMA NextIInv == IInv /\ [Next]_vars => IInv'
<1> SUFFICES ASSUME IInv, [Next]_vars PROVE IInv' OBVIOUS
<1>1. TypeOK' BY NextType DEF IInv
<1>2. PipelineInv' /\ InOrder'
  <2>1. CASE UNCHANGED vars
    <3>1. PositionFollows'
      BY <2>1 DEF vars, broker, group, IInv, PipelineInv, PositionFollows, NextFollows,
                  Follows, Live, InGroup, Current
    <3>2. ChannelFollows' /\ PendingFollows'
      BY <2>1, FollowsUnchanged DEF vars, broker, group, IInv, PipelineInv
    <3>3. CurrentFollows' /\ CommittedFollows' /\ WithinLog' /\ Quiescent' /\ InOrder'
      BY <2>1 DEF vars, broker, group, IInv, PipelineInv, CurrentFollows, CommittedFollows,
                  WithinLog, Quiescent, InGroup, Current, At, InOrder, SettledBelow
    <3> QED BY <3>1, <3>2, <3>3 DEF PipelineInv
  <2>2. ASSUME NEW p \in Partitions, Produce(p) PROVE PipelineInv' /\ InOrder'
    BY <2>2, ProduceIInv
  <2>3. ASSUME NEW p \in Partitions, NEW m \in Members, Assign(p, m)
        PROVE  PipelineInv' /\ InOrder'
    BY <2>3, AssignIInv
  <2>4. ASSUME NEW m \in Members, Crash(m) \/ Close(m) PROVE PipelineInv' /\ InOrder'
    BY <2>4, VanishIInv DEF Crash, Close
  <2>5. ASSUME NEW m \in Members, Start(m) \/ Cancel(m) PROVE PipelineInv' /\ InOrder'
    BY <2>5, ControlIInv
    DEF Start, Cancel, IInv, TypeOK, PipelineInv, Quiescent, broker, group, InLoop
  <2>6. ASSUME NEW m \in Members, RunStep(m) PROVE PipelineInv' /\ InOrder'
    <3>1. CASE EnterPoll(m) \/ PollErrors(m)
      BY <3>1, ControlIInv
      DEF EnterPoll, PollErrors, IInv, TypeOK, PipelineInv, Quiescent, broker, group
    <3>2. CASE PollRecords(m) BY <3>2, PollRecordsIInv
    <3>3. ASSUME NEW p \in Partitions, Dispatch(m, p) PROVE PipelineInv' /\ InOrder'
      BY <3>3, DispatchIInv
    <3>4. CASE ReturnCancelled(m) \/ ReturnError(m)
      <4>1. LeaveLoop(m) /\ UNCHANGED <<broker, group, jobs, worker>>
        BY <3>4 DEF ReturnCancelled, ReturnError
      <4> QED BY <4>1, ControlIInv DEF LeaveLoop, IInv, TypeOK
    <3>5. CASE Join(m)
      BY <3>5, ControlIInv DEF Join, IInv, TypeOK, PipelineInv, Quiescent, broker, group
    <3> QED BY <2>6, <3>1, <3>2, <3>3, <3>4, <3>5 DEF RunStep
  <2>7. ASSUME NEW m \in Members, NEW w \in WorkerIds, WorkerStep(m, w)
        PROVE  PipelineInv' /\ InOrder'
    BY <1>1, <2>7, WorkerIInv
  <2> QED BY <2>1, <2>2, <2>3, <2>4, <2>5, <2>6, <2>7 DEF Next
<1> QED BY <1>1, <1>2 DEF IInv

(* The invariant the theorems below rest on. *)
LEMMA IInvCorrect == Spec => []IInv
BY InitIInv, NextIInv, PTL DEF Spec

(* Queued, polled and next records follow one another behind each live       *)
(* goroutine, whatever moves between replicas.                               *)
THEOREM PipelineCorrect == Spec => []PipelineInv
<1>1. IInv => PipelineInv BY DEF IInv
<1> QED BY <1>1, IInvCorrect, PTL

(* The records of a partition take effect in offset order, whatever crashes, *)
(* lost replies and moved partitions do.                                     *)
THEOREM OrderCorrect == Spec => []InOrder
<1>1. IInv => InOrder BY DEF IInv
<1> QED BY <1>1, IInvCorrect, PTL

(* What is settled below a committed offset. *)
LEMMA SettledBelowCommitted ==
  ASSUME IInv, NEW p \in Partitions, NEW o \in Nat, o = 0 \/ o - 1 \in settled[p]
  PROVE  SettledBelow(p, o)
<1> SUFFICES ASSUME NEW q \in 0..(o - 1) PROVE q \in settled[p] BY DEF SettledBelow
<1>1. o # 0 /\ o - 1 \in settled[p] OBVIOUS
<1>2. q = o - 1 \/ q \in 0..(o - 1 - 1) BY <1>1
<1> QED BY <1>1, <1>2 DEF IInv, InOrder, SettledBelow

(* A group that restarts from its committed offsets loses no record. *)
THEOREM NothingSkipped == Spec => []NoRecordSkipped
<1>1. IInv => NoRecordSkipped
  BY SettledBelowCommitted DEF NoRecordSkipped, IInv, TypeOK, PipelineInv, CommittedFollows
<1> QED BY <1>1, IInvCorrect, PTL

-----------------------------------------------------------------------------
(* The consumer implements AtLeastOnce.                                      *)

(* What a goroutine holds: a record of the log that follows settled ones. *)
LEMMA InHand ==
  ASSUME IInv, NEW m \in Members, NEW w \in WorkerIds, worker[m][w].at \in InFlight,
         NEW r, r = Current(m, w)
  PROVE  /\ Part(r) \in Partitions /\ Offset(r) \in 0..(logEnd[Part(r)] - 1)
         /\ SettledBelow(Part(r), Offset(r))
<1>1. r \in Records BY StateFacts DEF IInv, TypeOK, Current
<1>2. Part(r) \in Partitions /\ Offset(r) \in Nat BY <1>1, StateFacts
<1>3. Offset(r) < logEnd[Part(r)] /\ logEnd[Part(r)] \in Nat
  BY <1>2 DEF IInv, TypeOK, PipelineInv, WithinLog
<1>4. Offset(r) = 0 \/ Offset(r) - 1 \in settled[Part(r)]
  BY DEF IInv, PipelineInv, CurrentFollows
<1> QED BY <1>2, <1>3, <1>4, SettledBelowCommitted

(* A goroutine that settles its record takes a step of the promise, or none. *)
LEMMA SettleMaps ==
  ASSUME IInv, NEW m \in Members, NEW w \in WorkerIds, worker[m][w].at \in InFlight,
         SettleCurrent(m, w) \/ UNCHANGED settled, UNCHANGED <<logEnd, committed>>
  PROVE  [Promise!Next]_(Promise!vars)
<1>1. PICK r : r = Current(m, w) OBVIOUS
<1>2. /\ Part(r) \in Partitions /\ Offset(r) \in 0..(logEnd[Part(r)] - 1)
      /\ SettledBelow(Part(r), Offset(r))
  BY <1>1, InHand
<1>3. CASE SettleCurrent(m, w) /\ Offset(r) \notin settled[Part(r)]
  <2>1. settled' = [settled EXCEPT ![Part(r)] = @ \cup {Offset(r)}]
    BY <1>1, <1>3 DEF SettleCurrent
  <2>2. Promise!Settle(Part(r))
    BY <1>2, <1>3, <2>1 DEF Promise!Settle, Promise!SettledBelow, SettledBelow
  <2> QED BY <1>2, <2>2 DEF Promise!Next, Promise!Partitions, Partitions
<1>4. CASE SettleCurrent(m, w) /\ Offset(r) \in settled[Part(r)]
  <2>1. settled' = [settled EXCEPT ![Part(r)] = @ \cup {Offset(r)}]
    BY <1>1, <1>4 DEF SettleCurrent
  <2>2. settled' = settled BY <1>2, <1>4, <2>1 DEF IInv, TypeOK
  <2> QED BY <2>2 DEF Promise!vars
<1>5. CASE UNCHANGED settled BY <1>5 DEF Promise!vars
<1> QED BY <1>3, <1>4, <1>5

(* So does one that commits it. *)
LEMMA CommitMaps ==
  ASSUME IInv, NEW m \in Members, NEW w \in WorkerIds, At(m, w, "commit"),
         CommitCurrent(m, w) \/ UNCHANGED committed, UNCHANGED <<logEnd, settled>>
  PROVE  [Promise!Next]_(Promise!vars)
<1>1. PICK r : r = Current(m, w) OBVIOUS
<1>2. worker[m][w].at \in InFlight BY DEF At, InFlight
<1>3. Part(r) \in Partitions /\ Offset(r) \in 0..(logEnd[Part(r)] - 1)
  BY <1>1, <1>2, InHand
<1>4. Offset(r) \in settled[Part(r)]
  BY <1>1, <1>2 DEF IInv, PipelineInv, CurrentFollows
<1>5. CASE CommitCurrent(m, w)
  <2>1. committed' = [committed EXCEPT ![Part(r)] = Offset(r) + 1]
    BY <1>1, <1>5 DEF CommitCurrent
  <2>2. logEnd[Part(r)] \in Nat BY <1>3 DEF IInv, TypeOK
  <2>3. Offset(r) + 1 \in 0..logEnd[Part(r)] BY <1>3, <2>2
  <2>4. SettledBelow(Part(r), Offset(r) + 1)
    BY <1>3, <1>4, SettledBelowCommitted
  <2>5. Promise!Commit(Part(r))
    BY <2>1, <2>3, <2>4 DEF Promise!Commit, Promise!SettledBelow, SettledBelow
  <2> QED BY <1>3, <2>5 DEF Promise!Next, Promise!Partitions, Partitions
<1>6. CASE UNCHANGED committed BY <1>6 DEF Promise!vars
<1> QED BY <1>5, <1>6

(* Every step of the consumer is a step of AtLeastOnce or changes nothing of it. *)
LEMMA NextMaps == IInv /\ [Next]_vars => [Promise!Next]_(Promise!vars)
<1> SUFFICES ASSUME IInv, [Next]_vars PROVE [Promise!Next]_(Promise!vars) OBVIOUS
<1>1. CASE UNCHANGED broker BY <1>1 DEF broker, Promise!vars
<1>2. ASSUME NEW p \in Partitions, Produce(p) PROVE [Promise!Next]_(Promise!vars)
  <2>1. Promise!Produce(p) BY <1>2 DEF Produce, Promise!Produce
  <2> QED BY <2>1 DEF Promise!Next, Promise!Partitions, Partitions
<1>3. ASSUME NEW m \in Members, NEW w \in WorkerIds, WorkerStep(m, w)
      PROVE  [Promise!Next]_(Promise!vars)
  <2>1. CASE HandlerSucceeds(m, w) \/ HandlerErrs(m, w) \/ DeadLetterSent(m, w)
                                                       \/ DeadLetterFails(m, w)
    <3>1. /\ worker[m][w].at \in InFlight
          /\ SettleCurrent(m, w) \/ UNCHANGED settled
          /\ UNCHANGED <<logEnd, committed>>
      BY <2>1 DEF HandlerSucceeds, HandlerErrs, DeadLetterSent, DeadLetterFails, At, InFlight
    <3> QED BY <3>1, SettleMaps
  <2>2. CASE CommitSucceeds(m, w) \/ CommitFails(m, w)
    BY <2>2, CommitMaps DEF CommitSucceeds, CommitFails
  <2>3. CASE Take(m, w) \/ WorkerExits(m, w) \/ HandlerRejects(m, w) \/ BackoffEnds(m, w)
    BY <1>1, <2>3 DEF Take, WorkerExits, HandlerRejects, BackoffEnds
  <2> QED BY <1>3, <2>1, <2>2, <2>3 DEF WorkerStep, HandlerReturns
<1>4. ASSUME NEW m \in Members, RunStep(m) PROVE UNCHANGED broker
  BY <1>4 DEF RunStep, EnterPoll, PollRecords, PollErrors, Dispatch, ReturnCancelled,
              ReturnError, Join
<1>5. ASSUME NEW m \in Members, Start(m) \/ Cancel(m) \/ Crash(m) \/ Close(m)
      PROVE  UNCHANGED broker
  BY <1>5 DEF Start, Cancel, Crash, Close, Vanish
<1>6. ASSUME NEW p \in Partitions, NEW m \in Members, Assign(p, m) PROVE UNCHANGED broker
  BY <1>6 DEF Assign
<1> QED BY <1>1, <1>2, <1>3, <1>4, <1>5, <1>6 DEF Next, vars

(* Whatever the replicas and the coordinator do, the log, the settled        *)
(* records and the committed offsets move as AtLeastOnce says they may.      *)
THEOREM KeepsPromise == Spec => PromiseKept
<1>1. Init => Promise!Init BY DEF Init, Promise!Init, Partitions, Promise!Partitions
<1> QED BY <1>1, IInvCorrect, NextMaps, PTL DEF Spec, PromiseKept, Promise!Spec

-----------------------------------------------------------------------------
(* Run's bargain with its goroutines.                                        *)

(* FailureReported is inductive beside IInv: errCh has room for an error of  *)
(* each goroutine, and Run leaves the loop with the first one it receives.   *)
(* JoinedBeforeReturn is so once it says that the goroutines have ended.     *)
Ended ==
  \A m \in Members : run[m] = "returned" =>
    \A w \in WorkerIds : worker[m][w] \in {Failed, Exited}

(* A step of a goroutine leaves its error behind if it is the last.          *)
LEMMA GoroutineReports ==
  ASSUME IInv, FailureReported, Ended, NEW m \in Members, NEW w \in WorkerIds,
         WorkerStep(m, w)
  PROVE  FailureReported' /\ Ended'
<1> USE DEF IInv, TypeOK
<1>1. worker[m][w] \notin {Failed, Exited}
  <2>1. \A s \in {Failed, Exited} : s # Idle /\ s.at \notin InFlight
    BY StateFields DEF InFlight, Failed, Exited, Idle
  <2>2. worker[m][w] = Idle \/ worker[m][w].at \in InFlight
    BY DEF WorkerStep, HandlerReturns, Take, WorkerExits, HandlerSucceeds, HandlerRejects,
           HandlerErrs, BackoffEnds, DeadLetterSent, DeadLetterFails, CommitSucceeds,
           CommitFails, At, InFlight
  <2> QED BY <2>1, <2>2
<1>2. UNCHANGED run
  BY DEF WorkerStep, HandlerReturns, Take, WorkerExits, HandlerSucceeds, HandlerRejects,
         HandlerErrs, BackoffEnds, DeadLetterSent, DeadLetterFails, CommitSucceeds,
         CommitFails
<1>3. run[m] # "returned" BY <1>1 DEF Ended
<1>4. /\ \A n \in Members, v \in WorkerIds : ~(n = m /\ v = w) => worker'[n][v] = worker[n][v]
      /\ \A n \in Members : n # m => errs'[n] = errs[n]
  BY DEF WorkerStep, HandlerReturns, Take, WorkerExits, HandlerSucceeds, HandlerRejects,
         HandlerErrs, BackoffEnds, DeadLetterSent, DeadLetterFails, CommitSucceeds,
         CommitFails, Becomes, Fail
<1>5. \/ Fail(m, w)
      \/ UNCHANGED errs /\ \E s : Becomes(m, w, s) /\ s # Failed
  <2>1. Idle # Failed /\ Exited # Failed /\ \A r : /\ Busy("handle", r) # Failed
                                                 /\ Busy("backoff", r) # Failed
                                                 /\ Busy("deadletter", r) # Failed
                                                 /\ Busy("commit", r) # Failed
    BY DEF Idle, Exited, Failed, Busy
  <2>2. CASE Take(m, w) BY <2>1, <2>2 DEF Take
  <2>3. CASE WorkerExits(m, w) BY <2>1, <2>3 DEF WorkerExits
  <2>4. CASE HandlerReturns(m, w)
    BY <2>1, <2>4 DEF HandlerReturns, HandlerSucceeds, HandlerRejects, HandlerErrs
  <2>5. CASE BackoffEnds(m, w) BY <2>1, <2>5 DEF BackoffEnds
  <2>6. CASE DeadLetterSent(m, w) \/ DeadLetterFails(m, w)
    BY <2>1, <2>6 DEF DeadLetterSent, DeadLetterFails
  <2>7. CASE CommitSucceeds(m, w) \/ CommitFails(m, w)
    BY <2>1, <2>7 DEF CommitSucceeds, CommitFails
  <2> QED BY <2>2, <2>3, <2>4, <2>5, <2>6, <2>7 DEF WorkerStep
<1>6. Ended' BY <1>2, <1>3, <1>4 DEF Ended
<1>7. CASE Fail(m, w)
  <2>1. errs'[m] > 0 BY <1>7, ConsumerAssumption DEF Fail, ErrCap
  <2> QED BY <1>2, <1>4, <1>6, <2>1 DEF FailureReported
<1>8. CASE UNCHANGED errs /\ \E s : Becomes(m, w, s) /\ s # Failed
  <2>1. worker'[m][w] # Failed BY <1>8 DEF Becomes
  <2> QED BY <1>2, <1>4, <1>6, <1>8, <2>1 DEF FailureReported
<1> QED BY <1>5, <1>7, <1>8

(* Both hold again after every step.                                         *)
LEMMA NextReports ==
  IInv /\ FailureReported /\ Ended /\ [Next]_vars => FailureReported' /\ Ended'
<1> SUFFICES ASSUME IInv, FailureReported, Ended, [Next]_vars
             PROVE  FailureReported' /\ Ended'
  OBVIOUS
<1> USE DEF IInv, TypeOK
<1>1. CASE UNCHANGED vars BY <1>1 DEF vars, FailureReported, Ended
<1>2. ASSUME NEW p \in Partitions, Produce(p) PROVE FailureReported' /\ Ended'
  BY <1>2 DEF Produce, FailureReported, Ended
<1>3. ASSUME NEW p \in Partitions, NEW m \in Members, Assign(p, m)
      PROVE  FailureReported' /\ Ended'
  BY <1>3 DEF Assign, FailureReported, Ended
<1>4. ASSUME NEW m \in Members, Start(m) PROVE FailureReported' /\ Ended'
  <2>1. worker[m] = AllIdle BY <1>4 DEF Start, PipelineInv, Quiescent, InGroup
  <2>2. \A w \in WorkerIds : worker[m][w] # Failed BY <2>1 DEF AllIdle, Idle, Failed
  <2>3. run'[m] = "loop" /\ UNCHANGED <<worker, errs>>
        /\ \A n \in Members : n # m => run'[n] = run[n]
    BY <1>4 DEF Start
  <2> QED BY <2>2, <2>3 DEF FailureReported, Ended
<1>5. ASSUME NEW m \in Members, Crash(m) \/ Close(m) PROVE FailureReported' /\ Ended'
  BY <1>5 DEF Crash, Close, Vanish, FailureReported, Ended, InLoop
<1>6. ASSUME NEW m \in Members, Cancel(m) PROVE FailureReported' /\ Ended'
  BY <1>6 DEF Cancel, FailureReported, Ended
<1>7. ASSUME NEW m \in Members, RunStep(m) PROVE FailureReported' /\ Ended'
  <2>1. CASE EnterPoll(m) \/ PollErrors(m) \/ PollRecords(m)
    BY <2>1 DEF EnterPoll, PollErrors, PollRecords, FailureReported, Ended, InLoop
  <2>2. ASSUME NEW p \in Partitions, Dispatch(m, p) PROVE FailureReported' /\ Ended'
    BY <2>2 DEF Dispatch, FailureReported, Ended, InLoop
  <2>3. CASE ReturnCancelled(m) \/ ReturnError(m)
    BY <2>3 DEF ReturnCancelled, ReturnError, LeaveLoop, FailureReported, Ended, InLoop
  <2>4. CASE Join(m) BY <2>4 DEF Join, FailureReported, Ended, InLoop
  <2> QED BY <1>7, <2>1, <2>2, <2>3, <2>4 DEF RunStep
<1>8. ASSUME NEW m \in Members, NEW w \in WorkerIds, WorkerStep(m, w)
      PROVE  FailureReported' /\ Ended'
  BY <1>8, GoroutineReports
<1> QED BY <1>1, <1>2, <1>3, <1>4, <1>5, <1>6, <1>7, <1>8 DEF Next

(* Both hold before the first step.                                          *)
LEMMA InitReports == Init => FailureReported /\ Ended
BY DEF Init, FailureReported, Ended, InLoop

(* While Run loops, a goroutine that gave up has an error in errCh: Run      *)
(* cannot be left sending to a channel that nobody receives from.            *)
THEOREM FailuresAreReported == Spec => []FailureReported
BY IInvCorrect, InitReports, NextReports, PTL DEF Spec

(* No goroutine is inside the handler or the client when Run has returned.   *)
THEOREM RunJoins == Spec => []JoinedBeforeReturn
<1>1. Ended => JoinedBeforeReturn
  BY StateFields DEF Ended, JoinedBeforeReturn, InFlight
<1> QED BY <1>1, IInvCorrect, InitReports, NextReports, PTL DEF Spec

-----------------------------------------------------------------------------
(* Commits never rewind while the coordinator moves no owned partition.      *)

(* A replica that has polled nothing holds nothing.                          *)
Empty(m) == jobs[m] = NoJobs /\ worker[m] = AllIdle /\ pending[m] = NoPending

(* A record stays ahead of the commits if its partition keeps its owner, its *)
(* committed offset and no more polled records than before.                  *)
LEMMA HeldKept ==
  ASSUME NEW m, NEW w, NEW r, HeldByOwner(m, w, r),
         owner'[Part(r)] = owner[Part(r)],
         committed'[Part(r)] = committed[Part(r)],
         position'[Part(r)] = position[Part(r)],
         pending'[m][Part(r)] \subseteq pending[m][Part(r)]
  PROVE  HeldByOwner(m, w, r)'
BY DEF HeldByOwner

(* The parts of AheadOfCommits, each about a record that stands for itself,  *)
(* so that they can be said of the next state too.                           *)
LEMMA AheadFacts ==
  ASSUME TypeOK, AheadOfCommits, NEW m \in Members, NEW w \in WorkerIds
  PROVE  /\ jobs[m][w] \in Seq(Records)
         /\ \A i \in 1..Len(jobs[m][w]) : \A r : r = jobs[m][w][i] =>
              /\ r \in Records /\ HeldByOwner(m, w, r)
              /\ \A j \in 1..(i - 1) : Before(jobs[m][w][j], r)
              /\ worker[m][w].at \in InFlight => Before(Current(m, w), r)
         /\ \A r : worker[m][w].at \in InFlight /\ r = Current(m, w) =>
              r \in Records /\ HeldByOwner(m, w, r)
<1>1. jobs[m][w] \in Seq(Records) BY DEF TypeOK
<1>2. worker[m][w].at \in InFlight => Current(m, w) \in Records
  BY StateFacts DEF TypeOK, Current
<1>3. \A i \in 1..Len(jobs[m][w]) : jobs[m][w][i] \in Records BY <1>1
<1> QED BY <1>1, <1>2, <1>3 DEF AheadOfCommits, QueueAhead, CurrentAhead

(* The queue of one goroutine in order, ahead of its record and of commits.  *)
QueueOf(m, w) ==
  \A i \in 1..Len(jobs[m][w]) :
    /\ HeldByOwner(m, w, jobs[m][w][i])
    /\ \A j \in 1..(i - 1) : Before(jobs[m][w][j], jobs[m][w][i])
    /\ worker[m][w].at \in InFlight => Before(Current(m, w), jobs[m][w][i])

(* A goroutine whose queue stays, and whose record stays or is let go of, is *)
(* as far ahead as before, when all that it holds is.                        *)
LEMMA QueueKept ==
  ASSUME TypeOK, AheadOfCommits, NEW m \in Members, NEW w \in WorkerIds,
         jobs'[m][w] = jobs[m][w],
         worker'[m][w].at \in InFlight =>
           worker[m][w].at \in InFlight /\ Current(m, w)' = Current(m, w),
         \A i \in 1..Len(jobs[m][w]) : \A r \in Records :
           r = jobs[m][w][i] /\ HeldByOwner(m, w, r) => HeldByOwner(m, w, r)'
  PROVE  QueueOf(m, w)'
<1> SUFFICES ASSUME NEW i \in 1..Len(jobs[m][w]), NEW r, r = jobs[m][w][i]
             PROVE  /\ HeldByOwner(m, w, r)'
                    /\ \A j \in 1..(i - 1) : Before(jobs[m][w][j], r)
                    /\ worker'[m][w].at \in InFlight => Before(Current(m, w), r)
  BY DEF QueueOf, HeldByOwner, Before
<1> QED BY AheadFacts

(* The steps that hand out no record and commit nothing, and the end of a    *)
(* replica: each replica keeps its queues and no other record, or ends with  *)
(* empty hands.                                                              *)
LEMMA KeptAhead ==
  ASSUME TypeOK, AheadOfCommits, UNCHANGED <<position, committed>>,
         \A p \in Partitions : owner'[p] \in {owner[p], None},
         \A n \in Members :
           \/ Empty(n)'
           \/ /\ jobs'[n] = jobs[n]
              /\ \A p \in Partitions : pending'[n][p] \subseteq pending[n][p]
              /\ \A p \in Partitions : owner[p] = n => owner'[p] = n
              /\ \A w \in WorkerIds : worker'[n][w].at \in InFlight =>
                   worker[n][w].at \in InFlight /\ Current(n, w)' = Current(n, w)
  PROVE  AheadOfCommits'
<1>1. \A n \in Members : Empty(n)' =>
        /\ \A w \in WorkerIds : jobs'[n][w] = <<>> /\ worker'[n][w].at \notin InFlight
        /\ \A p \in Partitions : pending'[n][p] = {}
  BY StateFields DEF Empty, NoJobs, AllIdle, NoPending, InFlight
<1>2. ASSUME NEW n \in Members, NEW w \in WorkerIds, NEW r \in Records, ~Empty(n)',
             HeldByOwner(n, w, r)
      PROVE  HeldByOwner(n, w, r)'
  <2>1. Part(r) \in Partitions BY StateFacts
  <2>2. owner[Part(r)] = n BY <1>2 DEF HeldByOwner
  <2> QED BY <1>2, <2>1, <2>2, HeldKept
<1>3. QueueAhead'
  <2> SUFFICES ASSUME NEW n \in Members, NEW w \in WorkerIds PROVE QueueOf(n, w)'
    BY DEF QueueAhead, QueueOf
  <2>1. CASE Empty(n)' BY <1>1, <2>1 DEF QueueOf
  <2>2. CASE ~Empty(n)' BY <1>2, <2>2, QueueKept
  <2> QED BY <2>1, <2>2
<1>4. CurrentAhead'
  <2> SUFFICES ASSUME NEW n \in Members, NEW w \in WorkerIds,
                      worker'[n][w].at \in InFlight, NEW r, r = Current(n, w)'
               PROVE  HeldByOwner(n, w, r)'
    BY DEF CurrentAhead, HeldByOwner
  <2>1. ~Empty(n)' BY <1>1
  <2>2. r \in Records /\ HeldByOwner(n, w, r) BY <2>1, AheadFacts
  <2> QED BY <1>2, <2>1, <2>2
<1>5. PendingAhead'
  <2> SUFFICES ASSUME NEW n \in Members, NEW p \in Partitions, NEW o \in pending'[n][p]
               PROVE  owner'[p] = n /\ o \in committed[p]..(position[p] - 1)
    BY DEF PendingAhead
  <2>1. ~Empty(n)' BY <1>1
  <2>2. o \in pending[n][p] BY <2>1
  <2> QED BY <2>1, <2>2 DEF AheadOfCommits, PendingAhead
<1>6. PositionAhead' BY DEF AheadOfCommits, PositionAhead
<1> QED BY <1>3, <1>4, <1>5, <1>6 DEF AheadOfCommits

(* An unowned partition is given away: no replica still holds a record of it.*)
LEMMA AssignAhead ==
  ASSUME TypeOK, AheadOfCommits, ~Rebalancing, NEW p \in Partitions, NEW m \in Members,
         Assign(p, m)
  PROVE  AheadOfCommits'
<1>1. /\ UNCHANGED <<broker, run, cancelled, pending, jobs, errs, worker>>
      /\ owner[p] = None
      /\ owner' = [owner EXCEPT ![p] = m]
      /\ position' = [position EXCEPT ![p] = committed[p]]
  BY DEF Assign
<1>2. \A n \in Members : owner[p] # n BY <1>1, ConsumerAssumption
<1>3. \A q \in Partitions : q # p => owner'[q] = owner[q] /\ position'[q] = position[q]
  BY <1>1 DEF TypeOK
<1>4. ASSUME NEW n \in Members, NEW w \in WorkerIds, NEW r \in Records, HeldByOwner(n, w, r)
      PROVE  HeldByOwner(n, w, r)'
  <2>1. Part(r) \in Partitions BY StateFacts
  <2>2. Part(r) # p BY <1>2, <1>4 DEF HeldByOwner
  <2> QED BY <1>1, <1>3, <1>4, <2>1, <2>2, HeldKept DEF broker
<1>5. QueueAhead'
  <2> SUFFICES ASSUME NEW n \in Members, NEW w \in WorkerIds PROVE QueueOf(n, w)'
    BY DEF QueueAhead, QueueOf
  <2> QED BY <1>1, <1>4, QueueKept DEF Current
<1>6. CurrentAhead'
  <2> SUFFICES ASSUME NEW n \in Members, NEW w \in WorkerIds,
                      worker[n][w].at \in InFlight, NEW r, r = Current(n, w)
               PROVE  HeldByOwner(n, w, r)'
    BY <1>1 DEF CurrentAhead, HeldByOwner, Current
  <2> QED BY <1>4, AheadFacts
<1>7. PendingAhead'
  <2> SUFFICES ASSUME NEW n \in Members, NEW q \in Partitions, NEW o \in pending[n][q]
               PROVE  owner'[q] = n /\ o \in committed[q]..(position'[q] - 1)
    BY <1>1 DEF PendingAhead, broker
  <2>1. owner[q] = n /\ o \in committed[q]..(position[q] - 1)
    BY DEF AheadOfCommits, PendingAhead
  <2> QED BY <1>2, <1>3, <2>1
<1>8. PositionAhead'
  <2> SUFFICES ASSUME NEW q \in Partitions, owner'[q] # None
               PROVE  committed[q] <= position'[q]
    BY <1>1 DEF PositionAhead, broker
  <2>1. CASE q = p BY <1>1, <2>1 DEF TypeOK
  <2>2. CASE q # p BY <1>3, <2>2 DEF AheadOfCommits, PositionAhead
  <2> QED BY <2>1, <2>2
<1> QED BY <1>5, <1>6, <1>7, <1>8 DEF AheadOfCommits

(* A poll moves the position past what it returns, and returns nothing that  *)
(* was polled before.                                                        *)
LEMMA PollAhead ==
  ASSUME IInv, AheadOfCommits, NEW m \in Members, PollRecords(m)
  PROVE  AheadOfCommits'
<1> USE DEF IInv
<1>1. PICK upto \in [Partitions -> 0..MaxOffset] :
        /\ \A p \in Partitions :
             IF owner[p] = m THEN upto[p] \in position[p]..logEnd[p]
                             ELSE upto[p] = position[p]
        /\ position' = upto
        /\ pending' = [pending EXCEPT ![m] =
                         [p \in Partitions |-> position[p]..(upto[p] - 1)]]
  BY DEF PollRecords
<1>2. UNCHANGED <<committed, owner, jobs, worker>> BY DEF PollRecords, broker
<1>3. \A n \in Members : n # m => pending'[n] = pending[n] BY <1>1 DEF TypeOK
<1>4. \A p \in Partitions : pending'[m][p] = position[p]..(upto[p] - 1)
  BY <1>1 DEF TypeOK
<1>5. \A p \in Partitions :
        /\ position[p] \in Nat /\ upto[p] \in Nat /\ committed[p] \in Nat
        /\ logEnd[p] \in Nat /\ position[p] <= upto[p]
        /\ owner[p] # m => upto[p] = position[p]
  BY <1>1, ConsumerAssumption DEF TypeOK
<1>6. ASSUME NEW n \in Members, NEW w \in WorkerIds, NEW r \in Records, HeldByOwner(n, w, r)
      PROVE  HeldByOwner(n, w, r)'
  <2>1. Part(r) \in Partitions /\ Offset(r) \in Nat BY StateFacts
  <2>2. owner[Part(r)] = n BY <1>6 DEF HeldByOwner
  <2>3. CASE n = m
    <3>1. Offset(r) \in committed[Part(r)]..(upto[Part(r)] - 1)
      BY <1>5, <1>6, <2>1 DEF HeldByOwner
    <3>2. \A o \in pending'[n][Part(r)] : Offset(r) < o
      BY <1>4, <1>5, <1>6, <2>1, <2>3 DEF HeldByOwner
    <3> QED BY <1>1, <1>2, <1>6, <3>1, <3>2 DEF HeldByOwner
  <2>4. CASE n # m
    BY <1>1, <1>2, <1>3, <1>5, <1>6, <2>1, <2>2, <2>4, HeldKept
  <2> QED BY <2>3, <2>4
<1>7. QueueAhead'
  <2> SUFFICES ASSUME NEW n \in Members, NEW w \in WorkerIds PROVE QueueOf(n, w)'
    BY DEF QueueAhead, QueueOf
  <2> QED BY <1>2, <1>6, QueueKept DEF Current
<1>8. CurrentAhead'
  <2> SUFFICES ASSUME NEW n \in Members, NEW w \in WorkerIds,
                      worker[n][w].at \in InFlight, NEW r, r = Current(n, w)
               PROVE  HeldByOwner(n, w, r)'
    BY <1>2 DEF CurrentAhead, HeldByOwner, Current
  <2> QED BY <1>6, AheadFacts
<1>9. PendingAhead'
  <2> SUFFICES ASSUME NEW n \in Members, NEW p \in Partitions, NEW o \in pending'[n][p]
               PROVE  owner[p] = n /\ o \in committed[p]..(upto[p] - 1)
    BY <1>1, <1>2 DEF PendingAhead
  <2>1. CASE n = m
    <3>1. o \in position[p]..(upto[p] - 1) BY <1>4, <2>1
    <3>2. owner[p] = m BY <1>5, <3>1
    <3>3. committed[p] <= position[p]
      BY <3>2, ConsumerAssumption DEF AheadOfCommits, PositionAhead
    <3> QED BY <1>5, <2>1, <3>1, <3>2, <3>3
  <2>2. CASE n # m
    <3>1. owner[p] = n /\ o \in committed[p]..(position[p] - 1)
      BY <1>3, <2>2 DEF AheadOfCommits, PendingAhead
    <3> QED BY <1>5, <2>2, <3>1
  <2> QED BY <2>1, <2>2
<1>10. PositionAhead' BY <1>1, <1>2, <1>5 DEF AheadOfCommits, PositionAhead
<1> QED BY <1>7, <1>8, <1>9, <1>10 DEF AheadOfCommits

(* The oldest polled record joins the queue it belongs to, behind the others.*)
LEMMA DispatchAhead ==
  ASSUME TypeOK, AheadOfCommits, NEW m \in Members, NEW p \in Partitions, Dispatch(m, p)
  PROVE  AheadOfCommits'
<1> DEFINE w == WorkerOf(p)
           old == jobs[m][w]
           len == Len(old)
<1>1. PICK o \in pending[m][p] :
        /\ \A q \in pending[m][p] : o <= q
        /\ jobs' = [jobs EXCEPT ![m][w] = Append(@, <<p, o>>)]
        /\ pending' = [pending EXCEPT ![m][p] = @ \ {o}]
  BY DEF Dispatch
<1>2. UNCHANGED <<committed, owner, position, worker>>
  BY DEF Dispatch, broker, group
<1>3. w \in WorkerIds /\ o \in Nat /\ <<p, o>> \in Records
  BY ConstantFacts DEF TypeOK, Records
<1>4. old \in Seq(Records) /\ len \in Nat BY <1>3 DEF TypeOK
<1>5. /\ jobs'[m][w] = Append(old, <<p, o>>)
      /\ \A n \in Members, v \in WorkerIds : ~(n = m /\ v = w) => jobs'[n][v] = jobs[n][v]
  BY <1>1, <1>3 DEF TypeOK
<1>6. /\ Len(jobs'[m][w]) = len + 1
      /\ jobs'[m][w][len + 1] = <<p, o>>
      /\ \A i \in 1..len : jobs'[m][w][i] = old[i]
  BY <1>3, <1>4, <1>5
<1>7. /\ \A n \in Members, q \in Partitions : pending'[n][q] \subseteq pending[n][q]
      /\ pending'[m][p] = pending[m][p] \ {o}
  BY <1>1 DEF TypeOK
<1>8. ASSUME NEW n \in Members, NEW v \in WorkerIds, NEW r \in Records, HeldByOwner(n, v, r)
      PROVE  HeldByOwner(n, v, r)'
  <2>1. Part(r) \in Partitions BY StateFacts
  <2> QED BY <1>2, <1>7, <1>8, <2>1, HeldKept
<1>9. PICK s \in Records : s = <<p, o>> BY <1>3
<1>10. Part(s) = p /\ Offset(s) = o BY <1>9 DEF Part, Offset
<1>11. HeldByOwner(m, w, s)'
  <2>1. owner[p] = m /\ o \in committed[p]..(position[p] - 1)
    BY DEF AheadOfCommits, PendingAhead
  <2>2. \A q \in pending'[m][p] : o < q BY <1>1, <1>3, <1>7 DEF TypeOK
  <2> QED BY <1>2, <1>10, <2>1, <2>2 DEF HeldByOwner, w
<1> HIDE DEF w
<1>12. QueueOf(m, w)'
  <2> SUFFICES ASSUME NEW i \in 1..(len + 1), NEW r, r = jobs'[m][w][i]
               PROVE  /\ HeldByOwner(m, w, r)'
                      /\ \A j \in 1..(i - 1) : Before(jobs'[m][w][j], r)
                      /\ worker[m][w].at \in InFlight => Before(Current(m, w), r)
    BY <1>2, <1>6 DEF QueueOf, HeldByOwner, Before, Current
  <2>1. CASE i \in 1..len
    <3>1. r = jobs[m][w][i] /\ \A j \in 1..(i - 1) : jobs'[m][w][j] = jobs[m][w][j]
      BY <1>4, <1>6, <2>1
    <3> QED BY <1>3, <1>8, <2>1, <3>1, AheadFacts
  <2>2. CASE i = len + 1
    <3>1. r = s /\ i - 1 = len BY <1>4, <1>6, <1>9, <2>2
    <3>2. \A x : HeldByOwner(m, w, x) => Before(x, s)
      BY <1>10 DEF HeldByOwner, Before
    <3>3. \A j \in 1..len : jobs'[m][w][j] = jobs[m][w][j] /\ HeldByOwner(m, w, jobs[m][w][j])
      BY <1>3, <1>6, AheadFacts
    <3>4. worker[m][w].at \in InFlight => HeldByOwner(m, w, Current(m, w))
      BY <1>3, AheadFacts
    <3> QED BY <1>11, <3>1, <3>2, <3>3, <3>4
  <2> QED BY <1>4, <2>1, <2>2
<1>13. QueueAhead'
  <2> SUFFICES ASSUME NEW n \in Members, NEW v \in WorkerIds PROVE QueueOf(n, v)'
    BY DEF QueueAhead, QueueOf
  <2>1. CASE n = m /\ v = w BY <1>12, <2>1
  <2>2. CASE ~(n = m /\ v = w) BY <1>2, <1>5, <1>8, <2>2, QueueKept DEF Current
  <2> QED BY <2>1, <2>2
<1>14. CurrentAhead'
  <2> SUFFICES ASSUME NEW n \in Members, NEW v \in WorkerIds,
                      worker[n][v].at \in InFlight, NEW r, r = Current(n, v)
               PROVE  HeldByOwner(n, v, r)'
    BY <1>2 DEF CurrentAhead, HeldByOwner, Current
  <2> QED BY <1>8, AheadFacts
<1>15. PendingAhead' /\ PositionAhead'
  BY <1>2, <1>7 DEF AheadOfCommits, PendingAhead, PositionAhead
<1> QED BY <1>13, <1>14, <1>15 DEF AheadOfCommits

(* The head of the queue becomes the record in hand, before all the others.  *)
LEMMA TakeAhead ==
  ASSUME TypeOK, AheadOfCommits, NEW m \in Members, NEW w \in WorkerIds, Take(m, w)
  PROVE  AheadOfCommits'
<1> DEFINE old == jobs[m][w]
           len == Len(old)
           head == Head(old)
<1>1. /\ UNCHANGED <<committed, owner, position, pending>>
      /\ worker[m][w] = Idle /\ old # <<>>
      /\ jobs' = [jobs EXCEPT ![m][w] = Tail(@)]
      /\ Becomes(m, w, IF cancelled[m] THEN Idle ELSE Busy("handle", head))
  BY DEF Take, broker, group
<1>2. old \in Seq(Records) /\ len \in Nat \ {0} /\ head = old[1]
  BY <1>1 DEF TypeOK
<1>3. jobs'[m][w] = Tail(old) BY <1>1 DEF TypeOK
<1>4. /\ Len(jobs'[m][w]) = len - 1
      /\ \A i \in 1..(len - 1) : jobs'[m][w][i] = old[i + 1]
  BY <1>2, <1>3
<1>5. \A n \in Members, v \in WorkerIds : ~(n = m /\ v = w) =>
        jobs'[n][v] = jobs[n][v] /\ worker'[n][v] = worker[n][v]
  BY <1>1 DEF TypeOK, Becomes
<1>6. worker'[m][w].at \in InFlight => Current(m, w)' = head
  BY <1>1, StateFields DEF TypeOK, Becomes, Current, InFlight
<1>7. ASSUME NEW n \in Members, NEW v \in WorkerIds, NEW r \in Records, HeldByOwner(n, v, r)
      PROVE  HeldByOwner(n, v, r)'
  BY <1>1, <1>7, HeldKept
<1> HIDE DEF head
<1>8. QueueOf(m, w)'
  <2> SUFFICES ASSUME NEW i \in 1..(len - 1), NEW r, r = jobs'[m][w][i]
               PROVE  /\ HeldByOwner(m, w, r)'
                      /\ \A j \in 1..(i - 1) : Before(jobs'[m][w][j], r)
                      /\ worker'[m][w].at \in InFlight => Before(Current(m, w)', r)
    BY <1>4 DEF QueueOf, HeldByOwner, Before, Current
  <2>1. i + 1 \in 1..len /\ r = old[i + 1] /\ (i + 1) - 1 = i BY <1>2, <1>4
  <2>2. HeldByOwner(m, w, r)' BY <1>7, <2>1, AheadFacts
  <2>3. \A j \in 1..i : Before(old[j], r) BY <2>1, AheadFacts
  <2>4. \A j \in 1..(i - 1) : j + 1 \in 1..i /\ jobs'[m][w][j] = old[j + 1]
    BY <1>2, <1>4
  <2>5. Before(head, r) BY <1>2, <2>3
  <2> QED BY <1>6, <2>2, <2>3, <2>4, <2>5
<1>9. QueueAhead'
  <2> SUFFICES ASSUME NEW n \in Members, NEW v \in WorkerIds PROVE QueueOf(n, v)'
    BY DEF QueueAhead, QueueOf
  <2>1. CASE n = m /\ v = w BY <1>8, <2>1
  <2>2. CASE ~(n = m /\ v = w) BY <1>5, <1>7, <2>2, QueueKept DEF Current
  <2> QED BY <2>1, <2>2
<1>10. CurrentAhead'
  <2> SUFFICES ASSUME NEW n \in Members, NEW v \in WorkerIds,
                      worker'[n][v].at \in InFlight, NEW r, r = Current(n, v)'
               PROVE  HeldByOwner(n, v, r)'
    BY DEF CurrentAhead, HeldByOwner
  <2>1. CASE n = m /\ v = w
    <3>1. r = old[1] /\ 1 \in 1..len BY <1>2, <1>6, <2>1
    <3> QED BY <1>7, <2>1, <3>1, AheadFacts
  <2>2. CASE ~(n = m /\ v = w)
    <3>1. worker[n][v].at \in InFlight /\ r = Current(n, v) BY <1>5, <2>2 DEF Current
    <3> QED BY <1>7, <3>1, AheadFacts
  <2> QED BY <2>1, <2>2
<1>11. PendingAhead' /\ PositionAhead'
  BY <1>1 DEF AheadOfCommits, PendingAhead, PositionAhead
<1> QED BY <1>9, <1>10, <1>11 DEF AheadOfCommits

(* A commit passes the record in hand, and no other record of its partition: *)
(* these are behind it in the same queue or polled after it.                 *)
LEMMA CommitAhead ==
  ASSUME TypeOK, AheadOfCommits, NEW m \in Members, NEW w \in WorkerIds,
         worker[m][w].at \in InFlight, CommitCurrent(m, w),
         UNCHANGED <<owner, position, pending, jobs>>,
         NEW s, Becomes(m, w, s), s.at \notin InFlight
  PROVE  /\ AheadOfCommits'
         /\ \A p \in Partitions : committed'[p] >= committed[p]
<1>1. PICK c : c = Current(m, w) OBVIOUS
<1>2. c \in Records /\ HeldByOwner(m, w, c) BY <1>1, AheadFacts
<1>3. Part(c) \in Partitions /\ Offset(c) \in Nat BY <1>2, StateFacts
<1>4. /\ committed'[Part(c)] = Offset(c) + 1
      /\ \A p \in Partitions : p # Part(c) => committed'[p] = committed[p]
  BY <1>1, <1>3 DEF CommitCurrent, TypeOK
<1>5. /\ owner[Part(c)] = m /\ w = WorkerOf(Part(c))
      /\ Offset(c) \in committed[Part(c)]..(position[Part(c)] - 1)
      /\ \A o \in pending[m][Part(c)] : Offset(c) < o
  BY <1>2 DEF HeldByOwner
<1>6. worker'[m][w].at \notin InFlight
      /\ \A n \in Members, v \in WorkerIds : ~(n = m /\ v = w) => worker'[n][v] = worker[n][v]
  BY DEF Becomes, TypeOK
<1>7. ASSUME NEW n \in Members, NEW v \in WorkerIds, NEW r \in Records, HeldByOwner(n, v, r),
             n = m /\ v = w => Before(c, r)
      PROVE  HeldByOwner(n, v, r)'
  <2>1. Part(r) \in Partitions /\ Offset(r) \in Nat BY StateFacts
  <2>2. CASE Part(r) = Part(c)
    <3>1. n = m /\ v = w BY <1>5, <1>7, <2>2 DEF HeldByOwner
    <3>2. Offset(r) \in (Offset(c) + 1)..(position[Part(c)] - 1)
      BY <1>3, <1>7, <2>1, <2>2, <3>1 DEF Before, HeldByOwner, TypeOK
    <3> QED BY <1>4, <1>7, <2>2, <3>2 DEF HeldByOwner
  <2>3. CASE Part(r) # Part(c) BY <1>4, <1>7, <2>1, <2>3, HeldKept
  <2> QED BY <2>2, <2>3
<1>8. QueueAhead'
  <2> SUFFICES ASSUME NEW n \in Members, NEW v \in WorkerIds PROVE QueueOf(n, v)'
    BY DEF QueueAhead, QueueOf
  <2>1. \A i \in 1..Len(jobs[n][v]) : n = m /\ v = w => Before(c, jobs[n][v][i])
    BY <1>1, AheadFacts
  <2> QED BY <1>6, <1>7, <2>1, QueueKept DEF Current
<1>9. CurrentAhead'
  <2> SUFFICES ASSUME NEW n \in Members, NEW v \in WorkerIds,
                      worker'[n][v].at \in InFlight, NEW r, r = Current(n, v)'
               PROVE  HeldByOwner(n, v, r)'
    BY DEF CurrentAhead, HeldByOwner
  <2>1. ~(n = m /\ v = w) BY <1>6
  <2>2. worker[n][v].at \in InFlight /\ r = Current(n, v) BY <1>6, <2>1 DEF Current
  <2> QED BY <1>7, <2>1, <2>2, AheadFacts
<1>10. PendingAhead'
  <2> SUFFICES ASSUME NEW n \in Members, NEW p \in Partitions, NEW o \in pending[n][p]
               PROVE  owner[p] = n /\ o \in committed'[p]..(position[p] - 1)
    BY DEF PendingAhead
  <2>1. owner[p] = n /\ o \in committed[p]..(position[p] - 1)
    BY DEF AheadOfCommits, PendingAhead
  <2>2. CASE p = Part(c) BY <1>3, <1>4, <1>5, <2>1, <2>2 DEF TypeOK
  <2>3. CASE p # Part(c) BY <1>4, <2>1, <2>3
  <2> QED BY <2>2, <2>3
<1>11. PositionAhead'
  <2> SUFFICES ASSUME NEW p \in Partitions, owner[p] # None PROVE committed'[p] <= position[p]
    BY DEF PositionAhead
  <2>1. committed[p] <= position[p] BY DEF AheadOfCommits, PositionAhead
  <2>2. position[p] \in Nat /\ committed[p] \in Nat BY DEF TypeOK
  <2> QED BY <1>3, <1>4, <1>5, <2>1, <2>2
<1>12. \A p \in Partitions : committed'[p] >= committed[p]
  <2> SUFFICES ASSUME NEW p \in Partitions PROVE committed'[p] >= committed[p] OBVIOUS
  <2>1. committed[p] \in Nat BY DEF TypeOK
  <2>2. CASE p = Part(c) BY <1>3, <1>4, <1>5, <2>1, <2>2
  <2>3. CASE p # Part(c) BY <1>4, <2>1, <2>3
  <2> QED BY <2>2, <2>3
<1> QED BY <1>8, <1>9, <1>10, <1>11, <1>12 DEF AheadOfCommits

(* The steps of a goroutine.                                                 *)
LEMMA GoroutineAhead ==
  ASSUME TypeOK, AheadOfCommits, NEW m \in Members, NEW w \in WorkerIds, WorkerStep(m, w)
  PROVE  /\ AheadOfCommits'
         /\ \A p \in Partitions : committed'[p] >= committed[p]
<1>1. CASE Take(m, w)
  <2>1. AheadOfCommits' BY <1>1, TakeAhead
  <2>2. UNCHANGED committed BY <1>1 DEF Take, broker
  <2>3. \A p \in Partitions : committed[p] >= committed[p] BY DEF TypeOK
  <2> QED BY <2>1, <2>2, <2>3
<1>2. ASSUME CommitCurrent(m, w), CommitSucceeds(m, w) \/ CommitFails(m, w)
      PROVE  /\ AheadOfCommits'
             /\ \A p \in Partitions : committed'[p] >= committed[p]
  <2>1. /\ worker[m][w].at \in InFlight
        /\ UNCHANGED <<owner, position, pending, jobs>>
        /\ Becomes(m, w, Idle) \/ Becomes(m, w, Failed)
    BY <1>2 DEF CommitSucceeds, CommitFails, At, InFlight, group, Fail
  <2>2. Idle.at \notin InFlight /\ Failed.at \notin InFlight BY StateFields DEF InFlight
  <2> QED BY <1>2, <2>1, <2>2, CommitAhead
<1>3. ASSUME UNCHANGED <<owner, position, committed, jobs, pending>>,
             NEW s, Becomes(m, w, s),
             s.at \in InFlight => worker[m][w].at \in InFlight /\ s.rec = Current(m, w)
      PROVE  /\ AheadOfCommits'
             /\ \A p \in Partitions : committed'[p] >= committed[p]
  <2>1. worker'[m][w] = s /\ \A n \in Members, v \in WorkerIds :
          ~(n = m /\ v = w) => worker'[n][v] = worker[n][v]
    BY <1>3 DEF Becomes, TypeOK
  <2>2. ASSUME NEW n \in Members, NEW v \in WorkerIds, worker'[n][v].at \in InFlight
        PROVE  worker[n][v].at \in InFlight /\ Current(n, v)' = Current(n, v)
    <3>1. CASE n = m /\ v = w BY <1>3, <2>1, <2>2, <3>1 DEF Current
    <3>2. CASE ~(n = m /\ v = w) BY <2>1, <2>2, <3>2 DEF Current
    <3> QED BY <3>1, <3>2
  <2>3. AheadOfCommits' BY <1>3, <2>2, KeptAhead
  <2> QED BY <1>3, <2>3 DEF TypeOK
<1> DEFINE Quiet == /\ UNCHANGED <<owner, position, committed, jobs, pending>>
                    /\ worker[m][w].at \in InFlight
                    /\ \/ Becomes(m, w, Idle) \/ Becomes(m, w, Failed)
                       \/ \E step \in InFlight : Becomes(m, w, Busy(step, Current(m, w)))
<1>4. ASSUME Quiet
      PROVE  /\ AheadOfCommits'
             /\ \A p \in Partitions : committed'[p] >= committed[p]
  <2>1. Idle.at \notin InFlight /\ Failed.at \notin InFlight BY StateFields DEF InFlight
  <2>2. \A step : Busy(step, Current(m, w)).rec = Current(m, w) BY StateFields
  <2> QED BY <1>3, <1>4, <2>1, <2>2
<1>5. CASE WorkerExits(m, w)
  <2>1. Exited.at \notin InFlight BY StateFields DEF InFlight
  <2> QED BY <1>3, <1>5, <2>1 DEF WorkerExits, broker, group
<1>6. HandlerReturns(m, w) => Quiet
  BY DEF HandlerReturns, HandlerSucceeds, HandlerRejects, HandlerErrs, At, InFlight,
         broker, group
<1>7. BackoffEnds(m, w) => Quiet BY DEF BackoffEnds, At, InFlight, broker, group
<1>8. DeadLetterSent(m, w) \/ DeadLetterFails(m, w) => Quiet
  BY DEF DeadLetterSent, DeadLetterFails, At, InFlight, Fail, broker, group
<1>9. (CommitSucceeds(m, w) \/ CommitFails(m, w)) /\ ~CommitCurrent(m, w) => Quiet
  BY DEF CommitSucceeds, CommitFails, At, InFlight, Fail, broker, group
<1> QED BY <1>1, <1>2, <1>4, <1>5, <1>6, <1>7, <1>8, <1>9 DEF WorkerStep

(* Every step keeps the invariant and takes no committed offset back.        *)
LEMMA NextAhead ==
  ASSUME ~Rebalancing, IInv, AheadOfCommits, [Next]_vars
  PROVE  /\ AheadOfCommits'
         /\ \A p \in Partitions : committed'[p] >= committed[p]
<1> USE DEF IInv
<1>1. \A p \in Partitions : committed[p] >= committed[p] BY DEF TypeOK
<1>2. ASSUME UNCHANGED <<owner, position, committed, jobs, worker>>,
             \A n \in Members, p \in Partitions : pending'[n][p] \subseteq pending[n][p]
      PROVE  AheadOfCommits'
  BY <1>2, KeptAhead DEF Current
<1>3. CASE UNCHANGED vars BY <1>1, <1>2, <1>3 DEF vars, broker, group
<1>4. ASSUME NEW p \in Partitions, Produce(p)
      PROVE  AheadOfCommits' /\ UNCHANGED committed
  BY <1>2, <1>4 DEF Produce, group
<1>5. ASSUME NEW p \in Partitions, NEW m \in Members, Assign(p, m)
      PROVE  AheadOfCommits' /\ UNCHANGED committed
  BY <1>5, AssignAhead DEF Assign, broker
<1>6. ASSUME NEW m \in Members, Start(m) \/ Cancel(m)
      PROVE  AheadOfCommits' /\ UNCHANGED committed
  BY <1>2, <1>6 DEF Start, Cancel, broker, group
<1>7. ASSUME NEW m \in Members, Crash(m) \/ Close(m)
      PROVE  AheadOfCommits' /\ UNCHANGED committed
  <2>1. Vanish(m) BY <1>7 DEF Crash, Close
  <2>2. UNCHANGED <<position, committed>> BY <2>1 DEF Vanish, broker
  <2>3. Empty(m)' BY <2>1 DEF Vanish, Empty, TypeOK
  <2>4. \A p \in Partitions : owner'[p] = IF owner[p] = m THEN None ELSE owner[p]
    BY <2>1 DEF Vanish
  <2>5. \A n \in Members : n # m =>
          jobs'[n] = jobs[n] /\ worker'[n] = worker[n] /\ pending'[n] = pending[n]
    BY <2>1 DEF Vanish, TypeOK
  <2> QED BY <2>2, <2>3, <2>4, <2>5, KeptAhead DEF Current
<1>8. ASSUME NEW m \in Members, RunStep(m)
      PROVE  AheadOfCommits' /\ UNCHANGED committed
  <2>1. CASE EnterPoll(m) \/ PollErrors(m) \/ Join(m)
    BY <1>2, <2>1 DEF EnterPoll, PollErrors, Join, broker, group
  <2>2. CASE PollRecords(m) BY <2>2, PollAhead DEF PollRecords, broker
  <2>3. ASSUME NEW p \in Partitions, Dispatch(m, p)
        PROVE  AheadOfCommits' /\ UNCHANGED committed
    BY <2>3, DispatchAhead DEF Dispatch, broker
  <2>4. CASE ReturnCancelled(m) \/ ReturnError(m)
    <3>1. LeaveLoop(m) /\ UNCHANGED <<broker, group, jobs, worker>>
      BY <2>4 DEF ReturnCancelled, ReturnError
    <3>2. \A n \in Members, p \in Partitions : pending'[n][p] \subseteq pending[n][p]
      BY <3>1 DEF LeaveLoop, NoPending, TypeOK
    <3> QED BY <1>2, <3>1, <3>2 DEF broker, group
  <2> QED BY <1>8, <2>1, <2>2, <2>3, <2>4 DEF RunStep
<1>9. ASSUME NEW m \in Members, NEW w \in WorkerIds, WorkerStep(m, w)
      PROVE  /\ AheadOfCommits'
             /\ \A p \in Partitions : committed'[p] >= committed[p]
  BY <1>9, GoroutineAhead
<1> QED BY <1>1, <1>3, <1>4, <1>5, <1>6, <1>7, <1>8, <1>9 DEF Next

(* Nothing is held before the first step.                                    *)
LEMMA InitAhead == Init => AheadOfCommits
BY StateFields
DEF Init, AheadOfCommits, QueueAhead, CurrentAhead, PendingAhead, PositionAhead, NoJobs,
    NoPending, AllIdle, InFlight

(* As long as the coordinator moves no owned partition, only the owner of a  *)
(* partition works on it, on one goroutine and in order, and ahead of what   *)
(* the group has committed; crashes, restarts and lost replies included.     *)
THEOREM OwnerWorksAlone == ASSUME ~Rebalancing PROVE Spec => []AheadOfCommits
BY InitAhead, NextAhead, IInvCorrect, PTL DEF Spec

(* So that no commit takes the group back to what it had passed.             *)
THEOREM CommitsAdvance == ASSUME ~Rebalancing PROVE Spec => CommitNeverRewinds
<1>1. IInv /\ AheadOfCommits /\ [Next]_vars =>
        [\A p \in Partitions : committed'[p] >= committed[p]]_vars
  BY NextAhead
<1> QED BY <1>1, IInvCorrect, OwnerWorksAlone, PTL DEF Spec, CommitNeverRewinds
=============================================================================
