------------------------------ MODULE Consumer ------------------------------
(* stream.Consumer: one consumer group on one topic, run by several service  *)
(* replicas.  A replica's Run polls, and hands each record to the worker     *)
(* goroutine that serves the record's partition; the worker calls the        *)
(* handler until it has a verdict, dead-letters what can never succeed and   *)
(* commits the offset.  Kafka's side (log, committed offsets, ownership of   *)
(* partitions) is modelled as far as the client library shows it to Run.     *)
EXTENDS Integers, Sequences

CONSTANTS Members,       \* service replicas, each with one Consumer
          NumPartitions, \* partitions of the topic
          Workers,       \* goroutines per Consumer
          ChanCap,       \* capacity of a jobs channel (32 in the code)
          MaxOffset,     \* bound on the records of a partition
          Rebalancing,   \* may the coordinator move an owned partition?
          None           \* no owner, no record

ASSUME ConsumerAssumption ==
  /\ NumPartitions \in Nat \ {0}
  /\ Workers \in Nat \ {0}
  /\ ChanCap \in Nat \ {0}
  /\ MaxOffset \in Nat
  /\ Rebalancing \in BOOLEAN
  /\ None \notin Members
  /\ None \notin (0..(NumPartitions - 1)) \X Nat

Partitions == 0..(NumPartitions - 1)
WorkerIds == 0..(Workers - 1)
Records == Partitions \X Nat   \* <<partition, offset>>

VARIABLES
  \* the broker, and what survives the replicas
  logEnd,     \* logEnd[p]: offset the next record of p will get
  settled,    \* settled[p]: offsets whose record reached the handler's
              \* durable effect or the dead-letter topic
  committed,  \* committed[p]: the group's committed offset of p
  \* the group's assignment
  owner,      \* owner[p]: the member that fetches p
  position,   \* position[p]: where that member fetches next
  \* one replica
  run,        \* where the goroutine that executes Run is
  cancelled,  \* is the context derived in Run done?
  pending,    \* pending[m][p]: offsets polled and not yet dispatched
  turn,       \* turn[m]: the partition whose records are being dispatched
  jobs,       \* jobs[m][w]: the channel of worker w
  errs,       \* errors waiting in errCh
  worker      \* what worker w is doing, and with which record

broker == <<logEnd, settled, committed>>
group == <<owner, position>>
polled == <<pending, turn>>
vars == <<broker, group, run, cancelled, polled, jobs, errs, worker>>

Idle == [at |-> "idle", rec |-> None]
Failed == [at |-> "failed", rec |-> None]
Exited == [at |-> "exited", rec |-> None]
Busy(step, r) == [at |-> step, rec |-> r]

InFlight == {"handle", "backoff", "deadletter", "commit"}
WorkerStates == {Idle, Failed, Exited} \cup [at : InFlight, rec : Records]

InLoop == {"loop", "poll", "dispatch"}
Closed == {"joining", "returned"}   \* the jobs channels are closed

Part(r) == r[1]
Offset(r) == r[2]
WorkerOf(p) == p % Workers
InGroup(m) == run[m] # "down"

(* Mistaken variant: an unbuffered errCh. *)
ErrCapUnbuffered == 0

(* errCh is made with one slot per worker. *)
ErrCap == Workers

TypeOK ==
  /\ logEnd \in [Partitions -> Nat]
  /\ settled \in [Partitions -> SUBSET Nat]
  /\ committed \in [Partitions -> Nat]
  /\ owner \in [Partitions -> Members \cup {None}]
  /\ position \in [Partitions -> Nat]
  /\ run \in [Members -> {"down"} \cup InLoop \cup Closed]
  /\ cancelled \in [Members -> BOOLEAN]
  /\ pending \in [Members -> [Partitions -> SUBSET Nat]]
  /\ turn \in [Members -> Partitions \cup {None}]
  /\ jobs \in [Members -> [WorkerIds -> Seq(Records)]]
  /\ errs \in [Members -> Nat]
  /\ worker \in [Members -> [WorkerIds -> WorkerStates]]

NoPending == [p \in Partitions |-> {}]
NoJobs == [w \in WorkerIds |-> <<>>]
AllIdle == [w \in WorkerIds |-> Idle]

Init ==
  /\ logEnd = [p \in Partitions |-> 0]
  /\ settled = [p \in Partitions |-> {}]
  /\ committed = [p \in Partitions |-> 0]
  /\ owner = [p \in Partitions |-> None]
  /\ position = [p \in Partitions |-> 0]
  /\ run = [m \in Members |-> "down"]
  /\ cancelled = [m \in Members |-> FALSE]
  /\ pending = [m \in Members |-> NoPending]
  /\ turn = [m \in Members |-> None]
  /\ jobs = [m \in Members |-> NoJobs]
  /\ errs = [m \in Members |-> 0]
  /\ worker = [m \in Members |-> AllIdle]

-----------------------------------------------------------------------------
(* The broker and the group coordinator. *)

Produce(p) ==
  /\ logEnd[p] < MaxOffset
  /\ logEnd' = [logEnd EXCEPT ![p] = @ + 1]
  /\ UNCHANGED <<settled, committed, group, run, cancelled, polled, jobs, errs, worker>>

(* Mistaken variant: a new owner starts with what is produced from now on. *)
AssignAtEnd(p, m) ==
  /\ InGroup(m)
  /\ owner[p] = None \/ Rebalancing
  /\ owner' = [owner EXCEPT ![p] = m]
  /\ position' = [position EXCEPT ![p] = logEnd[p]]
  /\ UNCHANGED <<broker, run, cancelled, polled, jobs, errs, worker>>

(* p is given to m, which resumes at the committed offset.  NewConsumer       *)
(* registers no hook for revoked partitions: what the previous owner already *)
(* polled stays in its channels and is still handled and committed.          *)
Assign(p, m) ==
  /\ InGroup(m)
  /\ owner[p] = None \/ Rebalancing
  /\ owner' = [owner EXCEPT ![p] = m]
  /\ position' = [position EXCEPT ![p] = committed[p]]
  /\ UNCHANGED <<broker, run, cancelled, polled, jobs, errs, worker>>

(* m's memory is gone and m has left the group. *)
Vanish(m) ==
  /\ run' = [run EXCEPT ![m] = "down"]
  /\ cancelled' = [cancelled EXCEPT ![m] = FALSE]
  /\ pending' = [pending EXCEPT ![m] = NoPending]
  /\ turn' = [turn EXCEPT ![m] = None]
  /\ jobs' = [jobs EXCEPT ![m] = NoJobs]
  /\ errs' = [errs EXCEPT ![m] = 0]
  /\ worker' = [worker EXCEPT ![m] = AllIdle]
  /\ owner' = [p \in Partitions |-> IF owner[p] = m THEN None ELSE owner[p]]
  /\ UNCHANGED <<broker, position>>

Crash(m) == InGroup(m) /\ Vanish(m)

(* The parent context ends: a signal, or another member of main's errgroup. *)
Cancel(m) ==
  /\ run[m] \in InLoop
  /\ cancelled' = [cancelled EXCEPT ![m] = TRUE]
  /\ UNCHANGED <<broker, group, run, polled, jobs, errs, worker>>

-----------------------------------------------------------------------------
(* Run, the goroutine of the caller. *)

Start(m) ==
  /\ run[m] = "down"
  /\ run' = [run EXCEPT ![m] = "loop"]
  /\ UNCHANGED <<broker, group, cancelled, polled, jobs, errs, worker>>

(* The select at the head of the loop takes its default. *)
EnterPoll(m) ==
  /\ run[m] = "loop"
  /\ ~cancelled[m]
  /\ errs[m] = 0
  /\ run' = [run EXCEPT ![m] = "poll"]
  /\ UNCHANGED <<broker, group, cancelled, polled, jobs, errs, worker>>

(* The records of p are handed out now; of none, when none is left. *)
TurnTo(m, p) ==
  /\ turn' = [turn EXCEPT ![m] = p]
  /\ IF pending'[m] = NoPending THEN p = None
                               ELSE p \in Partitions /\ pending'[m][p] # {}

(* PollFetches returns a batch of the partitions m owns; its iterator hands   *)
(* out one partition after another.                                          *)
PollRecords(m) ==
  /\ run[m] = "poll"
  /\ ~cancelled[m]
  /\ \E upto \in [Partitions -> 0..MaxOffset] :
       /\ \A p \in Partitions :
            IF owner[p] = m THEN upto[p] \in position[p]..logEnd[p]
                            ELSE upto[p] = position[p]
       /\ position # upto
       /\ position' = upto
       /\ pending' = [pending EXCEPT ![m] =
                        [p \in Partitions |-> position[p]..(upto[p] - 1)]]
  /\ \E p \in Partitions : TurnTo(m, p)
  /\ run' = [run EXCEPT ![m] = "dispatch"]
  /\ UNCHANGED <<broker, owner, cancelled, jobs, errs, worker>>

(* PollFetches returns errors only; they are logged. *)
PollErrors(m) ==
  /\ run[m] = "poll"
  /\ ~cancelled[m]
  /\ run' = [run EXCEPT ![m] = "loop"]
  /\ UNCHANGED <<broker, group, cancelled, polled, jobs, errs, worker>>

(* Mistaken variant: whichever worker has room takes the record. *)
DispatchToAnyWorker(m, p) ==
  /\ run[m] = "dispatch"
  /\ turn[m] = p
  /\ \E w \in WorkerIds, o \in pending[m][p] :
       /\ Len(jobs[m][w]) < ChanCap
       /\ \A q \in pending[m][p] : o <= q
       /\ jobs' = [jobs EXCEPT ![m][w] = Append(@, <<p, o>>)]
       /\ pending' = [pending EXCEPT ![m][p] = @ \ {o}]
  /\ \E q \in Partitions \cup {None} :
       TurnTo(m, q) /\ (pending'[m][p] # {} => q = p)
  /\ run' = [run EXCEPT ![m] = IF pending'[m] = NoPending THEN "loop" ELSE @]
  /\ UNCHANGED <<broker, group, cancelled, errs, worker>>

(* The oldest polled record of p goes to the worker that serves p.  Run       *)
(* blocks while that channel is full, and the other partitions wait with it. *)
Dispatch(m, p) ==
  /\ run[m] = "dispatch"
  /\ turn[m] = p
  /\ Len(jobs[m][WorkerOf(p)]) < ChanCap
  /\ \E o \in pending[m][p] :
       /\ \A q \in pending[m][p] : o <= q
       /\ jobs' = [jobs EXCEPT ![m][WorkerOf(p)] = Append(@, <<p, o>>)]
       /\ pending' = [pending EXCEPT ![m][p] = @ \ {o}]
  /\ \E q \in Partitions \cup {None} :
       TurnTo(m, q) /\ (pending'[m][p] # {} => q = p)
  /\ run' = [run EXCEPT ![m] = IF pending'[m] = NoPending THEN "loop" ELSE @]
  /\ UNCHANGED <<broker, group, cancelled, errs, worker>>

(* Mistaken variant: the deferred function does not cancel first. *)
LeaveLoopUncancelled(m) ==
  /\ run' = [run EXCEPT ![m] = "joining"]
  /\ pending' = [pending EXCEPT ![m] = NoPending]
  /\ turn' = [turn EXCEPT ![m] = None]
  /\ UNCHANGED cancelled

(* The deferred function: cancel, then close the channels, then wait. *)
LeaveLoop(m) ==
  /\ run' = [run EXCEPT ![m] = "joining"]
  /\ cancelled' = [cancelled EXCEPT ![m] = TRUE]
  /\ pending' = [pending EXCEPT ![m] = NoPending]
  /\ turn' = [turn EXCEPT ![m] = None]

ReturnCancelled(m) ==
  /\ run[m] \in InLoop
  /\ cancelled[m]
  /\ LeaveLoop(m)
  /\ UNCHANGED <<broker, group, jobs, errs, worker>>

ReturnError(m) ==
  /\ run[m] \in {"loop", "dispatch"}
  /\ errs[m] > 0
  /\ errs' = [errs EXCEPT ![m] = @ - 1]
  /\ LeaveLoop(m)
  /\ UNCHANGED <<broker, group, jobs, worker>>

(* Mistaken variant: Run does not wait for its workers. *)
JoinNobody(m) ==
  /\ run[m] = "joining"
  /\ run' = [run EXCEPT ![m] = "returned"]
  /\ UNCHANGED <<broker, group, cancelled, polled, jobs, errs, worker>>

(* wg.Wait returns, and Run with it. *)
Join(m) ==
  /\ run[m] = "joining"
  /\ \A w \in WorkerIds : worker[m][w] \in {Failed, Exited}
  /\ run' = [run EXCEPT ![m] = "returned"]
  /\ UNCHANGED <<broker, group, cancelled, polled, jobs, errs, worker>>

(* The caller's deferred Close, and the end of the process. *)
Close(m) == run[m] = "returned" /\ Vanish(m)

-----------------------------------------------------------------------------
(* A worker goroutine and handleRecord. *)

Becomes(m, w, state) == worker' = [worker EXCEPT ![m][w] = state]

(* A record is received; it is dropped when the context is done. *)
Take(m, w) ==
  /\ InGroup(m)
  /\ worker[m][w] = Idle
  /\ jobs[m][w] # <<>>
  /\ jobs' = [jobs EXCEPT ![m][w] = Tail(@)]
  /\ Becomes(m, w, IF cancelled[m] THEN Idle ELSE Busy("handle", Head(jobs[m][w])))
  /\ UNCHANGED <<broker, group, run, cancelled, polled, errs>>

(* Mistaken variant: the zero value a closed channel yields is handled. *)
TakesZeroValue(m, w) ==
  /\ run[m] \in Closed
  /\ worker[m][w] = Idle
  /\ jobs[m][w] = <<>>
  /\ Becomes(m, w, Busy("handle", None))
  /\ UNCHANGED <<broker, group, run, cancelled, polled, jobs, errs>>

(* The range over a closed and drained channel ends. *)
WorkerExits(m, w) ==
  /\ run[m] \in Closed
  /\ worker[m][w] = Idle
  /\ jobs[m][w] = <<>>
  /\ Becomes(m, w, Exited)
  /\ UNCHANGED <<broker, group, run, cancelled, polled, jobs, errs>>

(* handleRecord returns an error: it goes to errCh if there is room, and the *)
(* goroutine ends, whatever its channel still holds.                         *)
Fail(m, w) ==
  /\ Becomes(m, w, Failed)
  /\ errs' = [errs EXCEPT ![m] = IF @ < ErrCap THEN @ + 1 ELSE @]

At(m, w, step) == worker[m][w].at = step
Current(m, w) == worker[m][w].rec

(* The record of (m, w) reaches a destination that outlives the process. *)
SettleCurrent(m, w) ==
  settled' = [settled EXCEPT ![Part(Current(m, w))] = @ \cup {Offset(Current(m, w))}]

(* Mistaken variant: the position of the poll is committed. *)
CommitPolled(m, w) ==
  committed' = [committed EXCEPT ![Part(Current(m, w))] = position[Part(Current(m, w))]]

CommitCurrent(m, w) ==
  committed' = [committed EXCEPT ![Part(Current(m, w))] = Offset(Current(m, w)) + 1]

HandlerSucceeds(m, w) ==
  /\ At(m, w, "handle")
  /\ SettleCurrent(m, w)
  /\ Becomes(m, w, Busy("commit", Current(m, w)))
  /\ UNCHANGED <<logEnd, committed, group, run, cancelled, polled, jobs, errs>>

(* Mistaken variant: a record that cannot succeed is committed at once. *)
RejectsUnpublished(m, w) ==
  /\ At(m, w, "handle")
  /\ Becomes(m, w, Busy("commit", Current(m, w)))
  /\ UNCHANGED <<broker, group, run, cancelled, polled, jobs, errs>>

HandlerRejects(m, w) ==
  /\ At(m, w, "handle")
  /\ Becomes(m, w, Busy("deadletter", Current(m, w)))
  /\ UNCHANGED <<broker, group, run, cancelled, polled, jobs, errs>>

(* Mistaken variant: a record whose handler fails is passed over. *)
PassesOver(m, w) ==
  /\ At(m, w, "handle")
  /\ SettleCurrent(m, w) \/ UNCHANGED settled
  /\ Becomes(m, w, Idle)
  /\ UNCHANGED <<logEnd, committed, group, run, cancelled, polled, jobs, errs>>

(* Any other error, also one that hides a commit that did happen: the record *)
(* is tried again after the backoff, unless the context is done.             *)
HandlerErrs(m, w) ==
  /\ At(m, w, "handle")
  /\ SettleCurrent(m, w) \/ UNCHANGED settled
  /\ Becomes(m, w, IF cancelled[m] THEN Idle ELSE Busy("backoff", Current(m, w)))
  /\ UNCHANGED <<logEnd, committed, group, run, cancelled, polled, jobs, errs>>

(* The timer fires, or the context ends. *)
BackoffEnds(m, w) ==
  /\ At(m, w, "backoff")
  /\ Becomes(m, w, IF cancelled[m] THEN Idle ELSE Busy("handle", Current(m, w)))
  /\ UNCHANGED <<broker, group, run, cancelled, polled, jobs, errs>>

DeadLetterSent(m, w) ==
  /\ At(m, w, "deadletter")
  /\ SettleCurrent(m, w)
  /\ Becomes(m, w, Busy("commit", Current(m, w)))
  /\ UNCHANGED <<logEnd, committed, group, run, cancelled, polled, jobs, errs>>

(* Publish reports an error, for a record that may have reached the topic. *)
DeadLetterFails(m, w) ==
  /\ At(m, w, "deadletter")
  /\ SettleCurrent(m, w) \/ UNCHANGED settled
  /\ Fail(m, w)
  /\ UNCHANGED <<logEnd, committed, group, run, cancelled, polled, jobs>>

CommitSucceeds(m, w) ==
  /\ At(m, w, "commit")
  /\ CommitCurrent(m, w)
  /\ Becomes(m, w, Idle)
  /\ UNCHANGED <<logEnd, settled, group, run, cancelled, polled, jobs, errs>>

(* CommitRecords reports an error, for a commit the broker may have made.     *)
(* The error is swallowed when the context is done.                          *)
CommitFails(m, w) ==
  /\ At(m, w, "commit")
  /\ CommitCurrent(m, w) \/ UNCHANGED committed
  /\ IF cancelled[m] THEN Becomes(m, w, Idle) /\ UNCHANGED errs
                     ELSE Fail(m, w)
  /\ UNCHANGED <<logEnd, settled, group, run, cancelled, polled, jobs>>

-----------------------------------------------------------------------------
RunStep(m) ==
  \/ EnterPoll(m) \/ PollRecords(m) \/ PollErrors(m)
  \/ \E p \in Partitions : Dispatch(m, p)
  \/ ReturnCancelled(m) \/ ReturnError(m) \/ Join(m)

HandlerReturns(m, w) ==
  HandlerSucceeds(m, w) \/ HandlerRejects(m, w) \/ HandlerErrs(m, w)

WorkerStep(m, w) ==
  \/ Take(m, w) \/ WorkerExits(m, w)
  \/ HandlerReturns(m, w) \/ BackoffEnds(m, w)
  \/ DeadLetterSent(m, w) \/ DeadLetterFails(m, w)
  \/ CommitSucceeds(m, w) \/ CommitFails(m, w)

Next ==
  \/ \E p \in Partitions : Produce(p)
  \/ \E p \in Partitions, m \in Members : Assign(p, m)
  \/ \E m \in Members :
       \/ Start(m) \/ Cancel(m) \/ Crash(m) \/ Close(m)
       \/ RunStep(m)
       \/ \E w \in WorkerIds : WorkerStep(m, w)

Spec == Init /\ [][Next]_vars

-----------------------------------------------------------------------------
(* Fairness.                                                                 *)

(* Goroutines are scheduled; calls into the handler and the client return    *)
(* with some outcome; the coordinator hands out a partition nobody owns; a   *)
(* returned Run is followed by the caller's deferred calls.  None of this    *)
(* says that a dependency ever works.                                        *)
Scheduling ==
  /\ \A m \in Members : /\ WF_vars(RunStep(m))
                        /\ WF_vars(Close(m))
                        /\ \A w \in WorkerIds : WF_vars(WorkerStep(m, w))
  /\ \A p \in Partitions :
       WF_vars(owner[p] = None /\ \E m \in Members : Assign(p, m))

(* The dependencies recover: a fetch that is retried forever delivers, and a *)
(* handler that is retried forever comes to a verdict.                       *)
Recovery ==
  \A m \in Members :
    /\ SF_vars(PollRecords(m))
    /\ \A w \in WorkerIds : SF_vars(HandlerSucceeds(m, w) \/ HandlerRejects(m, w))

FairSpec == Spec /\ Scheduling

-----------------------------------------------------------------------------
(* Safety.                                                                   *)

SettledBelow(p, o) == 0..(o - 1) \subseteq settled[p]

(* A group that restarts from its committed offsets loses no record: each    *)
(* one below them was handled or dead-lettered (handleRecord commits last),  *)
(* however crashes, moved partitions and lost replies interleave.            *)
NoRecordSkipped == \A p \in Partitions : SettledBelow(p, committed[p])

(* The records of a partition take effect in offset order, although many     *)
(* goroutines run and a partition that moves is worked on by two replicas:   *)
(* partition % workers gives each partition one FIFO channel per replica.    *)
InOrder == \A p \in Partitions : \A o \in settled[p] : SettledBelow(p, o)

(* When Run returns no worker is inside the handler or a client call, so the *)
(* caller may close the client, the producer and the pool.                   *)
JoinedBeforeReturn ==
  \A m \in Members : run[m] = "returned" =>
    \A w \in WorkerIds : worker[m][w].at \notin InFlight

(* A goroutine that ended on an error left it in errCh as long as Run loops: *)
(* otherwise Run would block forever on the full channel nobody drains.      *)
FailureReported ==
  \A m \in Members : run[m] \in InLoop =>
    \A w \in WorkerIds : worker[m][w] = Failed => errs[m] > 0

(* As long as the coordinator does not move an owned partition, no commit    *)
(* takes the group back, not even across crashes and restarts.               *)
CommitNeverRewinds ==
  [][\A p \in Partitions : committed'[p] >= committed[p]]_vars

(* Each step of the consumer is a step of what a group promises.             *)
Promise == INSTANCE AtLeastOnce
PromiseKept == Promise!Spec

(* Why both hold: behind a live goroutine w, each record that is queued,      *)
(* polled or next to be polled follows one that has settled or will settle   *)
(* first.  The first n records of w's channel and w's current record come    *)
(* before r.                                                                 *)
Follows(m, w, r, n) ==
  \/ Offset(r) = 0
  \/ Offset(r) - 1 \in settled[Part(r)]
  \/ Current(m, w) = <<Part(r), Offset(r) - 1>>
  \/ \E j \in 1..n : jobs[m][w][j] = <<Part(r), Offset(r) - 1>>

Live(m, w) == InGroup(m) /\ ~cancelled[m] /\ worker[m][w] # Failed

ChannelFollows ==
  \A m \in Members, w \in WorkerIds : Live(m, w) =>
    \A i \in 1..Len(jobs[m][w]) : Follows(m, w, jobs[m][w][i], i - 1)

NextFollows(m, p, o) ==
  LET w == WorkerOf(p)
  IN  \/ ~Live(m, w)
      \/ Follows(m, w, <<p, o>>, Len(jobs[m][w]))
      \/ o - 1 \in pending[m][p]

PendingFollows ==
  \A m \in Members, p \in Partitions : \A o \in pending[m][p] : NextFollows(m, p, o)

PositionFollows ==
  \A p \in Partitions : owner[p] # None => NextFollows(owner[p], p, position[p])

(* A record in hand follows a settled one, and is committed once settled.    *)
CurrentFollows ==
  \A m \in Members, w \in WorkerIds : worker[m][w].at \in InFlight =>
    LET r == Current(m, w)
    IN  /\ Offset(r) = 0 \/ Offset(r) - 1 \in settled[Part(r)]
        /\ At(m, w, "commit") => Offset(r) \in settled[Part(r)]

CommittedFollows ==
  \A p \in Partitions : committed[p] = 0 \/ committed[p] - 1 \in settled[p]

(* Nothing is held that the log does not hold, and a replica that has not    *)
(* polled, or is not running, holds nothing.                                 *)
WithinLog ==
  /\ \A p \in Partitions : position[p] <= logEnd[p]
  /\ \A p \in Partitions : \A o \in settled[p] : o < logEnd[p]
  /\ \A m \in Members, p \in Partitions : \A o \in pending[m][p] : o < logEnd[p]
  /\ \A m \in Members, w \in WorkerIds :
       /\ \A i \in 1..Len(jobs[m][w]) : Offset(jobs[m][w][i]) < logEnd[Part(jobs[m][w][i])]
       /\ worker[m][w].at \in InFlight => Offset(Current(m, w)) < logEnd[Part(Current(m, w))]

Quiescent ==
  /\ \A p \in Partitions : owner[p] # None => InGroup(owner[p])
  /\ \A m \in Members : run[m] # "dispatch" => pending[m] = NoPending
  /\ \A m \in Members : ~InGroup(m) => jobs[m] = NoJobs /\ worker[m] = AllIdle

(* The inductive invariant of Consumer_proofs, beside TypeOK and InOrder.    *)
PipelineInv ==
  /\ ChannelFollows
  /\ PendingFollows
  /\ PositionFollows
  /\ CurrentFollows
  /\ CommittedFollows
  /\ WithinLog
  /\ Quiescent

(* Why no commit rewinds: without Rebalancing only the owner of a partition  *)
(* holds records of it, on the goroutine that serves it, none of them before *)
(* the committed offset; the record in hand is before the queued ones, these *)
(* are in order and before the polled ones, and the position is after all.   *)
HeldByOwner(m, w, r) ==
  /\ owner[Part(r)] = m
  /\ w = WorkerOf(Part(r))
  /\ Offset(r) \in committed[Part(r)]..(position[Part(r)] - 1)
  /\ \A o \in pending[m][Part(r)] : Offset(r) < o

Before(r, s) == Part(r) = Part(s) => Offset(r) < Offset(s)

QueueAhead ==
  \A m \in Members, w \in WorkerIds : \A i \in 1..Len(jobs[m][w]) :
    /\ HeldByOwner(m, w, jobs[m][w][i])
    /\ \A j \in 1..(i - 1) : Before(jobs[m][w][j], jobs[m][w][i])
    /\ worker[m][w].at \in InFlight => Before(Current(m, w), jobs[m][w][i])

CurrentAhead ==
  \A m \in Members, w \in WorkerIds :
    worker[m][w].at \in InFlight => HeldByOwner(m, w, Current(m, w))

PendingAhead ==
  \A m \in Members, p \in Partitions : \A o \in pending[m][p] :
    owner[p] = m /\ o \in committed[p]..(position[p] - 1)

PositionAhead ==
  \A p \in Partitions : owner[p] # None => committed[p] <= position[p]

AheadOfCommits == QueueAhead /\ CurrentAhead /\ PendingAhead /\ PositionAhead

(* Transient failures, a Kafka write failure among them, are retried "until  *)
(* it succeeds or the service is stopped": no goroutine gives up before.     *)
RetriedUntilStopped ==
  \A m \in Members, w \in WorkerIds : worker[m][w] = Failed => cancelled[m]

-----------------------------------------------------------------------------
(* Liveness.                                                                 *)

(* Run returns once its context is done or an error made it leave the loop,  *)
(* even if the dependencies never recover: cancel precedes wg.Wait.          *)
Stopping(m) == cancelled[m] \/ run[m] = "joining"
StopTerminates ==
  \A m \in Members : Stopping(m) ~> run[m] \in {"returned", "down"}

(* If the dependencies recover, a partition that comes to stay with one       *)
(* replica, none of whose goroutines has failed, has each of its records      *)
(* settled in the end.                                                        *)
Serves(m, p) ==
  /\ owner[p] = m
  /\ run[m] \in InLoop
  /\ ~cancelled[m]
  /\ \A w \in WorkerIds : worker[m][w] # Failed
EventuallySettled ==
  Recovery =>
    \A p \in Partitions : \A m \in Members : \A o \in 0..(MaxOffset - 1) :
      <>[]Serves(m, p) => (o < logEnd[p] ~> o \in settled[p])
=============================================================================
