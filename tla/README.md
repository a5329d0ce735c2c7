# Verification of the fraud-scoring pipeline

TLA+ models of the Go service in this repository, TLC runs that check them on
small instances, and theorems that TLAPS checks for every value of the
constants. Paths are relative to the repository root; `kafka.go` is
`internal/stream/kafka.go`, `postgres.go` is `internal/store/postgres.go`.

## The system

A simulator publishes transaction events and, later, their ground-truth labels
to Kafka. `fraud-service` consumes both topics with one consumer group each,
scores every transaction against its account's history in Postgres, writes the
assessment together with an outbox row, and relays outbox rows to a third
topic. An HTTP server lists transactions and reports model metrics.

    simulator --transactions--> Consumer --> HandleTransaction --> Evaluate --+
        \------labels---------> Consumer --> HandleLabel --> StoreLabel       |
                                   |                          Postgres <------+
                            dead-letter topic                  |   |
                        assessments topic <-- Outbox.Run <-----+   +--> HTTP

| Component | State | Operations | What makes it correct |
| --- | --- | --- | --- |
| `stream.Consumer` (`kafka.go`) | per goroutine a channel of records, `errCh`, a derived context; in Kafka the log, offsets and partition ownership | `Run`, `handleRecord`, `publishDeadLetter`, `Close` | no record is skipped, records of a partition take effect in order, a stop always ends, no goroutine outlives `Run` |
| `stream.Producer` (`kafka.go`) | a client | `Publish`, `Close` | modelled by the outcomes its callers see |
| Scoring (`processor.go`, `Postgres.Evaluate`) | tables `transactions`, `assessments`, `outbox` | `HandleTransaction` | a transaction is assessed once, all rows or none, answers are final |
| Labels (`processor.go`, `StoreLabel`, `ModelMetrics`) | table `fraud_labels` | `HandleLabel`, metrics query | no verdict is lost in silence, reports add up and never shrink |
| Outbox relay (`outbox.go`, `PublishOutbox`) | `published_at`, row locks | poll, claim, publish, mark, commit | at-least-once, no duplicate without a fault |
| Listing (`ListTransactions`, `httpapi`) | none on the server; the cursor at the client | first page, next page | a walk repeats nothing and misses nothing |
| Simulator (`cmd/simulator`) | label queue, result channel, context | emit loop, `publishLabels`, `stop`, `failed` | every exit joins the publisher; what it reports is true |
| Supervisor (`cmd/fraud-service`, `Server.Run`) | errgroup, deferred closes | start, signal, `Wait`, shutdown | nothing is closed while it is in use |
| Features, model, policy | none | `Extract`, `Score`, `Decide` | frauds are flagged, normal bursts are not escalated |
| Domain | none | `Validate` | accepts what the generator emits, rejects what lacks a field |
| Metrics | Prometheus counters | counting, `PipelineSnapshot` | every answer is counted once, percentiles lie in their buckets |
| Schema | the keys of the tables | `Migrate` | applied at start, idempotent |
| HTTP handlers, dashboard, `fraudctl` | none | stateless requests | formatting |

Components interact by Kafka records (in order per partition, redelivered
after a crash or a move), by rows (one commit makes them visible), by Go
channels, and by contexts that end calls early.

The hard behaviour is in their combination: goroutines of several replicas on
one partition after it moved, a crash or a lost reply between a durable effect
and its acknowledgement, two deliveries of one transaction evaluated at once, a
stop in the middle of a batch, results received from a channel that gives one,
requests that outlive the shutdown's deadline while the pool is closed, and rows
that commit between two pages. `PROJECT.json` lists each of these
hazards at its line, with the properties that would catch it.

## Modules

| Module | Models |
| --- | --- |
| `AtLeastOnce` | abstract: what a consumer group promises about a topic |
| `Consumer` | `Run`, `handleRecord`, `publishDeadLetter` of all replicas |
| `Consumer_proofs` | theorems about `Consumer` |
| `IdempotentScoring` | abstract: what scoring promises |
| `Store` | `HandleTransaction` and `Evaluate`, statement by statement |
| `Store_proofs` | theorems about `Store` |
| `Relay` | abstract: what the outbox promises |
| `Outbox` | `Outbox.Run` and `PublishOutbox` of all replicas |
| `Outbox_proofs` | theorems about `Outbox` |
| `Labels` | `HandleLabel`, `StoreLabel`, `ModelMetrics` |
| `Labels_proofs` | theorems about `Labels` |
| `Listing` | `ListTransactions`, its cursor, `listTransactions` of the HTTP server |
| `Listing_proofs` | theorems about `Listing` |
| `Simulator` | `run` and `publishLabels` of the simulator |
| `Simulator_proofs` | theorems about `Simulator` |
| `Service` | `run` of `fraud-service` and `Server.Run`, from the flags to the exit code |
| `Service_proofs` | theorems about `Service` |
| `Domain` | `TransactionCreated.Validate`, `FraudLabel.Validate` |
| `Generator` | the events `Generator.Next` can return |
| `Scoring` | `features.Extract`, `Logistic.Score`, `Thresholds.Decide` |
| `Processor` | `HandleTransaction` and `HandleLabel` around the store: validation, score, counters; `latencyQuantile` |
| `Processor_proofs` | theorems about `Processor` and the three modules above |
| `MC…` | values of the constants and symmetry for TLC |

A definition commented "Mistaken variant" is not part of a specification. It
is the definition behind it with a plausible bug, and shows that the property
paired with it in `PROJECT.json` would notice.

### Consumer

`run[m]` is where `Run` of replica m is (`loop`, `poll` inside `PollFetches`,
`dispatch` over the fetched records, `joining` in `wg.Wait`, `returned`);
`worker[m][w]` is what goroutine w is doing with which record; `jobs` and
`errs` are the two kinds of channels. `Dispatch` sends a record to goroutine
`partition % workers`. Records are handed out one partition after another, as
the iterator of the fetches does: `turn[m]` is the partition whose turn it is,
chosen among those fetched, and when the channel of its goroutine is full the
records of all the others wait behind it. `Take`,
`HandlerSucceeds`, `HandlerRejects`, `HandlerErrs`, `BackoffEnds`,
`DeadLetterSent`, `DeadLetterFails`, `CommitSucceeds` and `CommitFails` are the
paths through `handleRecord`. A record is *settled* when the handler's durable
effect or its dead letter exists; for an error that effect may or may not have
happened. `LeaveLoop` is the deferred `cancel`, close of channels and `wg.Wait`.

External: `Produce`, `Crash` and `Assign`. A new owner resumes at the committed
offset (`NewConsumer` keeps the group's offsets, with the reset to the start
for a group that has none). As `NewConsumer` registers no hook for revoked
partitions, whatever the former owner has already polled it goes on handling
and committing. The model lets all of that interleave with the new owner.

Abstracted: metrics and logs; the payload; the exponential delay (a backoff
ends at any time); a fetch may bring any part of what is available.

### Store

A session is one handler call: `Deliver`, `Decode`, the `INSERT` in the steps
below, `Lookup` (the redelivery), `ReadHistory`, `InsertAssessment`,
`InsertOutbox`, `Commit`. Rows become visible at the commit. `CommitUnknown` is
a commit whose reply is lost. `Fail` ends a call at every statement; its
entries in the indexes stay until `Rollback`, and the record may be delivered
again before that.

`INSERT ... ON CONFLICT (transaction_id) DO NOTHING` meets two unique indexes,
and only the one it names is tolerant. What Postgres does is three steps:

* `CheckKey` looks for the `transaction_id`. A committed row leads to `Lookup`; an
  entry of an open transaction is waited for, with nothing in the caller's
  hands and nothing remembered.
* `EnterKey` puts the row into the index of `transaction_id`, without waiting. An
  entry that has come since the look is only noted (`clash`).
* `EnterEvent` puts it into the index of `event_id`, where conflicts are strict:
  it waits for an open transaction with the same `event_id` while it holds its
  own `transaction_id`, and fails with 23505 when one has committed, though it be
  that of the same event on another session. `unprocessable` makes this answer
  final. If there is no conflict here and one was noted before, the row is taken
  out and the statement starts again at `CheckKey`.

All events are of one account, since accounts share nothing but keys, and the
three windows of the history query (10 minutes, 1 hour, 90 days) are
abstracted to "earlier"; the score is represented by the rows it is made from.

### Outbox

`batch[r]` is the loop of one replica: down, waiting for its ticker, or inside
a batch with the rows still `left` and those `marked`. `Claim` takes at most
`Limit` of the lowest unpublished rows nobody has locked (`FOR UPDATE SKIP
LOCKED`, ordered by id) in one step. Calls under a cancelled context fail
before they reach the server. `ClaimLost` is the server's ending of a
transaction while the replica is inside `Publish`: its row locks are gone, another
replica may claim and send the row, and the first one may still send it too
before its next call to the database fails (`PublishLate`). `faults` counts the
calls that failed for other reasons, the lost claims, the stops and the crashes;
`MaxFaults` bounds it. `Poison` rows are rejected by Kafka every time.

### Labels

`Receive`, `CheckKey` and `StoreLabel` are a handler call. The insert is one
autocommit statement that looks for its `transaction_id` (`CheckKey`, after which
the session is in `checked`) before it writes both keys (`StoreLabel`), and
another call may commit in between: a row with its `event_id` is then an error,
even that of the same label, and one with its `transaction_id` only makes it
start again and find it. Its entries last no longer than the statement, so
that waiting for them needs no step. `Assess` adds the
assessment of a scored transaction with any decision and model version.
`ModelMetrics` is an operator on the state, since the query is one statement
and sees one snapshot; `IsFraud` and `IsNotFraud` are the three-valued
conditions over the `LEFT JOIN`, which an unlabelled row passes neither of.

### Listing

`Key` is the pair of indexed columns, with the time cut to microseconds;
`Query` is the SQL with `LIMIT limit+1`: its `WHERE` is `Asked`, and its
`ORDER BY` is said by ranks, the i-th row being the one with i - 1 newer rows
(`RowAt`), so that it needs no sorting. `Cut` and `NextCursor` are what
becomes of the extra row; `ThroughToken` is the cursor after `encodeCursor` and
`decodeCursor`, whose RFC3339Nano loses nothing of a microsecond. Times are
compared as they are given. Rejected parameters and failed requests change no
state and are left out.

### Simulator

`emitter` is where `run` is, `publisher` where `publishLabels` is. The branches
of each `select` are disjuncts, so any ready one may be taken. `Stop` is the
closure `stop` up to its receive, `Join` the receive and the choice of the
error, `Failed` the closure `failed`. A publish that fails may have reached the
topic. Cap of the queue and count are small; `--count 0` only never ends.

### Service

`main` is the step `run` is at: the seven acquisitions and checks of the start
(`Then`), `wait` in `group.Wait`, `close` and `drain` in the deferred calls,
`exited`. `open` is what has a deferred `Close` pending, and `Later` the order
in which it was acquired, so `Close(r)` takes the last acquired first; closing the
pool is two steps, since `pool.Close` refuses queries at once and returns when
those that hold a connection have (`Drained`). `Stopping` is `groupCtx.Done()`.
`member["api"]` is `Server.Run` with both branches of its `select`; `listener`
is the goroutine of `ListenAndServe`, which may fail before, while or after the
context is done; `request[q]` goes on after a shutdown that timed out, and ends
with the process. The other three members run, fail (`ConsumerFails`) or stop:
what they do in between is in `Consumer` and `Outbox`, and that they come to
stop is `StopTerminates` of the run `ConsumerWorkers`.

### Processor, Domain, Generator, Scoring

`Processor` is one process with its goroutines. Each action is a path through a
handler up to its first counter; a scored transaction has three counters, which
are three steps (`CountProcessed`, `CountAction`, `Observe`), so that the other
goroutines and a snapshot come between them. The input is every event
`Generator` can emit (merchant, entry mode, the two ends of the amount) at four
times of the day, and each with one field spoilt; the history handed to the
callback is any at and around the caps. `Scoring` counts features and weights
in hundredths and replaces the sigmoid, which grows strictly, by the logits of the
thresholds; `log1p` of the four amounts is a constant. The values of `MCProcessor`
are `configs/model.json` and the default thresholds. `latencyQuantile` is exact,
a numerator over a denominator. The order of the signals is left out.

## Runs

| Run | Question | Bounds, and why they are enough |
| --- | --- | --- |
| `ConsumerMove` | Safety and refinement of `AtLeastOnce` while the partition moves | two replicas, one partition, two records, one goroutine each, channels of one. A move concerns one partition and two owners; two records are enough to be out of order; a channel of one is full with one. |
| `ConsumerWorkers` | Errors, joins, monotone commits and why, stops, and a backlog that is worked off | one replica, two partitions on two goroutines with a channel of one, crashes and restarts, no moves |
| `StoreCalls` | Atomicity, idempotency, finality, refinement of `IdempotentScoring`, no deadlock | two sessions at a time, four events: two deliveries' worth of one transaction under two event_ids, one that reuses an event_id, one malformed. A call meets the keys of the other one between its look, its two entries and its rollback; conflicts are pairwise. |
| `OutboxRelay` | Claims, resends, refinement of `Relay`, progress | two replicas, three rows, batches of two (one batch is full, one is not), a row Kafka rejects, two faults (crashes, stops, failed calls, claims lost inside a publish) |
| `LabelCalls` | No lost verdict, final answers, consistent and growing reports | two sessions, two transactions, two verdicts on one, an event_id used twice, two model versions |
| `ListingWalk` | No repeat, no gap, no empty page | six rows, pages of two, three rows in one microsecond (more than a page), two seconds, two filters |
| `SimulatorRun` | Exit paths, order, truthfulness of nil, end of an interrupted run | four transactions, queue of two: the emitter waits for room |
| `ServiceRun` | Nothing closed under its users, no part missing, an earned exit code, an end to every stop | two requests, so that one may be done while the other holds the shutdown; every failure of every step |
| `ProcessorCalls` | Validation against the generator, recommendations, counters between increments, percentiles | two goroutines, four calls over all inputs above; buckets up to 2, 5 and 9 with observations in each, on a bound, and beyond the last |
| `ConsumerRetry`, `StoreArrival`, `OutboxStop` | the findings below | the smallest instance that shows each |

Deadlock is checked in all runs but those of `Listing`, `Simulator`, `Service`
and `Processor`, where the client has its last page, the process returns, or
the calls are used up.

The constants of the code are larger: channels hold 32 records, the label queue
256, batches 100 rows, pages up to 100. What depends on them is only whether a
buffer or a page is full, which the small values make frequent.

## Fairness

* `Consumer!Scheduling`: goroutines are scheduled and calls return with *some*
  outcome (every call has a context or the client's own timeout); a partition
  without an owner is assigned; a `Run` that returned is followed by the deferred
  closes. `StopTerminates` needs no more: a stop ends although no dependency
  ever recovers.
* `Consumer!Recovery` adds that a fetch retried for ever delivers and a handler
  retried for ever comes to a verdict. `EventuallySettled` is conditional:
  it speaks of a partition that comes to stay with one replica whose
  goroutines have not failed, as the code offers nothing for the others.
* `Store!FairSpec`: statements return and failed transactions are rolled back.
  `CheckKey` and `EnterEvent` are strongly fair, because Postgres queues those that
  wait for a transaction, so they are not overtaken for ever. So is `EnterKey`
  without a conflict: it is the assumption that an `INSERT` does not meet a new
  entry every time between its look and its own entry, which Postgres does not
  promise but which would take a new delivery of the transaction every time.
* `Outbox!FairSpec`: the ticker fires, calls return, and a replica that is down
  is started again, as its orchestrator does. Faults are finite in number.
* `Simulator!Spec`: goroutines are scheduled and timers fire. A publish is only
  required to return when its context is done, since the client retries an
  unreachable broker without limit; so `InterruptEnds` starts from a cancelled
  context and nothing is claimed of a run that waits for Kafka.

* `Service!Spec`: the goroutines are scheduled, the steps of the start and the
  deferred calls return, a cancelled member returns, the timer of the shutdown
  fires, and Postgres answers or fails a query. A handler may take for ever, as
  its client may never read the answer; `StopEnds` holds all the same, because
  of the shutdown's deadline.

## What is proved

`Consumer_proofs`, from `ConsumerAssumption` (at least one partition,
goroutine and channel slot; `None` is no member and no record):

* `TypeCorrect`, `PipelineCorrect`, `OrderCorrect`, `NothingSkipped`,
  `FailuresAreReported`, `RunJoins`, and `KeepsPromise`, which says that
  `Consumer` implements `AtLeastOnce`, for any number of replicas, partitions
  and goroutines, with or without moves.
* The argument. `InOrder` is not inductive: it does not say what waits in the
  channels. `PipelineInv` says that each record behind a live goroutine (in its
  channel, polled and not dispatched, or next to be fetched) follows a record
  that has settled, or is in hand, or is in front of it in the same channel.
  So whichever record settles next has a settled predecessor. Two things
  hold this together when a partition moves: positions restart from a committed
  offset, which only ever follows a settled record, and a goroutine that ends on
  an error is no longer live, so nothing behind it in its channel settles. The
  inductive invariant is `IInv == TypeOK /\ InOrder /\ PipelineInv`; there is a
  lemma per action, and `FollowsStable` carries the relation over every step
  that only adds.
* `CommitsAdvance` (`CommitNeverRewinds`) and `OwnerWorksAlone`
  (`AheadOfCommits`), under the hypothesis `~Rebalancing`: the coordinator gives
  away only partitions nobody owns, while any number of replicas crash, restart
  and lose replies. The run `ConsumerWorkers` is such an instance. Where owned
  partitions move the property is false, as the findings note. `AheadOfCommits`
  says that only the owner holds records of a partition, on the goroutine that
  serves it, and that the committed offset, the record in hand, the queue, the
  polled records and the position ascend in this order. It carries over a change of
  owner because a partition without an owner has no record in anyone's hands.

`Outbox_proofs`, from `OutboxAssumption`:

* `TypeCorrect`, `ClaimsCorrect` (`ClaimsInv` is inductive beside `TypeOK`),
  `KeepsPromise` (`Outbox` implements `Relay`: publish, then mark; a row that is
  marked is sent again only by a replica that lost its claim while sending it,
  once), and `ResendsAreFaults`, for any finite number of replicas, batch size and
  rejected rows.
* The argument for the last. `copies[i] <= 1 + faults` is not inductive,
  because a sent row in an open batch is unmarked and would be sent again if the
  batch were lost. `BoundInv` says that a row nobody holds sent has been sent at
  most `faults` times, and one more copy is allowed to the replica that holds it
  sent. It speaks of `Total(i)`, the copies sent and those on their way without
  a claim: losing a claim costs the fault, its copy arriving changes nothing. A batch that is lost with a sent row in it has had its fault before or
  at that step: a crash, a failed call, or the stop that made the calls fail.

`Store_proofs`, from `StoreAssumption`:

* `StoredTogether`, `AcknowledgedCorrect`, `RejectedCorrect`, `HistoryCorrect`,
  and `KeepsPromise` (`Store` implements `IdempotentScoring`), for any number of
  sessions and events and any sharing of transaction_ids and event_ids.
* What `RejectedCorrect` says: a dead-lettered event is malformed, or its `event_id`
  is in the table with an assessment for good. That may be another
  transaction's row, the conflict the documents describe, or the event's own,
  stored by an overlapping delivery (see the findings); so no event is
  dead-lettered *instead of* being assessed. A call that is only in progress,
  fails or is rolled back is never the cause.
* The argument. The answers and the tables are only as good as what the open
  calls have found out before. `SessionInv` says, per step of a call, what it
  knows: a well-formed event past `decode`; no committed row with a key that it
  has entered without a conflict; a row with its `transaction_id` when it looks that
  up; a history that lies between the rows committed at its start and now.
  `Exclusive` says that no two calls that entered their `transaction_id` without a
  conflict share it, and no two whose rows are in both indexes an `event_id`. What a call has found in `CheckKey` alone is worth nothing, and the invariant
  keeps none of it: the two entries decide, and the commit adds rows whose
  keys are free. The tables only grow, so what a call knows stays true while
  others commit.

`Labels_proofs`, from `LabelsAssumption`:

* `LabelNotDropped`, `LabelRejectedForGood`, `NoReportShrinks` and `MatrixCorrect`,
  for any sets of transactions, labels and versions. `LabelRejectedForGood` has the
  same two cases as `RejectedCorrect` above. A verdict is final
  because its key is taken for good, so `IsFraud` and `IsNotFraud` are stable
  and exclude each other, and every count is the size of a set that only grows.
  That the versions add up to the whole is stated by a set of pairs, a version
  with a number up to its count: it matches the labelled assessments one to one,
  as each has one version.

`Listing_proofs`, from `ListingAssumption`:

* `TypeCorrect`, `Descends`, `Complete`, `CursorsLead` (the four properties of
  the run) and `NoRowTwice`, for any transactions with any times, any filters and
  any size of a page.
* The argument. `Places` shows that a finite set of rows has exactly one row of
  each rank, by counting: ranks differ for different rows and are below the
  size of the set, so they are all of `0..n-1`. `PageRows`, `LastPage` and `FullPage`
  turn this into what a page is: rows that were asked for, newest first, all
  of them on a last page, and on a full one all down to the cursor with a row
  left behind it. `CursorInv` and `StartInv` then say that everything
  returned is at or ahead of the cursor, and that a row that was there at the start
  is returned or behind the cursor. The rows that commit later are asked for or
  not by their key alone, so they disturb neither.

`Processor_proofs`, from `ProcessorAssumption`, `ScoringAssumption`,
`CodeLengths` (the lengths of the country codes, of which the provers know
nothing) and `ArtifactAssumption`; TLC evaluates all of them with the values of
`MCProcessor`, which are those of `configs/model.json`:

* `Counts`: a counter per label is a function, and a total is the sum of its
  values. `SumTakesFirst` and the lemmas after it derive from the community modules'
  fold that a sum does not depend on the order, and goes up by one with each
  `Inc`. The inductive invariant is `Tally`, the equations of `AnswersCounted`
  over the sets of goroutines that are between two counters.
* `ValidatesRightly`: for events at any time, not only the four of the run.
* `FraudFound`: the score grows with each feature, as no weight is negative, so all
  frauds score at least as much as `LeastOfFraud` and all normal transactions
  at most as much as `GreatestOfNormal`, whatever history was read. What is
  left to the artifact is on which side of its thresholds these two lie, and
  that is the last part of `ArtifactAssumption`. Retraining the model
  means evaluating two scores again.
* `Percentiles`: for any bounds and observations, the result lies in the bucket
  that holds the rank it stands for, and does not fall from the 50th to the 95th to
  the 99th percentile. Within one bucket both are on one line; a greater rank is
  reached in the same bucket or a later one, whose lower end is not below.

`Simulator_proofs`, from `SimulatorAssumption`:

* `ProducerClosedQuietly`, `FinishIsClean`, `LabelsInOrder`, for any count and
  size of the queue. `BacklogInv` says that the labels sent, the one in hand
  and those in the channel are `1..n` in a row; `EmitterInv` ties `n` to the loop;
  `ResultInv` says what each error in `labelErr` means and that it is there as
  long as the emitter has not received it.

`Service_proofs`, without assumptions:

* `ServiceClosedAfterUse`, `ServiceNobodyStopsAlone`, `ServiceCleanExit`, for any
  set of requests. `StartInv` gives, per step of `run`, what is open: during the
  start exactly what was acquired `Before`, in `wait` everything. `Nested`
  keeps the order of the deferred closes. `ServerInv` says that a request is only
  accepted while the server runs, and that a server that returned without an
  error has none left; `StopInv`, that a member that stopped was stopped or
  stops the others, and that the result nil means that all returned without an
  error.

Every invariant and action property of the passing runs is a theorem. Only
model-checked is all liveness (`StopTerminates`, `EventuallySettled`,
`InsertReturns`, `EventuallyPublished`, `InterruptEnds`, `StopEnds`), which is
out of the prover's reach. Where a fact needs an induction over finite sets (sums,
the least element), it is proved from the well-foundedness of the subset order:
the set of the subsets that have the fact leaves no least one out, which is first-order.

## Findings

* `ConsumerRetry`: a failed dead-letter publish or commit ends its goroutine and
  `Run`, though nothing stopped the service; the documentation counts a Kafka
  write failure among the errors retried until it succeeds or the service stops.
* `StoreArrival`: an earlier transaction that arrives later is missing from an
  assessment's history; the deep-dive calls features independent of arrival order.
* `OutboxStop`: when the publish fails because of a stop, the commit fails with
  the same context, and rows already sent are sent again; the comment in
  `PublishOutbox` says that they stay committed as published.

A fourth has no run of its own. A record that is redelivered while its first
delivery is still being evaluated (a partition that moved) may pass the look at
its `transaction_id` before the first one has entered it, and then fails on its
own `event_id` with 23505. `postgres.go:32-38` tags that as unprocessable, and a
good event, or label, goes to the dead-letter topic although no other
transaction conflicts with it. Its assessment, or verdict, is stored by the first
delivery: that is what `RejectedForGood` of `Store` and `Labels` says, and if its
last disjunct is restricted to rows of other transactions TLC finds the
behaviour. `docs/explanation/code-review-log.md:105` and
`docs/explanation/delivery-guarantees-and-idempotency.md:29` say that only a genuine data
conflict is dead-lettered, and `postgres.go:21-23` that the tag means an event
that can never succeed on retry, which here a retry would.

Three more behaviours follow from the models and contradict no document. With a
moving partition the committed offset may go back, which costs repeats. After a
goroutine has ended on an error, `Run` learns of it only when `PollFetches`
returns, so on an idle topic the replica keeps its partitions until then. And
`CleanFinish` of the simulator needs `~cancelled`: an interrupt during the label
delay drops the queued labels, yet `stop(nil)` returns nil (`main.go:100-103`) and
the run prints "published N transactions and labels" (151-155), the line that
`docs/tutorials/getting-started.md:42` tells the reader to wait for.

## Not modelled

* Floating point: the sigmoid, the order of the signals of an assessment, and
  the average of the latencies. Amounts are abstracted in `Store`, so the sum of
  an hour's spend, which the code scans into an int64, cannot overflow there; its
  effect would be `Store`'s `Fail` at every retry.
* The two outbox counters and the summing of counters by label: nothing in the
  process depends on them.
* The statements of the migration: one script of `CREATE ... IF NOT EXISTS`. A
  migration that fails is a step of `Service`, and the keys it creates are in
  the guards of `Store`, `Labels` and `Listing`.
* HTTP formatting, the dashboard and `fraudctl` keep no state.
* `stream.Producer` is the client library with options; its callers see the
  outcomes sent, failed, and failed although sent, which `Consumer`, `Outbox`
  and `Simulator` have.
* The order of assessments across outbox batches: rows of different batches may
  reach the topic against their id order, and no document promises more.

## Plan

Done: `Consumer` with `AtLeastOnce`, `Store` with `IdempotentScoring`, `Outbox`
with `Relay`, `Labels`, `Listing`, `Simulator`, `Service`, `Processor`, and
proofs of their invariants, action properties and refinements. What remains, in
the order of what matters most:

1. `Pipeline`: `AtLeastOnce`, `IdempotentScoring` and `Relay` composed, for the
   end-to-end promise that every event is in the end assessed and published,
   or dead-lettered. The three refinements are proved, so the composition can be
   checked, and its safety proved, on the abstract modules alone.
2. What the abstract modules promise in their own terms (in `AtLeastOnce`, that
   no record below a committed offset is unsettled), as theorems about them.
3. The walk of `Listing` as a refinement of reading one fixed, ordered set.
