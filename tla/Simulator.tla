----------------------------- MODULE Simulator -----------------------------
(* cmd/simulator: run emits transactions and queues a label for each, and    *)
(* the goroutine publishLabels publishes a label when its delay is over.     *)
(* They share the channel labels, the channel labelErr, from which only one  *)
(* value ever comes, and the context, which an interrupt or a failed run     *)
(* cancels.  The n-th transaction and its label are the number n.            *)
EXTENDS Integers, Sequences

CONSTANTS Count,    \* --count, at least one: with 0 the loop has no end
          QueueCap  \* capacity of labels, 256 in the code

ASSUME SimulatorAssumption ==
  /\ Count \in Nat \ {0}
  /\ QueueCap \in Nat \ {0}

VARIABLES
  paced,        \* --rate is not 0
  emitter,      \* where run is
  emitted,      \* its counter
  reason,       \* why it called stop: an error, ctx.Done, or the loop's end
  result,       \* how it has returned
  labels,       \* the channel
  publisher,    \* where publishLabels is
  queued,       \* the label it holds, 0 for none
  labelErr,     \* the channel: the result, until somebody receives it
  cancelled,    \* ctx is done
  transactions, \* numbers on the transactions topic
  sentLabels    \* numbers on the labels topic, in their order

run == <<paced, emitter, emitted, reason, result>>
publishLabels == <<publisher, queued>>
topics == <<transactions, sentLabels>>
vars == <<run, labels, publishLabels, labelErr, cancelled, topics>>

TypeOK ==
  /\ paced \in BOOLEAN /\ cancelled \in BOOLEAN
  /\ emitter \in {"pace", "publish", "queue", "join", "returned"}
  /\ emitted \in 0..Count
  /\ reason \in {"none", "error", "done", "end"}
  /\ result \in {"none", "nil", "error"}
  /\ labels \in Seq(1..Count) /\ Len(labels) <= QueueCap
  /\ publisher \in {"receive", "wait", "publish", "returned"}
  /\ queued \in 0..Count
  /\ labelErr \in {"empty", "nil", "error"}
  /\ transactions \subseteq 1..Count
  /\ sentLabels \in Seq(1..Count)

Init ==
  /\ paced \in BOOLEAN
  /\ emitter = "publish" /\ emitted = 0
  /\ reason = "none" /\ result = "none"
  /\ labels = << >> /\ labelErr = "empty"
  /\ publisher = "receive" /\ queued = 0
  /\ cancelled = FALSE
  /\ transactions = {} /\ sentLabels = << >>

(* The signal; when ctx is done already, it changes nothing. *)
Interrupt ==
  /\ ~cancelled /\ emitter # "returned"
  /\ cancelled' = TRUE
  /\ UNCHANGED <<run, labels, publishLabels, labelErr, topics>>

-----------------------------------------------------------------------------
(* run                                                                       *)

GoTo(place) == emitter' = place /\ UNCHANGED <<paced, emitted, reason, result>>

(* stop, up to its receive: a cause cuts the publisher short, a clean finish *)
(* does not.  From here on labels is closed.                                 *)
Stop(why) ==
  /\ emitter' = "join"
  /\ reason' = why
  /\ cancelled' = (cancelled \/ why = "error")
  /\ UNCHANGED <<paced, result>>

Closed == emitter \in {"join", "returned"}

(* Mistaken variant: stop on the paths where the result is already spent. *)
FailedThenStop ==
  /\ labelErr # "empty"
  /\ labelErr' = "empty"
  /\ Stop("error")
  /\ UNCHANGED <<emitted, labels, publishLabels, topics>>

(* failed: the publisher has exited, and its result is received here. *)
Failed ==
  /\ labelErr # "empty"
  /\ labelErr' = "empty"
  /\ emitter' = "returned"
  /\ result' = IF cancelled THEN "nil" ELSE labelErr
  /\ UNCHANGED <<paced, emitted, reason, labels, publishLabels, cancelled, topics>>

(* The ctx.Done() branch of both selects. *)
Interrupted ==
  /\ cancelled
  /\ Stop("done")
  /\ UNCHANGED <<emitted, labels, publishLabels, labelErr, topics>>

Tick ==
  /\ emitter = "pace"
  /\ GoTo("publish")
  /\ UNCHANGED <<labels, publishLabels, labelErr, cancelled, topics>>

PaceEnds == emitter = "pace" /\ (Failed \/ Interrupted)

TransactionSent ==
  /\ emitter = "publish"
  /\ transactions' = transactions \cup {emitted + 1}
  /\ GoTo("queue")
  /\ UNCHANGED <<labels, publishLabels, labelErr, cancelled, sentLabels>>

(* Mistaken variant: the error is only logged. *)
TransactionFailsUnnoticed ==
  /\ emitter = "publish"
  /\ GoTo("queue")
  /\ UNCHANGED <<labels, publishLabels, labelErr, cancelled, topics>>

(* Publish errs, and the record may be on the topic all the same. *)
TransactionFails ==
  /\ emitter = "publish"
  /\ Stop("error")
  /\ transactions' \in {transactions, transactions \cup {emitted + 1}}
  /\ UNCHANGED <<emitted, labels, publishLabels, labelErr, sentLabels>>

(* Mistaken variant: <=. *)
OneMore(n) == n <= Count

More(n) == n < Count

(* The label is queued, when there is room, and the loop goes on or ends. *)
Enqueue ==
  /\ emitter = "queue"
  /\ Len(labels) < QueueCap
  /\ labels' = Append(labels, emitted + 1)
  /\ emitted' = emitted + 1
  /\ IF More(emitted')
     THEN /\ emitter' = IF paced THEN "pace" ELSE "publish"
          /\ UNCHANGED <<paced, reason, result, cancelled>>
     ELSE Stop("end")
  /\ UNCHANGED <<publishLabels, labelErr, topics>>

QueueEnds == emitter = "queue" /\ (Failed \/ Interrupted)

Returns(error) ==
  /\ emitter' = "returned"
  /\ result' = error
  /\ UNCHANGED <<paced, emitted, reason, labels, publishLabels, cancelled, topics>>

(* Mistaken variant: the result of the publisher is received and dropped. *)
JoinIgnoring ==
  /\ emitter = "join" /\ labelErr # "empty"
  /\ labelErr' = "empty"
  /\ Returns(IF reason = "error" THEN "error" ELSE "nil")

(* Mistaken variant: the queue is closed and run returns. *)
JoinNobody ==
  /\ emitter = "join"
  /\ Returns(IF reason = "error" THEN "error" ELSE "nil")
  /\ UNCHANGED labelErr

(* The rest of stop: wait for the publisher's result, and choose the error. *)
Join ==
  /\ emitter = "join" /\ labelErr # "empty"
  /\ labelErr' = "empty"
  /\ Returns(IF reason = "error" THEN "error" ELSE IF cancelled THEN "nil" ELSE labelErr)

-----------------------------------------------------------------------------
(* publishLabels                                                             *)

Receive ==
  /\ publisher = "receive" /\ labels # << >>
  /\ publisher' = "wait"
  /\ queued' = Head(labels)
  /\ labels' = Tail(labels)
  /\ UNCHANGED <<run, labelErr, cancelled, topics>>

(* The goroutine sends its result and ends. *)
Return(error) ==
  /\ publisher' = "returned"
  /\ queued' = 0
  /\ labelErr' = error
  /\ UNCHANGED <<run, labels, cancelled>>

Drained ==
  /\ publisher = "receive" /\ labels = << >> /\ Closed
  /\ Return("nil")
  /\ UNCHANGED topics

(* The label is due, or was already. *)
Due ==
  /\ publisher = "wait"
  /\ publisher' = "publish"
  /\ UNCHANGED <<run, labels, queued, labelErr, cancelled, topics>>

DelayCut ==
  /\ publisher = "wait" /\ cancelled
  /\ Return("error")
  /\ UNCHANGED topics

LabelSent ==
  /\ publisher = "publish"
  /\ publisher' = "receive"
  /\ queued' = 0
  /\ sentLabels' = Append(sentLabels, queued)
  /\ UNCHANGED <<run, labels, labelErr, cancelled, transactions>>

LabelFails ==
  /\ publisher = "publish"
  /\ Return("error")
  /\ sentLabels' \in {sentLabels, Append(sentLabels, queued)}
  /\ UNCHANGED transactions

-----------------------------------------------------------------------------
PublishTransaction == TransactionSent \/ TransactionFails
PublishLabel == LabelSent \/ LabelFails
RunStep == Tick \/ PaceEnds \/ Enqueue \/ QueueEnds \/ Join
PublisherStep == Receive \/ Drained \/ Due \/ DelayCut

Next == RunStep \/ PublishTransaction \/ PublisherStep \/ PublishLabel \/ Interrupt

(* Goroutines are scheduled and timers fire.  Kafka may never answer: a      *)
(* publish returns for certain only when ctx is done.                        *)
Spec ==
  /\ Init /\ [][Next]_vars
  /\ WF_vars(RunStep) /\ WF_vars(cancelled /\ PublishTransaction)
  /\ WF_vars(PublisherStep) /\ WF_vars(cancelled /\ PublishLabel)

-----------------------------------------------------------------------------
(* When run returns, and with it closes the producer, the publisher has      *)
(* exited and its result has been received, on every one of the exit paths.  *)
ClosedIsQuiet == emitter = "returned" => publisher = "returned" /\ labelErr = "empty"

(* A run that returns nil and was not interrupted has published all of its   *)
(* transactions and all of their labels.  An interrupted one may return nil  *)
(* with labels dropped, and prints that it has published them all the same.  *)
CleanFinish ==
  result = "nil" /\ ~cancelled =>
    /\ transactions = 1..Count
    /\ sentLabels = [n \in 1..Count |-> n]

(* Labels are published in the order of their transactions, none left out    *)
(* before one that is published, and only behind their transactions.         *)
LabelsFollow ==
  \A i \in DOMAIN sentLabels : sentLabels[i] = i /\ i \in transactions

(* An interrupt and a failed run end, whatever Kafka does, also with a full  *)
(* queue and a publisher that has failed: nobody waits for a second result.  *)
InterruptEnds == cancelled ~> emitter = "returned"
=============================================================================
