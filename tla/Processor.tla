----------------------------- MODULE Processor -----------------------------
(* service.Processor: what HandleTransaction and HandleLabel do around the   *)
(* store (modules Store and Labels).  They validate, they score, and they    *)
(* count what happens in Metrics, which PipelineSnapshot summarises.  Many   *)
(* goroutines of one process run them at once.                               *)
EXTENDS Domain, Generator, Scoring, FiniteSets, FiniteSetsExt

CONSTANTS Goroutines,
          Times,     \* when events occur
          Histories, \* what Evaluate may have read: count, spend, seen flags
          Bounds,    \* the upper bounds of the latency buckets
          Durations, \* how long a call may have taken
          MaxCalls   \* bound on the calls

ASSUME ProcessorAssumption ==
  /\ IsFiniteSet(Goroutines)
  /\ Times # {} /\ Times \subseteq Nat \ {0}
  /\ Histories \subseteq
       [count : Nat, spend : Nat, seenMerchant : BOOLEAN, seenCountry : BOOLEAN]
  /\ Bounds # {} /\ Bounds \subseteq Nat \ {0} /\ IsFiniteSet(Bounds)
  /\ Durations \subseteq Nat /\ IsFiniteSet(Durations)
  /\ MaxCalls \in Nat

(* The least features that a fraud of the simulator can have, and the        *)
(* greatest of its normal transactions.                                      *)
LeastOfFraud ==
  [log_amount |-> Log1p[50000], foreign |-> 100, card_not_present |-> 100,
   risky_merchant |-> 100, nighttime |-> 0, tx_count_10m |-> 0, spend_1h |-> 0,
   new_merchant |-> 0, new_country |-> 0]
GreatestOfNormal ==
  [log_amount |-> Log1p[15249], foreign |-> 0, card_not_present |-> 0,
   risky_merchant |-> 0, nighttime |-> 100, tx_count_10m |-> 100, spend_1h |-> 100,
   new_merchant |-> 100, new_country |-> 100]

(* The artifact: no weight is negative, log1p grows, and the two extremes    *)
(* are on their side of a threshold.                                         *)
ASSUME ArtifactAssumption ==
  /\ IsFiniteSet(DOMAIN Weights) /\ \A f \in DOMAIN Weights : Weights[f] \in Nat
  /\ \A a \in {250, 15249, 50000, 199999} : Log1p[a] \in Nat
  /\ Log1p[250] <= Log1p[15249] /\ Log1p[50000] <= Log1p[199999]
  /\ Score(LeastOfFraud) >= Review
  /\ Score(GreatestOfNormal) < Escalate

VARIABLES
  call,    \* call[g]: the counter that g is to increment next, and for what
  calls,   \* how many calls there have been
  processed, duplicates, failures, actions, \* Metrics
  latency, \* latency[d]: how many calls were observed to take d
  \* history variables
  answers,  \* how often a handler answered with nil, and with an error
  verdicts, \* [spoilt, valid] of the events that were validated
  assessed  \* [fraud, action] of the assessments that were made

counters == <<processed, duplicates, failures, actions, latency>>
vars == <<call, calls, counters, answers, verdicts, assessed>>

Types == {"transaction", "label"}
Actions == {"no_action", "review", "escalate"}
Free == [at |-> "free"]

Init ==
  /\ call = [g \in Goroutines |-> Free] /\ calls = 0
  /\ processed = [t \in Types |-> 0]
  /\ duplicates = [t \in Types |-> 0]
  /\ failures = [t \in Types |-> 0]
  /\ actions = [a \in Actions |-> 0]
  /\ latency = [d \in Durations |-> 0]
  /\ answers = [nil |-> 0, error |-> 0]
  /\ verdicts = {} /\ assessed = {}

-----------------------------------------------------------------------------
(* The input: what the simulator emits, and the same with one field spoilt.  *)

Transactions(fraud) ==
  UNION {IF fraud THEN FraudTransactions(t) ELSE NormalTransactions(t) : t \in Times}
Labels == {Label(fraud, t, 5) : fraud \in BOOLEAN, t \in Times}

SpoiltTransactions ==
  LET t == CHOOSE x \in Transactions(FALSE) : TRUE
  IN  {[t EXCEPT !.schema_version = 2], [t EXCEPT !.event_id = ""],
       [t EXCEPT !.transaction_id = ""], [t EXCEPT !.account_id = ""],
       [t EXCEPT !.card_id = ""], [t EXCEPT !.occurred_at = 0],
       [t EXCEPT !.amount_minor = 0], [t EXCEPT !.currency = "EUR"],
       [t EXCEPT !.merchant.id = ""], [t EXCEPT !.merchant.category = ""],
       [t EXCEPT !.merchant.country = "GBR"], [t EXCEPT !.entry_mode = "swipe"]}
SpoiltLabels ==
  LET l == CHOOSE x \in Labels : x.is_fraud
  IN  {[l EXCEPT !.schema_version = 2], [l EXCEPT !.event_id = ""],
       [l EXCEPT !.transaction_id = ""], [l EXCEPT !.labelled_at = 0],
       [l EXCEPT !.fraud_type = ""]}

(* How an event of a type is validated.                                      *)
Verdicts ==
  [transaction |->
     {[spoilt |-> FALSE, valid |-> TransactionValid(t)] :
        t \in Transactions(TRUE) \cup Transactions(FALSE)}
     \cup {[spoilt |-> TRUE, valid |-> TransactionValid(t)] : t \in SpoiltTransactions},
   label |->
     {[spoilt |-> FALSE, valid |-> LabelValid(l)] : l \in Labels}
     \cup {[spoilt |-> TRUE, valid |-> LabelValid(l)] : l \in SpoiltLabels}]

(* What the callback of Evaluate recommends, whatever it is given to read.   *)
Assessments ==
  UNION {{[fraud |-> f, action |-> Decide(Score(Extract(t, h)))] :
            t \in Transactions(f), h \in Histories} : f \in BOOLEAN}

-----------------------------------------------------------------------------
Begin(g) == call[g] = Free /\ calls < MaxCalls /\ calls' = calls + 1
Inc(counter, i) == [counter EXCEPT ![i] = @ + 1]
Answer(how) == answers' = Inc(answers, how)

Validated(type, valid) ==
  \E v \in Verdicts[type] : v.valid = valid /\ verdicts' = verdicts \cup {v}

(* The event does not decode or validate.                                    *)
Rejects(g, type) ==
  /\ Begin(g) /\ Validated(type, FALSE)
  /\ failures' = Inc(failures, type) /\ Answer("error")
  /\ UNCHANGED <<call, processed, duplicates, actions, latency, assessed>>

(* The store fails, for now or for good.                                     *)
StoreFails(g, type) ==
  /\ Begin(g) /\ Validated(type, TRUE)
  /\ failures' = Inc(failures, type) /\ Answer("error")
  /\ UNCHANGED <<call, processed, duplicates, actions, latency, assessed>>

(* Mistaken variant: a duplicate counts as processed, too.                   *)
DuplicateProcessed(g, type) ==
  /\ Begin(g) /\ Validated(type, TRUE)
  /\ duplicates' = Inc(duplicates, type) /\ Answer("nil")
  /\ processed' = Inc(processed, type)
  /\ UNCHANGED <<call, failures, actions, latency, assessed>>

(* The store has the event already.                                          *)
Duplicate(g, type) ==
  /\ Begin(g) /\ Validated(type, TRUE)
  /\ duplicates' = Inc(duplicates, type) /\ Answer("nil")
  /\ UNCHANGED <<call, processed, failures, actions, latency, assessed>>

LabelCreated(g) ==
  /\ Begin(g) /\ Validated("label", TRUE)
  /\ processed' = Inc(processed, "label") /\ Answer("nil")
  /\ UNCHANGED <<call, duplicates, failures, actions, latency, assessed>>

(* Evaluate has committed an assessment; three counters are still to come.   *)
Assessed(g) ==
  /\ Begin(g) /\ Validated("transaction", TRUE)
  /\ \E a \in Assessments :
       /\ assessed' = assessed \cup {a}
       /\ call' = [call EXCEPT ![g] = [at |-> "processed", action |-> a.action]]
  /\ UNCHANGED <<counters, answers>>

CountProcessed(g) ==
  /\ call[g].at = "processed"
  /\ processed' = Inc(processed, "transaction")
  /\ call' = [call EXCEPT ![g].at = "actions"]
  /\ UNCHANGED <<calls, duplicates, failures, actions, latency, answers, verdicts, assessed>>

CountAction(g) ==
  /\ call[g].at = "actions"
  /\ actions' = Inc(actions, call[g].action)
  /\ call' = [call EXCEPT ![g].at = "latency"]
  /\ UNCHANGED <<calls, processed, duplicates, failures, latency, answers, verdicts, assessed>>

Observe(g) ==
  /\ call[g].at = "latency"
  /\ \E d \in Durations : latency' = Inc(latency, d)
  /\ call' = [call EXCEPT ![g] = Free]
  /\ Answer("nil")
  /\ UNCHANGED <<calls, processed, duplicates, failures, actions, verdicts, assessed>>

Next ==
  \E g \in Goroutines :
    \/ \E t \in Types : Rejects(g, t) \/ StoreFails(g, t) \/ Duplicate(g, t)
    \/ LabelCreated(g) \/ Assessed(g)
    \/ CountProcessed(g) \/ CountAction(g) \/ Observe(g)

Spec == Init /\ [][Next]_vars

-----------------------------------------------------------------------------
(* PipelineSnapshot's latencies.  The histogram shows, for each bound, the   *)
(* number of observations up to it, and the number of all.                   *)

SampleCount == SumFunction(latency)

(* Mistaken variant: the counts of the buckets by themselves.                *)
BucketCount(bound) ==
  SumFunctionOnSet(latency, {d \in Durations :
    d <= bound /\ \A b \in Bounds : b < bound => b < d})

Cumulative(bound) == SumFunctionOnSet(latency, {d \in Durations : d <= bound})

(* latencyQuantile, as a numerator and a denominator; q in hundredths.       *)
latencyQuantile(q) ==
  LET target == q * SampleCount
      reached == {b \in Bounds : 100 * Cumulative(b) >= target}
      bound == Min(reached)
      below == {b \in Bounds : b < bound}
      prevBound == IF below = {} THEN 0 ELSE Max(below)
      prevCount == IF below = {} THEN 0 ELSE Cumulative(prevBound)
      width == 100 * (Cumulative(bound) - prevCount)
  IN  IF SampleCount = 0 THEN <<0, 1>>
      ELSE IF reached = {} THEN <<Max(Bounds), 1>>
      ELSE IF width = 0 THEN <<bound, 1>>
      ELSE <<prevBound * width + (bound - prevBound) * (target - 100 * prevCount), width>>

-----------------------------------------------------------------------------
(* What the simulator emits passes Validate, and an event with one field     *)
(* missing or foreign does not: the two are kept apart in the code, and a    *)
(* disagreement would dead-letter a whole run, or store what cannot be used. *)
SpoiltIsRejected == \A v \in verdicts : v.valid = ~v.spoilt

(* The weights, the caps of the features and the thresholds fit together:    *)
(* a fraud of the simulator is sent to review at least, and none of its      *)
(* normal transactions is escalated, whatever the account did before.        *)
FraudStandsOut ==
  \A a \in assessed : IF a.fraud THEN a.action # "no_action" ELSE a.action # "escalate"

(* Every answer is counted once: nil as processed or duplicate, an error as  *)
(* a failure; and each assessment once under its action and in the           *)
(* histogram, save for the calls that are between their counters.            *)
AnswersCounted ==
  LET at(places) == Cardinality({g \in Goroutines : call[g].at \in places})
  IN  /\ answers.nil + at({"actions", "latency"}) = SumFunction(processed) + SumFunction(duplicates)
      /\ answers.error = SumFunction(failures)
      /\ SumFunction(actions) = processed["transaction"] - at({"actions"})
      /\ SampleCount = SumFunction(actions) - at({"latency"})

(* A reported percentile lies in the bucket of the call at that rank, or is  *)
(* the highest bound when the call took longer, and p50 <= p95 <= p99.       *)
AtMost(x, y) == x[1] * y[2] <= y[1] * x[2]
Ranked(q) ==
  CHOOSE d \in Durations :
    /\ 100 * SumFunctionOnSet(latency, {c \in Durations : c < d}) < q * SampleCount
    /\ 100 * SumFunctionOnSet(latency, {c \in Durations : c <= d}) >= q * SampleCount
InBucketOf(d, x) ==
  IF d > Max(Bounds) THEN x = <<Max(Bounds), 1>>
  ELSE \A b \in Bounds : IF d <= b THEN AtMost(x, <<Min({c \in Bounds : d <= c}), 1>>)
                                   ELSE AtMost(<<b, 1>>, x)
PercentilesInBucket ==
  SampleCount > 0 =>
    /\ \A q \in {50, 95, 99} : InBucketOf(Ranked(q), latencyQuantile(q))
    /\ AtMost(latencyQuantile(50), latencyQuantile(95))
    /\ AtMost(latencyQuantile(95), latencyQuantile(99))
=============================================================================
