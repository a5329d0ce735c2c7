------------------------------ MODULE Scoring ------------------------------
(* features.Extract, Logistic.Score and Thresholds.Decide.  A feature and a  *)
(* weight are in hundredths, a logit in ten-thousandths.  The sigmoid grows  *)
(* strictly, so that scores are compared by their logits.                    *)
EXTENDS Integers, Functions

CONSTANTS Intercept, \* of the model artifact
          Weights,   \* Weights[f]: the weight of feature f
          Review,    \* the logits of the two thresholds
          Escalate,
          Log1p      \* Log1p[a]: log1p(a / 100), for each amount a there is

(* policy.New refuses anything else, and Load an artifact without weights.   *)
ASSUME ScoringAssumption ==
  /\ Review \in Int /\ Escalate \in Int /\ Review < Escalate
  /\ Intercept \in Int /\ DOMAIN Weights # {}

Least(x, y) == IF x < y THEN x ELSE y
Flag(b) == IF b THEN 100 ELSE 0

(* Mistaken variant: one is left out.                                       *)
RiskyButOne == {"crypto", "gambling"}

riskyCategories == {"crypto", "gambling", "money_transfer"}
Hour(at) == (at \div 60) % 24

(* Ten transactions and 2000 pounds are as much as counts.                   *)
Extract(tx, history) ==
  [log_amount |-> Log1p[tx.amount_minor],
   foreign |-> Flag(tx.merchant.country # "GB"),
   card_not_present |-> Flag(tx.entry_mode = "ecommerce"),
   risky_merchant |-> Flag(tx.merchant.category \in riskyCategories),
   nighttime |-> Flag(Hour(tx.occurred_at) < 6 \/ Hour(tx.occurred_at) >= 23),
   tx_count_10m |-> Least(history.count, 10) * 10,
   spend_1h |-> Least(history.spend, 200000) \div 2000,
   new_merchant |-> Flag(~history.seenMerchant),
   new_country |-> Flag(~history.seenCountry)]

(* A weight of a feature that Extract does not return counts for nothing.    *)
Score(vector) ==
  LET contribution == [f \in DOMAIN Weights |->
        IF f \in DOMAIN vector THEN Weights[f] * vector[f] ELSE 0]
  IN  Intercept + SumFunction(contribution)

Decide(logit) ==
  IF logit >= Escalate THEN "escalate"
  ELSE IF logit >= Review THEN "review" ELSE "no_action"
=============================================================================
