---------------------------- MODULE MCProcessor ----------------------------
(* Processor with the weights and thresholds that are shipped, the histories *)
(* at and around the caps of the features, and hours around those of night.  *)
EXTENDS Processor, TLC

InterceptValue == -60000
WeightsValue ==
  [log_amount |-> 55, foreign |-> 125, card_not_present |-> 110, risky_merchant |-> 160,
   nighttime |-> 45, tx_count_10m |-> 130, spend_1h |-> 150, new_merchant |-> 50,
   new_country |-> 75]
\* log1p(a / 100) in hundredths; 0.85 and 0.65 as logits
Log1pValue == (250 :> 125) @@ (15249 :> 503) @@ (50000 :> 622) @@ (199999 :> 760)
EscalateValue == 17346
ReviewValue == 6190

TimesValue == {h * 60 : h \in {5, 6, 22, 23}}
HistoriesValue ==
  [count : {0, 9, 10, 11}, spend : {0, 199999, 200000, 400000},
   seenMerchant : BOOLEAN, seenCountry : BOOLEAN]
Symmetry == Permutations(Goroutines)
=============================================================================
