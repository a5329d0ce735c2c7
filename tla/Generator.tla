----------------------------- MODULE Generator -----------------------------
(* internal/simulator: the events Generator.Next can return, by its draws.   *)
(* The amounts are the ends of the range each is drawn from; an account and  *)
(* an id stand for all.                                                      *)
EXTENDS Integers

Merchant(id, category, country) == [id |-> id, category |-> category, country |-> country]

normalMerchants ==
  {Merchant("grocer", "groceries", "GB"), Merchant("coffee", "eating_out", "GB"),
   Merchant("rail", "transport", "GB"), Merchant("books", "retail", "GB"),
   Merchant("streaming", "entertainment", "GB")}

fraudMerchants ==
  {Merchant("crypto", "crypto", "LT"), Merchant("casino", "gambling", "MT"),
   Merchant("transfer", "money_transfer", "RO")}

Transaction(m, mode, amount, at) ==
  [schema_version |-> 1, event_id |-> "transaction-1", transaction_id |-> "tx-1",
   occurred_at |-> at, account_id |-> "account-0001", card_id |-> "card-0001",
   amount_minor |-> amount, currency |-> "GBP", merchant |-> m, entry_mode |-> mode]

NormalTransactions(at) ==
  {Transaction(m, mode, amount, at) :
     m \in normalMerchants, mode \in {"chip", "contactless"}, amount \in {250, 15249}}

FraudTransactions(at) ==
  {Transaction(m, "ecommerce", amount, at) : m \in fraudMerchants, amount \in {50000, 199999}}

Label(fraud, at, delay) ==
  [schema_version |-> 1, event_id |-> "label-1", transaction_id |-> "tx-1",
   labelled_at |-> at + delay, is_fraud |-> fraud,
   fraud_type |-> IF fraud THEN "card_not_present" ELSE ""]
=============================================================================
