------------------------------- MODULE Domain -------------------------------
(* internal/domain: which events Validate lets through.  A time is a number  *)
(* of minutes, 0 for the zero time.                                          *)
EXTENDS Integers, Sequences

SchemaVersion == 1

(* The length of the country codes that occur.                               *)
ASSUME CodeLengths ==
  Len("GB") = 2 /\ Len("LT") = 2 /\ Len("MT") = 2 /\ Len("RO") = 2 /\ Len("GBR") = 3

EntryModes == {"chip", "contactless", "ecommerce"}

(* Mistaken variant: the currency is not looked at.                          *)
TransactionValidAnyCurrency(t) ==
  /\ t.schema_version = SchemaVersion
  /\ "" \notin {t.event_id, t.transaction_id, t.account_id, t.card_id}
  /\ t.occurred_at # 0
  /\ t.amount_minor > 0
  /\ t.merchant.id # "" /\ t.merchant.category # "" /\ Len(t.merchant.country) = 2
  /\ t.entry_mode \in EntryModes

(* TransactionCreated.Validate *)
TransactionValid(t) ==
  /\ t.schema_version = SchemaVersion
  /\ "" \notin {t.event_id, t.transaction_id, t.account_id, t.card_id}
  /\ t.occurred_at # 0
  /\ t.amount_minor > 0
  /\ t.currency = "GBP"
  /\ t.merchant.id # "" /\ t.merchant.category # "" /\ Len(t.merchant.country) = 2
  /\ t.entry_mode \in EntryModes

(* FraudLabel.Validate *)
LabelValid(l) ==
  /\ l.schema_version = SchemaVersion
  /\ l.event_id # "" /\ l.transaction_id # "" /\ l.labelled_at # 0
  /\ l.is_fraud => l.fraud_type # ""
=============================================================================
