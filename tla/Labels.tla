------------------------------- MODULE Labels -------------------------------
(* Ground-truth labels: Processor.HandleLabel and Postgres.StoreLabel store  *)
(* one verdict per transaction, and Postgres.ModelMetrics compares verdicts  *)
(* with decisions.  Labels and transactions come from different topics, so   *)
(* either may be first.  StoreLabel is one autocommit INSERT, which looks at *)
(* one key before it writes both: two steps, since another call may commit   *)
(* between them.  ModelMetrics is one query, which sees one snapshot.        *)
EXTENDS Integers, FiniteSets

CONSTANTS Transactions, \* transaction_ids
          Labels,       \* label events on the topic
          TxOf,         \* TxOf[l]: the transaction_id of l, the idempotency key
          IdOf,         \* IdOf[l]: the event_id of l
          Fraud,        \* labels with is_fraud
          Malformed,    \* labels that do not decode or validate
          Versions,     \* versions of the model, the empty string not one
          Sessions      \* handler calls that can be in progress at once

ASSUME LabelsAssumption ==
  /\ TxOf \in [Labels -> Transactions]
  /\ Fraud \subseteq Labels
  /\ Malformed \subseteq Labels
  /\ "" \notin Versions

VARIABLES
  assessments, \* [tx, version, flagged]: a decision, flagged unless no_action
  labels,      \* the label events whose rows are in fraud_labels
  session,     \* session[s]: the label a call is about to store
  checked,     \* the sessions whose INSERT has looked for its transaction_id
  answers      \* answers[l]: how HandleLabel has ended for l, retries apart
               \* (history variable)

vars == <<assessments, labels, session, checked, answers>>

Free == "free"
SameTx(l, m) == TxOf[l] = TxOf[m]
SameId(l, m) == IdOf[l] = IdOf[m]

(* Both keys of the table are unique, and so is an assessment.               *)
TypeOK ==
  /\ assessments \subseteq [tx : Transactions, version : Versions, flagged : BOOLEAN]
  /\ \A a, b \in assessments : a.tx = b.tx => a = b
  /\ labels \subseteq Labels \ Malformed
  /\ \A l, m \in labels : SameTx(l, m) \/ SameId(l, m) => l = m
  /\ session \in [Sessions -> (Labels \ Malformed) \cup {Free}]
  /\ checked \subseteq {s \in Sessions : session[s] # Free}
  /\ answers \in [Labels -> SUBSET {"ok", "rejected"}]

Init ==
  /\ assessments = {}
  /\ labels = {}
  /\ session = [s \in Sessions |-> Free]
  /\ checked = {}
  /\ answers = [l \in Labels |-> {}]

-----------------------------------------------------------------------------
(* A scored transaction: one row for good (Store), by whatever model runs.   *)
Assess(t, version, flagged) ==
  /\ \A a \in assessments : a.tx # t
  /\ assessments' = assessments \cup {[tx |-> t, version |-> version, flagged |-> flagged]}
  /\ UNCHANGED <<labels, session, checked, answers>>

AnswerTo(l, answer) == answers' = [answers EXCEPT ![l] = @ \cup {answer}]

(* A label reaches a handler: the first time, or again. *)
Receive(s, l) ==
  /\ session[s] = Free
  /\ IF l \in Malformed
     THEN AnswerTo(l, "rejected") /\ UNCHANGED session
     ELSE session' = [session EXCEPT ![s] = l] /\ UNCHANGED answers
  /\ UNCHANGED <<assessments, labels, checked>>

Release(s) == session' = [session EXCEPT ![s] = Free] /\ checked' = checked \ {s}

Labelled(t) == \E l \in labels : TxOf[l] = t
IdTaken(l) == \E m \in labels : SameId(l, m)

(* Mistaken variant: ON CONFLICT DO UPDATE, the last verdict wins. *)
CheckKeyUpdates(s) ==
  LET l == session[s]
  IN  /\ l # Free /\ s \notin checked
      /\ IF Labelled(TxOf[l])
         THEN /\ ~\E m \in labels : SameId(l, m) /\ ~SameTx(l, m)
              /\ labels' = {m \in labels : ~SameTx(l, m)} \cup {l}
              /\ AnswerTo(l, "ok") /\ Release(s)
         ELSE checked' = checked \cup {s} /\ UNCHANGED <<labels, session, answers>>
      /\ UNCHANGED assessments

(* INSERT ... ON CONFLICT (transaction_id) DO NOTHING begins by looking for  *)
(* the transaction_id: a second verdict is a duplicate.                      *)
CheckKey(s) ==
  LET l == session[s]
  IN  /\ l # Free /\ s \notin checked
      /\ IF Labelled(TxOf[l])
         THEN AnswerTo(l, "ok") /\ Release(s)
         ELSE checked' = checked \cup {s} /\ UNCHANGED <<session, answers>>
      /\ UNCHANGED <<assessments, labels>>

(* Mistaken variant: a bare ON CONFLICT DO NOTHING. *)
StoreAbsorbingAll(s) ==
  LET l == session[s]
  IN  /\ s \in checked
      /\ labels' = IF Labelled(TxOf[l]) \/ IdTaken(l) THEN labels ELSE labels \cup {l}
      /\ AnswerTo(l, "ok")
      /\ Release(s)
      /\ UNCHANGED assessments

(* Then the row is written, under an event_id that must be new: one that is  *)
(* stored is a unique violation even if it is this label's, delivered twice. *)
(* A verdict that has come meanwhile makes the statement start again, and    *)
(* find it.                                                                  *)
StoreLabel(s) ==
  LET l == session[s]
  IN  /\ s \in checked
      /\ IF IdTaken(l)
         THEN UNCHANGED labels /\ AnswerTo(l, "rejected")
         ELSE /\ labels' = IF Labelled(TxOf[l]) THEN labels ELSE labels \cup {l}
              /\ AnswerTo(l, "ok")
      /\ Release(s)
      /\ UNCHANGED assessments

(* The row is stored and the reply lost: the handler errs and is retried. *)
StoreUnknown(s) ==
  LET l == session[s]
  IN  /\ s \in checked
      /\ ~Labelled(TxOf[l]) /\ ~IdTaken(l)
      /\ labels' = labels \cup {l}
      /\ Release(s)
      /\ UNCHANGED <<assessments, answers>>

(* Mistaken variant: every failure of the statement is unprocessable. *)
FailForGood(s) ==
  /\ session[s] # Free
  /\ AnswerTo(session[s], "rejected")
  /\ Release(s)
  /\ UNCHANGED <<assessments, labels>>

(* The statement fails, the context ends or the process dies: the label      *)
(* comes again.                                                              *)
Fail(s) ==
  /\ session[s] # Free
  /\ Release(s)
  /\ UNCHANGED <<assessments, labels, answers>>

Next ==
  \/ \E t \in Transactions, v \in Versions, flagged \in BOOLEAN : Assess(t, v, flagged)
  \/ \E s \in Sessions : \/ \E l \in Labels : Receive(s, l)
                         \/ CheckKey(s) \/ StoreLabel(s) \/ StoreUnknown(s) \/ Fail(s)

Spec == Init /\ [][Next]_vars

-----------------------------------------------------------------------------
(* The LEFT JOIN: is_fraud of a transaction without a label is NULL, which   *)
(* neither l.is_fraud nor NOT l.is_fraud lets through a FILTER.              *)
IsFraud(t) == \E l \in labels : TxOf[l] = t /\ l \in Fraud

(* Mistaken variant: l.is_fraud IS NOT TRUE. *)
IsNotTrue(t) == ~IsFraud(t)

IsNotFraud(t) == \E l \in labels : TxOf[l] = t /\ l \notin Fraud

(* The empty version stands for all of them. *)
ModelMetrics(version) ==
  LET rows == {a \in assessments : version = "" \/ a.version = version}
  IN  [total |-> Cardinality(rows),
       labelled |-> Cardinality({a \in rows : Labelled(a.tx)}),
       truePositive |-> Cardinality({a \in rows : IsFraud(a.tx) /\ a.flagged}),
       falsePositive |-> Cardinality({a \in rows : IsNotFraud(a.tx) /\ a.flagged}),
       trueNegative |-> Cardinality({a \in rows : IsNotFraud(a.tx) /\ ~a.flagged}),
       falseNegative |-> Cardinality({a \in rows : IsFraud(a.tx) /\ ~a.flagged})]

(* Quotients are kept as pairs; that of nothing is zero. *)
Ratio(numerator, denominator) ==
  IF denominator = 0 THEN <<0, 1>> ELSE <<numerator, denominator>>

Rates(m) ==
  [precision |-> Ratio(m.truePositive, m.truePositive + m.falsePositive),
   recall |-> Ratio(m.truePositive, m.truePositive + m.falseNegative),
   falsePositiveRate |-> Ratio(m.falsePositive, m.falsePositive + m.trueNegative),
   coverage |-> Ratio(m.labelled, m.total)]

-----------------------------------------------------------------------------
(* The offset of a label is committed only if its transaction has a verdict: *)
(* "duplicate label ignored" is never said of a label that was dropped.      *)
AcknowledgedIsLabelled ==
  \A l \in Labels : "ok" \in answers[l] => Labelled(TxOf[l])

(* A label is dead-lettered only if it is malformed, or if its event_id is   *)
(* stored for good: by another transaction's label, or by an overlapping     *)
(* delivery of its own transaction's, which has its verdict then.            *)
RejectedForGood ==
  \A l \in Labels : "rejected" \in answers[l] => l \in Malformed \/ IdTaken(l)

(* The confusion matrix of every version counts each labelled transaction    *)
(* once and no other, so that no rate exceeds one, in whatever order labels  *)
(* and transactions arrive; and the versions add up to the whole.            *)
CountsAddUp ==
  \A version \in Versions \cup {""} :
    LET m == ModelMetrics(version)
        rates == Rates(m)
    IN  /\ m.truePositive + m.falsePositive + m.trueNegative + m.falseNegative = m.labelled
        /\ \A rate \in DOMAIN rates : rates[rate][1] <= rates[rate][2]
VersionsAddUp ==
  Cardinality(UNION {{version} \X (1..ModelMetrics(version).labelled) : version \in Versions})
    = ModelMetrics("").labelled
MatrixAddsUp == CountsAddUp /\ VersionsAddUp

(* No count of a report is ever smaller than in an earlier report: verdicts  *)
(* and decisions are made once, whatever is delivered again.                 *)
NothingShrinks ==
  \A version \in Versions \cup {""} :
    LET before == ModelMetrics(version)
        after == ModelMetrics(version)'
    IN  \A count \in DOMAIN before : before[count] <= after[count]
ReportsGrow == [][NothingShrinks]_vars
=============================================================================
