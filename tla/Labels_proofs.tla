--------------------------- MODULE Labels_proofs ---------------------------
(* Theorems about Labels, for every set of labels, every reuse of their keys *)
(* and any number of calls in progress.                                      *)
EXTENDS Labels, FiniteSetTheorems, TLAPS

-----------------------------------------------------------------------------
(* Types and keys                                                            *)

(* The initial state is well typed. *)
LEMMA InitType == Init => TypeOK
BY DEF Init, TypeOK

(* A call that is about to store a label has decoded it. *)
LEMMA HeldIsALabel ==
  ASSUME TypeOK, NEW s \in Sessions, session[s] # Free
  PROVE  session[s] \in Labels \ Malformed
BY DEF TypeOK

(* An answer keeps the type of answers, and takes none away. *)
LEMMA AnswerType ==
  ASSUME TypeOK, NEW l \in Labels, NEW answer \in {"ok", "rejected"}, AnswerTo(l, answer)
  PROVE  /\ answers' \in [Labels -> SUBSET {"ok", "rejected"}]
         /\ answers'[l] = answers[l] \cup {answer}
         /\ \A m \in Labels \ {l} : answers'[m] = answers[m]
BY DEF TypeOK, AnswerTo

(* A call that has looked for its transaction_id has a label to store. *)
LEMMA CheckedHolds ==
  ASSUME TypeOK, NEW s \in Sessions, s \in checked
  PROVE  session[s] # Free
BY DEF TypeOK

(* A call that ends keeps the types of session and checked. *)
LEMMA ReleaseType ==
  ASSUME TypeOK, NEW s \in Sessions, Release(s)
  PROVE  /\ session' \in [Sessions -> (Labels \ Malformed) \cup {Free}]
         /\ checked' \subseteq {t \in Sessions : session'[t] # Free}
BY DEF TypeOK, Release

(* A label whose transaction has none, and whose event_id is free, goes into *)
(* the table and leaves both keys unique.                                    *)
LEMMA InsertKeepsKeys ==
  ASSUME TypeOK, NEW l \in Labels \ Malformed, ~Labelled(TxOf[l]), ~IdTaken(l)
  PROVE  /\ labels \cup {l} \subseteq Labels \ Malformed
         /\ \A m, n \in labels \cup {l} : SameTx(m, n) \/ SameId(m, n) => m = n
BY DEF TypeOK, Labelled, IdTaken, SameTx, SameId

(* Every step keeps every type and both keys. *)
LEMMA NextType == TypeOK /\ [Next]_vars => TypeOK'
<1> SUFFICES ASSUME TypeOK, [Next]_vars PROVE TypeOK' OBVIOUS
<1>1. CASE UNCHANGED vars BY <1>1 DEF vars, TypeOK, SameTx, SameId
<1>2. ASSUME NEW t \in Transactions, NEW v \in Versions, NEW flagged \in BOOLEAN,
             Assess(t, v, flagged)
      PROVE  TypeOK'
  BY <1>2 DEF Assess, TypeOK, SameTx, SameId
<1>3. ASSUME NEW s \in Sessions, NEW l \in Labels, Receive(s, l) PROVE TypeOK'
  <2>1. CASE l \in Malformed
    BY <1>3, <2>1, AnswerType DEF Receive, TypeOK, SameTx, SameId
  <2>2. CASE l \notin Malformed BY <1>3, <2>2 DEF Receive, TypeOK, SameTx, SameId
  <2> QED BY <2>1, <2>2
<1>4. ASSUME NEW s \in Sessions, StoreLabel(s) PROVE TypeOK'
  <2> DEFINE l == session[s]
  <2>1. l \in Labels \ Malformed BY <1>4, CheckedHolds, HeldIsALabel DEF StoreLabel
  <2>2. /\ session' \in [Sessions -> (Labels \ Malformed) \cup {Free}]
        /\ checked' \subseteq {t \in Sessions : session'[t] # Free}
    BY <1>4, ReleaseType DEF StoreLabel
  <2>3. answers' \in [Labels -> SUBSET {"ok", "rejected"}]
    BY <1>4, <2>1, AnswerType DEF StoreLabel
  <2>4. \/ UNCHANGED labels
        \/ ~Labelled(TxOf[l]) /\ ~IdTaken(l) /\ labels' = labels \cup {l}
    BY <1>4 DEF StoreLabel
  <2>5. /\ labels' \subseteq Labels \ Malformed
        /\ \A m, n \in labels' : SameTx(m, n) \/ SameId(m, n) => m = n
    BY <2>1, <2>4, InsertKeepsKeys DEF TypeOK
  <2> QED BY <1>4, <2>2, <2>3, <2>5 DEF StoreLabel, TypeOK, SameTx, SameId
<1>5. ASSUME NEW s \in Sessions, StoreUnknown(s) PROVE TypeOK'
  <2>1. session[s] \in Labels \ Malformed
    BY <1>5, CheckedHolds, HeldIsALabel DEF StoreUnknown
  <2>2. /\ session' \in [Sessions -> (Labels \ Malformed) \cup {Free}]
        /\ checked' \subseteq {t \in Sessions : session'[t] # Free}
    BY <1>5, ReleaseType DEF StoreUnknown
  <2>3. /\ labels' \subseteq Labels \ Malformed
        /\ \A m, n \in labels' : SameTx(m, n) \/ SameId(m, n) => m = n
    BY <1>5, <2>1, InsertKeepsKeys DEF StoreUnknown
  <2> QED BY <1>5, <2>2, <2>3 DEF StoreUnknown, TypeOK, SameTx, SameId
<1>6. ASSUME NEW s \in Sessions, Fail(s) PROVE TypeOK'
  BY <1>6, ReleaseType DEF Fail, TypeOK, SameTx, SameId
<1>7. ASSUME NEW s \in Sessions, CheckKey(s) PROVE TypeOK'
  <2>1. session[s] \in Labels \ Malformed BY <1>7, HeldIsALabel DEF CheckKey
  <2>2. CASE Labelled(TxOf[session[s]])
    BY <1>7, <2>1, <2>2, ReleaseType, AnswerType DEF CheckKey, TypeOK, SameTx, SameId
  <2>3. CASE ~Labelled(TxOf[session[s]])
    BY <1>7, <2>1, <2>3 DEF CheckKey, TypeOK, Free, SameTx, SameId
  <2> QED BY <2>2, <2>3
<1> QED BY <1>1, <1>2, <1>3, <1>4, <1>5, <1>6, <1>7 DEF Next

(* The tables keep their types, one verdict per transaction and one row per  *)
(* event_id, whatever calls overlap, fail and are repeated.                  *)
THEOREM TypeCorrect == Spec => []TypeOK
BY InitType, NextType, PTL DEF Spec

-----------------------------------------------------------------------------
(* Answers                                                                   *)

(* No row is ever deleted or updated. *)
LEMMA LabelsGrow == [Next]_vars => labels \subseteq labels'
BY DEF Next, Assess, Receive, CheckKey, StoreLabel, StoreUnknown, Fail, vars

(* Whatever an answer rests on stays true. *)
LEMMA GroundsStay ==
  ASSUME labels \subseteq labels'
  PROVE  /\ \A l \in Labels : Labelled(TxOf[l]) => Labelled(TxOf[l])'
         /\ \A l \in Labels : IdTaken(l) => IdTaken(l)'
BY DEF Labelled, IdTaken, SameId

(* A step that gives no answer, or gives one with its grounds. *)
Answers(l, answer) ==
  /\ AnswerTo(l, answer)
  /\ answer = "ok" => Labelled(TxOf[l])'
  /\ answer = "rejected" => l \in Malformed \/ IdTaken(l)

(* Every answer has its grounds when it is given. *)
LEMMA AnswersHaveGrounds ==
  ASSUME TypeOK, [Next]_vars
  PROVE  \/ UNCHANGED answers
         \/ \E l \in Labels, answer \in {"ok", "rejected"} : Answers(l, answer)
<1>1. CASE UNCHANGED vars BY <1>1 DEF vars
<1>2. ASSUME NEW t \in Transactions, NEW v \in Versions, NEW flagged \in BOOLEAN,
             Assess(t, v, flagged)
      PROVE  UNCHANGED answers
  BY <1>2 DEF Assess
<1>3. ASSUME NEW s \in Sessions, NEW l \in Labels, Receive(s, l)
      PROVE  UNCHANGED answers \/ Answers(l, "rejected")
  BY <1>3 DEF Receive, Answers
<1>4. ASSUME NEW s \in Sessions, StoreLabel(s)
      PROVE  \E l \in Labels, answer \in {"ok", "rejected"} : Answers(l, answer)
  <2>1. PICK l \in Labels \ Malformed : l = session[s]
    BY <1>4, CheckedHolds, HeldIsALabel DEF StoreLabel
  <2>2. CASE IdTaken(l)
    <3>1. AnswerTo(l, "rejected") BY <1>4, <2>1, <2>2 DEF StoreLabel
    <3>2. Answers(l, "rejected") BY <2>2, <3>1 DEF Answers
    <3> QED BY <2>1, <3>2
  <2>3. CASE ~IdTaken(l)
    <3>1. /\ AnswerTo(l, "ok")
          /\ labels' = IF Labelled(TxOf[l]) THEN labels ELSE labels \cup {l}
      BY <1>4, <2>1, <2>3 DEF StoreLabel
    <3>2. Labelled(TxOf[l])' BY <3>1 DEF Labelled
    <3>3. Answers(l, "ok") BY <3>1, <3>2 DEF Answers
    <3> QED BY <2>1, <3>3
  <2> QED BY <2>2, <2>3
<1>5. ASSUME NEW s \in Sessions, StoreUnknown(s) \/ Fail(s) PROVE UNCHANGED answers
  BY <1>5 DEF StoreUnknown, Fail
<1>6. ASSUME NEW s \in Sessions, CheckKey(s)
      PROVE  \/ UNCHANGED answers
             \/ \E l \in Labels, answer \in {"ok", "rejected"} : Answers(l, answer)
  <2>1. PICK l \in Labels \ Malformed : l = session[s]
    BY <1>6, HeldIsALabel DEF CheckKey
  <2>2. CASE Labelled(TxOf[l])
    <3>1. AnswerTo(l, "ok") /\ UNCHANGED labels BY <1>6, <2>1, <2>2 DEF CheckKey
    <3>2. Answers(l, "ok") BY <2>2, <3>1 DEF Answers, Labelled
    <3> QED BY <2>1, <3>2
  <2>3. CASE ~Labelled(TxOf[l]) BY <1>6, <2>1, <2>3 DEF CheckKey
  <2> QED BY <2>2, <2>3
<1> QED BY <1>1, <1>2, <1>3, <1>4, <1>5, <1>6 DEF Next

(* Acknowledged labels have a verdict, rejected ones a reason. *)
AnswersInv == AcknowledgedIsLabelled /\ RejectedForGood

(* Nothing is answered at first. *)
LEMMA InitAnswers == Init => AnswersInv
BY DEF Init, AnswersInv, AcknowledgedIsLabelled, RejectedForGood, IdTaken

(* Every step keeps the grounds of every answer. *)
LEMMA NextAnswers == TypeOK /\ AnswersInv /\ [Next]_vars => AnswersInv'
<1> SUFFICES ASSUME TypeOK, AnswersInv, [Next]_vars PROVE AnswersInv' OBVIOUS
<1>1. labels \subseteq labels' BY LabelsGrow
<1>2. CASE UNCHANGED answers
  BY <1>1, <1>2, GroundsStay DEF AnswersInv, AcknowledgedIsLabelled, RejectedForGood
<1>3. ASSUME NEW l \in Labels, NEW answer \in {"ok", "rejected"}, Answers(l, answer)
      PROVE  AnswersInv'
  <2>1. /\ answers'[l] = answers[l] \cup {answer}
        /\ \A m \in Labels \ {l} : answers'[m] = answers[m]
    BY <1>3, AnswerType DEF Answers
  <2>2. ASSUME NEW m \in Labels, "ok" \in answers'[m] PROVE Labelled(TxOf[m])'
    <3>1. CASE "ok" \in answers[m]
      BY <1>1, <3>1, GroundsStay DEF AnswersInv, AcknowledgedIsLabelled
    <3>2. CASE "ok" \notin answers[m] BY <1>3, <2>1, <2>2, <3>2 DEF Answers
    <3> QED BY <3>1, <3>2
  <2>3. ASSUME NEW m \in Labels, "rejected" \in answers'[m]
        PROVE  m \in Malformed \/ IdTaken(m)'
    <3>1. CASE "rejected" \in answers[m]
      BY <1>1, <3>1, GroundsStay DEF AnswersInv, RejectedForGood
    <3>2. CASE "rejected" \notin answers[m]
      <4>1. m = l /\ answer = "rejected" BY <2>1, <2>3, <3>2
      <4> QED BY <1>1, <1>3, <4>1, GroundsStay DEF Answers
    <3> QED BY <3>1, <3>2
  <2> QED BY <2>2, <2>3 DEF AnswersInv, AcknowledgedIsLabelled, RejectedForGood
<1> QED BY <1>2, <1>3, AnswersHaveGrounds

(* A label's offset is committed only when its transaction has a verdict. *)
THEOREM LabelNotDropped == Spec => []AcknowledgedIsLabelled
<1>1. Spec => []AnswersInv
  BY InitType, NextType, InitAnswers, NextAnswers, PTL DEF Spec
<1> QED BY <1>1, PTL DEF AnswersInv

(* A label that is dead-lettered is malformed, or its event_id is stored for *)
(* good: no good label is lost because a call is in progress or has failed.  *)
THEOREM LabelRejectedForGood == Spec => []RejectedForGood
<1>1. Spec => []AnswersInv
  BY InitType, NextType, InitAnswers, NextAnswers, PTL DEF Spec
<1> QED BY <1>1, PTL DEF AnswersInv

-----------------------------------------------------------------------------
(* The report                                                                *)

(* The decisions a report on a version is about, and those that each of its  *)
(* numbers counts.                                                           *)
Decisions(version) == {a \in assessments : version = "" \/ a.version = version}
WithLabel(version) == {a \in Decisions(version) : Labelled(a.tx)}
HitFraud(version) == {a \in Decisions(version) : IsFraud(a.tx) /\ a.flagged}
HitOther(version) == {a \in Decisions(version) : IsNotFraud(a.tx) /\ a.flagged}
PassedOther(version) == {a \in Decisions(version) : IsNotFraud(a.tx) /\ ~a.flagged}
PassedFraud(version) == {a \in Decisions(version) : IsFraud(a.tx) /\ ~a.flagged}

(* A report has six numbers, each the size of a set of decisions. *)
LEMMA ReportCounts ==
  ASSUME NEW version
  PROVE  /\ DOMAIN ModelMetrics(version) =
              {"total", "labelled", "truePositive", "falsePositive", "trueNegative",
               "falseNegative"}
         /\ ModelMetrics(version).total = Cardinality(Decisions(version))
         /\ ModelMetrics(version).labelled = Cardinality(WithLabel(version))
         /\ ModelMetrics(version).truePositive = Cardinality(HitFraud(version))
         /\ ModelMetrics(version).falsePositive = Cardinality(HitOther(version))
         /\ ModelMetrics(version).trueNegative = Cardinality(PassedOther(version))
         /\ ModelMetrics(version).falseNegative = Cardinality(PassedFraud(version))
BY DEF ModelMetrics, Decisions, WithLabel, HitFraud, HitOther, PassedOther, PassedFraud

(* The same of the next state. *)
LEMMA ReportCountsNext ==
  ASSUME NEW version
  PROVE  /\ ModelMetrics(version)'.total = Cardinality(Decisions(version)')
         /\ ModelMetrics(version)'.labelled = Cardinality(WithLabel(version)')
         /\ ModelMetrics(version)'.truePositive = Cardinality(HitFraud(version)')
         /\ ModelMetrics(version)'.falsePositive = Cardinality(HitOther(version)')
         /\ ModelMetrics(version)'.trueNegative = Cardinality(PassedOther(version)')
         /\ ModelMetrics(version)'.falseNegative = Cardinality(PassedFraud(version)')
BY DEF ModelMetrics, Decisions, WithLabel, HitFraud, HitOther, PassedOther, PassedFraud

(* No decision is revised, and there are finitely many at any time. *)
LEMMA DecisionsGrow ==
  ASSUME [Next]_vars
  PROVE  /\ assessments \subseteq assessments'
         /\ IsFiniteSet(assessments) => IsFiniteSet(assessments')
<1>1. ASSUME NEW t \in Transactions, NEW v \in Versions, NEW flagged \in BOOLEAN,
             Assess(t, v, flagged)
      PROVE  /\ assessments \subseteq assessments'
             /\ IsFiniteSet(assessments) => IsFiniteSet(assessments')
  BY <1>1, FS_AddElement DEF Assess
<1>2. CASE UNCHANGED assessments BY <1>2
<1> QED BY <1>1, <1>2 DEF Next, Receive, CheckKey, StoreLabel, StoreUnknown, Fail, vars

(* The table of decisions is finite. *)
LEMMA FiniteDecisions == Spec => []IsFiniteSet(assessments)
<1>1. Init => IsFiniteSet(assessments) BY FS_EmptySet DEF Init
<1>2. IsFiniteSet(assessments) /\ [Next]_vars => IsFiniteSet(assessments)'
  BY DecisionsGrow
<1> QED BY <1>1, <1>2, PTL DEF Spec

(* Each of the sets of a report is part of the same set of a later report. *)
LEMMA ReportSetsGrow ==
  ASSUME assessments \subseteq assessments', labels \subseteq labels', NEW version
  PROVE  /\ Decisions(version) \subseteq Decisions(version)'
         /\ WithLabel(version) \subseteq WithLabel(version)'
         /\ HitFraud(version) \subseteq HitFraud(version)'
         /\ HitOther(version) \subseteq HitOther(version)'
         /\ PassedOther(version) \subseteq PassedOther(version)'
         /\ PassedFraud(version) \subseteq PassedFraud(version)'
BY DEF Decisions, WithLabel, HitFraud, HitOther, PassedOther, PassedFraud,
       Labelled, IsFraud, IsNotFraud

(* All of them are parts of the table. *)
LEMMA ReportSetsFinite ==
  ASSUME IsFiniteSet(assessments), NEW version
  PROVE  /\ IsFiniteSet(Decisions(version)) /\ IsFiniteSet(WithLabel(version))
         /\ IsFiniteSet(HitFraud(version)) /\ IsFiniteSet(HitOther(version))
         /\ IsFiniteSet(PassedOther(version)) /\ IsFiniteSet(PassedFraud(version))
<1>1. \A S \in SUBSET assessments : IsFiniteSet(S) BY FS_Subset
<1>2. /\ Decisions(version) \subseteq assessments /\ WithLabel(version) \subseteq assessments
      /\ HitFraud(version) \subseteq assessments /\ HitOther(version) \subseteq assessments
      /\ PassedOther(version) \subseteq assessments
      /\ PassedFraud(version) \subseteq assessments
  BY DEF Decisions, WithLabel, HitFraud, HitOther, PassedOther, PassedFraud
<1> QED BY <1>1, <1>2

(* No step makes a number of a report smaller. *)
LEMMA NextShrinksNothing ==
  IsFiniteSet(assessments) /\ IsFiniteSet(assessments)' /\ [Next]_vars => NothingShrinks
<1> SUFFICES ASSUME IsFiniteSet(assessments'), [Next]_vars,
                    NEW version \in Versions \cup {""}
             PROVE  \A count \in DOMAIN ModelMetrics(version) :
                      ModelMetrics(version)[count] <= ModelMetrics(version)'[count]
  BY DEF NothingShrinks
<1>1. \A T \in SUBSET assessments' : \A S \in SUBSET T : Cardinality(S) <= Cardinality(T)
  BY FS_Subset
<1>2. /\ Decisions(version)' \subseteq assessments' /\ WithLabel(version)' \subseteq assessments'
      /\ HitFraud(version)' \subseteq assessments' /\ HitOther(version)' \subseteq assessments'
      /\ PassedOther(version)' \subseteq assessments'
      /\ PassedFraud(version)' \subseteq assessments'
  BY DEF Decisions, WithLabel, HitFraud, HitOther, PassedOther, PassedFraud
<1>3. /\ Decisions(version) \subseteq Decisions(version)'
      /\ WithLabel(version) \subseteq WithLabel(version)'
      /\ HitFraud(version) \subseteq HitFraud(version)'
      /\ HitOther(version) \subseteq HitOther(version)'
      /\ PassedOther(version) \subseteq PassedOther(version)'
      /\ PassedFraud(version) \subseteq PassedFraud(version)'
  BY DecisionsGrow, LabelsGrow, ReportSetsGrow
<1>4. /\ Cardinality(Decisions(version)) <= Cardinality(Decisions(version)')
      /\ Cardinality(WithLabel(version)) <= Cardinality(WithLabel(version)')
      /\ Cardinality(HitFraud(version)) <= Cardinality(HitFraud(version)')
      /\ Cardinality(HitOther(version)) <= Cardinality(HitOther(version)')
      /\ Cardinality(PassedOther(version)) <= Cardinality(PassedOther(version)')
      /\ Cardinality(PassedFraud(version)) <= Cardinality(PassedFraud(version)')
  BY <1>1, <1>2, <1>3
<1>5. /\ ModelMetrics(version).total <= ModelMetrics(version)'.total
      /\ ModelMetrics(version).labelled <= ModelMetrics(version)'.labelled
      /\ ModelMetrics(version).truePositive <= ModelMetrics(version)'.truePositive
      /\ ModelMetrics(version).falsePositive <= ModelMetrics(version)'.falsePositive
      /\ ModelMetrics(version).trueNegative <= ModelMetrics(version)'.trueNegative
      /\ ModelMetrics(version).falseNegative <= ModelMetrics(version)'.falseNegative
  BY <1>4, ReportCounts, ReportCountsNext
<1>6. DOMAIN ModelMetrics(version) =
        {"total", "labelled", "truePositive", "falsePositive", "trueNegative", "falseNegative"}
  BY ReportCounts
<1> QED BY <1>5, <1>6

(* A report never shows less than an earlier one. *)
THEOREM NoReportShrinks == Spec => ReportsGrow
BY FiniteDecisions, NextShrinksNothing, PTL DEF Spec, ReportsGrow

(* Two parts without a common element count for their sum. *)
LEMMA DisjointSum ==
  ASSUME NEW S, NEW T, IsFiniteSet(S), IsFiniteSet(T), S \cap T = {}
  PROVE  /\ IsFiniteSet(S \cup T)
         /\ Cardinality(S \cup T) = Cardinality(S) + Cardinality(T)
<1>1. Cardinality(S \cap T) = 0 BY FS_EmptySet
<1> QED BY <1>1, FS_Union, FS_CardinalityType

(* One verdict per transaction puts each labelled decision into one cell. *)
LEMMA CellsAddUp ==
  ASSUME TypeOK, IsFiniteSet(assessments), NEW version
  PROVE  /\ Cardinality(HitFraud(version)) + Cardinality(HitOther(version))
              + Cardinality(PassedOther(version)) + Cardinality(PassedFraud(version))
              = Cardinality(WithLabel(version))
         /\ Cardinality(WithLabel(version)) <= Cardinality(Decisions(version))
         /\ Cardinality(HitFraud(version)) \in Nat /\ Cardinality(HitOther(version)) \in Nat
         /\ Cardinality(PassedOther(version)) \in Nat
         /\ Cardinality(PassedFraud(version)) \in Nat
<1> DEFINE A == HitFraud(version)
           B == HitOther(version)
           C == PassedOther(version)
           D == PassedFraud(version)
<1>1. IsFiniteSet(A) /\ IsFiniteSet(B) /\ IsFiniteSet(C) /\ IsFiniteSet(D)
      /\ IsFiniteSet(Decisions(version))
  BY ReportSetsFinite
<1>2. \A t : ~(IsFraud(t) /\ IsNotFraud(t))
  BY DEF TypeOK, IsFraud, IsNotFraud, SameTx
<1>3. \A t : Labelled(t) <=> IsFraud(t) \/ IsNotFraud(t)
  BY DEF Labelled, IsFraud, IsNotFraud
<1>4. \A a \in assessments : a.flagged \in BOOLEAN BY DEF TypeOK
<1>5. WithLabel(version) = ((A \cup B) \cup C) \cup D
  BY <1>3, <1>4 DEF WithLabel, HitFraud, HitOther, PassedOther, PassedFraud, Decisions
<1>6. A \cap B = {} /\ (A \cup B) \cap C = {} /\ ((A \cup B) \cup C) \cap D = {}
  BY <1>2 DEF HitFraud, HitOther, PassedOther, PassedFraud
<1>7. IsFiniteSet(A \cup B) /\ Cardinality(A \cup B) = Cardinality(A) + Cardinality(B)
  BY <1>1, <1>6, DisjointSum
<1>8. /\ IsFiniteSet((A \cup B) \cup C)
      /\ Cardinality((A \cup B) \cup C) = Cardinality(A \cup B) + Cardinality(C)
  BY <1>1, <1>6, <1>7, DisjointSum
<1>9. Cardinality(WithLabel(version)) = Cardinality((A \cup B) \cup C) + Cardinality(D)
  BY <1>1, <1>5, <1>6, <1>8, DisjointSum
<1>10. Cardinality(WithLabel(version)) <= Cardinality(Decisions(version))
  BY <1>1, FS_Subset DEF WithLabel
<1>11. /\ Cardinality(A) \in Nat /\ Cardinality(B) \in Nat
       /\ Cardinality(C) \in Nat /\ Cardinality(D) \in Nat
  BY <1>1, FS_CardinalityType
<1> HIDE DEF A, B, C, D
<1>12. Cardinality(A) + Cardinality(B) + Cardinality(C) + Cardinality(D)
         = Cardinality(WithLabel(version))
  BY <1>7, <1>8, <1>9, <1>11
<1> QED BY <1>10, <1>11, <1>12 DEF A, B, C, D

(* A quotient of a part and the whole is at most one. *)
LEMMA RatioAtMostOne ==
  ASSUME NEW n \in Nat, NEW d \in Nat, n <= d
  PROVE  Ratio(n, d)[1] <= Ratio(n, d)[2]
BY DEF Ratio

(* No rate of a report with such numbers exceeds one. *)
LEMMA RatesAtMostOne ==
  ASSUME NEW tp \in Nat, NEW fp \in Nat, NEW tn \in Nat, NEW fn \in Nat,
         NEW labelled \in Nat, NEW total \in Nat, labelled <= total,
         NEW m, m.truePositive = tp, m.falsePositive = fp, m.trueNegative = tn,
         m.falseNegative = fn, m.labelled = labelled, m.total = total
  PROVE  \A rate \in DOMAIN Rates(m) : Rates(m)[rate][1] <= Rates(m)[rate][2]
<1>1. Rates(m) = [precision |-> Ratio(tp, tp + fp), recall |-> Ratio(tp, tp + fn),
                  falsePositiveRate |-> Ratio(fp, fp + tn),
                  coverage |-> Ratio(labelled, total)]
  BY DEF Rates
<1>2. /\ Ratio(tp, tp + fp)[1] <= Ratio(tp, tp + fp)[2]
      /\ Ratio(tp, tp + fn)[1] <= Ratio(tp, tp + fn)[2]
      /\ Ratio(fp, fp + tn)[1] <= Ratio(fp, fp + tn)[2]
      /\ Ratio(labelled, total)[1] <= Ratio(labelled, total)[2]
  BY RatioAtMostOne
<1>3. DOMAIN Rates(m) = {"precision", "recall", "falsePositiveRate", "coverage"} BY <1>1
<1> QED BY <1>1, <1>2, <1>3

(* The four cells make up the labelled decisions, and no rate exceeds one.   *)
LEMMA ReportAddsUp == TypeOK /\ IsFiniteSet(assessments) => CountsAddUp
<1> SUFFICES ASSUME TypeOK, IsFiniteSet(assessments), NEW version \in Versions \cup {""}
             PROVE  /\ ModelMetrics(version).truePositive + ModelMetrics(version).falsePositive
                         + ModelMetrics(version).trueNegative
                         + ModelMetrics(version).falseNegative
                         = ModelMetrics(version).labelled
                    /\ \A rate \in DOMAIN Rates(ModelMetrics(version)) :
                         Rates(ModelMetrics(version))[rate][1]
                           <= Rates(ModelMetrics(version))[rate][2]
  BY DEF CountsAddUp
<1>1. PICK m : m = ModelMetrics(version) OBVIOUS
<1>2. /\ m.truePositive \in Nat /\ m.falsePositive \in Nat
      /\ m.trueNegative \in Nat /\ m.falseNegative \in Nat
      /\ m.truePositive + m.falsePositive + m.trueNegative + m.falseNegative = m.labelled
      /\ m.labelled <= m.total
  BY <1>1, CellsAddUp, ReportCounts
<1>3. m.labelled \in Nat /\ m.total \in Nat
  BY <1>1, ReportCounts, ReportSetsFinite, FS_CardinalityType
<1>4. \A rate \in DOMAIN Rates(m) : Rates(m)[rate][1] <= Rates(m)[rate][2]
  BY <1>2, <1>3, RatesAtMostOne
<1> QED BY <1>1, <1>2, <1>4

(* The numbers of the versions side by side: one pair for each labelled      *)
(* decision that a version has.                                              *)
Pairs ==
  UNION {{version} \X (1..ModelMetrics(version).labelled) : version \in Versions}

(* Every labelled decision is one of one version, so that the pairs and the  *)
(* labelled decisions match one to one.                                      *)
LEMMA ReportsOfVersionsAddUp == TypeOK /\ IsFiniteSet(assessments) => VersionsAddUp
<1> SUFFICES ASSUME TypeOK, IsFiniteSet(assessments)
             PROVE  Cardinality(Pairs) = Cardinality(WithLabel(""))
  BY ReportCounts DEF VersionsAddUp, Pairs
<1> DEFINE all == WithLabel("")
           size(v) == Cardinality(WithLabel(v))
           b == [v \in Versions |-> CHOOSE f : f \in Bijection(1..size(v), WithLabel(v))]
           match == [p \in Pairs |-> b[p[1]][p[2]]]
<1>1. ASSUME NEW v \in Versions
      PROVE  /\ size(v) \in Nat
             /\ b[v] \in [1..size(v) -> WithLabel(v)]
             /\ \A i, j \in 1..size(v) : b[v][i] = b[v][j] => i = j
             /\ \A a \in WithLabel(v) : \E i \in 1..size(v) : b[v][i] = a
  <2>1. IsFiniteSet(WithLabel(v)) BY ReportSetsFinite
  <2>2. size(v) \in Nat /\ Bijection(1..size(v), WithLabel(v)) # {}
    BY <2>1, FS_CardinalityType DEF ExistsBijection
  <2>3. b[v] \in Bijection(1..size(v), WithLabel(v)) BY <2>2
  <2> HIDE DEF b, size
  <2> QED BY <2>2, <2>3 DEF Bijection, Injection, Surjection, IsInjective
<1>2. \A p : p \in Pairs <=> \E v \in Versions : \E i \in 1..size(v) : p = <<v, i>>
  BY ReportCounts DEF Pairs
<1>3. \A v \in Versions : \A a \in WithLabel(v) : a.version = v /\ a \in all
  BY LabelsAssumption DEF WithLabel, Decisions
<1>4. \A a \in all : a.version \in Versions /\ a \in WithLabel(a.version)
  BY DEF WithLabel, Decisions, TypeOK
<1> HIDE DEF all, size, b
<1>5. ASSUME NEW v \in Versions, NEW i \in 1..size(v)
      PROVE  <<v, i>> \in Pairs /\ match[<<v, i>>] = b[v][i] /\ b[v][i] \in WithLabel(v)
  BY <1>1, <1>2
<1> HIDE DEF match
<1>6. match \in [Pairs -> all]
  <2>1. ASSUME NEW p \in Pairs PROVE match[p] \in all BY <1>2, <1>3, <1>5
  <2>2. match = [p \in Pairs |-> match[p]] BY DEF match
  <2> QED BY <2>1, <2>2
<1>7. ASSUME NEW p \in Pairs, NEW q \in Pairs, match[p] = match[q] PROVE p = q
  <2>1. PICK v \in Versions : \E i \in 1..size(v) : p = <<v, i>> BY <1>2
  <2>7. PICK i \in 1..size(v) : p = <<v, i>> BY <2>1
  <2>2. PICK w \in Versions : \E j \in 1..size(w) : q = <<w, j>> BY <1>2
  <2>8. PICK j \in 1..size(w) : q = <<w, j>> BY <2>2
  <2>3. match[p] = b[v][i] /\ b[v][i] \in WithLabel(v) BY <1>5, <2>7
  <2>4. match[q] = b[w][j] /\ b[w][j] \in WithLabel(w) BY <1>5, <2>8
  <2>5. v = w BY <1>3, <1>7, <2>3, <2>4
  <2>6. i = j BY <1>1, <1>7, <2>3, <2>4, <2>5
  <2> QED BY <2>7, <2>8, <2>5, <2>6
<1>8. ASSUME NEW a \in all PROVE \E p \in Pairs : match[p] = a
  <2>1. PICK i \in 1..size(a.version) : b[a.version][i] = a BY <1>1, <1>4
  <2> QED BY <1>4, <1>5, <2>1
<1>9. match \in Injection(Pairs, all) BY <1>6, <1>7 DEF Injection, IsInjective
<1>10. match \in Surjection(Pairs, all) BY <1>6, <1>8 DEF Surjection
<1>11. IsFiniteSet(all) BY ReportSetsFinite DEF all
<1>12. Cardinality(Pairs) = Cardinality(all) BY <1>9, <1>10, <1>11, FS_Injection
<1> QED BY <1>12 DEF all

(* Every report adds up, and the reports on the versions add up to that on   *)
(* all of them.                                                              *)
THEOREM MatrixCorrect == Spec => []MatrixAddsUp
<1>1. TypeOK /\ IsFiniteSet(assessments) => MatrixAddsUp
  BY ReportAddsUp, ReportsOfVersionsAddUp DEF MatrixAddsUp
<1> QED BY <1>1, TypeCorrect, FiniteDecisions, PTL
=============================================================================
