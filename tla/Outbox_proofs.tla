--------------------------- MODULE Outbox_proofs ---------------------------
(* Theorems about Outbox, for every number of replicas, rows and faults and  *)
(* every batch size.                                                         *)
EXTENDS Outbox, FiniteSetTheorems, TLAPS

(* Each id is a number. *)
LEMMA RowsAreNumbers == Rows \subseteq Nat
BY OutboxAssumption DEF Rows

(* What a replica's record can hold. *)
LEMMA BatchFacts ==
  ASSUME TypeOK, NEW r \in Replicas
  PROVE  /\ batch[r].left \subseteq Rows /\ batch[r].marked \subseteq Rows
         /\ batch[r] = Down \/ batch[r] = Waiting \/ (\E i \in Rows : batch[r] = Lost(i))
            \/ batch[r] \in [at : InTransaction, left : SUBSET Rows, marked : SUBSET Rows]
         /\ batch[r].at \in {"down", "wait", "late"} => Locked(r) = {}
         /\ batch[r].at # "late" => Locked(r) = batch[r].left \cup batch[r].marked
         /\ Locked(r) \subseteq Rows
         /\ batch[r].at = "late" => \E i \in Rows : batch[r].left = {i}
BY DEF TypeOK, Down, Waiting, Lost, InTransaction, Locked, At

(* The states a replica can move to are well typed. *)
LEMMA OpenType ==
  ASSUME NEW step \in InTransaction, NEW left \in SUBSET Rows, NEW marked \in SUBSET Rows
  PROVE  /\ Open(step, left, marked) \in
              [at : InTransaction, left : SUBSET Rows, marked : SUBSET Rows]
         /\ Open(step, left, marked).at = step
         /\ Open(step, left, marked).left = left
         /\ Open(step, left, marked).marked = marked
BY DEF Open

(* The initial state is well typed. *)
LEMMA InitType == Init => TypeOK
BY OutboxAssumption DEF Init, TypeOK

(* A fault is within its bound. *)
LEMMA FaultType ==
  ASSUME TypeOK, Fault \/ UNCHANGED faults
  PROVE  faults' \in 0..MaxFaults
BY OutboxAssumption DEF TypeOK, Fault

(* What a replica inside a transaction holds. *)
Batches == [at : InTransaction, left : SUBSET Rows, marked : SUBSET Rows]

(* A step that only moves one replica's record to a well-typed one. *)
LEMMA BatchStepType ==
  ASSUME TypeOK, NEW r \in Replicas, NEW b \in Batches, Becomes(r, b),
         UNCHANGED <<table, cancelled, faults>>
  PROVE  TypeOK'
BY DEF TypeOK, Becomes, Batches, table

(* Every step keeps every type. *)
LEMMA NextType == TypeOK /\ [Next]_vars => TypeOK'
<1> SUFFICES ASSUME TypeOK, [Next]_vars PROVE TypeOK' OBVIOUS
<1> USE DEF TypeOK
<1>1. CASE UNCHANGED vars BY <1>1 DEF vars, table
<1>2. ASSUME NEW i \in Rows, Append(i) PROVE TypeOK' BY <1>2 DEF Append
<1>3. ASSUME NEW r \in Replicas, Start(r) \/ Crash(r) \/ Stop(r) PROVE TypeOK'
  BY <1>3, FaultType DEF Start, Crash, Stop, Becomes, table
<1>4. ASSUME NEW r \in Replicas, Cancel(r) PROVE TypeOK'
  BY <1>4, FaultType DEF Cancel, table
<1>5. ASSUME NEW r \in Replicas, Claim(r) PROVE TypeOK'
  <2> DEFINE b == Open("publish", Lowest(Claimable(r), Limit), {})
  <2>1. Lowest(Claimable(r), Limit) \in SUBSET Rows BY DEF Lowest, Claimable
  <2>2. b \in Batches BY <2>1, OpenType DEF InTransaction, Batches
  <2>3. Becomes(r, b) /\ UNCHANGED <<table, cancelled, faults>> BY <1>5 DEF Claim
  <2> QED BY <2>2, <2>3, BatchStepType
<1>6. ASSUME NEW r \in Replicas, PublishSucceeds(r) \/ PublishFails(r) PROVE TypeOK'
  <2>1. batch[r].at \in InTransaction BY <1>6 DEF PublishSucceeds, PublishFails, At, InTransaction
  <2>2. batch[r] \in [at : InTransaction, left : SUBSET Rows, marked : SUBSET Rows]
    BY <2>1 DEF Down, Waiting, Lost, InTransaction
  <2>3. copies' \in [Rows -> Nat] BY <1>6 DEF PublishSucceeds, PublishFails, Sent
  <2>4. faults' \in 0..MaxFaults BY <1>6, FaultType DEF PublishSucceeds, PublishFails
  <2>5. batch' \in [Replicas -> {Down, Waiting} \cup {Lost(i) : i \in Rows} \cup
                     [at : InTransaction, left : SUBSET Rows, marked : SUBSET Rows]]
    BY <1>6, <2>2 DEF PublishSucceeds, PublishFails, Becomes, InTransaction
  <2> QED BY <1>6, <2>3, <2>4, <2>5 DEF PublishSucceeds, PublishFails
<1>7. ASSUME NEW r \in Replicas, MarkSucceeds(r) PROVE TypeOK'
  <2>1. PICK i \in Rows : Becomes(r, Open("publish", batch[r].left \ {i}, batch[r].marked \cup {i}))
    BY <1>7 DEF MarkSucceeds
  <2> DEFINE b == Open("publish", batch[r].left \ {i}, batch[r].marked \cup {i})
  <2>2. batch[r].left \ {i} \in SUBSET Rows /\ batch[r].marked \cup {i} \in SUBSET Rows
    BY BatchFacts
  <2>3. b \in Batches BY <2>2, OpenType DEF InTransaction, Batches
  <2>4. Becomes(r, b) /\ UNCHANGED <<table, cancelled, faults>> BY <1>7, <2>1 DEF MarkSucceeds
  <2> QED BY <2>3, <2>4, BatchStepType
<1>8. ASSUME NEW r \in Replicas, MarkFails(r) PROVE TypeOK'
  BY <1>8, FaultType DEF MarkFails, DatabaseFault, Becomes, table
<1>10. ASSUME NEW r \in Replicas, ClaimLost(r) PROVE TypeOK'
  <2>1. PICK i \in Rows : Becomes(r, Lost(i)) BY <1>10 DEF ClaimLost
  <2> QED BY <1>10, <2>1, FaultType DEF ClaimLost, Becomes, table
<1>11. ASSUME NEW r \in Replicas, PublishLate(r) PROVE TypeOK'
  <2>1. copies' \in [Rows -> Nat] BY <1>11 DEF PublishLate, Sent
  <2> QED BY <1>11, <2>1 DEF PublishLate, Becomes
<1>9. ASSUME NEW r \in Replicas, CommitSucceeds(r) \/ CommitFails(r) PROVE TypeOK'
  <2>1. published \cup batch[r].marked \subseteq Rows BY BatchFacts
  <2> QED BY <1>9, <2>1, FaultType DEF CommitSucceeds, CommitFails, DatabaseFault, Becomes
<1> QED
  BY <1>1, <1>2, <1>3, <1>4, <1>5, <1>6, <1>7, <1>8, <1>9, <1>10, <1>11
  DEF Next, FlushStep

(* The replicas' batches, the rows and the counters keep their types. *)
THEOREM TypeCorrect == Spec => []TypeOK
BY InitType, NextType, PTL DEF Spec

-----------------------------------------------------------------------------
(* A batch is one replica's own, and what is marked was sent.                *)

(* A step of r moves r's record and no other's. *)
LEMMA BecomesStep ==
  ASSUME TypeOK, NEW r \in Replicas, NEW b, Becomes(r, b)
  PROVE  /\ batch'[r] = b
         /\ Locked(r)' = IF b.at = "late" THEN {} ELSE b.left \cup b.marked
         /\ \A q \in Replicas \ {r} : batch'[q] = batch[q] /\ Locked(q)' = Locked(q)
         /\ \A q \in Replicas \ {r} : \A i : Late(q, i)' <=> Late(q, i)
         /\ \A i : Late(r, i)' <=> b.at = "late" /\ i \in b.left
BY DEF TypeOK, Becomes, Locked, At, Late

(* One row of a batch is next. *)
LEMMA NextIsUnique ==
  ASSUME TypeOK, NEW r \in Replicas, NEW i \in Rows, NEW j \in Rows, IsNext(r, i), IsNext(r, j)
  PROVE  i = j
BY RowsAreNumbers DEF IsNext

(* The initial state satisfies the invariant. *)
LEMMA InitClaims == Init => ClaimsInv
BY DEF Init, ClaimsInv, Locked, Down, At

(* A replica whose transaction ends lets its rows go, and publishes no row   *)
(* that another one holds.                                                   *)
LEMMA ReleaseClaims ==
  ASSUME TypeOK, ClaimsInv, NEW r \in Replicas, NEW b, Becomes(r, b),
         b.left = {} \/ b.at = "late", b.marked = {}, b.at # "mark",
         UNCHANGED visible, \A i \in Rows : copies'[i] >= copies[i],
         copies' \in [Rows -> Nat],
         \/ published' = published
         \/ batch[r].at # "late" /\ published' = published \cup batch[r].marked
  PROVE  ClaimsInv'
<1>1. /\ batch'[r] = b /\ Locked(r)' = {}
      /\ \A q \in Replicas \ {r} : batch'[q] = batch[q] /\ Locked(q)' = Locked(q)
  BY BecomesStep
<1>2. \A q \in Replicas \ {r} : Locked(q) \cap (published' \ published) = {}
  BY BatchFacts DEF ClaimsInv
<1>3. \A p, q \in Replicas : p # q => Locked(p)' \cap Locked(q)' = {}
  BY <1>1 DEF ClaimsInv
<1>4. \A q \in Replicas : Locked(q)' \subseteq visible' \ published'
  BY <1>1, <1>2 DEF ClaimsInv
<1>5. \A q \in Replicas : \A i \in batch'[q].marked : copies'[i] > 0
  <2> SUFFICES ASSUME NEW q \in Replicas \ {r}, NEW i \in batch[q].marked
               PROVE  copies'[i] > 0
    BY <1>1
  <2>1. copies[i] > 0 /\ i \in Rows BY BatchFacts DEF ClaimsInv
  <2> QED BY <2>1 DEF TypeOK
<1>6. \A q \in Replicas : batch'[q].left \cap batch'[q].marked = {} BY <1>1 DEF ClaimsInv
<1>7. \A q \in Replicas, i \in Rows : At(q, "mark")' /\ IsNext(q, i)' => copies'[i] > 0
  <2> SUFFICES ASSUME NEW q \in Replicas, NEW i \in Rows, At(q, "mark")', IsNext(q, i)'
               PROVE  copies'[i] > 0
    OBVIOUS
  <2>1. q # r BY <1>1 DEF At
  <2>2. At(q, "mark") /\ IsNext(q, i) BY <1>1, <2>1 DEF At, IsNext
  <2> QED BY <2>2 DEF ClaimsInv, TypeOK
<1> QED BY <1>3, <1>4, <1>5, <1>6, <1>7 DEF ClaimsInv

(* What a step inside r's transaction owes to the invariant. *)
LEMMA BatchClaims ==
  ASSUME TypeOK, ClaimsInv, NEW r \in Replicas, NEW b, Becomes(r, b),
         UNCHANGED <<visible, published>>,
         \A i \in Rows : copies'[i] >= copies[i],
         copies' \in [Rows -> Nat],
         b.left \cup b.marked \subseteq visible \ published,
         \A q \in Replicas \ {r} : (b.left \cup b.marked) \cap Locked(q) = {},
         b.left \cap b.marked = {},
         \A i \in b.marked : copies'[i] > 0, b.at # "late",
         b.at = "mark" => \A i \in b.left : (\A j \in b.left : i <= j) => copies'[i] > 0
  PROVE  ClaimsInv'
<1>1. /\ batch'[r] = b /\ Locked(r)' = b.left \cup b.marked
      /\ \A q \in Replicas \ {r} : batch'[q] = batch[q] /\ Locked(q)' = Locked(q)
  BY BecomesStep
<1>2. \A p, q \in Replicas : p # q => Locked(p)' \cap Locked(q)' = {}
  <2> SUFFICES ASSUME NEW p \in Replicas, NEW q \in Replicas, p # q
               PROVE  Locked(p)' \cap Locked(q)' = {}
    OBVIOUS
  <2>1. CASE p # r /\ q # r BY <1>1, <2>1 DEF ClaimsInv
  <2>2. CASE p = r BY <1>1, <2>2
  <2>3. CASE q = r BY <1>1, <2>3
  <2> QED BY <2>1, <2>2, <2>3
<1>3. \A q \in Replicas : Locked(q)' \subseteq visible' \ published' BY <1>1 DEF ClaimsInv
<1>4. \A q \in Replicas : \A i \in batch'[q].marked : copies'[i] > 0
  <2> SUFFICES ASSUME NEW q \in Replicas, NEW i \in batch'[q].marked PROVE copies'[i] > 0
    OBVIOUS
  <2>1. CASE q = r BY <1>1, <2>1
  <2>2. CASE q # r
    <3>1. i \in batch[q].marked BY <1>1, <2>2
    <3>2. copies[i] > 0 /\ i \in Rows BY <3>1, BatchFacts DEF ClaimsInv
    <3> QED BY <3>2 DEF TypeOK
  <2> QED BY <2>1, <2>2
<1>5. \A q \in Replicas : batch'[q].left \cap batch'[q].marked = {} BY <1>1 DEF ClaimsInv
<1>6. \A q \in Replicas, i \in Rows : At(q, "mark")' /\ IsNext(q, i)' => copies'[i] > 0
  <2> SUFFICES ASSUME NEW q \in Replicas, NEW i \in Rows, At(q, "mark")', IsNext(q, i)'
               PROVE  copies'[i] > 0
    OBVIOUS
  <2>1. CASE q = r BY <1>1, <2>1 DEF At, IsNext
  <2>2. CASE q # r
    <3>1. At(q, "mark") /\ IsNext(q, i) BY <1>1, <2>2 DEF At, IsNext
    <3> QED BY <3>1 DEF ClaimsInv, TypeOK
  <2> QED BY <2>1, <2>2
<1> QED BY <1>2, <1>3, <1>4, <1>5, <1>6 DEF ClaimsInv

(* A replica inside a transaction holds a well-typed batch. *)
LEMMA OpenBatch ==
  ASSUME TypeOK, NEW r \in Replicas, batch[r].at \in InTransaction, NEW step \in InTransaction
  PROVE  /\ batch[r] \in [at : InTransaction, left : SUBSET Rows, marked : SUBSET Rows]
         /\ [batch[r] EXCEPT !.at = step] = Open(step, batch[r].left, batch[r].marked)
BY DEF TypeOK, Down, Waiting, Lost, InTransaction, Open

(* Where an open batch is. *)
LEMMA OpenAt == \A step, left, marked : Open(step, left, marked).at = step
BY DEF Open

(* The inductive step of ClaimsInv. *)
LEMMA NextClaims == TypeOK /\ ClaimsInv /\ [Next]_vars => ClaimsInv'
<1> SUFFICES ASSUME TypeOK, ClaimsInv, [Next]_vars PROVE ClaimsInv' OBVIOUS
<1>0. TypeOK' BY NextType
<1>1. CASE UNCHANGED vars BY <1>1 DEF vars, table, ClaimsInv, Locked, At, IsNext
<1>2. ASSUME NEW i \in Rows, Append(i) PROVE ClaimsInv'
  BY <1>2 DEF Append, ClaimsInv, Locked, At, IsNext
<1>3. ASSUME NEW r \in Replicas, Cancel(r) PROVE ClaimsInv'
  BY <1>3 DEF Cancel, table, ClaimsInv, Locked, At, IsNext
<1>e. \A b \in {Down, Waiting} : b.left = {} /\ b.marked = {} /\ b.at # "mark"
  BY DEF Down, Waiting
<1>f. \A i \in Rows : copies[i] \in Nat /\ copies[i] >= copies[i] BY DEF TypeOK
<1>4. ASSUME NEW r \in Replicas, Start(r) \/ Crash(r) \/ Stop(r) \/ MarkFails(r) PROVE ClaimsInv'
  <2>1. UNCHANGED table /\ \E b \in {Down, Waiting} : Becomes(r, b)
    BY <1>4 DEF Start, Crash, Stop, MarkFails
  <2> QED BY <1>0, <1>e, <1>f, <2>1, ReleaseClaims DEF table, TypeOK
<1>5. ASSUME NEW r \in Replicas, CommitSucceeds(r) \/ CommitFails(r) PROVE ClaimsInv'
  <2>1. Becomes(r, Waiting) /\ UNCHANGED <<visible, copies>>
    BY <1>5 DEF CommitSucceeds, CommitFails
  <2>2. /\ batch[r].at # "late"
        /\ published' = published \/ published' = published \cup batch[r].marked
    BY <1>5 DEF CommitSucceeds, CommitFails, AtEnd, At
  <2> QED BY <1>0, <1>e, <1>f, <2>1, <2>2, ReleaseClaims DEF TypeOK
<1>10. ASSUME NEW r \in Replicas, PublishLate(r) PROVE ClaimsInv'
  <2>1. Becomes(r, Waiting) /\ UNCHANGED <<visible, published>> BY <1>10 DEF PublishLate
  <2>2. \A i \in Rows : copies'[i] >= copies[i] BY <1>10 DEF PublishLate, Sent, TypeOK
  <2> QED BY <1>0, <1>e, <2>1, <2>2, ReleaseClaims DEF TypeOK
<1>11. ASSUME NEW r \in Replicas, ClaimLost(r) PROVE ClaimsInv'
  <2>1. PICK i \in Rows : Becomes(r, Lost(i)) BY <1>11 DEF ClaimLost
  <2>2. UNCHANGED table BY <1>11 DEF ClaimLost
  <2>3. /\ Lost(i).at = "late"
        /\ Lost(i).left = {i}
        /\ Lost(i).marked = {}
    BY DEF Lost
  <2> QED BY <1>0, <1>f, <2>1, <2>2, <2>3, ReleaseClaims DEF table, TypeOK
<1>6. ASSUME NEW r \in Replicas, Claim(r) PROVE ClaimsInv'
  <2> DEFINE new == Lowest(Claimable(r), Limit)
             b == Open("publish", new, {})
  <2>1. /\ new \subseteq visible \ published
        /\ \A q \in Replicas \ {r} : new \cap Locked(q) = {}
    BY DEF Lowest, Claimable
  <2>2. new \subseteq Rows BY <2>1 DEF TypeOK
  <2>3. Becomes(r, b) /\ UNCHANGED table BY <1>6 DEF Claim
  <2> HIDE DEF new
  <2>4. b.left = new /\ b.marked = {} /\ b.at = "publish" BY DEF Open
  <2> HIDE DEF b
  <2>5. UNCHANGED <<visible, published, copies>> BY <2>3 DEF table
  <2> QED BY <1>0, <2>1, <2>3, <2>4, <2>5, BatchClaims DEF TypeOK
<1>7. ASSUME NEW r \in Replicas, PublishSucceeds(r) PROVE ClaimsInv'
  <2> DEFINE b == Open("mark", batch[r].left, batch[r].marked)
  <2>1. PICK i \in Rows : IsNext(r, i) /\ Sent(i) BY <1>7 DEF PublishSucceeds
  <2>2. batch[r].left \subseteq Rows /\ batch[r].marked \subseteq Rows BY BatchFacts
  <2>3. b.left = batch[r].left /\ b.marked = batch[r].marked BY DEF Open
  <2>4. Becomes(r, b) /\ Locked(r) = b.left \cup b.marked /\ b.at # "late"
    BY <1>7, <2>3, BatchFacts, OpenBatch DEF PublishSucceeds, At, InTransaction, Open
  <2> HIDE DEF b
  <2>5. \A j \in Rows : copies'[j] >= copies[j] BY <2>1 DEF Sent, TypeOK
  <2>6. copies'[i] > 0 BY <2>1 DEF Sent, TypeOK
  <2>7. \A j \in b.left : (\A k \in b.left : j <= k) => copies'[j] > 0
    BY <2>1, <2>2, <2>3, <2>6, NextIsUnique DEF IsNext
  <2>8. \A j \in b.marked : copies'[j] > 0 BY <1>0, <2>2, <2>3, <2>5 DEF ClaimsInv, TypeOK
  <2>9. UNCHANGED <<visible, published>> BY <1>7 DEF PublishSucceeds
  <2> QED
    BY <1>0, <2>3, <2>4, <2>5, <2>7, <2>8, <2>9, BatchClaims DEF TypeOK, ClaimsInv
<1>8. ASSUME NEW r \in Replicas, PublishFails(r) PROVE ClaimsInv'
  <2> DEFINE b == Open("commit", batch[r].left, batch[r].marked)
  <2>1. batch[r].left \subseteq Rows /\ batch[r].marked \subseteq Rows BY BatchFacts
  <2>2. b.left = batch[r].left /\ b.marked = batch[r].marked /\ b.at = "commit"
    BY DEF Open
  <2>3. Becomes(r, b) /\ Locked(r) = b.left \cup b.marked
    BY <1>8, <2>2, BatchFacts, OpenBatch DEF PublishFails, At, InTransaction
  <2> HIDE DEF b
  <2>4. \A j \in Rows : copies'[j] >= copies[j] BY <1>8 DEF PublishFails, Sent, TypeOK
  <2>5. \A j \in b.marked : copies'[j] > 0 BY <1>0, <2>1, <2>2, <2>4 DEF ClaimsInv, TypeOK
  <2>6. UNCHANGED <<visible, published>> BY <1>8 DEF PublishFails
  <2> QED BY <1>0, <2>2, <2>3, <2>4, <2>5, <2>6, BatchClaims DEF TypeOK, ClaimsInv
<1>9. ASSUME NEW r \in Replicas, MarkSucceeds(r) PROVE ClaimsInv'
  <2>1. PICK i \in Rows : IsNext(r, i) /\
          Becomes(r, Open("publish", batch[r].left \ {i}, batch[r].marked \cup {i}))
    BY <1>9 DEF MarkSucceeds
  <2> DEFINE b == Open("publish", batch[r].left \ {i}, batch[r].marked \cup {i})
  <2>2. b.left = batch[r].left \ {i} /\ b.marked = batch[r].marked \cup {i} /\ b.at = "publish"
    BY DEF Open
  <2>3. Becomes(r, b) BY <2>1
  <2> HIDE DEF b
  <2>4. b.left \cup b.marked = Locked(r)
    BY <1>9, <2>1, <2>2, BatchFacts DEF MarkSucceeds, At, IsNext
  <2>5. copies[i] > 0 BY <1>9, <2>1 DEF MarkSucceeds, ClaimsInv
  <2>6. UNCHANGED <<visible, published, copies>> BY <1>9 DEF MarkSucceeds, table
  <2>7. \A j \in b.marked : copies'[j] > 0 BY <2>2, <2>5, <2>6 DEF ClaimsInv
  <2>8. b.left \cap b.marked = {} BY <2>2 DEF ClaimsInv
  <2>9. /\ b.left \cup b.marked \subseteq visible \ published
        /\ \A q \in Replicas \ {r} : (b.left \cup b.marked) \cap Locked(q) = {}
    BY <2>4 DEF ClaimsInv
  <2> QED BY <1>0, <2>2, <2>3, <2>6, <2>7, <2>8, <2>9, BatchClaims DEF TypeOK
<1> QED
  BY <1>1, <1>2, <1>3, <1>4, <1>5, <1>6, <1>7, <1>8, <1>9, <1>10, <1>11
  DEF Next, FlushStep

(* No two replicas hold a row, no held row has been published, and a row is  *)
(* marked only once it was sent.                                             *)
THEOREM ClaimsCorrect == Spec => []ClaimsInv
BY InitType, NextType, InitClaims, NextClaims, PTL DEF Spec

-----------------------------------------------------------------------------
(* Outbox implements Relay.                                                  *)

(* The lost claims change with the replica that steps. *)
LEMMA LateClaimsStep ==
  ASSUME TypeOK, NEW r \in Replicas, NEW b, Becomes(r, b), b.at # "late"
  PROVE  /\ batch[r].at # "late" => LateClaims' = LateClaims
         /\ \A i \in Rows : batch[r].at = "late" /\ batch[r].left = {i} =>
              <<r, i>> \in LateClaims /\ LateClaims' = LateClaims \ {<<r, i>>}
<1>1. \A c \in Replicas \X Rows :
        Late(c[1], c[2])' <=> c[1] # r /\ Late(c[1], c[2])
  BY BecomesStep
<1>2. LateClaims' = {c \in LateClaims : c[1] # r} BY <1>1 DEF LateClaims
<1>3. ASSUME batch[r].at # "late" PROVE LateClaims' = LateClaims
  <2>1. \A c \in LateClaims : c[1] # r BY <1>3 DEF LateClaims, Late, At
  <2> QED BY <1>2, <2>1
<1>4. ASSUME NEW i \in Rows, batch[r].at = "late", batch[r].left = {i}
      PROVE  <<r, i>> \in LateClaims /\ LateClaims' = LateClaims \ {<<r, i>>}
  <2>1. \A j \in Rows : <<r, j>> \in LateClaims <=> j = i
    BY <1>4 DEF LateClaims, Late, At
  <2>2. \A c \in LateClaims : c[1] = r <=> c = <<r, i>>
    BY <2>1 DEF LateClaims
  <2> QED BY <1>2, <2>1, <2>2
<1> QED BY <1>3, <1>4

(* A claim is lost with the row it was for. *)
LEMMA LateClaimsGain ==
  ASSUME TypeOK, NEW r \in Replicas, NEW i \in Rows, Becomes(r, Lost(i)),
         batch[r].at # "late"
  PROVE  LateClaims' = LateClaims \cup {<<r, i>>}
<1>1. Lost(i).at = "late" /\ Lost(i).left = {i} BY DEF Lost
<1>2. \A c \in Replicas \X Rows :
        Late(c[1], c[2])' <=> c = <<r, i>> \/ Late(c[1], c[2])
  <2> SUFFICES ASSUME NEW c \in Replicas \X Rows
               PROVE  Late(c[1], c[2])' <=> c = <<r, i>> \/ Late(c[1], c[2])
    OBVIOUS
  <2>1. CASE c[1] = r BY <1>1, <2>1, BecomesStep DEF Late, At
  <2>2. CASE c[1] # r BY <2>2, BecomesStep
  <2> QED BY <2>1, <2>2
<1> QED BY <1>2 DEF LateClaims

(* Each step is a step of the relay or changes nothing of it. *)
LEMMA NextMaps == TypeOK /\ ClaimsInv /\ [Next]_vars => [Promise!Next]_(Promise!vars)
<1> SUFFICES ASSUME TypeOK, ClaimsInv, [Next]_vars PROVE [Promise!Next]_(Promise!vars) OBVIOUS
<1>1. ASSUME UNCHANGED table, UNCHANGED LateClaims PROVE UNCHANGED Promise!vars
  BY <1>1 DEF table, Promise!vars
<1>2. ASSUME UNCHANGED batch PROVE UNCHANGED LateClaims
  BY <1>2 DEF LateClaims, Late, At
<1>3. ASSUME NEW r \in Replicas, NEW i \in Rows, IsNext(r, i), Sent(i),
             UNCHANGED <<visible, published>>, UNCHANGED LateClaims, ~At(r, "late")
      PROVE  Promise!Next
  <2>1. i \in visible \ published BY <1>3, BatchFacts DEF ClaimsInv, IsNext, At
  <2>2. Promise!Send(i) BY <1>3, <2>1 DEF Sent, Promise!Send, Promise!Sent
  <2> QED BY <2>2 DEF Promise!Next
<1>4. ASSUME NEW r \in Replicas, published' = published \cup batch[r].marked,
             UNCHANGED <<visible, copies>>, UNCHANGED LateClaims
      PROVE  Promise!Next
  <2>1. batch[r].marked \in SUBSET Rows BY BatchFacts
  <2>2. Promise!Mark(batch[r].marked) BY <1>4 DEF ClaimsInv, Promise!Mark
  <2> QED BY <2>1, <2>2 DEF Promise!Next
<1>6. ASSUME NEW r \in Replicas, NEW i \in Rows, At(r, "late"), batch[r].left = {i},
             NEW b \in {Down, Waiting}, Becomes(r, b),
             UNCHANGED <<visible, published>>, Sent(i) \/ UNCHANGED copies
      PROVE  Promise!Next
  <2>1. b.at # "late" BY DEF Down, Waiting
  <2>2. <<r, i>> \in LateClaims /\ LateClaims' = LateClaims \ {<<r, i>>}
    BY <1>6, <2>1, LateClaimsStep DEF At
  <2>3. Promise!LateEnds(r, i) BY <1>6, <2>2 DEF Promise!LateEnds, Promise!Sent, Sent
  <2> QED BY <2>3 DEF Promise!Next
<1>5. ASSUME NEW r \in Replicas,
             Start(r) \/ Cancel(r) \/ Crash(r) \/ ClaimLost(r) \/ FlushStep(r)
      PROVE  [Promise!Next]_(Promise!vars)
  <2>0. Down.at # "late" /\ Waiting.at # "late" BY DEF Down, Waiting
  <2>1. CASE Start(r) \/ Stop(r) \/ Claim(r) \/ MarkSucceeds(r) \/ MarkFails(r)
    <3>1. UNCHANGED table /\ batch[r].at # "late"
      BY <2>1 DEF Start, Stop, Claim, MarkSucceeds, MarkFails, At
    <3>2. UNCHANGED LateClaims
      <4>1. \A left, marked : Open("publish", left, marked).at # "late" BY DEF Open
      <4>2. PICK b : Becomes(r, b) /\ b.at # "late"
        BY <2>0, <2>1, <4>1 DEF Start, Stop, Claim, MarkSucceeds, MarkFails
      <4> QED BY <3>1, <4>2, LateClaimsStep
    <3> QED BY <1>1, <3>1, <3>2
  <2>2. CASE Cancel(r)
    BY <1>1, <1>2, <2>2 DEF Cancel
  <2>6. CASE Crash(r)
    <3>1. Becomes(r, Down) /\ UNCHANGED table BY <2>6 DEF Crash
    <3>2. CASE At(r, "late")
      <4>1. PICK i \in Rows : batch[r].left = {i} BY <3>2, BatchFacts DEF At
      <4> QED BY <1>6, <3>1, <3>2, <4>1 DEF table
    <3>3. CASE ~At(r, "late")
      <4>1. UNCHANGED LateClaims BY <2>0, <3>1, <3>3, LateClaimsStep DEF At
      <4> QED BY <1>1, <3>1, <4>1
    <3> QED BY <3>2, <3>3
  <2>7. CASE ClaimLost(r)
    <3>1. PICK i \in Rows : IsNext(r, i) /\ Becomes(r, Lost(i)) BY <2>7 DEF ClaimLost
    <3>2. batch[r].at # "late" /\ UNCHANGED table BY <2>7 DEF ClaimLost, At
    <3>3. i \in visible \ published BY <3>1, <3>2, BatchFacts DEF ClaimsInv, IsNext
    <3>4. LateClaims' = LateClaims \cup {<<r, i>>} BY <3>1, <3>2, LateClaimsGain
    <3>5. Promise!LoseClaim(r, i) BY <3>2, <3>3, <3>4 DEF Promise!LoseClaim, table
    <3> QED BY <3>5 DEF Promise!Next
  <2>8. CASE PublishLate(r)
    <3>1. PICK i \in Rows : IsNext(r, i) /\ (Sent(i) \/ UNCHANGED copies)
      BY <2>8 DEF PublishLate
    <3>2. /\ At(r, "late") /\ Becomes(r, Waiting)
          /\ UNCHANGED <<visible, published>>
      BY <2>8 DEF PublishLate
    <3>3. batch[r].left = {i} BY <3>1, <3>2, BatchFacts DEF At, IsNext
    <3> QED BY <1>6, <3>1, <3>2, <3>3
  <2>3. CASE PublishSucceeds(r)
    <3>1. UNCHANGED <<visible, published>> /\ ~At(r, "late") /\ UNCHANGED LateClaims
      BY <2>3, OpenBatch, OpenAt, LateClaimsStep DEF PublishSucceeds, At, InTransaction
    <3>2. PICK i \in Rows : IsNext(r, i) /\ Sent(i) BY <2>3 DEF PublishSucceeds
    <3> QED BY <1>3, <3>1, <3>2
  <2>4. CASE PublishFails(r)
    <3>1. UNCHANGED <<visible, published>> /\ ~At(r, "late") /\ UNCHANGED LateClaims
      BY <2>4, OpenBatch, OpenAt, LateClaimsStep DEF PublishFails, At, InTransaction
    <3>2. PICK i \in Rows : IsNext(r, i) /\ (Sent(i) \/ UNCHANGED copies)
      BY <2>4 DEF PublishFails
    <3> QED BY <1>1, <1>3, <3>1, <3>2 DEF table
  <2>5. CASE CommitSucceeds(r) \/ CommitFails(r)
    <3>1. Becomes(r, Waiting) /\ batch[r].at # "late" /\ UNCHANGED <<visible, copies>>
      BY <2>5 DEF CommitSucceeds, CommitFails, AtEnd, At
    <3>2. UNCHANGED LateClaims BY <2>0, <3>1, LateClaimsStep
    <3>3. published' = published \/ published' = published \cup batch[r].marked
      BY <2>5 DEF CommitSucceeds, CommitFails
    <3> QED BY <1>1, <1>4, <3>1, <3>2, <3>3 DEF table
  <2> QED BY <1>5, <2>1, <2>2, <2>3, <2>4, <2>5, <2>6, <2>7, <2>8 DEF FlushStep
<1>7. ASSUME NEW i \in Rows, Append(i) PROVE Promise!Next
  <2>1. UNCHANGED LateClaims BY <1>2, <1>7 DEF Append
  <2>2. Promise!Append(i) BY <1>7, <2>1 DEF Append, Promise!Append
  <2> QED BY <2>2 DEF Promise!Next
<1>8. CASE UNCHANGED vars BY <1>1, <1>2, <1>8 DEF vars
<1> QED BY <1>5, <1>7, <1>8 DEF Next

(* A row is sent once it is visible and until it is marked, and marked once  *)
(* it was sent, whatever fails and however many replicas relay.              *)
THEOREM KeepsPromise == Spec => PromiseKept
<1>1. Init => Promise!Init
  <2> SUFFICES ASSUME Init PROVE Promise!Init OBVIOUS
  <2>1. \A r \in Replicas : batch[r].at # "late" BY DEF Init, Down
  <2>2. LateClaims = {} BY <2>1 DEF LateClaims, Late, At
  <2> QED BY <2>2 DEF Init, Promise!Init
<1> QED
  BY <1>1, InitType, NextType, InitClaims, NextClaims, NextMaps, PTL
  DEF Spec, PromiseKept, Promise!Spec

-----------------------------------------------------------------------------
(* No row is sent again without a fault.  Each fault lets go of the rows of  *)
(* one batch at most, so a row that is free, or held and not yet sent, was   *)
(* sent once per fault at most; a replica whose context is done has had its  *)
(* fault before its batch is lost; and a replica that lost its claim while   *)
(* it sent a row is counted as if that row had arrived.                      *)

Unsent(r, i) == i \in Locked(r) \cap batch[r].left /\ ~(At(r, "mark") /\ IsNext(r, i))

LateAt(i) == {r \in Replicas : Late(r, i)}
Total(i) == copies[i] + Cardinality(LateAt(i))

BoundInv ==
  /\ \A i \in Rows : Total(i) <= 1 + faults
  /\ \A i \in Rows \ published :
       (\A r \in Replicas : i \notin Locked(r)) => Total(i) <= faults
  /\ \A r \in Replicas, i \in Rows : Unsent(r, i) => Total(i) <= faults
  /\ \A r \in Replicas, i \in Rows : cancelled[r] /\ i \in Locked(r) => Total(i) <= faults
  /\ \A r \in Replicas, i \in Rows :
       cancelled[r] /\ ~At(r, "commit") /\ Unsent(r, i) => Total(i) < faults

(* Counting replicas. *)
LEMMA ReplicaCounts ==
  ASSUME NEW S \in SUBSET Replicas, NEW r \in Replicas
  PROVE  /\ Cardinality(S) \in Nat
         /\ r \notin S => Cardinality(S \cup {r}) = Cardinality(S) + 1
         /\ r \in S => Cardinality(S \ {r}) = Cardinality(S) - 1
<1>1. IsFiniteSet(S) BY OutboxAssumption, FS_Subset
<1> QED BY <1>1, FS_CardinalityType, FS_AddElement, FS_RemoveElement

(* Totals are numbers, and no smaller than what was sent. *)
LEMMA TotalType ==
  ASSUME TypeOK
  PROVE  \A i \in Rows : Total(i) \in Nat /\ copies[i] <= Total(i)
<1> SUFFICES ASSUME NEW i \in Rows PROVE Total(i) \in Nat /\ copies[i] <= Total(i)
  OBVIOUS
<1>1. LateAt(i) \in SUBSET Replicas BY DEF LateAt
<1>2. IsFiniteSet(LateAt(i)) BY <1>1, OutboxAssumption, FS_Subset
<1>3. Cardinality(LateAt(i)) \in Nat BY <1>2, FS_CardinalityType
<1> QED BY <1>3 DEF TypeOK, Total

(* A row's total follows what is sent, but for the row of a replica that     *)
(* stops being late.                                                         *)
LEMMA TotalStep ==
  ASSUME TypeOK, TypeOK', NEW r \in Replicas, NEW b, Becomes(r, b), b.at # "late",
         NEW i \in Rows
  PROVE  /\ Total(i) \in Nat /\ Total(i)' \in Nat
         /\ ~Late(r, i) => Total(i)' = Total(i) + (copies'[i] - copies[i])
         /\ Late(r, i) => Total(i)' = Total(i) + (copies'[i] - copies[i]) - 1
<1> DEFINE S == LateAt(i)
           T == LateAt(i)'
<1>1. S \in SUBSET Replicas /\ T \in SUBSET Replicas BY DEF LateAt
<1>2. T = S \ {r} BY BecomesStep DEF LateAt
<1>3. r \in S <=> Late(r, i) BY DEF LateAt
<1>4. Total(i) = copies[i] + Cardinality(S) /\ Total(i)' = copies'[i] + Cardinality(T)
  BY DEF Total
<1>5. copies[i] \in Nat /\ copies'[i] \in Nat BY DEF TypeOK
<1> HIDE DEF S, T
<1>6. Cardinality(S) \in Nat /\ Cardinality(T) \in Nat BY <1>1, ReplicaCounts
<1>7. CASE r \in S
  <2>1. Cardinality(T) = Cardinality(S) - 1 BY <1>1, <1>2, <1>7, ReplicaCounts
  <2> QED BY <1>3, <1>4, <1>5, <1>6, <1>7, <2>1
<1>8. CASE r \notin S
  <2>1. T = S BY <1>2, <1>8
  <2> QED BY <1>3, <1>4, <1>5, <1>6, <1>8, <2>1
<1> QED BY <1>7, <1>8

(* Where r neither is nor becomes late, the totals follow what is sent.      *)
LEMMA TotalFollows ==
  ASSUME TypeOK, TypeOK', NEW r \in Replicas, NEW b, Becomes(r, b), b.at # "late",
         batch[r].at # "late"
  PROVE  \A i \in Rows : /\ Total(i) \in Nat /\ Total(i)' \in Nat
                         /\ copies'[i] = copies[i] => Total(i)' = Total(i)
                         /\ copies'[i] = copies[i] + 1 => Total(i)' = Total(i) + 1
<1>1. \A i \in Rows : ~Late(r, i) BY DEF Late, At
<1>2. \A i \in Rows : copies[i] \in Nat /\ copies'[i] \in Nat BY DEF TypeOK
<1> QED BY <1>1, <1>2, TotalStep

(* The row of a claim that is lost counts as sent. *)
LEMMA TotalLost ==
  ASSUME TypeOK, TypeOK', NEW r \in Replicas, NEW k \in Rows, Becomes(r, Lost(k)),
         batch[r].at # "late", UNCHANGED copies
  PROVE  \A i \in Rows : /\ Total(i) \in Nat /\ Total(i)' \in Nat
                         /\ i # k => Total(i)' = Total(i)
                         /\ i = k => Total(i)' = Total(i) + 1
<1> SUFFICES ASSUME NEW i \in Rows
             PROVE  /\ Total(i) \in Nat /\ Total(i)' \in Nat
                    /\ i # k => Total(i)' = Total(i)
                    /\ i = k => Total(i)' = Total(i) + 1
  OBVIOUS
<1> DEFINE S == LateAt(i)
           T == LateAt(i)'
<1>1. S \in SUBSET Replicas /\ T \in SUBSET Replicas BY DEF LateAt
<1>2. Lost(k).at = "late" /\ Lost(k).left = {k} BY DEF Lost
<1>3. r \notin S BY DEF LateAt, Late, At
<1>4. T = IF i = k THEN S \cup {r} ELSE S BY <1>2, <1>3, BecomesStep DEF LateAt
<1>5. Total(i) = copies[i] + Cardinality(S) /\ Total(i)' = copies[i] + Cardinality(T)
  BY DEF Total
<1>6. copies[i] \in Nat BY DEF TypeOK
<1> HIDE DEF S, T
<1>7. Cardinality(S) \in Nat /\ Cardinality(S \cup {r}) = Cardinality(S) + 1
  BY <1>1, <1>3, ReplicaCounts
<1> QED BY <1>4, <1>5, <1>6, <1>7

(* Nothing is late at first. *)
LEMMA InitTotal ==
  ASSUME Init
  PROVE  \A i \in Rows : Total(i) = 0
<1> SUFFICES ASSUME NEW i \in Rows PROVE Total(i) = 0 OBVIOUS
<1>1. LateAt(i) = {} BY DEF Init, LateAt, Late, At, Down
<1>2. Cardinality(LateAt(i)) = 0 BY <1>1, FS_EmptySet
<1> QED BY <1>2 DEF Init, Total

(* The initial state satisfies the invariant. *)
LEMMA InitBound == Init => BoundInv
<1> SUFFICES ASSUME Init PROVE BoundInv OBVIOUS
<1>1. \A i \in Rows : Total(i) = 0 BY InitTotal
<1>2. \A r \in Replicas : Locked(r) = {} /\ batch[r].left = {}
  BY DEF Init, Locked, Down, At
<1> QED BY <1>1, <1>2 DEF Init, BoundInv, Unsent

(* A replica whose transaction ends leaves its rows free, after a fault, as  *)
(* published, or unsent.                                                     *)
LEMMA ReleaseBound ==
  ASSUME TypeOK, TypeOK', ClaimsInv, BoundInv, NEW r \in Replicas,
         NEW b, Becomes(r, b), b.left = {} \/ b.at = "late", b.marked = {},
         \A i \in Rows : Total(i) \in Nat /\ Total(i)' \in Nat,
         \A i \in Rows : i \in Locked(r) \ published' \/ Total(i)' <= Total(i),
         faults' >= faults, published \subseteq published',
         \A q \in Replicas \ {r} : cancelled'[q] = cancelled[q],
         \A i \in Locked(r) \ published' : Total(i)' <= faults'
  PROVE  BoundInv'
<1>2. /\ batch'[r] = b /\ Locked(r)' = {}
      /\ \A q \in Replicas \ {r} : batch'[q] = batch[q] /\ Locked(q)' = Locked(q)
  BY BecomesStep
<1>3. \A q \in Replicas, i \in Rows :
        Unsent(q, i)' => q # r /\ Unsent(q, i) /\ i \in Locked(q)
  BY <1>2 DEF Unsent, At, IsNext
<1>4. \A q \in Replicas : At(q, "commit")' \/ q = r \/ ~At(q, "commit")
  BY <1>2 DEF At
<1>5. faults \in Int /\ faults' \in Int BY OutboxAssumption DEF TypeOK
<1>a. \A q \in Replicas, i \in Rows : q # r /\ i \in Locked(q) => Total(i)' <= Total(i)
  BY DEF ClaimsInv
<1>6. (\A i \in Rows : Total(i) <= 1 + faults)'
  <2> SUFFICES ASSUME NEW i \in Rows PROVE Total(i)' <= 1 + faults' OBVIOUS
  <2>1. CASE i \in Locked(r) \ published' BY <1>5, <2>1
  <2>2. CASE Total(i)' <= Total(i)
    <3>1. Total(i) <= 1 + faults BY DEF BoundInv
    <3> QED BY <1>5, <2>2, <3>1
  <2> QED BY <2>1, <2>2
<1>7. \A i \in Rows \ published' :
        (\A q \in Replicas : i \notin Locked(q)') => Total(i)' <= faults'
  <2> SUFFICES ASSUME NEW i \in Rows \ published', \A q \in Replicas : i \notin Locked(q)'
               PROVE  Total(i)' <= faults'
    OBVIOUS
  <2>1. CASE i \in Locked(r) BY <2>1
  <2>2. CASE i \notin Locked(r)
    <3>1. \A q \in Replicas : i \notin Locked(q) BY <1>2, <2>2
    <3>2. Total(i) <= faults BY <3>1 DEF BoundInv
    <3>3. Total(i)' <= Total(i) BY <2>2
    <3> QED BY <1>5, <3>2, <3>3
  <2> QED BY <2>1, <2>2
<1>8. \A q \in Replicas, i \in Rows : Unsent(q, i)' => Total(i)' <= faults'
  <2> SUFFICES ASSUME NEW q \in Replicas, NEW i \in Rows, Unsent(q, i)'
               PROVE  Total(i)' <= faults'
    OBVIOUS
  <2>1. Total(i) <= faults /\ Total(i)' <= Total(i) BY <1>3, <1>a DEF BoundInv
  <2> QED BY <1>5, <2>1
<1>9. \A q \in Replicas, i \in Rows : cancelled'[q] /\ i \in Locked(q)' => Total(i)' <= faults'
  <2> SUFFICES ASSUME NEW q \in Replicas, NEW i \in Rows, cancelled'[q], i \in Locked(q)'
               PROVE  Total(i)' <= faults'
    OBVIOUS
  <2>1. q # r /\ cancelled[q] /\ i \in Locked(q) BY <1>2
  <2>2. Total(i) <= faults /\ Total(i)' <= Total(i) BY <1>a, <2>1 DEF BoundInv
  <2> QED BY <1>5, <2>2
<1>10. \A q \in Replicas, i \in Rows :
         cancelled'[q] /\ ~At(q, "commit")' /\ Unsent(q, i)' => Total(i)' < faults'
  <2> SUFFICES ASSUME NEW q \in Replicas, NEW i \in Rows, cancelled'[q],
                      ~At(q, "commit")', Unsent(q, i)'
               PROVE  Total(i)' < faults'
    OBVIOUS
  <2>1. q # r /\ cancelled[q] /\ ~At(q, "commit") /\ Unsent(q, i) BY <1>3, <1>4
  <2>2. Total(i) < faults /\ Total(i)' <= Total(i) BY <1>3, <1>a, <2>1 DEF BoundInv
  <2> QED BY <1>5, <2>2
<1> QED BY <1>6, <1>7, <1>8, <1>9, <1>10 DEF BoundInv

(* A replica whose batch ends. *)
LEMMA EndBound ==
  ASSUME TypeOK, TypeOK', ClaimsInv, BoundInv, NEW r \in Replicas,
         NEW b \in {Down, Waiting}, Becomes(r, b),
         UNCHANGED copies, faults' >= faults, published \subseteq published',
         \A q \in Replicas \ {r} : cancelled'[q] = cancelled[q],
         \A i \in Locked(r) \ published' : Total(i) <= faults'
  PROVE  BoundInv'
<1>1. b.left = {} /\ b.marked = {} /\ b.at # "late" BY DEF Down, Waiting
<1>2. ASSUME NEW i \in Rows
      PROVE  Total(i) \in Nat /\ Total(i)' \in Nat /\ Total(i)' <= Total(i)
  <2>1. copies'[i] - copies[i] = 0 BY DEF TypeOK
  <2> QED BY <1>1, <2>1, TotalStep
<1>3. \A i \in Locked(r) \ published' : Total(i)' <= faults'
  <2>1. Locked(r) \subseteq Rows BY BatchFacts
  <2>2. faults' \in Int BY OutboxAssumption DEF TypeOK
  <2> QED BY <1>2, <2>1, <2>2
<1> QED BY <1>1, <1>2, <1>3, ReleaseBound

(* A step inside r's transaction that keeps its rows. *)
LEMMA BatchBound ==
  ASSUME TypeOK, TypeOK', ClaimsInv, BoundInv, NEW r \in Replicas, NEW b, Becomes(r, b),
         b.at # "late", b.left \cup b.marked = Locked(r),
         UNCHANGED <<published, cancelled>>,
         \A i \in Rows : Total(i) \in Nat /\ Total(i)' \in Nat,
         faults' >= faults,
         \A i \in Rows \ Locked(r) : Total(i)' = Total(i),
         \A i \in Locked(r) : Total(i)' <= 1 + faults',
         \A i \in Rows : Unsent(r, i)' => Total(i)' <= faults',
         cancelled[r] => \A i \in Locked(r) : Total(i)' <= faults',
         cancelled[r] /\ b.at # "commit" =>
           \A i \in Rows : Unsent(r, i)' => Total(i)' < faults'
  PROVE  BoundInv'
<1>0. /\ batch'[r] = b /\ Locked(r)' = b.left \cup b.marked
      /\ \A q \in Replicas \ {r} : batch'[q] = batch[q] /\ Locked(q)' = Locked(q)
  BY BecomesStep
<1>1. /\ batch'[r] = b /\ Locked(r)' = Locked(r)
      /\ \A q \in Replicas \ {r} : batch'[q] = batch[q] /\ Locked(q)' = Locked(q)
  BY <1>0
<1>2. \A q \in Replicas \ {r}, i \in Rows : i \in Locked(q) => Total(i)' = Total(i)
  BY DEF ClaimsInv
<1>3. \A q \in Replicas \ {r}, i \in Rows :
        Unsent(q, i)' => Unsent(q, i) /\ i \in Locked(q)
  BY <1>1 DEF Unsent, At, IsNext
<1>4. faults \in Int /\ faults' \in Int
      /\ \A i \in Rows : Total(i) \in Int /\ Total(i)' \in Int
  BY OutboxAssumption DEF TypeOK
<1>5. (\A i \in Rows : Total(i) <= 1 + faults)' BY <1>4 DEF BoundInv
<1>6. \A i \in Rows \ published' :
        (\A q \in Replicas : i \notin Locked(q)') => Total(i)' <= faults'
  <2> SUFFICES ASSUME NEW i \in Rows \ published, \A q \in Replicas : i \notin Locked(q)'
               PROVE  Total(i)' <= faults'
    OBVIOUS
  <2>1. \A q \in Replicas : i \notin Locked(q) BY <1>1
  <2>2. Total(i) <= faults /\ Total(i)' = Total(i) BY <2>1 DEF BoundInv
  <2> QED BY <1>4, <2>2
<1>7. \A q \in Replicas, i \in Rows : Unsent(q, i)' => Total(i)' <= faults'
  <2> SUFFICES ASSUME NEW q \in Replicas, NEW i \in Rows, Unsent(q, i)'
               PROVE  Total(i)' <= faults'
    OBVIOUS
  <2>1. CASE q = r BY <2>1
  <2>2. CASE q # r
    <3>1. Total(i) <= faults BY <1>3, <2>2 DEF BoundInv
    <3> QED BY <1>2, <1>3, <1>4, <2>2, <3>1
  <2> QED BY <2>1, <2>2
<1>8. \A q \in Replicas, i \in Rows : cancelled'[q] /\ i \in Locked(q)' => Total(i)' <= faults'
  <2> SUFFICES ASSUME NEW q \in Replicas, NEW i \in Rows, cancelled[q], i \in Locked(q)'
               PROVE  Total(i)' <= faults'
    OBVIOUS
  <2>1. CASE q = r BY <1>1, <2>1
  <2>2. CASE q # r
    <3>1. i \in Locked(q) BY <1>1, <2>2
    <3>2. Total(i) <= faults BY <3>1 DEF BoundInv
    <3> QED BY <1>2, <1>4, <2>2, <3>1, <3>2
  <2> QED BY <2>1, <2>2
<1>9. \A q \in Replicas, i \in Rows :
        cancelled'[q] /\ ~At(q, "commit")' /\ Unsent(q, i)' => Total(i)' < faults'
  <2> SUFFICES ASSUME NEW q \in Replicas, NEW i \in Rows, cancelled[q], ~At(q, "commit")',
                      Unsent(q, i)'
               PROVE  Total(i)' < faults'
    OBVIOUS
  <2>1. CASE q = r BY <1>1, <2>1 DEF At
  <2>2. CASE q # r
    <3>1. ~At(q, "commit") BY <1>1, <2>2 DEF At
    <3>2. Total(i) < faults BY <1>3, <2>2, <3>1 DEF BoundInv
    <3> QED BY <1>2, <1>3, <1>4, <2>2, <3>2
  <2> QED BY <2>1, <2>2
<1> QED BY <1>5, <1>6, <1>7, <1>8, <1>9 DEF BoundInv

(* A batch that ends with a database fault. *)
LEMMA FaultBound ==
  ASSUME TypeOK, ClaimsInv, BoundInv, NEW r \in Replicas, DatabaseFault(r)
  PROVE  /\ faults' >= faults
         /\ \A i \in Locked(r) : Total(i) <= faults'
<1>1. faults \in Int /\ \A i \in Rows : Total(i) \in Int /\ Total(i) <= 1 + faults
  BY OutboxAssumption, TotalType DEF TypeOK, BoundInv
<1>2. Locked(r) \subseteq Rows BY BatchFacts
<1>3. CASE Fault BY <1>1, <1>2, <1>3 DEF Fault
<1>4. CASE cancelled[r] /\ UNCHANGED faults BY <1>1, <1>2, <1>4 DEF BoundInv
<1> QED BY <1>3, <1>4 DEF DatabaseFault

(* The inductive step of BoundInv. *)
LEMMA NextBound == TypeOK /\ ClaimsInv /\ BoundInv /\ [Next]_vars => BoundInv'
<1> SUFFICES ASSUME TypeOK, ClaimsInv, BoundInv, [Next]_vars PROVE BoundInv' OBVIOUS
<1>0. TypeOK' BY NextType
<1>a. faults \in Int /\ faults' \in Int /\ \A i \in Rows : Total(i) \in Int
  BY <1>0, OutboxAssumption, TotalType DEF TypeOK
<1>b. \A r \in Replicas : Locked(r) \subseteq Rows BY BatchFacts
<1>c. ASSUME UNCHANGED <<batch, copies>> PROVE \A i : Total(i)' = Total(i)
  BY <1>c DEF Total, LateAt, Late, At
<1>d. ASSUME UNCHANGED batch
      PROVE  \A q \in Replicas : /\ Locked(q)' = Locked(q)
                                 /\ At(q, "commit")' = At(q, "commit")
                                 /\ \A i : Unsent(q, i)' = Unsent(q, i)
  BY <1>d DEF Locked, At, Unsent, IsNext
<1>1. CASE UNCHANGED vars
  <2>1. /\ UNCHANGED <<published, cancelled, faults>>
        /\ \A i : Total(i)' = Total(i)
        /\ \A q \in Replicas : /\ Locked(q)' = Locked(q)
                               /\ At(q, "commit")' = At(q, "commit")
                               /\ \A i : Unsent(q, i)' = Unsent(q, i)
    BY <1>1, <1>c, <1>d DEF vars, table
  <2> QED BY <2>1 DEF BoundInv
<1>2. ASSUME NEW i \in Rows, Append(i) PROVE BoundInv'
  <2>1. /\ UNCHANGED <<published, cancelled, faults>>
        /\ \A j : Total(j)' = Total(j)
        /\ \A q \in Replicas : /\ Locked(q)' = Locked(q)
                               /\ At(q, "commit")' = At(q, "commit")
                               /\ \A j : Unsent(q, j)' = Unsent(q, j)
    BY <1>2, <1>c, <1>d DEF Append
  <2> QED BY <2>1 DEF BoundInv
<1>3. ASSUME NEW r \in Replicas, Start(r) \/ Stop(r) PROVE BoundInv'
  <2>1. Locked(r) = {} BY <1>3, BatchFacts DEF Start, Stop, At
  <2> QED BY <1>0, <1>3, <1>a, <2>1, EndBound DEF Start, Stop, table, TypeOK
<1>4. ASSUME NEW r \in Replicas, Crash(r) PROVE BoundInv'
  <2>1. UNCHANGED table /\ UNCHANGED cancelled /\ Becomes(r, Down) /\ faults' = faults + 1
    BY <1>4 DEF Crash, Fault
  <2>2. \A i \in Locked(r) : Total(i) <= faults'
    BY <1>a, <1>b, <2>1 DEF BoundInv
  <2> QED BY <1>0, <1>a, <2>1, <2>2, EndBound DEF table
<1>5. ASSUME NEW r \in Replicas, Cancel(r) PROVE BoundInv'
  <2>1. UNCHANGED <<table, batch>> /\ faults' = faults + 1 BY <1>5 DEF Cancel, Fault
  <2>2. \A q \in Replicas : /\ Locked(q)' = Locked(q) /\ At(q, "commit")' = At(q, "commit")
                           /\ \A i : Unsent(q, i)' = Unsent(q, i)
    BY <1>d, <2>1
  <2>a. \A i : Total(i)' = Total(i) BY <1>c, <2>1 DEF table
  <2>3. \A i \in Rows : Total(i)' = Total(i) /\ Total(i) <= faults'
    BY <1>a, <2>1, <2>a DEF BoundInv
  <2>4. \A q \in Replicas, i \in Rows : Unsent(q, i) => Total(i) < faults'
    BY <1>a, <2>1 DEF BoundInv
  <2> QED BY <1>a, <1>b, <2>1, <2>2, <2>3, <2>4 DEF BoundInv
<1>6. ASSUME NEW r \in Replicas, Claim(r) PROVE BoundInv'
  <2> DEFINE b == Open("publish", Lowest(Claimable(r), Limit), {})
  <2>1. /\ b.left \subseteq visible \ published /\ b.marked = {} /\ b.at = "publish"
        /\ \A q \in Replicas \ {r} : b.left \cap Locked(q) = {}
    BY DEF Open, Lowest, Claimable
  <2>2. Becomes(r, b) /\ ~cancelled[r] /\ Locked(r) = {}
        /\ UNCHANGED <<visible, published, copies, cancelled, faults>>
    BY <1>6, BatchFacts DEF Claim, At, table
  <2> HIDE DEF b
  <2>3. /\ batch'[r] = b /\ Locked(r)' = b.left
        /\ \A q \in Replicas \ {r} : batch'[q] = batch[q] /\ Locked(q)' = Locked(q)
    BY <2>1, <2>2, BecomesStep
  <2>a. \A i \in Rows : Total(i)' = Total(i)
    <3>1. batch[r].at # "late" BY <1>6 DEF Claim, At
    <3> QED BY <1>0, <2>1, <2>2, <3>1, TotalFollows
  <2>4. \A i \in b.left : Total(i) <= faults
    <3> SUFFICES ASSUME NEW i \in b.left PROVE Total(i) <= faults OBVIOUS
    <3>1. i \in Rows \ published BY <2>1 DEF TypeOK
    <3>2. \A q \in Replicas : i \notin Locked(q) BY <2>1, <2>2
    <3> QED BY <3>1, <3>2 DEF BoundInv
  <2>5. \A q \in Replicas, i \in Rows :
          Unsent(q, i)' => (q = r /\ i \in b.left) \/ (q # r /\ Unsent(q, i))
    BY <2>1, <2>3 DEF Unsent, At, IsNext
  <2>6. \A q \in Replicas \ {r} : At(q, "commit")' = At(q, "commit") BY <2>3 DEF At
  <2>7. (\A i \in Rows : Total(i) <= 1 + faults)' BY <2>2, <2>a DEF BoundInv
  <2>8. \A i \in Rows \ published' :
          (\A q \in Replicas : i \notin Locked(q)') => Total(i)' <= faults'
    <3> SUFFICES ASSUME NEW i \in Rows \ published, \A q \in Replicas : i \notin Locked(q)'
                 PROVE  Total(i)' <= faults'
      BY <2>2
    <3>1. \A q \in Replicas : i \notin Locked(q) BY <2>2, <2>3
    <3> QED BY <2>2, <2>a, <3>1 DEF BoundInv
  <2>9. \A q \in Replicas, i \in Rows : Unsent(q, i)' => Total(i)' <= faults'
    BY <2>2, <2>4, <2>5, <2>a DEF BoundInv
  <2>10. \A q \in Replicas, i \in Rows :
           cancelled'[q] /\ i \in Locked(q)' => Total(i)' <= faults'
    BY <2>2, <2>3, <2>4, <2>a DEF BoundInv
  <2>11. \A q \in Replicas, i \in Rows :
           cancelled'[q] /\ ~At(q, "commit")' /\ Unsent(q, i)' => Total(i)' < faults'
    BY <2>2, <2>5, <2>6, <2>a DEF BoundInv
  <2> QED BY <2>7, <2>8, <2>9, <2>10, <2>11 DEF BoundInv
<1>7. ASSUME NEW r \in Replicas, PublishSucceeds(r) PROVE BoundInv'
  <2> DEFINE b == Open("mark", batch[r].left, batch[r].marked)
  <2>1. PICK i \in Rows : IsNext(r, i) /\ Sent(i) BY <1>7 DEF PublishSucceeds
  <2>2. b.left = batch[r].left /\ b.marked = batch[r].marked /\ b.at = "mark" BY DEF Open
  <2>3. Becomes(r, b) BY <1>7, OpenBatch DEF PublishSucceeds, At, InTransaction
  <2> HIDE DEF b
  <2>4. batch'[r] = b /\ Locked(r)' = b.left \cup b.marked BY <2>2, <2>3, BecomesStep
  <2>5. UNCHANGED <<published, cancelled, faults>> BY <1>7 DEF PublishSucceeds
  <2>a. batch[r].at # "late" BY <1>7 DEF PublishSucceeds, At
  <2>b. \A j \in Rows : Total(j) \in Nat /\ Total(j)' \in Nat
    BY <1>0, <2>2, <2>3, <2>a, TotalFollows
  <2>6. Total(i)' = Total(i) + 1 /\ \A j \in Rows \ {i} : Total(j)' = Total(j)
    <3>1. copies'[i] = copies[i] + 1 /\ \A j \in Rows \ {i} : copies'[j] = copies[j]
      BY <2>1 DEF Sent, TypeOK
    <3> QED BY <1>0, <2>2, <2>3, <2>a, <3>1, TotalFollows
  <2>15. b.left \cup b.marked = Locked(r) BY <2>2, <2>a, BatchFacts
  <2>7. Unsent(r, i) /\ ~At(r, "commit") /\ i \in Locked(r)
    BY <1>7, <2>1, <2>2, <2>15 DEF PublishSucceeds, Unsent, At, IsNext
  <2>8. Total(i) <= faults /\ (cancelled[r] => Total(i) < faults) BY <2>7 DEF BoundInv
  <2>9. \A j \in Rows : Unsent(r, j)' => j # i /\ Unsent(r, j)
    BY <1>7, <2>1, <2>2, <2>4, <2>15 DEF Unsent, At, IsNext, PublishSucceeds
  <2>10. \A j \in Locked(r) : Total(j)' <= 1 + faults'
    BY <1>a, <1>b, <2>5, <2>6, <2>8 DEF BoundInv
  <2>11. \A j \in Rows : Unsent(r, j)' => Total(j)' <= faults'
    BY <2>5, <2>6, <2>9 DEF BoundInv
  <2>12. cancelled[r] => \A j \in Locked(r) : Total(j)' <= faults'
    BY <1>a, <1>b, <2>5, <2>6, <2>8 DEF BoundInv
  <2>13. cancelled[r] => \A j \in Rows : Unsent(r, j)' => Total(j)' < faults'
    BY <2>5, <2>6, <2>7, <2>9 DEF BoundInv
  <2>14. \A j \in Rows \ Locked(r) : Total(j)' = Total(j) BY <2>6, <2>7
  <2> QED
    BY <1>0, <1>a, <2>2, <2>b, <2>3, <2>5, <2>10, <2>11, <2>12, <2>13, <2>14, <2>15, BatchBound
<1>8. ASSUME NEW r \in Replicas, PublishFails(r) PROVE BoundInv'
  <2> DEFINE b == Open("commit", batch[r].left, batch[r].marked)
  <2>1. PICK i \in Rows : IsNext(r, i) /\
          \/ UNCHANGED <<copies, faults>>
          \/ (Sent(i) \/ UNCHANGED copies) /\ (Fault \/ (cancelled[r] /\ UNCHANGED faults))
    BY <1>8 DEF PublishFails
  <2>2. b.left = batch[r].left /\ b.marked = batch[r].marked /\ b.at = "commit" BY DEF Open
  <2>3. Becomes(r, b) BY <1>8, OpenBatch DEF PublishFails, At, InTransaction
  <2> HIDE DEF b
  <2>4. batch'[r] = b /\ Locked(r)' = b.left \cup b.marked BY <2>2, <2>3, BecomesStep
  <2>5. UNCHANGED <<published, cancelled>> BY <1>8 DEF PublishFails
  <2>a. batch[r].at # "late" BY <1>8 DEF PublishFails, At
  <2>b. \A j \in Rows : Total(j) \in Nat /\ Total(j)' \in Nat
    BY <1>0, <2>2, <2>3, <2>a, TotalFollows
  <2>6. /\ Total(i)' = Total(i) \/ Total(i)' = Total(i) + 1
        /\ \A j \in Rows \ {i} : Total(j)' = Total(j)
        /\ UNCHANGED copies => Total(i)' = Total(i)
    <3>1. /\ copies'[i] = copies[i] \/ copies'[i] = copies[i] + 1
          /\ \A j \in Rows \ {i} : copies'[j] = copies[j]
          /\ UNCHANGED copies => copies'[i] = copies[i]
      BY <2>1 DEF Sent, TypeOK
    <3> QED BY <1>0, <2>2, <2>3, <2>a, <3>1, TotalFollows
  <2>15. b.left \cup b.marked = Locked(r) BY <2>2, <2>a, BatchFacts
  <2>7. Unsent(r, i) /\ ~At(r, "commit") /\ i \in Locked(r)
    BY <1>8, <2>1, <2>2, <2>15 DEF PublishFails, Unsent, At, IsNext
  <2>8. faults' >= faults BY <1>a, <2>1 DEF Fault
  <2>9. Total(i)' <= faults'
    <3>1. Total(i) <= faults /\ (cancelled[r] => Total(i) < faults) BY <2>7 DEF BoundInv
    <3> QED BY <1>a, <2>1, <2>6, <3>1 DEF Fault
  <2>10. \A j \in Rows : Unsent(r, j)' => Unsent(r, j)
    BY <1>8, <2>2, <2>4, <2>15 DEF Unsent, At, IsNext, PublishFails
  <2>11. \A j \in Locked(r) : Total(j)' <= 1 + faults'
    BY <1>a, <1>b, <2>6, <2>8, <2>9 DEF BoundInv
  <2>12. \A j \in Rows : Unsent(r, j)' => Total(j)' <= faults'
    BY <1>a, <2>6, <2>8, <2>9, <2>10 DEF BoundInv
  <2>13. cancelled[r] => \A j \in Locked(r) : Total(j)' <= faults'
    BY <1>a, <1>b, <2>6, <2>8, <2>9 DEF BoundInv
  <2>14. \A j \in Rows \ Locked(r) : Total(j)' = Total(j) BY <2>6, <2>7
  <2> QED
    BY <1>0, <2>b, <2>2, <2>3, <2>5, <2>8, <2>11, <2>12, <2>13, <2>14, <2>15, BatchBound
<1>9. ASSUME NEW r \in Replicas, MarkSucceeds(r) PROVE BoundInv'
  <2>1. PICK i \in Rows : IsNext(r, i) /\
          Becomes(r, Open("publish", batch[r].left \ {i}, batch[r].marked \cup {i}))
    BY <1>9 DEF MarkSucceeds
  <2> DEFINE b == Open("publish", batch[r].left \ {i}, batch[r].marked \cup {i})
  <2>2. b.left = batch[r].left \ {i} /\ b.marked = batch[r].marked \cup {i} /\ b.at = "publish"
    BY DEF Open
  <2>3. Becomes(r, b) BY <2>1
  <2> HIDE DEF b
  <2>4. batch'[r] = b /\ Locked(r)' = b.left \cup b.marked BY <2>2, <2>3, BecomesStep
  <2>a. batch[r].at # "late" BY <1>9 DEF MarkSucceeds, At
  <2>5. UNCHANGED <<published, cancelled, copies, faults>> /\ ~cancelled[r]
    BY <1>9 DEF MarkSucceeds, table
  <2>6. b.left \cup b.marked = Locked(r) BY <2>1, <2>2, <2>a, BatchFacts DEF IsNext
  <2>7. \A j \in Rows : Unsent(r, j)' => Unsent(r, j)
    BY <2>1, <2>2, <2>4, <2>6, NextIsUnique DEF Unsent
  <2>b. \A j \in Rows : Total(j)' = Total(j) /\ Total(j) \in Nat
    BY <1>0, <2>2, <2>3, <2>5, <2>a, TotalFollows
  <2>8. \A j \in Rows : Unsent(r, j)' => Total(j)' <= faults'
    BY <2>5, <2>7, <2>b DEF BoundInv
  <2>9. \A j \in Locked(r) : Total(j)' <= 1 + faults'
    BY <1>b, <2>5, <2>b DEF BoundInv
  <2> QED BY <1>0, <1>a, <2>2, <2>3, <2>5, <2>6, <2>8, <2>9, <2>b, BatchBound
<1>10. ASSUME NEW r \in Replicas, MarkFails(r) PROVE BoundInv'
  BY <1>0, <1>10, FaultBound, EndBound DEF MarkFails, table
<1>11. ASSUME NEW r \in Replicas, CommitFails(r) PROVE BoundInv'
  BY <1>0, <1>11, FaultBound, EndBound DEF CommitFails
<1>12. ASSUME NEW r \in Replicas, CommitSucceeds(r) PROVE BoundInv'
  <2>1. /\ published' = published \cup batch[r].marked /\ Becomes(r, Waiting)
        /\ UNCHANGED <<copies, faults, cancelled>>
    BY <1>12 DEF CommitSucceeds
  <2>2. \A i \in Locked(r) \ published' : Unsent(r, i)
    BY <1>12, <2>1, BatchFacts DEF CommitSucceeds, AtEnd, At, Unsent
  <2>3. \A i \in Locked(r) \ published' : Total(i) <= faults'
    BY <1>b, <2>1, <2>2 DEF BoundInv
  <2> QED BY <1>0, <1>a, <2>1, <2>3, EndBound
<1>13. ASSUME NEW r \in Replicas, ClaimLost(r) PROVE BoundInv'
  <2>1. PICK k \in Rows : IsNext(r, k) /\ Becomes(r, Lost(k)) BY <1>13 DEF ClaimLost
  <2>2. /\ At(r, "publish") /\ faults' = faults + 1
        /\ UNCHANGED <<published, copies, cancelled>>
    BY <1>13 DEF ClaimLost, Fault, table
  <2>3. batch[r].at # "late" BY <2>2 DEF At
  <2>4. /\ Lost(k).at = "late"
        /\ Lost(k).marked = {}
    BY DEF Lost
  <2>5. Unsent(r, k) /\ k \in Locked(r)
    BY <2>1, <2>2, <2>3, BatchFacts DEF Unsent, At, IsNext
  <2>6. \A i \in Rows : /\ Total(i) \in Nat /\ Total(i)' \in Nat
                        /\ i # k => Total(i)' = Total(i)
                        /\ i = k => Total(i)' = Total(i) + 1
    BY <1>0, <2>1, <2>2, <2>3, TotalLost
  <2>7. \A i \in Locked(r) : Total(i)' <= faults'
    <3> SUFFICES ASSUME NEW i \in Locked(r) PROVE Total(i)' <= faults' OBVIOUS
    <3>1. i \in Rows BY <1>b
    <3>2. CASE i = k
      <4>1. Total(i) <= faults BY <2>5, <3>1, <3>2 DEF BoundInv
      <4> QED BY <1>a, <2>2, <2>6, <3>1, <3>2, <4>1
    <3>3. CASE i # k
      <4>1. Total(i) <= 1 + faults BY <3>1 DEF BoundInv
      <4> QED BY <1>a, <2>2, <2>6, <3>1, <3>3, <4>1
    <3> QED BY <3>2, <3>3
  <2>8. Locked(r) \cap published = {} BY DEF ClaimsInv
  <2>9. \A i \in Rows : i \in Locked(r) \ published' \/ Total(i)' <= Total(i)
    BY <2>2, <2>5, <2>6, <2>8
  <2> QED BY <1>0, <1>a, <2>1, <2>2, <2>4, <2>6, <2>7, <2>9, ReleaseBound
<1>14. ASSUME NEW r \in Replicas, PublishLate(r) PROVE BoundInv'
  <2>1. PICK k \in Rows : IsNext(r, k) /\ (Sent(k) \/ UNCHANGED copies)
    BY <1>14 DEF PublishLate
  <2>2. /\ At(r, "late") /\ Becomes(r, Waiting)
        /\ UNCHANGED <<published, cancelled, faults>>
    BY <1>14 DEF PublishLate
  <2>3. batch[r].left = {k} BY <2>1, <2>2, BatchFacts DEF At, IsNext
  <2>4. Waiting.left = {} /\ Waiting.marked = {} /\ Waiting.at # "late" BY DEF Waiting
  <2>5. Locked(r) = {} BY <2>2, BatchFacts DEF At
  <2>6. ASSUME NEW i \in Rows
        PROVE  Total(i) \in Nat /\ Total(i)' \in Nat /\ Total(i)' <= Total(i)
    <3>1. /\ copies[i] \in Nat /\ copies'[i] \in Nat
          /\ i # k => copies'[i] = copies[i]
          /\ i = k => copies'[i] <= copies[i] + 1
      BY <1>0, <2>1 DEF Sent, TypeOK
    <3>2. Late(r, i) <=> i = k BY <2>2, <2>3 DEF Late
    <3>3. /\ Total(i) \in Nat /\ Total(i)' \in Nat
          /\ ~Late(r, i) => Total(i)' = Total(i) + (copies'[i] - copies[i])
          /\ Late(r, i) => Total(i)' = Total(i) + (copies'[i] - copies[i]) - 1
      BY <1>0, <2>2, <2>4, TotalStep
    <3> QED BY <3>1, <3>2, <3>3
  <2>7. \A i \in Rows : i \in Locked(r) \ published' \/ Total(i)' <= Total(i) BY <2>6
  <2>8. \A i \in Rows : Total(i) \in Nat /\ Total(i)' \in Nat BY <2>6
  <2> QED BY <1>0, <1>a, <2>2, <2>4, <2>5, <2>7, <2>8, ReleaseBound
<1> QED
  BY <1>1, <1>2, <1>3, <1>4, <1>5, <1>6, <1>7, <1>8, <1>9, <1>10, <1>11, <1>12,
     <1>13, <1>14
  DEF Next, FlushStep

(* A row is sent at most once more than there were faults, however many      *)
(* replicas relay and whichever rows Kafka never accepts.                    *)
THEOREM ResendsAreFaults == Spec => []ResentOnlyAfterFault
<1>1. TypeOK /\ BoundInv => ResentOnlyAfterFault
  <2> SUFFICES ASSUME TypeOK, BoundInv, NEW i \in Rows PROVE copies[i] <= 1 + faults
    BY DEF ResentOnlyAfterFault
  <2>1. Total(i) \in Nat /\ copies[i] <= Total(i) BY TotalType
  <2>2. Total(i) <= 1 + faults BY DEF BoundInv
  <2>3. copies[i] \in Nat /\ faults \in Nat BY OutboxAssumption DEF TypeOK
  <2> QED BY <2>1, <2>2, <2>3
<1> QED
  BY <1>1, InitType, NextType, InitClaims, NextClaims, InitBound, NextBound, PTL DEF Spec
=============================================================================
