-------------------------- MODULE Processor_proofs --------------------------
(* Theorems about Processor, for any number of goroutines and of calls, any  *)
(* histories and times, any buckets, and any artifact with the two extremes  *)
(* of ArtifactAssumption.                                                    *)
EXTENDS Processor, FiniteSetTheorems, TLAPS

-----------------------------------------------------------------------------
(* Sums.  SumFunctionOnSet recurses over subsets; what is known of it here   *)
(* follows by induction over the subsets of a finite set, which is stated    *)
(* for a set of good subsets and rests on their well-founded order.          *)

(* Induction over the subsets of a finite set, for a set of good subsets.    *)
LEMMA SubsetInduction ==
  ASSUME NEW S, IsFiniteSet(S), NEW Good,
         \A T \in SUBSET S : (\A U \in SUBSET T : U # T => U \in Good) => T \in Good
  PROVE  \A T \in SUBSET S : T \in Good
<1> DEFINE bad == {T \in SUBSET S : T \notin Good}
<1> SUFFICES ASSUME bad # {} PROVE FALSE OBVIOUS
<1>1. bad \subseteq FiniteSubsetsOf(S) BY FS_FiniteSubsetsOfFinite
<1>2. IsWellFoundedOn(StrictSubsetOrdering(S), FiniteSubsetsOf(S))
  BY FS_StrictSubsetOrderingWellFounded
<1> HIDE DEF bad
<1>3. PICK T \in bad : \A U \in bad : <<U, T>> \notin StrictSubsetOrdering(S)
  BY <1>1, <1>2, WFMin
<1> USE DEF bad
<1>4. T \in SUBSET S /\ T \notin Good OBVIOUS
<1>5. ASSUME NEW U \in SUBSET T, U # T PROVE U \in Good
  <2>1. <<U, T>> \in StrictSubsetOrdering(S) BY <1>4, <1>5 DEF StrictSubsetOrdering
  <2>2. U \notin bad BY <1>3, <2>1
  <2> QED BY <1>4, <2>2
<1> QED BY <1>4, <1>5

(* The element that a sum over s takes first. *)
First(s) == CHOOSE x \in s : TRUE

(* g is the function that SumFunctionOnSet(f, S) defines by recursion. *)
Sums(f, g, S) ==
  g = [s \in SUBSET S |-> IF s = {} THEN 0 ELSE f[First(s)] + g[s \ {First(s)}]]
SumBy(f, S) == (CHOOSE g : Sums(f, g, S))[S]

(* The sum over a set is that function of all its subsets, at the set.       *)
LEMMA SumIsSumBy ==
  ASSUME NEW f, NEW S
  PROVE  SumFunctionOnSet(f, S) = SumBy(f, S)
BY DEF SumFunctionOnSet, FoldFunctionOnSet, MapThenFoldSet, Sums, SumBy, First

(* The element that is added first is one of the set.                        *)
LEMMA FirstIn == ASSUME NEW s, s # {} PROVE First(s) \in s BY DEF First

(* Two such functions agree where both are defined. *)
LEMMA SumsAgree ==
  ASSUME NEW f, NEW S, IsFiniteSet(S), NEW A, NEW B, S \subseteq A, S \subseteq B,
         NEW g, NEW h, Sums(f, g, A), Sums(f, h, B)
  PROVE  g[S] = h[S]
<1> DEFINE Good == {T \in SUBSET S : g[T] = h[T]}
<1>1. ASSUME NEW T \in SUBSET S, \A U \in SUBSET T : U # T => U \in Good
      PROVE  T \in Good
  <2>1. /\ g[T] = IF T = {} THEN 0 ELSE f[First(T)] + g[T \ {First(T)}]
        /\ h[T] = IF T = {} THEN 0 ELSE f[First(T)] + h[T \ {First(T)}]
    BY DEF Sums
  <2>2. CASE T = {} BY <2>1, <2>2
  <2>3. CASE T # {}
    <3>1. T \ {First(T)} \in Good BY <1>1, <2>3, FirstIn
    <3> QED BY <2>1, <2>3, <3>1
  <2> QED BY <2>2, <2>3
<1> HIDE DEF Good
<1>2. S \in Good BY <1>1, SubsetInduction
<1> QED BY <1>2 DEF Good

(* There is such a function for every finite set. *)
LEMMA SumsExist ==
  ASSUME NEW f, NEW S, IsFiniteSet(S)
  PROVE  \E g : Sums(f, g, S)
<1> DEFINE Good == {T \in SUBSET S : \E g : Sums(f, g, T)}
<1>1. ASSUME NEW T \in SUBSET S, \A U \in SUBSET T : U # T => U \in Good
      PROVE  T \in Good
  <2> DEFINE g == [s \in SUBSET T |-> IF s = {} THEN 0
                                      ELSE f[First(s)] + SumBy(f, s \ {First(s)})]
  <2>1. ASSUME NEW s \in SUBSET T, s # T PROVE g[s] = SumBy(f, s)
    <3> DEFINE h == CHOOSE h : Sums(f, h, s)
    <3>1. Sums(f, h, s) BY <1>1, <2>1
    <3>2. SumBy(f, s) = h[s] BY DEF SumBy
    <3>3. CASE s = {}
      BY <3>1, <3>2, <3>3 DEF Sums
    <3>4. CASE s # {}
      <4> DEFINE r == s \ {First(s)}
      <4> DEFINE k == CHOOSE k : Sums(f, k, r)
      <4>1. r \in SUBSET T /\ r # T /\ r \subseteq s BY <3>4, FirstIn
      <4>2. Sums(f, k, r) BY <1>1, <4>1
      <4>3. IsFiniteSet(r) BY <4>1, FS_Subset
      <4>4. h[r] = k[r]
        <5> HIDE DEF h, k, r
        <5> QED BY <3>1, <4>1, <4>2, <4>3, SumsAgree
      <4>5. h[s] = f[First(s)] + h[r]
        <5> HIDE DEF h
        <5> QED BY <3>1, <3>4 DEF Sums
      <4> QED BY <3>2, <3>4, <4>4, <4>5 DEF SumBy
    <3> QED BY <3>3, <3>4
  <2>2. ASSUME NEW s \in SUBSET T, s # {}
        PROVE  g[s \ {First(s)}] = SumBy(f, s \ {First(s)})
    <3>1. s \ {First(s)} \in SUBSET T /\ s \ {First(s)} # T BY <2>2, FirstIn
    <3> HIDE DEF g
    <3> QED BY <2>1, <3>1
  <2>3. Sums(f, g, T) BY <2>2 DEF Sums
  <2> HIDE DEF g
  <2> QED BY <2>3
<1> HIDE DEF Good
<1>2. S \in Good BY <1>1, SubsetInduction
<1> QED BY <1>2 DEF Good

(* The recursion of a sum, as it stands. *)
LEMMA SumTakesFirst ==
  ASSUME NEW f, NEW S, IsFiniteSet(S)
  PROVE  SumFunctionOnSet(f, S) =
           IF S = {} THEN 0 ELSE f[First(S)] + SumFunctionOnSet(f, S \ {First(S)})
<1> DEFINE h == CHOOSE h : Sums(f, h, S)
<1>1. Sums(f, h, S) BY SumsExist
<1>2. SumFunctionOnSet(f, S) = h[S] BY SumIsSumBy DEF SumBy
<1> HIDE DEF h
<1>3. CASE S = {} BY <1>1, <1>2, <1>3 DEF Sums
<1>4. CASE S # {}
  <2> DEFINE r == S \ {First(S)}
             k == CHOOSE k : Sums(f, k, r)
  <2>1. r \subseteq S /\ IsFiniteSet(r) BY FS_Subset
  <2>2. Sums(f, k, r) BY <2>1, SumsExist
  <2>3. SumFunctionOnSet(f, r) = k[r] BY SumIsSumBy DEF SumBy
  <2> HIDE DEF k
  <2>4. h[r] = k[r]
    <3> HIDE DEF r
    <3> QED BY <1>1, <2>1, <2>2, SumsAgree
  <2> QED BY <1>1, <1>2, <1>4, <2>3, <2>4 DEF Sums
<1> QED BY <1>3, <1>4

-----------------------------------------------------------------------------
(* Facts about sums of integers                                              *)

(* The sum over no element.                                                  *)
LEMMA SumEmpty == ASSUME NEW f PROVE SumFunctionOnSet(f, {}) = 0
BY SumTakesFirst, FS_EmptySet

(* A sum of integers is one, of naturals too.                                *)
LEMMA SumType ==
  ASSUME NEW f, NEW S, IsFiniteSet(S), \A x \in S : f[x] \in Int
  PROVE  /\ SumFunctionOnSet(f, S) \in Int
         /\ (\A x \in S : f[x] >= 0) => SumFunctionOnSet(f, S) >= 0
<1> DEFINE Sum(T) == SumFunctionOnSet(f, T)
           Good == {T \in SUBSET S : Sum(T) \in Int /\ ((\A x \in S : f[x] >= 0) => Sum(T) >= 0)}
<1>1. ASSUME NEW T \in SUBSET S, \A U \in SUBSET T : U # T => U \in Good
      PROVE  T \in Good
  <2>1. IsFiniteSet(T) BY FS_Subset
  <2>2. Sum(T) = IF T = {} THEN 0 ELSE f[First(T)] + Sum(T \ {First(T)})
    BY <2>1, SumTakesFirst
  <2>3. T # {} => First(T) \in T BY FirstIn
  <2> HIDE DEF Sum
  <2> QED BY <1>1, <2>2, <2>3
<1> HIDE DEF Good
<1>2. S \in Good BY <1>1, SubsetInduction
<1> QED BY <1>2 DEF Good

(* Any element may be taken out first.                                       *)
LEMMA SumTakesAny ==
  ASSUME NEW f, NEW S, IsFiniteSet(S), \A x \in S : f[x] \in Int, NEW y \in S
  PROVE  SumFunctionOnSet(f, S) = f[y] + SumFunctionOnSet(f, S \ {y})
<1> DEFINE Sum(T) == SumFunctionOnSet(f, T)
           Good == {T \in SUBSET S : \A z \in T : Sum(T) = f[z] + Sum(T \ {z})}
<1>1. ASSUME NEW T \in SUBSET S, \A U \in SUBSET T : U # T => U \in Good
      PROVE  T \in Good
  <2> SUFFICES ASSUME NEW z \in T PROVE Sum(T) = f[z] + Sum(T \ {z}) OBVIOUS
  <2> DEFINE x == First(T)
  <2>1. IsFiniteSet(T) /\ x \in T BY FS_Subset, FirstIn
  <2>2. Sum(T) = f[x] + Sum(T \ {x}) BY <2>1, SumTakesFirst
  <2> HIDE DEF x
  <2>3. CASE z # x
    <3>1. Sum(T \ {x}) = f[z] + Sum((T \ {x}) \ {z})
      <4>1. T \ {x} \in Good BY <1>1, <2>1
      <4> QED BY <4>1, <2>3
    <3>2. Sum(T \ {z}) = f[x] + Sum((T \ {z}) \ {x})
      <4>1. T \ {z} \in Good BY <1>1, <2>1
      <4> QED BY <4>1, <2>1, <2>3
    <3>3. (T \ {x}) \ {z} = (T \ {z}) \ {x} OBVIOUS
    <3>4. IsFiniteSet((T \ {x}) \ {z}) BY <2>1, FS_Subset
    <3>5. Sum((T \ {x}) \ {z}) \in Int BY <3>4, SumType
    <3>6. f[x] \in Int /\ f[z] \in Int BY <2>1
    <3>7. Sum((T \ {z}) \ {x}) = Sum((T \ {x}) \ {z}) BY <3>3
    <3> HIDE DEF Sum
    <3> QED BY <2>2, <3>1, <3>2, <3>5, <3>6, <3>7
  <2> QED BY <2>2, <2>3
<1> HIDE DEF Good
<1>2. S \in Good BY <1>1, SubsetInduction
<1> QED BY <1>2 DEF Good

(* Greater terms have a greater sum.                                         *)
LEMMA SumMonotone ==
  ASSUME NEW f, NEW g, NEW S, IsFiniteSet(S),
         \A x \in S : f[x] \in Int /\ g[x] \in Int /\ f[x] <= g[x]
  PROVE  SumFunctionOnSet(f, S) <= SumFunctionOnSet(g, S)
<1> DEFINE F(T) == SumFunctionOnSet(f, T)
           G(T) == SumFunctionOnSet(g, T)
           Good == {T \in SUBSET S : F(T) <= G(T)}
<1>1. ASSUME NEW T \in SUBSET S, \A U \in SUBSET T : U # T => U \in Good
      PROVE  T \in Good
  <2>1. IsFiniteSet(T) BY FS_Subset
  <2>2. CASE T = {} BY <2>2, SumEmpty
  <2>3. CASE T # {}
    <3> DEFINE x == First(T)
               r == T \ {x}
    <3>1. x \in T /\ r # T BY <2>3, FirstIn
    <3>2. F(T) = f[x] + F(r) /\ G(T) = g[x] + G(r) BY <2>1, <2>3, SumTakesFirst
    <3>3. IsFiniteSet(r) BY <2>1, FS_Subset
    <3>4. F(r) \in Int /\ G(r) \in Int BY <3>3, SumType
    <3>5. F(r) <= G(r) BY <1>1, <3>1
    <3> HIDE DEF F, G, x, r
    <3> QED BY <3>1, <3>2, <3>4, <3>5
  <2> QED BY <2>2, <2>3
<1> HIDE DEF Good
<1>2. S \in Good BY <1>1, SubsetInduction
<1> QED BY <1>2 DEF Good

(* The sum depends on the terms alone.                                       *)
LEMMA SumSame ==
  ASSUME NEW f, NEW g, NEW S, IsFiniteSet(S),
         \A x \in S : f[x] \in Int /\ f[x] = g[x]
  PROVE  SumFunctionOnSet(f, S) = SumFunctionOnSet(g, S)
<1>1. SumFunctionOnSet(f, S) \in Int /\ SumFunctionOnSet(g, S) \in Int BY SumType
<1>2. SumFunctionOnSet(f, S) <= SumFunctionOnSet(g, S) BY SumMonotone
<1>3. SumFunctionOnSet(g, S) <= SumFunctionOnSet(f, S) BY SumMonotone
<1> QED BY <1>1, <1>2, <1>3

(* Incrementing a term increments the sums it is in.                         *)
LEMMA SumInc ==
  ASSUME NEW D, NEW f \in [D -> Int], NEW S \in SUBSET D, IsFiniteSet(S), NEW i \in D
  PROVE  SumFunctionOnSet([f EXCEPT ![i] = @ + 1], S)
           = SumFunctionOnSet(f, S) + (IF i \in S THEN 1 ELSE 0)
<1> DEFINE h == [f EXCEPT ![i] = @ + 1]
           r == S \ {i}
<1>1. IsFiniteSet(r) BY FS_Subset
<1>2. \A x \in r : f[x] \in Int /\ f[x] = h[x] OBVIOUS
<1>3. SumFunctionOnSet(f, r) = SumFunctionOnSet(h, r)
  <2> HIDE DEF h, r
  <2> QED BY <1>1, <1>2, SumSame
<1>4. SumFunctionOnSet(f, r) \in Int BY <1>1, SumType
<1>5. CASE i \in S
  <2>1. SumFunctionOnSet(f, S) = f[i] + SumFunctionOnSet(f, r) BY <1>5, SumTakesAny
  <2>2. h[i] = f[i] + 1 /\ \A x \in S : h[x] \in Int OBVIOUS
  <2>3. SumFunctionOnSet(h, S) = h[i] + SumFunctionOnSet(h, r)
    <3> HIDE DEF h
    <3> QED BY <1>5, <2>2, SumTakesAny
  <2> HIDE DEF h, r
  <2> QED BY <1>3, <1>4, <1>5, <2>1, <2>2, <2>3 DEF h
<1>6. CASE i \notin S
  <2>1. r = S BY <1>6
  <2> QED BY <1>3, <1>4, <1>6, <2>1
<1> QED BY <1>5, <1>6

(* A part of naturals has a smaller sum.                                     *)
LEMMA SumPart ==
  ASSUME NEW f, NEW S, IsFiniteSet(S), \A x \in S : f[x] \in Nat, NEW T \in SUBSET S
  PROVE  SumFunctionOnSet(f, T) <= SumFunctionOnSet(f, S)
<1> DEFINE Sum(U) == SumFunctionOnSet(f, U)
           Good == {U \in SUBSET S : T \subseteq U => Sum(T) <= Sum(U)}
<1>1. ASSUME NEW U \in SUBSET S, \A V \in SUBSET U : V # U => V \in Good
      PROVE  U \in Good
  <2> SUFFICES ASSUME T \subseteq U PROVE Sum(T) <= Sum(U) OBVIOUS
  <2>1. IsFiniteSet(U) /\ IsFiniteSet(T) BY FS_Subset
  <2>2. Sum(T) \in Int BY <2>1, SumType
  <2>3. CASE U = T BY <2>2, <2>3
  <2>4. CASE U # T
    <3>1. PICK x \in U \ T : TRUE BY <2>4
    <3>2. Sum(U) = f[x] + Sum(U \ {x}) BY <2>1, <3>1, SumTakesAny
    <3>3. IsFiniteSet(U \ {x}) BY <2>1, FS_Subset
    <3>4. Sum(U \ {x}) \in Int BY <3>3, SumType
    <3>5. Sum(T) <= Sum(U \ {x}) BY <1>1, <3>1
    <3> HIDE DEF Sum
    <3> QED BY <2>2, <3>1, <3>2, <3>4, <3>5
  <2> QED BY <2>3, <2>4
<1> HIDE DEF Good
<1>2. S \in Good BY <1>1, SubsetInduction
<1> QED BY <1>2 DEF Good
-----------------------------------------------------------------------------
(* Validation                                                                *)

(* The transactions of the simulator.                                        *)
Emitted == Transactions(TRUE) \cup Transactions(FALSE)

(* What the simulator emits, field by field.                                 *)
LEMMA EmittedFields ==
  ASSUME NEW t \in Emitted
  PROVE  /\ t.schema_version = 1 /\ t.event_id = "transaction-1" /\ t.transaction_id = "tx-1"
         /\ t.account_id = "account-0001" /\ t.card_id = "card-0001" /\ t.currency = "GBP"
         /\ t.occurred_at \in Nat \ {0} /\ t.amount_minor \in {250, 15249, 50000, 199999}
         /\ t.merchant \in normalMerchants \cup fraudMerchants
         /\ t.entry_mode \in {"chip", "contactless", "ecommerce"}
         /\ DOMAIN t = {"schema_version", "event_id", "transaction_id", "occurred_at", "account_id",
                        "card_id", "amount_minor", "currency", "merchant", "entry_mode"}
<1>1. ASSUME NEW at \in Times, NEW u \in FraudTransactions(at)
      PROVE  \E m \in fraudMerchants, amount \in {50000, 199999} :
               u = Transaction(m, "ecommerce", amount, at)
  BY DEF FraudTransactions
<1>2. ASSUME NEW at \in Times, NEW u \in NormalTransactions(at)
      PROVE  \E m \in normalMerchants, mode \in {"chip", "contactless"}, amount \in {250, 15249} :
               u = Transaction(m, mode, amount, at)
  BY DEF NormalTransactions
<1>3. PICK m \in normalMerchants \cup fraudMerchants, mode \in {"chip", "contactless", "ecommerce"},
           amount \in {250, 15249, 50000, 199999}, at \in Times :
        t = Transaction(m, mode, amount, at)
  <2>1. \/ \E at \in Times : t \in FraudTransactions(at)
        \/ \E at \in Times : t \in NormalTransactions(at)
    BY DEF Emitted, Transactions
  <2> QED BY <1>1, <1>2, <2>1
<1>4. at \in Nat \ {0} BY ProcessorAssumption
<1> QED BY <1>3, <1>4 DEF Transaction

(* The merchants, field by field.                                            *)
LEMMA MerchantFields ==
  ASSUME NEW m \in normalMerchants \cup fraudMerchants
  PROVE  /\ m.id \in {"grocer", "coffee", "rail", "books", "streaming",
                      "crypto", "casino", "transfer"}
         /\ m.category \in {"groceries", "eating_out", "transport", "retail", "entertainment",
                            "crypto", "gambling", "money_transfer"}
         /\ m.country \in {"GB", "LT", "MT", "RO"}
         /\ DOMAIN m = {"id", "category", "country"}
BY DEF normalMerchants, fraudMerchants, Merchant

(* What the simulator emits passes Validate.                                 *)
LEMMA EmittedIsValid ==
  /\ \A t \in Emitted : TransactionValid(t)
  /\ \A l \in Labels : LabelValid(l)
<1>1. ASSUME NEW t \in Emitted PROVE TransactionValid(t)
  <2>1. /\ t.schema_version = 1 /\ t.event_id = "transaction-1" /\ t.transaction_id = "tx-1"
        /\ t.account_id = "account-0001" /\ t.card_id = "card-0001" /\ t.currency = "GBP"
        /\ t.occurred_at \in Nat \ {0} /\ t.amount_minor \in {250, 15249, 50000, 199999}
        /\ t.merchant \in normalMerchants \cup fraudMerchants
        /\ t.entry_mode \in {"chip", "contactless", "ecommerce"}
    BY EmittedFields
  <2>2. /\ t.merchant.id \in {"grocer", "coffee", "rail", "books", "streaming",
                              "crypto", "casino", "transfer"}
        /\ t.merchant.category \in {"groceries", "eating_out", "transport", "retail",
                                    "entertainment", "crypto", "gambling", "money_transfer"}
        /\ t.merchant.country \in {"GB", "LT", "MT", "RO"}
    BY <2>1, MerchantFields
  <2>3. t.merchant.id # "" /\ t.merchant.category # "" BY <2>2
  <2>4. Len(t.merchant.country) = 2 BY <2>2, CodeLengths
  <2>5. "" \notin {t.event_id, t.transaction_id, t.account_id, t.card_id} BY <2>1
  <2>6. t.occurred_at # 0 /\ t.amount_minor > 0 BY <2>1
  <2>7. t.schema_version = SchemaVersion /\ t.currency = "GBP" /\ t.entry_mode \in EntryModes
    BY <2>1 DEF SchemaVersion, EntryModes
  <2> QED BY <2>3, <2>4, <2>5, <2>6, <2>7 DEF TransactionValid
<1>2. ASSUME NEW l \in Labels PROVE LabelValid(l)
  <2>1. PICK fraud \in BOOLEAN, at \in Times : l = Label(fraud, at, 5) BY DEF Labels
  <2>2. at \in Nat \ {0} BY ProcessorAssumption
  <2>3. l.schema_version = 1 /\ l.event_id = "label-1" /\ l.transaction_id = "tx-1"
    BY <2>1 DEF Label
  <2>4. l.labelled_at # 0
    <3>1. l.labelled_at = at + 5 BY <2>1 DEF Label
    <3> QED BY <2>2, <3>1
  <2>5. l.is_fraud => l.fraud_type = "card_not_present" BY <2>1 DEF Label
  <2> QED BY <2>3, <2>4, <2>5 DEF LabelValid, SchemaVersion
<1> QED BY <1>1, <1>2

(* With one field spoilt it does not.                                        *)
LEMMA SpoiltIsInvalid ==
  /\ \A t \in SpoiltTransactions : ~TransactionValid(t)
  /\ \A l \in SpoiltLabels : ~LabelValid(l)
<1>1. ASSUME NEW s \in SpoiltTransactions PROVE ~TransactionValid(s)
  <2> DEFINE t == CHOOSE x \in Transactions(FALSE) : TRUE
  <2>1. PICK at \in Times : TRUE BY ProcessorAssumption
  <2>2. Transaction(Merchant("grocer", "groceries", "GB"), "chip", 250, at) \in Transactions(FALSE)
    BY DEF Transactions, NormalTransactions, normalMerchants
  <2>3. t \in Emitted BY <2>2 DEF Emitted
  <2>4. s \in {[t EXCEPT !.schema_version = 2], [t EXCEPT !.event_id = ""],
       [t EXCEPT !.transaction_id = ""], [t EXCEPT !.account_id = ""],
       [t EXCEPT !.card_id = ""], [t EXCEPT !.occurred_at = 0],
       [t EXCEPT !.amount_minor = 0], [t EXCEPT !.currency = "EUR"],
       [t EXCEPT !.merchant.id = ""], [t EXCEPT !.merchant.category = ""],
       [t EXCEPT !.merchant.country = "GBR"], [t EXCEPT !.entry_mode = "swipe"]}
    BY DEF SpoiltTransactions
  <2> HIDE DEF t
  <2>5. /\ DOMAIN t = {"schema_version", "event_id", "transaction_id", "occurred_at", "account_id",
                       "card_id", "amount_minor", "currency", "merchant", "entry_mode"}
        /\ t.merchant \in normalMerchants \cup fraudMerchants
    BY <2>3, EmittedFields
  <2>6. DOMAIN t.merchant = {"id", "category", "country"} BY <2>5, MerchantFields
  <2>7. CASE s = [t EXCEPT !.merchant.id = ""]
    <3>1. s.merchant.id = "" BY <2>5, <2>6, <2>7
    <3> QED BY <3>1 DEF TransactionValid
  <2>8. CASE s = [t EXCEPT !.merchant.category = ""]
    <3>1. s.merchant.category = "" BY <2>5, <2>6, <2>8
    <3> QED BY <3>1 DEF TransactionValid
  <2>9. CASE s = [t EXCEPT !.merchant.country = "GBR"]
    <3>1. s.merchant.country = "GBR" BY <2>5, <2>6, <2>9
    <3>2. Len(s.merchant.country) = 3 BY <3>1, CodeLengths
    <3> QED BY <3>2 DEF TransactionValid
  <2>10. CASE s = [t EXCEPT !.schema_version = 2]
    <3>1. s.schema_version = 2 BY <2>5, <2>10
    <3> QED BY <3>1 DEF TransactionValid, SchemaVersion
  <2>11. CASE s \in {[t EXCEPT !.event_id = ""], [t EXCEPT !.transaction_id = ""],
                     [t EXCEPT !.account_id = ""], [t EXCEPT !.card_id = ""]}
    <3>1. s.event_id = "" \/ s.transaction_id = "" \/ s.account_id = "" \/ s.card_id = ""
      BY <2>5, <2>11
    <3>2. "" \in {s.event_id, s.transaction_id, s.account_id, s.card_id} BY <3>1
    <3>3. TransactionValid(s) => "" \notin {s.event_id, s.transaction_id, s.account_id, s.card_id}
      BY Zenon DEF TransactionValid
    <3> QED BY <3>2, <3>3
  <2>12. CASE s = [t EXCEPT !.occurred_at = 0] \/ s = [t EXCEPT !.amount_minor = 0]
    <3>1. s.occurred_at = 0 \/ s.amount_minor = 0 BY <2>5, <2>12
    <3>2. TransactionValid(s) => s.occurred_at # 0 /\ s.amount_minor > 0
      BY Zenon DEF TransactionValid
    <3> QED BY <3>1, <3>2
  <2>13. CASE s = [t EXCEPT !.currency = "EUR"]
    <3>1. s.currency = "EUR" BY <2>5, <2>13
    <3>2. s.currency # "GBP" BY <3>1
    <3> QED BY <3>2 DEF TransactionValid
  <2>14. CASE s = [t EXCEPT !.entry_mode = "swipe"]
    <3>1. s.entry_mode = "swipe" BY <2>5, <2>14
    <3>2. s.entry_mode \notin EntryModes BY <3>1 DEF EntryModes
    <3> QED BY <3>2 DEF TransactionValid
  <2> QED BY <2>4, <2>7, <2>8, <2>9, <2>10, <2>11, <2>12, <2>13, <2>14
<1>2. ASSUME NEW s \in SpoiltLabels PROVE ~LabelValid(s)
  <2> DEFINE l == CHOOSE x \in Labels : x.is_fraud
  <2>1. PICK at \in Times : TRUE BY ProcessorAssumption
  <2>2. Label(TRUE, at, 5) \in Labels
    <3>1. \A fraud \in BOOLEAN, from \in Times : Label(fraud, from, 5) \in Labels BY DEF Labels
    <3> QED BY <3>1
  <2>3. Label(TRUE, at, 5).is_fraud BY DEF Label
  <2>4. l \in Labels /\ l.is_fraud BY <2>2, <2>3
  <2>5. s \in {[l EXCEPT !.schema_version = 2], [l EXCEPT !.event_id = ""],
               [l EXCEPT !.transaction_id = ""], [l EXCEPT !.labelled_at = 0],
               [l EXCEPT !.fraud_type = ""]}
    BY DEF SpoiltLabels
  <2> HIDE DEF l
  <2>6. PICK fraud \in BOOLEAN, from \in Times : l = Label(fraud, from, 5) BY <2>4 DEF Labels
  <2>7. DOMAIN l = {"schema_version", "event_id", "transaction_id", "labelled_at", "is_fraud",
                    "fraud_type"}
    BY <2>6 DEF Label
  <2>8. CASE s = [l EXCEPT !.schema_version = 2]
    <3>1. s.schema_version = 2 BY <2>7, <2>8
    <3> QED BY <3>1 DEF LabelValid, SchemaVersion
  <2>9. CASE s = [l EXCEPT !.event_id = ""] \/ s = [l EXCEPT !.transaction_id = ""]
    <3>1. s.event_id = "" \/ s.transaction_id = "" BY <2>7, <2>9
    <3> QED BY <3>1 DEF LabelValid
  <2>10. CASE s = [l EXCEPT !.labelled_at = 0]
    <3>1. s.labelled_at = 0 BY <2>7, <2>10
    <3> QED BY <3>1 DEF LabelValid
  <2>11. CASE s = [l EXCEPT !.fraud_type = ""]
    <3>1. s.fraud_type = "" BY <2>7, <2>11
    <3>2. s.is_fraud = l.is_fraud BY <2>7, <2>11
    <3> QED BY <2>4, <3>1, <3>2 DEF LabelValid
  <2> QED BY <2>5, <2>8, <2>9, <2>10, <2>11
<1> QED BY <1>1, <1>2
-----------------------------------------------------------------------------
(* The score                                                                 *)

(* Least is the lesser.                                                      *)
LEMMA LeastFacts ==
  ASSUME NEW x \in Nat, NEW y \in Nat
  PROVE  Least(x, y) \in Nat /\ Least(x, y) <= x /\ Least(x, y) <= y
BY DEF Least

(* With weights that are not negative, greater features have a greater score. *)
LEMMA ScoreMonotone ==
  ASSUME NEW v, NEW w, DOMAIN v = DOMAIN w,
         \A f \in DOMAIN v : v[f] \in Nat /\ w[f] \in Nat /\ v[f] <= w[f]
  PROVE  Score(v) \in Int /\ Score(w) \in Int /\ Score(v) <= Score(w)
<1> DEFINE D == DOMAIN Weights
           cv == [f \in D |-> IF f \in DOMAIN v THEN Weights[f] * v[f] ELSE 0]
           cw == [f \in D |-> IF f \in DOMAIN w THEN Weights[f] * w[f] ELSE 0]
<1>1. IsFiniteSet(D) /\ \A f \in D : Weights[f] \in Nat BY ArtifactAssumption
<1>2. \A i, x, y \in Nat : x <= y => i * x \in Int /\ i * y \in Int /\ i * x <= i * y
  OBVIOUS
<1>3. \A f \in D : cv[f] \in Int /\ cw[f] \in Int /\ cv[f] <= cw[f] BY <1>1, <1>2
<1>4. Score(v) = Intercept + SumFunctionOnSet(cv, D) BY DEF Score, SumFunction
<1>5. Score(w) = Intercept + SumFunctionOnSet(cw, D) BY DEF Score, SumFunction
<1> HIDE DEF cv, cw, D
<1>6. SumFunctionOnSet(cv, D) \in Int BY <1>1, <1>3, SumType
<1>7. SumFunctionOnSet(cw, D) \in Int BY <1>1, <1>3, SumType
<1>8. SumFunctionOnSet(cv, D) <= SumFunctionOnSet(cw, D) BY <1>1, <1>3, SumMonotone
<1> QED BY <1>4, <1>5, <1>6, <1>7, <1>8, ScoringAssumption

(* The features that vary with the history and the time, between 0 and 100.  *)
LEMMA ExtractBounds ==
  ASSUME NEW t \in Emitted, NEW h \in Histories
  PROVE  LET v == Extract(t, h)
         IN  /\ DOMAIN v = {"log_amount", "foreign", "card_not_present", "risky_merchant",
                            "nighttime", "tx_count_10m", "spend_1h", "new_merchant",
                            "new_country"}
             /\ v.log_amount = Log1p[t.amount_minor]
             /\ v.foreign = Flag(t.merchant.country # "GB")
             /\ v.card_not_present = Flag(t.entry_mode = "ecommerce")
             /\ v.risky_merchant = Flag(t.merchant.category \in riskyCategories)
             /\ v.nighttime \in 0..100 /\ v.tx_count_10m \in 0..100 /\ v.spend_1h \in 0..100
             /\ v.new_merchant \in 0..100 /\ v.new_country \in 0..100
<1> DEFINE v == Extract(t, h)
<1>1. h.count \in Nat /\ h.spend \in Nat BY ProcessorAssumption
<1>2. \A b : Flag(b) \in 0..100 BY DEF Flag
<1>3. Least(h.count, 10) * 10 \in 0..100
  <2>1. Least(h.count, 10) \in Nat /\ Least(h.count, 10) <= 10 BY <1>1, LeastFacts
  <2> QED BY <2>1
<1>4. Least(h.spend, 200000) \div 2000 \in 0..100
  <2>1. Least(h.spend, 200000) \in Nat /\ Least(h.spend, 200000) <= 200000
    BY <1>1, LeastFacts
  <2> QED BY <2>1
<1>5. /\ DOMAIN v = {"log_amount", "foreign", "card_not_present", "risky_merchant",
                     "nighttime", "tx_count_10m", "spend_1h", "new_merchant", "new_country"}
      /\ v.log_amount = Log1p[t.amount_minor]
      /\ v.foreign = Flag(t.merchant.country # "GB")
      /\ v.card_not_present = Flag(t.entry_mode = "ecommerce")
      /\ v.risky_merchant = Flag(t.merchant.category \in riskyCategories)
      /\ v.nighttime = Flag(Hour(t.occurred_at) < 6 \/ Hour(t.occurred_at) >= 23)
      /\ v.tx_count_10m = Least(h.count, 10) * 10
      /\ v.spend_1h = Least(h.spend, 200000) \div 2000
      /\ v.new_merchant = Flag(~h.seenMerchant)
      /\ v.new_country = Flag(~h.seenCountry)
  BY DEF Extract
<1> HIDE DEF v
<1> QED BY <1>2, <1>3, <1>4, <1>5 DEF v

(* A fraud of the simulator scores at least what its least features do, and  *)
(* a normal transaction at most what the greatest do.                        *)
LEMMA FraudScore ==
  ASSUME NEW at \in Times, NEW t \in FraudTransactions(at), NEW h \in Histories
  PROVE  Score(Extract(t, h)) \in Int /\ Score(Extract(t, h)) >= Review
<1> DEFINE v == Extract(t, h)
           w == LeastOfFraud
<1>1. PICK m \in fraudMerchants, amount \in {50000, 199999} :
        t = Transaction(m, "ecommerce", amount, at)
  BY DEF FraudTransactions
<1>2. t.merchant = m /\ t.entry_mode = "ecommerce" /\ t.amount_minor = amount
  BY <1>1 DEF Transaction
<1>3. m.country \in {"LT", "MT", "RO"} /\ m.category \in riskyCategories
  BY DEF fraudMerchants, Merchant, riskyCategories
<1>4. m.country # "GB" BY <1>3
<1>5. t \in Emitted BY DEF Emitted, Transactions
<1>6. /\ DOMAIN v = {"log_amount", "foreign", "card_not_present", "risky_merchant",
                     "nighttime", "tx_count_10m", "spend_1h", "new_merchant", "new_country"}
      /\ v.log_amount = Log1p[t.amount_minor]
      /\ v.foreign = Flag(t.merchant.country # "GB")
      /\ v.card_not_present = Flag(t.entry_mode = "ecommerce")
      /\ v.risky_merchant = Flag(t.merchant.category \in riskyCategories)
      /\ v.nighttime \in 0..100 /\ v.tx_count_10m \in 0..100 /\ v.spend_1h \in 0..100
      /\ v.new_merchant \in 0..100 /\ v.new_country \in 0..100
  BY <1>5, ExtractBounds
<1>7. v.foreign = 100 /\ v.card_not_present = 100 /\ v.risky_merchant = 100
  BY <1>2, <1>3, <1>4, <1>6 DEF Flag
<1>8. v.log_amount \in Nat /\ Log1p[50000] \in Nat /\ Log1p[50000] <= v.log_amount
  BY <1>2, <1>6, ArtifactAssumption
<1>9. /\ DOMAIN w = {"log_amount", "foreign", "card_not_present", "risky_merchant",
                     "nighttime", "tx_count_10m", "spend_1h", "new_merchant", "new_country"}
      /\ w.log_amount = Log1p[50000] /\ w.foreign = 100 /\ w.card_not_present = 100
      /\ w.risky_merchant = 100 /\ w.nighttime = 0 /\ w.tx_count_10m = 0 /\ w.spend_1h = 0
      /\ w.new_merchant = 0 /\ w.new_country = 0
  BY DEF LeastOfFraud
<1> HIDE DEF v, w
<1>10. \A f \in DOMAIN w : w[f] \in Nat /\ v[f] \in Nat /\ w[f] <= v[f]
  BY <1>6, <1>7, <1>8, <1>9
<1>11. Score(w) \in Int /\ Score(v) \in Int /\ Score(w) <= Score(v)
  BY <1>6, <1>9, <1>10, ScoreMonotone
<1>12. Score(w) >= Review BY ArtifactAssumption DEF w
<1> QED BY <1>11, <1>12, ScoringAssumption DEF v

(* No normal transaction scores as high as Escalate, whatever the history.   *)
LEMMA NormalScore ==
  ASSUME NEW at \in Times, NEW t \in NormalTransactions(at), NEW h \in Histories
  PROVE  Score(Extract(t, h)) \in Int /\ Score(Extract(t, h)) < Escalate
<1> DEFINE v == Extract(t, h)
           w == GreatestOfNormal
<1>1. PICK m \in normalMerchants, mode \in {"chip", "contactless"}, amount \in {250, 15249} :
        t = Transaction(m, mode, amount, at)
  BY DEF NormalTransactions
<1>2. t.merchant = m /\ t.entry_mode = mode /\ t.amount_minor = amount
  BY <1>1 DEF Transaction
<1>3. m.country = "GB" BY DEF normalMerchants, Merchant
<1>4. m.category \notin riskyCategories
  <2>1. m.category \in {"groceries", "eating_out", "transport", "retail", "entertainment"}
    BY DEF normalMerchants, Merchant
  <2> QED BY <2>1 DEF riskyCategories
<1>5. t \in Emitted BY DEF Emitted, Transactions
<1>6. /\ DOMAIN v = {"log_amount", "foreign", "card_not_present", "risky_merchant",
                     "nighttime", "tx_count_10m", "spend_1h", "new_merchant", "new_country"}
      /\ v.log_amount = Log1p[t.amount_minor]
      /\ v.foreign = Flag(t.merchant.country # "GB")
      /\ v.card_not_present = Flag(t.entry_mode = "ecommerce")
      /\ v.risky_merchant = Flag(t.merchant.category \in riskyCategories)
      /\ v.nighttime \in 0..100 /\ v.tx_count_10m \in 0..100 /\ v.spend_1h \in 0..100
      /\ v.new_merchant \in 0..100 /\ v.new_country \in 0..100
  BY <1>5, ExtractBounds
<1>7. v.foreign = 0 /\ v.card_not_present = 0 /\ v.risky_merchant = 0
  BY <1>2, <1>3, <1>4, <1>6 DEF Flag
<1>8. v.log_amount \in Nat /\ Log1p[15249] \in Nat /\ v.log_amount <= Log1p[15249]
  BY <1>2, <1>6, ArtifactAssumption
<1>9. /\ DOMAIN w = {"log_amount", "foreign", "card_not_present", "risky_merchant",
                     "nighttime", "tx_count_10m", "spend_1h", "new_merchant", "new_country"}
      /\ w.log_amount = Log1p[15249] /\ w.foreign = 0 /\ w.card_not_present = 0
      /\ w.risky_merchant = 0 /\ w.nighttime = 100 /\ w.tx_count_10m = 100
      /\ w.spend_1h = 100 /\ w.new_merchant = 100 /\ w.new_country = 100
  BY DEF GreatestOfNormal
<1> HIDE DEF v, w
<1>10. \A f \in DOMAIN v : v[f] \in Nat /\ w[f] \in Nat /\ v[f] <= w[f]
  BY <1>6, <1>7, <1>8, <1>9
<1>11. Score(v) \in Int /\ Score(w) \in Int /\ Score(v) <= Score(w)
  BY <1>6, <1>9, <1>10, ScoreMonotone
<1>12. Score(w) < Escalate BY ArtifactAssumption DEF w
<1> QED BY <1>11, <1>12, ScoringAssumption DEF v

(* What Evaluate recommends of what the simulator emits.                     *)
LEMMA AssessmentFacts ==
  ASSUME NEW a \in Assessments
  PROVE  /\ a.action \in Actions
         /\ IF a.fraud THEN a.action # "no_action" ELSE a.action # "escalate"
<1>1. PICK f \in BOOLEAN : \E t \in Transactions(f), h \in Histories :
        a = [fraud |-> f, action |-> Decide(Score(Extract(t, h)))]
  BY DEF Assessments
<1>2. PICK t \in Transactions(f), h \in Histories :
        a = [fraud |-> f, action |-> Decide(Score(Extract(t, h)))]
  BY <1>1
<1>3. a.fraud = f /\ a.action = Decide(Score(Extract(t, h))) BY <1>2
<1>4. a.action \in Actions BY <1>3 DEF Decide, Actions
<1>5. CASE f = TRUE
  <2>1. PICK at \in Times : t \in FraudTransactions(at) BY <1>5 DEF Transactions
  <2>2. Score(Extract(t, h)) \in Int /\ Score(Extract(t, h)) >= Review BY <2>1, FraudScore
  <2>3. a.action \in {"escalate", "review"} BY <1>3, <2>2 DEF Decide
  <2>4. a.action # "no_action" BY <2>3
  <2> QED BY <1>3, <1>4, <1>5, <2>4
<1>6. CASE f = FALSE
  <2>1. PICK at \in Times : t \in NormalTransactions(at) BY <1>6 DEF Transactions
  <2>2. Score(Extract(t, h)) \in Int /\ Score(Extract(t, h)) < Escalate BY <2>1, NormalScore
  <2>3. a.action \in {"review", "no_action"}
    BY <1>3, <2>2, ScoringAssumption DEF Decide
  <2>4. a.action # "escalate" BY <2>3
  <2> QED BY <1>3, <1>4, <1>6, <2>4
<1> QED BY <1>5, <1>6

-----------------------------------------------------------------------------
(* The inductive invariant                                                   *)

Places == {"processed", "actions", "latency"}

(* Only verdicts on events that occur, and assessments of what the simulator *)
(* emits, are recorded; the counters are numbers.                            *)
TypeInv ==
  /\ call \in [Goroutines -> {Free} \cup [at : Places, action : Actions]]
  /\ processed \in [Types -> Nat] /\ duplicates \in [Types -> Nat] /\ failures \in [Types -> Nat]
  /\ actions \in [Actions -> Nat] /\ latency \in [Durations -> Nat]
  /\ answers \in [nil : Nat, error : Nat]
  /\ verdicts \subseteq Verdicts["transaction"] \cup Verdicts["label"]
  /\ assessed \subseteq Assessments


(* The goroutines that are about to increment one of the counters.           *)
In(places) == {g \in Goroutines : call[g].at \in places}

(* There are finitely many labels of each counter.                           *)
LEMMA TypesFinite == IsFiniteSet(Types) /\ IsFiniteSet(Actions)
<1>1. IsFiniteSet({"transaction"}) /\ IsFiniteSet({"no_action"}) BY FS_Singleton
<1>2. IsFiniteSet({"transaction"} \cup {"label"}) BY <1>1, FS_AddElement
<1>3. IsFiniteSet({"no_action"} \cup {"review"}) BY <1>1, FS_AddElement
<1>4. IsFiniteSet(({"no_action"} \cup {"review"}) \cup {"escalate"}) BY <1>3, FS_AddElement
<1>5. Types = {"transaction"} \cup {"label"} BY DEF Types
<1>6. Actions = ({"no_action"} \cup {"review"}) \cup {"escalate"} BY DEF Actions
<1> QED BY <1>2, <1>4, <1>5, <1>6

(* A counter of a vector, and the sum of all, grow by one.                   *)
LEMMA CounterInc ==
  ASSUME NEW D, IsFiniteSet(D), NEW f \in [D -> Nat], NEW i \in D
  PROVE  /\ Inc(f, i) \in [D -> Nat]
         /\ Inc(f, i)[i] = f[i] + 1
         /\ \A j \in D : j # i => Inc(f, i)[j] = f[j]
         /\ SumFunction(f) \in Nat
         /\ SumFunction(Inc(f, i)) = SumFunction(f) + 1
<1>1. f \in [D -> Int] /\ DOMAIN f = D /\ DOMAIN Inc(f, i) = D BY DEF Inc
<1>2. SumFunctionOnSet([f EXCEPT ![i] = @ + 1], D) = SumFunctionOnSet(f, D) + 1
  BY <1>1, SumInc
<1>3. SumFunctionOnSet(f, D) \in Int /\ SumFunctionOnSet(f, D) >= 0 BY SumType
<1>4. SumFunction(f) = SumFunctionOnSet(f, D) BY <1>1 DEF SumFunction
<1>5. SumFunction(Inc(f, i)) = SumFunctionOnSet([f EXCEPT ![i] = @ + 1], D)
  BY <1>1 DEF SumFunction, Inc
<1>6. /\ Inc(f, i) \in [D -> Nat] /\ Inc(f, i)[i] = f[i] + 1
      /\ \A j \in D : j # i => Inc(f, i)[j] = f[j]
  BY DEF Inc
<1> QED BY <1>2, <1>3, <1>4, <1>5, <1>6

(* A sum of zeros.                                                           *)
LEMMA SumZero ==
  ASSUME NEW D, IsFiniteSet(D)
  PROVE  SumFunction([x \in D |-> 0]) = 0
<1> DEFINE f == [x \in D |-> 0]
           Good == {T \in SUBSET D : SumFunctionOnSet(f, T) = 0}
<1>1. ASSUME NEW T \in SUBSET D, \A U \in SUBSET T : U # T => U \in Good
      PROVE  T \in Good
  <2>1. IsFiniteSet(T) BY FS_Subset
  <2>2. CASE T = {} BY <2>2, SumEmpty
  <2>3. CASE T # {}
    <3>1. First(T) \in T BY <2>3, FirstIn
    <3>2. T \ {First(T)} \in Good BY <1>1, <3>1
    <3>3. f[First(T)] = 0 BY <3>1
    <3>4. SumFunctionOnSet(f, T) = f[First(T)] + SumFunctionOnSet(f, T \ {First(T)})
      BY <2>1, <2>3, SumTakesFirst
    <3> QED BY <3>2, <3>3, <3>4
  <2> QED BY <2>2, <2>3
<1> HIDE DEF Good
<1>2. D \in Good BY <1>1, SubsetInduction
<1>3. DOMAIN f = D OBVIOUS
<1> QED BY <1>2, <1>3 DEF Good, SumFunction

(* What is counted, in names that the steps below share.                     *)
Tally ==
  /\ answers.nil + Cardinality(In({"actions", "latency"}))
       = SumFunction(processed) + SumFunction(duplicates)
  /\ answers.error = SumFunction(failures)
  /\ SumFunction(actions) = processed["transaction"] - Cardinality(In({"actions"}))
  /\ SumFunction(latency) = SumFunction(actions) - Cardinality(In({"latency"}))

IInv == TypeInv /\ Tally

(* The property counts the goroutines of each place, as Tally does.          *)
LEMMA Counted == AnswersCounted <=> Tally
BY DEF AnswersCounted, Tally, In, SampleCount

(* The initial state satisfies the invariant.                                *)
LEMMA InitIInv == Init => IInv
<1> SUFFICES ASSUME Init PROVE IInv OBVIOUS
<1> USE DEF Init
<1>1. TypeInv BY DEF TypeInv
<1>2. /\ SumFunction(processed) = 0 /\ SumFunction(duplicates) = 0 /\ SumFunction(failures) = 0
      /\ SumFunction(actions) = 0 /\ SumFunction(latency) = 0
  BY SumZero, TypesFinite, ProcessorAssumption
<1>3. \A g \in Goroutines : call[g].at = "free" BY DEF Free
<1>4. In({"actions", "latency"}) = {} /\ In({"actions"}) = {} /\ In({"latency"}) = {}
  BY <1>3 DEF In
<1>5. processed["transaction"] = 0 BY DEF Types
<1>6. answers.nil = 0 /\ answers.error = 0 OBVIOUS
<1>7. Tally BY <1>2, <1>4, <1>5, <1>6, FS_EmptySet DEF Tally
<1> QED BY <1>1, <1>7 DEF IInv

(* The numbers of goroutines at their counters.                              *)
LEMMA InType ==
  ASSUME NEW places
  PROVE  IsFiniteSet(In(places)) /\ Cardinality(In(places)) \in Nat
<1>1. IsFiniteSet(In(places)) BY ProcessorAssumption, FS_Subset DEF In
<1> QED BY <1>1, FS_CardinalityType

(* Every sum of a counter is a natural number.                               *)
LEMMA SumTypes ==
  ASSUME TypeInv
  PROVE  /\ SumFunction(processed) \in Nat /\ SumFunction(duplicates) \in Nat
         /\ SumFunction(failures) \in Nat /\ SumFunction(actions) \in Nat
         /\ \A S \in SUBSET Durations : SumFunctionOnSet(latency, S) \in Nat
         /\ SumFunction(latency) = SumFunctionOnSet(latency, Durations)
<1>1. "transaction" \in Types /\ "review" \in Actions BY DEF Types, Actions
<1>2. SumFunction(processed) \in Nat BY <1>1, TypesFinite, CounterInc DEF TypeInv
<1>3. SumFunction(duplicates) \in Nat BY <1>1, TypesFinite, CounterInc DEF TypeInv
<1>4. SumFunction(failures) \in Nat BY <1>1, TypesFinite, CounterInc DEF TypeInv
<1>5. SumFunction(actions) \in Nat BY <1>1, TypesFinite, CounterInc DEF TypeInv
<1>6. ASSUME NEW S \in SUBSET Durations PROVE SumFunctionOnSet(latency, S) \in Nat
  <2>1. IsFiniteSet(S) BY ProcessorAssumption, FS_Subset
  <2>2. \A x \in S : latency[x] \in Int /\ latency[x] >= 0 BY DEF TypeInv
  <2> QED BY <2>1, <2>2, SumType
<1>7. SumFunction(latency) = SumFunctionOnSet(latency, Durations) BY DEF SumFunction, TypeInv
<1> QED BY <1>2, <1>3, <1>4, <1>5, <1>6, <1>7

(* The handlers that increment their counters in one step: a call that       *)
(* fails, a duplicate and a label.                                           *)
LEMMA FailureIInv ==
  ASSUME IInv, NEW g \in Goroutines, NEW t \in Types, Rejects(g, t) \/ StoreFails(g, t)
  PROVE  IInv'
<1> USE DEF IInv
<1>1. /\ failures' = Inc(failures, t) /\ answers' = Inc(answers, "error")
      /\ UNCHANGED <<call, processed, duplicates, actions, latency, assessed>>
      /\ \E v \in Verdicts[t] : verdicts' = verdicts \cup {v}
  BY DEF Rejects, StoreFails, Validated, Answer
<1>2. /\ failures' \in [Types -> Nat] /\ SumFunction(failures') = SumFunction(failures) + 1
      /\ SumFunction(failures) \in Nat
  BY <1>1, TypesFinite, CounterInc DEF TypeInv
<1>3. answers' \in [nil : Nat, error : Nat] /\ answers'.nil = answers.nil
      /\ answers'.error = answers.error + 1
  BY <1>1 DEF TypeInv, Inc
<1>4. TypeInv' BY <1>1, <1>2, <1>3 DEF TypeInv, Types
<1>5. \A places : In(places)' = In(places) BY <1>1 DEF In
<1>6. Tally' BY <1>1, <1>2, <1>3, <1>5 DEF Tally
<1> QED BY <1>4, <1>6

(* A redelivery: one answer and one duplicate.                               *)
LEMMA DuplicateIInv ==
  ASSUME IInv, NEW g \in Goroutines, NEW t \in Types, Duplicate(g, t)
  PROVE  IInv'
<1> USE DEF IInv
<1>1. /\ duplicates' = Inc(duplicates, t) /\ answers' = Inc(answers, "nil")
      /\ UNCHANGED <<call, processed, failures, actions, latency, assessed>>
      /\ \E v \in Verdicts[t] : verdicts' = verdicts \cup {v}
  BY DEF Duplicate, Validated, Answer
<1>2. /\ duplicates' \in [Types -> Nat] /\ SumFunction(duplicates') = SumFunction(duplicates) + 1
  BY <1>1, TypesFinite, CounterInc DEF TypeInv
<1>3. answers' \in [nil : Nat, error : Nat] /\ answers'.nil = answers.nil + 1
      /\ answers'.error = answers.error
  BY <1>1 DEF TypeInv, Inc
<1>4. TypeInv' BY <1>1, <1>2, <1>3 DEF TypeInv, Types
<1>5. \A places : In(places)' = In(places) BY <1>1 DEF In
<1>6. /\ answers.nil \in Nat /\ Cardinality(In({"actions", "latency"})) \in Nat
      /\ SumFunction(processed) \in Nat /\ SumFunction(duplicates) \in Nat
  BY InType, SumTypes DEF TypeInv
<1>7. Tally' BY <1>1, <1>2, <1>3, <1>5, <1>6 DEF Tally
<1> QED BY <1>4, <1>7

(* A new label: one answer and one label processed.                          *)
LEMMA LabelIInv ==
  ASSUME IInv, NEW g \in Goroutines, LabelCreated(g)
  PROVE  IInv'
<1> USE DEF IInv
<1>1. /\ processed' = Inc(processed, "label") /\ answers' = Inc(answers, "nil")
      /\ UNCHANGED <<call, duplicates, failures, actions, latency, assessed>>
      /\ \E v \in Verdicts["label"] : verdicts' = verdicts \cup {v}
  BY DEF LabelCreated, Validated, Answer
<1>2. /\ processed' \in [Types -> Nat] /\ SumFunction(processed') = SumFunction(processed) + 1
      /\ processed'["transaction"] = processed["transaction"]
  <2>1. "label" \in Types /\ "transaction" \in Types /\ "transaction" # "label" BY DEF Types
  <2>2. processed \in [Types -> Nat] BY DEF TypeInv
  <2>3. /\ Inc(processed, "label") \in [Types -> Nat]
        /\ \A j \in Types : j # "label" => Inc(processed, "label")[j] = processed[j]
        /\ SumFunction(Inc(processed, "label")) = SumFunction(processed) + 1
    BY <2>1, <2>2, TypesFinite, CounterInc
  <2> QED BY <1>1, <2>1, <2>3
<1>3. answers' \in [nil : Nat, error : Nat] /\ answers'.nil = answers.nil + 1
      /\ answers'.error = answers.error
  BY <1>1 DEF TypeInv, Inc
<1>4. TypeInv' BY <1>1, <1>2, <1>3 DEF TypeInv, Types
<1>5. \A places : In(places)' = In(places) BY <1>1 DEF In
<1>6. /\ answers.nil \in Nat /\ Cardinality(In({"actions", "latency"})) \in Nat
      /\ SumFunction(processed) \in Nat /\ SumFunction(duplicates) \in Nat
  BY InType, SumTypes DEF TypeInv
<1>7. Tally' BY <1>1, <1>2, <1>3, <1>5, <1>6 DEF Tally
<1> QED BY <1>4, <1>7

(* A call at a place, and where it stands after it has moved on.             *)
LEMMA CallAt ==
  ASSUME TypeInv, NEW g \in Goroutines, call[g].at \in Places
  PROVE  call[g] \in [at : Places, action : Actions]
BY DEF TypeInv, Free, Places

(* Who is at some place after one goroutine has moved.                       *)
LEMMA Moves ==
  ASSUME TypeInv, NEW g \in Goroutines, NEW c, call' = [call EXCEPT ![g] = c]
  PROVE  \A places :
           In(places)' = IF c.at \in places THEN In(places) \cup {g} ELSE In(places) \ {g}
BY DEF TypeInv, In

(* An assessment has been made; nothing is counted yet.                      *)
LEMMA AssessedIInv ==
  ASSUME IInv, NEW g \in Goroutines, Assessed(g)
  PROVE  IInv'
<1> USE DEF IInv
<1>1. PICK a \in Assessments :
        /\ assessed' = assessed \cup {a}
        /\ call' = [call EXCEPT ![g] = [at |-> "processed", action |-> a.action]]
  BY DEF Assessed
<1>2. /\ call[g] = Free /\ UNCHANGED <<counters, answers>>
      /\ \E v \in Verdicts["transaction"] : verdicts' = verdicts \cup {v}
  BY DEF Assessed, Begin, Validated
<1>3. a.action \in Actions BY AssessmentFacts
<1>4. TypeInv' BY <1>1, <1>2, <1>3 DEF TypeInv, Places, counters
<1> DEFINE c == [at |-> "processed", action |-> a.action]
<1>5. c.at = "processed" /\ call[g].at = "free" BY <1>2 DEF Free
<1>6. call' = [call EXCEPT ![g] = c] BY <1>1
<1> HIDE DEF c
<1>7. \A places : In(places)' = IF c.at \in places THEN In(places) \cup {g} ELSE In(places) \ {g}
  BY <1>6, Moves
<1>8. /\ In({"actions", "latency"})' = In({"actions", "latency"})
      /\ In({"actions"})' = In({"actions"}) /\ In({"latency"})' = In({"latency"})
  BY <1>5, <1>7 DEF In
<1>9. Tally' BY <1>2, <1>8 DEF Tally, counters
<1> QED BY <1>4, <1>9

(* The call is counted as processed.                                         *)
LEMMA CountProcessedIInv ==
  ASSUME IInv, NEW g \in Goroutines, CountProcessed(g)
  PROVE  IInv'
<1> USE DEF IInv
<1> DEFINE c == [call[g] EXCEPT !.at = "actions"]
<1>1. /\ call[g].at = "processed" /\ processed' = Inc(processed, "transaction")
      /\ call' = [call EXCEPT ![g] = c]
      /\ UNCHANGED <<duplicates, failures, actions, latency, answers, verdicts, assessed>>
  BY DEF CountProcessed
<1>2. call[g] \in [at : Places, action : Actions] BY <1>1, CallAt DEF Places
<1>3. c \in [at : Places, action : Actions] /\ c.at = "actions" BY <1>2 DEF Places
<1> HIDE DEF c
<1>4. /\ processed' \in [Types -> Nat] /\ SumFunction(processed') = SumFunction(processed) + 1
      /\ processed'["transaction"] = processed["transaction"] + 1
      /\ processed["transaction"] \in Nat
  <2>1. "transaction" \in Types BY DEF Types
  <2>2. processed \in [Types -> Nat] BY DEF TypeInv
  <2>3. /\ Inc(processed, "transaction") \in [Types -> Nat]
        /\ Inc(processed, "transaction")["transaction"] = processed["transaction"] + 1
        /\ SumFunction(Inc(processed, "transaction")) = SumFunction(processed) + 1
    BY <2>1, <2>2, TypesFinite, CounterInc
  <2> QED BY <1>1, <2>1, <2>2, <2>3
<1>5. TypeInv' BY <1>1, <1>3, <1>4 DEF TypeInv
<1>6. \A places : In(places)' = IF c.at \in places THEN In(places) \cup {g} ELSE In(places) \ {g}
  BY <1>1, Moves
<1>7. /\ In({"actions", "latency"})' = In({"actions", "latency"}) \cup {g}
      /\ In({"actions"})' = In({"actions"}) \cup {g} /\ In({"latency"})' = In({"latency"})
      /\ g \notin In({"actions", "latency"}) /\ g \notin In({"actions"})
  <2>1. /\ g \notin In({"actions", "latency"}) /\ g \notin In({"actions"})
        /\ g \notin In({"latency"})
    BY <1>1 DEF In
  <2>2. /\ c.at \in {"actions", "latency"} /\ c.at \in {"actions"}
        /\ c.at \notin {"latency"}
    BY <1>3
  <2> QED BY <1>6, <2>1, <2>2
<1>8. /\ Cardinality(In({"actions", "latency"}))' = Cardinality(In({"actions", "latency"})) + 1
      /\ Cardinality(In({"actions"}))' = Cardinality(In({"actions"})) + 1
      /\ Cardinality(In({"latency"}))' = Cardinality(In({"latency"}))
  BY <1>7, InType, FS_AddElement
<1>9. /\ answers.nil \in Nat /\ Cardinality(In({"actions", "latency"})) \in Nat
      /\ Cardinality(In({"actions"})) \in Nat
      /\ SumFunction(processed) \in Nat /\ SumFunction(duplicates) \in Nat
  BY InType, SumTypes DEF TypeInv
<1>10. Tally' BY <1>1, <1>4, <1>8, <1>9 DEF Tally
<1> QED BY <1>5, <1>10

(* It is counted under its action.                                           *)
LEMMA CountActionIInv ==
  ASSUME IInv, NEW g \in Goroutines, CountAction(g)
  PROVE  IInv'
<1> USE DEF IInv
<1> DEFINE c == [call[g] EXCEPT !.at = "latency"]
           a == call[g].action
<1>1. /\ call[g].at = "actions" /\ actions' = Inc(actions, a)
      /\ call' = [call EXCEPT ![g] = c]
      /\ UNCHANGED <<processed, duplicates, failures, latency, answers, verdicts, assessed>>
  BY DEF CountAction
<1>2. call[g] \in [at : Places, action : Actions] BY <1>1, CallAt DEF Places
<1>3. c \in [at : Places, action : Actions] /\ c.at = "latency" /\ a \in Actions
  BY <1>2 DEF Places
<1> HIDE DEF c, a
<1>4. /\ actions' \in [Actions -> Nat] /\ SumFunction(actions') = SumFunction(actions) + 1
  <2>1. actions \in [Actions -> Nat] BY DEF TypeInv
  <2> QED BY <1>1, <1>3, <2>1, TypesFinite, CounterInc
<1>5. TypeInv' BY <1>1, <1>3, <1>4 DEF TypeInv
<1>6. \A places : In(places)' = IF c.at \in places THEN In(places) \cup {g} ELSE In(places) \ {g}
  BY <1>1, Moves
<1>7. /\ In({"actions", "latency"})' = In({"actions", "latency"})
      /\ In({"actions"})' = In({"actions"}) \ {g} /\ In({"latency"})' = In({"latency"}) \cup {g}
      /\ g \in In({"actions"}) /\ g \notin In({"latency"})
  <2>1. /\ g \in In({"actions", "latency"}) /\ g \in In({"actions"})
        /\ g \notin In({"latency"})
    BY <1>1 DEF In
  <2>2. /\ c.at \in {"actions", "latency"} /\ c.at \notin {"actions"}
        /\ c.at \in {"latency"}
    BY <1>3
  <2> QED BY <1>6, <2>1, <2>2
<1>8. /\ Cardinality(In({"actions", "latency"}))' = Cardinality(In({"actions", "latency"}))
      /\ Cardinality(In({"actions"}))' = Cardinality(In({"actions"})) - 1
      /\ Cardinality(In({"latency"}))' = Cardinality(In({"latency"})) + 1
  <2>1. IsFiniteSet(In({"actions"})) /\ IsFiniteSet(In({"latency"})) BY InType
  <2>2. Cardinality(In({"actions"}) \ {g}) = Cardinality(In({"actions"})) - 1
    BY <1>7, <2>1, FS_RemoveElement
  <2>3. Cardinality(In({"latency"}) \cup {g}) = Cardinality(In({"latency"})) + 1
    BY <1>7, <2>1, FS_AddElement
  <2> QED BY <1>7, <2>2, <2>3
<1>9. /\ Cardinality(In({"latency"})) \in Nat /\ Cardinality(In({"actions"})) \in Nat
      /\ SumFunction(actions) \in Nat /\ processed["transaction"] \in Nat
  BY InType, SumTypes DEF TypeInv, Types
<1>10. Tally' BY <1>1, <1>4, <1>8, <1>9 DEF Tally
<1> QED BY <1>5, <1>10

(* Its duration is observed, and the call answers.                           *)
LEMMA ObserveIInv ==
  ASSUME IInv, NEW g \in Goroutines, Observe(g)
  PROVE  IInv'
<1> USE DEF IInv
<1>1. PICK d \in Durations : latency' = Inc(latency, d) BY DEF Observe
<1>2. /\ call[g].at = "latency" /\ call' = [call EXCEPT ![g] = Free]
      /\ answers' = Inc(answers, "nil")
      /\ UNCHANGED <<processed, duplicates, failures, actions, verdicts, assessed>>
  BY DEF Observe, Answer
<1>3. latency' \in [Durations -> Nat] /\ SumFunction(latency') = SumFunction(latency) + 1
  <2>1. latency \in [Durations -> Nat] BY DEF TypeInv
  <2> QED BY <1>1, <2>1, ProcessorAssumption, CounterInc
<1>4. answers' \in [nil : Nat, error : Nat] /\ answers'.nil = answers.nil + 1
      /\ answers'.error = answers.error
  BY <1>2 DEF TypeInv, Inc
<1>5. TypeInv' BY <1>2, <1>3, <1>4 DEF TypeInv
<1>6. \A places : In(places)' = IF Free.at \in places THEN In(places) \cup {g} ELSE In(places) \ {g}
  BY <1>2, Moves
<1>7. /\ In({"actions", "latency"})' = In({"actions", "latency"}) \ {g}
      /\ In({"actions"})' = In({"actions"}) /\ In({"latency"})' = In({"latency"}) \ {g}
      /\ g \in In({"actions", "latency"}) /\ g \in In({"latency"})
  <2>1. /\ g \in In({"actions", "latency"}) /\ g \notin In({"actions"})
        /\ g \in In({"latency"})
    BY <1>2 DEF In
  <2>2. /\ Free.at \notin {"actions", "latency"} /\ Free.at \notin {"actions"}
        /\ Free.at \notin {"latency"}
    BY DEF Free
  <2> QED BY <1>6, <2>1, <2>2
<1>8. /\ Cardinality(In({"actions", "latency"}))' = Cardinality(In({"actions", "latency"})) - 1
      /\ Cardinality(In({"actions"}))' = Cardinality(In({"actions"}))
      /\ Cardinality(In({"latency"}))' = Cardinality(In({"latency"})) - 1
  BY <1>7, InType, FS_RemoveElement
<1>9. /\ answers.nil \in Nat /\ Cardinality(In({"actions", "latency"})) \in Nat
      /\ Cardinality(In({"latency"})) \in Nat
      /\ SumFunction(actions) \in Nat /\ SumFunction(latency) \in Nat
  BY InType, SumTypes DEF TypeInv
<1>10. Tally' BY <1>2, <1>3, <1>4, <1>8, <1>9 DEF Tally
<1> QED BY <1>5, <1>10

(* A step that changes nothing keeps the invariant.                          *)
LEMMA StutterIInv == IInv /\ UNCHANGED vars => IInv'
<1> SUFFICES ASSUME IInv, UNCHANGED vars PROVE IInv' OBVIOUS
<1> USE DEF IInv, vars, counters
<1>1. TypeInv' BY DEF TypeInv
<1>2. \A places : In(places)' = In(places) BY DEF In
<1>3. Tally' BY <1>2 DEF Tally
<1> QED BY <1>1, <1>3

(* The invariant holds in every reachable state.                             *)
THEOREM ProcessorInvariant == Spec => []IInv
<1>1. ASSUME IInv, Next PROVE IInv'
  BY <1>1, FailureIInv, DuplicateIInv, LabelIInv, AssessedIInv, CountProcessedIInv,
     CountActionIInv, ObserveIInv DEF Next
<1> QED BY <1>1, InitIInv, StutterIInv, PTL DEF Spec

(* Every answer is counted once, and each assessment once under its action   *)
(* and in the histogram, but for the calls between their counters.           *)
THEOREM Counts == Spec => []AnswersCounted
<1>1. IInv => AnswersCounted BY Counted DEF IInv
<1> QED BY <1>1, ProcessorInvariant, PTL

(* What the simulator emits passes Validate, and an event with one field     *)
(* missing or foreign does not.                                              *)
THEOREM ValidatesRightly == Spec => []SpoiltIsRejected
<1>1. ASSUME IInv PROVE SpoiltIsRejected
  <2> SUFFICES ASSUME NEW v \in verdicts PROVE v.valid = ~v.spoilt BY DEF SpoiltIsRejected
  <2>1. v \in Verdicts["transaction"] \cup Verdicts["label"] BY <1>1 DEF IInv, TypeInv
  <2>2. \A t \in Emitted : TransactionValid(t) = TRUE BY EmittedIsValid
  <2>3. \A t \in SpoiltTransactions : TransactionValid(t) = FALSE BY SpoiltIsInvalid
  <2>4. \A l \in Labels : LabelValid(l) = TRUE BY EmittedIsValid
  <2>5. \A l \in SpoiltLabels : LabelValid(l) = FALSE BY SpoiltIsInvalid
  <2>6. \/ \E t \in Emitted : v = [spoilt |-> FALSE, valid |-> TransactionValid(t)]
        \/ \E t \in SpoiltTransactions : v = [spoilt |-> TRUE, valid |-> TransactionValid(t)]
        \/ \E l \in Labels : v = [spoilt |-> FALSE, valid |-> LabelValid(l)]
        \/ \E l \in SpoiltLabels : v = [spoilt |-> TRUE, valid |-> LabelValid(l)]
    BY <2>1 DEF Verdicts, Emitted
  <2>7. \/ v = [spoilt |-> FALSE, valid |-> TRUE] \/ v = [spoilt |-> TRUE, valid |-> FALSE]
    BY <2>2, <2>3, <2>4, <2>5, <2>6
  <2>8. CASE v = [spoilt |-> FALSE, valid |-> TRUE]
    <3>1. v.spoilt = FALSE /\ v.valid = TRUE BY <2>8
    <3> QED BY <3>1
  <2>9. CASE v = [spoilt |-> TRUE, valid |-> FALSE]
    <3>1. v.spoilt = TRUE /\ v.valid = FALSE BY <2>9
    <3> QED BY <3>1
  <2> QED BY <2>7, <2>8, <2>9
<1> QED BY <1>1, ProcessorInvariant, PTL

(* A fraud of the simulator is sent to review at least, and none of its      *)
(* normal transactions is escalated, whatever the account did before.        *)
THEOREM FraudFound == Spec => []FraudStandsOut
<1>1. IInv => FraudStandsOut BY AssessmentFacts DEF IInv, TypeInv, FraudStandsOut
<1> QED BY <1>1, ProcessorInvariant, PTL

-----------------------------------------------------------------------------
(* The percentiles                                                           *)

(* The least and the greatest of a finite set of numbers.                    *)
LEMMA MinFacts ==
  ASSUME NEW S \in SUBSET Nat, IsFiniteSet(S), S # {}
  PROVE  Min(S) \in S /\ \A y \in S : Min(S) <= y
<1> DEFINE Good == {T \in SUBSET S : T # {} => \E x \in T : \A y \in T : x <= y}
<1>1. ASSUME NEW T \in SUBSET S, \A U \in SUBSET T : U # T => U \in Good
      PROVE  T \in Good
  <2> SUFFICES ASSUME NEW z \in T PROVE \E x \in T : \A y \in T : x <= y OBVIOUS
  <2>1. T \ {z} \in Good BY <1>1
  <2>2. CASE T \ {z} = {}
    <3>1. \A y \in T : z <= y BY <2>2
    <3> QED BY <3>1
  <2>3. CASE T \ {z} # {}
    <3>1. PICK x \in T \ {z} : \A y \in T \ {z} : x <= y BY <2>1, <2>3
    <3>2. \A y \in T : (IF z <= x THEN z ELSE x) <= y BY <3>1
    <3> QED BY <3>1, <3>2
  <2> QED BY <2>2, <2>3
<1> HIDE DEF Good
<1>2. S \in Good BY <1>1, SubsetInduction
<1>3. PICK x \in S : \A y \in S : x <= y BY <1>2 DEF Good
<1> QED BY <1>3 DEF Min

(* The greatest is a member that no other exceeds.                           *)
LEMMA MaxFacts ==
  ASSUME NEW S \in SUBSET Nat, IsFiniteSet(S), S # {}
  PROVE  Max(S) \in S /\ \A y \in S : y <= Max(S)
<1> DEFINE Good == {T \in SUBSET S : T # {} => \E x \in T : \A y \in T : y <= x}
<1>1. ASSUME NEW T \in SUBSET S, \A U \in SUBSET T : U # T => U \in Good
      PROVE  T \in Good
  <2> SUFFICES ASSUME NEW z \in T PROVE \E x \in T : \A y \in T : y <= x OBVIOUS
  <2>1. T \ {z} \in Good BY <1>1
  <2>2. CASE T \ {z} = {}
    <3>1. \A y \in T : y <= z BY <2>2
    <3> QED BY <3>1
  <2>3. CASE T \ {z} # {}
    <3>1. PICK x \in T \ {z} : \A y \in T \ {z} : y <= x BY <2>1, <2>3
    <3>2. \A y \in T : y <= (IF z <= x THEN x ELSE z) BY <3>1
    <3> QED BY <3>1, <3>2
  <2> QED BY <2>2, <2>3
<1> HIDE DEF Good
<1>2. S \in Good BY <1>1, SubsetInduction
<1>3. PICK x \in S : \A y \in S : y <= x BY <1>2 DEF Good
<1> QED BY <1>3 DEF Max

(* Products of numbers.                                                      *)
LEMMA Times100 ==
  ASSUME NEW i \in Nat, NEW j \in Nat, i <= j
  PROVE  100 * i \in Nat /\ 100 * j \in Nat /\ 100 * i <= 100 * j
OBVIOUS

(* Products of natural numbers are natural numbers.                          *)
LEMMA ProductType == ASSUME NEW i \in Nat, NEW j \in Nat PROVE i * j \in Nat
OBVIOUS

(* Products grow with their factors.                                         *)
LEMMA ProductMonotone ==
  ASSUME NEW i \in Nat, NEW j \in Nat, NEW k \in Nat, i <= j
  PROVE  i * k <= j * k /\ k * i <= k * j /\ i * k = k * i /\ j * k = k * j
OBVIOUS

(* Between two bounds, linearly.                                             *)
LEMMA Interpolated ==
  ASSUME NEW lo \in Nat, NEW hi \in Nat, NEW w \in Nat, NEW r \in Nat, lo <= hi, r <= w
  PROVE  /\ lo * w + (hi - lo) * r \in Nat
         /\ lo * w <= lo * w + (hi - lo) * r
         /\ lo * w + (hi - lo) * r <= hi * w
<1>1. hi - lo \in Nat OBVIOUS
<1>2. (hi - lo) * r \in Nat /\ lo * w \in Nat /\ hi * w \in Nat BY <1>1, ProductType
<1>3. (hi - lo) * r <= (hi - lo) * w BY <1>1, ProductMonotone
<1>4. (hi - lo) * w = hi * w - lo * w OBVIOUS
<1> QED BY <1>2, <1>3, <1>4

(* The observations up to a duration, and those under it.                    *)
UpTo(x) == SumFunctionOnSet(latency, {d \in Durations : d <= x})
Under(x) == SumFunctionOnSet(latency, {d \in Durations : d < x})

(* A bucket counts the observations up to its bound, and counts grow.        *)
LEMMA UpToFacts ==
  ASSUME TypeInv, NEW x \in Nat, NEW y \in Nat
  PROVE  /\ UpTo(x) \in Nat /\ Under(x) \in Nat /\ SampleCount \in Nat
         /\ Cumulative(x) = UpTo(x)
         /\ x <= y => UpTo(x) <= UpTo(y)
         /\ x < y => UpTo(x) <= Under(y)
<1> DEFINE le(z) == {d \in Durations : d <= z}
           lt(z) == {d \in Durations : d < z}
<1>1. UpTo(x) \in Nat /\ Under(x) \in Nat /\ SampleCount \in Nat
  BY SumTypes DEF UpTo, Under, SampleCount
<1>2. \A d \in Durations : latency[d] \in Nat BY DEF TypeInv
<1>3. ASSUME NEW S \in SUBSET Durations, NEW T \in SUBSET S
      PROVE  SumFunctionOnSet(latency, T) <= SumFunctionOnSet(latency, S)
  <2>1. IsFiniteSet(S) BY ProcessorAssumption, FS_Subset
  <2> QED BY <1>2, <2>1, SumPart
<1>4. ASSUME x <= y PROVE UpTo(x) <= UpTo(y)
  <2>1. \A d \in Durations : d <= x => d <= y BY <1>4, ProcessorAssumption
  <2>2. le(x) \in SUBSET le(y) /\ le(y) \in SUBSET Durations BY <2>1
  <2> QED BY <1>3, <2>2 DEF UpTo
<1>5. ASSUME x < y PROVE UpTo(x) <= Under(y)
  <2>1. \A d \in Durations : d <= x => d < y BY <1>5, ProcessorAssumption
  <2>2. le(x) \in SUBSET lt(y) /\ lt(y) \in SUBSET Durations BY <2>1
  <2> QED BY <1>3, <2>2 DEF UpTo, Under
<1> QED BY <1>1, <1>4, <1>5 DEF Cumulative, UpTo

(* There is a duration at every rank.                                        *)
LEMMA RankedFacts ==
  ASSUME TypeInv, SampleCount > 0, NEW q \in 1..100
  PROVE  /\ Ranked(q) \in Durations
         /\ 100 * Under(Ranked(q)) < q * SampleCount
         /\ 100 * UpTo(Ranked(q)) >= q * SampleCount
<1> DEFINE n == SampleCount
           high == {d \in Durations : 100 * UpTo(d) >= q * n}
<1>1. n \in Nat /\ n = SumFunctionOnSet(latency, Durations) BY SumTypes DEF SampleCount
<1>2. Durations # {} BY <1>1, SumEmpty
<1>3. /\ Durations \subseteq Nat /\ IsFiniteSet(Durations) BY ProcessorAssumption
<1>4. q * n \in Nat /\ q * n <= 100 * n /\ q * n > 0
  <2> HIDE DEF n
  <2>1. q \in Nat /\ q <= 100 /\ n > 0 /\ n \in Nat BY <1>1 DEF n
  <2>2. q * n \in Nat /\ q * n <= 100 * n BY <2>1, ProductType, ProductMonotone
  <2>3. 1 * n <= q * n BY <2>1, ProductMonotone
  <2> QED BY <2>1, <2>2, <2>3
<1> HIDE DEF n
<1>5. high # {}
  <2> DEFINE m == Max(Durations)
  <2>1. m \in Durations /\ \A d \in Durations : d <= m BY <1>2, <1>3, MaxFacts
  <2> HIDE DEF m
  <2>2. {d \in Durations : d <= m} = Durations BY <2>1
  <2>3. UpTo(m) = n BY <1>1, <2>2 DEF UpTo
  <2> QED BY <1>4, <2>1, <2>3
<1>6. high \in SUBSET Nat /\ IsFiniteSet(high) BY <1>3, FS_Subset
<1> DEFINE d == Min(high)
<1> HIDE DEF high
<1>7. d \in high /\ \A y \in high : d <= y BY <1>5, <1>6, MinFacts
<1> HIDE DEF d
<1>8. d \in Durations /\ d \in Nat /\ 100 * UpTo(d) >= q * n BY <1>3, <1>7 DEF high
<1>9. 100 * Under(d) < q * n
  <2> DEFINE S == {c \in Durations : c < d}
  <2>1. Under(d) = SumFunctionOnSet(latency, S) BY DEF Under
  <2>2. CASE S = {} BY <1>4, <2>1, <2>2, SumEmpty
  <2>3. CASE S # {}
    <3> DEFINE e == Max(S)
    <3>1. S \in SUBSET Nat /\ IsFiniteSet(S) BY <1>3, FS_Subset
    <3> HIDE DEF S
    <3>2. e \in S /\ \A y \in S : y <= e BY <2>3, <3>1, MaxFacts
    <3> HIDE DEF e
    <3> USE DEF S
    <3>3. {c \in Durations : c <= e} = S
      <4>1. \A c \in Durations : c <= e <=> c < d BY <1>3, <1>8, <3>2
      <4> QED BY <4>1
    <3>4. UpTo(e) = Under(d) BY <2>1, <3>3 DEF UpTo
    <3>5. e \in Durations /\ e \in Nat /\ e < d BY <1>3, <3>2
    <3>6. e \notin high BY <1>7, <1>8, <3>5
    <3>7. UpTo(e) \in Nat BY <3>5, UpToFacts
    <3>8. ~(100 * UpTo(e) >= q * n) BY <3>5, <3>6 DEF high
    <3> QED BY <1>4, <3>4, <3>7, <3>8
  <2> QED BY <2>2, <2>3
<1>10. \E x \in Durations : 100 * Under(x) < q * n /\ 100 * UpTo(x) >= q * n
  BY <1>8, <1>9
<1>11. Ranked(q) = CHOOSE x \in Durations :
                     100 * Under(x) < q * n /\ 100 * UpTo(x) >= q * n
  BY DEF Ranked, Under, UpTo, n
<1> QED BY <1>10, <1>11 DEF n

(* The parts of latencyQuantile: the bounds that are reached, the bound      *)
(* below one, the observations up to that, and those in between, hundredfold. *)
Reached(q) == {b \in Bounds : 100 * Cumulative(b) >= q * SampleCount}
Below(bound) == {b \in Bounds : b < bound}
Lo(bound) == IF Below(bound) = {} THEN 0 ELSE Max(Below(bound))
LoCount(bound) == IF Below(bound) = {} THEN 0 ELSE Cumulative(Lo(bound))
Width(bound) == 100 * (Cumulative(bound) - LoCount(bound))
Part(q, bound) == q * SampleCount - 100 * LoCount(bound)

(* The percentile by its three cases, in the terms of this module.           *)
LEMMA QuantileForm ==
  ASSUME NEW q, SampleCount # 0
  PROVE  latencyQuantile(q) =
           IF Reached(q) = {} THEN <<Max(Bounds), 1>>
           ELSE IF Width(Min(Reached(q))) = 0 THEN <<Min(Reached(q)), 1>>
           ELSE <<Lo(Min(Reached(q))) * Width(Min(Reached(q)))
                    + (Min(Reached(q)) - Lo(Min(Reached(q)))) * Part(q, Min(Reached(q))),
                  Width(Min(Reached(q)))>>
BY DEF latencyQuantile, Reached, Below, Lo, LoCount, Width, Part

(* The bound below one is the highest that is lower, or zero.                *)
LEMMA LoFacts ==
  ASSUME TypeInv, NEW bound \in Bounds
  PROVE  /\ Lo(bound) \in Nat /\ Lo(bound) < bound /\ LoCount(bound) \in Nat
         /\ \A b \in Bounds : b < bound => b <= Lo(bound)
         /\ LoCount(bound) <= Cumulative(bound)
         /\ Cumulative(bound) \in Nat
         /\ LoCount(bound) = 0
              \/ (Lo(bound) \in Bounds /\ LoCount(bound) = Cumulative(Lo(bound)))
<1>1. bound \in Nat \ {0} /\ Bounds \subseteq Nat BY ProcessorAssumption
<1>2. Cumulative(bound) \in Nat BY <1>1, UpToFacts
<1>3. CASE Below(bound) = {}
  <2>1. Lo(bound) = 0 /\ LoCount(bound) = 0 BY <1>3 DEF Lo, LoCount
  <2>2. \A b \in Bounds : ~(b < bound) BY <1>3 DEF Below
  <2> QED BY <1>1, <1>2, <2>1, <2>2
<1>4. CASE Below(bound) # {}
  <2>1. Below(bound) \in SUBSET Nat /\ IsFiniteSet(Below(bound))
    BY <1>1, ProcessorAssumption, FS_Subset DEF Below
  <2>2. Max(Below(bound)) \in Below(bound) /\ \A y \in Below(bound) : y <= Max(Below(bound))
    BY <1>4, <2>1, MaxFacts
  <2>3. Lo(bound) = Max(Below(bound)) /\ LoCount(bound) = Cumulative(Lo(bound))
    BY <1>4 DEF Lo, LoCount
  <2>4. /\ Lo(bound) \in Bounds /\ Lo(bound) \in Nat /\ Lo(bound) < bound
        /\ \A b \in Bounds : b < bound => b <= Lo(bound)
    BY <1>1, <2>2, <2>3 DEF Below
  <2>5. Cumulative(Lo(bound)) \in Nat /\ Cumulative(Lo(bound)) <= Cumulative(bound)
    BY <1>1, <2>4, UpToFacts
  <2> QED BY <1>2, <2>3, <2>4, <2>5
<1> QED BY <1>3, <1>4

(* What is reached, in terms of the duration at the rank: the bounds that    *)
(* are not under it.                                                         *)
LEMMA ReachedFacts ==
  ASSUME TypeInv, SampleCount > 0, NEW q \in 1..100
  PROVE  Reached(q) = {b \in Bounds : Ranked(q) <= b}
<1> DEFINE d == Ranked(q)
<1>1. /\ d \in Durations /\ 100 * Under(d) < q * SampleCount
      /\ 100 * UpTo(d) >= q * SampleCount
  BY RankedFacts
<1>2. d \in Nat /\ Bounds \subseteq Nat BY <1>1, ProcessorAssumption
<1>3. SampleCount \in Nat /\ q \in Nat /\ q * SampleCount \in Nat
  <2>1. SampleCount \in Nat /\ q \in Nat BY <1>2, UpToFacts
  <2> QED BY <2>1, ProductType
<1> HIDE DEF d
<1>4. ASSUME NEW b \in Bounds, d <= b PROVE 100 * Cumulative(b) >= q * SampleCount
  <2>1. UpTo(d) \in Nat /\ UpTo(b) \in Nat /\ UpTo(d) <= UpTo(b) /\ Cumulative(b) = UpTo(b)
    BY <1>2, <1>4, UpToFacts
  <2> QED BY <1>1, <1>3, <2>1
<1>5. ASSUME NEW b \in Bounds, ~(d <= b) PROVE ~(100 * Cumulative(b) >= q * SampleCount)
  <2>1. b < d BY <1>2, <1>5
  <2>2. /\ Under(d) \in Nat /\ UpTo(b) \in Nat /\ UpTo(b) <= Under(d)
        /\ Cumulative(b) = UpTo(b)
    BY <1>2, <2>1, UpToFacts
  <2> QED BY <1>1, <1>3, <2>2
<1> QED BY <1>4, <1>5 DEF Reached, d

(* A percentile is interpolated between the bound that is reached and the    *)
(* one below, from a part of the observations between them.                  *)
LEMMA QuantileFacts ==
  ASSUME TypeInv, SampleCount > 0, NEW q \in 1..100, Reached(q) # {}
  PROVE  LET bound == Min(Reached(q))
             x == latencyQuantile(q)
         IN  /\ bound \in Reached(q) /\ \A b \in Reached(q) : bound <= b
             /\ Width(bound) \in Nat /\ Width(bound) > 0
             /\ Part(q, bound) \in Nat /\ Part(q, bound) <= Width(bound)
             /\ x[1] = Lo(bound) * Width(bound) + (bound - Lo(bound)) * Part(q, bound)
             /\ x[2] = Width(bound)
             /\ x[1] \in Nat
             /\ Lo(bound) * Width(bound) <= x[1] /\ x[1] <= bound * Width(bound)
<1> DEFINE bound == Min(Reached(q))
           x == latencyQuantile(q)
           lo == Lo(bound)
           w == Width(bound)
           r == Part(q, bound)
<1>1. Bounds \subseteq Nat BY ProcessorAssumption
<1>2. Reached(q) \in SUBSET Nat /\ IsFiniteSet(Reached(q))
  BY <1>1, ProcessorAssumption, FS_Subset DEF Reached
<1>3. bound \in Reached(q) /\ \A b \in Reached(q) : bound <= b BY <1>2, MinFacts
<1>4. bound \in Bounds /\ bound \in Nat /\ 100 * Cumulative(bound) >= q * SampleCount
  BY <1>1, <1>3 DEF Reached
<1>5. /\ lo \in Nat /\ lo < bound /\ LoCount(bound) \in Nat
      /\ LoCount(bound) <= Cumulative(bound) /\ Cumulative(bound) \in Nat
      /\ LoCount(bound) = 0 \/ (lo \in Bounds /\ LoCount(bound) = Cumulative(lo))
  BY <1>4, LoFacts
<1>6. SampleCount \in Nat /\ SampleCount > 0 /\ q \in Nat /\ q >= 1 BY <1>4, UpToFacts
<1>7. q * SampleCount \in Nat /\ q * SampleCount > 0
  <2>1. q * SampleCount \in Nat BY <1>6, ProductType
  <2>2. 1 * SampleCount <= q * SampleCount BY <1>6, ProductMonotone
  <2> QED BY <1>6, <2>1, <2>2
<1>8. 100 * LoCount(bound) < q * SampleCount
  <2>1. CASE LoCount(bound) = 0 BY <1>7, <2>1
  <2>2. CASE lo \in Bounds /\ LoCount(bound) = Cumulative(lo)
    <3>1. lo \notin Reached(q) BY <1>3, <1>4, <1>5
    <3>2. ~(100 * Cumulative(lo) >= q * SampleCount) BY <2>2, <3>1 DEF Reached
    <3> QED BY <1>5, <1>7, <2>2, <3>2
  <2> QED BY <1>5, <2>1, <2>2
<1>9. w \in Nat /\ r \in Nat /\ r <= w /\ r > 0
  BY <1>4, <1>5, <1>7, <1>8 DEF Width, Part
<1>10. x = <<lo * w + (bound - lo) * r, w>>
  <2>1. SampleCount # 0 /\ w # 0 BY <1>6, <1>9
  <2> QED BY <2>1, QuantileForm
<1> HIDE DEF bound, x, lo, w, r
<1>11. x[1] = lo * w + (bound - lo) * r /\ x[2] = w BY <1>10
<1>12. /\ lo * w + (bound - lo) * r \in Nat
       /\ lo * w <= lo * w + (bound - lo) * r
       /\ lo * w + (bound - lo) * r <= bound * w
  BY <1>4, <1>5, <1>9, Interpolated
<1>13. w > 0 BY <1>9
<1> QED BY <1>3, <1>9, <1>11, <1>12, <1>13 DEF bound, x, lo, w, r

(* A percentile lies in the bucket of the duration at its rank.              *)
LEMMA InBucket ==
  ASSUME TypeInv, SampleCount > 0, NEW q \in 1..100
  PROVE  InBucketOf(Ranked(q), latencyQuantile(q))
<1> DEFINE d == Ranked(q)
           x == latencyQuantile(q)
           bound == Min(Reached(q))
<1>1. d \in Nat BY RankedFacts, ProcessorAssumption
<1>2. Bounds \in SUBSET Nat /\ Bounds # {} /\ IsFiniteSet(Bounds) BY ProcessorAssumption
<1>3. Max(Bounds) \in Bounds /\ \A b \in Bounds : b <= Max(Bounds) BY <1>2, MaxFacts
<1>4. Reached(q) = {b \in Bounds : d <= b} BY ReachedFacts
<1>5. SampleCount # 0
  <2>1. SampleCount \in Nat BY <1>1, UpToFacts
  <2> QED BY <2>1
<1>6. Reached(q) = {} => x = <<Max(Bounds), 1>> BY <1>5, QuantileForm
<1>7. Reached(q) # {} =>
        /\ bound \in Reached(q) /\ \A b \in Reached(q) : bound <= b
        /\ Width(bound) \in Nat /\ Width(bound) > 0
        /\ x[2] = Width(bound) /\ x[1] \in Nat
        /\ Lo(bound) * Width(bound) <= x[1] /\ x[1] <= bound * Width(bound)
  BY QuantileFacts
<1> HIDE DEF d, x, bound
<1>8. CASE d > Max(Bounds)
  <2> DEFINE m == Max(Bounds)
  <2>1. m \in Nat /\ d > m /\ \A b \in Bounds : b \in Nat /\ b <= m BY <1>2, <1>3, <1>8
  <2> HIDE DEF m
  <2>2. \A b \in Bounds : ~(d <= b) BY <1>1, <2>1
  <2>3. Reached(q) = {} BY <1>4, <2>2
  <2> QED BY <1>6, <1>8, <2>3 DEF InBucketOf, d, x
<1>9. CASE ~(d > Max(Bounds))
  <2>1. Max(Bounds) \in Reached(q)
    <3> DEFINE m == Max(Bounds)
    <3>1. m \in Bounds /\ m \in Nat /\ ~(d > m) BY <1>2, <1>3, <1>9
    <3> HIDE DEF m
    <3>2. d <= m BY <1>1, <3>1
    <3>3. m \in Reached(q) BY <1>4, <3>1, <3>2
    <3> QED BY <3>3 DEF m
  <2>2. /\ bound \in Bounds /\ bound \in Nat /\ d <= bound
        /\ Width(bound) \in Nat /\ Width(bound) > 0
        /\ x[2] = Width(bound) /\ x[1] \in Nat
        /\ Lo(bound) * Width(bound) <= x[1] /\ x[1] <= bound * Width(bound)
    BY <1>2, <1>4, <1>7, <2>1
  <2>3. bound = Min({c \in Bounds : d <= c}) BY <1>4 DEF bound
  <2>4. AtMost(x, <<bound, 1>>)
    <3>1. bound * Width(bound) \in Nat BY <2>2, ProductType
    <3>2. x[1] * 1 <= bound * x[2] BY <2>2, <3>1
    <3> QED BY <3>2 DEF AtMost
  <2>5. ASSUME NEW b \in Bounds, ~(d <= b) PROVE AtMost(<<b, 1>>, x)
    <3>1. b \in Nat /\ b < bound BY <1>1, <1>2, <2>2, <2>5
    <3>2. Lo(bound) \in Nat /\ b <= Lo(bound) BY <2>2, <3>1, LoFacts
    <3>3. b * Width(bound) <= Lo(bound) * Width(bound) BY <2>2, <3>1, <3>2, ProductMonotone
    <3>4. b * Width(bound) \in Nat /\ Lo(bound) * Width(bound) \in Nat
      BY <2>2, <3>1, <3>2, ProductType
    <3>5. b * x[2] <= x[1] * 1 BY <2>2, <3>3, <3>4
    <3> QED BY <3>5 DEF AtMost
  <2>6. \A b \in Bounds : IF d <= b THEN AtMost(x, <<Min({c \in Bounds : d <= c}), 1>>)
                                    ELSE AtMost(<<b, 1>>, x)
    BY <2>3, <2>4, <2>5
  <2> QED BY <1>9, <2>6 DEF InBucketOf, d, x
<1> QED BY <1>8, <1>9

(* One fraction is at most another when a number is between them.            *)
LEMMA Chain ==
  ASSUME NEW x \in Nat, NEW w \in Nat, NEW y \in Nat, NEW v \in Nat,
         NEW b \in Nat, NEW l \in Nat, x <= b * w, b <= l, l * v <= y
  PROVE  x * v <= y * w
<1>1. b * w \in Nat /\ l * v \in Nat /\ b * v \in Nat BY ProductType
<1>2. x * v <= (b * w) * v BY <1>1, ProductMonotone
<1>3. (b * w) * v = (b * v) * w OBVIOUS
<1>4. b * v <= l * v BY ProductMonotone
<1>5. b * v <= y BY <1>1, <1>4
<1>6. (b * v) * w <= y * w BY <1>1, <1>5, ProductMonotone
<1>7. x * v \in Nat /\ y * w \in Nat /\ (b * v) * w \in Nat BY <1>1, ProductType
<1> QED BY <1>2, <1>3, <1>6, <1>7

(* A higher percentile is not lower.                                         *)
LEMMA QuantilesGrow ==
  ASSUME TypeInv, SampleCount > 0, NEW p \in 1..100, NEW q \in 1..100, p <= q
  PROVE  AtMost(latencyQuantile(p), latencyQuantile(q))
<1> DEFINE x == latencyQuantile(p)
           y == latencyQuantile(q)
           b == Min(Reached(p))
           c == Min(Reached(q))
<1>1. Bounds \in SUBSET Nat /\ Bounds # {} /\ IsFiniteSet(Bounds) BY ProcessorAssumption
<1>2. Max(Bounds) \in Bounds /\ \A a \in Bounds : a <= Max(Bounds) BY <1>1, MaxFacts
<1>3. SampleCount \in Nat /\ SampleCount # 0
  <2>1. SampleCount \in Nat BY <1>1, <1>2, UpToFacts
  <2> QED BY <2>1
<1>4. /\ p * SampleCount \in Nat /\ q * SampleCount \in Nat
      /\ p * SampleCount <= q * SampleCount
  BY <1>3, ProductType, ProductMonotone
<1>5. \A a \in Bounds : Cumulative(a) \in Nat BY <1>1, UpToFacts
<1>6. Reached(q) \subseteq Reached(p) BY <1>4, <1>5 DEF Reached
<1>7. /\ Reached(p) = {} => x = <<Max(Bounds), 1>>
      /\ Reached(q) = {} => y = <<Max(Bounds), 1>>
  BY <1>3, QuantileForm
<1>8. Reached(p) # {} =>
        /\ b \in Reached(p) /\ \A a \in Reached(p) : b <= a
        /\ Width(b) \in Nat /\ Part(p, b) \in Nat
        /\ x[1] = Lo(b) * Width(b) + (b - Lo(b)) * Part(p, b)
        /\ x[2] = Width(b) /\ x[1] \in Nat /\ x[1] <= b * Width(b)
  BY QuantileFacts
<1>9. Reached(q) # {} =>
        /\ c \in Reached(q) /\ \A a \in Reached(q) : c <= a
        /\ Width(c) \in Nat /\ Part(q, c) \in Nat
        /\ y[1] = Lo(c) * Width(c) + (c - Lo(c)) * Part(q, c)
        /\ y[2] = Width(c) /\ y[1] \in Nat /\ Lo(c) * Width(c) <= y[1]
  BY QuantileFacts
<1> HIDE DEF x, y, b, c
<1>10. CASE Reached(p) = {}
  <2>1. x = <<Max(Bounds), 1>> /\ y = <<Max(Bounds), 1>> BY <1>6, <1>7, <1>10
  <2>2. Max(Bounds) \in Nat BY <1>1, <1>2
  <2>3. x[1] = Max(Bounds) /\ x[2] = 1 /\ y[1] = Max(Bounds) /\ y[2] = 1 BY <2>1
  <2>4. x[1] * y[2] <= y[1] * x[2] BY <2>2, <2>3
  <2> QED BY <2>4 DEF AtMost, x, y
<1>11. CASE Reached(p) # {} /\ Reached(q) = {}
  <2>1. b \in Bounds /\ b \in Nat /\ b <= Max(Bounds) /\ Max(Bounds) \in Nat
    BY <1>1, <1>2, <1>8, <1>11 DEF Reached
  <2>2. y[1] = Max(Bounds) /\ y[2] = 1 BY <1>7, <1>11
  <2>3. x[1] \in Nat /\ x[2] \in Nat /\ x[1] <= b * x[2] BY <1>8, <1>11
  <2>4. Max(Bounds) * 1 <= y[1] /\ y[1] \in Nat BY <2>1, <2>2
  <2>5. x[1] * 1 <= y[1] * x[2] BY <2>1, <2>3, <2>4, Chain
  <2> QED BY <2>2, <2>5 DEF AtMost, x, y
<1>12. CASE Reached(q) # {} /\ b = c
  <2>1. Reached(p) # {} /\ c \in Bounds /\ c \in Nat BY <1>1, <1>6, <1>9, <1>12 DEF Reached
  <2>2. Lo(c) \in Nat /\ Lo(c) < c /\ LoCount(c) \in Nat BY <2>1, LoFacts
  <2>3. Part(p, c) <= Part(q, c) BY <1>4, <2>2 DEF Part
  <2>4. (c - Lo(c)) * Part(p, c) <= (c - Lo(c)) * Part(q, c)
    <3>1. c - Lo(c) \in Nat /\ Part(p, c) \in Nat /\ Part(q, c) \in Nat
      BY <1>8, <1>9, <1>12, <2>1, <2>2
    <3> QED BY <2>3, <3>1, ProductMonotone
  <2>5. Lo(c) * Width(c) \in Nat /\ (c - Lo(c)) * Part(p, c) \in Nat
          /\ (c - Lo(c)) * Part(q, c) \in Nat
    <3>1. c - Lo(c) \in Nat /\ Part(p, c) \in Nat /\ Part(q, c) \in Nat /\ Width(c) \in Nat
      BY <1>8, <1>9, <1>12, <2>1, <2>2
    <3> QED BY <2>2, <3>1, ProductType
  <2>6. x[1] <= y[1] BY <1>8, <1>9, <1>12, <2>1, <2>4, <2>5
  <2>7. x[1] * y[2] <= y[1] * x[2]
    <3>1. x[1] \in Nat /\ y[1] \in Nat /\ x[2] = Width(c) /\ y[2] = Width(c) /\ Width(c) \in Nat
      BY <1>8, <1>9, <1>12, <2>1
    <3> QED BY <2>6, <3>1, ProductMonotone
  <2> QED BY <2>7 DEF AtMost, x, y
<1>13. CASE Reached(q) # {} /\ b # c
  <2>1. Reached(p) # {} /\ c \in Bounds /\ b \in Bounds /\ c \in Nat /\ b \in Nat /\ b <= c
    BY <1>1, <1>6, <1>8, <1>9, <1>13 DEF Reached
  <2>2. b < c BY <1>13, <2>1
  <2>3. Lo(c) \in Nat /\ b <= Lo(c) BY <2>1, <2>2, LoFacts
  <2>4. /\ x[1] \in Nat /\ x[2] \in Nat /\ x[1] <= b * x[2]
        /\ y[1] \in Nat /\ y[2] \in Nat /\ Lo(c) * y[2] <= y[1]
    BY <1>8, <1>9, <1>13, <2>1
  <2>5. x[1] * y[2] <= y[1] * x[2] BY <2>1, <2>3, <2>4, Chain
  <2> QED BY <2>5 DEF AtMost, x, y
<1> QED BY <1>10, <1>11, <1>12, <1>13

(* A reported percentile lies in the bucket of the call at that rank, or is  *)
(* the highest bound when the call took longer, and p50 <= p95 <= p99.       *)
THEOREM Percentiles == Spec => []PercentilesInBucket
<1>1. ASSUME IInv PROVE PercentilesInBucket
  <2>1. TypeInv BY <1>1 DEF IInv
  <2>2. \A q \in {50, 95, 99} : q \in 1..100 OBVIOUS
  <2>3. ASSUME SampleCount > 0
        PROVE  /\ \A q \in {50, 95, 99} : InBucketOf(Ranked(q), latencyQuantile(q))
               /\ AtMost(latencyQuantile(50), latencyQuantile(95))
               /\ AtMost(latencyQuantile(95), latencyQuantile(99))
    <3>1. 50 \in 1..100 /\ 95 \in 1..100 /\ 99 \in 1..100 /\ 50 <= 95 /\ 95 <= 99 OBVIOUS
    <3>2. \A q \in {50, 95, 99} : InBucketOf(Ranked(q), latencyQuantile(q))
      BY <2>1, <2>2, <2>3, InBucket
    <3>3. AtMost(latencyQuantile(50), latencyQuantile(95)) BY <2>1, <2>3, <3>1, QuantilesGrow
    <3>4. AtMost(latencyQuantile(95), latencyQuantile(99)) BY <2>1, <2>3, <3>1, QuantilesGrow
    <3> QED BY <3>2, <3>3, <3>4
  <2> QED BY <2>3 DEF PercentilesInBucket
<1> QED BY <1>1, ProcessorInvariant, PTL
=============================================================================
