--------------------------- MODULE Listing_proofs ---------------------------
(* Theorems about Listing, for any transactions with any times, any filters  *)
(* and any size of a page.                                                   *)
EXTENDS Listing, FiniteSetTheorems, TLAPS

-----------------------------------------------------------------------------
(* The order of the keys                                                     *)

(* Truncation to a unit gives a natural number, and to the unit 1 nothing    *)
(* changes: a key survives the token of the cursor.                          *)
LEMMA TruncateType ==
  ASSUME NEW time \in Nat, NEW unit \in Nat \ {0}
  PROVE  Truncate(time, unit) \in Nat
<1>1. time \div unit \in Nat OBVIOUS
<1> QED BY <1>1 DEF Truncate

(* A key has a time and an id, and is the same behind the token of a cursor. *)
LEMMA KeyType ==
  ASSUME NEW r \in Rows
  PROVE  /\ Key(r).time \in Nat /\ Key(r).id = r /\ r \in Nat
         /\ ThroughToken(CursorOf(r)) \in Cursors
         /\ ThroughToken(CursorOf(r)).time = Key(r).time
         /\ ThroughToken(CursorOf(r)).id = r
<1>1. OccurredAt[r] \in Nat /\ r \in Nat BY ListingAssumption
<1>2. Truncate(OccurredAt[r], Micro) \in Nat BY <1>1, TruncateType, ListingAssumption
<1>3. Key(r).time \in Nat /\ Key(r).id = r BY <1>2 DEF Key
<1>4. Truncate(Key(r).time, 1) = Key(r).time BY <1>3 DEF Truncate
<1> QED BY <1>1, <1>3, <1>4 DEF ThroughToken, CursorOf, Cursors

(* The comparison of rows is a strict order, total on different ids.         *)
LEMMA PrecedesOrder ==
  ASSUME NEW k, NEW l, NEW m,
         k.time \in Nat, k.id \in Nat, l.time \in Nat, l.id \in Nat, m.time \in Nat, m.id \in Nat
  PROVE  /\ ~Precedes(k, k)
         /\ Precedes(k, l) => ~Precedes(l, k)
         /\ Precedes(k, l) /\ Precedes(l, m) => Precedes(k, m)
         /\ k.id # l.id => Precedes(k, l) \/ Precedes(l, k)
         /\ Precedes(k, l) => Precedes(k, m) \/ Precedes(m, l) \/ m.id = k.id \/ m.id = l.id
BY DEF Precedes

(* The same of the keys of rows, whose ids are the rows themselves.          *)
LEMMA RowsOrder ==
  ASSUME NEW q \in Rows, NEW r \in Rows, NEW s \in Rows
  PROVE  /\ ~Precedes(Key(r), Key(r))
         /\ Precedes(Key(q), Key(r)) => ~Precedes(Key(r), Key(q))
         /\ Precedes(Key(q), Key(r)) /\ Precedes(Key(r), Key(s)) => Precedes(Key(q), Key(s))
         /\ q # r => Precedes(Key(q), Key(r)) \/ Precedes(Key(r), Key(q))
<1>1. Key(q).id = q /\ Key(r).id = r BY KeyType
<1>2. /\ Key(q).time \in Nat /\ Key(q).id \in Nat
      /\ Key(r).time \in Nat /\ Key(r).id \in Nat
      /\ Key(s).time \in Nat /\ Key(s).id \in Nat
  BY KeyType
<1> QED BY <1>1, <1>2, PrecedesOrder

-----------------------------------------------------------------------------
(* ORDER BY                                                                  *)

(* A row with an older one has fewer newer rows than that.                   *)
LEMMA NewerFewer ==
  ASSUME NEW rows \in SUBSET Rows, IsFiniteSet(rows), NEW q \in rows, NEW r \in rows,
         Precedes(Key(q), Key(r))
  PROVE  Cardinality(Newer(rows, r)) < Cardinality(Newer(rows, q))
<1>1. Newer(rows, r) \subseteq Newer(rows, q) BY RowsOrder DEF Newer
<1>2. r \in Newer(rows, q) /\ r \notin Newer(rows, r) BY RowsOrder DEF Newer
<1>3. IsFiniteSet(Newer(rows, q)) BY FS_Subset DEF Newer
<1>4. /\ Cardinality(Newer(rows, r)) <= Cardinality(Newer(rows, q))
      /\ Cardinality(Newer(rows, q)) # Cardinality(Newer(rows, r))
  BY <1>1, <1>2, <1>3, FS_Subset
<1>5. IsFiniteSet(Newer(rows, r)) BY <1>1, <1>3, FS_Subset
<1>6. Cardinality(Newer(rows, r)) \in Nat /\ Cardinality(Newer(rows, q)) \in Nat
  BY <1>3, <1>5, FS_CardinalityType
<1> QED BY <1>4, <1>6

(* Every number up to that of the rows is the place of one row.              *)
LEMMA Places ==
  ASSUME NEW rows \in SUBSET Rows, IsFiniteSet(rows)
  PROVE  /\ Cardinality(rows) \in Nat
         /\ \A r \in rows : Cardinality(Newer(rows, r)) \in 0..(Cardinality(rows) - 1)
         /\ \A i \in 1..Cardinality(rows) :
              \E r \in rows : Cardinality(Newer(rows, r)) = i - 1
<1> DEFINE n == Cardinality(rows)
           place == [r \in rows |-> Cardinality(Newer(rows, r))]
<1>1. n \in Nat BY FS_CardinalityType
<1>2. ASSUME NEW r \in rows PROVE Cardinality(Newer(rows, r)) \in 0..(n - 1)
  <2>1. Newer(rows, r) \subseteq rows \ {r} BY RowsOrder DEF Newer
  <2>2. IsFiniteSet(rows \ {r}) /\ Cardinality(rows \ {r}) = n - 1 BY FS_RemoveElement
  <2>3. IsFiniteSet(Newer(rows, r)) /\ Cardinality(Newer(rows, r)) <= n - 1
    BY <2>1, <2>2, FS_Subset
  <2>4. Cardinality(Newer(rows, r)) \in Nat BY <2>3, FS_CardinalityType
  <2> QED BY <1>1, <2>3, <2>4
<1>3. place \in [rows -> 0..(n - 1)] BY <1>2
<1>4. ASSUME NEW q \in rows, NEW r \in rows, place[q] = place[r] PROVE q = r
  <2> SUFFICES ASSUME q # r PROVE FALSE OBVIOUS
  <2>1. Precedes(Key(q), Key(r)) \/ Precedes(Key(r), Key(q)) BY RowsOrder
  <2>2. place[q] \in Int /\ place[r] \in Int BY <1>2
  <2>3. place[r] < place[q] \/ place[q] < place[r] BY <2>1, NewerFewer
  <2> HIDE DEF place
  <2> QED BY <1>4, <2>2, <2>3
<1>5. place \in Injection(rows, 0..(n - 1)) BY <1>3, <1>4 DEF Injection, IsInjective
<1>6. Cardinality(0..(n - 1)) = n BY <1>1, FS_Interval
<1>7. place \in Surjection(rows, 0..(n - 1))
  <2> DEFINE T == 0..(n - 1)
  <2>1. IsFiniteSet(T) /\ Cardinality(rows) = Cardinality(T) BY <1>1, <1>6, FS_Interval
  <2>2. place \in Injection(rows, T) BY <1>5
  <2> HIDE DEF place, n, T
  <2>3. place \in Surjection(rows, T) BY <2>1, <2>2, FS_Injection
  <2> QED BY <2>3 DEF T
<1>8. ASSUME NEW i \in 1..n PROVE \E r \in rows : place[r] = i - 1
  <2>1. i - 1 \in 0..(n - 1) BY <1>1
  <2> HIDE DEF place
  <2> QED BY <1>7, <2>1 DEF Surjection
<1> QED BY <1>1, <1>2, <1>8

(* RowAt counts the rows from the newest, and reaches all of them.           *)
LEMMA RowAtFacts ==
  ASSUME NEW rows \in SUBSET Rows, IsFiniteSet(rows)
  PROVE  /\ \A i \in 1..Cardinality(rows) : RowAt(rows, i) \in rows
         /\ \A i, j \in 1..Cardinality(rows) :
              i < j => Precedes(Key(RowAt(rows, j)), Key(RowAt(rows, i)))
         /\ \A r \in rows : \E i \in 1..Cardinality(rows) : r = RowAt(rows, i)
<1> DEFINE n == Cardinality(rows)
           place(r) == Cardinality(Newer(rows, r))
<1>1. n \in Nat /\ \A r \in rows : place(r) \in 0..(n - 1) BY Places
<1>2. ASSUME NEW i \in 1..n PROVE RowAt(rows, i) \in rows /\ place(RowAt(rows, i)) = i - 1
  <2>1. \E r \in rows : Cardinality(Newer(rows, r)) = i - 1 BY Places
  <2> QED BY <2>1 DEF RowAt
<1>3. ASSUME NEW i \in 1..n, NEW j \in 1..n, i < j
      PROVE  Precedes(Key(RowAt(rows, j)), Key(RowAt(rows, i)))
  <2> DEFINE r == RowAt(rows, i)
             q == RowAt(rows, j)
  <2>1. r \in rows /\ q \in rows /\ place(r) = i - 1 /\ place(q) = j - 1 BY <1>2
  <2> HIDE DEF r, q
  <2>2. r # q BY <1>1, <1>3, <2>1
  <2>3. Precedes(Key(r), Key(q)) => FALSE
    <3>1. Precedes(Key(r), Key(q)) => place(q) < place(r) BY <2>1, NewerFewer
    <3> HIDE DEF place
    <3> QED BY <1>1, <1>3, <2>1, <3>1
  <2>4. Precedes(Key(q), Key(r)) BY <2>1, <2>2, <2>3, RowsOrder
  <2> QED BY <2>4 DEF r, q
<1>4. ASSUME NEW r \in rows PROVE \E i \in 1..n : r = RowAt(rows, i)
  <2> DEFINE i == place(r) + 1
             q == RowAt(rows, i)
  <2>1. i \in 1..n BY <1>1
  <2>2. q \in rows /\ place(q) = i - 1 BY <1>2, <2>1
  <2>3. place(q) = place(r) BY <1>1, <2>2
  <2>4. place(q) \in Int /\ place(r) \in Int BY <1>1, <2>2
  <2> HIDE DEF q
  <2>5. Precedes(Key(q), Key(r)) => place(r) < place(q) BY <2>2, NewerFewer
  <2>6. Precedes(Key(r), Key(q)) => place(q) < place(r) BY <2>2, NewerFewer
  <2> HIDE DEF place
  <2>7. q = r BY <2>2, <2>3, <2>4, <2>5, <2>6, RowsOrder
  <2> QED BY <2>1, <2>7 DEF q, i
<1> QED BY <1>2, <1>3, <1>4
-----------------------------------------------------------------------------
(* LIMIT                                                                     *)

(* The response to a request: its rows and its next_cursor.                  *)
Page(action, from) == Cut(Query(action, from))
Successor(action, from) == NextCursor(Query(action, from))

(* A cursor at the key of a row, or after it in the order of the listing.    *)
AtOrAfter(from, r) ==
  (from.time = Key(r).time /\ from.id = r) \/ Precedes(from, Key(r))

(* The rows of a page are those asked for, the newest first.                 *)
LEMMA PageRows ==
  ASSUME NEW action, NEW from, stored \subseteq Rows, IsFiniteSet(stored)
  PROVE  /\ Page(action, from) \in Seq(Asked(action, from))
         /\ Len(Page(action, from)) = Lesser(Limit, Cardinality(Asked(action, from)))
         /\ Len(Page(action, from)) \in Nat
         /\ \A i \in 1..Len(Page(action, from)) :
              Page(action, from)[i] = RowAt(Asked(action, from), i)
         /\ \A k, l \in 1..Len(Page(action, from)) :
              k < l => Precedes(Key(Page(action, from)[l]), Key(Page(action, from)[k]))
<1> DEFINE rows == Asked(action, from)
           n == Cardinality(rows)
           query == Query(action, from)
           page == Page(action, from)
<1>1. rows \in SUBSET Rows /\ IsFiniteSet(rows) BY FS_Subset DEF Asked
<1>2. n \in Nat BY <1>1, FS_CardinalityType
<1>3. /\ \A i \in 1..n : RowAt(rows, i) \in rows
      /\ \A i, j \in 1..n : i < j => Precedes(Key(RowAt(rows, j)), Key(RowAt(rows, i)))
  <2> HIDE DEF rows
  <2> QED BY <1>1, RowAtFacts
<1>4. query = [i \in 1..Lesser(Limit + 1, n) |-> RowAt(rows, i)] BY DEF Query
<1> HIDE DEF rows, n, query
<1>5. query \in Seq(rows) /\ Len(query) = Lesser(Limit + 1, n)
  BY <1>2, <1>3, <1>4, ListingAssumption DEF Lesser
<1>6. page = SubSeq(query, 1, Lesser(Limit, n))
  <2>1. Lesser(Limit, Len(query)) = Lesser(Limit, n)
    BY <1>2, <1>5, ListingAssumption DEF Lesser
  <2> QED BY <2>1 DEF Page, Cut, query
<1>7. /\ page \in Seq(rows) /\ Len(page) = Lesser(Limit, n)
      /\ \A i \in 1..Len(page) : page[i] = RowAt(rows, i)
  <2> HIDE DEF page
  <2> QED BY <1>2, <1>4, <1>5, <1>6, ListingAssumption DEF Lesser
<1>8. 1..Len(page) \subseteq 1..n BY <1>2, <1>7, ListingAssumption DEF Lesser
<1>9. Len(page) \in Nat BY <1>2, <1>7, ListingAssumption DEF Lesser
<1> HIDE DEF page
<1>10. \A k, l \in 1..Len(page) : k < l => Precedes(Key(page[l]), Key(page[k]))
  BY <1>3, <1>7, <1>8
<1> QED BY <1>7, <1>9, <1>10 DEF page, rows, n

(* Without a successor the page has all the rows that were asked for.        *)
LEMMA LastPage ==
  ASSUME NEW action, NEW from, stored \subseteq Rows, IsFiniteSet(stored),
         Cardinality(Asked(action, from)) <= Limit
  PROVE  /\ Successor(action, from) = Bottom
         /\ Asked(action, from) \subseteq Range(Page(action, from))
<1> DEFINE rows == Asked(action, from)
           n == Cardinality(rows)
           page == Page(action, from)
<1>1. rows \in SUBSET Rows /\ IsFiniteSet(rows) BY FS_Subset DEF Asked
<1>2. n \in Nat BY <1>1, FS_CardinalityType
<1>3. /\ page \in Seq(rows) /\ Len(page) = Lesser(Limit, n)
      /\ \A i \in 1..Len(page) : page[i] = RowAt(rows, i)
  BY PageRows
<1>4. Len(page) = n BY <1>2, <1>3, ListingAssumption DEF Lesser
<1>5. \A r \in rows : \E i \in 1..n : r = RowAt(rows, i)
  <2> HIDE DEF rows
  <2> QED BY <1>1, RowAtFacts
<1>6. Len(Query(action, from)) = Lesser(Limit + 1, n)
  <2>1. Query(action, from) = [i \in 1..Lesser(Limit + 1, n) |-> RowAt(rows, i)] BY DEF Query
  <2>2. Lesser(Limit + 1, n) \in Nat BY <1>2, ListingAssumption DEF Lesser
  <2> QED BY <2>1, <2>2
<1>7. Successor(action, from) = Bottom
  BY <1>2, <1>6, ListingAssumption DEF Successor, NextCursor, Lesser
<1>8. DOMAIN page = 1..n BY <1>3, <1>4
<1> HIDE DEF rows, n, page
<1>9. rows \subseteq Range(page) BY <1>3, <1>4, <1>5, <1>8 DEF Range
<1> QED BY <1>7, <1>9 DEF rows, page

(* With one, the page is full, its cursor is the key of its last row, and    *)
(* the rows that are not in it come after that; there are some.              *)
LEMMA FullPage ==
  ASSUME NEW action, NEW from, stored \subseteq Rows, IsFiniteSet(stored),
         Cardinality(Asked(action, from)) > Limit
  PROVE  /\ Successor(action, from) \in Cursors
         /\ Page(action, from) # << >>
         /\ \A r \in Range(Page(action, from)) : AtOrAfter(Successor(action, from), r)
         /\ \A r \in Asked(action, from) :
              r \in Range(Page(action, from)) \/ Precedes(Key(r), Successor(action, from))
         /\ \E r \in Asked(action, from) : Precedes(Key(r), Successor(action, from))
<1> DEFINE rows == Asked(action, from)
           n == Cardinality(rows)
           query == Query(action, from)
           page == Page(action, from)
           next == Successor(action, from)
           last == RowAt(rows, Limit)
<1>1. rows \in SUBSET Rows /\ IsFiniteSet(rows) BY FS_Subset DEF Asked
<1>2. n \in Nat /\ n > Limit BY <1>1, FS_CardinalityType
<1>3. /\ page \in Seq(rows) /\ Len(page) = Lesser(Limit, n)
      /\ \A i \in 1..Len(page) : page[i] = RowAt(rows, i)
  BY PageRows
<1>4. Len(page) = Limit BY <1>2, <1>3, ListingAssumption DEF Lesser
<1>5. /\ \A i \in 1..n : RowAt(rows, i) \in rows
      /\ \A i, j \in 1..n : i < j => Precedes(Key(RowAt(rows, j)), Key(RowAt(rows, i)))
      /\ \A r \in rows : \E i \in 1..n : r = RowAt(rows, i)
  <2> HIDE DEF rows
  <2> QED BY <1>1, RowAtFacts
<1>6. query = [i \in 1..(Limit + 1) |-> RowAt(rows, i)]
  BY <1>2, ListingAssumption DEF Query, Lesser
<1>7. Len(query) = Limit + 1 /\ query[Limit] = last BY <1>6, ListingAssumption
<1>8. next = ThroughToken(CursorOf(last))
  BY <1>7, ListingAssumption DEF Successor, NextCursor
<1>9. last \in rows BY <1>2, <1>5, ListingAssumption
<1> HIDE DEF rows, n, query, page, next, last
<1>10. next \in Cursors /\ next.time = Key(last).time /\ next.id = last
  BY <1>1, <1>8, <1>9, KeyType
<1>11. /\ next.time \in Nat /\ next.id \in Nat
       /\ Key(last).time \in Nat /\ Key(last).id = next.id
  BY <1>1, <1>9, <1>10, KeyType
<1>12. \A k : /\ Precedes(Key(last), k) <=> Precedes(next, k)
              /\ Precedes(k, Key(last)) <=> Precedes(k, next)
  BY <1>10, <1>11 DEF Precedes
<1>13. DOMAIN page = 1..Limit BY <1>3, <1>4
<1>14. page # << >> BY <1>4, ListingAssumption
<1>15. ASSUME NEW r \in Range(page) PROVE AtOrAfter(next, r)
  <2>1. PICK i \in 1..Limit : r = page[i] BY <1>13 DEF Range
  <2>2. r = RowAt(rows, i) /\ i \in 1..n /\ Limit \in 1..n
    BY <1>2, <1>3, <1>4, <2>1, ListingAssumption
  <2>3. CASE i = Limit BY <1>10, <2>2, <2>3 DEF AtOrAfter, last
  <2>4. CASE i # Limit
    <3>1. Precedes(Key(last), Key(r)) BY <1>5, <2>2, <2>4, ListingAssumption DEF last
    <3> QED BY <1>12, <3>1 DEF AtOrAfter
  <2> QED BY <2>3, <2>4
<1>16. ASSUME NEW r \in rows PROVE r \in Range(page) \/ Precedes(Key(r), next)
  <2>1. PICK i \in 1..n : r = RowAt(rows, i) BY <1>5
  <2>2. CASE i <= Limit
    <3>1. i \in DOMAIN page /\ r = page[i] BY <1>3, <1>4, <1>13, <2>1, <2>2, ListingAssumption
    <3> QED BY <3>1 DEF Range
  <2>3. CASE i > Limit
    <3>1. Precedes(Key(r), Key(last))
      BY <1>2, <1>5, <2>1, <2>3, ListingAssumption DEF last
    <3> QED BY <1>12, <3>1
  <2> QED BY <1>2, <2>2, <2>3, ListingAssumption
<1>17. \E r \in rows : Precedes(Key(r), next)
  <2>1. Limit \in 1..n /\ Limit + 1 \in 1..n /\ Limit < Limit + 1 BY <1>2, ListingAssumption
  <2>2. Precedes(Key(RowAt(rows, Limit + 1)), Key(last)) BY <1>5, <2>1 DEF last
  <2> QED BY <1>5, <1>12, <2>1, <2>2
<1> QED BY <1>10, <1>14, <1>15, <1>16, <1>17 DEF rows, page, next
-----------------------------------------------------------------------------
(* The inductive invariant                                                   *)

(* As long as there is a cursor, it is at the last of the rows returned, no  *)
(* page is empty, and a row that was asked for comes after it.               *)
CursorInv ==
  cursor \in Cursors =>
    /\ \A i \in DOMAIN pages : pages[i] # << >>
    /\ \A r \in Returned : AtOrAfter(cursor, r)
    /\ \E r \in Asked(filter, cursor) : TRUE

(* A row that was there at the start has been returned or comes after the    *)
(* cursor.                                                                   *)
StartInv ==
  \A r \in atStart :
    filter \in {"", Action[r]} =>
      r \in Returned \/ (cursor \in Cursors /\ Precedes(Key(r), cursor))

IInv ==
  /\ TypeOK /\ IsFiniteSet(stored)
  /\ CursorInv /\ StartInv
  /\ WalkDescends /\ NothingMissed /\ NoEmptyPage

(* The three kinds of cursors are apart.                                     *)
LEMMA CursorKinds == Top \notin Cursors /\ Bottom \notin Cursors /\ Top # Bottom
BY DEF Top, Bottom, Cursors

(* What a response tells of the rows that were asked for.                    *)
LEMMA Response ==
  ASSUME NEW action, NEW from, stored \subseteq Rows, IsFiniteSet(stored)
  PROVE  LET page == Page(action, from)
             next == Successor(action, from)
         IN  /\ page \in Seq(Asked(action, from)) /\ Len(page) \in Nat /\ Len(page) <= Limit
             /\ Range(page) \subseteq Asked(action, from)
             /\ next \in Cursors \cup {Bottom}
             /\ page = << >> => Asked(action, from) = {}
             /\ \A r \in Asked(action, from) :
                  r \in Range(page) \/ (next \in Cursors /\ Precedes(Key(r), next))
             /\ next \in Cursors =>
                  /\ page # << >>
                  /\ \A r \in Range(page) : AtOrAfter(next, r)
                  /\ \E r \in Asked(action, from) : Precedes(Key(r), next)
<1> DEFINE rows == Asked(action, from)
           n == Cardinality(rows)
           page == Page(action, from)
           next == Successor(action, from)
<1>1. IsFiniteSet(rows) BY FS_Subset DEF Asked
<1>2. n \in Nat /\ (n = 0 => rows = {}) BY <1>1, FS_CardinalityType, FS_EmptySet
<1>3. page \in Seq(rows) /\ Len(page) = Lesser(Limit, n) BY PageRows
<1>4. n <= Limit => next = Bottom /\ rows \subseteq Range(page) BY LastPage
<1>5. n > Limit =>
        /\ next \in Cursors
        /\ page # << >>
        /\ \A r \in Range(page) : AtOrAfter(next, r)
        /\ \A r \in rows : r \in Range(page) \/ Precedes(Key(r), next)
        /\ \E r \in rows : Precedes(Key(r), next)
  BY FullPage
<1>6. n <= Limit \/ n > Limit BY <1>2, ListingAssumption
<1> HIDE DEF rows, n, page, next
<1>7. Len(page) \in Nat /\ Len(page) <= Limit BY <1>2, <1>3, ListingAssumption DEF Lesser
<1>8. Range(page) \subseteq rows BY <1>3 DEF Range
<1>9. page = << >> => rows = {} BY <1>2, <1>3, ListingAssumption DEF Lesser
<1> QED BY <1>3, <1>4, <1>5, <1>6, <1>7, <1>8, <1>9, CursorKinds DEF rows, page, next

(* The initial state satisfies the invariant.                                *)
LEMMA InitIInv == Init => IInv
<1> SUFFICES ASSUME Init PROVE IInv OBVIOUS
<1> USE DEF Init
<1>1. TypeOK BY DEF TypeOK
<1>2. IsFiniteSet(stored) BY FS_EmptySet
<1>3. CursorInv /\ StartInv BY CursorKinds DEF CursorInv, StartInv
<1>4. Returned = {} /\ ~Done BY CursorKinds DEF Returned, Done
<1>5. WalkDescends /\ NothingMissed /\ NoEmptyPage
  BY <1>4 DEF WalkDescends, NothingMissed, NoEmptyPage
<1> QED BY <1>1, <1>2, <1>3, <1>5 DEF IInv

(* A step that changes nothing keeps the invariant.                          *)
LEMMA StutterIInv == IInv /\ UNCHANGED vars => IInv'
<1> SUFFICES ASSUME IInv, UNCHANGED vars PROVE IInv' OBVIOUS
<1> USE DEF IInv, vars
<1>1. Returned' = Returned /\ Asked(filter, cursor)' = Asked(filter, cursor)
  BY DEF Returned, Asked
<1>2. TypeOK' /\ IsFiniteSet(stored') BY DEF TypeOK
<1>3. CursorInv' BY <1>1 DEF CursorInv
<1>4. StartInv' BY <1>1 DEF StartInv
<1>5. WalkDescends' /\ NoEmptyPage' BY DEF WalkDescends, NoEmptyPage
<1>6. NothingMissed' BY <1>1 DEF NothingMissed, Done
<1> QED BY <1>2, <1>3, <1>4, <1>5, <1>6

(* A transaction that commits keeps the invariant.                           *)
LEMMA CommitIInv == ASSUME IInv, NEW r \in Rows, Commit(r) PROVE IInv'
<1> USE DEF IInv, Commit
<1>1. TypeOK'
  <2>1. Seq(stored) \subseteq Seq(stored') OBVIOUS
  <2>2. pages \in Seq(Seq(stored')) BY <2>1 DEF TypeOK
  <2> QED BY <2>2 DEF TypeOK
<1>2. IsFiniteSet(stored') BY FS_AddElement
<1>3. Returned' = Returned BY DEF Returned
<1>4. Asked(filter, cursor) \subseteq Asked(filter, cursor)' BY DEF Asked
<1>5. CursorInv' BY <1>3, <1>4 DEF CursorInv
<1>6. StartInv' BY <1>3 DEF StartInv
<1>7. WalkDescends' /\ NoEmptyPage' BY DEF WalkDescends, NoEmptyPage
<1>8. NothingMissed' BY <1>3 DEF NothingMissed, Done
<1> QED BY <1>1, <1>2, <1>5, <1>6, <1>7, <1>8

(* The first page keeps the invariant.                                       *)
LEMMA FirstPageIInv == ASSUME IInv, NEW action \in Filters, FirstPage(action) PROVE IInv'
<1> DEFINE page == Page(action, Top)
           rows == Asked(action, Top)
<1>1. /\ filter' = action /\ pages' = <<page>> /\ cursor' = Successor(action, Top)
      /\ atStart' = stored /\ stored' = stored
  BY DEF FirstPage, Page, Successor
<1>2. stored \subseteq Rows /\ IsFiniteSet(stored) BY DEF IInv, TypeOK
<1>3. rows = {r \in stored : action \in {"", Action[r]}} BY DEF Asked
<1>4. /\ page \in Seq(rows) /\ Len(page) \in Nat /\ Len(page) <= Limit
      /\ Range(page) \subseteq rows
      /\ cursor' \in Cursors \cup {Bottom}
      /\ \A r \in rows : r \in Range(page) \/ (cursor' \in Cursors /\ Precedes(Key(r), cursor'))
      /\ cursor' \in Cursors =>
           /\ page # << >>
           /\ \A r \in Range(page) : AtOrAfter(cursor', r)
           /\ \E r \in rows : Precedes(Key(r), cursor')
  BY <1>1, <1>2, Response
<1>5. \A k, l \in 1..Len(page) : k < l => Precedes(Key(page[l]), Key(page[k]))
  BY <1>2, PageRows
<1> HIDE DEF page, rows
<1>6. DOMAIN page = 1..Len(page) BY <1>4
<1>7. DOMAIN pages' = {1} /\ pages'[1] = page /\ Len(pages') = 1 BY <1>1
<1>8. Returned' = Range(page) BY <1>7 DEF Returned
<1>9. TypeOK'
  <2>1. page \in Seq(stored)
    <3>1. rows \subseteq stored BY <1>3
    <3>2. Seq(rows) \subseteq Seq(stored) BY <3>1
    <3> QED BY <1>4, <3>2
  <2>2. pages' \in Seq(Seq(stored')) BY <1>1, <2>1
  <2> QED BY <1>1, <1>2, <1>4, <1>7, <2>2 DEF TypeOK
<1>10. CursorInv'
  <2>1. cursor' \in Cursors => \E r \in Asked(filter, cursor)' : TRUE
    BY <1>1, <1>3, <1>4 DEF Asked
  <2> QED BY <1>4, <1>7, <1>8, <2>1 DEF CursorInv
<1>11. StartInv' BY <1>1, <1>3, <1>4, <1>8 DEF StartInv
<1>12. WalkDescends' BY <1>5, <1>6, <1>7 DEF WalkDescends
<1>13. NothingMissed'
  <2>1. rows \subseteq {r \in Rows : filter' \in {"", Action[r]}} BY <1>1, <1>2, <1>3
  <2>2. Done' => atStart' \cap {r \in Rows : filter' \in {"", Action[r]}} \subseteq Returned'
    BY <1>11, CursorKinds DEF StartInv, Done
  <2> QED BY <1>4, <1>8, <2>1, <2>2 DEF NothingMissed
<1>14. NoEmptyPage' BY <1>7 DEF NoEmptyPage
<1> QED BY <1>1, <1>2, <1>9, <1>10, <1>11, <1>12, <1>13, <1>14 DEF IInv

(* A row before the cursor comes after the rows at the cursor or before it.  *)
LEMMA CursorBetween ==
  ASSUME NEW from \in Cursors, NEW q \in Rows, NEW r \in Rows,
         AtOrAfter(from, q), Precedes(Key(r), from)
  PROVE  Precedes(Key(r), Key(q))
<1>1. /\ from.time \in Nat /\ from.id \in Nat
      /\ Key(q).time \in Nat /\ Key(q).id = q /\ q \in Nat
      /\ Key(r).time \in Nat /\ Key(r).id \in Nat
  BY KeyType, ListingAssumption DEF Cursors
<1> QED BY <1>1 DEF AtOrAfter, Precedes

(* A cursor before a row is before the rows after that.                      *)
LEMMA CursorMoves ==
  ASSUME NEW from \in Cursors, NEW q \in Rows, NEW r \in Rows,
         AtOrAfter(from, r), Precedes(Key(r), Key(q))
  PROVE  AtOrAfter(from, q)
<1>1. /\ from.time \in Nat /\ from.id \in Nat
      /\ Key(q).time \in Nat /\ Key(q).id = q /\ q \in Nat
      /\ Key(r).time \in Nat /\ Key(r).id = r /\ r \in Nat
  BY KeyType, ListingAssumption DEF Cursors
<1> QED BY <1>1 DEF AtOrAfter, Precedes

(* The next page keeps the invariant.                                        *)
LEMMA NextPageIInv == ASSUME IInv, NextPage PROVE IInv'
<1> DEFINE page == Page(filter, cursor)
           rows == Asked(filter, cursor)
<1>1. /\ cursor \in Cursors /\ pages' = Append(pages, page)
      /\ cursor' = Successor(filter, cursor)
      /\ filter' = filter /\ atStart' = atStart /\ stored' = stored
  BY DEF NextPage, Page, Successor
<1>2. TypeOK /\ stored \subseteq Rows /\ IsFiniteSet(stored) BY DEF IInv, TypeOK
<1>3. rows = {r \in stored : filter \in {"", Action[r]} /\ Precedes(Key(r), cursor)}
  BY <1>1, CursorKinds DEF Asked
<1>4. /\ page \in Seq(rows) /\ Len(page) \in Nat /\ Len(page) <= Limit
      /\ Range(page) \subseteq rows
      /\ cursor' \in Cursors \cup {Bottom}
      /\ page = << >> => rows = {}
      /\ \A r \in rows : r \in Range(page) \/ (cursor' \in Cursors /\ Precedes(Key(r), cursor'))
      /\ cursor' \in Cursors =>
           /\ page # << >>
           /\ \A r \in Range(page) : AtOrAfter(cursor', r)
           /\ \E r \in rows : Precedes(Key(r), cursor')
  BY <1>1, <1>2, Response
<1>5. \A k, l \in 1..Len(page) : k < l => Precedes(Key(page[l]), Key(page[k]))
  BY <1>2, PageRows
<1>6. /\ \A i \in DOMAIN pages : pages[i] # << >>
      /\ \A r \in Returned : AtOrAfter(cursor, r)
      /\ \E r \in rows : TRUE
  BY <1>1 DEF IInv, CursorInv
<1> HIDE DEF page, rows
<1>7. DOMAIN page = 1..Len(page) BY <1>4
<1>8. /\ Len(pages) \in Nat /\ DOMAIN pages = 1..Len(pages)
      /\ DOMAIN pages' = 1..(Len(pages) + 1) /\ Len(pages') = Len(pages) + 1
      /\ pages'[Len(pages) + 1] = page
      /\ \A i \in 1..Len(pages) : pages'[i] = pages[i]
  BY <1>1, <1>2 DEF TypeOK
<1>9. Returned' = Returned \cup Range(page)
  BY <1>8 DEF Returned
<1>10. Returned \subseteq Rows
  BY <1>2 DEF IInv, NothingMissed
<1>11. ASSUME NEW q \in Returned, NEW r \in rows PROVE Precedes(Key(r), Key(q))
  <2>1. q \in Rows /\ r \in Rows /\ AtOrAfter(cursor, q) /\ Precedes(Key(r), cursor)
    BY <1>2, <1>3, <1>6, <1>10
  <2> QED BY <1>1, <2>1, CursorBetween
<1>12. TypeOK'
  <2>1. page \in Seq(stored)
    <3>1. rows \subseteq stored BY <1>3
    <3>2. Seq(rows) \subseteq Seq(stored) BY <3>1
    <3> QED BY <1>4, <3>2
  <2>2. pages' \in Seq(Seq(stored')) BY <1>1, <1>2, <2>1 DEF TypeOK
  <2>3. \A i \in DOMAIN pages' : Len(pages'[i]) <= Limit
    BY <1>2, <1>4, <1>8 DEF TypeOK
  <2> QED BY <1>1, <1>2, <1>4, <2>2, <2>3 DEF TypeOK
<1>13. CursorInv'
  <2> SUFFICES ASSUME cursor' \in Cursors
               PROVE  /\ \A i \in DOMAIN pages' : pages'[i] # << >>
                      /\ \A r \in Returned' : AtOrAfter(cursor', r)
                      /\ \E r \in Asked(filter, cursor)' : TRUE
    BY DEF CursorInv
  <2>1. \A i \in DOMAIN pages' : pages'[i] # << >> BY <1>4, <1>6, <1>8
  <2>2. ASSUME NEW q \in Returned PROVE AtOrAfter(cursor', q)
    <3>1. PICK k \in 1..Len(page) : TRUE BY <1>4
    <3>2. page[k] \in Range(page) BY <1>7, <3>1 DEF Range
    <3>3. page[k] \in rows /\ page[k] \in Rows /\ AtOrAfter(cursor', page[k])
      BY <1>2, <1>3, <1>4, <3>2
    <3>4. Precedes(Key(page[k]), Key(q)) BY <1>11, <3>3
    <3> QED BY <1>10, <3>3, <3>4, CursorMoves
  <2>3. \E r \in Asked(filter, cursor)' : TRUE BY <1>1, <1>3, <1>4 DEF Asked
  <2> QED BY <1>4, <1>9, <2>1, <2>2, <2>3
<1>14. StartInv'
  <2> SUFFICES ASSUME NEW r \in atStart, filter \in {"", Action[r]}
               PROVE  r \in Returned' \/ (cursor' \in Cursors /\ Precedes(Key(r), cursor'))
    BY <1>1 DEF StartInv
  <2>1. r \in Returned \/ Precedes(Key(r), cursor) BY DEF IInv, StartInv
  <2>2. r \in stored BY <1>2 DEF TypeOK
  <2> QED BY <1>3, <1>4, <1>9, <2>1, <2>2
<1>15. WalkDescends'
  <2> SUFFICES ASSUME NEW i \in DOMAIN pages', NEW j \in DOMAIN pages',
                      NEW k \in DOMAIN pages'[i], NEW l \in DOMAIN pages'[j],
                      i < j \/ (i = j /\ k < l)
               PROVE  Precedes(Key(pages'[j][l]), Key(pages'[i][k]))
    BY DEF WalkDescends
  <2>1. CASE j \in 1..Len(pages)
    <3>1. i \in 1..Len(pages) BY <1>8, <2>1
    <3> QED BY <1>8, <2>1, <3>1 DEF IInv, WalkDescends
  <2>2. CASE i \in 1..Len(pages) /\ j = Len(pages) + 1
    <3>1. pages'[i][k] \in Returned BY <1>8, <2>2 DEF Returned, Range
    <3>2. pages'[j][l] \in rows BY <1>4, <1>8, <2>2 DEF Range
    <3> QED BY <1>11, <3>1, <3>2
  <2>3. CASE i = Len(pages) + 1 /\ j = Len(pages) + 1
    BY <1>5, <1>7, <1>8, <2>3
  <2> QED BY <1>8, <2>1, <2>2, <2>3
<1>16. NothingMissed'
  <2>1. rows \subseteq {r \in Rows : filter' \in {"", Action[r]}} BY <1>1, <1>2, <1>3
  <2>2. Returned \subseteq {r \in Rows : filter' \in {"", Action[r]}}
    BY <1>1 DEF IInv, NothingMissed
  <2>3. Done' => atStart' \cap {r \in Rows : filter' \in {"", Action[r]}} \subseteq Returned'
    BY <1>14, CursorKinds DEF StartInv, Done
  <2> QED BY <1>4, <1>9, <2>1, <2>2, <2>3 DEF NothingMissed
<1>17. NoEmptyPage' BY <1>4, <1>6, <1>8 DEF NoEmptyPage
<1> QED BY <1>1, <1>2, <1>12, <1>13, <1>14, <1>15, <1>16, <1>17 DEF IInv

-----------------------------------------------------------------------------
(* The theorems                                                              *)

(* The invariant holds in every reachable state.                             *)
THEOREM ListingInvariant == Spec => []IInv
<1>1. ASSUME IInv, Next PROVE IInv'
  BY <1>1, CommitIInv, FirstPageIInv, NextPageIInv DEF Next
<1> QED BY <1>1, InitIInv, StutterIInv, PTL DEF Spec

(* No page has more than Limit rows, and every row of one has committed.     *)
THEOREM TypeCorrect == Spec => []TypeOK
BY ListingInvariant, PTL DEF IInv

(* Rows come newest first by their columns over all pages of a walk, however *)
(* transactions commit between two pages.                                    *)
THEOREM Descends == Spec => []WalkDescends
BY ListingInvariant, PTL DEF IInv

(* A finished walk has returned every row of its filter that was there when  *)
(* it began.                                                                 *)
THEOREM Complete == Spec => []NothingMissed
BY ListingInvariant, PTL DEF IInv

(* A next_cursor is given only when the next page will have a row.           *)
THEOREM CursorsLead == Spec => []NoEmptyPage
BY ListingInvariant, PTL DEF IInv

(* No row is returned twice in a walk.                                       *)
EachRowOnce ==
  \A i, j \in DOMAIN pages : \A k \in DOMAIN pages[i], l \in DOMAIN pages[j] :
    pages[i][k] = pages[j][l] => i = j /\ k = l

(* That follows from the order of the walk.                                  *)
THEOREM NoRowTwice == Spec => []EachRowOnce
<1>1. ASSUME IInv PROVE EachRowOnce
  <2> SUFFICES ASSUME NEW i \in DOMAIN pages, NEW j \in DOMAIN pages,
                      NEW k \in DOMAIN pages[i], NEW l \in DOMAIN pages[j],
                      pages[i][k] = pages[j][l]
               PROVE  i = j /\ k = l
    BY DEF EachRowOnce
  <2>1. pages \in Seq(Seq(stored)) /\ stored \subseteq Rows BY <1>1 DEF IInv, TypeOK
  <2>2. i \in Nat /\ j \in Nat BY <2>1
  <2>3. pages[i] \in Seq(stored) /\ pages[j] \in Seq(stored) BY <2>1
  <2>4. k \in Nat /\ l \in Nat /\ pages[i][k] \in Rows BY <2>1, <2>3
  <2>5. ~Precedes(Key(pages[i][k]), Key(pages[i][k])) BY <2>4, RowsOrder
  <2>6. ~(i < j \/ (i = j /\ k < l)) /\ ~(j < i \/ (j = i /\ l < k))
    BY <1>1, <2>5 DEF IInv, WalkDescends
  <2> QED BY <2>2, <2>4, <2>6
<1> QED BY <1>1, ListingInvariant, PTL
=============================================================================
