------------------------------ MODULE Listing ------------------------------
(* A client walks GET /v1/transactions page by page (listTransactions in     *)
(* httpapi, Postgres.ListTransactions) while transactions go on committing.  *)
(* The order is (occurred_at, transaction_id), newest first, and a page's    *)
(* cursor is the key of its last row.  A time is a number of nanoseconds in  *)
(* an event; its column keeps Micro's multiples.  A request that fails is    *)
(* made again and changes nothing.                                           *)
EXTENDS Integers, Sequences, FiniteSets, Functions

CONSTANTS Rows,       \* transactions, named by numbers that order their ids
          OccurredAt, \* OccurredAt[r]: the time in the event
          Action,     \* Action[r]: the recommended action of its assessment
          Filters,    \* actions a client asks for, the empty string for any
          Limit,      \* rows per page, which the handler keeps in 1..100
          Micro,      \* nanoseconds in a microsecond
          Second      \* nanoseconds in a second

ASSUME ListingAssumption ==
  /\ Rows \subseteq Nat
  /\ OccurredAt \in [Rows -> Nat]
  /\ Limit \in Nat \ {0}
  /\ Micro \in Nat \ {0}
  /\ Second \in Nat \ {0}

VARIABLES
  stored,  \* rows that have committed, each with its assessment (Store)
  filter,  \* the action of this walk, "none" before it starts
  cursor,  \* next_cursor of the last response
  pages,   \* the pages returned
  atStart  \* rows that had committed when the walk began (history variable)

vars == <<stored, filter, cursor, pages, atStart>>

Cursors == [at : {"row"}, time : Nat, id : Rows]
Top == [at |-> "top"]       \* no cursor was sent
Bottom == [at |-> "bottom"] \* the response's next_cursor was empty

TypeOK ==
  /\ stored \subseteq Rows
  /\ filter \in Filters \cup {"none"}
  /\ cursor \in Cursors \cup {Top, Bottom}
  /\ pages \in Seq(Seq(stored))
  /\ \A i \in DOMAIN pages : Len(pages[i]) <= Limit
  /\ atStart \subseteq stored

Init ==
  /\ stored = {}
  /\ filter = "none"
  /\ cursor = Top
  /\ pages = << >>
  /\ atStart = {}

-----------------------------------------------------------------------------
Lesser(m, n) == IF m < n THEN m ELSE n

Truncate(time, unit) == (time \div unit) * unit

(* The two columns of the index. *)
Key(r) == [time |-> Truncate(OccurredAt[r], Micro), id |-> r]

(* The row comparison (k.time, k.id) < (l.time, l.id). *)
Precedes(k, l) == k.time < l.time \/ (k.time = l.time /\ k.id < l.id)

(* Mistaken variant: the time as raw_event has it. *)
CursorFromJson(r) == [time |-> OccurredAt[r], id |-> r]

(* scanRecord reads the key back from the columns. *)
CursorOf(r) == Key(r)

(* Mistaken variant: RFC3339, without a fraction of the second. *)
ThroughSeconds(k) == [at |-> "row", time |-> Truncate(k.time, Second), id |-> k.id]

(* encodeCursor and decodeCursor: RFC3339Nano has nine digits of a second,   *)
(* and the id is everything behind the first "|".                            *)
ThroughToken(k) == [at |-> "row", time |-> Truncate(k.time, 1), id |-> k.id]

(* The WHERE of the query. *)
Asked(action, from) ==
  {r \in stored : action \in {"", Action[r]} /\ (from = Top \/ Precedes(Key(r), from))}

(* ORDER BY occurred_at DESC, transaction_id DESC: the i-th row is the one    *)
(* with i - 1 newer rows.                                                    *)
Newer(rows, r) == {q \in rows : Precedes(Key(r), Key(q))}
RowAt(rows, i) == CHOOSE r \in rows : Cardinality(Newer(rows, r)) = i - 1

(* At most Limit + 1 rows, the newest of those the query asks for. *)
Query(action, from) ==
  LET rows == Asked(action, from)
  IN  [i \in 1..Lesser(Limit + 1, Cardinality(rows)) |-> RowAt(rows, i)]

(* Mistaken variant: the row that only shows that there is more is returned. *)
Uncut(rows) == rows

(* The page without the row that only shows that there is more. *)
Cut(rows) == SubSeq(rows, 1, Lesser(Limit, Len(rows)))

(* Mistaken variant: a full page always has a successor. *)
NextCursorIfFull(rows) ==
  IF Len(rows) >= Limit THEN ThroughToken(CursorOf(rows[Limit])) ELSE Bottom

NextCursor(rows) ==
  IF Len(rows) > Limit THEN ThroughToken(CursorOf(rows[Limit])) ELSE Bottom

(* Evaluate commits a transaction, at any time and of any time. *)
Commit(r) ==
  /\ r \notin stored
  /\ stored' = stored \cup {r}
  /\ UNCHANGED <<filter, cursor, pages, atStart>>

FirstPage(action) ==
  /\ filter = "none"
  /\ filter' = action
  /\ pages' = <<Cut(Query(action, Top))>>
  /\ cursor' = NextCursor(Query(action, Top))
  /\ atStart' = stored
  /\ UNCHANGED stored

NextPage ==
  /\ cursor \in Cursors
  /\ pages' = Append(pages, Cut(Query(filter, cursor)))
  /\ cursor' = NextCursor(Query(filter, cursor))
  /\ UNCHANGED <<stored, filter, atStart>>

Next ==
  \/ \E r \in Rows : Commit(r)
  \/ \E action \in Filters : FirstPage(action)
  \/ NextPage

Spec == Init /\ [][Next]_vars

-----------------------------------------------------------------------------
Returned == UNION {Range(pages[i]) : i \in DOMAIN pages}
Done == cursor = Bottom

(* Over all pages rows come newest first by their columns, so none comes     *)
(* twice, although rows commit between the pages, ahead of the cursor,       *)
(* behind it and with its very time.                                         *)
WalkDescends ==
  \A i, j \in DOMAIN pages : \A k \in DOMAIN pages[i], l \in DOMAIN pages[j] :
    i < j \/ (i = j /\ k < l) => Precedes(Key(pages[j][l]), Key(pages[i][k]))

(* A finished walk has returned every row of its filter that was there when  *)
(* it began, and no row of another action.                                   *)
NothingMissed ==
  LET asked == {r \in Rows : filter \in {"", Action[r]}}
  IN  /\ Returned \subseteq asked
      /\ Done => atStart \cap asked \subseteq Returned

(* A page is empty only if the whole walk is: "next_cursor" is given only    *)
(* when there is more.  With WalkDescends this bounds the pages of a walk by  *)
(* the rows there are: no client goes round under one cursor for ever.       *)
NoEmptyPage == \A i \in DOMAIN pages : pages[i] = << >> => Len(pages) = 1
=============================================================================
