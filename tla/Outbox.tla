------------------------------- MODULE Outbox -------------------------------
(* service.Outbox and Postgres.PublishOutbox: each replica polls the outbox  *)
(* table, claims a batch of unpublished rows in a database transaction,      *)
(* sends them to Kafka in id order and marks each one it sent.  The marks    *)
(* are visible to the other replicas once the transaction commits, and the   *)
(* claim is a row lock that lasts until the transaction ends.                *)
EXTENDS Integers, FiniteSets

CONSTANTS Replicas,
          NumRows,       \* bound on the rows of the table
          Limit,         \* rows in a batch (100 in the code)
          Poison,        \* rows that Kafka will never accept
          MaxFaults,     \* bound on crashes, stops and failed calls
          DatabaseFails  \* may the database fail a call on its own?

Rows == 1..NumRows

ASSUME OutboxAssumption ==
  /\ NumRows \in Nat
  /\ Limit \in Nat \ {0}
  /\ Poison \subseteq Rows
  /\ IsFiniteSet(Replicas)
  /\ MaxFaults \in Nat
  /\ DatabaseFails \in BOOLEAN

VARIABLES
  \* what outlives the replicas
  visible,    \* rows whose database transaction has committed
  copies,     \* copies[i]: how often row i has reached the topic
  published,  \* rows whose published_at is set
  \* a replica
  batch,      \* batch[r]: where flush is; the rows left to send and to mark,
              \* and those marked in its open transaction
  cancelled,  \* is the context of Run done?
  faults      \* how many faults there have been

table == <<visible, copies, published>>
vars == <<table, batch, cancelled, faults>>

Down == [at |-> "down", left |-> {}, marked |-> {}]
Waiting == [at |-> "wait", left |-> {}, marked |-> {}]
Open(step, left, marked) == [at |-> step, left |-> left, marked |-> marked]
Lost(i) == [at |-> "late", left |-> {i}, marked |-> {}]

InTransaction == {"publish", "mark", "commit"}

TypeOK ==
  /\ visible \subseteq Rows
  /\ copies \in [Rows -> Nat]
  /\ published \subseteq Rows
  /\ batch \in [Replicas -> {Down, Waiting} \cup {Lost(i) : i \in Rows} \cup
                 [at : InTransaction, left : SUBSET Rows, marked : SUBSET Rows]]
  /\ cancelled \in [Replicas -> BOOLEAN]
  /\ faults \in 0..MaxFaults

Init ==
  /\ visible = {}
  /\ copies = [i \in Rows |-> 0]
  /\ published = {}
  /\ batch = [r \in Replicas |-> Down]
  /\ cancelled = [r \in Replicas |-> FALSE]
  /\ faults = 0

-----------------------------------------------------------------------------
At(r, step) == batch[r].at = step
Becomes(r, b) == batch' = [batch EXCEPT ![r] = b]

Fault == faults < MaxFaults /\ faults' = faults + 1

(* Row locks: those of an ended transaction are gone. *)
Locked(r) == IF At(r, "late") THEN {} ELSE batch[r].left \cup batch[r].marked

(* The n lowest ids of S. *)
Lowest(S, n) == {i \in S : Cardinality({j \in S : j < i}) < n}

(* Store.Evaluate commits the row; ids are given out before that, so rows    *)
(* become visible in any order and some never do.                            *)
Append(i) ==
  /\ i \notin visible
  /\ visible' = visible \cup {i}
  /\ UNCHANGED <<copies, published, batch, cancelled, faults>>

Start(r) ==
  /\ At(r, "down")
  /\ Becomes(r, Waiting)
  /\ cancelled' = [cancelled EXCEPT ![r] = FALSE]
  /\ UNCHANGED <<table, faults>>

(* A signal, or the failure of another member of main's errgroup. *)
Cancel(r) ==
  /\ ~At(r, "down")
  /\ ~cancelled[r]
  /\ Fault
  /\ cancelled' = [cancelled EXCEPT ![r] = TRUE]
  /\ UNCHANGED <<table, batch>>

(* The process dies; Postgres rolls its transaction back. *)
Crash(r) ==
  /\ ~At(r, "down")
  /\ Fault
  /\ Becomes(r, Down)
  /\ UNCHANGED <<table, cancelled>>

(* Run returns from its select. *)
Stop(r) ==
  /\ At(r, "wait")
  /\ cancelled[r]
  /\ Becomes(r, Down)
  /\ UNCHANGED <<table, cancelled, faults>>

(* Mistaken variant: no FOR UPDATE SKIP LOCKED. *)
ClaimableUnlocked(r) == visible \ published

(* SELECT ... WHERE published_at IS NULL ORDER BY id LIMIT n                  *)
(* FOR UPDATE SKIP LOCKED, in a transaction just begun.                      *)
Claimable(r) ==
  (visible \ published) \ UNION {Locked(q) : q \in Replicas \ {r}}

Claim(r) ==
  /\ At(r, "wait")
  /\ ~cancelled[r]
  /\ Becomes(r, Open("publish", Lowest(Claimable(r), Limit), {}))
  /\ UNCHANGED <<table, cancelled, faults>>

(* Mistaken variant: a batch is sent from its last row. *)
IsNextDescending(r, i) == i \in batch[r].left /\ \A j \in batch[r].left : j <= i

(* The row of r's batch that is sent next. *)
IsNext(r, i) == i \in batch[r].left /\ \A j \in batch[r].left : i <= j

Sent(i) == copies' = [copies EXCEPT ![i] = @ + 1]

PublishSucceeds(r) ==
  /\ At(r, "publish")
  /\ \E i \in Rows \ Poison : IsNext(r, i) /\ Sent(i)
  /\ Becomes(r, [batch[r] EXCEPT !.at = "mark"])
  /\ UNCHANGED <<visible, published, cancelled, faults>>

(* Mistaken variant: a failure rolls the whole batch back. *)
PublishFailsAll(r) ==
  /\ At(r, "publish")
  /\ \E i \in Rows : IsNext(r, i) /\
       IF i \in Poison
       THEN UNCHANGED <<copies, faults>>
       ELSE /\ Sent(i) \/ UNCHANGED copies
            /\ Fault \/ (cancelled[r] /\ UNCHANGED faults)
  /\ Becomes(r, Waiting)
  /\ UNCHANGED <<visible, published, cancelled>>

(* Mistaken variant: the row is marked although it was not sent. *)
PublishFailsUnnoticed(r) ==
  /\ At(r, "publish")
  /\ \E i \in Rows : IsNext(r, i)
  /\ Becomes(r, [batch[r] EXCEPT !.at = "mark"])
  /\ UNCHANGED <<table, cancelled, faults>>

(* The batch ends early, with its marks kept.  The row may have reached the  *)
(* topic all the same.                                                       *)
PublishFails(r) ==
  /\ At(r, "publish")
  /\ \E i \in Rows : IsNext(r, i) /\
       IF i \in Poison
       THEN UNCHANGED <<copies, faults>>
       ELSE /\ Sent(i) \/ UNCHANGED copies
            /\ Fault \/ (cancelled[r] /\ UNCHANGED faults)
  /\ Becomes(r, [batch[r] EXCEPT !.at = "commit"])
  /\ UNCHANGED <<visible, published, cancelled>>

(* The server ends r's transaction, and with it r's claim, while r is inside *)
(* publish: r notices only when it next calls the database.                  *)
ClaimLost(r) ==
  /\ At(r, "publish")
  /\ DatabaseFails
  /\ Fault
  /\ \E i \in Rows : IsNext(r, i) /\ Becomes(r, Lost(i))
  /\ UNCHANGED <<table, cancelled>>

(* The row r was publishing may reach the topic, although another replica    *)
(* may by now have sent and marked it; the call to the database that follows *)
(* fails, whatever became of the row, and the batch ends.                    *)
PublishLate(r) ==
  /\ At(r, "late")
  /\ \E i \in Rows : IsNext(r, i) /\
       ((i \notin Poison /\ Sent(i)) \/ UNCHANGED copies)
  /\ Becomes(r, Waiting)
  /\ UNCHANGED <<visible, published, cancelled, faults>>

(* UPDATE outbox SET published_at; a call with a done context fails. *)
MarkSucceeds(r) ==
  /\ At(r, "mark")
  /\ ~cancelled[r]
  /\ \E i \in Rows : IsNext(r, i) /\
       Becomes(r, Open("publish", batch[r].left \ {i}, batch[r].marked \cup {i}))
  /\ UNCHANGED <<table, cancelled, faults>>

DatabaseFault(r) ==
  \/ DatabaseFails /\ Fault
  \/ cancelled[r] /\ UNCHANGED faults

(* Mistaken variant: no deferred Rollback, the locks stay. *)
MarkFailsUnclosed(r) ==
  /\ At(r, "mark")
  /\ DatabaseFault(r)
  /\ Becomes(r, [batch[r] EXCEPT !.at = "wait"])
  /\ UNCHANGED <<table, cancelled>>

(* The deferred Rollback takes every mark of the batch back. *)
MarkFails(r) ==
  /\ At(r, "mark")
  /\ DatabaseFault(r)
  /\ Becomes(r, Waiting)
  /\ UNCHANGED <<table, cancelled>>

AtEnd(r) == At(r, "commit") \/ (At(r, "publish") /\ batch[r].left = {})

CommitSucceeds(r) ==
  /\ AtEnd(r)
  /\ ~cancelled[r]
  /\ published' = published \cup batch[r].marked
  /\ Becomes(r, Waiting)
  /\ UNCHANGED <<visible, copies, cancelled, faults>>

(* Commit reports an error; the server may have executed it nevertheless. *)
CommitFails(r) ==
  /\ AtEnd(r)
  /\ DatabaseFault(r)
  /\ \/ UNCHANGED published
     \/ ~cancelled[r] /\ published' = published \cup batch[r].marked
  /\ Becomes(r, Waiting)
  /\ UNCHANGED <<visible, copies, cancelled>>

FlushStep(r) ==
  \/ Claim(r) \/ Stop(r)
  \/ PublishSucceeds(r) \/ PublishFails(r) \/ PublishLate(r)
  \/ MarkSucceeds(r) \/ MarkFails(r)
  \/ CommitSucceeds(r) \/ CommitFails(r)

Next ==
  \/ \E i \in Rows : Append(i)
  \/ \E r \in Replicas :
       Start(r) \/ Cancel(r) \/ Crash(r) \/ ClaimLost(r) \/ FlushStep(r)

Spec == Init /\ [][Next]_vars

(* The ticker fires and calls return; a replica that is down comes back. *)
FairSpec ==
  Spec /\ \A r \in Replicas : WF_vars(FlushStep(r)) /\ WF_vars(Start(r))

-----------------------------------------------------------------------------
(* A row is sent a second time only because something failed: neither the    *)
(* other replica, whose rows SKIP LOCKED leaves alone, nor a row that Kafka  *)
(* rejects, behind which the batch's marks are committed, sends it again.    *)
ResentOnlyAfterFault == \A i \in Rows : copies[i] <= 1 + faults

(* Steps of the loops are steps of a relay: publish, then mark; and a        *)
(* replica that lost its claim sends the one row it was at, once.            *)
Late(r, i) == At(r, "late") /\ i \in batch[r].left
LateClaims == {c \in Replicas \X Rows : Late(c[1], c[2])}
Promise == INSTANCE Relay WITH late <- LateClaims
PromiseKept == Promise!Spec

(* Why it is kept: two replicas never hold a row, no held row has been       *)
(* published, and a mark follows a send.                                     *)
ClaimsInv ==
  /\ \A r, q \in Replicas : r # q => Locked(r) \cap Locked(q) = {}
  /\ \A r \in Replicas : Locked(r) \subseteq visible \ published
  /\ \A r \in Replicas : \A i \in batch[r].marked : copies[i] > 0
  /\ \A r \in Replicas : batch[r].left \cap batch[r].marked = {}
  /\ \A r \in Replicas, i \in Rows : At(r, "mark") /\ IsNext(r, i) => copies[i] > 0

(* Rows that Kafka rejects hold up those behind them, but never those ahead: *)
(* a row with no such row before it is published in the end.                 *)
EventuallyPublished ==
  \A i \in Rows : (\A q \in Poison : i < q) =>
    (i \in visible ~> i \in published)

(* "The rows that already published are still committed as published" when   *)
(* a later row of the batch fails and the database does not.                 *)
FailureKeepsProgress ==
  [][\A r \in Replicas : At(r, "commit") /\ batch'[r] = Waiting
       => batch[r].marked \subseteq published']_vars
=============================================================================
