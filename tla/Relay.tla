------------------------------- MODULE Relay -------------------------------
(* What the outbox promises to those who read the topic, with no loop and no *)
(* batches in it: a row is sent only after the transaction that wrote it has *)
(* committed and only until it is marked, and is marked only once it has     *)
(* been sent.  So no row is dropped, and one that is marked is not sent      *)
(* again, but for the one row a replica was sending when it lost its claim,  *)
(* which may still arrive, once.                                             *)
EXTENDS Integers

CONSTANTS Replicas,
          Rows       \* ids of outbox rows

VARIABLES visible,   \* rows whose database transaction has committed
          copies,    \* copies[i]: how often row i has reached the topic
          published, \* rows whose published_at is set
          late       \* replicas without a claim, with the row on its way

vars == <<visible, copies, published, late>>

Init ==
  /\ visible = {}
  /\ copies = [i \in Rows |-> 0]
  /\ published = {}
  /\ late = {}

Append(i) ==
  /\ visible' = visible \cup {i}
  /\ UNCHANGED <<copies, published, late>>

Sent(i) == copies' = [copies EXCEPT ![i] = @ + 1]

Send(i) ==
  /\ i \in visible \ published
  /\ Sent(i)
  /\ UNCHANGED <<visible, published, late>>

Mark(S) ==
  /\ \A i \in S : copies[i] > 0
  /\ published' = published \cup S
  /\ UNCHANGED <<visible, copies, late>>

(* r loses its claim while it sends i, which nobody has marked yet. *)
LoseClaim(r, i) ==
  /\ i \in visible \ published
  /\ late' = late \cup {<<r, i>>}
  /\ UNCHANGED <<visible, copies, published>>

(* What r was sending arrives after all, or never. *)
LateEnds(r, i) ==
  /\ <<r, i>> \in late
  /\ late' = late \ {<<r, i>>}
  /\ Sent(i) \/ UNCHANGED copies
  /\ UNCHANGED <<visible, published>>

Next ==
  \/ \E i \in Rows : Append(i) \/ Send(i)
  \/ \E S \in SUBSET Rows : Mark(S)
  \/ \E r \in Replicas, i \in Rows : LoseClaim(r, i) \/ LateEnds(r, i)

Spec == Init /\ [][Next]_vars
=============================================================================
