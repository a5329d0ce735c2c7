---------------------------- MODULE AtLeastOnce ----------------------------
(* What one consumer group promises about one topic, with no consumer in it. *)
(*                                                                           *)
(* A record is settled once it has reached a destination that outlives the   *)
(* process: the rows the handler writes, or the dead-letter topic.  Records  *)
(* of a partition settle in offset order, and a committed offset never       *)
(* passes a record that has not settled, so a group that restarts from the   *)
(* committed offsets loses nothing.  It may well repeat: a commit is free to *)
(* move back.                                                                *)
EXTENDS Integers

CONSTANTS NumPartitions, \* partitions of the topic
          MaxOffset      \* bound on the records of a partition

VARIABLES logEnd,    \* logEnd[p]: offset the next record of p will get
          settled,   \* settled[p]: offsets of p that reached a destination
          committed  \* committed[p]: offset a new owner of p starts from

vars == <<logEnd, settled, committed>>

Partitions == 0..(NumPartitions - 1)

Init ==
  /\ logEnd = [p \in Partitions |-> 0]
  /\ settled = [p \in Partitions |-> {}]
  /\ committed = [p \in Partitions |-> 0]

(* Every record of p below o has settled. *)
SettledBelow(p, o) == 0..(o - 1) \subseteq settled[p]

Produce(p) ==
  /\ logEnd[p] < MaxOffset
  /\ logEnd' = [logEnd EXCEPT ![p] = @ + 1]
  /\ UNCHANGED <<settled, committed>>

(* The oldest record of p that has not settled does. *)
Settle(p) ==
  \E o \in 0..(logEnd[p] - 1) :
    /\ o \notin settled[p]
    /\ SettledBelow(p, o)
    /\ settled' = [settled EXCEPT ![p] = @ \cup {o}]
    /\ UNCHANGED <<logEnd, committed>>

(* The committed offset moves, forward or back, over settled records only. *)
Commit(p) ==
  \E o \in 0..logEnd[p] :
    /\ SettledBelow(p, o)
    /\ committed' = [committed EXCEPT ![p] = o]
    /\ UNCHANGED <<logEnd, settled>>

Next == \E p \in Partitions : Produce(p) \/ Settle(p) \/ Commit(p)

Spec == Init /\ [][Next]_vars
=============================================================================
