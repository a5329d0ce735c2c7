------------------------------ MODULE MCStore ------------------------------
(* Store with four events: a and b are one transaction under two event_ids,  *)
(* c is another transaction that reuses b's event_id, bad does not decode.   *)
EXTENDS Store, TLC

CONSTANTS a, b, c, bad

TxOfValue == [e \in Events |-> CASE e \in {a, b} -> "t1" [] e = c -> "t2" [] OTHER -> "t3"]
IdOfValue == [e \in Events |-> CASE e = a -> "x" [] e \in {b, c} -> "y" [] OTHER -> "z"]
WhenValue == [e \in Events |-> CASE e = c -> 1 [] OTHER -> 2]
Symmetry == Permutations(Sessions)
=============================================================================
