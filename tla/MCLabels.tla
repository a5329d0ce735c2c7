------------------------------ MODULE MCLabels ------------------------------
(* Labels with four labels: a and b are two verdicts on one transaction, c   *)
(* is on another transaction and reuses b's event_id, bad does not decode.   *)
EXTENDS Labels, TLC

CONSTANTS a, b, c, bad

TxOfValue == [l \in Labels |-> CASE l \in {a, b} -> "t1" [] OTHER -> "t2"]
IdOfValue == [l \in Labels |-> CASE l = a -> "x" [] l \in {b, c} -> "y" [] OTHER -> "z"]
Symmetry == Permutations(Sessions)
=============================================================================
