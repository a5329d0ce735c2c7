----------------------------- MODULE MCConsumer -----------------------------
(* Consumer on small instances: the replicas are interchangeable, which the  *)
(* safety runs use.                                                          *)
EXTENDS Consumer, TLC

Symmetry == Permutations(Members)
=============================================================================
