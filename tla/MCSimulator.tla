---------------------------- MODULE MCSimulator ----------------------------
(* Simulator under its own constants, which are numbers.                     *)
EXTENDS Simulator
=============================================================================
