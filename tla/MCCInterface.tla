----------------------------- MODULE MCCInterface -----------------------------
(* Instances of CInterface for TLC.                                        *)
EXTENDS CInterface, TLC

Symmetry == Permutations(Threads) \cup Permutations(Handles)
=============================================================================
