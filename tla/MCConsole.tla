------------------------------ MODULE MCConsole ------------------------------
(* One tab, with two runs under way at a time.                              *)
EXTENDS Console, TLC

CONSTANTS s1, s2

TwoSlots == {s1, s2}
Symmetry == Permutations(TwoSlots)
=============================================================================
