------------------------------ MODULE MCWebAuth ------------------------------
(* Two members of a workspace, and one of another with the first's address. *)
EXTENDS WebAuth, TLC

CONSTANTS p1, p2, p3, b1, b2, i1, i2, l1, l2, r1, r2

ThreePeople == {p1, p2, p3}
TwoHomes == [p \in ThreePeople |-> IF p = p3 THEN "acme" ELSE "evo"]
SharedEmail == [p \in ThreePeople |-> IF p = p2 THEN "eve" ELSE "ann"]
TwoBrowsers == {b1, b2}
TwoSignIns == {i1, i2}
TwoLinks == {l1, l2}
TwoProcs == {r1, r2}
Symmetry == Permutations(TwoBrowsers) \cup Permutations(TwoSignIns) \cup Permutations(TwoLinks) \cup Permutations(TwoProcs)
=============================================================================
