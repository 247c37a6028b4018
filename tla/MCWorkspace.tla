----------------------------- MODULE MCWorkspace -----------------------------
(* A founder and one more person, one app with one role, two invites.       *)
EXTENDS Workspace, TLC

CONSTANTS ann, bob, a1, r1, i1, i2, p1, p2

TwoPeople == {ann, bob}
OneApp == {a1}
OneRole == {r1}
RoleOfApp == r1 :> a1
TwoInvites == {i1, i2}
TwoProcs == {p1, p2}
Symmetry == Permutations(TwoProcs) \cup Permutations(TwoInvites)
=============================================================================
