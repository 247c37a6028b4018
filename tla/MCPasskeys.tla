------------------------------ MODULE MCPasskeys ------------------------------
(* Two users, a credential that counts and one that does not.               *)
EXTENDS Passkeys, TLC

CONSTANTS u1, u2, c1, c2, t1, t2, t3, p1, p2

TwoUsers == {u1, u2}
TwoCreds == {c1, c2}
OneCounting == {c1}
SomeTickets == {t1, t2, t3}
TwoProcs == {p1, p2}
Symmetry == Permutations(TwoUsers) \cup Permutations(SomeTickets) \cup Permutations(TwoProcs)
=============================================================================
