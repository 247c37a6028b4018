----------------------------- MODULE MCCatalogue -----------------------------
(* Two apps, a catalogue file of one product with a monthly and a yearly    *)
(* price, and two requests in flight.                                       *)
EXTENDS Catalogue, TLC

CONSTANTS a1, a2, p1, p2, p3, t1, q1, q2

TwoApps == {a1, a2}
ThreePrices == {p1, p2, p3}
OneTier == {t1}
TwoProcs == {q1, q2}
TwoLines == <<"month", "year">>
Symmetry == Permutations(TwoApps) \cup Permutations(ThreePrices) \cup Permutations(TwoProcs)
=============================================================================
