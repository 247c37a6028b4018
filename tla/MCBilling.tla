------------------------------ MODULE MCBilling ------------------------------
(* One workspace and one app, two orders that replace each other.           *)
EXTENDS Billing, TLC

CONSTANTS a1, o1, o2, p1, p2, basic, legacy

OneApp == {a1}
TwoOrders == {o1, o2}
TwoProcs == {p1, p2}
SomeTiers == {basic, legacy}
SomeRegistered == {basic}
AdminTerms == {"SUSPENDED"}
=============================================================================
