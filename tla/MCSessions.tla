------------------------------ MODULE MCSessions ------------------------------
(***************************************************************************)
(* Instances of Sessions for TLC: one account of a workspace, or one of a   *)
(* workspace and platform-level ones.                                       *)
(***************************************************************************)
EXTENDS Sessions, TLC

CONSTANTS u1, u2, t1

MemberOfT1 == [u \in {u1} |-> t1]
MemberAndPlatform == [u \in {u1, u2} |-> IF u = u1 THEN t1 ELSE NoTenant]
PlatformLevel == [u \in {u1, u2} |-> NoTenant]

\* A new password, and a demotion; every change of the admin flag.
NewPasswordOrDemotion == {[newpw |-> TRUE, admin |-> "keep"], [newpw |-> FALSE, admin |-> "demote"]}
AdminFlag == {[newpw |-> FALSE, admin |-> a] : a \in {"keep", "demote", "promote"}}

SomeTerms == [status: {"ACTIVE", "PAST_DUE", "SUSPENDED"}, over: {FALSE}]

ProcSymmetry == Permutations(Procs)
===============================================================================
