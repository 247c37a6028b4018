-------------------------------- MODULE MCSync --------------------------------
(* Two browsers of one tenant, one tab each.                                 *)
EXTENDS SyncInv, TLC

CONSTANTS tA, dA, dB, a, a2, b, p1, k1

MCDbOf == a :> dA @@ b :> dB
MCTenantOf == dA :> tA @@ dB :> tA
MCParentOf == k1 :> p1
MCNoTasks == [k \in {} |-> p1]
MCTwoTabs == a :> dA @@ a2 :> dA @@ b :> dB
MCEdits11 == dA :> 1 @@ dB :> 1
MCEdits31 == dA :> 3 @@ dB :> 0
MCEdits21 == dA :> 2 @@ dB :> 1
MCEdits22 == dA :> 2 @@ dB :> 2
===============================================================================
