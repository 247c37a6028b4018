---------------------------- MODULE MCSyncEndpoint ----------------------------
(* The endpoint with two callers of one tenant and one of another.          *)
EXTENDS SyncEndpoint, TLC

CONSTANTS
    dB, tA, tB, dA1, dA2, a1, a2, b1, p1, p2, k1, v1,
    MaxRequests   \* bound: requests in a behaviour

VARIABLE sent     \* requests so far

MCDbOf == a1 :> dA1 @@ a2 :> dA2 @@ b1 :> dB
MCTenantOf == dA1 :> tA @@ dA2 :> tA @@ dB :> tB

\* The two callers of the first tenant, with their databases, are interchangeable:
\* the database SyncServer chooses for its empty records is dB, the first named.
Callers == {f \in Permutations({a1, a2, dA1, dA2}) :
                \A t \in {a1, a2} : f[t] \in {a1, a2} /\ f[MCDbOf[t]] = MCDbOf[f[t]]}

M(s, i, o, v) == [seq |-> s, id |-> i, op |-> o, val |-> v, parent |-> NoProject]
MT(s, i, o, v, p) == [M(s, i, o, v) EXCEPT !.parent = p]

\* Writes and deletes of both tables, a task moved under another project id,
\* refused data, and data PostgreSQL cannot store.
Batches ==
    {{},
     {M(1, p1, "upsert", v1)},
     {MT(1, k1, "upsert", v1, p1), M(2, p2, "upsert", v1)},
     {MT(1, k1, "upsert", v1, p2), M(2, p1, "delete", NoVal)},
     {M(1, p1, "upsert", Malformed), M(2, k1, "delete", NoVal)},
     {M(1, p1, "upsert", v1), MT(2, k1, "upsert", Unstorable, p1)}}

vars == <<serverVars, sent>>

\* Every request answered and none left to send: nothing more need happen.
Done == sent = MaxRequests /\ (\A t \in Tabs : ~Waiting(t)) /\ UNCHANGED vars

Next ==
    \/ /\ EndpointStep(IF sent < MaxRequests THEN Batches ELSE {})
       /\ sent' = sent + Cardinality({t \in Tabs : ~Sent(t) /\ Sent(t)'})
    \/ Done

Init == ServerInit /\ sent = 0

Spec == Init /\ [][Next]_vars
===============================================================================
