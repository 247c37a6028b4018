----------------------------- MODULE SyncEndpoint -----------------------------
(***************************************************************************)
(* The sync endpoint with callers that send what its schema accepts        *)
(* (route.ts, requestSchema): any rows of any tenant, any mix of writes    *)
(* and deletes, any cursor up to the highest one the server has handed     *)
(* out; and that may stop waiting at any time.  This is what the endpoint  *)
(* promises without trusting its clients; module Sync puts the real client *)
(* in front of it and implements this specification.                       *)
(***************************************************************************)
EXTENDS SyncServer

-----------------------------------------------------------------------------
(* Callers.  A tab waits for one answer at a time.                           *)

Waiting(t) ==
    \/ request[t].tab = t
    \/ reply[t].kind # "none"
    \/ \E n \in Tenants : tx[n].open /\ tx[n].tab = t

\* The schema takes a cursor of any digits.  One beyond those handed out is
\* echoed (pullChanges never answers with less) and hides from its sender what is
\* written up to it: no promise about pages could hold of it, so none is sent.
Send(t, b) ==
    LET d == DbOf[t] IN
    /\ ~Waiting(t)
    /\ \E c \in 0..issued[TenantOf[d]] :
         request' = [request EXCEPT ![t] = [tab |-> t, db |-> d, cursor |-> c, muts |-> b]]
    /\ UNCHANGED <<rows, seq, horizon, tx, orphans, reply, issued, landed, faults>>

Receive(t) ==
    /\ reply[t].kind # "none"
    /\ reply' = [reply EXCEPT ![t] = NoReply]
    /\ UNCHANGED <<rows, seq, horizon, tx, request, orphans, issued, landed, faults>>

\* The steps of the endpoint and of callers whose requests carry the sets of
\* mutations in Batches.
EndpointStep(Batches) ==
    \/ \E t \in Tabs : (\E b \in Batches : Send(t, b)) \/ Receive(t)
    \/ \E T \in SUBSET Tabs : Abandon(T)
    \/ ServerStep
    \/ \E n \in Tenants : Rollback(n)
    \/ CollectTombstones

EndpointSpec == ServerInit /\ [][EndpointStep(SUBSET Mutation)]_serverVars

-----------------------------------------------------------------------------
(* Why its properties hold: the inductive invariant.                         *)

Sent(t) == request[t].tab = t
Served(n, t) == tx[n].open /\ tx[n].tab = t
Replied(t) == reply[t].kind # "none"

\* Requests, transactions and answers carry the database of their tab, and a
\* transaction that is not open has left nothing behind.
Routing ==
    /\ \A t \in Tabs : /\ request[t].tab \in {t, Nobody}
                       /\ Sent(t) => request[t].db = DbOf[t]
    /\ \A r \in orphans : r.tab = Nobody
    /\ \A n \in Tenants : /\ ~tx[n].open => tx[n] = NoTx
                          /\ tx[n].open => TenantOf[tx[n].db] = n
                          /\ \A t \in Tabs : Served(n, t) => tx[n].db = DbOf[t]

\* A tab that waits has one of a request, a transaction and an answer.
OneAnswer ==
    \A t \in Tabs : /\ Sent(t) => ~Replied(t)
                    /\ \A n \in Tenants : Served(n, t) => ~Sent(t) /\ ~Replied(t)

\* The sequence is ahead of every row version there is.
SeqAhead ==
    /\ \A i \in Ids : rows[i].ver <= seq
    /\ \A n \in Tenants, i \in Ids : tx[n].writes[i].ver <= seq

\* What a transaction has written is newer than the row it replaces and ahead of
\* every cursor its tenant has been given: this is what the advisory lock is for.
WritesAhead ==
    \A n \in Tenants, i \in Ids :
        Exists(tx[n].writes[i]) => /\ tx[n].writes[i].ver > issued[n]
                                   /\ tx[n].writes[i].ver > rows[i].ver
                                   /\ tx[n].writes[i].by = n

\* Every cursor anywhere has been handed out.
Cursors ==
    /\ \A n \in Tenants : issued[n] <= seq /\ tx[n].cursor <= issued[n]
    /\ \A t \in Tabs : Sent(t) => request[t].cursor <= issued[TenantOf[DbOf[t]]]
    /\ \A r \in orphans : r.cursor <= issued[TenantOf[r.db]]
    /\ \A t \in Tabs : /\ reply[t].base <= reply[t].cursor
                       /\ reply[t].cursor <= issued[TenantOf[DbOf[t]]]

\* Rows stay with their tenant, and no two transactions have written the same
\* row: the row locks of PostgreSQL ...
Isolation ==
    \A n \in Tenants, i \in Ids : Exists(tx[n].writes[i]) =>
        /\ tx[n].writes[i].tenant = IF Exists(rows[i]) THEN rows[i].tenant ELSE n
        /\ \A o \in Tenants \ {n} : ~Exists(tx[o].writes[i])

\* ... and a row of another tenant has come up since the transaction began, if it
\* has written it or is about to: the id-conflict checks.
Checked ==
    \A n \in Tenants, i \in Ids : tx[n].open =>
        /\ ~Exists(rows[i]) => i \in tx[n].absent
        /\ (/\ Exists(tx[n].writes[i]) \/ i \in tx[n].passed
            /\ Exists(rows[i]) /\ rows[i].tenant # n) => i \in tx[n].absent

\* A row in a page is past the cursor of the request, and so is what has become
\* of it since.
PageRows ==
    \A t \in Tabs : reply[t].kind = "ok" =>
        \A i \in Ids :
            (/\ Exists(reply[t].page[i]) /\ Exists(rows[i])
             /\ rows[i].tenant = TenantOf[DbOf[t]])
               => rows[i].ver > reply[t].base

ServerInv ==
    /\ ServerTypeOK
    /\ Routing
    /\ OneAnswer
    /\ SeqAhead
    /\ WritesAhead
    /\ Isolation
    /\ Checked
    /\ Cursors
    /\ PageComplete
    /\ PageRows

-----------------------------------------------------------------------------
(* server.ts:11, "every write path that touches Project/Task for a tenant    *)
(* must hold that lock": the lock a transaction holds is that of the tenant  *)
(* whose rows it has written.                                                *)
WritesHoldTheLock ==
    \A n \in Tenants, i \in Ids :
        Exists(tx[n].writes[i]) => tx[n].writes[i].tenant = n

(* server.ts:132, "A single bad mutation must not poison the batch": when    *)
(* nothing rolls a transaction back from outside, no batch is answered with  *)
(* an error, whatever one of its mutations holds.                            *)
BadMutationDoesNotPoison ==
    faults = 0 => \A t \in Tabs : reply[t].kind # "error"
===============================================================================
