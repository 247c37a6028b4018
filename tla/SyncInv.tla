-------------------------------- MODULE SyncInv -------------------------------
(***************************************************************************)
(* Why the properties of module Sync hold: the inductive invariant.  The   *)
(* first part is about the endpoint.  The second follows a drain through   *)
(* the request, the transaction, the answer and the three local            *)
(* transactions, and says at each what must be true for the next step to   *)
(* keep the cursor behind the replica.                                     *)
(***************************************************************************)
EXTENDS Sync, SyncEndpoint

-----------------------------------------------------------------------------
(* Part one: the endpoint (module SyncEndpoint), and the cursors browsers     *)
(* have saved.  It holds whether or not drains overlap.                      *)

\* Every saved cursor has been handed out.
SavedCursors == \A d \in Dbs : cursor[d] <= issued[TenantOf[d]]

\* A tab that is not in the middle of an exchange waits for nothing, and one that
\* works on an answer has it.
Turns ==
    \A t \in Tabs : /\ drain[t].phase \in {"idle", "loop"} => ~Waiting(t)
                    /\ drain[t].phase \in {"acked", "merged"} => Replied(t)

EndpointInv == TypeOK /\ ServerInv /\ SavedCursors /\ Turns

-----------------------------------------------------------------------------
(* Part two: the drain, in a browser with Web Locks.                         *)

\* One drain per database: what the Web Lock gives.
OneDrain ==
    \A t, o \in Tabs :
        (DbOf[t] = DbOf[o] /\ drain[t].phase # "idle" /\ drain[o].phase # "idle") => t = o

\* A drain that waits has exactly one of a request on its way, a transaction
\* and an answer, each with the drain's own cursor and mutations; a drain that
\* does not wait has no snapshot left.
Channels ==
    /\ \A t \in Tabs :
        /\ Sent(t) => /\ drain[t].phase = "waiting" /\ ~Replied(t)
                      /\ request[t].cursor = cursor[DbOf[t]]
                      /\ request[t].muts = ToSend(drain[t].snap)
        /\ Replied(t) => /\ drain[t].phase \in {"waiting", "acked", "merged"}
                         /\ reply[t].kind = "ok" => reply[t].base = cursor[DbOf[t]]
        /\ drain[t].phase \in {"acked", "merged"} => reply[t].kind = "ok"
        /\ drain[t].phase # "waiting" => drain[t].snap = {}
    /\ \A n \in Tenants, t \in Tabs :
        Served(n, t) => /\ drain[t].phase = "waiting" /\ ~Sent(t) /\ ~Replied(t)
                        /\ tx[n].cursor = cursor[DbOf[t]]
                        /\ tx[n].todo \subseteq ToSend(drain[t].snap)

\* What it takes to forget mutation m of database d, given row r: a pull from
\* d's cursor brings the row, or there is nothing to bring that d lacks.
Covered(d, m, r) ==
    \/ ~Exists(r)
    \/ r.tenant # TenantOf[d]
    \/ r.ver > cursor[d]
    \/ m.op = "delete" /\ r.deleted

SentAreCovered ==
    \A t \in Tabs : \A m \in ToSend(drain[t].snap) :
        /\ reply[t].kind = "ok" => Covered(DbOf[t], m, rows[m.id])
        /\ \A n \in Tenants :
            (Served(n, t) /\ ~tx[n].broken /\ m \notin tx[n].todo)
                => Covered(DbOf[t], m, View(n, m.id))

\* Mutations queued after the snapshot have higher keys than those in it.
SnapIsOldest ==
    /\ \A d \in Dbs : \A m \in outbox[d] : m.seq < nextSeq[d]
    /\ \A t \in Tabs : \A m \in drain[t].snap :
        /\ m.seq < nextSeq[DbOf[t]]
        /\ \A k \in outbox[DbOf[t]] \ drain[t].snap : m.seq < k.seq

\* A row whose last queued mutation is a delete is not in the replica; the same
\* for the last mutation of a snapshot until the row is edited again.
DeletesAreLocal ==
    /\ \A d \in Dbs : \A m \in outbox[d] :
        (/\ m.op = "delete"
         /\ \A k \in outbox[d] : k.id = m.id => k.seq <= m.seq)
           => replica[d][m.id] = NoVal
    /\ \A t \in Tabs : \A m \in ToSend(drain[t].snap) :
        (/\ m.op = "delete"
         /\ \A k \in outbox[DbOf[t]] : k.id = m.id => k \in drain[t].snap)
           => replica[DbOf[t]][m.id] = NoVal

\* Row i is in the replica of d as it is on the server, or is a task that went
\* with its project.
Shows(d, i) ==
    \/ replica[d][i] = Visible(rows[i])
    \/ i \in Tasks /\ replica[d][i] = NoVal

\* Below the cursor and outside the outbox, the replica is faithful ...
RowsFaithful == \A d \in Dbs, i \in Ids : Settled(d, i) => Shows(d, i)

\* ... and between the merge and saving the cursor it already is so up to the
\* cursor that is about to be saved.
MergedFaithful ==
    \A t \in Tabs : drain[t].phase = "merged" =>
        \A i \in Ids :
            (/\ Exists(rows[i]) /\ rows[i].tenant = TenantOf[DbOf[t]]
             /\ rows[i].ver <= reply[t].cursor
             /\ ~Pending(DbOf[t], i))
               => Shows(DbOf[t], i)

(* Part three: whose rows these are, and what leaves the outbox.  Like the   *)
(* first part it holds whether or not drains overlap.                        *)

\* Row i has been made, in a database of d's tenant; w says where rows are from.
Home(w, d, i) == i \in born /\ w[i] = TenantOf[d]

\* m is what the data layer of database d, or of another one of its tenant, queues.
Meant(w, d, m) ==
    /\ m \in Queued /\ Home(w, d, m.id)
    /\ m.op = "upsert" /\ m.id \in Tasks => m.parent = ParentOf[m.id]

\* Every id is random and stays with the tenant it was made for.  A task is made
\* from its project's page ...
TaskHomes(w) == \A k \in Tasks : k \in born => ParentOf[k] \in born /\ w[ParentOf[k]] = w[k]
\* ... what a browser shows and has queued is its tenant's ...
DbHomes(w) ==
    \A d \in Dbs : /\ \A i \in Ids : replica[d][i] # NoVal => Home(w, d, i)
                   /\ \A i \in open[d] : Home(w, d, i)
                   /\ \A m \in outbox[d] : Meant(w, d, m)
\* ... what a tab has captured, has sent and is answered ...
TabHomes(w) ==
    \A t \in Tabs : /\ \A m \in drain[t].snap : Meant(w, DbOf[t], m)
                    /\ \A m \in request[t].muts : Meant(w, request[t].db, m)
                    /\ \A i \in Ids : Exists(reply[t].page[i]) => Home(w, DbOf[t], i)
OrphanHomes(w) == \A r \in orphans : \A m \in r.muts : Meant(w, r.db, m)
\* ... what is in a transaction, which never waits for another, and what is stored.
TxHomes(w) ==
    \A n \in Tenants : /\ \A m \in tx[n].todo : Meant(w, tx[n].db, m)
                       /\ \A i \in Ids : Exists(tx[n].writes[i]) =>
                            i \in born /\ w[i] = n /\ tx[n].writes[i].tenant = n
                       /\ tx[n].passed = {}
RowHomes(w) ==
    \A i \in Ids : Exists(rows[i]) =>
        i \in born /\ w[i] = rows[i].tenant /\ rows[i].by = rows[i].tenant

Homes(w) ==
    /\ TaskHomes(w)
    /\ DbHomes(w)
    /\ TabHomes(w)
    /\ OrphanHomes(w)
    /\ TxHomes(w)
    /\ RowHomes(w)

\* The endpoint refuses nothing of what the data layer queues.
NothingRejected ==
    /\ \A n \in Tenants : tx[n].rejected = {} /\ ~tx[n].broken
    /\ \A t \in Tabs : reply[t].rejected = {}

\* What an answer says was applied has been committed.
AppliedLanded == \A t \in Tabs : reply[t].applied \subseteq landed[DbOf[t]]

\* The captured mutations of a row leave the outbox together.
LeaveTogether ==
    \A t \in Tabs : \A m, k \in drain[t].snap :
        m.id = k.id /\ m.seq <= k.seq /\ m \in outbox[DbOf[t]] => k \in outbox[DbOf[t]]

OutboxInv ==
    /\ \E w \in [Ids -> Tenants] : Homes(w)
    /\ NothingRejected
    /\ AppliedLanded
    /\ SnapIsOldest
    /\ LeaveTogether

-----------------------------------------------------------------------------
(* The inductive invariant: the endpoint's, which module SyncEndpoint keeps   *)
(* whatever its callers do, and the client's.                                *)
DrainInv ==
    /\ OneDrain
    /\ Channels
    /\ SentAreCovered
    /\ SnapIsOldest
    /\ DeletesAreLocal
    /\ MergedFaithful
    /\ RowsFaithful

ClientInv ==
    /\ TypeOK
    /\ SavedCursors
    /\ Turns
    /\ OutboxInv
    /\ DrainInv

IInv == ServerInv /\ ClientInv

-----------------------------------------------------------------------------
(* Part four: where nothing collects tombstones, as shipped, the server has   *)
(* every row a browser shows or has been promised.                           *)

\* What is shown is on the server or still to be pushed ...
ShownBacked ==
    \A d \in Dbs, i \in Ids : replica[d][i] # NoVal => Exists(rows[i]) \/ Pending(d, i)

\* ... what a page brings is on the server ...
PagesBacked == \A t \in Tabs, i \in Ids : Exists(reply[t].page[i]) => Exists(rows[i])

\* ... and so is, once settled, what was sent to be stored.
SentBacked ==
    \A t \in Tabs : \A m \in ToSend(drain[t].snap) :
        m.op = "upsert" =>
            /\ reply[t].kind = "ok" => Exists(rows[m.id])
            /\ \A n \in Tenants :
                (Served(n, t) /\ ~tx[n].broken /\ m \notin tx[n].todo) => Exists(View(n, m.id))

Backed == ShownBacked /\ PagesBacked /\ SentBacked

\* Nothing is left to push, and nothing to pull.
CaughtUp ==
    \A d \in Dbs : /\ outbox[d] = {}
                   /\ \A i \in Ids : rows[i].tenant = TenantOf[d] => rows[i].ver <= cursor[d]
===============================================================================
