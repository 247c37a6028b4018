------------------------------ MODULE SyncServer ------------------------------
(***************************************************************************)
(* The sync endpoint of the Next template: POST /api/sync                  *)
(* (src/templates/next/src/app/api/sync/route.ts), the two functions it    *)
(* runs inside one database transaction (src/lib/sync/server.ts) and the   *)
(* trigger that stamps every written row from one global sequence          *)
(* (prisma/migrations/20260712230000_init/migration.sql).                  *)
(*                                                                         *)
(* A request is one transaction.  It takes the tenant's advisory lock,     *)
(* applies the batch mutation by mutation, then pulls one page and         *)
(* commits.  Every mutation is a step of its own, so that whatever is      *)
(* true between two of them, in another tenant's transaction or after a    *)
(* rollback, is a state of the model.                                      *)
(***************************************************************************)
EXTENDS Integers, FiniteSets

CONSTANTS
    Tenants,      \* workspaces
    Dbs,          \* one Dexie database per browser and tenant (tenantDb.ts)
    Tabs,         \* browser tabs, each running syncOnce on its database
    DbOf,         \* [Tabs -> Dbs]
    TenantOf,     \* [Dbs -> Tenants]: the tenant of the session behind a request
    Projects,     \* project ids
    Tasks,        \* task ids
    Vals,         \* well-formed field values of a row (name, title, done ...)
    StubName,     \* the fields of a stub project, named after its id
    NoVal,        \* no value: an absent row
    Malformed,    \* mutation data the checks of applyMutations refuse
    Unstorable,   \* mutation data they let through and PostgreSQL refuses
    NoTenant,     \* tenant of an absent row
    NoProject,    \* projectId of a row that is not a task
    Nobody,       \* a request whose caller no longer waits for the answer
    Limit,        \* rows per table in one pull page
    HasCollector, \* whether the operator runs a tombstone collector
    MaxFaults     \* bound: crashes, lost messages and rollbacks in a behaviour

ASSUME NamesAssumption ==
    /\ Dbs # {}
    /\ DbOf \in [Tabs -> Dbs]
    /\ TenantOf \in [Dbs -> Tenants]
    /\ Projects \cap Tasks = {}
    /\ NoTenant \notin Tenants
    /\ NoProject \notin Projects
    /\ Nobody \notin Tabs
    /\ NoVal \notin Vals \cup {StubName}
    /\ {Malformed, Unstorable} \cap (Vals \cup {StubName}) = {}

ASSUME BoundsAssumption ==
    /\ IsFiniteSet(Projects) /\ IsFiniteSet(Tasks)
    /\ Limit \in Nat \ {0}
    /\ HasCollector \in BOOLEAN
    /\ MaxFaults \in Nat

VARIABLES
    rows,     \* the committed Project and Task tables, by id
    seq,      \* sync_row_version_seq: last value taken, never rolled back
    horizon,  \* SyncGcHorizon.horizon
    tx,       \* the transaction holding each tenant's advisory lock, if any
    request,  \* the request each tab has sent and the server has not taken
    orphans,  \* requests still on their way that no tab waits for any more
    reply,    \* the answer on its way to each tab
    issued,   \* history: highest cursor ever put in an answer, by tenant
    landed,   \* history: outbox seqs whose mutation has been committed, by db
    faults    \* failures so far

serverVars == <<rows, seq, horizon, tx, request, orphans, reply, issued, landed, faults>>

Ids == Projects \cup Tasks
RowVals == Vals \cup {StubName, NoVal}

\* by is history: the tenant whose transaction has stamped this version.
Row == [tenant: Tenants \cup {NoTenant}, ver: Nat, deleted: BOOLEAN, val: RowVals,
        parent: Projects \cup {NoProject}, by: Tenants \cup {NoTenant}]
NoRow == [tenant |-> NoTenant, ver |-> 0, deleted |-> FALSE, val |-> NoVal,
          parent |-> NoProject, by |-> NoTenant]
Exists(r) == r.ver > 0
IsLive(r) == Exists(r) /\ ~r.deleted

Mutation == [seq: Nat \ {0}, id: Ids, op: {"upsert", "delete"},
             val: Vals \cup {NoVal, Malformed, Unstorable},
             parent: Projects \cup {NoProject}]
Request == [tab: Tabs \cup {Nobody}, db: Dbs, cursor: Nat, muts: SUBSET Mutation]
NoRequest == [tab |-> Nobody, db |-> CHOOSE d \in Dbs : TRUE, cursor |-> 0, muts |-> {}]

Transaction == [open: BOOLEAN, tab: Tabs \cup {Nobody}, db: Dbs, cursor: Nat,
                todo: SUBSET Mutation, applied: SUBSET Nat, rejected: SUBSET Nat,
                broken: BOOLEAN, writes: [Ids -> Row],
                passed: SUBSET Ids,  \* the row whose check is over, its write waiting
                absent: SUBSET Ids]  \* history: ids without a row when it began
NoTx == [open |-> FALSE, tab |-> Nobody, db |-> CHOOSE d \in Dbs : TRUE, cursor |-> 0,
         todo |-> {}, applied |-> {}, rejected |-> {}, broken |-> FALSE,
         writes |-> [i \in Ids |-> NoRow], passed |-> {}, absent |-> {}]

Reply == [kind: {"none", "ok", "resync", "error"}, applied: SUBSET Nat,
          rejected: SUBSET Nat, page: [Ids -> Row], cursor: Nat, hasMore: BOOLEAN,
          base: Nat]  \* base is history: the cursor of the request it answers
NoReply == [kind |-> "none", applied |-> {}, rejected |-> {},
            page |-> [i \in Ids |-> NoRow], cursor |-> 0, hasMore |-> FALSE,
            base |-> 0]
ErrorReply == [NoReply EXCEPT !.kind = "error"]

ServerTypeOK ==
    /\ rows \in [Ids -> Row]
    /\ seq \in Nat
    /\ horizon \in Nat
    /\ tx \in [Tenants -> Transaction]
    /\ request \in [Tabs -> Request]
    /\ orphans \in SUBSET Request
    /\ reply \in [Tabs -> Reply]
    /\ issued \in [Tenants -> Nat]
    /\ landed \in [Dbs -> SUBSET Nat]
    /\ faults \in Nat

ServerInit ==
    /\ rows = [i \in Ids |-> NoRow]
    /\ seq = 0
    /\ horizon = 0
    /\ tx = [n \in Tenants |-> NoTx]
    /\ request = [t \in Tabs |-> NoRequest]
    /\ orphans = {}
    /\ reply = [t \in Tabs |-> NoReply]
    /\ issued = [n \in Tenants |-> 0]
    /\ landed = [d \in Dbs |-> {}]
    /\ faults = 0

-----------------------------------------------------------------------------
(* Taking a request: the route opens the transaction and waits for the      *)
(* tenant's advisory lock.                                                   *)

Opened(r) == [NoTx EXCEPT !.open = TRUE, !.tab = r.tab, !.db = r.db,
                          !.cursor = r.cursor, !.todo = r.muts,
                          !.absent = {i \in Ids : ~Exists(rows[i])}]

LockFree(n) == ~tx[n].open

TakeRequest(t) ==
    LET r == request[t]  n == TenantOf[r.db] IN
    /\ r.tab = t
    /\ LockFree(n)
    /\ tx' = [tx EXCEPT ![n] = Opened(r)]
    /\ request' = [request EXCEPT ![t] = NoRequest]
    /\ UNCHANGED <<rows, seq, horizon, orphans, reply, issued, landed, faults>>

\* The same for a request whose sender is gone: nothing cancels it.
TakeOrphan ==
    \E r \in orphans :
        /\ LockFree(TenantOf[r.db])
        /\ tx' = [tx EXCEPT ![TenantOf[r.db]] = Opened(r)]
        /\ orphans' = orphans \ {r}
        /\ UNCHANGED <<rows, seq, horizon, request, reply, issued, landed, faults>>

-----------------------------------------------------------------------------
(* applyMutations: the mutations in ascending seq order.  A mutation reads    *)
(* its row to see whose it is, and writes it by id alone; under READ         *)
(* COMMITTED another tenant may create the row between the two.  A write     *)
(* waits for the transaction that has written the row, so it matters only    *)
(* whether the check came before that one's commit: check and write are two  *)
(* steps where the write has to wait, and one where it need not.             *)

\* What the transaction of tenant n reads: its own writes over committed rows.
View(n, i) == IF Exists(tx[n].writes[i]) THEN tx[n].writes[i] ELSE rows[i]

\* m is the mutation the loop is at.
IsNext(n, m) ==
    /\ m \in tx[n].todo
    /\ \A k \in tx[n].todo : m.seq <= k.seq

\* Another transaction, which has not ended, has written row i.
Waits(n, i) == \E o \in Tenants \ {n} : Exists(tx[o].writes[i])

Foreign(n, i) == Exists(View(n, i)) /\ View(n, i).tenant # n

\* Mutant: the tenant of an existing row is not looked at.
RefusedNever(n, i) == FALSE

\* The check of the mutation n is at finds another tenant's row.
Refused(n, i) == i \notin tx[n].passed /\ Foreign(n, i)

\* What the upsert and the trigger make of row i: stamped, not tombstoned.  Only
\* a new row takes the tenant, and the projectId of the mutation.
Written(n, i, v, parent, ver) ==
    LET old == View(n, i) IN
    [tenant |-> IF Exists(old) THEN old.tenant ELSE n, ver |-> ver, deleted |-> FALSE,
     val |-> v, parent |-> IF Exists(old) THEN old.parent ELSE parent, by |-> n]

\* Mutant: the trigger stamps inserts only.
TombstonedUnstamped(n, i, ver) == [View(n, i) EXCEPT !.deleted = TRUE, !.by = n]

Tombstoned(n, i, ver) == [View(n, i) EXCEPT !.deleted = TRUE, !.ver = ver, !.by = n]

Accept(n, m, writes) ==
    tx' = [tx EXCEPT ![n].todo = @ \ {m}, ![n].applied = @ \cup {m.seq},
                     ![n].writes = writes, ![n].passed = {}]
Reject(n, m) ==
    /\ tx' = [tx EXCEPT ![n].todo = @ \ {m}, ![n].rejected = @ \cup {m.seq}]
    /\ UNCHANGED seq

\* A statement PostgreSQL refuses: the loop's catch counts the mutation as
\* rejected, but the transaction it ran in is aborted from here on.
BreakTx(n, m) ==
    /\ tx' = [tx EXCEPT ![n].todo = @ \ {m}, ![n].rejected = @ \cup {m.seq},
                        ![n].broken = TRUE, ![n].passed = {}]
    /\ UNCHANGED seq

\* The check of row i is over, and its write has to wait.
Pass(n, i) ==
    /\ i \notin tx[n].passed /\ Waits(n, i)
    /\ tx' = [tx EXCEPT ![n].passed = {i}]
    /\ UNCHANGED seq

\* The row of the mutation itself, of either table: its check and its upsert.
UpsertRow(n, m, parent) ==
    \/ Refused(n, m.id) /\ Reject(n, m)
    \/ /\ ~Refused(n, m.id)
       /\ \/ m.val = Unstorable /\ BreakTx(n, m)
          \/ m.val \in Vals /\ Pass(n, m.id)
          \/ /\ m.val \in Vals /\ ~Waits(n, m.id)
             /\ Accept(n, m, [tx[n].writes EXCEPT
                                 ![m.id] = Written(n, m.id, m.val, parent, seq + 1)])
             /\ seq' = seq + 1

\* Mutant: the fields of a project are stored unchecked.
UpsertProjectUnchecked(n, m) ==
    /\ ~Refused(n, m.id) /\ ~Waits(n, m.id)
    /\ Accept(n, m, [tx[n].writes EXCEPT
                        ![m.id] = Written(n, m.id, m.val, NoProject, seq + 1)])
    /\ seq' = seq + 1

UpsertProject(n, m) ==
    \/ m.val = Malformed /\ Reject(n, m)
    \/ m.val # Malformed /\ UpsertRow(n, m, NoProject)

\* Delete, of either table: a tombstone if there is a live row, a no-op if not.
DeleteRow(n, m) ==
    \/ Refused(n, m.id) /\ Reject(n, m)
    \/ /\ ~Foreign(n, m.id) /\ ~IsLive(View(n, m.id)) /\ m.id \notin tx[n].passed
       /\ Accept(n, m, tx[n].writes)
       /\ UNCHANGED seq
    \/ ~Foreign(n, m.id) /\ IsLive(View(n, m.id)) /\ Pass(n, m.id)
    \/ /\ m.id \in tx[n].passed \/ (~Foreign(n, m.id) /\ IsLive(View(n, m.id)))
       /\ Exists(View(n, m.id)) /\ ~Waits(n, m.id)
       /\ Accept(n, m, [tx[n].writes EXCEPT ![m.id] = Tombstoned(n, m.id, seq + 1)])
       /\ seq' = seq + 1

\* The stub of a project that was never pushed.  Unlike an upsert its insert
\* fails, and the transaction with it, on a row created while it waited.
CreateStub(n, m) ==
    LET p == m.parent IN
    \/ p \in tx[n].passed /\ Exists(View(n, p)) /\ BreakTx(n, m)
    \/ /\ ~Exists(View(n, p))
       /\ \/ Pass(n, p)
          \/ /\ ~Waits(n, p)
             /\ tx' = [tx EXCEPT ![n].writes[p] = Written(n, p, StubName, NoProject, seq + 1),
                                 ![n].passed = {}]
             /\ seq' = seq + 1

\* A task write creates that stub before it looks at the task's own row; a
\* foreign task id leaves the stub behind.
UpsertTask(n, m) ==
    LET p == m.parent IN
    \/ /\ m.val = Malformed \/ p = NoProject
       /\ Reject(n, m)
    \/ /\ m.val # Malformed /\ p \in Projects
       /\ \/ Refused(n, p) /\ Reject(n, m)
          \/ CreateStub(n, m)
          \/ /\ p \notin tx[n].passed /\ Exists(View(n, p)) /\ ~Foreign(n, p)
             /\ UpsertRow(n, m, p)

\* Transactions that wait for each other: PostgreSQL fails a statement of one.
WaitsFor(n, o) == \E i \in tx[n].passed : Exists(tx[o].writes[i])
Deadlocked(n) ==
    \E C \in SUBSET Tenants : n \in C /\ \A o \in C : \E q \in C \ {o} : WaitsFor(o, q)

ApplyMutation(n) ==
    /\ tx[n].open /\ ~tx[n].broken
    /\ \E m \in tx[n].todo :
        /\ IsNext(n, m)
        /\ \/ m.op = "upsert" /\ m.id \in Projects /\ UpsertProject(n, m)
           \/ m.op = "upsert" /\ m.id \in Tasks /\ UpsertTask(n, m)
           \/ m.op = "delete" /\ DeleteRow(n, m)
           \/ Deadlocked(n) /\ BreakTx(n, m)
    /\ UNCHANGED <<rows, horizon, request, orphans, reply, issued, landed, faults>>

-----------------------------------------------------------------------------
(* pullChanges: one page per table in row-version order, and the cursor.    *)

\* The rows of one table the page is cut from, and the page: the first Limit.
Changed(n, T) ==
    {i \in T : View(n, i).tenant = n /\ View(n, i).ver > tx[n].cursor}
Page(n, T) ==
    {i \in Changed(n, T) :
        Cardinality({j \in Changed(n, T) : View(n, j).ver <= View(n, i).ver}) <= Limit}

Truncated(n, T) == Cardinality(Changed(n, T)) >= Limit

\* v is the row version of the last row of the page, or the request's cursor.
LastVersion(n, T) ==
    IF Page(n, T) = {} THEN tx[n].cursor
    ELSE CHOOSE v \in {View(n, i).ver : i \in Page(n, T)} :
            \A i \in Page(n, T) : View(n, i).ver <= v

Larger(a, b) == IF a > b THEN a ELSE b
Smaller(a, b) == IF a < b THEN a ELSE b

\* Mutant: the cursor is the last version of either table, truncated or not.
NextCursorLast(n) == Larger(LastVersion(n, Projects), LastVersion(n, Tasks))

NextCursor(n) ==
    LET p == LastVersion(n, Projects)
        k == LastVersion(n, Tasks)
        next == IF Truncated(n, Projects) /\ Truncated(n, Tasks) THEN Smaller(p, k)
                ELSE IF Truncated(n, Projects) THEN p
                ELSE IF Truncated(n, Tasks) THEN k
                ELSE Larger(p, k)
    IN  Larger(next, tx[n].cursor)

PullReply(n) ==
    [kind |-> "ok", applied |-> tx[n].applied, rejected |-> tx[n].rejected,
     page |-> [i \in Ids |-> IF i \in Page(n, Projects) \cup Page(n, Tasks)
                             THEN View(n, i) ELSE NoRow],
     cursor |-> NextCursor(n),
     hasMore |-> Truncated(n, Projects) \/ Truncated(n, Tasks),
     base |-> tx[n].cursor]

ResyncReply(n) ==
    [NoReply EXCEPT !.kind = "resync", !.applied = tx[n].applied,
                    !.rejected = tx[n].rejected, !.cursor = tx[n].cursor, !.base = tx[n].cursor]

-----------------------------------------------------------------------------
(* The end of the transaction.  The answer goes to the tab, if it waits.    *)

PastHorizon(n) == tx[n].cursor > 0 /\ tx[n].cursor < horizon

Commit(n) ==
    /\ rows' = [i \in Ids |-> View(n, i)]
    /\ landed' = [landed EXCEPT ![tx[n].db] = @ \cup tx[n].applied]

Answer(n, r) ==
    /\ reply' = [t \in Tabs |-> IF t = tx[n].tab THEN r ELSE reply[t]]
    /\ tx' = [tx EXCEPT ![n] = NoTx]

FinishPull(n) ==
    /\ tx[n].open /\ tx[n].todo = {} /\ ~tx[n].broken
    /\ ~PastHorizon(n)
    /\ Commit(n)
    /\ Answer(n, PullReply(n))
    /\ issued' = [issued EXCEPT ![n] = Larger(@, NextCursor(n))]
    /\ UNCHANGED <<seq, horizon, request, orphans, faults>>

FinishResync(n) ==
    /\ tx[n].open /\ tx[n].todo = {} /\ ~tx[n].broken
    /\ PastHorizon(n)
    /\ Commit(n)
    /\ Answer(n, ResyncReply(n))
    /\ UNCHANGED <<seq, horizon, request, orphans, issued, faults>>

\* Every statement after the one PostgreSQL refused fails too; the read of
\* the horizon, outside the loop's catch, turns that into a 500.
FinishBroken(n) ==
    /\ tx[n].open /\ tx[n].broken
    /\ Answer(n, ErrorReply)
    /\ UNCHANGED <<rows, seq, horizon, request, orphans, issued, landed, faults>>

\* Timeout of the transaction, lost database connection, server restart.
Rollback(n) ==
    /\ tx[n].open
    /\ faults < MaxFaults
    /\ faults' = faults + 1
    /\ Answer(n, ErrorReply)
    /\ UNCHANGED <<rows, seq, horizon, request, orphans, issued, landed>>

\* The callers T stop waiting (a closed tab, a fetch that throws).  A request
\* of theirs may still arrive, at any later time, or never.
Abandon(T) ==
    /\ orphans' = orphans \cup {[request[t] EXCEPT !.tab = Nobody] :
                                   t \in {u \in T : request[u].tab = u}}
    /\ request' = [t \in Tabs |-> IF t \in T THEN NoRequest ELSE request[t]]
    /\ reply' = [t \in Tabs |-> IF t \in T THEN NoReply ELSE reply[t]]
    /\ tx' = [n \in Tenants |-> IF tx[n].tab \in T THEN [tx[n] EXCEPT !.tab = Nobody]
                                ELSE tx[n]]
    /\ faults < MaxFaults /\ faults' = faults + 1
    /\ UNCHANGED <<rows, seq, horizon, issued, landed>>

-----------------------------------------------------------------------------
(* External: the tombstone collector the template leaves to the operator.   *)
(* It holds the locks, hard-deletes the tombstones up to a row version (the *)
(* foreign key takes a project's tasks along) and records that version.     *)

Collected(h) ==
    {i \in Ids : rows[i].deleted /\ rows[i].ver <= h}
CollectTombstones ==
    /\ HasCollector
    /\ \A n \in Tenants : ~tx[n].open
    /\ \E k \in {i \in Ids : rows[i].deleted} :
        LET h == rows[k].ver IN
        /\ rows' = [i \in Ids |->
                      IF \/ i \in Collected(h)
                         \/ rows[i].parent \in Collected(h)
                      THEN NoRow ELSE rows[i]]
        /\ horizon' = Larger(horizon, h)
    /\ UNCHANGED <<seq, tx, request, orphans, reply, issued, landed, faults>>

ServerStep ==
    \/ \E t \in Tabs : TakeRequest(t)
    \/ TakeOrphan
    \/ \E n \in Tenants :
        \/ ApplyMutation(n)
        \/ FinishPull(n)
        \/ FinishResync(n)
        \/ FinishBroken(n)

-----------------------------------------------------------------------------
(* Properties of the endpoint, whatever its clients send.                   *)

(* A page leaves nothing out: a row of the tenant whose current version lies *)
(* between the cursor of the request and the cursor of the answer is in the  *)
(* answer as it is, for as long as the answer is on its way, whatever other  *)
(* requests commit meanwhile (pullChanges' cursor rules, under the lock).    *)
(* Excused is a version another tenant's transaction has stamped, which had  *)
(* found no row of this id before (see OwnRowsOnly).                         *)
PageComplete ==
    \A t \in Tabs : reply[t].kind = "ok" =>
        \A i \in Ids :
            (/\ Exists(rows[i])
             /\ rows[i].tenant = TenantOf[DbOf[t]] /\ rows[i].by = rows[i].tenant
             /\ reply[t].base < rows[i].ver /\ rows[i].ver <= reply[t].cursor)
               => reply[t].page[i] = rows[i]

(* Gap safety of the shared sequence (server.ts, "no commit-order races      *)
(* where a lower rowVersion commits after a higher one was already pulled"): *)
(* no row becomes visible at or below a cursor its tenant has been given,    *)
(* unless a transaction without the tenant's lock has stamped it.            *)
CursorGapSafe ==
    [][\A i \in Ids :
         (/\ rows'[i] # rows[i] /\ rows'[i].ver > 0
          /\ rows'[i].by = rows'[i].tenant)
            => rows'[i].ver > issued[rows'[i].tenant]]_serverVars

(* The id-conflict checks keep tenants apart as far as they can: a request   *)
(* that names an id another tenant has, as a project, a task or the parent   *)
(* of one, changes no row of that tenant, unless the row was not there yet   *)
(* when the request got its lock and both created it at once (the check and  *)
(* the upsert are two statements); and no row ever moves to another tenant.  *)
OwnRowsOnly ==
    [][\A n \in Tenants : \A i \in Ids :
         (/\ tx[n].open /\ ~tx'[n].open
          /\ rows'[i] # rows[i])
            => /\ rows'[i].tenant # n => i \in tx[n].absent
               /\ Exists(rows[i]) => rows'[i].tenant = rows[i].tenant
               /\ ~Exists(rows[i]) => rows'[i].tenant = n]_serverVars

===============================================================================
