--------------------------------- MODULE Sync ---------------------------------
(***************************************************************************)
(* Offline-first sync of the Next template, end to end: the local data     *)
(* layer (src/templates/next/src/lib/data/projects.ts), its append-only    *)
(* outbox (lib/offline/outbox.ts), the drain that pushes the outbox and    *)
(* applies pulled rows (lib/sync/client.ts), and the endpoint behind it    *)
(* (module SyncServer).                                                    *)
(*                                                                         *)
(* A browser keeps one Dexie database per tenant, shared by its tabs.      *)
(* Every await of syncOnce is a point where other tabs, the user and the   *)
(* server run, so a drain is a sequence of actions: send, ack the outbox,  *)
(* merge the page, save the cursor.                                        *)
(***************************************************************************)
EXTENDS SyncServer

CONSTANTS
    ParentOf,      \* [Tasks -> Projects]: the project id a task id starts with
    WebLocks,      \* whether the browser has navigator.locks
    MaxPullLoops,  \* MAX_PULL_LOOPS
    MaxEdits       \* [Dbs -> Nat], bound: outbox entries a database ever makes

ASSUME ClientAssumption ==
    /\ ParentOf \in [Tasks -> Projects]
    /\ WebLocks \in BOOLEAN
    /\ MaxPullLoops \in Nat \ {0}
    /\ MaxEdits \in [Dbs -> Nat]

VARIABLES
    replica,   \* the projects and tasks stores: row values by id
    outbox,    \* pending mutations
    nextSeq,   \* the outbox's auto-increment key
    cursor,    \* meta "cursor"
    open,      \* rows a handler of the page has read and is about to act on
    born,      \* ids some browser has already generated
    drain      \* where each tab is in syncOnce

clientVars == <<replica, outbox, nextSeq, cursor, open, born, drain>>
vars == <<serverVars, clientVars>>

\* What the data layer queues is always well-formed.
Queued == {m \in Mutation : m.op = "upsert" => m.val \in Vals}

Drain == [phase: {"idle", "waiting", "acked", "merged", "loop"},
          snap: SUBSET Queued,     \* snapshotForDrain's capture of the outbox
          loops: Nat]
Idle == [phase |-> "idle", snap |-> {}, loops |-> 0]

TypeOK ==
    /\ ServerTypeOK
    /\ replica \in [Dbs -> [Ids -> RowVals]]
    /\ outbox \in [Dbs -> SUBSET Queued]
    /\ nextSeq \in [Dbs -> Nat \ {0}]
    /\ cursor \in [Dbs -> Nat]
    /\ open \in [Dbs -> SUBSET Ids]
    /\ born \in SUBSET Ids
    /\ drain \in [Tabs -> Drain]

EmptyReplica == [i \in Ids |-> NoVal]

Init ==
    /\ ServerInit
    /\ replica = [d \in Dbs |-> EmptyReplica]
    /\ outbox = [d \in Dbs |-> {}]
    /\ nextSeq = [d \in Dbs |-> 1]
    /\ cursor = [d \in Dbs |-> 0]
    /\ open = [d \in Dbs |-> {}]
    /\ born = {}
    /\ drain = [t \in Tabs |-> Idle]

-----------------------------------------------------------------------------
(* The data layer: each write puts the row and enqueues its mutation in one *)
(* Dexie transaction.  renameProject and toggleTask read the row before     *)
(* that transaction, and the page calls every handler with a row it showed  *)
(* earlier, so the row may be gone or different by the time of the write.   *)

Pending(d, i) == \E m \in outbox[d] : m.id = i

Upsert(d, i, v) ==
    [seq |-> nextSeq[d], id |-> i, op |-> "upsert", val |-> v,
     parent |-> IF i \in Tasks THEN ParentOf[i] ELSE NoProject]

\* Mutant: the tombstone takes the key of the entry before it.
DeleteOffByOne(d, i) ==
    [seq |-> nextSeq[d] - 1, id |-> i, op |-> "delete", val |-> NoVal, parent |-> NoProject]

Delete(d, i) ==
    [seq |-> nextSeq[d], id |-> i, op |-> "delete", val |-> NoVal, parent |-> NoProject]

\* enqueue: one more outbox entry under the next key, over what box keeps.
Enqueue(d, m, box) ==
    /\ nextSeq[d] <= MaxEdits[d]
    /\ outbox' = [outbox EXCEPT ![d] = box \cup {m}]
    /\ nextSeq' = [nextSeq EXCEPT ![d] = @ + 1]

OpenRow(d, i) ==
    /\ replica[d][i] # NoVal
    /\ nextSeq[d] <= MaxEdits[d]
    /\ open' = [open EXCEPT ![d] = {i}]
    /\ UNCHANGED <<serverVars, replica, outbox, nextSeq, cursor, born, drain>>

CreateProject(d, p, v) ==
    /\ p \in Projects \ born
    /\ born' = born \cup {p}
    /\ replica' = [replica EXCEPT ![d][p] = v]
    /\ Enqueue(d, Upsert(d, p, v), outbox[d])
    /\ UNCHANGED <<serverVars, cursor, open, drain>>

AddTask(d, k, v) ==
    /\ k \in Tasks \ born
    /\ ParentOf[k] \in open[d]
    /\ born' = born \cup {k}
    /\ replica' = [replica EXCEPT ![d][k] = v]
    /\ Enqueue(d, Upsert(d, k, v), outbox[d])
    /\ open' = [open EXCEPT ![d] = {}]
    /\ UNCHANGED <<serverVars, cursor, drain>>

\* renameProject and toggleTask: the row that was read is put back, edited.
EditRow(d, i, v) ==
    /\ i \in open[d]
    /\ replica' = [replica EXCEPT ![d][i] = v]
    /\ Enqueue(d, Upsert(d, i, v), outbox[d])
    /\ open' = [open EXCEPT ![d] = {}]
    /\ UNCHANGED <<serverVars, cursor, born, drain>>

\* The project's rows go, and so do its queued writes and those of its tasks.
DeleteProject(d, p) ==
    LET family == {p} \cup {k \in Tasks : ParentOf[k] = p} IN
    /\ p \in open[d] \cap Projects
    /\ replica' = [replica EXCEPT ![d] = [i \in Ids |-> IF i \in family THEN NoVal ELSE @[i]]]
    /\ Enqueue(d, Delete(d, p), {m \in outbox[d] : m.id \notin family})
    /\ open' = [open EXCEPT ![d] = {}]
    /\ UNCHANGED <<serverVars, cursor, born, drain>>

DeleteTask(d, k) ==
    /\ k \in open[d] \cap Tasks
    /\ replica' = [replica EXCEPT ![d][k] = NoVal]
    /\ Enqueue(d, Delete(d, k), outbox[d])
    /\ open' = [open EXCEPT ![d] = {}]
    /\ UNCHANGED <<serverVars, cursor, born, drain>>

-----------------------------------------------------------------------------
(* runSync and syncOnce.                                                     *)

\* snapshotForDrain: the last mutation of every row.
ToSend(snap) == {m \in snap : \A k \in snap : k.id = m.id => k.seq <= m.seq}

\* With Web Locks at most one tab of a database is inside syncOnce.
MayDrain(t) ==
    WebLocks => \A o \in Tabs \ {t} : DbOf[o] = DbOf[t] => drain[o].phase = "idle"

\* Top of the loop: read the cursor, snapshot the outbox, post both.
Post(t, loops) ==
    LET d == DbOf[t] IN
    /\ request' = [request EXCEPT ![t] = [tab |-> t, db |-> d, cursor |-> cursor[d],
                                          muts |-> ToSend(outbox[d])]]
    /\ drain' = [drain EXCEPT ![t] = [phase |-> "waiting", snap |-> outbox[d],
                                      loops |-> loops]]
    /\ UNCHANGED <<rows, seq, horizon, tx, orphans, reply, issued, landed, faults>>
    /\ UNCHANGED <<replica, outbox, nextSeq, cursor, open, born>>

\* Mutant: a sync starts only when there is something to push.
StartDrainWhenDirty(t) ==
    /\ drain[t].phase = "idle" /\ outbox[DbOf[t]] # {}
    /\ MayDrain(t)
    /\ Post(t, 1)

StartDrain(t) ==
    /\ drain[t].phase = "idle"
    /\ MayDrain(t)
    /\ Post(t, 1)

ContinueDrain(t) ==
    /\ drain[t].phase = "loop"
    /\ drain[t].loops < MaxPullLoops
    /\ Post(t, drain[t].loops + 1)

\* "Sync did not converge"
GiveUp(t) ==
    /\ drain[t].phase = "loop"
    /\ drain[t].loops = MaxPullLoops
    /\ drain' = [drain EXCEPT ![t] = Idle]
    /\ UNCHANGED <<serverVars, replica, outbox, nextSeq, cursor, open, born>>

TakeReply(t) == reply' = [reply EXCEPT ![t] = NoReply]

ReceiveError(t) ==
    /\ drain[t].phase = "waiting" /\ reply[t].kind = "error"
    /\ TakeReply(t)
    /\ drain' = [drain EXCEPT ![t] = Idle]
    /\ UNCHANGED <<rows, seq, horizon, tx, request, orphans, issued, landed, faults>>
    /\ UNCHANGED <<replica, outbox, nextSeq, cursor, open, born>>

\* Mutant: the stores are wiped, the cursor stays.
ReceiveResyncKeepsCursor(t) ==
    /\ drain[t].phase = "waiting" /\ reply[t].kind = "resync"
    /\ replica' = [replica EXCEPT ![DbOf[t]] = EmptyReplica]
    /\ TakeReply(t)
    /\ drain' = [drain EXCEPT ![t].phase = "loop", ![t].snap = {}]
    /\ UNCHANGED <<rows, seq, horizon, tx, request, orphans, issued, landed, faults>>
    /\ UNCHANGED <<outbox, nextSeq, cursor, open, born>>

\* Wipe and start over; what the answer applied stays in the outbox.
ReceiveResync(t) ==
    /\ drain[t].phase = "waiting" /\ reply[t].kind = "resync"
    /\ replica' = [replica EXCEPT ![DbOf[t]] = EmptyReplica]
    /\ cursor' = [cursor EXCEPT ![DbOf[t]] = 0]
    /\ TakeReply(t)
    /\ drain' = [drain EXCEPT ![t].phase = "loop", ![t].snap = {}]
    /\ UNCHANGED <<rows, seq, horizon, tx, request, orphans, issued, landed, faults>>
    /\ UNCHANGED <<outbox, nextSeq, open, born>>

\* Mutant: every queued mutation of an answered row goes, captured or not.
AnsweredByRow(t) ==
    {k \in outbox[DbOf[t]] :
        \E m \in ToSend(drain[t].snap) :
            m.id = k.id /\ m.seq \in reply[t].applied \cup reply[t].rejected}

\* deleteApplied, and the same for the rejected: every captured mutation of a
\* row whose last one was answered.
Answered(t) ==
    {k \in drain[t].snap :
        \E m \in ToSend(drain[t].snap) :
            m.id = k.id /\ m.seq \in reply[t].applied \cup reply[t].rejected}
AckOutbox(t) ==
    /\ drain[t].phase = "waiting" /\ reply[t].kind = "ok"
    /\ outbox' = [outbox EXCEPT ![DbOf[t]] = @ \ Answered(t)]
    /\ drain' = [drain EXCEPT ![t].phase = "acked", ![t].snap = {}]
    /\ UNCHANGED <<serverVars, replica, nextSeq, cursor, open, born>>

\* The page over the replica: projects first, a tombstone taking the project's
\* tasks along, then tasks; rows with a pending mutation are left alone.
Pulled(t, i) == Exists(reply[t].page[i]) /\ ~Pending(DbOf[t], i)
Cascades(t, i) ==
    /\ i \in Tasks
    /\ Pulled(t, ParentOf[i]) /\ reply[t].page[ParentOf[i]].deleted

\* Mutant: a task's tombstone is not applied.
MergedSkipsTombstones(t, i) ==
    IF Pulled(t, i) /\ ~reply[t].page[i].deleted THEN reply[t].page[i].val
    ELSE IF Pulled(t, i) /\ i \in Projects THEN NoVal
    ELSE IF Cascades(t, i) THEN NoVal
    ELSE replica[DbOf[t]][i]

Merged(t, i) ==
    IF Pulled(t, i) THEN IF reply[t].page[i].deleted THEN NoVal ELSE reply[t].page[i].val
    ELSE IF Cascades(t, i) THEN NoVal
    ELSE replica[DbOf[t]][i]

MergePage(t) ==
    /\ drain[t].phase = "acked"
    /\ replica' = [replica EXCEPT ![DbOf[t]] = [i \in Ids |-> Merged(t, i)]]
    /\ drain' = [drain EXCEPT ![t].phase = "merged"]
    /\ UNCHANGED <<serverVars, outbox, nextSeq, cursor, open, born>>

\* Mutant: the cursor is saved before the page is merged.
SaveCursorFirst(t) ==
    /\ drain[t].phase = "acked"
    /\ cursor' = [cursor EXCEPT ![DbOf[t]] = reply[t].cursor]
    /\ drain' = [drain EXCEPT ![t] = Idle]
    /\ TakeReply(t)
    /\ UNCHANGED <<rows, seq, horizon, tx, request, orphans, issued, landed, faults>>
    /\ UNCHANGED <<replica, outbox, nextSeq, open, born>>

SaveCursor(t) ==
    /\ drain[t].phase = "merged"
    /\ cursor' = [cursor EXCEPT ![DbOf[t]] = reply[t].cursor]
    /\ drain' = [drain EXCEPT ![t] = IF reply[t].hasMore THEN [@ EXCEPT !.phase = "loop"]
                                     ELSE Idle]
    /\ TakeReply(t)
    /\ UNCHANGED <<rows, seq, horizon, tx, request, orphans, issued, landed, faults>>
    /\ UNCHANGED <<replica, outbox, nextSeq, open, born>>

-----------------------------------------------------------------------------
(* Failures.                                                                 *)

Forsake(T) ==
    /\ Abandon(T)
    /\ drain' = [t \in Tabs |-> IF t \in T THEN Idle ELSE drain[t]]

\* The tab is closed, or its fetch throws, anywhere in syncOnce.
StopDrain(t) ==
    /\ drain[t].phase # "idle"
    /\ Forsake({t})
    /\ UNCHANGED <<replica, outbox, nextSeq, cursor, open, born>>

\* deleteTenantDb: the database goes, pending mutations included.  The key of
\* the next outbox entry is kept only to tell entries of the two lives apart.
SignOut(d) ==
    /\ replica[d] # EmptyReplica \/ outbox[d] # {}
    /\ Forsake({t \in Tabs : DbOf[t] = d})
    /\ replica' = [replica EXCEPT ![d] = EmptyReplica]
    /\ outbox' = [outbox EXCEPT ![d] = {}]
    /\ cursor' = [cursor EXCEPT ![d] = 0]
    /\ open' = [open EXCEPT ![d] = {}]
    /\ UNCHANGED <<nextSeq, born>>

-----------------------------------------------------------------------------
LocalWrite ==
    \E d \in Dbs :
        \/ \E i \in Ids : OpenRow(d, i)
        \/ \E p \in Projects : \/ \E v \in Vals : CreateProject(d, p, v)
                               \/ DeleteProject(d, p)
        \/ \E k \in Tasks : \/ \E v \in Vals : AddTask(d, k, v)
                            \/ DeleteTask(d, k)
        \/ \E i \in Ids, v \in Vals : EditRow(d, i, v)

DrainStep(t) ==
    \/ StartDrain(t) \/ ContinueDrain(t) \/ GiveUp(t)
    \/ ReceiveError(t) \/ ReceiveResync(t)
    \/ AckOutbox(t) \/ MergePage(t) \/ SaveCursor(t)

Next ==
    \/ LocalWrite
    \/ \E t \in Tabs : DrainStep(t) \/ StopDrain(t)
    \/ \E d \in Dbs : SignOut(d)
    \/ ServerStep /\ UNCHANGED clientVars
    \/ \E n \in Tenants : Rollback(n) /\ UNCHANGED clientVars
    \/ CollectTombstones /\ UNCHANGED clientVars

Spec == Init /\ [][Next]_vars

(* Every tab starts a sync every 30 seconds and each await of syncOnce ends; *)
(* the server works on what it has taken, and the advisory lock is granted   *)
(* in the order it was asked for, so a request that finds it free again and  *)
(* again is served.  Nothing promises that an abandoned request arrives.     *)
Fairness ==
    /\ \A t \in Tabs : WF_vars(DrainStep(t)) /\ SF_vars(TakeRequest(t) /\ UNCHANGED clientVars)
    /\ \A n \in Tenants :
         WF_vars((\/ ApplyMutation(n) \/ FinishPull(n)
                  \/ FinishResync(n) \/ FinishBroken(n)) /\ UNCHANGED clientVars)

FairSpec == Spec /\ Fairness

-----------------------------------------------------------------------------
(* Properties.                                                               *)

Visible(r) == IF IsLive(r) THEN r.val ELSE NoVal

\* Row i is d's to have seen: of its tenant, at or below its cursor, and not
\* covered by a local write that is still to be pushed.
Settled(d, i) ==
    /\ Exists(rows[i]) /\ rows[i].tenant = TenantOf[d]
    /\ rows[i].ver <= cursor[d]
    /\ ~Pending(d, i)

(* The cursor never runs ahead of the replica: below it, a project without a *)
(* pending write is in the browser exactly as it is on the server.  A row    *)
(* skipped here is never sent again, since pulls start at the cursor         *)
(* (client.ts: ack, merge and cursor are three separate Dexie transactions). *)
ProjectsFaithful ==
    \A d \in Dbs, p \in Projects :
        Settled(d, p) => replica[d][p] = Visible(rows[p])

(* The same for tasks, except that a browser may be missing a live task: a   *)
(* project's tombstone removes its tasks locally and they are not sent       *)
(* again.  What it shows is never stale and never a deleted task.            *)
TasksFaithful ==
    \A d \in Dbs, k \in Tasks :
        Settled(d, k) => replica[d][k] \in {NoVal, Visible(rows[k])}

(* An edit leaves the outbox only when it is on the server, or a later write *)
(* of the same row by the same browser is, or the user has deleted the       *)
(* project or signed out (outbox.ts: "mid-flight edits are never clobbered"; *)
(* deleteApplied, purgeForProject, deleteTenantDb).                          *)
OutboxForgetsOnlyLanded ==
    [][\A d \in Dbs : \A m \in outbox[d] \ outbox'[d] :
         \/ \E k \in outbox[d] : k.id = m.id /\ k.seq >= m.seq /\ k.seq \in landed[d]
         \/ \E k \in outbox'[d] \ outbox[d] :
                k.op = "delete" /\ k.id \in {m.id} \cup {ParentOf[i] : i \in {m.id} \cap Tasks}
         \/ outbox'[d] = {} /\ replica'[d] = EmptyReplica /\ cursor'[d] = 0]_vars

(* A browser that is up to date with the collector keeps no project that is  *)
(* gone from the server, tombstone and all (route.ts: cursors older than the *)
(* horizon "may have missed hard-deleted tombstones").                       *)
NoZombies ==
    \A d \in Dbs, p \in Projects :
        (/\ ~Exists(rows[p]) /\ ~Pending(d, p)
         /\ cursor[d] >= horizon
         /\ \A t \in Tabs : DbOf[t] = d => drain[t].phase = "idle")
           => replica[d][p] = NoVal

(* Once the users stop writing and failures stop, every browser pushes what  *)
(* it has and shows the server's projects, however many requests were lost,  *)
(* repeated or interrupted before (README of the template: clients drain the *)
(* outbox and pull by cursor; stale ones "re-pull from scratch").            *)
Converged ==
    \A d \in Dbs :
        /\ outbox[d] = {}
        /\ \A p \in Projects :
             rows[p].tenant \in {TenantOf[d], NoTenant} => replica[d][p] = Visible(rows[p])
EventuallyConverged == <>[]Converged
===============================================================================
