------------------------------- MODULE Billing -------------------------------
(***************************************************************************)
(* Per-app billing of one workspace (src/platform/src/billing/             *)
(* billing.service.ts): the webhook that drives the workspace's AppTenant  *)
(* rows from Stripe's events, next to the administrators who write the     *)
(* same rows (tenants.service.ts) and delete tenants and apps under it.    *)
(*                                                                         *)
(* Stripe is external.  It delivers a snapshot of an order at least once,  *)
(* in any order, also concurrently.  A handler reads the row, awaits and   *)
(* writes; nothing is locked in between.                                   *)
(***************************************************************************)
EXTENDS Integers, Sequences, FiniteSets

CONSTANTS
    Apps,         \* registered apps
    Orders,       \* checkouts ever paid: subscriptions and purchases
    Tiers,        \* the tiers orders are billed at
    Registered,   \* the tiers whose price is registered with the platform
    Procs,        \* webhook requests in flight at a time
    Terms,        \* the statuses administrators set
    NoApp, NoOrder, NoTier,
    MaxVersions,  \* bound: changes of orders
    MaxTotal,     \* bound: those, changes by administrators and faults together
    MaxChanges,   \* bound: operations of administrators
    MaxFaults     \* bound: crashes, repeated and overlapping deliveries

Status == {"TRIAL", "ACTIVE", "PAST_DUE", "SUSPENDED"}

ASSUME BillingAssumption ==
    /\ Registered \subseteq Tiers /\ Terms \subseteq Status
    /\ NoApp \notin Apps /\ NoOrder \notin Orders /\ NoTier \notin Tiers
    /\ MaxVersions \in Nat \ {0} /\ MaxTotal \in Nat /\ MaxChanges \in Nat /\ MaxFaults \in Nat

VARIABLES
    life,      \* the tenant's and the apps' rows
    access,    \* the AppTenant rows, by app
    hist,      \* history: what the rows are due to, by app
    orders,    \* what Stripe holds
    pending,   \* events not acknowledged yet
    acked,     \* events acknowledged, which Stripe may still repeat
    procs,     \* where each request is
    changes, faults

vars == <<life, access, hist, orders, pending, acked, procs, changes, faults>>

Tenant == "tenant"

\* A deadline, trialEndsAt or graceUntil: null, in the future or passed.
Deadline == {"none", "running", "over"}

Row == [row: BOOLEAN, status: Status, grace: Deadline, trial: Deadline,
        order: Orders \cup {NoOrder}, plan: Tiers \cup {NoTier}]
NoRow == [row |-> FALSE, status |-> "ACTIVE", grace |-> "none", trial |-> "none",
          order |-> NoOrder, plan |-> NoTier]

\* The statuses of a subscription: active stands for trialing too, ended for
\* canceled, unpaid, paused and incomplete_expired.
Snapshot == [status: {"incomplete", "active", "past_due", "ended", "bought"},
             tier: Tiers, invoice: {"none", "paid", "failed"}]

\* log: what Stripe said of the order, one snapshot per change; app: the app
\* its metadata names.
Order == [app: Apps \cup {NoApp}, log: Seq(Snapshot)]
NotPaid == [app |-> NoApp, log |-> <<>>]

\* Events of the v-th change of an order: its state, and the invoice with it.
Event == [order: Orders, v: 1..MaxVersions, kind: {"state", "invoice"}]
NoEvent == [order |-> NoOrder, v |-> 0, kind |-> "state"]

\* A request: read is the row it found, raced (history) that it changed since.
Proc == [pc: {"idle", "write"}, ev: Event \cup {NoEvent}, app: Apps \cup {NoApp},
         read: Row, raced: BOOLEAN]
IdleProc == [pc |-> "idle", ev |-> NoEvent, app |-> NoApp, read |-> NoRow, raced |-> FALSE]

\* by: who wrote the status last, where failed and paid invoices do not count.
\* lead: the subscription that last was live on the row.  seen: the newest
\* change of each order applied.  muddled: an older change was applied after a
\* newer one, or a request wrote over what it had not read.  dunned: a failed
\* payment, or such a request, since an administrator suspended the row.
Hist == [by: {"billing", "purchase", "admin", "suspension"}, lead: Orders \cup {NoOrder},
         seen: [Orders -> Nat], muddled: BOOLEAN, dunned: BOOLEAN]

TypeOK ==
    /\ life \in [Apps \cup {Tenant} -> {"present", "purged"}]
    /\ access \in [Apps -> Row]
    /\ hist \in [Apps -> Hist]
    /\ orders \in [Orders -> Order]
    /\ pending \subseteq Event /\ acked \subseteq Event
    /\ procs \in [Procs -> Proc]
    /\ changes \in 0..MaxChanges /\ faults \in 0..MaxFaults

NewHist == [by |-> "admin", lead |-> NoOrder, seen |-> [o \in Orders |-> 0],
            muddled |-> FALSE, dunned |-> FALSE]

\* A row exists before any billing call: signup, auto-enroll or a grant made
\* it; here on a trial.
Init ==
    /\ life = [x \in Apps \cup {Tenant} |-> "present"]
    /\ access = [a \in Apps |-> [NoRow EXCEPT !.row = TRUE, !.status = "TRIAL", !.trial = "running"]]
    /\ hist = [a \in Apps |-> NewHist]
    /\ orders = [o \in Orders |-> NotPaid]
    /\ pending = {} /\ acked = {}
    /\ procs = [p \in Procs |-> IdleProc]
    /\ changes = 0 /\ faults = 0

Published == Cardinality({e \in pending \cup acked : e.kind = "state"})
HasRoom == Published + changes + faults < MaxTotal
Fault == HasRoom /\ faults < MaxFaults /\ faults' = faults + 1
Administer == HasRoom /\ changes < MaxChanges /\ changes' = changes + 1

stripe == <<orders, pending, acked>>
rows == <<access, hist>>

Finish(p) == procs' = [procs EXCEPT ![p] = IdleProc]

\* A step that changes the row of app a: who read it before has read another.
Raced(P, a) == [q \in DOMAIN P |-> IF P[q].pc = "write" /\ P[q].app = a
                                   THEN [P[q] EXCEPT !.raced = TRUE] ELSE P[q]]

-----------------------------------------------------------------------------
(* Stripe: orders change, each change publishes its events.                 *)

Live(o) == orders[o].log # <<>>
Now(o) == orders[o].log[Len(orders[o].log)]

Change(o, a, s) ==
    /\ Published < MaxVersions /\ HasRoom
    /\ orders' = [orders EXCEPT ![o] = [app |-> a, log |-> Append(@.log, s)]]
    /\ LET v == Len(orders[o].log) + 1
           kinds == {"state"} \cup (IF s.invoice = "none" THEN {} ELSE {"invoice"})
       IN pending' = pending \cup {[order |-> o, v |-> v, kind |-> k] : k \in kinds}
    /\ UNCHANGED <<life, access, hist, acked, procs, changes, faults>>

Said(status, tier, invoice) == [status |-> status, tier |-> tier, invoice |-> invoice]

\* The customer pays a checkout session (module Catalogue) of some app: for a
\* purchase, or for a subscription, whose first payment may stay incomplete.  The
\* failed invoice of an incomplete one is left out.
Pay(o) ==
    /\ ~Live(o)
    /\ \E a \in Apps, t \in Registered :
          \/ Change(o, a, Said("bought", t, "none"))
          \/ Change(o, a, Said("active", t, "paid"))
          \/ Change(o, a, Said("incomplete", t, "none"))

\* A subscription is paid, renewed, in arrears, moved to another tier in the
\* portal, or ends.
Renew(o) ==
    /\ Live(o) /\ Now(o).status \in {"incomplete", "active", "past_due"}
    /\ Change(o, orders[o].app, Said("active", Now(o).tier, "paid"))

Lapse(o) ==
    /\ Live(o) /\ Now(o).status \in {"active", "past_due"}
    /\ Change(o, orders[o].app, Said("past_due", Now(o).tier, "failed"))

Upgrade(o) ==
    /\ Live(o) /\ Now(o).status = "active"
    /\ \E t \in Tiers \ {Now(o).tier} : Change(o, orders[o].app, Said("active", t, "none"))

End(o) ==
    /\ Live(o) /\ Now(o).status \in {"incomplete", "active", "past_due"}
    /\ Change(o, orders[o].app, Said("ended", Now(o).tier, "none"))

-----------------------------------------------------------------------------
(* The webhook.                                                             *)

Of(e) == orders[e.order].log[e.v]

\* The status a subscription's status maps to.
Mapped(status) ==
    CASE status = "active" -> "ACTIVE"
      [] status = "past_due" -> "PAST_DUE"
      [] OTHER -> "SUSPENDED"

\* tierOf: the plan of the price the order bills, or the plan it replaces.
TierOf(s, plan) == IF s.tier \in Registered THEN s.tier ELSE plan

\* accessBySubscriptionId; syncSubscription finds the row by its metadata.
RowsOf(e) ==
    {a \in Apps : /\ access[a].row
                  /\ IF e.kind = "state" THEN a = orders[e.order].app ELSE access[a].order = e.order}

\* Mutants of Ignored: paid invoices lift anything; any subscription may end a row.
IgnoredNoPaidCheck(e, row) ==
    /\ e.kind = "state" /\ Mapped(Of(e).status) = "SUSPENDED"
    /\ row.order \notin {NoOrder, e.order}
IgnoredNoOwner(e, row) == e.kind = "invoice" /\ Of(e).invoice = "paid" /\ row.status # "PAST_DUE"

\* A paid invoice lifts PAST_DUE only, and a row owned by another subscription
\* ignores an end.
Ignored(e, row) ==
    \/ e.kind = "invoice" /\ Of(e).invoice = "paid" /\ row.status # "PAST_DUE"
    \/ /\ e.kind = "state" /\ Mapped(Of(e).status) = "SUSPENDED"
       /\ row.order \notin {NoOrder, e.order}

Acknowledge(e) == pending' = pending \ {e} /\ acked' = acked \cup {e}

\* An event of e that found, and answered for, the row of app a.
Noted(h, e) == [h EXCEPT !.seen[e.order] = IF e.v > @ THEN e.v ELSE @]

\* Stripe delivers an event to handler p.  What it repeats, and what arrives
\* while another event is handled, counts as a fault.
Arrives(p, e) ==
    /\ procs[p].pc = "idle"
    /\ e \in pending \cup acked
    /\ IF e \in pending /\ procs = [q \in Procs |-> IdleProc] THEN UNCHANGED faults
       ELSE Fault

\* A handler reads the row the event is about.  An event about no row is
\* acknowledged, except that a subscription may make its row.
Receive(p, e) ==
    /\ Arrives(p, e)
    /\ Of(e).status # "bought"
    /\ LET found == RowsOf(e)
           a == IF found = {} THEN orders[e.order].app ELSE CHOOSE b \in found : TRUE
           row == IF found = {} THEN NoRow ELSE access[a]
       IN IF (found = {} /\ e.kind = "invoice") \/ (found # {} /\ Ignored(e, row))
          THEN /\ Acknowledge(e)
               /\ hist' = IF found = {} THEN hist ELSE [hist EXCEPT ![a] = Noted(@, e)]
               /\ UNCHANGED procs
          ELSE /\ procs' = [procs EXCEPT ![p] =
                               [IdleProc EXCEPT !.pc = "write", !.ev = e, !.app = a, !.read = row]]
               /\ UNCHANGED <<pending, acked, hist>>
    /\ UNCHANGED <<life, access, orders, changes>>

\* What onCheckoutCompleted upserts.
Purchased(row, s) ==
    [row EXCEPT !.row = TRUE, !.status = "ACTIVE", !.grace = "none", !.trial = "none",
                !.plan = s.tier]

\* onCheckoutCompleted is one statement, refused only for want of a tenant or
\* an app; that too is acknowledged.
ReceivePurchase(p, e) ==
    /\ Arrives(p, e)
    /\ Of(e).status = "bought"
    /\ Acknowledge(e)
    /\ LET a == orders[e.order].app IN
       IF "purged" \in {life[a], life[Tenant]}
       THEN UNCHANGED <<rows, procs>>
       ELSE /\ access' = [access EXCEPT ![a] = Purchased(@, Of(e))]
            /\ hist' = [hist EXCEPT ![a].by = "purchase"]
            /\ procs' = Raced(procs, a)
    /\ UNCHANGED <<life, orders, changes>>

\* Mutant of GraceFrom: every failure starts the grace anew.
GraceAnew(read) == "running"

\* The grace of a row that falls behind: the deadline it had, or a new one.
GraceFrom(read) == IF read.grace = "none" THEN "running" ELSE read.grace

\* syncSubscription's data, from the row it read, for a row that now is row.
Synced(row, read, e) ==
    LET s == Of(e) IN
    [row EXCEPT !.row = TRUE, !.status = Mapped(s.status),
                !.grace = IF s.status = "past_due" THEN GraceFrom(read) ELSE "none",
                !.trial = "none", !.order = e.order, !.plan = TierOf(s, @)]

\* onPaymentFailed and onInvoicePaid.
Invoiced(row, read, e) ==
    IF Of(e).invoice = "failed"
    THEN [row EXCEPT !.status = "PAST_DUE", !.grace = GraceFrom(read)]
    ELSE [row EXCEPT !.status = "ACTIVE", !.grace = "none"]

Written(row, read, e) == IF e.kind = "state" THEN Synced(row, read, e) ELSE Invoiced(row, read, e)

\* History of a write by request r.
Marked(h, r) ==
    LET e == r.ev
        late == e.v < h.seen[e.order] \/ r.raced
        leads == e.kind = "state" /\ (Mapped(Of(e).status) # "SUSPENDED" \/ h.lead \in {NoOrder, e.order})
    IN [Noted(h, e) EXCEPT
           !.by = IF e.kind = "state" THEN "billing" ELSE @,
           !.lead = IF leads THEN e.order ELSE @,
           !.muddled = late \/ (@ /\ ~leads),
           !.dunned = @ \/ Of(e).invoice = "failed" \/ r.raced]

\* The database refuses to create a row whose tenant or app is gone (P2003) or
\* that exists by now (P2002), and to update one that is gone (P2025).
Refused(r) ==
    \/ ~r.read.row /\ "purged" \in {life[r.app], life[Tenant]}
    \/ r.read.row # access[r.app].row

\* acknowledgeOrphan: P2003 is answered like a success; any other error makes
\* Stripe deliver again.
OrphanRethrown(r) == FALSE
Orphan(r) == ~r.read.row /\ "purged" \in {life[r.app], life[Tenant]}

Write(p) ==
    /\ procs[p].pc = "write"
    /\ LET r == procs[p] IN
       /\ IF Refused(r)
          THEN Finish(p) /\ UNCHANGED rows
          ELSE /\ access' = [access EXCEPT ![r.app] = Written(@, r.read, r.ev)]
               /\ hist' = [hist EXCEPT ![r.app] = Marked(@, r)]
               /\ procs' = Raced([procs EXCEPT ![p] = IdleProc], r.app)
       /\ IF Refused(r) /\ ~Orphan(r) THEN UNCHANGED <<pending, acked>> ELSE Acknowledge(r.ev)
    /\ UNCHANGED <<life, orders, changes, faults>>

\* The server stops between two statements of a request.
Crash(p) ==
    /\ procs[p].pc # "idle"
    /\ Fault
    /\ Finish(p)
    /\ UNCHANGED <<life, rows, stripe, changes>>

-----------------------------------------------------------------------------
(* Administrators, and time.                                                *)

\* setAppAccess with a status, which leaves the deadlines as they are.
SetAppAccess(a, status) ==
    /\ Administer
    /\ life[Tenant] # "purged" /\ life[a] # "purged"
    /\ access' = [access EXCEPT ![a].row = TRUE, ![a].status = status]
    /\ hist' = [hist EXCEPT ![a] = [@ EXCEPT !.by = IF status = "SUSPENDED" THEN "suspension" ELSE "admin",
                                             !.dunned = FALSE]]
    /\ procs' = Raced(procs, a)
    /\ UNCHANGED <<life, stripe, faults>>

Emptied(h) == [NewHist EXCEPT !.seen = h.seen]

RemoveAppAccess(a) ==
    /\ Administer
    /\ life[Tenant] # "purged" /\ life[a] # "purged" /\ access[a].row
    /\ access' = [access EXCEPT ![a] = NoRow]
    /\ hist' = [hist EXCEPT ![a] = Emptied(@)]
    /\ procs' = Raced(procs, a)
    /\ UNCHANGED <<life, stripe, faults>>

\* The purge of a tenant or an app that was soft-deleted before, which no
\* webhook looks at, cascades to the rows.
Purge(x) ==
    /\ Administer /\ life[x] = "present"
    /\ life' = [life EXCEPT ![x] = "purged"]
    /\ LET hit(a) == x \in {a, Tenant} IN
       /\ access' = [a \in Apps |-> IF hit(a) THEN NoRow ELSE access[a]]
       /\ hist' = [a \in Apps |-> IF hit(a) THEN Emptied(hist[a]) ELSE hist[a]]
    /\ UNCHANGED <<stripe, procs, faults>>

\* A deadline passes, in the row and in whoever has read it.
Passed(row) == [row EXCEPT !.grace = IF @ = "running" THEN "over" ELSE @,
                           !.trial = IF @ = "running" THEN "over" ELSE @]
DeadlinePasses(a) ==
    /\ "running" \in {access[a].grace, access[a].trial}
    /\ access' = [access EXCEPT ![a] = Passed(@)]
    /\ procs' = [p \in Procs |-> IF procs[p].app = a THEN [procs[p] EXCEPT !.read = Passed(@)]
                                 ELSE procs[p]]
    /\ UNCHANGED <<life, hist, stripe, changes, faults>>

-----------------------------------------------------------------------------
Deliver(e) == \E p \in Procs : Receive(p, e) \/ ReceivePurchase(p, e)

Next ==
    \/ \E o \in Orders : Pay(o) \/ Renew(o) \/ Lapse(o) \/ Upgrade(o) \/ End(o)
    \/ \E p \in Procs : Write(p) \/ Crash(p)
    \/ \E e \in pending \cup acked : Deliver(e)
    \/ \E a \in Apps : \/ \E t \in Terms : SetAppAccess(a, t)
                       \/ RemoveAppAccess(a) \/ DeadlinePasses(a)
    \/ \E x \in Apps \cup {Tenant} : Purge(x)

\* Stripe delivers as long as something is pending; a request that has begun
\* goes on.
Fairness ==
    /\ WF_vars(\E e \in pending : Deliver(e))
    /\ \A p \in Procs : WF_vars(Write(p))

Spec == Init /\ [][Next]_vars /\ Fairness
-----------------------------------------------------------------------------
(* What entitlement answers, and what sign-in admits.                       *)

\* Mutant of Entitled: the grace is forgotten.
EntitledForever(a) ==
    /\ access[a].row /\ access[a].status # "SUSPENDED"
    /\ ~(access[a].status = "TRIAL" /\ access[a].trial = "over")

\* entitlement: enabled.
Entitled(a) ==
    /\ access[a].row /\ access[a].status # "SUSPENDED"
    /\ ~(access[a].status = "TRIAL" /\ access[a].trial = "over")
    /\ ~(access[a].status = "PAST_DUE" /\ access[a].grace = "over")

\* assertAppEnabled, of an app that is not deleted.
Door(a) ==
    /\ access[a].row
    /\ CASE access[a].status = "SUSPENDED" -> FALSE
         [] access[a].status = "TRIAL" -> access[a].trial # "over"
         [] access[a].status = "PAST_DUE" -> access[a].grace # "over"
         [] OTHER -> TRUE

-----------------------------------------------------------------------------
(* Properties.                                                              *)

\* The banner agrees with the door: whatever sequence of events and grants
\* wrote a row, entitlement says enabled exactly when a sign-in would be
\* admitted (billing.service.ts:219-221).
BannerAgrees == \A a \in Apps : life[a] = "present" => (Entitled(a) <=> Door(a))

\* Once every event of the subscription that leads a row is acknowledged, the
\* row says what Stripe says, its plan included: also when events were
\* repeated, handled concurrently, or answered with an error first, and
\* whatever other subscriptions of the app ended meanwhile.  Excused are rows
\* an older event or an overtaken request wrote last (until the next event
\* heals them), and those an administrator or a purchase wrote since.
RowsMirrorStripe ==
    \A a \in Apps :
        LET o == hist[a].lead IN
        (/\ access[a].row /\ o # NoOrder /\ hist[a].by = "billing" /\ ~hist[a].muddled
         /\ \A e \in pending : e.order # o)
        => /\ access[a].status = Mapped(Now(o).status)
           /\ access[a].order = o
           /\ Now(o).tier \in Registered => access[a].plan = Now(o).tier

\* Billing alone never makes a row ACTIVE before a payment: some order of the
\* app was paid, in whatever order, and however often, events arrived.
NoFreeAccess ==
    \A a \in Apps :
        (access[a].row /\ hist[a].by = "billing" /\ access[a].status = "ACTIVE")
        => \E o \in Orders : /\ orders[o].app = a
                             /\ \E v \in DOMAIN orders[o].log : orders[o].log[v].status = "active"

\* Every state is well typed, banners agree, and nothing is free.
BillingInv == TypeOK /\ BannerAgrees /\ NoFreeAccess

\* A row an administrator suspended stays suspended while billing reports no
\* more than paid invoices: only a failed payment, or a request that had read
\* the row before, lets an invoice lift it (billing.service.ts:54-55, 566).
PaidInvoicesLiftNoSuspension ==
    \A a \in Apps :
        (access[a].row /\ hist[a].by = "suspension" /\ ~hist[a].dunned)
        => access[a].status = "SUSPENDED"

\* Failing again buys no time: while a row stays PAST_DUE its grace, once over,
\* does not start anew, unless an overtaken or an outdated event wrote it.
GraceIsNotRenewed ==
    [][\A a \in Apps :
          (/\ access[a].row /\ access[a].status = "PAST_DUE" /\ access[a].grace = "over"
           /\ access'[a].row /\ access'[a].status = "PAST_DUE" /\ ~hist'[a].muddled)
          => access'[a].grace = "over"]_vars

\* The feed of events Stripe sees: none is dropped, each is acknowledged in the
\* end although handlers fail, race and meet rows, tenants and apps that are
\* gone (billing.service.ts:463-471).
Feed == INSTANCE EventFeed WITH Event <- Event, pending <- pending, acked <- acked
EventsAcknowledged == Feed!Spec
=============================================================================
