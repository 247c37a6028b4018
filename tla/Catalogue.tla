------------------------------ MODULE Catalogue ------------------------------
(***************************************************************************)
(* What apps sell, from Stripe's price objects to a checkout page: the     *)
(* script that creates them (platform/scripts/stripe_catalogue.py), their  *)
(* registration with an app (apps.service.ts), the pricing table, checkout *)
(* and portal of one workspace (billing.service.ts), and the check that    *)
(* says whether the deployment can sell (billing-readiness.service.ts).    *)
(*                                                                         *)
(* Stripe and the operator are external.  A restart may bring another key, *)
(* of the other mode, and ends the requests in flight.                     *)
(***************************************************************************)
EXTENDS Integers, Sequences, FiniteSets

CONSTANTS
    Apps, Prices,
    Tiers,     \* the names operators give tiers
    Wanted,    \* the catalogue file: the cadence of each price, in order
    Procs,     \* requests in flight at a time
    NoApp, NoPrice, NoTier,
    MaxOps     \* bound: requests, runs of the script, changes and restarts

Modes == {"unset", "test", "live"}
Cadence == {"month", "year", "once"}

ASSUME CatalogueAssumption ==
    /\ NoApp \notin Apps /\ NoPrice \notin Prices /\ NoTier \notin Tiers
    /\ Wanted \in Seq(Cadence \ {"once"}) /\ Wanted # <<>>
    /\ MaxOps \in Nat

VARIABLES
    mode,      \* stripeMode of the key this process started with
    stripe,    \* Stripe's prices, products and customers
    script,    \* the run of stripe_catalogue.py
    rows,      \* the AppPrice rows, by Stripe price
    apps,      \* the apps that are not deleted
    enabled,   \* the apps the workspace has a row with
    customer,  \* the workspace's stripeCustomerId
    procs,     \* requests in flight
    ops,       \* operations spent
    doubled,   \* history: a customer was made while another was, or then lost
    refused    \* history: Stripe refused a checkout of a deployment found ready

vars == <<mode, stripe, script, rows, apps, enabled, customer, procs, ops, doubled, refused>>

\* A price object; entry is the line of the file it was made from, 0 when made
\* by hand.
StripePrice == [state: {"none", "active", "archived"}, live: BOOLEAN, every: Cadence,
                product: Nat, entry: 0..Len(Wanted)]
NotMade == [state |-> "none", live |-> FALSE, every |-> "month", product |-> 0, entry |-> 0]

\* known: the price list it read, and grown by what it made; next: the line it is at.
Script == [on: BOOLEAN, known: SUBSET Prices, product: Nat, next: 1..(Len(Wanted) + 1)]
NoScript == [on |-> FALSE, known |-> {}, product |-> 0, next |-> 1]

\* verified: the product id is not empty, so the facts were read from Stripe.
Row == [id: Nat, app: Apps, tier: Tiers, every: Cadence, live: BOOLEAN, verified: BOOLEAN]
NoRow == [id |-> 0, app |-> NoApp, tier |-> NoTier, every |-> "month", live |-> FALSE, verified |-> FALSE]

\* A request.  id: the row it read; stale (history): what it has checked was
\* taken back since.
Proc == [pc: {"idle", "add", "refresh", "resolve", "relation", "customer", "create", "store", "session"},
         app: Apps \cup {NoApp}, price: Prices \cup {NoPrice}, tier: Tiers \cup {NoTier}, id: Nat,
         every: Cadence, live: BOOLEAN, customer: Nat, portal: BOOLEAN, stale: BOOLEAN]
Idle == [pc |-> "idle", app |-> NoApp, price |-> NoPrice, tier |-> NoTier, id |-> 0, every |-> "month",
         live |-> FALSE, customer |-> 0, portal |-> FALSE, stale |-> FALSE]

TypeOK ==
    /\ mode \in Modes
    /\ stripe \in [prices: [Prices -> StripePrice], products: [BOOLEAN -> Nat], customers: Seq(BOOLEAN)]
    /\ script \in Script
    /\ rows \in [Prices -> Row \cup {NoRow}]
    /\ apps \subseteq Apps /\ enabled \subseteq Apps
    /\ customer \in 0..Len(stripe.customers)
    /\ procs \in [Procs -> Proc]
    /\ ops \in 0..MaxOps
    /\ doubled \in BOOLEAN /\ refused \in BOOLEAN

Rows == {p \in Prices : rows[p] # NoRow}
RowsOf(a) == {p \in Rows : rows[p].app = a}
Live == mode = "live"

\* A price made by hand may exist, registered or not.  A row from before the
\* key was required holds a placeholder: monthly, of test mode.
Init ==
    /\ mode \in Modes
    /\ \E p \in Prices, a \in Apps, t \in Tiers, live \in BOOLEAN, every \in {"year", "once"} :
         /\ stripe = [prices |-> [x \in Prices |-> IF x = p
                                    THEN [NotMade EXCEPT !.state = "active", !.live = live, !.every = every]
                                    ELSE NotMade],
                      products |-> [l \in BOOLEAN |-> 0], customers |-> <<>>]
         /\ rows \in {[x \in Prices |-> NoRow],
                      [x \in Prices |-> IF x = p THEN [NoRow EXCEPT !.id = 1, !.app = a, !.tier = t] ELSE NoRow]}
    /\ script = NoScript
    /\ apps = Apps /\ enabled = Apps
    /\ customer = 0
    /\ procs = [q \in Procs |-> Idle]
    /\ ops = 0 /\ doubled = FALSE /\ refused = FALSE

Operate == ops < MaxOps /\ ops' = ops + 1

\* The requests Q have checked something which is now taken back.
Outdated(Q) == [q \in Procs |-> IF q \in Q THEN [procs[q] EXCEPT !.stale = TRUE] ELSE procs[q]]
Pricing(p) == {q \in Procs : procs[q].price = p}
Serving(a) == {q \in Procs : procs[q].app = a}

-----------------------------------------------------------------------------
(* stripe_catalogue.py --apply: lists what is there, then creates what is   *)
(* missing, product first, one request at a time.                           *)

\* _page_all: every active price of the key's mode.
Listed == {p \in Prices : stripe.prices[p].state = "active" /\ stripe.prices[p].live = Live}

RunScript ==
    /\ Operate /\ ~script.on /\ mode # "unset"
    /\ script' = [on |-> TRUE, known |-> Listed, product |-> stripe.products[Live], next |-> 1]
    /\ UNCHANGED <<mode, stripe, rows, apps, enabled, customer, procs, doubled, refused>>

CreateProduct ==
    /\ script.on /\ script.product = 0
    /\ stripe' = [stripe EXCEPT !.products[Live] = @ + 1]
    /\ script' = [script EXCEPT !.product = stripe.products[Live] + 1]
    /\ UNCHANGED <<mode, rows, apps, enabled, customer, procs, ops, doubled, refused>>

\* find_price: a known price of the product that bills as the line wants.
FindPrice(n) == {p \in script.known : stripe.prices[p].product = script.product /\ stripe.prices[p].every = Wanted[n]}

ScriptLine(p) ==
    LET n == script.next IN
    /\ script.on /\ script.product # 0 /\ n <= Len(Wanted)
    /\ IF FindPrice(n) # {}
         THEN p \in FindPrice(n) /\ script' = [script EXCEPT !.next = n + 1] /\ UNCHANGED stripe
         ELSE /\ stripe.prices[p].state = "none"
              /\ stripe' = [stripe EXCEPT !.prices[p] = [state |-> "active", live |-> Live, every |-> Wanted[n],
                                                         product |-> script.product, entry |-> n]]
              /\ script' = [script EXCEPT !.next = n + 1, !.known = @ \cup {p}]
    /\ UNCHANGED <<mode, rows, apps, enabled, customer, procs, ops, doubled, refused>>

\* It ends, or an error or the operator ends it anywhere.
ScriptEnds ==
    /\ script.on /\ script' = NoScript
    /\ UNCHANGED <<mode, stripe, rows, apps, enabled, customer, procs, ops, doubled, refused>>

-----------------------------------------------------------------------------
(* The registry of prices.                                                  *)

\* Mutant of Describe: without a key, a placeholder.
DescribeAnyway(p) == IF mode = "unset" THEN {[every |-> "month", live |-> FALSE]}
                     ELSE {[every |-> x.every, live |-> x.live] : x \in {stripe.prices[p]}}

\* describePrice: the facts of a price that the key's mode has, active; none
\* without a key.
Describe(p) == {[every |-> x.every, live |-> x.live] :
                  x \in {y \in {stripe.prices[p]} : mode # "unset" /\ y.state = "active" /\ y.live = Live}}

\* Another row of the app sells the tier at that cadence.
Clash(a, p, t, every) == \E x \in RowsOf(a) \ {p} : rows[x].tier = t /\ rows[x].every = every

\* An id that no row of the price had: between two of them one was removed.
NextId == ops + 1

AddPrice(q, a, p, t) ==
    /\ Operate /\ procs[q].pc = "idle"
    /\ \E f \in Describe(p) :
         /\ rows[p] = NoRow /\ ~Clash(a, p, t, f.every)
         /\ procs' = [procs EXCEPT ![q] = [Idle EXCEPT !.pc = "add", !.app = a, !.price = p, !.tier = t,
                                                       !.every = f.every, !.live = f.live]]
    /\ UNCHANGED <<mode, stripe, script, rows, apps, enabled, customer, doubled, refused>>

RefreshPrice(q, p) ==
    /\ Operate /\ procs[q].pc = "idle" /\ p \in Rows
    /\ \E f \in Describe(p) :
         /\ f.every # rows[p].every => ~Clash(rows[p].app, p, rows[p].tier, f.every)
         /\ procs' = [procs EXCEPT ![q] = [Idle EXCEPT !.pc = "refresh", !.price = p, !.id = rows[p].id,
                                                       !.app = rows[p].app, !.tier = rows[p].tier,
                                                       !.every = f.every, !.live = f.live]]
    /\ UNCHANGED <<mode, stripe, script, rows, apps, enabled, customer, doubled, refused>>

\* The statement the request ends with.  A unique key that is taken by now, or
\* a row that is gone, makes it fail.
WriteRow(q) ==
    LET r == procs[q]
        fits == ~Clash(r.app, r.price, r.tier, r.every) /\ rows[r.price].id = r.id
    IN  /\ r.pc \in {"add", "refresh"}
        /\ rows' = IF ~fits THEN rows ELSE [rows EXCEPT ![r.price] =
                        [id |-> IF r.pc = "add" THEN NextId ELSE r.id, app |-> r.app, tier |-> r.tier,
                         every |-> r.every, live |-> r.live, verified |-> TRUE]]
        /\ procs' = [Outdated(Pricing(r.price)) EXCEPT ![q] = Idle]
        /\ UNCHANGED <<mode, stripe, script, apps, enabled, customer, ops, doubled, refused>>

RemovePrice(p) ==
    /\ Operate /\ p \in Rows /\ rows' = [rows EXCEPT ![p] = NoRow]
    /\ procs' = Outdated(Pricing(p))
    /\ UNCHANGED <<mode, stripe, script, apps, enabled, customer, doubled, refused>>

-----------------------------------------------------------------------------
(* Checkout and portal.                                                     *)

\* ClientGuard: the app the credentials are of, unless it is deleted.
Request(q, a, portal) ==
    /\ Operate /\ procs[q].pc = "idle" /\ a \in apps
    /\ procs' = [procs EXCEPT ![q] = [Idle EXCEPT !.pc = IF portal THEN "relation" ELSE "resolve",
                                                  !.app = a, !.portal = portal]]
    /\ UNCHANGED <<mode, stripe, script, rows, apps, enabled, customer, doubled, refused>>

\* assertPriceMode.
ModeFits(p) == mode # "unset" => rows[p].live = Live

\* Mutant of Selects: a price id is looked up among all rows.
SelectsAny(a, sel, p) ==
    \/ sel = "price" /\ p \in Rows
    \/ sel = "only" /\ RowsOf(a) = {p}
    \/ sel = "tier" /\ p \in RowsOf(a)

\* The selectors of resolvePrice that lead to the app's row p: its price id,
\* its tier and cadence, or none, when it is the only one.
Selects(a, sel, p) ==
    /\ p \in RowsOf(a)
    /\ \/ sel = "price"
       \/ sel = "tier" /\ ~Clash(a, p, rows[p].tier, rows[p].every)
       \/ sel = "only" /\ RowsOf(a) = {p}

ResolvePrice(q, p) ==
    /\ procs[q].pc = "resolve"
    /\ (\E sel \in {"price", "tier", "only"} : Selects(procs[q].app, sel, p)) /\ ModeFits(p)
    /\ procs' = [procs EXCEPT ![q].pc = "relation", ![q].price = p, ![q].every = rows[p].every]
    /\ UNCHANGED <<mode, stripe, script, rows, apps, enabled, customer, ops, doubled, refused>>

\* requireRelationship, then assertRedirectAllowed on the app the guard read.
RequireRelationship(q) ==
    /\ procs[q].pc = "relation" /\ procs[q].app \in enabled
    /\ procs' = [procs EXCEPT ![q].pc = "customer"]
    /\ UNCHANGED <<mode, stripe, script, rows, apps, enabled, customer, ops, doubled, refused>>

\* Mutant of EnsureCustomer: the stored id is not looked at.
EnsureNewCustomer(q) ==
    /\ procs[q].pc = "customer" /\ mode # "unset"
    /\ procs' = [procs EXCEPT ![q].pc = "create"]
    /\ UNCHANGED <<mode, stripe, script, rows, apps, enabled, customer, ops, doubled, refused>>

\* Mutant of EnsureCustomer: the id is stored before the customer is made.
StoresFirst(q) ==
    /\ procs[q].pc = "customer" /\ mode # "unset"
    /\ customer' = IF customer = 0 THEN Len(stripe.customers) + 1 ELSE customer
    /\ procs' = [procs EXCEPT ![q].pc = IF customer = 0 THEN "create" ELSE "session", ![q].customer = customer]
    /\ UNCHANGED <<mode, stripe, script, rows, apps, enabled, ops, doubled, refused>>

\* ensureCustomer reads the tenant; without a key it stops at requireStripe.
EnsureCustomer(q) ==
    /\ procs[q].pc = "customer" /\ (customer = 0 => mode # "unset")
    /\ procs' = [procs EXCEPT ![q].pc = IF customer = 0 THEN "create" ELSE "session",
                              ![q].customer = customer]
    /\ UNCHANGED <<mode, stripe, script, rows, apps, enabled, customer, ops, doubled, refused>>

\* One of them found no customer, and makes one.
MakesOne(P) == \E x \in P : procs[x].pc \in {"create", "store"}

CreateCustomer(q) ==
    /\ procs[q].pc = "create"
    /\ stripe' = [stripe EXCEPT !.customers = Append(@, Live)]
    /\ procs' = [procs EXCEPT ![q].pc = "store", ![q].customer = Len(stripe.customers) + 1]
    /\ doubled' = (doubled \/ MakesOne(Procs \ {q}))
    /\ UNCHANGED <<mode, script, rows, apps, enabled, customer, ops, refused>>

StoreCustomer(q) ==
    /\ procs[q].pc = "store" /\ customer' = procs[q].customer
    /\ procs' = [procs EXCEPT ![q].pc = "session"]
    /\ doubled' = (doubled \/ MakesOne(Procs \ {q}))
    /\ UNCHANGED <<mode, stripe, script, rows, apps, enabled, ops, refused>>

\* BillingReadinessService.check finds no problem: a key, and no row that is
\* unverified or of the other mode.
Ready == mode # "unset" /\ \A p \in Rows : rows[p].app \in apps => rows[p].verified /\ rows[p].live = Live

\* Stripe opens a page for a price and a customer of the key's mode, in payment
\* mode for a one-time price and in subscription mode for any other.
Accepts(r) ==
    /\ mode # "unset" /\ stripe.customers[r.customer] = Live
    /\ ~r.portal => /\ stripe.prices[r.price].state = "active" /\ stripe.prices[r.price].live = Live
                    /\ (r.every = "once") = (stripe.prices[r.price].every = "once")

\* The session is created, or Stripe's error is the answer.
OpenSession(q) ==
    /\ procs[q].pc = "session"
    /\ procs' = [procs EXCEPT ![q] = Idle]
    /\ refused' = (refused \/ (Ready /\ ~procs[q].stale /\ ~procs[q].portal /\ ~Accepts(procs[q])
                             /\ stripe.prices[procs[q].price].state = "active"))
    /\ UNCHANGED <<mode, stripe, script, rows, apps, enabled, customer, ops, doubled>>

\* Any check above fails, or the process dies here.
RequestFails(q) ==
    /\ procs[q].pc # "idle"
    /\ doubled' = (doubled \/ procs[q].pc = "store")
    /\ procs' = [procs EXCEPT ![q] = Idle]
    /\ UNCHANGED <<mode, stripe, script, rows, apps, enabled, customer, ops, refused>>

-----------------------------------------------------------------------------
(* The operator.                                                            *)

Restart(m) ==
    /\ Operate /\ m # mode /\ mode' = m
    /\ script' = NoScript
    /\ procs' = [q \in Procs |-> Idle]
    /\ doubled' = (doubled \/ \E q \in Procs : procs[q].pc = "store")
    /\ UNCHANGED <<stripe, rows, apps, enabled, customer, refused>>

Archive(p) ==
    /\ Operate /\ stripe.prices[p].state = "active"
    /\ stripe' = [stripe EXCEPT !.prices[p].state = "archived"]
    /\ procs' = Outdated(Pricing(p))
    /\ UNCHANGED <<mode, script, rows, apps, enabled, customer, doubled, refused>>

\* An app is deleted or restored.
DeleteApp(a) ==
    /\ Operate /\ apps' = IF a \in apps THEN apps \ {a} ELSE apps \cup {a}
    /\ procs' = Outdated(Serving(a))
    /\ UNCHANGED <<mode, stripe, script, rows, enabled, customer, doubled, refused>>

\* The workspace's access to an app is removed.
RemoveAccess(a) ==
    /\ Operate /\ a \in enabled /\ enabled' = enabled \ {a}
    /\ procs' = Outdated(Serving(a))
    /\ UNCHANGED <<mode, stripe, script, rows, apps, customer, doubled, refused>>

-----------------------------------------------------------------------------

Next ==
    \/ RunScript \/ CreateProduct \/ ScriptEnds
    \/ \E p \in Prices : ScriptLine(p) \/ RemovePrice(p) \/ Archive(p)
    \/ \E q \in Procs, a \in Apps, p \in Prices, t \in Tiers : AddPrice(q, a, p, t)
    \/ \E q \in Procs, p \in Prices : RefreshPrice(q, p) \/ ResolvePrice(q, p)
    \/ \E q \in Procs, a \in Apps, portal \in BOOLEAN : Request(q, a, portal)
    \/ \E q \in Procs : \/ WriteRow(q) \/ RequireRelationship(q) \/ EnsureCustomer(q)
                        \/ CreateCustomer(q) \/ StoreCustomer(q) \/ OpenSession(q) \/ RequestFails(q)
    \/ \E m \in Modes : Restart(m)
    \/ \E a \in Apps : DeleteApp(a) \/ RemoveAccess(a)

Spec == Init /\ [][Next]_vars

-----------------------------------------------------------------------------
(* Properties.                                                              *)

\* BillingService.listPrices: what the app's pricing table shows.
PricingTable(a) == {p \in RowsOf(a) : mode # "unset" => rows[p].live = Live}

\* The catalogue is true: a row that is not reported as unverified says what
\* Stripe bills, whatever the order of registrations, refreshes, removals and
\* changes of key, and with a key, asking checkout for the tier and the cadence
\* of a row of the pricing table finds that row, of the right mode.
CatalogueIsTrue ==
    \A p \in Rows :
      /\ rows[p].verified => /\ rows[p].every = stripe.prices[p].every
                             /\ rows[p].live = stripe.prices[p].live
      /\ \A a \in Apps : p \in PricingTable(a) /\ mode # "unset" => Selects(a, "tier", p) /\ ModeFits(p)

\* A page is opened only for what the calling app sells: when a checkout
\* reaches Stripe and nothing it checked was taken back meanwhile, the price is
\* a row of that app, of the key's mode, and app and workspace belong together.
SessionsAreVetted ==
    [][\A q \in Procs :
         LET r == procs[q] IN
         r.pc = "session" /\ procs'[q].pc = "idle" /\ ~r.stale =>
           /\ r.app \in apps /\ r.app \in enabled
           /\ ~r.portal => rows[r.price].app = r.app /\ (mode # "unset" => rows[r.price].live = Live)]_vars

\* Nothing is made twice at Stripe: the workspace has one customer unless two
\* checkouts made theirs at once or one was lost before it was stored, and a
\* line of the catalogue file has one price in each mode however often the
\* script was interrupted and run again, unless the price was archived.
NothingMadeTwice ==
    /\ Len(stripe.customers) > 1 => doubled
    /\ \A x, y \in Prices :
         LET s == stripe.prices[x]
             t == stripe.prices[y]
         IN  s.entry # 0 /\ s.entry = t.entry /\ s.live = t.live /\ s.state = "active" /\ t.state = "active" => x = y

\* "Could this deployment take a real payment right now, and if not, what is
\* missing" (billing-readiness.service.ts): a deployment without a problem to
\* report sends no checkout to Stripe that Stripe refuses.  A price archived
\* behind its back is excused.
ReadyMeansSellable == ~refused
=============================================================================
