--------------------------- MODULE CatalogueProofs ---------------------------
(***************************************************************************)
(* Proofs about module Catalogue, for any apps, prices, tiers, catalogue   *)
(* file and requests in flight, and any bound.                             *)
(***************************************************************************)
EXTENDS Catalogue, TLAPS

-----------------------------------------------------------------------------
(* The inductive invariant.                                                 *)

\* A row that is verified says what Stripe says of a price that exists.
FactsAreTrue ==
    \A p \in Rows : rows[p].verified =>
        /\ stripe.prices[p].state # "none"
        /\ rows[p].every = stripe.prices[p].every /\ rows[p].live = stripe.prices[p].live

\* An app sells a tier at a cadence by one row.
OneRowEach ==
    \A x, y \in Rows :
        rows[x].app = rows[y].app /\ rows[x].tier = rows[y].tier /\ rows[x].every = rows[y].every => x = y

\* What a registration or a refresh will write is what Stripe said, and the
\* facts of a price never change.
Describing(q) ==
    procs[q].pc \in {"add", "refresh"} =>
        /\ procs[q].app \in Apps /\ procs[q].tier \in Tiers /\ procs[q].price \in Prices
        /\ stripe.prices[procs[q].price].state # "none"
        /\ procs[q].every = stripe.prices[procs[q].price].every
        /\ procs[q].live = stripe.prices[procs[q].price].live

\* What a checkout or a portal request has checked still holds, or was taken
\* back.
Serves(q) == procs[q].pc \in {"resolve", "relation", "customer", "create", "store", "session"}
Priced(q) == procs[q].pc \in {"relation", "customer", "create", "store", "session"} /\ ~procs[q].portal
Related(q) == procs[q].pc \in {"customer", "create", "store", "session"}

Vetted(q) ==
    /\ Serves(q) => procs[q].app \in Apps /\ (~procs[q].stale => procs[q].app \in apps)
    /\ Related(q) /\ ~procs[q].stale => procs[q].app \in enabled
    /\ Priced(q) => procs[q].price \in Prices
    /\ Priced(q) /\ ~procs[q].stale =>
          rows[procs[q].price].app = procs[q].app /\ (mode # "unset" => rows[procs[q].price].live = Live)

Requests == \A q \in Procs : Describing(q) /\ Vetted(q)

\* A customer that is made and not stored is in the hands of a request.
Customers ==
    /\ \A q \in Procs : procs[q].pc = "store" => procs[q].customer \in 1..Len(stripe.customers)
    /\ ~doubled =>
          /\ Len(stripe.customers) <= 1
          /\ customer # 0 => ~MakesOne(Procs)
          /\ Len(stripe.customers) = 1 /\ customer = 0 => \E q \in Procs : procs[q].pc = "store"

\* The products a key's mode has, and the prices made from the file, are those
\* a running script knows.
Made(p) == stripe.prices[p].entry # 0
Lines ==
    /\ \A p \in Prices : Made(p) =>
          /\ stripe.prices[p].every = Wanted[stripe.prices[p].entry]
          /\ stripe.prices[p].product = stripe.products[stripe.prices[p].live]
          /\ stripe.prices[p].product # 0
    /\ script.on =>
          /\ mode # "unset" /\ script.product = stripe.products[Live]
          /\ Listed \subseteq script.known
    /\ \A x, y \in Prices :
          /\ Made(x) /\ stripe.prices[x].state = "active" /\ stripe.prices[y].state = "active"
          /\ stripe.prices[x].entry = stripe.prices[y].entry /\ stripe.prices[x].live = stripe.prices[y].live
          => x = y

IInv == TypeOK /\ FactsAreTrue /\ OneRowEach /\ Requests /\ Customers /\ Lines
-----------------------------------------------------------------------------
(* What steps do to Stripe, and what the marks on requests do.               *)

(* Stripe's state is three tables.                                           *)
LEMMA StripeTables ==
    ASSUME TypeOK
    PROVE  /\ stripe.prices \in [Prices -> StripePrice]
           /\ stripe.products \in [BOOLEAN -> Nat]
           /\ stripe.customers \in Seq(BOOLEAN)
           /\ Len(stripe.customers) \in Nat
           /\ Live \in BOOLEAN
  BY DEF TypeOK, Live

(* A product of the key's mode is counted.                                   *)
LEMMA ProductMade ==
    ASSUME TypeOK, CreateProduct
    PROVE  /\ stripe' \in [prices: [Prices -> StripePrice], products: [BOOLEAN -> Nat], customers: Seq(BOOLEAN)]
           /\ stripe'.prices = stripe.prices /\ stripe'.customers = stripe.customers
           /\ stripe'.products[Live] = stripe.products[Live] + 1
           /\ \A l \in BOOLEAN : l # Live => stripe'.products[l] = stripe.products[l]
<1> DEFINE new == [stripe.products EXCEPT ![Live] = stripe.products[Live] + 1]
<1>1. stripe' = [stripe EXCEPT !.products = new]
  BY DEF CreateProduct, TypeOK
<1>2. /\ new \in [BOOLEAN -> Nat] /\ new[Live] = stripe.products[Live] + 1
      /\ \A l \in BOOLEAN : l # Live => new[l] = stripe.products[l]
  BY StripeTables
<1> HIDE DEF new
<1>3. /\ stripe' \in [prices: [Prices -> StripePrice], products: [BOOLEAN -> Nat], customers: Seq(BOOLEAN)]
      /\ stripe'.prices = stripe.prices /\ stripe'.customers = stripe.customers /\ stripe'.products = new
  BY <1>1, <1>2 DEF TypeOK
<1>4. QED BY <1>2, <1>3

(* One price object changes.                                                 *)
LEMMA PriceWritten ==
    ASSUME TypeOK, NEW p \in Prices, NEW s \in StripePrice,
           stripe' = [stripe EXCEPT !.prices = [stripe.prices EXCEPT ![p] = s]]
    PROVE  /\ stripe' \in [prices: [Prices -> StripePrice], products: [BOOLEAN -> Nat], customers: Seq(BOOLEAN)]
           /\ stripe'.products = stripe.products /\ stripe'.customers = stripe.customers
           /\ stripe'.prices[p] = s
           /\ \A x \in Prices : x # p => stripe'.prices[x] = stripe.prices[x]
<1> DEFINE new == [stripe.prices EXCEPT ![p] = s]
<1>1. new \in [Prices -> StripePrice] /\ new[p] = s /\ \A x \in Prices : x # p => new[x] = stripe.prices[x]
  BY StripeTables
<1> HIDE DEF new
<1>2. /\ stripe' \in [prices: [Prices -> StripePrice], products: [BOOLEAN -> Nat], customers: Seq(BOOLEAN)]
      /\ stripe'.products = stripe.products /\ stripe'.customers = stripe.customers /\ stripe'.prices = new
  BY <1>1 DEF TypeOK, new
<1>3. QED BY <1>1, <1>2

(* A line of the file finds its price or makes one.                          *)
LEMMA LineDone ==
    ASSUME TypeOK, NEW p \in Prices, ScriptLine(p)
    PROVE  LET n == script.next
               s == [state |-> "active", live |-> Live, every |-> Wanted[n], product |-> script.product, entry |-> n]
           IN  /\ n \in 1..Len(Wanted) /\ n + 1 \in 1..(Len(Wanted) + 1)
               /\ \/ UNCHANGED stripe /\ script' = [script EXCEPT !.next = n + 1]
                  \/ /\ FindPrice(n) = {} /\ stripe.prices[p].state = "none"
                     /\ s \in StripePrice
                     /\ stripe' = [stripe EXCEPT !.prices = [stripe.prices EXCEPT ![p] = s]]
                     /\ script' = [script EXCEPT !.next = n + 1, !.known = script.known \cup {p}]
<1> DEFINE n == script.next
           s == [state |-> "active", live |-> Live, every |-> Wanted[n], product |-> script.product, entry |-> n]
<1>1. Wanted \in Seq(Cadence \ {"once"}) /\ Len(Wanted) \in Nat
  BY CatalogueAssumption
<1>2. n \in 1..Len(Wanted) /\ n + 1 \in 1..(Len(Wanted) + 1) /\ script.product \in Nat
  BY <1>1 DEF ScriptLine, TypeOK, Script
<1>3. Wanted[n] \in Cadence
  BY <1>1, <1>2
<1>4. s \in StripePrice
  BY <1>2, <1>3, StripeTables DEF StripePrice
<1>5. CASE FindPrice(n) # {}
  BY <1>2, <1>5 DEF ScriptLine
<1>6. CASE FindPrice(n) = {}
  <2>1. /\ stripe.prices[p].state = "none" /\ stripe' = [stripe EXCEPT !.prices[p] = s]
        /\ script' = [script EXCEPT !.next = n + 1, !.known = @ \cup {p}]
    BY <1>6 DEF ScriptLine
  <2>2. stripe' = [stripe EXCEPT !.prices = [stripe.prices EXCEPT ![p] = s]]
    BY <2>1 DEF TypeOK
  <2>3. script' = [script EXCEPT !.next = n + 1, !.known = script.known \cup {p}]
    BY <2>1 DEF TypeOK, Script
  <2> HIDE DEF s
  <2>4. QED BY <1>2, <1>4, <1>6, <2>1, <2>2, <2>3 DEF s
<1>7. QED BY <1>5, <1>6

(* An archived price says what it said.                                      *)
LEMMA PriceArchived ==
    ASSUME TypeOK, NEW p \in Prices, Archive(p)
    PROVE  \E s \in StripePrice :
              /\ s = [stripe.prices[p] EXCEPT !.state = "archived"]
              /\ s.state = "archived" /\ s.live = stripe.prices[p].live /\ s.every = stripe.prices[p].every
              /\ s.product = stripe.prices[p].product /\ s.entry = stripe.prices[p].entry
              /\ stripe' = [stripe EXCEPT !.prices = [stripe.prices EXCEPT ![p] = s]]
<1> DEFINE s == [stripe.prices[p] EXCEPT !.state = "archived"]
<1>1. stripe.prices[p] \in StripePrice
  BY StripeTables
<1>2. /\ s \in StripePrice
      /\ s.state = "archived" /\ s.live = stripe.prices[p].live /\ s.every = stripe.prices[p].every
      /\ s.product = stripe.prices[p].product /\ s.entry = stripe.prices[p].entry
  BY <1>1 DEF StripePrice
<1>3. stripe' = [stripe EXCEPT !.prices = [stripe.prices EXCEPT ![p] = s]]
  BY DEF Archive, TypeOK
<1>4. QED BY <1>2, <1>3

(* A customer is made at the end of the list.                                *)
LEMMA CustomerMade ==
    ASSUME TypeOK, NEW q \in Procs, CreateCustomer(q)
    PROVE  /\ stripe' \in [prices: [Prices -> StripePrice], products: [BOOLEAN -> Nat], customers: Seq(BOOLEAN)]
           /\ stripe'.prices = stripe.prices /\ stripe'.products = stripe.products
           /\ Len(stripe'.customers) = Len(stripe.customers) + 1
<1>1. stripe' = [stripe EXCEPT !.customers = Append(stripe.customers, Live)]
  BY DEF CreateCustomer, TypeOK
<1>2. Append(stripe.customers, Live) \in Seq(BOOLEAN) /\ Len(Append(stripe.customers, Live)) = Len(stripe.customers) + 1
  BY StripeTables
<1>3. QED BY <1>1, <1>2 DEF TypeOK

\* An outdated request is where it was, and knows nothing more.
SameRequest(q) ==
    /\ procs'[q].pc = procs[q].pc /\ procs'[q].app = procs[q].app /\ procs'[q].price = procs[q].price
    /\ procs'[q].tier = procs[q].tier /\ procs'[q].id = procs[q].id /\ procs'[q].every = procs[q].every
    /\ procs'[q].live = procs[q].live /\ procs'[q].customer = procs[q].customer
    /\ procs'[q].portal = procs[q].portal
    /\ procs[q].stale => procs'[q].stale

(* An idle request is a request.                                             *)
LEMMA IdleIsProc == Idle \in Proc /\ Idle.pc = "idle"
  BY DEF Idle, Proc, Cadence

(* What is taken back outdates the requests that checked it, and no other.   *)
LEMMA OutdatedMarks ==
    ASSUME TypeOK, NEW Q, NEW q \in Procs
    PROVE  LET h == Outdated(Q)[q] IN
           /\ h \in Proc
           /\ h.pc = procs[q].pc /\ h.app = procs[q].app /\ h.price = procs[q].price /\ h.tier = procs[q].tier
           /\ h.id = procs[q].id /\ h.every = procs[q].every /\ h.live = procs[q].live
           /\ h.customer = procs[q].customer /\ h.portal = procs[q].portal
           /\ procs[q].stale => h.stale
           /\ q \in Q => h.stale
<1>1. procs[q] \in Proc
  BY DEF TypeOK
<1>2. CASE q \in Q
  <2>1. Outdated(Q)[q] = [procs[q] EXCEPT !.stale = TRUE]
    BY <1>2 DEF Outdated
  <2>2. QED BY <1>1, <2>1 DEF Proc
<1>3. CASE q \notin Q
  <2>1. Outdated(Q)[q] = procs[q]
    BY <1>3 DEF Outdated
  <2>2. QED BY <1>1, <1>3, <2>1
<1>4. QED BY <1>2, <1>3

(* A step that outdates requests, all of them in flight.                     *)
LEMMA OutdatedStep ==
    ASSUME TypeOK, NEW Q, procs' = Outdated(Q)
    PROVE  /\ procs' \in [Procs -> Proc]
           /\ \A q \in Procs : SameRequest(q) /\ (q \in Q => procs'[q].stale)
<1>1. \A q \in Procs : procs'[q] \in Proc /\ SameRequest(q) /\ (q \in Q => procs'[q].stale)
  BY OutdatedMarks DEF SameRequest
<1>2. procs' = [q \in Procs |-> procs'[q]]
  BY DEF Outdated
<1>3. QED BY <1>1, <1>2
-----------------------------------------------------------------------------
(* When what a request knows survives a step.                                *)

\* A price that exists keeps its facts.
FactsStay ==
    \A p \in Prices : stripe.prices[p].state # "none" =>
        /\ stripe'.prices[p].state # "none"
        /\ stripe'.prices[p].every = stripe.prices[p].every /\ stripe'.prices[p].live = stripe.prices[p].live

\* What request q has checked is as it was, unless q is marked.
ChecksStay(q) ==
    ~procs'[q].stale =>
        /\ procs[q].app \in apps => procs[q].app \in apps'
        /\ procs[q].app \in enabled => procs[q].app \in enabled'
        /\ procs[q].price \in Prices => rows'[procs[q].price] = rows[procs[q].price]

(* A request that does not move keeps what it knows.                         *)
LEMMA RequestStays ==
    ASSUME TypeOK, NEW q \in Procs, Describing(q), Vetted(q), SameRequest(q), FactsStay, ChecksStay(q), mode' = mode
    PROVE  Describing(q)' /\ Vetted(q)'
<1>1. Describing(q)'
  BY DEF Describing, SameRequest, FactsStay
<1>2. Live' = Live
  BY DEF Live
<1>3. /\ Serves(q)' = Serves(q) /\ Priced(q)' = Priced(q) /\ Related(q)' = Related(q)
  BY DEF Serves, Priced, Related, SameRequest
<1>4. /\ Serves(q) => procs'[q].app \in Apps /\ (~procs'[q].stale => procs'[q].app \in apps')
      /\ Related(q) /\ ~procs'[q].stale => procs'[q].app \in enabled'
      /\ Priced(q) => procs'[q].price \in Prices
  BY DEF Vetted, SameRequest, ChecksStay, Related, Serves
<1>5. Priced(q) /\ ~procs'[q].stale =>
          rows'[procs'[q].price].app = procs'[q].app /\ (mode' # "unset" => rows'[procs'[q].price].live = Live)
  BY DEF Vetted, SameRequest, ChecksStay
<1>6. QED BY <1>2, <1>3, <1>4, <1>5, <1>1 DEF Vetted

(* An idle request knows nothing.                                            *)
LEMMA IdleKnows ==
    ASSUME NEW q \in Procs, procs'[q] = Idle
    PROVE  Describing(q)' /\ Vetted(q)'
  BY DEF Describing, Vetted, Serves, Priced, Related, Idle

(* Only the request that moves has something to show.                        *)
LEMMA RequestMoves ==
    ASSUME TypeOK, Requests, NEW q \in Procs, NEW h \in Proc, procs' = [procs EXCEPT ![q] = h],
           UNCHANGED <<mode, rows, apps, enabled>>, stripe'.prices = stripe.prices,
           procs'[q] = h => Describing(q)' /\ Vetted(q)'
    PROVE  procs' \in [Procs -> Proc] /\ Requests'
<1>1. procs' \in [Procs -> Proc] /\ procs'[q] = h /\ \A x \in Procs : x # q => procs'[x] = procs[x]
  BY DEF TypeOK
<1>2. ASSUME NEW x \in Procs, x # q PROVE Describing(x)' /\ Vetted(x)'
  <2>1. SameRequest(x) /\ ChecksStay(x)
    BY <1>1, <1>2 DEF SameRequest, ChecksStay
  <2>2. FactsStay
    BY DEF FactsStay
  <2>3. QED BY <2>1, <2>2, RequestStays DEF Requests
<1>3. QED BY <1>1, <1>2 DEF Requests

(* A request whose step is done or fails knows nothing more.                 *)
LEMMA RequestEnds ==
    ASSUME TypeOK, Requests, NEW q \in Procs, procs' = [procs EXCEPT ![q] = Idle],
           UNCHANGED <<mode, rows, apps, enabled>>, stripe'.prices = stripe.prices
    PROVE  procs' \in [Procs -> Proc] /\ Requests'
  BY IdleIsProc, IdleKnows, RequestMoves

(* While nothing a request knows of changes, it knows what it knew.          *)
LEMMA RequestsWait ==
    ASSUME TypeOK, Requests, UNCHANGED <<mode, rows, apps, enabled, procs>>, FactsStay
    PROVE  procs' \in [Procs -> Proc] /\ Requests'
<1>1. ASSUME NEW x \in Procs PROVE Describing(x)' /\ Vetted(x)'
  <2>1. SameRequest(x) /\ ChecksStay(x)
    BY DEF SameRequest, ChecksStay
  <2>2. QED BY <2>1, RequestStays DEF Requests
<1>2. QED BY <1>1 DEF Requests, TypeOK

-----------------------------------------------------------------------------
(* Requests, step by step.                                                   *)

(* A registration and a refresh start with what Stripe says.                 *)
LEMMA DescribingStarts ==
    ASSUME TypeOK, Requests, NEW q \in Procs, NEW p \in Prices,
           (\E a \in Apps, t \in Tiers : AddPrice(q, a, p, t)) \/ RefreshPrice(q, p)
    PROVE  procs' \in [Procs -> Proc] /\ Requests'
<1>1. stripe.prices[p] \in StripePrice
  BY StripeTables
<1>2. \A f \in Describe(p) :
          /\ f.every = stripe.prices[p].every /\ f.live = stripe.prices[p].live /\ stripe.prices[p].state # "none"
          /\ f.every \in Cadence /\ f.live \in BOOLEAN
  BY <1>1 DEF Describe, StripePrice
<1>3. ASSUME NEW a \in Apps, NEW t \in Tiers, AddPrice(q, a, p, t)
      PROVE  procs' \in [Procs -> Proc] /\ Requests'
  <2>1. PICK f \in Describe(p) :
            procs' = [procs EXCEPT ![q] = [Idle EXCEPT !.pc = "add", !.app = a, !.price = p, !.tier = t,
                                                       !.every = f.every, !.live = f.live]]
    BY <1>3 DEF AddPrice
  <2> DEFINE h == [Idle EXCEPT !.pc = "add", !.app = a, !.price = p, !.tier = t, !.every = f.every, !.live = f.live]
  <2>2. /\ h \in Proc /\ h.pc = "add" /\ h.app = a /\ h.price = p /\ h.tier = t
        /\ h.every = f.every /\ h.live = f.live
    BY <1>2 DEF Idle, Proc
  <2>3. UNCHANGED <<mode, rows, apps, enabled, stripe>>
    BY <1>3 DEF AddPrice
  <2> HIDE DEF h
  <2>4. procs'[q] = h => Describing(q)' /\ Vetted(q)'
    BY <1>2, <2>2, <2>3 DEF Describing, Vetted, Serves, Priced, Related
  <2>5. procs' = [procs EXCEPT ![q] = h]
    BY <2>1 DEF h
  <2>6. QED BY <2>2, <2>3, <2>4, <2>5, RequestMoves
<1>4. ASSUME RefreshPrice(q, p)
      PROVE  procs' \in [Procs -> Proc] /\ Requests'
  <2>1. PICK f \in Describe(p) :
            procs' = [procs EXCEPT ![q] = [Idle EXCEPT !.pc = "refresh", !.price = p, !.id = rows[p].id,
                                                       !.app = rows[p].app, !.tier = rows[p].tier,
                                                       !.every = f.every, !.live = f.live]]
    BY <1>4 DEF RefreshPrice
  <2> DEFINE h == [Idle EXCEPT !.pc = "refresh", !.price = p, !.id = rows[p].id, !.app = rows[p].app,
                               !.tier = rows[p].tier, !.every = f.every, !.live = f.live]
  <2>2. rows[p] \in Row
    BY <1>4 DEF RefreshPrice, Rows, TypeOK
  <2>3. rows[p].id \in Nat /\ rows[p].app \in Apps /\ rows[p].tier \in Tiers
    BY <2>2 DEF Row
  <2>4. /\ h \in Proc /\ h.pc = "refresh" /\ h.app = rows[p].app /\ h.price = p /\ h.tier = rows[p].tier
        /\ h.every = f.every /\ h.live = f.live
    BY <1>2, <2>3 DEF Idle, Proc
  <2>5. UNCHANGED <<mode, rows, apps, enabled, stripe>>
    BY <1>4 DEF RefreshPrice
  <2> HIDE DEF h
  <2>6. procs'[q] = h => Describing(q)' /\ Vetted(q)'
    BY <1>2, <2>3, <2>4, <2>5 DEF Describing, Vetted, Serves, Priced, Related
  <2>7. procs' = [procs EXCEPT ![q] = h]
    BY <2>1 DEF h
  <2>8. QED BY <2>4, <2>5, <2>6, <2>7, RequestMoves
<1>5. QED BY <1>3, <1>4

(* A checkout or a portal request starts for an app that is there.           *)
LEMMA RequestStarts ==
    ASSUME TypeOK, Requests, NEW q \in Procs, NEW a \in Apps, NEW portal \in BOOLEAN, Request(q, a, portal)
    PROVE  procs' \in [Procs -> Proc] /\ Requests'
<1> DEFINE h == [Idle EXCEPT !.pc = IF portal THEN "relation" ELSE "resolve", !.app = a, !.portal = portal]
<1>1. h \in Proc /\ h.pc = (IF portal THEN "relation" ELSE "resolve") /\ h.app = a /\ h.portal = portal
  BY DEF Idle, Proc, Cadence
<1>2. procs' = [procs EXCEPT ![q] = h] /\ UNCHANGED <<mode, rows, apps, enabled, stripe>> /\ a \in apps
  BY DEF Request
<1> HIDE DEF h
<1>3. procs'[q] = h => Describing(q)' /\ Vetted(q)'
  BY <1>1, <1>2 DEF Describing, Vetted, Serves, Priced, Related
<1>4. QED BY <1>1, <1>2, <1>3, RequestMoves

(* Each check adds to what the request knows.                                *)
LEMMA ChecksPass ==
    ASSUME TypeOK, Requests, NEW q \in Procs,
           (\E p \in Prices : ResolvePrice(q, p)) \/ RequireRelationship(q) \/ EnsureCustomer(q) \/ CreateCustomer(q)
           \/ StoreCustomer(q)
    PROVE  procs' \in [Procs -> Proc] /\ Requests'
<1>1. procs[q] \in Proc /\ Vetted(q)
  BY DEF TypeOK, Requests
<1>2. ASSUME NEW p \in Prices, ResolvePrice(q, p) PROVE procs' \in [Procs -> Proc] /\ Requests'
  <2> DEFINE h == [procs[q] EXCEPT !.pc = "relation", !.price = p, !.every = rows[p].every]
  <2>1. rows[p] \in Row /\ rows[p].app = procs[q].app /\ (mode # "unset" => rows[p].live = Live)
    BY <1>2 DEF ResolvePrice, Selects, RowsOf, Rows, ModeFits, TypeOK
  <2>2. rows[p].every \in Cadence
    BY <2>1 DEF Row
  <2>3. /\ h \in Proc /\ h.pc = "relation" /\ h.price = p /\ h.app = procs[q].app
        /\ h.stale = procs[q].stale
    BY <1>1, <2>2 DEF Proc
  <2>4. procs' = [procs EXCEPT ![q] = h] /\ UNCHANGED <<mode, rows, apps, enabled, stripe>> /\ procs[q].pc = "resolve"
    BY <1>2 DEF ResolvePrice, TypeOK
  <2> HIDE DEF h
  <2>5. procs'[q] = h => Describing(q)' /\ Vetted(q)'
    BY <1>1, <2>1, <2>3, <2>4 DEF Describing, Vetted, Serves, Priced, Related, Live
  <2>6. QED BY <2>3, <2>4, <2>5, RequestMoves
<1>3. ASSUME RequireRelationship(q) PROVE procs' \in [Procs -> Proc] /\ Requests'
  <2> DEFINE h == [procs[q] EXCEPT !.pc = "customer"]
  <2>1. /\ h \in Proc /\ h.pc = "customer" /\ h.price = procs[q].price /\ h.app = procs[q].app
        /\ h.stale = procs[q].stale /\ h.portal = procs[q].portal
    BY <1>1 DEF Proc
  <2>2. /\ procs' = [procs EXCEPT ![q] = h] /\ UNCHANGED <<mode, rows, apps, enabled, stripe>>
        /\ procs[q].pc = "relation" /\ procs[q].app \in enabled
    BY <1>3 DEF RequireRelationship, TypeOK
  <2> HIDE DEF h
  <2>3. procs'[q] = h => Describing(q)' /\ Vetted(q)'
    BY <1>1, <2>1, <2>2 DEF Describing, Vetted, Serves, Priced, Related, Live
  <2>4. QED BY <2>1, <2>2, <2>3, RequestMoves
<1>4. ASSUME EnsureCustomer(q) \/ CreateCustomer(q) \/ StoreCustomer(q)
      PROVE  procs' \in [Procs -> Proc] /\ Requests'
  <2>1. PICK pc \in {"create", "store", "session"}, c \in Nat :
            procs' = [procs EXCEPT ![q] = [procs[q] EXCEPT !.pc = pc, !.customer = c]]
    <3>1. customer \in Nat /\ Len(stripe.customers) + 1 \in Nat /\ procs[q].customer \in Nat
      BY <1>1, StripeTables DEF TypeOK, Proc
    <3>2. procs[q].customer = procs[q].customer
          /\ [procs[q] EXCEPT !.pc = "session"] = [procs[q] EXCEPT !.pc = "session", !.customer = procs[q].customer]
      BY <1>1 DEF Proc
    <3>3. CASE EnsureCustomer(q)
      <4>1. procs' = [procs EXCEPT ![q] = [procs[q] EXCEPT !.pc = IF customer = 0 THEN "create" ELSE "session",
                                                           !.customer = customer]]
        BY <3>3 DEF EnsureCustomer, TypeOK
      <4>2. (IF customer = 0 THEN "create" ELSE "session") \in {"create", "store", "session"}
        OBVIOUS
      <4>3. QED BY <3>1, <4>1, <4>2
    <3>4. CASE CreateCustomer(q)
      <4>1. procs' = [procs EXCEPT ![q] = [procs[q] EXCEPT !.pc = "store", !.customer = Len(stripe.customers) + 1]]
        BY <3>4 DEF CreateCustomer, TypeOK
      <4>2. QED BY <3>1, <4>1
    <3>5. CASE StoreCustomer(q)
      <4>1. procs' = [procs EXCEPT ![q] = [procs[q] EXCEPT !.pc = "session"]]
        BY <3>5 DEF StoreCustomer, TypeOK
      <4>2. QED BY <3>1, <3>2, <4>1
    <3>6. QED BY <1>4, <3>3, <3>4, <3>5
  <2> DEFINE h == [procs[q] EXCEPT !.pc = pc, !.customer = c]
  <2>2. /\ h \in Proc /\ h.pc = pc /\ h.price = procs[q].price /\ h.app = procs[q].app
        /\ h.stale = procs[q].stale /\ h.portal = procs[q].portal
    BY <1>1, <2>1 DEF Proc
  <2>3. /\ procs' = [procs EXCEPT ![q] = h]
        /\ UNCHANGED <<mode, rows, apps, enabled>> /\ stripe'.prices = stripe.prices
        /\ procs[q].pc \in {"customer", "create", "store"}
    BY <1>4, <2>1, CustomerMade DEF EnsureCustomer, CreateCustomer, StoreCustomer
  <2> HIDE DEF h
  <2>4. procs'[q] = h => Describing(q)' /\ Vetted(q)'
    BY <1>1, <2>1, <2>2, <2>3 DEF Describing, Vetted, Serves, Priced, Related, Live
  <2>5. QED BY <2>2, <2>3, <2>4, RequestMoves
<1>5. QED BY <1>2, <1>3, <1>4

(* What a request ends with, and what takes back what others have checked.   *)
LEMMA WriteRowKnown ==
    ASSUME TypeOK, Requests, NEW q \in Procs, WriteRow(q)
    PROVE  procs' \in [Procs -> Proc] /\ Requests'
<1> DEFINE f == Outdated(Pricing(procs[q].price))
<1>1. procs' = [f EXCEPT ![q] = Idle] /\ UNCHANGED <<mode, stripe, apps, enabled>>
  BY DEF WriteRow
<1>2. \A x \in Procs : procs[x].price = procs[q].price => x \in Pricing(procs[q].price)
  BY DEF Pricing
<1>3. f = [x \in Procs |-> f[x]] /\ \A x \in Procs : f[x] \in Proc
  BY OutdatedMarks DEF Outdated
<1>4. \A x \in Prices : x # procs[q].price => rows'[x] = rows[x]
  BY DEF WriteRow, TypeOK
<1>5. procs' \in [Procs -> Proc] /\ procs'[q] = Idle /\ \A x \in Procs : x # q => procs'[x] = f[x]
  BY <1>1, <1>3, IdleIsProc
<1>6. ASSUME NEW x \in Procs, x # q PROVE Describing(x)' /\ Vetted(x)'
  <2>1. SameRequest(x) /\ (procs[x].price = procs[q].price => procs'[x].stale)
    BY <1>2, <1>5, <1>6, OutdatedMarks DEF SameRequest
  <2>2. ChecksStay(x)
    BY <1>1, <1>4, <2>1 DEF ChecksStay
  <2>3. FactsStay
    BY <1>1 DEF FactsStay
  <2>4. QED BY <1>1, <2>1, <2>2, <2>3, RequestStays DEF Requests
<1>7. QED BY <1>5, <1>6, IdleKnows DEF Requests

(* Removals, archivings, and the loss of an app or of access.                *)
LEMMA TakenBackKnown ==
    ASSUME TypeOK, Requests,
           (\E p \in Prices : RemovePrice(p) \/ Archive(p)) \/ (\E a \in Apps : DeleteApp(a) \/ RemoveAccess(a))
    PROVE  procs' \in [Procs -> Proc] /\ Requests'
<1>1. ASSUME NEW Q, procs' = Outdated(Q), mode' = mode, FactsStay, \A x \in Procs : x \notin Q => ChecksStay(x)
      PROVE  procs' \in [Procs -> Proc] /\ Requests'
  <2>1. /\ procs' \in [Procs -> Proc]
        /\ \A q \in Procs : SameRequest(q) /\ (q \in Q => procs'[q].stale)
    BY <1>1, OutdatedStep
  <2>2. ASSUME NEW x \in Procs PROVE Describing(x)' /\ Vetted(x)'
    <3>1. ChecksStay(x)
      BY <1>1, <2>1 DEF ChecksStay
    <3>2. QED BY <1>1, <2>1, <3>1, RequestStays DEF Requests
  <2>3. QED BY <2>1, <2>2 DEF Requests
<1>2. ASSUME NEW p \in Prices, RemovePrice(p) PROVE procs' \in [Procs -> Proc] /\ Requests'
  <2>1. \A x \in Procs : x \notin Pricing(p) => ChecksStay(x)
    BY <1>2 DEF RemovePrice, Pricing, ChecksStay, TypeOK
  <2>2. QED BY <1>1, <1>2, <2>1 DEF RemovePrice, FactsStay
<1>3. ASSUME NEW p \in Prices, Archive(p) PROVE procs' \in [Procs -> Proc] /\ Requests'
  <2>1. FactsStay
    <3>1. PICK s \in StripePrice :
              /\ s.state = "archived" /\ s.live = stripe.prices[p].live /\ s.every = stripe.prices[p].every
              /\ stripe' = [stripe EXCEPT !.prices = [stripe.prices EXCEPT ![p] = s]]
      BY <1>3, PriceArchived
    <3>2. QED BY <3>1, PriceWritten DEF FactsStay
  <2>2. \A x \in Procs : x \notin Pricing(p) => ChecksStay(x)
    BY <1>3 DEF Archive, ChecksStay
  <2>3. QED BY <1>1, <1>3, <2>1, <2>2 DEF Archive
<1>4. ASSUME NEW a \in Apps, DeleteApp(a) \/ RemoveAccess(a) PROVE procs' \in [Procs -> Proc] /\ Requests'
  <2>1. \A x \in Procs : x \notin Serving(a) => ChecksStay(x)
    BY <1>4 DEF DeleteApp, RemoveAccess, Serving, ChecksStay
  <2>2. QED BY <1>1, <1>4, <2>1 DEF DeleteApp, RemoveAccess, FactsStay
<1>5. QED BY <1>2, <1>3, <1>4
(* A run of the script, the end of a session and a restart.                  *)
LEMMA OthersKnown ==
    ASSUME TypeOK, Requests,
           RunScript \/ CreateProduct \/ ScriptEnds \/ (\E p \in Prices : ScriptLine(p))
           \/ (\E q \in Procs : OpenSession(q) \/ RequestFails(q)) \/ (\E m \in Modes : Restart(m))
    PROVE  procs' \in [Procs -> Proc] /\ Requests'
<1>1. ASSUME RunScript \/ ScriptEnds PROVE procs' \in [Procs -> Proc] /\ Requests'
  BY <1>1, RequestsWait DEF RunScript, ScriptEnds, FactsStay
<1>2. ASSUME CreateProduct PROVE procs' \in [Procs -> Proc] /\ Requests'
  BY <1>2, ProductMade, RequestsWait DEF CreateProduct, FactsStay
<1>3. ASSUME NEW p \in Prices, ScriptLine(p) PROVE procs' \in [Procs -> Proc] /\ Requests'
  <2>1. FactsStay
    <3>1. CASE UNCHANGED stripe
      BY <3>1 DEF FactsStay
    <3>2. CASE ~UNCHANGED stripe
      <4>1. PICK s \in StripePrice : /\ stripe.prices[p].state = "none"
                                     /\ stripe' = [stripe EXCEPT !.prices = [stripe.prices EXCEPT ![p] = s]]
        BY <1>3, <3>2, LineDone, Zenon
      <4>2. QED BY <4>1, PriceWritten DEF FactsStay
    <3>3. QED BY <3>1, <3>2
  <2>2. UNCHANGED <<mode, rows, apps, enabled, procs>>
    BY <1>3 DEF ScriptLine
  <2>3. QED BY <2>1, <2>2, RequestsWait
<1>4. ASSUME NEW q \in Procs, OpenSession(q) \/ RequestFails(q) PROVE procs' \in [Procs -> Proc] /\ Requests'
  BY <1>4, RequestEnds DEF OpenSession, RequestFails
<1>5. ASSUME NEW m \in Modes, Restart(m) PROVE procs' \in [Procs -> Proc] /\ Requests'
  BY <1>5, IdleIsProc, IdleKnows DEF Restart, Requests
<1>6. QED BY <1>1, <1>2, <1>3, <1>4, <1>5
-----------------------------------------------------------------------------
(* The rows.                                                                 *)

(* A step that leaves the rows alone and keeps Stripe's facts keeps what is   *)
(* said of the rows.                                                          *)
LEMMA RowsWait ==
    ASSUME FactsAreTrue, OneRowEach, rows' = rows, FactsStay
    PROVE  FactsAreTrue' /\ OneRowEach'
<1>1. Rows' = Rows /\ Rows \subseteq Prices
  BY DEF Rows
<1>2. OneRowEach'
  BY <1>1 DEF OneRowEach
<1>3. FactsAreTrue'
  BY <1>1 DEF FactsAreTrue, FactsStay
<1>4. QED BY <1>2, <1>3

(* A row is written with the facts of its price, and only when no other row   *)
(* of the app sells the tier at that cadence.                                 *)
LEMMA RowWritten ==
    ASSUME TypeOK, Requests, FactsAreTrue, OneRowEach, NEW q \in Procs, WriteRow(q)
    PROVE  rows' \in [Prices -> Row \cup {NoRow}] /\ FactsAreTrue' /\ OneRowEach'
<1> DEFINE r == procs[q]
           new == [id |-> IF r.pc = "add" THEN NextId ELSE r.id, app |-> r.app, tier |-> r.tier,
                   every |-> r.every, live |-> r.live, verified |-> TRUE]
<1>1. r.pc \in {"add", "refresh"} /\ stripe' = stripe
  BY DEF WriteRow
<1>2. /\ r \in Proc /\ r.app \in Apps /\ r.tier \in Tiers /\ r.price \in Prices
      /\ stripe.prices[r.price].state # "none"
      /\ r.every = stripe.prices[r.price].every /\ r.live = stripe.prices[r.price].live
  BY <1>1 DEF Requests, Describing, TypeOK
<1>3. NextId \in Nat /\ r.id \in Nat /\ r.every \in Cadence /\ r.live \in BOOLEAN
  BY <1>2, CatalogueAssumption DEF NextId, TypeOK, Proc
<1>4. /\ new \in Row /\ new.app = r.app /\ new.tier = r.tier /\ new.every = r.every /\ new.live = r.live
      /\ new.app # NoApp
  BY <1>2, <1>3, CatalogueAssumption DEF Row
<1>5. rows' = rows \/ (~Clash(r.app, r.price, r.tier, r.every) /\ rows' = [rows EXCEPT ![r.price] = new])
  BY DEF WriteRow
<1> HIDE DEF new
<1>6. CASE rows' = rows
  BY <1>1, <1>6, RowsWait DEF FactsStay, TypeOK
<1>7. CASE ~Clash(r.app, r.price, r.tier, r.every) /\ rows' = [rows EXCEPT ![r.price] = new]
  <2>1. /\ rows' \in [Prices -> Row \cup {NoRow}] /\ rows'[r.price] = new
        /\ \A p \in Prices : p # r.price => rows'[p] = rows[p]
    BY <1>2, <1>4, <1>7 DEF TypeOK
  <2>2. /\ Rows \subseteq Prices /\ Rows' \subseteq Prices
        /\ \A p \in Rows' : p # r.price => p \in Rows
    BY <2>1 DEF Rows
  <2>3. FactsAreTrue'
    BY <1>1, <1>2, <1>4, <2>1, <2>2 DEF FactsAreTrue
  <2>4. \A x \in Rows : x # r.price => ~(rows[x].app = r.app /\ rows[x].tier = r.tier /\ rows[x].every = r.every)
    BY <1>7 DEF Clash, RowsOf
  <2>5. OneRowEach'
    BY <1>4, <2>1, <2>2, <2>4 DEF OneRowEach
  <2>6. QED BY <2>1, <2>3, <2>5
<1>8. QED BY <1>5, <1>6, <1>7

(* A row that is removed leaves the others as they were.                     *)
LEMMA RowRemoved ==
    ASSUME TypeOK, FactsAreTrue, OneRowEach, NEW p \in Prices, RemovePrice(p)
    PROVE  rows' \in [Prices -> Row \cup {NoRow}] /\ FactsAreTrue' /\ OneRowEach'
<1>1. /\ rows' \in [Prices -> Row \cup {NoRow}] /\ rows'[p] = NoRow /\ stripe' = stripe
      /\ \A x \in Prices : x # p => rows'[x] = rows[x]
  BY DEF RemovePrice, TypeOK
<1>2. /\ Rows \subseteq Prices /\ Rows' \subseteq Rows /\ \A x \in Rows' : rows'[x] = rows[x]
  BY <1>1 DEF Rows
<1>3. QED BY <1>1, <1>2 DEF FactsAreTrue, OneRowEach
-----------------------------------------------------------------------------
(* The customer.                                                             *)

\* No request starts or stops making a customer.
MakersStay ==
    \A x \in Procs :
        /\ procs'[x].pc \in {"create", "store"} => procs'[x].pc = procs[x].pc /\ procs'[x].customer = procs[x].customer
        /\ procs[x].pc = "store" => procs'[x].pc = "store"

(* While no request starts or stops making a customer, nothing is lost.      *)
LEMMA CustomersWait ==
    ASSUME TypeOK, Customers, MakersStay, customer' = customer, stripe'.customers = stripe.customers,
           doubled' = doubled
    PROVE  Customers'
<1>1. MakesOne(Procs)' => MakesOne(Procs)
  BY DEF MakesOne, MakersStay
<1>2. \A q \in Procs : procs'[q].pc = "store" => procs'[q].customer \in 1..Len(stripe'.customers)
  BY DEF Customers, MakersStay
<1>3. (\E q \in Procs : procs[q].pc = "store") => \E q \in Procs : procs'[q].pc = "store"
  BY DEF MakersStay
<1>4. QED BY <1>1, <1>2, <1>3 DEF Customers

(* One request moves, from and to a place where it makes no customer.        *)
LEMMA OneMoves ==
    ASSUME TypeOK, NEW q \in Procs, NEW h, procs' = [procs EXCEPT ![q] = h],
           procs[q].pc # "store", h.pc \notin {"create", "store"}
    PROVE  MakersStay
<1>1. procs'[q] = h /\ \A x \in Procs : x # q => procs'[x] = procs[x]
  BY DEF TypeOK
<1>2. QED BY <1>1 DEF MakersStay

(* The steps that have nothing to do with the customer.                      *)
LEMMA MakersWait ==
    ASSUME TypeOK,
           \/ RunScript \/ CreateProduct \/ ScriptEnds
           \/ \E p \in Prices : ScriptLine(p) \/ RemovePrice(p) \/ Archive(p)
           \/ \E q \in Procs, a \in Apps, p \in Prices, t \in Tiers : AddPrice(q, a, p, t)
           \/ \E q \in Procs, p \in Prices : RefreshPrice(q, p) \/ ResolvePrice(q, p)
           \/ \E q \in Procs, a \in Apps, portal \in BOOLEAN : Request(q, a, portal)
           \/ \E q \in Procs : WriteRow(q) \/ RequireRelationship(q) \/ OpenSession(q)
           \/ \E a \in Apps : DeleteApp(a) \/ RemoveAccess(a)
    PROVE  /\ MakersStay /\ customer' = customer /\ doubled' = doubled
           /\ stripe'.customers = stripe.customers
<1>1. customer' = customer /\ doubled' = doubled
  BY DEF RunScript, CreateProduct, ScriptEnds, ScriptLine, RemovePrice, Archive, AddPrice, RefreshPrice, ResolvePrice,
         Request, WriteRow, RequireRelationship, OpenSession, DeleteApp, RemoveAccess
<1>2. stripe'.customers = stripe.customers
  <2>1. CASE CreateProduct
    BY <2>1, ProductMade
  <2>2. ASSUME NEW p \in Prices, ScriptLine(p) PROVE stripe'.customers = stripe.customers
    <3>1. CASE ~UNCHANGED stripe
      <4>1. PICK s \in StripePrice : stripe' = [stripe EXCEPT !.prices = [stripe.prices EXCEPT ![p] = s]]
        BY <2>2, <3>1, LineDone, Zenon
      <4>2. QED BY <4>1, PriceWritten
    <3>2. QED BY <3>1
  <2>3. ASSUME NEW p \in Prices, Archive(p) PROVE stripe'.customers = stripe.customers
    <3>1. PICK s \in StripePrice : stripe' = [stripe EXCEPT !.prices = [stripe.prices EXCEPT ![p] = s]]
      BY <2>3, PriceArchived
    <3>2. QED BY <3>1, PriceWritten
  <2>4. QED BY <2>1, <2>2, <2>3
          DEF RunScript, ScriptEnds, RemovePrice, AddPrice, RefreshPrice, ResolvePrice,
              Request, WriteRow, RequireRelationship, OpenSession, DeleteApp, RemoveAccess
<1>3. ASSUME procs' = procs PROVE MakersStay
  BY <1>3 DEF MakersStay
<1>4. ASSUME NEW Q, procs' = Outdated(Q) PROVE MakersStay
  BY <1>4, OutdatedStep DEF MakersStay, SameRequest
<1>5. ASSUME RunScript \/ CreateProduct \/ ScriptEnds \/ \E p \in Prices : ScriptLine(p) PROVE MakersStay
  <2>1. procs' = procs
    BY <1>5 DEF RunScript, CreateProduct, ScriptEnds, ScriptLine
  <2>2. QED BY <2>1, <1>3
<1>6. ASSUME (\E p \in Prices : RemovePrice(p) \/ Archive(p)) \/ \E a \in Apps : DeleteApp(a) \/ RemoveAccess(a)
      PROVE  MakersStay
  <2>1. \E Q : procs' = Outdated(Q)
    BY <1>6 DEF RemovePrice, Archive, DeleteApp, RemoveAccess
  <2>2. QED BY <2>1, <1>4
<1>7. ASSUME NEW q \in Procs, NEW a \in Apps, NEW p \in Prices, NEW t \in Tiers, AddPrice(q, a, p, t) PROVE MakersStay
  <2>1. PICK h : h.pc = "add" /\ procs' = [procs EXCEPT ![q] = h] /\ procs[q].pc = "idle"
    BY <1>7 DEF AddPrice, Idle
  <2>2. QED BY <2>1, OneMoves
<1>8. ASSUME NEW q \in Procs, NEW p \in Prices, RefreshPrice(q, p) PROVE MakersStay
  <2>1. PICK h : h.pc = "refresh" /\ procs' = [procs EXCEPT ![q] = h] /\ procs[q].pc = "idle"
    BY <1>8 DEF RefreshPrice, Idle
  <2>2. QED BY <2>1, OneMoves
<1>9. ASSUME NEW q \in Procs, NEW p \in Prices, ResolvePrice(q, p) PROVE MakersStay
  <2>1. PICK h : h.pc = "relation" /\ procs' = [procs EXCEPT ![q] = h] /\ procs[q].pc = "resolve"
    <3> DEFINE new == [procs[q] EXCEPT !.pc = "relation", !.price = p, !.every = rows[p].every]
    <3>1. procs' = [procs EXCEPT ![q] = new] /\ procs[q].pc = "resolve"
      BY <1>9 DEF ResolvePrice, TypeOK
    <3>2. new.pc = "relation"
      BY DEF TypeOK, Proc
    <3> HIDE DEF new
    <3>3. QED BY <3>1, <3>2
  <2>2. QED BY <2>1, OneMoves
<1>10. ASSUME NEW q \in Procs, NEW a \in Apps, NEW portal \in BOOLEAN, Request(q, a, portal) PROVE MakersStay
  <2>1. PICK h : h.pc \in {"relation", "resolve"} /\ procs' = [procs EXCEPT ![q] = h] /\ procs[q].pc = "idle"
    BY <1>10 DEF Request, Idle
  <2>2. QED BY <2>1, OneMoves
<1>11. ASSUME NEW q \in Procs, WriteRow(q) PROVE MakersStay
  <2> DEFINE f == Outdated(Pricing(procs[q].price))
  <2>1. f = [x \in Procs |-> f[x]] /\ \A x \in Procs : f[x].pc = procs[x].pc /\ f[x].customer = procs[x].customer
    BY OutdatedMarks DEF Outdated
  <2>2. procs' = [f EXCEPT ![q] = Idle] /\ procs[q].pc \in {"add", "refresh"}
    BY <1>11 DEF WriteRow
  <2> HIDE DEF f
  <2>3. procs'[q].pc = "idle" /\ \A x \in Procs : x # q => procs'[x] = f[x]
    BY <2>1, <2>2, IdleIsProc
  <2>4. QED BY <2>1, <2>2, <2>3 DEF MakersStay
<1>12. ASSUME NEW q \in Procs, RequireRelationship(q) PROVE MakersStay
  <2>1. PICK h : h.pc = "customer" /\ procs' = [procs EXCEPT ![q] = h] /\ procs[q].pc = "relation"
    BY <1>12 DEF RequireRelationship, TypeOK, Proc
  <2>2. QED BY <2>1, OneMoves
<1>13. ASSUME NEW q \in Procs, OpenSession(q) PROVE MakersStay
  BY <1>13, OneMoves, IdleIsProc DEF OpenSession
<1>14. MakersStay
  BY <1>5, <1>6, <1>7, <1>8, <1>9, <1>10, <1>11, <1>12, <1>13
<1>15. QED BY <1>1, <1>2, <1>14

(* The tenant's customer is read, made, stored, or lost with its request.    *)
LEMMA CustomersStep ==
    ASSUME TypeOK, Customers,
           \/ \E q \in Procs : EnsureCustomer(q) \/ CreateCustomer(q) \/ StoreCustomer(q) \/ RequestFails(q)
           \/ \E m \in Modes : Restart(m)
    PROVE  Customers' /\ customer' \in 0..Len(stripe'.customers)
<1>1. Len(stripe.customers) \in Nat /\ customer \in 0..Len(stripe.customers)
  BY StripeTables DEF TypeOK
<1>2. ASSUME NEW q \in Procs, EnsureCustomer(q) PROVE Customers' /\ customer' \in 0..Len(stripe'.customers)
  <2>1. /\ procs[q].pc = "customer" /\ procs'[q].pc = (IF customer = 0 THEN "create" ELSE "session")
        /\ \A x \in Procs : x # q => procs'[x] = procs[x]
    BY <1>2 DEF EnsureCustomer, TypeOK, Proc
  <2>2. UNCHANGED <<stripe, customer, doubled>>
    BY <1>2 DEF EnsureCustomer
  <2>3. \A x \in Procs : (procs'[x].pc = "store") = (procs[x].pc = "store")
    BY <2>1
  <2>4. \A x \in Procs : procs'[x].pc = "store" => procs'[x] = procs[x]
    BY <2>1
  <2>5. customer # 0 => (MakesOne(Procs)' => MakesOne(Procs))
    BY <2>1 DEF MakesOne
  <2>6. QED BY <1>1, <2>2, <2>3, <2>4, <2>5 DEF Customers
<1>3. ASSUME NEW q \in Procs, CreateCustomer(q) PROVE Customers' /\ customer' \in 0..Len(stripe'.customers)
  <2>1. Len(stripe'.customers) = Len(stripe.customers) + 1
    BY <1>3, CustomerMade
  <2>2. /\ procs[q].pc = "create" /\ procs'[q].pc = "store" /\ procs'[q].customer = Len(stripe.customers) + 1
        /\ \A x \in Procs : x # q => procs'[x] = procs[x]
    BY <1>3 DEF CreateCustomer, TypeOK, Proc
  <2>3. customer' = customer /\ doubled' = (doubled \/ MakesOne(Procs \ {q}))
    BY <1>3 DEF CreateCustomer
  <2>4. \A x \in Procs : procs'[x].pc = "store" => procs'[x].customer \in 1..Len(stripe'.customers)
    BY <1>1, <2>1, <2>2 DEF Customers
  <2>5. ASSUME ~doubled' PROVE Len(stripe.customers) = 0 /\ customer = 0
    <3>1. ~doubled /\ \A x \in Procs : x # q => procs[x].pc # "store"
      BY <2>3, <2>5 DEF MakesOne
    <3>2. MakesOne(Procs) /\ ~\E x \in Procs : procs[x].pc = "store"
      BY <2>2, <3>1 DEF MakesOne
    <3>3. customer = 0 /\ Len(stripe.customers) # 1
      BY <3>1, <3>2, Zenon DEF Customers
    <3>4. Len(stripe.customers) <= 1
      BY <3>1 DEF Customers
    <3>5. PICK n \in Nat : n = Len(stripe.customers)
      BY <1>1
    <3>6. n # 1 /\ n <= 1
      BY <3>3, <3>4, <3>5, Zenon
    <3>7. n = 0
      BY <3>6
    <3>8. QED BY <3>3, <3>5, <3>7
  <2>6. QED BY <1>1, <2>1, <2>2, <2>3, <2>4, <2>5 DEF Customers
<1>4. ASSUME NEW q \in Procs, StoreCustomer(q) PROVE Customers' /\ customer' \in 0..Len(stripe'.customers)
  <2>1. /\ procs[q].pc = "store" /\ procs'[q].pc = "session"
        /\ \A x \in Procs : x # q => procs'[x] = procs[x]
    BY <1>4 DEF StoreCustomer, TypeOK, Proc
  <2>2. customer' = procs[q].customer /\ stripe' = stripe /\ doubled' = (doubled \/ MakesOne(Procs \ {q}))
    BY <1>4 DEF StoreCustomer
  <2>3. customer' \in 1..Len(stripe.customers)
    BY <2>1, <2>2 DEF Customers
  <2>4. ~doubled' => ~doubled /\ ~MakesOne(Procs)'
    BY <2>1, <2>2 DEF MakesOne
  <2>5. QED BY <1>1, <2>1, <2>2, <2>3, <2>4 DEF Customers
<1>5. ASSUME NEW q \in Procs, RequestFails(q) PROVE Customers' /\ customer' \in 0..Len(stripe'.customers)
  <2>1. procs' = [procs EXCEPT ![q] = Idle] /\ UNCHANGED <<stripe, customer>> /\ doubled' = (doubled \/ procs[q].pc = "store")
    BY <1>5 DEF RequestFails
  <2>2. CASE procs[q].pc = "store"
    <3>1. doubled' /\ procs'[q].pc = "idle" /\ \A x \in Procs : x # q => procs'[x] = procs[x]
      BY <2>1, <2>2, IdleIsProc DEF TypeOK
    <3>2. QED BY <1>1, <2>1, <3>1 DEF Customers
  <2>3. CASE procs[q].pc # "store"
    <3>1. MakersStay
      BY <2>1, <2>3, OneMoves, IdleIsProc
    <3>2. doubled' = doubled
      BY <2>1, <2>3 DEF TypeOK
    <3>3. QED BY <1>1, <2>1, <3>1, <3>2, CustomersWait
  <2>4. QED BY <2>2, <2>3
<1>6. ASSUME NEW m \in Modes, Restart(m) PROVE Customers' /\ customer' \in 0..Len(stripe'.customers)
  <2>1. /\ \A q \in Procs : procs'[q].pc = "idle"
        /\ UNCHANGED <<stripe, customer>> /\ doubled' = (doubled \/ \E q \in Procs : procs[q].pc = "store")
    BY <1>6, IdleIsProc DEF Restart
  <2>2. ~MakesOne(Procs)'
    BY <2>1 DEF MakesOne
  <2>3. QED BY <1>1, <2>1, <2>2 DEF Customers
<1>7. QED BY <1>2, <1>3, <1>4, <1>5, <1>6
-----------------------------------------------------------------------------
(* The lines of the file.                                                    *)

(* What the script knows of Stripe, while it is not running.                 *)
LEMMA ScriptRests ==
    ASSUME TypeOK, Lines, stripe' = stripe, script' = NoScript
    PROVE  Lines' /\ script' \in Script
<1>1. ~script'.on /\ script' \in Script
  BY CatalogueAssumption DEF NoScript, Script
<1>2. QED BY <1>1 DEF Lines, Made

(* The script starts with the list of what Stripe has.                       *)
LEMMA ScriptStarts ==
    ASSUME TypeOK, Lines, RunScript
    PROVE  Lines' /\ script' \in Script
<1>1. /\ script' = [on |-> TRUE, known |-> Listed, product |-> stripe.products[Live], next |-> 1]
      /\ mode # "unset" /\ mode' = mode /\ stripe' = stripe
  BY DEF RunScript
<1>2. Listed \subseteq Prices /\ Listed' = Listed /\ Live' = Live /\ stripe.products[Live] \in Nat
  BY <1>1, StripeTables DEF Listed, Live
<1>3. Len(Wanted) \in Nat
  BY CatalogueAssumption
<1>4. script' \in Script
  BY <1>1, <1>2, <1>3 DEF Script
<1>5. QED BY <1>1, <1>2, <1>4 DEF Lines, Made

(* A product is made only where no line of the mode has a price yet.         *)
LEMMA ProductLines ==
    ASSUME TypeOK, Lines, CreateProduct
    PROVE  Lines' /\ script' \in Script
<1>1. /\ script.on /\ script.product = 0 /\ mode' = mode
      /\ script' = [script EXCEPT !.product = stripe.products[Live] + 1]
  BY DEF CreateProduct
<1>2. stripe.products[Live] \in Nat /\ script \in Script
  BY StripeTables DEF TypeOK
<1>3. stripe.products[Live] + 1 \in Nat
  BY <1>2
<1>4. script' \in Script /\ script'.on /\ script'.known = script.known /\ script'.product = stripe.products[Live] + 1
  BY <1>1, <1>2, <1>3 DEF Script
<1>5. \A p \in Prices : Made(p) => stripe.prices[p].live # Live
  BY <1>1 DEF Lines
<1>6. /\ stripe'.prices = stripe.prices /\ stripe'.products[Live] = stripe.products[Live] + 1
      /\ \A l \in BOOLEAN : l # Live => stripe'.products[l] = stripe.products[l]
  BY ProductMade
<1>7. \A p \in Prices : stripe.prices[p].live \in BOOLEAN
  BY StripeTables DEF StripePrice
<1>8. Live' = Live /\ Listed' = Listed /\ \A p \in Prices : Made(p)' = Made(p)
  BY <1>1, <1>6 DEF Live, Listed, Made
<1>9. \A p \in Prices : Made(p)' =>
          /\ stripe'.prices[p].every = Wanted[stripe'.prices[p].entry]
          /\ stripe'.prices[p].product = stripe'.products[stripe'.prices[p].live]
          /\ stripe'.prices[p].product # 0
  BY <1>5, <1>6, <1>7, <1>8 DEF Lines
<1>10. mode' # "unset" /\ script'.product = stripe'.products[Live'] /\ Listed' \subseteq script'.known
  BY <1>1, <1>4, <1>6, <1>8 DEF Lines
<1>11. \A x, y \in Prices :
          /\ Made(x)' /\ stripe'.prices[x].state = "active" /\ stripe'.prices[y].state = "active"
          /\ stripe'.prices[x].entry = stripe'.prices[y].entry /\ stripe'.prices[x].live = stripe'.prices[y].live
          => x = y
  BY <1>6, <1>8 DEF Lines
<1>12. QED BY <1>4, <1>9, <1>10, <1>11 DEF Lines

(* A line makes its price only if the list it knows, which has every active  *)
(* price of the mode, holds none of the line's: one made from that line would *)
(* bill as the line wants and be of the same product.                        *)
LEMMA LineLines ==
    ASSUME TypeOK, Lines, NEW p \in Prices, ScriptLine(p)
    PROVE  Lines' /\ script' \in Script
<1> DEFINE n == script.next
           s == [state |-> "active", live |-> Live, every |-> Wanted[n], product |-> script.product, entry |-> n]
<1>1. n \in 1..Len(Wanted) /\ n + 1 \in 1..(Len(Wanted) + 1)
  BY LineDone, Zenon
<1>2. script.on /\ script.product # 0 /\ mode' = mode /\ script \in Script /\ Live' = Live
  BY DEF ScriptLine, TypeOK, Live
<1>3. /\ mode # "unset" /\ script.product = stripe.products[Live] /\ Listed \subseteq script.known
  BY <1>2 DEF Lines
<1>4. CASE UNCHANGED stripe
  <2>1. script' = [script EXCEPT !.next = n + 1] \/ script' = [script EXCEPT !.next = n + 1, !.known = script.known \cup {p}]
    BY LineDone, Zenon
  <2>2. script' \in Script /\ script'.on /\ script'.product = script.product /\ script.known \subseteq script'.known
    BY <1>1, <1>2, <2>1 DEF Script
  <2>3. Listed' = Listed /\ Live' = Live /\ \A x \in Prices : Made(x)' = Made(x)
    BY <1>2, <1>4 DEF Listed, Made
  <2>4. QED BY <1>2, <1>3, <1>4, <2>2, <2>3 DEF Lines
<1>5. CASE ~UNCHANGED stripe
  <2>1. /\ FindPrice(n) = {} /\ stripe.prices[p].state = "none"
        /\ s \in StripePrice
        /\ stripe' = [stripe EXCEPT !.prices = [stripe.prices EXCEPT ![p] = s]]
        /\ script' = [script EXCEPT !.next = n + 1, !.known = script.known \cup {p}]
    BY <1>5, LineDone, Zenon
  <2>2. s.state = "active" /\ s.live = Live /\ s.every = Wanted[n] /\ s.product = script.product /\ s.entry = n
    OBVIOUS
  <2>3. /\ script' \in Script /\ script'.on /\ script'.product = script.product
        /\ script'.known = script.known \cup {p}
    BY <1>1, <1>2, <2>1 DEF Script
  <2> HIDE DEF s
  <2>4. /\ stripe'.products = stripe.products /\ stripe'.prices[p] = s
        /\ \A x \in Prices : x # p => stripe'.prices[x] = stripe.prices[x]
    BY <2>1, PriceWritten
  <2>5. \A x \in Prices : x # p => Made(x)' = Made(x)
    BY <2>4 DEF Made
  <2>6. \A x \in Prices : Made(x)' =>
          /\ stripe'.prices[x].every = Wanted[stripe'.prices[x].entry]
          /\ stripe'.prices[x].product = stripe'.products[stripe'.prices[x].live]
          /\ stripe'.prices[x].product # 0
    BY <1>2, <1>3, <2>2, <2>4, <2>5 DEF Lines
  <2>7. Listed' \subseteq script'.known
    BY <1>2, <1>3, <2>3, <2>4 DEF Listed
  <2>8. ASSUME NEW x \in Prices, x # p, stripe.prices[x].state = "active", stripe.prices[x].entry = n,
               stripe.prices[x].live = Live
        PROVE  FALSE
    <3>1. Made(x)
      BY <1>1, <2>8 DEF Made
    <3>2. stripe.prices[x].every = Wanted[n] /\ stripe.prices[x].product = script.product
      BY <1>3, <2>8, <3>1 DEF Lines
    <3>3. x \in script.known
      BY <1>3, <2>8 DEF Listed
    <3>4. QED BY <2>1, <3>2, <3>3 DEF FindPrice
  <2>9. ASSUME NEW x \in Prices, NEW y \in Prices,
               Made(x)', stripe'.prices[x].state = "active", stripe'.prices[y].state = "active",
               stripe'.prices[x].entry = stripe'.prices[y].entry, stripe'.prices[x].live = stripe'.prices[y].live
        PROVE  x = y
    <3>1. CASE x # p /\ y # p
      BY <2>4, <2>5, <2>9, <3>1 DEF Lines
    <3>2. CASE x = p \/ y = p
      BY <2>2, <2>4, <2>8, <2>9, <3>2
    <3>3. QED BY <3>1, <3>2
  <2>10. QED BY <1>2, <1>3, <2>3, <2>4, <2>6, <2>7, <2>9 DEF Lines
<1>6. QED BY <1>4, <1>5

(* An archived price is one less to know.                                    *)
LEMMA ArchiveLines ==
    ASSUME TypeOK, Lines, NEW p \in Prices, Archive(p)
    PROVE  Lines'
<1>1. PICK s \in StripePrice :
          /\ s.state = "archived" /\ s.live = stripe.prices[p].live /\ s.every = stripe.prices[p].every
          /\ s.product = stripe.prices[p].product /\ s.entry = stripe.prices[p].entry
          /\ stripe' = [stripe EXCEPT !.prices = [stripe.prices EXCEPT ![p] = s]]
  BY PriceArchived
<1>2. /\ stripe'.products = stripe.products /\ stripe'.prices[p] = s
      /\ \A x \in Prices : x # p => stripe'.prices[x] = stripe.prices[x]
  BY <1>1, PriceWritten
<1>3. mode' = mode /\ script' = script /\ Live' = Live
  BY DEF Archive, Live
<1>4. \A x \in Prices : /\ Made(x)' = Made(x) /\ stripe'.prices[x].live = stripe.prices[x].live
                        /\ stripe'.prices[x].every = stripe.prices[x].every
                        /\ stripe'.prices[x].product = stripe.prices[x].product
                        /\ stripe'.prices[x].entry = stripe.prices[x].entry
                        /\ stripe'.prices[x].state = "active" => stripe.prices[x].state = "active"
  BY <1>1, <1>2 DEF Made
<1>5. Listed' \subseteq Listed
  BY <1>3, <1>4 DEF Listed
<1>6. QED BY <1>2, <1>3, <1>4, <1>5 DEF Lines

(* The other steps leave Stripe's products and prices, the script and the     *)
(* key alone.                                                                *)
LEMMA LinesWait ==
    ASSUME TypeOK, Lines, mode' = mode, script' = script,
           stripe'.prices = stripe.prices, stripe'.products = stripe.products
    PROVE  Lines' /\ script' \in Script
<1>1. Live' = Live /\ Listed' = Listed /\ \A x \in Prices : Made(x)' = Made(x)
  BY DEF Live, Listed, Made
<1>2. Lines'
  BY <1>1 DEF Lines
<1>3. QED BY <1>2 DEF TypeOK
-----------------------------------------------------------------------------
(* The invariant.                                                            *)

(* In every initial state the one price that may exist was made by hand.     *)
LEMMA InitHolds == Init => IInv
<1> SUFFICES ASSUME Init PROVE IInv
  OBVIOUS
<1>1. PICK p \in Prices, a \in Apps, t \in Tiers, live \in BOOLEAN, every \in {"year", "once"} :
         /\ stripe = [prices |-> [x \in Prices |-> IF x = p
                                    THEN [NotMade EXCEPT !.state = "active", !.live = live, !.every = every]
                                    ELSE NotMade],
                      products |-> [l \in BOOLEAN |-> 0], customers |-> <<>>]
         /\ rows \in {[x \in Prices |-> NoRow],
                      [x \in Prices |-> IF x = p THEN [NoRow EXCEPT !.id = 1, !.app = a, !.tier = t] ELSE NoRow]}
  BY DEF Init
<1> DEFINE s == [NotMade EXCEPT !.state = "active", !.live = live, !.every = every]
           r == [NoRow EXCEPT !.id = 1, !.app = a, !.tier = t]
<1>2. Len(Wanted) \in Nat
  BY CatalogueAssumption
<1>3. NotMade \in StripePrice /\ NotMade.state = "none" /\ NotMade.entry = 0
  BY <1>2 DEF NotMade, StripePrice, Cadence
<1>4. s \in StripePrice /\ s.entry = 0
  <2>1. every \in Cadence /\ live \in BOOLEAN
    BY DEF Cadence
  <2>2. NotMade \in [state: {"none", "active", "archived"}, live: BOOLEAN, every: Cadence,
                     product: Nat, entry: 0..Len(Wanted)]
    BY <1>3 DEF StripePrice
  <2>3. s \in [state: {"none", "active", "archived"}, live: BOOLEAN, every: Cadence,
               product: Nat, entry: 0..Len(Wanted)]
    BY <2>1, <2>2
  <2>4. QED BY <1>3, <2>2, <2>3 DEF StripePrice
<1>5. r \in Row /\ r.verified = FALSE /\ r.app = a /\ NoRow.verified = FALSE
  BY DEF NoRow, Row, Cadence
<1> HIDE DEF s, r
<1>6. stripe = [prices |-> [x \in Prices |-> IF x = p THEN s ELSE NotMade],
                products |-> [l \in BOOLEAN |-> 0], customers |-> <<>>]
  BY <1>1 DEF s
<1>7. /\ stripe \in [prices: [Prices -> StripePrice], products: [BOOLEAN -> Nat], customers: Seq(BOOLEAN)]
      /\ \A x \in Prices : stripe.prices[x].entry = 0
      /\ Len(stripe.customers) = 0
  BY <1>3, <1>4, <1>6
<1>8. \A x \in Prices : rows[x] = NoRow \/ (x = p /\ rows[x] = r)
  BY <1>1 DEF r
<1>9. rows \in [Prices -> Row \cup {NoRow}]
  BY <1>1, <1>5 DEF r
<1>10. script \in Script /\ ~script.on
  BY <1>2 DEF Init, NoScript, Script
<1>11. /\ procs \in [Procs -> Proc] /\ \A q \in Procs : procs[q] = Idle
       /\ mode \in Modes /\ apps = Apps /\ enabled = Apps /\ customer = 0 /\ ops = 0
       /\ doubled = FALSE /\ refused = FALSE
  BY IdleIsProc DEF Init
<1>12. TypeOK
  <2>1. customer \in 0..Len(stripe.customers) /\ ops \in 0..MaxOps
    BY <1>7, <1>11, CatalogueAssumption
  <2>2. QED BY <2>1, <1>7, <1>9, <1>10, <1>11 DEF TypeOK
<1>13. FactsAreTrue /\ OneRowEach
  BY <1>5, <1>8 DEF FactsAreTrue, OneRowEach, Rows
<1>14. Requests
  BY <1>11 DEF Requests, Describing, Vetted, Serves, Priced, Related, Idle
<1>15. Customers
  BY <1>7, <1>11, IdleIsProc DEF Customers
<1>16. Lines
  BY <1>7, <1>10 DEF Lines, Made
<1>17. QED BY <1>12, <1>13, <1>14, <1>15, <1>16 DEF IInv

(* What Stripe says of a price that exists never changes.                    *)
LEMMA StripeKeeps ==
    ASSUME TypeOK, Next
    PROVE  /\ FactsStay
           /\ stripe' \in [prices: [Prices -> StripePrice], products: [BOOLEAN -> Nat], customers: Seq(BOOLEAN)]
<1> DEFINE Goal == /\ FactsStay
                   /\ stripe' \in [prices: [Prices -> StripePrice], products: [BOOLEAN -> Nat], customers: Seq(BOOLEAN)]
<1>1. ASSUME stripe' = stripe PROVE Goal
  BY <1>1 DEF FactsStay, TypeOK
<1>2. ASSUME CreateProduct PROVE Goal
  BY <1>2, ProductMade DEF FactsStay
<1>3. ASSUME NEW p \in Prices, ScriptLine(p) PROVE Goal
  <2>1. CASE ~UNCHANGED stripe
    <3>1. PICK s \in StripePrice : /\ stripe.prices[p].state = "none"
                                   /\ stripe' = [stripe EXCEPT !.prices = [stripe.prices EXCEPT ![p] = s]]
      BY <1>3, <2>1, LineDone, Zenon
    <3>2. QED BY <3>1, PriceWritten DEF FactsStay
  <2>2. QED BY <1>1, <2>1
<1>4. ASSUME NEW p \in Prices, Archive(p) PROVE Goal
  <2>1. PICK s \in StripePrice :
            /\ s.state = "archived" /\ s.live = stripe.prices[p].live /\ s.every = stripe.prices[p].every
            /\ stripe' = [stripe EXCEPT !.prices = [stripe.prices EXCEPT ![p] = s]]
    BY <1>4, PriceArchived
  <2>2. QED BY <2>1, PriceWritten DEF FactsStay
<1>5. ASSUME NEW q \in Procs, CreateCustomer(q) PROVE Goal
  BY <1>5, CustomerMade DEF FactsStay
<1>6. CASE stripe' # stripe
  <2>1. CreateProduct \/ (\E p \in Prices : ScriptLine(p) \/ Archive(p)) \/ \E q \in Procs : CreateCustomer(q)
    BY <1>6 DEF Next, RunScript, ScriptEnds, RemovePrice, AddPrice, RefreshPrice, ResolvePrice, Request, WriteRow,
                RequireRelationship, EnsureCustomer, StoreCustomer, OpenSession, RequestFails, Restart, DeleteApp,
                RemoveAccess
  <2> HIDE DEF Goal
  <2>2. Goal
    BY <1>2, <1>3, <1>4, <1>5, <2>1
  <2>3. QED BY <2>2 DEF Goal
<1>7. QED BY <1>1, <1>6

(* What requests know.                                                       *)
LEMMA RequestsKeep ==
    ASSUME TypeOK, Requests, Next
    PROVE  procs' \in [Procs -> Proc] /\ Requests'
<1>1. CASE \/ \E q \in Procs, a \in Apps, p \in Prices, t \in Tiers : AddPrice(q, a, p, t)
           \/ \E q \in Procs, p \in Prices : RefreshPrice(q, p)
  BY <1>1, DescribingStarts
<1>2. CASE \E q \in Procs, a \in Apps, portal \in BOOLEAN : Request(q, a, portal)
  BY <1>2, RequestStarts
<1>3. CASE \/ \E q \in Procs, p \in Prices : ResolvePrice(q, p)
           \/ \E q \in Procs : RequireRelationship(q) \/ EnsureCustomer(q) \/ CreateCustomer(q) \/ StoreCustomer(q)
  BY <1>3, ChecksPass
<1>4. CASE \E q \in Procs : WriteRow(q)
  BY <1>4, WriteRowKnown
<1>5. CASE (\E p \in Prices : RemovePrice(p) \/ Archive(p)) \/ (\E a \in Apps : DeleteApp(a) \/ RemoveAccess(a))
  BY <1>5, TakenBackKnown
<1>6. CASE \/ RunScript \/ CreateProduct \/ ScriptEnds \/ (\E p \in Prices : ScriptLine(p))
           \/ (\E q \in Procs : OpenSession(q) \/ RequestFails(q)) \/ (\E m \in Modes : Restart(m))
  BY <1>6, OthersKnown
<1>7. QED BY <1>1, <1>2, <1>3, <1>4, <1>5, <1>6 DEF Next

(* What is said of the rows.                                                 *)
LEMMA RowsKeep ==
    ASSUME TypeOK, Requests, FactsAreTrue, OneRowEach, Next
    PROVE  rows' \in [Prices -> Row \cup {NoRow}] /\ FactsAreTrue' /\ OneRowEach'
<1>1. CASE \E q \in Procs : WriteRow(q)
  BY <1>1, RowWritten
<1>2. CASE \E p \in Prices : RemovePrice(p)
  BY <1>2, RowRemoved
<1>3. CASE rows' = rows
  BY <1>3, RowsWait, StripeKeeps DEF TypeOK
<1>4. CASE rows' # rows
  <2>1. (\E q \in Procs : WriteRow(q)) \/ \E p \in Prices : RemovePrice(p)
    BY <1>4 DEF Next, RunScript, CreateProduct, ScriptLine, ScriptEnds, Archive, AddPrice, RefreshPrice, ResolvePrice,
                Request, RequireRelationship, EnsureCustomer, CreateCustomer, StoreCustomer, OpenSession, RequestFails,
                Restart, DeleteApp, RemoveAccess
  <2>2. QED BY <1>1, <1>2, <2>1
<1>5. QED BY <1>3, <1>4

(* Who makes the customer.                                                   *)
LEMMA CustomersKeep ==
    ASSUME TypeOK, Customers, Next
    PROVE  Customers' /\ customer' \in 0..Len(stripe'.customers)
<1>1. CASE \/ \E q \in Procs : EnsureCustomer(q) \/ CreateCustomer(q) \/ StoreCustomer(q) \/ RequestFails(q)
           \/ \E m \in Modes : Restart(m)
  BY <1>1, CustomersStep
<1>2. CASE \/ RunScript \/ CreateProduct \/ ScriptEnds
           \/ \E p \in Prices : ScriptLine(p) \/ RemovePrice(p) \/ Archive(p)
           \/ \E q \in Procs, a \in Apps, p \in Prices, t \in Tiers : AddPrice(q, a, p, t)
           \/ \E q \in Procs, p \in Prices : RefreshPrice(q, p) \/ ResolvePrice(q, p)
           \/ \E q \in Procs, a \in Apps, portal \in BOOLEAN : Request(q, a, portal)
           \/ \E q \in Procs : WriteRow(q) \/ RequireRelationship(q) \/ OpenSession(q)
           \/ \E a \in Apps : DeleteApp(a) \/ RemoveAccess(a)
  <2>1. MakersStay /\ customer' = customer /\ doubled' = doubled /\ stripe'.customers = stripe.customers
    BY <1>2, MakersWait
  <2>2. Customers'
    BY <2>1, CustomersWait
  <2>3. QED BY <2>1, <2>2 DEF TypeOK
<1>3. QED BY <1>1, <1>2 DEF Next

(* What the script makes.                                                    *)
LEMMA LinesKeep ==
    ASSUME TypeOK, Lines, Next
    PROVE  Lines' /\ script' \in Script
<1>1. CASE RunScript
  BY <1>1, ScriptStarts
<1>2. CASE CreateProduct
  BY <1>2, ProductLines
<1>3. CASE \E p \in Prices : ScriptLine(p)
  BY <1>3, LineLines
<1>4. CASE ScriptEnds \/ \E m \in Modes : Restart(m)
  BY <1>4, ScriptRests DEF ScriptEnds, Restart
<1>5. CASE \E p \in Prices : Archive(p)
  BY <1>5, ArchiveLines DEF Archive, TypeOK
<1>6. CASE \E q \in Procs : CreateCustomer(q)
  <2>1. stripe'.prices = stripe.prices /\ stripe'.products = stripe.products
    BY <1>6, CustomerMade
  <2>2. mode' = mode /\ script' = script
    BY <1>6 DEF CreateCustomer
  <2>3. QED BY <2>1, <2>2, LinesWait
<1>7. CASE \/ \E p \in Prices : RemovePrice(p)
           \/ \E q \in Procs, a \in Apps, p \in Prices, t \in Tiers : AddPrice(q, a, p, t)
           \/ \E q \in Procs, p \in Prices : RefreshPrice(q, p) \/ ResolvePrice(q, p)
           \/ \E q \in Procs, a \in Apps, portal \in BOOLEAN : Request(q, a, portal)
           \/ \E q \in Procs : \/ WriteRow(q) \/ RequireRelationship(q) \/ EnsureCustomer(q)
                               \/ StoreCustomer(q) \/ OpenSession(q) \/ RequestFails(q)
           \/ \E a \in Apps : DeleteApp(a) \/ RemoveAccess(a)
  <2>1. mode' = mode /\ script' = script /\ stripe' = stripe
    BY <1>7 DEF RemovePrice, AddPrice, RefreshPrice, ResolvePrice, Request, WriteRow, RequireRelationship,
                EnsureCustomer, StoreCustomer, OpenSession, RequestFails, DeleteApp, RemoveAccess
  <2>2. QED BY <2>1, LinesWait
<1>8. QED BY <1>1, <1>2, <1>3, <1>4, <1>5, <1>6, <1>7 DEF Next
(* The whole invariant is kept by every step.                                *)
LEMMA StepKeeps == IInv /\ [Next]_vars => IInv'
<1> SUFFICES ASSUME IInv, [Next]_vars PROVE IInv'
  OBVIOUS
<1>1. CASE UNCHANGED vars
  BY <1>1 DEF IInv, vars, TypeOK, FactsAreTrue, OneRowEach, Rows, Requests, Describing, Vetted, Serves, Priced, Related,
              Live, Customers, MakesOne, Lines, Made, Listed
<1>2. CASE Next
  <2>1. mode' \in Modes /\ apps' \subseteq Apps /\ enabled' \subseteq Apps
    BY <1>2 DEF IInv, TypeOK, Next, RunScript, CreateProduct, ScriptLine, ScriptEnds, Archive, AddPrice, RefreshPrice,
                ResolvePrice, Request, RequireRelationship, EnsureCustomer, CreateCustomer, StoreCustomer, OpenSession,
                RequestFails, Restart, DeleteApp, RemoveAccess, RemovePrice, WriteRow
  <2>2. ops' = ops \/ Operate
    BY <1>2 DEF Next, RunScript, CreateProduct, ScriptLine, ScriptEnds, Archive, AddPrice, RefreshPrice,
                ResolvePrice, Request, RequireRelationship, EnsureCustomer, CreateCustomer, StoreCustomer, OpenSession,
                RequestFails, Restart, DeleteApp, RemoveAccess, RemovePrice, WriteRow
  <2>3. ops' \in 0..MaxOps
    BY <2>2, CatalogueAssumption DEF IInv, TypeOK, Operate
  <2>4. doubled' \in BOOLEAN
    BY <1>2 DEF IInv, TypeOK, Next, RunScript, CreateProduct, ScriptLine, ScriptEnds, Archive, AddPrice, RefreshPrice,
                ResolvePrice, Request, RequireRelationship, EnsureCustomer, CreateCustomer, StoreCustomer, OpenSession,
                RequestFails, Restart, DeleteApp, RemoveAccess, RemovePrice, WriteRow
  <2>5. refused' \in BOOLEAN
    BY <1>2 DEF IInv, TypeOK, Next, RunScript, CreateProduct, ScriptLine, ScriptEnds, Archive, AddPrice, RefreshPrice,
                ResolvePrice, Request, RequireRelationship, EnsureCustomer, CreateCustomer, StoreCustomer, OpenSession,
                RequestFails, Restart, DeleteApp, RemoveAccess, RemovePrice, WriteRow
  <2>6. stripe' \in [prices: [Prices -> StripePrice], products: [BOOLEAN -> Nat], customers: Seq(BOOLEAN)]
    BY <1>2, StripeKeeps DEF IInv
  <2>7. procs' \in [Procs -> Proc] /\ Requests'
    BY <1>2, RequestsKeep DEF IInv
  <2>8. rows' \in [Prices -> Row \cup {NoRow}] /\ FactsAreTrue' /\ OneRowEach'
    BY <1>2, RowsKeep DEF IInv
  <2>9. Customers' /\ customer' \in 0..Len(stripe'.customers)
    BY <1>2, CustomersKeep DEF IInv
  <2>10. Lines' /\ script' \in Script
    BY <1>2, LinesKeep DEF IInv
  <2>11. TypeOK'
    BY <2>1, <2>3, <2>4, <2>5, <2>6, <2>7, <2>8, <2>9, <2>10 DEF TypeOK
  <2>12. QED BY <2>7, <2>8, <2>9, <2>10, <2>11 DEF IInv
<1>3. QED BY <1>1, <1>2

-----------------------------------------------------------------------------
(* The theorems.                                                             *)

(* The registry of prices (addPrice, refreshPrice, removePrice), the requests *)
(* in flight (checkout, portal), the customer (ensureCustomer) and the lines  *)
(* of the catalogue file (stripe_catalogue.py) agree with Stripe in every     *)
(* reachable state.                                                           *)
THEOREM Invariant == Spec => []IInv
  BY InitHolds, StepKeeps, PTL DEF Spec

(* Every variable keeps to its set, whatever describePrice, ensureCustomer    *)
(* and the script write.                                                      *)
THEOREM TypeCorrect == Spec => []TypeOK
<1>1. IInv => TypeOK
  BY DEF IInv
<1>2. QED BY <1>1, Invariant, PTL

(* The pricing table is true, and asking checkout for a row of it by tier and *)
(* cadence leads to that row (listPrices and resolvePrice, billing.service.ts;*)
(* addPrice and refreshPrice, apps.service.ts).                               *)
THEOREM CatalogueIsTrueHolds == Spec => []CatalogueIsTrue
<1>1. IInv => CatalogueIsTrue
  <2> SUFFICES ASSUME IInv PROVE CatalogueIsTrue
    OBVIOUS
  <2>1. ASSUME NEW p \in Rows, rows[p].verified
        PROVE  rows[p].every = stripe.prices[p].every /\ rows[p].live = stripe.prices[p].live
    BY <2>1 DEF IInv, FactsAreTrue
  <2>2. ASSUME NEW p \in Rows, NEW a \in Apps, p \in PricingTable(a), mode # "unset"
        PROVE  Selects(a, "tier", p) /\ ModeFits(p)
    <3>1. p \in RowsOf(a) /\ ModeFits(p)
      BY <2>2 DEF PricingTable, ModeFits
    <3>2. ~Clash(a, p, rows[p].tier, rows[p].every)
      BY <3>1 DEF IInv, OneRowEach, Clash, RowsOf
    <3>3. QED BY <3>1, <3>2 DEF Selects
  <2>3. QED BY <2>1, <2>2 DEF CatalogueIsTrue
<1>2. QED BY <1>1, Invariant, PTL

(* A workspace has one customer unless two were made at once or one was lost, *)
(* and a line of the file one active price in each mode (ensureCustomer,      *)
(* billing.service.ts; find_price and run, stripe_catalogue.py).              *)
THEOREM NothingMadeTwiceHolds == Spec => []NothingMadeTwice
<1>1. IInv => NothingMadeTwice
  <2> SUFFICES ASSUME IInv PROVE NothingMadeTwice
    OBVIOUS
  <2>1. Len(stripe.customers) \in Nat
    BY StripeTables DEF IInv
  <2>2. Len(stripe.customers) > 1 => doubled
    BY <2>1 DEF IInv, Customers
  <2>3. ASSUME NEW x \in Prices, NEW y \in Prices,
               stripe.prices[x].entry # 0, stripe.prices[x].entry = stripe.prices[y].entry,
               stripe.prices[x].live = stripe.prices[y].live, stripe.prices[x].state = "active",
               stripe.prices[y].state = "active"
        PROVE  x = y
    BY <2>3 DEF IInv, Lines, Made
  <2>4. QED BY <2>2, <2>3 DEF NothingMadeTwice
<1>2. QED BY <1>1, Invariant, PTL

(* A page is opened only for what the calling app sells, of the key's mode,   *)
(* to a workspace the app still serves, unless that was taken back after the  *)
(* checkout had checked it (checkout and portal, billing.service.ts).         *)
THEOREM SessionsAreVettedHolds == Spec => SessionsAreVetted
<1> DEFINE A == \A q \in Procs :
         LET r == procs[q] IN
         r.pc = "session" /\ procs'[q].pc = "idle" /\ ~r.stale =>
           /\ r.app \in apps /\ r.app \in enabled
           /\ ~r.portal => rows[r.price].app = r.app /\ (mode # "unset" => rows[r.price].live = Live)
<1>1. IInv /\ [Next]_vars => [A]_vars
  <2> SUFFICES ASSUME IInv PROVE A
    OBVIOUS
  <2>1. ASSUME NEW q \in Procs, procs[q].pc = "session", ~procs[q].stale
        PROVE  /\ procs[q].app \in apps /\ procs[q].app \in enabled
               /\ ~procs[q].portal =>
                     /\ rows[procs[q].price].app = procs[q].app
                     /\ mode # "unset" => rows[procs[q].price].live = Live
    BY <2>1 DEF IInv, Requests, Vetted, Serves, Priced, Related
  <2>2. QED BY <2>1
<1> HIDE DEF A
<1>2. Spec => [][A]_vars
  BY <1>1, Invariant, PTL DEF Spec
<1>3. QED BY <1>2 DEF A, SessionsAreVetted
===============================================================================
