----------------------------- MODULE BillingProofs -----------------------------
(***************************************************************************)
(* Proofs about module Billing, for any apps, orders, tiers and requests   *)
(* in flight, and any bounds.                                              *)
(***************************************************************************)
EXTENDS Billing, FiniteSetTheorems, TLAPS

-----------------------------------------------------------------------------
(* The inductive invariant.                                                 *)

\* What Stripe has said stays, and what it calls a paid invoice is of an
\* active subscription.
LogsAreTrue ==
    \A o \in Orders :
        /\ orders[o].log # <<>> => orders[o].app \in Apps
        /\ \A v \in DOMAIN orders[o].log :
              orders[o].log[v].invoice = "paid" => orders[o].log[v].status = "active"

\* The events are those of the logs, and there is one for every change.
EventsAreTrue ==
    /\ IsFiniteSet(pending \cup acked)
    /\ pending \cap acked = {}
    /\ \A e \in pending \cup acked :
          /\ e.v \in DOMAIN orders[e.order].log
          /\ e.kind = "invoice" => orders[e.order].log[e.v].invoice # "none"
    /\ \A o \in Orders : \A v \in DOMAIN orders[o].log :
          [order |-> o, v |-> v, kind |-> "state"] \in pending \cup acked

\* A row names an order of its own app.
RowsOwnOrders ==
    \A a \in Apps : access[a].order # NoOrder => Live(access[a].order) /\ orders[access[a].order].app = a

\* A request is about an event and its app; the row it has read is still there,
\* or gone, unless it was overtaken; a paid invoice read a row behind with its
\* payments.
RequestsAreTrue ==
    \A p \in Procs :
        LET r == procs[p] IN
        r.pc = "write" =>
        /\ r.ev \in pending \cup acked
        /\ r.app = orders[r.ev.order].app
        /\ ~r.raced /\ access[r.app].row => r.read = access[r.app]
        /\ r.ev.kind = "invoice" => r.read.row
        /\ r.ev.kind = "invoice" /\ Of(r.ev).invoice = "paid" => r.read.status = "PAST_DUE"

IInv ==
    /\ TypeOK
    /\ LogsAreTrue
    /\ EventsAreTrue
    /\ RowsOwnOrders
    /\ RequestsAreTrue
    /\ NoFreeAccess
    /\ PaidInvoicesLiftNoSuspension

-----------------------------------------------------------------------------
(* Types.                                                                   *)

(* The absent values are of the types of what they stand in for.            *)
LEMMA NoneTypes ==
    /\ NoRow \in Row /\ NotPaid \in Order /\ IdleProc \in Proc /\ NewHist \in Hist
    /\ <<>> \in Seq(Snapshot)
<1>1. NoRow \in Row
  BY DEF NoRow, Row, Status, Deadline
<1>2. NewHist \in Hist
  BY DEF NewHist, Hist
<1>3. QED BY <1>1, <1>2 DEF NotPaid, Order, IdleProc, Proc

(* The logs and the events, typed.                                           *)
LEMMA Logs ==
    ASSUME TypeOK, EventsAreTrue
    PROVE  /\ \A o \in Orders : /\ orders[o] \in Order /\ orders[o].log \in Seq(Snapshot)
                                /\ Len(orders[o].log) \in Nat /\ DOMAIN orders[o].log = 1..Len(orders[o].log)
                                /\ \A v \in DOMAIN orders[o].log : orders[o].log[v] \in Snapshot
           /\ \A e \in pending \cup acked :
                 e \in Event /\ e.order \in Orders /\ e.v \in Nat /\ Of(e) \in Snapshot /\ Live(e.order)
<1>1. ASSUME NEW o \in Orders
      PROVE  /\ orders[o] \in Order /\ orders[o].log \in Seq(Snapshot)
             /\ Len(orders[o].log) \in Nat /\ DOMAIN orders[o].log = 1..Len(orders[o].log)
             /\ \A v \in DOMAIN orders[o].log : orders[o].log[v] \in Snapshot
  BY DEF TypeOK, Order
<1>2. ASSUME NEW e \in pending \cup acked
      PROVE  e \in Event /\ e.order \in Orders /\ e.v \in Nat /\ Of(e) \in Snapshot /\ Live(e.order)
  <2>1. e \in Event
    BY DEF TypeOK
  <2>2. e.order \in Orders /\ e.v \in 1..MaxVersions
    BY <2>1 DEF Event
  <2>3. e.v \in DOMAIN orders[e.order].log
    BY DEF EventsAreTrue
  <2>4. orders[e.order].log # <<>>
    BY <1>1, <2>2, <2>3
  <2>5. QED BY <1>1, <2>1, <2>2, <2>3, <2>4, BillingAssumption DEF Of, Live
<1>3. QED BY <1>1, <1>2

(* There are at least as many events as changes of any one order.            *)
LEMMA EnoughEvents ==
    ASSUME TypeOK, EventsAreTrue, NEW o \in Orders
    PROVE  Published \in Nat /\ Len(orders[o].log) <= Published
<1> DEFINE S == {e \in pending \cup acked : e.kind = "state"}
           n == Len(orders[o].log)
           f == [v \in 1..n |-> [order |-> o, v |-> v, kind |-> "state"]]
<1>1. IsFiniteSet(S) /\ Published = Cardinality(S)
  <2>1. IsFiniteSet(pending \cup acked) /\ S \in SUBSET (pending \cup acked)
    BY DEF EventsAreTrue
  <2>2. QED BY <2>1, FS_Subset DEF Published
<1>2. n \in Nat /\ DOMAIN orders[o].log = 1..n
  BY Logs
<1>3. f \in Injection(1..n, S)
  <2>1. f \in [1..n -> S]
    BY <1>2 DEF EventsAreTrue
  <2>2. \A v, w \in 1..n : f[v] = f[w] => v = w
    OBVIOUS
  <2>3. QED BY <2>1, <2>2 DEF Injection, IsInjective
<1>4. Cardinality(1..n) = n
  BY <1>2, FS_Interval
<1> HIDE DEF S, n, f
<1>5. Cardinality(1..n) <= Cardinality(S)
  BY <1>1, <1>3, FS_Injection
<1>6. Cardinality(S) \in Nat
  BY <1>1, FS_CardinalityType
<1>7. QED BY <1>1, <1>4, <1>5, <1>6 DEF n

-----------------------------------------------------------------------------
(* Stripe's steps.                                                           *)

(* A change of an order adds one snapshot to its log and its events to those *)
(* that are pending, none of which was acknowledged.                         *)
LEMMA ChangeEffect ==
    ASSUME IInv, NEW o \in Orders, NEW a \in Apps, NEW s \in Snapshot, Change(o, a, s)
    PROVE  /\ orders' = [orders EXCEPT ![o] = [app |-> a, log |-> Append(orders[o].log, s)]]
           /\ UNCHANGED <<life, access, hist, acked, procs, changes, faults>>
           /\ Len(orders[o].log) + 1 \in 1..MaxVersions
           /\ \E K \in SUBSET {"state", "invoice"} :
                 /\ "state" \in K /\ ("invoice" \in K => s.invoice # "none")
                 /\ pending' = pending \cup {[order |-> o, v |-> Len(orders[o].log) + 1, kind |-> k] : k \in K}
<1> DEFINE v == Len(orders[o].log) + 1
           K == {"state"} \cup (IF s.invoice = "none" THEN {} ELSE {"invoice"})
<1>1. Published < MaxVersions
  BY DEF Change
<1>2. v \in 1..MaxVersions
  <2>1. Published \in Nat /\ Len(orders[o].log) <= Published /\ Len(orders[o].log) \in Nat
    BY EnoughEvents, Logs DEF IInv
  <2>2. QED BY <1>1, <2>1, BillingAssumption
<1>3. pending' = pending \cup {[order |-> o, v |-> v, kind |-> k] : k \in K}
  BY DEF Change
<1>4. K \in SUBSET {"state", "invoice"} /\ "state" \in K /\ ("invoice" \in K => s.invoice # "none")
  OBVIOUS
<1> HIDE DEF K
<1>5. QED BY <1>2, <1>3, <1>4 DEF Change

(* Every snapshot an order had stays where it was.                           *)
LEMMA LogsGrow ==
    ASSUME IInv, NEW o \in Orders, NEW a \in Apps, NEW s \in Snapshot, Change(o, a, s),
           Live(o) => a = orders[o].app
    PROVE  /\ \A x \in Orders :
                /\ orders'[x] \in Order
                /\ \A v \in DOMAIN orders[x].log :
                      v \in DOMAIN orders'[x].log /\ orders'[x].log[v] = orders[x].log[v]
                /\ orders[x].log # <<>> => orders'[x].log # <<>> /\ orders'[x].app = orders[x].app
                /\ x # o => orders'[x] = orders[x]
           /\ orders'[o].app = a /\ orders'[o].log # <<>>
           /\ DOMAIN orders'[o].log = DOMAIN orders[o].log \cup {Len(orders[o].log) + 1}
           /\ orders'[o].log[Len(orders[o].log) + 1] = s
<1> DEFINE n == Len(orders[o].log)
<1>1. /\ orders[o].log \in Seq(Snapshot) /\ n \in Nat /\ DOMAIN orders[o].log = 1..n
      /\ \A x \in Orders : orders[x] \in Order
  BY Logs DEF IInv
<1>2. /\ Append(orders[o].log, s) \in Seq(Snapshot) /\ DOMAIN Append(orders[o].log, s) = 1..(n + 1)
      /\ Append(orders[o].log, s)[n + 1] = s
      /\ \A v \in 1..n : Append(orders[o].log, s)[v] = orders[o].log[v]
      /\ Append(orders[o].log, s) # <<>>
  BY <1>1
<1>3. orders' = [orders EXCEPT ![o] = [app |-> a, log |-> Append(orders[o].log, s)]]
  BY ChangeEffect
<1>4. orders'[o] = [app |-> a, log |-> Append(orders[o].log, s)] /\ \A x \in Orders : x # o => orders'[x] = orders[x]
  BY <1>3 DEF IInv, TypeOK
<1>5. orders'[o] \in Order
  BY <1>2, <1>4 DEF Order
<1>6. 1..(n + 1) = 1..n \cup {n + 1}
  BY <1>1
<1>7. ASSUME NEW x \in Orders
      PROVE  /\ orders'[x] \in Order
             /\ \A v \in DOMAIN orders[x].log :
                   v \in DOMAIN orders'[x].log /\ orders'[x].log[v] = orders[x].log[v]
             /\ orders[x].log # <<>> => orders'[x].log # <<>> /\ orders'[x].app = orders[x].app
             /\ x # o => orders'[x] = orders[x]
  <2>1. CASE x = o
    <3>1. orders'[o].log = Append(orders[o].log, s) /\ orders'[o].app = a
      BY <1>4
    <3>2. \A v \in DOMAIN orders[o].log : v \in DOMAIN orders'[o].log /\ orders'[o].log[v] = orders[o].log[v]
      BY <1>1, <1>2, <1>6, <3>1
    <3>3. orders[o].log # <<>> => orders'[o].log # <<>> /\ orders'[o].app = orders[o].app
      BY <1>2, <3>1 DEF Live
    <3>4. QED BY <1>5, <2>1, <3>2, <3>3
  <2>2. CASE x # o
    BY <1>1, <1>4, <2>2
  <2>3. QED BY <2>1, <2>2
<1>8. orders'[o].app = a /\ orders'[o].log # <<>> /\ orders'[o].log[n + 1] = s
  BY <1>2, <1>4
<1>9. DOMAIN orders'[o].log = DOMAIN orders[o].log \cup {n + 1}
  BY <1>1, <1>2, <1>4, <1>6
<1>10. QED BY <1>7, <1>8, <1>9

(* A change by Stripe keeps the invariant.                                   *)
LEMMA ChangeStep ==
    ASSUME IInv, NEW o \in Orders, NEW a \in Apps, NEW s \in Snapshot, Change(o, a, s),
           Live(o) => a = orders[o].app, s.invoice = "paid" => s.status = "active"
    PROVE  IInv'
<1> DEFINE n == Len(orders[o].log)
<1>0. TypeOK /\ EventsAreTrue /\ LogsAreTrue
  BY DEF IInv
<1>1. PICK K \in SUBSET {"state", "invoice"} :
                 /\ "state" \in K /\ ("invoice" \in K => s.invoice # "none")
                 /\ pending' = pending \cup {[order |-> o, v |-> n + 1, kind |-> k] : k \in K}
  BY ChangeEffect
<1>2. UNCHANGED <<life, access, hist, acked, procs, changes, faults>> /\ n + 1 \in 1..MaxVersions
      /\ orders' = [orders EXCEPT ![o] = [app |-> a, log |-> Append(orders[o].log, s)]]
  BY ChangeEffect
<1> DEFINE N == {[order |-> o, v |-> n + 1, kind |-> k] : k \in K}
<1>3. N \subseteq Event /\ pending' = pending \cup N /\ n \in Nat /\ n + 1 \notin DOMAIN orders[o].log
  BY <1>0, <1>1, <1>2, Logs DEF Event
<1>4. TypeOK'
  <2>1. orders' \in [Orders -> Order]
    BY <1>2, LogsGrow DEF IInv, TypeOK
  <2>2. QED BY <1>2, <1>3, <2>1 DEF IInv, TypeOK
<1>5. LogsAreTrue'
  <2> SUFFICES ASSUME NEW x \in Orders
               PROVE  /\ orders'[x].log # <<>> => orders'[x].app \in Apps
                      /\ \A v \in DOMAIN orders'[x].log :
                            orders'[x].log[v].invoice = "paid" => orders'[x].log[v].status = "active"
    BY DEF LogsAreTrue
  <2>1. CASE x = o
    BY <1>0, <2>1, LogsGrow DEF LogsAreTrue
  <2>2. CASE x # o
    BY <1>0, <2>2, LogsGrow DEF LogsAreTrue
  <2>3. QED BY <2>1, <2>2
<1>6. EventsAreTrue'
  <2>1. IsFiniteSet(pending' \cup acked')
    <3>1. N \subseteq {[order |-> o, v |-> n + 1, kind |-> "state"]} \cup {[order |-> o, v |-> n + 1, kind |-> "invoice"]}
      OBVIOUS
    <3>2. \A x, y : IsFiniteSet({x} \cup {y})
      BY FS_Singleton, FS_Union
    <3>3. IsFiniteSet({[order |-> o, v |-> n + 1, kind |-> "state"]} \cup {[order |-> o, v |-> n + 1, kind |-> "invoice"]})
      BY <3>2
    <3>4. IsFiniteSet(N)
      BY <3>1, <3>3, FS_Subset
    <3>5. pending' \cup acked' = (pending \cup acked) \cup N
      BY <1>2, <1>3
    <3>6. QED BY <3>4, <3>5, <1>0, FS_Union DEF EventsAreTrue
  <2>2. pending' \cap acked' = {}
    BY <1>0, <1>2, <1>3 DEF EventsAreTrue
  <2>3. ASSUME NEW e \in pending' \cup acked'
        PROVE  /\ e.v \in DOMAIN orders'[e.order].log
               /\ e.kind = "invoice" => orders'[e.order].log[e.v].invoice # "none"
    <3>1. CASE e \in pending \cup acked
      BY <1>0, <3>1, Logs, LogsGrow DEF EventsAreTrue
    <3>2. CASE e \in N
      BY <1>1, <3>2, LogsGrow
    <3>3. QED BY <1>2, <1>3, <3>1, <3>2
  <2>4. ASSUME NEW x \in Orders, NEW v \in DOMAIN orders'[x].log
        PROVE  [order |-> x, v |-> v, kind |-> "state"] \in pending' \cup acked'
    <3>1. CASE x = o /\ v = n + 1
      BY <1>1, <3>1
    <3>2. CASE ~(x = o /\ v = n + 1)
      <4>1. v \in DOMAIN orders[x].log
        BY <3>2, LogsGrow
      <4>2. QED BY <1>0, <1>2, <1>3, <4>1 DEF EventsAreTrue
    <3>3. QED BY <3>1, <3>2
  <2>5. QED BY <2>1, <2>2, <2>3, <2>4 DEF EventsAreTrue
<1>7. RowsOwnOrders'
  <2> SUFFICES ASSUME NEW b \in Apps, access[b].order # NoOrder
               PROVE  /\ orders'[access[b].order].log # <<>>
                      /\ orders'[access[b].order].app = b
    BY <1>2 DEF RowsOwnOrders, Live
  <2>1. access[b].order \in Orders
    BY <1>0 DEF TypeOK, Row
  <2>2. QED BY <2>1, LogsGrow DEF IInv, RowsOwnOrders, Live
<1>8. RequestsAreTrue'
  <2> SUFFICES ASSUME NEW p \in Procs, procs[p].pc = "write"
               PROVE  LET r == procs[p] IN
                      /\ r.ev \in pending' \cup acked'
                      /\ r.app = orders'[r.ev.order].app
                      /\ ~r.raced /\ access[r.app].row => r.read = access[r.app]
                      /\ r.ev.kind = "invoice" => r.read.row
                      /\ r.ev.kind = "invoice" /\ orders'[r.ev.order].log[r.ev.v].invoice = "paid"
                         => r.read.status = "PAST_DUE"
    BY <1>2 DEF RequestsAreTrue, Of
  <2>1. procs[p].ev \in pending \cup acked
    BY DEF IInv, RequestsAreTrue
  <2>2. procs[p].ev.order \in Orders /\ Live(procs[p].ev.order) /\ procs[p].ev.v \in DOMAIN orders[procs[p].ev.order].log
    BY <1>0, <2>1, Logs DEF EventsAreTrue
  <2>3. orders'[procs[p].ev.order].app = orders[procs[p].ev.order].app
        /\ orders'[procs[p].ev.order].log[procs[p].ev.v] = orders[procs[p].ev.order].log[procs[p].ev.v]
    BY <2>2, LogsGrow DEF Live
  <2>4. QED BY <1>2, <1>3, <2>3 DEF IInv, RequestsAreTrue, Of
<1>9. NoFreeAccess'
  <2> SUFFICES ASSUME NEW b \in Apps, access[b].row, hist[b].by = "billing", access[b].status = "ACTIVE"
               PROVE  \E x \in Orders : /\ orders'[x].app = b
                                        /\ \E v \in DOMAIN orders'[x].log : orders'[x].log[v].status = "active"
    BY <1>2 DEF NoFreeAccess
  <2>1. PICK x \in Orders : /\ orders[x].app = b
                            /\ \E v \in DOMAIN orders[x].log : orders[x].log[v].status = "active"
    BY DEF IInv, NoFreeAccess
  <2>2. orders[x].log # <<>>
    BY <2>1
  <2>3. QED BY <2>1, <2>2, LogsGrow
<1>10. PaidInvoicesLiftNoSuspension'
  BY <1>2 DEF IInv, PaidInvoicesLiftNoSuspension
<1>11. QED BY <1>4, <1>5, <1>6, <1>7, <1>8, <1>9, <1>10 DEF IInv

(* Each of Stripe's operations is such a change.                             *)
LEMMA StripeStep ==
    ASSUME IInv, NEW o \in Orders, Pay(o) \/ Renew(o) \/ Lapse(o) \/ Upgrade(o) \/ End(o)
    PROVE  IInv'
<1>0. Registered \subseteq Tiers
  BY BillingAssumption
<1>1. ASSUME Pay(o) PROVE IInv'
  <2>1. PICK a \in Apps, t \in Registered :
          \/ Change(o, a, Said("bought", t, "none"))
          \/ Change(o, a, Said("active", t, "paid"))
          \/ Change(o, a, Said("incomplete", t, "none"))
    BY <1>1 DEF Pay
  <2>2. ~Live(o)
    BY <1>1 DEF Pay
  <2>3. /\ Said("bought", t, "none") \in Snapshot /\ Said("bought", t, "none").invoice # "paid"
        /\ Said("active", t, "paid") \in Snapshot /\ Said("active", t, "paid").status = "active"
        /\ Said("incomplete", t, "none") \in Snapshot /\ Said("incomplete", t, "none").invoice # "paid"
    BY <1>0 DEF Said, Snapshot
  <2>4. QED BY <2>1, <2>2, <2>3, ChangeStep
<1>2. ASSUME Live(o) PROVE orders[o].app \in Apps /\ Now(o).tier \in Tiers
  <2>1. orders[o].app \in Apps
    BY <1>2 DEF IInv, LogsAreTrue, Live
  <2>2. Now(o) \in Snapshot
    <3>1. orders[o].log # <<>> /\ orders[o].log \in Seq(Snapshot)
      BY <1>2, Logs DEF Live, IInv
    <3>2. QED BY <3>1 DEF Now
  <2>3. QED BY <2>1, <2>2 DEF Snapshot
<1>3. ASSUME Renew(o) PROVE IInv'
  <2>1. Live(o) /\ orders[o].app \in Apps /\ Now(o).tier \in Tiers
    BY <1>2, <1>3 DEF Renew
  <2>2. Said("active", Now(o).tier, "paid") \in Snapshot /\ Said("active", Now(o).tier, "paid").status = "active"
    BY <2>1 DEF Said, Snapshot
  <2>3. QED BY <1>3, <2>1, <2>2, ChangeStep DEF Renew
<1>4. ASSUME Lapse(o) PROVE IInv'
  <2>1. Live(o) /\ orders[o].app \in Apps /\ Now(o).tier \in Tiers
    BY <1>2, <1>4 DEF Lapse
  <2>2. Said("past_due", Now(o).tier, "failed") \in Snapshot /\ Said("past_due", Now(o).tier, "failed").invoice # "paid"
    BY <2>1 DEF Said, Snapshot
  <2>3. QED BY <1>4, <2>1, <2>2, ChangeStep DEF Lapse
<1>5. ASSUME Upgrade(o) PROVE IInv'
  <2>1. Live(o) /\ orders[o].app \in Apps
    BY <1>2, <1>5 DEF Upgrade
  <2>2. PICK t \in Tiers : Change(o, orders[o].app, Said("active", t, "none"))
    BY <1>5 DEF Upgrade
  <2>3. Said("active", t, "none") \in Snapshot /\ Said("active", t, "none").invoice # "paid"
    BY DEF Said, Snapshot
  <2>4. QED BY <2>1, <2>2, <2>3, ChangeStep
<1>6. ASSUME End(o) PROVE IInv'
  <2>1. Live(o) /\ orders[o].app \in Apps /\ Now(o).tier \in Tiers
    BY <1>2, <1>6 DEF End
  <2>2. Said("ended", Now(o).tier, "none") \in Snapshot /\ Said("ended", Now(o).tier, "none").invoice # "paid"
    BY <2>1 DEF Said, Snapshot
  <2>3. QED BY <1>6, <2>1, <2>2, ChangeStep DEF End
<1>7. QED BY <1>1, <1>3, <1>4, <1>5, <1>6
-----------------------------------------------------------------------------
(* What the webhook's steps have in common.                                  *)

(* Answering an event moves it; the events there are stay those of the logs. *)
LEMMA Answered ==
    ASSUME IInv, NEW e \in pending \cup acked, UNCHANGED orders,
           Acknowledge(e) \/ UNCHANGED <<pending, acked>>
    PROVE  /\ pending' \cup acked' = pending \cup acked
           /\ pending' \subseteq Event /\ acked' \subseteq Event
           /\ LogsAreTrue' /\ EventsAreTrue'
<1>1. /\ pending' \cup acked' = pending \cup acked
      /\ pending' \subseteq Event /\ acked' \subseteq Event
      /\ pending' \cap acked' = {}
  <2>0. pending \subseteq Event /\ acked \subseteq Event /\ pending \cap acked = {}
    BY DEF IInv, TypeOK, EventsAreTrue
  <2>1. CASE Acknowledge(e)
    BY <2>0, <2>1 DEF Acknowledge
  <2>2. CASE UNCHANGED <<pending, acked>>
    BY <2>0, <2>2
  <2>3. QED BY <2>1, <2>2
<1>2. LogsAreTrue'
  BY DEF IInv, LogsAreTrue
<1>3. EventsAreTrue'
  <2>1. EventsAreTrue
    BY DEF IInv
  <2>2. IsFiniteSet(pending' \cup acked')
    BY <1>1, <2>1 DEF EventsAreTrue
  <2>3. \A x \in pending' \cup acked' :
          /\ x.v \in DOMAIN orders'[x.order].log
          /\ x.kind = "invoice" => orders'[x.order].log[x.v].invoice # "none"
    BY <1>1, <2>1 DEF EventsAreTrue
  <2>4. \A o \in Orders : \A v \in DOMAIN orders'[o].log :
          [order |-> o, v |-> v, kind |-> "state"] \in pending' \cup acked'
    BY <1>1, <2>1 DEF EventsAreTrue
  <2>5. QED BY <1>1, <2>2, <2>3, <2>4 DEF EventsAreTrue
<1>4. QED BY <1>1, <1>2, <1>3

(* What the handlers write are rows and histories.                           *)
LEMMA Writable ==
    ASSUME IInv, NEW e \in pending \cup acked, NEW row \in Row, NEW read \in Row, NEW h \in Hist
    PROVE  /\ Synced(row, read, e) \in Row
           /\ Invoiced(row, read, e) \in Row
           /\ Purchased(row, Of(e)) \in Row
           /\ Noted(h, e) \in Hist
<1>1. e.order \in Orders /\ e.v \in Nat /\ Of(e) \in Snapshot
  BY Logs DEF IInv
<1>2. Of(e).tier \in Tiers
  BY <1>1 DEF Snapshot
<1>3. GraceFrom(read) \in Deadline
  BY DEF GraceFrom, Row, Deadline
<1>4. Mapped(Of(e).status) \in Status
  BY DEF Mapped, Status
<1>5. Synced(row, read, e) \in Row
  <2>1. TierOf(Of(e), row.plan) \in Tiers \cup {NoTier}
    BY <1>2 DEF TierOf, Row
  <2>2. "none" \in Deadline
    BY DEF Deadline
  <2>3. QED BY <1>1, <1>3, <1>4, <2>1, <2>2 DEF Synced, Row
<1>6. Invoiced(row, read, e) \in Row
  BY <1>3 DEF Invoiced, Row, Status, Deadline
<1>7. Purchased(row, Of(e)) \in Row
  BY <1>2 DEF Purchased, Row, Status, Deadline
<1>8. Noted(h, e) \in Hist
  BY <1>1 DEF Noted, Hist
<1>9. QED BY <1>5, <1>6, <1>7, <1>8

(* Whoever had read a row that changes is marked as overtaken; the others    *)
(* remain true to what they read.                                            *)
LEMMA RequestsKept ==
    ASSUME IInv, NEW a \in Apps, NEW P \in [Procs -> Proc],
           \A q \in Procs : P[q] = procs[q] \/ P[q] = IdleProc,
           procs' = Raced(P, a), UNCHANGED orders,
           pending' \cup acked' = pending \cup acked,
           \A b \in Apps : b # a => access'[b] = access[b]
    PROVE  RequestsAreTrue' /\ procs' \in [Procs -> Proc]
<1>1. ASSUME NEW q \in Procs
      PROVE  procs'[q] = IF P[q].pc = "write" /\ P[q].app = a THEN [P[q] EXCEPT !.raced = TRUE] ELSE P[q]
  BY DEF Raced
<1>2. ASSUME NEW q \in Procs
      PROVE  procs'[q] \in Proc
  BY <1>1 DEF Proc
<1>3. DOMAIN P = Procs
  OBVIOUS
<1>4. procs' \in [Procs -> Proc]
  BY <1>2, <1>3 DEF Raced
<1>5. ASSUME NEW q \in Procs, procs'[q].pc = "write"
      PROVE  /\ procs[q].pc = "write" /\ procs'[q].ev = procs[q].ev /\ procs'[q].app = procs[q].app
             /\ procs'[q].read = procs[q].read
             /\ ~procs'[q].raced => procs'[q].app # a /\ ~procs[q].raced
  <2>1. P[q].pc = "write" /\ P[q] \in Proc
    BY <1>1, <1>5 DEF Proc
  <2>2. P[q] = procs[q]
    BY <2>1 DEF IdleProc
  <2>3. CASE P[q].app = a
    <3>1. procs'[q] = [procs[q] EXCEPT !.raced = TRUE]
      BY <1>1, <2>1, <2>2, <2>3
    <3>2. QED BY <2>1, <2>2, <3>1 DEF Proc
  <2>4. CASE P[q].app # a
    <3>1. procs'[q] = procs[q]
      BY <1>1, <2>2, <2>4
    <3>2. QED BY <2>1, <2>2, <2>4, <3>1
  <2>5. QED BY <2>3, <2>4
<1>6. ASSUME NEW q \in Procs, procs'[q].pc = "write"
      PROVE  LET r == procs'[q] IN
             /\ r.ev \in pending' \cup acked'
             /\ r.app = orders'[r.ev.order].app
             /\ ~r.raced /\ access'[r.app].row => r.read = access'[r.app]
             /\ r.ev.kind = "invoice" => r.read.row
             /\ r.ev.kind = "invoice" /\ orders'[r.ev.order].log[r.ev.v].invoice = "paid"
                => r.read.status = "PAST_DUE"
  <2>1. LET r == procs[q] IN
        /\ r.ev \in pending \cup acked
        /\ r.app = orders[r.ev.order].app
        /\ ~r.raced /\ access[r.app].row => r.read = access[r.app]
        /\ r.ev.kind = "invoice" => r.read.row
        /\ r.ev.kind = "invoice" /\ orders[r.ev.order].log[r.ev.v].invoice = "paid"
           => r.read.status = "PAST_DUE"
    BY <1>5, <1>6 DEF IInv, RequestsAreTrue, Of
  <2>2. procs[q].app \in Apps
    <3>1. procs[q].ev.order \in Orders /\ orders[procs[q].ev.order].log # <<>>
      BY <2>1, Logs DEF IInv, Live
    <3>2. QED BY <2>1, <3>1 DEF IInv, LogsAreTrue
  <2>3. QED BY <1>5, <1>6, <2>1, <2>2
<1>7. QED BY <1>4, <1>6 DEF RequestsAreTrue, Of

(* A request under way is about an event of an order of its app.             *)
LEMMA Underway ==
    ASSUME IInv, NEW p \in Procs, procs[p].pc = "write"
    PROVE  /\ procs[p] \in Proc /\ procs[p].ev \in pending \cup acked
           /\ procs[p].ev.order \in Orders /\ procs[p].ev.v \in DOMAIN orders[procs[p].ev.order].log
           /\ Live(procs[p].ev.order) /\ procs[p].app = orders[procs[p].ev.order].app
           /\ procs[p].app \in Apps
           /\ Of(procs[p].ev) \in Snapshot
           /\ Of(procs[p].ev).invoice = "paid" => Of(procs[p].ev).status = "active"
<1>1. procs[p] \in Proc /\ procs[p].ev \in pending \cup acked /\ procs[p].app = orders[procs[p].ev.order].app
  BY DEF IInv, TypeOK, RequestsAreTrue
<1>2. procs[p].ev.order \in Orders /\ Live(procs[p].ev.order) /\ Of(procs[p].ev) \in Snapshot
  BY <1>1, Logs DEF IInv
<1>3. procs[p].ev.v \in DOMAIN orders[procs[p].ev.order].log
  BY <1>1 DEF IInv, EventsAreTrue
<1>4. QED BY <1>1, <1>2, <1>3 DEF IInv, LogsAreTrue, Live, Of

(* A write that is not refused writes the row it read, unless overtaken.     *)
LEMMA WriteEffect ==
    ASSUME IInv, NEW p \in Procs, Write(p), ~Refused(procs[p])
    PROVE  LET r == procs[p] IN
           /\ access' = [access EXCEPT ![r.app] = Written(access[r.app], r.read, r.ev)]
           /\ hist' = [hist EXCEPT ![r.app] = Marked(hist[r.app], r)]
           /\ procs' = Raced([procs EXCEPT ![p] = IdleProc], r.app)
           /\ r.raced \/ ~access[r.app].row \/ r.read = access[r.app]
           /\ r.ev.kind = "invoice" => access[r.app].row
           /\ UNCHANGED <<life, orders, changes, faults>>
<1>1. procs[p].pc = "write"
  BY DEF Write
<1>2. /\ access' = [access EXCEPT ![procs[p].app] = Written(access[procs[p].app], procs[p].read, procs[p].ev)]
      /\ hist' = [hist EXCEPT ![procs[p].app] = Marked(hist[procs[p].app], procs[p])]
      /\ procs' = Raced([procs EXCEPT ![p] = IdleProc], procs[p].app)
      /\ UNCHANGED <<life, orders, changes, faults>>
  BY DEF Write
<1>3. procs[p].read.row = access[procs[p].app].row
  BY DEF Refused
<1>4. QED BY <1>1, <1>2, <1>3 DEF IInv, RequestsAreTrue

(* What a write leaves in the row and in its history.                        *)
LEMMA WrittenRow ==
    ASSUME IInv, NEW p \in Procs, procs[p].pc = "write", ~Refused(procs[p])
    PROVE  LET r == procs[p]
               row == Written(access[r.app], r.read, r.ev)
               h == Marked(hist[r.app], r)
           IN /\ row \in Row /\ h \in Hist
              /\ row.order # NoOrder => Live(row.order) /\ orders[row.order].app = r.app
              /\ (row.row /\ h.by = "billing" /\ row.status = "ACTIVE")
                 => \E o \in Orders : /\ orders[o].app = r.app
                                      /\ \E v \in DOMAIN orders[o].log : orders[o].log[v].status = "active"
              /\ ~(h.by = "suspension" /\ ~h.dunned) \/ ~row.row \/ row.status = "SUSPENDED"
              /\ (/\ access[r.app].row /\ access[r.app].status = "PAST_DUE" /\ access[r.app].grace = "over"
                  /\ row.status = "PAST_DUE" /\ ~h.muddled)
                 => row.grace = "over"
<1> DEFINE r == procs[p]
           e == r.ev
           now == access[r.app]
           h0 == hist[r.app]
           row == Written(now, r.read, e)
           h == Marked(h0, r)
           active == \E o \in Orders : /\ orders[o].app = r.app
                                       /\ \E v \in DOMAIN orders[o].log : orders[o].log[v].status = "active"
<1>0. SUFFICES
        /\ row \in Row /\ h \in Hist
        /\ row.order # NoOrder => Live(row.order) /\ orders[row.order].app = r.app
        /\ (row.row /\ h.by = "billing" /\ row.status = "ACTIVE") => active
        /\ ~(h.by = "suspension" /\ ~h.dunned) \/ ~row.row \/ row.status = "SUSPENDED"
        /\ (now.row /\ now.status = "PAST_DUE" /\ now.grace = "over" /\ row.status = "PAST_DUE" /\ ~h.muddled)
           => row.grace = "over"
  OBVIOUS
<1>1. /\ r \in Proc /\ e \in pending \cup acked /\ e.order \in Orders
      /\ e.v \in DOMAIN orders[e.order].log /\ Live(e.order) /\ r.app = orders[e.order].app
      /\ r.app \in Apps /\ Of(e) \in Snapshot
      /\ Of(e).invoice = "paid" => Of(e).status = "active"
  BY Underway
<1>2. now \in Row /\ h0 \in Hist /\ r.read \in Row /\ r.raced \in BOOLEAN
  BY <1>1 DEF IInv, TypeOK, Proc
<1>3. Synced(now, r.read, e) \in Row /\ Invoiced(now, r.read, e) \in Row /\ Noted(h0, e) \in Hist
  BY <1>1, <1>2, Writable
<1>4. row \in Row
  BY <1>3 DEF Written
<1>5. e.kind \in {"state", "invoice"}
  BY <1>1, Logs DEF IInv, Event
<1>6. /\ h.by = IF e.kind = "state" THEN "billing" ELSE h0.by
      /\ h.dunned = (h0.dunned \/ Of(e).invoice = "failed" \/ r.raced)
      /\ r.raced => h.muddled
      /\ h \in Hist
  <2>1. \A leads, late \in BOOLEAN :
           LET g == [Noted(h0, e) EXCEPT
                         !.by = IF e.kind = "state" THEN "billing" ELSE @,
                         !.lead = IF leads THEN e.order ELSE @,
                         !.muddled = late \/ (@ /\ ~leads),
                         !.dunned = @ \/ Of(e).invoice = "failed" \/ r.raced]
           IN /\ g.by = IF e.kind = "state" THEN "billing" ELSE h0.by
              /\ g.dunned = (h0.dunned \/ Of(e).invoice = "failed" \/ r.raced)
              /\ late => g.muddled
              /\ g \in Hist
    <3>1. Noted(h0, e).by = h0.by /\ Noted(h0, e).dunned = h0.dunned
      BY <1>2 DEF Noted, Hist
    <3> TAKE leads, late \in BOOLEAN
    <3> DEFINE n == Noted(h0, e)
               g == [n EXCEPT !.by = IF e.kind = "state" THEN "billing" ELSE @,
                              !.lead = IF leads THEN e.order ELSE @,
                              !.muddled = late \/ (@ /\ ~leads),
                              !.dunned = @ \/ Of(e).invoice = "failed" \/ r.raced]
               by == IF e.kind = "state" THEN "billing" ELSE n.by
               lead == IF leads THEN e.order ELSE n.lead
               muddled == late \/ (n.muddled /\ ~leads)
               dunned == n.dunned \/ Of(e).invoice = "failed" \/ r.raced
    <3>2. n \in Hist /\ n.by = h0.by /\ n.dunned = h0.dunned
      BY <1>3, <3>1
    <3>3. /\ by \in {"billing", "purchase", "admin", "suspension"} /\ lead \in Orders \cup {NoOrder}
          /\ muddled \in BOOLEAN /\ dunned \in BOOLEAN
      BY <1>1, <1>2, <3>2 DEF Hist
    <3>4. g = [n EXCEPT !.by = by, !.lead = lead, !.muddled = muddled, !.dunned = dunned]
      OBVIOUS
    <3>5. by = (IF e.kind = "state" THEN "billing" ELSE h0.by) /\ (late => muddled)
          /\ dunned = (h0.dunned \/ Of(e).invoice = "failed" \/ r.raced)
      BY <3>2
    <3> HIDE DEF n, g, by, lead, muddled, dunned
    <3>6. /\ g \in Hist /\ g.by = by /\ g.dunned = dunned /\ g.muddled = muddled
      BY <3>2, <3>3, <3>4 DEF Hist
    <3>7. g.by = (IF e.kind = "state" THEN "billing" ELSE h0.by) /\ (late => g.muddled) /\ g \in Hist
          /\ g.dunned = (h0.dunned \/ Of(e).invoice = "failed" \/ r.raced)
      BY <3>5, <3>6
    <3>8. QED BY <3>7 DEF g, n
  <2>2. PICK leads, late \in BOOLEAN :
           /\ r.raced => late
           /\ h = [Noted(h0, e) EXCEPT
                         !.by = IF e.kind = "state" THEN "billing" ELSE @,
                         !.lead = IF leads THEN e.order ELSE @,
                         !.muddled = late \/ (@ /\ ~leads),
                         !.dunned = @ \/ Of(e).invoice = "failed" \/ r.raced]
    <3> DEFINE late == e.v < h0.seen[e.order] \/ r.raced
               leads == e.kind = "state" /\ (Mapped(Of(e).status) # "SUSPENDED" \/ h0.lead \in {NoOrder, e.order})
    <3>1. leads \in BOOLEAN /\ late \in BOOLEAN /\ (r.raced => late)
      OBVIOUS
    <3>2. h = [Noted(h0, e) EXCEPT
                         !.by = IF e.kind = "state" THEN "billing" ELSE @,
                         !.lead = IF leads THEN e.order ELSE @,
                         !.muddled = late \/ (@ /\ ~leads),
                         !.dunned = @ \/ Of(e).invoice = "failed" \/ r.raced]
      BY DEF Marked
    <3> HIDE DEF late, leads, h
    <3>3. QED BY <3>1, <3>2
  <2> HIDE DEF h, h0, e, r
  <2>3. QED BY <2>1, <2>2
<1>7. r.raced \/ ~now.row \/ r.read = now
  <2>1. r.read.row = now.row
    BY DEF Refused
  <2>2. QED BY DEF IInv, RequestsAreTrue
<1>8. e.kind = "invoice" => now.row
  BY DEF IInv, RequestsAreTrue, Refused
<1>9. Of(e).invoice = "paid" /\ e.kind = "invoice" => r.read.status = "PAST_DUE"
  BY DEF IInv, RequestsAreTrue
<1>10. e.kind = "invoice" => Of(e).invoice \in {"paid", "failed"}
  BY <1>1 DEF IInv, EventsAreTrue, Of, Snapshot
<1>11. CASE e.kind = "state"
  <2>1. /\ row.row /\ row.status = Mapped(Of(e).status) /\ row.order = e.order
        /\ row.grace = IF Of(e).status = "past_due" THEN GraceFrom(r.read) ELSE "none"
    BY <1>2, <1>11 DEF Written, Synced, Row
  <2>2. row.order # NoOrder => Live(row.order) /\ orders[row.order].app = r.app
    BY <1>1, <2>1
  <2>3. ASSUME row.status = "ACTIVE"
        PROVE  active
    <3>1. Of(e).status = "active"
      BY <2>1, <2>3 DEF Mapped
    <3>2. QED BY <1>1, <3>1 DEF Of
  <2>4. h.by = "billing"
    BY <1>6, <1>11
  <2>5. ASSUME now.row, now.status = "PAST_DUE", now.grace = "over", row.status = "PAST_DUE", ~h.muddled
        PROVE  row.grace = "over"
    <3>1. Of(e).status = "past_due"
      BY <2>1, <2>5 DEF Mapped
    <3>2. r.read = now
      BY <1>6, <1>7, <2>5
    <3>3. QED BY <2>1, <2>5, <3>1, <3>2 DEF GraceFrom
  <2> HIDE DEF row, h, now, r, active
  <2>6. QED BY <1>4, <1>6, <2>1, <2>2, <2>3, <2>4, <2>5
<1>12. CASE e.kind = "invoice"
  <2>1. row.row = now.row /\ row.order = now.order
    BY <1>2, <1>5, <1>12 DEF Written, Invoiced, Row
  <2>2. IF Of(e).invoice = "failed"
        THEN row.status = "PAST_DUE" /\ row.grace = GraceFrom(r.read)
        ELSE row.status = "ACTIVE" /\ row.grace = "none"
    BY <1>2, <1>5, <1>12 DEF Written, Invoiced, Row
  <2>3. row.order # NoOrder => Live(row.order) /\ orders[row.order].app = r.app
    BY <1>1, <2>1 DEF IInv, RowsOwnOrders
  <2>4. ASSUME row.status = "ACTIVE"
        PROVE  active
    <3>1. Of(e).status = "active"
      BY <1>1, <1>10, <1>12, <2>2, <2>4
    <3>2. QED BY <1>1, <3>1 DEF Of
  <2>5. ASSUME h.by = "suspension", ~h.dunned
        PROVE  FALSE
    <3>1. h0.by = "suspension" /\ ~h0.dunned /\ Of(e).invoice # "failed" /\ ~r.raced
      BY <1>6, <1>12, <2>5
    <3>2. r.read = now /\ now.row /\ r.read.status = "PAST_DUE"
      BY <1>7, <1>8, <1>9, <1>10, <1>12, <3>1
    <3>3. now.status = "SUSPENDED"
      BY <1>1, <3>1, <3>2 DEF IInv, PaidInvoicesLiftNoSuspension
    <3>4. QED BY <3>2, <3>3
  <2>6. ASSUME now.row, now.status = "PAST_DUE", now.grace = "over", row.status = "PAST_DUE", ~h.muddled
        PROVE  row.grace = "over"
    <3>1. Of(e).invoice = "failed"
      BY <2>2, <2>6
    <3>2. r.read = now
      BY <1>6, <1>7, <2>6
    <3>3. QED BY <2>2, <2>6, <3>1, <3>2 DEF GraceFrom
  <2> HIDE DEF row, h, now, r, active
  <2>7. QED BY <1>4, <1>6, <2>3, <2>4, <2>5, <2>6
<1>13. QED BY <1>5, <1>11, <1>12

-----------------------------------------------------------------------------
(* The steps that write rows.                                                *)

\* What the invariant says of a row and its history.
TrueRow(a, row, h) ==
    /\ row.order # NoOrder => Live(row.order) /\ orders[row.order].app = a
    /\ (row.row /\ h.by = "billing" /\ row.status = "ACTIVE")
       => \E o \in Orders : /\ orders[o].app = a
                            /\ \E v \in DOMAIN orders[o].log : orders[o].log[v].status = "active"
    /\ ~(h.by = "suspension" /\ ~h.dunned) \/ ~row.row \/ row.status = "SUSPENDED"

\* A step that does not renew a grace.
GraceKept ==
    \A a \in Apps :
        (/\ access[a].row /\ access[a].status = "PAST_DUE" /\ access[a].grace = "over"
         /\ access'[a].row /\ access'[a].status = "PAST_DUE" /\ ~hist'[a].muddled)
        => access'[a].grace = "over"

(* A step keeps the invariant when the rows it writes are true.              *)
LEMMA RowStep ==
    ASSUME IInv, UNCHANGED orders, TypeOK', RequestsAreTrue', LogsAreTrue', EventsAreTrue',
           \A a \in Apps : TrueRow(a, access[a], hist[a]) => TrueRow(a, access'[a], hist'[a])
    PROVE  IInv'
<1>1. ASSUME NEW a \in Apps PROVE TrueRow(a, access[a], hist[a])
  BY DEF IInv, RowsOwnOrders, NoFreeAccess, PaidInvoicesLiftNoSuspension, TrueRow
<1>2. ASSUME NEW a \in Apps PROVE TrueRow(a, access'[a], hist'[a])
  BY <1>1
<1>3. RowsOwnOrders'
  BY <1>2 DEF RowsOwnOrders, TrueRow, Live
<1>4. NoFreeAccess'
  <2> SUFFICES ASSUME NEW a \in Apps, access'[a].row, hist'[a].by = "billing", access'[a].status = "ACTIVE"
               PROVE  \E o \in Orders : /\ orders'[o].app = a
                                        /\ \E v \in DOMAIN orders'[o].log : orders'[o].log[v].status = "active"
    BY DEF NoFreeAccess
  <2>1. \E o \in Orders : /\ orders[o].app = a
                          /\ \E v \in DOMAIN orders[o].log : orders[o].log[v].status = "active"
    BY <1>2 DEF TrueRow
  <2>2. QED BY <2>1
<1>5. PaidInvoicesLiftNoSuspension'
  BY <1>2 DEF PaidInvoicesLiftNoSuspension, TrueRow
<1>6. QED BY <1>3, <1>4, <1>5 DEF IInv

(* A request's write.                                                        *)
LEMMA WriteStep ==
    ASSUME IInv, NEW p \in Procs, Write(p)
    PROVE  IInv' /\ GraceKept
<1> DEFINE r == procs[p]
<1>1. r.pc = "write" /\ UNCHANGED <<life, orders, changes, faults>>
      /\ (Acknowledge(r.ev) \/ UNCHANGED <<pending, acked>>)
  BY DEF Write
<1>2. r.ev \in pending \cup acked /\ r.app \in Apps /\ r \in Proc
  BY <1>1, Underway
<1>3. /\ pending' \cup acked' = pending \cup acked
      /\ pending' \subseteq Event /\ acked' \subseteq Event
      /\ LogsAreTrue' /\ EventsAreTrue'
  BY <1>1, <1>2, Answered
<1> DEFINE P == [procs EXCEPT ![p] = IdleProc]
<1>4. P \in [Procs -> Proc] /\ \A q \in Procs : P[q] = procs[q] \/ P[q] = IdleProc
  BY NoneTypes DEF IInv, TypeOK
<1>5. CASE Refused(r)
  <2>1. procs' = P /\ UNCHANGED <<access, hist>>
    BY <1>5, Zenon DEF Write, Finish, rows
  <2>2. TypeOK'
    BY <1>1, <1>3, <1>4, <2>1 DEF IInv, TypeOK
  <2>3. RequestsAreTrue'
    <3> SUFFICES ASSUME NEW q \in Procs, procs'[q].pc = "write"
                 PROVE  procs'[q] = procs[q] /\ procs[q].pc = "write"
      BY <1>1, <1>3, <2>1 DEF IInv, RequestsAreTrue, Of
    <3>1. QED BY <1>4, <2>1 DEF IdleProc
  <2>4. IInv'
    BY <1>1, <1>3, <2>1, <2>2, <2>3, RowStep
  <2>5. QED BY <2>1, <2>4 DEF GraceKept
<1>6. CASE ~Refused(r)
  <2> DEFINE row == Written(access[r.app], r.read, r.ev)
             h == Marked(hist[r.app], r)
  <2>1. /\ access' = [access EXCEPT ![r.app] = row]
        /\ hist' = [hist EXCEPT ![r.app] = h]
        /\ procs' = Raced(P, r.app)
    BY <1>6, WriteEffect
  <2>2. /\ row \in Row /\ h \in Hist /\ TrueRow(r.app, row, h)
        /\ (/\ access[r.app].row /\ access[r.app].status = "PAST_DUE" /\ access[r.app].grace = "over"
            /\ row.status = "PAST_DUE" /\ ~h.muddled) => row.grace = "over"
    BY <1>1, <1>6, WrittenRow, Zenon DEF TrueRow
  <2> HIDE DEF row, h, P
  <2>3. /\ access'[r.app] = row /\ hist'[r.app] = h
        /\ \A b \in Apps : b # r.app => access'[b] = access[b] /\ hist'[b] = hist[b]
        /\ access' \in [Apps -> Row] /\ hist' \in [Apps -> Hist]
    BY <1>2, <2>1, <2>2 DEF IInv, TypeOK
  <2>4. RequestsAreTrue' /\ procs' \in [Procs -> Proc]
    BY <1>1, <1>2, <1>3, <1>4, <2>1, <2>3, RequestsKept
  <2>5. TypeOK'
    BY <1>1, <1>3, <2>3, <2>4 DEF IInv, TypeOK
  <2>6. \A b \in Apps : TrueRow(b, access[b], hist[b]) => TrueRow(b, access'[b], hist'[b])
    BY <2>2, <2>3
  <2>7. IInv'
    BY <1>1, <1>3, <2>4, <2>5, <2>6, RowStep
  <2>8. GraceKept
    BY <2>2, <2>3 DEF GraceKept
  <2>9. QED BY <2>7, <2>8
<1>7. QED BY <1>5, <1>6

(* What an arriving event takes from the bounds.                             *)
LEMMA ArrivalType ==
    ASSUME IInv, NEW p \in Procs, NEW e \in pending \cup acked, Arrives(p, e)
    PROVE  faults' \in 0..MaxFaults /\ procs[p].pc = "idle"
<1>1. faults \in 0..MaxFaults /\ MaxFaults \in Nat
  BY BillingAssumption DEF IInv, TypeOK
<1>2. QED BY <1>1 DEF Arrives, Fault

(* A paid purchase.                                                          *)
LEMMA PurchaseStep ==
    ASSUME IInv, NEW p \in Procs, NEW e \in pending \cup acked, ReceivePurchase(p, e)
    PROVE  IInv' /\ GraceKept
<1> DEFINE a == orders[e.order].app
<1>1. faults' \in 0..MaxFaults /\ UNCHANGED <<life, orders, changes>> /\ Acknowledge(e)
  BY ArrivalType DEF ReceivePurchase
<1>2. /\ pending' \cup acked' = pending \cup acked
      /\ pending' \subseteq Event /\ acked' \subseteq Event
      /\ LogsAreTrue' /\ EventsAreTrue'
  BY <1>1, Answered
<1>3. a \in Apps
  BY Logs DEF IInv, LogsAreTrue, Live
<1>4. CASE "purged" \in {life[a], life[Tenant]}
  <2>1. UNCHANGED <<access, hist, procs>>
    BY <1>4, Zenon DEF ReceivePurchase, rows
  <2>2. TypeOK'
    BY <1>1, <1>2, <2>1 DEF IInv, TypeOK
  <2>3. RequestsAreTrue'
    BY <1>1, <1>2, <2>1 DEF IInv, RequestsAreTrue, Of
  <2>4. IInv'
    BY <1>1, <1>2, <2>1, <2>2, <2>3, RowStep
  <2>5. QED BY <2>1, <2>4 DEF GraceKept
<1>5. CASE "purged" \notin {life[a], life[Tenant]}
  <2> DEFINE row == Purchased(access[a], Of(e))
             h == [hist[a] EXCEPT !.by = "purchase"]
  <2>1. access' = [access EXCEPT ![a] = row] /\ procs' = Raced(procs, a)
    BY <1>5, Zenon DEF ReceivePurchase
  <2>2. hist' = [hist EXCEPT ![a] = h]
    BY <1>5 DEF ReceivePurchase
  <2>3. access[a] \in Row /\ hist[a] \in Hist
    BY <1>3 DEF IInv, TypeOK
  <2>4. row \in Row /\ h \in Hist /\ h.by = "purchase"
    BY <1>3, <2>3, Writable DEF Hist
  <2>5. row.order = access[a].order /\ row.status = "ACTIVE"
    BY <2>3 DEF Purchased, Row
  <2> HIDE DEF row, h
  <2>6. /\ access'[a] = row /\ hist'[a] = h
        /\ \A b \in Apps : b # a => access'[b] = access[b] /\ hist'[b] = hist[b]
        /\ access' \in [Apps -> Row] /\ hist' \in [Apps -> Hist]
    BY <1>3, <2>1, <2>2, <2>4 DEF IInv, TypeOK
  <2>7. RequestsAreTrue' /\ procs' \in [Procs -> Proc]
    <3>1. procs \in [Procs -> Proc]
      BY DEF IInv, TypeOK
    <3>2. QED BY <1>1, <1>2, <1>3, <2>1, <2>6, <3>1, RequestsKept
  <2>8. TypeOK'
    BY <1>1, <1>2, <2>6, <2>7 DEF IInv, TypeOK
  <2>9. \A b \in Apps : TrueRow(b, access[b], hist[b]) => TrueRow(b, access'[b], hist'[b])
    BY <2>4, <2>5, <2>6 DEF TrueRow
  <2>10. IInv'
    BY <1>1, <1>2, <2>7, <2>8, <2>9, RowStep
  <2>11. GraceKept
    BY <2>5, <2>6 DEF GraceKept
  <2>12. QED BY <2>10, <2>11
<1>6. QED BY <1>4, <1>5

-----------------------------------------------------------------------------
(* The steps that read, and those of administrators.                         *)

(* A request that reads has read what is there.                              *)
LEMMA ReceiveStep ==
    ASSUME IInv, NEW p \in Procs, NEW e \in pending \cup acked, Receive(p, e)
    PROVE  IInv' /\ GraceKept
<1> DEFINE found == RowsOf(e)
           a == IF found = {} THEN orders[e.order].app ELSE CHOOSE b \in found : TRUE
           row == IF found = {} THEN NoRow ELSE access[a]
           skip == (found = {} /\ e.kind = "invoice") \/ (found # {} /\ Ignored(e, row))
<1>1. faults' \in 0..MaxFaults /\ UNCHANGED <<life, access, orders, changes>> /\ procs[p].pc = "idle"
  BY ArrivalType DEF Receive
<1>2. /\ e \in Event /\ e.order \in Orders /\ orders[e.order].app \in Apps /\ Of(e) \in Snapshot
  BY Logs DEF IInv, LogsAreTrue, Live
<1>3. a \in Apps /\ a = orders[e.order].app
  <2>1. CASE found = {}
    BY <1>2, <2>1
  <2>2. CASE found # {}
    <3>1. a \in found
      BY <2>2
    <3>2. a \in Apps /\ IF e.kind = "state" THEN a = orders[e.order].app ELSE access[a].order = e.order
      BY <3>1 DEF RowsOf
    <3>3. e.order # NoOrder
      BY <1>2, BillingAssumption
    <3>4. QED BY <3>2, <3>3 DEF IInv, RowsOwnOrders
  <2>3. QED BY <2>1, <2>2
<1>4. row \in Row
  BY <1>3, NoneTypes DEF IInv, TypeOK
<1>5. CASE skip
  <2>1. /\ Acknowledge(e) /\ UNCHANGED procs
        /\ hist' = IF found = {} THEN hist ELSE [hist EXCEPT ![a] = Noted(hist[a], e)]
    BY <1>5, Zenon DEF Receive
  <2>2. /\ pending' \cup acked' = pending \cup acked
        /\ pending' \subseteq Event /\ acked' \subseteq Event
        /\ LogsAreTrue' /\ EventsAreTrue'
    BY <1>1, <2>1, Answered
  <2>3. hist[a] \in Hist
    BY <1>3 DEF IInv, TypeOK
  <2>4. Noted(hist[a], e) \in Hist /\ Noted(hist[a], e).by = hist[a].by /\ Noted(hist[a], e).dunned = hist[a].dunned
    <3>1. Noted(hist[a], e) \in Hist
      BY <1>4, <2>3, Writable
    <3>2. QED BY <2>3, <3>1 DEF Noted, Hist
  <2> HIDE DEF a, found, row, skip
  <2>5. hist' \in [Apps -> Hist] /\ \A b \in Apps : hist'[b].by = hist[b].by /\ hist'[b].dunned = hist[b].dunned
    BY <1>3, <2>1, <2>4 DEF IInv, TypeOK
  <2>6. TypeOK'
    BY <1>1, <2>1, <2>2, <2>5 DEF IInv, TypeOK
  <2>7. RequestsAreTrue'
    BY <1>1, <2>1, <2>2 DEF IInv, RequestsAreTrue, Of
  <2>8. \A b \in Apps : TrueRow(b, access[b], hist[b]) => TrueRow(b, access'[b], hist'[b])
    BY <1>1, <2>5 DEF TrueRow
  <2>9. IInv'
    BY <1>1, <2>2, <2>6, <2>7, <2>8, RowStep
  <2>10. QED BY <1>1, <2>9 DEF GraceKept
<1>6. CASE ~skip
  <2> DEFINE new == [IdleProc EXCEPT !.pc = "write", !.ev = e, !.app = a, !.read = row]
  <2>1. procs' = [procs EXCEPT ![p] = new] /\ UNCHANGED <<pending, acked, hist>>
    BY <1>6, Zenon DEF Receive
  <2>2. /\ pending' \cup acked' = pending \cup acked
        /\ pending' \subseteq Event /\ acked' \subseteq Event
        /\ LogsAreTrue' /\ EventsAreTrue'
    BY <1>1, <2>1, Answered
  <2>3. /\ new \in Proc /\ new.pc = "write" /\ new.ev = e /\ new.app = a /\ new.read = row /\ ~new.raced
    BY <1>2, <1>3, <1>4 DEF IdleProc, Proc
  <2>4. access[a].row => row = access[a]
    <3>1. ASSUME found = {}, access[a].row PROVE FALSE
      <4>1. e.kind = "state"
        BY <1>2, <1>6, <3>1 DEF Event
      <4>2. a \in RowsOf(e)
        BY <1>3, <3>1, <4>1 DEF RowsOf
      <4>3. QED BY <3>1, <4>2
    <3>2. QED BY <3>1
  <2>5. e.kind = "invoice" => row.row /\ (Of(e).invoice = "paid" => row.status = "PAST_DUE")
    <3>1. ASSUME e.kind = "invoice" PROVE found # {} /\ row = access[a]
      BY <1>6, <3>1
    <3>2. ASSUME e.kind = "invoice" PROVE access[a].row
      <4>1. a \in found
        BY <3>1, <3>2
      <4>2. QED BY <4>1 DEF RowsOf
    <3>3. ASSUME e.kind = "invoice", Of(e).invoice = "paid" PROVE row.status = "PAST_DUE"
      BY <1>6, <3>1, <3>3 DEF Ignored
    <3>4. QED BY <3>1, <3>2, <3>3
  <2> HIDE DEF a, found, row, skip, new
  <2>6. procs' \in [Procs -> Proc] /\ procs'[p] = new /\ \A q \in Procs : q # p => procs'[q] = procs[q]
    BY <2>1, <2>3 DEF IInv, TypeOK
  <2>7. TypeOK'
    BY <1>1, <2>1, <2>2, <2>6 DEF IInv, TypeOK
  <2>8. RequestsAreTrue'
    <3> SUFFICES ASSUME NEW q \in Procs, procs'[q].pc = "write"
                 PROVE  LET r == procs'[q] IN
                        /\ r.ev \in pending' \cup acked'
                        /\ r.app = orders'[r.ev.order].app
                        /\ ~r.raced /\ access'[r.app].row => r.read = access'[r.app]
                        /\ r.ev.kind = "invoice" => r.read.row
                        /\ r.ev.kind = "invoice" /\ orders'[r.ev.order].log[r.ev.v].invoice = "paid"
                           => r.read.status = "PAST_DUE"
      BY DEF RequestsAreTrue, Of
    <3>1. CASE q = p
      BY <1>1, <1>3, <2>2, <2>3, <2>4, <2>5, <2>6, <3>1 DEF Of
    <3>2. CASE q # p
      BY <1>1, <2>2, <2>6, <3>2 DEF IInv, RequestsAreTrue, Of
    <3>3. QED BY <3>1, <3>2
  <2>9. IInv'
    BY <1>1, <2>1, <2>2, <2>7, <2>8, RowStep
  <2>10. QED BY <1>1, <2>9 DEF GraceKept
<1>7. QED BY <1>5, <1>6

(* A crash forgets a request.                                                *)
LEMMA CrashStep ==
    ASSUME IInv, NEW p \in Procs, Crash(p)
    PROVE  IInv' /\ GraceKept
<1>1. faults \in 0..MaxFaults /\ MaxFaults \in Nat
  BY BillingAssumption DEF IInv, TypeOK
<1>2. /\ faults' \in 0..MaxFaults /\ procs' = [procs EXCEPT ![p] = IdleProc]
      /\ UNCHANGED <<life, access, hist, orders, pending, acked, changes>>
  BY <1>1 DEF Crash, Fault, Finish, rows, stripe
<1>3. procs' \in [Procs -> Proc] /\ \A q \in Procs : procs'[q] = procs[q] \/ procs'[q] = IdleProc
  BY <1>2, NoneTypes DEF IInv, TypeOK
<1>4. TypeOK'
  BY <1>2, <1>3 DEF IInv, TypeOK
<1>5. LogsAreTrue' /\ EventsAreTrue'
  BY <1>2 DEF IInv, LogsAreTrue, EventsAreTrue
<1>6. RequestsAreTrue'
  <2> SUFFICES ASSUME NEW q \in Procs, procs'[q].pc = "write"
               PROVE  procs'[q] = procs[q]
    BY <1>2 DEF IInv, RequestsAreTrue, Of
  <2>1. QED BY <1>3 DEF IdleProc
<1>7. IInv'
  BY <1>2, <1>4, <1>5, <1>6, RowStep
<1>8. QED BY <1>2, <1>7 DEF GraceKept

(* What an administrator's operation takes from the bounds.                  *)
LEMMA AdministerType ==
    ASSUME IInv, Administer
    PROVE  changes' \in 0..MaxChanges
<1>1. changes \in 0..MaxChanges /\ MaxChanges \in Nat
  BY BillingAssumption DEF IInv, TypeOK
<1>2. QED BY <1>1 DEF Administer

(* An administrator sets a status.                                           *)
LEMMA SetStep ==
    ASSUME IInv, NEW a \in Apps, NEW t \in Terms, SetAppAccess(a, t)
    PROVE  IInv' /\ GraceKept
<1> DEFINE row == [access[a] EXCEPT !.row = TRUE, !.status = t]
           h == [hist[a] EXCEPT !.by = IF t = "SUSPENDED" THEN "suspension" ELSE "admin", !.dunned = FALSE]
<1>1. /\ changes' \in 0..MaxChanges /\ procs' = Raced(procs, a)
      /\ UNCHANGED <<life, orders, pending, acked, faults>>
  BY AdministerType DEF SetAppAccess, stripe
<1>2. access[a] \in Row /\ hist[a] \in Hist /\ t \in Status /\ procs \in [Procs -> Proc]
  BY BillingAssumption DEF IInv, TypeOK
<1>3. /\ row \in Row /\ row.order = access[a].order /\ row.status = t /\ row.grace = access[a].grace
  BY <1>2 DEF Row
<1>4. h \in Hist /\ h.by = (IF t = "SUSPENDED" THEN "suspension" ELSE "admin")
  BY <1>2 DEF Hist
<1>5. access' = [access EXCEPT ![a] = row] /\ hist' = [hist EXCEPT ![a] = h]
  BY DEF SetAppAccess, IInv, TypeOK
<1> HIDE DEF row, h
<1>6. /\ access'[a] = row /\ hist'[a] = h
      /\ \A b \in Apps : b # a => access'[b] = access[b] /\ hist'[b] = hist[b]
      /\ access' \in [Apps -> Row] /\ hist' \in [Apps -> Hist]
  BY <1>3, <1>4, <1>5 DEF IInv, TypeOK
<1>7. RequestsAreTrue' /\ procs' \in [Procs -> Proc]
  BY <1>1, <1>2, <1>6, RequestsKept
<1>8. TypeOK'
  BY <1>1, <1>6, <1>7 DEF IInv, TypeOK
<1>9. LogsAreTrue' /\ EventsAreTrue'
  BY <1>1 DEF IInv, LogsAreTrue, EventsAreTrue
<1>10. \A b \in Apps : TrueRow(b, access[b], hist[b]) => TrueRow(b, access'[b], hist'[b])
  BY <1>3, <1>4, <1>6 DEF TrueRow
<1>11. IInv'
  BY <1>1, <1>7, <1>8, <1>9, <1>10, RowStep
<1>12. GraceKept
  BY <1>3, <1>6 DEF GraceKept
<1>13. QED BY <1>11, <1>12

(* An emptied row is nobody's.                                               *)
LEMMA EmptiedRow ==
    ASSUME IInv, NEW a \in Apps
    PROVE  /\ NoRow \in Row /\ ~NoRow.row /\ Emptied(hist[a]) \in Hist
           /\ TrueRow(a, NoRow, Emptied(hist[a]))
<1>1. NoRow \in Row /\ ~NoRow.row /\ NoRow.order = NoOrder
  BY NoneTypes DEF NoRow
<1>2. hist[a] \in Hist
  BY DEF IInv, TypeOK
<1>3. Emptied(hist[a]) \in Hist
  BY <1>2, NoneTypes DEF Emptied, Hist
<1>4. QED BY <1>1, <1>3 DEF TrueRow

(* An administrator removes a row.                                           *)
LEMMA RemoveStep ==
    ASSUME IInv, NEW a \in Apps, RemoveAppAccess(a)
    PROVE  IInv' /\ GraceKept
<1>1. /\ changes' \in 0..MaxChanges /\ procs' = Raced(procs, a)
      /\ UNCHANGED <<life, orders, pending, acked, faults>>
      /\ access' = [access EXCEPT ![a] = NoRow]
      /\ hist' = [hist EXCEPT ![a] = Emptied(hist[a])]
  BY AdministerType DEF RemoveAppAccess, stripe
<1>2. NoRow \in Row /\ ~NoRow.row /\ Emptied(hist[a]) \in Hist /\ TrueRow(a, NoRow, Emptied(hist[a]))
  BY EmptiedRow
<1>3. /\ access'[a] = NoRow /\ hist'[a] = Emptied(hist[a])
      /\ \A b \in Apps : b # a => access'[b] = access[b] /\ hist'[b] = hist[b]
      /\ access' \in [Apps -> Row] /\ hist' \in [Apps -> Hist]
  BY <1>1, <1>2 DEF IInv, TypeOK
<1>4. RequestsAreTrue' /\ procs' \in [Procs -> Proc]
  <2>1. procs \in [Procs -> Proc]
    BY DEF IInv, TypeOK
  <2>2. QED BY <1>1, <1>3, <2>1, RequestsKept
<1>5. TypeOK'
  BY <1>1, <1>3, <1>4 DEF IInv, TypeOK
<1>6. LogsAreTrue' /\ EventsAreTrue'
  BY <1>1 DEF IInv, LogsAreTrue, EventsAreTrue
<1>7. \A b \in Apps : TrueRow(b, access[b], hist[b]) => TrueRow(b, access'[b], hist'[b])
  BY <1>2, <1>3
<1>8. IInv'
  BY <1>1, <1>4, <1>5, <1>6, <1>7, RowStep
<1>9. GraceKept
  BY <1>2, <1>3 DEF GraceKept
<1>10. QED BY <1>8, <1>9

(* A purge takes rows that requests may have read.                           *)
LEMMA PurgeStep ==
    ASSUME IInv, NEW x \in Apps \cup {Tenant}, Purge(x)
    PROVE  IInv' /\ GraceKept
<1>1. /\ changes' \in 0..MaxChanges
      /\ UNCHANGED <<orders, pending, acked, faults, procs>>
      /\ life' = [life EXCEPT ![x] = "purged"]
  BY AdministerType DEF Purge, stripe
<1>2. ASSUME NEW a \in Apps
      PROVE  /\ NoRow \in Row /\ ~NoRow.row /\ Emptied(hist[a]) \in Hist /\ TrueRow(a, NoRow, Emptied(hist[a]))
             /\ access[a] \in Row /\ hist[a] \in Hist
  BY EmptiedRow DEF IInv, TypeOK
<1>3. /\ access' = [a \in Apps |-> IF x \in {a, Tenant} THEN NoRow ELSE access[a]]
      /\ hist' = [a \in Apps |-> IF x \in {a, Tenant} THEN Emptied(hist[a]) ELSE hist[a]]
  BY Zenon DEF Purge
<1>4. ASSUME NEW a \in Apps
      PROVE  \/ access'[a] = access[a] /\ hist'[a] = hist[a]
             \/ access'[a] = NoRow /\ hist'[a] = Emptied(hist[a])
  BY <1>3
<1>5. access' \in [Apps -> Row] /\ hist' \in [Apps -> Hist]
  BY <1>2, <1>3
<1>6. TypeOK'
  BY <1>1, <1>5 DEF IInv, TypeOK
<1>7. RequestsAreTrue'
  <2> SUFFICES ASSUME NEW p \in Procs, procs[p].pc = "write", ~procs[p].raced, access'[procs[p].app].row
               PROVE  procs[p].read = access'[procs[p].app]
    BY <1>1 DEF IInv, RequestsAreTrue, Of
  <2>1. procs[p].app \in Apps
    BY Underway
  <2>2. access'[procs[p].app] = access[procs[p].app]
    BY <1>2, <1>4, <2>1
  <2>3. QED BY <2>2 DEF IInv, RequestsAreTrue
<1>8. LogsAreTrue' /\ EventsAreTrue'
  BY <1>1 DEF IInv, LogsAreTrue, EventsAreTrue
<1>9. \A b \in Apps : TrueRow(b, access[b], hist[b]) => TrueRow(b, access'[b], hist'[b])
  BY <1>2, <1>4
<1>10. IInv'
  BY <1>1, <1>6, <1>7, <1>8, <1>9, RowStep
<1>11. GraceKept
  BY <1>2, <1>4 DEF GraceKept
<1>12. QED BY <1>10, <1>11

(* A deadline passes.                                                        *)
LEMMA DeadlineStep ==
    ASSUME IInv, NEW a \in Apps, DeadlinePasses(a)
    PROVE  IInv' /\ GraceKept
<1>1. /\ UNCHANGED <<life, hist, orders, pending, acked, changes, faults>>
      /\ access' = [access EXCEPT ![a] = Passed(access[a])]
      /\ procs' = [p \in Procs |-> IF procs[p].app = a THEN [procs[p] EXCEPT !.read = Passed(procs[p].read)]
                                   ELSE procs[p]]
  BY DEF DeadlinePasses, stripe
<1>2. ASSUME NEW row \in Row
      PROVE  /\ Passed(row) \in Row /\ Passed(row).row = row.row /\ Passed(row).status = row.status
             /\ Passed(row).order = row.order /\ (row.grace = "over" => Passed(row).grace = "over")
  BY DEF Passed, Row, Deadline
<1>3. access[a] \in Row
  BY DEF IInv, TypeOK
<1>4. access'[a] = Passed(access[a]) /\ \A b \in Apps : b # a => access'[b] = access[b]
  BY <1>1 DEF IInv, TypeOK
<1>5. access' \in [Apps -> Row]
  BY <1>1, <1>2, <1>3 DEF IInv, TypeOK
<1>6. ASSUME NEW p \in Procs
      PROVE  /\ procs'[p] \in Proc /\ procs'[p].pc = procs[p].pc /\ procs'[p].ev = procs[p].ev
             /\ procs'[p].app = procs[p].app /\ procs'[p].raced = procs[p].raced
             /\ procs'[p].read = IF procs[p].app = a THEN Passed(procs[p].read) ELSE procs[p].read
             /\ procs[p].read \in Row
  <2>1. procs[p] \in Proc /\ procs[p].read \in Row
    BY DEF IInv, TypeOK, Proc
  <2>2. Passed(procs[p].read) \in Row
    BY <1>2, <2>1
  <2>3. procs'[p] = IF procs[p].app = a THEN [procs[p] EXCEPT !.read = Passed(procs[p].read)] ELSE procs[p]
    BY <1>1
  <2>4. QED BY <2>1, <2>2, <2>3 DEF Proc
<1>7. procs' \in [Procs -> Proc]
  BY <1>1, <1>6
<1>8. TypeOK'
  BY <1>1, <1>5, <1>7 DEF IInv, TypeOK
<1>9. RequestsAreTrue'
  <2> SUFFICES ASSUME NEW p \in Procs, procs[p].pc = "write"
               PROVE  LET r == procs'[p] IN
                      /\ r.ev \in pending \cup acked
                      /\ r.app = orders[r.ev.order].app
                      /\ ~r.raced /\ access'[r.app].row => r.read = access'[r.app]
                      /\ r.ev.kind = "invoice" => r.read.row
                      /\ r.ev.kind = "invoice" /\ Of(r.ev).invoice = "paid" => r.read.status = "PAST_DUE"
    BY <1>1, <1>6 DEF RequestsAreTrue, Of
  <2>1. LET r == procs[p] IN
        /\ r.ev \in pending \cup acked
        /\ r.app = orders[r.ev.order].app
        /\ ~r.raced /\ access[r.app].row => r.read = access[r.app]
        /\ r.ev.kind = "invoice" => r.read.row
        /\ r.ev.kind = "invoice" /\ Of(r.ev).invoice = "paid" => r.read.status = "PAST_DUE"
    BY DEF IInv, RequestsAreTrue
  <2>2. procs[p].app \in Apps /\ procs[p].read \in Row
    BY <1>6, Underway
  <2>3. Passed(procs[p].read).row = procs[p].read.row /\ Passed(procs[p].read).status = procs[p].read.status
    BY <1>2, <2>2
  <2>4. CASE procs[p].app = a
    <3>1. access'[procs[p].app].row = access[procs[p].app].row
      BY <1>2, <1>3, <1>4, <2>4
    <3>2. procs'[p].app = a /\ access'[a] = Passed(access[a]) /\ procs'[p].read = Passed(procs[p].read)
      BY <1>4, <1>6, <2>4
    <3>3. ~procs'[p].raced /\ access'[a].row => procs'[p].read = access'[a]
      BY <1>6, <2>1, <2>4, <3>1, <3>2
    <3>4. QED BY <1>6, <2>1, <2>3, <2>4, <3>2, <3>3
  <2>5. CASE procs[p].app # a
    BY <1>4, <1>6, <2>1, <2>2, <2>5
  <2>6. QED BY <2>4, <2>5
<1>10. LogsAreTrue' /\ EventsAreTrue'
  BY <1>1 DEF IInv, LogsAreTrue, EventsAreTrue
<1>11. \A b \in Apps : TrueRow(b, access[b], hist[b]) => TrueRow(b, access'[b], hist'[b])
  <2> SUFFICES ASSUME NEW b \in Apps, TrueRow(b, access[b], hist[b]) PROVE TrueRow(b, access'[b], hist[b])
    BY <1>1
  <2>1. CASE b = a
    <3>1. /\ access'[b].row = access[b].row /\ access'[b].status = access[b].status
          /\ access'[b].order = access[b].order
      BY <1>2, <1>3, <1>4, <2>1
    <3>2. QED BY <3>1 DEF TrueRow
  <2>2. CASE b # a
    BY <1>4, <2>2
  <2>3. QED BY <2>1, <2>2
<1>12. IInv'
  BY <1>1, <1>8, <1>9, <1>10, <1>11, RowStep
<1>13. GraceKept
  BY <1>2, <1>3, <1>4 DEF GraceKept
<1>14. QED BY <1>12, <1>13

-----------------------------------------------------------------------------
(* The theorems.                                                             *)

(* The first states satisfy the invariant.                                   *)
LEMMA Initially == Init => IInv
<1> SUFFICES ASSUME Init PROVE IInv
  OBVIOUS
<1>1. TypeOK
  <2>1. access \in [Apps -> Row]
    BY DEF Init, NoRow, Row, Status, Deadline
  <2>2. hist \in [Apps -> Hist] /\ orders \in [Orders -> Order] /\ procs \in [Procs -> Proc]
    BY NoneTypes DEF Init
  <2>3. changes \in 0..MaxChanges /\ faults \in 0..MaxFaults
    BY BillingAssumption DEF Init
  <2>4. life \in [Apps \cup {Tenant} -> {"present", "purged"}]
    BY DEF Init
  <2>5. QED BY <2>1, <2>2, <2>3, <2>4 DEF Init, TypeOK
<1>2. \A o \in Orders : orders[o] = NotPaid /\ orders[o].log = <<>> /\ DOMAIN orders[o].log = {}
  BY DEF Init, NotPaid
<1>3. LogsAreTrue
  BY <1>2 DEF LogsAreTrue
<1>4. EventsAreTrue
  BY <1>2, FS_EmptySet DEF Init, EventsAreTrue
<1>5. \A a \in Apps : access[a].order = NoOrder /\ access[a].status = "TRIAL" /\ hist[a].by = "admin"
  BY DEF Init, NoRow, NewHist
<1>6. RowsOwnOrders /\ NoFreeAccess /\ PaidInvoicesLiftNoSuspension
  BY <1>5 DEF RowsOwnOrders, NoFreeAccess, PaidInvoicesLiftNoSuspension
<1>7. RequestsAreTrue
  BY DEF Init, RequestsAreTrue, IdleProc
<1>8. QED BY <1>1, <1>3, <1>4, <1>6, <1>7 DEF IInv

(* Every step keeps the invariant, and renews no grace.                      *)
LEMMA Inductive == IInv /\ [Next]_vars => IInv' /\ GraceKept
<1> SUFFICES ASSUME IInv, [Next]_vars PROVE IInv' /\ GraceKept
  OBVIOUS
<1>1. ASSUME NEW o \in Orders, Pay(o) \/ Renew(o) \/ Lapse(o) \/ Upgrade(o) \/ End(o)
      PROVE  IInv' /\ GraceKept
  <2>1. UNCHANGED access
    BY <1>1 DEF Pay, Renew, Lapse, Upgrade, End, Change
  <2>2. QED BY <1>1, <2>1, StripeStep DEF GraceKept
<1>2. ASSUME NEW p \in Procs, Write(p) PROVE IInv' /\ GraceKept
  BY <1>2, WriteStep
<1>3. ASSUME NEW p \in Procs, Crash(p) PROVE IInv' /\ GraceKept
  BY <1>3, CrashStep
<1>4. ASSUME NEW e \in pending \cup acked, Deliver(e) PROVE IInv' /\ GraceKept
  BY <1>4, ReceiveStep, PurchaseStep DEF Deliver
<1>5. ASSUME NEW a \in Apps, NEW t \in Terms, SetAppAccess(a, t) PROVE IInv' /\ GraceKept
  BY <1>5, SetStep
<1>6. ASSUME NEW a \in Apps, RemoveAppAccess(a) PROVE IInv' /\ GraceKept
  BY <1>6, RemoveStep
<1>7. ASSUME NEW a \in Apps, DeadlinePasses(a) PROVE IInv' /\ GraceKept
  BY <1>7, DeadlineStep
<1>8. ASSUME NEW x \in Apps \cup {Tenant}, Purge(x) PROVE IInv' /\ GraceKept
  BY <1>8, PurgeStep
<1>9. CASE UNCHANGED vars
  <2>1. UNCHANGED <<life, access, hist, orders, pending, acked, procs, changes, faults>>
    BY <1>9 DEF vars
  <2>2. TypeOK' /\ LogsAreTrue' /\ EventsAreTrue' /\ RequestsAreTrue'
    BY <2>1 DEF IInv, TypeOK, LogsAreTrue, EventsAreTrue, RequestsAreTrue, Of
  <2>3. IInv'
    BY <2>1, <2>2, RowStep
  <2>4. QED BY <2>1, <2>3 DEF GraceKept
<1>10. QED BY <1>1, <1>2, <1>3, <1>4, <1>5, <1>6, <1>7, <1>8, <1>9 DEF Next

(* The invariant holds in every state: requests never lose sight of the row, *)
(* the order and the app they are about, whatever happens while they wait    *)
(* (billing.service.ts:463-649).                                             *)
THEOREM BillingInvariant == Spec => []IInv
<1>1. Spec => []IInv
  BY Initially, Inductive, PTL DEF Spec
<1>2. QED BY <1>1

(* Every state is well typed, the banner agrees with the door on every row,  *)
(* and billing opens no app without a payment: the banner's two readings of  *)
(* a row differ in the order of their tests, which no status and no deadline *)
(* tells apart (billing.service.ts:219-254, app-tenants.ts).                 *)
THEOREM RowsAreHonest == Spec => []BillingInv
<1>1. IInv => BillingInv
  <2> SUFFICES ASSUME IInv PROVE BannerAgrees
    BY DEF IInv, BillingInv
  <2> SUFFICES ASSUME NEW a \in Apps PROVE Entitled(a) <=> Door(a)
    BY DEF BannerAgrees
  <2>1. access[a].status \in {"TRIAL", "ACTIVE", "PAST_DUE", "SUSPENDED"}
    BY DEF IInv, TypeOK, Row, Status
  <2>2. CASE access[a].status = "TRIAL"
    BY <2>2 DEF Entitled, Door
  <2>3. CASE access[a].status = "ACTIVE"
    BY <2>3 DEF Entitled, Door
  <2>4. CASE access[a].status = "PAST_DUE"
    BY <2>4 DEF Entitled, Door
  <2>5. CASE access[a].status = "SUSPENDED"
    BY <2>5 DEF Entitled, Door
  <2>6. QED BY <2>1, <2>2, <2>3, <2>4, <2>5
<1>2. QED BY <1>1, BillingInvariant, PTL

(* An administrator's suspension outlasts paid invoices, however often they  *)
(* are delivered (billing.service.ts:54-55, 566-573).                        *)
THEOREM SuspensionsHold == Spec => []PaidInvoicesLiftNoSuspension
<1>1. IInv => PaidInvoicesLiftNoSuspension
  BY DEF IInv
<1>2. QED BY <1>1, BillingInvariant, PTL

(* Failing again buys no time (billing.service.ts:503-506, 626-637).         *)
THEOREM GraceRunsOut == Spec => GraceIsNotRenewed
<1>1. IInv /\ [Next]_vars => [GraceKept]_vars
  BY Inductive
<1>2. Spec => [][GraceKept]_vars
  BY <1>1, BillingInvariant, PTL DEF Spec
<1>3. QED BY <1>2 DEF GraceIsNotRenewed, GraceKept

(* A step publishes events, acknowledges one that is pending, or leaves the  *)
(* feed alone.                                                               *)
LEMMA FeedStep == IInv /\ IInv' /\ [Next]_vars => [Feed!Next]_<<pending, acked>>
<1> SUFFICES ASSUME IInv, IInv', [Next]_vars PROVE [Feed!Next]_<<pending, acked>>
  OBVIOUS
<1>1. ASSUME NEW o \in Orders, Pay(o) \/ Renew(o) \/ Lapse(o) \/ Upgrade(o) \/ End(o)
      PROVE  Feed!Publish
  <2>1. pending \subseteq pending' /\ UNCHANGED acked
    BY <1>1 DEF Pay, Renew, Lapse, Upgrade, End, Change
  <2>2. pending' \subseteq Event /\ pending' \cap acked' = {}
    BY DEF IInv, TypeOK, EventsAreTrue
  <2>3. QED BY <2>1, <2>2 DEF Feed!Publish
<1>2. ASSUME NEW e \in pending \cup acked, Acknowledge(e) \/ UNCHANGED <<pending, acked>>
      PROVE  Feed!AcknowledgeSome \/ UNCHANGED <<pending, acked>>
  <2>1. CASE e \in pending
    BY <1>2, <2>1 DEF Acknowledge, Feed!AcknowledgeSome, Feed!Acknowledge
  <2>2. CASE e \notin pending
    BY <1>2, <2>2 DEF Acknowledge
  <2>3. QED BY <2>1, <2>2
<1>3. ASSUME NEW p \in Procs, Write(p) PROVE Feed!AcknowledgeSome \/ UNCHANGED <<pending, acked>>
  <2>1. procs[p].pc = "write" /\ (Acknowledge(procs[p].ev) \/ UNCHANGED <<pending, acked>>)
    BY <1>3 DEF Write
  <2>2. QED BY <1>2, <2>1, Underway
<1>4. ASSUME NEW e \in pending \cup acked, Deliver(e)
      PROVE  Feed!AcknowledgeSome \/ UNCHANGED <<pending, acked>>
  <2>1. Acknowledge(e) \/ UNCHANGED <<pending, acked>>
    BY <1>4, Zenon DEF Deliver, Receive, ReceivePurchase
  <2>2. QED BY <1>2, <2>1
<1>5. ASSUME \/ \E p \in Procs : Crash(p)
             \/ \E a \in Apps : \/ \E t \in Terms : SetAppAccess(a, t)
                                \/ RemoveAppAccess(a) \/ DeadlinePasses(a)
             \/ \E x \in Apps \cup {Tenant} : Purge(x)
             \/ UNCHANGED vars
      PROVE  UNCHANGED <<pending, acked>>
  BY <1>5 DEF Crash, SetAppAccess, RemoveAppAccess, DeadlinePasses, Purge, stripe, vars
<1>6. QED BY <1>1, <1>3, <1>4, <1>5 DEF Next, Feed!Next

(* The webhook drops no event: seen from Stripe, its steps are those of the  *)
(* feed of module EventFeed, where only an acknowledgement of a delivered    *)
(* event ends its redelivery (billing.service.ts:463-471).                   *)
THEOREM NothingDropped == Spec => Feed!Init /\ [][Feed!Next]_<<pending, acked>>
<1>1. Init => Feed!Init
  BY DEF Init, Feed!Init
<1>2. QED BY <1>1, Inductive, FeedStep, BillingInvariant, PTL DEF Spec

-----------------------------------------------------------------------------
(* Why rows mirror Stripe: a second invariant, on top of the first.          *)

\* An order is a purchase or a subscription for good, and a payment that failed
\* leaves it past due.
OrdersAreOneKind ==
    \A o \in Orders : \A v \in DOMAIN orders[o].log :
        /\ orders[o].log[v].invoice = "failed" => orders[o].log[v].status = "past_due"
        /\ \A w \in DOMAIN orders[o].log :
              orders[o].log[v].status = "bought" => orders[o].log[w].status = "bought"

\* The rows of a tenant or an app that was purged are gone.
Gone(a) == "purged" \in {life[a], life[Tenant]}
GoneRows == \A a \in Apps : Gone(a) => ~access[a].row

\* What leads a row is a subscription, and owns it unless the row is muddled.
LeadTrue(row, h) ==
    h.lead # NoOrder =>
        /\ row.row
        /\ ~h.muddled => row.order = h.lead
        /\ Live(h.lead)
        /\ \A v \in DOMAIN orders[h.lead].log : orders[h.lead].log[v].status # "bought"
LeadsAreTrue == \A a \in Apps : LeadTrue(access[a], hist[a])

\* A request that writes is about a subscription; with an invoice, or an end, it
\* has read a row that is that subscription's, or with an end nobody's.
Owed(r) ==
    /\ Of(r.ev).status # "bought"
    /\ r.ev.kind = "invoice" => r.read.order = r.ev.order
    /\ (r.ev.kind = "state" /\ Mapped(Of(r.ev).status) = "SUSPENDED")
       => r.read.order \in {NoOrder, r.ev.order}
RequestsAreOwed == \A p \in Procs : procs[p].pc = "write" => Owed(procs[p])

\* No change of a subscription is acknowledged that its row has not seen.
SeenBy(e, h) == (e.kind = "state" /\ Of(e).status # "bought") => e.v <= h.seen[e.order]
AckedAreSeen ==
    \A e \in acked : Gone(orders[e.order].app) \/ SeenBy(e, hist[orders[e.order].app])

\* Every change of order o is among the events A.
Told(o, A) == \A v \in DOMAIN orders[o].log : [order |-> o, v |-> v, kind |-> "state"] \in A

\* A row is what the last change of its lead makes it, once all are among A.
Mirrors(row, h, A) ==
    (row.row /\ h.lead # NoOrder /\ h.by = "billing" /\ ~h.muddled /\ Told(h.lead, A))
    => /\ row.status = Mapped(Now(h.lead).status)
       /\ Now(h.lead).tier \in Registered => row.plan = Now(h.lead).tier
RowsMirror == \A a \in Apps : Mirrors(access[a], hist[a], acked)

MirrorInv ==
    /\ OrdersAreOneKind
    /\ GoneRows
    /\ LeadsAreTrue
    /\ RequestsAreOwed
    /\ AckedAreSeen
    /\ RowsMirror

(* Nothing is due in the first states.                                       *)
LEMMA MirrorInit == Init => MirrorInv
<1> SUFFICES ASSUME Init PROVE MirrorInv
  OBVIOUS
<1>1. \A o \in Orders : orders[o].log = <<>> /\ DOMAIN orders[o].log = {}
  BY DEF Init, NotPaid
<1>2. \A a \in Apps : hist[a].lead = NoOrder
  BY DEF Init, NewHist
<1>3. \A x \in Apps \cup {Tenant} : life[x] = "present"
  BY DEF Init
<1>4. \A p \in Procs : procs[p].pc = "idle"
  BY DEF Init, IdleProc
<1>5. OrdersAreOneKind
  BY <1>1 DEF OrdersAreOneKind
<1>6. GoneRows
  BY <1>3 DEF GoneRows, Gone
<1>7. LeadsAreTrue /\ RowsMirror
  BY <1>2 DEF LeadsAreTrue, LeadTrue, RowsMirror, Mirrors
<1>8. RequestsAreOwed
  BY <1>4 DEF RequestsAreOwed
<1>9. AckedAreSeen
  BY DEF Init, AckedAreSeen
<1>10. QED BY <1>5, <1>6, <1>7, <1>8, <1>9 DEF MirrorInv

(* A change by Stripe leaves every row behind that it leads: its event is    *)
(* not acknowledged yet.                                                     *)
LEMMA ChangeMirrors ==
    ASSUME IInv, MirrorInv, NEW o \in Orders, NEW a \in Apps, NEW s \in Snapshot, Change(o, a, s),
           Live(o) => a = orders[o].app /\ Now(o).status # "bought" /\ s.status # "bought",
           s.invoice = "failed" => s.status = "past_due"
    PROVE  MirrorInv'
<1> DEFINE n == Len(orders[o].log)
<1>1. /\ \A x \in Orders :
           /\ \A v \in DOMAIN orders[x].log :
                 v \in DOMAIN orders'[x].log /\ orders'[x].log[v] = orders[x].log[v]
           /\ orders[x].log # <<>> => orders'[x].log # <<>> /\ orders'[x].app = orders[x].app
           /\ x # o => orders'[x] = orders[x]
      /\ DOMAIN orders'[o].log = DOMAIN orders[o].log \cup {n + 1}
      /\ orders'[o].log[n + 1] = s
  BY LogsGrow
<1>2. UNCHANGED <<life, access, hist, acked, procs>>
  BY ChangeEffect
<1>3. n \in Nat /\ DOMAIN orders[o].log = 1..n /\ (orders[o].log = <<>> => n = 0)
  BY Logs DEF IInv
<1>4. /\ Live(o) => \A v \in DOMAIN orders[o].log : orders[o].log[v].status # "bought"
      /\ ~Live(o) => DOMAIN orders[o].log = {}
  <2>1. CASE Live(o)
    <3>1. n # 0
      BY <2>1, Logs DEF Live, IInv
    <3>2. n \in DOMAIN orders[o].log
      BY <1>3, <3>1
    <3>3. orders[o].log[n].status # "bought"
      BY <2>1 DEF Now
    <3>4. QED BY <2>1, <3>2, <3>3 DEF MirrorInv, OrdersAreOneKind
  <2>2. CASE ~Live(o)
    BY <1>3, <2>2 DEF Live
  <2>3. QED BY <2>1, <2>2
<1> HIDE DEF n
<1>5. OrdersAreOneKind'
  <2> SUFFICES ASSUME NEW x \in Orders, NEW v \in DOMAIN orders'[x].log
               PROVE  /\ orders'[x].log[v].invoice = "failed" => orders'[x].log[v].status = "past_due"
                      /\ \A w \in DOMAIN orders'[x].log :
                            orders'[x].log[v].status = "bought" => orders'[x].log[w].status = "bought"
    BY DEF OrdersAreOneKind
  <2>1. CASE x # o
    BY <1>1, <2>1 DEF MirrorInv, OrdersAreOneKind
  <2>2. CASE x = o /\ ~Live(o)
    BY <1>1, <1>4, <2>2
  <2>3. CASE x = o /\ Live(o)
    <3>1. \A w \in DOMAIN orders'[o].log : orders'[o].log[w].status # "bought"
      BY <1>1, <1>4, <2>3
    <3>2. v \in DOMAIN orders[o].log => orders'[o].log[v] = orders[o].log[v]
      BY <1>1
    <3>3. QED BY <1>1, <2>3, <3>1, <3>2 DEF MirrorInv, OrdersAreOneKind
  <2>4. QED BY <2>1, <2>2, <2>3
<1>6. \A e \in pending \cup acked : /\ e.order \in Orders /\ e.v \in DOMAIN orders[e.order].log
                                    /\ orders'[e.order].log[e.v] = orders[e.order].log[e.v]
                                    /\ orders'[e.order].app = orders[e.order].app
  BY <1>1, Logs DEF IInv, EventsAreTrue, Live
<1>7. GoneRows'
  BY <1>2 DEF MirrorInv, GoneRows, Gone
<1>8. AckedAreSeen'
  BY <1>2, <1>6 DEF MirrorInv, AckedAreSeen, SeenBy, Gone, Of
<1>9. RequestsAreOwed'
  <2>1. \A p \in Procs : procs[p].pc = "write" => procs[p].ev \in pending \cup acked
    BY Underway
  <2>2. QED BY <1>2, <1>6, <2>1 DEF MirrorInv, RequestsAreOwed, Owed, Of
<1>10. \A b \in Apps : hist[b].lead # NoOrder => hist[b].lead \in Orders
  BY DEF IInv, TypeOK, Hist
<1>11. LeadsAreTrue'
  <2> SUFFICES ASSUME NEW b \in Apps, hist[b].lead # NoOrder
               PROVE  /\ orders'[hist[b].lead].log # <<>>
                      /\ \A v \in DOMAIN orders'[hist[b].lead].log :
                            orders'[hist[b].lead].log[v].status # "bought"
    BY <1>2 DEF MirrorInv, LeadsAreTrue, LeadTrue, Live
  <2>1. /\ Live(hist[b].lead)
        /\ \A v \in DOMAIN orders[hist[b].lead].log : orders[hist[b].lead].log[v].status # "bought"
    BY DEF MirrorInv, LeadsAreTrue, LeadTrue
  <2>2. CASE hist[b].lead = o
    BY <1>1, <2>1, <2>2 DEF Live
  <2>3. CASE hist[b].lead # o
    BY <1>1, <1>10, <2>1, <2>3 DEF Live
  <2>4. QED BY <2>2, <2>3
<1>12. RowsMirror'
  <2> SUFFICES ASSUME NEW b \in Apps PROVE Mirrors(access[b], hist[b], acked)'
    BY <1>2 DEF RowsMirror
  <2>1. CASE hist[b].lead = o
    <3>1. n + 1 \in DOMAIN orders'[o].log /\ n + 1 \notin DOMAIN orders[o].log
      BY <1>1, <1>3
    <3>2. [order |-> o, v |-> n + 1, kind |-> "state"] \notin acked
      BY <1>6, <3>1
    <3>3. ~Told(o, acked)'
      BY <1>2, <3>1, <3>2 DEF Told
    <3>4. QED BY <1>2, <2>1, <3>3 DEF Mirrors
  <2>2. CASE hist[b].lead # o
    BY <1>1, <1>2, <1>10, <2>2 DEF MirrorInv, RowsMirror, Mirrors, Told, Now
  <2>3. QED BY <2>1, <2>2
<1>13. QED BY <1>5, <1>7, <1>8, <1>9, <1>11, <1>12 DEF MirrorInv

(* Each of Stripe's operations is such a change.                             *)
LEMMA StripeMirrors ==
    ASSUME IInv, MirrorInv, NEW o \in Orders, Pay(o) \/ Renew(o) \/ Lapse(o) \/ Upgrade(o) \/ End(o)
    PROVE  MirrorInv'
<1>0. Registered \subseteq Tiers
  BY BillingAssumption
<1>1. ASSUME NEW t \in Tiers,
             NEW st \in {"incomplete", "active", "past_due", "ended", "bought"},
             NEW i \in {"none", "paid", "failed"}
      PROVE  /\ Said(st, t, i) \in Snapshot
             /\ Said(st, t, i).status = st /\ Said(st, t, i).invoice = i
  BY DEF Said, Snapshot
<1>2. CASE Pay(o)
  <2>1. PICK a \in Apps, t \in Registered :
          \/ Change(o, a, Said("bought", t, "none"))
          \/ Change(o, a, Said("active", t, "paid"))
          \/ Change(o, a, Said("incomplete", t, "none"))
    BY <1>2 DEF Pay
  <2>2. ~Live(o) /\ t \in Tiers
    BY <1>0, <1>2 DEF Pay
  <2>3. QED BY <1>1, <2>1, <2>2, ChangeMirrors
<1>3. CASE Renew(o) \/ Lapse(o) \/ Upgrade(o) \/ End(o)
  <2>1. Live(o) /\ Now(o).status # "bought"
    BY <1>3 DEF Renew, Lapse, Upgrade, End
  <2>2. orders[o].app \in Apps
    BY <2>1 DEF IInv, LogsAreTrue, Live
  <2>3. Now(o).tier \in Tiers
    <3>1. /\ orders[o].log \in Seq(Snapshot) /\ Len(orders[o].log) \in Nat
          /\ DOMAIN orders[o].log = 1..Len(orders[o].log)
          /\ \A v \in DOMAIN orders[o].log : orders[o].log[v] \in Snapshot
      BY Logs DEF IInv
    <3>2. Len(orders[o].log) \in DOMAIN orders[o].log
      BY <2>1, <3>1 DEF Live
    <3>3. QED BY <3>1, <3>2 DEF Now, Snapshot
  <2>4. PICK s \in Snapshot :
          /\ Change(o, orders[o].app, s) /\ s.status # "bought"
          /\ s.invoice = "failed" => s.status = "past_due"
    <3>1. CASE Renew(o)
      BY <1>1, <2>3, <3>1 DEF Renew
    <3>2. CASE Lapse(o)
      BY <1>1, <2>3, <3>2 DEF Lapse
    <3>3. CASE Upgrade(o)
      BY <1>1, <3>3 DEF Upgrade
    <3>4. CASE End(o)
      BY <1>1, <2>3, <3>4 DEF End
    <3>5. QED BY <1>3, <3>1, <3>2, <3>3, <3>4
  <2>5. QED BY <2>1, <2>2, <2>4, ChangeMirrors
<1>4. QED BY <1>2, <1>3
(* What a step that is not Stripe's must leave true.                         *)
LEMMA MirrorStep ==
    ASSUME IInv, MirrorInv, UNCHANGED orders, GoneRows', RequestsAreOwed',
           \A a \in Apps : Gone(a) => Gone(a)',
           \A a \in Apps : \A o \in Orders : hist[a].seen[o] <= hist'[a].seen[o],
           IInv',
           \A e \in acked' : \/ e \in acked \/ Gone(orders[e.order].app)'
                             \/ SeenBy(e, hist'[orders[e.order].app]),
           \A a \in Apps : LeadTrue(access'[a], hist'[a]) /\ Mirrors(access'[a], hist'[a], acked')
    PROVE  MirrorInv'
<1>1. OrdersAreOneKind'
  BY DEF MirrorInv, OrdersAreOneKind
<1>2. LeadsAreTrue'
  BY DEF LeadsAreTrue, LeadTrue, Live
<1>3. RowsMirror'
  BY DEF RowsMirror, Mirrors, Told, Now
<1>4. AckedAreSeen'
  <2> SUFFICES ASSUME NEW e \in acked'
               PROVE  Gone(orders[e.order].app)' \/ SeenBy(e, hist'[orders[e.order].app])
    BY DEF AckedAreSeen, SeenBy, Of
  <2> DEFINE a == orders[e.order].app
  <2>1. CASE e \in acked
    <3>1. e.order \in Orders /\ e.v \in Nat /\ a \in Apps
      BY <2>1, Logs DEF IInv, LogsAreTrue, Live
    <3>2. Gone(a) \/ SeenBy(e, hist[a])
      BY <2>1 DEF MirrorInv, AckedAreSeen
    <3>3. hist[a].seen[e.order] \in Nat /\ hist'[a].seen[e.order] \in Nat
      BY <3>1 DEF IInv, TypeOK, Hist
    <3>4. hist[a].seen[e.order] <= hist'[a].seen[e.order]
      BY <3>1
    <3>5. CASE Gone(a)
      BY <3>1, <3>5
    <3>6. CASE SeenBy(e, hist[a])
      BY <3>1, <3>3, <3>4, <3>6 DEF SeenBy
    <3>7. QED BY <3>2, <3>5, <3>6
  <2>2. QED BY <2>1
<1>5. QED BY <1>1, <1>2, <1>3, <1>4 DEF MirrorInv

(* Whoever waits to write still owes what it read.                           *)
LEMMA OwedKept ==
    ASSUME MirrorInv, UNCHANGED orders,
           \A q \in Procs : procs'[q].pc = "write"
                            => /\ procs[q].pc = "write" /\ procs'[q].ev = procs[q].ev
                               /\ procs'[q].read.order = procs[q].read.order
    PROVE  RequestsAreOwed'
<1> SUFFICES ASSUME NEW q \in Procs, procs'[q].pc = "write" PROVE Owed(procs'[q])
  BY DEF RequestsAreOwed, Owed, Of
<1>1. /\ Owed(procs[q]) /\ procs'[q].ev = procs[q].ev
      /\ procs'[q].read.order = procs[q].read.order
  BY DEF MirrorInv, RequestsAreOwed
<1>2. QED BY <1>1 DEF Owed

(* To be overtaken changes neither the event nor what was read.              *)
LEMMA OvertakenKept ==
    ASSUME NEW a, NEW P \in [Procs -> Proc], \A q \in Procs : P[q] = procs[q] \/ P[q] = IdleProc,
           procs' = Raced(P, a)
    PROVE  \A q \in Procs : procs'[q].pc = "write"
                            => /\ procs[q].pc = "write" /\ procs'[q].ev = procs[q].ev
                               /\ procs'[q].read.order = procs[q].read.order
<1> SUFFICES ASSUME NEW q \in Procs, procs'[q].pc = "write"
             PROVE  /\ procs[q].pc = "write" /\ procs'[q].ev = procs[q].ev
                    /\ procs'[q].read.order = procs[q].read.order
  OBVIOUS
<1>1. procs'[q] = IF P[q].pc = "write" /\ P[q].app = a THEN [P[q] EXCEPT !.raced = TRUE] ELSE P[q]
  BY DEF Raced
<1>2. /\ P[q].pc = "write" /\ P[q] \in Proc /\ procs'[q].ev = P[q].ev
      /\ procs'[q].read = P[q].read
  BY <1>1 DEF Proc
<1>3. P[q] = procs[q]
  BY <1>2 DEF IdleProc
<1>4. QED BY <1>2, <1>3

(* An acknowledgement of another event, or to another row, tells a row that  *)
(* its lead has not muddled nothing new.                                     *)
LEMMA ToldNothing ==
    ASSUME IInv, MirrorInv, NEW e \in pending \cup acked, NEW b \in Apps,
           access[b].row, hist[b].lead # NoOrder, ~hist[b].muddled,
           \/ e.kind = "invoice" \/ Of(e).status = "bought" \/ Gone(orders[e.order].app)
           \/ access[orders[e.order].app].order # e.order
           \/ orders[e.order].app # b,
           Told(hist[b].lead, acked \cup {e})
    PROVE  Told(hist[b].lead, acked)
<1> DEFINE o == hist[b].lead
<1>1. /\ access[b].order = o /\ \A v \in DOMAIN orders[o].log : orders[o].log[v].status # "bought"
  BY DEF MirrorInv, LeadsAreTrue, LeadTrue
<1>2. orders[o].app = b
  BY <1>1 DEF IInv, RowsOwnOrders
<1>3. ~Gone(b)
  BY DEF MirrorInv, GoneRows
<1> SUFFICES ASSUME NEW v \in DOMAIN orders[o].log, [order |-> o, v |-> v, kind |-> "state"] = e
             PROVE  FALSE
  BY DEF Told
<1>4. e.order = o /\ e.v = v /\ e.kind = "state"
  OBVIOUS
<1>5. Of(e).status # "bought"
  BY <1>1, <1>4 DEF Of
<1> HIDE DEF o
<1>6. QED BY <1>1, <1>2, <1>3, <1>4, <1>5

(* A row a step leaves alone, in all but its deadlines.                      *)
LEMMA RowLeft ==
    ASSUME IInv, MirrorInv, NEW b \in Apps,
           access'[b].row = access[b].row, access'[b].status = access[b].status,
           access'[b].order = access[b].order, access'[b].plan = access[b].plan,
           hist'[b].lead = hist[b].lead, hist'[b].by = hist[b].by, hist'[b].muddled = hist[b].muddled,
           \/ UNCHANGED acked
           \/ \E e \in pending \cup acked :
                 /\ acked' = acked \cup {e}
                 /\ \/ e.kind = "invoice" \/ Of(e).status = "bought" \/ Gone(orders[e.order].app)
                    \/ access[orders[e.order].app].order # e.order \/ orders[e.order].app # b
    PROVE  LeadTrue(access'[b], hist'[b]) /\ Mirrors(access'[b], hist'[b], acked')
<1>1. LeadTrue(access[b], hist[b]) /\ Mirrors(access[b], hist[b], acked)
  BY DEF MirrorInv, LeadsAreTrue, RowsMirror
<1>2. LeadTrue(access'[b], hist'[b])
  BY <1>1 DEF LeadTrue
<1>3. ASSUME access[b].row, hist[b].lead # NoOrder, ~hist[b].muddled, Told(hist[b].lead, acked')
      PROVE  Told(hist[b].lead, acked)
  BY <1>3, ToldNothing
<1>4. Mirrors(access'[b], hist'[b], acked')
  BY <1>1, <1>3 DEF Mirrors
<1>5. QED BY <1>2, <1>4

(* A crash changes no row.                                                   *)
LEMMA CrashMirrors ==
    ASSUME IInv, MirrorInv, IInv', NEW p \in Procs, Crash(p)
    PROVE  MirrorInv'
<1>1. /\ procs' = [procs EXCEPT ![p] = IdleProc]
      /\ UNCHANGED <<life, access, hist, orders, pending, acked>>
  BY DEF Crash, Finish, rows, stripe
<1>2. \A q \in Procs : procs'[q] = procs[q] \/ procs'[q].pc # "write"
  BY <1>1 DEF IInv, TypeOK, IdleProc
<1>3. RequestsAreOwed'
  BY <1>1, <1>2, OwedKept
<1>4. \A a \in Apps : \A o \in Orders : hist[a].seen[o] \in Nat
  BY DEF IInv, TypeOK, Hist
<1>5. \A b \in Apps : LeadTrue(access'[b], hist'[b]) /\ Mirrors(access'[b], hist'[b], acked')
  BY <1>1, RowLeft
<1>6. GoneRows' /\ \A a \in Apps : Gone(a) => Gone(a)'
  BY <1>1 DEF MirrorInv, GoneRows, Gone
<1>7. QED BY <1>1, <1>3, <1>4, <1>5, <1>6, MirrorStep

(* Of a row an administrator set, billing promises nothing.                  *)
LEMMA SetMirrors ==
    ASSUME IInv, MirrorInv, IInv', NEW a \in Apps, NEW t \in Terms, SetAppAccess(a, t)
    PROVE  MirrorInv'
<1>1. /\ procs' = Raced(procs, a) /\ UNCHANGED <<life, orders, pending, acked>>
      /\ ~Gone(a)
  BY DEF SetAppAccess, stripe, Gone
<1>2. access[a] \in Row /\ hist[a] \in Hist /\ procs \in [Procs -> Proc]
  BY DEF IInv, TypeOK
<1>3. /\ access'[a].row /\ access'[a].order = access[a].order
      /\ \A b \in Apps : b # a => access'[b] = access[b]
  BY <1>2 DEF SetAppAccess, IInv, TypeOK, Row
<1>4. /\ hist'[a].by # "billing" /\ hist'[a].lead = hist[a].lead /\ hist'[a].seen = hist[a].seen
      /\ \A b \in Apps : b # a => hist'[b] = hist[b]
  BY <1>2 DEF SetAppAccess, IInv, TypeOK, Hist
<1>5. hist'[a].muddled = hist[a].muddled
  BY <1>2 DEF SetAppAccess, IInv, TypeOK, Hist
<1>6. RequestsAreOwed'
  BY <1>1, <1>2, OvertakenKept, OwedKept
<1>7. \A b \in Apps : \A o \in Orders : hist[b].seen[o] \in Nat /\ hist'[b].seen[o] = hist[b].seen[o]
  BY <1>4 DEF IInv, TypeOK, Hist
<1>8. ASSUME NEW b \in Apps PROVE LeadTrue(access'[b], hist'[b]) /\ Mirrors(access'[b], hist'[b], acked')
  <2>1. CASE b = a
    BY <1>3, <1>4, <1>5, <2>1 DEF MirrorInv, LeadsAreTrue, LeadTrue, Mirrors
  <2>2. CASE b # a
    BY <1>1, <1>3, <1>4, <2>2, RowLeft
  <2>3. QED BY <2>1, <2>2
<1>9. GoneRows' /\ \A b \in Apps : Gone(b) => Gone(b)'
  BY <1>1, <1>3 DEF MirrorInv, GoneRows, Gone
<1>10. \A b \in Apps : \A o \in Orders : hist[b].seen[o] <= hist'[b].seen[o]
  BY <1>7
<1>11. QED BY <1>1, <1>6, <1>8, <1>9, <1>10, MirrorStep

(* Nor of a row that is emptied, whose history is kept.                      *)
LEMMA EmptiedMirrors ==
    ASSUME NEW a \in Apps, NEW A
    PROVE  /\ LeadTrue(NoRow, Emptied(hist[a])) /\ Mirrors(NoRow, Emptied(hist[a]), A)
           /\ Emptied(hist[a]).seen = hist[a].seen
<1>1. Emptied(hist[a]).lead = NoOrder /\ Emptied(hist[a]).seen = hist[a].seen
  BY DEF Emptied, NewHist
<1>2. QED BY <1>1 DEF LeadTrue, Mirrors

(* A row an administrator removes.                                           *)
LEMMA RemoveMirrors ==
    ASSUME IInv, MirrorInv, IInv', NEW a \in Apps, RemoveAppAccess(a)
    PROVE  MirrorInv'
<1>1. /\ procs' = Raced(procs, a) /\ UNCHANGED <<life, orders, pending, acked>>
      /\ access' = [access EXCEPT ![a] = NoRow] /\ hist' = [hist EXCEPT ![a] = Emptied(hist[a])]
  BY DEF RemoveAppAccess, stripe
<1>2. procs \in [Procs -> Proc]
  BY DEF IInv, TypeOK
<1>3. /\ access'[a] = NoRow /\ hist'[a] = Emptied(hist[a])
      /\ \A b \in Apps : b # a => access'[b] = access[b] /\ hist'[b] = hist[b]
  BY <1>1 DEF IInv, TypeOK
<1>4. RequestsAreOwed'
  BY <1>1, <1>2, OvertakenKept, OwedKept
<1>5. \A b \in Apps : hist'[b].seen = hist[b].seen
  BY <1>3, EmptiedMirrors
<1>6. \A b \in Apps : \A o \in Orders : hist[b].seen[o] \in Nat
  BY DEF IInv, TypeOK, Hist
<1>7. \A b \in Apps : \A o \in Orders : hist[b].seen[o] <= hist'[b].seen[o]
  BY <1>5, <1>6
<1>8. ASSUME NEW b \in Apps PROVE LeadTrue(access'[b], hist'[b]) /\ Mirrors(access'[b], hist'[b], acked')
  <2>1. CASE b = a
    BY <1>3, <2>1, EmptiedMirrors
  <2>2. CASE b # a
    BY <1>1, <1>3, <2>2, RowLeft
  <2>3. QED BY <2>1, <2>2
<1>9. GoneRows' /\ \A b \in Apps : Gone(b) => Gone(b)'
  BY <1>1, <1>3 DEF MirrorInv, GoneRows, Gone, NoRow
<1>10. QED BY <1>1, <1>4, <1>7, <1>8, <1>9, MirrorStep

(* The rows a purge takes.                                                   *)
LEMMA PurgeMirrors ==
    ASSUME IInv, MirrorInv, IInv', NEW x \in Apps \cup {Tenant}, Purge(x)
    PROVE  MirrorInv'
<1>1. /\ life' = [life EXCEPT ![x] = "purged"] /\ UNCHANGED <<orders, pending, acked, procs>>
  BY DEF Purge, stripe
<1>2. /\ access' = [a \in Apps |-> IF x \in {a, Tenant} THEN NoRow ELSE access[a]]
      /\ hist' = [a \in Apps |-> IF x \in {a, Tenant} THEN Emptied(hist[a]) ELSE hist[a]]
  BY Zenon DEF Purge
<1>3. ASSUME NEW a \in Apps
      PROVE  IF x \in {a, Tenant} THEN access'[a] = NoRow /\ hist'[a] = Emptied(hist[a])
             ELSE access'[a] = access[a] /\ hist'[a] = hist[a]
  BY <1>2
<1>4. ASSUME NEW a \in Apps
      PROVE  /\ Gone(a) => Gone(a)'
             /\ x \notin {a, Tenant} /\ Gone(a)' => Gone(a)
  BY <1>1 DEF Gone, IInv, TypeOK
<1>5. GoneRows'
  <2> SUFFICES ASSUME NEW a \in Apps, Gone(a)' PROVE ~access'[a].row
    BY DEF GoneRows
  <2>1. CASE x \in {a, Tenant}
    BY <1>3, <2>1 DEF NoRow
  <2>2. CASE x \notin {a, Tenant}
    BY <1>3, <1>4, <2>2 DEF MirrorInv, GoneRows
  <2>3. QED BY <2>1, <2>2
<1>6. RequestsAreOwed'
  BY <1>1, OwedKept
<1>7. ASSUME NEW b \in Apps
      PROVE  /\ LeadTrue(access'[b], hist'[b]) /\ Mirrors(access'[b], hist'[b], acked')
             /\ hist'[b].seen = hist[b].seen
  <2>1. CASE x \in {b, Tenant}
    BY <1>3, <2>1, EmptiedMirrors
  <2>2. CASE x \notin {b, Tenant}
    BY <1>1, <1>3, <2>2, RowLeft
  <2>3. QED BY <2>1, <2>2
<1>8. \A b \in Apps : \A o \in Orders : hist[b].seen[o] \in Nat
  BY DEF IInv, TypeOK, Hist
<1>9. \A b \in Apps : \A o \in Orders : hist[b].seen[o] <= hist'[b].seen[o]
  BY <1>7, <1>8
<1>10. QED BY <1>1, <1>4, <1>5, <1>6, <1>7, <1>9, MirrorStep

(* A deadline is no part of the mirror.                                      *)
LEMMA DeadlineMirrors ==
    ASSUME IInv, MirrorInv, IInv', NEW a \in Apps, DeadlinePasses(a)
    PROVE  MirrorInv'
<1>1. /\ UNCHANGED <<life, hist, orders, pending, acked>>
      /\ access' = [access EXCEPT ![a] = Passed(access[a])]
      /\ procs' = [p \in Procs |-> IF procs[p].app = a THEN [procs[p] EXCEPT !.read = Passed(procs[p].read)]
                                   ELSE procs[p]]
  BY DEF DeadlinePasses, stripe
<1>2. ASSUME NEW row \in Row
      PROVE  /\ Passed(row).row = row.row /\ Passed(row).status = row.status
             /\ Passed(row).order = row.order /\ Passed(row).plan = row.plan
  BY DEF Passed, Row
<1>3. ASSUME NEW b \in Apps
      PROVE  /\ access'[b].row = access[b].row /\ access'[b].status = access[b].status
             /\ access'[b].order = access[b].order /\ access'[b].plan = access[b].plan
  <2>1. access[b] \in Row /\ access'[b] = IF b = a THEN Passed(access[b]) ELSE access[b]
    BY <1>1 DEF IInv, TypeOK
  <2>2. QED BY <1>2, <2>1
<1>4. ASSUME NEW q \in Procs
      PROVE  /\ procs'[q].pc = procs[q].pc /\ procs'[q].ev = procs[q].ev
             /\ procs'[q].read.order = procs[q].read.order
  <2>1. procs[q] \in Proc /\ procs[q].read \in Row
    BY DEF IInv, TypeOK, Proc
  <2>2. procs'[q] = IF procs[q].app = a THEN [procs[q] EXCEPT !.read = Passed(procs[q].read)] ELSE procs[q]
    BY <1>1
  <2>3. QED BY <1>2, <2>1, <2>2 DEF Proc
<1>5. RequestsAreOwed'
  BY <1>1, <1>4, OwedKept
<1>6. \A b \in Apps : LeadTrue(access'[b], hist'[b]) /\ Mirrors(access'[b], hist'[b], acked')
  BY <1>1, <1>3, RowLeft
<1>7. GoneRows' /\ \A b \in Apps : Gone(b) => Gone(b)'
  BY <1>1, <1>3 DEF MirrorInv, GoneRows, Gone
<1>8. \A b \in Apps : \A o \in Orders : hist[b].seen[o] \in Nat
  BY DEF IInv, TypeOK, Hist
<1>9. QED BY <1>1, <1>5, <1>6, <1>7, <1>8, MirrorStep
(* A purchase leads no row.                                                  *)
LEMMA PurchaseMirrors ==
    ASSUME IInv, MirrorInv, IInv', NEW p \in Procs, NEW e \in pending \cup acked, ReceivePurchase(p, e)
    PROVE  MirrorInv'
<1> DEFINE a == orders[e.order].app
<1>1. /\ UNCHANGED <<life, orders>> /\ acked' = acked \cup {e} /\ Of(e).status = "bought"
  BY DEF ReceivePurchase, Acknowledge
<1>2. a \in Apps
  BY Logs DEF IInv, LogsAreTrue, Live
<1>3. \A b \in Apps : \A o \in Orders : hist[b].seen[o] \in Nat
  BY DEF IInv, TypeOK, Hist
<1>4. \A x \in acked' : x \in acked \/ SeenBy(x, hist'[orders[x.order].app])
  BY <1>1 DEF SeenBy
<1>5. \A b \in Apps : Gone(b) => Gone(b)'
  BY <1>1 DEF Gone
<1>6. CASE Gone(a)
  <2>1. UNCHANGED <<access, hist, procs>>
    BY <1>6, Zenon DEF ReceivePurchase, rows, Gone
  <2>2. GoneRows' /\ RequestsAreOwed'
    BY <1>1, <2>1 DEF MirrorInv, GoneRows, Gone, RequestsAreOwed, Owed, Of
  <2>3. \A b \in Apps : LeadTrue(access'[b], hist'[b]) /\ Mirrors(access'[b], hist'[b], acked')
    BY <1>1, <2>1, RowLeft
  <2>4. \A b \in Apps : \A o \in Orders : hist[b].seen[o] <= hist'[b].seen[o]
    BY <1>3, <2>1
  <2> HIDE DEF a
  <2>5. QED BY <1>1, <1>4, <1>5, <2>2, <2>3, <2>4, MirrorStep
<1>7. CASE ~Gone(a)
  <2>1. access' = [access EXCEPT ![a] = Purchased(access[a], Of(e))] /\ procs' = Raced(procs, a)
    BY <1>7, Zenon DEF ReceivePurchase, Gone
  <2>2. hist' = [hist EXCEPT ![a] = [hist[a] EXCEPT !.by = "purchase"]]
    BY <1>7 DEF ReceivePurchase, Gone
  <2>3. access[a] \in Row /\ hist[a] \in Hist /\ procs \in [Procs -> Proc]
    BY <1>2 DEF IInv, TypeOK
  <2>4. /\ access'[a].row /\ access'[a].order = access[a].order
        /\ \A b \in Apps : b # a => access'[b] = access[b]
    BY <1>2, <2>1, <2>3 DEF Purchased, IInv, TypeOK, Row
  <2>5. /\ hist'[a].by = "purchase" /\ hist'[a].lead = hist[a].lead /\ hist'[a].seen = hist[a].seen
        /\ \A b \in Apps : b # a => hist'[b] = hist[b]
    BY <1>2, <2>2, <2>3 DEF IInv, TypeOK, Hist
  <2>6. hist'[a].muddled = hist[a].muddled
    BY <1>2, <2>2, <2>3 DEF IInv, TypeOK, Hist
  <2>7. GoneRows'
    BY <1>1, <1>7, <2>4 DEF MirrorInv, GoneRows, Gone
  <2>8. RequestsAreOwed'
    BY <1>1, <2>1, <2>3, OvertakenKept, OwedKept
  <2>9. ASSUME NEW b \in Apps PROVE LeadTrue(access'[b], hist'[b]) /\ Mirrors(access'[b], hist'[b], acked')
    <3>1. CASE b = a
      <4> HIDE DEF a
      <4>1. LeadTrue(access[b], hist[b])
        BY DEF MirrorInv, LeadsAreTrue
      <4>2. hist'[b].by # "billing"
        BY <2>5, <3>1
      <4>3. QED BY <2>4, <2>5, <2>6, <3>1, <4>1, <4>2 DEF LeadTrue, Mirrors
    <3>2. CASE b # a
      BY <1>1, <2>4, <2>5, <3>2, RowLeft
    <3>3. QED BY <3>1, <3>2
  <2>10. \A b \in Apps : \A o \in Orders : hist[b].seen[o] <= hist'[b].seen[o]
    BY <1>3, <2>5
  <2>11. QED BY <1>1, <1>4, <1>5, <2>7, <2>8, <2>9, <2>10, MirrorStep
<1>8. QED BY <1>6, <1>7

(* What is noted of an event.                                                *)
LEMMA NotedFields ==
    ASSUME NEW h \in Hist, NEW e, e.order \in Orders, e.v \in Nat
    PROVE  /\ Noted(h, e).lead = h.lead /\ Noted(h, e).by = h.by /\ Noted(h, e).muddled = h.muddled
           /\ Noted(h, e).seen[e.order] >= e.v
           /\ \A o \in Orders : h.seen[o] <= Noted(h, e).seen[o]
           /\ Noted(h, e) \in Hist
<1> DEFINE seen == [h.seen EXCEPT ![e.order] = IF e.v > h.seen[e.order] THEN e.v ELSE h.seen[e.order]]
<1>1. Noted(h, e) = [h EXCEPT !.seen = seen]
  BY DEF Noted
<1>2. h.seen \in [Orders -> Nat]
  BY DEF Hist
<1>3. /\ seen \in [Orders -> Nat] /\ seen[e.order] >= e.v
      /\ \A o \in Orders : h.seen[o] <= seen[o]
  BY <1>2
<1> HIDE DEF seen
<1>4. Noted(h, e).lead = h.lead /\ Noted(h, e).by = h.by /\ Noted(h, e).seen = seen /\ Noted(h, e) \in Hist
  BY <1>1, <1>3 DEF Hist
<1>5. Noted(h, e).muddled = h.muddled
  BY <1>1 DEF Hist
<1>6. QED BY <1>3, <1>4, <1>5

(* The row a handler finds is that of the event's app.                       *)
LEMMA FoundRow ==
    ASSUME IInv, NEW e \in pending \cup acked, NEW b \in RowsOf(e)
    PROVE  b \in Apps /\ b = orders[e.order].app /\ (e.kind # "state" => access[b].order = e.order)
<1>1. b \in Apps /\ IF e.kind = "state" THEN b = orders[e.order].app ELSE access[b].order = e.order
  BY DEF RowsOf
<1>2. e.order # NoOrder
  BY Logs, BillingAssumption DEF IInv
<1>3. QED BY <1>1, <1>2 DEF IInv, RowsOwnOrders

(* What a handler that reads skips is none of the lead's; what it goes on    *)
(* with, it owes.                                                            *)
LEMMA ReceiveMirrors ==
    ASSUME IInv, MirrorInv, IInv', NEW p \in Procs, NEW e \in pending \cup acked, Receive(p, e)
    PROVE  MirrorInv'
<1> DEFINE found == RowsOf(e)
           a == IF found = {} THEN orders[e.order].app ELSE CHOOSE b \in found : TRUE
           row == IF found = {} THEN NoRow ELSE access[a]
           skip == (found = {} /\ e.kind = "invoice") \/ (found # {} /\ Ignored(e, row))
<1>1. UNCHANGED <<life, access, orders>> /\ Of(e).status # "bought"
  BY DEF Receive
<1>2. /\ e \in Event /\ e.order \in Orders /\ e.v \in Nat /\ orders[e.order].app \in Apps
      /\ Of(e) \in Snapshot /\ e.kind \in {"state", "invoice"}
  BY Logs DEF IInv, LogsAreTrue, Live, Event
<1>3. found # {} => a \in found
  OBVIOUS
<1>4. a \in Apps /\ a = orders[e.order].app /\ (found # {} /\ e.kind # "state" => access[a].order = e.order)
  <2>1. CASE found = {}
    BY <1>2, <2>1
  <2>2. CASE found # {}
    BY <1>3, <2>2, FoundRow
  <2>3. QED BY <2>1, <2>2
<1>5. \A b \in Apps : \A o \in Orders : hist[b].seen[o] \in Nat
  BY DEF IInv, TypeOK, Hist
<1>6. GoneRows' /\ \A b \in Apps : Gone(b) => Gone(b)'
  BY <1>1 DEF MirrorInv, GoneRows, Gone
<1>7. CASE skip
  <2>1. /\ acked' = acked \cup {e} /\ UNCHANGED procs
        /\ hist' = IF found = {} THEN hist ELSE [hist EXCEPT ![a] = Noted(hist[a], e)]
    BY <1>7, Zenon DEF Receive, Acknowledge
  <2>2. e.kind = "invoice" \/ access[orders[e.order].app].order # e.order
    BY <1>2, <1>4, <1>7 DEF Ignored
  <2>3. found = {} => e.kind = "invoice"
    BY <1>7
  <2>4. hist[a] \in Hist
    BY <1>4 DEF IInv, TypeOK
  <2> HIDE DEF a, found, row, skip
  <2>5. ASSUME NEW b \in Apps
        PROVE  /\ hist'[b].lead = hist[b].lead /\ hist'[b].by = hist[b].by
               /\ hist'[b].muddled = hist[b].muddled
               /\ \A o \in Orders : hist[b].seen[o] <= hist'[b].seen[o]
    <3>1. hist'[b] = hist[b] \/ (b = a /\ hist'[b] = Noted(hist[a], e))
      BY <2>1 DEF IInv, TypeOK
    <3>2. QED BY <1>2, <1>5, <2>4, <3>1, NotedFields
  <2>6. SeenBy(e, hist'[orders[e.order].app])
    <3>1. CASE e.kind = "invoice"
      BY <3>1 DEF SeenBy
    <3>2. CASE found # {}
      <4>1. hist'[a] = Noted(hist[a], e)
        BY <1>4, <2>1, <3>2 DEF IInv, TypeOK
      <4>2. Noted(hist[a], e).seen[e.order] \in Nat /\ Noted(hist[a], e).seen[e.order] >= e.v
        BY <1>2, <2>4, NotedFields DEF Hist
      <4>3. QED BY <1>2, <1>4, <4>1, <4>2 DEF SeenBy
    <3>3. QED BY <2>3, <3>1, <3>2
  <2>7. RequestsAreOwed'
    BY <1>1, <2>1 DEF MirrorInv, RequestsAreOwed, Owed, Of
  <2>8. \A b \in Apps : LeadTrue(access'[b], hist'[b]) /\ Mirrors(access'[b], hist'[b], acked')
    BY <1>1, <2>1, <2>2, <2>5, RowLeft
  <2>9. \A x \in acked' : x \in acked \/ SeenBy(x, hist'[orders[x.order].app])
    BY <2>1, <2>6
  <2>10. QED BY <1>1, <1>6, <2>5, <2>7, <2>8, <2>9, MirrorStep
<1>8. CASE ~skip
  <2> DEFINE new == [IdleProc EXCEPT !.pc = "write", !.ev = e, !.app = a, !.read = row]
  <2>1. procs' = [procs EXCEPT ![p] = new] /\ UNCHANGED <<pending, acked, hist>>
    BY <1>8, Zenon DEF Receive
  <2>2. new.ev = e /\ new.read = row
    BY DEF IdleProc
  <2>3. e.kind = "invoice" => row.order = e.order
    BY <1>4, <1>8
  <2>4. e.kind = "state" /\ Mapped(Of(e).status) = "SUSPENDED" => row.order \in {NoOrder, e.order}
    BY <1>8 DEF NoRow, Ignored
  <2>5. Owed(new)
    BY <1>1, <2>2, <2>3, <2>4 DEF Owed
  <2> HIDE DEF a, found, row, skip, new
  <2>6. procs'[p] = new /\ \A q \in Procs : q # p => procs'[q] = procs[q]
    BY <2>1 DEF IInv, TypeOK
  <2>7. RequestsAreOwed'
    <3>1. \A q \in Procs : procs'[q].pc = "write" => Owed(procs'[q])
      BY <2>5, <2>6 DEF MirrorInv, RequestsAreOwed
    <3>2. QED BY <1>1, <3>1 DEF RequestsAreOwed, Owed, Of
  <2>8. \A b \in Apps : LeadTrue(access'[b], hist'[b]) /\ Mirrors(access'[b], hist'[b], acked')
    BY <1>1, <2>1, RowLeft
  <2>9. QED BY <1>1, <1>5, <1>6, <2>1, <2>7, <2>8, MirrorStep
<1>9. QED BY <1>7, <1>8
(* What a write leaves in the history.                                       *)
LEMMA MarkedFields ==
    ASSUME NEW h \in Hist, NEW r, r.ev.order \in Orders, r.ev.v \in Nat, r.raced \in BOOLEAN
    PROVE  LET leads == r.ev.kind = "state" /\ (Mapped(Of(r.ev).status) # "SUSPENDED" \/ h.lead \in {NoOrder, r.ev.order})
           IN /\ Marked(h, r).by = IF r.ev.kind = "state" THEN "billing" ELSE h.by
              /\ Marked(h, r).lead = IF leads THEN r.ev.order ELSE h.lead
              /\ ~Marked(h, r).muddled => /\ ~r.raced /\ h.seen[r.ev.order] <= r.ev.v
                                          /\ leads \/ ~h.muddled
              /\ Marked(h, r).seen[r.ev.order] >= r.ev.v
              /\ \A o \in Orders : h.seen[o] <= Marked(h, r).seen[o]
<1> DEFINE e == r.ev
           n == Noted(h, e)
           leads == e.kind = "state" /\ (Mapped(Of(e).status) # "SUSPENDED" \/ h.lead \in {NoOrder, e.order})
           late == e.v < h.seen[e.order] \/ r.raced
           by == IF e.kind = "state" THEN "billing" ELSE n.by
           lead == IF leads THEN e.order ELSE n.lead
           muddled == late \/ (n.muddled /\ ~leads)
           dunned == n.dunned \/ Of(e).invoice = "failed" \/ r.raced
           m == Marked(h, r)
<1>1. /\ n.lead = h.lead /\ n.by = h.by /\ n.muddled = h.muddled /\ n \in Hist
      /\ n.seen[e.order] >= e.v
      /\ \A o \in Orders : h.seen[o] <= n.seen[o]
  BY NotedFields
<1>2. m = [n EXCEPT !.by = by, !.lead = lead, !.muddled = muddled, !.dunned = dunned]
  BY DEF Marked
<1>3. h.seen[e.order] \in Nat
  BY DEF Hist
<1>4. ~muddled => ~r.raced /\ h.seen[e.order] <= e.v /\ (leads \/ ~h.muddled)
  BY <1>1, <1>3
<1>5. by = (IF e.kind = "state" THEN "billing" ELSE h.by) /\ lead = (IF leads THEN e.order ELSE h.lead)
  BY <1>1
<1> HIDE DEF n, leads, late, by, lead, muddled, dunned, m
<1>6. m.by = by /\ m.lead = lead /\ m.seen = n.seen
  BY <1>1, <1>2 DEF Hist
<1>7. m.muddled = muddled
  BY <1>1, <1>2 DEF Hist
<1>8. /\ m.by = IF e.kind = "state" THEN "billing" ELSE h.by
      /\ m.lead = IF leads THEN e.order ELSE h.lead
      /\ ~m.muddled => ~r.raced /\ h.seen[e.order] <= e.v /\ (leads \/ ~h.muddled)
      /\ m.seen[e.order] >= e.v
      /\ \A o \in Orders : h.seen[o] <= m.seen[o]
  BY <1>1, <1>4, <1>5, <1>6, <1>7
<1>9. QED BY <1>8 DEF m, leads

(* The newest change of an order, once an acknowledged event is of it and    *)
(* nothing newer was seen.                                                   *)
LEMMA NewestApplied ==
    ASSUME IInv, MirrorInv, NEW e \in pending \cup acked, Of(e).status # "bought",
           ~Gone(orders[e.order].app),
           hist[orders[e.order].app].seen[e.order] <= e.v,
           Told(e.order, acked \cup {e})
    PROVE  Of(e) = Now(e.order)
<1> DEFINE o == e.order
           n == Len(orders[o].log)
           x == [order |-> o, v |-> n, kind |-> "state"]
<1>1. o \in Orders /\ n \in Nat /\ e.v \in 1..n /\ DOMAIN orders[o].log = 1..n /\ orders[o].app \in Apps
  BY Logs DEF IInv, EventsAreTrue, LogsAreTrue, Live
<1>2. n \in DOMAIN orders[o].log
  BY <1>1
<1>3. x \in acked \cup {e}
  BY <1>2 DEF Told
<1>4. CASE x = e
  <2>1. e.v = n
    BY <1>4
  <2>2. QED BY <2>1 DEF Of, Now
<1>5. CASE x \in acked
  <2>1. x.order = o /\ x.v = n /\ x.kind = "state"
    OBVIOUS
  <2>2. Of(x).status # "bought"
    BY <1>1, <1>2, <2>1 DEF MirrorInv, OrdersAreOneKind, Of
  <2>3. SeenBy(x, hist[orders[o].app])
    BY <1>5, <2>1 DEF MirrorInv, AckedAreSeen
  <2> HIDE DEF x, n
  <2>4. n <= hist[orders[o].app].seen[o]
    BY <2>1, <2>2, <2>3 DEF SeenBy
  <2>5. hist[orders[o].app].seen[o] \in Nat
    BY <1>1 DEF IInv, TypeOK, Hist
  <2>6. e.v = n
    BY <1>1, <2>4, <2>5
  <2>7. QED BY <2>6 DEF Of, Now, n
<1>6. QED BY <1>3, <1>4, <1>5

(* What a write makes of its row.                                            *)
LEMMA WrittenMirrors ==
    ASSUME IInv, MirrorInv, NEW p \in Procs, procs[p].pc = "write", ~Refused(procs[p])
    PROVE  LET r == procs[p]
               row == Written(access[r.app], r.read, r.ev)
               h == Marked(hist[r.app], r)
           IN LeadTrue(row, h) /\ Mirrors(row, h, acked \cup {r.ev}) /\ ~Gone(r.app)
<1> DEFINE r == procs[p]
           e == r.ev
           a == r.app
           now == access[a]
           h0 == hist[a]
           row == Written(now, r.read, e)
           h == Marked(h0, r)
           leads == e.kind = "state" /\ (Mapped(Of(e).status) # "SUSPENDED" \/ h0.lead \in {NoOrder, e.order})
<1>1. /\ r \in Proc /\ e \in pending \cup acked /\ e.order \in Orders /\ e.v \in DOMAIN orders[e.order].log
      /\ Live(e.order) /\ a = orders[e.order].app /\ a \in Apps /\ Of(e) \in Snapshot
      /\ Of(e).invoice = "paid" => Of(e).status = "active"
  BY Underway
<1>2. now \in Row /\ h0 \in Hist /\ r.read \in Row /\ r.raced \in BOOLEAN
  BY <1>1 DEF IInv, TypeOK, Proc
<1>3. e.v \in Nat /\ e.kind \in {"state", "invoice"}
  BY <1>1, Logs DEF IInv, Event
<1>4. /\ h.by = IF e.kind = "state" THEN "billing" ELSE h0.by
      /\ h.lead = IF leads THEN e.order ELSE h0.lead
      /\ ~h.muddled => /\ ~r.raced /\ h0.seen[e.order] <= e.v
                       /\ leads \/ ~h0.muddled
  BY <1>1, <1>2, <1>3, MarkedFields
<1>5. r.raced \/ ~now.row \/ r.read = now
  BY DEF IInv, RequestsAreTrue, Refused
<1>6. Owed(r)
  BY DEF MirrorInv, RequestsAreOwed
<1>7. ~Gone(a)
  BY <1>1 DEF Refused, MirrorInv, GoneRows, Gone
<1>8. LeadTrue(now, h0) /\ Mirrors(now, h0, acked)
  BY <1>1 DEF MirrorInv, LeadsAreTrue, RowsMirror
<1>9. \A v \in DOMAIN orders[e.order].log : orders[e.order].log[v].status # "bought"
  BY <1>1, <1>6 DEF MirrorInv, OrdersAreOneKind, Owed, Of
<1>10. ASSUME ~h.muddled, Told(e.order, acked \cup {e}) PROVE Of(e) = Now(e.order)
  BY <1>1, <1>4, <1>6, <1>7, <1>10, NewestApplied DEF Owed
<1>11. CASE e.kind = "state"
  <2>1. /\ row.row /\ row.status = Mapped(Of(e).status) /\ row.order = e.order
        /\ Of(e).tier \in Registered => row.plan = Of(e).tier
    BY <1>2, <1>11 DEF Written, Synced, Row, TierOf
  <2>2. ASSUME ~h.muddled, h.lead # NoOrder PROVE leads
    <3> SUFFICES ASSUME ~leads PROVE FALSE
      OBVIOUS
    <3>1. h0.lead # NoOrder /\ h0.lead # e.order /\ ~h0.muddled /\ ~r.raced /\ Mapped(Of(e).status) = "SUSPENDED"
      BY <1>4, <1>11, <2>2
    <3>2. now.row /\ now.order = h0.lead
      BY <1>8, <3>1 DEF LeadTrue
    <3>3. r.read.order = h0.lead
      BY <1>5, <3>1, <3>2
    <3>4. QED BY <1>6, <1>11, <3>1, <3>3 DEF Owed
  <2> HIDE DEF row, h, now, h0, a, r, e, leads
  <2>3. LeadTrue(row, h)
    <3>1. h.lead = e.order \/ h.lead = h0.lead
      BY <1>4
    <3>2. ~h.muddled /\ h.lead # NoOrder => h.lead = e.order
      BY <1>4, <2>2
    <3>3. QED BY <1>1, <1>8, <1>9, <2>1, <3>1, <3>2 DEF LeadTrue
  <2>4. Mirrors(row, h, acked \cup {e})
    <3> SUFFICES ASSUME h.lead # NoOrder, ~h.muddled, Told(h.lead, acked \cup {e})
                 PROVE  /\ row.status = Mapped(Now(h.lead).status)
                        /\ Now(h.lead).tier \in Registered => row.plan = Now(h.lead).tier
      BY DEF Mirrors
    <3>1. h.lead = e.order
      BY <1>4, <2>2
    <3>2. Of(e) = Now(h.lead)
      BY <1>10, <3>1
    <3>3. QED BY <2>1, <3>2
  <2>5. QED BY <1>7, <2>3, <2>4 DEF row, h, now, h0, a, r, e
<1>12. CASE e.kind = "invoice"
  <2>1. /\ row.row = now.row /\ row.order = now.order /\ row.plan = now.plan
        /\ row.status = IF Of(e).invoice = "failed" THEN "PAST_DUE" ELSE "ACTIVE"
    BY <1>2, <1>3, <1>12 DEF Written, Invoiced, Row
  <2>2. h.by = h0.by /\ h.lead = h0.lead /\ (~h.muddled => ~h0.muddled /\ ~r.raced)
    BY <1>4, <1>12
  <2>3. e.kind # "state" /\ Of(e).invoice \in {"paid", "failed"}
    BY <1>1, <1>12 DEF IInv, EventsAreTrue, Of, Snapshot
  <2>4. Of(e).invoice = "failed" => Of(e).status = "past_due"
    BY <1>1 DEF MirrorInv, OrdersAreOneKind, Of
  <2>5. r.read.order = e.order
    BY <1>6, <1>12 DEF Owed
  <2>6. ASSUME h0.lead # NoOrder, ~h0.muddled, now.row, Told(h0.lead, acked \cup {e})
        PROVE  Told(h0.lead, acked)
    BY <1>1, <1>12, <2>6, ToldNothing
  <2> HIDE DEF row, h, now, h0, a, r, e, leads
  <2>7. LeadTrue(row, h)
    BY <1>8, <2>1, <2>2 DEF LeadTrue
  <2>8. Mirrors(row, h, acked \cup {e})
    <3> SUFFICES ASSUME row.row, h.lead # NoOrder, h.by = "billing", ~h.muddled, Told(h.lead, acked \cup {e})
                 PROVE  /\ row.status = Mapped(Now(h.lead).status)
                        /\ Now(h.lead).tier \in Registered => row.plan = Now(h.lead).tier
      BY DEF Mirrors
    <3>1. now.row /\ h0.lead # NoOrder /\ ~h0.muddled /\ ~r.raced /\ h.lead = h0.lead /\ h0.by = "billing"
      BY <2>1, <2>2
    <3>2. h0.lead = e.order
      BY <1>5, <1>8, <2>5, <3>1 DEF LeadTrue
    <3>3. Told(h0.lead, acked)
      BY <2>6, <3>1
    <3>4. Now(h0.lead).tier \in Registered => now.plan = Now(h0.lead).tier
      BY <1>8, <3>1, <3>3 DEF Mirrors
    <3>5. Of(e) = Now(h.lead)
      BY <1>10, <3>1, <3>2
    <3>6. row.status = Mapped(Of(e).status)
      BY <1>1, <2>1, <2>3, <2>4 DEF Mapped
    <3>7. QED BY <2>1, <3>1, <3>4, <3>5, <3>6
  <2>9. QED BY <1>7, <2>7, <2>8 DEF row, h, now, h0, a, r, e
<1>13. QED BY <1>3, <1>11, <1>12

(* A write.                                                                  *)
LEMMA WriteMirrors ==
    ASSUME IInv, MirrorInv, IInv', NEW p \in Procs, Write(p)
    PROVE  MirrorInv'
<1> DEFINE r == procs[p]
           e == r.ev
           a == r.app
           P == [procs EXCEPT ![p] = IdleProc]
<1>1. r.pc = "write" /\ UNCHANGED <<life, orders>>
  BY DEF Write
<1>2. /\ r \in Proc /\ e \in pending \cup acked /\ e.order \in Orders /\ a = orders[e.order].app
      /\ a \in Apps
  BY <1>1, Underway
<1>3. e.v \in Nat /\ r.raced \in BOOLEAN /\ hist[a] \in Hist
  BY <1>2, Logs DEF IInv, TypeOK, Proc
<1>4. P \in [Procs -> Proc] /\ \A q \in Procs : P[q] = procs[q] \/ P[q] = IdleProc
  BY NoneTypes DEF IInv, TypeOK
<1>5. \A b \in Apps : Gone(b) => Gone(b)'
  BY <1>1 DEF Gone
<1>6. \A b \in Apps : \A o \in Orders : hist[b].seen[o] \in Nat
  BY DEF IInv, TypeOK, Hist
<1>7. CASE Refused(r)
  <2>1. /\ procs' = P /\ UNCHANGED <<access, hist>>
        /\ UNCHANGED acked \/ (Orphan(r) /\ acked' = acked \cup {e})
    BY <1>7, Zenon DEF Write, Finish, rows, Acknowledge
  <2>2. Orphan(r) => Gone(orders[e.order].app)
    BY <1>2 DEF Orphan, Gone
  <2>3. \A q \in Procs : procs'[q].pc = "write" => procs'[q] = procs[q]
    BY <1>4, <2>1 DEF IdleProc
  <2>4. RequestsAreOwed'
    BY <1>1, <2>3, OwedKept
  <2>5. GoneRows'
    BY <1>1, <2>1 DEF MirrorInv, GoneRows, Gone
  <2> HIDE DEF P, r, e, a
  <2>6. \A b \in Apps : LeadTrue(access'[b], hist'[b]) /\ Mirrors(access'[b], hist'[b], acked')
    BY <1>2, <2>1, <2>2, RowLeft
  <2>7. \A x \in acked' : x \in acked \/ Gone(orders[x.order].app)'
    BY <1>1, <2>1, <2>2 DEF Gone
  <2>8. \A b \in Apps : \A o \in Orders : hist[b].seen[o] <= hist'[b].seen[o]
    BY <1>6, <2>1
  <2>9. QED BY <1>1, <1>5, <2>4, <2>5, <2>6, <2>7, <2>8, MirrorStep
<1>8. CASE ~Refused(r)
  <2> DEFINE row == Written(access[a], r.read, e)
             h == Marked(hist[a], r)
  <2>1. /\ access' = [access EXCEPT ![a] = row]
        /\ hist' = [hist EXCEPT ![a] = h]
        /\ procs' = Raced(P, a)
    BY <1>8, WriteEffect
  <2>2. acked' = acked \cup {e}
    BY <1>8, Zenon DEF Write, Acknowledge
  <2>3. LeadTrue(row, h) /\ Mirrors(row, h, acked \cup {e}) /\ ~Gone(a)
    BY <1>1, <1>8, WrittenMirrors
  <2>4. h.seen[e.order] >= e.v /\ \A o \in Orders : hist[a].seen[o] <= h.seen[o]
    BY <1>2, <1>3, MarkedFields
  <2> HIDE DEF row, h, P, r, e, a
  <2>5. /\ access'[a] = row /\ hist'[a] = h
        /\ \A b \in Apps : b # a => access'[b] = access[b] /\ hist'[b] = hist[b]
    BY <1>2, <2>1 DEF IInv, TypeOK
  <2>6. RequestsAreOwed'
    BY <1>1, <1>4, <2>1, OvertakenKept, OwedKept
  <2>7. GoneRows'
    BY <1>1, <1>2, <2>3, <2>5 DEF MirrorInv, GoneRows, Gone
  <2>8. ASSUME NEW b \in Apps PROVE LeadTrue(access'[b], hist'[b]) /\ Mirrors(access'[b], hist'[b], acked')
    <3>1. CASE b = a
      BY <2>2, <2>3, <2>5, <3>1
    <3>2. CASE b # a
      BY <1>2, <2>2, <2>5, <3>2, RowLeft
    <3>3. QED BY <3>1, <3>2
  <2>9. SeenBy(e, hist'[orders[e.order].app])
    <3>1. h.seen[e.order] \in Nat
      BY <1>2, <2>5 DEF IInv, TypeOK, Hist
    <3>2. QED BY <1>2, <1>3, <2>4, <2>5, <3>1 DEF SeenBy
  <2>10. \A x \in acked' : x \in acked \/ SeenBy(x, hist'[orders[x.order].app])
    BY <2>2, <2>9
  <2>11. \A b \in Apps : \A o \in Orders : hist[b].seen[o] <= hist'[b].seen[o]
    BY <1>6, <2>4, <2>5
  <2>12. QED BY <1>1, <1>5, <2>6, <2>7, <2>8, <2>10, <2>11, MirrorStep
<1>9. QED BY <1>7, <1>8

(* Every step keeps the second invariant.                                    *)
LEMMA MirrorsKept == IInv /\ IInv' /\ MirrorInv /\ [Next]_vars => MirrorInv'
<1> SUFFICES ASSUME IInv, IInv', MirrorInv, [Next]_vars PROVE MirrorInv'
  OBVIOUS
<1>1. ASSUME NEW o \in Orders, Pay(o) \/ Renew(o) \/ Lapse(o) \/ Upgrade(o) \/ End(o) PROVE MirrorInv'
  BY <1>1, StripeMirrors
<1>2. ASSUME NEW p \in Procs, Write(p) PROVE MirrorInv'
  BY <1>2, WriteMirrors
<1>3. ASSUME NEW p \in Procs, Crash(p) PROVE MirrorInv'
  BY <1>3, CrashMirrors
<1>4. ASSUME NEW e \in pending \cup acked, Deliver(e) PROVE MirrorInv'
  BY <1>4, ReceiveMirrors, PurchaseMirrors DEF Deliver
<1>5. ASSUME NEW a \in Apps, NEW t \in Terms, SetAppAccess(a, t) PROVE MirrorInv'
  BY <1>5, SetMirrors
<1>6. ASSUME NEW a \in Apps, RemoveAppAccess(a) PROVE MirrorInv'
  BY <1>6, RemoveMirrors
<1>7. ASSUME NEW a \in Apps, DeadlinePasses(a) PROVE MirrorInv'
  BY <1>7, DeadlineMirrors
<1>8. ASSUME NEW x \in Apps \cup {Tenant}, Purge(x) PROVE MirrorInv'
  BY <1>8, PurgeMirrors
<1>9. CASE UNCHANGED vars
  <2>1. UNCHANGED <<life, orders, access, hist, procs, acked>>
    BY <1>9 DEF vars
  <2>2. OrdersAreOneKind'
    BY <2>1 DEF MirrorInv, OrdersAreOneKind
  <2>3. GoneRows'
    BY <2>1 DEF MirrorInv, GoneRows, Gone
  <2>4. LeadsAreTrue'
    BY <2>1 DEF MirrorInv, LeadsAreTrue, LeadTrue, Live
  <2>5. RequestsAreOwed'
    BY <2>1 DEF MirrorInv, RequestsAreOwed, Owed, Of
  <2>6. AckedAreSeen'
    BY <2>1 DEF MirrorInv, AckedAreSeen, SeenBy, Of, Gone
  <2>7. RowsMirror'
    BY <2>1 DEF MirrorInv, RowsMirror, Mirrors, Told, Now
  <2>8. QED BY <2>2, <2>3, <2>4, <2>5, <2>6, <2>7 DEF MirrorInv
<1>10. QED BY <1>1, <1>2, <1>3, <1>4, <1>5, <1>6, <1>7, <1>8, <1>9 DEF Next

(* No event of the subscription that leads a row is acknowledged before the  *)
(* row has seen it, and a row that has seen the newest says what it says     *)
(* (billing.service.ts:479-649).                                             *)
THEOREM MirrorInvariant == Spec => []MirrorInv
<1>1. QED BY MirrorInit, MirrorsKept, Inductive, BillingInvariant, PTL DEF Spec

(* A row whose subscription has no event left unacknowledged says what       *)
(* Stripe says, in whatever order, and however often, its events, those of   *)
(* other orders and the administrators' operations came in                   *)
(* (billing.service.ts:479-649).                                             *)
THEOREM RowsMirrorHolds == Spec => []RowsMirrorStripe
<1>1. IInv /\ MirrorInv => RowsMirrorStripe
  <2> SUFFICES ASSUME IInv, MirrorInv, NEW a \in Apps,
                      access[a].row, hist[a].lead # NoOrder, hist[a].by = "billing", ~hist[a].muddled,
                      \A e \in pending : e.order # hist[a].lead
               PROVE  /\ access[a].status = Mapped(Now(hist[a].lead).status)
                      /\ access[a].order = hist[a].lead
                      /\ Now(hist[a].lead).tier \in Registered => access[a].plan = Now(hist[a].lead).tier
    BY DEF RowsMirrorStripe
  <2>1. hist[a].lead \in Orders
    BY DEF IInv, TypeOK, Hist
  <2>2. Told(hist[a].lead, acked)
    <3> SUFFICES ASSUME NEW v \in DOMAIN orders[hist[a].lead].log
                 PROVE  [order |-> hist[a].lead, v |-> v, kind |-> "state"] \in acked
      BY DEF Told
    <3>1. [order |-> hist[a].lead, v |-> v, kind |-> "state"] \in pending \cup acked
      BY <2>1 DEF IInv, EventsAreTrue
    <3>2. QED BY <3>1
  <2>3. QED BY <2>2 DEF MirrorInv, LeadsAreTrue, LeadTrue, RowsMirror, Mirrors
<1>2. QED BY <1>1, BillingInvariant, MirrorInvariant, PTL
===============================================================================
