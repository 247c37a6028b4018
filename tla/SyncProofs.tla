------------------------------ MODULE SyncProofs ------------------------------
(***************************************************************************)
(* Proofs about modules SyncEndpoint and Sync, for every number of tenants, *)
(* browsers, tabs, rows and values, every page size and every bound.       *)
(***************************************************************************)
EXTENDS SyncInv, FiniteSetTheorems, WellFoundedInduction, TLAPS

-----------------------------------------------------------------------------
(* Arithmetic: bounded sets of naturals have a largest element.              *)

(* A non-empty set of naturals has a smallest element.                       *)
LEMMA NatMin ==
    ASSUME NEW S \in SUBSET Nat, S # {}
    PROVE  \E x \in S : \A y \in S : x <= y
<1>1. PICK x \in S : \A y \in S : ~ (<<y, x>> \in OpToRel(<, Nat))
  BY WFMin, NatLessThanWellFounded
<1>2. \A y \in S : ~ (y < x)
  BY <1>1 DEF OpToRel
<1>3. QED
  BY <1>2

(* A non-empty set of naturals with an upper bound has a largest element:    *)
(* row versions are bounded by the sequence.                                 *)
LEMMA NatMax ==
    ASSUME NEW S \in SUBSET Nat, S # {}, NEW b \in Nat, \A x \in S : x <= b
    PROVE  \E x \in S : \A y \in S : y <= x
<1> DEFINE U == {k \in Nat : \E x \in S : k = b - x}
<1>1. U \in SUBSET Nat /\ U # {}
  <2>1. PICK x \in S : TRUE OBVIOUS
  <2>2. b - x \in U OBVIOUS
  <2>3. QED BY <2>2
<1>2. PICK k \in U : \A j \in U : k <= j
  BY <1>1, NatMin
<1>3. PICK x \in S : k = b - x
  OBVIOUS
<1>4. ASSUME NEW y \in S PROVE y <= x
  <2>1. b - y \in U OBVIOUS
  <2>2. k <= b - y BY <2>1, <1>2
  <2>3. x \in Nat /\ y \in Nat OBVIOUS
  <2> HIDE DEF U
  <2>4. QED BY <2>2, <2>3, <1>3
<1>5. QED BY <1>4

-----------------------------------------------------------------------------
(* Types of the constants of the model.                                      *)

(* The absent values are of the types of what they stand in for.             *)
LEMMA NoneTypes ==
    /\ NoRow \in Row
    /\ NoRequest \in Request
    /\ NoTx \in Transaction
    /\ NoReply \in Reply
    /\ ErrorReply \in Reply
    /\ Idle \in Drain
<1>1. (CHOOSE d \in Dbs : TRUE) \in Dbs
  BY NamesAssumption
<1>2. NoRow \in Row
  BY DEF NoRow, Row, RowVals
<1>3. [i \in Ids |-> NoRow] \in [Ids -> Row]
  BY <1>2
<1>4. NoRequest \in Request
  BY <1>1 DEF NoRequest, Request
<1>5. NoTx \in Transaction
  BY <1>1, <1>3 DEF NoTx, Transaction
<1>6. NoReply \in Reply
  BY <1>3 DEF NoReply, Reply
<1>7. ErrorReply \in Reply
  BY <1>6 DEF ErrorReply, NoReply, Reply
<1>8. Idle \in Drain
  BY DEF Idle, Drain
<1>9. QED
  BY <1>2, <1>4, <1>5, <1>6, <1>7, <1>8

-----------------------------------------------------------------------------
(* What a transaction reads, and the page it cuts.                           *)

(* A transaction reads rows, none newer than the sequence.                   *)
LEMMA ViewType ==
    ASSUME ServerTypeOK, SeqAhead, NEW n \in Tenants, NEW i \in Ids
    PROVE  View(n, i) \in Row /\ View(n, i).ver \in Nat /\ View(n, i).ver <= seq
<1>1. tx[n].writes[i] \in Row /\ rows[i] \in Row
  BY DEF ServerTypeOK, Transaction
<1>2. View(n, i) \in Row
  BY <1>1 DEF View
<1>3. View(n, i).ver <= seq
  BY DEF View, SeqAhead
<1>4. QED
  BY <1>2, <1>3 DEF Row

(* The last row of a page: its version bounds the page, and every changed    *)
(* row of the table up to it is in the page (pullChanges: orderBy, take).    *)
LEMMA PageLemma ==
    ASSUME ServerTypeOK, SeqAhead, NEW n \in Tenants,
           NEW T \in SUBSET Ids, IsFiniteSet(T)
    PROVE  /\ LastVersion(n, T) \in Nat
           /\ tx[n].cursor <= LastVersion(n, T)
           /\ tx[n].cursor <= seq => LastVersion(n, T) <= seq
           /\ \A i \in Page(n, T) : View(n, i).ver <= LastVersion(n, T)
           /\ \A i \in Changed(n, T) :
                \/ i \in Page(n, T)
                \/ Truncated(n, T) /\ View(n, i).ver > LastVersion(n, T)
<1> DEFINE C == Changed(n, T)
           P == Page(n, T)
           V == {View(n, i).ver : i \in P}
           Upto(i) == {j \in C : View(n, j).ver <= View(n, i).ver}
<1>1. tx[n].cursor \in Nat /\ seq \in Nat
  BY DEF ServerTypeOK, Transaction
<1>2. \A i \in T : View(n, i).ver \in Nat /\ View(n, i).ver <= seq
  BY ViewType
<1>3. P \subseteq C /\ C \subseteq T
  BY DEF Page, Changed
<1>4. \A i \in C : View(n, i).ver > tx[n].cursor
  BY DEF Changed
<1>5. V \in SUBSET Nat /\ (P # {} => V # {})
  BY <1>2, <1>3
<1>6. \A v \in V : v <= seq
  BY <1>2, <1>3
<1>7. P = {i \in C : Cardinality(Upto(i)) <= Limit}
  BY DEF Page
<1>8. /\ IsFiniteSet(C) /\ Cardinality(C) \in Nat
      /\ \A i \in C : /\ IsFiniteSet(Upto(i)) /\ Cardinality(Upto(i)) \in Nat
                       /\ Cardinality(Upto(i)) <= Cardinality(C)
  <2>1. IsFiniteSet(C)
    BY <1>3, FS_Subset
  <2>2. ASSUME NEW i \in C PROVE Upto(i) \subseteq C
    OBVIOUS
  <2> HIDE DEF C, Upto
  <2>3. QED
    BY <2>1, <2>2, FS_Subset, FS_CardinalityType
<1>9. Limit \in Nat
  BY BoundsAssumption
<1>10. ~Truncated(n, T) => P = C
  <2>1. SUFFICES ASSUME ~(Cardinality(C) >= Limit) PROVE P = C
    BY DEF Truncated
  <2> HIDE DEF C, Upto, P
  <2>2. \A i \in C : Cardinality(Upto(i)) <= Limit
    BY <2>1, <1>8, <1>9
  <2>3. QED
    BY <2>2, <1>7
<1>11. CASE P = {}
  <2>1. LastVersion(n, T) = tx[n].cursor
    BY <1>11 DEF LastVersion
  <2>2. QED
    BY <2>1, <1>1, <1>4, <1>10, <1>11
<1>12. CASE P # {}
  <2> DEFINE L == LastVersion(n, T)
  <2>1. L = CHOOSE v \in V : \A i \in P : View(n, i).ver <= v
    BY <1>12 DEF LastVersion
  <2>2. PICK v \in V : \A u \in V : u <= v
    <3> HIDE DEF V
    <3>1. QED BY <1>5, <1>6, <1>12, <1>1, NatMax
  <2>3. L \in V /\ \A i \in P : View(n, i).ver <= L
    <3>1. \A i \in P : View(n, i).ver \in V
      OBVIOUS
    <3> HIDE DEF V, P, L
    <3>2. \A i \in P : View(n, i).ver <= v
      BY <3>1, <2>2
    <3>3. QED
      BY <3>2, <2>1, <2>2
  <2>4. PICK k \in P : View(n, k).ver = L
    BY <2>3
  <2> HIDE DEF V, P, L
  <2>5. ASSUME NEW i \in C, View(n, i).ver <= L
        PROVE  i \in P
    <3>1. k \in C /\ Cardinality(Upto(k)) <= Limit
      BY <1>7, <2>4
    <3>2. Upto(i) \subseteq Upto(k)
      <4>1. ASSUME NEW j \in C, View(n, j).ver <= View(n, i).ver
            PROVE  View(n, j).ver <= View(n, k).ver
        <5>1. View(n, j).ver \in Nat /\ View(n, i).ver \in Nat /\ L \in Nat
          BY <1>2, <1>3, <1>5, <2>3
        <5> HIDE DEF C, Upto
        <5>2. QED BY <4>1, <5>1, <2>5, <2>4
      <4>2. QED BY <4>1
    <3> HIDE DEF C, Upto
    <3>3. Cardinality(Upto(i)) <= Cardinality(Upto(k))
      BY <3>1, <3>2, <1>8, FS_Subset
    <3>4. Cardinality(Upto(i)) <= Limit
      BY <3>1, <3>3, <1>8, <1>9
    <3>5. QED BY <3>4, <1>7
  <2>6. L \in Nat /\ tx[n].cursor <= L /\ L <= seq
    <3>1. L \in Nat /\ L <= seq
      BY <1>5, <1>6, <2>3
    <3>2. tx[n].cursor < L
      BY <2>4, <1>4, <1>3
    <3>3. QED BY <3>1, <3>2, <1>1
  <2>7. ASSUME NEW i \in C PROVE i \in P \/ (Truncated(n, T) /\ View(n, i).ver > L)
    <3>1. View(n, i).ver \in Nat BY <1>2, <1>3
    <3> HIDE DEF C
    <3>2. QED BY <2>5, <1>10, <3>1, <2>6, <2>7
  <2>8. QED
    BY <2>3, <2>6, <2>7 DEF L, P
<1>13. QED
  BY <1>11, <1>12

(* The cursor of an answer: never behind the request's, never ahead of the   *)
(* sequence, and every row of the tenant in between is on one of the pages   *)
(* (pullChanges: a truncated table holds the cursor back).                   *)
LEMMA NextCursorLemma ==
    ASSUME ServerTypeOK, SeqAhead, NEW n \in Tenants, tx[n].cursor <= seq
    PROVE  /\ NextCursor(n) \in Nat
           /\ tx[n].cursor <= NextCursor(n)
           /\ NextCursor(n) <= seq
           /\ \A i \in Ids :
                (/\ View(n, i).tenant = n
                 /\ tx[n].cursor < View(n, i).ver /\ View(n, i).ver <= NextCursor(n))
                   => i \in Page(n, Projects) \cup Page(n, Tasks)
<1> DEFINE p == LastVersion(n, Projects)
           k == LastVersion(n, Tasks)
           c == tx[n].cursor
           next == IF Truncated(n, Projects) /\ Truncated(n, Tasks) THEN Smaller(p, k)
                   ELSE IF Truncated(n, Projects) THEN p
                   ELSE IF Truncated(n, Tasks) THEN k
                   ELSE Larger(p, k)
<1>1. c \in Nat /\ seq \in Nat
  BY DEF ServerTypeOK, Transaction
<1>2. Projects \in SUBSET Ids /\ Tasks \in SUBSET Ids /\ Ids = Projects \cup Tasks
  BY DEF Ids
<1>3. /\ p \in Nat /\ c <= p /\ p <= seq
      /\ \A i \in Changed(n, Projects) :
           i \in Page(n, Projects) \/ (Truncated(n, Projects) /\ View(n, i).ver > p)
  BY <1>2, BoundsAssumption, PageLemma
<1>4. /\ k \in Nat /\ c <= k /\ k <= seq
      /\ \A i \in Changed(n, Tasks) :
           i \in Page(n, Tasks) \/ (Truncated(n, Tasks) /\ View(n, i).ver > k)
  BY <1>2, BoundsAssumption, PageLemma
<1>5. NextCursor(n) = Larger(next, c)
  BY DEF NextCursor
<1>6. next \in Nat /\ c <= next /\ next <= seq
  <2> HIDE DEF p, k, c
  <2>1. QED BY <1>1, <1>3, <1>4 DEF Smaller, Larger
<1>7. NextCursor(n) = next
  <2> HIDE DEF next, c
  <2>1. QED BY <1>5, <1>6, <1>1 DEF Larger
<1>8. ASSUME NEW i \in Ids, View(n, i).tenant = n, c < View(n, i).ver, View(n, i).ver <= next
      PROVE  i \in Page(n, Projects) \cup Page(n, Tasks)
  <2>1. View(n, i).ver \in Nat
    BY ViewType
  <2>2. CASE i \in Projects
    <3>1. i \in Changed(n, Projects)
      BY <2>1, <2>2, <1>8, <1>1 DEF Changed
    <3>2. Truncated(n, Projects) => next <= p
      <4> HIDE DEF p, k
      <4>1. QED BY <1>3, <1>4 DEF Smaller
    <3> HIDE DEF p, k, next
    <3>3. QED BY <3>1, <3>2, <1>3, <1>6, <1>8, <2>1
  <2>3. CASE i \in Tasks
    <3>1. i \in Changed(n, Tasks)
      BY <2>1, <2>3, <1>8, <1>1 DEF Changed
    <3>2. Truncated(n, Tasks) => next <= k
      <4> HIDE DEF p, k
      <4>1. QED BY <1>3, <1>4 DEF Smaller
    <3> HIDE DEF p, k, next
    <3>3. QED BY <3>1, <3>2, <1>4, <1>6, <1>8, <2>1
  <2>4. QED BY <2>2, <2>3, <1>2
<1>9. QED
  BY <1>6, <1>7, <1>8

-----------------------------------------------------------------------------
(* What one mutation does to the transaction.                                *)

\* Who has row i when the transaction of n commits it.
Owner(n, i) == IF Exists(rows[i]) THEN rows[i].tenant ELSE n

\* Another tenant's row i, if it is one, has come up since n's transaction began.
Came(n, i) == Exists(rows[i]) /\ rows[i].tenant # n => i \in tx[n].absent

\* The write of tenant n to row i is stamped after seq, no later than s, leaves
\* the row with whose it is, and no other transaction has written it.
Fresh(n, i, r, s) ==
    /\ seq < r.ver /\ r.ver <= s
    /\ r.by = n /\ r.tenant = Owner(n, i)
    /\ Came(n, i)
    /\ \A o \in Tenants \ {n} : ~Exists(tx[o].writes[i])

\* w is what the transaction of n has written, with some fresh writes.
Grown(n, w, s) ==
    \A i \in Ids : w[i] = tx[n].writes[i] \/ Fresh(n, i, w[i], s)

\* What mutation m of tenant n leaves of its row once it is answered.
Answers(n, m, r) ==
    /\ m.op = "upsert" => Exists(r)
    /\ \/ ~Exists(r)
       \/ r.tenant # n
       \/ r.ver > seq
       \/ m.op = "delete" /\ r.deleted

(* A row that exists is whose the committed one is, also when it is read     *)
(* through the transaction's own writes, and the id checks have seen to it.  *)
LEMMA ViewOwner ==
    ASSUME ServerInv, NEW n \in Tenants, NEW i \in Ids, tx[n].open
    PROVE  /\ Exists(View(n, i)) => View(n, i).tenant = Owner(n, i)
           /\ ~Foreign(n, i) \/ i \in tx[n].passed => Came(n, i)
           /\ Exists(rows[i]) => Exists(View(n, i))
<1>1. CASE Exists(tx[n].writes[i])
  <2>1. View(n, i) = tx[n].writes[i] /\ tx[n].writes[i].tenant = Owner(n, i)
    BY <1>1 DEF View, ServerInv, Isolation, Owner
  <2>2. Came(n, i)
    BY <1>1 DEF ServerInv, Checked, Came
  <2>3. QED BY <1>1, <2>1, <2>2
<1>2. CASE ~Exists(tx[n].writes[i])
  <2>1. View(n, i) = rows[i]
    BY <1>2 DEF View
  <2>2. i \in tx[n].passed => Came(n, i)
    BY DEF ServerInv, Checked, Came
  <2>3. QED BY <2>1, <2>2 DEF Foreign, Owner, Came
<1>3. QED BY <1>1, <1>2

(* An upsert or a stub is a fresh write, once its check is over.             *)
LEMMA WrittenFresh ==
    ASSUME ServerInv, NEW n \in Tenants, NEW i \in Ids, tx[n].open,
           ~Foreign(n, i) \/ i \in tx[n].passed, ~Waits(n, i),
           NEW v \in Vals \cup {StubName}, NEW p \in Projects \cup {NoProject}
    PROVE  /\ Written(n, i, v, p, seq + 1) \in Row
           /\ Fresh(n, i, Written(n, i, v, p, seq + 1), seq + 1)
<1>1. View(n, i) \in Row /\ seq \in Nat
  BY ViewType DEF ServerInv, ServerTypeOK
<1>2. Written(n, i, v, p, seq + 1) \in Row
  BY <1>1 DEF Written, Row, RowVals
<1>3. Came(n, i)
  BY ViewOwner
<1>4. Written(n, i, v, p, seq + 1).tenant = Owner(n, i)
  BY ViewOwner DEF Written, Owner
<1>5. QED
  BY <1>1, <1>2, <1>3, <1>4 DEF Fresh, Written, Waits

(* So is a tombstone.                                                        *)
LEMMA TombstoneFresh ==
    ASSUME ServerInv, NEW n \in Tenants, NEW i \in Ids, tx[n].open,
           ~Foreign(n, i) \/ i \in tx[n].passed, ~Waits(n, i), Exists(View(n, i))
    PROVE  /\ Tombstoned(n, i, seq + 1) \in Row
           /\ Fresh(n, i, Tombstoned(n, i, seq + 1), seq + 1)
<1>1. View(n, i) \in Row /\ seq \in Nat /\ seq + 1 \in Nat
  BY ViewType DEF ServerInv, ServerTypeOK
<1>2. Tombstoned(n, i, seq + 1) \in Row
  BY <1>1 DEF Tombstoned, Row
<1>3. /\ Tombstoned(n, i, seq + 1).ver = seq + 1
      /\ Tombstoned(n, i, seq + 1).tenant = View(n, i).tenant
      /\ Tombstoned(n, i, seq + 1).by = n
  BY <1>1 DEF Tombstoned, Row
<1>4. QED
  BY <1>1, <1>2, <1>3, ViewOwner DEF Fresh, Waits

\* The transaction of n before and after a step of mutation m, with the sequence
\* at s: the mutation is answered, or is to go on.
Effect(n, m, new, s) ==
    /\ new \in Transaction
    /\ new.open
    /\ new.tab = tx[n].tab /\ new.db = tx[n].db /\ new.cursor = tx[n].cursor
    /\ new.absent = tx[n].absent
    /\ \A i \in new.passed : Came(n, i)
    /\ s \in Nat /\ seq <= s
    /\ Grown(n, new.writes, s)
    /\ \/ new.todo = tx[n].todo
       \/ /\ new.todo = tx[n].todo \ {m}
          /\ (m \in Queued /\ ~new.broken /\ new.rejected = {}) =>
               Answers(n, m, IF Exists(new.writes[m.id]) THEN new.writes[m.id]
                             ELSE rows[m.id])

(* A row whose check is over has come up since, also before this step.       *)
LEMMA PassedCame ==
    ASSUME ServerInv, NEW n \in Tenants, tx[n].open
    PROVE  /\ \A i \in tx[n].passed : Came(n, i)
           /\ tx[n].passed \subseteq Ids
<1>1. tx[n].passed \subseteq Ids
  BY DEF ServerInv, ServerTypeOK, Transaction
<1>2. QED
  BY <1>1 DEF ServerInv, Checked, Came

(* Accept changes the transaction by the writes it is given.                 *)
LEMMA AcceptEffect ==
    ASSUME ServerInv, NEW n \in Tenants, tx[n].open, NEW m \in tx[n].todo,
           NEW w \in [Ids -> Row], NEW s \in Nat, seq <= s, Grown(n, w, s),
           Accept(n, m, w),
           Answers(n, m, IF Exists(w[m.id]) THEN w[m.id] ELSE rows[m.id])
    PROVE  tx' = [tx EXCEPT ![n] = tx'[n]] /\ Effect(n, m, tx'[n], s)
<1>1. tx \in [Tenants -> Transaction] /\ tx[n] \in Transaction
  BY DEF ServerInv, ServerTypeOK
<1>2. m \in Mutation /\ m.seq \in Nat
  BY <1>1 DEF Transaction, Mutation
<1>3. tx' = [tx EXCEPT ![n] = tx'[n]]
  BY <1>1 DEF Accept
<1>4. tx'[n] \in Transaction
  BY <1>1, <1>2 DEF Accept, Transaction
<1>5. /\ tx'[n].tab = tx[n].tab /\ tx'[n].db = tx[n].db /\ tx'[n].cursor = tx[n].cursor
      /\ tx'[n].absent = tx[n].absent
  BY <1>1 DEF Accept, Transaction
<1>6. tx'[n].todo = tx[n].todo \ {m} /\ tx'[n].writes = w /\ tx'[n].passed = {}
  BY <1>1 DEF Accept, Transaction
<1>7. tx'[n].open = tx[n].open
  BY <1>1 DEF Accept, Transaction
<1>8. QED
  BY <1>3, <1>4, <1>5, <1>6, <1>7 DEF Effect

(* Reject counts the mutation among the rejected and writes nothing.         *)
LEMMA RejectEffect ==
    ASSUME ServerInv, NEW n \in Tenants, tx[n].open, NEW m \in tx[n].todo, Reject(n, m)
    PROVE  tx' = [tx EXCEPT ![n] = tx'[n]] /\ Effect(n, m, tx'[n], seq')
<1>1. tx \in [Tenants -> Transaction] /\ tx[n] \in Transaction /\ seq \in Nat
  BY DEF ServerInv, ServerTypeOK
<1>2. m \in Mutation /\ m.seq \in Nat
  BY <1>1 DEF Transaction, Mutation
<1>3. tx' = [tx EXCEPT ![n] = tx'[n]] /\ seq' = seq
  BY <1>1 DEF Reject
<1>4. tx'[n] \in Transaction
  BY <1>1, <1>2 DEF Reject, Transaction
<1>5. /\ tx'[n].tab = tx[n].tab /\ tx'[n].db = tx[n].db /\ tx'[n].cursor = tx[n].cursor
      /\ tx'[n].absent = tx[n].absent
  BY <1>1 DEF Reject, Transaction
<1>6. /\ tx'[n].todo = tx[n].todo \ {m} /\ tx'[n].writes = tx[n].writes
      /\ tx'[n].passed = tx[n].passed
  BY <1>1 DEF Reject, Transaction
<1>7. tx'[n].open = tx[n].open
  BY <1>1 DEF Reject, Transaction
<1>8. tx'[n].rejected # {}
  <2>1. tx'[n].rejected = tx[n].rejected \cup {m.seq}
    BY <1>1 DEF Reject, Transaction
  <2>2. QED BY <2>1
<1>9. Grown(n, tx'[n].writes, seq')
  BY <1>6 DEF Grown
<1>10. \A i \in tx'[n].passed : Came(n, i)
  BY <1>6, PassedCame
<1>11. QED
  BY <1>1, <1>3, <1>4, <1>5, <1>6, <1>7, <1>8, <1>9, <1>10 DEF Effect

(* BreakTx writes nothing and breaks the transaction.                        *)
LEMMA BreakEffect ==
    ASSUME ServerInv, NEW n \in Tenants, tx[n].open, NEW m \in tx[n].todo, BreakTx(n, m)
    PROVE  tx' = [tx EXCEPT ![n] = tx'[n]] /\ Effect(n, m, tx'[n], seq')
<1>1. tx \in [Tenants -> Transaction] /\ tx[n] \in Transaction /\ seq \in Nat
  BY DEF ServerInv, ServerTypeOK
<1>2. m \in Mutation /\ m.seq \in Nat
  BY <1>1 DEF Transaction, Mutation
<1>3. tx' = [tx EXCEPT ![n] = tx'[n]] /\ seq' = seq
  BY <1>1 DEF BreakTx
<1>4. tx'[n] \in Transaction
  BY <1>1, <1>2 DEF BreakTx, Transaction
<1>5. /\ tx'[n].tab = tx[n].tab /\ tx'[n].db = tx[n].db /\ tx'[n].cursor = tx[n].cursor
      /\ tx'[n].absent = tx[n].absent
  BY <1>1 DEF BreakTx, Transaction
<1>6. /\ tx'[n].todo = tx[n].todo \ {m} /\ tx'[n].writes = tx[n].writes
      /\ tx'[n].passed = {}
  BY <1>1 DEF BreakTx, Transaction
<1>7. tx'[n].open = tx[n].open
  BY <1>1 DEF BreakTx, Transaction
<1>8. tx'[n].broken = TRUE
  BY <1>1 DEF BreakTx, Transaction
<1>9. Grown(n, tx'[n].writes, seq')
  BY <1>6 DEF Grown
<1>10. QED
  BY <1>1, <1>3, <1>4, <1>5, <1>6, <1>7, <1>8, <1>9 DEF Effect

(* A write that has to wait: its check is over, and nothing else changes.    *)
LEMMA PassEffect ==
    ASSUME ServerInv, NEW n \in Tenants, tx[n].open, NEW m \in tx[n].todo,
           NEW i \in Ids, ~Foreign(n, i), Pass(n, i)
    PROVE  tx' = [tx EXCEPT ![n] = tx'[n]] /\ Effect(n, m, tx'[n], seq')
<1>1. tx \in [Tenants -> Transaction] /\ tx[n] \in Transaction /\ seq \in Nat
  BY DEF ServerInv, ServerTypeOK
<1>2. tx' = [tx EXCEPT ![n] = tx'[n]] /\ seq' = seq
  BY <1>1 DEF Pass
<1>3. tx'[n] \in Transaction
  BY <1>1 DEF Pass, Transaction
<1>4. /\ tx'[n].tab = tx[n].tab /\ tx'[n].db = tx[n].db /\ tx'[n].cursor = tx[n].cursor
      /\ tx'[n].absent = tx[n].absent
  BY <1>1 DEF Pass, Transaction
<1>5. /\ tx'[n].todo = tx[n].todo /\ tx'[n].writes = tx[n].writes
      /\ tx'[n].passed = {i}
  BY <1>1 DEF Pass, Transaction
<1>6. tx'[n].open = tx[n].open
  BY <1>1 DEF Pass, Transaction
<1>7. Grown(n, tx'[n].writes, seq')
  BY <1>5 DEF Grown
<1>8. \A j \in tx'[n].passed : Came(n, j)
  BY <1>5, ViewOwner
<1>9. QED
  BY <1>1, <1>2, <1>3, <1>4, <1>5, <1>6, <1>7, <1>8 DEF Effect

(* A write of one row with a fresh version, accepted.                        *)
LEMMA WriteEffect ==
    ASSUME ServerInv, NEW n \in Tenants, tx[n].open, NEW m \in tx[n].todo,
           NEW r \in Row, Fresh(n, m.id, r, seq + 1),
           Accept(n, m, [tx[n].writes EXCEPT ![m.id] = r]), seq' = seq + 1
    PROVE  tx' = [tx EXCEPT ![n] = tx'[n]] /\ Effect(n, m, tx'[n], seq')
<1> DEFINE x == [tx[n].writes EXCEPT ![m.id] = r]
<1>1. /\ tx[n].writes \in [Ids -> Row] /\ seq \in Nat
      /\ m \in Mutation /\ m.id \in Ids
  BY DEF ServerInv, ServerTypeOK, Transaction, Mutation
<1>2. x \in [Ids -> Row] /\ Grown(n, x, seq')
  BY <1>1 DEF Grown
<1>3. Answers(n, m, IF Exists(x[m.id]) THEN x[m.id] ELSE rows[m.id])
  <2>1. x[m.id] = r /\ r.ver > seq /\ r.ver \in Nat
    BY <1>1 DEF Fresh, Row
  <2>2. QED BY <2>1, <1>1 DEF Answers, Exists
<1>4. seq' \in Nat /\ seq <= seq' /\ Accept(n, m, x)
  BY <1>1
<1> HIDE DEF x
<1>5. QED
  BY <1>2, <1>3, <1>4, AcceptEffect

(* The kinds of mutation, each as an Effect: a mutation's own row first.     *)
LEMMA UpsertRowEffect ==
    ASSUME ServerInv, NEW n \in Tenants, tx[n].open, NEW m \in tx[n].todo,
           NEW p \in Projects \cup {NoProject}, UpsertRow(n, m, p)
    PROVE  tx' = [tx EXCEPT ![n] = tx'[n]] /\ Effect(n, m, tx'[n], seq')
<1>1. m \in Mutation /\ m.id \in Ids
  BY DEF ServerInv, ServerTypeOK, Transaction, Mutation
<1>2. CASE Reject(n, m)
  BY <1>2, RejectEffect
<1>3. CASE BreakTx(n, m)
  BY <1>3, BreakEffect
<1>4. CASE ~Refused(n, m.id) /\ Pass(n, m.id)
  <2>1. ~Foreign(n, m.id)
    BY <1>4 DEF Refused, Pass
  <2>2. QED BY <1>1, <1>4, <2>1, PassEffect
<1>5. CASE /\ ~Refused(n, m.id) /\ m.val \in Vals /\ ~Waits(n, m.id)
           /\ Accept(n, m, [tx[n].writes EXCEPT
                               ![m.id] = Written(n, m.id, m.val, p, seq + 1)])
           /\ seq' = seq + 1
  <2> DEFINE r == Written(n, m.id, m.val, p, seq + 1)
  <2>1. r \in Row /\ Fresh(n, m.id, r, seq + 1)
    <3>1. ~Foreign(n, m.id) \/ m.id \in tx[n].passed
      BY <1>5 DEF Refused
    <3>2. QED BY <3>1, <1>1, <1>5, WrittenFresh
  <2>2. Accept(n, m, [tx[n].writes EXCEPT ![m.id] = r]) /\ seq' = seq + 1
    BY <1>5
  <2> HIDE DEF r
  <2>3. QED BY <2>1, <2>2, WriteEffect
<1>6. QED
  BY <1>2, <1>3, <1>4, <1>5 DEF UpsertRow

(* The upsert of a project (applyMutations, the project branch).             *)
LEMMA UpsertProjectEffect ==
    ASSUME ServerInv, NEW n \in Tenants, tx[n].open, NEW m \in tx[n].todo,
           UpsertProject(n, m)
    PROVE  tx' = [tx EXCEPT ![n] = tx'[n]] /\ Effect(n, m, tx'[n], seq')
  BY RejectEffect, UpsertRowEffect DEF UpsertProject

(* A delete is an Effect: one tombstone with a fresh version, or nothing     *)
(* (applyMutations, the two delete branches).                                *)
LEMMA DeleteRowEffect ==
    ASSUME ServerInv, NEW n \in Tenants, tx[n].open, NEW m \in tx[n].todo,
           m.op = "delete", DeleteRow(n, m)
    PROVE  tx' = [tx EXCEPT ![n] = tx'[n]] /\ Effect(n, m, tx'[n], seq')
<1> DEFINE w == tx[n].writes
<1>1. /\ w \in [Ids -> Row] /\ seq \in Nat
      /\ m \in Mutation /\ m.id \in Ids
  BY DEF ServerInv, ServerTypeOK, Transaction, Mutation
<1>2. CASE Reject(n, m)
  BY <1>2, RejectEffect
<1>3. CASE ~Foreign(n, m.id) /\ Pass(n, m.id)
  BY <1>1, <1>3, PassEffect
<1>4. CASE /\ ~Foreign(n, m.id) /\ ~IsLive(View(n, m.id))
           /\ Accept(n, m, w)
           /\ UNCHANGED seq
  <2>1. Grown(n, w, seq')
    BY DEF Grown
  <2>2. Answers(n, m, View(n, m.id))
    BY <1>4 DEF Answers, IsLive
  <2>3. Answers(n, m, IF Exists(w[m.id]) THEN w[m.id] ELSE rows[m.id])
    BY <2>2 DEF View
  <2>4. QED
    BY <1>1, <1>4, <2>1, <2>3, AcceptEffect
<1>5. CASE /\ m.id \in tx[n].passed \/ (~Foreign(n, m.id) /\ IsLive(View(n, m.id)))
           /\ Exists(View(n, m.id)) /\ ~Waits(n, m.id)
           /\ Accept(n, m, [w EXCEPT ![m.id] = Tombstoned(n, m.id, seq + 1)])
           /\ seq' = seq + 1
  <2> DEFINE r == Tombstoned(n, m.id, seq + 1)
  <2>1. r \in Row /\ Fresh(n, m.id, r, seq + 1)
    BY <1>1, <1>5, TombstoneFresh
  <2>2. Accept(n, m, [w EXCEPT ![m.id] = r]) /\ seq' = seq + 1
    BY <1>5
  <2> HIDE DEF r
  <2>3. QED BY <2>1, <2>2, WriteEffect
<1>6. QED
  BY <1>2, <1>3, <1>4, <1>5 DEF DeleteRow

(* The stub of a project is an Effect: the task's mutation goes on.          *)
LEMMA CreateStubEffect ==
    ASSUME ServerInv, NEW n \in Tenants, tx[n].open, NEW m \in tx[n].todo,
           m.parent \in Projects, CreateStub(n, m)
    PROVE  tx' = [tx EXCEPT ![n] = tx'[n]] /\ Effect(n, m, tx'[n], seq')
<1> DEFINE p == m.parent
           r == Written(n, p, StubName, NoProject, seq + 1)
           x == [tx[n].writes EXCEPT ![p] = r]
<1>1. /\ tx \in [Tenants -> Transaction] /\ tx[n] \in Transaction /\ seq \in Nat
      /\ tx[n].writes \in [Ids -> Row] /\ p \in Ids
  BY DEF ServerInv, ServerTypeOK, Transaction, Ids
<1>2. CASE BreakTx(n, m)
  BY <1>2, BreakEffect
<1>3. CASE ~Exists(View(n, p)) /\ Pass(n, p)
  <2>1. ~Foreign(n, p)
    BY <1>3 DEF Foreign
  <2>2. QED BY <1>1, <1>3, <2>1, PassEffect
<1>4. CASE /\ ~Exists(View(n, p)) /\ ~Waits(n, p)
           /\ tx' = [tx EXCEPT ![n].writes[p] = r, ![n].passed = {}]
           /\ seq' = seq + 1
  <2>1. r \in Row /\ Fresh(n, p, r, seq + 1)
    <3>1. ~Foreign(n, p)
      BY <1>4 DEF Foreign
    <3>2. StubName \in Vals \cup {StubName} /\ NoProject \in Projects \cup {NoProject}
      OBVIOUS
    <3> HIDE DEF p
    <3>3. QED BY <1>1, <1>4, <3>1, <3>2, WrittenFresh
  <2> HIDE DEF r
  <2>2. x \in [Ids -> Row] /\ Grown(n, x, seq + 1)
    BY <1>1, <2>1 DEF Grown
  <2>3. tx'[n] = [tx[n] EXCEPT !.writes = x, !.passed = {}]
    BY <1>1, <1>4
  <2>4. tx' = [tx EXCEPT ![n] = tx'[n]]
    BY <1>1, <1>4
  <2> HIDE DEF x
  <2>5. tx'[n] \in Transaction
    <3>1. \A v \in [Ids -> Row] : [tx[n] EXCEPT !.writes = v, !.passed = {}] \in Transaction
      BY <1>1 DEF Transaction
    <3>2. QED BY <2>2, <2>3, <3>1
  <2>6. /\ tx'[n].tab = tx[n].tab /\ tx'[n].db = tx[n].db /\ tx'[n].cursor = tx[n].cursor
        /\ tx'[n].absent = tx[n].absent
    BY <1>1, <2>3 DEF Transaction
  <2>7. tx'[n].todo = tx[n].todo /\ tx'[n].writes = x /\ tx'[n].passed = {}
    BY <1>1, <2>3 DEF Transaction
  <2>8. tx'[n].open = tx[n].open
    BY <1>1, <2>3 DEF Transaction
  <2>9. seq' \in Nat /\ seq <= seq' /\ Grown(n, x, seq')
    BY <1>1, <1>4, <2>2
  <2>10. QED
    BY <2>4, <2>5, <2>6, <2>7, <2>8, <2>9 DEF Effect
<1>5. QED
  BY <1>2, <1>3, <1>4 DEF CreateStub

(* A task write is an Effect at each of its steps: the stub of its project,  *)
(* the task (applyMutations, the task branch).                               *)
LEMMA UpsertTaskEffect ==
    ASSUME ServerInv, NEW n \in Tenants, tx[n].open, NEW m \in tx[n].todo,
           UpsertTask(n, m)
    PROVE  tx' = [tx EXCEPT ![n] = tx'[n]] /\ Effect(n, m, tx'[n], seq')
  BY RejectEffect, CreateStubEffect, UpsertRowEffect DEF UpsertTask

(* ApplyMutation takes one mutation of the batch further: the writes grow.   *)
LEMMA ApplyEffect ==
    ASSUME ServerInv, NEW n \in Tenants, ApplyMutation(n)
    PROVE  /\ tx' = [tx EXCEPT ![n] = tx'[n]]
           /\ \E m \in tx[n].todo : Effect(n, m, tx'[n], seq')
           /\ UNCHANGED <<rows, horizon, request, orphans, reply, issued, landed, faults>>
<1>1. PICK m \in tx[n].todo :
        \/ m.op = "upsert" /\ m.id \in Projects /\ UpsertProject(n, m)
        \/ m.op = "upsert" /\ m.id \in Tasks /\ UpsertTask(n, m)
        \/ m.op = "delete" /\ DeleteRow(n, m)
        \/ BreakTx(n, m)
  BY DEF ApplyMutation
<1>2. tx[n].open
  BY DEF ApplyMutation
<1>3. tx' = [tx EXCEPT ![n] = tx'[n]] /\ Effect(n, m, tx'[n], seq')
  BY <1>1, <1>2, UpsertProjectEffect, UpsertTaskEffect, DeleteRowEffect, BreakEffect
<1>4. QED
  BY <1>3 DEF ApplyMutation

-----------------------------------------------------------------------------
(* ServerInv is inductive: the steps of callers.                             *)

(* Sending a request: it carries the database of its tab and a cursor that   *)
(* has been handed out.                                                      *)
LEMMA SendStep ==
    ASSUME ServerInv, NEW t \in Tabs, NEW b \in SUBSET Mutation, Send(t, b)
    PROVE  ServerInv'
<1> DEFINE d == DbOf[t]
<1>1. ServerTypeOK /\ d \in Dbs /\ issued[TenantOf[d]] \in Nat
  BY NamesAssumption DEF ServerInv, ServerTypeOK
<1>2. PICK c \in 0..issued[TenantOf[d]] :
         request' = [request EXCEPT ![t] = [tab |-> t, db |-> d, cursor |-> c, muts |-> b]]
  BY DEF Send
<1> DEFINE r == [tab |-> t, db |-> d, cursor |-> c, muts |-> b]
<1>3. c \in Nat /\ c <= issued[TenantOf[d]]
  BY <1>1, <1>2
<1>4. r \in Request /\ r.tab = t /\ r.db = d /\ r.cursor = c
  BY <1>1, <1>3 DEF Request
<1> HIDE DEF r
<1>5. UNCHANGED <<rows, seq, horizon, tx, orphans, reply, issued, landed, faults>>
  BY DEF Send
<1>6. request \in [Tabs -> Request] /\ request' = [request EXCEPT ![t] = r]
  BY <1>1, <1>2 DEF ServerTypeOK, r
<1>7. ServerTypeOK'
  BY <1>1, <1>4, <1>5, <1>6 DEF ServerTypeOK
<1>8. Routing'
  BY <1>4, <1>5, <1>6 DEF ServerInv, Routing, Sent, Served
<1>9. Cursors'
  BY <1>3, <1>4, <1>5, <1>6 DEF ServerInv, Cursors, Sent
<1>10. SeqAhead' /\ WritesAhead' /\ Isolation' /\ Checked' /\ PageComplete' /\ PageRows'
  BY <1>5 DEF ServerInv, SeqAhead, WritesAhead, Isolation, Checked, PageComplete, PageRows, Exists
<1>11. OneAnswer'
  BY <1>4, <1>5, <1>6 DEF ServerInv, OneAnswer, Sent, Served, Replied, Send, Waiting
<1>12. QED
  BY <1>7, <1>8, <1>9, <1>10, <1>11 DEF ServerInv

(* Taking an answer leaves none behind.                                      *)
LEMMA ReceiveStep ==
    ASSUME ServerInv, NEW t \in Tabs, Receive(t)
    PROVE  ServerInv'
<1>1. /\ ServerTypeOK /\ reply \in [Tabs -> Reply] /\ issued \in [Tenants -> Nat]
      /\ \A u \in Tabs : TenantOf[DbOf[u]] \in Tenants
  BY NamesAssumption DEF ServerInv, ServerTypeOK
<1>2. NoReply.kind = "none" /\ NoReply.cursor = 0 /\ NoReply.base = 0
  BY DEF NoReply
<1>3. \A u \in Tabs : reply'[u] = IF u = t THEN NoReply ELSE reply[u]
  BY <1>1 DEF Receive
<1>4. UNCHANGED <<rows, seq, horizon, tx, request, orphans, issued, landed, faults>>
  BY DEF Receive
<1>5. ServerTypeOK'
  BY <1>1, <1>4, NoneTypes DEF Receive, ServerTypeOK
<1>6. \A u \in Tabs : /\ reply'[u].base <= reply'[u].cursor
                      /\ reply'[u].cursor <= issued[TenantOf[DbOf[u]]]
  BY <1>1, <1>2, <1>3 DEF ServerInv, Cursors
<1>7. Routing' /\ Cursors'
  BY <1>4, <1>6 DEF ServerInv, Routing, Cursors, Sent, Served
<1>8. PageComplete' /\ PageRows'
  BY <1>2, <1>3, <1>4 DEF ServerInv, PageComplete, PageRows, Exists
<1>9. SeqAhead' /\ WritesAhead' /\ Isolation' /\ Checked'
  BY <1>4 DEF ServerInv, SeqAhead, WritesAhead, Isolation, Checked, Exists
<1>10. OneAnswer'
  BY <1>2, <1>3, <1>4 DEF ServerInv, OneAnswer, Sent, Served, Replied
<1>11. QED
  BY <1>5, <1>7, <1>8, <1>9, <1>10 DEF ServerInv

(* Abandoning requests keeps the types.                                      *)
LEMMA AbandonType ==
    ASSUME ServerTypeOK, NEW T \in SUBSET Tabs, Abandon(T)
    PROVE  ServerTypeOK'
<1>1. orphans' \in SUBSET Request
  <2>1. ASSUME NEW t \in T PROVE [request[t] EXCEPT !.tab = Nobody] \in Request
    <3>1. request[t] \in Request
      BY DEF ServerTypeOK
    <3>2. QED BY <3>1 DEF Request
  <2>2. QED BY <2>1 DEF Abandon, ServerTypeOK
<1>2. tx' \in [Tenants -> Transaction]
  <2>1. ASSUME NEW n \in Tenants PROVE [tx[n] EXCEPT !.tab = Nobody] \in Transaction
    <3>1. tx[n] \in Transaction
      BY DEF ServerTypeOK
    <3>2. QED BY <3>1 DEF Transaction
  <2>2. QED BY <2>1 DEF Abandon, ServerTypeOK
<1>3. request' \in [Tabs -> Request] /\ reply' \in [Tabs -> Reply] /\ faults' \in Nat
  BY NoneTypes DEF Abandon, ServerTypeOK
<1>4. QED BY <1>1, <1>2, <1>3 DEF Abandon, ServerTypeOK

(* Abandoning the answers of some tabs makes orphans of their requests.      *)
LEMMA AbandonStep ==
    ASSUME ServerInv, NEW T \in SUBSET Tabs, Abandon(T)
    PROVE  ServerInv'
<1>0. ServerTypeOK' /\ UNCHANGED <<rows, seq, issued>>
  BY AbandonType DEF ServerInv, Abandon
<1>1. /\ reply \in [Tabs -> Reply] /\ request \in [Tabs -> Request]
      /\ tx \in [Tenants -> Transaction] /\ orphans \in SUBSET Request
      /\ issued \in [Tenants -> Nat]
      /\ \A d \in Dbs : TenantOf[d] \in Tenants
      /\ \A t \in Tabs : DbOf[t] \in Dbs
  BY NamesAssumption DEF ServerInv, ServerTypeOK
<1>2. \A t \in Tabs : reply'[t] = IF t \in T THEN NoReply ELSE reply[t]
  BY DEF Abandon
<1>3. \A t \in Tabs : request'[t] = IF t \in T THEN NoRequest ELSE request[t]
  BY DEF Abandon
<1>4. ASSUME NEW n \in Tenants
      PROVE  /\ tx'[n].writes = tx[n].writes /\ tx'[n].cursor = tx[n].cursor
             /\ tx'[n].db = tx[n].db
             /\ tx'[n].tab = tx[n].tab \/ tx'[n].tab = Nobody
             /\ tx'[n].open = tx[n].open
             /\ tx'[n].passed = tx[n].passed /\ tx'[n].absent = tx[n].absent
             /\ tx'[n] = NoTx \/ tx[n].open
  <2>1. tx[n] \in Transaction
    BY <1>1
  <2>2. tx'[n] = IF tx[n].tab \in T THEN [tx[n] EXCEPT !.tab = Nobody] ELSE tx[n]
    BY DEF Abandon
  <2>3. ~tx[n].open => tx[n] = NoTx
    BY DEF ServerInv, Routing
  <2>4. tx[n] = NoTx => tx'[n] = NoTx
    <3>1. NoTx.tab = Nobody
      BY DEF NoTx
    <3>2. QED BY <3>1, <2>2, NamesAssumption
  <2>5. /\ tx'[n].writes = tx[n].writes /\ tx'[n].cursor = tx[n].cursor
        /\ tx'[n].db = tx[n].db
        /\ tx'[n].tab = tx[n].tab \/ tx'[n].tab = Nobody
    BY <2>1, <2>2 DEF Transaction
  <2>6. tx'[n].open = tx[n].open
    BY <2>1, <2>2 DEF Transaction
  <2>7. tx'[n].passed = tx[n].passed /\ tx'[n].absent = tx[n].absent
    BY <2>1, <2>2 DEF Transaction
  <2>8. QED BY <2>3, <2>4, <2>5, <2>6, <2>7
<1>5. ASSUME NEW r \in orphans'
      PROVE  r.tab = Nobody /\ r.cursor <= issued[TenantOf[r.db]]
  <2>1. CASE r \in orphans
    BY <2>1 DEF ServerInv, Routing, Cursors
  <2>2. CASE r \notin orphans
    <3>1. PICK t \in T : request[t].tab = t /\ r = [request[t] EXCEPT !.tab = Nobody]
      BY <2>2 DEF Abandon
    <3>2. request[t] \in Request /\ t \in Tabs
      BY <1>1
    <3>3. r.tab = Nobody /\ r.cursor = request[t].cursor /\ r.db = request[t].db
      BY <3>1, <3>2 DEF Request
    <3>4. request[t].db = DbOf[t] /\ request[t].cursor <= issued[TenantOf[DbOf[t]]]
      BY <3>1, <3>2 DEF ServerInv, Routing, Cursors, Sent
    <3>5. QED BY <3>3, <3>4
  <2>3. QED BY <2>1, <2>2
<1>6. NoReply.kind = "none" /\ NoReply.cursor = 0 /\ NoReply.base = 0
  BY DEF NoReply
<1>7. NoRequest.tab = Nobody
  BY DEF NoRequest
<1>8. Routing'
  <2>1. ASSUME NEW t \in Tabs
        PROVE  /\ request'[t].tab \in {t, Nobody}
               /\ Sent(t)' => request'[t].db = DbOf[t]
    BY <1>3, <1>7, NamesAssumption DEF ServerInv, Routing, Sent
  <2>2. ASSUME NEW n \in Tenants
        PROVE  /\ ~tx'[n].open => tx'[n] = NoTx
               /\ tx'[n].open => TenantOf[tx'[n].db] = n
               /\ \A t \in Tabs : Served(n, t)' => tx'[n].db = DbOf[t]
    BY <1>4, NamesAssumption DEF ServerInv, Routing, Served
  <2>3. QED BY <2>1, <2>2, <1>5 DEF Routing
<1>9. SeqAhead' /\ WritesAhead' /\ Isolation' /\ Checked'
  BY <1>0, <1>4 DEF ServerInv, SeqAhead, WritesAhead, Isolation, Checked, Exists
<1>10. Cursors'
  <2>1. \A n \in Tenants : issued[n] <= seq /\ tx'[n].cursor <= issued[n]
    BY <1>4 DEF ServerInv, Cursors
  <2>3. \A t \in Tabs : Sent(t)' => request'[t].cursor <= issued[TenantOf[DbOf[t]]]
    BY <1>3, <1>7, NamesAssumption DEF ServerInv, Cursors, Sent
  <2>4. \A t \in Tabs : /\ reply'[t].base <= reply'[t].cursor
                        /\ reply'[t].cursor <= issued[TenantOf[DbOf[t]]]
    BY <1>1, <1>2, <1>6 DEF ServerInv, Cursors
  <2>5. QED BY <1>0, <1>5, <2>1, <2>3, <2>4 DEF Cursors
<1>11. PageComplete' /\ PageRows'
  BY <1>0, <1>2, <1>6 DEF ServerInv, PageComplete, PageRows, Exists
<1>12. OneAnswer'
  BY <1>2, <1>3, <1>4, <1>6, <1>7, NamesAssumption
     DEF ServerInv, OneAnswer, Sent, Served, Replied
<1>13. QED
  BY <1>0, <1>8, <1>9, <1>10, <1>11, <1>12 DEF ServerInv

-----------------------------------------------------------------------------
(* ServerInv is inductive: the steps of the endpoint.                        *)

(* Taking a request, waited for or not, opens a transaction that carries its *)
(* tab, database and cursor, and changes no row.                             *)
LEMMA TakeSteps ==
    ASSUME ServerInv,
           (\E t \in Tabs : TakeRequest(t)) \/ TakeOrphan
    PROVE  ServerInv'
<1>1. /\ ServerTypeOK /\ tx \in [Tenants -> Transaction] /\ request \in [Tabs -> Request]
      /\ orphans \in SUBSET Request
      /\ TenantOf \in [Dbs -> Tenants]
  BY NamesAssumption DEF ServerInv, ServerTypeOK
<1>2. PICK r \in Request :
        /\ r.cursor <= issued[TenantOf[r.db]]
        /\ tx' = [tx EXCEPT ![TenantOf[r.db]] = Opened(r)]
        /\ r.tab = Nobody \/ (/\ r.tab \in Tabs /\ r.db = DbOf[r.tab]
                              /\ Sent(r.tab) /\ request'[r.tab] = NoRequest)
        /\ \A t \in Tabs : request'[t] \in {request[t], NoRequest}
        /\ request' \in [Tabs -> Request]
        /\ orphans' \subseteq orphans
        /\ UNCHANGED <<rows, seq, horizon, reply, issued, landed, faults>>
  <2>1. ASSUME NEW t \in Tabs, TakeRequest(t)
        PROVE  LET r == request[t] IN
               /\ r.cursor <= issued[TenantOf[r.db]]
               /\ tx' = [tx EXCEPT ![TenantOf[r.db]] = Opened(r)]
               /\ r.tab \in Tabs /\ r.db = DbOf[r.tab]
               /\ Sent(r.tab) /\ request'[r.tab] = NoRequest
               /\ \A u \in Tabs : request'[u] \in {request[u], NoRequest}
               /\ request' \in [Tabs -> Request]
               /\ orphans' \subseteq orphans
               /\ UNCHANGED <<rows, seq, horizon, reply, issued, landed, faults>>
    <3>1. request[t].tab = t /\ request[t].db = DbOf[t]
      BY <2>1 DEF TakeRequest, ServerInv, Routing, Sent
    <3>2. request[t].cursor <= issued[TenantOf[DbOf[t]]]
      BY <3>1 DEF ServerInv, Cursors, Sent
    <3>3. QED
      BY <1>1, <2>1, <3>1, <3>2, NoneTypes DEF TakeRequest, Sent
  <2>2. ASSUME NEW r \in orphans,
               tx' = [tx EXCEPT ![TenantOf[r.db]] = Opened(r)],
               orphans' = orphans \ {r},
               UNCHANGED <<rows, seq, horizon, request, reply, issued, landed, faults>>
        PROVE  /\ r.cursor <= issued[TenantOf[r.db]]
               /\ r.tab = Nobody
               /\ \A u \in Tabs : request'[u] \in {request[u], NoRequest}
               /\ request' \in [Tabs -> Request]
               /\ orphans' \subseteq orphans
    BY <1>1, <2>2 DEF ServerInv, Routing, Cursors
  <2>3. CASE \E t \in Tabs : TakeRequest(t)
    <3>1. PICK t \in Tabs : TakeRequest(t)
      BY <2>3
    <3>2. request[t] \in Request
      BY <1>1
    <3>3. QED BY <2>1, <3>1, <3>2
  <2>4. CASE TakeOrphan
    <3>1. PICK r \in orphans :
            /\ tx' = [tx EXCEPT ![TenantOf[r.db]] = Opened(r)]
            /\ orphans' = orphans \ {r}
            /\ UNCHANGED <<rows, seq, horizon, request, reply, issued, landed, faults>>
      BY <2>4 DEF TakeOrphan
    <3>2. r \in Request
      BY <1>1
    <3>3. QED BY <2>2, <3>1, <3>2
  <2>5. QED BY <2>3, <2>4
<1> DEFINE n == TenantOf[r.db]
           x == Opened(r)
<1>3. n \in Tenants
  BY <1>1, <1>2 DEF Request
<1>4. /\ x \in Transaction
      /\ x.tab = r.tab /\ x.db = r.db /\ x.cursor = r.cursor
      /\ x.writes = [i \in Ids |-> NoRow] /\ x.passed = {}
      /\ x.absent = {i \in Ids : ~Exists(rows[i])}
  BY NoneTypes, <1>2 DEF Opened, Transaction, Request, NoTx
<1>5. x.open = TRUE
  BY NoneTypes DEF Opened, Transaction, NoTx
<1>6. \A i \in Ids : ~Exists(x.writes[i]) /\ x.writes[i].ver = 0
  BY <1>4 DEF Exists, NoRow
<1> HIDE DEF n, x
<1>7. \A o \in Tenants : tx'[o] = IF o = n THEN x ELSE tx[o]
  BY <1>1, <1>2, <1>3 DEF n, x
<1>8. ServerTypeOK'
  <2>1. tx' \in [Tenants -> Transaction]
    BY <1>1, <1>2, <1>3, <1>4 DEF n, x
  <2>2. QED
    BY <1>1, <1>2, <2>1 DEF ServerTypeOK
<1>9. NoRequest.tab = Nobody
  BY DEF NoRequest
<1>10. Routing'
  <2>1. ASSUME NEW t \in Tabs
        PROVE  /\ request'[t].tab \in {t, Nobody}
               /\ Sent(t)' => request'[t].db = DbOf[t]
    BY <1>2, <1>9, NamesAssumption DEF ServerInv, Routing, Sent
  <2>2. ASSUME NEW o \in Tenants
        PROVE  /\ ~tx'[o].open => tx'[o] = NoTx
               /\ tx'[o].open => TenantOf[tx'[o].db] = o
               /\ \A t \in Tabs : Served(o, t)' => tx'[o].db = DbOf[t]
    <3>1. CASE o = n
      BY <3>1, <1>2, <1>4, <1>5, <1>7, NamesAssumption DEF Served, n
    <3>2. CASE o # n
      BY <3>2, <1>7 DEF ServerInv, Routing, Served
    <3>3. QED BY <3>1, <3>2
  <2>3. \A o \in orphans' : o.tab = Nobody
    BY <1>2 DEF ServerInv, Routing
  <2>4. QED BY <2>1, <2>2, <2>3 DEF Routing
<1>11. SeqAhead'
  <2>1. seq \in Nat
    BY <1>1 DEF ServerTypeOK
  <2>2. QED BY <1>2, <1>6, <1>7, <2>1 DEF ServerInv, SeqAhead
<1>12. WritesAhead' /\ Isolation' /\ Checked'
  <2>1. WritesAhead' /\ Isolation'
    BY <1>2, <1>6, <1>7 DEF ServerInv, WritesAhead, Isolation, Exists
  <2>2. ASSUME NEW o \in Tenants, NEW i \in Ids, tx'[o].open
        PROVE  /\ ~Exists(rows[i]) => i \in tx'[o].absent
               /\ (/\ Exists(tx'[o].writes[i]) \/ i \in tx'[o].passed
                   /\ Exists(rows[i]) /\ rows[i].tenant # o) => i \in tx'[o].absent
    <3>1. CASE o = n
      BY <3>1, <1>4, <1>6, <1>7
    <3>2. CASE o # n
      BY <2>2, <3>2, <1>7 DEF ServerInv, Checked
    <3>3. QED BY <3>1, <3>2
  <2>3. QED
    BY <2>1, <2>2, <1>2 DEF Checked, Exists
<1>13. Cursors'
  <2>1. \A o \in Tenants : issued[o] <= seq /\ tx'[o].cursor <= issued[o]
    BY <1>2, <1>4, <1>7 DEF ServerInv, Cursors, n
  <2>2. \A t \in Tabs : Sent(t)' => request'[t].cursor <= issued[TenantOf[DbOf[t]]]
    BY <1>2, <1>9, NamesAssumption DEF ServerInv, Cursors, Sent
  <2>3. QED
    BY <1>2, <2>1, <2>2 DEF ServerInv, Cursors
<1>14. PageComplete' /\ PageRows'
  BY <1>2 DEF ServerInv, PageComplete, PageRows, Exists
<1>15. OneAnswer'
  <2>1. ASSUME NEW t \in Tabs PROVE Sent(t)' => Sent(t) /\ ~Replied(t)' /\ t # r.tab
    BY <1>2, <1>9, NamesAssumption DEF ServerInv, OneAnswer, Sent, Replied
  <2>2. ASSUME NEW t \in Tabs, NEW o \in Tenants, Served(o, t)'
        PROVE  ~Sent(t)' /\ ~Replied(t)'
    <3>1. CASE o = n
      <4>1. r.tab = t
        BY <2>2, <3>1, <1>4, <1>7 DEF Served
      <4>2. QED
        BY <4>1, <1>2, <1>9, NamesAssumption DEF ServerInv, OneAnswer, Sent, Replied
    <3>2. CASE o # n
      <4>1. Served(o, t)
        BY <2>2, <3>2, <1>7 DEF Served
      <4>2. QED
        BY <4>1, <2>1, <1>2 DEF ServerInv, OneAnswer, Replied
    <3>3. QED BY <3>1, <3>2
  <2>3. QED BY <2>1, <2>2 DEF OneAnswer
<1>16. QED
  BY <1>8, <1>10, <1>11, <1>12, <1>13, <1>14, <1>15 DEF ServerInv

(* Applying a mutation: writes are stamped ahead of every cursor.            *)
LEMMA ApplyStep ==
    ASSUME ServerInv, NEW n \in Tenants, ApplyMutation(n)
    PROVE  ServerInv'
<1>1. /\ ServerTypeOK /\ tx \in [Tenants -> Transaction] /\ seq \in Nat
      /\ issued \in [Tenants -> Nat] /\ rows \in [Ids -> Row]
  BY DEF ServerInv, ServerTypeOK
<1> DEFINE x == tx'[n]
<1>2. PICK m \in tx[n].todo : Effect(n, m, x, seq')
  BY ApplyEffect
<1>3. /\ tx' = [tx EXCEPT ![n] = x]
      /\ UNCHANGED <<rows, horizon, request, orphans, reply, issued, landed, faults>>
  BY ApplyEffect
<1>4. /\ x \in Transaction /\ seq' \in Nat /\ seq <= seq'
      /\ x.tab = tx[n].tab /\ x.db = tx[n].db /\ x.cursor = tx[n].cursor
      /\ x.absent = tx[n].absent /\ \A i \in x.passed : Came(n, i)
      /\ \A i \in Ids : x.writes[i] = tx[n].writes[i] \/ Fresh(n, i, x.writes[i], seq')
  BY <1>2 DEF Effect, Grown
<1>5. x.open /\ tx[n].open
  BY <1>2 DEF Effect, ApplyMutation
<1>6. \A o \in Tenants : tx'[o] = IF o = n THEN x ELSE tx[o]
  BY <1>1, <1>3
<1> HIDE DEF x
<1>7. ServerTypeOK'
  <2>1. tx' \in [Tenants -> Transaction]
    BY <1>1, <1>3, <1>4
  <2>2. QED
    BY <1>1, <1>3, <1>4, <2>1 DEF ServerTypeOK
<1>8. Routing'
  <2>1. ASSUME NEW o \in Tenants
        PROVE  /\ ~tx'[o].open => tx'[o] = NoTx
               /\ tx'[o].open => TenantOf[tx'[o].db] = o
               /\ \A t \in Tabs : Served(o, t)' => tx'[o].db = DbOf[t]
    BY <1>4, <1>5, <1>6 DEF ServerInv, Routing, Served
  <2>2. QED BY <2>1, <1>3 DEF ServerInv, Routing, Sent
<1>9. \A o \in Tenants, i \in Ids : tx[o].writes[i].ver \in Nat /\ rows[i].ver \in Nat
  BY <1>1 DEF Transaction, Row
<1>10. \A i \in Ids : x.writes[i].ver \in Nat
  BY <1>4 DEF Transaction, Row
<1>11. SeqAhead'
  <2>1. \A i \in Ids : x.writes[i].ver <= seq'
    <3>1. \A i \in Ids : tx[n].writes[i].ver <= seq
      BY DEF ServerInv, SeqAhead
    <3>2. QED BY <3>1, <1>1, <1>4, <1>9 DEF Fresh
  <2>2. QED
    BY <2>1, <1>1, <1>3, <1>4, <1>6, <1>9 DEF ServerInv, SeqAhead
<1>12. WritesAhead'
  <2>1. issued[n] <= seq /\ issued[n] \in Nat
    BY <1>1 DEF ServerInv, Cursors
  <2>2. ASSUME NEW i \in Ids, Fresh(n, i, x.writes[i], seq')
        PROVE  /\ x.writes[i].ver > issued[n] /\ x.writes[i].ver > rows[i].ver
               /\ x.writes[i].by = n
    <3>1. rows[i].ver <= seq
      BY DEF ServerInv, SeqAhead
    <3>2. QED
      BY <2>1, <2>2, <3>1, <1>1, <1>9, <1>10 DEF Fresh
  <2>3. QED
    BY <2>2, <1>3, <1>4, <1>6 DEF ServerInv, WritesAhead, Exists
<1>13. Isolation' /\ Checked'
  <2>1. ASSUME NEW i \in Ids, Exists(x.writes[i])
        PROVE  /\ x.writes[i].tenant = Owner(n, i) /\ Came(n, i)
               /\ \A o \in Tenants \ {n} : ~Exists(tx[o].writes[i])
    <3>1. CASE x.writes[i] = tx[n].writes[i]
      BY <2>1, <3>1, <1>5 DEF ServerInv, Isolation, Checked, Owner, Came
    <3>2. CASE Fresh(n, i, x.writes[i], seq')
      BY <3>2 DEF Fresh
    <3>3. QED BY <3>1, <3>2, <1>4
  <2>2. ASSUME NEW o \in Tenants, NEW i \in Ids, Exists(tx'[o].writes[i])
        PROVE  /\ tx'[o].writes[i].tenant = Owner(o, i)
               /\ \A q \in Tenants \ {o} : ~Exists(tx'[q].writes[i])
    <3>1. CASE o = n
      BY <3>1, <2>1, <2>2, <1>6
    <3>2. CASE o # n
      BY <3>2, <2>1, <2>2, <1>6 DEF ServerInv, Isolation, Owner
    <3>3. QED BY <3>1, <3>2
  <2>3. Isolation'
    BY <2>2, <1>3 DEF Isolation, Exists, Owner
  <2>4. ASSUME NEW o \in Tenants, NEW i \in Ids, tx'[o].open
        PROVE  /\ ~Exists(rows[i]) => i \in tx'[o].absent
               /\ (/\ Exists(tx'[o].writes[i]) \/ i \in tx'[o].passed
                   /\ Exists(rows[i]) /\ rows[i].tenant # o) => i \in tx'[o].absent
    <3>1. CASE o = n
      <4>1. ~Exists(rows[i]) => i \in tx[n].absent
        BY <1>5 DEF ServerInv, Checked
      <4>2. QED
        BY <3>1, <4>1, <2>1, <1>4, <1>6 DEF Came
    <3>2. CASE o # n
      BY <2>4, <3>2, <1>6 DEF ServerInv, Checked
    <3>3. QED BY <3>1, <3>2
  <2>5. QED
    BY <2>3, <2>4, <1>3 DEF Checked, Exists
<1>14. Cursors'
  <2>1. \A o \in Tenants : issued[o] <= seq' /\ tx'[o].cursor <= issued[o]
    <3>1. \A o \in Tenants : issued[o] <= seq /\ tx[o].cursor <= issued[o] /\ issued[o] \in Nat
      BY <1>1 DEF ServerInv, Cursors
    <3>2. QED BY <3>1, <1>1, <1>4, <1>6
  <2>2. QED
    BY <2>1, <1>3 DEF ServerInv, Cursors, Sent
<1>15. PageComplete' /\ PageRows'
  BY <1>3 DEF ServerInv, PageComplete, PageRows, Exists
<1>16. OneAnswer'
  BY <1>3, <1>4, <1>5, <1>6 DEF ServerInv, OneAnswer, Sent, Served, Replied
<1>17. QED
  BY <1>7, <1>8, <1>11, <1>12, <1>13, <1>14, <1>15, <1>16 DEF ServerInv

(* The end of a transaction, committed or not, with an answer that keeps     *)
(* the invariant's promises about answers.                                   *)
LEMMA CloseStep ==
    ASSUME ServerInv, NEW n \in Tenants, tx[n].open,
           NEW r \in Reply, Answer(n, r),
           rows' = rows \/ rows' = [i \in Ids |-> View(n, i)],
           UNCHANGED <<seq, horizon, request, orphans>>,
           issued' \in [Tenants -> Nat],
           \A o \in Tenants \ {n} : issued'[o] = issued[o],
           issued[n] <= issued'[n], issued'[n] <= seq,
           landed' \in [Dbs -> SUBSET Nat], faults' \in Nat,
           r.base <= r.cursor, r.cursor <= issued'[n],
           r.kind = "ok" =>
             \A i \in Ids : (Exists(rows'[i]) /\ rows'[i].tenant = n) =>
               /\ (r.base < rows'[i].ver /\ rows'[i].ver <= r.cursor) => r.page[i] = rows'[i]
               /\ Exists(r.page[i]) => rows'[i].ver > r.base
    PROVE  ServerInv'
<1>1. /\ ServerTypeOK /\ tx \in [Tenants -> Transaction] /\ seq \in Nat
      /\ issued \in [Tenants -> Nat] /\ rows \in [Ids -> Row] /\ reply \in [Tabs -> Reply]
  BY DEF ServerInv, ServerTypeOK
<1>2. \A o \in Tenants : tx'[o] = IF o = n THEN NoTx ELSE tx[o]
  BY <1>1 DEF Answer
<1>3. \A t \in Tabs : reply'[t] = IF t = tx[n].tab THEN r ELSE reply[t]
  BY DEF Answer
<1>4. \A i \in Ids : rows'[i] \in Row
  BY <1>1, ViewType DEF ServerInv
<1>5. \A i \in Ids : rows'[i].ver <= seq
  BY <1>1, ViewType DEF ServerInv, SeqAhead
<1>6. /\ NoTx.open = FALSE /\ NoTx.cursor = 0 /\ NoTx.tab = Nobody
      /\ \A i \in Ids : NoTx.writes[i].ver = 0 /\ ~Exists(NoTx.writes[i])
  BY DEF NoTx, NoRow, Exists
<1>7. \A t \in Tabs : t = tx[n].tab => TenantOf[DbOf[t]] = n
  BY DEF ServerInv, Routing, Served
<1>8. \A t \in Tabs : TenantOf[DbOf[t]] \in Tenants
  BY NamesAssumption
<1>9. \A o \in Tenants : issued[o] <= issued'[o] /\ issued'[o] <= seq /\ issued[o] \in Nat
                         /\ issued'[o] \in Nat
  BY <1>1 DEF ServerInv, Cursors
<1>10. ServerTypeOK'
  <2>1. tx' \in [Tenants -> Transaction] /\ reply' \in [Tabs -> Reply]
    BY <1>1, NoneTypes DEF Answer
  <2>2. rows' \in [Ids -> Row]
    BY <1>1, <1>4
  <2>3. QED
    BY <1>1, <2>1, <2>2 DEF ServerTypeOK
<1>11. Routing'
  <2>1. ASSUME NEW o \in Tenants
        PROVE  /\ ~tx'[o].open => tx'[o] = NoTx
               /\ tx'[o].open => TenantOf[tx'[o].db] = o
               /\ \A t \in Tabs : Served(o, t)' => tx'[o].db = DbOf[t]
    BY <1>2, <1>6 DEF ServerInv, Routing, Served
  <2>2. QED BY <2>1 DEF ServerInv, Routing, Sent
<1>12. SeqAhead'
  BY <1>1, <1>2, <1>5, <1>6 DEF ServerInv, SeqAhead
<1>13. ASSUME NEW o \in Tenants, NEW i \in Ids, Exists(tx'[o].writes[i])
       PROVE  o # n /\ tx'[o] = tx[o] /\ rows'[i] = rows[i]
  <2>1. o # n /\ tx'[o] = tx[o]
    BY <1>13, <1>2, <1>6
  <2>2. ~Exists(tx[n].writes[i])
    BY <1>13, <2>1 DEF ServerInv, Isolation
  <2>3. QED BY <2>1, <2>2 DEF View
<1>14. WritesAhead' /\ Isolation' /\ Checked'
  <2>1. ASSUME NEW o \in Tenants, NEW i \in Ids, Exists(tx'[o].writes[i])
        PROVE  /\ tx'[o].writes[i].ver > issued'[o]
               /\ tx'[o].writes[i].ver > rows'[i].ver
               /\ tx'[o].writes[i].by = o
               /\ tx'[o].writes[i].tenant = IF Exists(rows'[i]) THEN rows'[i].tenant ELSE o
               /\ \A q \in Tenants \ {o} : ~Exists(tx'[q].writes[i])
    <3>1. o # n /\ tx'[o] = tx[o] /\ rows'[i] = rows[i] /\ issued'[o] = issued[o]
      BY <2>1, <1>13
    <3>2. QED
      BY <2>1, <3>1, <1>2, <1>6 DEF ServerInv, WritesAhead, Isolation
  <2>2. WritesAhead' /\ Isolation'
    BY <2>1 DEF WritesAhead, Isolation, Exists
  <2>3. ASSUME NEW o \in Tenants, NEW i \in Ids, tx'[o].open
        PROVE  /\ ~Exists(rows'[i]) => i \in tx'[o].absent
               /\ (/\ Exists(tx'[o].writes[i]) \/ i \in tx'[o].passed
                   /\ Exists(rows'[i]) /\ rows'[i].tenant # o) => i \in tx'[o].absent
    <3>1. o # n /\ tx'[o] = tx[o] /\ tx[o].open
      BY <2>3, <1>2, <1>6
    <3>2. Exists(rows[i]) => Exists(rows'[i]) /\ rows'[i].tenant = rows[i].tenant
      BY ViewOwner DEF Owner
    <3>3. QED
      BY <3>1, <3>2 DEF ServerInv, Checked
  <2>4. QED
    BY <2>2, <2>3 DEF Checked, Exists
<1>15. Cursors'
  <2>1. \A o \in Tenants : issued'[o] <= seq /\ tx'[o].cursor <= issued'[o]
    <3>1. \A o \in Tenants : tx[o].cursor \in Nat /\ tx[o].cursor <= issued[o]
      BY <1>1 DEF ServerInv, Cursors, Transaction
    <3>2. QED BY <3>1, <1>1, <1>2, <1>6, <1>9
  <2>3. \A t \in Tabs : Sent(t) => request[t].cursor <= issued'[TenantOf[DbOf[t]]]
    <3>1. \A t \in Tabs : request[t].cursor \in Nat
      BY <1>1 DEF ServerTypeOK, Request
    <3>2. QED BY <3>1, <1>8, <1>9 DEF ServerInv, Cursors
  <2>4. \A q \in orphans : q.cursor <= issued'[TenantOf[q.db]]
    <3>1. \A q \in orphans : q.cursor \in Nat /\ TenantOf[q.db] \in Tenants
      BY <1>1, NamesAssumption DEF ServerTypeOK, Request
    <3>2. QED BY <3>1, <1>9 DEF ServerInv, Cursors
  <2>5. \A t \in Tabs : /\ reply'[t].base <= reply'[t].cursor
                        /\ reply'[t].cursor <= issued'[TenantOf[DbOf[t]]]
    <3>1. \A t \in Tabs : reply[t].cursor \in Nat /\ reply[t].base \in Nat
      BY <1>1 DEF Reply
    <3>2. QED BY <3>1, <1>3, <1>7, <1>8, <1>9 DEF ServerInv, Cursors
  <2>6. QED
    BY <2>1, <2>3, <2>4, <2>5 DEF Cursors, Sent
<1>16. ASSUME NEW t \in Tabs, reply'[t].kind = "ok", NEW i \in Ids,
              Exists(rows'[i]), rows'[i].tenant = TenantOf[DbOf[t]]
       PROVE  /\ (/\ rows'[i].by = rows'[i].tenant
                  /\ reply'[t].base < rows'[i].ver
                  /\ rows'[i].ver <= reply'[t].cursor) => reply'[t].page[i] = rows'[i]
              /\ Exists(reply'[t].page[i]) => rows'[i].ver > reply'[t].base
  <2>1. CASE t = tx[n].tab
    BY <2>1, <1>3, <1>7, <1>16
  <2>2. CASE t # tx[n].tab
    <3>1. reply'[t] = reply[t]
      BY <2>2, <1>3
    <3>2. CASE rows'[i] = rows[i]
      BY <3>1, <3>2, <1>16 DEF ServerInv, PageComplete, PageRows
    <3>3. CASE rows'[i] # rows[i]
      <4>1. Exists(tx[n].writes[i]) /\ rows'[i] = tx[n].writes[i]
        BY <3>3 DEF View
      <4>2. rows'[i].by = n /\ rows'[i].ver > issued[n] /\ rows'[i].ver > rows[i].ver
        BY <4>1 DEF ServerInv, WritesAhead
      <4>3. /\ reply[t].base \in Nat /\ reply[t].cursor \in Nat
            /\ issued[n] \in Nat /\ rows'[i].ver \in Nat /\ rows[i].ver \in Nat
        BY <1>1, <1>4 DEF Reply, Row
      <4>4. CASE rows'[i].tenant = n
        <5>1. reply[t].base <= reply[t].cursor /\ reply[t].cursor <= issued[n]
          BY <4>4, <1>16 DEF ServerInv, Cursors
        <5>2. QED BY <3>1, <4>2, <4>3, <5>1
      <4>5. CASE rows'[i].tenant # n
        <5>1. Exists(rows[i]) /\ rows[i].tenant = rows'[i].tenant
          BY <4>1, <4>5, ViewOwner DEF View, Owner
        <5>2. Exists(reply[t].page[i]) => rows[i].ver > reply[t].base
          BY <5>1, <3>1, <1>16 DEF ServerInv, PageRows
        <5>3. QED BY <3>1, <4>2, <4>3, <4>5, <5>2
      <4>6. QED BY <4>4, <4>5
    <3>4. QED BY <3>2, <3>3
  <2>3. QED BY <2>1, <2>2
<1>17. PageComplete' /\ PageRows'
  BY <1>16 DEF PageComplete, PageRows, Exists
<1>18. OneAnswer'
  <2>1. ASSUME NEW t \in Tabs, t = tx[n].tab
        PROVE  ~Sent(t)' /\ \A o \in Tenants : ~Served(o, t)'
    <3>1. Served(n, t) /\ ~Sent(t)'
      BY <2>1 DEF ServerInv, OneAnswer, Served, Sent
    <3>2. ASSUME NEW o \in Tenants \ {n} PROVE ~Served(o, t)
      BY <1>7, <2>1 DEF ServerInv, Routing, Served
    <3>3. QED BY <3>1, <3>2, <1>2, <1>6 DEF Served
  <2>2. ASSUME NEW t \in Tabs, t # tx[n].tab
        PROVE  /\ reply'[t] = reply[t]
               /\ \A o \in Tenants : Served(o, t)' => Served(o, t)
    BY <2>2, <1>2, <1>3, <1>6 DEF Served
  <2>3. QED BY <2>1, <2>2 DEF ServerInv, OneAnswer, Sent, Replied
<1>19. QED
  BY <1>10, <1>11, <1>12, <1>14, <1>15, <1>17, <1>18 DEF ServerInv

(* The answers: a page, the order to start over, an error.                   *)
LEMMA FinishSteps ==
    ASSUME ServerInv, NEW n \in Tenants,
           FinishPull(n) \/ FinishResync(n) \/ FinishBroken(n) \/ Rollback(n)
    PROVE  ServerInv'
<1>1. /\ ServerTypeOK /\ SeqAhead /\ tx[n] \in Transaction /\ seq \in Nat
      /\ issued \in [Tenants -> Nat] /\ landed \in [Dbs -> SUBSET Nat] /\ faults \in Nat
      /\ tx[n].cursor \in Nat /\ tx[n].db \in Dbs
      /\ tx[n].applied \in SUBSET Nat /\ tx[n].rejected \in SUBSET Nat
  BY DEF ServerInv, ServerTypeOK, Transaction
<1>2. tx[n].cursor <= issued[n] /\ issued[n] <= seq /\ issued[n] \in Nat
  BY <1>1 DEF ServerInv, Cursors
<1>3. tx[n].cursor <= seq
  BY <1>1, <1>2
<1>4. tx[n].open
  BY DEF FinishPull, FinishResync, FinishBroken, Rollback
<1>5. Commit(n) => /\ landed' \in [Dbs -> SUBSET Nat]
                   /\ rows' = [i \in Ids |-> View(n, i)]
  BY <1>1 DEF Commit
<1>6. CASE FinishPull(n)
  <2> DEFINE c == NextCursor(n)
             r == PullReply(n)
  <2>1. /\ c \in Nat /\ tx[n].cursor <= c /\ c <= seq
        /\ \A i \in Ids :
             (/\ View(n, i).tenant = n
              /\ tx[n].cursor < View(n, i).ver /\ View(n, i).ver <= c)
                => i \in Page(n, Projects) \cup Page(n, Tasks)
    BY <1>1, <1>3, NextCursorLemma
  <2>2. \A i \in Ids : View(n, i) \in Row /\ View(n, i).ver \in Nat
    BY <1>1, ViewType
  <2>3. /\ r.kind = "ok" /\ r.cursor = c /\ r.base = tx[n].cursor
        /\ \A i \in Ids : r.page[i] = IF i \in Page(n, Projects) \cup Page(n, Tasks)
                                      THEN View(n, i) ELSE NoRow
    BY DEF PullReply
  <2>4. r \in Reply
    <3>1. [i \in Ids |-> IF i \in Page(n, Projects) \cup Page(n, Tasks)
                         THEN View(n, i) ELSE NoRow] \in [Ids -> Row]
      BY <2>2, NoneTypes
    <3>2. (Truncated(n, Projects) \/ Truncated(n, Tasks)) \in BOOLEAN
      OBVIOUS
    <3>3. QED BY <1>1, <2>1, <3>1, <3>2 DEF PullReply, Reply
  <2> HIDE DEF c, r
  <2>5. /\ issued' = [issued EXCEPT ![n] = Larger(@, c)]
        /\ Answer(n, r) /\ Commit(n)
        /\ UNCHANGED <<seq, horizon, request, orphans, faults>>
    BY <1>6 DEF FinishPull, c, r
  <2>6. /\ issued' \in [Tenants -> Nat]
        /\ \A o \in Tenants \ {n} : issued'[o] = issued[o]
        /\ issued[n] <= issued'[n] /\ issued'[n] <= seq /\ c <= issued'[n]
    BY <1>1, <1>2, <2>1, <2>5 DEF Larger
  <2>7. ASSUME NEW i \in Ids, Exists(rows'[i]), rows'[i].tenant = n
        PROVE  /\ (r.base < rows'[i].ver /\ rows'[i].ver <= r.cursor) => r.page[i] = rows'[i]
               /\ Exists(r.page[i]) => rows'[i].ver > r.base
    <3>1. rows'[i] = View(n, i)
      BY <1>5, <2>5
    <3>2. (r.base < rows'[i].ver /\ rows'[i].ver <= r.cursor) => r.page[i] = rows'[i]
      BY <3>1, <2>1, <2>3, <2>7
    <3>3. Exists(r.page[i]) => i \in Page(n, Projects) \cup Page(n, Tasks)
      BY <2>3 DEF Exists, NoRow
    <3>4. i \in Page(n, Projects) \cup Page(n, Tasks) => View(n, i).ver > tx[n].cursor
      BY DEF Page, Changed
    <3>5. QED BY <3>1, <3>2, <3>3, <3>4, <2>3
  <2>8. landed' \in [Dbs -> SUBSET Nat] /\ faults' \in Nat
    BY <1>1, <1>5, <2>5
  <2>9. r.base <= r.cursor /\ r.cursor <= issued'[n]
    BY <2>1, <2>3, <2>6
  <2>10. QED
    BY <1>4, <1>5, <2>4, <2>5, <2>6, <2>7, <2>8, <2>9, CloseStep
<1>7. CASE FinishResync(n)
  <2> DEFINE r == ResyncReply(n)
  <2>1. /\ r \in Reply /\ r.kind = "resync"
        /\ r.cursor = tx[n].cursor /\ r.base = tx[n].cursor
    BY <1>1, NoneTypes DEF ResyncReply, Reply
  <2> HIDE DEF r
  <2>2. /\ Answer(n, r) /\ Commit(n)
        /\ UNCHANGED <<seq, horizon, request, orphans, issued, faults>>
    BY <1>7 DEF FinishResync, r
  <2>3. /\ r.base <= r.cursor /\ r.cursor <= issued'[n]
        /\ issued[n] <= issued'[n] /\ issued'[n] <= seq
    BY <1>1, <1>2, <2>1, <2>2
  <2>4. QED
    BY <1>1, <1>4, <1>5, <2>1, <2>2, <2>3, CloseStep
<1>8. CASE FinishBroken(n) \/ Rollback(n)
  <2> DEFINE r == ErrorReply
  <2>1. r \in Reply /\ r.kind = "error" /\ r.cursor = 0 /\ r.base = 0
    BY NoneTypes DEF ErrorReply, NoReply, Reply
  <2> HIDE DEF r
  <2>2. /\ Answer(n, r)
        /\ UNCHANGED <<rows, seq, horizon, request, orphans, issued, landed>>
        /\ faults' \in Nat
    BY <1>1, <1>8 DEF FinishBroken, Rollback, r
  <2>3. /\ r.base <= r.cursor /\ r.cursor <= issued'[n]
        /\ issued[n] <= issued'[n] /\ issued'[n] <= seq
    BY <1>1, <1>2, <2>1, <2>2
  <2>4. QED
    BY <1>1, <1>4, <2>1, <2>2, <2>3, CloseStep
<1>9. QED BY <1>6, <1>7, <1>8

(* The collector removes rows and changes none.                              *)
LEMMA CollectStep ==
    ASSUME ServerInv, CollectTombstones
    PROVE  ServerInv'
<1>1. ServerTypeOK /\ rows \in [Ids -> Row] /\ seq \in Nat /\ horizon \in Nat
  BY DEF ServerInv, ServerTypeOK
<1>2. UNCHANGED <<seq, tx, request, orphans, reply, issued, landed, faults>>
  BY DEF CollectTombstones
<1>3. PICK k \in {i \in Ids : rows[i].deleted} :
        /\ rows' = [i \in Ids |-> IF \/ i \in Collected(rows[k].ver)
                                     \/ rows[i].parent \in Collected(rows[k].ver)
                                  THEN NoRow ELSE rows[i]]
        /\ horizon' = Larger(horizon, rows[k].ver)
  BY DEF CollectTombstones
<1>4. \A i \in Ids : rows'[i] = rows[i] \/ rows'[i] = NoRow
  BY <1>3
<1>5. NoRow.ver = 0 /\ ~Exists(NoRow)
  BY DEF NoRow, Exists
<1>6. ServerTypeOK'
  <2>1. rows' \in [Ids -> Row]
    BY <1>1, <1>3, NoneTypes
  <2>2. horizon' \in Nat
    BY <1>1, <1>3 DEF Larger, Row
  <2>3. QED
    BY <1>1, <1>2, <2>1, <2>2 DEF ServerTypeOK
<1>7. Routing' /\ Cursors'
  BY <1>2 DEF ServerInv, Routing, Cursors, Sent, Served
<1>8. SeqAhead'
  BY <1>1, <1>2, <1>4, <1>5 DEF ServerInv, SeqAhead
<1>9. \A n \in Tenants : ~tx[n].open /\ \A i \in Ids : ~Exists(tx[n].writes[i])
  <2>1. \A n \in Tenants : ~tx[n].open /\ tx[n] = NoTx
    BY DEF CollectTombstones, ServerInv, Routing
  <2>2. \A i \in Ids : ~Exists(NoTx.writes[i])
    BY <1>5 DEF NoTx
  <2>3. QED BY <2>1, <2>2
<1>10. WritesAhead' /\ Isolation' /\ Checked'
  BY <1>2, <1>9 DEF WritesAhead, Isolation, Checked, Exists
<1>11. PageComplete' /\ PageRows'
  BY <1>2, <1>4, <1>5 DEF ServerInv, PageComplete, PageRows, Exists
<1>12. OneAnswer'
  BY <1>2 DEF ServerInv, OneAnswer, Sent, Served, Replied
<1>13. QED
  BY <1>6, <1>7, <1>8, <1>9, <1>10, <1>11, <1>12 DEF ServerInv

-----------------------------------------------------------------------------
(* The theorems about the endpoint, whatever its callers send.               *)

(* The invariant holds in the initial states.                                *)
LEMMA ServerInvInit == ServerInit => ServerInv
<1> SUFFICES ASSUME ServerInit PROVE ServerInv
  OBVIOUS
<1>1. ServerTypeOK
  BY NoneTypes DEF ServerInit, ServerTypeOK
<1>2. /\ NoTx.open = FALSE /\ NoTx.cursor = 0 /\ NoTx.tab = Nobody
      /\ \A i \in Ids : NoTx.writes[i] = NoRow
  BY DEF NoTx
<1>3. NoRow.ver = 0 /\ ~Exists(NoRow)
  BY DEF NoRow, Exists
<1>4. NoRequest.tab = Nobody
  BY DEF NoRequest
<1>5. NoReply.kind = "none" /\ NoReply.cursor = 0 /\ NoReply.base = 0
  BY DEF NoReply
<1>6. /\ \A n \in Tenants : tx[n] = NoTx /\ issued[n] = 0
      /\ \A t \in Tabs : request[t] = NoRequest /\ reply[t] = NoReply
      /\ \A i \in Ids : rows[i] = NoRow
      /\ \A t \in Tabs : DbOf[t] \in Dbs /\ TenantOf[DbOf[t]] \in Tenants
      /\ seq = 0 /\ orphans = {}
  BY NamesAssumption DEF ServerInit
<1>7. Routing
  BY <1>2, <1>4, <1>6, NamesAssumption DEF Routing, Sent, Served
<1>8. SeqAhead /\ WritesAhead /\ Isolation /\ Checked
  BY <1>2, <1>3, <1>6 DEF SeqAhead, WritesAhead, Isolation, Checked
<1>9. Cursors
  BY <1>2, <1>4, <1>5, <1>6, NamesAssumption DEF Cursors, Sent
<1>10. PageComplete /\ PageRows
  BY <1>5, <1>6 DEF PageComplete, PageRows
<1>11. OneAnswer
  BY <1>2, <1>4, <1>5, <1>6, NamesAssumption DEF OneAnswer, Sent, Served, Replied
<1>12. QED
  BY <1>1, <1>7, <1>8, <1>9, <1>10, <1>11 DEF ServerInv

\* A step of the endpoint and of callers that send any mutations.
Step == EndpointStep(SUBSET Mutation)

(* Every step keeps the invariant: one case per action.                      *)
LEMMA ServerInvNext == ServerInv /\ [Step]_serverVars => ServerInv'
<1> SUFFICES ASSUME ServerInv, [Step]_serverVars PROVE ServerInv'
  OBVIOUS
<1>1. CASE \E t \in Tabs : (\E b \in SUBSET Mutation : Send(t, b)) \/ Receive(t)
  BY <1>1, SendStep, ReceiveStep
<1>2. CASE \E T \in SUBSET Tabs : Abandon(T)
  BY <1>2, AbandonStep
<1>3. CASE ServerStep
  BY <1>3, TakeSteps, ApplyStep, FinishSteps DEF ServerStep
<1>4. CASE \E n \in Tenants : Rollback(n)
  BY <1>4, FinishSteps
<1>5. CASE CollectTombstones
  BY <1>5, CollectStep
<1>6. CASE UNCHANGED serverVars
  <2>1. UNCHANGED <<rows, seq, horizon, tx, request, orphans, reply, issued, landed, faults>>
    BY <1>6 DEF serverVars
  <2>2. ServerTypeOK' /\ Routing' /\ Cursors'
    BY <2>1 DEF ServerInv, ServerTypeOK, Routing, Cursors, Sent, Served
  <2>3. SeqAhead' /\ WritesAhead' /\ Isolation' /\ Checked' /\ PageComplete' /\ PageRows'
    BY <2>1 DEF ServerInv, SeqAhead, WritesAhead, Isolation, Checked, PageComplete,
                PageRows, Exists
  <2>4. OneAnswer'
    BY <2>1 DEF ServerInv, OneAnswer, Sent, Served, Replied
  <2>5. QED BY <2>2, <2>3, <2>4 DEF ServerInv
<1>7. QED
  BY <1>1, <1>2, <1>3, <1>4, <1>5, <1>6 DEF Step, EndpointStep

(* The endpoint's invariant holds in every state, whatever its callers send  *)
(* and whenever they give up (route.ts, server.ts): types, the lock, the     *)
(* sequence, the cursors and the pages.                                      *)
THEOREM EndpointIsSound == EndpointSpec => []ServerInv
<1>1. ServerInit => ServerInv
  BY ServerInvInit
<1>2. ServerInv /\ [Step]_serverVars => ServerInv'
  BY ServerInvNext
<1>3. QED
  BY <1>1, <1>2, PTL DEF EndpointSpec, Step

(* No pulled page has a hole below the cursor it hands out: pullChanges'     *)
(* truncation rules, with any page size, any cursors handed out and any      *)
(* number of concurrent requests of any number of tenants, for the versions  *)
(* that transactions of the tenant itself have stamped.                      *)
THEOREM EndpointPagesAreComplete == EndpointSpec => []PageComplete
<1>1. ServerInv => PageComplete
  BY DEF ServerInv
<1>2. QED
  BY <1>1, EndpointIsSound, PTL

(* A step that changes rows is a commit or a collection.                     *)
LEMMA RowChange ==
    ASSUME ServerInv, Step, rows' # rows
    PROVE  \/ \E n \in Tenants : /\ rows' = [i \in Ids |-> View(n, i)]
                                 /\ \A o \in Tenants \ {n} : tx'[o] = tx[o]
           \/ (\A i \in Ids : rows'[i] \in {rows[i], NoRow}) /\ tx' = tx
<1>1. ServerTypeOK /\ tx \in [Tenants -> Transaction]
  BY DEF ServerInv, ServerTypeOK
<1>2. \A t \in Tabs : ~Receive(t) /\ \A b \in SUBSET Mutation : ~Send(t, b)
  BY DEF Receive, Send
<1>3. \A T \in SUBSET Tabs : ~Abandon(T)
  BY DEF Abandon
<1>4. CASE ServerStep
  <2>1. PICK n \in Tenants : FinishPull(n) \/ FinishResync(n)
    BY <1>4 DEF ServerStep, TakeRequest, TakeOrphan, ApplyMutation, FinishBroken
  <2>2. QED
    BY <1>1, <2>1 DEF FinishPull, FinishResync, Commit, Answer
<1>5. CASE \E n \in Tenants : Rollback(n)
  BY <1>5 DEF Rollback
<1>6. CASE CollectTombstones
  BY <1>6 DEF CollectTombstones
<1>7. QED
  BY <1>2, <1>3, <1>4, <1>5, <1>6 DEF Step, EndpointStep

(* A row that becomes visible is ahead of every cursor its tenant holds.     *)
LEMMA GapSafeStep ==
    ServerInv /\ [Step]_serverVars =>
      [\A i \in Ids :
         (/\ rows'[i] # rows[i] /\ rows'[i].ver > 0
          /\ rows'[i].by = rows'[i].tenant)
            => rows'[i].ver > issued[rows'[i].tenant]]_serverVars
<1> SUFFICES ASSUME ServerInv, Step, NEW i \in Ids, rows'[i] # rows[i], rows'[i].ver > 0,
                    rows'[i].by = rows'[i].tenant
             PROVE  rows'[i].ver > issued[rows'[i].tenant]
  BY DEF serverVars
<1>1. NoRow.ver = 0
  BY DEF NoRow
<1>2. PICK n \in Tenants : rows' = [j \in Ids |-> View(n, j)]
  BY <1>1, RowChange
<1>3. Exists(tx[n].writes[i]) /\ rows'[i] = tx[n].writes[i]
  BY <1>2 DEF View
<1>4. QED
  BY <1>3 DEF ServerInv, WritesAhead

(* A transaction that ends has changed rows of its own tenant only, or such  *)
(* as came up since it began.                                                *)
LEMMA OwnRowsStep ==
    ServerInv /\ [Step]_serverVars =>
      [\A n \in Tenants : \A i \in Ids :
         (tx[n].open /\ ~tx'[n].open /\ rows'[i] # rows[i])
            => /\ rows'[i].tenant # n => i \in tx[n].absent
               /\ Exists(rows[i]) => rows'[i].tenant = rows[i].tenant
               /\ ~Exists(rows[i]) => rows'[i].tenant = n]_serverVars
<1> SUFFICES ASSUME ServerInv, Step, NEW n \in Tenants, NEW i \in Ids,
                    tx[n].open, ~tx'[n].open, rows'[i] # rows[i]
             PROVE  /\ rows'[i].tenant # n => i \in tx[n].absent
                    /\ Exists(rows[i]) => rows'[i].tenant = rows[i].tenant
                    /\ ~Exists(rows[i]) => rows'[i].tenant = n
  BY DEF serverVars
<1>1. rows' = [j \in Ids |-> View(n, j)]
  BY RowChange
<1>2. Exists(tx[n].writes[i]) /\ rows'[i] = tx[n].writes[i]
  BY <1>1 DEF View
<1>3. QED
  BY <1>2 DEF ServerInv, Isolation, Checked

(* No row ever becomes visible at or below a cursor its tenant holds: why a  *)
(* client may pull from its cursor and forget what lies behind (the advisory *)
(* lock of route.ts and the one sequence of the migration), for the versions *)
(* that transactions of the tenant itself have stamped.                      *)
THEOREM EndpointIsGapSafe == EndpointSpec => CursorGapSafe
<1> DEFINE A == \A i \in Ids :
                  (/\ rows'[i] # rows[i] /\ rows'[i].ver > 0
                   /\ rows'[i].by = rows'[i].tenant)
                     => rows'[i].ver > issued[rows'[i].tenant]
<1>1. ServerInv /\ [Step]_serverVars => [A]_serverVars
  BY GapSafeStep
<1>2. QED
  BY <1>1, EndpointIsSound, PTL DEF EndpointSpec, Step, CursorGapSafe

(* A request never takes a row over from another tenant, and changes one of  *)
(* another tenant only if that one was created while the request ran: what   *)
(* the id-conflict checks of applyMutations give, with the check and the     *)
(* write two statements of any interleaving and any ids a caller names.      *)
THEOREM EndpointKeepsTenantsApart == EndpointSpec => OwnRowsOnly
<1> DEFINE A == \A n \in Tenants : \A i \in Ids :
                  (/\ tx[n].open /\ ~tx'[n].open
                   /\ rows'[i] # rows[i])
                     => /\ rows'[i].tenant # n => i \in tx[n].absent
                        /\ Exists(rows[i]) => rows'[i].tenant = rows[i].tenant
                        /\ ~Exists(rows[i]) => rows'[i].tenant = n
<1>1. ServerInv /\ [Step]_serverVars => [A]_serverVars
  BY OwnRowsStep
<1>2. QED
  BY <1>1, EndpointIsSound, PTL DEF EndpointSpec, Step, OwnRowsOnly

-----------------------------------------------------------------------------
(* The real clients in front of the endpoint: module Sync implements module  *)
(* SyncEndpoint.                                                             *)

(* What the data layer queues has the type of an outbox entry.               *)
LEMMA QueuedTypes ==
    ASSUME TypeOK, NEW d \in Dbs, NEW i \in Ids
    PROVE  /\ \A v \in Vals : Upsert(d, i, v) \in Queued
           /\ Delete(d, i) \in Queued
<1>1. nextSeq[d] \in Nat \ {0}
  BY DEF TypeOK
<1>2. (IF i \in Tasks THEN ParentOf[i] ELSE NoProject) \in Projects \cup {NoProject}
  BY ClientAssumption
<1>3. ASSUME NEW v \in Vals PROVE Upsert(d, i, v) \in Queued
  <2>1. Upsert(d, i, v) \in Mutation
    BY <1>1, <1>2 DEF Upsert, Mutation
  <2>2. Upsert(d, i, v).val = v
    BY DEF Upsert
  <2>3. QED BY <2>1, <2>2 DEF Queued
<1>4. Delete(d, i) \in Queued
  <2>1. Delete(d, i) \in Mutation
    BY <1>1 DEF Delete, Mutation
  <2>2. Delete(d, i).op = "delete"
    BY DEF Delete
  <2>3. QED BY <2>1, <2>2 DEF Queued
<1>5. QED BY <1>3, <1>4

(* A write of the data layer keeps the types and touches no other part.      *)
LEMMA LocalWriteType ==
    ASSUME TypeOK, LocalWrite
    PROVE  TypeOK' /\ UNCHANGED <<serverVars, cursor, drain>>
<1> USE DEF TypeOK
<1>1. ASSUME NEW d \in Dbs, NEW i \in Ids, OpenRow(d, i)
      PROVE  TypeOK' /\ UNCHANGED <<serverVars, cursor, drain>>
  BY <1>1 DEF OpenRow, ServerTypeOK, serverVars
<1>2. ASSUME NEW d \in Dbs, NEW m \in Queued, NEW box \in SUBSET Queued, Enqueue(d, m, box)
      PROVE  outbox' \in [Dbs -> SUBSET Queued] /\ nextSeq' \in [Dbs -> Nat \ {0}]
  BY <1>2 DEF Enqueue
<1>3. ASSUME NEW d \in Dbs, NEW p \in Projects, NEW v \in Vals, CreateProject(d, p, v)
      PROVE  TypeOK' /\ UNCHANGED <<serverVars, cursor, drain>>
  <2>1. p \in Ids /\ Upsert(d, p, v) \in Queued /\ v \in RowVals
    BY QueuedTypes DEF Ids, RowVals
  <2>2. outbox' \in [Dbs -> SUBSET Queued] /\ nextSeq' \in [Dbs -> Nat \ {0}]
    BY <1>2, <1>3, <2>1 DEF CreateProject
  <2>3. replica' \in [Dbs -> [Ids -> RowVals]] /\ born' \in SUBSET Ids
    BY <1>3, <2>1 DEF CreateProject
  <2>4. QED
    BY <1>3, <2>2, <2>3 DEF CreateProject, ServerTypeOK, serverVars
<1>4. ASSUME NEW d \in Dbs, NEW k \in Tasks, NEW v \in Vals, AddTask(d, k, v)
      PROVE  TypeOK' /\ UNCHANGED <<serverVars, cursor, drain>>
  <2>1. k \in Ids /\ Upsert(d, k, v) \in Queued /\ v \in RowVals
    BY QueuedTypes DEF Ids, RowVals
  <2>2. outbox' \in [Dbs -> SUBSET Queued] /\ nextSeq' \in [Dbs -> Nat \ {0}]
    BY <1>2, <1>4, <2>1 DEF AddTask
  <2>3. replica' \in [Dbs -> [Ids -> RowVals]] /\ born' \in SUBSET Ids
    BY <1>4, <2>1 DEF AddTask
  <2>4. QED
    BY <1>4, <2>2, <2>3 DEF AddTask, ServerTypeOK, serverVars
<1>5. ASSUME NEW d \in Dbs, NEW i \in Ids, NEW v \in Vals, EditRow(d, i, v)
      PROVE  TypeOK' /\ UNCHANGED <<serverVars, cursor, drain>>
  <2>1. Upsert(d, i, v) \in Queued /\ v \in RowVals
    BY QueuedTypes DEF RowVals
  <2>2. outbox' \in [Dbs -> SUBSET Queued] /\ nextSeq' \in [Dbs -> Nat \ {0}]
    BY <1>2, <1>5, <2>1 DEF EditRow
  <2>3. replica' \in [Dbs -> [Ids -> RowVals]]
    BY <1>5, <2>1 DEF EditRow
  <2>4. QED
    BY <1>5, <2>2, <2>3 DEF EditRow, ServerTypeOK, serverVars
<1>6. ASSUME NEW d \in Dbs, NEW p \in Projects, DeleteProject(d, p)
      PROVE  TypeOK' /\ UNCHANGED <<serverVars, cursor, drain>>
  <2> DEFINE family == {p} \cup {k \in Tasks : ParentOf[k] = p}
  <2>1. p \in Ids /\ Delete(d, p) \in Queued /\ NoVal \in RowVals
    BY QueuedTypes DEF Ids, RowVals
  <2>2. {m \in outbox[d] : m.id \notin family} \in SUBSET Queued
    OBVIOUS
  <2>3. outbox' \in [Dbs -> SUBSET Queued] /\ nextSeq' \in [Dbs -> Nat \ {0}]
    BY <1>2, <1>6, <2>1, <2>2 DEF DeleteProject
  <2>4. replica' \in [Dbs -> [Ids -> RowVals]]
    <3>1. replica' = [replica EXCEPT ![d] =
                        [i \in Ids |-> IF i \in family THEN NoVal ELSE replica[d][i]]]
      BY <1>6 DEF DeleteProject
    <3> HIDE DEF family
    <3>2. [i \in Ids |-> IF i \in family THEN NoVal ELSE replica[d][i]] \in [Ids -> RowVals]
      BY <2>1
    <3>3. QED BY <3>1, <3>2
  <2>5. QED
    BY <1>6, <2>3, <2>4 DEF DeleteProject, ServerTypeOK, serverVars
<1>7. ASSUME NEW d \in Dbs, NEW k \in Tasks, DeleteTask(d, k)
      PROVE  TypeOK' /\ UNCHANGED <<serverVars, cursor, drain>>
  <2>1. k \in Ids /\ Delete(d, k) \in Queued /\ NoVal \in RowVals
    BY QueuedTypes DEF Ids, RowVals
  <2>2. outbox' \in [Dbs -> SUBSET Queued] /\ nextSeq' \in [Dbs -> Nat \ {0}]
    BY <1>2, <1>7, <2>1 DEF DeleteTask
  <2>3. replica' \in [Dbs -> [Ids -> RowVals]]
    BY <1>7, <2>1 DEF DeleteTask
  <2>4. QED
    BY <1>7, <2>2, <2>3 DEF DeleteTask, ServerTypeOK, serverVars
<1>8. QED
  BY <1>1, <1>3, <1>4, <1>5, <1>6, <1>7 DEF LocalWrite

(* The steps of a drain and the failures of a browser keep the types of what *)
(* the browsers keep.                                                        *)
LEMMA BrowserTypes ==
    ASSUME TypeOK, ServerTypeOK',
           \/ \E t \in Tabs : DrainStep(t) \/ StopDrain(t)
           \/ \E d \in Dbs : SignOut(d)
    PROVE  TypeOK'
<1> USE DEF TypeOK
<1>1. EmptyReplica \in [Ids -> RowVals]
  BY DEF EmptyReplica, RowVals
<1>2. ASSUME NEW t \in Tabs, NEW l \in Nat, Post(t, l) PROVE TypeOK'
  <2>1. outbox[DbOf[t]] \in SUBSET Queued
    BY NamesAssumption
  <2>2. [phase |-> "waiting", snap |-> outbox[DbOf[t]], loops |-> l] \in Drain
    BY <2>1 DEF Drain
  <2>3. QED BY <1>2, <2>2 DEF Post
<1>3. ASSUME NEW t \in Tabs, DrainStep(t) PROVE TypeOK'
  <2> DEFINE d == DbOf[t]
  <2>1. d \in Dbs /\ drain[t] \in Drain /\ drain[t].loops \in Nat /\ Idle \in Drain
    BY NamesAssumption, NoneTypes DEF Drain
  <2>2. \A p \in {"idle", "waiting", "acked", "merged", "loop"} :
           /\ [drain[t] EXCEPT !.phase = p] \in Drain
           /\ [drain[t] EXCEPT !.phase = p, !.snap = {}] \in Drain
    BY <2>1 DEF Drain
  <2>3. reply[t] \in Reply /\ reply[t].cursor \in Nat /\ reply[t].page \in [Ids -> Row]
    BY DEF ServerTypeOK, Reply
  <2>4. CASE StartDrain(t) \/ ContinueDrain(t)
    BY <2>1, <2>4, <1>2 DEF StartDrain, ContinueDrain
  <2>5. CASE GiveUp(t)
    BY <2>1, <2>5 DEF GiveUp
  <2>6. CASE ReceiveError(t)
    BY <2>1, <2>6 DEF ReceiveError
  <2>7. CASE ReceiveResync(t)
    BY <1>1, <2>2, <2>7 DEF ReceiveResync
  <2>8. CASE AckOutbox(t)
    BY <2>1, <2>2, <2>8 DEF AckOutbox
  <2>9. CASE MergePage(t)
    <3>1. \A i \in Ids : reply[t].page[i].val \in RowVals
      BY <2>3 DEF Row
    <3>2. \A i \in Ids : Merged(t, i) \in RowVals
      BY <2>1, <3>1 DEF Merged, RowVals
    <3>3. QED BY <2>2, <2>9, <3>2 DEF MergePage
  <2>10. CASE SaveCursor(t)
    BY <2>1, <2>2, <2>3, <2>10 DEF SaveCursor
  <2>11. QED
    BY <1>3, <2>4, <2>5, <2>6, <2>7, <2>8, <2>9, <2>10 DEF DrainStep
<1>4. ASSUME NEW T \in SUBSET Tabs, Forsake(T) PROVE drain' \in [Tabs -> Drain]
  BY <1>4, NoneTypes DEF Forsake
<1>5. ASSUME NEW t \in Tabs, StopDrain(t) PROVE TypeOK'
  BY <1>4, <1>5 DEF StopDrain
<1>6. ASSUME NEW d \in Dbs, SignOut(d) PROVE TypeOK'
  <2>1. {t \in Tabs : DbOf[t] = d} \in SUBSET Tabs
    OBVIOUS
  <2>2. drain' \in [Tabs -> Drain]
    BY <1>4, <1>6, <2>1 DEF SignOut
  <2>3. QED BY <1>1, <1>6, <2>2 DEF SignOut
<1>7. QED BY <1>3, <1>5, <1>6

(* Every step of the system is one of the endpoint and its callers, or       *)
(* leaves both alone: a tab posts when it waits for nothing, with a cursor   *)
(* it was given, and takes the answers it waits for.                         *)
LEMMA NextImplements ==
    ASSUME EndpointInv, [Next]_vars
    PROVE  [Step]_serverVars
<1>1. TypeOK /\ SavedCursors /\ Turns
  BY DEF EndpointInv
<1>2. ASSUME NEW t \in Tabs, NEW l, Post(t, l), drain[t].phase \in {"idle", "loop"}
      PROVE  Step
  <2> DEFINE d == DbOf[t]
  <2>1. d \in Dbs /\ outbox[d] \in SUBSET Queued /\ cursor[d] \in Nat
        /\ issued[TenantOf[d]] \in Nat
    BY <1>1, NamesAssumption DEF TypeOK, ServerTypeOK
  <2>2. ToSend(outbox[d]) \in SUBSET Mutation
    BY <2>1 DEF ToSend, Queued
  <2>3. cursor[d] \in 0..issued[TenantOf[d]]
    BY <1>1, <2>1 DEF SavedCursors
  <2>4. ~Waiting(t)
    BY <1>1, <1>2 DEF Turns
  <2>5. Send(t, ToSend(outbox[d]))
    BY <1>2, <2>3, <2>4 DEF Post, Send
  <2>6. QED BY <2>2, <2>5 DEF Step, EndpointStep
<1>3. ASSUME NEW t \in Tabs, DrainStep(t) PROVE Step \/ UNCHANGED serverVars
  <2>1. CASE StartDrain(t)
    BY <2>1, <1>2 DEF StartDrain
  <2>2. CASE ContinueDrain(t)
    BY <2>2, <1>2 DEF ContinueDrain
  <2>3. CASE GiveUp(t) \/ AckOutbox(t) \/ MergePage(t)
    BY <2>3 DEF GiveUp, AckOutbox, MergePage
  <2>4. CASE ReceiveError(t) \/ ReceiveResync(t) \/ SaveCursor(t)
    <3>1. reply[t].kind # "none"
      BY <2>4, <1>1 DEF ReceiveError, ReceiveResync, SaveCursor, Turns, Replied
    <3>2. Receive(t)
      BY <2>4, <3>1 DEF ReceiveError, ReceiveResync, SaveCursor, TakeReply, Receive
    <3>3. QED BY <3>2 DEF Step, EndpointStep
  <2>5. QED BY <1>3, <2>1, <2>2, <2>3, <2>4 DEF DrainStep
<1>4. ASSUME NEW T \in SUBSET Tabs, Forsake(T) PROVE Step
  BY <1>4 DEF Forsake, Step, EndpointStep
<1>5. CASE LocalWrite
  BY <1>1, <1>5, LocalWriteType
<1>6. CASE \E t \in Tabs : StopDrain(t)
  BY <1>4, <1>6 DEF StopDrain
<1>7. CASE \E d \in Dbs : SignOut(d)
  <2>1. PICK d \in Dbs : Forsake({t \in Tabs : DbOf[t] = d})
    BY <1>7 DEF SignOut
  <2>2. {t \in Tabs : DbOf[t] = d} \in SUBSET Tabs
    OBVIOUS
  <2>3. QED BY <1>4, <2>1, <2>2
<1>8. CASE ServerStep \/ (\E n \in Tenants : Rollback(n)) \/ CollectTombstones
  BY <1>8 DEF Step, EndpointStep
<1>9. CASE UNCHANGED vars
  BY <1>9 DEF vars
<1>10. QED
  BY <1>3, <1>5, <1>6, <1>7, <1>8, <1>9 DEF Next

(* A cursor that has been handed out stays handed out.                       *)
LEMMA IssuedGrows ==
    ASSUME ServerTypeOK, ServerTypeOK', [Step]_serverVars
    PROVE  \A n \in Tenants : issued[n] <= issued'[n]
<1>1. issued \in [Tenants -> Nat] /\ issued' \in [Tenants -> Nat]
  BY DEF ServerTypeOK
<1>2. CASE UNCHANGED issued
  BY <1>1, <1>2
<1>3. ASSUME NEW n \in Tenants, FinishPull(n)
      PROVE  \A o \in Tenants : issued[o] <= issued'[o]
  <2>1. issued' = [issued EXCEPT ![n] = Larger(issued[n], NextCursor(n))]
    BY <1>3 DEF FinishPull
  <2> DEFINE c == NextCursor(n)
  <2> HIDE DEF c
  <2>2. issued' = [issued EXCEPT ![n] = IF issued[n] > c THEN issued[n] ELSE c]
    BY <2>1 DEF Larger, c
  <2>3. issued'[n] = IF issued[n] > c THEN issued[n] ELSE c
    BY <1>1, <2>2
  <2>4. issued[n] <= issued'[n]
    BY <1>1, <2>3
  <2>5. QED BY <1>1, <2>2, <2>4
<1>4. \/ UNCHANGED issued
      \/ \E n \in Tenants : FinishPull(n)
  BY DEF Step, EndpointStep, Send, Receive, Abandon, ServerStep, TakeRequest, TakeOrphan,
         ApplyMutation, FinishResync, FinishBroken, Rollback, CollectTombstones, serverVars
<1>5. QED BY <1>2, <1>3, <1>4

(* The endpoint answers those who wait, and takes no answer back.            *)
LEMMA ServerTurns ==
    ASSUME ServerInv, NEW t \in Tabs,
           ServerStep \/ (\E n \in Tenants : Rollback(n)) \/ CollectTombstones
    PROVE  (Waiting(t)' => Waiting(t)) /\ (Replied(t) => Replied(t)')
<1>1. ServerTypeOK /\ tx \in [Tenants -> Transaction] /\ request \in [Tabs -> Request]
      /\ orphans \in SUBSET Request
  BY DEF ServerInv, ServerTypeOK
<1> USE DEF Waiting, Replied
<1>2. ASSUME NEW r \in Request, NEW n \in Tenants,
             tx' = [tx EXCEPT ![n] = Opened(r)], r.tab = t => request[t].tab = t,
             request'[t].tab = t => request[t].tab = t, UNCHANGED reply
      PROVE  (Waiting(t)' => Waiting(t)) /\ (Replied(t) => Replied(t)')
  <2>1. Opened(r).tab = r.tab
    BY DEF Opened, NoTx
  <2>2. QED BY <1>1, <1>2, <2>1
<1>3. ASSUME NEW u \in Tabs, TakeRequest(u)
      PROVE  (Waiting(t)' => Waiting(t)) /\ (Replied(t) => Replied(t)')
  <2>1. request[u] \in Request /\ TenantOf[request[u].db] \in Tenants
    BY <1>1, NamesAssumption DEF Request
  <2>2. NoRequest.tab = Nobody
    BY DEF NoRequest
  <2>3. request'[t].tab = t => request[t].tab = t
    BY <1>1, <1>3, <2>2, NamesAssumption DEF TakeRequest
  <2>4. request[u].tab = u
    BY <1>3 DEF TakeRequest
  <2>5. QED BY <1>2, <1>3, <2>1, <2>3, <2>4 DEF TakeRequest
<1>4. ASSUME TakeOrphan
      PROVE  (Waiting(t)' => Waiting(t)) /\ (Replied(t) => Replied(t)')
  <2>1. PICK r \in orphans : /\ tx' = [tx EXCEPT ![TenantOf[r.db]] = Opened(r)]
                            /\ UNCHANGED <<request, reply>>
    BY <1>4 DEF TakeOrphan
  <2>2. r \in Request /\ TenantOf[r.db] \in Tenants /\ r.tab # t
    BY <1>1, NamesAssumption DEF Request, ServerInv, Routing
  <2>3. QED BY <1>2, <2>1, <2>2
<1>5. ASSUME NEW n \in Tenants, ApplyMutation(n)
      PROVE  (Waiting(t)' => Waiting(t)) /\ (Replied(t) => Replied(t)')
  <2>1. tx' = [tx EXCEPT ![n] = tx'[n]] /\ UNCHANGED <<request, reply>>
        /\ tx'[n].tab = tx[n].tab
    BY <1>5, ApplyEffect DEF Effect
  <2>2. tx[n].open
    BY <1>5 DEF ApplyMutation
  <2>3. QED BY <1>1, <2>1, <2>2
<1>6. ASSUME NEW n \in Tenants, NEW r, tx[n].open, r.kind # "none", Answer(n, r),
             UNCHANGED request
      PROVE  (Waiting(t)' => Waiting(t)) /\ (Replied(t) => Replied(t)')
  <2>1. NoTx.open = FALSE
    BY DEF NoTx
  <2>2. QED BY <1>1, <1>6, <2>1 DEF Answer
<1>7. ASSUME NEW n \in Tenants,
             FinishPull(n) \/ FinishResync(n) \/ FinishBroken(n) \/ Rollback(n)
      PROVE  (Waiting(t)' => Waiting(t)) /\ (Replied(t) => Replied(t)')
  <2>1. /\ PullReply(n).kind = "ok" /\ ResyncReply(n).kind = "resync"
        /\ ErrorReply.kind = "error"
    BY DEF PullReply, ResyncReply, ErrorReply, NoReply
  <2>2. QED
    BY <1>6, <1>7, <2>1 DEF FinishPull, FinishResync, FinishBroken, Rollback
<1>8. ASSUME CollectTombstones
      PROVE  (Waiting(t)' => Waiting(t)) /\ (Replied(t) => Replied(t)')
  BY <1>8 DEF CollectTombstones
<1>9. QED
  BY <1>3, <1>4, <1>5, <1>7, <1>8 DEF ServerStep

(* Every step keeps saved cursors among those handed out.                    *)
LEMMA SavedCursorsStep ==
    ASSUME EndpointInv, [Next]_vars, ServerTypeOK', TypeOK'
    PROVE  SavedCursors'
<1>1. /\ cursor \in [Dbs -> Nat] /\ cursor' \in [Dbs -> Nat]
      /\ issued \in [Tenants -> Nat] /\ issued' \in [Tenants -> Nat]
      /\ \A d \in Dbs : TenantOf[d] \in Tenants
  BY NamesAssumption DEF EndpointInv, TypeOK, ServerTypeOK
<1>2. \A n \in Tenants : issued[n] <= issued'[n]
  BY NextImplements, IssuedGrows DEF EndpointInv, TypeOK
<1>3. \A d \in Dbs : cursor'[d] <= issued[TenantOf[d]]
  <2>1. \A d \in Dbs : cursor[d] <= issued[TenantOf[d]]
    BY DEF EndpointInv, SavedCursors
  <2>2. CASE UNCHANGED cursor
    BY <2>1, <2>2
  <2>3. CASE \E d \in Dbs : cursor' = [cursor EXCEPT ![d] = 0]
    BY <1>1, <2>1, <2>3
  <2>4. ASSUME NEW t \in Tabs, cursor' = [cursor EXCEPT ![DbOf[t]] = reply[t].cursor]
        PROVE  \A d \in Dbs : cursor'[d] <= issued[TenantOf[d]]
    <3>1. reply[t].cursor <= issued[TenantOf[DbOf[t]]]
      BY DEF EndpointInv, ServerInv, Cursors
    <3>2. QED BY <1>1, <2>1, <2>4, <3>1
  <2>5. \/ UNCHANGED cursor
        \/ \E d \in Dbs : cursor' = [cursor EXCEPT ![d] = 0]
        \/ \E t \in Tabs : cursor' = [cursor EXCEPT ![DbOf[t]] = reply[t].cursor]
    <3>1. CASE LocalWrite
      BY <3>1, LocalWriteType DEF EndpointInv
    <3>2. CASE \E t \in Tabs : DrainStep(t)
      BY <3>2, NamesAssumption
         DEF DrainStep, StartDrain, ContinueDrain, Post, GiveUp, ReceiveError,
             ReceiveResync, AckOutbox, MergePage, SaveCursor
    <3>3. QED
      BY <3>1, <3>2 DEF Next, StopDrain, SignOut, clientVars, vars
  <2>6. QED BY <2>2, <2>3, <2>4, <2>5
<1>4. QED
  <2>1. ASSUME NEW d \in Dbs PROVE cursor'[d] <= issued'[TenantOf[d]]
    <3>1. /\ cursor'[d] \in Nat /\ issued[TenantOf[d]] \in Nat /\ issued'[TenantOf[d]] \in Nat
          /\ issued[TenantOf[d]] <= issued'[TenantOf[d]]
      BY <1>1, <1>2
    <3>2. QED BY <1>3, <3>1
  <2>2. QED BY <2>1 DEF SavedCursors

(* Every step keeps the turns: a tab ends or repeats its loop when it waits  *)
(* for nothing any more.                                                     *)
LEMMA TurnsStep ==
    ASSUME EndpointInv, [Next]_vars
    PROVE  Turns'
<1>1. TypeOK /\ ServerInv /\ Turns /\ ServerTypeOK /\ OneAnswer
      /\ drain \in [Tabs -> Drain] /\ reply \in [Tabs -> Reply]
      /\ request \in [Tabs -> Request] /\ tx \in [Tenants -> Transaction]
  BY DEF EndpointInv, ServerInv, TypeOK, ServerTypeOK
<1> DEFINE Turn(t) == /\ drain[t].phase \in {"idle", "loop"} => ~Waiting(t)
                      /\ drain[t].phase \in {"acked", "merged"} => Replied(t)
<1>2. \A t \in Tabs : Turn(t)
  BY <1>1 DEF Turns
<1>3. SUFFICES ASSUME NEW t \in Tabs PROVE Turn(t)'
  BY DEF Turns
<1>4. ASSUME UNCHANGED drain, Waiting(t)' => Waiting(t), Replied(t) => Replied(t)'
      PROVE  Turn(t)'
  BY <1>2, <1>4
<1>5. ASSUME UNCHANGED serverVars, UNCHANGED drain PROVE Turn(t)'
  BY <1>4, <1>5 DEF serverVars, Waiting, Replied
<1>6. NoReply.kind = "none" /\ NoRequest.tab = Nobody /\ Idle.phase = "idle"
  BY DEF NoReply, NoRequest, Idle
<1>7. ASSUME NEW u \in Tabs, DrainStep(u) PROVE Turn(t)'
  <2>1. CASE u # t
    <3>1. drain'[t] = drain[t] /\ request'[t] = request[t] /\ reply'[t] = reply[t] /\ tx' = tx
      BY <1>1, <1>7, <2>1
         DEF DrainStep, StartDrain, ContinueDrain, Post, GiveUp, ReceiveError, TakeReply,
             ReceiveResync, AckOutbox, MergePage, SaveCursor, serverVars
    <3>2. QED BY <3>1, <1>2 DEF Waiting, Replied
  <2>2. CASE u = t
    <3>1. CASE StartDrain(t) \/ ContinueDrain(t)
      BY <1>1, <3>1 DEF StartDrain, ContinueDrain, Post
    <3>2. CASE GiveUp(t)
      BY <1>1, <1>2, <1>6, <3>2 DEF GiveUp, serverVars, Waiting
    <3>3. CASE AckOutbox(t)
      <4>1. drain'[t].phase = "acked" /\ reply'[t].kind = "ok"
        BY <1>1, <3>3 DEF AckOutbox, Drain, serverVars
      <4>2. QED BY <4>1 DEF Replied
    <3>4. CASE MergePage(t)
      <4>1. drain'[t].phase = "merged" /\ drain[t].phase = "acked" /\ reply' = reply
        BY <1>1, <3>4 DEF MergePage, Drain, serverVars
      <4>2. QED BY <4>1, <1>2 DEF Replied
    <3>5. CASE ReceiveError(t) \/ ReceiveResync(t) \/ SaveCursor(t)
      <4>1. Replied(t)
        BY <3>5, <1>2 DEF ReceiveError, ReceiveResync, SaveCursor, Replied
      <4>2. reply'[t].kind = "none" /\ UNCHANGED <<request, tx>>
        BY <3>5, <1>1, <1>6 DEF ReceiveError, ReceiveResync, SaveCursor, TakeReply
      <4>3. ~Waiting(t)'
        BY <4>1, <4>2, <1>1 DEF OneAnswer, Sent, Served, Waiting
      <4>4. drain'[t].phase \in {"idle", "loop"}
        BY <3>5, <1>1, <1>6 DEF ReceiveError, ReceiveResync, SaveCursor, Drain
      <4>5. QED BY <4>3, <4>4
    <3>6. QED BY <1>7, <2>2, <3>1, <3>2, <3>3, <3>4, <3>5 DEF DrainStep
  <2>3. QED BY <2>1, <2>2
<1>8. ASSUME NEW T \in SUBSET Tabs, Forsake(T) PROVE Turn(t)'
  <2>1. \A n \in Tenants : /\ tx'[n].open => tx[n].open
                           /\ tx'[n].tab = t => tx[n].tab = t /\ t \notin T
    <3>1. ASSUME NEW n \in Tenants, tx[n].tab \in T
          PROVE  tx'[n].open = tx[n].open /\ tx'[n].tab = Nobody
      BY <1>1, <1>8, <3>1 DEF Forsake, Abandon, Transaction
    <3>2. ASSUME NEW n \in Tenants, tx[n].tab \notin T
          PROVE  tx'[n] = tx[n]
      BY <1>8, <3>2 DEF Forsake, Abandon
    <3>3. QED BY <3>1, <3>2, NamesAssumption
  <2>2. CASE t \in T
    <3>1. drain'[t].phase = "idle" /\ request'[t].tab = Nobody /\ reply'[t].kind = "none"
      BY <1>6, <1>8, <2>2 DEF Forsake, Abandon
    <3>2. QED BY <2>1, <2>2, <3>1, NamesAssumption DEF Waiting
  <2>3. CASE t \notin T
    <3>1. drain'[t] = drain[t] /\ request'[t] = request[t] /\ reply'[t] = reply[t]
      BY <1>8, <2>3 DEF Forsake, Abandon
    <3>2. QED BY <1>2, <2>1, <3>1 DEF Waiting, Replied
  <2>4. QED BY <2>2, <2>3
<1>9. CASE LocalWrite
  BY <1>1, <1>5, <1>9, LocalWriteType
<1>10. CASE \E u \in Tabs : StopDrain(u)
  BY <1>8, <1>10 DEF StopDrain
<1>11. CASE \E d \in Dbs : SignOut(d)
  <2>1. PICK d \in Dbs : Forsake({u \in Tabs : DbOf[u] = d})
    BY <1>11 DEF SignOut
  <2>2. {u \in Tabs : DbOf[u] = d} \in SUBSET Tabs
    OBVIOUS
  <2>3. QED BY <1>8, <2>1, <2>2
<1>12. CASE /\ ServerStep \/ (\E n \in Tenants : Rollback(n)) \/ CollectTombstones
            /\ UNCHANGED clientVars
  BY <1>1, <1>4, <1>12, ServerTurns DEF clientVars
<1>13. CASE UNCHANGED vars
  BY <1>5, <1>13 DEF vars, clientVars
<1>14. QED
  BY <1>7, <1>9, <1>10, <1>11, <1>12, <1>13 DEF Next

(* The first part of the invariant holds in the initial states.              *)
LEMMA EndpointInit == Init => EndpointInv
<1> SUFFICES ASSUME Init PROVE EndpointInv
  OBVIOUS
<1>1. ServerInit /\ ServerInv
  BY ServerInvInit DEF Init
<1>2. TypeOK
  <2>1. EmptyReplica \in [Ids -> RowVals]
    BY DEF EmptyReplica, RowVals
  <2>2. QED BY <1>1, <2>1, NoneTypes DEF Init, TypeOK, ServerInv
<1>3. SavedCursors
  BY <1>1, NamesAssumption DEF Init, ServerInit, SavedCursors
<1>4. Turns
  <2>1. /\ NoRequest.tab = Nobody /\ NoReply.kind = "none" /\ NoTx.open = FALSE
        /\ Idle.phase = "idle"
    BY DEF NoRequest, NoReply, NoTx, Idle
  <2>2. QED
    BY <1>1, <2>1, NamesAssumption DEF Init, ServerInit, Turns, Waiting
<1>5. QED
  BY <1>1, <1>2, <1>3, <1>4 DEF EndpointInv

(* Every step keeps the first part of the invariant: the endpoint's own part *)
(* because the step is one of module SyncEndpoint.                           *)
LEMMA EndpointNext == EndpointInv /\ [Next]_vars => EndpointInv'
<1> SUFFICES ASSUME EndpointInv, [Next]_vars PROVE EndpointInv'
  OBVIOUS
<1>1. ServerInv'
  BY NextImplements, ServerInvNext DEF EndpointInv
<1>2. TypeOK'
  <2>1. TypeOK /\ ServerTypeOK'
    BY <1>1 DEF EndpointInv, ServerInv
  <2>2. CASE LocalWrite
    BY <2>1, <2>2, LocalWriteType
  <2>3. CASE UNCHANGED clientVars
    BY <2>1, <2>3 DEF TypeOK, clientVars
  <2>4. QED
    BY <2>1, <2>2, <2>3, BrowserTypes DEF Next, vars
<1>3. SavedCursors' /\ Turns'
  BY <1>1, <1>2, SavedCursorsStep, TurnsStep DEF ServerInv
<1>4. QED
  BY <1>1, <1>2, <1>3 DEF EndpointInv

(* The first part of the invariant holds in every state, Web Locks or not.   *)
THEOREM EndpointInvariant == Spec => []EndpointInv
<1>1. Init => EndpointInv
  BY EndpointInit
<1>2. EndpointInv /\ [Next]_vars => EndpointInv'
  BY EndpointNext
<1>3. QED
  BY <1>1, <1>2, PTL DEF Spec

(* The system implements the endpoint's specification: to the endpoint, the  *)
(* real clients are callers like any other, so whatever is proved about it   *)
(* for any caller holds behind them (client.ts, route.ts).                   *)
THEOREM SyncImplementsEndpoint == Spec => EndpointSpec
<1>1. Init => ServerInit
  BY DEF Init
<1>2. EndpointInv /\ [Next]_vars => [Step]_serverVars
  BY NextImplements
<1>3. QED
  BY <1>1, <1>2, EndpointInvariant, PTL DEF Spec, EndpointSpec, Step

(* Every variable keeps its type: rows, transactions, requests, answers and  *)
(* the stores of every browser (schema.prisma, protocol.ts, tenantDb.ts).    *)
THEOREM TypeCorrect == Spec => []TypeOK
<1>1. EndpointInv => TypeOK
  BY DEF EndpointInv
<1>2. QED
  BY <1>1, EndpointInvariant, PTL

(* Behind the real clients, pages have no holes, ...                         *)
THEOREM PagesAreComplete == Spec => []PageComplete
  BY SyncImplementsEndpoint, EndpointPagesAreComplete, PTL

(* ... no row becomes visible at or below a cursor that is held, ...         *)
THEOREM CursorsAreGapSafe == Spec => CursorGapSafe
  BY SyncImplementsEndpoint, EndpointIsGapSafe, PTL

(* ... and tenants are kept apart: the implementation theorem carries each   *)
(* of these over from the endpoint.                                          *)
THEOREM TenantsAreIsolated == Spec => OwnRowsOnly
  BY SyncImplementsEndpoint, EndpointKeepsTenantsApart, PTL

-----------------------------------------------------------------------------
(* What leaves the outbox: the third part of the invariant.                  *)

(* Ids made later take nothing from what is known of the earlier ones.       *)
LEMMA HomesGrow ==
    ASSUME NEW w, NEW x, born \subseteq born', \A i \in born : x[i] = w[i]
    PROVE  /\ \A d, i : Home(w, d, i) => Home(x, d, i)'
           /\ \A d, m : Meant(w, d, m) => Meant(x, d, m)'
BY DEF Home, Meant

\* A write of database d with respect to the third part: what box keeps of the
\* outbox, it keeps by row; the new mutation and the rows shown are of x's homes.
Kept(d, box) ==
    \A m, k \in outbox[d] : m.id = k.id /\ m \in box => k \in box
Makes(d, m, box, x) ==
    /\ box \subseteq outbox[d] /\ Kept(d, box)
    /\ m \in Queued /\ m.seq = nextSeq[d] /\ Meant(x, d, m)'
    /\ outbox' = [outbox EXCEPT ![d] = box \cup {m}]
    /\ nextSeq' = [nextSeq EXCEPT ![d] = nextSeq[d] + 1]
    /\ \A e \in Dbs \ {d} : replica'[e] = replica[e] /\ open'[e] = open[e]
    /\ \A i \in Ids : replica'[d][i] # NoVal => replica[d][i] # NoVal \/ Home(x, d, i)'
    /\ open'[d] \subseteq open[d]
    /\ born \subseteq born' /\ TaskHomes(x)'

(* Such a write keeps every place's mutations and rows at home.              *)
LEMMA MakesHomes ==
    ASSUME TypeOK, NEW w, NEW x, Homes(w), \A i \in born : x[i] = w[i],
           NEW d \in Dbs, NEW m, NEW box, Makes(d, m, box, x),
           UNCHANGED <<serverVars, drain>>
    PROVE  Homes(x)'
<1>1. outbox \in [Dbs -> SUBSET Queued] /\ born \subseteq born'
  BY DEF TypeOK, Makes
<1>2. /\ \A e, i : Home(w, e, i) => Home(x, e, i)'
      /\ \A e, k : Meant(w, e, k) => Meant(x, e, k)'
  BY <1>1, HomesGrow
<1>3. TaskHomes(x)'
  BY DEF Makes
<1>4. DbHomes(x)'
  <2>1. ASSUME NEW e \in Dbs
        PROVE  /\ \A i \in Ids : replica'[e][i] # NoVal => Home(x, e, i)'
               /\ \A i \in open'[e] : Home(x, e, i)'
               /\ \A k \in outbox'[e] : Meant(x, e, k)'
    <3>1. CASE e = d
      BY <3>1, <1>1, <1>2 DEF Makes, Homes, DbHomes
    <3>2. CASE e # d
      BY <3>2, <1>1, <1>2 DEF Makes, Homes, DbHomes
    <3>3. QED BY <3>1, <3>2
  <2>2. QED BY <2>1 DEF DbHomes
<1>5. TabHomes(x)'
  BY <1>2 DEF Homes, TabHomes, serverVars, Exists
<1>6. OrphanHomes(x)'
  BY <1>2 DEF Homes, OrphanHomes, serverVars
<1>7. TxHomes(x)'
  BY <1>1, <1>2 DEF Homes, TxHomes, serverVars, Exists
<1>8. RowHomes(x)'
  BY <1>1 DEF Homes, RowHomes, serverVars, Exists
<1>9. QED
  BY <1>3, <1>4, <1>5, <1>6, <1>7, <1>8 DEF Homes

(* It keeps what is known of the order and the company of captured entries.  *)
LEMMA MakesOrder ==
    ASSUME TypeOK, NEW x, NEW d \in Dbs, NEW m, NEW box, Makes(d, m, box, x),
           SnapIsOldest, LeaveTogether, UNCHANGED drain
    PROVE  SnapIsOldest' /\ LeaveTogether'
<1>1. /\ outbox \in [Dbs -> SUBSET Queued] /\ nextSeq \in [Dbs -> Nat \ {0}]
      /\ drain \in [Tabs -> Drain] /\ \A t \in Tabs : DbOf[t] \in Dbs
      /\ m.seq = nextSeq[d] /\ box \subseteq outbox[d]
  BY NamesAssumption DEF TypeOK, Makes
<1>2. \A e \in Dbs : /\ outbox'[e] = IF e = d THEN box \cup {m} ELSE outbox[e]
                     /\ nextSeq'[e] = IF e = d THEN nextSeq[d] + 1 ELSE nextSeq[e]
                     /\ nextSeq[e] \in Nat
  BY <1>1 DEF Makes
<1>3. \A q \in Queued : q.seq \in Nat
  BY DEF Queued, Mutation
<1>4. \A t \in Tabs : drain[t].snap \subseteq Queued
  BY <1>1 DEF Drain
<1>5. SnapIsOldest'
  <2>1. \A e \in Dbs : \A k \in outbox'[e] : k.seq < nextSeq'[e]
    <3>1. ASSUME NEW e \in Dbs, NEW k \in outbox'[e] PROVE k.seq < nextSeq'[e]
      <4>1. CASE k \in outbox[e]
        <5>1. k.seq < nextSeq[e] /\ k.seq \in Nat
          BY <4>1, <1>1, <1>3 DEF SnapIsOldest
        <5>2. QED BY <5>1, <1>2
      <4>2. CASE k \notin outbox[e]
        BY <4>2, <1>1, <1>2
      <4>3. QED BY <4>1, <4>2
    <3>2. QED BY <3>1
  <2>2. ASSUME NEW t \in Tabs, NEW k \in drain[t].snap
        PROVE  /\ k.seq < nextSeq'[DbOf[t]]
               /\ \A q \in outbox'[DbOf[t]] \ drain[t].snap : k.seq < q.seq
    <3>1. k.seq < nextSeq[DbOf[t]] /\ k.seq \in Nat /\ DbOf[t] \in Dbs
      BY <1>1, <1>3, <1>4 DEF SnapIsOldest
    <3>2. k.seq < nextSeq'[DbOf[t]]
      BY <3>1, <1>2
    <3>3. ASSUME NEW q \in outbox'[DbOf[t]] \ drain[t].snap PROVE k.seq < q.seq
      <4>1. CASE q \in outbox[DbOf[t]]
        BY <4>1 DEF SnapIsOldest
      <4>2. CASE q \notin outbox[DbOf[t]]
        BY <4>2, <1>1, <1>2, <3>1
      <4>3. QED BY <4>1, <4>2
    <3>4. QED BY <3>2, <3>3
  <2>3. QED BY <2>1, <2>2 DEF SnapIsOldest
<1>6. ASSUME NEW t \in Tabs, NEW k \in drain[t].snap, NEW q \in drain[t].snap,
             k.id = q.id, k.seq <= q.seq, k \in outbox'[DbOf[t]]
      PROVE  q \in outbox'[DbOf[t]]
  <2>1. k # m \/ DbOf[t] # d
    <3>1. k.seq < nextSeq[DbOf[t]] /\ k.seq \in Nat
      BY <1>3, <1>4 DEF SnapIsOldest
    <3>2. QED BY <3>1, <1>1
  <2>2. k \in outbox[DbOf[t]] /\ (DbOf[t] = d => k \in box)
    BY <1>1, <1>2, <1>6, <2>1
  <2>3. q \in outbox[DbOf[t]]
    BY <1>6, <2>2 DEF LeaveTogether
  <2>4. DbOf[t] = d => q \in box
    BY <1>6, <2>2, <2>3 DEF Makes, Kept
  <2>5. QED BY <1>1, <1>2, <2>3, <2>4
<1>7. QED
  BY <1>5, <1>6 DEF LeaveTogether

(* Every write of the data layer is one of these: it takes its id from a row *)
(* it was shown, or makes one (projects.ts).                                 *)
LEMMA LocalHomes ==
    ASSUME TypeOK, LocalWrite, NEW w \in [Ids -> Tenants], Homes(w), SnapIsOldest, LeaveTogether
    PROVE  (\E x \in [Ids -> Tenants] : Homes(x)') /\ SnapIsOldest' /\ LeaveTogether'
<1> DEFINE Goal == (\E x \in [Ids -> Tenants] : Homes(x)') /\ SnapIsOldest' /\ LeaveTogether'
<1>1. /\ replica \in [Dbs -> [Ids -> RowVals]] /\ outbox \in [Dbs -> SUBSET Queued]
      /\ open \in [Dbs -> SUBSET Ids] /\ nextSeq \in [Dbs -> Nat \ {0}] /\ born \in SUBSET Ids
      /\ Projects \cap Tasks = {} /\ Ids = Projects \cup Tasks
      /\ \A d \in Dbs : TenantOf[d] \in Tenants
      /\ \A k \in Tasks : ParentOf[k] \in Projects
  BY NamesAssumption, ClientAssumption DEF TypeOK, Ids
<1>2. UNCHANGED <<serverVars, drain>>
  BY LocalWriteType
<1>3. ASSUME NEW x \in [Ids -> Tenants], \A i \in born : x[i] = w[i],
             NEW d \in Dbs, NEW m, NEW box, Makes(d, m, box, x)
      PROVE  Goal
  BY <1>2, <1>3, MakesHomes, MakesOrder
<1>4. \A d \in Dbs : /\ \A i \in Ids : replica[d][i] # NoVal => Home(w, d, i)
                     /\ \A i \in open[d] : Home(w, d, i)
  BY DEF Homes, DbHomes
<1>5. ASSUME NEW d \in Dbs, NEW i \in Ids, OpenRow(d, i) PROVE Goal
  <2>1. /\ UNCHANGED <<replica, outbox, nextSeq, born>>
        /\ \A e \in Dbs : open'[e] = IF e = d THEN {i} ELSE open[e]
        /\ replica[d][i] # NoVal
    BY <1>1, <1>5 DEF OpenRow
  <2>2. DbHomes(w)'
    BY <1>4, <2>1 DEF Homes, DbHomes, Home, Meant
  <2>3. TaskHomes(w)' /\ TabHomes(w)' /\ OrphanHomes(w)' /\ TxHomes(w)' /\ RowHomes(w)'
    BY <1>2, <2>1 DEF Homes, TaskHomes, TabHomes, OrphanHomes, TxHomes, RowHomes, Home, Meant,
                      Exists, serverVars
  <2>4. Homes(w)'
    BY <2>2, <2>3 DEF Homes
  <2>5. SnapIsOldest' /\ LeaveTogether'
    BY <1>2, <2>1 DEF SnapIsOldest, LeaveTogether
  <2>6. QED BY <2>4, <2>5
<1>6. ASSUME NEW d \in Dbs, NEW i \in Ids, NEW v \in Vals
      PROVE  /\ Upsert(d, i, v) \in Queued /\ Upsert(d, i, v).id = i
             /\ Upsert(d, i, v).seq = nextSeq[d] /\ Upsert(d, i, v).op = "upsert"
             /\ i \in Tasks => Upsert(d, i, v).parent = ParentOf[i]
             /\ Delete(d, i) \in Queued /\ Delete(d, i).id = i
             /\ Delete(d, i).seq = nextSeq[d] /\ Delete(d, i).op = "delete"
  BY QueuedTypes DEF Upsert, Delete
<1>7. \A d \in Dbs : Kept(d, outbox[d])
  BY DEF Kept
<1>8. ASSUME NEW d \in Dbs, NEW i \in Ids, NEW v \in RowVals, NEW m, NEW x \in [Ids -> Tenants],
             \A j \in born : x[j] = w[j], born \subseteq born', TaskHomes(x)',
             m \in Queued, m.seq = nextSeq[d], Meant(x, d, m)', m.id = i,
             Enqueue(d, m, outbox[d]), replica' = [replica EXCEPT ![d][i] = v],
             open' = open \/ open' = [open EXCEPT ![d] = {}]
      PROVE  Goal
  <2>1. /\ \A e \in Dbs \ {d} : replica'[e] = replica[e] /\ open'[e] = open[e]
        /\ open'[d] \subseteq open[d]
    BY <1>1, <1>8
  <2>2. \A j \in Ids : replica'[d][j] = IF j = i THEN v ELSE replica[d][j]
    BY <1>1, <1>8
  <2>3. \A j \in Ids : replica'[d][j] # NoVal => replica[d][j] # NoVal \/ Home(x, d, j)'
    BY <1>8, <2>2 DEF Meant
  <2>4. Makes(d, m, outbox[d], x)
    BY <1>1, <1>7, <1>8, <2>1, <2>3 DEF Makes, Enqueue
  <2>5. QED BY <1>3, <1>8, <2>4
<1> HIDE DEF Goal
<1>9. ASSUME NEW d \in Dbs, NEW p \in Projects, NEW v \in Vals, CreateProject(d, p, v)
      PROVE  Goal
  <2>1. PICK x \in [Ids -> Tenants] : x[p] = TenantOf[d] /\ (\A j \in Ids \ {p} : x[j] = w[j])
    <3>1. [w EXCEPT ![p] = TenantOf[d]] \in [Ids -> Tenants]
      BY <1>1
    <3>2. QED BY <1>1, <3>1
  <2>2. p \notin born /\ born' = born \cup {p}
    BY <1>9 DEF CreateProject
  <2>3. \A j \in born : x[j] = w[j]
    BY <1>1, <2>1, <2>2
  <2>4. TaskHomes(x)'
    BY <1>1, <2>1, <2>2, <2>3 DEF Homes, TaskHomes
  <2>5. PICK m \in Queued : m = Upsert(d, p, v)
    BY <1>1, <1>6
  <2>11. /\ m.id = p /\ m.seq = nextSeq[d] /\ m.op = "upsert"
        /\ v \in RowVals /\ p \in Ids /\ p \notin Tasks
    BY <1>1, <1>6, <2>5 DEF RowVals
  <2>6. Meant(x, d, m)'
    BY <2>1, <2>2, <2>11 DEF Meant, Home
  <2>7. Enqueue(d, m, outbox[d]) /\ replica' = [replica EXCEPT ![d][p] = v] /\ open' = open
    BY <1>9, <2>5 DEF CreateProject
  <2>8. QED
    BY <1>8, <2>1, <2>2, <2>3, <2>4, <2>11, <2>6, <2>7
<1>10. ASSUME NEW d \in Dbs, NEW k \in Tasks, NEW v \in Vals, AddTask(d, k, v)
       PROVE  Goal
  <2>1. PICK x \in [Ids -> Tenants] : x[k] = TenantOf[d] /\ (\A j \in Ids \ {k} : x[j] = w[j])
    <3>1. [w EXCEPT ![k] = TenantOf[d]] \in [Ids -> Tenants]
      BY <1>1
    <3>2. QED BY <1>1, <3>1
  <2>2. k \notin born /\ born' = born \cup {k} /\ ParentOf[k] \in open[d]
    BY <1>10 DEF AddTask
  <2>3. \A j \in born : x[j] = w[j]
    BY <1>1, <2>1, <2>2
  <2>4. ParentOf[k] \in born /\ w[ParentOf[k]] = TenantOf[d]
    BY <1>4, <2>2 DEF Home
  <2>5. TaskHomes(x)'
    BY <1>1, <2>1, <2>2, <2>3, <2>4 DEF Homes, TaskHomes
  <2>11. PICK m \in Queued : m = Upsert(d, k, v)
    BY <1>1, <1>6
  <2>6. /\ m.id = k /\ m.seq = nextSeq[d] /\ m.op = "upsert"
        /\ m.parent = ParentOf[k] /\ v \in RowVals /\ k \in Ids
    BY <1>1, <1>6, <2>11 DEF RowVals
  <2>7. Meant(x, d, m)'
    BY <2>1, <2>2, <2>6 DEF Meant, Home
  <2>8. /\ Enqueue(d, m, outbox[d]) /\ replica' = [replica EXCEPT ![d][k] = v]
        /\ open' = [open EXCEPT ![d] = {}]
    BY <1>10, <2>11 DEF AddTask
  <2>9. QED
    BY <1>8, <2>1, <2>2, <2>3, <2>5, <2>6, <2>7, <2>8
<1>11. ASSUME NEW d \in Dbs, NEW i \in Ids, NEW m, m \in Queued, m.id = i, i \in open[d],
              born' = born, m.op = "upsert" /\ i \in Tasks => m.parent = ParentOf[i]
       PROVE  Meant(w, d, m)' /\ TaskHomes(w)'
  BY <1>4, <1>11 DEF Meant, Home, Homes, TaskHomes
<1>12. ASSUME NEW d \in Dbs, NEW i \in Ids, NEW v \in Vals, EditRow(d, i, v)
       PROVE  Goal
  <2>0. PICK m \in Queued : m = Upsert(d, i, v)
    BY <1>6
  <2>1. /\ m.id = i /\ m.seq = nextSeq[d] /\ v \in RowVals
        /\ m.op = "upsert" /\ i \in Tasks => m.parent = ParentOf[i]
    BY <1>6, <2>0 DEF RowVals
  <2>2. /\ Enqueue(d, m, outbox[d]) /\ replica' = [replica EXCEPT ![d][i] = v]
        /\ open' = [open EXCEPT ![d] = {}] /\ i \in open[d] /\ born' = born
    BY <1>12, <2>0 DEF EditRow
  <2>3. Meant(w, d, m)' /\ TaskHomes(w)'
    BY <1>11, <2>1, <2>2
  <2>4. QED
    BY <1>8, <2>1, <2>2, <2>3
<1>13. ASSUME NEW d \in Dbs, NEW k \in Tasks, DeleteTask(d, k)
       PROVE  Goal
  <2>0. PICK m \in Queued : m = Delete(d, k)
    BY <1>1, QueuedTypes
  <2>1. m.id = k /\ m.seq = nextSeq[d] /\ m.op = "delete"
    BY <2>0 DEF Delete
  <2>2. /\ Enqueue(d, m, outbox[d]) /\ replica' = [replica EXCEPT ![d][k] = NoVal]
        /\ open' = [open EXCEPT ![d] = {}] /\ k \in open[d] /\ born' = born
        /\ k \in Ids /\ NoVal \in RowVals
    BY <1>1, <1>13, <2>0 DEF DeleteTask, RowVals
  <2>3. Meant(w, d, m)' /\ TaskHomes(w)'
    BY <1>11, <2>1, <2>2
  <2>4. QED
    BY <1>8, <2>1, <2>2, <2>3
<1>14. ASSUME NEW d \in Dbs, NEW p \in Projects, DeleteProject(d, p)
       PROVE  Goal
  <2> DEFINE family == {p} \cup {k \in Tasks : ParentOf[k] = p}
             box == {k \in outbox[d] : k.id \notin family}
  <2>0. PICK m \in Queued : m = Delete(d, p)
    BY <1>1, QueuedTypes
  <2>1. m.id = p /\ m.seq = nextSeq[d] /\ m.op = "delete" /\ p \in Ids
    BY <1>1, <2>0 DEF Delete
  <2>2. /\ Enqueue(d, m, box)
        /\ replica' = [replica EXCEPT ![d] =
                         [i \in Ids |-> IF i \in family THEN NoVal ELSE replica[d][i]]]
        /\ open' = [open EXCEPT ![d] = {}] /\ p \in open[d] /\ born' = born
    BY <1>14, <2>0 DEF DeleteProject
  <2> HIDE DEF family
  <2>3. Meant(w, d, m)' /\ TaskHomes(w)'
    BY <1>11, <2>1, <2>2
  <2>4. Kept(d, box) /\ box \subseteq outbox[d]
    BY DEF Kept
  <2>5. /\ \A e \in Dbs \ {d} : replica'[e] = replica[e] /\ open'[e] = open[e]
        /\ open'[d] \subseteq open[d]
        /\ \A i \in Ids : replica'[d][i] # NoVal => replica[d][i] # NoVal
    BY <1>1, <2>2
  <2> HIDE DEF box
  <2>6. Makes(d, m, box, w)
    BY <2>1, <2>2, <2>3, <2>4, <2>5 DEF Makes, Enqueue
  <2>7. QED BY <1>3, <2>6
<1>15. Goal
  BY <1>5, <1>9, <1>10, <1>12, <1>13, <1>14 DEF LocalWrite
<1>16. QED BY <1>15 DEF Goal
-----------------------------------------------------------------------------
(* The steps of a drain.                                                     *)

(* The absent values name nothing.                                           *)
LEMMA NoneHomes ==
    /\ NoRequest.muts = {} /\ Idle.snap = {}
    /\ NoTx.todo = {} /\ NoTx.rejected = {} /\ ~NoTx.broken /\ NoTx.passed = {}
    /\ NoReply.applied = {} /\ NoReply.rejected = {}
    /\ ErrorReply.applied = {} /\ ErrorReply.rejected = {}
    /\ \A i \in Ids : /\ ~Exists(NoReply.page[i]) /\ ~Exists(ErrorReply.page[i])
                      /\ ~Exists(NoTx.writes[i]) /\ ~Exists(NoRow)
                      /\ EmptyReplica[i] = NoVal
BY DEF NoRequest, Idle, NoTx, NoReply, ErrorReply, NoRow, Exists, EmptyReplica

\* The steps of a drain take rows and mutations only from where they were.
Passes ==
    /\ born' = born /\ open' = open
    /\ UNCHANGED <<rows, tx, orphans>>
    /\ \A d \in Dbs : outbox'[d] \subseteq outbox[d]
    /\ \A t \in Tabs :
        /\ drain'[t].snap \subseteq drain[t].snap \cup outbox[DbOf[t]]
        /\ request'[t] = request[t] \/ (/\ request'[t].db = DbOf[t]
                                        /\ request'[t].muts \subseteq outbox[DbOf[t]])
        /\ reply'[t] \in {reply[t], NoReply}
    /\ \A d \in Dbs, i \in Ids : replica'[d][i] # NoVal =>
        \/ replica[d][i] # NoVal
        \/ \E t \in Tabs : DbOf[t] = d /\ Exists(reply[t].page[i])

(* So everything stays at home.                                              *)
LEMMA PassesHomes ==
    ASSUME NEW w, Homes(w), Passes
    PROVE  Homes(w)'
<1>1. /\ \A d, i : Home(w, d, i)' <=> Home(w, d, i)
      /\ \A d, m : Meant(w, d, m)' <=> Meant(w, d, m)
  BY DEF Passes, Home, Meant
<1>2. TaskHomes(w)' /\ OrphanHomes(w)' /\ TxHomes(w)' /\ RowHomes(w)'
  BY <1>1 DEF Homes, Passes, TaskHomes, OrphanHomes, TxHomes, RowHomes, Exists
<1>3. \A t \in Tabs : DbOf[t] \in Dbs
  BY NamesAssumption
<1>4. DbHomes(w)'
  <2>1. ASSUME NEW d \in Dbs, NEW i \in Ids, replica'[d][i] # NoVal PROVE Home(w, d, i)
    BY <2>1 DEF Homes, Passes, DbHomes, TabHomes
  <2>2. \A d \in Dbs : /\ \A i \in open'[d] : Home(w, d, i)
                       /\ \A m \in outbox'[d] : Meant(w, d, m)
    BY DEF Homes, Passes, DbHomes
  <2>3. QED BY <1>1, <2>1, <2>2 DEF DbHomes
<1>5. TabHomes(w)'
  <2>1. ASSUME NEW t \in Tabs
        PROVE  /\ \A m \in drain'[t].snap : Meant(w, DbOf[t], m)
               /\ \A m \in request'[t].muts : Meant(w, request'[t].db, m)
               /\ \A i \in Ids : Exists(reply'[t].page[i]) => Home(w, DbOf[t], i)
    <3>1. \A m \in outbox[DbOf[t]] : Meant(w, DbOf[t], m)
      BY <1>3 DEF Homes, DbHomes
    <3>2. \A m \in drain[t].snap : Meant(w, DbOf[t], m)
      BY DEF Homes, TabHomes
    <3>3. \A m \in request[t].muts : Meant(w, request[t].db, m)
      BY DEF Homes, TabHomes
    <3>4. \A i \in Ids : Exists(reply[t].page[i]) => Home(w, DbOf[t], i)
      BY DEF Homes, TabHomes
    <3>5. QED BY <3>1, <3>2, <3>3, <3>4, NoneHomes DEF Passes
  <2>2. QED BY <1>1, <2>1 DEF TabHomes, Exists
<1>6. QED BY <1>2, <1>4, <1>5 DEF Homes

(* Every step of a drain only passes on.                                     *)
LEMMA DrainPasses ==
    ASSUME TypeOK, NEW t \in Tabs, DrainStep(t)
    PROVE  /\ Passes
           /\ landed' = landed /\ nextSeq' = nextSeq
<1>1. /\ drain \in [Tabs -> Drain] /\ request \in [Tabs -> Request] /\ reply \in [Tabs -> Reply]
      /\ replica \in [Dbs -> [Ids -> RowVals]] /\ outbox \in [Dbs -> SUBSET Queued]
      /\ DbOf[t] \in Dbs /\ Ids = Projects \cup Tasks
  BY NamesAssumption DEF TypeOK, ServerTypeOK, Ids
<1>2. CASE StartDrain(t) \/ ContinueDrain(t)
  <2>1. PICK l : Post(t, l)
    BY <1>2 DEF StartDrain, ContinueDrain
  <2>2. \A u \in Tabs : /\ drain'[u].snap = IF u = t THEN outbox[DbOf[t]] ELSE drain[u].snap
                        /\ u # t => request'[u] = request[u]
    BY <1>1, <2>1 DEF Post
  <2>3. request'[t].db = DbOf[t] /\ request'[t].muts \subseteq outbox[DbOf[t]]
    BY <1>1, <2>1 DEF Post, ToSend
  <2>4. UNCHANGED <<rows, tx, orphans, reply, landed, replica, outbox, nextSeq, open, born>>
    BY <2>1 DEF Post
  <2>5. QED BY <2>2, <2>3, <2>4 DEF Passes
<1>3. CASE GiveUp(t)
  <2>1. \A u \in Tabs : drain'[u].snap \subseteq drain[u].snap
    BY <1>1, <1>3, NoneHomes DEF GiveUp
  <2>2. QED BY <1>3, <2>1 DEF GiveUp, Passes, serverVars
<1>4. CASE AckOutbox(t)
  <2>1. \A u \in Tabs : drain'[u].snap \subseteq drain[u].snap
    BY <1>1, <1>4 DEF AckOutbox, Drain
  <2>2. \A d \in Dbs : outbox'[d] \subseteq outbox[d]
    BY <1>1, <1>4 DEF AckOutbox
  <2>3. QED BY <1>4, <2>1, <2>2 DEF AckOutbox, Passes, serverVars
<1>5. CASE MergePage(t)
  <2>1. \A u \in Tabs : drain'[u].snap \subseteq drain[u].snap
    BY <1>1, <1>5 DEF MergePage, Drain
  <2>2. ASSUME NEW d \in Dbs, NEW i \in Ids, replica'[d][i] # NoVal
        PROVE  \/ replica[d][i] # NoVal
               \/ \E u \in Tabs : DbOf[u] = d /\ Exists(reply[u].page[i])
    <3>1. CASE d # DbOf[t]
      BY <1>1, <1>5, <2>2, <3>1 DEF MergePage
    <3>2. CASE d = DbOf[t]
      <4>1. replica'[d][i] = Merged(t, i)
        BY <1>1, <1>5, <3>2 DEF MergePage
      <4>2. Exists(reply[t].page[i]) \/ replica[d][i] # NoVal
        BY <2>2, <3>2, <4>1 DEF Merged, Pulled
      <4>3. QED BY <3>2, <4>2
    <3>3. QED BY <3>1, <3>2
  <2>3. QED BY <1>5, <2>1, <2>2 DEF MergePage, Passes, serverVars
<1>6. ASSUME TakeReply(t)
      PROVE  \A u \in Tabs : reply'[u] \in {reply[u], NoReply}
  BY <1>1, <1>6 DEF TakeReply
<1>7. CASE ReceiveError(t)
  <2>1. \A u \in Tabs : drain'[u].snap \subseteq drain[u].snap
    BY <1>1, <1>7, NoneHomes DEF ReceiveError
  <2>2. QED BY <1>6, <1>7, <2>1 DEF ReceiveError, Passes
<1>8. CASE ReceiveResync(t)
  <2>1. \A u \in Tabs : drain'[u].snap \subseteq drain[u].snap
    BY <1>1, <1>8 DEF ReceiveResync, Drain
  <2>2. \A d \in Dbs, i \in Ids : replica'[d][i] # NoVal => replica[d][i] # NoVal
    BY <1>1, <1>8, NoneHomes DEF ReceiveResync
  <2>3. QED BY <1>6, <1>8, <2>1, <2>2 DEF ReceiveResync, Passes
<1>9. CASE SaveCursor(t)
  <2>1. \A u \in Tabs : drain'[u].snap \subseteq drain[u].snap
    <3>1. [drain[t] EXCEPT !.phase = "loop"].snap = drain[t].snap
      BY <1>1 DEF Drain
    <3>2. QED BY <1>1, <1>9, <3>1, NoneHomes DEF SaveCursor
  <2>2. QED BY <1>6, <1>9, <2>1 DEF SaveCursor, Passes
<1>10. QED
  BY <1>2, <1>3, <1>4, <1>5, <1>7, <1>8, <1>9 DEF DrainStep
\* The outboxes shrink, the later entries of a row last, and a capture is what
\* it was, is everything there is, or is dropped.
Shrinks ==
    /\ nextSeq' = nextSeq
    /\ \A d \in Dbs : /\ outbox'[d] \subseteq outbox[d]
                      /\ \A m, k \in outbox[d] :
                           m.id = k.id /\ m.seq <= k.seq /\ m \in outbox'[d] => k \in outbox'[d]
    /\ \A t \in Tabs : drain'[t].snap \in {{}, drain[t].snap, outbox[DbOf[t]]}

(* Then captured entries stay older than the others, and leave together.     *)
LEMMA ShrinksOrder ==
    ASSUME SnapIsOldest, LeaveTogether, Shrinks
    PROVE  SnapIsOldest' /\ LeaveTogether'
<1>1. \A t \in Tabs : DbOf[t] \in Dbs
  BY NamesAssumption
<1>2. \A d \in Dbs : \A m \in outbox'[d] : m.seq < nextSeq'[d]
  BY DEF Shrinks, SnapIsOldest
<1>3. ASSUME NEW t \in Tabs, NEW m \in drain'[t].snap
      PROVE  /\ m.seq < nextSeq'[DbOf[t]]
             /\ \A k \in outbox'[DbOf[t]] \ drain'[t].snap : m.seq < k.seq
             /\ \A k \in drain'[t].snap :
                  m.id = k.id /\ m.seq <= k.seq /\ m \in outbox'[DbOf[t]] => k \in outbox'[DbOf[t]]
  <2>1. CASE drain'[t].snap = drain[t].snap
    BY <1>1, <1>3, <2>1 DEF Shrinks, SnapIsOldest, LeaveTogether
  <2>2. CASE drain'[t].snap = outbox[DbOf[t]]
    BY <1>1, <1>3, <2>2 DEF Shrinks, SnapIsOldest
  <2>3. QED BY <1>3, <2>1, <2>2 DEF Shrinks
<1>4. QED
  BY <1>2, <1>3 DEF SnapIsOldest, LeaveTogether

(* The acknowledgement takes a row's captured entries, all of them, and the  *)
(* others of the row are younger (outbox.ts, deleteApplied).                 *)
LEMMA AckShrinks ==
    ASSUME TypeOK, SnapIsOldest, LeaveTogether, NEW t \in Tabs, AckOutbox(t)
    PROVE  Shrinks
<1> DEFINE d == DbOf[t]
<1>1. /\ outbox \in [Dbs -> SUBSET Queued] /\ drain \in [Tabs -> Drain] /\ d \in Dbs
      /\ drain[t].snap \subseteq Queued /\ \A q \in Queued : q.seq \in Nat
  BY NamesAssumption DEF TypeOK, Drain, Queued, Mutation
<1>2. /\ \A e \in Dbs : outbox'[e] = IF e = d THEN outbox[d] \ Answered(t) ELSE outbox[e]
      /\ \A u \in Tabs : drain'[u].snap = IF u = t THEN {} ELSE drain[u].snap
      /\ nextSeq' = nextSeq
  BY <1>1 DEF AckOutbox, Drain
<1>3. ASSUME NEW m \in outbox[d], NEW k \in outbox[d], m.id = k.id, m.seq <= k.seq,
             m \notin Answered(t)
      PROVE  k \notin Answered(t)
  <2>1. SUFFICES ASSUME k \in Answered(t) PROVE FALSE
    OBVIOUS
  <2>2. m \notin drain[t].snap
    BY <1>3, <2>1 DEF Answered
  <2>3. k \in drain[t].snap
    BY <2>1 DEF Answered
  <2>4. k.seq < m.seq
    BY <2>2, <2>3 DEF SnapIsOldest
  <2>5. m.seq \in Nat /\ k.seq \in Nat
    BY <1>1
  <2>6. QED BY <1>3, <2>4, <2>5
<1> HIDE DEF d
<1>4. QED
  BY <1>1, <1>2, <1>3 DEF Shrinks

(* Every other step of a drain leaves the outbox alone.                      *)
LEMMA DrainShrinks ==
    ASSUME TypeOK, SnapIsOldest, LeaveTogether, NEW t \in Tabs, DrainStep(t)
    PROVE  Shrinks
<1>1. drain \in [Tabs -> Drain] /\ drain[t] \in Drain
  BY DEF TypeOK
<1>2. CASE AckOutbox(t)
  BY <1>2, AckShrinks
<1>3. CASE StartDrain(t) \/ ContinueDrain(t)
  <2>1. PICK l : Post(t, l)
    BY <1>3 DEF StartDrain, ContinueDrain
  <2>2. QED BY <1>1, <2>1 DEF Post, Shrinks
<1>4. CASE GiveUp(t)
  BY <1>1, <1>4, NoneHomes DEF GiveUp, Shrinks
<1>5. CASE MergePage(t)
  BY <1>1, <1>5 DEF MergePage, Shrinks, Drain
<1>6. CASE ReceiveError(t)
  BY <1>1, <1>6, NoneHomes DEF ReceiveError, Shrinks
<1>7. CASE ReceiveResync(t)
  BY <1>1, <1>7 DEF ReceiveResync, Shrinks, Drain
<1>8. CASE SaveCursor(t)
  <2>1. [drain[t] EXCEPT !.phase = "loop"].snap = drain[t].snap
    BY <1>1 DEF Drain
  <2>2. QED BY <1>1, <1>8, <2>1, NoneHomes DEF SaveCursor, Shrinks
<1>9. QED
  BY <1>2, <1>3, <1>4, <1>5, <1>6, <1>7, <1>8 DEF DrainStep

\* Nothing is refused, and what is said to be applied has been committed.
Kindness == NothingRejected /\ AppliedLanded

(* A drain passes the answers on as they are.                                *)
LEMMA PassesKind ==
    ASSUME Kindness, Passes, landed' = landed
    PROVE  Kindness'
BY NoneHomes DEF Kindness, NothingRejected, AppliedLanded, Passes

(* Abandoned requests keep what they carry; signing out empties the stores.  *)
LEMMA ForsakeKeeps ==
    ASSUME TypeOK, NEW T \in SUBSET Tabs, Forsake(T), NEW w, Homes(w), Kindness,
           born' = born, landed' = landed, rows' = rows,
           \A d \in Dbs : /\ outbox'[d] \in {{}, outbox[d]} /\ open'[d] \subseteq open[d]
                          /\ replica'[d] \in {EmptyReplica, replica[d]},
           EndpointInv
    PROVE  Homes(w)' /\ Kindness'
<1>1. /\ tx \in [Tenants -> Transaction] /\ request \in [Tabs -> Request]
      /\ \A t \in Tabs : DbOf[t] \in Dbs
  BY NamesAssumption DEF TypeOK, ServerTypeOK
<1>2. /\ \A d, i : Home(w, d, i)' <=> Home(w, d, i)
      /\ \A d, m : Meant(w, d, m)' <=> Meant(w, d, m)
  BY DEF Home, Meant
<1>3. \A n \in Tenants : /\ tx'[n].todo = tx[n].todo /\ tx'[n].db = tx[n].db
                         /\ tx'[n].writes = tx[n].writes /\ tx'[n].rejected = tx[n].rejected
                         /\ tx'[n].passed = tx[n].passed
                         /\ tx'[n].broken <=> tx[n].broken
  <2>1. ASSUME NEW n \in Tenants
        PROVE  LET x == [tx[n] EXCEPT !.tab = Nobody] IN
               /\ x.todo = tx[n].todo /\ x.db = tx[n].db /\ x.writes = tx[n].writes
               /\ x.rejected = tx[n].rejected /\ x.passed = tx[n].passed
               /\ x.broken = tx[n].broken
    <3>1. tx[n] \in Transaction
      BY <1>1
    <3>2. QED BY <3>1 DEF Transaction
  <2>2. \A n \in Tenants : tx'[n] = IF tx[n].tab \in T THEN [tx[n] EXCEPT !.tab = Nobody]
                                    ELSE tx[n]
    BY DEF Forsake, Abandon
  <2>3. QED BY <2>1, <2>2
<1>4. \A t \in Tabs : /\ drain'[t] = IF t \in T THEN Idle ELSE drain[t]
                      /\ request'[t] = IF t \in T THEN NoRequest ELSE request[t]
                      /\ reply'[t] = IF t \in T THEN NoReply ELSE reply[t]
  BY DEF Forsake, Abandon
<1>5. TaskHomes(w)' /\ RowHomes(w)'
  BY DEF Homes, TaskHomes, RowHomes, Exists
<1>6. DbHomes(w)'
  BY <1>2, NoneHomes DEF Homes, DbHomes
<1>7. TabHomes(w)'
  BY <1>2, <1>4, NoneHomes DEF Homes, TabHomes, Exists
<1>8. TxHomes(w)'
  BY <1>2, <1>3 DEF Homes, TxHomes, Exists
<1>9. OrphanHomes(w)'
  <2>1. ASSUME NEW r \in orphans', NEW m \in r.muts PROVE Meant(w, r.db, m)
    <3>1. CASE r \in orphans
      BY <2>1, <3>1 DEF Homes, OrphanHomes
    <3>2. CASE r \notin orphans
      <4>1. PICK t \in T : r = [request[t] EXCEPT !.tab = Nobody]
        BY <3>2 DEF Forsake, Abandon
      <4>2. request[t] \in Request
        BY <1>1
      <4>3. r.db = request[t].db /\ r.muts = request[t].muts
        BY <4>1, <4>2 DEF Request
      <4>4. QED BY <2>1, <4>3 DEF Homes, TabHomes
    <3>3. QED BY <3>1, <3>2
  <2>2. QED BY <1>2, <2>1 DEF OrphanHomes
<1>10. Kindness'
  BY <1>3, <1>4, NoneHomes DEF Kindness, NothingRejected, AppliedLanded
<1>11. QED BY <1>5, <1>6, <1>7, <1>8, <1>9, <1>10 DEF Homes

(* The two failures of a browser, in full.                                   *)
LEMMA FailuresKeep ==
    ASSUME EndpointInv, NEW w, Homes(w), Kindness, SnapIsOldest, LeaveTogether,
           (\E t \in Tabs : StopDrain(t)) \/ (\E d \in Dbs : SignOut(d))
    PROVE  Homes(w)' /\ Kindness' /\ SnapIsOldest' /\ LeaveTogether'
<1>1. /\ TypeOK /\ outbox \in [Dbs -> SUBSET Queued] /\ open \in [Dbs -> SUBSET Ids]
      /\ replica \in [Dbs -> [Ids -> RowVals]]
  BY DEF EndpointInv, TypeOK
<1>2. ASSUME NEW T \in SUBSET Tabs, Forsake(T)
      PROVE  \A t \in Tabs : drain'[t].snap \in {{}, drain[t].snap}
  BY <1>2, NoneHomes DEF Forsake, Abandon
<1>3. ASSUME NEW t \in Tabs, StopDrain(t)
      PROVE  Homes(w)' /\ Kindness' /\ Shrinks
  <2>1. {t} \in SUBSET Tabs /\ Forsake({t})
    BY <1>3 DEF StopDrain
  <2>2. UNCHANGED <<rows, landed, replica, outbox, nextSeq, open, born>>
    BY <1>3 DEF StopDrain, Forsake, Abandon
  <2>3. Homes(w)' /\ Kindness'
    BY <1>1, <2>1, <2>2, ForsakeKeeps
  <2>4. Shrinks
    BY <1>2, <2>1, <2>2 DEF Shrinks
  <2>5. QED BY <2>3, <2>4
<1>4. ASSUME NEW d \in Dbs, SignOut(d)
      PROVE  Homes(w)' /\ Kindness' /\ Shrinks
  <2> DEFINE T == {t \in Tabs : DbOf[t] = d}
  <2>1. T \in SUBSET Tabs /\ Forsake(T)
    BY <1>4 DEF SignOut
  <2>2. UNCHANGED <<rows, landed, nextSeq, born>>
    BY <1>4 DEF SignOut, Forsake, Abandon
  <2>3. \A e \in Dbs : /\ outbox'[e] \in {{}, outbox[e]} /\ open'[e] \subseteq open[e]
                       /\ replica'[e] \in {EmptyReplica, replica[e]}
    BY <1>1, <1>4 DEF SignOut
  <2> HIDE DEF T
  <2>4. Homes(w)' /\ Kindness'
    BY <1>1, <2>1, <2>2, <2>3, ForsakeKeeps
  <2>5. Shrinks
    BY <1>2, <2>1, <2>2, <2>3 DEF Shrinks
  <2>6. QED BY <2>4, <2>5
<1>5. QED
  BY <1>3, <1>4, ShrinksOrder
-----------------------------------------------------------------------------
(* The steps of the endpoint.                                                *)

(* A row made for a tenant is foreign to no transaction of that tenant, and  *)
(* none of another tenant has it written.                                    *)
LEMMA NotForeign ==
    ASSUME NEW w, Homes(w), NEW n \in Tenants, NEW i \in Ids, w[i] = n
    PROVE  ~Foreign(n, i) /\ ~Waits(n, i)
<1>1. ~Foreign(n, i)
  BY DEF Homes, RowHomes, TxHomes, Foreign, View
<1>2. ~Waits(n, i)
  BY DEF Homes, TxHomes, Waits
<1>3. QED BY <1>1, <1>2

(* Taking a request moves its mutations into the transaction.                *)
LEMMA TakeKeeps ==
    ASSUME EndpointInv, UNCHANGED clientVars, NEW w, Homes(w), Kindness,
           (\E t \in Tabs : TakeRequest(t)) \/ TakeOrphan
    PROVE  Homes(w)' /\ Kindness'
<1>1. /\ tx \in [Tenants -> Transaction] /\ request \in [Tabs -> Request]
      /\ orphans \in SUBSET Request /\ TenantOf \in [Dbs -> Tenants]
  BY NamesAssumption DEF EndpointInv, TypeOK, ServerTypeOK
<1>2. PICK r \in Request :
        /\ tx' = [tx EXCEPT ![TenantOf[r.db]] = Opened(r)]
        /\ \A m \in r.muts : Meant(w, r.db, m)
        /\ \A t \in Tabs : request'[t] \in {request[t], NoRequest}
        /\ orphans' \subseteq orphans
        /\ UNCHANGED <<rows, reply, landed>>
  <2>1. CASE \E t \in Tabs : TakeRequest(t)
    <3>1. PICK t \in Tabs : TakeRequest(t)
      BY <2>1
    <3>2. request[t] \in Request /\ \A m \in request[t].muts : Meant(w, request[t].db, m)
      BY <1>1 DEF Homes, TabHomes
    <3>3. QED BY <1>1, <3>1, <3>2 DEF TakeRequest
  <2>2. CASE TakeOrphan
    <3>1. PICK r \in orphans :
            /\ tx' = [tx EXCEPT ![TenantOf[r.db]] = Opened(r)]
            /\ orphans' = orphans \ {r}
            /\ UNCHANGED <<rows, seq, horizon, request, reply, issued, landed, faults>>
      BY <2>2 DEF TakeOrphan
    <3>2. r \in Request /\ \A m \in r.muts : Meant(w, r.db, m)
      BY <1>1 DEF Homes, OrphanHomes
    <3>3. QED BY <3>1, <3>2
  <2>3. QED BY <2>1, <2>2
<1> DEFINE n == TenantOf[r.db]
           x == Opened(r)
<1>3. n \in Tenants
  BY <1>1, <1>2 DEF Request
<1>4. /\ x.db = r.db /\ x.todo = r.muts /\ x.rejected = {}
      /\ x.writes = [i \in Ids |-> NoRow] /\ x.passed = {}
  BY NoneTypes, <1>2 DEF Opened, Transaction, Request, NoTx
<1>5. x.broken = FALSE
  BY NoneTypes, <1>2 DEF Opened, Transaction, Request, NoTx
<1> HIDE DEF n, x
<1>6. \A o \in Tenants : tx'[o] = IF o = n THEN x ELSE tx[o]
  BY <1>1, <1>2, <1>3 DEF n, x
<1>7. /\ \A d, i : Home(w, d, i)' <=> Home(w, d, i)
      /\ \A d, m : Meant(w, d, m)' <=> Meant(w, d, m)
  BY DEF Home, Meant, clientVars
<1>8. TaskHomes(w)' /\ DbHomes(w)' /\ RowHomes(w)'
  BY <1>2, <1>7 DEF Homes, TaskHomes, DbHomes, RowHomes, Exists, clientVars
<1>9. TabHomes(w)'
  BY <1>2, <1>7, NoneHomes DEF Homes, TabHomes, Exists, clientVars
<1>10. OrphanHomes(w)'
  BY <1>2, <1>7 DEF Homes, OrphanHomes
<1>11. TxHomes(w)'
  <2>1. \A i \in Ids : ~Exists(x.writes[i])
    BY <1>4, NoneHomes
  <2>2. ASSUME NEW o \in Tenants
        PROVE  /\ \A m \in tx'[o].todo : Meant(w, tx'[o].db, m)
               /\ \A i \in Ids : Exists(tx'[o].writes[i]) =>
                    i \in born /\ w[i] = o /\ tx'[o].writes[i].tenant = o
               /\ tx'[o].passed = {}
    <3>1. CASE o = n
      BY <1>2, <1>4, <1>6, <2>1, <3>1
    <3>2. CASE o # n
      BY <1>6, <3>2 DEF Homes, TxHomes
    <3>3. QED BY <3>1, <3>2
  <2>3. QED BY <1>7, <2>2 DEF TxHomes, Exists, clientVars
<1>12. Kindness'
  BY <1>2, <1>4, <1>5, <1>6 DEF Kindness, NothingRejected, AppliedLanded
<1>13. QED BY <1>8, <1>9, <1>10, <1>11, <1>12 DEF Homes

\* Transaction x of n after one more step of it: nothing refused, nothing waited
\* for, and whatever has been written is a row of n's.
Went(w, n, x) ==
    /\ x.todo \subseteq tx[n].todo /\ x.db = tx[n].db
    /\ x.rejected = tx[n].rejected /\ x.broken = tx[n].broken
    /\ x.passed = {}
    /\ \A i \in Ids : Exists(x.writes[i]) => i \in born /\ w[i] = n /\ x.writes[i].tenant = n

(* A step that writes row j at most, which is n's, leaves what n has written *)
(* with n: an upsert and a tombstone keep the tenant of a row.               *)
LEMMA WrittenAtHome ==
    ASSUME EndpointInv, NEW w, Homes(w), NEW n \in Tenants, ApplyMutation(n),
           NEW j \in Ids, j \in born, w[j] = n,
           \A i \in Ids : i # j => tx'[n].writes[i] = tx[n].writes[i]
    PROVE  \A i \in Ids : Exists(tx'[n].writes[i]) =>
              i \in born /\ w[i] = n /\ tx'[n].writes[i].tenant = n
<1>1. ASSUME NEW i \in Ids
      PROVE  tx'[n].writes[i] = tx[n].writes[i] \/ Fresh(n, i, tx'[n].writes[i], seq')
  BY ApplyEffect DEF EndpointInv, Effect, Grown
<1>2. ASSUME NEW i \in Ids, Exists(tx'[n].writes[i])
      PROVE  i \in born /\ w[i] = n /\ tx'[n].writes[i].tenant = n
  <2>1. CASE tx'[n].writes[i] = tx[n].writes[i]
    BY <1>2, <2>1 DEF Homes, TxHomes
  <2>2. CASE tx'[n].writes[i] # tx[n].writes[i]
    <3>1. i = j /\ tx'[n].writes[i].tenant = Owner(n, i)
      BY <1>1, <2>2 DEF Fresh
    <3>2. QED BY <3>1 DEF Owner, Homes, RowHomes
  <2>3. QED BY <2>1, <2>2
<1>3. QED BY <1>2

(* What the data layer queued is accepted: its values are well-formed, its   *)
(* row and its project are the tenant's or new, and nobody else writes them  *)
(* (server.ts, applyMutations).                                              *)
LEMMA QueuedWent ==
    ASSUME EndpointInv, NEW w, Homes(w), NEW n \in Tenants, ApplyMutation(n)
    PROVE  Went(w, n, tx'[n])
<1>1. /\ tx \in [Tenants -> Transaction] /\ tx[n] \in Transaction
      /\ tx[n].writes \in [Ids -> Row] /\ tx[n].open /\ tx[n].passed = {}
      /\ Projects \cap Tasks = {} /\ Ids = Projects \cup Tasks
      /\ \A k \in Tasks : ParentOf[k] \in Projects
  BY NamesAssumption, ClientAssumption
  DEF EndpointInv, TypeOK, ServerTypeOK, Transaction, ApplyMutation, Ids, Homes, TxHomes
<1>2. ~Deadlocked(n)
  BY <1>1 DEF Deadlocked, WaitsFor
<1>3. PICK m \in tx[n].todo :
        \/ m.op = "upsert" /\ m.id \in Projects /\ UpsertProject(n, m)
        \/ m.op = "upsert" /\ m.id \in Tasks /\ UpsertTask(n, m)
        \/ m.op = "delete" /\ DeleteRow(n, m)
  BY <1>2 DEF ApplyMutation
<1>4. /\ Meant(w, tx[n].db, m) /\ TenantOf[tx[n].db] = n
      /\ m \in Queued /\ m.id \in born /\ w[m.id] = n /\ m.id \in Ids
  <2>1. Meant(w, tx[n].db, m) /\ TenantOf[tx[n].db] = n
    BY <1>1 DEF Homes, TxHomes, EndpointInv, ServerInv, Routing
  <2>2. QED BY <2>1 DEF Meant, Home, Queued, Mutation
<1>5. \A i \in Ids : w[i] = n =>
         ~Foreign(n, i) /\ ~Waits(n, i) /\ ~Refused(n, i) /\ ~Pass(n, i)
  BY NotForeign DEF Refused, Pass
<1>6. m.op = "upsert" => m.val \in Vals /\ m.val # Malformed /\ m.val # Unstorable
  BY <1>4, NamesAssumption DEF Queued
<1>7. ASSUME NEW x, Accept(n, m, x),
             \A i \in Ids : i # m.id => x[i] = tx[n].writes[i]
      PROVE  Went(w, n, tx'[n])
  <2>1. /\ tx'[n].todo = tx[n].todo \ {m} /\ tx'[n].db = tx[n].db
        /\ tx'[n].rejected = tx[n].rejected /\ tx'[n].writes = x /\ tx'[n].passed = {}
    BY <1>1, <1>7 DEF Accept, Transaction
  <2>2. tx'[n].broken = tx[n].broken
    BY <1>1, <1>7 DEF Accept, Transaction
  <2>3. \A i \in Ids : i # m.id => tx'[n].writes[i] = tx[n].writes[i]
    BY <1>7, <2>1
  <2>4. \A i \in Ids : Exists(tx'[n].writes[i]) =>
           i \in born /\ w[i] = n /\ tx'[n].writes[i].tenant = n
    BY <1>4, <2>3, WrittenAtHome
  <2>5. QED BY <2>1, <2>2, <2>4 DEF Went
<1>8. ASSUME NEW r, Accept(n, m, [tx[n].writes EXCEPT ![m.id] = r])
      PROVE  Went(w, n, tx'[n])
  <2> DEFINE x == [tx[n].writes EXCEPT ![m.id] = r]
  <2>1. Accept(n, m, x) /\ \A i \in Ids : i # m.id => x[i] = tx[n].writes[i]
    BY <1>1, <1>8
  <2> HIDE DEF x
  <2>2. QED BY <1>7, <2>1
<1>9. ASSUME NEW q, m.op = "upsert", UpsertRow(n, m, q)
      PROVE  Went(w, n, tx'[n])
  <2>1. Accept(n, m, [tx[n].writes EXCEPT ![m.id] = Written(n, m.id, m.val, q, seq + 1)])
    BY <1>4, <1>5, <1>6, <1>9 DEF UpsertRow
  <2>2. QED BY <1>8, <2>1
<1>10. CASE m.op = "upsert" /\ m.id \in Projects /\ UpsertProject(n, m)
  BY <1>6, <1>9, <1>10 DEF UpsertProject
<1>11. CASE m.op = "delete" /\ DeleteRow(n, m)
  <2>1. CASE Accept(n, m, tx[n].writes)
    BY <1>7, <2>1
  <2>2. CASE Accept(n, m, [tx[n].writes EXCEPT ![m.id] = Tombstoned(n, m.id, seq + 1)])
    BY <1>8, <2>2
  <2>3. QED BY <1>4, <1>5, <1>11, <2>1, <2>2 DEF DeleteRow
<1>12. CASE m.op = "upsert" /\ m.id \in Tasks /\ UpsertTask(n, m)
  <2> DEFINE p == m.parent
             r == Written(n, p, StubName, NoProject, seq + 1)
  <2>1. p \in Projects /\ p \in born /\ w[p] = n
    <3>1. p = ParentOf[m.id]
      BY <1>4, <1>12 DEF Meant
    <3>2. QED BY <1>1, <1>4, <1>12, <3>1 DEF Homes, TaskHomes
  <2>2. p \in Ids /\ p # NoProject /\ p \notin tx[n].passed /\ ~Refused(n, p) /\ ~Pass(n, p)
    BY <1>1, <1>5, <2>1, NamesAssumption
  <2>3. \/ tx' = [tx EXCEPT ![n].writes[p] = r, ![n].passed = {}]
        \/ UpsertRow(n, m, p)
    BY <1>6, <1>12, <2>2 DEF UpsertTask, CreateStub
  <2>4. CASE tx' = [tx EXCEPT ![n].writes[p] = r, ![n].passed = {}]
    <3> HIDE DEF p, r
    <3>1. /\ tx'[n].todo = tx[n].todo /\ tx'[n].db = tx[n].db
          /\ tx'[n].rejected = tx[n].rejected /\ tx'[n].passed = {}
          /\ tx'[n].writes = [tx[n].writes EXCEPT ![p] = r]
      BY <1>1, <2>4 DEF Transaction
    <3>2. tx'[n].broken = tx[n].broken
      BY <1>1, <2>4 DEF Transaction
    <3>3. \A i \in Ids : i # p => tx'[n].writes[i] = tx[n].writes[i]
      BY <1>1, <3>1
    <3>4. \A i \in Ids : Exists(tx'[n].writes[i]) =>
             i \in born /\ w[i] = n /\ tx'[n].writes[i].tenant = n
      BY <2>1, <2>2, <3>3, WrittenAtHome
    <3>5. QED BY <3>1, <3>2, <3>4 DEF Went
  <2>5. QED BY <1>9, <1>12, <2>3, <2>4
<1>13. QED BY <1>3, <1>10, <1>11, <1>12

(* Applying a mutation of the data layer keeps everything at home.           *)
LEMMA ApplyKeeps ==
    ASSUME EndpointInv, UNCHANGED clientVars, NEW w, Homes(w), Kindness,
           NEW n \in Tenants, ApplyMutation(n)
    PROVE  Homes(w)' /\ Kindness'
<1>1. tx \in [Tenants -> Transaction]
  BY DEF EndpointInv, TypeOK, ServerTypeOK
<1>2. /\ tx' = [tx EXCEPT ![n] = tx'[n]]
      /\ UNCHANGED <<rows, horizon, request, orphans, reply, issued, landed, faults>>
  BY ApplyEffect DEF EndpointInv
<1>3. Went(w, n, tx'[n])
  BY QueuedWent
<1>4. \A o \in Tenants : o # n => tx'[o] = tx[o]
  BY <1>1, <1>2
<1>5. /\ \A d, i : Home(w, d, i)' <=> Home(w, d, i)
      /\ \A d, m : Meant(w, d, m)' <=> Meant(w, d, m)
  BY DEF Home, Meant, clientVars
<1>6. /\ TaskHomes(w)' /\ DbHomes(w)' /\ TabHomes(w)' /\ OrphanHomes(w)' /\ RowHomes(w)'
  BY <1>2, <1>5
  DEF Homes, TaskHomes, DbHomes, TabHomes, OrphanHomes, RowHomes, Exists, clientVars
<1>7. TxHomes(w)'
  <2>1. ASSUME NEW o \in Tenants
        PROVE  /\ \A m \in tx'[o].todo : Meant(w, tx'[o].db, m)
               /\ \A i \in Ids : Exists(tx'[o].writes[i]) =>
                    i \in born /\ w[i] = o /\ tx'[o].writes[i].tenant = o
               /\ tx'[o].passed = {}
    <3>1. CASE o = n
      BY <1>3, <3>1 DEF Homes, TxHomes, Went
    <3>2. CASE o # n
      BY <1>4, <3>2 DEF Homes, TxHomes
    <3>3. QED BY <3>1, <3>2
  <2>2. QED BY <1>5, <2>1 DEF TxHomes, Exists, clientVars
<1>8. Kindness'
  <2>1. \A o \in Tenants : tx'[o].rejected = {} /\ ~tx'[o].broken
    BY <1>3, <1>4 DEF Kindness, NothingRejected, Went
  <2>2. QED BY <1>2, <2>1 DEF Kindness, NothingRejected, AppliedLanded
<1>9. QED BY <1>6, <1>7, <1>8 DEF Homes

(* An answer carries the tenant's rows, and its applied mutations landed.    *)
LEMMA CloseKeeps ==
    ASSUME EndpointInv, UNCHANGED clientVars, NEW w, Homes(w), Kindness,
           NEW n \in Tenants, tx[n].open, NEW r, Answer(n, r),
           rows' = rows \/ rows' = [i \in Ids |-> View(n, i)],
           UNCHANGED <<request, orphans>>,
           r.rejected = {}, \A d \in Dbs : landed[d] \subseteq landed'[d],
           r.applied \subseteq landed'[tx[n].db],
           \A i \in Ids : Exists(r.page[i]) => i \in born /\ w[i] = n
    PROVE  Homes(w)' /\ Kindness'
<1>1. /\ tx \in [Tenants -> Transaction] /\ reply \in [Tabs -> Reply]
      /\ \A t \in Tabs : DbOf[t] \in Dbs
  BY NamesAssumption DEF EndpointInv, TypeOK, ServerTypeOK
<1>2. \A o \in Tenants : tx'[o] = IF o = n THEN NoTx ELSE tx[o]
  BY <1>1 DEF Answer
<1>3. \A t \in Tabs : reply'[t] = IF t = tx[n].tab THEN r ELSE reply[t]
  BY DEF Answer
<1>4. \A t \in Tabs : t = tx[n].tab => DbOf[t] = tx[n].db /\ TenantOf[DbOf[t]] = n
  BY DEF EndpointInv, ServerInv, Routing, Served
<1>5. /\ \A d, i : Home(w, d, i)' <=> Home(w, d, i)
      /\ \A d, m : Meant(w, d, m)' <=> Meant(w, d, m)
  BY DEF Home, Meant, clientVars
<1>6. /\ TaskHomes(w)' /\ DbHomes(w)' /\ OrphanHomes(w)'
  BY <1>5 DEF Homes, TaskHomes, DbHomes, OrphanHomes, clientVars
<1>7. RowHomes(w)'
  <2>1. ASSUME NEW i \in Ids, Exists(rows'[i])
        PROVE  i \in born /\ w[i] = rows'[i].tenant /\ rows'[i].by = rows'[i].tenant
    <3>1. CASE rows'[i] = rows[i]
      BY <2>1, <3>1 DEF Homes, RowHomes
    <3>2. CASE rows'[i] # rows[i]
      <4>1. Exists(tx[n].writes[i]) /\ rows'[i] = tx[n].writes[i]
        BY <3>2 DEF View
      <4>2. tx[n].writes[i].tenant = n /\ tx[n].writes[i].by = n
        BY <4>1 DEF EndpointInv, ServerInv, WritesAhead, Homes, TxHomes
      <4>3. QED BY <4>1, <4>2 DEF Homes, TxHomes
    <3>3. QED BY <3>1, <3>2
  <2>2. QED BY <2>1 DEF RowHomes, Exists, clientVars
<1>8. TxHomes(w)'
  BY <1>2, <1>5, NoneHomes DEF Homes, TxHomes, Exists, clientVars
<1>9. TabHomes(w)'
  <2>1. ASSUME NEW t \in Tabs, NEW i \in Ids, Exists(reply'[t].page[i])
        PROVE  Home(w, DbOf[t], i)
    <3>1. CASE t = tx[n].tab
      BY <1>3, <1>4, <2>1, <3>1 DEF Home
    <3>2. CASE t # tx[n].tab
      BY <1>3, <2>1, <3>2 DEF Homes, TabHomes
    <3>3. QED BY <3>1, <3>2
  <2>2. QED BY <1>5, <2>1 DEF Homes, TabHomes, Exists, clientVars
<1>10. Kindness'
  <2>1. \A o \in Tenants : tx'[o].rejected = {} /\ ~tx'[o].broken
    BY <1>2, NoneHomes DEF Kindness, NothingRejected
  <2>2. \A t \in Tabs : reply'[t].rejected = {} /\ reply'[t].applied \subseteq landed'[DbOf[t]]
    BY <1>1, <1>3, <1>4 DEF Kindness, NothingRejected, AppliedLanded
  <2>3. QED BY <2>1, <2>2 DEF Kindness, NothingRejected, AppliedLanded
<1>11. QED BY <1>6, <1>7, <1>8, <1>9, <1>10 DEF Homes

(* The three answers and the rollback.                                       *)
LEMMA FinishKeeps ==
    ASSUME EndpointInv, UNCHANGED clientVars, NEW w, Homes(w), Kindness, NEW n \in Tenants,
           FinishPull(n) \/ FinishResync(n) \/ FinishBroken(n) \/ Rollback(n)
    PROVE  Homes(w)' /\ Kindness'
<1>1. /\ tx[n] \in Transaction /\ landed \in [Dbs -> SUBSET Nat] /\ tx[n].db \in Dbs
      /\ tx[n].open /\ tx[n].rejected = {}
  BY DEF EndpointInv, TypeOK, ServerTypeOK, Transaction, Kindness, NothingRejected,
         FinishPull, FinishResync, FinishBroken, Rollback
<1>2. Commit(n) => /\ rows' = [i \in Ids |-> View(n, i)]
                   /\ \A d \in Dbs : landed[d] \subseteq landed'[d]
                   /\ tx[n].applied \subseteq landed'[tx[n].db]
  BY <1>1 DEF Commit
<1>3. CASE FinishPull(n)
  <2> DEFINE r == PullReply(n)
  <2>1. r.rejected = {} /\ r.applied = tx[n].applied
    BY <1>1 DEF PullReply
  <2>2. ASSUME NEW i \in Ids, Exists(r.page[i]) PROVE i \in born /\ w[i] = n
    <3>1. i \in Page(n, Projects) \cup Page(n, Tasks) /\ Exists(View(n, i))
      BY <2>2, NoneHomes DEF PullReply
    <3>2. View(n, i).tenant = n
      BY <3>1 DEF Page, Changed
    <3>3. QED
      BY <3>1, <3>2 DEF Homes, RowHomes, TxHomes, View
  <2>3. /\ Answer(n, r) /\ Commit(n) /\ UNCHANGED <<request, orphans>>
    BY <1>3 DEF FinishPull
  <2> HIDE DEF r
  <2>4. QED
    BY <1>1, <1>2, <2>1, <2>2, <2>3, CloseKeeps
<1>4. CASE FinishResync(n)
  <2> DEFINE r == ResyncReply(n)
  <2>1. NoReply \in Reply
    BY NoneTypes
  <2>2. r.rejected = {} /\ r.applied = tx[n].applied /\ r.page = NoReply.page
    BY <1>1, <2>1 DEF ResyncReply, Reply
  <2>3. /\ Answer(n, r) /\ Commit(n) /\ UNCHANGED <<request, orphans>>
    BY <1>4 DEF FinishResync
  <2> HIDE DEF r
  <2>4. QED
    BY <1>1, <1>2, <2>2, <2>3, NoneHomes, CloseKeeps
<1>5. CASE FinishBroken(n) \/ Rollback(n)
  <2> DEFINE r == ErrorReply
  <2>1. r.rejected = {} /\ r.applied = {} /\ \A i \in Ids : ~Exists(r.page[i])
    BY NoneHomes
  <2>2. /\ Answer(n, r) /\ UNCHANGED <<rows, landed, request, orphans>>
    BY <1>5 DEF FinishBroken, Rollback
  <2> HIDE DEF r
  <2>3. QED
    BY <1>1, <2>1, <2>2, CloseKeeps
<1>6. QED BY <1>3, <1>4, <1>5

(* The collector only removes rows.                                          *)
LEMMA CollectKeeps ==
    ASSUME UNCHANGED clientVars, NEW w, Homes(w), Kindness, CollectTombstones
    PROVE  Homes(w)' /\ Kindness'
<1>1. \A i \in Ids : rows'[i] = rows[i] \/ rows'[i] = NoRow
  BY DEF CollectTombstones
<1>2. UNCHANGED <<seq, tx, request, orphans, reply, issued, landed, faults>>
  BY DEF CollectTombstones
<1>3. /\ \A d, i : Home(w, d, i)' <=> Home(w, d, i)
      /\ \A d, m : Meant(w, d, m)' <=> Meant(w, d, m)
  BY DEF Home, Meant, clientVars
<1>4. RowHomes(w)'
  BY <1>1, NoneHomes DEF Homes, RowHomes, Exists, clientVars
<1>5. /\ TaskHomes(w)' /\ DbHomes(w)' /\ TabHomes(w)' /\ OrphanHomes(w)' /\ TxHomes(w)'
  BY <1>2, <1>3
  DEF Homes, TaskHomes, DbHomes, TabHomes, OrphanHomes, TxHomes, Exists, clientVars
<1>6. Kindness'
  BY <1>2 DEF Kindness, NothingRejected, AppliedLanded
<1>7. QED BY <1>4, <1>5, <1>6 DEF Homes

\* Every row, and every write of a transaction, is that of its own tenant.
OwnWrites ==
    /\ \A i \in Ids : Exists(rows[i]) => rows[i].by = rows[i].tenant
    /\ WritesHoldTheLock

(* So it is where ids stay with the tenant they were made for.               *)
LEMMA OwnWritesHere == OutboxInv => OwnWrites
BY DEF OutboxInv, Homes, RowHomes, TxHomes, OwnWrites, WritesHoldTheLock

(* Initially there is nothing anywhere.                                      *)
LEMMA OutboxInit == Init => OutboxInv
<1> SUFFICES ASSUME Init PROVE OutboxInv
  OBVIOUS
<1>1. /\ \A n \in Tenants : tx[n] = NoTx
      /\ \A t \in Tabs : request[t] = NoRequest /\ reply[t] = NoReply /\ drain[t] = Idle
      /\ \A i \in Ids : rows[i] = NoRow
      /\ \A d \in Dbs : replica[d] = EmptyReplica /\ outbox[d] = {} /\ open[d] = {}
      /\ orphans = {} /\ born = {}
  BY DEF Init, ServerInit
<1>2. PICK w \in [Ids -> Tenants] : TRUE
  <2>1. PICK n \in Tenants : TRUE
    BY NamesAssumption
  <2>2. [i \in Ids |-> n] \in [Ids -> Tenants]
    OBVIOUS
  <2>3. QED BY <2>2
<1>3. Homes(w)
  BY <1>1, NoneHomes
  DEF Homes, TaskHomes, DbHomes, TabHomes, OrphanHomes, TxHomes, RowHomes
<1>4. NothingRejected /\ AppliedLanded /\ SnapIsOldest /\ LeaveTogether
  BY <1>1, NoneHomes DEF NothingRejected, AppliedLanded, SnapIsOldest, LeaveTogether
<1>5. QED BY <1>3, <1>4 DEF OutboxInv

(* Every step keeps the third part of the invariant: one case per action.    *)
LEMMA OutboxNext == OutboxInv /\ EndpointInv /\ [Next]_vars => OutboxInv'
<1> SUFFICES ASSUME OutboxInv, EndpointInv, [Next]_vars PROVE OutboxInv'
  OBVIOUS
<1>1. TypeOK /\ Kindness /\ SnapIsOldest /\ LeaveTogether
  BY DEF OutboxInv, EndpointInv, Kindness
<1>2. PICK w \in [Ids -> Tenants] : Homes(w)
  BY DEF OutboxInv
<1>3. ASSUME NEW x \in [Ids -> Tenants], Homes(x)', Kindness', SnapIsOldest', LeaveTogether'
      PROVE  OutboxInv'
  BY <1>3 DEF OutboxInv, Kindness
<1>4. CASE LocalWrite
  <2>1. UNCHANGED serverVars
    BY <1>1, <1>4, LocalWriteType
  <2>2. Kindness'
    BY <1>1, <2>1 DEF Kindness, NothingRejected, AppliedLanded, serverVars
  <2>3. PICK x \in [Ids -> Tenants] : Homes(x)'
    BY <1>1, <1>2, <1>4, LocalHomes
  <2>4. SnapIsOldest' /\ LeaveTogether'
    BY <1>1, <1>2, <1>4, LocalHomes
  <2>5. QED BY <1>3, <2>2, <2>3, <2>4
<1>5. ASSUME NEW t \in Tabs, DrainStep(t) PROVE OutboxInv'
  <2>1. Passes /\ landed' = landed
    BY <1>1, <1>5, DrainPasses
  <2>2. Homes(w)' /\ Kindness'
    BY <1>1, <1>2, <2>1, PassesHomes, PassesKind
  <2>3. SnapIsOldest' /\ LeaveTogether'
    BY <1>1, <1>5, DrainShrinks, ShrinksOrder
  <2>4. QED BY <1>3, <2>2, <2>3
<1>6. CASE (\E t \in Tabs : StopDrain(t)) \/ (\E d \in Dbs : SignOut(d))
  BY <1>1, <1>2, <1>3, <1>6, FailuresKeep
<1>7. ASSUME UNCHANGED clientVars
      PROVE  SnapIsOldest' /\ LeaveTogether'
  BY <1>1, <1>7 DEF SnapIsOldest, LeaveTogether, clientVars
<1>8. CASE ServerStep /\ UNCHANGED clientVars
  BY <1>1, <1>2, <1>3, <1>7, <1>8, TakeKeeps, ApplyKeeps, FinishKeeps DEF ServerStep
<1>9. CASE \E n \in Tenants : Rollback(n) /\ UNCHANGED clientVars
  BY <1>1, <1>2, <1>3, <1>7, <1>9, FinishKeeps
<1>10. CASE CollectTombstones /\ UNCHANGED clientVars
  BY <1>1, <1>2, <1>3, <1>7, <1>10, CollectKeeps
<1>11. CASE UNCHANGED vars
  <2>1. Passes /\ Shrinks /\ landed' = landed
    BY <1>11 DEF vars, serverVars, clientVars, Passes, Shrinks
  <2>2. QED BY <1>1, <1>2, <1>3, <2>1, PassesHomes, PassesKind, ShrinksOrder
<1>12. QED
  BY <1>4, <1>5, <1>6, <1>8, <1>9, <1>10, <1>11 DEF Next

(* The third part of the invariant holds in every state, Web Locks or not.   *)
THEOREM OutboxInvariant == Spec => []OutboxInv
<1>1. Init => OutboxInv
  BY OutboxInit
<1>2. OutboxInv /\ EndpointInv /\ [Next]_vars => OutboxInv'
  BY OutboxNext
<1>3. QED
  BY <1>1, <1>2, EndpointInvariant, PTL DEF Spec
(* A write of the data layer that drops entries is a project's deletion.     *)
LEMMA WriteForgets ==
    ASSUME TypeOK, SnapIsOldest, LocalWrite, NEW d \in Dbs, NEW m \in outbox[d] \ outbox'[d]
    PROVE  \E k \in outbox'[d] \ outbox[d] :
                k.op = "delete" /\ k.id \in {m.id} \cup {ParentOf[i] : i \in {m.id} \cap Tasks}
<1>1. outbox \in [Dbs -> SUBSET Queued] /\ nextSeq \in [Dbs -> Nat \ {0}]
  BY DEF TypeOK
<1>2. ASSUME NEW e \in Dbs, NEW k, Enqueue(e, k, outbox[e]) PROVE FALSE
  BY <1>1, <1>2 DEF Enqueue
<1>3. PICK e \in Dbs, p \in Projects : DeleteProject(e, p)
  BY <1>2 DEF LocalWrite, OpenRow, CreateProject, AddTask, EditRow, DeleteTask
<1> DEFINE family == {p} \cup {i \in Tasks : ParentOf[i] = p}
           box == {k \in outbox[e] : k.id \notin family}
           k == Delete(e, p)
<1>4. outbox' = [outbox EXCEPT ![e] = box \cup {k}]
  BY <1>3 DEF DeleteProject, Enqueue
<1>5. d = e /\ m \notin box
  BY <1>1, <1>4
<1>6. m.id \in family
  BY <1>5
<1>7. k.op = "delete" /\ k.id = p /\ k.seq = nextSeq[e]
  BY DEF Delete
<1>8. k \notin outbox[d]
  <2>1. \A q \in outbox[e] : q.seq < nextSeq[e]
    BY DEF SnapIsOldest
  <2> HIDE DEF k
  <2>2. QED BY <1>1, <1>5, <1>7, <2>1
<1>9. k \in outbox'[d]
  BY <1>1, <1>4, <1>5
<1>10. p \in {m.id} \cup {ParentOf[i] : i \in {m.id} \cap Tasks}
  BY <1>6
<1> HIDE DEF k
<1>11. QED BY <1>7, <1>8, <1>9, <1>10

(* An acknowledgement drops entries whose row's last captured write landed:  *)
(* none was refused, and that last write was still queued with them.         *)
LEMMA AckForgets ==
    ASSUME TypeOK, OutboxInv, NEW t \in Tabs, AckOutbox(t),
           NEW d \in Dbs, NEW m \in outbox[d] \ outbox'[d]
    PROVE  \E k \in outbox[d] : k.id = m.id /\ k.seq >= m.seq /\ k.seq \in landed[d]
<1>1. /\ outbox \in [Dbs -> SUBSET Queued] /\ drain[t].snap \subseteq Queued
      /\ \A q \in Queued : q.seq \in Nat
  BY DEF TypeOK, Drain, Queued, Mutation
<1>2. d = DbOf[t] /\ m \in Answered(t)
  BY <1>1 DEF AckOutbox
<1>3. PICK k \in ToSend(drain[t].snap) :
        k.id = m.id /\ k.seq \in reply[t].applied \cup reply[t].rejected
  BY <1>2 DEF Answered
<1>4. m \in drain[t].snap /\ k \in drain[t].snap /\ m.seq <= k.seq
  BY <1>2, <1>3 DEF Answered, ToSend
<1>5. k \in outbox[d]
  BY <1>2, <1>3, <1>4 DEF OutboxInv, LeaveTogether
<1>6. k.seq \in landed[d]
  BY <1>2, <1>3 DEF OutboxInv, NothingRejected, AppliedLanded
<1>7. m.seq \in Nat /\ k.seq \in Nat
  BY <1>1, <1>4
<1>8. QED BY <1>3, <1>4, <1>5, <1>6, <1>7

(* An edit leaves the outbox only when it, or a later write of its row, is   *)
(* on the server, or the user deleted the project or signed out: whatever    *)
(* drains overlap, with Web Locks or without (outbox.ts, deleteApplied).     *)
THEOREM OutboxIsNeverLossy == Spec => OutboxForgetsOnlyLanded
<1> DEFINE A == \A d \in Dbs : \A m \in outbox[d] \ outbox'[d] :
         \/ \E k \in outbox[d] : k.id = m.id /\ k.seq >= m.seq /\ k.seq \in landed[d]
         \/ \E k \in outbox'[d] \ outbox[d] :
                k.op = "delete" /\ k.id \in {m.id} \cup {ParentOf[i] : i \in {m.id} \cap Tasks}
         \/ outbox'[d] = {} /\ replica'[d] = EmptyReplica /\ cursor'[d] = 0
<1>1. OutboxInv /\ EndpointInv /\ [Next]_vars => [A]_vars
  <2> SUFFICES ASSUME OutboxInv, EndpointInv, Next,
                      NEW d \in Dbs, NEW m \in outbox[d] \ outbox'[d]
               PROVE  \/ \E k \in outbox[d] : /\ k.id = m.id /\ k.seq >= m.seq
                                              /\ k.seq \in landed[d]
                      \/ \E k \in outbox'[d] \ outbox[d] :
                           /\ k.op = "delete"
                           /\ k.id \in {m.id} \cup {ParentOf[i] : i \in {m.id} \cap Tasks}
                      \/ outbox'[d] = {} /\ replica'[d] = EmptyReplica /\ cursor'[d] = 0
    OBVIOUS
  <2>1. TypeOK /\ SnapIsOldest
    BY DEF EndpointInv, OutboxInv
  <2>2. /\ outbox \in [Dbs -> SUBSET Queued] /\ replica \in [Dbs -> [Ids -> RowVals]]
        /\ cursor \in [Dbs -> Nat]
    BY <2>1 DEF TypeOK
  <2>3. CASE LocalWrite
    BY <2>1, <2>3, WriteForgets
  <2>4. ASSUME NEW t \in Tabs, DrainStep(t) PROVE AckOutbox(t)
    BY <2>4 DEF DrainStep, StartDrain, ContinueDrain, Post, GiveUp, ReceiveError,
                ReceiveResync, MergePage, SaveCursor
  <2>5. CASE \E t \in Tabs : DrainStep(t)
    BY <2>1, <2>4, <2>5, AckForgets
  <2>6. CASE \E e \in Dbs : SignOut(e)
    <3>1. PICK e \in Dbs : SignOut(e)
      BY <2>6
    <3>2. d = e
      BY <2>2, <3>1 DEF SignOut
    <3>3. QED BY <2>2, <3>1, <3>2 DEF SignOut
  <2>7. ~(\E t \in Tabs : StopDrain(t)) /\ ~UNCHANGED clientVars
    BY DEF StopDrain, clientVars
  <2>8. QED BY <2>3, <2>5, <2>6, <2>7 DEF Next
<1> HIDE DEF A
<1>2. Spec => [][A]_vars
  BY <1>1, OutboxInvariant, EndpointInvariant, PTL DEF Spec
<1>3. QED
  BY <1>2 DEF OutboxForgetsOnlyLanded, A

(* What the endpoint promises of any caller only up to simultaneous          *)
(* creations, it keeps in full for the shipped client, whose ids are random: *)
(* who writes a tenant's rows holds its lock (server.ts, the invariant of    *)
(* its header).                                                              *)
THEOREM ClientsHoldTheLock == Spec => []WritesHoldTheLock
<1>1. OutboxInv => WritesHoldTheLock
  BY OwnWritesHere DEF OwnWrites
<1>2. QED
  BY <1>1, OutboxInvariant, PTL

(* Nothing the shipped client sends is refused or breaks a transaction: the  *)
(* rejected list of an answer is for other callers (server.ts, the checks of *)
(* applyMutations; outbox.ts drops a refused mutation without a trace).      *)
THEOREM NothingIsRejected == Spec => []NothingRejected
<1>1. OutboxInv => NothingRejected
  BY DEF OutboxInv
<1>2. QED
  BY <1>1, OutboxInvariant, PTL

-----------------------------------------------------------------------------
(***************************************************************************)
(* The drain, and the main theorem about the client: in browsers with Web  *)
(* Locks the cursor never runs ahead of the replica.  DrainInv of module   *)
(* SyncInv is shown to be inductive, one kind of step at a time, on top of *)
(* the endpoint's invariant and the outbox's.                              *)
(***************************************************************************)

(* The data layer.                                                           *)

\* A write of database d: mutation m is queued over what box keeps, and the
\* replica becomes rep; rows other than m's keep their value and entries, or are
\* tasks that go with their project and leave neither.
Writes(d, m, box, rep) ==
    /\ m \in Queued /\ m.seq = nextSeq[d]
    /\ box \subseteq outbox[d]
    /\ rep \in [Ids -> RowVals]
    /\ \A i \in Ids : i # m.id =>
         \/ /\ rep[i] = replica[d][i]
            /\ \A k \in outbox[d] : k.id = i => k \in box
         \/ /\ i \in Tasks /\ rep[i] = NoVal
            /\ \A k \in box : k.id # i
    /\ m.op = "delete" => rep[m.id] = NoVal

\* Such a write is the whole of a step as far as the invariant is concerned.
Wrote(d, m, box, rep) ==
    /\ Writes(d, m, box, rep)
    /\ outbox' = [outbox EXCEPT ![d] = box \cup {m}]
    /\ nextSeq' = [nextSeq EXCEPT ![d] = nextSeq[d] + 1]
    /\ replica' = [replica EXCEPT ![d] = rep]

(* Every write of the data layer is one of these, or changes nothing.        *)
LEMMA LocalWriteEffect ==
    ASSUME TypeOK, LocalWrite
    PROVE  \/ UNCHANGED <<outbox, nextSeq, replica>>
           \/ \E d \in Dbs : \E m \in Queued : \E box \in SUBSET Queued :
                Wrote(d, m, box, replica'[d])
<1>1. /\ replica \in [Dbs -> [Ids -> RowVals]] /\ outbox \in [Dbs -> SUBSET Queued]
      /\ Projects \cap Tasks = {} /\ Ids = Projects \cup Tasks
  BY NamesAssumption DEF TypeOK, Ids
<1>2. ASSUME NEW d \in Dbs, NEW i \in Ids, NEW v \in RowVals, NEW m \in Queued,
             replica' = [replica EXCEPT ![d][i] = v], m.id = i, m.seq = nextSeq[d],
             m.op = "delete" => v = NoVal,
             Enqueue(d, m, outbox[d])
      PROVE  Wrote(d, m, outbox[d], replica'[d])
  <2> DEFINE rep == [replica[d] EXCEPT ![i] = v]
  <2>1. replica'[d] = rep /\ replica' = [replica EXCEPT ![d] = rep]
    BY <1>1, <1>2
  <2>2. rep \in [Ids -> RowVals] /\ \A j \in Ids : rep[j] = IF j = i THEN v ELSE replica[d][j]
    BY <1>1
  <2> HIDE DEF rep
  <2>3. Writes(d, m, outbox[d], rep)
    BY <1>1, <1>2, <2>2 DEF Writes
  <2>4. QED
    BY <1>2, <2>1, <2>3 DEF Wrote, Enqueue
<1>3. ASSUME NEW d \in Dbs, NEW i \in Ids, NEW v \in Vals,
             replica' = [replica EXCEPT ![d][i] = v], Enqueue(d, Upsert(d, i, v), outbox[d])
      PROVE  Wrote(d, Upsert(d, i, v), outbox[d], replica'[d])
  <2>1. Upsert(d, i, v) \in Queued /\ v \in RowVals
    BY QueuedTypes DEF RowVals
  <2>2. /\ Upsert(d, i, v).id = i /\ Upsert(d, i, v).op = "upsert"
        /\ Upsert(d, i, v).seq = nextSeq[d]
    BY DEF Upsert
  <2>3. QED BY <1>2, <1>3, <2>1, <2>2
<1>4. ASSUME NEW d \in Dbs, NEW i \in Ids
      PROVE  OpenRow(d, i) => UNCHANGED <<outbox, nextSeq, replica>>
  BY DEF OpenRow
<1>5. ASSUME NEW d \in Dbs, NEW p \in Projects, NEW v \in Vals, CreateProject(d, p, v)
      PROVE  \E m \in Queued : \E box \in SUBSET Queued : Wrote(d, m, box, replica'[d])
  <2>1. p \in Ids /\ Upsert(d, p, v) \in Queued /\ outbox[d] \in SUBSET Queued
    BY <1>1, QueuedTypes
  <2>2. QED BY <1>3, <1>5, <2>1 DEF CreateProject
<1>6. ASSUME NEW d \in Dbs, NEW k \in Tasks, NEW v \in Vals, AddTask(d, k, v)
      PROVE  \E m \in Queued : \E box \in SUBSET Queued : Wrote(d, m, box, replica'[d])
  <2>1. k \in Ids /\ Upsert(d, k, v) \in Queued /\ outbox[d] \in SUBSET Queued
    BY <1>1, QueuedTypes
  <2>2. QED BY <1>3, <1>6, <2>1 DEF AddTask
<1>7. ASSUME NEW d \in Dbs, NEW i \in Ids, NEW v \in Vals, EditRow(d, i, v)
      PROVE  \E m \in Queued : \E box \in SUBSET Queued : Wrote(d, m, box, replica'[d])
  <2>1. Upsert(d, i, v) \in Queued /\ outbox[d] \in SUBSET Queued
    BY <1>1, QueuedTypes
  <2>2. QED BY <1>3, <1>7, <2>1 DEF EditRow
<1>8. ASSUME NEW d \in Dbs, NEW k \in Tasks, DeleteTask(d, k)
      PROVE  \E m \in Queued : \E box \in SUBSET Queued : Wrote(d, m, box, replica'[d])
  <2>1. /\ k \in Ids /\ Delete(d, k) \in Queued /\ outbox[d] \in SUBSET Queued
        /\ NoVal \in RowVals
    BY <1>1, QueuedTypes DEF RowVals
  <2>2. Delete(d, k).id = k /\ Delete(d, k).seq = nextSeq[d]
    BY DEF Delete
  <2>3. QED BY <1>2, <1>8, <2>1, <2>2 DEF DeleteTask
<1>9. ASSUME NEW d \in Dbs, NEW p \in Projects, DeleteProject(d, p)
      PROVE  \E m \in Queued : \E box \in SUBSET Queued : Wrote(d, m, box, replica'[d])
  <2> DEFINE family == {p} \cup {k \in Tasks : ParentOf[k] = p}
             box == {k \in outbox[d] : k.id \notin family}
             rep == [i \in Ids |-> IF i \in family THEN NoVal ELSE replica[d][i]]
             m == Delete(d, p)
  <2>1. p \in Ids /\ m \in Queued /\ box \in SUBSET Queued /\ NoVal \in RowVals
    BY <1>1, QueuedTypes DEF RowVals
  <2>2. m.id = p /\ m.seq = nextSeq[d]
    BY DEF Delete
  <2>3. rep \in [Ids -> RowVals]
    <3> HIDE DEF family
    <3>1. QED BY <1>1, <2>1
  <2>4. replica' = [replica EXCEPT ![d] = rep] /\ replica'[d] = rep
    BY <1>1, <1>9 DEF DeleteProject
  <2>5. p \in family /\ \A i \in family : i # p => i \in Tasks
    BY <1>1
  <2>6. Enqueue(d, m, box)
    BY <1>9 DEF DeleteProject
  <2> HIDE DEF family, m
  <2>7. Writes(d, m, box, rep)
    BY <1>1, <2>1, <2>2, <2>3, <2>5 DEF Writes
  <2> HIDE DEF box, rep
  <2>8. Wrote(d, m, box, replica'[d])
    BY <2>4, <2>6, <2>7 DEF Wrote, Enqueue
  <2>9. QED BY <2>1, <2>8
<1>10. QED
  BY <1>4, <1>5, <1>6, <1>7, <1>8, <1>9 DEF LocalWrite

(* What is queued, captured and sent is about rows there are.                *)
LEMMA QueuedIds ==
    ASSUME TypeOK
    PROVE  /\ \A m \in Queued : m.id \in Ids
           /\ \A t \in Tabs : \A m \in ToSend(drain[t].snap) : m \in Queued /\ m.id \in Ids
           /\ \A d \in Dbs : \A m \in outbox[d] : m \in Queued /\ m.id \in Ids
<1>1. \A m \in Queued : m.id \in Ids
  BY DEF Queued, Mutation
<1>2. \A t \in Tabs : drain[t].snap \subseteq Queued
  BY DEF TypeOK, Drain
<1>3. \A d \in Dbs : outbox[d] \subseteq Queued
  BY DEF TypeOK
<1>4. QED BY <1>1, <1>2, <1>3 DEF ToSend

(* The second part of the invariant is about these variables only.           *)
LEMMA DrainFrame ==
    ASSUME DrainInv,
           UNCHANGED <<rows, tx, request, reply, replica, outbox, nextSeq, cursor, drain>>
    PROVE  DrainInv'
<1>1. OneDrain' /\ Channels'
  BY DEF DrainInv, OneDrain, Channels, Sent, Replied, Served
<1>2. SentAreCovered'
  BY DEF DrainInv, SentAreCovered, Served, Covered, View, Exists
<1>3. SnapIsOldest' /\ DeletesAreLocal'
  BY DEF DrainInv, SnapIsOldest, DeletesAreLocal
<1>4. MergedFaithful' /\ RowsFaithful'
  BY DEF DrainInv, MergedFaithful, RowsFaithful, Shows, Settled, Pending, Visible, Exists, IsLive
<1>5. QED BY <1>1, <1>2, <1>3, <1>4 DEF DrainInv

(* A write of the data layer keeps the second part: the row it writes is     *)
(* pending, and rows that are pending are promised nothing (projects.ts).    *)
LEMMA LocalWriteStep ==
    ASSUME TypeOK, DrainInv, LocalWrite
    PROVE  DrainInv'
<1>1. UNCHANGED <<rows, tx, request, reply, cursor, drain>>
  BY LocalWriteType DEF serverVars
<1>2. CASE UNCHANGED <<outbox, nextSeq, replica>>
  BY <1>1, <1>2, DrainFrame
<1>3. ASSUME NEW d \in Dbs, NEW m \in Queued, NEW box \in SUBSET Queued,
             Wrote(d, m, box, replica'[d])
      PROVE  DrainInv'
  <2>1. /\ replica \in [Dbs -> [Ids -> RowVals]] /\ outbox \in [Dbs -> SUBSET Queued]
        /\ nextSeq \in [Dbs -> Nat \ {0}]
        /\ \A t \in Tabs : DbOf[t] \in Dbs
        /\ \A t \in Tabs : drain[t].snap \subseteq Queued
        /\ Projects \subseteq Ids
    BY NamesAssumption DEF TypeOK, Drain, Ids
  <2>2. \A e \in Dbs : /\ outbox'[e] = IF e = d THEN box \cup {m} ELSE outbox[e]
                       /\ nextSeq'[e] = IF e = d THEN nextSeq[d] + 1 ELSE nextSeq[e]
                       /\ e # d => replica'[e] = replica[e]
    BY <1>3, <2>1 DEF Wrote
  <2>3. /\ m.seq = nextSeq[d] /\ box \subseteq outbox[d]
        /\ \A i \in Ids : i # m.id =>
             \/ /\ replica'[d][i] = replica[d][i]
                /\ \A k \in outbox[d] : k.id = i => k \in box
             \/ /\ i \in Tasks /\ replica'[d][i] = NoVal
                /\ \A k \in box : k.id # i
        /\ m.op = "delete" => replica'[d][m.id] = NoVal
    BY <1>3 DEF Wrote, Writes
  <2>4. \A k \in Queued : k.seq \in Nat /\ k.id \in Ids
    BY DEF Queued, Mutation
  <2>5. OneDrain' /\ Channels'
    BY <1>1 DEF DrainInv, OneDrain, Channels, Sent, Replied, Served
  <2>6. SentAreCovered'
    BY <1>1 DEF DrainInv, SentAreCovered, Served, Covered, View, Exists
  <2>7. /\ \A e \in Dbs : \A k \in outbox[e] : k.seq < nextSeq[e]
        /\ \A t \in Tabs : \A k \in drain[t].snap :
             /\ k.seq < nextSeq[DbOf[t]]
             /\ \A l \in outbox[DbOf[t]] \ drain[t].snap : k.seq < l.seq
    BY DEF DrainInv, SnapIsOldest
  <2>8. SnapIsOldest'
    <3>1. ASSUME NEW e \in Dbs, NEW k \in outbox'[e] PROVE k.seq < nextSeq'[e]
      <4>1. nextSeq[e] \in Nat /\ k \in Queued
        BY <2>1, <2>2
      <4>2. QED BY <4>1, <2>2, <2>3, <2>4, <2>7
    <3>2. ASSUME NEW t \in Tabs, NEW k \in drain[t].snap
          PROVE  /\ k.seq < nextSeq'[DbOf[t]]
                 /\ \A l \in outbox'[DbOf[t]] \ drain[t].snap : k.seq < l.seq
      <4>1. nextSeq[DbOf[t]] \in Nat /\ DbOf[t] \in Dbs /\ k.seq \in Nat
        BY <2>1, <2>4
      <4>2. k.seq < nextSeq[DbOf[t]]
        BY <2>7
      <4>3. k.seq < nextSeq'[DbOf[t]]
        BY <4>1, <4>2, <2>2
      <4>4. ASSUME NEW l \in outbox'[DbOf[t]] \ drain[t].snap PROVE k.seq < l.seq
        <5>1. l \in outbox[DbOf[t]] \/ (DbOf[t] = d /\ l = m)
          BY <4>1, <2>2, <2>3
        <5>2. QED BY <5>1, <4>2, <2>3, <2>7
      <4>5. QED BY <4>3, <4>4
    <3>3. QED BY <3>1, <3>2, <1>1 DEF SnapIsOldest
  <2>9. DeletesAreLocal'
    <3>1. ASSUME NEW e \in Dbs, NEW k \in outbox'[e], k.op = "delete",
                 \A l \in outbox'[e] : l.id = k.id => l.seq <= k.seq
          PROVE  replica'[e][k.id] = NoVal
      <4>1. CASE e # d
        BY <4>1, <3>1, <2>2 DEF DrainInv, DeletesAreLocal
      <4>2. CASE e = d /\ k.id = m.id
        <5>1. k.seq >= m.seq
          BY <4>2, <3>1, <2>2
        <5>2. k = m
          <6>1. k \in outbox[d] => k.seq < m.seq
            BY <2>3, <2>7
          <6>2. k \in Queued
            BY <3>1, <4>2, <2>1, <2>2
          <6>3. QED BY <6>1, <6>2, <5>1, <4>2, <3>1, <2>2, <2>3, <2>4
        <5>3. QED BY <5>2, <4>2, <3>1, <2>3
      <4>3. CASE e = d /\ k.id # m.id
        <5>1. k \in box /\ k \in outbox[d] /\ k.id \in Ids
          BY <4>3, <3>1, <2>1, <2>2, <2>3, <2>4
        <5>2. /\ replica'[d][k.id] = replica[d][k.id]
              /\ \A l \in outbox[d] : l.id = k.id => l \in box
          BY <5>1, <4>3, <2>3
        <5>3. \A l \in outbox[d] : l.id = k.id => l.seq <= k.seq
          BY <5>2, <4>3, <3>1, <2>2
        <5>4. replica[d][k.id] = NoVal
          BY <5>1, <5>3, <3>1 DEF DrainInv, DeletesAreLocal
        <5>5. QED BY <5>2, <5>4, <4>3
      <4>4. QED BY <4>1, <4>2, <4>3
    <3>2. ASSUME NEW t \in Tabs, NEW k \in ToSend(drain[t].snap),
                 k.op = "delete",
                 \A l \in outbox'[DbOf[t]] : l.id = k.id => l \in drain[t].snap
          PROVE  replica'[DbOf[t]][k.id] = NoVal
      <4>1. DbOf[t] \in Dbs
        BY <2>1
      <4>2. CASE DbOf[t] # d
        BY <4>1, <4>2, <3>2, <2>2 DEF DrainInv, DeletesAreLocal
      <4>3. CASE DbOf[t] = d
        <5>1. k.id # m.id
          <6>1. m \notin drain[t].snap
            BY <4>3, <2>3, <2>4, <2>7
          <6>2. QED BY <6>1, <4>1, <4>3, <3>2, <2>2
        <5>2. k.id \in Ids
          BY <2>1, <2>4, <3>2 DEF ToSend
        <5>3. CASE \A l \in outbox[d] : l.id = k.id => l \in box
          <6>1. \A l \in outbox[d] : l.id = k.id => l \in drain[t].snap
            BY <5>3, <4>3, <3>2, <2>2
          <6>2. replica[d][k.id] = NoVal
            BY <6>1, <4>3, <3>2 DEF DrainInv, DeletesAreLocal
          <6>3. QED BY <5>1, <5>2, <6>2, <4>3, <2>3
        <5>4. CASE ~\A l \in outbox[d] : l.id = k.id => l \in box
          BY <5>1, <5>2, <5>4, <4>3, <2>3
        <5>5. QED BY <5>3, <5>4
      <4>4. QED BY <4>2, <4>3
    <3>3. QED BY <3>1, <3>2, <1>1 DEF DeletesAreLocal
  <2>10. \A e \in Dbs, i \in Ids : ~Pending(e, i)' =>
            \/ ~Pending(e, i) /\ replica'[e][i] = replica[e][i]
            \/ i \in Tasks /\ replica'[e][i] = NoVal
    BY <2>2, <2>3 DEF Pending
  <2>11. MergedFaithful' /\ RowsFaithful'
    <3>1. MergedFaithful'
      BY <1>1, <2>1, <2>10 DEF DrainInv, MergedFaithful, Shows, Visible, Exists, IsLive
    <3>2. RowsFaithful'
      BY <1>1, <2>1, <2>10 DEF DrainInv, RowsFaithful, Shows, Settled, Visible, Exists, IsLive
    <3>3. QED BY <3>1, <3>2
  <2>12. QED
    BY <2>5, <2>6, <2>8, <2>9, <2>11 DEF DrainInv
<1>4. QED
  BY <1>2, <1>3, LocalWriteEffect

-----------------------------------------------------------------------------
(* The drain.                                                                *)

(* A tab that is not in the middle of an exchange has no request, no         *)
(* transaction, no answer and no snapshot.                                   *)
LEMMA Quiet ==
    ASSUME Channels, NEW t \in Tabs, drain[t].phase \in {"idle", "loop"}
    PROVE  /\ ~Sent(t) /\ ~Replied(t)
           /\ \A n \in Tenants : ~Served(n, t)
           /\ drain[t].snap = {} /\ ToSend(drain[t].snap) = {}
BY DEF Channels, ToSend

(* While a tab drains, the other tabs of its database are quiet.             *)
LEMMA Alone ==
    ASSUME DrainInv, NEW t \in Tabs, drain[t].phase # "idle",
           NEW u \in Tabs, u # t, DbOf[u] = DbOf[t]
    PROVE  /\ drain[u].phase = "idle"
           /\ ~Sent(u) /\ ~Replied(u)
           /\ \A n \in Tenants : ~Served(n, u)
           /\ drain[u].snap = {} /\ ToSend(drain[u].snap) = {}
<1>1. drain[u].phase = "idle"
  BY DEF DrainInv, OneDrain
<1>2. QED
  BY <1>1, Quiet DEF DrainInv

(* Posting keeps the second part: the request carries the cursor and the     *)
(* whole outbox, so the snapshot covers what it sends (client.ts).           *)
LEMMA PostDrain ==
    ASSUME TypeOK, DrainInv, NEW t \in Tabs, NEW l \in Nat, Post(t, l),
           drain[t].phase \in {"idle", "loop"},
           \A u \in Tabs \ {t} : DbOf[u] = DbOf[t] => drain[u].phase = "idle"
    PROVE  DrainInv'
<1> DEFINE d == DbOf[t]
           x == [phase |-> "waiting", snap |-> outbox[d], loops |-> l]
           r == [tab |-> t, db |-> d, cursor |-> cursor[d], muts |-> ToSend(outbox[d])]
<1>1. /\ request \in [Tabs -> Request] /\ drain \in [Tabs -> Drain]
      /\ outbox \in [Dbs -> SUBSET Queued]
      /\ \A u \in Tabs : DbOf[u] \in Dbs
  BY NamesAssumption DEF TypeOK, ServerTypeOK
<1>2. /\ x.phase = "waiting" /\ x.snap = outbox[d]
      /\ r.cursor = cursor[d] /\ r.muts = ToSend(outbox[d]) /\ r.tab = t
  OBVIOUS
<1> HIDE DEF x, r
<1>3. /\ \A u \in Tabs : drain'[u] = IF u = t THEN x ELSE drain[u]
      /\ \A u \in Tabs : request'[u] = IF u = t THEN r ELSE request[u]
      /\ UNCHANGED <<rows, tx, reply, replica, outbox, nextSeq, cursor>>
  BY <1>1 DEF Post, x, r
<1>4. ~Replied(t) /\ \A n \in Tenants : ~Served(n, t)
  BY Quiet DEF DrainInv
<1>5. OneDrain'
  BY <1>1, <1>3 DEF DrainInv, OneDrain
<1>6. Channels'
  <2>1. ASSUME NEW u \in Tabs
        PROVE  /\ Sent(u)' => /\ drain'[u].phase = "waiting" /\ ~Replied(u)'
                              /\ request'[u].cursor = cursor'[DbOf[u]]
                              /\ request'[u].muts = ToSend(drain'[u].snap)
               /\ Replied(u)' => /\ drain'[u].phase \in {"waiting", "acked", "merged"}
                                 /\ reply'[u].kind = "ok" => reply'[u].base = cursor'[DbOf[u]]
               /\ drain'[u].phase \in {"acked", "merged"} => reply'[u].kind = "ok"
               /\ drain'[u].phase # "waiting" => drain'[u].snap = {}
    <3>1. CASE u = t
      BY <3>1, <1>2, <1>3, <1>4 DEF Sent, Replied
    <3>2. CASE u # t
      BY <3>2, <1>3 DEF DrainInv, Channels, Sent, Replied
    <3>3. QED BY <3>1, <3>2
  <2>2. ASSUME NEW n \in Tenants, NEW u \in Tabs, Served(n, u)'
        PROVE  /\ drain'[u].phase = "waiting" /\ ~Sent(u)' /\ ~Replied(u)'
               /\ tx'[n].cursor = cursor'[DbOf[u]]
               /\ tx'[n].todo \subseteq ToSend(drain'[u].snap)
    <3>1. u # t /\ Served(n, u)
      BY <2>2, <1>3, <1>4 DEF Served
    <3>2. QED
      BY <3>1, <1>3 DEF DrainInv, Channels, Sent, Replied
  <2>3. QED BY <2>1, <2>2 DEF Channels
<1>7. SentAreCovered'
  <2>1. ASSUME NEW u \in Tabs, NEW m \in ToSend(drain'[u].snap)
        PROVE  /\ reply'[u].kind = "ok" => Covered(DbOf[u], m, rows[m.id])'
               /\ \A n \in Tenants :
                    (Served(n, u)' /\ ~tx'[n].broken /\ m \notin tx'[n].todo)
                       => Covered(DbOf[u], m, View(n, m.id))'
    <3>1. CASE u = t
      BY <3>1, <1>3, <1>4 DEF Served, Replied
    <3>2. CASE u # t
      BY <3>2, <2>1, <1>3 DEF DrainInv, SentAreCovered, Served, Covered, View, Exists
    <3>3. QED BY <3>1, <3>2
  <2>2. QED BY <2>1 DEF SentAreCovered
<1>8. SnapIsOldest'
  BY <1>1, <1>2, <1>3 DEF DrainInv, SnapIsOldest
<1>9. DeletesAreLocal'
  <2>1. ASSUME NEW u \in Tabs, NEW m \in ToSend(drain'[u].snap),
               m.op = "delete",
               \A k \in outbox'[DbOf[u]] : k.id = m.id => k \in drain'[u].snap
        PROVE  replica'[DbOf[u]][m.id] = NoVal
    <3>1. CASE u = t
      BY <3>1, <2>1, <1>1, <1>2, <1>3 DEF DrainInv, DeletesAreLocal, ToSend
    <3>2. CASE u # t
      BY <3>2, <2>1, <1>3 DEF DrainInv, DeletesAreLocal
    <3>3. QED BY <3>1, <3>2
  <2>2. QED
    BY <2>1, <1>3 DEF DrainInv, DeletesAreLocal
<1>10. MergedFaithful' /\ RowsFaithful'
  <2>1. MergedFaithful'
    BY <1>2, <1>3 DEF DrainInv, MergedFaithful, Shows, Pending, Visible, Exists, IsLive
  <2>2. RowsFaithful'
    BY <1>3 DEF DrainInv, RowsFaithful, Shows, Settled, Pending, Visible, Exists, IsLive
  <2>3. QED BY <2>1, <2>2
<1>11. QED
  BY <1>5, <1>6, <1>7, <1>8, <1>9, <1>10 DEF DrainInv

(* A drain that ends without having changed its database, or is forsaken.    *)
LEMMA EndDrain ==
    ASSUME TypeOK, DrainInv, NEW T \in SUBSET Tabs,
           \A u \in Tabs : drain'[u] = IF u \in T THEN Idle ELSE drain[u],
           \A u \in Tabs : u \in T =>
             request'[u].tab # u /\ reply'[u].kind = "none" /\ \A n \in Tenants : ~Served(n, u)',
           \A u \in Tabs \ T : request'[u] = request[u] /\ reply'[u] = reply[u],
           \A n \in Tenants : tx'[n] = tx[n] \/
              (/\ tx[n].tab \in T
               /\ tx'[n].writes = tx[n].writes),
           UNCHANGED <<rows, nextSeq>>,
           \A e \in Dbs : \/ /\ cursor'[e] = cursor[e] /\ replica'[e] = replica[e]
                             /\ outbox'[e] = outbox[e]
                          \/ /\ cursor'[e] = 0 /\ replica'[e] = EmptyReplica /\ outbox'[e] = {}
                             /\ \A u \in Tabs : DbOf[u] = e => u \in T,
           \A n \in Tenants, u \in Tabs \ T : Served(n, u)' => tx'[n] = tx[n]
    PROVE  DrainInv'
<1>1. /\ \A u \in Tabs : DbOf[u] \in Dbs
      /\ \A u \in Tabs \ T : /\ cursor'[DbOf[u]] = cursor[DbOf[u]]
                             /\ replica'[DbOf[u]] = replica[DbOf[u]]
                             /\ outbox'[DbOf[u]] = outbox[DbOf[u]]
                             /\ drain'[u] = drain[u]
  BY NamesAssumption
<1>2. Idle.phase = "idle" /\ Idle.snap = {} /\ ToSend(Idle.snap) = {}
  BY DEF Idle, ToSend
<1>3. \A n \in Tenants, i \in Ids : View(n, i)' = View(n, i)
  BY DEF View, Exists
<1>4. OneDrain'
  BY <1>2 DEF DrainInv, OneDrain
<1>5. \A n \in Tenants, u \in Tabs \ T : Served(n, u)' => Served(n, u)
  BY DEF Served
<1>6. Channels'
  <2>1. ASSUME NEW u \in Tabs
        PROVE  /\ Sent(u)' => /\ drain'[u].phase = "waiting" /\ ~Replied(u)'
                              /\ request'[u].cursor = cursor'[DbOf[u]]
                              /\ request'[u].muts = ToSend(drain'[u].snap)
               /\ Replied(u)' => /\ drain'[u].phase \in {"waiting", "acked", "merged"}
                                 /\ reply'[u].kind = "ok" => reply'[u].base = cursor'[DbOf[u]]
               /\ drain'[u].phase \in {"acked", "merged"} => reply'[u].kind = "ok"
               /\ drain'[u].phase # "waiting" => drain'[u].snap = {}
    <3>1. CASE u \in T
      BY <3>1, <1>2 DEF Sent, Replied
    <3>2. CASE u \notin T
      BY <3>2, <1>1 DEF DrainInv, Channels, Sent, Replied
    <3>3. QED BY <3>1, <3>2
  <2>2. ASSUME NEW n \in Tenants, NEW u \in Tabs, Served(n, u)'
        PROVE  /\ drain'[u].phase = "waiting" /\ ~Sent(u)' /\ ~Replied(u)'
               /\ tx'[n].cursor = cursor'[DbOf[u]]
               /\ tx'[n].todo \subseteq ToSend(drain'[u].snap)
    <3>1. u \notin T /\ tx'[n] = tx[n] /\ Served(n, u)
      BY <2>2, <1>5
    <3>2. QED
      BY <3>1, <1>1 DEF DrainInv, Channels, Sent, Replied
  <2>3. QED BY <2>1, <2>2 DEF Channels
<1>7. SentAreCovered'
  <2>1. ASSUME NEW u \in Tabs, NEW m \in ToSend(drain'[u].snap)
        PROVE  /\ reply'[u].kind = "ok" => Covered(DbOf[u], m, rows[m.id])'
               /\ \A n \in Tenants :
                    (Served(n, u)' /\ ~tx'[n].broken /\ m \notin tx'[n].todo)
                       => Covered(DbOf[u], m, View(n, m.id))'
    <3>1. u \notin T
      BY <2>1, <1>2
    <3>2. drain'[u] = drain[u] /\ reply'[u] = reply[u] /\ cursor'[DbOf[u]] = cursor[DbOf[u]]
      BY <3>1, <1>1
    <3>3. reply'[u].kind = "ok" => Covered(DbOf[u], m, rows[m.id])'
      BY <2>1, <3>2 DEF DrainInv, SentAreCovered, Covered, Exists
    <3>4. ASSUME NEW n \in Tenants, Served(n, u)', ~tx'[n].broken, m \notin tx'[n].todo
          PROVE  Covered(DbOf[u], m, View(n, m.id))'
      <4>1. tx'[n] = tx[n] /\ Served(n, u)
        BY <3>1, <3>4, <1>5
      <4>2. Covered(DbOf[u], m, View(n, m.id))
        BY <4>1, <2>1, <3>2, <3>4 DEF DrainInv, SentAreCovered
      <4>3. View(n, m.id)' = View(n, m.id)
        BY <1>3, <2>1, <3>2, QueuedIds
      <4>4. QED BY <4>2, <4>3, <3>2 DEF Covered, Exists
    <3>5. QED BY <3>3, <3>4
  <2>2. QED BY <2>1 DEF SentAreCovered
<1>8. SnapIsOldest'
  BY <1>1, <1>2 DEF DrainInv, SnapIsOldest
<1>9. DeletesAreLocal'
  <2>1. ASSUME NEW e \in Dbs, NEW m \in outbox'[e], m.op = "delete",
               \A k \in outbox'[e] : k.id = m.id => k.seq <= m.seq
        PROVE  replica'[e][m.id] = NoVal
    BY <2>1 DEF DrainInv, DeletesAreLocal
  <2>2. ASSUME NEW u \in Tabs, NEW m \in ToSend(drain'[u].snap),
               m.op = "delete",
               \A k \in outbox'[DbOf[u]] : k.id = m.id => k \in drain'[u].snap
        PROVE  replica'[DbOf[u]][m.id] = NoVal
    <3>1. u \notin T
      BY <2>2, <1>2
    <3>2. QED BY <3>1, <2>2, <1>1 DEF DrainInv, DeletesAreLocal
  <2>3. QED BY <2>1, <2>2 DEF DeletesAreLocal
<1>10. MergedFaithful'
  <2>1. ASSUME NEW u \in Tabs, drain'[u].phase = "merged", NEW i \in Ids,
               Exists(rows'[i]), rows'[i].tenant = TenantOf[DbOf[u]],
               rows'[i].ver <= reply'[u].cursor, ~Pending(DbOf[u], i)'
        PROVE  Shows(DbOf[u], i)'
    <3>1. u \notin T
      BY <2>1, <1>2
    <3>2. ~Pending(DbOf[u], i)
      BY <2>1, <3>1, <1>1 DEF Pending
    <3>3. QED
      BY <3>1, <3>2, <2>1, <1>1 DEF DrainInv, MergedFaithful, Shows, Visible, Exists, IsLive
  <2>2. QED BY <2>1 DEF MergedFaithful, Shows, Exists
<1>11. RowsFaithful'
  <2>1. ASSUME NEW e \in Dbs, NEW i \in Ids, Settled(e, i)'
        PROVE  Shows(e, i)'
    <3>1. rows[i].ver \in Nat /\ rows[i].ver > 0
      BY <2>1 DEF Settled, Exists, TypeOK, ServerTypeOK, Row, Ids
    <3>2. cursor'[e] # 0
      BY <2>1, <3>1 DEF Settled
    <3>3. cursor'[e] = cursor[e] /\ replica'[e] = replica[e] /\ outbox'[e] = outbox[e]
      BY <3>2
    <3>4. Settled(e, i)
      BY <2>1, <3>3 DEF Settled, Pending, Exists
    <3>5. QED
      BY <3>3, <3>4 DEF DrainInv, RowsFaithful, Shows, Visible, Exists, IsLive
  <2>2. QED BY <2>1 DEF RowsFaithful, Shows
<1>12. QED
  BY <1>4, <1>6, <1>7, <1>8, <1>9, <1>10, <1>11 DEF DrainInv

(* Every way out of a drain keeps the second part: giving up, an error       *)
(* answer, a closed tab, and the sign-out that empties the database.         *)
LEMMA EndDrainSteps ==
    ASSUME EndpointInv, DrainInv
    PROVE  /\ \A t \in Tabs : GiveUp(t) \/ ReceiveError(t) \/ StopDrain(t) => DrainInv'
           /\ \A d \in Dbs : SignOut(d) => DrainInv'
<1>1. /\ TypeOK /\ drain \in [Tabs -> Drain] /\ reply \in [Tabs -> Reply]
      /\ tx \in [Tenants -> Transaction]
  BY DEF EndpointInv, TypeOK, ServerTypeOK
<1>2. NoReply.kind = "none" /\ NoRequest.tab = Nobody
  BY DEF NoReply, NoRequest
<1>3. ASSUME NEW t \in Tabs, GiveUp(t) PROVE DrainInv'
  <2>1. ~Sent(t) /\ ~Replied(t) /\ \A n \in Tenants : ~Served(n, t)
    BY <1>3, Quiet DEF GiveUp, DrainInv
  <2>2. \A u \in Tabs : drain'[u] = IF u \in {t} THEN Idle ELSE drain[u]
    BY <1>1, <1>3 DEF GiveUp
  <2>3. UNCHANGED <<rows, tx, request, reply, replica, outbox, nextSeq, cursor>>
    BY <1>3 DEF GiveUp, serverVars
  <2>4. {t} \in SUBSET Tabs
    OBVIOUS
  <2>5. \A u \in Tabs : u \in {t} =>
          request'[u].tab # u /\ reply'[u].kind = "none" /\ \A n \in Tenants : ~Served(n, u)'
    BY <2>1, <2>3 DEF Sent, Replied, Served
  <2>6. QED
    BY <1>1, <2>2, <2>3, <2>4, <2>5, EndDrain
<1>4. ASSUME NEW t \in Tabs, ReceiveError(t) PROVE DrainInv'
  <2>1. ~Sent(t) /\ \A n \in Tenants : ~Served(n, t)
    BY <1>4 DEF ReceiveError, DrainInv, Channels, Replied
  <2>2. \A u \in Tabs : drain'[u] = IF u \in {t} THEN Idle ELSE drain[u]
    BY <1>1, <1>4 DEF ReceiveError
  <2>3. \A u \in Tabs : reply'[u] = IF u \in {t} THEN NoReply ELSE reply[u]
    BY <1>1, <1>4 DEF ReceiveError, TakeReply
  <2>4. UNCHANGED <<rows, tx, request, replica, outbox, nextSeq, cursor>>
    BY <1>4 DEF ReceiveError
  <2>5. {t} \in SUBSET Tabs
    OBVIOUS
  <2>6. \A u \in Tabs : u \in {t} =>
          request'[u].tab # u /\ reply'[u].kind = "none" /\ \A n \in Tenants : ~Served(n, u)'
    BY <2>1, <2>3, <2>4, <1>2 DEF Sent, Served
  <2>7. QED
    BY <1>1, <2>2, <2>3, <2>4, <2>5, <2>6, EndDrain
<1>5. ASSUME NEW T \in SUBSET Tabs, Forsake(T)
      PROVE  /\ \A u \in Tabs : drain'[u] = IF u \in T THEN Idle ELSE drain[u]
             /\ \A u \in Tabs : u \in T => /\ request'[u].tab # u /\ reply'[u].kind = "none"
                                           /\ \A n \in Tenants : ~Served(n, u)'
             /\ \A u \in Tabs \ T : request'[u] = request[u] /\ reply'[u] = reply[u]
             /\ \A n \in Tenants : \/ tx'[n] = tx[n]
                                   \/ tx[n].tab \in T /\ tx'[n].writes = tx[n].writes
             /\ \A n \in Tenants, u \in Tabs \ T : Served(n, u)' => tx'[n] = tx[n]
  <2>1. \A u \in Tabs : /\ drain'[u] = IF u \in T THEN Idle ELSE drain[u]
                        /\ request'[u] = IF u \in T THEN NoRequest ELSE request[u]
                        /\ reply'[u] = IF u \in T THEN NoReply ELSE reply[u]
    BY <1>5 DEF Forsake, Abandon
  <2>2. ASSUME NEW n \in Tenants
        PROVE  /\ tx[n].tab \notin T => tx'[n] = tx[n]
               /\ tx[n].tab \in T => tx'[n].tab = Nobody /\ tx'[n].writes = tx[n].writes
    <3>1. tx[n] \in Transaction
      BY <1>1
    <3>2. tx'[n] = IF tx[n].tab \in T THEN [tx[n] EXCEPT !.tab = Nobody] ELSE tx[n]
      BY <1>5 DEF Forsake, Abandon
    <3>3. QED BY <3>1, <3>2 DEF Transaction
  <2>3. Nobody \notin Tabs
    BY NamesAssumption
  <2>4. QED
    BY <1>2, <2>1, <2>2, <2>3 DEF Served
<1>6. ASSUME NEW t \in Tabs, StopDrain(t) PROVE DrainInv'
  <2>1. {t} \in SUBSET Tabs /\ Forsake({t})
    BY <1>6 DEF StopDrain
  <2>2. UNCHANGED <<rows, replica, outbox, nextSeq, cursor>>
    BY <1>6 DEF StopDrain, Forsake, Abandon
  <2>3. QED
    BY <1>1, <1>5, <2>1, <2>2, EndDrain
<1>7. ASSUME NEW d \in Dbs, SignOut(d) PROVE DrainInv'
  <2> DEFINE T == {t \in Tabs : DbOf[t] = d}
  <2>1. T \in SUBSET Tabs /\ Forsake(T)
    BY <1>7 DEF SignOut
  <2>2. UNCHANGED <<rows, nextSeq>>
    BY <1>7 DEF SignOut, Forsake, Abandon
  <2>3. \A e \in Dbs : \/ /\ cursor'[e] = cursor[e] /\ replica'[e] = replica[e]
                          /\ outbox'[e] = outbox[e]
                       \/ /\ cursor'[e] = 0 /\ replica'[e] = EmptyReplica /\ outbox'[e] = {}
                          /\ \A u \in Tabs : DbOf[u] = e => u \in T
    BY <1>1, <1>7 DEF SignOut, TypeOK
  <2> HIDE DEF T
  <2>4. QED
    BY <1>1, <1>5, <2>1, <2>2, <2>3, EndDrain
<1>8. QED
  BY <1>3, <1>4, <1>6, <1>7

(* Taking an answer inside a drain that goes on.  What the drain does to its *)
(* database is nobody else's: the other tabs of the database are quiet.      *)
LEMMA DrainTurn ==
    ASSUME TypeOK, DrainInv, NEW t \in Tabs, drain[t].phase # "idle",
           ~Sent(t), \A n \in Tenants : ~Served(n, t),
           \A u \in Tabs \ {t} : drain'[u] = drain[u] /\ reply'[u] = reply[u],
           drain'[t].snap = {},
           \/ /\ drain'[t].phase \in {"acked", "merged"} /\ reply'[t] = reply[t]
              /\ reply[t].kind = "ok" /\ cursor'[DbOf[t]] = cursor[DbOf[t]]
           \/ drain'[t].phase \in {"loop", "idle"} /\ reply'[t].kind = "none",
           UNCHANGED <<rows, tx, request, nextSeq>>,
           \A e \in Dbs \ {DbOf[t]} : /\ cursor'[e] = cursor[e] /\ replica'[e] = replica[e]
                                      /\ outbox'[e] = outbox[e],
           outbox'[DbOf[t]] \subseteq outbox[DbOf[t]],
           \A m \in outbox'[DbOf[t]] :
              (/\ m.op = "delete"
               /\ \A k \in outbox'[DbOf[t]] : k.id = m.id => k.seq <= m.seq)
                 => replica'[DbOf[t]][m.id] = NoVal,
           drain'[t].phase = "merged" =>
             \A i \in Ids :
               (/\ Exists(rows[i]) /\ rows[i].tenant = TenantOf[DbOf[t]]
                /\ rows[i].ver <= reply[t].cursor /\ ~Pending(DbOf[t], i)')
                  => Shows(DbOf[t], i)',
           \A i \in Ids : Settled(DbOf[t], i)' => Shows(DbOf[t], i)'
    PROVE  DrainInv'
<1> DEFINE d == DbOf[t]
<1>1. \A u \in Tabs : DbOf[u] \in Dbs
  BY NamesAssumption
<1>2. \A u \in Tabs \ {t} : DbOf[u] = d =>
        /\ drain[u].phase = "idle" /\ ~Sent(u) /\ ~Replied(u)
        /\ \A n \in Tenants : ~Served(n, u)
        /\ drain[u].snap = {} /\ ToSend(drain[u].snap) = {}
  BY Alone
<1>3. ToSend(drain'[t].snap) = {}
  BY DEF ToSend
<1>4. OneDrain'
  BY <1>2 DEF DrainInv, OneDrain
<1>5. Channels'
  <2>1. ASSUME NEW u \in Tabs
        PROVE  /\ Sent(u)' => /\ drain'[u].phase = "waiting" /\ ~Replied(u)'
                              /\ request'[u].cursor = cursor'[DbOf[u]]
                              /\ request'[u].muts = ToSend(drain'[u].snap)
               /\ Replied(u)' => /\ drain'[u].phase \in {"waiting", "acked", "merged"}
                                 /\ reply'[u].kind = "ok" => reply'[u].base = cursor'[DbOf[u]]
               /\ drain'[u].phase \in {"acked", "merged"} => reply'[u].kind = "ok"
               /\ drain'[u].phase # "waiting" => drain'[u].snap = {}
    <3>1. CASE u = t
      BY <3>1 DEF DrainInv, Channels, Sent, Replied
    <3>2. CASE u # t /\ DbOf[u] = d
      BY <3>2, <1>2 DEF DrainInv, Channels, Sent, Replied
    <3>3. CASE u # t /\ DbOf[u] # d
      BY <3>3, <1>1 DEF DrainInv, Channels, Sent, Replied
    <3>4. QED BY <3>1, <3>2, <3>3
  <2>2. ASSUME NEW n \in Tenants, NEW u \in Tabs, Served(n, u)'
        PROVE  /\ drain'[u].phase = "waiting" /\ ~Sent(u)' /\ ~Replied(u)'
               /\ tx'[n].cursor = cursor'[DbOf[u]]
               /\ tx'[n].todo \subseteq ToSend(drain'[u].snap)
    <3>1. Served(n, u) /\ u # t /\ DbOf[u] # d
      BY <2>2, <1>2 DEF Served
    <3>2. QED
      BY <3>1, <1>1 DEF DrainInv, Channels, Sent, Replied
  <2>3. QED BY <2>1, <2>2 DEF Channels
<1>6. SentAreCovered'
  <2>1. ASSUME NEW u \in Tabs, NEW m \in ToSend(drain'[u].snap)
        PROVE  /\ reply'[u].kind = "ok" => Covered(DbOf[u], m, rows[m.id])'
               /\ \A n \in Tenants :
                    (Served(n, u)' /\ ~tx'[n].broken /\ m \notin tx'[n].todo)
                       => Covered(DbOf[u], m, View(n, m.id))'
    <3>1. u # t /\ DbOf[u] # d /\ drain'[u] = drain[u]
      BY <2>1, <1>2, <1>3
    <3>2. cursor'[DbOf[u]] = cursor[DbOf[u]]
      BY <3>1, <1>1
    <3>3. QED
      BY <2>1, <3>1, <3>2 DEF DrainInv, SentAreCovered, Served, Covered, View, Exists
  <2>2. QED BY <2>1 DEF SentAreCovered
<1>7. SnapIsOldest'
  <2>1. \A e \in Dbs : outbox'[e] \subseteq outbox[e]
    OBVIOUS
  <2>2. \A u \in Tabs : drain'[u].snap \subseteq drain[u].snap
    OBVIOUS
  <2>3. \A u \in Tabs : \A m \in drain'[u].snap : drain'[u].snap = drain[u].snap
    OBVIOUS
  <2>4. QED
    BY <2>1, <2>2, <2>3, <1>1 DEF DrainInv, SnapIsOldest
<1>8. DeletesAreLocal'
  <2>1. ASSUME NEW e \in Dbs, NEW m \in outbox'[e], m.op = "delete",
               \A k \in outbox'[e] : k.id = m.id => k.seq <= m.seq
        PROVE  replica'[e][m.id] = NoVal
    <3>1. CASE e = d
      BY <3>1, <2>1
    <3>2. CASE e # d
      BY <3>2, <2>1 DEF DrainInv, DeletesAreLocal
    <3>3. QED BY <3>1, <3>2
  <2>2. ASSUME NEW u \in Tabs, NEW m \in ToSend(drain'[u].snap),
               m.op = "delete",
               \A k \in outbox'[DbOf[u]] : k.id = m.id => k \in drain'[u].snap
        PROVE  replica'[DbOf[u]][m.id] = NoVal
    <3>1. u # t /\ DbOf[u] # d /\ drain'[u] = drain[u]
      BY <2>2, <1>2, <1>3
    <3>2. QED BY <3>1, <2>2, <1>1 DEF DrainInv, DeletesAreLocal
  <2>3. QED BY <2>1, <2>2 DEF DeletesAreLocal
<1>9. MergedFaithful'
  <2>1. ASSUME NEW u \in Tabs, drain'[u].phase = "merged", NEW i \in Ids,
               Exists(rows[i]), rows[i].tenant = TenantOf[DbOf[u]],
               rows[i].ver <= reply'[u].cursor, ~Pending(DbOf[u], i)'
        PROVE  Shows(DbOf[u], i)'
    <3>1. CASE u = t
      BY <3>1, <2>1
    <3>2. CASE u # t
      <4>1. DbOf[u] # d /\ drain[u].phase = "merged" /\ reply'[u] = reply[u]
        BY <3>2, <2>1, <1>2
      <4>2. replica'[DbOf[u]] = replica[DbOf[u]] /\ ~Pending(DbOf[u], i)
        BY <4>1, <2>1, <1>1 DEF Pending
      <4>3. QED
        BY <4>1, <4>2, <2>1 DEF DrainInv, MergedFaithful, Shows
    <3>3. QED BY <3>1, <3>2
  <2>2. QED BY <2>1 DEF MergedFaithful, Shows, Exists, Visible, IsLive
<1>10. RowsFaithful'
  <2>1. ASSUME NEW e \in Dbs, NEW i \in Ids, Settled(e, i)'
        PROVE  Shows(e, i)'
    <3>1. CASE e = d
      BY <3>1, <2>1
    <3>2. CASE e # d
      <4>1. Settled(e, i)
        BY <3>2, <2>1 DEF Settled, Pending, Exists
      <4>2. QED
        BY <3>2, <4>1 DEF DrainInv, RowsFaithful, Shows
    <3>3. QED BY <3>1, <3>2
  <2>2. QED BY <2>1 DEF RowsFaithful, Shows, Visible, Exists, IsLive
<1>11. QED
  BY <1>4, <1>5, <1>6, <1>7, <1>8, <1>9, <1>10 DEF DrainInv

(* Acknowledging: what is forgotten is on the server, out of sight, or past  *)
(* the cursor and still to be pulled.                                        *)
LEMMA AckStep ==
    ASSUME EndpointInv, DrainInv, NEW t \in Tabs, AckOutbox(t)
    PROVE  DrainInv'
<1> DEFINE d == DbOf[t]
           snap == drain[t].snap
           gone == Answered(t)
<1>1. /\ TypeOK /\ drain[t] \in Drain /\ drain \in [Tabs -> Drain]
      /\ outbox \in [Dbs -> SUBSET Queued] /\ d \in Dbs
  BY NamesAssumption DEF EndpointInv, TypeOK
<1>2. /\ drain[t].phase = "waiting" /\ reply[t].kind = "ok"
      /\ UNCHANGED <<rows, tx, request, reply, nextSeq, replica, cursor>>
      /\ \A u \in Tabs \ {t} : drain'[u] = drain[u]
      /\ drain'[t].phase = "acked" /\ drain'[t].snap = {}
      /\ \A e \in Dbs : outbox'[e] = IF e = d THEN outbox[d] \ gone ELSE outbox[e]
  BY <1>1 DEF AckOutbox, serverVars, Drain
<1>3. ~Sent(t) /\ \A n \in Tenants : ~Served(n, t)
  BY <1>2 DEF DrainInv, Channels, Replied
<1>4. /\ gone \subseteq snap
      /\ \A k \in gone : \E m \in ToSend(snap) : m.id = k.id
      /\ \A k \in gone, l \in snap : l.id = k.id => l \in gone
  BY DEF Answered
<1>5. \A k \in Queued : k.seq \in Nat
  BY DEF Queued, Mutation
<1>6. /\ snap \subseteq Queued /\ outbox[d] \subseteq Queued
      /\ \A k \in snap, l \in outbox[d] \ snap : k.seq < l.seq
  BY <1>1 DEF DrainInv, SnapIsOldest, Drain
<1> HIDE DEF gone
<1>7. ASSUME NEW m \in outbox'[d], m.op = "delete",
             \A k \in outbox'[d] : k.id = m.id => k.seq <= m.seq
      PROVE  replica'[d][m.id] = NoVal
  <2>1. m \in outbox[d] /\ m \notin gone
    BY <1>1, <1>2, <1>7
  <2>2. ASSUME NEW k \in outbox[d], k.id = m.id PROVE k.seq <= m.seq
    <3>1. CASE k \notin gone
      BY <3>1, <2>2, <1>1, <1>2, <1>7
    <3>2. CASE k \in gone
      <4>1. m \notin snap /\ k \in snap
        BY <3>2, <2>1, <2>2, <1>4
      <4>2. QED BY <4>1, <2>1, <1>5, <1>6
    <3>3. QED BY <3>1, <3>2
  <2>3. QED
    BY <2>1, <2>2, <1>1, <1>2, <1>7 DEF DrainInv, DeletesAreLocal
<1>8. ASSUME NEW i \in Ids, Settled(d, i)'
      PROVE  Shows(d, i)'
  <2>1. CASE ~Pending(d, i)
    <3>1. Settled(d, i)
      BY <2>1, <1>2, <1>8 DEF Settled, Exists
    <3>2. QED BY <3>1, <1>1, <1>2 DEF DrainInv, RowsFaithful, Shows
  <2>2. CASE Pending(d, i)
    <3>1. \A k \in outbox[d] : k.id = i => k \in gone
      BY <1>1, <1>2, <1>8 DEF Settled, Pending
    <3>2. PICK m \in ToSend(snap) : m.id = i
      BY <2>2, <3>1, <1>4 DEF Pending
    <3>3. Covered(d, m, rows[i])
      BY <3>2, <1>2 DEF DrainInv, SentAreCovered
    <3>4. /\ Exists(rows[i]) /\ rows[i].tenant = TenantOf[d]
          /\ rows[i].ver <= cursor[d]
      BY <1>2, <1>8 DEF Settled, Exists
    <3>5. rows[i].ver \in Nat /\ cursor[d] \in Nat
      BY <1>1 DEF TypeOK, ServerTypeOK, Row, Ids
    <3>6. m.op = "delete" /\ rows[i].deleted
      BY <3>3, <3>4, <3>5 DEF Covered
    <3>7. replica[d][i] = NoVal
      BY <3>1, <3>2, <3>6, <1>4 DEF DrainInv, DeletesAreLocal
    <3>8. QED BY <3>6, <3>7, <1>2 DEF Shows, Visible, IsLive
  <2>3. QED BY <2>1, <2>2
<1>9. outbox'[d] \subseteq outbox[d]
  BY <1>1, <1>2
<1> HIDE DEF snap
<1>10. QED
  BY <1>1, <1>2, <1>3, <1>7, <1>8, <1>9, DrainTurn

(* Merging: the page brings the replica up to the cursor of the answer.      *)
LEMMA MergeStep ==
    ASSUME EndpointInv, OwnWrites, DrainInv, NEW t \in Tabs, MergePage(t)
    PROVE  DrainInv'
<1> DEFINE d == DbOf[t]
<1>1. /\ TypeOK /\ drain[t] \in Drain /\ drain \in [Tabs -> Drain] /\ d \in Dbs
      /\ replica \in [Dbs -> [Ids -> RowVals]]
      /\ rows \in [Ids -> Row] /\ reply[t] \in Reply
      /\ Projects \subseteq Ids /\ Projects \cap Tasks = {}
  BY NamesAssumption DEF EndpointInv, TypeOK, ServerTypeOK, Ids
<1>2. /\ drain[t].phase = "acked"
      /\ UNCHANGED <<rows, tx, request, reply, nextSeq, outbox, cursor>>
      /\ \A u \in Tabs \ {t} : drain'[u] = drain[u]
      /\ drain'[t].phase = "merged" /\ drain'[t].snap = drain[t].snap
      /\ \A e \in Dbs \ {d} : replica'[e] = replica[e]
      /\ \A i \in Ids : replica'[d][i] = Merged(t, i)
  BY <1>1 DEF MergePage, serverVars, Drain
<1>3. /\ ~Sent(t) /\ \A n \in Tenants : ~Served(n, t)
      /\ reply[t].kind = "ok" /\ reply[t].base = cursor[d] /\ drain[t].snap = {}
  BY <1>2 DEF DrainInv, Channels, Replied
<1>4. \A i \in Ids :
        /\ Pending(d, i) => replica'[d][i] \in {replica[d][i], NoVal}
        /\ ~Exists(reply[t].page[i]) => \/ replica'[d][i] = replica[d][i]
                                        \/ i \in Tasks /\ replica'[d][i] = NoVal
        /\ (~Pending(d, i) /\ Exists(reply[t].page[i])) =>
             replica'[d][i] = Visible(reply[t].page[i])
  BY <1>1, <1>2 DEF Merged, Pulled, Cascades, Visible, IsLive
<1>5. \A i \in Ids : rows[i].ver \in Nat
  BY <1>1 DEF Row
<1>6. reply[t].base \in Nat /\ reply[t].cursor \in Nat /\ reply[t].base <= reply[t].cursor
  BY <1>1 DEF Reply, EndpointInv, ServerInv, Cursors, SavedCursors
<1>7. ASSUME NEW i \in Ids, Exists(rows[i]), rows[i].tenant = TenantOf[d],
             rows[i].ver <= reply[t].cursor, ~Pending(d, i)
      PROVE  Shows(d, i)'
  <2>1. CASE rows[i].ver > reply[t].base
    <3>1. reply[t].page[i] = rows[i]
      BY <2>1, <1>1, <1>3, <1>5, <1>6, <1>7
      DEF EndpointInv, ServerInv, PageComplete, OwnWrites
    <3>2. replica'[d][i] = Visible(rows[i])
      BY <3>1, <1>4, <1>7
    <3>3. QED BY <3>2, <1>2 DEF Shows, Visible, IsLive, Exists
  <2>2. CASE rows[i].ver <= reply[t].base
    <3>1. ~Exists(reply[t].page[i])
      BY <2>2, <1>1, <1>3, <1>5, <1>6, <1>7 DEF EndpointInv, ServerInv, PageRows
    <3>2. Settled(d, i)
      BY <2>2, <1>3, <1>7 DEF Settled
    <3>3. Shows(d, i)
      BY <3>2, <1>1 DEF DrainInv, RowsFaithful
    <3>4. \/ replica'[d][i] = replica[d][i]
          \/ i \in Tasks /\ replica'[d][i] = NoVal
      BY <3>1, <1>4
    <3>5. QED BY <3>3, <3>4, <1>2 DEF Shows, Visible, IsLive, Exists
  <2>3. QED BY <2>1, <2>2, <1>5, <1>6
<1>8. \A e \in Dbs, i \in Ids : Pending(e, i)' = Pending(e, i)
  BY <1>2 DEF Pending
<1>9. ASSUME NEW i \in Ids, Settled(d, i)'
      PROVE  Shows(d, i)'
  <2>1. /\ Exists(rows[i]) /\ rows[i].tenant = TenantOf[d]
        /\ rows[i].ver <= reply[t].base /\ ~Pending(d, i)
    BY <1>1, <1>2, <1>3, <1>8, <1>9 DEF Settled, Exists
  <2>2. rows[i].ver <= reply[t].cursor
    BY <2>1, <1>5, <1>6
  <2>3. QED BY <2>1, <2>2, <1>7
<1>10. ASSUME NEW m \in outbox'[d], m.op = "delete",
              \A k \in outbox'[d] : k.id = m.id => k.seq <= m.seq
       PROVE  replica'[d][m.id] = NoVal
  <2>1. Pending(d, m.id)
    BY <1>2, <1>10 DEF Pending
  <2>2. replica[d][m.id] = NoVal
    BY <1>1, <1>2, <1>10 DEF DrainInv, DeletesAreLocal
  <2>3. m.id \in Ids
    BY <1>1, <1>2, <1>10, QueuedIds
  <2>4. QED BY <2>1, <2>2, <2>3, <1>4
<1>11. \A i \in Ids :
         (/\ Exists(rows[i]) /\ rows[i].tenant = TenantOf[DbOf[t]]
          /\ rows[i].ver <= reply[t].cursor /\ ~Pending(DbOf[t], i)')
            => Shows(DbOf[t], i)'
  BY <1>1, <1>7, <1>8
<1>12. QED
  BY <1>1, <1>2, <1>3, <1>9, <1>10, <1>11, DrainTurn

(* Saving the cursor: the replica has been merged up to it.                  *)
LEMMA SaveStep ==
    ASSUME EndpointInv, DrainInv, NEW t \in Tabs, SaveCursor(t)
    PROVE  DrainInv'
<1> DEFINE d == DbOf[t]
<1>1. /\ TypeOK /\ drain[t] \in Drain /\ drain \in [Tabs -> Drain] /\ d \in Dbs
      /\ cursor \in [Dbs -> Nat] /\ reply \in [Tabs -> Reply]
  BY NamesAssumption DEF EndpointInv, TypeOK, ServerTypeOK
<1>2. /\ drain[t].phase = "merged"
      /\ UNCHANGED <<rows, tx, request, nextSeq, outbox, replica>>
      /\ \A u \in Tabs \ {t} : drain'[u] = drain[u] /\ reply'[u] = reply[u]
      /\ reply'[t] = NoReply
      /\ \A e \in Dbs \ {d} : cursor'[e] = cursor[e]
      /\ cursor'[d] = reply[t].cursor
  BY <1>1 DEF SaveCursor, TakeReply
<1>3. /\ ~Sent(t) /\ \A n \in Tenants : ~Served(n, t)
      /\ reply[t].kind = "ok" /\ drain[t].snap = {}
  BY <1>2 DEF DrainInv, Channels, Replied
<1>4. drain'[t].phase \in {"loop", "idle"} /\ drain'[t].snap = {}
  <2>1. drain'[t] = IF reply[t].hasMore THEN [drain[t] EXCEPT !.phase = "loop"] ELSE Idle
    BY <1>1 DEF SaveCursor
  <2>2. /\ [drain[t] EXCEPT !.phase = "loop"].phase = "loop"
        /\ [drain[t] EXCEPT !.phase = "loop"].snap = {}
    BY <1>1, <1>3 DEF Drain
  <2>3. Idle.phase = "idle" /\ Idle.snap = {}
    BY DEF Idle
  <2>4. QED BY <2>1, <2>2, <2>3
<1>5. NoReply.kind = "none"
  BY DEF NoReply
<1>6. ASSUME NEW i \in Ids, Settled(d, i)'
      PROVE  Shows(d, i)'
  <2>1. /\ Exists(rows[i]) /\ rows[i].tenant = TenantOf[d]
        /\ rows[i].ver <= reply[t].cursor /\ ~Pending(d, i)
    BY <1>1, <1>2, <1>6 DEF Settled, Exists, Pending
  <2>2. QED
    BY <2>1, <1>2 DEF DrainInv, MergedFaithful, Shows
<1>7. ASSUME NEW m \in outbox'[d], m.op = "delete",
             \A k \in outbox'[d] : k.id = m.id => k.seq <= m.seq
      PROVE  replica'[d][m.id] = NoVal
  BY <1>1, <1>2, <1>7 DEF DrainInv, DeletesAreLocal
<1>8. QED
  BY <1>1, <1>2, <1>3, <1>4, <1>5, <1>6, <1>7, DrainTurn

(* Starting over: an empty replica with cursor zero claims nothing.          *)
LEMMA ResyncStep ==
    ASSUME EndpointInv, DrainInv, NEW t \in Tabs, ReceiveResync(t)
    PROVE  DrainInv'
<1> DEFINE d == DbOf[t]
<1>1. /\ TypeOK /\ drain[t] \in Drain /\ drain \in [Tabs -> Drain] /\ d \in Dbs
      /\ cursor \in [Dbs -> Nat] /\ reply \in [Tabs -> Reply]
      /\ replica \in [Dbs -> [Ids -> RowVals]] /\ rows \in [Ids -> Row]
      /\ Projects \subseteq Ids
  BY NamesAssumption DEF EndpointInv, TypeOK, ServerTypeOK, Ids
<1>2. /\ drain[t].phase = "waiting" /\ reply[t].kind = "resync"
      /\ UNCHANGED <<rows, tx, request, nextSeq, outbox>>
      /\ \A u \in Tabs \ {t} : drain'[u] = drain[u] /\ reply'[u] = reply[u]
      /\ reply'[t] = NoReply
      /\ \A e \in Dbs \ {d} : cursor'[e] = cursor[e] /\ replica'[e] = replica[e]
      /\ cursor'[d] = 0 /\ replica'[d] = EmptyReplica
      /\ drain'[t].phase = "loop" /\ drain'[t].snap = {}
  BY <1>1 DEF ReceiveResync, TakeReply, Drain
<1>3. ~Sent(t) /\ \A n \in Tenants : ~Served(n, t)
  BY <1>2 DEF DrainInv, Channels, Replied
<1>4. NoReply.kind = "none" /\ \A i \in Ids : EmptyReplica[i] = NoVal
  BY <1>1 DEF NoReply, EmptyReplica
<1>5. ASSUME NEW i \in Ids, Settled(d, i)'
      PROVE  Shows(d, i)'
  <2>1. rows[i].ver \in Nat /\ rows[i].ver > 0 /\ rows[i].ver <= 0
    BY <1>1, <1>2, <1>5 DEF Settled, Exists, Row
  <2>2. QED BY <2>1
<1>6. \A m \in outbox'[d] : replica'[d][m.id] = NoVal
  BY <1>1, <1>2, <1>4, QueuedIds
<1>7. QED
  BY <1>1, <1>2, <1>3, <1>4, <1>5, <1>6, DrainTurn

-----------------------------------------------------------------------------
(* The endpoint.                                                             *)

(* A step of the endpoint changes no browser; what is left to show is about  *)
(* requests and answers, and that a changed row is past every cursor.        *)
LEMMA ServerFrame ==
    ASSUME EndpointInv, EndpointInv', DrainInv, UNCHANGED clientVars, Channels', SentAreCovered',
           \A i \in Ids : \/ rows'[i] = rows[i]
                          \/ ~Exists(rows'[i])
                          \/ rows'[i].ver > issued[rows'[i].tenant],
           \A t \in Tabs : drain[t].phase = "merged" => reply'[t] = reply[t]
    PROVE  DrainInv'
<1>1. UNCHANGED <<replica, outbox, nextSeq, cursor, drain>>
  BY DEF clientVars
<1>2. OneDrain' /\ SnapIsOldest' /\ DeletesAreLocal'
  BY <1>1 DEF DrainInv, OneDrain, SnapIsOldest, DeletesAreLocal
<1>3. /\ \A t \in Tabs : DbOf[t] \in Dbs /\ TenantOf[DbOf[t]] \in Tenants
      /\ \A d \in Dbs : TenantOf[d] \in Tenants
      /\ issued \in [Tenants -> Nat] /\ cursor \in [Dbs -> Nat]
      /\ reply \in [Tabs -> Reply] /\ rows' \in [Ids -> Row]
      /\ Projects \subseteq Ids
  BY NamesAssumption DEF EndpointInv, TypeOK, ServerTypeOK, Ids
<1>4. \A e \in Dbs, i \in Ids : Pending(e, i)' = Pending(e, i)
  BY <1>1 DEF Pending
<1>5. ASSUME NEW d \in Dbs, NEW i \in Ids, NEW c \in Nat, c <= issued[TenantOf[d]],
             Exists(rows'[i]), rows'[i].tenant = TenantOf[d], rows'[i].ver <= c
      PROVE  rows'[i] = rows[i]
  <2>1. rows'[i].ver \in Nat /\ issued[TenantOf[d]] \in Nat
    BY <1>3 DEF Row
  <2>2. ~(rows'[i].ver > issued[rows'[i].tenant])
    BY <2>1, <1>5
  <2>3. QED BY <2>2, <1>3, <1>5
<1>6. MergedFaithful'
  <2>1. ASSUME NEW t \in Tabs, drain[t].phase = "merged", NEW i \in Ids,
               Exists(rows'[i]), rows'[i].tenant = TenantOf[DbOf[t]],
               rows'[i].ver <= reply'[t].cursor, ~Pending(DbOf[t], i)
        PROVE  Shows(DbOf[t], i)'
    <3>1. reply'[t] = reply[t] /\ reply[t].cursor \in Nat
      BY <2>1, <1>3 DEF Reply
    <3>2. reply[t].cursor <= issued[TenantOf[DbOf[t]]]
      BY DEF EndpointInv, ServerInv, Cursors, SavedCursors
    <3>3. rows'[i] = rows[i]
      BY <3>1, <3>2, <2>1, <1>3, <1>5
    <3>4. Shows(DbOf[t], i)
      BY <3>1, <3>3, <2>1 DEF DrainInv, MergedFaithful, Exists
    <3>5. QED
      BY <3>3, <3>4, <1>1 DEF Shows, Visible, IsLive, Exists
  <2>2. QED
    BY <2>1, <1>1, <1>3, <1>4 DEF MergedFaithful, Shows, Exists, Visible, IsLive
<1>7. RowsFaithful'
  <2>1. ASSUME NEW d \in Dbs, NEW i \in Ids,
               Exists(rows'[i]), rows'[i].tenant = TenantOf[d],
               rows'[i].ver <= cursor[d], ~Pending(d, i)
        PROVE  Shows(d, i)'
    <3>1. cursor[d] \in Nat /\ cursor[d] <= issued[TenantOf[d]]
      BY <1>3 DEF EndpointInv, ServerInv, Cursors, SavedCursors
    <3>2. rows'[i] = rows[i]
      BY <3>1, <2>1, <1>5
    <3>3. Shows(d, i)
      BY <3>2, <2>1 DEF DrainInv, RowsFaithful, Settled, Exists
    <3>4. QED
      BY <3>2, <3>3, <1>1 DEF Shows, Visible, IsLive, Exists
  <2>2. QED
    BY <2>1, <1>1, <1>4 DEF RowsFaithful, Shows, Settled, Exists, Visible, IsLive
<1>8. QED
  BY <1>2, <1>6, <1>7 DEF DrainInv

(* Taking a request keeps the second part: the transaction inherits what     *)
(* the request promised.                                                     *)
LEMMA TakeDrain ==
    ASSUME EndpointInv, EndpointInv', DrainInv, UNCHANGED clientVars,
           (\E t \in Tabs : TakeRequest(t)) \/ TakeOrphan
    PROVE  DrainInv'
<1>1. /\ TypeOK /\ tx \in [Tenants -> Transaction] /\ request \in [Tabs -> Request]
      /\ orphans \in SUBSET Request
      /\ TenantOf \in [Dbs -> Tenants] /\ Nobody \notin Tabs
      /\ UNCHANGED <<replica, outbox, nextSeq, cursor, drain>>
  BY NamesAssumption DEF EndpointInv, TypeOK, ServerTypeOK, clientVars
<1>2. UNCHANGED <<rows, reply>>
  BY DEF TakeRequest, TakeOrphan
<1>3. NoRequest.tab = Nobody
  BY DEF NoRequest
<1>4. ASSUME NEW r \in Request
      PROVE  Opened(r).tab = r.tab /\ Opened(r).cursor = r.cursor /\ Opened(r).todo = r.muts
  BY NoneTypes DEF Opened, Transaction, Request, NoTx
<1>5. PICK n \in Tenants :
        /\ \A o \in Tenants \ {n} : tx'[o] = tx[o]
        /\ ~tx[n].open
        /\ \A u \in Tabs : request'[u] = request[u] \/ ~Sent(u)'
        /\ \A u \in Tabs : Served(n, u)' => /\ Sent(u) /\ ~Sent(u)'
                                            /\ tx'[n].cursor = request[u].cursor
                                            /\ tx'[n].todo = request[u].muts
  <2>1. CASE \E t \in Tabs : TakeRequest(t)
    <3>1. PICK t \in Tabs : TakeRequest(t)
      BY <2>1
    <3>2. PICK r \in Request : r = request[t]
      BY <1>1
    <3> DEFINE n == TenantOf[r.db]
    <3>3. n \in Tenants
      BY <1>1 DEF Request
    <3>4. /\ r.tab = t /\ ~tx[n].open
          /\ \A o \in Tenants : tx'[o] = IF o = n THEN Opened(r) ELSE tx[o]
          /\ \A u \in Tabs : request'[u] = IF u = t THEN NoRequest ELSE request[u]
      BY <1>1, <3>1, <3>2, <3>3 DEF TakeRequest, LockFree
    <3>5. ASSUME NEW u \in Tabs, Served(n, u)'
          PROVE  /\ Sent(u) /\ ~Sent(u)'
                 /\ tx'[n].cursor = request[u].cursor /\ tx'[n].todo = request[u].muts
      <4>1. u = t
        BY <3>3, <3>4, <3>5, <1>4 DEF Served
      <4>2. QED BY <4>1, <3>2, <3>3, <3>4, <1>1, <1>3, <1>4 DEF Sent
    <3>6. QED
      BY <3>2, <3>3, <3>4, <3>5, <1>1, <1>3 DEF Sent
  <2>2. CASE TakeOrphan
    <3>1. PICK r \in orphans : /\ LockFree(TenantOf[r.db])
                               /\ tx' = [tx EXCEPT ![TenantOf[r.db]] = Opened(r)]
                               /\ UNCHANGED request
      BY <2>2 DEF TakeOrphan
    <3> DEFINE n == TenantOf[r.db]
    <3>2. r \in Request /\ n \in Tenants /\ r.tab = Nobody
      BY <1>1 DEF Request, EndpointInv, ServerInv, Routing
    <3>3. /\ ~tx[n].open
          /\ \A o \in Tenants : tx'[o] = IF o = n THEN Opened(r) ELSE tx[o]
      BY <1>1, <3>1, <3>2 DEF LockFree
    <3>4. \A u \in Tabs : ~Served(n, u)'
      BY <3>2, <3>3, <1>1, <1>4 DEF Served
    <3>5. QED BY <3>1, <3>2, <3>3, <3>4
  <2>3. QED BY <2>1, <2>2
<1>6. Channels'
  <2>1. ASSUME NEW u \in Tabs
        PROVE  /\ Sent(u)' => /\ drain'[u].phase = "waiting" /\ ~Replied(u)'
                              /\ request'[u].cursor = cursor'[DbOf[u]]
                              /\ request'[u].muts = ToSend(drain'[u].snap)
               /\ Replied(u)' => /\ drain'[u].phase \in {"waiting", "acked", "merged"}
                                 /\ reply'[u].kind = "ok" => reply'[u].base = cursor'[DbOf[u]]
               /\ drain'[u].phase \in {"acked", "merged"} => reply'[u].kind = "ok"
               /\ drain'[u].phase # "waiting" => drain'[u].snap = {}
    <3>1. Sent(u)' => Sent(u) /\ request'[u] = request[u]
      BY <1>5 DEF Sent
    <3>2. QED BY <3>1, <1>1, <1>2 DEF DrainInv, Channels, Replied
  <2>2. ASSUME NEW o \in Tenants, NEW u \in Tabs, Served(o, u)'
        PROVE  /\ drain'[u].phase = "waiting" /\ ~Sent(u)' /\ ~Replied(u)'
               /\ tx'[o].cursor = cursor'[DbOf[u]]
               /\ tx'[o].todo \subseteq ToSend(drain'[u].snap)
    <3>1. CASE o = n
      BY <3>1, <2>2, <1>1, <1>2, <1>5 DEF DrainInv, Channels, Replied
    <3>2. CASE o # n
      <4>1. tx'[o] = tx[o] /\ Served(o, u)
        BY <3>2, <2>2, <1>5 DEF Served
      <4>2. ~Sent(u)'
        BY <4>1, <1>5 DEF DrainInv, Channels, Sent
      <4>3. QED BY <4>1, <4>2, <1>1, <1>2 DEF DrainInv, Channels, Replied
    <3>3. QED BY <3>1, <3>2
  <2>3. QED BY <2>1, <2>2 DEF Channels
<1>7. SentAreCovered'
  <2>1. ASSUME NEW u \in Tabs, NEW m \in ToSend(drain[u].snap)
        PROVE  /\ reply'[u].kind = "ok" => Covered(DbOf[u], m, rows[m.id])'
               /\ \A o \in Tenants :
                    (Served(o, u)' /\ ~tx'[o].broken /\ m \notin tx'[o].todo)
                       => Covered(DbOf[u], m, View(o, m.id))'
    <3>1. reply'[u].kind = "ok" => Covered(DbOf[u], m, rows[m.id])'
      BY <2>1, <1>1, <1>2 DEF DrainInv, SentAreCovered, Covered, Exists
    <3>2. ASSUME NEW o \in Tenants, Served(o, u)', ~tx'[o].broken, m \notin tx'[o].todo
          PROVE  Covered(DbOf[u], m, View(o, m.id))'
      <4>1. CASE o = n
        BY <4>1, <3>2, <2>1, <1>5 DEF DrainInv, Channels
      <4>2. CASE o # n
        <5>1. tx'[o] = tx[o] /\ Served(o, u)
          BY <4>2, <3>2, <1>5 DEF Served
        <5>2. Covered(DbOf[u], m, View(o, m.id))
          BY <5>1, <3>2, <2>1 DEF DrainInv, SentAreCovered
        <5>3. QED BY <5>1, <5>2, <1>1, <1>2 DEF Covered, View, Exists
      <4>3. QED BY <4>1, <4>2
    <3>3. QED BY <3>1, <3>2
  <2>2. QED BY <2>1, <1>1 DEF SentAreCovered
<1>8. QED
  BY <1>2, <1>6, <1>7, ServerFrame

(* Applying a mutation settles it: its row is past the cursor, or needs no   *)
(* pull.                                                                     *)
LEMMA ApplyDrain ==
    ASSUME EndpointInv, EndpointInv', NothingRejected', DrainInv, UNCHANGED clientVars,
           NEW n \in Tenants, ApplyMutation(n)
    PROVE  DrainInv'
<1> DEFINE x == tx'[n]
<1>1. /\ TypeOK /\ tx \in [Tenants -> Transaction] /\ seq \in Nat
      /\ issued \in [Tenants -> Nat] /\ cursor \in [Dbs -> Nat]
      /\ \A u \in Tabs : DbOf[u] \in Dbs
      /\ \A d \in Dbs : TenantOf[d] \in Tenants
      /\ UNCHANGED <<replica, outbox, nextSeq, cursor, drain>>
  BY NamesAssumption DEF EndpointInv, TypeOK, ServerTypeOK, clientVars
<1>2. PICK m0 \in tx[n].todo : Effect(n, m0, x, seq')
  BY ApplyEffect DEF EndpointInv
<1>3. tx' = [tx EXCEPT ![n] = x] /\ UNCHANGED <<rows, request, reply>>
  BY ApplyEffect DEF EndpointInv
<1>4. /\ x.tab = tx[n].tab /\ x.cursor = tx[n].cursor
      /\ x.todo \in {tx[n].todo, tx[n].todo \ {m0}} /\ x \in Transaction
      /\ \A i \in Ids : x.writes[i] = tx[n].writes[i] \/ Fresh(n, i, x.writes[i], seq')
      /\ (m0 \in Queued /\ ~x.broken /\ x.rejected = {} /\ m0 \notin x.todo) =>
           Answers(n, m0, IF Exists(x.writes[m0.id]) THEN x.writes[m0.id] ELSE rows[m0.id])
  BY <1>2 DEF Effect, Grown
<1>5. tx[n].open /\ ~tx[n].broken /\ x.open
  BY <1>2 DEF ApplyMutation, Effect
<1>6. \A o \in Tenants : tx'[o] = IF o = n THEN x ELSE tx[o]
  BY <1>1, <1>3
<1> HIDE DEF x
<1>7. \A o \in Tenants, u \in Tabs : Served(o, u)' => Served(o, u)
  BY <1>4, <1>5, <1>6 DEF Served
<1>8. Channels'
  <2>1. \A o \in Tenants : tx'[o].cursor = tx[o].cursor /\ tx'[o].todo \subseteq tx[o].todo
    BY <1>4, <1>6
  <2>2. QED
    BY <2>1, <1>1, <1>3, <1>7 DEF DrainInv, Channels, Sent, Replied
<1>9. ASSUME NEW u \in Tabs, Served(n, u) PROVE cursor[DbOf[u]] <= seq /\ TenantOf[DbOf[u]] = n
  <2>1. TenantOf[DbOf[u]] = n
    BY <1>9 DEF EndpointInv, ServerInv, Routing, Served
  <2>2. /\ cursor[DbOf[u]] <= issued[n] /\ issued[n] <= seq
        /\ cursor[DbOf[u]] \in Nat /\ issued[n] \in Nat
    BY <2>1, <1>1 DEF EndpointInv, ServerInv, Cursors, SavedCursors
  <2>3. QED BY <2>1, <2>2, <1>1
<1>10. SentAreCovered'
  <2>1. ASSUME NEW u \in Tabs, NEW m \in ToSend(drain[u].snap)
        PROVE  /\ reply'[u].kind = "ok" => Covered(DbOf[u], m, rows[m.id])'
               /\ \A o \in Tenants :
                    (Served(o, u)' /\ ~tx'[o].broken /\ m \notin tx'[o].todo)
                       => Covered(DbOf[u], m, View(o, m.id))'
    <3>1. reply'[u].kind = "ok" => Covered(DbOf[u], m, rows[m.id])'
      BY <2>1, <1>1, <1>3 DEF DrainInv, SentAreCovered, Covered, Exists
    <3>2. ASSUME NEW o \in Tenants, Served(o, u)', ~tx'[o].broken, m \notin tx'[o].todo
          PROVE  Covered(DbOf[u], m, View(o, m.id))'
      <4>1. Served(o, u)
        BY <3>2, <1>7
      <4>2. CASE o # n
        <5>1. tx'[o] = tx[o]
          BY <4>2, <1>6
        <5>2. Covered(DbOf[u], m, View(o, m.id))
          BY <4>1, <5>1, <3>2, <2>1 DEF DrainInv, SentAreCovered
        <5>3. QED BY <5>1, <5>2, <1>1, <1>3 DEF Covered, View, Exists
      <4>3. CASE o = n
        <5> DEFINE i == m.id
                   r == IF Exists(x.writes[i]) THEN x.writes[i] ELSE rows[i]
        <5>1. View(o, i)' = r
          BY <4>3, <1>3, <1>6 DEF View, Exists
        <5>2. i \in Ids /\ m \in Queued
          BY <2>1, <1>1, QueuedIds
        <5>3. x.writes[i].ver \in Nat /\ cursor[DbOf[u]] \in Nat
          BY <5>2, <1>1, <1>4 DEF Transaction, Row
        <5>4. cursor[DbOf[u]] <= seq /\ TenantOf[DbOf[u]] = n
          BY <4>1, <4>3, <1>9
        <5>5. CASE Fresh(n, i, x.writes[i], seq')
          <6>1. Exists(x.writes[i]) /\ x.writes[i].ver > cursor[DbOf[u]]
            BY <5>3, <5>4, <5>5, <1>1 DEF Fresh, Exists
          <6>2. QED BY <6>1, <5>1, <1>1 DEF Covered
        <5>6. CASE x.writes[i] = tx[n].writes[i] /\ m \notin tx[n].todo
          <6>1. Covered(DbOf[u], m, View(n, i))
            BY <4>1, <4>3, <5>6, <2>1, <1>5 DEF DrainInv, SentAreCovered
          <6>2. r = View(n, i)
            BY <5>6 DEF View
          <6>3. QED BY <6>1, <6>2, <5>1, <1>1 DEF Covered, Exists
        <5>7. CASE m = m0
          <6>0. x.rejected = {}
            BY <1>6 DEF NothingRejected
          <6>1. Answers(n, m, r)
            BY <6>0, <5>2, <5>7, <4>3, <3>2, <1>4, <1>6
          <6>2. r.ver \in Nat
            BY <5>2, <5>3, <1>1 DEF TypeOK, ServerTypeOK, Row
          <6> HIDE DEF r
          <6>3. Covered(DbOf[u], m, r)
            BY <6>1, <6>2, <5>3, <5>4, <1>1 DEF Answers, Covered
          <6>4. QED BY <6>3, <5>1, <1>1 DEF Covered, Exists
        <5>8. m = m0 \/ m \notin tx[n].todo
          BY <4>3, <3>2, <1>4, <1>6
        <5>9. QED BY <5>2, <5>5, <5>6, <5>7, <5>8, <1>4
      <4>4. QED BY <4>2, <4>3
    <3>3. QED BY <3>1, <3>2
  <2>2. QED BY <2>1, <1>1 DEF SentAreCovered
<1>11. QED
  BY <1>3, <1>8, <1>10, ServerFrame

(* Answering: a page is sent when every mutation of the batch is settled.    *)
LEMMA FinishDrain ==
    ASSUME EndpointInv, EndpointInv', OwnWrites, DrainInv, UNCHANGED clientVars,
           NEW n \in Tenants,
           FinishPull(n) \/ FinishResync(n) \/ FinishBroken(n) \/ Rollback(n)
    PROVE  DrainInv'
<1>1. /\ TypeOK /\ tx \in [Tenants -> Transaction] /\ rows \in [Ids -> Row]
      /\ issued \in [Tenants -> Nat] /\ cursor \in [Dbs -> Nat]
      /\ \A u \in Tabs : DbOf[u] \in Dbs
      /\ \A d \in Dbs : TenantOf[d] \in Tenants
      /\ Projects \subseteq Ids
      /\ UNCHANGED <<replica, outbox, nextSeq, cursor, drain, request>>
  BY NamesAssumption DEF EndpointInv, TypeOK, ServerTypeOK, clientVars, Ids,
     FinishPull, FinishResync, FinishBroken, Rollback
<1>2. PICK r \in Reply :
        /\ Answer(n, r)
        /\ r.kind = "ok" => /\ r.base = tx[n].cursor /\ tx[n].todo = {} /\ ~tx[n].broken
                            /\ rows' = [i \in Ids |-> View(n, i)]
        /\ rows' = rows \/ rows' = [i \in Ids |-> View(n, i)]
  <2>1. /\ tx[n].applied \in SUBSET Nat /\ tx[n].rejected \in SUBSET Nat
        /\ tx[n].cursor \in Nat
    BY <1>1 DEF Transaction
  <2>2. CASE FinishPull(n)
    <3>1. PullReply(n) \in Reply
      <4>1. NextCursor(n) \in Nat
        <5>1. tx[n].cursor <= seq
          <6>1. /\ tx[n].cursor <= issued[n] /\ issued[n] <= seq
                /\ issued[n] \in Nat /\ seq \in Nat
            BY <1>1 DEF EndpointInv, ServerInv, Cursors, SavedCursors, TypeOK, ServerTypeOK
          <6>2. QED BY <6>1, <2>1
        <5>2. QED BY <5>1, NextCursorLemma DEF EndpointInv, ServerInv
      <4>2. [i \in Ids |-> IF i \in Page(n, Projects) \cup Page(n, Tasks)
                           THEN View(n, i) ELSE NoRow] \in [Ids -> Row]
        BY ViewType, NoneTypes DEF EndpointInv, ServerInv
      <4>3. (Truncated(n, Projects) \/ Truncated(n, Tasks)) \in BOOLEAN
        OBVIOUS
      <4>4. QED BY <2>1, <4>1, <4>2, <4>3 DEF PullReply, Reply
    <3>2. PullReply(n).kind = "ok" /\ PullReply(n).base = tx[n].cursor
      BY DEF PullReply
    <3>3. QED BY <2>2, <3>1, <3>2 DEF FinishPull, Commit
  <2>3. CASE FinishResync(n)
    <3>1. ResyncReply(n) \in Reply /\ ResyncReply(n).kind = "resync"
      BY <2>1, NoneTypes DEF ResyncReply, Reply
    <3>2. QED BY <2>3, <3>1 DEF FinishResync, Commit
  <2>4. CASE FinishBroken(n) \/ Rollback(n)
    <3>1. ErrorReply \in Reply /\ ErrorReply.kind = "error"
      BY NoneTypes DEF ErrorReply, NoReply, Reply
    <3>2. QED BY <2>4, <3>1 DEF FinishBroken, Rollback
  <2>5. QED BY <2>2, <2>3, <2>4
<1>3. \A o \in Tenants : tx'[o] = IF o = n THEN NoTx ELSE tx[o]
  BY <1>1, <1>2 DEF Answer
<1>4. \A u \in Tabs : reply'[u] = IF u = tx[n].tab THEN r ELSE reply[u]
  BY <1>2 DEF Answer
<1>5. tx[n].open /\ NoTx.open = FALSE
  BY DEF FinishPull, FinishResync, FinishBroken, Rollback, NoTx
<1>6. \A u \in Tabs : u = tx[n].tab => Served(n, u) /\ TenantOf[DbOf[u]] = n
  BY <1>5 DEF EndpointInv, ServerInv, Routing, Served
<1>7. \A o \in Tenants, u \in Tabs : Served(o, u)' =>
        o # n /\ tx'[o] = tx[o] /\ Served(o, u) /\ u # tx[n].tab /\ TenantOf[DbOf[u]] = o
  BY <1>3, <1>5, <1>6 DEF EndpointInv, ServerInv, Routing, Served
<1>8. Channels'
  <2>1. ASSUME NEW u \in Tabs
        PROVE  /\ Sent(u)' => /\ drain'[u].phase = "waiting" /\ ~Replied(u)'
                              /\ request'[u].cursor = cursor'[DbOf[u]]
                              /\ request'[u].muts = ToSend(drain'[u].snap)
               /\ Replied(u)' => /\ drain'[u].phase \in {"waiting", "acked", "merged"}
                                 /\ reply'[u].kind = "ok" => reply'[u].base = cursor'[DbOf[u]]
               /\ drain'[u].phase \in {"acked", "merged"} => reply'[u].kind = "ok"
               /\ drain'[u].phase # "waiting" => drain'[u].snap = {}
    <3>1. CASE u = tx[n].tab
      <4>1. Served(n, u)
        BY <3>1, <1>6
      <4>2. drain[u].phase = "waiting" /\ ~Sent(u) /\ tx[n].cursor = cursor[DbOf[u]]
        BY <4>1 DEF DrainInv, Channels
      <4>3. QED BY <3>1, <4>2, <1>1, <1>2, <1>4 DEF Sent, Replied
    <3>2. CASE u # tx[n].tab
      BY <3>2, <1>1, <1>4 DEF DrainInv, Channels, Sent, Replied
    <3>3. QED BY <3>1, <3>2
  <2>2. ASSUME NEW o \in Tenants, NEW u \in Tabs, Served(o, u)'
        PROVE  /\ drain'[u].phase = "waiting" /\ ~Sent(u)' /\ ~Replied(u)'
               /\ tx'[o].cursor = cursor'[DbOf[u]]
               /\ tx'[o].todo \subseteq ToSend(drain'[u].snap)
    BY <2>2, <1>1, <1>4, <1>7 DEF DrainInv, Channels, Sent, Replied
  <2>3. QED BY <2>1, <2>2 DEF Channels
<1>9. \A i \in Ids : \/ rows'[i] = rows[i]
                     \/ /\ rows'[i] = tx[n].writes[i] /\ rows'[i].tenant = n
                        /\ rows'[i].ver > issued[n] /\ rows'[i].ver \in Nat
  <2>1. ASSUME NEW i \in Ids, rows'[i] # rows[i]
        PROVE  Exists(tx[n].writes[i]) /\ rows'[i] = tx[n].writes[i]
    BY <2>1, <1>2 DEF View
  <2>2. \A i \in Ids : tx[n].writes[i].ver \in Nat
    BY <1>1 DEF Transaction, Row
  <2>3. QED BY <2>1, <2>2
      DEF EndpointInv, ServerInv, WritesAhead, OwnWrites, WritesHoldTheLock
<1>10. SentAreCovered'
  <2>1. ASSUME NEW u \in Tabs, NEW m \in ToSend(drain[u].snap)
        PROVE  /\ reply'[u].kind = "ok" => Covered(DbOf[u], m, rows[m.id])'
               /\ \A o \in Tenants :
                    (Served(o, u)' /\ ~tx'[o].broken /\ m \notin tx'[o].todo)
                       => Covered(DbOf[u], m, View(o, m.id))'
    <3>0. m.id \in Ids
      BY <2>1, <1>1, QueuedIds
    <3>1. ASSUME reply'[u].kind = "ok" PROVE Covered(DbOf[u], m, rows[m.id])'
      <4>1. CASE u = tx[n].tab
        <5>1. /\ tx[n].todo = {} /\ ~tx[n].broken
              /\ rows' = [i \in Ids |-> View(n, i)]
          BY <4>1, <3>1, <1>2, <1>4
        <5>2. Covered(DbOf[u], m, View(n, m.id))
          BY <4>1, <5>1, <2>1, <1>6 DEF DrainInv, SentAreCovered
        <5>3. QED BY <5>1, <5>2, <3>0, <1>1 DEF Covered, Exists
      <4>2. CASE u # tx[n].tab
        <5>1. Covered(DbOf[u], m, rows[m.id])
          BY <4>2, <3>1, <2>1, <1>4 DEF DrainInv, SentAreCovered
        <5>2. CASE rows'[m.id] = rows[m.id]
          BY <5>1, <5>2, <1>1 DEF Covered, Exists
        <5>3. CASE rows'[m.id] # rows[m.id]
          <6>1. /\ rows'[m.id].tenant = n /\ rows'[m.id].ver > issued[n]
                /\ rows'[m.id].ver \in Nat
            BY <5>3, <3>0, <1>9
          <6>2. cursor[DbOf[u]] <= issued[TenantOf[DbOf[u]]] /\ cursor[DbOf[u]] \in Nat
            BY <1>1 DEF EndpointInv, ServerInv, Cursors, SavedCursors
          <6>3. issued[n] \in Nat
            BY <1>1
          <6>4. rows'[m.id].tenant # TenantOf[DbOf[u]] \/ rows'[m.id].ver > cursor[DbOf[u]]
            BY <6>1, <6>2, <6>3
          <6>5. QED BY <6>4, <1>1 DEF Covered
        <5>4. QED BY <5>2, <5>3
      <4>3. QED BY <4>1, <4>2
    <3>2. ASSUME NEW o \in Tenants, Served(o, u)', ~tx'[o].broken, m \notin tx'[o].todo
          PROVE  Covered(DbOf[u], m, View(o, m.id))'
      <4>1. o # n /\ tx'[o] = tx[o] /\ Served(o, u) /\ TenantOf[DbOf[u]] = o
        BY <3>2, <1>7
      <4>2. Covered(DbOf[u], m, View(o, m.id))
        BY <4>1, <3>2, <2>1 DEF DrainInv, SentAreCovered
      <4>3. CASE Exists(tx[o].writes[m.id]) \/ rows'[m.id] = rows[m.id]
        BY <4>1, <4>2, <4>3, <1>1 DEF Covered, View, Exists
      <4>4. CASE ~Exists(tx[o].writes[m.id]) /\ rows'[m.id] # rows[m.id]
        <5>1. View(o, m.id)' = rows'[m.id]
          BY <4>1, <4>4 DEF View, Exists
        <5>2. rows'[m.id].tenant = n
          BY <4>4, <3>0, <1>9
        <5>3. QED BY <5>1, <5>2, <4>1 DEF Covered
      <4>5. QED BY <4>3, <4>4
    <3>3. QED BY <3>1, <3>2
  <2>2. QED BY <2>1, <1>1 DEF SentAreCovered
<1>11. \A i \in Ids : rows'[i] = rows[i] \/ rows'[i].ver > issued[rows'[i].tenant]
  BY <1>9
<1>12. \A u \in Tabs : drain[u].phase = "merged" => reply'[u] = reply[u]
  BY <1>4, <1>6 DEF DrainInv, Channels
<1>13. QED
  BY <1>8, <1>10, <1>11, <1>12, ServerFrame

(* The collector keeps the second part: it changes no row to another one,    *)
(* and removed rows are promised nothing.                                    *)
LEMMA CollectDrain ==
    ASSUME EndpointInv, EndpointInv', DrainInv, UNCHANGED clientVars, CollectTombstones
    PROVE  DrainInv'
<1>1. UNCHANGED <<tx, request, reply, replica, outbox, nextSeq, cursor, drain>>
  BY DEF CollectTombstones, clientVars
<1>2. \A i \in Ids : rows'[i] = rows[i] \/ rows'[i] = NoRow
  BY DEF CollectTombstones
<1>3. ~Exists(NoRow)
  BY DEF NoRow, Exists
<1>4. \A n \in Tenants : ~tx[n].open
  BY DEF CollectTombstones
<1>5. Channels'
  BY <1>1 DEF DrainInv, Channels, Sent, Replied, Served
<1>6. SentAreCovered'
  <2>1. \A t \in Tabs : \A m \in ToSend(drain[t].snap) : m.id \in Ids
    BY QueuedIds DEF EndpointInv
  <2>2. QED
    BY <2>1, <1>1, <1>2, <1>3, <1>4 DEF DrainInv, SentAreCovered, Served, Covered, Exists
<1>7. QED
  BY <1>1, <1>2, <1>3, <1>5, <1>6, ServerFrame

-----------------------------------------------------------------------------
(* The theorem.                                                              *)

(* The second part of the invariant holds in the initial states.             *)
LEMMA DrainInit == Init => DrainInv
<1> SUFFICES ASSUME Init PROVE DrainInv
  OBVIOUS
<1>1. /\ \A t \in Tabs : drain[t] = Idle /\ request[t] = NoRequest /\ reply[t] = NoReply
      /\ \A n \in Tenants : tx[n] = NoTx
      /\ \A d \in Dbs : outbox[d] = {} /\ cursor[d] = 0
      /\ \A i \in Ids : rows[i] = NoRow
  BY DEF Init, ServerInit
<1>2. /\ Idle.phase = "idle" /\ Idle.snap = {} /\ NoRequest.tab = Nobody
      /\ NoReply.kind = "none" /\ NoTx.open = FALSE /\ ~Exists(NoRow)
  BY DEF Idle, NoRequest, NoReply, NoTx, NoRow, Exists
<1>3. ToSend({}) = {} /\ Nobody \notin Tabs /\ Projects \subseteq Ids
  BY NamesAssumption DEF ToSend, Ids
<1>4. OneDrain /\ MergedFaithful
  BY <1>1, <1>2 DEF OneDrain, MergedFaithful
<1>5. Channels
  BY <1>1, <1>2, <1>3 DEF Channels, Sent, Replied, Served
<1>6. SentAreCovered /\ DeletesAreLocal
  BY <1>1, <1>2, <1>3 DEF SentAreCovered, DeletesAreLocal
<1>7. SnapIsOldest
  BY <1>1, <1>2, NamesAssumption DEF SnapIsOldest
<1>8. RowsFaithful
  BY <1>1, <1>2 DEF RowsFaithful, Settled
<1>9. QED
  BY <1>4, <1>5, <1>6, <1>7, <1>8 DEF DrainInv

(* Every step keeps the second part: one case per action.                    *)
LEMMA DrainNext ==
    ASSUME WebLocks = TRUE, EndpointInv, EndpointInv', OutboxInv, OutboxInv', DrainInv,
           [Next]_vars
    PROVE  DrainInv'
<1>1. TypeOK /\ OwnWrites
  BY OwnWritesHere DEF EndpointInv
<1>2. CASE LocalWrite
  BY <1>1, <1>2, LocalWriteStep
<1>3. ASSUME NEW t \in Tabs, DrainStep(t) PROVE DrainInv'
  <2>1. CASE StartDrain(t)
    BY <1>1, <2>1, PostDrain DEF StartDrain, MayDrain
  <2>2. CASE ContinueDrain(t)
    <3>1. drain[t].loops + 1 \in Nat
      BY <1>1 DEF TypeOK, Drain
    <3>2. drain[t].phase = "loop" /\ Post(t, drain[t].loops + 1)
      BY <2>2 DEF ContinueDrain
    <3>3. \A u \in Tabs \ {t} : DbOf[u] = DbOf[t] => drain[u].phase = "idle"
      BY <3>2 DEF DrainInv, OneDrain
    <3>4. QED BY <1>1, <3>1, <3>2, <3>3, PostDrain
  <2>3. QED
    BY <1>1, <1>3, <2>1, <2>2, EndDrainSteps, AckStep, MergeStep, SaveStep, ResyncStep
    DEF DrainStep
<1>4. CASE (\E t \in Tabs : StopDrain(t)) \/ (\E d \in Dbs : SignOut(d))
  BY <1>4, EndDrainSteps
<1>5. CASE ServerStep /\ UNCHANGED clientVars
  BY <1>1, <1>5, TakeDrain, ApplyDrain, FinishDrain DEF ServerStep, OutboxInv
<1>6. CASE \E n \in Tenants : Rollback(n) /\ UNCHANGED clientVars
  BY <1>1, <1>6, FinishDrain
<1>7. CASE CollectTombstones /\ UNCHANGED clientVars
  BY <1>7, CollectDrain
<1>8. CASE UNCHANGED vars
  BY <1>8, DrainFrame DEF vars, serverVars, clientVars
<1>9. QED
  BY <1>2, <1>3, <1>4, <1>5, <1>6, <1>7, <1>8 DEF Next

(* The whole invariant is inductive where the browser has Web Locks.         *)
THEOREM DrainInvariant == WebLocks = TRUE => (Spec => []IInv)
<1> SUFFICES ASSUME WebLocks = TRUE PROVE Spec => []IInv
  OBVIOUS
<1>1. Init => DrainInv
  BY DrainInit
<1>2. EndpointInv /\ EndpointInv' /\ OutboxInv /\ OutboxInv' /\ DrainInv /\ [Next]_vars
        => DrainInv'
  BY DrainNext
<1>3. EndpointInv /\ OutboxInv /\ DrainInv => IInv
  BY DEF EndpointInv, IInv, ClientInv
<1>4. QED
  BY <1>1, <1>2, <1>3, EndpointInvariant, OutboxInvariant, PTL DEF Spec

(* In particular its part about the client (client.ts, outbox.ts): what a    *)
(* drain captured, sent, was answered and has merged fits what the browser   *)
(* has queued and shows, at every step of the exchange.                      *)
THEOREM ClientIsSound == WebLocks = TRUE => (Spec => []ClientInv)
<1>1. IInv => ClientInv
  BY DEF IInv
<1>2. QED
  BY <1>1, DrainInvariant, PTL

(* Below its cursor and outside its outbox, a browser with Web Locks shows   *)
(* every project exactly as the server has it, after any interleaving of     *)
(* edits, drains of any number of browsers and tabs, lost and late requests, *)
(* rollbacks, sign-outs and tombstone collections (client.ts: ack, merge and *)
(* cursor as three transactions; outbox.ts: captured seqs only).             *)
THEOREM ReplicaIsFaithful == WebLocks = TRUE => (Spec => []ProjectsFaithful)
<1>1. Projects \subseteq Ids /\ Projects \cap Tasks = {}
  BY NamesAssumption DEF Ids
<1>2. IInv => ProjectsFaithful
  BY <1>1 DEF IInv, ClientInv, DrainInv, RowsFaithful, Shows, ProjectsFaithful
<1>3. QED
  BY <1>2, DrainInvariant, PTL

(* And it shows a task as the server has it, or not at all: a task that went *)
(* with its project, here or on another device, does not come back stale     *)
(* (projects.ts, deleteProject; client.ts, the cascade of the merge).        *)
THEOREM TasksAreFaithful == WebLocks = TRUE => (Spec => []TasksFaithful)
<1>1. IInv => TasksFaithful
  BY DEF IInv, ClientInv, DrainInv, RowsFaithful, Shows, TasksFaithful, Ids
<1>2. QED
  BY <1>1, DrainInvariant, PTL

-----------------------------------------------------------------------------
(***************************************************************************)
(* Convergence, as far as it is a matter of safety: where tombstones are   *)
(* not collected, a browser that has nothing left to push and nothing left *)
(* to pull shows what the server has, so that nothing but progress is left *)
(* to ask for.                                                             *)
(***************************************************************************)

(* Without a collector a row once stored stays, as itself or as a tombstone. *)
LEMMA RowsStay ==
    ASSUME HasCollector = FALSE, [Next]_vars
    PROVE  \A i \in Ids : Exists(rows[i]) => Exists(rows'[i])
<1>1. rows' = rows \/ \E n \in Tenants : rows' = [i \in Ids |-> View(n, i)]
  <2>1. CASE LocalWrite
    BY <2>1 DEF LocalWrite, OpenRow, CreateProject, DeleteProject, AddTask, DeleteTask, EditRow, serverVars
  <2>2. ASSUME NEW t \in Tabs, DrainStep(t) \/ StopDrain(t) PROVE rows' = rows
    BY <2>2 DEF DrainStep, StopDrain, Forsake, Abandon, StartDrain, ContinueDrain, Post, GiveUp,
       ReceiveError, ReceiveResync, AckOutbox, MergePage, SaveCursor, serverVars
  <2>3. ASSUME NEW d \in Dbs, SignOut(d) PROVE rows' = rows
    BY <2>3 DEF SignOut, Forsake, Abandon
  <2>4. CASE ServerStep
    BY <2>4 DEF ServerStep, TakeRequest, TakeOrphan, ApplyMutation, FinishPull, FinishResync,
       FinishBroken, Commit
  <2>5. CASE \E n \in Tenants : Rollback(n)
    BY <2>5 DEF Rollback
  <2>6. ~CollectTombstones
    BY DEF CollectTombstones
  <2>7. CASE UNCHANGED vars
    BY <2>7 DEF vars, serverVars
  <2>8. QED
    BY <2>1, <2>2, <2>3, <2>4, <2>5, <2>6, <2>7 DEF Next
<1>2. QED
  BY <1>1 DEF View

(* What a browser shows stays backed through a step that takes no row away   *)
(* and shows and queues what it did.                                         *)
LEMMA ShownFrame ==
    ASSUME Backed, \A i \in Ids : Exists(rows[i]) => Exists(rows'[i]),
           \A d \in Dbs : \/ replica'[d] = replica[d] /\ outbox'[d] = outbox[d]
                          \/ replica'[d] = EmptyReplica
    PROVE  \A d \in Dbs, i \in Ids : replica'[d][i] # NoVal => Exists(rows'[i]) \/ Pending(d, i)'
BY DEF Backed, ShownBacked, Pending, EmptyReplica

(* A write of the data layer queues what it shows (projects.ts: put and      *)
(* enqueue are one transaction).                                             *)
LEMMA WriteIsBacked ==
    ASSUME TypeOK, Backed, LocalWrite, \A i \in Ids : Exists(rows[i]) => Exists(rows'[i])
    PROVE  \A d \in Dbs, i \in Ids : replica'[d][i] # NoVal => Exists(rows'[i]) \/ Pending(d, i)'
<1>1. CASE UNCHANGED <<outbox, nextSeq, replica>>
  BY <1>1, ShownFrame
<1>2. ASSUME NEW d \in Dbs, NEW m \in Queued, NEW box \in SUBSET Queued,
             Wrote(d, m, box, replica'[d]),
             NEW e \in Dbs, NEW i \in Ids, replica'[e][i] # NoVal
      PROVE  Exists(rows'[i]) \/ Pending(e, i)'
  <2>1. replica \in [Dbs -> [Ids -> RowVals]] /\ outbox \in [Dbs -> SUBSET Queued]
    BY DEF TypeOK
  <2>2. CASE e # d
    <3>1. replica'[e] = replica[e] /\ outbox'[e] = outbox[e]
      BY <1>2, <2>1, <2>2 DEF Wrote
    <3>2. QED BY <1>2, <3>1 DEF Backed, ShownBacked, Pending
  <2>3. CASE e = d
    <3>1. outbox'[d] = box \cup {m}
      BY <1>2, <2>1 DEF Wrote
    <3>2. CASE i = m.id
      BY <2>3, <3>1, <3>2 DEF Pending
    <3>3. CASE i # m.id
      <4>1. /\ replica'[d][i] = replica[d][i]
            /\ \A k \in outbox[d] : k.id = i => k \in box
        BY <1>2, <2>3, <3>3 DEF Wrote, Writes
      <4>2. QED BY <1>2, <2>3, <3>1, <4>1 DEF Backed, ShownBacked, Pending
    <3>4. QED BY <3>2, <3>3
  <2>4. QED BY <2>2, <2>3
<1>3. QED
  BY <1>1, <1>2, LocalWriteEffect

(* What the acknowledgement takes out of the outbox is on the server, or is  *)
(* not shown: the newest captured entry of a row was stored, or is a delete  *)
(* of a row that was not edited since (client.ts, deleteApplied).            *)
LEMMA AckIsBacked ==
    ASSUME TypeOK, DrainInv, Backed, NEW t \in Tabs, AckOutbox(t)
    PROVE  \A d \in Dbs, i \in Ids : replica'[d][i] # NoVal => Exists(rows'[i]) \/ Pending(d, i)'
<1>1. /\ outbox \in [Dbs -> SUBSET Queued] /\ DbOf[t] \in Dbs
      /\ replica' = replica /\ rows' = rows
  BY NamesAssumption DEF TypeOK, AckOutbox, serverVars
<1>2. \A d \in Dbs : outbox'[d] = IF d = DbOf[t] THEN outbox[d] \ Answered(t) ELSE outbox[d]
  BY <1>1 DEF AckOutbox
<1>3. SUFFICES ASSUME NEW d \in Dbs, NEW i \in Ids, replica[d][i] # NoVal,
                      ~Exists(rows[i]), ~Pending(d, i)'
               PROVE  FALSE
  BY <1>1 DEF Exists
<1>4. PICK k \in outbox[d] : k.id = i
  BY <1>3 DEF Backed, ShownBacked, Pending
<1>5. d = DbOf[t] /\ \A l \in outbox[d] : l.id = i => l \in Answered(t)
  BY <1>2, <1>3, <1>4 DEF Pending
<1>6. k \in Answered(t)
  BY <1>4, <1>5
<1>7. PICK m \in ToSend(drain[t].snap) : m.id = i
  BY <1>4, <1>6 DEF Answered
<1>8. m \in Queued
  BY <1>7, QueuedIds
<1>9. CASE m.op = "upsert"
  BY <1>3, <1>7, <1>9 DEF Backed, SentBacked, AckOutbox
<1>10. CASE m.op = "delete"
  <2>1. \A l \in outbox[d] : l.id = m.id => l \in drain[t].snap
    BY <1>5, <1>7 DEF Answered
  <2>2. QED
    BY <1>3, <1>5, <1>7, <1>10, <2>1 DEF DrainInv, DeletesAreLocal
<1>11. QED
  BY <1>8, <1>9, <1>10 DEF Queued, Mutation

(* Everything else that changes what is shown: a page brings rows of the     *)
(* server, and wiping shows nothing.                                         *)
LEMMA ShownIsBacked ==
    ASSUME TypeOK, DrainInv, Backed, [Next]_vars,
           \A i \in Ids : Exists(rows[i]) => Exists(rows'[i])
    PROVE  \A d \in Dbs, i \in Ids : replica'[d][i] # NoVal => Exists(rows'[i]) \/ Pending(d, i)'
<1>1. /\ replica \in [Dbs -> [Ids -> RowVals]] /\ outbox \in [Dbs -> SUBSET Queued]
      /\ \A t \in Tabs : DbOf[t] \in Dbs
  BY NamesAssumption DEF TypeOK
<1>2. CASE LocalWrite
  BY <1>2, WriteIsBacked
<1>3. ASSUME NEW t \in Tabs, DrainStep(t) \/ StopDrain(t)
      PROVE  \A d \in Dbs, i \in Ids : replica'[d][i] # NoVal => Exists(rows'[i]) \/ Pending(d, i)'
  <2>1. CASE AckOutbox(t)
    BY <2>1, AckIsBacked
  <2>2. CASE MergePage(t)
    <3>1. /\ replica' = [replica EXCEPT ![DbOf[t]] = [i \in Ids |-> Merged(t, i)]]
          /\ outbox' = outbox
      BY <2>2 DEF MergePage
    <3>2. SUFFICES ASSUME NEW i \in Ids, Merged(t, i) # NoVal
                   PROVE  Exists(rows'[i]) \/ Pending(DbOf[t], i)'
      BY <1>1, <3>1 DEF Backed, ShownBacked, Pending
    <3>3. Exists(reply[t].page[i]) \/ replica[DbOf[t]][i] # NoVal
      BY <3>2 DEF Merged, Pulled
    <3>4. QED BY <1>1, <3>1, <3>3 DEF Backed, ShownBacked, PagesBacked, Pending
  <2>3. CASE ReceiveResync(t)
    <3>1. \A d \in Dbs : \/ replica'[d] = replica[d] /\ outbox'[d] = outbox[d]
                         \/ replica'[d] = EmptyReplica
      BY <2>3, <1>1 DEF ReceiveResync
    <3>2. QED BY <3>1, ShownFrame
  <2>4. CASE ~AckOutbox(t) /\ ~MergePage(t) /\ ~ReceiveResync(t)
    <3>1. UNCHANGED <<replica, outbox>>
      BY <1>3, <2>4 DEF DrainStep, StopDrain, StartDrain, ContinueDrain, Post, GiveUp,
         ReceiveError, SaveCursor
    <3>2. QED BY <3>1, ShownFrame
  <2>5. QED BY <2>1, <2>2, <2>3, <2>4
<1>4. ASSUME NEW d \in Dbs, SignOut(d)
      PROVE  \A e \in Dbs : \/ replica'[e] = replica[e] /\ outbox'[e] = outbox[e]
                            \/ replica'[e] = EmptyReplica
  BY <1>1, <1>4 DEF SignOut
<1>5. CASE UNCHANGED clientVars \/ UNCHANGED vars
  <2>1. UNCHANGED <<replica, outbox>>
    BY <1>5 DEF vars, clientVars
  <2>2. QED BY <2>1, ShownFrame
<1>6. QED
  BY <1>2, <1>3, <1>4, <1>5, ShownFrame DEF Next

(* Nothing that is not there is in an answer without a page.                 *)
LEMMA EmptyPages ==
    /\ \A i \in Ids : ~Exists(NoReply.page[i]) /\ ~Exists(ErrorReply.page[i])
    /\ \A n \in Tenants, i \in Ids : ~Exists(ResyncReply(n).page[i])
BY DEF NoReply, ErrorReply, ResyncReply, Exists, NoRow

(* How a step ends a transaction: its rows become visible or are dropped, and *)
(* the tab that waits for it gets the answer.                                *)
LEMMA FinishEffect ==
    ASSUME TypeOK, NEW n \in Tenants,
           FinishPull(n) \/ FinishResync(n) \/ FinishBroken(n) \/ Rollback(n)
    PROVE  /\ tx[n].open /\ UNCHANGED request
           /\ tx' = [tx EXCEPT ![n] = NoTx]
           /\ \E r : /\ \A u \in Tabs : reply'[u] = IF u = tx[n].tab THEN r ELSE reply[u]
                     /\ r.kind = "ok" => /\ tx[n].todo = {} /\ ~tx[n].broken
                                         /\ rows' = [i \in Ids |-> View(n, i)]
                     /\ \A i \in Ids : Exists(r.page[i]) => Exists(rows'[i])
<1>1. CASE FinishPull(n)
  <2>1. /\ PullReply(n).page = [i \in Ids |-> IF i \in Page(n, Projects) \cup Page(n, Tasks)
                                              THEN View(n, i) ELSE NoRow]
        /\ rows' = [i \in Ids |-> View(n, i)]
    BY <1>1 DEF PullReply, FinishPull, Commit
  <2>2. \A i \in Ids : Exists(PullReply(n).page[i]) => Exists(rows'[i])
    BY <2>1 DEF Exists, NoRow
  <2>3. QED BY <1>1, <2>1, <2>2 DEF FinishPull, Answer
<1>2. CASE FinishResync(n)
  <2>1. ResyncReply(n).kind = "resync"
    BY DEF ResyncReply, NoReply
  <2>2. QED BY <1>2, <2>1, EmptyPages DEF FinishResync, Answer
<1>3. CASE FinishBroken(n) \/ Rollback(n)
  <2>1. ErrorReply.kind = "error"
    BY DEF ErrorReply, NoReply
  <2>2. QED BY <1>3, <2>1, EmptyPages DEF FinishBroken, Rollback, Answer
<1>4. QED
  BY <1>1, <1>2, <1>3

(* Every other step leaves each answer alone or takes it.                    *)
LEMMA AnswersOrTaken ==
    ASSUME TypeOK, [Next]_vars
    PROVE  \/ \E n \in Tenants : FinishPull(n) \/ FinishResync(n) \/ FinishBroken(n) \/ Rollback(n)
           \/ \A u \in Tabs : reply'[u] \in {reply[u], NoReply}
<1>1. reply \in [Tabs -> Reply]
  BY DEF TypeOK, ServerTypeOK
<1>2. CASE LocalWrite
  BY <1>2, LocalWriteType DEF serverVars
<1>3. ASSUME NEW t \in Tabs, DrainStep(t) \/ StopDrain(t)
      PROVE  \A u \in Tabs : reply'[u] \in {reply[u], NoReply}
  BY <1>1, <1>3 DEF DrainStep, StopDrain, Forsake, Abandon, StartDrain, ContinueDrain, Post, GiveUp,
     ReceiveError, ReceiveResync, AckOutbox, MergePage, SaveCursor, TakeReply, serverVars
<1>4. ASSUME NEW d \in Dbs, SignOut(d) PROVE \A u \in Tabs : reply'[u] \in {reply[u], NoReply}
  BY <1>4 DEF SignOut, Forsake, Abandon
<1>5. CASE ServerStep
  BY <1>5 DEF ServerStep, TakeRequest, TakeOrphan, ApplyMutation
<1>6. CASE CollectTombstones \/ UNCHANGED vars
  BY <1>6 DEF CollectTombstones, vars, serverVars
<1>7. QED
  BY <1>2, <1>3, <1>4, <1>5, <1>6 DEF Next

(* So what a page brings is on the server (server.ts, pullChanges: rows as    *)
(* the transaction sees them).                                               *)
LEMMA PagesAreBacked ==
    ASSUME TypeOK, Backed, [Next]_vars, \A i \in Ids : Exists(rows[i]) => Exists(rows'[i])
    PROVE  \A t \in Tabs, i \in Ids : Exists(reply'[t].page[i]) => Exists(rows'[i])
<1>1. CASE \E n \in Tenants : FinishPull(n) \/ FinishResync(n) \/ FinishBroken(n) \/ Rollback(n)
  BY <1>1, FinishEffect DEF Backed, PagesBacked
<1>2. CASE \A u \in Tabs : reply'[u] \in {reply[u], NoReply}
  BY <1>2, EmptyPages DEF Backed, PagesBacked
<1>3. QED
  BY <1>1, <1>2, AnswersOrTaken

(* What was sent stays backed where each tab's exchange is untouched or over. *)
LEMMA SentFrame ==
    ASSUME TypeOK, SentBacked, \A i \in Ids : Exists(rows[i]) => Exists(rows'[i]),
           \A u \in Tabs :
             \/ drain'[u].snap = {}
             \/ /\ drain'[u].snap = drain[u].snap
                /\ reply'[u] = reply[u]
                /\ \A n \in Tenants : Served(n, u)' => Served(n, u) /\ tx'[n] = tx[n]
    PROVE  SentBacked'
<1>1. ToSend({}) = {}
  BY DEF ToSend
<1>2. ASSUME NEW u \in Tabs, NEW m \in ToSend(drain'[u].snap), m.op = "upsert"
      PROVE  /\ reply'[u].kind = "ok" => Exists(rows'[m.id])
             /\ \A n \in Tenants :
                 (Served(n, u)' /\ ~tx'[n].broken /\ m \notin tx'[n].todo) => Exists(View(n, m.id))'
  <2>1. /\ drain'[u].snap = drain[u].snap
        /\ reply'[u] = reply[u]
        /\ \A n \in Tenants : Served(n, u)' => Served(n, u) /\ tx'[n] = tx[n]
    BY <1>1, <1>2
  <2>2. m \in ToSend(drain[u].snap) /\ m.id \in Ids
    BY <1>2, <2>1, QueuedIds
  <2>3. reply'[u].kind = "ok" => Exists(rows'[m.id])
    BY <1>2, <2>1, <2>2 DEF SentBacked
  <2>4. ASSUME NEW n \in Tenants, Served(n, u)', ~tx'[n].broken, m \notin tx'[n].todo
        PROVE  Exists(View(n, m.id))'
    <3>1. Exists(View(n, m.id)) /\ tx'[n] = tx[n]
      BY <1>2, <2>1, <2>2, <2>4 DEF SentBacked
    <3>2. QED BY <2>2, <3>1 DEF View, Exists
  <2>5. QED BY <2>3, <2>4
<1>3. QED
  BY <1>2 DEF SentBacked, Exists

(* The browser's steps: a drain that begins waits for everything it sends,   *)
(* and one that has been answered or has ended has sent nothing.             *)
LEMMA BrowserSends ==
    ASSUME EndpointInv, DrainInv, SentBacked, [Next]_vars,
           \A i \in Ids : Exists(rows[i]) => Exists(rows'[i])
    PROVE  /\ \A t \in Tabs : DrainStep(t) \/ StopDrain(t) => SentBacked'
           /\ \A d \in Dbs : SignOut(d) => SentBacked'
<1>1. /\ TypeOK /\ drain \in [Tabs -> Drain] /\ reply \in [Tabs -> Reply]
      /\ tx \in [Tenants -> Transaction] /\ Nobody \notin Tabs
      /\ Idle.snap = {} /\ Channels
  BY NamesAssumption DEF EndpointInv, TypeOK, ServerTypeOK, Idle, DrainInv
<1>2. ASSUME NEW t \in Tabs, NEW l \in Nat, Post(t, l), drain[t].phase \in {"idle", "loop"}
      PROVE  SentBacked'
  <2>1. ~Replied(t) /\ \A n \in Tenants : ~Served(n, t)
    BY <1>1, <1>2, Quiet
  <2>2. /\ UNCHANGED <<rows, tx, reply>>
        /\ \A u \in Tabs \ {t} : drain'[u] = drain[u]
    BY <1>1, <1>2 DEF Post
  <2>3. ASSUME NEW u \in Tabs, NEW m \in ToSend(drain'[u].snap), m.op = "upsert"
        PROVE  /\ reply'[u].kind = "ok" => Exists(rows'[m.id])
               /\ \A n \in Tenants :
                   (Served(n, u)' /\ ~tx'[n].broken /\ m \notin tx'[n].todo)
                      => Exists(View(n, m.id))'
    <3>1. CASE u = t
      BY <3>1, <2>1, <2>2 DEF Replied, Served
    <3>2. CASE u # t
      BY <3>2, <2>2, <2>3 DEF SentBacked, Served, View, Exists
    <3>3. QED BY <3>1, <3>2
  <2>4. QED BY <2>3 DEF SentBacked, Exists
<1>3. ASSUME NEW T \in SUBSET Tabs, Forsake(T) PROVE SentBacked'
  <2>1. \A u \in Tabs : /\ drain'[u] = IF u \in T THEN Idle ELSE drain[u]
                        /\ u \notin T => reply'[u] = reply[u]
    BY <1>3 DEF Forsake, Abandon
  <2>2. ASSUME NEW n \in Tenants, NEW u \in Tabs \ T, Served(n, u)'
        PROVE  Served(n, u) /\ tx'[n] = tx[n]
    <3>1. tx'[n] = IF tx[n].tab \in T THEN [tx[n] EXCEPT !.tab = Nobody] ELSE tx[n]
      BY <1>3 DEF Forsake, Abandon
    <3>2. tx[n].tab \in T => tx'[n].tab = Nobody
      BY <1>1, <3>1 DEF Transaction
    <3>3. QED BY <1>1, <2>2, <3>1, <3>2 DEF Served
  <2>3. QED BY <1>1, <2>1, <2>2, SentFrame
<1>4. ASSUME NEW t \in Tabs, DrainStep(t) PROVE SentBacked'
  <2>1. CASE StartDrain(t)
    BY <1>2, <2>1 DEF StartDrain
  <2>2. CASE ContinueDrain(t)
    <3>1. drain[t].loops + 1 \in Nat
      BY <1>1 DEF Drain
    <3>2. QED BY <1>2, <2>2, <3>1 DEF ContinueDrain
  <2>3. CASE ~StartDrain(t) /\ ~ContinueDrain(t)
    <3>1. UNCHANGED tx /\ \A u \in Tabs \ {t} : drain'[u] = drain[u] /\ reply'[u] = reply[u]
      BY <1>1, <1>4, <2>3 DEF DrainStep, GiveUp, ReceiveError, ReceiveResync, AckOutbox,
         MergePage, SaveCursor, TakeReply, serverVars
    <3>2. drain'[t].snap = {} \/ (drain'[t].snap = drain[t].snap /\ reply'[t] = reply[t])
      <4>1. CASE GiveUp(t) \/ ReceiveError(t)
        BY <1>1, <4>1 DEF GiveUp, ReceiveError
      <4>2. CASE ReceiveResync(t)
        BY <1>1, <4>2 DEF ReceiveResync, Drain
      <4>3. CASE AckOutbox(t)
        BY <1>1, <4>3 DEF AckOutbox, Drain
      <4>4. CASE MergePage(t)
        BY <1>1, <4>4 DEF MergePage, Drain, serverVars
      <4>5. CASE SaveCursor(t)
        BY <1>1, <4>5 DEF SaveCursor, Drain, Channels
      <4>6. QED BY <1>4, <2>3, <4>1, <4>2, <4>3, <4>4, <4>5 DEF DrainStep
    <3>3. QED BY <1>1, <3>1, <3>2, SentFrame DEF Served
  <2>4. QED BY <2>1, <2>2, <2>3
<1>5. ASSUME NEW t \in Tabs, StopDrain(t) PROVE SentBacked'
  BY <1>3, <1>5 DEF StopDrain
<1>6. ASSUME NEW d \in Dbs, SignOut(d) PROVE SentBacked'
  <2>1. {t \in Tabs : DbOf[t] = d} \in SUBSET Tabs
    OBVIOUS
  <2>2. QED BY <1>3, <1>6, <2>1 DEF SignOut
<1>7. QED
  BY <1>4, <1>5, <1>6

(* Taking a request: the transaction has all of it before it.                *)
LEMMA TakeSends ==
    ASSUME EndpointInv, DrainInv, SentBacked, UNCHANGED clientVars,
           \A i \in Ids : Exists(rows[i]) => Exists(rows'[i]),
           (\E t \in Tabs : TakeRequest(t)) \/ TakeOrphan
    PROVE  SentBacked'
<1>1. /\ TypeOK /\ tx \in [Tenants -> Transaction] /\ request \in [Tabs -> Request]
      /\ orphans \in SUBSET Request
      /\ TenantOf \in [Dbs -> Tenants] /\ Nobody \notin Tabs
      /\ UNCHANGED <<rows, reply, drain>>
  BY NamesAssumption DEF EndpointInv, TypeOK, ServerTypeOK, clientVars, TakeRequest, TakeOrphan
<1>2. PICK r \in Request :
        /\ tx' = [tx EXCEPT ![TenantOf[r.db]] = Opened(r)]
        /\ r.tab \in Tabs => Sent(r.tab) /\ r = request[r.tab]
  <2>1. CASE \E t \in Tabs : TakeRequest(t)
    BY <1>1, <2>1 DEF TakeRequest, Sent
  <2>2. CASE TakeOrphan
    <3>1. PICK r \in orphans : tx' = [tx EXCEPT ![TenantOf[r.db]] = Opened(r)]
      BY <2>2 DEF TakeOrphan
    <3>2. r \in Request /\ r.tab = Nobody
      BY <1>1 DEF EndpointInv, ServerInv, Routing
    <3>3. QED BY <1>1, <3>1, <3>2
  <2>3. QED BY <2>1, <2>2
<1>3. Opened(r).tab = r.tab /\ Opened(r).todo = r.muts
  BY NoneTypes DEF Opened, Transaction, Request, NoTx
<1>4. TenantOf[r.db] \in Tenants
  BY <1>1 DEF Request
<1>5. ASSUME NEW u \in Tabs, NEW m \in ToSend(drain[u].snap), m.op = "upsert"
      PROVE  /\ reply'[u].kind = "ok" => Exists(rows'[m.id])
             /\ \A n \in Tenants :
                 (Served(n, u)' /\ ~tx'[n].broken /\ m \notin tx'[n].todo)
                    => Exists(View(n, m.id))'
  <2>1. reply'[u].kind = "ok" => Exists(rows'[m.id])
    BY <1>1, <1>5 DEF SentBacked
  <2>2. ASSUME NEW n \in Tenants, Served(n, u)', ~tx'[n].broken, m \notin tx'[n].todo
        PROVE  Exists(View(n, m.id))'
    <3>1. CASE n = TenantOf[r.db]
      <4>1. tx'[n] = Opened(r)
        BY <1>1, <1>2, <1>4, <3>1
      <4>2. u = r.tab /\ m \notin r.muts
        BY <1>3, <2>2, <4>1 DEF Served
      <4>3. r.muts = ToSend(drain[u].snap)
        BY <1>2, <4>2 DEF DrainInv, Channels
      <4>4. QED BY <1>5, <4>2, <4>3
    <3>2. CASE n # TenantOf[r.db]
      <4>1. tx'[n] = tx[n] /\ Served(n, u)
        BY <1>1, <1>2, <1>4, <2>2, <3>2 DEF Served
      <4>2. QED BY <1>1, <1>5, <2>2, <4>1 DEF SentBacked, View, Exists
    <3>3. QED BY <3>1, <3>2
  <2>3. QED BY <2>1, <2>2
<1>6. QED
  BY <1>1, <1>5 DEF SentBacked, Exists

(* Applying a mutation: an upsert that is not refused leaves a row.          *)
LEMMA ApplySends ==
    ASSUME EndpointInv, NothingRejected', SentBacked, UNCHANGED clientVars,
           NEW n \in Tenants, ApplyMutation(n)
    PROVE  SentBacked'
<1> DEFINE x == tx'[n]
<1>1. /\ TypeOK /\ tx \in [Tenants -> Transaction] /\ UNCHANGED drain /\ seq \in Nat
  BY DEF EndpointInv, TypeOK, ServerTypeOK, clientVars
<1>2. PICK m0 \in tx[n].todo : Effect(n, m0, x, seq')
  BY ApplyEffect DEF EndpointInv
<1>3. tx' = [tx EXCEPT ![n] = x] /\ UNCHANGED <<rows, reply>>
  BY ApplyEffect DEF EndpointInv
<1>4. /\ x.tab = tx[n].tab /\ x.todo \in {tx[n].todo, tx[n].todo \ {m0}} /\ x \in Transaction
      /\ \A i \in Ids : x.writes[i] = tx[n].writes[i] \/ Fresh(n, i, x.writes[i], seq')
      /\ (m0 \in Queued /\ ~x.broken /\ x.rejected = {} /\ m0 \notin x.todo) =>
           Answers(n, m0, IF Exists(x.writes[m0.id]) THEN x.writes[m0.id] ELSE rows[m0.id])
  BY <1>2 DEF Effect, Grown
<1>5. tx[n].open /\ ~tx[n].broken
  BY DEF ApplyMutation
<1>6. \A o \in Tenants : tx'[o] = IF o = n THEN x ELSE tx[o]
  BY <1>1, <1>3
<1> HIDE DEF x
<1>7. \A o \in Tenants, u \in Tabs : Served(o, u)' => Served(o, u)
  BY <1>4, <1>5, <1>6 DEF Served
<1>8. ASSUME NEW u \in Tabs, NEW m \in ToSend(drain[u].snap), m.op = "upsert"
      PROVE  /\ reply'[u].kind = "ok" => Exists(rows'[m.id])
             /\ \A o \in Tenants :
                 (Served(o, u)' /\ ~tx'[o].broken /\ m \notin tx'[o].todo)
                    => Exists(View(o, m.id))'
  <2>1. reply'[u].kind = "ok" => Exists(rows'[m.id])
    BY <1>3, <1>8 DEF SentBacked
  <2>2. ASSUME NEW o \in Tenants, Served(o, u)', ~tx'[o].broken, m \notin tx'[o].todo
        PROVE  Exists(View(o, m.id))'
    <3>1. Served(o, u)
      BY <2>2, <1>7
    <3>2. CASE o # n
      <4>1. tx'[o] = tx[o]
        BY <3>2, <1>6
      <4>2. QED BY <1>3, <1>8, <2>2, <3>1, <4>1 DEF SentBacked, View, Exists
    <3>3. CASE o = n
      <4>1. View(o, m.id)' = IF Exists(x.writes[m.id]) THEN x.writes[m.id] ELSE rows[m.id]
        BY <3>3, <1>3, <1>6 DEF View, Exists
      <4>2. m.id \in Ids /\ m \in Queued
        BY <1>1, <1>8, QueuedIds
      <4>3. CASE Fresh(n, m.id, x.writes[m.id], seq')
        <5>1. x.writes[m.id].ver \in Nat
          BY <1>4, <4>2 DEF Transaction, Row
        <5>2. Exists(x.writes[m.id])
          BY <1>1, <4>3, <5>1 DEF Fresh, Exists
        <5>3. QED BY <4>1, <5>2 DEF Exists
      <4>4. CASE x.writes[m.id] = tx[n].writes[m.id] /\ m \notin tx[n].todo
        <5>1. Exists(View(n, m.id))
          BY <1>5, <1>8, <3>1, <3>3, <4>4 DEF SentBacked
        <5>2. QED BY <4>1, <4>4, <5>1 DEF View, Exists
      <4>5. CASE m = m0
        <5>1. x.rejected = {}
          BY <1>6 DEF NothingRejected
        <5>2. Answers(n, m, View(o, m.id)')
          BY <1>4, <1>6, <2>2, <3>3, <4>1, <4>2, <4>5, <5>1
        <5>3. QED BY <1>8, <5>2 DEF Answers, Exists
      <4>6. m = m0 \/ m \notin tx[n].todo
        BY <3>3, <2>2, <1>4, <1>6
      <4>7. QED BY <1>4, <4>2, <4>3, <4>4, <4>5, <4>6
    <3>4. QED BY <3>2, <3>3
  <2>3. QED BY <2>1, <2>2
<1>9. QED
  BY <1>1, <1>8 DEF SentBacked, Exists

(* The end of a transaction: a page is sent when nothing is left to settle.  *)
LEMMA FinishSends ==
    ASSUME EndpointInv, SentBacked, UNCHANGED clientVars,
           \A i \in Ids : Exists(rows[i]) => Exists(rows'[i]), NEW n \in Tenants,
           FinishPull(n) \/ FinishResync(n) \/ FinishBroken(n) \/ Rollback(n)
    PROVE  SentBacked'
<1>1. TypeOK /\ tx \in [Tenants -> Transaction] /\ UNCHANGED drain /\ ~NoTx.open
  BY DEF EndpointInv, TypeOK, ServerTypeOK, clientVars, NoTx
<1>2. PICK r : /\ tx[n].open /\ tx' = [tx EXCEPT ![n] = NoTx]
               /\ \A u \in Tabs : reply'[u] = IF u = tx[n].tab THEN r ELSE reply[u]
               /\ r.kind = "ok" => /\ tx[n].todo = {} /\ ~tx[n].broken
                                   /\ rows' = [i \in Ids |-> View(n, i)]
  BY <1>1, FinishEffect
<1>3. ASSUME NEW u \in Tabs, NEW m \in ToSend(drain[u].snap), m.op = "upsert"
      PROVE  /\ reply'[u].kind = "ok" => Exists(rows'[m.id])
             /\ \A o \in Tenants :
                 (Served(o, u)' /\ ~tx'[o].broken /\ m \notin tx'[o].todo)
                    => Exists(View(o, m.id))'
  <2>1. m.id \in Ids
    BY <1>1, <1>3, QueuedIds
  <2>2. ASSUME reply'[u].kind = "ok" PROVE Exists(rows'[m.id])
    <3>1. CASE u = tx[n].tab
      <4>1. Served(n, u) /\ tx[n].todo = {} /\ ~tx[n].broken /\ rows'[m.id] = View(n, m.id)
        BY <1>2, <2>1, <2>2, <3>1 DEF Served
      <4>2. QED BY <1>3, <4>1 DEF SentBacked
    <3>2. CASE u # tx[n].tab
      BY <1>2, <1>3, <2>1, <2>2, <3>2 DEF SentBacked
    <3>3. QED BY <3>1, <3>2
  <2>3. ASSUME NEW o \in Tenants, Served(o, u)', ~tx'[o].broken, m \notin tx'[o].todo
        PROVE  Exists(View(o, m.id))'
    <3>1. tx'[o] = tx[o] /\ Served(o, u)
      BY <1>1, <1>2, <2>3 DEF Served
    <3>2. Exists(View(o, m.id))
      BY <1>3, <2>3, <3>1 DEF SentBacked
    <3>3. QED BY <2>1, <3>1, <3>2 DEF View, Exists
  <2>4. QED BY <2>2, <2>3
<1>4. QED
  BY <1>1, <1>3 DEF SentBacked, Exists

(* No step takes what backs the browsers: the three parts are inductive.     *)
LEMMA BackedNext ==
    ASSUME HasCollector = FALSE, EndpointInv, NothingRejected', DrainInv, Backed, [Next]_vars
    PROVE  Backed'
<1>1. TypeOK /\ \A i \in Ids : Exists(rows[i]) => Exists(rows'[i])
  BY RowsStay DEF EndpointInv
<1>2. ShownBacked'
  <2>1. \A d \in Dbs, i \in Ids : replica'[d][i] # NoVal => Exists(rows'[i]) \/ Pending(d, i)'
    BY <1>1, ShownIsBacked
  <2>2. QED BY <2>1 DEF ShownBacked, Exists
<1>3. PagesBacked'
  <2>1. \A t \in Tabs, i \in Ids : Exists(reply'[t].page[i]) => Exists(rows'[i])
    BY <1>1, PagesAreBacked
  <2>2. QED BY <2>1 DEF PagesBacked, Exists
<1>4. SentBacked'
  <2>1. SentBacked
    BY DEF Backed
  <2>2. CASE LocalWrite \/ UNCHANGED vars
    <3>1. UNCHANGED <<tx, reply, drain>>
      BY <1>1, <2>2, LocalWriteType DEF vars, serverVars, clientVars
    <3>2. QED BY <1>1, <2>1, <3>1, SentFrame DEF Served
  <2>3. CASE \/ \E t \in Tabs : DrainStep(t) \/ StopDrain(t)
             \/ \E d \in Dbs : SignOut(d)
    BY <1>1, <2>1, <2>3, BrowserSends
  <2>4. CASE ServerStep /\ UNCHANGED clientVars
    BY <1>1, <2>1, <2>4, TakeSends, ApplySends, FinishSends DEF ServerStep
  <2>5. CASE \E n \in Tenants : Rollback(n) /\ UNCHANGED clientVars
    BY <1>1, <2>1, <2>5, FinishSends
  <2>6. ~CollectTombstones
    BY DEF CollectTombstones
  <2>7. QED
    BY <2>2, <2>3, <2>4, <2>5, <2>6 DEF Next
<1>5. QED
  BY <1>2, <1>3, <1>4 DEF Backed

(* Nothing is shown, answered or sent at first.                              *)
LEMMA BackedInit == Init => Backed
<1> SUFFICES ASSUME Init PROVE Backed
  OBVIOUS
<1>1. \A d \in Dbs, i \in Ids : replica[d][i] = NoVal
  BY DEF Init, EmptyReplica
<1>2. \A t \in Tabs : reply[t] = NoReply /\ ToSend(drain[t].snap) = {}
  BY DEF Init, ServerInit, Idle, ToSend
<1>3. QED
  BY <1>1, <1>2, EmptyPages DEF Backed, ShownBacked, PagesBacked, SentBacked

(* A browser that is caught up shows the server's projects.                  *)
LEMMA CaughtUpConverges ==
    ASSUME EndpointInv, OutboxInv, RowsFaithful, Backed, CaughtUp
    PROVE  Converged
<1>1. /\ Projects \subseteq Ids /\ Projects \cap Tasks = {} /\ NoTenant \notin Tenants
      /\ rows \in [Ids -> Row] /\ TenantOf \in [Dbs -> Tenants]
  BY NamesAssumption DEF EndpointInv, TypeOK, ServerTypeOK, Ids
<1>2. PICK w \in [Ids -> Tenants] : Homes(w)
  BY DEF OutboxInv
<1>3. SUFFICES ASSUME NEW d \in Dbs, NEW p \in Projects,
                      rows[p].tenant \in {TenantOf[d], NoTenant}
               PROVE  replica[d][p] = Visible(rows[p])
  BY DEF CaughtUp, Converged
<1>4. p \in Ids /\ ~Pending(d, p)
  BY <1>1 DEF CaughtUp, Pending
<1>5. CASE Exists(rows[p])
  <2>1. rows[p].tenant = TenantOf[d]
    BY <1>1, <1>2, <1>3, <1>4, <1>5 DEF Homes, RowHomes
  <2>2. Settled(d, p)
    BY <1>4, <1>5, <2>1 DEF CaughtUp, Settled
  <2>3. QED
    BY <1>1, <1>4, <2>2 DEF RowsFaithful, Shows
<1>6. CASE ~Exists(rows[p])
  BY <1>4, <1>6 DEF Backed, ShownBacked, Visible, IsLive
<1>7. QED
  BY <1>5, <1>6

(* Where tombstones are not collected, as shipped, browsers with Web Locks   *)
(* that have pushed all they have and pulled all there is show exactly the   *)
(* server's projects: nothing missing, nothing stale, nothing that is not    *)
(* there.  With ReplicaIsFaithful this leaves of EventuallyConverged only    *)
(* that drains make progress (client.ts, syncOnce).                          *)
THEOREM CaughtUpBrowsersAgree ==
    WebLocks = TRUE /\ HasCollector = FALSE => (Spec => [](CaughtUp => Converged))
<1> SUFFICES ASSUME WebLocks = TRUE, HasCollector = FALSE
             PROVE  Spec => [](CaughtUp => Converged)
  OBVIOUS
<1>1. Init => Backed
  BY BackedInit
<1>2. IInv /\ IInv' /\ EndpointInv /\ Backed /\ [Next]_vars => Backed'
  BY BackedNext DEF IInv, ClientInv, OutboxInv
<1>3. IInv /\ EndpointInv /\ Backed => (CaughtUp => Converged)
  BY CaughtUpConverges DEF IInv, ClientInv, DrainInv
<1>4. Spec => []IInv
  BY DrainInvariant
<1>5. QED
  BY <1>1, <1>2, <1>3, <1>4, EndpointInvariant, PTL DEF Spec
===============================================================================
