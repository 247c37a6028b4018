---------------------------- MODULE PasskeysProofs ----------------------------
(***************************************************************************)
(* Proofs about module Passkeys, for any users, credentials, tickets and   *)
(* sign-ins in flight, and any bounds.                                     *)
(***************************************************************************)
EXTENDS Passkeys, TLAPS

-----------------------------------------------------------------------------
(* The inductive invariant.                                                 *)

\* A registration's ticket names the owner of the credential made for it, and
\* no ticket is of both ceremonies.
Enrolled ==
    /\ \A t \in Tickets :
          /\ tickets[t].purpose = "webauthn_reg" => tickets[t].uid \in Users
          /\ tickets[t].purpose = "webauthn_auth" => tickets[t].uid \in Users \cup {Decoy}
    /\ \A a \in attested :
          /\ tickets[a.ticket].purpose \in {"webauthn_reg", "expired"}
          /\ devices[a.cred].user \in Users /\ tickets[a.ticket].uid = devices[a.cred].user

\* A row belongs to the owner of its credential.
Owned == \A c \in Creds : rows[c].user # NoUser => /\ rows[c].user = devices[c].user
                                                    /\ rows[c].id <= changes

\* What a counting authenticator signed has counted.
Counted == \A a \in asserted : a.cred \in Counting => a.count > 0

\* A sign-in under way is of the ticket's user, who owns the credential.
Bound ==
    \A p \in Procs :
        LET a == procs[p].ans IN
        Busy(p) =>
        /\ a \in asserted
        /\ procs[p].user \in Users
        /\ procs[p].user = devices[a.cred].user /\ procs[p].user = tickets[a.ticket].uid
        /\ tickets[a.ticket].purpose \in {"webauthn_auth", "expired"}
        /\ \A x \in attested : x.ticket # a.ticket

\* A row made since a sign-in read has another id; the counter it read stands
\* unless it was overtaken.
Reading ==
    \A p \in Procs :
        LET r == procs[p]
            row == rows[r.ans.cred]
        IN  r.pc = "counter" =>
            /\ r.id <= changes
            /\ row.user = NoUser => r.id < changes
            /\ (~Gone(r) /\ ~r.raced /\ r.ans.cred \in Counting) => r.ans.count > row.count

\* The counter of a row is that of the latest answer accepted.
Used ==
    \A x \in used :
        (x.cred \in Counting \ muddled /\ rows[x.cred].user # NoUser) => x.count <= rows[x.cred].count

\* A sign-in that read its user was active then or later; one about to read an
\* active user was active already when its answer was accepted, or is since.
Active ==
    \A p \in Procs :
        /\ procs[p].pc = "issue" => procs[p].active
        /\ (procs[p].pc = "login" /\ procs[p].user \in accounts) => procs[p].active

IInv == TypeOK /\ Enrolled /\ Owned /\ Counted /\ Bound /\ Reading /\ Used

-----------------------------------------------------------------------------
(* The first states satisfy the invariant.                                  *)
LEMMA Initially == Init => IInv
<1> SUFFICES ASSUME Init PROVE IInv
  OBVIOUS
<1>0. MaxChanges \in Nat /\ MaxCount \in Nat
  BY PasskeysAssumption
<1>1. TypeOK
  <2>1. rows \in [Creds -> Row]
    BY DEF Init, Row
  <2>2. devices \in [Creds -> Device] /\ tickets \in [Tickets -> Ticket]
    BY <1>0 DEF Init, Device, Ticket
  <2>3. procs \in [Procs -> Proc]
    BY <1>0 DEF Init, Idle, Proc
  <2>4. QED BY <1>0, <2>1, <2>2, <2>3 DEF Init, TypeOK
<1>2. Enrolled /\ Counted /\ Used
  BY DEF Init, Enrolled, Counted, Used
<1>3. Owned /\ Bound /\ Reading
  BY DEF Init, Owned, Bound, Busy, Reading, NoRow, Idle
<1>4. QED BY <1>1, <1>2, <1>3 DEF IInv

(* Tickets are signed for a ceremony and a user, and expire.                *)
LEMMA TicketStep ==
    ASSUME IInv, NEW t \in Tickets,
           \/ \E u \in Users : RegistrationOptions(t, u) \/ LoginOptions(t, u)
           \/ TicketExpires(t)
    PROVE  IInv'
<1>0. changes \in 0..MaxChanges /\ MaxChanges \in Nat
  BY PasskeysAssumption DEF IInv, TypeOK
<1>1. /\ UNCHANGED <<accounts, rows, devices, attested, asserted, procs, used, muddled>>
      /\ changes' \in 0..MaxChanges /\ changes <= changes'
  BY <1>0 DEF RegistrationOptions, LoginOptions, Sign, TicketExpires
<1>2. PICK k \in Ticket :
         /\ tickets' = [tickets EXCEPT ![t] = k]
         /\ \/ tickets[t].purpose = "none" /\ k.purpose \in {"webauthn_reg", "webauthn_auth"}
               /\ (k.purpose = "webauthn_reg" => k.uid \in Users)
               /\ (k.purpose = "webauthn_auth" => k.uid \in Users \cup {Decoy})
            \/ k.purpose = "expired" /\ k.uid = tickets[t].uid
  <2>1. ASSUME NEW u \in Users, RegistrationOptions(t, u)
        PROVE  /\ [purpose |-> "webauthn_reg", uid |-> u] \in Ticket
               /\ tickets' = [tickets EXCEPT ![t] = [purpose |-> "webauthn_reg", uid |-> u]]
               /\ tickets[t].purpose = "none"
    BY <2>1 DEF RegistrationOptions, Sign, Ticket
  <2>2. ASSUME NEW u \in Users, LoginOptions(t, u)
        PROVE  \E w \in Users \cup {Decoy} :
                  /\ [purpose |-> "webauthn_auth", uid |-> w] \in Ticket
                  /\ tickets' = [tickets EXCEPT ![t] = [purpose |-> "webauthn_auth", uid |-> w]]
                  /\ tickets[t].purpose = "none"
    BY <2>2 DEF LoginOptions, Sign, Ticket
  <2>3. ASSUME TicketExpires(t)
        PROVE  /\ [tickets[t] EXCEPT !.purpose = "expired"] \in Ticket
               /\ [tickets[t] EXCEPT !.purpose = "expired"].purpose = "expired"
               /\ [tickets[t] EXCEPT !.purpose = "expired"].uid = tickets[t].uid
               /\ tickets' = [tickets EXCEPT ![t] = [tickets[t] EXCEPT !.purpose = "expired"]]
    BY <2>3 DEF TicketExpires, IInv, TypeOK, Ticket
  <2>4. QED BY <2>1, <2>2, <2>3
<1>3. tickets' \in [Tickets -> Ticket] /\ tickets'[t] = k /\ \A s \in Tickets : s # t => tickets'[s] = tickets[s]
  BY <1>2 DEF IInv, TypeOK
<1>4. TypeOK'
  BY <1>1, <1>3 DEF IInv, TypeOK
<1>5. \A a \in attested \cup asserted : a.ticket \in Tickets
  BY DEF IInv, TypeOK, Answer
<1>6. Enrolled'
  <2>1. ASSUME NEW s \in Tickets
        PROVE  /\ tickets'[s].purpose = "webauthn_reg" => tickets'[s].uid \in Users
               /\ tickets'[s].purpose = "webauthn_auth" => tickets'[s].uid \in Users \cup {Decoy}
    <3>1. CASE s = t
      BY <1>2, <1>3, <3>1
    <3>2. CASE s # t
      BY <1>3, <3>2 DEF IInv, Enrolled
    <3>3. QED BY <3>1, <3>2
  <2>2. ASSUME NEW a \in attested
        PROVE  tickets'[a.ticket].purpose \in {"webauthn_reg", "expired"} /\ tickets'[a.ticket].uid = tickets[a.ticket].uid
    <3>1. tickets[a.ticket].purpose \in {"webauthn_reg", "expired"}
      BY DEF IInv, Enrolled
    <3>2. CASE a.ticket = t
      BY <1>2, <1>3, <3>1, <3>2
    <3>3. CASE a.ticket # t
      BY <1>3, <1>5, <3>1, <3>3
    <3>4. QED BY <3>2, <3>3
  <2>3. QED BY <1>1, <2>1, <2>2 DEF IInv, Enrolled
<1>7. Bound'
  <2> SUFFICES ASSUME NEW p \in Procs, Busy(p)
               PROVE  /\ tickets'[procs[p].ans.ticket].uid = tickets[procs[p].ans.ticket].uid
                      /\ tickets'[procs[p].ans.ticket].purpose \in {"webauthn_auth", "expired"}
    BY <1>1 DEF IInv, Bound, Busy
  <2>1. procs[p].ans \in asserted /\ tickets[procs[p].ans.ticket].purpose \in {"webauthn_auth", "expired"}
    BY DEF IInv, Bound, Busy
  <2>2. CASE procs[p].ans.ticket = t
    BY <1>2, <1>3, <2>1, <2>2
  <2>3. CASE procs[p].ans.ticket # t
    BY <1>3, <1>5, <2>1, <2>3
  <2>4. QED BY <2>2, <2>3
<1>8. Owned'
  <2> SUFFICES ASSUME NEW c \in Creds, rows[c].user # NoUser
               PROVE  rows[c].user = devices[c].user /\ rows[c].id <= changes'
    BY <1>1 DEF Owned
  <2>1. rows[c].user = devices[c].user /\ rows[c].id <= changes /\ rows[c].id \in Nat
    BY <1>0 DEF IInv, Owned, TypeOK, Row, NoRow
  <2>2. QED BY <1>0, <1>1, <2>1
<1>9. Reading'
  <2> SUFFICES ASSUME NEW p \in Procs, procs[p].pc = "counter"
               PROVE  /\ procs[p].id <= changes'
                      /\ rows[procs[p].ans.cred].user = NoUser => procs[p].id < changes'
    BY <1>1 DEF IInv, Reading, Gone
  <2>1. procs[p].id \in 0..MaxChanges
    BY DEF IInv, TypeOK, Proc
  <2>2. QED BY <1>0, <1>1, <2>1 DEF IInv, Reading
<1>10. Counted' /\ Used'
  BY <1>1 DEF IInv, Counted, Used
<1>11. QED BY <1>4, <1>6, <1>7, <1>8, <1>9, <1>10 DEF IInv

(* A credential is made for the user of a registration, once.                *)
LEMMA EnrollStep ==
    ASSUME IInv, NEW t \in Tickets, NEW c \in Creds, Enrolls(c, t)
    PROVE  IInv'
<1> DEFINE a == [cred |-> c, ticket |-> t, count |-> 0]
<1>1. /\ UNCHANGED <<accounts, changes, rows, tickets, asserted, procs, used, muddled>>
      /\ attested' = attested \cup {a}
      /\ tickets[t].purpose = "webauthn_reg" /\ devices[c].user = NoUser
      /\ devices' = [devices EXCEPT ![c].user = tickets[t].uid]
  BY DEF Enrolls
<1>2. tickets[t].uid \in Users
  BY <1>1 DEF IInv, Enrolled
<1>3. /\ devices' \in [Creds -> Device] /\ devices'[c].user = tickets[t].uid
      /\ \A d \in Creds : d # c => devices'[d] = devices[d]
  BY <1>1, <1>2 DEF IInv, TypeOK, Device
<1>4. a \in Answer /\ attested' \subseteq Answer
  BY <1>1, PasskeysAssumption DEF Answer, IInv, TypeOK
<1>5. TypeOK'
  BY <1>1, <1>3, <1>4 DEF IInv, TypeOK
<1>6. NoUser \notin Users
  BY PasskeysAssumption
<1>7. \A d \in Creds : devices[d].user \in Users => devices'[d].user = devices[d].user
  BY <1>1, <1>3, <1>6
<1>8. \A x \in attested \cup asserted : x.cred \in Creds /\ x.ticket \in Tickets
  BY DEF IInv, TypeOK, Answer
<1>9. Enrolled'
  <2>1. ASSUME NEW x \in attested'
        PROVE  /\ tickets[x.ticket].purpose \in {"webauthn_reg", "expired"}
               /\ devices'[x.cred].user \in Users /\ tickets[x.ticket].uid = devices'[x.cred].user
    <3>1. CASE x = a
      BY <1>1, <1>2, <1>3, <3>1
    <3>2. CASE x \in attested
      BY <1>7, <1>8, <3>2 DEF IInv, Enrolled
    <3>3. QED BY <1>1, <3>1, <3>2
  <2>2. QED BY <1>1, <2>1 DEF IInv, Enrolled
<1>10. Owned'
  <2> SUFFICES ASSUME NEW d \in Creds, rows[d].user # NoUser
               PROVE  rows[d].user = devices'[d].user /\ rows[d].id <= changes
    BY <1>1 DEF Owned
  <2>1. rows[d].user = devices[d].user /\ rows[d].user \in Users
    BY DEF IInv, Owned, TypeOK, Row, NoRow
  <2>2. QED BY <1>7, <2>1 DEF IInv, Owned
<1>11. Bound'
  <2> SUFFICES ASSUME NEW p \in Procs, Busy(p)
               PROVE  /\ devices'[procs[p].ans.cred].user = procs[p].user
                      /\ \A x \in attested' : x.ticket # procs[p].ans.ticket
    BY <1>1 DEF IInv, Bound, Busy
  <2>1. /\ procs[p].ans \in asserted /\ procs[p].user \in Users
        /\ procs[p].user = devices[procs[p].ans.cred].user
        /\ tickets[procs[p].ans.ticket].purpose # "webauthn_reg"
        /\ \A x \in attested : x.ticket # procs[p].ans.ticket
    BY DEF IInv, Bound, Busy
  <2>2. QED BY <1>1, <1>7, <1>8, <2>1
<1>12. Counted' /\ Reading' /\ Used'
  BY <1>1 DEF IInv, Counted, Reading, Used, Gone
<1>13. QED BY <1>5, <1>9, <1>10, <1>11, <1>12 DEF IInv

(* A signature counts, where the authenticator counts.                       *)
LEMMA AnswerStep ==
    ASSUME IInv, NEW t \in Tickets, NEW c \in Creds, Answers(c, t)
    PROVE  IInv'
<1> DEFINE n == IF c \in Counting THEN devices[c].count + 1 ELSE 0
           a == [cred |-> c, ticket |-> t, count |-> n]
<1>1. /\ UNCHANGED <<accounts, changes, rows, tickets, attested, procs, used, muddled>>
      /\ asserted' = asserted \cup {a} /\ devices' = [devices EXCEPT ![c].count = n]
      /\ devices[c].count < MaxCount
  BY DEF Answers
<1>2. devices[c] \in Device /\ MaxCount \in Nat /\ devices[c].count \in 0..MaxCount
  BY PasskeysAssumption DEF IInv, TypeOK, Device
<1>3. n \in 0..MaxCount /\ (c \in Counting => n > 0)
  BY <1>1, <1>2
<1> HIDE DEF n
<1>4. /\ devices' \in [Creds -> Device] /\ \A d \in Creds : devices'[d].user = devices[d].user
      /\ asserted' \subseteq Answer
  BY <1>1, <1>3 DEF IInv, TypeOK, Device, Answer
<1>5. TypeOK'
  BY <1>1, <1>4 DEF IInv, TypeOK
<1>6. \A x \in attested \cup asserted : x.cred \in Creds
  BY DEF IInv, TypeOK, Answer
<1>7. Enrolled'
  BY <1>1, <1>4, <1>6 DEF IInv, Enrolled
<1>8. Owned'
  BY <1>1, <1>4 DEF IInv, Owned
<1>9. Counted'
  BY <1>1, <1>3 DEF IInv, Counted
<1>10. Bound'
  <2> SUFFICES ASSUME NEW p \in Procs, Busy(p)
               PROVE  procs[p].ans \in asserted' /\ devices'[procs[p].ans.cred].user = procs[p].user
    BY <1>1 DEF IInv, Bound, Busy
  <2>1. procs[p].ans \in asserted /\ devices[procs[p].ans.cred].user = procs[p].user
    BY DEF IInv, Bound, Busy
  <2>2. QED BY <1>1, <1>4, <1>6, <2>1
<1>11. Reading' /\ Used'
  BY <1>1 DEF IInv, Reading, Used, Gone
<1>12. QED BY <1>5, <1>7, <1>8, <1>9, <1>10, <1>11 DEF IInv

(* A row is made for the owner of its credential, with an id of its own.     *)
LEMMA RegisterStep ==
    ASSUME IInv, NEW u \in Users, NEW a \in attested, VerifyRegistration(u, a)
    PROVE  IInv'
<1> DEFINE row == [id |-> changes, user |-> u, count |-> a.count]
<1>1. /\ UNCHANGED <<accounts, changes, devices, tickets, attested, asserted, procs>>
      /\ rows' = [rows EXCEPT ![a.cred] = row] /\ rows[a.cred].user = NoUser
      /\ used' = {x \in used : x.cred # a.cred} /\ muddled' = muddled \ {a.cred}
      /\ tickets[a.ticket].uid = u
  BY DEF VerifyRegistration
<1>2. a.cred \in Creds /\ a.count \in 0..MaxCount /\ changes \in 0..MaxChanges
  BY DEF IInv, TypeOK, Answer
<1>3. devices[a.cred].user = u
  BY <1>1 DEF IInv, Enrolled
<1>4. row \in Row /\ row.user = u /\ row.id = changes /\ u # NoUser
  BY <1>2, PasskeysAssumption DEF Row
<1> HIDE DEF row
<1>5. /\ rows' \in [Creds -> Row] /\ rows'[a.cred] = row
      /\ \A d \in Creds : d # a.cred => rows'[d] = rows[d]
  BY <1>1, <1>2, <1>4 DEF IInv, TypeOK
<1>6. TypeOK'
  BY <1>1, <1>5 DEF IInv, TypeOK
<1>7. Owned'
  <2> SUFFICES ASSUME NEW d \in Creds, rows'[d].user # NoUser
               PROVE  rows'[d].user = devices[d].user /\ rows'[d].id <= changes
    BY <1>1 DEF Owned
  <2>1. CASE d = a.cred
    BY <1>2, <1>3, <1>4, <1>5, <2>1
  <2>2. CASE d # a.cred
    BY <1>5, <2>2 DEF IInv, Owned
  <2>3. QED BY <2>1, <2>2
<1>8. Reading'
  <2> SUFFICES ASSUME NEW p \in Procs, procs[p].pc = "counter"
               PROVE  LET r == procs[p] IN
                      /\ r.id <= changes
                      /\ rows'[r.ans.cred].user = NoUser => r.id < changes
                      /\ (/\ rows'[r.ans.cred].user # NoUser /\ rows'[r.ans.cred].id = r.id
                          /\ ~r.raced /\ r.ans.cred \in Counting) => r.ans.count > rows'[r.ans.cred].count
    BY <1>1 DEF Reading, Gone
  <2>1. /\ procs[p].id <= changes /\ procs[p].id \in 0..MaxChanges /\ procs[p].ans.cred \in Creds
        /\ rows[procs[p].ans.cred].user = NoUser => procs[p].id < changes
    BY DEF IInv, Reading, Bound, Busy, TypeOK, Proc, Answer
  <2>2. CASE procs[p].ans.cred = a.cred
    BY <1>1, <1>2, <1>4, <1>5, <2>1, <2>2
  <2>3. CASE procs[p].ans.cred # a.cred
    BY <1>5, <2>1, <2>3 DEF IInv, Reading, Gone
  <2>4. QED BY <2>2, <2>3
<1>9. Used'
  <2> SUFFICES ASSUME NEW x \in used, x.cred # a.cred, x.cred \in Counting \ muddled,
                      rows'[x.cred].user # NoUser
               PROVE  x.count <= rows'[x.cred].count
    BY <1>1 DEF Used
  <2>1. x.cred \in Creds
    BY DEF IInv, TypeOK, Answer
  <2>2. QED BY <1>5, <2>1 DEF IInv, Used
<1>10. Enrolled' /\ Counted' /\ Bound'
  BY <1>1 DEF IInv, Enrolled, Counted, Bound, Busy
<1>11. QED BY <1>6, <1>7, <1>8, <1>9, <1>10 DEF IInv

(* A row is removed, and its id with it.                                     *)
LEMMA RemoveStep ==
    ASSUME IInv, NEW u \in Users, NEW c \in Creds, Remove(u, c)
    PROVE  IInv'
<1>0. changes \in 0..MaxChanges /\ MaxChanges \in Nat
  BY PasskeysAssumption DEF IInv, TypeOK
<1>1. /\ UNCHANGED <<accounts, devices, tickets, attested, asserted, procs, used, muddled>>
      /\ rows' = [rows EXCEPT ![c] = NoRow] /\ changes' = changes + 1 /\ changes < MaxChanges
  BY DEF Remove, Removed
<1>2. /\ rows' \in [Creds -> Row] /\ rows'[c] = NoRow /\ NoRow.user = NoUser
      /\ \A d \in Creds : d # c => rows'[d] = rows[d]
  BY <1>1 DEF IInv, TypeOK, Row, NoRow
<1>3. TypeOK'
  BY <1>0, <1>1, <1>2 DEF IInv, TypeOK
<1>4. Owned'
  <2> SUFFICES ASSUME NEW d \in Creds, rows'[d].user # NoUser
               PROVE  rows'[d].user = devices[d].user /\ rows'[d].id <= changes'
    BY <1>1 DEF Owned
  <2>1. rows'[d] = rows[d] /\ rows[d].id \in 0..MaxChanges
    BY <1>0, <1>2 DEF IInv, TypeOK, Row, NoRow
  <2>2. rows[d].user = devices[d].user /\ rows[d].id <= changes
    BY <2>1 DEF IInv, Owned
  <2>3. QED BY <1>0, <1>1, <2>1, <2>2
<1>5. Reading'
  <2> SUFFICES ASSUME NEW p \in Procs, procs[p].pc = "counter"
               PROVE  LET r == procs[p] IN
                      /\ r.id <= changes' /\ r.id < changes'
                      /\ (/\ rows'[r.ans.cred].user # NoUser /\ rows'[r.ans.cred].id = r.id
                          /\ ~r.raced /\ r.ans.cred \in Counting) => r.ans.count > rows'[r.ans.cred].count
    BY <1>1 DEF Reading, Gone
  <2>1. /\ procs[p].id <= changes /\ procs[p].id \in 0..MaxChanges /\ procs[p].ans.cred \in Creds
    BY DEF IInv, Reading, Bound, Busy, TypeOK, Proc, Answer
  <2>2. procs[p].id < changes' /\ procs[p].id <= changes'
    BY <1>0, <1>1, <2>1
  <2>3. CASE procs[p].ans.cred = c
    BY <1>2, <2>2, <2>3
  <2>4. CASE procs[p].ans.cred # c
    BY <1>2, <2>1, <2>2, <2>4 DEF IInv, Reading, Gone
  <2>5. QED BY <2>3, <2>4
<1>6. Used'
  <2> SUFFICES ASSUME NEW x \in used, x.cred \in Counting \ muddled, rows'[x.cred].user # NoUser
               PROVE  x.count <= rows'[x.cred].count
    BY <1>1 DEF Used
  <2>1. x.cred \in Creds
    BY DEF IInv, TypeOK, Answer
  <2>2. rows'[x.cred] = rows[x.cred]
    BY <1>2, <2>1
  <2>3. QED BY <2>2 DEF IInv, Used
<1>7. Enrolled' /\ Counted' /\ Bound'
  BY <1>1 DEF IInv, Enrolled, Counted, Bound, Busy
<1>8. QED BY <1>3, <1>4, <1>5, <1>6, <1>7 DEF IInv

(* A sign-in reads a row whose counter its answer is ahead of.               *)
LEMMA VerifyStep ==
    ASSUME IInv, NEW p \in Procs, NEW a \in asserted, VerifyLogin(p, a)
    PROVE  IInv'
<1> DEFINE r == [pc |-> "counter", ans |-> a, user |-> rows[a.cred].user,
                 id |-> rows[a.cred].id, raced |-> FALSE, active |-> FALSE]
<1>1. /\ UNCHANGED <<accounts, changes, rows, devices, tickets, attested, asserted, used, muddled>>
      /\ procs' = [procs EXCEPT ![p] = r]
      /\ tickets[a.ticket].purpose = "webauthn_auth" /\ tickets[a.ticket].uid # Decoy
      /\ rows[a.cred].user = tickets[a.ticket].uid
      /\ CounterAdvances(a.count, rows[a.cred].count)
  BY DEF VerifyLogin, ReadChallengeToken, Stored
<1>2. a \in Answer /\ a.cred \in Creds /\ a.ticket \in Tickets /\ a.count \in Nat /\ rows[a.cred] \in Row
  BY PasskeysAssumption DEF IInv, TypeOK, Answer
<1>3. rows[a.cred].user \in Users /\ rows[a.cred].user # NoUser
  BY <1>1, <1>2, PasskeysAssumption DEF IInv, Enrolled
<1>4. /\ rows[a.cred].id \in 0..MaxChanges /\ rows[a.cred].id <= changes
      /\ rows[a.cred].user = devices[a.cred].user /\ rows[a.cred].count \in Nat
  BY <1>2, <1>3, PasskeysAssumption DEF Row, NoRow, IInv, Owned
<1>5. a.cred \in Counting => a.count > rows[a.cred].count
  BY <1>1, <1>2, <1>4 DEF CounterAdvances, IInv, Counted
<1>6. r \in Proc
  BY <1>2, <1>3, <1>4 DEF Proc
<1>7. /\ r.pc = "counter" /\ r.ans = a /\ r.user = rows[a.cred].user /\ r.id = rows[a.cred].id
  OBVIOUS
<1> HIDE DEF r
<1>8. /\ procs' \in [Procs -> Proc] /\ procs'[p] = r
      /\ \A q \in Procs : q # p => procs'[q] = procs[q]
  BY <1>1, <1>6 DEF IInv, TypeOK
<1>9. TypeOK'
  BY <1>1, <1>8 DEF IInv, TypeOK
<1>10. Bound'
  <2> SUFFICES ASSUME NEW q \in Procs, Busy(q)'
               PROVE  LET x == procs'[q].ans IN
                      /\ x \in asserted /\ procs'[q].user \in Users
                      /\ procs'[q].user = devices[x.cred].user /\ procs'[q].user = tickets[x.ticket].uid
                      /\ tickets[x.ticket].purpose \in {"webauthn_auth", "expired"}
                      /\ \A y \in attested : y.ticket # x.ticket
    BY <1>1 DEF Bound, Busy
  <2>1. \A y \in attested : y.ticket # a.ticket
    BY <1>1 DEF IInv, Enrolled
  <2>2. CASE q = p
    BY <1>1, <1>3, <1>4, <1>7, <1>8, <2>1, <2>2
  <2>3. CASE q # p
    BY <1>8, <2>3 DEF IInv, Bound, Busy
  <2>4. QED BY <2>2, <2>3
<1>11. Reading'
  <2> SUFFICES ASSUME NEW q \in Procs, procs'[q].pc = "counter"
               PROVE  LET x == procs'[q] IN
                      /\ x.id <= changes
                      /\ rows[x.ans.cred].user = NoUser => x.id < changes
                      /\ (~Gone(x) /\ ~x.raced /\ x.ans.cred \in Counting) => x.ans.count > rows[x.ans.cred].count
    BY <1>1 DEF Reading, Gone
  <2>1. CASE q = p
    BY <1>3, <1>4, <1>5, <1>7, <1>8, <2>1
  <2>2. CASE q # p
    BY <1>8, <2>2 DEF IInv, Reading
  <2>3. QED BY <2>1, <2>2
<1>12. Enrolled' /\ Owned' /\ Counted' /\ Used'
  BY <1>1 DEF IInv, Enrolled, Owned, Counted, Used
<1>13. QED BY <1>9, <1>10, <1>11, <1>12 DEF IInv

(* A counter is written over the one that was read, or the row is gone.      *)
LEMMA WriteStep ==
    ASSUME IInv, NEW p \in Procs, WriteCounter(p)
    PROVE  IInv'
<1> DEFINE r == procs[p]
           c == r.ans.cred
<1>1. r.pc = "counter" /\ UNCHANGED <<accounts, changes, devices, tickets, attested, asserted>>
  BY DEF WriteCounter
<1>2. /\ r \in Proc /\ r.ans \in asserted /\ r.ans \in Answer /\ c \in Creds
      /\ r.ans.count \in 0..MaxCount /\ r.ans.count \in Nat
  BY <1>1, PasskeysAssumption DEF IInv, TypeOK, Bound, Busy, Proc, Answer
<1>3. \A q \in Procs : procs[q] \in Proc
  BY DEF IInv, TypeOK
<1>4. Idle \in Proc /\ Idle.pc = "idle"
  BY PasskeysAssumption DEF Idle, Proc
<1>5. CASE Gone(r)
  <2>1. procs' = [procs EXCEPT ![p] = Idle] /\ UNCHANGED <<rows, used, muddled>>
    BY <1>5 DEF WriteCounter
  <2>2. procs' \in [Procs -> Proc] /\ \A q \in Procs : procs'[q] = procs[q] \/ procs'[q] = Idle
    BY <1>4, <2>1 DEF IInv, TypeOK
  <2>3. TypeOK'
    BY <1>1, <2>1, <2>2 DEF IInv, TypeOK
  <2>4. Bound' /\ Reading'
    BY <1>1, <1>4, <2>1, <2>2 DEF IInv, Bound, Busy, Reading, Gone
  <2>5. Enrolled' /\ Owned' /\ Counted' /\ Used'
    BY <1>1, <2>1 DEF IInv, Enrolled, Owned, Counted, Used
  <2>6. QED BY <2>3, <2>4, <2>5 DEF IInv
<1>6. CASE ~Gone(r)
  <2> DEFINE next == [r EXCEPT !.pc = "login", !.active = r.user \in accounts]
  <2>1. /\ rows' = [rows EXCEPT ![c].count = r.ans.count]
        /\ procs' = [Overtake(c) EXCEPT ![p] = next]
        /\ used' = used \cup {r.ans}
        /\ muddled' = IF r.raced THEN muddled \cup {c} ELSE muddled
    BY <1>6 DEF WriteCounter, Gone
  <2>2. /\ rows[c].user # NoUser /\ rows[c].id = r.id /\ rows[c] \in Row
        /\ rows[c] \in [id: 0..MaxChanges, user: Users, count: 0..MaxCount] /\ rows[c].count \in Nat
    BY <1>2, <1>6, PasskeysAssumption DEF Gone, IInv, TypeOK, Row, NoRow
  <2>3. /\ rows'[c] \in Row /\ rows'[c].user = rows[c].user /\ rows'[c].id = rows[c].id
        /\ rows'[c].count = r.ans.count
        /\ \A d \in Creds : d # c => rows'[d] = rows[d]
    BY <1>2, <2>1, <2>2 DEF IInv, TypeOK, Row
  <2>4. rows' \in [Creds -> Row]
    BY <1>2, <2>1, <2>3 DEF IInv, TypeOK
  <2>5. \A d \in Creds : rows'[d].user = rows[d].user /\ rows'[d].id = rows[d].id
    BY <2>3
  <2>6. next \in Proc /\ next.pc = "login" /\ next.ans = r.ans /\ next.user = r.user
    <3>1. (r.user \in accounts) \in BOOLEAN
      OBVIOUS
    <3>2. \A b \in BOOLEAN : LET x == [r EXCEPT !.pc = "login", !.active = b] IN
             x \in Proc /\ x.pc = "login" /\ x.ans = r.ans /\ x.user = r.user
      BY <1>2 DEF Proc
    <3>3. QED BY <3>1, <3>2
  <2>7. ASSUME NEW q \in Procs, q # p
        PROVE  /\ procs'[q] \in Proc /\ procs'[q].pc = procs[q].pc /\ procs'[q].ans = procs[q].ans
               /\ procs'[q].user = procs[q].user /\ procs'[q].id = procs[q].id
               /\ ~procs'[q].raced => ~procs[q].raced /\ ~(procs[q].pc = "counter" /\ procs[q].ans.cred = c)
    <3>1. procs'[q] = IF procs[q].pc = "counter" /\ procs[q].ans.cred = c
                      THEN [procs[q] EXCEPT !.raced = TRUE] ELSE procs[q]
      BY <2>1, <2>7 DEF Overtake
    <3>2. QED BY <1>3, <3>1 DEF Proc
  <2>8. procs'[p] = next
    BY <2>1 DEF Overtake
  <2>9. procs' \in [Procs -> Proc]
    <3>1. \A q \in Procs : procs'[q] \in Proc
      BY <2>6, <2>7, <2>8
    <3>2. DOMAIN procs' = Procs /\ procs' = [q \in Procs |-> procs'[q]]
      BY <2>1 DEF Overtake
    <3>3. QED BY <3>1, <3>2
  <2> HIDE DEF next
  <2>10. TypeOK'
    BY <1>1, <1>2, <2>1, <2>4, <2>9 DEF IInv, TypeOK
  <2>11. Owned'
    BY <1>1, <2>5 DEF IInv, Owned
  <2>12. Bound'
    <3> SUFFICES ASSUME NEW q \in Procs, Busy(q)'
                 PROVE  procs'[q].ans = procs[q].ans /\ procs'[q].user = procs[q].user /\ Busy(q)
      BY <1>1, SMTT(30) DEF IInv, Bound, Busy
    <3>1. CASE q = p
      BY <1>1, <2>6, <2>8, <3>1 DEF Busy
    <3>2. CASE q # p
      BY <2>7, <3>2 DEF Busy
    <3>3. QED BY <3>1, <3>2
  <2>13. Reading'
    <3> SUFFICES ASSUME NEW q \in Procs, procs'[q].pc = "counter"
                 PROVE  LET x == procs'[q] IN
                        /\ x.id <= changes
                        /\ rows'[x.ans.cred].user = NoUser => x.id < changes
                        /\ (/\ rows'[x.ans.cred].user # NoUser /\ rows'[x.ans.cred].id = x.id
                            /\ ~x.raced /\ x.ans.cred \in Counting) => x.ans.count > rows'[x.ans.cred].count
      BY <1>1 DEF Reading, Gone
    <3>1. q # p
      BY <2>6, <2>8
    <3>2. procs[q].pc = "counter" /\ procs[q].ans.cred \in Creds
      BY <1>3, <2>7, <3>1 DEF IInv, Bound, Busy, TypeOK, Answer
    <3>3. LET x == procs[q] IN
          /\ x.id <= changes
          /\ rows[x.ans.cred].user = NoUser => x.id < changes
          /\ (/\ rows[x.ans.cred].user # NoUser /\ rows[x.ans.cred].id = x.id
              /\ ~x.raced /\ x.ans.cred \in Counting) => x.ans.count > rows[x.ans.cred].count
      BY <3>2 DEF IInv, Reading, Gone
    <3>4. QED BY <2>3, <2>7, <3>1, <3>2, <3>3
  <2>14. Used'
    <3> SUFFICES ASSUME NEW x \in used', x.cred \in Counting \ muddled', rows'[x.cred].user # NoUser
                 PROVE  x.count <= rows'[x.cred].count
      BY DEF Used
    <3>1. CASE x = r.ans
      BY <1>2, <2>3, <3>1
    <3>2. CASE x \in used
      <4>1. x.cred \in Creds /\ x.count \in Nat /\ x.cred \in Counting \ muddled /\ rows[x.cred].user # NoUser
        BY <2>1, <2>5, <3>2, PasskeysAssumption DEF IInv, TypeOK, Answer
      <4>2. x.count <= rows[x.cred].count
        BY <3>2, <4>1 DEF IInv, Used
      <4>3. CASE x.cred # c
        BY <2>3, <4>1, <4>2, <4>3
      <4>4. CASE x.cred = c
        <5>1. ~r.raced
          BY <2>1, <4>4
        <5>2. r.ans.count > rows[c].count
          BY <1>1, <1>6, <4>1, <4>4, <5>1 DEF IInv, Reading
        <5>3. QED BY <1>2, <2>2, <2>3, <4>1, <4>2, <4>4, <5>2
      <4>5. QED BY <4>3, <4>4
    <3>3. QED BY <2>1, <3>1, <3>2
  <2>15. Enrolled' /\ Counted'
    BY <1>1 DEF IInv, Enrolled, Counted
  <2>16. QED BY <2>10, <2>11, <2>12, <2>13, <2>14, <2>15 DEF IInv
<1>7. QED BY <1>5, <1>6

(* The remaining steps end a request or change an account.                   *)
LEMMA OtherStep ==
    ASSUME IInv, \/ \E p \in Procs : ReadUser(p) \/ RefuseLogin(p) \/ IssueTokens(p)
                 \/ \E u \in Users : Deactivate(u) \/ Restore(u)
                 \/ UNCHANGED vars
    PROVE  IInv'
<1>0. changes \in 0..MaxChanges /\ MaxChanges \in Nat /\ accounts \subseteq Users /\ procs \in [Procs -> Proc]
  BY PasskeysAssumption DEF IInv, TypeOK
<1>1. /\ Idle \in Proc /\ Idle.pc = "idle"
      /\ [Idle EXCEPT !.pc = "session"] \in Proc /\ [Idle EXCEPT !.pc = "session"].pc = "session"
  <2>1. Idle \in Proc /\ Idle.pc = "idle"
    BY PasskeysAssumption DEF Idle, Proc
  <2>2. \A x \in Proc : [x EXCEPT !.pc = "session"] \in Proc /\ [x EXCEPT !.pc = "session"].pc = "session"
    BY DEF Proc
  <2>3. QED BY <2>1, <2>2
<1> DEFINE Later(q) == \/ procs'[q] = procs[q]
                       \/ procs'[q].pc \in {"idle", "session"}
                       \/ /\ procs[q].pc = "login" /\ procs'[q].pc \in {"login", "issue"}
                          /\ procs'[q].ans = procs[q].ans /\ procs'[q].user = procs[q].user
<1>2. /\ UNCHANGED <<rows, devices, tickets, attested, asserted, used, muddled>>
      /\ changes' \in 0..MaxChanges /\ changes <= changes' /\ accounts' \subseteq Users
      /\ procs' \in [Procs -> Proc] /\ \A q \in Procs : Later(q)
  <2>1. ASSUME NEW p \in Procs, ReadUser(p) \/ RefuseLogin(p) \/ IssueTokens(p)
        PROVE  /\ UNCHANGED <<accounts, changes, rows, devices, tickets, attested, asserted, used, muddled>>
               /\ procs' \in [Procs -> Proc] /\ \A q \in Procs : Later(q)
    <3>1. UNCHANGED <<accounts, changes, rows, devices, tickets, attested, asserted, used, muddled>>
      BY <2>1 DEF ReadUser, RefuseLogin, IssueTokens
    <3>2. PICK x \in Proc : /\ procs' = [procs EXCEPT ![p] = x]
                            /\ \/ x.pc \in {"idle", "session"}
                               \/ /\ procs[p].pc = "login" /\ x.pc = "issue"
                                  /\ x.ans = procs[p].ans /\ x.user = procs[p].user
      <4>1. CASE ReadUser(p)
        <5>1. procs[p].pc = "login" /\ procs[p] \in Proc
          BY <1>0, <4>1 DEF ReadUser
        <5>2. LET x == [procs[p] EXCEPT !.pc = "issue"] IN
              x \in Proc /\ x.pc = "issue" /\ x.ans = procs[p].ans /\ x.user = procs[p].user
          BY <5>1 DEF Proc
        <5>3. \/ procs' = [procs EXCEPT ![p] = [procs[p] EXCEPT !.pc = "issue"]]
              \/ procs' = [procs EXCEPT ![p] = Idle]
          BY <4>1 DEF ReadUser
        <5>4. QED BY <1>1, <5>1, <5>2, <5>3
      <4>2. CASE RefuseLogin(p)
        BY <1>1, <4>2 DEF RefuseLogin
      <4>3. CASE IssueTokens(p)
        BY <1>1, <4>3 DEF IssueTokens
      <4>4. QED BY <2>1, <4>1, <4>2, <4>3
    <3>3. procs' \in [Procs -> Proc] /\ procs'[p] = x /\ \A q \in Procs : q # p => procs'[q] = procs[q]
      BY <1>0, <3>2
    <3>4. \A q \in Procs : Later(q)
      BY <3>2, <3>3
    <3>5. QED BY <3>1, <3>3, <3>4
  <2>2. ASSUME NEW u \in Users, Deactivate(u)
        PROVE  /\ UNCHANGED <<rows, devices, tickets, attested, asserted, procs, used, muddled>>
               /\ changes' = changes + 1 /\ changes < MaxChanges /\ accounts' \subseteq Users
    BY <1>0, <2>2 DEF Deactivate
  <2>3. ASSUME NEW u \in Users, Restore(u)
        PROVE  /\ UNCHANGED <<changes, rows, devices, tickets, attested, asserted, used, muddled>>
               /\ accounts' \subseteq Users /\ procs' \in [Procs -> Proc] /\ \A q \in Procs : Later(q)
    <3>1. /\ UNCHANGED <<changes, rows, devices, tickets, attested, asserted, used, muddled>>
          /\ accounts' \subseteq Users
      BY <1>0, <2>3 DEF Restore
    <3>2. procs' = [q \in Procs |-> IF procs[q].pc = "login" /\ procs[q].user = u
                                   THEN [procs[q] EXCEPT !.active = TRUE] ELSE procs[q]]
      BY <2>3 DEF Restore
    <3>3. ASSUME NEW q \in Procs PROVE procs'[q] \in Proc /\ Later(q)
      <4>1. procs[q] \in Proc
        BY <1>0
      <4>2. LET x == [procs[q] EXCEPT !.active = TRUE] IN
            x \in Proc /\ x.pc = procs[q].pc /\ x.ans = procs[q].ans /\ x.user = procs[q].user
        BY <4>1 DEF Proc
      <4>3. QED BY <3>2, <4>1, <4>2
    <3>4. QED BY <3>1, <3>2, <3>3
  <2>4. CASE \E p \in Procs : ReadUser(p) \/ RefuseLogin(p) \/ IssueTokens(p)
    BY <1>0, <2>1, <2>4
  <2>5. CASE \E u \in Users : Deactivate(u) \/ Restore(u)
    <3>1. CASE \E u \in Users : Deactivate(u)
      BY <1>0, <2>2, <3>1
    <3>2. CASE \E u \in Users : Restore(u)
      BY <1>0, <2>3, <3>2
    <3>3. QED BY <2>5, <3>1, <3>2
  <2>6. CASE UNCHANGED vars
    BY <1>0, <2>6 DEF vars
  <2>7. QED BY <2>4, <2>5, <2>6
<1>3. TypeOK'
  BY <1>2 DEF IInv, TypeOK
<1>4. Owned'
  <2> SUFFICES ASSUME NEW c \in Creds, rows[c].user # NoUser
               PROVE  rows[c].user = devices[c].user /\ rows[c].id <= changes'
    BY <1>2 DEF Owned
  <2>1. rows[c].user = devices[c].user /\ rows[c].id <= changes /\ rows[c].id \in Nat
    BY <1>0 DEF IInv, Owned, TypeOK, Row, NoRow
  <2>2. QED BY <1>0, <1>2, <2>1
<1>5. Reading'
  <2> SUFFICES ASSUME NEW p \in Procs, procs'[p].pc = "counter"
               PROVE  /\ procs'[p] = procs[p]
                      /\ procs[p].id <= changes'
                      /\ rows[procs[p].ans.cred].user = NoUser => procs[p].id < changes'
    BY <1>2 DEF IInv, Reading, Gone
  <2>1. procs'[p] = procs[p] /\ procs[p].id \in 0..MaxChanges /\ procs[p].pc = "counter"
    BY <1>0, <1>2 DEF Proc
  <2>2. QED BY <1>0, <1>2, <2>1 DEF IInv, Reading
<1>6. Bound'
  <2> SUFFICES ASSUME NEW q \in Procs, Busy(q)'
               PROVE  Busy(q) /\ procs'[q].ans = procs[q].ans /\ procs'[q].user = procs[q].user
    BY <1>2, SMTT(30) DEF IInv, Bound, Busy
  <2>1. QED BY <1>2 DEF Busy
<1>7. Enrolled' /\ Counted' /\ Used'
  BY <1>2 DEF IInv, Enrolled, Counted, Used
<1>8. QED BY <1>3, <1>4, <1>5, <1>6, <1>7 DEF IInv

-----------------------------------------------------------------------------
(* The theorems.                                                             *)

(* Every step keeps the invariant.                                           *)
LEMMA Inductive == IInv /\ [Next]_vars => IInv'
<1> SUFFICES ASSUME IInv, [Next]_vars PROVE IInv'
  OBVIOUS
<1>1. ASSUME NEW t \in Tickets,
             \/ \E u \in Users : RegistrationOptions(t, u) \/ LoginOptions(t, u)
             \/ TicketExpires(t)
             \/ \E c \in Creds : Enrolls(c, t) \/ Answers(c, t)
      PROVE  IInv'
  BY <1>1, TicketStep, EnrollStep, AnswerStep
<1>2. ASSUME NEW u \in Users,
             \/ \E a \in attested : VerifyRegistration(u, a)
             \/ \E c \in Creds : Remove(u, c)
             \/ Deactivate(u) \/ Restore(u)
      PROVE  IInv'
  BY <1>2, RegisterStep, RemoveStep, OtherStep
<1>3. ASSUME NEW p \in Procs,
             \/ \E a \in asserted : VerifyLogin(p, a)
             \/ WriteCounter(p) \/ ReadUser(p) \/ RefuseLogin(p) \/ IssueTokens(p)
      PROVE  IInv'
  BY <1>3, VerifyStep, WriteStep, OtherStep
<1>4. QED BY <1>1, <1>2, <1>3, OtherStep DEF Next

(* The invariant that follows answers, rows and sign-ins holds in every      *)
(* state (passkeys.service.ts).                                              *)
THEOREM PasskeysInvariant == Spec => []IInv
  BY Initially, Inductive, PTL DEF Spec

(* Every state is well typed.                                                *)
THEOREM TypeCorrect == Spec => []TypeOK
<1>1. IInv => TypeOK
  BY DEF IInv
<1>2. QED BY <1>1, PasskeysInvariant, PTL

(* A sign-in that has read its user was active since its answer was          *)
(* accepted: only ReadUser goes on to issue, and only Restore reactivates.   *)
LEMMA ActiveStep == TypeOK /\ Active /\ [Next]_vars => Active'
<1> SUFFICES ASSUME TypeOK, Active, [Next]_vars, NEW p \in Procs
             PROVE  /\ procs'[p].pc = "issue" => procs'[p].active
                    /\ (procs'[p].pc = "login" /\ procs'[p].user \in accounts') => procs'[p].active
  BY DEF Active
<1>0. procs \in [Procs -> Proc] /\ procs[p] \in Proc
  BY DEF TypeOK
<1> DEFINE Goal == /\ procs'[p].pc = "issue" => procs'[p].active
                   /\ (procs'[p].pc = "login" /\ procs'[p].user \in accounts') => procs'[p].active
<1>1. ASSUME procs'[p] = procs[p], accounts' \subseteq accounts PROVE Goal
  BY <1>1 DEF Active
<1>2. ASSUME NEW q \in Procs, NEW a \in asserted, VerifyLogin(q, a) PROVE Goal
  BY <1>0, <1>1, <1>2 DEF VerifyLogin
<1>3. ASSUME NEW q \in Procs, WriteCounter(q) PROVE Goal
  <2>1. accounts' = accounts
    BY <1>3 DEF WriteCounter
  <2>2. CASE procs' = [procs EXCEPT ![q] = Idle]
    BY <1>0, <1>1, <2>1, <2>2 DEF Idle
  <2>3. CASE procs' = [Overtake(procs[q].ans.cred) EXCEPT ![q] = [procs[q] EXCEPT !.pc = "login", !.active = procs[q].user \in accounts]]
    <3>1. CASE p = q
      <4>1. procs'[p] = [procs[p] EXCEPT !.pc = "login", !.active = procs[p].user \in accounts]
        BY <2>3, <3>1 DEF Overtake
      <4>2. procs'[p].pc = "login" /\ procs'[p].user = procs[p].user /\ procs'[p].active = (procs[p].user \in accounts)
        BY <1>0, <4>1 DEF Proc
      <4>3. QED BY <2>1, <4>2
    <3>2. CASE p # q
      <4>1. procs'[p] = procs[p] \/ procs'[p] = [procs[p] EXCEPT !.raced = TRUE]
        BY <2>3, <3>2 DEF Overtake
      <4>2. procs'[p].pc = procs[p].pc /\ procs'[p].user = procs[p].user /\ procs'[p].active = procs[p].active
        BY <1>0, <4>1 DEF Proc
      <4>3. QED BY <2>1, <4>2 DEF Active
    <3>3. QED BY <3>1, <3>2
  <2>4. QED BY <1>3, <2>2, <2>3 DEF WriteCounter
<1>4. ASSUME NEW q \in Procs, ReadUser(q) PROVE Goal
  <2>1. procs[q].pc = "login" /\ accounts' = accounts
    BY <1>4 DEF ReadUser
  <2>2. CASE procs[q].user \notin accounts
    <3>1. procs' = [procs EXCEPT ![q] = Idle]
      BY <1>4, <2>2 DEF ReadUser, MayLogin
    <3>2. QED BY <1>0, <1>1, <2>1, <3>1 DEF Idle
  <2>3. CASE procs[q].user \in accounts
    <3>1. procs' = [procs EXCEPT ![q] = [procs[q] EXCEPT !.pc = "issue"]]
      BY <1>4, <2>3 DEF ReadUser, MayLogin
    <3>2. CASE p = q
      <4>1. procs'[p].pc = "issue" /\ procs'[p].active = procs[p].active
        BY <1>0, <3>1, <3>2 DEF Proc
      <4>2. procs[p].active
        BY <2>1, <2>3, <3>2 DEF Active
      <4>3. QED BY <4>1, <4>2
    <3>3. CASE p # q
      BY <1>0, <1>1, <2>1, <3>1, <3>3
    <3>4. QED BY <3>2, <3>3
  <2>4. QED BY <2>2, <2>3
<1>5. ASSUME NEW q \in Procs, RefuseLogin(q) \/ IssueTokens(q) PROVE Goal
  <2>1. accounts' = accounts
    BY <1>5 DEF RefuseLogin, IssueTokens
  <2>2. procs' = [procs EXCEPT ![q] = Idle] \/ procs' = [procs EXCEPT ![q] = [Idle EXCEPT !.pc = "session"]]
    BY <1>5 DEF RefuseLogin, IssueTokens
  <2>3. CASE p = q
    BY <1>0, <2>2, <2>3 DEF Idle
  <2>4. CASE p # q
    BY <1>0, <1>1, <2>1, <2>2, <2>4
  <2>5. QED BY <2>3, <2>4
<1>6. ASSUME NEW u \in Users, Restore(u) PROVE Goal
  <2>1. /\ accounts' = accounts \cup {u}
        /\ procs'[p] = IF procs[p].pc = "login" /\ procs[p].user = u THEN [procs[p] EXCEPT !.active = TRUE] ELSE procs[p]
    BY <1>6 DEF Restore
  <2>2. CASE procs[p].pc = "login" /\ procs[p].user = u
    <3>1. procs'[p].active = TRUE
      BY <1>0, <2>1, <2>2 DEF Proc
    <3>2. QED BY <3>1
  <2>3. CASE ~(procs[p].pc = "login" /\ procs[p].user = u)
    <3>1. procs'[p] = procs[p]
      BY <2>1, <2>3
    <3>2. QED BY <2>1, <2>3, <3>1 DEF Active
  <2>4. QED BY <2>2, <2>3
<1>7. ASSUME NEW t \in Tickets,
             \/ \E u \in Users : RegistrationOptions(t, u) \/ LoginOptions(t, u)
             \/ TicketExpires(t)
             \/ \E c \in Creds : Enrolls(c, t) \/ Answers(c, t)
      PROVE  Goal
  <2>1. UNCHANGED <<procs, accounts>>
    BY <1>7 DEF RegistrationOptions, LoginOptions, Sign, TicketExpires, Enrolls, Answers
  <2>2. QED BY <1>1, <2>1
<1>8. ASSUME NEW u \in Users,
             \/ \E a \in attested : VerifyRegistration(u, a)
             \/ \E c \in Creds : Remove(u, c)
             \/ Deactivate(u)
      PROVE  Goal
  <2>1. UNCHANGED procs /\ accounts' \subseteq accounts
    BY <1>8 DEF VerifyRegistration, Remove, Deactivate
  <2>2. QED BY <1>1, <2>1
<1>9. CASE UNCHANGED vars
  BY <1>1, <1>9 DEF vars
<1>10. ASSUME NEW q \in Procs,
              \/ \E a \in asserted : VerifyLogin(q, a)
              \/ WriteCounter(q) \/ ReadUser(q) \/ RefuseLogin(q) \/ IssueTokens(q)
       PROVE  Goal
  BY <1>2, <1>3, <1>4, <1>5, <1>10
<1>11. ASSUME NEW u \in Users,
              \/ \E a \in attested : VerifyRegistration(u, a)
              \/ \E c \in Creds : Remove(u, c)
              \/ Deactivate(u) \/ Restore(u)
       PROVE  Goal
  BY <1>6, <1>8, <1>11
<1>12. CASE Next
  BY <1>7, <1>10, <1>11, <1>12 DEF Next
<1>13. QED BY <1>9, <1>12

(* A session goes to the user the sign-in was begun for, who owns the        *)
(* credential and was active at some time since the answer was accepted; no  *)
(* answer of a registration opens one (passkeys.service.ts:226-231,          *)
(* auth.service.ts:75-83).                                                   *)
THEOREM BoundSessions == Spec => SessionsAreBound
<1> DEFINE A == \A p \in Procs : Grants(p) =>
                   LET a == procs[p].ans IN
                   /\ procs[p].user = devices[a.cred].user
                   /\ tickets[a.ticket].uid = procs[p].user
                   /\ procs[p].active
                   /\ \A x \in attested : x.ticket # a.ticket
<1>1. IInv /\ Active => A
  BY DEF IInv, Bound, Busy, Grants, Active
<1>2. Init => Active
  BY DEF Init, Active, Idle
<1>3. IInv => TypeOK
  BY DEF IInv
<1> HIDE DEF A
<1>4. Spec => []Active
  BY <1>2, <1>3, ActiveStep, PasskeysInvariant, PTL DEF Spec
<1>5. Spec => [][A]_vars
  BY <1>1, <1>4, PasskeysInvariant, PTL
<1>6. QED BY <1>5 DEF SessionsAreBound, A

(* An answer is accepted only by the write of its counter, to the row that   *)
(* was read.                                                                 *)
LEMMA AcceptStep ==
    ASSUME IInv, Next, NEW p \in Procs, Accepts(p)
    PROVE  ~Gone(procs[p])
<1>0. procs[p].pc = "counter" /\ procs'[p].pc = "login" /\ procs \in [Procs -> Proc]
  BY DEF Accepts, IInv, TypeOK
<1>1. \E q \in Procs : WriteCounter(q)
  <2>1. ASSUME UNCHANGED procs PROVE FALSE
    BY <1>0, <2>1
  <2>2. ASSUME NEW q \in Procs, NEW a \in asserted, VerifyLogin(q, a) PROVE FALSE
    BY <1>0, <2>2 DEF VerifyLogin
  <2>3. ASSUME NEW q \in Procs, ReadUser(q) \/ RefuseLogin(q) \/ IssueTokens(q) PROVE FALSE
    <3>1. procs' = [procs EXCEPT ![q] = procs'[q]]
      BY <1>0, <2>3 DEF ReadUser, RefuseLogin, IssueTokens
    <3>2. procs'[q].pc # "login"
      BY <1>0, <2>3 DEF ReadUser, RefuseLogin, IssueTokens, Idle, Proc
    <3>3. procs'[p] = procs[p] \/ p = q
      BY <1>0, <3>1
    <3>4. QED BY <1>0, <3>2, <3>3
  <2>4. ASSUME NEW t \in Tickets,
               \/ \E u \in Users : RegistrationOptions(t, u) \/ LoginOptions(t, u)
               \/ TicketExpires(t)
               \/ \E c \in Creds : Enrolls(c, t) \/ Answers(c, t)
        PROVE  UNCHANGED procs
    BY <2>4 DEF RegistrationOptions, LoginOptions, Sign, TicketExpires, Enrolls, Answers
  <2>5. ASSUME NEW u \in Users,
               \/ \E a \in attested : VerifyRegistration(u, a)
               \/ \E c \in Creds : Remove(u, c)
               \/ Deactivate(u)
        PROVE  UNCHANGED procs
    BY <2>5 DEF VerifyRegistration, Remove, Deactivate
  <2>6. ASSUME NEW u \in Users, Restore(u) PROVE FALSE
    <3>1. procs'[p] = procs[p] \/ procs'[p] = [procs[p] EXCEPT !.active = TRUE]
      BY <2>6 DEF Restore
    <3>2. procs'[p].pc = procs[p].pc
      BY <1>0, <3>1 DEF Proc
    <3>3. QED BY <1>0, <3>2
  <2>7. QED BY <2>1, <2>2, <2>3, <2>4, <2>5, <2>6 DEF Next
<1>2. PICK q \in Procs : WriteCounter(q)
  BY <1>1
<1>3. CASE Gone(procs[q])
  <2>1. procs' = [procs EXCEPT ![q] = Idle]
    BY <1>2, <1>3 DEF WriteCounter
  <2>2. procs'[p].pc # "login"
    BY <1>0, <2>1 DEF Idle
  <2>3. QED BY <1>0, <2>2
<1>4. CASE ~Gone(procs[q]) /\ q # p
  <2>1. procs' = [Overtake(procs[q].ans.cred) EXCEPT ![q] = procs'[q]]
    BY <1>2, <1>4 DEF WriteCounter
  <2>2. procs'[p] = procs[p] \/ procs'[p] = [procs[p] EXCEPT !.raced = TRUE]
    BY <1>4, <2>1 DEF Overtake
  <2>3. procs'[p].pc = procs[p].pc
    BY <1>0, <2>2 DEF Proc
  <2>4. QED BY <1>0, <2>3
<1>5. QED BY <1>3, <1>4

(* A removed passkey admits nobody, also when it is registered again at once *)
(* (passkeys.service.ts:261-265).                                            *)
THEOREM RemovalHolds == Spec => RemovedPasskeysAdmitNobody
<1> DEFINE A == \A p \in Procs :
                   Accepts(p) => /\ rows[procs[p].ans.cred].user = procs[p].user
                                 /\ rows[procs[p].ans.cred].id = procs[p].id
<1>1. IInv /\ [Next]_vars => [A]_vars
  <2> SUFFICES ASSUME IInv, Next, NEW p \in Procs, Accepts(p)
               PROVE  /\ rows[procs[p].ans.cred].user = procs[p].user
                      /\ rows[procs[p].ans.cred].id = procs[p].id
    OBVIOUS
  <2>1. ~Gone(procs[p]) /\ procs[p].pc = "counter"
    BY AcceptStep DEF Accepts
  <2>2. procs[p].ans.cred \in Creds /\ procs[p].user = devices[procs[p].ans.cred].user
    BY <2>1 DEF IInv, Bound, Busy, TypeOK, Answer
  <2>3. QED BY <2>1, <2>2 DEF Gone, IInv, Owned
<1> HIDE DEF A
<1>2. Spec => [][A]_vars
  BY <1>1, PasskeysInvariant, PTL DEF Spec
<1>3. QED BY <1>2 DEF RemovedPasskeysAdmitNobody, A

(* An answer of an authenticator that counts is accepted once per            *)
(* registration, unless sign-ins with the credential overlapped              *)
(* (passkeys.service.ts:250, 261).                                           *)
THEOREM RepeatedAnswersFail == Spec => ReplaysFail
<1> DEFINE A == \A p \in Procs :
                   LET a == procs[p].ans IN
                   (Accepts(p) /\ a.cred \in Counting \ muddled /\ ~procs[p].raced) => a \notin used
<1>1. IInv /\ [Next]_vars => [A]_vars
  <2> SUFFICES ASSUME IInv, Next, NEW p \in Procs, Accepts(p),
                      procs[p].ans.cred \in Counting \ muddled, ~procs[p].raced, procs[p].ans \in used
               PROVE  FALSE
    OBVIOUS
  <2>1. ~Gone(procs[p])
    BY AcceptStep
  <2>2. /\ procs[p].pc = "counter" /\ procs[p].ans \in asserted /\ procs[p].ans.cred \in Creds
        /\ procs[p].ans.count \in Nat
    BY PasskeysAssumption DEF Accepts, IInv, Bound, Busy, TypeOK, Answer
  <2>3. procs[p].ans.count > rows[procs[p].ans.cred].count
    BY <2>1, <2>2 DEF IInv, Reading
  <2>4. procs[p].ans.count <= rows[procs[p].ans.cred].count
    BY <2>1 DEF IInv, Used, Gone
  <2>5. rows[procs[p].ans.cred].count \in Nat
    BY <2>2, PasskeysAssumption DEF IInv, TypeOK, Row, NoRow
  <2>6. QED BY <2>2, <2>3, <2>4, <2>5
<1> HIDE DEF A
<1>2. Spec => [][A]_vars
  BY <1>1, PasskeysInvariant, PTL DEF Spec
<1>3. QED BY <1>2 DEF ReplaysFail, A

===============================================================================
