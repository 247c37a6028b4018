------------------------------- MODULE Passkeys -------------------------------
(***************************************************************************)
(* Passkey ceremonies (src/platform/src/passkeys/passkeys.service.ts and   *)
(* passkeys.controller.ts): registration, sign-in and removal.             *)
(*                                                                         *)
(* Nothing is stored between the two halves of a ceremony: the challenge   *)
(* travels in a signed ticket that can be presented any number of times    *)
(* until it expires.  Authenticators, the browser and the WebAuthn library *)
(* are external: whatever a device answers may be delivered late, twice,   *)
(* or to another endpoint.                                                 *)
(***************************************************************************)
EXTENDS Integers, FiniteSets

CONSTANTS
    Users,
    Creds,     \* credentials authenticators ever create
    Counting,  \* those whose authenticator counts its signatures
    Tickets,   \* challenge tokens ever signed
    Procs,     \* sign-ins in flight at a time
    Decoy,     \* the user of a ticket for an address without a passkey
    NoUser, NoCred, NoTicket,
    MaxCount,  \* bound: signatures an authenticator counts
    MaxAnswers, \* bound: signatures of all authenticators
    MaxChanges \* bound: removals, changes of an account and tickets that expire

ASSUME PasskeysAssumption ==
    /\ Counting \subseteq Creds
    /\ {Decoy, NoUser} \cap Users = {} /\ Decoy # NoUser
    /\ NoCred \notin Creds /\ NoTicket \notin Tickets
    /\ MaxCount \in Nat /\ MaxAnswers \in Nat /\ MaxChanges \in Nat

VARIABLES
    accounts,  \* the users who are not deactivated
    rows,      \* the PasskeyCredential rows, by credential id
    devices,   \* the authenticators
    tickets,   \* challenge tokens
    attested,  \* registrations the devices answered
    asserted,  \* sign-ins the devices answered
    procs,     \* sign-ins under way
    changes,   \* changes spent
    used,      \* history: answers accepted since the row was made
    muddled    \* history: credentials with a row written over by an overtaken sign-in

vars == <<accounts, rows, devices, tickets, attested, asserted, procs, changes, used, muddled>>

\* The row of a credential: its id, its user and its signCount.
NoRow == [id |-> 0, user |-> NoUser, count |-> 0]
Row == [id: 0..MaxChanges, user: Users, count: 0..MaxCount] \cup {NoRow}

\* An authenticator: whose it is, and what it has counted.
Device == [user: Users \cup {NoUser}, count: 0..MaxCount]

Ticket == [purpose: {"none", "webauthn_reg", "webauthn_auth", "expired"}, uid: Users \cup {Decoy, NoUser}]

\* What a device signed: for which ticket, with which counter.
Answer == [cred: Creds, ticket: Tickets, count: 0..MaxCount]
NoAnswer == [cred |-> NoCred, ticket |-> NoTicket, count |-> 0]

\* id: of the row it read; raced (history): the row was written since;
\* active (history): the account was active at some time since the answer was
\* accepted.  "session": the sign-in is over and answered with a session.
Proc == [pc: {"idle", "counter", "login", "issue", "session"}, ans: Answer \cup {NoAnswer},
         user: Users \cup {NoUser}, id: 0..MaxChanges, raced: BOOLEAN, active: BOOLEAN]
Idle == [pc |-> "idle", ans |-> NoAnswer, user |-> NoUser, id |-> 0, raced |-> FALSE, active |-> FALSE]

TypeOK ==
    /\ accounts \subseteq Users
    /\ rows \in [Creds -> Row]
    /\ devices \in [Creds -> Device]
    /\ tickets \in [Tickets -> Ticket]
    /\ attested \subseteq Answer /\ asserted \subseteq Answer
    /\ procs \in [Procs -> Proc]
    /\ changes \in 0..MaxChanges
    /\ used \subseteq Answer /\ muddled \subseteq Creds

Init ==
    /\ accounts = Users
    /\ rows = [c \in Creds |-> NoRow]
    /\ devices = [c \in Creds |-> [user |-> NoUser, count |-> 0]]
    /\ tickets = [t \in Tickets |-> [purpose |-> "none", uid |-> NoUser]]
    /\ attested = {} /\ asserted = {}
    /\ procs = [p \in Procs |-> Idle]
    /\ changes = 0
    /\ used = {} /\ muddled = {}

-----------------------------------------------------------------------------
(* Tickets.                                                                 *)

Sign(t, purpose, uid) ==
    /\ tickets[t].purpose = "none"
    /\ tickets' = [tickets EXCEPT ![t] = [purpose |-> purpose, uid |-> uid]]
    /\ UNCHANGED <<accounts, changes, rows, devices, attested, asserted, procs, used, muddled>>

\* Mutant of ReadChallengeToken: any ticket will do.
ReadAnyToken(t, purpose) == tickets[t].purpose \in {"webauthn_reg", "webauthn_auth"} /\ tickets[t].uid # Decoy

\* readChallengeToken: unexpired, of this purpose, and of a user: a decoy's
\* user cannot be decrypted.
ReadChallengeToken(t, purpose) == tickets[t].purpose = purpose /\ tickets[t].uid # Decoy

TicketExpires(t) ==
    /\ changes < MaxChanges /\ changes' = changes + 1
    /\ tickets[t].purpose \in {"webauthn_reg", "webauthn_auth"}
    /\ tickets' = [tickets EXCEPT ![t].purpose = "expired"]
    /\ UNCHANGED <<accounts, rows, devices, attested, asserted, procs, used, muddled>>

RowsOf(u) == {c \in Creds : rows[c].user = u}

\* registrationOptions, of a signed-in user.
RegistrationOptions(t, u) == u \in accounts /\ Sign(t, "webauthn_reg", u)

\* loginOptions, of any address: an account without passkeys, and an address
\* without an account, get a decoy.
LoginOptions(t, u) ==
    Sign(t, "webauthn_auth", IF u \in accounts /\ RowsOf(u) # {} THEN u ELSE Decoy)

-----------------------------------------------------------------------------
(* Authenticators.  A device answers a challenge shown to its owner.        *)

\* A new credential is made for a registration.
Enrolls(c, t) ==
    /\ tickets[t].purpose = "webauthn_reg" /\ devices[c].user = NoUser
    /\ devices' = [devices EXCEPT ![c].user = tickets[t].uid]
    /\ attested' = attested \cup {[cred |-> c, ticket |-> t, count |-> 0]}
    /\ UNCHANGED <<accounts, changes, rows, tickets, asserted, procs, used, muddled>>

\* A credential signs any challenge it is asked to, also one of another's
\* ceremony: which of them are worth something is for the platform to tell.
Answers(c, t) ==
    /\ tickets[t].purpose \in {"webauthn_reg", "webauthn_auth"} /\ devices[c].user # NoUser
    /\ devices[c].count < MaxCount /\ Cardinality(asserted) < MaxAnswers
    /\ LET n == IF c \in Counting THEN devices[c].count + 1 ELSE 0 IN
       /\ devices' = [devices EXCEPT ![c].count = n]
       /\ asserted' = asserted \cup {[cred |-> c, ticket |-> t, count |-> n]}
    /\ UNCHANGED <<accounts, changes, rows, tickets, attested, procs, used, muddled>>

-----------------------------------------------------------------------------
(* verifyRegistration, remove, verifyLogin.                                 *)

Overtake(c) == [p \in Procs |-> IF procs[p].pc = "counter" /\ procs[p].ans.cred = c THEN [procs[p] EXCEPT !.raced = TRUE] ELSE procs[p]]

\* A credential id is stored once; a second registration of it fails.  After
\* a removal the same answer makes a new row, with a new id.
VerifyRegistration(u, a) ==
    /\ a \in attested
    /\ ReadChallengeToken(a.ticket, "webauthn_reg") /\ tickets[a.ticket].uid = u
    /\ u \in accounts
    /\ rows[a.cred].user = NoUser
    /\ rows' = [rows EXCEPT ![a.cred] = [id |-> changes, user |-> u, count |-> a.count]]
    /\ used' = {x \in used : x.cred # a.cred}
    /\ muddled' = muddled \ {a.cred}
    /\ UNCHANGED <<accounts, changes, devices, tickets, attested, asserted, procs>>

\* Mutant of Removed: the counter outlives the credential.
RemovedInPart(c) == [rows EXCEPT ![c].user = NoUser, ![c].id = 0]
Removed(c) == [rows EXCEPT ![c] = NoRow]

Remove(u, c) ==
    /\ changes < MaxChanges /\ changes' = changes + 1
    /\ rows[c].user = u
    /\ rows' = Removed(c)
    /\ UNCHANGED <<accounts, devices, tickets, attested, asserted, procs, used, muddled>>

\* Mutant of CounterAdvances: an equal counter is fine.
CounterHolds(count, stored) == (count = 0 /\ stored = 0) \/ count >= stored

\* The library's check: a counter that is in use must have advanced.
CounterAdvances(count, stored) == (count = 0 /\ stored = 0) \/ count > stored

\* Mutant of Stored: the credential is looked up by its id alone.
StoredAnywhere(c, u) == rows[c].user # NoUser

\* The row is looked up by credential id and the ticket's user.
Stored(c, u) == rows[c].user = u

Busy(p) == procs[p].pc \in {"counter", "login", "issue"}

VerifyLogin(p, a) ==
    /\ ~Busy(p)
    /\ a \in asserted
    /\ ReadChallengeToken(a.ticket, "webauthn_auth")
    /\ Stored(a.cred, tickets[a.ticket].uid)
    /\ CounterAdvances(a.count, rows[a.cred].count)
    /\ procs' = [procs EXCEPT ![p] = [pc |-> "counter", ans |-> a, user |-> rows[a.cred].user,
                                            id |-> rows[a.cred].id, raced |-> FALSE, active |-> FALSE]]
    /\ UNCHANGED <<accounts, changes, rows, devices, tickets, attested, asserted, used, muddled>>

\* Mutant of Gone: a row that is not there is not updated, and nobody notices.
NeverGone(r) == FALSE
\* update by id fails when the row was removed, whether or not the credential
\* was registered again.
Gone(r) == rows[r.ans.cred].user = NoUser \/ rows[r.ans.cred].id # r.id

WriteCounter(p) ==
    /\ procs[p].pc = "counter"
    /\ LET r == procs[p]
           c == r.ans.cred
       IN IF Gone(r)
          THEN procs' = [procs EXCEPT ![p] = Idle] /\ UNCHANGED <<rows, used, muddled>>
          ELSE /\ rows' = IF rows[c].id = r.id /\ rows[c].user # NoUser
                          THEN [rows EXCEPT ![c].count = r.ans.count] ELSE rows
               /\ procs' = [Overtake(c) EXCEPT ![p] = [r EXCEPT !.pc = "login", !.active = r.user \in accounts]]
               /\ used' = used \cup {r.ans}
               /\ muddled' = IF r.raced THEN muddled \cup {c} ELSE muddled
    /\ UNCHANGED <<accounts, changes, devices, tickets, attested, asserted>>

\* Mutant of MayLogin: completeLogin does not look at deletedAt.
AnyLogin(u) == TRUE
MayLogin(u) == u \in accounts

\* The user is read, and goes to completeLogin, which refuses a deactivated one.
ReadUser(p) ==
    /\ procs[p].pc = "login"
    /\ procs' = [procs EXCEPT ![p] = IF MayLogin(procs[p].user) THEN [procs[p] EXCEPT !.pc = "issue"] ELSE Idle]
    /\ UNCHANGED <<accounts, changes, rows, devices, tickets, attested, asserted, used, muddled>>

\* The address is unverified, the tenant unusable, or the app not enabled.
RefuseLogin(p) ==
    /\ procs[p].pc \in {"login", "issue"}
    /\ procs' = [procs EXCEPT ![p] = Idle]
    /\ UNCHANGED <<accounts, changes, rows, devices, tickets, attested, asserted, used, muddled>>

\* assertAppEnabled and issueTokens are awaited with the user read before: an
\* account deactivated meanwhile still gets its session.
IssueTokens(p) ==
    /\ procs[p].pc = "issue"
    /\ procs' = [procs EXCEPT ![p] = [Idle EXCEPT !.pc = "session"]]
    /\ UNCHANGED <<accounts, changes, rows, devices, tickets, attested, asserted, used, muddled>>

\* The account is deactivated; and restored.
Deactivate(u) ==
    /\ changes < MaxChanges /\ changes' = changes + 1
    /\ u \in accounts /\ accounts' = accounts \ {u}
    /\ UNCHANGED <<rows, devices, tickets, attested, asserted, procs, used, muddled>>

Restore(u) ==
    /\ u \notin accounts /\ accounts' = accounts \cup {u}
    /\ procs' = [p \in Procs |-> IF procs[p].pc = "login" /\ procs[p].user = u
                                 THEN [procs[p] EXCEPT !.active = TRUE] ELSE procs[p]]
    /\ UNCHANGED <<changes, rows, devices, tickets, attested, asserted, used, muddled>>

-----------------------------------------------------------------------------
Next ==
    \/ \E t \in Tickets : \/ \E u \in Users : RegistrationOptions(t, u) \/ LoginOptions(t, u)
                          \/ TicketExpires(t)
                          \/ \E c \in Creds : Enrolls(c, t) \/ Answers(c, t)
    \/ \E u \in Users : \/ \E a \in attested : VerifyRegistration(u, a)
                        \/ \E c \in Creds : Remove(u, c)
                        \/ Deactivate(u) \/ Restore(u)
    \/ \E p \in Procs : \/ \E a \in asserted : VerifyLogin(p, a)
                        \/ WriteCounter(p) \/ ReadUser(p) \/ RefuseLogin(p) \/ IssueTokens(p)

Spec == Init /\ [][Next]_vars

-----------------------------------------------------------------------------
(* Properties.                                                              *)

Grants(p) == procs[p].pc = "issue" /\ procs'[p].pc = "session"

\* A session goes to the user for whom the sign-in was begun and the
\* credential was made, whatever tickets and answers of other ceremonies and
\* other users are put together (passkeys.service.ts:226-231), and not to an
\* account that has been deactivated ever since the answer was accepted: one
\* deactivated after the read still gets it (auth.service.ts:75-83).
SessionsAreBound ==
    [][\A p \in Procs : Grants(p) =>
          LET a == procs[p].ans IN
          /\ procs[p].user = devices[a.cred].user
          /\ tickets[a.ticket].uid = procs[p].user
          /\ procs[p].active
          /\ \A x \in attested : x.ticket # a.ticket]_vars

Accepts(p) == procs[p].pc = "counter" /\ procs'[p].pc = "login"

\* An answer of an authenticator that counts is accepted once per
\* registration, unless sign-ins with the credential overlapped: each may pass
\* on the counter the other has not written, and the older may write last
\* (passkeys.service.ts:250, 261).
ReplaysFail ==
    [][\A p \in Procs :
          LET a == procs[p].ans IN
          (Accepts(p) /\ a.cred \in Counting \ muddled /\ ~procs[p].raced) => a \notin used]_vars

\* A removed passkey admits nobody: a sign-in that has not written its counter
\* when the row goes fails, also when the credential is registered again at
\* once (passkeys.service.ts:261-265).
RemovedPasskeysAdmitNobody ==
    [][\A p \in Procs :
          Accepts(p) => /\ rows[procs[p].ans.cred].user = procs[p].user
                        /\ rows[procs[p].ans.cred].id = procs[p].id]_vars
=============================================================================
