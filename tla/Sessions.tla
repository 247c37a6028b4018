------------------------------- MODULE Sessions -------------------------------
(***************************************************************************)
(* Accounts and sessions of the platform: sign-in, rotation of refresh     *)
(* tokens, replay detection and sign-out (src/platform/src/auth/           *)
(* auth.service.ts), verification and reset links (account-flows.service   *)
(* .ts), the administrator's operations on users (users.service.ts), the   *)
(* locks on tenants and apps (tenants.service.ts) and the retention sweep  *)
(* (core/retention.service.ts).                                            *)
(*                                                                         *)
(* A handler reads, awaits and writes; nothing is locked in between.  Each *)
(* statement, or transaction, is a step, so that handlers interleave at    *)
(* every await.  A request that is refused changes nothing and is no step, *)
(* unless the refusal comes after an await.                                *)
(***************************************************************************)
EXTENDS Integers, FiniteSets

CONSTANTS
    Users,       \* rows of the User table that ever exist, by id
    Tenants,     \* workspaces
    TenantOf,    \* [Users -> Tenants \cup {NoTenant}]
    NoTenant,    \* the tenant of a platform-level user
    NoUser,      \* the user of an idle handler or an unused token
    Procs,       \* handlers in flight at a time
    Edits,       \* what administrators change of an account
    Terms,       \* what administrators and billing set access to
    MaxTokens,   \* bound: refresh tokens ever issued
    MaxChanges,  \* bound: operations of administrators
    MaxPasswords \* bound: passwords a user ever has

\* An edit of an account: a new password or not, and the admin flag.
Edit == [newpw: BOOLEAN, admin: {"keep", "demote", "promote"}]
NoEdit == [newpw |-> FALSE, admin |-> "keep"]

\* NONE: no row, or the app is soft-deleted.  over: trialEndsAt of a trial, or
\* graceUntil of a row that is past due, has passed.
Access == [status: {"TRIAL", "PAST_DUE"}, over: BOOLEAN]
              \cup [status: {"NONE", "ACTIVE", "SUSPENDED"}, over: {FALSE}]
NoAccess == [status |-> "NONE", over |-> FALSE]

ASSUME SessionsAssumption ==
    /\ Edits \subseteq Edit
    /\ Terms \subseteq Access
    /\ TenantOf \in [Users -> Tenants \cup {NoTenant}]
    /\ NoTenant \notin Tenants
    /\ NoUser \notin Users
    /\ MaxTokens \in Nat /\ MaxChanges \in Nat /\ MaxPasswords \in Nat

VARIABLES
    users,    \* the User rows
    tenants,  \* the Tenant rows: status and deletedAt
    access,   \* the AppTenant rows of the one app sessions are scoped to
    tokens,   \* the RefreshToken rows
    links,    \* reset links mailed and not expired
    mailed,   \* users a verification link was mailed to
    procs,    \* where each handler is
    changes   \* operations of administrators so far

vars == <<users, tenants, access, tokens, links, mailed, procs, changes>>

Tokens == 1..MaxTokens

\* pw tells passwords apart: every change stores a hash that never was before.
User == [row: {"never", "present", "purged"}, deleted: BOOLEAN, verified: BOOLEAN, admin: BOOLEAN, pw: Nat]
NoAccount == [row |-> "never", deleted |-> FALSE, verified |-> FALSE, admin |-> FALSE, pw |-> 0]

\* TenantStatus has a third value, PAST_DUE, that no code assigns to a tenant.
Tenant == [row: {"never", "present", "purged"}, status: {"ACTIVE", "SUSPENDED"}, deleted: BOOLEAN]
NewTenant == [row |-> "present", status |-> "ACTIVE", deleted |-> FALSE]

\* live, expired: revokedAt is null.  revoked: within the grace of replays;
\* aged: revoked before that.  gone: the row is deleted.
Token == [state: {"unused", "live", "expired", "revoked", "aged", "gone"},
          user: Users \cup {NoUser}, app: BOOLEAN,
          stale: BOOLEAN,  \* history: its user's sessions were ended since the sign-in
          late: BOOLEAN]   \* history: a handler that was overtaken issued it
NoToken == [state |-> "unused", user |-> NoUser, app |-> FALSE, stale |-> FALSE, late |-> FALSE]
Unrevoked == {"live", "expired"}

Link == [user: Users, pw: Nat]

\* A handler: where it is and what it read.  late and excused are history: the
\* sessions or the password of its user, or any lock, changed while it ran.
Proc == [pc: {"idle", "account", "gate", "rotate", "issue", "replay", "reset", "update",
              "revoke", "remove", "purge", "erase"},
         user: Users \cup {NoUser}, tenant: Tenants \cup {NoTenant}, app: BOOLEAN, token: Nat, pw: Nat, edit: Edit,
         stale: BOOLEAN, late: BOOLEAN, excused: BOOLEAN]
IdleProc == [pc |-> "idle", user |-> NoUser, tenant |-> NoTenant, app |-> FALSE, token |-> 0, pw |-> 0,
             edit |-> NoEdit, stale |-> FALSE, late |-> FALSE, excused |-> FALSE]

TypeOK ==
    /\ users \in [Users -> User]
    /\ tenants \in [Tenants -> Tenant]
    /\ access \in [Tenants -> Access]
    /\ tokens \in [Tokens -> Token]
    /\ links \in SUBSET Link
    /\ mailed \in SUBSET Users
    /\ procs \in [Procs -> Proc]
    /\ changes \in Nat

Init ==
    /\ users = [u \in Users |-> NoAccount]
    /\ tenants = [t \in Tenants |-> [NewTenant EXCEPT !.row = "never"]]
    /\ access = [t \in Tenants |-> NoAccess]
    /\ tokens = [k \in Tokens |-> NoToken]
    /\ links = {}
    /\ mailed = {}
    /\ procs = [p \in Procs |-> IdleProc]
    /\ changes = 0

-----------------------------------------------------------------------------
(* The gates every sign-in and every refresh passes.                        *)

\* assertTenantUsable, of the tenant a user belongs to, if any.
TenantUsable(t) ==
    t # NoTenant => /\ tenants[t].row = "present" /\ ~tenants[t].deleted
                    /\ tenants[t].status = "ACTIVE"

\* What both sign-in and refresh ask of the account's own row.
AccountUsable(u) == users[u].row = "present" /\ ~users[u].deleted /\ users[u].verified

Admitted(u) == AccountUsable(u) /\ TenantUsable(TenantOf[u])

\* assertAppEnabled: only a session scoped to an app, of a user with a tenant.
AppEnabled(u, app) ==
    (app /\ TenantOf[u] # NoTenant) =>
        LET a == access[TenantOf[u]] IN
        \/ a.status = "ACTIVE"
        \/ a.status \in {"TRIAL", "PAST_DUE"} /\ ~a.over

Begin(p, h) ==
    /\ procs[p].pc = "idle"
    /\ procs' = [procs EXCEPT ![p] = h]

Finish(p) == procs' = [procs EXCEPT ![p] = IdleProc]

\* The bound on tokens: a handler starts only if a row is left for it.
Issuing == {p \in Procs : procs[p].pc \in {"account", "gate", "rotate", "issue"}}
Unused == {k \in Tokens : tokens[k].state = "unused"}
HasRoom == Cardinality(Issuing) < Cardinality(Unused)

\* login: the tenant is read first, and checked later as it was read.
Login(p, u, app) ==
    /\ TenantUsable(TenantOf[u])
    /\ HasRoom
    /\ Begin(p, [IdleProc EXCEPT !.pc = "account", !.user = u, !.app = app])
    /\ UNCHANGED <<users, tenants, access, tokens, links, mailed, changes>>

\* Then the user, with the hash the password is compared with.
ReadAccount(p) ==
    LET u == procs[p].user IN
    /\ procs[p].pc = "account"
    /\ \/ /\ AccountUsable(u)
          /\ procs' = [procs EXCEPT ![p].pc = "gate"]
       \/ /\ ~AccountUsable(u)
          /\ Finish(p)
    /\ UNCHANGED <<users, tenants, access, tokens, links, mailed, changes>>

\* Mutant: refresh looks at the account and not at its tenant.
RefreshAnyTenant(p, k) ==
    LET u == tokens[k].user IN
    /\ tokens[k].state = "live"
    /\ AccountUsable(u)
    /\ HasRoom
    /\ Begin(p, [IdleProc EXCEPT !.pc = "gate", !.user = u, !.app = tokens[k].app, !.token = k,
                                 !.stale = tokens[k].stale, !.late = tokens[k].late])
    /\ UNCHANGED <<users, tenants, access, tokens, links, mailed, changes>>

\* refresh: the token, its user and tenant are read and checked.
Refresh(p, k) ==
    LET u == tokens[k].user IN
    /\ tokens[k].state = "live"
    /\ Admitted(u)
    /\ HasRoom
    /\ Begin(p, [IdleProc EXCEPT !.pc = "gate", !.user = u, !.app = tokens[k].app, !.token = k,
                                 !.stale = tokens[k].stale, !.late = tokens[k].late])
    /\ UNCHANGED <<users, tenants, access, tokens, links, mailed, changes>>

Gate(p) ==
    /\ procs[p].pc = "gate"
    /\ \/ /\ AppEnabled(procs[p].user, procs[p].app)
          /\ procs' = [procs EXCEPT ![p].pc = IF procs[p].token = 0 THEN "issue" ELSE "rotate"]
       \/ /\ ~AppEnabled(procs[p].user, procs[p].app)
          /\ Finish(p)
    /\ UNCHANGED <<users, tenants, access, tokens, links, mailed, changes>>

\* revokedAt is set to now.
Revoked(k) == [NoToken EXCEPT !.state = "revoked", !.user = tokens[k].user]

\* The used token is revoked, whatever has become of it; a row that is gone
\* fails the request.
Rotate(p) ==
    LET k == procs[p].token IN
    /\ procs[p].pc = "rotate"
    /\ \/ /\ tokens[k].state # "gone"
          /\ tokens' = [tokens EXCEPT ![k] = Revoked(k)]
          /\ procs' = [procs EXCEPT ![p].pc = "issue"]
       \/ /\ tokens[k].state = "gone"
          /\ Finish(p)
          /\ UNCHANGED tokens
    /\ UNCHANGED <<users, tenants, access, links, mailed, changes>>

\* issueTokens: the foreign key refuses a token of a purged user.
Issue(p) ==
    LET h == procs[p] IN
    /\ h.pc = "issue"
    /\ Finish(p)
    /\ \/ /\ users[h.user].row = "present"
          /\ \E k \in Unused :
              /\ \A j \in Unused : k <= j
              /\ tokens' = [tokens EXCEPT ![k] =
                              [NoToken EXCEPT !.state = "live", !.user = h.user, !.app = h.app,
                                              !.stale = h.stale, !.late = h.late]]
       \/ /\ users[h.user].row # "present"
          /\ UNCHANGED tokens
    /\ UNCHANGED <<users, tenants, access, links, mailed, changes>>

-----------------------------------------------------------------------------
(* Ending sessions.                                                          *)

\* Mutant: only sessions without an app are ended.
MayRevokeApp(k, u) == tokens[k].user = u /\ tokens[k].state \in Unrevoked /\ ~tokens[k].app

\* where: { userId, revokedAt: null }
MayRevoke(k, u) == tokens[k].user = u /\ tokens[k].state \in Unrevoked

RevokedFor(u) ==
    [k \in Tokens |-> IF MayRevoke(k, u) THEN Revoked(k)
                      ELSE IF tokens[k].user = u /\ tokens[k].state \in Unrevoked
                           THEN [tokens[k] EXCEPT !.stale = TRUE]
                      ELSE tokens[k]]

\* A handler of u that has read the account is overtaken by what happens now.
Reading(q, u) == procs[q].user = u /\ procs[q].pc \in {"gate", "rotate", "issue", "reset"}

\* Every unrevoked token of u is revoked, and handler p is done.
EndSessions(p, u) ==
    /\ tokens' = RevokedFor(u)
    /\ procs' = [q \in Procs |->
                    IF q = p THEN IdleProc
                    ELSE IF Reading(q, u) THEN [procs[q] EXCEPT !.late = TRUE, !.stale = TRUE]
                    ELSE procs[q]]

\* refresh with a revoked token: within the grace it is refused and nothing
\* else; after it, onRefreshReuse ends the chain.
Replay(p, k) ==
    /\ tokens[k].state = "aged"
    /\ Begin(p, [IdleProc EXCEPT !.pc = "replay", !.user = tokens[k].user])
    /\ UNCHANGED <<users, tenants, access, tokens, links, mailed, changes>>

OnRefreshReuse(p) ==
    /\ procs[p].pc = "replay"
    /\ EndSessions(p, procs[p].user)
    /\ UNCHANGED <<users, tenants, access, links, mailed, changes>>

Logout(k) ==
    /\ tokens[k].state \in Unrevoked
    /\ tokens' = [tokens EXCEPT ![k] = Revoked(k)]
    /\ UNCHANGED <<users, tenants, access, links, mailed, procs, changes>>

-----------------------------------------------------------------------------
(* Links.                                                                    *)

\* findByEmail: with a workspace only while that is not deleted; without one a
\* platform-level account, or else the one platform admin of that address.
FoundByEmail(u) ==
    /\ users[u].row = "present" /\ ~users[u].deleted
    /\ ~users[u].admin /\ TenantOf[u] # NoTenant => ~tenants[TenantOf[u]].deleted

RequestReset(u) ==
    /\ FoundByEmail(u)
    /\ links' = links \cup {[user |-> u, pw |-> users[u].pw]}
    /\ UNCHANGED <<users, tenants, access, tokens, mailed, procs, changes>>

\* Mutant: the link is checked against nothing but its user.
ResetPasswordUnbound(p, l) ==
    /\ users[l.user].row = "present" /\ ~users[l.user].deleted
    /\ l.pw < MaxPasswords
    /\ Begin(p, [IdleProc EXCEPT !.pc = "reset", !.user = l.user, !.pw = l.pw])
    /\ UNCHANGED <<users, tenants, access, tokens, links, mailed, changes>>

\* resetPassword up to the check of the link's signature, whose key is derived
\* from the password hash that was read.
ResetPassword(p, l) ==
    /\ users[l.user].row = "present" /\ ~users[l.user].deleted
    /\ users[l.user].pw = l.pw
    /\ l.pw < MaxPasswords
    /\ Begin(p, [IdleProc EXCEPT !.pc = "reset", !.user = l.user, !.pw = l.pw])
    /\ UNCHANGED <<users, tenants, access, tokens, links, mailed, changes>>

\* The transaction: new password, mailbox proven, every session ended.
CommitReset(p) ==
    LET u == procs[p].user IN
    /\ procs[p].pc = "reset"
    /\ \/ /\ users[u].row = "present"
          /\ users' = [users EXCEPT ![u].pw = @ + 1, ![u].verified = TRUE]
          /\ EndSessions(p, u)
       \/ /\ users[u].row # "present"
          /\ Finish(p)
          /\ UNCHANGED <<users, tokens>>
    /\ UNCHANGED <<tenants, access, links, mailed, changes>>

\* sendAllowed: a budget per address and one per client of an address; what
\* other requests have spent of them is left open.
SendAllowed == BOOLEAN

SendVerification(u) ==
    /\ FoundByEmail(u) /\ ~users[u].verified
    /\ mailed' = mailed \cup {u}
    /\ UNCHANGED <<users, tenants, access, tokens, links, procs, changes>>

ConfirmVerification(u) ==
    /\ u \in mailed
    /\ users[u].row = "present" /\ ~users[u].deleted /\ ~users[u].verified
    /\ users' = [users EXCEPT ![u].verified = TRUE]
    /\ UNCHANGED <<tenants, access, tokens, links, mailed, procs, changes>>

\* A link outlives its term in nobody's hands.
LinkExpires(l) ==
    /\ links' = links \ {l}
    /\ UNCHANGED <<users, tenants, access, tokens, mailed, procs, changes>>

-----------------------------------------------------------------------------
(* Accounts.  An operation of an administrator counts against MaxChanges.    *)

Administers ==
    /\ changes < MaxChanges
    /\ changes' = changes + 1

\* A lock is set on accounts U.  A handler whose pc is in passed has read what
\* it changes.
Locked(U, passed) ==
    [q \in Procs |-> IF procs[q].user \in U /\ procs[q].pc \in passed
                     THEN [procs[q] EXCEPT !.excused = TRUE]
                     ELSE procs[q]]
Members(t) == {u \in Users : TenantOf[u] = t}
PastTenant == {"account", "gate", "rotate", "issue"}
PastAccount == {"gate", "rotate", "issue"}
PastApp == {"rotate", "issue"}

NewUser == [NoAccount EXCEPT !.row = "present"]

\* signup: tenant, unverified founder and trial in one transaction, then the
\* verification mail, unless the send budget refuses it.
SignUp(u) ==
    LET t == TenantOf[u] IN
    /\ users[u].row = "never"
    /\ t # NoTenant
    /\ tenants[t].row = "never"
    /\ users' = [users EXCEPT ![u] = NewUser]
    /\ tenants' = [tenants EXCEPT ![t] = NewTenant]
    /\ access' = [access EXCEPT ![t] = [status |-> "TRIAL", over |-> FALSE]]
    /\ \E ok \in SendAllowed : mailed' = IF ok THEN mailed \cup {u} ELSE mailed
    /\ UNCHANGED <<tokens, links, procs, changes>>

LiveAdmin(u) == users[u].row = "present" /\ ~users[u].deleted /\ users[u].admin
Admins == {u \in Users : LiveAdmin(u)}

\* f, with the handlers Q marked: what they checked is changed now.
Overtaking(f, Q) == [q \in Procs |-> IF q \in Q THEN [f[q] EXCEPT !.late = TRUE] ELSE f[q]]

\* When the platform admins change, the counts others have made are out of date.
Recount(f) ==
    IF Admins' # Admins THEN Overtaking(f, {q \in Procs : f[q].pc \in {"remove", "update"}}) ELSE f

\* create, of the console or of a tenant's own administrator.
CreateUser(u, admin) ==
    /\ Administers
    /\ users[u].row = "never"
    /\ TenantOf[u] # NoTenant => tenants[TenantOf[u]].row = "present"
    /\ users' = [users EXCEPT ![u] = [NewUser EXCEPT !.verified = TRUE, !.admin = admin]]
    /\ procs' = Recount(procs)
    /\ UNCHANGED <<tenants, access, tokens, links, mailed>>

\* Mutant: the check counts the account itself.
NotLastCountingSelf(u) == LiveAdmin(u) => \E v \in Users : LiveAdmin(v)

\* assertNotLastPlatformAdmin lets the operation pass.
NotLastPlatformAdmin(u) == LiveAdmin(u) => \E v \in Users \ {u} : LiveAdmin(v)

\* update up to its checks.
UpdateUser(p, u, e) ==
    /\ Administers
    /\ users[u].row = "present"
    /\ e.admin = "demote" => NotLastPlatformAdmin(u)
    /\ e.newpw => users[u].pw < MaxPasswords
    /\ Begin(p, [IdleProc EXCEPT !.pc = "update", !.user = u, !.edit = e])
    /\ UNCHANGED <<users, tenants, access, tokens, links, mailed>>

\* The row is written; the sessions are ended by a statement of its own.
WriteUpdate(p) ==
    LET u == procs[p].user
        e == procs[p].edit IN
    /\ procs[p].pc = "update"
    /\ \/ /\ users[u].row = "present"
          /\ users' = [users EXCEPT
                ![u].pw = IF e.newpw THEN users[u].pw + 1 ELSE users[u].pw,
                ![u].admin = CASE e.admin = "demote" -> FALSE
                               [] e.admin = "promote" -> TRUE
                               [] OTHER -> users[u].admin]
          /\ LET next == [q \in Procs |->
                    IF q = p
                    THEN IF e.newpw \/ e.admin = "demote" THEN [procs[p] EXCEPT !.pc = "revoke"]
                                                          ELSE IdleProc
                    ELSE IF Reading(q, u) /\ e.newpw THEN [procs[q] EXCEPT !.late = TRUE]
                    ELSE procs[q]]
             IN procs' = Recount(next)
       \/ /\ users[u].row # "present"
          /\ Finish(p)
          /\ UNCHANGED users
    /\ UNCHANGED <<tenants, access, tokens, links, mailed, changes>>

RevokeAfterUpdate(p) ==
    /\ procs[p].pc = "revoke"
    /\ EndSessions(p, procs[p].user)
    /\ UNCHANGED <<users, tenants, access, links, mailed, changes>>

\* remove, of the console.
RemoveUser(p, u) ==
    /\ Administers
    /\ users[u].row = "present"
    /\ NotLastPlatformAdmin(u)
    /\ Begin(p, [IdleProc EXCEPT !.pc = "remove", !.user = u])
    /\ UNCHANGED <<users, tenants, access, tokens, links, mailed>>

\* deactivate, of a tenant's own administrator: never a platform admin.
Deactivate(p, u) ==
    /\ Administers
    /\ users[u].row = "present" /\ TenantOf[u] # NoTenant
    /\ ~users[u].admin
    /\ Begin(p, [IdleProc EXCEPT !.pc = "remove", !.user = u])
    /\ UNCHANGED <<users, tenants, access, tokens, links, mailed>>

WriteRemove(p) ==
    LET u == procs[p].user IN
    /\ procs[p].pc = "remove"
    /\ users' = [users EXCEPT ![u].deleted = IF users[u].row = "present" THEN TRUE ELSE users[u].deleted]
    /\ procs' = Recount([Locked({u}, PastAccount) EXCEPT ![p] = IdleProc])
    /\ UNCHANGED <<tenants, access, tokens, links, mailed, changes>>

\* restore, of the console; a tenant's administrator restores members only.
RestoreUser(u) ==
    /\ Administers
    /\ users[u].row = "present" /\ users[u].deleted
    /\ users' = [users EXCEPT ![u].deleted = FALSE]
    /\ procs' = Recount(Overtaking(procs, {q \in Procs : procs[q].pc = "purge" /\ procs[q].user = u}))
    /\ UNCHANGED <<tenants, access, tokens, links, mailed>>

\* A user's rows are deleted, and the tokens with them.
Erased(U) == [u \in Users |-> IF u \in U THEN [NoAccount EXCEPT !.row = "purged"] ELSE users[u]]
Gone(k) == [NoToken EXCEPT !.state = "gone", !.user = tokens[k].user]
Cascade(U) == [k \in Tokens |-> IF tokens[k].user \in U THEN Gone(k) ELSE tokens[k]]

\* Mutant: a purge of an account that was not deleted first.
PurgeUserAtOnce(p, u) ==
    /\ Administers
    /\ users[u].row = "present"
    /\ Begin(p, [IdleProc EXCEPT !.pc = "purge", !.user = u])
    /\ UNCHANGED <<users, tenants, access, tokens, links, mailed>>

PurgeUser(p, u) ==
    /\ Administers
    /\ users[u].row = "present" /\ users[u].deleted
    /\ Begin(p, [IdleProc EXCEPT !.pc = "purge", !.user = u])
    /\ UNCHANGED <<users, tenants, access, tokens, links, mailed>>

\* The transaction does not look at deletedAt again.
CommitPurge(p) ==
    LET u == procs[p].user
        U == {v \in {u} : users[v].row = "present"} IN
    /\ procs[p].pc = "purge"
    /\ users' = Erased(U)
    /\ tokens' = Cascade(U)
    /\ procs' = Recount([Locked({u}, PastAccount) EXCEPT ![p] = IdleProc])
    /\ UNCHANGED <<tenants, access, links, mailed, changes>>

-----------------------------------------------------------------------------
(* Tenants, their access to the app, time and restarts.                      *)

\* create: with access if the app enrolls automatically; the access is a second
\* statement, and a crash before it leaves the tenant without.
CreateTenant(t, a) ==
    /\ Administers
    /\ tenants[t].row = "never"
    /\ tenants' = [tenants EXCEPT ![t] = NewTenant]
    /\ access' = [access EXCEPT ![t] = a]
    /\ UNCHANGED <<users, tokens, links, mailed, procs>>

\* suspend, activate, remove and restore: one statement each.
SetTenant(t, status, deleted) ==
    /\ Administers
    /\ tenants[t].row = "present"
    /\ \/ status = tenants[t].status /\ deleted # tenants[t].deleted
       \/ status # tenants[t].status /\ deleted = tenants[t].deleted
    /\ tenants' = [tenants EXCEPT ![t].status = status, ![t].deleted = deleted]
    /\ procs' = Overtaking(Locked(Members(t), PastTenant),
                           {q \in Procs : procs[q].pc = "erase" /\ procs[q].tenant = t /\ ~deleted})
    /\ UNCHANGED <<users, access, tokens, links, mailed>>

PurgeTenant(p, t) ==
    /\ Administers
    /\ tenants[t].row = "present" /\ tenants[t].deleted
    /\ Begin(p, [IdleProc EXCEPT !.pc = "erase", !.tenant = t])
    /\ UNCHANGED <<users, tenants, access, tokens, links, mailed>>

\* The transaction: access, users with their tokens, and the tenant.
CommitPurgeTenant(p) ==
    LET t == procs[p].tenant
        U == {u \in Members(t) : users[u].row = "present"} IN
    /\ procs[p].pc = "erase"
    /\ \/ /\ tenants[t].row = "present"
          /\ tenants' = [tenants EXCEPT ![t].row = "purged"]
          /\ access' = [access EXCEPT ![t] = NoAccess]
          /\ users' = Erased(U)
          /\ tokens' = Cascade(U)
          /\ procs' = Recount([Locked(Members(t), PastTenant) EXCEPT ![p] = IdleProc])
       \/ /\ tenants[t].row # "present"
          /\ Finish(p)
          /\ UNCHANGED <<tenants, access, users, tokens>>
    /\ UNCHANGED <<links, mailed, changes>>

\* setAppAccess, removeAppAccess (NONE), and the same writes of billing.
SetAccess(t, a) ==
    /\ Administers
    /\ tenants[t].row = "present"
    /\ access[t] # a
    /\ access' = [access EXCEPT ![t] = a]
    /\ procs' = Locked(Members(t), PastApp)
    /\ UNCHANGED <<users, tenants, tokens, links, mailed>>

\* Mutant: a deadline kept from an earlier status ends an active row too.
DeadlinePassesAnyRow(t) ==
    /\ access[t].status # "NONE" /\ ~access[t].over
    /\ access' = [access EXCEPT ![t].over = TRUE]
    /\ procs' = Locked(Members(t), PastApp)
    /\ UNCHANGED <<users, tenants, tokens, links, mailed, changes>>

\* The trial or the grace ends.
DeadlinePasses(t) ==
    /\ access[t].status \in {"TRIAL", "PAST_DUE"} /\ ~access[t].over
    /\ access' = [access EXCEPT ![t].over = TRUE]
    /\ procs' = Locked(Members(t), PastApp)
    /\ UNCHANGED <<users, tenants, tokens, links, mailed, changes>>

TokenExpires(k) ==
    /\ tokens[k].state = "live"
    /\ tokens' = [tokens EXCEPT ![k].state = "expired"]
    /\ UNCHANGED <<users, tenants, access, links, mailed, procs, changes>>

\* REFRESH_REUSE_GRACE_MS passes.
RevocationAges(k) ==
    /\ tokens[k].state = "revoked"
    /\ tokens' = [tokens EXCEPT ![k].state = "aged"]
    /\ UNCHANGED <<users, tenants, access, links, mailed, procs, changes>>

\* The retention sweep deletes what ended longest ago: the cutoff is days.
Sweep(K) ==
    /\ K # {}
    /\ \A k \in K : tokens[k].state \in {"expired", "aged"}
    /\ tokens' = [k \in Tokens |-> IF k \in K THEN Gone(k) ELSE tokens[k]]
    /\ UNCHANGED <<users, tenants, access, links, mailed, procs, changes>>

\* The service starts again: every handler is dropped where it was.  The boot
\* provisions an administrator if one is configured and none is alive.
Restart ==
    /\ procs' = [p \in Procs |-> IdleProc]
    /\ \/ UNCHANGED users
       \/ /\ \A v \in Users : ~LiveAdmin(v)
          /\ \E u \in Users :
              /\ users[u].row = "never" /\ TenantOf[u] = NoTenant
              /\ users' = [users EXCEPT ![u] = [NewUser EXCEPT !.verified = TRUE, !.admin = TRUE]]
    /\ UNCHANGED <<tenants, access, tokens, links, mailed, changes>>

-----------------------------------------------------------------------------
SessionStep(p) ==
    \/ \E u \in Users, app \in BOOLEAN : Login(p, u, app)
    \/ ReadAccount(p)
    \/ \E k \in Tokens : Refresh(p, k)
    \/ Gate(p)
    \/ Rotate(p)
    \/ Issue(p)
    \/ \E k \in Tokens : Replay(p, k)
    \/ OnRefreshReuse(p)
    \/ \E l \in links : ResetPassword(p, l)
    \/ CommitReset(p)

AdminStep(p) ==
    \/ \E u \in Users, e \in Edits : UpdateUser(p, u, e)
    \/ WriteUpdate(p)
    \/ RevokeAfterUpdate(p)
    \/ \E u \in Users : RemoveUser(p, u)
    \/ \E u \in Users : Deactivate(p, u)
    \/ WriteRemove(p)
    \/ \E u \in Users : PurgeUser(p, u)
    \/ CommitPurge(p)
    \/ \E t \in Tenants : PurgeTenant(p, t)
    \/ CommitPurgeTenant(p)

AccountStep(u) ==
    \/ RequestReset(u)
    \/ SendVerification(u)
    \/ ConfirmVerification(u)
    \/ SignUp(u)
    \/ \E admin \in BOOLEAN : CreateUser(u, admin)
    \/ RestoreUser(u)

TenantStep(t) ==
    \/ \E a \in {NoAccess, [status |-> "ACTIVE", over |-> FALSE]} : CreateTenant(t, a)
    \/ \E status \in {"ACTIVE", "SUSPENDED"}, deleted \in BOOLEAN : SetTenant(t, status, deleted)
    \/ \E a \in Terms : SetAccess(t, a)
    \/ DeadlinePasses(t)

Environment ==
    \/ \E k \in Tokens : Logout(k)
    \/ \E k \in Tokens : TokenExpires(k)
    \/ \E k \in Tokens : RevocationAges(k)
    \/ \E K \in SUBSET Tokens : Sweep(K)
    \/ \E l \in links : LinkExpires(l)
    \/ Restart

Next ==
    \/ \E p \in Procs : SessionStep(p) \/ AdminStep(p)
    \/ \E u \in Users : AccountStep(u)
    \/ \E t \in Tenants : TenantStep(t)
    \/ Environment

Spec == Init /\ [][Next]_vars

-----------------------------------------------------------------------------
(* Properties.                                                               *)

\* A lock reaches everyone who did not already stand behind the gate.  A new
\* refresh token for an account that is deleted or unverified, of a tenant that
\* is suspended or deleted, or for an app that is not enabled, is issued only by
\* a handler that had read the row before the lock was set: the gate refresh
\* shares with login (auth.service.ts, "a check that exists on one path and not
\* the other is a lockout that only applies to people who sign out").
LockoutHolds ==
    [][\A k \in Tokens :
        (tokens[k].state = "unused" /\ tokens'[k].state = "live") =>
            LET u == tokens'[k].user IN
            \/ Admitted(u) /\ AppEnabled(u, tokens'[k].app)
            \/ \E p \in Procs : procs[p].pc = "issue" /\ procs'[p].pc = "idle" /\ procs[p].excused]_vars

\* Ending the sessions of a user (a reset, an administrator's new password, a
\* demotion, a replay) ends all of them: a token alive afterwards descends from
\* a sign-in that came later, or from a handler that was in flight.
SessionsEnd ==
    \A k \in Tokens :
        tokens[k].state \in Unrevoked /\ tokens[k].stale => tokens[k].late

\* A reset link dies with the password it was made under, whoever changed it: a
\* reset takes effect only if the hash it was checked against is still stored,
\* or was replaced while the reset was in flight.
LinksDie ==
    [][\A p \in Procs :
        (procs[p].pc = "reset" /\ users'[procs[p].user].pw > users[procs[p].user].pw
                               /\ procs'[p].pc = "idle") =>
            procs[p].pw = users[procs[p].user].pw \/ procs[p].late]_vars

\* What account-flows.service.ts and auth.service.ts say of it: "end every
\* session", "the attacker's chain dies with it".  With no handler in flight
\* no token is alive that is older than the last ending of its user's sessions.
EndedSessionsStayEnded ==
    (\A p \in Procs : procs[p].pc = "idle") =>
        \A k \in Tokens : tokens[k].state = "live" => ~tokens[k].stale

\* The platform keeps a platform admin (users.service.ts,
\* assertNotLastPlatformAdmin).  The last one is lost only to a handler whose
\* count was overtaken by another's write, or with a tenant that is erased.
AdminGuarded ==
    [][Admins # {} /\ Admins' = {} =>
        \E p \in Procs : procs'[p] # procs[p] /\ (procs[p].late \/ procs[p].pc = "erase")]_vars

\* Erasure takes two steps (users.service.ts and tenants.service.ts, purge:
\* "Requires prior soft-delete", "a single mistaken click can never destroy
\* data").  An account is erased only while it, or its tenant, is soft-deleted,
\* or by a purge that a restore overtook.
ErasureIsTwoStep ==
    [][\A u \in Users :
        users[u].row = "present" /\ users'[u].row = "purged" =>
            \/ users[u].deleted
            \/ TenantOf[u] # NoTenant /\ tenants[TenantOf[u]].deleted
            \/ \E p \in Procs : procs'[p] # procs[p] /\ procs[p].late]_vars
===============================================================================
