------------------------------ MODULE Workspace ------------------------------
(***************************************************************************)
(* The people of one workspace: its administrators' operations on members  *)
(* (src/platform/src/tenant/tenant.service.ts), invites (tenant/           *)
(* invites.service.ts), and what the platform's console does meanwhile to  *)
(* the workspace (tenants/tenants.service.ts), its members (users/         *)
(* users.service.ts), apps and their roles (apps/apps.service.ts).         *)
(*                                                                         *)
(* A request first checks and later writes; the last write is one          *)
(* statement or one transaction, which the database refuses as a whole     *)
(* when a key is taken or a row it refers to is gone.                      *)
(***************************************************************************)
EXTENDS Integers, FiniteSets

CONSTANTS
    People,   \* the addresses members have; an address has at most one row
    Founder,  \* the member who signed the workspace up
    Apps,
    Roles,    \* roles of apps, by id
    AppOf,    \* [Roles -> Apps]
    Invites,  \* invites ever created, by id
    Procs,    \* requests in flight at a time
    Nobody, NoInvite,
    MaxOps    \* bound: requests

ASSUME WorkspaceAssumption ==
    /\ Founder \in People /\ AppOf \in [Roles -> Apps]
    /\ Nobody \notin People /\ NoInvite \notin Invites
    /\ MaxOps \in Nat

VARIABLES
    tenant,   \* the Tenant row
    apps,     \* the App rows
    enabled,  \* the apps with an AppTenant row
    roles,    \* the Role rows
    members,  \* the User rows of the workspace, with their UserRole rows
    claims,   \* who holds an access token that says tenant_admin
    invites,  \* the Invite rows
    procs,    \* where each request is
    locked,   \* history: one who was no administrator (any more) removed one
    erased,   \* history: people whose account was purged
    ops

vars == <<tenant, apps, enabled, roles, members, claims, invites, procs, locked, erased, ops>>

Member == [row: BOOLEAN, deleted: BOOLEAN, admin: BOOLEAN, roles: SUBSET Roles,
           by: Invites \cup {NoInvite}]  \* history: the invite that brought them
NoMember == [row |-> FALSE, deleted |-> FALSE, admin |-> FALSE, roles |-> {}, by |-> NoInvite]

\* The row stores the hash of the token mailed last; no other finds it.
Invite == [state: {"none", "open", "accepted", "gone"}, who: People \cup {Nobody}, roles: SUBSET Roles,
           admin: BOOLEAN, expired: BOOLEAN,
           late: BOOLEAN]  \* history: another invite was written while this one was created
NoSuchInvite == [state |-> "none", who |-> Nobody, roles |-> {}, admin |-> FALSE,
                 expired |-> FALSE, late |-> FALSE]

\* A request that passed its checks: what it will write, and whether a row it
\* relied on has changed since (history).
Op == {"idle", "create", "update", "deactivate", "restore", "setRoles",
       "clear", "invite", "resend", "revoke", "accept"}
Proc == [op: Op, actor: People \cup {Nobody}, who: People \cup {Nobody}, inv: Invites \cup {NoInvite},
         admin: BOOLEAN, roles: SUBSET Roles, raced: BOOLEAN]
Idle == [op |-> "idle", actor |-> Nobody, who |-> Nobody, inv |-> NoInvite, admin |-> FALSE,
         roles |-> {}, raced |-> FALSE]

TypeOK ==
    /\ tenant \in {"usable", "suspended", "deleted", "purged"}
    /\ apps \in [Apps -> {"present", "deleted", "purged"}]
    /\ enabled \subseteq Apps /\ roles \subseteq Roles
    /\ members \in [People -> Member]
    /\ claims \subseteq People
    /\ invites \in [Invites -> Invite]
    /\ procs \in [Procs -> Proc]
    /\ locked \in BOOLEAN /\ erased \subseteq People /\ ops \in 0..MaxOps

Init ==
    /\ tenant = "usable"
    /\ apps = [a \in Apps |-> "present"]
    /\ enabled = Apps /\ roles = Roles
    /\ members = [u \in People |-> IF u = Founder THEN [NoMember EXCEPT !.row = TRUE, !.admin = TRUE]
                                                  ELSE NoMember]
    /\ claims = {}
    /\ invites = [i \in Invites |-> NoSuchInvite]
    /\ procs = [p \in Procs |-> Idle]
    /\ locked = FALSE /\ erased = {} /\ ops = 0

-----------------------------------------------------------------------------
(* Access tokens.  The guard believes the token until it expires.           *)

Usable(u) == members[u].row /\ ~members[u].deleted

SignIn(u) ==
    /\ u \notin claims
    /\ Usable(u) /\ members[u].admin /\ tenant = "usable"
    /\ claims' = claims \cup {u}
    /\ UNCHANGED <<tenant, apps, enabled, roles, members, invites, procs, locked, erased, ops>>

TokenExpires(u) ==
    /\ u \in claims
    /\ claims' = claims \ {u}
    /\ UNCHANGED <<tenant, apps, enabled, roles, members, invites, procs, locked, erased, ops>>

Count == ops < MaxOps /\ ops' = ops + 1

Begin(p, r) ==
    /\ procs[p].op = "idle" /\ Count
    /\ procs' = [procs EXCEPT ![p] = r]
    /\ UNCHANGED <<tenant, apps, enabled, roles, members, claims, invites, locked, erased>>

\* JwtAuthGuard and TenantAdminGuard.
Asks(actor) == actor \in claims

Finish(p) == procs' = [procs EXCEPT ![p] = Idle]

\* A step that changes what requests in flight have checked.
Racing(P) == [q \in Procs |-> IF P[q].op = "idle" THEN P[q] ELSE [P[q] EXCEPT !.raced = TRUE]]
Commit(p) == procs' = Racing([procs EXCEPT ![p] = Idle])

-----------------------------------------------------------------------------
(* tenant.service.ts: checks.                                               *)

Create(p, actor, who, admin) ==
    /\ Asks(actor) /\ ~members[who].row
    /\ Begin(p, [Idle EXCEPT !.op = "create", !.actor = actor, !.who = who, !.admin = admin])

\* Mutant of SelfLockout: nothing is refused.
NoSelfLockout(op, actor, who, admin) == FALSE
SelfLockout(op, actor, who, admin) ==
    who = actor /\ (op = "deactivate" \/ (op = "update" /\ ~admin))

Change(p, op, actor, who, admin) ==
    /\ Asks(actor) /\ members[who].row
    /\ ~SelfLockout(op, actor, who, admin)
    /\ Begin(p, [Idle EXCEPT !.op = op, !.actor = actor, !.who = who, !.admin = admin])

Enabled(R) == {r \in R \cap roles : AppOf[r] \in enabled}

SetRoles(p, actor, who, R) ==
    /\ Asks(actor) /\ members[who].row
    /\ Enabled(R) = R
    /\ Begin(p, [Idle EXCEPT !.op = "setRoles", !.actor = actor, !.who = who, !.roles = R])

-----------------------------------------------------------------------------
(* invites.service.ts: checks.                                              *)

Unused == {i \in Invites : invites[i].state = "none"}
HasInvite == Cardinality({p \in Procs : procs[p].op \in {"clear", "invite"}}) < Cardinality(Unused)

CreateInvite(p, actor, who, admin, R) ==
    /\ HasInvite
    /\ Asks(actor) /\ ~members[who].row
    /\ Enabled(R) = R
    /\ Begin(p, [Idle EXCEPT !.op = "clear", !.actor = actor, !.who = who, !.admin = admin, !.roles = R])

\* Mutant of Replaced: invites accumulate.
NoneReplaced(who) == {}

\* deleteMany: a new invite kills the open ones of its address.
Replaced(who) == {i \in Invites : invites[i].state = "open" /\ invites[i].who = who}

ClearInvites(p) ==
    /\ procs[p].op = "clear"
    /\ LET dead == Replaced(procs[p].who) IN
       /\ invites' = [i \in Invites |-> IF i \in dead THEN [invites[i] EXCEPT !.state = "gone"] ELSE invites[i]]
       /\ procs' = [(IF dead = {} THEN procs ELSE Racing(procs)) EXCEPT
                        ![p] = [procs[p] EXCEPT !.op = "invite"]]
    /\ UNCHANGED <<tenant, apps, enabled, roles, members, claims, locked, erased, ops>>

\* resend and revoke find the invite, and that nobody accepted it.
Touch(p, op, actor, i) ==
    /\ Asks(actor)
    /\ invites[i].state = "open"
    /\ Begin(p, [Idle EXCEPT !.op = op, !.actor = actor, !.inv = i])

\* What accept asks of the invite it finds by the token, and of the tenant.
Acceptable(i) == invites[i].state = "open" /\ ~invites[i].expired /\ tenant = "usable"

\* Mutant of StillEnabled: the roles are granted as they were offered.
AsOffered(R) == R \cap roles
StillEnabled(R) == Enabled(R)

\* accept, with the token whose hash is stored.  The roles still enabled are
\* read here.
Accept(p, i) ==
    /\ Acceptable(i)
    /\ ~members[invites[i].who].row
    /\ Begin(p, [Idle EXCEPT !.op = "accept", !.who = invites[i].who, !.inv = i,
                             !.admin = invites[i].admin, !.roles = StillEnabled(invites[i].roles)])

-----------------------------------------------------------------------------
(* Writes.                                                                  *)

\* Mutant of Refused: accept does not look at the invite again.
RefusedButAccept(r) ==
    CASE r.op = "create" -> members[r.who].row \/ tenant = "purged"
      [] r.op = "accept" -> members[r.who].row \/ tenant = "purged" \/ ~(r.roles \subseteq roles)
      [] r.op \in {"update", "deactivate", "restore"} -> ~members[r.who].row
      [] r.op = "setRoles" -> ~members[r.who].row \/ ~(r.roles \subseteq roles)
      [] r.op = "invite" -> tenant = "purged"
      [] OTHER -> invites[r.inv].state = "gone"

\* The database refuses a second row for an address, a row or a role that is
\* gone, and an update or a deletion by id of what is gone.  accept updates
\* its invite by id in its transaction, whatever acceptedAt says by then.
Refused(r) ==
    CASE r.op = "create" -> members[r.who].row \/ tenant = "purged"
      [] r.op = "accept" -> \/ members[r.who].row \/ tenant = "purged" \/ ~(r.roles \subseteq roles)
                            \/ invites[r.inv].state = "gone"
      [] r.op \in {"update", "deactivate", "restore"} -> ~members[r.who].row
      [] r.op = "setRoles" -> ~members[r.who].row \/ ~(r.roles \subseteq roles)
      [] r.op = "invite" -> tenant = "purged"
      [] OTHER -> invites[r.inv].state = "gone"

\* What the request leaves of its member and of its invite.
MemberAfter(m, r) ==
    CASE r.op = "create" -> [NoMember EXCEPT !.row = TRUE, !.admin = r.admin]
      [] r.op = "accept" -> [row |-> TRUE, deleted |-> FALSE, admin |-> r.admin, roles |-> r.roles, by |-> r.inv]
      [] r.op = "update" -> [m EXCEPT !.admin = r.admin]
      [] r.op = "deactivate" -> [m EXCEPT !.deleted = TRUE]
      [] r.op = "restore" -> [m EXCEPT !.deleted = FALSE]
      [] r.op = "setRoles" -> [m EXCEPT !.roles = r.roles]
      [] OTHER -> m

NewInvite(r) == [state |-> "open", who |-> r.who, roles |-> r.roles, admin |-> r.admin,
                 expired |-> FALSE, late |-> r.raced]

\* Mutant of InviteAfter: accept leaves the invite as it is.
InviteNotSpent(v, r) ==
    CASE r.op = "resend" -> [v EXCEPT !.expired = FALSE]
      [] r.op = "revoke" -> [v EXCEPT !.state = "gone"]
      [] r.op = "invite" -> NewInvite(r)
      [] OTHER -> v
InviteAfter(v, r) ==
    CASE r.op = "accept" -> [v EXCEPT !.state = "accepted"]
      [] r.op = "resend" -> [v EXCEPT !.expired = FALSE]
      [] r.op = "revoke" -> [v EXCEPT !.state = "gone"]
      [] r.op = "invite" -> NewInvite(r)
      [] OTHER -> v

\* Somebody who is not an administrator when the write happens: two of them
\* removed each other, or one goes by an old token.
Outdated(r) == r.op \in {"update", "deactivate"} /\ ~(Usable(r.actor) /\ members[r.actor].admin)

Write(p) ==
    /\ procs[p].op \notin {"idle", "clear"}
    /\ LET r == procs[p] IN
       IF Refused(r)
       THEN Finish(p) /\ UNCHANGED <<members, invites, locked>>
       ELSE /\ members' = [u \in People |-> IF u = r.who THEN MemberAfter(members[u], r) ELSE members[u]]
            /\ \E i \in IF r.op = "invite" THEN Unused ELSE {r.inv} :
                  invites' = [j \in Invites |-> IF j = i THEN InviteAfter(invites[j], r) ELSE invites[j]]
            /\ locked' = (locked \/ Outdated(r))
            /\ Commit(p)
    /\ UNCHANGED <<tenant, apps, enabled, roles, claims, erased, ops>>

-----------------------------------------------------------------------------
(* The console, and time.                                                   *)

\* suspend, activate, remove, restore.
SetTenant(t) ==
    /\ Count /\ tenant \notin {t, "purged"}
    /\ tenant' = t
    /\ procs' = Racing(procs)
    /\ UNCHANGED <<apps, enabled, roles, members, claims, invites, locked, erased>>

\* The purge of a deleted tenant takes the invites and the members with it.
PurgeTenant ==
    /\ Count /\ tenant = "deleted"
    /\ tenant' = "purged"
    /\ members' = [u \in People |-> NoMember]
    /\ invites' = [i \in Invites |-> IF invites[i].state = "none" THEN invites[i]
                                     ELSE [invites[i] EXCEPT !.state = "gone"]]
    /\ enabled' = {}
    /\ procs' = Racing(procs)
    /\ UNCHANGED <<apps, roles, claims, locked, erased>>

\* users.service.ts, purge: a deactivated account goes for good.
PurgeMember(u) ==
    /\ Count /\ members[u].row /\ members[u].deleted
    /\ members' = [members EXCEPT ![u] = NoMember]
    /\ erased' = erased \cup {u}
    /\ procs' = Racing(procs)
    /\ UNCHANGED <<tenant, apps, enabled, roles, claims, invites, locked>>

\* setAppAccess makes the row, removeAppAccess deletes it; the roles of the
\* members stay.
SetAppAccess(a) ==
    /\ Count /\ tenant # "purged" /\ apps[a] # "purged"
    /\ enabled' = IF a \in enabled THEN enabled \ {a} ELSE enabled \cup {a}
    /\ procs' = Racing(procs)
    /\ UNCHANGED <<tenant, apps, roles, members, claims, invites, locked, erased>>

Without(R) == [u \in People |-> [members[u] EXCEPT !.roles = @ \ R]]

AddRole(r) ==
    /\ Count /\ r \notin roles /\ apps[AppOf[r]] # "purged"
    /\ roles' = roles \cup {r}
    /\ UNCHANGED <<tenant, apps, enabled, members, claims, invites, procs, locked, erased>>

\* Every assignment of the role is removed with it.
RemoveRole(r) ==
    /\ Count /\ r \in roles
    /\ roles' = roles \ {r}
    /\ members' = Without({r})
    /\ procs' = Racing(procs)
    /\ UNCHANGED <<tenant, apps, enabled, claims, invites, locked, erased>>

\* users.service.ts, setRoles: the console assigns any role there is, also one
\* of an app that is not enabled for the workspace.
AssignRoles(u, R) ==
    /\ Count /\ members[u].row /\ R \subseteq roles /\ R # members[u].roles
    /\ members' = [members EXCEPT ![u].roles = R]
    /\ UNCHANGED <<tenant, apps, enabled, roles, claims, invites, procs, locked, erased>>

\* remove and restore of an app.
RemoveApp(a) ==
    /\ Count /\ apps[a] # "purged"
    /\ apps' = [apps EXCEPT ![a] = IF @ = "present" THEN "deleted" ELSE "present"]
    /\ UNCHANGED <<tenant, enabled, roles, members, claims, invites, procs, locked, erased>>

\* The purge of a deleted app takes its roles, their assignments and its
\* AppTenant rows with it.
PurgeApp(a) ==
    /\ Count /\ apps[a] = "deleted"
    /\ apps' = [apps EXCEPT ![a] = "purged"]
    /\ LET R == {r \in Roles : AppOf[r] = a} IN roles' = roles \ R /\ members' = Without(R)
    /\ enabled' = enabled \ {a}
    /\ procs' = Racing(procs)
    /\ UNCHANGED <<tenant, claims, invites, locked, erased>>

InviteExpires(i) ==
    /\ invites[i].state = "open" /\ ~invites[i].expired
    /\ invites' = [invites EXCEPT ![i].expired = TRUE]
    /\ procs' = Racing(procs)
    /\ UNCHANGED <<tenant, apps, enabled, roles, members, claims, locked, erased, ops>>

-----------------------------------------------------------------------------
Request(p) ==
    \/ \E actor \in claims, who \in People, admin \in BOOLEAN :
          \/ Create(p, actor, who, admin)
          \/ Change(p, "update", actor, who, admin)
          \/ \E R \in SUBSET Roles : CreateInvite(p, actor, who, admin, R)
    \/ \E actor \in claims, who \in People :
          \/ \E op \in {"deactivate", "restore"} : Change(p, op, actor, who, FALSE)
          \/ \E R \in SUBSET Roles : SetRoles(p, actor, who, R)
    \/ \E actor \in claims, i \in Invites, op \in {"resend", "revoke"} : Touch(p, op, actor, i)
    \/ \E i \in Invites : Accept(p, i)

Console ==
    \/ \E t \in {"usable", "suspended", "deleted"} : SetTenant(t)
    \/ PurgeTenant
    \/ \E u \in People : PurgeMember(u) \/ \E R \in SUBSET Roles : AssignRoles(u, R)
    \/ \E a \in Apps : SetAppAccess(a) \/ RemoveApp(a) \/ PurgeApp(a)
    \/ \E r \in Roles : AddRole(r) \/ RemoveRole(r)

Next ==
    \/ \E u \in People : SignIn(u) \/ TokenExpires(u)
    \/ \E p \in Procs : Request(p) \/ ClearInvites(p) \/ Write(p)
    \/ \E i \in Invites : InviteExpires(i)
    \/ Console

Spec == Init /\ [][Next]_vars

-----------------------------------------------------------------------------
(* Properties.                                                              *)

\* The workspace keeps an administrator who can sign in: the operations of its
\* own members page never lock everyone out, unless a removal was committed by
\* somebody who had been removed meanwhile, by an overlapping request or an old
\* token (tenant.service.ts:131-176).  What a platform admin may do to a user
\* from the console (users.service.ts) is not among them.
AnAdministratorRemains ==
    tenant # "purged" /\ ~locked => \E u \in People : Usable(u) /\ members[u].admin

\* Every state is well typed, and an administrator remains.
WorkspaceInv == TypeOK /\ AnAdministratorRemains

\* Nobody joins by an invite that was revoked or replaced, however the
\* acceptance and the revocation interleave (invites.service.ts:160-217).
RevokedInvitesBringNobody ==
    [][\A u \in People :
          (~members[u].row /\ members'[u].row /\ members'[u].by # NoInvite)
          => invites[members'[u].by].state # "gone"]_vars

\* An invite brings one account: two acceptances of one link, or a link and a
\* member created by hand, end in one row and the invite is spent, unless
\* that account was purged while the second acceptance was under way.
OneAccountPerInvite ==
    [][\A u \in People :
          (~members[u].row /\ members'[u].row /\ members'[u].by # NoInvite)
          => /\ invites[members'[u].by].state = "open" \/ u \in erased
             /\ invites'[members'[u].by].state = "accepted"]_vars

\* At most one invite of an address is open, unless two were created at the
\* same time (invites.service.ts:115).
OneOpenInvite ==
    \A i, j \in Invites :
        (i # j /\ invites[i].state = "open" /\ invites[j].state = "open" /\ invites[i].who = invites[j].who)
        => invites[i].late \/ invites[j].late

\* A role is granted, by an administrator or by an invite, only while its app
\* is enabled for the workspace, and an invite admits only to a workspace in
\* use: unless that changed while the request was under way
\* (invites.service.ts:93-107, 181; tenant.service.ts:193-211).
GrantsAreCurrent ==
    [][\A p \in Procs :
          (procs[p].op \in {"accept", "setRoles"} /\ procs'[p].op = "idle" /\ ~procs[p].raced /\ ~Refused(procs[p]))
          => /\ \A u \in People : members'[u].roles \ members[u].roles \subseteq Enabled(Roles)
             /\ procs[p].op = "accept" => tenant = "usable"]_vars
=============================================================================
