---------------------------- MODULE WorkspaceProofs ----------------------------
(***************************************************************************)
(* Proofs about module Workspace, for any people, apps, roles, invites and *)
(* requests in flight, and any bound.                                      *)
(***************************************************************************)
EXTENDS Workspace, TLAPS

-----------------------------------------------------------------------------
(* The inductive invariant.                                                 *)

\* What a request that passed its checks knows of its actor and its target.
Checked ==
    \A p \in Procs :
        LET r == procs[p] IN
        /\ r.op \notin {"idle", "resend", "revoke"} => r.who \in People
        /\ r.op \in {"update", "deactivate"} =>
              /\ r.actor \in People
              /\ ~SelfLockout(r.op, r.actor, r.who, r.admin)
        /\ r.op = "accept" =>
              /\ r.inv \in Invites /\ invites[r.inv].state # "none"
              /\ r.who = invites[r.inv].who
        /\ r.op \notin {"accept", "resend", "revoke"} => r.inv = NoInvite

\* What nobody disturbed is still as the checks found it.
Undisturbed ==
    \A p \in Procs :
        LET r == procs[p] IN
        ~r.raced =>
        /\ r.op \in {"accept", "setRoles"} => r.roles \subseteq Enabled(Roles)
        /\ r.op = "accept" => tenant = "usable"
        /\ r.op = "invite" => \A i \in Invites : invites[i].state = "open" => invites[i].who # r.who

\* An invite that was accepted brought somebody.
SpentInvites ==
    \A i \in Invites :
        /\ invites[i].state = "open" => invites[i].who \in People
        /\ invites[i].state = "accepted" => /\ invites[i].who \in People
                                            /\ members[invites[i].who].row \/ invites[i].who \in erased

IInv ==
    /\ TypeOK
    /\ AnAdministratorRemains
    /\ OneOpenInvite
    /\ Checked
    /\ Undisturbed
    /\ SpentInvites

-----------------------------------------------------------------------------
(* Types.                                                                   *)

(* The absent values are of the types of what they stand in for.            *)
LEMMA NoneTypes ==
    NoMember \in Member /\ NoSuchInvite \in Invite /\ Idle \in Proc
  BY DEF NoMember, Member, NoSuchInvite, Invite, Idle, Proc, Op

(* Marking the requests in flight as raced changes nothing else of them.    *)
LEMMA RacingEffect ==
    ASSUME NEW P \in [Procs -> Proc]
    PROVE  /\ Racing(P) \in [Procs -> Proc]
           /\ \A q \in Procs :
                /\ Racing(P)[q].op = P[q].op /\ Racing(P)[q].actor = P[q].actor
                /\ Racing(P)[q].who = P[q].who /\ Racing(P)[q].inv = P[q].inv
                /\ Racing(P)[q].admin = P[q].admin /\ Racing(P)[q].roles = P[q].roles
                /\ P[q].op # "idle" \/ P[q].raced => Racing(P)[q].raced
  BY DEF Racing, Proc

(* Every request begins as a record whose checks hold in the state they were *)
(* made in.                                                                  *)
LEMMA RequestBegins ==
    ASSUME TypeOK, SpentInvites, NEW p \in Procs, Request(p)
    PROVE  \E r \in Proc :
              /\ Begin(p, r)
              /\ ~r.raced /\ r.op \notin {"idle", "invite"}
              /\ r.op \notin {"resend", "revoke"} => r.who \in People
              /\ r.op \in {"update", "deactivate"} =>
                    /\ r.actor \in People
                    /\ ~SelfLockout(r.op, r.actor, r.who, r.admin)
              /\ r.op = "accept" =>
                    /\ r.inv \in Invites /\ invites[r.inv].state # "none"
                    /\ r.who = invites[r.inv].who /\ tenant = "usable"
              /\ r.op \notin {"accept", "resend", "revoke"} => r.inv = NoInvite
              /\ r.op \in {"accept", "setRoles"} => r.roles \subseteq Enabled(Roles)
<1> DEFINE Good(r) ==
              /\ Begin(p, r)
              /\ ~r.raced /\ r.op \notin {"idle", "invite"}
              /\ r.op \notin {"resend", "revoke"} => r.who \in People
              /\ r.op \in {"update", "deactivate"} =>
                    /\ r.actor \in People
                    /\ ~SelfLockout(r.op, r.actor, r.who, r.admin)
              /\ r.op = "accept" =>
                    /\ r.inv \in Invites /\ invites[r.inv].state # "none"
                    /\ r.who = invites[r.inv].who /\ tenant = "usable"
              /\ r.op \notin {"accept", "resend", "revoke"} => r.inv = NoInvite
              /\ r.op \in {"accept", "setRoles"} => r.roles \subseteq Enabled(Roles)
<1>1. ASSUME NEW actor \in claims, NEW who \in People, NEW admin \in BOOLEAN, Create(p, actor, who, admin)
      PROVE  \E r \in Proc : Good(r)
  <2> DEFINE r == [Idle EXCEPT !.op = "create", !.actor = actor, !.who = who, !.admin = admin]
  <2>1. r \in Proc /\ ~r.raced /\ r.op = "create" /\ r.who = who /\ r.inv = NoInvite
    BY <1>1 DEF Idle, Proc, Op, TypeOK
  <2>2. Begin(p, r)
    BY <1>1 DEF Create
  <2> HIDE DEF r
  <2>3. QED BY <2>1, <2>2
<1>2. ASSUME NEW op \in {"update", "deactivate", "restore"}, NEW actor \in claims, NEW who \in People,
             NEW admin \in BOOLEAN, Change(p, op, actor, who, admin)
      PROVE  \E r \in Proc : Good(r)
  <2> DEFINE r == [Idle EXCEPT !.op = op, !.actor = actor, !.who = who, !.admin = admin]
  <2>1. r \in Proc /\ ~r.raced /\ r.op = op /\ r.who = who /\ r.actor = actor /\ r.inv = NoInvite /\ r.admin = admin
    BY <1>2 DEF Idle, Proc, Op, TypeOK
  <2>2. Begin(p, r) /\ ~SelfLockout(op, actor, who, admin) /\ actor \in People
    BY <1>2 DEF Change, TypeOK
  <2> HIDE DEF r
  <2>3. QED BY <2>1, <2>2
<1>3. ASSUME NEW actor \in claims, NEW who \in People, NEW R \in SUBSET Roles, SetRoles(p, actor, who, R)
      PROVE  \E r \in Proc : Good(r)
  <2> DEFINE r == [Idle EXCEPT !.op = "setRoles", !.actor = actor, !.who = who, !.roles = R]
  <2>1. r \in Proc /\ ~r.raced /\ r.op = "setRoles" /\ r.who = who /\ r.inv = NoInvite /\ r.roles = R
    BY <1>3 DEF Idle, Proc, Op, TypeOK
  <2>2. Begin(p, r) /\ R \subseteq Enabled(Roles)
    BY <1>3 DEF SetRoles, Enabled
  <2> HIDE DEF r
  <2>3. QED BY <2>1, <2>2
<1>4. ASSUME NEW actor \in claims, NEW who \in People, NEW admin \in BOOLEAN, NEW R \in SUBSET Roles,
             CreateInvite(p, actor, who, admin, R)
      PROVE  \E r \in Proc : Good(r)
  <2> DEFINE r == [Idle EXCEPT !.op = "clear", !.actor = actor, !.who = who, !.admin = admin, !.roles = R]
  <2>1. r \in Proc /\ ~r.raced /\ r.op = "clear" /\ r.who = who /\ r.inv = NoInvite
    BY <1>4 DEF Idle, Proc, Op, TypeOK
  <2>2. Begin(p, r)
    BY <1>4 DEF CreateInvite
  <2> HIDE DEF r
  <2>3. QED BY <2>1, <2>2
<1>5. ASSUME NEW op \in {"resend", "revoke"}, NEW actor \in claims, NEW i \in Invites, Touch(p, op, actor, i)
      PROVE  \E r \in Proc : Good(r)
  <2> DEFINE r == [Idle EXCEPT !.op = op, !.actor = actor, !.inv = i]
  <2>1. r \in Proc /\ ~r.raced /\ r.op = op
    BY <1>5 DEF Idle, Proc, Op, TypeOK
  <2>2. Begin(p, r)
    BY <1>5 DEF Touch
  <2> HIDE DEF r
  <2>3. QED BY <2>1, <2>2
<1>6. ASSUME NEW i \in Invites, Accept(p, i)
      PROVE  \E r \in Proc : Good(r)
  <2> DEFINE R == Enabled(invites[i].roles)
             r == [Idle EXCEPT !.op = "accept", !.who = invites[i].who, !.inv = i,
                               !.admin = invites[i].admin, !.roles = R]
  <2>1. invites[i] \in Invite /\ invites[i].state = "open" /\ tenant = "usable"
    BY <1>6 DEF Accept, Acceptable, TypeOK
  <2>2. invites[i].who \in People
    BY <2>1 DEF SpentInvites
  <2>3. R \subseteq Enabled(Roles) /\ R \in SUBSET Roles
    BY <2>1 DEF Enabled, Invite
  <2>4. invites[i].admin \in BOOLEAN
    BY <2>1 DEF Invite
  <2>5. Begin(p, r)
    BY <1>6 DEF Accept, StillEnabled
  <2> HIDE DEF R
  <2>6. /\ r \in Proc /\ ~r.raced /\ r.op = "accept" /\ r.who = invites[i].who /\ r.inv = i /\ r.roles = R
    BY <2>2, <2>3, <2>4 DEF Idle, Proc, Op
  <2> HIDE DEF r
  <2>7. QED BY <2>1, <2>2, <2>3, <2>5, <2>6
<1>7. QED
  BY <1>1, <1>2, <1>3, <1>4, <1>5, <1>6 DEF Request

(* What a request leaves of its member and of its invite is well typed.     *)
LEMMA AfterTypes ==
    ASSUME NEW r \in Proc, NEW m \in Member, NEW v \in Invite
    PROVE  MemberAfter(m, r) \in Member /\ InviteAfter(v, r) \in Invite
<1>1. /\ r.admin \in BOOLEAN /\ r.roles \in SUBSET Roles /\ r.inv \in Invites \cup {NoInvite}
      /\ r.raced \in BOOLEAN /\ r.who \in People \cup {Nobody}
  BY DEF Proc
<1>2. MemberAfter(m, r) \in Member
  <2>1. [NoMember EXCEPT !.row = TRUE, !.admin = r.admin] \in Member
    BY <1>1, NoneTypes DEF Member
  <2>2. [row |-> TRUE, deleted |-> FALSE, admin |-> r.admin, roles |-> r.roles, by |-> r.inv] \in Member
    BY <1>1 DEF Member
  <2>3. /\ [m EXCEPT !.admin = r.admin] \in Member /\ [m EXCEPT !.deleted = TRUE] \in Member
        /\ [m EXCEPT !.deleted = FALSE] \in Member /\ [m EXCEPT !.roles = r.roles] \in Member
    BY <1>1 DEF Member
  <2>4. QED BY <2>1, <2>2, <2>3 DEF MemberAfter
<1>3. InviteAfter(v, r) \in Invite
  <2>1. NewInvite(r) \in Invite
    BY <1>1 DEF NewInvite, Invite
  <2>2. /\ [v EXCEPT !.state = "accepted"] \in Invite /\ [v EXCEPT !.expired = FALSE] \in Invite
        /\ [v EXCEPT !.state = "gone"] \in Invite
    BY DEF Invite
  <2>3. QED BY <2>1, <2>2 DEF InviteAfter
<1>4. QED BY <1>2, <1>3

(* A new request in a slot, and a slot that becomes idle, keep the type.     *)
LEMMA SlotTypes ==
    ASSUME TypeOK, NEW p \in Procs, NEW r \in Proc
    PROVE  /\ [procs EXCEPT ![p] = r] \in [Procs -> Proc]
           /\ Racing(procs) \in [Procs -> Proc]
           /\ [(Racing(procs)) EXCEPT ![p] = r] \in [Procs -> Proc]
           /\ Racing([procs EXCEPT ![p] = r]) \in [Procs -> Proc]
  BY RacingEffect DEF TypeOK

(* The statement a request ends with, when the database does not refuse it.  *)
LEMMA WriteEffect ==
    ASSUME NEW p \in Procs, Write(p), ~Refused(procs[p])
    PROVE  /\ members' = [u \in People |-> IF u = procs[p].who THEN MemberAfter(members[u], procs[p])
                                           ELSE members[u]]
           /\ \E i \in IF procs[p].op = "invite" THEN Unused ELSE {procs[p].inv} :
                 invites' = [j \in Invites |-> IF j = i THEN InviteAfter(invites[j], procs[p]) ELSE invites[j]]
           /\ locked' = (locked \/ Outdated(procs[p]))
           /\ procs' = Racing([procs EXCEPT ![p] = Idle])
           /\ procs[p].op \notin {"idle", "clear"}
           /\ UNCHANGED <<tenant, apps, enabled, roles, claims, erased, ops>>
  BY Zenon DEF Write, Commit

(* Every step keeps the types.                                               *)
LEMMA TypeStep ==
    ASSUME TypeOK, SpentInvites, [Next]_vars
    PROVE  TypeOK'
<1>0. procs \in [Procs -> Proc] /\ Idle \in Proc /\ NoMember \in Member
  BY NoneTypes DEF TypeOK
<1>0a. Racing(procs) \in [Procs -> Proc]
  BY <1>0, RacingEffect
<1>1. ASSUME NEW u \in People, SignIn(u) \/ TokenExpires(u) PROVE TypeOK'
  BY <1>1 DEF SignIn, TokenExpires, TypeOK
<1>2. ASSUME NEW p \in Procs, Request(p) PROVE TypeOK'
  <2>1. PICK r \in Proc : Begin(p, r)
    BY <1>2, RequestBegins
  <2>2. ops' \in 0..MaxOps
    BY <2>1, WorkspaceAssumption DEF Begin, Count, TypeOK
  <2>3. QED BY <2>1, <2>2, SlotTypes DEF Begin, TypeOK
<1>3. ASSUME NEW p \in Procs, ClearInvites(p) PROVE TypeOK'
  <2> DEFINE dead == Replaced(procs[p].who)
             r == [procs[p] EXCEPT !.op = "invite"]
  <2>1. r \in Proc
    BY <1>0 DEF Proc, Op
  <2>2. procs' = [(IF dead = {} THEN procs ELSE Racing(procs)) EXCEPT ![p] = r]
    BY <1>3 DEF ClearInvites
  <2>3. procs' \in [Procs -> Proc]
    BY <2>1, <2>2, SlotTypes
  <2>4. invites' \in [Invites -> Invite]
    <3>1. invites' = [i \in Invites |-> IF i \in dead THEN [invites[i] EXCEPT !.state = "gone"] ELSE invites[i]]
      BY <1>3 DEF ClearInvites
    <3>2. \A i \in Invites : invites[i] \in Invite /\ [invites[i] EXCEPT !.state = "gone"] \in Invite
      BY DEF TypeOK, Invite
    <3> HIDE DEF dead
    <3>3. QED BY <3>1, <3>2
  <2>5. QED BY <1>3, <2>3, <2>4 DEF ClearInvites, TypeOK
<1>4. ASSUME NEW p \in Procs, Write(p) PROVE TypeOK'
  <2>1. CASE Refused(procs[p])
    BY <1>4, <2>1, <1>0, SlotTypes DEF Write, Finish, TypeOK
  <2>2. CASE ~Refused(procs[p])
    <3> DEFINE r == procs[p]
    <3>0. r \in Proc
      BY <1>0
    <3>1. members' \in [People -> Member]
      <4>1. members' = [u \in People |-> IF u = r.who THEN MemberAfter(members[u], r) ELSE members[u]]
        BY <1>4, <2>2, WriteEffect
      <4>2. \A u \in People : members[u] \in Member
        BY DEF TypeOK
      <4>3. \A u \in People : MemberAfter(members[u], r) \in Member
        BY <4>2, <3>0, <1>0, AfterTypes, NoneTypes
      <4> HIDE DEF r
      <4>4. QED BY <4>1, <4>2, <4>3
    <3>2. invites' \in [Invites -> Invite]
      <4>1. PICK i \in IF r.op = "invite" THEN Unused ELSE {r.inv} :
                invites' = [j \in Invites |-> IF j = i THEN InviteAfter(invites[j], r) ELSE invites[j]]
        BY <1>4, <2>2, WriteEffect, Zenon
      <4>2. \A j \in Invites : invites[j] \in Invite
        BY DEF TypeOK
      <4>3. \A j \in Invites : InviteAfter(invites[j], r) \in Invite
        BY <4>2, <3>0, AfterTypes, NoneTypes
      <4> HIDE DEF r
      <4>4. QED BY <4>1, <4>2, <4>3
    <3>3. procs' \in [Procs -> Proc]
      <4>1. procs' = Racing([procs EXCEPT ![p] = Idle])
        BY <1>4, <2>2, WriteEffect, Zenon
      <4>2. [procs EXCEPT ![p] = Idle] \in [Procs -> Proc]
        BY <1>0
      <4>3. QED BY <4>1, <4>2, RacingEffect
    <3>4. locked' \in BOOLEAN
      BY <1>4, <2>2, WriteEffect DEF TypeOK, Outdated
    <3>5. UNCHANGED <<tenant, apps, enabled, roles, claims, erased, ops>>
      BY <1>4 DEF Write
    <3>6. QED BY <3>1, <3>2, <3>3, <3>4, <3>5 DEF TypeOK
  <2>3. QED BY <2>1, <2>2
<1>5. ASSUME NEW i \in Invites, InviteExpires(i) PROVE TypeOK'
  <2>1. [invites EXCEPT ![i].expired = TRUE] \in [Invites -> Invite]
    BY DEF TypeOK, Invite
  <2>2. QED BY <1>5, <2>1, <1>0a DEF InviteExpires, TypeOK
<1>6. ASSUME NEW t \in {"usable", "suspended", "deleted"}, SetTenant(t) PROVE TypeOK'
  BY <1>6, <1>0a, WorkspaceAssumption DEF SetTenant, Count, TypeOK
<1>7. ASSUME PurgeTenant PROVE TypeOK'
  <2>1. invites' \in [Invites -> Invite]
    BY <1>7 DEF PurgeTenant, TypeOK, Invite
  <2>2. members' \in [People -> Member]
    BY <1>7, <1>0 DEF PurgeTenant
  <2>3. QED BY <1>7, <2>1, <2>2, <1>0a, WorkspaceAssumption DEF PurgeTenant, Count, TypeOK
<1>8. ASSUME NEW u \in People, PurgeMember(u) PROVE TypeOK'
  BY <1>8, <1>0, <1>0a, WorkspaceAssumption DEF PurgeMember, Count, TypeOK
<1>9. ASSUME NEW a \in Apps, SetAppAccess(a) PROVE TypeOK'
  BY <1>9, <1>0a, WorkspaceAssumption DEF SetAppAccess, Count, TypeOK
<1>10. ASSUME NEW a \in Apps, RemoveApp(a) PROVE TypeOK'
  BY <1>10, WorkspaceAssumption DEF RemoveApp, Count, TypeOK
<1>11. \A R : Without(R) \in [People -> Member]
  BY DEF TypeOK, Without, Member
<1>12. ASSUME NEW a \in Apps, PurgeApp(a) PROVE TypeOK'
  BY <1>12, <1>11, <1>0a, WorkspaceAssumption DEF PurgeApp, Count, TypeOK
<1>13. ASSUME NEW r \in Roles, AddRole(r) PROVE TypeOK'
  BY <1>13, WorkspaceAssumption DEF AddRole, Count, TypeOK
<1>14. ASSUME NEW r \in Roles, RemoveRole(r) PROVE TypeOK'
  BY <1>14, <1>11, <1>0a, WorkspaceAssumption DEF RemoveRole, Count, TypeOK
<1>15. CASE UNCHANGED vars
  BY <1>15 DEF vars, TypeOK
<1>16. ASSUME NEW u \in People, NEW R \in SUBSET Roles, AssignRoles(u, R) PROVE TypeOK'
  <2>1. [members EXCEPT ![u].roles = R] \in [People -> Member]
    BY DEF TypeOK, Member
  <2>2. QED BY <1>16, <2>1, WorkspaceAssumption DEF AssignRoles, Count, TypeOK
<1>17. QED
  BY <1>1, <1>2, <1>3, <1>4, <1>5, <1>6, <1>7, <1>8, <1>9, <1>10, <1>12, <1>13, <1>14, <1>15, <1>16
     DEF Next, Console

-----------------------------------------------------------------------------
(* What a step does to a request and to an invite.                           *)

\* The request of slot q goes on as it was, and if it is undisturbed, nothing
\* it relies on got worse.
Kept(q) ==
    /\ procs'[q].op = procs[q].op /\ procs'[q].actor = procs[q].actor
    /\ procs'[q].who = procs[q].who /\ procs'[q].inv = procs[q].inv
    /\ procs'[q].admin = procs[q].admin /\ procs'[q].roles = procs[q].roles
    /\ procs[q].raced => procs'[q].raced
    /\ (procs[q].op # "idle" /\ ~procs'[q].raced) =>
          /\ tenant' = tenant
          /\ Enabled(Roles) \subseteq Enabled(Roles)'
          /\ \A i \in Invites : invites'[i].state = "open" =>
                 invites[i].state = "open" /\ invites'[i].who = invites[i].who

\* The request of slot q has replaced the invites of its address.
Cleared(q) ==
    /\ procs[q].op = "clear" /\ procs'[q].op = "invite"
    /\ procs'[q].who = procs[q].who /\ procs'[q].inv = procs[q].inv
    /\ \A i \in Invites : invites'[i].state = "open" => invites'[i].who # procs[q].who

\* The request of slot q has begun.
Begun(q) ==
    LET r == procs'[q] IN
    /\ UNCHANGED <<tenant, apps, enabled, roles, members, claims, invites, locked, erased>>
    /\ ~r.raced /\ r.op \notin {"idle", "invite"}
    /\ r.op \notin {"resend", "revoke"} => r.who \in People
    /\ r.op \in {"update", "deactivate"} =>
          /\ r.actor \in People
          /\ ~SelfLockout(r.op, r.actor, r.who, r.admin)
    /\ r.op = "accept" =>
          /\ r.inv \in Invites /\ invites[r.inv].state # "none"
          /\ r.who = invites[r.inv].who /\ tenant = "usable"
    /\ r.op \notin {"accept", "resend", "revoke"} => r.inv = NoInvite
    /\ r.op \in {"accept", "setRoles"} => r.roles \subseteq Enabled(Roles)

(* A step that marks a request as raced keeps it.                            *)
LEMMA RacingKeeps ==
    ASSUME NEW P \in [Procs -> Proc], NEW q \in Procs, P[q] = procs[q], procs'[q] = Racing(P)[q]
    PROVE  Kept(q)
  BY RacingEffect DEF Kept

(* A request in flight ends, goes on, or advances in every step.             *)
LEMMA ProcStep ==
    ASSUME TypeOK, SpentInvites, [Next]_vars, NEW q \in Procs
    PROVE  procs'[q] = Idle \/ Kept(q) \/ Cleared(q) \/ Begun(q)
<1> DEFINE Goal == procs'[q] = Idle \/ Kept(q) \/ Cleared(q) \/ Begun(q)
<1>0. procs \in [Procs -> Proc] /\ procs[q] \in Proc
  BY DEF TypeOK
<1>a. ASSUME procs'[q] = procs[q], UNCHANGED <<tenant, invites, enabled>>, roles \subseteq roles'
      PROVE  Kept(q)
  BY <1>a DEF Kept, Enabled
<1>1. ASSUME NEW u \in People, SignIn(u) \/ TokenExpires(u) PROVE Goal
  BY <1>1, <1>a DEF SignIn, TokenExpires
<1>2. ASSUME NEW p \in Procs, Request(p) PROVE Goal
  <2>1. PICK r \in Proc :
              /\ Begin(p, r)
              /\ ~r.raced /\ r.op \notin {"idle", "invite"}
              /\ r.op \notin {"resend", "revoke"} => r.who \in People
              /\ r.op \in {"update", "deactivate"} =>
                    /\ r.actor \in People
                    /\ ~SelfLockout(r.op, r.actor, r.who, r.admin)
              /\ r.op = "accept" =>
                    /\ r.inv \in Invites /\ invites[r.inv].state # "none"
                    /\ r.who = invites[r.inv].who /\ tenant = "usable"
              /\ r.op \notin {"accept", "resend", "revoke"} => r.inv = NoInvite
              /\ r.op \in {"accept", "setRoles"} => r.roles \subseteq Enabled(Roles)
    BY <1>2, RequestBegins
  <2>2. procs' = [procs EXCEPT ![p] = r]
        /\ UNCHANGED <<tenant, apps, enabled, roles, members, claims, invites, locked, erased>>
    BY <2>1 DEF Begin
  <2>3. CASE q = p
    <3>1. procs'[q] = r
      BY <2>2, <2>3, <1>0
    <3>2. Begun(q)
      BY <2>1, <2>2, <3>1 DEF Begun
    <3>3. QED BY <3>2
  <2>4. CASE q # p
    BY <2>2, <2>4, <1>0, <1>a
  <2>5. QED BY <2>3, <2>4
<1>3. ASSUME NEW p \in Procs, ClearInvites(p) PROVE Goal
  <2> DEFINE dead == Replaced(procs[p].who)
  <2>1. /\ procs' = [(IF dead = {} THEN procs ELSE Racing(procs)) EXCEPT ![p] = [procs[p] EXCEPT !.op = "invite"]]
        /\ procs[p].op = "clear" /\ UNCHANGED <<tenant, enabled, roles>>
        /\ invites' = [i \in Invites |-> IF i \in dead THEN [invites[i] EXCEPT !.state = "gone"] ELSE invites[i]]
    BY <1>3 DEF ClearInvites
  <2>2. \A i \in Invites : invites[i] \in Invite
    BY DEF TypeOK
  <2>3. \A i \in Invites : invites'[i].state = "open" =>
            invites[i].state = "open" /\ i \notin dead /\ invites'[i].who = invites[i].who
    BY <2>1, <2>2 DEF Invite
  <2>4. CASE q = p
    <3>1. procs'[q] = [procs[q] EXCEPT !.op = "invite"]
      BY <2>1, <2>4, <1>0, RacingEffect
    <3>2. Cleared(q)
      BY <2>1, <2>3, <2>4, <3>1, <1>0 DEF Cleared, Replaced, Proc
    <3>3. QED BY <3>2
  <2>5. CASE q # p
    <3>1. procs'[q] = procs[q] \/ procs'[q] = Racing(procs)[q]
      BY <2>1, <2>5, <1>0, RacingEffect
    <3>2. Enabled(Roles) = Enabled(Roles)'
      BY <2>1 DEF Enabled
    <3>3. CASE procs'[q] = procs[q]
      BY <3>2, <3>3, <2>1, <2>3 DEF Kept
    <3>4. CASE procs'[q] = Racing(procs)[q]
      BY <3>4, <1>0, RacingKeeps
    <3>5. QED BY <3>1, <3>3, <3>4
  <2>6. QED BY <2>4, <2>5
<1>4. ASSUME NEW p \in Procs, Write(p) PROVE Goal
  <2>1. CASE Refused(procs[p])
    <3>1. procs' = [procs EXCEPT ![p] = Idle] /\ UNCHANGED <<tenant, invites, enabled, roles>>
      BY <1>4, <2>1 DEF Write, Finish
    <3>2. QED BY <3>1, <1>0, <1>a
  <2>2. CASE ~Refused(procs[p])
    <3>1. procs' = Racing([procs EXCEPT ![p] = Idle])
      BY <1>4, <2>2, WriteEffect
    <3>2. [procs EXCEPT ![p] = Idle] \in [Procs -> Proc]
      BY <1>0, NoneTypes
    <3>3. CASE q = p
      <4>1. [procs EXCEPT ![p] = Idle][q] = Idle
        BY <3>3, <1>0
      <4>2. procs'[q] = Idle
        BY <4>1, <3>1 DEF Racing, Idle
      <4>3. QED BY <4>2
    <3>4. CASE q # p
      <4>1. [procs EXCEPT ![p] = Idle][q] = procs[q]
        BY <3>4, <1>0
      <4>2. QED BY <4>1, <3>1, <3>2, RacingKeeps
    <3>5. QED BY <3>3, <3>4
  <2>3. QED BY <2>1, <2>2
<1>5. ASSUME procs' = Racing(procs) PROVE Goal
  BY <1>5, <1>0, RacingKeeps
<1>6. ASSUME NEW a \in Apps, RemoveApp(a) PROVE Goal
  BY <1>6, <1>a DEF RemoveApp
<1>7. ASSUME NEW r \in Roles, AddRole(r) PROVE Goal
  BY <1>7, <1>a DEF AddRole
<1>8. CASE UNCHANGED vars
  BY <1>8, <1>a DEF vars
<1>9. ASSUME NEW u \in People, NEW R \in SUBSET Roles, AssignRoles(u, R) PROVE Goal
  BY <1>9, <1>a DEF AssignRoles
<1>10. QED
  BY <1>1, <1>2, <1>3, <1>4, <1>5, <1>6, <1>7, <1>8, <1>9
     DEF Next, Console, SetTenant, PurgeTenant, PurgeMember, SetAppAccess, PurgeApp, RemoveRole, InviteExpires

(* The checks of requests in flight stay true.                               *)
LEMMA CheckedStep ==
    ASSUME TypeOK, SpentInvites, Checked, Undisturbed, [Next]_vars,
           \A i \in Invites : invites[i].state # "none" =>
                 invites'[i].state # "none" /\ invites'[i].who = invites[i].who
    PROVE  Checked' /\ Undisturbed'
<1> SUFFICES ASSUME NEW q \in Procs
             PROVE  /\ LET r == procs'[q] IN
                       /\ r.op \notin {"idle", "resend", "revoke"} => r.who \in People
                       /\ r.op \in {"update", "deactivate"} =>
                             /\ r.actor \in People
                             /\ ~SelfLockout(r.op, r.actor, r.who, r.admin)
                       /\ r.op = "accept" =>
                             /\ r.inv \in Invites /\ invites'[r.inv].state # "none"
                             /\ r.who = invites'[r.inv].who
                       /\ r.op \notin {"accept", "resend", "revoke"} => r.inv = NoInvite
                    /\ LET r == procs'[q] IN
                       ~r.raced =>
                       /\ r.op \in {"accept", "setRoles"} => r.roles \subseteq Enabled(Roles)'
                       /\ r.op = "accept" => tenant' = "usable"
                       /\ r.op = "invite" => \A i \in Invites : invites'[i].state = "open" => invites'[i].who # r.who
  BY DEF Checked, Undisturbed, SelfLockout
<1>1. CASE procs'[q] = Idle
  BY <1>1 DEF Idle
<1>2. CASE Kept(q)
  BY <1>2 DEF Kept, Checked, Undisturbed, SelfLockout
<1>3. CASE Cleared(q)
  BY <1>3 DEF Cleared, Checked, SelfLockout
<1>4. CASE Begun(q)
  <2>1. Enabled(Roles)' = Enabled(Roles)
    BY <1>4 DEF Begun, Enabled
  <2>2. QED BY <1>4, <2>1 DEF Begun
<1>5. QED
  BY <1>1, <1>2, <1>3, <1>4, ProcStep

(* A request that writes changes at most the invite it is about.             *)
LEMMA WriteInvite ==
    ASSUME TypeOK, Checked, NEW p \in Procs, Write(p), ~Refused(procs[p]), NEW j \in Invites
    PROVE  \/ invites'[j] = invites[j]
           \/ /\ procs[p].op = "accept" /\ j = procs[p].inv
              /\ invites'[j] = [invites[j] EXCEPT !.state = "accepted"]
           \/ /\ procs[p].op = "resend"
              /\ invites'[j] = [invites[j] EXCEPT !.expired = FALSE]
           \/ /\ procs[p].op = "revoke"
              /\ invites'[j] = [invites[j] EXCEPT !.state = "gone"]
           \/ /\ procs[p].op = "invite" /\ invites[j].state = "none"
              /\ invites'[j] = NewInvite(procs[p])
              /\ \A i \in Invites \ {j} : invites'[i] = invites[i]
<1> DEFINE r == procs[p]
<1>1. PICK i \in IF r.op = "invite" THEN Unused ELSE {r.inv} :
         invites' = [k \in Invites |-> IF k = i THEN InviteAfter(invites[k], r) ELSE invites[k]]
  BY WriteEffect
<1>2. r.op \notin {"idle", "clear"} /\ r \in Proc
  BY WriteEffect DEF TypeOK
<1>3. r.op \notin {"accept", "resend", "revoke"} => r.inv \notin Invites
  BY WorkspaceAssumption DEF Checked
<1> HIDE DEF r
<1>4. CASE r.op = "invite"
  <2>1. i \in Invites /\ invites[i].state = "none"
    BY <1>1, <1>4 DEF Unused
  <2>2. invites'[i] = NewInvite(r)
    BY <1>1, <1>4, <2>1 DEF InviteAfter
  <2>3. QED BY <1>1, <1>4, <2>1, <2>2 DEF r
<1>5. CASE r.op \in {"accept", "resend", "revoke"}
  <2>1. i = r.inv
    BY <1>1, <1>5
  <2>2. j = i => invites'[j] = InviteAfter(invites[j], r)
    BY <1>1
  <2>3. j # i => invites'[j] = invites[j]
    BY <1>1
  <2>4. QED BY <1>5, <2>1, <2>2, <2>3 DEF InviteAfter, r
<1>6. CASE r.op \notin {"accept", "resend", "revoke", "invite"}
  <2>1. i = r.inv
    BY <1>1, <1>6
  <2>2. j # i
    BY <1>3, <1>6, <2>1
  <2>3. QED BY <1>1, <2>2
<1>7. QED BY <1>4, <1>5, <1>6

(* A step that leaves the invites alone, or replaces, ends or ages some.     *)
LEMMA InviteCases ==
    ASSUME TypeOK, Checked, SpentInvites, [Next]_vars
    PROVE  \/ UNCHANGED invites
           \/ \E p \in Procs : Write(p) /\ ~Refused(procs[p])
           \/ \A j \in Invites :
                 \/ invites'[j] = invites[j]
                 \/ invites'[j] = [invites[j] EXCEPT !.expired = TRUE]
                 \/ invites[j].state # "none" /\ invites'[j] = [invites[j] EXCEPT !.state = "gone"]
<1>1. ASSUME NEW p \in Procs, Request(p) PROVE UNCHANGED invites
  BY <1>1, RequestBegins DEF Begin
<1>2. ASSUME NEW p \in Procs, ClearInvites(p)
      PROVE  \A j \in Invites : \/ invites'[j] = invites[j]
                                \/ invites[j].state # "none" /\ invites'[j] = [invites[j] EXCEPT !.state = "gone"]
  BY <1>2 DEF ClearInvites, Replaced
<1>3. ASSUME NEW p \in Procs, Write(p), Refused(procs[p]) PROVE UNCHANGED invites
  BY <1>3 DEF Write
<1>4. ASSUME NEW i \in Invites, InviteExpires(i)
      PROVE  \A j \in Invites : invites'[j] = invites[j] \/ invites'[j] = [invites[j] EXCEPT !.expired = TRUE]
  <2>1. invites' = [invites EXCEPT ![i].expired = TRUE]
    BY <1>4 DEF InviteExpires
  <2>2. QED BY <2>1 DEF TypeOK
<1>5. ASSUME PurgeTenant
      PROVE  \A j \in Invites : \/ invites'[j] = invites[j]
                                \/ invites[j].state # "none" /\ invites'[j] = [invites[j] EXCEPT !.state = "gone"]
  BY <1>5 DEF PurgeTenant
<1>6. QED
  BY <1>1, <1>2, <1>3, <1>4, <1>5
     DEF Next, Console, SignIn, TokenExpires, SetTenant, PurgeMember, SetAppAccess, RemoveApp, PurgeApp,
         AddRole, RemoveRole, AssignRoles, vars

(* An invite that exists keeps its address.                                  *)
LEMMA InvitesStay ==
    ASSUME TypeOK, Checked, SpentInvites, [Next]_vars, NEW j \in Invites, invites[j].state # "none"
    PROVE  invites'[j].state # "none" /\ invites'[j].who = invites[j].who
<1>1. invites[j] \in Invite
  BY DEF TypeOK
<1>2. ASSUME NEW p \in Procs, Write(p), ~Refused(procs[p])
      PROVE  invites'[j].state # "none" /\ invites'[j].who = invites[j].who
  BY <1>1, <1>2, WriteInvite DEF Invite
<1>3. QED BY <1>1, <1>2, InviteCases DEF Invite

(* At most one invite of an address is open, also after a step.              *)
LEMMA OneOpenStep ==
    ASSUME TypeOK, Checked, SpentInvites, Undisturbed, OneOpenInvite, [Next]_vars
    PROVE  OneOpenInvite'
<1> DEFINE Same(j) == /\ invites'[j].state = "open" => invites[j].state = "open"
                      /\ invites[j].state # "none" => /\ invites'[j].who = invites[j].who
                                                      /\ invites'[j].late = invites[j].late
<1>0. \A j \in Invites : invites[j] \in Invite
  BY DEF TypeOK
<1>1. ASSUME \A j \in Invites : Same(j) PROVE OneOpenInvite'
  BY <1>1 DEF OneOpenInvite
<1>2. ASSUME NEW p \in Procs, Write(p), ~Refused(procs[p]) PROVE OneOpenInvite'
  <2> DEFINE r == procs[p]
  <2>1. ASSUME NEW j \in Invites, invites'[j] = NewInvite(r), r.op = "invite", invites[j].state = "none",
               \A i \in Invites \ {j} : invites'[i] = invites[i]
        PROVE  OneOpenInvite'
    <3>1. invites'[j].late = r.raced /\ invites'[j].who = r.who
      BY <2>1 DEF NewInvite
    <3>2. ~r.raced => \A i \in Invites : invites[i].state = "open" => invites[i].who # r.who
      BY <2>1 DEF Undisturbed
    <3> HIDE DEF r
    <3>3. QED BY <2>1, <3>1, <3>2 DEF OneOpenInvite
  <2>2. CASE r.op # "invite"
    <3>1. ASSUME NEW j \in Invites PROVE Same(j)
      <4>1. \/ invites'[j] = invites[j]
            \/ invites'[j] = [invites[j] EXCEPT !.state = "accepted"]
            \/ invites'[j] = [invites[j] EXCEPT !.expired = FALSE]
            \/ invites'[j] = [invites[j] EXCEPT !.state = "gone"]
        BY <1>2, <2>2, WriteInvite
      <4>2. QED BY <4>1, <1>0 DEF Invite
    <3>2. QED BY <3>1, <1>1
  <2>3. CASE r.op = "invite" /\ \A j \in Invites : invites'[j] = invites[j]
    BY <2>3, <1>1
  <2>4. QED BY <1>2, <2>1, <2>2, <2>3, WriteInvite
<1>3. ASSUME \A j \in Invites :
                 \/ invites'[j] = invites[j]
                 \/ invites'[j] = [invites[j] EXCEPT !.expired = TRUE]
                 \/ invites[j].state # "none" /\ invites'[j] = [invites[j] EXCEPT !.state = "gone"]
      PROVE OneOpenInvite'
  <2>1. \A j \in Invites : Same(j)
    BY <1>0, <1>3 DEF Invite
  <2>2. QED BY <2>1, <1>1
<1>4. ASSUME UNCHANGED invites PROVE OneOpenInvite'
  BY <1>4, <1>1
<1>5. QED BY <1>2, <1>3, <1>4, InviteCases

-----------------------------------------------------------------------------
(* What a step does to a member.                                             *)

(* A request that writes changes at most its own member.                     *)
LEMMA WriteMember ==
    ASSUME TypeOK, Checked, NEW p \in Procs, Write(p), ~Refused(procs[p]), NEW u \in People
    PROVE  \/ members'[u] = members[u]
           \/ /\ u = procs[p].who /\ ~members[u].row
              /\ procs[p].op = "create" /\ members'[u] = [NoMember EXCEPT !.row = TRUE, !.admin = procs[p].admin]
           \/ /\ u = procs[p].who /\ ~members[u].row
              /\ procs[p].op = "accept"
              /\ members'[u] = [row |-> TRUE, deleted |-> FALSE, admin |-> procs[p].admin,
                                roles |-> procs[p].roles, by |-> procs[p].inv]
           \/ /\ u = procs[p].who /\ members[u].row
              /\ \/ procs[p].op = "update" /\ members'[u] = [members[u] EXCEPT !.admin = procs[p].admin]
                 \/ procs[p].op = "deactivate" /\ members'[u] = [members[u] EXCEPT !.deleted = TRUE]
                 \/ procs[p].op = "restore" /\ members'[u] = [members[u] EXCEPT !.deleted = FALSE]
                 \/ procs[p].op = "setRoles" /\ members'[u] = [members[u] EXCEPT !.roles = procs[p].roles]
<1> DEFINE r == procs[p]
<1>1. members' = [x \in People |-> IF x = r.who THEN MemberAfter(members[x], r) ELSE members[x]]
  BY WriteEffect
<1>2. r.op \in Op
  BY DEF TypeOK, Proc
<1>3. CASE u # r.who
  BY <1>1, <1>3
<1>4. CASE u = r.who
  <2>1. members'[u] = MemberAfter(members[u], r)
    BY <1>1, <1>4
  <2>2. CASE r.op \in {"create", "accept"}
    BY <2>1, <2>2, <1>4 DEF MemberAfter, Refused
  <2>3. CASE r.op \in {"update", "deactivate", "restore", "setRoles"}
    BY <2>1, <2>3, <1>4 DEF MemberAfter, Refused
  <2>4. CASE r.op \in {"idle", "clear", "invite", "resend", "revoke"}
    BY <2>1, <2>4 DEF MemberAfter
  <2>5. QED BY <1>2, <2>2, <2>3, <2>4 DEF Op
<1>5. QED BY <1>3, <1>4

(* A member who is there is changed by an update, a deactivation, a          *)
(* restoration or a new set of roles, and by nothing else.                   *)
LEMMA WriteKeepsMember ==
    ASSUME TypeOK, Checked, NEW p \in Procs, Write(p), ~Refused(procs[p]), NEW u \in People, members[u].row
    PROVE  /\ members'[u].row
           /\ members'[u].deleted => \/ members[u].deleted
                                     \/ procs[p].op = "deactivate" /\ u = procs[p].who
           /\ \/ members'[u].admin = members[u].admin
              \/ procs[p].op = "update" /\ u = procs[p].who /\ members'[u].admin = procs[p].admin
<1>1. members[u] \in Member
  BY DEF TypeOK
<1>2. \/ members'[u] = members[u]
      \/ /\ u = procs[p].who
         /\ \/ procs[p].op = "update" /\ members'[u] = [members[u] EXCEPT !.admin = procs[p].admin]
            \/ procs[p].op = "deactivate" /\ members'[u] = [members[u] EXCEPT !.deleted = TRUE]
            \/ procs[p].op = "restore" /\ members'[u] = [members[u] EXCEPT !.deleted = FALSE]
            \/ procs[p].op = "setRoles" /\ members'[u] = [members[u] EXCEPT !.roles = procs[p].roles]
  BY WriteMember
<1>3. CASE members'[u] = members[u]
  BY <1>3
<1>4. CASE procs[p].op = "update" /\ u = procs[p].who /\ members'[u] = [members[u] EXCEPT !.admin = procs[p].admin]
  BY <1>1, <1>4 DEF Member
<1>5. CASE procs[p].op = "deactivate" /\ u = procs[p].who /\ members'[u] = [members[u] EXCEPT !.deleted = TRUE]
  BY <1>1, <1>5 DEF Member
<1>6. CASE members'[u] = [members[u] EXCEPT !.deleted = FALSE]
  BY <1>1, <1>6 DEF Member
<1>7. CASE members'[u] = [members[u] EXCEPT !.roles = procs[p].roles]
  <2>1. /\ members'[u].row = members[u].row /\ members'[u].deleted = members[u].deleted
        /\ members'[u].admin = members[u].admin
    BY <1>1, <1>7 DEF Member
  <2>2. QED BY <2>1
<1>8. QED BY <1>2, <1>3, <1>4, <1>5, <1>6, <1>7

\* Members are who they were; only their roles may be others.
RolesAtMost ==
    \A u \in People : /\ members'[u].row = members[u].row /\ members'[u].by = members[u].by
                     /\ members'[u].deleted = members[u].deleted /\ members'[u].admin = members[u].admin

(* Steps other than a request's write: members stay, all but one who is      *)
(* purged, or all of a workspace that is; only their roles may change.       *)
LEMMA MemberCases ==
    ASSUME TypeOK, SpentInvites, [Next]_vars
    PROVE  \/ \E p \in Procs : Write(p) /\ ~Refused(procs[p])
           \/ PurgeTenant
           \/ \E u \in People : PurgeMember(u)
           \/ UNCHANGED <<members, locked, erased>>
           \/ UNCHANGED <<locked, erased>> /\ RolesAtMost
<1>0. \A u \in People : members[u] \in Member
  BY DEF TypeOK
<1>1. ASSUME NEW p \in Procs, Request(p) PROVE UNCHANGED <<members, locked, erased>>
  BY <1>1, RequestBegins DEF Begin
<1>2. ASSUME NEW p \in Procs, Write(p), Refused(procs[p]) PROVE UNCHANGED <<members, locked, erased>>
  BY <1>2 DEF Write
<1>3. ASSUME NEW a \in Apps, PurgeApp(a) PROVE UNCHANGED <<locked, erased>> /\ RolesAtMost
  BY <1>0, <1>3 DEF PurgeApp, Without, RolesAtMost, Member
<1>4. ASSUME NEW r \in Roles, RemoveRole(r) PROVE UNCHANGED <<locked, erased>> /\ RolesAtMost
  BY <1>0, <1>4 DEF RemoveRole, Without, RolesAtMost, Member
<1>5. ASSUME NEW u \in People, NEW R \in SUBSET Roles, AssignRoles(u, R)
      PROVE  UNCHANGED <<locked, erased>> /\ RolesAtMost
  BY <1>0, <1>5 DEF AssignRoles, RolesAtMost, Member, TypeOK
<1>6. QED
  BY <1>1, <1>2, <1>3, <1>4, <1>5
     DEF Next, Console, SignIn, TokenExpires, SetTenant, SetAppAccess, RemoveApp, AddRole, ClearInvites,
         InviteExpires, vars

(* A purged workspace stays purged: what it takes away stays away.           *)
LEMMA TenantStays ==
    ASSUME TypeOK, SpentInvites, [Next]_vars
    PROVE  tenant = "purged" => tenant' = "purged"
<1>1. ASSUME NEW p \in Procs, Request(p) PROVE UNCHANGED tenant
  BY <1>1, RequestBegins DEF Begin
<1>2. QED
  BY <1>1
     DEF Next, Console, SignIn, TokenExpires, SetTenant, PurgeTenant, PurgeMember, SetAppAccess, RemoveApp,
         PurgeApp, AddRole, RemoveRole, AssignRoles, ClearInvites, Write, InviteExpires, vars

(* An administrator remains after every step: a removal is committed by      *)
(* another administrator, who remains, unless it is by one who was removed.  *)
LEMMA AdminStep ==
    ASSUME TypeOK, SpentInvites, Checked, AnAdministratorRemains, [Next]_vars
    PROVE  AnAdministratorRemains'
<1> SUFFICES ASSUME tenant' # "purged", ~locked'
             PROVE  \E u \in People : members'[u].row /\ ~members'[u].deleted /\ members'[u].admin
  BY DEF AnAdministratorRemains, Usable
<1> DEFINE Admin(u) == members[u].row /\ ~members[u].deleted /\ members[u].admin
<1>0. \A u \in People : members[u] \in Member
  BY DEF TypeOK
<1>1. ASSUME ~locked PROVE \E u \in People : Admin(u)
  BY <1>1, TenantStays DEF AnAdministratorRemains, Usable
<1>2. ASSUME NEW p \in Procs, Write(p), ~Refused(procs[p])
      PROVE  \E u \in People : members'[u].row /\ ~members'[u].deleted /\ members'[u].admin
  <2> DEFINE r == procs[p]
  <2>1. ~locked /\ ~Outdated(r)
    BY <1>2, WriteEffect
  <2>2. PICK u \in People : Admin(u)
    BY <2>1, <1>1
  <2>3. CASE r.op \in {"update", "deactivate"}
    <3>1. r.actor \in People /\ Admin(r.actor) /\ ~SelfLockout(r.op, r.actor, r.who, r.admin)
      BY <2>1, <2>3 DEF Outdated, Usable, Checked
    <3>2. members'[r.actor].row /\ ~members'[r.actor].deleted /\ members'[r.actor].admin
      BY <1>2, <2>3, <3>1, WriteKeepsMember DEF SelfLockout
    <3>3. QED BY <3>1, <3>2
  <2>4. CASE r.op \notin {"update", "deactivate"}
    <3>1. members'[u].row /\ ~members'[u].deleted /\ members'[u].admin
      BY <1>2, <2>2, <2>4, WriteKeepsMember
    <3>2. QED BY <3>1
  <2>5. QED BY <2>3, <2>4
<1>3. CASE PurgeTenant
  BY <1>3 DEF PurgeTenant
<1>4. ASSUME NEW v \in People, PurgeMember(v)
      PROVE  \E u \in People : members'[u].row /\ ~members'[u].deleted /\ members'[u].admin
  <2>1. PICK u \in People : Admin(u)
    BY <1>1, <1>4 DEF PurgeMember
  <2>2. members'[u] = members[u]
    BY <1>4, <2>1 DEF PurgeMember, TypeOK
  <2>3. QED BY <2>1, <2>2
<1>5. CASE UNCHANGED <<members, locked, erased>>
  BY <1>1, <1>5
<1>6. CASE UNCHANGED <<locked, erased>> /\ RolesAtMost
  BY <1>1, <1>6 DEF RolesAtMost
<1>7. QED BY <1>2, <1>3, <1>4, <1>5, <1>6, MemberCases

(* An accepted invite has brought somebody, who is there or was erased.      *)
LEMMA SpentStep ==
    ASSUME TypeOK, SpentInvites, Checked, [Next]_vars
    PROVE  SpentInvites'
<1> SUFFICES ASSUME NEW i \in Invites
             PROVE  /\ invites'[i].state = "open" => invites'[i].who \in People
                    /\ invites'[i].state = "accepted" =>
                          /\ invites'[i].who \in People
                          /\ members'[invites'[i].who].row \/ invites'[i].who \in erased'
  BY DEF SpentInvites
<1>0. /\ \A u \in People : members[u] \in Member
      /\ \A j \in Invites : invites[j] \in Invite
  BY DEF TypeOK
<1>1. ASSUME NEW p \in Procs, Write(p), ~Refused(procs[p])
      PROVE  /\ invites'[i].state = "open" => invites'[i].who \in People
             /\ invites'[i].state = "accepted" =>
                   /\ invites'[i].who \in People
                   /\ members'[invites'[i].who].row \/ invites'[i].who \in erased'
  <2> DEFINE r == procs[p]
  <2>1. \A u \in People : members[u].row => members'[u].row
    BY <1>1, WriteKeepsMember
  <2>2. erased' = erased
    BY <1>1, WriteEffect
  <2>3. CASE r.op = "accept" /\ i = r.inv /\ invites'[i] = [invites[i] EXCEPT !.state = "accepted"]
    <3>1. invites'[i].who = r.who /\ r.who \in People /\ invites'[i].state = "accepted"
      BY <1>0, <2>3 DEF Checked, Invite
    <3>2. members'[r.who].row
      <4>1. members'[r.who] = MemberAfter(members[r.who], r)
        BY <1>1, <3>1, WriteEffect
      <4>2. QED BY <4>1, <2>3 DEF MemberAfter
    <3>3. QED BY <3>1, <3>2
  <2>4. CASE r.op = "invite" /\ invites'[i] = NewInvite(r)
    BY <2>4 DEF NewInvite, Checked
  <2>5. CASE /\ invites'[i].state \in {invites[i].state, "gone"}
             /\ invites'[i].who = invites[i].who
    BY <2>1, <2>2, <2>5 DEF SpentInvites
  <2>6. \/ invites'[i] = invites[i]
        \/ r.op = "accept" /\ i = r.inv /\ invites'[i] = [invites[i] EXCEPT !.state = "accepted"]
        \/ invites'[i] = [invites[i] EXCEPT !.expired = FALSE]
        \/ invites'[i] = [invites[i] EXCEPT !.state = "gone"]
        \/ r.op = "invite" /\ invites'[i] = NewInvite(r)
    BY <1>1, WriteInvite
  <2>7. QED BY <1>0, <2>3, <2>4, <2>5, <2>6 DEF Invite
<1>2. ASSUME /\ invites'[i].state \in {invites[i].state, "gone"}
             /\ invites'[i].who = invites[i].who
             /\ \A u \in People : members[u].row => members'[u].row \/ u \in erased'
             /\ erased \subseteq erased'
      PROVE  /\ invites'[i].state = "open" => invites'[i].who \in People
             /\ invites'[i].state = "accepted" =>
                   /\ invites'[i].who \in People
                   /\ members'[invites'[i].who].row \/ invites'[i].who \in erased'
  BY <1>2 DEF SpentInvites
<1>3. CASE PurgeTenant
  <2>1. invites'[i].state \in {"none", "gone"}
    BY <1>0, <1>3 DEF PurgeTenant, Invite
  <2>2. QED BY <2>1
<1>4. ASSUME NEW v \in People, PurgeMember(v)
      PROVE  \A u \in People : members[u].row => members'[u].row \/ u \in erased'
  BY <1>4 DEF PurgeMember, TypeOK
<1>5. CASE ~PurgeTenant /\ ~(\E p \in Procs : Write(p) /\ ~Refused(procs[p]))
  <2>1. /\ \A u \in People : members[u].row => members'[u].row \/ u \in erased'
        /\ erased \subseteq erased'
    <3>1. ASSUME RolesAtMost PROVE \A u \in People : members[u].row => members'[u].row
      BY <3>1 DEF RolesAtMost
    <3>2. ASSUME NEW v \in People, PurgeMember(v) PROVE erased \subseteq erased'
      BY <3>2 DEF PurgeMember
    <3>3. QED BY <1>4, <1>5, <3>1, <3>2, MemberCases
  <2>2. invites'[i].state \in {invites[i].state, "gone"} /\ invites'[i].who = invites[i].who
    BY <1>0, <1>5, InviteCases DEF Invite
  <2>3. QED BY <2>1, <2>2, <1>2
<1>6. QED BY <1>1, <1>3, <1>5

-----------------------------------------------------------------------------
(* The theorems.                                                             *)

(* Everything at once.                                                       *)
LEMMA Inductive ==
    /\ Init => IInv
    /\ IInv /\ [Next]_vars => IInv'
<1>1. ASSUME Init PROVE IInv
  <2>1. TypeOK
    <3>1. members \in [People -> Member]
      <4>1. [NoMember EXCEPT !.row = TRUE, !.admin = TRUE] \in Member
        BY NoneTypes DEF Member
      <4>2. QED BY <1>1, <4>1, NoneTypes DEF Init
    <3>2. invites \in [Invites -> Invite] /\ procs \in [Procs -> Proc]
      BY <1>1, NoneTypes DEF Init
    <3>3. /\ tenant = "usable" /\ apps \in [Apps -> {"present", "deleted", "purged"}]
          /\ enabled = Apps /\ roles = Roles /\ claims = {} /\ locked = FALSE /\ erased = {} /\ ops = 0
      BY <1>1 DEF Init
    <3>4. ops \in 0..MaxOps
      BY <3>3, WorkspaceAssumption
    <3>5. tenant \in {"usable", "suspended", "deleted", "purged"} /\ locked \in BOOLEAN
      BY <3>3
    <3>6. enabled \subseteq Apps /\ roles \subseteq Roles /\ claims \subseteq People /\ erased \subseteq People
      BY <3>3
    <3>7. QED BY <3>1, <3>2, <3>3, <3>4, <3>5, <3>6 DEF TypeOK
  <2>2. AnAdministratorRemains
    BY <1>1, WorkspaceAssumption DEF Init, AnAdministratorRemains, Usable, NoMember
  <2>3. OneOpenInvite /\ SpentInvites
    BY <1>1 DEF Init, OneOpenInvite, SpentInvites, NoSuchInvite
  <2>4. Checked /\ Undisturbed
    BY <1>1 DEF Init, Checked, Undisturbed, Idle
  <2>5. QED BY <2>1, <2>2, <2>3, <2>4 DEF IInv
<1>2. ASSUME IInv, [Next]_vars PROVE IInv'
  <2>1. \A j \in Invites : invites[j].state # "none" =>
            invites'[j].state # "none" /\ invites'[j].who = invites[j].who
    BY <1>2, InvitesStay DEF IInv
  <2>2. Checked' /\ Undisturbed'
    BY <1>2, <2>1, CheckedStep DEF IInv
  <2>3. TypeOK' /\ AnAdministratorRemains' /\ OneOpenInvite' /\ SpentInvites'
    BY <1>2, TypeStep, AdminStep, OneOpenStep, SpentStep DEF IInv
  <2>4. QED BY <2>2, <2>3 DEF IInv
<1>3. QED BY <1>1, <1>2

(* The invariant that follows members, invites and requests is inductive.    *)
THEOREM WorkspaceInvariant == Spec => []IInv
  BY Inductive, PTL DEF Spec

(* Whatever members ask of one another, through any number of overlapping    *)
(* requests, the workspace keeps somebody who can administer it, unless a    *)
(* removal was committed by one who no longer was an administrator           *)
(* (tenant.service.ts).                                                      *)
THEOREM AdministratorsRemain == Spec => []WorkspaceInv
<1>1. IInv => WorkspaceInv
  BY DEF IInv, WorkspaceInv
<1>2. QED BY <1>1, WorkspaceInvariant, PTL

(* An address has one open invite, unless two were created at once           *)
(* (invites.service.ts).                                                     *)
THEOREM InvitesReplaceEachOther == Spec => []OneOpenInvite
<1>1. IInv => OneOpenInvite
  BY DEF IInv
<1>2. QED BY <1>1, WorkspaceInvariant, PTL

(* Who joins by an invite does so by an acceptance whose invite is still     *)
(* there.                                                                    *)
LEMMA JoiningIsAccepting ==
    ASSUME IInv, [Next]_vars, NEW u \in People,
           ~members[u].row, members'[u].row, members'[u].by # NoInvite
    PROVE  \E p \in Procs :
              /\ Write(p) /\ ~Refused(procs[p])
              /\ procs[p].op = "accept" /\ u = procs[p].who /\ members'[u].by = procs[p].inv
<1>0. TypeOK /\ Checked /\ SpentInvites /\ members[u] \in Member
  BY DEF IInv, TypeOK
<1>1. PICK p \in Procs : Write(p) /\ ~Refused(procs[p])
  <2>1. ~PurgeTenant
    BY DEF PurgeTenant, NoMember
  <2>2. \A v \in People : ~PurgeMember(v)
    BY <1>0 DEF PurgeMember, NoMember, TypeOK
  <2>3. ~RolesAtMost
    BY <1>0 DEF RolesAtMost
  <2>4. QED BY <1>0, <2>1, <2>2, <2>3, MemberCases
<1>2. procs[p].op \in {"create", "accept"} /\ u = procs[p].who /\ members'[u] # members[u]
  BY <1>0, <1>1, WriteMember
<1>3. members'[u] = MemberAfter(members[u], procs[p])
  BY <1>1, <1>2, WriteEffect
<1>4. procs[p].op # "create"
  BY <1>3 DEF MemberAfter, NoMember
<1>5. members'[u].by = procs[p].inv
  BY <1>2, <1>3, <1>4 DEF MemberAfter
<1>6. QED BY <1>1, <1>2, <1>4, <1>5

(* A revoked or replaced invite brings nobody, however its acceptance and    *)
(* its revocation interleave (invites.service.ts).                           *)
THEOREM RevocationHolds == Spec => RevokedInvitesBringNobody
<1> DEFINE A == \A u \in People :
          (~members[u].row /\ members'[u].row /\ members'[u].by # NoInvite)
          => invites[members'[u].by].state # "gone"
<1>1. IInv /\ [Next]_vars => [A]_vars
  <2> SUFFICES ASSUME IInv, [Next]_vars, NEW u \in People,
                      ~members[u].row, members'[u].row, members'[u].by # NoInvite
               PROVE  invites[members'[u].by].state # "gone"
    OBVIOUS
  <2>1. PICK p \in Procs : ~Refused(procs[p]) /\ procs[p].op = "accept" /\ members'[u].by = procs[p].inv
    BY JoiningIsAccepting
  <2>2. QED BY <2>1 DEF Refused
<1>2. QED BY <1>1, WorkspaceInvariant, PTL DEF Spec, RevokedInvitesBringNobody

(* An invite brings one account, and is spent by it (invites.service.ts).    *)
THEOREM InvitesAreSpent == Spec => OneAccountPerInvite
<1> DEFINE A == \A u \in People :
          (~members[u].row /\ members'[u].row /\ members'[u].by # NoInvite)
          => /\ invites[members'[u].by].state = "open" \/ u \in erased
             /\ invites'[members'[u].by].state = "accepted"
<1>1. IInv /\ [Next]_vars => [A]_vars
  <2> SUFFICES ASSUME IInv, [Next]_vars, NEW u \in People,
                      ~members[u].row, members'[u].row, members'[u].by # NoInvite
               PROVE  /\ invites[members'[u].by].state = "open" \/ u \in erased
                      /\ invites'[members'[u].by].state = "accepted"
    OBVIOUS
  <2>1. PICK p \in Procs : /\ Write(p) /\ ~Refused(procs[p])
                           /\ procs[p].op = "accept" /\ u = procs[p].who /\ members'[u].by = procs[p].inv
    BY JoiningIsAccepting
  <2> DEFINE i == procs[p].inv
  <2>2. i \in Invites /\ invites[i] \in Invite /\ invites[i].who = u /\ invites[i].state \notin {"none", "gone"}
    BY <2>1 DEF IInv, Checked, Refused, TypeOK
  <2>3. invites[i].state = "open" \/ u \in erased
    BY <2>2 DEF IInv, SpentInvites, Invite
  <2>4. invites'[i].state = "accepted"
    <3>1. invites' = [j \in Invites |-> IF j = i THEN InviteAfter(invites[j], procs[p]) ELSE invites[j]]
      <4>1. PICK k \in IF procs[p].op = "invite" THEN Unused ELSE {procs[p].inv} :
               invites' = [j \in Invites |-> IF j = k THEN InviteAfter(invites[j], procs[p]) ELSE invites[j]]
        BY <2>1, WriteEffect
      <4>2. QED BY <2>1, <4>1
    <3>2. invites'[i] = [invites[i] EXCEPT !.state = "accepted"]
      BY <2>1, <2>2, <3>1 DEF InviteAfter
    <3>3. QED BY <2>2, <3>2 DEF Invite
  <2>5. QED BY <2>1, <2>3, <2>4
<1>2. QED BY <1>1, WorkspaceInvariant, PTL DEF Spec, OneAccountPerInvite

(* A request ends only by its own write.                                     *)
LEMMA EndsByWriting ==
    ASSUME IInv, [Next]_vars, NEW p \in Procs, procs[p].op \notin {"idle", "clear"}, procs'[p].op = "idle"
    PROVE  Write(p)
<1>0. TypeOK /\ SpentInvites /\ procs \in [Procs -> Proc]
  BY DEF IInv, TypeOK
<1>1. ASSUME NEW q \in Procs, Request(q) PROVE FALSE
  <2>1. PICK r \in Proc : Begin(q, r) /\ r.op # "idle"
    BY <1>0, <1>1, RequestBegins
  <2>2. QED BY <1>0, <2>1 DEF Begin
<1>2. ASSUME procs' = Racing(procs) \/ procs' = procs PROVE FALSE
  BY <1>0, <1>2, RacingEffect
<1>3. ASSUME NEW q \in Procs, ClearInvites(q) PROVE FALSE
  <2>1. q # p
    BY <1>3 DEF ClearInvites
  <2>2. procs'[p] = procs[p] \/ procs'[p] = Racing(procs)[p]
    BY <1>0, <1>3, <2>1, RacingEffect DEF ClearInvites
  <2>3. QED BY <1>0, <2>2, RacingEffect
<1>4. ASSUME NEW q \in Procs \ {p}, Write(q) PROVE FALSE
  <2>1. [procs EXCEPT ![q] = Idle] \in [Procs -> Proc] /\ [procs EXCEPT ![q] = Idle][p] = procs[p]
    BY <1>0, NoneTypes
  <2>2. procs' = [procs EXCEPT ![q] = Idle] \/ procs' = Racing([procs EXCEPT ![q] = Idle])
    BY <1>4, WriteEffect DEF Write, Finish
  <2>3. QED BY <2>1, <2>2, RacingEffect
<1>5. QED
  BY <1>1, <1>2, <1>3, <1>4
     DEF Next, Console, SignIn, TokenExpires, SetTenant, PurgeTenant, PurgeMember, SetAppAccess, RemoveApp,
         PurgeApp, AddRole, RemoveRole, AssignRoles, InviteExpires, vars

(* Roles are granted of enabled apps only, and in a workspace in use, when   *)
(* nothing changed while the request was under way (invites.service.ts,      *)
(* tenant.service.ts).                                                       *)
THEOREM GrantsHold == Spec => GrantsAreCurrent
<1> DEFINE A == \A p \in Procs :
          (procs[p].op \in {"accept", "setRoles"} /\ procs'[p].op = "idle" /\ ~procs[p].raced /\ ~Refused(procs[p]))
          => /\ \A u \in People : members'[u].roles \ members[u].roles \subseteq Enabled(Roles)
             /\ procs[p].op = "accept" => tenant = "usable"
<1>1. IInv /\ [Next]_vars => [A]_vars
  <2> SUFFICES ASSUME IInv, [Next]_vars, NEW p \in Procs,
                      procs[p].op \in {"accept", "setRoles"}, procs'[p].op = "idle",
                      ~procs[p].raced, ~Refused(procs[p])
               PROVE  /\ \A u \in People : members'[u].roles \ members[u].roles \subseteq Enabled(Roles)
                      /\ procs[p].op = "accept" => tenant = "usable"
    OBVIOUS
  <2>1. Write(p)
    BY EndsByWriting
  <2>2. procs[p].roles \subseteq Enabled(Roles) /\ (procs[p].op = "accept" => tenant = "usable")
    BY DEF IInv, Undisturbed
  <2>3. ASSUME NEW u \in People PROVE members'[u].roles \ members[u].roles \subseteq Enabled(Roles)
    <3>1. members[u] \in Member
      BY DEF IInv, TypeOK
    <3>2. \/ members'[u] = members[u]
          \/ members'[u] = [row |-> TRUE, deleted |-> FALSE, admin |-> procs[p].admin,
                            roles |-> procs[p].roles, by |-> procs[p].inv]
          \/ members'[u] = [members[u] EXCEPT !.roles = procs[p].roles]
      BY <2>1, WriteMember DEF IInv
    <3>3. members'[u].roles = members[u].roles \/ members'[u].roles = procs[p].roles
      BY <3>1, <3>2 DEF Member
    <3>4. QED BY <2>2, <3>3
  <2>4. QED BY <2>2, <2>3
<1>2. QED BY <1>1, WorkspaceInvariant, PTL DEF Spec, GrantsAreCurrent
===============================================================================
