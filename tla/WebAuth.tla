------------------------------- MODULE WebAuth -------------------------------
(***************************************************************************)
(* Sign-in of the Next template (src/templates/next/src): auth.ts,         *)
(* lib/platform.ts, (auth)/actions.ts, lib/auth/tokens.ts, the account     *)
(* page and the proxies behind a sudo window.                              *)
(*                                                                         *)
(* A deployment runs in one of two modes.  With a platform, the platform   *)
(* owns accounts and roles, and local rows follow each sign-in.  Without   *)
(* one, accounts, passwords and reset links are local.  The platform, mail *)
(* and the browsers are external.                                          *)
(***************************************************************************)
EXTENDS Integers, FiniteSets

CONSTANTS
    People,      \* accounts: one person per workspace and address
    Home, Email, \* each account's workspace and address
    Browsers,
    SignIns,     \* sign-ins in flight at a time, of any browsers
    Links,       \* reset links ever mailed
    Procs,       \* requests about links in flight at a time
    NoOne, NoLink,
    MaxOps       \* bound: sign-ins, changes, unlocks, link requests

Tenants == {Home[p] : p \in People}
Roles == {"OWNER", "ADMIN", "MEMBER"}

ASSUME WebAuthAssumption ==
    /\ DOMAIN Home = People /\ DOMAIN Email = People
    /\ \A p, q \in People : Home[p] = Home[q] /\ Email[p] = Email[q] => p = q
    /\ NoOne \notin People /\ NoLink \notin Links /\ MaxOps \in Nat

VARIABLES
    platform,  \* isPlatformMode
    people,    \* accounts: of the platform, or the local User rows
    members,   \* local Membership roles, by User row and tenant
    sessions,  \* the session cookie of each browser
    sudo,      \* the sudo cookie of each browser
    unlocks,   \* the unlock under way in each browser
    logins,    \* the sign-ins under way
    links,     \* the VerificationToken rows, and the links that expired
    procs,     \* requests about links
    ops,
    last,      \* history: the role of the last undisturbed sign-in
    spent      \* history: links that set a password

vars == <<platform, people, members, sessions, sudo, unlocks, logins, links, procs, ops, last, spent>>

\* A row: active, the platform's role "admin" for this app, and the password,
\* counted.  Who is a tenant admin is another claim, and not followed here.
Account == [active: BOOLEAN, admin: BOOLEAN, pw: Nat]

\* who (history): the account that proved a password or a passkey.
Session == [who: People, row: People, tenant: Tenants, role: Roles, old: BOOLEAN]
NoSession == [who |-> NoOne]

\* A sudo token: its account; left (history): the session it was opened in has
\* ended or was replaced.
Sudo == [who: People \cup {NoOne}, left: BOOLEAN]
NoSudo == [who |-> NoOne, left |-> FALSE]

\* A sign-in: its browser, the claims it was answered, the role it found; lone
\* (history): no other sign-in of the account since.
Login == [pc: {"idle", "claims", "read", "jwt"}, at: Browsers \cup {NoOne}, who: People \cup {NoOne},
          admin: BOOLEAN, found: Roles \cup {"none"}, lone: BOOLEAN]
NoLogin == [pc |-> "idle", at |-> NoOne, who |-> NoOne, admin |-> FALSE, found |-> "none", lone |-> TRUE]

Proc == [pc: {"idle", "mint", "delete", "write"}, who: People \cup {NoOne}, link: Links \cup {NoLink},
         seen: SUBSET Links]
Idle == [pc |-> "idle", who |-> NoOne, link |-> NoLink, seen |-> {}]

TypeOK ==
    /\ platform \in BOOLEAN
    /\ people \in [People -> Account]
    /\ members \in [People -> [Tenants -> Roles \cup {"none"}]]
    /\ sessions \in [Browsers -> Session \cup {NoSession}]
    /\ sudo \in [Browsers -> Sudo] /\ unlocks \in [Browsers -> Sudo]
    /\ logins \in [SignIns -> Login]
    /\ links \in [rows: [Links -> People \cup {NoOne}], mailed: SUBSET Links, expired: SUBSET Links]
    /\ procs \in [Procs -> Proc]
    /\ ops \in 0..MaxOps
    /\ last \in [People -> Roles \cup {"unknown"}]
    /\ spent \subseteq Links

\* With a platform every account exists there.  Without one they sign up.
Init ==
    /\ platform \in BOOLEAN
    /\ people \in [People -> [active: {platform}, admin: IF platform THEN BOOLEAN ELSE {FALSE}, pw: {0}]]
    /\ members = [p \in People |-> [t \in Tenants |-> "none"]]
    /\ sessions = [b \in Browsers |-> NoSession]
    /\ sudo = [b \in Browsers |-> NoSudo] /\ unlocks = [b \in Browsers |-> NoSudo]
    /\ logins = [i \in SignIns |-> NoLogin]
    /\ links = [rows |-> [l \in Links |-> NoOne], mailed |-> {}, expired |-> {}]
    /\ procs = [r \in Procs |-> Idle]
    /\ ops = 0
    /\ last = [p \in People |-> "unknown"]
    /\ spent = {}

Operate == ops < MaxOps /\ ops' = ops + 1

\* The browser's session ends or is replaced: proxy keeps nobody with a session
\* from signing in, it redirects pages only, and /reset-password not even then.
\* The sudo cookies are not cleared, and an unlock under way still sets one.
Leave(b) ==
    /\ sudo' = [sudo EXCEPT ![b].left = sudo[b].who # NoOne]
    /\ unlocks' = [unlocks EXCEPT ![b].left = unlocks[b].who # NoOne]

-----------------------------------------------------------------------------
(* Sign-in with a platform: authorize, provisionFromPlatform, jwt.          *)

\* The platform admits the password or the passkey, and the token's claims
\* carry the role it has now.  Other sign-ins of the account are disturbed.  A
\* browser may have a session, and other sign-ins under way: an open login page
\* posts to /api/auth all the same.
PlatformLogin(i, b, p) ==
    /\ platform /\ Operate /\ logins[i].pc = "idle" /\ people[p].active
    /\ logins' = [j \in SignIns |->
         IF j = i THEN [NoLogin EXCEPT !.pc = "claims", !.at = b, !.who = p, !.admin = people[p].admin,
                                       !.lone = \A k \in SignIns : logins[k].who # p]
         ELSE IF logins[j].who = p THEN [logins[j] EXCEPT !.lone = FALSE]
         ELSE logins[j]]
    /\ UNCHANGED <<platform, people, members, sessions, sudo, unlocks, links, procs, last, spent>>

\* Mutant of UserRow: the row an address has.
UserRowByEmail(p) ==
    LET known == {q \in People : Email[q] = Email[p] /\ \E t \in Tenants : members[q][t] # "none"}
    IN  IF known = {} THEN p ELSE CHOOSE q \in known : TRUE

\* The User row upserted for the claims: by platformUserId.
UserRow(p) == p

\* The tenant and the user are upserted and the membership is looked up.
Provision(i) ==
    /\ logins[i].pc = "claims"
    /\ logins' = [logins EXCEPT ![i].pc = "read",
                    ![i].found = members[UserRow(logins[i].who)][Home[logins[i].who]]]
    /\ UNCHANGED <<platform, people, members, sessions, sudo, unlocks, links, procs, ops, last, spent>>

\* Mutant of RoleWritten: roles are only raised.
RoleRaised(found, role) == IF found = "ADMIN" THEN "ADMIN" ELSE role

\* The platform decides between ADMIN and MEMBER; OWNER is left alone.
RoleWritten(found, role) == IF found = "OWNER" THEN "OWNER" ELSE role

\* The membership is created or brought to the claims' role.  A membership
\* that was created meanwhile makes the insert, and the sign-in, fail.
WriteMembership(i) ==
    LET l == logins[i]
        row == UserRow(l.who)
        t == Home[l.who]
        role == IF l.admin THEN "ADMIN" ELSE "MEMBER"
        fails == l.found = "none" /\ members[row][t] # "none"
        writes == ~fails /\ RoleWritten(l.found, role) # l.found
    IN  /\ l.pc = "read"
        /\ members' = IF writes THEN [members EXCEPT ![row][t] = RoleWritten(l.found, role)] ELSE members
        /\ logins' = [logins EXCEPT ![i] = IF fails THEN NoLogin ELSE [l EXCEPT !.pc = "jwt"]]
        /\ last' = [last EXCEPT ![l.who] = IF l.lone THEN role ELSE "unknown"]
        /\ UNCHANGED <<platform, people, sessions, sudo, unlocks, links, procs, ops, spent>>

\* The jwt callback binds the session to the workspace that was signed in to;
\* the cookie replaces whatever session the browser has.
StartSession(i) ==
    LET l == logins[i] IN
    /\ l.pc = "jwt"
    /\ sessions' = [sessions EXCEPT ![l.at] = [who |-> l.who, row |-> UserRow(l.who), tenant |-> Home[l.who],
                                               role |-> members[UserRow(l.who)][Home[l.who]], old |-> FALSE]]
    /\ Leave(l.at)
    /\ logins' = [logins EXCEPT ![i] = NoLogin]
    /\ UNCHANGED <<platform, people, members, links, procs, ops, last, spent>>

\* The platform is unreachable or the process stops: authorize answers null.
LoginFails(i) ==
    /\ logins[i].pc # "idle" /\ logins' = [logins EXCEPT ![i] = NoLogin]
    /\ UNCHANGED <<platform, people, members, sessions, sudo, unlocks, links, procs, ops, last, spent>>

-----------------------------------------------------------------------------
(* Sessions.                                                                *)

\* ROLE_REFRESH_MS pass.
Minute(b) ==
    /\ sessions[b] # NoSession /\ ~sessions[b].old
    /\ sessions' = [sessions EXCEPT ![b].old = TRUE]
    /\ UNCHANGED <<platform, people, members, sudo, unlocks, logins, links, procs, ops, last, spent>>

\* A page or a route asks for the session: the jwt callback looks the role up
\* again when the last look is older than a minute.
Serve(b) ==
    /\ sessions[b] # NoSession /\ sessions[b].old
    /\ sessions' = [sessions EXCEPT ![b].role = members[sessions[b].row][sessions[b].tenant], ![b].old = FALSE]
    /\ UNCHANGED <<platform, people, members, sudo, unlocks, logins, links, procs, ops, last, spent>>

\* signOutAction, or the cookie's 30 days are over.  The sudo cookies stay.
SignOut(b) ==
    /\ sessions[b] # NoSession /\ sessions' = [sessions EXCEPT ![b] = NoSession] /\ Leave(b)
    /\ UNCHANGED <<platform, people, members, logins, links, procs, ops, last, spent>>

-----------------------------------------------------------------------------
(* The sudo window and the proxies behind it.                               *)

\* Mutant of UnlockedBy: the workspace is left out of the password check.
UnlockedByAddress(s) == {p \in People : Email[p] = Email[s.who]}

\* The account the password is checked against: the session's address in the
\* session's workspace.
UnlockedBy(s) == {p \in People : Home[p] = s.tenant /\ Email[p] = Email[s.who]}

\* POST .../sudo, of the members page and of the passkeys card: the session is
\* read and the platform is asked,
Unlock(b) ==
    /\ platform /\ Operate /\ sessions[b] # NoSession /\ unlocks[b] = NoSudo
    /\ \E p \in UnlockedBy(sessions[b]) :
         people[p].active /\ unlocks' = [unlocks EXCEPT ![b] = [who |-> p, left |-> FALSE]]
    /\ UNCHANGED <<platform, people, members, sessions, sudo, logins, links, procs, last, spent>>

\* and the answer sets the cookie, whatever session the browser has by then,
OpenWindow(b) ==
    /\ unlocks[b] # NoSudo /\ unlocks' = [unlocks EXCEPT ![b] = NoSudo]
    /\ sudo' = [sudo EXCEPT ![b] = unlocks[b]]
    /\ UNCHANGED <<platform, people, members, sessions, logins, links, procs, ops, last, spent>>

\* or is refused or lost.
UnlockFails(b) ==
    /\ unlocks[b] # NoSudo /\ unlocks' = [unlocks EXCEPT ![b] = NoSudo]
    /\ UNCHANGED <<platform, people, members, sessions, sudo, logins, links, procs, ops, last, spent>>

\* The cookie's fifteen minutes are over.
WindowCloses(b) ==
    /\ sudo[b] # NoSudo /\ sudo' = [sudo EXCEPT ![b] = NoSudo]
    /\ UNCHANGED <<platform, people, members, sessions, unlocks, logins, links, procs, ops, last, spent>>

\* memberProxyGate: platform mode, a session, and the sudo cookie.
Gate(b) == platform /\ sessions[b] # NoSession /\ sudo[b] # NoSudo

\* The members page: a tenant admin deactivates or restores another member of
\* the workspace the token is of (or changes who is a tenant admin).  Whether
\* the token has that claim is for the platform to tell, which may refuse.
ManageMember(b, p) ==
    /\ Gate(b) /\ Operate
    /\ Home[p] = Home[sudo[b].who] /\ p # sudo[b].who
    /\ people' = [people EXCEPT ![p].active = ~@]
    /\ UNCHANGED <<platform, members, sessions, sudo, unlocks, logins, links, procs, last, spent>>

\* The platform's own console gives or takes the app's role.
PlatformChange(p) ==
    /\ platform /\ Operate /\ people' = [people EXCEPT ![p].admin = ~@]
    /\ UNCHANGED <<platform, members, sessions, sudo, unlocks, logins, links, procs, last, spent>>

-----------------------------------------------------------------------------
(* Without a platform.                                                      *)

\* signup: one account per address, its workspace and an OWNER membership in
\* one transaction; a partial unique index stops a second one.
Signup(p) ==
    /\ ~platform /\ Operate
    /\ \A q \in People : Email[q] = Email[p] => ~people[q].active
    /\ people' = [people EXCEPT ![p].active = TRUE]
    /\ members' = [members EXCEPT ![p][Home[p]] = "OWNER"]
    /\ UNCHANGED <<platform, sessions, sudo, unlocks, logins, links, procs, last, spent>>

\* authorize with local credentials; jwt takes the only membership.  This is also
\* how signup and resetPassword end, which like an open login page do so in a
\* browser that may have a session.
LocalLogin(b, p) ==
    /\ ~platform /\ Operate /\ people[p].active
    /\ Leave(b)
    /\ sessions' = [sessions EXCEPT ![b] = [who |-> p, row |-> p, tenant |-> Home[p],
                                            role |-> members[p][Home[p]], old |-> FALSE]]
    /\ UNCHANGED <<platform, people, members, logins, links, procs, last, spent>>

\* The account page, with the current password.
ChangePassword(b) ==
    /\ ~platform /\ Operate /\ sessions[b] # NoSession
    /\ people' = [people EXCEPT ![sessions[b].row].pw = @ + 1]
    /\ UNCHANGED <<platform, members, sessions, sudo, unlocks, logins, links, procs, last, spent>>

\* requestPasswordReset of an address with an account: createToken's
\* transaction begins, and sees the links of the address so far.
RequestReset(r, p, l) ==
    /\ ~platform /\ Operate /\ procs[r].pc = "idle" /\ people[p].active /\ l \notin links.mailed
    /\ procs' = [procs EXCEPT ![r] = [pc |-> "mint", who |-> p, link |-> l,
                                      seen |-> {x \in Links : links.rows[x] = p}]]
    /\ UNCHANGED <<platform, people, members, sessions, sudo, unlocks, logins, links, last, spent>>

\* It commits, and the link is mailed.
MailLink(r) ==
    LET q == procs[r] IN
    /\ q.pc = "mint" /\ q.link \notin links.mailed
    /\ links' = [links EXCEPT !.rows = [x \in Links |-> IF x = q.link THEN q.who ELSE
                                                        IF x \in q.seen THEN NoOne ELSE @[x]],
                              !.mailed = @ \cup {q.link}]
    /\ procs' = [procs EXCEPT ![r] = Idle]
    /\ UNCHANGED <<platform, people, members, sessions, sudo, unlocks, logins, ops, last, spent>>

LinkExpires(l) ==
    /\ l \in links.mailed \ links.expired /\ links' = [links EXCEPT !.expired = @ \cup {l}]
    /\ UNCHANGED <<platform, people, members, sessions, sudo, unlocks, logins, procs, ops, last, spent>>

\* resetPassword: consumeToken finds the row.
FindLink(r, l) ==
    /\ procs[r].pc = "idle" /\ links.rows[l] # NoOne
    /\ procs' = [procs EXCEPT ![r] = [pc |-> "delete", who |-> links.rows[l], link |-> l, seen |-> {}]]
    /\ UNCHANGED <<platform, people, members, sessions, sudo, unlocks, logins, links, ops, last, spent>>

\* Mutant of Deleted: a row that is already gone is no error.
DeletedAnyway(l) == TRUE

\* Deleting by the unique key fails when the row is gone.
Deleted(l) == links.rows[l] # NoOne

\* It deletes the row; what it read of the expiry decides.
DeleteLink(r) ==
    LET l == procs[r].link IN
    /\ procs[r].pc = "delete"
    /\ links' = [links EXCEPT !.rows[l] = NoOne]
    /\ procs' = [procs EXCEPT ![r] = IF Deleted(l) /\ l \notin links.expired
                                     THEN [procs[r] EXCEPT !.pc = "write"] ELSE Idle]
    /\ UNCHANGED <<platform, people, members, sessions, sudo, unlocks, logins, ops, last, spent>>

\* The new password is written; the sign-in that follows is a LocalLogin.
WritePassword(r) ==
    /\ procs[r].pc = "write"
    /\ people' = [people EXCEPT ![procs[r].who].pw = @ + 1]
    /\ spent' = spent \cup {procs[r].link}
    /\ procs' = [procs EXCEPT ![r] = Idle]
    /\ UNCHANGED <<platform, members, sessions, sudo, unlocks, logins, links, ops, last>>

\* The process dies, or the request is lost: a link consumed is not given back.
RequestLost(r) ==
    /\ procs[r].pc # "idle" /\ procs' = [procs EXCEPT ![r] = Idle]
    /\ UNCHANGED <<platform, people, members, sessions, sudo, unlocks, logins, links, ops, last, spent>>

-----------------------------------------------------------------------------

Next ==
    \/ \E i \in SignIns : \/ \E b \in Browsers, p \in People : PlatformLogin(i, b, p)
                          \/ Provision(i) \/ WriteMembership(i) \/ StartSession(i) \/ LoginFails(i)
    \/ \E b \in Browsers : \/ Minute(b) \/ Serve(b) \/ SignOut(b)
                           \/ Unlock(b) \/ OpenWindow(b) \/ UnlockFails(b) \/ WindowCloses(b)
                           \/ ChangePassword(b)
                           \/ \E p \in People : ManageMember(b, p) \/ LocalLogin(b, p)
    \/ \E p \in People : PlatformChange(p) \/ Signup(p)
    \/ \E r \in Procs, p \in People, l \in Links : RequestReset(r, p, l)
    \/ \E r \in Procs : MailLink(r) \/ DeleteLink(r) \/ WritePassword(r) \/ RequestLost(r)
    \/ \E l \in Links : LinkExpires(l)
    \/ \E r \in Procs, l \in Links : FindLink(r, l)

Spec == Init /\ [][Next]_vars

-----------------------------------------------------------------------------
(* Properties.                                                              *)

\* One address may be two people.  A session is the row and the workspace of
\* the account that signed in, through sign-ins of others in the same browser,
\* and what a sudo window does in the session it was opened in, it does as that
\* account.  A window outlives its session: the cookie is cleared neither by
\* signing out nor by a sign-in over the session, so the next session in that
\* browser still has it.  That is the case excused (left).
SessionsStayHome ==
    \A b \in Browsers :
      LET s == sessions[b] IN
      s # NoSession => /\ s.row = s.who /\ s.tenant = Home[s.who]
                       /\ sudo[b] # NoSudo /\ ~sudo[b].left => sudo[b].who = s.who

\* Every state is well typed, and sessions stay home.
WebAuthInv == TypeOK /\ SessionsStayHome

\* A session that looks its role up again, or is replaced, has the role its
\* account's last sign-in was told by the platform, raised or lowered, unless
\* two sign-ins of the account overlapped.  (A demotion alone does not reach
\* it: only a sign-in writes the membership.)
RolesFollowLogins ==
    [][\A b \in Browsers :
         sessions[b] # NoSession /\ sessions'[b] # NoSession /\ sessions[b].old /\ ~sessions'[b].old =>
           LET p == sessions'[b].who IN last[p] # "unknown" => sessions'[b].role = last[p]]_vars

\* A reset link sets a password once, however many requests present it at once.
LinksAreSpentOnce ==
    [][\A p \in People : people'[p].pw # people[p].pw =>
         \A r \in Procs : procs[r].pc = "write" /\ procs'[r].pc = "idle" => procs[r].link \notin spent]_vars
=============================================================================
