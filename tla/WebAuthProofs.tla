----------------------------- MODULE WebAuthProofs -----------------------------
(***************************************************************************)
(* Proofs about module WebAuth, for any accounts, workspaces, browsers,    *)
(* links and requests in flight, and any bound.                            *)
(***************************************************************************)
EXTENDS WebAuth, TLAPS

-----------------------------------------------------------------------------
(* The inductive invariant.                                                 *)

\* Sign-ins under way are of accounts of the platform.
Underway ==
    \A i \in SignIns :
        /\ logins[i].pc # "idle" => platform /\ logins[i].who \in People /\ logins[i].at \in Browsers
        /\ logins[i].pc = "idle" => logins[i].who = NoOne

\* A sudo cookie without a session is one whose session has ended, and an
\* unlock whose session has not ended is of that session's account.
Windows ==
    \A b \in Browsers :
        /\ sessions[b] = NoSession /\ sudo[b] # NoSudo => sudo[b].left
        /\ unlocks[b] # NoSudo /\ ~unlocks[b].left =>
              sessions[b] # NoSession /\ unlocks[b].who = sessions[b].who

\* A sign-in that no other disturbed is alone, and what it has read stands.
Lone ==
    \A i \in SignIns :
        (logins[i].pc # "idle" /\ logins[i].lone) =>
        /\ \A j \in SignIns : j # i => logins[j].who # logins[i].who
        /\ logins[i].pc = "read" => logins[i].found = members[logins[i].who][Home[logins[i].who]]

\* The platform's roles are the memberships of undisturbed sign-ins, and
\* nobody owns a workspace there.
Told ==
    /\ \A p \in People :
          /\ last[p] # "unknown" => platform /\ members[p][Home[p]] = last[p]
          /\ platform => members[p][Home[p]] # "OWNER"
    /\ \A i \in SignIns : logins[i].found # "OWNER"

\* Links are spent by one request, after their row is gone for good.
Spent ==
    /\ spent \subseteq links.mailed
    /\ \A l \in Links : links.rows[l] # NoOne => l \in links.mailed
    /\ \A l \in spent : links.rows[l] = NoOne
    /\ \A r \in Procs :
          procs[r].pc = "write" =>
          /\ procs[r].link \in links.mailed \ spent /\ links.rows[procs[r].link] = NoOne
          /\ procs[r].who \in People
          /\ \A q \in Procs : procs[q].pc = "write" /\ procs[q].link = procs[r].link => q = r
    /\ \A r \in Procs : procs[r].pc \in {"mint", "delete"} => procs[r].link \in Links /\ procs[r].who \in People
    /\ \A r \in Procs : procs[r].pc = "delete" => procs[r].link \in links.mailed

\* Whoever has a session, or is about to, is a member.
Enlisted ==
    /\ \A i \in SignIns :
          logins[i].pc = "jwt" \/ (logins[i].pc = "read" /\ logins[i].found # "none")
             => members[logins[i].who][Home[logins[i].who]] # "none"
    /\ \A b \in Browsers :
          sessions[b] # NoSession => members[sessions[b].who][Home[sessions[b].who]] # "none"
    /\ \A p \in People : ~platform /\ people[p].active => members[p][Home[p]] # "none"

IInv == TypeOK /\ SessionsStayHome /\ Underway /\ Windows /\ Lone /\ Told /\ Spent /\ Enlisted

-----------------------------------------------------------------------------
(* Sessions are values apart from no session.                               *)
LEMMA SessionTypes ==
    /\ \A s \in Session : s # NoSession /\ s.who \in People
    /\ NoSudo \in Sudo /\ NoLogin \in Login /\ Idle \in Proc /\ NoOne \notin People
<1>1. NoOne \notin People
  BY WebAuthAssumption
<1>2. \A s \in Session : s # NoSession /\ s.who \in People
  BY <1>1 DEF Session, NoSession
<1>3. NoSudo \in Sudo /\ NoLogin \in Login /\ Idle \in Proc
  BY DEF NoSudo, Sudo, NoLogin, Login, Idle, Proc
<1>4. QED BY <1>1, <1>2, <1>3

(* The first states satisfy the invariant.                                  *)
LEMMA Initially == Init => IInv
<1> SUFFICES ASSUME Init PROVE IInv
  OBVIOUS
<1>1. TypeOK
  <2>1. people \in [People -> Account]
    <3> DEFINE A == IF platform THEN BOOLEAN ELSE {FALSE}
    <3>1. platform \in BOOLEAN /\ people \in [People -> [active: {platform}, admin: A, pw: {0}]]
      BY DEF Init
    <3>2. A \subseteq BOOLEAN
      OBVIOUS
    <3> HIDE DEF A
    <3>3. [active: {platform}, admin: A, pw: {0}] \subseteq Account
      BY <3>1, <3>2 DEF Account
    <3>4. QED BY <3>1, <3>3
  <2>2. ops \in 0..MaxOps
    BY WebAuthAssumption DEF Init
  <2>3. links \in [rows: [Links -> People \cup {NoOne}], mailed: SUBSET Links, expired: SUBSET Links]
    BY DEF Init
  <2>4. members \in [People -> [Tenants -> Roles \cup {"none"}]]
    BY DEF Init
  <2>5. platform \in BOOLEAN /\ last \in [People -> Roles \cup {"unknown"}]
        /\ spent \subseteq Links
    BY DEF Init
  <2>6. /\ sessions \in [Browsers -> Session \cup {NoSession}]
        /\ sudo \in [Browsers -> Sudo] /\ unlocks \in [Browsers -> Sudo]
        /\ logins \in [SignIns -> Login]
        /\ procs \in [Procs -> Proc]
    BY SessionTypes DEF Init
  <2>7. QED BY <2>1, <2>2, <2>3, <2>4, <2>5, <2>6 DEF TypeOK
<1>2. SessionsStayHome /\ Underway /\ Windows /\ Lone
  BY DEF Init, SessionsStayHome, Underway, Windows, Lone, NoSudo, NoLogin
<1>3. Told
  BY DEF Init, Told, Tenants, NoLogin
<1>4. Spent
  BY DEF Init, Spent, Idle
<1>5. Enlisted
  <2>1. \A p \in People : people[p].active = platform
    BY DEF Init
  <2>2. QED BY <2>1 DEF Init, Enlisted, NoLogin
<1>6. QED BY <1>1, <1>2, <1>3, <1>4, <1>5 DEF IInv

(* What an operation takes from the bound.                                   *)
LEMMA OperateType == ASSUME IInv, Operate PROVE ops' \in 0..MaxOps
<1>1. ops \in 0..MaxOps /\ MaxOps \in Nat
  BY WebAuthAssumption DEF IInv, TypeOK
<1>2. QED BY <1>1 DEF Operate

(* When a session ends or is replaced, whatever cookie or unlock the browser *)
(* has is of an earlier session.                                             *)
LEMMA LeaveStep ==
    ASSUME IInv, NEW b \in Browsers, Leave(b)
    PROVE  /\ sudo' \in [Browsers -> Sudo] /\ unlocks' \in [Browsers -> Sudo]
           /\ sudo'[b] = NoSudo \/ sudo'[b].left
           /\ unlocks'[b] = NoSudo \/ unlocks'[b].left
           /\ \A c \in Browsers : c # b => sudo'[c] = sudo[c] /\ unlocks'[c] = unlocks[c]
<1>1. sudo \in [Browsers -> Sudo] /\ unlocks \in [Browsers -> Sudo]
  BY DEF IInv, TypeOK
<1>2. ASSUME NEW x \in Sudo
      PROVE  LET y == [x EXCEPT !.left = x.who # NoOne] IN y \in Sudo /\ (y = NoSudo \/ y.left)
  <2>1. CASE x.who = NoOne
    <3>1. (x.who # NoOne) = FALSE
      BY <2>1
    <3>2. [x EXCEPT !.left = FALSE] = NoSudo
      <4> DEFINE y == [x EXCEPT !.left = FALSE]
      <4>1. y \in Sudo /\ y.who = NoOne /\ y.left = FALSE
        BY <2>1 DEF Sudo
      <4> HIDE DEF y
      <4>2. y = [who |-> y.who, left |-> y.left]
        BY <4>1 DEF Sudo
      <4>3. QED BY <4>1, <4>2 DEF NoSudo, y
    <3>3. QED BY <3>1, <3>2, SessionTypes
  <2>2. CASE x.who # NoOne
    <3>1. (x.who # NoOne) = TRUE
      BY <2>2
    <3>2. [x EXCEPT !.left = TRUE] \in Sudo /\ [x EXCEPT !.left = TRUE].left
      BY DEF Sudo
    <3>3. QED BY <3>1, <3>2
  <2>3. QED BY <2>1, <2>2
<1>3. /\ sudo' = [sudo EXCEPT ![b] = [sudo[b] EXCEPT !.left = sudo[b].who # NoOne]]
      /\ unlocks' = [unlocks EXCEPT ![b] = [unlocks[b] EXCEPT !.left = unlocks[b].who # NoOne]]
  BY DEF Leave
<1> DEFINE y == [sudo[b] EXCEPT !.left = sudo[b].who # NoOne]
           z == [unlocks[b] EXCEPT !.left = unlocks[b].who # NoOne]
<1>4. /\ y \in Sudo /\ (y = NoSudo \/ y.left) /\ z \in Sudo /\ (z = NoSudo \/ z.left)
  BY <1>1, <1>2
<1>5. sudo' = [sudo EXCEPT ![b] = y] /\ unlocks' = [unlocks EXCEPT ![b] = z]
  BY <1>3
<1> HIDE DEF y, z
<1>6. QED BY <1>1, <1>4, <1>5

-----------------------------------------------------------------------------
(* Sign-in with a platform.                                                  *)

(* A sign-in that begins disturbs those of the same account.                 *)
LEMMA PlatformLoginStep ==
    ASSUME IInv, NEW i \in SignIns, NEW b \in Browsers, NEW p \in People, PlatformLogin(i, b, p)
    PROVE  IInv'
<1> DEFINE new == [NoLogin EXCEPT !.pc = "claims", !.at = b, !.who = p, !.admin = people[p].admin,
                                  !.lone = \A k \in SignIns : logins[k].who # p]
<1>1. /\ UNCHANGED <<platform, people, members, sessions, sudo, unlocks, links, procs, last, spent>>
      /\ ops' \in 0..MaxOps /\ platform /\ logins[i].pc = "idle"
      /\ logins' = [j \in SignIns |->
           IF j = i THEN new
           ELSE IF logins[j].who = p THEN [logins[j] EXCEPT !.lone = FALSE]
           ELSE logins[j]]
  BY OperateType DEF PlatformLogin
<1>2. people[p].admin \in BOOLEAN /\ \A j \in SignIns : logins[j] \in Login
  BY DEF IInv, TypeOK, Account
<1>3. /\ new \in Login /\ new.pc = "claims" /\ new.at = b /\ new.who = p /\ new.found = "none"
      /\ new.lone = \A k \in SignIns : logins[k].who # p
  BY <1>2 DEF NoLogin, Login
<1> HIDE DEF new
<1>4. logins'[i] = new
  BY <1>1
<1>5. ASSUME NEW j \in SignIns, j # i
      PROVE  /\ logins'[j] \in Login /\ logins'[j].pc = logins[j].pc /\ logins'[j].who = logins[j].who
             /\ logins'[j].found = logins[j].found /\ logins'[j].at = logins[j].at
             /\ logins'[j].lone => logins[j].lone /\ logins[j].who # p
  <2>1. logins'[j] = IF logins[j].who = p THEN [logins[j] EXCEPT !.lone = FALSE] ELSE logins[j]
    BY <1>1, <1>5
  <2>2. QED BY <1>2, <2>1 DEF Login
<1>6. logins' \in [SignIns -> Login]
  BY <1>1, <1>3, <1>4, <1>5
<1>7. TypeOK'
  BY <1>1, <1>6 DEF IInv, TypeOK
<1>8. Underway'
  <2> SUFFICES ASSUME NEW j \in SignIns
               PROVE  /\ logins'[j].pc # "idle" => platform /\ logins'[j].who \in People /\ logins'[j].at \in Browsers
                      /\ logins'[j].pc = "idle" => logins'[j].who = NoOne
    BY <1>1 DEF IInv, Underway
  <2>1. CASE j = i
    BY <1>1, <1>3, <1>4, <2>1
  <2>2. CASE j # i
    BY <1>5, <2>2 DEF IInv, Underway
  <2>3. QED BY <2>1, <2>2
<1>9. Lone'
  <2> SUFFICES ASSUME NEW c \in SignIns, logins'[c].pc # "idle", logins'[c].lone
               PROVE  /\ \A d \in SignIns : d # c => logins'[d].who # logins'[c].who
                      /\ logins'[c].pc = "read" => logins'[c].found = members[logins'[c].who][Home[logins'[c].who]]
    BY <1>1 DEF Lone
  <2>1. CASE c = i
    BY <1>3, <1>4, <1>5, <2>1
  <2>2. CASE c # i
    <3>1. logins[c].lone /\ logins[c].who # p /\ logins[c].pc # "idle" /\ logins'[c].who = logins[c].who
          /\ logins'[c].pc = logins[c].pc /\ logins'[c].found = logins[c].found
      BY <1>5, <2>2
    <3>2. /\ \A d \in SignIns : d # c => logins[d].who # logins[c].who
          /\ logins[c].pc = "read" => logins[c].found = members[logins[c].who][Home[logins[c].who]]
      BY <3>1 DEF IInv, Lone
    <3>3. \A d \in SignIns : d # c => logins'[d].who # logins[c].who
      BY <1>3, <1>4, <1>5, <3>1, <3>2
    <3>4. QED BY <3>1, <3>2, <3>3
  <2>3. QED BY <2>1, <2>2
<1>10. SessionsStayHome' /\ Windows' /\ Told' /\ Spent'
  <2>1. \A j \in SignIns : logins'[j].found # "OWNER"
    BY <1>3, <1>4, <1>5 DEF IInv, Told
  <2>2. QED BY <1>1, <2>1 DEF IInv, SessionsStayHome, Windows, Told, Spent
<1>11. Enlisted'
  <2> SUFFICES ASSUME NEW j \in SignIns,
                      logins'[j].pc = "jwt" \/ (logins'[j].pc = "read" /\ logins'[j].found # "none")
               PROVE  members[logins'[j].who][Home[logins'[j].who]] # "none"
    BY <1>1 DEF IInv, Enlisted
  <2>1. j # i
    BY <1>3, <1>4
  <2>2. QED BY <1>5, <2>1 DEF IInv, Enlisted
<1>12. QED BY <1>7, <1>8, <1>9, <1>10, <1>11 DEF IInv

(* A sign-in goes on with the same account and browser, or ends.             *)
LEMMA LoginStep ==
    ASSUME IInv, NEW i \in SignIns, NEW l \in Login, logins[i].pc # "idle",
           logins' = [logins EXCEPT ![i] = l],
           \/ l = NoLogin
           \/ l.pc # "idle" /\ l.who = logins[i].who /\ l.at = logins[i].at /\ l.lone = logins[i].lone
              /\ (l.pc = "read" => l.found = members'[l.who][Home[l.who]]),
           \A c \in SignIns : c # i /\ logins[c].pc # "idle" /\ logins[c].lone =>
               members'[logins[c].who][Home[logins[c].who]] = members[logins[c].who][Home[logins[c].who]],
           UNCHANGED platform
    PROVE  /\ logins' \in [SignIns -> Login] /\ Underway' /\ Lone'
           /\ \A c \in SignIns : c # i => logins'[c] = logins[c]
           /\ logins'[i] = l
<1>1. /\ logins' \in [SignIns -> Login] /\ logins'[i] = l
      /\ \A c \in SignIns : c # i => logins'[c] = logins[c]
  BY DEF IInv, TypeOK
<1>2. NoLogin.pc = "idle" /\ NoLogin.who = NoOne /\ NoOne \notin People
  BY SessionTypes DEF NoLogin
<1>3. logins[i].who \in People /\ logins[i].at \in Browsers /\ platform
  BY DEF IInv, Underway
<1>4. Underway'
  <2> SUFFICES ASSUME NEW c \in SignIns
               PROVE  /\ logins'[c].pc # "idle" => platform /\ logins'[c].who \in People /\ logins'[c].at \in Browsers
                      /\ logins'[c].pc = "idle" => logins'[c].who = NoOne
    BY DEF IInv, Underway
  <2>1. CASE c = i
    BY <1>1, <1>2, <1>3, <2>1
  <2>2. CASE c # i
    BY <1>1, <2>2 DEF IInv, Underway
  <2>3. QED BY <2>1, <2>2
<1>5. Lone'
  <2> SUFFICES ASSUME NEW c \in SignIns, logins'[c].pc # "idle", logins'[c].lone
               PROVE  /\ \A d \in SignIns : d # c => logins'[d].who # logins'[c].who
                      /\ logins'[c].pc = "read" => logins'[c].found = members'[logins'[c].who][Home[logins'[c].who]]
    BY DEF Lone
  <2>1. CASE c = i
    <3>1. l.who = logins[i].who /\ logins[i].lone /\ (l.pc = "read" => l.found = members'[l.who][Home[l.who]])
      BY <1>1, <1>2, <2>1
    <3>2. \A d \in SignIns : d # i => logins[d].who # logins[i].who
      BY <3>1 DEF IInv, Lone
    <3>3. QED BY <1>1, <2>1, <3>1, <3>2
  <2>2. CASE c # i
    <3>1. logins[c].pc # "idle" /\ logins[c].lone /\ logins'[c] = logins[c] /\ logins[c].who \in People
      BY <1>1, <2>2 DEF IInv, Underway
    <3>2. /\ \A d \in SignIns : d # c => logins[d].who # logins[c].who
          /\ logins[c].pc = "read" => logins[c].found = members[logins[c].who][Home[logins[c].who]]
      BY <3>1 DEF IInv, Lone
    <3>3. logins'[i].who = logins[i].who \/ logins'[i].who = NoOne
      BY <1>1, <1>2
    <3>4. \A d \in SignIns : d # c => logins'[d].who # logins[c].who
      BY <1>1, <1>2, <2>2, <3>1, <3>2, <3>3
    <3>5. members'[logins[c].who][Home[logins[c].who]] = members[logins[c].who][Home[logins[c].who]]
      BY <2>2, <3>1
    <3>6. QED BY <3>1, <3>2, <3>4, <3>5
  <2>3. QED BY <2>1, <2>2
<1>6. QED BY <1>1, <1>4, <1>5

(* Every account has a workspace.                                            *)
LEMMA Homes ==
    /\ \A p \in People : Home[p] \in Tenants
    /\ IInv => \A p \in People : members[p] \in [Tenants -> Roles \cup {"none"}]
                                 /\ members[p][Home[p]] \in Roles \cup {"none"}
<1>1. \A p \in People : Home[p] \in Tenants
  BY DEF Tenants
<1>2. QED BY <1>1 DEF IInv, TypeOK

(* The steps of a sign-in.                                                   *)
LEMMA SignInStep ==
    ASSUME IInv, NEW i \in SignIns, Provision(i) \/ WriteMembership(i) \/ StartSession(i) \/ LoginFails(i)
    PROVE  IInv'
<1> DEFINE l == logins[i]
           who == l.who
           t == Home[l.who]
<1>1. l.pc # "idle" /\ UNCHANGED <<platform, people, links, procs, ops, spent>>
  BY DEF Provision, WriteMembership, StartSession, LoginFails
<1>2. /\ l \in Login /\ who \in People /\ t \in Tenants /\ l.at \in Browsers /\ platform
      /\ members[who][t] \in Roles \cup {"none"}
  <2>1. l \in Login
    BY DEF IInv, TypeOK
  <2>2. who \in People /\ l.at \in Browsers /\ platform
    BY <1>1 DEF IInv, Underway
  <2>3. QED BY <2>1, <2>2, Homes
<1>3. NoLogin \in Login /\ NoLogin.pc = "idle" /\ NoLogin.found = "none" /\ \A s \in Session : s # NoSession
  BY SessionTypes DEF NoLogin
<1>4. Spent'
  BY <1>1 DEF IInv, Spent
<1>5. CASE Provision(i)
  <2> DEFINE n == [l EXCEPT !.pc = "read", !.found = members[who][t]]
  <2>1. logins' = [logins EXCEPT ![i] = n] /\ UNCHANGED <<members, sessions, sudo, unlocks, last>>
    BY <1>5 DEF Provision, UserRow
  <2>2. /\ n \in Login /\ n.pc = "read" /\ n.who = who /\ n.at = l.at /\ n.lone = l.lone /\ n.found = members[who][t]
    BY <1>2 DEF Login
  <2> HIDE DEF n
  <2>3. logins' \in [SignIns -> Login] /\ Underway' /\ Lone' /\ logins'[i] = n
        /\ \A c \in SignIns : c # i => logins'[c] = logins[c]
    BY <1>1, <2>1, <2>2, LoginStep
  <2>4. TypeOK'
    BY <1>1, <2>1, <2>3 DEF IInv, TypeOK
  <2>5. SessionsStayHome' /\ Windows' /\ Told'
    BY <1>1, <1>2, <2>1, <2>2, <2>3 DEF IInv, SessionsStayHome, Windows, Told
  <2>6. Enlisted'
    BY <1>1, <2>1, <2>2, <2>3 DEF IInv, Enlisted
  <2>7. QED BY <1>4, <2>3, <2>4, <2>5, <2>6 DEF IInv
<1>6. CASE LoginFails(i)
  <2>1. logins' = [logins EXCEPT ![i] = NoLogin] /\ UNCHANGED <<members, sessions, sudo, unlocks, last>>
    BY <1>6 DEF LoginFails
  <2>2. logins' \in [SignIns -> Login] /\ Underway' /\ Lone' /\ logins'[i] = NoLogin
        /\ \A c \in SignIns : c # i => logins'[c] = logins[c]
    BY <1>1, <1>3, <2>1, LoginStep
  <2>3. TypeOK'
    BY <1>1, <2>1, <2>2 DEF IInv, TypeOK
  <2>4. SessionsStayHome' /\ Windows' /\ Told'
    BY <1>1, <1>3, <2>1, <2>2 DEF IInv, SessionsStayHome, Windows, Told
  <2>5. Enlisted'
    BY <1>1, <1>3, <2>1, <2>2 DEF IInv, Enlisted
  <2>6. QED BY <1>4, <2>2, <2>3, <2>4, <2>5 DEF IInv
<1>7. CASE StartSession(i)
  <2> DEFINE s == [who |-> who, row |-> who, tenant |-> t, role |-> members[who][t], old |-> FALSE]
             b == l.at
  <2>1. /\ logins' = [logins EXCEPT ![i] = NoLogin] /\ UNCHANGED <<members, last>>
        /\ sessions' = [sessions EXCEPT ![b] = s] /\ l.pc = "jwt" /\ Leave(b)
    BY <1>7 DEF StartSession, UserRow
  <2>2. members[who][t] # "none"
    BY <2>1 DEF IInv, Enlisted
  <2>3. s \in Session /\ s.who = who /\ s.row = who /\ s.tenant = t
    BY <1>2, <2>2 DEF Session
  <2> HIDE DEF s
  <2>4. /\ sessions' \in [Browsers -> Session \cup {NoSession}] /\ sessions'[b] = s
        /\ \A c \in Browsers : c # b => sessions'[c] = sessions[c]
    BY <1>2, <2>1, <2>3 DEF IInv, TypeOK
  <2>5. /\ logins' \in [SignIns -> Login] /\ logins'[i] = NoLogin /\ Underway' /\ Lone'
        /\ \A c \in SignIns : c # i => logins'[c] = logins[c]
    BY <1>1, <1>3, <2>1, LoginStep
  <2>6. /\ sudo' \in [Browsers -> Sudo] /\ unlocks' \in [Browsers -> Sudo]
        /\ sudo'[b] = NoSudo \/ sudo'[b].left
        /\ unlocks'[b] = NoSudo \/ unlocks'[b].left
        /\ \A c \in Browsers : c # b => sudo'[c] = sudo[c] /\ unlocks'[c] = unlocks[c]
    BY <1>2, <2>1, LeaveStep
  <2>7. TypeOK'
    BY <1>1, <2>1, <2>4, <2>5, <2>6 DEF IInv, TypeOK
  <2>8. SessionsStayHome'
    <3> SUFFICES ASSUME NEW c \in Browsers, sessions'[c] # NoSession
                 PROVE  /\ sessions'[c].row = sessions'[c].who /\ sessions'[c].tenant = Home[sessions'[c].who]
                        /\ sudo'[c] # NoSudo /\ ~sudo'[c].left => sudo'[c].who = sessions'[c].who
      BY DEF SessionsStayHome
    <3>1. CASE c = b
      BY <1>2, <2>3, <2>4, <2>6, <3>1
    <3>2. CASE c # b
      BY <2>4, <2>6, <3>2 DEF IInv, SessionsStayHome
    <3>3. QED BY <3>1, <3>2
  <2>9. Windows'
    <3> SUFFICES ASSUME NEW c \in Browsers
                 PROVE  /\ sessions'[c] = NoSession /\ sudo'[c] # NoSudo => sudo'[c].left
                        /\ unlocks'[c] # NoSudo /\ ~unlocks'[c].left =>
                              sessions'[c] # NoSession /\ unlocks'[c].who = sessions'[c].who
      BY DEF Windows
    <3>1. CASE c = b
      BY <2>6, <3>1
    <3>2. CASE c # b
      BY <2>4, <2>6, <3>2 DEF IInv, Windows
    <3>3. QED BY <3>1, <3>2
  <2>10. Enlisted'
    <3>1. ASSUME NEW c \in SignIns
          PROVE  logins'[c].pc = "jwt" \/ (logins'[c].pc = "read" /\ logins'[c].found # "none")
                    => members[logins'[c].who][Home[logins'[c].who]] # "none"
      BY <1>3, <2>5 DEF IInv, Enlisted
    <3>2. ASSUME NEW c \in Browsers, sessions'[c] # NoSession
          PROVE  members[sessions'[c].who][Home[sessions'[c].who]] # "none"
      <4>1. CASE c = b
        BY <2>2, <2>3, <2>4, <4>1
      <4>2. CASE c # b
        BY <2>4, <3>2, <4>2 DEF IInv, Enlisted
      <4>3. QED BY <4>1, <4>2
    <3>3. QED BY <1>1, <2>1, <3>1, <3>2 DEF IInv, Enlisted
  <2>11. Told'
    BY <1>1, <1>3, <2>1, <2>5 DEF IInv, Told
  <2>12. QED BY <1>4, <2>5, <2>7, <2>8, <2>9, <2>10, <2>11 DEF IInv
<1>8. CASE WriteMembership(i)
  <2> DEFINE role == IF l.admin THEN "ADMIN" ELSE "MEMBER"
             fails == l.found = "none" /\ members[who][t] # "none"
             writes == ~fails /\ RoleWritten(l.found, role) # l.found
             n == IF fails THEN NoLogin ELSE [l EXCEPT !.pc = "jwt"]
             told == IF l.lone THEN role ELSE "unknown"
  <2>1. /\ l.pc = "read" /\ UNCHANGED <<sessions, sudo, unlocks>>
        /\ members' = IF writes THEN [members EXCEPT ![who][t] = RoleWritten(l.found, role)] ELSE members
        /\ logins' = [logins EXCEPT ![i] = n]
        /\ last' = [last EXCEPT ![who] = told]
    BY <1>8 DEF WriteMembership, UserRow
  <2>2. role \in {"ADMIN", "MEMBER"} /\ role \in Roles /\ told \in Roles \cup {"unknown"}
        /\ l.found \in Roles \cup {"none"}
    BY <1>2 DEF Roles, Login
  <2>3. /\ n \in Login /\ n.found # "OWNER" /\ (fails => n = NoLogin)
        /\ ~fails => n.pc = "jwt" /\ n.who = who /\ n.at = l.at /\ n.lone = l.lone
    <3>1. [l EXCEPT !.pc = "jwt"] \in Login /\ [l EXCEPT !.pc = "jwt"].pc = "jwt"
          /\ [l EXCEPT !.pc = "jwt"].who = who /\ [l EXCEPT !.pc = "jwt"].at = l.at /\ [l EXCEPT !.pc = "jwt"].lone = l.lone
          /\ [l EXCEPT !.pc = "jwt"].found = l.found
      BY <1>2 DEF Login
    <3>2. l.found # "OWNER"
      BY DEF IInv, Told
    <3>3. CASE fails
      BY <1>3, <3>3
    <3>4. CASE ~fails
      BY <3>1, <3>2, <3>4
    <3>5. QED BY <3>3, <3>4
  <2>4. RoleWritten(l.found, role) = (IF l.found = "OWNER" THEN "OWNER" ELSE role)
        /\ RoleWritten(l.found, role) \in Roles
    BY <2>2 DEF RoleWritten, Roles
  <2>5. members[who] \in [Tenants -> Roles \cup {"none"}]
    BY <1>2, Homes
  <2>6. writes => members'[who][t] = RoleWritten(l.found, role)
    BY <1>2, <2>1, <2>5 DEF IInv, TypeOK
  <2>7. \A p \in People : p # who => members'[p] = members[p]
    BY <2>1 DEF IInv, TypeOK
  <2>8. members' \in [People -> [Tenants -> Roles \cup {"none"}]]
    BY <1>2, <2>1, <2>4, <2>5 DEF IInv, TypeOK
  <2>9. ~writes => members' = members
    BY <2>1
  <2>10. l.lone => ~fails /\ l.found = members[who][t]
    BY <1>1, <2>1 DEF IInv, Lone
  <2>11. ~fails => members'[who][t] # "none"
    <3>1. CASE writes
      BY <2>4, <2>6, <3>1 DEF Roles
    <3>2. CASE ~writes /\ ~fails
      <4>1. l.found # "none"
        BY <2>2, <2>4, <3>2 DEF Roles
      <4>2. members[who][t] # "none"
        BY <2>1, <4>1 DEF IInv, Enlisted
      <4>3. QED BY <2>9, <3>2, <4>2
    <3>3. QED BY <3>1, <3>2
  <2>12. members[who][t] # "OWNER"
    BY <1>2 DEF IInv, Told
  <2>13. told # "unknown" => members'[who][t] = told
    <3> SUFFICES ASSUME l.lone PROVE members'[who][t] = role
      BY <2>2
    <3>1. l.found # "OWNER" /\ ~fails
      BY <2>10, <2>12
    <3>2. CASE writes
      BY <2>4, <2>6, <3>1, <3>2
    <3>3. CASE ~writes
      BY <2>4, <2>9, <2>10, <3>1, <3>3
    <3>4. QED BY <3>2, <3>3
  <2>14. members'[who][t] # "OWNER"
    <3>1. l.found # "OWNER"
      BY DEF IInv, Told
    <3>2. CASE writes
      BY <2>2, <2>4, <2>6, <3>1, <3>2
    <3>3. CASE ~writes
      BY <2>9, <2>12, <3>3
    <3>4. QED BY <3>2, <3>3
  <2>15. members[who][t] # "none" => members'[who][t] # "none"
    <3>1. CASE writes
      BY <2>4, <2>6, <3>1 DEF Roles
    <3>2. CASE ~writes
      BY <2>9, <3>2
    <3>3. QED BY <3>1, <3>2
  <2> HIDE DEF n, told, role, fails, writes
  <2>16. /\ logins' \in [SignIns -> Login] /\ Underway' /\ Lone' /\ logins'[i] = n
         /\ \A c \in SignIns : c # i => logins'[c] = logins[c]
    <3>1. ASSUME NEW c \in SignIns, c # i, logins[c].pc # "idle", logins[c].lone
          PROVE  members'[logins[c].who][Home[logins[c].who]] = members[logins[c].who][Home[logins[c].who]]
      <4>1. logins[c].who # who /\ logins[c].who \in People
        BY <3>1 DEF IInv, Lone, Underway
      <4>2. QED BY <2>7, <4>1
    <3>2. n = NoLogin \/ (n.pc # "idle" /\ n.who = logins[i].who /\ n.at = logins[i].at /\ n.lone = logins[i].lone /\ n.pc # "read")
      BY <2>3
    <3>3. QED BY <1>1, <2>1, <2>3, <3>1, <3>2, LoginStep
  <2>17. /\ last' \in [People -> Roles \cup {"unknown"}] /\ last'[who] = told
         /\ \A p \in People : p # who => last'[p] = last[p]
    BY <1>2, <2>1, <2>2 DEF IInv, TypeOK
  <2>18. TypeOK'
    BY <1>1, <2>1, <2>8, <2>16, <2>17 DEF IInv, TypeOK
  <2>19. SessionsStayHome' /\ Windows'
    BY <1>1, <2>1 DEF IInv, SessionsStayHome, Windows
  <2>20. Told'
    <3>1. ASSUME NEW p \in People
          PROVE  /\ last'[p] # "unknown" => platform /\ members'[p][Home[p]] = last'[p]
                 /\ platform => members'[p][Home[p]] # "OWNER"
      <4>1. CASE p = who
        BY <1>2, <2>13, <2>14, <2>17, <4>1
      <4>2. CASE p # who
        BY <2>7, <2>17, <4>2 DEF IInv, Told
      <4>3. QED BY <4>1, <4>2
    <3>2. \A c \in SignIns : logins'[c].found # "OWNER"
      BY <2>3, <2>16 DEF IInv, Told
    <3>3. QED BY <1>1, <3>1, <3>2 DEF Told
  <2>21. Enlisted'
    <3>1. ASSUME NEW p \in People, members[p][Home[p]] # "none" PROVE members'[p][Home[p]] # "none"
      BY <2>7, <2>15, <3>1
    <3>2. ASSUME NEW c \in SignIns, logins'[c].pc = "jwt" \/ (logins'[c].pc = "read" /\ logins'[c].found # "none")
          PROVE  members'[logins'[c].who][Home[logins'[c].who]] # "none"
      <4>1. CASE c = i
        BY <1>3, <2>3, <2>11, <2>16, <3>2, <4>1
      <4>2. CASE c # i
        <5>1. logins'[c] = logins[c] /\ logins[c].who \in People
          BY <1>3, <2>16, <3>2, <4>2 DEF IInv, Underway
        <5>2. QED BY <3>1, <3>2, <5>1 DEF IInv, Enlisted
      <4>3. QED BY <4>1, <4>2
    <3>3. ASSUME NEW c \in Browsers, sessions[c] # NoSession
          PROVE  members'[sessions[c].who][Home[sessions[c].who]] # "none"
      <4>1. sessions[c].who \in People
        BY <3>3, SessionTypes DEF IInv, TypeOK
      <4>2. QED BY <3>1, <3>3, <4>1 DEF IInv, Enlisted
    <3>4. \A p \in People : ~platform' /\ people'[p].active => members'[p][Home[p]] # "none"
      BY <1>1, <1>2
    <3>5. QED BY <2>1, <3>2, <3>3, <3>4 DEF Enlisted
  <2>22. QED BY <1>4, <2>16, <2>18, <2>19, <2>20, <2>21 DEF IInv
<1>9. QED BY <1>5, <1>6, <1>7, <1>8

-----------------------------------------------------------------------------
(* Sessions, the sudo window and the accounts behind it.                     *)

(* What a step about one browser leaves to show: that browser's session and   *)
(* sudo window.                                                              *)
LEMMA BrowserStep ==
    ASSUME IInv, NEW b \in Browsers,
           UNCHANGED <<platform, members, logins, links, procs, last, spent>>,
           people' \in [People -> Account], \A p \in People : ~platform => people'[p].active = people[p].active,
           ops' \in 0..MaxOps,
           sessions' \in [Browsers -> Session \cup {NoSession}],
           sudo' \in [Browsers -> Sudo], unlocks' \in [Browsers -> Sudo],
           \A c \in Browsers : c # b => /\ sessions'[c] = sessions[c] /\ sudo'[c] = sudo[c]
                                       /\ unlocks'[c] = unlocks[c],
           sessions'[b] # NoSession => /\ sessions'[b].row = sessions'[b].who
                                       /\ sessions'[b].tenant = Home[sessions'[b].who]
                                       /\ members[sessions'[b].who][Home[sessions'[b].who]] # "none",
           sudo'[b] # NoSudo /\ ~sudo'[b].left =>
               sessions'[b] # NoSession /\ sudo'[b].who = sessions'[b].who,
           unlocks'[b] # NoSudo /\ ~unlocks'[b].left =>
               sessions'[b] # NoSession /\ unlocks'[b].who = sessions'[b].who
    PROVE  IInv'
<1>1. TypeOK'
  BY DEF IInv, TypeOK
<1>2. SessionsStayHome'
  <2> SUFFICES ASSUME NEW c \in Browsers, sessions'[c] # NoSession
               PROVE  /\ sessions'[c].row = sessions'[c].who /\ sessions'[c].tenant = Home[sessions'[c].who]
                      /\ sudo'[c] # NoSudo /\ ~sudo'[c].left => sudo'[c].who = sessions'[c].who
    BY DEF SessionsStayHome
  <2>1. CASE c = b
    BY <2>1
  <2>2. CASE c # b
    BY <2>2 DEF IInv, SessionsStayHome
  <2>3. QED BY <2>1, <2>2
<1>3. Windows'
  <2> SUFFICES ASSUME NEW c \in Browsers
               PROVE  /\ sessions'[c] = NoSession /\ sudo'[c] # NoSudo => sudo'[c].left
                      /\ unlocks'[c] # NoSudo /\ ~unlocks'[c].left =>
                            sessions'[c] # NoSession /\ unlocks'[c].who = sessions'[c].who
    BY DEF Windows
  <2>1. CASE c = b
    BY <2>1
  <2>2. CASE c # b
    BY <2>2 DEF IInv, Windows
  <2>3. QED BY <2>1, <2>2
<1>4. Underway' /\ Lone' /\ Told' /\ Spent'
  BY DEF IInv, Underway, Lone, Told, Spent
<1>5. Enlisted'
  <2>1. ASSUME NEW c \in Browsers, sessions'[c] # NoSession
        PROVE  members[sessions'[c].who][Home[sessions'[c].who]] # "none"
    <3>1. CASE c = b
      BY <2>1, <3>1
    <3>2. CASE c # b
      BY <2>1, <3>2 DEF IInv, Enlisted
    <3>3. QED BY <3>1, <3>2
  <2>2. QED BY <2>1 DEF IInv, Enlisted
<1>6. QED BY <1>1, <1>2, <1>3, <1>4, <1>5 DEF IInv

(* A session ages, is served or ends: it stays who it was.                   *)
LEMMA SessionStep ==
    ASSUME IInv, NEW b \in Browsers, Minute(b) \/ Serve(b) \/ SignOut(b)
    PROVE  IInv'
<1> DEFINE s == sessions[b]
<1>1. /\ UNCHANGED <<platform, people, members, logins, links, procs, ops, last, spent>>
      /\ s # NoSession
  BY DEF Minute, Serve, SignOut
<1>2. s \in Session /\ people \in [People -> Account] /\ ops \in 0..MaxOps
      /\ sudo \in [Browsers -> Sudo] /\ unlocks \in [Browsers -> Sudo]
      /\ sessions \in [Browsers -> Session \cup {NoSession}]
  BY <1>1 DEF IInv, TypeOK
<1>3. s.who \in People /\ s.row = s.who /\ s.tenant = Home[s.who] /\ members[s.who][Home[s.who]] \in Roles
      /\ members[s.who][Home[s.who]] # "none"
  <2>1. s.who \in People
    BY <1>2, SessionTypes
  <2>2. s.row = s.who /\ s.tenant = Home[s.who]
    BY <1>1 DEF IInv, SessionsStayHome
  <2>3. members[s.who][Home[s.who]] # "none"
    BY <1>1 DEF IInv, Enlisted
  <2>4. QED BY <2>1, <2>2, <2>3, Homes
<1>4. /\ sudo[b] # NoSudo /\ ~sudo[b].left => sudo[b].who = s.who
      /\ unlocks[b] # NoSudo /\ ~unlocks[b].left => unlocks[b].who = s.who
  BY <1>1 DEF IInv, SessionsStayHome, Windows
<1>5. ASSUME NEW m \in Session, m.who = s.who, m.row = s.row, m.tenant = s.tenant,
             sessions' = [sessions EXCEPT ![b] = m], UNCHANGED <<sudo, unlocks>>
      PROVE  IInv'
  <2>1. sessions'[b] = m /\ m # NoSession /\ \A c \in Browsers : c # b => sessions'[c] = sessions[c]
    BY <1>2, <1>5, SessionTypes
  <2>2. sessions' \in [Browsers -> Session \cup {NoSession}]
    BY <1>2, <1>5
  <2>3. QED BY <1>1, <1>2, <1>3, <1>4, <1>5, <2>1, <2>2, BrowserStep
<1>6. CASE Minute(b)
  <2> DEFINE m == [s EXCEPT !.old = TRUE]
  <2>1. sessions' = [sessions EXCEPT ![b] = m] /\ UNCHANGED <<sudo, unlocks>>
    BY <1>6 DEF Minute
  <2>2. m \in Session /\ m.who = s.who /\ m.row = s.row /\ m.tenant = s.tenant
    BY <1>2 DEF Session
  <2> HIDE DEF m
  <2>3. QED BY <1>5, <2>1, <2>2
<1>7. CASE Serve(b)
  <2> DEFINE m == [s EXCEPT !.role = members[s.row][s.tenant], !.old = FALSE]
  <2>1. sessions' = [sessions EXCEPT ![b] = m] /\ UNCHANGED <<sudo, unlocks>>
    BY <1>7 DEF Serve
  <2>2. m \in Session /\ m.who = s.who /\ m.row = s.row /\ m.tenant = s.tenant
    BY <1>2, <1>3 DEF Session
  <2> HIDE DEF m
  <2>3. QED BY <1>5, <2>1, <2>2
<1>8. CASE SignOut(b)
  <2>1. sessions' = [sessions EXCEPT ![b] = NoSession] /\ Leave(b)
    BY <1>8 DEF SignOut
  <2>2. /\ sessions' \in [Browsers -> Session \cup {NoSession}] /\ sessions'[b] = NoSession
        /\ \A c \in Browsers : c # b => sessions'[c] = sessions[c]
    BY <1>2, <2>1
  <2>3. /\ sudo' \in [Browsers -> Sudo] /\ unlocks' \in [Browsers -> Sudo]
        /\ sudo'[b] = NoSudo \/ sudo'[b].left
        /\ unlocks'[b] = NoSudo \/ unlocks'[b].left
        /\ \A c \in Browsers : c # b => sudo'[c] = sudo[c] /\ unlocks'[c] = unlocks[c]
    BY <2>1, LeaveStep
  <2>4. QED BY <1>1, <1>2, <2>2, <2>3, BrowserStep
<1>9. QED BY <1>6, <1>7, <1>8

(* An unlock is of the session's own account: an address and a workspace are *)
(* one person.  The window it opens is of the session it was asked in.       *)
LEMMA SudoStep ==
    ASSUME IInv, NEW b \in Browsers, Unlock(b) \/ OpenWindow(b) \/ UnlockFails(b) \/ WindowCloses(b)
    PROVE  IInv'
<1>1. UNCHANGED <<platform, people, members, sessions, logins, links, procs, last, spent>>
  BY DEF Unlock, OpenWindow, UnlockFails, WindowCloses
<1>2. /\ people \in [People -> Account] /\ ops \in 0..MaxOps /\ NoSudo \in Sudo
      /\ sudo \in [Browsers -> Sudo] /\ unlocks \in [Browsers -> Sudo]
      /\ sessions \in [Browsers -> Session \cup {NoSession}]
  BY SessionTypes DEF IInv, TypeOK
<1>3. /\ sessions[b] # NoSession => /\ sessions[b].row = sessions[b].who
                                   /\ sessions[b].tenant = Home[sessions[b].who]
                                   /\ members[sessions[b].who][Home[sessions[b].who]] # "none"
      /\ sudo[b] # NoSudo /\ ~sudo[b].left => sessions[b] # NoSession /\ sudo[b].who = sessions[b].who
      /\ unlocks[b] # NoSudo /\ ~unlocks[b].left => sessions[b] # NoSession /\ unlocks[b].who = sessions[b].who
  BY DEF IInv, SessionsStayHome, Windows, Enlisted
<1>4. CASE Unlock(b)
  <2>1. sessions[b] # NoSession /\ UNCHANGED sudo /\ ops' \in 0..MaxOps
    BY <1>4, OperateType DEF Unlock
  <2>2. PICK p \in UnlockedBy(sessions[b]) : unlocks' = [unlocks EXCEPT ![b] = [who |-> p, left |-> FALSE]]
    BY <1>4 DEF Unlock
  <2>3. p \in People /\ Home[p] = sessions[b].tenant /\ Email[p] = Email[sessions[b].who]
    BY <2>2 DEF UnlockedBy
  <2>4. sessions[b].who \in People
    <3>1. sessions[b] \in Session
      BY <1>2, <2>1
    <3>2. QED BY <3>1, SessionTypes
  <2>5. p = sessions[b].who
    BY <1>3, <2>1, <2>3, <2>4, WebAuthAssumption
  <2> DEFINE w == [who |-> p, left |-> FALSE]
  <2>6. w \in Sudo /\ w.who = p /\ unlocks' = [unlocks EXCEPT ![b] = w]
    BY <2>2, <2>3 DEF Sudo
  <2> HIDE DEF w
  <2>7. /\ unlocks' \in [Browsers -> Sudo] /\ unlocks'[b] = w
        /\ \A c \in Browsers : c # b => unlocks'[c] = unlocks[c]
    BY <1>2, <2>6
  <2>8. QED BY <1>1, <1>2, <1>3, <2>1, <2>5, <2>6, <2>7, BrowserStep
<1>5. CASE OpenWindow(b)
  <2>1. /\ unlocks' = [unlocks EXCEPT ![b] = NoSudo] /\ sudo' = [sudo EXCEPT ![b] = unlocks[b]]
        /\ UNCHANGED ops
    BY <1>5 DEF OpenWindow
  <2>2. /\ unlocks' \in [Browsers -> Sudo] /\ unlocks'[b] = NoSudo
        /\ sudo' \in [Browsers -> Sudo] /\ sudo'[b] = unlocks[b]
        /\ \A c \in Browsers : c # b => unlocks'[c] = unlocks[c] /\ sudo'[c] = sudo[c]
    BY <1>2, <2>1
  <2>3. QED BY <1>1, <1>2, <1>3, <2>1, <2>2, BrowserStep
<1>6. CASE UnlockFails(b)
  <2>1. unlocks' = [unlocks EXCEPT ![b] = NoSudo] /\ UNCHANGED <<ops, sudo>>
    BY <1>6 DEF UnlockFails
  <2>2. /\ unlocks' \in [Browsers -> Sudo] /\ unlocks'[b] = NoSudo
        /\ \A c \in Browsers : c # b => unlocks'[c] = unlocks[c]
    BY <1>2, <2>1
  <2>3. QED BY <1>1, <1>2, <1>3, <2>1, <2>2, BrowserStep
<1>7. CASE WindowCloses(b)
  <2>1. sudo' = [sudo EXCEPT ![b] = NoSudo] /\ UNCHANGED <<ops, unlocks>>
    BY <1>7 DEF WindowCloses
  <2>2. /\ sudo' \in [Browsers -> Sudo] /\ sudo'[b] = NoSudo
        /\ \A c \in Browsers : c # b => sudo'[c] = sudo[c]
    BY <1>2, <2>1
  <2>3. QED BY <1>1, <1>2, <1>3, <2>1, <2>2, BrowserStep
<1>8. QED BY <1>4, <1>5, <1>6, <1>7

(* Accounts change; without a platform nobody becomes active this way.       *)
LEMMA AccountStep ==
    ASSUME IInv,
           \/ \E b \in Browsers, p \in People : ManageMember(b, p)
           \/ \E p \in People : PlatformChange(p)
           \/ \E b \in Browsers : ChangePassword(b)
    PROVE  IInv'
<1>1. /\ UNCHANGED <<platform, members, sessions, sudo, unlocks, logins, links, procs, last, spent>>
      /\ ops' \in 0..MaxOps
  BY OperateType DEF ManageMember, PlatformChange, ChangePassword
<1>2. /\ people' \in [People -> Account]
      /\ platform \/ \A p \in People : people'[p].active = people[p].active
  <2>1. ASSUME NEW p \in People
        PROVE  /\ people[p] \in Account /\ [people[p] EXCEPT !.admin = ~@] \in Account
               /\ [people[p] EXCEPT !.active = ~@] \in Account /\ [people[p] EXCEPT !.pw = @ + 1] \in Account
               /\ [people[p] EXCEPT !.pw = @ + 1].active = people[p].active
    <3>1. people[p] \in Account
      BY DEF IInv, TypeOK
    <3>2. people[p].admin \in BOOLEAN /\ people[p].active \in BOOLEAN /\ people[p].pw + 1 \in Nat
      BY <3>1 DEF Account
    <3>3. /\ [people[p] EXCEPT !.admin = ~@] \in Account
          /\ [people[p] EXCEPT !.active = ~@] \in Account
      BY <3>1, <3>2 DEF Account
    <3>4. /\ [people[p] EXCEPT !.pw = @ + 1] \in Account
          /\ [people[p] EXCEPT !.pw = @ + 1].active = people[p].active
      BY <3>1, <3>2 DEF Account
    <3>5. QED BY <3>1, <3>3, <3>4
  <2>2. CASE \E b \in Browsers, p \in People : ManageMember(b, p)
    <3>1. PICK b \in Browsers, p \in People : ManageMember(b, p)
      BY <2>2
    <3>2. platform /\ people' = [people EXCEPT ![p] = [people[p] EXCEPT !.active = ~@]]
      BY <3>1 DEF ManageMember, Gate
    <3>3. QED BY <2>1, <3>2 DEF IInv, TypeOK
  <2>3. CASE \E p \in People : PlatformChange(p)
    <3>1. PICK p \in People : PlatformChange(p)
      BY <2>3
    <3>2. platform /\ people' = [people EXCEPT ![p] = [people[p] EXCEPT !.admin = ~@]]
      BY <3>1 DEF PlatformChange
    <3>3. QED BY <2>1, <3>2 DEF IInv, TypeOK
  <2>4. CASE \E b \in Browsers : ChangePassword(b)
    <3>1. PICK b \in Browsers : ChangePassword(b)
      BY <2>4
    <3>2. sessions[b] \in Session
      BY <3>1 DEF ChangePassword, IInv, TypeOK
    <3> DEFINE p == sessions[b].row
               n == [people[p] EXCEPT !.pw = @ + 1]
    <3>3. p \in People
      BY <3>2 DEF Session
    <3>4. people' = [people EXCEPT ![p] = n]
      BY <3>1 DEF ChangePassword
    <3>5. n \in Account /\ n.active = people[p].active
      BY <2>1, <3>3
    <3> HIDE DEF n, p
    <3>6. QED BY <3>3, <3>4, <3>5 DEF IInv, TypeOK
  <2>5. QED BY <2>2, <2>3, <2>4
<1>3. TypeOK'
  BY <1>1, <1>2 DEF IInv, TypeOK
<1>4. SessionsStayHome' /\ Underway' /\ Windows' /\ Lone' /\ Told' /\ Spent' /\ Enlisted'
  BY <1>1, <1>2 DEF IInv, SessionsStayHome, Underway, Windows, Lone, Told, Spent, Enlisted
<1>5. QED BY <1>3, <1>4 DEF IInv

-----------------------------------------------------------------------------
(* Without a platform.                                                       *)

(* A new account owns its workspace.                                         *)
LEMMA SignupStep ==
    ASSUME IInv, NEW p \in People, Signup(p)
    PROVE  IInv'
<1>1. /\ UNCHANGED <<platform, sessions, sudo, unlocks, logins, links, procs, last, spent>>
      /\ ops' \in 0..MaxOps /\ ~platform
  BY OperateType DEF Signup
<1>2. \A i \in SignIns : logins[i].pc = "idle"
  BY <1>1 DEF IInv, Underway
<1>3. \A q \in People : last[q] = "unknown"
  BY <1>1 DEF IInv, Told
<1>4. Lone' /\ Told' /\ Spent' /\ Underway' /\ Windows' /\ SessionsStayHome'
  BY <1>1, <1>2, <1>3 DEF IInv, Lone, Told, Spent, Underway, Windows, SessionsStayHome
<1> DEFINE n == [people[p] EXCEPT !.active = TRUE]
<1>5. people' = [people EXCEPT ![p] = n] /\ members' = [members EXCEPT ![p][Home[p]] = "OWNER"]
  BY DEF Signup
<1>6. n \in Account
  <2>1. people[p] \in Account
    BY DEF IInv, TypeOK
  <2>2. QED BY <2>1 DEF Account
<1> HIDE DEF n
<1>7. people' \in [People -> Account] /\ \A q \in People : q # p => people'[q] = people[q]
  BY <1>5, <1>6 DEF IInv, TypeOK
<1>8. members[p] \in [Tenants -> Roles \cup {"none"}] /\ Home[p] \in Tenants
  BY Homes
<1>9. members' \in [People -> [Tenants -> Roles \cup {"none"}]]
  BY <1>5, <1>8 DEF IInv, TypeOK, Roles
<1>10. members'[p][Home[p]] = "OWNER" /\ \A q \in People : q # p => members'[q] = members[q]
  BY <1>5, <1>8 DEF IInv, TypeOK
<1>11. TypeOK'
  BY <1>1, <1>7, <1>9 DEF IInv, TypeOK
<1>12. Enlisted'
  <2>1. ASSUME NEW b \in Browsers, sessions[b] # NoSession
        PROVE  members'[sessions[b].who][Home[sessions[b].who]] # "none"
    <3>1. sessions[b].who \in People
      BY <2>1, SessionTypes DEF IInv, TypeOK
    <3>2. members[sessions[b].who][Home[sessions[b].who]] # "none"
      BY <2>1 DEF IInv, Enlisted
    <3>3. QED BY <1>10, <3>1, <3>2
  <2>2. \A q \in People : people'[q].active => members'[q][Home[q]] # "none"
    BY <1>1, <1>7, <1>10 DEF IInv, Enlisted
  <2>3. QED BY <1>1, <1>2, <2>1, <2>2 DEF Enlisted
<1>13. QED BY <1>4, <1>11, <1>12 DEF IInv

(* A local sign-in finds a member, and leaves whatever session was there.    *)
LEMMA LocalLoginStep ==
    ASSUME IInv, NEW b \in Browsers, NEW p \in People, LocalLogin(b, p)
    PROVE  IInv'
<1> DEFINE s == [who |-> p, row |-> p, tenant |-> Home[p], role |-> members[p][Home[p]], old |-> FALSE]
<1>1. /\ UNCHANGED <<platform, people, members, logins, links, procs, last, spent>>
      /\ ops' \in 0..MaxOps /\ ~platform /\ people[p].active /\ Leave(b)
      /\ sessions' = [sessions EXCEPT ![b] = s]
  BY OperateType DEF LocalLogin
<1>2. members[p][Home[p]] # "none"
  BY <1>1 DEF IInv, Enlisted
<1>3. s \in Session /\ s.who = p /\ s.row = p /\ s.tenant = Home[p]
  BY <1>2, Homes DEF Session
<1> HIDE DEF s
<1>4. /\ sessions' \in [Browsers -> Session \cup {NoSession}] /\ sessions'[b] = s
      /\ \A c \in Browsers : c # b => sessions'[c] = sessions[c]
  BY <1>1, <1>3 DEF IInv, TypeOK
<1>5. /\ sudo' \in [Browsers -> Sudo] /\ unlocks' \in [Browsers -> Sudo]
      /\ sudo'[b] = NoSudo \/ sudo'[b].left
      /\ unlocks'[b] = NoSudo \/ unlocks'[b].left
      /\ \A c \in Browsers : c # b => sudo'[c] = sudo[c] /\ unlocks'[c] = unlocks[c]
  BY <1>1, LeaveStep
<1>6. people \in [People -> Account]
  BY DEF IInv, TypeOK
<1>7. QED BY <1>1, <1>2, <1>3, <1>4, <1>5, <1>6, BrowserStep

(* What a step about links leaves to show: its own variables.                *)
LEMMA LinksApart ==
    ASSUME IInv, UNCHANGED <<platform, members, sessions, sudo, unlocks, logins, last>>,
           people' \in [People -> Account], \A p \in People : people'[p].active = people[p].active,
           links' \in [rows: [Links -> People \cup {NoOne}], mailed: SUBSET Links, expired: SUBSET Links],
           procs' \in [Procs -> Proc], ops' \in 0..MaxOps, spent' \subseteq Links, Spent'
    PROVE  IInv'
<1>1. TypeOK'
  BY DEF IInv, TypeOK
<1>2. SessionsStayHome' /\ Underway' /\ Windows' /\ Lone' /\ Told' /\ Enlisted'
  BY DEF IInv, SessionsStayHome, Underway, Windows, Lone, Told, Enlisted
<1>3. QED BY <1>1, <1>2 DEF IInv

(* A link is made, mailed, found, deleted and spent, or it expires.          *)
LEMMA LinkStep ==
    ASSUME IInv,
           \/ \E r \in Procs, p \in People, l \in Links : RequestReset(r, p, l)
           \/ \E r \in Procs : MailLink(r) \/ DeleteLink(r) \/ WritePassword(r) \/ RequestLost(r)
           \/ \E l \in Links : LinkExpires(l)
           \/ \E r \in Procs, l \in Links : FindLink(r, l)
    PROVE  IInv'
<1> DEFINE Rows == [rows: [Links -> People \cup {NoOne}], mailed: SUBSET Links, expired: SUBSET Links]
<1>1. /\ people \in [People -> Account] /\ links \in Rows /\ procs \in [Procs -> Proc]
      /\ ops \in 0..MaxOps /\ spent \subseteq Links
  BY DEF IInv, TypeOK
<1>2. /\ links.rows \in [Links -> People \cup {NoOne}] /\ links.mailed \subseteq Links
      /\ links.expired \subseteq Links
  BY <1>1
<1>3. Idle \in Proc /\ Idle.pc = "idle" /\ NoOne \notin People
  BY SessionTypes DEF Idle
<1>4. ASSUME NEW r \in Procs, NEW p \in People, NEW l \in Links, RequestReset(r, p, l) PROVE IInv'
  <2> DEFINE n == [pc |-> "mint", who |-> p, link |-> l, seen |-> {x \in Links : links.rows[x] = p}]
  <2>1. /\ UNCHANGED <<platform, people, members, sessions, sudo, unlocks, logins, links, last, spent>>
        /\ procs' = [procs EXCEPT ![r] = n] /\ ops' \in 0..MaxOps
    BY <1>4, OperateType DEF RequestReset
  <2>2. n \in Proc /\ n.pc = "mint" /\ n.who = p /\ n.link = l
    BY DEF Proc
  <2> HIDE DEF n
  <2>3. procs' \in [Procs -> Proc] /\ procs'[r] = n /\ \A q \in Procs : q # r => procs'[q] = procs[q]
    BY <1>1, <2>1, <2>2
  <2>4. Spent'
    BY <2>1, <2>2, <2>3 DEF IInv, Spent
  <2>5. QED BY <1>1, <2>1, <2>3, <2>4, LinksApart
<1>5. ASSUME NEW r \in Procs, MailLink(r) PROVE IInv'
  <2> DEFINE q == procs[r]
             rows == [x \in Links |-> IF x = q.link THEN q.who ELSE IF x \in q.seen THEN NoOne ELSE links.rows[x]]
  <2>1. /\ UNCHANGED <<platform, people, members, sessions, sudo, unlocks, logins, ops, last, spent>>
        /\ procs' = [procs EXCEPT ![r] = Idle] /\ q.pc = "mint" /\ q.link \notin links.mailed
        /\ links' = [links EXCEPT !.rows = rows, !.mailed = links.mailed \cup {q.link}]
    BY <1>5 DEF MailLink
  <2>2. q.link \in Links /\ q.who \in People
    BY <2>1 DEF IInv, Spent
  <2>3. rows \in [Links -> People \cup {NoOne}]
    BY <1>2, <2>2
  <2>4. \A x \in Links : rows[x] = IF x = q.link THEN q.who ELSE IF x \in q.seen THEN NoOne ELSE links.rows[x]
    OBVIOUS
  <2> HIDE DEF rows
  <2>5. links' \in Rows /\ links'.rows = rows /\ links'.mailed = links.mailed \cup {q.link}
    BY <1>1, <1>2, <2>1, <2>2, <2>3
  <2>6. procs' \in [Procs -> Proc] /\ procs'[r] = Idle /\ \A c \in Procs : c # r => procs'[c] = procs[c]
    BY <1>1, <1>3, <2>1
  <2>7. \A x \in links.mailed : links.rows[x] = NoOne => rows[x] = NoOne
    BY <1>2, <2>1, <2>4
  <2>8. \A x \in Links : rows[x] # NoOne => x \in links'.mailed
    BY <2>4, <2>5 DEF IInv, Spent
  <2>9. spent \subseteq links'.mailed /\ \A x \in spent : rows[x] = NoOne
    BY <2>5, <2>7 DEF IInv, Spent
  <2>10. ASSUME NEW c \in Procs, procs'[c].pc = "write"
         PROVE  /\ procs'[c].link \in links'.mailed \ spent /\ rows[procs'[c].link] = NoOne
                /\ procs'[c].who \in People
                /\ \A d \in Procs : procs'[d].pc = "write" /\ procs'[d].link = procs'[c].link => d = c
    <3>1. c # r /\ procs'[c] = procs[c]
      BY <1>3, <2>6, <2>10
    <3>2. procs[c].link \in links.mailed \ spent /\ links.rows[procs[c].link] = NoOne /\ procs[c].who \in People
      BY <2>10, <3>1 DEF IInv, Spent
    <3>3. \A d \in Procs : procs'[d].pc = "write" /\ procs'[d].link = procs'[c].link => d = c
      BY <1>3, <2>6, <2>10, <3>1 DEF IInv, Spent
    <3>4. QED BY <2>5, <2>7, <3>1, <3>2, <3>3
  <2>11. ASSUME NEW c \in Procs, procs'[c].pc \in {"mint", "delete"}
         PROVE  /\ procs'[c].link \in Links /\ procs'[c].who \in People
                /\ procs'[c].pc = "delete" => procs'[c].link \in links'.mailed
    <3>1. procs'[c] = procs[c]
      BY <1>3, <2>6, <2>11
    <3>2. QED BY <2>5, <2>11, <3>1 DEF IInv, Spent
  <2>12. Spent'
    BY <2>1, <2>5, <2>8, <2>9, <2>10, <2>11 DEF Spent
  <2>13. QED BY <1>1, <2>1, <2>5, <2>6, <2>12, LinksApart
<1>6. ASSUME NEW r \in Procs, DeleteLink(r) PROVE IInv'
  <2> DEFINE q == procs[r]
             l == q.link
             w == [q EXCEPT !.pc = "write"]
             n == IF Deleted(l) /\ l \notin links.expired THEN w ELSE Idle
             rows == [links.rows EXCEPT ![l] = NoOne]
  <2>1. /\ UNCHANGED <<platform, people, members, sessions, sudo, unlocks, logins, ops, last, spent>>
        /\ procs' = [procs EXCEPT ![r] = n] /\ q.pc = "delete"
        /\ links' = [links EXCEPT !.rows = rows]
    BY <1>6 DEF DeleteLink
  <2>2. l \in links.mailed /\ l \in Links /\ q.who \in People
    BY <2>1 DEF IInv, Spent
  <2>3. rows \in [Links -> People \cup {NoOne}] /\ rows[l] = NoOne /\ \A x \in Links : x # l => rows[x] = links.rows[x]
    BY <1>2, <2>2
  <2>4. w \in Proc /\ w.pc = "write" /\ w.link = l /\ w.who = q.who
    BY <1>1 DEF Proc
  <2>5. n \in Proc /\ (n = Idle \/ (n = w /\ links.rows[l] # NoOne))
    BY <1>3, <2>4 DEF Deleted
  <2> HIDE DEF rows, w, n
  <2>6. links' \in Rows /\ links'.rows = rows /\ links'.mailed = links.mailed
    BY <1>1, <1>2, <2>1, <2>3
  <2>7. procs' \in [Procs -> Proc] /\ procs'[r] = n /\ \A c \in Procs : c # r => procs'[c] = procs[c]
    BY <1>1, <2>1, <2>5
  <2>8. \A x \in Links : links.rows[x] = NoOne => rows[x] = NoOne
    BY <2>3
  <2>9. /\ \A x \in Links : rows[x] # NoOne => x \in links'.mailed
        /\ spent \subseteq links'.mailed /\ \A x \in spent : rows[x] = NoOne
    BY <1>1, <2>3, <2>6, <2>8 DEF IInv, Spent
  <2>10. ASSUME NEW c \in Procs, procs'[c].pc = "write"
         PROVE  /\ procs'[c].link \in links'.mailed \ spent /\ rows[procs'[c].link] = NoOne
                /\ procs'[c].who \in People
                /\ \A d \in Procs : procs'[d].pc = "write" /\ procs'[d].link = procs'[c].link => d = c
    <3>1. ASSUME NEW d \in Procs, d # r, procs'[d].pc = "write"
          PROVE  procs[d].pc = "write" /\ procs'[d] = procs[d]
                 /\ procs[d].link \in links.mailed \ spent /\ links.rows[procs[d].link] = NoOne
                 /\ procs[d].who \in People
      BY <2>7, <3>1 DEF IInv, Spent
    <3>2. CASE c = r
      <4>1. n = w /\ links.rows[l] # NoOne /\ procs'[c].link = l /\ procs'[c].who = q.who
        BY <1>3, <2>4, <2>5, <2>7, <2>10, <3>2
      <4>2. l \notin spent
        BY <4>1 DEF IInv, Spent
      <4>3. \A d \in Procs : procs'[d].pc = "write" /\ procs'[d].link = l => d = r
        BY <3>1, <4>1
      <4>4. QED BY <2>2, <2>3, <2>6, <3>2, <4>1, <4>2, <4>3
    <3>3. CASE c # r
      <4>1. procs'[c] = procs[c] /\ procs[c].pc = "write" /\ procs[c].link \in links.mailed \ spent
            /\ links.rows[procs[c].link] = NoOne /\ procs[c].who \in People
        BY <2>10, <3>1, <3>3
      <4>2. ASSUME NEW d \in Procs, procs'[d].pc = "write", procs'[d].link = procs'[c].link PROVE d = c
        <5>1. CASE d = r
          <6>1. links.rows[l] # NoOne /\ procs'[d].link = l
            BY <1>3, <2>4, <2>5, <2>7, <4>2, <5>1
          <6>2. QED BY <4>1, <4>2, <6>1
        <5>2. CASE d # r
          <6>1. procs'[d] = procs[d]
            BY <2>7, <5>2
          <6>2. QED BY <4>1, <4>2, <6>1 DEF IInv, Spent
        <5>3. QED BY <5>1, <5>2
      <4>3. QED BY <1>2, <2>6, <2>8, <4>1, <4>2
    <3>4. QED BY <3>2, <3>3
  <2>11. ASSUME NEW c \in Procs, procs'[c].pc \in {"mint", "delete"}
         PROVE  /\ procs'[c].link \in Links /\ procs'[c].who \in People
                /\ procs'[c].pc = "delete" => procs'[c].link \in links'.mailed
    <3>1. procs'[c] = procs[c]
      BY <1>3, <2>4, <2>5, <2>7, <2>11
    <3>2. QED BY <2>6, <2>11, <3>1 DEF IInv, Spent
  <2>12. Spent'
    BY <2>1, <2>6, <2>9, <2>10, <2>11 DEF Spent
  <2>13. QED BY <1>1, <2>1, <2>6, <2>7, <2>12, LinksApart
<1>7. ASSUME NEW r \in Procs, WritePassword(r) PROVE IInv'
  <2> DEFINE q == procs[r]
             n == [people[q.who] EXCEPT !.pw = @ + 1]
  <2>1. /\ UNCHANGED <<platform, members, sessions, sudo, unlocks, logins, links, ops, last>>
        /\ procs' = [procs EXCEPT ![r] = Idle] /\ q.pc = "write" /\ spent' = spent \cup {q.link}
        /\ people' = [people EXCEPT ![q.who] = n]
    BY <1>7 DEF WritePassword
  <2>2. q.link \in links.mailed \ spent /\ links.rows[q.link] = NoOne /\ q.who \in People /\ q.link \in Links
        /\ \A c \in Procs : procs[c].pc = "write" /\ procs[c].link = q.link => c = r
    BY <1>2, <2>1 DEF IInv, Spent
  <2>3. people[q.who] \in Account /\ people[q.who].pw + 1 \in Nat
    BY <1>1, <2>2 DEF Account
  <2>4. n \in Account /\ n.active = people[q.who].active
    BY <2>3 DEF Account
  <2> HIDE DEF n
  <2>5. people' \in [People -> Account] /\ \A p \in People : people'[p].active = people[p].active
    BY <1>1, <2>1, <2>4
  <2>6. procs' \in [Procs -> Proc] /\ procs'[r] = Idle /\ \A c \in Procs : c # r => procs'[c] = procs[c]
    BY <1>1, <1>3, <2>1
  <2>7. Spent'
    BY <1>3, <2>1, <2>2, <2>6 DEF IInv, Spent
  <2>8. QED BY <1>1, <2>1, <2>2, <2>5, <2>6, <2>7, LinksApart
<1>8. ASSUME NEW r \in Procs, RequestLost(r) PROVE IInv'
  <2>1. /\ UNCHANGED <<platform, people, members, sessions, sudo, unlocks, logins, links, ops, last, spent>>
        /\ procs' = [procs EXCEPT ![r] = Idle]
    BY <1>8 DEF RequestLost
  <2>2. procs' \in [Procs -> Proc] /\ procs'[r] = Idle /\ \A c \in Procs : c # r => procs'[c] = procs[c]
    BY <1>1, <1>3, <2>1
  <2>3. Spent'
    BY <1>3, <2>1, <2>2 DEF IInv, Spent
  <2>4. QED BY <1>1, <2>1, <2>2, <2>3, LinksApart
<1>9. ASSUME NEW l \in Links, LinkExpires(l) PROVE IInv'
  <2>1. /\ UNCHANGED <<platform, people, members, sessions, sudo, unlocks, logins, procs, ops, last, spent>>
        /\ links' = [links EXCEPT !.expired = links.expired \cup {l}]
    BY <1>9 DEF LinkExpires
  <2>2. links' \in Rows /\ links'.rows = links.rows /\ links'.mailed = links.mailed
    BY <1>1, <1>2, <2>1
  <2>3. Spent'
    BY <2>1, <2>2 DEF IInv, Spent
  <2>4. QED BY <1>1, <2>1, <2>2, <2>3, LinksApart
<1>10. ASSUME NEW r \in Procs, NEW l \in Links, FindLink(r, l) PROVE IInv'
  <2> DEFINE n == [pc |-> "delete", who |-> links.rows[l], link |-> l, seen |-> {}]
  <2>1. /\ UNCHANGED <<platform, people, members, sessions, sudo, unlocks, logins, links, ops, last, spent>>
        /\ procs' = [procs EXCEPT ![r] = n] /\ links.rows[l] # NoOne
    BY <1>10 DEF FindLink
  <2>2. links.rows[l] \in People /\ l \in links.mailed
    BY <1>2, <2>1 DEF IInv, Spent
  <2>3. n \in Proc /\ n.pc = "delete" /\ n.link = l /\ n.who \in People
    BY <2>2 DEF Proc
  <2> HIDE DEF n
  <2>4. procs' \in [Procs -> Proc] /\ procs'[r] = n /\ \A c \in Procs : c # r => procs'[c] = procs[c]
    BY <1>1, <2>1, <2>3
  <2>5. Spent'
    BY <2>1, <2>2, <2>3, <2>4 DEF IInv, Spent
  <2>6. QED BY <1>1, <2>1, <2>4, <2>5, LinksApart
<1>11. QED BY <1>4, <1>5, <1>6, <1>7, <1>8, <1>9, <1>10

-----------------------------------------------------------------------------
(* The theorems.                                                             *)

(* Every step keeps the invariant.                                           *)
LEMMA Inductive == IInv /\ [Next]_vars => IInv'
<1> SUFFICES ASSUME IInv, [Next]_vars PROVE IInv'
  OBVIOUS
<1>1. CASE UNCHANGED vars
  BY <1>1 DEF vars, IInv, TypeOK, SessionsStayHome, Underway, Windows, Lone, Told, Spent, Enlisted
<1>2. CASE Next
  <2>1. CASE \E i \in SignIns : \/ \E b \in Browsers, p \in People : PlatformLogin(i, b, p)
                               \/ Provision(i) \/ WriteMembership(i) \/ StartSession(i) \/ LoginFails(i)
    BY <2>1, PlatformLoginStep, SignInStep
  <2>2. CASE \E b \in Browsers : \/ Minute(b) \/ Serve(b) \/ SignOut(b)
                                \/ Unlock(b) \/ OpenWindow(b) \/ UnlockFails(b) \/ WindowCloses(b)
                                \/ ChangePassword(b)
                                \/ \E p \in People : ManageMember(b, p) \/ LocalLogin(b, p)
    BY <2>2, SessionStep, SudoStep, AccountStep, LocalLoginStep
  <2>3. CASE \E p \in People : PlatformChange(p) \/ Signup(p)
    BY <2>3, AccountStep, SignupStep
  <2>4. CASE \/ \E r \in Procs, p \in People, l \in Links : RequestReset(r, p, l)
             \/ \E r \in Procs : MailLink(r) \/ DeleteLink(r) \/ WritePassword(r) \/ RequestLost(r)
             \/ \E l \in Links : LinkExpires(l)
             \/ \E r \in Procs, l \in Links : FindLink(r, l)
    BY <2>4, LinkStep
  <2>5. QED BY <1>2, <2>1, <2>2, <2>3, <2>4 DEF Next
<1>3. QED BY <1>1, <1>2

(* The invariant holds in every reachable state, for any accounts, browsers  *)
(* and links.                                                                *)
THEOREM WebAuthInvariant == Spec => []IInv
<1>1. QED BY Initially, Inductive, PTL DEF Spec

(* A session, and a sudo window in the session it was opened in, act as the   *)
(* account that signed in, in its own workspace, whoever else signs in in the *)
(* browser meanwhile: the jwt callback and the sudo routes.  The window of an *)
(* earlier session is excused.                                               *)
THEOREM SessionsAtHome == Spec => []WebAuthInv
<1>1. IInv => WebAuthInv
  BY DEF IInv, WebAuthInv
<1>2. QED BY <1>1, WebAuthInvariant, PTL

(* A role looked up, again or by a sign-in over the session, is the one the   *)
(* platform told an undisturbed sign-in: provisionFromPlatform and the jwt    *)
(* callback.                                                                 *)
THEOREM RolesAsTold == Spec => RolesFollowLogins
<1> DEFINE A == \A b \in Browsers :
         sessions[b] # NoSession /\ sessions'[b] # NoSession /\ sessions[b].old /\ ~sessions'[b].old =>
           LET p == sessions'[b].who IN last[p] # "unknown" => sessions'[b].role = last[p]
<1>1. ASSUME IInv, [Next]_vars PROVE A
  <2> SUFFICES ASSUME NEW b \in Browsers, sessions[b] # NoSession, sessions'[b] # NoSession,
                      sessions[b].old, ~sessions'[b].old, last[sessions'[b].who] # "unknown"
               PROVE  sessions'[b].role = last[sessions'[b].who]
    OBVIOUS
  <2>1. sessions[b] \in Session /\ sessions[b].who \in People /\ sessions \in [Browsers -> Session \cup {NoSession}]
    <3>1. sessions[b] \in Session /\ sessions \in [Browsers -> Session \cup {NoSession}]
      BY <1>1 DEF IInv, TypeOK
    <3>2. QED BY <3>1, SessionTypes
  <2>2. sessions'[b] # sessions[b]
    OBVIOUS
  <2>3. \A p \in People : last[p] # "unknown" => members[p][Home[p]] = last[p] /\ platform
    BY <1>1 DEF IInv, Told
  <2>4. \/ \E i \in SignIns : StartSession(i)
        \/ \E c \in Browsers : \/ Minute(c) \/ Serve(c) \/ SignOut(c)
                               \/ \E p \in People : LocalLogin(c, p)
    BY <1>1, <2>2
    DEF Next, vars, PlatformLogin, Provision, WriteMembership, LoginFails, Unlock, OpenWindow, UnlockFails,
        WindowCloses, ChangePassword, ManageMember, PlatformChange, Signup, RequestReset, MailLink, DeleteLink,
        WritePassword, RequestLost, LinkExpires, FindLink
  <2>5. ASSUME NEW i \in SignIns, StartSession(i) PROVE sessions'[b].role = last[sessions'[b].who]
    <3> DEFINE w == logins[i].who
               n == [who |-> w, row |-> w, tenant |-> Home[w], role |-> members[w][Home[w]], old |-> FALSE]
    <3>1. sessions' = [sessions EXCEPT ![logins[i].at] = n] /\ logins[i].pc # "idle"
      BY <2>5 DEF StartSession, UserRow
    <3>2. w \in People /\ n.who = w /\ n.role = members[w][Home[w]]
      BY <1>1, <3>1 DEF IInv, Underway
    <3> HIDE DEF n
    <3>3. sessions'[b] = n
      BY <2>1, <2>2, <3>1
    <3>4. QED BY <2>3, <3>2, <3>3
  <2>6. ASSUME NEW c \in Browsers, NEW p \in People, LocalLogin(c, p) PROVE FALSE
    <3>1. ~platform
      BY <2>6 DEF LocalLogin
    <3> DEFINE n == [who |-> p, row |-> p, tenant |-> Home[p], role |-> members[p][Home[p]], old |-> FALSE]
    <3>2. sessions' = [sessions EXCEPT ![c] = n] /\ n.who = p
      BY <2>6 DEF LocalLogin
    <3> HIDE DEF n
    <3>3. sessions'[b] = n
      BY <2>1, <2>2, <3>2
    <3>4. QED BY <2>3, <3>1, <3>2, <3>3
  <2>7. ASSUME NEW c \in Browsers, Minute(c) \/ SignOut(c) PROVE FALSE
    <3>1. c = b
      BY <2>1, <2>2, <2>7 DEF Minute, SignOut
    <3>2. QED BY <2>1, <2>7, <3>1 DEF Minute, SignOut
  <2>8. ASSUME NEW c \in Browsers, Serve(c) PROVE sessions'[b].role = last[sessions'[b].who]
    <3>1. c = b
      BY <2>1, <2>2, <2>8 DEF Serve
    <3>2. sessions[b].row = sessions[b].who /\ sessions[b].tenant = Home[sessions[b].who]
      BY <1>1 DEF IInv, SessionsStayHome
    <3> DEFINE m == [sessions[b] EXCEPT !.role = members[sessions[b].row][sessions[b].tenant], !.old = FALSE]
    <3>3. sessions' = [sessions EXCEPT ![b] = m]
      BY <2>8, <3>1 DEF Serve
    <3>4. m.role = members[sessions[b].who][Home[sessions[b].who]] /\ m.who = sessions[b].who
      BY <2>1, <3>2 DEF Session
    <3> HIDE DEF m
    <3>5. sessions'[b] = m
      BY <2>1, <3>3
    <3>6. QED BY <2>1, <2>3, <3>4, <3>5
  <2>9. QED BY <2>4, <2>5, <2>6, <2>7, <2>8
<1> HIDE DEF A
<1>2. Spec => [][A]_vars
  BY <1>1, WebAuthInvariant, PTL DEF Spec
<1>3. QED BY <1>2 DEF A, RolesFollowLogins

(* A reset link sets one password: consumeToken's delete by the unique key.  *)
THEOREM LinksOnce == Spec => LinksAreSpentOnce
<1> DEFINE A == \A p \in People : people'[p].pw # people[p].pw =>
         \A r \in Procs : procs[r].pc = "write" /\ procs'[r].pc = "idle" => procs[r].link \notin spent
<1>1. IInv => A
  BY DEF IInv, Spent
<1> HIDE DEF A
<1>2. Spec => [][A]_vars
  BY <1>1, WebAuthInvariant, PTL DEF Spec
<1>3. QED BY <1>2 DEF A, LinksAreSpentOnce
===============================================================================
