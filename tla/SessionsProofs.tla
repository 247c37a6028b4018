---------------------------- MODULE SessionsProofs ----------------------------
(***************************************************************************)
(* Proofs about module Sessions, for any accounts, tenants, tokens and     *)
(* handlers in flight, and any bound.                                      *)
(***************************************************************************)
EXTENDS Sessions, TLAPS

-----------------------------------------------------------------------------
(* The inductive invariant: what a handler still knows of what it read.     *)

\* The rows a handler works on were there when it began.
Placed(p) ==
    /\ procs[p].pc \notin {"idle", "erase"} => procs[p].user \in Users
    /\ procs[p].pc = "erase" =>
          procs[p].tenant \in Tenants /\ tenants[procs[p].tenant].row # "never"
    /\ procs[p].pc \in {"reset", "purge"} => users[procs[p].user].row # "never"
    /\ procs[p].token \in Tokens \cup {0}
    /\ procs[p].pc = "rotate" => procs[p].token # 0
    /\ procs[p].token # 0 => tokens[procs[p].token].state # "unused"

\* Whoever carries on an ended session was overtaken.
Carrying(p) == procs[p].stale => procs[p].late

\* A gate that was passed is still open, unless a lock was set behind it.
PastGates(p) ==
    ~procs[p].excused =>
        /\ procs[p].pc = "account" => TenantUsable(TenantOf[procs[p].user])
        /\ procs[p].pc \in PastAccount => Admitted(procs[p].user)
        /\ procs[p].pc \in PastApp => AppEnabled(procs[p].user, procs[p].app)

\* The hash a reset was checked against is still stored, or the row is gone.
BoundToHash(p) ==
    procs[p].pc = "reset" /\ ~procs[p].late /\ users[procs[p].user].row = "present" =>
        procs[p].pw = users[procs[p].user].pw

\* What takes a platform admin away has counted another one.
Counted(p) ==
    /\ procs[p].pc = "remove" /\ ~procs[p].late => NotLastPlatformAdmin(procs[p].user)
    /\ procs[p].pc = "update" /\ procs[p].edit.admin = "demote" /\ ~procs[p].late =>
          NotLastPlatformAdmin(procs[p].user)

\* What is about to be erased is still soft-deleted.
Erasing(p) ==
    /\ procs[p].pc = "purge" /\ ~procs[p].late =>
          users[procs[p].user].row # "present" \/ users[procs[p].user].deleted
    /\ procs[p].pc = "erase" /\ ~procs[p].late => tenants[procs[p].tenant].deleted

Sound(p) ==
    Placed(p) /\ Carrying(p) /\ PastGates(p) /\ BoundToHash(p) /\ Counted(p) /\ Erasing(p)

Handlers == \A p \in Procs : Sound(p)

\* A row of the token table has a user.
TokensOwned == \A k \in Tokens : tokens[k].state # "unused" => tokens[k].user \in Users

IInv == TypeOK /\ Handlers /\ TokensOwned /\ SessionsEnd
-----------------------------------------------------------------------------
(* What the operators that mark handlers do.                                 *)

\* h2 is h at the same place, with what is history about it added.
Remarked(h, h2) ==
    /\ h2 \in Proc
    /\ h2.pc = h.pc /\ h2.user = h.user /\ h2.tenant = h.tenant /\ h2.app = h.app
    /\ h2.token = h.token /\ h2.pw = h.pw /\ h2.edit = h.edit
    /\ h.late => h2.late
    /\ h.excused => h2.excused
    /\ h2.stale => h.stale \/ h2.late

(* A handler that nothing marks is as it was.                                *)
LEMMA Unmarked == \A h \in Proc : Remarked(h, h)
  BY DEF Remarked

(* Marks add up.                                                             *)
LEMMA MarksAddUp ==
    ASSUME NEW h \in Proc, NEW h1 \in Proc, NEW h2 \in Proc, Remarked(h, h1), Remarked(h1, h2)
    PROVE  Remarked(h, h2)
  BY DEF Remarked

(* An idle handler is a handler.                                             *)
LEMMA IdleIsProc == IdleProc \in Proc /\ IdleProc.pc = "idle" /\ NoEdit \in Edit
  BY DEF IdleProc, Proc, NoEdit, Edit

(* A lock marks exactly the handlers that stand behind its gate.             *)
LEMMA LockedMarks ==
    ASSUME procs \in [Procs -> Proc], NEW U, NEW S
    PROVE  /\ Locked(U, S) \in [Procs -> Proc]
           /\ \A q \in Procs : /\ Remarked(procs[q], Locked(U, S)[q])
                               /\ Locked(U, S)[q].late = procs[q].late
                               /\ procs[q].user \in U /\ procs[q].pc \in S => Locked(U, S)[q].excused
<1> SUFFICES ASSUME NEW q \in Procs
             PROVE  LET h == IF procs[q].user \in U /\ procs[q].pc \in S
                             THEN [procs[q] EXCEPT !.excused = TRUE] ELSE procs[q]
                    IN /\ h \in Proc
                       /\ Remarked(procs[q], h)
                       /\ h.late = procs[q].late
                       /\ procs[q].user \in U /\ procs[q].pc \in S => h.excused
  BY DEF Locked
<1>1. procs[q] \in Proc
  OBVIOUS
<1>2. [procs[q] EXCEPT !.excused = TRUE] \in Proc
  BY <1>1 DEF Proc
<1>3. Remarked(procs[q], [procs[q] EXCEPT !.excused = TRUE])
  BY <1>1, <1>2 DEF Remarked, Proc
<1>4. /\ [procs[q] EXCEPT !.excused = TRUE].late = procs[q].late
      /\ [procs[q] EXCEPT !.excused = TRUE].excused
  BY <1>1 DEF Proc
<1>5. QED BY <1>1, <1>2, <1>3, <1>4, Unmarked

(* Overtaking marks the handlers it names as late, and no other.             *)
LEMMA OvertakingMarks ==
    ASSUME NEW f \in [Procs -> Proc], NEW Q
    PROVE  /\ Overtaking(f, Q) \in [Procs -> Proc]
           /\ \A q \in Procs : /\ Remarked(f[q], Overtaking(f, Q)[q])
                               /\ Overtaking(f, Q)[q].excused = f[q].excused
                               /\ q \in Q => Overtaking(f, Q)[q].late
<1> SUFFICES ASSUME NEW q \in Procs
             PROVE  LET h == IF q \in Q THEN [f[q] EXCEPT !.late = TRUE] ELSE f[q]
                    IN /\ h \in Proc
                       /\ Remarked(f[q], h)
                       /\ h.excused = f[q].excused
                       /\ q \in Q => h.late
  BY DEF Overtaking
<1>1. f[q] \in Proc
  OBVIOUS
<1>2. [f[q] EXCEPT !.late = TRUE] \in Proc
  BY <1>1 DEF Proc
<1>3. Remarked(f[q], [f[q] EXCEPT !.late = TRUE])
  BY <1>1, <1>2 DEF Remarked, Proc
<1>4. [f[q] EXCEPT !.late = TRUE].excused = f[q].excused /\ [f[q] EXCEPT !.late = TRUE].late
  BY <1>1 DEF Proc
<1>5. QED BY <1>1, <1>2, <1>3, <1>4, Unmarked

(* When the platform admins change, every count under way is late.           *)
LEMMA RecountMarks ==
    ASSUME NEW f \in [Procs -> Proc]
    PROVE  /\ Recount(f) \in [Procs -> Proc]
           /\ \A q \in Procs : /\ Remarked(f[q], Recount(f)[q])
                               /\ Recount(f)[q].excused = f[q].excused
                               /\ Admins' # Admins /\ f[q].pc \in {"remove", "update"} => Recount(f)[q].late
<1>1. CASE Admins' # Admins
  <2> DEFINE Q == {q \in Procs : f[q].pc \in {"remove", "update"}}
  <2>1. Recount(f) = Overtaking(f, Q)
    BY <1>1 DEF Recount
  <2>2. \A q \in Procs : f[q].pc \in {"remove", "update"} => q \in Q
    OBVIOUS
  <2> HIDE DEF Q
  <2>3. QED BY <2>1, <2>2, OvertakingMarks
<1>2. CASE Admins' = Admins
  <2>1. Recount(f) = f
    BY <1>2 DEF Recount
  <2>2. QED BY <2>1, <1>2, Unmarked
<1>3. QED BY <1>1, <1>2

(* Whoever has read the account of u when its sessions end is late.          *)
LEMMA EndSessionsMarks ==
    ASSUME procs \in [Procs -> Proc], NEW p \in Procs, NEW u, EndSessions(p, u)
    PROVE  /\ procs' \in [Procs -> Proc]
           /\ procs'[p] = IdleProc
           /\ \A q \in Procs \ {p} : /\ Remarked(procs[q], procs'[q])
                                     /\ Reading(q, u) => procs'[q].late
<1>1. ASSUME NEW q \in Procs
      PROVE  LET h == [procs[q] EXCEPT !.late = TRUE, !.stale = TRUE]
             IN h \in Proc /\ h.late /\ Remarked(procs[q], h)
  <2> DEFINE h == [procs[q] EXCEPT !.late = TRUE, !.stale = TRUE]
  <2>1. procs[q] \in Proc
    OBVIOUS
  <2>2. h \in Proc /\ h.late
    BY <2>1 DEF Proc
  <2>3. Remarked(procs[q], h)
    BY <2>1, <2>2 DEF Remarked, Proc
  <2>4. QED BY <2>2, <2>3
<1>2. \A q \in Procs : procs'[q] = IF q = p THEN IdleProc
                                   ELSE IF Reading(q, u) THEN [procs[q] EXCEPT !.late = TRUE, !.stale = TRUE]
                                   ELSE procs[q]
  BY DEF EndSessions
<1>3. procs' = [q \in Procs |-> procs'[q]]
  BY DEF EndSessions
<1>4. \A q \in Procs : procs'[q] \in Proc
  BY <1>1, <1>2, IdleIsProc
<1>5. ASSUME NEW q \in Procs, q # p
      PROVE  Remarked(procs[q], procs'[q]) /\ (Reading(q, u) => procs'[q].late)
  <2>1. procs[q] \in Proc
    OBVIOUS
  <2>2. CASE Reading(q, u)
    <3>1. procs'[q] = [procs[q] EXCEPT !.late = TRUE, !.stale = TRUE]
      BY <2>2, <1>2, <1>5
    <3>2. QED BY <3>1, <1>1
  <2>3. CASE ~Reading(q, u)
    <3>1. procs'[q] = procs[q]
      BY <2>3, <1>2, <1>5
    <3>2. QED BY <2>1, <2>3, <3>1, Unmarked
  <2>4. QED BY <2>2, <2>3
<1>6. QED BY <1>2, <1>3, <1>4, <1>5
-----------------------------------------------------------------------------
(* When a handler's part of the invariant survives a step.                   *)

(* Nothing is asked of an idle handler.                                      *)
LEMMA IdleSound ==
    ASSUME NEW q \in Procs, procs'[q] = IdleProc
    PROVE  Sound(q)'
  BY DEF Sound, Placed, Carrying, PastGates, BoundToHash, Counted, Erasing, IdleProc, PastAccount, PastApp

(* What a step may do to the rows under a handler that only marks it.        *)
TokensStay == \A k \in Tokens : tokens[k].state # "unused" => tokens'[k].state # "unused"

RowsStay ==
    /\ TokensStay
    /\ \A u \in Users : users[u].row # "never" => users'[u].row # "never"
    /\ \A t \in Tenants : tenants[t].row # "never" => tenants'[t].row # "never"

GatesStay(q) ==
    \A u \in Users :
        procs[q].user = u /\ ~procs'[q].excused =>
            /\ procs[q].pc = "account" /\ TenantUsable(TenantOf[u]) => TenantUsable(TenantOf[u])'
            /\ procs[q].pc \in PastAccount /\ Admitted(u) => Admitted(u)'
            /\ procs[q].pc \in PastApp /\ Admitted(u) /\ AppEnabled(u, procs[q].app) =>
                  \A app \in BOOLEAN : app = procs[q].app => AppEnabled(u, app)'

HashStays(q) ==
    \A u \in Users :
        procs[q].user = u /\ procs[q].pc = "reset" /\ ~procs'[q].late
                          /\ users[u].row # "never" /\ users'[u].row = "present" =>
            users[u].row = "present" /\ users'[u].pw = users[u].pw

CountStays(q) ==
    procs[q].pc \in {"remove", "update"} /\ ~procs'[q].late => Admins' = Admins

DeletionStays(q) ==
    /\ \A u \in Users :
          procs[q].user = u /\ procs[q].pc = "purge" /\ ~procs'[q].late /\ users[u].row # "never" =>
              (users[u].row # "present" \/ users[u].deleted =>
                  users'[u].row # "present" \/ users'[u].deleted)
    /\ \A t \in Tenants :
          procs[q].tenant = t /\ procs[q].pc = "erase" /\ ~procs'[q].late
                              /\ tenants[t].row # "never" /\ tenants[t].deleted =>
              tenants'[t].deleted

(* A handler that is only marked stays sound if what it read stays, or if    *)
(* the mark says that it does not.                                           *)
LEMMA SoundStays ==
    ASSUME TypeOK, NEW q \in Procs, Sound(q), Remarked(procs[q], procs'[q]),
           RowsStay, GatesStay(q), HashStays(q), CountStays(q), DeletionStays(q)
    PROVE  Sound(q)'
<1>1. Placed(q)'
  BY DEF Sound, Placed, Remarked, RowsStay, TokensStay
<1>2. Carrying(q)'
  BY DEF Sound, Carrying, Remarked
<1>3. PastGates(q)'
  <2> SUFFICES ASSUME ~procs'[q].excused, procs[q].pc \in PastTenant
               PROVE  PastGates(q)'
    BY DEF PastGates, PastTenant, PastAccount, PastApp, Remarked
  <2>1. ~procs[q].excused /\ procs[q].user \in Users /\ procs[q].app \in BOOLEAN
    BY DEF Remarked, Sound, Placed, PastTenant, TypeOK, Proc
  <2> DEFINE u == procs[q].user
  <2>2. procs'[q].user = u /\ procs'[q].pc = procs[q].pc /\ procs'[q].app = procs[q].app
    BY DEF Remarked
  <2>3. ASSUME procs[q].pc = "account" PROVE TenantUsable(TenantOf[procs[q].user])'
    <3>1. TenantUsable(TenantOf[u])
      BY <2>1, <2>3 DEF Sound, PastGates
    <3>2. PICK v \in Users : v = u
      BY <2>1
    <3>3. TenantUsable(TenantOf[v])'
      BY <2>3, <3>1, <3>2 DEF GatesStay
    <3>4. QED BY <2>2, <3>2, <3>3 DEF TenantUsable
  <2>4. ASSUME procs[q].pc \in PastAccount PROVE Admitted(procs[q].user)'
    <3>1. Admitted(u)
      BY <2>1, <2>4 DEF Sound, PastGates
    <3>2. PICK v \in Users : v = u
      BY <2>1
    <3>3. Admitted(v)'
      BY <2>4, <3>1, <3>2 DEF GatesStay
    <3>4. QED BY <2>2, <3>2, <3>3 DEF Admitted, AccountUsable, TenantUsable
  <2>5. ASSUME procs[q].pc \in PastApp PROVE AppEnabled(procs[q].user, procs[q].app)'
    <3>1. Admitted(u) /\ AppEnabled(u, procs[q].app)
      BY <2>1, <2>5 DEF Sound, PastGates, PastApp, PastAccount
    <3>2. PICK v \in Users : v = u
      BY <2>1
    <3>3. PICK app \in BOOLEAN : app = procs[q].app
      BY <2>1
    <3>4. AppEnabled(v, app)'
      BY <2>5, <3>1, <3>2, <3>3 DEF GatesStay
    <3>5. QED BY <2>2, <3>2, <3>3, <3>4 DEF AppEnabled
  <2>6. QED BY <2>2, <2>3, <2>4, <2>5 DEF PastGates
<1>4. BoundToHash(q)'
  BY DEF Sound, Placed, BoundToHash, HashStays, Remarked
<1>5. Counted(q)'
  <2> SUFFICES ASSUME procs[q].pc = "remove" \/ (procs[q].pc = "update" /\ procs[q].edit.admin = "demote"),
                      ~procs'[q].late
               PROVE  NotLastPlatformAdmin(procs[q].user)'
    BY DEF Counted, Remarked, NotLastPlatformAdmin
  <2>1. procs[q].user \in Users /\ procs'[q].user = procs[q].user /\ Admins' = Admins
    BY DEF Sound, Placed, Remarked, CountStays
  <2>2. NotLastPlatformAdmin(procs[q].user)
    BY DEF Sound, Counted, Remarked
  <2>3. PICK v \in Users : v = procs[q].user
    BY <2>1
  <2>4. NotLastPlatformAdmin(v)
    BY <2>2, <2>3
  <2>5. \A w \in Users : LiveAdmin(w)' <=> LiveAdmin(w)
    BY <2>1 DEF Admins
  <2>6. QED BY <2>1, <2>3, <2>4, <2>5 DEF NotLastPlatformAdmin
<1>6. Erasing(q)'
  BY DEF Sound, Placed, Erasing, DeletionStays, Remarked
<1>7. QED BY <1>1, <1>2, <1>3, <1>4, <1>5, <1>6 DEF Sound

(* While no row changes, marks alone disturb nothing.                        *)
LEMMA SoundWhenQuiet ==
    ASSUME TypeOK, TokensStay, NEW q \in Procs, Sound(q), Remarked(procs[q], procs'[q]),
           UNCHANGED <<users, tenants, access>>
    PROVE  Sound(q)'
<1>1. RowsStay
  BY DEF RowsStay
<1>2. GatesStay(q)
  BY DEF GatesStay, TenantUsable, Admitted, AccountUsable, AppEnabled
<1>3. HashStays(q) /\ DeletionStays(q)
  BY DEF HashStays, DeletionStays
<1>4. CountStays(q)
  BY DEF CountStays, Admins, LiveAdmin
<1>5. QED BY <1>1, <1>2, <1>3, <1>4, SoundStays
-----------------------------------------------------------------------------
(* Steps of one handler that change no row it or another has read.           *)

(* Only the handler that moves has something to show.                        *)
LEMMA Entered ==
    ASSUME TypeOK, Handlers, TokensStay, NEW p \in Procs, NEW h \in Proc,
           procs' = [procs EXCEPT ![p] = h],
           procs'[p] = h => Sound(p)',
           UNCHANGED <<users, tenants, access>>
    PROVE  procs' \in [Procs -> Proc] /\ Handlers'
<1>1. procs' \in [Procs -> Proc] /\ procs'[p] = h
  BY DEF TypeOK
<1>2. ASSUME NEW q \in Procs, q # p PROVE Sound(q)'
  <2>1. procs'[q] = procs[q] /\ procs[q] \in Proc /\ Sound(q)
    BY <1>2 DEF TypeOK, Handlers
  <2>2. Remarked(procs[q], procs'[q])
    BY <2>1, Unmarked
  <2>3. QED BY <2>1, <2>2, SoundWhenQuiet
<1>3. QED BY <1>1, <1>2 DEF Handlers

Starts(p) ==
    \/ \E u \in Users, app \in BOOLEAN : Login(p, u, app)
    \/ \E k \in Tokens : Refresh(p, k)
    \/ \E k \in Tokens : Replay(p, k)
    \/ \E l \in links : ResetPassword(p, l)
    \/ \E u \in Users, e \in Edits : UpdateUser(p, u, e)
    \/ \E u \in Users : RemoveUser(p, u)
    \/ \E u \in Users : Deactivate(p, u)
    \/ \E u \in Users : PurgeUser(p, u)
    \/ \E t \in Tenants : PurgeTenant(p, t)

(* A handler starts with what it read and checked.                           *)
LEMMA StartSound ==
    ASSUME TypeOK, Handlers, TokensStay, TokensOwned, SessionsEnd, NEW p \in Procs, Starts(p)
    PROVE  procs' \in [Procs -> Proc] /\ Handlers'
<1> USE DEF Begin
<1>1. ASSUME NEW u \in Users, NEW app \in BOOLEAN, Login(p, u, app)
      PROVE  procs' \in [Procs -> Proc] /\ Handlers'
  <2> DEFINE h == [IdleProc EXCEPT !.pc = "account", !.user = u, !.app = app]
  <2>1. h \in Proc /\ h.pc = "account" /\ h.user = u /\ h.token = 0 /\ ~h.stale
    BY DEF IdleProc, Proc, NoEdit, Edit
  <2>2. procs' = [procs EXCEPT ![p] = h] /\ UNCHANGED <<users, tenants, access>> /\ TenantUsable(TenantOf[u])
    BY <1>1 DEF Login
  <2> HIDE DEF h
  <2>3. procs'[p] = h => Sound(p)'
    BY <2>1, <2>2 DEF Sound, Placed, Carrying, PastGates, BoundToHash, Counted, Erasing, PastAccount, PastApp,
                      TenantUsable
  <2>4. QED BY <2>1, <2>2, <2>3, Entered
<1>2. ASSUME NEW k \in Tokens, Refresh(p, k)
      PROVE  procs' \in [Procs -> Proc] /\ Handlers'
  <2> DEFINE h == [IdleProc EXCEPT !.pc = "gate", !.user = tokens[k].user, !.app = tokens[k].app, !.token = k,
                                   !.stale = tokens[k].stale, !.late = tokens[k].late]
  <2>1. tokens[k] \in Token /\ tokens[k].user \in Users /\ (tokens[k].stale => tokens[k].late)
    BY <1>2 DEF TypeOK, TokensOwned, SessionsEnd, Unrevoked, Refresh
  <2>2. /\ h \in Proc /\ h.pc = "gate" /\ h.user \in Users /\ h.user = tokens[k].user
        /\ h.token = k /\ (h.stale => h.late)
    <3>1. tokens[k].app \in BOOLEAN /\ tokens[k].stale \in BOOLEAN /\ tokens[k].late \in BOOLEAN /\ k \in Nat
      BY <2>1, SessionsAssumption DEF Token, Tokens
    <3>2. QED BY <2>1, <3>1 DEF IdleProc, Proc, NoEdit, Edit
  <2>3. /\ procs' = [procs EXCEPT ![p] = h] /\ UNCHANGED <<users, tenants, access, tokens>>
        /\ Admitted(tokens[k].user) /\ tokens[k].state = "live"
    BY <1>2 DEF Refresh
  <2> HIDE DEF h
  <2>4. procs'[p] = h => Sound(p)'
    BY <2>2, <2>3 DEF Sound, Placed, Carrying, PastGates, BoundToHash, Counted, Erasing, PastAccount, PastApp,
                      Admitted, AccountUsable, TenantUsable, Tokens
  <2>5. QED BY <2>2, <2>3, <2>4, Entered
<1>3. ASSUME NEW k \in Tokens, Replay(p, k)
      PROVE  procs' \in [Procs -> Proc] /\ Handlers'
  <2> DEFINE h == [IdleProc EXCEPT !.pc = "replay", !.user = tokens[k].user]
  <2>1. tokens[k].user \in Users
    BY <1>3 DEF TypeOK, TokensOwned, Replay
  <2>2. h \in Proc /\ h.pc = "replay" /\ h.user \in Users /\ h.token = 0 /\ ~h.stale
    BY <2>1 DEF IdleProc, Proc, NoEdit, Edit
  <2>3. procs' = [procs EXCEPT ![p] = h] /\ UNCHANGED <<users, tenants, access>>
    BY <1>3 DEF Replay
  <2> HIDE DEF h
  <2>4. procs'[p] = h => Sound(p)'
    BY <2>2 DEF Sound, Placed, Carrying, PastGates, BoundToHash, Counted, Erasing, PastAccount, PastApp
  <2>5. QED BY <2>2, <2>3, <2>4, Entered
<1>4. ASSUME NEW l \in links, ResetPassword(p, l)
      PROVE  procs' \in [Procs -> Proc] /\ Handlers'
  <2> DEFINE h == [IdleProc EXCEPT !.pc = "reset", !.user = l.user, !.pw = l.pw]
  <2>1. l.user \in Users /\ l.pw \in Nat
    BY DEF TypeOK, Link, User
  <2>2. h \in Proc /\ h.pc = "reset" /\ h.user = l.user /\ h.token = 0 /\ h.pw = l.pw /\ ~h.stale
    BY <2>1 DEF IdleProc, Proc, NoEdit, Edit
  <2>3. /\ procs' = [procs EXCEPT ![p] = h] /\ UNCHANGED <<users, tenants, access>>
        /\ users[l.user].row = "present" /\ users[l.user].pw = l.pw
    BY <1>4 DEF ResetPassword
  <2> HIDE DEF h
  <2>4. procs'[p] = h => Sound(p)'
    BY <2>1, <2>2, <2>3 DEF Sound, Placed, Carrying, PastGates, BoundToHash, Counted, Erasing, PastAccount, PastApp
  <2>5. QED BY <2>2, <2>3, <2>4, Entered
<1>5. ASSUME NEW u \in Users, NEW e \in Edits, UpdateUser(p, u, e)
      PROVE  procs' \in [Procs -> Proc] /\ Handlers'
  <2> DEFINE h == [IdleProc EXCEPT !.pc = "update", !.user = u, !.edit = e]
  <2>1. h \in Proc /\ h.pc = "update" /\ h.user = u /\ h.token = 0 /\ h.edit = e /\ ~h.stale
    BY SessionsAssumption DEF IdleProc, Proc
  <2>2. /\ procs' = [procs EXCEPT ![p] = h] /\ UNCHANGED <<users, tenants, access>>
        /\ e.admin = "demote" => NotLastPlatformAdmin(u)
    BY <1>5 DEF UpdateUser
  <2> HIDE DEF h
  <2>3. procs'[p] = h => Sound(p)'
    BY <2>1, <2>2 DEF Sound, Placed, Carrying, PastGates, BoundToHash, Counted, Erasing, PastAccount, PastApp,
                      NotLastPlatformAdmin, LiveAdmin
  <2>4. QED BY <2>1, <2>2, <2>3, Entered
<1>6. ASSUME NEW u \in Users, RemoveUser(p, u) \/ Deactivate(p, u)
      PROVE  procs' \in [Procs -> Proc] /\ Handlers'
  <2> DEFINE h == [IdleProc EXCEPT !.pc = "remove", !.user = u]
  <2>1. h \in Proc /\ h.pc = "remove" /\ h.user = u /\ h.token = 0 /\ ~h.stale
    BY DEF IdleProc, Proc, NoEdit, Edit
  <2>2. /\ procs' = [procs EXCEPT ![p] = h] /\ UNCHANGED <<users, tenants, access>>
        /\ NotLastPlatformAdmin(u)
    BY <1>6 DEF RemoveUser, Deactivate, NotLastPlatformAdmin, LiveAdmin
  <2> HIDE DEF h
  <2>3. procs'[p] = h => Sound(p)'
    BY <2>1, <2>2 DEF Sound, Placed, Carrying, PastGates, BoundToHash, Counted, Erasing, PastAccount, PastApp,
                      NotLastPlatformAdmin, LiveAdmin
  <2>4. QED BY <2>1, <2>2, <2>3, Entered
<1>7. ASSUME NEW u \in Users, PurgeUser(p, u)
      PROVE  procs' \in [Procs -> Proc] /\ Handlers'
  <2> DEFINE h == [IdleProc EXCEPT !.pc = "purge", !.user = u]
  <2>1. h \in Proc /\ h.pc = "purge" /\ h.user = u /\ h.token = 0 /\ ~h.stale
    BY DEF IdleProc, Proc, NoEdit, Edit
  <2>2. /\ procs' = [procs EXCEPT ![p] = h] /\ UNCHANGED <<users, tenants, access>>
        /\ users[u].row = "present" /\ users[u].deleted
    BY <1>7 DEF PurgeUser
  <2> HIDE DEF h
  <2>3. procs'[p] = h => Sound(p)'
    BY <2>1, <2>2 DEF Sound, Placed, Carrying, PastGates, BoundToHash, Counted, Erasing, PastAccount, PastApp
  <2>4. QED BY <2>1, <2>2, <2>3, Entered
<1>8. ASSUME NEW t \in Tenants, PurgeTenant(p, t)
      PROVE  procs' \in [Procs -> Proc] /\ Handlers'
  <2> DEFINE h == [IdleProc EXCEPT !.pc = "erase", !.tenant = t]
  <2>1. h \in Proc /\ h.pc = "erase" /\ h.tenant = t /\ h.token = 0 /\ ~h.stale
    BY DEF IdleProc, Proc, NoEdit, Edit
  <2>2. /\ procs' = [procs EXCEPT ![p] = h] /\ UNCHANGED <<users, tenants, access>>
        /\ tenants[t].row = "present" /\ tenants[t].deleted
    BY <1>8 DEF PurgeTenant
  <2> HIDE DEF h
  <2>3. procs'[p] = h => Sound(p)'
    BY <2>1, <2>2 DEF Sound, Placed, Carrying, PastGates, BoundToHash, Counted, Erasing, PastAccount, PastApp
  <2>4. QED BY <2>1, <2>2, <2>3, Entered
<1>9. QED BY <1>1, <1>2, <1>3, <1>4, <1>5, <1>6, <1>7, <1>8 DEF Starts
Moves(p) == ReadAccount(p) \/ Gate(p) \/ Rotate(p) \/ Issue(p)

(* A handler whose work is done leaves the rest as it was.                   *)
LEMMA FinishSound ==
    ASSUME TypeOK, Handlers, TokensStay, NEW p \in Procs, Finish(p), UNCHANGED <<users, tenants, access>>
    PROVE  procs' \in [Procs -> Proc] /\ Handlers'
<1>1. procs' = [procs EXCEPT ![p] = IdleProc]
  BY DEF Finish
<1>2. procs'[p] = IdleProc => Sound(p)'
  BY IdleSound
<1>3. QED BY <1>1, <1>2, IdleIsProc, Entered

(* A handler at pc passes to the next place.                                 *)
LEMMA PassSound ==
    ASSUME TypeOK, Handlers, TokensStay, NEW p \in Procs, NEW next \in {"gate", "rotate", "issue"},
           procs' = [procs EXCEPT ![p].pc = next],
           UNCHANGED <<users, tenants, access>>,
           procs[p].pc \in PastTenant,
           next = "rotate" => procs[p].token # 0,
           Admitted(procs[p].user) \/ procs[p].excused,
           next # "gate" => AppEnabled(procs[p].user, procs[p].app) \/ procs[p].excused
    PROVE  procs' \in [Procs -> Proc] /\ Handlers'
<1> DEFINE h == [procs[p] EXCEPT !.pc = next]
<1>1. procs[p] \in Proc /\ Sound(p)
  BY DEF TypeOK, Handlers
<1>2. /\ h \in Proc /\ h.pc = next /\ h.user = procs[p].user /\ h.app = procs[p].app /\ h.token = procs[p].token
      /\ h.stale = procs[p].stale /\ h.late = procs[p].late /\ h.excused = procs[p].excused
  BY <1>1 DEF Proc
<1>3. procs' = [procs EXCEPT ![p] = h]
  OBVIOUS
<1> HIDE DEF h
<1>4. ASSUME procs'[p] = h PROVE Sound(p)'
  <2>1. Placed(p)' /\ Carrying(p)'
    BY <1>1, <1>2, <1>4 DEF Sound, Placed, Carrying, TokensStay, PastTenant
  <2>2. PastGates(p)'
    BY <1>1, <1>2, <1>4 DEF PastGates, PastAccount, PastApp, PastTenant, Admitted, AccountUsable, TenantUsable,
                            AppEnabled
  <2>3. BoundToHash(p)' /\ Counted(p)' /\ Erasing(p)'
    BY <1>2, <1>4 DEF BoundToHash, Counted, Erasing
  <2>4. QED BY <2>1, <2>2, <2>3 DEF Sound
<1>5. QED BY <1>2, <1>3, <1>4, Entered

(* A gate is passed by those it admits.                                      *)
LEMMA MoveSound ==
    ASSUME TypeOK, Handlers, TokensStay, NEW p \in Procs, Moves(p)
    PROVE  procs' \in [Procs -> Proc] /\ Handlers'
<1> USE DEF PastTenant
<1>1. procs[p] \in Proc /\ Sound(p)
  BY DEF TypeOK, Handlers
<1>2. CASE ReadAccount(p)
  <2>1. UNCHANGED <<users, tenants, access>>
    BY <1>2 DEF ReadAccount
  <2>2. CASE Finish(p)
    BY <2>1, <2>2, FinishSound
  <2>3. CASE AccountUsable(procs[p].user) /\ procs' = [procs EXCEPT ![p].pc = "gate"]
    <3>1. procs[p].pc = "account"
      BY <1>2 DEF ReadAccount
    <3>2. Admitted(procs[p].user) \/ procs[p].excused
      BY <1>1, <2>3, <3>1 DEF Sound, PastGates, Admitted
    <3>3. QED BY <2>1, <2>3, <3>1, <3>2, PassSound
  <2>4. QED BY <1>2, <2>2, <2>3 DEF ReadAccount
<1>3. CASE Gate(p)
  <2>1. UNCHANGED <<users, tenants, access>>
    BY <1>3 DEF Gate
  <2>2. CASE Finish(p)
    BY <2>1, <2>2, FinishSound
  <2>3. CASE /\ AppEnabled(procs[p].user, procs[p].app)
             /\ procs' = [procs EXCEPT ![p].pc = IF procs[p].token = 0 THEN "issue" ELSE "rotate"]
    <3>1. procs[p].pc = "gate" /\ (Admitted(procs[p].user) \/ procs[p].excused)
      BY <1>1, <1>3 DEF Gate, Sound, PastGates, PastAccount
    <3>2. PICK next \in {"gate", "rotate", "issue"} :
              next = IF procs[p].token = 0 THEN "issue" ELSE "rotate"
      OBVIOUS
    <3>3. procs' = [procs EXCEPT ![p].pc = next] /\ (next = "rotate" => procs[p].token # 0)
      BY <2>3, <3>2
    <3>4. QED BY <2>1, <2>3, <3>1, <3>3, PassSound
  <2>4. QED BY <1>3, <2>2, <2>3 DEF Gate
<1>4. CASE Rotate(p)
  <2>1. UNCHANGED <<users, tenants, access>>
    BY <1>4 DEF Rotate
  <2>2. CASE Finish(p)
    BY <2>1, <2>2, FinishSound
  <2>3. CASE procs' = [procs EXCEPT ![p].pc = "issue"]
    <3>1. procs[p].pc = "rotate"
      BY <1>4 DEF Rotate
    <3>2. /\ Admitted(procs[p].user) \/ procs[p].excused
          /\ AppEnabled(procs[p].user, procs[p].app) \/ procs[p].excused
      BY <1>1, <3>1 DEF Sound, PastGates, PastAccount, PastApp
    <3>3. QED BY <2>1, <2>3, <3>1, <3>2, PassSound
  <2>4. QED BY <1>4, <2>2, <2>3 DEF Rotate
<1>5. CASE Issue(p)
  BY <1>5, FinishSound DEF Issue
<1>6. QED BY <1>2, <1>3, <1>4, <1>5 DEF Moves

Quiet ==
    \/ \E k \in Tokens : Logout(k)
    \/ \E k \in Tokens : TokenExpires(k)
    \/ \E k \in Tokens : RevocationAges(k)
    \/ \E K \in SUBSET Tokens : Sweep(K)
    \/ \E l \in links : LinkExpires(l)
    \/ \E u \in Users : RequestReset(u)
    \/ \E u \in Users : SendVerification(u)

(* What befalls tokens and links alone concerns no handler.                  *)
LEMMA QuietSound ==
    ASSUME TypeOK, Handlers, TokensStay, Quiet
    PROVE  procs' \in [Procs -> Proc] /\ Handlers'
<1>1. UNCHANGED <<users, tenants, access, procs>>
  BY DEF Quiet, Logout, TokenExpires, RevocationAges, Sweep, LinkExpires, RequestReset, SendVerification
<1>2. ASSUME NEW q \in Procs PROVE Sound(q)'
  <2>1. Sound(q) /\ Remarked(procs[q], procs'[q])
    BY <1>1, Unmarked DEF Handlers, TypeOK
  <2>2. QED BY <1>1, <2>1, SoundWhenQuiet
<1>3. QED BY <1>1, <1>2 DEF Handlers, TypeOK

(* The end of a user's sessions marks handlers and moves none of them.       *)
LEMMA EndSound ==
    ASSUME TypeOK, Handlers, TokensStay, NEW p \in Procs, OnRefreshReuse(p) \/ RevokeAfterUpdate(p)
    PROVE  procs' \in [Procs -> Proc] /\ Handlers'
<1>1. UNCHANGED <<users, tenants, access>> /\ EndSessions(p, procs[p].user)
  BY DEF OnRefreshReuse, RevokeAfterUpdate
<1>2. /\ procs' \in [Procs -> Proc]
      /\ procs'[p] = IdleProc
      /\ \A q \in Procs \ {p} : Remarked(procs[q], procs'[q])
  BY <1>1, EndSessionsMarks DEF TypeOK
<1>3. ASSUME NEW q \in Procs, q # p PROVE Sound(q)'
  BY <1>1, <1>2, <1>3, SoundWhenQuiet DEF Handlers
<1>4. QED BY <1>2, <1>3, IdleSound DEF Handlers
-----------------------------------------------------------------------------
(* Steps that change rows: the account's.                                    *)

(* A field of a row is a row.                                                *)
LEMMA AccountRow ==
    ASSUME TypeOK, NEW u \in Users, NEW r \in User, users' = [users EXCEPT ![u] = r]
    PROVE  users' \in [Users -> User] /\ users'[u] = r /\ \A v \in Users : v # u => users'[v] = users[v]
  BY DEF TypeOK

(* The accounts that a workspace and its founder begin with disturb nobody:  *)
(* there was no such row to have read.                                       *)
LEMMA SignUpSound ==
    ASSUME TypeOK, Handlers, TokensStay, NEW u \in Users, SignUp(u)
    PROVE  /\ users' \in [Users -> User] /\ tenants' \in [Tenants -> Tenant] /\ access' \in [Tenants -> Access]
           /\ procs' \in [Procs -> Proc] /\ Handlers'
<1> DEFINE t == TenantOf[u]
<1>1. NewUser \in User /\ NewUser.row = "present" /\ ~NewUser.admin /\ ~NewUser.verified
  BY DEF NewUser, NoAccount, User
<1>2. /\ users' = [users EXCEPT ![u] = NewUser] /\ users[u].row = "never" /\ t # NoTenant
      /\ tenants[t].row = "never" /\ procs' = procs
      /\ tenants' = [tenants EXCEPT ![t] = NewTenant]
      /\ access' = [access EXCEPT ![t] = [status |-> "TRIAL", over |-> FALSE]]
  BY DEF SignUp
<1>3. t \in Tenants /\ NewTenant \in Tenant /\ NewTenant.row = "present" /\ NewTenant.status = "ACTIVE" /\ ~NewTenant.deleted
  BY <1>2, SessionsAssumption DEF NewTenant, Tenant
<1>4. users'[u] = NewUser /\ \A v \in Users : v # u => users'[v] = users[v]
  BY <1>1, <1>2, AccountRow
<1>5. tenants'[t] = NewTenant /\ \A s \in Tenants : s # t => tenants'[s] = tenants[s] /\ access'[s] = access[s]
  BY <1>2, <1>3 DEF TypeOK
<1>6. tenants' \in [Tenants -> Tenant] /\ access' \in [Tenants -> Access]
  BY <1>2, <1>3 DEF TypeOK, Access
<1> HIDE DEF t
<1>7. RowsStay
  BY <1>1, <1>3, <1>4, <1>5 DEF RowsStay
<1>8. Admins' = Admins
  BY <1>1, <1>2, <1>4 DEF Admins, LiveAdmin
<1>9. ASSUME NEW q \in Procs PROVE Sound(q)'
  <2>1. Sound(q) /\ Remarked(procs[q], procs'[q])
    BY <1>2, Unmarked DEF Handlers, TypeOK
  <2>2. GatesStay(q)
    <3> SUFFICES ASSUME NEW v \in Users
                 PROVE  /\ TenantUsable(TenantOf[v]) => TenantUsable(TenantOf[v])'
                        /\ Admitted(v) => Admitted(v)'
                        /\ \A app \in BOOLEAN : Admitted(v) /\ AppEnabled(v, app) => AppEnabled(v, app)'
      BY DEF GatesStay
    <3>1. TenantOf[v] \in Tenants \cup {NoTenant}
      BY SessionsAssumption
    <3>2. TenantUsable(TenantOf[v]) => TenantUsable(TenantOf[v])'
      BY <3>1, <1>3, <1>5, SessionsAssumption DEF TenantUsable
    <3>3. AccountUsable(v) => AccountUsable(v)'
      BY <1>2, <1>4 DEF AccountUsable
    <3>4. ASSUME NEW app \in BOOLEAN, Admitted(v), AppEnabled(v, app) PROVE AppEnabled(v, app)'
      <4>1. TenantOf[v] # NoTenant => TenantOf[v] # t
        BY <1>2, <3>4 DEF Admitted, TenantUsable
      <4>2. QED BY <3>1, <3>4, <4>1, <1>5 DEF AppEnabled
    <3>5. QED BY <3>2, <3>3, <3>4 DEF Admitted
  <2>3. HashStays(q) /\ DeletionStays(q)
    BY <1>2, <1>4, <1>5 DEF HashStays, DeletionStays
  <2>4. CountStays(q)
    BY <1>8 DEF CountStays
  <2>5. QED BY <2>1, <1>7, <2>2, <2>3, <2>4, SoundStays
<1>10. QED BY <1>1, <1>2, <1>6, <1>9, AccountRow DEF Handlers, TypeOK

(* A mailbox that is proven opens gates and closes none.                     *)
LEMMA ConfirmSound ==
    ASSUME TypeOK, Handlers, TokensStay, NEW u \in Users, ConfirmVerification(u)
    PROVE  users' \in [Users -> User] /\ procs' \in [Procs -> Proc] /\ Handlers'
<1> DEFINE r == [users[u] EXCEPT !.verified = TRUE]
<1>1. users[u] \in User
  BY DEF TypeOK
<1>2. /\ r \in User /\ r.row = users[u].row /\ r.deleted = users[u].deleted /\ r.admin = users[u].admin
      /\ r.pw = users[u].pw /\ r.verified
  BY <1>1 DEF User
<1>3. users' = [users EXCEPT ![u] = r] /\ UNCHANGED <<tenants, access, procs>>
  BY DEF ConfirmVerification
<1> HIDE DEF r
<1>4. users'[u] = r /\ \A v \in Users : v # u => users'[v] = users[v]
  BY <1>2, <1>3, AccountRow
<1>5. RowsStay /\ Admins' = Admins
  BY <1>2, <1>3, <1>4 DEF RowsStay, Admins, LiveAdmin
<1>6. ASSUME NEW q \in Procs PROVE Sound(q)'
  <2>1. Sound(q) /\ Remarked(procs[q], procs'[q])
    BY <1>3, Unmarked DEF Handlers, TypeOK
  <2>2. GatesStay(q)
    <3>1. \A v \in Users : AccountUsable(v) => AccountUsable(v)'
      BY <1>2, <1>4 DEF AccountUsable
    <3>2. QED BY <1>3, <3>1 DEF GatesStay, Admitted, TenantUsable, AppEnabled
  <2>3. HashStays(q) /\ DeletionStays(q) /\ CountStays(q)
    BY <1>2, <1>3, <1>4, <1>5 DEF HashStays, DeletionStays, CountStays
  <2>4. QED BY <2>1, <1>5, <2>2, <2>3, SoundStays
<1>7. QED BY <1>2, <1>3, <1>6, AccountRow DEF Handlers, TypeOK

(* A reset overtakes whoever has read the account under the old password.    *)
LEMMA CommitResetSound ==
    ASSUME TypeOK, Handlers, TokensStay, NEW p \in Procs, CommitReset(p)
    PROVE  users' \in [Users -> User] /\ procs' \in [Procs -> Proc] /\ Handlers'
<1> DEFINE u == procs[p].user
           r == [users[u] EXCEPT !.pw = users[u].pw + 1, !.verified = TRUE]
<1>0. UNCHANGED <<tenants, access>> /\ procs[p].pc = "reset"
  BY DEF CommitReset
<1>1. CASE Finish(p) /\ UNCHANGED users
  BY <1>0, <1>1, FinishSound DEF TypeOK
<1>2. CASE /\ users[u].row = "present"
           /\ users' = [users EXCEPT ![u].pw = @ + 1, ![u].verified = TRUE]
           /\ EndSessions(p, u)
  <2>1. u \in Users
    BY <1>0 DEF Handlers, Sound, Placed
  <2>2. users[u] \in User
    BY <2>1 DEF TypeOK
  <2>3. /\ r \in User /\ r.row = users[u].row /\ r.deleted = users[u].deleted /\ r.admin = users[u].admin
        /\ r.verified
    <3>1. users[u].pw + 1 \in Nat
      BY <2>2 DEF User
    <3>2. QED BY <2>2, <3>1 DEF User
  <2>4. users' = [users EXCEPT ![u] = r]
    BY <1>2, <2>1 DEF TypeOK
  <2> HIDE DEF r
  <2>5. users'[u] = r /\ \A v \in Users : v # u => users'[v] = users[v]
    BY <2>1, <2>3, <2>4, AccountRow
  <2>6. RowsStay /\ Admins' = Admins
    BY <1>0, <2>3, <2>5 DEF RowsStay, Admins, LiveAdmin
  <2>7. /\ procs' \in [Procs -> Proc]
        /\ procs'[p] = IdleProc
        /\ \A q \in Procs \ {p} : Remarked(procs[q], procs'[q]) /\ (Reading(q, u) => procs'[q].late)
    BY <1>2, EndSessionsMarks DEF TypeOK
  <2>8. ASSUME NEW q \in Procs, q # p PROVE Sound(q)'
    <3>1. Sound(q) /\ Remarked(procs[q], procs'[q])
      BY <2>7, <2>8 DEF Handlers
    <3>2. GatesStay(q)
      <4>1. \A v \in Users : AccountUsable(v) => AccountUsable(v)'
        BY <2>3, <2>5 DEF AccountUsable
      <4>2. QED BY <1>0, <4>1 DEF GatesStay, Admitted, TenantUsable, AppEnabled
    <3>3. HashStays(q)
      BY <2>5, <2>7, <2>8 DEF HashStays, Reading
    <3>4. DeletionStays(q) /\ CountStays(q)
      BY <1>0, <2>3, <2>5, <2>6 DEF DeletionStays, CountStays
    <3>5. QED BY <3>1, <2>6, <3>2, <3>3, <3>4, SoundStays
  <2>9. users' \in [Users -> User]
    BY <2>1, <2>3, <2>4, AccountRow
  <2>10. QED BY <2>7, <2>8, <2>9, IdleSound DEF Handlers
<1>3. QED BY <1>1, <1>2 DEF CommitReset
(* A new account is an account nobody had read.  It may be the second        *)
(* platform admin, and whoever counted one counts again.                     *)
LEMMA CreateUserSound ==
    ASSUME TypeOK, Handlers, TokensStay, NEW u \in Users, NEW admin \in BOOLEAN, CreateUser(u, admin)
    PROVE  users' \in [Users -> User] /\ procs' \in [Procs -> Proc] /\ Handlers'
<1> DEFINE r == [NewUser EXCEPT !.verified = TRUE, !.admin = admin]
<1>1. r \in User /\ r.row = "present" /\ ~r.deleted
  BY DEF NewUser, NoAccount, User
<1>2. /\ users' = [users EXCEPT ![u] = r] /\ users[u].row = "never"
      /\ procs' = Recount(procs) /\ UNCHANGED <<tenants, access>>
  BY DEF CreateUser
<1> HIDE DEF r
<1>3. users' \in [Users -> User] /\ users'[u] = r /\ \A v \in Users : v # u => users'[v] = users[v]
  BY <1>1, <1>2, AccountRow
<1>4. /\ procs' \in [Procs -> Proc]
      /\ \A q \in Procs : /\ Remarked(procs[q], procs'[q])
                          /\ Admins' # Admins /\ procs[q].pc \in {"remove", "update"} => procs'[q].late
  BY <1>2, RecountMarks DEF TypeOK
<1>5. RowsStay
  BY <1>1, <1>2, <1>3 DEF RowsStay
<1>6. ASSUME NEW q \in Procs PROVE Sound(q)'
  <2>1. Sound(q) /\ Remarked(procs[q], procs'[q])
    BY <1>4 DEF Handlers
  <2>2. GatesStay(q)
    <3>1. \A v \in Users : AccountUsable(v) => AccountUsable(v)'
      BY <1>2, <1>3 DEF AccountUsable
    <3>2. QED BY <1>2, <3>1 DEF GatesStay, Admitted, TenantUsable, AppEnabled
  <2>3. HashStays(q) /\ DeletionStays(q)
    BY <1>2, <1>3 DEF HashStays, DeletionStays
  <2>4. CountStays(q)
    BY <1>4 DEF CountStays
  <2>5. QED BY <2>1, <1>5, <2>2, <2>3, <2>4, SoundStays
<1>7. QED BY <1>3, <1>4, <1>6 DEF Handlers

(* A restored account opens gates; a purge that read it deleted is late.     *)
LEMMA RestoreSound ==
    ASSUME TypeOK, Handlers, TokensStay, NEW u \in Users, RestoreUser(u)
    PROVE  users' \in [Users -> User] /\ procs' \in [Procs -> Proc] /\ Handlers'
<1> DEFINE r == [users[u] EXCEPT !.deleted = FALSE]
           Q == {q \in Procs : procs[q].pc = "purge" /\ procs[q].user = u}
           f == Overtaking(procs, Q)
<1>1. users[u] \in User
  BY DEF TypeOK
<1>2. r \in User /\ r.row = users[u].row /\ ~r.deleted /\ r.verified = users[u].verified /\ r.pw = users[u].pw
  BY <1>1 DEF User
<1>3. /\ users' = [users EXCEPT ![u] = r] /\ procs' = Recount(f) /\ UNCHANGED <<tenants, access>>
  BY DEF RestoreUser
<1>4. /\ f \in [Procs -> Proc]
      /\ \A q \in Procs : Remarked(procs[q], f[q]) /\ (q \in Q => f[q].late)
  BY OvertakingMarks DEF TypeOK
<1>5. \A q \in Procs : procs[q].pc = "purge" /\ procs[q].user = u => q \in Q
  OBVIOUS
<1> HIDE DEF r, f, Q
<1>6. users' \in [Users -> User] /\ users'[u] = r /\ \A v \in Users : v # u => users'[v] = users[v]
  BY <1>2, <1>3, AccountRow
<1>7. /\ procs' \in [Procs -> Proc]
      /\ \A q \in Procs : /\ Remarked(f[q], procs'[q])
                          /\ Admins' # Admins /\ f[q].pc \in {"remove", "update"} => procs'[q].late
  BY <1>3, <1>4, RecountMarks
<1>8. RowsStay
  BY <1>2, <1>3, <1>6 DEF RowsStay
<1>9. ASSUME NEW q \in Procs PROVE Sound(q)'
  <2>1. procs[q] \in Proc /\ f[q] \in Proc /\ procs'[q] \in Proc /\ Sound(q)
    BY <1>4, <1>7 DEF Handlers, TypeOK
  <2>2. Remarked(procs[q], procs'[q])
    BY <2>1, <1>4, <1>7, MarksAddUp
  <2>3. GatesStay(q)
    <3>1. \A v \in Users : AccountUsable(v) => AccountUsable(v)'
      BY <1>2, <1>6 DEF AccountUsable
    <3>2. QED BY <1>3, <3>1 DEF GatesStay, Admitted, TenantUsable, AppEnabled
  <2>4. HashStays(q)
    BY <1>2, <1>6 DEF HashStays
  <2>5. CountStays(q)
    BY <1>4, <1>7 DEF CountStays, Remarked
  <2>6. DeletionStays(q)
    BY <1>3, <1>4, <1>5, <1>6, <1>7 DEF DeletionStays, Remarked
  <2>7. QED BY <2>1, <2>2, <1>8, <2>3, <2>4, <2>5, <2>6, SoundStays
<1>10. QED BY <1>6, <1>7, <1>9 DEF Handlers

(* An update overtakes whoever read the account under a password it replaces *)
(* and, if it changes who is a platform admin, whoever counted them.         *)
LEMMA WriteUpdateSound ==
    ASSUME TypeOK, Handlers, TokensStay, NEW p \in Procs, WriteUpdate(p)
    PROVE  users' \in [Users -> User] /\ procs' \in [Procs -> Proc] /\ Handlers'
<1> DEFINE u == procs[p].user
           e == procs[p].edit
           r == [users[u] EXCEPT !.pw = IF e.newpw THEN users[u].pw + 1 ELSE users[u].pw,
                                 !.admin = CASE e.admin = "demote" -> FALSE
                                             [] e.admin = "promote" -> TRUE
                                             [] OTHER -> users[u].admin]
           own == IF e.newpw \/ e.admin = "demote" THEN [procs[p] EXCEPT !.pc = "revoke"] ELSE IdleProc
           f == [q \in Procs |-> IF q = p THEN own
                                 ELSE IF Reading(q, u) /\ e.newpw THEN [procs[q] EXCEPT !.late = TRUE]
                                 ELSE procs[q]]
<1>0. UNCHANGED <<tenants, access>> /\ procs[p].pc = "update"
  BY DEF WriteUpdate
<1>1. CASE Finish(p) /\ UNCHANGED users
  BY <1>0, <1>1, FinishSound DEF TypeOK
<1>2. CASE /\ users[u].row = "present"
           /\ users' = [users EXCEPT
                ![u].pw = IF e.newpw THEN users[u].pw + 1 ELSE users[u].pw,
                ![u].admin = CASE e.admin = "demote" -> FALSE
                               [] e.admin = "promote" -> TRUE
                               [] OTHER -> users[u].admin]
           /\ procs' = Recount(f)
  <2>1. u \in Users /\ procs[p] \in Proc /\ Sound(p)
    BY <1>0 DEF Handlers, Sound, Placed, TypeOK
  <2>2. users[u] \in User /\ e \in Edit
    BY <2>1 DEF TypeOK, Proc
  <2>3. /\ r \in User /\ r.row = users[u].row /\ r.deleted = users[u].deleted /\ r.verified = users[u].verified
        /\ ~e.newpw => r.pw = users[u].pw
    <3>1. users[u].pw + 1 \in Nat
      BY <2>2 DEF User
    <3>2. QED BY <2>2, <3>1 DEF User, Edit
  <2>4. users' = [users EXCEPT ![u] = r]
    BY <1>2, <2>1 DEF TypeOK
  <2>5. own \in Proc /\ own.pc \in {"idle", "revoke"} /\ (own = IdleProc \/ own = [procs[p] EXCEPT !.pc = "revoke"])
    BY <2>1, IdleIsProc DEF Proc
  <2>6. /\ f \in [Procs -> Proc] /\ f[p] = own
        /\ \A q \in Procs \ {p} : Remarked(procs[q], f[q]) /\ (Reading(q, u) /\ e.newpw => f[q].late)
    <3>1. ASSUME NEW q \in Procs
          PROVE  LET h == [procs[q] EXCEPT !.late = TRUE] IN h \in Proc /\ h.late /\ Remarked(procs[q], h)
      <4> DEFINE h == [procs[q] EXCEPT !.late = TRUE]
      <4>1. procs[q] \in Proc
        BY DEF TypeOK
      <4>2. h \in Proc /\ h.late
        BY <4>1 DEF Proc
      <4>3. Remarked(procs[q], h)
        BY <4>1, <4>2 DEF Remarked, Proc
      <4>4. QED BY <4>2, <4>3
    <3> HIDE DEF own
    <3>2. \A q \in Procs : procs[q] \in Proc /\ Remarked(procs[q], procs[q])
      BY Unmarked DEF TypeOK
    <3>3. QED BY <2>5, <3>1, <3>2
  <2> HIDE DEF r, f, own
  <2>7. users' \in [Users -> User] /\ users'[u] = r /\ \A v \in Users : v # u => users'[v] = users[v]
    BY <2>1, <2>3, <2>4, AccountRow
  <2>8. /\ procs' \in [Procs -> Proc]
        /\ \A q \in Procs : /\ Remarked(f[q], procs'[q])
                            /\ Admins' # Admins /\ f[q].pc \in {"remove", "update"} => procs'[q].late
    BY <1>2, <2>6, RecountMarks
  <2>9. RowsStay
    BY <1>0, <2>3, <2>7 DEF RowsStay
  <2>10. ASSUME NEW q \in Procs, q # p PROVE Sound(q)'
    <3>1. procs[q] \in Proc /\ f[q] \in Proc /\ procs'[q] \in Proc /\ Sound(q)
      BY <2>6, <2>8 DEF Handlers, TypeOK
    <3>2. Remarked(procs[q], procs'[q])
      BY <3>1, <2>6, <2>8, <2>10, MarksAddUp
    <3>3. GatesStay(q)
      <4>1. \A v \in Users : AccountUsable(v) => AccountUsable(v)'
        BY <2>3, <2>7 DEF AccountUsable
      <4>2. QED BY <1>0, <4>1 DEF GatesStay, Admitted, TenantUsable, AppEnabled
    <3>4. HashStays(q)
      <4> SUFFICES ASSUME procs[q].user = u, procs[q].pc = "reset", ~procs'[q].late
                   PROVE  r.row = users[u].row /\ r.pw = users[u].pw
        BY <2>7 DEF HashStays
      <4>1. ~f[q].late
        BY <2>8 DEF Remarked
      <4>2. ~e.newpw
        BY <2>6, <2>10, <4>1 DEF Reading
      <4>3. QED BY <2>3, <4>2
    <3>5. CountStays(q)
      BY <2>6, <2>8, <2>10 DEF CountStays, Remarked
    <3>6. DeletionStays(q)
      BY <1>0, <2>3, <2>7 DEF DeletionStays
    <3>7. QED BY <3>1, <3>2, <2>9, <3>3, <3>4, <3>5, <3>6, SoundStays
  <2>11. Sound(p)'
    <3>1. /\ procs'[p].pc = own.pc /\ procs'[p].user = own.user /\ procs'[p].token = own.token
          /\ procs'[p].stale => own.stale \/ procs'[p].late
          /\ own.late => procs'[p].late
      BY <2>6, <2>8 DEF Remarked
    <3>2. /\ own.token \in Tokens \cup {0} /\ (own.token # 0 => tokens[own.token].state # "unused")
          /\ own.stale => own.late
          /\ own.pc = "revoke" => own.user = u
      <4>1. CASE own = IdleProc
        BY <4>1 DEF IdleProc
      <4>2. CASE own = [procs[p] EXCEPT !.pc = "revoke"]
        BY <2>1, <4>2 DEF Proc, Sound, Placed, Carrying
      <4>3. QED BY <2>5, <4>1, <4>2
    <3>3. procs'[p].pc \in {"idle", "revoke"}
      BY <3>1, <2>5
    <3>4. QED BY <2>1, <3>1, <3>2, <3>3 DEF Sound, Placed, Carrying, PastGates, BoundToHash, Counted, Erasing, PastAccount,
                                  PastApp, TokensStay
  <2>12. QED BY <2>7, <2>8, <2>10, <2>11 DEF Handlers
<1>3. QED BY <1>1, <1>2, Zenon DEF WriteUpdate
(* The handler that set the lock is done; every other that stands behind the *)
(* gate is marked, and so is every count the write puts out of date.         *)
LEMMA LockAndRecount ==
    ASSUME TypeOK, NEW p \in Procs, NEW U, NEW S,
           procs' = Recount([Locked(U, S) EXCEPT ![p] = IdleProc])
    PROVE  /\ procs' \in [Procs -> Proc]
           /\ Sound(p)'
           /\ procs'[p].pc = "idle"
           /\ \A q \in Procs \ {p} :
                 /\ Remarked(procs[q], procs'[q])
                 /\ procs[q].user \in U /\ procs[q].pc \in S => procs'[q].excused
                 /\ Admins' # Admins /\ procs[q].pc \in {"remove", "update"} => procs'[q].late
<1> DEFINE g == Locked(U, S)
           f == [g EXCEPT ![p] = IdleProc]
<1>1. /\ g \in [Procs -> Proc]
      /\ \A q \in Procs : /\ Remarked(procs[q], g[q])
                          /\ procs[q].user \in U /\ procs[q].pc \in S => g[q].excused
  BY LockedMarks DEF TypeOK
<1> HIDE DEF g
<1>2. f \in [Procs -> Proc] /\ f[p] = IdleProc /\ \A q \in Procs \ {p} : f[q] = g[q]
  BY <1>1, IdleIsProc
<1>3. procs' = Recount(f)
  BY DEF g
<1> HIDE DEF f
<1>4. /\ procs' \in [Procs -> Proc]
      /\ \A q \in Procs : /\ Remarked(f[q], procs'[q])
                          /\ procs'[q].excused = f[q].excused
                          /\ Admins' # Admins /\ f[q].pc \in {"remove", "update"} => procs'[q].late
  BY <1>2, <1>3, RecountMarks
<1>5. procs'[p].pc = "idle" /\ procs'[p].token = 0 /\ (procs'[p].stale => procs'[p].late)
  <2>1. IdleProc.pc = "idle" /\ IdleProc.token = 0 /\ ~IdleProc.stale
    BY DEF IdleProc
  <2>2. QED BY <2>1, <1>2, <1>4 DEF Remarked
<1>6. Sound(p)'
  BY <1>5 DEF Sound, Placed, Carrying, PastGates, BoundToHash, Counted, Erasing, PastAccount, PastApp
<1>7. ASSUME NEW q \in Procs, q # p
      PROVE  /\ Remarked(procs[q], procs'[q])
             /\ procs[q].user \in U /\ procs[q].pc \in S => procs'[q].excused
             /\ Admins' # Admins /\ procs[q].pc \in {"remove", "update"} => procs'[q].late
  <2>1. procs[q] \in Proc /\ g[q] \in Proc /\ procs'[q] \in Proc /\ f[q] = g[q]
    BY <1>1, <1>2, <1>4, <1>7 DEF TypeOK
  <2>2. Remarked(procs[q], procs'[q])
    BY <2>1, <1>1, <1>4, MarksAddUp
  <2>3. f[q].pc = procs[q].pc
    BY <2>1, <1>1 DEF Remarked
  <2>4. QED BY <2>1, <2>2, <2>3, <1>1, <1>4
<1>8. QED BY <1>4, <1>5, <1>6, <1>7

(* The removal of an account locks out who has not read it.                  *)
LEMMA WriteRemoveSound ==
    ASSUME TypeOK, Handlers, TokensStay, NEW p \in Procs, WriteRemove(p)
    PROVE  users' \in [Users -> User] /\ procs' \in [Procs -> Proc] /\ Handlers'
<1> DEFINE u == procs[p].user
           r == [users[u] EXCEPT !.deleted = IF users[u].row = "present" THEN TRUE ELSE users[u].deleted]
<1>1. u \in Users
  BY DEF WriteRemove, Handlers, Sound, Placed
<1>2. users[u] \in User
  BY <1>1 DEF TypeOK
<1>3. /\ r \in User /\ r.row = users[u].row /\ r.verified = users[u].verified /\ r.pw = users[u].pw
      /\ users[u].deleted => r.deleted
  BY <1>2 DEF User
<1>4. /\ users' = [users EXCEPT ![u] = r] /\ UNCHANGED <<tenants, access>>
      /\ procs' = Recount([Locked({u}, PastAccount) EXCEPT ![p] = IdleProc])
  BY <1>1 DEF WriteRemove, TypeOK
<1> HIDE DEF r
<1>5. users' \in [Users -> User] /\ users'[u] = r /\ \A v \in Users : v # u => users'[v] = users[v]
  BY <1>1, <1>3, <1>4, AccountRow
<1>6. /\ procs' \in [Procs -> Proc] /\ Sound(p)'
      /\ \A q \in Procs \ {p} :
            /\ Remarked(procs[q], procs'[q])
            /\ procs[q].user = u /\ procs[q].pc \in PastAccount => procs'[q].excused
            /\ Admins' # Admins /\ procs[q].pc \in {"remove", "update"} => procs'[q].late
  BY <1>4, LockAndRecount
<1>7. RowsStay
  BY <1>3, <1>4, <1>5 DEF RowsStay
<1>8. ASSUME NEW q \in Procs, q # p PROVE Sound(q)'
  <2>1. Sound(q) /\ Remarked(procs[q], procs'[q])
    BY <1>6, <1>8 DEF Handlers
  <2>2. GatesStay(q)
    <3>1. \A v \in Users : v # u => (AccountUsable(v) => AccountUsable(v)')
      BY <1>5 DEF AccountUsable
    <3>2. \A v \in Users : procs[q].user = v /\ ~procs'[q].excused /\ procs[q].pc \in PastAccount => v # u
      BY <1>6, <1>8
    <3>3. QED BY <1>4, <3>1, <3>2 DEF GatesStay, Admitted, TenantUsable, AppEnabled, PastApp, PastAccount
  <2>3. HashStays(q) /\ DeletionStays(q)
    BY <1>3, <1>4, <1>5 DEF HashStays, DeletionStays
  <2>4. CountStays(q)
    BY <1>6, <1>8 DEF CountStays
  <2>5. QED BY <2>1, <1>7, <2>2, <2>3, <2>4, SoundStays
<1>9. QED BY <1>5, <1>6, <1>8 DEF Handlers

(* What a purge leaves of the rows it does not touch, and of those it does.  *)
LEMMA ErasedRows ==
    ASSUME TypeOK, NEW U \in SUBSET Users, users' = Erased(U)
    PROVE  /\ users' \in [Users -> User]
           /\ \A v \in Users : v \notin U => users'[v] = users[v]
           /\ \A v \in U : users'[v].row = "purged"
<1>1. [NoAccount EXCEPT !.row = "purged"] \in User /\ [NoAccount EXCEPT !.row = "purged"].row = "purged"
  BY DEF NoAccount, User
<1>2. QED BY <1>1 DEF Erased, TypeOK

(* The purge of an account locks out who has not read it.                    *)
LEMMA CommitPurgeSound ==
    ASSUME TypeOK, Handlers, TokensStay, NEW p \in Procs, CommitPurge(p)
    PROVE  users' \in [Users -> User] /\ procs' \in [Procs -> Proc] /\ Handlers'
<1> DEFINE u == procs[p].user
           U == {v \in {u} : users[v].row = "present"}
<1>1. u \in Users
  BY DEF CommitPurge, Handlers, Sound, Placed
<1>2. /\ users' = Erased(U) /\ UNCHANGED <<tenants, access>>
      /\ procs' = Recount([Locked({u}, PastAccount) EXCEPT ![p] = IdleProc])
  BY DEF CommitPurge
<1>3. /\ users' \in [Users -> User]
      /\ \A v \in Users : v # u => users'[v] = users[v]
      /\ users'[u] = users[u] \/ users'[u].row = "purged"
  BY <1>1, <1>2, ErasedRows
<1>4. /\ procs' \in [Procs -> Proc] /\ Sound(p)'
      /\ \A q \in Procs \ {p} :
            /\ Remarked(procs[q], procs'[q])
            /\ procs[q].user = u /\ procs[q].pc \in PastAccount => procs'[q].excused
            /\ Admins' # Admins /\ procs[q].pc \in {"remove", "update"} => procs'[q].late
  BY <1>2, LockAndRecount
<1>5. RowsStay
  BY <1>2, <1>3 DEF RowsStay
<1>6. ASSUME NEW q \in Procs, q # p PROVE Sound(q)'
  <2>1. Sound(q) /\ Remarked(procs[q], procs'[q])
    BY <1>4, <1>6 DEF Handlers
  <2>2. GatesStay(q)
    <3>1. \A v \in Users : v # u => (AccountUsable(v) => AccountUsable(v)')
      BY <1>3 DEF AccountUsable
    <3>2. \A v \in Users : procs[q].user = v /\ ~procs'[q].excused /\ procs[q].pc \in PastAccount => v # u
      BY <1>4, <1>6
    <3>3. QED BY <1>2, <3>1, <3>2 DEF GatesStay, Admitted, TenantUsable, AppEnabled, PastApp, PastAccount
  <2>3. HashStays(q) /\ DeletionStays(q)
    BY <1>2, <1>3 DEF HashStays, DeletionStays
  <2>4. CountStays(q)
    BY <1>4, <1>6 DEF CountStays
  <2>5. QED BY <2>1, <1>5, <2>2, <2>3, <2>4, SoundStays
<1>7. QED BY <1>3, <1>4, <1>6 DEF Handlers
-----------------------------------------------------------------------------
(* Steps that change rows: the tenant's, its access, and the boot.           *)

(* A tenant that begins disturbs nobody: there was no such row to have read. *)
LEMMA CreateTenantSound ==
    ASSUME TypeOK, Handlers, TokensStay, NEW t \in Tenants, NEW a \in Access, CreateTenant(t, a)
    PROVE  /\ tenants' \in [Tenants -> Tenant] /\ access' \in [Tenants -> Access]
           /\ procs' \in [Procs -> Proc] /\ Handlers'
<1>1. /\ tenants[t].row = "never" /\ tenants' = [tenants EXCEPT ![t] = NewTenant]
      /\ access' = [access EXCEPT ![t] = a] /\ UNCHANGED <<users, procs>>
  BY DEF CreateTenant
<1>2. NewTenant \in Tenant /\ NewTenant.row = "present"
  BY DEF NewTenant, Tenant
<1>3. /\ tenants' \in [Tenants -> Tenant] /\ access' \in [Tenants -> Access] /\ tenants'[t] = NewTenant
      /\ \A s \in Tenants : s # t => tenants'[s] = tenants[s] /\ access'[s] = access[s]
  BY <1>1, <1>2 DEF TypeOK
<1>4. RowsStay
  BY <1>1, <1>2, <1>3 DEF RowsStay
<1>5. ASSUME NEW q \in Procs PROVE Sound(q)'
  <2>1. Sound(q) /\ Remarked(procs[q], procs'[q])
    BY <1>1, Unmarked DEF Handlers, TypeOK
  <2>2. GatesStay(q)
    <3> SUFFICES ASSUME NEW v \in Users
                 PROVE  /\ TenantUsable(TenantOf[v]) => TenantUsable(TenantOf[v])'
                        /\ Admitted(v) => Admitted(v)'
                        /\ \A app \in BOOLEAN : Admitted(v) /\ AppEnabled(v, app) => AppEnabled(v, app)'
      BY DEF GatesStay
    <3>1. TenantOf[v] \in Tenants \cup {NoTenant}
      BY SessionsAssumption
    <3>2. TenantUsable(TenantOf[v]) => TenantUsable(TenantOf[v])'
      BY <3>1, <1>1, <1>3, SessionsAssumption DEF TenantUsable
    <3>3. ASSUME NEW app \in BOOLEAN, Admitted(v), AppEnabled(v, app) PROVE AppEnabled(v, app)'
      <4>1. TenantOf[v] # NoTenant => TenantOf[v] # t
        BY <1>1, <3>3 DEF Admitted, TenantUsable
      <4>2. QED BY <3>1, <3>3, <4>1, <1>3 DEF AppEnabled
    <3>4. QED BY <1>1, <3>2, <3>3 DEF Admitted, AccountUsable
  <2>3. HashStays(q) /\ DeletionStays(q) /\ CountStays(q)
    BY <1>1, <1>3 DEF HashStays, DeletionStays, CountStays, Admins, LiveAdmin
  <2>4. QED BY <2>1, <1>4, <2>2, <2>3, SoundStays
<1>6. QED BY <1>1, <1>3, <1>5 DEF Handlers, TypeOK

(* The members of a tenant are those whose tenant it is.                     *)
LEMMA MembersOf == \A t \in Tenants, u \in Users : u \in Members(t) <=> TenantOf[u] = t
  BY DEF Members

(* A lock on a tenant marks who stands behind its gate; a tenant restored    *)
(* overtakes the purge that read it deleted.                                 *)
LEMMA SetTenantSound ==
    ASSUME TypeOK, Handlers, TokensStay, NEW t \in Tenants, NEW status \in {"ACTIVE", "SUSPENDED"}, NEW deleted \in BOOLEAN,
           SetTenant(t, status, deleted)
    PROVE  tenants' \in [Tenants -> Tenant] /\ procs' \in [Procs -> Proc] /\ Handlers'
<1> DEFINE r == [tenants[t] EXCEPT !.status = status, !.deleted = deleted]
           f == Locked(Members(t), PastTenant)
           Q == {q \in Procs : procs[q].pc = "erase" /\ procs[q].tenant = t /\ ~deleted}
<1>1. tenants[t] \in Tenant
  BY DEF TypeOK
<1>2. r \in Tenant /\ r.row = tenants[t].row /\ r.deleted = deleted
  BY <1>1 DEF Tenant
<1>3. tenants' = [tenants EXCEPT ![t] = r] /\ procs' = Overtaking(f, Q) /\ UNCHANGED <<users, access>>
  BY DEF SetTenant
<1>4. /\ f \in [Procs -> Proc]
      /\ \A q \in Procs : /\ Remarked(procs[q], f[q])
                          /\ procs[q].user \in Members(t) /\ procs[q].pc \in PastTenant => f[q].excused
  BY LockedMarks DEF TypeOK
<1>5. \A q \in Procs : procs[q].pc = "erase" /\ procs[q].tenant = t /\ ~deleted => q \in Q
  OBVIOUS
<1> HIDE DEF r, f, Q
<1>6. /\ tenants' \in [Tenants -> Tenant] /\ tenants'[t] = r
      /\ \A s \in Tenants : s # t => tenants'[s] = tenants[s]
  BY <1>2, <1>3 DEF TypeOK
<1>7. /\ procs' \in [Procs -> Proc]
      /\ \A q \in Procs : /\ Remarked(f[q], procs'[q])
                          /\ procs'[q].excused = f[q].excused
                          /\ q \in Q => procs'[q].late
  BY <1>3, <1>4, OvertakingMarks
<1>8. RowsStay
  BY <1>2, <1>3, <1>6 DEF RowsStay
<1>9. ASSUME NEW q \in Procs PROVE Sound(q)'
  <2>1. procs[q] \in Proc /\ f[q] \in Proc /\ procs'[q] \in Proc /\ Sound(q)
    BY <1>4, <1>7 DEF Handlers, TypeOK
  <2>2. Remarked(procs[q], procs'[q])
    BY <2>1, <1>4, <1>7, MarksAddUp
  <2>3. GatesStay(q)
    <3>1. \A v \in Users : TenantOf[v] # t => (TenantUsable(TenantOf[v]) => TenantUsable(TenantOf[v])')
      BY <1>6, SessionsAssumption DEF TenantUsable
    <3>2. \A v \in Users : procs[q].user = v /\ ~procs'[q].excused /\ procs[q].pc \in PastTenant => TenantOf[v] # t
      BY <1>4, <1>7, MembersOf
    <3>3. QED BY <1>3, <3>1, <3>2 DEF GatesStay, Admitted, AccountUsable, AppEnabled, PastApp, PastAccount, PastTenant
  <2>4. HashStays(q) /\ CountStays(q)
    BY <1>3 DEF HashStays, CountStays, Admins, LiveAdmin
  <2>5. DeletionStays(q)
    BY <1>2, <1>3, <1>5, <1>6, <1>7 DEF DeletionStays
  <2>6. QED BY <2>1, <2>2, <1>8, <2>3, <2>4, <2>5, SoundStays
<1>10. QED BY <1>6, <1>7, <1>9 DEF Handlers

(* The purge of a tenant locks out its members, and who has read them.       *)
LEMMA CommitPurgeTenantSound ==
    ASSUME TypeOK, Handlers, TokensStay, NEW p \in Procs, CommitPurgeTenant(p)
    PROVE  /\ users' \in [Users -> User] /\ tenants' \in [Tenants -> Tenant] /\ access' \in [Tenants -> Access]
           /\ procs' \in [Procs -> Proc] /\ Handlers'
<1> DEFINE t == procs[p].tenant
           U == {u \in Members(t) : users[u].row = "present"}
           r == [tenants[t] EXCEPT !.row = "purged"]
<1>0. procs[p].pc = "erase"
  BY DEF CommitPurgeTenant
<1>1. CASE Finish(p) /\ UNCHANGED <<tenants, access, users>>
  BY <1>1, FinishSound DEF TypeOK
<1>2. CASE /\ tenants' = [tenants EXCEPT ![t].row = "purged"]
           /\ access' = [access EXCEPT ![t] = NoAccess]
           /\ users' = Erased(U)
           /\ procs' = Recount([Locked(Members(t), PastTenant) EXCEPT ![p] = IdleProc])
  <2>1. t \in Tenants
    BY <1>0 DEF Handlers, Sound, Placed
  <2>2. tenants[t] \in Tenant
    BY <2>1 DEF TypeOK
  <2>3. r \in Tenant /\ r.row = "purged" /\ r.deleted = tenants[t].deleted /\ NoAccess \in Access
    BY <2>2 DEF Tenant, NoAccess, Access
  <2>4. tenants' = [tenants EXCEPT ![t] = r]
    BY <1>2, <2>1 DEF TypeOK
  <2>5. U \subseteq Users /\ \A v \in Users : TenantOf[v] # t => v \notin U
    BY DEF Members
  <2> HIDE DEF r
  <2>6. /\ tenants' \in [Tenants -> Tenant] /\ access' \in [Tenants -> Access] /\ tenants'[t] = r
        /\ \A s \in Tenants : s # t => tenants'[s] = tenants[s] /\ access'[s] = access[s]
    BY <1>2, <2>1, <2>3, <2>4 DEF TypeOK
  <2>7. /\ users' \in [Users -> User]
        /\ \A v \in Users : users'[v] = users[v] \/ users'[v].row = "purged"
        /\ \A v \in Users : TenantOf[v] # t => users'[v] = users[v]
    BY <1>2, <2>5, ErasedRows
  <2>8. /\ procs' \in [Procs -> Proc] /\ Sound(p)'
        /\ \A q \in Procs \ {p} :
              /\ Remarked(procs[q], procs'[q])
              /\ procs[q].user \in Members(t) /\ procs[q].pc \in PastTenant => procs'[q].excused
              /\ Admins' # Admins /\ procs[q].pc \in {"remove", "update"} => procs'[q].late
    BY <1>2, LockAndRecount
  <2>9. RowsStay
    BY <2>3, <2>6, <2>7 DEF RowsStay
  <2>10. ASSUME NEW q \in Procs, q # p PROVE Sound(q)'
    <3>1. Sound(q) /\ Remarked(procs[q], procs'[q])
      BY <2>8, <2>10 DEF Handlers
    <3>2. GatesStay(q)
      <4>1. ASSUME NEW v \in Users, TenantOf[v] # t
            PROVE  /\ TenantUsable(TenantOf[v]) => TenantUsable(TenantOf[v])'
                   /\ AccountUsable(v) => AccountUsable(v)'
                   /\ \A app \in BOOLEAN : AppEnabled(v, app) => AppEnabled(v, app)'
        <5>1. TenantOf[v] \in Tenants \cup {NoTenant}
          BY SessionsAssumption
        <5>2. QED BY <5>1, <4>1, <2>6, <2>7 DEF TenantUsable, AccountUsable, AppEnabled
      <4>2. \A v \in Users : procs[q].user = v /\ ~procs'[q].excused /\ procs[q].pc \in PastTenant => TenantOf[v] # t
        BY <2>1, <2>8, <2>10, MembersOf
      <4>3. QED BY <4>1, <4>2 DEF GatesStay, Admitted, PastApp, PastAccount, PastTenant
    <3>3. HashStays(q)
      BY <2>7 DEF HashStays
    <3>4. DeletionStays(q)
      BY <2>3, <2>6, <2>7 DEF DeletionStays
    <3>5. CountStays(q)
      BY <2>8, <2>10 DEF CountStays
    <3>6. QED BY <3>1, <2>9, <3>2, <3>3, <3>4, <3>5, SoundStays
  <2>11. QED BY <2>6, <2>7, <2>8, <2>10 DEF Handlers
<1>3. QED BY <1>1, <1>2 DEF CommitPurgeTenant

(* A change of access, or of what time makes of it, marks who is past the    *)
(* app's gate.                                                               *)
LEMMA AccessSound ==
    ASSUME TypeOK, Handlers, TokensStay, NEW t \in Tenants, (\E a \in Terms : SetAccess(t, a)) \/ DeadlinePasses(t)
    PROVE  access' \in [Tenants -> Access] /\ procs' \in [Procs -> Proc] /\ Handlers'
<1>1. UNCHANGED <<users, tenants>> /\ procs' = Locked(Members(t), PastApp)
  BY DEF SetAccess, DeadlinePasses
<1>2. access' \in [Tenants -> Access] /\ \A s \in Tenants : s # t => access'[s] = access[s]
  <2>1. ASSUME NEW a \in Terms, SetAccess(t, a)
        PROVE  access' \in [Tenants -> Access] /\ \A s \in Tenants : s # t => access'[s] = access[s]
    BY <2>1, SessionsAssumption DEF SetAccess, TypeOK
  <2>2. ASSUME DeadlinePasses(t)
        PROVE  access' \in [Tenants -> Access] /\ \A s \in Tenants : s # t => access'[s] = access[s]
    <3>1. access[t] \in Access /\ access[t].status \in {"TRIAL", "PAST_DUE"}
      BY <2>2 DEF DeadlinePasses, TypeOK
    <3>2. [access[t] EXCEPT !.over = TRUE] \in Access
      BY <3>1 DEF Access
    <3>3. access' = [access EXCEPT ![t] = [access[t] EXCEPT !.over = TRUE]]
      BY <2>2 DEF DeadlinePasses, TypeOK
    <3>4. QED BY <3>2, <3>3 DEF TypeOK
  <2>3. QED BY <2>1, <2>2
<1>3. /\ procs' \in [Procs -> Proc]
      /\ \A q \in Procs : /\ Remarked(procs[q], procs'[q])
                          /\ procs[q].user \in Members(t) /\ procs[q].pc \in PastApp => procs'[q].excused
  BY <1>1, LockedMarks DEF TypeOK
<1>4. RowsStay
  BY <1>1 DEF RowsStay
<1>5. ASSUME NEW q \in Procs PROVE Sound(q)'
  <2>1. Sound(q) /\ Remarked(procs[q], procs'[q])
    BY <1>3 DEF Handlers
  <2>2. GatesStay(q)
    <3>1. ASSUME NEW v \in Users, TenantOf[v] # t
          PROVE  \A app \in BOOLEAN : AppEnabled(v, app) => AppEnabled(v, app)'
      <4>1. TenantOf[v] \in Tenants \cup {NoTenant}
        BY SessionsAssumption
      <4>2. QED BY <4>1, <3>1, <1>2 DEF AppEnabled
    <3>2. \A v \in Users : procs[q].user = v /\ ~procs'[q].excused /\ procs[q].pc \in PastApp => TenantOf[v] # t
      BY <1>3, MembersOf
    <3>3. QED BY <1>1, <3>1, <3>2 DEF GatesStay, Admitted, AccountUsable, TenantUsable
  <2>3. HashStays(q) /\ DeletionStays(q) /\ CountStays(q)
    BY <1>1 DEF HashStays, DeletionStays, CountStays, Admins, LiveAdmin
  <2>4. QED BY <2>1, <1>4, <2>2, <2>3, SoundStays
<1>6. QED BY <1>2, <1>3, <1>5 DEF Handlers

(* A restart leaves no handler to say anything of.                           *)
LEMMA RestartSound ==
    ASSUME TypeOK, Restart
    PROVE  users' \in [Users -> User] /\ procs' \in [Procs -> Proc] /\ Handlers'
<1>1. procs' = [q \in Procs |-> IdleProc]
  BY DEF Restart
<1>2. procs' \in [Procs -> Proc] /\ \A q \in Procs : procs'[q] = IdleProc
  BY <1>1, IdleIsProc
<1>3. [NewUser EXCEPT !.verified = TRUE, !.admin = TRUE] \in User
  BY DEF NewUser, NoAccount, User
<1>4. users' \in [Users -> User]
  BY <1>3 DEF Restart, TypeOK
<1>5. QED BY <1>2, <1>4, IdleSound DEF Handlers
-----------------------------------------------------------------------------
(* Tokens.                                                                   *)

\* What a step does to a token it does not issue.
Ages(k) ==
    /\ tokens'[k] \in Token
    /\ tokens[k].state # "unused" => tokens'[k].state # "unused"
    /\ tokens'[k].state # "unused" => tokens'[k].user \in Users
    /\ tokens'[k].state = "live" => tokens[k].state = "live"
    /\ tokens'[k].state \in Unrevoked =>
          tokens[k].state \in Unrevoked /\ tokens'[k].stale = tokens[k].stale /\ tokens'[k].late = tokens[k].late

(* A token that nothing touches ages.                                        *)
LEMMA Untouched ==
    ASSUME TypeOK, TokensOwned, NEW k \in Tokens, tokens'[k] = tokens[k]
    PROVE  Ages(k)
  BY DEF Ages, TypeOK, TokensOwned

(* So does one that is revoked, and one whose row is deleted.                *)
LEMMA RevokedAges ==
    ASSUME NEW k \in Tokens, tokens[k].user \in Users, tokens'[k] = Revoked(k) \/ tokens'[k] = Gone(k)
    PROVE  Ages(k)
<1>1. Revoked(k) \in Token /\ Revoked(k).state = "revoked" /\ Revoked(k).user = tokens[k].user
  BY DEF Revoked, NoToken, Token
<1>2. Gone(k) \in Token /\ Gone(k).state = "gone" /\ Gone(k).user = tokens[k].user
  BY DEF Gone, NoToken, Token
<1>3. QED BY <1>1, <1>2 DEF Ages, Unrevoked

(* The end of the sessions of u leaves no unrevoked token that it marks.     *)
LEMMA EndedAge ==
    ASSUME TypeOK, TokensOwned, NEW u \in Users, tokens' = RevokedFor(u)
    PROVE  tokens' \in [Tokens -> Token] /\ \A k \in Tokens : Ages(k)
<1>1. \A k \in Tokens : tokens'[k] = IF MayRevoke(k, u) THEN Revoked(k) ELSE tokens[k]
  BY DEF RevokedFor, MayRevoke
<1>2. ASSUME NEW k \in Tokens PROVE Ages(k)
  <2>1. CASE MayRevoke(k, u)
    BY <1>1, <2>1, RevokedAges DEF MayRevoke
  <2>2. CASE ~MayRevoke(k, u)
    BY <1>1, <2>2, Untouched
  <2>3. QED BY <2>1, <2>2
<1>3. tokens' = [k \in Tokens |-> tokens'[k]]
  BY DEF RevokedFor
<1>4. \A k \in Tokens : tokens'[k] \in Token
  BY <1>2 DEF Ages
<1>5. QED BY <1>2, <1>3, <1>4

(* The purge of accounts takes their tokens.                                 *)
LEMMA CascadedAge ==
    ASSUME TypeOK, TokensOwned, NEW U \in SUBSET Users, tokens' = Cascade(U)
    PROVE  tokens' \in [Tokens -> Token] /\ \A k \in Tokens : Ages(k)
<1>1. \A k \in Tokens : tokens'[k] = IF tokens[k].user \in U THEN Gone(k) ELSE tokens[k]
  BY DEF Cascade
<1>2. ASSUME NEW k \in Tokens PROVE Ages(k)
  <2>1. CASE tokens[k].user \in U
    BY <1>1, <2>1, RevokedAges
  <2>2. CASE tokens[k].user \notin U
    BY <1>1, <2>2, Untouched
  <2>3. QED BY <2>1, <2>2
<1>3. tokens' = [k \in Tokens |-> tokens'[k]]
  BY DEF Cascade
<1>4. \A k \in Tokens : tokens'[k] \in Token
  BY <1>2 DEF Ages
<1>5. QED BY <1>2, <1>3, <1>4

(* A step that writes one token, or a set of them, with rows that age.       *)
LEMMA OneAges ==
    ASSUME TypeOK, TokensOwned, NEW k \in Tokens, NEW r \in Token, tokens' = [tokens EXCEPT ![k] = r],
           tokens'[k] = r => Ages(k)
    PROVE  tokens' \in [Tokens -> Token] /\ \A j \in Tokens : Ages(j)
<1>1. tokens' \in [Tokens -> Token] /\ tokens'[k] = r /\ \A j \in Tokens : j # k => tokens'[j] = tokens[j]
  BY DEF TypeOK
<1>2. QED BY <1>1, Untouched

\* A new token: what its handler has read of the account it is for.
Issued(p, k) ==
    /\ Issue(p)
    /\ tokens[k].state = "unused"
    /\ tokens'[k] \in Token
    /\ tokens'[k].state = "live" /\ tokens'[k].user = procs[p].user /\ tokens'[k].app = procs[p].app
    /\ tokens'[k].user \in Users
    /\ tokens'[k].stale => tokens'[k].late

(* Every step ages every token, or is the one that issues it.                *)
LEMMA TokensAge ==
    ASSUME TypeOK, Handlers, TokensOwned, Next
    PROVE  /\ tokens' \in [Tokens -> Token]
           /\ \A k \in Tokens : Ages(k) \/ \E p \in Procs : Issued(p, k)
<1> DEFINE Good == /\ tokens' \in [Tokens -> Token]
                   /\ \A k \in Tokens : Ages(k) \/ \E p \in Procs : Issued(p, k)
<1>1. CASE UNCHANGED tokens
  BY <1>1, Untouched DEF TypeOK
<1>2. ASSUME NEW p \in Procs, Rotate(p) PROVE Good
  <2>1. CASE UNCHANGED tokens
    BY <2>1, <1>1
  <2>2. CASE tokens' = [tokens EXCEPT ![procs[p].token] = Revoked(procs[p].token)]
    <3> DEFINE k == procs[p].token
    <3>1. k \in Tokens /\ tokens[k].user \in Users
      BY <1>2 DEF Rotate, Handlers, Sound, Placed, TokensOwned
    <3>2. Revoked(k) \in Token
      BY <3>1 DEF Revoked, NoToken, Token
    <3>3. tokens'[k] = Revoked(k) => Ages(k)
      BY <3>1, RevokedAges
    <3> HIDE DEF k
    <3>4. QED BY <2>2, <3>1, <3>2, <3>3, OneAges DEF k
  <2>3. QED BY <1>2, <2>1, <2>2 DEF Rotate
<1>3. ASSUME NEW p \in Procs, Issue(p) PROVE Good
  <2>1. CASE UNCHANGED tokens
    BY <2>1, <1>1
  <2>2. ASSUME NEW k \in Unused,
               tokens' = [tokens EXCEPT ![k] =
                            [NoToken EXCEPT !.state = "live", !.user = procs[p].user, !.app = procs[p].app,
                                            !.stale = procs[p].stale, !.late = procs[p].late]]
        PROVE  Good
    <3> DEFINE r == [NoToken EXCEPT !.state = "live", !.user = procs[p].user, !.app = procs[p].app,
                                    !.stale = procs[p].stale, !.late = procs[p].late]
    <3>1. procs[p] \in Proc /\ procs[p].user \in Users /\ (procs[p].stale => procs[p].late)
      BY <1>3 DEF Issue, TypeOK, Handlers, Sound, Placed, Carrying
    <3>2. /\ r \in Token /\ r.state = "live" /\ r.user = procs[p].user /\ r.app = procs[p].app
          /\ r.stale => r.late
      BY <3>1 DEF Proc, NoToken, Token
    <3>3. k \in Tokens /\ tokens[k].state = "unused" /\ tokens' = [tokens EXCEPT ![k] = r]
      BY <2>2 DEF Unused
    <3> HIDE DEF r
    <3>4. tokens' \in [Tokens -> Token] /\ tokens'[k] = r /\ \A j \in Tokens : j # k => tokens'[j] = tokens[j]
      BY <3>2, <3>3 DEF TypeOK
    <3>5. Issued(p, k)
      BY <1>3, <3>1, <3>2, <3>3, <3>4 DEF Issued
    <3>6. QED BY <3>4, <3>5, Untouched
  <2>3. QED BY <1>3, <2>1, <2>2 DEF Issue
<1>4. ASSUME NEW p \in Procs, OnRefreshReuse(p) \/ RevokeAfterUpdate(p) \/ CommitReset(p) PROVE Good
  <2>1. procs[p].user \in Users
    BY <1>4 DEF OnRefreshReuse, RevokeAfterUpdate, CommitReset, Handlers, Sound, Placed
  <2>2. UNCHANGED tokens \/ tokens' = RevokedFor(procs[p].user)
    BY <1>4 DEF OnRefreshReuse, RevokeAfterUpdate, CommitReset, EndSessions
  <2>3. QED BY <2>1, <2>2, <1>1, EndedAge
<1>5. ASSUME NEW p \in Procs, CommitPurge(p) \/ CommitPurgeTenant(p) PROVE Good
  <2>1. CommitPurge(p) => procs[p].user \in Users
    BY DEF CommitPurge, Handlers, Sound, Placed
  <2>2. UNCHANGED tokens \/ \E U \in SUBSET Users : tokens' = Cascade(U)
    BY <1>5, <2>1 DEF CommitPurge, CommitPurgeTenant, Members
  <2>3. QED BY <2>2, <1>1, CascadedAge
<1>6. ASSUME NEW k \in Tokens, Logout(k) PROVE Good
  <2>1. tokens[k].user \in Users /\ tokens' = [tokens EXCEPT ![k] = Revoked(k)]
    BY <1>6 DEF Logout, TokensOwned, Unrevoked
  <2>2. Revoked(k) \in Token
    BY <2>1 DEF Revoked, NoToken, Token
  <2>3. QED BY <2>1, <2>2, RevokedAges, OneAges
<1>7. ASSUME NEW k \in Tokens, TokenExpires(k) \/ RevocationAges(k) PROVE Good
  <2>1. PICK s \in {"expired", "aged"} : /\ tokens' = [tokens EXCEPT ![k].state = s]
                                         /\ s = "expired" => tokens[k].state = "live"
                                         /\ tokens[k].state # "unused"
    BY <1>7 DEF TokenExpires, RevocationAges
  <2> DEFINE r == [tokens[k] EXCEPT !.state = s]
  <2>2. tokens[k] \in Token /\ tokens[k].user \in Users
    BY <2>1 DEF TypeOK, TokensOwned
  <2>3. /\ r \in Token /\ r.state = s /\ r.user = tokens[k].user
        /\ r.stale = tokens[k].stale /\ r.late = tokens[k].late
    BY <2>2 DEF Token
  <2>4. tokens' = [tokens EXCEPT ![k] = r]
    BY <2>1 DEF TypeOK
  <2> HIDE DEF r
  <2>5. tokens'[k] = r => Ages(k)
    BY <2>1, <2>2, <2>3 DEF Ages, Unrevoked
  <2>6. QED BY <2>3, <2>4, <2>5, OneAges
<1>8. ASSUME NEW K \in SUBSET Tokens, Sweep(K) PROVE Good
  <2>1. \A k \in Tokens : tokens'[k] = IF k \in K THEN Gone(k) ELSE tokens[k]
    BY <1>8 DEF Sweep
  <2>2. ASSUME NEW k \in Tokens PROVE Ages(k)
    <3>1. CASE k \in K
      <4>1. tokens[k].user \in Users
        BY <1>8, <3>1 DEF Sweep, TokensOwned
      <4>2. QED BY <2>1, <3>1, <4>1, RevokedAges
    <3>2. CASE k \notin K
      BY <2>1, <3>2, Untouched
    <3>3. QED BY <3>1, <3>2
  <2>3. tokens' = [k \in Tokens |-> tokens'[k]]
    BY <1>8 DEF Sweep
  <2>4. \A k \in Tokens : tokens'[k] \in Token
    BY <2>2 DEF Ages
  <2>5. QED BY <2>2, <2>3, <2>4
<1> HIDE DEF Good
<1>9. ASSUME NEW p \in Procs, SessionStep(p) PROVE Good
  <2>1. Good \/ UNCHANGED tokens
    BY <1>9, <1>2, <1>3, <1>4
       DEF SessionStep, Login, ReadAccount, Refresh, Gate, Replay, ResetPassword
  <2>2. QED BY <2>1, <1>1 DEF Good
<1>10. ASSUME NEW p \in Procs, AdminStep(p) PROVE Good
  <2>1. Good \/ UNCHANGED tokens
    BY <1>10, <1>4, <1>5
       DEF AdminStep, UpdateUser, WriteUpdate, RemoveUser, Deactivate, WriteRemove, PurgeUser, PurgeTenant
  <2>2. QED BY <2>1, <1>1 DEF Good
<1>11. ASSUME NEW u \in Users, AccountStep(u) PROVE Good
  <2>1. UNCHANGED tokens
    BY <1>11 DEF AccountStep, RequestReset, SendVerification, ConfirmVerification, SignUp, CreateUser, RestoreUser
  <2>2. QED BY <2>1, <1>1 DEF Good
<1>12. ASSUME NEW t \in Tenants, TenantStep(t) PROVE Good
  <2>1. UNCHANGED tokens
    BY <1>12 DEF TenantStep, CreateTenant, SetTenant, SetAccess, DeadlinePasses
  <2>2. QED BY <2>1, <1>1 DEF Good
<1>13. ASSUME Environment PROVE Good
  <2>1. Good \/ UNCHANGED tokens
    BY <1>13, <1>6, <1>7, <1>8 DEF Environment, LinkExpires, Restart
  <2>2. QED BY <2>1, <1>1 DEF Good
<1>14. Good
  BY <1>9, <1>10, <1>11, <1>12, <1>13 DEF Next
<1>15. QED BY <1>14 DEF Good

(* So a row of the token table keeps its user, none is taken back, and who   *)
(* carries on an ended session was overtaken.                                *)
LEMMA TokensKept ==
    ASSUME TypeOK, Handlers, TokensOwned, SessionsEnd, Next
    PROVE  tokens' \in [Tokens -> Token] /\ TokensStay /\ TokensOwned' /\ SessionsEnd'
<1>1. tokens' \in [Tokens -> Token] /\ \A k \in Tokens : Ages(k) \/ \E p \in Procs : Issued(p, k)
  BY TokensAge
<1>2. TokensStay /\ TokensOwned'
  BY <1>1 DEF TokensStay, TokensOwned, Ages, Issued
<1>3. SessionsEnd'
  BY <1>1 DEF SessionsEnd, Ages, Issued
<1>4. QED BY <1>1, <1>2, <1>3
-----------------------------------------------------------------------------
(* The invariant of every run.                                               *)

(* The links, mails and changes of every step.                               *)
LEMMA TrafficKept ==
    ASSUME TypeOK, Next
    PROVE  links' \in SUBSET Link /\ mailed' \in SUBSET Users /\ changes' \in Nat
<1>1. ASSUME NEW u \in Users, AccountStep(u)
      PROVE  links' \in SUBSET Link /\ mailed' \in SUBSET Users /\ changes' \in Nat
  <2>1. [user |-> u, pw |-> users[u].pw] \in Link
    BY DEF TypeOK, Link, User
  <2>2. CASE RequestReset(u)
    BY <2>1, <2>2 DEF RequestReset, TypeOK
  <2>3. CASE SignUp(u) \/ SendVerification(u)
    BY <2>3 DEF SignUp, SendVerification, TypeOK
  <2>4. CASE ConfirmVerification(u) \/ (\E admin \in BOOLEAN : CreateUser(u, admin)) \/ RestoreUser(u)
    <3>1. UNCHANGED <<links, mailed>>
      BY <2>4 DEF ConfirmVerification, CreateUser, RestoreUser
    <3>2. changes' = changes \/ changes' = changes + 1
      BY <2>4 DEF ConfirmVerification, CreateUser, RestoreUser, Administers
    <3>3. QED BY <3>1, <3>2 DEF TypeOK
  <2>5. QED BY <1>1, <2>2, <2>3, <2>4 DEF AccountStep
<1>2. ASSUME NEW p \in Procs, SessionStep(p)
      PROVE  UNCHANGED <<links, mailed, changes>>
  BY <1>2 DEF SessionStep, Login, ReadAccount, Refresh, Gate, Rotate, Issue, Replay, OnRefreshReuse, ResetPassword,
              CommitReset
<1>3. ASSUME NEW p \in Procs, AdminStep(p)
      PROVE  UNCHANGED <<links, mailed>> /\ (changes' = changes \/ changes' = changes + 1)
  BY <1>3 DEF AdminStep, UpdateUser, WriteUpdate, RevokeAfterUpdate, RemoveUser, Deactivate, WriteRemove, PurgeUser,
              CommitPurge, PurgeTenant, CommitPurgeTenant, Administers
<1>4. ASSUME NEW t \in Tenants, TenantStep(t)
      PROVE  UNCHANGED <<links, mailed>> /\ (changes' = changes \/ changes' = changes + 1)
  BY <1>4 DEF TenantStep, CreateTenant, SetTenant, SetAccess, DeadlinePasses, Administers
<1>5. ASSUME Environment
      PROVE  links' \subseteq links /\ UNCHANGED <<mailed, changes>>
  BY <1>5 DEF Environment, Logout, TokenExpires, RevocationAges, Sweep, LinkExpires, Restart
<1>6. QED BY <1>1, <1>2, <1>3, <1>4, <1>5 DEF Next, TypeOK

(* The rows and the handlers of every step.                                  *)
LEMMA RowsKept ==
    ASSUME TypeOK, Handlers, TokensStay, TokensOwned, SessionsEnd, Next
    PROVE  /\ users' \in [Users -> User] /\ tenants' \in [Tenants -> Tenant] /\ access' \in [Tenants -> Access]
           /\ procs' \in [Procs -> Proc] /\ Handlers'
<1> DEFINE Good == /\ users' \in [Users -> User] /\ tenants' \in [Tenants -> Tenant] /\ access' \in [Tenants -> Access]
                   /\ procs' \in [Procs -> Proc] /\ Handlers'
<1>0. users \in [Users -> User] /\ tenants \in [Tenants -> Tenant] /\ access \in [Tenants -> Access]
  BY DEF TypeOK
<1>1. ASSUME NEW p \in Procs, Starts(p) PROVE Good
  <2>1. UNCHANGED <<users, tenants, access>>
    BY <1>1 DEF Starts, Login, Refresh, Replay, ResetPassword, UpdateUser, RemoveUser, Deactivate, PurgeUser, PurgeTenant
  <2>2. QED BY <1>0, <1>1, <2>1, StartSound
<1>2. ASSUME NEW p \in Procs, Moves(p) PROVE Good
  <2>1. UNCHANGED <<users, tenants, access>>
    BY <1>2 DEF Moves, ReadAccount, Gate, Rotate, Issue
  <2>2. QED BY <1>0, <1>2, <2>1, MoveSound
<1>3. ASSUME NEW p \in Procs, OnRefreshReuse(p) \/ RevokeAfterUpdate(p) PROVE Good
  <2>1. UNCHANGED <<users, tenants, access>>
    BY <1>3 DEF OnRefreshReuse, RevokeAfterUpdate
  <2>2. QED BY <1>0, <1>3, <2>1, EndSound
<1>4. ASSUME NEW p \in Procs, CommitReset(p) \/ WriteUpdate(p) \/ WriteRemove(p) \/ CommitPurge(p) PROVE Good
  <2>1. UNCHANGED <<tenants, access>>
    BY <1>4 DEF CommitReset, WriteUpdate, WriteRemove, CommitPurge
  <2>2. QED BY <1>0, <1>4, <2>1, CommitResetSound, WriteUpdateSound, WriteRemoveSound, CommitPurgeSound
<1>5. ASSUME NEW p \in Procs, CommitPurgeTenant(p) PROVE Good
  BY <1>5, CommitPurgeTenantSound
<1>6. ASSUME NEW u \in Users, AccountStep(u) PROVE Good
  <2>1. CASE RequestReset(u) \/ SendVerification(u)
    <3>1. UNCHANGED <<users, tenants, access>> /\ Quiet
      BY <2>1 DEF RequestReset, SendVerification, Quiet
    <3>2. QED BY <1>0, <3>1, QuietSound
  <2>2. CASE SignUp(u)
    BY <2>2, SignUpSound
  <2>3. ASSUME ConfirmVerification(u) \/ (\E admin \in BOOLEAN : CreateUser(u, admin)) \/ RestoreUser(u) PROVE Good
    <3>1. UNCHANGED <<tenants, access>>
      BY <2>3 DEF ConfirmVerification, CreateUser, RestoreUser
    <3>2. QED BY <1>0, <2>3, <3>1, ConfirmSound, CreateUserSound, RestoreSound
  <2> HIDE DEF Good
  <2>4. QED BY <1>6, <2>1, <2>2, <2>3 DEF AccountStep
<1>7. ASSUME NEW t \in Tenants, TenantStep(t) PROVE Good
  <2>1. ASSUME NEW a \in {NoAccess, [status |-> "ACTIVE", over |-> FALSE]}, CreateTenant(t, a) PROVE Good
    <3>1. NoAccess \in Access /\ [status |-> "ACTIVE", over |-> FALSE] \in Access
      BY DEF NoAccess, Access
    <3>2. UNCHANGED users
      BY <2>1 DEF CreateTenant
    <3>3. QED BY <1>0, <2>1, <3>1, <3>2, CreateTenantSound
  <2>2. ASSUME NEW status \in {"ACTIVE", "SUSPENDED"}, NEW deleted \in BOOLEAN, SetTenant(t, status, deleted) PROVE Good
    <3>1. UNCHANGED <<users, access>>
      BY <2>2 DEF SetTenant
    <3>2. QED BY <1>0, <2>2, <3>1, SetTenantSound
  <2>3. ASSUME (\E a \in Terms : SetAccess(t, a)) \/ DeadlinePasses(t) PROVE Good
    <3>1. UNCHANGED <<users, tenants>>
      BY <2>3 DEF SetAccess, DeadlinePasses
    <3>2. QED BY <1>0, <2>3, <3>1, AccessSound
  <2> HIDE DEF Good
  <2>4. QED BY <1>7, <2>1, <2>2, <2>3 DEF TenantStep
<1>8. ASSUME Environment PROVE Good
  <2>1. CASE Restart
    <3>1. UNCHANGED <<tenants, access>>
      BY <2>1 DEF Restart
    <3>2. QED BY <1>0, <2>1, <3>1, RestartSound
  <2>2. ASSUME Quiet PROVE Good
    <3>1. UNCHANGED <<users, tenants, access>>
      BY <2>2 DEF Quiet, Logout, TokenExpires, RevocationAges, Sweep, LinkExpires, RequestReset, SendVerification
    <3>2. QED BY <1>0, <2>2, <3>1, QuietSound
  <2> HIDE DEF Good
  <2>3. QED BY <1>8, <2>1, <2>2 DEF Environment, Quiet
<1> HIDE DEF Good
<1>9. ASSUME NEW p \in Procs, SessionStep(p) PROVE Good
  BY <1>9, <1>1, <1>2, <1>3, <1>4 DEF SessionStep, Starts, Moves
<1>10. ASSUME NEW p \in Procs, AdminStep(p) PROVE Good
  BY <1>10, <1>1, <1>3, <1>4, <1>5 DEF AdminStep, Starts
<1>11. Good
  BY <1>6, <1>7, <1>8, <1>9, <1>10 DEF Next
<1>12. QED BY <1>11 DEF Good

(* No handler is under way at first, and no row is there.                    *)
LEMMA InitHolds == Init => IInv
<1> SUFFICES ASSUME Init PROVE IInv
  OBVIOUS
<1>1. \A q \in Procs : procs[q] = IdleProc
  BY DEF Init
<1>2. NoAccount \in User /\ [NewTenant EXCEPT !.row = "never"] \in Tenant /\ NoAccess \in Access
  BY DEF NoAccount, User, NewTenant, Tenant, NoAccess, Access
<1>3. NoToken \in Token /\ NoToken.state = "unused"
  BY DEF NoToken, Token
<1>4. TypeOK
  BY <1>2, <1>3, IdleIsProc DEF Init, TypeOK
<1>5. Handlers
  BY <1>1 DEF Handlers, Sound, Placed, Carrying, PastGates, BoundToHash, Counted, Erasing, IdleProc, PastAccount, PastApp
<1>6. TokensOwned /\ SessionsEnd
  BY <1>3 DEF Init, TokensOwned, SessionsEnd, Unrevoked
<1>7. QED BY <1>4, <1>5, <1>6 DEF IInv

(* Every step keeps the invariant.                                           *)
LEMMA StepKeeps == IInv /\ [Next]_vars => IInv'
<1>1. ASSUME IInv, Next PROVE IInv'
  <2>1. TypeOK /\ Handlers /\ TokensOwned /\ SessionsEnd
    BY <1>1 DEF IInv
  <2>2. tokens' \in [Tokens -> Token] /\ TokensStay /\ TokensOwned' /\ SessionsEnd'
    BY <1>1, <2>1, TokensKept
  <2>3. /\ users' \in [Users -> User] /\ tenants' \in [Tenants -> Tenant] /\ access' \in [Tenants -> Access]
        /\ procs' \in [Procs -> Proc] /\ Handlers'
    BY <1>1, <2>1, <2>2, RowsKept
  <2>4. links' \in SUBSET Link /\ mailed' \in SUBSET Users /\ changes' \in Nat
    BY <1>1, <2>1, TrafficKept
  <2>5. QED BY <2>2, <2>3, <2>4 DEF IInv, TypeOK
<1>2. ASSUME IInv, UNCHANGED vars PROVE IInv'
  <2>1. UNCHANGED users /\ UNCHANGED tenants /\ UNCHANGED access /\ UNCHANGED tokens
    BY <1>2 DEF vars
  <2>2. UNCHANGED links /\ UNCHANGED mailed /\ UNCHANGED procs /\ UNCHANGED changes
    BY <1>2 DEF vars
  <2>3. TypeOK' /\ TokensOwned' /\ SessionsEnd'
    BY <1>2, <2>1, <2>2 DEF IInv, TypeOK, TokensOwned, SessionsEnd
  <2>4. TypeOK /\ TokensStay
    BY <1>2, <2>1 DEF IInv, TokensStay
  <2>5. ASSUME NEW q \in Procs PROVE Sound(q)'
    <3>1. Sound(q) /\ Remarked(procs[q], procs'[q])
      BY <1>2, <2>2, <2>4, Unmarked DEF IInv, Handlers, TypeOK
    <3>2. QED BY <2>1, <2>4, <3>1, SoundWhenQuiet
  <2>6. QED BY <2>3, <2>5 DEF IInv, Handlers
<1>3. QED BY <1>1, <1>2

(* In every run, every handler still knows what it read, or is marked as one *)
(* that does not (the awaits of auth.service.ts, account-flows.service.ts    *)
(* and users.service.ts).                                                    *)
THEOREM Invariant == Spec => []IInv
  BY InitHolds, StepKeeps, PTL DEF Spec

(* Every variable keeps its type: what a handler writes is a row, a token or *)
(* a link (the writes of auth.service.ts, users.service.ts and               *)
(* tenants.service.ts).                                                      *)
THEOREM TypeCorrect == Spec => []TypeOK
<1>1. IInv => TypeOK
  BY DEF IInv
<1>2. QED BY <1>1, Invariant, PTL

(* A token that is alive after its user's sessions were ended was issued by  *)
(* a handler that was overtaken (revokeAllForUser, auth.service.ts; the      *)
(* reset's transaction, account-flows.service.ts; update, users.service.ts). *)
THEOREM SessionsEndHolds == Spec => []SessionsEnd
<1>1. IInv => SessionsEnd
  BY DEF IInv
<1>2. QED BY <1>1, Invariant, PTL
-----------------------------------------------------------------------------
(* What steps may never do.                                                  *)

(* A handler is moved by a step of its own, or dropped by a restart.         *)
LEMMA MovesItself ==
    ASSUME TypeOK, Next, NEW p \in Procs, procs'[p].pc # procs[p].pc
    PROVE  SessionStep(p) \/ AdminStep(p) \/ Restart
<1>1. ASSUME NEW q \in Procs, SessionStep(q), q # p PROVE FALSE
  <2>1. CASE procs'[p] = procs[p]
    BY <2>1
  <2>2. CASE EndSessions(q, procs[q].user)
    BY <1>1, <2>2, EndSessionsMarks DEF TypeOK, Remarked
  <2>3. QED BY <1>1, <2>1, <2>2
            DEF SessionStep, Login, ReadAccount, Refresh, Gate, Rotate, Issue, Replay, OnRefreshReuse, ResetPassword,
                CommitReset, Begin, Finish, TypeOK
<1>2. ASSUME NEW q \in Procs, WriteUpdate(q), q # p PROVE FALSE
  <2> DEFINE u == procs[q].user
             e == procs[q].edit
             own == IF e.newpw \/ e.admin = "demote" THEN [procs[q] EXCEPT !.pc = "revoke"] ELSE IdleProc
             f == [r \in Procs |-> IF r = q THEN own
                                   ELSE IF Reading(r, u) /\ e.newpw THEN [procs[r] EXCEPT !.late = TRUE]
                                   ELSE procs[r]]
  <2>1. CASE procs'[p] = procs[p]
    BY <2>1
  <2>2. CASE procs' = Recount(f)
    <3>1. own \in Proc
      BY IdleIsProc DEF TypeOK, Proc
    <3>2. ASSUME NEW r \in Procs PROVE procs[r] \in Proc /\ [procs[r] EXCEPT !.late = TRUE] \in Proc
      <4>1. procs[r] \in Proc
        BY DEF TypeOK
      <4>2. QED BY <4>1 DEF Proc
    <3>3. f[p].pc = procs[p].pc
      BY <1>2, <3>2 DEF Proc
    <3> HIDE DEF own
    <3>4. f \in [Procs -> Proc]
      BY <3>1, <3>2
    <3> HIDE DEF f
    <3>5. QED BY <2>2, <3>3, <3>4, RecountMarks DEF Remarked
  <2>3. QED BY <1>2, <2>1, <2>2, Zenon DEF WriteUpdate, Finish, TypeOK
<1>3. ASSUME NEW q \in Procs, AdminStep(q), q # p PROVE FALSE
  <2>1. CASE procs'[p] = procs[p]
    BY <2>1
  <2>2. CASE EndSessions(q, procs[q].user)
    BY <1>3, <2>2, EndSessionsMarks DEF TypeOK, Remarked
  <2>3. ASSUME NEW U, NEW S, procs' = Recount([Locked(U, S) EXCEPT ![q] = IdleProc]) PROVE FALSE
    <3>1. \A r \in Procs \ {q} : Remarked(procs[r], procs'[r])
      BY <2>3, LockAndRecount
    <3>2. QED BY <1>3, <3>1 DEF Remarked
  <2>4. CASE WriteRemove(q) \/ CommitPurge(q) \/ CommitPurgeTenant(q)
    BY <1>3, <2>1, <2>3, <2>4 DEF WriteRemove, CommitPurge, CommitPurgeTenant, Finish, TypeOK
  <2>5. QED BY <1>2, <1>3, <2>1, <2>2, <2>4
            DEF AdminStep, UpdateUser, RevokeAfterUpdate, RemoveUser, Deactivate, PurgeUser, PurgeTenant, Begin, TypeOK
<1>4. ASSUME NEW u \in Users, AccountStep(u) PROVE FALSE
  <2>1. CASE UNCHANGED procs
    BY <2>1
  <2>2. CASE procs' = Recount(procs)
    BY <2>2, RecountMarks DEF TypeOK, Remarked
  <2>3. ASSUME NEW Q, procs' = Recount(Overtaking(procs, Q)) PROVE FALSE
    BY <2>3, OvertakingMarks, RecountMarks DEF TypeOK, Remarked
  <2>4. QED BY <1>4, <2>1, <2>2, <2>3
            DEF AccountStep, RequestReset, SendVerification, ConfirmVerification, SignUp, CreateUser, RestoreUser
<1>5. ASSUME NEW t \in Tenants, TenantStep(t) PROVE FALSE
  <2>1. CASE UNCHANGED procs
    BY <2>1
  <2>2. ASSUME NEW S, procs' = Locked(Members(t), S) PROVE FALSE
    BY <2>2, LockedMarks DEF TypeOK, Remarked
  <2>3. ASSUME NEW S, NEW Q, procs' = Overtaking(Locked(Members(t), S), Q) PROVE FALSE
    BY <2>3, LockedMarks, OvertakingMarks DEF TypeOK, Remarked
  <2>4. QED BY <1>5, <2>1, <2>2, <2>3 DEF TenantStep, CreateTenant, SetTenant, SetAccess, DeadlinePasses
<1>6. Environment => Restart \/ UNCHANGED procs
  BY DEF Environment, Logout, TokenExpires, RevocationAges, Sweep, LinkExpires
<1>7. QED BY <1>1, <1>3, <1>4, <1>5, <1>6 DEF Next

(* A new token is issued behind open gates, or by a handler that a lock came *)
(* too late for.                                                             *)
LEMMA NewTokenAdmitted ==
    ASSUME IInv, Next, NEW k \in Tokens, tokens[k].state = "unused", tokens'[k].state = "live"
    PROVE  LET u == tokens'[k].user IN
           \/ Admitted(u) /\ AppEnabled(u, tokens'[k].app)
           \/ \E p \in Procs : procs[p].pc = "issue" /\ procs'[p].pc = "idle" /\ procs[p].excused
<1>1. PICK p \in Procs : Issued(p, k)
  BY TokensAge DEF IInv, Ages
<1>2. procs[p].pc = "issue" /\ procs'[p].pc = "idle"
  BY <1>1, IdleIsProc DEF Issued, Issue, Finish, IInv, TypeOK
<1>3. tokens'[k].user = procs[p].user /\ tokens'[k].app = procs[p].app
  BY <1>1 DEF Issued
<1>4. ~procs[p].excused => Admitted(procs[p].user) /\ AppEnabled(procs[p].user, procs[p].app)
  BY <1>2 DEF IInv, Handlers, Sound, PastGates, PastAccount, PastApp
<1>5. QED BY <1>2, <1>3, <1>4

(* A lock reaches everyone who did not already stand behind the gate         *)
(* (completeLogin and refresh, auth.service.ts).                             *)
THEOREM LockoutCorrect == Spec => LockoutHolds
<1> DEFINE A == \A k \in Tokens :
                    (tokens[k].state = "unused" /\ tokens'[k].state = "live") =>
                        LET u == tokens'[k].user IN
                        \/ Admitted(u) /\ AppEnabled(u, tokens'[k].app)
                        \/ \E p \in Procs : procs[p].pc = "issue" /\ procs'[p].pc = "idle" /\ procs[p].excused
<1>1. IInv /\ [Next]_vars => [A]_vars
  BY NewTokenAdmitted
<1> HIDE DEF A
<1>2. Spec => [][A]_vars
  BY <1>1, Invariant, PTL DEF Spec
<1>3. QED BY <1>2 DEF A, LockoutHolds

(* A reset that takes effect was checked against the hash that is stored, or *)
(* was overtaken.                                                            *)
LEMMA ResetBound ==
    ASSUME IInv, Next, NEW p \in Procs, procs[p].pc = "reset",
           users'[procs[p].user].pw > users[procs[p].user].pw, procs'[p].pc = "idle"
    PROVE  procs[p].pw = users[procs[p].user].pw \/ procs[p].late
<1> DEFINE u == procs[p].user
<1>1. TypeOK /\ Sound(p) /\ u \in Users
  BY DEF IInv, Handlers, Sound, Placed
<1>2. SessionStep(p) \/ AdminStep(p) \/ Restart
  BY <1>1, MovesItself
<1>3. CASE Restart
  <2>1. users[u] \in User
    BY <1>1 DEF TypeOK
  <2>2. [NewUser EXCEPT !.verified = TRUE, !.admin = TRUE].pw = 0
    BY DEF NewUser, NoAccount
  <2>3. users'[u] = users[u] \/ users'[u].pw = 0
    BY <1>1, <1>3, <2>2 DEF Restart, TypeOK
  <2>4. ~(users[u].pw > users[u].pw) /\ ~(0 > users[u].pw)
    BY <2>1 DEF User
  <2>5. QED BY <2>3, <2>4
<1>4. CASE SessionStep(p) \/ AdminStep(p)
  <2>1. CommitReset(p)
    BY <1>4 DEF SessionStep, AdminStep, Login, ReadAccount, Refresh, Gate, Rotate, Issue, Replay, OnRefreshReuse,
                ResetPassword, UpdateUser, WriteUpdate, RevokeAfterUpdate, RemoveUser, Deactivate, WriteRemove,
                PurgeUser, CommitPurge, PurgeTenant, CommitPurgeTenant, Begin
  <2>2. users[u].row = "present"
    <3>1. users[u] \in User
      BY <1>1 DEF TypeOK
    <3>2. ~(users[u].pw > users[u].pw)
      BY <3>1 DEF User
    <3>3. QED BY <2>1, <3>2 DEF CommitReset
  <2>3. QED BY <1>1, <2>2 DEF Sound, BoundToHash
<1>5. QED BY <1>2, <1>3, <1>4

(* A reset link dies with the password it was made under (resetSecret and    *)
(* resetPassword, account-flows.service.ts).                                 *)
THEOREM LinksDieHolds == Spec => LinksDie
<1> DEFINE A == \A p \in Procs :
                    (procs[p].pc = "reset" /\ users'[procs[p].user].pw > users[procs[p].user].pw
                                           /\ procs'[p].pc = "idle") =>
                        procs[p].pw = users[procs[p].user].pw \/ procs[p].late
<1>1. IInv /\ [Next]_vars => [A]_vars
  BY ResetBound
<1> HIDE DEF A
<1>2. Spec => [][A]_vars
  BY <1>1, Invariant, PTL DEF Spec
<1>3. QED BY <1>2 DEF A, LinksDie
Takes(p) == WriteUpdate(p) \/ WriteRemove(p) \/ CommitPurge(p) \/ CommitPurgeTenant(p)

(* Every other step leaves each account as live and as much an administrator *)
(* as it was, and erases none.                                               *)
LEMMA OthersTakeNobody ==
    ASSUME TypeOK, Next, \A p \in Procs : ~Takes(p)
    PROVE  \A v \in Users : /\ LiveAdmin(v) => LiveAdmin(v)'
                            /\ users[v].row = "present" => users'[v].row = "present"
<1> DEFINE Good == \A v \in Users : /\ LiveAdmin(v) => LiveAdmin(v)'
                                    /\ users[v].row = "present" => users'[v].row = "present"
<1>1. CASE UNCHANGED users
  BY <1>1 DEF LiveAdmin
<1>2. ASSUME NEW u \in Users, NEW r \in User, users' = [users EXCEPT ![u] = r],
             users[u].row = "present" =>
                 r.row = "present" /\ (r.deleted => users[u].deleted) /\ r.admin = users[u].admin
      PROVE  Good
  <2>1. users'[u] = r /\ \A v \in Users : v # u => users'[v] = users[v]
    BY <1>2, AccountRow
  <2>2. QED BY <1>2, <2>1 DEF LiveAdmin
<1> HIDE DEF Good
<1>3. ASSUME NEW p \in Procs, CommitReset(p) PROVE Good \/ UNCHANGED users
  <2> DEFINE u == procs[p].user
  <2>1. CASE UNCHANGED users
    BY <2>1
  <2>2. CASE users' = [users EXCEPT ![u].pw = @ + 1, ![u].verified = TRUE] /\ u \in Users
    <3> DEFINE r == [users[u] EXCEPT !.pw = users[u].pw + 1, !.verified = TRUE]
    <3>1. users[u] \in User /\ users[u].pw + 1 \in Nat
      BY <2>2 DEF TypeOK, User
    <3>2. r \in User /\ r.row = users[u].row /\ r.deleted = users[u].deleted /\ r.admin = users[u].admin
      BY <3>1 DEF User
    <3>3. users' = [users EXCEPT ![u] = r]
      BY <2>2 DEF TypeOK
    <3> HIDE DEF r
    <3>4. QED BY <2>2, <3>2, <3>3, <1>2
  <2>3. CASE users' = [users EXCEPT ![u].pw = @ + 1, ![u].verified = TRUE] /\ u \notin Users
    BY <2>3 DEF TypeOK
  <2>4. QED BY <1>3, <2>1, <2>2, <2>3 DEF CommitReset
<1>4. ASSUME NEW u \in Users, ConfirmVerification(u) PROVE Good
  <2> DEFINE r == [users[u] EXCEPT !.verified = TRUE]
  <2>1. users[u] \in User
    BY DEF TypeOK
  <2>2. r \in User /\ r.row = users[u].row /\ r.deleted = users[u].deleted /\ r.admin = users[u].admin
    BY <2>1 DEF User
  <2>3. users' = [users EXCEPT ![u] = r]
    BY <1>4 DEF ConfirmVerification
  <2> HIDE DEF r
  <2>4. QED BY <2>2, <2>3, <1>2
<1>5. ASSUME NEW u \in Users, RestoreUser(u) PROVE Good
  <2> DEFINE r == [users[u] EXCEPT !.deleted = FALSE]
  <2>1. users[u] \in User
    BY DEF TypeOK
  <2>2. r \in User /\ r.row = users[u].row /\ ~r.deleted /\ r.admin = users[u].admin
    BY <2>1 DEF User
  <2>3. users' = [users EXCEPT ![u] = r]
    BY <1>5 DEF RestoreUser
  <2> HIDE DEF r
  <2>4. QED BY <2>2, <2>3, <1>2
<1>6. ASSUME NEW u \in Users, NEW admin \in BOOLEAN, CreateUser(u, admin) PROVE Good
  <2> DEFINE r == [NewUser EXCEPT !.verified = TRUE, !.admin = admin]
  <2>1. r \in User
    BY DEF NewUser, NoAccount, User
  <2>2. users' = [users EXCEPT ![u] = r] /\ users[u].row # "present"
    BY <1>6 DEF CreateUser
  <2> HIDE DEF r
  <2>3. QED BY <2>1, <2>2, <1>2
<1>7. ASSUME NEW u \in Users, SignUp(u) PROVE Good
  <2>1. NewUser \in User
    BY DEF NewUser, NoAccount, User
  <2>2. users' = [users EXCEPT ![u] = NewUser] /\ users[u].row # "present"
    BY <1>7 DEF SignUp
  <2>3. QED BY <2>1, <2>2, <1>2
<1>8. ASSUME Restart PROVE Good \/ UNCHANGED users
  <2> DEFINE r == [NewUser EXCEPT !.verified = TRUE, !.admin = TRUE]
  <2>1. r \in User
    BY DEF NewUser, NoAccount, User
  <2>2. CASE UNCHANGED users
    BY <2>2
  <2>3. ASSUME NEW u \in Users, users[u].row = "never", users' = [users EXCEPT ![u] = r] PROVE Good
    BY <2>1, <2>3, <1>2
  <2>4. QED BY <1>8, <2>2, <2>3 DEF Restart
<1>9. ASSUME NEW p \in Procs, SessionStep(p) PROVE Good \/ UNCHANGED users
  BY <1>9, <1>3 DEF SessionStep, Login, ReadAccount, Refresh, Gate, Rotate, Issue, Replay, OnRefreshReuse, ResetPassword
<1>10. ASSUME NEW p \in Procs, AdminStep(p) PROVE UNCHANGED users
  BY <1>10 DEF AdminStep, Takes, UpdateUser, RevokeAfterUpdate, RemoveUser, Deactivate, PurgeUser, PurgeTenant
<1>11. ASSUME NEW u \in Users, AccountStep(u) PROVE Good \/ UNCHANGED users
  BY <1>11, <1>4, <1>5, <1>6, <1>7 DEF AccountStep, RequestReset, SendVerification
<1>12. ASSUME NEW t \in Tenants, TenantStep(t) PROVE UNCHANGED users
  BY <1>12 DEF TenantStep, CreateTenant, SetTenant, SetAccess, DeadlinePasses
<1>13. Environment => Good \/ UNCHANGED users
  BY <1>8 DEF Environment, Logout, TokenExpires, RevocationAges, Sweep, LinkExpires
<1>14. Good \/ UNCHANGED users
  BY <1>9, <1>10, <1>11, <1>12, <1>13 DEF Next
<1>15. QED BY <1>1, <1>14 DEF Good

(* A handler that takes an account away moves by it.                         *)
LEMMA TakingMoves ==
    ASSUME TypeOK, NEW p \in Procs, Takes(p)
    PROVE  procs'[p].pc # procs[p].pc
<1>1. CASE Finish(p) /\ procs[p].pc # "idle"
  BY <1>1, IdleIsProc DEF Finish, TypeOK
<1>2. ASSUME NEW U, NEW S, procs' = Recount([Locked(U, S) EXCEPT ![p] = IdleProc]), procs[p].pc # "idle"
      PROVE  procs'[p].pc # procs[p].pc
  BY <1>2, LockAndRecount
<1>3. CASE WriteRemove(p) \/ CommitPurge(p) \/ CommitPurgeTenant(p)
  BY <1>1, <1>2, <1>3 DEF WriteRemove, CommitPurge, CommitPurgeTenant
<1>4. CASE WriteUpdate(p)
  <2> DEFINE u == procs[p].user
             e == procs[p].edit
             own == IF e.newpw \/ e.admin = "demote" THEN [procs[p] EXCEPT !.pc = "revoke"] ELSE IdleProc
             f == [r \in Procs |-> IF r = p THEN own
                                   ELSE IF Reading(r, u) /\ e.newpw THEN [procs[r] EXCEPT !.late = TRUE]
                                   ELSE procs[r]]
  <2>1. procs[p].pc = "update"
    BY <1>4 DEF WriteUpdate
  <2>2. CASE procs' = Recount(f)
    <3>1. own \in Proc /\ own.pc # "update"
      BY IdleIsProc DEF TypeOK, Proc
    <3>2. ASSUME NEW r \in Procs PROVE procs[r] \in Proc /\ [procs[r] EXCEPT !.late = TRUE] \in Proc
      <4>1. procs[r] \in Proc
        BY DEF TypeOK
      <4>2. QED BY <4>1 DEF Proc
    <3> HIDE DEF own
    <3>3. f \in [Procs -> Proc] /\ f[p] = own
      BY <3>1, <3>2
    <3> HIDE DEF f
    <3>4. QED BY <2>1, <2>2, <3>1, <3>3, RecountMarks DEF Remarked
  <2>3. CASE Finish(p)
    BY <1>1, <2>1, <2>3
  <2>4. QED BY <1>4, <2>2, <2>3, Zenon DEF WriteUpdate
<1>5. QED BY <1>3, <1>4 DEF Takes

(* The last platform admin is lost to a handler whose count is out of date,  *)
(* or with a tenant.                                                         *)
LEMMA LastAdminTaken ==
    ASSUME IInv, Next, Admins # {}, Admins' = {}
    PROVE  \E p \in Procs : procs'[p] # procs[p] /\ (procs[p].late \/ procs[p].pc = "erase")
<1>1. TypeOK /\ Handlers
  BY DEF IInv
<1>2. PICK v \in Users : LiveAdmin(v)
  BY DEF Admins
<1>3. \A w \in Users : ~LiveAdmin(w)'
  BY DEF Admins
<1>4. PICK p \in Procs : Takes(p)
  BY <1>1, <1>2, <1>3, OthersTakeNobody
<1>5. procs'[p] # procs[p] /\ Sound(p)
  BY <1>1, <1>4, TakingMoves DEF Handlers
<1> SUFFICES ASSUME ~procs[p].late, procs[p].pc # "erase" PROVE FALSE
  BY <1>5
<1> DEFINE u == procs[p].user
<1>6. u \in Users
  BY <1>4, <1>5 DEF Takes, WriteUpdate, WriteRemove, CommitPurge, CommitPurgeTenant, Sound, Placed
<1>7. \A w \in Users : w # u => users'[w] = users[w]
  BY <1>1, <1>4, <1>6 DEF Takes, WriteUpdate, WriteRemove, CommitPurge, CommitPurgeTenant, Erased, TypeOK
<1>8. v = u
  BY <1>2, <1>3, <1>7 DEF LiveAdmin
<1>9. ~NotLastPlatformAdmin(u)
  <2>1. \A w \in Users : w # u => ~LiveAdmin(w)
    BY <1>3, <1>7 DEF LiveAdmin
  <2>2. QED BY <1>2, <1>8, <2>1 DEF NotLastPlatformAdmin
<1>10. CASE WriteUpdate(p)
  <2>1. procs[p].pc = "update" /\ procs[p].edit.admin # "demote"
    BY <1>5, <1>9, <1>10 DEF WriteUpdate, Sound, Counted
  <2>2. users[u] \in User
    BY <1>1, <1>6 DEF TypeOK
  <2>3. users'[u].row = users[u].row /\ users'[u].deleted = users[u].deleted /\ (users[u].admin => users'[u].admin)
    <3>1. CASE UNCHANGED users
      BY <3>1
    <3>2. CASE users' = [users EXCEPT
                ![u].pw = IF procs[p].edit.newpw THEN users[u].pw + 1 ELSE users[u].pw,
                ![u].admin = CASE procs[p].edit.admin = "demote" -> FALSE
                               [] procs[p].edit.admin = "promote" -> TRUE
                               [] OTHER -> users[u].admin]
      BY <1>1, <1>6, <2>1, <2>2, <3>2 DEF TypeOK, User
    <3>3. QED BY <1>10, <3>1, <3>2, Zenon DEF WriteUpdate
  <2>4. QED BY <1>2, <1>3, <1>8, <2>3 DEF LiveAdmin
<1>11. CASE WriteRemove(p)
  BY <1>5, <1>9, <1>11 DEF WriteRemove, Sound, Counted
<1>12. CASE CommitPurge(p)
  BY <1>2, <1>5, <1>8, <1>12 DEF CommitPurge, Sound, Erasing, LiveAdmin
<1>13. CASE CommitPurgeTenant(p)
  BY <1>13 DEF CommitPurgeTenant
<1>14. QED BY <1>4, <1>10, <1>11, <1>12, <1>13 DEF Takes

(* The platform keeps a platform admin, but for a count that is overtaken    *)
(* and the purge of a tenant (assertNotLastPlatformAdmin, users.service.ts). *)
THEOREM AdminGuardedHolds == Spec => AdminGuarded
<1> DEFINE A == Admins # {} /\ Admins' = {} =>
                    \E p \in Procs : procs'[p] # procs[p] /\ (procs[p].late \/ procs[p].pc = "erase")
<1>1. IInv /\ [Next]_vars => [A]_vars
  BY LastAdminTaken
<1> HIDE DEF A
<1>2. Spec => [][A]_vars
  BY <1>1, Invariant, PTL DEF Spec
<1>3. QED BY <1>2 DEF A, AdminGuarded

(* What is erased is soft-deleted, or its purge was overtaken.               *)
LEMMA ErasedWasDeleted ==
    ASSUME IInv, Next, NEW u \in Users, users[u].row = "present", users'[u].row = "purged"
    PROVE  \/ users[u].deleted
           \/ TenantOf[u] # NoTenant /\ tenants[TenantOf[u]].deleted
           \/ \E p \in Procs : procs'[p] # procs[p] /\ procs[p].late
<1>1. TypeOK /\ Handlers
  BY DEF IInv
<1>2. PICK p \in Procs : Takes(p)
  BY <1>1, OthersTakeNobody
<1>3. procs'[p] # procs[p] /\ Sound(p)
  BY <1>1, <1>2, TakingMoves DEF Handlers
<1> SUFFICES ASSUME ~procs[p].late
             PROVE  users[u].deleted \/ (TenantOf[u] # NoTenant /\ tenants[TenantOf[u]].deleted)
  BY <1>3
<1>4. users[u] \in User
  BY <1>1 DEF TypeOK
<1>5. CASE WriteUpdate(p)
  <2>1. users'[u].row = users[u].row
    BY <1>1, <1>4, <1>5 DEF WriteUpdate, TypeOK, User
  <2>2. QED BY <2>1
<1>6. CASE WriteRemove(p)
  <2>1. users'[u].row = users[u].row
    BY <1>1, <1>4, <1>6 DEF WriteRemove, TypeOK, User
  <2>2. QED BY <2>1
<1>7. CASE CommitPurge(p)
  <2>1. procs[p].user = u
    BY <1>7 DEF CommitPurge, Erased
  <2>2. QED BY <1>3, <1>7, <2>1 DEF CommitPurge, Sound, Erasing
<1>8. CASE CommitPurgeTenant(p)
  <2>1. TenantOf[u] = procs[p].tenant
    BY <1>8 DEF CommitPurgeTenant, Erased, Members
  <2>2. procs[p].pc = "erase" /\ procs[p].tenant \in Tenants /\ tenants[procs[p].tenant].deleted
    BY <1>3, <1>8 DEF CommitPurgeTenant, Sound, Placed, Erasing
  <2>3. QED BY <2>1, <2>2, SessionsAssumption
<1>9. QED BY <1>2, <1>5, <1>6, <1>7, <1>8 DEF Takes

(* Erasure takes two steps (purge, users.service.ts and tenants.service.ts). *)
THEOREM ErasureCorrect == Spec => ErasureIsTwoStep
<1> DEFINE A == \A u \in Users :
                    users[u].row = "present" /\ users'[u].row = "purged" =>
                        \/ users[u].deleted
                        \/ TenantOf[u] # NoTenant /\ tenants[TenantOf[u]].deleted
                        \/ \E p \in Procs : procs'[p] # procs[p] /\ procs[p].late
<1>1. IInv /\ [Next]_vars => [A]_vars
  BY ErasedWasDeleted
<1> HIDE DEF A
<1>2. Spec => [][A]_vars
  BY <1>1, Invariant, PTL DEF Spec
<1>3. QED BY <1>2 DEF A, ErasureIsTwoStep
===============================================================================
