---------------------------- MODULE ConsoleProofs ----------------------------
(***************************************************************************)
(* Proofs about module Console, for any number of runs under way, views    *)
(* navigated to, pairs, starts and faults.                                 *)
(***************************************************************************)
EXTENDS Console, FiniteSetTheorems, TLAPS

-----------------------------------------------------------------------------
(* The inductive invariant.                                                 *)

\* A run that is over is no run; one that asks has sent nothing; one that waits
\* has sent no more than what it waits for.
TidyRun(r) ==
    /\ runs[r].pc = "idle" <=> runs[r].kind = "none"
    /\ runs[r].pc = "asking" =>
          /\ runs[r].kind \notin {"route", "edit"} /\ runs[r].at = 1
          /\ \A i \in {1, 2} : calls[<<r, i>>].pc = "none"
    /\ runs[r].pc = "calling" =>
          /\ runs[r].at \in 1..Len(Loads(r))
          /\ \A i \in {1, 2} : i > Loads(r)[runs[r].at] => calls[<<r, i>>].pc = "none"
Tidy == \A r \in Slots : TidyRun(r)

\* A request tried again carries a token that is valid.
RetriesAreValid == \A q \in Requests : calls[q].pc \in {"pair", "retry"} => calls[q].tok \in server.valid

\* Pairs are numbered in the order in which they are issued.
PairsIssued == ui.store <= issued /\ \A n \in server.valid : n <= issued

\* The console is shown while the tab holds a pair.  One exchange at a time, of
\* the pair the tab holds, and none during a sign-out of that pair.
OneExchange ==
    /\ ui.shown = "app" <=> ui.store # 0
    /\ \A p, q \in Exchanging : p = q
    /\ \A q \in Exchanging : ui.store # 0
    /\ \A q \in Exchanging : calls[q].pc \in {"refresh", "rotate"} => calls[q].tok = ui.store
    /\ \A n \in Pairs : logouts[n] > 0 => Exchanging = {} /\ (ui.store # 0 => n = ui.store)

\* Of the pairs the tab did not let go of, alive is at most the one it holds, or
\* the one on its way to it.
OneAlive ==
    /\ \A q \in Exchanging : /\ calls[q].pc = "refused" => ui.store \notin server.alive
                             /\ calls[q].pc = "pair" => server.alive \subseteq loose \cup {calls[q].tok}
    /\ (\A q \in Exchanging : calls[q].pc # "pair") => server.alive \subseteq loose \cup {ui.store}

Tokens == RetriesAreValid /\ PairsIssued /\ (~forked => OneExchange /\ OneAlive)

\* Runs do not overlap.  The drawn view listens, once, and while a render waits
\* nobody does.
OneListener ==
    /\ \A r, s \in Slots : Busy(r) /\ Busy(s) => r = s
    /\ Len(node.heard) <= 1
    /\ node.drawn \in Names => node.heard = <<node.drawn>>
    /\ \A r \in Slots : runs[r].kind # "none" => runs[r].mine
    /\ \A r \in Slots : runs[r].kind = "route" =>
          node.heard = <<>> /\ node.drawn = "loading" /\ runs[r].view = ui.hash

\* A render that has read reads what the server holds.
Loading(r) ==
    runs[r].at = Len(Loads(r)) /\ (\E i \in {1, 2} : calls[<<r, i>>].pc = "done") => runs[r].value = server.data

\* What a handler under way makes of the page and of the data.
Handling(r) ==
    /\ node.drawn = ui.hash
    /\ runs[r].kind = "edit" => node.data = runs[r].value
    /\ runs[r].kind # "edit" /\ (runs[r].at # 1 \/ calls[<<r, 1>>].pc # "done") => node.data = server.data
    /\ runs[r].at = 1 /\ calls[<<r, 1>>].pc = "done" =>
          IF runs[r].kind \in Writes THEN server.data = runs[r].value ELSE node.data = server.data

\* The page of a console in which one thing happens at a time.
PageFollows ==
    /\ \A r \in Slots : runs[r].kind = "route" => Loading(r)
    /\ \A r \in Slots : runs[r].kind \notin {"none", "route"} => Handling(r)
    /\ (\A r \in Slots : runs[r].kind = "none") /\ node.drawn \in Names
       => node.drawn = ui.hash /\ node.data = server.data

Pages == ~crossed => OneListener /\ (~stale => PageFollows)

IInv == TypeOK /\ Tidy /\ Tokens /\ Pages

-----------------------------------------------------------------------------
(* Facts about the views, the requests and what an await sends.             *)

\* The views: none is called like what a node shows without one.
LEMMA NamesFacts == "tenants" \in Names /\ "loading" \notin Names /\ "error" \notin Names
BY DEF Names, VIEWS

\* Every await of a render sends one request or two.
LEMMA ViewLoads ==
    ASSUME NEW v \in Names
    PROVE  /\ VIEWS[v].loads \in Seq({1, 2})
           /\ Len(VIEWS[v].loads) \in 1..3
<1>1. v \in {"tenants", "users", "apps", "revenue", "audit", "smtp", "email"}
  BY DEF Names, VIEWS
<1>2. \/ VIEWS[v].loads = <<1>> \/ VIEWS[v].loads = <<2, 1>>
      \/ VIEWS[v].loads = <<1, 1>> \/ VIEWS[v].loads = <<1, 1, 2>>
  BY <1>1 DEF VIEWS, Tenants, Users, Apps, Revenue, Audit, Smtp, EmailTemplates, AppLoads
<1>3. CASE VIEWS[v].loads = <<1>>  BY <1>3
<1>4. CASE VIEWS[v].loads = <<2, 1>>  BY <1>4
<1>5. CASE VIEWS[v].loads = <<1, 1>>  BY <1>5
<1>6. CASE VIEWS[v].loads = <<1, 1, 2>>  BY <1>6
<1>. QED  BY <1>2, <1>3, <1>4, <1>5, <1>6

\* What a handler does: an edit asks nothing first, since it has changed the page.
LEMMA ViewActs ==
    ASSUME NEW v \in Names, NEW act \in VIEWS[v].acts
    PROVE  /\ act.ask \in 0..2 /\ act.own \in BOOLEAN
           /\ act.kind \in {"redraw", "look", "direct", "edit", "typed"}
           /\ act.kind = "edit" => act.ask = 0
<1>1. v \in {"tenants", "users", "apps", "revenue", "audit", "smtp", "email"}
  BY DEF Names, VIEWS
<1>. DEFINE A == {act2 \in [ask: 0..2, kind: {"redraw", "look", "direct", "edit", "typed"}, own: BOOLEAN] :
                    act2.kind = "edit" => act2.ask = 0}
<1>2. /\ Act(0, "redraw", TRUE) \in A /\ Act(0, "redraw", FALSE) \in A /\ Act(1, "redraw", FALSE) \in A
      /\ Act(2, "redraw", FALSE) \in A /\ Act(0, "look", FALSE) \in A /\ Act(0, "look", TRUE) \in A
      /\ Act(1, "look", FALSE) \in A /\ Act(0, "direct", TRUE) \in A /\ Act(0, "typed", FALSE) \in A
      /\ Act(0, "edit", FALSE) \in A
  BY DEF Act
<1>. HIDE DEF A
<1>3. act \in A
  <2>1. CASE v = "tenants"  BY <2>1, <1>2 DEF VIEWS, Tenants, NewTenant
  <2>2. CASE v = "users"  BY <2>2, <1>2 DEF VIEWS, Users, EditUser, NewUser, SetPassword
  <2>3. CASE v = "apps"  BY <2>3, <1>2 DEF VIEWS, Apps, AppButtons, AppToggles, AppForms, RegisterApp
  <2>4. CASE v = "revenue"  BY <2>4, <1>2 DEF VIEWS, Revenue
  <2>5. CASE v = "audit"  BY <2>5, <1>2 DEF VIEWS, Audit
  <2>6. CASE v = "smtp"  BY <2>6, <1>2 DEF VIEWS, Smtp
  <2>7. CASE v = "email"  BY <2>7, <1>2 DEF VIEWS, EmailTemplates
  <2>. QED  BY <1>1, <2>1, <2>2, <2>3, <2>4, <2>5, <2>6, <2>7
<1>. QED  BY <1>3 DEF A

\* The awaits of a run under way.
LEMMA LoadsFacts ==
    ASSUME TypeOK, NEW r \in Slots
    PROVE  /\ Loads(r) \in Seq({1, 2}) /\ Len(Loads(r)) \in 1..3
           /\ \A at \in 1..Len(Loads(r)) : Loads(r)[at] \in {1, 2}
           /\ runs[r].kind # "route" => /\ \A at \in 1..Len(Loads(r)) : Loads(r)[at] = 1
                                        /\ Len(Loads(r)) = IF runs[r].kind = "typed" THEN 2 ELSE 1
<1>1. runs[r].view \in Names
  BY DEF TypeOK, Run
<1>2. CASE runs[r].kind = "route"
  BY <1>1, <1>2, ViewLoads DEF Loads
<1>3. CASE runs[r].kind = "typed"
  BY <1>3 DEF Loads
<1>4. CASE runs[r].kind \notin {"route", "typed"}
  BY <1>4 DEF Loads
<1>. QED  BY <1>2, <1>3, <1>4

\* A request is the first or the second of a run's await.
LEMMA RequestFacts ==
    /\ \A q \in Requests : q[1] \in Slots /\ q[2] \in {1, 2} /\ q = <<q[1], q[2]>>
    /\ \A r \in Slots, i \in {1, 2} : <<r, i>> \in Requests /\ <<r, i>>[1] = r /\ <<r, i>>[2] = i
BY DEF Requests

\* What an await sends is well typed.
LEMMA SentTypes ==
    ASSUME TypeOK, NEW r \in Slots, NEW n \in 0..2, NEW pair \in 0..MaxPairs
    PROVE  Sent(r, n, pair) \in [Requests -> Call]
<1>1. MaxPairs \in Nat
  BY ConsoleAssumption DEF ConsoleAssumption
<1>2. [pc |-> "sent", tok |-> pair] \in Call /\ NoCall \in Call
  BY <1>1 DEF Call, NoCall, InFlight
<1>. QED  BY <1>2 DEF TypeOK, Sent

\* What an await leaves of the requests.
LEMMA SentCalls ==
    ASSUME NEW r \in Slots, NEW n \in Nat, NEW pair, calls' = Sent(r, n, pair)
    PROVE  /\ \A s \in Slots, i \in {1, 2} : s # r => calls'[<<s, i>>] = calls[<<s, i>>]
           /\ \A i \in {1, 2} : i <= n => calls'[<<r, i>>] = [pc |-> "sent", tok |-> pair]
           /\ \A i \in {1, 2} : i > n => calls'[<<r, i>>] = NoCall
<1>1. \A q \in Requests :
        /\ q[1] # r => calls'[q] = calls[q]
        /\ q[1] = r /\ q[2] <= n => calls'[q] = [pc |-> "sent", tok |-> pair]
        /\ q[1] = r /\ ~(q[2] <= n) => calls'[q] = NoCall
  BY DEF Sent
<1>2. \A s \in Slots, i \in {1, 2} : s # r => calls'[<<s, i>>] = calls[<<s, i>>]
  BY <1>1, RequestFacts
<1>3. \A i \in {1, 2} : i <= n => calls'[<<r, i>>] = [pc |-> "sent", tok |-> pair]
  BY <1>1, RequestFacts
<1>4. \A i \in {1, 2} : i > n => calls'[<<r, i>>] = NoCall
  <2>1. SUFFICES ASSUME NEW i \in {1, 2}, i > n PROVE calls'[<<r, i>>] = NoCall
    OBVIOUS
  <2>2. ~(i <= n)
    BY <2>1
  <2>. QED  BY <2>2, <1>1, RequestFacts
<1>. QED  BY <1>2, <1>3, <1>4

-----------------------------------------------------------------------------
(* Every state is well typed.                                               *)

\* A tab with another page shown and another pair.
LEMMA TabFields ==
    ASSUME NEW t \in Tab, NEW s \in {"login", "app"}, NEW n \in 0..MaxPairs
    PROVE  LET u == [t EXCEPT !.shown = s, !.store = n] IN
           u \in Tab /\ u.shown = s /\ u.store = n /\ u.hash = t.hash
<1>1. \A x \in Tab : [x EXCEPT !.store = n] \in Tab /\ [x EXCEPT !.store = n].store = n
                     /\ [x EXCEPT !.store = n].shown = x.shown /\ [x EXCEPT !.store = n].hash = x.hash
  BY DEF Tab
<1>2. [t EXCEPT !.shown = s] \in Tab /\ [t EXCEPT !.shown = s].shown = s /\ [t EXCEPT !.shown = s].hash = t.hash
  BY DEF Tab
<1>. QED  BY <1>1, <1>2

\* The tab after a sign-in or a sign-out.
LEMMA NewTab ==
    ASSUME ui \in Tab, NEW s \in {"login", "app"}, NEW n \in 0..MaxPairs, ui' = [ui EXCEPT !.shown = s, !.store = n]
    PROVE  ui' \in Tab /\ ui'.shown = s /\ ui'.store = n /\ ui'.hash = ui.hash
<1>1. \A t \in Tab : LET u == [t EXCEPT !.store = n] IN
         u \in Tab /\ u.store = n /\ u.shown = t.shown /\ u.hash = t.hash
  BY DEF Tab
<1>2. LET u == [ui EXCEPT !.shown = s] IN u \in Tab /\ u.shown = s /\ u.hash = ui.hash
  BY DEF Tab
<1>. QED  BY <1>1, <1>2

\* A run that has asked, and calls.
LEMMA RunFields ==
    ASSUME NEW x \in Run
    PROVE  LET y == [x EXCEPT !.pc = "calling", !.ask = 0] IN
           /\ y \in Run /\ y.pc = "calling" /\ y.kind = x.kind /\ y.view = x.view /\ y.ask = 0
           /\ y.at = x.at /\ y.mine = x.mine /\ y.value = x.value
<1>1. \A y \in Run : LET z == [y EXCEPT !.ask = 0] IN
         /\ z \in Run /\ z.pc = y.pc /\ z.kind = y.kind /\ z.view = y.view /\ z.ask = 0
         /\ z.at = y.at /\ z.mine = y.mine /\ z.value = y.value
  BY DEF Run
<1>2. LET y == [x EXCEPT !.pc = "calling"] IN
         /\ y \in Run /\ y.pc = "calling" /\ y.kind = x.kind /\ y.view = x.view
         /\ y.at = x.at /\ y.mine = x.mine /\ y.value = x.value
  BY DEF Run
<1>. QED  BY <1>1, <1>2
\* What is not a run or a request, or is one that is over, is well typed.
LEMMA NoneTypes == NoRun \in Run /\ NoCall \in Call /\ Failed \in Call /\ Done \in Call
<1>1. MaxPairs \in Nat
  BY ConsoleAssumption DEF ConsoleAssumption
<1>2. NoRun \in Run
  BY NamesFacts DEF NoRun, Run
<1>3. NoCall \in Call /\ Failed \in Call /\ Done \in Call
  BY <1>1 DEF NoCall, Failed, Done, Call
<1>. QED  BY <1>2, <1>3

\* The tab's hash names a view, and its pair is a pair or none.
LEMMA TabFacts == ASSUME TypeOK PROVE ui.hash \in Names /\ ui.store \in 0..MaxPairs
BY DEF TypeOK, Tab

\* A render that starts leaves the page, the runs and the requests well typed.
LEMMA RouteTypes ==
    ASSUME TypeOK, NEW r \in Slots, NEW view \in Names, NEW pair \in 0..MaxPairs, Route(r, view, pair)
    PROVE  /\ node' \in Page /\ runs' \in [Slots -> Run] /\ calls' \in [Requests -> Call]
           /\ crossed' \in BOOLEAN /\ stale' \in BOOLEAN
<1>1. node' \in Page
  BY DEF Route, Swapped, Page
<1>2. Rendering(view) \in Run
  BY DEF Rendering, Run
<1>3. \A s \in Slots : [runs[s] EXCEPT !.mine = FALSE] \in Run
  BY DEF TypeOK, Run
<1>4. runs' \in [Slots -> Run]
  BY <1>2, <1>3 DEF Route
<1>5. VIEWS[view].loads[1] \in 0..2
  BY ViewLoads
<1>6. calls' \in [Requests -> Call]
  BY <1>5, SentTypes DEF Route
<1>7. crossed' \in BOOLEAN /\ stale' \in BOOLEAN
  BY DEF Route
<1>. QED  BY <1>1, <1>4, <1>6, <1>7

\* A step of a request keeps its type, whatever its outcome.
LEMMA CallTypes ==
    ASSUME TypeOK, NEW q \in Requests,
           NEW c \in Call,
           calls' = [calls EXCEPT ![q] = c]
    PROVE  calls' \in [Requests -> Call]
BY DEF TypeOK

\* What the server does when it serves a request.
LEMMA ServedTypes ==
    ASSUME TypeOK, NEW r \in Slots, Served(r)
    PROVE  /\ runs' \in [Slots -> Run]
           /\ server' \in Server
<1>1. server' \in Server
  BY DEF TypeOK, Served, Run, Server
<1>2. [runs[r] EXCEPT !.value = server.data] \in Run
  BY DEF TypeOK, Run, Server
<1>3. runs' = runs \/ runs' = [runs EXCEPT ![r] = [runs[r] EXCEPT !.value = server.data]]
  BY DEF Served
<1>. QED  BY <1>1, <1>2, <1>3 DEF TypeOK

\* Every step keeps the types.
LEMMA TypesKept == TypeOK /\ RetriesAreValid /\ [Next]_vars => TypeOK'
<1>. SUFFICES ASSUME TypeOK, RetriesAreValid, [Next]_vars PROVE TypeOK'
  OBVIOUS
<1>. 0 \in 0..MaxPairs /\ MaxPairs \in Nat /\ MaxStarts \in Nat /\ MaxFaults \in Nat /\ Menu \subseteq Names
  BY ConsoleAssumption DEF ConsoleAssumption
<1>. NoRun \in Run /\ NoCall \in Call /\ Failed \in Call /\ Done \in Call
  BY NoneTypes
<1>1. ASSUME NEW r \in Slots, NEW n \in Pairs, SignInAnswered(r, n) PROVE TypeOK'
  <2>1. ui.hash \in Names /\ n \in 0..MaxPairs /\ n # 0 /\ issued' \in 0..MaxPairs
    BY <1>1, TabFacts DEF SignInAnswered, Issue, Pairs
  <2>2. Route(r, ui.hash, n)
    BY <1>1 DEF SignInAnswered
  <2>3. ui' \in Tab /\ ui'.store # 0
    <3>1. ui \in Tab /\ ui' = [ui EXCEPT !.shown = "app", !.store = n]
      BY <1>1 DEF SignInAnswered, TypeOK
    <3>. QED  BY <2>1, <3>1, TabFields
  <2>4. server' \in Server
    BY <1>1 DEF TypeOK, SignInAnswered, Issue, Server
  <2>5. loose' \subseteq Pairs /\ forked' \in BOOLEAN
    BY <1>1, TabFacts DEF SignInAnswered, Held, Pairs, TypeOK
  <2>6. signins' \in Nat /\ UNCHANGED <<logouts, late, starts, faults>>
    BY <1>1 DEF SignInAnswered, TypeOK
  <2>7. /\ node' \in Page /\ runs' \in [Slots -> Run] /\ calls' \in [Requests -> Call]
        /\ crossed' \in BOOLEAN /\ stale' \in BOOLEAN
    BY <2>1, <2>2, RouteTypes
  <2>. QED  BY <2>1, <2>3, <2>4, <2>5, <2>6, <2>7 DEF TypeOK
<1>2. ASSUME NEW r \in Slots, NEW view \in Menu, Navigate(r, view) PROVE TypeOK'
  <2>1. view \in Names /\ ui.store \in 0..MaxPairs
    BY TabFacts
  <2>2. Route(r, view, ui.store)
    BY <1>2 DEF Navigate
  <2>3. ui' \in Tab /\ (ui'.shown = "app" => ui'.store # 0)
    BY <1>2, <2>1 DEF TypeOK, Navigate, Tab
  <2>. QED  BY <1>2, <2>1, <2>2, <2>3, RouteTypes DEF TypeOK, Navigate, Start
<1>3. ASSUME node.drawn \in Names, NEW R \in SUBSET Slots, NEW act \in VIEWS[node.drawn].acts, Click(R, act)
      PROVE TypeOK'
  <2>1. /\ act.ask \in 0..2 /\ act.kind \in {"redraw", "look", "direct", "edit", "typed"}
    BY <1>3, ViewActs
  <2>2. runs' \in [Slots -> Run]
    BY <1>3, <2>1, NamesFacts DEF TypeOK, Click, Run, Page
  <2>3. calls' \in [Requests -> Call]
    <3>1. [pc |-> "sent", tok |-> ui.store] \in Call
      BY TabFacts DEF Call, InFlight
    <3>. QED  BY <1>3, <3>1 DEF TypeOK, Click
  <2>4. node' \in Page
    BY <1>3 DEF TypeOK, Click, Page
  <2>5. crossed' \in BOOLEAN
    BY <1>3 DEF Click
  <2>6. UNCHANGED <<ui, server, signins, logouts, late, issued, faults, stale, forked, loose>> /\ starts' \in 0..MaxStarts
    BY <1>3 DEF Click, Start, TypeOK
  <2>. QED  BY <2>2, <2>3, <2>4, <2>5, <2>6 DEF TypeOK
<1>4. ASSUME NEW r \in Slots, Confirm(r) PROVE TypeOK'
  <2>1. runs' \in [Slots -> Run]
    <3>1. runs[r].ask \in 1..2 =>
            /\ runs[r].ask > 1 => [runs[r] EXCEPT !.ask = @ - 1] \in Run
            /\ [runs[r] EXCEPT !.pc = "calling", !.ask = 0] \in Run
      <4>1. runs[r] \in Run
        BY DEF TypeOK
      <4>2. runs[r].ask \in 1..2 /\ runs[r].ask > 1 => [runs[r] EXCEPT !.ask = @ - 1] \in Run
        BY <4>1 DEF Run
      <4>. QED  BY <4>1, <4>2, RunFields
    <3>2. runs[r].ask \in 0..2
      BY DEF TypeOK, Run
    <3>3. \/ runs[r].ask > 1 /\ runs' = [runs EXCEPT ![r] = [runs[r] EXCEPT !.ask = @ - 1]]
          \/ runs[r].ask = 1 /\ runs' = [runs EXCEPT ![r] = [runs[r] EXCEPT !.pc = "calling", !.ask = 0]]
          \/ runs' = [runs EXCEPT ![r] = NoRun]
      BY <1>4 DEF Confirm, TypeOK
    <3>. QED  BY <3>1, <3>2, <3>3 DEF TypeOK
  <2>2. calls' \in [Requests -> Call]
    <3>1. UNCHANGED calls \/ calls' = Sent(r, 1, ui.store)
      BY <1>4 DEF Confirm
    <3>2. Sent(r, 1, ui.store) \in [Requests -> Call]
      <4>. 1 \in 0..2
        OBVIOUS
      <4>. QED  BY SentTypes, TabFacts
    <3>. QED  BY <3>1, <3>2 DEF TypeOK
  <2>. QED  BY <1>4, <2>1, <2>2 DEF TypeOK, Confirm
<1>5. CASE Logout \/ SignIn
  <2>1. forked' \in BOOLEAN /\ signins' \in Nat /\ starts' \in 0..MaxStarts
    <3>1. forked' \in BOOLEAN
      BY <1>5 DEF Logout, SignIn, TypeOK
    <3>3. signins' \in Nat
      <4>1. signins' = signins \/ signins' = signins + 1
        BY <1>5 DEF Logout, SignIn
      <4>. QED  BY <4>1 DEF TypeOK
    <3>2. Start
      BY <1>5 DEF Logout, SignIn
    <3>. QED  BY <3>1, <3>2, <3>3 DEF Start, TypeOK
  <2>2. logouts' \in [Pairs -> Nat]
    <3>1. logouts' = logouts \/ (ui.store \in Pairs /\ logouts' = [logouts EXCEPT ![ui.store] = @ + 1])
      BY <1>5, TabFacts DEF Logout, SignIn, TypeOK, Pairs
    <3>. QED  BY <3>1 DEF TypeOK
  <2>. QED  BY <1>5, <2>1, <2>2 DEF TypeOK, Logout, SignIn
<1>6. ASSUME NEW n \in Pairs, LogoutDone(n) PROVE TypeOK'
  <2>1. ui' \in Tab /\ (ui'.shown = "app" => ui'.store # 0)
    <3>1. ShownLogin \in Tab /\ ShownLogin.shown = "login"
      BY TabFields DEF ShownLogin, TypeOK
    <3>. QED  BY <1>6, <3>1 DEF TypeOK, LogoutDone
  <2>2. server' \in Server
    BY <1>6 DEF TypeOK, LogoutDone, Server
  <2>3. logouts' \in [Pairs -> Nat]
    <3>1. logouts[n] \in Nat /\ logouts[n] > 0 /\ logouts' = [logouts EXCEPT ![n] = @ - 1]
      BY <1>6 DEF LogoutDone, TypeOK
    <3>2. logouts[n] - 1 \in Nat
      BY <3>1
    <3>. QED  BY <3>1, <3>2 DEF TypeOK
  <2>4. faults' \in 0..MaxFaults /\ loose' \subseteq Pairs
    BY <1>6 DEF LogoutDone, Fault, TypeOK
  <2>5. UNCHANGED <<node, runs, calls, signins, late, issued, starts, crossed, stale, forked>>
    BY <1>6 DEF LogoutDone
  <2>. QED  BY <2>1, <2>2, <2>3, <2>4, <2>5 DEF TypeOK
<1>22. CASE SignInFails
  <2>1. signins' \in Nat
    BY <1>22 DEF SignInFails, TypeOK
  <2>2. server' \in Server /\ issued' \in 0..MaxPairs /\ loose' \subseteq Pairs
    <3>1. ASSUME NEW n \in Pairs, Issue(n), loose' = loose \cup {n}
          PROVE  server' \in Server /\ issued' \in 0..MaxPairs /\ loose' \subseteq Pairs
      <4>1. server' \in Server
        BY <3>1 DEF Issue, TypeOK, Server
      <4>2. issued' \in 0..MaxPairs
        BY <3>1 DEF Issue, Pairs
      <4>. QED  BY <3>1, <4>1, <4>2 DEF TypeOK
    <3>. QED  BY <1>22, <3>1 DEF SignInFails, TypeOK
  <2>. QED  BY <1>22, <2>1, <2>2 DEF SignInFails, TypeOK
<1>23. ASSUME NEW value \in BOOLEAN, LateWrite(value) PROVE TypeOK'
  <2>1. server' \in Server /\ late' \in Late /\ stale' \in BOOLEAN
    BY <1>23 DEF LateWrite, TypeOK, Server, Late
  <2>. QED  BY <1>23, <2>1 DEF LateWrite, TypeOK
<1>24. ASSUME NEW tok \in Pairs, LateExchange(tok) PROVE TypeOK'
  <2>1. late' \in Late
    BY <1>24 DEF LateExchange, TypeOK, Late
  <2>2. server' \in Server /\ issued' \in 0..MaxPairs /\ loose' \subseteq Pairs
    <3>1. ASSUME NEW n \in Pairs, Rotate(tok, n), loose' = loose \cup {n}
          PROVE  server' \in Server /\ issued' \in 0..MaxPairs /\ loose' \subseteq Pairs
      <4>1. server' \in Server
        BY <3>1 DEF Rotate, TypeOK, Server
      <4>2. issued' \in 0..MaxPairs
        BY <3>1 DEF Rotate, Pairs
      <4>. QED  BY <3>1, <4>1, <4>2 DEF TypeOK
    <3>2. ASSUME Replayed(tok), UNCHANGED <<issued, loose>>
          PROVE  server' \in Server /\ issued' \in 0..MaxPairs /\ loose' \subseteq Pairs
      BY <3>2 DEF Replayed, TypeOK, Server
    <3>. QED  BY <1>24, <3>1, <3>2 DEF LateExchange
  <2>. QED  BY <1>24, <2>1, <2>2 DEF LateExchange, TypeOK
<1>25. ASSUME NEW r \in Slots, NEW i \in {1, 2}, ExchangeFails(r, i) PROVE TypeOK'
  <2>1. calls[<<r, i>>] \in Call /\ <<r, i>> \in Requests /\ calls[<<r, i>>].pc \in {"refresh", "pair"}
    BY <1>25, RequestFacts DEF TypeOK, ExchangeFails
  <2>2. Coming({<<r, i>>}) \subseteq Pairs
    BY <2>1 DEF Coming, RetriesAreValid, TypeOK, Server
  <2>3. loose' \subseteq Pairs
    <3>1. Held \subseteq Pairs
      BY TabFacts DEF Held, Pairs
    <3>2. loose' = loose \cup Coming({<<r, i>>}) \/ loose' = loose \cup Coming({<<r, i>>}) \cup Held
      BY <1>25 DEF ExchangeFails
    <3>. QED  BY <2>2, <3>1, <3>2 DEF TypeOK
  <2>4. late' \in Late
    <3>1. CASE UNCHANGED late
      BY <3>1 DEF TypeOK
    <3>2. CASE late' = [late EXCEPT !.tokens = IF calls[<<r, i>>].pc = "refresh" THEN @ \cup {calls[<<r, i>>].tok} ELSE @]
      BY <2>1, <3>2 DEF TypeOK, Late, Call
    <3>. QED  BY <1>25, <3>1, <3>2 DEF ExchangeFails
  <2>5. calls' \in [Requests -> Call]
    BY <1>25, <2>1, CallTypes DEF ExchangeFails
  <2>6. ui' \in Tab /\ (ui'.shown = "app" => ui'.store # 0)
    <3>1. ShownLogin \in Tab /\ ShownLogin.shown = "login"
      BY TabFields DEF ShownLogin, TypeOK
    <3>. QED  BY <1>25, <3>1 DEF ExchangeFails, TypeOK
  <2>7. faults' \in 0..MaxFaults
    BY <1>25 DEF ExchangeFails, Fault, TypeOK
  <2>. QED  BY <1>25, <2>3, <2>4, <2>5, <2>6, <2>7 DEF ExchangeFails, TypeOK
<1>7. ASSUME NEW r \in Slots, Reload(r) PROVE TypeOK'
  <2>1. runs' \in [Slots -> Run]
    <3>1. Rendering(ui.hash) \in Run
      BY TabFacts DEF Rendering, Run
    <3>. QED  BY <1>7, <3>1 DEF Reload
  <2>2. calls' \in [Requests -> Call]
    <3>1. [pc |-> "sent", tok |-> ui.store] \in Call
      BY TabFacts DEF Call, InFlight
    <3>. QED  BY <1>7, <3>1 DEF Reload
  <2>3. loose' \subseteq Pairs /\ late' \in Late
    <3>1. Coming(Requests) \subseteq Pairs
      BY DEF Coming, RetriesAreValid, TypeOK, Server
    <3>2. \A s \in Slots : runs[s].value \in BOOLEAN
      BY DEF TypeOK, Run
    <3>3. \A q \in Requests : calls[q].tok \in 0..MaxPairs
      BY DEF TypeOK, Call
    <3>4. loose' = loose \cup Coming(Requests)
      BY <1>7 DEF Reload
    <3>5. PICK W \in SUBSET Slots, Q \in SUBSET Requests :
            late' = [writes |-> late.writes \cup {runs[s].value : s \in W},
                     tokens |-> late.tokens \cup {calls[q].tok : q \in Q}]
      BY <1>7 DEF Reload
    <3>6. late.writes \cup {runs[s].value : s \in W} \subseteq BOOLEAN
      BY <3>2 DEF TypeOK, Late
    <3>7. late.tokens \cup {calls[q].tok : q \in Q} \subseteq 0..MaxPairs
      BY <3>3 DEF TypeOK, Late
    <3>. QED  BY <3>1, <3>4, <3>5, <3>6, <3>7 DEF TypeOK, Late
  <2>4. /\ UNCHANGED <<server, issued, faults, forked>> /\ starts' \in 0..MaxStarts
        /\ signins' \in Nat /\ logouts' \in [Pairs -> Nat]
        /\ crossed' = FALSE /\ stale' = FALSE /\ node' = Swapped
    BY <1>7 DEF Reload, Start, TypeOK
  <2>5. ui' \in Tab /\ (ui'.shown = "app" => ui'.store # 0)
    BY <1>7 DEF Reload, TypeOK, Tab
  <2>6. node' \in Page
    BY <2>4 DEF Swapped, Page
  <2>. QED  BY <2>1, <2>2, <2>3, <2>4, <2>5, <2>6 DEF TypeOK
<1>8. ASSUME NEW r \in Slots, NEW i \in {1, 2}, Answer(r, i) PROVE TypeOK'
  BY <1>8, RequestFacts, CallTypes, ServedTypes DEF TypeOK, Answer
<1>9. ASSUME NEW r \in Slots, NEW i \in {1, 2}, Unauthorized(r, i) PROVE TypeOK'
  <2>1. [pc |-> "refresh", tok |-> ui.store] \in Call
    BY TabFacts DEF Call, InFlight
  <2>2. calls' \in [Requests -> Call]
    BY <1>9, <2>1, RequestFacts, CallTypes DEF Unauthorized, Exchanged
  <2>3. forked' \in BOOLEAN
    BY <1>9 DEF Unauthorized, TypeOK
  <2>4. ui' = ui \/ ui' = ShownLogin
    BY <1>9 DEF Unauthorized
  <2>5. ui' \in Tab /\ (ui'.shown = "app" => ui'.store # 0)
    <3>1. ShownLogin \in Tab /\ ShownLogin.shown = "login"
      BY TabFields DEF ShownLogin, TypeOK
    <3>. QED  BY <2>4, <3>1 DEF TypeOK
  <2>. QED  BY <1>9, <2>2, <2>3, <2>5 DEF TypeOK, Unauthorized
<1>10. ASSUME NEW r \in Slots, NEW i \in {1, 2}, RefreshRead(r, i) PROVE TypeOK'
  <2>1. calls' \in [Requests -> Call]
    <3>1. calls[<<r, i>>] \in Call
      BY RequestFacts DEF TypeOK
    <3>2. /\ [pc |-> "rotate", tok |-> calls[<<r, i>>].tok] \in Call
          /\ [pc |-> "refused", tok |-> 0] \in Call
      BY <3>1, ConsoleAssumption DEF Call, InFlight, ConsoleAssumption
    <3>. QED  BY <1>10, <3>2, RequestFacts, CallTypes DEF RefreshRead
  <2>2. server' \in Server
    BY <1>10 DEF TypeOK, RefreshRead, Replayed, Server
  <2>. QED  BY <1>10, <2>1, <2>2 DEF TypeOK, RefreshRead
<1>11. ASSUME NEW r \in Slots, NEW i \in {1, 2}, RefreshWrite(r, i) PROVE TypeOK'
  <2>1. issued + 1 \in 0..MaxPairs /\ issued + 1 \in Pairs /\ issued' = issued + 1
    BY <1>11 DEF TypeOK, RefreshWrite, Rotate, Pairs
  <2>2. [pc |-> "pair", tok |-> issued + 1] \in Call
    BY <2>1 DEF Call, InFlight
  <2>3. server' \in Server
    BY <1>11, <2>1 DEF TypeOK, RefreshWrite, Rotate, Server
  <2>4. calls' \in [Requests -> Call]
    BY <1>11, <2>2, RequestFacts, CallTypes DEF RefreshWrite
  <2>. QED  BY <1>11, <2>1, <2>3, <2>4 DEF TypeOK, RefreshWrite
<1>12. ASSUME NEW r \in Slots, NEW i \in {1, 2}, Refreshed(r, i) PROVE TypeOK'
  <2>1. calls[<<r, i>>] \in Call
    BY RequestFacts DEF TypeOK
  <2>2. [calls[<<r, i>>] EXCEPT !.pc = "retry"] \in Call
    BY <2>1 DEF Call, InFlight
  <2>3. calls' = [calls EXCEPT ![<<r, i>>] = [calls[<<r, i>>] EXCEPT !.pc = "retry"]]
    BY <1>12 DEF Refreshed
  <2>4. ui' = [ui EXCEPT !.store = calls[<<r, i>>].tok] /\ calls[<<r, i>>].tok \in 0..MaxPairs
    BY <1>12, <2>1 DEF Refreshed, Call
  <2>5. ui' \in Tab
    BY <2>4 DEF TypeOK, Tab
  <2>6. calls[<<r, i>>].tok # 0
    <3>1. calls[<<r, i>>].tok \in server.valid
      BY <1>12, RequestFacts DEF Refreshed, RetriesAreValid
    <3>2. server.valid \subseteq Pairs
      BY DEF TypeOK, Server
    <3>. QED  BY <3>1, <3>2 DEF Pairs
  <2>7. ui'.store # 0
    BY <2>4, <2>6 DEF TypeOK, Tab
  <2>8. calls' \in [Requests -> Call]
    BY <2>2, <2>3, RequestFacts, CallTypes
  <2>. QED  BY <1>12, <2>5, <2>7, <2>8 DEF TypeOK, Refreshed
<1>13. ASSUME NEW r \in Slots, NEW i \in {1, 2}, Refused(r, i) PROVE TypeOK'
  <2>1. ui' \in Tab /\ (ui'.shown = "app" => ui'.store # 0)
    <3>1. ShownLogin \in Tab /\ ShownLogin.shown = "login"
      BY TabFields DEF ShownLogin, TypeOK
    <3>. QED  BY <1>13, <3>1 DEF Refused
  <2>. QED  BY <1>13, <2>1, RequestFacts, CallTypes DEF TypeOK, Refused
<1>14. ASSUME NEW r \in Slots, NEW i \in {1, 2}, CallFails(r, i) PROVE TypeOK'
  <2>1. late' \in Late
    <3>1. runs[r].value \in BOOLEAN
      BY DEF TypeOK, Run
    <3>. QED  BY <1>14, <3>1 DEF CallFails, TypeOK, Late
  <2>2. calls' \in [Requests -> Call]
    BY <1>14, RequestFacts, CallTypes DEF CallFails
  <2>3. faults' \in 0..MaxFaults
    BY <1>14 DEF CallFails, Fault, TypeOK
  <2>. QED  BY <1>14, <2>1, <2>2, <2>3 DEF CallFails, TypeOK
<1>15. ASSUME NEW r \in Slots, Await(r) PROVE TypeOK'
  <2>1. runs[r].at + 1 \in 1..Len(Loads(r)) /\ Loads(r)[runs[r].at + 1] \in 0..2 /\ runs[r].at + 1 \in 0..3
    <3>1. runs[r].at \in 0..3 /\ runs[r].at < Len(Loads(r))
      BY <1>15 DEF Await, TypeOK, Run
    <3>. QED  BY <3>1, LoadsFacts
  <2>2. [runs[r] EXCEPT !.at = @ + 1] \in Run /\ runs[r].value \in BOOLEAN
    BY <2>1 DEF TypeOK, Run
  <2>3. runs' \in [Slots -> Run]
    BY <1>15, <2>2 DEF TypeOK, Await
  <2>4. node' \in Page
    BY <1>15, <2>2 DEF TypeOK, Await, Page
  <2>5. calls' \in [Requests -> Call]
    BY <1>15, <2>1, SentTypes, TabFacts DEF Await
  <2>. QED  BY <1>15, <2>3, <2>4, <2>5 DEF TypeOK, Await
<1>16. ASSUME NEW r \in Slots, Draw(r) PROVE TypeOK'
  <2>1. node' \in Page
    BY <1>16 DEF TypeOK, Draw, Run, Page
  <2>2. calls' \in [Requests -> Call]
    BY <1>16, SentTypes, ConsoleAssumption DEF Draw, ConsoleAssumption
  <2>. QED  BY <1>16, <2>1, <2>2 DEF TypeOK, Draw
<1>17. ASSUME NEW r \in Slots, NEW ok \in BOOLEAN, HandlerEnds(r, ok) PROVE TypeOK'
  <2>1. CASE Redraws(runs[r].kind, ok)
    <3>1. Route(r, ui.hash, ui.store) /\ ui.hash \in Names /\ ui.store \in 0..MaxPairs
      BY <1>17, <2>1, TabFacts DEF HandlerEnds
    <3>. QED  BY <1>17, <3>1, RouteTypes DEF TypeOK, HandlerEnds
  <2>2. CASE ~Redraws(runs[r].kind, ok)
    <3>1. calls' \in [Requests -> Call]
      BY <1>17, <2>2, SentTypes, ConsoleAssumption DEF HandlerEnds, ConsoleAssumption
    <3>. QED  BY <1>17, <2>2, <3>1 DEF TypeOK, HandlerEnds
  <2>. QED  BY <2>1, <2>2
<1>18. ASSUME NEW r \in Slots, RenderFails(r) PROVE TypeOK'
  <2>1. node' \in Page
    BY <1>18 DEF TypeOK, RenderFails, Page
  <2>. QED  BY <1>18, <2>1 DEF TypeOK, RenderFails
<1>19. ASSUME NEW n \in Pairs, Expire(n) PROVE TypeOK'
  <2>1. server' \in Server
    BY <1>19 DEF TypeOK, Expire, Server
  <2>. QED  BY <1>19, <2>1 DEF TypeOK, Expire, Fault
<1>20. CASE Revoke
  <2>1. server' \in Server
    BY <1>20 DEF TypeOK, Revoke, Server
  <2>. QED  BY <1>20, <2>1 DEF TypeOK, Revoke, Fault
<1>21. CASE UNCHANGED vars
  BY <1>21 DEF TypeOK, vars
<1>. QED
  BY <1>1, <1>2, <1>3, <1>4, <1>5, <1>6, <1>7, <1>8, <1>9, <1>10, <1>11, <1>12, <1>13, <1>14, <1>15, <1>16,
     <1>17, <1>18, <1>19, <1>20, <1>21, <1>22, <1>23, <1>24, <1>25 DEF Next
-----------------------------------------------------------------------------
(* Runs and requests stay in order.                                         *)

\* Runs stay what and where they are, whatever they know.
SameRuns ==
    \A s \in Slots : /\ runs'[s].pc = runs[s].pc /\ runs'[s].kind = runs[s].kind
                     /\ runs'[s].view = runs[s].view /\ runs'[s].at = runs[s].at /\ runs'[s].mine = runs[s].mine

\* A run that is over.
LEMMA IdleIsTidy ==
    ASSUME NEW s \in Slots, runs'[s] = NoRun
    PROVE  TidyRun(s)'
BY DEF TidyRun, NoRun

\* A render that starts.
LEMMA RenderIsTidy ==
    ASSUME NEW s \in Slots, NEW view \in Names, runs'[s] = Rendering(view),
           \A i \in {1, 2} : i > VIEWS[view].loads[1] => calls'[<<s, i>>].pc = "none"
    PROVE  TidyRun(s)'
<1>1. Loads(s)' = VIEWS[view].loads
  BY DEF Loads, Rendering
<1>2. Len(VIEWS[view].loads) \in 1..3
  BY ViewLoads
<1>3. runs'[s].pc = "calling" /\ runs'[s].kind = "route" /\ runs'[s].at = 1
  BY DEF Rendering
<1>. QED  BY <1>1, <1>2, <1>3 DEF TidyRun

\* A run that stays where it is, with its requests, or with those it had sent
\* in another state.
LEMMA SameIsTidy ==
    ASSUME NEW s \in Slots, TidyRun(s), runs'[s].pc = runs[s].pc, runs'[s].kind = runs[s].kind,
           runs'[s].view = runs[s].view, runs'[s].at = runs[s].at,
           \A i \in {1, 2} : calls'[<<s, i>>] = calls[<<s, i>>] \/ calls[<<s, i>>].pc # "none"
    PROVE  TidyRun(s)'
<1>1. Loads(s)' = Loads(s)
  BY DEF Loads
<1>. QED  BY <1>1 DEF TidyRun

\* A run that is free has nothing in flight and is none.
LEMMA FreeFacts ==
    ASSUME Tidy, NEW r \in Slots, ~Busy(r)
    PROVE  /\ runs[r].pc = "idle" /\ runs[r].kind = "none"
           /\ \A i \in {1, 2} : calls[<<r, i>>].pc \notin InFlight
BY DEF Tidy, TidyRun, Busy

\* A run whose await is answered, or a handler whose request failed, has
\* nothing in flight.
LEMMA AnsweredFacts ==
    ASSUME TypeOK, Tidy, NEW r \in Slots, runs[r].pc = "calling",
           Answered(r) \/ (runs[r].kind # "route" /\ calls[<<r, 1>>].pc = "failed")
    PROVE  \A i \in {1, 2} : calls[<<r, i>>].pc \notin InFlight
<1>1. /\ runs[r].at \in 1..Len(Loads(r))
      /\ \A i \in {1, 2} : i > Loads(r)[runs[r].at] => calls[<<r, i>>].pc = "none"
  BY DEF Tidy, TidyRun
<1>2. Loads(r)[runs[r].at] \in {1, 2} /\ (runs[r].kind # "route" => Loads(r)[runs[r].at] = 1)
  BY <1>1, LoadsFacts
<1>3. CASE Answered(r)
  <2>1. \A i \in {1, 2} : i <= Loads(r)[runs[r].at] => calls[<<r, i>>].pc = "done"
    BY <1>2, <1>3 DEF Answered
  <2>. QED  BY <1>1, <1>2, <2>1 DEF InFlight
<1>4. CASE runs[r].kind # "route" /\ calls[<<r, 1>>].pc = "failed"
  BY <1>1, <1>2, <1>4 DEF InFlight
<1>. QED  BY <1>3, <1>4

\* What a render that starts does to the runs.
LEMMA RouteTidies ==
    ASSUME TypeOK, Tidy, NEW r \in Slots, NEW view \in Names, NEW pair \in 0..MaxPairs, Route(r, view, pair)
    PROVE  Tidy'
<1>1. PICK n \in Nat : n \in {1, 2} /\ n = VIEWS[view].loads[1]
  BY ViewLoads
<1>0. calls' = Sent(r, n, pair)
  BY <1>1 DEF Route
<1>2. /\ \A s \in Slots, i \in {1, 2} : s # r => calls'[<<s, i>>] = calls[<<s, i>>]
      /\ \A i \in {1, 2} : i > n => calls'[<<r, i>>] = NoCall
  BY <1>0, SentCalls
<1>3. TidyRun(r)'
  <2>1. \A i \in {1, 2} : i > n => calls'[<<r, i>>].pc = "none"
    BY <1>1, <1>2 DEF NoCall
  <2>2. runs'[r] = Rendering(view)
    BY DEF Route
  <2>. QED  BY <1>1, <2>1, <2>2, RenderIsTidy
<1>4. ASSUME NEW s \in Slots, s # r PROVE TidyRun(s)'
  <2>1. runs[s] \in Run /\ runs'[s] = [runs[s] EXCEPT !.mine = FALSE]
    BY <1>4 DEF Route, TypeOK
  <2>2. /\ runs'[s].pc = runs[s].pc /\ runs'[s].kind = runs[s].kind
        /\ runs'[s].view = runs[s].view /\ runs'[s].at = runs[s].at
    BY <2>1 DEF Run
  <2>3. TidyRun(s)
    BY DEF Tidy
  <2>. QED  BY <1>2, <1>4, <2>2, <2>3, SameIsTidy
<1>. QED  BY <1>3, <1>4 DEF Tidy

\* A step of a request leaves the runs in order.
LEMMA CallTidies ==
    ASSUME TypeOK, Tidy, NEW r \in Slots, NEW i \in {1, 2}, calls[<<r, i>>].pc # "none", NEW c,
           calls' = [calls EXCEPT ![<<r, i>>] = c], SameRuns
    PROVE  Tidy'
<1>1. ASSUME NEW s \in Slots PROVE TidyRun(s)'
  <2>1. \A j \in {1, 2} : calls'[<<s, j>>] = calls[<<s, j>>] \/ calls[<<s, j>>].pc # "none"
    <3>1. \A q \in Requests : q # <<r, i>> => calls'[q] = calls[q]
      BY DEF TypeOK
    <3>. QED  BY <3>1, RequestFacts
  <2>2. TidyRun(s)
    BY DEF Tidy
  <2>. QED  BY <2>1, <2>2, SameIsTidy DEF SameRuns
<1>. QED  BY <1>1 DEF Tidy

\* Serving a request lets the run know at most something.
LEMMA ServedRuns ==
    ASSUME TypeOK, NEW r \in Slots, Served(r)
    PROVE  SameRuns
<1>1. \A s \in Slots : runs[s] \in Run
  BY DEF TypeOK
<1>2. runs' = runs \/ runs' = [runs EXCEPT ![r] = [runs[r] EXCEPT !.value = server.data]]
  BY DEF Served, TypeOK
<1>3. LET x == [runs[r] EXCEPT !.value = server.data] IN
      x.pc = runs[r].pc /\ x.kind = runs[r].kind /\ x.view = runs[r].view /\ x.at = runs[r].at /\ x.mine = runs[r].mine
  BY <1>1 DEF Run
<1>. QED  BY <1>2, <1>3 DEF SameRuns, TypeOK
\* Every step leaves the runs and the requests in order.
LEMMA TidyKept == TypeOK /\ Tidy /\ [Next]_vars => Tidy'
<1>. SUFFICES ASSUME TypeOK, Tidy, [Next]_vars PROVE Tidy'
  OBVIOUS
<1>. ui.hash \in Names /\ ui.store \in 0..MaxPairs /\ MaxPairs \in Nat /\ Menu \subseteq Names /\ 0 \in 0..MaxPairs
  BY TabFacts, ConsoleAssumption DEF ConsoleAssumption
<1>. \A s \in Slots : TidyRun(s)
  BY DEF Tidy
<1>1. ASSUME NEW r \in Slots, NEW n \in Pairs, SignInAnswered(r, n) PROVE Tidy'
  <2>1. n \in 0..MaxPairs /\ Route(r, ui.hash, n)
    BY <1>1 DEF SignInAnswered, Pairs
  <2>. QED  BY <2>1, RouteTidies
<1>2. ASSUME NEW r \in Slots, NEW view \in Menu, Navigate(r, view) PROVE Tidy'
  BY <1>2, RouteTidies DEF Navigate
<1>3. ASSUME node.drawn \in Names, NEW R \in SUBSET Slots, NEW act \in VIEWS[node.drawn].acts, Click(R, act)
      PROVE Tidy'
  <2>1. /\ act.ask \in 0..2 /\ act.kind \in {"redraw", "look", "direct", "edit", "typed"}
        /\ act.kind = "edit" => act.ask = 0
    BY <1>3, ViewActs
  <2>2. ASSUME NEW s \in Slots \ R PROVE TidyRun(s)'
    <3>1. runs'[s] = runs[s]
      BY <1>3 DEF Click
    <3>2. \A i \in {1, 2} : calls'[<<s, i>>] = calls[<<s, i>>]
      BY <1>3, RequestFacts DEF Click
    <3>. QED  BY <3>1, <3>2, SameIsTidy
  <2>3. ASSUME NEW s \in R PROVE TidyRun(s)'
    <3>1. /\ runs'[s].pc = IF act.ask > 0 THEN "asking" ELSE "calling"
          /\ runs'[s].kind = act.kind /\ runs'[s].at = 1
      BY <1>3 DEF Click
    <3>2. /\ act.ask > 0 => \A i \in {1, 2} : calls'[<<s, i>>] = NoCall
          /\ calls'[<<s, 2>>] = NoCall
      BY <1>3, RequestFacts DEF Click
    <3>3. act.kind # "route" /\ act.kind # "none" /\ (act.ask > 0 => act.kind # "edit")
      BY <2>1
    <3>4. Len(Loads(s)') \in 1..2 /\ Loads(s)'[1] = 1
      BY <3>1, <3>3 DEF Loads
    <3>. QED  BY <3>1, <3>2, <3>3, <3>4 DEF TidyRun, NoCall
  <2>. QED  BY <2>2, <2>3 DEF Tidy
<1>4. ASSUME NEW r \in Slots, Confirm(r) PROVE Tidy'
  <2>1. ASSUME NEW s \in Slots \ {r} PROVE TidyRun(s)'
    <3>1. runs'[s] = runs[s]
      BY <1>4 DEF Confirm, TypeOK
    <3>2. UNCHANGED calls \/ calls' = Sent(r, 1, ui.store)
      BY <1>4 DEF Confirm
    <3>3. \A i \in {1, 2} : calls'[<<s, i>>] = calls[<<s, i>>]
      <4>1. CASE UNCHANGED calls  BY <4>1
      <4>2. CASE calls' = Sent(r, 1, ui.store)  BY <4>2, SentCalls
      <4>. QED  BY <3>2, <4>1, <4>2
    <3>. QED  BY <3>1, <3>3, SameIsTidy
  <2>2. runs[r] \in Run /\ runs[r].pc = "asking"
    BY <1>4 DEF Confirm, TypeOK
  <2>3. CASE runs' = [runs EXCEPT ![r].ask = @ - 1] /\ UNCHANGED calls
    <3>1. /\ runs'[r].pc = runs[r].pc /\ runs'[r].kind = runs[r].kind
          /\ runs'[r].view = runs[r].view /\ runs'[r].at = runs[r].at
      BY <2>2, <2>3 DEF TypeOK, Run
    <3>. QED  BY <2>1, <2>3, <3>1, SameIsTidy DEF Tidy
  <2>4. CASE runs' = [runs EXCEPT ![r].pc = "calling", ![r].ask = 0] /\ calls' = Sent(r, 1, ui.store)
    <3>1. runs'[r] = [runs[r] EXCEPT !.pc = "calling", !.ask = 0]
      BY <2>4 DEF TypeOK
    <3>2. runs'[r].pc = "calling" /\ runs'[r].kind = runs[r].kind /\ runs'[r].at = 1 /\ runs[r].kind # "route"
          /\ runs[r].kind # "none"
      <4>1. runs[r].kind # "route" /\ runs[r].kind # "none" /\ runs[r].at = 1
        BY <2>2 DEF TidyRun
      <4>. QED  BY <2>2, <3>1, <4>1, RunFields
    <3>3. Len(Loads(r)') \in 1..2 /\ Loads(r)'[1] = 1
      BY <3>2 DEF Loads
    <3>4. calls'[<<r, 2>>].pc = "none"
      <4>1. \A i \in {1, 2} : i > 1 => calls'[<<r, i>>] = NoCall
        BY <2>4, SentCalls
      <4>. QED  BY <4>1 DEF NoCall
    <3>5. TidyRun(r)'
      BY <3>2, <3>3, <3>4 DEF TidyRun
    <3>. QED  BY <2>1, <3>5 DEF Tidy
  <2>5. CASE runs' = [runs EXCEPT ![r] = NoRun]
    BY <2>1, <2>5, IdleIsTidy DEF Tidy, TypeOK
  <2>. QED  BY <1>4, <2>3, <2>4, <2>5 DEF Confirm
<1>5. CASE UNCHANGED <<runs, calls>>
  BY <1>5, SameIsTidy DEF Tidy
<1>6. ASSUME NEW r \in Slots, Reload(r) PROVE Tidy'
  <2>1. ASSUME NEW s \in Slots, runs'[s] = NoRun PROVE TidyRun(s)'
    BY <2>1, IdleIsTidy
  <2>2. ASSUME NEW s \in Slots, runs'[s] = Rendering(ui.hash), s = r PROVE TidyRun(s)'
    <3>1. \A i \in {1, 2} : i > VIEWS[ui.hash].loads[1] => calls'[<<s, i>>].pc = "none"
      <4>1. VIEWS[ui.hash].loads[1] \in {1, 2}
        BY ViewLoads
      <4>2. SUFFICES ASSUME NEW i \in {1, 2}, i > VIEWS[ui.hash].loads[1] PROVE calls'[<<s, i>>].pc = "none"
        OBVIOUS
      <4>3. ~(<<s, i>>[2] <= VIEWS[ui.hash].loads[1])
        BY <4>1, <4>2, RequestFacts
      <4>4. calls'[<<s, i>>] = NoCall
        BY <1>6, <4>3, RequestFacts DEF Reload
      <4>. QED  BY <4>4 DEF NoCall
    <3>. QED  BY <2>2, <3>1, RenderIsTidy
  <2>3. \A s \in Slots : runs'[s] = NoRun \/ (runs'[s] = Rendering(ui.hash) /\ s = r)
    BY <1>6 DEF Reload
  <2>. QED  BY <2>1, <2>2, <2>3 DEF Tidy
<1>7. ASSUME NEW r \in Slots, NEW i \in {1, 2},
             \/ Answer(r, i) \/ Unauthorized(r, i) \/ RefreshRead(r, i) \/ RefreshWrite(r, i)
             \/ Refreshed(r, i) \/ Refused(r, i) \/ ExchangeFails(r, i) \/ CallFails(r, i)
      PROVE Tidy'
  <2>1. calls[<<r, i>>].pc # "none"
    BY <1>7 DEF Answer, Unauthorized, RefreshRead, RefreshWrite, Refreshed, Refused, ExchangeFails, CallFails
  <2>2. \E c : calls' = [calls EXCEPT ![<<r, i>>] = c]
    BY <1>7 DEF Answer, Unauthorized, RefreshRead, RefreshWrite, Refreshed, Refused, ExchangeFails, CallFails
  <2>3. UNCHANGED runs \/ Served(r)
    BY <1>7 DEF Answer, Unauthorized, RefreshRead, RefreshWrite, Refreshed, Refused, ExchangeFails, CallFails
  <2>4. SameRuns
    BY <2>3, ServedRuns DEF SameRuns
  <2>. QED  BY <2>1, <2>2, <2>4, CallTidies
<1>8. ASSUME NEW r \in Slots, Await(r) PROVE Tidy'
  <2>1. runs[r] \in Run /\ runs[r].pc = "calling" /\ runs[r].at \in 1..Len(Loads(r)) /\ runs[r].at < Len(Loads(r))
    BY <1>8 DEF Await, Answered, TypeOK, TidyRun
  <2>2. PICK n \in Nat : n \in {1, 2} /\ n = Loads(r)[runs[r].at + 1]
    BY <2>1, LoadsFacts
  <2>3. runs' = [runs EXCEPT ![r].at = @ + 1] /\ calls' = Sent(r, n, ui.store)
    BY <1>8, <2>2 DEF Await
  <2>4. /\ runs'[r].pc = runs[r].pc /\ runs'[r].kind = runs[r].kind
        /\ runs'[r].view = runs[r].view /\ runs'[r].at = runs[r].at + 1
    BY <2>1, <2>3 DEF TypeOK, Run
  <2>5. Loads(r)' = Loads(r)
    BY <2>4 DEF Loads
  <2>6. \A i \in {1, 2} : i > n => calls'[<<r, i>>].pc = "none"
    <3>1. \A i \in {1, 2} : i > n => calls'[<<r, i>>] = NoCall
      BY <2>3, SentCalls
    <3>. QED  BY <3>1 DEF NoCall
  <2>7. runs[r].at + 1 \in 1..Len(Loads(r))
    BY <2>1, LoadsFacts
  <2>8. TidyRun(r)'
    BY <2>1, <2>2, <2>4, <2>5, <2>6, <2>7 DEF TidyRun
  <2>9. ASSUME NEW s \in Slots \ {r} PROVE TidyRun(s)'
    BY <2>3, SentCalls, SameIsTidy DEF TypeOK
  <2>. QED  BY <2>8, <2>9 DEF Tidy
<1>9. ASSUME NEW r \in Slots, runs' = [runs EXCEPT ![r] = NoRun],
             \A s \in Slots, i \in {1, 2} : s # r => calls'[<<s, i>>] = calls[<<s, i>>]
      PROVE Tidy'
  BY <1>9, IdleIsTidy, SameIsTidy DEF Tidy, TypeOK
<1>10. ASSUME NEW r \in Slots, Draw(r) PROVE Tidy'
  <2>1. runs' = [runs EXCEPT ![r] = NoRun] /\ calls' = Sent(r, 0, 0)
    BY <1>10 DEF Draw
  <2>2. \A s \in Slots, i \in {1, 2} : s # r => calls'[<<s, i>>] = calls[<<s, i>>]
    BY <2>1, SentCalls
  <2>. QED  BY <1>9, <2>1, <2>2
<1>11. ASSUME NEW r \in Slots, NEW ok \in BOOLEAN, HandlerEnds(r, ok) PROVE Tidy'
  <2>1. CASE Redraws(runs[r].kind, ok)
    BY <1>11, <2>1, RouteTidies DEF HandlerEnds
  <2>2. CASE ~Redraws(runs[r].kind, ok)
    <3>1. runs' = [runs EXCEPT ![r] = NoRun] /\ calls' = Sent(r, 0, 0)
      BY <1>11, <2>2 DEF HandlerEnds
    <3>2. \A s \in Slots, i \in {1, 2} : s # r => calls'[<<s, i>>] = calls[<<s, i>>]
      BY <3>1, SentCalls
    <3>. QED  BY <1>9, <3>1, <3>2
  <2>. QED  BY <2>1, <2>2
<1>12. ASSUME NEW r \in Slots, RenderFails(r) PROVE Tidy'
  <2>1. runs' = [runs EXCEPT ![r] = NoRun]
    BY <1>12 DEF RenderFails
  <2>2. \A s \in Slots, i \in {1, 2} : s # r => calls'[<<s, i>>] = calls[<<s, i>>]
    BY <1>12, RequestFacts DEF RenderFails
  <2>. QED  BY <1>9, <2>1, <2>2
<1>13. ASSUME \/ SignIn \/ SignInFails \/ Logout \/ Revoke \/ UNCHANGED vars
              \/ \E n \in Pairs : LogoutDone(n) \/ LateExchange(n) \/ Expire(n)
              \/ \E value \in BOOLEAN : LateWrite(value)
       PROVE  UNCHANGED <<runs, calls>>
  BY <1>13 DEF SignIn, SignInFails, Logout, LogoutDone, Revoke, LateExchange, LateWrite, Expire, vars
<1>. QED
  BY <1>1, <1>2, <1>3, <1>4, <1>5, <1>6, <1>7, <1>8, <1>10, <1>11, <1>12, <1>13 DEF Next
-----------------------------------------------------------------------------
(* Tokens: the tab, the requests and the server agree on them.              *)

\* No request that is in flight changes; others are sent or forgotten.
OnlySends ==
    \A q \in Requests : \/ calls'[q] = calls[q]
                        \/ calls[q].pc \notin InFlight /\ calls'[q].pc \in {"none", "sent"}

\* An await of a run that has nothing in flight.
LEMMA SentOnly ==
    ASSUME NEW r \in Slots, NEW n \in Nat, NEW pair, calls' = Sent(r, n, pair),
           \A i \in {1, 2} : calls[<<r, i>>].pc \notin InFlight
    PROVE  OnlySends
<1>1. \A q \in Requests :
        /\ q[1] # r => calls'[q] = calls[q]
        /\ q[1] = r => calls'[q].pc \in {"none", "sent"}
  BY DEF Sent, NoCall
<1>2. \A q \in Requests : q[1] = r => calls[q].pc \notin InFlight
  BY RequestFacts
<1>. QED  BY <1>1, <1>2 DEF OnlySends

\* What Route sends, for a run that has nothing in flight.
LEMMA RouteOnly ==
    ASSUME NEW r \in Slots, NEW view \in Names, NEW pair, Route(r, view, pair),
           \A i \in {1, 2} : calls[<<r, i>>].pc \notin InFlight
    PROVE  OnlySends
<1>1. PICK n \in Nat : n = VIEWS[view].loads[1]
  BY ViewLoads
<1>2. calls' = Sent(r, n, pair)
  BY <1>1 DEF Route
<1>. QED  BY <1>2, SentOnly

\* Runs that start and go on only send.
LEMMA RunsOnlySend ==
    ASSUME TypeOK, Tidy,
           \/ \E r \in Slots : \/ Confirm(r) \/ Await(r) \/ Draw(r) \/ RenderFails(r)
                               \/ \E n \in Pairs : SignInAnswered(r, n)
                               \/ \E view \in Menu : Navigate(r, view)
                               \/ \E ok \in BOOLEAN : HandlerEnds(r, ok)
           \/ node.drawn \in Names /\ \E R \in SUBSET Slots, act \in VIEWS[node.drawn].acts : Click(R, act)
    PROVE  OnlySends
<1>. ui.hash \in Names /\ Menu \subseteq Names
  BY TabFacts, ConsoleAssumption DEF ConsoleAssumption
<1>. \A s \in Slots : TidyRun(s)
  BY DEF Tidy
<1>1. ASSUME NEW r \in Slots, r \in Free PROVE \A i \in {1, 2} : calls[<<r, i>>].pc \notin InFlight
  BY <1>1, FreeFacts DEF Free
<1>2. ASSUME NEW r \in Slots, NEW n \in Pairs, SignInAnswered(r, n) PROVE OnlySends
  <2>1. r \in Free /\ Route(r, ui.hash, n)
    BY <1>2 DEF SignInAnswered
  <2>. QED  BY <2>1, <1>1, RouteOnly
<1>3. ASSUME NEW r \in Slots, NEW view \in Menu, Navigate(r, view) PROVE OnlySends
  <2>1. r \in Free /\ Route(r, view, ui.store)
    BY <1>3 DEF Navigate
  <2>. QED  BY <2>1, <1>1, RouteOnly
<1>4. ASSUME NEW R \in SUBSET Slots, NEW act \in VIEWS[node.drawn].acts, Click(R, act) PROVE OnlySends
  <2>1. R \subseteq Free
    BY <1>4 DEF Click
  <2>2. ASSUME NEW q \in Requests, q[1] \in R PROVE calls[q].pc \notin InFlight
    BY <1>1, <2>1, <2>2, RequestFacts DEF Free
  <2>3. ASSUME NEW q \in Requests, q[1] \in R PROVE calls'[q].pc \in {"none", "sent"}
    BY <1>4, <2>3 DEF Click, NoCall
  <2>4. ASSUME NEW q \in Requests, q[1] \notin R PROVE calls'[q] = calls[q]
    BY <1>4, <2>4 DEF Click
  <2>. QED  BY <2>2, <2>3, <2>4 DEF OnlySends
<1>5. ASSUME NEW r \in Slots, Confirm(r) PROVE OnlySends
  <2>1. \A i \in {1, 2} : calls[<<r, i>>].pc \notin InFlight
    BY <1>5 DEF Confirm, TidyRun, InFlight
  <2>2. CASE UNCHANGED calls  BY <2>2 DEF OnlySends
  <2>3. CASE calls' = Sent(r, 1, ui.store)  BY <2>1, <2>3, SentOnly
  <2>4. UNCHANGED calls \/ calls' = Sent(r, 1, ui.store)
    BY <1>5 DEF Confirm
  <2>. QED  BY <2>2, <2>3, <2>4
<1>6. ASSUME NEW r \in Slots, Await(r) PROVE OnlySends
  <2>1. \A i \in {1, 2} : calls[<<r, i>>].pc \notin InFlight
    BY <1>6, AnsweredFacts DEF Await, Answered
  <2>2. runs[r].at + 1 \in 1..Len(Loads(r))
    <3>1. runs[r].at \in 1..Len(Loads(r)) /\ runs[r].at < Len(Loads(r))
      BY <1>6 DEF Await, Answered, TidyRun
    <3>. QED  BY <3>1, LoadsFacts
  <2>3. PICK n \in Nat : n = Loads(r)[runs[r].at + 1]
    BY <2>2, LoadsFacts
  <2>4. calls' = Sent(r, n, ui.store)
    BY <1>6, <2>3 DEF Await
  <2>. QED  BY <2>1, <2>4, SentOnly
<1>7. ASSUME NEW r \in Slots, Draw(r) PROVE OnlySends
  <2>1. \A i \in {1, 2} : calls[<<r, i>>].pc \notin InFlight
    BY <1>7, AnsweredFacts DEF Draw, Answered
  <2>2. calls' = Sent(r, 0, 0)
    BY <1>7 DEF Draw
  <2>. QED  BY <2>1, <2>2, SentOnly
<1>8. ASSUME NEW r \in Slots, NEW ok \in BOOLEAN, HandlerEnds(r, ok) PROVE OnlySends
  <2>1. \A i \in {1, 2} : calls[<<r, i>>].pc \notin InFlight
    <3>1. runs[r].pc = "calling" /\ runs[r].kind # "route" /\ (Answered(r) \/ calls[<<r, 1>>].pc = "failed")
      BY <1>8 DEF HandlerEnds
    <3>. QED  BY <3>1, AnsweredFacts
  <2>2. Route(r, ui.hash, ui.store) \/ calls' = Sent(r, 0, 0)
    BY <1>8 DEF HandlerEnds
  <2>3. CASE Route(r, ui.hash, ui.store)  BY <2>1, <2>3, RouteOnly
  <2>4. CASE calls' = Sent(r, 0, 0)  BY <2>1, <2>4, SentOnly
  <2>. QED  BY <2>2, <2>3, <2>4
<1>9. ASSUME NEW r \in Slots, RenderFails(r) PROVE OnlySends
  BY <1>9 DEF RenderFails, OnlySends, NoCall
<1>. QED  BY <1>2, <1>3, <1>4, <1>5, <1>6, <1>7, <1>8, <1>9

\* What is in flight after a step that only sends was in flight before.
LEMMA OnlySendsFacts ==
    ASSUME OnlySends
    PROVE  /\ Exchanging' = Exchanging
           /\ \A q \in Exchanging : calls'[q] = calls[q]
           /\ \A q \in Requests : calls'[q].pc \in {"pair", "retry"} => calls'[q] = calls[q]
<1>1. \A q \in Requests : calls[q].pc \in {"refresh", "rotate", "pair", "refused"} => calls'[q] = calls[q]
  BY DEF OnlySends, InFlight
<1>2. \A q \in Requests : calls'[q].pc \in {"refresh", "rotate", "pair", "refused", "retry"} => calls'[q] = calls[q]
  BY DEF OnlySends
<1>3. Exchanging' = Exchanging
  BY <1>1, <1>2 DEF Exchanging
<1>4. \A q \in Exchanging : calls'[q] = calls[q]
  BY <1>1 DEF Exchanging
<1>. QED  BY <1>2, <1>3, <1>4

\* A step that only sends leaves the tokens.
LEMMA SendsKeepTokens ==
    ASSUME Tokens, OnlySends, ui'.shown = ui.shown, ui'.store = ui.store,
           UNCHANGED <<server, logouts, issued, forked, loose>>
    PROVE  Tokens'
<1>1. RetriesAreValid' /\ PairsIssued'
  BY OnlySendsFacts DEF Tokens, RetriesAreValid, PairsIssued
<1>2. ASSUME ~forked' PROVE OneExchange' /\ OneAlive'
  <2>1. OneExchange /\ OneAlive
    BY <1>2 DEF Tokens
  <2>2. OneExchange'
    BY <2>1, OnlySendsFacts DEF OneExchange
  <2>3. OneAlive'
    BY <2>1, OnlySendsFacts DEF OneAlive
  <2>. QED  BY <2>2, <2>3
<1>. QED  BY <1>1, <1>2 DEF Tokens
\* What a step of one request leaves of the others.
LEMMA OneCallFacts ==
    ASSUME TypeOK, NEW q \in Requests, NEW c, calls' = [calls EXCEPT ![q] = c]
    PROVE  /\ calls'[q] = c
           /\ \A p \in Requests : p # q => calls'[p] = calls[p]
           /\ c.pc \in {"refresh", "rotate", "pair", "refused"} => Exchanging' = Exchanging \cup {q}
           /\ c.pc \notin {"refresh", "rotate", "pair", "refused"} => Exchanging' = Exchanging \ {q}
<1>1. calls'[q] = c /\ \A p \in Requests : p # q => calls'[p] = calls[p]
  BY DEF TypeOK
<1>. QED  BY <1>1 DEF Exchanging

\* The tab without a session.
LEMMA LoginShown ==
    ASSUME TypeOK
    PROVE  ShownLogin.shown = "login" /\ ShownLogin.store = 0 /\ ShownLogin.hash = ui.hash
<1>1. 0 \in 0..MaxPairs /\ ui \in Tab
  BY ConsoleAssumption DEF ConsoleAssumption, TypeOK
<1>. QED  BY <1>1, TabFields DEF ShownLogin

\* A request that leaves the exchange, or was never part of it, without a pair;
\* the tab may let go of the pair it holds.
LEMMA LeavesTokens ==
    ASSUME TypeOK, Tokens, NEW q \in Requests, NEW c, calls' = [calls EXCEPT ![q] = c],
           c.pc \in {"done", "failed"}, calls[q].pc = "pair" => calls[q].tok \in loose', forked' = forked,
           loose \subseteq loose', logouts' = logouts, issued' = issued,
           ui' = ui \/ (ui' = ShownLogin /\ q \in Exchanging /\ Held \subseteq loose'),
           server'.alive = server.alive, server'.valid = server.valid
    PROVE  Tokens'
<1>1. /\ calls'[q] = c /\ \A p \in Requests : p # q => calls'[p] = calls[p]
      /\ Exchanging' = Exchanging \ {q}
  BY OneCallFacts
<1>2. RetriesAreValid' /\ PairsIssued'
  BY <1>1, LoginShown DEF Tokens, RetriesAreValid, PairsIssued, TypeOK
<1>3. ASSUME ~forked', ui' = ui PROVE OneExchange' /\ OneAlive'
  <2>1. OneExchange /\ OneAlive
    BY <1>3 DEF Tokens
  <2>2. OneExchange'
    BY <1>1, <1>3, <2>1 DEF OneExchange, Exchanging
  <2>3. \A p \in Exchanging' : p \in Exchanging /\ calls'[p] = calls[p]
    BY <1>1 DEF Exchanging
  <2>4. OneAlive'
    <3>1. CASE calls[q].pc = "pair"
      <4>1. q \in Exchanging
        BY <3>1 DEF Exchanging
      <4>2. Exchanging' = {} /\ server.alive \subseteq loose'
        BY <1>1, <2>1, <3>1, <4>1 DEF OneExchange, OneAlive
      <4>. QED  BY <4>2 DEF OneAlive
    <3>2. CASE calls[q].pc # "pair"
      <4>1. (\A p \in Exchanging' : calls'[p].pc # "pair") => \A p \in Exchanging : calls[p].pc # "pair"
        BY <1>1, <2>3, <3>2
      <4>. QED  BY <1>3, <2>1, <2>3, <4>1 DEF OneAlive
    <3>. QED  BY <3>1, <3>2
  <2>. QED  BY <2>2, <2>4
<1>4. ASSUME ~forked', ui' = ShownLogin, q \in Exchanging, Held \subseteq loose' PROVE OneExchange' /\ OneAlive'
  <2>1. OneExchange /\ OneAlive
    BY <1>4 DEF Tokens
  <2>2. Exchanging = {q} /\ Exchanging' = {} /\ \A n \in Pairs : ~(logouts[n] > 0)
    BY <1>1, <1>4, <2>1 DEF OneExchange
  <2>3. server.alive \subseteq loose' \cup {ui.store}
    BY <2>1, <2>2 DEF OneAlive
  <2>4. server.alive \subseteq loose'
    BY <1>4, <2>3 DEF Held, TypeOK, Server, Pairs
  <2>. QED  BY <1>4, <2>2, <2>4, LoginShown DEF OneExchange, OneAlive
<1>. QED  BY <1>2, <1>3, <1>4 DEF Tokens

\* A step of the server alone: a pair it issues is none the tab holds.
LEMMA ServerTokens ==
    ASSUME TypeOK, Tokens, UNCHANGED <<ui, calls, logouts, forked>>, RetriesAreValid',
           issued' = issued \/ issued' = issued + 1, loose \subseteq loose',
           \A n \in server'.alive : n \in server.alive \/ (n \in loose' /\ n = issued + 1),
           \A n \in server'.valid : n \in server.valid \/ n = issued'
    PROVE  Tokens'
<1>1. issued \in Nat /\ ui.store \in Nat /\ server.valid \subseteq Nat
  BY DEF TypeOK, Tab, Server, Pairs
<1>2. PairsIssued'
  BY <1>1 DEF Tokens, PairsIssued
<1>3. ui.store # issued + 1
  BY <1>1 DEF Tokens, PairsIssued
<1>4. Exchanging' = Exchanging
  BY DEF Exchanging
<1>5. ASSUME ~forked' PROVE OneExchange' /\ OneAlive'
  <2>1. OneExchange /\ OneAlive
    BY <1>5 DEF Tokens
  <2>2. OneExchange'
    BY <1>4, <2>1 DEF OneExchange
  <2>3. OneAlive'
    BY <1>3, <1>4, <2>1 DEF OneAlive
  <2>. QED  BY <2>2, <2>3
<1>. QED  BY <1>2, <1>5 DEF Tokens

\* Serving a request leaves the tokens at the server.
LEMMA ServedTokens ==
    ASSUME TypeOK, NEW r \in Slots, Served(r)
    PROVE  server'.alive = server.alive /\ server'.valid = server.valid
BY DEF Served, TypeOK, Server

\* A sign-in: the pair the tab held before is one it lets go of.
LEMMA SignInTokens ==
    ASSUME TypeOK, Tidy, Tokens, NEW r \in Slots, NEW n \in Pairs, SignInAnswered(r, n)
    PROVE  Tokens'
<1>1. OnlySends
  BY RunsOnlySend
<1>2. /\ n = issued + 1 /\ issued' = n /\ logouts' = logouts /\ loose' = loose \cup Held
      /\ forked' = (forked \/ Exchanging # {} \/ SigningOut)
  BY DEF SignInAnswered, Issue
<1>3. n # 0 /\ issued \in Nat /\ server.valid \subseteq Nat
  BY DEF TypeOK, Pairs, Server
<1>4. ui'.shown = "app" /\ ui'.store = n
  <2>1. n \in 0..MaxPairs /\ ui' = [ui EXCEPT !.shown = "app", !.store = n] /\ ui \in Tab
    BY DEF SignInAnswered, TypeOK, Pairs
  <2>. QED  BY <2>1, NewTab
<1>5. server'.alive = server.alive \cup {n} /\ server'.valid = server.valid \cup {n}
  BY DEF SignInAnswered, Issue, TypeOK, Server
<1>6. RetriesAreValid'
  BY <1>1, <1>5, OnlySendsFacts DEF Tokens, RetriesAreValid
<1>7. PairsIssued'
  BY <1>2, <1>3, <1>4, <1>5 DEF Tokens, PairsIssued
<1>8. ASSUME ~forked' PROVE OneExchange' /\ OneAlive'
  <2>1. ~forked /\ Exchanging = {} /\ ~SigningOut
    BY <1>2, <1>8
  <2>2. OneExchange /\ OneAlive
    BY <2>1 DEF Tokens
  <2>3. Exchanging' = {}
    BY <1>1, <2>1, OnlySendsFacts
  <2>4. OneExchange'
    BY <1>2, <1>3, <1>4, <2>1, <2>3 DEF OneExchange, SigningOut
  <2>5. server.alive \subseteq loose \cup {ui.store}
    BY <2>1, <2>2 DEF OneAlive
  <2>6. server.alive \subseteq loose'
    BY <1>2, <2>5 DEF Held, TypeOK, Server, Pairs
  <2>7. OneAlive'
    BY <1>4, <1>5, <2>3, <2>6 DEF OneAlive
  <2>. QED  BY <2>4, <2>7
<1>. QED  BY <1>6, <1>7, <1>8 DEF Tokens

\* A sign-out, begun and answered.
LEMMA LogoutTokens ==
    ASSUME TypeOK, Tokens, Logout \/ \E n \in Pairs : LogoutDone(n)
    PROVE  Tokens'
<1>1. UNCHANGED <<calls, issued>> /\ Exchanging' = Exchanging /\ server'.valid = server.valid
  BY DEF Logout, LogoutDone, TypeOK, Server, Exchanging
<1>2. RetriesAreValid'
  BY <1>1 DEF Tokens, RetriesAreValid
<1>3. ui' = ui \/ ui' = ShownLogin
  BY DEF Logout, LogoutDone
<1>4. PairsIssued'
  BY <1>1, <1>3, LoginShown DEF Tokens, PairsIssued, TypeOK
<1>5. ASSUME ~forked', Logout PROVE OneExchange' /\ OneAlive'
  <2>1. /\ forked' = (forked \/ Exchanging # {}) /\ logouts' = [logouts EXCEPT ![ui.store] = @ + 1]
        /\ UNCHANGED <<ui, server, loose>> /\ ui.shown = "app"
    BY <1>5 DEF Logout
  <2>2. ~forked /\ Exchanging = {}
    BY <1>5, <2>1
  <2>3. OneExchange /\ OneAlive
    BY <2>2 DEF Tokens
  <2>4. \A n \in Pairs : n # ui.store => logouts'[n] = logouts[n]
    BY <2>1 DEF TypeOK
  <2>5. OneExchange'
    BY <1>1, <2>1, <2>2, <2>3, <2>4 DEF OneExchange
  <2>. QED  BY <1>1, <2>1, <2>2, <2>3, <2>5 DEF OneAlive
<1>6. ASSUME ~forked', NEW n \in Pairs, LogoutDone(n) PROVE OneExchange' /\ OneAlive'
  <2>1. logouts[n] > 0 /\ logouts' = [logouts EXCEPT ![n] = @ - 1] /\ forked' = forked
    BY <1>6 DEF LogoutDone
  <2>2. OneExchange /\ OneAlive
    BY <1>6, <2>1 DEF Tokens
  <2>3. Exchanging = {} /\ (ui.store # 0 => n = ui.store) /\ server.alive \subseteq loose \cup {ui.store}
    BY <2>1, <2>2 DEF OneExchange, OneAlive
  <2>4. \A m \in Pairs : logouts'[m] > 0 => logouts[m] > 0
    BY <2>1 DEF TypeOK
  <2>5. CASE ui' = ui
    <3>1. server'.alive \subseteq server.alive /\ loose \subseteq loose'
      BY <1>6 DEF LogoutDone, TypeOK, Server
    <3>2. OneExchange'
      BY <1>1, <2>2, <2>3, <2>4, <2>5 DEF OneExchange
    <3>. QED  BY <1>1, <2>3, <2>5, <3>1, <3>2 DEF OneAlive
  <2>6. CASE ui' = ShownLogin /\ ui' # ui
    <3>1. \/ server'.alive = server.alive \ {n} /\ loose' = loose
          \/ server' = server /\ loose' = loose \cup {n}
      BY <1>6, <2>6 DEF LogoutDone, TypeOK, Server
    <3>2. ui'.shown = "login" /\ ui'.store = 0
      BY <2>6, LoginShown
    <3>3. server'.alive \subseteq loose' \cup {0}
      BY <2>3, <3>1
    <3>. QED  BY <1>1, <2>3, <3>2, <3>3 DEF OneExchange, OneAlive
  <2>. QED  BY <1>3, <2>5, <2>6
<1>. QED  BY <1>2, <1>4, <1>5, <1>6 DEF Tokens

\* The tab is loaded again.
LEMMA ReloadTokens ==
    ASSUME TypeOK, Tokens, NEW r \in Slots, Reload(r)
    PROVE  Tokens'
<1>1. \A q \in Requests : calls'[q].pc \in {"none", "sent"}
  BY DEF Reload, NoCall
<1>2. RetriesAreValid' /\ Exchanging' = {}
  BY <1>1 DEF RetriesAreValid, Exchanging
<1>3. server' = server /\ forked' = forked /\ issued' = issued /\ logouts' = [n \in Pairs |-> 0]
      /\ loose' = loose \cup Coming(Requests)
  BY DEF Reload
<1>4. ui'.store = ui.store /\ (ui'.shown = "app" <=> ui.store # 0)
  BY DEF Reload, TypeOK, Tab
<1>5. PairsIssued'
  BY <1>3, <1>4 DEF Tokens, PairsIssued
<1>6. ASSUME ~forked' PROVE OneExchange' /\ OneAlive'
  <2>1. OneAlive
    BY <1>3, <1>6 DEF Tokens
  <2>2. server.alive \subseteq loose' \cup {ui.store}
    <3>1. CASE \A q \in Exchanging : calls[q].pc # "pair"
      BY <1>3, <2>1, <3>1 DEF OneAlive
    <3>2. ASSUME NEW q \in Exchanging, calls[q].pc = "pair" PROVE server.alive \subseteq loose'
      <4>1. calls[q].tok \in Coming(Requests)
        BY <3>2 DEF Coming, Exchanging
      <4>. QED  BY <1>3, <2>1, <3>2, <4>1 DEF OneAlive
    <3>. QED  BY <3>1, <3>2
  <2>3. OneExchange'
    BY <1>2, <1>3, <1>4 DEF OneExchange
  <2>. QED  BY <1>2, <1>3, <1>4, <2>2, <2>3 DEF OneAlive
<1>. QED  BY <1>2, <1>5, <1>6 DEF Tokens

\* A request is answered, or fails, or its exchange does.
LEMMA AnswerTokens ==
    ASSUME TypeOK, Tokens, NEW r \in Slots, NEW i \in {1, 2}, Answer(r, i) \/ CallFails(r, i) \/ ExchangeFails(r, i)
    PROVE  Tokens'
<1>1. <<r, i>> \in Requests /\ Done.pc = "done" /\ Failed.pc = "failed"
  BY RequestFacts DEF Done, Failed
<1>2. CASE Answer(r, i)
  <2>1. server'.alive = server.alive /\ server'.valid = server.valid
    BY <1>2, ServedTokens DEF Answer
  <2>2. /\ calls' = [calls EXCEPT ![<<r, i>>] = Done] /\ calls[<<r, i>>].pc # "pair"
        /\ UNCHANGED <<ui, issued, logouts, forked, loose>>
    BY <1>2 DEF Answer
  <2>. QED  BY <1>1, <2>1, <2>2, LeavesTokens
<1>3. CASE CallFails(r, i)
  <2>1. /\ calls' = [calls EXCEPT ![<<r, i>>] = Failed] /\ calls[<<r, i>>].pc # "pair"
        /\ UNCHANGED <<ui, server, issued, logouts, forked, loose>>
    BY <1>3 DEF CallFails
  <2>. QED  BY <1>1, <2>1, LeavesTokens
<1>4. CASE ExchangeFails(r, i)
  <2>1. /\ calls' = [calls EXCEPT ![<<r, i>>] = Failed] /\ calls[<<r, i>>].pc \in {"refresh", "pair"}
        /\ UNCHANGED <<server, issued, logouts, forked>>
        /\ \/ ui' = ui /\ loose' = loose \cup Coming({<<r, i>>})
           \/ ui' = ShownLogin /\ loose' = loose \cup Coming({<<r, i>>}) \cup Held
    BY <1>4 DEF ExchangeFails
  <2>2. <<r, i>> \in Exchanging
    BY <1>1, <2>1 DEF Exchanging
  <2>3. calls[<<r, i>>].pc = "pair" => calls[<<r, i>>].tok \in loose'
    BY <2>1 DEF Coming
  <2>. QED  BY <1>1, <2>1, <2>2, <2>3, LeavesTokens
<1>. QED  BY <1>2, <1>3, <1>4

\* A 401: the exchange begins, or the request fails.
LEMMA UnauthorizedTokens ==
    ASSUME TypeOK, Tokens, NEW r \in Slots, NEW i \in {1, 2}, Unauthorized(r, i)
    PROVE  Tokens'
<1>. DEFINE q == <<r, i>>
<1>1. /\ q \in Requests /\ Failed.pc = "failed"
      /\ calls[q].pc \in {"sent", "retry"} /\ calls[q].tok \notin server.valid
      /\ UNCHANGED <<server, logouts, issued, loose>>
  BY RequestFacts DEF Unauthorized, Failed
<1>2. calls[q].pc = "sent"
  BY <1>1 DEF Tokens, RetriesAreValid
<1>3. \/ calls' = [calls EXCEPT ![q] = Failed] /\ ui' = ui /\ forked' = forked
      \/ /\ ui.store # 0 /\ calls' = [calls EXCEPT ![q] = [pc |-> "refresh", tok |-> ui.store]] /\ ui' = ui
         /\ forked' = (forked \/ Exchanging # {} \/ SigningOut)
      \/ ui.store = 0 /\ calls' = [calls EXCEPT ![q] = Failed] /\ ui' = ShownLogin /\ forked' = forked
  BY <1>2 DEF Unauthorized, Exchanged
<1>. HIDE DEF q
<1>4. CASE calls' = [calls EXCEPT ![q] = Failed] /\ ui' = ui /\ forked' = forked
  BY <1>1, <1>2, <1>4, LeavesTokens
<1>7. PairsIssued'
  BY <1>1, <1>3, LoginShown DEF Tokens, PairsIssued, TypeOK
<1>5. CASE /\ ui.store # 0 /\ calls' = [calls EXCEPT ![q] = [pc |-> "refresh", tok |-> ui.store]] /\ ui' = ui
           /\ forked' = (forked \/ Exchanging # {} \/ SigningOut)
  <2>1. /\ calls'[q] = [pc |-> "refresh", tok |-> ui.store]
        /\ \A p \in Requests : p # q => calls'[p] = calls[p]
        /\ Exchanging' = Exchanging \cup {q}
    BY <1>1, <1>5, OneCallFacts
  <2>2. RetriesAreValid'
    BY <1>1, <2>1 DEF Tokens, RetriesAreValid
  <2>3. ASSUME ~forked' PROVE OneExchange' /\ OneAlive'
    <3>1. ~forked /\ Exchanging = {} /\ ~SigningOut
      BY <1>5, <2>3
    <3>2. OneExchange /\ OneAlive
      BY <1>1, <2>3, <3>1 DEF Tokens
    <3>3. Exchanging' = {q}
      BY <2>1, <3>1
    <3>4. OneExchange'
      BY <1>1, <1>5, <2>1, <3>1, <3>2, <3>3 DEF OneExchange, SigningOut
    <3>5. server.alive \subseteq loose \cup {ui.store}
      BY <3>1, <3>2 DEF OneAlive
    <3>6. OneAlive'
      BY <1>1, <1>5, <2>1, <3>3, <3>5 DEF OneAlive
    <3>. QED  BY <3>4, <3>6
  <2>. QED  BY <1>7, <2>2, <2>3 DEF Tokens
<1>6. CASE ui.store = 0 /\ calls' = [calls EXCEPT ![q] = Failed] /\ ui' = ShownLogin /\ forked' = forked
  <2>1. /\ calls'[q] = Failed
        /\ \A p \in Requests : p # q => calls'[p] = calls[p]
        /\ Exchanging' = Exchanging \ {q}
    BY <1>1, <1>6, OneCallFacts
  <2>2. RetriesAreValid'
    BY <1>1, <2>1 DEF Tokens, RetriesAreValid
  <2>3. ui'.shown = "login" /\ ui'.store = 0
    BY <1>6, LoginShown
  <2>4. ASSUME ~forked' PROVE OneExchange' /\ OneAlive'
    <3>1. OneExchange /\ OneAlive
      BY <1>1, <1>6, <2>4 DEF Tokens
    <3>2. Exchanging = {} /\ Exchanging' = {} /\ server.alive \subseteq loose \cup {0}
      BY <1>6, <2>1, <3>1 DEF OneExchange, OneAlive
    <3>. QED  BY <1>1, <2>3, <3>1, <3>2 DEF OneExchange, OneAlive
  <2>. QED  BY <1>7, <2>2, <2>4 DEF Tokens
<1>. QED  BY <1>3, <1>4, <1>5, <1>6

\* The exchange at the server: read, and written.
LEMMA RefreshTokens ==
    ASSUME TypeOK, Tokens, NEW r \in Slots, NEW i \in {1, 2}, RefreshRead(r, i) \/ RefreshWrite(r, i)
    PROVE  Tokens'
<1>. DEFINE q == <<r, i>>
           n == issued + 1
<1>1. q \in Requests /\ UNCHANGED <<ui, logouts, forked, loose>> /\ calls[q].pc \in {"refresh", "rotate"}
  BY RequestFacts DEF RefreshRead, RefreshWrite
<1>2. q \in Exchanging
  BY <1>1 DEF Exchanging
<1>3. CASE RefreshRead(r, i)
  <2>1. PICK c : /\ calls' = [calls EXCEPT ![q] = c] /\ c.pc \in {"rotate", "refused"}
                 /\ c.pc = "rotate" => c.tok = calls[q].tok /\ server' = server
                 /\ c.pc = "refused" => calls[q].tok \notin server.alive
    <3>1. CASE calls[q].tok \in server.alive
      <4>1. PICK c : c = [pc |-> "rotate", tok |-> calls[q].tok]
        OBVIOUS
      <4>2. c.pc = "rotate" /\ c.tok = calls[q].tok
        BY <4>1
      <4>3. calls' = [calls EXCEPT ![q] = c] /\ server' = server
        BY <1>3, <3>1, <4>1 DEF RefreshRead, Replayed
      <4>. QED  BY <4>2, <4>3
    <3>2. CASE calls[q].tok \notin server.alive
      <4>1. PICK c : c = [pc |-> "refused", tok |-> 0]
        OBVIOUS
      <4>2. c.pc = "refused"
        BY <4>1
      <4>3. calls' = [calls EXCEPT ![q] = c]
        BY <1>3, <3>2, <4>1 DEF RefreshRead
      <4>. QED  BY <3>2, <4>2, <4>3
    <3>. QED  BY <3>1, <3>2
  <2>2. server'.valid = server.valid /\ server'.alive \subseteq server.alive /\ calls[q].pc = "refresh"
    BY <1>3 DEF RefreshRead, Replayed, TypeOK, Server
  <2>. HIDE DEF q
  <2>3. calls'[q] = c /\ (\A p \in Requests : p # q => calls'[p] = calls[p]) /\ Exchanging' = Exchanging
    <3>1. Exchanging' = Exchanging \cup {q}
      BY <1>1, <2>1, OneCallFacts
    <3>2. Exchanging' = Exchanging
      BY <1>2, <3>1
    <3>. QED  BY <1>1, <2>1, <3>2, OneCallFacts
  <2>4. RetriesAreValid'
    BY <1>1, <2>1, <2>2, <2>3 DEF Tokens, RetriesAreValid
  <2>5. ASSUME ~forked' PROVE OneExchange' /\ OneAlive'
    <3>1. OneExchange /\ OneAlive
      BY <1>1, <2>5 DEF Tokens
    <3>2. Exchanging = {q} /\ calls[q].tok = ui.store
      BY <1>2, <2>2, <3>1 DEF OneExchange
    <3>3. server.alive \subseteq loose \cup {ui.store}
      BY <2>2, <3>1, <3>2 DEF OneAlive
    <3>4. OneExchange'
      BY <1>1, <2>1, <2>3, <3>1, <3>2 DEF OneExchange
    <3>5. c.pc = "refused" => ui.store \notin server'.alive
      BY <2>1, <2>2, <3>2
    <3>6. OneAlive'
      BY <1>1, <2>1, <2>2, <2>3, <3>2, <3>3, <3>5 DEF OneAlive
    <3>. QED  BY <3>4, <3>6
  <2>6. PairsIssued' /\ issued' = issued
    <3>1. issued' = issued
      BY <1>3 DEF RefreshRead
    <3>. QED  BY <1>1, <2>2, <3>1 DEF Tokens, PairsIssued
  <2>. QED  BY <2>4, <2>5, <2>6 DEF Tokens
<1>4. CASE RefreshWrite(r, i)
  <2>1. /\ calls' = [calls EXCEPT ![q] = [pc |-> "pair", tok |-> n]] /\ calls[q].pc = "rotate"
        /\ server'.alive = (server.alive \ {calls[q].tok}) \cup {n}
        /\ server'.valid = server.valid \cup {n}
    BY <1>4 DEF RefreshWrite, Rotate, TypeOK, Server
  <2>5. issued' = n
    BY <1>4 DEF RefreshWrite, Rotate
  <2>6. PairsIssued'
    <3>1. issued \in Nat /\ ui.store \in Nat /\ server.valid \subseteq Nat
      BY DEF TypeOK, Tab, Server, Pairs
    <3>. QED  BY <1>1, <2>1, <2>5, <3>1 DEF Tokens, PairsIssued
  <2>. HIDE DEF q, n
  <2>2. /\ calls'[q] = [pc |-> "pair", tok |-> n] /\ (\A p \in Requests : p # q => calls'[p] = calls[p])
        /\ Exchanging' = Exchanging
    <3>1. PICK c : c = [pc |-> "pair", tok |-> n]
      OBVIOUS
    <3>2. c.pc = "pair" /\ calls' = [calls EXCEPT ![q] = c]
      BY <2>1, <3>1
    <3>3. Exchanging' = Exchanging \cup {q}
      BY <1>1, <3>2, OneCallFacts
    <3>4. Exchanging' = Exchanging
      BY <1>2, <3>3
    <3>. QED  BY <1>1, <3>1, <3>2, <3>4, OneCallFacts
  <2>3. RetriesAreValid'
    BY <2>1, <2>2 DEF Tokens, RetriesAreValid
  <2>4. ASSUME ~forked' PROVE OneExchange' /\ OneAlive'
    <3>1. OneExchange /\ OneAlive
      BY <1>1, <2>4 DEF Tokens
    <3>2. Exchanging = {q} /\ calls[q].tok = ui.store
      BY <1>2, <2>1, <3>1 DEF OneExchange
    <3>3. server.alive \subseteq loose \cup {ui.store}
      BY <2>1, <3>1, <3>2 DEF OneAlive
    <3>4. OneExchange'
      BY <1>1, <2>2, <3>1, <3>2 DEF OneExchange
    <3>5. server'.alive \subseteq loose \cup {n}
      BY <2>1, <3>2, <3>3
    <3>6. OneAlive'
      BY <1>1, <2>2, <3>2, <3>5 DEF OneAlive
    <3>. QED  BY <3>4, <3>6
  <2>. QED  BY <2>3, <2>4, <2>6 DEF Tokens
<1>. QED  BY <1>3, <1>4

\* The answer of the exchange: the new pair, or a refusal.
LEMMA RefreshedTokens ==
    ASSUME TypeOK, Tokens, NEW r \in Slots, NEW i \in {1, 2}, Refreshed(r, i) \/ Refused(r, i)
    PROVE  Tokens'
<1>. DEFINE q == <<r, i>>
<1>1. q \in Requests /\ UNCHANGED <<server, logouts, issued, forked, loose>> /\ calls[q].pc \in {"pair", "refused"}
  BY RequestFacts DEF Refreshed, Refused
<1>2. q \in Exchanging
  BY <1>1 DEF Exchanging
<1>3. CASE Refreshed(r, i)
  <2>1. /\ calls' = [calls EXCEPT ![q] = [pc |-> "retry", tok |-> calls[q].tok]] /\ calls[q].pc = "pair"
        /\ ui' = [ui EXCEPT !.store = calls[q].tok]
    <3>1. calls[q] \in Call
      BY <1>1 DEF TypeOK
    <3>2. [calls[q] EXCEPT !.pc = "retry"] = [pc |-> "retry", tok |-> calls[q].tok]
      BY <3>1 DEF Call
    <3>3. calls' = [calls EXCEPT ![q] = [calls[q] EXCEPT !.pc = "retry"]]
      BY <1>3 DEF Refreshed
    <3>. QED  BY <1>3, <3>2, <3>3 DEF Refreshed
  <2>. HIDE DEF q
  <2>2. /\ calls'[q] = [pc |-> "retry", tok |-> calls[q].tok] /\ (\A p \in Requests : p # q => calls'[p] = calls[p])
        /\ Exchanging' = Exchanging \ {q}
    <3>1. PICK c : c = [pc |-> "retry", tok |-> calls[q].tok]
      OBVIOUS
    <3>2. c.pc = "retry" /\ calls' = [calls EXCEPT ![q] = c]
      BY <2>1, <3>1
    <3>. QED  BY <1>1, <3>1, <3>2, OneCallFacts
  <2>3. RetriesAreValid' /\ calls[q].tok \in server.valid
    BY <1>1, <2>1, <2>2 DEF Tokens, RetriesAreValid
  <2>4. ui'.shown = ui.shown /\ ui'.store = calls[q].tok
    BY <2>1 DEF TypeOK, Tab
  <2>5. calls[q].tok # 0
    BY <2>3 DEF TypeOK, Server, Pairs
  <2>6. ASSUME ~forked' PROVE OneExchange' /\ OneAlive'
    <3>1. OneExchange /\ OneAlive
      BY <1>1, <2>6 DEF Tokens
    <3>2. Exchanging = {q} /\ ui.store # 0 /\ \A n \in Pairs : ~(logouts[n] > 0)
      BY <1>2, <3>1 DEF OneExchange
    <3>3. server.alive \subseteq loose \cup {calls[q].tok}
      BY <1>2, <2>1, <3>1 DEF OneAlive
    <3>4. Exchanging' = {}
      BY <2>2, <3>2
    <3>5. OneExchange'
      BY <1>1, <2>4, <2>5, <3>1, <3>2, <3>4 DEF OneExchange
    <3>6. OneAlive'
      BY <1>1, <2>4, <3>3, <3>4 DEF OneAlive
    <3>. QED  BY <3>5, <3>6
  <2>7. PairsIssued'
    BY <1>1, <2>3, <2>4 DEF Tokens, PairsIssued
  <2>. QED  BY <2>3, <2>6, <2>7 DEF Tokens
<1>4. CASE Refused(r, i)
  <2>1. calls' = [calls EXCEPT ![q] = Failed] /\ calls[q].pc = "refused" /\ ui' = ShownLogin
    BY <1>4 DEF Refused
  <2>. HIDE DEF q
  <2>2. /\ calls'[q] = Failed /\ Failed.pc = "failed" /\ (\A p \in Requests : p # q => calls'[p] = calls[p])
        /\ Exchanging' = Exchanging \ {q}
    <3>1. Failed.pc = "failed"
      BY DEF Failed
    <3>. QED  BY <1>1, <2>1, <3>1, OneCallFacts
  <2>3. RetriesAreValid'
    BY <1>1, <2>1, <2>2 DEF Tokens, RetriesAreValid
  <2>4. ui'.shown = "login" /\ ui'.store = 0
    BY <2>1, LoginShown
  <2>5. ASSUME ~forked' PROVE OneExchange' /\ OneAlive'
    <3>1. OneExchange /\ OneAlive
      BY <1>1, <2>5 DEF Tokens
    <3>2. /\ Exchanging = {q} /\ \A n \in Pairs : ~(logouts[n] > 0)
          /\ server.alive \subseteq loose \cup {ui.store} /\ ui.store \notin server.alive
      BY <1>2, <2>1, <3>1 DEF OneExchange, OneAlive
    <3>3. Exchanging' = {} /\ server.alive \subseteq loose
      BY <2>2, <3>2
    <3>. QED  BY <1>1, <2>4, <3>2, <3>3 DEF OneExchange, OneAlive
  <2>6. PairsIssued'
    BY <1>1, <2>4 DEF Tokens, PairsIssued, TypeOK
  <2>. QED  BY <2>3, <2>5, <2>6 DEF Tokens
<1>. QED  BY <1>3, <1>4
\* An access token expires, sessions are ended elsewhere, a sign-in fails, and
\* the server serves what the tab no longer waits for.
LEMMA FaultTokens ==
    ASSUME TypeOK, Tokens,
           SignInFails \/ Revoke \/ (\E n \in Pairs : LateExchange(n) \/ Expire(n)) \/ \E value \in BOOLEAN : LateWrite(value)
    PROVE  Tokens'
<1>1. UNCHANGED <<ui, calls, logouts, forked>>
  BY DEF SignInFails, Revoke, LateExchange, LateWrite, Expire
<1>2. issued' = issued \/ issued' = issued + 1
  BY DEF SignInFails, Issue, Revoke, LateExchange, Rotate, LateWrite, Expire
<1>3. loose \subseteq loose'
  BY DEF SignInFails, Revoke, LateExchange, LateWrite, Expire
<1>4. ASSUME SignInFails \/ \E n \in Pairs : LateExchange(n)
      PROVE  /\ \A n \in server'.alive : n \in server.alive \/ (n \in loose' /\ n = issued + 1)
             /\ \A n \in server'.valid : n \in server.valid \/ n = issued'
  <2>1. CASE SignInFails /\ server' = server
    BY <2>1
  <2>2. ASSUME NEW n \in Pairs, Issue(n), loose' = loose \cup {n}
        PROVE  /\ \A m \in server'.alive : m \in server.alive \/ (m \in loose' /\ m = issued + 1)
               /\ \A m \in server'.valid : m \in server.valid \/ m = issued'
    BY <2>2 DEF Issue, TypeOK, Server
  <2>3. ASSUME NEW tok \in Pairs, NEW n \in Pairs, Rotate(tok, n), loose' = loose \cup {n}
        PROVE  /\ \A m \in server'.alive : m \in server.alive \/ (m \in loose' /\ m = issued + 1)
               /\ \A m \in server'.valid : m \in server.valid \/ m = issued'
    BY <2>3 DEF Rotate, TypeOK, Server
  <2>4. ASSUME NEW tok \in Pairs, Replayed(tok)
        PROVE  server'.alive \subseteq server.alive /\ server'.valid = server.valid
    BY <2>4 DEF Replayed, TypeOK, Server
  <2>. QED  BY <1>4, <2>1, <2>2, <2>3, <2>4 DEF SignInFails, LateExchange
<1>5. ASSUME Revoke \/ (\E n \in Pairs : Expire(n)) \/ \E value \in BOOLEAN : LateWrite(value)
      PROVE  server'.alive \subseteq server.alive /\ server'.valid \subseteq server.valid
  BY <1>5 DEF Revoke, LateWrite, Expire, TypeOK, Server
<1>6. \A q \in Requests : calls[q].pc \in {"pair", "retry"} /\ calls[q].tok \in server.valid
                            => calls[q].tok \in server'.valid
  <2>1. CASE SignInFails \/ Revoke \/ (\E n \in Pairs : LateExchange(n)) \/ \E value \in BOOLEAN : LateWrite(value)
    <3>1. server.valid \subseteq server'.valid
      BY <2>1 DEF SignInFails, Issue, Revoke, LateExchange, Rotate, Replayed, LateWrite, TypeOK, Server
    <3>. QED  BY <3>1
  <2>2. ASSUME NEW n \in Pairs, Expire(n)
        PROVE  /\ server'.valid = server.valid \ {n}
               /\ \A q \in Requests : ~(calls[q].tok = n /\ calls[q].pc \in {"pair", "retry"})
    BY <2>2 DEF Expire, TypeOK, Server
  <2>. QED  BY <2>1, <2>2
<1>7. RetriesAreValid'
  BY <1>1, <1>6 DEF Tokens, RetriesAreValid
<1>. QED  BY <1>1, <1>2, <1>3, <1>4, <1>5, <1>7, ServerTokens, Zenon

\* Every step keeps the tokens in agreement.
LEMMA TokensKept == TypeOK /\ Tidy /\ Tokens /\ [Next]_vars => Tokens'
<1>. SUFFICES ASSUME TypeOK, Tidy, Tokens, [Next]_vars PROVE Tokens'
  OBVIOUS
<1>1. ASSUME \/ \E r \in Slots : \/ Confirm(r) \/ Await(r) \/ Draw(r) \/ RenderFails(r)
                                 \/ \E view \in Menu : Navigate(r, view)
                                 \/ \E ok \in BOOLEAN : HandlerEnds(r, ok)
             \/ node.drawn \in Names /\ \E R \in SUBSET Slots, act \in VIEWS[node.drawn].acts : Click(R, act)
      PROVE  Tokens'
  <2>1. OnlySends
    BY <1>1, RunsOnlySend
  <2>2. UNCHANGED <<server, logouts, issued, forked, loose>> /\ ui'.shown = ui.shown /\ ui'.store = ui.store
    <3>1. ASSUME NEW r \in Slots, NEW view \in Menu, Navigate(r, view)
          PROVE  UNCHANGED <<server, logouts, issued, forked, loose>> /\ ui'.shown = ui.shown /\ ui'.store = ui.store
      BY <3>1 DEF Navigate, TypeOK, Tab
    <3>. QED  BY <1>1, <3>1 DEF Confirm, Await, Draw, RenderFails, HandlerEnds, Click
  <2>. QED  BY <2>1, <2>2, SendsKeepTokens
<1>2. ASSUME UNCHANGED vars PROVE Tokens'
  <2>1. OnlySends /\ UNCHANGED <<ui, server, logouts, issued, forked, loose>>
    BY <1>2 DEF vars, OnlySends
  <2>. QED  BY <2>1, SendsKeepTokens
<1>3. ASSUME NEW r \in Slots, (\E n \in Pairs : SignInAnswered(r, n)) \/ Reload(r) PROVE Tokens'
  BY <1>3, SignInTokens, ReloadTokens
<1>4. ASSUME NEW r \in Slots, NEW i \in {1, 2},
             \/ Answer(r, i) \/ Unauthorized(r, i) \/ RefreshRead(r, i) \/ RefreshWrite(r, i)
             \/ Refreshed(r, i) \/ Refused(r, i) \/ ExchangeFails(r, i) \/ CallFails(r, i)
      PROVE  Tokens'
  BY <1>4, AnswerTokens, UnauthorizedTokens, RefreshTokens, RefreshedTokens
<1>5. ASSUME Logout \/ \E n \in Pairs : LogoutDone(n) PROVE Tokens'
  BY <1>5, LogoutTokens
<1>6. ASSUME SignInFails \/ Revoke \/ (\E n \in Pairs : LateExchange(n) \/ Expire(n))
             \/ \E value \in BOOLEAN : LateWrite(value)
      PROVE  Tokens'
  BY <1>6, FaultTokens
<1>7. CASE SignIn
  <2>1. OnlySends /\ UNCHANGED <<ui, server, logouts, issued, forked, loose>>
    BY <1>7 DEF SignIn, OnlySends
  <2>. QED  BY <2>1, SendsKeepTokens
<1>. QED  BY <1>1, <1>2, <1>3, <1>4, <1>5, <1>6, <1>7 DEF Next

-----------------------------------------------------------------------------
(* Pages: what is drawn, and who listens.                                   *)

\* Runs under way have a kind, and those that are none are free.
LEMMA BusyFacts ==
    ASSUME Tidy, NEW r \in Slots
    PROVE  runs[r].kind # "none" => Busy(r)
BY DEF Tidy, TidyRun, Busy

\* A render that starts, alone.
LEMMA RoutePages ==
    ASSUME TypeOK, Tidy, Tidy', NEW r \in Slots, NEW view \in Names, NEW pair \in 0..MaxPairs, Route(r, view, pair),
           ui'.hash = view, \A i \in {1, 2} : calls[<<r, i>>].pc \notin InFlight
    PROVE  Pages'
<1>. SUFFICES ASSUME ~crossed' PROVE OneListener' /\ PageFollows'
  BY DEF Pages
<1>1. \A s \in Slots : s # r => ~Busy(s)
  BY DEF Route
<1>2. node' = Swapped /\ runs'[r] = Rendering(view)
  BY DEF Route
<1>3. ASSUME NEW s \in Slots, s # r PROVE runs'[s].kind = "none" /\ ~Busy(s)'
  <2>1. runs[s].pc = "idle" /\ runs[s].kind = "none" /\ \A i \in {1, 2} : calls[<<s, i>>].pc \notin InFlight
    BY <1>1, <1>3, FreeFacts
  <2>2. runs[s] \in Run /\ runs'[s] = [runs[s] EXCEPT !.mine = FALSE]
    BY <1>3 DEF Route, TypeOK
  <2>3. runs'[s].pc = "idle" /\ runs'[s].kind = "none"
    BY <2>1, <2>2 DEF Run
  <2>4. PICK n \in Nat : n = VIEWS[view].loads[1]
    BY ViewLoads
  <2>5. calls' = Sent(r, n, pair)
    BY <2>4 DEF Route
  <2>6. \A i \in {1, 2} : calls'[<<s, i>>] = calls[<<s, i>>]
    BY <1>3, <2>5, SentCalls
  <2>. QED  BY <2>1, <2>3, <2>6 DEF Busy
<1>4. \A i \in {1, 2} : calls'[<<r, i>>].pc \in {"none", "sent"}
  BY RequestFacts DEF Route, Sent, NoCall
<1>5. /\ runs'[r].kind = "route" /\ runs'[r].mine /\ runs'[r].view = view
  BY <1>2 DEF Rendering
<1>6. node'.heard = <<>> /\ node'.drawn = "loading"
  BY <1>2 DEF Swapped
<1>7. OneListener'
  BY <1>3, <1>4, <1>5, <1>6, NamesFacts DEF OneListener
<1>8. PageFollows'
  BY <1>3, <1>4, <1>5, <1>6 DEF PageFollows, Loading
<1>. QED  BY <1>7, <1>8
\* A step that draws nothing, answers nothing and starts nothing.
LEMMA QuietPages ==
    ASSUME Pages, UNCHANGED <<node, runs, crossed, stale>>, server'.data = server.data, ui'.hash = ui.hash,
           \A s \in Slots : Busy(s)' => Busy(s),
           \A s \in Slots, i \in {1, 2} : calls'[<<s, i>>].pc = "done" <=> calls[<<s, i>>].pc = "done"
    PROVE  Pages'
<1>1. \A s \in Slots : Loads(s)' = Loads(s)
  BY DEF Loads
<1>2. OneListener => OneListener'
  BY <1>1 DEF OneListener
<1>3. \A s \in Slots : (Handling(s) => Handling(s)') /\ (Loading(s) => Loading(s)')
  BY <1>1 DEF Handling, Loading
<1>4. PageFollows => PageFollows'
  BY <1>3 DEF PageFollows
<1>. QED  BY <1>2, <1>4 DEF Pages

\* A step of one request that is not answered by it.
LEMMA CallPages ==
    ASSUME TypeOK, Pages, NEW r \in Slots, NEW i \in {1, 2}, calls[<<r, i>>].pc \in InFlight, NEW c,
           calls' = [calls EXCEPT ![<<r, i>>] = c], c.pc # "done",
           UNCHANGED <<node, runs, crossed, stale>>, server'.data = server.data, ui'.hash = ui.hash
    PROVE  Pages'
<1>1. calls'[<<r, i>>] = c /\ \A p \in Requests : p # <<r, i>> => calls'[p] = calls[p]
  BY RequestFacts DEF TypeOK
<1>2. \A s \in Slots, j \in {1, 2} : calls'[<<s, j>>] = calls[<<s, j>>] \/ (s = r /\ j = i)
  BY <1>1, RequestFacts
<1>3. \A s \in Slots : Busy(s)' => Busy(s)
  BY <1>2 DEF Busy
<1>4. \A s \in Slots, j \in {1, 2} : calls'[<<s, j>>].pc = "done" <=> calls[<<s, j>>].pc = "done"
  BY <1>1, <1>2 DEF InFlight
<1>. QED  BY <1>3, <1>4, QuietPages

\* While a run is busy that does not overlap others, these are none, and stay so.
LEMMA AloneFacts ==
    ASSUME Tidy, OneListener, NEW r \in Slots, Busy(r),
           \A s \in Slots : s # r => runs'[s] = runs[s],
           \A s \in Slots, i \in {1, 2} : s # r => calls'[<<s, i>>] = calls[<<s, i>>]
    PROVE  \A s \in Slots : s # r => runs[s].kind = "none" /\ runs'[s].kind = "none" /\ ~Busy(s)'
<1>. SUFFICES ASSUME NEW s \in Slots, s # r
              PROVE  runs[s].kind = "none" /\ runs'[s].kind = "none" /\ ~Busy(s)'
  OBVIOUS
<1>1. ~Busy(s)
  BY DEF OneListener
<1>2. runs[s].kind = "none"
  BY <1>1, FreeFacts
<1>. QED  BY <1>1, <1>2 DEF Busy

\* The tab is loaded again.
LEMMA ReloadPages ==
    ASSUME TypeOK, NEW r \in Slots, Reload(r)
    PROVE  Pages'
<1>1. node' = Swapped /\ ui'.hash = ui.hash
  BY DEF Reload, TypeOK, Tab
<1>2. \A s \in Slots : s # r => runs'[s] = NoRun /\ \A i \in {1, 2} : calls'[<<s, i>>] = NoCall
  BY RequestFacts DEF Reload
<1>3. \A i \in {1, 2} : calls'[<<r, i>>].pc \in {"none", "sent"}
  BY RequestFacts DEF Reload, NoCall
<1>4. runs'[r] = NoRun \/ runs'[r] = Rendering(ui.hash)
  BY DEF Reload
<1>5. node'.heard = <<>> /\ node'.drawn = "loading"
  BY <1>1 DEF Swapped
<1>6. \A s \in Slots : s # r => ~Busy(s)' /\ runs'[s].kind = "none"
  BY <1>2 DEF Busy, NoRun, NoCall, InFlight
<1>7. runs'[r].kind = "none" \/ (runs'[r].kind = "route" /\ runs'[r].mine /\ runs'[r].view = ui.hash)
  BY <1>4 DEF NoRun, Rendering
<1>8. OneListener'
  BY <1>1, <1>3, <1>5, <1>6, <1>7, NamesFacts DEF OneListener
<1>9. PageFollows'
  BY <1>3, <1>5, <1>6, <1>7, NamesFacts DEF PageFollows, Loading
<1>. QED  BY <1>8, <1>9 DEF Pages

\* A click that the page hears at most once.
LEMMA HeardOnce ==
    ASSUME TypeOK, Len(node.heard) <= 1, NEW R \in SUBSET Slots, NEW act, Click(R, act)
    PROVE  IsFiniteSet(R) /\ Cardinality(R) <= 1
<1>. DEFINE N == {n \in DOMAIN node.heard : node.heard[n] = node.drawn}
<1>1. IsFiniteSet(R)
  BY ConsoleAssumption, FS_Subset DEF ConsoleAssumption
<1>2. N \subseteq {1}
  BY DEF TypeOK, Page
<1>3. IsFiniteSet({1}) /\ Cardinality({1}) = 1
  BY FS_Singleton
<1>4. Cardinality(N) <= 1
  BY <1>2, <1>3, FS_Subset
<1>5. Cardinality(R) = IF act.own THEN 1 ELSE Cardinality(N)
  BY DEF Click
<1>. QED  BY <1>1, <1>4, <1>5

\* The handlers of a click are one at most.
LEMMA OneHandler ==
    ASSUME TypeOK, Len(node.heard) <= 1, NEW R \in SUBSET Slots, NEW act, Click(R, act)
    PROVE  \A r, s \in R : r = s
<1>1. SUFFICES ASSUME NEW r \in R, NEW s \in R, r # s PROVE FALSE
  OBVIOUS
<1>2. IsFiniteSet(R) /\ Cardinality(R) <= 1
  BY HeardOnce
<1>3. IsFiniteSet({r}) /\ Cardinality({r}) = 1 /\ s \notin {r}
  BY <1>1, FS_Singleton
<1>4. IsFiniteSet({r} \cup {s}) /\ Cardinality({r} \cup {s}) = 2
  <2>1. /\ IsFiniteSet({r} \cup {s})
        /\ Cardinality({r} \cup {s}) = IF s \in {r} THEN Cardinality({r}) ELSE Cardinality({r}) + 1
    BY <1>3, FS_AddElement, Zenon
  <2>2. Cardinality({r} \cup {s}) = Cardinality({r}) + 1
    BY <1>3, <2>1
  <2>. QED  BY <1>3, <2>1, <2>2
<1>5. Cardinality({r} \cup {s}) <= Cardinality(R)
  BY <1>2, FS_Subset
<1>6. Cardinality(R) \in Nat
  BY <1>2, FS_CardinalityType
<1>7. PICK c \in Nat : c = Cardinality(R)
  BY <1>6
<1>8. c <= 1 /\ 2 <= c
  BY <1>2, <1>4, <1>5, <1>7
<1>. QED  BY <1>8
\* A click while nothing else is under way.
LEMMA ClickPages ==
    ASSUME TypeOK, Tidy, Pages, node.drawn \in Names, NEW R \in SUBSET Slots,
           NEW act \in VIEWS[node.drawn].acts, Click(R, act)
    PROVE  Pages'
<1>. SUFFICES ASSUME ~crossed' PROVE OneListener' /\ (~stale' => PageFollows')
  BY DEF Pages
<1>1. ~crossed /\ (\A s \in Slots \ R : ~Busy(s)) /\ R \subseteq Free
      /\ UNCHANGED <<ui, server, stale>>
  <2>1. crossed' = (crossed \/ \E s \in Slots \ R : Busy(s)) /\ R \subseteq Free /\ UNCHANGED <<ui, server, stale>>
    BY DEF Click
  <2>. QED  BY <2>1
<1>2. \A s \in Slots : ~Busy(s) /\ runs[s].kind = "none" /\ \A i \in {1, 2} : calls[<<s, i>>].pc \notin InFlight
  BY <1>1, FreeFacts DEF Free
<1>3. OneListener /\ (~stale => PageFollows)
  BY <1>1 DEF Pages
<1>4. /\ act.kind \in {"redraw", "look", "direct", "edit", "typed"}
  BY ViewActs
<1>5. \A r, s \in R : r = s
  BY <1>3, OneHandler DEF OneListener
<1>6. \A s \in Slots \ R : runs'[s].kind = "none" /\ ~Busy(s)'
  <2>1. \A s \in Slots \ R : runs'[s] = runs[s]
    BY DEF Click
  <2>2. \A s \in Slots \ R, i \in {1, 2} : calls'[<<s, i>>] = calls[<<s, i>>]
    BY RequestFacts DEF Click
  <2>. QED  BY <1>2, <2>1, <2>2 DEF Busy
<1>7. \A r \in R : /\ runs'[r].kind = act.kind /\ runs'[r].mine /\ runs'[r].at = 1
                   /\ runs'[r].value = (act.kind \in Writes /\ ~node.data)
                   /\ calls'[<<r, 1>>].pc # "done"
  <2>1. \A r \in R : /\ runs'[r].kind = act.kind /\ runs'[r].mine = TRUE /\ runs'[r].at = 1
                     /\ runs'[r].value = (act.kind \in Writes /\ ~node.data)
    BY DEF Click
  <2>2. \A r \in R : calls'[<<r, 1>>].pc # "done"
    BY RequestFacts DEF Click, NoCall
  <2>. QED  BY <2>1, <2>2
<1>8. /\ node'.drawn = node.drawn /\ node'.heard = node.heard
      /\ act.kind # "edit" => node' = node
      /\ act.kind = "edit" => node'.data = ~node.data
  BY DEF Click, TypeOK, Page
<1>9. OneListener'
  BY <1>3, <1>4, <1>5, <1>6, <1>7, <1>8 DEF OneListener
<1>10. R = {} => node' = node
  <2>1. SUFFICES ASSUME R = {}, act.own \/ node.heard = <<node.drawn>> PROVE FALSE
    BY <1>3 DEF OneListener
  <2>2. Cardinality({}) = 0
    BY FS_EmptySet
  <2>3. act.own => Cardinality(R) = 1
    BY DEF Click
  <2>4. ~act.own => Cardinality(R) = Cardinality({n \in DOMAIN node.heard : node.heard[n] = node.drawn})
    BY DEF Click
  <2>5. node.heard = <<node.drawn>> => {n \in DOMAIN node.heard : node.heard[n] = node.drawn} = {1}
    OBVIOUS
  <2>6. node.heard = <<node.drawn>>
    BY <1>3 DEF OneListener
  <2>7. Cardinality({1}) = 1
    BY FS_Singleton
  <2>. QED  BY <2>1, <2>2, <2>3, <2>4, <2>5, <2>6, <2>7
<1>11. ASSUME ~stale' PROVE PageFollows'
  <2>1. node.drawn = ui.hash /\ node.data = server.data
    BY <1>1, <1>2, <1>3, <1>11 DEF PageFollows
  <2>2. ASSUME NEW r \in R PROVE Handling(r)'
    <3>1. node.data \in BOOLEAN
      BY DEF TypeOK, Page
    <3>2. act.kind = "edit" => node'.data = runs'[r].value
      BY <1>7, <1>8, <3>1 DEF Writes
    <3>. QED  BY <1>1, <1>7, <1>8, <2>1, <3>2 DEF Handling
  <2>3. R = {} => node' = node /\ node'.data = server'.data
    BY <1>1, <1>10, <2>1
  <2>4. (\A r \in Slots : runs'[r].kind = "none") => R = {}
    BY <1>4, <1>7
  <2>5. \A r \in Slots : runs'[r].kind # "route"
    BY <1>4, <1>6, <1>7
  <2>. QED  BY <1>1, <1>6, <1>8, <2>1, <2>2, <2>3, <2>4, <2>5 DEF PageFollows
<1>. QED  BY <1>9, <1>11

\* A dialog is answered.
LEMMA ConfirmPages ==
    ASSUME TypeOK, Tidy, Pages, NEW r \in Slots, Confirm(r)
    PROVE  Pages'
<1>. SUFFICES ASSUME ~crossed' PROVE OneListener' /\ (~stale' => PageFollows')
  BY DEF Pages
<1>1. UNCHANGED <<ui, node, server, crossed, stale>> /\ runs[r] \in Run /\ runs[r].pc = "asking"
  BY DEF Confirm, TypeOK
<1>2. OneListener /\ (~stale => PageFollows)
  BY <1>1 DEF Pages
<1>3. /\ runs[r].kind \notin {"none", "route", "edit"} /\ runs[r].at = 1
      /\ \A i \in {1, 2} : calls[<<r, i>>].pc = "none"
  BY <1>1 DEF Tidy, TidyRun
<1>4. Busy(r)
  BY <1>1 DEF Busy
<1>5. \A s \in Slots, i \in {1, 2} : s # r => calls'[<<s, i>>] = calls[<<s, i>>]
  <2>1. CASE UNCHANGED calls  BY <2>1
  <2>2. CASE calls' = Sent(r, 1, ui.store)  BY <2>2, SentCalls
  <2>. QED  BY <2>1, <2>2 DEF Confirm
<1>6. \A s \in Slots : s # r => runs'[s] = runs[s]
  BY DEF Confirm, TypeOK
<1>7. \A s \in Slots : s # r => runs[s].kind = "none" /\ runs'[s].kind = "none" /\ ~Busy(s)'
  BY <1>2, <1>4, <1>5, <1>6, AloneFacts
<1>8. calls'[<<r, 1>>].pc # "done"
  <2>1. CASE UNCHANGED calls  BY <1>3, <2>1
  <2>2. CASE calls' = Sent(r, 1, ui.store)
    <3>1. calls'[<<r, 1>>].pc \in {"none", "sent"}
      BY <2>2, RequestFacts DEF Sent, NoCall
    <3>. QED  BY <3>1
  <2>. QED  BY <2>1, <2>2 DEF Confirm
<1>9. \/ runs'[r] = NoRun
      \/ runs'[r].kind = runs[r].kind /\ runs'[r].at = 1 /\ runs'[r].mine = runs[r].mine
  <2>1. CASE runs' = [runs EXCEPT ![r].ask = @ - 1]
    BY <1>1, <1>3, <2>1 DEF TypeOK, Run
  <2>2. CASE runs' = [runs EXCEPT ![r].pc = "calling", ![r].ask = 0]
    <3>1. runs'[r] = [runs[r] EXCEPT !.pc = "calling", !.ask = 0]
      BY <2>2 DEF TypeOK
    <3>. QED  BY <1>1, <1>3, <3>1, RunFields
  <2>3. CASE runs' = [runs EXCEPT ![r] = NoRun]
    BY <2>3 DEF TypeOK
  <2>. QED  BY <2>1, <2>2, <2>3 DEF Confirm
<1>10. runs'[r].kind = "none" \/ (runs'[r].kind = runs[r].kind /\ runs'[r].at = 1 /\ runs'[r].mine = runs[r].mine)
  BY <1>9 DEF NoRun
<1>11. OneListener'
  BY <1>1, <1>2, <1>3, <1>7, <1>10 DEF OneListener
<1>12. ASSUME ~stale' PROVE PageFollows'
  <2>1. node.drawn = ui.hash /\ node.data = server.data
    BY <1>1, <1>2, <1>3, <1>12 DEF PageFollows, Handling
  <2>2. runs'[r].kind # "none" => Handling(r)'
    BY <1>1, <1>3, <1>8, <1>10, <2>1 DEF Handling
  <2>. QED  BY <1>1, <1>3, <1>7, <1>10, <2>1, <2>2 DEF PageFollows
<1>. QED  BY <1>11, <1>12
\* A request is answered.
LEMMA AnswerPages ==
    ASSUME TypeOK, Tidy, Pages, NEW r \in Slots, NEW i \in {1, 2}, Answer(r, i)
    PROVE  Pages'
<1>. SUFFICES ASSUME ~crossed' PROVE OneListener' /\ (~stale' => PageFollows')
  BY DEF Pages
<1>1. /\ UNCHANGED <<ui, node, crossed, stale>> /\ Served(r)
      /\ calls' = [calls EXCEPT ![<<r, i>>] = Done] /\ calls[<<r, i>>].pc \in {"sent", "retry"}
  BY DEF Answer
<1>2. OneListener /\ (~stale => PageFollows)
  BY <1>1 DEF Pages
<1>3. Busy(r)
  BY <1>1 DEF Busy, InFlight
<1>4. SameRuns
  BY <1>1, ServedRuns
<1>5. /\ calls'[<<r, i>>].pc = "done"
      /\ \A s \in Slots, j \in {1, 2} : s # r => calls'[<<s, j>>] = calls[<<s, j>>]
  BY <1>1, RequestFacts DEF Done, TypeOK
<1>6. \A s \in Slots : s # r => runs'[s] = runs[s]
  BY <1>1 DEF Served, TypeOK
<1>7. \A s \in Slots : s # r => runs[s].kind = "none" /\ runs'[s].kind = "none" /\ ~Busy(s)'
  BY <1>2, <1>3, <1>5, <1>6, AloneFacts
<1>8. Loads(r)' = Loads(r)
  BY <1>4 DEF SameRuns, Loads
<1>9. runs[r].kind # "none" =>
        /\ runs[r].pc = "calling" /\ runs[r].at \in 1..Len(Loads(r))
        /\ runs[r].kind # "route" => i = 1
  <2>1. runs[r].kind # "none" => runs[r].pc = "calling"
    BY <1>1 DEF Tidy, TidyRun, TypeOK, Run
  <2>2. runs[r].pc = "calling" => /\ runs[r].at \in 1..Len(Loads(r))
                                  /\ ~(i > Loads(r)[runs[r].at])
    BY <1>1 DEF Tidy, TidyRun
  <2>3. runs[r].kind # "route" /\ runs[r].at \in 1..Len(Loads(r)) => Loads(r)[runs[r].at] = 1
    BY LoadsFacts
  <2>. QED  BY <2>1, <2>2, <2>3
<1>10. CASE runs[r].kind \in {"none", "route"}
  <2>1. server' = server /\ runs'[r].kind = runs[r].kind
        /\ (runs[r].kind = "route" /\ runs[r].at = Len(Loads(r)) => runs'[r].value = server.data)
    <3>1. runs[r].kind \notin Writes
      BY <1>10 DEF Writes
    <3>2. UNCHANGED server /\ (runs[r].kind = "route" /\ runs[r].at = Len(Loads(r))
                               => runs' = [runs EXCEPT ![r].value = server.data])
      BY <1>1, <3>1 DEF Served
    <3>3. [runs[r] EXCEPT !.value = server.data].value = server.data
      BY DEF TypeOK, Run
    <3>. QED  BY <1>4, <3>2, <3>3 DEF SameRuns, TypeOK
  <2>2. OneListener'
    BY <1>1, <1>2, <1>4, <1>7, <1>8, <2>1 DEF OneListener, SameRuns
  <2>3. ~stale' => PageFollows'
    BY <1>1, <1>2, <1>4, <1>7, <1>8, <1>10, <2>1 DEF PageFollows, Loading, SameRuns
  <2>. QED  BY <2>2, <2>3
<1>11. CASE runs[r].kind \notin {"none", "route"}
  <2>1. runs' = runs
    BY <1>1, <1>11 DEF Served
  <2>2. OneListener'
    BY <1>1, <1>2, <1>7, <1>11, <2>1 DEF OneListener
  <2>3. i = 1 /\ calls[<<r, 1>>].pc # "done" /\ calls'[<<r, 1>>].pc = "done" /\ runs[r].pc = "calling"
    BY <1>1, <1>5, <1>9, <1>11
  <2>4. /\ runs[r].kind \in Writes /\ runs[r].at = 1 => server'.data = runs[r].value
        /\ ~(runs[r].kind \in Writes /\ runs[r].at = 1) => server' = server
    BY <1>1, <2>3 DEF Served, TypeOK, Server
  <2>5. ASSUME ~stale' PROVE Handling(r)'
    <3>1. Handling(r)
      BY <1>1, <1>2, <1>11, <2>5 DEF PageFollows
    <3>2. CASE runs[r].kind \in Writes /\ runs[r].at = 1
      BY <1>1, <2>1, <2>3, <2>4, <3>1, <3>2 DEF Handling
    <3>3. CASE ~(runs[r].kind \in Writes /\ runs[r].at = 1)
      BY <1>1, <2>1, <2>3, <2>4, <3>1, <3>3 DEF Handling, Writes
    <3>. QED  BY <3>2, <3>3
  <2>6. ~stale' => PageFollows'
    BY <1>7, <1>11, <2>1, <2>5 DEF PageFollows
  <2>. QED  BY <2>2, <2>6
<1>. QED  BY <1>10, <1>11

\* The server applies a write that nobody waits for: the page may be out of date.
LEMMA LateWritePages ==
    ASSUME Pages, NEW value \in BOOLEAN, LateWrite(value)
    PROVE  Pages'
<1>1. UNCHANGED <<ui, node, runs, calls, crossed>> /\ stale' = TRUE
  BY DEF LateWrite
<1>2. \A s \in Slots : Busy(s)' = Busy(s)
  BY <1>1 DEF Busy
<1>3. OneListener => OneListener'
  BY <1>1, <1>2 DEF OneListener
<1>. QED  BY <1>1, <1>3 DEF Pages

\* A run goes on to its next await.
LEMMA AwaitPages ==
    ASSUME TypeOK, Tidy, Pages, NEW r \in Slots, Await(r)
    PROVE  Pages'
<1>. SUFFICES ASSUME ~crossed' PROVE OneListener' /\ (~stale' => PageFollows')
  BY DEF Pages
<1>1. /\ UNCHANGED <<ui, server, crossed, stale>> /\ runs[r].pc = "calling" /\ runs[r] \in Run
      /\ runs[r].at \in 1..Len(Loads(r)) /\ runs[r].at < Len(Loads(r))
      /\ \A i \in 1..Loads(r)[runs[r].at] : calls[<<r, i>>].pc = "done"
  BY DEF Await, Answered, TypeOK, Tidy, TidyRun
<1>2. OneListener /\ (~stale => PageFollows)
  BY <1>1 DEF Pages
<1>3. Busy(r) /\ runs[r].kind # "none"
  BY <1>1 DEF Busy, Tidy, TidyRun
<1>4. PICK n \in Nat : n = Loads(r)[runs[r].at + 1]
  <2>1. runs[r].at + 1 \in 1..Len(Loads(r))
    BY <1>1, LoadsFacts
  <2>. QED  BY <2>1, LoadsFacts
<1>5. calls' = Sent(r, n, ui.store) /\ runs' = [runs EXCEPT ![r].at = @ + 1]
  BY <1>4 DEF Await
<1>6. /\ runs'[r].kind = runs[r].kind /\ runs'[r].view = runs[r].view /\ runs'[r].at = runs[r].at + 1
      /\ runs'[r].mine = runs[r].mine /\ runs'[r].value = runs[r].value
  BY <1>1, <1>5 DEF TypeOK, Run
<1>7. \A s \in Slots : s # r => runs'[s] = runs[s]
  BY <1>5 DEF TypeOK
<1>8. /\ \A s \in Slots, i \in {1, 2} : s # r => calls'[<<s, i>>] = calls[<<s, i>>]
  BY <1>5, SentCalls
<1>9. \A i \in {1, 2} : calls'[<<r, i>>].pc \in {"none", "sent"}
  BY <1>5, RequestFacts DEF Sent, NoCall
<1>10. \A s \in Slots : s # r => runs[s].kind = "none" /\ runs'[s].kind = "none" /\ ~Busy(s)'
  BY <1>2, <1>3, <1>7, <1>8, AloneFacts
<1>11. CASE runs[r].kind = "route"
  <2>1. node' = node
    BY <1>11 DEF Await
  <2>2. OneListener'
    BY <1>1, <1>2, <1>6, <1>9, <1>10, <1>11, <2>1 DEF OneListener
  <2>3. PageFollows'
    BY <1>6, <1>9, <1>10, <1>11 DEF PageFollows, Loading
  <2>. QED  BY <2>2, <2>3
<1>12. CASE runs[r].kind # "route"
  <2>1. runs[r].kind = "typed" /\ runs[r].at = 1 /\ Loads(r)[runs[r].at] = 1
    BY <1>1, <1>12, LoadsFacts
  <2>2. calls[<<r, 1>>].pc = "done" /\ runs[r].mine
    BY <1>1, <1>2, <1>3, <2>1 DEF OneListener
  <2>3. node' = [node EXCEPT !.data = runs[r].value]
    BY <2>1, <2>2 DEF Await
  <2>4. node'.drawn = node.drawn /\ node'.heard = node.heard /\ node'.data = runs[r].value
    BY <2>3 DEF TypeOK, Page
  <2>5. OneListener'
    BY <1>1, <1>2, <1>6, <1>10, <1>12, <2>4 DEF OneListener
  <2>6. ASSUME ~stale' PROVE PageFollows'
    <3>1. Handling(r)
      BY <1>1, <1>2, <1>3, <1>12, <2>6 DEF PageFollows
    <3>2. server.data = runs[r].value /\ node.drawn = ui.hash
      BY <2>1, <2>2, <3>1 DEF Handling, Writes
    <3>3. Handling(r)'
      BY <1>1, <1>6, <2>1, <2>4, <3>2 DEF Handling
    <3>. QED  BY <1>3, <1>6, <1>10, <1>12, <3>3 DEF PageFollows
  <2>. QED  BY <2>5, <2>6
<1>. QED  BY <1>11, <1>12

\* A view is drawn.
LEMMA DrawPages ==
    ASSUME TypeOK, Tidy, Pages, NEW r \in Slots, Draw(r)
    PROVE  Pages'
<1>. SUFFICES ASSUME ~crossed' PROVE OneListener' /\ (~stale' => PageFollows')
  BY DEF Pages
<1>1. /\ UNCHANGED <<ui, server, crossed, stale>> /\ runs[r].pc = "calling" /\ runs[r].kind = "route"
      /\ runs[r] \in Run /\ runs' = [runs EXCEPT ![r] = NoRun] /\ calls' = Sent(r, 0, 0)
      /\ node' = [drawn |-> runs[r].view, heard |-> Append(node.heard, runs[r].view), data |-> runs[r].value]
      /\ runs[r].at = Len(Loads(r)) /\ \A i \in 1..Loads(r)[runs[r].at] : calls[<<r, i>>].pc = "done"
  BY DEF Draw, Answered, TypeOK
<1>2. OneListener /\ (~stale => PageFollows)
  BY <1>1 DEF Pages
<1>3. Busy(r)
  BY <1>1 DEF Busy
<1>4. \A s \in Slots : s # r => runs'[s] = runs[s]
  BY <1>1 DEF TypeOK
<1>5. \A s \in Slots, i \in {1, 2} : s # r => calls'[<<s, i>>] = calls[<<s, i>>]
  BY <1>1, SentCalls
<1>6. \A s \in Slots : s # r => runs[s].kind = "none" /\ runs'[s].kind = "none" /\ ~Busy(s)'
  BY <1>2, <1>3, <1>4, <1>5, AloneFacts
<1>7. runs'[r].kind = "none"
  BY <1>1 DEF NoRun, TypeOK
<1>8. calls[<<r, 1>>].pc = "done"
  <2>1. runs[r].at \in 1..Len(Loads(r))
    BY <1>1 DEF Tidy, TidyRun
  <2>2. Loads(r)[runs[r].at] \in {1, 2}
    BY <2>1, LoadsFacts
  <2>. QED  BY <1>1, <2>2
<1>9. node.heard = <<>> /\ runs[r].view = ui.hash
  BY <1>1, <1>2 DEF OneListener
<1>10. node'.drawn = ui.hash /\ node'.heard = <<ui.hash>>
  BY <1>1, <1>9
<1>11. OneListener'
  BY <1>1, <1>6, <1>7, <1>10 DEF OneListener
<1>12. ASSUME ~stale' PROVE PageFollows'
  <2>1. node'.data = server.data
    BY <1>1, <1>2, <1>8, <1>12 DEF PageFollows, Loading
  <2>. QED  BY <1>1, <1>6, <1>7, <1>10, <2>1 DEF PageFollows
<1>. QED  BY <1>11, <1>12

\* A handler is done, or its request failed.
LEMMA HandlerPages ==
    ASSUME TypeOK, Tidy, Tidy', Pages, NEW r \in Slots, NEW ok \in BOOLEAN, HandlerEnds(r, ok)
    PROVE  Pages'
<1>1. /\ UNCHANGED <<ui, server>> /\ runs[r].pc = "calling" /\ runs[r].kind # "route" /\ runs[r] \in Run
      /\ ok => Answered(r) /\ runs[r].at = Len(Loads(r))
      /\ ~ok => calls[<<r, 1>>].pc = "failed"
  BY DEF HandlerEnds, TypeOK
<1>2. \A i \in {1, 2} : calls[<<r, i>>].pc \notin InFlight
  BY <1>1, AnsweredFacts
<1>3. CASE Redraws(runs[r].kind, ok)
  <2>1. Route(r, ui.hash, ui.store)
    BY <1>3 DEF HandlerEnds
  <2>. QED  BY <1>1, <1>2, <2>1, TabFacts, RoutePages
<1>4. CASE ~Redraws(runs[r].kind, ok)
  <2>. SUFFICES ASSUME ~crossed' PROVE OneListener' /\ (~stale' => PageFollows')
    BY DEF Pages
  <2>1. runs' = [runs EXCEPT ![r] = NoRun] /\ calls' = Sent(r, 0, 0) /\ UNCHANGED <<node, crossed, stale>>
    BY <1>4 DEF HandlerEnds
  <2>2. OneListener /\ (~stale => PageFollows)
    BY <2>1 DEF Pages
  <2>3. Busy(r) /\ runs[r].kind # "none" /\ runs[r].at \in 1..Len(Loads(r))
    BY <1>1 DEF Busy, Tidy, TidyRun
  <2>4. \A s \in Slots : s # r => runs'[s] = runs[s]
    BY <2>1 DEF TypeOK
  <2>5. \A s \in Slots, i \in {1, 2} : s # r => calls'[<<s, i>>] = calls[<<s, i>>]
    BY <2>1, SentCalls
  <2>6. \A s \in Slots : s # r => runs[s].kind = "none" /\ runs'[s].kind = "none" /\ ~Busy(s)'
    BY <2>2, <2>3, <2>4, <2>5, AloneFacts
  <2>7. runs'[r].kind = "none"
    BY <2>1 DEF NoRun, TypeOK
  <2>8. OneListener'
    BY <1>1, <2>1, <2>2, <2>6, <2>7 DEF OneListener
  <2>9. ASSUME ~stale' PROVE PageFollows'
    <3>1. Handling(r)
      BY <1>1, <2>1, <2>2, <2>3, <2>9 DEF PageFollows
    <3>2. node.data = server.data
      <4>1. CASE ok
        <5>1. runs[r].kind # "redraw" /\ runs[r].at = IF runs[r].kind = "typed" THEN 2 ELSE 1
          BY <1>1, <1>4, <4>1, LoadsFacts DEF Redraws
        <5>2. calls[<<r, 1>>].pc = "done"
          BY <1>1, <2>3, <4>1, LoadsFacts DEF Answered
        <5>. QED  BY <1>1, <2>3, <3>1, <5>1, <5>2 DEF Handling, Writes, Run
      <4>2. CASE ~ok
        BY <1>1, <1>4, <3>1, <4>2 DEF Handling, Redraws
      <4>. QED  BY <4>1, <4>2
    <3>. QED  BY <1>1, <2>1, <2>6, <2>7, <3>1, <3>2 DEF PageFollows, Handling
  <2>. QED  BY <2>8, <2>9
<1>. QED  BY <1>3, <1>4

\* A load failed: the error is on the page.
LEMMA RenderFailsPages ==
    ASSUME TypeOK, Tidy, Pages, NEW r \in Slots, RenderFails(r)
    PROVE  Pages'
<1>. SUFFICES ASSUME ~crossed' PROVE OneListener' /\ (~stale' => PageFollows')
  BY DEF Pages
<1>1. /\ UNCHANGED <<ui, server, crossed, stale>> /\ runs[r].pc = "calling" /\ runs[r].kind = "route"
      /\ runs' = [runs EXCEPT ![r] = NoRun]
      /\ node' = IF runs[r].mine THEN [node EXCEPT !.drawn = "error", !.data = FALSE] ELSE node
  BY DEF RenderFails
<1>2. OneListener
  BY <1>1 DEF Pages
<1>3. Busy(r)
  BY <1>1 DEF Busy
<1>4. \A s \in Slots : s # r => runs'[s] = runs[s]
  BY <1>1 DEF TypeOK
<1>5. \A s \in Slots, i \in {1, 2} : s # r => calls'[<<s, i>>] = calls[<<s, i>>]
  BY RequestFacts DEF RenderFails
<1>6. \A s \in Slots : s # r => runs[s].kind = "none" /\ runs'[s].kind = "none" /\ ~Busy(s)'
  BY <1>2, <1>3, <1>4, <1>5, AloneFacts
<1>7. runs'[r].kind = "none"
  BY <1>1 DEF NoRun, TypeOK
<1>8. node' = [node EXCEPT !.drawn = "error", !.data = FALSE] /\ node.heard = <<>>
  BY <1>1, <1>2 DEF OneListener
<1>9. node'.drawn = "error" /\ node'.heard = <<>>
  <2>1. [node EXCEPT !.drawn = "error"] \in Page /\ [node EXCEPT !.drawn = "error"].drawn = "error"
        /\ [node EXCEPT !.drawn = "error"].heard = node.heard
    BY DEF TypeOK, Page
  <2>2. \A x \in Page : [x EXCEPT !.data = FALSE].drawn = x.drawn /\ [x EXCEPT !.data = FALSE].heard = x.heard
    BY DEF Page
  <2>. QED  BY <1>8, <2>1, <2>2
<1>10. OneListener'
  BY <1>1, <1>6, <1>7, <1>9, NamesFacts DEF OneListener
<1>11. PageFollows'
  BY <1>6, <1>7, <1>9, NamesFacts DEF PageFollows
<1>. QED  BY <1>10, <1>11
\* Every step keeps the page of a console in which one thing happens at a time.
LEMMA PagesKept == TypeOK /\ Tidy /\ Tidy' /\ Pages /\ [Next]_vars => Pages'
<1>. SUFFICES ASSUME TypeOK, Tidy, Tidy', Pages, [Next]_vars PROVE Pages'
  OBVIOUS
<1>. ui.hash \in Names /\ ui.store \in 0..MaxPairs /\ Menu \subseteq Names
  BY TabFacts, ConsoleAssumption DEF ConsoleAssumption
<1>1. ASSUME NEW r \in Slots, r \in Free PROVE \A i \in {1, 2} : calls[<<r, i>>].pc \notin InFlight
  BY <1>1, FreeFacts DEF Free
<1>2. ASSUME NEW r \in Slots, NEW n \in Pairs, SignInAnswered(r, n) PROVE Pages'
  <2>1. r \in Free /\ Route(r, ui.hash, n) /\ n \in 0..MaxPairs
    BY <1>2 DEF SignInAnswered, Pairs
  <2>2. ui'.hash = ui.hash
    <3>1. ui \in Tab /\ ui' = [ui EXCEPT !.shown = "app", !.store = n]
      BY <1>2, <2>1 DEF SignInAnswered, TypeOK
    <3>. QED  BY <2>1, <3>1, NewTab
  <2>. QED  BY <1>1, <2>1, <2>2, RoutePages
<1>3. ASSUME NEW r \in Slots, NEW view \in Menu, Navigate(r, view) PROVE Pages'
  <2>1. r \in Free /\ Route(r, view, ui.store) /\ ui' = [ui EXCEPT !.hash = view]
    BY <1>3 DEF Navigate
  <2>2. ui'.hash = view
    BY <2>1 DEF TypeOK, Tab
  <2>. QED  BY <1>1, <2>1, <2>2, RoutePages
<1>4. ASSUME NEW r \in Slots, Confirm(r) \/ Reload(r) \/ Await(r) \/ Draw(r) \/ RenderFails(r) PROVE Pages'
  BY <1>4, ConfirmPages, ReloadPages, AwaitPages, DrawPages, RenderFailsPages
<1>5. ASSUME NEW r \in Slots, NEW ok \in BOOLEAN, HandlerEnds(r, ok) PROVE Pages'
  BY <1>5, HandlerPages
<1>6. ASSUME node.drawn \in Names, NEW R \in SUBSET Slots, NEW act \in VIEWS[node.drawn].acts, Click(R, act)
      PROVE  Pages'
  BY <1>6, ClickPages
<1>7. ASSUME NEW r \in Slots, NEW i \in {1, 2}, Answer(r, i) PROVE Pages'
  BY <1>7, AnswerPages
<1>8. ASSUME NEW r \in Slots, NEW i \in {1, 2},
             \/ Unauthorized(r, i) \/ RefreshRead(r, i) \/ RefreshWrite(r, i) \/ Refreshed(r, i) \/ Refused(r, i)
             \/ ExchangeFails(r, i) \/ CallFails(r, i)
      PROVE  Pages'
  <2>1. /\ UNCHANGED <<node, runs, crossed, stale>> /\ calls[<<r, i>>].pc \in InFlight
    BY <1>8 DEF Unauthorized, RefreshRead, RefreshWrite, Refreshed, Refused, ExchangeFails, CallFails,
                 InFlight
  <2>2. server'.data = server.data
    BY <1>8 DEF Unauthorized, RefreshRead, Replayed, RefreshWrite, Rotate, Refreshed, Refused, ExchangeFails, CallFails,
                 TypeOK, Server
  <2>3. ShownLogin.hash = ui.hash
    BY LoginShown
  <2>4. ui'.hash = ui.hash
    BY <1>8, <2>3 DEF Unauthorized, RefreshRead, RefreshWrite, Refreshed, Refused, ExchangeFails, CallFails, TypeOK, Tab
  <2>5. \E c : calls' = [calls EXCEPT ![<<r, i>>] = c] /\ c.pc # "done"
    <3>1. CASE Unauthorized(r, i)
      <4>1. \/ calls' = [calls EXCEPT ![<<r, i>>] = Failed]
            \/ calls' = [calls EXCEPT ![<<r, i>>] = [pc |-> "refresh", tok |-> Exchanged(<<r, i>>)]]
        BY <3>1 DEF Unauthorized
      <4>2. Failed.pc # "done" /\ [pc |-> "refresh", tok |-> Exchanged(<<r, i>>)].pc # "done"
        BY DEF Failed
      <4>. QED  BY <4>1, <4>2
    <3>2. CASE RefreshRead(r, i)
      <4>1. PICK c : c = IF calls[<<r, i>>].tok \in server.alive THEN [pc |-> "rotate", tok |-> calls[<<r, i>>].tok]
                         ELSE [pc |-> "refused", tok |-> 0]
        OBVIOUS
      <4>2. calls' = [calls EXCEPT ![<<r, i>>] = c]
        BY <3>2, <4>1 DEF RefreshRead
      <4>3. c.pc # "done"
        BY <4>1
      <4>. QED  BY <4>2, <4>3
    <3>3. CASE RefreshWrite(r, i)
      <4>1. calls' = [calls EXCEPT ![<<r, i>>] = [pc |-> "pair", tok |-> issued + 1]]
        BY <3>3 DEF RefreshWrite
      <4>2. [pc |-> "pair", tok |-> issued + 1].pc # "done"
        OBVIOUS
      <4>. QED  BY <4>1, <4>2
    <3>4. CASE Refreshed(r, i)
      <4>1. calls' = [calls EXCEPT ![<<r, i>>] = [calls[<<r, i>>] EXCEPT !.pc = "retry"]]
        BY <3>4 DEF Refreshed
      <4>2. calls[<<r, i>>] \in Call
        BY RequestFacts DEF TypeOK
      <4>3. [calls[<<r, i>>] EXCEPT !.pc = "retry"].pc = "retry"
        BY <4>2 DEF Call
      <4>. QED  BY <4>1, <4>3
    <3>5. CASE Refused(r, i) \/ ExchangeFails(r, i) \/ CallFails(r, i)
      <4>1. calls' = [calls EXCEPT ![<<r, i>>] = Failed]
        BY <3>5 DEF Refused, ExchangeFails, CallFails
      <4>2. Failed.pc # "done"
        BY DEF Failed
      <4>. QED  BY <4>1, <4>2
    <3>. QED  BY <1>8, <3>1, <3>2, <3>3, <3>4, <3>5
  <2>. QED  BY <2>1, <2>2, <2>4, <2>5, CallPages
<1>9. ASSUME \/ SignIn \/ SignInFails \/ Logout \/ Revoke \/ UNCHANGED vars
             \/ \E n \in Pairs : LogoutDone(n) \/ LateExchange(n) \/ Expire(n)
      PROVE  Pages'
  <2>1. UNCHANGED <<node, runs, calls, crossed, stale>>
    BY <1>9 DEF SignIn, SignInFails, Logout, LogoutDone, Revoke, LateExchange, Expire, vars
  <2>2. server'.data = server.data
    BY <1>9 DEF SignIn, SignInFails, Issue, Logout, LogoutDone, Revoke, LateExchange, Rotate, Replayed, Expire, vars,
                 TypeOK, Server
  <2>3. ui' = ui \/ ui' = ShownLogin
    BY <1>9 DEF SignIn, SignInFails, Logout, LogoutDone, Revoke, LateExchange, Expire, vars
  <2>4. ShownLogin.hash = ui.hash
    BY LoginShown
  <2>5. ui'.hash = ui.hash
    BY <2>3, <2>4
  <2>6. \A s \in Slots : Busy(s)' => Busy(s)
    BY <2>1 DEF Busy
  <2>. QED  BY <2>1, <2>2, <2>5, <2>6, QuietPages
<1>10. ASSUME NEW value \in BOOLEAN, LateWrite(value) PROVE Pages'
  BY <1>10, LateWritePages
<1>. QED  BY <1>2, <1>3, <1>4, <1>5, <1>6, <1>7, <1>8, <1>9, <1>10 DEF Next

-----------------------------------------------------------------------------
(* The theorems.                                                            *)

\* A tab that opens is in order.
LEMMA InitIInv == Init => IInv
<1>. SUFFICES ASSUME Init PROVE IInv
  OBVIOUS
<1>. MaxPairs \in Nat /\ MaxStarts \in Nat /\ MaxFaults \in Nat
  BY ConsoleAssumption DEF ConsoleAssumption
<1>1. /\ ui.shown = "login" /\ ui.store = 0 /\ ui.hash \in Names /\ ui \in Tab
      /\ node = [drawn |-> "loading", heard |-> <<>>, data |-> FALSE]
      /\ server = [alive |-> {}, valid |-> {}, data |-> FALSE]
      /\ logouts = [n \in Pairs |-> 0] /\ issued = 0
  BY DEF Init, Tab
<1>2. (\A r \in Slots : runs[r] = NoRun) /\ (\A q \in Requests : calls[q] = NoCall)
  BY DEF Init
<1>3. node \in Page /\ server \in Server
  BY <1>1 DEF Page, Server
<1>4. runs \in [Slots -> Run] /\ calls \in [Requests -> Call]
  BY NoneTypes DEF Init
<1>5. TypeOK
  <2>1. crossed = FALSE /\ stale = FALSE /\ forked = FALSE /\ loose = {}
    BY DEF Init
  <2>2. issued = 0 /\ starts = 0 /\ faults = 0 /\ signins = 0 /\ late \in Late
    BY DEF Init, Late
  <2>3. issued \in 0..MaxPairs /\ starts \in 0..MaxStarts /\ faults \in 0..MaxFaults
    BY <2>2
  <2>4. logouts \in [Pairs -> Nat]
    BY <1>1
  <2>. QED  BY <1>1, <1>3, <1>4, <2>1, <2>2, <2>3, <2>4 DEF TypeOK
<1>6. Exchanging = {} /\ RetriesAreValid
  BY <1>2 DEF Exchanging, RetriesAreValid, NoCall
<1>7. Tokens
  BY <1>1, <1>6 DEF Tokens, PairsIssued, OneExchange, OneAlive
<1>8. Tidy
  BY <1>2 DEF Tidy, TidyRun, NoRun
<1>9. \A r \in Slots : ~Busy(r) /\ runs[r].kind = "none"
  <2>1. SUFFICES ASSUME NEW r \in Slots PROVE ~Busy(r) /\ runs[r].kind = "none"
    OBVIOUS
  <2>2. runs[r].pc = "idle" /\ runs[r].kind = "none"
    BY <1>2 DEF NoRun
  <2>3. \A q \in Requests : calls[q].pc = "none"
    BY <1>2 DEF NoCall
  <2>4. \A i \in {1, 2} : <<r, i>> \in Requests
    BY RequestFacts
  <2>5. \A i \in {1, 2} : calls[<<r, i>>].pc = "none"
    BY <2>3, <2>4
  <2>. QED  BY <2>2, <2>5 DEF Busy, InFlight
<1>10. OneListener /\ PageFollows
  <2>1. node.drawn = "loading" /\ node.heard = <<>>
    BY <1>1
  <2>2. OneListener
    BY <1>9, <2>1, NamesFacts DEF OneListener
  <2>3. PageFollows
    BY <1>9, <2>1, NamesFacts DEF PageFollows
  <2>. QED  BY <2>2, <2>3
<1>. QED  BY <1>5, <1>7, <1>8, <1>10 DEF IInv, Pages

\* The invariant is inductive.
LEMMA IInvKept == IInv /\ [Next]_vars => IInv'
<1>. SUFFICES ASSUME IInv, [Next]_vars PROVE IInv'
  OBVIOUS
<1>1. TypeOK /\ Tidy /\ Tokens /\ Pages /\ RetriesAreValid
  BY DEF IInv, Tokens
<1>2. TypeOK'
  BY <1>1, TypesKept
<1>3. Tidy'
  BY <1>1, TidyKept
<1>4. Tokens'
  BY <1>1, TokensKept
<1>5. Pages'
  BY <1>1, <1>3, PagesKept
<1>. QED  BY <1>2, <1>3, <1>4, <1>5 DEF IInv

\* Runs and requests are in order, the tab and the server agree on the tokens,
\* and the page follows the data (admin-ui.js: api, route and the handlers).
THEOREM ConsoleInvariant == Spec => []IInv
<1>. QED  BY InitIInv, IInvKept, PTL DEF Spec

\* With nothing under way, the page is the view of the hash and shows what the
\* server holds.
LEMMA PageHolds == IInv => ConsoleInv
<1>. SUFFICES ASSUME IInv, ui.shown = "app", Free = Slots, ~crossed, ~stale, node.drawn \in Names
              PROVE  node.drawn = ui.hash /\ node.data = server.data
  BY DEF ConsoleInv, PageIsTrue, IInv
<1>1. PageFollows
  BY DEF IInv, Pages
<1>2. \A r \in Slots : runs[r].kind = "none"
  BY FreeFacts DEF Free, IInv
<1>. QED  BY <1>1, <1>2 DEF PageFollows

\* Every state is well typed, and a page at rest shows the view of the hash with
\* the server's data, also after a write that failed half way in an edit (the
\* handlers of each view and their redraws), unless runs overlapped.
THEOREM PagesAreTrue == Spec => []ConsoleInv
<1>. QED  BY ConsoleInvariant, PageHolds, PTL

\* With the login page shown and no request in flight, no pair is left that the
\* tab did not let go of.
LEMMA SignedOutHolds == IInv => SignedOut
<1>. SUFFICES ASSUME IInv, ui.shown = "login", ~forked
              PROVE  ui.store = 0 /\ server.alive \subseteq loose
  BY DEF SignedOut
<1>1. OneExchange /\ OneAlive /\ TypeOK
  BY DEF IInv, Tokens
<1>2. ui.store = 0
  BY <1>1 DEF OneExchange
<1>3. Exchanging = {}
  BY <1>1, <1>2 DEF OneExchange
<1>4. server.alive \subseteq loose \cup {0}
  BY <1>1, <1>2, <1>3 DEF OneAlive
<1>5. server.alive \subseteq Pairs
  BY <1>1 DEF TypeOK, Server
<1>. QED  BY <1>2, <1>4, <1>5 DEF Pairs

\* Signing out is final (showLogin, clearSession, and logout() of
\* auth.service.ts).
THEOREM SigningOutIsFinal == Spec => []SignedOut
<1>. QED  BY ConsoleInvariant, SignedOutHolds, PTL

\* Who replaces the console by the login page.
LEMMA SurvivesStep ==
    ASSUME IInv, [Next]_vars, ui.shown = "app", ui'.shown = "login", logouts' = logouts
    PROVE  \/ ui.store \notin server.alive \/ forked
           \/ \E q \in Exchanging : calls[q].pc \in {"refresh", "pair"} /\ calls'[q].pc = "failed"
<1>. SUFFICES ASSUME ~forked
              PROVE  \/ ui.store \notin server.alive
                     \/ \E q \in Exchanging : calls[q].pc \in {"refresh", "pair"} /\ calls'[q].pc = "failed"
  OBVIOUS
<1>1. OneExchange /\ OneAlive /\ RetriesAreValid /\ TypeOK
  BY DEF IInv, Tokens
<1>2. ui.store # 0
  BY <1>1 DEF OneExchange
<1>3. ASSUME NEW r \in Slots, NEW i \in {1, 2}, Refused(r, i) PROVE ui.store \notin server.alive
  <2>1. <<r, i>> \in Exchanging /\ calls[<<r, i>>].pc = "refused"
    BY <1>3, RequestFacts DEF Refused, Exchanging
  <2>. QED  BY <1>1, <2>1 DEF OneAlive
<1>4. ASSUME NEW r \in Slots, NEW i \in {1, 2}, Unauthorized(r, i) PROVE FALSE
  <2>1. ui' = ui \/ ~(calls[<<r, i>>].pc = "sent" /\ ui.store # 0)
    BY <1>4 DEF Unauthorized
  <2>2. calls[<<r, i>>].pc # "retry"
    BY <1>1, <1>4, RequestFacts DEF Unauthorized, RetriesAreValid
  <2>. QED  BY <1>2, <1>4, <2>1, <2>2 DEF Unauthorized
<1>5. ASSUME NEW r \in Slots, NEW i \in {1, 2}, ExchangeFails(r, i)
      PROVE  \E q \in Exchanging : calls[q].pc \in {"refresh", "pair"} /\ calls'[q].pc = "failed"
  <2>1. calls' = [calls EXCEPT ![<<r, i>>] = Failed] /\ calls[<<r, i>>].pc \in {"refresh", "pair"}
    BY <1>5 DEF ExchangeFails
  <2>2. <<r, i>> \in Exchanging /\ calls'[<<r, i>>].pc = "failed"
    BY <1>1, <2>1, RequestFacts DEF Exchanging, TypeOK, Failed
  <2>. QED  BY <2>1, <2>2
<1>6. ASSUME NEW r \in Slots, Reload(r) PROVE FALSE
  BY <1>1, <1>2, <1>6 DEF Reload, TypeOK, Tab
<1>7. ASSUME NEW r \in Slots, NEW view, Navigate(r, view) PROVE FALSE
  BY <1>1, <1>7 DEF Navigate, TypeOK, Tab
<1>8. ASSUME NEW r \in Slots, NEW i \in {1, 2}, Refreshed(r, i) PROVE FALSE
  BY <1>1, <1>8 DEF Refreshed, TypeOK, Tab
<1>9. ASSUME NEW r \in Slots, NEW n \in Pairs, SignInAnswered(r, n) PROVE FALSE
  <2>1. n \in 0..MaxPairs /\ ui \in Tab /\ ui' = [ui EXCEPT !.shown = "app", !.store = n]
    BY <1>1, <1>9 DEF SignInAnswered, TypeOK, Pairs
  <2>. QED  BY <2>1, NewTab
<1>10. ASSUME NEW n \in Pairs, LogoutDone(n) PROVE FALSE
  <2>1. logouts[n] \in Nat /\ logouts' = [logouts EXCEPT ![n] = @ - 1]
    BY <1>1, <1>10 DEF LogoutDone, TypeOK
  <2>2. logouts'[n] = logouts[n] - 1
    BY <1>1, <2>1 DEF TypeOK
  <2>. QED  BY <2>1, <2>2
<1>11. ASSUME UNCHANGED ui PROVE FALSE
  BY <1>11
<1>. QED
  BY <1>3, <1>4, <1>5, <1>6, <1>7, <1>8, <1>9, <1>10, <1>11
     DEF Next, Confirm, Await, Draw, RenderFails, HandlerEnds, Click, Answer, RefreshRead, RefreshWrite, CallFails,
         SignIn, SignInFails, Logout, Revoke, LateWrite, LateExchange, Expire, vars

\* A request that meets an expired access token, and whose exchange is served,
\* does not end a session that is alive (api() and its one exchange of the
\* refresh token).
THEOREM SessionsOutliveTokens == Spec => SessionsSurvive
<1>1. IInv /\ [Next]_vars =>
        [ui.shown = "app" /\ ui'.shown = "login" /\ logouts' = logouts =>
           \/ ui.store \notin server.alive \/ forked
           \/ \E q \in Exchanging : calls[q].pc \in {"refresh", "pair"} /\ calls'[q].pc = "failed"]_vars
  BY SurvivesStep
<1>. QED  BY <1>1, ConsoleInvariant, PTL DEF Spec, SessionsSurvive

\* What a step makes of runs that are none.
LEMMA StartsOnce ==
    ASSUME IInv, [Next]_vars, ~crossed
    PROVE  Cardinality({r \in Slots : runs[r].kind = "none" /\ runs'[r].kind \notin {"none", "route"}}) <= 1
<1>. DEFINE S == {r \in Slots : runs[r].kind = "none" /\ runs'[r].kind \notin {"none", "route"}}
<1>1. TypeOK /\ Tidy /\ OneListener
  BY DEF IInv, Pages
<1>2. ASSUME S = {} PROVE Cardinality(S) <= 1
  BY <1>2, FS_EmptySet
<1>3. ASSUME NEW R \in SUBSET Slots, NEW act, Click(R, act) PROVE Cardinality(S) <= 1
  <2>1. IsFiniteSet(R) /\ Cardinality(R) <= 1
    BY <1>1, <1>3, HeardOnce DEF OneListener
  <2>2. S \subseteq R
    BY <1>3 DEF Click
  <2>3. Cardinality(S) <= Cardinality(R) /\ Cardinality(S) \in Nat /\ Cardinality(R) \in Nat
    BY <2>1, <2>2, FS_Subset, FS_CardinalityType
  <2>. QED  BY <2>1, <2>3
<1>4. ASSUME NEW r \in Slots, NEW view, NEW pair, Route(r, view, pair) PROVE S = {}
  <2>1. \A s \in Slots : runs[s] \in Run
    BY <1>1 DEF TypeOK
  <2>2. \A s \in Slots : s # r => runs'[s] = [runs[s] EXCEPT !.mine = FALSE]
    BY <1>4 DEF Route
  <2>3. \A s \in Slots : s # r => runs'[s].kind = runs[s].kind
    BY <2>1, <2>2 DEF Run
  <2>4. runs'[r].kind = "route"
    BY <1>4 DEF Route, Rendering
  <2>. QED  BY <2>3, <2>4
<1>5. ASSUME NEW r \in Slots, Reload(r) PROVE S = {}
  BY <1>5 DEF Reload, NoRun, Rendering
<1>6. ASSUME NEW r \in Slots, NEW i \in {1, 2}, Answer(r, i) PROVE S = {}
  <2>1. UNCHANGED runs \/ Served(r)
    BY <1>6 DEF Answer
  <2>2. SameRuns
    BY <1>1, <2>1, ServedRuns DEF SameRuns
  <2>. QED  BY <2>2 DEF SameRuns
<1>7. ASSUME NEW r \in Slots, Confirm(r) PROVE S = {}
  <2>1. runs[r].kind # "none" /\ runs[r].pc = "asking"
    BY <1>1, <1>7 DEF Confirm, Tidy, TidyRun
  <2>2. \A s \in Slots : s # r => runs'[s] = runs[s]
    BY <1>1, <1>7 DEF Confirm, TypeOK
  <2>. QED  BY <2>1, <2>2
<1>8. ASSUME NEW r \in Slots, Await(r) PROVE S = {}
  <2>1. runs[r].kind # "none"
    BY <1>1, <1>8 DEF Await, Answered, Tidy, TidyRun
  <2>2. \A s \in Slots : s # r => runs'[s] = runs[s]
    BY <1>1, <1>8 DEF Await, TypeOK
  <2>. QED  BY <2>1, <2>2
<1>9. ASSUME NEW r \in Slots, runs' = [runs EXCEPT ![r] = NoRun] PROVE S = {}
  BY <1>1, <1>9 DEF TypeOK, NoRun
<1>10. ASSUME UNCHANGED runs PROVE S = {}
  BY <1>10
<1>11. ASSUME NEW r \in Slots, (\E n \in Pairs : SignInAnswered(r, n)) \/ \E view \in Menu : Navigate(r, view)
       PROVE  S = {}
  BY <1>4, <1>11 DEF SignInAnswered, Navigate
<1>12. ASSUME NEW r \in Slots, NEW ok \in BOOLEAN, HandlerEnds(r, ok) PROVE S = {}
  BY <1>4, <1>9, <1>12 DEF HandlerEnds
<1>13. ASSUME NEW r \in Slots, Draw(r) \/ RenderFails(r) PROVE S = {}
  BY <1>9, <1>13 DEF Draw, RenderFails
<1>14. ASSUME NEW r \in Slots, NEW i \in {1, 2},
              \/ Unauthorized(r, i) \/ RefreshRead(r, i) \/ RefreshWrite(r, i) \/ Refreshed(r, i) \/ Refused(r, i)
              \/ ExchangeFails(r, i) \/ CallFails(r, i)
       PROVE  S = {}
  BY <1>10, <1>14 DEF Unauthorized, RefreshRead, RefreshWrite, Refreshed, Refused, ExchangeFails, CallFails
<1>15. ASSUME \/ SignIn \/ SignInFails \/ Logout \/ Revoke \/ UNCHANGED vars
              \/ \E n \in Pairs : LogoutDone(n) \/ LateExchange(n) \/ Expire(n)
              \/ \E value \in BOOLEAN : LateWrite(value)
       PROVE  S = {}
  BY <1>10, <1>15 DEF SignIn, SignInFails, Logout, LogoutDone, Revoke, LateExchange, LateWrite, Expire, vars
<1>. HIDE DEF S
<1>16. S = {} \/ \E R \in SUBSET Slots : \E act : Click(R, act)
  BY <1>5, <1>6, <1>7, <1>8, <1>11, <1>12, <1>13, <1>14, <1>15 DEF Next
<1>17. Cardinality(S) <= 1
  BY <1>2, <1>3, <1>16
<1>. QED  BY <1>17 DEF S

\* One click is one action, however often the views were drawn before: the
\* content node is replaced with its listeners (route and $("#content")).
THEOREM ClicksAreHeardOnce == Spec => ClicksActOnce
<1>1. IInv /\ [Next]_vars =>
        [crossed \/ Cardinality({r \in Slots : runs[r].kind = "none" /\ runs'[r].kind \notin {"none", "route"}}) <= 1]_vars
  BY StartsOnce
<1>. QED  BY <1>1, ConsoleInvariant, PTL DEF Spec, ClicksActOnce
===============================================================================
