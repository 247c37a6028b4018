------------------------------- MODULE Console -------------------------------
(***************************************************************************)
(* The admin console in the browser (src/platform/src/admin-ui/static/     *)
(* admin-ui.js): one page, one thread, several requests in flight.  api()  *)
(* exchanges the refresh token when a request is answered 401 and tries    *)
(* again; route() draws a view when its loads are answered; handlers ask,  *)
(* call the API and draw again.                                            *)
(*                                                                         *)
(* A run is a render or a handler that is under way, with the requests of  *)
(* its current await.  The data behind every view is one bit of the        *)
(* server's, and the page shows the bit it was drawn with.  Pairs of       *)
(* access and refresh tokens are numbered; 0 is none.  The platform's API  *)
(* is external, modelled from auth.service.ts.                             *)
(***************************************************************************)
EXTENDS Integers, Sequences, FiniteSets

CONSTANTS
    Slots,       \* runs under way at a time
    Menu,        \* bound: views navigated to, from the one the tab opened with
    MaxPairs,    \* bound: token pairs issued
    MaxStarts,   \* bound: clicks, navigations, sign-ins, sign-outs and reloads
    MaxFaults    \* bound: expiries, failed requests and ends of sessions

VARIABLES
    ui,       \* the view shown, the hash, and the pair in S and sessionStorage
    node,     \* the content node: what is drawn, its listeners, the data shown
    runs, calls,
    server,   \* refresh tokens alive, access tokens valid, the data
    signins,  \* sign-ins in flight; a form submitted twice sends two
    logouts,  \* sign-outs in flight, by the pair they present
    late,     \* requests the tab no longer waits for and the server may serve
    issued, starts, faults,
    crossed,  \* history: runs overlapped since the last render that ran alone
    stale,    \* history: a write was applied and never answered, since then
    forked,   \* history: exchanges, sign-outs or a sign-in overlapped
    loose     \* history: pairs the tab let go of, or never held, unrevoked

vars == <<ui, node, runs, calls, server, signins, logouts, late, issued, starts, faults, crossed, stale, forked, loose>>

-----------------------------------------------------------------------------
(* The views.  loads: how many requests each await of a render sends.       *)
(* acts: what its handlers do.  ask: dialogs to answer.  kind: "redraw"     *)
(* writes and draws the view again; "look" shows no change on the page;     *)
(* "direct" is a look that bypasses api(); "edit" has changed the page      *)
(* before it writes, and draws the view again if that fails; "typed" writes *)
(* what the form holds and reloads the list behind the page.  own: the      *)
(* listener is on an element of its own, not on the content node.           *)

Act(ask, kind, own) == [ask |-> ask, kind |-> kind, own |-> own]

\* newTenantModal; the modals outlive the view that opened them.
NewTenant == Act(0, "redraw", TRUE)

\* Restore, activate, suspend and rename; delete; purge; export.
Tenants ==
    [loads |-> <<1>>,
     acts |-> {NewTenant, Act(0, "redraw", FALSE), Act(1, "redraw", FALSE), Act(2, "redraw", FALSE),
               Act(0, "look", FALSE)}]

EditUser == Act(0, "redraw", TRUE)

\* The password policy is checked before the request, next to the field.
NewUser == Act(0, "redraw", TRUE)
SetPassword == Act(0, "look", TRUE)

\* Restore; delete; purge; the role dropdowns, which put the whole set.
Users ==
    [loads |-> <<2, 1>>,
     acts |-> {EditUser, NewUser, SetPassword, Act(0, "redraw", FALSE), Act(1, "redraw", FALSE),
               Act(2, "redraw", FALSE), Act(0, "edit", FALSE)}]

\* Roles, prices, access of a workspace, lifecycle, and the secret's rotation.
AppButtons == {Act(0, "redraw", FALSE), Act(1, "redraw", FALSE), Act(2, "redraw", FALSE), Act(1, "look", FALSE)}

\* autoEnroll and the access dropdowns save on change.
AppToggles == {Act(0, "edit", FALSE)}

\* Display name, callbacks, price and role; the brand stays as it was typed.
AppForms == {Act(0, "redraw", FALSE), Act(0, "typed", FALSE)}

\* The access and the prices of every app are fetched together: two stand for many.
AppLoads == <<1, 1, 2>>

RegisterApp == Act(0, "redraw", TRUE)

Apps == [loads |-> AppLoads, acts |-> AppButtons \cup AppToggles \cup AppForms \cup {RegisterApp}]

\* The summary; its export is a plain fetch with S.access.
Revenue == [loads |-> <<1>>, acts |-> {Act(0, "direct", TRUE)}]

\* The filter only draws again; the exports fetch the range anew.
Audit == [loads |-> <<1, 1>>, acts |-> {Act(0, "look", TRUE)}]

\* Save; preview and test; revert.
EmailTemplates ==
    [loads |-> <<1>>,
     acts |-> {Act(0, "redraw", FALSE), Act(0, "look", FALSE), Act(1, "redraw", FALSE)}]

\* Save goes through act().
Smtp == [loads |-> <<1, 1>>, acts |-> {Act(0, "redraw", TRUE)}]

VIEWS ==
    [tenants |-> Tenants, users |-> Users, apps |-> Apps, revenue |-> Revenue, audit |-> Audit,
     smtp |-> Smtp, email |-> EmailTemplates]

Names == DOMAIN VIEWS
Writes == {"redraw", "edit", "typed"}

ASSUME ConsoleAssumption ==
    /\ IsFiniteSet(Slots) /\ Menu \subseteq Names
    /\ MaxPairs \in Nat /\ MaxStarts \in Nat /\ MaxFaults \in Nat

-----------------------------------------------------------------------------

Pairs == 1..MaxPairs
NoRun == [pc |-> "idle", kind |-> "none", view |-> "tenants", ask |-> 0, at |-> 0, mine |-> FALSE, value |-> FALSE]
\* A render of view: on the fresh node, waiting for its first loads.
Rendering(view) ==
    [pc |-> "calling", kind |-> "route", view |-> view, ask |-> 0, at |-> 1, mine |-> TRUE, value |-> FALSE]
NoCall == [pc |-> "none", tok |-> 0]
Done == [pc |-> "done", tok |-> 0]
Failed == [pc |-> "failed", tok |-> 0]
InFlight == {"sent", "refresh", "rotate", "pair", "refused", "retry"}
Requests == Slots \X {1, 2}

\* The tab, the content node, runs, requests and the server.
Tab == [shown: {"login", "app"}, hash: Names, store: 0..MaxPairs]
Page == [drawn: Names \cup {"loading", "error"}, heard: Seq(Names), data: BOOLEAN]
Run == [pc: {"idle", "asking", "calling"}, kind: {"none", "route", "redraw", "look", "direct", "edit", "typed"},
        view: Names, ask: 0..2, at: 0..3, mine: BOOLEAN, value: BOOLEAN]
Call == [pc: InFlight \cup {"none", "done", "failed"}, tok: 0..MaxPairs]
Server == [alive: SUBSET Pairs, valid: SUBSET Pairs, data: BOOLEAN]
\* The values of writes, and the tokens of exchanges.
Late == [writes: SUBSET BOOLEAN, tokens: SUBSET (0..MaxPairs)]

TypeOK ==
    /\ ui \in Tab /\ (ui.shown = "app" => ui.store # 0)
    /\ node \in Page /\ server \in Server
    /\ runs \in [Slots -> Run] /\ calls \in [Requests -> Call]
    /\ signins \in Nat /\ logouts \in [Pairs -> Nat] /\ late \in Late
    /\ issued \in 0..MaxPairs /\ starts \in 0..MaxStarts /\ faults \in 0..MaxFaults
    /\ crossed \in BOOLEAN /\ stale \in BOOLEAN /\ forked \in BOOLEAN /\ loose \subseteq Pairs

\* A tab opened on any view, without a session: boot shows the login page.
Init ==
    /\ ui \in [shown: {"login"}, hash: Names, store: {0}]
    /\ node = [drawn |-> "loading", heard |-> <<>>, data |-> FALSE]
    /\ runs = [r \in Slots |-> NoRun]
    /\ calls = [q \in Requests |-> NoCall]
    /\ server = [alive |-> {}, valid |-> {}, data |-> FALSE]
    /\ signins = 0 /\ logouts = [n \in Pairs |-> 0] /\ late = [writes |-> {}, tokens |-> {}]
    /\ issued = 0 /\ starts = 0 /\ faults = 0
    /\ crossed = FALSE /\ stale = FALSE /\ forked = FALSE /\ loose = {}

Start == starts < MaxStarts /\ starts' = starts + 1
Fault == faults < MaxFaults /\ faults' = faults + 1
Busy(r) == runs[r].pc # "idle" \/ \E i \in {1, 2} : calls[<<r, i>>].pc \in InFlight
Free == {r \in Slots : ~Busy(r)}
Exchanging == {q \in Requests : calls[q].pc \in {"refresh", "rotate", "pair", "refused"}}
SigningOut == \E n \in Pairs : logouts[n] > 0
\* The pair in S, if there is one.
Held == {ui.store} \ {0}
\* The new pairs on their way to the calls of Q.
Coming(Q) == {calls[q].tok : q \in {p \in Q : calls[p].pc = "pair"}}
Loads(r) == IF runs[r].kind = "route" THEN VIEWS[runs[r].view].loads
            ELSE IF runs[r].kind = "typed" THEN <<1, 1>> ELSE <<1>>

\* n requests sent with S.access, for the await a run reaches.
Sent(r, n, pair) ==
    [q \in Requests |-> IF q[1] # r THEN calls[q] ELSE
                        IF q[2] <= n THEN [pc |-> "sent", tok |-> pair] ELSE NoCall]

\* Mutant of Swapped: the node stays, its listeners with it.
SwappedNot == [drawn |-> "loading", heard |-> node.heard, data |-> FALSE]

\* A fresh content node, without listeners.
Swapped == [drawn |-> "loading", heard |-> <<>>, data |-> FALSE]

\* route(): a fresh node, and the view's first loads.  $("#content") of any
\* render under way is the fresh node too.
Route(r, view, pair) ==
    /\ node' = Swapped
    /\ runs' = [s \in Slots |->
         IF s = r THEN Rendering(view)
         ELSE [runs[s] EXCEPT !.mine = FALSE]]
    /\ calls' = Sent(r, VIEWS[view].loads[1], pair)
    /\ crossed' = (\E s \in Slots \ {r} : Busy(s))
    /\ stale' = (stale /\ crossed')

-----------------------------------------------------------------------------
(* What the operator does.                                                  *)

\* The login form is submitted.
SignIn ==
    /\ Start /\ ui.shown = "login" /\ signins' = signins + 1
    /\ UNCHANGED <<ui, node, runs, calls, server, logouts, late, issued, faults, crossed, stale, forked, loose>>

\* A sign-in issues pair n.
Issue(n) ==
    /\ n = issued + 1 /\ n <= MaxPairs
    /\ issued' = n
    /\ server' = [server EXCEPT !.alive = @ \cup {n}, !.valid = @ \cup {n}]

\* A platform admin signed in: setSession and showApp, whatever is shown by
\* then.  A pair held already is replaced, not revoked.
SignInAnswered(r, n) ==
    /\ signins > 0 /\ signins' = signins - 1
    /\ r \in Free /\ Issue(n)
    /\ ui' = [ui EXCEPT !.shown = "app", !.store = n]
    /\ loose' = loose \cup Held
    /\ forked' = (forked \/ Exchanging # {} \/ SigningOut)
    /\ Route(r, ui.hash, n)
    /\ UNCHANGED <<logouts, late, starts, faults>>

\* The sign-in is refused, or lost; or a pair is issued that the tab does not
\* keep, its answer lost or its account no platform admin.
SignInFails ==
    /\ signins > 0 /\ signins' = signins - 1
    /\ \/ UNCHANGED <<server, issued, loose>>
       \/ \E n \in Pairs : Issue(n) /\ loose' = loose \cup {n}
    /\ UNCHANGED <<ui, node, runs, calls, logouts, late, starts, faults, crossed, stale, forked>>

\* hashchange.
Navigate(r, view) ==
    /\ Start /\ ui.shown = "app" /\ r \in Free /\ view # ui.hash
    /\ ui' = [ui EXCEPT !.hash = view]
    /\ Route(r, view, ui.store)
    /\ UNCHANGED <<server, signins, logouts, late, issued, faults, forked, loose>>

\* A click, change or submit reaches every listener of the drawn view on the
\* content node, or the one listener of an element of its own.  The handler
\* asks first, or sends its request at once.
Click(R, act) ==
    LET view == node.drawn
        times == IF act.own THEN 1 ELSE Cardinality({n \in DOMAIN node.heard : node.heard[n] = view})
        value == ~node.data
        asks == act.ask > 0
    IN  /\ Start /\ ui.shown = "app" /\ R \subseteq Free /\ Cardinality(R) = times
        /\ runs' = [r \in Slots |->
             IF r \in R THEN [pc |-> IF asks THEN "asking" ELSE "calling", kind |-> act.kind, view |-> "tenants",
                              ask |-> act.ask, at |-> 1, mine |-> TRUE, value |-> act.kind \in Writes /\ value]
             ELSE runs[r]]
        /\ calls' = [q \in Requests |-> IF q[1] \notin R THEN calls[q] ELSE
                                        IF q[2] = 1 /\ ~asks THEN [pc |-> "sent", tok |-> ui.store] ELSE NoCall]
        /\ node' = IF act.kind = "edit" THEN [node EXCEPT !.data = value] ELSE node
        /\ crossed' = (crossed \/ \E s \in Slots \ R : Busy(s))
        /\ UNCHANGED <<ui, server, signins, logouts, late, issued, faults, stale, forked, loose>>

\* confirmDialog, and confirmDestructive's second.
Confirm(r) ==
    /\ runs[r].pc = "asking"
    /\ \/ /\ runs[r].ask > 1 /\ runs' = [runs EXCEPT ![r].ask = @ - 1] /\ UNCHANGED calls
       \/ /\ runs[r].ask = 1 /\ runs' = [runs EXCEPT ![r].pc = "calling", ![r].ask = 0]
          /\ calls' = Sent(r, 1, ui.store)
       \/ runs' = [runs EXCEPT ![r] = NoRun] /\ UNCHANGED calls
    /\ UNCHANGED <<ui, node, server, signins, logouts, late, issued, starts, faults, crossed, stale, forked, loose>>

\* The logout button; it may be clicked again before the answer.
Logout ==
    /\ Start /\ ui.shown = "app" /\ logouts' = [logouts EXCEPT ![ui.store] = @ + 1]
    /\ forked' = (forked \/ Exchanging # {})
    /\ UNCHANGED <<ui, node, runs, calls, server, signins, late, issued, faults, crossed, stale, loose>>

\* Mutant of ShownLogin: clearSession is forgotten.
ShownLoginKept == [ui EXCEPT !.shown = "login"]

\* showLogin: clearSession, and the login page.
ShownLogin == [ui EXCEPT !.shown = "login", !.store = 0]

\* The server revokes the pair, and the answer shows the login page.  So does
\* an error answer, with the pair alive.  If the request or its answer is
\* lost, the console stays.
LogoutDone(n) ==
    LET revoked == [server EXCEPT !.alive = @ \ {n}] IN
    /\ logouts[n] > 0 /\ logouts' = [logouts EXCEPT ![n] = @ - 1]
    /\ \/ server' = revoked /\ ui' = ShownLogin /\ UNCHANGED <<faults, loose>>
       \/ Fault /\ ui' = ShownLogin /\ loose' = loose \cup {n} /\ UNCHANGED server
       \/ Fault /\ server' \in {server, revoked} /\ UNCHANGED <<ui, loose>>
    /\ UNCHANGED <<node, runs, calls, signins, late, issued, starts, crossed, stale, forked>>

\* The tab is loaded again, and boot finds the pair in sessionStorage.  The
\* tab forgets what was in flight; the server may still serve it.
Reload(r) ==
    LET Writing == {s \in Slots : runs[s].kind \in Writes /\ runs[s].at = 1
                                    /\ calls[<<s, 1>>].pc \in {"sent", "retry"}}
        Unserved == {q \in Requests : calls[q].pc \in {"refresh", "rotate"}}
        on == ui.store # 0
    IN  /\ Start
        /\ loose' = loose \cup Coming(Requests)
        /\ late' = [writes |-> late.writes \cup {runs[s].value : s \in Writing},
                    tokens |-> late.tokens \cup {calls[q].tok : q \in Unserved}]
        /\ signins' = 0 /\ logouts' = [n \in Pairs |-> 0]
        /\ crossed' = FALSE /\ stale' = FALSE
        /\ node' = Swapped
        /\ ui' = [ui EXCEPT !.shown = IF on THEN "app" ELSE "login"]
        /\ runs' = [s \in Slots |-> IF s = r /\ on THEN Rendering(ui.hash) ELSE NoRun]
        /\ calls' = [q \in Requests |-> IF on /\ q[1] = r /\ q[2] <= VIEWS[ui.hash].loads[1]
                                        THEN [pc |-> "sent", tok |-> ui.store] ELSE NoCall]
        /\ UNCHANGED <<server, issued, faults, forked>>

-----------------------------------------------------------------------------
(* api().                                                                   *)

\* What a request that the server serves does: a render reads, the first
\* request of a handler that writes writes.
Served(r) ==
    IF runs[r].kind \in Writes /\ runs[r].at = 1 /\ runs[r].pc = "calling"
    THEN server' = [server EXCEPT !.data = runs[r].value] /\ UNCHANGED runs
    ELSE /\ runs' = IF runs[r].kind = "route" /\ runs[r].at = Len(Loads(r)) THEN [runs EXCEPT ![r].value = server.data] ELSE runs
         /\ UNCHANGED server

\* The request is answered with its access token valid.
Answer(r, i) ==
    /\ calls[<<r, i>>].pc \in {"sent", "retry"} /\ calls[<<r, i>>].tok \in server.valid
    /\ calls' = [calls EXCEPT ![<<r, i>>] = Done]
    /\ Served(r)
    /\ UNCHANGED <<ui, node, signins, logouts, late, issued, starts, faults, crossed, stale, forked, loose>>

\* Mutant of Exchanged: the pair the request was sent with.
ExchangedSent(q) == calls[q].tok

\* The refresh token that a 401 is answered with: the one S holds by then.
Exchanged(q) == ui.store

\* 401: exchange the refresh token, if there is one and this is the first try.
\* Otherwise the login page is shown and the caller gets an error.
Unauthorized(r, i) ==
    LET c == calls[<<r, i>>]
        retries == c.pc = "sent" /\ ui.store # 0
    IN  /\ c.pc \in {"sent", "retry"} /\ c.tok \notin server.valid
        /\ \/ /\ runs[r].kind = "direct"
              /\ calls' = [calls EXCEPT ![<<r, i>>] = Failed] /\ UNCHANGED <<ui, forked>>
           \/ /\ runs[r].kind # "direct" /\ retries
              /\ calls' = [calls EXCEPT ![<<r, i>>] = [pc |-> "refresh", tok |-> Exchanged(<<r, i>>)]]
              /\ forked' = (forked \/ Exchanging # {} \/ SigningOut) /\ UNCHANGED ui
           \/ /\ runs[r].kind # "direct" /\ ~retries
              /\ calls' = [calls EXCEPT ![<<r, i>>] = Failed] /\ ui' = ShownLogin /\ UNCHANGED forked
        /\ UNCHANGED <<node, runs, server, signins, logouts, late, issued, starts, faults, crossed, stale, loose>>

\* A rotated token presented ten seconds after its rotation ends every session
\* of its account; which of the pairs alive are that account's is left open.
Replayed(tok) == tok \notin server.alive /\ \E kept \in SUBSET server.alive : server' = [server EXCEPT !.alive = kept]

\* POST /auth/refresh reads the token.  A rotated one is refused.
RefreshRead(r, i) ==
    LET c == calls[<<r, i>>] IN
    /\ c.pc = "refresh"
    /\ calls' = [calls EXCEPT ![<<r, i>>] = IF c.tok \in server.alive THEN [pc |-> "rotate", tok |-> c.tok]
                                        ELSE [pc |-> "refused", tok |-> 0]]
    /\ UNCHANGED server \/ Replayed(c.tok)
    /\ UNCHANGED <<ui, node, runs, signins, logouts, late, issued, starts, faults, crossed, stale, forked, loose>>

\* It revokes the token and issues a pair.
Rotate(tok, n) ==
    /\ n = issued + 1 /\ n <= MaxPairs
    /\ issued' = n
    /\ server' = [server EXCEPT !.alive = (@ \ {tok}) \cup {n}, !.valid = @ \cup {n}]

RefreshWrite(r, i) ==
    LET c == calls[<<r, i>>]
        n == issued + 1
    IN  /\ c.pc = "rotate" /\ Rotate(c.tok, n)
        /\ calls' = [calls EXCEPT ![<<r, i>>] = [pc |-> "pair", tok |-> n]]
        /\ UNCHANGED <<ui, node, runs, signins, logouts, late, starts, faults, crossed, stale, forked, loose>>

\* The answer: setSession, and the request is sent again with the new token.
Refreshed(r, i) ==
    /\ calls[<<r, i>>].pc = "pair"
    /\ ui' = [ui EXCEPT !.store = calls[<<r, i>>].tok]
    /\ calls' = [calls EXCEPT ![<<r, i>>].pc = "retry"]
    /\ UNCHANGED <<node, runs, server, signins, logouts, late, issued, starts, faults, crossed, stale, forked, loose>>

\* The exchange is refused, and the request's 401 stands.
Refused(r, i) ==
    /\ calls[<<r, i>>].pc = "refused"
    /\ ui' = ShownLogin
    /\ calls' = [calls EXCEPT ![<<r, i>>] = Failed]
    /\ UNCHANGED <<node, runs, server, signins, logouts, late, issued, starts, faults, crossed, stale, forked, loose>>

\* The exchange or its answer is lost, and fetch rejects; or it is answered
\* 429 or 5xx, and the request's 401 stands.
ExchangeFails(r, i) ==
    LET c == calls[<<r, i>>]
        pair == Coming({<<r, i>>})
    IN  /\ Fault /\ c.pc \in {"refresh", "pair"}
        /\ calls' = [calls EXCEPT ![<<r, i>>] = Failed]
        /\ \/ /\ late' = [late EXCEPT !.tokens = IF c.pc = "refresh" THEN @ \cup {c.tok} ELSE @]
              /\ loose' = loose \cup pair /\ UNCHANGED ui
           \/ ui' = ShownLogin /\ loose' = loose \cup pair \cup Held /\ UNCHANGED late
        /\ UNCHANGED <<node, runs, server, signins, logouts, issued, starts, crossed, stale, forked>>

\* A request is answered with another error, or it or its answer is lost and
\* fetch rejects.  The server may still apply a write, or has done so.
CallFails(r, i) ==
    LET c == calls[<<r, i>>]
        writes == runs[r].kind \in Writes /\ runs[r].at = 1
    IN  /\ Fault /\ c.pc \in {"sent", "retry"}
        /\ calls' = [calls EXCEPT ![<<r, i>>] = Failed]
        /\ \/ UNCHANGED late
           \/ writes /\ c.tok \in server.valid /\ late' = [late EXCEPT !.writes = @ \cup {runs[r].value}]
        /\ UNCHANGED <<ui, node, runs, server, signins, logouts, issued, starts, crossed, stale, forked, loose>>

\* The server applies a write that nobody waits for.
LateWrite(value) ==
    /\ value \in late.writes /\ late' = [late EXCEPT !.writes = @ \ {value}]
    /\ server' = [server EXCEPT !.data = value] /\ stale' = TRUE
    /\ UNCHANGED <<ui, node, runs, calls, signins, logouts, issued, starts, faults, crossed, forked, loose>>

\* The server serves an exchange that nobody waits for; it may have read the
\* token while that was alive.
LateExchange(tok) ==
    /\ tok \in late.tokens /\ late' = [late EXCEPT !.tokens = @ \ {tok}]
    /\ \/ \E n \in Pairs : Rotate(tok, n) /\ loose' = loose \cup {n}
       \/ Replayed(tok) /\ UNCHANGED <<issued, loose>>
    /\ UNCHANGED <<ui, node, runs, calls, signins, logouts, starts, faults, crossed, stale, forked>>

-----------------------------------------------------------------------------
(* Renders and handlers go on.                                              *)

Answered(r) ==
    /\ runs[r].pc = "calling"
    /\ \A i \in 1..Loads(r)[runs[r].at] : calls[<<r, i>>].pc = "done"

\* The next loads of a render, or the list a brand's form reloads.
Await(r) ==
    /\ Answered(r) /\ runs[r].at < Len(Loads(r))
    /\ runs' = [runs EXCEPT ![r].at = @ + 1]
    /\ calls' = Sent(r, Loads(r)[runs[r].at + 1], ui.store)
    /\ node' = IF runs[r].kind = "typed" /\ runs[r].mine THEN [node EXCEPT !.data = runs[r].value] ELSE node
    /\ UNCHANGED <<ui, server, signins, logouts, late, issued, starts, faults, crossed, stale, forked, loose>>

\* The view draws on the content node of now, and adds its listeners.
Draw(r) ==
    /\ Answered(r) /\ runs[r].at = Len(Loads(r)) /\ runs[r].kind = "route"
    /\ node' = [drawn |-> runs[r].view, heard |-> Append(node.heard, runs[r].view), data |-> runs[r].value]
    /\ runs' = [runs EXCEPT ![r] = NoRun]
    /\ calls' = Sent(r, 0, 0)
    /\ UNCHANGED <<ui, server, signins, logouts, late, issued, starts, faults, crossed, stale, forked, loose>>

\* Mutant of Redraws: the handler only reports success.
RedrawsNever(kind, ok) == kind = "edit" /\ ~ok

\* When a handler draws the view again.
Redraws(kind, ok) == IF ok THEN kind = "redraw" ELSE kind = "edit"

\* A handler is done, or its request failed.
HandlerEnds(r, ok) ==
    /\ runs[r].pc = "calling" /\ runs[r].kind # "route"
    /\ IF ok THEN Answered(r) /\ runs[r].at = Len(Loads(r)) ELSE calls[<<r, 1>>].pc = "failed"
    /\ IF Redraws(runs[r].kind, ok)
       THEN Route(r, ui.hash, ui.store)
       ELSE /\ runs' = [runs EXCEPT ![r] = NoRun] /\ calls' = Sent(r, 0, 0)
            /\ UNCHANGED <<node, crossed, stale>>
    /\ UNCHANGED <<ui, server, signins, logouts, late, issued, starts, faults, forked, loose>>

\* A load failed: the error is drawn on the render's own node.  Its other
\* requests stay in flight.
RenderFails(r) ==
    /\ runs[r].pc = "calling" /\ runs[r].kind = "route" /\ \E i \in {1, 2} : calls[<<r, i>>].pc = "failed"
    /\ node' = IF runs[r].mine THEN [node EXCEPT !.drawn = "error", !.data = FALSE] ELSE node
    /\ runs' = [runs EXCEPT ![r] = NoRun]
    /\ calls' = [q \in Requests |-> IF q[1] = r /\ calls[q].pc \notin InFlight THEN NoCall ELSE calls[q]]
    /\ UNCHANGED <<ui, server, signins, logouts, late, issued, starts, faults, crossed, stale, forked, loose>>

-----------------------------------------------------------------------------
(* The server's clock and its other users.                                  *)

\* An access token expires; not in the moment its first request takes.
Expire(n) ==
    /\ Fault /\ n \in server.valid /\ \A q \in Requests : ~(calls[q].tok = n /\ calls[q].pc \in {"pair", "retry"})
    /\ server' = [server EXCEPT !.valid = @ \ {n}]
    /\ UNCHANGED <<ui, node, runs, calls, signins, logouts, late, issued, starts, crossed, stale, forked, loose>>

\* A new password or another administrator ends the sessions of an account.
Revoke ==
    /\ Fault /\ server.alive # {} /\ \E kept \in SUBSET server.alive : server' = [server EXCEPT !.alive = kept]
    /\ UNCHANGED <<ui, node, runs, calls, signins, logouts, late, issued, starts, crossed, stale, forked, loose>>

Next ==
    \/ \E r \in Slots : \/ Confirm(r) \/ Reload(r) \/ Await(r) \/ Draw(r) \/ RenderFails(r)
                        \/ \E n \in Pairs : SignInAnswered(r, n)
                        \/ \E view \in Menu : Navigate(r, view)
                        \/ \E ok \in BOOLEAN : HandlerEnds(r, ok)
    \/ node.drawn \in Names /\ \E R \in SUBSET Slots, act \in VIEWS[node.drawn].acts : Click(R, act)
    \/ \E r \in Slots, i \in {1, 2} : \/ Answer(r, i) \/ Unauthorized(r, i) \/ RefreshRead(r, i)
                                      \/ RefreshWrite(r, i) \/ Refreshed(r, i) \/ Refused(r, i)
                                      \/ ExchangeFails(r, i) \/ CallFails(r, i)
    \/ SignIn \/ SignInFails \/ Logout \/ Revoke
    \/ \E n \in Pairs : LogoutDone(n) \/ LateExchange(n) \/ Expire(n)
    \/ \E value \in BOOLEAN : LateWrite(value)

Spec == Init /\ [][Next]_vars

-----------------------------------------------------------------------------
(* Properties.                                                              *)

\* One click is one action: it reaches one listener, however often the views
\* were drawn before, unless renders overlapped.  (Two renders that overlap
\* both draw, and listen, on the newer node.)
ClicksActOnce ==
    [][crossed \/ Cardinality({r \in Slots : runs[r].kind = "none" /\ runs'[r].kind \notin {"none", "route"}}) <= 1]_vars

\* When nothing is under way, the page is the view of the hash and shows what
\* the server holds, also after a write that failed half way in an edit,
\* unless runs overlapped or the answer of another write was lost.
PageIsTrue ==
    ui.shown = "app" /\ Free = Slots /\ ~crossed /\ ~stale /\ node.drawn \in Names =>
      node.drawn = ui.hash /\ node.data = server.data

\* Every state is well typed, and a page at rest is true.
ConsoleInv == TypeOK /\ PageIsTrue

\* The login page replaces the console only if the pair the tab holds is not
\* alive, the operator signed out, an exchange failed, or exchanges, sign-outs
\* or a sign-in overlapped: a request that meets an expired access token, and
\* whose exchange is served, does not end a session that is alive.
SessionsSurvive ==
    [][ui.shown = "app" /\ ui'.shown = "login" /\ logouts' = logouts =>
         \/ ui.store \notin server.alive \/ forked
         \/ \E q \in Exchanging : calls[q].pc \in {"refresh", "pair"} /\ calls'[q].pc = "failed"]_vars

\* Signing out is final: with the login page shown and no request of api() in
\* flight, the tab holds no pair, and of the pairs issued to it only those are
\* alive that it let go of unrevoked: at a sign-in over a session, or of an
\* account that is no platform admin, an error answer to a sign-out or to an
\* exchange, a pair lost on its way or issued late.  Overlaps are excused.
SignedOut ==
    ui.shown = "login" /\ Free = Slots /\ ~forked =>
      ui.store = 0 /\ server.alive \subseteq loose
=============================================================================
