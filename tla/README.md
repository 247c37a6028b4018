# A TLA+ model of EvoPlatform

EvoPlatform is a multi-tenant application platform (a NestJS service, `src/platform`) with a
Next.js application template (`src/templates/next`) whose data is offline-first. This directory
holds TLA+ models of its core, TLC runs that check them on small instances, and proofs checked
by TLAPS that hold for every size of the instance.

## 1. Inventory

| Part | State | Operations | What makes it correct |
|---|---|---|---|
| Sync endpoint (`app/api/sync/route.ts`, `lib/sync/server.ts`, init migration) | `Project`, `Task` rows with tombstones, one global row-version sequence, `SyncGcHorizon` | one request = one transaction: advisory lock, mutations, horizon check, page, commit | a page leaves nothing out; cursors are gap-safe; tenants stay apart; a bad mutation harms only itself |
| Offline client (`lib/sync/client.ts`, `lib/offline/*`, `lib/data/projects.ts`) | per-tenant Dexie stores, append-only outbox, cursor | local writes, drain (snapshot, post, ack, merge, save cursor), sign-out | the cursor never runs ahead of the replica; no edit is forgotten before it landed; replicas converge |
| Sessions (`platform/src/auth/auth.service.ts`, `core/retention.service.ts`) | `RefreshToken` rows | login, refresh (rotation), reuse detection, logout, sweep | a token is rotated once; revocation ends sessions; replay ends the chain |
| Account flows (`auth/account-flows.service.ts`, `signup.service.ts`) | user rows, links (nothing stored), in-memory send budget | verify, reset, list workspaces, sign up | a link dies with its use; the budget bounds mail per address and per client |
| Users and admins (`users/users.service.ts`, `core/bootstrap-admin.service.ts`) | `User` rows | create, update, remove, restore, purge | the last platform admin stays; a password change ends sessions |
| Passkeys (`passkeys/passkeys.service.ts`) | `PasskeyCredential` rows, stateless challenge tokens | options, register, sign in, remove | a challenge is bound to user, purpose and origin; the counter never goes back |
| Billing (`billing/billing.service.ts`) | `AppTenant` status, tier, grace, subscription id; Stripe's own state | webhook events of subscriptions, invoices and purchases; entitlement | duplicated, reordered and concurrent events converge; an administrator's suspension outlives paid invoices; no event is dropped |
| Catalogue (`billing.service.ts`, `apps/apps.service.ts`, `revenue/billing-readiness.service.ts`, `platform/scripts/stripe_catalogue.py`) | `AppPrice` rows, the workspace's Stripe customer, the key's mode; Stripe's prices and customers | create, register, refresh, remove prices; checkout, portal, readiness check | rows say what Stripe bills; nothing is made twice; a page is opened only for what the app sells |
| Workspaces (`tenants/`, `tenant/`, `apps/`) | tenants, members with roles, invites, apps, enablement | invite, resend, revoke, accept, update, deactivate, set roles, suspend, remove, restore, purge | an administrator remains; a dead invite brings nobody; no role of an app that is not enabled is granted |
| Template sign-in (`auth.ts`, `lib/platform.ts`, `(auth)/actions.ts`, `lib/auth/tokens.ts`, the sudo routes) | session and sudo cookies, local users, memberships, reset links | sign-in with and without a platform, provisioning, role refresh, unlock, sign-up, reset | a session stays with its account; roles follow sign-ins; a link is spent once |
| Admin console (`admin-ui/static/admin-ui.js`) | the token pair, the view, renders and handlers under way | navigate, click, ask, call, exchange tokens, draw again, sign in and out, reload | the page is true when at rest; a click acts once; a live session survives; signing out is final |
| Revenue summary, email, audit, configuration, SDKs, rest of the CLI | none of their own, or append-only | reports, delivery, logging, plumbing | not modelled: see section 8 |

Parts interact through the platform's PostgreSQL database (every handler is a sequence of
statements, seldom in one transaction), through signed tokens, through Stripe's webhooks, and,
for the template, through `POST /api/sync` and the platform's sign-in.

The behaviours that are hard here: the awaits of a drain, between which the user edits and other
tabs run; requests that are applied and never acknowledged, or arrive after their sender has
moved on; three local transactions where one would be wanted; a shared sequence whose values are
taken before they commit; in the platform, handlers that read, await and write without a
lock, and events that come late, twice, out of order or at once; in the console, renders and
handlers that await on one page. `PROJECT.json` lists them under `hazards`, each at its line.

## 2. Modules

| Module | Content |
|---|---|
| `SyncServer` | the endpoint: rows, sequence, transactions, checks and writes that wait for other transactions, pages, cursors, horizon, rollback, collector; the endpoint's properties |
| `SyncEndpoint` | `SyncServer` with callers that send any rows and cursors up to those handed out and give up at any time; what it promises them, and its inductive invariant |
| `Sync` | `SyncServer` composed with the real client: data layer, outbox, drain, sign-out, failures; the end-to-end properties; implements `SyncEndpoint` |
| `SyncInv` | the inductive invariant of `Sync`: that of `SyncEndpoint`, and the client's |
| `SyncProofs` | the endpoint's properties for any callers, that `Sync` implements `SyncEndpoint`, the outbox, the drain's invariant and the faithfulness of the replica, proved |
| `Sessions` | accounts and sessions of the platform: sign-in, rotation, replay, links, administrators' operations on users, tenants and access, sweep, restart; their properties |
| `SessionsProofs` | its inductive invariant and all its safety properties, proved |
| `EventFeed` | the abstract specification of a webhook endpoint: at-least-once delivery, nothing dropped, backlogs worked off |
| `Billing` | webhook, rows, administrators and purges of one workspace, against Stripe; implements `EventFeed` |
| `BillingProofs` | its two inductive invariants, its safety properties, and the safety half of the refinement, proved |
| `Workspace` | members, roles, invites, apps of one workspace, requests that check and then write |
| `WorkspaceProofs` | its inductive invariant and its properties, proved |
| `Passkeys` | challenge tickets, registration, sign-in and removal |
| `PasskeysProofs` | its inductive invariant and its properties, proved |
| `Catalogue` | prices from Stripe to a checkout page, customers, readiness, the script |
| `CatalogueProofs` | its inductive invariant and all its properties, proved |
| `WebAuth` | the template's sign-in in both modes, sudo windows, reset links |
| `WebAuthProofs` | its inductive invariant and its properties, proved |
| `Console` | the admin console's page: runs, requests, token exchange |
| `ConsoleProofs` | its inductive invariant and all its properties, proved |
| `MC...` | instances for TLC, one for each module that is run |

### State and code

`rows` is the two tables, keyed by id; a row's `val` stands for its fields, `ver` for
`rowVersion`, `deleted` for `deletedAt`, and version 0 for "no such row". `seq` is
`sync_row_version_seq`, which a rollback does not turn back. `tx[n]` is the transaction that holds
tenant n's advisory lock, with its uncommitted `writes`; other tenants' transactions interleave
with it mutation by mutation. A mutation is checked by one statement and written by another, by id
alone. The write waits for the transaction that has written the row (`Waits`), and `passed` is the
row whose check is over by then (`Pass`): what the other transaction commits is overwritten
whoever's it is, a stub's insert fails on it, and of transactions that wait for each other one
fails (`Deadlocked`). A write that need not wait is one step with its check, which is the same:
only a commit in between could matter, and that is one it waited for. `request`, `orphans` and
`reply` are the network: a request whose sender has gone stays in `orphans` and may arrive at any
later time or never. On the client `replica`, `outbox`, `nextSeq` and `cursor` are the Dexie
stores of a database, `drain[t]` is the position of tab t in `syncOnce`, and `open` is a row a
handler has read and is about to write back (`renameProject` and `toggleTask` read outside their
transaction). `issued`, `landed`, `base`, `by` (whose transaction stamped a version), `absent`
(the ids that had no row when a transaction began) and `faults` are history: they guard nothing
except the bound on failures.

Each action is a stretch of the code between two awaits that other actors can observe:
`StartDrain`/`ContinueDrain` (read cursor and outbox, post), `AckOutbox` (`deleteApplied` and the
same for rejected entries), `MergePage`, `SaveCursor`, `ReceiveResync`, `ReceiveError`, `GiveUp`;
on the server `TakeRequest`, `ApplyMutation` (a mutation, its stub, or a check whose write waits),
`FinishPull`, `FinishResync`, `FinishBroken`, `Rollback`. `StopDrain` (tab closed, fetch failed)
and `SignOut` may happen anywhere.

In `Sessions`, `users`, `tenants`, `access` and `tokens` are the rows of the platform's tables, by
id, so that a purged row never comes back; `links` are the reset links in circulation, each with
the password it was signed under, and `mailed` the users with a verification link. `procs[p]` is a
handler in flight: its position and what it has read. A handler is cut at every await that another
handler's write can fall into: `Login`, `ReadAccount`, `Gate`, `Issue` for a sign-in; `Refresh`,
`Gate`, `Rotate`, `Issue` for a refresh; check and write for reset, update, remove and purge; a
third statement, `RevokeAfterUpdate`, where `users.service.ts` ends sessions after the row is
written. `stale`, `late` and `excused` are history: sessions were ended since the sign-in, what a
handler read was overtaken, a lock was set after the handler had passed it. Nothing is guarded by
them.

In the platform's other modules a request is cut the same way, at the await between what it reads
and what it writes, and `procs` holds what it has read.

* `Billing`: `life` are the tenant's and the apps' rows, `access` the `AppTenant` rows, `orders`
  what Stripe holds (a log of snapshots per subscription or purchase), `pending` and `acked` the
  events. `Deliver` starts a handler, which reads the row (`syncSubscription`, `onInvoice`, or the
  purchase, written at once); `Write` is the rest of it, up to the acknowledgement; `Crash` loses
  it. `SetAppAccess`, `RemoveAppAccess`, `Purge` and `DeadlinePasses` go on around it. `Entitled`
  is `entitlement`, `Door` is `assertAppEnabled`.
* `Workspace`: `tenant`, `apps`, `enabled`, `roles`, `members`, `claims` (access tokens that say
  `tenant_admin`) and `invites`. A request checks (`tenant.service.ts`, `invites.service.ts`) and
  later writes; the write is one statement or transaction, which the database refuses as a whole
  when a key is taken or a row it refers to is gone.
* `Passkeys`: `rows` are the credentials, each with an id of its own, so that one registered again
  is another; `devices` are the authenticators; `attested` and `asserted` are the answers ever
  signed, which may be presented late, again, and to either endpoint. A sign-in is `VerifyLogin`,
  `WriteCounter`, `ReadUser` and `IssueTokens`; `RefuseLogin` is each refusal of the last two. An
  account deactivated after `ReadUser` still gets its session, as in the code.
* `Catalogue`: `mode` is the mode of the Stripe key, `stripe` prices, products and customers,
  `script` the run of `stripe_catalogue.py` with its position in the file, `rows` the `AppPrice`
  rows, `customer` the workspace's stored customer. A checkout is vetted, makes the customer if it
  must, stores it, and opens a session at Stripe, each a step of its own.
* `WebAuth`: `platform` is the mode of the deployment, `people` the accounts, `members` the local
  memberships, `sessions` and `sudo` the cookies of each browser, `unlocks` the unlock under way in
  it, `logins` the sign-ins under way (`authorize`, then the upserts, the membership read and
  written, the `jwt` callback), `links` the verification tokens, `procs` the requests about them. A
  sign-in may begin and end in a browser that has a session, which it replaces (`Leave`): the proxy
  redirects pages only, and `/reset-password` not even then. The app role (`Account.admin`) is
  followed; the tenant-admin claim is not, so `ManageMember` may always be refused.
* `Console`: `ui` is what is shown, the hash and the token pair in memory and in the tab's storage;
  `node` the content element with its listeners and the data drawn; `runs` the renders and
  handlers under way, `calls` their requests; `signins` and `logouts` those of the login page and
  of signing out, of which several can be in flight, since neither form nor button is disabled.
  `late` are writes and exchanges the tab no longer waits for, which the platform may serve at any
  later time; a second late request for the same value or token is one with the first. A request
  may be answered with an error, and a sign-in that is answered replaces the pair held. A table of
  views says how many loads each makes and what its handlers do: how many dialogs they ask, what
  they write, and whether they draw the view again. `server` is the platform as the console sees
  it: live refresh tokens, valid access tokens and one bit of data.

History variables and fields (`hist`, `raced`, `stale`, `muddled`, `used`, `locked`, `erased`,
`doubled`, `refused`, `last`, `left`, `spent`, `crossed`, `forked`, `loose`) guard nothing. They
name the overlaps a property excuses, and every excuse is one the code really has.

### Abstractions

* The fields of a row are one value; `Malformed` is data the code's checks refuse, `Unstorable`
  data they pass and PostgreSQL refuses (a status of the wrong shape, a NUL character).
* Callers send cursors up to the highest one their tenant was given. The schema takes any digits;
  a higher one is echoed and hides from its sender what is written up to it, so no promise about
  pages could hold of it, and nobody else is affected.
* `deleteApplied` and the removal of rejected entries are one step; both only remove entries of
  the snapshot that were answered.
* The order of a batch is the order of its `seq`, as `snapshotForDrain` sorts it.
* Passwords are numbers: every change stores a hash that never was before (bcrypt salts it).
* Statuses that no code assigns (a tenant's `PAST_DUE`) are left out; deadlines are a flag that an
  action of the environment sets.
* Statements that read and then write one row, where the write fails if the row is gone and nothing
  else was checked, are one step (`restore`, `suspend`, `confirmVerification`).
* One app stands for all; a soft-deleted app is a missing access row.
* Stripe, authenticators and the WebAuthn library, mail, browsers and (for `WebAuth` and `Console`)
  the platform's API are external: they do whatever the code has to expect of them.
* A subscription's statuses are merged by what the code does with them: `active` is trialing too,
  `ended` is canceled, unpaid, paused and incomplete_expired. A deadline is none, running or over.
* In `Workspace` an address is a person, a workspace is one; profile fields are left out.
* In `Console` the data of all views is one bit, which a write flips; tokens are numbered pairs.
* The collector is not in the repository. It is modelled as the schema's comment describes the
  horizon: it removes all tombstones up to a version and records the version, holding the locks.

## 3. Properties

* `PageComplete`: while an answer is on its way, every row between its two cursors is in it as it
  is now. This is what makes "pull from the cursor" sufficient.
* `CursorGapSafe`: no row becomes visible at or below a cursor its tenant has been given. Both
  excuse versions that a transaction of another tenant has stamped, which holds another lock.
* `OwnRowsOnly`: a transaction changes a row of another tenant only if no row had that id when it
  began, so that both created it at once; no row ever changes hands, and a new one is the
  writer's.
* `ProjectsFaithful`, `TasksFaithful`: below the cursor, a row without a pending write is in the
  browser as it is on the server. For tasks a missing one is allowed, because the tombstone of a
  project removes its tasks locally and they may have been written again on the server.
* `OutboxForgetsOnlyLanded`: an entry leaves the outbox only when it or a later write of the same
  row is on the server, or the user deleted the project or signed out.
* `EventuallyConverged`: when users and failures stop, every browser drains and shows the
  server's projects.
* `LockoutHolds`: no token is issued for an account, tenant or app that is locked, except by a
  handler that had read the row before the lock was set.
* `SessionsEnd`: when the sessions of a user are ended, every token that lives on was issued by a
  handler in flight at that moment, or descends from one.
* `LinksDie`: a reset takes effect only under the password its link was made for, or one replaced
  while the reset was in flight.
* `AdminGuarded`: the last platform admin is lost only to a handler whose count was overtaken, or
  with an erased tenant (whose purge has no such check).
* `ErasureIsTwoStep`: an account is erased only while it or its tenant is soft-deleted, or by a
  purge that a restore overtook.
* `BillingInv`: besides types, the banner agrees with the door on every row (`BannerAgrees`), and
  billing alone makes no row active before a payment (`NoFreeAccess`).
* `RowsMirrorStripe`: once every event of the leading subscription is acknowledged, the row says
  what Stripe says, tier included, unless an older event or an overtaken request wrote it last, or
  an administrator or a purchase since.
* `PaidInvoicesLiftNoSuspension`: a suspended row stays suspended while billing reports paid
  invoices; only a failed payment, or a request that had read the row before, changes that.
* `GraceIsNotRenewed`: failing again buys no time, unless an overtaken or outdated event wrote.
* `EventsAcknowledged`: the webhook implements `EventFeed`, liveness included.
* `WorkspaceInv`: besides types, an administrator who can sign in remains, as far as the workspace's
  own members page goes, unless one was removed by somebody who was an administrator no longer (an
  overlapping request, or an old token).
* `OneOpenInvite`: an address has one open invite, unless two were created at once.
* `RevokedInvitesBringNobody`, `OneAccountPerInvite`: a revoked or replaced invite admits nobody;
  one invite brings one account, unless that account was purged during a second acceptance.
* `GrantsAreCurrent`: a role is granted only while its app is enabled, an invite admits only to a
  workspace in use, unless that changed while the request was under way.
* `SessionsAreBound`: a passkey sign-in ends in a session of the user it was begun for and the
  credential was made for, whatever tickets and answers are put together; an account deactivated
  since before the answer was accepted gets none (one deactivated after it was read does).
* `ReplaysFail`: an answer of a counting authenticator is accepted once per registration, unless
  sign-ins with the credential overlapped.
* `RemovedPasskeysAdmitNobody`: not even when the credential is registered again at once.
* `CatalogueIsTrue`: a verified row says what Stripe bills, and asking for the tier and cadence of
  a row in the pricing table finds that row.
* `NothingMadeTwice`: one customer per workspace and one price per line of the catalogue file and
  mode, however often the script is interrupted and run again; excused are two checkouts that made
  the customer at once, a customer lost before it was stored, and archived prices.
* `SessionsAreVetted`: a checkout that reaches Stripe is for a row of the calling app, in the mode
  of the key, unless what was checked was taken back meanwhile.
* `WebAuthInv`: besides types, a session is the row and workspace of the account that signed in,
  and a sudo window opened in it is that account's (`SessionsStayHome`), whoever signs in over
  whose session and while an unlock is under way; two people with one address in two workspaces
  are never mixed up. A window that outlived the session it was opened in is excused (section 5).
* `RolesFollowLogins`: a role looked up, again or by a sign-in over the session, is what the
  platform told the account's last sign-in, raised or lowered, unless two of its sign-ins
  overlapped.
* `LinksAreSpentOnce`: a reset link sets one password, however many requests present it.
* `ConsoleInv`: besides types, with nothing under way the page is the view of the hash and shows
  what the server holds (`PageIsTrue`), unless runs overlapped or a write was applied and its
  answer never came.
* `ClicksActOnce`: a click reaches one listener, however often views were drawn, unless renders
  overlapped.
* `SessionsSurvive`: the login page replaces the console only if the pair held is not alive, the
  operator signed out, an exchange failed (refused, lost, or answered with an error), or exchanges,
  sign-outs or a sign-in overlapped. An expired access token alone never ends a live session.
* `SignedOut`: then the tab holds no pair, and of the pairs ever issued only those are alive that it
  let go of unrevoked (`loose`, section 5).
* `EndedSessionsStayEnded`, `NoZombies`, `BadMutationDoesNotPoison`, `WritesHoldTheLock` and
  `ReadyMeansSellable` state
  what comments in the code claim and the code does not do (section 5).

## 4. Runs that pass

| Run | Instance | Checks |
|---|---|---|
| `endpoint` | 2 tenants, 3 callers (the two of one tenant interchangeable), 3 ids, 6 kinds of batch (creations of one id by both tenants among them), page limit 1, 3 requests, 1 rollback, collector | `ServerInv`, `PageComplete`, `CursorGapSafe`, `OwnRowsOnly` |
| `sync` | 2 browsers of one tenant, a project with a task, 2 + 1 local writes, 1 failure, collector, limit 2 | `ClientInv`, `ProjectsFaithful`, `TasksFaithful`, `OutboxForgetsOnlyLanded` |
| `sync_live` | the same with limit 1, 1 + 1 writes, 1 failure, no collector | `EventuallyConverged` |
| `sessions` | 1 member of 1 tenant, 2 handlers, 2 tokens, 2 operations of administrators, 1 new password | `TypeOK`, `SessionsEnd`, `LockoutHolds`, `LinksDie` |
| `sessions_admins` | a member and a platform-level account, 2 handlers, 5 operations of administrators, no sessions | `AdminGuarded`, `ErasureIsTwoStep` |
| `billing` | 1 app, 2 orders, 2 tiers of which one is registered, 2 requests; 3 changes at Stripe, 1 operation of an administrator, 2 faults, 4 in all | `BillingInv`, `RowsMirrorStripe`, `PaidInvoicesLiftNoSuspension`, `GraceIsNotRenewed`, `EventsAcknowledged` |
| `workspace` | 2 people, 1 app with 1 role, 2 invites, 2 requests in flight, 4 operations | `WorkspaceInv`, `OneOpenInvite`, `RevokedInvitesBringNobody`, `OneAccountPerInvite`, `GrantsAreCurrent` |
| `passkeys` | 2 users, 2 credentials of which one counts, 3 tickets, 2 sign-ins in flight, 3 answers, 1 change | `TypeOK`, `SessionsAreBound`, `ReplaysFail`, `RemovedPasskeysAdmitNobody` |
| `catalogue` | 2 apps, 3 prices, 1 tier name, a file of 2 lines, 2 requests in flight, 4 operations | `TypeOK`, `CatalogueIsTrue`, `NothingMadeTwice`, `SessionsAreVetted` |
| `web` | 3 accounts, 2 of them with one address in two workspaces, 2 browsers, 2 sign-ins in flight, 2 links, 2 requests, 4 operations, both modes | `WebAuthInv`, `RolesFollowLogins`, `LinksAreSpentOnce` |
| `console` | 1 tab opened on any view, 2 runs under way, 2 pairs, 3 starts, 2 faults, navigation to one other view | `ConsoleInv`, `SignedOut`, `ClicksActOnce`, `SessionsSurvive` |

Why the bounds are enough for the interesting cases: with limit 1 every page is full, so both
truncation rules and the loop over pages are exercised; two writes in one browser and one in the
other allow an edit during a request, a lost answer followed by a retry, and a conflicting write
in between; one failure at every point of a drain covers each of the three gaps between local
transactions. `MaxEdits`, `MaxRequests`, `MaxFaults` and `MaxPullLoops` are the only bounds, and
they are guards of local writes, sends, failures and the loop. The proofs need none of them.
`sync` does not check for deadlock, since a behaviour may end when writes and failures are used
up and no drain starts.

In `sessions` two handlers are every pair of operations in every interleaving, two tokens a sign-in
and its rotation, or two sign-ins, and two operations of administrators a lock and its release, or
a deletion and a purge; restarts are unbounded. `sessions_admins` leaves sessions out so that five
operations fit: two promotions or creations, two removals and a restore or purge. `Edits` and
`Terms` are the inputs of an update and of a change of access, chosen per run. `MaxTokens`,
`MaxChanges` and `MaxPasswords` are the bounds, and neither run checks for deadlock since an
instance whose tokens and operations are used up stops.

In `billing` three changes are enough for a subscription to fail, recover and end, or for a second
one to replace the first; two requests in flight are every overlap of two handlers, and the faults
are repeats and crashes on top. An unregistered tier exercises the price nobody registered. In
`workspace` two invites for one address, a revocation and two acceptances fit into four
operations, as do two administrators who demote each other. `passkeys` has one ticket of each
ceremony and one more, and a third answer so that a replay can follow two honest sign-ins. In
`catalogue` a file of two lines can be interrupted in each gap, and three prices leave one made by
hand. `web` has the two people with one address and a third in the first one's workspace, so that
one manages the other; four operations are two sign-ins, the second over the first's session, and
an unlock in each. `console` opens on each view in turn; two runs are every pair of overlapping
renders or handlers, two pairs a sign-in and an exchange or two sign-ins, and two faults an
expired token and a lost answer or an error. `MaxVersions`, `MaxTotal`, `MaxChanges`, `MaxOps`,
`MaxCount`, `MaxAnswers`, `MaxPairs`, `MaxStarts`, `MaxFaults` and `Menu` are the bounds. None of
these runs checks for deadlock: an instance stops when its operations are used up.

Fairness of `Billing`: Stripe delivers as long as an event is pending (it retries failed events
for days), and a handler that has begun goes on unless it crashes. Crashes and repeats are
bounded, administrators are under no obligation. `EventFeed` then asks that a backlog be worked
off, which needs that no event meets an error for ever: `Orphan` in `Billing`, the events of
tenants and apps that are gone, are acknowledged and not answered with an error each time.

Fairness of `Sync` (`FairSpec`): a drain that can go on does so (`SyncStatusButton` syncs on
mount, on every write and every 30 s, and each await of `syncOnce` ends), the server finishes what
it has taken, and a waiting request gets the advisory lock if it is free again and again, since
PostgreSQL queues lock requests. Nothing is assumed of orphaned requests, user actions, failures
or the collector.

## 5. Disagreements between code and comments

One run of the project fails, and is meant to:

| Run | Property | What the code does |
|---|---|---|
| `sync_resync` | `EventuallyConverged` | A re-pull that needs more than one page below the GC horizon is told to start over after each first page, for ever (`route.ts:74`). |

Six more configurations are kept beside it, to be run by hand; TLC finds each property violated:

| Configuration | Property | What the code does |
|---|---|---|
| `MCSyncZombie.cfg` (`MCSync`) | `NoZombies` | A tab closed between the merge and saving the first cursor has rows under cursor 0, which the horizon check exempts; a project collected meanwhile stays (`client.ts:170`). |
| `MCSyncNoLocks.cfg` (`MCSync`) | `ProjectsFaithful` | Without `navigator.locks` two tabs drain at once, and an older answer overwrites a newer one below the saved cursor (`client.ts:62`). |
| `MCSyncPoison.cfg` (`MCSyncEndpoint`) | `BadMutationDoesNotPoison` | A statement PostgreSQL refuses aborts the transaction; the loop's `catch` cannot undo that, and the batch ends in a 500 each time it is sent (`server.ts:131`). |
| `MCSyncClash.cfg` (`MCSyncEndpoint`) | `WritesHoldTheLock` | "every write path that touches Project/Task for a tenant must hold that lock" (`server.ts:11`): of two tenants that create one id at once, the later passes the check, waits, and then updates the other's row, holding the wrong lock (`server.ts:55`, `66`). The shipped client, whose ids are random, does not get there (`ClientsHoldTheLock`). |
| `MCSessionsEnded.cfg` (`MCSessions`) | `EndedSessionsStayEnded` | A sign-in or refresh that has passed its checks inserts its token after a reset has revoked "every session" (`account-flows.service.ts:319`); the token, from before the reset, lives on. |
| `MCCatalogueReady.cfg` (`MCCatalogue`) | `ReadyMeansSellable` | A customer stored under a test key is presented to Stripe under a live one (`billing.service.ts:263`), in a deployment the readiness check finds nothing wrong with (`billing-readiness.service.ts:34`). |

The models also show, in what their properties have to excuse:

* `auth.ts:17-21` says a role change takes effect within `ROLE_REFRESH_MS`. The refresh reads the
  local membership, which only a sign-in writes; a demotion at the platform reaches an open
  session when the account signs in again (`RolesFollowLogins`).
* The sudo cookie is cleared neither by signing out nor by a sign-in over the session (from a stale
  login page, a second sign-in in flight, or a password reset), so a window outlives its session by
  up to 15 minutes and is there in the next session of that browser, which may be another
  account's (`SessionsStayHome`, `left`).
* Opening the console's Users page with an expired access token sends two requests that both
  exchange the refresh token; the second exchange is a replay, which ends the session
  (`admin-ui.js:655`, `138-144`; `SessionsSurvive`, `forked`).
* Signing out shows the login page whatever the platform answers: after a 429 (all of `/auth` is
  throttled) or a 5xx the refresh token is alive, and the tab has forgotten it
  (`admin-ui.js:404-407`; `SignedOut`, `loose`).
* An exchange answered 429 or 5xx leaves the first 401 standing, so the login page replaces the
  console and the pair is dropped although the session is alive (`admin-ui.js:138-145`;
  `SessionsSurvive`, `SignedOut`).
* A sign-in whose answer is lost, one of two submitted at once, and one of an account that is no
  platform admin leave a live refresh token that no tab holds (`admin-ui.js:334-363`; `loose`).
* A render draws into the content node that is there when its loads are answered, so two that
  overlap both listen on the newer one, which the comment at `admin-ui.js:418-419` means to
  prevent (`ClicksActOnce`, `crossed`).
* A task write that creates its project's stub (`server.ts:99`) while another tenant creates the
  same id meets the unique key: the transaction is aborted and the batch, the good mutations
  included, ends in a 500, as in `MCSyncPoison.cfg` (`CreateStub`, `BreakTx`).
* Two checkouts of a workspace without a customer make two at Stripe, and the later one is stored
  (`NothingMadeTwice`, `doubled`).

## 6. Proofs

For any finite sets of projects and tasks, any tenants, browsers, tabs, values, page limit and
bounds (`NamesAssumption`, `BoundsAssumption`, `ClientAssumption`):

* `SyncProofs`: of the endpoint with any callers (`EndpointSpec`), `EndpointIsSound` (the inductive
  invariant `ServerInv`, types included), `EndpointPagesAreComplete`, `EndpointIsGapSafe` and
  `EndpointKeepsTenantsApart`; `SyncImplementsEndpoint`, by which they hold of `Sync` as
  `PagesAreComplete`, `CursorsAreGapSafe` and `TenantsAreIsolated`; and `TypeCorrect`. Of the real
  client, `OutboxIsNeverLossy` (`OutboxForgetsOnlyLanded`), `NothingIsRejected` and
  `ClientsHoldTheLock` (`WritesHoldTheLock`, which the endpoint alone does not keep), from
  `OutboxInvariant`: all these with or without Web Locks. From `DrainInvariant`, `ClientIsSound`
  (`ClientInv`), `ReplicaIsFaithful` (`ProjectsFaithful`) and `TasksAreFaithful`
  (`TasksFaithful`), where the browser has Web Locks. And, where moreover nothing collects
  tombstones, as shipped, `CaughtUpBrowsersAgree`: when no browser has anything left to push or to
  pull, all are `Converged`.

The invariant has three parts. *The endpoint* (`SyncEndpoint`). `PageComplete` alone is not
inductive: a transaction committing while an answer is on its way must not put a row between the
answer's cursors. It does not, because everything a transaction has written is newer than every
cursor its tenant has been given (`WritesAhead`); this in turn needs that cursors are handed out
only while no other transaction of the tenant has uncommitted writes, which is what the lock is
for (`Routing`: one transaction per tenant, a closed one has left nothing), that versions come
from one sequence (`SeqAhead`), that every cursor in circulation, orphaned requests included, was
handed out (`Cursors`), that a row stays with its tenant and one transaction at a time has written
it (`Isolation`), that a transaction which has written, or is about to write, a row of another
tenant found none of that id when it began (`Checked`), and that a tab is answered once for each
request (`OneAnswer`), so that a later transaction does not move the answer it is waiting for.
None of this trusts the caller: mutations may be any set the schema accepts, callers may stop
waiting at any time and leave their requests to arrive late. Versions stamped by another tenant's
transaction are excused there; with the real client there are none, which `Homes` (below) shows.
*The refinement.* Each step of `Sync` is a step of `EndpointSpec` or leaves the server alone; a
drain that begins or goes on is the caller's `Send`, and giving up, closing the tab and signing
out are `Abandon`. The map is the identity, but it needs two facts about the real client: every
cursor a browser has saved was handed out (`SavedCursors`), and a tab posts only when it waits for
nothing (`Turns`). *The drain* (`SyncInv`). `ProjectsFaithful` must survive the moment an entry
leaves the outbox: from then on the row's pending write no longer excuses the replica. So the
invariant says of every mutation sent that, once settled, a pull from the drain's cursor will
bring its row (`SentAreCovered`) or the row is a tombstone for something the replica no longer has
(`DeletesAreLocal`); that the request, the transaction and the answer are those of this drain
(`Channels`) and of no other of the database (`OneDrain`, where the Web Lock is needed); and that
after the merge the replica is faithful up to the cursor about to be saved (`MergedFaithful`). It
speaks of projects and tasks at once: `RowsFaithful` allows a task to be missing, since a
project's tombstone takes its tasks with it and a later pull does not bring them back. *The
outbox.* An acknowledged entry has landed (`AppliedLanded`), and what `deleteApplied` removes is
an entry of the snapshot whose row was answered. That leaves two ways to lose an edit. An older
answer could remove an edit made since: it cannot, since later edits have higher keys than the
snapshot (`SnapIsOldest`), and the captured entries of a row leave together (`LeaveTogether`), so
that what is posted for a row, its newest captured entry, stands for all that are removed, also
when a second tab drained them first. And the endpoint could reject a row, whose entry `syncOnce`
then drops: it does not (`NothingRejected`), because every id stays with the tenant it was made
for, along every way it can travel (`Homes`, with the home of each id as a witness that new ids
extend); so no transaction waits for another (`TxHomes`), and every version is stamped under its
own tenant's lock. This part needs no Web Lock. The whole is `IInv`, the conjunction of
`ServerInv`, an invariant of run `endpoint`, and `ClientInv`, one of run `sync`.
`CaughtUpBrowsersAgree` needs one thing more: faithfulness is about rows the server has, and a
browser might show one it never had or no longer has. `Backed` excludes that: what is shown is on
the server or pending (`ShownBacked`), pages bring rows that are there (`PagesBacked`), and an
upsert that has been settled left a row (`SentBacked`), so that the outbox may forget it.

The arithmetic of pages is in `PageLemma` and `NextCursorLemma`: what `take: limit` returns, and
that every row up to the cursor chosen from two tables' pages is in one of the pages. A batch is
handled once for all its steps by `ApplyEffect`: one mutation is settled, or goes on, and what is
written is newer than the sequence was and left with whose row it is.

For any people, apps, orders, tiers, credentials, browsers, links, requests in flight and bounds
(`BillingAssumption`, `WorkspaceAssumption`, `PasskeysAssumption`, `WebAuthAssumption`: absent
values are no values, bounds are numbers, registered tiers are tiers, a workspace and an address
are one account; likewise `SessionsAssumption`, `CatalogueAssumption` and `ConsoleAssumption`), the
following hold of the specifications of the other modules:

* `BillingProofs`: `BillingInvariant`; from it `RowsAreHonest` (`BillingInv`), `SuspensionsHold`,
  `GraceRunsOut`, and `NothingDropped`, the initial states and steps of the refinement of
  `EventFeed`; and with `MirrorInvariant`, `RowsMirrorHolds` (`RowsMirrorStripe`). A request that
  was not overtaken finds its row as it read it or not at all (`RequestsAreTrue`), and a paid
  invoice gets as far as writing only after it read `PAST_DUE`; that is why a suspension that was
  there when it read survives, and one that came in between marks the request as overtaken.
  `NoFreeAccess` needs that a paid invoice is of an active snapshot (`LogsAreTrue`). The
  refinement needs that pending and acknowledged events are apart and that every change has its
  event (`EventsAreTrue`), so that a new version is a new event, and the bound on versions follows
  from the bound on events. *The mirror* needs a second invariant: no state of a subscription is
  acknowledged that its row has not seen, unless the row's tenant or app is gone (`AckedAreSeen`);
  hence, when all are acknowledged, a handler whose event is not older than what was seen writes
  the newest. It remains that no other handler can write the row without being noticed. A
  subscription's end, or an invoice, that goes on to write has read a row that names its own
  subscription, or with an end none (`RequestsAreOwed`), and the lead's row names the lead
  (`LeadsAreTrue`), so a handler of another subscription either takes the lead, or was overtaken
  and says so, or is one of the ends the code skips; and what it skips is not of the lead, so
  skipping acknowledges nothing the row waits for (`ToldNothing`). An invoice agrees with the
  state of its own change (`OrdersAreOneKind`, `LogsAreTrue`). A purchase is an order for good and
  leads nothing.
* `SessionsProofs`: `Invariant`, `TypeCorrect`; from them `SessionsEndHolds`, `LockoutCorrect`
  (`LockoutHolds`), `LinksDieHolds`, `AdminGuardedHolds`, `ErasureCorrect` (`ErasureIsTwoStep`).
  The invariant says what each handler still knows of what it read (`Sound`): that the gates it
  passed are open unless a lock was set behind it (`PastGates`), that the hash its link was
  checked against is stored (`BoundToHash`), that another admin was there when it counted
  (`Counted`), that what it is about to erase is soft-deleted (`Erasing`), each unless it was
  overtaken; and that whoever carries on an ended session is one of those (`Carrying`), from which
  the tokens' property follows. Every action that changes a row marks the handlers behind it, and
  the lemmas on those marks (`LockedMarks`, `OvertakingMarks`, `RecountMarks`, `EndSessionsMarks`)
  carry all other handlers over a step at once (`SoundStays`). The action properties need,
  besides, which step takes an admin, a token or a row away.
* `CatalogueProofs`: `Invariant`, `TypeCorrect`; from them `CatalogueIsTrueHolds`,
  `NothingMadeTwiceHolds`, `SessionsAreVettedHolds`. What Stripe says of a price never changes but
  for its being archived, so what a registration has fetched is still true when it writes it
  (`Describing`), and the unique key gives one row per app, tier and cadence (`OneRowEach`). What
  a checkout has vetted holds or was taken back meanwhile (`Vetted`). A customer that exists and
  is not stored is in the hands of the one request that made it, as long as none was lost or made
  beside it (`Customers`). A running script knows every active price of its mode that it may look
  for (`Lines`), so a line finds its price or there is none.
* `WorkspaceProofs`: `WorkspaceInvariant`; from it its five properties. `AnAdministratorRemains`
  is not inductive: an administrator may be removed by another, never by itself (`Checked`
  remembers in flight that actor and target differ), and the actor, being an administrator still,
  or counted as `locked` when not, is who remains. What an undisturbed request checked still holds
  when it writes (`Undisturbed`), and an accepted invite has brought its account (`SpentInvites`),
  so a second acceptance meets the unique address.
* `PasskeysProofs`: `PasskeysInvariant`, `TypeCorrect`; from them `BoundSessions`, `RemovalHolds`,
  `RepeatedAnswersFail`. Tickets are of one ceremony and name the owner of the credential made for
  them (`Enrolled`), so an answer of a registration is none of a sign-in; ids of rows are never
  used again (`Reading`), so a sign-in that read a removed row cannot write the new one; a sign-in
  past the gate was active when its answer was accepted or later (`Active`); and a row's counter
  is that of the newest answer accepted (`Used`), so an answer accepted before does not advance
  it, unless an overtaken sign-in has written an older one back.
* `WebAuthProofs`: `WebAuthInvariant`; from it `SessionsAtHome` (`WebAuthInv`), `RolesAsTold`,
  `LinksOnce`. A sign-in under way is of an account of the platform (`Underway`); a cookie of a sudo
  window without a session is one whose session has ended, and an unlock whose session has not is
  of that session's account (`Windows`); a sign-in that no other disturbed finds
  the membership as it read it (`Lone`), so what it writes is what it was told (`Told`); whoever
  has a session is a member (`Enlisted`); a request that is about to set a password has deleted its
  link's row, alone, and the row does not come back (`Spent`).

* `ConsoleProofs`: `ConsoleInvariant`; from it `PagesAreTrue` (`ConsoleInv`), `SigningOutIsFinal`
  (`SignedOut`), `SessionsOutliveTokens` (`SessionsSurvive`), `ClicksAreHeardOnce`
  (`ClicksActOnce`), for any finite set of runs under way and any views to navigate to
  (`ConsoleAssumption`). *Runs* are in order (`Tidy`): what is under way has sent no request
  beyond those it waits for, so a run that has drawn leaves none behind. *Tokens*: pairs are
  numbered as they are issued (`PairsIssued`), and as long as no two exchanges, sign-outs or
  sign-ins overlapped, at most one request exchanges (`OneExchange`), and of the pairs alive all
  but those the tab let go of are the tab's or the one on its way to it (`OneAlive`); hence a
  refused exchange means that the server ended the session, and signing out leaves nothing alive
  that the tab could still have revoked. A request tried again carries a valid token
  (`RetriesAreValid`), so it does not meet a second 401. *Pages*: as long as nothing overlapped,
  one run at most is under way and the node has the listeners of at most one view
  (`OneListener`), so a click starts one handler; and a page drawn agrees with the server unless
  the run under way is about to draw again (`PageFollows`). The table `VIEWS` enters only through
  what each kind of handler does after its writes.

Each proof module has one lemma per action, or per group of actions that disturb the same parts,
one more lemma combines them, and the theorems follow by temporal reasoning.

## 7. Only model-checked

Liveness: `EventuallyConverged`, and the fairness of `EventsAcknowledged`. Both are outside the
prover's reach; by `CaughtUpBrowsersAgree` what is left of the first is that drains make progress.
Every safety property the runs check is proved.

## 8. Not modelled

* Request validation and session checks in front of the endpoints (they end a request before it
  has an effect), and the status shown to the user.
* The send budget of account mail and the template's rate limiter: counters in the memory of one
  process, over a sliding window of time.
* The revenue summary and the Stripe health probe, which read and add up; email (rendering and
  SMTP); the audit log, which nothing reads back to decide anything; configuration and password
  policy, pure functions the repository's tests cover; keys and guards, whose signatures are taken
  as given (purposes of tokens appear where a module needs them).
* The SDKs, whose key cache decides only when to ask again; the rest of the CLI and the scripts,
  one-shot tools; the rotation of app secrets and the brand record, values replaced as a whole.
* The failed first invoice of an incomplete subscription (`billing.service.ts:626-635` may set
  `PAST_DUE` on a suspended row): in `Billing` such a subscription gets no invoice.
* The platform console's update and removal of users where it is about tenant administrators
  (`users.service.ts:100-149`, `206`): it can take the last one of a workspace, so
  `AnAdministratorRemains` is about what the members page (`tenant.service.ts`) does.
* Profile fields, changes of address, the tenant export, the members page's own state.

## 9. Plan

1. Account flows: the send budget against its window, with the template's rate limiter.
2. An abstract specification of sessions as chains of tokens, with the forks that concurrent
   refreshes make, implemented by `Sessions` and used by `Console` for its server.
3. The members page's stale role sets, composed with `Workspace`.
