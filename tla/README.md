# Verification of solidarity-network

TLA+ models of the concurrent core of this repository, TLC configurations that
check them on small instances, and proofs of their main properties that hold for
every instance. Paths below are relative to the repository; `backend/` stands for
`src/apps/backend/src/modules/` and `frontend/` for `src/apps/frontend/src/app/`.

## 1. The system

A NestJS back end over PostgreSQL (Prisma, READ COMMITTED) serves an Angular
front end. Two kinds of account sign in: administrators (role `super_admin` or
`program_manager`, with a row in `AuthCredential`) and beneficiaries (credentials in
their own row). Every handler is an `async` function: between two `await`s it runs
alone, at an `await` any other handler may run. No statement outside a
`$transaction` is ordered with respect to another request's.

| Component | State it keeps | Operations | Talks to |
|---|---|---|---|
| Authentication (`backend/auth/auth.service.ts`, `auth.repository.ts`, `password-reset-token.service.ts`) | credential columns, `sessionVersion`, recovery tokens, the JWTs clients hold | login, change, forgot, reset | rate limiter, audit trail, email |
| Guard (`backend/auth/auth.guard.ts`) | none; reads the credential | admit or refuse a request | authentication repository |
| Rate limiter (`auth-rate-limit.service.ts`) | attempts, window and block per key, in memory | ask, register failure / attempt / success, prune | called before and after the awaits of its users |
| Administrators, Beneficiaries | account rows, program links, address | create, update, resend-access, search | authentication rows, program links, audit, versions |
| Benefits (`benefits.service.ts`) | name, description, category, active | create, update, update status | audit, versions |
| Charity programs | one row each | create, update, update status | authorization |
| Deliveries (`benefit-deliveries.service.ts`) | immutable rows with a mandatory, unique reference | register, list | reads benefits, beneficiaries, programs and administrators; audit, versions, email |
| Audit trail, entity versions (`backend/observability/`) | append-only rows | record, history, stateAt | called last by every write |
| Authorization (`authorization.service.ts`) | none | policies over roles and programs | every service |
| Public metrics, demo mode, email | a 60 s cache; none; none | counts; canned data; HTTP call | database; none; provider |
| Front end session (`frontend/core/auth/`, `core/interceptors/`) | session signal, two storages, cookie, expiry latch | validate, login, change, logout, expire; guards | API, router, other tabs |
| Front end lists and loading (`core/state/cached-list.store.ts`, `core/services/loading.service.ts`) | entries, requests in flight, timers | ensure, refresh, invalidate; begin, end | API, timers |
| Pages and forms | form state | submit, lookup | services above |

What is hard, and what makes each part correct:

* **Authentication.** A handler keeps a row it read across a bcrypt computation and
  an audit insert. Its properties relate what was read to what is stored when the
  result takes effect: no session outlives the password it was given for, no two
  passwords share a version, a token pays once, a password or email change leaves no
  older token usable.
* **Limiter.** A check before an await and its registration after it; expiry of two
  clocks (window, block); a restart forgets everything.
* **Trail.** Write, audit row and version are three transactions. Their numbers come
  from a maximum read earlier; order, retries, lost replies and crashes decide what
  the history says.
* **Access.** The user of a request and the rows it checks are read before its write:
  roles, links and rows may change in between. What a list shows and what the policies
  allow are written twice. Links are deleted and inserted in one transaction that does
  not see what an overlapping one inserts.
* **Lists.** A cache outlives its pages, a request outlives an invalidation, a save
  outlives the page that sent it; timers lock and unlock.
* **Session of a tab.** Answers arrive after the session they were asked under is gone;
  signal, storages and cookie are changed by different events and by other tabs; guards
  redirect each other; timers race with new requests.

`PROJECT.json` lists each hazard at its line with the property that covers it, or
why none does yet.

## 2. Modules

| Module | What it is |
|---|---|
| `AccountAccess` | credentials, sessions and recovery tokens under concurrent handlers |
| `AccountAccess_proofs` | types, sessions and versions, proved |
| `AccountTokens_proofs` | the properties of recovery tokens, proved |
| `BenefitHistory` | the writes of `BenefitsService` with their audit rows and versions |
| `ChangeLog` | abstract specification: an append-only log with one entry per write at most |
| `BenefitHistory_proofs` | types, contiguous numbers, paid losses, stable reads, proved |
| `BenefitLog_proofs` | `BenefitHistory` implements `ChangeLog`, its trail is true, no write is forgotten, proved |
| `ProgramScope` | the policies of `AuthorizationService` and the filters of the repositories, as operators |
| `ProgramAccess` | administrators, beneficiaries, programs, benefits and deliveries under concurrent handlers, over `ProgramScope` |
| `ProgramAccess_proofs` | its safety and action properties, proved |
| `RateLimiter` | the limiter's store with the four handlers that use it, time and restarts |
| `RateLimiter_proofs` | bounds on attempts and rates, blocks that last, proved |
| `CachedList` | one key of a `CachedListStore`: what each call does to it |
| `ListPages` | the six list pages over the caches of their services, with their saves and the server |
| `ListPages_proofs` | its safety properties, with those of one cell of `CachedList`, proved |
| `Loading` | the loading indicator: a counter and two timers |
| `ClientSession` | one browser tab: session, storages, cookie, guards, interceptors, with `Loading` |
| `ClientSession_proofs` | its safety properties, with those of `Loading`, proved |
| `MC*` | instances and symmetry sets for TLC |

`ProgramAccess` is composed of `ProgramScope` and the handlers, `ListPages` of
`CachedList` and the pages, `ClientSession` of `Loading` and the session. The back end
modules are not composed with each other: `AccountAccess`, `BenefitHistory`,
`ProgramAccess` and `RateLimiter` model different columns and rows of the same handlers,
and no handler decides in one by what it reads in another, except that the session guard
of `AccountAccess` comes before everything in `ProgramAccess`.

### AccountAccess

A request is a record in `req[r]` whose `pc` names the await it stands at and whose
other fields are the local variables it holds across it; each action is the code up
to the next await, that is one statement (or one `$transaction`).

| Variable | Code |
|---|---|
| `cred[a]` | `passwordHash` (as the password it verifies), `sessionVersion`, `mustChangePassword`, `email`, beneficiary `status` |
| `token[t]` | `PasswordResetToken` rows: unsent/live (`usedAt` null), used, gone (deleted), and whether `expiresAt` has passed |
| `jwts` | the session tokens signed so far |
| `orphan`, `spent`, and the fields `born`, `late`, `Session.pw` | history, for the properties only |

| Actions | Code |
|---|---|
| `Login`, `Reply` | `AuthService.login`: read and verify, then (after the audit row) sign what was read |
| `AdmitChange`, `CheckCurrentPassword`, `ChangeWrite`, `Invalidate`, `Reply` | `changePassword` and `AuthRepository.updatePassword` |
| `AdmitResend`, `ResendWrite`, `Invalidate` | `AdministratorsService.resendTemporaryPassword` and `updateCredential` |
| `AdmitUpdate`, `Update` | the updates of administrators and beneficiaries: email, status and token invalidation in one transaction |
| `FindRecipient`, `RetireTokens`, `PurgeExpired`, `InsertToken`, `SendToken`/`SendFails` | `forgotPassword` and `createToken` |
| `FindToken`, `ConsumeToken`/`RefuseToken`, `ResetWrite`, `Invalidate` | `resetPassword` and `consumeToken` |
| `Expire`, `Refuse`, `Abort` | time, a check that rejects, a failed statement or a process that dies |

Abstractions: hashing is perfect (a hash stands for its password); a login with a
wrong password changes none of these rows; limits, audit rows, cookies, CSRF, demo
mode and listing are left out. Any administrator may edit any beneficiary here:
program scopes make fewer edits possible, so every behaviour of the code is kept.

### BenefitHistory

`past[b]` is the sequence of states the benefit's row has been in; its last element is
the row. `audits` and `versions[b]` are the trail; `req` is as above; `lost` records the
writes whose version was given up and how many versions others had inserted since.

| Actions | Code |
|---|---|
| `Create`; `FindExisting` then `Update` | `BenefitsService.create`; `update`, `updateStatus` |
| `Audit` | `AuditTrailService.record`, whose failure is swallowed (the latch for a missing table included) |
| `ReadLatest`, `InsertVersion`, `Conflict` | the transaction of `recordVersion`: maximum, insert, and P2002 with its three attempts |
| `LoseReply`, `Fault` | a commit whose reply is lost (logged, not retried); a failed statement or a crash |

Beneficiaries and deliveries leave their trail by the same calls in the same order.
`name`, `description` and `category` are one value, since every property treats them
alike; `stateAt` is modelled for a version number, not for a time.

### ProgramScope and ProgramAccess

| Variable | Code |
|---|---|
| `admin[a]`, `ben[b]` | `Administrator` and `Beneficiary` rows with their program links; of a beneficiary the document, and of its address the country and one other part |
| `program[p]`, `active`, `deliveries` | status of a program, of the benefit; `BenefitDelivery` rows |
| `req[r]` | a request: the user `AuthGuard` found, the body, the row read, the links its transaction deleted |

| Actions | Code |
|---|---|
| `AdmitBenCreate`, `CheckBenCreate`, `BenCreate` | `BeneficiariesService.create` |
| `AdmitBenUpdate`, `ReadBeneficiary`, `CheckBenUpdate`, `DeleteLinks`, `BenUpdate` | `update`: the row found in scope, the merged row validated, the transaction |
| `AdmitAdmCreate`, `CheckAdmPrograms`, `AdmCreate`; `AdmitAdmUpdate`, `ReadAdministrator`, `CheckAdmPrograms`, `DeleteLinks`, `AdmUpdate` | `AdministratorsService.create`, `update` |
| `AdmitProgCreate`, `ProgCreate`, `AdmitProgUpdate`, `ReadProgram`, `ProgUpdate`, `AdmitBenefit`, `SetBenefit` | charity programs; a benefit's status |
| `AdmitDelivery`, `ReadPart`, `InsertDelivery` | `BenefitDeliveriesService.create`: four reads side by side, the checks, the insert |
| `Abandon` | a refusal, a failed statement, a crash |

The transaction of an update is two actions, since what its `deleteMany` sees and what
is committed by its end differ: `seen` holds the links it deletes, and a link inserted
by another update afterwards stays. The emails, names and the trail are in
`AccountAccess` and `BenefitHistory`. In every module a definition marked "Deviation of" is
a plausible bug that `PROJECT.json` uses to show that a property can fail; no action uses it.

### RateLimiter

Time is relative: an entry knows the age of its window and what is left of its block.
`Ask` then `Fail`, `Succeed` or `Abort` is a login or a password reset, with the awaits in
between; `AskAndRegister` is forgot-password or the public metrics; `DemoLogin` the demo
account, which clears the keys; `Refuse` an answer 429; `Tick` and `Restart` time and the
loss of the in-memory store, which the code accepts
(`docs/observability.md:130-133`). `pruneExpired` and `getState` are part of every action that
calls them. Addresses share nothing, so one is modelled. `recent[a][t]` is history: how many
requests of an immediate action were let through in this tick and the `t` before.

### CachedList and ListPages

A list is known by the version of its resource that the server read to answer it, so that
"older" and "lacks a change" have a meaning. `store` holds the cells by service and query;
`comp` is the page that is open, with its filter form, editor and dialog; `saves` are the
saves under way, those of pages that were left included. The pages differ in which query
`load()` takes, which other lists they ask for and what can be edited; these differences
are operators (`AdministratorsLoad`, `DeliveriesOptions`, ...), the rest is shared.

| Actions | Code |
|---|---|
| `Open`, `Type`, `Search`, `ChangePage`, `Refresh`, `ChooseProgram` | router and `ngOnInit`; filter form, `search`, pagination, `refresh`, program filter |
| `OpenCreate`, `OpenItem`, `EditItem`, `CloseDialog`, `CancelEditor`, `Submit`, `ToggleStatus` | the dialogs and `CrudFormController` |
| `DoSave`, `ChangeElsewhere`, `ReadList` | the server |
| `AnswerSave`, `LoseSave`, `AnswerList`, `LoseList` | the callbacks of a save (`startCreate`, `load(true)`) and of a list |
| `Tick`, `Unlock` | the cooldown and its timer |

### Loading and ClientSession

`tab` holds the session signal, the session and the local storage, the expiry latch, the
cookie, the page, the navigation under way and the indicator; `requests` the requests of
the tab; `issued` and `must` what the server knows. The cookie a request carries and the
CSRF token beside it are those of the moment it is sent; what its answer does happens when
it arrives.

| Actions | Code |
|---|---|
| `Guard` | `authGuard`, `loginGuard` (with its redirect of a recovery link) and the routes; one redirect per step |
| `SubmitLogin`, `SubmitChange`, `Ask`, `LogOut`, `ContinueToDashboard`, `GoToLoginAnyway`, `Goto`, `Reload` | login, first access, shell, unavailable and reset pages; a page of the shell that reads or writes |
| `ServeLogin`, `ServeChange`, `ServeOther`, `Revoke` | the API with its guard; an administrator's change or a recovery |
| `OtherTabLogsIn`, `OtherTabLogsOut` | the cookie jar and the local storage are shared (external) |
| `LoggedIn`, `PasswordChanged`, `Validated`, `LoggedOut`, `Protected` | answers: error interceptor, then the indicator, then the caller |
| `Lose` | the browser's error or the timeout of the interceptor, before or after the server has acted |
| `ShowTimer`, `HideTimer` | the timers of `LoadingService` |

`mixed` is history: it says that another tab, a late validation or a late logout has
changed the cookie or the storage under the session.

## 3. Runs

| Run | Instance | Shows | Distinct states |
|---|---|---|---|
| `account_races` | 1 administrator, 2 passwords, 1 token, 3 requests, 2 password writes, 1 abort | types; sessions sound; versions name one password; tokens spent once | 390 k |
| `account_tokens` | 1 root administrator, 1 beneficiary, 2 emails, 2 requests, 1 password write, 1 abort | which tokens stay usable after a write, an email change, a crash; no password without a mailbox | 669 k |
| `account_live` | 1 administrator, 2 tokens, 2 requests, no abort | stale tokens die | 157 k |
| `account_onetoken` | the same without fairness | **violated**: two unused tokens at once | – |
| `history_races` | 1 benefit, 2 requests, 4 writes, 1 fault | the six properties of the trail and the refinement of `ChangeLog` | 646 k |
| `history_live` | 1 benefit, 2 requests, 4 writes, no fault | every write is recorded, or given up after three lost attempts | 308 k |
| `history_latest` | 1 benefit, 2 requests, 3 writes | **violated**: the last version is not the row | – |
| `access_races` | the root, a manager of one program, a newcomer; 2 beneficiaries, 2 programs; 2 requests at a time, 3 in all | who may write what; what writes based on older reads may do; filters agree with policies; deliveries were eligible | 325 k |
| `limiter` | login and forgot-password, limit 3, window 2 ticks, blocks of 2 and 8; 2 identifiers, 2 requests | attempts bounded with requests in flight and across windows; blocks last, and end | 68 k |
| `lists` | each service alone with 5 user steps, two pairs that share lists with 2; 2 changes, 1 lost request | no list stuck, going back or locked for ever; when a list lacks the user's own change | 380 k |
| `client` | a manager and a beneficiary with a temporary password; 2 requests at a time, 2 tokens, 3 acts of users, tabs or administrators | the latch, session in step, live sessions that end only for a cause, indicator, navigations that end | 315 k |
| `arrives` | a case worker | **violated**: redirected to the home page for ever | – |

**Bounds.** `MaxVersion` and `MaxWrites` bound counters; `MaxAborts` and `MaxFaults` bound
failures; the sets bound how many accounts, tokens and requests there are. The races
need two writers and a bystander: three requests let a login overtake two password
writes. Different administrators share only the email constraint, so one of each kind
is enough for the token properties; benefits share nothing, so one is enough. Four
writes let one request lose three attempts to another. The bounds stop the models,
which is why deadlock is not checked: in the code a request may always arrive.

In `access_races` two requests are enough for every pairwise race of the handlers, and the
third call lets a request act on what the first two left; patches meet in the two columns
that are validated together and in links that differ. In `limiter` the proportions of the
code are kept (a login's block is as long as the window, a recovery's is longer) and the
window is long enough for attempts at its two ends; two requests in flight show the
overshoot. In `lists` five steps reach an editor, its save and what comes after; two
versions tell older from newer; services share nothing but the pairs given. In `client`
two requests give every order of two answers, two tokens an older and a newer session,
and three acts a login, what replaces it and what follows.

**Fairness.** Only the continuation of a request in flight is weakly fair: Node runs
every continuation that is ready. Arrivals, expiry, aborts and faults are not. In
`FairSpec` a continuation is any one of the statements that may come next; for mail,
either outcome. In `RateLimiter` only time is fair: nobody has to ask or to answer. In
`ClientSession` the router goes on by itself (`Guard`), and each request ends, with an
answer or without (`Deliver(s) \/ Lose(s)`): every request has the timeout of
`backendTimeoutInterceptor`. Neither the server nor the user is fair.

**Symmetry** is used in the safety runs over requests (and other model values that no
action tells apart), never with liveness.

## 4. What the violations say

* `OneUnusedToken`. `docs/observability.md:139-140` says that recovery "invalidates
  previous tokens for the account". `createToken` retires the old tokens and inserts the
  new one in separate statements, so two overlapping requests leave two usable tokens.
  Both die with the next password write (`StaleTokensDie`).
* `LatestVersionIsStored`. `docs/entity-versioning.md:17` promises simple and reliable
  point-in-time reads. Numbers are given in the order in which versions are inserted,
  not in which the row was written: after two overlapping updates the last version may
  show a row that was already overwritten. Every version still shows a state that was
  (`TrailFromHistory`).
* `EveryRoleArrives`. `README.md:72` lets a case worker "Authenticate, maintain the account
  session, and complete a required password change". `resolveHomeUrl` sends every
  administrator to `/dashboard`, whose route is for the other two roles; `authGuard`
  redirects to `resolveHomeUrl()` again, without end. `NavigationsSettle`, which the other
  run checks, exempts exactly such roles.

Also from the models, where no document promises otherwise:

* A version's diff may contain the changes of another writer, since the row it starts from
  is read before the update.
* Two overlapping updates of a beneficiary's links leave the union of both
  (`AssignmentsWithinScope` says how far that goes); two overlapping edits of an address
  lose one of them (`UnsentFieldsSurvive`), and edits of document and country may leave a
  row that neither would have been allowed to write (`OnlyLateUpdatesInvalidate`).
* A login of the public demo account, and any success, clears the failures counted for the
  caller's address. More logins than the limit pass when they are under way together, and
  one of them that succeeds lifts the block that the others have set. No request that is
  sent after a block began can lift it (`BlocksLast`), one of the demo account neither.
* A missing audit row is noticed by nothing: the version is recorded all the same
  (`WritesAccounted`).
* After a save the page's list is invalidated, but a request for it that is already under
  way is shared and may bring the list from before the save (`docs/observability.md:174`:
  "Mutations invalidate the affected query"). Other queries, the options of other pages and
  the lists of the next user of the tab stay as they were until refreshed by hand, and so
  does the page's list when the answer to a save is lost. On the administrators' and the
  programs' pages that reload takes the filter text as typed, sent or not.
* The credential generated for a new account is set and cleared by `startCreate` in the same
  turn (`beneficiaries.state.ts:386-391`, `administrators.page.ts:367-372`): no page shows it.
* A late 401 of an earlier session, or a late refusal of a validation, ends the session that
  was opened since, and a late validation replaces it by its own; after another tab has
  changed cookie or storage, so does the refusal of a CSRF token that is not the cookie's.
  `LiveSessionsEndForCause` says that no other answer, and no lost request, takes a session
  that the server accepts. A logout that fails leaves the cookie, and the next visit of the login
  page signs the user in again; `INVALID_DEMO_TOKEN` is not among the codes that end a
  session.

## 5. Proofs

Every invariant and every action property that a run checks is also a theorem, as is the
refinement; so is, without a run, that a super administrator remains (`SuperAdminStays`),
which follows from the guard of every update. The theorems hold for all values of the constants that satisfy the named
assumptions, which TLC evaluates on every run:

* accounts are of one kind (`AccountsAssumption`, `RowsAssumption`), super administrators and
  roots are administrators, there is a root (the seed creates it);
* a CPF is a document, the bodies of requests are among those the DTOs admit;
* `Nil` is none of the values it stands beside;
* counters that are bounded in the guards have natural numbers as bounds; versions, limits,
  blocks and the cooldown are as in the code: limits, the window and the cooldown are at
  least one, a block is at least as long as the window (`LimitsAssumption`);
* the requests of `RateLimiter` and the slots of `ClientSession` are finite sets, since they
  are counted. All other sets may be infinite.

Each proof has the same layout: lemmas about the operators the actions are built from, one
lemma per action (or per family of actions) that it keeps the inductive invariant, a theorem
for `[]IInv`, and the properties from it.

* `AccountAccess_proofs`. `TypeOK` alone is not inductive: an action uses the account,
  token or password in its slot, so `TypeInv` adds what each place of a handler holds.
  `SessionSound` and `VersionNamesOnePassword` follow from `ClaimsBounded`: whoever can
  produce a session, now or later, holds a version no larger than its account's row, and
  with an equal version holds the row's password. A password write makes the row's
  version larger than all claims, so the new claim shares it with none. Results:
  `TypeCorrect`, `SessionsAreSound`, `VersionsNamePasswords`.
* `AccountTokens_proofs`. `RecoveryInv`. Two of the four properties carry themselves once the
  types are known: a stale token is usable only while an invalidation is pending or lost
  (`LiveTokensAreCurrent`), and a token for an old address was inserted late
  (`LateTokensOnly`). `TokenSpentOnce` needs `TokensAccounted`: a token that can still be
  consumed has paid for nothing, and of two handlers that hold a consumed token one at most
  is about to pay with it. `WritesHaveMailbox` needs `MailboxKept`: whatever leads to a
  password write (a session, a token, a slot) belongs to an account with an email, and no
  update removes an email it finds. Results: `TokensStayAccounted`, `TokensPayOnce`,
  `WritesRetireTokens`, `OldMailOnlyWhenLate`, `PasswordsHaveMailbox`.
* `BenefitHistory_proofs`. `RecordInv` adds to the types what a request knows of the
  maximum: at its insertion the number it computed is at most the latest plus one, and
  each failed attempt is behind at least one version inserted since it began. With the
  unique index this makes the number inserted exactly the next one (`InsertEffect`).
  Results: `TypeCorrect`, `NumbersAreContiguous`, `LossesArePaidFor`, `ReadsStayStable`.
* `BenefitLog_proofs`. For the refinement a version inserted must be the entry of a write
  that has none: `WritesOwned` says that a write is recorded only by the handler that
  made it. Each step then is a `Write` (a commit), a `Record` (an insertion) or a stutter
  of `ChangeLog`. That the trail shows what happened needs the same of what the handlers
  still hold (`HandlersFromHistory`); it stays true because rows are only appended to their
  past. That a write is recorded, pending or lost, and only one of these
  (`WritesAccounted`), needs to know that an idle slot has no benefit (`FreeSlots`).
  Results: `OwnershipInvariant`, `VersionsImplementLog`, `TrailIsTrue`, `NoWriteIsForgotten`.
* `ProgramAccess_proofs`. The invariant says what each place of each handler has read and
  checked: its user was served by the policy of the route (`Entitled`), its links and the row
  it read were in scope (`Scoped`), the merged row was valid (`Validated`), it is not about
  a root (`RootSpared`), its delivery counted only what held (`Collected`, `HeldNoted`).
  Nothing is said of the tables themselves, which others change: that is what the late
  writes of the properties are about. An effect lemma per write then gives the action
  properties; `ScopeAgreesWithPolicy` needs only the types and `ProgramScope`. Results:
  `SlotsKeepTheirChecks`, `TypeCorrect`, `SuperAdminStays`, `ListsShowWhatPoliciesAllow`,
  `WritesAreEntitled`, `AssignmentsStayWithinScope`, `OutOfScopeOnlyWhenLate`,
  `UnsentFieldsKeepTheirValue`, `InvalidOnlyWhenLate`, `InsertedDeliveriesWereEligible`.
* `RateLimiter_proofs`. The bound on attempts is not inductive, since a request in flight
  may still fail: `EntryOK` bounds the attempts together with the requests in flight that
  hold the key, and an entry without a block is below the limit. For the rate, `WindowOK`
  relates an address entry to the history: the first request of a window is as old as the
  window, so one less is younger; nothing is younger than a block; and the window before
  adds at most the limit less two. Results: `EntriesStayConsistent`, `TypeCorrect`,
  `OvershootIsBounded`, `RateIsBounded`, `BlocksLastToTheirEnd`.
* `ListPages_proofs`. `CellOK`: a cell has one request exactly when it is in flight, and
  none otherwise; what was read for it is no older than what has been shown; nothing shown or
  acknowledged is newer than the resource; the lock and its timer agree. One lemma per
  operation of `CachedList` keeps it, the actions of the pages only apply these. A save has
  counted its change (`SaveOK`), so that an acknowledgement is never ahead of the server.
  Results: `CellsStayConsistent`, `TypeCorrect`, `BusyEnds`, `ListsOnlyAdvance`,
  `StaleListsWereShared`, `LocksEnd`.
* `ClientSession_proofs`. `SessionInStep` is not inductive: a session is written to one of two
  storages and read from the first that has one, so `SessionOK` adds that at most one has a
  copy, and `AnswerOK` that the answer to a validation is about the token it was sent with.
  `LatchIsReleased` and `IndicatorFollows` are stated for a tab and its requests (`Pair`) and
  kept by each way of sending a request and of taking its answer; the expiry latch goes up
  only together with a logout that is sent. An answer takes effect long after the server gave
  it: for `LiveSessionsEndForCause`, `AnswersGrounded` says that what an answer under way
  tells of its token is still so. A refused token is dead, or its CSRF token was another's, and
  the token of a password change that succeeded is dead; tokens never come back to life, and
  no step but the server's own changes an answer. Results: `TabStaysConsistent`,
  `TypeCorrect`, `LatchEnds`, `SessionStaysInStep`, `LiveSessionsAreKept`, `IndicatorIsRight`.

Model-checked only: the liveness properties `StaleTokensDie`, `RecordedOrGivenUp`, `BlocksEnd`
and `NavigationsSettle`, which need fairness and `ENABLED` and so are beyond the prover, and
the three expected violations, which are counterexamples. The instances that MC modules give
the constants are TLC's alone.

## 6. Plan

The models are complete to the extent section 7 leaves open, and their safety is proved. What
could still be added:

1. The safety half of the liveness properties, as invariants a proof can state: what a slot
   waits for is always under way (for `RecordedOrGivenUp` it follows from `WritesAccounted`).
2. An abstract specification of the list cache (a reader that sees a growing history of its
   resource) and of the limiter, with refinement theorems like that of `ChangeLog`.
3. The hazards of `PROJECT.json` that have a note in place of a property.

## 7. Not modelled

* Templates, the HTTP call of the mail provider, configuration, filters and logging: I/O and
  start-up. The constants of demo mode (data of some 770 lines). The seed is only where
  `ProgramAccess` starts.
* Queries, histories by time and the beneficiary portal only read.
* The contents of forms: validation messages, the postal code lookup (a late answer may
  overwrite what was typed since), selects, the options of a delivery's beneficiaries when
  two programs were chosen one after the other. An editor is known by its row and its mode.
* The dependents of a beneficiary, which the code has switched off (`assertDependentsDisabled`).
* The one-minute cache of the public metrics: its figures may be a little older than their
  stamp.
* Origins, cookie attributes and headers; the expiry of a session token, which to the client
  is one more way of being refused.
