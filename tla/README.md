# Nanjing pet care marketplace: specifications and proofs

TLA+ models of the API under `apps/api/src`, of the pages of `apps/admin` and
`apps/miniprogram` that keep state of their own, and of the acceptance runner in
`scripts`; the runs TLC makes over them, and the theorems TLAPS proves about them.
Paths below are relative to `apps/api/src` unless they start with `apps/`,
`packages/`, `prisma/`, `scripts/` or `docs/`.

## 1. The system

An owner books a visit (cat feeding, dog walking). The order is paid, or its fee
is confirmed by hand; dispatch invites approved providers in waves of three; the
first to accept takes the order, checks in, uploads evidence and submits a
report; the owner, or a scheduled job, confirms it and the provider's settlement
is written; support may open a dispute and rule on a refund. One Node process
serves the API over one PostgreSQL database. All durable state is in rows; what
runs concurrently are the handlers of requests, each a sequence of awaited
statements, and the jobs. A handler that is not one transaction can be
interleaved with any other between two of its statements. The pages in front of
it remember what they asked and draw conclusions from answers that are late, lost
or for a page that is no longer there.

### Inventory

| Component | State | Operations | What makes it correct |
|---|---|---|---|
| Dispatch (`dispatch/dispatch-service.ts`, `provider-service.ts`) | `Order.status`, `assignedProviderId`; `DispatchInvitation` rows; `ProviderProfile` review and availability | `start`, `expireWave`, `acceptInvitation`, `failClosed`, `review`, `setAvailability`, `apply` | one taker, chosen among the invited; answers are final; waves in order; alerts only for orders that were given up |
| Scheduled jobs (`jobs.ts`) | none | `runDue`: expire the waves due, then confirm old reports | an overdue wave is handled in the end |
| Refunds, settlement (`payments/refund-service.ts`, `settlement-service.ts`) | `Refund`, `Payment.status`, `Settlement` | `requestCancellation`, `confirmOrder`, `autoConfirmDueOrders` | rows agree with each other and with the gateway; splits add up; a report is settled |
| Disputes (`disputes/dispute-service.ts`) | `Dispute` | `openDispute`, `resolveDispute` | an open dispute freezes the money, is decided once, and costs the price at most |
| Fulfillment (`fulfillment/fulfillment-service.ts`) | `FulfillmentReport`, `MediaEvidence` | `checkIn`, `issueUpload`, `attachEvidence`, `submitReport` | the order moves only from the state that was read; evidence belongs to a verified upload |
| Payment gateways (`payments/payment-gateway.ts`, `adapters/*gateway*`) | external | `createPayment`, `verifyWebhook`, `refund` | refunds are asked for once |
| Order intake (`orders/order-service.ts`, `catalog/quote-service.ts`) | `Order`, `Payment` | `create`, `quote` | one order for a key; the price is the catalog's |
| Payment confirmation (`payments/payment-service.ts`, `pilot/manual-fee-service.ts`) | `Payment`, `Order` | `handleWebhook`, `confirm` | paid once, whatever is delivered twice |
| Operations catalog (`catalog/operations-catalog-*`) | one row with a version | `getPublic`, `update` | no update is lost |
| Object storage (`adapters/local-pilot-object-storage.ts`) | files, reservations, a lease file | `issueUpload`, `acceptUpload`, `verifyUpload`, `readObject`, scavenging | quotas hold; an accepted object is complete or absent after a crash |
| Sessions, invites (`auth/pilot-session-service.ts`, `failed-login-limiter.ts`) | `PilotInvite`, `PilotSession`; queues in memory | `redeem`, `authenticate`, `revoke`, ... | an invite is used once; a revoked session is dead |
| Owner access (`auth/public-owner-access-service.ts`, `guest-owner-limiter.ts`) | `OwnerRecoveryCredential`; counters in memory | `ensureOwnerSession`, `issueRecovery`, `rotateRecovery`, `recover` | limits hold; one recovery token is valid |
| Staff accounts (`auth/staff-credential-service.ts`) | `StaffCredential`; limiters in memory | `login`, `changePassword`, `resetPassword`, `setDisabled`, ... | no session outlives the password it was opened with; lockout |
| Pets, addresses (`pets/*`) | `Pet`, `ServiceAddress` | `create`, `rename`, `list`, views | one profile for a request id |
| Conversations (`conversations/*`) | `OrderMessage` | `list`, `send` | paging misses no message |
| Domain packages (`packages/domain`) | none | pricing, settlement, ranking, transition table | arithmetic |
| Setup commands (`pilot/bootstrap.ts`, `create-staff.ts`, `bootstrap-local-production-admin.ts`) | the first `User` with the role ADMIN | each makes it, or an invitation for it | one administrator, whatever overlaps |
| Admin web client (`apps/admin/src/pilot`) | session and credential shown (`PilotApp`), booking attempt (`OwnerPilotWorkspace`), catalog version (`OperationsSettingsPanel`), tasks (`ProviderPilotWorkspace`) | log in and out, recover, book, work on tasks | shows the cookie's account; knows what became of an attempt; shows nothing older than its answers |
| Mini program (`apps/miniprogram`) | booking attempt, pending photo | book, work on a task | the same, and a photo is attached once |
| Live acceptance (`scripts/run-pilot-live-acceptance.mjs`, `pilot-live-state.mjs`, `pilot-live-children.mjs`) | a marker file; child processes, a container, a temporary directory | run, restart the server, clean up, reclaim | what exists is named by the marker; what a killed run left is removed |
| Read model (`pilot/pilot-read-model.ts`) | none | projections, in several queries | a list is no older than its request |
| Composition, configuration, deployment scripts | none of their own | wiring | - |

### How the parts interact

`Order.status` is the meeting point. Fee confirmation, acceptance, check-in,
report and confirmation compare the status (and mostly the version) in the
statement or the Serializable transaction that writes it. Cancellation, opening
and resolving a dispute, and the creation of a wave, act on what an earlier
statement read. The payment gateway is called between a read and a transaction.
`provider-service.review` withdraws invitations of any order.
`staff-credential-service.setDisabled` takes a provider out of the candidates.
The jobs read the invitations and then call dispatch for each order in turn.
`attachEvidence` reads the uploaded object back through the object storage before
it writes the row of evidence. The pages send one request at a time per form, but
lists, sessions and credentials overlap; a submission carries a key of the page,
which is how a retry finds the order there is.

### What is hard here

Interleaved handlers (two starts, an acceptance against a give-up, two rulings),
values read before an await and used after it (the wave number, the assignment,
the settlement), external calls before the row that records them, clock values
that are older than the state they are compared with, requests that die between
two statements, the jobs that must find every order that waits, and sequences of
legal calls (a dispute after a dispute). For the storage and the acceptance runner:
crashes between two operations on files, and leftovers the next process must
understand. For the pages: answers that are lost, that overtake each other, or
that come after a retry. For the limiters: requests that overlap between a check
and what it counts. `PROJECT.json` lists each hazard at its line with the
properties that cover it.

## 2. Plan

1. `Assignment`: the abstract contract of dispatch. *Done.*
2. `OrderDispatch`: dispatch and the jobs, statement by statement, several
   orders, providers and requests; refines `Assignment`. *Done, with proofs in
   `OrderDispatch_proofs`.*
3. `OrderMoney`: cancellation, settlement, disputes of one order. *Done, with
   proofs in `OrderMoney_proofs`.*
4. `StaffAccess`: login and authenticated requests against resets, changes and
   disabling; lockout. *Done, with proofs in `StaffAccess_proofs`.*
5. `OrderIntake`: an owner books, the catalog changes, answers are lost; and
   `FeeConfirmation`: webhook and manual confirmation. *Done, with proofs in
   `OrderPath_proofs`.*
6. `EvidenceVault`, the abstract contract of the evidence store, and
   `PilotStorage`, the local directory that implements it. *Done, with proofs in
   `EvidenceVault_proofs` and, of the refinement, in `PilotStorage_proofs`.*
7. `OwnerSession`: sessions, guests and recovery credentials as the page sees
   them; `GuestLimiter`; `PilotInvites`: setup commands, invitations and the
   limiter of guesses. *Done, with proofs in `OwnerAccess_proofs`.*
8. `ProviderTask`: the two pages of the provider over one order. *Done, with
   proofs in `OrderPath_proofs`.*
9. `LiveAcceptance`: the acceptance runner and its marker. *Done, with a proof in
   `PilotStorage_proofs`.*
10. *Left:* conversations, whose pages are cut by `createdAt`; the login limiters
    of staff.

Each component has one module and each run a module `MCx` with the small instances,
which may hold several components that share no state: a behaviour of such a run is
a behaviour of one of them, chosen by `part` in its initial state. Proofs are grouped
the same way: `OrderPath_proofs` is about what `MCOrderIntake` composes,
`OwnerAccess_proofs` about `MCOwnerAccess` and `PilotStorage_proofs` about
`MCPilotStorage`; the others are about one component. `Sums` has lemmas about totals
that two of them need. No module uses a RECURSIVE operator.

## 3. Modules

**`Assignment`** promises, for every order: it is opened, offered to providers,
taken by one provider who holds an offer or closed; offers may be withdrawn at
any time. Nothing is ever reopened and the taker never changes.

**`OrderDispatch`** has the order rows (`status`, `assigned`), the invitation
rows as a function on (order, provider, wave), which is their unique key, the
profiles (`review`, `disabled`, `available`), the audit entries and alerts of
`failClosed`, a clock, and `request`: what each slot of the API is doing, with
the local variables of its handler. An action is one statement of a handler
(`SweepIneligible`, `VoidIneligible`, `ReadCurrent`, `LoadOrder` and
`RankCandidates` are those of `start`), or one transaction (`AcceptInvitation`, and
`CreateWave`, whose only guard is the unique key). A handler
gets its clock value when it begins and keeps it. `Abort` ends a handler between
two statements. Fee confirmation, check-in and report are single steps, because
they compare status and version when they write. Ranking keys are data:
`TopOf` allows any choice of `WaveSize` candidates. `Suited` stands for service
type, zone and radius, which do not change. `raced` is a history variable, which no
action reads: the orders of which a `start` created its wave after another `start`
had looked for one and before that one created its own.

**`OrderMoney`** has one order, as no money handler touches two: status, version,
payment, refund rows, settlement, disputes, what the gateway paid back, and the
slots. Amounts are exact (fen), the split is that of `packages/domain`. A gateway
call is an action of its own between the read and the transaction; the gateway
chosen at start-up is a variable that never changes. The refund id of the fake
gateway depends on the amount alone, so its second refund of the same amount
violates the unique key; WeChat's are fresh. `overtaken` is a history variable,
which no action reads. Cancellation, `openDispute` and `resolveDispute` write the
order by its id, long after they read it; `overtaken` has the kinds of handlers of
which one was overtaken, when somebody else wrote in between what it will not look
at again (`Overtakes`). The order and the earlier refund of
a cancellation are read by two statements which the model reads at once: the
runs lost this way end without a write.

**`StaffAccess`** has the `StaffCredential` rows (`credential`, `disabled`), the
`PilotSession` rows (`session`, `revoked`), a clock and the slots. A password
is the number of passwords written before it, which is what a fresh salt makes of
a hash, and whether somebody else chose it (`mustChangePassword`). `session`
remembers the password a session was opened with; the code does not, and no
action reads it. A login takes its clock value, reads the row, verifies, and
commits in a Serializable transaction that compares the row with what was read;
a difference or a conflict starts it again (`Retry`). `authenticate` is three
queries and an update of `lastSeenAt` that has to find the session live still: the
session, its account's row (Prisma sends a query of its own for an `include`)
and the update are steps, the user's row does not change. `changePassword` knows
what `authenticate` returned and takes a new clock value after hashing. The
limiter in memory only turns logins away early, which `Abandon` does, as it does
for a request that dies. An administrator's account is one that nobody resets or
disables. Invites (in `PilotInvites`) and WeChat open sessions without a password;
they are not in this module.

**`OrderIntake`** has an owner's page, of the web client or of the mini program
(`app`), the profiles and orders written under its keys, the catalog's version
and whether the service is open, and the calls on their way. A call is served
statement by statement (`Serve`), with the race on the unique key and the replay
after it; its answer is heard, ignored because the page has moved on, or lost. The
page's state is what it keeps of the attempt: its key, whether its outcome is
doubtful, what was confirmed. Prices, texts and addresses are data; the quote is
compared by the catalog's version.

**`FeeConfirmation`** has orders with version, payment and key, and calls: the
webhook and the administrator's confirmation, each a read outside and a
transaction that compares the version. Keys may be used again for another order.

**`EvidenceVault`** promises, for each key of an upload: a place is held within
the quotas of its order and of the directory, given up or kept; what is kept stays
for ever; an upload is confirmed, and a row of evidence written, for kept places
only.

**`PilotStorage`** is the local storage. `disk` has the files of each key,
`manifest` and `leases` those of the directory, `process` and `lane` what each
process and its one mutation at a time is doing. An action is one operation on
the file system, or several that no other process can see apart. A file may be
torn by a crash while it is written. `FailWorking` and `FailRelease` let any
operation fail, with the cleanup of the code's `catch` and `finally`. The lease
protocol (listing, staleness, heartbeat, waiting, quarantine) is modelled with a
clock that ticks while somebody waits; a beating owner's lease does not get
stale. `verifyUpload` reads without the lease.

**`ProviderTask`** has one order, its provider's web page and mini program page,
the evidence rows and stored objects, and slots for calls. A list is served in two
statements, the order and its evidence; a page hears an answer only if no newer
request made it outdated. An answer that is lost frees its slot, an unanswered
call may still be served, or fail. The check-in window, the contents of checklists
and reports, and the type and size of photos are abstracted; `capturedAt` is one
of two values. A reload of the mini program's page that finds nothing new is left
out.

**`OwnerSession`** has the browser's cookie, which all tabs share, one tab with
its state (session, credential card, what it waits for), the `PilotSession` rows,
the recovery tokens, and the calls on their way. The page's effects run when React
runs them, which is after the answer that caused them. Another tab may change the
account or rotate its credential (`SwitchElsewhere`, `RotateElsewhere`). A call is
served in one step, which is the server's transaction; a lost answer is lost as a
whole. A page reloaded in the middle, staff sessions and `SaveName` are left out.

**`GuestLimiter`** has the times of the creations that count (`made`, of which
`gone` have left the window), the requests that create, wait or were woken, and
the queue, as `guest-owner-limiter.ts` keeps them in memory. The number of
reserved creations is the number of requests that create. The rate limit of the
route and requests that are aborted before they come are left out.

**`PilotInvites`** has the administrators, the setup commands with the snapshots
of their transactions and the advisory lock, the invitations with their use, and
`failed-login-limiter.ts`: a queue for each client and its window of failures. The
database is external: a serializable transaction that read what another one wrote
since does not commit. Users that a code for owners or providers makes are not
kept track of.

**`LiveAcceptance`** has the lanes of each runner (its script, the restart a test
asked for, the cleanup), the marker and the temporary file it is renamed from, the
servers, the container and the temporary directory of each run. `ReclaimsAlone`
states the assumption that no runner reads or takes the marker while another one
deals with a marker it found; `acceptance_race` drops it. Two more assumptions
are about docker: it has settled a start attempt before anybody looks for the
container, and answers later than a file that is being written is there.

Definitions named `X_Slip` are `X` with a plausible programming slip. They are
used by no specification: putting `X_Slip` in the place of `X` must break the
property that `X` is there for, and TLC confirms that for every property of
every passing run.

## 4. Runs

| Run | Instance | Question |
|---|---|---|
| `dispatch_race` | 1 order, 2 providers, waves of 1, 2 rounds, 2 slots, 1 administrative change, 1.45 million states | any two handlers interleaved: `AssignedByAcceptance`, `StatusMatchesAssignment`, `WavesInOrder`, `AlertsAreTruthful`, `OneWaveAtATime`, `ResponsesAreFinal`, refinement `ImplementsAssignment` |
| `dispatch_live` | 2 orders that share a provider, 1 slot, 840 thousand states | `OverdueWavesAreHandled`: what a deployment gets that runs the jobs |
| `dispatch_rounds` | 1 slot | `FailsOnlyAfterRounds` is violated (finding 1) |
| `dispatch_stall` | 1 provider | `AnsweredOrdersMoveOn` is violated (finding 2) |
| `money_race` | 2 slots, the three gateways, 3 gateway calls, 2 disputes, 1 abort, 1.5 million states | any two handlers interleaved: `SettlementIsSound`, `RefundsAgree`, `OpenDisputeFreezes`, `RulingsMatchRefunds`, `DisputesBoundTheCost` |
| `money_late` | 2 slots, WeChat | `CancelledBeforeService` is violated (finding 3) |
| `money_unsettled` | 1 slot, manual gateway | `CompletedIsSettled` is violated (finding 4) |
| `staff_race` | 1 account, 3 passwords, 2 sessions, 2 slots, lock after 2 failures, 2.8 million states | any two requests interleaved: `LiveSessionsAreCurrent`, `WorkNeedsOwnPassword`, `ChangesBuildOnCurrent`, `LockFollowsFailures` |
| `storage_crash` | storage: 1 process that dies twice, 2 keys, quotas of 1 and 2, 1 failing operation; acceptance: 2 runners, 2 starts each, 2 kills or failures; 530 thousand states | `EvidenceIsBacked`, the refinement `KeepsItsPromise`, `ServiceResumes`; `WhatExistsIsNamed`, `LeftoversAreReclaimed` |
| `intake_retry` | one owner on each kind of page, two fee confirmations and a webhook, one provider on both pages, lost answers and dying handlers; 430 thousand states | `PageIsRight`, `RetryFindsTheOrder`; `FeeConfirmedOnce`; `RestingPageIsCurrent`, `KnowsItsPhotos`, `TasksStayReadable`, `ReportGetsThrough`; the type invariants |
| `owner_access` | page: 2 owners, 2 sessions, 2 calls, 1 loss; limiter: 4 guests, 2 at once, 2 in the queue, 3 creations in a window of 2; invitations: 2 commands, 1 code, 1 client with 2 attempts; 2.5 million states | `ReplacementIsTheOwners`, `ShowsTheCookiesOwner`; `GuestsStayWithinTheRate`, `PlacesAreTakenWhileOneWaits`; `EachIsMadeOnce`, `GuessesStayBounded` |
| `acceptance_race` | 3 runners, 1 killed | `FirstRunnerIsKept` is violated (finding 5) |

Bounds. Two slots suffice for every pairwise race, which is what the code's
compare-and-set statements are about; the proofs lift dispatch and money to any
number. Two
rounds is the code's `MAX_WAVES`; a wave of one (of three in the code) makes a lost
or a second wave visible with the fewest providers; waves of two were checked once,
with three providers and one slot. `Ttl = 1` lets an invitation be live, expire under
a running handler, and be long expired. Two disputes and three gateway
calls allow refunds after refunds; money was also checked with three slots, WeChat
and two gateway calls (520 thousand states). `Amounts` holds zero, two partial refunds, the
total and a value above it. `MaxTime`, `MaxAdminOps`, `MaxAborts`, `MaxCalls` and
`MaxDisputes` only bound how often the environment acts. In `staff_race` three
passwords are the provider's first, a reset and a second reset or change, which two
writes at one instant take; with two sessions one can replace the other; in three
instants a session and a lock begin, end and begin again; accounts do not touch each
other's rows, and the proofs cover any number of them. In `storage_crash` a second
crash meets what the first one left; with a quota of one an upload that is counted
twice, or not given up, shows. In `owner_access` the page was also checked with three
sessions (19 million states), the invitations with three attempts, with two codes,
with three commands, and with two clients. Three runners were checked with
`ReclaimsAlone` too (287 thousand states). The type invariants of modules whose runs
do not list one are proved. Symmetry is used for safety only.

Deadlock is checked for dispatch, staff access, the storage and the acceptance,
where the system can always go on. `OrderMoney`, `intake_retry` and `owner_access`
say `CHECK_DEADLOCK FALSE`: an order, a booking or a task really ends, and the
bounds end what could go on.

### Fairness

`FairSpec` of `OrderDispatch`: a started handler takes its next statement (weak
fairness: Node and the database make progress). That is all the code gives. The
repository calls `ScheduledJobs` from its tests only; neither `server.ts` nor
`pilot/composition.ts` starts it. So `OverdueWavesAreHandled` has that as a premise:
if the jobs are run again and again (`JobsRun`), then overdue waves are handled.
`dispatch_stall` takes it into its specification (`ScheduledSpec`), where it makes the
finding stronger: the order stays where it is although the jobs do run. In the code
the jobs need no request slot, which the model's slots are, hence strong fairness
in `JobsRun`. A run that throws is retried by the next run; a throw takes an order
out of dispatch first, so each order can cause finitely many. For the same reason
`OrderMoney` has no liveness property: that an old report is settled would be
nothing but the assumption that the sweep runs.

`StorageFairness`: the operator starts a process again, a mutation takes its next
step, time passes. The fairness of `OrderIntake` is the server's and the page's
(a call is served, its answer heard, ignored or lost) and the owner's who has not
been told of an order and presses retry; that of `ProviderTask` adds the provider
who has an unfinished task and works on it. `AcceptanceFairness`: somebody runs the
acceptance again, a runner takes its next step whatever lane it is in, docker
settles. Nothing is assumed of losses, failures and crashes; their number is
bounded in the runs, as nothing gets through if all answers are lost.

## 5. Findings

1. **`expireWave` gives up an order whose last wave is live** (`dispatch_rounds`).
   It compares the highest wave number with `MAX_WAVES` and does not ask whether
   that wave still has time. A dispatcher's `expire` call during the second
   round, or the jobs finding a `PENDING` leftover of the first, fails the order
   while providers may still accept.
2. **A withdrawn wave stalls its order** (`dispatch_stall`). The jobs look for
   `PENDING` invitations past their time. When a review cancels all of a wave's
   invitations, or a process dies after expiring a wave, nothing is left to
   find and the paid order waits for ever.
3. **A visit that has begun is cancelled** (`money_late`). `requestCancellation`
   reads the status, calls the gateway and then writes `CANCELLED` by id. A check-in
   during the call is overwritten, and the money has gone back.
4. **A completed order without a settlement** (`money_unsettled`). A dispute
   opened before the confirmation and ruled without a full refund completes the
   order; `resolveDispute` only updates a settlement it found, and `confirm`
   returns early on `COMPLETED`.
5. **A runner removes the marker of another** (`acceptance_race`).
   `reclaimStaleRun` (`scripts/pilot-live-state.mjs:134`) unlinks whatever is at
   the path when it is done with the marker it read at its beginning. Two runners
   that found the marker of a killed one reclaim it one after the other, and the
   second takes the first one's place, which
   `docs/testing/pilot-live-acceptance.md:57` says cannot happen. A kill then
   leaves two runs of which one is named.

Beyond these, the models show what does *not* hold. Those about dispatch and money
are listed as hazards:

- two overlapping `start` calls can open two waves: `start` looks for a live wave in
  one statement and counts the waves in a later one, so a second `start` that looked
  before the first one created its wave opens the next beside it (six providers are
  invited and both rounds are gone) or invites a provider twice. `OneWaveAtATime`
  excludes the orders where this happened (`raced`), and nothing else;
- `activeOrderLimit` and schedule conflicts are compared when candidates are
  ranked and not when an invitation is accepted, so a provider invited to two
  orders can take both;
- the late fee of a cancellation is that of the assignment read before the
  gateway call;
- two overlapping rulings on one dispute both pay, together more than the price:
  `resolveDispute` tests for `OPEN` before the gateway call and not again in its
  transaction, and the later ruling replaces the earlier. `RulingsMatchRefunds` holds
  until then;
- two overlapping `openDispute` calls create two disputes, and ruling on one of them
  completes the order and may make its settlement available while the other is
  open; `OpenDisputeFreezes` excludes what `overtaken` records, and nothing else;
- a second dispute of a completed order is checked against the total alone, so
  refunds and settlement together can exceed the payment. This needs no overlap:
  `DisputesBoundTheCost` has the bound that holds, the price once for each dispute;
- no row is written before the gateway is asked: a crash after the call leaves
  money without a row, a retry asks again (`RefundsAgree` has the direction that
  holds);
- the services move orders along edges `transitionOrder` of `packages/domain`
  does not have (`PENDING_SERVICE` to `CANCELLED`, `COMPLETED` to `DISPUTED`,
  `DISPUTED` to `COMPLETED`); no service calls it;
- a password change looks at the account and not at the session that asked for
  it: one that was authenticated before a logout, or before its account was
  disabled and enabled again, still goes through and opens a new session. It
  replaces the current password all the same (`ChangesBuildOnCurrent`).

The storage (`adapters/local-pilot-object-storage.ts`):

- two processes on one directory can both own the lease, whose instant is sampled
  before its file is written, and one then removes what the other stored:
  `EvidenceIsBacked` fails with `Processes = {p1, p2}`, against the comments at
  lines 900 and 1055. The pilot runs one process;
- an owner that stalls for more than two seconds is taken over;
- a manifest that was torn makes the storage unavailable for ever, and so does a
  first initialisation that failed, until the process starts again;
- an object that was stored and never attached keeps its place in the quota.

Booking (`OrderIntake`):

- the price is read again when the order is submitted (`orders/order-service.ts:35`):
  the owner may pay another one than the quote showed;
- the slower of two submissions of one key gets an internal error, the next retry
  the order; a replay does not compare the contents with those of the key;
- the web page sends no `clientRequestId` for pets and addresses, so a second try
  after a lost answer makes a second profile; the mini program sends one;
- `abandonQuote` after a lost answer may leave an order the page knows nothing of;
  an order that is never paid can neither be cancelled nor expires;
- a doubtful attempt of the mini program stays pending while the service is closed.

Owner access (`OwnerSession`, `GuestLimiter`):

- `CardIsItsOwners` does not hold: the credential of a first order is handed over
  by a component whose answer comes after the session has changed
  (`apps/admin/src/pilot/PilotApp.tsx:279` and `:347`), so that one account's
  credential is shown in another's session;
- after a logout whose answer was lost, `ensureOwnerSession`
  (`auth/public-owner-access-service.ts:52`) answers every retry with 401 until the
  cookie expires;
- a guest whose session could not be written (`:77`) exists, and nobody reaches it;
- `maximumConcurrent` may be exceeded for a moment, by a request that comes between
  a wake-up and the one that was woken.

The provider's pages (`ProviderTask`):

- the web client refuses lists with more than twelve photos of an order
  (`apps/admin/src/pilot/api.ts:482`); the local storage has that quota, the S3
  storage has none, and there `TasksStayReadable` fails;
- a photo sent again by the web page after a lost answer is a second photo;
  the mini program keeps the first attempt, and keeps it for ever if the storage
  has swept its object in between;
- uploads that are never attached use up the quota a report needs;
- a reload asked for before an attachment was answered hides it until the next one
  (`apps/admin/src/pilot/ProviderPilotWorkspace.tsx:92`).

Invitations and setup (`PilotInvites`):

- a redemption whose answer is lost has used the invitation up;
- a conflict of transactions is answered as `INVITE_INVALID` and counted as a wrong
  guess; `bootstrapAdminInvite` and `redeem` do not try again;
- the advisory lock alone keeps no second administrator out, as the transaction's
  snapshot is older than the lock: it is the Serializable level that does;
- two windows that follow each other allow up to twice the failures of one, less
  one; a client that was forgotten because there were too many starts again.

The acceptance runner (`LiveAcceptance`):

- on POSIX `ps -p` exits with 1 for a process that is gone, `inspectProcess` throws,
  and nothing is reclaimed; the model takes the answer the code expects;
- a temporary directory made just before the marker is written is not named by it;
  a process the preparation starts after `stopAll` looked outlives the runner.

## 6. Proofs

`OrderDispatch_proofs` proves, for any sets of orders, providers and requests and
any values of the bounds, from `DispatchAssumption` alone:

- `TypeCorrect`: `TypeOK` is an invariant;
- `OneTaker`: `AssignedByAcceptance`; `ServiceHasAProvider`:
  `StatusMatchesAssignment`;
- `WavesStayInOrder` and `AlertsStayTruthful`: `WavesInOrder` and
  `AlertsAreTruthful`;
- `MemoryIsSound`: `ReadsStayTrue`, which no run checks, as it holds the others up;
- `WavesDoNotOverlap`: `OneWaveAtATime`, for any number of overlapping requests. Of an
  order it says nothing more once a start created a wave behind the back of another
  one (`raced`, section 5);
- `ResponsesStayFinal`: the action property `ResponsesAreFinal`;
- `DispatchImplementsAssignment`: `OrderDispatch` implements `Assignment`, with
  the mapping `phase <- Phases, holder <- assigned, offers <- OffersOut`.

The inductive invariant is `Inv == TypeOK /\ Assignments /\ ReadsStayTrue /\
WavesInOrder /\ AlertsAreTruthful`, where `Assignments` is `AssignedByAcceptance` and
`StatusMatchesAssignment`. The state invariants are not inductive alone: `CreateWave`
writes a wave whose number an earlier statement computed, and `AuditFailure` and
`NotifyFailure` write about an order an earlier statement gave up. `ReadsStayTrue`
says that such readings are stable: paid orders stay paid, waves that exist stay,
orders given up stay given up and unassigned, whatever other requests do meanwhile.
Each action then preserves the conjuncts it can disturb; the lemmas group the actions
by what they write. `WavesDoNotOverlap` adds that a `start` that has passed its test
holds an order without a live wave, unless another one creates its wave first; then
the order is one of `raced`. For the refinement every step is mapped to a step of `Assignment` or a
stutter: an acceptance is `Take`, with the live invitation as its offer; a wave is
`Offer`; expiry, sweeps and reviews are `Withdraw`; cancellation and failure are
`Close`.

`StaffAccess_proofs` proves from `StaffAssumption`, for any sets of accounts,
sessions and requests, each property `staff_race` checks: `TypeCorrect`,
`SessionsStayCurrent` (`LiveSessionsAreCurrent`), `TemporaryPasswordsDoNotWork`
(`WorkNeedsOwnPassword`), `StaleChangesAreRefused` (`ChangesBuildOnCurrent`) and
`LocksAreEarned` (`LockFollowsFailures`). The inductive invariant `IInv` adds
`SessionsHaveAccounts` and `RequestsAreSound`. The latter has the two facts the
code rests on. While `authenticate` waits between its queries, a live session
vouches for the row that was read, because every write of a password revokes the
account's live sessions. And `KnowsItsAge`: a row that a request read and that
has been replaced since has an earlier `passwordChangedAt`, because
`nextPasswordChangedAt` is strictly later than the instant before it. The lemma
`SoundStaysSound` shows that any step with three effects common to all
(`WorldMovesOn`) keeps every waiting request sound; the lemmas about the actions
establish those effects. Clock values are never ahead of the clock: the proof,
like the model, takes the server's clock not to go backwards.

`OrderMoney_proofs` proves from `MoneyAssumption`, for any price, rates, amounts
operators enter and number of overlapping requests: `MoneyTypes`,
`SettlementStaysSound` (`SettlementIsSound`) and `RefundsTellOneStory`
(`RefundsAgree`). The inductive invariant adds that money which went back has ended
the service (`RefundsEndService`), that what follows a report has a report and a
provider (`ReportsComeFirst`), and that a request about a dispute still relies on a
report when it writes (`RequestsRelyOnReports`), since neither is ever taken back.
For the sum in `RefundsAgree`, `PaidBeforeRecorded` says that what the rows record
and what requests still owe a row together is within what the gateway paid: a call
adds to both, a row takes from what is owed what it adds to what is recorded, a crash
only forgets. Three lemmas about integer division bound fees and splits.

The other three are about requests that overlap too. `RulingsHaveRefunds`
(`RulingsMatchRefunds`) rests on `RulingInv`, which holds until two rulings overlap on
one dispute: a dispute somebody is ruling on is open (`RulingsStand`), and the refund
rows of disputes are as many as the rulings that granted money (`RowsAreCounted`). It
says nothing after a ruling was overtaken; overlapping disputes and cancellations do
not disturb it. `OpenDisputesFreeze` (`OpenDisputeFreezes`) and `DisputesCostThePrice`
(`DisputesBoundTheCost`) rest on `OrderInv`, which holds while nobody is overtaken:
what a cancellation, a dispute or a ruling found is so until it writes
(`RequestsKnow`), because a step that overtakes nobody writes nothing that another
request relies on; the status and the settlement show whether a dispute is open
(`DisputesShow`); and refunds and what may be withdrawn are within the price for
each dispute (`CostIsBounded`). A ruling that adds a refund closes an open dispute,
which has none yet: before it the rulings that granted money are fewer than the
disputes, and that leaves room for the price once more.

`Sums` has what both that proof and `GuessesAreBounded` need to know of totals: the
community modules' `MapThenSumSet` is `TotalOf`, which adds what an element adds,
whatever the order. The induction theorems of the library take an operator; the
lemmas are proved with a smallest counterexample instead, a finite set whose total
is wrong and whose cardinality is least.

`OrderPath_proofs`, for any number of requests, attempts, calls and lost answers:

- Of `OrderIntake`: `IntakeTypes` and `PageStaysRight` (`PageIsRight`). That the page
  gives no attempt up that comes to be after all needs more than its own state.
  `SureHasSeenAll`: while the mini program has no doubt, each request about its
  attempt is the one it waits for, and a row for it comes with an answer it is about
  to hear. `HeardIsCurrent`: what it waits for is about the attempt it shows.
  `GivenUpIsOver`: an attempt that was given up has no row, no request on its way but
  answered ones, and its key is not used again, because keys are given out in order
  (`KeysAreMinted`). `AnswersAreTrue` ties an answer to its row.
- Of `FeeConfirmation`: `FeeTypes` and `FeeIsConfirmedOnce` (`FeeConfirmedOnce`). The
  strengthening is `CallsHoldUnpaid`: a call that is about to write holds the version
  of an unpaid order, so of several only the first write's comparison holds.
- Of `ProviderTask`: `TaskTypes`, `RestingPagesAreCurrent` (`RestingPageIsCurrent`),
  `PhotosAreKnown` (`KnowsItsPhotos`) and `TasksAreReadable` (`TasksStayReadable`).
  `WebWillKnow`: the web page shows what it was told, has failed, or a call is on its
  way whose answer will count and bring it. `MiniAsksOnce`: the mini program waits
  for one call at a time. `PhotosAreSound`: each photo has one of the keys that were
  issued. `TasksAreReadable` assumes `Storage = "local"` and `Quota <= ListLimit`,
  which are 12 and 12 in the code; the S3 storage has no quota (section 5).
- `TypesStay`: `TypesAreKept`, the three of them as the run composes them.

`EvidenceVault_proofs` proves, of the abstract store that the storage implements,
`VaultWithinQuotas`, `VaultBacksWhatCounts` and `VaultKeepsForEver`; with the
refinement they hold of the storage.

`PilotStorage_proofs` proves, for one process on its directory (`OneProcess`), any
finite set of keys, and any number of crashes and failures:

- `StorageTypes`, `EvidenceStaysBacked` (`EvidenceIsBacked`) and
  `DirectoryKeepsItsPromise` (`KeepsItsPromise`): each operation on the files, each
  failure of one and each crash is one step of `EvidenceVault`, or none. The
  invariant is `StoreInv`. `LanesAreSound` says what a mutation has seen of the files
  at each of its stages, which is still so when it acts. `FilesAgree`: an object is
  there before its metadata, and what was confirmed or attached has both.
  `ReadersAgree`: what `attachEvidence` read without the lease is not taken away,
  because only objects without metadata are ever removed. `InstantsEnd`, that there
  is a last instant at which a lease was asked for, gives the least of them an owner.
  With a second process the lease does not keep this up (section 5), and the theorem
  says nothing of it.
- `WhatExistsStaysNamed` (`WhatExistsIsNamed`) of `LiveAcceptance`, for any number of
  runners, assuming `ReclaimsAlone`, which the run states too and `acceptance_race`
  drops. `AcceptanceInv` says of each runner where its lanes may be together
  (`LanesAgree`), what it has made by then (`MadeAgrees`), that the marker is its own
  from when it is written until it is dropped (`MarkerAgrees`), and what a runner
  that reclaims has yet to remove (`ReclaimAgrees`).

`OwnerAccess_proofs`:

- Of `OwnerSession`: `AccessTypes`, `ReplacementStaysItsOwners`
  (`ReplacementIsTheOwners`) and `PageShowsItsCookie` (`ShowsTheCookiesOwner`).
  `TurnIsTheOwners`: the replacement that the page waits for is for the user it
  shows; whatever takes the user off the page ends the turn. `CookieIsTold`: unless
  another tab changed the cookie, the session that the page shows, or that it waits
  to be told of, is the cookie's or ended, or an answer that changed the cookie is on
  its way and the page will ask again.
- Of `GuestLimiter`: `LimiterTypes`, `RateIsHeld` (`GuestsStayWithinTheRate`) and
  `NoWakeUpIsLost` (`PlacesAreTakenWhileOneWaits`). `RateInv` adds that what was
  forgotten is old (`ForgottenAreOld`) and that creations that count and creations
  under way stay within the limit together (`CountedStayBelow`); `QueueInv` adds that
  the queue holds requests that wait, each once (`QueueWaits`).
- Of `PilotInvites`: `InviteTypes` and `MadeOnce` (`EachIsMadeOnce`). There is no
  administrator or one, and an invitation is used exactly when it has opened one
  session (`CodesOpenOnce`), because a transaction that read what was written since
  does not commit.
- `GuessesAreBounded` (`GuessesStayBounded`), for finitely many clients. `Queues`:
  the attempts of a client form a line by the order in which they came, each behind
  the one before, so one at a time has its turn. `TurnsAreAllowed`: whose turn it is
  has failed less often than the limit. `GuessesAreLimited`: an entry counts the
  guesses since its window began, windows do not overlap, and a stretch as long as a
  window that reaches into one missed the first guess of the window before. Nobody is
  forgotten for want of room as long as the clients fit, which the property says.

Model-checked only: the liveness properties (`OverdueWavesAreHandled`,
`ServiceResumes`, `RetryFindsTheOrder`, `ReportGetsThrough`,
`LeftoversAreReclaimed`), because fairness is about ENABLED, which is beyond these
provers. Every invariant, action property and refinement of a passing run is the
statement of a theorem; those with an assumption of their own, beside that of the
module, are named above with it.

## 7. Not modelled

See the components with status `not_modelled` or `partly` in `PROJECT.json`. The
database is taken to give Serializable transactions where the code asks for them,
and atomic statements elsewhere; a read-committed transaction whose writes are
guarded by status and version in their `where` is one step. Validation of
inputs, authorisation by role, encryption, wording and HTTP are left out. The
profile of a provider is complete when a run starts. Refunds the pilot makes by
hand, outside the program, are not seen by it and not modelled.

Of what could be modelled, these are left out:

- conversations: one insert and a paged read. A page is cut at the `createdAt` of
  its last message (`conversations/order-conversation-service.ts:48`), which is
  set before the message is committed: one that commits late is passed over by a
  reader who is further on. The repository promises nothing about it;
- the S3 storage, whose state is the bucket's, and the gateways' signatures;
- the WeChat login, `createLocalSession` of development builds, and the limiters
  of staff logins, whose check comes before the slow hash;
- the administrators' workspaces, the owner's report page, the local demo and
  `AdminInvitePanel`, which show what they read; the read models of owners and
  administrators;
- the deployment scripts: what they do is input and output of programs outside the
  repository. `scripts/trialctl.sh` reads the current release before it takes
  `update.lock` (lines 130 to 133).
