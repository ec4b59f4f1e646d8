# Tamanor: verification of the concurrent core

Tamanor (package scope `@guardora`) moderates comments on connected social accounts and runs a
family-safety service. It is a TypeScript monorepo over Postgres (Prisma, row-level security per
tenant): `packages/core` (pure policy), `packages/db` (repositories), `packages/sync` (everything that
talks to providers), `packages/ai` (classifiers), `packages/connectors`, `apps/web`, `apps/worker`,
`apps/mobile`.

The hard part of the program is not in one function. It is that web requests, cron routes, a
long-running worker and maintenance commands write the same rows, each in short READ COMMITTED
transactions with provider calls between them, and that any of them can be slow, crash, or be retried.
These modules model that part: who may write what, after having read what, how long ago.

Every module is translated from the source; `PROJECT.json` maps each definition to its lines, lists
the components, the hazards, the runs with their mutants, and the theorems.

## 1. Inventory

| Component | State it keeps | Operations | Talks to | Hard behaviour | What makes it correct |
|---|---|---|---|---|---|
| Account sync lease (`db/sync-lease.ts`) | one `sync_leases` row per account, a generation sequence | acquire/take over, heartbeat, release | sync runs, disconnect, tenant deletion | expiry while the holder lives; takeover | the row names the newest acquisition; generations only grow |
| Read-only sync (`sync/index.ts`) | local run, `SyncRun` row, account aggregates | gates, read, lease, fetch, ingest, close, catch, release | lease, vault, provider, ingest | reads before the lease, provider call without a transaction, crash anywhere | only the current holder writes the account, in generation order; every run ends |
| Heartbeat controller (`sync/lease-heartbeat.ts`) | remembered expiry, failure count, state | tick, stop | lease | latency, lost answers, late timer | gives up before the row can expire |
| Disconnect (`sync/disconnect.ts`) | account row, lease | read, revoke at the provider, delete lease, clear by compare-and-swap | lease, provider, vault | stale Phase 1 read; racing runs and reconnects | nothing lands after it; a disconnected row is clean |
| Reconnect (`sync/meta-connector.ts`) | account row, vault | link, store credential | vault | races runs and disconnects that read the old row | a reconnect is not undone by older work |
| Watchers (`sync/maintenance.ts`, `sync/connection-manager.ts`) | account row | token-expiry monitor, health checks | provider | write long after they read | never revive a disconnected account |
| Family notification outbox (`db/internal/family-notification-*.ts`) | outbox rows, scheduler lease, notification rows | enqueue, evaluate expiries, claim, resolve, insert, settle | cron route, maintenance command | claims without an owner, two limits on one counter, crashes | nothing is recorded as sent unsent; every event is settled |
| Usage metering (`db/usage-repo.ts`, `db/global-usage-repo.ts`) | periods, events, daily counter, result cache | consume, reserve, settle, recover | metered classification | check-then-write under READ COMMITTED, best-effort settlement | counters equal what the events are charged; one call per key |
| Metered classification (`sync/metered-classify.ts`) | none of its own | the protocol over the ledgers and the fuses | usage metering, fuses, provider | one of several steps fails | as above |
| Paid-AI fuses (`sync/paid-ai-guard.ts`) | breaker, rate window, slots of one process | tryAcquire, record, release | metered classification | callers pass a time read before an await | slots are not lost; one minute admits at most the limit |
| Live moderation actions (`sync/live-actions.ts`, the action queue of `apps/web`) | `PlatformActionExecution` rows, queue items, the account's health | ingest, approve, live hide, reject, gate, self-heal, preflight, hide, verify, record, rollback | provider, disconnect | the look for an earlier execution is not atomic with the call; Facebook answers without acting | one executed row per trigger; the rows tell what Facebook shows; a blocked hide reaches a human |
| Stripe billing (`db/billing-repo.ts`, `apps/web/src/server/billing`) | subscription, tenant access, event ledger, checkout attempts | apply event, reserve/open/complete checkout, sweeps | Stripe, operation gate | duplicate and reordered webhooks, one-second timestamps, lost answers | old events change nothing; one live checkout |
| Team (`db/team-repo.ts`, `core/team.ts`, `db/user-deletion.ts`) | memberships, invitations, users | invite, accept, revoke, resend, expire, remove, change role, erase | web | counting and writing are separate statements; only some of them lock | there is an owner; seats hold; an invitation works once |
| Tenant deletion (`sync/tenant-deletion.ts`, `db/tenant-deletion.ts`) | tenant state, receipt | request, cleanup steps, cascade, resume | disconnect, lease, sessions, webhooks | crash between steps, inline run and resume overlap | converges on one completed receipt that is true |
| Worker and shutdown (`apps/worker`) | timers, abort signal | schedule, drain, deadline, close | all jobs | a job that ignores the signal | the process exits |
| Sessions and tokens (`db/session*.ts`, `db/auth-tokens.ts`) | session and token rows | create, touch, rotate, revoke, redeem | web | single use under concurrency | a token is redeemed once |
| OAuth flow, imports (`db/connector-oauth-flow.ts`, `db/google-business-*`) | flow rows | begin, consume, expire | web, provider | callback twice or late | a flow is consumed once |
| Webhooks and ingest (`db/webhook-retention.ts`, ingest in `sync/index.ts`) | event rows, items, cursor | receive, de-duplicate, ingest, purge | sync | duplicates, stale cursor | an item is ingested once |
| Child safety, cyberbullying cases (`db/child-safety-*`, `db/cyberbullying-*`) | lifecycles | transitions | outbox | expiry races | they enter the outbox model as the source of an event |
| Classifiers, connectors, UI, RLS | - | - | - | - | out of scope, see section 8 |

## 2. Modules

```
SyncLease <- ConnectorSync <- ConnectorSyncProofs
                 | implements
            FencedAccount                 (its theorems are in ConnectorSyncProofs)
MeteredClassify <- MeteringProofs         (protocol and both ledgers)
PaidAiGuard     <- MeteringProofs         (details StayOnRules of MeteredClassify)
LeaseHeartbeat <- LeaseHeartbeatProofs    (details Heartbeat and GiveUp of ConnectorSync)
FamilyOutbox   <- FamilyOutboxProofs      (processor and scheduler)
TenantDeletion <- TenantDeletionProofs    (its Disconnect is the disconnect of ConnectorSync, as one step)
LiveActions    <- LiveActionsProofs       (its Disconnect likewise)
StripeBilling  <- StripeBillingProofs     TenantTeam <- TenantTeamProofs
MC*: instances for TLC
```

### SyncLease and ConnectorSync

`SyncLease` has the statements of `sync-lease.ts` as operators from the lease row before to the row
after; `Matches` is the `WHERE id AND holderId AND generation` they share. Time is relative
(`left` = `expiresAt - now`), so no clock is bounded. `nextval` is drawn by the INSERT and once more
by the DO UPDATE of a takeover; a conflict with a live row burns one.

`ConnectorSync` is one account and everyone who writes it. Variables: the `lease` row and its
sequence `seq`; the `account` row (status, health, `link` for `tokenExpiresAt`, `legacy` for the old
token columns); `vault` (an active ProviderCredential exists); `dead` (the expiries that have passed);
and a local state per invocation of each kind. `lastGen`, `drops` and the `links` counter are history.
Actions: `Refuse`, `ReadAccount`, `Acquire`/`SkipLocked`, `OpenRun`, `ResolveToken`, `ProviderAnswers`,
`IngestItem`, `Finish`, `Catch`, `DatabaseError`, `Release` are the phases of `runReadOnlySync`, each
one transaction or one provider call; `Heartbeat`, `GiveUp` and `Crash` happen beside them.
`DiscRead`, `DiscDropNothing`/`DiscDropAndClear`, `DiscClear` are `disconnectAccount`: deleting a lease
row locks it until the commit, so delete and clear are one step, while deleting nothing locks nothing
and an acquisition can slip between. `RecLink` and `RecVault` are the two transactions of
`linkMetaAssets`; `MonDiscover`/`MonWrite` the token monitor; `HealthCheck` the write of the two
provider checks, with any verdict at any time (nothing the check has read bounds it), any number of times.

Abstractions: rate-limited, unavailable and other failures are one SyncRun status, degraded and error
one health value (no guard tells them apart); ingest of an item succeeds or fails; the account cluster
(Page and Instagram) is one account; cursor, counters, audit and notifications are left out.

### FencedAccount

What the lease promises, without rows, expiry or runs: a register written under fencing tokens that
are issued in increasing order, at most one of them current, and by nobody while it is disconnected.
`ConnectorSync` maps `status`, `lease.gen`, `seq` and `lastGen` to it.

### LeaseHeartbeat

The controller of one run with the UPDATE's latency visible: the row's expiry counts from before it
was sent, the remembered one from after it was answered. `Throw` covers an UPDATE that was executed
and whose answer was lost. Constants keep the default proportions (TTL 300 s, interval 75 s, three
failures).

### FamilyOutbox

`row` is the outbox table, `source` and `auth` what the recipient resolver finds, `sent` the events
with notification rows, `work` the processes, `lease` the scheduler lease. `AcquireLease`,
`EnqueueScanned`, `BeginDrain`, `EndDrain`, `ReleaseLease` are `runFamilyNotificationScheduler`;
`Claim`, `Resolve`, `Insert`, `Settle` the processor. A claim takes any set of eligible rows up to the
batch size (`FOR UPDATE SKIP LOCKED`); the closing UPDATE of `Settle` names only the event, so a worker
that was overtaken writes all the same. Time is three facts: a backoff ended, a claim's five minutes
are over, the lease's four are. `SlowWorkers` says whether the last two may happen to a living worker.

### MeteredClassify and PaidAiGuard

`MeteredClassify` is `classifyWithUsagePolicy` over the two ledgers. A transaction that reads an event
and then writes is two steps, because READ COMMITTED lets another commit in between; the unique index
on the idempotency key then aborts it. One clock of periods stands for the tenant's months and the
global days. The estimate is an upper bound of the actual cost (input cut, output capped), stated as
an assumption. `recoverStaleReservations` may run at any time; `SlowCalls` says whether it can meet a job
that is still alive. A refusal by the plan, the allowlist or the fuses is the one action
`StayOnRules`; `PaidAiGuard` details the fuses of one process, where every method is atomic and the
time it is given was read earlier.

### StripeBilling

One Business tenant. A request is `createCheckout`: `Reserve` (the transaction of
`reserveCheckoutAttempt`, which sweeps lapsed attempts, re-uses a live one of the same plan and refuses
another plan), `FindCustomer`/`EnsureCustomer`, `CreateSession` at Stripe under the attempt's idempotency
key, `MarkOpen`, and the error paths `RefuseSession`/`MarkFailed` and `GiveUp`. Two requests may drive
one attempt. A handler is one POST of the webhook route: `Receive` closes the attempt of a completed
session and retrieves the subscription (`Retrieved` events take the status of that moment, the others
the one in the event), `Apply` is `recordAndApplyStripeEvent` (ledger row, conditional UPDATE by
`shouldApplyStripeEvent`, tenant access), `Belt` closes what is left of the tenant's attempts, `Fail` is
an error at any of these points, after which Stripe delivers again. `SweepLists`/`SweepWrites` are the
trial sweep, which lists and writes in separate statements.

Stripe is external, modelled by how the code relies on it: one session per idempotency key, the same
key with other parameters refused, events delivered at least once in any order, stamped with a second.
`Prompt` says whether requests and handlers end before their attempt or session lapses. Limits,
notifications and the family product are left out.

### TenantTeam

Each operation of `team-repo.ts` and `runEraseTx` of `user-deletion.ts` is a transaction of several
statements at READ COMMITTED. A clerk is such a transaction and each statement a step that sees what
has been committed; the writes and the commit are one step. Locks are the predicates `UserLocked`,
`TenantLocked` (the erasure's `FOR UPDATE` on the tenants and their owner rows) and `SeatLocked` (the
advisory lock of `createInvite`, which nothing else takes). Removal and change of role lock nothing. A
membership carries the invitation it came from, so that a write prepared for one row does not hit its
successor. Roles other than owner are one, since no guard tells them apart; seat limits do not change.

### TenantDeletion

`Flip` and `Commit` are the two halves of `requestTenantDeletion` (the conditional UPDATE holds the row
until the commit; a login's reads pass in between), `Converge` and `NotFound` its other ends. `ListAccounts`,
`Disconnect`, `DeleteLeases`, `RevokeSessions`, `PurgeWebhooks`, `ReadTenant`, `DeleteTenant`/`DeleteMissed`,
`Rewrite` are `executeTenantDeletion`, which a request runs inline and `Resume` runs in the worker;
`Fault` is a statement that fails at any of them (`MarkFailed` follows) or a crash. Beside it run the
login (`ResolveTenant`, `InsertSession`, `Hydrate`) and the webhook job (`MatchWebhook`, `LinkWebhook`), which
read the tenant in one statement and write in another.

### LiveActions

One brand and one Facebook account. A worker ingests a comment (`Ingest`), decides, and attempts an
autonomous hide; a click is `approveQueueItem`, `executeLiveHide` or its retry. An attempt is
`attemptFacebookHide`: `Look` for an executed row, `Gated` by the account's copy and the environment,
`Repair`/`Refute`/`Unasked` (the self-heal of a stale account), `Preflight`, `Post`, `Verify`, `Record` with the
partial unique index `Unique` and `Fallback` when it rejects. `ReadExecution`, `Unhide`, `WriteRolledBack`
are a rollback. Each is one transaction or one call of Graph, and each may meet one of the faults: a POST
that is answered and ignored, one whose answer is lost, an unreadable comment, a crash. The safety context
(kill switch, limits) allows or refuses; which, the environment chooses. A disconnection
(the final write of `disconnectAccount`), an expiry of the token and a deletion of the comment happen at
any time.

## 3. Runs

All bounds are in the `.cfg` files. Each run finishes in less than three and a half minutes with two workers.

| Run | States | Instance and why it is enough | Shows |
|---|---|---|---|
| `sync_runs` | 5.3 M | two runs (one with a heartbeat, one as in the serverless jobs), a disconnect, a reconnect, TTL 0: every order of takeover, crash, failed release, disconnect and reconnect | `TypeOK`, `NewestHolderOnRow`, `WritesInGenerationOrder`, `NoWriteAfterDisconnect`, `OnlyReconnectRevives` |
| `sync_watchers` | 0.5 M | a run, a disconnect, a reconnect, the monitor and any number of health checks, TTL 1, under fairness | `DisconnectedRowIsClean`, `ImplementsFencedAccount`, `LeaseIsFreed`, `RunsEnd` |
| `heartbeat_on_time` | 9 k | TTL 24, interval 6, latency up to 2, timer up to 1 late | `ExpiredMeansLost`, `LossIsNoticed` |
| `outbox_overtaken` | 0.6 M | two cron processes that outlive claims and lease, one critical event, one fault, under fairness | `DeliveredMeansSent`, `ReadinessWindowIsKept`, `LeaseOutlivesPredecessor`, `EventsSettle` |
| `outbox_prompt` | 4.6 M | two cron processes and the maintenance command, two events in batches of two, one fault, nobody slow | `DisjointClaims`, `TerminalIsFinal` |
| `metering_ledger` | 2.9 M | two jobs on one content and a re-analysis, two periods, limits of one call, one fault, recovery of dead jobs | `TypeOK`, `TenantBooksBalance`, `OneCallPerKey`, `GlobalCounterCoversCalls` |
| `guard_prompt` | 0.1 M | three calls, limits of two, three minutes of two ticks | `SlotsMatchCalls`, `RateCap` |
| `billing_webhooks` | 3.4 M | two requests for a good and a refused price, two handlers, two seconds of Stripe's clock, one change of status after a purchase: ties, reorderings, redeliveries, lost answers, a sweep across a payment | `QuiescentRowIsTrue`, `CancelledStaysCancelled`, `PayingIsNotRestricted`, `OnePayableSession` |
| `team_members` | 0.6 M | two transactions at a time, three users, two invitations, two seats | `TypeOK`, `SeatsAreKept`, `ErasureLeavesAnOwner`, `InviteIsUsedOnce` |
| `tenant_deletion` | 0.5 M | two requests and a worker, one account, a login and a webhook event from before, two faults, under fairness | `ReceiptIsTrue`, `CleanupComesFirst`, `SessionsEnd`, `NothingSurvives`, `DeletionCompletes` |
| `live_hides` | 3.8 M | one comment, a worker, two clicks, a rollback, one fault | `OneExecution`, `ExecutedIsHidden`, `HiddenIsAccounted`, `BlockedIsRouted` |
| `team_last_owner` | - | two owners, two transactions: counterexample, section 6 | `NeverOwnerless` is violated |

TTL 0 is enough for `sync_runs`: a lease is live until one tick passes, so every order of expiry and
steps occurs; more ticks only stutter. `sync_watchers` has TTL 1, so that heartbeats can keep a lease alive
for ever and `LeaseIsFreed` depends on their stopping. Counters that could grow (`seq`, `links`, `drops`) are bounded by
the number of invocations. `CHECK_DEADLOCK FALSE` is set where invocations are finite and the system
may simply be done. Symmetry (of requests and handlers, users, invitations and clerks, clicks) is used only in
runs without liveness properties.

In `billing_webhooks` two seconds are enough for an event to be older than, equal to and newer than another;
one change gives each subscription a second status beside the one it was bought with. `team_members`
passed on a larger instance as well (19 M states), and so did earlier forms of `live_hides` that kept retries
and the choice of the safety context in the state (12 M and 14 M). Two transactions suffice for the races of `TenantTeam`, which are between a
read and a write of one and the commit of another. `tenant_deletion` allows two faults so that the run
that comes second can fail after the first has failed and been resumed.

Every module has a type invariant. `TypeOK` of `ConnectorSync`, `MeteredClassify` (which bounds the counters by the
limits) and `TenantTeam` (which relates memberships to users and used invitations) are properties of the
runs; the others hold on the same instances and are there for the proofs.

Each property of a passing run has a mutant in `PROJECT.json`: a plausible bug in a mapped definition
(a dropped predicate, a reused generation, a swallowed error, a missing unique index) that TLC must
find through that property.

## 4. Fairness

* `ConnectorSync`: weak fairness of the steps of a run that has begun (its awaits return: database
  calls and HTTP requests have timeouts) until its process dies, and of time. Nothing is assumed of
  heartbeats, disconnects or the release succeeding.
* `LeaseHeartbeat`: the interval timer fires, an UPDATE in flight is executed and answered or throws.
* `FamilyOutbox`: cron comes round again, a started worker goes on, backoffs, locks and leases expire;
  strong fairness of the claim of each event, because the claim is ordered by `nextAttemptAt`, so a
  row that is eligible again and again reaches the head of the batch.

* `TenantDeletion`: a process that runs goes on with its next statement (until a fault, of which there
  are finitely many), and the worker's tick, a timer, resumes what is pending. Nothing is assumed of
  requests, logins or webhook jobs. `DeletionCompletes` depends on the resumption.

`StripeBilling`, `TenantTeam` and `LiveActions` state no liveness: Stripe's redelivery, a user's second click
and a human's decision are not the program's to promise.

## 5. Theorems

The eight `*Proofs` modules are checked by TLAPS. Every theorem is about every value of the constants
under the named assumptions of its module, which say no more than what the constants are (naturals, names
apart from one another, finite sets where something is counted). Each module defines its inductive
invariant (`IInv`, in the smaller ones `Inv`), checked by TLC on the instances of section 3 before it was proved. The proof that `Next`
keeps it has a lemma for each action or for a group of actions that write alike.

### ConnectorSync, FencedAccount, LeaseHeartbeat

The theorems of the first two hold for any sets of runs, disconnects, reconnects and monitors, any TTL and any number of items,
under the assumptions of the modules: `NoHolder` is not a run, `LeaseTtl` and `MaxItems` are naturals, `BeatingRuns` is
a set of runs.

The inductive invariant is `IInv == TypeOK /\ Fencing /\ NewestHolderOnRow`. `NewestHolderOnRow` alone
is not inductive: that a new acquisition has the highest generation needs to know that no handle, no
row and no written generation is above `seq`; that writes come in order needs to know that the last
written generation is not above the row's; and that no write follows a disconnect needs to know that
the run named by the row acquired it after the last lease DELETE. These are the parts of `Fencing`.
From `IInv` follow:

* `TypeCorrect`, `NewestHolder`, `CleanRow`: the invariants of the runs;
* `GenerationOrder`, `NoLateWrite`, `Revival`: the action properties, step by step over `Next`;
* `Refinement`: `Spec => Fenced!Spec`. The initial states map to the initial state; acquire maps to
  Grant, a skipped acquisition to Burn, release to Withdraw, the closing writes to Write, reconnect to
  Link, disconnect to Unlink, the monitor to Expire, all else to a stutter. `CleanRow` rests on the
  fact that every writer but the reconnect leaves a disconnected row alone.
* `TokenOrder` and `LinkRevives` hold of the fenced register itself, from its own steps and the small invariant
  `RegisterInv`; they are stated of the instance `Fenced`, so with `Refinement` they hold of the system too.

`LeaseHeartbeatProofs` holds for every TTL, interval, failure limit, latency and lateness of the timer
(naturals, the interval and the limit positive, `MaxLatency <= Ttl`). `TypeCorrect` is the type invariant,
`GivesUpInTime` is `Spec => []ExpiredMeansLost`: when a beat is answered before the next is due
(`MaxLatency < Interval`) and the beats that may fail fit into the lease,
`MaxFailures * (Interval + MaxStall) + MaxLatency <= Ttl`, a run never works on an expired lease. The
inductive invariant adds to the types `Reserve`: what is left of the row is at least the TTL less one
`Interval + MaxStall` for every failure so far and less the time since the last tick (since the UPDATE was
sent, while one is out). `ExpiredMeansLost` alone is not inductive: it says nothing of a row with a
little time left and two failures still to come.

### FamilyOutbox

For any number of workers and events and any bounds. `DeliveredMeansSent` and `ReadinessWindowIsKept` are about the
row, but the row is written by workers whose claim may be over. The invariant therefore speaks of what a
worker carries: `VerdictIsTrue` (a verdict of delivery is about an event that has its notification row, a
verdict of no recipients was reached at an attempt at the end of the window) and `ClaimsCounted` (the attempt
a worker counted when it claimed is not above the row's, which only grows). They give `DeliveredIsSent` and
`WindowIsKept` whether or not workers are slow. `ClaimsAreDisjoint` and `SettledForGood` have the hypothesis
`~SlowWorkers`, without which TLC refutes them (section 6): `LockIsTheClaim` then says that what is in a
worker's batch is locked, and by that worker alone. `LeaseIsOwn` is the action property of the scheduler lease.

### StripeBilling

For any number of requests, handlers, plans, seconds and changes, and for slow requests as well as prompt
ones. `RecordedRowIsTrue` and `CancellationIsFinal` follow from what is known of each place a status can be on
its way from Stripe to the row: `StripeTells` (what a subscription is now was told by one of its latest
events, and its end was told last), `HandlersTell` (the status a handler carries was told of that subscription
at the event's second or later; of an end, it is `canceled`), `RowTells` (so was the row's) and `LedgerTells`
(no event on record is newer than the row, and an end of the row's second has made it terminal). The last
is the point of `shouldApplyStripeEvent`; it is kept by an event that applies because the row advances, and
by one that does not because it is then older. `PayingKeepsAccess` is inductive with the types:
the sweep asks again in its write. `OneSessionToPay` rests on `OneLive` (the advisory lock) and
`DrivenIsLive`: until a purchase, an attempt that is being driven, or whose URL is out and whose session can
still be paid, is live and has not lapsed. `MaxSecond` is at least 1.

### TenantDeletion

For any number of requests, workers, logins, webhook events and faults, and any finite set of accounts.
`RunsShareOperation`, `RowLocked` and `ListCovers` are what the properties lack: every run that executes works
on the tenant's one operation; between the two halves of a request nobody else flips the tenant; and the
accounts that are still connected are in the list of every run that holds one, so that the run which
ends first has seen them all. `ReceiptTellsTheTruth`, `CleanupPrecedesDeletion`,
`NoSessionOutlivesRevocation` and `NothingOutlivesTenant` are the four invariants of the run.

### LiveActions

For any number of items, workers, clicks and rollbacks. An attempt carries what it has found across several
calls, so the invariant says what it may rely on at each point: `AboutToRecordIsHidden` (what is about to be
recorded as executed is true already), `HiddenIsOwned` (a hidden comment has its row, or the attempt that hid
it is about to write one), `WorkerIsFirst` (a worker ingests its item and meets no earlier row of the
autonomous trigger) and `OneExecutedRow`, the unique index. `ExecutedOnce`, `ExecutedTellsTheTruth`,
`HiddenHasItsRow` and `CandidatesFailed` follow.

### TenantTeam

For any finite sets of users and invitations and any number of transactions and seats. `SeatsAreKept` allows
for the seats taken behind a count's back; the invariant under it is exact: `SeatsPaid` says that the members
and invitations a count has seen are within the plan, `CountIsUpperBound` that the number a transaction has
counted can be stale only upwards. `ErasureKeepsAnOwner` is an action property: while an erasure holds the
lock on the tenant's row, the owners it counted stay (`LockKeepsOwners`), and two erasures are of two users
(`ErasuresApart`). `JoinsByOpenInvite` and the type invariant, which ties memberships to users and to the
invitations they came from, need that who accepts an invitation is whom it is for (`AcceptsOwn`).

### MeteredClassify and PaidAiGuard

For any finite sets of jobs, contents and calls, any limits, periods, estimate and number of faults. A sum over
a set needs induction, which the installed provers cannot use; so the books are stated as counts. `Units(S, c)` has
one element for each unit that `c` gives to a member of `S`, and its cardinality is the sum. The lemmas
`UnitsLeave` (members of `n` units each take `n` times their number with them) and `UnitsAgree` (only the
values on `S` matter) follow from the library's facts about unions and products, and are all the arithmetic of the
ledgers needs; `ChargesChange` says from them what the change of one event does to the counters of a period.

`IInv` has four parts beside the types.

* `Reservations`. `OneCallPerKey` is not inductive: that a job about to call is the first to do so needs to know
  that it inserted the event of its key and that nobody else did (`OwnReservation`, the unique index), and that a
  key without an event was never called (`CallsAreReserved`). Neither depends on what the event says
  later, so `CalledOnce` holds even where the recovery releases the reservation of a living job.
  `SettlesReserved` has the hypothesis `~SlowCalls`: what a settlement or a recovery has read as `reserved` is so
  when it writes, since the two never meet.
* `TenantBooks` and `BasicBooks`, the two halves of `TenantBooksBalance`. The first has the hypothesis `~SlowCalls`
  and needs that a reserved event is charged the estimate (`ReservedAtEstimate`): a refund is then covered by
  the counter, and the `GREATEST(..., 0)` of the code never cuts anything off.
* `GlobalBooks`, where `GlobalCounterCoversCalls` counts only the calls under way: a job holds a call of its period
  from the global reservation until it gives it back, and it may have to give it back after the tenant's reservation
  failed, so `Holders` counts these jobs as well. A completed call passes from the holders to `paid` in the
  same period, because the event a job owns has the job's own period.

`TypesHold` says that no counter passes its limit or falls below zero; `BooksBalance` (`~SlowCalls`), `CalledOnce`
and `GlobalCounterCovers` are the other three invariants of `metering_ledger`.

The fuses share no state with the ledgers; their state machine is `GuardSpec`, so that one module can be about both.
`SlotsKept` is inductive with the types. `RateIsCapped` (`Prompt`) needs `Window`: a call that waits
for its admission read the present time, the guard's window is the latest minute that admitted a call,
its count is what that minute admitted, and no later minute has admitted any.

### Only model-checked

* Liveness (`LeaseIsFreed`, `RunsEnd`, `LossIsNoticed`, `EventsSettle`, `DeletionCompletes`), which is out of the
  prover's reach.

Every safety property of a passing run is a theorem. The hypotheses `~SlowWorkers`, `~SlowCalls` and `Prompt` of four
of them are needed: without them TLC refutes the properties (section 6).

## 6. Where the code and its comments disagree

* `team_last_owner`: `removeMember` and `changeMemberRole` count the owners and then write, and lock nothing.
  Two owners removed or demoted by overlapping requests, or one beside the erasure of the other, leave
  the tenant without an owner, though `team-repo.ts:18` says that "the last owner can never be removed or
  demoted" and `user-deletion.ts:12-14` that nothing can race the check "into an ownerless tenant".

The modules state five more claims of the comments that TLC refutes. They are not among the runs; the
constants to see each are given.

* `DisconnectSparesReconnect` of `ConnectorSync` (one run, disconnect and reconnect, TTL 0): the
  compare-and-swap of a disconnect looks at the legacy token columns, which a vault-only reconnect does not
  write; a reconnect between its read and its clearing is undone, though `disconnect.ts:195-197` calls that
  impossible.
* `SyncSparesReconnect` of `ConnectorSync` (the same): `index.ts:158-160` says that a reconnect mints a new
  lease and so shuts out older runs. It does not touch the lease: an older run that fails with the old
  credential marks the reconnected account expired.
* `HoldsAreNotFailures` of `FamilyOutbox` (`outbox_overtaken`'s constants): readiness holds and retries count
  on one `attemptCount`; an event held five times is dead-lettered by its first transient error, though
  `family-notification-outbox-processor.ts:165-166` says a hold is "NOT a failure".
* `OneFailedBeatIsSurvived` of `LeaseHeartbeat` (TTL 24, interval 12, latency 2): `config-validator.ts:65`
  accepts an interval of exactly half the TTL, so that "a single slow/failed beat cannot let the lease
  lapse"; with one failed beat the next is executed after the row has expired, while the controller still
  runs.
* `SingleProbe` of `PaidAiGuard` (`guard_prompt`'s constants): after the cooldown the breaker admits every
  caller, not "a single half-open probe" (`paid-ai-guard.ts:33`).

Observations, made while modelling, that bound what the passing runs say:

* `TerminalIsFinal` and `DisjointClaims` need `SlowWorkers = FALSE`: a worker that outlives its five-minute
  claim reopens an event that another one has settled. `EventsSettle` holds all the same.
* `TenantBooksBalance` needs `SlowCalls = FALSE` when the recovery runs: recovery and a late settlement can
  both read `reserved` and both correct the period.
* `RateCap` needs `Prompt = TRUE`: a caller with an older minute resets the window.
* The inequality of `ExpiredMeansLost` is tight: TLC finds a run on an expired lease as soon as the TTL is
  one less. With the default proportions it leaves a quarter of the TTL for late timers and latency.
* `recoverStaleReservations` has no caller outside its test, so in the deployed program a failed
  settlement stays `reserved`; and where it runs, it refunds calls that were made and not yet settled.
* An event whose reservation was released is answered `premium_limit_reached` when its content comes again.
* The breaker's cooldown counts from the time the failing call began, not from its failure.
* `localCredentialsRemoved` of a disconnect tells of the legacy columns, not of the vault.
* A run that lost its lease and has not noticed it yet closes its SyncRun as `failed`, not
  `interrupted`, when its provider call fails; the account is not touched.
* A process that dies between opening and closing its SyncRun leaves the row `running`; nothing sweeps it.

Billing:

* Two requests driving one attempt can each create a customer; the later upsert replaces the one under
  which the session was created, and the payment is attributed to nobody (`PaidIsAttributed` is refuted).
* An attempt is closed before the subscription that came of it is stored; a request in between starts a
  second subscription (`OneSubscription` is refuted).
* `completeLiveCheckoutAttemptsForTenant` names the tenant only: a late event of one purchase closes the
  attempt of the next.
* Of two events of one second that are not a cancellation, the one applied first stays; this is why
  `QuiescentRowIsTrue` excludes such ties.

Team:

* `SeatsAreKept` counts the exceptions: an invitation accepted between the two counts of another, a lapsed
  one that is resent, or a lapsed one that is claimed by an acceptance that read it in time, takes a seat
  no count has seen.
* The erasure reads the role of its user before it locks the tenant: a user promoted in between is erased
  without the sole-owner check. `ErasureLeavesAnOwner` therefore speaks of erasures that found an owner.

Deletion:

* A run that arrives after the completion writes its own account count over the completed receipt, though
  `sync/tenant-deletion.ts` means to return "the already-completed" one (`ReceiptIsKept` is refuted).

Live hides:

* A double-clicked hide beside a rollback can leave the comment hidden with only a `rolled_back` row, and
  the fallback after a conflict on the index may find no row and throw. `ExecutedIsHidden` and
  `HiddenIsAccounted` therefore leave out comments that are being or were rolled back.
* Autonomous and approved hides have different keys: the second one finds the comment hidden and records
  another `executed`; after one of them is rolled back the other still says so.
* `index.ts:992` sets `approval_required` unconditionally and overwrites a rejection or an executed item; a
  rejected item can still be hidden live.
* An attempt in flight uses its copy of the token after a disconnection.
* The kill switches are in the safety context, which the manual callers do not pass.
* The self-heal repairs the account row, not the copy the attempt goes on with: the repairing attempt is
  itself blocked as `unhealthy_account`.
* `retryQueueItem` only makes a dry run, and returns the earlier one.
* The limits are counted before the attempt, so overlapping workers can each take the last place.
* A POST that Facebook answers and ignores, followed by a comment that cannot be read, is recorded as
  executed: the only case `ExecutedIsHidden` gives up (`Deceived`).

## 7. Plan

1. Done: lease, sync runs, disconnect, reconnect and watchers with their abstract specification and
   proofs; heartbeat controller; outbox; metering; fuses; billing; team; tenant deletion; live hides.
2. Done: a theorem for every safety property of the passing runs, and the refinement. A next one: how far
   the tenant's counters can be off where calls are slow.
3. Next modules: `WorkerShutdown`, `OAuthFlow`, `Sessions` (rotation, limits, single-use tokens), ingest with
   cursor and webhook de-duplication, child-safety consents.

## 8. Not modelled

Classifier quality (language, not control), connector adapters and the SDK (HTTP clients), web and
mobile user interfaces, and row-level security (Postgres policies; the models are of one tenant) stay
outside. The components of section 1 without a module are listed as `not_modelled` in `PROJECT.json`
with the reason; the plan covers those that have concurrent state.

Of the modelled components these parts are left out: the cursor and the attempt counters of a sync run,
which are computed from the account row read before the lease was acquired and can be set back by an
overlapped run (planned with ingest); the individual reads of the recipient resolver of the outbox, between
which a guardian can be revoked (the documents promise authorization at processing time only); the count of
live hides against the hourly and daily limits; Instagram moderation; the family product of the billing.
