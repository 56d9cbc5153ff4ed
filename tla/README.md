# Verification of the NoSpoilers hosted service

NoSpoilers scans release artifacts (GitHub releases, npm packages, websites,
uploaded files) for things that should not have been published. The server
(`src/src/server`) keeps everything in Postgres. Web processes accept webhooks,
uploads and dashboard requests and insert jobs; worker processes on any number
of hosts claim the jobs, run the scanner and publish alerts and signed
evidence. Nothing coordinates the processes but rows, row locks and
transactions, so the behaviour that matters is what interleaved transactions
do. That is what this directory models in TLA+, checks with TLC and proves with
TLAPS.

Paths below are relative to `src/src/server/` unless they start with `src/`.

## Inventory

| Component | State | Operations | Interacts with |
|---|---|---|---|
| Job queue (`store.ts` 2730-2976, `worker.ts`) | `jobs`, `resource_locks`; counters and handler calls in worker memory | enqueue, claim, heartbeat, finish, retry, requeue, recover | all that enqueue; handlers; usage |
| Usage (`job-billing.ts`, `usage.ts`) | `hosted_usage_days`, `personal_scan_usage`, `jobs.usage_reserved/usage_day` | reserve, recharge, refund | queue, uploads, parity, Stripe |
| Worker life cycle (`runtime.ts`, `scan-interruption.ts`) | `stopped`, `ticking`, active executors | start, tick, stop, interrupt, drain | queue |
| Uploads (`upload-store.ts`, `upload-worker.ts`) | `uploaded_scans` | admit, start, publish, fail, expire | queue, usage, access, receipts |
| Notification outbox (`workspace-notification-*.ts`) | `workspace_notification_jobs`, `notification_destinations` | save, disconnect, test, enqueue, claim, send | alerts, tick of the worker, Slack and email |
| Job wake-up (`job-wake.ts`) | a LISTEN connection | notify, reconnect | queue |
| Webhooks, pending events, first connection (`webhooks.ts`, `github-pending-events.ts`, `github-connection-intents.ts`, `github-workspace-connection.ts`) | `github_pending_events`, `installations`, `repos`, connection intents | deliver, stage, expire, read, list, bind and replay | GitHub, queue, membership |
| Stripe (`stripe.ts`, `store.ts` 2439-2512, `personal-billing.ts`, `app.ts` 1903-1934, 2025-2058) | `stripe_events`, `billing_accounts`, `personal_organization_billing` | check out, claim an event, patch a plan | Stripe, usage |
| Source watch and publication (`npm-watch.ts`, `web-watch.ts`, `package-publication.ts`, `website-publication.ts`) | watched packages and origins, connection generation, last version, schedule version | connect, pause, challenge, check, queue, publish | registry, queue, alerts |
| Poller (`poller.ts`) | last seen values | compare and enqueue | queue |
| Staging budget (`staging-budget.ts`) | bytes staged in `pending_scans`, `uploaded_scans` | reserve, expire | uploads |
| Membership (`workspace-membership.ts`, `workspaces.ts`, `store.ts` 949-997, 2555-2620, 4890-5144) | members, invites, revocations, and the older `installation_users` and `installation_invites` | authorise, invite, accept, change, remove, link at login, open a session | access to everything |
| Alerts and incidents (`workspace-alerts.ts`, `notifier.ts`, `routing.ts`) | `alerts`, routes, deliveries | publish, assign, recheck | outbox |
| Production parity (`production-parity-*.ts`) | `release_production_observations` | queue, cancel, observe | release intelligence, origins, queue, usage |
| Disclosure desk (`disclosure*.ts`, `app.ts` 1487-1565, 1770-1824) | prospects, `disclosure_cases`, duplicate links, notes, expiring report links | open, edit, preview, assign, review, rescan, contact | prospects, queue |
| Ledger, receipts, attestations, release intelligence and gate | immutable evidence rows, streams, grants | append, decide, grant | uploads, capture |
| Automatic capture (`automatic-capture*.ts`) | capture rows | enqueue in the publication transaction, process | uploads, queue |
| Retention, deletion requests | age of rows | delete | everything |
| Scanner core, sandbox, CLI, dashboard, website | none shared | - | - |

What makes the modelled part hard:

- a run is not inside a transaction: between two of its queries its lease may
  be recovered and claimed by another worker *or by the same process*, the
  source uninstalled, the upload expired, the access revoked, the plan changed;
- a lease is named by the process, not by the claim;
- the same reservation can be given back by the run, the catch block, the
  expiry sweep and an administrator, also after midnight;
- a process can be killed anywhere, or be told to stop while its tick claims;
- a provider call cannot be rolled back with the transaction that records it;
- a request reads in one query and writes in another, and other requests, polls
  and webhooks write in between: a generation, a lock or a second read must
  notice, and where none does the stale value is written;
- two tables hold the same fact for a while (members and installation users),
  and older routes still write the second one.

`PROJECT.json` lists every hazard with its line and the properties that cover it.

## Modules

| Module | Models | State |
|---|---|---|
| `JobPromise` | what the queue promises for its jobs, abstractly | `phase`, `holder`, `charge`, `today` |
| `JobQueue` | queue, usage and worker processes | `job` (table), `usage`, `plan`, `today`, `live` (installations), `proc`, `runs` (handler calls in memory), `nextId` |
| `UploadScan` | uploads, composed with `JobQueue` by EXTENDS | `upload` (table), `access`, `step` (where each handler call is) |
| `NotificationOutbox` | the outbox of one workspace | `config`, `version`, `active`, `paid`, `raised`, `notice` (table), `sender`, `faults` |
| `GithubConnection` | one installation, its webhooks, the inbox and the first connection | `github`, `wire`, `sent`, `ordered`, `inbox`, `owner`, `row`, `sources`, `scans`, `intent`, `attempt` |
| `SourceWatch` | one watched package or website | `kind`, `source` (row), `epoch`, `registry`, `check`, `jobs`, `run`, `evidence`, `missed` (why a version went unscanned) |
| `Membership` | one workspace and its installation | `assigned`, `member`, `projected`, `revoked`, `invite`, `pending`, `tx` |
| `Disclosure` | the desk and the status of its prospects | `status`, `hash`, `case`, `links`, `request` |
| `StripeBilling` | the Stripe webhook and checkout of one account | `kind`, `row`, `plan`, `claimed` (tables), `subs`, `customer`, `clock`, `events` (Stripe), `failures`, `ordered`, `ended` |
| `ProductionParity` | the observations of one workspace, their jobs and handlers | `usable`, `manages`, `obs`, `job` (tables), `at` (where each handler of each process is), `faults`, `lost`, `shared` |
| `MC...` | instances for TLC | - |
| `JobProofs` | step lemmas and theorems of `JobQueue` and `UploadScan`, and that the queue implements `JobPromise` | - |
| `...Proofs` | the theorems about each other module | - |

Four refinements connect the queue. `JobQueue` implements `JobPromise` under the
mapping at its end (`Promise`): a running row is held by the worker in
`locked_by`, a reservation is a charge on its `usage_day`, and everything else
of the queue (leases, counters, retries, recoveries, late runs) stutters.
`JobQueue` is in turn the abstract specification of `UploadScan`: `UploadScan`
shares its variables, and `UploadSpec => Spec` is both checked (run
`UploadStalls`, property `Spec`) and proved (`ImplementsQueue`). The handler of
an upload takes up to seven steps where the queue sees one run. `SourceWatch` and
`ProductionParity` have jobs of their own, with less around them than
`JobQueue` has; that these are jobs of the same kind is said by `KeepsPromise`
in each: seen from outside, they are submitted, taken, given back and closed as
`JobPromise` allows. Charges and the number of jobs that run at once are left to
`JobQueue` there (nobody pays, and a lane has room for all).

### How `JobQueue` corresponds to the code

- A job is named by its `delivery_id`, which is unique; what the delivery asks
  for (kind, payer, source) never changes, so these are CONSTANT functions. The
  trigger of `job-billing-schema.ts` makes the payer columns immutable.
- Kinds are merged by what the queue and the ledger tell apart: `light`, `scan`
  (refunds when there was nothing to unpack), `upload` (refunded by
  `failUploadedScan`), `parity` (cancellable), `prospect` (unbilled, last in
  line, one per worker).
- Time is abstract: `stale` says that `locked_at` is older than
  `staleAfterMs`, `due` that `run_after` has passed. `LockGoesStale` may also
  hit a live run: a stalled event loop or database connection.
- `claimJob` is one transaction under a resource lock, so the two counts, the
  pick, the charge and the update are one action (`ClaimJob`), and a picked job
  that cannot be charged is the other outcome (`DeferJob`). The pick is
  deterministic: the first eligible row in the ORDER BY.
- `runs` are the calls of `handleJob` in the memory of the workers. A run that
  lost its lease is still there and still acts; `Owns` is the `locked_by` test.
- `stop()` sets a flag that keeps ticks from starting; `Ticking` is true also
  for a stopping worker whose tick is in flight (`TickEnds` ends it).
- `claims` and the lease number of a run are history variables: no guard that
  models code reads them. They name runs, and they carry the bound `MaxClaims`.

### How `UploadScan` corresponds to the code

Each `await` on the database in `processUploadedScan` is an action:
`StartUploadedScan`, the access and plan reads before the parser
(`NotEligible`, `BeginParsing`), the publication transaction (`Publish`), the
catch block's lock read (`CheckLock`) and its write (`FailUpload`).
`ExpireQueued` and `ExpireRest` are the two halves of the expiry sweep.
`access` abstracts token, membership and workspace into one fact per upload.
Reconnecting a source does not bring revoked tokens back.

### How `NotificationOutbox` corresponds to the code

`claimWorkspaceNotification` is one statement and one action. The sending
transaction holds the workspace FOR SHARE and destination and notice FOR
UPDATE while the provider is called; `BeginSend`, `Post` and `CommitSend` are
its beginning, the call and its end, and the guards `WorkspaceFree` and
`DestFree` are the locks others wait for. When the answer does not come within
eight seconds, or the connection breaks, `Post` takes it for a temporary failure
whether or not the provider accepted (`slack.ts` 63-95, `email.ts` 79-128,
`workspace-notification-transport.ts` 39); `unheard` counts the accepted ones.
`LoseSend` aborts the transaction at any point: what the provider accepted stays
accepted. A lease is identified by
the notice's version and attempts, which are unique per claim like `lease_id`.

### How `GithubConnection` corresponds to the code

The webhook route handles a delivery in one step (`Deliver`): for an unknown
installation it is staged in a transaction that locks the inbox, if there is
room; otherwise it takes the ordinary path (`EnqueueFromWebhook`), whose several
statements the model takes together. The order of those of two deliveries is the
order of the deliveries, which is arbitrary here. Connecting has four parts, with
the provider in between: the intent, the read of the inbox (`ReadPending`), the
listing of repositories (`ListInstallationRepositories`) and the transaction
that compares the inbox with what was read (`Unchanged`), binds and replays
(`Bind`). `wire` is the network: deliveries overtake each other and are lost.
`ordered` is a history variable that says whether this has happened; only
`SourcesSettle` reads it. GitHub's own actions are external.

### How `SourceWatch` corresponds to the code

`source` is the row; every change of the connection adds one to `gen`, by the
statement for a package and by a trigger for a website. `epoch` counts the same
changes where no code sees it. A check of a package is `ListPackage` (the poll
lists all rows first), `GetPack` (generation, then the registry),
`TouchWatchedPackage` (the guarded record), `StampPackage` (the generation
again) and `EnqueueScan`; connecting enters it at the record. A website has no
version and is stamped from its row. An import (`importProtectedPackages`) inserts
and records as connecting does, and queues nothing (`ImportPackage`).
`EndCheck` is every early end of a check. `missed` is a history variable: why a
recorded version may go unscanned (not queued after the record, imported, given
up because the connection changed, or because the registry token was gone:
`MissingToken`). A scan reads
the generation when it starts and publishes under the row lock if it is still
the same. `RecoverScan` requeues a job whose run may still go on. In the code
the generation is compared several more times (after the download, after the
scan); those reads can only end a run earlier, which `GiveUp` covers.

### How `Membership` corresponds to the code

A transaction of a user's request is one record `tx[u]`: which locks it holds is
its position `at`, what it has read its other fields. `Authorise` is the read
of the actor's role, done in the statement that waits for the workspace row;
`ChangeWorkspaceMember`, `InviteWorkspaceMember`, `RevokeWorkspaceInvite` and
`AcceptWorkspaceInvite` are the rest of their transactions, and wait for logins
(`WorkspaceFree`, FOR SHARE against FOR UPDATE). The older routes lock the
actor's row, then the target's, and count administrators without locking them
(`LockActor`, `LockTarget`, `SetInstallationRole`). A login reads in `BeginLink`
and becomes visible in `Link`; a session reads in `BeginSession` and inserts in
`CreateSession`. Rows of `installation_users` are locked one by one
(`Unlocked`). `RollBack` aborts a transaction anywhere.

### How `Disclosure` corresponds to the code

No request of the desk holds a transaction across its read and its write, so
each is at least two actions: `AskEdit` and `UpdateDisclosureCase` or
`PreviewDisclosureCase` (which write back every column they read), `AskAssign`
and `AssignDisclosureCase`, `AskCreate` and `CreateDisclosureCase`, and for
contacting a prospect the gate, the duplicate check, the links and the write.
`request[o]` is what the request has read. What a duplicate check finds has two
parts. Owner, repository and package of a prospect never change, and the
fingerprints of a case are those it was opened with: `Kin` is constant. Policy
URL, contact and stored hosts change with every update, preview and view of a
case (`disclosure.ts` 1666-1680, 1825-1830), and the route passes the ones it
read before: `DuplicateMatches` finds all kin with a case and *any* set of
other open cases, a new one at each look. States that the desk never tells
apart are merged, as the comment at `States` says.

### How `StripeBilling` corresponds to the code

The webhook claims an event and applies its patch in one transaction that locks
the account, so `Deliver` is one action; `FailDelivery` is the same transaction
rolled back, after which Stripe sends the event again. `events` never shrinks:
any event may arrive at any time, in any order, late or again. `Matches` is how
an event finds its account (metadata, customer or subscription), `PatchedPlan`
what it does to the plan. `PersonalAccepts` is the chain of refusals of
`applyPersonalStripePatch`, one conjunct per check; an installation's account
has none of them. `Checkout` is the only thing an account does by itself. Stripe's
own steps (`Complete`, `Pay`, `FailPayment`, `Cancel`, `PayLate`) are external.
`ordered` and `ended` are history variables.

### How `ProductionParity` corresponds to the code

`Prepare` and `Complete` are the two transactions of the handler, with the reads
of the site between them; `Catch` is the update of its catch block and
`CatchFails` that update failing; `Finish`, `Recover`, `Stall` and `Crash`
are what the queue and the host do with the job. A process runs several handlers
at a time (`config.ts:120`, `worker.ts` 842-851) and the lease names the process,
so `Handlers` are the places for handlers and `Process` says whose each is: a
process whose heartbeats stalled may claim a job again beside its own earlier
handler, which passes every `locked_by` test (`Owns`). `shared` is the history of
such observations. An observation is never interrupted at shutdown: its handler
throws a fresh error, and nothing of it runs in an executor. The row compares baseline revision and
origin generation with the newest ones. Nothing tells two revisions or two
generations apart, so the model keeps the outcome: `bound` is set by `Queue`
and taken from every row when a revision or a generation is made
(`ChangeEvidence`), while an exclusion or a suspension leaves it alone. The
repeated checks before each request to the site can only end the handler earlier
or shorten its result.

## Runs

| Run | Instance | Distinct states | Shows |
|---|---|---|---|
| `JobQueueBilling` | 1 scan, 2 workers, 3 days, 2 stalls | 122k | counters equal reservations; no other worker's cleanup refunds a scan; the promise is kept |
| `JobQueueLiveness` | observation and upload of one payer, a prospect scan, 1 slot per lane, 1 charge a day, 2 workers | 29k | lanes and the allowance hold across hosts; running ends; payable jobs settle |
| `UploadStalls` | 1 upload, 2 workers, stalls | 333k | verdicts final, evidence paid, publication fenced, no upload left behind, implements the queue |
| `NotifyFaults` | 1 destination, alert, test, 2 senders, 1 fault | 236k | duplicates only after a lost commit or an unheard answer; replaced destinations receive nothing; every notice finishes |
| `GithubConnect` | 2 repositories, 2 workspaces (one personal), 4 webhooks, inbox of 2 | 2.5M | nothing stays in the inbox; one owner; sources settle |
| `SourceWatch` | a package or a website, 2 checkers, 1 worker, 2 versions, 2 changes, 2 jobs | 4.3M | publication belongs to the live connection; a recorded version goes unscanned in four named ways only |
| `TokenSaved` | 1 package, 1 checker, 1 worker, 1 version | violation | a check after the token was saved queues no scan |
| `Membership` | 3 users, 2 transactions at a time, 1 invite | 478k | an owner remains; the removed stay out |
| `InstallationAdmins` | 2 users | violation | two administrators demote themselves at once |
| `DeskOperators` | 2 prospects of one owner, 2 operators, 1 check | 1.3M | verified cases have their hash; contacts of kin are linked |
| `StripeEvents` | either kind of account, 2 subscriptions, 4 events, 1 failed transaction | 3.7M | in order, the plan follows the subscription; in any order, an ended one stays ended and a live one is not replaced |
| `ParityRaces` | 2 observations, a process with 2 handlers and one with 1, 1 fault | 301k | one observation under way; published by no process that lost the job, under current authority; a pending one ends, but for two named losses |

### Bounds, and why they are enough

- Two workers: every race of the queue is between the holder of a lock and one
  other process or an earlier run of the same one. Three jobs where they compete
  (two heavy ones of one payer and a prospect scan, for the lanes, the allowance
  and the order of claims), one where the question is about one row.
- `MaxDay` = 3 lets a job be charged, refunded and charged again on different
  days. `MaxClaims` = 2 lets a live run be overtaken, which gives two runs of
  one job in memory; it bounds stalls of live locks and claims of a stopping
  worker only, other retries are not bounded. `MaxAttempts` = 2 gives a
  retry and a final failure.
- Daily and concurrent caps are 1 (solo) and 2 (team) instead of 8/24 and 1/3,
  so that the limits are reached. The theorems hold for every value.
- `Replaceable` keeps the last worker alive: it bounds crashes, and for liveness
  says that the host replaces a dead worker.
- `MaxVersion` = 2 gives a replaced destination; `MaxFaults` = 1 gives a lost
  transaction or an outlived lease, which is enough for a duplicate and a retry;
  the proofs cover any number.
- `GithubConnect`: 4 webhooks are an installation, two changes of its
  repositories and a release or a removal; an inbox of 2 overflows. Of the two
  workspaces one may claim a personal installation, the other needs the webhook
  that reported it.
- `SourceWatch`: 2 changes are a pause and a resumption or a disconnection and a
  reconnection between any two steps; 2 checkers are the poll and a manual
  check. One worker takes a job again after a recovery, but two runs of one job
  at the same time appear only in the proofs, which take any number of workers.
- `Membership`: a race needs two transactions and a third person about whom they
  are; one pending invitation at a time is replaced or revoked under another's
  acceptance.
- `TokenSaved`: the constraint `ChecksAfterAlert` lets a check begin only after
  the alert of the scan, so that the check is the one the alert asks for.
- `DeskOperators`: two prospects of one owner leave the duplicate check nothing
  to match by a host alone; a third that only matches by hosts takes more states
  than the run has time for. That it changes nothing for the other two is what the
  theorem says, which takes any `Kin` and any further match. One check (the reproduction) makes the checklist empty or
  complete; two operators are one stale writer and one who changes the case.
  Symmetry sets permute operators, users, checkers, repositories or
  subscriptions, which no definition names; no run that checks liveness has one.
- `StripeEvents`: four events are a purchase, its end, a second purchase and one
  event that any of them has overtaken; Stripe's clock may stand still, so that
  two events have one second. One failed transaction is enough for an event to
  be redelivered after others.
- `ParityRaces`: one fault is a stall, a crash, a failed query or a failed catch.
  With three places for handlers, two of them in one process, a stalled handler
  goes on beside the next one in its own process or in the other. More faults,
  processes and places are the proofs' matter. Evidence and access change without
  bound.
- Only `NotifyFaults` checks deadlock. Elsewhere the bounds stop the system: when
  all jobs are settled, or all changes and webhooks are used up, there may be
  nothing left to do.

### Fairness

`JobQueue!FairSpec` assumes that workers start and drain, that the recovery
interval (`WORKER_INTERVAL_MS`) keeps ticking, that a run in memory ends (the
executors have session limits), that a lock nobody refreshes goes stale and
that `run_after` passes. Claims of a job are strongly fair: deferrals and
backoffs put the jobs in front of it away for a while and a tick claims until
nothing is claimable. This is an assumption about load: a queue with more
unpayable jobs at its head than ticks per hour could violate it, because a
deferral ends the tick's claim loop (`store.ts` 2890-2893). Nothing is assumed
about heartbeats, crashes, stalls or enqueues.

`NotificationOutbox!FairSpec` assumes that ticks drain due notices, that the
provider call returns (an eight second deadline), and that leases and backoffs
run out. Losing a transaction is never fair.

`ProductionParity` assumes that a handler takes its next step (the reads of the
site are bounded), that workers claim what is queued and that every tick recovers
stale jobs. Nothing is assumed about administrators or faults. `StripeBilling`,
`Membership` and `Disclosure` assume no fairness: what must happen there depends
on people and on Stripe.

## Findings

1. `TokenSaved`: the alert of a scan without its registry token says to save the
   token and check the package again (`worker.ts:467`). The version is recorded as
   seen before its scan is queued, so that check finds it unchanged and queues
   nothing; it is scanned only after the package was connected anew, or when its
   bytes or tags change.
2. `InstallationAdmins`: the older member route locks actor and target but counts
   administrators without a lock. Two administrators who demote themselves at the
   same time lock one row each and both count two, so the installation keeps its
   members and no administrator. (Demoting each other, they wait for each other's
   rows and the database ends one of them.) The same happens to one who demotes
   itself while an accepted invite downgrades the other at login.

## What does not hold

Three more properties are stated in the modules because a comment or a document
of the repository states them, and TLC finds each of them violated. No run checks
them. To see a counterexample, add the property to the named configuration, as
its only property:

- `NoFreeScan` (`JobQueueBilling.cfg`, INVARIANT). `store.ts:2885` says "no free
  retry can escape daily limits". The lease is the process, so a run whose
  heartbeats stalled can refund the reservation that the next run of the same
  process holds, and that run's scan is free.
- `GateHasEvidence` (`DeskOperators.cfg`, INVARIANT).
  `docs/products/disclosure-desk/PRD.md:57` says "A signal cannot enter outreach
  state without verification evidence". Emptying the checklist of a verified case
  leaves it verified, so it passes the contact gate; a stale update or preview
  does the same.
- `OvertakenGrantsNothing` (`StripeEvents.cfg`, PROPERTY). An invoice's event
  that was overtaken by the end of its subscription gives an installation its
  plan back, because `applyStripeBillingPatch` compares no times
  (`store.ts:2449`; `docs/PRODUCT.md:329` asks to "kill unpaid hosted installs"
  after a cancellation). The account of a personal organisation refuses it, except
  when it takes the event of one subscription for a replacement of another that
  has ended (`personal-billing.ts:72`): the replacement may itself have ended, in
  an event the account refused. `docs/GATE-B-IMPLEMENTATION.md:74` says that
  out-of-order cases fail closed.

Weaker than one might expect, because of what the code does:

- `AcceptedAccounted`: a notice may be sent twice when the provider accepted and
  its answer was not heard. Nothing in the repository promises more than delivery
  at least once.
- `PublishedUnderAuthority`: an earlier handler of a process may publish while a
  later one of the same process holds the job. `PendingEnds` excepts `shared`: the
  earlier one may also end the job under the later one, whose catch then writes
  nothing, and the observation stays "running" with its job done until someone
  cancels it. Without the exception TLC finds that trace in `ParityRaces`.
- `RecordedAccounted` allows four ways for a recorded version to go unscanned. It
  says that there is no fifth.
- `KinOutreachLinked` is about owner, package and fingerprints. Prospects that
  share only a host can both be contacted and stay unlinked: the host may be stored
  by an update after both contacts, or between the two looks.
- An upload that expires while it is queued is refunded; its job is claimed later,
  charged as any retry is (`store.ts:2885`) and ends without a scan.

## Proofs

All theorems hold for every value of the constants that satisfies the ASSUME
statements of the module (`JobQueueAssumption`, `OutboxAssumption`,
`WatchAssumption`, `MembershipAssumption`, `DisclosureAssumption`,
`ConnectionAssumption`, `StripeAssumption`, `ParityAssumption`, and that `None` is
no worker, workspace or subscription). These say what the bounds are numbers of,
that jobs, users and observations are finitely many, that being kin is
symmetric, and what the schema says of kinds and payers; TLC evaluates them in
every run. Nothing is assumed about
uploads beyond this: that their jobs are billed is the guard of
`QueueUploadedScan` (`upload-store.ts` 81-104) and an invariant (`UploadsOnly`).

Each proof follows one pattern: an inductive invariant as a conjunction of named
parts, one lemma per action or group of actions, and the theorems read off it.

`JobProofs` first proves `Spec => []IInv` for the queue. `IInv` is the
conjunction of `TypeOK`, `ReservationOK`, `LedgerExact`, `LeasesDistinct`,
`LockMatchesStatus`, `WithinConcurrency` and `PersonalExclusive`. What each adds:

- `LedgerExact` is a count, so each step needs to know how the set of
  reservations of a payer and day changes. The step lemmas reduce
  every action to one of few shapes (quiet, one row charged, one row refunded,
  several rows unlocked) and the cardinality theorems do the rest.
  `ReservationOK` keeps a refund from naming no payer or no day.
- `WithinConcurrency` and `PersonalExclusive` are preserved because only a claim
  adds a running row, after counting them all.
- `LeasesDistinct` makes the claim number name a run; `RefundSparesScanned`
  needs it to tell the current run from an earlier one.

Action properties (`TerminalIsFinal`, `EndedByLockHolder`,
`ChargeWithinAllowance`, `RefundSparesScanned`) follow from `IInv` and one case
per action. `LockMatchesStatus`, `TerminalIsFinal`, `EndedByLockHolder` and
`PersonalExclusive` are proved for every instance and not repeated in a run;
neither is `FinishedIsFinal` of the outbox.

The part on uploads proves that every step of the composition is a step of the
queue or leaves it alone (`ImplementsQueue`), inherits `IInv`, and
adds `UploadVarsOK`, `UploadHasJob`, `StepsOK`, `ScanUnpacked` and
`PaidUnlessFailed`: an upload that can still be published holds its
reservation. `PaidEvidence` is its third case, and is not inductive without the
other two. `NothingLeftBehind` needs that a run stands at "return" only after
`CheckLock` or a verdict, and that an upload changes its status only by its
current run or by expiry.

A third part proves that every action of the queue is a step of `JobPromise`
under the mapping or leaves it alone (`PromiseKept`). It rests on
`IInv`: the abstract room of a lane is counted in held jobs and the code's in
rows, which are the same set only by `LockMatchesStatus`; an abstract charge is
within the allowance because the counter that the code compares is the number of
reservations (`LedgerExact`).

`SourceWatchProofs` proves `PublicationFenced` from `FenceIInv`:

- `GenIsEpoch`: the generation in the row is the number of changes so far;
- `StampsTrue`, `JobsTrue`, `RunsTrue`: a stamped check, a queued job and a run
  under way carry a generation together with the epoch it meant. Publication
  compares generations; only this chain makes the comparison one of epochs.

`RecordedIsAccounted` adds `OneDelivery` (a delivery id names one job) and, for
packages, that the version of the row, every version a poll has listed, every
published run and every done job is accounted for. A job that was given up, for its
connection or its token, has its version in `missed`. `ScansKeepPromise`
adds `LocksTrue` (a scan has a worker just while it runs) and reduces every step
to what it does to the status and the worker of at most one scan (`JobMoves`).

`MembershipProofs` proves `MemberIInv`. `TxTrue` says what an open transaction
may still believe: the role it was authorised with may be stale, but nobody is
revoked while they are being linked, and the target of an older route is not
revoked, or is an explicit member again, while its row is locked.
`OwnersExplicit` keeps a legacy row from counting as an owner; with it,
`LastOwnerKept` follows from the count under the workspace lock.
`RevokedStaysOut` follows from its part `RevokedOut`, since a legacy row has the
role of the installation.

`DisclosureProofs` proves `DeskIInv`. `VerifiedHasHash` must also hold of the
stale rows in open requests (`RequestsTrue`), since they are written back; it
survives because a hash is never withdrawn. `KinOutreachLinked` is about
two requests, at whatever stage each is. `Pairs` says that two kin that have both
passed the links are linked, that a confirmed request knows every kin that has
passed, and that of two confirmed requests for kin at least one knows the other.
It needs `ContactedOpen` and the open cases of `RequestsTrue`: the duplicate check
finds open cases only. Whatever else a check matches only adds links.

`NotificationOutboxProofs` proves `Spec => []OutboxInv`, the conjunction of:

- `TypeOK` and `OpenSendCurrent`. The second is what the row locks buy, and all
  the others need it: the row of an open send is running, belongs to that
  sender, and no other open send has it.
- `AcceptedAccounted`, inductive given that: settling or losing an accepted post
  ends the one send that could account for it, and a post that was accepted and not
  heard of is accounted for at once.
- `AlertsRaised`: a notice of an alert exists only after the alert was raised,
  so raising one never replaces a finished notice (`FinishedIsFinal`).
- `ClaimRoom`: a notice that can be claimed without another fault has an attempt
  left. `ClaimsBounded` alone is not inductive, because a claim raises
  `attempts` in a step that has no fault.

`ProductionParityProofs` proves `ParityIInv`:

- `OnePending` counts more than the rows under way: a failed row whose job will be
  tried again comes back under way, so `OneUnderWay` alone is not inductive.
- `JobsTrue` and `HandlersTrue`: a row has a job as soon as it exists, a job that
  runs has a worker, and a place without an observation is idle.
- `LatestTrue`: when a process holds a job and has handlers at work on it, one of
  them made the latest claim. `PublishedUnderAuthority` needs this: the code asks
  for the process only.
- `AttemptsPaid`: each attempt beyond `MaxAttempts` was paid for by a fault, also
  the one a waiting or abandoned job may still be given. Without the second part
  the bound in `ParityTypeOK` is lost at the next claim.

`ParityKeepsPromise` follows from `JobsTrue`, with the same `JobMoves` as above.

`StripeBillingProofs` proves `StripeIInv`. Its parts say, from Stripe to the row:

- `SentTrue` and `NewestTrue`: an event says what was so when it was sent, a
  deletion is about a subscription that has ended, and the newest event about a
  subscription says its state. Stripe's clock may stand still, so order is one of
  times and not of events.
- `RowTrue` and `EndsTrue`, in whatever order events arrive: the row names a
  subscription, its customer and a status together; a terminal row has no plan
  and names a subscription that Stripe has ended; an end that a personal account
  recorded is its row's or is retired. `EndedStaysEnded` and `ReplacesEnded` follow.
- `ClaimsTrue`, only while events are claimed in order: equal times say the same,
  no event follows the end of its subscription, and the row is that of the newest
  claimed event about its subscription. Together with `NewestTrue` this gives
  `PlanFollowsSubscription` once everything is claimed. Out of order it is false
  (see `OvertakenGrantsNothing` above), hence the condition.

`GithubConnectionProofs` proves `ConnectionIInv`. `BoundTrue` (a row and its
owner are written together, and the inbox is empty from then on) gives
`NothingLeftInInbox` and `OwnerKept` in any order of deliveries. `SourcesSettle`
holds while no webhook is lost or overtaken, and needs an invariant over the log
`inbox \o wire`, the webhooks that the database does not show yet:

- `IdsTrue` and `ShapeTrue`: the log is in the order of sending, starts with the
  installation and ends with its removal, if these are in it;
- `LogTrue`: the last webhook in the log that names a repository says whether
  GitHub gives it; `SettledTrue`: a repository that no webhook on the wire names
  is as GitHub has it;
- `ListedTrue`: what an attempt listed is still so, or a webhook that says
  otherwise is on the wire or in an inbox that has changed since it was read, so
  the transaction refuses to bind;
- `RemovedTrue`: the end of the installation is the last webhook.

Binding replays the inbox by a recursive function. That it applies every event
once, in order, is an induction over the inbox (`ReplayExists`, `ReplayWrites`).
The library's induction theorems take an operator as a parameter and cannot be
used; `NatSetInduction` states induction for a *set* of numbers, and follows from
the least element of a set of finite sets ordered by inclusion.

Only model-checked are the liveness properties `RunningEnds`, `PayableSettles`,
`NoticesFinish` and `PendingEnds`: fairness and ENABLED are beyond the proof
system. Every invariant and action property of a passing run is a theorem. The
two theorems `ScansKeepPromise` and `ParityKeepsPromise`, like `FinishedIsFinal`
and the four of the queue named above, are proved and not repeated in a run.
No module declares a RECURSIVE operator.

## Not modelled

The scanner, signatures, HTTP and presentation are sequential or external. A
database transaction is atomic and serializable as far as its row locks make it
so; where they do not, the model splits it (`Membership`, `NotificationOutbox`).
A serialization failure is an error the handlers see (`FailJob`,
`HandlerThrows`, `LoseSend`, `RollBack`, `Abandon`).

Left out of modelled parts: notifications of routes that belong to a GitHub
installation (`notifier.ts`); the cleanup of temporary files; suspension, renames,
authorization revocation and manual redelivery of webhooks; the schedule version
of websites and the alerts of a publication; archiving of workspaces and team
coverage; notes, attachments, replies and report links of the desk. A tick in
flight may go on claiming after `stop()` (`worker.ts` 837-851); the model allows
it and no property forbids it.

`StripeBilling` has one account, one price and no trial: an event that belongs to
two accounts, the refusal of an unknown price and the end of a trial are left
out. `PlanFollowsSubscription` says nothing of an installation that bought two
subscriptions, whose account takes whichever event came last. The queue runs
under arbitrary plan changes, so the two are not composed.

`ProductionParity` leaves out what an observation compares (paths, bytes,
redirects), the view and request keys.
The staging budget is one transaction under one lock; a model of it would restate
its guard.

## Plan

Done: `JobPromise`, `JobQueue`, `UploadScan`, `NotificationOutbox`,
`GithubConnection`, `SourceWatch`, `Membership`, `Disclosure`, `StripeBilling`,
`ProductionParity`, and proofs of the safety properties of them all.

Next modules, in order:

1. `AutomaticCapture`: the follow-up job in the publication transaction.
2. Release governance and gate (`app.ts` 5814-5950): holds and approvals are read
   and inserted in separate statements, so the one who placed a hold may release
   it by a race; a gate's grant is consumed under the workspace lock.
3. `Alerts` and routes (assignment revisions, `notifier.ts`).
4. The schedule version of websites in `SourceWatch`; suspension and manual
   redelivery in `GithubConnection`.

Theorems planned: that `ProductionParity` implements `JobQueue` itself, which
needs leases and reservations in its jobs; and an abstract `GithubConnection` (the
repositories GitHub gives, known at most a few webhooks late) that its inbox and
tables implement.
