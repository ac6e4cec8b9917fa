# Mailvex: specifications

TLA+ specifications of Mailvex (in the source: EngageIQ), an email marketing
platform: a TypeScript API (`src/engageiq-api`), Go workers
(`src/engageiq-workers`), PostgreSQL, Redis, NATS JetStream and Amazon SES.
The modules are translated from the source and checked with TLC on small instances.
For the campaign pipeline and its lifecycle, transactional sends, the segment refresh,
domain verification, workflows, events, the Stripe webhook and the accounts (sessions and membership), the safety properties are
also proved with TLAPS, for every instance. `PROJECT.json` maps every definition to the
lines it stands for.

## 1. The system

### Parts, state and operations

| part | where | state it keeps | operations |
|---|---|---|---|
| campaign service | API `modules/campaigns` | `campaigns` rows, optimistic `version` | create, update, schedule, send, pause, resume, delete |
| campaign pipeline | workers `worker/email/{campaign_scheduler,batcher,handler}.go` | `campaigns` counters, `campaign_recipients`, stream CAMPAIGN | claim a due campaign, stream a segment into chunks, send a chunk, count, complete, dead-letter |
| transactional send | API `modules/transactional`, worker `worker/email/handler.go` | `email_sends`, Redis idempotency keys, stream EMAIL | send, status, templates; deliver, retry, dead-letter |
| usage and quotas | API `modules/billing/services` | `usage_counters`, Redis snapshot | record, read through a cache, check, reconcile |
| segments | API `modules/segments`, worker `worker/segments` | `segments`, `segment_contacts`, Redis lock | edit a filter, request a refresh, recompute the members |
| domain verification | API `modules/domains`, worker `worker/ses` | `domains`, SES identities | register, verify, delete; poll SES, expire |
| workflows | API `modules/workflows`, worker `worker/workflows` | `workflows`, `workflow_executions`, Redis locks | publish, pause; trigger, run nodes, wait, resume |
| events | API `modules/events`, worker `worker/events` | `events_raw`, `events_enriched`, `contacts` | ingest, enrich, trigger workflows |
| contacts | API `modules/contacts` | `contacts` | create, update, bulk import, unsubscribe |
| workspaces | API `modules/workspaces`, `auth/rbac` | `workspaces`, `memberships`, `invitations`, role cache | invite, accept, change role, transfer, delete |
| billing | API `modules/billing`, Stripe webhook | `subscriptions`, `billing_events` | checkout, webhook, plan change |
| sessions | API `modules/auth` | `sessions`, token families, denylist | login, refresh, revoke |
| rate limits | API middleware, `ratelimit/token_bucket.go` | Redis | take a token |
| shell | routing, plugins, analytics, cleanup, frontend, SDK | - | no protocol of its own |

### How they interact

The API writes a row and publishes a JetStream message; the two are separate steps
everywhere, most publishes are awaited and undone on failure (transactional,
campaign send, event ingest), some are fire-and-forget (segment refresh, domain
verification). Workers are consumers with `MaxDeliver`, `AckWait` and `BackOff`;
they Ack, Nak or Term. The API and the workers share tables without sharing
transactions: the API's writes bump `version`, the workers' writes do not. Redis holds locks
(`SET NX` with a TTL and a compare-and-delete release), idempotency keys and
caches. SES is called between two database writes.

### What is hard

* Delivery is at least once: a crash, a lost write or an expired AckWait repeats a
  handler from its start, and two deliveries of one message can run at once.
* Side effects outside the database (SES) sit between two writes.
* A retry of a chunk repeats part of it, while counters are added up.
* The audience of a campaign is recorded after its chunks are already being sent.
* Locks expire under their holder (the segment lock lives 10 minutes, the handler
  may run 12).
* A poller's batch outlives the lock under which it was fetched.
* A SES identity is named by domain, not by registration.
* Publish after commit, publish without waiting, and acknowledgements that get lost.
* API calls read, check and write later: the role, the plan, the status or the row they
  checked may be another by then.
* At READ COMMITTED an UPDATE chooses its rows when it starts and sees no row inserted
  while it waits for a lock.
* Stripe delivers events in any order and more than once, each with a snapshot.

The full list, with the line where each one bites and the property that covers it,
is `hazards` in `PROJECT.json`.

### What makes each part correct

* campaign pipeline: `sent` is true and final; nobody is mailed twice unless
  something failed; every recipient gets a final status; a pass that finished left no recipient
  without a chunk; a completed row stays counted.
* campaign lifecycle: nobody edits what is on its way; one start however many users send;
  a campaign that says `sending` has somebody at work for it.
* transactional: an answered call has a tracked row and a queued message; one
  send per idempotency key; the quota holds.
* segments: one refresher at a time; the shown count is the size of the
  membership; the last definition wins; a request ends in `ready` or `failed`.
* domains: `verified` was proven by this registration's key; a requested verification is
  polled until it has a result.
* workflows: an email node mails once; no delay is cut short; an execution ends.
* events: a visitor stays one contact; what is called processed was enriched and triggered;
  an accepted event ends.
* sessions: a token is replaced once, a session has one live token, and what is revoked loses
  its access; a removed member is signed out.
* workspaces: the workspace names the one member who owns it; requests are let in with the
  role their user has.
* billing: every Stripe event is written once; the row ends as Stripe's; checkouts take turns.

## 2. Modules

| module | models |
|---|---|
| `WorkQueue` | a JetStream work queue: publish, deliver, settle, redeliver up to `MaxAttempts` |
| `CampaignRow` | the `campaigns` row and each conditional UPDATE the workers run on it |
| `CampaignSend` | scheduler, start handler, chunk handler over the two above |
| `RecipientContract` | abstract: what `campaign_recipients` promises its readers; `CampaignSend` implements it (`RowsKeepContract`) |
| `TransactionalSend` | `sendEmail`, its idempotency key, quota and usage, and the email worker |
| `SegmentRefresh` | filter updates and refresh requests against the segment worker and its lock |
| `DomainVerification` | register / verify / delete against the poll worker, the sweeper, SES and DNS |
| `WorkflowExecution` | trigger handler, executor and delay pollers against execution rows, locks and the API's pause and delete |
| `CampaignLifecycle` | the API's campaign calls and the scheduler over `CampaignRow`, with the pipeline for an audience of one |
| `EventPipeline` | event ingest and the enrichment worker over `WorkQueue` |
| `SessionRotation` | `refresh_tokens`, access tokens and the denylist of one user |
| `WorkspaceMembership` | members, owner, invitations and the role cache of one workspace |
| `Accounts` | the two above composed: removing a member goes on, in one call, to revoke the sessions |
| `BillingWebhook` | the subscription: Stripe's side, the calls that change it, the webhook |
| `MC_*` | constants and symmetry for TLC |
| `CampaignSend_proofs`, `CampaignLifecycle_proofs`, `TransactionalSend_proofs`, `SegmentRefresh_proofs`, `WorkflowExecution_proofs`, `EventPipeline_proofs`, `Accounts_proofs` | theorems about the module each extends |
| `OutsideServices_proofs` | theorems about `BillingWebhook` and `DomainVerification`, which both keep a row in step with a service outside; the two share no name |

`CampaignSend` and `CampaignLifecycle` extend `CampaignRow`; `CampaignSend`, `TransactionalSend`,
`WorkflowExecution` and `EventPipeline` extend `WorkQueue`.

A step is what another process can observe: one SQL statement, one Redis
command, one SES call, one publish or one settlement. A process's local state
is a program counter per delivery slot or API call, named after the code's step.
`A_Something` beside a definition `A`, marked "Faulty variant", is a plausible bug:
it is no part of any behaviour and is used to show that a property would notice it.

**Disturbances.** Whatever the environment does to the code is an explicit outcome
of the step it hits: a statement that fails (before or after it took effect, where both
can happen), a lost publish, a crash (`Crash*`), a context timeout
(`ContextExpired`), an AckWait that runs out under a live handler, a duplicate-window or
lock or key TTL that ends early. Each one counts in `disturbances`, bounded by
`MaxDisturbances`, so that properties can say "without a disturbance". An AckWait that ends
after a crash is not a disturbance but the recovery. `SessionRotation` and
`WorkspaceMembership` count crashes and failures instead, `BillingWebhook` troubles. A variable
under "observation" decides nothing (no guard and no other variable depends on it): it
remembers what a property needs of the past.

### CampaignSend

State: `segment`, `campaign`, `recipient` are the tables; `startMsg`, `chunkMsg`,
`payload`, `dedup`, `dlq` the streams; `spc...` and `pc...` the two handlers per delivery
slot. `accepted` counts what SES took. `SchedulerPoll` claims the due campaign and `SchedulerFire`
publishes; the API's immediate send is an initial state with the start message
published. The start handler is `ReceiveStart`, `StartStatus`, then `InsertPage` and
`PublishChunk` for each page, `FinishStart`, `AckStart`. The chunk handler
is `ReceiveChunk`, then per recipient `Check`, `MarkSending`, `SendEmail`,
`MarkSent` or `MarkFailed`, then `Count`, `Complete`, and `AckChunk`, `RetryChunk` or, on the
last delivery, `GiveUp`, `FinalCount`, `FinalComplete`, `DeadLetter`.

Abstractions: delivery events (published, errors only logged) are left out; the
content of a mail is not modelled, so rendering cannot fail, which is also what the
code does (`failAllRecipients` has no live caller). A payload that cannot be
parsed is terminated at once in the code and has no place here. The rate limiter and the
status check are one step. The consumer fetches ahead, so a delivery can wait in a slot while its
AckWait runs. `AckWait` is the first `BackOff` entry (one minute) because JetStream
replaces the one by the other; the handler may run longer, hence expiry
under a live handler. Nobody writes `bounced`, so it is not a status.

### TransactionalSend

`rpc` follows a call through `Arrive` (idempotency), `ReadUsage`/`CacheUsage`, `InsertSend`,
`Publish`, `Rollback`, `RecordUsage`/`DropCache`, `StoreResponse`; `pc` a delivery through
`Receive`, `Check`, `MarkSending`, `SendEmail`, `MarkSent`/`MarkFailed`, `DeadLetter`,
`SettleSend`. Calls share one idempotency key unless they are in `Keyless`. Merged: `SET NX` and the `GET` that follows it; the read of the cache and of the counter.
Left out: audit, metrics, templates, the delivery events, and the reads that only refuse a call (one action, `Refuse`).

### SegmentRefresh

A filter is the set of contacts it describes, or `Unknown` for an operator the worker's
evaluator rejects. `Request` is `updateSegment` or `refreshSegment`, `Enqueue` the
publish nobody waits for. The worker goes `Receive`, `AcquireLock`, `LoadSegment`,
`MarkProcessing`, `Evaluate` (contact by contact, the page size taken as one),
`ReadMembers`, `InsertMembers`, `DeleteMembers`, `UpdateReady`, `ReleaseLock`. `lock` names
the slot whose delivery holds it, `Orphan` a holder that died, or a `SET NX` whose answer was lost: the Redis client tries
again and meets its own lock (`skipped`), or gives up and the delivery is repeated. A failing evaluation writes `failed` and naks
in one step. `GetSegment` does not look at `deleted_at` and nothing here deletes; static segments, whose
members are edited by hand, and a filter tree that cannot be parsed (terminated at once) are left out.

### DomainVerification

A member of `Regs` is one registration, `domain` the table; a domain can be registered again after a
deletion. `Calls` choose what they do: `CreateCheck`..`PersistKey` (with `Rollback`,
`UndoIdentity` on errors), `VerifyRead`, `Requeue`, `PublishPoll`, or `DeleteRead`, `MarkDeleting`, `RemoveIdentity`,
`Tombstone`. `poll[c]` is the message call `c` published about row `crow[c]`; a pending result is a Nak, the consumer redelivers without limit.
`GetStale`/`MarkExpired` are the sweeper. SES has one identity per name and decides
`success` or `failed`; a verified identity may lapse and come back (`TEMPORARY_FAILURE`); the user publishes the DNS record of a row. Left out:
claims by a second workspace, the plan's domain quota, attempt and reminder counters, domain events, poll delays.

### WorkflowExecution

A workflow is the sequence of its nodes' types, an execution its unique key. `row`, `nodes` and
`wf` are the tables, `lock` the per-execution lock by value, `pollLock` the pollers'. The
trigger handler is `Receive`, `CheckTrigger`, `CreateExecution`, `AcquireLock`, the executor
`EmailNode`, `Advance`, `DelayNode`, `EndNode`, `BadNode`, `FailExecution`, then `SettleTrigger` and `ReleaseLock`
(deferred in the code, so after the Ack). A poller goes `Poll`, `FetchDue`, `NextExecution`, `LockExecution`,
`LoadForResume`, `GetLatest`, the executor again, `ReleasePollLock`. `DelayEnds` is the
clock, `ChangeStatus` the API's pause, resume and delete.

Abstractions: node lists come from outside, as the workers' tests make them, because nothing in `src/`
writes `workflows.nodes`; triggers too, because the event worker's name no workflow (`FromEvents`,
terminated by `CheckTrigger`). An email node does nothing for a contact that has no address or is not found, which is what happens to
nearly all of them: `GetContactForWorkflow` looks the contact's id up as a `user_id` (see the disagreements). Left out:
the batch limit of 50, the register handler, which only reads, delay lengths, and branches of
the handler that a new execution's lock and constant nodes never take.

### CampaignLifecycle

The campaign row again, with `version`, what the campaign says (`content`) and its
`scheduledAt`. A call reads the row in `Begin*`, is refused there if the status it read says so, and
writes later: `Update`, `Schedule`, `CountSent` (the monthly limit), `ClaimForSend` then `Publish` or `Rollback`,
`Pause`, `Resume` then `Republish`, `Delete`. `TimeComes`, `SchedulerPoll` and `SchedulerFire` are the
scheduler; `StreamStart`, `RecordTotal`, `SendChunk`, `CompleteChunk` the workers, for one contact,
so one chunk; `WindowEnds` is the duplicate window. Retries inside the pipeline are
`CampaignSend`'s subject. Observed: how often the campaign was `published` and paused, the campaigns
`lost` by a failed publish nobody undoes, and those `misled` by a resume that chose its target from an
old read. Left out: create and duplicate, audit, and the checks of sender, segment and content
that only refuse.

### SessionRotation, WorkspaceMembership, Accounts

`SessionRotation` has the rows of one user's `refresh_tokens` in the order they were inserted, the
access tokens not yet expired, and the denylist. A session is a family of rows and goes on while one of them is
unrevoked (`GoesOn`): a row that was rotated away is neither over nor live by itself. `Issue`, `CapStart`, `Cap` are a login; `LockRow` and
`Rotate` a refresh; `RevokeRow` a log-out; `RevokeStart`, `RevokeAll`, `Deny` the revocation of all, from log-out-all, a new password or a
removed membership; `Switch` the token of another workspace. A statement at READ COMMITTED is
two steps where it waits: it chooses its rows, then takes those of them that still qualify.
What is thrown inside a transaction rolls it back, also where the code meant a write to stay.
Observed: `spared`, the rows whose access tokens are left to expire when their session ends: on purpose, by a crash, or because the
row was rotated away before, so that no statement returns it (`RotatedAway`).

`WorkspaceMembership` has `role` (and `joined`, the identity of the row), the workspace's `owner`, `wsVersion` and
`wsStatus`, open invitations and the role cache. A call is let in by `Ask`, `LoadRole`, `FillCache`,
judged in `Decide` by what it reads then, and writes in a step of its own: `ChangeRole`, `Remove`,
`EditWorkspace`, `SwitchStatus`, `Invite`, or `LockTarget`, `LockActor`, `NameOwner` and `CommitTransfer` (the
workspace's update runs outside the transaction that holds the two rows). `findMembershipTx` locks the member's row and, being a
join, the row of the member's role; two calls that wait for each other's rows are a deadlock, of which PostgreSQL aborts one (`DeadlockAborted`). `Invalidate` comes
after the commit. Observed: `torn` (an ownership transfer that was not whole) and `stale` (entries
filled by a guard that had read earlier, or left by a call that died).

`Accounts` takes a step of the one or the other, with one exception: `RemovalGoesOn`, where removing
the `Holder` of the sessions goes on to revoke them. It has the pool of connections all calls share: `Holding` are the transactions and
the statements that may wait for a row, `WantsAnother` the two places where code inside a transaction asks the pool for a second connection (the
owner look-up of a refresh and the workspace's update of a transfer), `WantsOne` everything else; who finds none free waits, as the driver
has no timeout for that. A statement takes all its locks at once and an UPDATE of a member takes the row and the role's together; a call takes the connection of its write with its
decision; postgres.js' pipelining of statements on one connection is abstracted from. Observed: `missed`, rows that a rotation
inserted while the statement that revokes all waited, and their successors. `plan` bounds a behaviour to calls on
sessions, calls on members, or one removal while the user makes requests. Left out of all three: passwords, the failed-log-in
counter, e-mail verification and reset tokens, names and settings, invitation mails, tokens and expiry.

### BillingWebhook

Stripe is the environment: a session is paid (`Pay`), a payment fails or recovers, a period ends;
each change makes events that carry the subscription as it is at that time. The API's calls are `BeginCheckout`,
`CheckRow`, `CreateSession`, `ReleaseLock` under the Redis lock, and `BeginChange`, `AskStripe`, `WriteChange` for a change of plan, a
cancellation and a resumption. A delivery is `Deliver` (the key in Redis), `InsertEvent` (the unique row), `Retrieve`
for a checkout, `WriteEvent`, `MarkProcessed`; `HandlingFails` answers 500 and takes the key back but not the
row. Observed: `asOf`, per subscription the time of the latest state written of it or lost by an UPDATE that found another's row, and
`overtaken` (an older state of a subscription came after a newer), `troubled` events, `applied` counts,
`freed` (the lock was lost by the call that had it). Left out: invoices, the customer record, the portal, trials, prices, and the usage counters, which are in `TransactionalSend`.

### EventPipeline

`InsertEvent`, `PublishEvent`, `RecordUsage`, `RollBack` are the API; the handler is `Receive`, `CheckStatus`,
`MarkProcessing`, `FindContact`, `UpsertContact`, `LinkAnonymous`, `PersistEnriched`, `FindTriggers`,
`PublishTrigger`, `MarkProcessed` or `MarkFailed`. `Upserted` is the one statement with both unique indexes: the
conflict on `(workspace, user_id)` updates, the one on the anonymous id is an error. A contact is named
by the event that created its row. Observed: `stuck`, events whose outcome was lost with the last write or the last delivery. Left out:
batches, the API's quota check, traits and properties, deleted contacts.

## 3. Runs

All runs finish in about three minutes at most with two workers.

| run | instance | shows |
|---|---|---|
| `send_delivery` | one chunk of two, 2 chunk slots, 2 attempts, every outcome of a send, 1 disturbance, fairness | rows tell the truth and keep the contract; no duplicate without a disturbance; undisturbed, every member ends `sent` or `failed` |
| `send_streaming` | two chunks of one, 2 start slots, 2 disturbances, 1 segment change, fairness | a finished pass left nobody behind, however often it was repeated; a completed row stays counted; a published campaign mails everyone in spite of a disturbance |
| `campaign_lifecycle` | 1 campaign, 3 calls with 2 in flight, 2 contents (one a template without a body), 1 disturbance, fairness | what is mailed is what the campaign says; `sending` has work; one start; a sending campaign is mailed unless it leaves that status |
| `tx_delivery` | 2 calls on one key, 2 slots, SES accepts or fails transiently or the limiter denies, 2 disturbances | answers are tracked; one send per key when calls do not overlap |
| `tx_resolve` | 1 keyed and 1 keyless call, quota of one, permanent failures too, fairness | the quota holds when calm; every answered send is resolved |
| `segment_refresh` | 2 contacts (both exist at first), 2 requests, 2 slots, 1 disturbance, 1 contact change, fairness | one refresher, truthful count, last definition wins, requests resolved |
| `domain_races` | 2 registrations, 2 calls, 2 slots, 1 disturbance, fairness | what is verified was proven; a request is polled; no verification stays open, by the polls or in the end by the sweeper, whatever was lost; from a new, a registered and a half-deleted domain |
| `workflow_engine` | 1 execution, lists of up to 6 nodes, 2 trigger slots, 2 pollers, 2 disturbances, 1 status change, fairness | no email twice, no delay cut short; an undisturbed execution ends |
| `accounts` | 2 calls, up to 3 requests and 3 rows with room for 1 session, pools of 2 and of 3 connections, 3 users, 2 membership calls, 1 crash, fairness | one chain per session, revoked access ends, the owner is named, the role cache is current, a removed member's session is over, calls are answered unless the pool is exhausted |
| `billing_events` | 2 subscriptions, 2 plans, 2 calls, 2 deliveries, 3 changes, 1 trouble, 4 of these together | events written once, no event answered and dropped, the row shows Stripe's state, checkouts take turns |
| `event_pipeline` | 2 events of 5 kinds of visit, 1 workflow, 2 slots, 2 attempts, 1 disturbance, fairness | one contact per visitor, processed means carried out, accepted events end |
| `event_finding_identify` | the same, undisturbed | the disagreement below |

Bounds. Two slots and two calls give every race of two actors, and every race the
properties name is one of two; a third would repeat them. Two contacts are what
tells "some" from "all" within a chunk, and one contact per chunk what tells
chunks apart. `MaxAttempts = 2` has a first, a last and a repeated delivery (the code has 6 for
mail). One disturbance starts every recovery; two let a second one hit it. `send_delivery` has one, as it also has
every outcome of a send; its rows' properties are proved for any number. `PublishedIsMailed`
needs fewer disturbances than attempts: each may cost one. `MaxChanges = 1` is
one shift of the pages under the reader. The longest node list has two delays in a row, so that one can
be skipped, and an email on either side. Three calls on a campaign are what a send, a pause and a
resume need. Three rows of `refresh_tokens` are the first session, its rotation and a log-in over the cap;
with two connections two rotations exhaust the pool, with three, one more than there are calls, nobody does; there are as many requests as
connections, and `members` is run with the smaller pool, `removal` with the larger. Three users are an
owner, an heir and a bystander. In `billing_events` the changes, calls and troubles together are bounded by
`MaxTogether`: two changes of a subscription, a call and a failure meet, but not all maxima at once.
Sessions and membership are not mixed beyond the removal: they share no state but the role and the cache.
`CHECK_DEADLOCK FALSE` except for workflows, whose pollers never stop: once all work is settled the system rests.

Symmetry is used in `tx_delivery` and `billing_events`, which check no liveness. The type
invariant is an invariant of `send_delivery`; the other modules' type invariants document their variables, and those of the
modules with theorems are proved.

Fairness. A specification with liveness asks that a step a running process can take is taken (the
goroutine or promise goes on), that the scheduler's ticker ticks, that JetStream delivers a ready message to a free slot and
redelivers one whose holder is gone, that an orphaned lock expires (Redis TTL), that
pollers tick and delays run out, that
the sweeper's ticker ticks and it finishes its batch, and that SES reaches a decision (72 hours). That thirty days pass is not assumed: a property says what follows when they have. In `Accounts` it is the steps of each
call, as a handler that was entered goes on; a row lock or a connection is waited for, not fought for. Nothing obliges a user, a
disturbance or a DNS record. Only weak fairness is used. `BillingWebhook` needs none: it states what holds when Stripe has delivered everything.

### Disagreements with what the repository says

One is kept as a run: `event_finding_identify` violates `IdentifiesAreLinked`.
`event-enrichment.md:51` has identify "link existing anonymous profile", and `handler_test.go:382` merge it. The upsert
conflicts on `(workspace, user_id)` only, while the anonymous profile's row holds the anonymous id under its own unique index: the
statement fails at every delivery, the merge after it is never reached, and the event ends as `failed`. The test's mock has no index.

The others show in the models as what the properties leave out, or as transitions of their own.

Campaigns and mail

* `client.go:318`: completion "if and only if all recipients have been processed". A chunk with one
  permanent and one transient failure is redelivered; the permanent one fails and counts again, and the
  total is reached with a recipient still queued.
* `ARCHITECTURE.md:120`: when all chunks are done the campaign becomes sent. If the last chunk counts
  before the start handler writes the total, nobody checks again.
* `USER_GUIDE.md:85`: "Pause — halt a sending or scheduled campaign mid-flight". No worker reads `paused`: the chunks of a sending campaign are
  mailed to the end. `SendingIsMailed` therefore asks nothing of a campaign that left `sending`, and `CampaignLifecycle`'s workers mail a paused one.
* `campaigns.md:156`: a resumed campaign goes back to what it was; `resumeCampaign` goes by `startedAt` and
  `scheduledAt` as read before its transition (`misled`).
* `campaign.service.ts:414-415` counts and transitions in one transaction "to prevent two concurrent campaign
  sends both passing"; at READ COMMITTED neither count sees the other's transition, and both pass.
* `idempotency.ts:9-11`: retries return the same send. A retry that arrives while the first call runs
  finds a reservation without a response and sends again (`overlap`).

Segments, domains, workflows, events

* `segment-computation.md:59`: after a crash the lock expires and the next delivery acquires it. The next
  delivery comes while the lock is held, is acknowledged as "in progress", and the segment stays `processing` (`skipped`).
* `docs/api/domains.md:143-153` draws `verified` as leading only to deletion, but the workers do not bump
  `version`: a verification request that read the row earlier puts the domain back to `verifying`.
* `scheduler.go:117` reads the execution again to guard against concurrent updates, but checks its status
  only: a poller whose lock expired resumes, from its old batch, an execution that waits at the next delay, and skips that delay (`pollOverlap`).
* `client.go:1118`: "loads the minimal contact data needed to send an email". `GetContactForWorkflow` passes the contact's id to a look-up by `user_id`, so
  unless the two are equal no contact is found and the email node is skipped without an error; the test's mock answers any id.
* `docs/api/workflows.md:273` has events start workflows; the event worker's trigger has no workflow id,
  and the trigger handler terminates it: no event enrols anybody.

Accounts and billing

* `flows.md:75-77` and `sessions.md:51-52`: a replayed token revokes its whole family. The revocation is part of the
  transaction that the error then rolls back, so it never happens.
* The grace window of `hardening.test.ts:136` asks that no row has the presented token's hash; rows stay, so the branch is not reached.
* `auth.md:96`: logging out everywhere revokes all active refresh tokens "and denylists all associated access tokens"; `auth.service.ts:489` says the same of
  a password reset. A rotation that commits while the statement waits leaves its new row outside of it (`missed`), and a token signed for a row that was rotated
  away before is denied by nobody, unless it is the caller's own: it is taken for what is left of its fifteen minutes (`spared`).
* `workspace.service.ts:63-64`: the last owner cannot be removed, which is checked on a role read earlier;
  `:530-531` calls the transfer atomic, but the workspace's update commits by itself (`torn`).
* `billing.md:198`: a failure releases the Redis key so that Stripe can retry; the row of `billing_events` stays, and
  `stripe-webhook.handler.ts:90` answers the retry as a duplicate (`troubled`).
* `stripe-webhook.handler.ts:54-58`: late replays are "still" allowed "through dedup". The code below drops any event older than the window, Stripe's retries after a 500 included (`troubled`).
* `billing.service.ts:446` writes an `updated` that comes after the `deleted`, or an older snapshot after a newer one (`overtaken`).

No doc speaks of the pool, but the model shows what its size means: `auth.service.ts:282` and `workspace.service.ts:533` ask for a second connection inside
a transaction, so `DATABASE_POOL_MAX` refreshes at once hold every connection and wait for one more, without a timeout (`Exhausted`).

Two more are in code that is not modelled: `contact.service.ts:57-58` counts and inserts in one transaction "to
prevent TOCTOU races", at READ COMMITTED; and `updateWorkflow` refuses a published workflow on what it read, so an
edit that races with a publish changes one.

## 4. Proofs

For every number of contacts, workers, calls, users, messages, attempts and disturbances:

* `CampaignSend_proofs`: `TypeCorrect` (`TypeOK`). The invariant `TypeInv` adds to the types what they
  need to be inductive: a message in a slot was delivered once at least and
  at most `MaxAttempts` times, counters are sums of finitely many naturals, the cursor
  stays within the contacts.
  `SentImpliesAccepted` (a `sent` row was accepted),
  `SentStaysSent`, `PipelineKeepsContract` (every step is a step of `RecipientContract` or leaves its variables
  alone) and `CompletedStaysCounted`. `SentIsAccepted` is not inductive: a worker
  about to write `sent` has only its own memory. `DeliveryInv` adds that every
  recipient of a stored chunk and of a slot has a row (`RowsFirst`) and that a
  slot at `markSent` had its send accepted (`AcceptedFirst`). `RowInv` does the
  same for the counters of the campaign row.
  `UndisturbedMailsOnce`: `AtMostOnceUndisturbed`. `OnceInv`
  says, while `disturbances = 0`, that a campaign has one start in hand, one
  pass, one stored copy of each chunk and one slot per chunk, that no contact is in two chunks,
  and that an accepted recipient is recorded: `sent`, or about to be by the one slot that holds it.
  `StreamedCarried`: `StreamedRowsAreCarried` from `Streamed`. While the segment does not change, a page is the members whose
  rank lies between two multiples of the page size, so a chunk's payload is the page its number names (`PayloadInv`), every
  pass stands at a boundary between two pages with all chunks before it stored (`PassAt`), and a recorded total was summed over all of them
  (`TotalInv`). A second pass writes the pages of the first again, so a duplicate that the stream drops loses nothing.
* `CampaignLifecycle_proofs`: `LifecycleTypeCorrect`. `PublishedOnce` from `BoundInv`: a status that still allows a
  claim, a claim in hand and a start published each use up one of the grants that the first send, the pauses and the
  disturbances give, and never more than there are. `SendingIsAtWork` from `HandInv`: whoever moved the campaign to
  `sending` is still at the step that publishes, or its message is there, or what the message became.
  `MailsAreCurrent` from `CurrentInv`: from its first start on, a campaign is never a draft again, and only drafts can be edited.
* `TransactionalSend_proofs`: `TransactionalTypeCorrect`. `AnswersTracked` from `TrackInv`, which says of every place a
  send's id can be (a call about to answer, the key's stored response, a reply) that the send's row and
  message are there and that nobody is about to delete the row. `OneSendPerKey` from `CalmInv`: while calm, at most one call
  of a key is past its reservation, and once there was one its answer is in the key. `QuotaKept` from `QuotaInv`: while
  calm, the count a call decides on is the true one, or the cache is about to be dropped.
* `SegmentRefresh_proofs`: `TypeCorrect`; `OneRefresherAtATime` and
  `LockReleasedByHolder` from `LockInv` (while no lock expired in use, whoever is past
  `AcquireLock` is the one the lock names: the property alone says nothing of a
  delivery about to release); `ReadyCount` from `MemberInv`, which follows the holder
  through the difference (members are what it read, then also what it adds, then
  its matches) and says the segment is not `ready` meanwhile. That the computed
  count is the size of the matches is `FinalCountIsMatched`. `NewestFilterWins` from `FreshInv`: while calm, whoever is to make
  the members those of the newest filter is still on the way (a request to publish, its message, a delivery that has not read
  the filter, or one that read this one), or the members are right and nobody is about to change them. It needs that a
  message is out with one delivery (`HandInv`) and that a delivery matched what its filter describes so far (`MatchInv`).
* `WorkflowExecution_proofs`: `WorkflowTypeCorrect`. `EmailsAtMostOnce` from `MailInv`: an execution that runs has one run (`OneRun`), which holds
  its lock unless that expired (`LockHeld`), and every mailed node lies behind the node the row names or its run is at
  (`MailedBehind`); steps are summarised first as those that leave a run where it is and those that move it on.
  `CompletedServed` from `ServedInv`: while the pollers' lock never expired in use there is one poller, what it took from the table is still
  due (`TakenIsDue`), and every node behind the run was served (`ServedBehind`).
* `EventPipeline_proofs`: `EventsTypeCorrect`. `OneContact` from `UserInv`: a contact's user never changes, so whoever was linked or enriched with it
  meant that user. `ProcessedCarriedOut` from `CarriedInv`: an event is published once, its enriched row is there before the step that marks
  it, and, while nothing is disturbed, one handler has it and its triggers follow the handler's position.
* `OutsideServices_proofs`, on `BillingWebhook`: `BillingTypeCorrect`; `EventsWrittenOnce` from `OnceInv` (a delivery past its insert owns
  the event: there is one, the row is stored, and the event is written only while it is at work);
  `AnsweredProcessed` from `AnsweredInv` (an event in Redis or in the table that had no trouble has its handler or is processed);
  `TurnsTaken` from `TurnsInv` (a checkout under way has the lock). `RowShown` from `RowInv`: a state known at some time is Stripe's as long as no
  event is newer (`Snap`), which holds of every event, handler and call; an applied event is no later than what was last written of
  its subscription (`AsOfInv`); so the row matches its subscription or an event of it is still to be written (`ShowInv`), and without a row either some subscription is not
  running or one is still to come (`NoneInv`). At rest nothing is to come: what is answered is processed, what is processed was written.
  The first attempt at this proof failed for a reason: `asOf` was kept for the row, and an end of one subscription that found the row of another
  left no trace, so that the older state written after it did not count as `overtaken` and the property was false with
  two subscriptions and four changes, beyond the run's bounds. It is kept per subscription now.
  On `DomainVerification`: `DomainTypeCorrect`. `OwnKeyProven` and `PendingPolled` rest on `TableInv`: a call at work has its row in the
  table's past or present (`RowsThere`), a call that may still write read no version ahead of its time, and a deletion or a request leaves every older
  version behind (`Versions`), a row has one creator and no key before that one stores it (`Creators`), one row is active (`OneActive`).
  `VerifiedIsProven` says nothing of what SES has, so `IdentityInv` adds it: a published record is of a stored key, a successful identity is of a published and proven one, once a row
  has its key, or its creator is about to store it, an identity of another row is not one whose key was ever stored (`OldOwner`), and a worker about to write `verified` heard it of a proven row
  (`HandProven`). So an identity that answers `success` while a row is active and has its key is that row's. `PollInv`: while nothing was
  lost, a poll in hand is in one hand (`OneHand`), and a row that waits has a poll to come, ready, or out with nobody about to acknowledge it (`StillLive`);
  that last clause is what `PendingIsPolled` lacks to be inductive.
* `Accounts_proofs`: every step of `Accounts` is a step of each part or leaves it alone (`PartsStep`), so what holds of a
  part holds of the composition. `OneChain` from `ChainInv`: a call about to rotate is the only one to hold the lock on
  its row, the row is live, and what was replaced never is again; it rests on rows being numbered without gaps and room for each
  call about to insert (`SessionInv`). `AccessEnds` from `DenyInv`: a row that is over (`Over`: revoked, or of a session without a live row) is spared, denied, about
  to be denied, or has no access token and no call about to sign one; the lemmas `SessionEnds` and `SessionGoesOn` say which rows a step can end. `OwnerNamed` from `OwnerInv`: one owner, one transfer between its commits, which is that owner's, and the
  workspace names either the owner or the heir. `CacheCurrent`: the property itself is inductive given the types and what a call
  is asked (`MemberInv`). `RemovedSignedOut` needs both parts at once: `RemovedInv` says that while the user is no member, nothing died
  and the first session has a live row that was not missed (`Due`), some call is on its way from the removal to the statement that revokes, or waits in it with all such rows in its snapshot.

From: the assumption each module names (`ConstantsAssumption`, `BillingAssumption`, `SessionAssumption`, ...: naturals
where counts are meant, at least one attempt, finitely many calls, values that are not each other), which TLC evaluates in the runs; the community modules'
definition of sums, and the library's facts about finite sets. All specifications proved about are the ones the runs check, and fairness is not used.

The proofs made three assumptions explicit that the code justifies: a workspace has some subscription to buy (`Subs # {}`), the values that mark
an absent event or contact are not events, and a workflow's list of nodes ends with its end node, as the executor follows `next` and stops there.

Every safety property of the passing runs is stated by a theorem. Only model-checked: liveness, as fairness and ENABLED are out of the prover's reach,
as are induction over data and recursive operators, of which the modules proved about have none.

## 5. Not modelled, and the plan

Not modelled because there is no protocol in it: analytics, cleanup, the API's
shell, API keys, mail templates, frontend, SDK; the empty modules (`admin`, `ai`,
bounces, webhooks, ClickHouse, S3); the TypeScript segment worker, which nothing starts. Not modelled although
there is: the contact service (import, unsubscribe, the quota), editing and publishing of
workflows with the graph validator, credentials (password reset, lock-out, e-mail verification), the token bucket and the
API's rate limits, and the two evaluators of a segment's filter. Of these the contact quota and an edit against a publish are races of two
transactions, and the others are sequential or pure; what they promise the modelled parts is in the modules as an outcome (a denied token, a filter's set of contacts, a workflow's nodes).
No part is called modelled in `PROJECT.json`: each leaves out what its note names.

What a continuation would take up, in order:

1. `EventPipeline` composed with `WorkflowExecution` and a repaired trigger, to ask what an event enrols.
2. `ContactQuota`, and `WorkflowLifecycle`: editing and publishing under the publish lock.
3. Credentials beside `SessionRotation`: a password reset that races with a refresh.
4. The token bucket, and the segment filters as pure functions: the Go and the TypeScript evaluator over bounded inputs.
