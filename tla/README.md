# Kapis receptionist: a TLA+ verification project

Kapis is a multi-tenant back office for beauty salons whose customers talk to an
AI receptionist on WhatsApp. The backend (`src/backend`, NestJS over PostgreSQL,
Redis and BullMQ) takes Meta's and Stripe's webhooks, lets an LLM answer and book
through tools, and serves an Angular dashboard (`src/frontend`) over HTTP. This
project models the parts of it in which several actors share state, or in which
steps fail between one another: the booking engine, the WhatsApp pipeline and the
AI's turns in it, the subscription and the checkout, accounts and sessions, the
salon's own records and the slots computed from them, the scripts that fill a
database, and the dashboard. It checks them with TLC on small instances and proves
what matters most with TLAPS for all instances.

Contents: [1 Inventory](#1-inventory) ·
[2 Modules and the code](#2-modules-and-the-code) · [3 Runs](#3-runs) ·
[4 Fairness](#4-fairness) · [5 Disagreements found](#5-disagreements-found) ·
[6 Proofs](#6-proofs) · [7 What is left out](#7-what-is-left-out) ·
[8 Plan](#8-plan)

To repeat a run: `tlc -config booking_one.cfg MCBooking` (the table in section 3
names module and configuration of each). To repeat a proof: `tlapm BookingProofs.tla`.
`PROJECT.json` has the machine-readable version: for each definition the source
lines it models, for each hazard its line and the properties aimed at it, and for
each checked property a mutant of the code (a definition commented "Faulty
variant" in the modules, or a step dropped) that the property catches.

## 1 Inventory

Paths are relative to `src/backend/src/modules/` unless they start with `src/`.
The module that models a part is named in the first column.

| module | component | state | operations | what is hard | what makes it correct |
|---|---|---|---|---|---|
| `Booking` | Appointments (`appointments/`) and booking locks (`src/backend/src/core/locking/`) | `appointments` and `appointment_services` rows with status, `isBlocking`, `previousAppointmentId`, history; Redis keys `lock:availability:{tenant}:{employee}` | create, reschedule, cancel, delete, from HTTP and from AI tools | status read before the lock and not again; locks that expire under a working holder; several locks per request; two rows changed by one reschedule; lost answers, crashes | no double booking; flag, status and history agree; the dead stay dead; refusals leave nothing; no lock closes a calendar for good |
| `WhatsAppInbound` | WhatsApp inbound (`whatsapp/application/webhook-ingestion.service.ts`, `inbound-message-processor.service.ts`) and conversations | `webhook_events`, BullMQ `whatsapp-inbound` jobs, Redis `dedup:whatsapp:*`, `messages`, `conversations` | ingest, process one job, resolve the thread, gate the AI, staff status changes | redelivery in other batches, several workers, jobs run again from the start, dedup keys set before the work is done | the AI acts on a message once; nothing is dropped; a completed job is processed |
| `WhatsAppOutbound` | WhatsApp outbound (`messages.service.ts`, `outbound-message.service.ts`, `queues/whatsapp-outbound.processor.ts`) | `messages.status`, `whatsappMessageId`, BullMQ `whatsapp-outbound` jobs | send (staff, AI), run the job, record failure, apply receipts | Meta accepts and the answer is lost; a write after the call fails; receipts overtake the sender; FAILED written by an event handler after the job | a status never claims more than happened; a finished job leaves no message QUEUED; every message settles |
| `Assistant` | AI turns (`ai/`), the quota of AI messages (`billing/`) | `ai_contexts` rows and their Redis cache, `messagesUsedCurrentPeriod`, `conversation_summaries` | a turn: quota, context, rounds of tools, reply, repeated-reply counter, escalation, summary; the panel of the inbox; reset by `invoice.paid` | a cache filled late; read, merge, write of the counter; check then increment; the many ways a turn ends | the cache is the row; a repeated reply ends in a human's hands; the quota; nobody is left without an answer |
| `Billing` | Subscriptions (`billing/application/`, `tenants/application/tenant-lifecycle.service.ts`) | `subscriptions`, `tenants.status`, `webhook_logs`, BullMQ `stripe-webhook` jobs, Redis `dedup:stripe:*`; Stripe's own subscription | ingest, apply an event, cancel, reactivate, change plan, suspend, unsuspend | neither Stripe nor the retries of the queue keep an order; two rows written by two statements; a remote call followed by a local write | the row follows Stripe unless an older event is written over a newer one; the tenant follows its row |
| `Checkout` | Checkout (`billing/application/checkout.service.ts`) behind idempotency keys (`src/backend/src/core/idempotency/`) | Redis `idempotency:*`, `stripeCustomerId`, `redemptionCount`; Stripe's customers and sessions | look up the key, run the handler, store the answer; pay; apply the event | look-up, execution and (unawaited) storing are separate steps; read-then-create of the customer; compare-then-count of the coupon | a key stands for one execution; one customer; the coupon's limit; what is paid arrives |
| `Accounts` | Sessions, logins, invitations, mailed links (`auth/`, `tenants/application/tenant-invitation.service.ts`) | `refresh_tokens` chained by rotation, users, single-use tokens, Redis counters and locks of failed logins; cookies and access tokens in the browser | refresh, logout, login, register, resend, verify, forgot, reset, invite, withdraw, accept | rotation is insert then revoke; INCR then EXPIRE; look-up then insert; tabs that share a cookie; lost answers | a chain forks only where rotations overlap and is not continued after a revocation; reuse has a cause; one pending invitation; the lockout works and ends |
| `Salon` | Employees, working hours, time off, skills; services and categories; customers; business hours and holidays; tenant settings | their rows | every write of the back office, and the customer a message creates | replacements in two statements; limits and look-ups before inserts; unique indexes that see deleted rows; settings written back whole | one request's week is one request's; the limit; refusals create nobody; a save keeps the keys it does not carry |
| `Salon` (operators) | Availability (`availability/`) | none of its own | free slots, window check | buffers, closing time, midnight, dates asked for | what is offered can be booked, and the other way round |
| `DemoSeed` | Database scripts (`src/backend/prisma/seed.ts`, `demo-seed.ts`, `demo-reset.ts`) | every table of the demo tenant, roles, plans | seed, demo seed, demo reset | no transaction; interrupted anywhere; two at once; foreign keys and EXCLUDE | the scripts repeat; the demo calendar keeps to its employee's hours and leave, its successors are unique and later |
| `Dashboard` | Angular frontend (`src/frontend/src/app/`), roles and guards as it sees them, the WhatsApp account's connection | signals of services and pages, access token, requests under way | navigate, load, search, save, toggle, send, suspend, cancel, reschedule, sign in and out | answers in any order; retries by two interceptors; a page left or re-used while it waits; loads that fail under an open form | the screen is what is stored; no control waits for nothing |

Not modelled: the audit log, security events and notifications (written and mailed,
never read back); invoices and payments (upserts by Stripe's id that only a list
shows); the permission checks before a handler; the LLM adapter and the wording of
prompts (a free choice wherever a model needs an answer); health, logging,
configuration and database adapters; deployment. The constraints of the schema (the
EXCLUDE constraint, unique indexes, foreign keys) are part of the modules that rely
on them. Section 7 has the details.

### How the parts interact

```
Meta --webhook--> ingest --row, job--> inbound job --row--> conversation, message
   (WhatsAppInbound)                        |                       |
                                            +--> AI turn --tools--> Appointments --locks--> Redis
                                       (Assistant)  |    (Booking)      \--transactions--> PostgreSQL
                                                    +--row, job--> outbound job --> Meta
Meta --receipt--> (inbound job) --> status of the outbound message      (WhatsAppOutbound)

Stripe --event--> ingest --row, job--> event job --> subscriptions --> tenants.status
owner --HTTP--> cancel/reactivate/changePlan --> Stripe, then subscriptions    (Billing)
owner --HTTP, Idempotency-Key--> checkout --> Stripe customer, coupon, session (Checkout)

browser --HTTP--> AuthController --> tokens, counters   (Dashboard in front, Accounts behind)
browser --HTTP--> back office --> salon's rows --> slots --> Booking's windows (Salon)
```

They meet in the database and in Redis. Jobs are handed over by BullMQ, which runs
a job again when it throws (until its attempts are used up) or when its worker
dies (until it has stalled too often). There may be several backend replicas
(`src/docs/SYSTEM_ARCHITECTURE.md:850`), so several workers per queue.

Where one module ends and another goes on, the second admits at least what the
first does. `WhatsAppInbound` begins a turn at most once per message
(`ActedOnAtMostOnce`); `Assistant` takes any number of turns of one thread, at once.
Whatever bookings the tools of concurrent turns ask for are requests of `Booking`.
Receipts reach `WhatsAppOutbound` through an inbound job, which there is the action
`ApplyReceipt`, at any time and any number of times: more than any queue would do.
`Billing` starts where `Checkout` ends, with a paid session. `Salon`'s
`IsWindowAvailable` over the salon's rows is what `Booking` calls `IsWindowAvailable`
over given working windows. `Dashboard`'s backend handles a request in one step; what
happens inside the step is what the other modules are about.

## 2 Modules and the code

One step of a model is one Redis command, one database statement or transaction,
or one remote call, with the synchronous code around it; between two `await`s
anything of another actor may happen. A request or a job is a process with a
program counter (`pc` or `at`). A failure is an action of its own, and a command whose
answer is lost has taken effect. In the later modules (`Accounts`, `Salon`, `Checkout`,
`Assistant`) whatever a request creates is named after the request, and the
history variable `met[r]` has the requests that were under way while `r` was, so that
a property can say "but for requests that overlap".

### `Booking` (with `Calendar`, its abstract specification)

| state | in the code |
|---|---|
| `appt[r]` | the `appointments` row that request `r` inserted, with its `appointment_services` lines and `appointment_history` |
| `lock[e]` | the token under the Redis key of employee `e`; a token is named by the request that drew it |
| `active[e]` | `Employee.status = ACTIVE` |
| `pc, job, lines, held, checked, outcome` | the local variables of the request in flight |

A create is `AdmitCreate` (plan limit, unlocked), `BuildLines`, `AcquireLock` once per
employee in sorted order (`acquire`: `SET NX PX`, no waiting), `VerifyWindow` per
line, `CommitCreate` (one transaction), `ReleaseLock` per key (compare and delete)
and `Reply`. A reschedule differs in `AdmitReschedule`, which reads the original
before any lock, and in `CommitReschedule`, which inserts the new row against a
calendar that still holds the original's slot and then closes the original whatever
it has become. Cancel and delete take no locks: read, then update by id.
`ExclusionViolation` is the EXCLUDE constraint, which sees rows by `isBlocking`.
`IsWindowAvailable` is the code's, including that it fetches the ranges that
overlap `[start, end)` and so misses a booking that begins in its own trailing
buffer; the constraint catches that one. Faults: `LockFailure`, `CommitFailure`,
a lost commit answer, a lost release, `ExpireLock`, `Crash`.

A start time at which the plan's lines can be laid out is a member of `Time`
(`ScheduleAssumption`); this replaces the running sum of `buildLines` by a
definition of what it computes, so that no recursion stands in the way of a proof.

`Calendar` knows visits with stretches of time and nothing else: a visit takes
its stretches if they are free, gives them back, or is exchanged for another. Under
the mapping `visits` (a row holds its lines while it blocks) `Booking` implements
it: run `booking_one` checks it as `KeepsCalendar`, and `BookingKeepsCalendar` proves it.

### `WhatsAppInbound`

One customer of one salon. `row`/`payload` are the `webhook_events` rows,
`job`/`attempts`/`stalls` the BullMQ job, `pc`/`pos`/`thread` the run in progress, `dedup`
the Redis keys, `stored` the `messages` rows, `conv`/`inbound` the conversations and
`turns` counts AI turns per message.

`Receive`, `Enqueue` are `ingest`. A run goes message by message: `Dedup` (`SET NX EX`),
`Lookup`, `FindConversation` / `OpenConversation` (open threads only), `Store` (with the
unique index behind it), `Touch` (and the AI gate, on the status read with the
thread), `QuotaExceeded` / `BeginTurn`, `EndTurn` / `Escalate`; then `Finish` and
`Complete`. `Throw`, `RecordFailure`, `Retry`, `Crash` are what BullMQ and the catch
block do. `EvictDedup` and `UpdateStatus` (staff) are the environment.

### `WhatsAppOutbound`

Any number of messages, which do not interact. `Create` and `Enqueue` are `sendMessage` /
`sendAiMessage`; `Take`, `CallAccepted` / `CallRefused`, `SetWhatsappMessageId`,
`MarkSent` / `MarkRefused`, `Touch`, `Complete` are `OutboundMessageService.send`;
`RunFails`, `AnswerLost`, `Crash` its failures; `OnFailed` is the processor's `failed`
handler, which runs after the job is over, and `OnFailedLost` its loss. `SendReceipt`
is Meta, `ApplyReceipt` is `updateStatusByWhatsappMessageId`, which sets whatever
status the receipt has.

### `Assistant`

One thread with its `status`, the tenant's switch `enabled`, the `AIContext` `row` (last
reply, repetitions, and, as history, the turn that wrote it), its `cache` in Redis, the
`summary`, the counter `used`. `turn[t]` has the local variables of `runTurn`; `held[t]` is a
row that was read and is about to be cached. A turn counts itself against the quota
(`checkAndIncrementAiMessageUsage`: two statements), reads the settings and the
context (cache, else row, else the defaults, then the cache is filled), goes through at
most `MaxRounds` rounds in which the model says something, calls one or more of `ToolDefinitions`
or cannot be reached, queues the reply, and writes the repeated-reply counter through
the cache again; more than `Threshold` repetitions escalate, and an escalation asks
for a summary. `Executed` is what the executor makes of a call (a booking that is refused is
a result, not an exception). Others: the panel of the inbox, which reads through the same
cache (`OpenPanel`, `FillPanel`), the TTL (`Evict`), staff (`UpdateStatus`, `SetEnabled`), the
new period (`ResetPeriodUsage`), and `Fail`, which cuts a turn anywhere.

### `Billing`

One tenant. `stripe` and `emitted` are Stripe's side: its subscription and the
snapshots of its events. `Claim`, `Persist`, `AlreadyPersisted`, `Enqueue`, `Duplicate`,
`IngestFails`, `EvictDedup` are `ingest`; `Take` (of any waiting
job: Stripe delivers in any order, and a job that waits for its next attempt is overtaken) to
`Complete`, `JobFails`, `WorkerDies` are the job: `ReadSubscription`, `WriteSubscription` (the
snapshot over whatever is there; as history, `applied` has the events written and `latest` the
last of them), `ReadTenant`, `WriteTenant`, `Finish`. A status that `STRIPE_STATUS_MAP` does not
name keeps the local one and does not touch the tenant. The requests read the row
(`BeginCancel`, `BeginReactivate`, `BeginChangePlan`, `BeginSuspend`, `BeginUnsuspend`), call
Stripe (`CallStripe`, which may emit an event) and write (`WriteLocal`,
`SyncTrialCancel`); `RequestFails` cuts them short anywhere.

### `Checkout`

`stored[k]` is the answer under `idempotency:{tenant}:{key}` with the hash of its body; `row`
the subscription's `stripeCustomerId` (or no row at all); `coupon` the redemptions; `customers`,
`sessions`, `paid` are at Stripe. A request is `Lookup` (a hit with the same body answers
from Redis, one with another body is refused), then the handler statement by
statement: plan, subscription, backfill of the row, creation of the customer, link,
coupon read, coupon counted, session; the answer goes out and is stored in a step of its
own, which nobody waits for. `HandlerFails`, `AuditFails`, `StoreFails`, `Expire` are the
faults, `Pay` and `ApplyEvent` Stripe's side, `UpdatePlan` the administrator.

### `Accounts`

One person. `session`/`heir` are the `refresh_tokens` rows and `replacedBySessionId`, `mark` what has
become of the row behind a mailed link, `attempts`/`window`/`locked` the keys of
`LoginAttemptService`, `cookie`/`access` the browser's side: the tabs of a browser share the
refresh cookie, each has its own access token. `cuts` is history: what each "revoke
everything" found. All eleven requests go statement by statement:

* `refresh` is find, then issue, then revoke the old one (`rotate`), and then loads the user
  (`LoadUser`), where it can still fail: the client then hears an error and keeps a token
  that is dead already. An old token that has an heir revokes everything; a token that is
  expired or revoked without an heir is refused.
* `login` is lockout, look-up and password, on failure INCR, EXPIRE if the counter was
  new, and the lock and the counter's deletion at the limit; on success the counter's
  deletion and a session.
* `register`, `resend`, `forgot` delete older links and mail a new one; `verify`, `reset`, `accept`
  read the link, write what it is for, and mark it used; `reset` revokes everything
  then. `invite` looks for a pending invitation and inserts; `withdraw` reads and revokes.

`Answer` sets cookies and tokens as the browser does; an answer may be lost
(`AnswerUnheard`), the connection broken while the server works (`Hangup`), a handler cut short
(`HandlerFails`); `WindowEnds`, `LockoutEnds` are the TTLs.

### `Salon`

The rows of employees (with the user they are linked to), their skills, shifts and leaves,
business hours, holidays, services, categories, customers, and the tenant's settings
(which request's value each key holds). Each of nineteen kinds of request goes
statement by statement: `createEmployee` counts against the plan, looks the user up, inserts,
validates the services again and assigns them; `updateEmployee` (PATCH) may name a user, take the
user away (`userId: null`) and list services, which are assigned after the other fields were
written and in a transaction of their own, so that a refused list leaves the rest changed; `hours` and `assign` delete and then
insert, each request deleting what it sees; `settings` reads the stored namespaces, merges
its keys into them and writes them whole; customers are created by the back office or by a message, with the partial unique index and the
second read behind it. The unique indexes of the schema, some of which see deleted rows,
turn an insert into an error. Availability is a set of operators over these rows: `WorkingWindows`,
`BlockingRanges`, `EligibleEmployees`, `Slots` (`getAvailableSlots` over a range of dates) and
`IsWindowAvailable`, compared in every reachable state of the rows.

### `DemoSeed`

Every statement the three scripts await is a step of a terminal; `Interrupt` ends a script
between any two. `base`, `tenant`, `table`, `book`, `threads` are the database: a table with
nothing of its own to say is "begun" by its first row and "filled" at the end, the
appointments of one employee and the conversations are kept row by row. The
timeline of the employee is computed as the script does it: working days, leave, services one
after the other with their buffers, history by status, reschedules into the next slot. Foreign
keys decide when a deletion fails, unique columns and the EXCLUDE constraint when an
insert does. `RetirePlan` and `Use` (an invitation sent from the demo tenant) are what a running
backend does beside the scripts.

### `Dashboard`

One browser. `session` is `AuthStateService`, `screen` the open page with its signals, `inflight` the
requests, in order, with the stage each is in, `server` what the backend stores. A page is a
set of *parts*: lists that are loaded, searched, created, changed and removed in; forms that are
loaded and saved whole; and parts of their own kind (the calendar, one appointment, the
threads and messages of the inbox, candidates of a search, a tenant's subscription). The user clicks,
types, navigates, signs in and out. A request is served once (`Serve`) and answered (`AnswerArrives`, or
`AnswerLeads` where the callback navigates), refused, lost (then `ApiClient` sends a GET
once more), or answered 401 (then `authInterceptor` refreshes once and sends it again).
The callbacks are modelled as the pages have them, including those that run when the
page has been left. A navigation to the same route with another id (an employee, an appointment, a
tenant's subscription, a conversation) keeps the component, which has read the id once (`Navigate`). `hitch` in `screen` marks that a load failed, that the answer of a write was lost,
or that a read was overtaken.

### Others

The `MC` modules hold the small salons, payloads, links and statuses of the runs;
`BookingProofs` (about `Booking` and `DemoSeed`), `WhatsAppInboundProofs`, `DashboardProofs`
(about `WhatsAppOutbound` and `Dashboard`), `BillingProofs`, `AccountsProofs`, `SalonProofs`,
`CheckoutProofs`, `AssistantProofs` hold the theorems.

## 3 Runs

Every run holds but one: `inbound_dropped` ends in the counterexample that section 5
describes. Distinct states are rounded.

| run (`.cfg`) | module | instance | properties | states |
|---|---|---|---|---|
| `booking_one` | `MCBooking` | three requests of any kind, one employee, starts 0 and 2, visits of length 1 and of 2 with a buffer of 1, limit 2; all faults | `TypeOK`, `NoDoubleBooking`, `BlockingIffLive`, `RecordIsTrue`, `RefusalLeavesNothing`, `NeverRevived`, `LockRespectsHolder`, `KeepsCalendar` | 800 000 |
| `booking_live` | `MCBooking` | two requests, three employees, plans naming two of them in either order, one employee whose status moves; all faults, fair | `SomebodyWins`, `EveryRequestEnds`, `StrandedLockFreed` | 126 000 |
| `inbound_faulty` | `MCWhatsAppInbound` | two deliveries carrying message 1 or both messages, two workers, two attempts, two conversations, staff resolving threads, eviction of one dedup key; failing runs, rows and jobs | `TypeOK`, `ActedOnAtMostOnce`, `CompletedIsProcessed`, `EveryMessageArrives` | 2 390 000 |
| `inbound_dropped` | `MCWhatsAppInbound` | the same with one stall, three conversations and no eviction | fails: `NothingDropped` | |
| `outbound_sends` | `MCWhatsAppOutbound` | one message, two attempts, one stall, all failures, all receipts, fair | `TypeOK`, `StatusIsEarned`, `OverIsNotQueued`, `EveryMessageSettles` | 55 000 |
| `assistant` | `MCAssistant` | two turns on two workers, one look at the panel, two replies, two tools, two rounds, threshold 1, limit 1 | `TypeOK`, `MemoryIsSound`, `TurnsAreSafe` | 2 630 000 |
| `billing` | `MCBilling` | two events, delivered and taken in any order, four statuses, two plans, one request of any kind, one worker, two attempts; failing ingestion, eviction, failing and dying jobs, requests cut short | `TypeOK`, `TenantFollowsSubscription`, `LocalFollowsStripe` | 3 910 000 |
| `checkout` | `MCCheckout` | three requests, two keys, with and without the coupon, one redemption; all faults | `KeyRunsOnce`, `CheckoutIsSafe` | 2 550 000 |
| `accounts` | `MCAccounts` | two requests of any kind and a refresh, two tabs of one browser, one open and one expired session, a mailed link of each purpose, two failures lock; lost answers and handlers cut short | `ChainsAreSound`, `ReuseHasCause`, `OnePendingInvitation`, `LockoutWorks` | 2 040 000 |
| `salon` | `MCSalon` | two requests of any kind and a third that deletes; one employee, service and category and no customer at the start, two days of six ticks with a visit each, a limit of two employees | `TypeOK`, `OnlyRacesHurt`, `SlotsMatchBooking`, `SavesKeepOthers` | 910 000 |
| `demo` | `MCDemoSeed` | three scripts from two terminals at 11:40, two days of one employee (today, with the morning over and the afternoon to come, and the first day of a leave), three appointments a day, two conversations; interruptions, a plan retired, an invitation sent | `BookIsClean`, `ScriptsRepeat` | 1 570 000 |
| `dashboard` | `MCDashboard` | every page, three roles, two things, two days, two clicks, one fault | `ScreenIsTrue`, `UnreadFormsAreKept`, `ControlsAreFreed` | 1 420 000 |

What the properties say, in the order of the hazards they are aimed at:

* **`NoDoubleBooking`** is told by status and deletion, not by the flag the
  constraint goes by; it needs the constraint *and* `BlockingIffLive`, and holds
  although locks expire under working holders. **`BlockingIffLive`**,
  **`RecordIsTrue`**, **`NeverRevived`** say that racing cancel, delete and reschedule,
  each of which writes by id what it decided on a status read earlier, still leave
  flag, status, history and the link to the predecessor in agreement.
  **`RefusalLeavesNothing`** is what lets a client retry a 409. **`LockRespectsHolder`** is
  the token check; **`StrandedLockFreed`** and **`EveryRequestEnds`** the TTL and the
  absence of waiting; **`SomebodyWins`** the sorted order in which locks are taken: where
  the empty calendar could serve every competitor and no infrastructure fails, not
  all of them are turned away. **`KeepsCalendar`** is the refinement of `Calendar`.
* **`ActedOnAtMostOnce`** rests on three barriers of which any may be missing at a
  time (dedup key, look-up, unique index). **`EveryMessageArrives`** says that runs
  which leave a message to the run that claimed it do not lose it, when none of
  them fails; **`NothingDropped`**, the same for failing runs, does not hold.
  **`CompletedIsProcessed`** relates queue and table.
* **`StatusIsEarned`**: SENT, DELIVERED and READ were accepted or reported for
  some send of the message, whichever of its runs failed after Meta had accepted
  it. **`OverIsNotQueued`**, **`EveryMessageSettles`**: FAILED is written by a handler
  that runs after the job and must know the last attempt from the others. The
  exceptions they name (a job failed for stalling too often, for which `onFailed`
  returns early; the handler itself cut short) are reachable in the code.
* **`MemoryIsSound`** is `CacheIsCurrent` (a cached context is the row's, but while the
  turn that wrote the row is about to cache it, or where it was cut short or met a
  reader) and `LoopIsBroken` (turns one after the other that repeat themselves more
  than `Threshold` times end in an escalation, whatever was evicted between them).
  **`TurnsAreSafe`** is `QuotaKept` (exceeded by overlapping turns only) and `NobodyLeftAlone`
  (a turn that ends, by whichever of its many ways, has queued a reply or handed over).
* **`LocalFollowsStripe`**: at rest the row says what Stripe says unless an event was
  written over a newer one (`Overtaken`), whatever the order in which events are delivered and jobs
  taken. It covers an event that is lost between ingestion and job, a newer event undone by a
  request, a request that dies between Stripe and the database, and one whose local write comes
  after its event. The overtaking itself is what `ReplayIsSafe` excludes, which does not hold (section 5).
  **`TenantFollowsSubscription`** covers a job that fails between the two rows: the
  retry reads a row that is right already and must bring the tenant along all
  the same. It takes a single worker: with two, two jobs can interleave their
  writes of the two rows; and it leaves out requests that write the tenant themselves.
* **`KeyRunsOnce`**: of two requests with one key and one body, both run the handler only if they
  overlapped, one failed, or the key had expired, and nobody is answered
  with the session of another body. **`CheckoutIsSafe`**: the coupon's limit, the
  single Stripe customer and the link from a paid session to the tenant, each
  hurt by overlapping requests (or one cut short) only.
* **`ChainsAreSound`**: old and new token are both live only between the two
  statements of a rotation or where it was cut short (`RotationLeavesOneLive`), and a
  refresh that begins after a reset or a detected reuse continues no session
  from before (`NoLateRotation`). A chain may fork: two tokens continue the same one only where
  their rotations overlapped or one was cut short (`ForksOverlap`), and then both ends are live
  (`OneLiveEnd` does not hold, section 5). **`ReuseHasCause`**: whoever is taken for a thief has
  a second tab, lost an answer, or got an error from a refresh that had rotated the token already;
  that one tab whose answers all arrive is safe (`ReuseMeansTheft`) does not hold, section 5. **`OnePendingInvitation`**: two
  invitations of one address meet at the partial unique index. **`LockoutWorks`**: a counter
  of failures always has its TTL, and a full one becomes a lock, except
  where a handler was cut short between the two commands.
* **`OnlyRacesHurt`**: mixed rows of two replacements, an exceeded staff limit, an
  employee left behind by a refused creation, and a 500 each have an overlapping
  request behind them (or, for the 500, a user whom a deleted employee still holds). **`SavesKeepOthers`**: a save
  of the settings changes only the keys it carries, unless two saves overlap.
  **`SlotsMatchBooking`**: in every state of the rows, every slot that
  `getAvailableSlots` offers is accepted by `isWindowAvailable` and hits no booking
  but one beyond the dates asked for, and every window on the grid that is accepted
  is offered, unless something begins in its trailing buffer.
* **`ScriptsRepeat`**: whatever earlier runs left, a script that runs alone is refused by
  no constraint, a reset that succeeds leaves nothing, a seed that succeeds
  leaves the whole salon; the one exception is an invitation sent from the demo tenant.
  **`BookIsClean`**: the appointments lie, buffer included, in the working hours of their employee and
  out of leaves (but for a leave's last day), and successors are unique and follow their origins.
  It does not say that the application would have taken them: the script never asks when the
  salon is open.
* **`ScreenIsTrue`**: once nothing is under way the page shows what is stored for what is
  selected *now*, whichever order answers came in, but for the marked cases (failed load, lost
  answer of a write, overtaken read). **`UnreadFormsAreKept`**: an initial value is stored over
  a form nobody read only after its load failed, and only of the four forms that are shown all the
  same and do not start blank: the business hours, the assistant's behaviour, and the currency or
  locale in the profiles of the salon and of the tenant. **`ControlsAreFreed`**: a disabled button or a
  spinner has a request under way that will free it, but for two named exceptions.

Several of these name exceptions. Each exception is a behaviour of the code that the
run reaches without it, and section 5 lists it; what the property then says is that
nothing else goes wrong. So these outcomes are *not* caught, and whoever changes the code there
should not count on the checks: two live successors of one appointment (`RecordIsTrue`); a reply sent twice to
Meta, and READ falling back to SENT, both of which were earned (`StatusIsEarned`); an older Stripe event
over a newer one; the fork of a refresh chain; settings lost, rows mixed, a limit exceeded or an
employee left behind by requests that overlap (`SavesKeepOthers`, `OnlyRacesHurt`); a cache
filled late and a quota exceeded by turns that overlap (`MemoryIsSound`, `TurnsAreSafe`); the last
day of a leave (`BookIsClean`); a first answer that was never stored under its key (`KeyRunsOnce`);
a coupon or a Stripe customer that overlapping checkouts race for (`CheckoutIsSafe`); a screen
after an overtaken answer or retry (`ScreenIsTrue`); the button of a suspension that failed
(`ControlsAreFreed`).

Why the bounds are enough. *Booking*: a conflict takes two requests and a third to
come between them (two that reschedule and the create they started from; a holder
whose lock expired and two others); the visits meet in whole, in part, in the
buffer, or not at all; one employee is where rows collide, two in both orders is
where locks do. *Inbound*: two overlapping runs and a retry of either; a batch of
two is the smallest in which one message is done and another not; timestamps
differ, so messages can be touched out of order. *Billing*: two events are a checkout
and a change, the second of which may be the request's own; the request falls anywhere
between them and their jobs. Two requests at once, and any number of events, are left to the
theorem `RowFollowsStripe`. *Outbound*: messages share nothing, so one shows all; two attempts
distinguish the last from the others, and with one stall there are three sends, so
that a receipt may be for a send the row no longer names. *Assistant*: with
threshold and limit 1 the second turn is the one that escalates or is over the
quota; the panel is the reader that fills the cache late. *Checkout*: a request, its retry
and a stranger, of whom two may share a key. *Accounts*: a thief or a second tab, a
legitimate client, and a request that revokes; the failures that lock are two, so
that the counter is both new and full. *Salon*: any pair of requests over tables with at most one
row each, and a third to delete what they look at; the days have a shift that touches
closing time, one that begins at midnight, and visits next to both. *Demo*: seed, demo seed
and reset in any order, or two of them beside each other; the first day is split by
the clock, so that both branches of the status are taken, and the second is the first of Sofia's leave. *Dashboard*: two clicks are a load in flight and another choice, and one fault
falls on either; with two faults and two of the roles the run also passes (5 million states). The
theorems of section 6 carry many of the invariants beyond all bounds.

`CHECK_DEADLOCK FALSE` is set everywhere, since requests, events, clicks and messages are
finite in number and everything stops when they are over. Symmetry is used in runs
without liveness properties only.

## 4 Fairness

Liveness properties are checked under weak fairness of what the code or its
platform does of itself, never of an input, a failure or a client:

* `Booking!FairSpec`: a started request takes its next step (a Node.js process that
  runs goes on after an `await`), and Redis deletes a key whose TTL (5 s,
  `booking-lock.service.ts`) has passed. Arrivals, faults and crashes are not fair.
* `WhatsAppOutbound!FairSpec`: handlers and runs go on, and BullMQ hands a waiting
  job to a worker. Failures are not fair, so neither is success: `EveryMessageSettles`
  holds by the bound on attempts and stalls, not because something must succeed in
  the end.

The other modules state no fairness; their properties are safety properties, among
them some that say "at rest" what must have happened by then (`EveryMessageArrives`,
`LocalFollowsStripe`, `ScreenIsTrue`, `ControlsAreFreed`).

## 5 Disagreements found

One has a run whose trace shows it, and a `findings` entry with the quotation:

* `inbound_dropped`. A run that fails after `SET NX` and before the insert is
  retried; the retry takes the message for a duplicate, marks the webhook PROCESSED
  and completes. The processor's own comment says a failing job is kept "rather
  than silently dropped".

Three more are stated as formulas of the modules that do not hold. No run lists them; the line
given here, added to a configuration, lets TLC print the trace.

* `PROPERTY ReplayIsSafe` in `billing.cfg`: the job of an older event fails after its write, and
  while it waits for its next attempt (`webhook-ingestion.service.ts:107-108`, exponential backoff) the
  newer event is taken in; the retry writes the older status, plan or cancellation back, and
  nothing corrects the row until Stripe says something else. `src/docs/STRIPE_INTEGRATION.md:87` says
  that redelivery "is always safe to replay", and `tenant-lifecycle.service.ts:104` counts on convergence.
  Stripe itself promises no order either, with the same end.
* `INVARIANT OneLiveEnd` in `accounts.cfg`: two tabs refresh at once, both read the token as live
  (`session.service.ts:80`), and both successors stay live. `session.service.ts:37` speaks of "the single
  newest, unrevoked token in a chain".
* `INVARIANT ReuseMeansTheft` in `accounts.cfg` (with `Tabs = {t1}`, `Faults = {"crash"}` and without
  `SYMMETRY`, for one tab all of whose answers arrive): `refresh` loads the user after the old token was
  revoked (`auth.service.ts:211`); when that fails the browser hears an error, keeps the dead token, and
  its next refresh signs the user out everywhere. `src/docs/AUTHENTICATION.md:99` calls this
  "unambiguous proof of theft". A second tab, or an answer that was lost, ends in the same way.

The others were met while modelling. The models contain the behaviour, the
properties leave it out by name or are stated so that it is not covered, and no run
fails for it. Those with a file and line contradict what is written there.

*Booking and conversations.*
Two reschedules of one appointment that run at once both insert a successor and
both close it: one visit has become two live bookings (`src/docs/DATABASE_DESIGN.md:1277`: "this
booking became that booking").
The monthly appointment limit is counted before any lock.
The message after a hand-off never meets its ESCALATED thread, gets a new OPEN one,
and the AI answers (`DATABASE_DESIGN.md:745,748`). Two first messages processed at once
open two threads. Messages can be touched out of order. A stalled outbound job leaves
its message QUEUED.

*AI turns.*
When the model cannot be reached the fallback text ends the turn and is never sent
on WhatsApp, although the thread is handed over ("rather than left silent", `SYSTEM_ARCHITECTURE.md:581`).
The reply of a turn whose rounds are used up promises a team member, and nobody is told.
A failed `escalateToHuman` still suppresses the repeated-reply check.
A cache filled late by a reader is stale until its TTL (`ai-context.service.ts:14-23`: "never a
correctness concern"). `usage-tracking.service.ts:8-12` calls check and increment one atomic call;
`entitlement.service.ts:153` says they are not. The sandbox of the assistant
escalates a real thread when it is given its id. A summary reads the oldest 200
messages.

*Subscription and checkout.*
The dedup key is set before the row, so
an event whose insert failed is answered 200 as a duplicate when Stripe sends it again
(`API_SPECIFICATION.md:197` promises 200 after raw persistence). An administrator's
request and a webhook overwrite each other's `Tenant.status`; a cancelled trial can be
half done. Overlapping or failing checkouts make several Stripe customers
(`schema.prisma:1112`: "lazily, exactly once"), and two open sessions can both be paid, since
checkout does not look for a running subscription. An abandoned session has used up
its coupon. An idempotency key is bound to tenant and body, not to the endpoint; the frontend
draws a new key for every call, so that its own retries are not recognised.

*Accounts.*
A logout that races a refresh
leaves the successor live. A `forgot` that deletes links between the read and the
marking of a reset makes it fail after the password was changed and before the
sessions are revoked; two resets with one link can both succeed; a login
with the old password that races a reset gets a session after the revocation.

*The salon.*
`isWindowAvailable` does not see a booking that begins in its own trailing buffer
(`availability.service.ts:198-207`: "the *same* two conditions"). Deleting a category leaves its services
in it (`service-categories-page.ts:118-121` tells the user they become uncategorized). A deleted
employee keeps its user, so that linking the user again is a 500. Of two saves of the
settings at once the later undoes the earlier.

*Scripts.*
After an invitation was sent from the demo tenant, `demo:reset` fails on its foreign key
(`demo-seed.ts:28-30`: "Repeatable"). `isOnTimeOff` compares two readings of the clock, so the last day of a leave
is booked. Of two consecutive origins of a reschedule the first has no successor. The demo
books by the hours of the employee alone (`demo-seed.ts:1069-1079`): Sundays, and weekdays after closing, which
its own business hours exclude (`:408`, "Closed Sunday, shorter hours Saturday") and `isWindowAvailable`
refuses (`availability.service.ts:309-340`); and in UTC. The base seed upserts plans by their Stripe
price, so once a price was replaced the next run makes a second active plan, and
a retired plan comes back. Without an encryption key the seed fails after most of the salon is written.

*Dashboard.*
`auth.interceptor.ts:13` ends the session "only on refresh failure"; it also does when the
retried request fails. Suspend and reactivate free their button on completion only, not on an error.
The router keeps the component of a route when only the id changes, and the pages read the id once: after a reschedule from the
page of an appointment it goes on showing, and acting on, the old one, and so do `employees/:id`,
`conversations/:id` and `tenants/:id/billing` when the URL is changed by hand. A message load that is late or fails shows one thread under another's name; the answer of a send is appended to whatever
thread is shown. A GET that is retried can be overtaken by a write whose answer
is then counted twice. The forms of the business hours, of the assistant and of the two
profiles can be saved over stored values nobody has read: the profiles drop blank strings, but begin with the currency `USD`
(`salon-profile-page.ts:46-47`) and the locale `en`. `/403` is not a route. The profile form of the settings page sends
`''` for an empty address, which `UpdateTenantDto` refuses. A search emptied while it is in flight
shows its results; a new date leaves the old slots; a callback of a page that was left may
navigate; lists look empty after a failed load.

## 6 Proofs

Eight modules hold the theorems; `BookingProofs` is about the scripts that fill the book of
`DemoSeed` too, `DashboardProofs` about outbound messages and the browser. They hold for every
value of the constants that satisfies the named assumptions of the module
(`EmployeesAssumption`, `PlansAssumption`, `ScheduleAssumption`, `AccountsAssumption` and
so on): any number of requests, employees, plans, messages, deliveries, workers, turns,
attempts, events, keys, tabs, browsers, sessions, links. The assumptions say that ids,
times and lists have their types, that `None` is none of them nor of the words used as
replies, and that a plan has a schedule; TLC evaluates them on every instance. Two
theorems have hypotheses of their own, without which the property is false:
`SomebodyAlwaysWins` (there is a request) and `TenantAgrees` (one worker).

| module | theorems and the run properties they state |
|---|---|
| `BookingProofs` | `TypeCorrect` (`TypeOK`), `BookingIsExclusive` (`NoDoubleBooking`), `BlockingFollowsLife` (`BlockingIffLive`), `RecordsAreTrue` (`RecordIsTrue`), `RefusalsLeaveNothing` (`RefusalLeavesNothing`), `SomebodyAlwaysWins` (`SomebodyWins`), `DeadStaysDead` (`NeverRevived`), `LocksRespectHolders` (`LockRespectsHolder`), `BookingKeepsCalendar` (`KeepsCalendar`); `DemoBookIsClean` (`BookIsClean`), `DemoScriptsRepeat` (`ScriptsRepeat`) |
| `WhatsAppInboundProofs` | `InboundTypeCorrect` (`TypeOK`), `ActsOnAMessageOnce` (`ActedOnAtMostOnce`), `CompletedWebhookIsProcessed` (`CompletedIsProcessed`), `ClaimedMessagesArrive` (`EveryMessageArrives`) |
| `DashboardProofs` | `OutboundTypeCorrect` (`TypeOK`), `StatusEarned` (`StatusIsEarned`), `OverSettles` (`OverIsNotQueued`); `ControlsFreed` (`ControlsAreFreed`), `UnreadFormsKept` (`UnreadFormsAreKept`), `ScreensTrue` (`ScreenIsTrue`) |
| `BillingProofs` | `BillingTypeCorrect` (`TypeOK`), `TenantAgrees` (`TenantFollowsSubscription`), `RowFollowsStripe` (`LocalFollowsStripe`) |
| `AccountsProofs` | `AccountsTypeCorrect`, `ChainsSound` (`ChainsAreSound`), `ForksAreOverlaps` (its part `ForksOverlap`), `ReuseIsExplained` (`ReuseHasCause`), `LockoutHolds` (`LockoutWorks`), `InvitationIsUnique` (`OnePendingInvitation`) |
| `SalonProofs` | `SalonTypeCorrect` (`TypeOK`), `OnlyRacesHurtSalons` (`OnlyRacesHurt`), `SavesKeepTheRest` (`SavesKeepOthers`), `SlotsCanBeBooked` (`SlotsMatchBooking`) |
| `CheckoutProofs` | `CheckoutTypeCorrect`, `KeysRunOnce` (`KeyRunsOnce`), `CheckoutsAreSafe` (`CheckoutIsSafe`) |
| `AssistantProofs` | `AssistantTypeCorrect` (`TypeOK`), `AssistantTurnsAreSafe` (`TurnsAreSafe`), `AssistantRemembers` (`MemoryIsSound`) |

**`BookingProofs`.** The inductive invariant is
`IInv == TypeOK /\ InFlight /\ BlockingIffLive /\ SlotsExclusive`.
`NoDoubleBooking` is not inductive: it speaks of live rows, the constraint of
blocking ones, so `BlockingIffLive` and exclusiveness of blocking rows
(`SlotsExclusive`) are carried together; and a commit needs to know that its row
does not exist yet and that the appointment it closes does (`InFlight`). The
argument goes through one lemma, `RowStep`: every step leaves each row as it is, retires
it (it exists, and neither blocks nor lives), or inserts it live with lines the
constraint has let in (`RowsOnlyMoveOn`). From it follow, without a look at the
actions again, `BlockingFollowsLife`, `BookingIsExclusive`, `DeadStaysDead`, the
refinement `BookingKeepsCalendar` and, with the origins of rows existing (`OriginsExist`),
`RecordsAreTrue`. `RefusalsLeaveNothing` needs in addition only that a reply is decided by
a request still at work, which by `InFlight` has no row. `LocksRespectHolders` goes action
by action; `TypeCorrect` is the first conjunct.

`SomebodyAlwaysWins` is the argument for the sorted lock order. `Orderly` says that a
request in flight holds every key with its token, that what it holds is lower than what it
still wants, and that its lines are those of its start time and plan. While nothing has
gone wrong and nobody has won (`Contest`), the calendar is empty (`ContestHasNoRows`), so no
check and no constraint turns anybody away (`NothingInTheWay`): only a busy key does. And
there is a `Leader`: somebody has not lost, and any key that a loser has yet to give
back is lower than one that somebody who has not lost holds. Who finds a key taken holds
lower keys only, so the one who loses to it is never the last (`LoserLeavesLeader`); a key that
expires under its holder only shrinks what there is to lose to. That a plan has one schedule,
which links the lines a request built with those that make it servable, is an induction over the plan;
it is done by least counterexample (`OneSchedule`, from `Smallest`).

*The demo.* `DemoBookIsClean` rests on `DemoInv`: every run of the demo seed has a tenant of its
own; the slots its timeline has made end before the cursor, lie in the day it is at, out of the
leave (but for the last day) and in the hours that were drawn; and the last row of the book is
the slot its writer, if any, wrote last. That the slots of a day come one after the other is a sum over the
day's picks, which takes an induction; as with `Smallest` above it is done by least
counterexample: the sums exist for every number of picks (`SumsExist`), and a first pick that would
break the order cannot be one. `DemoScriptsRepeat` rests on `RepeatInv`, about a script that has
the database to itself: the others are idle; the sections of the seed are numbered in the order of
the file, with everything below the one it is in filled and nothing above begun
(`SectionsAreFilled`), so that no row is there before its own section creates it; the legs
of a visit lie in its slot one after the other (`LegsAreApart`), so the constraint against overlaps has
nothing to refuse; the conversations are told one after the other (`ConversesWell`); and a
reset has emptied what refers to a table when it comes to it (`ResetsAlone`), where the invitation is the
one row it leaves out.

**`WhatsAppInboundProofs`.** `TypeInv` adds to `TypeOK` that a run at a message has a
message (its position is within the payload), that it has a thread where it uses
one, and that runs are under way only in active jobs (`RunsAreActive`): `InboundTypeCorrect`.
`CompletedWebhookIsProcessed` needs only that a run about to return has written
PROCESSED and that nobody writes the row of a completed job (`ProcessedFirst`).
`ActsOnAMessageOnce` rests on `Ownership`: a message is owned by at most one run, the
one that inserted its row and has not begun its turn; owned means not yet acted on, not
stored means neither. The dedup key plays no part in it: the unique index alone
carries the theorem, which is why eviction does no harm.
`ClaimedMessagesArrive` rests on `Arrival`: as long as no run has failed or died, every
message that is claimed in Redis, and every message a job has left behind, is stored or in
the hands of a run that is about to store it. Failing is what breaks it, and the run
`inbound_dropped` shows how.

**`DashboardProofs`.** *Outbound messages.* Four parts per message: `Stage` (job, run and row are at
matching places), `Budget` (Meta has the message at most once more than runs of it have
failed or died, which bounds the sends by `MaxAttempts + MaxStalls`), `Earned`, `Settled`.
`OutboundTypeCorrect`, `StatusEarned`, `OverSettles` follow.

*The browser.* `DashboardInv` says what is well about requests, screen, session and server. Behind
`UnreadFormsKept` are `Harmless` (a request that would save an initial value is about the raw settings, which
have no initial key, or about one of four forms whose load failed) and `FormsAreWell` (a form that shows
its initial value is loading, hidden, or one whose load failed on a page that does not hide
it). Behind `ControlsFreed` is `ControlsAreWell`, which is the property itself over the set of requests,
together with which flags a page can have at all (`FlagIsWell`): a callback that leads to
another page takes its flag along, and one whose navigation ends where it began (the login
with a closed returnUrl) is the exception. Since any page can be left at any
moment, most steps are one of three: on the same page (`SamePage`), to a new one
(`FreshStep`), or a navigation that ends in either (`NavigateStep`).

*The screen.* `ScreenIsTrue` speaks of a page at rest and says nothing of the way there, so behind
`ScreensTrue` is `TruthInv`, about what a part is going to show (`Comes`): either a search is yet to be sent or a load of
the part yet to be handled, or else the answers that are on their way, taken in the order of their requests
(`Views`, each by its `Effect`), turn what the part holds into something that `Fits` what is stored. At rest no answers are on
their way, so what is held fits, and `FitsAgrees` gives the property. What makes it inductive, as long as nothing has been
overtaken, failed or lost (`hitch`): requests belong to their page (`Placed`); no answer is in that bypassed an older
request about the same data (`InOrder`); whatever would leave the part wrong, a write sent by an earlier page, a load for
what is no longer chosen, a message to another conversation, has a load of the part after it (`Superseded`); and a form
is loaded once and saved as it was loaded (`FormIsKept`). A request handled appends its effect to the view
(`ServeTruth`), an answer that arrives moves the same effect from the view to what is held; a write disturbs a part only if
it touches the same data, and then the page that sent it applies its answer. `TargetsAreWell` adds that a page is about rows that
exist as names, and that a page left for Stripe has no requests.

**`BillingProofs`.** `BillingTypeCorrect` holds for all parameters. The inductive
`Agreement` behind `TenantAgrees` says that, as long as no request has written a status of its own, tenant
and row are consistent or some event is `Settling`, that is, it names a tenant status
and its job is waiting, failed, or has not passed the write of the tenant; to preserve it
one needs that the run at work sees the row it wrote (`RowKnown`) and that it is alone
(`OneRun`, where one worker comes in). Requests may run throughout: what they write beside a
status disturbs neither row nor tenant in this (`RequestLeavesStatus`).

`RowFollowsStripe` assumes nothing about the order of events and jobs or about how many workers and
requests there are. `Wrote` says that a run past its write, or a job that completed, has its event in
`applied`; `LastWord`, that Stripe is what its last event says; `Faithful`, that as long as requests agree
the row says what Stripe says whenever the event written last (`latest`) is the newest one, and that what a
request is about to write is what Stripe has agreed to. At rest the newest event has been written; if nothing
older was written over it, it is `latest`, and `Faithful` gives the property. What the property leaves
out is in its statement: a request decided on a row without a subscription, two requests that crossed about the same
field, whose local writes may come in the other order than their calls, and an event written over a newer one.

**`AccountsProofs`.** `AccountsTypeCorrect` by `TypeInv` (whoever can get a session has a tab) and
`StageInv` (the place a request has reached belongs to its kind). The chain needs
`SessionInv`: a session of a request exists only once the request has issued it, and what a refresh presents, or a
browser holds, is a session that exists. From it `RotationIsExclusive` (a live successor of a live token is
between the two statements or an error) and, with `Severed` for each entry of
`cuts` (what was revoked stays revoked, and a refresh that is about to continue it was busy at the cut),
`RevocationIsFinal`. That chains fork by overlap only is `ForkInv`: once a rotation has returned the token it
presented is dead (`Buried`), so whoever still reads that token as live began before (`Forked`);
`ForksAreOverlaps`. Together they are `ChainsSound`. `ReuseIsExplained` goes backwards from a detected reuse: the
heir of a session is a refresh that presented it and answered (`HeirInv`), a successor that was
heard has replaced the cookie of its browser (`CookieInv`), so whoever presents the old
token again is another tab, did not hear, or heard an error from a refresh that failed behind its
rotation (`ReuseInv`). `LockoutHolds` carries `CounterInv`, which names the
logins that stand between two commands on the counter. `InvitationIsUnique` carries `MailInv` (the
row of a link appears only when its request inserts it) and `MarksMove` (links only age, and
one appears at a time): an invitation can only appear where none is pending, which is what
the partial unique index says and the look-up before it does not.

**The history of overlaps.** `SalonProofs`, `CheckoutProofs` and `AssistantProofs` share their
base: `MetInv` says that who has met whom is mutual, and that of two requests (or
turns) that have not met one was done before the other began. "But for requests that
overlap" then becomes something to prove with: two that have not met did not run at once.

**`CheckoutProofs`.** `KeyInv` (under `KeysRunOnce`): a stored answer is of a request with the same key
and body that ran, and a request that ran and whose answer was kept is found by whoever comes
later, unless the key has lapsed. `CouponInv`: sessions opened or about to be opened with the
coupon are at most as many as redemptions counted, and a count at the limit while
somebody is about to redeem has two contenders that met. `CustomerInv`: whoever is about to
make a second customer met the maker of the first, and a session's customer is the row's. The
last two make `CheckoutsAreSafe`.

**`AssistantProofs`.** `QuotaInv`: a turn about to be counted beyond the limit overlaps another.
`SentInv`: replies are sent once per turn, in the order of turns that did not meet. Both are under
`AssistantTurnsAreSafe`. For `AssistantRemembers`, `CacheInv` says that a copy of the row on its way to
the cache is the row, unless whoever wrote the row met somebody; and `LoopInv` speaks of the last
stretch of equal replies by turns that met nobody: the row counts it (`RowCounts`), a turn under way
has read that count (`TurnCounts`), and a stretch beyond the threshold has ended with a
human (`RunEnds`). The lower bound on the count (`>=`, not `=`) is what makes it inductive: a count may
be higher because of turns before the stretch.

**`SalonProofs`.** One conjunct of `OnlyRacesHurt` each: `WholeInv` (rows left of another
request's replacement have a request that met it behind them), `LimitInv` (employees whose creations did not overlap
are within the plan, and whoever has counted found room, those it met aside), `RefusedInv` (a refused
creation has left nobody, unless a service was deleted meanwhile) and `ErrorInv` (a request that
met nobody can rely on what its checks found, and fails only on a user whom a deleted
employee holds). `SavesKeepTheRest` is an action property: what a save has read is what is
stored, unless another save met it (`SettingsInv`). `SlotsCanBeBooked` has no history: in
every well-typed state the two computations agree, which is arithmetic on days, shifts and
buffers. Since a PATCH may leave the services alone, type correctness needs that whoever replaces services
has a list of them (`Listed`).

**What the proofs changed in the models.** A few definitions had overlapping guards in a `CASE`, which
TLC takes in order and TLA+ does not (`Salon`'s `FindConflicting` and `FindHoliday`, `Assistant`'s
`DispatchTool`, `Dashboard`'s `Reply`); they are disjoint now. Times of a day are those `HH_MM_PATTERN` lets in
(`Salon!Times`). The assumptions of `Billing`, `Checkout`, `Assistant` and `Salon` now say that `None` is not
one of the words used as kinds, replies or endings, `Dashboard`'s that `Nil` is no role and no page, and
`DemoSeed`'s that a day's window rises and that what is told is a sequence of scenarios.
`ControlsAreFreed` used to excuse whatever followed a fault; the proof needs, and the property now
names, the two places where a fault leaves a control disabled. What was one property about forms and
lists is now two (`ScreenIsTrue`, `UnreadFormsAreKept`). The runs pass as before.

**Model-checked only.** Every safety property a passing run checks is the subject of a theorem. What
remains is liveness: `EveryRequestEnds`, `StrandedLockFreed`, `EveryMessageSettles`. Liveness under fairness and `ENABLED` are beyond what the TLAPS backends in use can do.
`NothingDropped` is refuted, not proved.

## 7 What is left out

* **All modules**: one tenant (where a module has one person, one thread or one
  browser, section 2 says so); `updatedAt`, audit, logging and texts; permission
  checks before a handler; a job that BullMQ holds to be stalled while its worker is
  alive after all, and that two workers run at once.
* **Booking**: `updateNotes`, ownership checks for STAFF, times beyond a small range,
  months (all rows are of one month), working hours and time off that change under
  a request (they are the constant `Hours`; `SetEmployeeStatus` changes the status).
  PENDING, COMPLETED and NO_SHOW, which no request writes.
* **Inbound**: one customer, whose row exists (its creation is `Salon`'s `message`); receipts
  in the same payload; unknown accounts; what the quota counts (refusal is a free choice
  here, and `Assistant`'s business); assigning a thread.
* **Outbound**: the messaging window is open; the conversation exists (none is ever
  deleted); which of the reads before the call fails.
* **Assistant**: what is said and which arguments a tool gets; what a tool does to the calendar
  (that is `Booking`'s); the sandbox, which persists nothing of a turn.
* **Billing**: invoices and payments (upserts by Stripe's id that only a list shows); the customer is known since
  the checkout, so no event is dropped as unknown; Stripe emits at most `MaxEvents`; a
  dying worker's job is requeued or failed as a free choice; the dedup key is
  evicted only before a job exists, since afterwards `AlreadyPersisted` does what
  `Duplicate` does. `LocalFollowsStripe` sets aside an event written over a newer one (`Overtaken`),
  and (`RequestsAgree`) requests decided on a row without a Stripe subscription and two that cross about the same
  field: a cancellation or plan change that races the completion of the checkout, or another
  one, does leave the row wrong, and no document says what should become of it.
* **Checkout**: the portal session (one call, no state); of a plan only `isActive`; the other
  endpoints behind the same interceptor.
* **Accounts**: reads, last-login stamps, the content of mails, other people (a person's rows are
  touched by nobody else but the inviting owner).
* **Salon**: descriptive fields (names, prices, the profile, a category's order, a customer's notes); time zones:
  a date is a stretch of ticks.
* **DemoSeed**: one employee of eight; names, prices, texts; which random pick is made (all are).
* **Dashboard**: the registration, verification and reset pages (their requests are
  `Accounts`'), the assistant's debug panel, acting as a tenant, slots and service lines of
  the booking form, validation of what is typed, a reload of the browser,
  changes made by somebody else, lists that are only shown (invoices, payments, prompts). A login that is
  answered when its page has been left (the refresh of another request has made that
  possible) changes the session and leads nowhere.
* **Not at all**: audit log, security events, notifications: output that nobody reads back.
  Health, logging, configuration, adapters, deployment: no state of their own.
  Migrations: history of a schema whose constraints the modules have.

## 8 Plan

The order is that of what goes wrong for a salon: double bookings, lost or doubled
messages, a wrong subscription; then the edges. Done:

1. `Calendar`, `Booking`, `BookingProofs`.
2. `WhatsAppInbound`, `WhatsAppInboundProofs`.
3. `Billing`, `BillingProofs`.
4. `WhatsAppOutbound`, with its theorems in `DashboardProofs`.
5. `Accounts`, `AccountsProofs`.
6. `Checkout`, with the idempotency keys around it.
7. `Salon`, with availability.
8. `Assistant`.
9. `DemoSeed`, `Dashboard`.

10. `SalonProofs`, `CheckoutProofs`, `AssistantProofs`, and the rest of the invariants of the
    first five modules.
11. The theorems about `Dashboard` (`DashboardProofs`) and `DemoSeed` (`BookingProofs`).

To come:

* As an abstract specification still worth stating: a mailbox that takes each message
  once, which `WhatsAppInbound` without faults should implement; and a table of effects
  by key for `Checkout`.
* As models: the sandbox of the assistant; invoices and payments with `invoice.paid`; slots and service
  lines of the booking form, together with `Salon`'s `Slots`.

New runs should ask new questions: runs whose questions a larger one answers are
merged into it.
