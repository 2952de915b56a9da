# Fluvia: a verification project

Fluvia is a payments platform written in TypeScript over PostgreSQL: merchants
charge buyers through providers, the money is kept in a double-entry ledger,
and refunds, disputes and payouts move it out again; queues carry its events,
and a worker watches over what was left half done. This directory holds TLA+
modules of it, TLC runs on small instances, and theorems that TLAPS checks for
every instance. Everything is translated from the code; the paths below are
those of the repository, under `src/`.

Contents: 1 the system; 2 the modules and how they correspond to the code;
3 the runs; 4 the proofs; 5 where the code and its documents disagree;
6 not modelled.

## 1. The system

Processes: API servers (`apps/api`, Fastify) and workers (`apps/worker`), any
number of each, over one database, and the pages of the dashboard and of the
checkout in front of them. All state is in PostgreSQL, but for the circuit
breakers of each process, the rate-limit buckets (in memory or in Redis) and
what an open page remembers. A service runs inside
`withTenantTransaction` (READ COMMITTED, row-level security); state machines
are enforced twice, by the `WHERE status IN (...)` of each UPDATE and by a
trigger over a transitions table that raises on an illegal change and so rolls
the transaction back. Calls to a provider are made outside every transaction,
between two of them.

Inventory. "Hard" is what a test would hardly reach; "right when" is what
correctness means.

| component | state | operations | interacts with | hard | right when |
|---|---|---|---|---|---|
| Ledger engine `packages/ledger/src/service.ts` | transactions by (tenant, idempotency key), entries, versioned balance projections | postOnce with the caller's onPosted, reverse, verify, rebuild | called by every money service; the caller's row changes in the same transaction | concurrent postings, lock order, retries, a replayed key that skips onPosted | a key is posted once, entries balance, guarded accounts never go below zero |
| Postings `ledger/src/posting.ts` | chart of accounts | capture, payout, refund, dispute, settlement, adjustment | the engine | fees that eat the amount, cash that is not there yet | each step moves the money its row says |
| Ledger integrity (0042, 0043, checkpointer, anchorer) | candidate, hash chain, anchors | seal in two phases, anchor | postings | commits out of sequence order, a restore | a rewrite is visible and nothing else looks like one |
| Payouts `payments-core/src/payouts.ts`, 0033 | `payouts` | beginIn, execute, resolveFromProvider | ledger, bank, watchdog, re-driver | two phases around the bank, crashes, late answers | the money leaves once and ends paid or returned, as the bank says |
| Payout watchdog and re-driver (0034, 0035) | `updated_at` as lease | sweep, claim, batch | payouts | a lease nobody checks again | stuck payouts move on, one driver at a time |
| Refunds `refunds.ts`, 0020 | `refunds`, counters of the intent | beginIn, execute, resolveFromProvider | intents, ledger, provider | several refunds of one intent, unknown outcomes | refunded money never exceeds what was captured |
| Confirmation `confirmation.ts`, 0017, 0018 | `payment_attempts`, intents | beginIn, execute, resolveFromProvider, sweep, cancel | provider, inbox, ledger | answer, webhook, sweep and cancel race | an intent is charged once and closed by the provider's word |
| Payment intents `service.ts`, `fsm.ts` | `payment_intents` | create, list, cancel | the three above | shared by all of them | its status tells what happened to its money |
| Checkout `checkout.ts`, 0022, 0024 | `checkout_sessions` | create, hosted confirm, sync, sweep | intents, confirmation | decisions on an intent read without its lock | a session closes, once, and tells the truth |
| Disputes `disputes.ts`, 0036-0038 | `disputes` | open, evidence, verdict | inbox, ledger | repeated and overlapping events | the money is held once and the bank decides |
| Fees and money `pricing.ts`, `packages/money` | none | allocate, fee | capture | the remainder of a division | the parts add up, the fee is never more than the amount |
| Provider resilience `resilience.ts` | a breaker per provider and process | guarded call | every execute | stragglers of an outage, half-open | calls stop while the provider is down and resume after |
| Inbox `packages/inbox` | `provider_events`, DLQ | ingest, claim, process, dead, replay | the resolvers above | lease overlap, bounded retries | every event is handled, or visible as dead |
| Outbox relay `packages/outbox` | `outbox_events` | claim, publish, retry, sweep, replay | publisher | as the inbox, and a crash after publishing | every event is published at least once, or visible as dead |
| Outgoing webhooks `packages/webhooks` | endpoints, `webhook_events` | fan out, claim, sign, post, resend, rotate | the outbox, receivers | secrets that change under way, dead cycles | what was announced is accepted, or visible as dead |
| Idempotency keys `packages/idempotency`, 0013, 0015 | key with stored response | claim, commit, replay, purge | API handlers | equal requests at once, purge between two statements | one effect per key, and the answer is its own |
| Reconciliation `packages/reconciliation`, 0027-0030 | reports, lines, cases, adjustments | load, reconcile, sweep, resolve, propose, approve, reject | ledger, attempts | a sweep whose snapshot precedes its lock, two deciders | every line is classified, the books carry the decisions |
| Authentication `packages/auth` | user, challenges, sessions, factor | register, login, verify, step up, enrol, disable | API | guesses spread over challenges, a code shown twice | guesses are bounded, a code counts once |
| Rotation of keys (`rotate-mfa.ts`, `webhooks/rotate.ts`, `rotate-api-key-pepper.ts`) | keyrings of the fleet, rows | deploy, re-encrypt, check | authentication, webhooks, API keys | old and new processes side by side | every process reads every row, and the old key goes |
| Identity and onboarding `packages/identity` | organisations, members, merchants | create, onboard, chart, rename | ledger accounts | tabs and retries racing, a rename judged by a name read before | one organisation and one first merchant |
| Customers `identity/customers.ts` | `customers` | create, update, delete, erase | audit log, API | an erasure beside an update or a deletion | what was erased stays erased, and is told |
| API keys `identity/api-keys.ts`, 0044 | `api_keys` | create, revoke, authenticate | audit log, pepper | a key revoked twice, a request that comes after | a revoked key lets nobody in |
| Audit log `packages/audit`, 0006 | `audit_events` | insert in the transaction of the change, page by cursor | everything a person changes | ids taken in one order and committed in another | the log tells what happened, and its pages the log |
| Tenant isolation `packages/db` | none | transaction, row-level security | all | a filter of the database | no row of another tenant is seen |
| Worker `apps/worker` | timers, pools | boot, start, run, stop | all sweeps | a signal at any moment, twice; the fairness of everything else | each job comes round again, a stop waits for statements and ends |
| HTTP API `apps/api` | pools, rate-limit buckets | listen, limit, parse, authorise, call a service, map errors, close | all services, Redis | limits across processes and outages; closing under load | a limit is a limit, an accepted request finds its pools |
| Dashboard and checkout forms `apps/dashboard`, `apps/checkout` | phase, key and modal of an open page | ask, send, step up, retry, cancel, reload | HTTP API | an answer that is lost, a retry after a step-up, a second press | what was confirmed happens once and is shown truly |
| Payment links `payment-links.ts` | `payment_links` | create, open, disable | intents, checkout sessions | a page opens it again and again, also while it is disabled | an opened link is an intent with its session, or nothing |
| SDK, configuration `packages/sdk`, `packages/config` | none; the keyrings | one request; parse | idempotency keys; rotation of keys | a call repeated with its key; processes of two configurations | see those two |
| Observability, seeds | see 6 | | | | |

## 2. The modules

| module | models | builds on |
|---|---|---|
| `Ledger` | accounts, guard and postings, one step per posting | |
| `PostingEngine` | `service.ts` of the ledger, statement by statement | shown to be `Ledger`'s atomic posting (`AtomicPosting`) |
| `LedgerChain` | 0042, 0043 and their jobs | |
| `Reservation` | abstract: money held from a merchant has one fate | |
| `Payouts` | `payouts.ts`, 0033-0035, re-driver | `Ledger`; implements `Reservation` |
| `Refunds` | `refunds.ts`, 0020 | `Ledger`; implements `Reservation` |
| `Confirmation` | `confirmation.ts`, cancel, 0017, 0018, the inbox of its webhooks | `Ledger` |
| `Checkout` | `checkout.ts`, 0022, 0024 | extends `Confirmation`: sessions over the same intents |
| `Disputes` | `disputes.ts`, 0036-0038 | `Ledger`; implements `Reservation` |
| `Fees` | operators: `pricing.ts`, `Money.allocate` | used by `MCCheckout`, `MCConfirmation` |
| `AtLeastOnce` | abstract: what a queue of events promises | |
| `EventQueue` | outbox relay and inbox processor, their replays | implements `AtLeastOnce` |
| `Webhooks` | fan-out, deliverer, resend, secrets of the endpoints | |
| `Requests` | idempotent execution and the purge | |
| `Reconciliation` | reports, cases, adjustments | `Ledger` |
| `Access` | login, second factor, sessions, step-up | |
| `KeyRotation` | the three key changes of the runbooks | |
| `Onboarding` | organisation, first merchant, chart | |
| `Records` | merchants, customers, API keys, payment links, dead events, and the audit log of their changes | |
| `Breaker` | the circuit breaker | |
| `RateLimit` | the fixed windows, in memory and in Redis | |
| `Console` | the write forms of dashboard and checkout page, against the routes they call | |
| `Lifecycle` | start and stop of the worker and of the API, their pools | |
| `LedgerProofs`, `PayoutsProofs`, `RefundsProofs`, `DisputesProofs`, `CheckoutProofs` | lemmas and theorems | the module of the name |
| `DeliveryProofs`, `FrontDoorProofs`, `BackOfficeProofs` | likewise, about all the machines of the run of the name | `MCDelivery`, `MCFrontDoor`, `MCBackOffice` |
| `MC...` | instances for TLC | |

**The unit of a step is the transaction.** What `withTenantTransaction` commits
is one action. Where it takes several snapshots without a lock, and somebody may
write between them, it is several: `beginIn` of a payout reads the balance, then
the committed payouts, then inserts (`BeginIn`, `CheckFunds`, `Insert`); a
session is read and then written (`SyncRead`, `SyncWrite`). Where the subject is
what happens inside a transaction (the posting engine, reconciliation, the
chain), a step is a stretch between two waits. A provider's call is an interval:
a process that submitted waits while everything else may happen, and the answer
may be unknown (timeout, 5xx, pending). A crash loses what a process had in hand
and nothing that committed. Every counter that only bounds a run is named in its
module (`MaxFaults`, `MaxDeaths`, `MaxCalls`, ...).

**Ledger.** `postOnce` inserts the key, locks the accounts, writes entries and
projections and runs the caller's `onPosted`, in one transaction: `Post(key,
entries)`, with the caller's row changed in the same step. A key already in
`journal` posts nothing and does not run `onPosted`, as in the code. `Covered`
refuses a posting that leaves a guarded account below zero. One tenant, one
currency; money is an integer number of minor units.

**PostingEngine** is what makes that step atomic: claim of the key (an insert
that waits for an uncommitted one), account locks in the order of the ids, the
balances and versions read under them, the write that checks the version, the
commit; retries on conflict, lock timeouts and deadlocks; `verifyProjection` and
`rebuildProjection`, which hold the account's lock between their two reads.
`reverseTransaction` reads its original and whether it is undone in a transaction
of its own (`LookUp`) and takes no lock on it: between two reversals under
different keys the unique index of 0012 decides, at which the second insert waits
for the first transaction and then fails (`Claim`). What a caller
is answered is judged in two ways (`AnswersAreTrue`). "posted" and "conflict"
stay true. A denial ("refused", "insufficient", "exhausted") is true at the
step that gives it, and only there, since a later call may pay in what was
missing or post under the same key: nothing of the call was posted, there is
nothing its reversal could undo, the entries in the journal do not cover it.

**LedgerChain.** An entry takes its `seq` when it is inserted and becomes
visible when its transaction ends, so `seq`s appear out of order. Sealing leaves
a candidate with a transaction-id horizon and a later run seals it once the
horizon has passed. Ids are counted twice, as PostgreSQL does: `nextXid` is the
next one to be given, `xmax` is one past the highest that has *completed*, which
is what `pg_snapshot_xmax` says, what 0042:207 stores as the horizon, and what
`pg_snapshot_xmin` never exceeds. A posting that is open with an id from `xmax`
on is not covered by the horizon (`Uncovered`); a sealer's own transaction takes
an id when it first writes and completes it when it ends. What is not covered
is kept out by the candidate's minimum age only. With `BeltHolds` the age passes
(`Age`) when no such posting with an entry in the candidate's range is open any
more; 60 s are more than a posting takes while each of its statements is quick,
and no timeout of the code bounds their sum. Without it the age passes at any
time (`ChainSealedEarly`). A hash is modelled as what it hashes. `Restore` puts
the tables into a cluster whose transaction ids begin again.

**Payouts.** `Workers` run the service, `Redrivers` the re-driver; `pc` and
`job` say where each stands. The clock is one flag per row: `recent` while
`updated_at` is less than five minutes old, the only age the SQL asks for. `Age`
lowers it; with `LeaseHolds` only when nobody has the payout in hand, which is
what the documents of the lease assume. `bank` is what the bank did, which the
code learns by asking.

**Refunds.** Each refund has its executor and its resolver. The start is an
intent that has captured and whose money is available. The code's webhook for
refunds is still to be wired (`refunds.ts:51-55`): the resolver stands for the
verified source that calls `resolveFromProvider`.

**Confirmation.** Each attempt has an executor and an inbox event with its
count of tries. The webhook may arrive before, during or after the executor's
own record, or find the attempt `submitting`, which throws and uses up a try;
after `InboxAttempts` (8 in the code) the event is dead until an operator
replays it. The fee is a constant below the
amount; the instances take it from `Fees`, where 3 units at two per cent pay 1.

**Checkout.** A page calls the same confirmation as the API, so `Checkout`
extends `Confirmation`. `Refund` stands for what `RefundService` does to the
status of an intent, which is all that a session reads. The watchdog's sweep is
one statement that waits for the locks of its rows.

**Disputes.** The inbox runs a handler at least once and, beyond its 30 s lease,
more than one at a time: `Handlers` take any event of the bank at any time.
`Quotes[b]` is the set of references the bank's verdict may carry: the dispute's
own, none, or the charge's, as 0036 allows.

**Reservation** says what the three services that take money from a merchant's
available balance owe: it is held at most once and within what is free, then
committed or returned, exactly once. Each of the three defines `phase`, `stake`
and `free` from its rows, journal and balances.

**EventQueue.** `outbox_events` and `provider_events` are drained by the same
protocol, so one module has both and `queue` says which; the ways a row may
fail differ (`RelayCycle`, `ProcessorCycle`). The lease is a `next_attempt_at`
in the future and may run out while the worker is merely slow, so a late worker
writes over a row that another one has. What follows from it and is *not*
claimed: a row may be marked dead although its last publication succeeded
(sweep), a replayed event may be marked dead by a worker of its former life, and
two relays may hold one row, in spite of `docs/architecture/outbox-inbox.md:40`.
**AtLeastOnce** says what remains true: settled only after the effect, dead only
when the budget was spent or nobody can handle it, never tried beyond it.

**Webhooks.** The receiver is external; it verifies with the version of the
secret it `holds`. A second rotation within the grace period drops the older
secret (`endpoints.ts:175-178`), which the receiver may still hold:
`EarlyRotation` is FALSE in the run. The history of attempts is left out.

**Requests.** The clients are calls of the SDK that are repeated with their key
(`Send`). Claim, handler and stored response are one transaction, so a claim
is committed only with its response; an INSERT waits for an open claim. A row
purged between the INSERT that met it and the SELECT is answered as a reuse
error (`index.ts:225-227`), as in the code.

**Reconciliation.** Steps end where a row lock is waited for. The watchdog's
sweep is one statement, whose snapshot (`sweep`) is older than the lock it takes
later: what committed in between is `overtaken`. `propose` locks case, then
adjustment; `approve` and `reject` the other way round: PostgreSQL's deadlock
detection (`Deadlock`) ends it. As in the code, an attempt that commits after the
closing is not looked at again, and an adjustment may be applied to a case that
was resolved by hand.

**Access.** One person, every handler one step under the lock of the user's row,
time in TOTP steps. `guesses`, `used` and `twice` are history. Wrong codes at
`activateMfa` and `disableMfa` are not counted by the code, nor here.

**KeyRotation.** A keyring is what a process was started with; `Deploy` hands out
the four configurations of the runbook in order, and `gate` is the operator's
read-only check before the old key goes. `kind` selects MFA secrets, webhook
secrets or the pepper. `Reads` is decryption with a keyring: current key first,
then the retired ones, and an error if none opens it.

**Onboarding.** Tabs post the organisation, then the merchant under an advisory
lock, then the chart; other members add merchants through the general route.
As in the code, once there is a second merchant a retry is refused and does not
repeat `ensureChart`.

**Records.** Each handler (`Handlers`) runs one operation in one transaction,
statement by statement: begin, the lock where the code takes one first (a rename
reads `FOR UPDATE`, a creation of a merchant holds the advisory lock), the
change, the audit event under an id from the sequence, the commit. A statement
waits for whoever holds its row and then judges its WHERE again, as PostgreSQL
does at READ COMMITTED; `start` is the `now()` of the transaction, which may be
older than what was committed while it waited. A unique name is a wait for, or a
failure on, another merchant's. A reader (`walk`) pages through the log below its
cursor, which the page before left, while events are committed out of the order
of their ids. `See` stands for what a record is for: a customer is shown, a key
lets a request in, a link is opened. A customer's content is only "filled" or
"erased". Bounds: `MaxEvents` ids, `MaxClock` ticks, `Together` (the sets of rows
of which one behaviour touches one; rows of different sets meet in nothing but
the log) and `Timed` (rows in whose behaviours the clock moves).

**Breaker.** A call runs up to its `await` in one step. That a single probe
decides in half-open (`resilience.ts:107`) is not enforced by the code, nor here.

**RateLimit.** Time is a number of ticks and a request walks through its
buckets in order. A hit is atomic (one turn of the event loop, or one Lua
script). `told` is the shortest wait a refusal has announced. An outage of Redis
lets requests pass and counts nothing, as in the code; a restart that loses the
counters, or of the process that holds them, is not modelled. A key that an
earlier script left without expiry is an initial state.

**Console.** A form is a record: whether it asks for confirmation, in which
phases its button works, where a failure leads, and its route, of which two
things matter: whether it demands a recent step-up, and what a repetition does
(replayed by its key, done again, left as it is, refused). The person may press,
cancel and reload; an answer may be lost before or after the request arrived;
the modal may be unmounted while its password is on the way, and its retry
leaves all the same. What the fields contain is left out.

**Lifecycle.** A cycle of a job, or a request, is the sequence of pools it takes
connections from; `main` is the boot. pg's pool is external: an ended pool
refuses new requests, serves nobody who waits, and its `end()` resolves when
every connection is back. The worker ends its pools at once, so a cycle between
two statements finds the second refused: a payout the re-driver has emitted then
stays `in_transit` until its sweep, which is the crash of `Payouts`. The API ends
its pools only after `app.close()` has waited for the requests under way; a
connection that never completes its request is left out. A second signal is
ignored by the API (`shuttingDown`); in the worker it calls `end()` again, whose
rejection nobody catches, and the process dies with a clean shutdown under way.

Three MC modules run several machines that share no state, one machine per
behaviour (`machine`): the union of their behaviours is what the separate runs
would explore, and the property of one machine is not helped by another.

## 3. The runs

| run | shows | states |
|---|---|---|
| `PayoutsLease` | two payouts, two service processes, one re-driver, one fault, no drive beyond its lease. `JournalAgrees`: row and journal tell one story. `PaidMeansBankPaid`. `NoDoubleDrive`: one process before the bank, and what a refusal gave back had not been paid. `PayoutsAreBooked`: the transit account is the sum of the open payouts. `ReservationSpec`. `PayoutsMoveOn`: requested payouts are driven, and ones in transit closed or swept, after any crash | 105 k |
| `Refunds` | three refunds of an intent that captured 3: the intent's counters, the refund liability and the refunds' rows agree (`RefundsAreBooked`), a final status is the provider's word (`OutcomeIsVerified`), `ReservationSpec` | 152 k |
| `Checkout` | two sessions and two attempts over one intent; API, pages, webhooks, sweeps, cancel, refund and a crash racing: one charge, closed by the provider's word, booked and split in full; sessions close truthfully, and nothing waits for a buyer who is gone (`SessionsMoveOn`) | 249 k |
| `Disputes` | three disputes of the bank, two handlers that repeat and crash: held once, verdict the bank's, `ReservationSpec` | 35 k |
| `Delivery` | queues: two events (one of any kind), two workers, two attempts, one replay. `PromiseSpec` (the refinement of `AtLeastOnce`), `PoisonIsFiled`, `EveryEventSettles`. Webhooks: one event fanned out twice, one endpoint, two rows, a rotation, a crash. `NothingLost`, `SignedForReceiver`, `RowEndsOrIsZombie` | 566 k |
| `BackOffice` | engine: an emission, its retry, a settlement over a common account and reversals, three callers and an auditor. `AtomicPosting`, `AnswersAreTrue` (what was done and what was denied), `NoFalseDrift`. Chain: two postings, two sealers, a restore or a death, with `BeltHolds`. `ChainVerifies`, `EntriesAreAnchored`. Reconciliation: two loaders, the sweep, two users, two adjustments. `LinesAreClassified`, `BooksMatchDecisions`.  Processes: any two of the fourteen jobs, or of three kinds of request, pools of one connection. `StopsCleanly`: no exit in the middle of a statement, no cycle after a stop, an accepted request finds its pools. Nobody who posts or decides waits for ever, and a signal ends the process (`EveryCallEnds`) | 285 k |
| `FrontDoor` | access: limit 2, two challenges, one session, two enrolments. `FactorsHold`: guesses are bounded, a code is accepted once, however challenges, sessions and enrolments follow one another. Rotation: three processes, three rows, three kinds of secret. `EveryProcessReads`. Requests: three clients, two payloads, three faults. `EffectOncePerKey`. Onboarding: two tabs, two slugs and names, a death. `OnboardedOnce`. Breaker: three calls, threshold 2, two outages. Forms: eighteen of them, two presses, two lost answers. `ConfirmedOnce`: once per press and per confirmation, one retry after a step-up, and "done" only for what was done. Limits: two requests, two buckets, quota and width 2, an outage. `LimitsHold`: never two quotas in any span of a window, and nobody waits longer than he was told. Records: two requests at once over two merchants, a customer, a key, a link or a dead event, three audit events, pages of one. `RecordsHold`: names, erasures, revocations and replays are told as they happened, a reader who pages to the end misses nothing that was there and sees nothing twice, and what has ended serves nobody who comes later. `EveryoneIsServed`: the rotation ends, requests are answered, the circuit recovers | 711 k |
| `PayoutsDoubleDrive`, `RefundsOver`, `ConfirmationLost`, `DisputesHeldTwice`, `ChainSealedEarly` | the five disagreements of section 5 | |

Each property has a mutant in `PROJECT.json`: a plausible bug, defined next to
the operator it changes and marked `Bug:`, under which TLC finds the property
violated.

**Deadlock.** Every cfg disables TLC's deadlock check: all systems here are
finite sets of jobs that end. That nobody waits for ever is stated as liveness
instead (`EveryCallEnds`, `EveryoneIsServed`).
Symmetry is used where the run has no liveness property, over sets whose members
no definition names.

**Bounds and why they are enough.** Two payouts that ask for 1 or 2 out of 3
available, with 2 in cash, make every guard bind: both fit, one does not, the
emission is refused after the request was accepted, and the second settlement
waits for the provider's. Three processes give the pairs that race (request and
request, execute and webhook, execute and re-drive) with a third to disturb
them. Three refunds of 1 or 2 out of 3 give sums below, at and above the limit.
Two attempts give two clicks that race for one intent; two sessions are what it
takes for an intent to be wrapped twice. Two inbox tries stand for eight: the
first that fails and the last; likewise two attempts of the queues and the
webhooks. Two workers make a lease overlap, and two rows of webhooks an original
and what was sent again. The engine's three callers cover key against key,
account against account in opposite orders, and reversal against reversal; the
ids are ordered so that a common account comes last for one posting and first
for the other. Two sealers and two postings of two entries interleave every
order of `seq`, commit and seal. One restore, one crash, one death: each is
placed at every point. With a limit of 2 the second wrong code locks; two
challenges and two enrolments are what it takes to spread guesses and to show a
code again. Three processes and rows let old, mixed and new configurations run
side by side while a sweep is half-way. Three clients give the holder of a
claim, a waiter, and one that reads while the purge passes. Two presses of a
button give the retry of one beside the first request of the other; two ticks
and a quota of 2 put a burst on both sides of a window's end; with pools of one
connection two tasks are what it takes for one to hold, one to wait, and a
signal to come between. Where section 4 has
a theorem, it holds for all of these parameters.

**Fairness.** Weak fairness on the steps of a process that has work in hand
(Node continues a promise chain and PostgreSQL ends a statement, unless the
process dies, which is an action), on the jobs that `apps/worker/src/main.ts`
runs at an interval (sweeps, claims, cycles, sealing, anchoring), on the
delivery of a webhook by a provider that has decided (`Confirmation` only), on
the passing of time (`Age`, `Elapse`, `Lapse`, `Cool`), on statements that end
by their answer or their timeout (`Lifecycle`), and, for the end of a rotation
in `EveryoneIsServed`, on the operator going on with the runbook. Nothing is assumed
of buyers, merchants, clients that repeat, the bank's decision, a webhook for
payouts, a replay, or a receiver that is up. One action has strong fairness:
`SweepSessions` waits for row locks that pollers take and release, and
PostgreSQL queues waiters, so it is not starved.

The liveness properties say only what the code's own mechanisms give. A payout
in transit is closed *or* becomes indeterminate and waits for operators; an
attempt leaves `submitting`, not necessarily towards a verdict; an event is
settled or dead; a webhook row ends unless a dead cycle held it on its last
attempt (`Zombie`: `deliverer.ts:112-131` has no sweep, whereas its comment,
line 20, ends the row as dead).

## 4. The proofs

`tlapm` checks, for all values of the constants that the named assumptions allow
and any number of faults:

| module | theorem | says |
|---|---|---|
| `PayoutsProofs` | `TypeCorrect`, `NeverOverdrawn` | the type invariant; guarded accounts never go below zero |
| | `JournalAgreement` | row and journal of a payout agree, with or without the lease |
| | `PaidByTheBank` | `paid` only if the bank paid |
| | `OneDriveAtATime` | `NoDoubleDrive`, if drives end within the lease |
| | `InTransitIsBacked` | `PayoutsAreBooked`, likewise |
| | `PayoutsImplementReservation` | payouts implement `Reservation`, with or without the lease |
| `RefundsProofs` | `TypeCorrect`, `NeverOverdrawn` | as above |
| | `VerdictByTheProvider` | `OutcomeIsVerified` |
| | `BooksAreTheRows` | `RefundsAreBooked`: counters and liability are sums over the rows |
| | `RefundsImplementReservation` | refunds implement `Reservation` |
| `DisputesProofs` | `TypeCorrect`, `NeverOverdrawn` | as above |
| | `VerdictByTheBank` | a closed dispute is what the bank decided and its postings are those of its status |
| | `HeldAtMostOnce` | if verdicts quote the opening reference or none (`ReferencesKept`), the money is held once |
| | `DisputesImplementReservation` | disputes implement `Reservation` |
| `CheckoutProofs` | `ChargedOnce`, `VerdictByTheProvider` | `OneCharge`, `OutcomeIsVerified`, for the API alone and with hosted sessions |
| | `BookedTogether`, `ChargesBooked` | `IntentAgrees`, and with it `ChargesAreBooked`: the accounts are the sums of what was captured |
| | `SessionsTellTheTruth` | `SessionOutcome` |
| `DeliveryProofs` | `QueueImplementsAtLeastOnce` | relay and processor implement `AtLeastOnce` |
| | `NoPoisonUnfiled` | `PoisonIsFiled` |
| | `NoFanOutLost` | `NothingLost` |
| | `SignaturesVerify` | `SignedForReceiver`, if no rotation begins inside the window of the last |
| `FrontDoorProofs` | `FactorsHeld` | `FactorsHold`: `GuessBound` and `CodesOnce`, for any number of challenges, sessions and enrolments |
| | `EveryoneReads` | `EveryProcessReads` |
| | `EffectOnce` | `EffectOncePerKey` |
| | `OneOnboarding` | `OnboardedOnce` |
| | `ConfirmedEach` | `ConfirmedOnce`: however often a form is sent, answered late, retried or loaded anew |
| | `LimitsKept` | `LimitsHold`: for every quota and window |
| | `RecordsKept` | `RecordsHold`: for any handlers, rows, names and page size, and without `MaxEvents` or `Together` having to be small |
| `BackOfficeProofs` | `PostingIsAtomic` | `AtomicPosting`: the engine implements the one-step `Post` of `Ledger` |
| | `AnswersTrue`, `AuditsAgree` | `AnswersAreTrue`, for the answers that stay and the denials when they are given; `NoFalseDrift` |
| | `ChainHolds` | `ChainVerifies`, if the minimum age covers what the horizon does not (`BeltHolds`) |
| | `LinesCompared`, `DecisionsPosted` | `LinesAreClassified`, `BooksMatchDecisions` |
| | `EndsBetweenStatements` | `StopsCleanly`, for any jobs, requests and size of pools |

Assumptions. `OpeningAssumption`, `PayoutAssumption`, `RefundAssumption`,
`DisputeAssumption`, `ConfirmationAssumption`, `CheckoutAssumption`,
`QueueAssumption` and `EngineAssumption` are ASSUMEs of their modules and say
what kind of value a constant is. `FreshPayouts`, `FreshRefunds` and
`FinitelyManyIntents` say that a table has finitely many rows and that no money
was held for one before it. `FrontDoorAssumption` collects those of the machines
behind the front door. TLC evaluates all of them. Some theorems have a
hypothesis more, one of four: `LeaseHolds` (a drive ends within five minutes, which the code
does not enforce and which `PayoutsDoubleDrive` breaks), `ReferencesKept` (which
`DisputesHeldTwice` breaks), `~EarlyRotation` (an operator waits for the end of the
overlap window; the code keeps one previous secret, so a second rotation inside
the window drops the one the receiver may still hold) and `BeltHolds` (a posting
that a candidate's horizon does not cover ends within 60 s, which no timeout
guarantees and without which `ChainSealedEarly` fails). The passing runs have all
four.

*Ledger.* `LedgerProofs` has the facts the others cite: what a two-legged
movement does to every account (`MovementApplied`), what debits and credits are
worth on a liability, and that a covered posting leaves the guarded accounts at
zero or above (`CoveredPosting`). A sum over rows, `Total(amounts, S)`, is the
number of units in them: the size of the set of pairs of a row and one of its
units. Sums are so read off the library's theorems about cardinality, where a fold
would need an induction: what a row adds to a sum (`TotalAdd`), what a changed
amount changes (`TotalUpdate`), and that fewer rows add up to less
(`TotalMonotone`).

*Payouts.* `JournalAgrees` is not inductive: nothing in it says that a process
about to record an outcome holds a payout whose money has been emitted. `Inv`
adds what a process knows by where it stands (`WorkerInv`), that an insert
happens over a row that does not exist because one process has it in hand
(`OneRequest`), and that rows carry legal amounts (`AmountInv`). It holds
whatever `LeaseHolds` is: the argument rests on the idempotency keys and the
transition table, not on time. With the lease, `DriveInv` adds who owns a payout:
one process at a time drives or has claimed it (`OneOwner`, `ClaimsStand`), a
payout owned is recent, so nobody else may claim it (`OwnedIsRecent`), and its
owner knows what the bank has heard (`OwnerKnows`). The sum in transit then
follows posting by posting. The refinement has a lemma per kind of step: an
emission is a `Hold`, a settlement a `Commit`, a failed payout a `Return`,
everything else a stutter, among them every posting whose key is replayed.

*Refunds.* `Inv` says where the executor and whoever resolves stand
(`ExecutorInv`, `ResolverInv`), which postings a status implies (`JournalInv`),
and that the provider hears of a refund after its money was reserved
(`SentAfterRequest`). The bound of `RefundsAreBooked` rests on a sum that is
checked at the request, under the intent's lock, and is only kept because what
succeeds was counted there.

*Disputes.* `Inv` adds what a row's existence implies (`RowInv`) and what a
handler carries (`HandlerInv`). `HeldOnce` is proved from `FoundByCause`: a row
is found under the reference it was opened with, which is exactly what
`ReferencesKept` preserves and the run `DisputesHeldTwice` breaks.

*Confirmation and checkout.* `OneCharge` needs `OwnInv`: an attempt exists only
over an intent that has left `created` for good, and no two attempts name one
intent. `OutcomeIsVerified` needs `WordInv`: what each process knows of the
provider, by where it stands, stays true until it is recorded. An executor that
has not submitted yet finds the provider `unsent`, so nobody else can have
closed its attempt. `SessionOutcome` follows from `PaidInv` and from
`CapturedStays`: a session may act on an old read because a capture is never
taken back. `BookedTogether` is read attempt by attempt (`AgreeInv`): with one
attempt to an intent, the two rows move through one transition and the key of
the capture is posted with it. `SplitInv` then follows the three accounts of a
capture, whose three legs add an intent to each of the sums.

*Delivery.* The refinement rests on `BudgetInv` (tries begun and attempts left
fit in the budget, also across replays) and `ClaimInv` (a claim is one of the
tries of its event also after its lease was lost, and where a worker stands
tells what it did with the event). A late worker's write is a step of
`AtLeastOnce` or a stutter because it says `AND status = 'pending'` and because
its own attempt number, not the row's, tells it to give up. `NothingLost` needs
that a claim counts an attempt its row has made (`ClaimsCounted`): only so is a row
that dies for the last attempt of a late claim one that had its last attempt.
`SignedForReceiver` needs that the receiver is at most one rotation behind and
only within the window (`ReceiverInv`).

*Front door.* The history of guesses is bounded by the counter of the row, which
never rests at the limit (`CounterInv`). That no code counts twice needs
`UsedInv`: the codes accepted belong to secrets already enrolled, none of the
active one is later than its `last` step, and an accepted backup code is gone.
Of the keys, `KeyInv`: the fleet is never more than one configuration apart, and
once the check of the sweep has passed nothing is under the old key nor is a
process left that writes under it. Of requests, whoever is in the handler is
alone there and the key is absent, and a key stands for the one effect of its
life. Of the onboarding, `LockInv`: a tab that counted no merchant holds the
lock, so there is none until it has inserted its own. Of the forms, that a click
has a first request and at most one retry, which leaves over an answer "step-up"
that has arrived (`TwoPerClick`), and that while a modal is open, or a password
under way, its click has only the first (`OpenKnows`); once per confirmation
follows from the key (`EffectKnows`). Of the limits, `Spans`: the hits of a
window's length are those of the window that runs, at most the quota, and those
of the one before it, fewer than the quota because the first of them has already
been forgotten. Counting them takes a set of hits again instead of a sum.
Of the records, `RecordsInv` goes step by step through a transaction: where it
stands fits its operation (`StagesFit`); the ids in hand and in the log are
all different and below the sequence (`IdsDiffer`); a row, and the creation of
merchants, has one holder (`OneHolder`), and its holder's `old` is what is still
committed and its `new` what the statement makes of it (`HolderKnows`). Only then
is the log in step with the rows (`TrailInv`): the holder of a merchant takes its
id while it holds the row, so among the events of one row, though not among those
of two, the order of the ids is that of the commits. `Seers` and `Walked` carry
the two readers: one that was let in had begun before the end, and a page that
was full left its cursor above everything it did not show.

*Back office.* That statements make one posting (`EngineInv`) needs that a
transaction in flight is alone with its key and with the original it reverses
(`AloneInFlight`), that an account has one holder and a posting holds its accounts
before it reads (`LocksHeld`), and that projections are the sums of the entries
(`SumsAgree`): what an auditor summed under the lock is the sum still when it
compares. A denial is true because whoever has not posted knows it: a call that
holds its key finds it unposted, one that was told of another posting under its
key is not denied but answered a conflict, and of a reversal there is one per
original (`UndoneOnce`), so that the one a refused call found is another's.
What it is short of it computed from sums read under the locks it still holds.
The chain verifies (`ChainInv`) because what is sealed is settled: no open
transaction has an entry below the tip (`TipSettled`). Between the two runs that
takes belt and horizon: when a candidate ages, `BeltHolds` leaves none of the
`Uncovered` open, no entry in its range is inserted any more, and so every open
posting in it has an id below the horizon (`CandidateCovers`), which waits for
those, across a restore that starts the transaction ids again too. The report's invariant
(`ReportInv`) says that the sweep's snapshot shows what has not
committed since (`SnapshotHolds`), and that an approval that has taken its
adjustment is alone with it (`Approvals`, `OneLive`). The attempt to prove it
found a flaw in an earlier form of the model: `Class` had CASE arms that
overlapped, which TLC reads in order and TLA+ does not, so that the class of a
line was not defined by the text; it is now. Likewise `SUBSET S \ T`, which
the two tools group differently, has its parentheses everywhere.

A process ends between statements (`ProcessInv`) because the worker ends
every pool its cycles use, so that an exit waits for whoever holds a connection
(`UsesFacts`, `HeldPools`), and because what is stopped has no interval to begin
with (`StoppedHasNoTimer`), though the boot may come after the stop.

*Left to TLC.* Liveness (`PayoutsMoveOn`, `SessionsMoveOn`, `EveryEventSettles`,
`RowEndsOrIsZombie`, `EveryCallEnds`, `EntriesAreAnchored`, `EveryoneIsServed`),
which needs fairness and ENABLED. Every invariant, every action property and
every refinement that a passing run checks has a proof. No run checks the type invariants by themselves: those of the payment services are proved, and the
rest would only repeat what every other property already evaluates.

## 5. Where the code and its documents disagree

Each is a run that violates one property stating what the document says.

* `PayoutsDoubleDrive`: 0035 and `payouts-redriver.ts` say two workers never
  drive one payout at once. The lease is checked when claimed and never again,
  so a drive of more than five minutes is joined by another. It takes a stall:
  20 rows of a batch at 10 s each stay below five minutes. `PayoutsLease` shows
  it cannot happen without one; the theorems, which do not assume the lease,
  that the money still leaves once and has one fate. `ReturnedMeansNotPaid` is
  lost: a first answer may return money that the second drive got paid.
* `RefundsOver`: "sum of refunds not failed <= captured" does not count those
  that are `indeterminate`.
* `ConfirmationLost`: the inbox gives up after about two minutes, the sweep
  that unblocks the attempt waits five. A crash inside the provider's call
  therefore ends an approved charge in a dead event.
* `DisputesHeldTwice`: a verdict overwrites the reference that made the opening
  idempotent, so a repeated opening holds the money again.
* `ChainSealedEarly`: 0042:18-26 says that a candidate is sealed when every
  transaction that was under way at its registration has ended, and that a false
  alarm of check [7] is "imposible por construcción"; the checkpointer's comment
  and the test of the horizon repeat it. The horizon is one past the highest
  *completed* id. Transactions 1 and 2 begin, 2 inserts `seq` 1, 1 inserts `seq` 2
  and commits; the candidate is up to 2 with horizon 2, which transaction 2 is
  not below. Its entry is sealed out, and its commit makes the chain fail. Only
  the minimum age of 60 s, which 0042 calls an additional belt, prevents it.

Observed while modelling and left without a run: sessions compare with
`succeeded` only (0024:44, `checkout.ts:338`), so a session whose intent was paid
and then refunded before anybody looked expires; a line that commits while the
report sweep is under way stays without an entry (0028:18 says both closings
classify alike), which `LinesAreClassified` excepts by name; the button of
`CreateApiKeyForm` works while its step-up modal is open, so that two presses may
create two keys and the secret of one be replaced on the page before it was read
(`OneAnswerAwaited` excepts that form by its phases); the SDK says a retry is
safe (`sdk/src/index.ts:8`), which holds for retries of a call with a key of the
caller's own: without one every call draws a new key; an erasure of a customer is told again
each time it is repeated, although `customers.ts:163-166` says it is not;
a second signal breaks the worker's shutdown off (`Lifecycle`);
and `pricing.ts:30` calls the fee rounded by largest remainder, whereas
`money.ts:163` gives the remainder to the first share, which is the fee (the
comment at `money.ts:142` says so and that it is on purpose): it is the product
rounded up, 1 on an amount of 1, for which `capturePayment` (`posting.ts:241`)
throws after the provider has approved (`FeesAddUp` in `MCCheckout` states the
rounding).

## 6. Not modelled

* Postings with no caller in the repository: `releaseSettlement`, `holdReserve`,
  `releaseReserve`.
* Members and roles: single statements without a protocol.
* Several tenants and currencies: row-level security is a filter of the
  database; no decision of the code crosses tenants.
* The audit rows of payments, accounts and cases: appended inside the
  transactions modelled, in the way `Records` has it, and read by no decision.
* The order of the API's hooks, parsing, schemas and error formats: sequential
  and pure.
* What the gauges of the worker say (dispute and idempotency health, drift
  reports, metrics, heartbeat): they change nothing but counters. That their
  jobs run and stop is in `Lifecycle`.
* Hashing, encryption beyond which key opens what, address filters, formatting,
  the rest of the configuration, seeds, drills, the pages that only read, and the
  resource methods of the SDK: pure functions or I/O.

The map of `PROJECT.json` names about three tenths of the lines of the
implementation. The rest is largely the last two groups: user interface texts
and views, clients, configuration, schemas, wiring and operational drills, which
have no state of their own for a model to hold.
