# Npcink AI Cloud: verification project

TLA+ models of the parts of Npcink AI Cloud whose correctness depends on the order
in which several processes touch the same rows: the life of a hosted run, the
delivery of its terminal callback, the spend fuse in front of the providers, the
money of credit packs, the media artifacts whose bytes and rows live in two stores,
and the receipts that make Portal mutations idempotent. TLC checks the models on small
instances; TLAPS proves the most important of the checked properties for every
instance.

- [The system](#the-system)
- [Modules and the code they model](#modules-and-the-code-they-model)
- [Runs: what is checked, and with which bounds](#runs)
- [Fairness](#fairness)
- [What the checks found](#what-the-checks-found)
- [Proofs](#proofs)
- [Abstractions and assumptions](#abstractions-and-assumptions)
- [Plan](#plan)
- [Running it](#running-it)

## The system

The service is a FastAPI application and a handful of background workers
(`app/workers/`: `runtime_queue`, `callback_dispatch`, `ops_cadence`,
`catalog_refresh`) over one SQL database. Processes share nothing but that database,
a Redis list that carries wake-up signals, and an artifact store. The database runs
at READ COMMITTED. Most handlers load ORM entities, decide on the loaded copy and let
the session flush: the UPDATE names the columns whose value *changed in memory* and
the primary key, without a version column. A few places lock (`SELECT ... FOR
UPDATE`) or use a guarded `UPDATE ... WHERE status = ...`. Which of the three a
handler uses decides what can go wrong in it, so the models keep that distinction
everywhere.

### Components

| component | state | operations | interacts with | what is hard | what makes it correct |
|---|---|---|---|---|---|
| **run lifecycle** (`domain/runtime/run_lifecycle.py`, `service.py`, `provider_execution.py`, `runtime_repository.py`) | one `run_records` row per (site, idempotency key) | execute, claim, defer, finish, fail, cancel, repair, auto-fail, purge | admission, queue, provider calls, callbacks | unlocked read–write windows around a provider call of minutes; crashes between checkpoint and answer | one execution per key; an outcome is coherent, complete and final in kind; a stuck inline run is closed |
| **callback delivery** (`callback_delivery.py`, `workers/callback_dispatch.py`) | `callback_*` columns | list, claim, send, resolve retry, mark, reclaim, redeliver | closing a run; HTTP endpoints of sites | two workers, a lease an endpoint may outlast, crashes, listing window | delivered means accepted, given up only for cause, a scheduled callback settles |
| **provider spend budget and candidate chain** (`provider_budget.py`, `provider_execution.py`) | day/month counters, one claim per dispatch and period | claim, checkpoint, call, reconcile, retry, fall back | one execution of a run | locks held across attempts, midnight, reused claims | counters equal claims, reservations stay in the limit, every call is reserved, no lock cycle |
| **credit packs** (`mixins/_payment_mixin.py`, `commercial_credit_repository.py`) | orders, refunds, paid grants, ledger | create, pay, expire, cancel, spend, refund, query | gateway notifications, run usage | lost and repeated gateway answers, expiry without a lock, spending racing a refund | credits conserved, no double refund, timely payment credited, settled refund recorded or queried until its queries are used up |
| runtime queue and wake-ups (`adapters/queue`, `workers/runtime_queue.py`) | Redis list | push, pop, poll | claims of RunLifecycle | a run no worker can load, starvation | planned |
| commercial admission and usage (`mixins/_runtime_mixin.py`) | usage events, limits | authorize, record usage | execute requests | counts and estimates read without a lock | planned |
| subscriptions, billing and trials | subscriptions, cycles | activate, renew, revoke | paid and refunded orders | repeated notifications | planned |
| **media artifacts: publication and purge** (`domain/media_artifacts/publication.py`, `delivery.py`, `lifecycle.py`) | artifact rows, delivery rows, bytes in a store | publish, commit or roll back, pull, complete, acknowledge, claim for purge, delete, record | results of runs, reconciliation | bytes and row are two stores; a commit of unknown outcome; a purge overtaken by its successor | an available artifact has its bytes; a purge closes its deliveries; an acknowledgement proves a transfer; an expired artifact is purged once |
| **media artifacts: orphan reconciliation** (`orphan_reconciliation.py`) | one pass, candidate rows | list, observe, claim, re-check, delete, record | the store's lock, shared with publication | the object gets its row while it is being judged; passes of dead reconcilers | no bytes of a row are deleted; where cleanup is enabled (it is off by default), every orphan is |
| **portal idempotency receipts** (`portal_idempotency.py`, its middleware) | one receipt per principal and key | claim, replay, refuse, release, record, clean up, find the order again | every Portal mutation; orders | effect and receipt are two transactions; late holders | one executor per key, an effect keeps its key, answers agree |
| portal sessions and second factor | sessions, challenges | issue, verify, revoke | – | every write is under the factor's row lock | planned last |
| first installation (`app/setup`) | installer state files | begin, configure, complete | – | crash between steps | planned last |
| API authentication and replay receipts | nonce receipts | verify | all requests | one unique insert | not modelled: data |
| accounts, sites, API keys, support | their rows | CRUD | – | one transaction over rows nobody else writes | not modelled |
| site knowledge | index rows, external vectors | sync, search | runs | projection and ranking | not modelled: data |
| batch runtime, media batch plans | batches | plan, expand | runs | life of its runs is RunLifecycle | not modelled |
| web search, images, audio, content, connector features | – | feature payloads | runs | – | one abstract execution |
| provider connections, catalog, routing | configuration | select candidates | ProviderBudget takes the chain as a constant | – | not modelled |
| usage rollups, observability, diagnostics | summaries | read, roll up | reads others | – | not modelled |
| operations cadence, heartbeat, catalog refresh | timers | call others' cleanup | expiry, purge, reconciliation are actions of their modules | – | not modelled |
| operator scripts, re-encryption | – | one-shot commands | – | run in a maintenance window | not modelled |
| frontend, deployment, migrations | – | – | – | – | not modelled |

`PROJECT.json` lists the same components with their source files, and the hazards of
the code at their lines, with the properties that cover each of them.

### How the modelled components fit together

```
  execute ──► run_records row ──► claim/inline execution ──► terminal write ──► callback
              (RunLifecycle)        │                          (RunLifecycle)     (CallbackDelivery)
                                    ▼
                         candidate chain: claim budget, checkpoint, call, reconcile
                                    (ProviderBudget)
                                    │ usage
                                    ▼
                         spending of paid credits  ◄── orders, refunds (CreditPacks)

  ArtifactPublication ──► OrphanReconciliation     (bytes whose transaction left no row)
          └─────────────► MediaDelivery            (rows with bytes: pulls and purge)

  Portal request ──► receipt of its key ──► mutation, e.g. an order   (PortalIdempotency)
```

RunLifecycle implements RunContract. CallbackDelivery takes the closing of a run
(first and late terminal writes) from RunLifecycle as its action `CloseRun`, and
RunLifecycle sees the whole of CallbackDelivery as its one action
`DeliverCallback`. What each takes for granted of the other is CallbackContract, which
both implement. ProviderBudget is the inside of one execution: RunLifecycle's
`calling` / `retrying` phases. CreditPacks' spending is caused by the usage of runs.
OrphanReconciliation and MediaDelivery both extend ArtifactPublication: the first sees
the keys whose row is missing, the second those whose row exists, and neither acts on
the other's, so they are checked apart. The order of PortalIdempotency is
the one `Create` of CreditPacks inserts.

## Modules and the code they model

| module | lines | models |
|---|---|---|
| `RunContract` | 54 | what the run API promises the holder of an idempotency key (abstract) |
| `CallbackContract` | 44 | what the writers of a run and the callback workers rely on in each other (abstract) |
| `RunLifecycle` | 521 | the run row and all its writers |
| `CallbackDelivery` | 371 | callback columns and callback workers |
| `ProviderBudget` | 395 | spend counters, claims and the candidate chain |
| `CreditPacks` | 482 | orders, refunds, paid grants, ledger, gateway |
| `ArtifactPublication` | 118 | bytes and row of an artifact, and every way its transaction can end |
| `OrphanReconciliation` | 421 | ArtifactPublication with passes, candidates and fenced deletion |
| `MediaDelivery` | 303 | ArtifactPublication with pulls, acknowledgements and the purge |
| `PortalIdempotency` | 308 | the receipt of one key, the requests under it, the order |
| `MC…` | – | TLC instances: symmetry sets, chains and limits |
| `SumTheorems` | 406 | no code: sums over finite sets, for the proofs about counters and ledgers |
| `…Proofs` | – | theorems: one module per component |

`PROJECT.json` "map" gives the source lines of every definition. Definitions whose
comment begins with "Mutated:" are not part of the model: each is the form an action
or operator would have after a plausible bug, and each property of a passing run is
violated by one of them.

### RunLifecycle

State: `row[r]` is the committed row: status, error code, and whether a result, an
encrypted input, a cancel request, a retention deadline and a purge stamp are
present, and the callback status as far as the run's writers see it. `sess[s]` is
what a process holds between two transactions, in particular `loaded`, its ORM copy.
`executed[r]` is history: how often an execution of the run reached a provider.

`Flush(db, loaded, new)` is the ORM's write: a column of `new` that equals `loaded`
is not part of the UPDATE. This operator is the heart of the module, since every
surprising behaviour comes from the columns it leaves out.

| code | actions |
|---|---|
| `execute`: replay lookup, insert under the unique key, inline execution | `Admit`, `CreateConflict`, `CreateQueued`, `CreateInline`, `CreateFailed` |
| `claim_queued_run` (guarded UPDATE) and the worker's processing, `defer_run_until` | `ClaimAndCall`, `ClaimAndFail`, `ClaimAndDefer` |
| the candidate chain's terminal writes, retry, `cancel_if_requested` | `Succeed`, `Fail`, `NextAttempt`, `StopCanceled`, `CallAgain` |
| `cancel_run`, `repair_run`, retention cleanup (read, then write) | `CancelRead`/`CancelWrite`, `MarkRead`/`MarkWrite`, `PurgeRead`/`PurgeWrite` |
| auto-fail of stale inline runs (under `FOR UPDATE`) | `AutoFail` |
| the callback workers, recovery and redelivery, all in one | `DeliverCallback` |
| process death, exception | `Crash` |
| clocks | `GrowOld`, `WindowOpens` |

### RunContract

`shown[r]` is what polling tells (absent, open, or an outcome), `starts[r]` how often
the work was handed to a provider. The contract: a key is accepted at most once,
started at most once and only while open, closed for good, and reported as succeeded
only if it was started. It deliberately does not promise that the *kind* of outcome
is final, because the code does not keep that (see below). RunLifecycle implements it
with `shown <- Shown(r)`, `starts <- executed` (property `KeepsContract`).

### CallbackContract

`closed[r]` is whether the run has an outcome, `told[r]` what its `callback_status`
says: not requested, pending (due, being sent or given up) or delivered. The contract:
nobody touches the callback of an open run; the first close asks for it if the run has a
target, and not otherwise; afterwards the request is never forgotten. It is what makes it
sound to check the two modules apart: RunLifecycle may replace all the workers by
`DeliverCallback`, and CallbackDelivery all the writers by `CloseRun`, because each of
these actions does what the contract leaves to the other side. Both modules have the
property `KeepsCallbacks`, with `closed` and `told` mapped to their own state. It states
`docs/runtime-provider-transaction-boundary-v1.md:77`: "Callbacks are scheduled only by
terminal transitions".

Delivery is not final in the contract, because it is not in the code: a late outcome, a
worker's late mark and a redelivery make a delivered callback pending again. Nor does a
late outcome always do so (see CallbackDelivery's `Rescheduled`).

### CallbackDelivery

State: the callback columns, `older` (the order of `finished_at`, which decides the
listing window), what each worker carries from listing to marking, and the history
of accepted and refused requests. `due` and `expired` abstract the timestamps.

| code | actions |
|---|---|
| `mark_run_*` scheduling the callback; a late one over a copy reloaded while it was pending (`run_lifecycle.py:200`), whose UPDATE leaves the status out | `CloseRun`, with `Scheduled` or `Rescheduled` |
| `list_due_callback_run_ids` (window, then filters) | `Listed`, `Due`, `ListDue` |
| `claim_callback_dispatch` (guarded UPDATE), invalid registration | `Claim`, `ClaimLost`, `ClaimInvalid` |
| the HTTP dispatcher and its error classes | `Accept`, `Refuse` |
| `_resolve_callback_retry_at`, the two marks (unconditional) | `ResolveRetry`, `Mark` |
| `reclaim_stale_callback_dispatches` | `Reclaim`, `LeaseExpires` |
| redelivery by operators and overdue handling (read, then write) | `RedeliverRead`, `RedeliverWrite` |

### ProviderBudget

State: `counter`/`draft`/`owner` are a row with its row lock: the committed value,
the value its locking transaction sees, and that transaction. `claims`/`drafted` are
the same for a run's claim rows. A chain works in one session that commits at the
checkpoint before each provider call and at its end, and nowhere else.

| code | actions |
|---|---|
| `claim`: existing claims reused, limits missing, counters locked day then month, limit check | `ClaimAgain`, `Unconfigured`, `StartClaim`, `Acquire`, `Reserve`, `Exceeded` |
| commit before provider I/O | `Checkpoint` |
| answer, known error, timeout, rejected preflight | `Attempted` |
| `reconcile`, then close, retry or fallback | `Acquire`, `Settle` |
| end of the chain | `Close` |
| database deadlock detection, process death, midnight | `Victim`, `Crash`, `NextDay` |

### CreditPacks

State: order, refund, grant and ledger rows; `trade` and `settlement` are the
gateway's side of an order and of a refund; `spent` is history. Row locks are
expressed by the state of the session that holds them (`OrderFree`, `GrantFree`); a
handler that takes its locks and commits without calling the gateway is one step.

| code | actions |
|---|---|
| `create_payment_order`, gateway checkout | `Create`, `Pay`, `BecomesDue` |
| expiry when listing or reading orders, and by the job (no lock) | `ExpireRead`, `ExpireWrite` |
| `cancel_account_payment_order` (holds the lock during the gateway call) | `CancelDue`, `CancelLock`, `CloseTrade`, `CancelCommit` |
| `mark_payment_order_paid` | `MarkPaid` (with `Credited`), `MarkLate` |
| `request_payment_refund`, gateway call, outcome | `RequestRefund`, `SendRefund`, `RefundConfirmed`, `RefundRejected`, `RefundUnanswered` |
| `mark_payment_refund_succeeded` | `Succeed` (in three actions: call, notification, query) |
| refund queries under a lease | `Query`, `QueryConfirmed`, `QueryUnanswered`, `QueryDue` |
| spending of paid grants | `SpendRead`, `SpendCommit` |
| process death, timeout | `GiveUp` |

### ArtifactPublication

State: `bytes` are the keys whose object is in the store, `row[k]` the status of the
row that refers to `k`, `phase[k]` the transaction that publishes it. The bytes are
written first, under the shared lock of the store; session listeners keep or delete
them by the outcome of the transaction. "limbo" is a COMMIT whose answer was lost: the
publisher has gone, the database has yet to decide.

| code | actions |
|---|---|
| `publish_and_track_artifact` | `Put` |
| the listeners after commit, rollback, unobserved outcome | `Commit`, `RollBack`, `CommitUnanswered`, then `LimboCommitted` or `LimboAborted` |
| bytes that cannot be deleted, death of the process | `LoseTrack` |

### OrphanReconciliation

State: the one running pass (`active`, its lease, what it has `scanned`), the candidate
row of each key, and what each reconciler holds: the `batch` of candidates its cleanup
selected and the one it is at. `CleanupEnabled` is the setting
`artifact_orphan_cleanup_enabled`, FALSE by default and in production (ADR 015); without
it a reconciler lists and completes passes, and deletes nothing. A candidate names its first and last
pass; the model keeps what the code asks of those names: running, newest completed,
older, or abandoned, and whether the first was completed a safety window before the
start of the pass that saw it last.

| code | actions |
|---|---|
| starting a pass over a free or lapsed lease, walking the store, completing it | `StartPass`, `Scan`, `CompletePass`, `StopPass` |
| `_select_cleanup_candidates`: the first `BatchSize` due keys in their order | `Select`, `NothingDue` |
| a busy lock, which ends the cleanup | `FenceBusy` |
| `_claim_one_candidate`, under the exclusive lock | `Skip`, `Dismiss`, `Claim` |
| re-check of the claim and references, conditional delete, recording | `Recheck`, `Delete`, `RecordDeleted`, `CleanupFails` |
| leases, clocks, death | `PassLapses`, `ClaimLapses`, `ObjectAges`, `EvidenceAges`, `Crash` |

### MediaDelivery

State: retention left (`life`), the purge claim of the row and its lease, delivery rows,
and where each request and purger stands.

| code | actions |
|---|---|
| pull: prepare, commit and expose the stream, complete, break off | `Prepare`, `Expose`, `Discard`, `Complete`, `BreakOff` |
| acknowledgement | `Acknowledge` |
| purge: claim with revocation, delete outside of a transaction, record over the own claim | `ClaimPurge`, `DeleteBytes`, `DeleteFails`, `FinalizeSuccess`, `FinalizeFailure` |
| clocks, leases, death | `Closes`, `Expires`, `DeadlinePasses`, `ClaimLapses`, `PurgerCrash` |

### PortalIdempotency

State: the receipt of one key, the order that carries the business key, and for each
request where it stands, the time it took on arrival, which expired receipt its cleanup
has selected, and what its client was told. `effects` and `recorded` are history.

| code | actions |
|---|---|
| cleanup of expired receipts (select, then delete by id) | `CleanupMarks`, `Cleanup` |
| claim of the key, taking over a spent receipt, replay, conflict | `Take`, `DropSpent`, `Replay`, `Refuse` |
| reconciliation of a lapsed receipt by the order routes | `Reconcile` |
| the mutation: any, one that places an order, one that finds it, one that is rejected | `Perform`, `PlaceOrder`, `FindOrder`, `Reject` |
| release of a key whose request did nothing; recording of the response, in full or as fallback | `Release`, `Record` |
| death, lost response | `Break` |

## Runs

All passing runs but `orphans` set `CHECK_DEADLOCK FALSE`: in those models the work is
finite (keys are used up, chains end, orders are settled), so the system really may
stop. Reconcilers never do, so `orphans` checks deadlock too: nobody waits on the
store's lock for ever.

| run | instance | states | shows |
|---|---|---|---|
| `offload` | 1 queued background run, 2 APIs, 2 workers, 2 consoles, 3 attempts | 12.7 k | racing creators, claimers, cancels, repairs and purges keep one execution (`AtMostOneExecution`), a success that was earned (`NoManufacturedSuccess`), one coherent outcome (`ClosedRowIsCoherent`: the code fits the status, the closed row is complete, a success has its result) and the contract (`KeepsContract`, which includes that nothing is reopened) |
| `inline` | 1 inline run, 2 APIs, 2 workers, 1 console, 3 attempts | 2 k | `KeepsCallbacks`: a run executed inside the request, where the auto-fail races the executor, asks for its callback at its first close; and `InlineRunResolves`: crash or silence, the run is closed |
| `callbacks` | 1 run with a target, 1 without, 2 workers, 1 console, 3 attempts, 2 outcomes, 1 crash | 317 k | `DeliveredIsAccepted`, `GivenUpForCause`, `KeepsCallbacks` (no worker touches an open run or one without a target), and liveness: `CallbackSettles` |
| `budget_safety` | 2 runs, one provider with two models, 1 retry, midnight | 533 k | `CounterIsSum`, `ReservedWithinLimit`, `CallsAreReserved` |
| `budget_locks` | 2 runs over three providers in one order, one of them without a limit, a repeated model | 42 k | `NeverAborted`: no lock cycle; `ChainEnds`: nobody waits for ever |
| `credit_packs` | 1 order, 2 refunds of part or all, 2 sessions, 2 queries | 215 k | `CreditsConserved`, `BooksAgree`, `NeverOverRefunded`, `CreditsArePaidFor`, `NoSpendingUnderRefund`, `ConfirmedRefundStays`, `TimelyPaymentIsCredited`, `SettledRefundIsPursued`: recorded, or queried as often as configured |
| `orphans` | 2 keys, 2 reconcilers, cleanup enabled, batch of 1, 1 fault | 355 k | `AvailableHasBytes`: no reconciler deletes the bytes of a row, whenever it commits; `OrphanIsRemoved`: once one process reconciles, every object without a row goes |
| `delivery` | 1 artifact, 2 pulls, 2 purgers, 2 faults | 6 k | `AvailableHasBytes`, `NoOpenDeliveryOfPurged`, `AckIsProof`, `PurgedForGood`, and liveness: `ExpiredIsPurged` |
| `portal` | 3 requests for 2 bodies, one of which places an order; lease 1, retention 2, 4 ticks | 225 k | `OneExecutor`, `EffectKeepsTheKey`, `AnswersAgree` |
| `callback_starved`, `budget_same_model`, `order_paid_then_expired` | small | – | three disagreements of code and documentation, [below](#what-the-checks-found) |

Why the bounds are enough:

- *One run (RunLifecycle).* A row is written only by sessions that work on it, and
  every rule is per run. What interacts are sessions of different kinds on one row,
  so the instances spend their states on sessions: two of each kind that can race
  with its own kind. Two attempts suffice to see retries; three allow a retry after
  a cancel was overlooked once.
- *Two callback workers, one crash, three attempts, two outcomes.* Each hazard needs
  at most two workers on one row, and the counter reaches its maximum with an
  attempt before and after it. The silent run is there to be listed and not sent; the
  window of 5 is the code's: a worker lists with `limit=1`, and
  `max(5, 5 * 1)` finished runs are looked at.
- *Two chains (ProviderBudget).* Limits of 3 a day and 4 a month with estimates of 2
  make the second reservation of a period fail, and an actual cost of 3 or 0 take the
  counter over the limit or release it. A lock cycle of two is the smallest one.
  `LastDay = 1` is one midnight between a claim and its reconciliation. In
  `budget_locks` the chains share one lock order on purpose; what happens otherwise is
  described [below](#what-the-checks-found).
- *One order, two refunds, price 2.* Refunds of different orders meet nowhere: rows
  and locks are per order. Two refunds of 1 or 2 give partial, full and excessive
  sums; with `MaxQueries = 2` a query can follow one that was not answered. The
  safety properties also hold in an instance of three sessions and one query (88 k
  states under symmetry), which is not kept because it shows nothing more.

- *Two keys, two reconcilers (OrphanReconciliation).* A pass can then be half done when
  its owner dies or is overtaken, and one key's publication holds the lock that the
  other key's deletion needs. The fault is a crash at any step, a failed recheck or
  deletion (before or after the unlink), or a lease that ends under a live holder; two
  reconcilers race only for the one pass and the one lock, and what one has selected goes
  stale while the other works or lists. A batch of one is smaller than what may be due, so
  the higher key has to wait for the lower one, also while the lower one fails and is
  tried again. The same properties hold with two faults and batches of one and of two (1.05
  and 1.14 M states, four minutes), which is not kept because it shows nothing more. The
  cleanup is enabled: without it `CompletePass` ends a reconciler's work and nothing is
  deleted. The theorems cover both settings.
- *One artifact, two pulls, two purgers (MediaDelivery).* Artifacts meet nowhere. Two
  faults let the first purger crash or be late and the second fail; two pulls are one
  acknowledged before the claim and one open at it.
- *Three requests, four ticks (PortalIdempotency).* A holder, its retry, and one that
  comes after the receipt is spent; a lease of one tick runs out under a holder, and
  after a retention of two a key is used a second time, with one tick left.

## Fairness

| module | fair | because |
|---|---|---|
| RunLifecycle (`FairSpec`) | `WF AutoFail`, `SF GrowOld`, `WF ConsoleEnd` | the runtime queue worker runs the auto-fail in every iteration of its loop; time passes, however often consoles come and go (hence strong); a console request writes or dies. Executors are *not* fair: they may crash or wait for ever |
| CallbackDelivery | `WF WorkerStep`, `WF Reclaim`, `WF LeaseExpires`, `WF BecomesDue` | the worker loop polls, its HTTP client has a timeout, leases and back-offs are times. An endpoint need not accept, a run need not close, a console need not act; crashes are bounded by `MaxCrashes` |
| ProviderBudget | `WF ChainStep` | a session goes on, and a provider call ends at its timeout. A chain may still die (`Crash`), which ends it |
| OrphanReconciliation | `WF Work`, `WF` of clocks and leases, `WF EndTransaction` | the cadence runs the reconcilers, transactions end. Nothing is assumed of the lock or of the key a cleanup comes to: a reconciler that finds the lock taken leaves the rest of its batch, and keys come in their order. That only one process reconciles in the end, as in production (one `ops-worker` in `docker-compose.prod.yml`), is a hypothesis of `OrphanIsRemoved` (`OneReconciles`): without it TLC finds the lockstep described [below](#what-the-checks-found) |
| MediaDelivery | `WF Purge`, `WF ClaimLapses` | the cadence runs the cleanup, leases are times. No pull and no acknowledgement is assumed |
| PortalIdempotency | none | nothing is promised to happen: a client may never come back |
| CreditPacks | `SF MarkPaid`, `SF` of some session's `Query` for each refund, `WF QueryDue`, `WF GiveUp` | the gateway repeats the notification of a payment until it is acknowledged, so it meets a moment in which the row is not locked (hence strong). The cadence runs `reconcile_payment_refunds`; its select (`commercial_payment_queries.py:165`) drops refunds that are leased, waiting or without queries left *before* its limit and takes the oldest, and every query takes its refund out of the front, so each one gets its turn (strong, because a query waits for the row's lock and the lease of the one before). Leases are times, a session ends at its HTTP timeout at the latest. No refund notification is assumed: `create_refund` asks for none (`payment_gateways.py:421`), and a callback that is not understood as a success is acknowledged and ignored (`open.py:145`). No spending or expiry is assumed either |

## What the checks found

Each is a run whose single property TLC refutes; the property is a sentence of the
repository's documentation or tests, quoted in `PROJECT.json` "findings".

1. **Runs without a callback starve those with one** (`callback_starved`). The
   listing cuts its window in SQL and drops runs without a target afterwards, in
   Python. Such runs keep `not_requested` for ever, so five older ones fill every
   window of size five.
2. **A call on somebody else's reservation** (`budget_same_model`). The dispatch key
   has the model, not the instance. A fallback to another instance of the same model
   finds the reconciled claims of the first and is dispatched without a reservation.
3. **A paid order is shown as expired** (`order_paid_then_expired`). Expiry reads
   pending orders without a lock and writes them by primary key, over a payment
   committed in between. The credits stay granted, but the order can no longer be
   refunded, until the gateway happens to repeat its notification.

Behaviours the models contain that no run refutes, most of them because nothing promises
otherwise or the code's intention is open:

- An executor that reloads its run before a retry, after a cancel request closed it,
  goes on with a copy that is terminal already. Its own close then changes no
  `callback_status`; if the callback of the first outcome was delivered in between, the
  second is not announced. `docs/runtime-provider-transaction-boundary-v1.md:77` speaks
  of terminal transitions, and not of one that follows another.
- Reconciliation leaves the failed attempt's counters locked until the next commit, and
  the fallback's claim comes before it. Two runs that fall back in opposite provider
  orders deadlock; the victim loses its evidence and its fallback. (Give `Chain` two
  opposite orders in `MCProviderBudget` and check `NeverAborted`.)
- A provider that answers after the auto-fail or a cancel turns the failed or
  canceled run into a succeeded one (`provider_execution.py:549`), and a cancel that
  races the end of a run turns a finished run into a canceled one
  (`run_lifecycle.py:499`). RunContract therefore leaves the kind of outcome open.
- A success over a canceled row can keep the error code `runtime.canceled`, and a
  late success after a purge has a result together with `result_purged_at`.
- A late terminal write while the first callback is being sent reschedules it, and
  the unconditional `delivered` mark then hides the second outcome.
- A query that overlaps a refund call makes a definitively rejected refund `unknown`
  again, and its grant frozen (`_payment_mixin.py:1645`).
- A refund whose queries are used up stays `unknown`, and its grant frozen, for manual
  review (`docs/payment-gateway-contract-v1.md:104`), even if the gateway settled it,
  unless a notification happens to arrive. If the worker dies in the last query, nothing marks the
  refund as exhausted, because the select does not return it again, and if nobody got an
  answer before, its status still is `requested`.
- Two partial refunds that return everything leave the order `paid`
  (`_payment_mixin.py:2056`).
- Orphan reconciliation rests on two fences: the exclusive lock keeps running
  publications out, and the age of the object those whose commit was not answered. Each
  is needed for `AvailableHasBytes`. The two checks for a row, at the claim and before
  the deletion, are each redundant while the other one is made.
- A reconciler that dies between the deletion of an object and its record leaves a
  claim for ever. A cleanup selects only candidates that the newest pass has listed, every
  cleanup comes after a new pass (`orphan_reconciliation.py:161`), and no later pass lists
  the object, so the stale claim is not selected again. A deletion that raises after its
  unlink leaves a `retry_wait` row in the same way. Only the record is wrong: the bytes are
  gone as they should be. ADR 015:82 says that "the next stale claim converges"; its test
  (`test_media_artifact_orphan_reconciliation.py:786`) calls the cleanup twice with no pass
  in between. (Check `UnlinkedIsRecorded` in place of `OrphanIsRemoved`, with one key and
  one reconciler.)
- What can keep an orphan for ever although cleanup is enabled: lower keys, as many as a
  batch holds, whose deletion fails at every try, since the batch is taken in the order of
  the keys; publications that hold the lock at every cleanup, since a busy lock ends it;
  and a second reconciler in lockstep, which lists a key between the first one's pass and
  its select, so that neither finds a candidate of the newest completed pass.
  `OrphanIsRemoved` excludes these by finitely many faults, finitely many keys, and
  `OneReconciles`.
- A pass that is abandoned voids the evidence gathered in it, so a reconciler that keeps
  dying in its passes postpones a deletion each time by a safety window.
- A Portal mutation that dies between its commit and its receipt leaves the receipt
  indeterminate. For order routes, a repeated request finds the order and is answered;
  for any other mutation the receipt stays, and the key is refused for ever. ADR 017
  speaks of an operator who reconciles such keys, and no command for it exists in `app/`.

## Proofs

All theorems are of `Spec`, without fairness, for every value of the constants that
satisfies the named assumption of the module (`ConstantsAssumption`,
`BudgetAssumption`, `CreditPackAssumption`, `DeliveryAssumption`, `PortalAssumption`). These say that constants have their
types and that sets of runs, processes, orders and refunds that play different roles
are disjoint; none bounds their number. PortalIdempotency's also says what the service
settings guarantee, that the retention of a response is longer than the lease. Every proof follows one pattern:
`Init => IInv`, `IInv /\ [Next]_vars => IInv'` with one lemma per action or per
process, and `IInv => Inv`.

| module | theorems |
|---|---|
| `RunLifecycleProofs` | `TypeCorrect`, `ExecutedAtMostOnce`, `SuccessIsExecuted`, `ClosedForGood`, `ContractKept`, `OutcomeCoherent`, `CallbacksKept` |
| `CallbackDeliveryProofs` | `CallbackTypes`, `DeliveredWasAccepted`, `GivenUpWithCause`, `SilentNeverSent`, `CallbacksKept` |
| `ProviderBudgetProofs` | `BudgetTypes`, `NeverOverReserved`, `CountersAreSums`, `EveryCallIsReserved`, `NobodyAborted` |
| `CreditPacksProofs` | `CreditPackTypes`, `GrantsArePaid`, `RefundFreezesGrant`, `RefundIsFinal`, `CreditsAreConserved`, `BooksAlwaysAgree`, `NoOverRefund` |
| `SumTheorems` | `SumAdd`, `SumChange` and others: sums over finite sets |
| `OrphanReconciliationProofs` | `ReconciliationTypes`, `AvailableIsNeverReconciledAway` |
| `MediaDeliveryProofs` | `DeliveryTypes`, `AvailableCanBeRead`, `PurgeClosesDeliveries`, `AcknowledgedWasDelivered`, `PurgeIsFinal` |
| `PortalIdempotencyProofs` | `PortalTypes`, `ExecutesAlone`, `EffectIsKept`, `ClientsAgree` |

Why the inductive invariants say more than the properties:

- **RunLifecycle.** That a claim is a run's first execution follows from the status
  only if absent and queued runs were never executed (`NotYetExecuted`), and a success
  is earned only if a session that talks to a provider belongs to an executed run
  (`SessionsExecute`). `ContractKept` adds that a session at a row's write works on a
  row that exists (`SessionsHaveRows`); every step is then shown to move each run by
  a step of the contract or not at all (`StepMoves`, `MoveIsContractStep`).
- **The outcome of a run.** A session writes only what changed against its copy, so the
  row after two closes is a mixture. It fits together because of what the copy cannot be
  wrong about (`ColumnInv`): a closed copy's dropped input, retention and callback are
  those of the row (`Behind`); while a run has an executor, nobody else executes it
  (`ExecutorsAlone`), and its row is running, failed by a repair or canceled by a request
  that read it in the queue, never by both, because a repair waits until the run is old
  and no request keeps its copy that long (`ExecutorKnows`).
- **RunLifecycle and CallbackContract.** The column rules again: every write leaves the
  callback status of its copy alone, or closes the copy and schedules the callback
  (`Asks`). The UPDATE of a close still leaves the status out if the copy has it already,
  and a copy that says `pending` while its row is open would lose the request. There is
  none: a callback is only asked of closed rows (`AskedOfClosed`), and a session whose
  copy is closed works on a closed row (`CopiesClosed`).
- **CallbackDelivery.** A worker holds no lock while it sends. What makes its late
  mark right is that what it knows cannot be taken back: an acceptance, a permanent
  refusal and a used-up counter stay true of the row, whoever claims, reclaims,
  reschedules or marks it meanwhile (`NothingTakenBack`, `WorkersKnow`).
- **ProviderBudget.** A limit is kept by the lock discipline: a session writes only
  counters it owns, an unowned counter has no draft (`DraftsOwned`), a draft is
  within the limit or excused by an expensive call (`DraftsWithin`), excuses do not
  vanish (`SettledForGood`), and when a session is about to write it owns, or has
  still queued to lock, every counter of its dispatch (`Prepared`).
  `CountersAreSums` says of drafts what it says of counters: the draft of an owned
  counter is the sum of the claims as its owner sees them, its own uncommitted ones and
  the committed ones of the others (`DraftsSummed`); a claim that is still open costs its
  estimate (`OpenAtEstimate`), so a reconciliation never subtracts more than is there.
- **Calls and claims** (`DInv`). `EveryCallIsReserved` has the hypothesis
  `DistinctCandidates`: no chain names a model twice. Then no attempt that is still to
  come has a claim (`Fresh`), so a dispatch never meets the claims of another. The
  hypothesis is needed: `budget_same_model` is a chain without it.
- **Lock cycles** (`LInv`). `NobodyAborted` has two hypotheses: one day (`LastDay = 0`),
  and an order of the providers that every chain goes down (`GoesDown`; a chain may name
  a provider several times in a row). Then every session waits only for a counter below
  all those it holds, so waiting cannot close a cycle, of any length. Without either it
  can: two chains in opposite orders, or a retry after midnight, which locks the new
  day's counter while the month's is held.
- **CreditPacks.** `NoSpendingUnderRefund` needs that a session about to spend owns
  its grant and that the grant is as it was read (`Locked`), that a refund which
  failed was rejected by the gateway (`Underway`), and that only one session calls
  the gateway for a refund (`Alone`); types need that no grant gives more than it
  has (`Bounded`).
- **The books** (`BInv`). Conservation needs that a confirmed refund finds its credits
  unspent: a refund that is frozen and not rejected is one of an order from which nothing
  was ever spent (`Unspent`), and all refunds of an order that the gateway has settled or
  may settle stay within its price together (`Covered`), so each of them finds its part.
- **SumTheorems.** The library's sum is a recursive function that takes the elements in
  an order nobody knows, and the library's induction theorems cannot be used here. The
  strict subsets of a finite set are well-founded, though, and that fact needs no
  operator: each lemma takes a smallest subset for which it fails, and finds a smaller
  one (`SmallestSubset`).
- **OrphanReconciliation.** A candidate is older than the safety window
  (`CandidatesAreOld`), an old object does not wait for an unanswered commit
  (`OldIsSettled`), so under the exclusive lock its publication is decided
  (`HolderKnows`), and a decided publication without a row never gets one.
- **MediaDelivery.** A purger may be overtaken at any step; what stays true of the row it
  once claimed is that it never becomes available again and that deleted bytes are
  not written again (`PurgerKnows`).
- **PortalIdempotency.** Whoever executes holds the receipt as processing
  (`RequestKnows`); a completed receipt repeats the answer of the request that recorded
  it (`ReceiptIsOwned`); a cleanup only selects receipts past their retention; and every
  answer is backed by such a record or by the order (`AnswerIsBacked`), neither of
  which changes any more.

Only model-checked: all liveness (`InlineRunResolves`, `CallbackSettles`, `ChainEnds`,
`TimelyPaymentIsCredited`, `SettledRefundIsPursued`, `OrphanIsRemoved`,
`ExpiredIsPurged`): the prover does not reason about fairness and ENABLED. Every
safety property that a passing run checks is a theorem, `CallsAreReserved` and
`NeverAborted` under the hypotheses named above.

## Abstractions and assumptions

General: the database is READ COMMITTED; an ORM flush writes the columns that
changed in memory; a unique key makes the second insert fail and its transaction roll
back. Timestamps are abstracted to what is asked of them (due, expired, stale).
Payloads, wording, signing, metrics and audit records are left out.

- *RunLifecycle.* The feature branches of `service.py` are one execution that
  succeeds or fails. A console's window between read and write is shorter than the
  quarter of an hour after which a run counts as stale (`GrowOld` waits for it).
- *CallbackDelivery.* A mark is one transaction. The attempt counter saturates at the
  maximum, since the code only asks whether it is reached. Delivery itself is not
  promised: recovery is a bounded reclaim and a delivery guarantee is named as not
  implemented (`docs/legacy-contracts/.../hosted-model-runtime-v1.md:518-520`).
- *ProviderBudget.* Paid accounts only; limits are not edited during a run; a run's
  own claim rows are contended by nobody. Whether an error allows a fallback is left
  open. Costs are whole units instead of multiples of 1e-6 USD. The other entry
  points that use the same two calls (web search, probes, site knowledge, advisor)
  are left out.
- *CreditPacks.* Credits are counted in units of the price, so a refund takes back
  credits in proportion; the rounding to 1e-6 is left out. A gateway's rejection is
  final. The refund window and the grants' expiry only refuse, so they are left out;
  which grant is spent first is left open; a spending session's lock on frozen grants
  is left out, which allows more behaviours than the code. A subscription that ends
  stays ended. A query (10 s) is shorter than its lease (10 min). The delay before
  the next query is time, which any step may take. An answer "pending" from the
  refund call is `GiveUp` while answering. The internal mark-paid and mark-succeeded
  routes call the same handlers as the notifications. The simulated gateways and the
  activation of subscriptions by orders are left out.
- *ArtifactPublication.* Keys are fresh (uuid4), so nothing is overwritten. The signing of
  a pull, the generation marker of the store and the repair of its directories are left out.
- *OrphanReconciliation.* A commit whose answer was lost is decided before the object is
  a safety window old (at least an hour): the one assumption about time on which
  `AvailableHasBytes` rests. A lost claim is noticed when recording. Since keys are
  fresh, the conditional delete never finds another object. Keys
  are numbered in the order of the database. The delay before a failed deletion is tried
  again is time, which any step may take.
- *MediaDelivery.* A purge works on one artifact at a time; a batch is several. Retention
  has three classes, since a pull needs five minutes more than an acknowledgement.
- *PortalIdempotency.* One key of one principal. The four tries of a claim that meets a
  concurrent change are not exhausted. A stored response can be decrypted. Requests
  work with the time of their arrival, however late they are, as in the code.

## Plan

Done, in this order: RunContract and RunLifecycle with their proofs (the run is what
everything else hangs on), CallbackDelivery (what a run tells the outside),
ProviderBudget (what an execution costs the operator), CreditPacks (what it costs the
customer). Then the media artifacts, composed from their publication, and the
Portal's receipts with the order they find again; and the column-wise invariant of a
run's outcome. Then the proofs of the sums and of the lock order, and
the contract between the writers of a run and its callback workers: writing it down found
two places in which the models assumed of each other what neither did (RunLifecycle took
a delivery for final, CallbackDelivery took every late outcome to ask for a new callback).

Next:

1. **RuntimeQueue.** The polling loop around RunLifecycle's claim: the order in which
   queued runs are picked, wake-ups lost or repeated, a run that no worker can load
   (`service.py:2890`), per-site limits. Question: is a queued run claimed in the end?
2. **Admission.** Concurrent requests against `max_active_runs` and the credit
   balance.
3. Subscriptions: activation, renewal and revocation by paid and refunded orders.
4. A run for the rejected refund that becomes `unknown` again, against
   `docs/payment-gateway-contract-v1.md:120` ("A confirmed failure releases the
   freeze").
5. Installer: one at a time under a file lock, recovery of an interrupted attempt.
6. Proofs: the safety part of what the liveness runs rest on. `Reclaim` finds every
   dispatching row that nobody works on, every pending row with a target is due or
   becomes due, and every waiting chain waits for one that can go on.

### Not modelled, and why the models are small against the repository

Most of the 193 000 lines of implementation are feature payloads (search, site
knowledge, images, audio), HTTP routes that validate and project, administration
and reporting, and operator scripts. They change rows nobody else writes, or in one
transaction, and a model of them would restate assignments. The models map the lines
in which several processes meet. Each component that is left out is in the table
[above](#components) with its reason, and in `PROJECT.json`.

## Running it

```
tlc -workers 2 -config RunOffload.cfg MCRunLifecycle
tlapm RunLifecycleProofs.tla
```

`PROJECT.json` "runs" pairs every configuration with its module. The longest runs
take about a minute (`budget_safety`, `credit_packs`, `orphans`).
