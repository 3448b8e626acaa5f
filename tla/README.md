# A TLA+ model of Rustlavel's stateful core

Rustlavel is a web framework: about forty crates under `framework/crates`.
Most of them encode, parse, render or call somebody else's API, and a unit test
says what there is to say about them. A few keep state that several tasks or
processes change at once, survive crashes with it, and promise something that
an application's money depends on. Those are modelled here, checked with TLC
on small instances, and, where the prover reaches, proved with TLAPS.

File names below are relative to `framework/crates/<crate>/src`.

## 1. Inventory

### Parts with hard behaviour

| part | state it keeps | operations | what makes it hard | what makes it correct |
|---|---|---|---|---|
| **queue** (`rustlavel-queue`: `database.rs`, `worker.rs`, `job.rs`, `chain.rs`, `queue.rs`) | `jobs` and `failed_jobs` tables; what each worker holds; the shutdown flag | push, reserve, reclaim, delete, release, fail, clear; the worker loop; chains | workers in many processes, leases that expire under a running handler, workers that die, two databases' ideas of row ids | no attempt twice, no job lost, one live holder, chains go on, jobs settle, shutdown drains |
| **ledger** (`rustlavel-ledger`: `ledger.rs`, `account.rs`, `entry.rs`, `schema.rs`) | accounts, transfers with their entries, lots, holds | top_up, consume, hold, capture, release, sweep | concurrent transactions, row locks against snapshots, deadlock victims, retries with the same reference, a sweep next to everything | the book sums to zero, nobody overdraws, a hold is charged iff captured, lots are covered, what expires goes |
| **circuit breaker** (`rustlavel-client`: `breaker.rs`) | per host: a window of buckets, open/half-open, probe permits | acquire, report, drop of a permit, reset, the passing of time | calls that end after the circuit has changed under them, cancelled probes | it can always close again, and trips only on evidence |
| **webhook receiver** (`rustlavel-payment`: `receiver.rs`, `webhook.rs`, `database.rs`) | the log of seen events | record, the handler, withdraw | duplicated and overlapping deliveries, lost answers, crashing handlers | a finished handler never runs again; what was acknowledged was handled |
| **idempotency middleware** (`rustlavel-cache`: `idempotency.rs`, over `memory.rs`, `file.rs`, `redis/mod.rs`) | a counter and a stored answer per key, both with deadlines | claim, look up, run, store, let go | retries at any moment, two clocks, a two-step increment, a failing cache, panics | a key runs once per window, a replay is faithful, a 409 is true |
| **in-process queue and scheduler** (`rustlavel-queue`: `memory.rs`, `schedule.rs`, `cron.rs`, `time.rs`) | a list of entries and the dead letters; an overlap flag per event; the loop's last minute | the `Queue` trait; tick, run, next_after | runs that overlap, a loop that time overtakes, a search that jumps over days | keeps the queue's contract; an exclusive event never overlaps itself and never sticks; every minute is asked about once; the next run listed is the next run |
| **billing** (`rustlavel-billing`: `billing.rs`, `schema.rs`, `subscription.rs`) | subscriptions, invoices | subscribe, change_plan, cancel, cancel_now, renew, reissue, on_event, tick | callbacks against the tick and the customer; three stores in one operation | what is paid is credited and what is credited settles; nobody is served a period nobody paid for; a tick catches up |
| **OAuth provider** (`rustlavel-oauth-provider`: `endpoints/token.rs`, `endpoints/revoke.rs`, `server.rs`, `database.rs`) | codes, token families | authorize, exchange, refresh, revoke, purge | two requests with one code or token, four statements in a refresh | a grant has one live refresh token and one live access token; revocation is final |
| **model cache** (`rustlavel-model-cache`: `cache.rs`, `region.rs`) | entity and query entries, a generation per table | find, get, insert, update, delete, forget, invalidate | a reader overtaken by a writer, colliding fingerprints, a flushed store | an answer is of the SQL that was asked and holds every write finished before the question |
| **connection pool** (`rustlavel-db`: `pool.rs`, `credentials.rs`) | permits, idle connections, the generation of credentials | acquire, drop, close_idle, close, retire_superseded, rotate | credentials that rotate under a borrowed connection | within capacity; no connection of replaced credentials handed out; everyone is served |
| discovery (`rustlavel-discovery`: `registry.rs`, `replicate.rs`) | leases of instances | register, renew, cancel, expiry, replication | the registry's protective mode, peers that disagree | not modelled yet |
| vault leases, broadcasting, flags, rate limiter, gateway health, job progress | leases; subscribers; overrides; counters; target health; progress rows | renew, publish, set, attempt, probe, report | timers, bounded queues, caches | not modelled yet |

The remaining crates (HTTP server and router, core, auth, OAuth client,
webauthn, LDAP, RBAC, audit, mail, storage, search, OpenTelemetry, metrics,
telescope, debug bar, AI, MCP, validation, views, translations, OpenAPI,
charts, macros, the command line) are protocol implementations, encoders,
generators or sequential clients. `PROJECT.json` lists each with its reason.

### How the parts meet

* **Billing** is driven by the **webhook receiver** (its handler is
  `Billing::on_event`) and tops up the **ledger** with the invoice as reference:
  the receiver's "exactly once" and the ledger's "a reference moves value once"
  are each other's safety net. `Billing` uses exactly what the two promise: an event
  stays in `mail` until its handler succeeds or dies (a dead handler leaves the
  receiver's record, and the retry is a duplicate: `Strand`), and `topped` is a set of
  references.
* Applications run the **ledger's** `sweep` and billing's `tick` from the
  **scheduler**, on every process that runs one, hence two sweeps at once.
* The **scheduler** and handlers dispatch onto the **queue**; a worker may die at
  any await. `Scheduler` is composed with `MemoryQueue` in one module: what a tick
  starts pushes onto the queue that workers drain.
* Both queue drivers implement **`QueueContract`**, the promise of the `Queue`
  trait (`queue.rs`).
* The HTTP client, and the gateway through it, asks the **circuit breaker**
  before each call. A call that is cancelled drops its permit.
* The **idempotency middleware** stands in front of payment endpoints. The
  router catches panics outside it (`rustlavel-http/src/router.rs`), which is
  why a panic looks to it like a request that never ended.
* Queue, ledger, receiver, billing and tokens reach the database through `rustlavel-db`, whose
  dialects decide what a transaction means: which rows it locks, whether a plain
  read sees a snapshot, whether ids are reused. Those differences are
  parameters of the models.

## 2. Modules

One module per component, an `MC` module with its small instances, and a
`_proofs` module with its theorems (the receiver's are in `Idempotency_proofs`, the
pool's in `CircuitBreaker_proofs`, the memory driver's and those about cron
expressions in `Scheduler_proofs`). `PROJECT.json` maps every definition that
models code to its lines. Definitions called after a lower-case name of the
source (`draw_lots`, `next_in_chain`, `release_in`, `backoff`) are that function.
A definition whose comment begins with "Mutant" is a plausible bug in the
definition below it; the model does not use it. Each property comes with one
that breaks it, so that no property holds merely by the shape of the model.

An action is what happens between two awaits, or, inside a transaction, between
two statements that other transactions can come between; what a handler does
after its last such point belongs to the same action.

### `DatabaseQueue` (`database.rs`, `worker.rs`, `job.rs`, `chain.rs`, `queue.rs`)

`jobs` and `failed` are the two tables, `held` the `ReservedJob` in each worker's
hands, `locks` and `stamp` what an open transaction has locked and the `now` it
began with. A worker polls (`Poll`), selects a row with `skip locked` and commits
its `reserved_at` and `attempts + 1` (`ReserveSelect`, `ReserveCommit`), or finds
none; reclaims expired leases in batches (`ReclaimSelect`, `ReclaimCommit`); runs
the handler; and settles the row with `Delete`, `Release` or `Fail`, the delete
followed by the chain's next push (`PushNext`). `Interrupt` is a database error or
a killed worker at any of these points. `ReuseIds` is SQLite's id column;
`Prompt` restricts the model to handlers that finish within their lease.

Left out: payloads, queue names (one queue), the panic wrapper (a panic is an
`Err`), and the progress records.

### `Ledger` (`ledger.rs`, `account.rs`, `entry.rs`, `schema.rs`)

The six tables as functions of their references. A task calls (`Call`), begins
(`Begin`), passes or fails the guarded update (`Guard`, `Insufficient`), selects the
lots, and commits; a duplicate reference ends in `LoseRace`. `draw_lots` folds one turn
of its loop (`DrawOne`) over the lots that were selected, the one its sort puts last
(`LastOf`) after the others; which of two lots that expire together comes first is left
open. `ClaimHold`, `Charge`,
`CommitCapture` and `Release` move a hold; `Sweep` ... `SweepDone` is the sweep, one
transaction per lot with its reads and writes apart. `engine`, chosen at the start
among `Engines`, is what the database does: on `postgres` a plain read sees what is committed, on `mysql` it
sees the transaction's snapshot, on `sqlite` transactions run one at a time. Row
locks, waiting and deadlock victims (`Free`, `Wants`, `Deadlocked`, `Victim`) are
the database's and marked external.

Left out: `balance_after` in the entries, the history queries, and the width of
the amounts.

### `CircuitBreaker` (`breaker.rs`)

One host, since hosts share nothing. Instants are kept as ages: `Tick` makes
everything a bucket older. A call takes a permit (`Acquire`), plain or probe, and
reports or drops it later, when the circuit may have moved on. The history
variables record what was really reported in the last buckets, to compare with
what the circuit counted when it trips.

### `WebhookReceiver` (`receiver.rs`, `webhook.rs`, `database.rs`)

A gateway that posts an event until it hears a 200, deliveries that record,
handle, answer and withdraw, failing log calls, lost answers, panics and
restarts. `Durable` chooses between the database log and the memory log;
`Overlapping` are the events that the gateway resends before it has heard of the
last try.

Left out: signatures, checked before any state is touched.

### `Idempotency` (`idempotency.rs`, `memory.rs`, `redis/mod.rs`)

One key, since keys share nothing. `driver`, chosen at the start, is the cache
behind the middleware. `lock` is the counter with its deadline,
`answer` the stored response with its own. `Claim` is the increment of the memory and
file drivers, one step under a lock; `SetNx` and `IncrBy` are Redis's two round
trips. Then `handle` looks up (`Mismatch`, `Replay`, `Conflict`), or runs the handler
and stores the answer or lets go of the lock. Every cache call may fail
(`ClaimFails`, `LookupFails`, `PutFails`, `ForgetFails`), as the code allows for.
`Panic` is a request that is cut off in its handler. `Undisturbed` holds until the
first failing call or panic: `RunsOncePerWindow` and `ConflictMeansRunning` promise
something only that long, since the middleware runs a request unprotected, on
purpose, rather than refuse it when its cache fails. `Prompt` keeps the clock from
passing a handler's window or the cache calls that begin a request.

Left out: requests that the middleware passes on or refuses before its first
cache call, and an answer that cannot be thawed (`freeze` writes what `thaw` reads).

### `QueueContract` (`queue.rs`)

The abstract queue: for each id the attempts of its entry, the ids ever used, and
the dead letters. A push uses a fresh id; a pop hands out exactly the next attempt;
delete, fail and clear take an entry off for good; a dead letter is no entry any
more. It says nothing of leases, locks, order or time. `DatabaseQueue!KeepsContract`
and `MemoryQueue!KeepsContract` instantiate it with each driver's own state as the
refinement mapping: a row's `attempts`, or the attempts of the entry on the list or
in a worker's hands. A release, a reclaim and a handler are stuttering steps.

### `MemoryQueue`, `Cron` and `Scheduler` (`memory.rs`, `worker.rs`, `cron.rs`, `time.rs`, `schedule.rs`)

`MemoryQueue` is the list behind its mutex (`TakeId` and `Enqueue` are the two halves
of a push: the id comes from an atomic counter before the lock) and the workers that
drain it. `Cron` has no state: `Parse` turns the parts of an expression into sets,
`Matches` and `NextAfter` are `Cron::matches` and `Cron::next_after` over the calendar of
`time.rs`: months of their lengths, one of them longer in a leap year, leap years but
for the centuries that begin no era (`Leap`), the whole repeating with the era
(`MonthDays`, `Date`). The sizes are constants; those of the code are 4, 100 and 400
years and a limit of 1464 days, which is shorter than the eight years without a leap
day around 2100. A part `70/5` begins beyond its field and selects nothing, which
`parse_part` accepts (`PartParses`). `Scheduler` extends both. `Boot` is the compile before
the first tick, `Top`, `TickEvent`, `TickEnds`, `PlanWait`, `Sleep` and `Wake` are
the loop between its looks at the clock, `Claim` and `Spawn` the compare-and-exchange
and the task it starts, `DropGuard` the end of the task. The clock advances between
any two of these. `late` records the minutes the loop was in no position to ask
about, because it was busy or woken late.

Left out: queue names, delays, the 50 ms past the boundary, the fluent builders,
the year of a date (no field asks for it), and clocks that step back.

### `Billing` (`billing.rs`, `schema.rs`)

`subs` and `invs` are the two tables, `topped` the invoices whose credits the ledger
has, `payable` and `mail` the gateway's charges and the events it still has to
deliver. A call is a record of where a task is and what it read; `calls` holds one
for each task. Every statement is a step: a customer's request reads the row
(`ChangePlan`, `Cancel`, `CancelNow`, `Renew`, `Reissue`), lists and voids open
invoices (`ListOpen`, `Void`), updates the subscription (`SetPlan`, `SetNextPlan`,
`FinishCancel`), raises an invoice (`Exists`, `NextNumber`, `Raise`) and gives it a
charge (`CreateCharge`, `StoreCharge`; when the gateway refuses or the update fails,
`CreateFails` and `StoreFails`, the call goes on without). `OnEvent` leads to `TopUp` and `Settle`, or to
`Expire`, `LostCloses` and `LostForgets`. A tick goes through five loops
(`Selected` gives the rows of each, `Onward` the order) and uses the rows it selected,
however old. Cancelling a charge is best effort in the code, so `CancelCharge` may
or may not withdraw it. Any other call may end where it stands: `Fault` is a failing
statement, after which the receiver withdraws its record and the event comes again;
`Strand` is a panic or a dead process inside a handler, after which it does not.
`overtaken`, `doubled`, `astray` and `alone` are history, for what the properties
except: a payment that settled in the middle of another call or beside another open
invoice, a payment that was stranded or whose invoice was closed under it, and a tick
that has had no other call beside it and no charge refused. The clock advances
whatever is in flight; a call goes on with the time it read.

Left out: reminders (each is claimed by one insert under a unique index), prices,
channels, `is_served` and the other queries.

### `TokenFamily` (`endpoints/*.rs`, `server.rs`, `database.rs`)

The two token tables and the table of codes, as functions of the code that founded
the family and of the n-th pair of tokens. A request goes from `Exchange` (the
claim), through `Claimed`, to `StoreAccess` and `StoreRefresh`; or from `Refresh`
(the row as read) through `Rotate` (the compare-and-set) and `Retire`; the losers go
through `RevokeFamilyAccess` and `RevokeFamilyRefresh`, as the revoke endpoint does.
`dead` and `raced` are history: families a revocation went through, and those of
them that another request could still issue into.

Left out: client authentication, PKCE and scopes, which only decide between going on
and stopping (both are modelled), consent, introspection, the memory stores, and
`client_credentials`, whose tokens have no family to protect.

### `ModelCache` (`cache.rs`, `region.rs`)

One table. `row` holds the version of each row, `entity` and `entry` the cached
values, `generation` the table's counter. A `find` reads the entity, selects the
row and puts it; a `get` reads the generation, then the entry, runs the query, and
puts the result under the generation it read first; a write changes the row, drops
the entity, then bumps the generation. A statement is an SQL text with its bindings;
`Fingerprint` may give two of them one key, and what is compared on the way out
(`Usable`) is the `Text`, where bindings are placeholders. Keys leave the store when
they expire or are flushed. The memory driver flushes shard by shard, so a flush is
not one step: the keys of entities and results go as if they expired, at any time
around `FlushGeneration`, which clears the shard of the counter. `done` records the last write whose
bump is finished, `rowDone` for each row the last update or delete that dropped its
key (an insert drops none), and `overtaken` marks a value that was overtaken: between
its read and its put by a drop of its key, or by a flush that restarted the
generations.

Left out: the encoding of rows (one that cannot be encoded is not stored, which is
modelled) and statistics.

### `Pool` (`pool.rs`, `credentials.rs`, `config.rs`)

A task waits in line (`WaitForPermit`, `Permit`: the semaphore is fair), reads the
generation, pops idle connections until one is of that generation, or opens one with
the pair of credentials of that moment, and returns it (`DropCheck`, `PushBack`,
`Release`). `RotateWrite` and `RotateBump` are the two halves of a rotation, `Retire`
and `RetireSort` of a retirement. A connection remembers the generation it is labelled
with and the pair it really used.

Left out: `Transaction`, the registry of named connections, and what the wire
drivers do inside a connection.

## 3. Runs

Each run, its bounds and what it shows:

| run | instance | shows |
|---|---|---|
| `queue_slow` | 2 workers, a chain of 2, 2 tries, lease 1, clock 4, 1 fault, 1 clear | with leases that expire under running handlers: `AttemptHandedOutOnce`, `NoJobLost`, `ChainNeverStalls`, and the refinement `KeepsContract` |
| `queue_prompt` | the same, prompt, clock 14, no clear, fair | `LeaseExclusive`, `ChainStepPushedOnce`, `EventuallySettled`, `ShutdownDrains` |
| `schedule` | 5 sets of expressions, 2 events (`prune` exclusive, `report` dispatched onto the queue), 1 worker, a calendar of 2 months of 8 and 6 days of 2 hours of 2 minutes, weeks of 3 days, a leap day every 2 years but for one in 4, kept one in 8, a search limit of 30 days, minutes of 2 s, a process that lives 3 s from second 63; see `MCScheduler` | `FlagMeansRunning`, `EveryMinuteTickedOnce`, `ListedNextRuns`, and the refinement `KeepsContract` of the memory driver |
| `ledger_safety` | PostgreSQL and SQLite; 2 tasks, 1 sweep, two batches of credits, a spend and a reservation, 5 calls, 1 broken connection | `BookBalances`, `NeverOverdrawn`, `HeldIsReserved`, `CapturedIffCharged`; where transactions run one at a time `LotsCoveredSerially` |
| `ledger_sweeps` | PostgreSQL; 1 task, 2 sweeps, 4 calls, 1 broken connection, fair | `StaleHoldsReleased`, `DeadLotsEmptied` |
| `breaker` | 3 calls, 2 probes, 2 buckets, 2 outages, a cancelled call, a reset, fair | `NeverWedged`, `TripsOnEvidence`, `Recovers` |
| `webhook` | 2 events, one of them with overlapping deliveries, 3 deliveries in flight, 2 errors, 2 faults, 1 crash, fair | `HandledOnce`, `RecordedIsOwned`; for the event whose retries wait for an answer `EventuallyHandled` |
| `idempotency` | 4 requests, one of them different, window 2, clock 4, atomic increment or Redis, 1 failing call, 1 panic | `RunsOncePerWindow`, `ConflictMeansRunning`, `ReplayIsFaithful` |
| `billing` | 1 subscription, 2 plans, 2 tasks (each serves and ticks), 3 invoices, cycle 1, grace 0, lead 1, clock 2, 1 request besides subscribing, 1 fault; see `MCBilling` | `CreditsMatchPayment`, `PeriodIsPaid`, `TickCatchesUp`; where no payment overtakes a call `GraceMeansEndedSerially`, `PeriodBilledOnceSerially` |
| `tokens` | 1 code, 3 requests, 3 pairs of tokens, clock 2, a code and an access token live 1, a refresh token 2, 1 fault | `OneLivePair`, `RevocationIsFinal` |
| `model_cache` | 2 calls, 1 row, 3 statements that share a key, two of them bindings of one SQL, both strategies, 2 writes, 2 generations, 1 flush, 1 fault | `CacheIsCurrent`, `AnswersAreCurrent` |
| `pool` | 3 tasks, 2 permits, 2 generations, 1 fault, fair | `WithinCapacity`, `FreshCredentials`, `EveryoneServed` |

`TypeOK` of each module (`ReceiverTypeOK`, `PoolTypeOK`: these two are read beside
another component in one module of proofs, so the names of their specifications are
their own) says what its variables can hold; it was checked on the same
instances, and in the modules with theorems it is proved as a part of the invariant
(section 5).

Symmetry is used where it is sound: over the workers in `queue_slow`, over the
requests with equal fingerprints in `idempotency`, over the plans and the
calls in `billing` (whose action property names neither), over the requests in `tokens`,
and over the calls and the two bindings of one SQL in `model_cache`. No run with a liveness property uses it.

**Why the bounds are enough to be interesting.** Each is the smallest at which
the case it is about happens: two workers and a lease of one tick let a row be
reclaimed under its holder and settled by both; two tries separate "retry" from
"last attempt"; two batches let a spend draw from one and a sweep empty the
other; two probes separate a half-used permit set from a full one; three
deliveries let a third come between a failing first and a duplicate second; a
window of two ticks lets a request end inside and outside it; the fourth request
comes after both a retry and a failure; two tasks inside billing are a tick and the
payment, cancellation or tick that races it, and three invoices a first one and two
renewals that compete for its successor; a limit of 30 days falls short of a leap day
around one century and reaches it around the next; a third statement separates a
colliding SQL from a colliding binding; two requests are the winner and the loser of a rotation; one more task
than permits has to wait. That the cases occur is witnessed by the mutants, and by
the behaviours in the next section, which the same modules have. One run is cut by a
constraint: in `billing`, ticks, payments and a fault race each other over all three
invoices, and a customer's request races them over two; a state in which the request
has met a fault or the third invoice is followed with one call at a time, and one
where it has met both is checked and not followed (`Followed`). The theorems about
billing have no such limit.

Deadlock checking is off where the system really stops: all calls made, the
clock at its bound, the pool shut down.

### What the code does and a comment says otherwise

The models contain these behaviours of the code. The properties of the runs are
stated so that they allow for them; each of the first five is found by TLC with the
definition and the constants named.

* **SQLite reuses row ids** (`rustlavel-db/src/dialect.rs:382`): a late `delete`
  removes another job. `DatabaseQueue` with `ReuseIds = TRUE`, two chains of one step
  and two ids violates `NoJobLost`.
* **The sweep's claim is a read without a lock**: a consume in between makes it
  expire another lot's credits. `Ledger` with 4 calls on PostgreSQL violates
  `LotsCovered`.
* **Two sweeps on MySQL** expire one lot; the second debit has no entries, and the
  audit fails. `Ledger` as in `ledger_sweeps` but on `mysql`, with the mixed requests
  and 3 calls, violates `BookBalances`.
* **A duplicate is acknowledged while the first delivery is still running**, and that
  one fails. `WebhookReceiver` with one event, two deliveries and one error violates
  `AckedMeansHandled`.
* **Redis's counter vanishes between `SET NX` and `INCRBY`**, which recreates it without
  a deadline. `Idempotency` on `redis` violates `LockHasDeadline`.
* **Billing's tick** is "Safe to run from two places at once: every transition is a
  guarded `UPDATE`" (`billing.rs:585`). The guard is the status alone: a tick that
  selected an ended period moves the subscription to grace although a payment has
  settled and put it on a new period meanwhile (why `GraceMeansEndedSerially` excludes
  what a payment overtook). A payment between `raise_renewal`'s check and its insert
  leaves a second, open invoice for the paid period, since a closed invoice's
  `period_key` no longer stands in the way (why `PeriodBilledOnceSerially` does the
  same; it also excludes a payment that settles beside another open invoice of the
  subscription, whose period it can come to share, since the period of a first or a
  late payment begins when it settles). A subscription cancelled while a tick raises its renewal is left with an
  open invoice, and credits topped up for an invoice that is voided before
  `on_paid`'s transaction stay (one half of what `astray` excepts in
  `CreditsMatchPayment`).
* **Billing and the receiver**: "a crash between the two leaves a state a retry
  completes" (`billing.rs:469`) is true of a statement that fails, not of a crash: the
  receiver has recorded the event before it calls `on_paid`, so a retry after the crash
  is a duplicate, the credits are in and the invoice stays open until something else
  closes it (the other half of `astray`).
* **OAuth**: the winner of a rotation, overtaken by the loser's `revoke_family`, stores
  tokens that nobody revokes (why `RevocationIsFinal` excludes a raced family), against
  "Every token in its family has been revoked" (`endpoints/token.rs:236`).
* **Model cache**: a `find` that was overtaken by a write puts the old row back, and no
  generation bump closes that, since entities carry none (why `CacheIsCurrent`
  excludes it); the crate's documentation says of such a window that it closes on the
  next generation bump (`lib.rs:46`), which is true of queries only. A flush restarts the
  generations, and a reader that began before it can store an entry that a later
  generation of the same number takes for current. "A collision is then a miss rather
  than a wrong answer" (`keys.rs:34`, and `cache.rs:15`) holds for two different SQL texts
  only: the text that is compared has placeholders for the bindings, so when two
  bindings of one SQL share a fingerprint one is served the other's rows (why
  `AnswersAreCurrent` says "of a statement `Alike`": with equality there, the run's
  instance violates it).
* **Pool**: a rotation between `drop`'s look at the generation and its push leaves a
  superseded connection idle after `retire_superseded`, until the next acquire
  discards it; it is never handed out (`FreshCredentials`). Connections that are being closed
  count against no permit.
* **Scheduler**: a tick that begins in one minute and ends in the next skips the second
  one's events, as the wait is computed after the tick: `schedule.rs:407` says "an
  expression matches exactly once however long a tick took" (the exception `late` in
  `EveryMinuteTickedOnce`). For an event that may overlap itself the flag is cleared by
  the first run to end, while another is in flight. `cron.rs:118` says "any date that can
  occur at all occurs within the window; anything that does not is impossible", which
  is false around 2100: for `0 0 29 2 *` `next_after` answers `None` from
  March 2096 until late February 2100. `ListedNextRuns` therefore says that a date is reported as
  impossible only if it does not come within the limit, and the run's calendar has
  both: a leap day that is found and one that is missed.
* **Queue**: `release`, `delete` and `fail` go by id alone, so a worker whose lease
  ran out reopens the row under the worker that reclaimed it (why `LeaseExclusive`
  is a property of prompt handlers only), and only `process` dead-letters, so a
  job whose worker dies in its last attempt is handed out again.
* **Ledger**: on MySQL the snapshot `draw_lots` reads is older than the row lock it
  relies on (why `LotsCoveredSerially` is about serial transactions), and credits
  on hold when their lot dies belong to no lot after the release.
* **Breaker**: permits carry no generation, so a probe of an earlier pause can be in
  flight next to a full new set, and the outcome of a call that an opening and a
  closing overtook is counted.
* **Receiver**: a handler that panics leaves its record, and the retry is dropped as
  a duplicate (the exception in `EventuallyHandled` and `RecordedIsOwned`).
* **Idempotency**: after a panic every retry is told "still being processed" until
  the window ends, and as the lock's window begins and ends before the answer's,
  a request can run again while the first answer is still stored (why
  `RunsOncePerWindow` measures from claim to claim).

## 4. Fairness

Liveness is checked under weak fairness only, of steps that the code's runtime
takes on its own:

* the **queue**: the clock, and each worker's own steps (a task in a loop
  around awaits; `Interrupt`, `Clear`, `Signal` and dispatching are not fair);
* the **ledger**: the clock, each task's progress through a call it has begun,
  and each sweeper's steps, including beginning the next sweep: sweeps are
  scheduled;
* the **breaker**: the clock, and each call's attempt and report. That requests
  keep coming is an assumption: the circuit closes only by calls, as there is
  no background probe. Cancelling is not fair;
* the **receiver**: each delivery's own steps, and the gateway's retries, which
  is what "at least once" means. Errors and faults are bounded, since a handler
  that always fails is never done;
* the **pool**: each task's own steps once it has asked for a connection, including
  that it is done with the connection some time. Asking, failing, rotating and
  closing are not fair. Tokio's semaphore serves in order, which `Permit` models
  and `EveryoneServed` needs.

Safety does not depend on any of these.

## 5. Theorems

TLC checks the small instances above. These theorems hold for every value of the
constants, under the named assumptions of their modules.

* **`QueueSafety`** (`DatabaseQueue_proofs`): with ids that are never reused,
  `TypeOK`, `AttemptHandedOutOnce`, `NeverInBoth`, `NoJobLost` and
  `ChainNeverStalls`. The strengthening `QueueInv` says what a held job knows
  about its row: a holder's attempt number is at most the row's, two holders of
  a row hold different attempts, a locked row is locked by one transaction, and
  an id once dead-lettered or deleted never comes back. The last is exactly what
  fails on SQLite. `ReserveIsExclusive` and `ChainsContinue` state two of its parts
  on their own.
* **`DriverKeepsContract`** (`DatabaseQueue_proofs`): with ids that are never
  reused, `Spec => KeepsContract`: the database driver implements `QueueContract`
  for any number of workers, jobs and faults. Each action has its step of the
  contract: the commit of `reserve` is a `Pop`, a delete is a `Delete` whether the row
  is still there or not, a `clear` is a `Clear` of every id; a reclaim and a release
  only write rows that are present and keep their attempts, so they are stutters.
  `QueueInv` is needed twice: the lock makes the committed attempt exactly the row's
  plus one, and the ids below the sequence make a push fresh.
* **`PromptExclusive`**: if no worker outlives its lease, a row has one live
  holder. `LeaseInv` ties a holder's deadline to its row's `reserved_at`, so
  that an expired row has no live holder when it is reclaimed.
* **`PromptPushesOnce`**: under the same two assumptions a step of a chain is pushed
  at most once. `PushInv` says that a job is carried by at most one row and that its
  successor has not been pushed while it is (`CarryInv`), and that a worker between its
  delete and its push is alone with that right (`PushAlone`): the faults that make a
  step run again come before the delete, or take the push with them.
* **`BreakerNeverWedged`** (`CircuitBreaker_proofs`): for any number of calls,
  probes and cancellations a half-open circuit can still collect enough
  successes. `BreakerInv` adds that a half-open circuit is open and an open one
  known. The argument counts permits: a probe that ends gives its permit back or
  adds a success.
* **`TripsAreEvident`** (`CircuitBreaker_proofs`): `TripsOnEvidence`, for any number of
  buckets, any rate and any calls. `WindowInv` says that a bucket inside the
  window holds exactly what was reported at its age (`Matches`), that nothing reported
  is missing (`Covers`), and that the buckets stand in order of age; `Total`, the sum
  over the buckets, is a recursive function, and what is true of it is proved by
  taking a least number of buckets that refutes it.
* **`FinishedHandlerNeverReruns`** (`Idempotency_proofs`): with the database
  log (the hypothesis `Durable`), `HandledOnce` for any number of overlapping deliveries and any faults.
  `ReceiverInv` adds that at most one delivery of an event is past its record
  (`OneRunning`) and that a finished event stays recorded (`FinishedStays`).
  **`RecordsHaveOwners`** is `RecordedIsOwned` on the same log: a recorded event was
  handled, is in the hands of a delivery, or is one of those that a failure of
  `deliver` is known to strand.
* **`OncePerWindow`** (`Idempotency_proofs`): with prompt handlers, on every
  driver, with faults and panics allowed: `RunsOncePerWindow` and
  `ConflictMeansRunning` for any number of requests. The only assumption is
  `Prompt`. `IdemInv` says, as long as nothing has gone wrong, that the lock is
  taken while the window of a run that counts lasts (`Pinned`), and that a live
  counter still at 0 belongs to a request between Redis's two round trips
  (`Fresh`); with an atomic increment also that a live lock is held or outlived by
  an answer (`Backed`), which is carried over the await between the claim and the
  lookup (`LookupSafe`). The lock without a deadline that Redis can end up with
  is part of the invariant: it blocks a key for ever, but never lets it run twice.
  `ConflictIsHonest` states its second part on its own.
* **`ReplaysAreFaithful`**: `ReplayIsFaithful` with no assumption at all: any handlers,
  errors, panics and clock. `ReplayInv` adds that whoever wrote the stored answer ran
  protected and was answered below 500 (`AuthorOk`), that a request is answered once
  (`Answered`), and that a replay has such an author (`Sourced`).
* **`StoreIsCurrent`**, **`AnswersHoldFinishedWrites`** (`ModelCache_proofs`):
  `CacheIsCurrent` and `AnswersAreCurrent`, for any number of rows, statements, readers
  and writers. Neither is inductive. `CacheInv` follows a write from its statement to
  the drop of its key (`WriteOK`) and a read from the generation it took to the entry
  it puts (`GetOK`, `FindOK`), and relates two calls: an entry of the generation that
  one of them has read, stored already (`EntryServes`) or still in the other's hands
  (`PutServes`), is not older than the first one's beginning. That an entry lies under
  the fingerprint of its own statement makes what is served `Alike` to what was asked.
* **`CapacityHolds`**, **`RotationReaches`** (`CircuitBreaker_proofs`): `WithinCapacity` and
  `FreshCredentials`, for any number of tasks, permits, rotations and failures.
  `PoolInv` says that the generation is never ahead of the credentials, so that a
  connection's label promises no more than the pair it was opened with (`Honest`), and
  counts the permits. What the semaphore's queue and `retain` leave is written in closed
  form (`Retained`), so that its length and members can be reasoned about.
* **`TokensSafe`** (`TokenFamily_proofs`): `OneLivePair` and `RevocationIsFinal`, for
  any number of grants, requests and tokens, any clock and any faults, with no
  assumption but the constants' types; `GrantHasOnePair` and `RevokedStaysDead` state
  them singly. `TokenInv` says that the right to issue into a family is in one place
  (`Right`): with one request that has won the code or a rotation, or with one refresh
  token that is not rotated. A live access token follows the right: it was made with
  that refresh token, or belongs to the request that retires or has just stored it.
  For revocation, a family that is dead and was not raced has no request that could
  still store a token of it (`Finished`). The rest says where a request's family and
  token come from: its code is spent (`Busy`), nothing descends from a code that is not
  (`Unfounded`), a pair is made up once (`Unstored`), and the token read is the family's
  or purged (`OwnRow`).
* **`PeriodsArePaid`**, **`GraceMeansEnded`**, **`PeriodsAreBilledOnce`**
  (`Billing_proofs`): `PeriodIsPaid`, `GraceMeansEndedSerially` and
  `PeriodBilledOnceSerially`, for any number of subscriptions, invoices, calls and
  faults. `BillingInv` says what a status tells of the periods (`StatusOK`), where an
  open invoice starts (`OpenOK`: at the end of what is paid, or nowhere yet), that no two
  open ones and no two paid ones share a start (`OpenApart`, `PaidApart`), and of every
  call what it still knows of the rows it read (`CallsOK`). Only on_paid's transaction
  writes a period, so the other actions keep the invariant in one of three ways
  (`Kept`, `Inserted`, or the call alone notices), and the transaction is one lemma
  (`SettledStep`). `BillingTypes` is `TypeOK`.
* **`CreditsAndPaymentsMatch`**: `CreditsMatchPayment`, with statements that fail,
  handlers that die and invoices that are closed anywhere. `CreditsInv` adds that a call
  between the top-up and its transaction has its credits in and, unless it went astray,
  its event outstanding, so whoever settles the invoice, it is covered.
* **`TickLeavesNothingOwed`**: the action property `TickCatchesUp`. `AloneInv` follows a
  tick that runs by itself: the loops before this one have nothing left to do (`Past`),
  what this one still has to do is among the rows to come or in hand (`Ahead`), those
  rows are as they were read (`Present`), and no statement gives an earlier loop new
  work (`NoneNew`), which depends on the order of the five loops. The attempt showed
  that the property needs one more condition than it had: with a charge that the
  gateway refuses in the second loop, and no other fault in the last step, an invoice
  stays without a charge. The run has one fault and could not tell; `alone` now ends
  with such a failure.
* **`NoOverlap`**, **`MinutesTickedOnce`** (`Scheduler_proofs`): `FlagMeansRunning` and
  `EveryMinuteTickedOnce`, for any schedule, any number of tasks and any clock. `FlagInv`
  says that an exclusive event has at most one run between its claim and the drop of
  its guard; `TicksInv` that what the loop waits for begins with the next minute at the
  latest, and that every earlier minute was asked about or is in `late`.
  `SchedulerTypes` is `TypeOK`.
* **`MemoryKeepsContract`** (`Scheduler_proofs`): the memory driver implements
  `QueueContract` under the scheduler. `IdInv` says that an id is in one place at a time
  between the atomic counter, the list and a worker's hands.
* **`NextRunsAreRight`** (`Scheduler_proofs`): `ListedNextRuns`: the time `next_after` finds is
  a run, none is between, and it finds none only if no date that the expression selects
  comes within the limit, on any calendar that satisfies `AmpleLimit`: from every day,
  the days before the limit have a whole week of every month. In the code they do (1464
  days are more than four years, and a month has 28 days or more); TLC evaluates the
  assumption for the run's calendar. It does not ask that the limit reach a leap day,
  and in the code it does not. The search steps by day, hour or minute; each jump is
  shown to pass over times that the expression does not select and to land on the start
  of a minute (`SkipsDay`, `SkipsHour`, `SkipsMinute`), so what it finds is the first.
  If a selected date comes within the limit, the search finds a minute there, and a
  weekday comes in every month the expression allows (`WeekComes`, `MatchAgain`).

* **`LedgerSafety`** (`Ledger_proofs`): `LedgerInv`, on all three engines, for any
  number of tasks, owners, requests, deadlock victims and crashes. Its parts are stated
  as `HeldMatchesHolds` (`HeldIsReserved`), `NobodyOverdraws` (`NeverOverdrawn`),
  `ChargesMatchCaptures` (`CapturedIffCharged`) and `LedgerTypes`. The argument is the
  one `consume`'s comment gives, that the guarded update is also the lock: `LocksOK` says which rows
  a transaction has locked by the time it gets somewhere, `Exclusive` that no two
  transactions have one row, and therefore what the transaction has checked still holds
  when it commits: the credits that a consume or a hold found (`FundsOK`) and the hold
  that a capture claimed (`ClaimOK`). Each commit is shown to be `Orderly`: it writes no
  row that another transaction has locked. `capture` debits with no guard, so
  `NeverOverdrawn` needs `HeldIsReserved`: the hold's amount is a term of the sum that
  `held` is, so `held` covers it.
* **`BooksBalance`**: the balances sum to zero on every engine, and on PostgreSQL and
  SQLite `BookBalances` holds. Every step moves nothing, or moves an amount between two
  accounts under a reference that was free (`Pays`), or is MySQL's second expiry of a
  lot, which moves without an entry and is why the second half is not claimed there
  (section 3). For SQLite this uses that an expiry that is recorded left an empty lot
  (`LotsRecorded`), so that a second sweep never comes to debit it.
* **`LotsStayCovered`**: `LotsCoveredSerially`. On SQLite what a transaction has read is
  still so when it commits (`SerialOK`), so the draw takes from the lots exactly the
  amount, or all there is, and the sweep debits at most what was in the lot.

The ledger's sums are `MapThenSumSet`, and `draw_lots` is a `MapThenFoldSet`, both
recursions over finite sets. The prover cannot instantiate the library's induction
theorems, whose hypothesis is an operator; `Ledger_proofs` goes around that: a fold is
shown to be a function on the subsets of its set (`FoldExists`), and a fact about every
subset is proved by taking a smallest one that refutes it, which exists since strict
inclusion of finite sets is well founded (`SmallestSet`). Proved that way: any
member can be taken out of a sum first (`SumTake`), a sum changes by what one of its
terms changes (`SumChange`) or by the term that joins (`SumJoin`), and what `draw_lots`
has left over and what it has left in the lots add up (`DrawSums`, `DrawTakes`).

Each inductive invariant was checked by TLC on the run's instance before it was
proved; `LedgerInv` and the sum on MySQL also on `ledger_sweeps` with all three engines.

What a recursive function computes (`Total`, the days before a month, the search of
`next_after`) is proved in the same way over numbers: a least counterexample exists
(`LeastNumber`), and there is none.

Only model-checked are the liveness properties, since fairness and `ENABLED` are outside
the prover: `EventuallySettled`, `ShutdownDrains`, `StaleHoldsReleased`,
`DeadLotsEmptied`, `Recovers`, `EventuallyHandled` and `EveryoneServed`. Every invariant,
the action property and both refinements that a run checks are theorems.

## 6. What is not modelled

* SQL Server's locking reads, and integer overflow of amounts, attempts and the step
  of a cron field (`value += step` in `parse_part` is a `u32`).
* Clocks that go backwards or differ between processes.
* A database that loses committed transactions, a cache that evicts early.
* The registry of named connections (`connections.rs`): two callers that open one
  name at once open two pools.
* The parts marked "not modelled yet" above, and the rest of `PROJECT.json`'s
  list, each with its reason. Most of the repository's lines are codecs, wire
  protocols, templates, scaffolding and generated text, where a model would be a
  transliteration of the code and a unit test says as much.

## 7. Plan

Modelled so far, in the order of their importance: queue, ledger, breaker,
receiver, idempotency; billing, tokens, the queue's contract with both drivers and
the scheduler, model cache, pool. What is left:

1. `Registry`: leases, protective mode and replication between peers.
2. The rate limiter's windows, vault renewal at two thirds of a lease, broadcasting
   with bounded queues, the health of the gateway's targets, job progress.
3. The memory stores of the OAuth provider, and the registry of connections.
