--------------------------- MODULE DatabaseQueue ---------------------------
(***************************************************************************)
(* The database queue driver and the workers that drain it                  *)
(* (rustlavel-queue: database.rs, worker.rs, job.rs, chain.rs).             *)
(*                                                                          *)
(* Workers of one or several processes share the `jobs' table and nothing   *)
(* else.  A step of a worker is one SQL transaction, split where another    *)
(* transaction can come in between: the locking read and the commit of      *)
(* `reserve' and of `reclaim_expired' are two steps, with the row locks     *)
(* held from one to the other, and `unix_now()' is read before either.      *)
(***************************************************************************)
EXTENDS Integers, Sequences, FiniteSets

CONSTANTS
    Workers,      \* the worker tasks of all `queue:work' processes
    Chains,       \* the pipelines the application dispatches
    ChainLen,     \* steps per pipeline; 1 is a plain job
    MaxTries,     \* Job::tries
    RetryAfter,   \* Job::retry_after, in ticks: lease and base of the backoff
    BackoffCap,   \* WorkerOptions::backoff_cap, in ticks
    ReclaimBatch, \* RECLAIM_BATCH
    ReuseIds,     \* the id column hands out max + 1 (SQLite) or never repeats
    Prompt,       \* no worker holds a job for longer than its lease
    MaxId,        \* bound: ids the jobs table may hand out
    MaxTime,      \* bound: ticks of the clock
    MaxFaults,    \* bound: database errors and killed workers
    MaxClears,    \* bound: calls of `clear'
    Null          \* SQL null, and the absence of a row

VARIABLES
    now,          \* unix_now()
    jobs,         \* the jobs table: id -> row, or Null
    lastId,       \* the id sequence of the jobs table
    failed,       \* the failed_jobs table, oldest first
    pc,           \* where each worker is in its loop
    stamp,        \* the `now' each worker's transaction captured
    locks,        \* the rows each worker's open transaction has locked
    held,         \* the ReservedJob in each worker's hands, or Null
    signalled,    \* the Shutdown flag
    faults,       \* faults left
    clears,       \* calls of `clear' left
    done,         \* history: steps whose handler has returned Ok
    pushes,       \* history: how often each step was pushed
    cleared,      \* history: steps thrown away by `clear'
    lostTail      \* history: steps whose successor a fault kept from the queue

table   == <<jobs, lastId, failed>>
worker  == <<pc, stamp, locks, held>>
history == <<done, pushes, cleared, lostTail>>
vars    == <<now, table, worker, signalled, faults, clears, history>>

Ids  == 1 .. MaxId
Job  == Chains \X (1 .. ChainLen)
Row  == [job : Job, attempts : Nat, reservedAt : Nat \cup {Null}, availableAt : Int]
Hold == [id : Ids, job : Job, attempts : Nat]

PCs == {"idle", "select", "commit", "reclaim", "unlock", "reselect",
        "running", "delete", "push", "release", "fail", "stopped"}

ASSUME QueueConstants ==
    /\ ChainLen \in Nat \ {0} /\ MaxTries \in Nat \ {0}
    /\ RetryAfter \in Nat /\ BackoffCap \in Nat /\ ReclaimBatch \in Nat \ {0}
    /\ ReuseIds \in BOOLEAN /\ Prompt \in BOOLEAN
    /\ MaxId \in Nat /\ MaxTime \in Nat /\ MaxFaults \in Nat /\ MaxClears \in Nat
    /\ Null \notin Int /\ Null \notin Row /\ Null \notin Hold

-----------------------------------------------------------------------------
(* The statements' WHERE clauses, and what the worker computes.             *)

Present(i) == jobs[i] # Null

\* Rows another open transaction holds; `skip locked' steps over them.
Locked == UNION {locks[w] : w \in Workers}

\* Mutant: the locking read forgets `skip locked'.
AvailableNoSkip(i, t) ==
    Present(i) /\ jobs[i].reservedAt = Null /\ jobs[i].availableAt <= t

\* reserve_sql
Available(i, t) ==
    /\ Present(i) /\ i \notin Locked
    /\ jobs[i].reservedAt = Null /\ jobs[i].availableAt <= t

\* Mutant: `<=' where the lease comparison has `<'.
ExpiredEarly(i, t) ==
    /\ Present(i) /\ i \notin Locked
    /\ jobs[i].reservedAt # Null /\ jobs[i].reservedAt + RetryAfter <= t

\* reclaim_sql
Expired(i, t) ==
    /\ Present(i) /\ i \notin Locked
    /\ jobs[i].reservedAt # Null /\ jobs[i].reservedAt + RetryAfter < t

\* `order by id limit RECLAIM_BATCH' over the expired rows.
Orphans(t) ==
    LET all == {i \in Ids : Expired(i, t)}
    IN  {i \in all : Cardinality({k \in all : k < i}) < ReclaimBatch}

\* `order by id limit 1'
IsFirstAvailable(i, t) ==
    /\ Available(i, t)
    /\ \A k \in Ids : Available(k, t) => i <= k

backoff(attempts) ==
    LET doublings == IF attempts - 1 > 20 THEN 20 ELSE attempts - 1
        pause     == RetryAfter * 2 ^ doublings
    IN  IF pause < BackoffCap THEN pause ELSE BackoffCap

is_last_attempt(h) == h.attempts >= MaxTries

\* The id the next insert gets: the sequence, or one above the largest row.
NextId ==
    IF ReuseIds
    THEN 1 + (CHOOSE m \in 0 .. MaxId :
                /\ m = 0 \/ Present(m)
                /\ \A i \in Ids : Present(i) => i <= m)
    ELSE lastId + 1

\* A new row, and its two updates: reserved for attempt n at t, or open from t.
NewRow(j) == [job |-> j, attempts |-> 0, reservedAt |-> Null, availableAt |-> now]
Reserved(r, n, t) == [job |-> r.job, attempts |-> n, reservedAt |-> t, availableAt |-> r.availableAt]
Reopened(r, t) == [job |-> r.job, attempts |-> r.attempts, reservedAt |-> Null, availableAt |-> t]

HasNext(j) == j[2] < ChainLen
next_in_chain(j) == <<j[1], j[2] + 1>>

-----------------------------------------------------------------------------
Init ==
    /\ now = 0
    /\ jobs = [i \in Ids |-> Null] /\ lastId = 0 /\ failed = <<>>
    /\ pc = [w \in Workers |-> "idle"]
    /\ stamp = [w \in Workers |-> 0]
    /\ locks = [w \in Workers |-> {}]
    /\ held = [w \in Workers |-> Null]
    /\ signalled = FALSE /\ faults = MaxFaults /\ clears = MaxClears
    /\ done = {} /\ pushes = [j \in Job |-> 0] /\ cleared = {} /\ lostTail = {}

\* Queue::push of step j.
push(j) ==
    /\ NextId \in Ids
    /\ jobs' = [jobs EXCEPT ![NextId] = NewRow(j)]
    /\ lastId' = NextId
    /\ pushes' = [pushes EXCEPT ![j] = @ + 1]

\* QueueExt::dispatch_chain; ChainLen = 1 is dispatch.
Dispatch(c) ==
    /\ pushes[<<c, 1>>] = 0
    /\ push(<<c, 1>>)
    /\ UNCHANGED <<now, failed, worker, signalled, faults, clears, done, cleared, lostTail>>

\* Mutant: the shutdown flag is not looked at.
PollForever(w) ==
    /\ pc[w] = "idle"
    /\ pc' = [pc EXCEPT ![w] = "select"]
    /\ stamp' = [stamp EXCEPT ![w] = now]
    /\ UNCHANGED <<now, table, locks, held, signalled, faults, clears, history>>

\* Worker::run, top of the loop.  `reserve' reads the clock before it waits
\* for a connection.
Poll(w) ==
    /\ pc[w] = "idle"
    /\ pc' = [pc EXCEPT ![w] = IF signalled THEN "stopped" ELSE "select"]
    /\ stamp' = [stamp EXCEPT ![w] = now]
    /\ UNCHANGED <<now, table, locks, held, signalled, faults, clears, history>>

\* reserve: the locking read found a row.
ReserveSelect(w) ==
    /\ pc[w] \in {"select", "reselect"}
    /\ \E i \in Ids :
        /\ IsFirstAvailable(i, stamp[w])
        /\ locks' = [locks EXCEPT ![w] = {i}]
        /\ held' = [held EXCEPT ![w] =
                      [id |-> i, job |-> jobs[i].job, attempts |-> jobs[i].attempts + 1]]
    /\ pc' = [pc EXCEPT ![w] = "commit"]
    /\ UNCHANGED <<now, table, stamp, signalled, faults, clears, history>>

\* reserve: nothing is ready.  The first time `pop' tries a reclaim, which
\* reads the clock again; the second time it reports an empty queue.
ReserveNone(w) ==
    /\ pc[w] \in {"select", "reselect"}
    /\ \A i \in Ids : ~ Available(i, stamp[w])
    /\ pc' = [pc EXCEPT ![w] = IF pc[w] = "select" THEN "reclaim" ELSE "idle"]
    /\ stamp' = [stamp EXCEPT ![w] = now]
    /\ UNCHANGED <<now, table, locks, held, signalled, faults, clears, history>>

\* reserve: the update and the commit, which ends the row lock.
ReserveCommit(w) ==
    /\ pc[w] = "commit"
    /\ jobs' = [jobs EXCEPT ![held[w].id] = Reserved(@, held[w].attempts, stamp[w])]
    /\ locks' = [locks EXCEPT ![w] = {}]
    /\ pc' = [pc EXCEPT ![w] = "running"]
    /\ UNCHANGED <<now, lastId, failed, stamp, held, signalled, faults, clears, history>>

\* Mutant: `pop' reports an empty queue without looking for orphans.
ReclaimSkipped(w) ==
    /\ pc[w] = "reclaim"
    /\ pc' = [pc EXCEPT ![w] = "idle"]
    /\ UNCHANGED <<now, table, stamp, locks, held, signalled, faults, clears, history>>

\* reclaim_expired: the locking read; with no orphan the queue is empty.
ReclaimSelect(w) ==
    /\ pc[w] = "reclaim"
    /\ locks' = [locks EXCEPT ![w] = Orphans(stamp[w])]
    /\ pc' = [pc EXCEPT ![w] = IF Orphans(stamp[w]) = {} THEN "idle" ELSE "unlock"]
    /\ UNCHANGED <<now, table, stamp, held, signalled, faults, clears, history>>

\* reclaim_expired: the update and the commit; `pop' then reserves again.
ReclaimCommit(w) ==
    /\ pc[w] = "unlock"
    /\ jobs' = [i \in Ids |->
                  IF i \in locks[w] THEN Reopened(jobs[i], stamp[w]) ELSE jobs[i]]
    /\ locks' = [locks EXCEPT ![w] = {}]
    /\ pc' = [pc EXCEPT ![w] = "reselect"]
    /\ stamp' = [stamp EXCEPT ![w] = now]
    /\ UNCHANGED <<now, lastId, failed, held, signalled, faults, clears, history>>

\* Worker::process: the handler returned Ok.
HandlerOk(w) ==
    /\ pc[w] = "running"
    /\ done' = done \cup {held[w].job}
    /\ pc' = [pc EXCEPT ![w] = "delete"]
    /\ UNCHANGED <<now, table, stamp, locks, held, signalled, faults, clears,
                   pushes, cleared, lostTail>>

\* Worker::process: the handler returned Err, or panicked.
HandlerErr(w) ==
    /\ pc[w] = "running"
    /\ pc' = [pc EXCEPT ![w] = IF is_last_attempt(held[w]) THEN "fail" ELSE "release"]
    /\ UNCHANGED <<now, table, stamp, locks, held, signalled, faults, clears, history>>

\* The worker is done with its job and back at the top of the loop.
Settled(w, p) ==
    /\ pc' = [pc EXCEPT ![w] = p]
    /\ held' = IF p = "idle" THEN [held EXCEPT ![w] = Null] ELSE held

\* Mutant: a finished step ends its chain.
DeleteEndsChain(w) ==
    /\ pc[w] = "delete" /\ held[w].id \notin Locked
    /\ jobs' = [jobs EXCEPT ![held[w].id] = Null]
    /\ Settled(w, "idle")
    /\ UNCHANGED <<now, lastId, failed, stamp, locks, signalled, faults, clears, history>>

\* Queue::delete, by id alone.  The statement waits for a locked row.
Delete(w) ==
    /\ pc[w] = "delete" /\ held[w].id \notin Locked
    /\ jobs' = [jobs EXCEPT ![held[w].id] = Null]
    /\ Settled(w, IF HasNext(held[w].job) THEN "push" ELSE "idle")
    /\ UNCHANGED <<now, lastId, failed, stamp, locks, signalled, faults, clears, history>>

\* The next step of the chain, after the delete.
PushNext(w) ==
    /\ pc[w] = "push"
    /\ push(next_in_chain(held[w].job))
    /\ Settled(w, "idle")
    /\ UNCHANGED <<now, failed, stamp, locks, signalled, faults, clears, done, cleared, lostTail>>

\* Mutant: release writes the row it has in hand, present or not.
ReleaseUpserts(w) ==
    /\ pc[w] = "release" /\ held[w].id \notin Locked
    /\ jobs' = [jobs EXCEPT ![held[w].id] =
                  [job |-> held[w].job, attempts |-> held[w].attempts, reservedAt |-> Null,
                   availableAt |-> now + backoff(held[w].attempts)]]
    /\ Settled(w, "idle")
    /\ UNCHANGED <<now, lastId, failed, stamp, locks, signalled, faults, clears, history>>

\* Queue::release, by id alone: no row, no effect.
Release(w) ==
    /\ pc[w] = "release" /\ held[w].id \notin Locked
    /\ jobs' = IF Present(held[w].id)
               THEN [jobs EXCEPT ![held[w].id] =
                       Reopened(@, now + backoff(held[w].attempts))]
               ELSE jobs
    /\ Settled(w, "idle")
    /\ UNCHANGED <<now, lastId, failed, stamp, locks, signalled, faults, clears, history>>

\* Mutant: the job is taken off the queue and no dead letter written.
FailDropsJob(w) ==
    /\ pc[w] = "fail" /\ held[w].id \notin Locked
    /\ jobs' = [jobs EXCEPT ![held[w].id] = Null]
    /\ Settled(w, "idle")
    /\ UNCHANGED <<now, lastId, failed, stamp, locks, signalled, faults, clears, history>>

\* Queue::fail: one transaction inserts the dead letter and deletes by id.
Fail(w) ==
    /\ pc[w] = "fail" /\ held[w].id \notin Locked
    /\ failed' = Append(failed, held[w])
    /\ jobs' = [jobs EXCEPT ![held[w].id] = Null]
    /\ Settled(w, "idle")
    /\ UNCHANGED <<now, lastId, stamp, locks, signalled, faults, clears, history>>

\* A statement fails and `?' takes the worker back to its loop, or the process
\* is killed and started again: locks and the job in hand are gone.
Interrupt(w) ==
    /\ pc[w] \notin {"idle", "stopped"} /\ faults > 0
    /\ faults' = faults - 1
    /\ pc' = [pc EXCEPT ![w] = "idle"]
    /\ locks' = [locks EXCEPT ![w] = {}]
    /\ held' = [held EXCEPT ![w] = Null]
    /\ lostTail' = IF pc[w] = "push" THEN lostTail \cup {held[w].job} ELSE lostTail
    /\ UNCHANGED <<now, table, stamp, signalled, clears, done, pushes, cleared>>

\* Queue::clear: every row of the queue, reserved or not.
Clear ==
    /\ clears > 0 /\ Locked = {}
    /\ clears' = clears - 1
    /\ jobs' = [i \in Ids |-> Null]
    /\ cleared' = cleared \cup {jobs[i].job : i \in {k \in Ids : Present(k)}}
    /\ UNCHANGED <<now, lastId, failed, worker, signalled, faults, done, pushes, lostTail>>

\* Shutdown::signal
Signal ==
    /\ ~ signalled
    /\ signalled' = TRUE
    /\ UNCHANGED <<now, table, worker, faults, clears, history>>

\* A reservation or a delay is still running out.
ClockRuns ==
    \E i \in Ids : /\ Present(i)
                   /\ \/ jobs[i].availableAt > now
                      \/ jobs[i].reservedAt # Null /\ jobs[i].reservedAt + RetryAfter >= now

\* The clock.  Under Prompt it stands still when nobody is waiting for it, and
\* no worker is so slow that its own lease runs out under it.
Tick ==
    /\ now < MaxTime
    /\ Prompt => /\ ClockRuns
                 /\ \A w \in Workers :
                      pc[w] \notin {"idle", "stopped"} => now < stamp[w] + RetryAfter
    /\ now' = now + 1
    /\ UNCHANGED <<table, worker, signalled, faults, clears, history>>

WorkerStep(w) ==
    \/ Poll(w) \/ ReserveSelect(w) \/ ReserveNone(w) \/ ReserveCommit(w)
    \/ ReclaimSelect(w) \/ ReclaimCommit(w)
    \/ HandlerOk(w) \/ HandlerErr(w)
    \/ Delete(w) \/ PushNext(w) \/ Release(w) \/ Fail(w)

Next ==
    \/ \E c \in Chains : Dispatch(c)
    \/ \E w \in Workers : WorkerStep(w) \/ Interrupt(w)
    \/ Clear \/ Signal \/ Tick

Spec == Init /\ [][Next]_vars

\* The runtime polls every worker task and the clock advances; handlers
\* return.  Nothing is owed by callers: dispatch, clear, shutdown, faults.
Fairness == WF_vars(Tick) /\ \A w \in Workers : WF_vars(WorkerStep(w))

FairSpec == Spec /\ Fairness
-----------------------------------------------------------------------------
(* Properties.                                                              *)

TypeOK ==
    /\ now \in 0 .. MaxTime
    /\ jobs \in [Ids -> Row \cup {Null}]
    /\ lastId \in 0 .. MaxId
    /\ failed \in Seq(Hold)
    /\ pc \in [Workers -> PCs]
    /\ stamp \in [Workers -> Nat]
    /\ locks \in [Workers -> SUBSET Ids]
    /\ held \in [Workers -> Hold \cup {Null}]
    /\ signalled \in BOOLEAN /\ faults \in Nat /\ clears \in Nat
    /\ done \subseteq Job /\ pushes \in [Job -> Nat]
    /\ cleared \subseteq Job /\ lostTail \subseteq Job

\* One attempt of one row is handed to one worker: however leases expire and
\* rows are reclaimed, `select ... skip locked' and the `attempts + 1' committed
\* under the lock never give two workers the same attempt number of a row.
AttemptHandedOutOnce ==
    \A v, w \in Workers :
        v # w /\ held[v] # Null /\ held[w] # Null /\ held[v].id = held[w].id
            => held[v].attempts # held[w].attempts

\* `fail' is one transaction: a dead-lettered row is never on the queue as
\* well, not even when a second worker still holds the row and settles it later.
NeverInBoth ==
    \A k \in 1 .. Len(failed) : ~ Present(failed[k].id)

\* At least once: a pushed step is on the queue, or its handler succeeded, or it
\* is dead-lettered, or somebody cleared it.  No fault and no late worker makes
\* it vanish.
NoJobLost ==
    \A j \in Job : pushes[j] > 0 =>
        \/ \E i \in Ids : Present(i) /\ jobs[i].job = j
        \/ \E k \in 1 .. Len(failed) : failed[k].job = j
        \/ j \in done \cup cleared

\* The rows of the table as the entries of the Queue trait's contract.
Contract ==
    INSTANCE QueueContract WITH
        entries <- [i \in Ids |-> IF Present(i) THEN jobs[i].attempts ELSE Null],
        used    <- 1 .. lastId,
        dead    <- {failed[k].id : k \in DOMAIN failed}

\* The driver keeps the contract: no id is handed out again, no attempt twice, and
\* nothing that left the queue comes back, whatever late workers do to a row they
\* no longer own.
KeepsContract == Contract!Spec

\* A step that succeeded is followed by the next one: it is pushed, or the step
\* is still there to be run again or settled, or dead-lettered or cleared with
\* its tail, or a fault came exactly between the delete and the push, which is
\* the one gap `process' accepts.
ChainNeverStalls ==
    \A j \in done : HasNext(j) =>
        \/ pushes[next_in_chain(j)] > 0
        \/ \E w \in Workers : pc[w] = "push" /\ held[w].job = j
        \/ \E i \in Ids : Present(i) /\ jobs[i].job = j
        \/ \E k \in 1 .. Len(failed) : failed[k].job = j
        \/ j \in cleared \cup lostTail

\* A worker's reservation that has not run out.
Live(w) ==
    /\ pc[w] \in {"commit", "running", "delete", "release", "fail"}
    /\ now <= stamp[w] + RetryAfter

\* No row is handed out while the lease of the worker that has it is running.
LeaseExclusive ==
    \A v, w \in Workers :
        v # w /\ Live(v) /\ Live(w) => held[v].id # held[w].id

\* The chain is advanced once: no step is put on the queue twice, whatever
\* faults make its predecessor run again.
ChainStepPushedOnce == \A j \in Job : pushes[j] <= 1

\* Every job on the queue eventually leaves it - run, dead-lettered or cleared -
\* unless the pool is shut down: crashed reservations are reclaimed and a
\* failing job runs out of attempts.
EventuallySettled ==
    \A i \in Ids : Present(i) ~> (~ Present(i) \/ signalled)

\* Shutdown reaches every worker, whatever it was doing when it was signalled.
ShutdownDrains == signalled ~> (\A w \in Workers : pc[w] = "stopped")
=============================================================================
