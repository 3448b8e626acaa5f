----------------------------- MODULE Idempotency ----------------------------
(***************************************************************************)
(* The idempotency middleware (rustlavel-cache: idempotency.rs) over the    *)
(* cache drivers it keeps its state in (memory.rs, file.rs, redis/mod.rs).  *)
(*                                                                          *)
(* One scope and one key: keys share no state.  A request is one attempt;   *)
(* a client's retry is another request, with the same fingerprint.  Every   *)
(* cache call is an await, so other requests come in between any two of     *)
(* them.  Requests that the middleware passes on or refuses before its      *)
(* first cache call (reads, no key, a malformed key) are not modelled.      *)
(***************************************************************************)
EXTENDS Integers

CONSTANTS
    Requests,     \* attempts that carry the key
    Fingerprint,  \* their fingerprints: method, path and body
    Ttl,          \* remember_for
    Drivers,      \* "redis", and "local": MemoryStore and FileStore
    Prompt,       \* handlers and cache calls are quick: see Tick
    MaxFaults,    \* bound: cache calls that fail
    MaxPanics,    \* bound: handlers that panic or are cut off
    MaxClock,     \* bound: the clock
    Never,        \* the deadline of an entry without one
    Nobody        \* the author of no answer

VARIABLES
    driver,       \* the cache behind the middleware
    now,          \* its clock
    lock,         \* the counter: its value and its deadline
    answer,       \* the stored response: the request it answered, its deadline
    pc,           \* where each request is in handle
    guarded,      \* its increment returned 1
    since,        \* when it did
    out,          \* what the client was answered
    source,       \* the request whose answer it was given
    busy,         \* history: another request held the lock at its claim
    faults, panics

store   == <<lock, answer>>
history == <<source, busy>>
budget  == <<faults, panics>>
vars    == <<driver, now, store, pc, guarded, since, out, history, budget>>

ASSUME IdempotencyConstants ==
    /\ Drivers \subseteq {"local", "redis"} /\ Prompt \in BOOLEAN
    /\ Ttl \in Nat \ {0} /\ MaxFaults \in Nat /\ MaxPanics \in Nat /\ MaxClock \in Nat
    /\ Never \notin Int /\ Nobody \notin Requests

\* An entry lives until its deadline; one that was never written has passed it.
Live(entry) == entry.until = Never \/ now < entry.until

\* The request increased the counter to 1 and has not let go of the key yet.
InFlight(r) == guarded[r] /\ pc[r] \in {"handler", "put", "forget"}

\* What counts as the key's execution: it is in flight, or ended below 500.
Counts(r) == guarded[r] /\ (InFlight(r) \/ out[r] = "own")

Enter(r, place) == pc' = [pc EXCEPT ![r] = place]

Reply(r, result) ==
    /\ Enter(r, "done")
    /\ out' = [out EXCEPT ![r] = result]

\* One of the cache's calls returns an error.
CacheError == faults > 0 /\ faults' = faults - 1 /\ panics' = panics

-----------------------------------------------------------------------------
\* The counter as an increment leaves it, and where its result sends the
\* request.
Claimed(r, counter) ==
    /\ lock' = [n |-> counter.n + 1, until |-> counter.until]
    /\ guarded' = [guarded EXCEPT ![r] = counter.n = 0]
    /\ since' = [since EXCEPT ![r] = now]
    /\ busy' = [busy EXCEPT ![r] = \E s \in Requests : InFlight(s)]
    /\ Enter(r, IF counter.n = 0 THEN "handler" ELSE "lookup")
    /\ UNCHANGED <<driver, now, answer, out, source, budget>>

\* Mutant: every increment starts the window again.
ClaimExtends(r) ==
    /\ driver = "local" /\ pc[r] = "idle"
    /\ Claimed(r, [n |-> IF Live(lock) THEN lock.n ELSE 0, until |-> now + Ttl])

\* increment_within of the memory and file drivers: one step under a lock.
Claim(r) ==
    /\ driver = "local" /\ pc[r] = "idle"
    /\ Claimed(r, IF Live(lock) THEN lock ELSE [n |-> 0, until |-> now + Ttl])

\* increment_within of Redis: SET 0 PX ttl NX ...
SetNx(r) ==
    /\ driver = "redis" /\ pc[r] = "idle"
    /\ lock' = IF Live(lock) THEN lock ELSE [n |-> 0, until |-> now + Ttl]
    /\ Enter(r, "incrby")
    /\ UNCHANGED <<driver, now, answer, guarded, since, out, history, budget>>

\* ... and then INCRBY, which creates a missing counter without a deadline.
IncrBy(r) ==
    /\ pc[r] = "incrby"
    /\ Claimed(r, IF Live(lock) THEN lock ELSE [n |-> 0, until |-> Never])

\* The claim fails: the request runs unprotected.
ClaimFails(r) ==
    /\ pc[r] \in {"idle", "incrby"} /\ CacheError
    /\ Enter(r, "handler")
    /\ UNCHANGED <<driver, now, store, guarded, since, out, history>>

-----------------------------------------------------------------------------
\* The stored answer is to another request: 422.
Mismatch(r) ==
    /\ pc[r] = "lookup" /\ Live(answer)
    /\ Fingerprint[answer.by] # Fingerprint[r]
    /\ Reply(r, "mismatch")
    /\ UNCHANGED <<driver, now, store, guarded, since, history, budget>>

\* Mutant: the fingerprint is not compared.
ReplayAny(r) ==
    /\ pc[r] = "lookup" /\ Live(answer)
    /\ Reply(r, "replay")
    /\ source' = [source EXCEPT ![r] = answer.by]
    /\ UNCHANGED <<driver, now, store, guarded, since, busy, budget>>

\* The stored answer, as it was given the first time.
Replay(r) ==
    /\ pc[r] = "lookup" /\ Live(answer)
    /\ Fingerprint[answer.by] = Fingerprint[r]
    /\ Reply(r, "replay")
    /\ source' = [source EXCEPT ![r] = answer.by]
    /\ UNCHANGED <<driver, now, store, guarded, since, busy, budget>>

\* No answer is stored: 409, "still being processed".
Conflict(r) ==
    /\ pc[r] = "lookup" /\ ~Live(answer)
    /\ Reply(r, "conflict")
    /\ UNCHANGED <<driver, now, store, guarded, since, history, budget>>

\* The answer cannot be read: the request runs, unprotected.
LookupFails(r) ==
    /\ pc[r] = "lookup" /\ CacheError
    /\ Enter(r, "handler")
    /\ UNCHANGED <<driver, now, store, guarded, since, out, history>>

-----------------------------------------------------------------------------
\* The handler answers below 500.
HandlerOk(r) ==
    /\ pc[r] = "handler"
    /\ IF guarded[r] THEN Enter(r, "put") /\ out' = out ELSE Reply(r, "own")
    /\ UNCHANGED <<driver, now, store, guarded, since, history, budget>>

\* The handler answers 500 or above.
HandlerError(r) ==
    /\ pc[r] = "handler"
    /\ IF guarded[r] THEN Enter(r, "forget") /\ out' = out ELSE Reply(r, "failed")
    /\ UNCHANGED <<driver, now, store, guarded, since, history, budget>>

\* The handler panics, and the router answers 500 from outside the
\* middleware; or a time limit or a dying process cuts the request off.
Panic(r) ==
    /\ pc[r] = "handler" /\ panics > 0 /\ panics' = panics - 1
    /\ Reply(r, "panicked")
    /\ UNCHANGED <<driver, now, store, guarded, since, history, faults>>

\* Mutant: the lock is let go of once the request is over.
PutReleases(r) ==
    /\ pc[r] = "put"
    /\ answer' = [by |-> r, until |-> now + Ttl]
    /\ lock' = [n |-> 0, until |-> 0]
    /\ Reply(r, "own")
    /\ UNCHANGED <<driver, now, guarded, since, history, budget>>

\* The answer is stored, for Ttl from now, and given to the client.
Put(r) ==
    /\ pc[r] = "put"
    /\ answer' = [by |-> r, until |-> now + Ttl]
    /\ Reply(r, "own")
    /\ UNCHANGED <<driver, now, lock, guarded, since, history, budget>>

\* The answer is not stored, and given to the client.
PutFails(r) ==
    /\ pc[r] = "put" /\ CacheError
    /\ Reply(r, "own")
    /\ UNCHANGED <<driver, now, store, guarded, since, history>>

\* The lock is let go of, whoever took it last.
Forget(r) ==
    /\ pc[r] = "forget"
    /\ lock' = [n |-> 0, until |-> 0]
    /\ Reply(r, "failed")
    /\ UNCHANGED <<driver, now, answer, guarded, since, history, budget>>

\* The lock stays; the error is dropped.
ForgetFails(r) ==
    /\ pc[r] = "forget" /\ CacheError
    /\ Reply(r, "failed")
    /\ UNCHANGED <<driver, now, store, guarded, since, history>>

\* The cache's clock.  Prompt: a handler ends before its lock does, and no
\* tick falls between the cache calls that begin a request.
Tick ==
    /\ now < MaxClock
    /\ Prompt => \A r \in Requests :
                    /\ pc[r] \notin {"lookup", "incrby"}
                    /\ InFlight(r) => now + 1 < since[r] + Ttl
    /\ now' = now + 1
    /\ UNCHANGED <<driver, store, pc, guarded, since, out, history, budget>>

-----------------------------------------------------------------------------
Init ==
    /\ driver \in Drivers
    /\ now = 0
    /\ lock = [n |-> 0, until |-> 0]
    /\ answer = [by |-> Nobody, until |-> 0]
    /\ pc = [r \in Requests |-> "idle"]
    /\ guarded = [r \in Requests |-> FALSE]
    /\ since = [r \in Requests |-> 0]
    /\ out = [r \in Requests |-> "none"]
    /\ source = [r \in Requests |-> Nobody]
    /\ busy = [r \in Requests |-> FALSE]
    /\ faults = MaxFaults /\ panics = MaxPanics

handle(r) ==
    \/ Claim(r) \/ SetNx(r) \/ IncrBy(r) \/ ClaimFails(r)
    \/ Mismatch(r) \/ Replay(r) \/ Conflict(r) \/ LookupFails(r)
    \/ HandlerOk(r) \/ HandlerError(r) \/ Panic(r)
    \/ Put(r) \/ PutFails(r) \/ Forget(r) \/ ForgetFails(r)

Next == Tick \/ \E r \in Requests : handle(r)

Spec == Init /\ [][Next]_vars

-----------------------------------------------------------------------------
Places  == {"idle", "incrby", "lookup", "handler", "put", "forget", "done"}
Results == {"none", "own", "replay", "mismatch", "conflict", "failed", "panicked"}

\* The state of the middleware and of the cache has its type: in particular a
\* stored answer always has an author (idempotency.rs handle).
TypeOK ==
    /\ driver \in Drivers
    /\ now \in Nat
    /\ lock \in [n : Nat, until : Nat \cup {Never}]
    /\ answer \in [by : Requests \cup {Nobody}, until : Nat]
    /\ answer.by = Nobody => answer.until = 0
    /\ pc \in [Requests -> Places]
    /\ guarded \in [Requests -> BOOLEAN]
    /\ since \in [Requests -> Nat]
    /\ out \in [Requests -> Results]
    /\ source \in [Requests -> Requests \cup {Nobody}]
    /\ busy \in [Requests -> BOOLEAN]
    /\ faults \in 0 .. MaxFaults /\ panics \in 0 .. MaxPanics

\* No cache call has failed, and no request was cut off.
Undisturbed == faults = MaxFaults /\ panics = MaxPanics

\* Two executions that count for the key begin at least Ttl apart: within a
\* window the key runs once, whatever retries arrive, however many earlier
\* attempts failed, and although Redis increments in two round trips
\* (idempotency.rs 210-212).  A failing cache gives this up on purpose.
RunsOncePerWindow ==
    Undisturbed =>
        \A r, s \in Requests :
            r # s /\ Counts(r) /\ Counts(s)
                => since[r] + Ttl <= since[s] \/ since[s] + Ttl <= since[r]

\* A 409 is given only to a request that arrived while another one was really
\* being processed (idempotency.rs 25-26, 234-238), if the increment is atomic
\* and nothing has gone wrong.
ConflictMeansRunning ==
    Undisturbed /\ driver = "local" =>
        \A r \in Requests : out[r] = "conflict" => busy[r]

\* A replayed answer is the answer, below 500, of a protected run of the same
\* request (idempotency.rs 20-29).
ReplayIsFaithful ==
    \A r \in Requests :
        out[r] = "replay" =>
            /\ Fingerprint[source[r]] = Fingerprint[r]
            /\ guarded[source[r]] /\ out[source[r]] = "own"

\* The lock of a key always has a deadline (redis/mod.rs 207-211, "no lost
\* TTL").
LockHasDeadline == lock.until # Never
=============================================================================
