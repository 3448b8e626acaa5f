------------------------- MODULE Idempotency_proofs -------------------------
(***************************************************************************)
(* With prompt handlers, and as long as no cache call fails and no request  *)
(* is cut off, a key runs once per window on every driver, and on a driver  *)
(* with an atomic increment a 409 tells the truth, for any number of        *)
(* requests.                                                                *)
(*                                                                          *)
(* Neither property is inductive.  The strengthening ties the lock to the   *)
(* run that counts (Pinned) and to the request that is creating it (Fresh), *)
(* says when a live lock has an answer behind it (Backed), and carries that *)
(* over the await between the increment and the lookup (LookupSafe).        *)
(*                                                                          *)
(* The second part is about WebhookReceiver, the other guard that lets a    *)
(* repeated request run once.  The two share no state.                      *)
(***************************************************************************)
EXTENDS Idempotency, WebhookReceiver, TLAPS

\* Simple facts about the requests and the clock.
Calm ==
    /\ lock.until # Never => lock.until <= now + Ttl
    /\ \A r \in Requests :
          /\ pc[r] # "done" => out[r] = "none"
          /\ pc[r] \in {"handler", "put", "forget"} => guarded[r]
          /\ since[r] <= now
          /\ InFlight(r) => now < since[r] + Ttl

\* A live counter at 0 was created just now, by a request between its SET NX
\* and its INCRBY.
Fresh ==
    Live(lock) /\ lock.n = 0 =>
        lock.until = now + Ttl /\ \E r \in Requests : pc[r] = "incrby"

\* As long as the window of a run that counts lasts, the lock is taken.
Pinned ==
    \A r \in Requests :
        Counts(r) /\ now < since[r] + Ttl =>
            lock.n > 0 /\ (lock.until = Never \/ since[r] + Ttl <= lock.until)

Window ==
    \A r, s \in Requests :
        r # s /\ Counts(r) /\ Counts(s)
            => since[r] + Ttl <= since[s] \/ since[s] + Ttl <= since[r]

\* A live lock is held by a request in flight, or outlived by an answer.
Backed ==
    Live(lock) => (\E r \in Requests : InFlight(r)) \/ lock.until <= answer.until

\* A request on its way to the lookup will find an answer, unless it arrived
\* while another one was in flight.
LookupSafe ==
    \A r \in Requests : pc[r] = "lookup" => busy[r] \/ Live(answer)

Truthful == \A r \in Requests : out[r] = "conflict" => busy[r]

\* What an atomic increment gives.
Local ==
    /\ lock.until # Never
    /\ \A r \in Requests : pc[r] # "incrby"
    /\ Backed
    /\ LookupSafe
    /\ Truthful

Core ==
    /\ Calm
    /\ Fresh
    /\ Pinned
    /\ Window
    /\ driver = "local" => Local

IdemInv == TypeOK /\ (Undisturbed => Core)

-----------------------------------------------------------------------------
\* Every step of handle and of the clock keeps the types.
LEMMA TypeStep == TypeOK /\ [Next]_vars => TypeOK'
<1> USE IdempotencyConstants
<1> SUFFICES ASSUME TypeOK, [Next]_vars PROVE TypeOK'
  OBVIOUS
<1>1. ASSUME NEW r \in Requests, NEW counter \in [n : Nat, until : Nat \cup {Never}],
             Claimed(r, counter)
      PROVE  TypeOK'
  BY <1>1 DEF TypeOK, Claimed, Enter, Places, budget
<1>2. CASE Tick BY <1>2 DEF TypeOK, Tick, store, history, budget
<1>3. ASSUME NEW r \in Requests, handle(r) PROVE TypeOK'
  <2>1. CASE Claim(r) BY <1>1, <2>1 DEF Claim, TypeOK
  <2>2. CASE SetNx(r) BY <2>2 DEF SetNx, TypeOK, Enter, Places, history, budget
  <2>3. CASE IncrBy(r) BY <1>1, <2>3 DEF IncrBy, TypeOK
  <2>4. CASE ClaimFails(r) \/ LookupFails(r)
    BY <2>4 DEF ClaimFails, LookupFails, CacheError, Enter, TypeOK, Places, store, history
  <2>5. CASE Mismatch(r) \/ Replay(r) \/ Conflict(r)
    BY <2>5 DEF Mismatch, Replay, Conflict, Reply, Enter, TypeOK, Places, Results, store, history, budget
  <2>6. CASE HandlerOk(r) \/ HandlerError(r) \/ Panic(r)
    BY <2>6 DEF HandlerOk, HandlerError, Panic, Reply, Enter, TypeOK, Places, Results, store, history, budget
  <2>7. CASE Put(r) BY <2>7 DEF Put, Reply, Enter, TypeOK, Places, Results, history, budget
  <2>8. CASE Forget(r) BY <2>8 DEF Forget, Reply, Enter, TypeOK, Places, Results, history, budget
  <2>9. CASE PutFails(r) \/ ForgetFails(r)
    BY <2>9 DEF PutFails, ForgetFails, CacheError, Reply, Enter, TypeOK, Places, Results, store, history
  <2>10. QED BY <1>3, <2>1, <2>2, <2>3, <2>4, <2>5, <2>6, <2>7, <2>8, <2>9 DEF handle
<1>4. CASE UNCHANGED vars BY <1>4 DEF TypeOK, vars, store, history, budget
<1>5. QED BY <1>2, <1>3, <1>4 DEF Next

\* A window that is open has a live lock above 0.
LEMMA OpenIsLocked ==
    ASSUME TypeOK, Pinned, NEW s \in Requests, Counts(s), ~Live(lock) \/ lock.n = 0
    PROVE  since[s] + Ttl <= now
BY IdempotencyConstants DEF TypeOK, Pinned, Live

\* The request whose increment returns 1: no window of a run that counts is
\* still open (memory.rs bump, the creating branches; redis/mod.rs
\* increment_within).
LEMMA FirstClaim ==
    ASSUME TypeOK, Core, NEW r \in Requests, pc[r] # "done",
           NEW until \in {Never, now + Ttl}, driver = "local" => until # Never,
           ~Live(lock) \/ lock.n = 0,
           Claimed(r, [n |-> 0, until |-> until])
    PROVE  Core'
<1> USE IdempotencyConstants
<1> DEFINE new == [n |-> 0, until |-> until]
<1>1. out[r] = "none" BY DEF Core, Calm
<1>2. /\ lock' = [n |-> 1, until |-> until]
      /\ guarded' = [guarded EXCEPT ![r] = TRUE]
      /\ since' = [since EXCEPT ![r] = now]
      /\ pc' = [pc EXCEPT ![r] = "handler"]
      /\ busy' = [busy EXCEPT ![r] = \E s \in Requests : InFlight(s)]
      /\ UNCHANGED <<driver, now, answer, out>>
  <2>1. new.n = 0 /\ new.until = until /\ new.n + 1 = 1 OBVIOUS
  <2>2. (new.n = 0) = TRUE BY <2>1
  <2> QED BY <2>1, <2>2, Zenon DEF Claimed, Enter
<1>3. /\ \A s \in Requests : s # r => /\ pc'[s] = pc[s] /\ guarded'[s] = guarded[s]
                                     /\ since'[s] = since[s] /\ busy'[s] = busy[s]
      /\ pc'[r] = "handler" /\ guarded'[r] /\ since'[r] = now
      /\ out' = out /\ now' = now /\ answer' = answer /\ driver' = driver
      /\ lock'.n = 1 /\ lock'.until = until
  BY <1>2 DEF TypeOK
<1>4. \A s \in Requests : s # r => (InFlight(s)' <=> InFlight(s)) /\ (Counts(s)' <=> Counts(s))
  BY <1>3 DEF InFlight, Counts
<1>5. InFlight(r)' BY <1>3 DEF InFlight
<1>6. Calm' BY <1>1, <1>3, <1>4 DEF Core, TypeOK, Calm
<1>7. Fresh' BY <1>3 DEF Fresh
<1>8. \A s \in Requests : Counts(s) => since[s] + Ttl <= now
  BY OpenIsLocked DEF Core
<1>9. Pinned' BY <1>3, <1>4, <1>8 DEF Core, TypeOK, Pinned
<1>10. Window' BY <1>3, <1>4, <1>8 DEF Core, TypeOK, Window
<1>11. ASSUME driver = "local" PROVE Local'
  <2>1. Backed' BY <1>5 DEF Backed
  <2>2. LookupSafe' BY <1>3, <1>11 DEF Core, Local, LookupSafe, Live
  <2>3. Truthful' BY <1>1, <1>3, <1>11 DEF Core, Local, Truthful
  <2>4. QED BY <1>3, <1>11, <2>1, <2>2, <2>3 DEF Core, Local
<1>12. QED BY <1>3, <1>6, <1>7, <1>9, <1>10, <1>11 DEF Core

\* A request that finds the counter above 0: it is sent to the lookup, and with
\* an atomic increment the lock says that there is something for it to find.
LEMMA LaterClaim ==
    ASSUME TypeOK, Core, NEW r \in Requests, pc[r] \in {"idle", "incrby"},
           Live(lock), lock.n # 0, Claimed(r, lock)
    PROVE  Core'
<1> USE IdempotencyConstants
<1>1. out[r] = "none" /\ lock.n \in Nat BY DEF Core, Calm, TypeOK
<1>2. /\ lock' = [n |-> lock.n + 1, until |-> lock.until]
      /\ guarded' = [guarded EXCEPT ![r] = FALSE]
      /\ since' = [since EXCEPT ![r] = now]
      /\ pc' = [pc EXCEPT ![r] = "lookup"]
      /\ busy' = [busy EXCEPT ![r] = \E s \in Requests : InFlight(s)]
      /\ UNCHANGED <<driver, now, answer, out>>
  <2>1. (lock.n = 0) = FALSE OBVIOUS
  <2> QED BY <2>1, Zenon DEF Claimed, Enter
<1>3. /\ \A s \in Requests : s # r => /\ pc'[s] = pc[s] /\ guarded'[s] = guarded[s]
                                     /\ since'[s] = since[s] /\ busy'[s] = busy[s]
      /\ pc'[r] = "lookup" /\ ~guarded'[r] /\ since'[r] = now
      /\ out' = out /\ now' = now /\ answer' = answer /\ driver' = driver
      /\ lock'.until = lock.until /\ lock'.n > 0
  BY <1>1, <1>2 DEF TypeOK
<1>4. busy'[r] = \E s \in Requests : InFlight(s)
  BY <1>2, Zenon DEF TypeOK
<1>5. \A s \in Requests : s # r => (InFlight(s)' <=> InFlight(s)) /\ (Counts(s)' <=> Counts(s))
  BY <1>3 DEF InFlight, Counts
<1>6. ~InFlight(r)' /\ ~Counts(r)' /\ ~InFlight(r)
  BY <1>3 DEF InFlight, Counts
<1>7. Calm' BY <1>1, <1>3, <1>5, <1>6 DEF Core, TypeOK, Calm
<1>8. Fresh' BY <1>3 DEF Fresh
<1>9. Pinned' BY <1>3, <1>5, <1>6 DEF Core, TypeOK, Pinned
<1>10. Window' BY <1>3, <1>5, <1>6 DEF Core, TypeOK, Window
<1>11. ASSUME driver = "local" PROVE Local'
  <2>1. (\E s \in Requests : InFlight(s)) \/ lock.until <= answer.until
    BY <1>11 DEF Core, Local, Backed
  <2>2. Backed' BY <1>3, <1>5, <1>6, <2>1 DEF Backed
  <2>3. busy'[r] \/ Live(answer)'
    BY <1>3, <1>4, <1>11, <2>1 DEF Core, Local, TypeOK, Live
  <2>4. LookupSafe' BY <1>3, <1>11, <2>3 DEF Core, Local, LookupSafe, Live
  <2>5. Truthful' BY <1>1, <1>3, <1>11 DEF Core, Local, Truthful
  <2>6. QED BY <1>3, <1>11, <2>2, <2>4, <2>5 DEF Core, Local
<1>12. QED BY <1>3, <1>7, <1>8, <1>9, <1>10, <1>11 DEF Core

\* Redis's SET NX: a counter at 0, with a deadline, unless there is one.
LEMMA SetNxStep ==
    ASSUME TypeOK, Core, NEW r \in Requests, SetNx(r)
    PROVE  Core'
<1> USE IdempotencyConstants
<1>1. /\ pc[r] = "idle" /\ driver = "redis" /\ pc' = [pc EXCEPT ![r] = "incrby"]
      /\ lock' = IF Live(lock) THEN lock ELSE [n |-> 0, until |-> now + Ttl]
      /\ UNCHANGED <<driver, now, answer, guarded, since, out, busy>>
  BY DEF SetNx, Enter, history
<1>2. /\ \A s \in Requests : s # r => pc'[s] = pc[s]
      /\ pc'[r] = "incrby"
  BY <1>1 DEF TypeOK
<1>3. \A s \in Requests : (InFlight(s)' <=> InFlight(s)) /\ (Counts(s)' <=> Counts(s))
  BY <1>1, <1>2 DEF InFlight, Counts
<1>4. Calm' BY <1>1, <1>2, <1>3 DEF Core, TypeOK, Calm
<1>5. Fresh'
  <2>1. CASE Live(lock) BY <1>1, <1>2, <2>1 DEF Core, Fresh, Live
  <2>2. CASE ~Live(lock) BY <1>1, <1>2, <2>2 DEF Fresh
  <2>3. QED BY <2>1, <2>2
<1>6. Pinned'
  <2>1. CASE Live(lock) BY <1>1, <1>3, <2>1 DEF Core, Pinned
  <2>2. CASE ~Live(lock)
    <3>1. \A s \in Requests : Counts(s) => since[s] + Ttl <= now
      BY <2>2, OpenIsLocked DEF Core
    <3>2. QED BY <1>1, <1>3, <3>1 DEF TypeOK, Pinned
  <2>3. QED BY <2>1, <2>2
<1>7. Window' BY <1>1, <1>3 DEF Core, Window
<1>8. QED BY <1>1, <1>4, <1>5, <1>6, <1>7 DEF Core

\* A request is answered from the lookup (handle, the branch claim > 1): a
\* conflict only when no answer lives.
LEMMA LookupStep ==
    ASSUME TypeOK, Core, NEW r \in Requests,
           Mismatch(r) \/ Replay(r) \/ Conflict(r)
    PROVE  Core'
<1> USE IdempotencyConstants
<1> DEFINE result == out'[r]
<1>1. /\ pc[r] = "lookup" /\ pc' = [pc EXCEPT ![r] = "done"]
      /\ out' = [out EXCEPT ![r] = result]
      /\ result \in {"mismatch", "replay", "conflict"}
      /\ result = "conflict" => ~Live(answer)
      /\ UNCHANGED <<driver, now, lock, answer, guarded, since, busy>>
  BY DEF TypeOK, Mismatch, Replay, Conflict, Reply, Enter, Live, store, history
<1>2. /\ \A s \in Requests : s # r => pc'[s] = pc[s] /\ out'[s] = out[s]
      /\ pc'[r] = "done" /\ out'[r] # "own"
  BY <1>1 DEF TypeOK
<1>3. /\ \A s \in Requests : (InFlight(s)' <=> InFlight(s)) /\ (Counts(s)' => Counts(s))
      /\ Live(lock)' <=> Live(lock)
      /\ Live(answer)' <=> Live(answer)
  BY <1>1, <1>2 DEF InFlight, Counts, Live
<1>4. Calm' BY <1>1, <1>2, <1>3 DEF Core, Calm
<1>5. Fresh' BY <1>1, <1>2, <1>3 DEF Core, Fresh
<1>6. Pinned' BY <1>1, <1>3 DEF Core, Pinned
<1>7. Window' BY <1>1, <1>3 DEF Core, Window
<1>8. ASSUME driver = "local" PROVE Local'
  <2>1. Backed' BY <1>1, <1>3, <1>8 DEF Core, Local, Backed
  <2>2. LookupSafe' BY <1>1, <1>2, <1>3, <1>8 DEF Core, Local, LookupSafe
  <2>3. out'[r] = "conflict" => busy[r] BY <1>1, <1>8 DEF Core, Local, LookupSafe
  <2>4. Truthful' BY <1>1, <1>2, <1>8, <2>3 DEF Core, Local, Truthful
  <2>5. QED BY <1>1, <1>2, <1>8, <2>1, <2>2, <2>4 DEF Core, Local
<1>9. QED BY <1>1, <1>4, <1>5, <1>6, <1>7, <1>8 DEF Core

\* The handler ends (handle, response.status.code() >= 500 or not): the
\* request stays in flight until its last cache call.
LEMMA HandlerStep ==
    ASSUME TypeOK, Core, NEW r \in Requests, HandlerOk(r) \/ HandlerError(r)
    PROVE  Core'
<1> USE IdempotencyConstants
<1>1. pc[r] = "handler" /\ guarded[r] /\ out[r] = "none"
  BY DEF Core, Calm, HandlerOk, HandlerError
<1>2. /\ \E p \in {"put", "forget"} : pc' = [pc EXCEPT ![r] = p]
      /\ UNCHANGED <<driver, now, lock, answer, guarded, since, out, busy>>
  BY <1>1 DEF HandlerOk, HandlerError, Enter, store, history
<1>3. /\ \A s \in Requests : s # r => pc'[s] = pc[s]
      /\ pc'[r] \in {"put", "forget"}
  BY <1>2 DEF TypeOK
<1>4. /\ \A s \in Requests : (InFlight(s)' <=> InFlight(s)) /\ (Counts(s)' <=> Counts(s))
      /\ Live(lock)' <=> Live(lock)
      /\ Live(answer)' <=> Live(answer)
  BY <1>1, <1>2, <1>3 DEF InFlight, Counts, Live
<1>5. Calm' BY <1>1, <1>2, <1>3, <1>4 DEF Core, Calm
<1>6. Fresh' BY <1>1, <1>2, <1>3, <1>4 DEF Core, Fresh
<1>7. Pinned' BY <1>2, <1>4 DEF Core, Pinned
<1>8. Window' BY <1>2, <1>4 DEF Core, Window
<1>9. ASSUME driver = "local" PROVE Local'
  <2>1. Backed' BY <1>2, <1>4, <1>9 DEF Core, Local, Backed
  <2>2. LookupSafe' BY <1>2, <1>3, <1>4, <1>9 DEF Core, Local, LookupSafe
  <2>3. Truthful' BY <1>2, <1>9 DEF Core, Local, Truthful
  <2>4. QED BY <1>2, <1>3, <1>9, <2>1, <2>2, <2>3 DEF Core, Local
<1>10. QED BY <1>2, <1>5, <1>6, <1>7, <1>8, <1>9 DEF Core

\* The answer is stored (handle, cache.put): it outlives the lock, which was
\* taken no later.
LEMMA PutStep ==
    ASSUME TypeOK, Core, NEW r \in Requests, Put(r)
    PROVE  Core'
<1> USE IdempotencyConstants
<1>1. pc[r] = "put" /\ guarded[r]
  BY DEF Core, Calm, Put
<1>2. /\ pc' = [pc EXCEPT ![r] = "done"] /\ out' = [out EXCEPT ![r] = "own"]
      /\ answer' = [by |-> r, until |-> now + Ttl]
      /\ UNCHANGED <<driver, now, lock, guarded, since, busy>>
  BY DEF Put, Reply, Enter, history
<1>3. /\ \A s \in Requests : s # r => pc'[s] = pc[s] /\ out'[s] = out[s]
      /\ pc'[r] = "done" /\ out'[r] = "own"
      /\ answer'.until = now + Ttl
  BY <1>2 DEF TypeOK
<1>4. /\ \A s \in Requests : (InFlight(s)' => InFlight(s)) /\ (Counts(s)' <=> Counts(s))
      /\ Live(lock)' <=> Live(lock)
      /\ Live(answer)'
  BY <1>1, <1>2, <1>3 DEF InFlight, Counts, Live, TypeOK
<1>5. Calm' BY <1>2, <1>3, <1>4 DEF Core, Calm
<1>6. Fresh' BY <1>1, <1>2, <1>3, <1>4 DEF Core, Fresh
<1>7. Pinned' BY <1>2, <1>4 DEF Core, Pinned
<1>8. Window' BY <1>2, <1>4 DEF Core, Window
<1>9. ASSUME driver = "local" PROVE Local'
  <2>1. Backed' BY <1>2, <1>3, <1>9 DEF Core, Calm, Local, Backed
  <2>2. LookupSafe' BY <1>4 DEF LookupSafe
  <2>3. Truthful' BY <1>2, <1>3, <1>9 DEF Core, Local, Truthful
  <2>4. QED BY <1>2, <1>3, <1>9, <2>1, <2>2, <2>3 DEF Core, Local
<1>10. QED BY <1>2, <1>5, <1>6, <1>7, <1>8, <1>9 DEF Core

\* The lock is let go of after an answer of 500 or above (handle,
\* cache.forget): the window of every other run that counts is over.
LEMMA ForgetStep ==
    ASSUME TypeOK, Core, NEW r \in Requests, Forget(r)
    PROVE  Core'
<1> USE IdempotencyConstants
<1>1. pc[r] = "forget" /\ guarded[r] /\ InFlight(r) /\ Counts(r)
  BY DEF Core, Calm, Forget, InFlight, Counts
<1>2. /\ pc' = [pc EXCEPT ![r] = "done"] /\ out' = [out EXCEPT ![r] = "failed"]
      /\ lock' = [n |-> 0, until |-> 0]
      /\ UNCHANGED <<driver, now, answer, guarded, since, busy>>
  BY DEF Forget, Reply, Enter, history
<1>3. /\ \A s \in Requests : s # r => pc'[s] = pc[s] /\ out'[s] = out[s]
      /\ pc'[r] = "done" /\ out'[r] = "failed"
      /\ lock'.until = 0
  BY <1>2 DEF TypeOK
<1>4. /\ \A s \in Requests : (InFlight(s)' => InFlight(s)) /\ (Counts(s)' => s # r /\ Counts(s))
      /\ ~Live(lock)'
      /\ Live(answer)' <=> Live(answer)
  BY <1>1, <1>2, <1>3 DEF InFlight, Counts, Live, TypeOK
<1>5. \A s \in Requests : s # r /\ Counts(s) => since[s] + Ttl <= now
  <2> SUFFICES ASSUME NEW s \in Requests, s # r, Counts(s) PROVE since[s] + Ttl <= now
    OBVIOUS
  <2>1. since[r] + Ttl <= since[s] \/ since[s] + Ttl <= since[r]
    BY <1>1 DEF Core, Window
  <2>2. since[s] <= now /\ since[r] <= now /\ now < since[r] + Ttl
    BY <1>1 DEF Core, Calm
  <2>3. QED BY <2>1, <2>2 DEF TypeOK
<1>6. Calm' BY <1>2, <1>3, <1>4 DEF Core, Calm, TypeOK
<1>7. Fresh' BY <1>4 DEF Fresh
<1>8. Pinned' BY <1>2, <1>4, <1>5 DEF Pinned, TypeOK
<1>9. Window' BY <1>2, <1>4 DEF Core, Window
<1>10. ASSUME driver = "local" PROVE Local'
  <2>1. Backed' BY <1>4 DEF Backed
  <2>2. LookupSafe' BY <1>2, <1>3, <1>4, <1>10 DEF Core, Local, LookupSafe
  <2>3. Truthful' BY <1>2, <1>3, <1>10 DEF Core, Local, Truthful
  <2>4. QED BY <1>2, <1>3, <1>10, <2>1, <2>2, <2>3 DEF Core, Local
<1>11. QED BY <1>2, <1>6, <1>7, <1>8, <1>9, <1>10 DEF Core

\* The clock: no lock expires under a request in flight, and none falls
\* between the calls that begin a request.
LEMMA TickStep ==
    ASSUME TypeOK, Core, Prompt, Tick
    PROVE  Core'
<1> USE IdempotencyConstants
<1>1. /\ now' = now + 1
      /\ UNCHANGED <<driver, lock, answer, pc, guarded, since, out, busy>>
      /\ \A r \in Requests : pc[r] \notin {"lookup", "incrby"}
                             /\ (InFlight(r) => now + 1 < since[r] + Ttl)
  BY DEF Tick, store, history
<1>2. /\ \A s \in Requests : (InFlight(s)' <=> InFlight(s)) /\ (Counts(s)' <=> Counts(s))
      /\ Live(lock)' => Live(lock)
  BY <1>1 DEF InFlight, Counts, Live, TypeOK
<1>3. Calm' BY <1>1, <1>2 DEF Core, Calm, TypeOK
<1>4. Fresh' BY <1>1, <1>2 DEF Core, Fresh
<1>5. Pinned' BY <1>1, <1>2 DEF Core, Pinned, TypeOK
<1>6. Window' BY <1>1, <1>2 DEF Core, Window
<1>7. ASSUME driver = "local" PROVE Local'
  <2>1. Backed' BY <1>1, <1>2, <1>7 DEF Core, Local, Backed
  <2>2. LookupSafe' BY <1>1 DEF LookupSafe
  <2>3. Truthful' BY <1>1, <1>7 DEF Core, Local, Truthful
  <2>4. QED BY <1>1, <1>7, <2>1, <2>2, <2>3 DEF Core, Local
<1>8. QED BY <1>1, <1>3, <1>4, <1>5, <1>6, <1>7 DEF Core

\* The increment of either driver (memory.rs bump; redis/mod.rs
\* increment_within): it creates the counter, finds the one a SET NX has just
\* created, or finds it taken.
LEMMA ClaimStep ==
    ASSUME TypeOK, Core, NEW r \in Requests, Claim(r) \/ IncrBy(r)
    PROVE  Core'
<1> USE IdempotencyConstants
<1>1. pc[r] \in {"idle", "incrby"}
  BY DEF Claim, IncrBy
<1>2. CASE Live(lock) /\ lock.n # 0
  <2>1. Claimed(r, lock) BY <1>2 DEF Claim, IncrBy
  <2>2. QED BY <1>1, <1>2, <2>1, LaterClaim
<1>3. CASE Live(lock) /\ lock.n = 0
  <2>1. Claimed(r, lock) BY <1>3 DEF Claim, IncrBy
  <2>2. lock.until = now + Ttl /\ now + Ttl # Never
    BY <1>3 DEF Core, Fresh, TypeOK
  <2>3. lock = [n |-> 0, until |-> now + Ttl]
    BY <1>3, <2>2 DEF TypeOK
  <2>4. Claimed(r, [n |-> 0, until |-> now + Ttl]) BY <2>1, <2>3
  <2>5. QED BY <1>1, <1>3, <2>2, <2>4, FirstClaim
<1>4. CASE ~Live(lock)
  <2>1. CASE Claim(r)
    <3>1. Claimed(r, [n |-> 0, until |-> now + Ttl]) BY <1>4, <2>1 DEF Claim
    <3>2. now + Ttl # Never BY DEF TypeOK
    <3>3. QED BY <1>1, <1>4, <3>1, <3>2, FirstClaim
  <2>2. CASE IncrBy(r)
    <3>1. Claimed(r, [n |-> 0, until |-> Never]) BY <1>4, <2>2 DEF IncrBy
    <3>2. driver # "local" BY <2>2 DEF IncrBy, Core, Local
    <3>3. QED BY <1>1, <1>4, <3>1, <3>2, FirstClaim
  <2>3. QED BY <2>1, <2>2
<1>5. QED BY <1>2, <1>3, <1>4

\* The strengthening holds at the start, and every step keeps it: a step that
\* uses up a fault leaves nothing to show.
LEMMA IdemInvStep ==
    ASSUME Prompt, IdemInv, [Next]_vars
    PROVE  IdemInv'
<1> USE IdempotencyConstants
<1>1. TypeOK /\ TypeOK' BY TypeStep DEF IdemInv
<1> SUFFICES ASSUME Undisturbed' PROVE Core'
  BY <1>1 DEF IdemInv
<1>2. ASSUME CacheError PROVE FALSE
  BY <1>1, <1>2 DEF CacheError, Undisturbed, TypeOK
<1>3. ASSUME NEW r \in Requests, Panic(r) PROVE FALSE
  BY <1>1, <1>3 DEF Panic, Undisturbed, TypeOK
<1>4. ASSUME UNCHANGED budget PROVE Core
  BY <1>4 DEF budget, Undisturbed, IdemInv
<1>5. CASE Tick
  BY <1>1, <1>4, <1>5, TickStep DEF Tick
<1>6. ASSUME NEW r \in Requests, handle(r) PROVE Core'
  <2>1. CASE Claim(r) \/ IncrBy(r)
    BY <1>1, <1>4, <2>1, ClaimStep DEF Claim, IncrBy, Claimed, budget
  <2>2. CASE SetNx(r)
    BY <1>1, <1>4, <2>2, SetNxStep DEF SetNx
  <2>3. CASE Mismatch(r) \/ Replay(r) \/ Conflict(r)
    BY <1>1, <1>4, <2>3, LookupStep DEF Mismatch, Replay, Conflict
  <2>4. CASE HandlerOk(r) \/ HandlerError(r)
    BY <1>1, <1>4, <2>4, HandlerStep DEF HandlerOk, HandlerError
  <2>5. CASE Put(r)
    BY <1>1, <1>4, <2>5, PutStep DEF Put
  <2>6. CASE Forget(r)
    BY <1>1, <1>4, <2>6, ForgetStep DEF Forget
  <2>7. CASE Panic(r) BY <1>3, <2>7
  <2>8. CASE ClaimFails(r) \/ LookupFails(r) \/ PutFails(r) \/ ForgetFails(r)
    BY <1>2, <2>8 DEF ClaimFails, LookupFails, PutFails, ForgetFails
  <2>9. QED BY <1>6, <2>1, <2>2, <2>3, <2>4, <2>5, <2>6, <2>7, <2>8 DEF handle
<1>7. CASE UNCHANGED vars
  <2>1. Core BY <1>4, <1>7 DEF vars
  <2>2. /\ UNCHANGED <<driver, now, lock, answer, pc, guarded, since, out, busy>>
        /\ \A s \in Requests : (InFlight(s)' <=> InFlight(s)) /\ (Counts(s)' <=> Counts(s))
        /\ Live(lock)' <=> Live(lock)
        /\ Live(answer)' <=> Live(answer)
    BY <1>7 DEF vars, store, history, InFlight, Counts, Live
  <2>3. Calm' /\ Fresh' BY <2>1, <2>2 DEF Core, Calm, Fresh
  <2>4. Pinned' /\ Window' BY <2>1, <2>2 DEF Core, Pinned, Window
  <2>5. Local' <=> Local BY <2>2 DEF Local, Backed, LookupSafe, Truthful
  <2>6. QED BY <2>1, <2>2, <2>3, <2>4, <2>5 DEF Core
<1>8. QED BY <1>5, <1>6, <1>7 DEF Next

\* With prompt handlers, on every driver: as long as no cache call has failed
\* and no request was cut off, a key runs once per window, and with an atomic
\* increment a 409 is given only while another request is in flight
\* (idempotency.rs handle).
THEOREM OncePerWindow ==
    ASSUME Prompt
    PROVE  Spec => [](RunsOncePerWindow /\ ConflictMeansRunning)
<1> USE IdempotencyConstants
<1>1. Init => IdemInv
  <2> SUFFICES ASSUME Init PROVE TypeOK /\ Core BY DEF IdemInv
  <2>1. TypeOK BY DEF Init, TypeOK, Places, Results
  <2>2. ~Live(lock) /\ \A r \in Requests : ~InFlight(r) /\ ~Counts(r)
    BY DEF Init, Live, InFlight, Counts
  <2>3. Calm BY <2>2 DEF Init, Calm
  <2>4. Fresh /\ Pinned /\ Window /\ Backed BY <2>2 DEF Fresh, Pinned, Window, Backed
  <2>5. Local BY <2>4 DEF Init, Local, LookupSafe, Truthful
  <2>6. QED BY <2>1, <2>3, <2>4, <2>5 DEF Core
<1>2. IdemInv /\ [Next]_vars => IdemInv' BY IdemInvStep
<1>3. IdemInv => RunsOncePerWindow /\ ConflictMeansRunning
  BY DEF IdemInv, Core, Window, Local, Truthful, RunsOncePerWindow, ConflictMeansRunning
<1>4. QED BY <1>1, <1>2, <1>3, PTL DEF Spec

\* With an atomic increment a 409 is given only while another request is in flight,
\* as long as no cache call has failed and no request was cut off.
THEOREM ConflictIsHonest == ASSUME Prompt PROVE Spec => []ConflictMeansRunning
BY OncePerWindow, PTL
-----------------------------------------------------------------------------
(* Replays, whatever fails and however slow the handlers are.               *)

\* A request is answered once, and only a protected one stores its answer.
Answered ==
    \A r \in Requests :
        /\ out[r] # "none" => pc[r] = "done"
        /\ pc[r] = "put" => guarded[r]

\* The author of what is stored ran protected and was answered below 500.
AuthorOk == answer.by # Nobody => guarded[answer.by] /\ out[answer.by] = "own"

\* A replayed answer has an author.
Sourced == \A r \in Requests : out[r] = "replay" => source[r] \in Requests

ReplayInv == TypeOK /\ Answered /\ AuthorOk /\ Sourced /\ ReplayIsFaithful

\* Most steps touch one request that is not answered yet, and no answer.
LEMMA ReplayKept ==
    ASSUME ReplayInv, TypeOK', NEW r \in Requests, pc[r] # "done",
           \A q \in Requests : q # r =>
               pc'[q] = pc[q] /\ guarded'[q] = guarded[q] /\ out'[q] = out[q] /\ source'[q] = source[q],
           out'[r] # "none" => pc'[r] = "done", pc'[r] = "put" => guarded'[r],
           answer' = answer, out'[r] # "replay"
    PROVE  ReplayInv'
<1> USE IdempotencyConstants
<1>1. out[r] = "none"
  BY DEF ReplayInv, Answered
<1>2. Answered'
  BY DEF ReplayInv, Answered
<1>3. AuthorOk'
  BY <1>1 DEF ReplayInv, AuthorOk, TypeOK
<1>4. ASSUME NEW q \in Requests, out'[q] = "replay"
      PROVE  source'[q] \in Requests /\ source'[q] # r /\ source'[q] = source[q]
             /\ Fingerprint[source[q]] = Fingerprint[q] /\ guarded[source[q]] /\ out[source[q]] = "own"
  <2>1. q # r /\ out[q] = "replay" /\ source'[q] = source[q]
    BY <1>4
  <2>2. Fingerprint[source[q]] = Fingerprint[q] /\ guarded[source[q]] /\ out[source[q]] = "own"
    BY <2>1 DEF ReplayInv, ReplayIsFaithful
  <2>3. source[q] \in Requests
    BY <2>1, <2>2 DEF ReplayInv, Sourced
  <2> QED
    BY <1>1, <2>1, <2>2, <2>3 DEF ReplayInv, TypeOK
<1>5. ReplayIsFaithful' /\ Sourced'
  BY <1>4 DEF ReplayIsFaithful, Sourced
<1> QED
  BY <1>2, <1>3, <1>5 DEF ReplayInv

LEMMA ReplayStep ==
    ASSUME ReplayInv, [Next]_vars
    PROVE  ReplayInv'
<1> USE IdempotencyConstants
<1>t. TypeOK /\ TypeOK'
  BY TypeStep DEF ReplayInv
<1>1. ASSUME NEW r \in Requests,
             \/ Claim(r) \/ SetNx(r) \/ IncrBy(r) \/ ClaimFails(r)
             \/ Mismatch(r) \/ Conflict(r) \/ LookupFails(r)
             \/ HandlerOk(r) \/ HandlerError(r) \/ Panic(r)
             \/ PutFails(r) \/ Forget(r) \/ ForgetFails(r)
      PROVE  ReplayInv'
  <2>1. pc[r] # "done" /\ answer' = answer
    BY <1>1 DEF Claim, SetNx, IncrBy, Claimed, ClaimFails, Mismatch, Conflict, LookupFails, HandlerOk,
                HandlerError, Panic, PutFails, Forget, ForgetFails, store
  <2>2. \A q \in Requests : q # r =>
            pc'[q] = pc[q] /\ guarded'[q] = guarded[q] /\ out'[q] = out[q] /\ source'[q] = source[q]
    <3>1. CASE Claim(r) \/ SetNx(r) \/ IncrBy(r) \/ ClaimFails(r) \/ LookupFails(r)
      BY <1>t, <3>1 DEF Claim, SetNx, IncrBy, Claimed, ClaimFails, LookupFails, Enter, TypeOK, history
    <3>2. CASE Mismatch(r) \/ Conflict(r) \/ HandlerOk(r) \/ HandlerError(r) \/ Panic(r)
      BY <1>t, <3>2 DEF Mismatch, Conflict, HandlerOk, HandlerError, Panic, Reply, Enter, TypeOK, history
    <3>3. CASE PutFails(r) \/ Forget(r) \/ ForgetFails(r)
      BY <1>t, <3>3 DEF PutFails, Forget, ForgetFails, Reply, Enter, TypeOK, history
    <3> QED
      BY <1>1, <3>1, <3>2, <3>3
  <2>3. out[r] = "none"
    BY <2>1 DEF ReplayInv, Answered
  <2>4. /\ out'[r] # "none" => pc'[r] = "done"
        /\ pc'[r] = "put" => guarded'[r]
        /\ out'[r] # "replay"
    <3>1. CASE Claim(r) \/ SetNx(r) \/ IncrBy(r) \/ ClaimFails(r) \/ LookupFails(r)
      BY <1>t, <2>3, <3>1 DEF Claim, SetNx, IncrBy, Claimed, ClaimFails, LookupFails, Enter, TypeOK
    <3>2. CASE Mismatch(r) \/ Conflict(r) \/ HandlerOk(r) \/ HandlerError(r) \/ Panic(r)
      BY <1>t, <2>3, <3>2 DEF Mismatch, Conflict, HandlerOk, HandlerError, Panic, Reply, Enter, TypeOK
    <3>3. CASE PutFails(r) \/ Forget(r) \/ ForgetFails(r)
      BY <1>t, <2>3, <3>3 DEF PutFails, Forget, ForgetFails, Reply, Enter, TypeOK
    <3> QED
      BY <1>1, <3>1, <3>2, <3>3
  <2> QED
    BY <1>t, <2>1, <2>2, <2>4, ReplayKept
<1>2. ASSUME NEW r \in Requests, Put(r) PROVE ReplayInv'
  <2>1. /\ pc[r] = "put" /\ pc' = [pc EXCEPT ![r] = "done"] /\ out' = [out EXCEPT ![r] = "own"]
        /\ guarded' = guarded /\ source' = source /\ answer' = [by |-> r, until |-> now + Ttl]
    BY <1>2 DEF Put, Reply, Enter, history
  <2>2. out[r] = "none" /\ guarded[r]
    BY <2>1 DEF ReplayInv, Answered
  <2>3. Answered' /\ AuthorOk'
    BY <1>t, <2>1, <2>2 DEF ReplayInv, Answered, AuthorOk, TypeOK
  <2>4. ASSUME NEW q \in Requests, out'[q] = "replay"
        PROVE  out[q] = "replay" /\ source[q] \in Requests /\ source[q] # r
    <3>1. out[q] = "replay"
      BY <1>t, <2>1, <2>4 DEF TypeOK
    <3> QED
      BY <2>2, <3>1 DEF ReplayInv, Sourced, ReplayIsFaithful
  <2>5. Sourced' /\ ReplayIsFaithful'
    BY <1>t, <2>1, <2>4 DEF ReplayInv, Sourced, ReplayIsFaithful, TypeOK
  <2> QED
    BY <1>t, <2>3, <2>5 DEF ReplayInv
<1>3. ASSUME NEW r \in Requests, Replay(r) PROVE ReplayInv'
  <2>1. /\ pc[r] = "lookup" /\ pc' = [pc EXCEPT ![r] = "done"] /\ out' = [out EXCEPT ![r] = "replay"]
        /\ source' = [source EXCEPT ![r] = answer.by]
        /\ guarded' = guarded /\ answer' = answer /\ Live(answer)
        /\ Fingerprint[answer.by] = Fingerprint[r]
    BY <1>3 DEF Replay, Reply, Enter, store
  <2>2. answer.by \in Requests
    BY <1>t, <2>1 DEF TypeOK, Live
  <2>3. guarded[answer.by] /\ out[answer.by] = "own" /\ out[r] = "none"
    BY <2>1, <2>2 DEF ReplayInv, AuthorOk, Answered
  <2>4. Answered' /\ AuthorOk'
    BY <1>t, <2>1, <2>2, <2>3 DEF ReplayInv, Answered, AuthorOk, TypeOK
  <2>5. ASSUME NEW q \in Requests, out'[q] = "replay", q # r
        PROVE  out[q] = "replay" /\ source'[q] = source[q] /\ source[q] \in Requests /\ source[q] # r
    <3>1. out[q] = "replay" /\ source'[q] = source[q]
      BY <1>t, <2>1, <2>5 DEF TypeOK
    <3> QED
      BY <2>3, <3>1 DEF ReplayInv, Sourced, ReplayIsFaithful
  <2>6. source'[r] = answer.by /\ answer.by # r
    BY <1>t, <2>1, <2>3 DEF TypeOK
  <2>7. Sourced' /\ ReplayIsFaithful'
    BY <1>t, <2>1, <2>2, <2>3, <2>5, <2>6 DEF ReplayInv, Sourced, ReplayIsFaithful, TypeOK
  <2> QED
    BY <1>t, <2>4, <2>7 DEF ReplayInv
<1>4. CASE Tick \/ UNCHANGED vars
  <2>1. pc' = pc /\ out' = out /\ guarded' = guarded /\ source' = source /\ answer' = answer
    BY <1>4 DEF Tick, vars, store, history
  <2> QED
    BY <1>t, <2>1 DEF ReplayInv, Answered, AuthorOk, Sourced, ReplayIsFaithful
<1> QED
  BY <1>1, <1>2, <1>3, <1>4 DEF Next, handle

\* On every driver, with any handlers, cache errors, panics and clock: what a retry
\* is given from the cache is the answer, below 500, that a protected run gave to
\* the same request (idempotency.rs handle).
THEOREM ReplaysAreFaithful == Spec => []ReplayIsFaithful
<1>1. Init => ReplayInv
  <2> SUFFICES ASSUME Init PROVE ReplayInv
    OBVIOUS
  <2>1. TypeOK
    BY IdempotencyConstants DEF Init, TypeOK, Places, Results
  <2> QED
    BY <2>1 DEF Init, ReplayInv, Answered, AuthorOk, Sourced, ReplayIsFaithful
<1>2. ReplayInv /\ [Next]_vars => ReplayInv'
  BY ReplayStep
<1>3. ReplayInv => ReplayIsFaithful
  BY DEF ReplayInv
<1> QED
  BY <1>1, <1>2, <1>3, PTL DEF Spec
-----------------------------------------------------------------------------
(***************************************************************************)
(* The other place where a retried request must not run twice: the receiver *)
(* of payment webhooks.  With the log in the database the handler finishes  *)
(* at most once per event, for any number of events and of overlapping      *)
(* deliveries and for any errors, faults and crashes.  The invariant: the   *)
(* record belongs to at most one running delivery, and to none once the     *)
(* handler has finished, so nobody is left who could withdraw it.           *)
(***************************************************************************)
OneRunning ==
    \A c, d \in Deliveries : Running(c) /\ Running(d) /\ event[c] = event[d] => c = d

FinishedStays ==
    \A e \in Events : handled[e] # 0 =>
        e \in log /\ \A d \in Deliveries : Running(d) => event[d] # e

ReceiverInv == ReceiverTypeOK /\ OneRunning /\ FinishedStays /\ HandledOnce

LEMMA ReceiverBegins == ReceiverInit => ReceiverInv
<1> SUFFICES ASSUME ReceiverInit
             PROVE  ReceiverInv
  OBVIOUS
<1>1. \A d \in Deliveries : ~Running(d)
  BY DEF ReceiverInit, Running
<1>2. ReceiverTypeOK
  BY <1>1 DEF ReceiverInit, ReceiverTypeOK
<1>3. \A e \in Events : handled[e] = 0
  BY DEF ReceiverInit
<1> QED
  BY <1>1, <1>2, <1>3 DEF ReceiverInv, OneRunning, FinishedStays, HandledOnce

\* A step after which only deliveries that ran before run, about what they
\* ran about, and which neither finishes a handler nor takes anything from
\* the log that a running or finished delivery needs.
LEMMA NothingStarted ==
    ASSUME ReceiverInv, ReceiverTypeOK',
           \A d \in Deliveries : Running(d)' => Running(d) /\ event'[d] = event[d],
           handled' = handled, log \subseteq log'
    PROVE  ReceiverInv'
<1>1. OneRunning'
  BY DEF ReceiverInv, OneRunning
<1>2. FinishedStays'
  BY DEF ReceiverInv, FinishedStays
<1>3. HandledOnce'
  BY DEF ReceiverInv, HandledOnce
<1> QED
  BY <1>1, <1>2, <1>3 DEF ReceiverInv

LEMMA ReceiverStep ==
    ASSUME Durable, ReceiverInv, [ReceiverNext]_receiverVars
    PROVE  ReceiverInv'
<1>t. ReceiverTypeOK /\ OneRunning /\ FinishedStays /\ HandledOnce
  BY DEF ReceiverInv
<1>1. ASSUME NEW d \in Deliveries, NEW e \in Events, Post(d, e)
      PROVE  ReceiverInv'
  <2>1. \A c \in Deliveries : Running(c)' => Running(c) /\ event'[c] = event[c]
    BY <1>1, <1>t DEF Post, Running, ReceiverTypeOK
  <2>2. ReceiverTypeOK'
    BY <1>1, <1>t, <2>1 DEF Post, ReceiverTypeOK
  <2> QED
    BY <1>1, <2>1, <2>2, NothingStarted DEF Post
<1>2. ASSUME NEW d \in Deliveries, RecordNew(d)
      PROVE  ReceiverInv'
  <2>1. event[d] \in Events /\ event' = event /\ handled' = handled
    BY <1>2, <1>t DEF RecordNew, ReceiverTypeOK
  <2>2. \A c \in Deliveries : Running(c)' <=> Running(c) \/ c = d
    BY <1>2, <1>t DEF RecordNew, Running, ReceiverTypeOK
  <2>3. ReceiverTypeOK'
    BY <1>2, <1>t, <2>1, <2>2 DEF RecordNew, ReceiverTypeOK
  <2>4. \A c \in Deliveries : Running(c) => event[c] # event[d]
    BY <1>2, <1>t DEF RecordNew, ReceiverTypeOK
  <2>5. OneRunning'
    BY <1>t, <2>1, <2>2, <2>4 DEF OneRunning
  <2>6. handled[event[d]] = 0
    BY <1>2, <1>t, <2>1 DEF RecordNew, FinishedStays
  <2>7. FinishedStays'
    BY <1>2, <1>t, <2>1, <2>2, <2>6 DEF RecordNew, FinishedStays
  <2> QED
    BY <1>t, <2>1, <2>3, <2>5, <2>7 DEF ReceiverInv, HandledOnce
<1>3. ASSUME NEW d \in Deliveries, Duplicate(d) \/ RecordFails(d)
      PROVE  ReceiverInv'
  <2>1. step' = [step EXCEPT ![d] = "idle"] /\ event' = event /\ handled' = handled /\ log \subseteq log'
    BY <1>3 DEF Duplicate, RecordFails, Answer200, Answer500
  <2>2. \A c \in Deliveries : Running(c)' => Running(c) /\ event'[c] = event[c]
    BY <2>1, <1>t DEF Running, ReceiverTypeOK
  <2>3. ReceiverTypeOK'
    BY <1>3, <1>t, <2>1, <2>2 DEF Duplicate, RecordFails, Answer200, Answer500, ReceiverTypeOK
  <2> QED
    BY <2>1, <2>2, <2>3, NothingStarted
<1>4. ASSUME NEW d \in Deliveries, HandlerFinishes(d)
      PROVE  ReceiverInv'
  <2>1. event[d] \in Events /\ event' = event /\ log' = log /\ Running(d) /\ event[d] \in log
    BY <1>4, <1>t DEF HandlerFinishes, Running, ReceiverTypeOK
  <2>2. \A c \in Deliveries : Running(c)' <=> Running(c) /\ c # d
    BY <1>4, <1>t DEF HandlerFinishes, Answer200, Running, ReceiverTypeOK
  <2>3. handled[event[d]] = 0
    BY <1>t, <2>1 DEF FinishedStays
  <2>4. handled' = [handled EXCEPT ![event[d]] = 1]
    BY <1>4, <1>t, <2>1, <2>3 DEF HandlerFinishes, ReceiverTypeOK
  <2>5. ReceiverTypeOK'
    BY <1>4, <1>t, <2>1, <2>2, <2>4 DEF HandlerFinishes, Answer200, ReceiverTypeOK
  <2>6. OneRunning'
    BY <1>t, <2>1, <2>2 DEF OneRunning
  <2>7. \A c \in Deliveries : Running(c) /\ c # d => event[c] # event[d]
    BY <1>t, <2>1 DEF OneRunning
  <2>8. FinishedStays'
    BY <1>t, <2>1, <2>2, <2>4, <2>7 DEF FinishedStays, ReceiverTypeOK
  <2>9. HandledOnce'
    BY <1>t, <2>1, <2>4 DEF HandledOnce, ReceiverTypeOK
  <2> QED
    BY <2>5, <2>6, <2>8, <2>9 DEF ReceiverInv
<1>5. ASSUME NEW d \in Deliveries, HandlerErr(d)
      PROVE  ReceiverInv'
  <2>1. \A c \in Deliveries : Running(c)' => Running(c) /\ event'[c] = event[c]
    BY <1>5, <1>t DEF HandlerErr, Running, ReceiverTypeOK
  <2>2. ReceiverTypeOK'
    BY <1>5, <1>t, <2>1 DEF HandlerErr, ReceiverTypeOK
  <2> QED
    BY <1>5, <2>1, <2>2, NothingStarted DEF HandlerErr
<1>6. ASSUME NEW d \in Deliveries, Withdraw(d)
      PROVE  ReceiverInv'
  <2>1. event[d] \in Events /\ event' = event /\ handled' = handled /\ Running(d)
        /\ log' = log \ {event[d]}
    BY <1>6, <1>t DEF Withdraw, Running, ReceiverTypeOK
  <2>2. \A c \in Deliveries : Running(c)' <=> Running(c) /\ c # d
    BY <1>6, <1>t DEF Withdraw, Answer500, Running, ReceiverTypeOK
  <2>3. \A c \in Deliveries : Running(c) /\ c # d => event[c] # event[d]
    BY <1>t, <2>1 DEF OneRunning
  <2>4. ReceiverTypeOK'
    BY <1>6, <1>t, <2>1, <2>2, <2>3 DEF Withdraw, Answer500, ReceiverTypeOK
  <2>5. OneRunning'
    BY <1>t, <2>1, <2>2 DEF OneRunning
  <2>6. handled[event[d]] = 0
    BY <1>t, <2>1 DEF FinishedStays
  <2>7. FinishedStays'
    BY <1>t, <2>1, <2>2, <2>6 DEF FinishedStays
  <2> QED
    BY <1>t, <2>1, <2>4, <2>5, <2>7 DEF ReceiverInv, HandledOnce
<1>7. ASSUME NEW d \in Deliveries, WithdrawFails(d) \/ HandlerPanics(d)
      PROVE  ReceiverInv'
  <2>1. step' = [step EXCEPT ![d] = "idle"] /\ event' = event /\ handled' = handled /\ log' = log
        /\ acked' = acked /\ orphaned' = orphaned \cup {event[d]}
    BY <1>7 DEF WithdrawFails, HandlerPanics, Answer500
  <2>2. \A c \in Deliveries : Running(c)' => Running(c) /\ event'[c] = event[c]
    BY <2>1, <1>t DEF Running, ReceiverTypeOK
  <2>3. ReceiverTypeOK'
    BY <1>t, <2>1, <2>2 DEF ReceiverTypeOK
  <2> QED
    BY <2>1, <2>2, <2>3, NothingStarted
<1>8. CASE Restart
  <2>1. \A c \in Deliveries : ~Running(c)'
    BY <1>8 DEF Restart, Running
  <2>2. event' = event /\ handled' = handled /\ log' = log /\ acked' = acked
        /\ step' = [d \in Deliveries |-> "idle"]
    BY <1>8 DEF Restart
  <2>3. orphaned' \subseteq Events
    BY <1>8, <1>t DEF Restart, ReceiverTypeOK
  <2>4. ReceiverTypeOK'
    BY <1>t, <2>1, <2>2, <2>3 DEF ReceiverTypeOK
  <2> QED
    BY <2>1, <2>2, <2>4, NothingStarted
<1>9. CASE UNCHANGED receiverVars
  <2>1. \A c \in Deliveries : Running(c)' => Running(c) /\ event'[c] = event[c]
    BY <1>9 DEF receiverVars, Running
  <2>2. ReceiverTypeOK'
    BY <1>9, <1>t, <2>1 DEF receiverVars, ReceiverTypeOK
  <2> QED
    BY <1>9, <2>1, <2>2, NothingStarted DEF receiverVars
<1> QED
  BY <1>1, <1>2, <1>3, <1>4, <1>5, <1>6, <1>7, <1>8, <1>9 DEF ReceiverNext, Receive

\* With the webhook log in the database, a handler that finished for an event
\* is never run to the end again: however the gateway retries and overlaps its
\* deliveries, whatever fails, panics or restarts.
THEOREM FinishedHandlerNeverReruns ==
    ASSUME Durable
    PROVE  ReceiverSpec => [](ReceiverTypeOK /\ HandledOnce)
<1>1. ReceiverInv /\ [ReceiverNext]_receiverVars => ReceiverInv'
  BY ReceiverStep
<1>2. ReceiverSpec => []ReceiverInv
  BY ReceiverBegins, <1>1, PTL DEF ReceiverSpec
<1>3. ReceiverInv => ReceiverTypeOK /\ HandledOnce
  BY DEF ReceiverInv
<1> QED
  BY <1>2, <1>3, PTL
-----------------------------------------------------------------------------
(* Records have owners.                                                     *)

Owned(e) ==
    handled[e] = 1 \/ e \in orphaned \/ \E d \in Deliveries : Running(d) /\ event[d] = e

\* An owner that does not end a delivery keeps its record, and one that strands it
\* is written down.
LEMMA OwnersKept ==
    ASSUME \A d \in Deliveries : Running(d) => \/ Running(d)' /\ event'[d] = event[d]
                                               \/ event[d] \in orphaned',
           handled' = handled, orphaned \subseteq orphaned', NEW e, Owned(e)
    PROVE  Owned(e)'
BY DEF Owned

LEMMA OwnedStep ==
    ASSUME Durable, ReceiverInv, RecordedIsOwned, [ReceiverNext]_receiverVars
    PROVE  RecordedIsOwned'
<1> SUFFICES ASSUME NEW e \in log' PROVE Owned(e)'
  BY DEF RecordedIsOwned, Owned
<1>t. ReceiverTypeOK /\ OneRunning /\ FinishedStays /\ HandledOnce
  BY DEF ReceiverInv
<1>o. e \in log => Owned(e)
  BY DEF RecordedIsOwned, Owned
<1>1. ASSUME NEW d \in Deliveries, NEW f \in Events, Post(d, f) PROVE Owned(e)'
  <2>1. \A c \in Deliveries : Running(c) => Running(c)' /\ event'[c] = event[c]
    BY <1>1, <1>t DEF Post, Running, ReceiverTypeOK
  <2> QED
    BY <1>1, <1>o, <2>1, OwnersKept DEF Post
<1>2. ASSUME NEW d \in Deliveries, RecordNew(d) PROVE Owned(e)'
  <2>1. event' = event /\ handled' = handled /\ orphaned' = orphaned /\ log' = log \cup {event[d]}
    BY <1>2 DEF RecordNew
  <2>2. \A c \in Deliveries : Running(c)' <=> Running(c) \/ c = d
    BY <1>2, <1>t DEF RecordNew, Running, ReceiverTypeOK
  <2>3. CASE e = event[d]
    BY <2>1, <2>2, <2>3 DEF Owned
  <2>4. CASE e \in log
    BY <1>o, <2>1, <2>2, <2>4, OwnersKept
  <2> QED
    BY <2>1, <2>3, <2>4
<1>3. ASSUME NEW d \in Deliveries, Duplicate(d) \/ RecordFails(d) PROVE Owned(e)'
  <2>1. step[d] = "record" /\ step' = [step EXCEPT ![d] = "idle"] /\ event' = event /\ handled' = handled
        /\ orphaned \subseteq orphaned' /\ (e \in log \/ e \in orphaned')
    BY <1>3 DEF Duplicate, RecordFails, Answer200, Answer500
  <2>2. \A c \in Deliveries : Running(c) => Running(c)' /\ event'[c] = event[c]
    BY <2>1, <1>t DEF Running, ReceiverTypeOK
  <2>3. CASE e \in log
    BY <1>o, <2>1, <2>2, <2>3, OwnersKept
  <2>4. CASE e \in orphaned'
    BY <2>4 DEF Owned
  <2> QED
    BY <2>1, <2>3, <2>4
<1>4. ASSUME NEW d \in Deliveries, HandlerFinishes(d) PROVE Owned(e)'
  <2>1. event[d] \in Events /\ event' = event /\ log' = log /\ Running(d) /\ orphaned' = orphaned
    BY <1>4, <1>t DEF HandlerFinishes, Running, ReceiverTypeOK
  <2>2. \A c \in Deliveries : Running(c)' <=> Running(c) /\ c # d
    BY <1>4, <1>t DEF HandlerFinishes, Answer200, Running, ReceiverTypeOK
  <2>3. handled[event[d]] = 0
    BY <1>t, <2>1 DEF FinishedStays
  <2>4. handled' = [handled EXCEPT ![event[d]] = 1] /\ e \in Events
    BY <1>4, <1>t, <2>1, <2>3 DEF HandlerFinishes, ReceiverTypeOK
  <2>5. CASE e = event[d]
    BY <1>t, <2>4, <2>5 DEF Owned, ReceiverTypeOK
  <2>6. CASE e # event[d]
    BY <1>t, <1>o, <2>1, <2>2, <2>4, <2>6 DEF Owned, ReceiverTypeOK
  <2> QED
    BY <2>5, <2>6
<1>5. ASSUME NEW d \in Deliveries, HandlerErr(d) PROVE Owned(e)'
  <2>1. \A c \in Deliveries : Running(c) => Running(c)' /\ event'[c] = event[c]
    BY <1>5, <1>t DEF HandlerErr, Running, ReceiverTypeOK
  <2> QED
    BY <1>5, <1>o, <2>1, OwnersKept DEF HandlerErr
<1>6. ASSUME NEW d \in Deliveries, Withdraw(d) PROVE Owned(e)'
  <2>1. event' = event /\ handled' = handled /\ orphaned' = orphaned /\ log' = log \ {event[d]}
    BY <1>6 DEF Withdraw
  <2>2. \A c \in Deliveries : Running(c) /\ c # d => Running(c)'
    BY <1>6, <1>t DEF Withdraw, Answer500, Running, ReceiverTypeOK
  <2> QED
    BY <1>o, <2>1, <2>2 DEF Owned
<1>7. ASSUME NEW d \in Deliveries, WithdrawFails(d) \/ HandlerPanics(d) PROVE Owned(e)'
  <2>1. step' = [step EXCEPT ![d] = "idle"] /\ event' = event /\ handled' = handled /\ log' = log
        /\ orphaned' = orphaned \cup {event[d]}
    BY <1>7 DEF WithdrawFails, HandlerPanics, Answer500
  <2>2. \A c \in Deliveries : Running(c) /\ c # d => Running(c)'
    BY <2>1, <1>t DEF Running, ReceiverTypeOK
  <2> QED
    BY <1>o, <2>1, <2>2, OwnersKept
<1>8. CASE Restart
  <2>1. handled' = handled /\ log' = log
        /\ orphaned' = orphaned \cup {event[d] : d \in {x \in Deliveries : Running(x)}}
    BY <1>8 DEF Restart
  <2> QED
    BY <1>o, <2>1, OwnersKept
<1>9. CASE UNCHANGED receiverVars
  BY <1>9, <1>o, OwnersKept DEF receiverVars, Running
<1> QED
  BY <1>1, <1>2, <1>3, <1>4, <1>5, <1>6, <1>7, <1>8, <1>9 DEF ReceiverNext, Receive

\* With the log in the database, a record without a running delivery stands for a
\* finished handler, or for one of the failures of `deliver' that strand it: an
\* event is never silently dropped as a duplicate of nothing.
THEOREM RecordsHaveOwners ==
    ASSUME Durable
    PROVE  ReceiverSpec => []RecordedIsOwned
<1>1. ReceiverInit => RecordedIsOwned
  BY DEF ReceiverInit, RecordedIsOwned
<1>2. ReceiverInv /\ [ReceiverNext]_receiverVars => ReceiverInv'
  BY ReceiverStep
<1>3. ReceiverInv /\ RecordedIsOwned /\ [ReceiverNext]_receiverVars => RecordedIsOwned'
  BY OwnedStep
<1> QED
  BY ReceiverBegins, <1>1, <1>2, <1>3, PTL DEF ReceiverSpec
=============================================================================
