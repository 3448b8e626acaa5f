-------------------------- MODULE Scheduler_proofs --------------------------
(***************************************************************************)
(* The scheduler and the in-process queue, for any schedule, any number of  *)
(* tasks and workers, and any clock.                                        *)
(*                                                                          *)
(* NoOverlap needs what an exclusive event's flag says of its runs (FlagInv). *)
(* MinutesTickedOnce needs where the loop is within the minute: what it waits *)
(* for begins with the next one at the latest, and the minutes before were  *)
(* asked about or were lost to it (TicksInv).  MemoryKeepsContract needs that *)
(* an id is in one place at a time, between the atomic counter and the list *)
(* (IdInv).  NextRunsAreRight is about next_after, and takes the second half *)
(* of this module.                                                          *)
(***************************************************************************)
EXTENDS Scheduler, FiniteSetTheorems, SequenceTheorems, WellFoundedInduction, TLAPS

-----------------------------------------------------------------------------
(* Minutes.                                                                 *)

LEMMA MinuteBounds ==
    ASSUME NEW t \in Nat
    PROVE  /\ StartOfMinute(t) \in Nat
           /\ StartOfMinute(t) <= t /\ t < StartOfMinute(t) + Minute
<1>1. Minute \in Nat /\ Minute > 0
  BY CalendarConstants
<1>2. t % Minute \in Nat /\ t % Minute < Minute /\ t % Minute <= t
  BY <1>1
<1> QED
  BY <1>1, <1>2 DEF StartOfMinute

LEMMA MinuteWhole ==
    ASSUME NEW t \in Nat
    PROVE  \E q \in Nat : StartOfMinute(t) = Minute * q
<1>1. Minute \in Nat /\ Minute > 0
  BY CalendarConstants
<1>2. t \div Minute \in Nat /\ t = Minute * (t \div Minute) + (t % Minute)
  BY <1>1
<1> QED
  BY <1>1, <1>2 DEF StartOfMinute

LEMMA MinutesApart ==
    ASSUME NEW t \in Nat, NEW u \in Nat, StartOfMinute(t) < StartOfMinute(u)
    PROVE  StartOfMinute(t) + Minute <= StartOfMinute(u)
<1>1. Minute \in Nat /\ Minute > 0
  BY CalendarConstants
<1>2. PICK q \in Nat : StartOfMinute(t) = Minute * q
  BY MinuteWhole
<1>3. PICK p \in Nat : StartOfMinute(u) = Minute * p
  BY MinuteWhole
<1>4. q < p
  <2>1. SUFFICES ASSUME p <= q PROVE FALSE
    OBVIOUS
  <2>2. Minute * p <= Minute * q
    BY <1>1, <2>1
  <2>3. Minute * q < Minute * p
    BY <1>2, <1>3
  <2> QED
    BY <1>1, <2>2, <2>3
<1>5. Minute * (q + 1) <= Minute * p
  BY <1>1, <1>4
<1>6. Minute * (q + 1) = Minute * q + Minute
  BY <1>1
<1> QED
  BY <1>2, <1>3, <1>5, <1>6

\* Time never goes back.
LEMMA MinutesOrdered ==
    ASSUME NEW t \in Nat, NEW u \in Nat, t <= u
    PROVE  StartOfMinute(t) <= StartOfMinute(u)
<1>1. /\ Minute \in Nat
      /\ StartOfMinute(t) \in Nat /\ StartOfMinute(t) <= t
      /\ StartOfMinute(u) \in Nat /\ u < StartOfMinute(u) + Minute
  BY MinuteBounds, CalendarConstants
<1>2. SUFFICES ASSUME StartOfMinute(u) < StartOfMinute(t) PROVE FALSE
  BY <1>1
<1>3. StartOfMinute(u) + Minute <= StartOfMinute(t)
  BY <1>2, MinutesApart
<1> QED
  BY <1>1, <1>3

\* A second later it is the same minute or the beginning of the next.
LEMMA NextMinute ==
    ASSUME NEW t \in Nat, StartOfMinute(t + 1) # StartOfMinute(t)
    PROVE  StartOfMinute(t + 1) = StartOfMinute(t) + Minute
<1>1. Minute \in Nat /\ Minute > 0 /\ t + 1 \in Nat
  BY CalendarConstants
<1>2. StartOfMinute(t) <= StartOfMinute(t + 1)
  BY <1>1, MinutesOrdered
<1>b. StartOfMinute(t) \in Nat /\ StartOfMinute(t + 1) \in Nat
  BY <1>1, MinuteBounds
<1>3. StartOfMinute(t) + Minute <= StartOfMinute(t + 1)
  <2>1. StartOfMinute(t) < StartOfMinute(t + 1)
    BY <1>2, <1>b
  <2> QED
    BY <1>1, <2>1, MinutesApart
<1>4. StartOfMinute(t + 1) <= t + 1 /\ t + 1 <= StartOfMinute(t) + Minute
  BY <1>1, MinuteBounds
<1> QED
  BY <1>1, <1>b, <1>3, <1>4
-----------------------------------------------------------------------------
(* Types.                                                                   *)

\* A worker past `pop' has an entry; one that will be put back has tries left,
\* and so has every entry on the list.
HandsOK ==
    /\ \A w \in Workers : at[w] # "idle" <=> held[w] # Null
    /\ \A w \in Workers : at[w] = "release" => held[w].attempts < MaxTries
    /\ \A k \in DOMAIN ready : ready[k].attempts < MaxTries

\* A run between the two halves of its push has what the second half needs.
PushesOK ==
    \A r \in RunSlots : (runs[r] # Null /\ runs[r].at = "push") =>
        (runs[r].id \in Ids /\ runs[r].due \in Nat)

\* What RemoveAt leaves: the entries before and after the one it takes out.
LEMMA RemovedAt ==
    ASSUME NEW S, NEW s \in Seq(S), NEW k \in DOMAIN s
    PROVE  /\ RemoveAt(s, k) \in Seq(S) /\ Len(RemoveAt(s, k)) = Len(s) - 1
           /\ \A m \in 1 .. Len(s) - 1 : RemoveAt(s, k)[m] = IF m < k THEN s[m] ELSE s[m + 1]
<1>0. Len(s) \in Nat /\ DOMAIN s = 1 .. Len(s) /\ k \in 1 .. Len(s)
  OBVIOUS
<1>1. /\ SubSeq(s, 1, k - 1) \in Seq(S) /\ Len(SubSeq(s, 1, k - 1)) = k - 1
      /\ \A m \in 1 .. k - 1 : SubSeq(s, 1, k - 1)[m] = s[m]
  BY <1>0
<1>2. /\ SubSeq(s, k + 1, Len(s)) \in Seq(S) /\ Len(SubSeq(s, k + 1, Len(s))) = Len(s) - k
      /\ \A m \in 1 .. Len(s) - k : SubSeq(s, k + 1, Len(s))[m] = s[m + k]
  BY <1>0
<1>3. RemoveAt(s, k) = SubSeq(s, 1, k - 1) \o SubSeq(s, k + 1, Len(s))
  BY DEF RemoveAt
<1>4. RemoveAt(s, k) \in Seq(S) /\ Len(RemoveAt(s, k)) = Len(s) - 1
  <2>1. RemoveAt(s, k) \in Seq(S)
    BY <1>1, <1>2, <1>3, ConcatProperties
  <2>2. Len(RemoveAt(s, k)) = (k - 1) + (Len(s) - k)
    BY <1>1, <1>2, <1>3, ConcatProperties
  <2> QED
    BY <1>0, <2>1, <2>2
<1>5. ASSUME NEW m \in 1 .. Len(s) - 1
      PROVE  RemoveAt(s, k)[m] = IF m < k THEN s[m] ELSE s[m + 1]
  <2>1. CASE m < k
    BY <1>0, <1>1, <1>2, <1>3, <1>5, <2>1
  <2>2. CASE ~(m < k)
    <3>1. m - (k - 1) \in 1 .. Len(s) - k /\ m \in k .. Len(s) - 1
      BY <1>0, <1>5, <2>2
    <3>2. RemoveAt(s, k)[m] = SubSeq(s, k + 1, Len(s))[m - (k - 1)]
      <4>1. m \in 1 .. (k - 1) + (Len(s) - k) /\ ~(m <= k - 1)
        BY <1>0, <1>5, <2>2
      <4>2. \A a, b \in Seq(S) : \A i \in 1 .. Len(a) + Len(b) :
               ~(i <= Len(a)) => (a \o b)[i] = b[i - Len(a)]
        BY ConcatProperties
      <4>3. PICK a \in Seq(S) : a = SubSeq(s, 1, k - 1)
        BY <1>1
      <4>4. PICK b \in Seq(S) : b = SubSeq(s, k + 1, Len(s))
        BY <1>2
      <4>5. Len(a) = k - 1 /\ Len(b) = Len(s) - k
        BY <1>1, <1>2, <4>3, <4>4
      <4>6. (a \o b)[m] = b[m - (k - 1)]
        BY <4>1, <4>2, <4>5
      <4> QED
        BY <1>3, <4>3, <4>4, <4>6
    <3>3. SubSeq(s, k + 1, Len(s))[m - (k - 1)] = s[(m - (k - 1)) + k]
      BY <1>2, <3>1
    <3>4. (m - (k - 1)) + k = m + 1
      BY <1>0, <1>5
    <3> QED
      BY <2>2, <3>2, <3>3, <3>4
  <2> QED
    BY <2>1, <2>2
<1> QED
  BY <1>4, <1>5

LEMMA BackoffType == ASSUME NEW a \in Nat PROVE Backoff(a) \in Int
  BY MemoryQueueConstants, SMT DEF Backoff

QueueOK == QueueTypeOK /\ HandsOK

\* A new list: the same entries, some taken out or one put at the end.
LEMMA ListAppended ==
    ASSUME QueueOK, NEW e \in Entry, e.attempts < MaxTries
    PROVE  /\ Append(ready, e) \in Seq(Entry)
           /\ \A k \in DOMAIN Append(ready, e) : Append(ready, e)[k].attempts < MaxTries
<1>1. ready \in Seq(Entry)
  BY DEF QueueOK, QueueTypeOK
<1>2. \A k \in 1 .. Len(ready) : ready[k].attempts < MaxTries
  BY <1>1 DEF QueueOK, HandsOK
<1>3. /\ Append(ready, e) \in Seq(Entry)
      /\ DOMAIN Append(ready, e) = 1 .. Len(ready) + 1
      /\ \A k \in 1 .. Len(ready) : Append(ready, e)[k] = ready[k]
      /\ Append(ready, e)[Len(ready) + 1] = e
  BY <1>1, AppendProperties
<1> QED
  BY <1>1, <1>2, <1>3

LEMMA PopTypes ==
    ASSUME QueueOK, now \in Nat, NEW w \in Workers, Pop(w)
    PROVE  QueueOK'
<1>0. QueueTypeOK /\ HandsOK /\ ready \in Seq(Entry)
  BY DEF QueueOK, QueueTypeOK
<1>1. PICK k \in DOMAIN ready :
        /\ ready' = RemoveAt(ready, k)
        /\ held' = [held EXCEPT ![w] = [ready[k] EXCEPT !.attempts = ready[k].attempts + 1]]
  BY DEF Pop
<1>2. /\ at' = [at EXCEPT ![w] = "running"]
      /\ UNCHANGED <<nextId, failed, clears, pushed>>
  BY DEF Pop
<1>3. ready[k] \in Entry /\ ready[k].attempts < MaxTries
  BY <1>0 DEF HandsOK
<1>4. PICK e : e = [ready[k] EXCEPT !.attempts = ready[k].attempts + 1]
  OBVIOUS
<1>5. e \in Entry /\ e # Null
  <2>1. e \in Entry
    BY <1>3, <1>4, MemoryQueueConstants DEF Entry
  <2> QED
    BY <2>1, MemoryQueueConstants
<1>6. held' = [held EXCEPT ![w] = e]
  BY <1>1, <1>4
<1>7. ready' \in Seq(Entry) /\ \A m \in DOMAIN ready' : ready'[m].attempts < MaxTries
  <2>1. /\ ready' \in Seq(Entry) /\ DOMAIN ready' = 1 .. Len(ready) - 1
        /\ \A m \in 1 .. Len(ready) - 1 : ready'[m] = IF m < k THEN ready[m] ELSE ready[m + 1]
    BY <1>0, <1>1, RemovedAt
  <2>2. \A m \in 1 .. Len(ready) : ready[m].attempts < MaxTries
    BY <1>0 DEF HandsOK
  <2> QED
    BY <1>0, <2>1, <2>2
<1>8. QueueTypeOK'
  BY <1>0, <1>2, <1>5, <1>6, <1>7 DEF QueueTypeOK
<1>9. HandsOK'
  BY <1>0, <1>2, <1>5, <1>6, <1>7 DEF HandsOK, QueueTypeOK
<1> QED
  BY <1>8, <1>9 DEF QueueOK

LEMMA ReleaseTypes ==
    ASSUME QueueOK, now \in Nat, NEW w \in Workers, Release(w)
    PROVE  QueueOK'
<1>0. QueueTypeOK /\ HandsOK
  BY DEF QueueOK
<1>1. held[w] \in Entry /\ held[w].attempts < MaxTries
  BY <1>0 DEF Release, HandsOK, QueueTypeOK
<1>2. PICK t : t = now + Backoff(held[w].attempts)
  OBVIOUS
<1>3. t \in Int
  BY <1>1, <1>2, BackoffType DEF Entry
<1>4. PICK e : e = [held[w] EXCEPT !.availableAt = t]
  OBVIOUS
<1>5. e \in Entry /\ e.attempts < MaxTries
  BY <1>1, <1>3, <1>4 DEF Entry
<1>6. /\ ready' = Append(ready, e)
      /\ at' = [at EXCEPT ![w] = "idle"] /\ held' = [held EXCEPT ![w] = Null]
      /\ UNCHANGED <<nextId, failed, clears, pushed>>
  BY <1>2, <1>4 DEF Release
<1>7. ready' \in Seq(Entry) /\ \A m \in DOMAIN ready' : ready'[m].attempts < MaxTries
  BY <1>5, <1>6, ListAppended
<1>8. QueueTypeOK'
  BY <1>0, <1>6, <1>7 DEF QueueTypeOK
<1>9. HandsOK'
  BY <1>0, <1>6, <1>7 DEF HandsOK, QueueTypeOK
<1> QED
  BY <1>8, <1>9 DEF QueueOK

LEMMA WorkerTypes ==
    ASSUME QueueOK, now \in Nat, NEW w \in Workers, WorkerStep(w)
    PROVE  QueueOK'
<1>0. QueueTypeOK /\ HandsOK
  BY DEF QueueOK
<1>1. CASE HandlerOk(w)
  <2>1. QueueTypeOK'
    BY <1>0, <1>1 DEF HandlerOk, QueueTypeOK
  <2>2. HandsOK'
    BY <1>0, <1>1 DEF HandlerOk, QueueTypeOK, HandsOK
  <2> QED
    BY <2>1, <2>2 DEF QueueOK
<1>2. CASE HandlerErr(w)
  <2>1. QueueTypeOK'
    BY <1>0, <1>2 DEF HandlerErr, QueueTypeOK
  <2>2. held[w] \in Entry
    BY <1>0, <1>2 DEF HandlerErr, QueueTypeOK, HandsOK
  <2>3. held[w].attempts \in Nat /\ MaxTries \in Nat
    BY <2>2, MemoryQueueConstants DEF Entry
  <2>4. HandsOK'
    BY <1>0, <1>2, <2>3 DEF HandlerErr, QueueTypeOK, HandsOK
  <2> QED
    BY <2>1, <2>4 DEF QueueOK
<1>3. CASE Fail(w)
  <2>1. held[w] \in Entry
    BY <1>0, <1>3 DEF Fail, QueueTypeOK, HandsOK
  <2>2. failed' \in Seq(Entry)
    BY <1>0, <1>3, <2>1, AppendProperties DEF Fail, QueueTypeOK
  <2>3. QueueTypeOK'
    BY <1>0, <1>3, <2>2 DEF Fail, QueueTypeOK
  <2>4. HandsOK'
    BY <1>0, <1>3 DEF Fail, QueueTypeOK, HandsOK
  <2> QED
    BY <2>3, <2>4 DEF QueueOK
<1> QED
  BY <1>1, <1>2, <1>3, PopTypes, ReleaseTypes DEF WorkerStep

LEMMA EnqueueTypes ==
    ASSUME QueueOK, NEW i \in Ids, NEW j \in Jobs, NEW d \in Nat, Enqueue(i, j, d)
    PROVE  QueueOK'
<1>0. QueueTypeOK /\ HandsOK
  BY DEF QueueOK
<1>1. PICK e : e = [id |-> i, job |-> j, attempts |-> 0, availableAt |-> d]
  OBVIOUS
<1>2. e \in Entry /\ e.attempts < MaxTries
  BY <1>1, MemoryQueueConstants DEF Entry
<1>3. ready' = Append(ready, e) /\ pushed' = pushed \cup {i} /\ UNCHANGED <<nextId, failed, at, held, clears>>
  BY <1>1 DEF Enqueue
<1>4. ready' \in Seq(Entry) /\ \A m \in DOMAIN ready' : ready'[m].attempts < MaxTries
  BY <1>2, <1>3, ListAppended
<1>5. QueueTypeOK'
  BY <1>0, <1>3, <1>4 DEF QueueTypeOK
<1>6. HandsOK'
  BY <1>0, <1>3, <1>4 DEF HandsOK, QueueTypeOK
<1> QED
  BY <1>5, <1>6 DEF QueueOK

\* The other calls of the queue, and the steps that make none.
LEMMA OtherTypes ==
    ASSUME QueueOK, TakeId \/ Clear \/ FlushFailed \/ UNCHANGED queueVars
    PROVE  QueueOK'
<1>0. QueueTypeOK /\ HandsOK
  BY DEF QueueOK
<1>1. CASE TakeId
  BY <1>0, <1>1, MemoryQueueConstants DEF TakeId, QueueOK, QueueTypeOK, HandsOK, Ids
<1>2. CASE Clear
  <2>1. ready' = <<>> /\ clears' = clears + 1 /\ clears < MaxClears
        /\ UNCHANGED <<nextId, failed, at, held, pushed>>
    BY <1>2 DEF Clear
  <2> QED
    BY <1>0, <2>1, MemoryQueueConstants DEF QueueOK, QueueTypeOK, HandsOK
<1>3. CASE FlushFailed
  <2>1. failed' = <<>> /\ clears' = clears + 1 /\ clears < MaxClears
        /\ UNCHANGED <<nextId, ready, at, held, pushed>>
    BY <1>3 DEF FlushFailed
  <2> QED
    BY <1>0, <2>1, MemoryQueueConstants DEF QueueOK, QueueTypeOK, HandsOK
<1>4. CASE UNCHANGED queueVars
  BY <1>0, <1>4 DEF QueueOK, QueueTypeOK, HandsOK, queueVars
<1> QED
  BY <1>1, <1>2, <1>3, <1>4

LoopOK ==
    /\ now \in Nat /\ started \in Starts /\ text \in Schedules
    /\ loop \in {"boot", "top", "tick", "ticked", "wait", "sleep", "stopped"}
    /\ minute \in Nat \cup {Null} /\ lastTick \in Nat \cup {Null} /\ wakeAt \in Nat \cup {Null}
    /\ examined \in 0 .. Len(Events) /\ shutdown \in BOOLEAN
    /\ ticked \in Seq(Nat) /\ late \subseteq Nat
    /\ loop = "wait" => minute \in Nat
    /\ loop = "sleep" => wakeAt \in Nat

RunsOK ==
    /\ running \in [EventNames -> BOOLEAN] /\ runs \in [RunSlots -> Run \cup {Null}]
    /\ PushesOK

SchedulerOK == QueueOK /\ LoopOK /\ RunsOK

\* The steps of `run', of the clock and of the shutdown.
LoopStep ==
    Boot \/ Top \/ TickEvent \/ TickEnds \/ PlanWait \/ Sleep \/ Wake \/ Signal \/ Advance \/ Watched

\* The steps of a task.
RunStep(r) == DispatchTakesId(r) \/ DispatchEnqueues(r) \/ CallEnds(r) \/ DropGuard(r)

LEMMA EventsTyped ==
    /\ Len(Events) \in Nat /\ EventNames \subseteq Jobs
    /\ \A k \in 1 .. Len(Events) : Events[k] \in EventNames
  BY SchedulerConstants DEF EventNames

LEMMA LoopTypes ==
    ASSUME LoopOK, LoopStep
    PROVE  LoopOK'
<1> USE DEF LoopOK, vars, loopVars
<1>m. Minute \in Nat /\ StartOfMinute(now) \in Nat
  BY MinuteBounds, CalendarConstants
<1>1. CASE Boot
  BY <1>1 DEF Boot
<1>2. CASE Top
  <2>0. ticked' \in {ticked, Append(ticked, StartOfMinute(now))}
    BY <1>2 DEF Top
  <2>1. ticked' \in Seq(Nat)
    BY <2>0, <1>m, AppendProperties
  <2>2. /\ loop' \in {"stopped", "ticked", "tick"}
        /\ minute' \in {minute, StartOfMinute(now)}
        /\ lastTick' \in {lastTick, StartOfMinute(now)}
        /\ UNCHANGED <<now, text, started, examined, wakeAt, shutdown, late>>
    BY <1>2 DEF Top
  <2> QED
    BY <2>1, <2>2, <1>m
<1>3. CASE TickEvent
  BY <1>3, EventsTyped DEF TickEvent
<1>4. CASE TickEnds
  BY <1>4, EventsTyped DEF TickEnds
<1>5. CASE PlanWait
  BY <1>5, <1>m DEF PlanWait
<1>6. CASE Sleep
  BY <1>6 DEF Sleep
<1>7. CASE Wake
  BY <1>7 DEF Wake
<1>8. CASE Signal
  BY <1>8 DEF Signal
<1>9. CASE Advance
  <2>0. now' \in Nat
    BY <1>9 DEF Advance
  <2>1. now' \in Nat /\ StartOfMinute(now') \in Nat
    BY <2>0, MinuteBounds
  <2>2. late' \subseteq Nat
    BY <1>9, <1>m, <2>1 DEF Advance
  <2> QED
    BY <1>9, <2>1, <2>2 DEF Advance
<1>10. CASE Watched
  BY <1>10 DEF Watched
<1> QED
  BY <1>1, <1>2, <1>3, <1>4, <1>5, <1>6, <1>7, <1>8, <1>9, <1>10 DEF LoopStep

\* A fresh task.
NewRun(e) == [event |-> e, at |-> "go", id |-> Null, due |-> Null]

LEMMA NewRunType ==
    ASSUME NEW e \in EventNames
    PROVE  NewRun(e) \in Run /\ NewRun(e).event = e /\ NewRun(e).at = "go"
  BY DEF NewRun, Run

\* One event of a tick leaves the tasks alone, or starts one.
LEMMA TickRuns ==
    ASSUME LoopOK, TickEvent
    PROVE  \/ UNCHANGED <<running, runs>>
           \/ \E e \in EventNames :
                /\ running' = [running EXCEPT ![e] = TRUE]
                /\ \/ running[e] /\ e \in Exclusive /\ runs' = runs
                   \/ /\ ~(running[e] /\ e \in Exclusive)
                      /\ \E r \in RunSlots : runs[r] = Null /\ runs' = [runs EXCEPT ![r] = NewRun(e)]
<1>1. PICK e : e = Events[examined + 1]
  OBVIOUS
<1>2. e \in EventNames
  BY <1>1, EventsTyped DEF LoopOK, TickEvent
<1>3. \/ UNCHANGED <<running, runs>>
      \/ Claim(e)
  BY <1>1 DEF TickEvent
<1> QED
  BY <1>2, <1>3 DEF Claim, Spawn, NewRun

LEMMA LoopRunTypes ==
    ASSUME LoopOK, RunsOK, LoopStep
    PROVE  RunsOK'
<1>1. CASE UNCHANGED <<running, runs>>
  BY <1>1 DEF RunsOK, PushesOK
<1>2. CASE TickEvent
  <2>1. SUFFICES ASSUME NEW e \in EventNames, running' = [running EXCEPT ![e] = TRUE],
                        \/ runs' = runs
                        \/ \E r \in RunSlots : runs' = [runs EXCEPT ![r] = NewRun(e)]
                 PROVE  RunsOK'
    BY <1>1, <1>2, TickRuns
  <2>2. CASE runs' = runs
    BY <2>1, <2>2 DEF RunsOK, PushesOK
  <2>3. CASE \E r \in RunSlots : runs' = [runs EXCEPT ![r] = NewRun(e)]
    <3>1. PICK r \in RunSlots : runs' = [runs EXCEPT ![r] = NewRun(e)]
      BY <2>3
    <3> QED
      BY <2>1, <3>1, NewRunType DEF RunsOK, PushesOK
  <2> QED
    BY <2>1, <2>2, <2>3
<1> QED
  BY <1>1, <1>2 DEF LoopStep, Boot, Top, TickEnds, PlanWait, Sleep, Wake, Signal, Advance, Watched, vars

LEMMA RunTypes ==
    ASSUME SchedulerOK, NEW r \in RunSlots, RunStep(r)
    PROVE  SchedulerOK'
<1> USE DEF SchedulerOK
<1>0. runs[r] \in Run /\ runs[r] # Null
  BY DEF RunStep, DispatchTakesId, DispatchEnqueues, CallEnds, DropGuard, RunsOK
<1>l. LoopOK'
  BY DEF RunStep, DispatchTakesId, DispatchEnqueues, CallEnds, DropGuard, LoopOK, loopVars
<1>1. CASE DispatchTakesId(r)
  <2>1. PICK k : k = [runs[r] EXCEPT !.at = "push", !.id = nextId, !.due = now]
    OBVIOUS
  <2>2. nextId \in Ids /\ now \in Nat
    BY <1>1 DEF DispatchTakesId, TakeId, LoopOK
  <2>3. k \in Run /\ k.id = nextId /\ k.due = now
    BY <1>0, <2>1, <2>2 DEF Run
  <2>4. runs' = [runs EXCEPT ![r] = k] /\ running' = running
    BY <1>1, <1>0, <2>1 DEF DispatchTakesId, RunsOK
  <2>5. RunsOK'
    BY <2>2, <2>3, <2>4 DEF RunsOK, PushesOK
  <2>6. QueueOK'
    BY <1>1, OtherTypes DEF DispatchTakesId
  <2> QED
    BY <1>l, <2>5, <2>6
<1>2. CASE DispatchEnqueues(r)
  <2>1. PICK k : k = [runs[r] EXCEPT !.at = "drop", !.id = Null, !.due = Null]
    OBVIOUS
  <2>2. k \in Run /\ k.at = "drop"
    BY <1>0, <2>1 DEF Run
  <2>3. runs' = [runs EXCEPT ![r] = k] /\ running' = running
    BY <1>2, <1>0, <2>1 DEF DispatchEnqueues, RunsOK
  <2>4. RunsOK'
    BY <2>2, <2>3 DEF RunsOK, PushesOK
  <2>5. runs[r].id \in Ids /\ runs[r].due \in Nat /\ runs[r].event \in Jobs
    BY <1>0, <1>2, EventsTyped DEF DispatchEnqueues, RunsOK, PushesOK, Run
  <2>6. QueueOK'
    BY <1>2, <2>5, EnqueueTypes DEF DispatchEnqueues
  <2> QED
    BY <1>l, <2>4, <2>6
<1>3. CASE CallEnds(r)
  <2>1. PICK k : k = [runs[r] EXCEPT !.at = "drop"]
    OBVIOUS
  <2>2. k \in Run /\ k.at = "drop"
    BY <1>0, <2>1 DEF Run
  <2>3. runs' = [runs EXCEPT ![r] = k] /\ running' = running
    BY <1>3, <1>0, <2>1 DEF CallEnds, RunsOK
  <2>4. RunsOK'
    BY <2>2, <2>3 DEF RunsOK, PushesOK
  <2>6. QueueOK'
    BY <1>3, OtherTypes DEF CallEnds
  <2> QED
    BY <1>l, <2>4, <2>6
<1>4. CASE DropGuard(r)
  <2>1. RunsOK'
    BY <1>4, <1>0 DEF DropGuard, RunsOK, PushesOK
  <2>2. QueueOK'
    BY <1>4, OtherTypes DEF DropGuard
  <2> QED
    BY <1>l, <2>1, <2>2
<1> QED
  BY <1>1, <1>2, <1>3, <1>4 DEF RunStep

LEMMA TypesStep ==
    ASSUME SchedulerOK, [Next]_vars
    PROVE  SchedulerOK'
<1>1. CASE LoopStep
  <2>1. UNCHANGED queueVars
    BY <1>1 DEF LoopStep, Boot, Top, TickEvent, TickEnds, PlanWait, Sleep, Wake, Signal,
                Advance, Watched, vars
  <2> QED
    BY <1>1, <2>1, LoopTypes, LoopRunTypes, OtherTypes DEF SchedulerOK
<1>2. ASSUME NEW r \in RunSlots, RunStep(r) PROVE SchedulerOK'
  BY <1>2, RunTypes
<1>3. ASSUME NEW w \in Workers, Working(w) PROVE SchedulerOK'
  <2>1. LoopOK' /\ RunsOK'
    BY <1>3 DEF Working, SchedulerOK, LoopOK, RunsOK, PushesOK, loopVars
  <2>2. QueueOK'
    BY <1>3, WorkerTypes DEF Working, SchedulerOK, LoopOK
  <2> QED
    BY <2>1, <2>2 DEF SchedulerOK
<1>4. CASE Emptied
  <2>1. LoopOK' /\ RunsOK'
    BY <1>4 DEF Emptied, SchedulerOK, LoopOK, RunsOK, PushesOK, loopVars
  <2>2. QueueOK'
    BY <1>4, OtherTypes DEF Emptied, SchedulerOK
  <2> QED
    BY <2>1, <2>2 DEF SchedulerOK
<1>5. CASE UNCHANGED vars
  <2>1. LoopOK' /\ RunsOK'
    BY <1>5 DEF vars, SchedulerOK, LoopOK, RunsOK, PushesOK, loopVars
  <2>2. QueueOK'
    BY <1>5, OtherTypes DEF vars, SchedulerOK
  <2> QED
    BY <2>1, <2>2 DEF SchedulerOK
<1> QED
  BY <1>1, <1>2, <1>3, <1>4, <1>5 DEF Next, LoopStep, RunStep

LEMMA TypesInit == Init => SchedulerOK
<1> SUFFICES ASSUME Init PROVE SchedulerOK
  OBVIOUS
<1>1. QueueOK
  BY MemoryQueueConstants DEF Init, QueueInit, QueueOK, QueueTypeOK, HandsOK
<1>2. LoopOK
  <2>1. now \in Nat /\ started \in Starts /\ text \in Schedules
    BY SchedulerConstants DEF Init
  <2>2. loop = "boot" /\ minute = Null /\ lastTick = Null /\ wakeAt = Null /\ examined = 0
        /\ shutdown = FALSE /\ ticked = <<>> /\ late = {}
    BY DEF Init
  <2>3. examined \in 0 .. Len(Events) /\ ticked \in Seq(Nat)
    BY <2>2, EventsTyped
  <2> QED
    BY <2>1, <2>2, <2>3 DEF LoopOK
<1>3. RunsOK
  BY DEF Init, RunsOK, PushesOK
<1> QED
  BY <1>1, <1>2, <1>3 DEF SchedulerOK

\* Every variable of the scheduler and of the in-process queue keeps its type, for any
\* schedule and any number of workers; the attempts of an entry stay within the job's
\* tries, because only an entry with tries left is put back.
THEOREM SchedulerTypes == Spec => []TypeOK
<1>1. SchedulerOK /\ [Next]_vars => SchedulerOK'
  BY TypesStep
<1>2. SchedulerOK => TypeOK
  BY DEF SchedulerOK, QueueOK, LoopOK, RunsOK, TypeOK
<1> QED
  BY TypesInit, <1>1, <1>2, PTL DEF Spec
-----------------------------------------------------------------------------
(* The flag of an event and its runs.                                       *)

Flies(r, e) == runs[r] # Null /\ runs[r].event = e

\* FlagMeansRunning without the counting.
FlagOK(e) ==
    /\ running[e] => \E r \in RunSlots : Flies(r, e)
    /\ e \in Exclusive =>
        /\ \A q, r \in RunSlots : (Flies(q, e) /\ Flies(r, e)) => q = r
        /\ (\E r \in RunSlots : Flies(r, e)) => running[e]

FlagInv == \A e \in EventNames : FlagOK(e)

\* A step that moves no run from one event to another and touches no flag.
LEMMA FlagKept ==
    ASSUME FlagInv, running' = running, \A r \in RunSlots, e \in EventNames : Flies(r, e)' <=> Flies(r, e)
    PROVE  FlagInv'
  BY DEF FlagInv, FlagOK

LEMMA FlagTick ==
    ASSUME SchedulerOK, FlagInv, TickEvent
    PROVE  FlagInv'
<1>0. LoopOK /\ running \in [EventNames -> BOOLEAN] /\ runs \in [RunSlots -> Run \cup {Null}]
  BY DEF SchedulerOK, RunsOK
<1>1. CASE UNCHANGED <<running, runs>>
  BY <1>1, FlagKept DEF Flies
<1>2. CASE \E e \in EventNames : running' = [running EXCEPT ![e] = TRUE] /\ running[e]
                                 /\ e \in Exclusive /\ runs' = runs
  <2>1. running' = running
    BY <1>0, <1>2
  <2> QED
    BY <1>2, <2>1, FlagKept DEF Flies
<1>3. ASSUME NEW e \in EventNames, running' = [running EXCEPT ![e] = TRUE],
             ~(running[e] /\ e \in Exclusive),
             NEW r \in RunSlots, runs[r] = Null, runs' = [runs EXCEPT ![r] = NewRun(e)]
      PROVE  FlagInv'
  <2>0. NewRun(e) # Null /\ NewRun(e).event = e
    BY NewRunType, SchedulerConstants
  <2>1. \A q \in RunSlots, f \in EventNames : Flies(q, f)' <=> (Flies(q, f) \/ (q = r /\ f = e))
    BY <1>0, <1>3, <2>0 DEF Flies
  <2>2. ~Flies(r, e)
    BY <1>3 DEF Flies
  <2>3. \A f \in EventNames : running'[f] <=> (running[f] \/ f = e)
    BY <1>0, <1>3
  <2>4. FlagOK(e)'
    BY <1>3, <2>1, <2>3 DEF FlagOK, FlagInv
  <2>5. ASSUME NEW f \in EventNames, f # e PROVE FlagOK(f)'
    BY <2>1, <2>3, <2>5 DEF FlagOK, FlagInv
  <2> QED
    BY <2>4, <2>5 DEF FlagInv
<1> QED
  BY <1>0, <1>1, <1>2, <1>3, TickRuns

LEMMA FlagRun ==
    ASSUME SchedulerOK, FlagInv, NEW r \in RunSlots, RunStep(r)
    PROVE  FlagInv'
<1>0. /\ running \in [EventNames -> BOOLEAN] /\ runs \in [RunSlots -> Run \cup {Null}]
      /\ runs[r] \in Run /\ runs[r] # Null /\ runs[r].event \in EventNames
  BY DEF SchedulerOK, RunsOK, RunStep, DispatchTakesId, DispatchEnqueues, CallEnds, DropGuard, Run
<1>1. CASE DispatchTakesId(r) \/ DispatchEnqueues(r) \/ CallEnds(r)
  <2>1. PICK k : runs' = [runs EXCEPT ![r] = k] /\ k \in Run /\ k.event = runs[r].event
    <3>1. CASE DispatchTakesId(r)
      <4>1. PICK k : k = [runs[r] EXCEPT !.at = "push", !.id = nextId, !.due = now]
        OBVIOUS
      <4>2. nextId \in Ids /\ now \in Nat
        BY <3>1 DEF DispatchTakesId, TakeId, SchedulerOK, LoopOK
      <4>3. k \in Run /\ k.event = runs[r].event
        BY <1>0, <4>1, <4>2 DEF Run
      <4>4. runs' = [runs EXCEPT ![r] = k]
        BY <3>1, <4>1, <1>0 DEF DispatchTakesId
      <4> QED
        BY <4>3, <4>4
    <3>2. CASE DispatchEnqueues(r)
      <4>1. PICK k : k = [runs[r] EXCEPT !.at = "drop", !.id = Null, !.due = Null]
        OBVIOUS
      <4>2. k \in Run /\ k.event = runs[r].event
        BY <1>0, <4>1 DEF Run
      <4>3. runs' = [runs EXCEPT ![r] = k]
        BY <3>2, <4>1, <1>0 DEF DispatchEnqueues
      <4> QED
        BY <4>2, <4>3
    <3>3. CASE CallEnds(r)
      <4>1. PICK k : k = [runs[r] EXCEPT !.at = "drop"]
        OBVIOUS
      <4>2. k \in Run /\ k.event = runs[r].event
        BY <1>0, <4>1 DEF Run
      <4>3. runs' = [runs EXCEPT ![r] = k]
        BY <3>3, <4>1, <1>0 DEF CallEnds
      <4> QED
        BY <4>2, <4>3
    <3> QED
      BY <1>1, <3>1, <3>2, <3>3
  <2>2. k # Null
    BY <2>1, SchedulerConstants
  <2>3. \A q \in RunSlots, e \in EventNames : Flies(q, e)' <=> Flies(q, e)
    BY <1>0, <2>1, <2>2 DEF Flies
  <2>4. running' = running
    BY <1>1 DEF DispatchTakesId, DispatchEnqueues, CallEnds
  <2> QED
    BY <2>3, <2>4, FlagKept
<1>2. CASE DropGuard(r)
  <2>1. PICK e \in EventNames : e = runs[r].event
    BY <1>0
  <2>2. running' = [running EXCEPT ![e] = FALSE] /\ runs' = [runs EXCEPT ![r] = Null]
    BY <1>2, <2>1 DEF DropGuard
  <2>3. \A q \in RunSlots, f \in EventNames : Flies(q, f)' <=> (Flies(q, f) /\ q # r)
    BY <1>0, <2>2 DEF Flies
  <2>4. \A f \in EventNames : running'[f] <=> (running[f] /\ f # e)
    BY <1>0, <2>2
  <2>5. Flies(r, e) /\ \A f \in EventNames : Flies(r, f) => f = e
    BY <1>0, <2>1 DEF Flies
  <2>6. FlagOK(e)'
    BY <2>3, <2>4, <2>5 DEF FlagOK, FlagInv
  <2>7. ASSUME NEW f \in EventNames, f # e PROVE FlagOK(f)'
    BY <2>3, <2>4, <2>5, <2>7 DEF FlagOK, FlagInv
  <2> QED
    BY <2>6, <2>7 DEF FlagInv
<1> QED
  BY <1>1, <1>2 DEF RunStep

LEMMA FlagStep ==
    ASSUME SchedulerOK, FlagInv, [Next]_vars
    PROVE  FlagInv'
<1>1. CASE UNCHANGED <<running, runs>>
  BY <1>1, FlagKept DEF Flies
<1>2. CASE TickEvent
  BY <1>2, FlagTick
<1>3. ASSUME NEW r \in RunSlots, RunStep(r) PROVE FlagInv'
  BY <1>3, FlagRun
<1> QED
  BY <1>1, <1>2, <1>3 DEF Next, RunStep, Boot, Top, TickEnds, PlanWait, Sleep, Wake, Signal,
                         Advance, Watched, Working, Emptied, vars

\* The set of an event's runs is empty or has one element: it can be counted.
LEMMA FlagCounts ==
    ASSUME SchedulerOK, FlagInv
    PROVE  FlagMeansRunning
<1> SUFFICES ASSUME NEW e \in EventNames
             PROVE  /\ running[e] => InFlight(e) # {}
                    /\ e \in Exclusive => Cardinality(InFlight(e)) = (IF running[e] THEN 1 ELSE 0)
  BY DEF FlagMeansRunning
<1>0. FlagOK(e) /\ InFlight(e) = {r \in RunSlots : Flies(r, e)}
  BY DEF FlagInv, InFlight, Flies
<1>1. running[e] => InFlight(e) # {}
  BY <1>0 DEF FlagOK
<1>2. ASSUME e \in Exclusive, running[e] PROVE Cardinality(InFlight(e)) = 1
  <2>1. PICK r \in RunSlots : Flies(r, e)
    BY <1>0, <1>2 DEF FlagOK
  <2>2. InFlight(e) = {r}
    BY <1>0, <1>2, <2>1 DEF FlagOK
  <2> QED
    BY <2>2, FS_Singleton
<1>3. ASSUME e \in Exclusive, ~running[e] PROVE Cardinality(InFlight(e)) = 0
  <2>1. InFlight(e) = {}
    BY <1>0, <1>3 DEF FlagOK
  <2> QED
    BY <2>1, FS_EmptySet
<1> QED
  BY <1>1, <1>2, <1>3

\* For any schedule, any number of tasks and any timing, an event marked
\* without_overlapping has its flag up exactly while its one run is in flight: the
\* compare_exchange admits no second run, and the guard's drop leaves no flag behind.
THEOREM NoOverlap == Spec => []FlagMeansRunning
<1>1. Init => FlagInv
  BY DEF Init, FlagInv, FlagOK, Flies
<1>2. SchedulerOK /\ [Next]_vars => SchedulerOK'
  BY TypesStep
<1>3. SchedulerOK /\ FlagInv /\ [Next]_vars => FlagInv'
  BY FlagStep
<1>4. SchedulerOK /\ FlagInv => FlagMeansRunning
  BY FlagCounts
<1> QED
  BY TypesInit, <1>1, <1>2, <1>3, <1>4, PTL DEF Spec
-----------------------------------------------------------------------------
(* The minutes the loop asks about.                                         *)

Covered(m) == m \in late \/ \E i \in DOMAIN ticked : ticked[i] = m

\* last_tick is the last minute asked about; none is ahead of the clock.
TickOrder ==
    /\ lastTick = IF ticked = <<>> THEN Null ELSE ticked[Len(ticked)]
    /\ lastTick # Null => lastTick <= StartOfMinute(now)
    /\ \A i, j \in DOMAIN ticked : i < j => ticked[i] < ticked[j]

\* The loop never sleeps past the next boundary.
WaitsShort ==
    /\ loop = "wait" => minute <= StartOfMinute(now) + Minute
    /\ loop = "sleep" => wakeAt <= StartOfMinute(now) + Minute

\* The minutes that are over.
PastCovered ==
    \A t \in started .. now :
        (StartOfMinute(t) > StartOfMinute(started) /\ StartOfMinute(t) < StartOfMinute(now))
            => Covered(StartOfMinute(t))

\* The minute it is: dealt with, or the loop is about to.
NowCovered ==
    \/ StartOfMinute(now) = StartOfMinute(started)
    \/ Covered(StartOfMinute(now))
    \/ loop = "top"
    \/ loop = "sleep" /\ wakeAt <= StartOfMinute(now)

TicksInv == TickOrder /\ WaitsShort /\ (loop # "stopped" => (PastCovered /\ NowCovered))

LEMMA StartedTyped == ASSUME SchedulerOK PROVE started \in Nat /\ now \in Nat /\ StartOfMinute(now) \in Nat
  BY MinuteBounds, SchedulerConstants DEF SchedulerOK, LoopOK

\* A step that neither moves the clock nor asks about a minute.
LEMMA ClockStands ==
    ASSUME TicksInv, UNCHANGED <<now, started, lastTick, ticked, late>>, WaitsShort',
           loop' # "stopped" => (loop # "stopped" /\ NowCovered')
    PROVE  TicksInv'
<1>1. TickOrder'
  BY DEF TicksInv, TickOrder
<1>2. \A m : Covered(m)' <=> Covered(m)
  BY DEF Covered
<1>3. ASSUME loop # "stopped" PROVE PastCovered'
  <2>1. SUFFICES ASSUME NEW t \in started .. now,
                        StartOfMinute(t) > StartOfMinute(started), StartOfMinute(t) < StartOfMinute(now)
                 PROVE  Covered(StartOfMinute(t))'
    BY DEF PastCovered
  <2>2. Covered(StartOfMinute(t))
    BY <1>3, <2>1 DEF TicksInv, PastCovered
  <2> QED
    BY <2>2 DEF Covered
<1> QED
  BY <1>1, <1>3 DEF TicksInv

\* The top of the loop asks about the minute it is, once.
LEMMA TopTicks ==
    ASSUME SchedulerOK, TicksInv, Top
    PROVE  TicksInv'
<1>0. StartOfMinute(now) \in Nat /\ ticked \in Seq(Nat) /\ Null \notin Nat /\ lastTick \in Nat \cup {Null}
  BY StartedTyped, MemoryQueueConstants DEF SchedulerOK, LoopOK
<1>1. UNCHANGED <<now, started, late, wakeAt>> /\ loop = "top" /\ loop' \in {"stopped", "ticked", "tick"}
  BY DEF Top
<1>w. WaitsShort'
  BY <1>1 DEF WaitsShort
<1>2. CASE loop' = "stopped"
  BY <1>1, <1>2, <1>w, ClockStands DEF Top
<1>3. CASE loop' = "ticked"
  <2>1. lastTick = StartOfMinute(now) /\ UNCHANGED <<lastTick, ticked>>
    BY <1>3 DEF Top
  <2>2. ticked # <<>> /\ lastTick = ticked[Len(ticked)]
    BY <1>0, <2>1 DEF TicksInv, TickOrder
  <2>3. Len(ticked) \in DOMAIN ticked
    BY <1>0, <2>2
  <2>4. NowCovered'
    BY <1>1, <2>1, <2>2, <2>3 DEF NowCovered, Covered
  <2> QED
    BY <1>1, <1>w, <2>1, <2>4, ClockStands
<1>4. CASE loop' = "tick"
  <2>0. PICK this \in Nat : this = StartOfMinute(now)
    BY <1>0
  <2>1. lastTick # this /\ lastTick' = this /\ ticked' = Append(ticked, this)
    BY <1>4, <2>0 DEF Top
  <2>2. /\ DOMAIN ticked = 1 .. Len(ticked) /\ DOMAIN ticked' = 1 .. Len(ticked) + 1
        /\ Len(ticked) \in Nat /\ Len(ticked') = Len(ticked) + 1 /\ ticked' # <<>>
        /\ \A i \in 1 .. Len(ticked) : ticked'[i] = ticked[i] /\ ticked[i] \in Nat
        /\ ticked'[Len(ticked) + 1] = this
    BY <1>0, <2>0, <2>1, AppendProperties
  <2>3. \A i \in 1 .. Len(ticked) : ticked[i] < this
    <3>1. SUFFICES ASSUME NEW i \in 1 .. Len(ticked) PROVE ticked[i] < this
      OBVIOUS
    <3>2. ticked # <<>> /\ lastTick = ticked[Len(ticked)] /\ lastTick \in Nat
      BY <1>0, <2>2, <3>1 DEF TicksInv, TickOrder
    <3>3. lastTick < this
      BY <1>0, <2>0, <2>1, <3>2 DEF TicksInv, TickOrder
    <3>4. ticked[i] = lastTick \/ ticked[i] < lastTick
      BY <2>2, <3>2, <3>1 DEF TicksInv, TickOrder
    <3> QED
      BY <2>2, <3>2, <3>3, <3>4
  <2>4. TickOrder'
    <3>1. \A i, j \in DOMAIN ticked' : i < j => ticked'[i] < ticked'[j]
      BY <2>2, <2>3 DEF TicksInv, TickOrder
    <3> QED
      BY <1>1, <2>0, <2>1, <2>2, <3>1 DEF TickOrder
  <2>5. \A m : Covered(m) => Covered(m)'
    BY <1>1, <2>2 DEF Covered
  <2>6. Covered(this)'
    BY <2>2 DEF Covered
  <2>7. PastCovered'
    <3>1. SUFFICES ASSUME NEW t \in started .. now,
                          StartOfMinute(t) > StartOfMinute(started), StartOfMinute(t) < StartOfMinute(now)
                   PROVE  Covered(StartOfMinute(t))'
      BY <1>1 DEF PastCovered
    <3>2. PICK m : m = StartOfMinute(t)
      OBVIOUS
    <3>3. Covered(m)
      BY <1>1, <3>1, <3>2 DEF TicksInv, PastCovered
    <3>4. Covered(m)'
      BY <3>3, <2>5
    <3> QED
      BY <3>2, <3>4 DEF Covered
  <2>8. NowCovered'
    BY <1>1, <2>0, <2>6 DEF NowCovered, Covered
  <2> QED
    BY <1>w, <2>4, <2>7, <2>8 DEF TicksInv
<1> QED
  BY <1>1, <1>2, <1>3, <1>4

\* A second passes.  A minute that ends was dealt with or is written down as late; one
\* that begins finds the loop asleep until then at the latest, or is late itself.
LEMMA AdvanceTicks ==
    ASSUME SchedulerOK, TicksInv, Advance
    PROVE  TicksInv'
<1>1. /\ now' = now + 1 /\ now \in Nat /\ started \in Nat /\ now' \in Nat
      /\ UNCHANGED <<started, loop, minute, lastTick, wakeAt, ticked>>
  BY StartedTyped DEF Advance, loopVars
<1>2. PICK old \in Nat : old = StartOfMinute(now)
  BY StartedTyped
<1>3. PICK new \in Nat : new = StartOfMinute(now')
  BY <1>1, MinuteBounds
<1>m. Minute \in Nat /\ old <= now
  BY <1>1, <1>2, MinuteBounds, CalendarConstants
<1>4. new = old \/ new = old + Minute
  BY <1>1, <1>2, <1>3, NextMinute
<1>5. late' = IF new = old THEN late
              ELSE late \cup (IF loop # "sleep" THEN {new} ELSE {})
                        \cup (IF loop = "top" \/ (loop = "sleep" /\ wakeAt <= now) THEN {old} ELSE {})
  BY <1>2, <1>3 DEF Advance
<1>6. \A m : Covered(m) => Covered(m)'
  BY <1>1, <1>5 DEF Covered
<1>t. /\ loop = "wait" => minute \in Nat
      /\ loop = "sleep" => wakeAt \in Nat
      /\ lastTick \in Nat \cup {Null}
  BY DEF SchedulerOK, LoopOK
<1>7. TickOrder'
  <2>1. lastTick' # Null => lastTick' <= new
    BY <1>1, <1>2, <1>4, <1>m, <1>t DEF TicksInv, TickOrder
  <2> QED
    BY <1>1, <1>3, <2>1 DEF TicksInv, TickOrder
<1>8. WaitsShort'
  <2>1. /\ loop = "wait" => minute <= new + Minute
        /\ loop = "sleep" => wakeAt <= new + Minute
    BY <1>2, <1>4, <1>m, <1>t DEF TicksInv, WaitsShort
  <2> QED
    BY <1>1, <1>3, <2>1 DEF WaitsShort
<1>9. ASSUME loop # "stopped" PROVE PastCovered' /\ NowCovered'
  <2>0. PICK first \in Nat : first = StartOfMinute(started)
    BY <1>1, MinuteBounds
  <2>p. PastCovered /\ (old = first \/ Covered(old) \/ loop = "top" \/ (loop = "sleep" /\ wakeAt <= old))
    BY <1>2, <1>9, <2>0 DEF TicksInv, NowCovered
  <2>1. CASE new = old
    <3>1. late' = late
      BY <1>5, <2>1
    <3>2. NowCovered'
      BY <1>1, <1>2, <1>3, <1>6, <2>0, <2>p, <2>1 DEF NowCovered, Covered
    <3>3. PastCovered'
      <4>1. SUFFICES ASSUME NEW t \in started .. now',
                            StartOfMinute(t) > first, StartOfMinute(t) < new
                     PROVE  Covered(StartOfMinute(t))'
        BY <1>1, <1>3, <2>0 DEF PastCovered
      <4>2. PICK m \in Nat : m = StartOfMinute(t)
        BY <1>1, MinuteBounds
      <4>3. t # now'
        BY <1>3, <4>1, <4>2
      <4>4. t \in started .. now
        BY <1>1, <4>3
      <4>5. Covered(m)'
        BY <1>2, <1>6, <2>0, <2>1, <2>p, <4>1, <4>2, <4>4 DEF PastCovered
      <4> QED
        BY <4>2, <4>5 DEF Covered
    <3> QED
      BY <3>2, <3>3
  <2>2. CASE new # old
    <3>0. new = old + Minute
      BY <1>4, <2>2
    <3>1. old = first \/ Covered(old)'
      <4>1. CASE loop = "top" \/ (loop = "sleep" /\ wakeAt <= old)
        <5>1. loop = "top" \/ (loop = "sleep" /\ wakeAt <= now)
          BY <1>1, <1>m, <1>t, <4>1
        <5>2. old \in late'
          BY <1>5, <2>2, <5>1
        <5> QED
          BY <5>2 DEF Covered
      <4> QED
        BY <1>6, <2>p, <4>1
    <3>2. NowCovered'
      <4>1. CASE loop = "sleep"
        <5>1. wakeAt <= new
          BY <1>2, <3>0, <4>1 DEF TicksInv, WaitsShort
        <5> QED
          BY <1>1, <1>3, <4>1, <5>1 DEF NowCovered
      <4>2. CASE loop # "sleep"
        BY <1>3, <1>5, <2>2, <4>2 DEF NowCovered, Covered
      <4> QED
        BY <4>1, <4>2
    <3>3. PastCovered'
      <4>1. SUFFICES ASSUME NEW t \in started .. now',
                            StartOfMinute(t) > first, StartOfMinute(t) < new
                     PROVE  Covered(StartOfMinute(t))'
        BY <1>1, <1>3, <2>0 DEF PastCovered
      <4>2. PICK m \in Nat : m = StartOfMinute(t)
        BY <1>1, MinuteBounds
      <4>3. t # now'
        BY <1>3, <4>1, <4>2
      <4>4. t \in started .. now /\ t \in Nat
        BY <1>1, <4>3
      <4>5. m <= old
        BY <1>1, <1>2, <4>2, <4>4, MinutesOrdered
      <4>6. Covered(m)'
        <5>1. CASE m = old
          BY <3>1, <4>1, <4>2, <5>1
        <5>2. CASE m < old
          BY <1>2, <1>6, <2>0, <2>p, <4>1, <4>2, <4>4, <5>2 DEF PastCovered
        <5> QED
          BY <4>5, <5>1, <5>2
      <4> QED
        BY <4>2, <4>6 DEF Covered
    <3> QED
      BY <3>2, <3>3
  <2> QED
    BY <2>1, <2>2
<1> QED
  BY <1>1, <1>7, <1>8, <1>9 DEF TicksInv

LEMMA TicksStep ==
    ASSUME SchedulerOK, TicksInv, [Next]_vars
    PROVE  TicksInv'
<1>0. StartOfMinute(now) \in Nat /\ now \in Nat /\ Minute \in Nat /\ now < StartOfMinute(now) + Minute
  BY StartedTyped, MinuteBounds, CalendarConstants
<1>1. CASE Top
  BY <1>1, TopTicks
<1>2. CASE Advance
  BY <1>2, AdvanceTicks
<1>3. CASE Boot
  <2>1. UNCHANGED <<now, started, lastTick, ticked, late>> /\ loop # "stopped" /\ loop' \in {"top", "stopped"}
    BY <1>3 DEF Boot
  <2> QED
    BY <2>1, ClockStands DEF WaitsShort, NowCovered
<1>4. CASE TickEvent
  <2>1. UNCHANGED <<now, started, lastTick, ticked, late, loop, minute, wakeAt>> /\ loop = "tick"
    BY <1>4 DEF TickEvent
  <2> QED
    BY <2>1, ClockStands DEF WaitsShort, NowCovered, TicksInv, Covered
<1>5. CASE TickEnds
  <2>1. UNCHANGED <<now, started, lastTick, ticked, late>> /\ loop = "tick" /\ loop' = "ticked"
    BY <1>5 DEF TickEnds
  <2> QED
    BY <2>1, ClockStands DEF WaitsShort, NowCovered, TicksInv, Covered
<1>6. CASE PlanWait
  <2>1. UNCHANGED <<now, started, lastTick, ticked, late>> /\ loop = "ticked" /\ loop' = "wait"
        /\ minute' = StartOfMinute(now) + Minute
    BY <1>6 DEF PlanWait
  <2>2. WaitsShort'
    BY <2>1, <1>0 DEF WaitsShort
  <2> QED
    BY <2>1, <2>2, ClockStands DEF NowCovered, TicksInv, Covered
<1>7. CASE Sleep
  <2>1. UNCHANGED <<now, started, lastTick, ticked, late>> /\ loop = "wait" /\ loop' = "sleep"
        /\ wakeAt' = (IF minute > now THEN minute ELSE now)
    BY <1>7 DEF Sleep
  <2>2. WaitsShort'
    BY <2>1, <1>0 DEF WaitsShort, TicksInv
  <2> QED
    BY <2>1, <2>2, ClockStands DEF NowCovered, TicksInv, Covered
<1>8. CASE Wake
  <2>1. UNCHANGED <<now, started, lastTick, ticked, late>> /\ loop = "sleep" /\ loop' \in {"top", "stopped"}
    BY <1>8 DEF Wake
  <2> QED
    BY <2>1, ClockStands DEF WaitsShort, NowCovered
<1>9. CASE UNCHANGED <<now, started, loopVars, ticked, late>>
  BY <1>9, ClockStands DEF loopVars, WaitsShort, NowCovered, TicksInv, Covered
<1> QED
  BY <1>1, <1>2, <1>3, <1>4, <1>5, <1>6, <1>7, <1>8, <1>9
     DEF Next, Signal, Watched, Working, Emptied, vars,
         DispatchTakesId, DispatchEnqueues, CallEnds, DropGuard

LEMMA TicksInit == Init => TicksInv
<1> SUFFICES ASSUME Init PROVE TicksInv
  OBVIOUS
<1>1. /\ now = started /\ loop = "boot" /\ lastTick = Null /\ ticked = <<>> /\ late = {}
      /\ started \in Nat /\ StartOfMinute(started) \in Nat
  BY SchedulerConstants, MinuteBounds DEF Init
<1>2. TickOrder
  BY <1>1 DEF TickOrder
<1>3. PastCovered
  <2>1. SUFFICES ASSUME NEW t \in started .. started, StartOfMinute(t) > StartOfMinute(started) PROVE FALSE
    BY <1>1 DEF PastCovered
  <2> QED
    BY <1>1, <2>1
<1> QED
  BY <1>1, <1>2, <1>3 DEF TicksInv, WaitsShort, NowCovered

\* For any schedule, any start and any delays, the loop asks about a minute at most
\* once and in order, and it misses none but those it was still busy, or not woken,
\* for: the second look at the clock before the sleep never makes it sleep past a
\* boundary.
THEOREM MinutesTickedOnce == Spec => []EveryMinuteTickedOnce
<1>1. SchedulerOK /\ [Next]_vars => SchedulerOK'
  BY TypesStep
<1>2. SchedulerOK /\ TicksInv /\ [Next]_vars => TicksInv'
  BY TicksStep
<1>3. TicksInv => EveryMinuteTickedOnce
  BY DEF TicksInv, TickOrder, PastCovered, Covered, EveryMinuteTickedOnce
<1> QED
  BY TypesInit, TicksInit, <1>1, <1>2, <1>3, PTL DEF Spec
-----------------------------------------------------------------------------
(* The in-process queue keeps the contract of the Queue trait.              *)

Pushing(r) == runs[r] # Null /\ runs[r].at = "push"

\* An id belongs to one entry, and an entry is in one place: on the list or in one
\* worker's hands.
OnePlace ==
    /\ \A k, m \in DOMAIN ready : ready[k].id = ready[m].id => k = m
    /\ \A k \in DOMAIN ready : \A w \in Workers : held[w] # Null => held[w].id # ready[k].id
    /\ \A v, w \in Workers : (held[v] # Null /\ held[w] # Null /\ held[v].id = held[w].id) => v = w

WasPushed ==
    /\ \A k \in DOMAIN ready : ready[k].id \in pushed
    /\ \A w \in Workers : held[w] # Null => held[w].id \in pushed

\* An id that was taken and whose entry is still to be pushed is nobody else's.
IdsTaken ==
    /\ \A i \in pushed : i < nextId
    /\ \A r \in RunSlots : Pushing(r) => (runs[r].id < nextId /\ runs[r].id \notin pushed)
    /\ \A q, r \in RunSlots : (Pushing(q) /\ Pushing(r) /\ runs[q].id = runs[r].id) => q = r

IdInv == OnePlace /\ WasPushed /\ IdsTaken

\* A worker's step on the list and its own hands.
LEMMA WorkerIds ==
    ASSUME QueueOK, OnePlace, WasPushed, NEW w \in Workers, WorkerStep(w)
    PROVE  OnePlace' /\ WasPushed'
<1>0. QueueTypeOK /\ HandsOK /\ ready \in Seq(Entry) /\ held \in [Workers -> Entry \cup {Null}]
  BY DEF QueueOK, QueueTypeOK
<1>d. DOMAIN ready = 1 .. Len(ready) /\ Len(ready) \in Nat
  BY <1>0
<1>p. pushed' = pushed
  BY DEF WorkerStep, Pop, HandlerOk, HandlerErr, Release, Fail
<1>1. CASE Pop(w)
  <2>1. PICK k \in DOMAIN ready :
          /\ ready' = RemoveAt(ready, k)
          /\ held' = [held EXCEPT ![w] = [ready[k] EXCEPT !.attempts = ready[k].attempts + 1]]
    BY <1>1 DEF Pop
  <2>2. PICK e : e = [ready[k] EXCEPT !.attempts = ready[k].attempts + 1]
    OBVIOUS
  <2>3. e.id = ready[k].id
    BY <1>0, <2>1, <2>2 DEF Entry
  <2>4. held' = [held EXCEPT ![w] = e]
    BY <2>1, <2>2
  <2>5. /\ DOMAIN ready' = 1 .. Len(ready) - 1
        /\ \A m \in 1 .. Len(ready) - 1 : ready'[m] = IF m < k THEN ready[m] ELSE ready[m + 1]
    BY <1>0, <2>1, RemovedAt
  <2>6. \A m \in DOMAIN ready' : \E j \in DOMAIN ready : j # k /\ ready'[m] = ready[j] /\ (m < k => j = m) /\ (~(m < k) => j = m + 1)
    BY <1>d, <2>1, <2>5
  <2>7. \A m \in DOMAIN ready' : ready'[m].id # e.id /\ ready'[m].id \in pushed
    BY <2>1, <2>3, <2>6 DEF OnePlace, WasPushed
  <2>8. \A m, j \in DOMAIN ready' : ready'[m].id = ready'[j].id => m = j
    BY <1>d, <2>1, <2>5, <2>6 DEF OnePlace
  <2>9. \A v \in Workers \ {w} : held'[v] = held[v]
    BY <1>0, <2>4
  <2>10. held'[w] = e
    BY <1>0, <2>4
  <2>11. \A m \in DOMAIN ready' : \A v \in Workers : held'[v] # Null => held'[v].id # ready'[m].id
    BY <2>6, <2>7, <2>9, <2>10 DEF OnePlace
  <2>12. \A v \in Workers \ {w} : held'[v] # Null => held'[v].id # e.id
    BY <2>1, <2>3, <2>9 DEF OnePlace
  <2>13. OnePlace'
    BY <2>8, <2>9, <2>10, <2>11, <2>12 DEF OnePlace
  <2>14. WasPushed'
    BY <1>p, <2>1, <2>3, <2>7, <2>9, <2>10 DEF WasPushed
  <2> QED
    BY <2>13, <2>14
<1>2. CASE HandlerOk(w) \/ Fail(w)
  <2>1. ready' = ready /\ held' = [held EXCEPT ![w] = Null]
    BY <1>2 DEF HandlerOk, Fail
  <2> QED
    BY <1>0, <1>p, <2>1 DEF OnePlace, WasPushed
<1>3. CASE HandlerErr(w)
  BY <1>3 DEF HandlerErr, OnePlace, WasPushed
<1>4. CASE Release(w)
  <2>1. PICK e : e = [held[w] EXCEPT !.availableAt = now + Backoff(held[w].attempts)]
    OBVIOUS
  <2>2. held[w] \in Entry /\ held[w] # Null
    BY <1>0, <1>4 DEF HandsOK, Release
  <2>3. e.id = held[w].id
    BY <2>1, <2>2 DEF Entry
  <2>4. ready' = Append(ready, e) /\ held' = [held EXCEPT ![w] = Null]
    BY <1>4, <2>1 DEF Release
  <2>5. /\ DOMAIN ready' = 1 .. Len(ready) + 1 /\ ready'[Len(ready) + 1] = e
        /\ \A m \in 1 .. Len(ready) : ready'[m] = ready[m]
    BY <1>0, <2>4
  <2>6. held'[w] = Null /\ \A v \in Workers \ {w} : held'[v] = held[v]
    BY <1>0, <2>4
  <2>7. \A m \in 1 .. Len(ready) : ready[m].id # e.id
    BY <1>d, <2>2, <2>3 DEF OnePlace
  <2>8. \A m, j \in DOMAIN ready' : ready'[m].id = ready'[j].id => m = j
    BY <1>d, <2>5, <2>7 DEF OnePlace
  <2>9. \A v \in Workers \ {w} : held[v] # Null => held[v].id # e.id
    BY <2>2, <2>3 DEF OnePlace
  <2>10. \A m \in DOMAIN ready' : \A v \in Workers : held'[v] # Null => held'[v].id # ready'[m].id
    BY <1>d, <2>5, <2>6, <2>9 DEF OnePlace
  <2>11. OnePlace'
    BY <2>6, <2>8, <2>10 DEF OnePlace
  <2>12. WasPushed'
    BY <1>d, <1>p, <2>2, <2>3, <2>5, <2>6 DEF WasPushed
  <2> QED
    BY <2>11, <2>12
<1> QED
  BY <1>1, <1>2, <1>3, <1>4 DEF WorkerStep

\* A push of an id nobody has.
LEMMA EnqueueIds ==
    ASSUME QueueOK, OnePlace, WasPushed, NEW i \in Ids, i \notin pushed, NEW j, NEW d, Enqueue(i, j, d)
    PROVE  OnePlace' /\ WasPushed'
<1>0. ready \in Seq(Entry) /\ DOMAIN ready = 1 .. Len(ready) /\ Len(ready) \in Nat
  BY DEF QueueOK, QueueTypeOK
<1>1. PICK e : e = [id |-> i, job |-> j, attempts |-> 0, availableAt |-> d]
  OBVIOUS
<1>2. e.id = i /\ ready' = Append(ready, e) /\ held' = held /\ pushed' = pushed \cup {i}
  BY <1>1 DEF Enqueue
<1>3. /\ DOMAIN ready' = 1 .. Len(ready) + 1 /\ ready'[Len(ready) + 1] = e
      /\ \A m \in 1 .. Len(ready) : ready'[m] = ready[m]
  BY <1>0, <1>2
<1>4. \A m \in 1 .. Len(ready) : ready[m].id # i
  BY <1>0 DEF WasPushed
<1>5. OnePlace'
  BY <1>0, <1>2, <1>3, <1>4 DEF OnePlace, WasPushed
<1>6. WasPushed'
  BY <1>0, <1>2, <1>3 DEF WasPushed
<1> QED
  BY <1>5, <1>6

\* The task's half of a push: an id is taken, and given to the entry.
LEMMA RunIds ==
    ASSUME SchedulerOK, IdInv, NEW r \in RunSlots, RunStep(r)
    PROVE  IdInv'
<1>0. /\ runs \in [RunSlots -> Run \cup {Null}] /\ runs[r] \in Run /\ runs[r] # Null
      /\ QueueOK /\ nextId \in Nat /\ pushed \subseteq Ids /\ Ids \subseteq Nat
  BY MemoryQueueConstants
     DEF SchedulerOK, QueueOK, QueueTypeOK, Ids, RunsOK, RunStep, DispatchTakesId, DispatchEnqueues,
         CallEnds, DropGuard
<1>1. CASE DispatchTakesId(r)
  <2>1. PICK k : k = [runs[r] EXCEPT !.at = "push", !.id = nextId, !.due = now]
    OBVIOUS
  <2>2. k.id = nextId /\ runs' = [runs EXCEPT ![r] = k]
    BY <1>0, <1>1, <2>1 DEF DispatchTakesId, Run
  <2>3. nextId' = nextId + 1 /\ UNCHANGED <<ready, held, pushed>>
    BY <1>1 DEF DispatchTakesId, TakeId
  <2>4. \A q \in RunSlots \ {r} : runs'[q] = runs[q]
    BY <1>0, <2>2
  <2>5. runs'[r].id = nextId
    BY <1>0, <2>2
  <2>6. \A q \in RunSlots : Pushing(q) => runs[q].id \in Nat
    BY <1>0 DEF SchedulerOK, RunsOK, PushesOK, Pushing
  <2>7. IdsTaken'
    <3>1. \A i \in pushed' : i < nextId'
      BY <1>0, <2>3 DEF IdInv, IdsTaken
    <3>2. \A q \in RunSlots : Pushing(q)' => (runs'[q].id < nextId' /\ runs'[q].id \notin pushed')
      BY <1>0, <2>3, <2>4, <2>5, <2>6 DEF IdInv, IdsTaken, Pushing
    <3>3. \A q, s \in RunSlots : (Pushing(q)' /\ Pushing(s)' /\ runs'[q].id = runs'[s].id) => q = s
      BY <1>0, <2>4, <2>5, <2>6 DEF IdInv, IdsTaken, Pushing
    <3> QED
      BY <3>1, <3>2, <3>3 DEF IdsTaken
  <2>8. OnePlace' /\ WasPushed'
    BY <2>3 DEF IdInv, OnePlace, WasPushed
  <2> QED
    BY <2>7, <2>8 DEF IdInv
<1>2. CASE DispatchEnqueues(r)
  <2>1. PICK i : i = runs[r].id
    OBVIOUS
  <2>2. Pushing(r) /\ i \in Ids /\ i < nextId /\ i \notin pushed
    BY <1>2, <2>1 DEF DispatchEnqueues, Pushing, SchedulerOK, RunsOK, PushesOK, IdInv, IdsTaken
  <2>3. Enqueue(i, runs[r].event, runs[r].due)
    BY <1>2, <2>1 DEF DispatchEnqueues
  <2>4. OnePlace' /\ WasPushed'
    BY <1>0, <2>2, <2>3, EnqueueIds DEF IdInv
  <2>5. PICK k : k = [runs[r] EXCEPT !.at = "drop", !.id = Null, !.due = Null]
    OBVIOUS
  <2>6. k.at = "drop" /\ runs' = [runs EXCEPT ![r] = k]
    BY <1>0, <1>2, <2>5 DEF DispatchEnqueues, Run
  <2>7. \A q \in RunSlots : Pushing(q)' => (q # r /\ Pushing(q) /\ runs'[q] = runs[q])
    BY <1>0, <2>6 DEF Pushing
  <2>8. pushed' = pushed \cup {i} /\ nextId' = nextId
    BY <2>3 DEF Enqueue
  <2>9. IdsTaken'
    BY <2>1, <2>2, <2>7, <2>8 DEF IdInv, IdsTaken
  <2> QED
    BY <2>4, <2>9 DEF IdInv
<1>3. CASE CallEnds(r) \/ DropGuard(r)
  <2>1. UNCHANGED <<ready, held, pushed, nextId>>
    BY <1>3 DEF CallEnds, DropGuard, queueVars
  <2>2. \A q \in RunSlots : Pushing(q)' => (Pushing(q) /\ runs'[q] = runs[q])
    <3>1. CASE CallEnds(r)
      <4>1. PICK k : k = [runs[r] EXCEPT !.at = "drop"]
        OBVIOUS
      <4>2. k.at = "drop" /\ runs' = [runs EXCEPT ![r] = k]
        BY <1>0, <3>1, <4>1 DEF CallEnds, Run
      <4> QED
        BY <1>0, <4>2 DEF Pushing
    <3>2. CASE DropGuard(r)
      BY <1>0, <3>2 DEF DropGuard, Pushing
    <3> QED
      BY <1>3, <3>1, <3>2
  <2> QED
    BY <2>1, <2>2 DEF IdInv, IdsTaken, OnePlace, WasPushed
<1> QED
  BY <1>1, <1>2, <1>3 DEF RunStep

LEMMA IdStep ==
    ASSUME SchedulerOK, IdInv, [Next]_vars
    PROVE  IdInv'
<1>1. ASSUME NEW r \in RunSlots, RunStep(r) PROVE IdInv'
  BY <1>1, RunIds
<1>2. ASSUME NEW w \in Workers, Working(w) PROVE IdInv'
  <2>1. OnePlace' /\ WasPushed'
    BY <1>2, WorkerIds DEF Working, SchedulerOK, IdInv
  <2>2. UNCHANGED <<pushed, nextId, runs>>
    BY <1>2 DEF Working, WorkerStep, Pop, HandlerOk, HandlerErr, Release, Fail
  <2>3. IdsTaken'
    BY <2>2 DEF IdInv, IdsTaken, Pushing
  <2> QED
    BY <2>1, <2>3 DEF IdInv
<1>3. CASE Emptied
  <2>1. UNCHANGED <<pushed, nextId, runs, held>> /\ (ready' = ready \/ ready' = <<>>)
    BY <1>3 DEF Emptied, Clear, FlushFailed
  <2> QED
    BY <2>1 DEF IdInv, IdsTaken, Pushing, OnePlace, WasPushed
<1>4. CASE UNCHANGED <<ready, held, pushed, nextId, runs>>
  BY <1>4 DEF IdInv, IdsTaken, Pushing, OnePlace, WasPushed
<1>5. CASE TickEvent
  <2>1. UNCHANGED <<ready, held, pushed, nextId>>
    BY <1>5 DEF TickEvent, queueVars
  <2>2. \A q \in RunSlots : Pushing(q)' => (Pushing(q) /\ runs'[q] = runs[q])
    <3>1. CASE runs' = runs
      BY <3>1 DEF Pushing
    <3>2. ASSUME NEW e \in EventNames, NEW r \in RunSlots, runs' = [runs EXCEPT ![r] = NewRun(e)]
          PROVE  \A q \in RunSlots : Pushing(q)' => (Pushing(q) /\ runs'[q] = runs[q])
      BY <3>2, NewRunType DEF Pushing, SchedulerOK, RunsOK
    <3> QED
      BY <1>5, <3>1, <3>2, TickRuns DEF SchedulerOK
  <2> QED
    BY <2>1, <2>2 DEF IdInv, IdsTaken, OnePlace, WasPushed
<1> QED
  BY <1>1, <1>2, <1>3, <1>4, <1>5 DEF Next, RunStep, Boot, Top, TickEnds, PlanWait, Sleep, Wake,
       Signal, Advance, Watched, vars, queueVars

\* What the contract sees: the entries listed, and the attempts of the one with an id.
Listed == {ready[k] : k \in DOMAIN ready} \cup ({held[w] : w \in Workers} \ {Null})

AttemptsIn(L, i) ==
    LET mine == {e \in L : e.id = i}
    IN  IF mine = {} THEN Null ELSE (CHOOSE e \in mine : TRUE).attempts

Seen(L) == [i \in Ids |-> AttemptsIn(L, i)]

LEMMA SeenIsMapped ==
    /\ [i \in Ids |-> Attempts(i)] = Seen(Listed)
    /\ [i \in Ids |-> Attempts(i)]' = Seen(Listed')
  BY DEF Attempts, Seen, AttemptsIn, Listed

LEMMA OneHasId ==
    ASSUME NEW L, NEW i, NEW e \in L, e.id = i, \A f \in L : f.id = i => f = e
    PROVE  AttemptsIn(L, i) = e.attempts
<1>1. {f \in L : f.id = i} = {e}
  OBVIOUS
<1>2. (CHOOSE f \in {e} : TRUE) = e
  BY Zenon
<1> QED
  BY <1>1, <1>2 DEF AttemptsIn

LEMMA NoneHasId ==
    ASSUME NEW L, NEW i, \A f \in L : f.id # i
    PROVE  AttemptsIn(L, i) = Null
<1>1. {f \in L : f.id = i} = {}
  OBVIOUS
<1> QED
  BY <1>1 DEF AttemptsIn

LEMMA SameWithId ==
    ASSUME NEW L, NEW M, NEW i, \A f : f.id = i => (f \in L <=> f \in M)
    PROVE  AttemptsIn(L, i) = AttemptsIn(M, i)
<1>1. PICK mine : mine = {e \in L : e.id = i}
  OBVIOUS
<1>2. mine = {e \in M : e.id = i}
  BY <1>1
<1>3. AttemptsIn(L, i) = IF mine = {} THEN Null ELSE (CHOOSE e \in mine : TRUE).attempts
  BY <1>1 DEF AttemptsIn
<1>4. AttemptsIn(M, i) = IF mine = {} THEN Null ELSE (CHOOSE e \in mine : TRUE).attempts
  BY <1>2 DEF AttemptsIn
<1> QED
  BY <1>3, <1>4

\* An entry is found by its id.
LEMMA FoundById ==
    ASSUME QueueOK, OnePlace
    PROVE  /\ \A k \in DOMAIN ready : \A f \in Listed : f.id = ready[k].id => f = ready[k]
           /\ \A w \in Workers : \A f \in Listed : (held[w] # Null /\ f.id = held[w].id) => f = held[w]
  BY DEF Listed, OnePlace

LEMMA ListedTyped ==
    ASSUME QueueOK
    PROVE  Listed \subseteq Entry
<1>1. ready \in Seq(Entry) /\ held \in [Workers -> Entry \cup {Null}]
  BY DEF QueueOK, QueueTypeOK
<1> QED
  BY <1>1 DEF Listed

DeadIds == {failed[k].id : k \in DOMAIN failed}

\* A step that leaves the entries' attempts and the dead letters alone is a stutter.
LEMMA NotSeen ==
    ASSUME Seen(Listed') = Seen(Listed), pushed' = pushed, failed' = failed
    PROVE  UNCHANGED Contract!vars
<1>1. [i \in Ids |-> Attempts(i)]' = [i \in Ids |-> Attempts(i)]
  BY SeenIsMapped
<1> QED
  BY <1>1 DEF Contract!vars

LEMMA EnqueueSeen ==
    ASSUME QueueOK, WasPushed, NEW i \in Ids, i \notin pushed, NEW j, NEW d, Enqueue(i, j, d)
    PROVE  Contract!Next
<1>0. ready \in Seq(Entry) /\ DOMAIN ready = 1 .. Len(ready) /\ Len(ready) \in Nat
  BY DEF QueueOK, QueueTypeOK
<1>1. PICK e : e = [id |-> i, job |-> j, attempts |-> 0, availableAt |-> d]
  OBVIOUS
<1>2. e.id = i /\ e.attempts = 0
  BY <1>1
<1>3. ready' = Append(ready, e) /\ UNCHANGED <<held, failed>> /\ pushed' = pushed \cup {i}
  BY <1>1 DEF Enqueue
<1>4. /\ DOMAIN ready' = 1 .. Len(ready) + 1 /\ ready'[Len(ready) + 1] = e
      /\ \A m \in 1 .. Len(ready) : ready'[m] = ready[m]
  BY <1>0, <1>3
<1>5. Listed' = Listed \cup {e}
  <2>1. {ready'[k] : k \in DOMAIN ready'} = {ready[k] : k \in DOMAIN ready} \cup {e}
    BY <1>0, <1>4
  <2> QED
    BY <1>3, <2>1 DEF Listed
<1>6. \A f \in Listed : f.id # i
  BY DEF Listed, WasPushed
<1>7. AttemptsIn(Listed', i) = 0
  <2>1. \A f \in Listed' : f.id = i => f = e
    BY <1>5, <1>6
  <2>2. e \in Listed'
    BY <1>5
  <2>3. AttemptsIn(Listed', i) = e.attempts
    BY <1>2, <2>1, <2>2, OneHasId
  <2> QED
    BY <1>2, <2>3
<1>8. ASSUME NEW m \in Ids, m # i PROVE AttemptsIn(Listed', m) = AttemptsIn(Listed, m)
  <2>1. \A f : f.id = m => (f \in Listed' <=> f \in Listed)
    BY <1>2, <1>5, <1>8
  <2> QED
    BY <2>1, SameWithId
<1>9. Seen(Listed') = [Seen(Listed) EXCEPT ![i] = 0]
  BY <1>7, <1>8 DEF Seen
<1>10. Contract!Push(i)
  BY <1>3, <1>9, SeenIsMapped DEF Contract!Push
<1>11. Contract!Push(i) => Contract!Next
  BY Zenon DEF Contract!Next
<1> QED
  BY <1>10, <1>11

\* Every entry but the one with id n is where it was, as far as the contract can see.
LEMMA OthersSeen ==
    ASSUME NEW n \in Ids, NEW a,
           \A f : f.id # n => (f \in Listed' <=> f \in Listed), AttemptsIn(Listed', n) = a
    PROVE  Seen(Listed') = [Seen(Listed) EXCEPT ![n] = a]
<1>1. ASSUME NEW m \in Ids, m # n PROVE AttemptsIn(Listed', m) = AttemptsIn(Listed, m)
  <2>1. \A f : f.id = m => (f \in Listed' <=> f \in Listed)
    BY <1>1
  <2> QED
    BY <2>1, SameWithId
<1> QED
  BY <1>1 DEF Seen

LEMMA PopSeen ==
    ASSUME QueueOK, OnePlace, NEW w \in Workers, Pop(w)
    PROVE  Contract!Next
<1>0. /\ ready \in Seq(Entry) /\ DOMAIN ready = 1 .. Len(ready) /\ Len(ready) \in Nat
      /\ held \in [Workers -> Entry \cup {Null}] /\ held[w] = Null
  BY DEF QueueOK, QueueTypeOK, HandsOK, Pop
<1>1. PICK k \in DOMAIN ready :
        /\ ready' = RemoveAt(ready, k)
        /\ held' = [held EXCEPT ![w] = [ready[k] EXCEPT !.attempts = ready[k].attempts + 1]]
  BY DEF Pop
<1>e. ready[k] \in Entry /\ ready[k].attempts < MaxTries
  BY <1>0, <1>1 DEF QueueOK, HandsOK
<1>2. PICK n \in Ids : n = ready[k].id
  BY <1>e DEF Entry
<1>3. PICK e : e = [ready[k] EXCEPT !.attempts = ready[k].attempts + 1]
  OBVIOUS
<1>4. e.id = n /\ e.attempts = ready[k].attempts + 1 /\ ready[k].attempts \in Nat
  BY <1>e, <1>2, <1>3 DEF Entry
<1>5. e # Null
  <2>1. e \in Entry
    BY <1>e, <1>3, MemoryQueueConstants DEF Entry
  <2> QED
    BY <2>1, MemoryQueueConstants
<1>6. held'[w] = e /\ \A v \in Workers \ {w} : held'[v] = held[v]
  BY <1>0, <1>1, <1>3
<1>7. {held'[v] : v \in Workers} \ {Null} = ({held[v] : v \in Workers} \ {Null}) \cup {e}
  BY <1>0, <1>5, <1>6
<1>8. /\ DOMAIN ready' = 1 .. Len(ready) - 1
      /\ \A m \in 1 .. Len(ready) - 1 : ready'[m] = IF m < k THEN ready[m] ELSE ready[m + 1]
  BY <1>0, <1>1, RemovedAt
<1>9. {ready'[m] : m \in DOMAIN ready'} = {ready[m] : m \in DOMAIN ready \ {k}}
  <2>1. \A m \in DOMAIN ready' : \E j \in DOMAIN ready \ {k} : ready'[m] = ready[j]
    BY <1>0, <1>1, <1>8
  <2>2. \A j \in DOMAIN ready \ {k} : \E m \in DOMAIN ready' : ready'[m] = ready[j]
    <3>1. SUFFICES ASSUME NEW j \in DOMAIN ready, j # k PROVE \E m \in DOMAIN ready' : ready'[m] = ready[j]
      OBVIOUS
    <3>2. CASE j < k
      BY <1>0, <1>1, <1>8, <3>1, <3>2
    <3>3. CASE j > k
      <4>1. j - 1 \in DOMAIN ready' /\ ~(j - 1 < k) /\ (j - 1) + 1 = j
        BY <1>0, <1>1, <1>8, <3>1, <3>3
      <4> QED
        BY <1>8, <4>1
    <3> QED
      BY <1>0, <3>1, <3>2, <3>3
  <2> QED
    BY <2>1, <2>2
<1>10. Listed = {ready[m] : m \in DOMAIN ready \ {k}} \cup {ready[k]} \cup ({held[v] : v \in Workers} \ {Null})
  BY DEF Listed
<1>11. Listed' = {ready[m] : m \in DOMAIN ready \ {k}} \cup (({held[v] : v \in Workers} \ {Null}) \cup {e})
  BY <1>7, <1>9 DEF Listed
<1>12. \A f : f.id # n => (f \in Listed' <=> f \in Listed)
  BY <1>2, <1>4, <1>10, <1>11
<1>13. \A f \in Listed' : f.id = n => f = e
  BY <1>0, <1>2, <1>11 DEF OnePlace
<1>14. e \in Listed' /\ ready[k] \in Listed
  BY <1>10, <1>11
<1>15. AttemptsIn(Listed', n) = e.attempts
  BY <1>4, <1>13, <1>14, OneHasId
<1>16. AttemptsIn(Listed, n) = ready[k].attempts
  <2>1. \A f \in Listed : f.id = n => f = ready[k]
    BY <1>2, FoundById
  <2> QED
    BY <1>2, <1>14, <2>1, OneHasId
<1>17. Seen(Listed') = [Seen(Listed) EXCEPT ![n] = Seen(Listed)[n] + 1]
  <2>1. AttemptsIn(Listed', n) = Seen(Listed)[n] + 1
    BY <1>4, <1>15, <1>16 DEF Seen
  <2> QED
    BY <1>12, <2>1, OthersSeen
<1>18. Seen(Listed)[n] # Null
  BY <1>4, <1>16, MemoryQueueConstants DEF Seen
<1>19. Contract!Pop(n)
  BY <1>17, <1>18, SeenIsMapped DEF Contract!Pop, Pop
<1>20. Contract!Pop(n) => Contract!Next
  BY Zenon DEF Contract!Next
<1> QED
  BY <1>19, <1>20

\* What a worker has in its hands and lets go of is seen no more.
LEMMA LetGo ==
    ASSUME QueueOK, OnePlace, NEW w \in Workers, held[w] # Null,
           ready' = ready, held' = [held EXCEPT ![w] = Null]
    PROVE  held[w].id \in Ids /\ Seen(Listed') = [Seen(Listed) EXCEPT ![held[w].id] = Null]
<1>0. held \in [Workers -> Entry \cup {Null}] /\ held[w] \in Entry
  BY DEF QueueOK, QueueTypeOK
<1>1. PICK n \in Ids : n = held[w].id
  BY <1>0 DEF Entry
<1>2. held'[w] = Null /\ \A v \in Workers \ {w} : held'[v] = held[v]
  BY <1>0
<1>3. \A f : f.id # n => (f \in Listed' <=> f \in Listed)
  BY <1>1, <1>2 DEF Listed
<1>4. \A f \in Listed' : f.id # n
  BY <1>1, <1>2 DEF Listed, OnePlace
<1>5. AttemptsIn(Listed', n) = Null
  BY <1>4, NoneHasId
<1> QED
  BY <1>1, <1>3, <1>5, OthersSeen

LEMMA HandlerOkSeen ==
    ASSUME QueueOK, OnePlace, NEW w \in Workers, HandlerOk(w)
    PROVE  Contract!Next
<1>1. held[w] # Null /\ ready' = ready /\ held' = [held EXCEPT ![w] = Null]
      /\ UNCHANGED <<pushed, failed>>
  BY DEF HandlerOk, QueueOK, HandsOK
<1>2. PICK n : n = held[w].id
  OBVIOUS
<1>3. n \in Ids /\ Seen(Listed') = [Seen(Listed) EXCEPT ![n] = Null]
  BY <1>1, <1>2, LetGo
<1>4. Contract!Delete(n)
  BY <1>1, <1>3, SeenIsMapped DEF Contract!Delete
<1>5. n \in Ids /\ Contract!Delete(n) => Contract!Next
  BY Zenon DEF Contract!Next
<1> QED
  BY <1>3, <1>4, <1>5

LEMMA MemoryFailSeen ==
    ASSUME QueueOK, OnePlace, WasPushed, NEW w \in Workers, Fail(w)
    PROVE  Contract!Next
<1>1. held[w] # Null /\ ready' = ready /\ held' = [held EXCEPT ![w] = Null]
      /\ pushed' = pushed /\ failed' = Append(failed, held[w])
  BY DEF Fail, QueueOK, HandsOK
<1>2. PICK n : n = held[w].id
  OBVIOUS
<1>3. n \in Ids /\ Seen(Listed') = [Seen(Listed) EXCEPT ![n] = Null]
  BY <1>1, <1>2, LetGo
<1>4. DeadIds' = DeadIds \cup {n}
  <2>0. failed \in Seq(Entry) /\ held[w] \in Entry
    BY <1>1 DEF QueueOK, QueueTypeOK
  <2>1. /\ DOMAIN failed = 1 .. Len(failed) /\ DOMAIN failed' = 1 .. Len(failed) + 1 /\ Len(failed) \in Nat
        /\ failed'[Len(failed) + 1] = held[w]
        /\ \A k \in 1 .. Len(failed) : failed'[k] = failed[k]
    BY <1>1, <2>0
  <2> QED
    BY <1>2, <2>1 DEF DeadIds
<1>5. n \in pushed
  BY <1>1, <1>2 DEF WasPushed
<1>6. Contract!Fail(n)
  BY <1>1, <1>3, <1>4, <1>5, SeenIsMapped DEF Contract!Fail, DeadIds
<1>7. n \in Ids /\ Contract!Fail(n) => Contract!Next
  BY Zenon DEF Contract!Next
<1> QED
  BY <1>3, <1>6, <1>7

\* A released entry is put back with the attempts it was handed out with.
LEMMA ReleaseSeen ==
    ASSUME QueueOK, OnePlace, NEW w \in Workers, Release(w)
    PROVE  UNCHANGED Contract!vars
<1>0. /\ ready \in Seq(Entry) /\ DOMAIN ready = 1 .. Len(ready) /\ Len(ready) \in Nat
      /\ held \in [Workers -> Entry \cup {Null}] /\ held[w] \in Entry /\ held[w] # Null
  BY DEF QueueOK, QueueTypeOK, HandsOK, Release
<1>1. PICK e : e = [held[w] EXCEPT !.availableAt = now + Backoff(held[w].attempts)]
  OBVIOUS
<1>2. PICK n \in Ids : n = held[w].id
  BY <1>0 DEF Entry
<1>3. e.id = n /\ e.attempts = held[w].attempts
  BY <1>0, <1>1, <1>2 DEF Entry
<1>4. ready' = Append(ready, e) /\ held' = [held EXCEPT ![w] = Null] /\ UNCHANGED <<pushed, failed>>
  BY <1>1 DEF Release
<1>5. {ready'[k] : k \in DOMAIN ready'} = {ready[k] : k \in DOMAIN ready} \cup {e}
  <2>1. /\ DOMAIN ready' = 1 .. Len(ready) + 1 /\ ready'[Len(ready) + 1] = e
        /\ \A m \in 1 .. Len(ready) : ready'[m] = ready[m]
    BY <1>0, <1>4
  <2> QED
    BY <1>0, <2>1
<1>6. held'[w] = Null /\ \A v \in Workers \ {w} : held'[v] = held[v]
  BY <1>0, <1>4
<1>7. \A f : f.id # n => (f \in Listed' <=> f \in Listed)
  BY <1>2, <1>3, <1>5, <1>6 DEF Listed
<1>8. e \in Listed' /\ \A f \in Listed' : f.id = n => f = e
  <2>1. \A k \in DOMAIN ready : ready[k].id # n
    BY <1>0, <1>2 DEF OnePlace
  <2>2. \A v \in Workers \ {w} : held[v] # Null => held[v].id # n
    BY <1>0, <1>2 DEF OnePlace
  <2>3. Listed' = ({ready[k] : k \in DOMAIN ready} \cup {e}) \cup ({held'[v] : v \in Workers} \ {Null})
    BY <1>5 DEF Listed
  <2>4. \A f \in {held'[v] : v \in Workers} \ {Null} : f.id # n
    BY <1>6, <2>2
  <2> QED
    BY <2>1, <2>3, <2>4
<1>9. AttemptsIn(Listed', n) = held[w].attempts
  BY <1>3, <1>8, OneHasId
<1>10. AttemptsIn(Listed, n) = held[w].attempts
  <2>1. held[w] \in Listed
    BY <1>0 DEF Listed
  <2>2. \A f \in Listed : f.id = n => f = held[w]
    BY <1>0, <1>2, FoundById
  <2> QED
    BY <1>2, <2>1, <2>2, OneHasId
<1>11. Seen(Listed') = [Seen(Listed) EXCEPT ![n] = Seen(Listed)[n]]
  <2>1. AttemptsIn(Listed', n) = Seen(Listed)[n]
    BY <1>9, <1>10 DEF Seen
  <2> QED
    BY <1>7, <2>1, OthersSeen
<1>12. Seen(Listed') = Seen(Listed)
  BY <1>11 DEF Seen
<1> QED
  BY <1>4, <1>12, NotSeen

\* clear takes what is on the list, and leaves what is in the workers' hands.
LEMMA MemoryClearSeen ==
    ASSUME QueueOK, OnePlace, Clear
    PROVE  Contract!Next
<1>0. ready \in Seq(Entry)
  BY DEF QueueOK, QueueTypeOK
<1>1. ready' = <<>> /\ UNCHANGED <<held, pushed, failed>>
  BY DEF Clear
<1>e. \A k \in DOMAIN ready : ready[k] \in Entry
  BY <1>0
<1>i. \A k \in DOMAIN ready : ready[k].id \in Ids
  BY <1>e DEF Entry
<1>2. PICK gone \in SUBSET Ids : gone = {ready[k].id : k \in DOMAIN ready}
  BY <1>i
<1>3. Listed' = {held[w] : w \in Workers} \ {Null}
  BY <1>1 DEF Listed
<1>4. ASSUME NEW i \in Ids
      PROVE  AttemptsIn(Listed', i) = IF i \in gone THEN Null ELSE AttemptsIn(Listed, i)
  <2>1. CASE i \in gone
    <3>1. \A f \in Listed' : f.id # i
      BY <1>2, <1>3, <2>1 DEF OnePlace
    <3> QED
      BY <2>1, <3>1, NoneHasId
  <2>2. CASE i \notin gone
    <3>1. \A f : f.id = i => (f \in Listed' <=> f \in Listed)
      BY <1>2, <1>3, <2>2 DEF Listed
    <3>2. AttemptsIn(Listed', i) = AttemptsIn(Listed, i)
      BY <3>1, SameWithId
    <3> QED
      BY <2>2, <3>2
  <2> QED
    BY <2>1, <2>2
<1>5. Seen(Listed') = [i \in Ids |-> IF i \in gone THEN Null ELSE Seen(Listed)[i]]
  BY <1>4 DEF Seen
<1>6. Contract!Clear(gone)
  BY <1>1, <1>5, SeenIsMapped DEF Contract!Clear
<1>7. Contract!Clear(gone) => Contract!Next
  BY Zenon DEF Contract!Next
<1> QED
  BY <1>6, <1>7

LEMMA FlushSeen ==
    ASSUME FlushFailed
    PROVE  Contract!Next
<1>1. failed' = <<>> /\ UNCHANGED <<ready, held, pushed>>
  BY DEF FlushFailed
<1>2. Listed' = Listed
  BY <1>1 DEF Listed
<1>3. Contract!Flush
  BY <1>1, <1>2, SeenIsMapped DEF Contract!Flush
<1>4. Contract!Flush => Contract!Next
  BY Zenon DEF Contract!Next
<1> QED
  BY <1>3, <1>4

LEMMA MemoryContractStep ==
    ASSUME SchedulerOK, IdInv, [Next]_vars
    PROVE  [Contract!Next]_(Contract!vars)
<1>0. QueueOK /\ OnePlace /\ WasPushed /\ IdsTaken
  BY DEF SchedulerOK, IdInv
<1>u. ASSUME UNCHANGED <<ready, held, pushed, failed>> PROVE UNCHANGED Contract!vars
  BY <1>u, NotSeen DEF Listed
<1>1. ASSUME NEW r \in RunSlots, DispatchEnqueues(r) PROVE Contract!Next
  <2>1. PICK i : i = runs[r].id
    OBVIOUS
  <2>2. i \in Ids /\ i \notin pushed
    BY <1>0, <1>1, <2>1 DEF DispatchEnqueues, Pushing, SchedulerOK, RunsOK, PushesOK, IdsTaken
  <2>3. Enqueue(i, runs[r].event, runs[r].due)
    BY <1>1, <2>1 DEF DispatchEnqueues
  <2> QED
    BY <1>0, <2>2, <2>3, EnqueueSeen
<1>2. ASSUME NEW w \in Workers, Working(w) PROVE [Contract!Next]_(Contract!vars)
  <2>1. ASSUME HandlerErr(w) PROVE UNCHANGED Contract!vars
    BY <2>1, <1>u DEF HandlerErr
  <2>2. ASSUME Pop(w) PROVE Contract!Next
    BY <1>0, <2>2, PopSeen
  <2>3. ASSUME HandlerOk(w) PROVE Contract!Next
    BY <1>0, <2>3, HandlerOkSeen
  <2>4. ASSUME Release(w) PROVE UNCHANGED Contract!vars
    BY <1>0, <2>4, ReleaseSeen
  <2>5. ASSUME Fail(w) PROVE Contract!Next
    BY <1>0, <2>5, MemoryFailSeen
  <2>6. WorkerStep(w)
    BY <1>2 DEF Working
  <2> QED
    BY <2>1, <2>2, <2>3, <2>4, <2>5, <2>6, Zenon DEF WorkerStep
<1>3. ASSUME Emptied PROVE Contract!Next
  BY <1>0, <1>3, MemoryClearSeen, FlushSeen DEF Emptied
<1>4. ASSUME NEW r \in RunSlots, DispatchTakesId(r) \/ CallEnds(r) \/ DropGuard(r)
      PROVE  UNCHANGED Contract!vars
  <2>1. UNCHANGED <<ready, held, pushed, failed>>
    BY <1>4 DEF DispatchTakesId, TakeId, CallEnds, DropGuard, queueVars
  <2> QED
    BY <2>1, <1>u
<1>5. ASSUME LoopStep \/ UNCHANGED vars PROVE UNCHANGED Contract!vars
  <2>1. UNCHANGED <<ready, held, pushed, failed>>
    BY <1>5 DEF LoopStep, Boot, Top, TickEvent, TickEnds, PlanWait, Sleep, Wake, Signal, Advance,
                Watched, vars, queueVars
  <2> QED
    BY <2>1, <1>u
<1> QED
  BY <1>1, <1>2, <1>3, <1>4, <1>5, Zenon DEF Next, LoopStep

LEMMA MemoryContractInit == Init => Contract!Init
<1> SUFFICES ASSUME Init PROVE Contract!Init
  OBVIOUS
<1>1. ready = <<>> /\ failed = <<>> /\ pushed = {} /\ held = [w \in Workers |-> Null]
  BY DEF Init, QueueInit
<1>2. \A f \in Listed : FALSE
  BY <1>1 DEF Listed
<1>3. \A i \in Ids : AttemptsIn(Listed, i) = Null
  BY <1>2, NoneHasId
<1>4. Seen(Listed) = [i \in Ids |-> Null]
  BY <1>3 DEF Seen
<1> QED
  BY <1>1, <1>4, SeenIsMapped DEF Contract!Init

\* The in-process driver keeps the contract of the Queue trait (queue.rs) under the
\* scheduler, for any number of tasks and workers: although a push takes its id before
\* it takes the mutex, no id is used twice, no attempt handed out twice, and nothing
\* that left the list comes back.
THEOREM MemoryKeepsContract == Spec => KeepsContract
<1>1. Init => IdInv
  BY DEF Init, QueueInit, IdInv, OnePlace, WasPushed, IdsTaken, Pushing
<1>2. SchedulerOK /\ [Next]_vars => SchedulerOK'
  BY TypesStep
<1>3. SchedulerOK /\ IdInv /\ [Next]_vars => IdInv'
  BY IdStep
<1>4. SchedulerOK /\ IdInv /\ [Next]_vars => [Contract!Next]_(Contract!vars)
  BY MemoryContractStep
<1> QED
  BY TypesInit, MemoryContractInit, <1>1, <1>2, <1>3, <1>4, PTL DEF Spec, KeepsContract, Contract!Spec

-----------------------------------------------------------------------------
(***************************************************************************)
(* next_after, for any calendar and any expression.  Its search is a        *)
(* recursive function; what it computes is shown by induction on how far a  *)
(* candidate is from the limit, which is taken by the least counterexample. *)
(***************************************************************************)
LEMMA LeastNumber ==
    ASSUME NEW S, S \subseteq Nat, S # {}
    PROVE  \E m \in S : \A n \in S : m <= n
<1>1. IsWellFoundedOn(OpToRel(<, Nat), Nat)
  BY NatLessThanWellFounded
<1>2. PICK m \in S : \A n \in S : ~(<<n, m>> \in OpToRel(<, Nat))
  BY <1>1, WFMin
<1>3. ASSUME NEW n \in S PROVE m <= n
  <2>1. ~(<<n, m>> \in OpToRel(<, Nat))
    BY <1>2
  <2>2. ~(n < m)
    BY <2>1 DEF OpToRel
  <2> QED
    BY <2>2
<1> QED
  BY <1>3

\* A set of numbers with 0 and with the successor of each has all of them.
LEMMA AllNumbers ==
    ASSUME NEW S, 0 \in S, \A k \in Nat : k \in S => k + 1 \in S
    PROVE  Nat \subseteq S
<1>1. SUFFICES ASSUME NEW j \in Nat, j \notin S PROVE FALSE
  OBVIOUS
<1>2. PICK m \in Nat \ S : \A k \in Nat \ S : m <= k
  <2>1. Nat \ S \subseteq Nat /\ Nat \ S # {}
    BY <1>1
  <2> QED
    BY <2>1, LeastNumber
<1>3. m # 0 /\ m - 1 \in Nat /\ (m - 1) + 1 = m /\ ~(m <= m - 1)
  BY <1>2
<1>4. m - 1 \in S
  BY <1>2, <1>3
<1>5. m \in S
  BY <1>3, <1>4
<1> QED
  BY <1>2, <1>5

LEMMA Divided ==
    ASSUME NEW x \in Nat, NEW d \in Nat, d > 0
    PROVE  /\ x \div d \in Nat /\ x % d \in Nat /\ x % d < d
           /\ x = d * (x \div d) + (x % d)
  OBVIOUS

LEMMA Quotient ==
    ASSUME NEW x \in Nat, NEW d \in Nat, d > 0, NEW q \in Nat, d * q <= x, x < d * q + d
    PROVE  x \div d = q /\ x % d = x - d * q
<1>1. x \div d \in Nat /\ x % d \in Nat /\ x % d < d /\ x = d * (x \div d) + (x % d)
  BY Divided
<1>2. x \div d = q
  OBVIOUS
<1> QED
  BY <1>1, <1>2

LEMMA Multiple ==
    ASSUME NEW d \in Nat, d > 0, NEW q \in Nat
    PROVE  (d * q) % d = 0
  OBVIOUS

LEMMA CalendarSizes ==
    /\ Minute \in Nat /\ Minute > 0 /\ Hour \in Nat /\ Hour > 0 /\ Day \in Nat /\ Day > 0
    /\ Hour = Minute * MinutesPerHour /\ Day = Hour * HoursPerDay
    /\ MinutesPerHour \in Nat /\ HoursPerDay \in Nat /\ HoursPerDay > 0
<1>1. Minute \in Nat /\ Minute > 0 /\ MinutesPerHour \in Nat /\ MinutesPerHour > 0
      /\ HoursPerDay \in Nat /\ HoursPerDay > 0
  BY CalendarConstants
<1>2. Hour \in Nat /\ Hour > 0
  BY <1>1 DEF Hour
<1>3. Day \in Nat /\ Day > 0
  BY <1>1, <1>2 DEF Day
<1> QED
  BY <1>1, <1>2, <1>3 DEF Hour, Day

-----------------------------------------------------------------------------
(* What Matches says, by the day's number, the hour and the minute.         *)

MonthOf(n)    == Date(n).month
DayOfMonth(n) == Date(n).day
WeekdayOf(n)  == (n + FirstWeekday) % DaysPerWeek

\* The day numbered n is one the expression selects.
Dated(cron, n) ==
    /\ MonthOf(n) \in cron.month
    /\ \/ ~cron.domRestricted /\ ~cron.dowRestricted
       \/ cron.domRestricted /\ DayOfMonth(n) \in cron.day
       \/ cron.dowRestricted /\ WeekdayOf(n) \in cron.weekday

HourOf(t)   == (t % Day) \div Hour
MinuteOf(t) == (t % Hour) \div Minute

LEMMA UnixFields ==
    ASSUME NEW t
    PROVE  /\ FromUnix(t).month = MonthOf(t \div Day)
           /\ FromUnix(t).day = DayOfMonth(t \div Day)
           /\ FromUnix(t).weekday = WeekdayOf(t \div Day)
           /\ FromUnix(t).hour = HourOf(t)
           /\ FromUnix(t).minute = MinuteOf(t)
<1>1. PICK r : r = [month |-> MonthOf(t \div Day), day |-> DayOfMonth(t \div Day), hour |-> HourOf(t),
                    minute |-> MinuteOf(t), weekday |-> WeekdayOf(t \div Day)]
  OBVIOUS
<1>2. FromUnix(t) = r
  BY <1>1, Zenon DEF FromUnix, MonthOf, DayOfMonth, WeekdayOf, HourOf, MinuteOf
<1>3. /\ r.month = MonthOf(t \div Day) /\ r.day = DayOfMonth(t \div Day)
      /\ r.weekday = WeekdayOf(t \div Day) /\ r.hour = HourOf(t) /\ r.minute = MinuteOf(t)
  BY ONLY <1>1
<1> QED
  BY <1>2, <1>3, Zenon

LEMMA DateIs ==
    ASSUME NEW cron, NEW t
    PROVE  DateMatches(cron, FromUnix(t)) <=> Dated(cron, t \div Day)
  BY UnixFields, Zenon DEF DateMatches, Dated

LEMMA MatchIs ==
    ASSUME NEW cron, NEW t
    PROVE  Matches(cron, t) <=>
             (Dated(cron, t \div Day) /\ HourOf(t) \in cron.hour /\ MinuteOf(t) \in cron.minute)
  BY UnixFields, DateIs, Zenon DEF Matches

-----------------------------------------------------------------------------
(* The search.                                                              *)

Body(s, cron, lim, c) ==
    IF c >= lim THEN None
    ELSE IF ~Dated(cron, c \div Day) THEN s[StartOfDay(c) + Day]
    ELSE IF HourOf(c) \notin cron.hour THEN s[StartOfDay(c) + (HourOf(c) + 1) * Hour]
    ELSE IF MinuteOf(c) \in cron.minute THEN c
    ELSE s[c + Minute]

Seeks(s, cron, lim) == s = [c \in Nat |-> Body(s, cron, lim, c)]

\* c is in the hour h of the day numbered q.
LEMMA Placed ==
    ASSUME NEW c \in Nat
    PROVE  \E q, h \in Nat :
              /\ q = c \div Day /\ h = HourOf(c) /\ StartOfDay(c) = Day * q
              /\ Day * q + Hour * h <= c /\ c < Day * q + Hour * h + Hour
              /\ Hour * h + Hour <= Day
<1>1. Hour \in Nat /\ Hour > 0 /\ Day \in Nat /\ Day > 0 /\ Day = Hour * HoursPerDay /\ HoursPerDay \in Nat
  BY CalendarSizes
<1>2. PICK q \in Nat : q = c \div Day
  BY <1>1, Divided
<1>3. PICK r \in Nat : r = c % Day
  BY <1>1, Divided
<1>4. c = Day * q + r /\ r < Day
  BY <1>1, <1>2, <1>3, Divided
<1>5. PICK h \in Nat : h = r \div Hour
  BY <1>1, Divided
<1>6. PICK e \in Nat : e = r % Hour
  BY <1>1, Divided
<1>7. r = Hour * h + e /\ e < Hour
  BY <1>1, <1>5, <1>6, Divided
<1>8. h < HoursPerDay
  <2>1. SUFFICES ASSUME HoursPerDay <= h PROVE FALSE
    BY <1>1
  <2>2. Hour * HoursPerDay <= Hour * h
    BY <2>1, <1>1
  <2> QED
    BY <2>2, <1>1, <1>4, <1>7
<1>9. Hour * h + Hour <= Day
  <2>1. h + 1 <= HoursPerDay
    BY <1>8, <1>1
  <2>2. Hour * (h + 1) <= Hour * HoursPerDay /\ Hour * (h + 1) = Hour * h + Hour
    BY <2>1, <1>1
  <2> QED
    BY <2>2, <1>1
<1>10. HourOf(c) = h
  BY <1>3, <1>5 DEF HourOf
<1>11. PICK dq \in Nat : dq = Day * q
  BY <1>1
<1>12. PICK hh \in Nat : hh = Hour * h
  BY <1>1
<1>13. StartOfDay(c) = dq
  BY <1>3, <1>4, <1>11 DEF StartOfDay
<1>14. dq + hh <= c /\ c < dq + hh + Hour
  BY <1>1, <1>4, <1>7, <1>11, <1>12
<1> QED
  BY <1>2, <1>9, <1>10, <1>11, <1>12, <1>13, <1>14

\* Every jump of the search is forward.
LEMMA Onward ==
    ASSUME NEW c \in Nat
    PROVE  /\ StartOfDay(c) + Day \in Nat /\ c < StartOfDay(c) + Day
           /\ StartOfDay(c) + (HourOf(c) + 1) * Hour \in Nat
           /\ c < StartOfDay(c) + (HourOf(c) + 1) * Hour
           /\ c + Minute \in Nat /\ c < c + Minute
<1>1. Hour \in Nat /\ Hour > 0 /\ Day \in Nat /\ Day > 0 /\ Minute \in Nat /\ Minute > 0
  BY CalendarSizes
<1>2. PICK q, h \in Nat :
              /\ q = c \div Day /\ h = HourOf(c) /\ StartOfDay(c) = Day * q
              /\ Day * q + Hour * h <= c /\ c < Day * q + Hour * h + Hour
              /\ Hour * h + Hour <= Day
  BY Placed
<1>3. PICK dq \in Nat : dq = Day * q
  BY <1>1
<1>4. PICK hh \in Nat : hh = Hour * h
  BY <1>1
<1>5. (h + 1) * Hour = hh + Hour
  BY <1>1, <1>4
<1> QED
  BY <1>1, <1>2, <1>3, <1>4, <1>5

LEMMA BodyLooksAhead ==
    ASSUME NEW cron, NEW lim, NEW c \in Nat, NEW s, NEW u, \A x \in Nat : c < x => s[x] = u[x]
    PROVE  Body(s, cron, lim, c) = Body(u, cron, lim, c)
<1>1. s[StartOfDay(c) + Day] = u[StartOfDay(c) + Day]
  BY Onward
<1>2. s[StartOfDay(c) + (HourOf(c) + 1) * Hour] = u[StartOfDay(c) + (HourOf(c) + 1) * Hour]
  BY Onward
<1>3. s[c + Minute] = u[c + Minute]
  BY Onward
<1> QED
  BY <1>1, <1>2, <1>3, Zenon DEF Body

\* s solves the search's equation for the candidates at most k before the limit.
SeeksFrom(s, cron, lim, k) == \A c \in Nat : c + k >= lim => s[c] = Body(s, cron, lim, c)

LEMMA SearchExists ==
    ASSUME NEW cron, NEW lim \in Nat
    PROVE  \E s : Seeks(s, cron, lim)
<1> DEFINE S == {k \in Nat : \E s : SeeksFrom(s, cron, lim, k)}
<1>1. 0 \in S
  <2>1. PICK s : s = [c \in Nat |-> None]
    OBVIOUS
  <2>2. SeeksFrom(s, cron, lim, 0)
    BY <2>1 DEF SeeksFrom, Body
  <2> QED
    BY <2>2
<1>2. ASSUME NEW k \in Nat, k \in S PROVE k + 1 \in S
  <2>1. PICK s : SeeksFrom(s, cron, lim, k)
    BY <1>2
  <2>2. PICK u : u = [c \in Nat |-> IF c + k >= lim THEN s[c] ELSE Body(s, cron, lim, c)]
    OBVIOUS
  <2>3. SeeksFrom(u, cron, lim, k + 1)
    <3>1. SUFFICES ASSUME NEW c \in Nat, c + (k + 1) >= lim PROVE u[c] = Body(u, cron, lim, c)
      BY DEF SeeksFrom
    <3>2. \A x \in Nat : c < x => s[x] = u[x]
      <4>1. SUFFICES ASSUME NEW x \in Nat, c < x PROVE s[x] = u[x]
        OBVIOUS
      <4>2. x + k >= lim
        BY <3>1, <4>1
      <4> QED
        BY <2>2, <4>2
    <3>3. Body(s, cron, lim, c) = Body(u, cron, lim, c)
      BY <3>2, BodyLooksAhead
    <3>4. c + k >= lim => s[c] = Body(s, cron, lim, c)
      BY <2>1 DEF SeeksFrom
    <3>5. u[c] = Body(s, cron, lim, c)
      BY <2>2, <3>4
    <3> QED
      BY <3>3, <3>5
  <2> QED
    BY <2>3
<1>3. lim \in S
  <2>1. Nat \subseteq S
    <3> HIDE DEF S
    <3> QED
      BY <1>1, <1>2, AllNumbers
  <2> QED
    BY <2>1
<1>4. PICK s : SeeksFrom(s, cron, lim, lim)
  BY <1>3
<1>5. PICK u : u = [c \in Nat |-> s[c]]
  OBVIOUS
<1>6. ASSUME NEW c \in Nat PROVE u[c] = Body(u, cron, lim, c)
  <2>1. c + lim >= lim
    OBVIOUS
  <2>2. s[c] = Body(s, cron, lim, c)
    BY <1>4, <2>1 DEF SeeksFrom
  <2>3. \A x \in Nat : c < x => s[x] = u[x]
    BY <1>5
  <2>4. Body(s, cron, lim, c) = Body(u, cron, lim, c)
    BY <2>3, BodyLooksAhead
  <2> QED
    BY <1>5, <2>2, <2>4
<1>7. Seeks(u, cron, lim)
  BY <1>5, <1>6, Zenon DEF Seeks
<1> QED
  BY <1>7

\* The search as next_after has it.
CodeBody(s, cron, first, c) ==
    LET then == FromUnix(c)
    IN  IF c >= first + LimitDays * Day THEN None
        ELSE IF ~DateMatches(cron, then) THEN s[StartOfDay(c) + Day]
        ELSE IF then.hour \notin cron.hour
             THEN s[StartOfDay(c) + (then.hour + 1) * Hour]
        ELSE IF then.minute \in cron.minute THEN c
        ELSE s[c + Minute]

LEMMA CodeBodyIs ==
    ASSUME NEW cron, NEW first, NEW lim, lim = first + LimitDays * Day, NEW s, NEW c
    PROVE  CodeBody(s, cron, first, c) = Body(s, cron, lim, c)
<1>1. FromUnix(c).hour = HourOf(c) /\ FromUnix(c).minute = MinuteOf(c)
  BY UnixFields
<1>2. DateMatches(cron, FromUnix(c)) <=> Dated(cron, c \div Day)
  BY DateIs
<1> QED
  BY <1>1, <1>2, Zenon DEF CodeBody, Body

LEMMA NextAfterIs ==
    ASSUME NEW cron, NEW t \in Nat, NEW first, first = StartOfMinute(t) + Minute,
           NEW lim \in Nat, lim = first + LimitDays * Day
    PROVE  \E s : Seeks(s, cron, lim) /\ NextAfter(cron, t) = s[first]
<1>1. PICK s : s = CHOOSE u : u = [c \in Nat |-> CodeBody(u, cron, StartOfMinute(t) + Minute, c)]
  OBVIOUS
<1>2. \E u : u = [c \in Nat |-> CodeBody(u, cron, first, c)]
  <2>1. PICK u : u = [c \in Nat |-> Body(u, cron, lim, c)]
    BY SearchExists DEF Seeks
  <2>2. \A c \in Nat : CodeBody(u, cron, first, c) = Body(u, cron, lim, c)
    BY CodeBodyIs
  <2>3. u = [c \in Nat |-> CodeBody(u, cron, first, c)]
    BY <2>1, <2>2, Zenon
  <2> QED
    BY <2>3
<1>3. s = [c \in Nat |-> CodeBody(s, cron, first, c)]
  BY <1>1, <1>2, Zenon
<1>4. \A c \in Nat : CodeBody(s, cron, first, c) = Body(s, cron, lim, c)
  BY CodeBodyIs
<1>5. Seeks(s, cron, lim)
  BY <1>3, <1>4, Zenon DEF Seeks
<1>6. NextAfter(cron, t) = s[first]
  BY <1>1 DEF NextAfter, CodeBody
<1> QED
  BY <1>5, <1>6

-----------------------------------------------------------------------------
(* What the search skips cannot match.                                      *)

\* No minute from a on, and before b, is one the expression selects.
Free(cron, a, b) == \A x \in Nat : (a <= x /\ x < b /\ x % Minute = 0) => ~Matches(cron, x)

LEMMA SkipsDay ==
    ASSUME NEW cron, NEW c \in Nat, ~Dated(cron, c \div Day)
    PROVE  Free(cron, c, StartOfDay(c) + Day)
<1>1. Day \in Nat /\ Day > 0 /\ Hour \in Nat
  BY CalendarSizes
<1>2. PICK q, h \in Nat :
              /\ q = c \div Day /\ h = HourOf(c) /\ StartOfDay(c) = Day * q
              /\ Day * q + Hour * h <= c /\ c < Day * q + Hour * h + Hour
              /\ Hour * h + Hour <= Day
  BY Placed
<1>3. ASSUME NEW x \in Nat, c <= x, x < StartOfDay(c) + Day PROVE ~Matches(cron, x)
  <2>1. PICK dq \in Nat : dq = Day * q
    BY <1>1
  <2>2. PICK hh \in Nat : hh = Hour * h
    BY <1>1
  <2>3. dq <= x /\ x < dq + Day
    BY <1>1, <1>2, <1>3, <2>1, <2>2
  <2>4. x \div Day = q
    BY <1>1, <2>1, <2>3, Quotient
  <2> QED
    BY <1>2, <2>4, MatchIs
<1> QED
  BY <1>3 DEF Free

LEMMA SkipsHour ==
    ASSUME NEW cron, NEW c \in Nat, HourOf(c) \notin cron.hour
    PROVE  Free(cron, c, StartOfDay(c) + (HourOf(c) + 1) * Hour)
<1>1. Day \in Nat /\ Day > 0 /\ Hour \in Nat /\ Hour > 0
  BY CalendarSizes
<1>2. PICK q, h \in Nat :
              /\ q = c \div Day /\ h = HourOf(c) /\ StartOfDay(c) = Day * q
              /\ Day * q + Hour * h <= c /\ c < Day * q + Hour * h + Hour
              /\ Hour * h + Hour <= Day
  BY Placed
<1>3. ASSUME NEW x \in Nat, c <= x, x < StartOfDay(c) + (HourOf(c) + 1) * Hour PROVE ~Matches(cron, x)
  <2>1. PICK dq \in Nat : dq = Day * q
    BY <1>1
  <2>2. PICK hh \in Nat : hh = Hour * h
    BY <1>1
  <2>3. (h + 1) * Hour = hh + Hour
    BY <1>1, <2>2
  <2>4. dq + hh <= x /\ x < dq + hh + Hour /\ hh + Hour <= Day
    BY <1>1, <1>2, <1>3, <2>1, <2>2, <2>3
  <2>5. dq <= x /\ x < dq + Day
    BY <2>4, <1>1
  <2>6. x % Day = x - dq
    BY <1>1, <2>1, <2>5, Quotient
  <2>7. PICK y \in Nat : y = x - dq
    BY <2>5
  <2>8. hh <= y /\ y < hh + Hour
    BY <2>4, <2>7, <1>1
  <2>9. y \div Hour = h
    BY <1>1, <2>2, <2>8, Quotient
  <2>10. HourOf(x) = h
    BY <2>6, <2>7, <2>9 DEF HourOf
  <2> QED
    BY <1>2, <2>10, MatchIs
<1> QED
  BY <1>3 DEF Free

LEMMA SkipsMinute ==
    ASSUME NEW cron, NEW c \in Nat, c % Minute = 0, MinuteOf(c) \notin cron.minute
    PROVE  Free(cron, c, c + Minute)
<1>1. Minute \in Nat /\ Minute > 0
  BY CalendarSizes
<1>2. ASSUME NEW x \in Nat, c <= x, x < c + Minute, x % Minute = 0 PROVE ~Matches(cron, x)
  <2>1. PICK q \in Nat : c = Minute * q
    <3>1. c \div Minute \in Nat /\ c = Minute * (c \div Minute) + 0
      BY <1>1, Divided
    <3>2. Minute * (c \div Minute) + 0 = Minute * (c \div Minute)
      BY <1>1, <3>1
    <3> QED
      BY <3>1, <3>2
  <2>2. x \div Minute = q /\ x % Minute = x - Minute * q
    BY <1>1, <1>2, <2>1, Quotient
  <2>3. x = c
    BY <1>2, <2>1, <2>2
  <2> QED
    BY <2>3, MatchIs
<1> QED
  BY <1>2 DEF Free

\* Where it goes on is the start of a minute again.
LEMMA Aligned ==
    ASSUME NEW c \in Nat, c % Minute = 0
    PROVE  /\ (StartOfDay(c) + Day) % Minute = 0
           /\ (StartOfDay(c) + (HourOf(c) + 1) * Hour) % Minute = 0
           /\ (c + Minute) % Minute = 0
<1>1. /\ Minute \in Nat /\ Minute > 0 /\ Hour \in Nat /\ Hour > 0 /\ Day \in Nat
      /\ Hour = Minute * MinutesPerHour /\ Day = Hour * HoursPerDay
      /\ MinutesPerHour \in Nat /\ HoursPerDay \in Nat
  BY CalendarSizes
<1>2. PICK q, h \in Nat : q = c \div Day /\ h = HourOf(c) /\ StartOfDay(c) = Day * q
  BY Placed
<1>3. PICK a \in Nat : a = MinutesPerHour * HoursPerDay
  BY <1>1
<1>4. Day = Minute * a
  BY <1>1, <1>3
<1>5. PICK b \in Nat : b = a * q
  OBVIOUS
<1>6. StartOfDay(c) = Minute * b
  BY <1>1, <1>2, <1>3, <1>4, <1>5
<1>7. (StartOfDay(c) + Day) % Minute = 0
  <2>1. StartOfDay(c) + Day = Minute * (b + a)
    BY <1>1, <1>4, <1>6, <1>3, <1>5
  <2> QED
    BY <1>1, <2>1, Multiple
<1>8. (StartOfDay(c) + (HourOf(c) + 1) * Hour) % Minute = 0
  <2>1. PICK e \in Nat : e = MinutesPerHour * (h + 1)
    BY <1>1
  <2>2. (h + 1) * Hour = Minute * e
    BY <1>1, <2>1
  <2>3. StartOfDay(c) + (HourOf(c) + 1) * Hour = Minute * (b + e)
    BY <1>1, <1>2, <1>6, <2>2
  <2> QED
    BY <1>1, <2>3, Multiple
<1>9. (c + Minute) % Minute = 0
  <2>1. PICK d \in Nat : d = c \div Minute
    BY <1>1, Divided
  <2>2. c = Minute * d
    <3>1. c = Minute * d + 0
      BY <1>1, <2>1, Divided
    <3> QED
      BY <3>1, <1>1
  <2>3. PICK e \in Nat : e = d + 1
    OBVIOUS
  <2>4. c + Minute = Minute * e
    BY <2>2, <2>3, <1>1
  <2>5. (Minute * e) % Minute = 0
    BY <1>1, Multiple
  <2> QED
    BY <2>4, <2>5, Zenon
<1> QED
  BY <1>7, <1>8, <1>9

\* An answer is the first minute that matches; without one there is none up to the limit.
Right(s, cron, lim, c) ==
    \/ s[c] = None /\ Free(cron, c, lim)
    \/ /\ s[c] \in Nat /\ c <= s[c] /\ s[c] < lim /\ s[c] % Minute = 0
       /\ Matches(cron, s[c]) /\ Free(cron, c, s[c])

LEMMA RightSkips ==
    ASSUME NEW s, NEW cron, NEW lim \in Nat, NEW c \in Nat, NEW d \in Nat, c < d,
           Free(cron, c, d), s[c] = s[d], Right(s, cron, lim, d)
    PROVE  Right(s, cron, lim, c)
<1>1. ASSUME NEW e \in Nat, Free(cron, d, e) PROVE Free(cron, c, e)
  <2>1. SUFFICES ASSUME NEW x \in Nat, c <= x, x < e, x % Minute = 0 PROVE ~Matches(cron, x)
    BY DEF Free
  <2>2. CASE x < d
    BY <2>1, <2>2 DEF Free
  <2>3. CASE ~(x < d)
    <3>1. d <= x
      BY <2>3
    <3> QED
      BY <1>1, <2>1, <3>1 DEF Free
  <2> QED
    BY <2>2, <2>3
<1>2. CASE s[d] = None /\ Free(cron, d, lim)
  BY <1>1, <1>2 DEF Right
<1>3. CASE /\ s[d] \in Nat /\ d <= s[d] /\ s[d] < lim /\ s[d] % Minute = 0
           /\ Matches(cron, s[d]) /\ Free(cron, d, s[d])
  <2>1. PICK e \in Nat : e = s[d]
    BY <1>3
  <2>2. c <= e /\ Free(cron, c, e)
    BY <1>1, <1>3, <2>1
  <2> QED
    BY <1>3, <2>1, <2>2 DEF Right
<1> QED
  BY <1>2, <1>3 DEF Right

LEMMA SearchIsRight ==
    ASSUME NEW s, NEW cron, NEW lim \in Nat, Seeks(s, cron, lim), NEW first \in Nat, first % Minute = 0
    PROVE  Right(s, cron, lim, first)
<1> DEFINE S == {k \in Nat : \A c \in Nat : (c % Minute = 0 /\ c + k >= lim) => Right(s, cron, lim, c)}
<1>e. \A c \in Nat : s[c] = Body(s, cron, lim, c)
  BY Zenon DEF Seeks
<1>1. 0 \in S
  <2>1. SUFFICES ASSUME NEW c \in Nat, c >= lim PROVE Right(s, cron, lim, c)
    OBVIOUS
  <2>2. s[c] = None
    BY <1>e, <2>1 DEF Body
  <2>3. Free(cron, c, lim)
    BY <2>1 DEF Free
  <2> QED
    BY <2>2, <2>3 DEF Right
<1>2. ASSUME NEW k \in Nat, k \in S PROVE k + 1 \in S
  <2>1. SUFFICES ASSUME NEW c \in Nat, c % Minute = 0, c + (k + 1) >= lim PROVE Right(s, cron, lim, c)
    OBVIOUS
  <2>2. \A d \in Nat : (c < d /\ d % Minute = 0) => Right(s, cron, lim, d)
    <3>1. SUFFICES ASSUME NEW d \in Nat, c < d, d % Minute = 0 PROVE Right(s, cron, lim, d)
      OBVIOUS
    <3>2. d + k >= lim
      BY <2>1, <3>1
    <3> QED
      BY <1>2, <3>1, <3>2
  <2> HIDE DEF S
  <2>3. s[c] = Body(s, cron, lim, c)
    BY <1>e
  <2>4. CASE c >= lim
    <3>1. s[c] = None
      BY <2>3, <2>4 DEF Body
    <3>2. Free(cron, c, lim)
      BY <2>4 DEF Free
    <3> QED
      BY <3>1, <3>2 DEF Right
  <2>5. CASE ~(c >= lim) /\ ~Dated(cron, c \div Day)
    <3>1. PICK d \in Nat : d = StartOfDay(c) + Day
      BY Onward
    <3>2. c < d /\ d % Minute = 0
      BY <2>1, <3>1, Onward, Aligned
    <3>3. s[c] = s[d]
      BY <2>3, <2>5, <3>1 DEF Body
    <3>4. Free(cron, c, d)
      BY <2>5, <3>1, SkipsDay
    <3> QED
      BY <2>2, <3>2, <3>3, <3>4, RightSkips
  <2>6. CASE ~(c >= lim) /\ Dated(cron, c \div Day) /\ HourOf(c) \notin cron.hour
    <3>1. PICK d \in Nat : d = StartOfDay(c) + (HourOf(c) + 1) * Hour
      BY Onward
    <3>2. c < d /\ d % Minute = 0
      BY <2>1, <3>1, Onward, Aligned
    <3>3. s[c] = s[d]
      BY <2>3, <2>6, <3>1 DEF Body
    <3>4. Free(cron, c, d)
      BY <2>6, <3>1, SkipsHour
    <3> QED
      BY <2>2, <3>2, <3>3, <3>4, RightSkips
  <2>7. CASE ~(c >= lim) /\ Dated(cron, c \div Day) /\ HourOf(c) \in cron.hour /\ MinuteOf(c) \in cron.minute
    <3>1. s[c] = c
      BY <2>3, <2>7 DEF Body
    <3>2. Matches(cron, c)
      BY <2>7, MatchIs
    <3>3. Free(cron, c, c)
      BY DEF Free
    <3>4. c <= c /\ c < lim
      BY <2>7
    <3> QED
      BY <2>1, <3>1, <3>2, <3>3, <3>4 DEF Right
  <2>8. CASE ~(c >= lim) /\ Dated(cron, c \div Day) /\ HourOf(c) \in cron.hour /\ MinuteOf(c) \notin cron.minute
    <3>1. PICK d \in Nat : d = c + Minute
      BY Onward
    <3>2. c < d /\ d % Minute = 0
      BY <2>1, <3>1, Onward, Aligned
    <3>3. s[c] = s[d]
      BY <2>3, <2>8, <3>1 DEF Body
    <3>4. Free(cron, c, d)
      BY <2>1, <2>8, <3>1, SkipsMinute
    <3> QED
      BY <2>2, <3>2, <3>3, <3>4, RightSkips
  <2> QED
    BY <2>4, <2>5, <2>6, <2>7, <2>8
<1>3. lim \in S
  <2>1. Nat \subseteq S
    <3> HIDE DEF S
    <3> QED
      BY <1>1, <1>2, AllNumbers
  <2> HIDE DEF S
  <2> QED
    BY <2>1
<1>4. first + lim >= lim
  OBVIOUS
<1> QED
  BY <1>3, <1>4

-----------------------------------------------------------------------------
(* The months.                                                              *)

Months == EraYears * MonthsPerYear

LEMMA MonthsTyped ==
    /\ MonthsPerYear \in Nat /\ MonthsPerYear > 0
    /\ Months \in Nat /\ Months > 0 /\ DOMAIN MonthDays = 1 .. Months
    /\ \A k \in 1 .. Months : MonthDays[k] \in Nat /\ MonthDays[k] > 0
<1>1. /\ MonthLengths \in Seq(Nat \ {0}) /\ EraYears \in Nat /\ EraYears > 0
      /\ LeapMonth \in DOMAIN MonthLengths
  BY CalendarConstants
<1>2. MonthsPerYear \in Nat /\ DOMAIN MonthLengths = 1 .. MonthsPerYear
  BY <1>1, LenProperties DEF MonthsPerYear
<1>3. MonthsPerYear > 0
  BY <1>1, <1>2
<1>4. Months \in Nat /\ Months > 0
  BY <1>1, <1>2, <1>3 DEF Months
<1>5. \A m \in 1 .. MonthsPerYear : MonthLengths[m] \in Nat \ {0}
  BY <1>1, ElementOfSeq DEF MonthsPerYear
<1>6. DOMAIN MonthDays = 1 .. Months
  BY DEF MonthDays, Months
<1>7. ASSUME NEW k \in 1 .. Months PROVE MonthDays[k] \in Nat /\ MonthDays[k] > 0
  <2>1. PICK m : m = ((k - 1) % MonthsPerYear) + 1
    OBVIOUS
  <2>2. PICK y : y = FirstYear + ((k - 1) \div MonthsPerYear)
    OBVIOUS
  <2>3. m \in 1 .. MonthsPerYear
    <3>1. k - 1 \in Nat
      BY <1>4
    <3>2. (k - 1) % MonthsPerYear \in Nat /\ (k - 1) % MonthsPerYear < MonthsPerYear
      BY <1>2, <1>3, <3>1, Divided
    <3> QED
      BY <1>2, <2>1, <3>2
  <2>4. PICK l \in Nat : l = (IF m = LeapMonth /\ Leap(y) THEN 1 ELSE 0)
    OBVIOUS
  <2>5. MonthDays[k] = MonthLengths[m] + l
    BY <2>1, <2>2, <2>4, Zenon DEF MonthDays, Months
  <2>6. MonthLengths[m] \in Nat /\ MonthLengths[m] # 0
    BY <1>5, <2>3
  <2> QED
    BY <2>5, <2>6
<1> QED
  BY <1>2, <1>3, <1>4, <1>6, <1>7

\* The days before a month, by those before the last.
DaysRule(f, m) == IF m = 1 THEN 0 ELSE f[m - 1] + MonthDays[m - 1]

DaysUpTo(f, k) == \A m \in 1 .. Months + 1 : m <= k => f[m] = DaysRule(f, m)

LEMMA DaysExist == \E f : f = [m \in 1 .. Months + 1 |-> DaysRule(f, m)]
<1>n. Months \in Nat
  BY MonthsTyped
<1> DEFINE S == {k \in Nat : \E f : DaysUpTo(f, k)}
<1>1. 0 \in S
  <2>1. PICK f : f = 0
    OBVIOUS
  <2>2. DaysUpTo(f, 0)
    BY <1>n DEF DaysUpTo
  <2> QED
    BY <2>2
<1>2. ASSUME NEW k \in Nat, k \in S PROVE k + 1 \in S
  <2>1. PICK f : DaysUpTo(f, k)
    BY <1>2
  <2>2. PICK u : u = [m \in 1 .. Months + 1 |-> IF m <= k THEN f[m] ELSE DaysRule(f, m)]
    OBVIOUS
  <2>3. ASSUME NEW m \in 1 .. Months + 1, m <= k + 1 PROVE u[m] = DaysRule(u, m)
    <3>1. m # 1 => m - 1 \in 1 .. Months + 1 /\ m - 1 <= k
      BY <1>n, <2>3
    <3>2. m # 1 => u[m - 1] = f[m - 1]
      BY <2>2, <3>1
    <3>3. DaysRule(u, m) = DaysRule(f, m)
      BY <3>2 DEF DaysRule
    <3>4. m <= k => f[m] = DaysRule(f, m)
      BY <2>1 DEF DaysUpTo
    <3>5. u[m] = DaysRule(f, m)
      BY <2>2, <3>4
    <3> QED
      BY <3>3, <3>5
  <2>4. DaysUpTo(u, k + 1)
    BY <2>3 DEF DaysUpTo
  <2> QED
    BY <2>4
<1>3. Months + 1 \in S
  <2>1. Nat \subseteq S
    <3> HIDE DEF S
    <3> QED
      BY <1>1, <1>2, AllNumbers
  <2> HIDE DEF S
  <2> QED
    BY <2>1, <1>n
<1>4. PICK f : DaysUpTo(f, Months + 1)
  BY <1>3
<1>5. PICK u : u = [m \in 1 .. Months + 1 |-> f[m]]
  OBVIOUS
<1>6. ASSUME NEW m \in 1 .. Months + 1 PROVE u[m] = DaysRule(u, m)
  <2>1. m <= Months + 1 /\ (m # 1 => m - 1 \in 1 .. Months + 1)
    BY <1>n
  <2>2. f[m] = DaysRule(f, m)
    BY <1>4, <2>1 DEF DaysUpTo
  <2>3. m # 1 => u[m - 1] = f[m - 1]
    BY <1>5, <2>1
  <2>4. DaysRule(u, m) = DaysRule(f, m)
    BY <2>3 DEF DaysRule
  <2> QED
    BY <1>5, <2>2, <2>4
<1>7. u = [m \in 1 .. Months + 1 |-> DaysRule(u, m)]
  BY <1>5, <1>6, Zenon
<1> QED
  BY <1>7

LEMMA DaysBeforeIs ==
    /\ DaysBefore[1] = 0
    /\ \A m \in 1 .. Months : DaysBefore[m + 1] = DaysBefore[m] + MonthDays[m]
<1>n. Months \in Nat
  BY MonthsTyped
<1>1. DaysBefore = [m \in 1 .. Months + 1 |-> DaysRule(DaysBefore, m)]
  <2>1. PICK f : f = CHOOSE u : u = [m \in 1 .. Months + 1 |-> DaysRule(u, m)]
    OBVIOUS
  <2>2. f = [m \in 1 .. Months + 1 |-> DaysRule(f, m)]
    BY <2>1, DaysExist, Zenon
  <2>3. DaysBefore = f
    BY <2>1 DEF DaysBefore, DaysRule, Months
  <2> QED
    BY <2>2, <2>3, Zenon
<1>2. \A m \in 1 .. Months + 1 : DaysBefore[m] = DaysRule(DaysBefore, m)
  BY <1>1, Zenon
<1>3. DaysBefore[1] = 0
  <2>1. 1 \in 1 .. Months + 1
    BY <1>n
  <2> QED
    BY <1>2, <2>1 DEF DaysRule
<1>4. ASSUME NEW m \in 1 .. Months PROVE DaysBefore[m + 1] = DaysBefore[m] + MonthDays[m]
  <2>1. m + 1 \in 1 .. Months + 1 /\ m + 1 # 1 /\ (m + 1) - 1 = m
    BY <1>n
  <2>2. DaysBefore[m + 1] = DaysRule(DaysBefore, m + 1)
    BY <1>2, <2>1
  <2> QED
    BY <2>1, <2>2 DEF DaysRule
<1> QED
  BY <1>3, <1>4

\* The days before a month are more from month to month.
LEMMA DaysGrow ==
    /\ \A m \in 1 .. Months + 1 : DaysBefore[m] \in Nat
    /\ \A i, j \in 1 .. Months + 1 : i <= j => DaysBefore[i] <= DaysBefore[j]
<1>n. Months \in Nat /\ \A k \in 1 .. Months : MonthDays[k] \in Nat
  BY MonthsTyped
<1> DEFINE S == {k \in Nat : \A m \in 1 .. Months + 1 : m <= k + 1 => DaysBefore[m] \in Nat}
           T(i) == {k \in Nat : i + k <= Months + 1 => DaysBefore[i] <= DaysBefore[i + k]}
<1>1. Nat \subseteq S
  <2>1. 0 \in S
    <3>1. \A m \in 1 .. Months + 1 : m <= 0 + 1 => m = 1
      BY <1>n
    <3> QED
      BY <3>1, DaysBeforeIs
  <2>2. ASSUME NEW k \in Nat, k \in S PROVE k + 1 \in S
    <3>1. SUFFICES ASSUME NEW m \in 1 .. Months + 1, m <= (k + 1) + 1 PROVE DaysBefore[m] \in Nat
      OBVIOUS
    <3>2. CASE m = 1
      BY <3>2, DaysBeforeIs
    <3>3. CASE m # 1
      <4>1. PICK p \in 1 .. Months : p + 1 = m
        <5>1. m - 1 \in 1 .. Months /\ (m - 1) + 1 = m
          BY <3>3, <1>n
        <5> QED
          BY <5>1
      <4>2. p \in 1 .. Months + 1 /\ p <= k + 1
        BY <4>1, <3>1, <1>n
      <4>3. DaysBefore[p] \in Nat
        BY <2>2, <4>2
      <4>4. DaysBefore[m] = DaysBefore[p] + MonthDays[p]
        BY <4>1, DaysBeforeIs
      <4> QED
        BY <4>3, <4>4, <1>n
    <3> QED
      BY <3>2, <3>3
  <2> HIDE DEF S
  <2> QED
    BY <2>1, <2>2, AllNumbers
<1>2. ASSUME NEW m \in 1 .. Months + 1 PROVE DaysBefore[m] \in Nat
  <2>1. m \in Nat /\ m <= m + 1
    OBVIOUS
  <2> QED
    BY <1>1, <2>1
<1> HIDE DEF S
<1>3. ASSUME NEW i \in 1 .. Months + 1 PROVE Nat \subseteq T(i)
  <2>1. 0 \in T(i)
    <3>1. i + 0 = i /\ DaysBefore[i] \in Nat
      BY <1>2
    <3> QED
      BY <3>1
  <2>2. ASSUME NEW k \in Nat, k \in T(i) PROVE k + 1 \in T(i)
    <3>1. SUFFICES ASSUME i + (k + 1) <= Months + 1 PROVE DaysBefore[i] <= DaysBefore[i + (k + 1)]
      OBVIOUS
    <3>2. PICK p \in 1 .. Months : p = i + k
      BY <3>1, <1>n
    <3>3. i + k <= Months + 1 /\ i + (k + 1) = p + 1 /\ p \in 1 .. Months + 1
      BY <3>1, <3>2, <1>n
    <3>4. DaysBefore[i] <= DaysBefore[p]
      BY <2>2, <3>2, <3>3
    <3>5. DaysBefore[p + 1] = DaysBefore[p] + MonthDays[p] /\ MonthDays[p] \in Nat
      BY DaysBeforeIs, <1>n
    <3>6. DaysBefore[i] \in Nat /\ DaysBefore[p] \in Nat
      BY <1>2, <3>3
    <3>7. DaysBefore[i] <= DaysBefore[p + 1]
      BY <3>4, <3>5, <3>6
    <3> QED
      BY <3>3, <3>7
  <2> HIDE DEF T
  <2> QED
    BY <2>1, <2>2, AllNumbers
<1>4. ASSUME NEW i \in 1 .. Months + 1, NEW j \in 1 .. Months + 1, i <= j
      PROVE  DaysBefore[i] <= DaysBefore[j]
  <2>1. PICK k \in Nat : k = j - i
    BY <1>4
  <2>2. i + k = j /\ i + k <= Months + 1
    BY <2>1, <1>n
  <2>3. k \in T(i)
    <3> HIDE DEF T
    <3> QED
      BY <1>3
  <2> QED
    BY <2>2, <2>3
<1> QED
  BY <1>2, <1>4

LEMMA CycleTyped == CycleDays \in Nat /\ CycleDays > 0 /\ CycleDays = DaysBefore[Months + 1]
<1>1. Months \in Nat /\ Months > 0 /\ 1 \in 1 .. Months /\ 2 \in 1 .. Months + 1 /\ Months + 1 \in 1 .. Months + 1
      /\ 2 <= Months + 1
  BY MonthsTyped
<1>2. CycleDays = DaysBefore[Months + 1]
  BY DEF CycleDays, Months
<1>3. DaysBefore[1 + 1] = DaysBefore[1] + MonthDays[1] /\ DaysBefore[1] = 0 /\ MonthDays[1] \in Nat /\ MonthDays[1] > 0
  BY <1>1, DaysBeforeIs, MonthsTyped
<1>4. DaysBefore[2] > 0 /\ DaysBefore[2] \in Nat
  BY <1>3
<1>5. DaysBefore[2] <= DaysBefore[Months + 1] /\ DaysBefore[Months + 1] \in Nat
  BY <1>1, DaysGrow
<1> QED
  BY <1>2, <1>4, <1>5

-----------------------------------------------------------------------------
(* What comes within the limit.                                             *)

\* Two days with the same place in the era have the same date.
LEMMA SameDate ==
    ASSUME NEW n \in Nat, NEW o \in Nat, n % CycleDays = o % CycleDays
    PROVE  Date(n) = Date(o)
  BY Zenon DEF Date

\* Of the days of a week, one has a given weekday.
LEMMA WeekdayComes ==
    ASSUME NEW b \in Nat, NEW w \in Nat, w < DaysPerWeek
    PROVE  \E j \in Nat : j < DaysPerWeek /\ WeekdayOf(b + j) = w
<1>w. DaysPerWeek \in Nat /\ DaysPerWeek > 0 /\ FirstWeekday \in Nat
  BY CalendarConstants
<1>1. PICK y \in Nat : y = b + FirstWeekday
  BY <1>w
<1>2. PICK z \in Nat : z = y \div DaysPerWeek
  BY <1>w, Divided
<1>3. PICK r \in Nat : r = y % DaysPerWeek
  BY <1>w, Divided
<1>4. y = DaysPerWeek * z + r /\ r < DaysPerWeek
  BY <1>w, <1>2, <1>3, Divided
<1>5. PICK a \in Nat : a = DaysPerWeek * z
  BY <1>w
<1>6. CASE r <= w
  <2>1. PICK j \in Nat : j = w - r
    BY <1>6
  <2>2. PICK v \in Nat : v = (b + j) + FirstWeekday
    BY <1>w
  <2>3. v = a + w /\ j < DaysPerWeek
    BY <1>1, <1>4, <1>5, <1>w, <2>1, <2>2
  <2>4. v % DaysPerWeek = v - DaysPerWeek * z
    BY <1>w, <1>5, <2>3, Quotient
  <2>5. v % DaysPerWeek = w
    BY <1>5, <2>3, <2>4
  <2> QED
    BY <2>2, <2>3, <2>5 DEF WeekdayOf
<1>7. CASE w < r
  <2>1. PICK j \in Nat : j = (w + DaysPerWeek) - r
    BY <1>4, <1>w
  <2>2. PICK v \in Nat : v = (b + j) + FirstWeekday
    BY <1>w
  <2>3. v = (a + DaysPerWeek) + w /\ j < DaysPerWeek
    BY <1>1, <1>4, <1>5, <1>7, <1>w, <2>1, <2>2
  <2>a. DaysPerWeek * (z + 1) = a + DaysPerWeek /\ z + 1 \in Nat
    BY <1>w, <1>5
  <2>4. v % DaysPerWeek = v - DaysPerWeek * (z + 1)
    BY <1>w, <2>a, <2>3, Quotient
  <2>5. v % DaysPerWeek = w
    BY <1>5, <1>w, <2>a, <2>3, <2>4
  <2> QED
    BY <2>2, <2>3, <2>5 DEF WeekdayOf
<1> QED
  BY <1>6, <1>7

\* A week of days of a month, within the limit after any day.
LEMMA WeekComes ==
    ASSUME NEW F \in Nat, NEW m \in 1 .. MonthsPerYear
    PROVE  \E b \in Nat : /\ F < b /\ b + DaysPerWeek <= F + LimitDays
                          /\ \A j \in Nat : j < DaysPerWeek => MonthOf(b + j) = m
<1>c. CycleDays \in Nat /\ CycleDays > 0
  BY CycleTyped
<1>w. DaysPerWeek \in Nat /\ DaysPerWeek > 0 /\ LimitDays \in Nat
  BY CalendarConstants
<1>1. PICK N \in Nat : N = F + 1
  OBVIOUS
<1>2. PICK g, f \in Nat : N = CycleDays * g + f /\ f < CycleDays
  <2>1. N \div CycleDays \in Nat /\ N % CycleDays \in Nat /\ N % CycleDays < CycleDays
        /\ N = CycleDays * (N \div CycleDays) + (N % CycleDays)
    BY <1>c, Divided
  <2> QED
    BY <2>1
<1>3. f \in 0 .. CycleDays - 1
  BY <1>2, <1>c
<1>4. PICK d \in 0 .. LimitDays - 1 - DaysPerWeek :
        \A j \in 0 .. DaysPerWeek - 1 : Date(f + d + j).month = m
  BY <1>3, AmpleLimit
<1>5. PICK b \in Nat : b = N + d
  OBVIOUS
<1>6. F < b /\ b + DaysPerWeek <= F + LimitDays
  BY <1>1, <1>4, <1>5, <1>w
<1>7. ASSUME NEW j \in Nat, j < DaysPerWeek PROVE MonthOf(b + j) = m
  <2>1. j \in 0 .. DaysPerWeek - 1
    BY <1>7, <1>w
  <2>2. PICK x \in Nat : x = f + d + j
    OBVIOUS
  <2>3. PICK v \in Nat : v = b + j
    OBVIOUS
  <2>4. PICK a \in Nat : a = CycleDays * g
    BY <1>c
  <2>5. v = a + x
    BY <1>2, <1>5, <2>2, <2>3, <2>4
  <2>6. v % CycleDays = x % CycleDays
    <3>1. PICK z, r \in Nat : r = x % CycleDays /\ x = CycleDays * z + r /\ r < CycleDays
      <4>1. x \div CycleDays \in Nat /\ x % CycleDays \in Nat /\ x % CycleDays < CycleDays
            /\ x = CycleDays * (x \div CycleDays) + (x % CycleDays)
        BY <1>c, Divided
      <4> QED
        BY <4>1
    <3>2. PICK u \in Nat : u = g + z
      OBVIOUS
    <3>3. PICK e, h \in Nat : e = CycleDays * z /\ h = CycleDays * u
      BY <1>c
    <3>4. h = a + e
      BY <1>c, <2>4, <3>2, <3>3
    <3>5. v = h + r
      BY <2>5, <3>1, <3>3, <3>4
    <3>6. CycleDays * u <= v /\ v < CycleDays * u + CycleDays
      BY <3>1, <3>3, <3>5, <1>c
    <3>7. v % CycleDays = v - CycleDays * u
      BY ONLY <1>c, <3>6, u \in Nat, v \in Nat, Quotient
    <3>8. v - CycleDays * u = r
      BY <3>3, <3>5
    <3> QED
      BY <3>1, <3>7, <3>8, Zenon
  <2>7. Date(v) = Date(x)
    BY <2>6, SameDate
  <2>8. Date(x).month = m
    BY <1>4, <2>1, <2>2
  <2> QED
    BY <2>3, <2>7, <2>8 DEF MonthOf
<1> QED
  BY <1>6, <1>7

\* The k-th month of the cycle has the days from DaysBefore[k] on.
InMonth(k, x) == DaysBefore[k] <= x /\ x < DaysBefore[k + 1]

LEMMA SomeMonth ==
    ASSUME NEW x \in Nat, x < CycleDays
    PROVE  \E k \in 1 .. Months : InMonth(k, x)
<1>n. Months \in Nat /\ Months > 0
  BY MonthsTyped
<1> DEFINE S == {k \in 1 .. Months : x < DaysBefore[k + 1]}
<1>1. Months \in S
  BY <1>n, CycleTyped
<1>2. PICK k \in S : \A j \in S : k <= j
  <2>1. S \subseteq Nat /\ S # {}
    BY <1>1
  <2> HIDE DEF S
  <2> QED
    BY <2>1, LeastNumber
<1>3. DaysBefore[k] <= x
  <2>1. CASE k = 1
    BY <2>1, DaysBeforeIs
  <2>2. CASE k # 1
    <3>1. PICK p \in 1 .. Months : p + 1 = k
      <4>1. k - 1 \in 1 .. Months /\ (k - 1) + 1 = k
        BY <1>2, <1>n, <2>2
      <4> QED
        BY <4>1
    <3>2. ~(k <= p)
      BY <3>1
    <3>3. ~(x < DaysBefore[p + 1])
      BY <1>2, <3>2
    <3>4. k \in 1 .. Months + 1
      BY <1>2, <1>n
    <3>5. DaysBefore[k] \in Nat
      BY <3>4, DaysGrow
    <3> QED
      BY <3>1, <3>3, <3>5
  <2> QED
    BY <2>1, <2>2
<1> QED
  BY <1>2, <1>3 DEF InMonth

\* The months of a year are numbered.
LEMMA MonthNumbered ==
    ASSUME NEW n \in Nat
    PROVE  MonthOf(n) \in 1 .. MonthsPerYear
<1>m. MonthsPerYear \in Nat /\ MonthsPerYear > 0 /\ Months \in Nat /\ DOMAIN MonthDays = 1 .. Months
  BY MonthsTyped
<1>1. PICK x \in Nat : x = n % CycleDays /\ x < CycleDays
  BY CycleTyped, Divided
<1>2. PICK k : k = CHOOSE i \in DOMAIN MonthDays : DaysBefore[i] <= x /\ x < DaysBefore[i + 1]
  OBVIOUS
<1>3. k \in 1 .. Months
  <2>1. \E i \in 1 .. Months : InMonth(i, x)
    BY <1>1, SomeMonth
  <2>2. \E i \in DOMAIN MonthDays : DaysBefore[i] <= x /\ x < DaysBefore[i + 1]
    BY <1>m, <2>1 DEF InMonth
  <2>3. k \in DOMAIN MonthDays
    BY <1>2, <2>2, Zenon
  <2> QED
    BY <1>m, <2>3
<1>4. PICK r \in Nat : r = (k - 1) % MonthsPerYear /\ r < MonthsPerYear
  <2>1. k - 1 \in Nat
    BY <1>3, <1>m
  <2> QED
    BY <2>1, <1>m, Divided
<1>5. Date(n).month = r + 1
  BY <1>1, <1>2, <1>4, Zenon DEF Date
<1> QED
  BY <1>4, <1>5, <1>m DEF MonthOf

\* A day that the expression selects comes again within the limit, if its date does.
LEMMA DatedAgain ==
    ASSUME NEW cron, NEW n \in Nat, Dated(cron, n), NEW F \in Nat,
           NEW u \in Nat, F < u, u < F + LimitDays, Date(u) = Date(n)
    PROVE  \E o \in Nat : F < o /\ o < F + LimitDays /\ Dated(cron, o)
<1>w. DaysPerWeek \in Nat /\ DaysPerWeek > 0 /\ FirstWeekday \in Nat /\ LimitDays \in Nat
  BY CalendarConstants
<1>1. CASE \/ ~cron.domRestricted /\ ~cron.dowRestricted
           \/ cron.domRestricted /\ DayOfMonth(n) \in cron.day
  <2>1. MonthOf(u) = MonthOf(n) /\ DayOfMonth(u) = DayOfMonth(n)
    BY DEF MonthOf, DayOfMonth
  <2>2. Dated(cron, u)
    BY <1>1, <2>1, Zenon DEF Dated
  <2> QED
    BY <2>2
<1>2. CASE cron.dowRestricted /\ WeekdayOf(n) \in cron.weekday
  <2>1. PICK m \in 1 .. MonthsPerYear : m = MonthOf(n)
    BY MonthNumbered
  <2>2. PICK b \in Nat : /\ F < b /\ b + DaysPerWeek <= F + LimitDays
                         /\ \A j \in Nat : j < DaysPerWeek => MonthOf(b + j) = m
    BY WeekComes
  <2>3. PICK w \in Nat : w = WeekdayOf(n) /\ w < DaysPerWeek
    <3>1. n + FirstWeekday \in Nat
      BY <1>w
    <3> QED
      BY <3>1, <1>w, Divided DEF WeekdayOf
  <2>4. PICK j \in Nat : j < DaysPerWeek /\ WeekdayOf(b + j) = w
    BY <2>3, WeekdayComes
  <2>5. PICK o \in Nat : o = b + j
    OBVIOUS
  <2>6. F < o /\ o < F + LimitDays
    BY <2>2, <2>4, <2>5, <1>w
  <2>7. MonthOf(o) = MonthOf(n) /\ WeekdayOf(o) = WeekdayOf(n)
    BY <2>1, <2>2, <2>3, <2>4, <2>5
  <2>8. Dated(cron, o)
    BY <1>2, <2>7, Zenon DEF Dated
  <2> QED
    BY <2>6, <2>8
<1> QED
  BY <1>1, <1>2, Zenon DEF Dated

\* A minute the expression selects comes again before the limit, if its date does.
LEMMA MatchAgain ==
    ASSUME NEW cron, NEW x \in Nat, x % Minute = 0, Matches(cron, x), NEW first \in Nat,
           NEW lim \in Nat, lim = first + LimitDays * Day,
           NEW w \in Nat, first \div Day < w, w < (first \div Day) + LimitDays, Date(w) = Date(x \div Day)
    PROVE  \E y \in Nat : first <= y /\ y < lim /\ y % Minute = 0 /\ Matches(cron, y)
<1>s. /\ Minute \in Nat /\ Minute > 0 /\ Hour \in Nat /\ Hour > 0 /\ Day \in Nat /\ Day > 0
      /\ Hour = Minute * MinutesPerHour /\ Day = Hour * HoursPerDay
      /\ MinutesPerHour \in Nat /\ HoursPerDay \in Nat
  BY CalendarSizes
<1>c. LimitDays \in Nat
  BY CalendarConstants
<1>1. PICK F, p \in Nat : F = first \div Day /\ first = Day * F + p /\ p < Day
  <2>1. first \div Day \in Nat /\ first % Day \in Nat /\ first % Day < Day
        /\ first = Day * (first \div Day) + (first % Day)
    BY <1>s, Divided
  <2> QED
    BY <2>1
<1>2. PICK n, r \in Nat : n = x \div Day /\ r = x % Day /\ x = Day * n + r /\ r < Day
  <2>1. x \div Day \in Nat /\ x % Day \in Nat /\ x % Day < Day /\ x = Day * (x \div Day) + (x % Day)
    BY <1>s, Divided
  <2> QED
    BY <2>1
<1>3. Dated(cron, n) /\ HourOf(x) \in cron.hour /\ MinuteOf(x) \in cron.minute
  BY <1>2, MatchIs
<1>4. PICK o \in Nat : F < o /\ o < F + LimitDays /\ Dated(cron, o)
  BY <1>1, <1>2, <1>3, DatedAgain
<1>5. PICK a \in Nat : a = Day * o
  BY <1>s
<1>6. PICK y \in Nat : y = a + r
  OBVIOUS
<1>7. y \div Day = o /\ y % Day = r
  <2>1. Day * o <= y /\ y < Day * o + Day
    BY <1>2, <1>5, <1>6, <1>s
  <2>2. y \div Day = o /\ y % Day = y - Day * o
    BY ONLY <1>s, <2>1, y \in Nat, o \in Nat, Quotient
  <2> QED
    BY <1>5, <1>6, <2>2
<1>8. first <= y
  <2>1. F + 1 <= o
    BY <1>4
  <2>2. Day * (F + 1) <= Day * o /\ Day * (F + 1) = Day * F + Day
    BY <2>1, <1>s
  <2>3. PICK b \in Nat : b = Day * F
    BY <1>s
  <2> QED
    BY <1>1, <1>5, <1>6, <1>s, <2>2, <2>3
<1>9. y < lim
  <2>1. o + 1 <= F + LimitDays
    BY <1>4, <1>c
  <2>2. Day * (o + 1) <= Day * (F + LimitDays)
    BY <2>1, <1>s, <1>c
  <2>3. PICK b \in Nat : b = Day * F
    BY <1>s
  <2>4. PICK e \in Nat : e = LimitDays * Day
    BY <1>s, <1>c
  <2>5. Day * (o + 1) = a + Day /\ Day * (F + LimitDays) = b + e
    BY <1>s, <1>c, <1>5, <2>3, <2>4
  <2> QED
    BY <1>1, <1>2, <1>6, <1>s, <2>2, <2>3, <2>4, <2>5
\* Days are whole hours, and hours whole minutes.
<1>10. HourOf(y) = HourOf(x)
  BY <1>2, <1>7 DEF HourOf
<1>h. ASSUME NEW m \in Nat, m > 0, NEW l \in Nat, Day = m * l
      PROVE  y % m = x % m
  <2>1. PICK z, e \in Nat : r = m * z + e /\ e < m
    <3>1. r \div m \in Nat /\ r % m \in Nat /\ r % m < m /\ r = m * (r \div m) + (r % m)
      BY <1>h, Divided
    <3> QED
      BY <3>1
  <2>2. ASSUME NEW i \in Nat, NEW v \in Nat, v = Day * i + r PROVE v % m = e
    <3>1. PICK u \in Nat : u = l * i + z
      OBVIOUS
    <3>2. m * u = m * (l * i) + m * z
      BY <1>h, <2>1, <3>1
    <3>3. m * (l * i) = Day * i
      BY <1>h
    <3>4. PICK b \in Nat : b = m * u
      BY <1>h
    <3>5. v = b + e
      <4>1. Day * i \in Nat /\ m * z \in Nat
        BY <1>s, <1>h
      <4>2. PICK f \in Nat, g \in Nat : f = Day * i /\ g = m * z
        BY <4>1
      <4>3. b = f + g
        BY ONLY <3>2, <3>3, <3>4, <4>2, Zenon
      <4>4. v = f + r
        BY ONLY <2>2, <4>2, Zenon
      <4>5. r = g + e
        BY ONLY <2>1, <4>2, Zenon
      <4> QED
        BY ONLY <4>3, <4>4, <4>5, v \in Nat, b \in Nat, e \in Nat, f \in Nat, g \in Nat, r \in Nat
    <3>6. m * u <= v /\ v < m * u + m
      BY <2>1, <3>4, <3>5, <1>h
    <3>7. v % m = v - m * u
      BY ONLY <1>h, <3>6, m \in Nat, u \in Nat, v \in Nat, Quotient
    <3> QED
      BY <3>4, <3>5, <3>7
  <2> QED
    BY <1>2, <1>5, <1>6, <2>2
<1>11. MinuteOf(y) = MinuteOf(x)
  <2>1. y % Hour = x % Hour
    BY <1>s, <1>h
  <2> QED
    BY <2>1 DEF MinuteOf
<1>12. y % Minute = 0
  <2>1. PICK l \in Nat : l = MinutesPerHour * HoursPerDay
    BY <1>s
  <2>2. Day = Minute * l
    BY <1>s, <2>1
  <2>3. y % Minute = x % Minute
    BY <1>s, <1>h, <2>2
  <2> QED
    BY <2>3
<1>13. Matches(cron, y)
  BY <1>3, <1>4, <1>7, <1>10, <1>11, MatchIs
<1> QED
  BY <1>8, <1>9, <1>12, <1>13

\* next_after's answer is right.
LEMMA NextIsRight ==
    ASSUME NEW cron, NEW t \in Nat
    PROVE  AnswersNext(cron, DatesOf(cron), t)
<1>s. Minute \in Nat /\ Minute > 0 /\ Day \in Nat
  BY CalendarSizes
<1>l. LimitDays \in Nat /\ None \notin Int
  BY CalendarConstants
<1>1. PICK q \in Nat : StartOfMinute(t) = Minute * q
  BY MinuteWhole
<1>2. PICK first \in Nat : first = StartOfMinute(t) + Minute
  BY <1>s, <1>1
<1>3. PICK p \in Nat : p = q + 1
  OBVIOUS
<1>4. first = Minute * p
  BY <1>1, <1>2, <1>3, <1>s
<1>5. first % Minute = 0
  BY <1>s, <1>4, Multiple
<1>6. PICK lim \in Nat : lim = first + LimitDays * Day
  BY <1>s, <1>l
<1>7. PICK s : Seeks(s, cron, lim) /\ NextAfter(cron, t) = s[first]
  BY <1>2, <1>6, NextAfterIs
<1>8. Right(s, cron, lim, first)
  BY <1>5, <1>7, SearchIsRight
<1>9. PICK next : next = NextAfter(cron, t)
  OBVIOUS
<1>10. ASSUME NEW k \in Nat PROVE first + k * Minute \in Nat /\ (first + k * Minute) % Minute = 0
  <2>1. PICK e \in Nat : e = p + k
    OBVIOUS
  <2>2. first + k * Minute = Minute * e
    BY <1>4, <1>s, <2>1
  <2>3. (Minute * e) % Minute = 0 /\ Minute * e \in Nat
    BY <1>s, Multiple
  <2> QED
    BY <2>2, <2>3, Zenon
<1>b. ASSUME NEW upto \in Nat, first <= upto, Free(cron, first, upto)
      PROVE  \A k \in 0 .. ((upto - first) \div Minute) - 1 : ~Matches(cron, first + k * Minute)
  <2>2. PICK d \in Nat : d = upto - first
    BY <1>b
  <2>3. PICK g \in Nat : g = d \div Minute
    BY <1>s, Divided
  <2>4. ASSUME NEW k \in 0 .. g - 1 PROVE ~Matches(cron, first + k * Minute)
    <3>1. PICK x \in Nat : x = first + k * Minute /\ x % Minute = 0
      BY <1>10
    <3>2. Minute * g <= d
      <4>1. d = Minute * g + (d % Minute) /\ d % Minute \in Nat
        BY <1>s, <2>3, Divided
      <4> QED
        BY <4>1, <1>s
    <3>3. k + 1 <= g
      BY <2>4
    <3>4. Minute * (k + 1) <= Minute * g /\ Minute * (k + 1) = k * Minute + Minute
      BY <3>3, <1>s
    <3>5. PICK e \in Nat : e = k * Minute
      BY <1>s
    <3>6. first <= x /\ x < upto
      BY <1>b, <1>s, <2>2, <3>1, <3>2, <3>4, <3>5
    <3> QED
      BY <1>b, <3>1, <3>6 DEF Free
  <2> QED
    BY <2>2, <2>3, <2>4
<1>11. CASE next = None /\ Free(cron, first, lim)
  <2>1. first <= lim
    BY <1>6, <1>s, <1>l
  <2>2. \A k \in 0 .. ((lim - first) \div Minute) - 1 : ~Matches(cron, first + k * Minute)
    BY <1>11, <1>b, <2>1
  <2>3. ASSUME NEW d \in 1 .. LimitDays - 1 PROVE Date((first \div Day) + d) \notin DatesOf(cron)
    <3>1. SUFFICES ASSUME Date((first \div Day) + d) \in DatesOf(cron) PROVE FALSE
      OBVIOUS
    <3>2. PICK x \in 0 .. CycleDays * DaysPerWeek * Day - 1 :
            x % Minute = 0 /\ Matches(cron, x) /\ Date((first \div Day) + d) = Date(x \div Day)
      BY <3>1, Zenon DEF DatesOf
    <3>3. x \in Nat
      OBVIOUS
    <3>4. PICK F \in Nat : F = first \div Day
      BY <1>s, CalendarSizes, Divided
    <3>5. PICK u \in Nat : u = F + d
      OBVIOUS
    <3>6. first \div Day < u /\ u < (first \div Day) + LimitDays
      BY <1>l, <2>3, <3>4, <3>5
    <3>7. Date(u) = Date(x \div Day)
      BY <3>2, <3>4, <3>5
    <3>8. PICK y \in Nat : first <= y /\ y < lim /\ y % Minute = 0 /\ Matches(cron, y)
      BY <1>6, <3>2, <3>3, <3>6, <3>7, MatchAgain
    <3> QED
      BY <1>11, <3>8 DEF Free
  <2> QED
    BY <1>2, <1>6, <1>9, <1>11, <2>2, <2>3, Zenon DEF AnswersNext
<1>12. CASE /\ next \in Nat /\ first <= next /\ next < lim /\ next % Minute = 0
            /\ Matches(cron, next) /\ Free(cron, first, next)
  <2>1. next # None
    BY <1>12, <1>l
  <2>2. \A k \in 0 .. ((next - first) \div Minute) - 1 : ~Matches(cron, first + k * Minute)
    BY <1>12, <1>b
  <2> QED
    BY <1>2, <1>9, <1>12, <2>1, <2>2, Zenon DEF AnswersNext
<1> QED
  BY <1>7, <1>8, <1>9, <1>11, <1>12 DEF Right

\* What schedule:list shows is right (Cron::next_after, cron.rs): for every schedule and
\* every calendar with leap years, centuries and eras of which the limit spans a week of
\* each month, the search jumps over no run, invents none, and gives up only on dates
\* that do not come within the limit: a leap day around a century, or no date at all.
THEOREM NextRunsAreRight == Spec => []ListedNextRuns
<1>1. ASSUME SchedulerOK PROVE ListedNextRuns
  <2>1. now \in Nat /\ CycleDays * Day \in Nat
    <3>1. CycleDays \in Nat /\ Day \in Nat
      BY CycleTyped, CalendarSizes
    <3> QED
      BY <1>1, <3>1, StartedTyped
  <2>2. ASSUME NEW t \in now .. now + CycleDays * Day, NEW cron PROVE AnswersNext(cron, DatesOf(cron), t)
    <3>1. t \in Nat
      BY <2>1
    <3> QED
      BY <3>1, NextIsRight
  <2> QED
    BY <2>2, Zenon DEF ListedNextRuns
<1>2. SchedulerOK /\ [Next]_vars => SchedulerOK'
  BY TypesStep
<1> QED
  BY TypesInit, <1>1, <1>2, PTL DEF Spec
=============================================================================
