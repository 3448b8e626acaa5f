------------------------ MODULE DatabaseQueue_proofs ------------------------
(***************************************************************************)
(* Theorems about DatabaseQueue for any number of workers, jobs and faults. *)
(***************************************************************************)
EXTENDS DatabaseQueue, TLAPS

Holding == {"commit", "running", "delete", "push", "release", "fail"}

\* Row locks exclude each other, cover rows that exist, and last from the
\* locking read to the commit.
LockInv ==
    /\ \A v, w \in Workers : v # w => locks[v] \cap locks[w] = {}
    /\ \A w \in Workers : pc[w] \notin {"commit", "unlock"} => locks[w] = {}
    /\ \A w \in Workers : \A i \in locks[w] : Present(i)

\* What a worker holds, against the row it was read from: the lock makes the
\* attempt number exactly one ahead until the commit, never ahead afterwards.
HoldOK(w) ==
    /\ held[w] # Null <=> pc[w] \in Holding
    /\ pc[w] = "commit" => /\ locks[w] = {held[w].id}
                           /\ held[w].attempts = jobs[held[w].id].attempts + 1
    /\ pc[w] \in Holding \ {"commit"} /\ Present(held[w].id)
          => held[w].attempts <= jobs[held[w].id].attempts
    /\ pc[w] \in Holding /\ Present(held[w].id) => held[w].job = jobs[held[w].id].job
    /\ pc[w] = "push" => HasNext(held[w].job)

HoldInv == \A w \in Workers : HoldOK(w)

\* Every id in use is one the sequence has handed out.
IdInv ==
    /\ \A i \in Ids : Present(i) => i <= lastId
    /\ \A w \in Workers : held[w] # Null => held[w].id <= lastId
    /\ \A k \in 1 .. Len(failed) : failed[k].id <= lastId

\* A step that succeeded or left the table is accounted for.
Dead == {failed[k].job : k \in 1 .. Len(failed)}

GoneInv ==
    \A w \in Workers :
        /\ pc[w] \in {"delete", "push"} => held[w].job \in done
        /\ pc[w] \in Holding /\ ~ Present(held[w].id)
              => held[w].job \in done \cup cleared \cup Dead

QueueInv ==
    /\ TypeOK /\ LockInv /\ HoldInv /\ IdInv /\ GoneInv
    /\ AttemptHandedOutOnce /\ NeverInBoth /\ NoJobLost /\ ChainNeverStalls
-----------------------------------------------------------------------------
LEMMA BackoffType == ASSUME NEW a \in Nat PROVE backoff(a) \in Int
  BY QueueConstants, SMT DEF backoff

\* The rows the statements write are rows: they have their type and are not Null.
LEMMA RowsWritten ==
  ASSUME TypeOK
  PROVE  /\ \A j \in Job : NewRow(j) \in Row /\ NewRow(j) # Null
         /\ \A r \in Row, n \in Nat, t \in Nat :
               Reserved(r, n, t) \in Row /\ Reserved(r, n, t) # Null
         /\ \A r \in Row, t \in Int : Reopened(r, t) \in Row /\ Reopened(r, t) # Null
<1>1. \A j \in Job : NewRow(j) \in Row
  BY QueueConstants DEF TypeOK, NewRow, Row
<1>2. \A r \in Row, n \in Nat, t \in Nat : Reserved(r, n, t) \in Row
  BY DEF Reserved, Row
<1>3. \A r \in Row, t \in Int : Reopened(r, t) \in Row
  BY DEF Reopened, Row
<1> QED BY <1>1, <1>2, <1>3, QueueConstants

LEMMA NextIdFresh == ASSUME ~ ReuseIds PROVE NextId = lastId + 1
  BY DEF NextId

\* A worker at a pc of Holding has a ReservedJob; a commit has its row locked.
LEMMA HeldType ==
  ASSUME TypeOK, HoldInv, LockInv, NEW w \in Workers, pc[w] \in Holding
  PROVE  /\ held[w] \in Hold /\ held[w].id \in Ids
         /\ held[w].job \in Job /\ held[w].attempts \in Nat
         /\ pc[w] = "commit" => jobs[held[w].id] \in Row
<1>1. held[w] \in Hold
  BY DEF TypeOK, HoldInv, HoldOK
<1>2. held[w].id \in Ids /\ held[w].job \in Job /\ held[w].attempts \in Nat
  BY <1>1 DEF Hold
<1>3. ASSUME pc[w] = "commit" PROVE jobs[held[w].id] \in Row
  BY <1>2, <1>3 DEF TypeOK, HoldInv, HoldOK, LockInv, Present
<1> QED BY <1>1, <1>2, <1>3

LEMMA FirstStep == ASSUME NEW c \in Chains PROVE <<c, 1>> \in Job
  BY QueueConstants DEF Job

LEMMA NextStep ==
  ASSUME TypeOK, HoldInv, LockInv, NEW w \in Workers, pc[w] = "push"
  PROVE  next_in_chain(held[w].job) \in Job
<1>1. held[w].job \in Job /\ HasNext(held[w].job)
  BY HeldType DEF Holding, HoldInv, HoldOK
<1> QED BY <1>1, QueueConstants DEF Job, HasNext, next_in_chain

LEMMA TypeStep ==
  ASSUME TypeOK, LockInv, HoldInv, [Next]_vars
  PROVE  TypeOK'
<1> USE QueueConstants DEF TypeOK, table, worker, history, PCs
<1>1. ASSUME NEW c \in Chains, Dispatch(c) PROVE TypeOK'
  <2>1. <<c, 1>> \in Job /\ NewRow(<<c, 1>>) \in Row
    BY FirstStep, RowsWritten
  <2> QED BY <1>1, <2>1 DEF Dispatch, push, Ids
<1>2. ASSUME NEW w \in Workers, Poll(w) PROVE TypeOK'
  BY <1>2 DEF Poll
<1>3. ASSUME NEW w \in Workers, ReserveSelect(w) PROVE TypeOK'
  <2>1. PICK i \in Ids :
          /\ IsFirstAvailable(i, stamp[w])
          /\ locks' = [locks EXCEPT ![w] = {i}]
          /\ held' = [held EXCEPT ![w] =
                        [id |-> i, job |-> jobs[i].job, attempts |-> jobs[i].attempts + 1]]
    BY <1>3 DEF ReserveSelect
  <2>2. jobs[i] \in Row
    BY <2>1 DEF IsFirstAvailable, Available, Present
  <2>3. [id |-> i, job |-> jobs[i].job, attempts |-> jobs[i].attempts + 1] \in Hold
    BY <2>2 DEF Row, Hold
  <2> QED BY <1>3, <2>1, <2>3 DEF ReserveSelect
<1>4. ASSUME NEW w \in Workers, ReserveNone(w) PROVE TypeOK'
  BY <1>4 DEF ReserveNone
<1>5. ASSUME NEW w \in Workers, ReserveCommit(w) PROVE TypeOK'
  <2>1. held[w].id \in Ids /\ held[w].attempts \in Nat /\ jobs[held[w].id] \in Row
    BY <1>5, HeldType DEF ReserveCommit, Holding
  <2>2. Reserved(jobs[held[w].id], held[w].attempts, stamp[w]) \in Row
    <3>1. stamp[w] \in Nat
      OBVIOUS
    <3> QED BY <2>1, <3>1, RowsWritten
  <2> QED BY <1>5, <2>1, <2>2 DEF ReserveCommit
<1>6. ASSUME NEW w \in Workers, ReclaimSelect(w) PROVE TypeOK'
  BY <1>6 DEF ReclaimSelect, Orphans
<1>7. ASSUME NEW w \in Workers, ReclaimCommit(w) PROVE TypeOK'
  <2>1. \A i \in locks[w] : jobs[i] \in Row
    BY DEF LockInv, Present
  <2>2. \A i \in locks[w] : Reopened(jobs[i], stamp[w]) \in Row
    <3>1. stamp[w] \in Int
      OBVIOUS
    <3> QED BY <2>1, <3>1, RowsWritten
  <2> QED BY <1>7, <2>2 DEF ReclaimCommit
<1>8. ASSUME NEW w \in Workers, HandlerOk(w) PROVE TypeOK'
  BY <1>8, HeldType DEF HandlerOk, Holding
<1>9. ASSUME NEW w \in Workers, HandlerErr(w) PROVE TypeOK'
  BY <1>9 DEF HandlerErr
<1>10. ASSUME NEW w \in Workers, Delete(w) PROVE TypeOK'
  BY <1>10 DEF Delete, Settled
<1>11. ASSUME NEW w \in Workers, PushNext(w) PROVE TypeOK'
  <2>1. /\ next_in_chain(held[w].job) \in Job
        /\ NewRow(next_in_chain(held[w].job)) \in Row
    BY <1>11, NextStep, RowsWritten DEF PushNext
  <2> QED BY <1>11, <2>1 DEF PushNext, push, Settled, Ids
<1>12. ASSUME NEW w \in Workers, Release(w) PROVE TypeOK'
  <2>1. held[w].id \in Ids /\ backoff(held[w].attempts) \in Int
    BY <1>12, HeldType, BackoffType DEF Release, Holding
  <2>2. Present(held[w].id) => jobs[held[w].id] \in Row
    BY <2>1 DEF Present
  <2>3. Present(held[w].id)
          => Reopened(jobs[held[w].id], now + backoff(held[w].attempts)) \in Row
    <3>1. now + backoff(held[w].attempts) \in Int
      BY <2>1
    <3> QED BY <2>2, <3>1, RowsWritten
  <2> QED BY <1>12, <2>1, <2>3 DEF Release, Settled
<1>13. ASSUME NEW w \in Workers, Fail(w) PROVE TypeOK'
  BY <1>13, HeldType DEF Fail, Settled, Holding
<1>14. ASSUME NEW w \in Workers, Interrupt(w) PROVE TypeOK'
  BY <1>14, HeldType DEF Interrupt, Holding
<1>15. ASSUME Clear PROVE TypeOK'
  <2>1. ASSUME NEW i \in Ids, Present(i) PROVE jobs[i].job \in Job
    BY <2>1 DEF Present, Row
  <2> QED BY <1>15, <2>1 DEF Clear
<1>16. ASSUME Signal PROVE TypeOK'
  BY <1>16 DEF Signal
<1>17. ASSUME Tick PROVE TypeOK'
  BY <1>17 DEF Tick
<1>18. ASSUME UNCHANGED vars PROVE TypeOK'
  BY <1>18 DEF vars
<1> QED
  BY <1>1, <1>2, <1>3, <1>4, <1>5, <1>6, <1>7, <1>8, <1>9, <1>10, <1>11, <1>12,
     <1>13, <1>14, <1>15, <1>16, <1>17, <1>18 DEF Next, WorkerStep
LEMMA LockStep ==
  ASSUME TypeOK, LockInv, HoldInv, [Next]_vars
  PROVE  LockInv'
<1> USE DEF TypeOK, LockInv, Present, Locked, table, worker
<1>1. ASSUME NEW c \in Chains, Dispatch(c) PROVE LockInv'
  <2>1. NewRow(<<c, 1>>) # Null
    BY FirstStep, RowsWritten
  <2> QED BY <1>1, <2>1 DEF Dispatch, push
<1>2. ASSUME NEW w \in Workers, Poll(w) \/ ReserveNone(w) \/ HandlerOk(w) \/ HandlerErr(w)
      PROVE  LockInv'
  BY <1>2 DEF Poll, ReserveNone, HandlerOk, HandlerErr
<1>3. ASSUME NEW w \in Workers, ReserveSelect(w) PROVE LockInv'
  BY <1>3 DEF ReserveSelect, IsFirstAvailable, Available
<1>4. ASSUME NEW w \in Workers, ReserveCommit(w) PROVE LockInv'
  <2>1. held[w].id \in Ids
    BY <1>4, HeldType DEF ReserveCommit, Holding
  <2>2. Reserved(jobs[held[w].id], held[w].attempts, stamp[w]) # Null
    <3>1. jobs[held[w].id] \in Row /\ held[w].attempts \in Nat /\ stamp[w] \in Nat
      BY <1>4, HeldType DEF ReserveCommit, Holding
    <3> QED BY <3>1, RowsWritten
  <2> QED BY <1>4, <2>1, <2>2 DEF ReserveCommit
<1>5. ASSUME NEW w \in Workers, ReclaimSelect(w) PROVE LockInv'
  <2>1. \A i \in Orphans(stamp[w]) : Present(i) /\ \A v \in Workers : i \notin locks[v]
    BY DEF Orphans, Expired
  <2>2. pc'[w] # "unlock" => locks'[w] = {}
    BY <1>5 DEF ReclaimSelect
  <2> QED BY <1>5, <2>1, <2>2 DEF ReclaimSelect
<1>6. ASSUME NEW w \in Workers, ReclaimCommit(w) PROVE LockInv'
  <2>1. \A v \in Workers : v # w => \A i \in locks[v] : jobs'[i] = jobs[i]
    BY <1>6 DEF ReclaimCommit
  <2> QED BY <1>6, <2>1 DEF ReclaimCommit
<1>7. ASSUME NEW w \in Workers, Delete(w) \/ Fail(w) PROVE LockInv'
  <2>1. \A v \in Workers : \A i \in locks[v] : jobs'[i] = jobs[i]
    BY <1>7 DEF Delete, Fail
  <2> QED BY <1>7, <2>1 DEF Delete, Fail, Settled
<1>8. ASSUME NEW w \in Workers, PushNext(w) PROVE LockInv'
  <2>1. NewRow(next_in_chain(held[w].job)) # Null
    BY <1>8, NextStep, RowsWritten DEF PushNext
  <2> QED BY <1>8, <2>1 DEF PushNext, push, Settled
<1>9. ASSUME NEW w \in Workers, Release(w) PROVE LockInv'
  <2>1. \A v \in Workers : \A i \in locks[v] : jobs'[i] = jobs[i]
    BY <1>9 DEF Release
  <2> QED BY <1>9, <2>1 DEF Release, Settled
<1>10. ASSUME NEW w \in Workers, Interrupt(w) PROVE LockInv'
  BY <1>10 DEF Interrupt
<1>11. ASSUME Clear PROVE LockInv'
  BY <1>11 DEF Clear
<1>12. ASSUME Signal \/ Tick \/ UNCHANGED vars PROVE LockInv'
  BY <1>12 DEF Signal, Tick, vars
<1> QED
  BY <1>1, <1>2, <1>3, <1>4, <1>5, <1>6, <1>7, <1>8, <1>9, <1>10, <1>11, <1>12
  DEF Next, WorkerStep
LEMMA HeldIds ==
  ASSUME TypeOK PROVE \A w \in Workers : held[w] # Null => held[w].id \in Ids
  BY DEF TypeOK, Hold

LEMMA FailedIds ==
  ASSUME TypeOK PROVE \A k \in 1 .. Len(failed) : failed[k] \in Hold /\ failed[k].id \in Ids
<1>1. \A k \in 1 .. Len(failed) : failed[k] \in Hold
  BY DEF TypeOK
<1> QED BY <1>1 DEF Hold

\* Ids come from the sequence, so a push touches no row anybody holds.
LEMMA IdStep ==
  ASSUME ~ ReuseIds, TypeOK, LockInv, HoldInv, IdInv, [Next]_vars
  PROVE  IdInv'
<1> USE DEF TypeOK, IdInv, Present, table, worker, Ids
<1>1. ASSUME NEW c \in Chains, Dispatch(c) PROVE IdInv'
  <2>1. lastId' = lastId + 1 /\ jobs' = [jobs EXCEPT ![lastId + 1] = NewRow(<<c, 1>>)]
    BY <1>1, NextIdFresh DEF Dispatch, push
  <2>2. \A i \in Ids : i # lastId' => jobs'[i] = jobs[i]
    BY <2>1
  <2> QED BY <1>1, <2>1, <2>2, HeldIds, FailedIds DEF Dispatch
<1>2. ASSUME NEW w \in Workers, Poll(w) \/ ReserveNone(w) \/ HandlerOk(w) \/ HandlerErr(w)
                                 \/ ReclaimSelect(w)
      PROVE  IdInv'
  BY <1>2 DEF Poll, ReserveNone, HandlerOk, HandlerErr, ReclaimSelect
<1>3. ASSUME NEW w \in Workers, ReserveSelect(w) PROVE IdInv'
  <2>1. PICK i \in Ids : Present(i) /\ held' = [held EXCEPT ![w] =
                        [id |-> i, job |-> jobs[i].job, attempts |-> jobs[i].attempts + 1]]
    BY <1>3 DEF ReserveSelect, IsFirstAvailable, Available
  <2>2. held'[w].id = i
    BY <2>1
  <2>3. \A v \in Workers : v # w => held'[v] = held[v]
    BY <2>1
  <2> QED BY <1>3, <2>1, <2>2, <2>3 DEF ReserveSelect
<1>4. ASSUME NEW w \in Workers, ReserveCommit(w) PROVE IdInv'
  <2>1. Present(held[w].id)
    BY <1>4, HeldType DEF ReserveCommit, Holding, HoldInv, HoldOK, LockInv
  <2> QED BY <1>4, <2>1 DEF ReserveCommit
<1>5. ASSUME NEW w \in Workers, ReclaimCommit(w) PROVE IdInv'
  BY <1>5 DEF ReclaimCommit, LockInv
<1>6. ASSUME NEW w \in Workers, Delete(w) PROVE IdInv'
  BY <1>6 DEF Delete, Settled
<1>7. ASSUME NEW w \in Workers, PushNext(w) PROVE IdInv'
  <2>1. /\ lastId' = lastId + 1
        /\ jobs' = [jobs EXCEPT ![lastId + 1] = NewRow(next_in_chain(held[w].job))]
    BY <1>7, NextIdFresh DEF PushNext, push
  <2>2. \A i \in Ids : i # lastId' => jobs'[i] = jobs[i]
    BY <2>1
  <2>3. \A v \in Workers : held'[v] = held[v] \/ held'[v] = Null
    BY <1>7 DEF PushNext, Settled
  <2>4. failed' = failed
    BY <1>7 DEF PushNext
  <2>5. (\A i \in Ids : Present(i) => i <= lastId)'
    BY <2>1, <2>2
  <2>6. (\A v \in Workers : held[v] # Null => held[v].id <= lastId)'
    BY <2>1, <2>3, HeldIds
  <2>7. (\A k \in 1 .. Len(failed) : failed[k].id <= lastId)'
    BY <2>1, <2>4, FailedIds
  <2> QED BY <2>5, <2>6, <2>7
<1>8. ASSUME NEW w \in Workers, Release(w) PROVE IdInv'
  BY <1>8 DEF Release, Settled
<1>9. ASSUME NEW w \in Workers, Fail(w) PROVE IdInv'
  <2>1. held[w] \in Hold /\ held[w] # Null
    BY <1>9, HeldType, QueueConstants DEF Fail, Holding
  <2>2. \A k \in 1 .. Len(failed') : failed'[k] = held[w] \/ \E l \in 1 .. Len(failed) : failed'[k] = failed[l]
    BY <1>9, <2>1 DEF Fail
  <2>3. (\A k \in 1 .. Len(failed) : failed[k].id <= lastId)'
    BY <1>9, <2>1, <2>2 DEF Fail
  <2> QED BY <1>9, <2>3 DEF Fail, Settled
<1>10. ASSUME NEW w \in Workers, Interrupt(w) PROVE IdInv'
  BY <1>10 DEF Interrupt
<1>11. ASSUME Clear PROVE IdInv'
  BY <1>11 DEF Clear
<1>12. ASSUME Signal \/ Tick \/ UNCHANGED vars PROVE IdInv'
  BY <1>12 DEF Signal, Tick, vars
<1> QED
  BY <1>1, <1>2, <1>3, <1>4, <1>5, <1>6, <1>7, <1>8, <1>9, <1>10, <1>11, <1>12
  DEF Next, WorkerStep

LEMMA RowFields ==
  ASSUME TypeOK, NEW i \in Ids, Present(i)
  PROVE  jobs[i] \in Row /\ jobs[i].job \in Job /\ jobs[i].attempts \in Nat
<1>1. jobs[i] \in Row
  BY DEF TypeOK, Present
<1> QED BY <1>1 DEF Row

\* A row that is on the queue before and after a step is the same job, with at
\* least as many attempts.
Grown(i) ==
    /\ Present(i) /\ jobs'[i].job = jobs[i].job
    /\ jobs[i].attempts \in Nat /\ jobs'[i].attempts \in Nat
    /\ jobs[i].attempts <= jobs'[i].attempts

LEMMA RowsGrow ==
  ASSUME ~ ReuseIds, TypeOK, LockInv, HoldInv, IdInv, [Next]_vars,
         NEW i \in Ids, i <= lastId, Present(i)'
  PROVE  Grown(i)
<1> USE DEF table, worker
<1>1. ASSUME jobs'[i] = jobs[i] PROVE Grown(i)
  BY <1>1, RowFields DEF Grown, Present
<1>2. ASSUME Present(i), \E t : jobs'[i] = Reopened(jobs[i], t) PROVE Grown(i)
  BY <1>2, RowFields DEF Grown, Reopened
<1>3. ASSUME NEW j, push(j) PROVE Grown(i)
  <2>1. jobs' = [jobs EXCEPT ![lastId + 1] = NewRow(j)] /\ lastId + 1 # i
    BY <1>3, NextIdFresh DEF push, TypeOK, Ids
  <2> QED BY <1>1, <2>1 DEF TypeOK
<1>4. ASSUME NEW w \in Workers, ReserveCommit(w) PROVE Grown(i)
  <2>1. CASE i = held[w].id
    <3>1. /\ Present(i) /\ held[w].attempts = jobs[i].attempts + 1
      BY <1>4, <2>1, HeldType DEF ReserveCommit, Holding, HoldInv, HoldOK, LockInv
    <3>2. jobs'[i] = Reserved(jobs[i], held[w].attempts, stamp[w])
      BY <1>4, <2>1 DEF ReserveCommit, TypeOK
    <3>3. jobs'[i].attempts = held[w].attempts /\ jobs'[i].job = jobs[i].job
      BY <3>2 DEF Reserved
    <3> QED BY <3>1, <3>3, RowFields DEF Grown
  <2>2. CASE i # held[w].id
    BY <1>1, <1>4, <2>2 DEF ReserveCommit, TypeOK
  <2> QED BY <2>1, <2>2
<1>5. ASSUME NEW w \in Workers, ReclaimCommit(w) PROVE Grown(i)
  <2>1. CASE i \in locks[w]
    BY <1>2, <1>5, <2>1 DEF ReclaimCommit, LockInv
  <2>2. CASE i \notin locks[w]
    BY <1>1, <1>5, <2>2 DEF ReclaimCommit
  <2> QED BY <2>1, <2>2
<1>6. ASSUME NEW w \in Workers, Release(w) PROVE Grown(i)
  <2>1. CASE i = held[w].id /\ Present(i)
    BY <1>2, <1>6, <2>1 DEF Release, TypeOK
  <2>2. CASE ~ (i = held[w].id /\ Present(i))
    BY <1>1, <1>6, <2>2 DEF Release, TypeOK
  <2> QED BY <2>1, <2>2
<1>7. ASSUME NEW w \in Workers, Delete(w) \/ Fail(w) PROVE Grown(i)
  BY <1>1, <1>7 DEF Delete, Fail, TypeOK, Present
<1>8. ASSUME Clear PROVE Grown(i)
  BY <1>8 DEF Clear, Present
<1>9. ASSUME UNCHANGED jobs PROVE Grown(i)
  BY <1>1, <1>9
<1> QED
  BY <1>3, <1>4, <1>5, <1>6, <1>7, <1>8, <1>9
  DEF Next, WorkerStep, vars, Dispatch, PushNext, Poll, ReserveSelect, ReserveNone,
      ReclaimSelect, HandlerOk, HandlerErr, Interrupt, Signal, Tick

\* Nobody but its holder changes a locked row.
LEMMA LockedRowsKept ==
  ASSUME ~ ReuseIds, TypeOK, LockInv, HoldInv, IdInv, [Next]_vars,
         NEW v \in Workers, NEW i \in locks[v], locks'[v] = locks[v]
  PROVE  jobs'[i] = jobs[i]
<1> USE DEF table, worker
<1>0. i \in Ids /\ Present(i) /\ i <= lastId /\ locks[v] # {} /\ i \in Locked
  BY DEF TypeOK, LockInv, IdInv, Locked
<1>1. ASSUME NEW j, push(j) PROVE jobs'[i] = jobs[i]
  BY <1>0, <1>1, NextIdFresh DEF push, TypeOK, Ids
<1>2. ASSUME NEW w \in Workers, ReserveCommit(w) PROVE jobs'[i] = jobs[i]
  <2>1. v # w /\ held[w].id # i
    BY <1>0, <1>2 DEF ReserveCommit, HoldInv, HoldOK, LockInv, TypeOK
  <2> QED BY <1>0, <1>2, <2>1 DEF ReserveCommit, TypeOK
<1>3. ASSUME NEW w \in Workers, ReclaimCommit(w) PROVE jobs'[i] = jobs[i]
  BY <1>0, <1>3 DEF ReclaimCommit, LockInv, TypeOK
<1>4. ASSUME NEW w \in Workers, Release(w) \/ Delete(w) \/ Fail(w) PROVE jobs'[i] = jobs[i]
  BY <1>0, <1>4 DEF Release, Delete, Fail, TypeOK
<1>5. ASSUME Clear PROVE jobs'[i] = jobs[i]
  BY <1>0, <1>5 DEF Clear
<1> QED
  BY <1>1, <1>2, <1>3, <1>4, <1>5
  DEF Next, WorkerStep, vars, Dispatch, PushNext, Poll, ReserveSelect, ReserveNone,
      ReclaimSelect, HandlerOk, HandlerErr, Interrupt, Signal, Tick
LEMMA BystanderHold ==
  ASSUME ~ ReuseIds, TypeOK, LockInv, HoldInv, IdInv, [Next]_vars, NEW v \in Workers,
         pc'[v] = pc[v], held'[v] = held[v], locks'[v] = locks[v]
  PROVE  HoldOK(v)'
<1>1. CASE pc[v] \notin Holding
  BY <1>1 DEF HoldInv, HoldOK, Holding
<1>2. CASE pc[v] \in Holding
  <2>1. /\ HoldOK(v) /\ held[v].id \in Ids /\ held[v].attempts \in Nat
        /\ held[v] # Null /\ held[v].id <= lastId
    BY <1>2, HeldType DEF HoldInv, HoldOK, IdInv
  <2>2. Present(held[v].id)' => Grown(held[v].id)
    BY <2>1, RowsGrow DEF Present
  <2>3. pc[v] = "commit" => jobs'[held[v].id] = jobs[held[v].id]
    BY <2>1, LockedRowsKept DEF HoldOK
  <2> QED BY <1>2, <2>1, <2>2, <2>3 DEF HoldOK, Grown, Present
<1> QED BY <1>1, <1>2

LEMMA HoldStep ==
  ASSUME ~ ReuseIds, TypeOK, LockInv, HoldInv, IdInv, [Next]_vars
  PROVE  HoldInv'
<1> SUFFICES ASSUME NEW v \in Workers PROVE HoldOK(v)'
  BY DEF HoldInv
<1> USE DEF table, worker
<1>0. HoldOK(v) /\ (pc[v] \in Holding => held[v] \in Hold)
  BY HeldType DEF HoldInv
<1>1. ASSUME UNCHANGED <<pc, held, locks>> PROVE HoldOK(v)'
  BY <1>1, BystanderHold
<1>2. ASSUME NEW w \in Workers, WorkerStep(w) \/ Interrupt(w), w # v PROVE HoldOK(v)'
  <2>1. pc'[v] = pc[v] /\ held'[v] = held[v] /\ locks'[v] = locks[v]
    BY <1>2 DEF WorkerStep, Poll, ReserveSelect, ReserveNone, ReserveCommit, ReclaimSelect,
         ReclaimCommit, HandlerOk, HandlerErr, Delete, PushNext, Release, Fail, Settled,
         Interrupt, TypeOK
  <2> QED BY <2>1, BystanderHold
<1>3. ASSUME Poll(v) \/ ReserveNone(v) \/ ReclaimSelect(v) \/ ReclaimCommit(v) PROVE HoldOK(v)'
  BY <1>0, <1>3 DEF Poll, ReserveNone, ReclaimSelect, ReclaimCommit, HoldOK, Holding, TypeOK
<1>4. ASSUME ReserveSelect(v) PROVE HoldOK(v)'
  <2>1. PICK i \in Ids :
          /\ IsFirstAvailable(i, stamp[v])
          /\ locks' = [locks EXCEPT ![v] = {i}]
          /\ held' = [held EXCEPT ![v] =
                        [id |-> i, job |-> jobs[i].job, attempts |-> jobs[i].attempts + 1]]
    BY <1>4 DEF ReserveSelect
  <2>2. jobs[i] \in Row /\ jobs[i].job \in Job /\ jobs[i].attempts \in Nat
    BY <2>1, RowFields DEF IsFirstAvailable, Available
  <2>3. /\ held'[v] = [id |-> i, job |-> jobs[i].job, attempts |-> jobs[i].attempts + 1]
        /\ locks'[v] = {i} /\ pc'[v] = "commit" /\ jobs' = jobs
    BY <1>4, <2>1 DEF ReserveSelect, TypeOK
  <2>4. held'[v] # Null
    BY <2>2, <2>3, QueueConstants DEF Hold
  <2> QED BY <2>3, <2>4 DEF HoldOK, Holding
<1>5. ASSUME ReserveCommit(v) PROVE HoldOK(v)'
  <2>1. /\ held'[v] = held[v] /\ pc'[v] = "running" /\ held[v].id \in Ids
        /\ jobs'[held[v].id] = Reserved(jobs[held[v].id], held[v].attempts, stamp[v])
        /\ Present(held[v].id) /\ pc[v] = "commit" /\ held[v].attempts \in Nat
    BY <1>0, <1>5, HeldType DEF ReserveCommit, TypeOK, HoldOK, LockInv, Holding
  <2> QED BY <1>0, <2>1 DEF HoldOK, Holding, Reserved
<1>6. ASSUME HandlerOk(v) \/ HandlerErr(v) PROVE HoldOK(v)'
  BY <1>0, <1>6 DEF HandlerOk, HandlerErr, HoldOK, Holding, TypeOK, Present
<1>7. ASSUME Delete(v) PROVE HoldOK(v)'
  <2>1. CASE HasNext(held[v].job)
    <3>1. pc'[v] = "push" /\ held' = held /\ jobs'[held[v].id] = Null
      BY <1>0, <1>7, <2>1, HeldType DEF Delete, Settled, TypeOK, Holding
    <3>2. held'[v].job = held[v].job /\ pc[v] = "delete"
      BY <1>7, <3>1 DEF Delete
    <3> QED BY <1>0, <2>1, <3>1, <3>2 DEF HoldOK, Holding, Present, HasNext
  <2>2. CASE ~ HasNext(held[v].job)
    BY <1>7, <2>2 DEF Delete, Settled, TypeOK, HoldOK, Holding
  <2> QED BY <2>1, <2>2
<1>8. ASSUME PushNext(v) \/ Release(v) \/ Fail(v) \/ Interrupt(v) PROVE HoldOK(v)'
  <2>1. pc'[v] = "idle" /\ held'[v] = Null
    BY <1>8 DEF PushNext, Release, Fail, Interrupt, Settled, TypeOK
  <2> QED BY <2>1 DEF HoldOK, Holding
<1> QED
  BY <1>1, <1>2, <1>3, <1>4, <1>5, <1>6, <1>7, <1>8
  DEF Next, WorkerStep, vars, Dispatch, Clear, Signal, Tick
\* The history only grows: nothing that happened to a job is forgotten.
LEMMA HistoryGrows ==
  ASSUME TypeOK, LockInv, HoldInv, [Next]_vars
  PROVE  /\ done \subseteq done' /\ cleared \subseteq cleared' /\ lostTail \subseteq lostTail'
         /\ Dead \subseteq Dead'
         /\ \A j \in Job : pushes[j] > 0 => pushes'[j] > 0
<1> USE DEF table, worker, history
<1>1. done \subseteq done' /\ cleared \subseteq cleared' /\ lostTail \subseteq lostTail'
  BY DEF Next, WorkerStep, vars, Dispatch, Poll, ReserveSelect, ReserveNone, ReserveCommit,
         ReclaimSelect, ReclaimCommit, HandlerOk, HandlerErr, Delete, PushNext, Release, Fail,
         Interrupt, Clear, Signal, Tick
<1>2. ASSUME NEW w \in Workers, Fail(w) PROVE Dead \subseteq Dead'
  <2>1. held[w] \in Hold /\ failed \in Seq(Hold) /\ failed' = Append(failed, held[w])
    BY <1>2, HeldType DEF Fail, Holding, TypeOK
  <2>2. \A k \in 1 .. Len(failed) : k \in 1 .. Len(failed') /\ failed'[k] = failed[k]
    BY <2>1
  <2> QED BY <2>2 DEF Dead
<1>3. ASSUME UNCHANGED failed PROVE Dead \subseteq Dead'
  BY <1>3 DEF Dead
<1>4. Dead \subseteq Dead'
  BY <1>2, <1>3
  DEF Next, WorkerStep, vars, Dispatch, Poll, ReserveSelect, ReserveNone, ReserveCommit,
      ReclaimSelect, ReclaimCommit, HandlerOk, HandlerErr, Delete, PushNext, Release,
      Interrupt, Clear, Signal, Tick
<1>5. ASSUME NEW n, push(n) PROVE \A j \in Job : pushes[j] > 0 => pushes'[j] > 0
  BY <1>5 DEF push, TypeOK
<1>6. \A j \in Job : pushes[j] > 0 => pushes'[j] > 0
  BY <1>5
  DEF Next, WorkerStep, vars, Dispatch, Poll, ReserveSelect, ReserveNone, ReserveCommit,
      ReclaimSelect, ReclaimCommit, HandlerOk, HandlerErr, Delete, PushNext, Release, Fail,
      Interrupt, Clear, Signal, Tick
<1> QED BY <1>1, <1>4, <1>6

\* The three ways a row leaves the jobs table.
LEMMA RowsLeave ==
  ASSUME TypeOK, LockInv, HoldInv, [Next]_vars,
         NEW i \in Ids, Present(i), ~ Present(i)'
  PROVE  \/ \E w \in Workers : (Delete(w) \/ Fail(w)) /\ held[w].id = i
         \/ Clear
<1> USE DEF table, worker
<1>1. jobs'[i] # jobs[i]
  BY DEF Present
<1>2. ASSUME NEW j \in Job, push(j) PROVE FALSE
  <2>1. NewRow(j) # Null
    BY RowsWritten
  <2> QED BY <1>2, <2>1 DEF push, Present, TypeOK
<1>3. ASSUME NEW w \in Workers, ReserveCommit(w) PROVE FALSE
  <2>1. jobs[held[w].id] \in Row /\ held[w].attempts \in Nat /\ stamp[w] \in Nat
    BY <1>3, HeldType DEF ReserveCommit, Holding, TypeOK
  <2>2. Reserved(jobs[held[w].id], held[w].attempts, stamp[w]) # Null
    BY <2>1, RowsWritten
  <2> QED BY <1>3, <2>2 DEF ReserveCommit, Present, TypeOK
<1>4. \A t \in Int : Reopened(jobs[i], t) # Null
  BY RowFields, RowsWritten
<1>5. ASSUME NEW w \in Workers, ReclaimCommit(w) PROVE FALSE
  BY <1>4, <1>5 DEF ReclaimCommit, Present, TypeOK
<1>6. ASSUME NEW w \in Workers, Release(w) PROVE FALSE
  <2>1. now + backoff(held[w].attempts) \in Int
    BY <1>6, HeldType, BackoffType, QueueConstants DEF Release, Holding, TypeOK
  <2>2. Reopened(jobs[i], now + backoff(held[w].attempts)) # Null
    BY <1>4, <2>1
  <2> QED BY <1>6, <2>2 DEF Release, Present, TypeOK
<1>7. ASSUME NEW w \in Workers, Delete(w) \/ Fail(w) PROVE held[w].id = i
  BY <1>1, <1>7 DEF Delete, Fail, TypeOK
<1>8. ASSUME NEW c \in Chains, Dispatch(c) PROVE FALSE
  BY <1>2, <1>8, FirstStep DEF Dispatch
<1>9. ASSUME NEW w \in Workers, PushNext(w) PROVE FALSE
  BY <1>2, <1>9, NextStep DEF PushNext
<1> QED
  BY <1>1, <1>3, <1>5, <1>6, <1>7, <1>8, <1>9
  DEF Next, WorkerStep, vars, Poll, ReserveSelect, ReserveNone, ReclaimSelect,
      HandlerOk, HandlerErr, Interrupt, Signal, Tick

\* Whatever leaves the table has run to the end, or is dead-lettered or cleared.
LEMMA LeavesAccounted ==
  ASSUME TypeOK, LockInv, HoldInv, GoneInv, [Next]_vars,
         NEW i \in Ids, Present(i), ~ Present(i)'
  PROVE  jobs[i].job \in done' \cup cleared' \cup Dead'
<1>1. ASSUME NEW w \in Workers, Delete(w), held[w].id = i PROVE jobs[i].job \in done'
  BY <1>1, HistoryGrows DEF Delete, GoneInv, HoldInv, HoldOK, Holding
<1>2. ASSUME NEW w \in Workers, Fail(w), held[w].id = i PROVE jobs[i].job \in Dead'
  <2>1. held[w] \in Hold /\ failed \in Seq(Hold) /\ failed' = Append(failed, held[w])
        /\ held[w].job = jobs[i].job
    BY <1>2, HeldType DEF Fail, Holding, TypeOK, HoldInv, HoldOK
  <2>2. Len(failed') \in 1 .. Len(failed') /\ failed'[Len(failed')] = held[w]
    BY <2>1
  <2> QED BY <2>1, <2>2 DEF Dead
<1>3. ASSUME Clear PROVE jobs[i].job \in cleared'
  BY <1>3 DEF Clear
<1> QED BY <1>1, <1>2, <1>3, RowsLeave
\* A step leaves each worker's hands as they were, empties them, or is the
\* locking read that fills them.
LEMMA HandsChange ==
  ASSUME TypeOK, [Next]_vars, NEW v \in Workers
  PROVE  held'[v] = held[v] \/ held'[v] = Null \/ ReserveSelect(v)
<1> USE DEF table, worker, TypeOK
<1>1. ASSUME NEW w \in Workers, WorkerStep(w) \/ Interrupt(w)
      PROVE  held'[v] = held[v] \/ held'[v] = Null \/ ReserveSelect(v)
  BY <1>1 DEF WorkerStep, Poll, ReserveSelect, ReserveNone, ReserveCommit, ReclaimSelect,
       ReclaimCommit, HandlerOk, HandlerErr, Delete, PushNext, Release, Fail, Settled, Interrupt
<1> QED BY <1>1 DEF Next, vars, Dispatch, Clear, Signal, Tick

LEMMA Reservation ==
  ASSUME TypeOK, NEW v \in Workers, ReserveSelect(v)
  PROVE  \E i \in Ids : /\ Present(i) /\ i \notin Locked /\ jobs' = jobs
                        /\ held'[v].id = i /\ held'[v].job = jobs[i].job
                        /\ held'[v].attempts = jobs[i].attempts + 1
<1>1. PICK i \in Ids :
        /\ IsFirstAvailable(i, stamp[v])
        /\ held' = [held EXCEPT ![v] =
                      [id |-> i, job |-> jobs[i].job, attempts |-> jobs[i].attempts + 1]]
  BY DEF ReserveSelect
<1>2. held'[v] = [id |-> i, job |-> jobs[i].job, attempts |-> jobs[i].attempts + 1]
  BY <1>1 DEF TypeOK
<1>3. Present(i) /\ i \notin Locked
  BY <1>1 DEF IsFirstAvailable, Available
<1>4. jobs' = jobs
  BY DEF ReserveSelect, table
<1> QED BY <1>2, <1>3, <1>4

LEMMA GoneStep ==
  ASSUME ~ ReuseIds, TypeOK, LockInv, HoldInv, IdInv, GoneInv, [Next]_vars, HoldInv'
  PROVE  GoneInv'
<1> SUFFICES ASSUME NEW v \in Workers
             PROVE  /\ pc'[v] \in {"delete", "push"} => held'[v].job \in done'
                    /\ pc'[v] \in Holding /\ jobs'[held'[v].id] = Null
                          => held'[v].job \in done' \cup cleared' \cup Dead'
  BY DEF GoneInv, Present
<1>1. ASSUME pc'[v] \in {"delete", "push"} PROVE held'[v].job \in done'
  <2>1. HandlerOk(v) \/ (pc[v] \in {"delete", "push"} /\ held'[v] = held[v])
    <3>1. held'[v] # Null
      BY <1>1 DEF HoldInv, HoldOK, Holding
    <3>2. pc[v] \in {"delete", "push"} \/ HandlerOk(v)
      <4>1. ASSUME NEW w \in Workers, WorkerStep(w) \/ Interrupt(w), pc'[v] # pc[v]
            PROVE  v = w
        BY <4>1 DEF TypeOK, WorkerStep, Poll, ReserveSelect, ReserveNone, ReserveCommit,
             ReclaimSelect, ReclaimCommit, HandlerOk, HandlerErr, Delete, PushNext, Release,
             Fail, Settled, Interrupt
      <4>2. pc'[v] # pc[v] => WorkerStep(v) \/ Interrupt(v)
        BY <4>1 DEF Next, vars, worker, Dispatch, Clear, Signal, Tick
      <4>3. WorkerStep(v) \/ Interrupt(v) => HandlerOk(v) \/ Delete(v) \/ pc'[v] = pc[v]
        BY <1>1 DEF TypeOK, WorkerStep, Poll, ReserveSelect, ReserveNone, ReserveCommit,
             ReclaimSelect, ReclaimCommit, HandlerErr, PushNext, Release, Fail, Settled,
             Interrupt
      <4> QED BY <1>1, <4>2, <4>3 DEF Delete
    <3>3. pc[v] \in {"delete", "push"} => ~ ReserveSelect(v)
      BY DEF ReserveSelect
    <3> QED BY <3>1, <3>2, <3>3, HandsChange
  <2>2. CASE HandlerOk(v)
    BY <2>2 DEF HandlerOk
  <2>3. CASE pc[v] \in {"delete", "push"} /\ held'[v] = held[v]
    BY <2>3, HistoryGrows DEF GoneInv
  <2> QED BY <2>1, <2>2, <2>3
<1>2. ASSUME pc'[v] \in Holding, jobs'[held'[v].id] = Null
      PROVE  held'[v].job \in done' \cup cleared' \cup Dead'
  <2>1. held'[v] # Null
    BY <1>2 DEF HoldInv, HoldOK
  <2>2. CASE ReserveSelect(v)
    BY <1>2, <2>2, Reservation DEF Present
  <2>3. CASE held'[v] = held[v]
    <3>1. pc[v] \in Holding
      BY <2>1, <2>3 DEF HoldInv, HoldOK
    <3>2. CASE ~ Present(held[v].id)
      BY <2>3, <3>1, <3>2, HistoryGrows DEF GoneInv
    <3>3. CASE Present(held[v].id)
      <4>1. held[v].id \in Ids /\ held[v].job = jobs[held[v].id].job
        BY <3>1, <3>3, HeldType DEF HoldInv, HoldOK
      <4>2. jobs'[held[v].id] = Null
        BY <1>2, <2>3
      <4> QED BY <2>3, <3>3, <4>1, <4>2, LeavesAccounted DEF Present
    <3> QED BY <3>2, <3>3
  <2> QED BY <2>1, <2>2, <2>3, HandsChange
<1> QED BY <1>1, <1>2

LEMMA AttemptStep ==
  ASSUME ~ ReuseIds, TypeOK, LockInv, HoldInv, AttemptHandedOutOnce, [Next]_vars
  PROVE  AttemptHandedOutOnce'
<1> SUFFICES ASSUME NEW v \in Workers, NEW w \in Workers, v # w,
                    held'[v] # Null, held'[w] # Null, held'[v].id = held'[w].id
             PROVE  held'[v].attempts # held'[w].attempts
  BY DEF AttemptHandedOutOnce
\* A fresh reservation is ahead of every attempt already handed out.
<1>1. ASSUME NEW x \in Workers, NEW y \in Workers, x # y, ReserveSelect(x),
             held'[y] # Null, held'[x].id = held'[y].id
      PROVE  held'[x].attempts # held'[y].attempts
  <2>1. held'[y] = held[y]
    BY <1>1 DEF ReserveSelect, TypeOK
  <2>2. PICK i \in Ids : /\ Present(i) /\ i \notin Locked /\ held'[x].id = i
                         /\ held'[x].attempts = jobs[i].attempts + 1
    BY <1>1, Reservation
  <2>3. pc[y] \in Holding /\ held[y].id = i
    BY <1>1, <2>1, <2>2 DEF HoldInv, HoldOK
  <2>4. pc[y] # "commit"
    BY <2>2, <2>3 DEF HoldInv, HoldOK, Locked
  <2>5. held[y].attempts <= jobs[i].attempts /\ held[y].attempts \in Nat
    BY <2>2, <2>3, <2>4, HeldType DEF HoldInv, HoldOK
  <2> QED BY <2>1, <2>2, <2>5, RowFields
<1>2. CASE ReserveSelect(v)
  BY <1>1, <1>2
<1>3. CASE ReserveSelect(w)
  BY <1>1, <1>3
<1>4. CASE held'[v] = held[v] /\ held'[w] = held[w]
  BY <1>4 DEF AttemptHandedOutOnce
<1> QED BY <1>2, <1>3, <1>4, HandsChange

LEMMA BothStep ==
  ASSUME ~ ReuseIds, TypeOK, LockInv, HoldInv, IdInv, NeverInBoth, [Next]_vars
  PROVE  NeverInBoth'
<1>1. ASSUME NEW k \in 1 .. Len(failed), jobs'[failed[k].id] # Null PROVE FALSE
  <2>1. failed[k].id \in Ids /\ failed[k].id <= lastId
    BY FailedIds DEF IdInv
  <2>2. Grown(failed[k].id)
    BY <1>1, <2>1, RowsGrow DEF Present
  <2> QED BY <2>2 DEF Grown, NeverInBoth
<1>2. ASSUME NEW w \in Workers, Fail(w) PROVE NeverInBoth'
  <2>1. /\ held[w] \in Hold /\ held[w].id \in Ids /\ failed \in Seq(Hold)
        /\ failed' = Append(failed, held[w]) /\ jobs'[held[w].id] = Null
    BY <1>2, HeldType DEF Fail, Holding, TypeOK
  <2>2. \A k \in 1 .. Len(failed') :
          failed'[k] = held[w] \/ (k \in 1 .. Len(failed) /\ failed'[k] = failed[k])
    BY <2>1
  <2> QED BY <1>1, <2>1, <2>2 DEF NeverInBoth, Present
<1>3. ASSUME UNCHANGED failed PROVE NeverInBoth'
  BY <1>1, <1>3 DEF NeverInBoth, Present
<1> QED
  BY <1>2, <1>3
  DEF Next, WorkerStep, vars, table, worker, Dispatch, Poll, ReserveSelect, ReserveNone,
      ReserveCommit, ReclaimSelect, ReclaimCommit, HandlerOk, HandlerErr, Delete, PushNext,
      Release, Interrupt, Clear, Signal, Tick
\* A step that is pushed is on the queue right after.
LEMMA PushedIsThere ==
  ASSUME TypeOK, LockInv, HoldInv, [Next]_vars, NEW j \in Job, pushes'[j] # pushes[j]
  PROVE  \E i \in Ids : jobs'[i] # Null /\ jobs'[i].job = j
<1> USE DEF table, worker, history
<1>1. ASSUME NEW n \in Job, push(n) PROVE \E i \in Ids : jobs'[i] # Null /\ jobs'[i].job = j
  <2>1. n = j
    BY <1>1 DEF push, TypeOK
  <2>2. NextId \in Ids /\ jobs'[NextId] = NewRow(j)
    BY <1>1, <2>1 DEF push, TypeOK
  <2>3. NewRow(j) # Null /\ NewRow(j).job = j
    BY RowsWritten DEF NewRow
  <2> QED BY <2>2, <2>3
<1>2. ASSUME NEW c \in Chains, Dispatch(c) PROVE \E n \in Job : push(n)
  BY <1>2, FirstStep DEF Dispatch
<1>3. ASSUME NEW w \in Workers, PushNext(w) PROVE \E n \in Job : push(n)
  BY <1>3, NextStep DEF PushNext
<1> QED
  BY <1>1, <1>2, <1>3
  DEF Next, WorkerStep, vars, Poll, ReserveSelect, ReserveNone, ReserveCommit, ReclaimSelect,
      ReclaimCommit, HandlerOk, HandlerErr, Delete, Release, Fail, Interrupt, Clear, Signal, Tick

\* A job on the queue stays there or is accounted for.
LEMMA RowFate ==
  ASSUME ~ ReuseIds, TypeOK, LockInv, HoldInv, IdInv, GoneInv, [Next]_vars,
         NEW i \in Ids, Present(i)
  PROVE  \/ jobs'[i] # Null /\ jobs'[i].job = jobs[i].job
         \/ jobs[i].job \in done' \cup cleared' \cup Dead'
<1>1. CASE jobs'[i] # Null
  BY <1>1, RowsGrow DEF IdInv, Grown, Present
<1>2. CASE jobs'[i] = Null
  BY <1>2, LeavesAccounted DEF Present
<1> QED BY <1>1, <1>2

LEMMA LostStep ==
  ASSUME ~ ReuseIds, TypeOK, LockInv, HoldInv, IdInv, GoneInv, NoJobLost, [Next]_vars
  PROVE  NoJobLost'
<1> SUFFICES ASSUME NEW j \in Job, pushes'[j] > 0
             PROVE  \/ \E i \in Ids : jobs'[i] # Null /\ jobs'[i].job = j
                    \/ j \in done' \cup cleared' \cup Dead'
  BY DEF NoJobLost, Present, Dead
<1>1. CASE pushes'[j] # pushes[j]
  BY <1>1, PushedIsThere
<1>2. CASE pushes'[j] = pushes[j]
  <2>1. \/ \E i \in Ids : Present(i) /\ jobs[i].job = j
        \/ j \in done \cup cleared \cup Dead
    BY <1>2 DEF NoJobLost, Dead
  <2>2. CASE \E i \in Ids : Present(i) /\ jobs[i].job = j
    BY <2>2, RowFate
  <2>3. CASE j \in done \cup cleared \cup Dead
    BY <2>3, HistoryGrows
  <2> QED BY <2>1, <2>2, <2>3
<1> QED BY <1>1, <1>2

LEMMA ChainStep ==
  ASSUME ~ ReuseIds, TypeOK, LockInv, HoldInv, IdInv, GoneInv, ChainNeverStalls, [Next]_vars
  PROVE  ChainNeverStalls'
<1> DEFINE Carried(j) ==
      \/ pushes'[next_in_chain(j)] > 0
      \/ \E w \in Workers : pc'[w] = "push" /\ held'[w].job = j
      \/ \E i \in Ids : jobs'[i] # Null /\ jobs'[i].job = j
      \/ j \in cleared' \cup lostTail' \cup Dead'
<1> SUFFICES ASSUME NEW j \in Job, j \in done', HasNext(j) PROVE Carried(j)
  <2>1. done' \subseteq Job
    BY TypeStep DEF TypeOK
  <2> QED BY <2>1 DEF ChainNeverStalls, Present, Dead
<1>0. next_in_chain(j) \in Job
  BY QueueConstants DEF Job, HasNext, next_in_chain
\* The row of a finished step leaves with its tail in somebody's hands.
<1>1. ASSUME NEW i \in Ids, Present(i), jobs[i].job = j PROVE Carried(j)
  <2>1. CASE jobs'[i] # Null
    BY <1>1, <2>1, RowsGrow DEF IdInv, Grown, Present
  <2>2. CASE jobs'[i] = Null
    <3>1. CASE \E w \in Workers : Delete(w) /\ held[w].id = i
      <4>1. PICK w \in Workers : Delete(w) /\ held[w].id = i
        BY <3>1
      <4>2. held[w].job = j
        BY <1>1, <4>1 DEF Delete, HoldInv, HoldOK, Holding
      <4>3. pc'[w] = "push" /\ held' = held
        BY <4>1, <4>2 DEF Delete, Settled, TypeOK
      <4> QED BY <4>2, <4>3
    <3>2. CASE \E w \in Workers : Fail(w) /\ held[w].id = i
      <4>1. PICK w \in Workers : Fail(w) /\ held[w].id = i
        BY <3>2
      <4>2. /\ held[w] \in Hold /\ failed \in Seq(Hold) /\ failed' = Append(failed, held[w])
            /\ held[w].job = j
        BY <1>1, <4>1, HeldType DEF Fail, Holding, TypeOK, HoldInv, HoldOK
      <4>3. Len(failed') \in 1 .. Len(failed') /\ failed'[Len(failed')] = held[w]
        BY <4>2
      <4>4. j \in Dead'
        BY <4>2, <4>3 DEF Dead
      <4> QED BY <4>4
    <3>3. CASE Clear
      BY <1>1, <3>3 DEF Clear
    <3> QED BY <1>1, <2>2, <3>1, <3>2, <3>3, RowsLeave DEF Present
  <2> QED BY <2>1, <2>2
<1>2. ASSUME j \in cleared \cup lostTail \cup Dead PROVE Carried(j)
  BY <1>2, HistoryGrows
<1>3. ASSUME j \in done PROVE Carried(j)
  <2>1. \/ pushes[next_in_chain(j)] > 0
        \/ \E w \in Workers : pc[w] = "push" /\ held[w].job = j
        \/ \E i \in Ids : Present(i) /\ jobs[i].job = j
        \/ j \in cleared \cup lostTail \cup Dead
    BY <1>3 DEF ChainNeverStalls, Dead
  <2>2. CASE pushes[next_in_chain(j)] > 0
    BY <1>0, <2>2, HistoryGrows
  <2>3. ASSUME NEW w \in Workers, pc[w] = "push", held[w].job = j PROVE Carried(j)
    <3>1. CASE pc'[w] = "push" /\ held'[w] = held[w]
      BY <2>3, <3>1
    <3>2. CASE PushNext(w)
      BY <1>0, <2>3, <3>2 DEF PushNext, push, TypeOK
    <3>3. CASE Interrupt(w)
      BY <2>3, <3>3 DEF Interrupt
    <3>4. ASSUME NEW x \in Workers, x # w, WorkerStep(x) \/ Interrupt(x)
          PROVE  pc'[w] = pc[w] /\ held'[w] = held[w]
      BY <3>4 DEF TypeOK, WorkerStep, Poll, ReserveSelect, ReserveNone, ReserveCommit,
           ReclaimSelect, ReclaimCommit, HandlerOk, HandlerErr, Delete, PushNext, Release,
           Fail, Settled, Interrupt
    <3>5. WorkerStep(w) => PushNext(w)
      BY <2>3 DEF WorkerStep, Poll, ReserveSelect, ReserveNone, ReserveCommit,
           ReclaimSelect, ReclaimCommit, HandlerOk, HandlerErr, Delete, Release, Fail
    <3>6. ASSUME UNCHANGED <<pc, held>> PROVE pc'[w] = pc[w] /\ held'[w] = held[w]
      BY <3>6
    <3> QED BY <2>3, <3>1, <3>2, <3>3, <3>4, <3>5, <3>6
            DEF Next, vars, worker, Dispatch, Clear, Signal, Tick
  <2> QED BY <1>1, <1>2, <2>1, <2>2, <2>3
<1>4. ASSUME j \notin done PROVE Carried(j)
  <2>1. PICK w \in Workers : HandlerOk(w) /\ held[w].job = j
    BY <1>4 DEF Next, WorkerStep, vars, history, Dispatch, Poll, ReserveSelect, ReserveNone,
         ReserveCommit, ReclaimSelect, ReclaimCommit, HandlerOk, HandlerErr, Delete, PushNext,
         Release, Fail, Interrupt, Clear, Signal, Tick
  <2>2. pc[w] \in Holding /\ held[w].id \in Ids
    BY <2>1, HeldType DEF HandlerOk, Holding
  <2>3. CASE Present(held[w].id)
    BY <1>1, <2>1, <2>2, <2>3 DEF HoldInv, HoldOK
  <2>4. CASE ~ Present(held[w].id)
    BY <1>2, <1>4, <2>1, <2>2, <2>4 DEF GoneInv
  <2> QED BY <2>3, <2>4
<1> QED BY <1>3, <1>4

LEMMA QueueInit == ASSUME Init PROVE QueueInv
<1> USE QueueConstants DEF Init
<1>1. TypeOK
  <2>1. jobs \in [Ids -> Row \cup {Null}] /\ failed \in Seq(Hold)
    OBVIOUS
  <2>2. now \in 0 .. MaxTime /\ lastId \in 0 .. MaxId /\ faults \in Nat /\ clears \in Nat
    OBVIOUS
  <2>3. pc \in [Workers -> PCs]
    BY DEF PCs
  <2>4. stamp \in [Workers -> Nat] /\ locks \in [Workers -> SUBSET Ids]
        /\ held \in [Workers -> Hold \cup {Null}]
    OBVIOUS
  <2>5. done \subseteq Job /\ pushes \in [Job -> Nat] /\ cleared \subseteq Job /\ lostTail \subseteq Job
    OBVIOUS
  <2>6. signalled \in BOOLEAN
    OBVIOUS
  <2> QED BY <2>1, <2>2, <2>3, <2>4, <2>5, <2>6 DEF TypeOK
<1>2. LockInv /\ HoldInv /\ IdInv /\ GoneInv
  BY DEF LockInv, HoldInv, HoldOK, IdInv, GoneInv, Holding, Present
<1>3. AttemptHandedOutOnce /\ NeverInBoth
  BY DEF AttemptHandedOutOnce, NeverInBoth
<1>4. NoJobLost /\ ChainNeverStalls
  BY DEF NoJobLost, ChainNeverStalls
<1> QED BY <1>1, <1>2, <1>3, <1>4 DEF QueueInv

LEMMA QueueStep ==
  ASSUME ~ ReuseIds, QueueInv, [Next]_vars
  PROVE  QueueInv'
<1>1. TypeOK' /\ LockInv' /\ IdInv' /\ HoldInv'
  BY TypeStep, LockStep, IdStep, HoldStep DEF QueueInv
<1>2. GoneInv'
  BY <1>1, GoneStep DEF QueueInv
<1>3. AttemptHandedOutOnce' /\ NeverInBoth' /\ NoJobLost' /\ ChainNeverStalls'
  BY AttemptStep, BothStep, LostStep, ChainStep DEF QueueInv
<1> QED BY <1>1, <1>2, <1>3 DEF QueueInv

\* For any number of workers, jobs, retries and faults, on a database that does
\* not reuse row ids: no attempt is handed to two workers, no dead-lettered row
\* is still on the queue, no pushed job disappears, and a chain loses its tail
\* only to a fault between the delete and the push.
THEOREM QueueSafety ==
  ASSUME ~ ReuseIds
  PROVE  Spec => [](TypeOK /\ AttemptHandedOutOnce /\ NeverInBoth
                      /\ NoJobLost /\ ChainNeverStalls)
<1>1. Init => QueueInv
  BY QueueInit
<1>2. QueueInv /\ [Next]_vars => QueueInv'
  BY QueueStep
<1>3. QueueInv => /\ TypeOK /\ AttemptHandedOutOnce /\ NeverInBoth
                  /\ NoJobLost /\ ChainNeverStalls
  BY DEF QueueInv
<1> QED BY <1>1, <1>2, <1>3, PTL DEF Spec

\* `reserve' never gives two workers one attempt of a row.
THEOREM ReserveIsExclusive == ASSUME ~ ReuseIds PROVE Spec => []AttemptHandedOutOnce
BY QueueSafety, PTL

\* A step that succeeded has its successor pushed, or will have: `process' loses
\* the tail of a chain only to a fault between the delete and the push.
THEOREM ChainsContinue == ASSUME ~ ReuseIds PROVE Spec => []ChainNeverStalls
BY QueueSafety, PTL
-----------------------------------------------------------------------------
(* Exclusive leases, when no worker outlives its own.                       *)

Acting == {"commit", "running", "delete", "release", "fail"}

\* The lease of a busy worker has not run out, and a row in its hands carries
\* its reservation; a reclaim only has rows whose lease has run out.
LeaseOK(w) ==
    /\ stamp[w] <= now
    /\ pc[w] \notin {"idle", "stopped"} => now <= stamp[w] + RetryAfter
    /\ pc[w] = "commit" => jobs[held[w].id].reservedAt = Null
    /\ pc[w] \in Acting \ {"commit"} /\ Present(held[w].id)
          => jobs[held[w].id].reservedAt = stamp[w]
    /\ pc[w] = "unlock" => \A i \in locks[w] :
          jobs[i].reservedAt # Null /\ jobs[i].reservedAt + RetryAfter < stamp[w]

SoleHolder ==
    \A v, w \in Workers :
        v # w /\ pc[v] \in Acting /\ pc[w] \in Acting => held[v].id # held[w].id

LeaseInv == (\A w \in Workers : LeaseOK(w)) /\ SoleHolder

LEMMA SoleStep ==
  ASSUME ~ ReuseIds, TypeOK, LockInv, HoldInv, LeaseInv, [Next]_vars, HoldInv'
  PROVE  SoleHolder'
<1> SUFFICES ASSUME NEW v \in Workers, NEW w \in Workers, v # w,
                    pc'[v] \in Acting, pc'[w] \in Acting
             PROVE  held'[v].id # held'[w].id
  BY DEF SoleHolder
<1>0. held'[v] # Null /\ held'[w] # Null
  BY DEF HoldInv, HoldOK, Holding, Acting
<1>1. ASSUME NEW x \in Workers, NEW y \in Workers, x # y, ReserveSelect(x), pc'[y] \in Acting
      PROVE  held'[x].id # held'[y].id
  <2>1. pc'[y] = pc[y] /\ held'[y] = held[y]
    BY <1>1 DEF ReserveSelect, TypeOK
  <2>2. PICK i \in Ids : /\ IsFirstAvailable(i, stamp[x])
                         /\ held' = [held EXCEPT ![x] = [id |-> i, job |-> jobs[i].job,
                                                         attempts |-> jobs[i].attempts + 1]]
    BY <1>1 DEF ReserveSelect
  <2>3. held'[x].id = i
    BY <2>2 DEF TypeOK
  <2>4. Present(i) /\ i \notin Locked /\ jobs[i].reservedAt = Null
    BY <2>2 DEF IsFirstAvailable, Available
  <2>5. held[y].id # i
    <3>1. CASE pc[y] = "commit"
      BY <2>4, <3>1 DEF HoldInv, HoldOK, Locked
    <3>2. CASE pc[y] # "commit"
      BY <1>1, <2>1, <2>4, <3>2, QueueConstants DEF LeaseInv, LeaseOK, TypeOK
    <3> QED BY <3>1, <3>2
  <2> QED BY <2>1, <2>3, <2>5
\* Without a locking read of its own, an acting worker was acting before.
<1>2. ASSUME NEW x \in Workers, pc'[x] \in Acting, ~ ReserveSelect(x)
      PROVE  pc[x] \in Acting /\ held'[x] = held[x]
  <2>1. held'[x] # Null
    BY <1>2 DEF HoldInv, HoldOK, Holding, Acting
  <2>2. held'[x] = held[x]
    BY <1>2, <2>1, HandsChange
  <2>3. pc[x] \in Holding
    BY <2>1, <2>2 DEF HoldInv, HoldOK
  <2>4. pc[x] # "push"
    <3>1. ASSUME pc[x] = "push", NEW y \in Workers, WorkerStep(y) \/ Interrupt(y)
          PROVE  pc'[x] \in {"push", "idle"}
      BY <3>1 DEF TypeOK, WorkerStep, Poll, ReserveSelect, ReserveNone, ReserveCommit,
           ReclaimSelect, ReclaimCommit, HandlerOk, HandlerErr, Delete, PushNext, Release,
           Fail, Settled, Interrupt
    <3> QED BY <1>2, <3>1 DEF Acting, Next, vars, worker, Dispatch, Clear, Signal, Tick
  <2> QED BY <2>2, <2>3, <2>4 DEF Holding, Acting
<1> QED BY <1>1, <1>2 DEF LeaseInv, SoleHolder

LEMMA LeaseStep ==
  ASSUME ~ ReuseIds, Prompt, TypeOK, LockInv, HoldInv, IdInv, LeaseInv, [Next]_vars,
         NEW v \in Workers
  PROVE  LeaseOK(v)'
<1> USE DEF table, worker
<1>0. /\ LeaseOK(v) /\ stamp[v] \in Nat /\ now \in Nat /\ RetryAfter \in Nat
      /\ pc[v] \in Acting => held[v].id \in Ids /\ held[v].id <= lastId
  BY HeldType, QueueConstants DEF LeaseInv, TypeOK, Holding, Acting, HoldInv, HoldOK, IdInv
\* v stands still and nobody writes reserved_at of a row it holds or has locked.
<1>1. ASSUME pc'[v] = pc[v], held'[v] = held[v], locks'[v] = locks[v], stamp'[v] = stamp[v],
             now' = now,
             pc[v] \in Acting /\ jobs'[held[v].id] # Null
                => jobs[held[v].id] # Null /\ jobs'[held[v].id].reservedAt = jobs[held[v].id].reservedAt
      PROVE  LeaseOK(v)'
  <2>1. \A i \in locks[v] : jobs'[i] = jobs[i]
    BY <1>1, LockedRowsKept
  <2>2. pc[v] = "commit" => held[v].id \in locks[v]
    BY DEF HoldInv, HoldOK
  <2> QED BY <1>0, <1>1, <2>1, <2>2 DEF LeaseOK, Acting, Present
<1>2. ASSUME UNCHANGED <<now, jobs, worker>> PROVE LeaseOK(v)'
  BY <1>1, <1>2
<1>3. ASSUME NEW j, push(j), UNCHANGED now,
             pc'[v] = pc[v], held'[v] = held[v], locks'[v] = locks[v], stamp'[v] = stamp[v]
      PROVE  LeaseOK(v)'
  <2>1. jobs' = [jobs EXCEPT ![lastId + 1] = NewRow(j)]
    BY <1>3, NextIdFresh DEF push
  <2>2. pc[v] \in Acting => jobs'[held[v].id] = jobs[held[v].id]
    BY <1>0, <2>1 DEF TypeOK, Ids
  <2> QED BY <1>1, <1>3, <2>2
<1>4. ASSUME NEW w \in Workers, w # v, WorkerStep(w) \/ Interrupt(w) PROVE LeaseOK(v)'
  <2>1. /\ pc'[v] = pc[v] /\ held'[v] = held[v] /\ locks'[v] = locks[v]
        /\ stamp'[v] = stamp[v] /\ now' = now
    BY <1>4 DEF TypeOK, WorkerStep, Poll, ReserveSelect, ReserveNone, ReserveCommit,
         ReclaimSelect, ReclaimCommit, HandlerOk, HandlerErr, Delete, PushNext, Release,
         Fail, Settled, Interrupt
  <2>2. ASSUME pc[v] \in Acting, pc[w] \in Acting PROVE held[v].id # held[w].id
    BY <1>4, <2>2 DEF LeaseInv, SoleHolder
  <2>3. CASE ReserveCommit(w) \/ Delete(w) \/ Release(w) \/ Fail(w)
    <3>1. pc[w] \in Acting
      BY <2>3 DEF ReserveCommit, Delete, Release, Fail, Acting
    <3>2. \A i \in Ids : i # held[w].id => jobs'[i] = jobs[i]
      BY <2>3 DEF ReserveCommit, Delete, Release, Fail, TypeOK
    <3> QED BY <1>0, <1>1, <2>1, <2>2, <3>1, <3>2
  <2>4. CASE ReclaimCommit(w)
    <3>1. ASSUME pc[v] \in Acting, held[v].id \in locks[w] PROVE FALSE
      <4>1. pc[v] # "commit"
        BY <1>4, <3>1 DEF HoldInv, HoldOK, LockInv
      <4>2. Present(held[v].id) /\ jobs[held[v].id].reservedAt = stamp[v]
        BY <1>0, <3>1, <4>1 DEF LeaseOK, LockInv, Acting
      <4>3. stamp[v] + RetryAfter < stamp[w] /\ stamp[w] <= now /\ stamp[w] \in Nat
        BY <2>4, <3>1, <4>2 DEF ReclaimCommit, LeaseInv, LeaseOK, TypeOK
      <4>4. now <= stamp[v] + RetryAfter
        BY <1>0, <3>1 DEF LeaseOK, Acting
      <4> QED BY <1>0, <4>3, <4>4
    <3>2. pc[v] \in Acting => jobs'[held[v].id] = jobs[held[v].id]
      BY <1>0, <2>4, <3>1 DEF ReclaimCommit
    <3> QED BY <1>1, <2>1, <3>2
  <2>5. CASE PushNext(w)
    BY <1>3, <2>1, <2>5 DEF PushNext
  <2>6. CASE UNCHANGED jobs
    BY <1>1, <2>1, <2>6
  <2> QED BY <1>4, <2>3, <2>4, <2>5, <2>6
          DEF WorkerStep, Poll, ReserveSelect, ReserveNone, ReclaimSelect, HandlerOk,
              HandlerErr, Interrupt
<1>5. ASSUME Poll(v) \/ ReserveNone(v) PROVE LeaseOK(v)'
  BY <1>0, <1>5 DEF Poll, ReserveNone, LeaseOK, TypeOK, Acting
<1>6. ASSUME ReserveSelect(v) PROVE LeaseOK(v)'
  <2>1. PICK i \in Ids : /\ IsFirstAvailable(i, stamp[v])
                         /\ held' = [held EXCEPT ![v] = [id |-> i, job |-> jobs[i].job,
                                                         attempts |-> jobs[i].attempts + 1]]
    BY <1>6 DEF ReserveSelect
  <2>2. held'[v].id = i /\ jobs[i].reservedAt = Null /\ jobs' = jobs /\ pc'[v] = "commit"
        /\ stamp' = stamp /\ now' = now /\ pc[v] \in {"select", "reselect"}
    BY <1>6, <2>1 DEF ReserveSelect, IsFirstAvailable, Available, TypeOK
  <2> QED BY <1>0, <2>2 DEF LeaseOK, Acting
<1>7. ASSUME ReserveCommit(v) PROVE LeaseOK(v)'
  <2>1. /\ jobs'[held[v].id] = Reserved(jobs[held[v].id], held[v].attempts, stamp[v])
        /\ held' = held /\ pc'[v] = "running" /\ stamp' = stamp /\ now' = now /\ pc[v] = "commit"
    BY <1>0, <1>7 DEF ReserveCommit, TypeOK, Acting
  <2>2. jobs'[held[v].id].reservedAt = stamp[v]
    BY <2>1 DEF Reserved
  <2> QED BY <1>0, <2>1, <2>2 DEF LeaseOK, Acting
<1>8. ASSUME ReclaimSelect(v) PROVE LeaseOK(v)'
  <2>1. \A i \in Orphans(stamp[v]) :
          jobs[i].reservedAt # Null /\ jobs[i].reservedAt + RetryAfter < stamp[v]
    BY DEF Orphans, Expired
  <2>2. /\ locks'[v] = Orphans(stamp[v]) /\ pc'[v] \in {"idle", "unlock"} /\ jobs' = jobs
        /\ stamp' = stamp /\ now' = now /\ pc[v] = "reclaim"
    BY <1>8 DEF ReclaimSelect, TypeOK
  <2> QED BY <1>0, <2>1, <2>2 DEF LeaseOK, Acting
<1>9. ASSUME ReclaimCommit(v) PROVE LeaseOK(v)'
  BY <1>0, <1>9 DEF ReclaimCommit, LeaseOK, TypeOK, Acting
<1>10. ASSUME HandlerOk(v) \/ HandlerErr(v) PROVE LeaseOK(v)'
  BY <1>0, <1>10 DEF HandlerOk, HandlerErr, LeaseOK, TypeOK, Acting, Present
<1>11. ASSUME Delete(v) \/ PushNext(v) \/ Release(v) \/ Fail(v) \/ Interrupt(v) PROVE LeaseOK(v)'
  <2>1. pc'[v] \in {"idle", "push"} /\ stamp' = stamp /\ now' = now /\ pc[v] \notin {"idle", "stopped"}
    BY <1>11 DEF Delete, PushNext, Release, Fail, Settled, Interrupt, TypeOK
  <2> QED BY <1>0, <2>1 DEF LeaseOK, Acting
<1>12. ASSUME NEW c \in Chains, Dispatch(c) PROVE LeaseOK(v)'
  BY <1>3, <1>12 DEF Dispatch
<1>13. ASSUME Clear PROVE LeaseOK(v)'
  <2>1. pc[v] \in Acting => jobs'[held[v].id] = Null
    BY <1>0, <1>13 DEF Clear
  <2> QED BY <1>1, <1>13, <2>1 DEF Clear
<1>14. ASSUME Tick PROVE LeaseOK(v)'
  <2>1. now' = now + 1 /\ UNCHANGED <<jobs, worker>>
        /\ (pc[v] \notin {"idle", "stopped"} => now < stamp[v] + RetryAfter)
    BY <1>14 DEF Tick
  <2> QED BY <1>0, <2>1 DEF LeaseOK, Acting, Present
<1> QED
  BY <1>2, <1>4, <1>5, <1>6, <1>7, <1>8, <1>9, <1>10, <1>11, <1>12, <1>13, <1>14
  DEF Next, WorkerStep, Signal, vars

LEMMA LeaseInit == ASSUME Init PROVE LeaseInv
<1>1. \A w \in Workers : LeaseOK(w)
  BY QueueConstants DEF Init, LeaseOK, Acting
<1>2. SoleHolder
  BY DEF Init, SoleHolder, Acting
<1> QED BY <1>1, <1>2 DEF LeaseInv

LEMMA LeaseInvStep ==
  ASSUME ~ ReuseIds, Prompt, QueueInv, LeaseInv, [Next]_vars
  PROVE  LeaseInv'
<1>1. QueueInv'
  BY QueueStep
<1>2. \A v \in Workers : LeaseOK(v)'
  BY LeaseStep DEF QueueInv
<1>3. SoleHolder'
  BY <1>1, SoleStep DEF QueueInv
<1> QED BY <1>2, <1>3 DEF LeaseInv

\* When no worker holds a job for longer than its lease, a row has at most one
\* live holder, for any number of workers, jobs and faults: the doc's "no row is
\* ever handed out twice" holds under exactly that condition.
THEOREM PromptExclusive ==
  ASSUME ~ ReuseIds, Prompt
  PROVE  Spec => []LeaseExclusive
<1>1. Init => QueueInv /\ LeaseInv
  BY QueueInit, LeaseInit
<1>2. QueueInv /\ LeaseInv /\ [Next]_vars => QueueInv' /\ LeaseInv'
  BY QueueStep, LeaseInvStep
<1>3. QueueInv /\ LeaseInv => LeaseExclusive
  BY DEF LeaseInv, SoleHolder, LeaseExclusive, Live, Acting
<1> QED BY <1>1, <1>2, <1>3, PTL DEF Spec
-----------------------------------------------------------------------------
(* A chain advances once, when leases are exclusive.                        *)

\* The row with id i is step j's: it is in the table, or in a worker's hands.
Carries(i, j) ==
    \/ Present(i) /\ jobs[i].job = j
    \/ \E w \in Workers : held[w] # Null /\ held[w].id = i /\ held[w].job = j

\* One push makes one row, and a step is carried by that row alone until its
\* successor is pushed.
CarryInv ==
    /\ \A j \in Job : \A i, k \in Ids : Carries(i, j) /\ Carries(k, j) => i = k
    /\ \A j \in Job : \A i \in Ids : Carries(i, j) => pushes[j] = 1
    /\ \A j \in Job : \A i \in Ids :
          Carries(i, j) /\ HasNext(j) => pushes[next_in_chain(j)] = 0
    /\ \A j \in Job : HasNext(j) /\ pushes[next_in_chain(j)] > 0 => pushes[j] > 0

\* Between its delete and its push a worker has the row's job to itself.
PushAlone(v) ==
    pc[v] = "push" =>
        /\ ~ Present(held[v].id)
        /\ \A w \in Workers : w # v /\ held[w] # Null => held[w].id # held[v].id

PushInv == CarryInv /\ (\A w \in Workers : PushAlone(w)) /\ ChainStepPushedOnce

\* Only a dispatch and the last step of `process' write a new row.
LEMMA Pushing ==
  ASSUME [Next]_vars
  PROVE  \/ pushes' = pushes /\ lastId' = lastId
         \/ \E c \in Chains : Dispatch(c)
         \/ \E w \in Workers : PushNext(w)
  BY DEF Next, WorkerStep, vars, table, history, Poll, ReserveSelect, ReserveNone, ReserveCommit,
       ReclaimSelect, ReclaimCommit, HandlerOk, HandlerErr, Delete, Release, Fail, Interrupt,
       Clear, Signal, Tick

LEMMA CarriersKept ==
  ASSUME ~ ReuseIds, QueueInv, QueueInv', [Next]_vars, lastId' = lastId,
         NEW j \in Job, NEW i \in Ids, Carries(i, j)'
  PROVE  Carries(i, j)
<1>1. CASE Present(i)' /\ jobs'[i].job = j
  <2>1. i <= lastId
    BY <1>1 DEF QueueInv, IdInv
  <2> QED BY <1>1, <2>1, RowsGrow DEF QueueInv, Grown, Carries
<1>2. ASSUME NEW w \in Workers, held'[w] # Null, held'[w].id = i, held'[w].job = j
      PROVE  Carries(i, j)
  <2>1. CASE held'[w] = held[w]
    BY <1>2, <2>1 DEF Carries
  <2>2. CASE ReserveSelect(w)
    BY <1>2, <2>2, Reservation DEF Carries, QueueInv
  <2> QED BY <1>2, <2>1, <2>2, HandsChange DEF QueueInv
<1> QED BY <1>1, <1>2 DEF Carries

\* A push adds one carrier, of the step it pushes.
LEMMA CarrierPushed ==
  ASSUME ~ ReuseIds, QueueInv, NEW n \in Job, push(n),
         \A w \in Workers : held'[w] = held[w] \/ held'[w] = Null,
         NEW j \in Job, NEW i \in Ids, Carries(i, j)'
  PROVE  Carries(i, j) \/ (j = n /\ i = lastId + 1)
<1>1. /\ jobs' = [jobs EXCEPT ![lastId + 1] = NewRow(n)] /\ lastId + 1 \in Ids
      /\ jobs \in [Ids -> Row \cup {Null}]
  BY NextIdFresh DEF push, QueueInv, TypeOK
<1>2. CASE Present(i)' /\ jobs'[i].job = j
  <2>1. CASE i = lastId + 1
    BY <1>1, <1>2, <2>1 DEF NewRow
  <2>2. CASE i # lastId + 1
    BY <1>1, <1>2, <2>2 DEF Carries, Present
  <2> QED BY <2>1, <2>2
<1>3. CASE \E w \in Workers : held'[w] # Null /\ held'[w].id = i /\ held'[w].job = j
  BY <1>3 DEF Carries
<1> QED BY <1>2, <1>3 DEF Carries

LEMMA CarriedType ==
  ASSUME QueueInv, NEW w \in Workers, held[w] # Null
  PROVE  held[w].id \in Ids /\ held[w].job \in Job /\ Carries(held[w].id, held[w].job)
<1>1. held[w] \in Hold
  BY DEF QueueInv, TypeOK
<1> QED BY <1>1 DEF Hold, Carries

\* A push of a step that was never pushed, which is not the predecessor of one
\* that was, and whose own predecessor nobody carries any more.
LEMMA PushStep ==
  ASSUME ~ ReuseIds, QueueInv, PushInv, NEW n \in Job, push(n), pushes[n] = 0,
         \A w \in Workers : held'[w] = held[w] \/ held'[w] = Null,
         \A j \in Job : HasNext(j) /\ next_in_chain(j) = n
            => /\ pushes[j] > 0
               /\ \A i \in Ids : ~ Carries(i, j)'
  PROVE  CarryInv' /\ ChainStepPushedOnce'
<1>1. /\ pushes' = [pushes EXCEPT ![n] = pushes[n] + 1] /\ pushes \in [Job -> Nat]
  BY DEF push, QueueInv, TypeOK
<1>2. pushes'[n] = 1 /\ \A j \in Job : j # n => pushes'[j] = pushes[j]
  BY <1>1
<1>3. \A i \in Ids : ~ Carries(i, n)
  BY DEF PushInv, CarryInv
<1>4. \A j \in Job : \A i \in Ids : Carries(i, j)' => Carries(i, j) \/ (j = n /\ i = lastId + 1)
  BY CarrierPushed
<1>5. \A j \in Job : HasNext(j) => next_in_chain(j) \in Job /\ next_in_chain(j) # j
  BY QueueConstants DEF Job, HasNext, next_in_chain
<1>6. pushes[n] = 0 /\ (HasNext(n) => pushes[next_in_chain(n)] = 0)
  BY <1>1, <1>5 DEF PushInv, CarryInv
<1>7. (\A j \in Job : \A i, k \in Ids : Carries(i, j) /\ Carries(k, j) => i = k)'
  BY <1>3, <1>4 DEF PushInv, CarryInv, Ids
<1>8. (\A j \in Job : \A i \in Ids : Carries(i, j) => pushes[j] = 1)'
  BY <1>2, <1>4 DEF PushInv, CarryInv, Ids
<1>9. (\A j \in Job : \A i \in Ids :
          Carries(i, j) /\ HasNext(j) => pushes[next_in_chain(j)] = 0)'
  <2> SUFFICES ASSUME NEW j \in Job, NEW i \in Ids, Carries(i, j)', HasNext(j)
               PROVE  pushes'[next_in_chain(j)] = 0
    BY DEF Ids, Job, HasNext, next_in_chain
  <2>1. next_in_chain(j) # n
    OBVIOUS
  <2>2. pushes'[next_in_chain(j)] = pushes[next_in_chain(j)]
    BY <1>2, <1>5, <2>1
  <2> QED BY <1>4, <1>6, <2>2 DEF PushInv, CarryInv
<1>10. (\A j \in Job : HasNext(j) /\ pushes[next_in_chain(j)] > 0 => pushes[j] > 0)'
  <2> SUFFICES ASSUME NEW j \in Job, HasNext(j), pushes'[next_in_chain(j)] > 0
               PROVE  pushes'[j] > 0
    BY DEF Job, HasNext, next_in_chain
  <2>1. CASE j = n
    BY <1>2, <2>1
  <2>2. CASE j # n /\ next_in_chain(j) = n
    BY <1>2, <2>2
  <2>3. CASE j # n /\ next_in_chain(j) # n
    BY <1>2, <1>5, <2>3 DEF PushInv, CarryInv
  <2> QED BY <2>1, <2>2, <2>3
<1>11. ChainStepPushedOnce'
  BY <1>2 DEF PushInv, ChainStepPushedOnce, Job
<1> QED BY <1>7, <1>8, <1>9, <1>10, <1>11 DEF CarryInv

LEMMA AloneStep ==
  ASSUME ~ ReuseIds, QueueInv, QueueInv', LeaseInv, PushInv, [Next]_vars, NEW v \in Workers
  PROVE  PushAlone(v)'
<1> SUFFICES ASSUME pc'[v] = "push"
             PROVE  /\ jobs'[held'[v].id] = Null
                    /\ \A w \in Workers : w # v /\ held'[w] # Null => held'[w].id # held'[v].id
  BY DEF PushAlone, Present
<1> USE DEF worker, table
<1>1. ASSUME NEW w \in Workers, WorkerStep(w) \/ Interrupt(w), w # v
      PROVE  pc'[v] = pc[v] /\ held'[v] = held[v]
  BY <1>1 DEF QueueInv, TypeOK, WorkerStep, Poll, ReserveSelect, ReserveNone, ReserveCommit,
       ReclaimSelect, ReclaimCommit, HandlerOk, HandlerErr, Delete, PushNext, Release,
       Fail, Settled, Interrupt
<1>2. ASSUME WorkerStep(v) \/ Interrupt(v) PROVE Delete(v) /\ held' = held
  BY <1>2 DEF QueueInv, TypeOK, WorkerStep, Poll, ReserveSelect, ReserveNone, ReserveCommit,
       ReclaimSelect, ReclaimCommit, HandlerOk, HandlerErr, Delete, PushNext, Release,
       Fail, Settled, Interrupt
<1>3. \/ pc[v] = "push" /\ held'[v] = held[v]
      \/ Delete(v) /\ held' = held
  BY <1>1, <1>2 DEF Next, vars, Dispatch, Clear, Signal, Tick
<1>4. held'[v] = held[v] /\ held[v] # Null /\ held[v].id \in Ids /\ held[v].id <= lastId
  BY <1>3, CarriedType DEF QueueInv, HoldInv, HoldOK, Holding, IdInv, Delete
<1>5. CASE pc[v] = "push"
  <2>1. ~ Present(held[v].id)
    BY <1>5 DEF PushInv, PushAlone
  <2>2. ~ Present(held[v].id)'
    BY <1>4, <2>1, RowsGrow DEF QueueInv, Grown
  <2>3. ASSUME NEW w \in Workers, w # v, held'[w] # Null PROVE held'[w].id # held[v].id
    <3>1. CASE held'[w] = held[w]
      BY <1>5, <2>3, <3>1 DEF PushInv, PushAlone
    <3>2. CASE ReserveSelect(w)
      BY <2>1, <3>2, Reservation DEF QueueInv
    <3> QED BY <2>3, <3>1, <3>2, HandsChange DEF QueueInv
  <2> QED BY <1>4, <2>2, <2>3 DEF Present
<1>6. CASE Delete(v) /\ held' = held
  <2>1. jobs'[held[v].id] = Null
    BY <1>4, <1>6 DEF Delete, QueueInv, TypeOK
  <2>2. ASSUME NEW w \in Workers, w # v, held[w] # Null PROVE held[w].id # held[v].id
    <3>1. CASE pc[w] = "push"
      BY <1>4, <2>2, <3>1 DEF PushInv, PushAlone
    <3>2. CASE pc[w] # "push"
      <4>1. pc[w] \in Acting /\ pc[v] \in Acting
        BY <1>6, <2>2, <3>2 DEF QueueInv, HoldInv, HoldOK, Holding, Acting, Delete
      <4> QED BY <2>2, <4>1 DEF LeaseInv, SoleHolder
    <3> QED BY <3>1, <3>2
  <2> QED BY <1>4, <1>6, <2>1, <2>2 DEF Present
<1> QED BY <1>3, <1>5, <1>6

LEMMA PushInvStep ==
  ASSUME ~ ReuseIds, QueueInv, QueueInv', LeaseInv, PushInv, [Next]_vars
  PROVE  PushInv'
<1>1. \A v \in Workers : PushAlone(v)'
  BY AloneStep
<1>2. CASE pushes' = pushes /\ lastId' = lastId
  <2>1. \A j \in Job : \A i \in Ids : Carries(i, j)' => Carries(i, j)
    BY <1>2, CarriersKept
  <2>2. CarryInv'
    BY <1>2, <2>1 DEF PushInv, CarryInv, Job, Ids, HasNext, next_in_chain
  <2> QED BY <1>1, <1>2, <2>2 DEF PushInv, ChainStepPushedOnce, Job
<1>3. ASSUME NEW c \in Chains, Dispatch(c) PROVE PushInv'
  <2>1. <<c, 1>> \in Job /\ push(<<c, 1>>) /\ pushes[<<c, 1>>] = 0 /\ held' = held
    BY <1>3, FirstStep DEF Dispatch, worker
  <2>2. \A j \in Job : next_in_chain(j) # <<c, 1>>
    BY QueueConstants DEF Job, next_in_chain
  <2> QED BY <1>1, <2>1, <2>2, PushStep DEF PushInv
<1>4. ASSUME NEW w \in Workers, PushNext(w) PROVE PushInv'
  <2>0. pc[w] = "push" /\ held[w] # Null /\ held[w].id \in Ids /\ held[w].job \in Job
    BY <1>4, CarriedType DEF PushNext, QueueInv, HoldInv, HoldOK, Holding
  <2>h. PICK h \in Job : h = held[w].job
    BY <2>0
  <2>1. HasNext(h) /\ Carries(held[w].id, h)
    BY <2>0, <2>h, CarriedType DEF QueueInv, HoldInv, HoldOK
  <2>n. PICK n \in Job : n = next_in_chain(h)
    BY <2>0, <2>h, NextStep DEF QueueInv
  <2>2. push(n)
    BY <1>4, <2>h, <2>n DEF PushNext
  <2>3. pushes[n] = 0 /\ pushes[h] = 1
    BY <2>0, <2>1, <2>n DEF PushInv, CarryInv
  <2>4. held' = [held EXCEPT ![w] = Null] /\ held \in [Workers -> Hold \cup {Null}]
    BY <1>4 DEF PushNext, Settled, QueueInv, TypeOK
  <2>5. \A j \in Job : next_in_chain(j) = n => j = h
    BY <2>n DEF Job, next_in_chain
  <2>6. ASSUME NEW i \in Ids, Carries(i, h)' PROVE FALSE
    <3>1. h # n
      BY <2>n DEF Job, next_in_chain
    <3>2. Carries(i, h)
      <4>1. \A v \in Workers : held'[v] = held[v] \/ held'[v] = Null
        BY <2>4
      <4> QED BY <2>2, <2>6, <3>1, <4>1, CarrierPushed
    <3>3. i = held[w].id
      BY <2>0, <2>1, <3>2 DEF PushInv, CarryInv
    <3>4. ~ Present(i) /\ i <= lastId
      BY <2>0, <3>3 DEF PushInv, PushAlone, QueueInv, IdInv
    <3>5. ~ Present(i)'
      BY <3>4, RowsGrow DEF QueueInv, Grown
    <3>6. PICK v \in Workers : held'[v] # Null /\ held'[v].id = i
      BY <2>6, <3>5 DEF Carries
    <3>7. v # w /\ held[v] # Null /\ held[v].id = held[w].id
      BY <2>4, <3>3, <3>6
    <3> QED BY <2>0, <3>7 DEF PushInv, PushAlone
  <2>7. \A v \in Workers : held'[v] = held[v] \/ held'[v] = Null
    BY <2>4
  <2>8. \A j \in Job : HasNext(j) /\ next_in_chain(j) = n
            => /\ pushes[j] > 0
               /\ \A i \in Ids : ~ Carries(i, j)'
    BY <2>3, <2>5, <2>6
  <2>9. CarryInv' /\ ChainStepPushedOnce'
    <3> QED BY <2>2, <2>3, <2>7, <2>8, PushStep
  <2> QED BY <1>1, <2>9 DEF PushInv
<1> QED BY <1>2, <1>3, <1>4, Pushing

\* When no worker outlives its lease, every step of every chain is put on the
\* queue at most once, whatever faults make its predecessor run again: `process'
\* deletes the row before it pushes, and no other worker has the row by then.
THEOREM PromptPushesOnce ==
  ASSUME ~ ReuseIds, Prompt
  PROVE  Spec => []ChainStepPushedOnce
<1>1. Init => QueueInv /\ LeaseInv /\ PushInv
  <2> SUFFICES ASSUME Init PROVE PushInv
    BY LeaseInit, QueueInit
  <2>1. \A j \in Job : \A i \in Ids : ~ Carries(i, j)
    BY DEF Init, Carries, Present
  <2>2. \A j \in Job : pushes[j] = 0
    BY DEF Init
  <2>3. \A j \in Job : HasNext(j) => next_in_chain(j) \in Job
    BY QueueConstants DEF Job, HasNext, next_in_chain
  <2>4. CarryInv
    BY <2>1, <2>2, <2>3 DEF CarryInv
  <2> QED BY <2>2, <2>4 DEF Init, PushInv, PushAlone, ChainStepPushedOnce
<1>2. QueueInv /\ LeaseInv /\ PushInv /\ [Next]_vars => QueueInv' /\ LeaseInv' /\ PushInv'
  BY QueueStep, LeaseInvStep, PushInvStep
<1>3. PushInv => ChainStepPushedOnce
  BY DEF PushInv
<1> QED BY <1>1, <1>2, <1>3, PTL DEF Spec

-----------------------------------------------------------------------------
(* The database driver implements the contract of the Queue trait, for any  *)
(* number of workers, jobs and faults, on a database that does not reuse    *)
(* row ids.  Every step of DatabaseQueue is a step of QueueContract under   *)
(* the mapping of its module, or changes nothing the contract sees.         *)
(* QueueInv is what makes a commit hand out exactly the next attempt, and a *)
(* push use an id that nobody has.                                          *)

\* What the contract sees of a row.
Entry(i) == IF Present(i) THEN jobs[i].attempts ELSE Null

LEMMA ContractInit == Init => Contract!Init
BY QueueConstants DEF Init, Contract!Init, Present, Ids

\* A step that leaves every row's attempts alone, and the dead letters, is a stutter.
LEMMA Unseen ==
    ASSUME \A i \in Ids : Entry(i)' = Entry(i), lastId' = lastId, failed' = failed
    PROVE  UNCHANGED Contract!vars
BY DEF Contract!vars, Entry, Present, Ids

LEMMA PushSeen ==
    ASSUME ~ ReuseIds, QueueInv, NEW j \in Job, push(j), failed' = failed
    PROVE  Contract!Next
<1>1. lastId + 1 \in Ids /\ lastId' = lastId + 1 /\ jobs' = [jobs EXCEPT ![lastId + 1] = NewRow(j)]
  BY NextIdFresh DEF push
<1>2. TypeOK /\ lastId \in Nat /\ NewRow(j) # Null /\ NewRow(j).attempts = 0
  <2>1. TypeOK
    BY DEF QueueInv
  <2>2. lastId \in Nat
    BY <2>1, QueueConstants DEF TypeOK
  <2>3. NewRow(j) # Null
    BY <2>1, RowsWritten
  <2> QED
    BY <2>1, <2>2, <2>3 DEF NewRow
<1>3. \A i \in Ids : Entry(i)' = IF i = lastId + 1 THEN 0 ELSE Entry(i)
  BY <1>1, <1>2 DEF Entry, Present, TypeOK
<1>4. 1 .. lastId' = (1 .. lastId) \cup {lastId + 1} /\ lastId + 1 \notin 1 .. lastId
  BY <1>1, <1>2
<1>5. PICK n \in Ids : n = lastId + 1
  BY <1>1
<1>6. Contract!Push(n)
  BY <1>1, <1>3, <1>4, <1>5 DEF Contract!Push, Entry, Present
<1>7. Contract!Push(n) => Contract!Next
  BY Zenon DEF Contract!Next
<1> QED
  BY <1>6, <1>7

\* The commit of `reserve' hands out the attempt after the one in the row.
LEMMA CommitSeen ==
    ASSUME QueueInv, NEW w \in Workers, ReserveCommit(w)
    PROVE  Contract!Next
<1>1. TypeOK /\ HoldInv /\ LockInv /\ pc[w] = "commit"
  BY DEF QueueInv, ReserveCommit
<1>2. PICK n \in Ids : n = held[w].id
  BY <1>1, HeldType DEF Holding
<1>3. jobs[n] \in Row /\ held[w].attempts = jobs[n].attempts + 1 /\ held[w].attempts \in Nat
  BY <1>1, <1>2, HeldType DEF Holding, HoldInv, HoldOK
<1>4. jobs' = [jobs EXCEPT ![n] = Reserved(jobs[n], held[w].attempts, stamp[w])]
      /\ lastId' = lastId /\ failed' = failed
  BY <1>2 DEF ReserveCommit
<1>5. Reserved(jobs[n], held[w].attempts, stamp[w]) # Null
  BY <1>1, <1>3, RowsWritten DEF TypeOK
<1>6. Entry(n) = jobs[n].attempts /\ jobs[n].attempts \in Nat /\ Entry(n) # Null
  BY <1>3, QueueConstants DEF Entry, Present, Row
<1>7. \A i \in Ids : Entry(i)' = IF i = n THEN Entry(n) + 1 ELSE Entry(i)
  BY <1>1, <1>3, <1>4, <1>5, <1>6 DEF Entry, Present, TypeOK, Reserved
<1>8. Contract!Pop(n)
  BY <1>4, <1>6, <1>7 DEF Contract!Pop, Entry, Present
<1>9. Contract!Pop(n) => Contract!Next
  BY Zenon DEF Contract!Next
<1> QED
  BY <1>8, <1>9

\* A row is taken out by its id, whether it is there or not.
LEMMA DeleteSeen ==
    ASSUME TypeOK, NEW n \in Ids, jobs' = [jobs EXCEPT ![n] = Null],
           lastId' = lastId, failed' = failed
    PROVE  Contract!Next
<1>1. \A i \in Ids : Entry(i)' = IF i = n THEN Null ELSE Entry(i)
  BY DEF Entry, Present, TypeOK
<1>2. Contract!Delete(n)
  BY <1>1 DEF Contract!Delete, Entry, Present
<1>3. Contract!Delete(n) => Contract!Next
  BY Zenon DEF Contract!Next
<1> QED
  BY <1>2, <1>3

LEMMA FailSeen ==
    ASSUME QueueInv, NEW w \in Workers, Fail(w)
    PROVE  Contract!Next
<1>1. TypeOK /\ HoldInv /\ LockInv /\ IdInv /\ pc[w] = "fail"
  BY DEF QueueInv, Fail
<1>2. held[w] \in Hold /\ held[w].id \in Ids /\ held[w].id \in 1 .. lastId
  <2>1. held[w] \in Hold /\ held[w].id \in Ids /\ held[w] # Null
    BY <1>1, HeldType, QueueConstants DEF Holding
  <2> QED
    BY <1>1, <2>1, QueueConstants DEF IdInv, Ids, TypeOK
<1>3. PICK n \in Ids : n = held[w].id
  BY <1>2
<1>4. jobs' = [jobs EXCEPT ![n] = Null] /\ lastId' = lastId /\ failed' = Append(failed, held[w])
  BY <1>3 DEF Fail
<1>5. \A i \in Ids : Entry(i)' = IF i = n THEN Null ELSE Entry(i)
  BY <1>1, <1>4 DEF Entry, Present, TypeOK
<1>6. {failed'[k].id : k \in DOMAIN failed'} = {failed[k].id : k \in DOMAIN failed} \cup {n}
  <2>1. failed \in Seq(Hold) /\ Len(failed) \in Nat /\ DOMAIN failed = 1 .. Len(failed)
    BY <1>1 DEF TypeOK
  <2>2. DOMAIN failed' = 1 .. Len(failed) + 1
    BY <1>2, <1>4, <2>1
  <2>3. \A k \in 1 .. Len(failed) : failed'[k] = failed[k]
    BY <1>2, <1>4, <2>1
  <2>4. failed'[Len(failed) + 1] = held[w]
    BY <1>2, <1>4, <2>1
  <2>5. 1 .. Len(failed) + 1 = (1 .. Len(failed)) \cup {Len(failed) + 1}
    BY <2>1
  <2> QED
    BY <1>3, <2>1, <2>2, <2>3, <2>4, <2>5
<1>7. Contract!Fail(n)
  <2>1. [i \in Ids |-> Entry(i)]' = [[i \in Ids |-> Entry(i)] EXCEPT ![n] = Null]
    BY <1>5
  <2> QED
    BY <1>2, <1>3, <1>4, <1>6, <2>1 DEF Contract!Fail, Entry, Present
<1>8. Contract!Fail(n) => Contract!Next
  BY Zenon DEF Contract!Next
<1> QED
  BY <1>7, <1>8

LEMMA ClearSeen == ASSUME Clear PROVE Contract!Next
<1>1. \A i \in Ids : Entry(i)' = Null
  BY DEF Clear, Entry, Present
<1>2. lastId' = lastId /\ failed' = failed
  BY DEF Clear
<1>3. PICK gone \in SUBSET Ids : gone = Ids
  OBVIOUS
<1>4. Contract!Clear(gone)
  BY <1>1, <1>2, <1>3 DEF Contract!Clear, Entry, Present
<1>5. Contract!Clear(gone) => Contract!Next
  BY Zenon DEF Contract!Next
<1> QED
  BY <1>4, <1>5

\* The two updates that reopen a row keep its attempts.
LEMMA ReopenSeen ==
    ASSUME QueueInv, NEW w \in Workers, ReclaimCommit(w) \/ Release(w)
    PROVE  UNCHANGED Contract!vars
<1>1. TypeOK /\ LockInv /\ HoldInv
  BY DEF QueueInv
<1>2. lastId' = lastId /\ failed' = failed
  BY DEF ReclaimCommit, Release
<1>3. \A r \in Row, t \in Int : Reopened(r, t) # Null /\ Reopened(r, t).attempts = r.attempts
  BY <1>1, RowsWritten DEF Reopened
<1>4. CASE ReclaimCommit(w)
  <2>1. \A i \in locks[w] : jobs[i] \in Row /\ i \in Ids
    BY <1>1 DEF LockInv, Present, TypeOK
  <2>2. stamp[w] \in Int
    BY <1>1 DEF TypeOK
  <2>3. \A i \in Ids : Entry(i)' = Entry(i)
    BY <1>3, <1>4, <2>1, <2>2, QueueConstants DEF ReclaimCommit, Entry, Present
  <2> QED
    BY <1>2, <2>3, Unseen
<1>5. CASE Release(w)
  <2>1. pc[w] = "release" /\ held[w].id \in Ids /\ held[w].attempts \in Nat
    BY <1>1, <1>5, HeldType DEF Release, Holding
  <2>2. now + backoff(held[w].attempts) \in Int
    <3>1. now \in Int
      BY <1>1, QueueConstants DEF TypeOK
    <3>2. backoff(held[w].attempts) \in Int
      BY <2>1, BackoffType
    <3> QED
      BY <3>1, <3>2
  <2>3. \A i \in Ids : Entry(i)' = Entry(i)
    BY <1>1, <1>3, <1>5, <2>1, <2>2, QueueConstants DEF Release, Entry, Present, TypeOK
  <2> QED
    BY <1>2, <2>3, Unseen
<1> QED
  BY <1>4, <1>5

\* Every other step leaves the tables alone.
LEMMA TablesKept == ASSUME jobs' = jobs, lastId' = lastId, failed' = failed
                    PROVE  UNCHANGED Contract!vars
BY DEF Contract!vars, Present

LEMMA ContractStep ==
    ASSUME ~ ReuseIds, QueueInv, [Next]_vars
    PROVE  [Contract!Next]_(Contract!vars)
<1>1. ASSUME NEW c \in Chains, Dispatch(c) PROVE Contract!Next
  BY <1>1, FirstStep, PushSeen DEF Dispatch
<1>2. ASSUME NEW w \in Workers, ReserveCommit(w) PROVE Contract!Next
  BY <1>2, CommitSeen
<1>3. ASSUME NEW w \in Workers, Delete(w) PROVE Contract!Next
  <2>1. held[w].id \in Ids /\ TypeOK
    BY <1>3, HeldType DEF QueueInv, Delete, Holding
  <2> QED
    BY <1>3, <2>1, DeleteSeen DEF Delete
<1>4. ASSUME NEW w \in Workers, PushNext(w) PROVE Contract!Next
  <2>1. next_in_chain(held[w].job) \in Job
    BY <1>4, NextStep DEF QueueInv, PushNext
  <2> QED
    BY <1>4, <2>1, PushSeen DEF PushNext
<1>5. ASSUME NEW w \in Workers, Fail(w) PROVE Contract!Next
  BY <1>5, FailSeen
<1>6. ASSUME Clear PROVE Contract!Next
  BY <1>6, ClearSeen
<1>7. ASSUME NEW w \in Workers, ReclaimCommit(w) \/ Release(w)
      PROVE  UNCHANGED Contract!vars
  BY <1>7, ReopenSeen
<1>8. ASSUME NEW w \in Workers,
             \/ Poll(w) \/ ReserveSelect(w) \/ ReserveNone(w) \/ ReclaimSelect(w)
             \/ HandlerOk(w) \/ HandlerErr(w) \/ Interrupt(w)
      PROVE  UNCHANGED Contract!vars
  <2>1. jobs' = jobs /\ lastId' = lastId /\ failed' = failed
    BY <1>8 DEF Poll, ReserveSelect, ReserveNone, ReclaimSelect, HandlerOk, HandlerErr,
                Interrupt, table
  <2> QED
    BY <2>1, TablesKept
<1>9. ASSUME Signal \/ Tick \/ UNCHANGED vars PROVE UNCHANGED Contract!vars
  <2>1. jobs' = jobs /\ lastId' = lastId /\ failed' = failed
    BY <1>9 DEF Signal, Tick, vars, table
  <2> QED
    BY <2>1, TablesKept
<1> QED
  BY <1>1, <1>2, <1>3, <1>4, <1>5, <1>6, <1>7, <1>8, <1>9, Zenon DEF Next, WorkerStep
-----------------------------------------------------------------------------
\* The database driver keeps the contract of the Queue trait (queue.rs) for any
\* number of workers, jobs, retries, faults and calls of `clear', on a database
\* that does not reuse row ids: a push returns a fresh id, `pop' hands out each
\* attempt once, and no late settle by id brings back a row that left the table.
THEOREM DriverKeepsContract == ASSUME ~ ReuseIds PROVE Spec => KeepsContract
<1>1. Spec => []QueueInv
  <2>1. Init => QueueInv
    BY QueueInit
  <2>2. QueueInv /\ [Next]_vars => QueueInv'
    BY QueueStep
  <2> QED
    BY <2>1, <2>2, PTL DEF Spec
<1>2. QueueInv /\ [Next]_vars => [Contract!Next]_(Contract!vars)
  BY ContractStep
<1> QED
  BY <1>1, <1>2, ContractInit, PTL DEF Spec, KeepsContract, Contract!Spec
=============================================================================
