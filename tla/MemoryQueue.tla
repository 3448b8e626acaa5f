---------------------------- MODULE MemoryQueue -----------------------------
(***************************************************************************)
(* The in-process queue driver (rustlavel-queue, memory.rs) and the workers *)
(* that drain it (worker.rs).  One mutex guards the list of entries and the *)
(* dead letters; an id comes from an atomic counter before the mutex is     *)
(* taken.  A job in a worker's hands is off the list: the store dies with   *)
(* the process, so there is nobody to recover it for.  Jobs have no chain   *)
(* and no delay here: DatabaseQueue has the chains.                         *)
(***************************************************************************)
EXTENDS Integers, Sequences, FiniteSets, SequencesExt

CONSTANTS
    Workers,
    Jobs,        \* what can be pushed
    MaxTries,    \* Job::tries
    RetryAfter,  \* Job::retry_after, the base of the backoff
    BackoffCap,  \* WorkerOptions::backoff_cap
    MaxId,       \* bound: pushes
    MaxClears,   \* bound: calls of clear and flush_failed
    Null

Ids   == 1 .. MaxId
Entry == [id : Ids, job : Jobs, attempts : 0 .. MaxTries, availableAt : Int]

ASSUME MemoryQueueConstants ==
    /\ MaxTries \in Nat \ {0} /\ RetryAfter \in Nat /\ BackoffCap \in Nat
    /\ MaxId \in Nat /\ MaxClears \in Nat
    /\ Null \notin Nat \cup Entry

VARIABLES
    now,     \* unix_now()
    nextId,  \* the counter
    ready,   \* the entries of the queue, in order of insertion
    failed,  \* the dead letters, oldest first
    at,      \* where each worker is: "idle", "running", "release" or "fail"
    held,    \* the entry in its hands, or Null
    clears,
    pushed   \* history: ids whose entry was put on the queue

queueVars == <<nextId, ready, failed, at, held, clears, pushed>>

QueueInit ==
    /\ nextId = 1 /\ ready = <<>> /\ failed = <<>> /\ pushed = {}
    /\ at = [w \in Workers |-> "idle"] /\ held = [w \in Workers |-> Null]
    /\ clears = 0

-----------------------------------------------------------------------------
\* push, first half: the id.
TakeId ==
    /\ nextId \in Ids
    /\ nextId' = nextId + 1
    /\ UNCHANGED <<ready, failed, at, held, clears, pushed>>

\* push, second half: the entry, at the end of the list; it was due when its id
\* was taken.
Enqueue(id, j, due) ==
    /\ ready' = Append(ready, [id |-> id, job |-> j, attempts |-> 0, availableAt |-> due])
    /\ pushed' = pushed \cup {id}
    /\ UNCHANGED <<nextId, failed, at, held, clears>>

\* Mutant: the entry is handed out and left on the list.
PopLeaves(w) ==
    /\ at[w] = "idle"
    /\ \E k \in DOMAIN ready :
        /\ ready[k].availableAt <= now
        /\ \A m \in 1 .. k - 1 : ready[m].availableAt > now
        /\ held' = [held EXCEPT ![w] = [ready[k] EXCEPT !.attempts = @ + 1]]
    /\ at' = [at EXCEPT ![w] = "running"]
    /\ UNCHANGED <<nextId, ready, failed, clears, pushed>>

\* pop: the first entry whose time has come; a delayed one in front of it waits.
Pop(w) ==
    /\ at[w] = "idle"
    /\ \E k \in DOMAIN ready :
        /\ ready[k].availableAt <= now
        /\ \A m \in 1 .. k - 1 : ready[m].availableAt > now
        /\ ready' = RemoveAt(ready, k)
        /\ held' = [held EXCEPT ![w] = [ready[k] EXCEPT !.attempts = @ + 1]]
    /\ at' = [at EXCEPT ![w] = "running"]
    /\ UNCHANGED <<nextId, failed, clears, pushed>>

\* process: the handler returned Ok; delete has nothing left to do.
HandlerOk(w) ==
    /\ at[w] = "running"
    /\ at' = [at EXCEPT ![w] = "idle"]
    /\ held' = [held EXCEPT ![w] = Null]
    /\ UNCHANGED <<nextId, ready, failed, clears, pushed>>

\* process: the handler failed or panicked; the last attempt is dead-lettered.
HandlerErr(w) ==
    /\ at[w] = "running"
    /\ at' = [at EXCEPT ![w] = IF held[w].attempts >= MaxTries THEN "fail" ELSE "release"]
    /\ UNCHANGED <<nextId, ready, failed, held, clears, pushed>>

Backoff(attempts) ==
    LET pause == RetryAfter * 2 ^ (attempts - 1)
    IN  IF pause < BackoffCap THEN pause ELSE BackoffCap

\* release: back at the end of the list, with its attempts and a delay.
Release(w) ==
    /\ at[w] = "release"
    /\ ready' = Append(ready, [held[w] EXCEPT !.availableAt = now + Backoff(held[w].attempts)])
    /\ at' = [at EXCEPT ![w] = "idle"]
    /\ held' = [held EXCEPT ![w] = Null]
    /\ UNCHANGED <<nextId, failed, clears, pushed>>

\* fail: a dead letter.
Fail(w) ==
    /\ at[w] = "fail"
    /\ failed' = Append(failed, held[w])
    /\ at' = [at EXCEPT ![w] = "idle"]
    /\ held' = [held EXCEPT ![w] = Null]
    /\ UNCHANGED <<nextId, ready, clears, pushed>>

\* clear: what is on the list; a job in a worker's hands is not.
Clear ==
    /\ clears < MaxClears /\ ready # <<>>
    /\ ready' = <<>>
    /\ clears' = clears + 1
    /\ UNCHANGED <<nextId, failed, at, held, pushed>>

\* flush_failed: the dead letters.
FlushFailed ==
    /\ clears < MaxClears /\ failed # <<>>
    /\ failed' = <<>>
    /\ clears' = clears + 1
    /\ UNCHANGED <<nextId, ready, at, held, pushed>>

WorkerStep(w) == Pop(w) \/ HandlerOk(w) \/ HandlerErr(w) \/ Release(w) \/ Fail(w)

-----------------------------------------------------------------------------
\* Every variable of the queue holds what its field can hold; no entry is handed out
\* more often than its tries allow.
QueueTypeOK ==
    /\ nextId \in 1 .. MaxId + 1 /\ ready \in Seq(Entry) /\ failed \in Seq(Entry)
    /\ at \in [Workers -> {"idle", "running", "release", "fail"}]
    /\ held \in [Workers -> Entry \cup {Null}]
    /\ clears \in 0 .. MaxClears /\ pushed \subseteq Ids

\* An entry is on the list or in a worker's hands.
Attempts(i) ==
    LET listed == {ready[k] : k \in DOMAIN ready} \cup ({held[w] : w \in Workers} \ {Null})
        mine   == {e \in listed : e.id = i}
    IN  IF mine = {} THEN Null ELSE (CHOOSE e \in mine : TRUE).attempts

\* The entries of the Queue trait's contract.
Contract ==
    INSTANCE QueueContract WITH
        entries <- [i \in Ids |-> Attempts(i)],
        used    <- pushed,
        dead    <- {failed[k].id : k \in DOMAIN failed}

\* The driver keeps the contract every driver keeps: no id is used twice, no
\* attempt handed out twice, and nothing that left the queue comes back.
KeepsContract == Contract!Spec
=============================================================================
