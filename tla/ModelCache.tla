----------------------------- MODULE ModelCache -----------------------------
(***************************************************************************)
(* The second-level cache of rustlavel-model-cache, for one table.          *)
(*                                                                          *)
(* Entities are cached by primary key and dropped by the write that changes *)
(* them.  Results of queries are cached under a fingerprint of the SQL and  *)
(* its bindings, with the SQL, where bindings are placeholders, and the     *)
(* table's generation beside them; a write bumps the generation, which      *)
(* turns every cached result into a miss.                                   *)
(* Nothing is locked: each call to the store and to the database is one     *)
(* step, and the calls of other tasks and processes run between any two.    *)
(*                                                                          *)
(* The contents of a row, or of a result, are the number of the write that  *)
(* made them: version is the table's last write, row[r] the last one that   *)
(* touched r, 0 when there is no such row.                                  *)
(***************************************************************************)
EXTENDS Integers, FiniteSets

CONSTANTS
    Calls,         \* tasks that can be inside the cache at once
    Rows,          \* primary keys
    Queries,       \* statements: an SQL text and its bindings
    Texts,         \* SQL texts
    Text,          \* the SQL text of each statement
    Keys,          \* cache keys of results
    Fingerprint,   \* the key of each statement; two may share one
    Strategies,    \* the regions' strategies to be considered
    None,          \* nothing under a cache key; no row or query in a call
    MaxVersion,    \* bound: writes to the table
    MaxGeneration, \* bound: bumps of the generation
    MaxFlushes,    \* bound: flushes of the shared store
    MaxFaults      \* bound: calls to the store or the database that fail, tasks that die

ASSUME ModelCacheConstants ==
    /\ Text \in [Queries -> Texts] /\ Fingerprint \in [Queries -> Keys]
    /\ Strategies \subseteq {"ReadWrite", "ReadOnly"}
    /\ None \notin Rows \cup Queries
    /\ MaxVersion \in Nat /\ MaxGeneration \in Nat /\ MaxFlushes \in Nat /\ MaxFaults \in Nat

VARIABLES
    strategy,      \* the region's strategy, fixed at startup
    row, version,  \* the database: each row, and the writes so far
    entity,        \* the store: what is under each entity's key
    entry,         \* the store: what is under each key of results
    generation,    \* the store: the table's generation
    call,          \* each task: what it does next and what it has read
    done,          \* history: the last write whose invalidation was finished
    rowDone,       \* history: for each row, the last update or delete that dropped its key
    flushes, faults

database == <<row, version>>
store    == <<entity, entry, generation>>
vars     == <<strategy, database, store, call, done, rowDone, flushes, faults>>

Labels == {"idle", "entity", "select", "putEntity", "generation", "entry", "query", "putEntry",
           "forget", "forgetOnly", "bump", "answer"}

\* A call: its label; the row and the statement it is about; the statement whose
\* rows it holds; the generation it works with (forgotten once it answers) and the
\* version it has read; the last finished write when it began; and whether what it
\* holds was overtaken between its read and its put.
Idle == [at |-> "idle", row |-> None, query |-> None, of |-> None, gen |-> 0, seen |-> 0, floor |-> 0,
         overtaken |-> FALSE]

Set(c, value) == call' = [call EXCEPT ![c] = value]

-----------------------------------------------------------------------------
\* find
Find(c, r) ==
    /\ call[c].at = "idle"
    /\ Set(c, [Idle EXCEPT !.at = "entity", !.row = r, !.floor = rowDone[r]])
    /\ UNCHANGED <<strategy, database, store, done, rowDone, flushes, faults>>

\* The entity's key is read: a hit answers, anything else goes to the database.
ReadEntity(c) ==
    LET hit == entity[call[c].row]
    IN  /\ call[c].at = "entity"
        /\ IF hit # None
           THEN Set(c, [call[c] EXCEPT !.at = "answer", !.seen = hit.seen, !.overtaken = hit.overtaken])
           ELSE Set(c, [call[c] EXCEPT !.at = "select"])
        /\ UNCHANGED <<strategy, database, store, done, rowDone, flushes, faults>>

\* select_one: a row that is not there is not cached; one with a binary column neither.
SelectRow(c) ==
    LET r == call[c].row
    IN  /\ call[c].at = "select"
        /\ \/ row[r] # 0 /\ Set(c, [call[c] EXCEPT !.at = "putEntity", !.seen = row[r]])
           \/ Set(c, Idle)
        /\ UNCHANGED <<strategy, database, store, done, rowDone, flushes, faults>>

PutEntity(c) ==
    /\ call[c].at = "putEntity"
    /\ entity' = [entity EXCEPT ![call[c].row] = [seen |-> call[c].seen, overtaken |-> call[c].overtaken]]
    /\ Set(c, [call[c] EXCEPT !.at = "answer"])
    /\ UNCHANGED <<strategy, database, entry, generation, done, rowDone, flushes, faults>>

-----------------------------------------------------------------------------
\* get
Get(c, q) ==
    /\ call[c].at = "idle"
    /\ Set(c, [Idle EXCEPT !.at = "generation", !.query = q, !.floor = done])
    /\ UNCHANGED <<strategy, database, store, done, rowDone, flushes, faults>>

\* generation: a read-only region does not read it.
ReadGeneration(c) ==
    /\ call[c].at = "generation"
    /\ Set(c, [call[c] EXCEPT !.at = "entry",
                              !.gen = IF strategy = "ReadOnly" THEN 0 ELSE generation])
    /\ UNCHANGED <<strategy, database, store, done, rowDone, flushes, faults>>

\* Mutant: the SQL kept beside the rows is not compared.
UsableByKey(e, query, gen) == e # None /\ e.gen = gen

\* An entry answers a query when it was made by the same SQL, whatever the
\* bindings, and in the generation read.
Usable(e, query, gen) == e # None /\ Text[e.query] = Text[query] /\ e.gen = gen

ReadEntry(c) ==
    LET e == entry[Fingerprint[call[c].query]]
    IN  /\ call[c].at = "entry"
        /\ IF Usable(e, call[c].query, call[c].gen)
           THEN Set(c, [call[c] EXCEPT !.at = "answer", !.gen = 0, !.seen = e.seen, !.of = e.query,
                                       !.overtaken = @ \/ e.overtaken])
           ELSE Set(c, [call[c] EXCEPT !.at = "query"])
        /\ UNCHANGED <<strategy, database, store, done, rowDone, flushes, faults>>

\* The query runs; a result that is too large, or cannot be encoded, is not stored.
RunQuery(c) ==
    /\ call[c].at = "query"
    /\ \/ Set(c, [call[c] EXCEPT !.at = "putEntry", !.seen = version, !.of = call[c].query])
       \/ Set(c, Idle)
    /\ UNCHANGED <<strategy, database, store, done, rowDone, flushes, faults>>

\* Mutant: the entry is labelled with the generation at the time of the put.
PutEntryLate(c) ==
    /\ call[c].at = "putEntry"
    /\ entry' = [entry EXCEPT ![Fingerprint[call[c].query]] =
                    [query |-> call[c].query, gen |-> generation, seen |-> call[c].seen,
                     overtaken |-> call[c].overtaken]]
    /\ Set(c, [call[c] EXCEPT !.at = "answer", !.gen = 0])
    /\ UNCHANGED <<strategy, database, entity, generation, done, rowDone, flushes, faults>>

\* It is stored under the generation read before the query ran.
PutEntry(c) ==
    /\ call[c].at = "putEntry"
    /\ entry' = [entry EXCEPT ![Fingerprint[call[c].query]] =
                    [query |-> call[c].query, gen |-> call[c].gen, seen |-> call[c].seen,
                     overtaken |-> call[c].overtaken]]
    /\ Set(c, [call[c] EXCEPT !.at = "answer", !.gen = 0])
    /\ UNCHANGED <<strategy, database, entity, generation, done, rowDone, flushes, faults>>

\* The call returns what it found.
Answer(c) ==
    /\ call[c].at = "answer"
    /\ Set(c, Idle)
    /\ UNCHANGED <<strategy, database, store, done, rowDone, flushes, faults>>

-----------------------------------------------------------------------------
\* The bound on the generation: the bumps made, and the ones on their way.
Room == generation + Cardinality({d \in Calls : call[d].at \in {"forget", "bump"}}) < MaxGeneration

\* The write itself, by insert, update or delete; what it makes stale is dropped after it.
WriteRow(c, r, to, label) ==
    /\ version < MaxVersion /\ Room
    /\ version' = version + 1
    /\ row' = [row EXCEPT ![r] = to]
    /\ Set(c, [Idle EXCEPT !.at = label, !.row = r, !.seen = version + 1])
    /\ UNCHANGED <<strategy, store, done, rowDone, flushes, faults>>

\* insert: no entity to drop, the generation next.
Insert(c, r) == call[c].at = "idle" /\ row[r] = 0 /\ WriteRow(c, r, version + 1, "bump")

\* update and delete: the entity, then the generation.
Update(c, r) == call[c].at = "idle" /\ row[r] # 0 /\ WriteRow(c, r, version + 1, "forget")
Delete(c, r) == call[c].at = "idle" /\ row[r] # 0 /\ WriteRow(c, r, 0, "forget")

\* forget and invalidate_table called by the application, for a write made elsewhere.
ForgetRow(c, r) ==
    /\ call[c].at = "idle"
    /\ Set(c, [Idle EXCEPT !.at = "forgetOnly", !.row = r])
    /\ UNCHANGED <<strategy, database, store, done, rowDone, flushes, faults>>

InvalidateTable(c) ==
    /\ call[c].at = "idle" /\ Room
    /\ Set(c, [Idle EXCEPT !.at = "bump"])
    /\ UNCHANGED <<strategy, database, store, done, rowDone, flushes, faults>>

Larger(m, n) == IF m < n THEN n ELSE m

\* The calls that hold a row of r read from the database and have not put it yet.
Overtake(r) ==
    [d \in Calls |-> IF call[d].at = "putEntity" /\ call[d].row = r
                     THEN [call[d] EXCEPT !.overtaken = TRUE] ELSE call[d]]

\* forget: the entity's key is dropped.
Forget(c) ==
    LET r == call[c].row
    IN  /\ call[c].at \in {"forget", "forgetOnly"}
        /\ entity' = [entity EXCEPT ![r] = None]
        /\ rowDone' = [rowDone EXCEPT ![r] = Larger(@, call[c].seen)]
        /\ call' = [Overtake(r) EXCEPT
                       ![c] = IF call[c].at = "forget" THEN [call[c] EXCEPT !.at = "bump"] ELSE Idle]
        /\ UNCHANGED <<strategy, database, entry, generation, done, flushes, faults>>

\* invalidate_table: one counter, bumped; not in a read-only region.
Bump(c) ==
    /\ call[c].at = "bump"
    /\ IF strategy = "ReadOnly"
       THEN UNCHANGED <<generation, done>>
       ELSE /\ generation' = generation + 1
            /\ done' = Larger(done, call[c].seen)
    /\ Set(c, Idle)
    /\ UNCHANGED <<strategy, database, entity, entry, rowDone, flushes, faults>>

-----------------------------------------------------------------------------
\* A key leaves the store: its ttl is over, or the application empties the store it
\* shares with this cache and the flush, which clears one shard after the other,
\* each under its own lock, has come to the key's.
ExpireEntity(r) ==
    /\ entity[r] # None
    /\ entity' = [entity EXCEPT ![r] = None]
    /\ UNCHANGED <<strategy, database, entry, generation, call, done, rowDone, flushes, faults>>

ExpireEntry(k) ==
    /\ entry[k] # None
    /\ entry' = [entry EXCEPT ![k] = None]
    /\ UNCHANGED <<strategy, database, entity, generation, call, done, rowDone, flushes, faults>>

\* The flush clears the shard of the generation, which has no ttl: it starts again
\* from 0.  The rest of the store is cleared by the two actions above, before and
\* after: a call that has read the old generation goes on with it, and so does a
\* result whose shard the flush has yet to come to, or that was put behind its back.
FlushGeneration ==
    /\ flushes < MaxFlushes
    /\ generation' = 0
    /\ flushes' = flushes + 1
    /\ entry' = [k \in Keys |-> IF entry[k] = None THEN None ELSE [entry[k] EXCEPT !.overtaken = TRUE]]
    /\ call' = [d \in Calls |-> IF call[d].at \in {"entry", "query", "putEntry"}
                                THEN [call[d] EXCEPT !.overtaken = TRUE] ELSE call[d]]
    /\ UNCHANGED <<strategy, database, entity, done, rowDone, faults>>

\* A call to the store or the database fails, or the task dies.
Fault(c) ==
    /\ call[c].at # "idle" /\ faults < MaxFaults
    /\ Set(c, Idle)
    /\ faults' = faults + 1
    /\ UNCHANGED <<strategy, database, store, done, rowDone, flushes>>

Init ==
    /\ strategy \in Strategies
    /\ row = [r \in Rows |-> 0] /\ version = 0
    /\ entity = [r \in Rows |-> None] /\ entry = [k \in Keys |-> None] /\ generation = 0
    /\ call = [c \in Calls |-> Idle]
    /\ done = 0 /\ rowDone = [r \in Rows |-> 0]
    /\ flushes = 0 /\ faults = 0

Next ==
    \/ \E c \in Calls, r \in Rows : \/ Find(c, r) \/ Insert(c, r) \/ Update(c, r) \/ Delete(c, r)
                                    \/ ForgetRow(c, r)
    \/ \E c \in Calls, q \in Queries : Get(c, q)
    \/ \E c \in Calls : \/ ReadEntity(c) \/ SelectRow(c) \/ PutEntity(c)
                        \/ ReadGeneration(c) \/ ReadEntry(c) \/ RunQuery(c) \/ PutEntry(c)
                        \/ Answer(c) \/ InvalidateTable(c) \/ Forget(c) \/ Bump(c) \/ Fault(c)
    \/ \E r \in Rows : ExpireEntity(r)
    \/ \E k \in Keys : ExpireEntry(k)
    \/ FlushGeneration

Spec == Init /\ [][Next]_vars

-----------------------------------------------------------------------------
\* Every variable holds what its key, its column or its task can hold.
TypeOK ==
    /\ strategy \in {"ReadWrite", "ReadOnly"}
    /\ row \in [Rows -> 0..version] /\ version \in 0..MaxVersion
    /\ entity \in [Rows -> [seen : 1..version, overtaken : BOOLEAN] \cup {None}]
    /\ entry \in [Keys -> [query : Queries, gen : Nat, seen : 0..version, overtaken : BOOLEAN] \cup {None}]
    /\ generation \in Nat
    /\ call \in [Calls -> [at : Labels, row : Rows \cup {None}, query : Queries \cup {None},
                           of : Queries \cup {None}, gen : Nat,
                           seen : 0..version, floor : 0..version, overtaken : BOOLEAN]]
    /\ done \in 0..version /\ rowDone \in [Rows -> 0..version]
    /\ flushes \in 0..MaxFlushes /\ faults \in 0..MaxFaults

\* What a reader would take from the cache is current.  A cached result holds every
\* write whose invalidation was finished: the generation stored with it was read
\* before its rows were, and is bumped after the rows are written; the exception is
\* a result that a flush overtook, in the store or on its way there, by starting
\* the count of generations again.  A cached entity is as new as the last update or
\* delete that dropped its key; the exception is one whose reader was overtaken
\* between its select and its put by such a drop: nothing ties an entity to a
\* generation, so it stays until it expires.
CacheIsCurrent ==
    /\ \A k \in Keys :
           (entry[k] # None /\ entry[k].gen = generation /\ ~entry[k].overtaken) => entry[k].seen >= done
    /\ \A r \in Rows :
           (entity[r] # None /\ ~entity[r].overtaken) => entity[r].seen >= rowDone[r]

\* The statements a query cannot be told from once they share its fingerprint.
Alike(q) == {p \in Queries : Fingerprint[p] = Fingerprint[q] /\ Text[p] = Text[q]}

\* Rows of the statement p answer query q; a find has neither.
Serves(p, q) == IF q = None THEN p = None ELSE p \in Alike(q)

\* What a get answers is of its own SQL even when another SQL has the same
\* fingerprint, so that at most the bindings are another's, and, unless a flush
\* overtook it, holds every write whose bump was finished when the call began.
\* What a find answers is, unless a drop overtook it, as new as the last update or
\* delete of the row whose drop was finished when the call began; an insert drops
\* no key.
AnswersAreCurrent ==
    \A c \in Calls : call[c].at = "answer" =>
        /\ Serves(call[c].of, call[c].query)
        /\ ~call[c].overtaken => call[c].seen >= call[c].floor
=============================================================================
