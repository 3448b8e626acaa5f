------------------------- MODULE ModelCache_proofs -------------------------
(***************************************************************************)
(* Theorems about ModelCache for any number of tasks, rows, statements,     *)
(* keys, writes, flushes and faults.                                        *)
(***************************************************************************)
EXTENDS ModelCache, TLAPS

Finding == {"entity", "select", "putEntity"}
Reading == {"entry", "query", "putEntry"}

Record == [at : Labels, row : Rows \cup {None}, query : Queries \cup {None},
           of : Queries \cup {None}, gen : Nat,
           seen : 0..version, floor : 0..version, overtaken : BOOLEAN]
Entity == [seen : 1..version, overtaken : BOOLEAN]
Entry  == [query : Queries, gen : Nat, seen : 0..version, overtaken : BOOLEAN]

\* A row is as new as the last write that dropped its key; so is what the store
\* has of it, and of the results of the present generation.
StoreOK ==
    /\ strategy = "ReadOnly" => generation = 0
    /\ \A r \in Rows : row[r] # 0 => row[r] >= rowDone[r]
    /\ \A r \in Rows : entity[r] # None /\ ~entity[r].overtaken => entity[r].seen >= rowDone[r]
    /\ \A k \in Keys : entry[k] # None => Fingerprint[entry[k].query] = k
    /\ \A k \in Keys : entry[k] # None /\ ~entry[k].overtaken =>
          entry[k].gen <= generation /\ (entry[k].gen = generation => entry[k].seen >= done)

\* A call that looks for a row: what it has read is as new as the drops of its
\* key up to the select, and up to now unless it was overtaken.
FindOK(c) ==
    call[c].at \in Finding =>
        /\ call[c].row \in Rows /\ call[c].of = None /\ call[c].query = None
        /\ call[c].floor <= rowDone[call[c].row]
        /\ call[c].at = "putEntity" =>
              /\ call[c].seen >= 1 /\ call[c].seen >= call[c].floor
              /\ ~call[c].overtaken => call[c].seen >= rowDone[call[c].row]

\* A call that looks for a result: the generation it has read is not ahead, and
\* while it is the present one no write was finished that its rows lack.
GetOK(c) ==
    call[c].at \in Reading \cup {"generation"} =>
        /\ call[c].query \in Queries /\ call[c].floor <= done
        /\ call[c].at \in Reading /\ ~call[c].overtaken => call[c].gen <= generation
        /\ call[c].at = "putEntry" =>
              /\ call[c].of = call[c].query /\ call[c].seen >= call[c].floor
              /\ ~call[c].overtaken /\ call[c].gen = generation => call[c].seen >= done

\* A write that has yet to drop its key is not newer than the row.
WriteOK(c) ==
    call[c].at \in {"forget", "forgetOnly"} =>
        call[c].row \in Rows /\ (row[call[c].row] = 0 \/ row[call[c].row] >= call[c].seen)

AnswerOK(c) ==
    call[c].at = "answer" =>
        /\ Serves(call[c].of, call[c].query)
        /\ ~call[c].overtaken => call[c].seen >= call[c].floor

CallOK(c) == FindOK(c) /\ GetOK(c) /\ WriteOK(c) /\ AnswerOK(c)

\* A call that is about to read an entry of the generation it has: an entry of
\* that generation, there already or still to be put by another call, is not
\* older than the first call's beginning.
EntryServes(c, k) ==
    (/\ call[c].at = "entry" /\ ~call[c].overtaken
     /\ entry[k] # None /\ ~entry[k].overtaken /\ entry[k].gen = call[c].gen)
    => entry[k].seen >= call[c].floor
PutServes(c, d) ==
    (/\ call[c].at = "entry" /\ ~call[c].overtaken
     /\ call[d].at = "putEntry" /\ ~call[d].overtaken /\ call[d].gen = call[c].gen)
    => call[d].seen >= call[c].floor

CacheInv ==
    /\ TypeOK /\ StoreOK
    /\ \A c \in Calls : CallOK(c)
    /\ \A c \in Calls, k \in Keys : EntryServes(c, k)
    /\ \A c, d \in Calls : PutServes(c, d)
-----------------------------------------------------------------------------
LEMMA Fields ==
  ASSUME TypeOK, NEW c \in Calls
  PROVE  /\ call[c] \in Record /\ call[c].at \in Labels /\ call[c].row \in Rows \cup {None}
         /\ call[c].query \in Queries \cup {None} /\ call[c].of \in Queries \cup {None}
         /\ call[c].gen \in Nat /\ call[c].seen \in 0..version /\ call[c].floor \in 0..version
         /\ call[c].overtaken \in BOOLEAN
<1>1. call[c] \in Record
  BY DEF TypeOK, Record
<1> QED BY <1>1 DEF Record

LEMMA IdleRecord ==
  ASSUME TypeOK
  PROVE  /\ Idle \in Record /\ Idle.at = "idle" /\ Idle.of = None /\ Idle.query = None
         /\ Idle.row = None /\ Idle.seen = 0 /\ Idle.floor = 0 /\ Idle.gen = 0
         /\ Idle.overtaken = FALSE
  BY DEF TypeOK, Idle, Record, Labels

-----------------------------------------------------------------------------
(* Steps that change one call, and what the store has under one key at most. *)

\* What is put into the store fits: a row as new as its last drop; a result that
\* serves whoever has read its generation.
EntitiesFit ==
    /\ entity' \in [Rows -> Entity \cup {None}]
    /\ \A r \in Rows : \/ entity'[r] \in {entity[r], None}
                       \/ ~entity'[r].overtaken => entity'[r].seen >= rowDone[r]
EntryFits(e) ==
    ~e.overtaken =>
        /\ e.gen <= generation /\ (e.gen = generation => e.seen >= done)
        /\ \A d \in Calls : call[d].at = "entry" /\ ~call[d].overtaken /\ e.gen = call[d].gen
              => e.seen >= call[d].floor
EntriesFit ==
    /\ entry' \in [Keys -> Entry \cup {None}]
    /\ \A k \in Keys : \/ entry'[k] \in {entry[k], None}
                       \/ EntryFits(entry'[k]) /\ Fingerprint[entry'[k].query] = k

\* Call c goes from call[c] to v.
Touch(c, v) ==
    /\ Set(c, v) /\ v \in Record
    /\ UNCHANGED <<strategy, database, generation, done, rowDone>>
    /\ flushes' \in 0..MaxFlushes /\ faults' \in 0..MaxFaults
    /\ EntitiesFit /\ EntriesFit /\ (v.at = "entry" => entry' = entry)

\* Likewise, and the store is left alone.
Local(c, v) ==
    /\ Set(c, v) /\ v \in Record
    /\ UNCHANGED <<strategy, database, store, done, rowDone>>
    /\ flushes' \in 0..MaxFlushes /\ faults' \in 0..MaxFaults

\* What the invariant asks of a record, were it call c's.
NewOK(v) ==
    /\ v.at \in Finding =>
          /\ v.row \in Rows /\ v.of = None /\ v.query = None /\ v.floor <= rowDone[v.row]
          /\ v.at = "putEntity" => /\ v.seen >= 1 /\ v.seen >= v.floor
                                   /\ ~v.overtaken => v.seen >= rowDone[v.row]
    /\ v.at \in Reading \cup {"generation"} =>
          /\ v.query \in Queries /\ v.floor <= done
          /\ v.at \in Reading /\ ~v.overtaken => v.gen <= generation
          /\ v.at = "putEntry" => /\ v.of = v.query /\ v.seen >= v.floor
                                  /\ ~v.overtaken /\ v.gen = generation => v.seen >= done
    /\ v.at \in {"forget", "forgetOnly"} =>
          v.row \in Rows /\ (row[v.row] = 0 \/ row[v.row] >= v.seen)
    /\ v.at = "answer" => Serves(v.of, v.query) /\ (~v.overtaken => v.seen >= v.floor)
    /\ v.at = "entry" /\ ~v.overtaken =>
          /\ \A k \in Keys : entry[k] # None /\ ~entry[k].overtaken /\ entry[k].gen = v.gen
                => entry[k].seen >= v.floor
          /\ \A d \in Calls : call[d].at = "putEntry" /\ ~call[d].overtaken /\ call[d].gen = v.gen
                => call[d].seen >= v.floor
    /\ v.at = "putEntry" /\ ~v.overtaken =>
          \A d \in Calls : call[d].at = "entry" /\ ~call[d].overtaken /\ v.gen = call[d].gen
                => v.seen >= call[d].floor

LEMMA TouchStep ==
  ASSUME CacheInv, NEW c \in Calls, NEW v, Touch(c, v), NewOK(v)
  PROVE  CacheInv'
<1> USE DEF database, store
<1>1. /\ call \in [Calls -> Record] /\ call' = [call EXCEPT ![c] = v]
      /\ call'[c] = v /\ \A d \in Calls : d # c => call'[d] = call[d]
  BY DEF CacheInv, TypeOK, Record, Touch, Set
<1>2. /\ strategy' = strategy /\ row' = row /\ version' = version
      /\ generation' = generation /\ done' = done /\ rowDone' = rowDone
  BY DEF Touch
<1>3. TypeOK'
  <2>1. call' \in [Calls -> Record]
    BY <1>1 DEF Touch
  <2> QED BY <1>2, <2>1 DEF CacheInv, TypeOK, Record, Entity, Entry, Touch, EntitiesFit, EntriesFit
<1>4. StoreOK'
  <2>1. \A r \in Rows : entity'[r] # None /\ ~entity'[r].overtaken => entity'[r].seen >= rowDone[r]
    BY DEF Touch, EntitiesFit, CacheInv, StoreOK
  <2>2. \A k \in Keys : entry'[k] # None /\ ~entry'[k].overtaken =>
          entry'[k].gen <= generation /\ (entry'[k].gen = generation => entry'[k].seen >= done)
    BY DEF Touch, EntriesFit, EntryFits, CacheInv, StoreOK
  <2>3. \A k \in Keys : entry'[k] # None => Fingerprint[entry'[k].query] = k
    BY DEF Touch, EntriesFit, CacheInv, StoreOK
  <2> QED BY <1>2, <2>1, <2>2, <2>3 DEF CacheInv, StoreOK
<1>5. ASSUME NEW d \in Calls PROVE CallOK(d)'
  <2>1. CASE d = c
    BY <1>1, <1>2, <2>1 DEF NewOK, CallOK, FindOK, GetOK, WriteOK, AnswerOK
  <2>2. CASE d # c
    <3>1. call'[d] = call[d] /\ CallOK(d)
      BY <1>1, <2>2 DEF CacheInv
    <3> QED BY <1>2, <3>1 DEF CallOK, FindOK, GetOK, WriteOK, AnswerOK
  <2> QED BY <2>1, <2>2
<1>6. ASSUME NEW d \in Calls, NEW k \in Keys PROVE EntryServes(d, k)'
  <2>1. EntryServes(d, k)
    BY DEF CacheInv
  <2>2. CASE d = c
    BY <1>1, <2>2 DEF NewOK, EntryServes, Touch
  <2>3. CASE d # c /\ entry'[k] \in {entry[k], None}
    BY <1>1, <2>1, <2>3 DEF EntryServes
  <2>4. CASE d # c /\ EntryFits(entry'[k])
    BY <1>1, <2>4 DEF EntryServes, EntryFits
  <2> QED BY <2>2, <2>3, <2>4 DEF Touch, EntriesFit
<1>7. ASSUME NEW d \in Calls, NEW e \in Calls PROVE PutServes(d, e)'
  <2>1. PutServes(d, e)
    BY DEF CacheInv
  <2>2. CASE d = c /\ e = c
    BY <1>1, <2>2 DEF PutServes
  <2>3. CASE d = c /\ e # c
    BY <1>1, <2>3 DEF PutServes, NewOK
  <2>4. CASE d # c /\ e = c
    BY <1>1, <2>4 DEF PutServes, NewOK
  <2>5. CASE d # c /\ e # c
    BY <1>1, <2>1, <2>5 DEF PutServes
  <2> QED BY <2>2, <2>3, <2>4, <2>5
<1> QED BY <1>3, <1>4, <1>5, <1>6, <1>7 DEF CacheInv

LEMMA LocalStep ==
  ASSUME CacheInv, NEW c \in Calls, NEW v, Local(c, v), NewOK(v)
  PROVE  CacheInv'
<1>1. Touch(c, v)
  BY DEF Local, Touch, EntitiesFit, EntriesFit, CacheInv, TypeOK, Entity, Entry, store
<1> QED BY <1>1, TouchStep

\* The steps that change one call and nothing else.
LocalAction(c) ==
    \/ \E r \in Rows : Find(c, r) \/ ForgetRow(c, r)
    \/ \E q \in Queries : Get(c, q)
    \/ ReadEntity(c) \/ SelectRow(c) \/ ReadGeneration(c) \/ ReadEntry(c) \/ RunQuery(c)
    \/ Answer(c) \/ InvalidateTable(c) \/ Fault(c)

LEMMA LocalActions ==
  ASSUME CacheInv, NEW c \in Calls, LocalAction(c)
  PROVE  CacheInv'
<1> USE DEF Finding, Reading
<1>0. /\ TypeOK /\ StoreOK /\ CallOK(c) /\ version \in Nat /\ done \in 0..version
      /\ rowDone \in [Rows -> 0..version] /\ row \in [Rows -> 0..version] /\ generation \in Nat
      /\ None \notin Rows /\ None \notin Queries
  BY ModelCacheConstants DEF CacheInv, TypeOK
<1>t. flushes \in 0..MaxFlushes /\ faults \in 0..MaxFaults
  BY DEF CacheInv, TypeOK
<1>f. /\ call[c] \in Record /\ call[c].at \in Labels /\ call[c].row \in Rows \cup {None}
      /\ call[c].query \in Queries \cup {None} /\ call[c].of \in Queries \cup {None}
      /\ call[c].gen \in Nat /\ call[c].seen \in 0..version /\ call[c].floor \in 0..version
      /\ call[c].overtaken \in BOOLEAN
  BY <1>0, Fields
<1>i. ASSUME Set(c, Idle), UNCHANGED <<strategy, database, store, done, rowDone, flushes>>,
             faults' \in 0..MaxFaults
      PROVE  CacheInv'
  <2>1. Local(c, Idle)
    BY <1>0, <1>t, <1>i, IdleRecord DEF Local
  <2>2. NewOK(Idle)
    BY <1>0, IdleRecord DEF NewOK
  <2> QED BY <2>1, <2>2, LocalStep
<1>x. PICK x \in Record : x = Idle
  BY <1>0, IdleRecord
<1>y. /\ x.of = None /\ x.query = None /\ x.row = None /\ x.seen = 0 /\ x.floor = 0
      /\ x.overtaken = FALSE
  BY <1>0, <1>x, IdleRecord
<1>1. ASSUME NEW r \in Rows, Find(c, r) PROVE CacheInv'
  <2> DEFINE v == [x EXCEPT !.at = "entity", !.row = r, !.floor = rowDone[r]]
  <2>1. /\ v \in Record /\ v.at = "entity" /\ v.row = r /\ v.floor = rowDone[r]
        /\ v.of = None /\ v.query = None
    BY <1>0, <1>x, <1>y DEF Labels, Record
  <2>2. Local(c, v)
    BY <1>1, <1>t, <1>x, <2>1 DEF Find, Local
  <2>3. NewOK(v)
    <3> HIDE DEF v
    <3> QED BY <1>0, <2>1 DEF NewOK
  <2> QED BY <2>2, <2>3, LocalStep
<1>2. ASSUME NEW r \in Rows, ForgetRow(c, r) PROVE CacheInv'
  <2> DEFINE v == [x EXCEPT !.at = "forgetOnly", !.row = r]
  <2>1. v \in Record /\ v.at = "forgetOnly" /\ v.row = r /\ v.seen = 0
    BY <1>0, <1>x, <1>y DEF Labels, Record
  <2>2. Local(c, v)
    BY <1>2, <1>t, <1>x, <2>1 DEF ForgetRow, Local
  <2>3. NewOK(v)
    <3> HIDE DEF v
    <3> QED BY <1>0, <2>1 DEF NewOK
  <2> QED BY <2>2, <2>3, LocalStep
<1>3. ASSUME NEW q \in Queries, Get(c, q) PROVE CacheInv'
  <2> DEFINE v == [x EXCEPT !.at = "generation", !.query = q, !.floor = done]
  <2>1. v \in Record /\ v.at = "generation" /\ v.query = q /\ v.floor = done
    BY <1>0, <1>x, <1>y DEF Labels, Record
  <2>2. Local(c, v)
    BY <1>3, <1>t, <1>x, <2>1 DEF Get, Local
  <2>3. NewOK(v)
    <3> HIDE DEF v
    <3> QED BY <1>0, <2>1 DEF NewOK
  <2> QED BY <2>2, <2>3, LocalStep
<1>4. ASSUME ReadEntity(c) PROVE CacheInv'
  <2>0. call[c].at = "entity" /\ call[c].row \in Rows /\ call[c].floor <= rowDone[call[c].row]
        /\ call[c].of = None /\ call[c].query = None
    BY <1>0, <1>4 DEF ReadEntity, CallOK, FindOK
  <2>1. CASE entity[call[c].row] # None
    <3> DEFINE hit == entity[call[c].row]
               v == [call[c] EXCEPT !.at = "answer", !.seen = hit.seen, !.overtaken = hit.overtaken]
    <3>1. hit.seen \in 0..version /\ hit.overtaken \in BOOLEAN
          /\ (~hit.overtaken => hit.seen >= rowDone[call[c].row])
      BY <1>0, <2>0, <2>1 DEF TypeOK, StoreOK
    <3>2. v \in Record /\ v.at = "answer" /\ v.of = call[c].of /\ v.query = call[c].query
          /\ v.seen = hit.seen /\ v.overtaken = hit.overtaken /\ v.floor = call[c].floor
      <4> HIDE DEF hit
      <4> QED BY <1>0, <1>f, <3>1 DEF Record, Labels
    <3>3. Local(c, v)
      BY <1>4, <1>t, <2>1, <3>2 DEF ReadEntity, Local
    <3>4. v.seen >= v.floor \/ v.overtaken
      <4> HIDE DEF v, hit
      <4> QED BY <1>0, <1>f, <2>0, <3>1, <3>2
    <3>5. NewOK(v)
      <4> HIDE DEF v
      <4> QED BY <2>0, <3>2, <3>4 DEF NewOK, Serves
    <3> QED BY <3>3, <3>5, LocalStep
  <2>2. CASE entity[call[c].row] = None
    <3> DEFINE v == [call[c] EXCEPT !.at = "select"]
    <3>1. v \in Record /\ v.at = "select" /\ v.of = call[c].of /\ v.query = call[c].query
          /\ v.row = call[c].row /\ v.floor = call[c].floor
      BY <1>f DEF Record, Labels
    <3>2. Local(c, v)
      BY <1>4, <1>t, <2>2, <3>1 DEF ReadEntity, Local
    <3>3. NewOK(v)
      <4> HIDE DEF v
      <4> QED BY <2>0, <3>1 DEF NewOK
    <3> QED BY <3>2, <3>3, LocalStep
  <2> QED BY <2>1, <2>2
<1>5. ASSUME SelectRow(c) PROVE CacheInv'
  <2> DEFINE v == [call[c] EXCEPT !.at = "putEntity", !.seen = row[call[c].row]]
  <2>0. call[c].at = "select" /\ call[c].row \in Rows /\ call[c].floor <= rowDone[call[c].row]
        /\ call[c].of = None /\ call[c].query = None
    BY <1>0, <1>5 DEF SelectRow, CallOK, FindOK
  <2>1. ASSUME row[call[c].row] # 0, Set(c, v) PROVE CacheInv'
    <3>1. row[call[c].row] \in 0..version /\ row[call[c].row] >= rowDone[call[c].row]
          /\ rowDone[call[c].row] \in 0..version
      BY <1>0, <2>0, <2>1 DEF StoreOK
    <3>2. v \in Record /\ v.at = "putEntity" /\ v.of = call[c].of /\ v.query = call[c].query
          /\ v.row = call[c].row /\ v.floor = call[c].floor /\ v.seen = row[call[c].row]
      BY <1>f, <3>1 DEF Record, Labels
    <3>3. Local(c, v)
      BY <1>5, <1>t, <2>1, <3>2 DEF SelectRow, Local
    <3>4. v.seen >= 1 /\ v.seen >= v.floor /\ v.seen >= rowDone[v.row]
      <4> HIDE DEF v
      <4> QED BY <1>0, <1>f, <2>0, <2>1, <3>1, <3>2
    <3>5. NewOK(v)
      <4> HIDE DEF v
      <4> QED BY <2>0, <3>2, <3>4 DEF NewOK
    <3> QED BY <3>3, <3>5, LocalStep
  <2> QED BY <1>5, <1>i, <1>t, <2>1 DEF SelectRow
<1>6. ASSUME ReadGeneration(c) PROVE CacheInv'
  <2> DEFINE g == IF strategy = "ReadOnly" THEN 0 ELSE generation
             v == [call[c] EXCEPT !.at = "entry", !.gen = g]
  <2>0. call[c].at = "generation" /\ call[c].query \in Queries /\ call[c].floor <= done
        /\ g = generation
    BY <1>0, <1>6 DEF ReadGeneration, CallOK, GetOK, StoreOK
  <2>1. v \in Record /\ v.at = "entry" /\ v.query = call[c].query /\ v.gen = generation
        /\ v.floor = call[c].floor
    BY <1>0, <1>f, <2>0 DEF Record, Labels
  <2>2. Local(c, v)
    BY <1>6, <1>t, <2>1 DEF ReadGeneration, Local
  <2>3. ASSUME NEW k \in Keys, entry[k] # None, ~entry[k].overtaken, entry[k].gen = generation
        PROVE  entry[k].seen >= call[c].floor
    <3>1. entry[k].seen >= done /\ entry[k].seen \in 0..version
      BY <1>0, <2>3 DEF StoreOK, TypeOK
    <3> QED BY <1>0, <1>f, <2>0, <3>1
  <2>4. ASSUME NEW d \in Calls, call[d].at = "putEntry", ~call[d].overtaken, call[d].gen = generation
        PROVE  call[d].seen >= call[c].floor
    <3>1. call[d].seen >= done /\ call[d].seen \in 0..version
      BY <1>0, <2>4, Fields DEF CacheInv, CallOK, GetOK
    <3> QED BY <1>0, <1>f, <2>0, <3>1
  <2>5. NewOK(v)
    <3> HIDE DEF v
    <3> QED BY <1>0, <2>0, <2>1, <2>3, <2>4 DEF NewOK
  <2> QED BY <2>2, <2>5, LocalStep
<1>7. ASSUME ReadEntry(c) PROVE CacheInv'
  <2> DEFINE e == entry[Fingerprint[call[c].query]]
  <2>0. /\ call[c].at = "entry" /\ call[c].query \in Queries /\ call[c].floor <= done
        /\ (~call[c].overtaken => call[c].gen <= generation)
        /\ Fingerprint[call[c].query] \in Keys
    BY <1>0, <1>7, ModelCacheConstants DEF ReadEntry, CallOK, GetOK
  <2>1. CASE Usable(e, call[c].query, call[c].gen)
    <3> DEFINE v == [call[c] EXCEPT !.at = "answer", !.gen = 0, !.seen = e.seen, !.of = e.query,
                                    !.overtaken = @ \/ e.overtaken]
    <3>1. /\ e # None /\ Text[e.query] = Text[call[c].query] /\ e.gen = call[c].gen
          /\ e.query \in Queries /\ e.seen \in 0..version /\ e.overtaken \in BOOLEAN
      BY <1>0, <2>0, <2>1 DEF TypeOK, Usable
    <3>s. Serves(e.query, call[c].query)
      BY <1>0, <2>0, <3>1 DEF StoreOK, Serves, Alike
    <3>2. ~call[c].overtaken /\ ~e.overtaken => e.seen >= call[c].floor
      BY <2>0, <3>1 DEF CacheInv, EntryServes
    <3>3. (call[c].overtaken \/ e.overtaken) \in BOOLEAN
      OBVIOUS
    <3>4. PICK o \in BOOLEAN : o = (call[c].overtaken \/ e.overtaken)
      BY <3>3
    <3>v. v = [call[c] EXCEPT !.at = "answer", !.gen = 0, !.seen = e.seen, !.of = e.query, !.overtaken = o]
      BY <3>4, Zenon
    <3> HIDE DEF e, v
    <3>5. /\ v \in Record /\ v.at = "answer" /\ v.query = call[c].query /\ v.of = e.query
          /\ v.seen = e.seen /\ v.floor = call[c].floor /\ v.overtaken = o
      BY <1>f, <3>1, <3>v DEF Record, Labels
    <3>6. Local(c, v)
      BY <1>7, <1>t, <2>1, <3>5 DEF ReadEntry, Local, e, v
    <3>7. ~v.overtaken => v.seen >= v.floor
      BY <3>2, <3>4, <3>5
    <3>8. NewOK(v)
      BY <3>s, <3>5, <3>7 DEF NewOK
    <3> QED BY <3>6, <3>8, LocalStep
  <2>2. CASE ~Usable(e, call[c].query, call[c].gen)
    <3> DEFINE v == [call[c] EXCEPT !.at = "query"]
    <3>1. v \in Record /\ v.at = "query" /\ v.query = call[c].query /\ v.gen = call[c].gen
          /\ v.floor = call[c].floor /\ v.overtaken = call[c].overtaken
      BY <1>f DEF Record, Labels
    <3>2. Local(c, v)
      BY <1>7, <1>t, <2>2, <3>1 DEF ReadEntry, Local
    <3>3. NewOK(v)
      <4> HIDE DEF v
      <4> QED BY <2>0, <3>1 DEF NewOK
    <3> QED BY <3>2, <3>3, LocalStep
  <2> QED BY <2>1, <2>2
<1>8. ASSUME RunQuery(c) PROVE CacheInv'
  <2> DEFINE v == [call[c] EXCEPT !.at = "putEntry", !.seen = version, !.of = call[c].query]
  <2>0. /\ call[c].at = "query" /\ call[c].query \in Queries /\ call[c].floor <= done
        /\ (~call[c].overtaken => call[c].gen <= generation)
    BY <1>0, <1>8 DEF RunQuery, CallOK, GetOK
  <2>1. ASSUME Set(c, v) PROVE CacheInv'
    <3>0. version \in 0..version
      BY <1>0
    <3>1. /\ v \in Record /\ v.at = "putEntry" /\ v.query = call[c].query /\ v.of = call[c].query
          /\ v.gen = call[c].gen /\ v.floor = call[c].floor /\ v.overtaken = call[c].overtaken
          /\ v.seen = version
      BY <1>f, <3>0 DEF Record, Labels
    <3>2. Local(c, v)
      BY <1>8, <1>t, <2>1, <3>1 DEF RunQuery, Local
    <3>3. /\ version >= call[c].floor /\ version >= done
          /\ \A d \in Calls : version >= call[d].floor
      BY <1>0, <1>f, Fields
    <3>4. NewOK(v)
      <4> HIDE DEF v
      <4> QED BY <2>0, <3>1, <3>3 DEF NewOK
    <3> QED BY <3>2, <3>4, LocalStep
  <2> QED BY <1>8, <1>i, <1>t, <2>1 DEF RunQuery
<1>9. ASSUME Answer(c) PROVE CacheInv'
  BY <1>9, <1>i, <1>t DEF Answer
<1>10. ASSUME Fault(c) PROVE CacheInv'
  <2>1. faults + 1 \in 0..MaxFaults
    BY <1>10, <1>t, ModelCacheConstants DEF Fault
  <2> QED BY <1>10, <1>i, <1>t, <2>1 DEF Fault
<1>11. ASSUME InvalidateTable(c) PROVE CacheInv'
  <2> DEFINE v == [x EXCEPT !.at = "bump"]
  <2>1. v \in Record /\ v.at = "bump"
    BY <1>0, <1>x, <1>y DEF Labels, Record
  <2>2. Local(c, v)
    BY <1>11, <1>t, <1>x, <2>1 DEF InvalidateTable, Local
  <2>3. NewOK(v)
    <3> HIDE DEF v
    <3> QED BY <1>0, <2>1 DEF NewOK
  <2> QED BY <2>2, <2>3, LocalStep
<1> QED
  BY <1>1, <1>2, <1>3, <1>4, <1>5, <1>6, <1>7, <1>8, <1>9, <1>10, <1>11 DEF LocalAction
-----------------------------------------------------------------------------
(* Steps that write the store or the database.                              *)

LEMMA PutEntityStep ==
  ASSUME CacheInv, NEW c \in Calls, PutEntity(c)
  PROVE  CacheInv'
<1> DEFINE x == [seen |-> call[c].seen, overtaken |-> call[c].overtaken]
           v == [call[c] EXCEPT !.at = "answer"]
<1>1. /\ call[c] \in Record /\ call[c].row \in Rows /\ call[c].of = None /\ call[c].query = None
      /\ call[c].seen \in 1..version /\ call[c].seen >= call[c].floor
      /\ (~call[c].overtaken => call[c].seen >= rowDone[call[c].row])
      /\ call[c].overtaken \in BOOLEAN
  BY Fields DEF CacheInv, CallOK, FindOK, Finding, PutEntity
<1>2. /\ v \in Record /\ v.at = "answer" /\ v.of = call[c].of /\ v.query = call[c].query
      /\ v.seen = call[c].seen /\ v.floor = call[c].floor
  BY <1>1 DEF Record, Labels
<1>3. entity' = [entity EXCEPT ![call[c].row] = x] /\ entity \in [Rows -> Entity \cup {None}]
  BY DEF PutEntity, CacheInv, TypeOK, Entity
<1>4. x \in Entity /\ x.seen = call[c].seen /\ x.overtaken = call[c].overtaken
  BY <1>1 DEF Entity
<1>5. EntitiesFit
  <2> HIDE DEF x
  <2>1. entity' \in [Rows -> Entity \cup {None}]
    BY <1>3, <1>4
  <2>2. ASSUME NEW r \in Rows
        PROVE  entity'[r] = entity[r] \/ (~entity'[r].overtaken => entity'[r].seen >= rowDone[r])
    BY <1>1, <1>3, <1>4
  <2> QED BY <2>1, <2>2 DEF EntitiesFit
<1>6. EntriesFit
  BY DEF PutEntity, EntriesFit, CacheInv, TypeOK, Entry
<1>7. Touch(c, v)
  BY <1>2, <1>5, <1>6 DEF PutEntity, Touch, CacheInv, TypeOK
<1>8. NewOK(v)
  <2> HIDE DEF v
  <2> QED BY <1>1, <1>2 DEF NewOK, Finding, Reading, Serves
<1> QED BY <1>7, <1>8, TouchStep

LEMMA PutEntryStep ==
  ASSUME CacheInv, NEW c \in Calls, PutEntry(c)
  PROVE  CacheInv'
<1> DEFINE x == [query |-> call[c].query, gen |-> call[c].gen, seen |-> call[c].seen,
                 overtaken |-> call[c].overtaken]
           v == [call[c] EXCEPT !.at = "answer", !.gen = 0]
<1>1. /\ call[c] \in Record /\ call[c].query \in Queries /\ call[c].of = call[c].query
      /\ call[c].seen \in 0..version /\ call[c].seen >= call[c].floor /\ call[c].gen \in Nat
      /\ (~call[c].overtaken => call[c].gen <= generation)
      /\ (~call[c].overtaken /\ call[c].gen = generation => call[c].seen >= done)
      /\ call[c].overtaken \in BOOLEAN /\ call[c].at = "putEntry"
  BY Fields DEF CacheInv, CallOK, GetOK, Reading, PutEntry
<1>2. /\ v \in Record /\ v.at = "answer" /\ v.of = call[c].of /\ v.query = call[c].query
      /\ v.seen = call[c].seen /\ v.floor = call[c].floor
  BY <1>1 DEF Record, Labels
<1>3. /\ entry' = [entry EXCEPT ![Fingerprint[call[c].query]] = x]
      /\ entry \in [Keys -> Entry \cup {None}]
  BY DEF PutEntry, CacheInv, TypeOK, Entry
<1>4. /\ x \in Entry /\ x.seen = call[c].seen /\ x.overtaken = call[c].overtaken
      /\ x.gen = call[c].gen /\ x.query = call[c].query
  BY <1>1 DEF Entry
<1>5. EntriesFit
  <2> HIDE DEF x
  <2>1. entry' \in [Keys -> Entry \cup {None}]
    BY <1>3, <1>4
  <2>2. EntryFits(x)
    BY <1>1, <1>4 DEF EntryFits, CacheInv, PutServes
  <2>3. \A k \in Keys : entry'[k] = entry[k] \/ (entry'[k] = x /\ Fingerprint[x.query] = k)
    BY <1>3, <1>4
  <2> QED BY <2>1, <2>2, <2>3 DEF EntriesFit
<1>6. EntitiesFit
  BY DEF PutEntry, EntitiesFit, CacheInv, TypeOK, Entity
<1>7. Touch(c, v)
  BY <1>2, <1>5, <1>6 DEF PutEntry, Touch, CacheInv, TypeOK
<1>8. NewOK(v)
  <2>1. Serves(call[c].query, call[c].query)
    BY <1>1, ModelCacheConstants DEF Serves, Alike
  <2> HIDE DEF v
  <2> QED BY <1>1, <1>2, <2>1 DEF NewOK, Finding, Reading
<1> QED BY <1>7, <1>8, TouchStep

\* Something leaves the store.
LEMMA ExpireStep ==
  ASSUME CacheInv,
         \/ \E r \in Rows : ExpireEntity(r)
         \/ \E k \in Keys : ExpireEntry(k)
         \/ UNCHANGED vars
  PROVE  CacheInv'
<1>1. /\ \A r \in Rows : entity'[r] \in {entity[r], None}
      /\ \A k \in Keys : entry'[k] \in {entry[k], None}
      /\ entity' \in [Rows -> Entity \cup {None}] /\ entry' \in [Keys -> Entry \cup {None}]
  BY DEF CacheInv, TypeOK, Entity, Entry, ExpireEntity, ExpireEntry, vars, store
<1>2. /\ strategy' = strategy /\ row' = row /\ version' = version /\ generation' = generation
      /\ done' = done /\ rowDone' = rowDone /\ call' = call /\ flushes' = flushes /\ faults' = faults
  BY DEF ExpireEntity, ExpireEntry, vars, database, store
<1>3. TypeOK'
  BY <1>1, <1>2 DEF CacheInv, TypeOK, Entity, Entry
<1>4. StoreOK'
  BY <1>1, <1>2 DEF CacheInv, StoreOK
<1>5. ASSUME NEW d \in Calls PROVE CallOK(d)'
  BY <1>2 DEF CacheInv, CallOK, FindOK, GetOK, WriteOK, AnswerOK
<1>6. ASSUME NEW d \in Calls, NEW k \in Keys PROVE EntryServes(d, k)'
  <2>1. EntryServes(d, k)
    BY DEF CacheInv
  <2> QED BY <1>1, <1>2, <2>1 DEF EntryServes
<1>7. ASSUME NEW d \in Calls, NEW e \in Calls PROVE PutServes(d, e)'
  BY <1>2 DEF CacheInv, PutServes
<1> QED BY <1>3, <1>4, <1>5, <1>6, <1>7 DEF CacheInv

\* A write: the row is the newest of all, so no pending drop is ahead of it.
LEMMA WriteStep ==
  ASSUME CacheInv, NEW c \in Calls, NEW r \in Rows,
         NEW to \in {0, version + 1}, NEW label \in {"bump", "forget"}, WriteRow(c, r, to, label)
  PROVE  CacheInv'
<1> USE DEF store
<1>1. TypeOK /\ StoreOK /\ version \in Nat /\ version + 1 \in 0..MaxVersion
      /\ row \in [Rows -> 0..version] /\ rowDone \in [Rows -> 0..version] /\ done \in 0..version
  BY ModelCacheConstants DEF CacheInv, TypeOK, WriteRow
<1>2. /\ version' = version + 1 /\ row' = [row EXCEPT ![r] = to] /\ strategy' = strategy
      /\ entity' = entity /\ entry' = entry /\ generation' = generation
      /\ done' = done /\ rowDone' = rowDone /\ flushes' = flushes /\ faults' = faults
  BY DEF WriteRow
<1>x. PICK x \in Record : x = Idle
  BY <1>1, IdleRecord
<1> DEFINE v == [x EXCEPT !.at = label, !.row = r, !.seen = version + 1]
<1>3. 0..version \subseteq 0..version' /\ 1..version \subseteq 1..version'
  BY <1>1, <1>2
<1>4. Record \subseteq Record'
  BY <1>3 DEF Record
<1>5. v \in Record' /\ v.at = label /\ v.row = r /\ v.seen = version + 1
  <2>1. x \in Record' /\ version + 1 \in 0..version' /\ label \in Labels
    BY <1>1, <1>2, <1>4 DEF Labels
  <2> QED BY <2>1 DEF Record
<1>6. /\ call \in [Calls -> Record] /\ call' = [call EXCEPT ![c] = v]
  BY <1>1, <1>x DEF TypeOK, Record, WriteRow, Set
<1> HIDE DEF v
<1>7. call'[c] = v /\ (\A d \in Calls : d # c => call'[d] = call[d]) /\ call' \in [Calls -> Record']
  BY <1>4, <1>5, <1>6
<1>8. row' \in [Rows -> 0..version'] /\ \A s \in Rows : row'[s] = row[s] \/ row'[s] \in {0, version + 1}
  BY <1>1, <1>2
<1>9. TypeOK'
  <2>1. entity' \in [Rows -> [seen : 1..version', overtaken : BOOLEAN] \cup {None}]
    BY <1>1, <1>2, <1>3 DEF TypeOK
  <2>2. entry' \in [Keys -> [query : Queries, gen : Nat, seen : 0..version', overtaken : BOOLEAN]
                              \cup {None}]
    BY <1>1, <1>2, <1>3 DEF TypeOK
  <2>3. done' \in 0..version' /\ rowDone' \in [Rows -> 0..version']
    BY <1>1, <1>2, <1>3
  <2> QED BY <1>1, <1>2, <1>7, <1>8, <2>1, <2>2, <2>3 DEF TypeOK, Record
<1>10. StoreOK'
  <2>1. ASSUME NEW s \in Rows, row'[s] # 0 PROVE row'[s] >= rowDone[s]
    BY <1>1, <1>8, <2>1 DEF StoreOK
  <2> QED BY <1>1, <1>2, <2>1 DEF StoreOK
<1>11. ASSUME NEW d \in Calls PROVE CallOK(d)'
  <2>1. CASE d = c
    <3>1. row'[r] = 0 \/ row'[r] >= version + 1
      BY <1>1, <1>2
    <3> QED BY <1>5, <1>7, <2>1, <3>1
            DEF CallOK, FindOK, GetOK, WriteOK, AnswerOK, Finding, Reading
  <2>2. CASE d # c
    <3>1. call'[d] = call[d] /\ CallOK(d) /\ call[d].seen \in 0..version
      BY <1>1, <1>7, <2>2, Fields DEF CacheInv
    <3>2. WriteOK(d)'
      <4> SUFFICES ASSUME call[d].at \in {"forget", "forgetOnly"}
                   PROVE  /\ call[d].row \in Rows
                          /\ row'[call[d].row] = 0 \/ row'[call[d].row] >= call[d].seen
        BY <3>1 DEF WriteOK
      <4>1. call[d].row \in Rows /\ (row[call[d].row] = 0 \/ row[call[d].row] >= call[d].seen)
        BY <3>1 DEF CallOK, WriteOK
      <4> QED BY <1>1, <1>8, <3>1, <4>1
    <3> QED BY <1>2, <3>1, <3>2 DEF CallOK, FindOK, GetOK, AnswerOK
  <2> QED BY <2>1, <2>2
<1>12. ASSUME NEW d \in Calls, NEW k \in Keys PROVE EntryServes(d, k)'
  <2>1. EntryServes(d, k)
    BY DEF CacheInv
  <2> QED BY <1>2, <1>5, <1>7, <2>1 DEF EntryServes
<1>13. ASSUME NEW d \in Calls, NEW e \in Calls PROVE PutServes(d, e)'
  <2>1. PutServes(d, e)
    BY DEF CacheInv
  <2> QED BY <1>5, <1>7, <2>1 DEF PutServes
<1> QED BY <1>9, <1>10, <1>11, <1>12, <1>13 DEF CacheInv

LEMMA LargerIs ==
  ASSUME NEW n \in Nat, NEW a \in 0..n, NEW b \in 0..n
  PROVE  Larger(a, b) \in 0..n /\ Larger(a, b) >= a /\ Larger(a, b) >= b /\ Larger(a, b) \in {a, b}
  BY DEF Larger

\* A bump: every result and every reader is of an older generation now.
LEMMA BumpStep ==
  ASSUME CacheInv, NEW c \in Calls, Bump(c)
  PROVE  CacheInv'
<1> USE DEF database
<1>1. TypeOK /\ StoreOK /\ version \in Nat /\ done \in 0..version /\ generation \in Nat
      /\ call[c].seen \in 0..version
  BY Fields DEF CacheInv, TypeOK
<1>2. /\ version' = version /\ row' = row /\ strategy' = strategy /\ entity' = entity /\ entry' = entry
      /\ rowDone' = rowDone /\ flushes' = flushes /\ faults' = faults
  BY DEF Bump
<1>3. /\ \/ generation' = generation /\ done' = done
         \/ generation' = generation + 1 /\ strategy # "ReadOnly"
      /\ done' \in 0..version /\ done' >= done
  <2>1. PICK n \in 0..version : n = call[c].seen
    BY <1>1
  <2>2. Larger(done, n) \in 0..version /\ Larger(done, n) >= done
    BY <1>1, LargerIs
  <2>3. CASE strategy = "ReadOnly"
    <3>1. generation' = generation /\ done' = done
      BY <2>3 DEF Bump
    <3> QED BY <1>1, <3>1
  <2>4. CASE strategy # "ReadOnly"
    <3>1. generation' = generation + 1 /\ done' = Larger(done, n)
      BY <2>1, <2>4 DEF Bump
    <3> QED BY <2>2, <2>4, <3>1
  <2> QED BY <2>3, <2>4
<1>4. /\ call \in [Calls -> Record] /\ call' = [call EXCEPT ![c] = Idle]
      /\ Idle \in Record /\ Idle.at = "idle"
  BY <1>1, IdleRecord DEF TypeOK, Record, Bump, Set
<1>5. call'[c] = Idle /\ (\A d \in Calls : d # c => call'[d] = call[d]) /\ call' \in [Calls -> Record]
  BY <1>4
<1>6. TypeOK'
  <2>1. generation' \in Nat
    BY <1>1, <1>3
  <2> QED BY <1>1, <1>2, <1>3, <1>5, <2>1 DEF TypeOK, Record
<1>7. StoreOK'
  <2>1. ASSUME NEW k \in Keys, entry[k] # None, ~entry[k].overtaken
        PROVE  entry[k].gen <= generation' /\ (entry[k].gen = generation' => entry[k].seen >= done')
    <3>1. /\ entry[k].gen \in Nat /\ entry[k].gen <= generation
          /\ (entry[k].gen = generation => entry[k].seen >= done)
      BY <1>1, <2>1 DEF TypeOK, StoreOK
    <3> QED BY <1>1, <1>3, <3>1
  <2> QED BY <1>1, <1>2, <1>3, <2>1 DEF StoreOK
<1>8. ASSUME NEW d \in Calls PROVE CallOK(d)'
  <2>1. CASE d = c
    BY <1>4, <1>5, <2>1 DEF CallOK, FindOK, GetOK, WriteOK, AnswerOK, Finding, Reading
  <2>2. CASE d # c
    <3>1. /\ call'[d] = call[d] /\ CallOK(d) /\ call[d].seen \in 0..version
          /\ call[d].floor \in 0..version /\ call[d].gen \in Nat
      BY <1>1, <1>5, <2>2, Fields DEF CacheInv
    <3>2. GetOK(d)'
      BY <1>1, <1>3, <3>1 DEF CallOK, GetOK
    <3> QED BY <1>2, <3>1, <3>2 DEF CallOK, FindOK, WriteOK, AnswerOK
  <2> QED BY <2>1, <2>2
<1>9. ASSUME NEW d \in Calls, NEW k \in Keys PROVE EntryServes(d, k)'
  <2>1. EntryServes(d, k)
    BY DEF CacheInv
  <2> QED BY <1>2, <1>4, <1>5, <2>1 DEF EntryServes
<1>10. ASSUME NEW d \in Calls, NEW e \in Calls PROVE PutServes(d, e)'
  <2>1. PutServes(d, e)
    BY DEF CacheInv
  <2> QED BY <1>4, <1>5, <2>1 DEF PutServes
<1> QED BY <1>6, <1>7, <1>8, <1>9, <1>10 DEF CacheInv

\* A call that was overtaken has what it had; it only knows better.
LEMMA Marked ==
  ASSUME TypeOK, NEW d \in Calls
  PROVE  LET v == [call[d] EXCEPT !.overtaken = TRUE]
         IN  /\ v \in Record /\ v.at = call[d].at /\ v.row = call[d].row /\ v.query = call[d].query
             /\ v.of = call[d].of /\ v.gen = call[d].gen /\ v.seen = call[d].seen
             /\ v.floor = call[d].floor /\ v.overtaken = TRUE
<1>1. PICK x \in Record : x = call[d]
  BY Fields
<1> QED BY <1>1 DEF Record

\* A drop of a row's key: no reader of the row is left that does not know of it.
LEMMA ForgetStep ==
  ASSUME CacheInv, NEW c \in Calls, Forget(c)
  PROVE  CacheInv'
<1> USE DEF database
<1>1. /\ TypeOK /\ StoreOK /\ version \in Nat /\ row \in [Rows -> 0..version]
      /\ rowDone \in [Rows -> 0..version] /\ call[c].seen \in 0..version
      /\ call[c].at \in {"forget", "forgetOnly"}
  BY Fields DEF CacheInv, TypeOK, Forget
<1>2. PICK r \in Rows : r = call[c].row
  BY <1>1 DEF CacheInv, CallOK, WriteOK
<1>3. row[r] = 0 \/ row[r] >= call[c].seen
  BY <1>1, <1>2 DEF CacheInv, CallOK, WriteOK
<1>4. /\ version' = version /\ row' = row /\ strategy' = strategy /\ entry' = entry
      /\ generation' = generation /\ done' = done /\ flushes' = flushes /\ faults' = faults
      /\ entity' = [entity EXCEPT ![r] = None]
      /\ rowDone' = [rowDone EXCEPT ![r] = Larger(rowDone[r], call[c].seen)]
  BY <1>2 DEF Forget
<1>5. /\ rowDone' \in [Rows -> 0..version]
      /\ \A s \in Rows : rowDone'[s] >= rowDone[s] /\ (s # r => rowDone'[s] = rowDone[s])
      /\ row[r] # 0 => row[r] >= rowDone'[r]
  <2>1. /\ Larger(rowDone[r], call[c].seen) \in 0..version
        /\ Larger(rowDone[r], call[c].seen) >= rowDone[r]
        /\ Larger(rowDone[r], call[c].seen) \in {rowDone[r], call[c].seen}
    BY <1>1, LargerIs
  <2> QED BY <1>1, <1>3, <1>4, <2>1 DEF StoreOK
<1> DEFINE v == IF call[c].at = "forget" THEN [call[c] EXCEPT !.at = "bump"] ELSE Idle
           m(d) == [call[d] EXCEPT !.overtaken = TRUE]
<1>6. v \in Record /\ v.at \in {"bump", "idle"}
  <2>1. PICK x \in Record : x = call[c]
    BY <1>1, Fields
  <2>2. [x EXCEPT !.at = "bump"] \in Record /\ [x EXCEPT !.at = "bump"].at = "bump"
    BY DEF Record, Labels
  <2>3. Idle \in Record /\ Idle.at = "idle"
    BY <1>1, IdleRecord
  <2> QED BY <2>1, <2>2, <2>3
<1>7. /\ call'[c] = v
      /\ \A d \in Calls : d # c =>
            call'[d] = IF call[d].at = "putEntity" /\ call[d].row = r THEN m(d) ELSE call[d]
      /\ call' = [d \in Calls |-> call'[d]]
  BY <1>2 DEF Forget, Overtake
<1> HIDE DEF v
<1>8. /\ call' \in [Calls -> Record]
      /\ \A d \in Calls : d # c =>
            /\ call'[d].at = call[d].at /\ call'[d].row = call[d].row
            /\ call'[d].query = call[d].query /\ call'[d].of = call[d].of
            /\ call'[d].gen = call[d].gen /\ call'[d].seen = call[d].seen
            /\ call'[d].floor = call[d].floor
            /\ call'[d].at # "putEntity" \/ call'[d].row # r => call'[d] = call[d]
            /\ call'[d].at = "putEntity" /\ call'[d].row = r => call'[d].overtaken
  <2>1. ASSUME NEW d \in Calls PROVE
            /\ m(d) \in Record /\ m(d).at = call[d].at /\ m(d).row = call[d].row
            /\ m(d).query = call[d].query /\ m(d).of = call[d].of /\ m(d).gen = call[d].gen
            /\ m(d).seen = call[d].seen /\ m(d).floor = call[d].floor /\ m(d).overtaken = TRUE
            /\ call[d] \in Record
    BY <1>1, Marked, Fields
  <2> HIDE DEF m
  <2>2. \A d \in Calls : call'[d] \in Record
    BY <1>6, <1>7, <2>1
  <2>3. call' \in [Calls -> Record]
    BY <1>7, <2>2
  <2>4. ASSUME NEW d \in Calls, d # c PROVE
            /\ call'[d].at = call[d].at /\ call'[d].row = call[d].row
            /\ call'[d].query = call[d].query /\ call'[d].of = call[d].of
            /\ call'[d].gen = call[d].gen /\ call'[d].seen = call[d].seen
            /\ call'[d].floor = call[d].floor
            /\ call'[d].at # "putEntity" \/ call'[d].row # r => call'[d] = call[d]
            /\ call'[d].at = "putEntity" /\ call'[d].row = r => call'[d].overtaken
    <3>1. CASE call[d].at = "putEntity" /\ call[d].row = r
      <4>1. call'[d] = m(d)
        BY <1>7, <2>4, <3>1
      <4> QED BY <2>1, <3>1, <4>1
    <3>2. CASE ~(call[d].at = "putEntity" /\ call[d].row = r)
      <4>1. call'[d] = call[d]
        BY <1>7, <2>4, <3>2
      <4> QED BY <3>2, <4>1
    <3> QED BY <3>1, <3>2
  <2> QED BY <2>3, <2>4
<1>9. TypeOK'
  BY <1>1, <1>4, <1>5, <1>8 DEF TypeOK, Record
<1>10. StoreOK'
  <2>1. \A s \in Rows : row[s] # 0 => row[s] >= rowDone'[s]
    BY <1>1, <1>5 DEF StoreOK
  <2>2. \A s \in Rows : s # r => entity'[s] = entity[s] /\ rowDone'[s] = rowDone[s]
    BY <1>1, <1>4, <1>5 DEF TypeOK
  <2>3. entity'[r] = None
    BY <1>1, <1>4 DEF TypeOK
  <2> QED BY <1>1, <1>4, <2>1, <2>2, <2>3 DEF StoreOK
<1>11. ASSUME NEW d \in Calls PROVE CallOK(d)'
  <2>1. CASE d = c
    BY <1>6, <1>7, <2>1 DEF CallOK, FindOK, GetOK, WriteOK, AnswerOK, Finding, Reading
  <2>2. CASE d # c
    <3>1. /\ CallOK(d) /\ call[d].seen \in 0..version /\ call[d].floor \in 0..version
      BY <1>1, Fields DEF CacheInv
    <3>2. FindOK(d)'
      <4> SUFFICES ASSUME call'[d].at \in Finding
                   PROVE  /\ call'[d].row \in Rows /\ call'[d].of = None /\ call'[d].query = None
                          /\ call'[d].floor <= rowDone'[call'[d].row]
                          /\ call'[d].at = "putEntity" =>
                                /\ call'[d].seen >= 1 /\ call'[d].seen >= call'[d].floor
                                /\ ~call'[d].overtaken => call'[d].seen >= rowDone'[call'[d].row]
        BY DEF FindOK
      <4>1. /\ call[d].row \in Rows /\ call[d].of = None /\ call[d].query = None
            /\ call[d].floor <= rowDone[call[d].row]
            /\ call[d].at = "putEntity" =>
                  /\ call[d].seen >= 1 /\ call[d].seen >= call[d].floor
                  /\ ~call[d].overtaken => call[d].seen >= rowDone[call[d].row]
        BY <1>8, <2>2, <3>1 DEF CallOK, FindOK
      <4>2. call[d].floor <= rowDone'[call[d].row]
        <5>1. /\ rowDone'[call[d].row] >= rowDone[call[d].row]
              /\ rowDone[call[d].row] \in Int /\ rowDone'[call[d].row] \in Int
          BY <1>1, <1>5, <4>1
        <5> QED BY <3>1, <4>1, <5>1
      <4> QED BY <1>5, <1>8, <2>2, <4>1, <4>2
    <3>3. call[d].at # "putEntity" => call'[d] = call[d]
      BY <1>8, <2>2
    <3>4. GetOK(d)' /\ WriteOK(d)' /\ AnswerOK(d)'
      BY <1>4, <1>8, <2>2, <3>1, <3>3 DEF CallOK, GetOK, WriteOK, AnswerOK, Reading
    <3> QED BY <3>2, <3>4 DEF CallOK
  <2> QED BY <2>1, <2>2
<1>12. \A d \in Calls : call'[d].at \in {"entry", "putEntry"} => call'[d] = call[d]
  BY <1>6, <1>7, <1>8
<1>13. ASSUME NEW d \in Calls, NEW k \in Keys PROVE EntryServes(d, k)'
  <2>1. EntryServes(d, k)
    BY DEF CacheInv
  <2> QED BY <1>4, <1>12, <2>1 DEF EntryServes
<1>14. ASSUME NEW d \in Calls, NEW e \in Calls PROVE PutServes(d, e)'
  <2>1. PutServes(d, e)
    BY DEF CacheInv
  <2> QED BY <1>12, <2>1 DEF PutServes
<1> QED BY <1>9, <1>10, <1>11, <1>13, <1>14 DEF CacheInv

\* The generation starts again: whoever has read one is marked, and so is every
\* result in the store.
LEMMA FlushStep ==
  ASSUME CacheInv, FlushGeneration
  PROVE  CacheInv'
<1> USE DEF database
<1>1. TypeOK /\ StoreOK
  BY DEF CacheInv
<1>2. /\ version' = version /\ row' = row /\ strategy' = strategy /\ generation' = 0 /\ done' = done
      /\ rowDone' = rowDone /\ faults' = faults /\ flushes' = flushes + 1 /\ flushes < MaxFlushes
      /\ entity' = entity
  BY DEF FlushGeneration
<1>e. /\ entry' \in [Keys -> Entry \cup {None}]
      /\ \A k \in Keys : entry'[k] # None =>
            entry'[k].overtaken /\ Fingerprint[entry'[k].query] = k
  <2> DEFINE o(k) == IF entry[k] = None THEN None ELSE [entry[k] EXCEPT !.overtaken = TRUE]
  <2>1. entry' = [k \in Keys |-> o(k)]
    BY DEF FlushGeneration
  <2>2. ASSUME NEW k \in Keys
        PROVE  \/ o(k) = None
               \/ o(k) \in Entry /\ o(k).overtaken = TRUE /\ Fingerprint[o(k).query] = k
    <3>1. CASE entry[k] # None
      <4>1. PICK e \in Entry : e = entry[k]
        BY <1>1, <3>1 DEF TypeOK, Entry
      <4>2. Fingerprint[e.query] = k /\ o(k) = [e EXCEPT !.overtaken = TRUE]
        BY <1>1, <3>1, <4>1 DEF StoreOK
      <4>3. /\ [e EXCEPT !.overtaken = TRUE] \in Entry
            /\ [e EXCEPT !.overtaken = TRUE].overtaken = TRUE
            /\ [e EXCEPT !.overtaken = TRUE].query = e.query
        BY DEF Entry
      <4> HIDE DEF o
      <4> QED BY <4>2, <4>3
    <3> QED BY <3>1
  <2> HIDE DEF o
  <2> QED BY <2>1, <2>2
<1> DEFINE m(d) == [call[d] EXCEPT !.overtaken = TRUE]
<1>3. /\ \A d \in Calls : call'[d] = IF call[d].at \in Reading THEN m(d) ELSE call[d]
      /\ call' = [d \in Calls |-> call'[d]]
  BY DEF FlushGeneration, Reading
<1>4. ASSUME NEW d \in Calls PROVE
            /\ m(d) \in Record /\ m(d).at = call[d].at /\ m(d).row = call[d].row
            /\ m(d).query = call[d].query /\ m(d).of = call[d].of /\ m(d).gen = call[d].gen
            /\ m(d).seen = call[d].seen /\ m(d).floor = call[d].floor /\ m(d).overtaken = TRUE
            /\ call[d] \in Record
  BY <1>1, Marked, Fields
<1> HIDE DEF m
<1>5. call' \in [Calls -> Record]
  BY <1>3, <1>4
<1>6. ASSUME NEW d \in Calls PROVE
            /\ call'[d].at = call[d].at /\ call'[d].query = call[d].query /\ call'[d].of = call[d].of
            /\ call'[d].seen = call[d].seen /\ call'[d].floor = call[d].floor
            /\ call[d].at \notin Reading => call'[d] = call[d]
            /\ call[d].at \in Reading => call'[d].overtaken
  BY <1>3, <1>4
<1>7. TypeOK'
  <2>1. flushes' \in 0..MaxFlushes
    BY <1>1, <1>2, ModelCacheConstants DEF TypeOK
  <2> QED BY <1>1, <1>2, <1>e, <1>5, <2>1 DEF TypeOK, Record, Entry
<1>8. StoreOK'
  BY <1>1, <1>2, <1>e DEF StoreOK
<1>9. ASSUME NEW d \in Calls PROVE CallOK(d)'
  <2>1. CallOK(d)
    BY DEF CacheInv
  <2>2. CASE call[d].at \in Reading
    BY <1>2, <1>6, <2>1, <2>2 DEF CallOK, FindOK, GetOK, WriteOK, AnswerOK, Finding, Reading
  <2>3. CASE call[d].at \notin Reading
    <3>1. call'[d] = call[d]
      BY <1>6, <2>3
    <3> QED BY <1>2, <2>1, <2>3, <3>1 DEF CallOK, FindOK, GetOK, WriteOK, AnswerOK, Reading
  <2> QED BY <2>2, <2>3
<1>10. ASSUME NEW d \in Calls, NEW k \in Keys PROVE EntryServes(d, k)'
  BY <1>e DEF EntryServes
<1>11. ASSUME NEW d \in Calls, NEW e \in Calls PROVE PutServes(d, e)'
  BY <1>6 DEF PutServes, Reading
<1> QED BY <1>7, <1>8, <1>9, <1>10, <1>11 DEF CacheInv

-----------------------------------------------------------------------------
LEMMA CacheInit == ASSUME Init PROVE CacheInv
<1> USE ModelCacheConstants DEF Init
<1>1. TypeOK
  <2>1. version = 0 /\ row \in [Rows -> 0..version] /\ rowDone \in [Rows -> 0..version]
    OBVIOUS
  <2>2. call \in [Calls -> Record]
    BY DEF Idle, Record, Labels
  <2>3. strategy \in {"ReadWrite", "ReadOnly"}
    OBVIOUS
  <2>4. /\ entity \in [Rows -> [seen : 1..version, overtaken : BOOLEAN] \cup {None}]
        /\ entry \in [Keys -> [query : Queries, gen : Nat, seen : 0..version, overtaken : BOOLEAN]
                                \cup {None}]
    OBVIOUS
  <2> QED BY <2>1, <2>2, <2>3, <2>4 DEF TypeOK, Record
<1>2. \A c \in Calls : call[c].at = "idle"
  BY DEF Idle
<1>3. StoreOK
  BY DEF StoreOK
<1> QED BY <1>1, <1>2, <1>3 DEF CacheInv, CallOK, FindOK, GetOK, WriteOK, AnswerOK, Finding,
                                Reading, EntryServes, PutServes

LEMMA CacheStep == ASSUME CacheInv, [Next]_vars PROVE CacheInv'
<1>1. ASSUME NEW c \in Calls, LocalAction(c) PROVE CacheInv'
  BY <1>1, LocalActions
<1>2. ASSUME NEW c \in Calls, PutEntity(c) \/ PutEntry(c) \/ Forget(c) \/ Bump(c) PROVE CacheInv'
  BY <1>2, PutEntityStep, PutEntryStep, ForgetStep, BumpStep
<1>3. ASSUME NEW c \in Calls, NEW r \in Rows, Insert(c, r) \/ Update(c, r) \/ Delete(c, r)
      PROVE  CacheInv'
  BY <1>3, WriteStep DEF Insert, Update, Delete
<1>4. CASE FlushGeneration
  BY <1>4, FlushStep
<1> QED BY <1>1, <1>2, <1>3, <1>4, ExpireStep DEF Next, LocalAction

\* For any number of tasks, rows, statements and keys: what a reader would take
\* from the cache holds every write whose invalidation was finished, unless it was
\* overtaken by a drop or a flush; and what a call answers is of its own SQL, and as
\* new as what was finished when the call began.
THEOREM CacheSafety == Spec => [](TypeOK /\ CacheIsCurrent /\ AnswersAreCurrent)
<1>1. Init => CacheInv
  BY CacheInit
<1>2. CacheInv /\ [Next]_vars => CacheInv'
  BY CacheStep
<1>3. CacheInv => TypeOK /\ CacheIsCurrent /\ AnswersAreCurrent
  BY DEF CacheInv, StoreOK, CallOK, AnswerOK, CacheIsCurrent, AnswersAreCurrent
<1> QED BY <1>1, <1>2, <1>3, PTL DEF Spec

\* The generation read before the rows, and the key dropped after the write, keep
\* the store current.
THEOREM StoreIsCurrent == Spec => []CacheIsCurrent
BY CacheSafety, PTL

\* However fingerprints collide, a get is answered with the rows of its own SQL
\* (of other bindings at most), no older than the last bump finished when it began
\* unless a flush overtook it; a find with a row as new as the last drop of its key
\* finished when it began, unless another drop overtook it.
THEOREM AnswersHoldFinishedWrites == Spec => []AnswersAreCurrent
BY CacheSafety, PTL
=============================================================================
