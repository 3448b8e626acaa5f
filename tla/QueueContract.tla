--------------------------- MODULE QueueContract ----------------------------
(***************************************************************************)
(* What every queue driver promises (the Queue trait, queue.rs), as a state *)
(* machine: an entry is identified by the id its push returned, and holds   *)
(* the number of times it was handed to a worker.                           *)
(*                                                                          *)
(*  - the id of a push was never used before;                               *)
(*  - an entry is handed out one attempt at a time, and putting it back     *)
(*    keeps the count;                                                      *)
(*  - an entry that was deleted, dead-lettered or cleared is gone for good. *)
(*                                                                          *)
(* A late worker may still dead-letter an entry that is gone: drivers       *)
(* deliver at least once.                                                   *)
(***************************************************************************)
EXTENDS Integers

CONSTANTS Ids, Null

VARIABLES
    entries,  \* id -> attempts handed out, or Null for an entry that is not on the queue
    used,     \* the ids returned so far
    dead      \* the dead-letter store: the ids in it

vars == <<entries, used, dead>>

Init == entries = [i \in Ids |-> Null] /\ used = {} /\ dead = {}

Push(i) ==
    /\ i \notin used
    /\ entries' = [entries EXCEPT ![i] = 0]
    /\ used' = used \cup {i}
    /\ UNCHANGED dead

Pop(i) ==
    /\ entries[i] # Null
    /\ entries' = [entries EXCEPT ![i] = @ + 1]
    /\ UNCHANGED <<used, dead>>

Delete(i) ==
    /\ entries' = [entries EXCEPT ![i] = Null]
    /\ UNCHANGED <<used, dead>>

Fail(i) ==
    /\ i \in used
    /\ entries' = [entries EXCEPT ![i] = Null]
    /\ dead' = dead \cup {i}
    /\ UNCHANGED used

Clear(gone) ==
    /\ entries' = [i \in Ids |-> IF i \in gone THEN Null ELSE entries[i]]
    /\ UNCHANGED <<used, dead>>

\* The dead letters are thrown away (only the memory driver has a call for it).
Flush == dead' = {} /\ UNCHANGED <<entries, used>>

Next ==
    \/ Flush
    \/ \E i \in Ids : Push(i) \/ Pop(i) \/ Delete(i) \/ Fail(i)
    \/ \E gone \in SUBSET Ids : Clear(gone)

Spec == Init /\ [][Next]_vars
=============================================================================
