-------------------------------- MODULE Pool --------------------------------
(***************************************************************************)
(* The connection pool of rustlavel-db (pool.rs) and the credentials that   *)
(* rotate under it (credentials.rs).                                        *)
(*                                                                          *)
(* A permit of a fair semaphore goes with every borrowed connection.  An    *)
(* idle connection waits in a queue, under a lock that is never held across *)
(* an await, labelled with the generation of the credentials its borrower   *)
(* read when it acquired it.  Credentials are rotated in two steps, the     *)
(* pair and then the generation, while acquires, returns and closings run   *)
(* on other threads between any two of their own steps.                     *)
(*                                                                          *)
(* A connection is its label, and the pair it authenticated with: the n-th  *)
(* pair of credentials is the one that generation n announces.              *)
(***************************************************************************)
EXTENDS Integers, Sequences, FiniteSets

CONSTANTS
    Tasks,           \* tasks that borrow connections
    MaxConnections,  \* permits
    NoConnection,    \* a task has none
    MaxGeneration,   \* bound: rotations
    MaxFaults        \* bound: connects that fail, acquires that are cancelled

ASSUME PoolConstants ==
    /\ IsFiniteSet(Tasks)
    /\ MaxConnections \in Nat \ {0}
    /\ MaxGeneration \in Nat /\ MaxFaults \in Nat
    /\ NoConnection \notin [label : Nat, pair : Nat]

VARIABLES
    pair,        \* credentials: the pair to connect with
    generation,  \* credentials: the generation
    idle,        \* the queue of idle connections
    queue,       \* tasks waiting for a permit, the longest wait first
    at,          \* where each task is
    gen,         \* the generation it read
    conn,        \* the connection it has
    floor,       \* history: the last finished rotation when its acquire began
    keeper,      \* retire_superseded: the generation it read, 0 when it is not running
    faults

credentials == <<pair, generation>>
tasks       == <<queue, at, gen, conn, floor>>
poolVars    == <<credentials, idle, tasks, keeper, faults>>

Labels == {"idle", "waiting", "permit", "pop", "closing", "open", "connecting", "holding",
           "returning", "releasing"}

\* The places of a task that has a permit, and of one that has, or is opening, a connection.
Permitted == Labels \ {"idle", "waiting"}
Bearing   == {"closing", "open", "connecting", "holding", "returning"}

\* Mutant: the permit is free before the connection is back in the queue.
PermitsEarly == Cardinality({t \in Tasks : at[t] \in Permitted \ {"returning"}})

\* The permits in use.
Permits == Cardinality({t \in Tasks : at[t] \in Permitted})

Goto(t, label) == at' = [at EXCEPT ![t] = label]

\* The elements of s at the positions in I, in their order.  (In closed
\* form: what SelectSeq computes by recursion is out of the provers' reach.)
Nth(I, n) == CHOOSE k \in I : Cardinality({j \in I : j <= k}) = n
Retained(s, I) == [n \in 1 .. Cardinality(I) |-> s[Nth(I, n)]]

\* The end of an acquire or of a borrow: the connection and the permit are gone.
Leave(t) ==
    /\ at' = [at EXCEPT ![t] = "idle"]
    /\ conn' = [conn EXCEPT ![t] = NoConnection]
    /\ gen' = [gen EXCEPT ![t] = 0]
    /\ floor' = [floor EXCEPT ![t] = 0]

-----------------------------------------------------------------------------
\* acquire: wait in line for a permit.
WaitForPermit(t) ==
    /\ at[t] = "idle"
    /\ queue' = Append(queue, t)
    /\ Goto(t, "waiting")
    /\ floor' = [floor EXCEPT ![t] = generation]
    /\ UNCHANGED <<credentials, idle, gen, conn, keeper, faults>>

\* Mutant: whoever comes first takes the permit.
PermitAnyone(t) ==
    /\ at[t] = "waiting"
    /\ Permits < MaxConnections
    /\ queue' = Retained(queue, {i \in DOMAIN queue : queue[i] # t})
    /\ Goto(t, "permit")
    /\ UNCHANGED <<credentials, idle, gen, conn, floor, keeper, faults>>

Permit(t) ==
    /\ queue # <<>> /\ Head(queue) = t
    /\ Permits < MaxConnections
    /\ queue' = Tail(queue)
    /\ Goto(t, "permit")
    /\ UNCHANGED <<credentials, idle, gen, conn, floor, keeper, faults>>

ReadGeneration(t) ==
    /\ at[t] = "permit"
    /\ gen' = [gen EXCEPT ![t] = generation]
    /\ Goto(t, "pop")
    /\ UNCHANGED <<credentials, idle, queue, conn, floor, keeper, faults>>

\* Mutant: an idle connection is taken whatever its generation.
PopAny(t) ==
    /\ at[t] = "pop"
    /\ IF idle = <<>>
       THEN Goto(t, "open") /\ UNCHANGED <<idle, conn>>
       ELSE /\ idle' = Tail(idle)
            /\ conn' = [conn EXCEPT ![t] = Head(idle)]
            /\ Goto(t, "holding")
    /\ UNCHANGED <<credentials, queue, gen, floor, keeper, faults>>

\* The head of the idle queue, if it is of the generation read; one that is not is
\* closed, and the next one tried; with none left a connection is opened.
Pop(t) ==
    /\ at[t] = "pop"
    /\ IF idle = <<>>
       THEN Goto(t, "open") /\ UNCHANGED <<idle, conn>>
       ELSE /\ idle' = Tail(idle)
            /\ conn' = [conn EXCEPT ![t] = Head(idle)]
            /\ Goto(t, IF Head(idle).label = gen[t] THEN "holding" ELSE "closing")
    /\ UNCHANGED <<credentials, queue, gen, floor, keeper, faults>>

Closed(t) ==
    /\ at[t] = "closing"
    /\ conn' = [conn EXCEPT ![t] = NoConnection]
    /\ Goto(t, "pop")
    /\ UNCHANGED <<credentials, idle, queue, gen, floor, keeper, faults>>

\* connect: the pair is read when the driver starts.
Open(t) ==
    /\ at[t] = "open"
    /\ conn' = [conn EXCEPT ![t] = [label |-> gen[t], pair |-> pair]]
    /\ Goto(t, "connecting")
    /\ UNCHANGED <<credentials, idle, queue, gen, floor, keeper, faults>>

Connected(t) ==
    /\ at[t] = "connecting"
    /\ Goto(t, "holding")
    /\ UNCHANGED <<credentials, idle, queue, gen, conn, floor, keeper, faults>>

\* The server refuses, or the acquire is cancelled at one of its awaits.
Fail(t) ==
    /\ at[t] \in {"waiting", "closing", "connecting"} /\ faults < MaxFaults
    /\ queue' = Retained(queue, {i \in DOMAIN queue : queue[i] # t})
    /\ Leave(t)
    /\ faults' = faults + 1
    /\ UNCHANGED <<credentials, idle, keeper>>

-----------------------------------------------------------------------------
\* drop: a connection that is broken, in a transaction or of an older generation is
\* closed by a task of its own, which the permit does not wait for.
DropCheck(t) ==
    /\ at[t] = "holding"
    /\ \E spoiled \in BOOLEAN :
           IF spoiled \/ conn[t].label # generation
           THEN Leave(t)
           ELSE Goto(t, "returning") /\ UNCHANGED <<conn, gen, floor>>
    /\ UNCHANGED <<credentials, idle, queue, keeper, faults>>

\* Otherwise it goes to the back of the queue, and then the permit is released.
PushBack(t) ==
    /\ at[t] = "returning"
    /\ idle' = Append(idle, conn[t])
    /\ conn' = [conn EXCEPT ![t] = NoConnection]
    /\ Goto(t, "releasing")
    /\ UNCHANGED <<credentials, queue, gen, floor, keeper, faults>>

Release(t) ==
    /\ at[t] = "releasing"
    /\ Leave(t)
    /\ UNCHANGED <<credentials, idle, queue, keeper, faults>>

-----------------------------------------------------------------------------
\* rotate: the pair is replaced, then the generation moved on; two rotations may
\* interleave.
RotateWrite ==
    /\ pair < MaxGeneration
    /\ pair' = pair + 1
    /\ UNCHANGED <<generation, idle, tasks, keeper, faults>>

RotateBump ==
    /\ generation < pair
    /\ generation' = generation + 1
    /\ UNCHANGED <<pair, idle, tasks, keeper, faults>>

-----------------------------------------------------------------------------
\* close_idle, one turn of its loop: the head of the queue.
CloseIdle ==
    /\ idle # <<>>
    /\ idle' = Tail(idle)
    /\ UNCHANGED <<credentials, tasks, keeper, faults>>

\* close: everything that is idle at once.
Close ==
    /\ idle # <<>>
    /\ idle' = <<>>
    /\ UNCHANGED <<credentials, tasks, keeper, faults>>

\* retire_superseded: the generation is read, then the queue sorted under the lock.
Retire ==
    /\ keeper = 0
    /\ keeper' = generation
    /\ UNCHANGED <<credentials, idle, tasks, faults>>

RetireSort ==
    /\ keeper # 0
    /\ idle' = Retained(idle, {i \in DOMAIN idle : idle[i].label = keeper})
    /\ keeper' = 0
    /\ UNCHANGED <<credentials, tasks, faults>>

PoolInit ==
    /\ pair = 1 /\ generation = 1
    /\ idle = <<>> /\ queue = <<>>
    /\ at = [t \in Tasks |-> "idle"] /\ gen = [t \in Tasks |-> 0]
    /\ conn = [t \in Tasks |-> NoConnection] /\ floor = [t \in Tasks |-> 0]
    /\ keeper = 0 /\ faults = 0

Step(t) ==
    \/ Permit(t) \/ ReadGeneration(t) \/ Pop(t) \/ Closed(t) \/ Open(t) \/ Connected(t)
    \/ DropCheck(t) \/ PushBack(t) \/ Release(t)

PoolNext ==
    \/ \E t \in Tasks : WaitForPermit(t) \/ Step(t) \/ Fail(t)
    \/ RotateWrite \/ RotateBump
    \/ CloseIdle \/ Close \/ Retire \/ RetireSort

\* A task that can go on does: the executor polls it, the server answers a
\* connect or a close, and a borrower finishes with its connection.
PoolSpec == PoolInit /\ [][PoolNext]_poolVars /\ \A t \in Tasks : WF_poolVars(Step(t))

-----------------------------------------------------------------------------
Connections == [label : Nat, pair : Nat]

\* Every variable holds what its field or its task can hold.
PoolTypeOK ==
    /\ pair \in Nat /\ generation \in Nat
    /\ idle \in Seq(Connections) /\ queue \in Seq(Tasks)
    /\ at \in [Tasks -> Labels] /\ gen \in [Tasks -> Nat] /\ floor \in [Tasks -> Nat]
    /\ conn \in [Tasks -> Connections \cup {NoConnection}]
    /\ keeper \in Nat
    /\ faults \in Nat

\* The pool never has more connections to work with than it has permits, idle ones
\* counted: a connection is back in the queue before its permit is free, so nobody
\* opens another one while it is on its way.  (The sockets that are being closed
\* are not counted: no permit waits for them.)
WithinCapacity ==
    Len(idle) + Cardinality({t \in Tasks : at[t] \in Bearing}) <= MaxConnections

\* An acquire that begins after a rotation has returned is never given a connection
\* that authenticated with the credentials from before it, whatever is idle, coming
\* back or being opened meanwhile.
FreshCredentials ==
    \A t \in Tasks : at[t] \in {"holding", "returning"} => conn[t].pair >= floor[t]

\* Everyone who waits in line for a connection is let in or gives up.
EveryoneServed ==
    \A t \in Tasks : at[t] = "waiting" ~> at[t] # "waiting"
=============================================================================
