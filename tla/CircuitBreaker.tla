--------------------------- MODULE CircuitBreaker ---------------------------
(***************************************************************************)
(* The circuit breaker of the HTTP client (rustlavel-client, breaker.rs),   *)
(* for one host; hosts share nothing but the map they are kept in.          *)
(*                                                                          *)
(* Every operation of the code runs under one mutex and is one action here. *)
(* What interleaves are the calls: a permit is taken, the request goes out, *)
(* and its outcome comes back any number of steps and ticks later, or never *)
(* because the caller was cancelled and dropped the permit.                 *)
(*                                                                          *)
(* Instants are kept as ages, in ticks of one bucket width, and an age is   *)
(* not told apart from a larger one once it passed the limit it is compared *)
(* with; so the clock needs no bound.                                       *)
(***************************************************************************)
EXTENDS Integers, Sequences, FiniteSets

CONSTANTS
    Calls,        \* requests that may be in flight at once
    Probes,       \* Settings::probes
    MinimumCalls, \* Settings::minimum_calls
    RateNum, RateDen, \* Settings::failure_rate, as a fraction
    Buckets,      \* BUCKETS: slices of the window
    ResetAfter,   \* Settings::reset_after, in ticks
    MaxInWindow,  \* bound: outcomes counted in one window
    MaxOutages,   \* bound: times the upstream goes down
    MaxDrops,     \* bound: cancelled calls
    MaxResets,    \* bound: calls of `reset'
    Null

VARIABLES
    known,        \* the host has an entry in the map
    opened,       \* age of Circuit::opened_at, or Null
    half,         \* Circuit::half_open
    left,         \* Circuit::probes_left
    wins,         \* Circuit::probe_successes
    buckets,      \* Circuit::buckets, oldest first
    call,         \* each call: none, plain or probe permit in flight
    up,           \* the upstream answers
    outages, drops, resets, \* what is left of the bounds
    recent,       \* history: outcomes counted per age since the window was cleared
    evidence      \* history: the outcomes in the window when the circuit tripped

circuit == <<known, opened, half, left, wins, buckets>>
limits  == <<outages, drops, resets>>
history == <<recent, evidence>>
vars    == <<circuit, call, up, limits, history>>

ASSUME BreakerConstants ==
    /\ IsFiniteSet(Calls)
    /\ Probes \in Nat \ {0} /\ MinimumCalls \in Nat \ {0}
    /\ RateNum \in Nat /\ RateDen \in Nat \ {0} /\ RateNum <= RateDen
    /\ Buckets \in Nat \ {0} /\ ResetAfter \in Nat
    /\ MaxInWindow \in Nat /\ MaxOutages \in Nat /\ MaxDrops \in Nat /\ MaxResets \in Nat
    /\ Null \notin Int

Ages == 0 .. Buckets - 1
Zero == [ok |-> 0, bad |-> 0]
NoOutcomes == [a \in Ages |-> Zero]

InFlight(kind) == {c \in Calls : call[c] = kind}

-----------------------------------------------------------------------------
(* Circuit::state, which also moves an open circuit to half-open.           *)

\* Mutant: the pause has to be exceeded, and the saturated age never does.
ElapsedStrictly == opened # Null /\ ~half /\ opened > ResetAfter

\* The pause is over and nobody has noticed yet.
Elapsed == opened # Null /\ ~half /\ opened >= ResetAfter

IsClosed   == opened = Null
IsHalfOpen == opened # Null /\ (half \/ Elapsed)

\* half_open, probes_left and probe_successes as `state' leaves them.
HalfNow == half \/ Elapsed
LeftNow == IF Elapsed THEN Probes ELSE left
WinsNow == IF Elapsed THEN 0 ELSE wins

-----------------------------------------------------------------------------
(* The sliding window.                                                      *)

Outcome(failed) == [ok |-> IF failed THEN 0 ELSE 1, bad |-> IF failed THEN 1 ELSE 0]
Plus(x, y) == [ok |-> x.ok + y.ok, bad |-> x.bad + y.bad]

\* An outcome goes into the current bucket, or opens it.
Added(b, failed) ==
    IF b # <<>> /\ b[Len(b)].age = 0
    THEN [b EXCEPT ![Len(b)] = [age |-> 0, n |-> Plus(b[Len(b)].n, Outcome(failed))]]
    ELSE Append(b, [age |-> 0, n |-> Outcome(failed)])

\* Mutant: buckets that left the window are kept.
CountForgetsNothing(b, failed) == Added(b, failed)

\* How many buckets at the front have left the window.
Gone(b) == CHOOSE k \in 0 .. Len(b) :
              /\ \A i \in 1 .. k : b[i].age >= Buckets
              /\ k < Len(b) => b[k + 1].age < Buckets

\* Circuit::count: drop what left the window, then add to the current bucket.
count(b, failed) == Added(SubSeq(b, Gone(b) + 1, Len(b)), failed)

\* f[1] + ... + f[n], for outcomes.
Total(f, n) ==
    LET t[k \in 0 .. n] == IF k = 0 THEN Zero ELSE Plus(t[k - 1], f[k])
    IN  t[n]

Sum(b) == Total([i \in DOMAIN b |-> b[i].n], Len(b))

\* total() >= minimum_calls and failure_rate() >= failure_rate
Trips(n) ==
    /\ n.ok + n.bad >= MinimumCalls
    /\ n.bad * RateDen >= RateNum * (n.ok + n.bad)

should_open(b) == opened = Null /\ Trips(Sum(b))

\* The outcomes of the window, added up without buckets.
Recently(r) == Total([i \in 1 .. Buckets |-> r[i - 1]], Buckets)

-----------------------------------------------------------------------------
(* Circuit::open and Circuit::close.                                        *)

open ==
    /\ opened' = 0 /\ half' = FALSE /\ wins' = 0 /\ left' = Probes
    /\ buckets' = <<>> /\ recent' = NoOutcomes

close ==
    /\ opened' = Null /\ half' = FALSE /\ wins' = 0 /\ left' = LeftNow
    /\ buckets' = <<>> /\ recent' = NoOutcomes

StateOnly == half' = HalfNow /\ left' = LeftNow /\ wins' = WinsNow /\ UNCHANGED opened

-----------------------------------------------------------------------------
(* The operations.                                                          *)

\* `state', or an `acquire' that is refused: at most the pause is noticed.
Observe ==
    /\ Elapsed
    /\ StateOnly
    /\ UNCHANGED <<known, buckets, call, up, limits, history>>

\* acquire on a closed circuit.
AcquireClosed(c) ==
    /\ call[c] = "none" /\ IsClosed
    /\ LET n == Recently(recent) IN n.ok + n.bad + Cardinality(InFlight("plain")) < MaxInWindow
    /\ known' = TRUE
    /\ call' = [call EXCEPT ![c] = "plain"]
    /\ UNCHANGED <<opened, half, left, wins, buckets, up, limits, recent, evidence>>

\* acquire on a half-open circuit with a probe left.
AcquireProbe(c) ==
    /\ call[c] = "none" /\ IsHalfOpen /\ LeftNow > 0
    /\ half' = TRUE /\ left' = LeftNow - 1 /\ wins' = WinsNow
    /\ call' = [call EXCEPT ![c] = "probe"]
    /\ UNCHANGED <<known, opened, buckets, up, limits, history>>

\* A request fails only while the upstream is down.
MayFail(failed) == failed => ~up

Done(c) == call' = [call EXCEPT ![c] = "none"]

\* record for a probe that finds the circuit half-open.
ProbeFailed(c) ==
    /\ call[c] = "probe" /\ known /\ IsHalfOpen /\ MayFail(TRUE)
    /\ open /\ Done(c)
    /\ UNCHANGED <<known, up, limits, evidence>>

ProbeSucceeded(c) ==
    /\ call[c] = "probe" /\ known /\ IsHalfOpen
    /\ IF WinsNow + 1 >= Probes
       THEN close /\ evidence' = Null
       ELSE /\ half' = TRUE /\ left' = LeftNow /\ wins' = WinsNow + 1
            /\ UNCHANGED <<opened, buckets, history>>
    /\ Done(c)
    /\ UNCHANGED <<known, up, limits>>

\* A probe overtaken by another probe's failure, or by `reset': not counted.
ProbeLate(c) ==
    /\ call[c] = "probe" /\ ~(known /\ IsHalfOpen)
    /\ Done(c)
    /\ UNCHANGED <<circuit, up, limits, history>>

\* record for every other call, whenever it began.
PlainReported(c, failed) ==
    LET counted == count(buckets, failed)
        logged  == [recent EXCEPT ![0] = Plus(@, Outcome(failed))]
    IN  /\ call[c] = "plain" /\ known /\ MayFail(failed)
        /\ \/ /\ should_open(counted)
              /\ open
              /\ evidence' = Recently(logged)
           \/ /\ ~should_open(counted)
              /\ StateOnly
              /\ buckets' = counted /\ recent' = logged
              /\ UNCHANGED evidence
        /\ Done(c)
        /\ UNCHANGED <<known, up, limits>>

\* The map has no entry for the host: record returns at once.
PlainForgotten(c) ==
    /\ call[c] = "plain" /\ ~known
    /\ Done(c)
    /\ UNCHANGED <<circuit, up, limits, history>>

\* Mutant: a dropped probe keeps its permit.
DroppedKeepsPermit(c) ==
    /\ call[c] # "none" /\ drops > 0
    /\ drops' = drops - 1
    /\ Done(c)
    /\ UNCHANGED <<circuit, up, outages, resets, history>>

\* Permit::drop without a report: a probe gives its permit back.
Dropped(c) ==
    /\ call[c] # "none" /\ drops > 0
    /\ drops' = drops - 1
    /\ left' = IF call[c] = "probe" /\ known THEN left + 1 ELSE left
    /\ Done(c)
    /\ UNCHANGED <<known, opened, half, wins, buckets, up, outages, resets, history>>

reset ==
    /\ resets > 0 /\ known
    /\ resets' = resets - 1
    /\ known' = FALSE
    /\ opened' = Null /\ half' = FALSE /\ left' = 0 /\ wins' = 0 /\ buckets' = <<>>
    /\ recent' = NoOutcomes /\ evidence' = Null
    /\ UNCHANGED <<call, up, outages, drops>>

-----------------------------------------------------------------------------
(* The clock and the upstream.                                              *)

Older(a, limit) == IF a < limit THEN a + 1 ELSE a

\* A bucket width passes.
Tick ==
    /\ opened' = IF opened = Null THEN Null ELSE Older(opened, ResetAfter)
    /\ buckets' = [i \in DOMAIN buckets |->
                    [age |-> Older(buckets[i].age, Buckets), n |-> buckets[i].n]]
    /\ recent' = [a \in Ages |-> IF a = 0 THEN Zero ELSE recent[a - 1]]
    /\ UNCHANGED <<known, half, left, wins, call, up, limits, evidence>>

Outage ==
    /\ up /\ outages > 0
    /\ up' = FALSE /\ outages' = outages - 1
    /\ UNCHANGED <<circuit, call, drops, resets, history>>

Recovery == ~up /\ up' = TRUE /\ UNCHANGED <<circuit, call, limits, history>>

-----------------------------------------------------------------------------
Init ==
    /\ known = FALSE /\ opened = Null /\ half = FALSE /\ left = 0 /\ wins = 0
    /\ buckets = <<>>
    /\ call = [c \in Calls |-> "none"]
    /\ up = TRUE
    /\ outages = MaxOutages /\ drops = MaxDrops /\ resets = MaxResets
    /\ recent = NoOutcomes /\ evidence = Null

Acquire(c) == AcquireClosed(c) \/ AcquireProbe(c)

Report(c) ==
    \/ ProbeFailed(c) \/ ProbeSucceeded(c) \/ ProbeLate(c) \/ PlainForgotten(c)
    \/ \E failed \in BOOLEAN : PlainReported(c, failed)

Next ==
    \/ Observe \/ reset \/ Tick \/ Outage \/ Recovery
    \/ \E c \in Calls : Acquire(c) \/ Report(c) \/ Dropped(c)

\* Time passes, the application keeps calling, and a call in flight ends: by
\* an answer, or by the client's timeout.
Fairness ==
    /\ WF_vars(Tick)
    /\ \A c \in Calls : WF_vars(Acquire(c)) /\ WF_vars(Report(c))

Spec == Init /\ [][Next]_vars /\ Fairness

-----------------------------------------------------------------------------
(* Properties.                                                              *)

\* The circuit's fields and the permits are of the form the code gives them.
TypeOK ==
    /\ known \in BOOLEAN /\ half \in BOOLEAN
    /\ opened \in Nat \cup {Null}
    /\ left \in Nat /\ wins \in Nat
    /\ call \in [Calls -> {"none", "plain", "probe"}]
    /\ drops \in Nat

\* A half-open circuit can still close: the probes that may be taken, are in
\* flight or have succeeded are enough, however calls are cancelled and
\* however late probes of an earlier pause come back (Permit::drop's concern).
NeverWedged ==
    half => left + Cardinality(InFlight("probe")) + wins >= Probes

\* The circuit trips only on what its sliding window really holds: enough
\* outcomes, and enough of them failures, within the last window.
TripsOnEvidence == evidence # Null => Trips(evidence)

\* Once the upstream answers and stays up, the circuit closes and stays so.
Recovers == <>[]up => <>[](opened = Null)
=============================================================================
