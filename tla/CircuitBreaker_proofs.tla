------------------------ MODULE CircuitBreaker_proofs -----------------------
(***************************************************************************)
(* The circuit breaker and the connection pool, for any number of calls,    *)
(* probes, buckets, tasks, permits and rotations.                           *)
(*                                                                          *)
(* That a half-open circuit can always close takes two more facts: only a   *)
(* circuit that is in the map is open, and only an open one is half-open    *)
(* (BreakerInv).  Without them a late probe or a dropped one could take its *)
(* permit along.                                                            *)
(*                                                                          *)
(* That it trips on evidence only compares two sums, over the buckets and   *)
(* over the ages in the window.  WindowInv says that the buckets in the     *)
(* window become younger from the front to the back, and that each holds what *)
(* was counted at its age; what an age has and no bucket does is nothing.   *)
(*                                                                          *)
(* The second part is about Pool, whose permits go the same ways.  The two  *)
(* share no state.                                                          *)
(***************************************************************************)
EXTENDS CircuitBreaker, Pool, FiniteSetTheorems, SequenceTheorems, WellFoundedInduction, TLAPS

OpenIsKnown == opened # Null => known
HalfIsOpen  == half => opened # Null

BreakerInv == TypeOK /\ OpenIsKnown /\ HalfIsOpen /\ NeverWedged

Flying == Cardinality(InFlight("probe"))

\* The probes in flight are finitely many, so they can be counted.
LEMMA FlyingNat ==
    ASSUME TypeOK
    PROVE  IsFiniteSet(InFlight("probe")) /\ Flying \in Nat
<1>1. InFlight("probe") \subseteq Calls
  BY DEF InFlight
<1>2. IsFiniteSet(Calls)
  BY BreakerConstants
<1>3. IsFiniteSet(InFlight("probe"))
  BY <1>1, <1>2, FS_Subset
<1> QED
  BY <1>3, FS_CardinalityType DEF Flying

\* A permit handed out as a probe adds one.
LEMMA ProbeTaken ==
    ASSUME TypeOK, NEW c \in Calls, call[c] = "none",
           call' = [call EXCEPT ![c] = "probe"]
    PROVE  Flying' = Flying + 1
<1>1. InFlight("probe")' = InFlight("probe") \cup {c}
  BY DEF InFlight, TypeOK
<1>2. c \notin InFlight("probe")
  BY DEF InFlight
<1> QED
  BY <1>1, <1>2, FlyingNat, FS_AddElement DEF Flying

\* A probe that is reported or dropped takes one away.
LEMMA ProbeEnded ==
    ASSUME TypeOK, NEW c \in Calls, call[c] = "probe", Done(c)
    PROVE  Flying' = Flying - 1
<1>1. InFlight("probe")' = InFlight("probe") \ {c}
  BY DEF InFlight, TypeOK, Done
<1>2. c \in InFlight("probe")
  BY DEF InFlight
<1> QED
  BY <1>1, <1>2, FlyingNat, FS_RemoveElement DEF Flying

\* Other calls come and go without touching the probes.
LEMMA PlainComesAndGoes ==
    ASSUME TypeOK, NEW c \in Calls, call[c] # "probe", NEW k \in {"none", "plain"},
           call' = [call EXCEPT ![c] = k]
    PROVE  Flying' = Flying
<1>1. InFlight("probe")' = InFlight("probe")
  BY DEF InFlight, TypeOK
<1> QED
  BY <1>1 DEF Flying

LEMMA StateFieldsTyped ==
    ASSUME TypeOK
    PROVE  HalfNow \in BOOLEAN /\ LeftNow \in Nat /\ WinsNow \in Nat
  BY BreakerConstants DEF TypeOK, HalfNow, LeftNow, WinsNow, Elapsed

\* What `state' leaves satisfies the claim whenever the circuit is half-open.
LEMMA StateKeepsPermits ==
    ASSUME BreakerInv, HalfNow
    PROVE  LeftNow + Flying + WinsNow >= Probes
<1>1. Flying \in Nat
  BY FlyingNat DEF BreakerInv
<1>2. CASE Elapsed
  BY <1>1, <1>2, BreakerConstants DEF LeftNow, WinsNow
<1>3. CASE ~Elapsed
  BY <1>3 DEF LeftNow, WinsNow, HalfNow, BreakerInv, NeverWedged, Flying
<1> QED
  BY <1>2, <1>3

\* The circuit starts closed.
LEMMA InitInv == Init => BreakerInv
<1> SUFFICES ASSUME Init
             PROVE  BreakerInv
  OBVIOUS
<1>1. known = FALSE /\ opened = Null /\ half = FALSE /\ left = 0 /\ wins = 0 /\ drops = MaxDrops
  BY DEF Init
<1>2. call \in [Calls -> {"none", "plain", "probe"}]
  BY DEF Init
<1>3. TypeOK
  BY <1>1, <1>2, BreakerConstants DEF TypeOK
<1> QED
  BY <1>1, <1>3 DEF BreakerInv, OpenIsKnown, HalfIsOpen, NeverWedged

LEMMA NextInv == BreakerInv /\ [Next]_vars => BreakerInv'
<1> SUFFICES ASSUME BreakerInv, [Next]_vars
             PROVE  BreakerInv'
  OBVIOUS
<1> USE BreakerConstants
<1>t. TypeOK /\ OpenIsKnown /\ HalfIsOpen /\ NeverWedged
  BY DEF BreakerInv
<1>f. Flying \in Nat
  BY <1>t, FlyingNat
<1>s. HalfNow \in BOOLEAN /\ LeftNow \in Nat /\ WinsNow \in Nat
  BY <1>t, StateFieldsTyped
<1>k. HalfNow => LeftNow + Flying + WinsNow >= Probes
  BY StateKeepsPermits
\* A circuit that open, close or reset has left is not half-open.
<1>n. ASSUME TypeOK', half' = FALSE, opened' # Null => known'
      PROVE  BreakerInv'
  BY <1>n DEF BreakerInv, OpenIsKnown, HalfIsOpen, NeverWedged
<1>w. ASSUME TypeOK', opened' # Null => known', half' => opened' # Null,
             half' => left' + Flying' + wins' >= Probes
      PROVE  BreakerInv'
  BY <1>w DEF BreakerInv, OpenIsKnown, HalfIsOpen, NeverWedged, Flying
<1>1. CASE Observe
  <2>1. TypeOK'
    BY <1>1, <1>t, <1>s DEF Observe, StateOnly, TypeOK, limits
  <2>2. Flying' = Flying
    BY <1>1 DEF Observe, Flying, InFlight
  <2>3. half' = HalfNow /\ left' = LeftNow /\ wins' = WinsNow /\ opened' = opened /\ known' = known
    BY <1>1 DEF Observe, StateOnly
  <2>4. HalfNow => opened # Null
    BY <1>t DEF HalfNow, Elapsed, HalfIsOpen
  <2> QED
    BY <2>1, <2>2, <2>3, <2>4, <1>k, <1>t, <1>w DEF OpenIsKnown
<1>2. CASE reset
  BY <1>2, <1>t, <1>n DEF reset, TypeOK
<1>3. CASE Tick
  <2>1. opened' \in Nat \cup {Null} /\ (opened' # Null <=> opened # Null)
    BY <1>3, <1>t DEF Tick, TypeOK, Older
  <2>2. TypeOK'
    BY <1>3, <1>t, <2>1 DEF Tick, TypeOK, limits
  <2>3. Flying' = Flying
    BY <1>3 DEF Tick, Flying, InFlight
  <2> QED
    BY <1>3, <2>1, <2>2, <2>3, <1>t, <1>w DEF Tick, OpenIsKnown, HalfIsOpen, NeverWedged, Flying
<1>4. CASE Outage \/ Recovery
  <2>1. TypeOK'
    BY <1>4, <1>t DEF Outage, Recovery, TypeOK, circuit, limits
  <2>2. Flying' = Flying
    BY <1>4 DEF Outage, Recovery, Flying, InFlight
  <2> QED
    BY <1>4, <2>1, <2>2, <1>t, <1>w DEF Outage, Recovery, circuit, OpenIsKnown, HalfIsOpen, NeverWedged, Flying
<1>5. CASE UNCHANGED vars
  <2>1. TypeOK'
    BY <1>5, <1>t DEF vars, TypeOK, circuit, limits
  <2>2. Flying' = Flying
    BY <1>5 DEF vars, Flying, InFlight
  <2> QED
    BY <1>5, <2>1, <2>2, <1>t, <1>w DEF vars, circuit, OpenIsKnown, HalfIsOpen, NeverWedged, Flying
<1>6. ASSUME NEW c \in Calls, AcquireClosed(c)
      PROVE  BreakerInv'
  <2>1. TypeOK'
    BY <1>6, <1>t DEF AcquireClosed, TypeOK, limits
  <2>2. half = FALSE
    BY <1>6, <1>t DEF AcquireClosed, IsClosed, HalfIsOpen, TypeOK
  <2> QED
    BY <1>6, <2>1, <2>2, <1>n DEF AcquireClosed
<1>7. ASSUME NEW c \in Calls, AcquireProbe(c)
      PROVE  BreakerInv'
  <2>1. LeftNow - 1 \in Nat
    BY <1>7, <1>s DEF AcquireProbe
  <2>2. TypeOK'
    BY <1>7, <1>t, <1>s, <2>1 DEF AcquireProbe, TypeOK, limits
  <2>3. Flying' = Flying + 1
    BY <1>7, <1>t, ProbeTaken DEF AcquireProbe
  <2>4. HalfNow /\ opened # Null
    BY <1>7 DEF AcquireProbe, IsHalfOpen, HalfNow
  <2>5. left' + Flying' + wins' >= Probes
    BY <1>7, <1>s, <1>f, <1>k, <2>3, <2>4 DEF AcquireProbe
  <2> QED
    BY <1>7, <2>2, <2>4, <2>5, <1>t, <1>w DEF AcquireProbe, OpenIsKnown
<1>8. ASSUME NEW c \in Calls, ProbeFailed(c)
      PROVE  BreakerInv'
  <2>1. TypeOK'
    BY <1>8, <1>t DEF ProbeFailed, open, Done, TypeOK, limits
  <2> QED
    BY <1>8, <2>1, <1>n DEF ProbeFailed, open
<1>9. ASSUME NEW c \in Calls, ProbeSucceeded(c)
      PROVE  BreakerInv'
  <2>1. CASE WinsNow + 1 >= Probes
    <3>1. close /\ Done(c) /\ known' = known /\ drops' = drops
      BY <1>9, <2>1 DEF ProbeSucceeded, limits
    <3>2. call' \in [Calls -> {"none", "plain", "probe"}]
      BY <3>1, <1>t DEF Done, TypeOK
    <3>3. opened' = Null /\ half' = FALSE /\ wins' = 0 /\ left' = LeftNow
      BY <3>1 DEF close
    <3>4. TypeOK'
      BY <3>1, <3>2, <3>3, <1>t, <1>s DEF TypeOK
    <3> QED
      BY <3>3, <3>4, <1>n
  <2>2. CASE ~(WinsNow + 1 >= Probes)
    <3>1. TypeOK'
      BY <1>9, <2>2, <1>t, <1>s DEF ProbeSucceeded, Done, TypeOK, limits
    <3>2. Flying' = Flying - 1
      BY <1>9, <1>t, ProbeEnded DEF ProbeSucceeded
    <3>3. HalfNow /\ opened # Null
      BY <1>9 DEF ProbeSucceeded, IsHalfOpen, HalfNow
    <3>4. left' = LeftNow /\ wins' = WinsNow + 1 /\ opened' = opened /\ known' = known
      BY <1>9, <2>2 DEF ProbeSucceeded
    <3>5. left' + Flying' + wins' >= Probes
      BY <1>s, <1>f, <1>k, <3>2, <3>3, <3>4
    <3> QED
      BY <3>1, <3>3, <3>4, <3>5, <1>t, <1>w DEF OpenIsKnown
  <2> QED
    BY <2>1, <2>2
<1>10. ASSUME NEW c \in Calls, ProbeLate(c)
       PROVE  BreakerInv'
  <2>1. TypeOK'
    BY <1>10, <1>t DEF ProbeLate, Done, TypeOK, circuit, limits
  <2>2. half = FALSE
    BY <1>10, <1>t DEF ProbeLate, IsHalfOpen, HalfIsOpen, OpenIsKnown, TypeOK
  <2> QED
    BY <1>10, <2>1, <2>2, <1>t, <1>n DEF ProbeLate, circuit, OpenIsKnown
<1>11. ASSUME NEW c \in Calls, PlainForgotten(c)
       PROVE  BreakerInv'
  <2>1. TypeOK'
    BY <1>11, <1>t DEF PlainForgotten, Done, TypeOK, circuit, limits
  <2>2. half = FALSE
    BY <1>11, <1>t DEF PlainForgotten, HalfIsOpen, OpenIsKnown, TypeOK
  <2> QED
    BY <1>11, <2>1, <2>2, <1>t, <1>n DEF PlainForgotten, circuit, OpenIsKnown
<1>12. ASSUME NEW c \in Calls, NEW failed \in BOOLEAN, PlainReported(c, failed)
       PROVE  BreakerInv'
  <2>1. known /\ known' = known /\ call' = [call EXCEPT ![c] = "none"] /\ call[c] # "probe"
    BY <1>12 DEF PlainReported, Done
  <2>2. drops' = drops
    BY <1>12 DEF PlainReported, limits
  <2>3. call' \in [Calls -> {"none", "plain", "probe"}]
    BY <2>1, <1>t DEF TypeOK
  <2>4. open \/ StateOnly
    BY <1>12 DEF PlainReported
  <2>5. CASE open
    <3>1. TypeOK'
      BY <2>1, <2>2, <2>3, <2>5, <1>t DEF open, TypeOK
    <3> QED
      BY <3>1, <2>1, <2>5, <1>n DEF open
  <2>6. CASE StateOnly
    <3>1. TypeOK'
      BY <2>1, <2>2, <2>3, <2>6, <1>t, <1>s DEF StateOnly, TypeOK
    <3>2. Flying' = Flying
      BY <2>1, <1>t, PlainComesAndGoes
    <3>3. HalfNow => opened # Null
      BY <1>t DEF HalfNow, Elapsed, HalfIsOpen
    <3> QED
      BY <3>1, <3>2, <3>3, <2>1, <2>6, <1>k, <1>w DEF StateOnly
  <2> QED
    BY <2>4, <2>5, <2>6
<1>13. ASSUME NEW c \in Calls, Dropped(c)
       PROVE  BreakerInv'
  <2>1. TypeOK'
    BY <1>13, <1>t DEF Dropped, Done, TypeOK
  <2>2. CASE call[c] = "probe"
    <3>1. Flying' = Flying - 1
      BY <1>13, <2>2, <1>t, ProbeEnded DEF Dropped
    <3>2. half => left' = left + 1
      BY <1>13, <2>2, <1>t DEF Dropped, HalfIsOpen, OpenIsKnown
    <3>3. half => left' + Flying' + wins >= Probes
      BY <3>1, <3>2, <1>t, <1>f DEF NeverWedged, Flying, TypeOK
    <3> QED
      BY <1>13, <2>1, <3>3, <1>t, <1>w DEF Dropped, OpenIsKnown, HalfIsOpen
  <2>3. CASE call[c] # "probe"
    <3>1. Flying' = Flying
      BY <1>13, <2>3, <1>t, PlainComesAndGoes DEF Dropped, Done
    <3>2. left' = left
      BY <1>13, <2>3 DEF Dropped
    <3> QED
      BY <1>13, <2>1, <3>1, <3>2, <1>t, <1>w DEF Dropped, OpenIsKnown, HalfIsOpen, NeverWedged, Flying
  <2> QED
    BY <2>2, <2>3
<1> QED
  BY <1>1, <1>2, <1>3, <1>4, <1>5, <1>6, <1>7, <1>8, <1>9, <1>10, <1>11, <1>12, <1>13
     DEF Next, Acquire, Report

\* For any number of concurrent calls, probes and cancellations, a half-open
\* circuit has permits left, in flight or already successful that are enough
\* to close it: dropped and overtaken permits never wedge it.
THEOREM BreakerNeverWedged == Spec => [](TypeOK /\ NeverWedged)
<1>1. Spec => []BreakerInv
  BY InitInv, NextInv, PTL DEF Spec
<1>2. BreakerInv => TypeOK /\ NeverWedged
  BY DEF BreakerInv
<1> QED
  BY <1>1, <1>2, PTL
-----------------------------------------------------------------------------
(* Adding up outcomes.  Induction over a number is by its least             *)
(* counterexample: see LeastNumber.                                         *)

Counts == [ok : Nat, bad : Nat]

LEMMA LeastNumber ==
    ASSUME NEW S, S \subseteq Nat, S # {}
    PROVE  \E m \in S : \A n \in S : m <= n
<1>1. IsWellFoundedOn(OpToRel(<, Nat), Nat)
  BY NatLessThanWellFounded
<1>2. PICK m \in S : \A n \in S : ~(<<n, m>> \in OpToRel(<, Nat))
  BY <1>1, WFMin
<1>3. ASSUME NEW n \in S PROVE m <= n
  <2>1. ~(<<n, m>> \in OpToRel(<, Nat))
    BY <1>2
  <2>2. ~(n < m)
    BY <2>1 DEF OpToRel
  <2> QED
    BY <2>2
<1> QED
  BY <1>3

\* Every number up to n has a property that 0 has and that each passes on to the next.
LEMMA UpTo ==
    ASSUME NEW n \in Nat, NEW S, 0 \in S, \A k \in 0 .. n : (k \in S /\ k < n) => k + 1 \in S
    PROVE  0 .. n \subseteq S
<1>1. SUFFICES ASSUME NEW j \in 0 .. n, j \notin S PROVE FALSE
  OBVIOUS
<1>2. PICK m \in (0 .. n) \ S : \A k \in (0 .. n) \ S : m <= k
  <2>1. (0 .. n) \ S \subseteq Nat /\ (0 .. n) \ S # {}
    BY <1>1
  <2> QED
    BY <2>1, LeastNumber
<1>3. m # 0 /\ m \in Nat /\ m <= n
  BY <1>2
<1>4. m - 1 \in 0 .. n /\ m - 1 < m /\ m - 1 < n /\ (m - 1) + 1 = m
  BY <1>3
<1>5. m - 1 \in S
  BY <1>2, <1>3, <1>4
<1> QED
  BY <1>2, <1>4, <1>5

\* The running totals that Total computes.
Adds(t, f, n) == t = [k \in 0 .. n |-> IF k = 0 THEN Zero ELSE Plus(t[k - 1], f[k])]

LEMMA TotalsExist ==
    ASSUME NEW n \in Nat, NEW f
    PROVE  \E t : Adds(t, f, n)
<1> DEFINE S == {k \in Nat : \E t : Adds(t, f, k)}
<1>1. 0 \in S
  <2>1. Adds([k \in 0 .. 0 |-> Zero], f, 0)
    BY DEF Adds
  <2> QED
    BY <2>1
<1>2. ASSUME NEW k \in 0 .. n, k \in S PROVE k + 1 \in S
  <2>1. PICK t : Adds(t, f, k)
    BY <1>2
  <2>2. PICK u : u = [j \in 0 .. k + 1 |-> IF j <= k THEN t[j] ELSE Plus(t[k], f[k + 1])]
    OBVIOUS
  <2>3. \A j \in 0 .. k + 1 : u[j] = IF j = 0 THEN Zero ELSE Plus(u[j - 1], f[j])
    <3>1. SUFFICES ASSUME NEW j \in 0 .. k + 1 PROVE u[j] = IF j = 0 THEN Zero ELSE Plus(u[j - 1], f[j])
      OBVIOUS
    <3>2. CASE j = 0
      BY <2>1, <2>2, <3>2 DEF Adds
    <3>3. CASE j # 0 /\ j <= k
      <4>1. j - 1 \in 0 .. k + 1 /\ j - 1 <= k /\ j \in 0 .. k
        BY <3>1, <3>3
      <4>2. u[j] = t[j] /\ u[j - 1] = t[j - 1]
        BY <2>2, <3>1, <3>3, <4>1
      <4>3. t[j] = Plus(t[j - 1], f[j])
        BY <2>1, <3>3, <4>1 DEF Adds
      <4> QED
        BY <3>3, <4>2, <4>3
    <3>4. CASE j = k + 1
      <4>1. u[k + 1] = Plus(t[k], f[k + 1]) /\ u[k] = t[k] /\ (k + 1) - 1 = k /\ k + 1 # 0
        BY <1>2, <2>2
      <4> QED
        BY <3>4, <4>1
    <3> QED
      BY <1>2, <3>1, <3>2, <3>3, <3>4
  <2>4. Adds(u, f, k + 1)
    BY <2>2, <2>3, Zenon DEF Adds
  <2> QED
    BY <1>2, <2>4
<1>3. 0 .. n \subseteq S
  BY <1>1, <1>2, UpTo
<1> QED
  BY <1>3

\* What Total computes: the last of the running totals.
LEMMA TotalIs ==
    ASSUME NEW n \in Nat, NEW f
    PROVE  \E t : Adds(t, f, n) /\ Total(f, n) = t[n]
<1>1. PICK t : t = CHOOSE u : u = [k \in 0 .. n |-> IF k = 0 THEN Zero ELSE Plus(u[k - 1], f[k])]
  OBVIOUS
<1>2. Adds(t, f, n)
  BY <1>1, TotalsExist, Zenon DEF Adds
<1>3. Total(f, n) = t[n]
  BY <1>1 DEF Total
<1> QED
  BY <1>2, <1>3

\* Its fields are running totals of numbers.
LEMMA TotalsTyped ==
    ASSUME NEW n \in Nat, NEW f, \A k \in 1 .. n : f[k] \in Counts, NEW t, Adds(t, f, n)
    PROVE  /\ \A k \in 0 .. n : t[k] \in Counts
           /\ t[0] = Zero
           /\ \A k \in 1 .. n : t[k].ok = t[k - 1].ok + f[k].ok /\ t[k].bad = t[k - 1].bad + f[k].bad
<1>1. t[0] = Zero /\ \A k \in 1 .. n : t[k] = Plus(t[k - 1], f[k])
  BY DEF Adds
<1> DEFINE S == {k \in Nat : t[k] \in Counts}
<1>2. 0 \in S
  BY <1>1 DEF Zero, Counts
<1>3. ASSUME NEW k \in 0 .. n, k \in S, k < n PROVE k + 1 \in S
  <2>1. t[k + 1] = Plus(t[k], f[k + 1]) /\ f[k + 1] \in Counts
    BY <1>1, <1>3
  <2> QED
    BY <1>3, <2>1 DEF Plus, Counts
<1>4. 0 .. n \subseteq S
  BY <1>2, <1>3, UpTo
<1>5. ASSUME NEW k \in 1 .. n
      PROVE  t[k].ok = t[k - 1].ok + f[k].ok /\ t[k].bad = t[k - 1].bad + f[k].bad
  <2>1. t[k] = Plus(t[k - 1], f[k])
    BY <1>1
  <2>2. PICK x : x = t[k - 1].ok + f[k].ok
    OBVIOUS
  <2>3. PICK y : y = t[k - 1].bad + f[k].bad
    OBVIOUS
  <2>4. t[k] = [ok |-> x, bad |-> y]
    BY <2>1, <2>2, <2>3, Zenon DEF Plus
  <2>5. t[k].ok = x /\ t[k].bad = y
    BY <2>4
  <2> QED
    BY <2>2, <2>3, <2>5, Zenon
<1>6. \A k \in 0 .. n : t[k] \in Counts
  BY <1>4
<1> QED
  BY <1>1, <1>6, <1>5

\* p[a] is what the ages before a have of r.
Prefix(p, r, b) ==
    /\ p \in [0 .. b -> Nat] /\ r \in [0 .. b - 1 -> Nat]
    /\ p[0] = 0
    /\ \A a \in 0 .. b - 1 : p[a + 1] = p[a] + r[a]

\* A stretch of zeros adds nothing.
LEMMA Flat ==
    ASSUME NEW b \in Nat, NEW p, NEW r, Prefix(p, r, b),
           NEW x \in 0 .. b, NEW y \in 0 .. b, x <= y, \A a \in x .. y - 1 : r[a] = 0
    PROVE  p[y] = p[x]
<1> DEFINE S == {k \in Nat : x + k <= y => p[x + k] = p[x]}
<1>1. 0 \in S
  OBVIOUS
<1>2. ASSUME NEW k \in 0 .. y - x, k \in S, k < y - x PROVE k + 1 \in S
  <2>1. p[x + k] = p[x] /\ x + k \in 0 .. b - 1 /\ x + k \in x .. y - 1 /\ (x + k) + 1 = x + (k + 1)
    BY <1>2
  <2>2. p[(x + k) + 1] = p[x + k] + r[x + k] /\ r[x + k] = 0 /\ p[x] \in Nat
    BY <2>1 DEF Prefix
  <2>3. p[x + (k + 1)] = p[x]
    BY <2>1, <2>2
  <2> QED
    BY <1>2, <2>3
<1>3. PICK d \in Nat : d = y - x
  OBVIOUS
<1>4. 0 .. d \subseteq S
  <2>1. \A k \in 0 .. d : (k \in S /\ k < d) => k + 1 \in S
    BY <1>2, <1>3
  <2> HIDE DEF S
  <2> QED
    BY <1>1, <2>1, UpTo
<1>5. d \in S
  <2> HIDE DEF S
  <2> QED
    BY <1>4
<1>6. x + d = y /\ x + d <= y
  BY <1>3
<1>7. p[x + d] = p[x]
  BY <1>5, <1>6
<1> QED
  BY <1>6, <1>7, Zenon

\* Ages of n buckets, oldest first, all within the window.
Falling(age, n, b) ==
    /\ age \in [1 .. n -> 0 .. b - 1]
    /\ \A i, j \in 1 .. n : i < j => age[j] < age[i]

\* What was counted at an age is in one of the buckets.
Reached(age, n, r, b) == \A a \in 0 .. b - 1 : r[a] = 0 \/ \E i \in 1 .. n : age[i] = a

\* g[i] is what the first i buckets have.
Gathers(g, age, n, r) ==
    /\ g \in [0 .. n -> Nat] /\ g[0] = 0
    /\ \A i \in 1 .. n : g[i] = g[i - 1] + r[age[i]]

\* The age of the i-th bucket, and the window's length before the first.
Top(age, b, i) == IF i = 0 THEN b ELSE age[i]

LEMMA TopTyped ==
    ASSUME NEW b \in Nat, NEW n \in Nat, NEW age, Falling(age, n, b), NEW i \in 0 .. n
    PROVE  Top(age, b, i) \in 0 .. b
<1>1. CASE i = 0
  BY <1>1 DEF Top
<1>2. CASE i # 0
  <2>1. i \in 1 .. n
    BY <1>2
  <2>2. age[i] \in 0 .. b - 1
    BY <2>1 DEF Falling
  <2> QED
    BY <1>2, <2>2 DEF Top
<1> QED
  BY <1>1, <1>2

LEMMA TopFalls ==
    ASSUME NEW b \in Nat, NEW n \in Nat, NEW age, Falling(age, n, b),
           NEW i \in 0 .. n, NEW j \in 1 .. n, i < j
    PROVE  age[j] < Top(age, b, i)
<1>1. age[j] \in 0 .. b - 1
  BY DEF Falling
<1>2. CASE i = 0
  BY <1>1, <1>2 DEF Top
<1>3. CASE i # 0
  <2>1. i \in 1 .. n
    BY <1>3
  <2>2. age[j] < age[i]
    BY <2>1 DEF Falling
  <2> QED
    BY <1>3, <2>2 DEF Top
<1> QED
  BY <1>2, <1>3

LEMMA TopLeast ==
    ASSUME NEW b \in Nat, NEW n \in Nat, NEW age, Falling(age, n, b),
           NEW i \in 0 .. n, NEW j \in 1 .. n, j <= i
    PROVE  Top(age, b, i) <= age[j]
<1>1. i \in 1 .. n /\ i # 0
  OBVIOUS
<1>2. age[i] \in 0 .. b - 1 /\ age[j] \in 0 .. b - 1
  BY <1>1 DEF Falling
<1>3. j < i => age[i] < age[j]
  BY <1>1 DEF Falling
<1>4. j = i \/ j < i
  OBVIOUS
<1> QED
  BY <1>1, <1>2, <1>3, <1>4 DEF Top

\* Between the age of one bucket and that of the next, nothing was counted.
LEMMA GapIsEmpty ==
    ASSUME NEW b \in Nat, NEW n \in Nat, NEW age, NEW r, Falling(age, n, b), Reached(age, n, r, b),
           NEW i \in 0 .. n, NEW x \in 0 .. b - 1, x < Top(age, b, i), i < n => age[i + 1] < x
    PROVE  r[x] = 0
<1>1. SUFFICES ASSUME NEW j \in 1 .. n, age[j] = x PROVE FALSE
  BY DEF Reached
<1>2. CASE j <= i
  <2>1. Top(age, b, i) <= age[j] /\ Top(age, b, i) \in 0 .. b
    BY <1>2, TopLeast, TopTyped
  <2> QED
    BY <1>1, <2>1
<1>3. CASE i < j
  <2>1. i < n /\ i + 1 \in 1 .. n /\ (i + 1 = j \/ i + 1 < j)
    BY <1>3
  <2>2. i + 1 < j => age[j] < age[i + 1]
    BY <2>1 DEF Falling
  <2>3. age[i + 1] \in 0 .. b - 1 /\ age[j] \in 0 .. b - 1
    BY <2>1 DEF Falling
  <2> QED
    BY <1>1, <2>1, <2>2, <2>3
<1> QED
  BY <1>2, <1>3

\* Buckets with falling ages, each with what its age has, and none missing, add up to
\* what the ages add up to.
LEMMA SameSum ==
    ASSUME NEW b \in Nat, NEW n \in Nat, NEW p, NEW r, NEW age, NEW g,
           Prefix(p, r, b), Falling(age, n, b), Reached(age, n, r, b), Gathers(g, age, n, r)
    PROVE  g[n] = p[b]
<1> DEFINE S == {i \in Nat : i <= n => g[i] + p[Top(age, b, i)] = p[b]}
<1>1. 0 \in S
  <2>1. g[0] = 0 /\ p[b] \in Nat
    BY DEF Gathers, Prefix
  <2> QED
    BY <2>1 DEF Top
<1>2. ASSUME NEW i \in 0 .. n, i \in S, i < n PROVE i + 1 \in S
  <2>1. i + 1 \in 1 .. n /\ (i + 1) - 1 = i /\ i \in Nat /\ i + 1 # 0 /\ i < i + 1
    BY <1>2
  <2>2. PICK a \in 0 .. b - 1 : a = age[i + 1]
    BY <2>1 DEF Falling
  <2>3. PICK z \in 0 .. b : z = Top(age, b, i)
    BY TopTyped
  <2>4. a < z
    BY <2>1, <2>2, <2>3, TopFalls
  <2>a. PICK y \in 0 .. b : y = a + 1
    BY <2>2
  <2>5. y <= z /\ \A x \in y .. z - 1 : r[x] = 0
    <3>1. y <= z
      BY <2>a, <2>4
    <3>2. ASSUME NEW x \in y .. z - 1 PROVE r[x] = 0
      <4>1. x \in 0 .. b - 1 /\ x < Top(age, b, i) /\ age[i + 1] < x
        BY <2>a, <2>2, <2>3
      <4> QED
        BY <4>1, GapIsEmpty
    <3> QED
      BY <3>1, <3>2
  <2>6. p[z] = p[y]
    BY <2>5, Flat
  <2>7. p[y] = p[a] + r[a] /\ p[a] \in Nat /\ r[a] \in Nat /\ p[b] \in Nat
    <3>1. a \in 0 .. b /\ a \in 0 .. b - 1 /\ b \in 0 .. b
      BY <2>2
    <3>2. p[a + 1] = p[a] + r[a] /\ r[a] \in Nat
      BY <3>1 DEF Prefix
    <3>3. p[a] \in Nat /\ p[b] \in Nat
      BY <3>1 DEF Prefix
    <3> QED
      BY <3>2, <3>3, <2>a
  <2>8. g[i + 1] = g[i] + r[a] /\ g[i] \in Nat
    BY <2>1, <2>2 DEF Gathers
  <2>9. g[i] + p[z] = p[b]
    BY <1>2, <2>3
  <2>10. g[i + 1] + p[a] = p[b]
    BY <2>6, <2>7, <2>8, <2>9
  <2>11. Top(age, b, i + 1) = a
    BY <2>1, <2>2 DEF Top
  <2> QED
    BY <2>1, <2>10, <2>11
<1>3. n \in S
  <2>1. 0 .. n \subseteq S
    <3> HIDE DEF S
    <3> QED
      BY <1>1, <1>2, UpTo
  <2> HIDE DEF S
  <2> QED
    BY <2>1
<1>4. PICK z \in 0 .. b : z = Top(age, b, n)
  <2>1. n \in 0 .. n
    OBVIOUS
  <2> QED
    BY <2>1, TopTyped
<1>5. g[n] + p[z] = p[b]
  BY <1>3, <1>4
<1>6. \A x \in 0 .. z - 1 : r[x] = 0
  <2>1. SUFFICES ASSUME NEW x \in 0 .. z - 1 PROVE r[x] = 0
    OBVIOUS
  <2>2. x \in 0 .. b - 1 /\ x < Top(age, b, n) /\ n \in 0 .. n
    BY <1>4
  <2> QED
    BY <2>2, GapIsEmpty
<1>7. p[z] = p[0]
  <2>1. 0 \in 0 .. b /\ 0 <= z
    OBVIOUS
  <2> QED
    BY <1>6, <2>1, Flat
<1>8. p[0] = 0 /\ g[n] \in Nat
  BY DEF Prefix, Gathers
<1> QED
  BY <1>5, <1>7, <1>8

-----------------------------------------------------------------------------
(* The buckets hold what was counted in the window.                         *)

Bucket == [age : 0 .. Buckets, n : Counts]

WindowTyped(b, r) == b \in Seq(Bucket) /\ r \in [Ages -> Counts]

\* Buckets in the window become younger from the front to the back.
Ordered(b) == \A i, j \in 1 .. Len(b) : i < j => (b[j].age < b[i].age \/ b[i].age = Buckets)

\* A bucket in the window holds what was counted at its age.
Matches(b, r) == \A i \in 1 .. Len(b) : b[i].age < Buckets => b[i].n = r[b[i].age]

\* Nothing that was counted is missing.
Covers(b, r) == \A a \in Ages : r[a] = Zero \/ \E i \in 1 .. Len(b) : b[i].age = a

WindowOK(b, r) == WindowTyped(b, r) /\ Ordered(b) /\ Matches(b, r) /\ Covers(b, r)

\* All buckets are in the window.
Fresh(b) == \A i \in 1 .. Len(b) : b[i].age < Buckets

LEMMA BucketFields ==
    ASSUME NEW b, b \in Seq(Bucket), NEW i \in 1 .. Len(b)
    PROVE  /\ b[i] \in Bucket
           /\ b[i].age \in 0 .. Buckets /\ b[i].age \in Nat
           /\ b[i].n \in Counts /\ b[i].n.ok \in Nat /\ b[i].n.bad \in Nat
<1>1. b[i] \in Bucket
  BY ElementOfSeq
<1>2. b[i].age \in 0 .. Buckets /\ b[i].n \in Counts
  BY <1>1 DEF Bucket
<1> QED
  BY <1>1, <1>2 DEF Counts

\* The loop that drops old buckets stops, and where it should.
LEMMA GoneIs ==
    ASSUME NEW b, b \in Seq(Bucket)
    PROVE  /\ Gone(b) \in 0 .. Len(b)
           /\ \A i \in 1 .. Gone(b) : b[i].age >= Buckets
           /\ Gone(b) < Len(b) => b[Gone(b) + 1].age < Buckets
<1> DEFINE S == {k \in 0 .. Len(b) : k < Len(b) => b[k + 1].age < Buckets}
<1>n. Len(b) \in Nat /\ Buckets \in Nat
  BY LenProperties, BreakerConstants
<1>1. Len(b) \in S
  BY <1>n
<1>2. PICK m \in S : \A k \in S : m <= k
  <2>1. S \subseteq Nat /\ S # {}
    BY <1>1, <1>n
  <2> HIDE DEF S
  <2> QED
    BY <2>1, LeastNumber
<1>3. ASSUME NEW i \in 1 .. m PROVE b[i].age >= Buckets
  <2>1. i - 1 \in 0 .. Len(b) /\ i - 1 < Len(b) /\ (i - 1) + 1 = i /\ i \in 1 .. Len(b) /\ ~(m <= i - 1)
    BY <1>2, <1>n
  <2>2. i - 1 \notin S
    BY <1>2, <2>1
  <2>3. ~(b[i].age < Buckets) /\ b[i].age \in Nat
    BY <2>1, <2>2, BucketFields
  <2> QED
    BY <2>3, <1>n
<1>4. m \in 0 .. Len(b) /\ (m < Len(b) => b[m + 1].age < Buckets)
  BY <1>2
<1>5. \E k \in 0 .. Len(b) : /\ \A i \in 1 .. k : b[i].age >= Buckets
                             /\ k < Len(b) => b[k + 1].age < Buckets
  BY <1>3, <1>4
<1> QED
  BY <1>5, Zenon DEF Gone

\* What is left of a sequence from a place on.
LEMMA TailPart ==
    ASSUME NEW S, NEW s \in Seq(S), NEW k \in 1 .. Len(s) + 1, NEW t, t = SubSeq(s, k, Len(s))
    PROVE  t \in Seq(S) /\ Len(t) = Len(s) - k + 1 /\ \A i \in 1 .. Len(t) : t[i] = s[k + i - 1]
  OBVIOUS

\* Dropping them leaves the buckets in the window, in order, and loses nothing.
LEMMA WindowTrimmed ==
    ASSUME NEW b, NEW r, WindowOK(b, r), NEW c, c = SubSeq(b, Gone(b) + 1, Len(b))
    PROVE  WindowOK(c, r) /\ Fresh(c)
<1>b. b \in Seq(Bucket) /\ r \in [Ages -> Counts]
  BY DEF WindowOK, WindowTyped
<1>n. Len(b) \in Nat /\ Buckets \in Nat
  BY <1>b, LenProperties, BreakerConstants
<1>g. PICK k \in 0 .. Len(b) : /\ k = Gone(b)
                               /\ \A i \in 1 .. k : b[i].age >= Buckets
                               /\ k < Len(b) => b[k + 1].age < Buckets
  BY <1>b, GoneIs
<1>1. \A i \in k + 1 .. Len(b) : b[i] \in Bucket
  BY <1>b, <1>n, ElementOfSeq
<1>2. PICK m \in Nat : m = Len(b) - k
  BY <1>n
<1>3. c \in Seq(Bucket) /\ Len(c) = m /\ \A i \in 1 .. m : c[i] = b[k + i]
  <2>1. PICK lo \in 1 .. Len(b) + 1 : lo = k + 1
    BY <1>n
  <2>a. c = SubSeq(b, lo, Len(b))
    BY <1>g, <2>1
  <2>b. c \in Seq(Bucket) /\ Len(c) = Len(b) - lo + 1 /\ \A i \in 1 .. Len(c) : c[i] = b[lo + i - 1]
    BY ONLY <1>b, <2>1, <2>a, TailPart
  <2>2. c \in Seq(Bucket) /\ Len(c) = Len(b) - (k + 1) + 1 /\ \A i \in 1 .. Len(c) : c[i] = b[(k + 1) + i - 1]
    BY <2>b, <2>1
  <2>3. Len(c) = m /\ Len(b) - (k + 1) + 1 = m
    BY <2>2, <1>2, <1>n
  <2>4. ASSUME NEW i \in 1 .. m PROVE c[i] = b[k + i]
    <3>1. (k + 1) + i - 1 = k + i
      OBVIOUS
    <3> QED
      BY <2>2, <2>3, <3>1
  <2> QED
    BY <2>2, <2>3, <2>4
<1>4. \A i \in 1 .. m : k + i \in 1 .. Len(b) /\ k + 1 \in 1 .. Len(b)
  BY <1>2, <1>n
<1>5. Fresh(c)
  <2>1. SUFFICES ASSUME NEW i \in 1 .. m PROVE b[k + i].age < Buckets
    BY <1>3 DEF Fresh
  <2>2. k < Len(b) /\ k + i \in 1 .. Len(b) /\ k + 1 \in 1 .. Len(b) /\ (i = 1 \/ k + 1 < k + i)
    BY <1>2, <1>4, <1>n
  <2>3. b[k + 1].age < Buckets
    BY <1>g, <2>2
  <2>4. k + 1 < k + i => (b[k + i].age < b[k + 1].age \/ b[k + 1].age = Buckets)
    BY <2>2 DEF WindowOK, Ordered
  <2>5. b[k + 1].age \in Nat /\ b[k + i].age \in Nat
    BY <1>b, <2>2, BucketFields
  <2> QED
    BY <2>2, <2>3, <2>4, <2>5, <1>n
<1>6. Ordered(c)
  <2>1. SUFFICES ASSUME NEW i \in 1 .. m, NEW j \in 1 .. m, i < j
                 PROVE  b[k + j].age < b[k + i].age \/ b[k + i].age = Buckets
    BY <1>3 DEF Ordered
  <2>2. k + i \in 1 .. Len(b) /\ k + j \in 1 .. Len(b) /\ k + i < k + j
    BY <1>4, <2>1
  <2> QED
    BY <2>2 DEF WindowOK, Ordered
<1>7. Matches(c, r)
  <2>1. SUFFICES ASSUME NEW i \in 1 .. m, b[k + i].age < Buckets PROVE b[k + i].n = r[b[k + i].age]
    BY <1>3 DEF Matches
  <2>2. k + i \in 1 .. Len(b)
    BY <1>4
  <2> QED
    BY <2>1, <2>2 DEF WindowOK, Matches
<1>8. Covers(c, r)
  <2>1. SUFFICES ASSUME NEW a \in Ages, r[a] # Zero PROVE \E i \in 1 .. m : b[k + i].age = a
    BY <1>3 DEF Covers
  <2>2. PICK j \in 1 .. Len(b) : b[j].age = a
    BY <2>1 DEF WindowOK, Covers
  <2>3. ~(b[j].age >= Buckets)
    BY <2>2, <1>n DEF Ages
  <2>4. ~(j \in 1 .. k)
    BY <2>3, <1>g
  <2>5. j - k \in 1 .. m /\ k + (j - k) = j
    BY <2>4, <1>2, <1>n
  <2> QED
    BY <2>2, <2>5
<1> QED
  BY <1>b, <1>3, <1>5, <1>6, <1>7, <1>8 DEF WindowOK, WindowTyped

\* A window of buckets all within it, an outcome counted in the current one: the
\* buckets still hold what the ages hold.
LEMMA WindowCounted ==
    ASSUME NEW b, NEW r, WindowOK(b, r), Fresh(b), NEW failed \in BOOLEAN,
           NEW c, c = Added(b, failed), NEW q, q = [r EXCEPT ![0] = Plus(@, Outcome(failed))]
    PROVE  WindowOK(c, q) /\ Fresh(c)
<1>b. b \in Seq(Bucket) /\ r \in [Ages -> Counts]
  BY DEF WindowOK, WindowTyped
<1>n. PICK m \in Nat : m = Len(b)
  BY <1>b, LenProperties
<1>k. Buckets \in Nat /\ 0 < Buckets /\ 0 \in Ages /\ 0 \in 0 .. Buckets
  BY BreakerConstants DEF Ages
<1>o. PICK o : o = Outcome(failed)
  OBVIOUS
<1>p. o \in Counts
  BY <1>o DEF Outcome, Counts
<1>u. PICK u : u = Plus(r[0], o)
  OBVIOUS
<1>v. u \in Counts
  BY <1>b, <1>k, <1>p, <1>u DEF Plus, Counts
<1>q. q \in [Ages -> Counts] /\ q[0] = u /\ \A a \in Ages : a # 0 => q[a] = r[a]
  BY <1>b, <1>k, <1>o, <1>u, <1>v
<1>f. \A i \in 1 .. m : b[i] \in Bucket /\ b[i].age \in Nat /\ b[i].age < Buckets /\ b[i].n = r[b[i].age]
  <2>1. SUFFICES ASSUME NEW i \in 1 .. m
                 PROVE  b[i] \in Bucket /\ b[i].age \in Nat /\ b[i].age < Buckets /\ b[i].n = r[b[i].age]
    OBVIOUS
  <2>2. i \in 1 .. Len(b)
    BY <1>n
  <2>3. b[i] \in Bucket /\ b[i].age \in Nat
    BY <1>b, <2>2, BucketFields
  <2>4. b[i].age < Buckets
    BY <2>2 DEF Fresh
  <2>5. b[i].n = r[b[i].age]
    BY <2>2, <2>4 DEF WindowOK, Matches
  <2> QED
    BY <2>3, <2>4, <2>5
<1>g. \A i, j \in 1 .. m : i < j => b[j].age < b[i].age
  <2>1. SUFFICES ASSUME NEW i \in 1 .. m, NEW j \in 1 .. m, i < j PROVE b[j].age < b[i].age
    OBVIOUS
  <2>2. b[j].age < b[i].age \/ b[i].age = Buckets
    BY <1>n, <2>1 DEF WindowOK, Ordered
  <2>3. b[i].age \in Nat /\ b[i].age < Buckets
    BY <1>f
  <2> QED
    BY <2>2, <2>3, <1>k
<1>e. \A a \in Ages : r[a] = Zero \/ \E i \in 1 .. m : b[i].age = a
  BY <1>n DEF WindowOK, Covers
\* It is enough to know the new buckets one by one.
<1>x. ASSUME c \in Seq(Bucket), NEW l \in Nat, l = Len(c),
             \A i \in 1 .. l : /\ c[i].age \in Nat /\ c[i].age < Buckets
                               /\ c[i].n = q[c[i].age],
             \A i, j \in 1 .. l : i < j => c[j].age < c[i].age,
             \A a \in Ages : q[a] = Zero \/ \E i \in 1 .. l : c[i].age = a
      PROVE  WindowOK(c, q) /\ Fresh(c)
  <2>1. Fresh(c)
    BY <1>x DEF Fresh
  <2>2. Ordered(c)
    BY <1>x DEF Ordered
  <2>3. Matches(c, q)
    BY <1>x DEF Matches
  <2>4. Covers(c, q)
    BY <1>x DEF Covers
  <2> QED
    BY <1>x, <1>q, <2>1, <2>2, <2>3, <2>4 DEF WindowOK, WindowTyped
<1>1. CASE b # <<>> /\ b[Len(b)].age = 0
  <2>1. m \in 1 .. m /\ m # 0
    BY <1>1, <1>b, <1>n, EmptySeq
  <2>2. b[m].age = 0 /\ b[m].n = r[0]
    BY <1>1, <1>n, <1>f, <2>1
  <2>3. PICK e : e = [age |-> 0, n |-> u]
    OBVIOUS
  <2>4. e \in Bucket /\ e.age = 0 /\ e.n = u
    BY <2>3, <1>v, <1>k DEF Bucket
  <2>5. c = [b EXCEPT ![m] = e]
    <3>1. Plus(b[Len(b)].n, Outcome(failed)) = u
      BY <1>n, <1>o, <1>u, <2>2
    <3> QED
      BY <1>1, <1>n, <2>3, <3>1 DEF Added
  <2>6. c \in Seq(Bucket) /\ Len(c) = m /\ c[m] = e /\ \A i \in 1 .. m : i # m => c[i] = b[i]
    BY <1>b, <1>n, <2>1, <2>4, <2>5, ExceptSeq
  <2>7. \A i \in 1 .. m : i # m => c[i].age # 0
    <3>1. SUFFICES ASSUME NEW i \in 1 .. m, i # m PROVE b[i].age # 0
      BY <2>6
    <3>2. i < m
      BY <3>1
    <3>3. b[m].age < b[i].age /\ b[i].age \in Nat
      BY <3>2, <2>1, <1>g, <1>f
    <3> QED
      BY <3>3, <2>2
  <2>8. \A i \in 1 .. m : c[i].age = b[i].age
    BY <2>2, <2>4, <2>6
  <2>9. ASSUME NEW i \in 1 .. m
        PROVE  c[i].age \in Nat /\ c[i].age < Buckets /\ c[i].n = q[c[i].age]
    <3>1. c[i].age \in Nat /\ c[i].age < Buckets
      BY <2>8, <1>f
    <3>2. CASE i = m
      BY <3>1, <3>2, <2>4, <2>6, <1>q
    <3>3. CASE i # m
      <4>1. c[i] = b[i] /\ c[i].age # 0 /\ c[i].age \in Ages
        BY <3>1, <3>3, <2>6, <2>7, <1>k DEF Ages
      <4>2. q[c[i].age] = r[c[i].age]
        BY <4>1, <1>q
      <4> QED
        BY <3>1, <4>1, <4>2, <1>f
    <3> QED
      BY <3>2, <3>3
  <2>10. \A i, j \in 1 .. m : i < j => c[j].age < c[i].age
    BY <1>g, <2>8
  <2>11. ASSUME NEW a \in Ages PROVE q[a] = Zero \/ \E i \in 1 .. m : c[i].age = a
    <3>1. CASE a = 0
      BY <3>1, <2>1, <2>4, <2>6
    <3>2. CASE a # 0
      BY <3>2, <1>q, <1>e, <2>8
    <3> QED
      BY <3>1, <3>2
  <2> QED
    BY <1>x, <2>6, <2>9, <2>10, <2>11
<1>2. CASE ~(b # <<>> /\ b[Len(b)].age = 0)
  <2>1. \A i \in 1 .. m : 0 < b[i].age
    <3>1. SUFFICES ASSUME NEW i \in 1 .. m PROVE 0 < b[i].age
      OBVIOUS
    <3>2. b # <<>> /\ m \in 1 .. m
      BY <1>b, <1>n, EmptySeq
    <3>3. b[m].age # 0 /\ b[m].age \in Nat /\ b[i].age \in Nat
      BY <1>2, <1>n, <3>2, <1>f
    <3>4. i = m \/ b[m].age < b[i].age
      BY <3>2, <1>g
    <3> QED
      BY <3>3, <3>4
  <2>2. r[0] = Zero
    BY <1>e, <1>k, <2>1
  <2>3. u = o
    BY <2>2, <1>u, <1>o, <1>p DEF Plus, Zero, Outcome
  <2>4. PICK e : e = [age |-> 0, n |-> o]
    OBVIOUS
  <2>5. e \in Bucket /\ e.age = 0 /\ e.n = u
    BY <2>3, <2>4, <1>p, <1>k DEF Bucket
  <2>6. c = Append(b, e)
    BY <1>2, <1>o, <2>4 DEF Added
  <2>7. c \in Seq(Bucket) /\ Len(c) = m + 1 /\ c[m + 1] = e /\ \A i \in 1 .. m : c[i] = b[i]
    BY <1>b, <1>n, <2>5, <2>6, AppendProperties
  <2>8. \A i \in 1 .. m + 1 : i \in 1 .. m \/ i = m + 1
    OBVIOUS
  <2>9. ASSUME NEW i \in 1 .. m + 1
        PROVE  c[i].age \in Nat /\ c[i].age < Buckets /\ c[i].n = q[c[i].age]
    <3>1. CASE i = m + 1
      BY <3>1, <2>5, <2>7, <1>q, <1>k
    <3>2. CASE i \in 1 .. m
      <4>1. c[i] = b[i] /\ b[i].age \in Nat /\ b[i].age < Buckets /\ b[i].age # 0 /\ b[i].n = r[b[i].age]
        BY <3>2, <2>1, <2>7, <1>f
      <4>2. b[i].age \in Ages
        BY <4>1, <1>k DEF Ages
      <4>3. q[b[i].age] = r[b[i].age]
        BY <4>1, <4>2, <1>q
      <4> QED
        BY <4>1, <4>3
    <3> QED
      BY <2>8, <3>1, <3>2
  <2>10. ASSUME NEW i \in 1 .. m + 1, NEW j \in 1 .. m + 1, i < j PROVE c[j].age < c[i].age
    <3>1. i \in 1 .. m
      BY <2>10
    <3>2. CASE j = m + 1
      BY <3>1, <3>2, <2>1, <2>5, <2>7
    <3>3. CASE j \in 1 .. m
      BY <3>1, <3>3, <2>10, <2>7, <1>g
    <3> QED
      BY <2>8, <3>2, <3>3
  <2>11. ASSUME NEW a \in Ages PROVE q[a] = Zero \/ \E i \in 1 .. m + 1 : c[i].age = a
    <3>1. CASE a = 0
      <4>1. m + 1 \in 1 .. m + 1
        OBVIOUS
      <4> QED
        BY <3>1, <4>1, <2>5, <2>7
    <3>2. CASE a # 0
      <4>1. \A i \in 1 .. m : i \in 1 .. m + 1
        OBVIOUS
      <4> QED
        BY <3>2, <4>1, <1>q, <1>e, <2>7
    <3> QED
      BY <3>1, <3>2
  <2>12. PICK l \in Nat : l = m + 1
    OBVIOUS
  <2> QED
    BY <1>x, <2>7, <2>9, <2>10, <2>11, <2>12
<1> QED
  BY <1>1, <1>2

\* The running totals of one field, over the ages.
LEMMA AgesAddUp ==
    ASSUME NEW r \in [Ages -> Counts]
    PROVE  /\ Recently(r) \in Counts
           /\ \E p : Prefix(p, [a \in Ages |-> r[a].ok], Buckets) /\ p[Buckets] = Recently(r).ok
           /\ \E p : Prefix(p, [a \in Ages |-> r[a].bad], Buckets) /\ p[Buckets] = Recently(r).bad
<1>k. Buckets \in Nat
  BY BreakerConstants
<1>1. PICK f : f = [i \in 1 .. Buckets |-> r[i - 1]]
  OBVIOUS
<1>2. \A k \in 1 .. Buckets : f[k] = r[k - 1] /\ f[k] \in Counts
  BY <1>1, <1>k DEF Ages
<1>3. PICK t : Adds(t, f, Buckets) /\ Total(f, Buckets) = t[Buckets]
  BY <1>k, TotalIs
<1>4. Recently(r) = t[Buckets]
  BY <1>1, <1>3 DEF Recently
<1>5. /\ \A k \in 0 .. Buckets : t[k] \in Counts
      /\ t[0] = Zero
      /\ \A k \in 1 .. Buckets : t[k].ok = t[k - 1].ok + f[k].ok /\ t[k].bad = t[k - 1].bad + f[k].bad
  BY <1>2, <1>3, <1>k, TotalsTyped
<1>6. \A k \in 0 .. Buckets : t[k].ok \in Nat /\ t[k].bad \in Nat
  BY <1>5 DEF Counts
<1>7. t[0].ok = 0 /\ t[0].bad = 0
  BY <1>5 DEF Zero
<1>8. \A a \in 0 .. Buckets - 1 : t[a + 1].ok = t[a].ok + r[a].ok /\ t[a + 1].bad = t[a].bad + r[a].bad
  <2>1. SUFFICES ASSUME NEW a \in 0 .. Buckets - 1
                 PROVE  t[a + 1].ok = t[a].ok + r[a].ok /\ t[a + 1].bad = t[a].bad + r[a].bad
    OBVIOUS
  <2>2. a + 1 \in 1 .. Buckets /\ (a + 1) - 1 = a
    BY <1>k
  <2> QED
    BY <2>2, <1>2, <1>5
<1>9. \A a \in 0 .. Buckets - 1 : r[a].ok \in Nat /\ r[a].bad \in Nat /\ a \in Ages
  BY <1>k DEF Counts, Ages
<1>10. \E p : Prefix(p, [a \in Ages |-> r[a].ok], Buckets) /\ p[Buckets] = Recently(r).ok
  <2>1. PICK p : p = [a \in 0 .. Buckets |-> t[a].ok]
    OBVIOUS
  <2>2. PICK s : s = [a \in Ages |-> r[a].ok]
    OBVIOUS
  <2>3. p \in [0 .. Buckets -> Nat] /\ p[0] = 0 /\ p[Buckets] = Recently(r).ok
    BY <2>1, <1>4, <1>6, <1>7, <1>k
  <2>4. s \in [0 .. Buckets - 1 -> Nat]
    BY <2>2, <1>9 DEF Ages
  <2>5. ASSUME NEW a \in 0 .. Buckets - 1 PROVE p[a + 1] = p[a] + s[a]
    <3>1. a \in 0 .. Buckets /\ a + 1 \in 0 .. Buckets /\ a \in Ages
      BY <1>k, <1>9
    <3>2. p[a + 1] = t[a + 1].ok /\ p[a] = t[a].ok /\ s[a] = r[a].ok
      BY <2>1, <2>2, <3>1
    <3> QED
      BY <3>2, <1>8
  <2> QED
    BY <2>2, <2>3, <2>4, <2>5 DEF Prefix
<1>11. \E p : Prefix(p, [a \in Ages |-> r[a].bad], Buckets) /\ p[Buckets] = Recently(r).bad
  <2>1. PICK p : p = [a \in 0 .. Buckets |-> t[a].bad]
    OBVIOUS
  <2>2. PICK s : s = [a \in Ages |-> r[a].bad]
    OBVIOUS
  <2>3. p \in [0 .. Buckets -> Nat] /\ p[0] = 0 /\ p[Buckets] = Recently(r).bad
    BY <2>1, <1>4, <1>6, <1>7, <1>k
  <2>4. s \in [0 .. Buckets - 1 -> Nat]
    BY <2>2, <1>9 DEF Ages
  <2>5. ASSUME NEW a \in 0 .. Buckets - 1 PROVE p[a + 1] = p[a] + s[a]
    <3>1. a \in 0 .. Buckets /\ a + 1 \in 0 .. Buckets /\ a \in Ages
      BY <1>k, <1>9
    <3>2. p[a + 1] = t[a + 1].bad /\ p[a] = t[a].bad /\ s[a] = r[a].bad
      BY <2>1, <2>2, <3>1
    <3> QED
      BY <3>2, <1>8
  <2> QED
    BY <2>2, <2>3, <2>4, <2>5 DEF Prefix
<1>12. Recently(r) \in Counts
  BY <1>4, <1>5, <1>k
<1> QED
  BY <1>10, <1>11, <1>12

\* The running totals of one field, over the buckets.
LEMMA BucketsAddUp ==
    ASSUME NEW b, NEW r, WindowOK(b, r), Fresh(b),
           NEW age, age = [i \in 1 .. Len(b) |-> b[i].age]
    PROVE  /\ Sum(b) \in Counts
           /\ \E g : Gathers(g, age, Len(b), [a \in Ages |-> r[a].ok]) /\ g[Len(b)] = Sum(b).ok
           /\ \E g : Gathers(g, age, Len(b), [a \in Ages |-> r[a].bad]) /\ g[Len(b)] = Sum(b).bad
<1>b. b \in Seq(Bucket) /\ r \in [Ages -> Counts]
  BY DEF WindowOK, WindowTyped
<1>n. PICK m \in Nat : m = Len(b) /\ DOMAIN b = 1 .. m
  BY <1>b, LenProperties
<1>1. PICK f : f = [i \in 1 .. m |-> b[i].n]
  OBVIOUS
<1>2. \A k \in 1 .. m : /\ f[k] = r[age[k]] /\ f[k] \in Counts /\ age[k] \in Ages
  <2>1. SUFFICES ASSUME NEW k \in 1 .. m PROVE f[k] = r[age[k]] /\ f[k] \in Counts /\ age[k] \in Ages
    OBVIOUS
  <2>2. k \in 1 .. Len(b)
    BY <1>n
  <2>3. b[k].age \in Nat /\ b[k].n \in Counts /\ b[k].age < Buckets
    BY <1>b, <2>2, BucketFields DEF Fresh
  <2>4. b[k].n = r[b[k].age]
    BY <2>2, <2>3 DEF WindowOK, Matches
  <2>5. age[k] = b[k].age /\ f[k] = b[k].n
    BY <1>1, <2>2
  <2>6. b[k].age \in Ages
    BY <2>3, BreakerConstants DEF Ages
  <2> QED
    BY <2>3, <2>4, <2>5, <2>6
<1>3. PICK t : Adds(t, f, m) /\ Total(f, m) = t[m]
  BY TotalIs
<1>4. Sum(b) = t[m]
  BY <1>1, <1>3, <1>n DEF Sum
<1>5. /\ \A k \in 0 .. m : t[k] \in Counts
      /\ t[0] = Zero
      /\ \A k \in 1 .. m : t[k].ok = t[k - 1].ok + f[k].ok /\ t[k].bad = t[k - 1].bad + f[k].bad
  <2>1. \A k \in 1 .. m : f[k] \in Counts
    BY <1>2
  <2> QED
    BY ONLY <1>3, <2>1, TotalsTyped, m \in Nat
<1>6. \A k \in 0 .. m : t[k].ok \in Nat /\ t[k].bad \in Nat
  BY <1>5 DEF Counts
<1>7. t[0].ok = 0 /\ t[0].bad = 0
  BY <1>5 DEF Zero
<1>10. \E g : Gathers(g, age, m, [a \in Ages |-> r[a].ok]) /\ g[m] = Sum(b).ok
  <2>1. PICK g : g = [i \in 0 .. m |-> t[i].ok]
    OBVIOUS
  <2>2. PICK s : s = [a \in Ages |-> r[a].ok]
    OBVIOUS
  <2>3. g \in [0 .. m -> Nat] /\ g[0] = 0 /\ g[m] = Sum(b).ok
    BY <2>1, <1>4, <1>6, <1>7
  <2>5. ASSUME NEW i \in 1 .. m PROVE g[i] = g[i - 1] + s[age[i]]
    <3>1. i \in 0 .. m /\ i - 1 \in 0 .. m
      OBVIOUS
    <3>2. g[i] = t[i].ok /\ g[i - 1] = t[i - 1].ok
      BY <2>1, <3>1
    <3>3. s[age[i]] = f[i].ok
      BY <2>2, <1>2
    <3> QED
      BY <3>2, <3>3, <1>5
  <2> QED
    BY <2>2, <2>3, <2>5 DEF Gathers
<1>11. \E g : Gathers(g, age, m, [a \in Ages |-> r[a].bad]) /\ g[m] = Sum(b).bad
  <2>1. PICK g : g = [i \in 0 .. m |-> t[i].bad]
    OBVIOUS
  <2>2. PICK s : s = [a \in Ages |-> r[a].bad]
    OBVIOUS
  <2>3. g \in [0 .. m -> Nat] /\ g[0] = 0 /\ g[m] = Sum(b).bad
    BY <2>1, <1>4, <1>6, <1>7
  <2>5. ASSUME NEW i \in 1 .. m PROVE g[i] = g[i - 1] + s[age[i]]
    <3>1. i \in 0 .. m /\ i - 1 \in 0 .. m
      OBVIOUS
    <3>2. g[i] = t[i].bad /\ g[i - 1] = t[i - 1].bad
      BY <2>1, <3>1
    <3>3. s[age[i]] = f[i].bad
      BY <2>2, <1>2
    <3> QED
      BY <3>2, <3>3, <1>5
  <2> QED
    BY <2>2, <2>3, <2>5 DEF Gathers
<1>12. Sum(b) \in Counts
  BY <1>4, <1>5
<1> QED
  BY <1>10, <1>11, <1>12, <1>n

\* What Circuit::total and Circuit::failures add up is what was counted in the window.
LEMMA WindowSum ==
    ASSUME NEW b, NEW r, WindowOK(b, r), Fresh(b)
    PROVE  Sum(b) = Recently(r)
<1>b. b \in Seq(Bucket) /\ r \in [Ages -> Counts]
  BY DEF WindowOK, WindowTyped
<1>k. Buckets \in Nat
  BY BreakerConstants
<1>n. PICK m \in Nat : m = Len(b)
  BY <1>b, LenProperties
<1>1. PICK age : age = [i \in 1 .. m |-> b[i].age]
  OBVIOUS
<1>2. \A i \in 1 .. m : age[i] = b[i].age /\ age[i] \in 0 .. Buckets - 1
  <2>1. SUFFICES ASSUME NEW i \in 1 .. m PROVE b[i].age \in 0 .. Buckets - 1
    BY <1>1
  <2>2. b[i].age \in Nat /\ b[i].age < Buckets
    BY <1>b, <1>n, BucketFields DEF Fresh
  <2> QED
    BY <2>2, <1>k
<1>3. Falling(age, m, Buckets)
  <2>1. age \in [1 .. m -> 0 .. Buckets - 1]
    BY <1>1, <1>2
  <2>2. ASSUME NEW i \in 1 .. m, NEW j \in 1 .. m, i < j PROVE age[j] < age[i]
    <3>1. b[j].age < b[i].age \/ b[i].age = Buckets
      BY <2>2, <1>n DEF WindowOK, Ordered
    <3>2. age[i] = b[i].age /\ age[j] = b[j].age /\ age[i] # Buckets
      BY <1>2, <1>k
    <3> QED
      BY <3>1, <3>2
  <2> QED
    BY <2>1, <2>2 DEF Falling
<1>4. \A a \in Ages : r[a] = Zero \/ \E i \in 1 .. m : age[i] = a
  <2>1. \A a \in Ages : r[a] = Zero \/ \E i \in 1 .. m : b[i].age = a
    BY <1>n DEF WindowOK, Covers
  <2> QED
    BY <2>1, <1>2
<1>5. PICK s : s = [a \in Ages |-> r[a].ok]
  OBVIOUS
<1>6. PICK z : z = [a \in Ages |-> r[a].bad]
  OBVIOUS
<1>7. Reached(age, m, s, Buckets) /\ Reached(age, m, z, Buckets)
  BY <1>4, <1>5, <1>6 DEF Reached, Ages, Zero
<1>a. age = [i \in 1 .. Len(b) |-> b[i].age]
  BY <1>1, <1>n
<1>8. PICK p : Prefix(p, s, Buckets) /\ p[Buckets] = Recently(r).ok
  BY <1>b, <1>5, AgesAddUp
<1>9. PICK g : Gathers(g, age, m, s) /\ g[m] = Sum(b).ok
  BY <1>a, <1>n, <1>5, BucketsAddUp
<1>10. Sum(b).ok = Recently(r).ok
  BY <1>3, <1>7, <1>8, <1>9, <1>k, SameSum
<1>11. PICK v : Prefix(v, z, Buckets) /\ v[Buckets] = Recently(r).bad
  BY <1>b, <1>6, AgesAddUp
<1>12. PICK h : Gathers(h, age, m, z) /\ h[m] = Sum(b).bad
  BY <1>a, <1>n, <1>6, BucketsAddUp
<1>13. Sum(b).bad = Recently(r).bad
  BY <1>3, <1>7, <1>11, <1>12, <1>k, SameSum
<1>14. Sum(b) \in Counts /\ Recently(r) \in Counts
  BY <1>a, <1>b, AgesAddUp, BucketsAddUp
<1> QED
  BY <1>10, <1>13, <1>14 DEF Counts

\* A tick makes buckets and ages older together.
LEMMA WindowTicks ==
    ASSUME NEW b, NEW r, WindowOK(b, r),
           NEW c, c = [i \in DOMAIN b |-> [age |-> Older(b[i].age, Buckets), n |-> b[i].n]],
           NEW q, q = [a \in Ages |-> IF a = 0 THEN Zero ELSE r[a - 1]]
    PROVE  WindowOK(c, q)
<1>b. b \in Seq(Bucket) /\ r \in [Ages -> Counts]
  BY DEF WindowOK, WindowTyped
<1>k. Buckets \in Nat /\ 0 < Buckets
  BY BreakerConstants
<1>n. PICK m \in Nat : m = Len(b) /\ DOMAIN b = 1 .. m
  BY <1>b, LenProperties
<1>f. \A i \in 1 .. m : b[i].age \in 0 .. Buckets /\ b[i].n \in Counts
  BY <1>b, <1>n, BucketFields
<1>1. \A i \in 1 .. m : c[i] = [age |-> Older(b[i].age, Buckets), n |-> b[i].n]
  <2>1. SUFFICES ASSUME NEW i \in DOMAIN b
                 PROVE  c[i] = [age |-> Older(b[i].age, Buckets), n |-> b[i].n]
    BY <1>n
  <2> QED
    BY Zenon
<1>2. \A i \in 1 .. m : c[i].age = Older(b[i].age, Buckets) /\ c[i].n = b[i].n
  <2>1. SUFFICES ASSUME NEW i \in 1 .. m
                 PROVE  c[i].age = Older(b[i].age, Buckets) /\ c[i].n = b[i].n
    OBVIOUS
  <2>2. PICK x : x = Older(b[i].age, Buckets)
    OBVIOUS
  <2>3. PICK y : y = b[i].n
    OBVIOUS
  <2>4. c[i] = [age |-> x, n |-> y]
    BY <1>1, <2>2, <2>3, Zenon
  <2>5. c[i].age = x /\ c[i].n = y
    BY ONLY <2>4
  <2> QED
    BY <2>2, <2>3, <2>5, Zenon
<1>3. \A i \in 1 .. m : c[i] \in Bucket
  <2>1. SUFFICES ASSUME NEW i \in 1 .. m PROVE c[i] \in Bucket
    OBVIOUS
  <2>2. PICK x \in 0 .. Buckets : x = Older(b[i].age, Buckets)
    BY <1>f, <1>k DEF Older
  <2>3. PICK y \in Counts : y = b[i].n
    BY <1>f
  <2>4. c[i] = [age |-> x, n |-> y]
    BY <1>1, <2>2, <2>3, Zenon
  <2> QED
    BY <2>4 DEF Bucket
<1>4. c \in Seq(Bucket) /\ Len(c) = m
  <2>1. c \in [1 .. m -> Bucket]
    BY <1>3, <1>n
  <2> QED
    BY <2>1
<1>5. q \in [Ages -> Counts] /\ \A a \in Ages : q[a] = IF a = 0 THEN Zero ELSE r[a - 1]
  <2>1. Zero \in Counts
    BY DEF Zero, Counts
  <2>2. \A a \in Ages : a # 0 => a - 1 \in Ages
    BY <1>k DEF Ages
  <2> QED
    BY <1>b, <2>1, <2>2
<1>6. Ordered(c)
  <2>1. SUFFICES ASSUME NEW i \in 1 .. m, NEW j \in 1 .. m, i < j
                 PROVE  Older(b[j].age, Buckets) < Older(b[i].age, Buckets) \/ Older(b[i].age, Buckets) = Buckets
    BY <1>2, <1>4 DEF Ordered
  <2>2. b[j].age < b[i].age \/ b[i].age = Buckets
    BY <2>1, <1>n DEF WindowOK, Ordered
  <2>3. b[i].age \in 0 .. Buckets /\ b[j].age \in 0 .. Buckets
    BY <1>f
  <2> QED
    BY <2>2, <2>3, <1>k DEF Older
<1>7. Matches(c, q)
  <2>1. SUFFICES ASSUME NEW i \in 1 .. m, c[i].age < Buckets PROVE c[i].n = q[c[i].age]
    BY <1>4 DEF Matches
  <2>2. b[i].age \in 0 .. Buckets /\ c[i].age = Older(b[i].age, Buckets) /\ c[i].n = b[i].n
    BY <1>f, <1>2
  <2>3. PICK a \in 0 .. Buckets : a = b[i].age
    BY <2>2
  <2>4. a < Buckets /\ c[i].age = a + 1
    BY <2>1, <2>2, <2>3, <1>k DEF Older
  <2>5. b[i].n = r[a]
    BY <2>3, <2>4, <1>n DEF WindowOK, Matches
  <2>6. a + 1 \in Ages /\ a + 1 # 0 /\ (a + 1) - 1 = a
    BY <2>1, <2>4, <1>k DEF Ages
  <2>7. q[a + 1] = r[a]
    BY <2>6, <1>5
  <2> QED
    BY <2>2, <2>4, <2>5, <2>7
<1>8. Covers(c, q)
  <2>1. SUFFICES ASSUME NEW a \in Ages, q[a] # Zero PROVE \E i \in 1 .. m : c[i].age = a
    BY <1>4 DEF Covers
  <2>2. a # 0 /\ q[a] = r[a - 1] /\ a - 1 \in Ages
    BY <2>1, <1>5, <1>k DEF Ages
  <2>3. PICK i \in 1 .. m : b[i].age = a - 1
    BY <2>1, <2>2, <1>n DEF WindowOK, Covers
  <2>4. Older(a - 1, Buckets) = a
    BY <2>2, <1>k DEF Older, Ages
  <2> QED
    BY <2>3, <2>4, <1>2
<1> QED
  BY <1>4, <1>5, <1>6, <1>7, <1>8 DEF WindowOK, WindowTyped

\* A cleared window.
LEMMA WindowCleared == WindowOK(<<>>, NoOutcomes)
<1>1. <<>> \in Seq(Bucket) /\ Len(<<>>) = 0
  BY EmptySeq
<1>2. NoOutcomes \in [Ages -> Counts] /\ \A a \in Ages : NoOutcomes[a] = Zero
  BY DEF NoOutcomes, Zero, Counts
<1> QED
  BY <1>1, <1>2 DEF WindowOK, WindowTyped, Ordered, Matches, Covers

\* What the ages hold when an outcome is counted.
Logged(r, failed) == [r EXCEPT ![0] = Plus(@, Outcome(failed))]

\* An outcome that is counted.
LEMMA WindowReported ==
    ASSUME NEW b, NEW r, WindowOK(b, r), NEW failed \in BOOLEAN
    PROVE  /\ WindowOK(count(b, failed), Logged(r, failed))
           /\ Sum(count(b, failed)) = Recently(Logged(r, failed))
<1>1. PICK d : d = SubSeq(b, Gone(b) + 1, Len(b))
  OBVIOUS
<1>2. WindowOK(d, r) /\ Fresh(d)
  BY <1>1, WindowTrimmed
<1>3. PICK c : c = Added(d, failed)
  OBVIOUS
<1>4. PICK q : q = [r EXCEPT ![0] = Plus(@, Outcome(failed))]
  OBVIOUS
<1>5. WindowOK(c, q) /\ Fresh(c)
  BY <1>2, <1>3, <1>4, WindowCounted
<1>6. Sum(c) = Recently(q)
  BY <1>5, WindowSum
<1>7. c = count(b, failed) /\ q = Logged(r, failed)
  BY <1>1, <1>3, <1>4 DEF count, Logged
<1> QED
  BY <1>5, <1>6, <1>7

-----------------------------------------------------------------------------
(* The circuit trips on evidence.                                           *)

WindowInv == WindowOK(buckets, recent) /\ TripsOnEvidence

LEMMA WindowInit == Init => WindowInv
  BY WindowCleared DEF Init, WindowInv, TripsOnEvidence

\* The steps that count nothing and keep the clock leave the window or clear it.
LEMMA WindowElsewhere ==
    ASSUME WindowInv,
           \/ buckets' = buckets /\ recent' = recent
           \/ buckets' = <<>> /\ recent' = NoOutcomes,
           evidence' = evidence \/ evidence' = Null
    PROVE  WindowInv'
<1>1. WindowOK(buckets', recent')
  <2>1. CASE buckets' = buckets /\ recent' = recent
    BY <2>1 DEF WindowInv
  <2>2. CASE buckets' = <<>> /\ recent' = NoOutcomes
    BY <2>2, WindowCleared
  <2> QED
    BY <2>1, <2>2
<1>2. WindowOK(buckets, recent)'
  BY <1>1 DEF WindowOK, WindowTyped, Ordered, Matches, Covers
<1>3. TripsOnEvidence'
  BY DEF WindowInv, TripsOnEvidence, Trips
<1> QED
  BY <1>2, <1>3 DEF WindowInv

LEMMA WindowNext == WindowInv /\ [Next]_vars => WindowInv'
<1> SUFFICES ASSUME WindowInv, [Next]_vars
             PROVE  WindowInv'
  OBVIOUS
<1>t. WindowOK(buckets, recent) /\ TripsOnEvidence
  BY DEF WindowInv
<1>1. CASE Observe \/ Outage \/ Recovery \/ reset \/ UNCHANGED vars
  BY <1>1, WindowElsewhere DEF Observe, Outage, Recovery, reset, vars, circuit, history
<1>2. CASE Tick
  <2>1. WindowOK(buckets', recent')
    BY <1>2, <1>t, WindowTicks DEF Tick
  <2>2. WindowOK(buckets, recent)'
    BY <2>1 DEF WindowOK, WindowTyped, Ordered, Matches, Covers
  <2>3. TripsOnEvidence'
    BY <1>2, <1>t DEF Tick, TripsOnEvidence, Trips
  <2> QED
    BY <2>2, <2>3 DEF WindowInv
<1>3. ASSUME NEW c \in Calls, Acquire(c) \/ Dropped(c)
      PROVE  WindowInv'
  BY <1>3, WindowElsewhere DEF Acquire, AcquireClosed, AcquireProbe, Dropped, history
<1>4. ASSUME NEW c \in Calls,
             ProbeFailed(c) \/ ProbeSucceeded(c) \/ ProbeLate(c) \/ PlainForgotten(c)
      PROVE  WindowInv'
  BY <1>4, WindowElsewhere
     DEF ProbeFailed, ProbeSucceeded, ProbeLate, PlainForgotten, open, close, circuit, history
<1>5. ASSUME NEW c \in Calls, NEW failed \in BOOLEAN, PlainReported(c, failed)
      PROVE  WindowInv'
  <2>1. PICK counted : counted = count(buckets, failed)
    OBVIOUS
  <2>2. PICK logged : logged = [recent EXCEPT ![0] = Plus(@, Outcome(failed))]
    OBVIOUS
  <2>3. WindowOK(counted, logged) /\ Sum(counted) = Recently(logged)
    <3>1. counted = count(buckets, failed) /\ logged = Logged(recent, failed)
      BY <2>1, <2>2 DEF Logged
    <3>2. /\ WindowOK(count(buckets, failed), Logged(recent, failed))
          /\ Sum(count(buckets, failed)) = Recently(Logged(recent, failed))
      BY <1>t, WindowReported
    <3> QED
      BY <3>1, <3>2
  <2>4. \/ should_open(counted) /\ open /\ evidence' = Recently(logged)
        \/ buckets' = counted /\ recent' = logged /\ evidence' = evidence
    BY <1>5, <2>1, <2>2 DEF PlainReported
  <2>5. CASE should_open(counted) /\ open /\ evidence' = Recently(logged)
    <3>1. Trips(Sum(counted))
      BY <2>5 DEF should_open
    <3>2. TripsOnEvidence'
      BY <2>3, <2>5, <3>1 DEF TripsOnEvidence, Trips
    <3>3. WindowOK(buckets', recent')
      BY <2>5, WindowCleared DEF open
    <3>4. WindowOK(buckets, recent)'
      BY <3>3 DEF WindowOK, WindowTyped, Ordered, Matches, Covers
    <3> QED
      BY <3>2, <3>4 DEF WindowInv
  <2>6. CASE buckets' = counted /\ recent' = logged /\ evidence' = evidence
    <3>1. WindowOK(buckets', recent')
      BY <2>3, <2>6
    <3>2. WindowOK(buckets, recent)'
      BY <3>1 DEF WindowOK, WindowTyped, Ordered, Matches, Covers
    <3>3. TripsOnEvidence'
      BY <2>6, <1>t DEF TripsOnEvidence, Trips
    <3> QED
      BY <3>2, <3>3 DEF WindowInv
  <2> QED
    BY <2>4, <2>5, <2>6
<1> QED
  BY <1>1, <1>2, <1>3, <1>4, <1>5 DEF Next, Report

\* For any number of buckets, any rate and any calls, however long they were in
\* flight: when the circuit trips, the outcomes that came in during the last
\* window were enough of them, and enough of them failures.
THEOREM TripsAreEvident == Spec => []TripsOnEvidence
<1>1. Spec => []WindowInv
  BY WindowInit, WindowNext, PTL DEF Spec
<1>2. WindowInv => TripsOnEvidence
  BY DEF WindowInv
<1> QED
  BY <1>1, <1>2, PTL
-----------------------------------------------------------------------------
(***************************************************************************)
(* The database connection pool, for any number of tasks, permits,          *)
(* rotations and faults.  Like the breaker's, its permits are taken, come   *)
(* back late or are dropped, and may neither be lost nor exceeded.  What    *)
(* makes the two claims inductive: credentials are announced only after     *)
(* they are in place, so a connection's label never promises more than the  *)
(* pair it authenticated with (Honest); and a task holds its permit from    *)
(* before it takes a connection until after it has put it back, so the      *)
(* connections idle and in hand are never more than the permits.            *)
(***************************************************************************)
With(L) == {t \in Tasks : at[t] \in L}

\* Credentials are announced after they are in place, so a label never promises
\* more than the pair it was connected with.
Honest(c) == c.label <= c.pair

\* A task that has read the generation: not older than what it began with.  A
\* connection in its hands is honest, and of that generation once it may be used.
TaskOK(t) ==
    /\ floor[t] <= generation
    /\ at[t] \in Bearing \cup {"pop"} => floor[t] <= gen[t] /\ gen[t] <= generation
    /\ at[t] \in Bearing \ {"open"} => conn[t] \in Connections /\ Honest(conn[t])
    /\ at[t] \in Bearing \ {"open", "closing"} => conn[t].label = gen[t]

PoolInv ==
    /\ PoolTypeOK /\ generation <= pair
    /\ \A i \in DOMAIN idle : Honest(idle[i])
    /\ \A t \in Tasks : TaskOK(t)
    /\ Cardinality(With(Permitted)) <= MaxConnections
    /\ Len(idle) + Cardinality(With(Bearing)) <= MaxConnections
-----------------------------------------------------------------------------
(* Retained is a sequence of elements of the old one.                       *)

LEMMA NthIsThere ==
  ASSUME NEW m \in Nat, NEW I \in SUBSET (1 .. m)
  PROVE  /\ IsFiniteSet(I) /\ Cardinality(I) \in Nat /\ Cardinality(I) <= m
         /\ \A n \in 1 .. Cardinality(I) : Nth(I, n) \in I
<1>1. IsFiniteSet(1 .. m) /\ Cardinality(1 .. m) = m
  BY FS_Interval
<1>2. IsFiniteSet(I) /\ Cardinality(I) \in Nat /\ Cardinality(I) <= m
  BY <1>1, FS_Subset, FS_CardinalityType
<1> DEFINE c == Cardinality(I)
           upTo(k) == {j \in I : j <= k}
           f == [k \in I |-> Cardinality(upTo(k))]
<1>3. ASSUME NEW k \in I PROVE Cardinality(upTo(k)) \in 1 .. c
  <2>1. upTo(k) \in SUBSET I /\ k \in upTo(k)
    OBVIOUS
  <2>2. IsFiniteSet(upTo(k)) /\ Cardinality(upTo(k)) <= c /\ Cardinality(upTo(k)) \in Nat
    BY <1>2, <2>1, FS_Subset, FS_CardinalityType
  <2>3. Cardinality(upTo(k)) # 0
    BY <2>1, <2>2, FS_EmptySet
  <2> QED BY <1>2, <2>2, <2>3
<1>4. ASSUME NEW k \in I, NEW l \in I, k < l PROVE Cardinality(upTo(k)) # Cardinality(upTo(l))
  <2>0. \A j \in I : j \in Int /\ (j <= k => j <= l)
    BY <1>4
  <2>1. upTo(k) \in SUBSET upTo(l) /\ l \in upTo(l) /\ l \notin upTo(k)
    <3>1. l <= l /\ ~ (l <= k)
      BY <1>4
    <3> QED BY <2>0, <3>1, Zenon
  <2>2. IsFiniteSet(upTo(l))
    BY <1>2, FS_Subset
  <2> QED BY <2>1, <2>2, FS_Subset
<1>5. ASSUME NEW k \in I, NEW l \in I, Cardinality(upTo(k)) = Cardinality(upTo(l)) PROVE k = l
  <2>1. k < l \/ l < k \/ k = l
    OBVIOUS
  <2> QED BY <1>4, <1>5, <2>1
<1>6. f \in Injection(I, 1 .. c)
  <2>1. f \in [I -> 1 .. c]
    BY <1>3
  <2>2. \A k, l \in I : f[k] = f[l] => k = l
    BY <1>5
  <2> QED BY <2>1, <2>2 DEF Injection, IsInjective
<1>7. IsFiniteSet(1 .. c) /\ Cardinality(1 .. c) = c
  BY <1>2, FS_Interval
<1>8. f \in Surjection(I, 1 .. c)
  BY <1>6, <1>7, FS_Injection
<1>9. ASSUME NEW n \in 1 .. c PROVE Nth(I, n) \in I
  <2>1. \E k \in I : f[k] = n
    BY <1>8 DEF Surjection
  <2>2. \E k \in I : Cardinality({j \in I : j <= k}) = n
    BY <2>1
  <2> QED BY <2>2 DEF Nth
<1> QED BY <1>2, <1>9

LEMMA RetainedIs ==
  ASSUME NEW S, NEW s \in Seq(S), NEW I \in SUBSET DOMAIN s
  PROVE  /\ Retained(s, I) \in Seq(S) /\ Len(Retained(s, I)) <= Len(s)
         /\ \A n \in DOMAIN Retained(s, I) : \E k \in DOMAIN s : Retained(s, I)[n] = s[k]
<1>1. Len(s) \in Nat /\ DOMAIN s = 1 .. Len(s)
  OBVIOUS
<1>2. /\ Cardinality(I) \in Nat /\ Cardinality(I) <= Len(s)
      /\ \A n \in 1 .. Cardinality(I) : Nth(I, n) \in I
  BY <1>1, NthIsThere
<1>3. \A n \in 1 .. Cardinality(I) : Nth(I, n) \in DOMAIN s /\ s[Nth(I, n)] \in S
  BY <1>1, <1>2
<1>4. Retained(s, I) \in [1 .. Cardinality(I) -> S]
  BY <1>3 DEF Retained
<1>5. Retained(s, I) \in Seq(S) /\ Len(Retained(s, I)) = Cardinality(I)
  BY <1>2, <1>4
<1> QED BY <1>2, <1>3, <1>5 DEF Retained
-----------------------------------------------------------------------------
(* How the numbers of tasks in a place change.                              *)

LEMMA WithType ==
  ASSUME NEW L
  PROVE  IsFiniteSet(With(L)) /\ Cardinality(With(L)) \in Nat
<1>1. With(L) \in SUBSET Tasks
  BY DEF With
<1> QED BY <1>1, PoolConstants, FS_Subset, FS_CardinalityType

LEMMA Moved ==
  ASSUME PoolTypeOK, NEW t \in Tasks, NEW l, at' = [at EXCEPT ![t] = l], NEW L
  PROVE  /\ at[t] \notin L /\ l \in L => Cardinality(With(L)') = Cardinality(With(L)) + 1
         /\ at[t] \in L /\ l \notin L => Cardinality(With(L)') = Cardinality(With(L)) - 1
         /\ (at[t] \in L <=> l \in L) => Cardinality(With(L)') = Cardinality(With(L))
<1>0. IsFiniteSet(With(L))
  BY WithType
<1>1. ASSUME at[t] \notin L, l \in L PROVE Cardinality(With(L)') = Cardinality(With(L)) + 1
  <2>1. With(L)' = With(L) \cup {t} /\ t \notin With(L)
    BY <1>1 DEF With, PoolTypeOK
  <2> QED BY <1>0, <2>1, FS_AddElement
<1>2. ASSUME at[t] \in L, l \notin L PROVE Cardinality(With(L)') = Cardinality(With(L)) - 1
  <2>1. With(L)' = With(L) \ {t} /\ t \in With(L)
    BY <1>2 DEF With, PoolTypeOK
  <2> QED BY <1>0, <2>1, FS_RemoveElement
<1>3. ASSUME at[t] \in L <=> l \in L PROVE Cardinality(With(L)') = Cardinality(With(L))
  <2>1. With(L)' = With(L)
    BY <1>3 DEF With, PoolTypeOK
  <2> QED BY <2>1
<1> QED BY <1>1, <1>2, <1>3

\* A connection comes with a permit; a task at "pop" has one to spare.
LEMMA BearersPermitted ==
  /\ Cardinality(With(Bearing)) <= Cardinality(With(Permitted))
  /\ \A t \in Tasks : at[t] = "pop" =>
        Cardinality(With(Bearing)) + 1 <= Cardinality(With(Permitted))
<1>1. IsFiniteSet(With(Permitted)) /\ IsFiniteSet(With(Bearing)) /\ Cardinality(With(Bearing)) \in Nat
  BY WithType
<1>2. With(Bearing) \in SUBSET With(Permitted)
  BY DEF With, Bearing, Permitted, Labels
<1>3. ASSUME NEW t \in Tasks, at[t] = "pop"
      PROVE  Cardinality(With(Bearing)) + 1 <= Cardinality(With(Permitted))
  <2>1. With(Bearing) \cup {t} \in SUBSET With(Permitted) /\ t \notin With(Bearing)
    BY <1>3 DEF With, Bearing, Permitted, Labels
  <2>2. Cardinality(With(Bearing) \cup {t}) = Cardinality(With(Bearing)) + 1
    BY <1>1, <2>1, FS_AddElement
  <2> QED BY <1>1, <2>1, <2>2, FS_Subset
<1> QED BY <1>1, <1>2, <1>3, FS_Subset

-----------------------------------------------------------------------------
LEMMA SeqParts ==
  ASSUME NEW S, NEW s \in Seq(S), s # <<>>
  PROVE  /\ Head(s) \in S /\ Head(s) = s[1] /\ Tail(s) \in Seq(S) /\ Len(Tail(s)) = Len(s) - 1
         /\ 1 \in DOMAIN s /\ \A i \in DOMAIN Tail(s) : i + 1 \in DOMAIN s /\ Tail(s)[i] = s[i + 1]
  OBVIOUS

\* The part of the invariant that is about the connections and where they are.
LEMMA TypeStep ==
  ASSUME PoolInv, [PoolNext]_poolVars
  PROVE  PoolTypeOK'
<1> USE PoolConstants DEF PoolTypeOK, PoolInv, credentials, tasks, Labels, Goto, Leave
<1>1. ASSUME NEW t \in Tasks, WaitForPermit(t) PROVE PoolTypeOK'
  BY <1>1 DEF WaitForPermit
<1>2. ASSUME NEW t \in Tasks, Permit(t) PROVE PoolTypeOK'
  <2>1. Tail(queue) \in Seq(Tasks)
    BY <1>2, SeqParts DEF Permit
  <2> QED BY <1>2, <2>1 DEF Permit
<1>3. ASSUME NEW t \in Tasks, ReadGeneration(t) \/ Closed(t) \/ Connected(t) PROVE PoolTypeOK'
  BY <1>3 DEF ReadGeneration, Closed, Connected
<1>4. ASSUME NEW t \in Tasks, Pop(t) PROVE PoolTypeOK'
  <2>1. idle # <<>> => Tail(idle) \in Seq(Connections) /\ Head(idle) \in Connections
    BY SeqParts
  <2>2. CASE idle = <<>>
    BY <1>4, <2>2 DEF Pop
  <2>3. CASE idle # <<>>
    BY <1>4, <2>1, <2>3 DEF Pop
  <2> QED BY <2>2, <2>3
<1>5. ASSUME NEW t \in Tasks, Open(t) PROVE PoolTypeOK'
  <2>1. [label |-> gen[t], pair |-> pair] \in Connections
    BY DEF Connections
  <2> QED BY <1>5, <2>1 DEF Open
<1>6. ASSUME NEW t \in Tasks, Fail(t) PROVE PoolTypeOK'
  <2>1. queue' \in Seq(Tasks)
    BY <1>6, RetainedIs DEF Fail
  <2> QED BY <1>6, <2>1 DEF Fail
<1>7. ASSUME NEW t \in Tasks, DropCheck(t) \/ Release(t) PROVE PoolTypeOK'
  <2>1. CASE Leave(t)
    BY <1>7, <2>1 DEF DropCheck, Release
  <2>2. CASE Goto(t, "returning") /\ UNCHANGED <<conn, gen, floor>>
    BY <1>7, <2>2 DEF DropCheck, Release
  <2> QED BY <1>7, <2>1, <2>2 DEF DropCheck, Release
<1>8. ASSUME NEW t \in Tasks, PushBack(t) PROVE PoolTypeOK'
  <2>1. conn[t] \in Connections
    BY <1>8 DEF PushBack, TaskOK, Bearing
  <2> QED BY <1>8, <2>1 DEF PushBack
<1>9. ASSUME RotateWrite \/ RotateBump \/ Retire \/ UNCHANGED poolVars PROVE PoolTypeOK'
  BY <1>9 DEF RotateWrite, RotateBump, Retire, poolVars
<1>10. ASSUME CloseIdle \/ Close PROVE PoolTypeOK'
  <2>0. (idle # <<>> => Tail(idle) \in Seq(Connections)) /\ <<>> \in Seq(Connections)
    BY SeqParts
  <2>1. idle # <<>> /\ idle' \in {Tail(idle), <<>>}
    BY <1>10, Zenon DEF CloseIdle, Close
  <2>2. idle' \in Seq(Connections)
    BY <2>0, <2>1, Zenon
  <2> QED BY <1>10, <2>2 DEF CloseIdle, Close
<1>11. ASSUME RetireSort PROVE PoolTypeOK'
  <2>0. PICK I \in SUBSET DOMAIN idle : idle' = Retained(idle, I)
    BY <1>11, Zenon DEF RetireSort
  <2>1. idle' \in Seq(Connections)
    <3>1. idle \in Seq(Connections)
      OBVIOUS
    <3> QED BY <2>0, <3>1, RetainedIs, Zenon
  <2> QED BY <1>11, <2>1 DEF RetireSort
<1> QED
  BY <1>1, <1>2, <1>3, <1>4, <1>5, <1>6, <1>7, <1>8, <1>9, <1>10, <1>11 DEF PoolNext, Step

LEMMA HonestStep ==
  ASSUME PoolInv, [PoolNext]_poolVars
  PROVE  generation' <= pair' /\ \A i \in DOMAIN idle' : Honest(idle'[i])
<1> USE DEF credentials, tasks
<1>0. /\ pair \in Nat /\ generation \in Nat /\ generation <= pair /\ idle \in Seq(Connections)
      /\ \A i \in DOMAIN idle : Honest(idle[i])
  BY DEF PoolInv, PoolTypeOK
<1>1. generation' <= pair'
  <2>1. \/ generation' = generation /\ (pair' = pair \/ pair' = pair + 1)
        \/ generation' = generation + 1 /\ generation < pair /\ pair' = pair
    BY DEF PoolNext, Step, poolVars, WaitForPermit, Permit, ReadGeneration, Pop, Closed, Open, Connected, Fail,
         DropCheck, PushBack, Release, RotateWrite, RotateBump, CloseIdle, Close, Retire, RetireSort
  <2> QED BY <1>0, <2>1
\* Every idle connection was idle already, or comes back from its borrower.
<1>2. ASSUME NEW t \in Tasks, PushBack(t) PROVE \A i \in DOMAIN idle' : Honest(idle'[i])
  <2>1. conn[t] \in Connections /\ Honest(conn[t])
    BY <1>2 DEF PushBack, PoolInv, TaskOK, Bearing
  <2>2. \A i \in DOMAIN idle' : idle'[i] = conn[t] \/ (i \in DOMAIN idle /\ idle'[i] = idle[i])
    BY <1>0, <1>2, <2>1 DEF PushBack
  <2> QED BY <1>0, <2>1, <2>2
<1>3. ASSUME idle # <<>>, idle' = Tail(idle) PROVE \A i \in DOMAIN idle' : Honest(idle'[i])
  BY <1>0, <1>3, SeqParts
<1>4. ASSUME RetireSort PROVE \A i \in DOMAIN idle' : Honest(idle'[i])
  <2>1. PICK I \in SUBSET DOMAIN idle : idle' = Retained(idle, I)
    BY <1>4, Zenon DEF RetireSort
  <2> QED BY <1>0, <2>1, RetainedIs
<1>5. ASSUME idle' \in {idle, <<>>} PROVE \A i \in DOMAIN idle' : Honest(idle'[i])
  BY <1>0, <1>5
<1>6. \/ \E t \in Tasks : PushBack(t)
      \/ idle # <<>> /\ idle' = Tail(idle)
      \/ RetireSort
      \/ idle' \in {idle, <<>>}
  BY DEF PoolNext, Step, poolVars, WaitForPermit, Permit, ReadGeneration, Pop, Closed, Open, Connected, Fail,
         DropCheck, Release, RotateWrite, RotateBump, CloseIdle, Close, Retire
<1> QED BY <1>1, <1>2, <1>3, <1>4, <1>5, <1>6

\* A task that stands still.
LEMMA TaskKept ==
  ASSUME PoolInv, PoolTypeOK', NEW t \in Tasks, generation' \in {generation, generation + 1},
         at'[t] = at[t], gen'[t] = gen[t], conn'[t] = conn[t], floor'[t] = floor[t]
  PROVE  TaskOK(t)'
<1>1. TaskOK(t) /\ generation \in Nat /\ floor[t] \in Nat /\ gen[t] \in Nat
  BY DEF PoolInv, PoolTypeOK
<1> QED BY <1>1 DEF TaskOK, Honest

LEMMA TaskStep ==
  ASSUME PoolInv, PoolTypeOK', [PoolNext]_poolVars, NEW t \in Tasks
  PROVE  TaskOK(t)'
<1> USE DEF credentials, tasks, Goto, Leave
<1>0. /\ TaskOK(t) /\ generation \in Nat /\ pair \in Nat /\ generation <= pair
      /\ floor[t] \in Nat /\ gen[t] \in Nat
      /\ at \in [Tasks -> Labels] /\ gen \in [Tasks -> Nat] /\ floor \in [Tasks -> Nat]
      /\ conn \in [Tasks -> Connections \cup {NoConnection}] /\ idle \in Seq(Connections)
  BY DEF PoolInv, PoolTypeOK
<1>1. ASSUME NEW u \in Tasks, u # t, WaitForPermit(u) \/ Step(u) \/ Fail(u) PROVE TaskOK(t)'
  <2>1. at'[t] = at[t] /\ gen'[t] = gen[t] /\ conn'[t] = conn[t] /\ floor'[t] = floor[t]
        /\ generation' = generation
    BY <1>0, <1>1 DEF Step, WaitForPermit, Permit, ReadGeneration, Pop, Closed, Open, Connected, Fail,
         DropCheck, PushBack, Release
  <2> QED BY <2>1, TaskKept
<1>2. ASSUME at' = [at EXCEPT ![t] = "idle"], floor' = [floor EXCEPT ![t] = 0], generation' = generation
      PROVE  TaskOK(t)'
  BY <1>0, <1>2 DEF TaskOK, Bearing
<1>3. ASSUME WaitForPermit(t) \/ Permit(t) \/ Release(t) \/ Fail(t) PROVE TaskOK(t)'
  <2>1. at'[t] \in {"waiting", "permit", "idle"} /\ generation' = generation
        /\ floor'[t] \in {generation, floor[t], 0}
    BY <1>0, <1>3 DEF WaitForPermit, Permit, Release, Fail
  <2> QED BY <1>0, <2>1 DEF TaskOK, Bearing
<1>4. ASSUME ReadGeneration(t) PROVE TaskOK(t)'
  <2>1. at'[t] = "pop" /\ gen'[t] = generation /\ floor'[t] = floor[t] /\ generation' = generation
    BY <1>0, <1>4 DEF ReadGeneration
  <2> QED BY <1>0, <2>1 DEF TaskOK, Bearing
<1>5. ASSUME Pop(t) PROVE TaskOK(t)'
  <2>0. at[t] = "pop" /\ gen' = gen /\ floor' = floor /\ generation' = generation
    BY <1>5 DEF Pop
  <2>1. CASE idle = <<>>
    <3>1. at'[t] = "open"
      BY <1>0, <1>5, <2>1 DEF Pop
    <3> QED BY <1>0, <2>0, <3>1 DEF TaskOK, Bearing
  <2>2. CASE idle # <<>>
    <3>1. Head(idle) \in Connections /\ Honest(Head(idle))
      BY <1>0, <2>2, SeqParts DEF PoolInv
    <3>2. conn'[t] = Head(idle) /\ at'[t] = IF Head(idle).label = gen[t] THEN "holding" ELSE "closing"
      BY <1>0, <1>5, <2>2 DEF Pop
    <3> QED BY <1>0, <2>0, <3>1, <3>2 DEF TaskOK, Bearing, Honest
  <2> QED BY <2>1, <2>2
<1>6. ASSUME Closed(t) PROVE TaskOK(t)'
  <2>1. at[t] = "closing" /\ at'[t] = "pop" /\ gen' = gen /\ floor' = floor /\ generation' = generation
    BY <1>0, <1>6 DEF Closed
  <2> QED BY <1>0, <2>1 DEF TaskOK, Bearing
<1>7. ASSUME Open(t) PROVE TaskOK(t)'
  <2>1. /\ at[t] = "open" /\ at'[t] = "connecting" /\ gen' = gen /\ floor' = floor
        /\ generation' = generation /\ conn'[t] = [label |-> gen[t], pair |-> pair]
    BY <1>0, <1>7 DEF Open
  <2>2. floor[t] <= gen[t] /\ gen[t] <= generation
    BY <1>0, <2>1 DEF TaskOK, Bearing
  <2>3. conn'[t].label = gen[t] /\ conn'[t].pair = pair /\ conn'[t] \in Connections
    BY <1>0, <2>1 DEF Connections
  <2>4. gen[t] <= pair
    BY <1>0, <2>2
  <2> QED BY <1>0, <2>1, <2>2, <2>3, <2>4 DEF TaskOK, Bearing, Honest
<1>8. ASSUME Connected(t) PROVE TaskOK(t)'
  <2>1. /\ at[t] = "connecting" /\ at'[t] = "holding" /\ gen' = gen /\ floor' = floor /\ conn' = conn
        /\ generation' = generation
    BY <1>0, <1>8 DEF Connected
  <2> QED BY <1>0, <2>1 DEF TaskOK, Bearing, Honest
<1>9. ASSUME DropCheck(t) PROVE TaskOK(t)'
  <2>1. CASE Leave(t)
    BY <1>2, <1>9, <2>1 DEF DropCheck
  <2>2. CASE Goto(t, "returning") /\ UNCHANGED <<conn, gen, floor>>
    <3>1. at[t] = "holding" /\ at'[t] = "returning" /\ generation' = generation
      BY <1>0, <1>9, <2>2 DEF DropCheck
    <3> QED BY <1>0, <2>2, <3>1 DEF TaskOK, Bearing, Honest
  <2> QED BY <1>9, <2>1, <2>2 DEF DropCheck
<1>10. ASSUME PushBack(t) PROVE TaskOK(t)'
  <2>1. at'[t] = "releasing" /\ floor' = floor /\ generation' = generation
    BY <1>0, <1>10 DEF PushBack
  <2> QED BY <1>0, <2>1 DEF TaskOK, Bearing
<1>11. CASE RotateWrite \/ RotateBump \/ CloseIdle \/ Close \/ Retire \/ RetireSort \/ UNCHANGED poolVars
  <2>1. UNCHANGED <<at, gen, conn, floor>> /\ generation' \in {generation, generation + 1}
    BY <1>11 DEF RotateWrite, RotateBump, CloseIdle, Close, Retire, RetireSort, poolVars
  <2> QED BY <2>1, TaskKept
<1> QED
  BY <1>1, <1>3, <1>4, <1>5, <1>6, <1>7, <1>8, <1>9, <1>10, <1>11 DEF PoolNext, Step

\* Two numbers: the permits in use, and the connections idle or in use.
LEMMA CountStep ==
  ASSUME PoolInv, [PoolNext]_poolVars
  PROVE  /\ Cardinality(With(Permitted)') <= MaxConnections
         /\ Len(idle') + Cardinality(With(Bearing)') <= MaxConnections
<1> DEFINE P == Cardinality(With(Permitted))
           B == Cardinality(With(Bearing))
           Q == Cardinality(With(Permitted)')
           C == Cardinality(With(Bearing)')
<1> USE DEF credentials, tasks
<1>0. /\ PoolTypeOK /\ P \in Nat /\ B \in Nat /\ P <= MaxConnections /\ Len(idle) + B <= MaxConnections
      /\ idle \in Seq(Connections) /\ Len(idle) \in Nat /\ MaxConnections \in Nat
  BY WithType, PoolConstants DEF PoolInv, PoolTypeOK
<1>1. B <= P /\ \A t \in Tasks : at[t] = "pop" => B + 1 <= P
  BY BearersPermitted
<1>2. /\ "idle" \notin Permitted /\ "waiting" \notin Permitted
      /\ Permitted = Bearing \cup {"permit", "pop", "releasing"}
      /\ Bearing = {"closing", "open", "connecting", "holding", "returning"}
  BY DEF Permitted, Bearing, Labels
<1>3. ASSUME UNCHANGED at PROVE Q = P /\ C = B
  BY <1>3 DEF With
<1> DEFINE Fits == Q <= MaxConnections /\ Len(idle') + C <= MaxConnections
<1> HIDE DEF P, B, Q, C
<1>m. ASSUME NEW t \in Tasks, NEW l, at' = [at EXCEPT ![t] = l]
      PROVE  /\ at[t] \notin Permitted /\ l \in Permitted => Q = P + 1
             /\ at[t] \in Permitted /\ l \notin Permitted => Q = P - 1
             /\ (at[t] \in Permitted <=> l \in Permitted) => Q = P
             /\ at[t] \notin Bearing /\ l \in Bearing => C = B + 1
             /\ at[t] \in Bearing /\ l \notin Bearing => C = B - 1
             /\ (at[t] \in Bearing <=> l \in Bearing) => C = B
  BY <1>0, <1>m, Moved DEF P, B, Q, C
\* A move that needs no new permit and brings no new connection.
<1>n. ASSUME NEW t \in Tasks, NEW l, at' = [at EXCEPT ![t] = l], idle' = idle,
             l \in Permitted => at[t] \in Permitted, l \in Bearing => at[t] \in Bearing
      PROVE  Fits
  <2>1. (Q = P \/ Q = P - 1) /\ (C = B \/ C = B - 1)
    BY <1>m, <1>n
  <2> QED BY <1>0, <1>n, <2>1
<1>4. ASSUME NEW t \in Tasks, WaitForPermit(t) PROVE Fits
  BY <1>2, <1>4, <1>n DEF WaitForPermit, Goto
<1>5. ASSUME NEW t \in Tasks, Permit(t) PROVE Fits
  <2>1. P < MaxConnections /\ at' = [at EXCEPT ![t] = "permit"] /\ idle' = idle
    BY <1>5 DEF Permit, Permits, With, P, Goto
  <2>2. "permit" \in Permitted /\ "permit" \notin Bearing
    BY <1>2
  <2>3. (Q = P + 1 \/ Q = P) /\ (C = B - 1 \/ C = B)
    BY <1>m, <2>1, <2>2
  <2> QED BY <1>0, <2>1, <2>3
<1>6. ASSUME NEW t \in Tasks, ReadGeneration(t) \/ Closed(t) \/ Open(t) \/ Connected(t) PROVE Fits
  <2>1. /\ idle' = idle /\ at[t] \in Permitted
        /\ \E l \in {"pop", "connecting", "holding"} :
              at' = [at EXCEPT ![t] = l] /\ (l # "pop" => at[t] \in Bearing)
    BY <1>2, <1>6 DEF ReadGeneration, Closed, Open, Connected, Goto
  <2> QED BY <1>2, <1>n, <2>1
<1>7. ASSUME NEW t \in Tasks, Pop(t) PROVE Fits
  <2>0. at[t] = "pop" /\ B + 1 <= P /\ at[t] \in Permitted /\ at[t] \notin Bearing
    BY <1>1, <1>2, <1>7 DEF Pop
  <2>1. CASE idle = <<>>
    <3>1. idle' = idle /\ at' = [at EXCEPT ![t] = "open"] /\ Len(idle) = 0
      BY <1>0, <1>7, <2>1 DEF Pop, Goto
    <3>2. Q = P /\ C = B + 1
      BY <1>2, <1>m, <2>0, <3>1
    <3> QED BY <1>0, <2>0, <3>1, <3>2
  <2>2. CASE idle # <<>>
    <3>1. Len(idle') = Len(idle) - 1
      BY <1>0, <1>7, <2>2, SeqParts DEF Pop
    <3>2. \E l \in Bearing : at' = [at EXCEPT ![t] = l]
      BY <1>2, <1>7, <2>2 DEF Pop, Goto
    <3>3. Q = P /\ C = B + 1
      BY <1>2, <1>m, <2>0, <3>2
    <3> QED BY <1>0, <3>1, <3>3
  <2> QED BY <2>1, <2>2
<1>8. ASSUME NEW t \in Tasks, Fail(t) \/ Release(t) PROVE Fits
  <2>1. idle' = idle /\ at' = [at EXCEPT ![t] = "idle"]
    BY <1>8 DEF Fail, Release, Leave
  <2> QED BY <1>2, <1>n, <2>1
<1>9. ASSUME NEW t \in Tasks, DropCheck(t) PROVE Fits
  <2>1. /\ idle' = idle /\ at[t] = "holding"
        /\ \E l \in {"idle", "returning"} : at' = [at EXCEPT ![t] = l]
    BY <1>9 DEF DropCheck, Leave, Goto
  <2> QED BY <1>2, <1>n, <2>1
<1>10. ASSUME NEW t \in Tasks, PushBack(t) PROVE Fits
  <2>1. /\ idle' = Append(idle, conn[t]) /\ at[t] = "returning"
        /\ at' = [at EXCEPT ![t] = "releasing"] /\ conn[t] \in Connections
    BY <1>10 DEF PushBack, Goto, PoolInv, TaskOK, Bearing
  <2>2. Len(idle') = Len(idle) + 1
    BY <1>0, <2>1
  <2>3. /\ at[t] \in Permitted /\ "releasing" \in Permitted
        /\ at[t] \in Bearing /\ "releasing" \notin Bearing
    BY <1>2, <2>1
  <2>4. Q = P /\ C = B - 1
    BY <1>m, <2>1, <2>3
  <2> QED BY <1>0, <2>2, <2>4
<1>11. ASSUME UNCHANGED at, Len(idle') \in Nat, Len(idle') <= Len(idle) PROVE Fits
  BY <1>0, <1>3, <1>11 DEF P, B, Q, C
<1>12. ASSUME RotateWrite \/ RotateBump \/ Retire \/ UNCHANGED poolVars PROVE Fits
  BY <1>0, <1>11, <1>12 DEF RotateWrite, RotateBump, Retire, poolVars
<1>13. ASSUME CloseIdle \/ Close PROVE Fits
  <2>1. idle # <<>> /\ UNCHANGED at /\ (idle' = Tail(idle) \/ idle' = <<>>)
    BY <1>13 DEF CloseIdle, Close
  <2>2. Len(Tail(idle)) = Len(idle) - 1 /\ Tail(idle) \in Seq(Connections)
    BY <1>0, <2>1, SeqParts
  <2>3. Len(idle') \in Nat /\ Len(idle') <= Len(idle)
    BY <1>0, <2>1, <2>2
  <2> QED BY <1>11, <2>1, <2>3
<1>14. ASSUME RetireSort PROVE Fits
  <2>1. PICK I \in SUBSET DOMAIN idle : idle' = Retained(idle, I)
    BY <1>14, Zenon DEF RetireSort
  <2>2. idle' \in Seq(Connections) /\ Len(idle') <= Len(idle) /\ UNCHANGED at
    BY <1>0, <1>14, <2>1, RetainedIs DEF RetireSort
  <2> QED BY <1>11, <2>2
<1>15. Fits
  BY <1>4, <1>5, <1>6, <1>7, <1>8, <1>9, <1>10, <1>12, <1>13, <1>14 DEF PoolNext, Step
<1> QED BY <1>15 DEF Q, C

-----------------------------------------------------------------------------
LEMMA PoolBegins == ASSUME PoolInit PROVE PoolInv
<1> USE PoolConstants DEF PoolInit
<1>1. PoolTypeOK
  BY DEF PoolTypeOK, Labels
<1>2. With(Permitted) = {} /\ With(Bearing) = {}
  BY DEF With, Permitted, Bearing, Labels
<1>3. \A t \in Tasks : TaskOK(t)
  BY DEF TaskOK, Bearing
<1>4. Cardinality({}) = 0 /\ Len(idle) = 0 /\ DOMAIN idle = {}
  BY FS_EmptySet
<1>5. /\ Cardinality(With(Permitted)) <= MaxConnections
      /\ Len(idle) + Cardinality(With(Bearing)) <= MaxConnections
  BY <1>2, <1>4
<1> QED BY <1>1, <1>3, <1>4, <1>5 DEF PoolInv

LEMMA PoolStep == ASSUME PoolInv, [PoolNext]_poolVars PROVE PoolInv'
<1>1. PoolTypeOK'
  BY TypeStep
<1>2. \A t \in Tasks : TaskOK(t)'
  BY <1>1, TaskStep
<1>3. (generation <= pair)' /\ (\A i \in DOMAIN idle : Honest(idle[i]))'
  BY HonestStep DEF Honest
<1>4. /\ (Cardinality(With(Permitted)) <= MaxConnections)'
      /\ (Len(idle) + Cardinality(With(Bearing)) <= MaxConnections)'
  BY CountStep
<1> QED BY <1>1, <1>2, <1>3, <1>4 DEF PoolInv

\* For any number of tasks and permits: the connections idle and in use are never
\* more than the permits, and no acquire is given a connection that authenticated
\* with credentials from before a rotation that was over when it began.
THEOREM PoolSafety == PoolSpec => [](PoolTypeOK /\ WithinCapacity /\ FreshCredentials)
<1>1. PoolInit => PoolInv
  BY PoolBegins
<1>2. PoolInv /\ [PoolNext]_poolVars => PoolInv'
  BY PoolStep
<1>3. PoolInv => PoolTypeOK /\ WithinCapacity /\ FreshCredentials
  <2> SUFFICES ASSUME PoolInv PROVE WithinCapacity /\ FreshCredentials
    BY DEF PoolInv
  <2>1. WithinCapacity
    BY DEF PoolInv, WithinCapacity, With
  <2>2. ASSUME NEW t \in Tasks, at[t] \in {"holding", "returning"} PROVE conn[t].pair >= floor[t]
    <3>1. /\ TaskOK(t) /\ floor[t] \in Nat /\ gen[t] \in Nat
      BY DEF PoolInv, PoolTypeOK
    <3>2. /\ floor[t] <= gen[t] /\ conn[t].label = gen[t] /\ conn[t].label <= conn[t].pair
          /\ conn[t] \in Connections
      BY <2>2, <3>1 DEF TaskOK, Bearing, Honest
    <3>3. conn[t].pair \in Nat
      BY <3>2 DEF Connections
    <3> QED BY <3>1, <3>2, <3>3
  <2> QED BY <2>1, <2>2 DEF FreshCredentials
<1> QED BY <1>1, <1>2, <1>3, PTL DEF PoolSpec

\* The pool never has more connections to work with than permits: a connection
\* is back in the queue before its permit is free.
THEOREM CapacityHolds == PoolSpec => []WithinCapacity
BY PoolSafety, PTL

\* A rotation that has returned reaches every acquire that begins after it.
THEOREM RotationReaches == PoolSpec => []FreshCredentials
BY PoolSafety, PTL
=============================================================================
