--------------------------- MODULE Ledger_proofs ----------------------------
(***************************************************************************)
(* Theorems about Ledger for any number of tasks, owners, requests and     *)
(* faults.                                                                  *)
(***************************************************************************)
EXTENDS Ledger, FiniteSetTheorems, WellFoundedInduction, TLAPS

-----------------------------------------------------------------------------
(* Sums over finite sets.  The recursion inside Sum is shown to define a    *)
(* function, by building it for the sets of at most n members, and the      *)
(* facts about it follow from a smallest set that would refute them.        *)

LEMMA LeastNumber ==
    ASSUME NEW T \in SUBSET Nat, T # {}
    PROVE  \E n \in T : \A m \in T : n <= m
<1> DEFINE Less == {ss \in Nat \X Nat : ss[1] < ss[2]}
<1>1. IsWellFoundedOn(Less, Nat)
  BY NatLessThanWellFounded DEF OpToRel
<1>2. \A n, m \in Nat : <<m, n>> \notin Less => n <= m
  OBVIOUS
<1> HIDE DEF Less
<1>3. PICK n \in T : \A m \in T : <<m, n>> \notin Less
  BY <1>1, WFMin
<1> QED
  BY <1>2, <1>3

LEMMA SmallestSet ==
    ASSUME NEW D, IsFiniteSet(D), NEW X \in SUBSET (SUBSET D), X # {}
    PROVE  \E T \in X : \A U \in X : U \subseteq T => U = T
<1>1. IsWellFoundedOn(StrictSubsetOrdering(D), SUBSET D)
  BY FS_FiniteSubsetsOfFinite, FS_StrictSubsetOrderingWellFounded
<1>2. PICK T \in X : \A U \in X : <<U, T>> \notin StrictSubsetOrdering(D)
  BY <1>1, WFMin
<1>3. \A U \in X : U \subseteq T => U = T
  BY <1>2 DEF StrictSubsetOrdering
<1> QED
  BY <1>3

\* A recursion over the subsets of a finite set defines a function: c chooses
\* the member that comes off, F says what it adds.
Chooses(D, c)      == \A T \in SUBSET D : T # {} => c[T] \in T
Steps(D, V, F)     == \A x \in D, v \in V : F[<<x, v>>] \in V
Folds(D, b, c, F, g) ==
    \A T \in SUBSET D : g[T] = IF T = {} THEN b ELSE F[<<c[T], g[T \ {c[T]}]>>]

LEMMA FoldExists ==
    ASSUME NEW D, IsFiniteSet(D), NEW V, NEW b \in V,
           NEW c, Chooses(D, c), NEW F, Steps(D, V, F)
    PROVE  \E g \in [SUBSET D -> V] : Folds(D, b, c, F, g)
<1> USE DEF Chooses, Steps
<1> DEFINE UpTo(n) == {T \in SUBSET D : Cardinality(T) <= n}
           Solves(g, n) == \A T \in UpTo(n) :
                              g[T] = IF T = {} THEN b ELSE F[<<c[T], g[T \ {c[T]}]>>]
           Bad == {n \in Nat : ~ \E g \in [UpTo(n) -> V] : Solves(g, n)}
<1>1. \A T \in SUBSET D : IsFiniteSet(T) /\ Cardinality(T) \in Nat /\ Cardinality(T) <= Cardinality(D)
  BY FS_Subset, FS_CardinalityType
<1>2. Cardinality(D) \in Nat
  BY FS_CardinalityType
<1>3. Bad = {}
  <2> SUFFICES ASSUME Bad # {} PROVE FALSE
    OBVIOUS
  <2>1. PICK n \in Bad : \A m \in Bad : n <= m
    BY LeastNumber
  <2>2. n \in Nat /\ ~ \E g \in [UpTo(n) -> V] : Solves(g, n)
    BY <2>1
  <2>3. CASE n = 0
    <3>1. UpTo(0) = {{}}
      BY <1>1, FS_EmptySet
    <3>2. [T \in UpTo(0) |-> b] \in [UpTo(0) -> V] /\ Solves([T \in UpTo(0) |-> b], 0)
      BY <3>1
    <3> QED
      BY <2>2, <2>3, <3>2
  <2>4. CASE n # 0
    <3>1. n - 1 \in Nat /\ n - 1 \notin Bad
      <4>1. n - 1 \in Nat /\ ~ (n <= n - 1)
        BY <2>2, <2>4
      <4> HIDE DEF Bad
      <4> QED
        BY <2>1, <4>1
    <3>2. PICK g \in [UpTo(n - 1) -> V] : Solves(g, n - 1)
      BY <3>1
    <3> DEFINE h == [T \in UpTo(n) |-> IF T = {} THEN b ELSE F[<<c[T], g[T \ {c[T]}]>>]]
    <3>3. \A T \in UpTo(n) : T # {} => c[T] \in D /\ T \ {c[T]} \in UpTo(n - 1)
      <4> SUFFICES ASSUME NEW T \in UpTo(n), T # {} PROVE c[T] \in D /\ T \ {c[T]} \in UpTo(n - 1)
        OBVIOUS
      <4>1. c[T] \in T /\ IsFiniteSet(T) /\ Cardinality(T) \in Nat /\ Cardinality(T) <= n
        BY <1>1
      <4>2. Cardinality(T \ {c[T]}) = Cardinality(T) - 1
        BY <4>1, FS_RemoveElement
      <4> QED
        BY <2>2, <4>1, <4>2
    <3>4. \A T \in UpTo(n - 1) : T \in UpTo(n) /\ h[T] = g[T]
      <4>1. \A T \in UpTo(n - 1) : T \in UpTo(n)
        BY <1>1, <2>2
      <4> QED
        BY <3>2, <4>1
    <3>5. h \in [UpTo(n) -> V]
      BY <3>2, <3>3
    <3>6. Solves(h, n)
      BY <3>3, <3>4
    <3> QED
      BY <2>2, <3>5, <3>6
  <2> QED
    BY <2>3, <2>4
<1>4. UpTo(Cardinality(D)) = SUBSET D
  BY <1>1
<1>5. PICK g \in [UpTo(Cardinality(D)) -> V] : Solves(g, Cardinality(D))
  BY <1>2, <1>3
<1> QED
  BY <1>4, <1>5 DEF Folds

\* What Sum(f, S) is computed with: a function on the subsets of S.
Adds(f, S, g) ==
    \A T \in SUBSET S : g[T] = IF T = {} THEN 0
                               ELSE f[CHOOSE x \in T : TRUE] + g[T \ {CHOOSE x \in T : TRUE}]

LEMMA AddsOneWay ==
    ASSUME NEW S, IsFiniteSet(S), NEW f, NEW g, NEW h, Adds(f, S, g), Adds(f, S, h)
    PROVE  \A T \in SUBSET S : h[T] = g[T]
<1> DEFINE Bad == {T \in SUBSET S : h[T] # g[T]}
<1> SUFFICES ASSUME Bad # {} PROVE FALSE
  OBVIOUS
<1>1. PICK T \in Bad : \A U \in Bad : U \subseteq T => U = T
  <2>1. Bad \in SUBSET (SUBSET S)
    OBVIOUS
  <2> HIDE DEF Bad
  <2> QED
    BY <2>1, SmallestSet
<1>2. T # {}
  BY DEF Adds
<1>3. PICK x \in T : x = CHOOSE y \in T : TRUE
  BY <1>2
<1>4. T \ {x} \in SUBSET S /\ T \ {x} # T
  BY <1>3
<1>5. h[T \ {x}] = g[T \ {x}]
  BY <1>1, <1>4
<1>6. h[T] = f[x] + h[T \ {x}] /\ g[T] = f[x] + g[T \ {x}]
  BY <1>2, <1>3 DEF Adds
<1> QED
  BY <1>5, <1>6

LEMMA SumIsAFold ==
    ASSUME NEW S, IsFiniteSet(S), NEW f, \A x \in S : f[x] \in Int
    PROVE  \E g \in [SUBSET S -> Int] : Adds(f, S, g) /\ Sum(f, S) = g[S]
<1> DEFINE c == [T \in SUBSET S |-> CHOOSE x \in T : TRUE]
           F == [xv \in S \X Int |-> f[xv[1]] + xv[2]]
           sum == CHOOSE g : g = [T \in SUBSET S |-> IF T = {} THEN 0
                                  ELSE f[CHOOSE x \in T : TRUE] + g[T \ {CHOOSE x \in T : TRUE}]]
<1>1. \A T \in SUBSET S : T # {} => (CHOOSE x \in T : TRUE) \in T
  OBVIOUS
<1>2. PICK g \in [SUBSET S -> Int] : Folds(S, 0, c, F, g)
  <2>1. Chooses(S, c)
    BY <1>1 DEF Chooses
  <2>2. Steps(S, Int, F)
    BY DEF Steps
  <2>3. 0 \in Int
    OBVIOUS
  <2> HIDE DEF c, F
  <2> QED
    BY <2>1, <2>2, <2>3, FoldExists
<1>3. \A T \in SUBSET S : T # {} => F[<<c[T], g[T \ {c[T]}]>>] = f[c[T]] + g[T \ {c[T]}]
  <2> SUFFICES ASSUME NEW T \in SUBSET S, T # {}
               PROVE  F[<<c[T], g[T \ {c[T]}]>>] = f[c[T]] + g[T \ {c[T]}]
    OBVIOUS
  <2>1. PICK x \in S : x = c[T]
    BY <1>1
  <2>2. PICK v \in Int : v = g[T \ {x}]
    BY <1>2
  <2>3. F[<<x, v>>] = f[x] + v
    OBVIOUS
  <2> HIDE DEF c, F
  <2> QED
    BY <2>1, <2>2, <2>3
<1>4. Adds(f, S, g)
  BY <1>2, <1>3 DEF Adds, Folds
<1>5. g = [T \in SUBSET S |-> IF T = {} THEN 0
              ELSE f[CHOOSE x \in T : TRUE] + g[T \ {CHOOSE x \in T : TRUE}]]
  BY <1>4 DEF Adds
<1>6. sum = [T \in SUBSET S |-> IF T = {} THEN 0
              ELSE f[CHOOSE x \in T : TRUE] + sum[T \ {CHOOSE x \in T : TRUE}]]
  BY <1>5
<1>7. Sum(f, S) = sum[S]
  BY DEF Sum, MapThenSumSet, MapThenFoldSet
<1> HIDE DEF sum
<1>8. Adds(f, S, sum)
  BY <1>6 DEF Adds
<1>9. \A T \in SUBSET S : sum[T] = g[T]
  BY <1>4, <1>8, AddsOneWay
<1>10. sum[S] = g[S]
  BY <1>9
<1> QED
  BY <1>2, <1>4, <1>7, <1>10

LEMMA SumOfNone == ASSUME NEW f PROVE Sum(f, {}) = 0
<1>1. IsFiniteSet({}) /\ \A x \in {} : f[x] \in Int
  BY FS_EmptySet
<1>2. PICK g \in [SUBSET {} -> Int] : Adds(f, {}, g) /\ Sum(f, {}) = g[{}]
  BY <1>1, SumIsAFold
<1> QED
  BY <1>2 DEF Adds

\* The recursion, and that a sum is an integer.
LEMMA SumRecurs ==
    ASSUME NEW S, IsFiniteSet(S), NEW f, \A x \in S : f[x] \in Int, S # {}
    PROVE  \E x \in S : /\ x = CHOOSE y \in S : TRUE
                        /\ Sum(f, S) \in Int /\ Sum(f, S \ {x}) \in Int
                        /\ Sum(f, S) = f[x] + Sum(f, S \ {x})
<1>1. PICK g \in [SUBSET S -> Int] : Adds(f, S, g) /\ Sum(f, S) = g[S]
  BY SumIsAFold
<1>2. PICK x \in S : x = CHOOSE y \in S : TRUE
  OBVIOUS
<1> DEFINE T == S \ {x}
<1>3. T \in SUBSET S /\ IsFiniteSet(T) /\ \A y \in T : f[y] \in Int
  BY FS_Subset
<1>4. PICK h \in [SUBSET T -> Int] : Adds(f, T, h) /\ Sum(f, T) = h[T]
  <2> HIDE DEF T
  <2> QED
    BY <1>3, SumIsAFold
<1>5. Adds(f, T, g)
  BY <1>1, <1>3 DEF Adds
<1>6. h[T] = g[T]
  <2> HIDE DEF T
  <2>1. T \in SUBSET T
    OBVIOUS
  <2> QED
    BY <1>3, <1>4, <1>5, <2>1, AddsOneWay
<1>7. g[S] = f[x] + g[T]
  BY <1>1, <1>2 DEF Adds
<1>8. g[S] \in Int /\ g[T] \in Int
  BY <1>1, <1>3
<1> QED
  BY <1>1, <1>2, <1>4, <1>6, <1>7, <1>8

LEMMA SumIsInt ==
    ASSUME NEW S, IsFiniteSet(S), NEW f, \A x \in S : f[x] \in Int
    PROVE  Sum(f, S) \in Int
<1>1. CASE S = {}
  BY <1>1, SumOfNone
<1>2. CASE S # {}
  BY <1>2, SumRecurs
<1> QED
  BY <1>1, <1>2

\* Any member can be taken out of a sum first.
LEMMA SumTake ==
    ASSUME NEW S, IsFiniteSet(S), NEW f, \A x \in S : f[x] \in Int, NEW x \in S
    PROVE  Sum(f, S) = f[x] + Sum(f, S \ {x})
<1> DEFINE Takes(T, y) == Sum(f, T) = f[y] + Sum(f, T \ {y})
           Bad == {T \in SUBSET S : \E y \in T : ~ Takes(T, y)}
<1>1. \A T \in SUBSET S : IsFiniteSet(T) /\ (\A y \in T : f[y] \in Int) /\ Sum(f, T) \in Int
  BY FS_Subset, SumIsInt
<1>2. Bad = {}
  <2> SUFFICES ASSUME Bad # {} PROVE FALSE
    OBVIOUS
  <2>1. PICK T \in Bad : \A U \in Bad : U \subseteq T => U = T
    <3>1. Bad \in SUBSET (SUBSET S)
      OBVIOUS
    <3> HIDE DEF Bad
    <3> QED
      BY <3>1, SmallestSet
  <2>2. PICK z \in T : ~ Takes(T, z)
    BY <2>1
  <2>3. T \in SUBSET S /\ T # {}
    BY <2>1, <2>2
  <2>4. PICK y \in T : Sum(f, T) = f[y] + Sum(f, T \ {y})
    BY <1>1, <2>3, SumRecurs
  <2>5. y # z
    BY <2>2, <2>4
  <2>6. Takes(T \ {y}, z) /\ Takes(T \ {z}, y)
    <3>1. T \ {y} \in SUBSET S /\ T \ {z} \in SUBSET S /\ T \ {y} # T /\ T \ {z} # T
      BY <2>3
    <3>2. T \ {y} \notin Bad /\ T \ {z} \notin Bad
      <4> HIDE DEF Bad
      <4> QED
        BY <2>1, <3>1
    <3>3. z \in T \ {y} /\ y \in T \ {z}
      BY <2>5
    <3> HIDE DEF Takes
    <3> QED
      BY <3>1, <3>2, <3>3
  <2>7. (T \ {y}) \ {z} = (T \ {z}) \ {y}
    OBVIOUS
  <2>8. PICK U \in SUBSET S : U = (T \ {z}) \ {y}
    BY <2>3
  <2>9. Sum(f, T \ {y}) = f[z] + Sum(f, U) /\ Sum(f, T \ {z}) = f[y] + Sum(f, U)
    BY <2>6, <2>7, <2>8
  <2>10. f[y] \in Int /\ f[z] \in Int /\ Sum(f, U) \in Int
    BY <1>1, <2>3, <2>8
  <2> QED
    BY <2>2, <2>4, <2>9, <2>10
<1>3. S \notin Bad
  BY <1>2
<1> QED
  BY <1>3

\* A sum depends on the values in its set only.
LEMMA SumSame ==
    ASSUME NEW S, IsFiniteSet(S), NEW f, NEW g, \A x \in S : f[x] \in Int /\ g[x] = f[x]
    PROVE  Sum(g, S) = Sum(f, S)
<1> DEFINE Bad == {T \in SUBSET S : Sum(g, T) # Sum(f, T)}
<1> SUFFICES ASSUME Bad # {} PROVE FALSE
  OBVIOUS
<1>1. PICK T \in Bad : \A U \in Bad : U \subseteq T => U = T
  <2>1. Bad \in SUBSET (SUBSET S)
    OBVIOUS
  <2> HIDE DEF Bad
  <2> QED
    BY <2>1, SmallestSet
<1>2. IsFiniteSet(T) /\ \A x \in T : f[x] \in Int /\ g[x] \in Int
  BY FS_Subset
<1>3. T # {}
  BY SumOfNone
<1>4. PICK x \in T : TRUE
  BY <1>3
<1>5. Sum(f, T) = f[x] + Sum(f, T \ {x}) /\ Sum(g, T) = g[x] + Sum(g, T \ {x})
  BY <1>2, SumTake
<1>6. Sum(g, T \ {x}) = Sum(f, T \ {x})
  BY <1>1
<1> QED
  BY <1>5, <1>6

\* A sum of naturals is at least each of its terms.
LEMMA SumOfNats ==
    ASSUME NEW S, IsFiniteSet(S), NEW f, \A x \in S : f[x] \in Nat
    PROVE  Sum(f, S) \in Nat /\ \A x \in S : f[x] <= Sum(f, S)
<1> DEFINE Bad == {T \in SUBSET S : Sum(f, T) \notin Nat}
<1>1. \A T \in SUBSET S : IsFiniteSet(T) /\ (\A y \in T : f[y] \in Int) /\ Sum(f, T) \in Int
  BY FS_Subset, SumIsInt
<1>2. \A T \in SUBSET S, x \in S : x \in T => Sum(f, T) = f[x] + Sum(f, T \ {x})
  BY <1>1, SumTake
<1>3. Bad = {}
  <2> SUFFICES ASSUME Bad # {} PROVE FALSE
    OBVIOUS
  <2>1. PICK T \in Bad : \A U \in Bad : U \subseteq T => U = T
    <3>1. Bad \in SUBSET (SUBSET S)
      OBVIOUS
    <3> HIDE DEF Bad
    <3> QED
      BY <3>1, SmallestSet
  <2>2. T # {}
    BY SumOfNone
  <2>3. PICK x \in T : TRUE
    BY <2>2
  <2>4. T \in SUBSET S /\ T \ {x} \in SUBSET S /\ x \in S /\ T \ {x} # T
    BY <2>1, <2>3
  <2>5. Sum(f, T \ {x}) \in Nat
    BY <2>1, <2>4
  <2>6. Sum(f, T) = f[x] + Sum(f, T \ {x})
    BY <1>2, <2>3, <2>4
  <2> QED
    BY <2>1, <2>4, <2>5, <2>6
<1>4. \A T \in SUBSET S : Sum(f, T) \in Nat
  BY <1>3
<1>5. ASSUME NEW x \in S PROVE f[x] <= Sum(f, S)
  <2>1. S \in SUBSET S /\ S \ {x} \in SUBSET S
    OBVIOUS
  <2>2. Sum(f, S \ {x}) \in Nat /\ f[x] \in Nat /\ Sum(f, S) = f[x] + Sum(f, S \ {x})
    BY <1>2, <1>4, <2>1
  <2> QED
    BY <2>2
<1> QED
  BY <1>4, <1>5

\* One value of a sum changes.
LEMMA SumChange ==
    ASSUME NEW S, IsFiniteSet(S), NEW f, NEW g, NEW x \in S, g[x] \in Int,
           \A y \in S : f[y] \in Int, \A y \in S : y # x => g[y] = f[y]
    PROVE  Sum(g, S) = Sum(f, S) - f[x] + g[x]
<1>1. IsFiniteSet(S \ {x}) /\ \A y \in S \ {x} : f[y] \in Int /\ g[y] = f[y]
  BY FS_Subset
<1>2. Sum(g, S \ {x}) = Sum(f, S \ {x}) /\ Sum(f, S \ {x}) \in Int
  BY <1>1, SumSame, SumIsInt
<1>3. Sum(f, S) = f[x] + Sum(f, S \ {x})
  BY SumTake
<1>4. \A y \in S : g[y] \in Int
  OBVIOUS
<1>5. Sum(g, S) = g[x] + Sum(g, S \ {x})
  BY <1>4, SumTake
<1> QED
  BY <1>2, <1>3, <1>5

\* A member joins a sum.
LEMMA SumJoin ==
    ASSUME NEW S, IsFiniteSet(S), NEW f, NEW g, NEW x, x \notin S, g[x] \in Int,
           \A y \in S : f[y] \in Int /\ g[y] = f[y], NEW U, U = S \cup {x}
    PROVE  Sum(g, U) = Sum(f, S) + g[x]
<1>1. IsFiniteSet(S \cup {x})
  BY FS_AddElement
<1>2. IsFiniteSet(U) /\ x \in U /\ U \ {x} = S /\ \A y \in U : g[y] \in Int
  BY <1>1
<1>3. Sum(g, U) = g[x] + Sum(g, S)
  <2>1. Sum(g, U) = g[x] + Sum(g, U \ {x})
    BY <1>2, SumTake
  <2> QED
    BY <1>2, <2>1
<1>4. Sum(g, S) = Sum(f, S) /\ Sum(f, S) \in Int
  BY SumSame, SumIsInt
<1> QED
  BY <1>3, <1>4

-----------------------------------------------------------------------------
(* The invariant.                                                           *)

Resting == {"idle", "sweepHolds", "sweepLots"}

\* The calls that can be at each place.
KindsAt(at) ==
    CASE at = "begin" -> {"TopUp", "Consume", "Hold"}
      [] at = "guard" -> {"Consume", "Hold"}
      [] at = "charge" -> {"Capture"}
      [] at = "draw" -> {"Consume", "Capture"}
      [] at = "commit" -> {"TopUp", "Consume", "Hold", "Capture"}
      [] at \in {"readAccount", "zero", "expire"} -> {"Expire"}
      [] OTHER -> {}

\* Where a task is says which call it is in.
ShapeOK(p) ==
    /\ pc[p] \in Resting <=> op[p] = Null
    /\ pc[p] \notin Resting => op[p].kind \in KindsAt(pc[p])
    /\ (pc[p] \notin Resting /\ op[p].kind \in {"TopUp", "Consume", "Hold"}) => op[p] \in Requests
    /\ pc[p] \in Resting \cup {"begin"} => lock[p] = {}

\* The row locks a transaction has taken by the time it gets there.
LocksOK(p) ==
    /\ (pc[p] \in {"draw", "commit"} /\ op[p].kind # "TopUp") => AccountRow(op[p].owner) \in lock[p]
    /\ (pc[p] \in {"charge", "draw", "commit"} /\ op[p].kind = "Capture") => HoldRow(op[p].ref) \in lock[p]
    /\ (engine = "sqlite" /\ InTransaction(p)) => <<"db", Null>> \in lock[p]

\* What the account's lock makes last: the credits that were checked are there.
FundsOK(p) ==
    (pc[p] \in {"draw", "commit"} /\ op[p].kind \in {"Consume", "Hold"})
        => available(op[p].owner) >= op[p].amount

\* What the hold's lock makes last: it is held, and as it was read.
ClaimOK(p) ==
    (pc[p] \in {"charge", "draw", "commit"} /\ op[p].kind = "Capture")
        => /\ IsHeld(op[p].ref)
           /\ holds[op[p].ref].owner = op[p].owner /\ holds[op[p].ref].amount = op[p].amount

\* Lots are never deleted and keep their owner, so what was read of one is there.
LotsOK(p) ==
    /\ \A l \in Refs : view[p].lots[l] # Null => Exists(l) /\ lots[l].owner = view[p].lots[l].owner
    /\ pc[p] \in {"sweepLots", "readAccount", "zero", "expire"} => \A l \in todo[p] : Exists(l)
    /\ pc[p] \in {"readAccount", "zero", "expire"} =>
          Exists(op[p].ref) /\ lots[op[p].ref].owner = op[p].owner

\* On a database that runs one transaction at a time, what was read is still so.
SerialOK(p) ==
    engine = "sqlite" =>
        /\ (pc[p] = "commit" /\ op[p].kind \in {"Consume", "Capture"}) => view[p].lots = lots
        /\ pc[p] \in {"readAccount", "zero", "expire"} =>
              0 < lots[op[p].ref].remaining /\ op[p].amount <= lots[op[p].ref].remaining

TaskOK(p) == ShapeOK(p) /\ LocksOK(p) /\ FundsOK(p) /\ ClaimOK(p) /\ LotsOK(p) /\ SerialOK(p)

Exclusive == \A p, q \in Tasks : p # q => lock[p] \cap lock[q] = {}

\* A lot comes with its top-up's transfer; where transactions run one at a time,
\* a lot whose expiry is recorded is empty.
LotsRecorded ==
    /\ \A l \in Refs : Exists(l) => Taken(<<"call", l>>)
    /\ engine = "sqlite" => \A l \in Refs : Taken(<<"expire", l>>) => Exists(l) /\ lots[l].remaining = 0

LedgerInv ==
    /\ TypeOK /\ Exclusive /\ \A p \in Tasks : TaskOK(p)
    /\ LotsRecorded /\ HeldIsReserved /\ NeverOverdrawn /\ CapturedIffCharged

-----------------------------------------------------------------------------
(* Drawing from lots.                                                       *)

LEMMA MinOf == ASSUME NEW a \in Int, NEW b \in Int PROVE Min({a, b}) = IF a <= b THEN a ELSE b
<1> DEFINE m == IF a <= b THEN a ELSE b
<1>1. m \in {a, b} /\ \A y \in {a, b} : m <= y
  OBVIOUS
<1>2. \A x \in {a, b} : (\A y \in {a, b} : x <= y) => x = m
  OBVIOUS
<1> QED
  BY <1>1, <1>2 DEF Min

LEMMA MaxOf == ASSUME NEW a \in Int, NEW b \in Int PROVE Max({a, b}) = IF a >= b THEN a ELSE b
<1> DEFINE m == IF a >= b THEN a ELSE b
<1>1. m \in {a, b} /\ \A y \in {a, b} : m >= y
  OBVIOUS
<1>2. \A x \in {a, b} : (\A y \in {a, b} : x >= y) => x = m
  OBVIOUS
<1> QED
  BY <1>1, <1>2 DEF Max

LEMMA FiniteBook == IsFiniteSet(Refs) /\ IsFiniteSet(Keys) /\ IsFiniteSet(Accounts)
<1>1. IsFiniteSet(Refs)
  <2> DEFINE f == [r \in Requests |-> r.ref]
  <2>1. f \in Surjection(Requests, Refs)
    BY DEF Surjection, Refs
  <2> QED
    BY <2>1, LedgerConstants, FS_Surjection
<1>2. IsFiniteSet({"call", "capture", "expire"}) /\ IsFiniteSet({Topup, Consumed, Expiry})
  <2>1. ASSUME NEW a, NEW b, NEW c PROVE IsFiniteSet({a, b, c})
    <3>1. IsFiniteSet({a})
      BY FS_Singleton
    <3>2. IsFiniteSet({a} \cup {b})
      BY <3>1, FS_AddElement
    <3>3. IsFiniteSet(({a} \cup {b}) \cup {c})
      BY <3>2, FS_AddElement
    <3>4. {a, b, c} = ({a} \cup {b}) \cup {c}
      OBVIOUS
    <3> QED
      BY <3>3, <3>4
  <2> QED
    BY <2>1
<1>3. IsFiniteSet(Keys)
  BY <1>1, <1>2, FS_Product DEF Keys
<1>4. IsFiniteSet(Accounts)
  BY <1>2, LedgerConstants, FS_Union DEF Accounts, Systems
<1> QED
  BY <1>1, <1>3, <1>4

\* The sort has a last row.
LEMMA LastIsThere ==
    ASSUME NEW seen \in Book, NEW S \in SUBSET Refs, \A l \in S : seen[l] # Null, S # {}
    PROVE  LastOf(seen, S) \in S
<1> DEFINE Last(T, l) == \A m \in T : ~ Earlier(seen[l], seen[m])
           Bad == {T \in SUBSET S : T # {} /\ ~ \E l \in T : Last(T, l)}
<1>1. \A l, m, n \in S : Earlier(seen[l], seen[m]) /\ Earlier(seen[m], seen[n]) => Earlier(seen[l], seen[n])
  BY LedgerConstants DEF Earlier, Book, Lot
<1>2. \A l \in S : ~ Earlier(seen[l], seen[l])
  BY LedgerConstants DEF Earlier, Book, Lot
<1>3. Bad = {}
  <2> SUFFICES ASSUME Bad # {} PROVE FALSE
    OBVIOUS
  <2>1. PICK T \in Bad : \A U \in Bad : U \subseteq T => U = T
    <3>1. Bad \in SUBSET (SUBSET S) /\ IsFiniteSet(S)
      BY FiniteBook, FS_Subset
    <3> HIDE DEF Bad
    <3> QED
      BY <3>1, SmallestSet
  <2>2. PICK x \in T : TRUE
    BY <2>1
  <2>3. T \in SUBSET S /\ ~ \E l \in T : Last(T, l)
    BY <2>1
  <2>4. T \ {x} # {}
    <3> SUFFICES ASSUME T = {x} PROVE FALSE
      BY <2>2
    <3> QED
      BY <1>2, <2>3
  <2>5. PICK y \in T \ {x} : Last(T \ {x}, y)
    <3>1. T \ {x} \in SUBSET S /\ T \ {x} # T /\ T \ {x} \subseteq T
      BY <2>2, <2>3
    <3>2. T \ {x} \notin Bad
      <4> HIDE DEF Bad
      <4> QED
        BY <2>1, <3>1
    <3> HIDE DEF Last
    <3> QED
      BY <2>4, <3>1, <3>2
  <2>6. CASE Earlier(seen[y], seen[x])
    BY <1>1, <1>2, <2>2, <2>3, <2>5, <2>6
  <2>7. CASE ~ Earlier(seen[y], seen[x])
    BY <2>3, <2>5, <2>7
  <2> QED
    BY <2>6, <2>7
<1>4. \E l \in S : Last(S, l)
  BY <1>3
<1> QED
  BY <1>4 DEF LastOf

\* What the loop carries: lots that only shrink.
Drawing ==
    {acc \in [left : Nat, lots : Book] :
        \A l \in Refs : /\ acc.lots[l] = Null <=> lots[l] = Null
                        /\ lots[l] # Null => /\ acc.lots[l].owner = lots[l].owner
                                             /\ acc.lots[l].remaining <= lots[l].remaining}

\* One turn.
LEMMA DrawOneIs ==
    ASSUME lots \in Book, NEW seen \in Book, NEW acc \in Drawing, NEW l \in Refs,
           seen[l] # Null, lots[l] # Null
    PROVE  /\ DrawOne(seen, acc, l) \in Drawing
           /\ \A m \in Refs \ {l} : DrawOne(seen, acc, l).lots[m] = acc.lots[m]
           /\ acc.lots[l].remaining \in Nat /\ seen[l].remaining \in Nat /\ acc.left \in Nat
           /\ seen[l].remaining = acc.lots[l].remaining =>
                 LET take == IF acc.left <= acc.lots[l].remaining THEN acc.left ELSE acc.lots[l].remaining
                 IN  /\ DrawOne(seen, acc, l).left = acc.left - take
                     /\ DrawOne(seen, acc, l).lots[l].remaining = acc.lots[l].remaining - take
<1>1. PICK row \in Lot : row = acc.lots[l]
  BY DEF Drawing, Book
<1>2. row.remaining \in Nat /\ seen[l] \in Lot /\ seen[l].remaining \in Nat /\ acc.left \in Nat
  BY <1>1 DEF Lot, Book, Drawing
<1>3. PICK take \in Nat : take = IF seen[l].remaining <= acc.left THEN seen[l].remaining ELSE acc.left
  BY <1>2
<1>4. Min({seen[l].remaining, acc.left}) = take
  BY <1>2, <1>3, MinOf
<1>5. CASE acc.left > 0 /\ row.remaining >= take
  <2>1. PICK new : new = Leaving(row, row.remaining - take)
    OBVIOUS
  <2>2. new \in Lot /\ new.owner = row.owner /\ new.remaining = row.remaining - take /\ new # Null
    BY <1>1, <1>2, <1>3, <1>5, <2>1, LedgerConstants DEF Lot, Leaving
  <2>3. PICK L : L = [acc.lots EXCEPT ![l] = new]
    OBVIOUS
  <2>4. L \in Book /\ L[l] = new /\ \A m \in Refs \ {l} : L[m] = acc.lots[m]
    BY <2>2, <2>3 DEF Book, Drawing
  <2>5. DrawOne(seen, acc, l) = [left |-> acc.left - take, lots |-> L]
    BY <1>1, <1>4, <1>5, <2>1, <2>3 DEF DrawOne
  <2>6. acc.left - take \in Nat
    BY <1>2, <1>3, <1>5
  <2>7. row.owner = lots[l].owner /\ row.remaining <= lots[l].remaining /\ lots[l].remaining \in Nat
    BY <1>1 DEF Drawing, Book, Lot
  <2>8. \A m \in Refs : /\ L[m] = Null <=> lots[m] = Null
                        /\ lots[m] # Null => L[m].owner = lots[m].owner /\ L[m].remaining <= lots[m].remaining
    <3> SUFFICES ASSUME NEW m \in Refs
                 PROVE  /\ L[m] = Null <=> lots[m] = Null
                        /\ lots[m] # Null => L[m].owner = lots[m].owner /\ L[m].remaining <= lots[m].remaining
      OBVIOUS
    <3>1. CASE m = l
      BY <1>2, <1>3, <1>5, <2>2, <2>4, <2>7, <3>1
    <3>2. CASE m # l
      BY <2>4, <3>2 DEF Drawing
    <3> QED
      BY <3>1, <3>2
  <2>9. DrawOne(seen, acc, l) \in Drawing
    BY <2>4, <2>5, <2>6, <2>8 DEF Drawing
  <2> QED
    BY <1>1, <1>2, <1>3, <1>5, <2>2, <2>4, <2>5, <2>9
<1>6. CASE ~ (acc.left > 0 /\ row.remaining >= take)
  <2>1. DrawOne(seen, acc, l) = acc
    BY <1>1, <1>4, <1>6 DEF DrawOne
  <2> QED
    BY <1>1, <1>2, <1>3, <1>6, <2>1
<1> QED
  BY <1>5, <1>6

\* The loop as a function of the lots it has been through.
Draws(seen, amount, S, g) ==
    \A T \in SUBSET S : g[T] = IF T = {} THEN [left |-> amount, lots |-> lots]
                               ELSE DrawOne(seen, g[T \ {LastOf(seen, T)}], LastOf(seen, T))

LEMMA DrawIsAFold ==
    ASSUME lots \in Book, NEW seen \in Book, NEW o, NEW amount \in Nat,
           \A l \in Refs : seen[l] # Null => lots[l] # Null
    PROVE  \E g \in [SUBSET Drawable(seen, o) -> Drawing] :
              /\ Draws(seen, amount, Drawable(seen, o), g)
              /\ draw_lots(seen, o, amount) = g[Drawable(seen, o)].lots
<1> DEFINE S == Drawable(seen, o)
           b == [left |-> amount, lots |-> lots]
           c == [T \in SUBSET S |-> LastOf(seen, T)]
           F == [lv \in S \X Drawing |-> DrawOne(seen, lv[2], lv[1])]
           draw == CHOOSE g : g = [T \in SUBSET S |-> IF T = {} THEN b
                                   ELSE DrawOne(seen, g[T \ {LastOf(seen, T)}], LastOf(seen, T))]
<1>1. S \in SUBSET Refs /\ IsFiniteSet(S) /\ \A l \in S : seen[l] # Null /\ lots[l] # Null
  BY FiniteBook, FS_Subset DEF Drawable
<1>2. b \in Drawing
  BY DEF Drawing, Book, Lot
<1>3. \A T \in SUBSET S : T # {} => LastOf(seen, T) \in T
  BY <1>1, LastIsThere
<1>4. \A l \in S, acc \in Drawing : DrawOne(seen, acc, l) \in Drawing
  BY <1>1, DrawOneIs
<1>5. PICK g \in [SUBSET S -> Drawing] : Folds(S, b, c, F, g)
  <2>1. Chooses(S, c)
    BY <1>3 DEF Chooses
  <2>2. Steps(S, Drawing, F)
    BY <1>4 DEF Steps
  <2> HIDE DEF S, b, c, F
  <2> QED
    BY <1>1, <1>2, <2>1, <2>2, FoldExists
<1>6. Draws(seen, amount, S, g)
  <2> SUFFICES ASSUME NEW T \in SUBSET S
               PROVE  g[T] = IF T = {} THEN b ELSE DrawOne(seen, g[T \ {LastOf(seen, T)}], LastOf(seen, T))
    BY DEF Draws
  <2>1. g[T] = IF T = {} THEN b ELSE F[<<c[T], g[T \ {c[T]}]>>]
    BY <1>5 DEF Folds
  <2>2. CASE T # {}
    <3>1. PICK l \in S : l = LastOf(seen, T) /\ l = c[T]
      BY <1>3, <2>2
    <3>2. PICK acc \in Drawing : acc = g[T \ {l}]
      BY <1>5
    <3>3. F[<<l, acc>>] = DrawOne(seen, acc, l)
      OBVIOUS
    <3> HIDE DEF c, F, b
    <3> QED
      BY <2>1, <2>2, <3>1, <3>2, <3>3
  <2> QED
    BY <2>1, <2>2
<1> DEFINE Body(d) == [T \in SUBSET S |-> IF T = {} THEN b
                           ELSE DrawOne(seen, d[T \ {LastOf(seen, T)}], LastOf(seen, T))]
<1>7. draw = Body(draw)
  <2>1. g = Body(g)
    BY <1>5, <1>6 DEF Draws
  <2> QED
    BY <2>1
<1>8. draw_lots(seen, o, amount) = draw[S].lots
  BY DEF draw_lots, MapThenFoldSet
<1> HIDE DEF draw
<1>9. Draws(seen, amount, S, draw)
  BY <1>7 DEF Draws
<1>10. \A T \in SUBSET S : draw[T] = g[T]
  <2> DEFINE Bad == {T \in SUBSET S : draw[T] # g[T]}
  <2> SUFFICES ASSUME Bad # {} PROVE FALSE
    OBVIOUS
  <2> HIDE DEF S
  <2>1. PICK T \in Bad : \A U \in Bad : U \subseteq T => U = T
    <3>1. Bad \in SUBSET (SUBSET S)
      OBVIOUS
    <3> HIDE DEF Bad
    <3> QED
      BY <1>1, <3>1, SmallestSet
  <2>2. T # {}
    BY <1>6, <1>9, <2>1 DEF Draws
  <2>3. PICK l \in T : l = LastOf(seen, T)
    BY <1>3, <2>1, <2>2
  <2>4. T \in SUBSET S /\ T \ {l} \in SUBSET S /\ T \ {l} # T
    BY <2>1, <2>3
  <2>5. draw[T \ {l}] = g[T \ {l}]
    BY <2>1, <2>4
  <2>6. draw[T] = DrawOne(seen, draw[T \ {l}], l) /\ g[T] = DrawOne(seen, g[T \ {l}], l)
    BY <1>6, <1>9, <2>2, <2>3, <2>4 DEF Draws
  <2> QED
    BY <2>1, <2>5, <2>6
<1>11. S \in SUBSET S
  OBVIOUS
<1> QED
  BY <1>5, <1>6, <1>8, <1>10, <1>11

\* Drawing deletes no lot, gives none to another owner and fills none up.
LEMMA DrawKeeps ==
    ASSUME lots \in Book, NEW seen \in Book, NEW o, NEW amount \in Nat,
           \A l \in Refs : seen[l] # Null => lots[l] # Null
    PROVE  draw_lots(seen, o, amount) \in
              {L \in Book : \A l \in Refs :
                  /\ L[l] = Null <=> lots[l] = Null
                  /\ lots[l] # Null => L[l].owner = lots[l].owner /\ L[l].remaining <= lots[l].remaining}
<1>1. PICK g \in [SUBSET Drawable(seen, o) -> Drawing] :
          draw_lots(seen, o, amount) = g[Drawable(seen, o)].lots
  BY DrawIsAFold
<1>2. g[Drawable(seen, o)] \in Drawing
  BY <1>1
<1> QED
  BY <1>1, <1>2 DEF Drawing

\* What is left in each lot.
Rest(L) == [l \in Refs |-> IF L[l] # Null THEN L[l].remaining ELSE 0]

LEMMA RestIs ==
    ASSUME NEW L \in Book
    PROVE  \A l \in Refs : /\ Rest(L)[l] \in Nat
                           /\ L[l] # Null => Rest(L)[l] = L[l].remaining /\ L[l].remaining \in Nat
                           /\ L[l] = Null => Rest(L)[l] = 0
BY DEF Rest, Book, Lot

LEMMA SumOfZeros ==
    ASSUME NEW S, IsFiniteSet(S), NEW f, \A x \in S : f[x] = 0
    PROVE  Sum(f, S) = 0
<1> DEFINE Bad == {T \in SUBSET S : Sum(f, T) # 0}
<1> SUFFICES ASSUME Bad # {} PROVE FALSE
  OBVIOUS
<1>1. PICK T \in Bad : \A U \in Bad : U \subseteq T => U = T
  <2>1. Bad \in SUBSET (SUBSET S)
    OBVIOUS
  <2> HIDE DEF Bad
  <2> QED
    BY <2>1, SmallestSet
<1>2. IsFiniteSet(T) /\ (\A x \in T : f[x] \in Int) /\ T # {}
  <2>1. IsFiniteSet(T)
    BY FS_Subset
  <2>2. T # {}
    BY SumOfNone
  <2> QED
    BY <2>1, <2>2
<1>3. PICK x \in T : TRUE
  BY <1>2
<1>4. Sum(f, T) = f[x] + Sum(f, T \ {x})
  BY <1>2, SumTake
<1>5. Sum(f, T \ {x}) = 0
  BY <1>1
<1> QED
  BY <1>4, <1>5

\* The loop, over lots nobody has changed since they were read: what is left to
\* take and what is left in the owner's lots differ by what there was and what
\* was asked for, and it stops short only when they are empty.
LEMMA DrawSums ==
    ASSUME lots \in Book, NEW o, NEW amount \in Nat,
           NEW g \in [SUBSET Drawable(lots, o) -> Drawing], Draws(lots, amount, Drawable(lots, o), g),
           NEW T \in SUBSET Drawable(lots, o)
    PROVE  /\ \A l \in Refs \ T : g[T].lots[l] = lots[l]
           /\ g[T].left + InLots(o) = amount + Sum(Rest(g[T].lots), OwnersLots(o))
           /\ g[T].left > 0 => \A l \in T : g[T].lots[l].remaining = 0
<1> DEFINE S == Drawable(lots, o)
           O == OwnersLots(o)
           Good(U) == /\ \A l \in Refs \ U : g[U].lots[l] = lots[l]
                      /\ g[U].left + InLots(o) = amount + Sum(Rest(g[U].lots), O)
                      /\ g[U].left > 0 => \A l \in U : g[U].lots[l].remaining = 0
           Bad == {U \in SUBSET S : ~ Good(U)}
<1>1. S \in SUBSET Refs /\ S \subseteq O /\ O \in SUBSET Refs /\ IsFiniteSet(S) /\ IsFiniteSet(O)
  BY FiniteBook, FS_Subset DEF Drawable, OwnersLots, Exists
<1>2. \A U \in SUBSET S : U # {} => LastOf(lots, U) \in U
  BY <1>1, LastIsThere DEF Drawable
<1>3. InLots(o) = Sum(Rest(lots), O)
  BY DEF InLots, Rest, InLot, Exists
<1>4. Bad = {}
  <2> SUFFICES ASSUME Bad # {} PROVE FALSE
    OBVIOUS
  <2>1. PICK U \in Bad : \A W \in Bad : W \subseteq U => W = U
    <3>1. Bad \in SUBSET (SUBSET S)
      OBVIOUS
    <3> HIDE DEF Bad, S
    <3> QED
      BY <1>1, <3>1, SmallestSet
  <2>2. U \in SUBSET S /\ ~ Good(U)
    BY <2>1
  <2>3. U # {}
    <3> SUFFICES ASSUME U = {} PROVE FALSE
      OBVIOUS
    <3>1. g[{}] = [left |-> amount, lots |-> lots]
      BY DEF Draws
    <3>2. g[{}].left = amount /\ g[{}].lots = lots
      BY <3>1
    <3>3. InLots(o) = Sum(Rest(g[{}].lots), O)
      BY <1>3, <3>2
    <3> QED
      BY <2>2, <3>2, <3>3
  <2>4. PICK x \in U : x = LastOf(lots, U)
    BY <1>2, <2>2, <2>3
  <2>5. PICK W \in SUBSET S : W = U \ {x} /\ Good(W)
    <3>1. U \ {x} \in SUBSET S /\ U \ {x} \subseteq U /\ U \ {x} # U
      BY <2>2, <2>4
    <3>2. U \ {x} \notin Bad
      <4> HIDE DEF Bad
      <4> QED
        BY <2>1, <3>1
    <3> HIDE DEF Good
    <3> QED
      BY <3>1, <3>2
  <2>6. PICK acc \in Drawing : acc = g[W]
    BY <2>5
  <2>7. PICK new \in Drawing : new = g[U]
    BY <2>2
  <2>8. new = DrawOne(lots, acc, x)
    BY <2>2, <2>3, <2>4, <2>5, <2>6, <2>7 DEF Draws
  <2>9. x \in Refs /\ x \in O /\ lots[x] # Null /\ acc.lots[x] = lots[x]
    BY <1>1, <2>2, <2>4, <2>5, <2>6 DEF Drawable
  <2>10. PICK have \in Nat : have = acc.lots[x].remaining
    BY <2>9 DEF Book, Lot
  <2>11. PICK take \in Nat : take = IF acc.left <= have THEN acc.left ELSE have
    BY <2>6, <2>10 DEF Drawing
  <2>12. /\ acc.left \in Nat /\ new.left = acc.left - take
         /\ new.lots[x].remaining = have - take
         /\ \A m \in Refs \ {x} : new.lots[m] = acc.lots[m]
    BY <2>8, <2>9, <2>10, <2>11, DrawOneIs
  <2>13. acc.lots \in Book /\ new.lots \in Book /\ new.lots[x] # Null
    BY <2>9 DEF Drawing
  <2>14. Sum(Rest(new.lots), O) = Sum(Rest(acc.lots), O) - have + (have - take)
    <3>1. \A y \in O : Rest(acc.lots)[y] \in Int
      BY <1>1, <2>13, RestIs
    <3>2. Rest(acc.lots)[x] = have
      BY <2>9, <2>10, <2>13, RestIs
    <3>3. Rest(new.lots)[x] = have - take /\ Rest(new.lots)[x] \in Int
      BY <2>9, <2>12, <2>13, RestIs
    <3>4. \A y \in O : y # x => Rest(new.lots)[y] = Rest(acc.lots)[y]
      BY <1>1, <2>12 DEF Rest
    <3> HIDE DEF O
    <3> QED
      BY <1>1, <2>9, <3>1, <3>2, <3>3, <3>4, SumChange
  <2>15. \A l \in Refs \ U : new.lots[l] = lots[l]
    BY <2>4, <2>5, <2>6, <2>12
  <2>16. new.left + InLots(o) = amount + Sum(Rest(new.lots), O)
    <3>1. acc.left + InLots(o) = amount + Sum(Rest(acc.lots), O)
      BY <2>5, <2>6
    <3>2. Sum(Rest(acc.lots), O) \in Int /\ InLots(o) \in Int
      <4>1. \A y \in O : Rest(acc.lots)[y] \in Int /\ Rest(lots)[y] \in Int
        BY <1>1, <2>13, RestIs
      <4> HIDE DEF O
      <4> QED
        BY <1>1, <1>3, <4>1, SumIsInt
    <3> HIDE DEF O
    <3> QED
      BY <2>12, <2>14, <3>1, <3>2
  <2>17. new.left > 0 => \A l \in U : new.lots[l].remaining = 0
    <3> SUFFICES ASSUME new.left > 0, NEW l \in U PROVE new.lots[l].remaining = 0
      OBVIOUS
    <3>1. acc.left > 0 /\ take = have
      BY <2>11, <2>12
    <3>2. CASE l = x
      BY <2>12, <3>1, <3>2
    <3>3. CASE l # x
      BY <1>1, <2>2, <2>5, <2>6, <2>12, <3>1, <3>3
    <3> QED
      BY <3>2, <3>3
  <2> QED
    BY <2>2, <2>7, <2>15, <2>16, <2>17
<1>5. T \notin Bad
  BY <1>4
<1> HIDE DEF Good
<1>6. Good(T)
  BY <1>5
<1> QED
  BY <1>6 DEF Good

\* What draw_lots leaves: the amount less, or nothing.
LEMMA DrawTakes ==
    ASSUME lots \in Book, NEW o, NEW amount \in Nat
    PROVE  /\ \A l \in Refs : (lots[l] # Null /\ lots[l].owner # o)
                                 => draw_lots(lots, o, amount)[l] = lots[l]
           /\ InLots(o) \in Nat
           /\ Sum(Rest(draw_lots(lots, o, amount)), OwnersLots(o)) =
                 IF amount <= InLots(o) THEN InLots(o) - amount ELSE 0
<1> DEFINE S == Drawable(lots, o)
           O == OwnersLots(o)
<1>1. PICK g \in [SUBSET S -> Drawing] :
          Draws(lots, amount, S, g) /\ draw_lots(lots, o, amount) = g[S].lots
  BY DrawIsAFold
<1>2. PICK new \in Drawing : new = g[S]
  BY <1>1
<1>3. /\ \A l \in Refs \ S : new.lots[l] = lots[l]
      /\ new.left + InLots(o) = amount + Sum(Rest(new.lots), O)
      /\ new.left > 0 => \A l \in S : new.lots[l].remaining = 0
  BY <1>1, <1>2, DrawSums
<1>4. O \in SUBSET Refs /\ IsFiniteSet(O) /\ new.lots \in Book /\ new.left \in Nat
  BY FiniteBook, FS_Subset DEF OwnersLots, Drawing
<1>5. \A l \in O : Rest(new.lots)[l] \in Nat /\ Rest(lots)[l] \in Nat
  BY <1>4, RestIs
<1>6. Sum(Rest(new.lots), O) \in Nat /\ Sum(Rest(lots), O) \in Nat
  <2> HIDE DEF O
  <2> QED
    BY <1>4, <1>5, SumOfNats
<1>7. InLots(o) = Sum(Rest(lots), O)
  BY DEF InLots, Rest, InLot, Exists
<1>8. new.left > 0 => Sum(Rest(new.lots), O) = 0
  <2> SUFFICES ASSUME new.left > 0 PROVE Sum(Rest(new.lots), O) = 0
    OBVIOUS
  <2>1. ASSUME NEW l \in O PROVE Rest(new.lots)[l] = 0
    <3>1. l \in Refs /\ lots[l] # Null /\ lots[l].owner = o
      BY DEF OwnersLots, Exists
    <3>2. new.lots[l] # Null
      BY <3>1 DEF Drawing
    <3>3. CASE l \in S
      BY <1>3, <1>4, <3>1, <3>2, <3>3, RestIs
    <3>4. CASE l \notin S
      <4>1. ~ (lots[l].remaining > 0) /\ lots[l].remaining \in Nat
        BY <3>1, <3>4 DEF Drawable, Book, Lot
      <4>2. new.lots[l] = lots[l]
        BY <1>3, <3>1, <3>4
      <4> QED
        BY <1>4, <3>1, <3>2, <4>1, <4>2, RestIs
    <3> QED
      BY <3>3, <3>4
  <2> HIDE DEF O
  <2> QED
    BY <1>4, <2>1, SumOfZeros
<1>9. \A l \in Refs : (lots[l] # Null /\ lots[l].owner # o) => new.lots[l] = lots[l]
  BY <1>3 DEF Drawable
<1> HIDE DEF O, S
<1>10. new.left <= amount
  BY <1>3, <1>4, <1>6, <1>7, <1>8
<1>11. Sum(Rest(new.lots), O) = IF amount <= InLots(o) THEN InLots(o) - amount ELSE 0
  BY <1>3, <1>4, <1>6, <1>7, <1>8, <1>10
<1> QED
  BY <1>1, <1>2, <1>6, <1>7, <1>9, <1>11 DEF O

-----------------------------------------------------------------------------
(* Types.                                                                   *)

TypeBook ==
    /\ opened \subseteq Accounts /\ balance \in [Accounts -> Int] /\ held \in [Owners -> Int]
    /\ transfers \in [Keys -> Transfer \cup {Null}]
    /\ lots \in Book /\ holds \in [Refs -> Hold \cup {Null}]

TypeTask ==
    /\ engine \in Engines /\ now \in Nat
    /\ pc \in [Tasks -> PCs] /\ op \in [Tasks -> Operation \cup {Null}]
    /\ view \in [Tasks -> View] /\ lock \in [Tasks -> SUBSET Rows]
    /\ todo \in [Tasks -> SUBSET Refs] /\ swept \in [Tasks -> Nat]
    /\ calls \in Nat /\ faults \in Nat

LEMMA TypeParts == (TypeOK <=> TypeBook /\ TypeTask) /\ (TypeOK' <=> TypeBook' /\ TypeTask')
BY DEF TypeOK, TypeBook, TypeTask

\* Every step belongs to one task, or is the clock's.
Quiet(p) ==
    \/ (\E r \in Requests : Call(p, r)) \/ Begin(p) \/ Guard(p) \/ Insufficient(p) \/ SelectLots(p)
    \/ LoseRace(p) \/ (\E h \in Refs : ClaimHold(p, h)) \/ Charge(p)
    \/ Sweep(p) \/ SelectDeadLots(p) \/ SweepDone(p)
    \/ (\E l \in Refs : ReadLot(p, l) \/ SkipLot(p, l)) \/ ReadAccount(p) \/ ZeroLot(p)
    \/ Victim(p) \/ Crash(p)

Commits(p) ==
    \/ CommitTopUp(p) \/ CommitConsume(p) \/ CommitHold(p) \/ CommitCapture(p)
    \/ (\E h \in Refs : Release(p, h) \/ SweepHold(p, h))
    \/ ExpireLot(p) \/ ExpireNothing(p) \/ ExpireAgain(p)

LEMMA NextIs == Next => Tick \/ \E p \in Tasks : Quiet(p) \/ Commits(p)
BY Zenon DEF Next, Proceed, SweepStep, Quiet, Commits, Tasks

LEMMA RowTypes ==
    /\ \A o \in Owners : AccountRow(o) \in Rows
    /\ \A r \in Refs : LotRow(r) \in Rows /\ HoldRow(r) \in Rows
    /\ BeginRows \subseteq Rows
BY DEF AccountRow, LotRow, HoldRow, BeginRows, Rows

LEMMA ViewTypes ==
    ASSUME TypeOK
    PROVE  /\ Empty \in View
           /\ \A o \in Owners : /\ Snapshot(o) \in View /\ available(o) \in Int
                                /\ balance[o] \in Int /\ held[o] \in Int
<1>1. \A o \in Owners : balance[o] \in Int /\ held[o] \in Int
  BY DEF TypeOK, Accounts
<1>2. Empty \in View
  BY DEF Empty, View, Book
<1> QED
  BY <1>1, <1>2 DEF Snapshot, available, View, TypeOK

LEMMA OpTypes ==
    ASSUME TypeOK, NEW p \in Tasks, ShapeOK(p), pc[p] \notin Resting
    PROVE  /\ op[p] \in Operation /\ op[p].owner \in Owners /\ op[p].owner \in Accounts
           /\ op[p].amount \in Nat /\ op[p].ref \in Refs
           /\ op[p].kind \in {"TopUp", "Consume", "Hold", "Capture", "Expire"}
           /\ op[p].ttl \in Nat \cup {Null}
<1>1. op[p] \in Operation
  BY DEF TypeOK, ShapeOK
<1> QED
  BY <1>1 DEF Operation, Accounts

LEMMA Distinct ==
    /\ Topup \in Accounts /\ Consumed \in Accounts /\ Expiry \in Accounts
    /\ \A o \in Owners : o # Topup /\ o # Consumed /\ o # Expiry
    /\ \A k \in {"call", "capture", "expire"}, r \in Refs : <<k, r>> \in Keys
BY LedgerConstants DEF Accounts, Systems, Topup, Consumed, Expiry, Keys

\* The rests of the tasks' variables, after each way a step can end.
LEMMA EndTypes ==
    ASSUME TypeTask, NEW p \in Tasks, Empty \in View, Return(p) \/ NextLot(p)
    PROVE  TypeTask'
BY DEF TypeTask, Return, NextLot, PCs

LEMMA MoveTypes ==
    ASSUME TypeBook, NEW a \in Accounts, NEW b \in Accounts, NEW n \in Nat, a # b, move(a, b, n)
    PROVE  /\ balance' \in [Accounts -> Int]
           /\ balance'[a] = balance[a] - n /\ balance'[b] = balance[b] + n
           /\ \A c \in Accounts : c # a /\ c # b => balance'[c] = balance[c]
BY DEF TypeBook, move

LEMMA RecordTypes ==
    ASSUME TypeBook, NEW k \in Keys, NEW a \in Accounts, NEW b \in Accounts, NEW n \in Nat,
           record(k, a, b, n)
    PROVE  /\ transfers' \in [Keys -> Transfer \cup {Null}]
           /\ transfers'[k] # Null /\ transfers'[k].from = a /\ transfers'[k].to = b
           /\ transfers'[k].amount = n
           /\ \A j \in Keys : j # k => transfers'[j] = transfers[j]
<1>1. PICK t \in Transfer : t = [from |-> a, to |-> b, amount |-> n]
  BY DEF Transfer
<1>2. t # Null /\ t.from = a /\ t.to = b /\ t.amount = n
  BY <1>1, LedgerConstants
<1>3. transfers' = [transfers EXCEPT ![k] = t]
  BY <1>1 DEF record
<1> QED
  BY <1>2, <1>3 DEF TypeBook

LEMMA QuietBook ==
    ASSUME TypeOK, NEW p \in Tasks, Quiet(p)
    PROVE  /\ UNCHANGED <<balance, held, transfers, lots, holds, engine, now>>
           /\ opened' \subseteq Accounts
<1> USE DEF TypeOK
<1>1. ASSUME NEW r \in Requests, Call(p, r)
      PROVE  UNCHANGED <<balance, held, transfers, lots, holds, engine, now>> /\ opened' \subseteq Accounts
  <2>1. r.owner \in Accounts /\ r.kind \in {"TopUp", "Consume", "Hold"}
    BY LedgerConstants DEF Request, Accounts
  <2>2. opened' = opened \cup ({r.owner} \cup (CASE r.kind = "TopUp" -> {Topup}
                                        [] r.kind = "Consume" -> {Consumed}
                                        [] r.kind = "Hold" -> {}))
    BY <1>1 DEF Call, ensure_account
  <2>3. opened' \subseteq Accounts
    BY <2>1, <2>2, Distinct
  <2> QED
    BY <1>1, <2>3 DEF Call
<1>2. CASE \E r \in Requests : Call(p, r)
  BY <1>1, <1>2
<1>3. CASE Begin(p) \/ Guard(p) \/ Insufficient(p) \/ SelectLots(p)
  BY <1>3 DEF Begin, Guard, Insufficient, SelectLots, Return, book
<1>4. CASE LoseRace(p) \/ Charge(p)
  BY <1>4 DEF LoseRace, Charge, Return, book
<1>5. CASE \E h \in Refs : ClaimHold(p, h)
  BY <1>5, Distinct DEF ClaimHold, ensure_account
<1>6. CASE Sweep(p) \/ SelectDeadLots(p) \/ SweepDone(p)
  BY <1>6, Distinct DEF Sweep, SelectDeadLots, SweepDone, ensure_account, book
<1>7. CASE \E l \in Refs : ReadLot(p, l) \/ SkipLot(p, l)
  BY <1>7 DEF ReadLot, SkipLot, book
<1>8. CASE ReadAccount(p) \/ ZeroLot(p)
  BY <1>8 DEF ReadAccount, ZeroLot, book
<1>9. CASE Victim(p) \/ Crash(p)
  BY <1>9 DEF Victim, Crash, Abort, book
<1> QED
  BY <1>2, <1>3, <1>4, <1>5, <1>6, <1>7, <1>8, <1>9 DEF Quiet

\* A step of one task leaves the others where they are.
Apart(p) == \A q \in Tasks \ {p} : /\ pc'[q] = pc[q] /\ op'[q] = op[q] /\ view'[q] = view[q]
                                   /\ lock'[q] = lock[q] /\ todo'[q] = todo[q]

LEMMA OneTask ==
    ASSUME TypeOK, NEW p \in Tasks, Quiet(p) \/ Commits(p)
    PROVE  Apart(p)
<1> USE DEF TypeOK, Apart
<1>1. CASE (\E r \in Requests : Call(p, r)) \/ Begin(p) \/ Guard(p) \/ Insufficient(p) \/ SelectLots(p)
  BY <1>1 DEF Call, Begin, Guard, Insufficient, SelectLots, Return, Goto
<1>2. CASE LoseRace(p) \/ Charge(p) \/ \E h \in Refs : ClaimHold(p, h)
  BY <1>2 DEF LoseRace, Charge, Return, Goto, ClaimHold
<1>3. CASE Sweep(p) \/ SelectDeadLots(p) \/ SweepDone(p)
  BY <1>3 DEF Sweep, SelectDeadLots, SweepDone
<1>4. CASE \E l \in Refs : ReadLot(p, l) \/ SkipLot(p, l)
  BY <1>4 DEF ReadLot, SkipLot, Goto
<1>5. CASE ReadAccount(p) \/ ZeroLot(p)
  BY <1>5 DEF ReadAccount, ZeroLot, Goto
<1>6. CASE Victim(p) \/ Crash(p)
  BY <1>6 DEF Victim, Crash, Abort
<1>7. CASE CommitTopUp(p) \/ CommitConsume(p) \/ CommitHold(p) \/ CommitCapture(p)
  <2>1. Return(p)
    BY <1>7 DEF CommitTopUp, CommitConsume, CommitHold, CommitCapture
  <2> QED
    BY <2>1 DEF Return
<1>8. CASE \E h \in Refs : Release(p, h) \/ SweepHold(p, h)
  BY <1>8 DEF Release, SweepHold, task
<1>9. CASE ExpireLot(p) \/ ExpireNothing(p) \/ ExpireAgain(p)
  <2>1. NextLot(p)
    BY <1>9 DEF ExpireLot, ExpireNothing, ExpireAgain
  <2> QED
    BY <2>1 DEF NextLot
<1> QED
  BY <1>1, <1>2, <1>3, <1>4, <1>5, <1>6, <1>7, <1>8, <1>9 DEF Quiet, Commits

\* The tasks' variables keep their types.
LEMMA TaskTypeStep ==
    ASSUME TypeOK, NEW p \in Tasks, TaskOK(p), Quiet(p) \/ Commits(p)
    PROVE  TypeTask'
<1>1. TypeTask /\ TypeBook /\ ShapeOK(p) /\ LotsOK(p)
  BY TypeParts DEF TaskOK
<1>2. Empty \in View
  BY ViewTypes
<1> USE DEF TypeTask
<1>3. ASSUME NEW r \in Requests, Call(p, r) PROVE TypeTask'
  <2>1. r \in Operation
    BY LedgerConstants DEF Request, Operation
  <2> QED
    BY <1>1, <1>3, <2>1 DEF Call, PCs
<1>4. CASE Begin(p)
  <2>1. pc[p] \notin Resting
    BY <1>4 DEF Begin, Resting
  <2>2. Snapshot(op[p].owner) \in View /\ BeginRows \subseteq Rows
    BY <1>1, <2>1, OpTypes, ViewTypes, RowTypes
  <2> QED
    BY <1>1, <1>4, <2>2 DEF Begin, Goto, PCs
<1>5. CASE Guard(p) \/ Charge(p)
  <2>1. pc[p] \notin Resting
    BY <1>5 DEF Guard, Charge, Resting
  <2>2. AccountRow(op[p].owner) \in Rows
    BY <1>1, <2>1, OpTypes, RowTypes
  <2> QED
    BY <1>1, <1>5, <2>2 DEF Guard, Charge, Goto, PCs
<1>6. CASE Insufficient(p) \/ LoseRace(p) \/ CommitTopUp(p) \/ CommitConsume(p) \/ CommitHold(p) \/ CommitCapture(p)
  <2>1. Return(p)
    BY <1>6 DEF Insufficient, LoseRace, CommitTopUp, CommitConsume, CommitHold, CommitCapture
  <2> QED
    BY <1>1, <1>2, <2>1, EndTypes
<1>7. CASE SelectLots(p)
  <2>1. PICK v \in View : v = view[p]
    BY <1>1
  <2>2. [v EXCEPT !.lots = lots] \in View
    BY <1>1 DEF View, TypeBook
  <2> QED
    BY <1>1, <1>7, <2>1, <2>2 DEF SelectLots, PCs
<1>8. ASSUME NEW h \in Refs, ClaimHold(p, h) PROVE TypeTask'
  <2>1. PICK row \in Hold : row = holds[h]
    BY <1>1, <1>8 DEF ClaimHold, IsHeld, TypeBook
  <2>2. row.owner \in Owners /\ row.amount \in Nat
    BY <2>1 DEF Hold
  <2>3. [kind |-> "Capture", owner |-> row.owner, amount |-> row.amount, ref |-> h, ttl |-> Null] \in Operation
    BY <2>2 DEF Operation
  <2>4. Snapshot(row.owner) \in View /\ HoldRow(h) \in Rows /\ BeginRows \subseteq Rows
    BY <2>2, ViewTypes, RowTypes
  <2>5. calls - 1 \in Nat
    BY <1>1, <1>8 DEF ClaimHold
  <2> QED
    BY <1>1, <1>8, <2>1, <2>3, <2>4, <2>5 DEF ClaimHold, Goto, PCs
<1>9. CASE Sweep(p)
  BY <1>1, <1>9 DEF Sweep, StaleHolds, PCs
<1>10. CASE SelectDeadLots(p) \/ SweepDone(p)
  BY <1>1, <1>10 DEF SelectDeadLots, SweepDone, DeadLots, PCs
<1>11. ASSUME NEW l \in Refs, ReadLot(p, l) PROVE TypeTask'
  <2>1. PICK row \in Lot : row = lots[l]
    BY <1>1, <1>11 DEF ReadLot, TypeBook, Book, LotsOK, Exists
  <2>2. row.owner \in Owners /\ row.remaining \in Nat
    BY <2>1 DEF Lot
  <2>3. [kind |-> "Expire", owner |-> row.owner, amount |-> row.remaining, ref |-> l, ttl |-> Null] \in Operation
    BY <2>2 DEF Operation
  <2>4. Snapshot(row.owner) \in View /\ BeginRows \subseteq Rows
    BY <2>2, ViewTypes, RowTypes
  <2> QED
    BY <1>1, <1>11, <2>1, <2>3, <2>4 DEF ReadLot, Goto, PCs
<1>12. ASSUME NEW l \in Refs, SkipLot(p, l) PROVE TypeTask'
  BY <1>1, <1>12 DEF SkipLot
<1>13. CASE ReadAccount(p)
  <2>1. pc[p] \notin Resting
    BY <1>13 DEF ReadAccount, Resting
  <2>2. PICK r \in Operation : r = op[p] /\ r.amount \in Nat /\ r.owner \in Owners
    BY <1>1, <2>1, OpTypes
  <2>3. PICK avail \in Int : avail = IF engine = "mysql" THEN view[p].available ELSE available(r.owner)
    BY <1>1, <2>2, ViewTypes DEF View
  <2>4. PICK n \in Nat : n = Max({0, Min({r.amount, avail})})
    <3>1. Min({r.amount, avail}) \in Int
      BY <2>2, <2>3, MinOf
    <3>2. PICK m \in Int : m = Min({r.amount, avail})
      BY <3>1
    <3>3. Max({0, m}) \in Nat
      BY <3>2, MaxOf
    <3> QED
      BY <3>2, <3>3
  <2>5. [r EXCEPT !.amount = n] \in Operation
    BY <2>2, <2>4 DEF Operation
  <2>6. op' = [op EXCEPT ![p] = [r EXCEPT !.amount = n]]
    BY <1>13, <2>2, <2>3, <2>4 DEF ReadAccount
  <2> QED
    BY <1>1, <1>13, <2>5, <2>6 DEF ReadAccount, PCs
<1>14. CASE ZeroLot(p)
  <2>1. pc[p] \notin Resting
    BY <1>14 DEF ZeroLot, Resting
  <2>2. LotRow(op[p].ref) \in Rows
    BY <1>1, <2>1, OpTypes, RowTypes
  <2> QED
    BY <1>1, <1>14, <2>2 DEF ZeroLot, Goto, PCs
<1>15. CASE Victim(p) \/ Crash(p)
  BY <1>1, <1>2, <1>15 DEF Victim, Crash, Abort, PCs
<1>16. CASE \E h \in Refs : Release(p, h) \/ SweepHold(p, h)
  BY <1>1, <1>16 DEF Release, SweepHold, task
<1>17. CASE ExpireLot(p) \/ ExpireNothing(p) \/ ExpireAgain(p)
  <2>1. NextLot(p)
    BY <1>17 DEF ExpireLot, ExpireNothing, ExpireAgain
  <2> QED
    BY <1>1, <1>2, <2>1, EndTypes
<1> QED
  BY <1>3, <1>4, <1>5, <1>6, <1>7, <1>8, <1>9, <1>10, <1>11, <1>12, <1>13, <1>14, <1>15, <1>16, <1>17
  DEF Quiet, Commits

-----------------------------------------------------------------------------
(* What each commit writes.                                                 *)

\* A row that a task has locked, or finds free, is locked by nobody else.
LEMMA RowAlone ==
    ASSUME Exclusive, NEW p \in Tasks, NEW row, row \in lock[p] \/ Free(p, {row})
    PROVE  \A q \in Tasks \ {p} : row \notin lock[q]
BY DEF Exclusive, Free

\* SQLite's write lock admits one transaction.
LEMMA SerialAlone ==
    ASSUME Exclusive, \A p \in Tasks : LocksOK(p), engine = "sqlite",
           NEW p \in Tasks, InTransaction(p) \/ Free(p, BeginRows)
    PROVE  \A q \in Tasks \ {p} : ~ InTransaction(q)
<1>1. <<"db", Null>> \in lock[p] \/ Free(p, {<<"db", Null>>})
  BY DEF LocksOK, BeginRows
<1>2. \A q \in Tasks \ {p} : <<"db", Null>> \notin lock[q]
  BY <1>1, RowAlone
<1> QED
  BY <1>2 DEF LocksOK

\* What other tasks can rely on when p commits: what they have locked, the lots
\* there are, and on SQLite that none of them is in a transaction.
Orderly(p) ==
    /\ TypeBook' /\ engine' = engine
    /\ \A q \in Tasks \ {p}, o \in Owners : AccountRow(o) \in lock[q] => balance'[o] = balance[o] /\ held'[o] = held[o]
    /\ \A q \in Tasks \ {p}, h \in Refs : HoldRow(h) \in lock[q] /\ holds[h] # Null => holds'[h] = holds[h]
    /\ \A l \in Refs : lots[l] # Null => lots'[l] # Null /\ lots'[l].owner = lots[l].owner
    /\ engine = "sqlite" => \A q \in Tasks \ {p} : ~ InTransaction(q)

\* The value moves from a to b; `k' is the reference of the transfer.
Shifts(a, b, n) ==
    /\ balance'[a] = balance[a] - n /\ balance'[b] = balance[b] + n
    /\ \A c \in Accounts : c # a /\ c # b => balance'[c] = balance[c]

Records(k, a, b, n) ==
    /\ transfers[k] = Null /\ transfers'[k] # Null
    /\ transfers'[k].from = a /\ transfers'[k].to = b /\ transfers'[k].amount = n
    /\ \A j \in Keys : j # k => transfers'[j] = transfers[j]

LEMMA Payment ==
    ASSUME TypeBook, NEW k \in Keys, NEW a \in Accounts, NEW b \in Accounts, NEW n \in Nat, a # b,
           move(a, b, n), ~ Taken(k), record(k, a, b, n)
    PROVE  /\ balance' \in [Accounts -> Int] /\ transfers' \in [Keys -> Transfer \cup {Null}]
           /\ Shifts(a, b, n) /\ Records(k, a, b, n)
<1>1. balance' \in [Accounts -> Int] /\ Shifts(a, b, n)
  BY MoveTypes DEF Shifts
<1>2. transfers' \in [Keys -> Transfer \cup {Null}] /\ Records(k, a, b, n)
  BY RecordTypes DEF Records, Taken
<1> QED
  BY <1>1, <1>2

\* The invariant without the properties it is for.
Base == TypeOK /\ Exclusive /\ (\A p \in Tasks : TaskOK(p)) /\ LotsRecorded

LEMMA CommitFacts ==
    ASSUME Base, NEW p \in Tasks, pc[p] \in {"commit", "expire"}
    PROVE  /\ TypeBook /\ TypeTask /\ ShapeOK(p) /\ LocksOK(p) /\ FundsOK(p) /\ ClaimOK(p)
           /\ LotsOK(p) /\ SerialOK(p) /\ pc[p] \notin Resting /\ InTransaction(p)
           /\ op[p] \in Operation /\ op[p].owner \in Owners /\ op[p].owner \in Accounts
           /\ op[p].amount \in Nat /\ op[p].ref \in Refs /\ op[p].ttl \in Nat \cup {Null}
           /\ engine = "sqlite" => \A q \in Tasks \ {p} : ~ InTransaction(q)
<1>1. TypeOK /\ TaskOK(p) /\ Exclusive /\ \A q \in Tasks : LocksOK(q)
  BY DEF Base, TaskOK
<1>2. pc[p] \notin Resting /\ InTransaction(p)
  BY DEF Resting, InTransaction
<1>3. ShapeOK(p)
  BY <1>1 DEF TaskOK
<1>4. engine = "sqlite" => \A q \in Tasks \ {p} : ~ InTransaction(q)
  BY <1>1, <1>2, SerialAlone
<1> QED
  BY <1>1, <1>2, <1>3, <1>4, OpTypes, TypeParts DEF TaskOK

LEMMA TopUpDoes ==
    ASSUME Base, NEW p \in Tasks, CommitTopUp(p)
    PROVE  /\ Orderly(p) /\ held' = held /\ holds' = holds
           /\ \E r \in Operation : \E new \in Lot :
                /\ r = op[p] /\ r.ref \in Refs /\ r.owner \in Owners /\ r.amount \in Nat
                /\ Shifts(Topup, r.owner, r.amount) /\ Records(<<"call", r.ref>>, Topup, r.owner, r.amount)
                /\ lots[r.ref] = Null /\ new # Null /\ new.owner = r.owner /\ new.remaining = r.amount
                /\ lots' = [lots EXCEPT ![r.ref] = new]
<1>1. pc[p] = "commit"
  BY DEF CommitTopUp
<1>2. PICK r \in Operation : r = op[p] /\ r.owner \in Owners /\ r.owner \in Accounts /\ r.amount \in Nat
                             /\ r.ref \in Refs /\ r.ttl \in Nat \cup {Null}
  BY <1>1, CommitFacts
<1>3. TypeBook /\ TypeTask /\ Exclusive
  BY <1>1, CommitFacts DEF Base
<1>4. /\ Free(p, {AccountRow(r.owner)}) /\ ~ Taken(<<"call", r.ref>>)
      /\ move(Topup, r.owner, r.amount) /\ record(<<"call", r.ref>>, Topup, r.owner, r.amount)
      /\ held' = held /\ holds' = holds /\ opened' = opened /\ engine' = engine
      /\ lots' = [lots EXCEPT ![r.ref] =
                    [owner |-> r.owner, remaining |-> r.amount, expiresAt |-> expires(r)]]
  BY <1>2 DEF CommitTopUp, Return
<1>5. PICK new \in Lot : new = [owner |-> r.owner, remaining |-> r.amount, expiresAt |-> expires(r)]
  <2>1. expires(r) \in Nat \cup {Null}
    BY <1>2, <1>3, LedgerConstants DEF expires, TypeTask
  <2> QED
    BY <1>2, <2>1 DEF Lot
<1>6. new # Null /\ new.owner = r.owner /\ new.remaining = r.amount /\ lots' = [lots EXCEPT ![r.ref] = new]
  BY <1>4, <1>5, LedgerConstants
<1>7. <<"call", r.ref>> \in Keys /\ Topup \in Accounts /\ Topup # r.owner
  BY <1>2, Distinct
<1>8. /\ balance' \in [Accounts -> Int] /\ transfers' \in [Keys -> Transfer \cup {Null}]
      /\ Shifts(Topup, r.owner, r.amount) /\ Records(<<"call", r.ref>>, Topup, r.owner, r.amount)
  BY <1>2, <1>3, <1>4, <1>7, Payment
<1>9. lots[r.ref] = Null
  BY <1>2, <1>4 DEF Base, LotsRecorded, Exists
<1>10. TypeBook'
  BY <1>2, <1>3, <1>4, <1>6, <1>8 DEF TypeBook, Book
<1>11. Orderly(p)
  <2>1. \A q \in Tasks \ {p} : AccountRow(r.owner) \notin lock[q]
    BY <1>3, <1>4, RowAlone
  <2>2. \A o \in Owners : o # r.owner => balance'[o] = balance[o]
    BY <1>8, Distinct DEF Shifts, Accounts
  <2>3. \A q \in Tasks \ {p}, o \in Owners : AccountRow(o) \in lock[q] => balance'[o] = balance[o] /\ held'[o] = held[o]
    BY <1>4, <2>1, <2>2
  <2>4. \A l \in Refs : lots[l] # Null => lots'[l] # Null /\ lots'[l].owner = lots[l].owner
    BY <1>2, <1>3, <1>6, <1>9 DEF TypeBook, Book
  <2> QED
    BY <1>1, <1>4, <1>10, <2>3, <2>4, CommitFacts DEF Orderly
<1> QED
  BY <1>2, <1>4, <1>6, <1>8, <1>9, <1>11

\* Lots that only shrink.
Shrinks ==
    /\ lots' \in Book
    /\ \A l \in Refs : /\ lots'[l] = Null <=> lots[l] = Null
                       /\ lots[l] # Null => /\ lots'[l].owner = lots[l].owner
                                            /\ lots'[l].remaining <= lots[l].remaining

LEMMA DrawShrinks ==
    ASSUME Base, NEW p \in Tasks, pc[p] = "commit",
           lots' = draw_lots(view[p].lots, op[p].owner, op[p].amount)
    PROVE  Shrinks
<1>1. TypeBook /\ TypeTask /\ LotsOK(p) /\ op[p].amount \in Nat
  BY CommitFacts
<1>2. PICK seen \in Book : seen = view[p].lots
  BY <1>1 DEF TypeTask, View
<1>3. \A l \in Refs : seen[l] # Null => lots[l] # Null
  BY <1>1, <1>2 DEF LotsOK, Exists
<1> QED
  BY <1>1, <1>2, <1>3, DrawKeeps DEF Shrinks, TypeBook

\* What a commit that takes r.amount from the owner's account into `to' writes.
Spends(p, r, k, to) ==
    /\ Shifts(r.owner, to, r.amount) /\ Records(k, r.owner, to, r.amount)
    /\ Shrinks

LEMMA ConsumeDoes ==
    ASSUME Base, NEW p \in Tasks, CommitConsume(p)
    PROVE  /\ Orderly(p) /\ held' = held /\ holds' = holds
           /\ Spends(p, op[p], <<"call", op[p].ref>>, Consumed)
           /\ lots' = draw_lots(view[p].lots, op[p].owner, op[p].amount)
<1>1. pc[p] = "commit" /\ op[p].kind = "Consume"
  BY DEF CommitConsume
<1>2. PICK r \in Operation : r = op[p] /\ r.owner \in Owners /\ r.owner \in Accounts /\ r.amount \in Nat
                             /\ r.ref \in Refs
  BY <1>1, CommitFacts
<1>3. TypeBook /\ Exclusive /\ AccountRow(r.owner) \in lock[p]
  BY <1>1, <1>2, CommitFacts DEF Base, LocksOK
<1>4. /\ ~ Taken(<<"call", r.ref>>)
      /\ move(r.owner, Consumed, r.amount) /\ record(<<"call", r.ref>>, r.owner, Consumed, r.amount)
      /\ held' = held /\ holds' = holds /\ opened' = opened /\ engine' = engine
      /\ lots' = draw_lots(view[p].lots, op[p].owner, op[p].amount)
  BY <1>2 DEF CommitConsume, Return
<1>5. <<"call", r.ref>> \in Keys /\ Consumed \in Accounts /\ Consumed # r.owner
  BY <1>2, Distinct
<1>6. /\ balance' \in [Accounts -> Int] /\ transfers' \in [Keys -> Transfer \cup {Null}]
      /\ Shifts(r.owner, Consumed, r.amount) /\ Records(<<"call", r.ref>>, r.owner, Consumed, r.amount)
  BY <1>2, <1>3, <1>4, <1>5, Payment
<1>7. Shrinks
  BY <1>1, <1>4, DrawShrinks
<1>8. Orderly(p)
  <2>1. \A q \in Tasks \ {p} : AccountRow(r.owner) \notin lock[q]
    BY <1>3, RowAlone
  <2>2. \A o \in Owners : o # r.owner => balance'[o] = balance[o]
    BY <1>6, Distinct DEF Shifts, Accounts
  <2>3. TypeBook'
    BY <1>3, <1>4, <1>6, <1>7 DEF TypeBook, Shrinks
  <2> QED
    BY <1>1, <1>4, <1>7, <2>1, <2>2, <2>3, CommitFacts DEF Orderly, Shrinks
<1> QED
  BY <1>2, <1>4, <1>6, <1>7, <1>8 DEF Spends

\* A hold's row with another status.
LEMMA Turns ==
    ASSUME NEW row \in Hold, NEW s \in {"held", "captured", "released"}
    PROVE  /\ [row EXCEPT !.status = s] \in Hold /\ [row EXCEPT !.status = s] # Null
           /\ [row EXCEPT !.status = s].owner = row.owner /\ [row EXCEPT !.status = s].amount = row.amount
           /\ [row EXCEPT !.status = s].status = s
           /\ row.owner \in Owners /\ row.amount \in Nat
<1>1. [row EXCEPT !.status = s] \in Hold
  BY DEF Hold
<1> QED
  BY <1>1, LedgerConstants DEF Hold

\* The reservation of h is given back, its status turned to s.
Frees(h, s) ==
    /\ IsHeld(h) /\ holds[h].owner \in Owners /\ holds[h].amount \in Nat
    /\ held' \in [Owners -> Int] /\ held'[holds[h].owner] = held[holds[h].owner] - holds[h].amount
    /\ \A o \in Owners : o # holds[h].owner => held'[o] = held[o]
    /\ holds' \in [Refs -> Hold \cup {Null}] /\ holds'[h] # Null
    /\ holds'[h].status = s /\ holds'[h].owner = holds[h].owner /\ holds'[h].amount = holds[h].amount
    /\ \A g \in Refs : g # h => holds'[g] = holds[g]

LEMMA FreesIt ==
    ASSUME TypeBook, NEW h \in Refs, IsHeld(h), NEW s \in {"captured", "released"},
           holds' = [holds EXCEPT ![h] = [holds[h] EXCEPT !.status = s]],
           held' = [held EXCEPT ![holds[h].owner] = @ - holds[h].amount]
    PROVE  Frees(h, s)
<1>1. PICK row \in Hold : row = holds[h]
  BY DEF IsHeld, TypeBook
<1>2. PICK new : new = [row EXCEPT !.status = s]
  OBVIOUS
<1>3. /\ new \in Hold /\ new # Null /\ new.owner = row.owner /\ new.amount = row.amount /\ new.status = s
      /\ row.owner \in Owners /\ row.amount \in Nat
  <2>1. s \in {"held", "captured", "released"}
    OBVIOUS
  <2> QED
    BY <1>2, <2>1, Turns
<1>4. holds' = [holds EXCEPT ![h] = new] /\ held' = [held EXCEPT ![row.owner] = held[row.owner] - row.amount]
  BY <1>1, <1>2
<1>5. holds' \in [Refs -> Hold \cup {Null}] /\ holds'[h] = new /\ \A g \in Refs : g # h => holds'[g] = holds[g]
  BY <1>3, <1>4 DEF TypeBook
<1>6. /\ held' \in [Owners -> Int] /\ held'[row.owner] = held[row.owner] - row.amount
      /\ \A o \in Owners : o # row.owner => held'[o] = held[o]
  <2>1. PICK o \in Owners : o = row.owner
    BY <1>3
  <2>2. held \in [Owners -> Int] /\ held[o] - row.amount \in Int
    BY <1>3 DEF TypeBook
  <2>3. held' = [held EXCEPT ![o] = held[o] - row.amount]
    BY <1>4, <2>1
  <2> QED
    BY <2>1, <2>2, <2>3
<1> QED
  BY <1>1, <1>3, <1>5, <1>6 DEF Frees

LEMMA CaptureDoes ==
    ASSUME Base, NEW p \in Tasks, CommitCapture(p)
    PROVE  /\ Orderly(p) /\ Frees(op[p].ref, "captured")
           /\ holds[op[p].ref].owner = op[p].owner /\ holds[op[p].ref].amount = op[p].amount
           /\ Spends(p, op[p], <<"capture", op[p].ref>>, Consumed)
           /\ lots' = draw_lots(view[p].lots, op[p].owner, op[p].amount)
<1>1. pc[p] = "commit" /\ op[p].kind = "Capture"
  BY DEF CommitCapture
<1>2. PICK r \in Operation : r = op[p] /\ r.owner \in Owners /\ r.owner \in Accounts /\ r.amount \in Nat
                             /\ r.ref \in Refs
  BY <1>1, CommitFacts
<1>3. /\ TypeBook /\ Exclusive /\ AccountRow(r.owner) \in lock[p] /\ HoldRow(r.ref) \in lock[p]
      /\ IsHeld(r.ref) /\ holds[r.ref].owner = r.owner /\ holds[r.ref].amount = r.amount
  BY <1>1, <1>2, CommitFacts DEF Base, LocksOK, ClaimOK
<1>4. /\ ~ Taken(<<"capture", r.ref>>)
      /\ move(r.owner, Consumed, r.amount) /\ record(<<"capture", r.ref>>, r.owner, Consumed, r.amount)
      /\ held' = [held EXCEPT ![r.owner] = @ - r.amount]
      /\ holds' = [holds EXCEPT ![r.ref] = [holds[r.ref] EXCEPT !.status = "captured"]]
      /\ opened' = opened /\ engine' = engine
      /\ lots' = draw_lots(view[p].lots, op[p].owner, op[p].amount)
  BY <1>2 DEF CommitCapture, Return
<1>5. <<"capture", r.ref>> \in Keys /\ Consumed \in Accounts /\ Consumed # r.owner
  BY <1>2, Distinct
<1>6. /\ balance' \in [Accounts -> Int] /\ transfers' \in [Keys -> Transfer \cup {Null}]
      /\ Shifts(r.owner, Consumed, r.amount) /\ Records(<<"capture", r.ref>>, r.owner, Consumed, r.amount)
  BY <1>2, <1>3, <1>4, <1>5, Payment
<1>7. Shrinks
  BY <1>1, <1>4, DrawShrinks
<1>8. Frees(r.ref, "captured")
  <2>1. held' = [held EXCEPT ![holds[r.ref].owner] = @ - holds[r.ref].amount]
    BY <1>3, <1>4
  <2> QED
    BY <1>2, <1>3, <1>4, <2>1, FreesIt
<1>9. Orderly(p)
  <2>1. \A q \in Tasks \ {p} : AccountRow(r.owner) \notin lock[q] /\ HoldRow(r.ref) \notin lock[q]
    BY <1>3, RowAlone
  <2>2. \A o \in Owners : o # r.owner => balance'[o] = balance[o] /\ held'[o] = held[o]
    BY <1>3, <1>6, <1>8, Distinct DEF Shifts, Accounts, Frees
  <2>3. TypeBook'
    BY <1>3, <1>4, <1>6, <1>7, <1>8 DEF TypeBook, Shrinks, Frees
  <2>4. \A q \in Tasks \ {p}, h \in Refs : HoldRow(h) \in lock[q] /\ holds[h] # Null => holds'[h] = holds[h]
    BY <1>8, <2>1 DEF Frees
  <2> QED
    BY <1>1, <1>4, <1>7, <2>1, <2>2, <2>3, <2>4, CommitFacts DEF Orderly, Shrinks
<1> QED
  BY <1>2, <1>3, <1>4, <1>6, <1>7, <1>8, <1>9 DEF Spends

LEMMA HoldDoes ==
    ASSUME Base, NEW p \in Tasks, CommitHold(p)
    PROVE  /\ Orderly(p) /\ UNCHANGED <<balance, transfers, lots>>
           /\ \E r \in Operation : \E new \in Hold :
                /\ r = op[p] /\ r.kind = "Hold" /\ r.ref \in Refs /\ r.owner \in Owners /\ r.amount \in Nat
                /\ holds[r.ref] = Null /\ new # Null /\ new.status = "held"
                /\ new.owner = r.owner /\ new.amount = r.amount
                /\ holds' = [holds EXCEPT ![r.ref] = new]
                /\ held' = [held EXCEPT ![r.owner] = held[r.owner] + r.amount]
<1>1. pc[p] = "commit" /\ op[p].kind = "Hold"
  BY DEF CommitHold
<1>2. PICK r \in Operation : /\ r = op[p] /\ r.owner \in Owners /\ r.amount \in Nat
                             /\ r.ref \in Refs /\ r.ttl \in Nat \cup {Null}
  BY <1>1, CommitFacts
<1>3. TypeBook /\ TypeTask /\ Exclusive /\ AccountRow(r.owner) \in lock[p] /\ r.amount # 0 /\ r.ttl # Null
  <2>1. r \in Requests
    BY <1>1, <1>2, CommitFacts DEF ShapeOK
  <2>2. r.amount # 0 /\ r.ttl # Null
    BY <1>1, <1>2, <2>1, LedgerConstants DEF Request
  <2> QED
    BY <1>1, <1>2, <2>2, CommitFacts DEF Base, LocksOK
<1>4. /\ holds[r.ref] = Null /\ held' = [held EXCEPT ![r.owner] = held[r.owner] + r.amount]
      /\ holds' = [holds EXCEPT ![r.ref] = [owner |-> r.owner, amount |-> r.amount,
                                            status |-> "held", expiresAt |-> expires(r)]]
      /\ UNCHANGED <<opened, balance, transfers, lots, engine>>
  BY <1>2 DEF CommitHold, Return
<1>5. PICK new \in Hold : new = [owner |-> r.owner, amount |-> r.amount,
                                 status |-> "held", expiresAt |-> expires(r)]
  <2>1. expires(r) \in Nat
    BY <1>2, <1>3 DEF expires, TypeTask
  <2> QED
    BY <1>2, <1>3, <2>1 DEF Hold
<1>6. /\ new # Null /\ new.status = "held" /\ new.owner = r.owner /\ new.amount = r.amount
      /\ holds' = [holds EXCEPT ![r.ref] = new]
  BY <1>4, <1>5, LedgerConstants
<1>7. Orderly(p)
  <2>1. \A q \in Tasks \ {p} : AccountRow(r.owner) \notin lock[q]
    BY <1>3, RowAlone
  <2>2. \A o \in Owners : o # r.owner => held'[o] = held[o]
    BY <1>3, <1>4 DEF TypeBook
  <2>3. TypeBook'
    BY <1>2, <1>3, <1>4, <1>6 DEF TypeBook
  <2>4. \A q \in Tasks \ {p}, h \in Refs : HoldRow(h) \in lock[q] /\ holds[h] # Null => holds'[h] = holds[h]
    BY <1>3, <1>4, <1>6 DEF TypeBook
  <2> QED
    BY <1>1, <1>4, <2>1, <2>2, <2>3, <2>4, CommitFacts DEF Orderly
<1> QED
  BY <1>1, <1>2, <1>4, <1>6, <1>7

LEMMA ReleaseDoes ==
    ASSUME Base, NEW p \in Tasks, NEW h \in Refs, release_in(p, h),
           UNCHANGED <<opened, balance, transfers, lots, engine>>
    PROVE  Orderly(p) /\ Frees(h, "released")
<1>1. TypeBook /\ Exclusive /\ \A q \in Tasks : LocksOK(q)
  BY TypeParts DEF Base, TaskOK
<1>2. /\ Free(p, {HoldRow(h)}) /\ Free(p, {AccountRow(holds[h].owner)}) /\ Free(p, BeginRows) /\ IsHeld(h)
      /\ holds' = [holds EXCEPT ![h] = [holds[h] EXCEPT !.status = "released"]]
      /\ held' = [held EXCEPT ![holds[h].owner] = @ - holds[h].amount]
  BY DEF release_in, Free
<1>3. Frees(h, "released")
  BY <1>1, <1>2, FreesIt
<1>4. \A q \in Tasks \ {p} : AccountRow(holds[h].owner) \notin lock[q] /\ HoldRow(h) \notin lock[q]
  BY <1>1, <1>2, RowAlone
<1>5. TypeBook'
  BY <1>1, <1>3 DEF TypeBook, Frees
<1>6. engine = "sqlite" => \A q \in Tasks \ {p} : ~ InTransaction(q)
  BY <1>1, <1>2, SerialAlone
<1> QED
  BY <1>3, <1>4, <1>5, <1>6 DEF Orderly, Frees

\* The lot of an expiry is emptied.
Empties(l) ==
    /\ lots' \in Book /\ lots[l] # Null /\ lots'[l] # Null
    /\ lots'[l].remaining = 0 /\ lots'[l].owner = lots[l].owner
    /\ \A m \in Refs : m # l => lots'[m] = lots[m]

LEMMA EmptiesIt ==
    ASSUME Base, NEW p \in Tasks, pc[p] = "expire", Zeroed(op[p].ref)
    PROVE  Empties(op[p].ref) /\ Shrinks /\ lots[op[p].ref].owner = op[p].owner
<1>1. TypeBook /\ LotsOK(p) /\ op[p].ref \in Refs
  BY CommitFacts
<1>2. PICK l \in Refs : l = op[p].ref
  BY <1>1
<1>3. PICK row \in Lot : row = lots[l] /\ row.owner = op[p].owner
  BY <1>1, <1>2 DEF TypeBook, Book, LotsOK, Exists
<1>4. PICK new : new = Leaving(row, 0)
  OBVIOUS
<1>5. new \in Lot /\ new.owner = row.owner /\ new.remaining = 0 /\ new # Null /\ row # Null /\ row.remaining \in Nat
  BY <1>3, <1>4, LedgerConstants DEF Leaving, Lot
<1>6. lots' = [lots EXCEPT ![l] = new]
  BY <1>2, <1>3, <1>4 DEF Zeroed
<1>7. lots' \in Book /\ lots'[l] = new /\ \A m \in Refs : m # l => lots'[m] = lots[m]
  BY <1>1, <1>5, <1>6 DEF TypeBook, Book
<1>8. \A m \in Refs : lots[m] # Null => lots[m].remaining \in Nat
  BY <1>1 DEF TypeBook, Book, Lot
<1> QED
  BY <1>2, <1>3, <1>5, <1>7, <1>8 DEF Empties, Shrinks

LEMMA ExpireFacts ==
    ASSUME Base, NEW p \in Tasks, pc[p] = "expire", Zeroed(op[p].ref),
           UNCHANGED <<opened, held, holds, engine>>, transfers' \in [Keys -> Transfer \cup {Null}],
           \/ balance' = balance
           \/ Free(p, {AccountRow(op[p].owner)}) /\ move(op[p].owner, Expiry, op[p].amount)
    PROVE  Orderly(p) /\ Empties(op[p].ref) /\ Shrinks
<1>1. /\ TypeBook /\ op[p].ref \in Refs /\ op[p].owner \in Owners /\ op[p].owner \in Accounts
      /\ op[p].amount \in Nat /\ Exclusive
  BY CommitFacts DEF Base
<1>2. Empties(op[p].ref) /\ Shrinks
  BY EmptiesIt
<1>3. balance' \in [Accounts -> Int]
  BY <1>1, Distinct, MoveTypes DEF TypeBook
<1>4. \A q \in Tasks \ {p}, o \in Owners : AccountRow(o) \in lock[q] => balance'[o] = balance[o]
  <2>1. CASE balance' = balance
    BY <2>1
  <2>2. CASE Free(p, {AccountRow(op[p].owner)}) /\ move(op[p].owner, Expiry, op[p].amount)
    <3>1. \A q \in Tasks \ {p} : AccountRow(op[p].owner) \notin lock[q]
      BY <1>1, <2>2, RowAlone
    <3>2. \A o \in Owners : o # op[p].owner => balance'[o] = balance[o]
      <4>1. \A c \in Accounts : c # op[p].owner /\ c # Expiry => balance'[c] = balance[c]
        BY <1>1, <2>2, Distinct, MoveTypes
      <4> QED
        BY <4>1, Distinct DEF Accounts
    <3> QED
      BY <3>1, <3>2
  <2> QED
    BY <2>1, <2>2
<1>5. TypeBook'
  BY <1>1, <1>2, <1>3 DEF TypeBook, Empties
<1> QED
  BY <1>2, <1>4, <1>5, CommitFacts DEF Orderly, Shrinks

LEMMA ExpireDoes ==
    ASSUME Base, NEW p \in Tasks, ExpireLot(p)
    PROVE  /\ Orderly(p) /\ held' = held /\ holds' = holds /\ Empties(op[p].ref)
           /\ available(op[p].owner) >= op[p].amount
           /\ Spends(p, op[p], <<"expire", op[p].ref>>, Expiry)
<1>1. pc[p] = "expire"
  BY DEF ExpireLot
<1>2. PICK r \in Operation : r = op[p] /\ r.owner \in Owners /\ r.owner \in Accounts /\ r.amount \in Nat
                             /\ r.ref \in Refs
  BY <1>1, CommitFacts
<1>3. TypeBook
  BY <1>1, CommitFacts
<1>4. /\ ~ Taken(<<"expire", r.ref>>) /\ available(r.owner) >= r.amount /\ Free(p, {AccountRow(r.owner)})
      /\ move(r.owner, Expiry, r.amount) /\ record(<<"expire", r.ref>>, r.owner, Expiry, r.amount)
      /\ Zeroed(r.ref) /\ UNCHANGED <<opened, held, holds, engine>>
  BY <1>2 DEF ExpireLot, NextLot
<1>5. <<"expire", r.ref>> \in Keys /\ Expiry \in Accounts /\ Expiry # r.owner
  BY <1>2, Distinct
<1>6. /\ balance' \in [Accounts -> Int] /\ transfers' \in [Keys -> Transfer \cup {Null}]
      /\ Shifts(r.owner, Expiry, r.amount) /\ Records(<<"expire", r.ref>>, r.owner, Expiry, r.amount)
  BY <1>2, <1>3, <1>4, <1>5, Payment
<1>7. Orderly(p) /\ Empties(op[p].ref) /\ Shrinks
  BY <1>1, <1>2, <1>4, <1>6, ExpireFacts
<1> QED
  BY <1>2, <1>4, <1>6, <1>7 DEF Spends

LEMMA ExpireNothingDoes ==
    ASSUME Base, NEW p \in Tasks, ExpireNothing(p)
    PROVE  /\ Orderly(p) /\ Empties(op[p].ref) /\ Shrinks
           /\ UNCHANGED <<balance, held, transfers, holds>>
<1>1. /\ pc[p] = "expire" /\ Zeroed(op[p].ref)
      /\ UNCHANGED <<opened, balance, held, transfers, holds, engine>>
  BY DEF ExpireNothing, NextLot
<1>2. transfers' \in [Keys -> Transfer \cup {Null}]
  BY <1>1, CommitFacts DEF TypeBook
<1> QED
  BY <1>1, <1>2, ExpireFacts

\* The second record of an expiry: nothing on PostgreSQL, on SQLite it does not
\* happen, and on MySQL the credits move without an entry.
LEMMA ExpireAgainDoes ==
    ASSUME Base, NEW p \in Tasks, ExpireAgain(p)
    PROVE  /\ Orderly(p) /\ UNCHANGED <<held, transfers, holds>> /\ engine # "sqlite"
           /\ available(op[p].owner) >= op[p].amount
           /\ \/ UNCHANGED <<lots, balance>>
              \/ /\ engine # "postgres" /\ Shifts(op[p].owner, Expiry, op[p].amount)
                 /\ Empties(op[p].ref) /\ Shrinks
<1>1. /\ pc[p] = "expire" /\ Free(p, {AccountRow(op[p].owner)}) /\ Taken(<<"expire", op[p].ref>>)
      /\ available(op[p].owner) >= op[p].amount
      /\ UNCHANGED <<opened, held, transfers, holds, engine>>
  BY DEF ExpireAgain, NextLot
<1>2. /\ TypeBook /\ op[p].owner \in Owners /\ op[p].owner \in Accounts /\ op[p].amount \in Nat
      /\ op[p].ref \in Refs /\ SerialOK(p)
  BY <1>1, CommitFacts
<1>3. engine # "sqlite"
  BY <1>1, <1>2 DEF Base, LotsRecorded, SerialOK
<1>4. CASE engine = "postgres"
  <2>1. UNCHANGED <<lots, balance>>
    BY <1>4 DEF ExpireAgain
  <2>2. TypeBook'
    BY <1>1, <1>2, <2>1 DEF TypeBook
  <2>3. Orderly(p)
    BY <1>1, <1>3, <2>1, <2>2 DEF Orderly
  <2> QED
    BY <1>1, <1>3, <2>1, <2>3
<1>5. CASE engine # "postgres"
  <2>1. Zeroed(op[p].ref) /\ move(op[p].owner, Expiry, op[p].amount)
    BY <1>5 DEF ExpireAgain
  <2>2. transfers' \in [Keys -> Transfer \cup {Null}]
    BY <1>1, <1>2 DEF TypeBook
  <2>3. Orderly(p) /\ Empties(op[p].ref) /\ Shrinks
    BY <1>1, <2>1, <2>2, ExpireFacts
  <2>4. Shifts(op[p].owner, Expiry, op[p].amount)
    BY <1>2, <2>1, Distinct, MoveTypes DEF Shifts
  <2> QED
    BY <1>1, <1>3, <1>5, <2>3, <2>4
<1> QED
  BY <1>4, <1>5

-----------------------------------------------------------------------------
(* Every task keeps what it relies on.                                      *)

\* A task that does not move, while the book does not either.
LEMMA StillOK ==
    ASSUME NEW q, TaskOK(q), UNCHANGED <<balance, held, lots, holds, engine>>,
           pc'[q] = pc[q], op'[q] = op[q], view'[q] = view[q], lock'[q] = lock[q], todo'[q] = todo[q]
    PROVE  TaskOK(q)'
<1>1. ShapeOK(q)'
  BY DEF TaskOK, ShapeOK
<1>2. LocksOK(q)'
  BY DEF TaskOK, LocksOK, InTransaction, AccountRow, HoldRow
<1>3. FundsOK(q)'
  BY DEF TaskOK, FundsOK, available
<1>4. ClaimOK(q)'
  BY DEF TaskOK, ClaimOK, IsHeld
<1>5. LotsOK(q)'
  BY DEF TaskOK, LotsOK, Exists
<1>6. SerialOK(q)'
  BY DEF TaskOK, SerialOK
<1> QED
  BY <1>1, <1>2, <1>3, <1>4, <1>5, <1>6 DEF TaskOK

\* A task that does not move, while another one commits: its locks keep the
\* funds it checked and the hold it claimed.
LEMMA ElsewhereOK ==
    ASSUME Base, NEW p \in Tasks, NEW q \in Tasks \ {p}, Orderly(p), Apart(p)
    PROVE  TaskOK(q)'
<1>1. pc'[q] = pc[q] /\ op'[q] = op[q] /\ view'[q] = view[q] /\ lock'[q] = lock[q] /\ todo'[q] = todo[q]
  BY DEF Apart
<1>2. TaskOK(q) /\ TypeOK /\ engine' = engine
  BY DEF Base, Orderly
<1>3. ShapeOK(q)'
  BY <1>1, <1>2 DEF TaskOK, ShapeOK
<1>4. LocksOK(q)'
  BY <1>1, <1>2 DEF TaskOK, LocksOK, InTransaction, AccountRow, HoldRow
<1>5. FundsOK(q)'
  <2> SUFFICES ASSUME pc[q] \in {"draw", "commit"}, op[q].kind \in {"Consume", "Hold"}
               PROVE  available(op[q].owner)' >= op[q].amount
    BY <1>1 DEF FundsOK, available
  <2>1. AccountRow(op[q].owner) \in lock[q] /\ available(op[q].owner) >= op[q].amount
    BY <1>2 DEF TaskOK, LocksOK, FundsOK
  <2>2. PICK o \in Owners : o = op[q].owner
    BY <1>2, OpTypes DEF TaskOK, Resting
  <2>3. balance'[o] = balance[o] /\ held'[o] = held[o]
    BY <2>1, <2>2 DEF Orderly
  <2> QED
    BY <1>1, <2>1, <2>2, <2>3 DEF available
<1>6. ClaimOK(q)'
  <2> SUFFICES ASSUME pc[q] \in {"charge", "draw", "commit"}, op[q].kind = "Capture"
               PROVE  /\ IsHeld(op[q].ref)'
                      /\ holds'[op[q].ref].owner = op[q].owner /\ holds'[op[q].ref].amount = op[q].amount
    BY <1>1 DEF ClaimOK, IsHeld
  <2>1. /\ HoldRow(op[q].ref) \in lock[q] /\ IsHeld(op[q].ref)
        /\ holds[op[q].ref].owner = op[q].owner /\ holds[op[q].ref].amount = op[q].amount
    BY <1>2 DEF TaskOK, LocksOK, ClaimOK
  <2>2. PICK h \in Refs : h = op[q].ref
    BY <1>2, OpTypes DEF TaskOK, Resting
  <2>3. holds'[h] = holds[h]
    BY <2>1, <2>2 DEF Orderly, IsHeld
  <2> QED
    BY <1>1, <2>1, <2>2, <2>3 DEF IsHeld
<1>7. LotsOK(q)'
  <2>1. LotsOK(q) /\ \A l \in Refs : lots[l] # Null => lots'[l] # Null /\ lots'[l].owner = lots[l].owner
    BY <1>2 DEF TaskOK, Orderly
  <2>2. \A l \in Refs : view'[q].lots[l] # Null => Exists(l)' /\ lots'[l].owner = view'[q].lots[l].owner
    BY <1>1, <2>1 DEF LotsOK, Exists
  <2>3. pc'[q] \in {"sweepLots", "readAccount", "zero", "expire"} => \A l \in todo'[q] : Exists(l)'
    BY <1>1, <1>2, <2>1 DEF LotsOK, Exists, TypeOK
  <2>4. pc'[q] \in {"readAccount", "zero", "expire"} =>
           Exists(op[q].ref)' /\ lots'[op'[q].ref].owner = op'[q].owner
    <3> SUFFICES ASSUME pc[q] \in {"readAccount", "zero", "expire"}
                 PROVE  Exists(op[q].ref)' /\ lots'[op'[q].ref].owner = op'[q].owner
      BY <1>1
    <3>1. op[q].ref \in Refs
      BY <1>2, OpTypes DEF TaskOK, Resting
    <3> QED
      BY <1>1, <2>1, <3>1 DEF LotsOK, Exists
  <2> QED
    BY <2>2, <2>3, <2>4 DEF LotsOK
<1>8. SerialOK(q)'
  <2>1. engine = "sqlite" => ~ InTransaction(q)
    BY DEF Orderly
  <2> QED
    BY <1>1, <1>2, <2>1 DEF SerialOK, InTransaction
<1> QED
  BY <1>3, <1>4, <1>5, <1>6, <1>7, <1>8 DEF TaskOK

\* A task whose call or transaction is over.
LEMMA RestingOK ==
    ASSUME NEW p, pc'[p] \in Resting, op'[p] = Null, lock'[p] = {},
           \A l \in Refs : view'[p].lots[l] # Null => Exists(l)' /\ lots'[l].owner = view'[p].lots[l].owner,
           pc'[p] = "sweepLots" => \A l \in todo'[p] : Exists(l)'
    PROVE  TaskOK(p)'
<1>1. ShapeOK(p)'
  BY DEF ShapeOK, Resting
<1>2. LocksOK(p)' /\ FundsOK(p)' /\ ClaimOK(p)' /\ SerialOK(p)'
  BY DEF LocksOK, FundsOK, ClaimOK, SerialOK, InTransaction, Resting
<1>3. LotsOK(p)'
  BY DEF LotsOK, Resting
<1> QED
  BY <1>1, <1>2, <1>3 DEF TaskOK

LEMMA ReturnOK ==
    ASSUME TypeOK, NEW p \in Tasks, Return(p)
    PROVE  TaskOK(p)'
<1>1. pc'[p] = "idle" /\ op'[p] = Null /\ lock'[p] = {} /\ view'[p] = Empty
  BY DEF TypeOK, Return
<1>2. \A l \in Refs : view'[p].lots[l] = Null
  BY <1>1 DEF Empty
<1> QED
  BY <1>1, <1>2, RestingOK DEF Resting

LEMMA NextLotOK ==
    ASSUME TypeOK, NEW p \in Tasks, NextLot(p), \A l \in todo[p] : Exists(l)'
    PROVE  TaskOK(p)'
<1>1. pc'[p] = "sweepLots" /\ op'[p] = Null /\ lock'[p] = {} /\ view'[p] = Empty /\ todo'[p] = todo[p]
  BY DEF TypeOK, NextLot
<1>2. \A l \in Refs : view'[p].lots[l] = Null
  BY <1>1 DEF Empty
<1> QED
  BY <1>1, <1>2, RestingOK DEF Resting

\* The task that takes a step which leaves the money alone.
LEMMA EntersOK ==
    ASSUME Base, NEW p \in Tasks,
           (\E r \in Requests : Call(p, r)) \/ Begin(p) \/ (\E h \in Refs : ClaimHold(p, h))
    PROVE  TaskOK(p)'
<1>1. TypeOK /\ ShapeOK(p) /\ LotsOK(p)
  BY DEF Base, TaskOK
<1>2. Quiet(p) /\ UNCHANGED <<balance, held, lots, holds, engine>>
  <2>1. Quiet(p)
    BY DEF Quiet
  <2> QED
    BY <1>1, <2>1, QuietBook
<1>3. ASSUME NEW r \in Requests, Call(p, r) PROVE TaskOK(p)'
  <2>1. r.kind \in {"TopUp", "Consume", "Hold"} /\ r \in Operation /\ r # Null
    BY LedgerConstants DEF Request, Operation
  <2>2. /\ pc[p] = "idle" /\ pc'[p] = "begin" /\ op'[p] = r /\ view'[p] = view[p]
        /\ lock'[p] = lock[p] /\ todo'[p] = todo[p]
    BY <1>1, <1>3 DEF Call, TypeOK
  <2>3. ShapeOK(p)'
    BY <1>1, <2>1, <2>2 DEF ShapeOK, Resting, KindsAt
  <2>4. LocksOK(p)' /\ FundsOK(p)' /\ ClaimOK(p)' /\ SerialOK(p)'
    BY <2>2 DEF LocksOK, FundsOK, ClaimOK, SerialOK, InTransaction
  <2>5. LotsOK(p)'
    BY <1>1, <1>2, <2>2 DEF LotsOK, Exists
  <2> QED
    BY <2>3, <2>4, <2>5 DEF TaskOK
<1>4. CASE Begin(p)
  <2>1. /\ pc[p] = "begin" /\ pc'[p] = IF op[p].kind = "TopUp" THEN "commit" ELSE "guard"
        /\ op'[p] = op[p] /\ view'[p] = Snapshot(op[p].owner)
        /\ lock'[p] = lock[p] \cup BeginRows /\ todo'[p] = todo[p]
    BY <1>1, <1>4 DEF Begin, Goto, TypeOK
  <2>2. ShapeOK(p)'
    BY <1>1, <2>1 DEF ShapeOK, Resting, KindsAt
  <2>3. op'[p].kind \in {"TopUp", "Consume", "Hold"}
    BY <1>1, <2>1 DEF ShapeOK, Resting, KindsAt
  <2>4. LocksOK(p)'
    BY <1>2, <2>1, <2>3 DEF LocksOK, InTransaction, BeginRows
  <2>5. FundsOK(p)' /\ ClaimOK(p)' /\ SerialOK(p)'
    BY <2>1, <2>3 DEF FundsOK, ClaimOK, SerialOK
  <2>6. LotsOK(p)'
    BY <1>2, <2>1 DEF LotsOK, Exists, Snapshot
  <2> QED
    BY <2>2, <2>4, <2>5, <2>6 DEF TaskOK
<1>5. ASSUME NEW h \in Refs, ClaimHold(p, h) PROVE TaskOK(p)'
  <2>1. PICK row \in Hold : row = holds[h] /\ row.owner \in Owners /\ row.amount \in Nat
    <3>1. PICK row \in Hold : row = holds[h]
      BY <1>1, <1>5 DEF ClaimHold, IsHeld, TypeOK
    <3> QED
      BY <3>1 DEF Hold
  <2>2. PICK r \in Operation : r = [kind |-> "Capture", owner |-> row.owner, amount |-> row.amount,
                                    ref |-> h, ttl |-> Null]
    BY <2>1 DEF Operation
  <2>3. r.kind = "Capture" /\ r.owner = row.owner /\ r.amount = row.amount /\ r.ref = h /\ r # Null
    BY <2>2, LedgerConstants
  <2>4. /\ pc'[p] = "charge" /\ op'[p] = r /\ view'[p] = Snapshot(row.owner)
        /\ lock'[p] = lock[p] \cup ({HoldRow(h)} \cup BeginRows) /\ IsHeld(h)
    BY <1>1, <1>5, <2>1, <2>2 DEF ClaimHold, Goto, TypeOK
  <2>5. ShapeOK(p)'
    BY <2>3, <2>4 DEF ShapeOK, Resting, KindsAt
  <2>6. LocksOK(p)'
    BY <1>2, <2>3, <2>4 DEF LocksOK, InTransaction, BeginRows, HoldRow
  <2>7. FundsOK(p)' /\ SerialOK(p)'
    BY <2>4 DEF FundsOK, SerialOK
  <2>8. ClaimOK(p)'
    BY <1>2, <2>1, <2>3, <2>4 DEF ClaimOK, IsHeld
  <2>9. LotsOK(p)'
    BY <1>2, <2>4 DEF LotsOK, Exists, Snapshot
  <2> QED
    BY <2>5, <2>6, <2>7, <2>8, <2>9 DEF TaskOK
<1> QED
  BY <1>3, <1>4, <1>5

LEMMA LocksAreTakenOK ==
    ASSUME Base, NEW p \in Tasks, Guard(p) \/ Charge(p) \/ SelectLots(p)
    PROVE  TaskOK(p)'
<1>1. /\ TypeOK /\ ShapeOK(p) /\ LocksOK(p) /\ FundsOK(p) /\ ClaimOK(p) /\ LotsOK(p)
      /\ pc[p] \in {"guard", "charge", "draw"} /\ pc[p] \notin Resting
  BY DEF Base, TaskOK, Guard, Charge, SelectLots, Resting
<1>2. Quiet(p) /\ UNCHANGED <<balance, held, lots, holds, engine>>
  <2>1. Quiet(p)
    BY DEF Quiet
  <2> QED
    BY <1>1, <2>1, QuietBook
<1>3. CASE Guard(p)
  <2>1. /\ pc[p] = "guard" /\ pc'[p] = IF op[p].kind = "Hold" THEN "commit" ELSE "draw"
        /\ op'[p] = op[p] /\ view'[p] = view[p] /\ available(op[p].owner) >= op[p].amount
        /\ lock'[p] = lock[p] \cup {AccountRow(op[p].owner)} /\ todo'[p] = todo[p]
    BY <1>1, <1>3 DEF Guard, Goto, TypeOK
  <2>2. op[p].kind \in {"Consume", "Hold"}
    BY <1>1, <2>1 DEF ShapeOK, Resting, KindsAt
  <2>3. ShapeOK(p)'
    BY <1>1, <2>1, <2>2 DEF ShapeOK, Resting, KindsAt
  <2>4. LocksOK(p)'
    BY <1>1, <1>2, <2>1, <2>2 DEF LocksOK, InTransaction, AccountRow
  <2>5. FundsOK(p)' /\ ClaimOK(p)'
    BY <1>2, <2>1, <2>2 DEF FundsOK, ClaimOK, available
  <2>6. SerialOK(p)'
    BY <2>1, <2>2 DEF SerialOK
  <2>7. LotsOK(p)'
    BY <1>1, <1>2, <2>1 DEF LotsOK, Exists
  <2> QED
    BY <2>3, <2>4, <2>5, <2>6, <2>7 DEF TaskOK
<1>4. CASE Charge(p)
  <2>1. /\ pc[p] = "charge" /\ pc'[p] = "draw" /\ op'[p] = op[p] /\ view'[p] = view[p]
        /\ lock'[p] = lock[p] \cup {AccountRow(op[p].owner)} /\ todo'[p] = todo[p]
    BY <1>1, <1>4 DEF Charge, Goto, TypeOK
  <2>2. op[p].kind = "Capture"
    BY <1>1, <2>1 DEF ShapeOK, Resting, KindsAt
  <2>3. ShapeOK(p)'
    BY <1>1, <2>1, <2>2 DEF ShapeOK, Resting, KindsAt
  <2>4. LocksOK(p)'
    BY <1>1, <1>2, <2>1, <2>2 DEF LocksOK, InTransaction, AccountRow, HoldRow
  <2>5. FundsOK(p)' /\ SerialOK(p)'
    BY <2>1, <2>2 DEF FundsOK, SerialOK
  <2>6. ClaimOK(p)'
    BY <1>1, <1>2, <2>1, <2>2 DEF ClaimOK, IsHeld
  <2>7. LotsOK(p)'
    BY <1>1, <1>2, <2>1 DEF LotsOK, Exists
  <2> QED
    BY <2>3, <2>4, <2>5, <2>6, <2>7 DEF TaskOK
<1>5. CASE SelectLots(p)
  <2>1. /\ pc[p] = "draw" /\ pc'[p] = "commit" /\ op'[p] = op[p]
        /\ lock'[p] = lock[p] /\ todo'[p] = todo[p]
    BY <1>1, <1>5 DEF SelectLots, TypeOK
  <2>2. view'[p].lots = (IF engine = "mysql" THEN view[p].lots ELSE lots)
    <3>1. PICK v \in View : v = view[p]
      BY <1>1 DEF TypeOK
    <3>2. [v EXCEPT !.lots = lots].lots = lots
      BY <3>1 DEF View
    <3> QED
      BY <1>1, <1>5, <3>1, <3>2 DEF SelectLots, TypeOK
  <2>3. op[p].kind \in {"Consume", "Capture"}
    BY <1>1, <2>1 DEF ShapeOK, Resting, KindsAt
  <2>4. ShapeOK(p)'
    BY <1>1, <2>1, <2>3 DEF ShapeOK, Resting, KindsAt
  <2>5. LocksOK(p)'
    BY <1>1, <1>2, <2>1, <2>3 DEF LocksOK, InTransaction, AccountRow, HoldRow
  <2>6. FundsOK(p)' /\ ClaimOK(p)'
    BY <1>1, <1>2, <2>1, <2>3 DEF FundsOK, ClaimOK, available, IsHeld
  <2>7. SerialOK(p)'
    BY <1>2, <2>1, <2>2, <2>3 DEF SerialOK
  <2>8. LotsOK(p)'
    BY <1>1, <1>2, <2>1, <2>2 DEF LotsOK, Exists
  <2> QED
    BY <2>4, <2>5, <2>6, <2>7, <2>8 DEF TaskOK
<1> QED
  BY <1>3, <1>4, <1>5

LEMMA SweepsOK ==
    ASSUME Base, NEW p \in Tasks,
           Sweep(p) \/ SelectDeadLots(p) \/ SweepDone(p) \/ \E l \in Refs : SkipLot(p, l)
    PROVE  TaskOK(p)'
<1>1. /\ TypeOK /\ ShapeOK(p) /\ LotsOK(p)
      /\ pc[p] \in {"idle", "sweepHolds", "sweepLots"}
  BY DEF Base, TaskOK, Sweep, SelectDeadLots, SweepDone, SkipLot
<1>2. Quiet(p) /\ UNCHANGED <<balance, held, lots, holds, engine>>
  <2>1. Quiet(p)
    BY DEF Quiet
  <2> QED
    BY <1>1, <2>1, QuietBook
<1>3. op[p] = Null /\ lock[p] = {}
  BY <1>1 DEF ShapeOK, Resting
<1>4. op'[p] = Null /\ lock'[p] = {} /\ view'[p] = view[p]
  BY <1>1, <1>3 DEF Sweep, SelectDeadLots, SweepDone, SkipLot, TypeOK
<1>5. \A l \in Refs : view'[p].lots[l] # Null => Exists(l)' /\ lots'[l].owner = view'[p].lots[l].owner
  BY <1>1, <1>2, <1>4 DEF LotsOK, Exists
<1>6. pc'[p] \in Resting /\ (pc'[p] = "sweepLots" => \A l \in todo'[p] : Exists(l)')
  <2>1. CASE Sweep(p) \/ SweepDone(p)
    BY <1>1, <2>1 DEF Sweep, SweepDone, TypeOK, Resting
  <2>2. CASE SelectDeadLots(p)
    BY <1>1, <1>2, <2>2 DEF SelectDeadLots, DeadLots, Exists, TypeOK, Resting
  <2>3. CASE \E l \in Refs : SkipLot(p, l)
    BY <1>1, <1>2, <2>3 DEF SkipLot, LotsOK, Exists, TypeOK, Resting
  <2> QED
    BY <2>1, <2>2, <2>3
<1> QED
  BY <1>4, <1>5, <1>6, RestingOK

LEMMA LotIsReadOK ==
    ASSUME Base, NEW p \in Tasks, NEW l \in Refs, ReadLot(p, l)
    PROVE  TaskOK(p)'
<1>1. TypeOK /\ ShapeOK(p) /\ LotsOK(p) /\ pc[p] = "sweepLots" /\ l \in todo[p]
  BY DEF Base, TaskOK, ReadLot
<1>2. Quiet(p) /\ UNCHANGED <<balance, held, lots, holds, engine>>
  <2>1. Quiet(p)
    BY DEF Quiet
  <2> QED
    BY <1>1, <2>1, QuietBook
<1>3. PICK row \in Lot : row = lots[l] /\ row.owner \in Owners /\ row.remaining \in Nat
  <2>1. PICK row \in Lot : row = lots[l]
    BY <1>1 DEF LotsOK, Exists, TypeOK, Book
  <2> QED
    BY <2>1 DEF Lot
<1>4. PICK r \in Operation : r = [kind |-> "Expire", owner |-> row.owner, amount |-> row.remaining,
                                  ref |-> l, ttl |-> Null]
  BY <1>3 DEF Operation
<1>5. /\ r.kind = "Expire" /\ r.owner = row.owner /\ r.amount = row.remaining /\ r.ref = l /\ r # Null
      /\ row # Null
  BY <1>3, <1>4, LedgerConstants
<1>6. /\ pc'[p] = "readAccount" /\ op'[p] = r /\ view'[p] = Snapshot(row.owner) /\ row.remaining > 0
      /\ lock'[p] = lock[p] \cup BeginRows /\ todo'[p] = todo[p] \ {l}
  BY <1>1, <1>3, <1>4 DEF ReadLot, Goto, TypeOK
<1>7. ShapeOK(p)'
  BY <1>5, <1>6 DEF ShapeOK, Resting, KindsAt
<1>8. LocksOK(p)'
  BY <1>2, <1>6 DEF LocksOK, InTransaction, BeginRows
<1>9. FundsOK(p)' /\ ClaimOK(p)'
  BY <1>6 DEF FundsOK, ClaimOK
<1>10. SerialOK(p)'
  BY <1>2, <1>3, <1>5, <1>6 DEF SerialOK
<1>11. LotsOK(p)'
  BY <1>1, <1>2, <1>3, <1>5, <1>6 DEF LotsOK, Exists, Snapshot
<1> QED
  BY <1>7, <1>8, <1>9, <1>10, <1>11 DEF TaskOK

LEMMA LotIsTakenOK ==
    ASSUME Base, NEW p \in Tasks, ReadAccount(p) \/ ZeroLot(p)
    PROVE  TaskOK(p)'
<1>1. /\ TypeOK /\ ShapeOK(p) /\ LocksOK(p) /\ LotsOK(p) /\ SerialOK(p)
      /\ pc[p] \in {"readAccount", "zero"} /\ pc[p] \notin Resting
  BY DEF Base, TaskOK, ReadAccount, ZeroLot, Resting
<1>2. Quiet(p) /\ UNCHANGED <<balance, held, lots, holds, engine>>
  <2>1. Quiet(p)
    BY DEF Quiet
  <2> QED
    BY <1>1, <2>1, QuietBook
<1>3. PICK r \in Operation : r = op[p] /\ r.amount \in Nat /\ r.owner \in Owners /\ r.ref \in Refs
  BY <1>1, OpTypes
<1>4. r.kind = "Expire"
  BY <1>1, <1>3 DEF ShapeOK, Resting, KindsAt
<1>5. \E new \in Operation : /\ op'[p] = new /\ new # Null /\ new.kind = "Expire" /\ new.owner = r.owner
                             /\ new.ref = r.ref /\ new.amount <= r.amount /\ new.amount \in Nat
  <2>1. CASE ZeroLot(p)
    BY <1>1, <1>3, <1>4, <2>1, LedgerConstants DEF ZeroLot
  <2>2. CASE ReadAccount(p)
    <3>1. PICK avail \in Int : avail = IF engine = "mysql" THEN view[p].available ELSE available(r.owner)
      BY <1>1, <1>3, ViewTypes DEF View, TypeOK
    <3>2. PICK m \in Int : m = Min({r.amount, avail}) /\ m <= r.amount
      BY <1>3, <3>1, MinOf
    <3>3. PICK n \in Nat : n = Max({0, m}) /\ n <= r.amount
      BY <1>3, <3>2, MaxOf
    <3>4. PICK new : new = [r EXCEPT !.amount = n]
      OBVIOUS
    <3>5. new \in Operation /\ new.kind = r.kind /\ new.owner = r.owner /\ new.ref = r.ref /\ new.amount = n
      BY <3>3, <3>4 DEF Operation
    <3>6. op' = [op EXCEPT ![p] = new]
      BY <1>3, <2>2, <3>1, <3>2, <3>3, <3>4 DEF ReadAccount
    <3> QED
      BY <1>1, <1>4, <3>3, <3>5, <3>6, LedgerConstants DEF TypeOK
  <2> QED
    BY <2>1, <2>2
<1>6. PICK new \in Operation : /\ op'[p] = new /\ new # Null /\ new.kind = "Expire" /\ new.owner = r.owner
                               /\ new.ref = r.ref /\ new.amount <= r.amount /\ new.amount \in Nat
  BY <1>5
<1>7. /\ pc'[p] \in {"zero", "expire"} /\ view'[p] = view[p] /\ todo'[p] = todo[p]
      /\ lock[p] \subseteq lock'[p]
  BY <1>1 DEF ReadAccount, ZeroLot, Goto, TypeOK
<1>8. ShapeOK(p)'
  BY <1>6, <1>7 DEF ShapeOK, Resting, KindsAt
<1>9. LocksOK(p)'
  BY <1>1, <1>2, <1>7 DEF LocksOK, InTransaction
<1>10. FundsOK(p)' /\ ClaimOK(p)'
  BY <1>7 DEF FundsOK, ClaimOK
<1>11. SerialOK(p)'
  <2> SUFFICES ASSUME engine = "sqlite"
               PROVE  0 < lots[r.ref].remaining /\ new.amount <= lots[r.ref].remaining
    BY <1>2, <1>6, <1>7 DEF SerialOK
  <2>1. 0 < lots[r.ref].remaining /\ r.amount <= lots[r.ref].remaining
    BY <1>1, <1>3 DEF SerialOK
  <2>2. lots[r.ref].remaining \in Nat
    BY <1>1, <1>3 DEF LotsOK, Exists, TypeOK, Book, Lot
  <2> QED
    BY <1>3, <1>6, <2>1, <2>2
<1>12. LotsOK(p)'
  BY <1>1, <1>2, <1>3, <1>6, <1>7 DEF LotsOK, Exists
<1> QED
  BY <1>8, <1>9, <1>10, <1>11, <1>12 DEF TaskOK

LEMMA QuietOK ==
    ASSUME Base, NEW p \in Tasks, Quiet(p)
    PROVE  \A q \in Tasks : TaskOK(q)'
<1>1. TypeOK /\ \A q \in Tasks : TaskOK(q)
  BY DEF Base
<1>2. UNCHANGED <<balance, held, lots, holds, engine>> /\ Apart(p)
  BY <1>1, QuietBook, OneTask
<1>3. ASSUME NEW q \in Tasks, q # p PROVE TaskOK(q)'
  BY <1>1, <1>2, <1>3, StillOK DEF Apart
<1>4. TaskOK(p)'
  <2>1. CASE Insufficient(p) \/ LoseRace(p)
    BY <1>1, <2>1, ReturnOK DEF Insufficient, LoseRace
  <2>2. CASE Victim(p) \/ Crash(p)
    <3>1. pc'[p] = "idle" /\ op'[p] = Null /\ lock'[p] = {} /\ view'[p] = Empty
      BY <1>1, <2>2 DEF Victim, Crash, Abort, TypeOK
    <3>2. \A l \in Refs : view'[p].lots[l] = Null
      BY <3>1 DEF Empty
    <3> QED
      BY <3>1, <3>2, RestingOK DEF Resting
  <2> QED
    BY <2>1, <2>2, EntersOK, LocksAreTakenOK, SweepsOK, LotIsReadOK, LotIsTakenOK DEF Quiet
<1> QED
  BY <1>3, <1>4

\* Every commit is orderly, and the task goes on at rest.
LEMMA CommitOK ==
    ASSUME Base, NEW p \in Tasks, Commits(p)
    PROVE  TypeBook' /\ \A q \in Tasks : TaskOK(q)'
<1>1. TypeOK /\ TaskOK(p) /\ \A q \in Tasks : TaskOK(q)
  BY DEF Base
<1>2. Apart(p)
  BY <1>1, OneTask
<1>3. ASSUME Orderly(p) PROVE TypeBook' /\ \A q \in Tasks \ {p} : TaskOK(q)'
  BY <1>2, <1>3, ElsewhereOK DEF Orderly
<1>4. CASE CommitTopUp(p) \/ CommitConsume(p) \/ CommitHold(p) \/ CommitCapture(p)
  <2>1. Orderly(p)
    BY <1>4, TopUpDoes, ConsumeDoes, HoldDoes, CaptureDoes
  <2>2. Return(p)
    BY <1>4 DEF CommitTopUp, CommitConsume, CommitHold, CommitCapture
  <2> QED
    BY <1>1, <1>3, <2>1, <2>2, ReturnOK
<1>5. CASE ExpireLot(p) \/ ExpireNothing(p) \/ ExpireAgain(p)
  <2>1. Orderly(p)
    BY <1>5, ExpireDoes, ExpireNothingDoes, ExpireAgainDoes
  <2>2. NextLot(p) /\ pc[p] = "expire"
    BY <1>5 DEF ExpireLot, ExpireNothing, ExpireAgain
  <2>3. \A l \in todo[p] : Exists(l)'
    BY <1>1, <2>1, <2>2 DEF TaskOK, LotsOK, Exists, Orderly, TypeOK
  <2> QED
    BY <1>1, <1>3, <2>1, <2>2, <2>3, NextLotOK
<1>6. ASSUME NEW h \in Refs, Release(p, h) \/ SweepHold(p, h) PROVE TypeBook' /\ \A q \in Tasks : TaskOK(q)'
  <2>1. /\ pc'[p] = pc[p] /\ op'[p] = op[p] /\ view'[p] = view[p] /\ lock'[p] = lock[p]
        /\ pc[p] \in {"idle", "sweepHolds"} /\ UNCHANGED <<opened, balance, transfers, lots, engine>>
    BY <1>1, <1>6 DEF Release, SweepHold, task
  <2>2. op[p] = Null /\ lock[p] = {} /\ LotsOK(p)
    BY <1>1, <2>1 DEF TaskOK, ShapeOK, Resting
  <2>3. TaskOK(p)'
    <3>1. \A l \in Refs : view'[p].lots[l] # Null => Exists(l)' /\ lots'[l].owner = view'[p].lots[l].owner
      BY <2>1, <2>2 DEF LotsOK, Exists
    <3> QED
      BY <2>1, <2>2, <3>1, RestingOK DEF Resting
  <2>4. CASE release_in(p, h)
    BY <1>3, <2>1, <2>3, <2>4, ReleaseDoes
  <2>5. CASE UNCHANGED <<holds, held>>
    <3>1. ASSUME NEW q \in Tasks \ {p} PROVE TaskOK(q)'
      BY <1>1, <1>2, <2>1, <2>5, StillOK DEF Apart
    <3>2. TypeBook'
      BY <1>1, <2>1, <2>5 DEF TypeOK, TypeBook
    <3> QED
      BY <2>3, <3>1, <3>2
  <2> QED
    BY <1>6, <2>4, <2>5 DEF Release, SweepHold
<1> QED
  BY <1>4, <1>5, <1>6 DEF Commits

-----------------------------------------------------------------------------
(* Locks exclude each other.                                                *)

LEMMA ExclusiveStep ==
    ASSUME Base, NEW p \in Tasks, Quiet(p) \/ Commits(p)
    PROVE  Exclusive'
<1>1. TypeOK /\ Exclusive /\ Apart(p)
  BY OneTask DEF Base
<1>2. lock'[p] \subseteq lock[p] \/ \E rows : lock'[p] = lock[p] \cup rows /\ Free(p, rows)
  <2>1. CASE (\E r \in Requests : Call(p, r)) \/ SelectLots(p) \/ Sweep(p) \/ SelectDeadLots(p)
             \/ SweepDone(p) \/ (\E l \in Refs : SkipLot(p, l)) \/ ReadAccount(p)
    BY <2>1 DEF Call, SelectLots, Sweep, SelectDeadLots, SweepDone, SkipLot, ReadAccount
  <2>2. CASE Begin(p) \/ Guard(p) \/ Charge(p) \/ (\E l \in Refs : ReadLot(p, l)) \/ ZeroLot(p)
    BY <1>1, <2>2 DEF Begin, Guard, Charge, ReadLot, ZeroLot, Goto, TypeOK
  <2>3. ASSUME NEW h \in Refs, ClaimHold(p, h)
        PROVE  \E rows : lock'[p] = lock[p] \cup rows /\ Free(p, rows)
    BY <1>1, <2>3 DEF ClaimHold, Goto, TypeOK
  <2>4. CASE Insufficient(p) \/ LoseRace(p) \/ CommitTopUp(p) \/ CommitConsume(p)
             \/ CommitHold(p) \/ CommitCapture(p)
    <3>1. Return(p)
      BY <2>4 DEF Insufficient, LoseRace, CommitTopUp, CommitConsume, CommitHold, CommitCapture
    <3> QED
      BY <1>1, <3>1 DEF Return, TypeOK
  <2>5. CASE ExpireLot(p) \/ ExpireNothing(p) \/ ExpireAgain(p)
    <3>1. NextLot(p)
      BY <2>5 DEF ExpireLot, ExpireNothing, ExpireAgain
    <3> QED
      BY <1>1, <3>1 DEF NextLot, TypeOK
  <2>6. CASE Victim(p) \/ Crash(p)
    BY <1>1, <2>6 DEF Victim, Crash, Abort, TypeOK
  <2>7. CASE \E h \in Refs : Release(p, h) \/ SweepHold(p, h)
    BY <2>7 DEF Release, SweepHold, task
  <2> QED
    BY <2>1, <2>2, <2>3, <2>4, <2>5, <2>6, <2>7 DEF Quiet, Commits
<1>3. \A q \in Tasks \ {p} : lock'[q] = lock[q] /\ lock'[p] \cap lock[q] = {}
  BY <1>1, <1>2 DEF Exclusive, Apart, Free
<1> QED
  BY <1>1, <1>3 DEF Exclusive

-----------------------------------------------------------------------------
(* Lots and their transfers.                                                *)

LEMMA ShrinkRecorded ==
    ASSUME Base, Shrinks, engine' = engine,
           \A l \in Refs : Taken(<<"call", l>>) => Taken(<<"call", l>>)',
           \A l \in Refs : Taken(<<"expire", l>>)'
                             => Taken(<<"expire", l>>) \/ (lots'[l] # Null /\ lots'[l].remaining = 0)
    PROVE  LotsRecorded'
<1>1. LotsRecorded /\ \A l \in Refs : lots[l] # Null => lots[l].remaining \in Nat
  BY DEF Base, TypeOK, Book, Lot
<1>2. \A l \in Refs : lots'[l] # Null => lots'[l].remaining \in Nat
  BY DEF Shrinks, Book, Lot
<1>3. \A l \in Refs : Exists(l)' => Taken(<<"call", l>>)'
  BY <1>1 DEF LotsRecorded, Shrinks, Exists
<1>4. engine = "sqlite" => \A l \in Refs : Taken(<<"expire", l>>)' => Exists(l)' /\ lots'[l].remaining = 0
  <2> SUFFICES ASSUME engine = "sqlite", NEW l \in Refs, Taken(<<"expire", l>>)'
               PROVE  lots'[l] # Null /\ lots'[l].remaining = 0
    BY DEF Exists
  <2>1. CASE Taken(<<"expire", l>>)
    <3>1. lots[l] # Null /\ lots[l].remaining = 0
      BY <1>1, <2>1 DEF LotsRecorded, Exists
    <3>2. lots'[l] # Null /\ lots'[l].remaining <= 0
      BY <3>1 DEF Shrinks
    <3> QED
      BY <1>2, <3>2
  <2> QED
    BY <2>1
<1> QED
  BY <1>3, <1>4 DEF LotsRecorded

LEMMA LotsRecordedStep ==
    ASSUME Base, NEW p \in Tasks, Quiet(p) \/ Commits(p)
    PROVE  LotsRecorded'
<1>1. TypeOK /\ LotsRecorded
  BY DEF Base
<1>2. ASSUME UNCHANGED <<transfers, lots, engine>> PROVE LotsRecorded'
  BY <1>1, <1>2 DEF LotsRecorded, Taken, Exists
<1>3. CASE Quiet(p)
  BY <1>1, <1>2, <1>3, QuietBook
<1>4. CASE CommitHold(p)
  BY <1>2, <1>4, HoldDoes DEF Orderly
<1>5. CASE \E h \in Refs : Release(p, h) \/ SweepHold(p, h)
  BY <1>2, <1>5 DEF Release, SweepHold
<1>6. CASE CommitTopUp(p)
  <2>1. PICK r \in Operation, new \in Lot :
            /\ r.ref \in Refs /\ Records(<<"call", r.ref>>, Topup, r.owner, r.amount)
            /\ lots[r.ref] = Null /\ lots' = [lots EXCEPT ![r.ref] = new]
    BY <1>6, TopUpDoes
  <2>2. engine' = engine /\ lots \in Book
    BY <1>1, <1>6, TopUpDoes DEF Orderly, TypeOK
  <2>3. \A l \in Refs : l # r.ref => lots'[l] = lots[l]
    BY <2>1, <2>2 DEF Book
  <2>4. /\ \A l \in Refs : Taken(<<"expire", l>>)' <=> Taken(<<"expire", l>>)
        /\ \A l \in Refs : Taken(<<"call", l>>)' <=> (Taken(<<"call", l>>) \/ l = r.ref)
    BY <2>1, Distinct DEF Records, Taken
  <2>5. \A l \in Refs : Exists(l)' => Taken(<<"call", l>>)'
    BY <1>1, <2>3, <2>4 DEF LotsRecorded, Exists
  <2>6. engine = "sqlite" => \A l \in Refs : Taken(<<"expire", l>>)' => Exists(l)' /\ lots'[l].remaining = 0
    BY <1>1, <2>1, <2>3, <2>4 DEF LotsRecorded, Exists
  <2> QED
    BY <2>2, <2>5, <2>6 DEF LotsRecorded
<1>7. CASE CommitConsume(p) \/ CommitCapture(p)
  <2>1. PICK k \in {"call", "capture"} : \E a, b, n : Records(<<k, op[p].ref>>, a, b, n)
    BY <1>7, ConsumeDoes, CaptureDoes DEF Spends
  <2>2. Shrinks /\ engine' = engine
    BY <1>7, ConsumeDoes, CaptureDoes DEF Spends, Orderly
  <2>3. /\ \A l \in Refs : Taken(<<"expire", l>>)' => Taken(<<"expire", l>>)
        /\ \A l \in Refs : Taken(<<"call", l>>) => Taken(<<"call", l>>)'
    BY <2>1, Distinct DEF Records, Taken
  <2> QED
    BY <2>2, <2>3, ShrinkRecorded
<1>8. CASE ExpireLot(p)
  <2>1. PICK a, b, n : Records(<<"expire", op[p].ref>>, a, b, n)
    BY <1>8, ExpireDoes DEF Spends
  <2>2. Shrinks /\ Empties(op[p].ref) /\ engine' = engine
    BY <1>8, ExpireDoes DEF Spends, Orderly
  <2>3. /\ \A l \in Refs : Taken(<<"expire", l>>)' => Taken(<<"expire", l>>) \/ l = op[p].ref
        /\ \A l \in Refs : Taken(<<"call", l>>) => Taken(<<"call", l>>)'
    BY <2>1, Distinct DEF Records, Taken
  <2>4. \A l \in Refs : l = op[p].ref => lots'[l] # Null /\ lots'[l].remaining = 0
    BY <2>2 DEF Empties
  <2> QED
    BY <2>2, <2>3, <2>4, ShrinkRecorded
<1>9. CASE ExpireNothing(p) \/ ExpireAgain(p)
  <2>1. transfers' = transfers /\ engine' = engine /\ (lots' = lots \/ Shrinks)
    BY <1>9, ExpireNothingDoes, ExpireAgainDoes DEF Orderly
  <2>2. CASE Shrinks
    BY <2>1, <2>2, ShrinkRecorded DEF Taken
  <2> QED
    BY <1>2, <2>1, <2>2
<1> QED
  BY <1>3, <1>4, <1>5, <1>6, <1>7, <1>8, <1>9 DEF Commits

-----------------------------------------------------------------------------
(* What is held is what the holds reserve.                                  *)

Amounts == [h \in Refs |-> holds[h].amount]

LEMMA ReservingTypes ==
    ASSUME TypeBook, NEW o \in Owners
    PROVE  /\ Reserving(o) \subseteq Refs /\ IsFiniteSet(Reserving(o))
           /\ \A h \in Reserving(o) : Amounts[h] \in Nat /\ Amounts[h] = holds[h].amount
           /\ held[o] \in Int
<1>1. Reserving(o) \subseteq Refs /\ IsFiniteSet(Reserving(o))
  BY FiniteBook, FS_Subset DEF Reserving
<1>2. ASSUME NEW h \in Reserving(o) PROVE Amounts[h] \in Nat /\ Amounts[h] = holds[h].amount
  <2>1. h \in Refs /\ holds[h] \in Hold
    BY DEF Reserving, IsHeld, TypeBook
  <2> QED
    BY <2>1 DEF Amounts, Hold
<1> QED
  BY <1>1, <1>2 DEF TypeBook

LEMMA FreesReserved ==
    ASSUME TypeBook, HeldIsReserved, NEW h \in Refs, NEW s \in {"captured", "released"}, Frees(h, s)
    PROVE  HeldIsReserved' /\ held'[holds[h].owner] >= 0
<1>1. PICK row \in Hold : row = holds[h] /\ row.owner \in Owners /\ row.amount \in Nat
  BY DEF Frees, IsHeld, TypeBook
<1>2. /\ \A g \in Refs : g # h => holds'[g] = holds[g]
      /\ holds'[h].status # "held" /\ IsHeld(h)
      /\ held'[row.owner] = held[row.owner] - row.amount
      /\ \A o \in Owners : o # row.owner => held'[o] = held[o]
  BY <1>1 DEF Frees
<1>3. PICK f : f = Amounts
  OBVIOUS
<1>4. PICK g : g = Amounts'
  OBVIOUS
<1>5. ASSUME NEW o \in Owners
      PROVE  held'[o] = Sum(g, Reserving(o)') /\ (o = row.owner => held'[o] >= 0)
  <2>1. PICK S : S = Reserving(o)
    OBVIOUS
  <2>2. PICK T : T = Reserving(o)'
    OBVIOUS
  <2>3. IsFiniteSet(S) /\ (\A x \in S : f[x] \in Nat) /\ held[o] \in Int /\ S \subseteq Refs
    BY <1>3, <2>1, ReservingTypes
  <2>4. held[o] = Sum(f, S)
    BY <1>3, <2>1 DEF HeldIsReserved, Amounts
  <2>5. T = S \ {h} /\ (h \in S <=> o = row.owner)
    BY <1>1, <1>2, <2>1, <2>2 DEF Reserving, IsHeld
  <2>6. f[h] = row.amount
    BY <1>1, <1>3 DEF Amounts
  <2>7. IsFiniteSet(T) /\ \A x \in T : f[x] \in Nat /\ g[x] = f[x]
    <3>1. IsFiniteSet(T)
      BY <2>3, <2>5, FS_Subset
    <3>2. \A x \in T : g[x] = f[x]
      BY <1>2, <1>3, <1>4, <2>3, <2>5 DEF Amounts
    <3> QED
      BY <2>3, <2>5, <3>1, <3>2
  <2>8. Sum(g, T) = Sum(f, T) /\ Sum(f, T) \in Nat
    BY <2>7, SumSame, SumOfNats
  <2>9. CASE o = row.owner
    <3>1. Sum(f, S) = f[h] + Sum(f, S \ {h})
      BY <2>3, <2>5, <2>9, SumTake
    <3>2. held'[o] = held[o] - row.amount
      BY <1>2, <2>9
    <3> QED
      BY <1>1, <2>2, <2>4, <2>5, <2>6, <2>8, <3>1, <3>2
  <2>10. CASE o # row.owner
    <3>1. T = S
      BY <2>5, <2>10
    <3> QED
      BY <1>2, <2>2, <2>4, <2>8, <2>10, <3>1
  <2> QED
    BY <2>9, <2>10
<1>6. HeldIsReserved'
  BY <1>4, <1>5 DEF HeldIsReserved, Amounts
<1> QED
  BY <1>1, <1>5, <1>6

LEMMA HoldReserved ==
    ASSUME Base, HeldIsReserved, NEW p \in Tasks, CommitHold(p)
    PROVE  HeldIsReserved'
<1>1. TypeBook
  BY TypeParts DEF Base
<1>2. PICK r \in Operation, new \in Hold :
          /\ r.ref \in Refs /\ r.owner \in Owners /\ r.amount \in Nat
          /\ holds[r.ref] = Null /\ new # Null /\ new.status = "held"
          /\ new.owner = r.owner /\ new.amount = r.amount
          /\ holds' = [holds EXCEPT ![r.ref] = new]
          /\ held' = [held EXCEPT ![r.owner] = held[r.owner] + r.amount]
  BY HoldDoes
<1>3. holds'[r.ref] = new /\ \A h \in Refs : h # r.ref => holds'[h] = holds[h]
  BY <1>1, <1>2 DEF TypeBook
<1>4. PICK f : f = Amounts
  OBVIOUS
<1>5. PICK g : g = Amounts'
  OBVIOUS
<1>6. ASSUME NEW o \in Owners PROVE held'[o] = Sum(g, Reserving(o)')
  <2>1. PICK S : S = Reserving(o)
    OBVIOUS
  <2>2. PICK T : T = Reserving(o)'
    OBVIOUS
  <2>3. IsFiniteSet(S) /\ (\A x \in S : f[x] \in Nat) /\ held[o] \in Int /\ S \subseteq Refs
    BY <1>1, <1>4, <2>1, ReservingTypes
  <2>4. held[o] = Sum(f, S)
    BY <1>4, <2>1 DEF HeldIsReserved, Amounts
  <2>5. r.ref \notin S /\ T = IF o = r.owner THEN S \cup {r.ref} ELSE S
    BY <1>2, <1>3, <2>1, <2>2 DEF Reserving, IsHeld
  <2>6. g[r.ref] = r.amount
    BY <1>2, <1>3, <1>5 DEF Amounts
  <2>7. \A x \in S : f[x] \in Int /\ g[x] = f[x]
    <3>1. \A x \in S : g[x] = f[x]
      BY <1>3, <1>4, <1>5, <2>3, <2>5 DEF Amounts
    <3> QED
      BY <2>3, <3>1
  <2>8. CASE o = r.owner
    <3>1. Sum(g, T) = Sum(f, S) + g[r.ref]
      <4>1. PICK h : h = r.ref
        OBVIOUS
      <4>2. IsFiniteSet(S) /\ h \notin S /\ g[h] \in Int /\ T = S \cup {h}
        BY <1>2, <2>3, <2>5, <2>6, <2>8, <4>1
      <4>3. Sum(g, T) = Sum(f, S) + g[h]
        BY <2>7, <4>2, SumJoin
      <4> QED
        BY <4>1, <4>3
    <3>2. held'[o] = held[o] + r.amount
      BY <1>1, <1>2, <2>8 DEF TypeBook
    <3> QED
      BY <2>2, <2>4, <2>5, <2>6, <2>8, <3>1, <3>2
  <2>9. CASE o # r.owner
    <3>1. Sum(g, S) = Sum(f, S)
      BY <2>3, <2>7, SumSame
    <3>2. held'[o] = held[o]
      BY <1>1, <1>2, <2>9 DEF TypeBook
    <3> QED
      BY <2>2, <2>4, <2>5, <2>9, <3>1, <3>2
  <2> QED
    BY <2>8, <2>9
<1> QED
  BY <1>5, <1>6 DEF HeldIsReserved, Amounts

LEMMA HeldStep ==
    ASSUME Base, HeldIsReserved, NEW p \in Tasks, Quiet(p) \/ Commits(p)
    PROVE  HeldIsReserved'
<1>1. TypeOK /\ TypeBook
  BY TypeParts DEF Base
<1>2. ASSUME UNCHANGED <<held, holds>> PROVE HeldIsReserved'
  BY <1>2 DEF HeldIsReserved, Reserving, IsHeld
<1>3. CASE Quiet(p)
  BY <1>1, <1>2, <1>3, QuietBook
<1>4. CASE CommitTopUp(p) \/ CommitConsume(p) \/ ExpireLot(p) \/ ExpireNothing(p) \/ ExpireAgain(p)
  BY <1>2, <1>4 DEF CommitTopUp, CommitConsume, ExpireLot, ExpireNothing, ExpireAgain
<1>5. CASE CommitHold(p)
  BY <1>5, HoldReserved
<1>6. CASE CommitCapture(p)
  <2>1. PICK h \in Refs : h = op[p].ref
    BY <1>6, CommitFacts DEF CommitCapture
  <2> QED
    BY <1>1, <1>6, <2>1, CaptureDoes, FreesReserved
<1>7. ASSUME NEW h \in Refs, Release(p, h) \/ SweepHold(p, h) PROVE HeldIsReserved'
  <2>1. UNCHANGED <<opened, balance, transfers, lots, engine>>
    BY <1>7 DEF Release, SweepHold
  <2>2. CASE release_in(p, h)
    BY <1>1, <2>1, <2>2, ReleaseDoes, FreesReserved
  <2> QED
    BY <1>2, <1>7, <2>2 DEF Release, SweepHold
<1> QED
  BY <1>3, <1>4, <1>5, <1>6, <1>7 DEF Commits

-----------------------------------------------------------------------------
(* Nobody is overdrawn.                                                     *)

\* Credits that were available leave an account.
LEMMA SpendsAvailable ==
    ASSUME TypeOK, NeverOverdrawn, NEW o \in Owners, NEW n \in Nat, NEW to \in Systems,
           Shifts(o, to, n), available(o) >= n, held' = held
    PROVE  NeverOverdrawn'
<1>1. \A a \in Owners : /\ 0 <= held[a] /\ held[a] <= balance[a] /\ a # to /\ a \in Accounts
                        /\ balance[a] \in Int /\ held[a] \in Int
  BY ViewTypes, LedgerConstants DEF NeverOverdrawn, Accounts
<1>2. held[o] <= balance[o] - n /\ balance'[o] = balance[o] - n
  BY <1>1 DEF available, Shifts
<1>3. \A a \in Owners : a # o => balance'[a] = balance[a]
  BY <1>1 DEF Shifts
<1> QED
  BY <1>1, <1>2, <1>3 DEF NeverOverdrawn

LEMMA OverdrawnStep ==
    ASSUME Base, HeldIsReserved, NeverOverdrawn, NEW p \in Tasks, Quiet(p) \/ Commits(p)
    PROVE  NeverOverdrawn'
<1>1. TypeOK /\ TypeBook
  BY TypeParts DEF Base
<1>2. \A a \in Owners : /\ 0 <= held[a] /\ held[a] <= balance[a]
                        /\ balance[a] \in Int /\ held[a] \in Int
                        /\ a \in Accounts /\ a # Topup /\ a # Consumed /\ a # Expiry
  BY <1>1, ViewTypes, Distinct DEF NeverOverdrawn, Accounts
<1>3. ASSUME UNCHANGED <<balance, held>> PROVE NeverOverdrawn'
  BY <1>3 DEF NeverOverdrawn
<1>4. CASE Quiet(p)
  BY <1>1, <1>3, <1>4, QuietBook
<1>5. CASE CommitTopUp(p)
  <2>1. PICK r \in Operation : r.owner \in Owners /\ r.amount \in Nat /\ Shifts(Topup, r.owner, r.amount)
    BY <1>5, TopUpDoes
  <2>2. held' = held
    BY <1>5, TopUpDoes
  <2>3. balance'[r.owner] = balance[r.owner] + r.amount /\ \A a \in Owners : a # r.owner => balance'[a] = balance[a]
    BY <1>2, <2>1 DEF Shifts
  <2> QED
    BY <1>2, <2>1, <2>2, <2>3 DEF NeverOverdrawn
<1>6. CASE CommitConsume(p)
  <2>1. pc[p] = "commit" /\ op[p].kind = "Consume"
    BY <1>6 DEF CommitConsume
  <2>2. op[p].owner \in Owners /\ op[p].amount \in Nat /\ available(op[p].owner) >= op[p].amount
    BY <2>1, CommitFacts DEF FundsOK
  <2>3. Shifts(op[p].owner, Consumed, op[p].amount) /\ held' = held /\ Consumed \in Systems
    BY <1>6, ConsumeDoes DEF Spends, Systems
  <2> QED
    BY <1>1, <2>2, <2>3, SpendsAvailable
<1>7. CASE CommitHold(p)
  <2>1. PICK r \in Operation : /\ r = op[p] /\ r.kind = "Hold" /\ r.owner \in Owners /\ r.amount \in Nat
                               /\ held' = [held EXCEPT ![r.owner] = held[r.owner] + r.amount]
    BY <1>7, HoldDoes
  <2>2. balance' = balance
    BY <1>7, HoldDoes
  <2>3. balance[r.owner] - held[r.owner] >= r.amount
    BY <1>7, <2>1, CommitFacts DEF FundsOK, available, CommitHold
  <2>4. held'[r.owner] = held[r.owner] + r.amount /\ \A a \in Owners : a # r.owner => held'[a] = held[a]
    BY <1>1, <2>1 DEF TypeBook
  <2> QED
    BY <1>2, <2>1, <2>2, <2>3, <2>4 DEF NeverOverdrawn
<1>8. CASE CommitCapture(p)
  <2>1. PICK h \in Refs : h = op[p].ref
    BY <1>8, CommitFacts DEF CommitCapture
  <2>2. PICK o \in Owners, n \in Nat : o = holds[h].owner /\ n = holds[h].amount
    BY <1>8, <2>1, CaptureDoes DEF Frees
  <2>3. Shifts(o, Consumed, n)
    BY <1>8, <2>1, <2>2, CaptureDoes DEF Spends
  <2>4. Frees(h, "captured")
    BY <1>8, <2>1, CaptureDoes
  <2>5. held'[o] >= 0 /\ held'[o] = held[o] - n /\ \A a \in Owners : a # o => held'[a] = held[a]
    <3>1. held'[holds[h].owner] >= 0
      BY <1>1, <2>4, FreesReserved
    <3> QED
      BY <2>2, <2>4, <3>1 DEF Frees
  <2>6. balance'[o] = balance[o] - n /\ \A a \in Owners : a # o => balance'[a] = balance[a]
    BY <1>2, <2>3 DEF Shifts
  <2> QED
    BY <1>2, <2>5, <2>6 DEF NeverOverdrawn
<1>9. ASSUME NEW h \in Refs, Release(p, h) \/ SweepHold(p, h) PROVE NeverOverdrawn'
  <2>1. UNCHANGED <<opened, balance, transfers, lots, engine>>
    BY <1>9 DEF Release, SweepHold
  <2>2. CASE release_in(p, h)
    <3>1. Frees(h, "released")
      BY <2>1, <2>2, ReleaseDoes
    <3>2. PICK o \in Owners, n \in Nat : o = holds[h].owner /\ n = holds[h].amount
      BY <3>1 DEF Frees
    <3>3. held'[o] >= 0 /\ held'[o] = held[o] - n /\ \A a \in Owners : a # o => held'[a] = held[a]
      <4>1. held'[holds[h].owner] >= 0
        BY <1>1, <3>1, FreesReserved
      <4> QED
        BY <3>1, <3>2, <4>1 DEF Frees
    <3> QED
      BY <1>2, <2>1, <3>2, <3>3 DEF NeverOverdrawn
  <2> QED
    BY <1>3, <1>9, <2>1, <2>2 DEF Release, SweepHold
<1>10. CASE ExpireLot(p) \/ ExpireNothing(p) \/ ExpireAgain(p)
  <2>1. op[p].owner \in Owners /\ op[p].amount \in Nat /\ Expiry \in Systems
    BY <1>10, CommitFacts DEF ExpireLot, ExpireNothing, ExpireAgain, Systems
  <2>2. /\ held' = held
        /\ \/ balance' = balance
           \/ Shifts(op[p].owner, Expiry, op[p].amount) /\ available(op[p].owner) >= op[p].amount
    BY <1>10, ExpireDoes, ExpireNothingDoes, ExpireAgainDoes DEF Spends
  <2> QED
    BY <1>1, <1>3, <2>1, <2>2, SpendsAvailable
<1> QED
  BY <1>4, <1>5, <1>6, <1>7, <1>8, <1>9, <1>10 DEF Commits

-----------------------------------------------------------------------------
(* A hold is charged when it is captured.                                   *)

LEMMA ChargedStep ==
    ASSUME Base, CapturedIffCharged, NEW p \in Tasks, Quiet(p) \/ Commits(p)
    PROVE  CapturedIffCharged'
<1>1. TypeOK /\ TypeBook
  BY TypeParts DEF Base
<1>2. ASSUME holds' = holds, \A h \in Refs : transfers'[<<"capture", h>>] = transfers[<<"capture", h>>]
      PROVE  CapturedIffCharged'
  BY <1>2 DEF CapturedIffCharged, Taken
<1>3. CASE Quiet(p)
  BY <1>1, <1>2, <1>3, QuietBook
<1>4. CASE CommitTopUp(p) \/ CommitConsume(p) \/ ExpireLot(p)
  <2>1. PICK k \in {"call", "expire"} : \E a, b, n : Records(<<k, op[p].ref>>, a, b, n)
    BY <1>4, TopUpDoes, ConsumeDoes, ExpireDoes DEF Spends
  <2>2. holds' = holds
    BY <1>4, TopUpDoes, ConsumeDoes, ExpireDoes
  <2>3. \A h \in Refs : transfers'[<<"capture", h>>] = transfers[<<"capture", h>>]
    BY <2>1, Distinct DEF Records
  <2> QED
    BY <1>2, <2>2, <2>3
<1>5. CASE ExpireNothing(p) \/ ExpireAgain(p)
  BY <1>2, <1>5, ExpireNothingDoes, ExpireAgainDoes
<1>6. CASE CommitHold(p)
  <2>1. PICK r \in Operation, new \in Hold :
            /\ r.ref \in Refs /\ holds[r.ref] = Null /\ new.status = "held"
            /\ holds' = [holds EXCEPT ![r.ref] = new]
    BY <1>6, HoldDoes
  <2>2. transfers' = transfers
    BY <1>6, HoldDoes
  <2>3. holds'[r.ref] = new /\ \A h \in Refs : h # r.ref => holds'[h] = holds[h]
    BY <1>1, <2>1 DEF TypeBook
  <2>4. ~ Taken(<<"capture", r.ref>>)
    BY <2>1 DEF CapturedIffCharged
  <2> QED
    BY <2>1, <2>2, <2>3, <2>4 DEF CapturedIffCharged, Taken
<1>7. CASE CommitCapture(p)
  <2>1. PICK h \in Refs : h = op[p].ref
    BY <1>7, CommitFacts DEF CommitCapture
  <2>2. PICK a, b : Records(<<"capture", h>>, a, b, op[p].amount)
    BY <1>7, <2>1, CaptureDoes DEF Spends
  <2>3. Frees(h, "captured") /\ holds[h].amount = op[p].amount
    BY <1>7, <2>1, CaptureDoes
  <2>4. \A g \in Refs : g # h => transfers'[<<"capture", g>>] = transfers[<<"capture", g>>] /\ holds'[g] = holds[g]
    BY <2>2, <2>3, Distinct DEF Records, Frees
  <2>5. /\ transfers'[<<"capture", h>>] # Null /\ transfers'[<<"capture", h>>].amount = holds'[h].amount
        /\ holds'[h] # Null /\ holds'[h].status = "captured"
    BY <2>2, <2>3 DEF Records, Frees
  <2> QED
    BY <2>4, <2>5 DEF CapturedIffCharged, Taken
<1>8. ASSUME NEW h \in Refs, Release(p, h) \/ SweepHold(p, h) PROVE CapturedIffCharged'
  <2>1. UNCHANGED <<opened, balance, transfers, lots, engine>>
    BY <1>8 DEF Release, SweepHold
  <2>2. CASE release_in(p, h)
    <3>1. Frees(h, "released")
      BY <2>1, <2>2, ReleaseDoes
    <3>2. ~ Taken(<<"capture", h>>)
      BY <3>1 DEF CapturedIffCharged, Frees, IsHeld
    <3>3. holds'[h].status = "released" /\ \A g \in Refs : g # h => holds'[g] = holds[g]
      BY <3>1 DEF Frees
    <3> QED
      BY <2>1, <3>2, <3>3 DEF CapturedIffCharged, Taken
  <2> QED
    BY <1>2, <1>8, <2>1, <2>2 DEF Release, SweepHold
<1> QED
  BY <1>3, <1>4, <1>5, <1>6, <1>7, <1>8 DEF Commits

-----------------------------------------------------------------------------
(* The invariant holds.                                                     *)

LEMMA LedgerInit == Init => LedgerInv
<1> SUFFICES ASSUME Init PROVE LedgerInv
  OBVIOUS
<1>1. TypeOK
  <2>1. Empty \in View
    BY DEF Empty, View, Book
  <2> QED
    BY <2>1, LedgerConstants DEF Init, TypeOK, Book, PCs
<1>2. Exclusive
  BY DEF Init, Exclusive
<1>3. ASSUME NEW p \in Tasks PROVE TaskOK(p)
  <2>1. pc[p] = "idle" /\ op[p] = Null /\ lock[p] = {} /\ view[p] = Empty
    BY DEF Init
  <2>2. ShapeOK(p)
    BY <2>1 DEF ShapeOK, Resting
  <2>3. LocksOK(p) /\ FundsOK(p) /\ ClaimOK(p) /\ SerialOK(p)
    BY <2>1 DEF LocksOK, FundsOK, ClaimOK, SerialOK, InTransaction
  <2>4. LotsOK(p)
    BY <2>1 DEF LotsOK, Empty
  <2> QED
    BY <2>2, <2>3, <2>4 DEF TaskOK
<1>4. LotsRecorded
  BY Distinct DEF Init, LotsRecorded, Exists, Taken
<1>5. HeldIsReserved
  <2>1. ASSUME NEW o \in Owners PROVE held[o] = Sum(Amounts, Reserving(o))
    <3>1. Reserving(o) = {} /\ held[o] = 0
      BY DEF Init, Reserving, IsHeld
    <3> QED
      BY <3>1, SumOfNone
  <2> QED
    BY <2>1 DEF HeldIsReserved, Amounts
<1>6. NeverOverdrawn
  BY DEF Init, NeverOverdrawn, Accounts
<1>7. CapturedIffCharged
  BY Distinct DEF Init, CapturedIffCharged, Taken
<1> QED
  BY <1>1, <1>2, <1>3, <1>4, <1>5, <1>6, <1>7 DEF LedgerInv

LEMMA LedgerStep == LedgerInv /\ [Next]_vars => LedgerInv'
<1> SUFFICES ASSUME LedgerInv, [Next]_vars PROVE LedgerInv'
  OBVIOUS
<1>1. Base /\ HeldIsReserved /\ NeverOverdrawn /\ CapturedIffCharged /\ TypeOK
  BY DEF LedgerInv, Base
<1>2. ASSUME NEW p \in Tasks, Quiet(p) \/ Commits(p) PROVE LedgerInv'
  <2>1. TypeBook' /\ \A q \in Tasks : TaskOK(q)'
    <3>1. CASE Quiet(p)
      <4>1. TypeBook'
        BY <1>1, <3>1, QuietBook DEF TypeOK, TypeBook
      <4> QED
        BY <1>1, <3>1, <4>1, QuietOK
    <3> QED
      BY <1>1, <1>2, <3>1, CommitOK
  <2>2. TypeTask'
    BY <1>1, <1>2, TaskTypeStep DEF Base
  <2>3. TypeOK'
    BY <2>1, <2>2, TypeParts
  <2>4. Exclusive' /\ LotsRecorded'
    BY <1>1, <1>2, ExclusiveStep, LotsRecordedStep
  <2>5. HeldIsReserved' /\ NeverOverdrawn' /\ CapturedIffCharged'
    BY <1>1, <1>2, HeldStep, OverdrawnStep, ChargedStep
  <2> QED
    BY <2>1, <2>3, <2>4, <2>5 DEF LedgerInv
<1>3. CASE Tick \/ UNCHANGED vars
  <2>1. /\ UNCHANGED <<opened, balance, held, transfers, lots, holds, engine>>
        /\ UNCHANGED <<pc, op, view, lock, todo, swept, calls, faults>> /\ now' \in Nat
    BY <1>1, <1>3 DEF Tick, vars, book, task, TypeOK
  <2>2. TypeOK'
    BY <1>1, <2>1 DEF TypeOK
  <2>3. \A q \in Tasks : TaskOK(q)'
    BY <1>1, <2>1, StillOK DEF Base
  <2>4. Exclusive' /\ LotsRecorded'
    BY <1>1, <2>1 DEF Base, Exclusive, LotsRecorded, Exists, Taken
  <2>5. HeldIsReserved' /\ NeverOverdrawn' /\ CapturedIffCharged'
    BY <1>1, <2>1 DEF HeldIsReserved, Reserving, IsHeld, NeverOverdrawn, CapturedIffCharged, Taken
  <2> QED
    BY <2>2, <2>3, <2>4, <2>5 DEF LedgerInv
<1> QED
  BY <1>2, <1>3, NextIs

\* However calls, sweeps, aborts and retries interleave, the ledger keeps the
\* invariant: the row locks that a transaction has taken protect what it has
\* checked until it commits.
THEOREM LedgerSafety == Spec => []LedgerInv
<1>1. Init => LedgerInv
  BY LedgerInit
<1>2. LedgerInv /\ [Next]_vars => LedgerInv'
  BY LedgerStep
<1> QED
  BY <1>1, <1>2, PTL DEF Spec

\* Every row and every task keeps the form the code gives it.
THEOREM LedgerTypes == Spec => []TypeOK
<1>1. LedgerInv => TypeOK
  BY DEF LedgerInv
<1> QED
  BY <1>1, LedgerSafety, PTL

\* An account's `held' is the sum of its open holds: capture, release and the
\* sweep each give a reservation back exactly once, whichever of them wins.
THEOREM HeldMatchesHolds == Spec => []HeldIsReserved
<1>1. LedgerInv => HeldIsReserved
  BY DEF LedgerInv
<1> QED
  BY <1>1, LedgerSafety, PTL

\* No owner's holds exceed the owner's balance and no balance is negative,
\* though capture debits with no guard and the sweep debits what it read earlier.
THEOREM NobodyOverdraws == Spec => []NeverOverdrawn
<1>1. LedgerInv => NeverOverdrawn
  BY DEF LedgerInv
<1> QED
  BY <1>1, LedgerSafety, PTL

\* A hold has a transfer exactly when it was captured, and for its own amount.
THEOREM ChargesMatchCaptures == Spec => []CapturedIffCharged
<1>1. LedgerInv => CapturedIffCharged
  BY DEF LedgerInv
<1> QED
  BY <1>1, LedgerSafety, PTL

-----------------------------------------------------------------------------
(* The book balances.                                                       *)

\* A step moves money from one account to another under a new reference, or
\* moves none; MySQL's second expiry of a lot moves it under none.
Pays(k, a, b, n) ==
    /\ k \in Keys /\ a \in Accounts /\ b \in Accounts /\ n \in Nat /\ a # b
    /\ Shifts(a, b, n) /\ Records(k, a, b, n)

LEMMA StepPays ==
    ASSUME LedgerInv, [Next]_vars
    PROVE  /\ engine' = engine
           /\ \/ UNCHANGED <<balance, transfers>>
              \/ \E k, a, b, n : Pays(k, a, b, n)
              \/ /\ engine = "mysql" /\ transfers' = transfers
                 /\ \E a, b \in Accounts : \E n \in Nat : a # b /\ Shifts(a, b, n)
<1>1. Base /\ TypeOK
  BY DEF LedgerInv, Base
<1>2. CASE Tick \/ UNCHANGED vars
  BY <1>2 DEF Tick, vars, book
<1>3. ASSUME NEW p \in Tasks, Quiet(p) PROVE UNCHANGED <<balance, transfers, engine>>
  BY <1>1, <1>3, QuietBook
<1>4. ASSUME NEW p \in Tasks, CommitTopUp(p) PROVE engine' = engine /\ \E k, a, b, n : Pays(k, a, b, n)
  <2>1. PICK r \in Operation : /\ r.ref \in Refs /\ r.owner \in Owners /\ r.amount \in Nat
                               /\ Shifts(Topup, r.owner, r.amount)
                               /\ Records(<<"call", r.ref>>, Topup, r.owner, r.amount)
    BY <1>1, <1>4, TopUpDoes
  <2>2. Pays(<<"call", r.ref>>, Topup, r.owner, r.amount)
    BY <2>1, Distinct DEF Pays, Accounts
  <2> QED
    BY <1>1, <1>4, <2>2, TopUpDoes DEF Orderly
<1>5. ASSUME NEW p \in Tasks, CommitConsume(p) \/ CommitCapture(p) \/ ExpireLot(p)
      PROVE  engine' = engine /\ \E k, a, b, n : Pays(k, a, b, n)
  <2>1. op[p].ref \in Refs /\ op[p].owner \in Owners /\ op[p].amount \in Nat
    BY <1>1, <1>5, CommitFacts DEF CommitConsume, CommitCapture, ExpireLot
  <2>2. PICK j \in {"call", "capture", "expire"}, to \in {Consumed, Expiry} :
            Spends(p, op[p], <<j, op[p].ref>>, to)
    BY <1>1, <1>5, ConsumeDoes, CaptureDoes, ExpireDoes
  <2>3. Pays(<<j, op[p].ref>>, op[p].owner, to, op[p].amount)
    BY <2>1, <2>2, Distinct DEF Pays, Spends, Accounts
  <2> QED
    BY <1>1, <1>5, <2>3, ConsumeDoes, CaptureDoes, ExpireDoes DEF Orderly
<1>6. ASSUME NEW p \in Tasks, CommitHold(p) \/ ExpireNothing(p) PROVE UNCHANGED <<balance, transfers, engine>>
  BY <1>1, <1>6, HoldDoes, ExpireNothingDoes DEF Orderly
<1>7. ASSUME NEW p \in Tasks, NEW h \in Refs, Release(p, h) \/ SweepHold(p, h)
      PROVE  UNCHANGED <<balance, transfers, engine>>
  BY <1>7 DEF Release, SweepHold
<1>8. ASSUME NEW p \in Tasks, ExpireAgain(p)
      PROVE  /\ engine' = engine /\ transfers' = transfers
             /\ \/ balance' = balance
                \/ engine = "mysql" /\ \E a, b \in Accounts : \E n \in Nat : a # b /\ Shifts(a, b, n)
  <2>1. engine \in {"postgres", "mysql", "sqlite"}
    BY <1>1, LedgerConstants DEF TypeOK
  <2>2. op[p].owner \in Owners /\ op[p].amount \in Nat
    BY <1>1, <1>8, CommitFacts DEF ExpireAgain
  <2> QED
    BY <1>1, <1>8, <2>1, <2>2, ExpireAgainDoes, Distinct DEF Orderly, Accounts
<1> QED
  BY <1>2, <1>3, <1>4, <1>5, <1>6, <1>7, <1>8, NextIs DEF Commits

\* Moving value between two accounts keeps the total.
LEMMA ShiftKeepsSum ==
    ASSUME balance \in [Accounts -> Int], balance' \in [Accounts -> Int],
           NEW a \in Accounts, NEW b \in Accounts, NEW n \in Nat, a # b, Shifts(a, b, n)
    PROVE  Sum(balance', Accounts) = Sum(balance, Accounts)
<1>1. PICK f \in [Accounts -> Int] : f = balance
  OBVIOUS
<1>2. PICK g \in [Accounts -> Int] : g = balance'
  OBVIOUS
<1>3. PICK mid \in [Accounts -> Int] : mid = [f EXCEPT ![a] = f[a] - n]
  <2>1. f[a] - n \in Int
    OBVIOUS
  <2>2. [f EXCEPT ![a] = f[a] - n] \in [Accounts -> Int]
    BY <2>1
  <2> QED
    BY <2>2
<1>4. /\ mid[a] = f[a] - n /\ mid[b] = f[b]
      /\ g[a] = f[a] - n /\ g[b] = f[b] + n
  BY <1>1, <1>2, <1>3 DEF Shifts
<1>5. /\ \A c \in Accounts : c # a => mid[c] = f[c]
      /\ \A c \in Accounts : c # b => g[c] = mid[c]
  BY <1>1, <1>2, <1>3 DEF Shifts
<1>6. IsFiniteSet(Accounts) /\ mid[a] \in Int /\ g[b] \in Int
      /\ \A c \in Accounts : f[c] \in Int /\ mid[c] \in Int
  BY <1>1, <1>2, <1>3, FiniteBook
<1>7. Sum(mid, Accounts) = Sum(f, Accounts) - f[a] + mid[a]
  BY <1>5, <1>6, SumChange
<1>8. Sum(g, Accounts) = Sum(mid, Accounts) - mid[b] + g[b]
  BY <1>5, <1>6, SumChange
<1>9. Sum(f, Accounts) \in Int
  BY <1>6, SumIsInt
<1>10. Sum(g, Accounts) = Sum(f, Accounts)
  BY <1>4, <1>6, <1>7, <1>8, <1>9
<1> QED
  BY <1>1, <1>2, <1>10

\* An account's entries, with those of a new transfer.
EntryAmounts == [k \in Keys |-> transfers[k].amount]

LEMMA EntryTypes ==
    ASSUME transfers \in [Keys -> Transfer \cup {Null}], NEW a
    PROVE  /\ Into(a) \subseteq Keys /\ OutOf(a) \subseteq Keys
           /\ IsFiniteSet(Into(a)) /\ IsFiniteSet(OutOf(a))
           /\ \A k \in Into(a) \cup OutOf(a) : EntryAmounts[k] \in Nat
           /\ EntryTotal(a) = Sum(EntryAmounts, Into(a)) - Sum(EntryAmounts, OutOf(a))
<1>1. Into(a) \subseteq Keys /\ OutOf(a) \subseteq Keys
  BY DEF Into, OutOf
<1>2. IsFiniteSet(Into(a)) /\ IsFiniteSet(OutOf(a))
  BY <1>1, FiniteBook, FS_Subset
<1>3. ASSUME NEW k \in Into(a) \cup OutOf(a) PROVE EntryAmounts[k] \in Nat
  <2>1. k \in Keys /\ transfers[k] \in Transfer
    BY DEF Into, OutOf, Taken
  <2> QED
    BY <2>1 DEF EntryAmounts, Transfer
<1>4. EntryTotal(a) = Sum(EntryAmounts, Into(a)) - Sum(EntryAmounts, OutOf(a))
  BY DEF EntryTotal, EntryAmounts
<1> QED
  BY <1>1, <1>2, <1>3, <1>4

LEMMA PaysEntries ==
    ASSUME transfers \in [Keys -> Transfer \cup {Null}], transfers' \in [Keys -> Transfer \cup {Null}],
           NEW k, NEW a, NEW b, NEW n, Pays(k, a, b, n), NEW c \in Accounts
    PROVE  /\ EntryTotal(c) \in Int
           /\ EntryTotal(c)' = EntryTotal(c) + (IF c = b THEN n ELSE 0) - (IF c = a THEN n ELSE 0)
<1>1. /\ k \in Keys /\ n \in Nat /\ a # b /\ transfers[k] = Null /\ transfers'[k] # Null
      /\ transfers'[k].from = a /\ transfers'[k].to = b /\ transfers'[k].amount = n
      /\ \A j \in Keys : j # k => transfers'[j] = transfers[j]
  BY DEF Pays, Records
<1>2. PICK f : f = EntryAmounts
  OBVIOUS
<1>3. PICK g : g = EntryAmounts'
  OBVIOUS
<1>4. PICK I, O : I = Into(c) /\ O = OutOf(c)
  OBVIOUS
<1>5. PICK I2, O2 : I2 = Into(c)' /\ O2 = OutOf(c)'
  OBVIOUS
<1>6. /\ IsFiniteSet(I) /\ IsFiniteSet(O) /\ I \subseteq Keys /\ O \subseteq Keys
      /\ (\A j \in I : f[j] \in Nat) /\ (\A j \in O : f[j] \in Nat)
      /\ EntryTotal(c) = Sum(f, I) - Sum(f, O)
  BY <1>2, <1>4, EntryTypes
<1>7. EntryTotal(c)' = Sum(g, I2) - Sum(g, O2)
  BY <1>3, <1>5 DEF EntryTotal, EntryAmounts
<1>8. k \notin I /\ k \notin O
  BY <1>1, <1>4 DEF Into, OutOf, Taken
<1>9. I2 = (IF c = b THEN I \cup {k} ELSE I) /\ O2 = (IF c = a THEN O \cup {k} ELSE O)
  BY <1>1, <1>4, <1>5 DEF Into, OutOf, Taken
<1>10. g[k] = n /\ \A j \in Keys : j # k => g[j] = f[j]
  BY <1>1, <1>2, <1>3 DEF EntryAmounts
<1>11. /\ \A j \in I : f[j] \in Int /\ g[j] = f[j]
       /\ \A j \in O : f[j] \in Int /\ g[j] = f[j]
  BY <1>6, <1>8, <1>10
<1>12. g[k] \in Int
  BY <1>1, <1>10
<1>13. Sum(g, I2) = Sum(f, I) + (IF c = b THEN n ELSE 0) /\ Sum(f, I) \in Int
  <2>1. IsFiniteSet(I) /\ k \notin I /\ \A j \in I : f[j] \in Int /\ g[j] = f[j]
    BY <1>6, <1>8, <1>11
  <2>2. Sum(f, I) \in Int
    BY <2>1, SumIsInt
  <2>3. CASE c = b
    <3>1. I2 = I \cup {k}
      BY <1>9, <2>3
    <3>2. Sum(g, I2) = Sum(f, I) + g[k]
      BY <1>12, <2>1, <3>1, SumJoin
    <3> QED
      BY <1>10, <2>2, <2>3, <3>2
  <2>4. CASE c # b
    <3>1. I2 = I /\ Sum(g, I) = Sum(f, I)
      BY <1>9, <2>1, <2>4, SumSame
    <3> QED
      BY <2>2, <2>4, <3>1
  <2> QED
    BY <2>3, <2>4
<1>14. Sum(g, O2) = Sum(f, O) + (IF c = a THEN n ELSE 0) /\ Sum(f, O) \in Int
  <2>1. IsFiniteSet(O) /\ k \notin O /\ \A j \in O : f[j] \in Int /\ g[j] = f[j]
    BY <1>6, <1>8, <1>11
  <2>2. Sum(f, O) \in Int
    BY <2>1, SumIsInt
  <2>3. CASE c = a
    <3>1. O2 = O \cup {k}
      BY <1>9, <2>3
    <3>2. Sum(g, O2) = Sum(f, O) + g[k]
      BY <1>12, <2>1, <3>1, SumJoin
    <3> QED
      BY <1>10, <2>2, <2>3, <3>2
  <2>4. CASE c # a
    <3>1. O2 = O /\ Sum(g, O) = Sum(f, O)
      BY <1>9, <2>1, <2>4, SumSame
    <3> QED
      BY <2>2, <2>4, <3>1
  <2> QED
    BY <2>3, <2>4
<1> QED
  BY <1>1, <1>6, <1>7, <1>10, <1>13, <1>14

LEMMA BookInit == Init => BookBalances
<1> SUFFICES ASSUME Init PROVE BookBalances
  OBVIOUS
<1>1. Sum(balance, Accounts) = 0
  BY FiniteBook, SumOfZeros DEF Init
<1>2. ASSUME NEW a \in Accounts PROVE balance[a] = EntryTotal(a)
  <2>1. transfers \in [Keys -> Transfer \cup {Null}] /\ Into(a) = {} /\ OutOf(a) = {} /\ balance[a] = 0
    BY DEF Init, Into, OutOf, Taken
  <2>2. EntryTotal(a) = Sum(EntryAmounts, {}) - Sum(EntryAmounts, {})
    BY <2>1, EntryTypes
  <2> QED
    BY <2>1, <2>2, SumOfNone
<1> QED
  BY <1>1, <1>2 DEF BookBalances

\* The total stays zero on every engine; the entries may lag on MySQL alone.
BookKept == Sum(balance, Accounts) = 0 /\ (engine # "mysql" => BookBalances)

LEMMA BookStep == LedgerInv /\ LedgerInv' /\ BookKept /\ [Next]_vars => BookKept'
<1> SUFFICES ASSUME LedgerInv, LedgerInv', BookKept, [Next]_vars PROVE BookKept'
  OBVIOUS
<1>1. /\ balance \in [Accounts -> Int] /\ transfers \in [Keys -> Transfer \cup {Null}]
      /\ balance' \in [Accounts -> Int] /\ transfers' \in [Keys -> Transfer \cup {Null}]
  BY DEF LedgerInv, TypeOK
<1>2. engine' = engine
  BY StepPays
<1>3. CASE UNCHANGED <<balance, transfers>>
  BY <1>2, <1>3 DEF BookKept, BookBalances, EntryTotal, Into, OutOf, Taken
<1>4. CASE \E k, a, b, n : Pays(k, a, b, n)
  <2>1. PICK k, a, b, n : Pays(k, a, b, n)
    BY <1>4
  <2>2. a \in Accounts /\ b \in Accounts /\ n \in Nat /\ a # b /\ Shifts(a, b, n)
    BY <2>1 DEF Pays
  <2>3. Sum(balance', Accounts) = 0
    BY <1>1, <2>2, ShiftKeepsSum DEF BookKept
  <2>4. ASSUME engine # "mysql", NEW c \in Accounts PROVE balance'[c] = EntryTotal(c)'
    <3>1. /\ EntryTotal(c) \in Int
          /\ EntryTotal(c)' = EntryTotal(c) + (IF c = b THEN n ELSE 0) - (IF c = a THEN n ELSE 0)
      BY <1>1, <2>1, PaysEntries
    <3>2. balance[c] = EntryTotal(c)
      BY <2>4 DEF BookKept, BookBalances
    <3>3. balance'[c] = balance[c] + (IF c = b THEN n ELSE 0) - (IF c = a THEN n ELSE 0)
      BY <1>1, <2>2 DEF Shifts
    <3> QED
      BY <3>1, <3>2, <3>3
  <2> QED
    BY <1>2, <2>3, <2>4 DEF BookKept, BookBalances
<1>5. CASE engine = "mysql" /\ \E a, b \in Accounts : \E n \in Nat : a # b /\ Shifts(a, b, n)
  BY <1>1, <1>2, <1>5, ShiftKeepsSum DEF BookKept
<1> QED
  BY <1>3, <1>4, <1>5, StepPays

\* audit's claims, for any number of accounts, calls and sweeps.  The balances
\* sum to zero on every engine, and on PostgreSQL and SQLite each balance is
\* the sum of its entries.  On MySQL a second sweep that expires the same lot
\* moves credits without recording them (ExpireAgain), so nothing is claimed there.
THEOREM BooksBalance == Spec => [](Sum(balance, Accounts) = 0 /\ (engine # "mysql" => BookBalances))
<1>1. Init => BookKept
  BY BookInit DEF BookKept, BookBalances
<1>2. LedgerInv /\ LedgerInv' /\ BookKept /\ [Next]_vars => BookKept'
  BY BookStep
<1>3. BookKept <=> Sum(balance, Accounts) = 0 /\ (engine # "mysql" => BookBalances)
  BY DEF BookKept
<1> QED
  BY <1>1, <1>2, <1>3, LedgerSafety, PTL DEF Spec

-----------------------------------------------------------------------------
(* Lots are covered where transactions run one at a time.                   *)

LEMMA LotSums ==
    ASSUME lots \in Book, NEW o \in Owners
    PROVE  /\ OwnersLots(o) \subseteq Refs /\ IsFiniteSet(OwnersLots(o))
           /\ \A l \in Refs : Rest(lots)[l] \in Nat
           /\ InLots(o) = Sum(Rest(lots), OwnersLots(o)) /\ InLots(o) \in Nat
<1>1. OwnersLots(o) \subseteq Refs /\ IsFiniteSet(OwnersLots(o))
  BY FiniteBook, FS_Subset DEF OwnersLots
<1>2. \A l \in Refs : Rest(lots)[l] \in Nat
  BY RestIs
<1>3. InLots(o) = Sum(Rest(lots), OwnersLots(o))
  BY DEF InLots, Rest, InLot, Exists
<1>4. PICK S, f : S = OwnersLots(o) /\ f = Rest(lots)
  OBVIOUS
<1>5. IsFiniteSet(S) /\ \A x \in S : f[x] \in Nat
  BY <1>1, <1>2, <1>4
<1>6. Sum(f, S) \in Nat
  BY <1>5, SumOfNats
<1> QED
  BY <1>1, <1>2, <1>3, <1>4, <1>6

\* The lots of an owner none of whose lots changed.
LEMMA SameLots ==
    ASSUME lots \in Book, lots' \in Book, NEW o \in Owners, OwnersLots(o)' = OwnersLots(o),
           \A l \in OwnersLots(o) : lots'[l] = lots[l]
    PROVE  InLots(o)' = InLots(o)
<1>1. PICK S : S = OwnersLots(o)
  OBVIOUS
<1>2. PICK f, g : f = Rest(lots) /\ g = Rest(lots')
  OBVIOUS
<1>3. IsFiniteSet(S) /\ S \subseteq Refs /\ (\A l \in Refs : f[l] \in Nat) /\ InLots(o) = Sum(f, S)
  BY <1>1, <1>2, LotSums
<1>4. InLots(o)' = Sum(g, S)
  BY <1>1, <1>2 DEF InLots, Rest, InLot, Exists
<1>5. \A l \in S : g[l] = f[l]
  BY <1>1, <1>2, <1>3 DEF Rest
<1>6. \A l \in S : f[l] \in Int /\ g[l] = f[l]
  BY <1>3, <1>5
<1>7. Sum(g, S) = Sum(f, S)
  BY <1>3, <1>6, SumSame
<1> QED
  BY <1>3, <1>4, <1>7

LEMMA TopUpCovered ==
    ASSUME Base, LotsCovered, NEW p \in Tasks, CommitTopUp(p)
    PROVE  LotsCovered'
<1>1. lots \in Book /\ balance \in [Accounts -> Int] /\ lots' \in Book
  BY TopUpDoes DEF Base, TypeOK, Orderly, TypeBook
<1>2. PICK r \in Operation, new \in Lot :
          /\ r.ref \in Refs /\ r.owner \in Owners /\ r.amount \in Nat
          /\ Shifts(Topup, r.owner, r.amount)
          /\ lots[r.ref] = Null /\ new # Null /\ new.owner = r.owner /\ new.remaining = r.amount
          /\ lots' = [lots EXCEPT ![r.ref] = new]
  BY TopUpDoes
<1>3. lots'[r.ref] = new /\ \A l \in Refs : l # r.ref => lots'[l] = lots[l]
  BY <1>1, <1>2 DEF Book
<1>4. \A o \in Owners : /\ balance[o] \in Int /\ InLots(o) <= balance[o] /\ InLots(o) \in Nat
                        /\ balance'[o] = balance[o] + (IF o = r.owner THEN r.amount ELSE 0)
  BY <1>1, <1>2, LotSums, Distinct DEF LotsCovered, Shifts, Accounts
<1>5. ASSUME NEW o \in Owners PROVE InLots(o)' <= balance'[o]
  <2>1. OwnersLots(o)' = (IF o = r.owner THEN OwnersLots(o) \cup {r.ref} ELSE OwnersLots(o))
    BY <1>2, <1>3 DEF OwnersLots, Exists
  <2>2. r.ref \notin OwnersLots(o)
    BY <1>2 DEF OwnersLots, Exists
  <2>3. CASE o # r.owner
    <3>1. OwnersLots(o)' = OwnersLots(o) /\ \A l \in OwnersLots(o) : lots'[l] = lots[l]
      BY <1>3, <2>1, <2>2, <2>3 DEF OwnersLots
    <3>2. InLots(o)' = InLots(o)
      BY <1>1, <3>1, SameLots
    <3> QED
      BY <1>4, <2>3, <3>2
  <2>4. CASE o = r.owner
    <3>1. PICK S, U, l : S = OwnersLots(o) /\ U = OwnersLots(o)' /\ l = r.ref
      OBVIOUS
    <3>2. PICK f, g : f = Rest(lots) /\ g = Rest(lots')
      OBVIOUS
    <3>3. IsFiniteSet(S) /\ S \subseteq Refs /\ (\A x \in Refs : f[x] \in Nat) /\ InLots(o) = Sum(f, S)
      BY <1>1, <3>1, <3>2, LotSums
    <3>4. InLots(o)' = Sum(g, U)
      BY <3>1, <3>2 DEF InLots, Rest, InLot, Exists
    <3>5. \A x \in S : g[x] = f[x]
      BY <1>3, <2>2, <3>1, <3>2, <3>3 DEF Rest
    <3>6. g[l] = r.amount
      BY <1>2, <1>3, <3>1, <3>2 DEF Rest
    <3>7. l \notin S /\ g[l] \in Int /\ U = S \cup {l} /\ \A x \in S : f[x] \in Int /\ g[x] = f[x]
      BY <1>2, <2>1, <2>2, <2>4, <3>1, <3>3, <3>5, <3>6
    <3>8. IsFiniteSet(S)
      BY <3>3
    <3>9. Sum(g, U) = Sum(f, S) + g[l]
      BY <3>7, <3>8, SumJoin
    <3> QED
      BY <1>2, <1>4, <2>4, <3>3, <3>4, <3>6, <3>9
  <2> QED
    BY <2>3, <2>4
<1> QED
  BY <1>5 DEF LotsCovered

\* consume and capture: the draw takes from the owner's lots what the account
\* loses, or all there is in them.
LEMMA DrawCovered ==
    ASSUME Base, LotsCovered, NeverOverdrawn', engine = "sqlite", NEW p \in Tasks,
           CommitConsume(p) \/ CommitCapture(p)
    PROVE  LotsCovered'
<1>1. pc[p] = "commit" /\ op[p].kind \in {"Consume", "Capture"}
  BY DEF CommitConsume, CommitCapture
<1>2. lots \in Book /\ balance \in [Accounts -> Int] /\ TypeOK'
      /\ Shrinks /\ view[p].lots = lots /\ Shifts(op[p].owner, Consumed, op[p].amount)
      /\ lots' = draw_lots(view[p].lots, op[p].owner, op[p].amount)
  <2>1. Shrinks /\ Shifts(op[p].owner, Consumed, op[p].amount)
        /\ lots' = draw_lots(view[p].lots, op[p].owner, op[p].amount)
    BY ConsumeDoes, CaptureDoes DEF Spends
  <2>2. view[p].lots = lots
    BY <1>1, CommitFacts DEF SerialOK
  <2>3. TypeOK'
    <3>1. Commits(p)
      BY DEF Commits
    <3> QED
      BY <3>1, CommitOK, TaskTypeStep, TypeParts DEF Base
  <2> QED
    BY <2>1, <2>2, <2>3 DEF Base, TypeOK
<1>3. PICK a \in Owners, n \in Nat : a = op[p].owner /\ n = op[p].amount
  BY <1>1, CommitFacts
<1>4. lots' = draw_lots(lots, a, n) /\ Shifts(a, Consumed, n) /\ lots' \in Book
  BY <1>2, <1>3 DEF Shrinks
<1>5. /\ \A l \in Refs : (lots[l] # Null /\ lots[l].owner # a) => lots'[l] = lots[l]
      /\ InLots(a) \in Nat
      /\ Sum(Rest(lots'), OwnersLots(a)) = IF n <= InLots(a) THEN InLots(a) - n ELSE 0
  BY <1>2, <1>4, DrawTakes
<1>6. \A o \in Owners : OwnersLots(o)' = OwnersLots(o)
  BY <1>2 DEF Shrinks, OwnersLots, Exists
<1>7. \A o \in Owners : /\ balance[o] \in Int /\ InLots(o) <= balance[o] /\ InLots(o) \in Nat
                        /\ balance'[o] = balance[o] - (IF o = a THEN n ELSE 0)
                        /\ balance'[o] \in Int /\ balance'[o] >= 0
  <2>1. \A o \in Owners : balance[o] \in Int /\ InLots(o) <= balance[o] /\ InLots(o) \in Nat
    BY <1>2, LotSums DEF LotsCovered, Accounts
  <2>2. \A o \in Owners : balance'[o] = balance[o] - (IF o = a THEN n ELSE 0)
    BY <1>3, <1>4, <2>1, Distinct DEF Shifts, Accounts
  <2>3. \A o \in Owners : balance'[o] \in Int /\ held'[o] \in Int
    BY <1>2 DEF TypeOK, Accounts
  <2> QED
    BY <2>1, <2>2, <2>3 DEF NeverOverdrawn
<1>8. ASSUME NEW o \in Owners PROVE InLots(o)' <= balance'[o]
  <2>1. CASE o = a
    <3>1. InLots(o)' = Sum(Rest(lots'), OwnersLots(o)')
      BY DEF InLots, Rest, InLot, Exists
    <3>2. InLots(o)' = IF n <= InLots(a) THEN InLots(a) - n ELSE 0
      BY <1>5, <1>6, <2>1, <3>1
    <3> QED
      BY <1>5, <1>7, <2>1, <3>2
  <2>2. CASE o # a
    <3>1. \A l \in OwnersLots(o) : lots'[l] = lots[l]
      BY <1>5, <2>2 DEF OwnersLots, Exists
    <3>2. InLots(o)' = InLots(o)
      BY <1>2, <1>4, <1>6, <3>1, SameLots
    <3> QED
      BY <1>7, <2>2, <3>2
  <2> QED
    BY <2>1, <2>2
<1> QED
  BY <1>8 DEF LotsCovered

\* The sweep empties a lot and takes at most what was in it.
LEMMA ExpireCovered ==
    ASSUME Base, LotsCovered, engine = "sqlite", NEW p \in Tasks, ExpireLot(p) \/ ExpireNothing(p)
    PROVE  LotsCovered'
<1>1. pc[p] = "expire"
  BY DEF ExpireLot, ExpireNothing
<1>2. /\ lots \in Book /\ balance \in [Accounts -> Int] /\ LotsOK(p) /\ SerialOK(p)
      /\ op[p].amount \in Nat /\ op[p].owner \in Owners /\ op[p].ref \in Refs
  BY <1>1, CommitFacts DEF TypeBook
<1>3. PICK a \in Owners, n \in Nat, l \in Refs : a = op[p].owner /\ n = op[p].amount /\ l = op[p].ref
  BY <1>2
<1>4. Empties(l) /\ lots[l].owner = a /\ n <= lots[l].remaining /\ lots[l].remaining \in Nat
  <2>1. Empties(l)
    BY <1>3, ExpireDoes, ExpireNothingDoes
  <2>2. lots[l].owner = a /\ n <= lots[l].remaining
    BY <1>1, <1>2, <1>3 DEF LotsOK, SerialOK
  <2>3. lots[l].remaining \in Nat
    BY <1>2, <2>1 DEF Empties, Book, Lot
  <2> QED
    BY <2>1, <2>2, <2>3
<1>5. balance' = balance \/ Shifts(a, Expiry, n)
  BY <1>3, ExpireDoes, ExpireNothingDoes DEF Spends
<1>6. /\ lots' \in Book /\ lots[l] # Null /\ lots'[l] # Null /\ lots'[l].remaining = 0
      /\ lots'[l].owner = a /\ \A m \in Refs : m # l => lots'[m] = lots[m]
  BY <1>4 DEF Empties
<1>7. \A o \in Owners : OwnersLots(o)' = OwnersLots(o)
  BY <1>4, <1>6 DEF OwnersLots, Exists
<1>8. \A o \in Owners : /\ balance[o] \in Int /\ InLots(o) <= balance[o] /\ InLots(o) \in Nat
                        /\ o # a => balance'[o] = balance[o]
                        /\ o = a => balance'[o] = balance[o] \/ balance'[o] = balance[o] - n
  <2>1. \A o \in Owners : balance[o] \in Int /\ InLots(o) <= balance[o] /\ InLots(o) \in Nat
    BY <1>2, LotSums DEF LotsCovered, Accounts
  <2>2. \A o \in Owners : o # a => balance'[o] = balance[o]
    BY <1>5, Distinct DEF Shifts, Accounts
  <2> QED
    BY <1>5, <2>1, <2>2 DEF Shifts
<1>9. ASSUME NEW o \in Owners PROVE InLots(o)' <= balance'[o]
  <2>1. CASE o # a
    <3>1. \A m \in OwnersLots(o) : lots'[m] = lots[m]
      BY <1>4, <1>6, <2>1 DEF OwnersLots
    <3>2. InLots(o)' = InLots(o)
      BY <1>2, <1>6, <1>7, <3>1, SameLots
    <3> QED
      BY <1>8, <2>1, <3>2
  <2>2. CASE o = a
    <3>1. PICK S : S = OwnersLots(o)
      OBVIOUS
    <3>2. PICK f, g : f = Rest(lots) /\ g = Rest(lots')
      OBVIOUS
    <3>3. IsFiniteSet(S) /\ S \subseteq Refs /\ (\A x \in Refs : f[x] \in Nat) /\ InLots(o) = Sum(f, S)
      BY <1>2, <3>1, <3>2, LotSums
    <3>4. InLots(o)' = Sum(g, S)
      BY <1>7, <3>1, <3>2 DEF InLots, Rest, InLot, Exists
    <3>5. l \in S
      BY <1>4, <1>6, <2>2, <3>1 DEF OwnersLots, Exists
    <3>6. f[l] = lots[l].remaining /\ g[l] = 0 /\ \A x \in S : x # l => g[x] = f[x]
      BY <1>6, <3>2, <3>3 DEF Rest
    <3>7. \A x \in S : f[x] \in Int
      BY <3>3
    <3>8. IsFiniteSet(S) /\ g[l] \in Int /\ \A x \in S : x # l => g[x] = f[x]
      BY <3>3, <3>6
    <3>9. Sum(g, S) = Sum(f, S) - f[l] + g[l]
      BY <3>5, <3>7, <3>8, SumChange
    <3>10. InLots(o)' = InLots(o) - lots[l].remaining
      BY <1>4, <1>8, <3>3, <3>4, <3>6, <3>9
    <3> QED
      BY <1>4, <1>8, <2>2, <3>10
  <2> QED
    BY <2>1, <2>2
<1> QED
  BY <1>9 DEF LotsCovered

LEMMA CoveredStep == LedgerInv /\ LedgerInv' /\ LotsCoveredSerially /\ [Next]_vars => LotsCoveredSerially'
<1> SUFFICES ASSUME LedgerInv, LedgerInv', LotsCoveredSerially, [Next]_vars, engine' = "sqlite"
             PROVE  LotsCovered'
  BY DEF LotsCoveredSerially
<1>1. Base /\ TypeOK /\ NeverOverdrawn'
  BY DEF LedgerInv, Base
<1>2. engine = "sqlite" /\ LotsCovered
  BY StepPays DEF LotsCoveredSerially
<1>3. ASSUME UNCHANGED <<lots, balance>> PROVE LotsCovered'
  BY <1>2, <1>3 DEF LotsCovered, InLots, InLot, OwnersLots, Exists
<1>4. CASE Tick \/ UNCHANGED vars
  BY <1>3, <1>4 DEF Tick, vars, book
<1>5. ASSUME NEW p \in Tasks, Quiet(p) PROVE LotsCovered'
  BY <1>1, <1>3, <1>5, QuietBook
<1>6. ASSUME NEW p \in Tasks, Commits(p) PROVE LotsCovered'
  <2>1. CASE CommitHold(p)
    BY <1>1, <1>3, <2>1, HoldDoes
  <2>2. CASE \E h \in Refs : Release(p, h) \/ SweepHold(p, h)
    BY <1>3, <2>2 DEF Release, SweepHold
  <2>3. CASE CommitTopUp(p)
    BY <1>1, <1>2, <2>3, TopUpCovered
  <2>4. CASE CommitConsume(p) \/ CommitCapture(p)
    BY <1>1, <1>2, <2>4, DrawCovered
  <2>5. CASE ExpireLot(p) \/ ExpireNothing(p)
    BY <1>1, <1>2, <2>5, ExpireCovered
  <2>6. CASE ExpireAgain(p)
    BY <1>1, <1>2, <2>6, ExpireAgainDoes
  <2> QED
    BY <1>6, <2>1, <2>2, <2>3, <2>4, <2>5, <2>6 DEF Commits
<1> QED
  BY <1>4, <1>5, <1>6, NextIs

\* On SQLite, whose transactions run one at a time, an owner's lots never hold
\* more than the owner's balance: the draw takes what the debit takes, and the
\* sweep never debits more than was left in the lot it empties.
THEOREM LotsStayCovered == Spec => []LotsCoveredSerially
<1>1. Init => LotsCoveredSerially
  <2> SUFFICES ASSUME Init, NEW o \in Owners PROVE InLots(o) <= balance[o]
    BY DEF LotsCoveredSerially, LotsCovered
  <2>1. OwnersLots(o) = {} /\ balance[o] = 0
    BY DEF Init, OwnersLots, Exists, Accounts
  <2>2. InLots(o) = 0
    BY <2>1, SumOfNone DEF InLots
  <2> QED
    BY <2>1, <2>2
<1>2. LedgerInv /\ LedgerInv' /\ LotsCoveredSerially /\ [Next]_vars => LotsCoveredSerially'
  BY CoveredStep
<1> QED
  BY <1>1, <1>2, LedgerSafety, PTL DEF Spec
=============================================================================
