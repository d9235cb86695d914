---------------------------- MODULE OrderProofs ----------------------------
(***************************************************************************)
(* Nothing runs before what it depends on.  The planner orders by level,   *)
(* so the levels that the index computes have to rise along every edge of  *)
(* an acyclic index, which is proved first.                                *)
(***************************************************************************)
EXTENDS PromiseProofs, WellFoundedInduction

(* Induction up to n, over a set.                                          *)
LEMMA UpTo ==
    ASSUME NEW n \in Nat, NEW T, 0 \in T, \A k \in 0..(n - 1) : k \in T => k + 1 \in T
    PROVE  \A k \in 0..n : k \in T
<1> DEFINE less == OpToRel(<, Nat)
           out == {k \in 0..n : k \notin T}
<1>1. \A x, y \in Nat : <<x, y>> \in less <=> x < y
  BY DEF OpToRel
<1>2. IsWellFoundedOn(less, Nat)
  BY NatLessThanWellFounded
<1> HIDE DEF less
<1>3. CASE out # {}
  <2>1. out \subseteq Nat
    OBVIOUS
  <2> HIDE DEF out
  <2>2. PICK k \in out : \A j \in out : ~(<<j, k>> \in less)
    BY <1>2, <1>3, <2>1, WFMin
  <2> USE DEF out
  <2>3. k \in 0..n /\ k \notin T /\ k # 0
    OBVIOUS
  <2>4. k - 1 \in 0..(n - 1) /\ (k - 1) + 1 = k /\ k - 1 < k /\ k - 1 \in Nat
    BY <2>3
  <2>5. k - 1 \notin T
    BY <2>3, <2>4
  <2>6. k - 1 \in out
    BY <2>4, <2>5
  <2> QED BY <1>1, <2>1, <2>2, <2>4, <2>6
<1> QED BY <1>3

(* The largest of some bounded numbers.                                    *)
LEMMA MaxIsLargest ==
    ASSUME NEW S, S \subseteq Nat, S # {}, NEW b \in Nat, \A y \in S : y <= b
    PROVE  Max(S) \in S /\ \A y \in S : y <= Max(S)
<1> DEFINE T == {k \in Nat : (\A y \in S : y <= k) => \E x \in S : \A y \in S : y <= x}
<1>1. 0 \in T
  <2>1. ASSUME \A y \in S : y <= 0 PROVE \E x \in S : \A y \in S : y <= x
    <3>1. PICK x : x \in S
      OBVIOUS
    <3> QED BY <2>1, <3>1
  <2> QED BY <2>1
<1>2. ASSUME NEW k \in 0..(b - 1), k \in T PROVE k + 1 \in T
  <2>1. ASSUME \A y \in S : y <= k + 1 PROVE \E x \in S : \A y \in S : y <= x
    <3>1. CASE k + 1 \in S
      BY <2>1, <3>1
    <3>2. CASE k + 1 \notin S
      <4>1. ASSUME NEW y \in S PROVE y <= k
        <5>1. y \in Nat /\ y <= k + 1 /\ y # k + 1 /\ k \in Nat
          BY <2>1, <3>2
        <5> QED BY <5>1
      <4> QED BY <1>2, <4>1
    <3> QED BY <3>1, <3>2
  <2> QED BY <1>2, <2>1
<1>3. \A k \in 0..b : k \in T
  <2> HIDE DEF T
  <2> QED BY <1>1, <1>2, UpTo
<1>4. b \in T
  BY <1>3
<1>5. PICK x \in S : \A y \in S : x >= y
  BY <1>4
<1>6. Max(S) = CHOOSE m \in S : \A y \in S : m >= y
  BY DEF Max
<1>7. Max(S) \in S /\ \A y \in S : Max(S) >= y
  BY <1>5, <1>6
<1> QED BY <1>7

-----------------------------------------------------------------------------
(* The rounds of Levels.                                                   *)

(* The prerequisites of the resource that x names.                         *)
DepsOf(D, x) == EdgesFor(ByRef(D, x))

(* One round of Levels, given the one before.                              *)
Round(D, k, prev) ==
    [x \in Refs(D) |-> IF k = 0 \/ DepsOf(D, x) = {} THEN 0
                       ELSE 1 + Max({prev[d] : d \in DepsOf(D, x)})]

(* All of them.                                                            *)
AreRounds(D, f) == f = [k \in 0..Cardinality(D) |-> Round(D, k, f[k - 1])]

(* There are such rounds,                                                  *)
LEMMA RoundsExist ==
    ASSUME NEW D, IsFiniteSet(D)
    PROVE  \E f : AreRounds(D, f)
<1> DEFINE n == Cardinality(D)
           Good(g, k) == \A j \in 0..k : g[j] = Round(D, j, g[j - 1])
           T == {k \in Nat : \E g : Good(g, k)}
<1>1. n \in Nat
  BY FS_CardinalityType
<1> HIDE DEF n
<1>2. \A p, q : Round(D, 0, p) = Round(D, 0, q)
  BY DEF Round
<1>3. 0 \in T
  <2>1. PICK g : g = [j \in {0} |-> Round(D, 0, 0)]
    OBVIOUS
  <2>2. g[0] = Round(D, 0, g[0 - 1])
    BY <1>2, <2>1
  <2> QED BY <2>2
<1>4. ASSUME NEW k \in 0..(n - 1), k \in T PROVE k + 1 \in T
  <2>1. PICK g : Good(g, k)
    BY <1>4
  <2>2. PICK h : h = [j \in 0..(k + 1) |-> IF j = k + 1 THEN Round(D, k + 1, g[k]) ELSE g[j]]
    OBVIOUS
  <2>3. \A j \in 0..k : h[j] = g[j] /\ j # k + 1
    BY <1>1, <2>2
  <2>4. ASSUME NEW j \in 0..(k + 1) PROVE h[j] = Round(D, j, h[j - 1])
    <3>1. CASE j = k + 1
      <4>1. h[k + 1] = Round(D, k + 1, g[k])
        BY <1>1, <2>2
      <4>2. j - 1 = k /\ k \in 0..k
        BY <1>1, <3>1
      <4> QED BY <2>3, <3>1, <4>1, <4>2
    <3>2. CASE j # k + 1
      <4>1. j \in 0..k
        BY <1>1, <3>2
      <4>2. h[j] = Round(D, j, g[j - 1])
        BY <2>1, <2>3, <4>1
      <4>3. j = 0 \/ j - 1 \in 0..k
        BY <4>1
      <4> QED BY <1>2, <2>3, <4>2, <4>3
    <3> QED BY <3>1, <3>2
  <2> QED BY <1>1, <2>4
<1>5. \A k \in 0..n : k \in T
  <2> HIDE DEF T
  <2> QED BY <1>1, <1>3, <1>4, UpTo
<1>6. PICK g : Good(g, n)
  BY <1>1, <1>5
<1>7. PICK f : f = [k \in 0..n |-> g[k]]
  OBVIOUS
<1>8. \A k \in 0..n : g[k] = Round(D, k, f[k - 1])
  <2> SUFFICES ASSUME NEW k \in 0..n PROVE g[k] = Round(D, k, f[k - 1])
    OBVIOUS
  <2>1. k = 0 \/ k - 1 \in 0..n
    BY <1>1
  <2> QED BY <1>2, <1>6, <1>7, <2>1
<1>9. f = [k \in 0..n |-> Round(D, k, f[k - 1])]
  BY <1>7, <1>8
<1> QED BY <1>9 DEF AreRounds, n

(* and Levels takes the last of them.                                      *)
LEMMA LevelsAreRounds ==
    ASSUME NEW D, IsFiniteSet(D)
    PROVE  \E f : AreRounds(D, f) /\ Levels(D) = f[Cardinality(D)]
<1> DEFINE f == CHOOSE g : AreRounds(D, g)
<1>1. AreRounds(D, f)
  BY RoundsExist
<1>2. Levels(D) = f[Cardinality(D)]
  BY DEF Levels, AreRounds, Round, DepsOf
<1> QED BY <1>1, <1>2

-----------------------------------------------------------------------------
(* Rounds over an index that parses.                                       *)

(* An index that parses, and its rounds.                                   *)
Settled(D, f) == IsFiniteSet(D) /\ ValidIndex(D) /\ AreRounds(D, f)

(* A round counts the edges of the longest way down, up to its number.     *)
LEMMA RoundOf ==
    ASSUME NEW D, NEW f, Settled(D, f), NEW r \in D, NEW k \in 0..Cardinality(D)
    PROVE  f[k][r.ref] = IF k = 0 \/ EdgesFor(r) = {} THEN 0
                         ELSE 1 + Max({f[k - 1][d] : d \in EdgesFor(r)})
<1>1. f[k] = Round(D, k, f[k - 1])
  <2>1. f = [j \in 0..Cardinality(D) |-> Round(D, j, f[j - 1])]
    BY DEF Settled, AreRounds
  <2>2. \A j \in 0..Cardinality(D) : f[j] = Round(D, j, f[j - 1])
    BY <2>1
  <2> QED BY <2>2
<1>2. ByRef(D, r.ref) = r
  BY DEF Settled, ValidIndex, ByRef
<1>3. r.ref \in Refs(D) /\ DepsOf(D, r.ref) = EdgesFor(r)
  BY <1>2 DEF Refs, DepsOf
<1>4. Round(D, k, f[k - 1])[r.ref] =
        IF k = 0 \/ EdgesFor(r) = {} THEN 0
        ELSE 1 + Max({f[k - 1][d] : d \in EdgesFor(r)})
  BY <1>3 DEF Round
<1> QED BY <1>1, <1>4

(* The first one counts nothing.                                           *)
LEMMA FirstRound ==
    ASSUME NEW D, NEW f, Settled(D, f), NEW r \in D
    PROVE  f[0][r.ref] = 0
<1>1. Cardinality(D) \in Nat
  BY FS_CardinalityType DEF Settled
<1>2. PICK k \in 0..Cardinality(D) : k = 0
  BY <1>1
<1>3. f[k][r.ref] = IF k = 0 \/ EdgesFor(r) = {} THEN 0
                    ELSE 1 + Max({f[k - 1][d] : d \in EdgesFor(r)})
  BY RoundOf
<1> QED BY <1>2, <1>3

(* Every prerequisite is a resource of the index.                          *)
LEMMA EdgesResolve ==
    ASSUME NEW D, ValidIndex(D), NEW r \in D, NEW d \in EdgesFor(r)
    PROVE  \E q \in D : q.ref = d
BY DEF ValidIndex, ReferencesResolve, Refs

(* Round k counts no further than k.                                       *)
Counts(D, f, k) == \A r \in D : f[k][r.ref] \in 0..k

(* One round more: one above the highest prerequisite.                     *)
LEMMA NextRound ==
    ASSUME NEW D, NEW f, Settled(D, f), NEW k \in 0..(Cardinality(D) - 1),
           Counts(D, f, k), NEW r \in D
    PROVE  IF EdgesFor(r) = {} THEN f[k + 1][r.ref] = 0
           ELSE /\ \E d \in EdgesFor(r) : f[k + 1][r.ref] = 1 + f[k][d]
                /\ \A d \in EdgesFor(r) : 1 + f[k][d] <= f[k + 1][r.ref]
<1>1. Cardinality(D) \in Nat
  BY FS_CardinalityType DEF Settled
<1>2. k \in Nat /\ k + 1 \in 0..Cardinality(D) /\ k + 1 # 0 /\ (k + 1) - 1 = k
  BY <1>1
<1> DEFINE S == {f[k][d] : d \in EdgesFor(r)}
<1>3. f[k + 1][r.ref] = IF EdgesFor(r) = {} THEN 0 ELSE 1 + Max(S)
  <2>1. f[k + 1][r.ref] = IF k + 1 = 0 \/ EdgesFor(r) = {} THEN 0
                          ELSE 1 + Max({f[(k + 1) - 1][d] : d \in EdgesFor(r)})
    BY <1>2, RoundOf
  <2> QED BY <1>2, <2>1
<1>4. CASE EdgesFor(r) # {}
  <2>1. \A d \in EdgesFor(r) : f[k][d] \in 0..k
    BY EdgesResolve DEF Counts, Settled
  <2>2. S \subseteq Nat /\ S # {} /\ \A y \in S : y <= k
    BY <1>4, <2>1
  <2>3. Max(S) \in S /\ \A y \in S : y <= Max(S)
    <3> HIDE DEF S
    <3> QED BY <1>2, <2>2, MaxIsLargest
  <2>4. PICK d \in EdgesFor(r) : Max(S) = f[k][d]
    BY <2>3
  <2>5. ASSUME NEW e \in EdgesFor(r) PROVE 1 + f[k][e] <= 1 + Max(S)
    <3>1. f[k][e] \in S /\ f[k][e] \in Nat /\ Max(S) \in Nat
      BY <2>1, <2>2, <2>3
    <3>2. f[k][e] <= Max(S)
      BY <2>3, <3>1
    <3> HIDE DEF S
    <3> QED BY <3>1, <3>2
  <2> HIDE DEF S
  <2> QED BY <1>3, <1>4, <2>4, <2>5
<1> QED BY <1>3, <1>4

(* No round counts further than its number.                                *)
LEMMA RoundsCount ==
    ASSUME NEW D, NEW f, Settled(D, f)
    PROVE  \A k \in 0..Cardinality(D) : Counts(D, f, k)
<1> DEFINE n == Cardinality(D)
           T == {k \in 0..n : Counts(D, f, k)}
<1>1. n \in Nat
  BY FS_CardinalityType DEF Settled
<1>2. 0 \in T
  <2>1. 0 \in 0..n /\ \A r \in D : f[0][r.ref] = 0
    <3>1. 0 \in 0..n
      BY <1>1
    <3> QED BY <3>1, FirstRound
  <2> QED BY <2>1 DEF Counts
<1>3. ASSUME NEW k \in 0..(n - 1), k \in T PROVE k + 1 \in T
  <2>1. k \in Nat /\ k + 1 \in 0..n /\ Counts(D, f, k)
    BY <1>1, <1>3
  <2>2. ASSUME NEW r \in D PROVE f[k + 1][r.ref] \in 0..(k + 1)
    <3>1. \A d \in EdgesFor(r) : f[k][d] \in 0..k
      BY <2>1, EdgesResolve DEF Counts, Settled
    <3> QED BY <2>1, <3>1, NextRound
  <2> QED BY <2>1, <2>2 DEF Counts
<1>4. \A k \in 0..n : k \in T
  <2> HIDE DEF T
  <2> QED BY <1>1, <1>2, <1>3, UpTo
<1> QED BY <1>4

(* The resources with a way down of k edges or more.                       *)
Deep(D, f, k) == {r \in D : k <= f[k][r.ref]}

(* There is one less of them, or more, after every round,                  *)
LEMMA DeepShrinks ==
    ASSUME NEW D, NEW f, Settled(D, f)
    PROVE  Deep(D, f, Cardinality(D)) = {}
<1> DEFINE n == Cardinality(D)
           S(k) == Deep(D, f, k)
           T == {k \in 0..n : /\ k < n => S(k + 1) \subseteq S(k)
                              /\ S(k) = {} \/ Cardinality(S(k)) + k <= n}
<1>1. n \in Nat /\ \A k \in 0..n : Counts(D, f, k)
  BY FS_CardinalityType, RoundsCount DEF Settled
<1>2. ASSUME NEW k \in 0..(n - 1), NEW r \in S(k + 1)
      PROVE  \E q \in S(k) : q.ref \in EdgesFor(r)
  <2>1. r \in D /\ k + 1 <= f[k + 1][r.ref] /\ Counts(D, f, k) /\ k \in Nat /\ k \in 0..n
    BY <1>1, <1>2 DEF Deep
  <2>2. EdgesFor(r) # {}
    BY <2>1, NextRound
  <2>3. PICK d \in EdgesFor(r) : f[k + 1][r.ref] = 1 + f[k][d]
    BY <2>1, <2>2, NextRound
  <2>4. PICK q \in D : q.ref = d
    BY <2>1, EdgesResolve DEF Settled
  <2>5. f[k][q.ref] \in Nat /\ k <= f[k][q.ref]
    BY <2>1, <2>3, <2>4 DEF Counts
  <2> QED BY <2>4, <2>5 DEF Deep
<1>3. ASSUME NEW k \in 0..(n - 1), NEW r \in D, NEW q \in S(k), q.ref \in EdgesFor(r)
      PROVE  r \in S(k + 1)
  <2>1. k \in Nat /\ Counts(D, f, k) /\ Counts(D, f, k + 1) /\ q \in D /\ k <= f[k][q.ref]
    <3>1. k \in 0..n /\ k + 1 \in 0..n
      BY <1>1
    <3> QED BY <1>1, <1>3, <3>1 DEF Deep
  <2>2. 1 + f[k][q.ref] <= f[k + 1][r.ref]
    BY <1>3, <2>1, NextRound
  <2>3. f[k][q.ref] \in Nat /\ f[k + 1][r.ref] \in Nat
    BY <2>1 DEF Counts
  <2> QED BY <2>1, <2>2, <2>3 DEF Deep
<1>4. ASSUME NEW k \in 0..n PROVE S(k) \subseteq D /\ IsFiniteSet(S(k)) /\ Cardinality(S(k)) \in Nat
  <2>1. S(k) \subseteq D
    BY DEF Deep
  <2> QED BY <2>1, FS_Subset, FS_CardinalityType DEF Settled
<1>5. 0 \in T
  <2>1. S(0) = D
    BY <1>1 DEF Deep, Counts
  <2>2. 0 < n => S(0 + 1) \subseteq S(0)
    <3>1. 0 < n => 1 \in 0..n
      BY <1>1
    <3> QED BY <1>4, <2>1, <3>1
  <2> QED BY <1>1, <2>1, <2>2
<1>6. ASSUME NEW k \in 0..(n - 1), k \in T PROVE k + 1 \in T
  <2>1. k \in Nat /\ k + 1 \in 0..n /\ k < n /\ k \in 0..n /\ S(k + 1) \subseteq S(k)
    BY <1>1, <1>6
  <2>2. ASSUME k + 1 < n PROVE S((k + 1) + 1) \subseteq S(k + 1)
    <3> SUFFICES ASSUME NEW r \in S((k + 1) + 1) PROVE r \in S(k + 1)
      OBVIOUS
    <3>1. k + 1 \in 0..(n - 1)
      BY <1>1, <2>1, <2>2
    <3>2. PICK q \in S(k + 1) : q.ref \in EdgesFor(r)
      BY <1>2, <3>1
    <3>3. q \in S(k) /\ r \in D
      BY <2>1, <3>2 DEF Deep
    <3> QED BY <1>3, <3>2, <3>3
  <2>3. S(k + 1) = {} \/ Cardinality(S(k + 1)) + (k + 1) <= n
    <3>1. CASE S(k) = {}
      BY <2>1, <3>1
    <3>2. CASE S(k) # {}
      <4>1. S(k) \in SUBSET D
        BY <1>4, <2>1
      <4>2. PICK r \in S(k) : EdgesFor(r) \intersect Refs(S(k)) = {}
        BY <3>2, <4>1 DEF Settled, ValidIndex, Acyclic
      <4>3. r \notin S(k + 1)
        BY <1>2, <4>2 DEF Refs
      <4>4. Cardinality(S(k + 1)) < Cardinality(S(k))
        <5>1. S(k + 1) # S(k)
          BY <4>2, <4>3
        <5> QED BY <1>4, <2>1, <5>1, FS_Subset
      <4>5. /\ Cardinality(S(k)) + k <= n
            /\ Cardinality(S(k)) \in Nat /\ Cardinality(S(k + 1)) \in Nat
        BY <1>4, <1>6, <2>1, <3>2
      <4> HIDE DEF S
      <4> QED BY <1>1, <2>1, <4>4, <4>5
    <3> QED BY <3>1, <3>2
  <2> QED BY <2>1, <2>2, <2>3
<1>7. \A k \in 0..n : k \in T
  <2> HIDE DEF T
  <2> QED BY <1>1, <1>5, <1>6, UpTo
<1>8. n \in T /\ n \in 0..n
  BY <1>1, <1>7
<1>9. S(n) = {}
  <2>1. CASE Cardinality(S(n)) + n <= n
    <3>1. Cardinality(S(n)) = 0
      BY <1>1, <1>4, <1>8, <2>1
    <3> QED BY <1>4, <1>8, <3>1, FS_EmptySet
  <2> QED BY <1>8, <2>1
<1> QED BY <1>9

(* so the last round changes nothing,                                      *)
LEMMA LastRound ==
    ASSUME NEW D, NEW f, Settled(D, f), D # {}
    PROVE  \A r \in D : f[Cardinality(D)][r.ref] = f[Cardinality(D) - 1][r.ref]
<1> DEFINE n == Cardinality(D)
           T == {k \in 0..(n - 1) : \A r \in D :
                    f[k + 1][r.ref] = f[k][r.ref] \/ k + 1 <= f[k + 1][r.ref]}
<1>1. n \in Nat /\ n # 0 /\ \A k \in 0..n : Counts(D, f, k)
  BY FS_CardinalityType, FS_EmptySet, RoundsCount DEF Settled
<1>2. 0 \in T
  <2>1. \A r \in D : f[0][r.ref] \in 0..0 /\ f[1][r.ref] \in 0..1
    <3>1. 0 \in 0..n /\ 1 \in 0..n
      BY <1>1
    <3>2. Counts(D, f, 0) /\ Counts(D, f, 1)
      BY <1>1, <3>1
    <3> QED BY <3>2 DEF Counts
  <2> QED BY <1>1, <2>1
<1>3. ASSUME NEW k \in 0..((n - 1) - 1), k \in T PROVE k + 1 \in T
  <2>1. /\ k \in Nat /\ k + 1 \in 0..(n - 1) /\ k \in 0..(n - 1)
        /\ Counts(D, f, k) /\ Counts(D, f, k + 1)
    BY <1>1
  <2>2. ASSUME NEW r \in D, f[(k + 1) + 1][r.ref] # f[k + 1][r.ref]
        PROVE  (k + 1) + 1 <= f[(k + 1) + 1][r.ref]
    <3>1. EdgesFor(r) # {}
      BY <2>1, <2>2, NextRound
    <3>2. PICK d \in EdgesFor(r) : f[k + 1][d] # f[k][d]
      <4>1. {f[k + 1][d] : d \in EdgesFor(r)} # {f[k][d] : d \in EdgesFor(r)}
        <5>1. /\ (k + 1) + 1 \in 0..n /\ k + 1 \in 0..n
              /\ (k + 1) + 1 # 0 /\ k + 1 # 0 /\ ((k + 1) + 1) - 1 = k + 1 /\ (k + 1) - 1 = k
          BY <1>1, <2>1
        <5>2. f[(k + 1) + 1][r.ref] = 1 + Max({f[k + 1][d] : d \in EdgesFor(r)})
          BY <3>1, <5>1, RoundOf
        <5>3. f[k + 1][r.ref] = 1 + Max({f[k][d] : d \in EdgesFor(r)})
          BY <3>1, <5>1, RoundOf
        <5> QED BY <2>2, <5>2, <5>3
      <4> QED BY <4>1
    <3>3. PICK q \in D : q.ref = d
      BY EdgesResolve DEF Settled
    <3>4. k + 1 <= f[k + 1][d]
      BY <1>3, <3>2, <3>3
    <3>5. 1 + f[k + 1][d] <= f[(k + 1) + 1][r.ref]
      BY <2>1, <3>1, NextRound
    <3>6. f[k + 1][d] \in Nat /\ f[(k + 1) + 1][r.ref] \in Nat
      <4>1. (k + 1) + 1 \in 0..n
        BY <1>1, <2>1
      <4> QED BY <1>1, <2>1, <3>3, <4>1 DEF Counts
    <3> QED BY <2>1, <3>4, <3>5, <3>6
  <2> QED BY <2>1, <2>2
<1>4. \A k \in 0..(n - 1) : k \in T
  <2>1. n - 1 \in Nat
    BY <1>1
  <2> HIDE DEF T
  <2> QED BY <1>2, <1>3, <2>1, UpTo
<1>5. n - 1 \in T /\ (n - 1) + 1 = n
  BY <1>1, <1>4
<1>6. \A r \in D : ~(n <= f[n][r.ref])
  BY DeepShrinks DEF Deep
<1> QED BY <1>5, <1>6

(* and levels rise along the edges of every index that parses.             *)
LEMMA LevelsRise ==
    ASSUME NEW v \in Parses, NEW r \in Manifests[v], NEW d \in EdgesFor(r)
    PROVE  /\ LevelsAt[v][d] \in Nat /\ LevelsAt[v][r.ref] \in Nat
           /\ LevelsAt[v][d] < LevelsAt[v][r.ref]
<1> DEFINE D == Manifests[v]
           n == Cardinality(D)
<1>1. IsFiniteSet(D) /\ ValidIndex(D)
  BY SchemaAssumption DEF Parses
<1>2. PICK f : AreRounds(D, f) /\ Levels(D) = f[n]
  BY <1>1, LevelsAreRounds
<1>3. Settled(D, f) /\ D # {}
  BY <1>1, <1>2 DEF Settled
<1>4. n \in Nat /\ n # 0
  BY <1>1, <1>3, FS_CardinalityType, FS_EmptySet
<1>5. PICK q \in D : q.ref = d
  BY <1>1, EdgesResolve
<1>6. n - 1 \in 0..(n - 1) /\ n - 1 \in 0..n /\ n \in 0..n /\ (n - 1) + 1 = n
  BY <1>4
<1>7. Counts(D, f, n - 1) /\ Counts(D, f, n)
  BY <1>3, <1>6, RoundsCount
<1>8. 1 + f[n - 1][d] <= f[n][r.ref]
  BY <1>3, <1>6, <1>7, NextRound
<1>9. f[n - 1][d] = f[n][d]
  BY <1>3, <1>5, LastRound
<1>10. f[n][d] \in Nat /\ f[n][r.ref] \in Nat
  BY <1>5, <1>7 DEF Counts
<1>11. LevelsAt[v] = f[n]
  BY <1>2 DEF LevelsAt
<1> HIDE DEF n
<1> QED BY <1>8, <1>9, <1>10, <1>11

-----------------------------------------------------------------------------
(* The order of a plan.                                                    *)

(* An action has the level of its resource and waits for what that needs,  *)
(* or for nothing.                                                         *)
LEMMA PlanLevels ==
    ASSUME NEW v \in Parses, NEW i, NEW kept, NEW a \in PlanOf(i, v, kept)
    PROVE  IF a.what = "delete" THEN a.res = NoResource /\ a.deps = {}
           ELSE /\ a.res \in Manifests[v] /\ a.level = LevelsAt[v][a.res.ref]
                /\ a.deps = {} \/ a.deps = EdgesFor(a.res)
<1>1. ASSUME NEW r \in Manifests[v], a.what # "delete", a.res = r,
             a.level = LevelsAt[v][r.ref], a.deps = {} \/ a.deps = EdgesFor(r)
      PROVE  /\ a.what # "delete" /\ a.res \in Manifests[v]
             /\ a.level = LevelsAt[v][a.res.ref]
             /\ a.deps = {} \/ a.deps = EdgesFor(a.res)
  BY <1>1
<1>2. CASE a \in Marks(i, v)
  BY <1>1, <1>2 DEF Marks, Plain, Guests
<1>3. CASE a \in Creates(i, v)
  BY <1>1, <1>3 DEF Creates, Plain, Guests
<1>4. CASE a \in Updates(i, v)
  BY <1>1, <1>4 DEF Updates, Tracked, Plain, Guests
<1>5. CASE a \in PowerChanges(i, v)
  <2>1. PICK r \in Tracked(i, v) : \E verb \in PowerVerb(r.state, LivePower(i, r)) :
          a = [Plain(v, r, NodeOf(r), verb) EXCEPT !.live = LivePower(i, r)]
    BY <1>5 DEF PowerChanges
  <2>2. PICK verb \in {"start", "stop"} :
          a = [Plain(v, r, NodeOf(r), verb) EXCEPT !.live = LivePower(i, r)]
    BY <2>1 DEF PowerVerb
  <2> QED BY <1>1, <2>2 DEF Plain, Tracked, Guests
<1>6. CASE a \in Downloads(i, v)
  <2>1. PICK f \in Nodes \X Artifacts(Manifests[v]) : a = Plain(v, f[2], f[1], "create")
    BY <1>6 DEF Downloads
  <2>2. f[2] \in Manifests[v]
    BY DEF Artifacts
  <2> QED BY <1>1, <2>1, <2>2 DEF Plain
<1>7. CASE \E s \in kept : a = Prune(i, s)
  BY <1>7 DEF Prune
<1> QED BY <1>2, <1>3, <1>4, <1>5, <1>6, <1>7 DEF PlanOf

(* What an action waits for comes before it in the plan.                   *)
RankedInv ==
    \A b \in Planned :
        /\ NoRef \notin b.deps
        /\ \A a \in Planned :
              a.node = b.node /\ a.res.ref \in b.deps => a # b /\ Precedes(a, b)

(* Nothing left to do comes before the action in hand, none of its         *)
(* prerequisites is known to have failed, and every failure is known.      *)
TurnInv ==
    /\ cur # NoAction => ~Blocked(cur) /\ \A b \in todo : ~Precedes(b, cur)
    /\ \A r \in results : r.outcome = "failed" /\ r.act.res.ref # NoRef
                            => <<r.act.res.ref, r.act.node>> \in failed

(* The order is that of the plan, which stays as it is made.               *)
LEMMA RankedStep ==
    ASSUME IInv, RankedInv, [Next]_vars
    PROVE  RankedInv'
<1>1. CASE Planned' = {}
  BY <1>1 DEF RankedInv
<1>2. CASE Planned' = Planned
  BY <1>2 DEF RankedInv
<1>3. CASE PlanCycle
  <2>1. PICK kept : todo' = PlanOf(inv, tree, kept)
    BY <1>3 DEF PlanCycle
  <2>2. Planned = {} /\ tree \in Parses
    BY <1>3 DEF PlanCycle, IInv, PlanInv, GitInv
  <2>3. Planned' = todo'
    BY <1>3, <2>2 DEF PlanCycle, Planned
  <2>4. ASSUME NEW a \in PlanOf(inv, tree, kept), NEW b \in PlanOf(inv, tree, kept),
               a.res.ref \in b.deps
        PROVE  a # b /\ Precedes(a, b)
    <3>1. /\ b.what # "delete" /\ b.res \in Manifests[tree] /\ b.deps = EdgesFor(b.res)
          /\ b.level = LevelsAt[tree][b.res.ref]
      BY <2>2, <2>4, PlanLevels
    <3>2. a.res.ref # NoRef
      BY <2>4, <3>1 DEF EdgesFor
    <3>3. a.what # "delete" /\ a.level = LevelsAt[tree][a.res.ref]
      BY <2>2, <3>2, PlanLevels DEF NoResource
    <3>4. a.level < b.level /\ a.level \in Nat
      BY <2>2, <2>4, <3>1, <3>3, LevelsRise
    <3> QED BY <3>1, <3>3, <3>4 DEF Precedes, Tier
  <2>5. ASSUME NEW b \in PlanOf(inv, tree, kept) PROVE NoRef \notin b.deps
    BY <2>2, PlanLevels DEF EdgesFor
  <2> QED BY <2>1, <2>3, <2>4, <2>5 DEF RankedInv
<1> QED BY <1>1, <1>2, <1>3, PlanCases

(* What a step does to the actions of a cycle.                             *)
LEMMA TurnCases ==
    ASSUME [Next]_vars
    PROVE  \/ UNCHANGED <<todo, cur, failed, results>>
           \/ cur' = NoAction /\ results' = {}
           \/ PlanCycle
           \/ \E a \in todo : Defer(a) \/ Begin(a)
           \/ \E o \in {"ok", "failed"} : Conclude(o) /\ todo' = todo
<1>1. CASE Sync \/ SyncFails \/ Load
  BY <1>1 DEF Sync, SyncFails, Load, List, ListFails, ReadConfig, ReadConfigFails,
     ReadStatus, ProbeStorage, execVars
<1>2. CASE Crash \/ EndCycle
  BY <1>2 DEF Crash, EndCycle
<1>3. CASE (\E op \in Writes : Issue(op)) \/ ReadClone \/ Settle \/ Await \/ Complete
  BY <1>3 DEF Issue, ReadClone, Settle, Await, Complete, Proceed
<1>4. CASE PveStep \/ Environment \/ UNCHANGED vars
  BY <1>4 DEF PveStep, TaskSucceeds, TaskFails, Ends, Environment, Push, Disturb,
     execVars, vars
<1> QED BY <1>1, <1>2, <1>3, <1>4 DEF Next, Agent, Execute

(* It is Begin that looks, and what it saw stays true until the action     *)
(* ends.                                                                   *)
LEMMA TurnStep ==
    ASSUME IInv, TurnInv, [Next]_vars
    PROVE  TurnInv'
<1>1. CASE UNCHANGED <<todo, cur, failed, results>>
  BY <1>1 DEF TurnInv, Blocked
<1>2. CASE cur' = NoAction /\ results' = {}
  BY <1>2 DEF TurnInv
<1>3. CASE PlanCycle
  <2>1. Planned = {}
    BY <1>3 DEF PlanCycle, IInv, PlanInv
  <2> QED BY <1>3, <2>1 DEF PlanCycle, TurnInv, Planned
<1>4. ASSUME NEW a \in todo, Defer(a) PROVE TurnInv'
  BY <1>4 DEF Defer, Record, TurnInv
<1>5. ASSUME NEW a \in todo, Begin(a) PROVE TurnInv'
  BY <1>5 DEF Begin, IsFirst, Blocked, TurnInv
<1>6. ASSUME NEW o \in {"ok", "failed"}, Conclude(o), todo' = todo PROVE TurnInv'
  BY <1>6 DEF Conclude, Record, TurnInv
<1> QED BY <1>1, <1>2, <1>3, <1>4, <1>5, <1>6, TurnCases

OrderInv == IInv /\ RankedInv /\ TurnInv

(* The invariant is inductive.                                             *)
LEMMA OrderInvariant == Spec => []OrderInv
<1>1. Init => RankedInv /\ TurnInv
  BY DEF Init, RankedInv, TurnInv, Planned
<1>2. IInv /\ RankedInv /\ TurnInv /\ [Next]_vars => RankedInv' /\ TurnInv'
  BY RankedStep, TurnStep
<1> QED BY Invariant, <1>1, <1>2, PTL DEF Spec, OrderInv

(* Execute never attempts an action before every action planned for one of *)
(* its prerequisites on its node is over, nor when one of them failed, for *)
(* any manifests that parse: the levels of Index.Levels order any plan     *)
(* that sortActions sorts by them.                                         *)
THEOREM DependenciesFirst == Spec => []DependencyOrder
<1>1. OrderInv => DependencyOrder
  <2> SUFFICES ASSUME OrderInv, cur # NoAction, NEW a \in Planned, a.node = cur.node,
                      a.res.ref \in cur.deps
               PROVE  \E r \in results : r.act = a /\ r.outcome \in {"ok", "deferred"}
    BY DEF DependencyOrder
  <2>1. cur \in Planned /\ a # cur /\ Precedes(a, cur) /\ a.res.ref # NoRef
    BY DEF OrderInv, RankedInv, Planned
  <2>2. a \notin todo
    BY <2>1 DEF OrderInv, TurnInv
  <2>3. PICK r \in results : r.act = a
    BY <2>1, <2>2 DEF Planned
  <2>4. r.outcome # "failed"
    <3>1. <<a.res.ref, cur.node>> \notin failed
      BY DEF OrderInv, TurnInv, Blocked
    <3> QED BY <2>1, <2>3, <3>1 DEF OrderInv, TurnInv
  <2>5. r.outcome \in {"ok", "failed", "deferred"}
    BY <2>3 DEF OrderInv, IInv, ExecInv
  <2> QED BY <2>3, <2>4, <2>5
<1> QED BY OrderInvariant, <1>1, PTL

=============================================================================
