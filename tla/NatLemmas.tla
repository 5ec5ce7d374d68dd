----------------------------- MODULE NatLemmas -----------------------------
(***************************************************************************)
(* Facts the other proofs share: least and greatest elements of sets of    *)
(* natural numbers, running totals, sums over finite sets, ranks, and      *)
(* sequences whose elements have no type.                                  *)
(***************************************************************************)
EXTENDS PartialSums, Sequences, Functions, FiniteSetTheorems, TLAPS, WellFoundedInduction

(* A nonempty set of naturals has a least element: the other proofs  *)
(* take a least counterexample where they would use induction.              *)
LEMMA LeastNat ==
  ASSUME NEW T, T \subseteq Nat, T # {}
  PROVE  \E n \in T : \A m \in T : n <= m
<1> DEFINE Less == OpToRel(<, Nat)
<1>1. \A i, j \in Nat : i < j => <<i, j>> \in Less
  BY DEF OpToRel
<1>2. IsWellFoundedOn(Less, Nat)
  BY NatLessThanWellFounded
<1> HIDE DEF Less
<1>3. PICK n \in T : \A m \in T : ~(<<m, n>> \in Less)
  BY <1>2, WFMin
<1>4. ASSUME NEW m \in T, m < n PROVE FALSE
  <2>1. m \in Nat /\ n \in Nat OBVIOUS
  <2>2. <<m, n>> \in Less BY <2>1, <1>1, <1>4
  <2> QED BY <2>2, <1>3
<1>5. \A m \in T : ~(m < n) BY <1>4
<1> QED BY <1>5

(* A nonempty set of naturals with an upper bound has a greatest element.   *)
LEMMA GreatestNat ==
  ASSUME NEW T, T \subseteq Nat, T # {}, NEW b \in Nat, \A n \in T : n <= b
  PROVE  \E n \in T : \A m \in T : m <= n
<1> DEFINE Gaps == {b - n : n \in T}
<1>1. Gaps \subseteq Nat /\ Gaps # {}
  <2>1. \A n \in T : n \in Nat /\ n <= b /\ b - n \in Nat OBVIOUS
  <2> QED BY <2>1
<1>2. PICK g \in Gaps : \A h \in Gaps : g <= h
  <2> HIDE DEF Gaps
  <2> QED BY <1>1, LeastNat
<1>3. PICK n \in T : g = b - n BY <1>2
<1>4. \A m \in T : b - m \in Gaps OBVIOUS
<1> HIDE DEF Gaps
<1>5. \A m \in T : m <= n
  <2> TAKE m \in T
  <2>1. b - n <= b - m BY <1>2, <1>3, <1>4
  <2>2. m \in Nat /\ n \in Nat OBVIOUS
  <2> QED BY <2>1, <2>2
<1> QED BY <1>5

-----------------------------------------------------------------------------
(* Running totals: the recursive function of PartialSums is what its        *)
(* equation says, it depends only on the terms it adds, and changing one    *)
(* term shifts every later total by the change.  Each is an induction       *)
(* carried out with the least counterexample.                               *)

(* g is the sequence of the first n totals of f. *)
IsSum(g, f, n) == /\ g[0] = f[0]
                  /\ \A k \in 1..n : g[k] = g[k-1] + f[k]

(* For every bound n some sequence of integers lists the first n totals.    *)
LEMMA TotalsExist ==
  ASSUME NEW f \in [Nat -> Int], NEW n \in Nat
  PROVE  \E g \in [0..n -> Int] : IsSum(g, f, n)
<1> DEFINE Bad == {m \in Nat : ~\E g \in [0..m -> Int] : IsSum(g, f, m)}
<1>1. SUFFICES ASSUME Bad # {} PROVE FALSE
  BY <1>1
<1>2. PICK m \in Bad : \A k \in Bad : m <= k
  BY <1>1, LeastNat
<1>3. m # 0
  <2>1. [i \in 0..0 |-> f[0]] \in [0..0 -> Int] OBVIOUS
  <2>2. IsSum([i \in 0..0 |-> f[0]], f, 0) BY DEF IsSum
  <2> QED BY <2>1, <2>2
<1>4. PICK g \in [0..(m-1) -> Int] : IsSum(g, f, m-1)
  <2>1. m-1 \in Nat /\ ~(m <= m-1) BY <1>3
  <2>2. m-1 \notin Bad BY <2>1, <1>2
  <2> QED BY <2>1, <2>2
<1> DEFINE h == [i \in 0..m |-> IF i = m THEN g[m-1] + f[m] ELSE g[i]]
<1>5. m \in Nat /\ m # 0 BY <1>3
<1>6. h \in [0..m -> Int] BY <1>5
<1>7. IsSum(h, f, m)
  <2>1. h[0] = f[0] BY <1>4, <1>5 DEF IsSum
  <2>2. ASSUME NEW k \in 1..m PROVE h[k] = h[k-1] + f[k]
    <3>1. CASE k = m
       BY <3>1, <1>5
    <3>2. CASE k # m
       <4>1. k \in 1..(m-1) /\ k-1 \in 0..(m-1) BY <3>2, <1>5
       <4>2. g[k] = g[k-1] + f[k] BY <4>1, <1>4 DEF IsSum
       <4> QED BY <4>1, <4>2, <1>5, <3>2
    <3> QED BY <3>1, <3>2
  <2> QED BY <2>1, <2>2 DEF IsSum
<1> QED BY <1>5, <1>6, <1>7

(* Two sequences of totals agree as far as both go.                         *)
LEMMA TotalsAgree ==
  ASSUME NEW f \in [Nat -> Int], NEW m \in Nat, NEW g, NEW h,
         IsSum(g, f, m), IsSum(h, f, m)
  PROVE  \A k \in 0..m : g[k] = h[k]
<1> DEFINE Bad == {k \in 0..m : g[k] # h[k]}
<1>1. SUFFICES ASSUME Bad # {} PROVE FALSE OBVIOUS
<1>2. PICK k \in Bad : \A j \in Bad : k <= j
  <2>1. Bad \subseteq Nat OBVIOUS
  <2> HIDE DEF Bad
  <2> QED BY <2>1, <1>1, LeastNat
<1>3. k # 0 BY <1>2 DEF IsSum
<1>4. k-1 \in 0..m /\ ~(k <= k-1) BY <1>3
<1>5. k-1 \notin Bad BY <1>4, <1>2
<1>6. g[k-1] = h[k-1] BY <1>4, <1>5
<1>7. k \in 1..m BY <1>3
<1>8. g[k] = g[k-1] + f[k] /\ h[k] = h[k-1] + f[k] BY <1>7 DEF IsSum
<1> QED BY <1>6, <1>8

(* SumTo(f) is an integer function that satisfies its defining equation.    *)
LEMMA SumToStep ==
  ASSUME NEW f \in [Nat -> Int]
  PROVE  /\ SumTo(f) \in [Nat -> Int]
         /\ SumTo(f)[0] = f[0]
         /\ \A k \in Nat \ {0} : SumTo(f)[k] = SumTo(f)[k-1] + f[k]
<1> DEFINE G(n) == CHOOSE g \in [0..n -> Int] : IsSum(g, f, n)
           F == [n \in Nat |-> G(n)[n]]
           R(s) == [k \in Nat |-> IF k = 0 THEN f[0] ELSE s[k-1] + f[k]]
<1>1. \A n \in Nat : G(n) \in [0..n -> Int] /\ IsSum(G(n), f, n)
  <2> TAKE n \in Nat
  <2>1. \E g \in [0..n -> Int] : IsSum(g, f, n) BY TotalsExist
  <2> QED BY <2>1
<1> HIDE DEF G
<1>2. F \in [Nat -> Int] BY <1>1
<1>3. F[0] = f[0] BY <1>1 DEF IsSum
<1>4. ASSUME NEW k \in Nat \ {0} PROVE F[k] = F[k-1] + f[k]
  <2>1. k-1 \in Nat /\ k-1 <= k /\ k-1 \in 0..(k-1) /\ k \in 1..k BY <1>4
  <2>2. /\ G(k-1) \in [0..(k-1) -> Int] /\ IsSum(G(k-1), f, k-1)
        /\ G(k) \in [0..k -> Int] /\ IsSum(G(k), f, k) BY <2>1, <1>1
  <2>3. IsSum(G(k), f, k-1) BY <2>1, <2>2 DEF IsSum
  <2>4. ASSUME NEW i \in Nat, NEW g, NEW h, IsSum(g, f, i), IsSum(h, f, i)
        PROVE  \A j \in 0..i : g[j] = h[j]
    BY ONLY <2>4, TotalsAgree, f \in [Nat -> Int], i \in Nat
  <2>5. \A j \in 0..(k-1) : G(k-1)[j] = G(k)[j] BY <2>1, <2>2, <2>3, <2>4
  <2>6. G(k-1)[k-1] = G(k)[k-1] BY <2>1, <2>5
  <2>7. G(k)[k] = G(k)[k-1] + f[k] BY <2>1, <1>1 DEF IsSum
  <2> QED BY <2>1, <2>6, <2>7
<1>5. F = R(F)
  <2>1. \A k \in Nat : F[k] = IF k = 0 THEN f[0] ELSE F[k-1] + f[k]
     BY <1>3, <1>4
  <2> HIDE DEF F
  <2> QED BY <2>1, <1>2
<1>6. SumTo(f) = CHOOSE s : s = R(s) BY DEF SumTo
<1>7. SumTo(f) = R(SumTo(f)) 
  <2> HIDE DEF F, R
  <2> QED BY <1>5, <1>6
<1>8. \A k \in Nat : SumTo(f)[k] = IF k = 0 THEN f[0] ELSE SumTo(f)[k-1] + f[k]
  BY <1>7
<1>9. SumTo(f) = [k \in Nat |-> SumTo(f)[k]]
  BY <1>7
<1> HIDE DEF F, R
<1> DEFINE Bad == {k \in Nat : SumTo(f)[k] # F[k]}
<1>10. Bad = {}
  <2>1. SUFFICES ASSUME Bad # {} PROVE FALSE OBVIOUS
  <2>2. PICK k \in Bad : \A j \in Bad : k <= j
    <3>1. Bad \subseteq Nat OBVIOUS
    <3> HIDE DEF Bad
    <3> QED BY <2>1, <3>1, LeastNat
  <2>3. k # 0 BY <2>2, <1>8, <1>3
  <2>4. k-1 \in Nat /\ ~(k <= k-1) BY <2>3
  <2>5. SumTo(f)[k-1] = F[k-1] BY <2>4, <2>2
  <2> QED BY <2>5, <2>3, <2>4, <1>4, <1>8
<1>11. \A k \in Nat : SumTo(f)[k] \in Int BY <1>10, <1>2
<1>12. SumTo(f) \in [Nat -> Int] BY <1>9, <1>11
<1> QED BY <1>12, <1>8

(* A total depends only on the terms it adds: appending a row to the ledger  *)
(* leaves the running totals of the earlier rows alone.                     *)
LEMMA SumToAgree ==
  ASSUME NEW f \in [Nat -> Int], NEW g \in [Nat -> Int], NEW n \in Nat,
         \A k \in 0..n : f[k] = g[k]
  PROVE  SumTo(f)[n] = SumTo(g)[n]
<1> DEFINE Bad == {k \in 0..n : SumTo(f)[k] # SumTo(g)[k]}
<1>1. SUFFICES ASSUME Bad # {} PROVE FALSE OBVIOUS
<1>2. PICK k \in Bad : \A j \in Bad : k <= j
  <2>1. Bad \subseteq Nat OBVIOUS
  <2> HIDE DEF Bad
  <2> QED BY <2>1, <1>1, LeastNat
<1>3. k # 0 BY <1>2, SumToStep
<1>4. k-1 \in 0..n /\ k \in Nat \ {0} /\ ~(k <= k-1) BY <1>3
<1>5. SumTo(f)[k-1] = SumTo(g)[k-1] BY <1>4, <1>2
<1>6. SumTo(f)[k] = SumTo(f)[k-1] + f[k] /\ SumTo(g)[k] = SumTo(g)[k-1] + g[k]
  BY <1>4, SumToStep
<1> QED BY <1>5, <1>6

(* g is f with d added to its term m. *)
Shifted(f, g, m, d) ==
  /\ g[m] = f[m] + d
  /\ \A k \in Nat \ {m} : g[k] = f[k]

(* Changing one term by d shifts every total that includes it by d: a       *)
(* movement in one lot shifts the on-hand of its location.                  *)
LEMMA SumToShift ==
  ASSUME NEW f \in [Nat -> Int], NEW g \in [Nat -> Int], NEW m \in Nat, NEW d \in Int,
         Shifted(f, g, m, d), NEW n \in Nat
  PROVE  SumTo(g)[n] = SumTo(f)[n] + (IF m <= n THEN d ELSE 0)
<1> DEFINE Bad == {k \in Nat : SumTo(g)[k] # SumTo(f)[k] + (IF m <= k THEN d ELSE 0)}
<1>1. SUFFICES ASSUME Bad # {} PROVE FALSE OBVIOUS
<1>2. PICK k \in Bad : \A j \in Bad : k <= j
  <2>1. Bad \subseteq Nat OBVIOUS
  <2> HIDE DEF Bad
  <2> QED BY <2>1, <1>1, LeastNat
<1>3. /\ SumTo(f) \in [Nat -> Int] /\ SumTo(f)[0] = f[0]
      /\ SumTo(g) \in [Nat -> Int] /\ SumTo(g)[0] = g[0]
  BY SumToStep
<1>4. k # 0
  <2>1. SUFFICES ASSUME k = 0 PROVE FALSE OBVIOUS
  <2>2. m <= 0 <=> m = 0 OBVIOUS
  <2> QED BY <2>1, <2>2, <1>2, <1>3 DEF Shifted
<1>5. k-1 \in Nat /\ k \in Nat \ {0} /\ ~(k <= k-1) BY <1>4
<1>6. SumTo(g)[k-1] = SumTo(f)[k-1] + (IF m <= k-1 THEN d ELSE 0) BY <1>5, <1>2
<1>7. SumTo(f)[k] = SumTo(f)[k-1] + f[k] /\ SumTo(g)[k] = SumTo(g)[k-1] + g[k]
  BY <1>5, SumToStep
<1>8. SumTo(f)[k-1] \in Int BY <1>3, <1>5
<1>9. SumTo(g)[k] = SumTo(f)[k] + (IF m <= k THEN d ELSE 0)
  <2>1. CASE k = m BY <2>1, <1>5, <1>6, <1>7, <1>8 DEF Shifted
  <2>2. CASE k # m
    <3>1. g[k] = f[k] BY <2>2, <1>5 DEF Shifted
    <3>2. m <= k-1 <=> m <= k BY <2>2, <1>5
    <3>3. f[k] \in Int BY <1>5
    <3> QED BY <3>1, <3>2, <3>3, <1>6, <1>7, <1>8
  <2> QED BY <2>1, <2>2
<1> QED BY <1>2, <1>9

-----------------------------------------------------------------------------
(* Sums over a finite set, as the fold the models use computes them. *)
SumOverSet(f, S) ==
  MapThenFoldSet(LAMBDA x, y : x + y, 0, LAMBDA i : f[i], LAMBDA s : CHOOSE x \in s : TRUE, S)

Chosen(T) == CHOOSE x \in T : TRUE
SumAt(g, f, T) == IF T = {} THEN 0 ELSE f[Chosen(T)] + g[T \ {Chosen(T)}]
Small(S, n) == {T \in SUBSET S : Cardinality(T) <= n}

(* The function over subsets that defines the sum exists. *)
LEMMA SubsetSumsExist ==
  ASSUME NEW S, IsFiniteSet(S), NEW f
  PROVE  \E g : g = [T \in SUBSET S |-> SumAt(g, f, T)]
<1> DEFINE IsSums(g, n) == g = [T \in Small(S, n) |-> SumAt(g, f, T)]
           Bad == {n \in Nat : ~\E g : IsSums(g, n)}
<1>1. \A T \in SUBSET S : IsFiniteSet(T) /\ Cardinality(T) \in Nat /\ Cardinality(T) <= Cardinality(S)
  BY FS_Subset, FS_CardinalityType
<1>2. ASSUME NEW T \in SUBSET S, T # {}
      PROVE  /\ Chosen(T) \in T /\ T \ {Chosen(T)} \in SUBSET S
             /\ Cardinality(T \ {Chosen(T)}) = Cardinality(T) - 1
  BY <1>1, <1>2, FS_RemoveElement DEF Chosen
<1>3. Bad = {}
  <2>1. SUFFICES ASSUME Bad # {} PROVE FALSE OBVIOUS
  <2>2. PICK n \in Bad : \A m \in Bad : n <= m
    <3>1. Bad \subseteq Nat OBVIOUS
    <3> HIDE DEF Bad
    <3> QED BY <2>1, <3>1, LeastNat
  <2>3. n \in Nat /\ ~\E g : IsSums(g, n) BY <2>2
  <2>4. n # 0
    <3> DEFINE g0 == [T \in Small(S, 0) |-> 0]
    <3>1. \A T \in Small(S, 0) : T = {} BY <1>1, <1>2, FS_EmptySet DEF Small
    <3>2. \A T \in Small(S, 0) : SumAt(g0, f, T) = 0 BY <3>1 DEF SumAt
    <3>3. IsSums(g0, 0) BY <3>2
    <3> QED BY <3>3, <2>3
  <2>5. n-1 \in Nat /\ ~(n <= n-1) BY <2>3, <2>4
  <2>6. PICK g : IsSums(g, n-1) BY <2>2, <2>5
  <2> DEFINE h == [T \in Small(S, n) |-> SumAt(g, f, T)]
  <2>7. ASSUME NEW T \in Small(S, n-1) PROVE T \in Small(S, n) /\ h[T] = g[T]
    <3>1. T \in Small(S, n) BY <1>1, <2>3, <2>5 DEF Small
    <3>2. g[T] = SumAt(g, f, T) BY <2>6
    <3> QED BY <3>1, <3>2
  <2>8. ASSUME NEW T \in Small(S, n) PROVE SumAt(g, f, T) = SumAt(h, f, T)
    <3> HIDE DEF h
    <3>1. CASE T = {} BY <3>1 DEF SumAt
    <3>2. CASE T # {}
      <4>1. T \ {Chosen(T)} \in Small(S, n-1) BY <1>1, <1>2, <3>2, <2>3 DEF Small
      <4> QED BY <4>1, <2>7, <3>2 DEF SumAt
    <3> QED BY <3>1, <3>2
  <2>9. h = [T \in Small(S, n) |-> SumAt(h, f, T)]
    <3>1. [T \in Small(S, n) |-> SumAt(g, f, T)] = [T \in Small(S, n) |-> SumAt(h, f, T)]
      <4> HIDE DEF h
      <4> QED BY <2>8
    <3> QED BY <3>1
  <2> HIDE DEF h
  <2> QED BY <2>9, <2>3
<1>4. Cardinality(S) \in Nat BY FS_CardinalityType
<1> HIDE DEF Bad
<1>5. PICK g : IsSums(g, Cardinality(S)) BY <1>3, <1>4 DEF Bad
<1>6. Small(S, Cardinality(S)) = SUBSET S BY <1>1 DEF Small
<1> QED BY <1>5, <1>6

(* A sum over nothing is 0; one over something is what it picks first and   *)
(* the sum over the rest.                                                   *)
LEMMA SumPicks ==
  ASSUME NEW S, IsFiniteSet(S), NEW f
  PROVE  SumOverSet(f, S) = IF S = {} THEN 0 ELSE f[Chosen(S)] + SumOverSet(f, S \ {Chosen(S)})
<1> DEFINE it(U) == CHOOSE g : g = [T \in SUBSET U |-> SumAt(g, f, T)]
<1>1. ASSUME NEW U, IsFiniteSet(U)
      PROVE  /\ it(U) = [T \in SUBSET U |-> SumAt(it(U), f, T)]
             /\ SumOverSet(f, U) = it(U)[U]
  <2>1. it(U) = [T \in SUBSET U |-> SumAt(it(U), f, T)] BY <1>1, SubsetSumsExist
  <2>2. SumOverSet(f, U) = (CHOOSE g : g = [T \in SUBSET U |->
                              IF T = {} THEN 0 ELSE f[CHOOSE x \in T : TRUE] + g[T \ {CHOOSE x \in T : TRUE}]])[U]
    BY DEF SumOverSet, MapThenFoldSet
  <2> QED BY <2>1, <2>2 DEF SumAt, Chosen
<1> HIDE DEF it
<1>2. CASE S = {} BY <1>1, <1>2 DEF SumAt
<1>3. CASE S # {}
  <2> DEFINE U == S \ {Chosen(S)}
  <2>1. IsFiniteSet(U) /\ U \subseteq S BY FS_Subset
  <2>2. SumOverSet(f, S) = f[Chosen(S)] + it(S)[U] BY <1>1, <1>3 DEF SumAt
  <2>3. it(S)[U] = it(U)[U]
    <3> DEFINE Bad == {n \in Nat : \E T \in SUBSET U : Cardinality(T) = n /\ it(S)[T] # it(U)[T]}
    <3>1. Bad = {}
      <4>1. SUFFICES ASSUME Bad # {} PROVE FALSE OBVIOUS
      <4>2. PICK n \in Bad : \A m \in Bad : n <= m
        <5>1. Bad \subseteq Nat OBVIOUS
        <5> HIDE DEF Bad
        <5> QED BY <4>1, <5>1, LeastNat
      <4>3. PICK T \in SUBSET U : Cardinality(T) = n /\ it(S)[T] # it(U)[T] BY <4>2
      <4>4. it(S)[T] = SumAt(it(S), f, T) /\ it(U)[T] = SumAt(it(U), f, T)
        <5>1. T \in SUBSET S BY <2>1
        <5> QED BY <5>1, <1>1, <2>1
      <4>5. T # {} BY <4>3, <4>4 DEF SumAt
      <4> DEFINE R == T \ {Chosen(T)}
      <4>6. R \in SUBSET U /\ Cardinality(R) = n - 1 /\ n - 1 \in Nat
        <5>1. Chosen(T) \in T BY <4>5 DEF Chosen
        <5>2. IsFiniteSet(T) BY <2>1, FS_Subset
        <5>3. Cardinality(R) \in Nat /\ Cardinality(R) = Cardinality(T) - 1
          BY <5>1, <5>2, FS_RemoveElement, FS_CardinalityType
        <5> QED BY <5>3, <4>3
      <4>7. n \in Nat /\ ~(n <= n - 1) BY <4>2
      <4>8. it(S)[R] = it(U)[R] BY <4>6, <4>7, <4>2
      <4> QED BY <4>3, <4>4, <4>5, <4>8 DEF SumAt
    <3>2. Cardinality(U) \in Nat BY <2>1, FS_CardinalityType
    <3> QED BY <3>1, <3>2
  <2> QED BY <1>1, <2>1, <2>2, <2>3, <1>3
<1> QED BY <1>2, <1>3

(* A sum of integers is one. *)
LEMMA SumInt ==
  ASSUME NEW S, IsFiniteSet(S), NEW f, \A x \in S : f[x] \in Int
  PROVE  SumOverSet(f, S) \in Int
<1> DEFINE Bad == {n \in Nat : \E T \in SUBSET S : Cardinality(T) = n /\ SumOverSet(f, T) \notin Int}
<1>1. Bad = {}
  <2>1. SUFFICES ASSUME Bad # {} PROVE FALSE OBVIOUS
  <2>2. PICK n \in Bad : \A m \in Bad : n <= m
    <3>1. Bad \subseteq Nat OBVIOUS
    <3> HIDE DEF Bad
    <3> QED BY <2>1, <3>1, LeastNat
  <2>3. PICK T \in SUBSET S : Cardinality(T) = n /\ SumOverSet(f, T) \notin Int BY <2>2
  <2>4. IsFiniteSet(T) BY FS_Subset
  <2>5. T # {}
    <3>1. T = {} => SumOverSet(f, T) = 0 BY <2>4, SumPicks
    <3> QED BY <3>1, <2>3
  <2> DEFINE R == T \ {Chosen(T)}
  <2>6. Chosen(T) \in T BY <2>5 DEF Chosen
  <2>7. R \in SUBSET S /\ Cardinality(R) = n - 1 /\ n - 1 \in Nat
    <3>1. Cardinality(R) \in Nat /\ Cardinality(R) = Cardinality(T) - 1
      BY <2>4, <2>6, FS_RemoveElement, FS_CardinalityType, FS_Subset
    <3> QED BY <3>1, <2>3
  <2>8. n \in Nat /\ ~(n <= n - 1) BY <2>2
  <2>9. SumOverSet(f, R) \in Int BY <2>7, <2>8, <2>2
  <2>10. SumOverSet(f, T) = f[Chosen(T)] + SumOverSet(f, R) BY <2>4, <2>5, SumPicks
  <2> QED BY <2>3, <2>6, <2>9, <2>10
<1>2. Cardinality(S) \in Nat BY FS_CardinalityType
<1> QED BY <1>1, <1>2

(* Any element may be taken out first. *)
LEMMA SumTakesOut ==
  ASSUME NEW S, IsFiniteSet(S), NEW f, \A x \in S : f[x] \in Int, NEW x \in S
  PROVE  SumOverSet(f, S) = f[x] + SumOverSet(f, S \ {x})
<1> DEFINE Splits(T, y) == SumOverSet(f, T) = f[y] + SumOverSet(f, T \ {y})
           Bad == {n \in Nat : \E T \in SUBSET S : Cardinality(T) = n /\ \E y \in T : ~Splits(T, y)}
<1>1. Bad = {}
  <2>1. SUFFICES ASSUME Bad # {} PROVE FALSE OBVIOUS
  <2>2. PICK n \in Bad : \A m \in Bad : n <= m
    <3>1. Bad \subseteq Nat OBVIOUS
    <3> HIDE DEF Bad
    <3> QED BY <2>1, <3>1, LeastNat
  <2>15. PICK T \in SUBSET S : Cardinality(T) = n /\ \E y \in T : ~Splits(T, y) BY <2>2
  <2>3. PICK y \in T : Cardinality(T) = n /\ ~Splits(T, y) BY <2>15
  <2> DEFINE z == Chosen(T)
             R == T \ {z}
             Q == T \ {y}
             P == T \ {y, z}
  <2>4. IsFiniteSet(T) /\ IsFiniteSet(R) /\ IsFiniteSet(Q) /\ IsFiniteSet(P) BY FS_Subset
  <2>5. z \in T BY DEF Chosen
  <2>6. Splits(T, z) BY <2>4, SumPicks
  <2>7. y # z BY <2>6, <2>3
  <2>8. Cardinality(R) = n - 1 /\ Cardinality(Q) = n - 1 /\ n - 1 \in Nat
    <3>1. Cardinality(R) \in Nat /\ Cardinality(R) = Cardinality(T) - 1
      BY <2>4, <2>5, FS_RemoveElement, FS_CardinalityType
    <3>2. Cardinality(Q) = Cardinality(T) - 1
      BY <2>4, FS_RemoveElement
    <3> QED BY <3>1, <3>2, <2>3
  <2>9. n \in Nat /\ ~(n <= n - 1) BY <2>2
  <2>10. Splits(R, y) /\ Splits(Q, z)
    <3>1. R \in SUBSET S /\ y \in R /\ Q \in SUBSET S /\ z \in Q BY <2>5, <2>7
    <3> QED BY <3>1, <2>8, <2>9, <2>2
  <2>11. R \ {y} = P /\ Q \ {z} = P OBVIOUS
  <2>12. f[y] \in Int /\ f[z] \in Int /\ SumOverSet(f, P) \in Int
    <3>1. \A v \in P : f[v] \in Int OBVIOUS
    <3>2. f[y] \in Int /\ f[z] \in Int BY <2>5
    <3> HIDE DEF P
    <3> QED BY <3>1, <3>2, <2>4, SumInt
  <2>13. /\ SumOverSet(f, T) = f[z] + SumOverSet(f, R)
         /\ SumOverSet(f, R) = f[y] + SumOverSet(f, P)
         /\ SumOverSet(f, Q) = f[z] + SumOverSet(f, P)
    BY <2>6, <2>10, <2>11
  <2>14. ~(SumOverSet(f, T) = f[y] + SumOverSet(f, Q)) BY <2>3
  <2> HIDE DEF z, R, Q, P
  <2> QED BY <2>12, <2>13, <2>14
<1>2. Cardinality(S) \in Nat BY FS_CardinalityType
<1> HIDE DEF Splits
<1>3. Splits(S, x) BY <1>1, <1>2
<1> QED BY <1>3 DEF Splits

(* Two functions that agree have the same sum. *)
LEMMA SumAgrees ==
  ASSUME NEW S, IsFiniteSet(S), NEW f, NEW g, \A x \in S : f[x] = g[x]
  PROVE  SumOverSet(f, S) = SumOverSet(g, S)
<1> DEFINE Bad == {n \in Nat : \E T \in SUBSET S : Cardinality(T) = n /\ SumOverSet(f, T) # SumOverSet(g, T)}
<1>1. Bad = {}
  <2>1. SUFFICES ASSUME Bad # {} PROVE FALSE OBVIOUS
  <2>2. PICK n \in Bad : \A m \in Bad : n <= m
    <3>1. Bad \subseteq Nat OBVIOUS
    <3> HIDE DEF Bad
    <3> QED BY <2>1, <3>1, LeastNat
  <2>3. PICK T \in SUBSET S : Cardinality(T) = n /\ SumOverSet(f, T) # SumOverSet(g, T) BY <2>2
  <2>4. IsFiniteSet(T) BY FS_Subset
  <2>5. T # {} BY <2>3, <2>4, SumPicks
  <2> DEFINE R == T \ {Chosen(T)}
  <2>6. Chosen(T) \in T BY <2>5 DEF Chosen
  <2>7. R \in SUBSET S /\ Cardinality(R) = n - 1 /\ n - 1 \in Nat
    <3>1. Cardinality(R) \in Nat /\ Cardinality(R) = Cardinality(T) - 1
      BY <2>4, <2>6, FS_RemoveElement, FS_CardinalityType, FS_Subset
    <3> QED BY <3>1, <2>3
  <2>8. n \in Nat /\ ~(n <= n - 1) BY <2>2
  <2>9. SumOverSet(f, R) = SumOverSet(g, R) BY <2>7, <2>8, <2>2
  <2>10. SumOverSet(f, T) = f[Chosen(T)] + SumOverSet(f, R) /\ SumOverSet(g, T) = g[Chosen(T)] + SumOverSet(g, R)
    BY <2>4, <2>5, SumPicks
  <2> QED BY <2>3, <2>6, <2>9, <2>10
<1>2. Cardinality(S) \in Nat BY FS_CardinalityType
<1> QED BY <1>1, <1>2

(* Changing one summand changes the sum by as much. *)
LEMMA SumChanges ==
  ASSUME NEW S, IsFiniteSet(S), NEW f, NEW g, NEW x \in S,
         \A y \in S : f[y] \in Int, \A y \in S \ {x} : g[y] = f[y], g[x] \in Int
  PROVE  SumOverSet(g, S) = SumOverSet(f, S) + (g[x] - f[x])
<1> DEFINE R == S \ {x}
<1>1. IsFiniteSet(R) BY FS_Subset
<1>2. SumOverSet(g, R) = SumOverSet(f, R) BY <1>1, SumAgrees
<1>3. SumOverSet(f, S) = f[x] + SumOverSet(f, R) BY SumTakesOut
<1>4. SumOverSet(g, S) = g[x] + SumOverSet(g, R)
  <2>1. \A y \in S : g[y] \in Int OBVIOUS
  <2> QED BY <2>1, SumTakesOut
<1>5. SumOverSet(f, R) \in Int /\ f[x] \in Int
  <2>1. \A y \in R : f[y] \in Int OBVIOUS
  <2> QED BY <2>1, <1>1, SumInt
<1> HIDE DEF R
<1> QED BY <1>2, <1>3, <1>4, <1>5

(* A family of subsets that holds the empty set, and with a set less one of *)
(* its elements the set, holds all subsets of a finite set.                 *)
LEMMA SubsetInduction ==
  ASSUME NEW S, IsFiniteSet(S), NEW D, {} \in D,
         \A T \in SUBSET S : \A x \in T : T \ {x} \in D => T \in D
  PROVE  S \in D
<1> DEFINE Bad == {n \in Nat : \E T \in SUBSET S : Cardinality(T) = n /\ T \notin D}
<1>1. Bad = {}
  <2>1. SUFFICES ASSUME Bad # {} PROVE FALSE OBVIOUS
  <2>2. PICK n \in Bad : \A m \in Bad : n <= m
    <3>1. Bad \subseteq Nat OBVIOUS
    <3> HIDE DEF Bad
    <3> QED BY <2>1, <3>1, LeastNat
  <2>3. PICK T \in SUBSET S : Cardinality(T) = n /\ T \notin D BY <2>2
  <2>4. IsFiniteSet(T) BY FS_Subset
  <2>5. PICK x \in T : TRUE BY <2>3
  <2>6. T \ {x} \in SUBSET S /\ Cardinality(T \ {x}) = n - 1 /\ n - 1 \in Nat
    <3>1. Cardinality(T \ {x}) = Cardinality(T) - 1 BY <2>4, FS_RemoveElement
    <3>2. IsFiniteSet(T \ {x}) BY <2>4, FS_RemoveElement
    <3>3. Cardinality(T \ {x}) \in Nat BY <3>2, FS_CardinalityType
    <3> QED BY <3>1, <3>3, <2>3
  <2>7. n \in Nat /\ ~(n <= n - 1) BY <2>2
  <2>8. T \ {x} \in D BY <2>6, <2>7, <2>2
  <2> QED BY <2>3, <2>5, <2>8
<1>2. Cardinality(S) \in Nat BY FS_CardinalityType
<1> QED BY <1>1, <1>2

(* The sum over nothing is 0. *)
LEMMA SumEmpty == ASSUME NEW f PROVE SumOverSet(f, {}) = 0
BY SumPicks, FS_EmptySet

(* The sum over two sets that share nothing. *)
LEMMA SumDisjoint ==
  ASSUME NEW S, IsFiniteSet(S), NEW T, IsFiniteSet(T), S \cap T = {}, NEW f,
         \A x \in S \cup T : f[x] \in Int
  PROVE  SumOverSet(f, S \cup T) = SumOverSet(f, S) + SumOverSet(f, T)
<1> DEFINE D == {U \in SUBSET S : SumOverSet(f, U \cup T) = SumOverSet(f, U) + SumOverSet(f, T)}
<1>1. SumOverSet(f, T) \in Int
  <2>1. \A x \in T : f[x] \in Int OBVIOUS
  <2> QED BY <2>1, SumInt
<1>2. {} \in D
  <2>1. {} \cup T = T OBVIOUS
  <2> QED BY <2>1, <1>1, SumEmpty
<1>3. ASSUME NEW U \in SUBSET S, NEW x \in U, U \ {x} \in D PROVE U \in D
  <2> DEFINE R == U \ {x}
  <2>1. IsFiniteSet(U) /\ IsFiniteSet(R)
    <3>1. U \in SUBSET S /\ R \in SUBSET S OBVIOUS
    <3> QED BY <3>1, FS_Subset
  <2>2. IsFiniteSet(U \cup T) BY <2>1, FS_Union
  <2>3. (U \cup T) \ {x} = R \cup T OBVIOUS
  <2>4. SumOverSet(f, U \cup T) = f[x] + SumOverSet(f, R \cup T)
    <3>1. \A y \in U \cup T : f[y] \in Int OBVIOUS
    <3>2. x \in U \cup T OBVIOUS
    <3> HIDE DEF R
    <3> QED BY <3>1, <3>2, <2>2, <2>3, SumTakesOut
  <2>5. SumOverSet(f, U) = f[x] + SumOverSet(f, R)
    <3>1. \A y \in U : f[y] \in Int OBVIOUS
    <3> QED BY <3>1, <2>1, SumTakesOut
  <2>6. SumOverSet(f, R) \in Int
    <3>1. \A y \in R : f[y] \in Int OBVIOUS
    <3> QED BY <3>1, <2>1, SumInt
  <2>7. SumOverSet(f, R \cup T) = SumOverSet(f, R) + SumOverSet(f, T) BY <1>3
  <2>8. f[x] \in Int OBVIOUS
  <2> HIDE DEF R
  <2> QED BY <2>4, <2>5, <2>6, <2>7, <2>8, <1>1
<1> HIDE DEF D
<1>4. S \in D BY <1>2, <1>3, SubsetInduction
<1> QED BY <1>4 DEF D

(* A sum of natural numbers is one, and grows with the set. *)
LEMMA SumNat ==
  ASSUME NEW S, IsFiniteSet(S), NEW f, \A x \in S : f[x] \in Nat
  PROVE  SumOverSet(f, S) \in Nat
<1> DEFINE D == {U \in SUBSET S : SumOverSet(f, U) \in Nat}
<1>1. {} \in D BY SumEmpty
<1>2. ASSUME NEW U \in SUBSET S, NEW x \in U, U \ {x} \in D PROVE U \in D
  <2>1. IsFiniteSet(U) BY FS_Subset
  <2>2. SumOverSet(f, U) = f[x] + SumOverSet(f, U \ {x})
    <3>1. \A y \in U : f[y] \in Int OBVIOUS
    <3> QED BY <3>1, <2>1, SumTakesOut
  <2>3. f[x] \in Nat /\ SumOverSet(f, U \ {x}) \in Nat BY <1>2
  <2> QED BY <2>2, <2>3
<1> HIDE DEF D
<1>3. S \in D BY <1>1, <1>2, SubsetInduction
<1> QED BY <1>3 DEF D

LEMMA SumPart ==
  ASSUME NEW S, IsFiniteSet(S), NEW f, \A x \in S : f[x] \in Int, NEW T \in SUBSET S
  PROVE  /\ SumOverSet(f, S) = SumOverSet(f, T) + SumOverSet(f, S \ T)
         /\ SumOverSet(f, T) \in Int /\ SumOverSet(f, S \ T) \in Int
<1>1. IsFiniteSet(T) /\ IsFiniteSet(S \ T)
  <2>1. T \in SUBSET S /\ S \ T \in SUBSET S OBVIOUS
  <2> QED BY <2>1, FS_Subset
<1>2. T \cup (S \ T) = S /\ T \cap (S \ T) = {} OBVIOUS
<1>3. \A x \in T \cup (S \ T) : f[x] \in Int OBVIOUS
<1>4. SumOverSet(f, T \cup (S \ T)) = SumOverSet(f, T) + SumOverSet(f, S \ T)
  <2> DEFINE R == S \ T
  <2>1. IsFiniteSet(R) /\ T \cap R = {} /\ \A x \in T \cup R : f[x] \in Int BY <1>1, <1>2, <1>3
  <2> HIDE DEF R
  <2>2. SumOverSet(f, T \cup R) = SumOverSet(f, T) + SumOverSet(f, R) BY <1>1, <2>1, SumDisjoint
  <2> QED BY <2>2 DEF R
<1>5. (\A x \in T : f[x] \in Int) /\ \A x \in S \ T : f[x] \in Int OBVIOUS
<1>6. SumOverSet(f, T) \in Int BY <1>1, <1>5, SumInt
<1>7. SumOverSet(f, S \ T) \in Int BY <1>1, <1>5, SumInt
<1> QED BY <1>2, <1>4, <1>6, <1>7

LEMMA SumGrows ==
  ASSUME NEW S, IsFiniteSet(S), NEW f, \A x \in S : f[x] \in Nat, NEW T \in SUBSET S
  PROVE  SumOverSet(f, T) <= SumOverSet(f, S)
<1>1. \A x \in S : f[x] \in Int OBVIOUS
<1>2. /\ SumOverSet(f, S) = SumOverSet(f, T) + SumOverSet(f, S \ T)
      /\ SumOverSet(f, T) \in Int
  BY <1>1, SumPart
<1>3. SumOverSet(f, S \ T) \in Nat
  <2>1. S \ T \in SUBSET S /\ \A x \in S \ T : f[x] \in Nat OBVIOUS
  <2> QED BY <2>1, FS_Subset, SumNat
<1> QED BY <1>2, <1>3

(* Summands that are renamed one to one keep their sum. *)
Images(b, U) == {b[x] : x \in U}
LEMMA SumRenamed ==
  ASSUME NEW S, IsFiniteSet(S), NEW b, NEW f, NEW g,
         \A x, y \in S : b[x] = b[y] => x = y,
         \A x \in S : g[x] = f[b[x]] /\ g[x] \in Int
  PROVE  IsFiniteSet(Images(b, S)) /\ SumOverSet(g, S) = SumOverSet(f, Images(b, S))
<1> DEFINE D == {U \in SUBSET S : IsFiniteSet(Images(b, U)) /\ SumOverSet(g, U) = SumOverSet(f, Images(b, U))}
<1>1. {} \in D
  <2>1. Images(b, {}) = {} BY DEF Images
  <2> QED BY <2>1, SumEmpty, FS_EmptySet
<1>2. ASSUME NEW U \in SUBSET S, NEW x \in U, U \ {x} \in D PROVE U \in D
  <2> DEFINE R == U \ {x}
             T == Images(b, R)
             V == Images(b, U)
  <2>1. IsFiniteSet(U) BY FS_Subset
  <2>2. IsFiniteSet(T) /\ SumOverSet(g, R) = SumOverSet(f, T) BY <1>2
  <2>3. V = T \cup {b[x]} /\ b[x] \in V BY DEF Images
  <2>4. V \ {b[x]} = T
    <3>1. \A y \in R : b[y] # b[x] OBVIOUS
    <3>2. b[x] \notin T BY <3>1 DEF Images
    <3> QED BY <2>3, <3>2
  <2>5. \A y \in V : f[y] \in Int BY DEF Images
  <2>6. g[x] = f[b[x]] OBVIOUS
  <2>7. SumOverSet(g, U) = g[x] + SumOverSet(g, R)
    <3>1. \A y \in U : g[y] \in Int OBVIOUS
    <3> QED BY <3>1, <2>1, SumTakesOut
  <2> HIDE DEF T, R, V
  <2>8. IsFiniteSet(V) BY <2>2, <2>3, FS_AddElement
  <2>9. SumOverSet(f, V) = f[b[x]] + SumOverSet(f, T) BY <2>3, <2>4, <2>5, <2>8, SumTakesOut
  <2>10. SumOverSet(g, U) = SumOverSet(f, V) BY <2>2, <2>6, <2>7, <2>9
  <2>11. IsFiniteSet(Images(b, U)) /\ SumOverSet(g, U) = SumOverSet(f, Images(b, U)) BY <2>8, <2>10 DEF V
  <2> QED BY <2>11
<1> HIDE DEF D
<1>3. S \in D BY <1>1, <1>2, SubsetInduction
<1> QED BY <1>3 DEF D

-----------------------------------------------------------------------------
(* Ranks *)

(* The elements of S that are less than x in the order R, a set of pairs.   *)
Preceding(R, S, x) == {y \in S : <<y, x>> \in R}

(* Every strict total order ranks a finite set: there is one element for    *)
(* every number of elements below it.                                       *)
LEMMA RankExists ==
  ASSUME NEW S, IsFiniteSet(S), NEW R,
         \A x \in S : <<x, x>> \notin R,
         \A x, y \in S : x # y => <<x, y>> \in R \/ <<y, x>> \in R,
         \A x, y, z \in S : <<x, y>> \in R /\ <<y, z>> \in R => <<x, z>> \in R
  PROVE  /\ \A n \in 1..Cardinality(S) : \E x \in S : Cardinality(Preceding(R, S, x)) = n - 1
         /\ \A x \in S : Cardinality(Preceding(R, S, x)) + 1 \in 1..Cardinality(S)
         /\ \A x, y \in S : Cardinality(Preceding(R, S, x)) = Cardinality(Preceding(R, S, y)) => x = y
<1> DEFINE c == Cardinality(S)
           rank == [x \in S |-> Cardinality(Preceding(R, S, x)) + 1]
<1>1. c \in Nat BY FS_CardinalityType
<1>2. ASSUME NEW x \in S PROVE IsFiniteSet(Preceding(R, S, x)) /\ Cardinality(Preceding(R, S, x)) \in Nat
  <2>1. Preceding(R, S, x) \in SUBSET S BY DEF Preceding
  <2> QED BY <2>1, FS_Subset, FS_CardinalityType
<1>3. ASSUME NEW x \in S PROVE Cardinality(Preceding(R, S, x)) + 1 \in 1..c
  <2>1. Preceding(R, S, x) \in SUBSET S /\ Preceding(R, S, x) # S BY DEF Preceding
  <2>2. Cardinality(Preceding(R, S, x)) <= c /\ Cardinality(Preceding(R, S, x)) # c BY <2>1, FS_Subset
  <2> QED BY <1>1, <1>2, <2>2
<1>4. ASSUME NEW x \in S, NEW y \in S, <<x, y>> \in R
      PROVE  Cardinality(Preceding(R, S, x)) < Cardinality(Preceding(R, S, y))
  <2> DEFINE A == Preceding(R, S, x)
             B == Preceding(R, S, y)
  <2>1. A \in SUBSET B /\ x \in B /\ x \notin A BY <1>4 DEF Preceding
  <2>2. IsFiniteSet(B) /\ Cardinality(A) \in Nat /\ Cardinality(B) \in Nat BY <1>2
  <2> HIDE DEF A, B
  <2>3. Cardinality(A) <= Cardinality(B) /\ Cardinality(A) # Cardinality(B) BY <2>1, <2>2, FS_Subset
  <2>4. Cardinality(A) < Cardinality(B) BY <2>2, <2>3
  <2> QED BY <2>4 DEF A, B
<1>5. ASSUME NEW x \in S, NEW y \in S, Cardinality(Preceding(R, S, x)) = Cardinality(Preceding(R, S, y))
      PROVE  x = y
  <2>1. SUFFICES ASSUME x # y PROVE FALSE OBVIOUS
  <2>2. CASE <<x, y>> \in R
    <3>1. Cardinality(Preceding(R, S, x)) < Cardinality(Preceding(R, S, y)) BY <2>2, <1>4
    <3> QED BY <3>1, <1>2, <1>5
  <2>3. CASE <<y, x>> \in R
    <3>1. Cardinality(Preceding(R, S, y)) < Cardinality(Preceding(R, S, x)) BY <2>3, <1>4
    <3> QED BY <3>1, <1>2, <1>5
  <2> QED BY <2>1, <2>2, <2>3
<1>6. rank \in Injection(S, 1..c)
  <2>1. rank \in [S -> 1..c] BY <1>3
  <2>2. ASSUME NEW x \in S, NEW y \in S, rank[x] = rank[y] PROVE x = y
    <3>1. Cardinality(Preceding(R, S, x)) = Cardinality(Preceding(R, S, y)) BY <2>2, <1>2
    <3> QED BY <3>1, <1>5
  <2> HIDE DEF rank
  <2> QED BY <2>1, <2>2 DEF Injection, IsInjective
<1>7. IsFiniteSet(1..c) /\ Cardinality(1..c) = c BY <1>1, FS_Interval
<1>8. rank \in Surjection(S, 1..c)
  <2> HIDE DEF rank
  <2> QED BY <1>6, <1>7, FS_Injection DEF c
<1>9. ASSUME NEW n \in 1..c PROVE \E x \in S : Cardinality(Preceding(R, S, x)) = n - 1
  <2>1. PICK x \in S : rank[x] = n
    <3> HIDE DEF rank
    <3> QED BY <1>8 DEF Surjection
  <2> QED BY <2>1, <1>2
<1> QED BY <1>3, <1>5, <1>9

-----------------------------------------------------------------------------
(* Order and division *)

(* Division by a day keeps the order.                                       *)
LEMMA DivMono ==
  ASSUME NEW a \in Nat, NEW b \in Nat, a <= b, NEW T \in Nat \ {0}
  PROVE  a \div T <= b \div T /\ a \div T \in Nat
<1> DEFINE p == a \div T
           q == b \div T
<1>1. /\ p \in Int /\ q \in Int /\ T \in Int /\ T > 0 /\ a \in Int /\ b \in Int
      /\ T * p <= a /\ a < T * p + T /\ T * q <= b /\ b < T * q + T
  OBVIOUS
<1> HIDE DEF p, q
<1>2. p >= 0
  <2>1. SUFFICES ASSUME p < 0 PROVE FALSE BY <1>1
  <2>2. T * p + T <= 0 BY <1>1, <2>1
  <2> QED BY <1>1, <2>2
<1>3. p <= q
  <2>1. SUFFICES ASSUME q < p PROVE FALSE BY <1>1
  <2>2. T * q + T <= T * p BY <1>1, <2>1
  <2> QED BY <1>1, <2>2
<1> QED BY <1>1, <1>2, <1>3 DEF p, q

(* Indices in the order of their keys, and of themselves when the keys are   *)
(* equal.                                                                   *)
Earlier(key, i, j) == key[i] < key[j] \/ (key[i] = key[j] /\ i < j)
Sorted(key, S, s) ==
  /\ s \in [1..Cardinality(S) -> S]
  /\ \A j, k \in 1..Cardinality(S) : j < k => Earlier(key, s[j], s[k])

(* A set of indices with keys has a first one.                              *)
LEMMA FirstExists ==
  ASSUME NEW key, NEW S \in SUBSET Nat, S # {}, \A i \in S : key[i] \in Nat
  PROVE  \E m \in S : \A i \in S \ {m} : Earlier(key, m, i)
<1> DEFINE keys == {key[i] : i \in S}
<1>1. PICK a \in keys : \A b \in keys : a <= b
  <2>1. keys \subseteq Nat /\ keys # {} OBVIOUS
  <2> HIDE DEF keys
  <2> QED BY <2>1, LeastNat
<1> DEFINE least == {i \in S : key[i] = a}
<1>2. PICK m \in least : \A i \in least : m <= i
  <2>1. least \subseteq Nat /\ least # {} BY <1>1
  <2> HIDE DEF least
  <2> QED BY <2>1, LeastNat
<1>3. ASSUME NEW i \in S \ {m} PROVE Earlier(key, m, i)
  <2>1. key[m] = a /\ m \in Nat /\ i \in Nat /\ a \in Nat /\ key[i] \in Nat BY <1>2, <1>3, <1>1
  <2>2. a <= key[i] BY <1>1, <1>3
  <2>3. CASE key[i] = a
    <3>1. m <= i BY <1>2, <1>3, <2>3
    <3> QED BY <1>3, <2>1, <2>3, <3>1 DEF Earlier
  <2>4. CASE key[i] # a BY <2>1, <2>2, <2>4 DEF Earlier
  <2> QED BY <2>3, <2>4
<1> QED BY <1>2, <1>3

(* A finite set of indices with keys can be put in their order.             *)
LEMMA SortedExists ==
  ASSUME NEW key, NEW S \in SUBSET Nat, IsFiniteSet(S), \A i \in S : key[i] \in Nat
  PROVE  \E s : Sorted(key, S, s)
<1> DEFINE Bad == {c \in Nat : \E R \in SUBSET S : IsFiniteSet(R) /\ Cardinality(R) = c /\ ~\E s : Sorted(key, R, s)}
<1>1. SUFFICES ASSUME Bad # {} PROVE FALSE
  <2>1. Cardinality(S) \in Nat BY FS_CardinalityType
  <2> QED BY <2>1
<1>2. PICK c \in Bad : \A d \in Bad : c <= d
  <2>1. Bad \subseteq Nat OBVIOUS
  <2> HIDE DEF Bad
  <2> QED BY <1>1, <2>1, LeastNat
<1>3. PICK R \in SUBSET S : IsFiniteSet(R) /\ Cardinality(R) = c /\ ~\E s : Sorted(key, R, s) BY <1>2
<1>4. R # {}
  <2>1. SUFFICES ASSUME R = {} PROVE FALSE OBVIOUS
  <2>2. c = 0 BY <2>1, <1>3, FS_EmptySet
  <2> DEFINE s == [k \in 1..0 |-> 0]
  <2>3. s \in [1..0 -> R] /\ \A j \in 1..0 : FALSE OBVIOUS
  <2> HIDE DEF s
  <2>4. Sorted(key, R, s) BY <2>2, <2>3, <1>3 DEF Sorted
  <2> QED BY <2>4, <1>3
<1>5. PICK m \in R : \A i \in R \ {m} : Earlier(key, m, i)
  <2>1. R \in SUBSET Nat /\ \A i \in R : key[i] \in Nat OBVIOUS
  <2> QED BY <1>4, <2>1, FirstExists
<1> DEFINE Q == R \ {m}
<1>6. c \in Nat /\ c # 0 /\ IsFiniteSet(Q) /\ Cardinality(Q) = c-1
  <2>1. IsFiniteSet(Q) /\ Cardinality(Q) = Cardinality(R)-1 BY <1>3, FS_RemoveElement
  <2>2. Cardinality(Q) \in Nat /\ Cardinality(R) \in Nat BY <1>3, <2>1, FS_CardinalityType
  <2> HIDE DEF Q
  <2> QED BY <1>3, <2>1, <2>2
<1>7. PICK s : Sorted(key, Q, s)
  <2>1. c-1 \in Nat /\ ~(c <= c-1) BY <1>6
  <2>2. c-1 \notin Bad BY <2>1, <1>2
  <2>3. Q \in SUBSET S OBVIOUS
  <2> HIDE DEF Q
  <2> QED BY <1>6, <2>1, <2>2, <2>3
<1> DEFINE t == [k \in 1..c |-> IF k = 1 THEN m ELSE s[k-1]]
<1>8. /\ s \in [1..(c-1) -> Q]
      /\ \A j, k \in 1..(c-1) : j < k => Earlier(key, s[j], s[k])
  BY <1>6, <1>7 DEF Sorted
<1>9. \A k \in 1..c : k # 1 => k-1 \in 1..(c-1) BY <1>6
<1>10. t \in [1..c -> R]
  <2>1. ASSUME NEW k \in 1..c PROVE (IF k = 1 THEN m ELSE s[k-1]) \in R
    <3>1. CASE k = 1 BY <3>1
    <3>2. CASE k # 1
      <4>1. s[k-1] \in Q BY <3>2, <1>8, <1>9
      <4> QED BY <3>2, <4>1
    <3> QED BY <3>1, <3>2
  <2> QED BY <2>1
<1>11. ASSUME NEW j \in 1..c, NEW k \in 1..c, j < k PROVE Earlier(key, t[j], t[k])
  <2>1. k # 1 /\ t[k] = s[k-1] /\ k-1 \in 1..(c-1) BY <1>6, <1>9, <1>11
  <2>2. s[k-1] \in Q BY <2>1, <1>8
  <2>3. CASE j = 1
    <3>1. t[j] = m BY <2>3
    <3> HIDE DEF t
    <3>2. Earlier(key, m, s[k-1]) BY <2>2, <1>5
    <3> QED BY <2>1, <3>1, <3>2
  <2>4. CASE j # 1
    <3>1. t[j] = s[j-1] /\ j-1 \in 1..(c-1) /\ j-1 < k-1 BY <2>4, <1>9, <1>11
    <3> HIDE DEF t, Q
    <3>2. Earlier(key, s[j-1], s[k-1]) BY <2>1, <3>1, <1>8
    <3> QED BY <2>1, <3>1, <3>2
  <2> QED BY <2>3, <2>4
<1> HIDE DEF t, Q, Bad
<1>12. Sorted(key, R, t) BY <1>3, <1>10, <1>11 DEF Sorted
<1> QED BY <1>12, <1>3

(* and then each of them occurs in it.                                      *)
LEMMA SortedOnto ==
  ASSUME NEW key, NEW S \in SUBSET Nat, IsFiniteSet(S), NEW s, Sorted(key, S, s), \A i \in S : key[i] \in Nat
  PROVE  \A i \in S : \E k \in 1..Cardinality(S) : s[k] = i
<1> DEFINE c == Cardinality(S)
<1>1. c \in Nat BY FS_CardinalityType
<1>2. s \in [1..c -> S] /\ \A j, k \in 1..c : j < k => Earlier(key, s[j], s[k]) BY DEF Sorted
<1> HIDE DEF c
<1>3. ASSUME NEW j \in 1..c, NEW k \in 1..c, s[j] = s[k] PROVE j = k
  <2>1. s[j] \in Nat /\ key[s[j]] \in Nat BY <1>2
  <2>2. ~Earlier(key, s[j], s[j]) BY <2>1 DEF Earlier
  <2>3. ~(j < k) /\ ~(k < j) BY <2>2, <1>2, <1>3
  <2> QED BY <2>3, <1>1
<1>4. s \in Injection(1..c, S)
  <2>1. \A a, b \in 1..c : s[a] = s[b] => a = b BY <1>3
  <2> QED BY <1>2, <2>1 DEF Injection, IsInjective
<1>5. Cardinality(1..c) = Cardinality(S)
  <2>1. Cardinality(1..c) = IF 1 > c THEN 0 ELSE c - 1 + 1 BY <1>1, FS_Interval
  <2> QED BY <2>1, <1>1 DEF c
<1>6. s \in Surjection(1..c, S) BY <1>4, <1>5, FS_Injection
<1> QED BY <1>6 DEF Surjection, c

-----------------------------------------------------------------------------
(* Sequences whose elements have no type *)

Listed(s) == s \in Seq(Range(s))

(* A sequence over some set is a sequence over its own elements.            *)
LEMMA ListedOfSeq ==
  ASSUME NEW T, NEW s \in Seq(T)
  PROVE  Listed(s)
<1>1. s \in [1..Len(s) -> T] /\ Len(s) \in Nat OBVIOUS
<1>2. s \in [1..Len(s) -> Range(s)] BY <1>1 DEF Range
<1> QED BY <1>1, <1>2 DEF Listed

(* A function on 1..n lists its values.                                     *)
LEMMA ListedOfFunction ==
  ASSUME NEW T, NEW n \in Nat, NEW s \in [1..n -> T]
  PROVE  Listed(s) /\ Len(s) = n /\ DOMAIN s = 1..n
<1>1. s \in Seq(T) /\ Len(s) = n /\ DOMAIN s = 1..n OBVIOUS
<1> QED BY <1>1, ListedOfSeq

(* What is appended comes last and leaves the rest where it is.             *)
LEMMA Appended ==
  ASSUME NEW s, Listed(s), NEW x
  PROVE  /\ Listed(Append(s, x)) /\ Len(s) \in Nat /\ DOMAIN s = 1..Len(s)
         /\ Len(Append(s, x)) = Len(s) + 1 /\ DOMAIN Append(s, x) = 1..Len(s) + 1
         /\ Append(s, x)[Len(s) + 1] = x
         /\ \A i \in 1..Len(s) : Append(s, x)[i] = s[i]
<1> DEFINE T == Range(s) \cup {x}
<1>1. s \in Seq(T) /\ x \in T
  <2>1. s \in Seq(Range(s)) BY DEF Listed
  <2> HIDE DEF Range
  <2>2. s \in [1..Len(s) -> Range(s)] /\ Len(s) \in Nat BY <2>1
  <2> QED BY <2>2
<1> HIDE DEF T
<1>2. Append(s, x) \in Seq(T) BY <1>1
<1>3. Listed(Append(s, x)) BY <1>2, ListedOfSeq
<1> QED BY <1>1, <1>2, <1>3
=============================================================================
