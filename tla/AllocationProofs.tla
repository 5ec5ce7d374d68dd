--------------------------- MODULE AllocationProofs ---------------------------
(***************************************************************************)
(* Proofs about Allocation: what peg_pair() makes of any inputs, from what *)
(* is true after each supply, each demand and each lot; and what two       *)
(* sessions write of what they read.                                       *)
(***************************************************************************)
EXTENDS Allocation, NatLemmas, TLAPS

-----------------------------------------------------------------------------
(* Quantities of sequences *)

(* A sequence of records with a quantity. *)
Goods(s) == Listed(s) /\ \A i \in DOMAIN s : s[i].qty \in Nat
Amounts(s) == [i \in DOMAIN s |-> s[i].qty]

(* Its indices. *)
LEMMA GoodsIndices ==
  ASSUME NEW s, Goods(s)
  PROVE  /\ Len(s) \in Nat /\ DOMAIN s = 1..Len(s) /\ IsFiniteSet(DOMAIN s)
         /\ Amounts(s) \in [DOMAIN s -> Nat] /\ \A i \in DOMAIN s : Amounts(s)[i] = s[i].qty
<1>1. Len(s) \in Nat /\ DOMAIN s = 1..Len(s)
  <2>1. s \in Seq(Range(s)) BY DEF Goods, Listed
  <2> HIDE DEF Range
  <2> QED BY <2>1
<1>2. IsFiniteSet(1..Len(s)) BY <1>1, FS_Interval
<1>3. Amounts(s) \in [DOMAIN s -> Nat] /\ \A i \in DOMAIN s : Amounts(s)[i] = s[i].qty BY DEF Goods, Amounts
<1> QED BY <1>1, <1>2, <1>3

(* A quantity is a sum over a finite set, and a natural number. *)
LEMMA QtySum ==
  ASSUME NEW s, Goods(s), NEW S \in SUBSET DOMAIN s
  PROVE  /\ QtyAt(s, S) = SumOverSet(Amounts(s), S)
         /\ IsFiniteSet(S) /\ QtyAt(s, S) \in Nat
         /\ \A i \in S : Amounts(s)[i] \in Nat /\ Amounts(s)[i] \in Int
<1> DEFINE f == [i \in S |-> s[i].qty]
<1>1. QtyAt(s, S) = SumOverSet(f, DOMAIN f)
  BY DEF QtyAt, SumFunction, SumFunctionOnSet, FoldFunctionOnSet, SumOverSet, MapThenFoldSet
<1>2. DOMAIN f = S OBVIOUS
<1>3. IsFiniteSet(S)
  <2>1. IsFiniteSet(DOMAIN s) BY GoodsIndices
  <2> QED BY <2>1, FS_Subset
<1>4. \A i \in S : f[i] = Amounts(s)[i] /\ Amounts(s)[i] \in Nat BY DEF Amounts, Goods
<1> HIDE DEF f
<1>5. SumOverSet(f, S) = SumOverSet(Amounts(s), S) BY <1>3, <1>4, SumAgrees
<1>6. SumOverSet(Amounts(s), S) \in Nat BY <1>3, <1>4, SumNat
<1> QED BY <1>1, <1>2, <1>3, <1>4, <1>5, <1>6

(* No index, no quantity. *)
LEMMA QtyNothing ==
  ASSUME NEW s
  PROVE  QtyAt(s, {}) = 0
<1> DEFINE f == [i \in {} |-> s[i].qty]
<1>1. QtyAt(s, {}) = SumOverSet(f, DOMAIN f)
  BY DEF QtyAt, SumFunction, SumFunctionOnSet, FoldFunctionOnSet, SumOverSet, MapThenFoldSet
<1>2. DOMAIN f = {} OBVIOUS
<1> QED BY <1>1, <1>2, SumEmpty

(* More indices, more quantity; and it splits. *)
LEMMA QtyGrows ==
  ASSUME NEW s, Goods(s), NEW S \in SUBSET DOMAIN s, NEW T \in SUBSET S
  PROVE  /\ QtyAt(s, T) <= QtyAt(s, S)
         /\ QtyAt(s, S) = QtyAt(s, T) + QtyAt(s, S \ T)
<1>1. T \in SUBSET DOMAIN s /\ S \ T \in SUBSET DOMAIN s OBVIOUS
<1>2. /\ QtyAt(s, S) = SumOverSet(Amounts(s), S) /\ IsFiniteSet(S)
      /\ QtyAt(s, T) = SumOverSet(Amounts(s), T)
      /\ \A i \in S : Amounts(s)[i] \in Nat /\ Amounts(s)[i] \in Int
  BY <1>1, QtySum
<1>3. QtyAt(s, S \ T) = SumOverSet(Amounts(s), S \ T)
  <2> DEFINE R == S \ T
  <2>1. R \in SUBSET DOMAIN s OBVIOUS
  <2> HIDE DEF R
  <2>2. QtyAt(s, R) = SumOverSet(Amounts(s), R) BY <2>1, QtySum
  <2> QED BY <2>2 DEF R
<1>4. SumOverSet(Amounts(s), T) <= SumOverSet(Amounts(s), S) BY <1>2, SumGrows
<1>5. SumOverSet(Amounts(s), S) = SumOverSet(Amounts(s), T) + SumOverSet(Amounts(s), S \ T) BY <1>2, SumPart
<1> QED BY <1>2, <1>3, <1>4, <1>5

(* Two sequences with the same quantities in some places. *)
LEMMA QtyAgrees ==
  ASSUME NEW s, Goods(s), NEW t, Goods(t), NEW S \in SUBSET DOMAIN s, S \in SUBSET DOMAIN t,
         \A i \in S : s[i].qty = t[i].qty
  PROVE  QtyAt(s, S) = QtyAt(t, S)
<1>1. /\ QtyAt(s, S) = SumOverSet(Amounts(s), S) /\ IsFiniteSet(S)
      /\ QtyAt(t, S) = SumOverSet(Amounts(t), S)
  BY QtySum
<1>2. \A i \in S : Amounts(s)[i] = Amounts(t)[i] BY DEF Amounts
<1> QED BY <1>1, <1>2, SumAgrees

(* Appending a record adds its quantity where it is counted. *)
LEMMA QtyAppend ==
  ASSUME NEW s, Goods(s), NEW x, x.qty \in Nat, NEW S \in SUBSET DOMAIN s
  PROVE  LET t == Append(s, x)
             n == Len(s) + 1
         IN  /\ Goods(t) /\ Len(t) = n /\ DOMAIN t = DOMAIN s \cup {n} /\ n \notin DOMAIN s
             /\ t[n] = x /\ \A i \in DOMAIN s : t[i] = s[i]
             /\ QtyAt(t, S) = QtyAt(s, S)
             /\ QtyAt(t, S \cup {n}) = QtyAt(s, S) + x.qty
<1> DEFINE t == Append(s, x)
           n == Len(s) + 1
<1>1. Listed(s) BY DEF Goods
<1>2. /\ Listed(t) /\ Len(s) \in Nat /\ DOMAIN s = 1..Len(s) /\ Len(t) = n /\ DOMAIN t = 1..n
      /\ t[n] = x /\ \A i \in 1..Len(s) : t[i] = s[i]
  BY <1>1, Appended
<1> HIDE DEF t, n
<1>3. n \notin DOMAIN s /\ DOMAIN t = DOMAIN s \cup {n} BY <1>2 DEF n
<1>4. Goods(t)
  <2>1. ASSUME NEW i \in DOMAIN t PROVE t[i].qty \in Nat
    <3>1. CASE i \in DOMAIN s
      <4>1. t[i] = s[i] /\ s[i].qty \in Nat BY <3>1, <1>2 DEF Goods
      <4> QED BY <4>1
    <3>2. CASE i = n BY <3>2, <1>2
    <3> QED BY <3>1, <3>2, <1>3
  <2> QED BY <2>1, <1>2 DEF Goods
<1>5. QtyAt(t, S) = QtyAt(s, S)
  <2>1. S \in SUBSET DOMAIN t BY <1>3
  <2>2. \A i \in S : t[i].qty = s[i].qty BY <1>2
  <2> QED BY <1>4, <2>1, <2>2, QtyAgrees
<1>6. QtyAt(t, S \cup {n}) = QtyAt(s, S) + x.qty
  <2> DEFINE U == S \cup {n}
  <2>1. U \in SUBSET DOMAIN t /\ n \in U /\ U \ {n} = S BY <1>3
  <2> HIDE DEF U
  <2>2. /\ QtyAt(t, U) = SumOverSet(Amounts(t), U) /\ IsFiniteSet(U)
        /\ \A j \in U : Amounts(t)[j] \in Int
    BY <1>4, <2>1, QtySum
  <2>3. SumOverSet(Amounts(t), U) = Amounts(t)[n] + SumOverSet(Amounts(t), S) BY <2>1, <2>2, SumTakesOut
  <2>4. Amounts(t)[n] = x.qty BY <2>1, <1>2 DEF Amounts
  <2>5. S \in SUBSET DOMAIN t BY <1>3
  <2>6. QtyAt(t, S) = SumOverSet(Amounts(t), S) /\ QtyAt(t, S) \in Nat BY <1>4, <2>5, QtySum
  <2>7. QtyAt(t, U) = QtyAt(s, S) + x.qty BY <2>2, <2>3, <2>4, <2>6, <1>5
  <2> QED BY <2>7 DEF U
<1> QED BY <1>2, <1>3, <1>4, <1>5, <1>6 DEF t, n

(* Records listed in another order keep their quantities.                   *)
LEMMA QtyRenamed ==
  ASSUME NEW s, Goods(s), NEW t, Goods(t), NEW order, NEW S \in SUBSET DOMAIN t,
         \A i \in S : order[i] \in DOMAIN s /\ t[i].qty = s[order[i]].qty,
         \A i, j \in S : order[i] = order[j] => i = j
  PROVE  /\ Images(order, S) \in SUBSET DOMAIN s
         /\ QtyAt(t, S) = QtyAt(s, Images(order, S))
<1>1. /\ QtyAt(t, S) = SumOverSet(Amounts(t), S) /\ IsFiniteSet(S)
      /\ \A i \in S : Amounts(t)[i] \in Int
  BY QtySum
<1>2. \A i \in S : Amounts(t)[i] = Amounts(s)[order[i]] BY DEF Amounts
<1>3. SumOverSet(Amounts(t), S) = SumOverSet(Amounts(s), Images(order, S)) BY <1>1, <1>2, SumRenamed
<1>4. Images(order, S) \in SUBSET DOMAIN s BY DEF Images
<1>5. QtyAt(s, Images(order, S)) = SumOverSet(Amounts(s), Images(order, S)) BY <1>4, QtySum
<1> QED BY <1>1, <1>3, <1>4, <1>5

-----------------------------------------------------------------------------
(* Orders *)

(* Keys of one width. *)
Keyed(S, key, w) == \A i \in S : key[i] \in [1..w -> Int]

(* Comparing by keys and then by number is a strict total order.            *)
LEMMA BeforeTotal ==
  ASSUME NEW S \in SUBSET Nat, NEW key, NEW w \in Nat, Keyed(S, key, w)
  PROVE  /\ \A i \in S : ~Before(key, i, i)
         /\ \A i, j \in S : i # j => Before(key, i, j) \/ Before(key, j, i)
         /\ \A i, j, k \in S : Before(key, i, j) /\ Before(key, j, k) => Before(key, i, k)
<1>0. \A i \in S : DOMAIN key[i] = 1..w /\ \A n \in 1..w : key[i][n] \in Int BY DEF Keyed
<1>1. ASSUME NEW i \in S PROVE ~Before(key, i, i)
  <2>1. i \in Nat /\ ~(i < i) OBVIOUS
  <2>2. \A n \in DOMAIN key[i] : ~(key[i][n] < key[i][n]) BY <1>0
  <2> QED BY <2>1, <2>2 DEF Before
<1>2. ASSUME NEW i \in S, NEW j \in S, i # j PROVE Before(key, i, j) \/ Before(key, j, i)
  <2>1. CASE key[i] = key[j]
    <3>1. i \in Nat /\ j \in Nat /\ (i < j \/ j < i) BY <1>2
    <3> QED BY <3>1, <2>1 DEF Before
  <2>2. CASE key[i] # key[j]
    <3> DEFINE D == {n \in 1..w : key[i][n] # key[j][n]}
    <3>1. D # {}
      <4> DEFINE f == key[i]
                 g == key[j]
      <4>1. f \in [1..w -> Int] /\ g \in [1..w -> Int] /\ f # g BY <2>2 DEF Keyed
      <4> HIDE DEF f, g
      <4>2. \E n \in 1..w : f[n] # g[n] BY <4>1
      <4> QED BY <4>2 DEF f, g
    <3>2. PICK n \in D : \A m \in D : n <= m
      <4>1. D \subseteq Nat OBVIOUS
      <4> HIDE DEF D
      <4> QED BY <3>1, <4>1, LeastNat
    <3>3. \A k \in 1..n - 1 : key[i][k] = key[j][k] BY <3>2
    <3>4. n \in 1..w /\ (key[i][n] < key[j][n] \/ key[j][n] < key[i][n]) BY <3>2, <1>0
    <3> QED BY <3>3, <3>4, <1>0 DEF Before
  <2> QED BY <2>1, <2>2
<1>3. ASSUME NEW i \in S, NEW j \in S, NEW k \in S, Before(key, i, j), Before(key, j, k)
      PROVE  Before(key, i, k)
  <2>1. CASE key[i] = key[j] /\ key[j] = key[k] BY <2>1, <1>3, <1>0 DEF Before
  <2>2. CASE key[i] = key[j] /\ key[j] # key[k] BY <2>2, <1>3, <1>0 DEF Before
  <2>3. CASE key[i] # key[j] /\ key[j] = key[k]
    <3>1. PICK n \in 1..w : key[i][n] < key[j][n] /\ \A h \in 1..n - 1 : key[i][h] = key[j][h]
      BY <2>3, <1>3, <1>0 DEF Before
    <3> QED BY <3>1, <2>3, <1>0 DEF Before
  <2>4. CASE key[i] # key[j] /\ key[j] # key[k]
    <3>1. PICK n \in 1..w : key[i][n] < key[j][n] /\ \A h \in 1..n - 1 : key[i][h] = key[j][h]
      BY <2>4, <1>3, <1>0 DEF Before
    <3>2. PICK m \in 1..w : key[j][m] < key[k][m] /\ \A h \in 1..m - 1 : key[j][h] = key[k][h]
      BY <2>4, <1>3, <1>0 DEF Before
    <3>3. CASE n < m
      <4>1. key[i][n] < key[k][n] /\ \A h \in 1..n - 1 : key[i][h] = key[k][h] BY <3>1, <3>2, <3>3
      <4> QED BY <4>1, <1>0 DEF Before
    <3>4. CASE n = m
      <4>1. key[i][n] < key[k][n] /\ \A h \in 1..n - 1 : key[i][h] = key[k][h] BY <3>1, <3>2, <3>4, <1>0
      <4> QED BY <4>1, <1>0 DEF Before
    <3>5. CASE n > m
      <4>1. key[i][m] < key[k][m] /\ \A h \in 1..m - 1 : key[i][h] = key[k][h] BY <3>1, <3>2, <3>5
      <4> QED BY <4>1, <1>0 DEF Before
    <3> QED BY <3>3, <3>4, <3>5
  <2> QED BY <2>1, <2>2, <2>3, <2>4
<1> QED BY <1>1, <1>2, <1>3

(* InOrder lists the numbers of a set, each once.                           *)
LEMMA InOrderLists ==
  ASSUME NEW S \in SUBSET Nat, IsFiniteSet(S), NEW key, NEW w \in Nat, Keyed(S, key, w)
  PROVE  LET order == InOrder(S, key) IN
         /\ Cardinality(S) \in Nat /\ order \in [1..Cardinality(S) -> S]
         /\ \A m, n \in 1..Cardinality(S) : order[m] = order[n] => m = n
         /\ \A i \in S : \E n \in 1..Cardinality(S) : order[n] = i
<1> DEFINE c == Cardinality(S)
           R == {x \in S \X S : Before(key, x[1], x[2])}
           order == InOrder(S, key)
<1>1. c \in Nat BY FS_CardinalityType
<1>2. \A i, j \in S : <<i, j>> \in R <=> Before(key, i, j) OBVIOUS
<1>3. \A i \in S : Preceding(R, S, i) = {j \in S : Before(key, j, i)} BY <1>2 DEF Preceding
<1> HIDE DEF R
<1>4. /\ \A n \in 1..c : \E i \in S : Cardinality(Preceding(R, S, i)) = n - 1
      /\ \A i \in S : Cardinality(Preceding(R, S, i)) + 1 \in 1..c
      /\ \A i, j \in S : Cardinality(Preceding(R, S, i)) = Cardinality(Preceding(R, S, j)) => i = j
  <2>1. /\ \A i \in S : ~Before(key, i, i)
        /\ \A i, j \in S : i # j => Before(key, i, j) \/ Before(key, j, i)
        /\ \A i, j, k \in S : Before(key, i, j) /\ Before(key, j, k) => Before(key, i, k)
    BY BeforeTotal
  <2>2. /\ \A i \in S : <<i, i>> \notin R
        /\ \A i, j \in S : i # j => <<i, j>> \in R \/ <<j, i>> \in R
        /\ \A i, j, k \in S : <<i, j>> \in R /\ <<j, k>> \in R => <<i, k>> \in R
    BY <2>1, <1>2
  <2> QED BY <2>2, RankExists
<1>5. ASSUME NEW n \in 1..c PROVE order[n] \in S /\ Cardinality(Preceding(R, S, order[n])) = n - 1
  <2>1. order[n] = CHOOSE i \in S : Cardinality({j \in S : Before(key, j, i)}) = n - 1 BY DEF InOrder
  <2>2. \E i \in S : Cardinality({j \in S : Before(key, j, i)}) = n - 1 BY <1>3, <1>4
  <2> HIDE DEF order
  <2> QED BY <2>1, <2>2, <1>3
<1>6. order \in [1..c -> S]
  <2>1. order = [n \in 1..c |-> order[n]] BY DEF InOrder
  <2> HIDE DEF order
  <2> QED BY <2>1, <1>5
<1> HIDE DEF order
<1>7. ASSUME NEW m \in 1..c, NEW n \in 1..c, order[m] = order[n] PROVE m = n
  <2>1. m - 1 = n - 1 BY <1>5, <1>7
  <2> QED BY <2>1
<1>8. ASSUME NEW i \in S PROVE \E n \in 1..c : order[n] = i
  <2> DEFINE n == Cardinality(Preceding(R, S, i)) + 1
  <2>1. n \in 1..c BY <1>4
  <2>2. Cardinality(Preceding(R, S, order[n])) = n - 1 /\ order[n] \in S BY <2>1, <1>5
  <2>3. n - 1 = Cardinality(Preceding(R, S, i))
    <3>1. Cardinality(Preceding(R, S, i)) \in Nat
      <4>1. Preceding(R, S, i) \in SUBSET S BY DEF Preceding
      <4> QED BY <4>1, FS_Subset, FS_CardinalityType
    <3> QED BY <3>1
  <2> HIDE DEF n
  <2>4. order[n] = i BY <2>2, <2>3, <1>4
  <2> QED BY <2>1, <2>4
<1> QED BY <1>1, <1>6, <1>7, <1>8 DEF order, c

-----------------------------------------------------------------------------
(* One demand takes from one supply *)

(* What a supply and a peg on it have in common. *)
Key(g) == <<g.kind, g.ref, g.lot>>

KeyQty(s, K) == QtyAt(s, {i \in DOMAIN s : Key(s[i]) \in K})
ToRefs(s, R) == QtyAt(s, {i \in DOMAIN s : s[i].demand \in R})
LeftOf(acc, K) == SumOverSet(acc.left, {j \in DOMAIN acc.from : Key(acc.from[j]) \in K})

(* The state of the loops of peg_pair(). *)
Pegging(acc) ==
  /\ acc = [from |-> acc.from, left |-> acc.left, demand |-> acc.demand, need |-> acc.need, pegs |-> acc.pegs]
  /\ Goods(acc.from) /\ acc.left \in [DOMAIN acc.from -> Nat] /\ acc.need \in Nat /\ Goods(acc.pegs)
  /\ \A i \in DOMAIN acc.pegs : \E j \in DOMAIN acc.from : Key(acc.pegs[i]) = Key(acc.from[j])

Least(m, n) == IF m < n THEN m ELSE n

(* The loop's body takes the lesser of what is left and what is needed.     *)
LEMMA TakeStep ==
  ASSUME NEW acc, Pegging(acc), NEW j \in DOMAIN acc.from
  PROVE  LET b == PegTake(acc, j)
             take == Least(acc.left[j], acc.need)
         IN  /\ b = [from |-> b.from, left |-> b.left, demand |-> b.demand, need |-> b.need, pegs |-> b.pegs]
             /\ take \in Nat /\ take <= acc.left[j] /\ take <= acc.need
             /\ take = acc.left[j] \/ take = acc.need
             /\ b.from = acc.from /\ b.demand = acc.demand
             /\ b.need = acc.need - take
             /\ b.left = [acc.left EXCEPT ![j] = @ - take]
             /\ IF take = 0 THEN b.pegs = acc.pegs
                ELSE \E g : /\ b.pegs = Append(acc.pegs, g) /\ g.qty = take
                            /\ Key(g) = Key(acc.from[j]) /\ g.demand = acc.demand.ref
<1> DEFINE b == PegTake(acc, j)
           take == Least(acc.left[j], acc.need)
           x == acc.from[j]
           g == [kind |-> x.kind, ref |-> x.ref, lot |-> x.lot, demand |-> acc.demand.ref, qty |-> take,
                 late |-> x.day > acc.demand.day]
<1>1. /\ acc = [from |-> acc.from, left |-> acc.left, demand |-> acc.demand, need |-> acc.need, pegs |-> acc.pegs]
      /\ acc.left \in [DOMAIN acc.from -> Nat] /\ acc.left[j] \in Nat /\ acc.need \in Nat
  BY DEF Pegging
<1>2. /\ take \in Nat /\ take <= acc.left[j] /\ take <= acc.need
      /\ take = acc.left[j] \/ take = acc.need
  BY <1>1 DEF Least
<1>3. b = IF take = 0 THEN acc
          ELSE [acc EXCEPT !.left[j] = @ - take, !.need = @ - take, !.pegs = Append(@, g)]
  BY DEF PegTake, Least
<1>4. g.qty = take /\ Key(g) = Key(x) /\ g.demand = acc.demand.ref BY DEF Key
<1> HIDE DEF b, take, g
<1>5. CASE take = 0
  <2>1. b = acc BY <1>3, <1>5
  <2>2. [acc.left EXCEPT ![j] = @ - take] = acc.left BY <1>1, <1>5
  <2> QED BY <2>1, <2>2, <1>1, <1>2, <1>5 DEF b, take
<1>6. CASE take # 0
  <2>1. b = [from |-> acc.from, left |-> [acc.left EXCEPT ![j] = @ - take], demand |-> acc.demand,
             need |-> acc.need - take, pegs |-> Append(acc.pegs, g)]
    BY <1>1, <1>3, <1>6
  <2>2. /\ b = [from |-> b.from, left |-> b.left, demand |-> b.demand, need |-> b.need, pegs |-> b.pegs]
        /\ b.from = acc.from /\ b.demand = acc.demand
        /\ b.need = acc.need - take /\ b.left = [acc.left EXCEPT ![j] = @ - take]
        /\ b.pegs = Append(acc.pegs, g)
    BY <2>1
  <2>3. \E y : b.pegs = Append(acc.pegs, y) /\ y.qty = take /\ Key(y) = Key(x) /\ y.demand = acc.demand.ref
    BY <2>2, <1>4
  <2> QED BY <2>2, <2>3, <1>2, <1>6 DEF b, take
<1> QED BY <1>5, <1>6

(* One peg more.                                                            *)
LEMMA PegCounts ==
  ASSUME NEW s, Goods(s), NEW g, g.qty \in Nat, NEW K, NEW R
  PROVE  LET t == Append(s, g)
         IN  /\ Goods(t)
             /\ KeyQty(t, K) = KeyQty(s, K) + (IF Key(g) \in K THEN g.qty ELSE 0)
             /\ ToRefs(t, R) = ToRefs(s, R) + (IF g.demand \in R THEN g.qty ELSE 0)
             /\ \A i \in DOMAIN t : (i \in DOMAIN s /\ t[i] = s[i]) \/ t[i] = g
<1> DEFINE t == Append(s, g)
           n == Len(s) + 1
           A == {i \in DOMAIN s : Key(s[i]) \in K}
           B == {i \in DOMAIN s : s[i].demand \in R}
           At == {i \in DOMAIN t : Key(t[i]) \in K}
           Bt == {i \in DOMAIN t : t[i].demand \in R}
<1>1. A \in SUBSET DOMAIN s /\ B \in SUBSET DOMAIN s OBVIOUS
<1>2. /\ Goods(t) /\ DOMAIN t = DOMAIN s \cup {n} /\ n \notin DOMAIN s
      /\ t[n] = g /\ \A i \in DOMAIN s : t[i] = s[i]
      /\ QtyAt(t, A) = QtyAt(s, A) /\ QtyAt(t, A \cup {n}) = QtyAt(s, A) + g.qty
  <2> HIDE DEF A
  <2>1. Goods(t) /\ DOMAIN t = DOMAIN s \cup {n} /\ n \notin DOMAIN s /\ t[n] = g BY <1>1, QtyAppend
  <2>2. \A i \in DOMAIN s : t[i] = s[i] BY <1>1, QtyAppend
  <2>3. QtyAt(t, A) = QtyAt(s, A) /\ QtyAt(t, A \cup {n}) = QtyAt(s, A) + g.qty BY <1>1, QtyAppend
  <2> QED BY <2>1, <2>2, <2>3
<1>3. QtyAt(t, B) = QtyAt(s, B) /\ QtyAt(t, B \cup {n}) = QtyAt(s, B) + g.qty
  <2> HIDE DEF B
  <2> QED BY <1>1, QtyAppend
<1> HIDE DEF t, n
<1>4. At = IF Key(g) \in K THEN A \cup {n} ELSE A BY <1>2
<1>5. Bt = IF g.demand \in R THEN B \cup {n} ELSE B BY <1>2
<1>6. QtyAt(s, A) \in Nat /\ QtyAt(s, B) \in Nat
  <2> HIDE DEF A, B
  <2> QED BY <1>1, QtySum
<1>7. KeyQty(t, K) = QtyAt(t, At) /\ KeyQty(s, K) = QtyAt(s, A) BY DEF KeyQty
<1>8. ToRefs(t, R) = QtyAt(t, Bt) /\ ToRefs(s, R) = QtyAt(s, B) BY DEF ToRefs
<1> HIDE DEF A, B, At, Bt
<1>9. KeyQty(t, K) = KeyQty(s, K) + (IF Key(g) \in K THEN g.qty ELSE 0)
  <2>1. CASE Key(g) \in K BY <2>1, <1>2, <1>4, <1>7
  <2>2. CASE Key(g) \notin K BY <2>2, <1>2, <1>4, <1>6, <1>7
  <2> QED BY <2>1, <2>2
<1>10. ToRefs(t, R) = ToRefs(s, R) + (IF g.demand \in R THEN g.qty ELSE 0)
  <2>1. CASE g.demand \in R BY <2>1, <1>3, <1>5, <1>8
  <2>2. CASE g.demand \notin R BY <2>2, <1>3, <1>5, <1>6, <1>8
  <2> QED BY <2>1, <2>2
<1>11. \A i \in DOMAIN t : (i \in DOMAIN s /\ t[i] = s[i]) \/ t[i] = g BY <1>2
<1>12. Goods(t) BY <1>2
<1> QED BY <1>9, <1>10, <1>11, <1>12 DEF t

(* Quantities of pegs are natural numbers. *)
LEMMA CountsNat ==
  ASSUME NEW s, Goods(s), NEW K
  PROVE  KeyQty(s, K) \in Nat /\ ToRefs(s, K) \in Nat
<1> DEFINE A == {i \in DOMAIN s : Key(s[i]) \in K}
           B == {i \in DOMAIN s : s[i].demand \in K}
<1>1. A \in SUBSET DOMAIN s /\ B \in SUBSET DOMAIN s OBVIOUS
<1>2. KeyQty(s, K) = QtyAt(s, A) /\ ToRefs(s, K) = QtyAt(s, B) BY DEF KeyQty, ToRefs
<1> HIDE DEF A, B
<1> QED BY <1>1, <1>2, QtySum

(* So is what is left; and taking from one supply lowers it.                *)
LEMMA LeftChanges ==
  ASSUME NEW acc, Pegging(acc), NEW j \in DOMAIN acc.from, NEW take \in Nat, take <= acc.left[j],
         NEW b, b.from = acc.from, b.left = [acc.left EXCEPT ![j] = @ - take], NEW K
  PROVE  /\ LeftOf(acc, K) \in Nat
         /\ b.left \in [DOMAIN b.from -> Nat]
         /\ LeftOf(b, K) = LeftOf(acc, K) - (IF Key(acc.from[j]) \in K THEN take ELSE 0)
<1> DEFINE S == {i \in DOMAIN acc.from : Key(acc.from[i]) \in K}
           f == acc.left
           h == b.left
<1>1. f \in [DOMAIN acc.from -> Nat] /\ IsFiniteSet(DOMAIN acc.from) /\ f[j] \in Nat
  BY GoodsIndices DEF Pegging
<1>2. S \in SUBSET DOMAIN acc.from /\ IsFiniteSet(S)
  <2>1. S \in SUBSET DOMAIN acc.from OBVIOUS
  <2> HIDE DEF S
  <2> QED BY <2>1, <1>1, FS_Subset
<1>3. h \in [DOMAIN acc.from -> Nat] /\ h[j] = f[j] - take /\ \A i \in DOMAIN acc.from : i # j => h[i] = f[i]
  BY <1>1
<1>4. LeftOf(acc, K) = SumOverSet(f, S) /\ LeftOf(b, K) = SumOverSet(h, S) BY DEF LeftOf
<1>5. j \in S <=> Key(acc.from[j]) \in K OBVIOUS
<1> HIDE DEF S, f, h
<1>6. \A i \in S : f[i] \in Nat /\ f[i] \in Int /\ h[i] \in Int BY <1>1, <1>2, <1>3
<1>7. SumOverSet(f, S) \in Nat BY <1>2, <1>6, SumNat
<1>8. SumOverSet(h, S) = SumOverSet(f, S) - (IF j \in S THEN take ELSE 0)
  <2>1. CASE j \in S
    <3>1. \A i \in S : i # j => h[i] = f[i] BY <1>2, <1>3
    <3>2. SumOverSet(h, S) = SumOverSet(f, S) + h[j] - f[j] BY <2>1, <3>1, <1>2, <1>6, SumChanges
    <3> QED BY <3>2, <2>1, <1>1, <1>3, <1>7
  <2>2. CASE j \notin S
    <3>1. \A i \in S : h[i] = f[i] BY <2>2, <1>2, <1>3
    <3>2. SumOverSet(h, S) = SumOverSet(f, S) BY <3>1, <1>2, SumAgrees
    <3> QED BY <3>2, <2>2, <1>7
  <2> QED BY <2>1, <2>2
<1> QED BY <1>3, <1>4, <1>5, <1>7, <1>8 DEF h

-----------------------------------------------------------------------------
(* One demand takes from all supplies *)

AllLeftZero(acc) == \A j \in DOMAIN acc.from : acc.left[j] = 0

(* The invariant of the inner loop after n supplies.                        *)
Taken(base, s, n, acc) ==
  /\ Pegging(acc) /\ acc.from = base.from /\ acc.demand = base.demand
  /\ acc.need <= base.need
  /\ AllLeftZero(base) => acc.need = base.need /\ AllLeftZero(acc)
  /\ acc.need > 0 => \A j \in 1..n : acc.left[j] = 0
  /\ \A K : LeftOf(acc, K) + KeyQty(acc.pegs, K) = LeftOf(base, K) + KeyQty(base.pegs, K)
  /\ \A R : ToRefs(acc.pegs, R)
              = ToRefs(base.pegs, R) + (IF base.demand.ref \in R THEN base.need - acc.need ELSE 0)

Taking == INSTANCE FoldLemmas WITH Op <- PegTake, Holds <- Taken

(* What is left of the supplies is never negative. *)
LEMMA LeftNat ==
  ASSUME NEW acc, Pegging(acc), NEW K
  PROVE  LeftOf(acc, K) \in Nat
<1> DEFINE S == {i \in DOMAIN acc.from : Key(acc.from[i]) \in K}
<1>1. acc.left \in [DOMAIN acc.from -> Nat] /\ IsFiniteSet(DOMAIN acc.from) BY GoodsIndices DEF Pegging
<1>2. S \in SUBSET DOMAIN acc.from OBVIOUS
<1>3. LeftOf(acc, K) = SumOverSet(acc.left, S) BY DEF LeftOf
<1> HIDE DEF S
<1>4. IsFiniteSet(S) /\ \A i \in S : acc.left[i] \in Nat BY <1>1, <1>2, FS_Subset
<1> QED BY <1>3, <1>4, SumNat

(* PegTake(): one more supply keeps what is true of a demand's pegs. *)
LEMMA TakenStep ==
  ASSUME NEW base, Pegging(base), NEW n \in Nat, n < Len(base.from), NEW s, NEW acc, Taken(base, s, n, acc)
  PROVE  Taken(base, s, n + 1, PegTake(acc, n + 1))
<1> DEFINE j == n + 1
           b == PegTake(acc, j)
           take == Least(acc.left[j], acc.need)
<1>1. /\ Pegging(acc) /\ acc.from = base.from /\ acc.demand = base.demand
      /\ acc.need <= base.need
      /\ AllLeftZero(base) => acc.need = base.need /\ AllLeftZero(acc)
      /\ acc.need > 0 => \A i \in 1..n : acc.left[i] = 0
      /\ \A K : LeftOf(acc, K) + KeyQty(acc.pegs, K) = LeftOf(base, K) + KeyQty(base.pegs, K)
      /\ \A R : ToRefs(acc.pegs, R)
                  = ToRefs(base.pegs, R) + (IF base.demand.ref \in R THEN base.need - acc.need ELSE 0)
  BY DEF Taken
<1>2. /\ Goods(acc.from) /\ acc.left \in [DOMAIN acc.from -> Nat] /\ acc.need \in Nat /\ Goods(acc.pegs)
      /\ \A i \in DOMAIN acc.pegs : \E k \in DOMAIN acc.from : Key(acc.pegs[i]) = Key(acc.from[k])
      /\ base.need \in Nat /\ Goods(base.pegs)
  BY <1>1 DEF Pegging
<1>3. DOMAIN acc.from = 1..Len(acc.from) /\ Len(acc.from) \in Nat BY <1>2, GoodsIndices
<1>4. j \in DOMAIN acc.from
  <2>1. j \in 1..Len(acc.from) BY <1>1, <1>3
  <2> QED BY <2>1, <1>3
<1> HIDE DEF j
<1>5. /\ b = [from |-> b.from, left |-> b.left, demand |-> b.demand, need |-> b.need, pegs |-> b.pegs]
      /\ take \in Nat /\ take <= acc.left[j] /\ take <= acc.need
      /\ take = acc.left[j] \/ take = acc.need
      /\ b.from = acc.from /\ b.demand = acc.demand
      /\ b.need = acc.need - take
      /\ b.left = [acc.left EXCEPT ![j] = @ - take]
      /\ IF take = 0 THEN b.pegs = acc.pegs
         ELSE \E g : /\ b.pegs = Append(acc.pegs, g) /\ g.qty = take
                     /\ Key(g) = Key(acc.from[j]) /\ g.demand = acc.demand.ref
  <2>1. Pegging(acc) /\ j \in DOMAIN acc.from BY <1>1, <1>4
  <2>2. b = [from |-> b.from, left |-> b.left, demand |-> b.demand, need |-> b.need, pegs |-> b.pegs]
    BY ONLY <2>1, TakeStep
  <2>3. /\ take \in Nat /\ take <= acc.left[j] /\ take <= acc.need
        /\ take = acc.left[j] \/ take = acc.need
    BY ONLY <2>1, TakeStep
  <2>4. /\ b.from = acc.from /\ b.demand = acc.demand
        /\ b.need = acc.need - take
        /\ b.left = [acc.left EXCEPT ![j] = @ - take]
    BY ONLY <2>1, TakeStep
  <2>5. IF take = 0 THEN b.pegs = acc.pegs
        ELSE \E g : /\ b.pegs = Append(acc.pegs, g) /\ g.qty = take
                    /\ Key(g) = Key(acc.from[j]) /\ g.demand = acc.demand.ref
    BY ONLY <2>1, TakeStep
  <2> HIDE DEF b, take
  <2> QED BY <2>2, <2>3, <2>4, <2>5
<1> HIDE DEF b, take
<1>6. ASSUME NEW K
      PROVE  /\ LeftOf(acc, K) \in Nat /\ b.left \in [DOMAIN b.from -> Nat]
             /\ LeftOf(b, K) = LeftOf(acc, K) - (IF Key(acc.from[j]) \in K THEN take ELSE 0)
  <2>1. /\ Pegging(acc) /\ j \in DOMAIN acc.from /\ take \in Nat /\ take <= acc.left[j]
        /\ b.from = acc.from /\ b.left = [acc.left EXCEPT ![j] = @ - take]
    BY <1>1, <1>4, <1>5
  <2>2. b.left \in [DOMAIN b.from -> Nat]
    <3>1. acc.left \in [DOMAIN acc.from -> Nat] /\ acc.left[j] \in Nat BY <1>2, <1>4
    <3> QED BY ONLY <2>1, <3>1
  <2>3. LeftOf(b, K) = LeftOf(acc, K) - (IF Key(acc.from[j]) \in K THEN take ELSE 0) BY ONLY <2>1, LeftChanges
  <2> QED BY <2>1, <2>2, <2>3, LeftNat
<1>7. /\ Goods(b.pegs)
      /\ \A i \in DOMAIN b.pegs : \E k \in DOMAIN acc.from : Key(b.pegs[i]) = Key(acc.from[k])
      /\ \A K : KeyQty(b.pegs, K) = KeyQty(acc.pegs, K) + (IF Key(acc.from[j]) \in K THEN take ELSE 0)
      /\ \A R : ToRefs(b.pegs, R) = ToRefs(acc.pegs, R) + (IF acc.demand.ref \in R THEN take ELSE 0)
  <2>1. CASE take = 0
    <3>1. b.pegs = acc.pegs BY <2>1, <1>5
    <3>2. \A K : KeyQty(acc.pegs, K) \in Nat /\ ToRefs(acc.pegs, K) \in Nat BY <1>2, CountsNat
    <3>3. \A K : KeyQty(acc.pegs, K) = KeyQty(acc.pegs, K) + (IF Key(acc.from[j]) \in K THEN take ELSE 0)
      BY <3>2, <2>1
    <3>4. \A R : ToRefs(acc.pegs, R) = ToRefs(acc.pegs, R) + (IF acc.demand.ref \in R THEN take ELSE 0)
      BY <3>2, <2>1
    <3> QED BY <3>1, <3>3, <3>4, <1>2
  <2>2. CASE take # 0
    <3>1. PICK g : /\ b.pegs = Append(acc.pegs, g) /\ g.qty = take
                   /\ Key(g) = Key(acc.from[j]) /\ g.demand = acc.demand.ref
      BY <2>2, <1>5
    <3>2. g.qty \in Nat BY <3>1, <1>5
    <3> DEFINE u == Append(acc.pegs, g)
    <3>3. ASSUME NEW K PROVE KeyQty(u, K) = KeyQty(acc.pegs, K) + (IF Key(g) \in K THEN g.qty ELSE 0)
      BY <3>2, <1>2, PegCounts
    <3>4. ASSUME NEW R PROVE ToRefs(u, R) = ToRefs(acc.pegs, R) + (IF g.demand \in R THEN g.qty ELSE 0)
      BY <3>2, <1>2, PegCounts
    <3>5. Goods(u) BY <3>2, <1>2, PegCounts
    <3>6. \A i \in DOMAIN u : (i \in DOMAIN acc.pegs /\ u[i] = acc.pegs[i]) \/ u[i] = g BY <3>2, <1>2, PegCounts
    <3>7. b.pegs = u BY <3>1
    <3> HIDE DEF u
    <3>8. ASSUME NEW i \in DOMAIN u PROVE \E k \in DOMAIN acc.from : Key(u[i]) = Key(acc.from[k])
      <4>1. CASE i \in DOMAIN acc.pegs /\ u[i] = acc.pegs[i] BY <4>1, <1>2
      <4>2. CASE u[i] = g BY <4>2, <3>1, <1>4
      <4> QED BY <4>1, <4>2, <3>6
    <3> QED BY <3>1, <3>3, <3>4, <3>5, <3>7, <3>8
  <2> QED BY <2>1, <2>2
<1>8. Pegging(b)
  <2>1. b.need \in Nat BY <1>2, <1>5
  <2>2. b.left \in [DOMAIN b.from -> Nat] BY <1>6
  <2> QED BY <2>1, <2>2, <1>2, <1>5, <1>7 DEF Pegging
<1>9. b.need <= base.need BY <1>1, <1>2, <1>5
<1>10. AllLeftZero(base) => b.need = base.need /\ AllLeftZero(b)
  <2> SUFFICES ASSUME AllLeftZero(base) PROVE b.need = base.need /\ AllLeftZero(b) OBVIOUS
  <2>1. acc.need = base.need /\ \A i \in DOMAIN acc.from : acc.left[i] = 0 BY <1>1 DEF AllLeftZero
  <2>2. take = 0 BY <2>1, <1>4, <1>5
  <2>3. b.need = base.need BY <2>1, <2>2, <1>2, <1>5
  <2>4. \A i \in DOMAIN b.from : b.left[i] = 0 BY <2>1, <2>2, <1>2, <1>4, <1>5
  <2> QED BY <2>3, <2>4 DEF AllLeftZero
<1>11. ASSUME b.need > 0, NEW i \in 1..j PROVE b.left[i] = 0
  <2>1. take = acc.left[j] /\ acc.need > 0 BY <1>11, <1>2, <1>5
  <2>2. i \in DOMAIN acc.from BY <1>3, <1>4
  <2>3. CASE i = j
    <3>1. acc.left[j] \in Nat BY <1>2, <1>4
    <3> QED BY <2>1, <2>3, <3>1, <1>2, <1>4, <1>5
  <2>4. CASE i # j
    <3>1. i \in 1..n BY <2>4 DEF j
    <3> QED BY <2>1, <2>2, <2>4, <3>1, <1>1, <1>2, <1>5
  <2> QED BY <2>3, <2>4
<1>12. ASSUME NEW K PROVE LeftOf(b, K) + KeyQty(b.pegs, K) = LeftOf(base, K) + KeyQty(base.pegs, K)
  <2> DEFINE x == LeftOf(acc, K)
             y == KeyQty(acc.pegs, K)
             d == IF Key(acc.from[j]) \in K THEN take ELSE 0
  <2>1. x \in Nat /\ y \in Nat /\ d \in Nat
    <3>1. d \in Nat BY <1>5
    <3> QED BY <3>1, <1>2, <1>6, CountsNat
  <2>2. LeftOf(b, K) = x - d /\ KeyQty(b.pegs, K) = y + d BY <1>6, <1>7
  <2>3. x + y = LeftOf(base, K) + KeyQty(base.pegs, K) BY <1>1
  <2> HIDE DEF x, y, d
  <2> QED BY <2>1, <2>2, <2>3
<1>13. ASSUME NEW R
       PROVE  ToRefs(b.pegs, R) = ToRefs(base.pegs, R) + (IF base.demand.ref \in R THEN base.need - b.need ELSE 0)
  <2>1. ToRefs(acc.pegs, R) \in Nat /\ ToRefs(base.pegs, R) \in Nat BY <1>2, CountsNat
  <2>2. ToRefs(b.pegs, R) = ToRefs(acc.pegs, R) + (IF acc.demand.ref \in R THEN take ELSE 0) BY <1>7
  <2>3. ToRefs(acc.pegs, R) = ToRefs(base.pegs, R) + (IF base.demand.ref \in R THEN base.need - acc.need ELSE 0) BY <1>1
  <2> QED BY <2>1, <2>2, <2>3, <1>1, <1>2, <1>5
<1>14. Taken(base, s, j, b) BY <1>1, <1>5, <1>8, <1>9, <1>10, <1>11, <1>12, <1>13 DEF Taken
<1> QED BY <1>14 DEF j, b

(* A demand takes what it needs as far as there is supply.                  *)
LEMMA DemandTakes ==
  ASSUME NEW acc, Pegging(acc), NEW d, d.qty \in Nat
  PROVE  LET b == PegDemand(acc, d)
         IN  /\ Pegging(b) /\ b.from = acc.from
             /\ b.need <= d.qty
             /\ AllLeftZero(acc) => b.need = d.qty /\ AllLeftZero(b)
             /\ b.need > 0 => AllLeftZero(b)
             /\ \A K : LeftOf(b, K) + KeyQty(b.pegs, K) = LeftOf(acc, K) + KeyQty(acc.pegs, K)
             /\ \A R : ToRefs(b.pegs, R) = ToRefs(acc.pegs, R) + (IF d.ref \in R THEN d.qty - b.need ELSE 0)
<1> DEFINE base == [acc EXCEPT !.demand = d, !.need = d.qty]
           s == [j \in DOMAIN acc.from |-> j]
           b == PegDemand(acc, d)
<1>0. /\ acc = [from |-> acc.from, left |-> acc.left, demand |-> acc.demand, need |-> acc.need, pegs |-> acc.pegs]
      /\ Goods(acc.from) /\ acc.left \in [DOMAIN acc.from -> Nat] /\ Goods(acc.pegs)
      /\ \A i \in DOMAIN acc.pegs : \E k \in DOMAIN acc.from : Key(acc.pegs[i]) = Key(acc.from[k])
  BY DEF Pegging
<1>1. base = [from |-> acc.from, left |-> acc.left, demand |-> d, need |-> d.qty, pegs |-> acc.pegs]
  <2>1. acc = [from |-> acc.from, left |-> acc.left, demand |-> acc.demand, need |-> acc.need, pegs |-> acc.pegs]
    BY <1>0
  <2>2. base = [acc EXCEPT !.demand = d, !.need = d.qty] OBVIOUS
  <2> HIDE DEF base
  <2> QED BY <2>1, <2>2
<1>2. DOMAIN acc.from = 1..Len(acc.from) /\ Len(acc.from) \in Nat BY <1>0, GoodsIndices
<1>3. s \in Seq(Nat) /\ Len(s) = Len(acc.from) /\ \A i \in 1..Len(s) : s[i] = i BY <1>2
<1>4. b = Taking!Fold(base, s)
  <2>1. b = FoldLeft(PegTake, base, s) BY DEF PegDemand
  <2> HIDE DEF b, base, s
  <2>2. FoldLeft(PegTake, base, s) = Taking!Fold(base, s)
    BY DEF Taking!Fold, Taking!FoldLeft, Taking!MapThenFoldSet, Taking!Max, FoldLeft, MapThenFoldSet, Max
  <2> QED BY <2>1, <2>2
<1> HIDE DEF base, s, b
<1>5. /\ base.from = acc.from /\ base.left = acc.left /\ base.demand = d /\ base.need = d.qty
      /\ base.pegs = acc.pegs
  BY <1>1
<1>6. Pegging(base)
  <2>1. base = [from |-> base.from, left |-> base.left, demand |-> base.demand, need |-> base.need, pegs |-> base.pegs]
    BY <1>1, <1>5
  <2> QED BY <2>1, <1>0, <1>5 DEF Pegging
<1>7. Taken(base, s, 0, base)
  <2>1. \A K : LeftOf(base, K) + KeyQty(base.pegs, K) = LeftOf(base, K) + KeyQty(base.pegs, K) OBVIOUS
  <2>2. ASSUME NEW R PROVE ToRefs(base.pegs, R) = ToRefs(base.pegs, R) + (IF base.demand.ref \in R THEN base.need - base.need ELSE 0)
    <3>1. ToRefs(base.pegs, R) \in Nat BY <1>0, <1>5, CountsNat
    <3> QED BY <3>1, <1>5
  <2>3. base.need <= base.need BY <1>5
  <2>4. \A j \in 1..0 : base.left[j] = 0 OBVIOUS
  <2> QED BY <2>1, <2>2, <2>3, <2>4, <1>6 DEF Taken
<1>8. ASSUME NEW i \in 1..Len(s), NEW c, Taken(base, s, i - 1, c) PROVE Taken(base, s, i, PegTake(c, s[i]))
  <2> DEFINE n == i - 1
  <2>1. n \in Nat /\ n < Len(base.from) /\ n + 1 = i /\ s[i] = i BY <1>2, <1>3, <1>5
  <2>2. Taken(base, s, n, c) BY <1>8
  <2> HIDE DEF n
  <2>3. Taken(base, s, n + 1, PegTake(c, n + 1)) BY <2>1, <2>2, <1>6, TakenStep
  <2> QED BY <2>1, <2>3
<1>9. Taken(base, s, Len(s), b) BY <1>3, <1>4, <1>7, <1>8, Taking!FoldHolds
<1>10. /\ Pegging(b) /\ b.from = base.from /\ b.need <= base.need
       /\ AllLeftZero(base) => b.need = base.need /\ AllLeftZero(b)
       /\ b.need > 0 => \A j \in 1..Len(s) : b.left[j] = 0
       /\ \A K : LeftOf(b, K) + KeyQty(b.pegs, K) = LeftOf(base, K) + KeyQty(base.pegs, K)
       /\ \A R : ToRefs(b.pegs, R) = ToRefs(base.pegs, R) + (IF base.demand.ref \in R THEN base.need - b.need ELSE 0)
  BY <1>9 DEF Taken
<1>11. \A K : LeftOf(base, K) = LeftOf(acc, K) BY <1>5 DEF LeftOf
<1>12. AllLeftZero(acc) => AllLeftZero(base) BY <1>5 DEF AllLeftZero
<1>13. b.need > 0 => AllLeftZero(b) BY <1>2, <1>3, <1>5, <1>10 DEF AllLeftZero
<1>14. \A K : LeftOf(b, K) + KeyQty(b.pegs, K) = LeftOf(acc, K) + KeyQty(acc.pegs, K) BY <1>5, <1>10, <1>11
<1>15. \A R : ToRefs(b.pegs, R) = ToRefs(acc.pegs, R) + (IF d.ref \in R THEN d.qty - b.need ELSE 0) BY <1>5, <1>10
<1>16. Pegging(b) /\ b.from = acc.from /\ b.need <= d.qty BY <1>5, <1>10
<1>17. AllLeftZero(acc) => b.need = d.qty /\ AllLeftZero(b) BY <1>5, <1>10, <1>12
<1> QED BY <1>13, <1>14, <1>15, <1>16, <1>17 DEF b

(* A sum of zeros. *)
LEMMA SumZero ==
  ASSUME NEW S, IsFiniteSet(S), NEW f, \A x \in S : f[x] = 0
  PROVE  SumOverSet(f, S) = 0
<1> DEFINE D == {U \in SUBSET S : SumOverSet(f, U) = 0}
<1>1. {} \in D BY SumEmpty
<1>2. ASSUME NEW T \in SUBSET S, NEW x \in T, T \ {x} \in D PROVE T \in D
  <2>1. IsFiniteSet(T) BY FS_Subset
  <2>2. \A y \in T : f[y] \in Int BY <1>2
  <2>3. SumOverSet(f, T) = f[x] + SumOverSet(f, T \ {x}) BY <2>1, <2>2, SumTakesOut
  <2>4. SumOverSet(f, T) = 0 BY <2>3, <1>2
  <2> QED BY <2>4
<1>3. S \in D
  <2> HIDE DEF D
  <2> QED BY <1>1, <1>2, SubsetInduction
<1> QED BY <1>3

(* The quantity at one index. *)
LEMMA QtyOne ==
  ASSUME NEW s, Goods(s), NEW i \in DOMAIN s
  PROVE  QtyAt(s, {i}) = s[i].qty
<1> DEFINE S == {i}
<1>1. S \in SUBSET DOMAIN s /\ i \in S /\ S \ {i} = {} OBVIOUS
<1> HIDE DEF S
<1>2. /\ QtyAt(s, S) = SumOverSet(Amounts(s), S) /\ IsFiniteSet(S)
      /\ \A j \in S : Amounts(s)[j] \in Int
  BY <1>1, QtySum
<1>3. SumOverSet(Amounts(s), S) = Amounts(s)[i] + SumOverSet(Amounts(s), {}) BY <1>1, <1>2, SumTakesOut
<1>4. SumOverSet(Amounts(s), {}) = 0 BY SumEmpty
<1>5. Amounts(s)[i] = s[i].qty /\ s[i].qty \in Nat BY DEF Amounts, Goods
<1>6. QtyAt(s, S) = s[i].qty BY <1>2, <1>3, <1>4, <1>5
<1> QED BY <1>6 DEF S

-----------------------------------------------------------------------------
(* All demands in their rank *)

(* What the first n demands, and all, ask for under the references in R.    *)
AskedBy(s, n, R) == QtyAt(s, {k \in 1..n : s[k].ref \in R})
RefQty(s, R) == QtyAt(s, {k \in DOMAIN s : s[k].ref \in R})

(* One more element.                                                        *)
LEMMA QtyPrefix ==
  ASSUME NEW s, Goods(s), NEW n \in Nat, n < Len(s), NEW U \in SUBSET DOMAIN s
  PROVE  /\ QtyAt(s, U \cap 1..n) \in Nat
         /\ n + 1 \in DOMAIN s /\ s[n + 1].qty \in Nat
         /\ QtyAt(s, U \cap 1..n + 1)
              = QtyAt(s, U \cap 1..n) + (IF n + 1 \in U THEN s[n + 1].qty ELSE 0)
<1> DEFINE T == U \cap 1..n
           S == U \cap 1..n + 1
           j == n + 1
<1>1. DOMAIN s = 1..Len(s) /\ Len(s) \in Nat BY GoodsIndices
<1>2. j \in DOMAIN s /\ s[j].qty \in Nat BY <1>1 DEF Goods
<1>3. S \in SUBSET DOMAIN s /\ T \in SUBSET S /\ T \in SUBSET DOMAIN s BY <1>1
<1>4. S \ T = IF j \in U THEN {j} ELSE {}
  <2>1. \A k \in 1..n + 1 : k \in 1..n \/ k = j OBVIOUS
  <2>2. j \in 1..n + 1 /\ j \notin 1..n OBVIOUS
  <2> HIDE DEF j
  <2> QED BY <2>1, <2>2
<1> HIDE DEF T, S, j
<1>6. QtyAt(s, T) \in Nat BY <1>3, QtySum
<1>7. QtyAt(s, S) = QtyAt(s, T) + QtyAt(s, S \ T) BY <1>3, QtyGrows
<1>8. QtyAt(s, {}) = 0 BY QtyNothing
<1>9. QtyAt(s, {j}) = s[j].qty BY <1>2, QtyOne
<1>10. QtyAt(s, S) = QtyAt(s, T) + (IF j \in U THEN s[j].qty ELSE 0)
  BY <1>2, <1>4, <1>6, <1>7, <1>8, <1>9
<1> QED BY <1>2, <1>6, <1>10 DEF S, T, j

(* One more demand asks for its quantity on top. *)
LEMMA AskedMore ==
  ASSUME NEW s, Goods(s), NEW n \in Nat, n < Len(s), NEW R
  PROVE  /\ AskedBy(s, n, R) \in Nat
         /\ AskedBy(s, n + 1, R) = AskedBy(s, n, R) + (IF s[n + 1].ref \in R THEN s[n + 1].qty ELSE 0)
<1> DEFINE U == {k \in DOMAIN s : s[k].ref \in R}
           j == n + 1
<1>1. DOMAIN s = 1..Len(s) /\ Len(s) \in Nat BY GoodsIndices
<1>2. /\ {k \in 1..n : s[k].ref \in R} = U \cap 1..n
      /\ {k \in 1..j : s[k].ref \in R} = U \cap 1..j
      /\ j \in U <=> s[j].ref \in R
  BY <1>1
<1>3. U \in SUBSET DOMAIN s OBVIOUS
<1> HIDE DEF U
<1>4. /\ QtyAt(s, U \cap 1..n) \in Nat
      /\ QtyAt(s, U \cap 1..j) = QtyAt(s, U \cap 1..n) + (IF j \in U THEN s[j].qty ELSE 0)
  BY <1>3, QtyPrefix
<1> HIDE DEF j
<1>5. AskedBy(s, j, R) = AskedBy(s, n, R) + (IF s[j].ref \in R THEN s[j].qty ELSE 0) /\ AskedBy(s, n, R) \in Nat
  BY <1>2, <1>4 DEF AskedBy
<1> QED BY <1>5 DEF j

(* The invariant of the outer loop after n demands.                         *)
Served(base, s, n, acc) ==
  /\ Pegging(acc) /\ acc.from = base.from
  /\ \A K : LeftOf(acc, K) + KeyQty(acc.pegs, K) = LeftOf(base, K)
  /\ \A R : ToRefs(acc.pegs, R) <= AskedBy(s, n, R)
  /\ \A k \in 1..n : ToRefs(acc.pegs, {s[k].ref}) < s[k].qty =>
       /\ AllLeftZero(acc)
       /\ \A R : (\A h \in 1..k : s[h].ref \notin R) => ToRefs(acc.pegs, R) = 0

Serving == INSTANCE FoldLemmas WITH Op <- PegDemand, Holds <- Served

(* PegDemand(): one more demand keeps what is true of the pegs so far. *)
LEMMA ServedStep ==
  ASSUME NEW base, NEW s, Goods(s), NEW n \in Nat, n < Len(s), NEW acc, Served(base, s, n, acc)
  PROVE  Served(base, s, n + 1, PegDemand(acc, s[n + 1]))
<1> DEFINE j == n + 1
           d == s[j]
           b == PegDemand(acc, d)
<1>1. /\ Pegging(acc) /\ acc.from = base.from
      /\ \A K : LeftOf(acc, K) + KeyQty(acc.pegs, K) = LeftOf(base, K)
      /\ \A R : ToRefs(acc.pegs, R) <= AskedBy(s, n, R)
      /\ \A k \in 1..n : ToRefs(acc.pegs, {s[k].ref}) < s[k].qty =>
           /\ AllLeftZero(acc)
           /\ \A R : (\A h \in 1..k : s[h].ref \notin R) => ToRefs(acc.pegs, R) = 0
  BY DEF Served
<1>2. j \in DOMAIN s /\ d.qty \in Nat
  <2>1. DOMAIN s = 1..Len(s) /\ Len(s) \in Nat BY GoodsIndices
  <2> QED BY <2>1 DEF Goods
<1>3. \A R : AskedBy(s, n, R) \in Nat /\ AskedBy(s, j, R) = AskedBy(s, n, R) + (IF d.ref \in R THEN d.qty ELSE 0)
  BY AskedMore
<1>0. j \in Nat /\ j \in 1..j /\ \A k \in 1..j : k \in 1..n \/ k = j OBVIOUS
<1> HIDE DEF j, d
<1>4. /\ Pegging(b) /\ b.from = acc.from /\ b.need <= d.qty
      /\ AllLeftZero(acc) => b.need = d.qty /\ AllLeftZero(b)
      /\ b.need > 0 => AllLeftZero(b)
  BY <1>1, <1>2, DemandTakes
<1>5. \A K : LeftOf(b, K) + KeyQty(b.pegs, K) = LeftOf(acc, K) + KeyQty(acc.pegs, K) BY <1>1, <1>2, DemandTakes
<1>6. \A R : ToRefs(b.pegs, R) = ToRefs(acc.pegs, R) + (IF d.ref \in R THEN d.qty - b.need ELSE 0)
  BY <1>1, <1>2, DemandTakes
<1> HIDE DEF b
<1>7. b.need \in Nat BY <1>4 DEF Pegging
<1>8. \A R : ToRefs(acc.pegs, R) \in Nat /\ ToRefs(b.pegs, R) \in Nat BY <1>1, <1>4, CountsNat DEF Pegging
<1>9. \A K : LeftOf(b, K) + KeyQty(b.pegs, K) = LeftOf(base, K) BY <1>1, <1>5
<1>10. ASSUME NEW R PROVE ToRefs(b.pegs, R) <= AskedBy(s, j, R)
  <2>1. ToRefs(acc.pegs, R) <= AskedBy(s, n, R) BY <1>1
  <2> QED BY <2>1, <1>2, <1>3, <1>6, <1>7, <1>8
<1>11. ASSUME NEW k \in 1..j, ToRefs(b.pegs, {s[k].ref}) < s[k].qty
       PROVE  /\ AllLeftZero(b)
              /\ \A R : (\A h \in 1..k : s[h].ref \notin R) => ToRefs(b.pegs, R) = 0
  <2>1. CASE k \in 1..n
    <3> DEFINE Q == {s[k].ref}
    <3>1. s[k].qty \in Nat
      <4>1. k \in DOMAIN s
        <5>1. DOMAIN s = 1..Len(s) /\ Len(s) \in Nat BY GoodsIndices
        <5> QED BY <5>1, <2>1
      <4> QED BY <4>1 DEF Goods
    <3>2. ToRefs(acc.pegs, {s[k].ref}) < s[k].qty
      <4>1. ToRefs(b.pegs, Q) < s[k].qty BY <1>11
      <4> HIDE DEF Q
      <4>2. ToRefs(acc.pegs, Q) < s[k].qty BY <4>1, <3>1, <1>2, <1>4, <1>6, <1>7, <1>8
      <4> QED BY <4>2 DEF Q
    <3>3. AllLeftZero(acc) /\ \A R : (\A h \in 1..k : s[h].ref \notin R) => ToRefs(acc.pegs, R) = 0
      BY <2>1, <3>2, <1>1
    <3>4. AllLeftZero(b) /\ b.need = d.qty BY <3>3, <1>4
    <3>5. \A R : ToRefs(b.pegs, R) = ToRefs(acc.pegs, R) BY <3>4, <1>2, <1>6, <1>8
    <3> QED BY <3>3, <3>4, <3>5
  <2>2. CASE k = j
    <3> DEFINE Q == {d.ref}
    <3>1. s[k] = d BY <2>2 DEF d
    <3>2. b.need > 0
      <4>1. ToRefs(b.pegs, Q) < d.qty /\ d.ref \in Q BY <3>1, <1>11
      <4> HIDE DEF Q
      <4>2. ToRefs(b.pegs, Q) = ToRefs(acc.pegs, Q) + (d.qty - b.need) BY <4>1, <1>6
      <4>3. ToRefs(acc.pegs, Q) \in Nat BY <1>8
      <4> QED BY <4>1, <4>2, <4>3, <1>2, <1>7
    <3>3. ASSUME NEW R, \A h \in 1..k : s[h].ref \notin R PROVE ToRefs(b.pegs, R) = 0
      <4>1. {h \in 1..j : s[h].ref \in R} = {} BY <3>3, <2>2
      <4>2. AskedBy(s, j, R) = 0 BY <4>1, QtyNothing DEF AskedBy
      <4> QED BY <4>2, <1>8, <1>10
    <3> QED BY <3>2, <3>3, <1>4
  <2> QED BY <2>1, <2>2, <1>0
<1>12. Served(base, s, j, b) BY <1>1, <1>4, <1>9, <1>10, <1>11 DEF Served
<1> QED BY <1>12 DEF j, b, d

(* What peg_pair() makes of its supplies and demands.                       *)
LEMMA PegsOfRanked ==
  ASSUME NEW supplies, Goods(supplies), NEW ranked, Goods(ranked)
  PROVE  LET mine == PegRanked(supplies, ranked)
         IN  /\ Goods(mine)
             /\ \A i \in DOMAIN mine : \E j \in DOMAIN supplies : Key(mine[i]) = Key(supplies[j])
             /\ \A K : KeyQty(mine, K) <= KeyQty(supplies, K)
             /\ \A R : ToRefs(mine, R) <= RefQty(ranked, R)
             /\ \A i \in DOMAIN ranked : ToRefs(mine, {ranked[i].ref}) < ranked[i].qty =>
                  /\ QtyOf(mine) = QtyOf(supplies)
                  /\ \A R : (\A h \in 1..i : ranked[h].ref \notin R) => ToRefs(mine, R) = 0
<1> DEFINE base == [from |-> supplies, left |-> [j \in DOMAIN supplies |-> supplies[j].qty],
                    demand |-> <<>>, need |-> 0, pegs |-> <<>>]
           acc == Serving!Fold(base, ranked)
           mine == PegRanked(supplies, ranked)
<1>1. mine = acc.pegs
  <2>1. mine = FoldLeft(PegDemand, base, ranked).pegs BY DEF PegRanked
  <2> HIDE DEF base
  <2>2. FoldLeft(PegDemand, base, ranked) = Serving!Fold(base, ranked)
    BY DEF Serving!Fold, Serving!FoldLeft, Serving!MapThenFoldSet, Serving!Max, FoldLeft, MapThenFoldSet, Max
  <2> HIDE DEF mine
  <2> QED BY <2>1, <2>2
<1>2. /\ base = [from |-> base.from, left |-> base.left, demand |-> base.demand, need |-> base.need, pegs |-> base.pegs]
      /\ base.from = supplies /\ base.left = [j \in DOMAIN supplies |-> supplies[j].qty]
      /\ base.need = 0 /\ base.pegs = <<>>
  OBVIOUS
<1> HIDE DEF base, acc, mine
<1>3. Pegging(base)
  <2>1. base.left \in [DOMAIN base.from -> Nat] BY <1>2 DEF Goods
  <2>2. Goods(base.pegs) /\ DOMAIN base.pegs = {}
    <3>1. <<>> \in Seq({}) /\ DOMAIN <<>> = {} OBVIOUS
    <3>2. Range(<<>>) = {} BY <3>1 DEF Range
    <3> QED BY <3>1, <3>2, <1>2 DEF Goods, Listed
  <2> QED BY <2>1, <2>2, <1>2 DEF Pegging
<1>4. \A K : KeyQty(base.pegs, K) = 0 /\ ToRefs(base.pegs, K) = 0
  <2>1. DOMAIN base.pegs = {}  BY <1>2
  <2> QED BY <2>1, QtyNothing DEF KeyQty, ToRefs
<1>5. Served(base, ranked, 0, base)
  <2>1. \A K : LeftOf(base, K) + KeyQty(base.pegs, K) = LeftOf(base, K) BY <1>3, <1>4, LeftNat
  <2>2. ASSUME NEW R PROVE ToRefs(base.pegs, R) <= AskedBy(ranked, 0, R)
    <3>1. {k \in 1..0 : ranked[k].ref \in R} = {} OBVIOUS
    <3> QED BY <3>1, <1>4, QtyNothing DEF AskedBy
  <2>3. 1..0 = {} OBVIOUS
  <2> QED BY <2>1, <2>2, <2>3, <1>3 DEF Served
<1>6. /\ ranked \in Seq(Range(ranked)) /\ DOMAIN ranked = 1..Len(ranked) /\ Len(ranked) \in Nat
  BY GoodsIndices DEF Goods, Listed
<1>7. ASSUME NEW i \in 1..Len(ranked), NEW c, Served(base, ranked, i - 1, c)
      PROVE  Served(base, ranked, i, PegDemand(c, ranked[i]))
  <2> DEFINE n == i - 1
  <2>1. n \in Nat /\ n < Len(ranked) /\ n + 1 = i BY <1>6
  <2>2. Served(base, ranked, n, c) BY <1>7
  <2> HIDE DEF n
  <2>3. Served(base, ranked, n + 1, PegDemand(c, ranked[n + 1])) BY <2>1, <2>2, ServedStep
  <2> QED BY <2>1, <2>3
<1>8. Served(base, ranked, Len(ranked), acc)
  <2> HIDE DEF Range
  <2> QED BY <1>5, <1>6, <1>7, Serving!FoldHolds DEF acc
<1>9. /\ Pegging(acc) /\ acc.from = supplies
      /\ \A K : LeftOf(acc, K) + KeyQty(mine, K) = LeftOf(base, K)
      /\ \A R : ToRefs(mine, R) <= AskedBy(ranked, Len(ranked), R)
      /\ \A k \in 1..Len(ranked) : ToRefs(mine, {ranked[k].ref}) < ranked[k].qty =>
           /\ AllLeftZero(acc)
           /\ \A R : (\A h \in 1..k : ranked[h].ref \notin R) => ToRefs(mine, R) = 0
  BY <1>1, <1>2, <1>8 DEF Served
<1>10. \A K : LeftOf(base, K) = KeyQty(supplies, K)
  <2> SUFFICES ASSUME NEW K PROVE LeftOf(base, K) = KeyQty(supplies, K) OBVIOUS
  <2> DEFINE S == {j \in DOMAIN supplies : Key(supplies[j]) \in K}
  <2>1. S \in SUBSET DOMAIN supplies OBVIOUS
  <2>2. LeftOf(base, K) = SumOverSet(base.left, S) BY <1>2 DEF LeftOf
  <2>3. KeyQty(supplies, K) = QtyAt(supplies, S) BY DEF KeyQty
  <2> HIDE DEF S
  <2>4. QtyAt(supplies, S) = SumOverSet(Amounts(supplies), S) /\ IsFiniteSet(S) BY <2>1, QtySum
  <2>5. base.left = Amounts(supplies) BY <1>2 DEF Amounts
  <2> QED BY <2>2, <2>3, <2>4, <2>5
<1>11. Goods(mine) /\ \A i \in DOMAIN mine : \E j \in DOMAIN supplies : Key(mine[i]) = Key(supplies[j])
  BY <1>1, <1>9 DEF Pegging
<1>12. ASSUME NEW K PROVE KeyQty(mine, K) <= KeyQty(supplies, K)
  <2>1. LeftOf(acc, K) \in Nat /\ KeyQty(mine, K) \in Nat BY <1>9, <1>11, LeftNat, CountsNat
  <2>2. LeftOf(acc, K) + KeyQty(mine, K) = KeyQty(supplies, K) BY <1>9, <1>10
  <2> QED BY <2>1, <2>2
<1>13. ASSUME NEW R PROVE ToRefs(mine, R) <= RefQty(ranked, R)
  <2>1. AskedBy(ranked, Len(ranked), R) = RefQty(ranked, R) BY <1>6 DEF AskedBy, RefQty
  <2> QED BY <2>1, <1>9
<1>14. AllLeftZero(acc) => QtyOf(mine) = QtyOf(supplies)
  <2> SUFFICES ASSUME AllLeftZero(acc) PROVE QtyOf(mine) = QtyOf(supplies) OBVIOUS
  <2> DEFINE K == {Key(supplies[j]) : j \in DOMAIN supplies}
  <2>1. {j \in DOMAIN supplies : Key(supplies[j]) \in K} = DOMAIN supplies OBVIOUS
  <2>2. {i \in DOMAIN mine : Key(mine[i]) \in K} = DOMAIN mine BY <1>11
  <2>3. KeyQty(mine, K) = QtyOf(mine) /\ KeyQty(supplies, K) = QtyOf(supplies) BY <2>1, <2>2 DEF KeyQty, QtyOf
  <2> HIDE DEF K
  <2>4. LeftOf(acc, K) = 0
    <3> DEFINE S == {j \in DOMAIN acc.from : Key(acc.from[j]) \in K}
               z == [j \in S |-> 0]
    <3>1. S \in SUBSET DOMAIN acc.from /\ LeftOf(acc, K) = SumOverSet(acc.left, S) BY DEF LeftOf
    <3> HIDE DEF S
    <3>2. IsFiniteSet(S) BY <3>1, <1>9, GoodsIndices, FS_Subset DEF Pegging
    <3>3. \A j \in S : acc.left[j] = 0 BY <3>1 DEF AllLeftZero
    <3>4. SumOverSet(acc.left, S) = 0 BY <3>2, <3>3, SumZero
    <3> QED BY <3>1, <3>4
  <2>5. KeyQty(mine, K) \in Nat BY <1>11, CountsNat
  <2>6. LeftOf(acc, K) + KeyQty(mine, K) = KeyQty(supplies, K) BY <1>9, <1>10
  <2>7. KeyQty(mine, K) = KeyQty(supplies, K) BY <2>4, <2>5, <2>6
  <2> QED BY <2>3, <2>7
<1>15. \A i \in DOMAIN ranked : ToRefs(mine, {ranked[i].ref}) < ranked[i].qty =>
         /\ QtyOf(mine) = QtyOf(supplies)
         /\ \A R : (\A h \in 1..i : ranked[h].ref \notin R) => ToRefs(mine, R) = 0
  BY <1>6, <1>9, <1>14
<1> QED BY <1>11, <1>12, <1>13, <1>15 DEF mine

-----------------------------------------------------------------------------
(* Listing, selecting and joining *)

(* Tuples of integers are keys. *)
LEMMA Tuples ==
  /\ <<>> \in [1..0 -> Int]
  /\ \A a \in Int : <<a>> \in [1..1 -> Int]
  /\ \A a, b \in Int : <<a, b>> \in [1..2 -> Int]
  /\ \A a, b, c \in Int : <<a, b, c>> \in [1..3 -> Int]
OBVIOUS

(* A listing by an injection: the elements are those of seq, none twice.    *)
Lists(t, seq, S, order) ==
  /\ Listed(t) /\ S \in SUBSET DOMAIN seq /\ Len(t) = Cardinality(S)
  /\ order \in [DOMAIN t -> S]
  /\ \A m, n \in DOMAIN t : order[m] = order[n] => m = n
  /\ \A i \in S : \E n \in DOMAIN t : order[n] = i
  /\ \A n \in DOMAIN t : t[n] = seq[order[n]]

(* A list read through an order of some of its indices lists those indices, *)
(* each once.                                                               *)
LEMMA ListingOf ==
  ASSUME NEW seq, NEW S \in SUBSET DOMAIN seq, S \in SUBSET Nat, IsFiniteSet(S),
         NEW key, NEW w \in Nat, Keyed(S, key, w)
  PROVE  LET order == InOrder(S, key)
         IN  Lists([n \in DOMAIN order |-> seq[order[n]]], seq, S, order)
<1> DEFINE order == InOrder(S, key)
           t == [n \in DOMAIN order |-> seq[order[n]]]
           c == Cardinality(S)
<1>1. /\ c \in Nat /\ order \in [1..c -> S]
      /\ \A m, n \in 1..c : order[m] = order[n] => m = n
      /\ \A i \in S : \E n \in 1..c : order[n] = i
  BY InOrderLists
<1> HIDE DEF order, c
<1>2. DOMAIN t = 1..c /\ \A n \in 1..c : t[n] = seq[order[n]] BY <1>1
<1>3. Listed(t) /\ Len(t) = c
  <2>1. t = [n \in 1..c |-> t[n]] BY <1>1
  <2> DEFINE T == {t[n] : n \in 1..c}
  <2> HIDE DEF t
  <2>2. t \in [1..c -> T] BY <2>1
  <2> HIDE DEF T
  <2> QED BY <2>2, <1>1, ListedOfFunction
<1> HIDE DEF t
<1>4. Lists(t, seq, S, order) BY <1>1, <1>2, <1>3 DEF Lists, c
<1> QED BY <1>4 DEF order, t

(* SortedBy() lists every index once. *)
LEMMA SortedListing ==
  ASSUME NEW seq, Listed(seq), NEW key, NEW w \in Nat, Keyed(DOMAIN seq, key, w)
  PROVE  Lists(SortedBy(seq, key), seq, DOMAIN seq, InOrder(DOMAIN seq, key))
<1> DEFINE S == DOMAIN seq
<1>1. S \in SUBSET DOMAIN seq /\ S \in SUBSET Nat /\ IsFiniteSet(S)
  <2>1. seq \in Seq(Range(seq)) BY DEF Listed
  <2> HIDE DEF Range
  <2>2. Len(seq) \in Nat /\ DOMAIN seq = 1..Len(seq) BY <2>1
  <2>3. IsFiniteSet(1..Len(seq)) BY <2>2, FS_Interval
  <2> QED BY <2>2, <2>3
<1>2. Keyed(S, key, w) OBVIOUS
<1>3. SortedBy(seq, key) = [n \in DOMAIN InOrder(S, key) |-> seq[InOrder(S, key)[n]]] BY DEF SortedBy
<1> HIDE DEF S
<1>4. Lists(SortedBy(seq, key), seq, S, InOrder(S, key)) BY <1>1, <1>2, <1>3, ListingOf
<1> QED BY <1>4 DEF S

Plainly(S) == InOrder(S, [i \in S |-> <<>>])

(* Where() lists the selected indices, each once. *)
LEMMA WhereListing ==
  ASSUME NEW seq, Listed(seq), NEW S \in SUBSET DOMAIN seq
  PROVE  Lists(Where(seq, S), seq, S, Plainly(S))
<1> DEFINE key == [i \in S |-> <<>>]
<1>1. S \in SUBSET Nat /\ IsFiniteSet(S)
  <2>1. seq \in Seq(Range(seq)) BY DEF Listed
  <2> HIDE DEF Range
  <2>2. Len(seq) \in Nat /\ DOMAIN seq = 1..Len(seq) BY <2>1
  <2>3. IsFiniteSet(1..Len(seq)) BY <2>2, FS_Interval
  <2> QED BY <2>2, <2>3, FS_Subset
<1>2. Keyed(S, key, 0) BY Tuples DEF Keyed
<1>3. Where(seq, S) = [n \in DOMAIN InOrder(S, key) |-> seq[InOrder(S, key)[n]]] BY DEF Where
<1>4. Plainly(S) = InOrder(S, key) BY DEF Plainly
<1> HIDE DEF key
<1>5. 0 \in Nat OBVIOUS
<1> QED BY <1>1, <1>2, <1>3, <1>4, <1>5, ListingOf

(* Listed again, a quantity stays what it was.                              *)
LEMMA QtyListed ==
  ASSUME NEW t, NEW seq, Goods(seq), NEW S, NEW order, Lists(t, seq, S, order), NEW T \in SUBSET DOMAIN t
  PROVE  /\ Goods(t) /\ Images(order, T) \in SUBSET S
         /\ QtyAt(t, T) = QtyAt(seq, Images(order, T))
<1>1. /\ Listed(t) /\ S \in SUBSET DOMAIN seq /\ order \in [DOMAIN t -> S]
      /\ \A m, n \in DOMAIN t : order[m] = order[n] => m = n
      /\ \A n \in DOMAIN t : t[n] = seq[order[n]]
  BY DEF Lists
<1>2. Goods(t)
  <2>1. ASSUME NEW n \in DOMAIN t PROVE t[n].qty \in Nat
    <3>1. order[n] \in DOMAIN seq /\ t[n] = seq[order[n]] BY <1>1
    <3> QED BY <3>1 DEF Goods
  <2> QED BY <2>1, <1>1 DEF Goods
<1>3. \A i \in T : order[i] \in DOMAIN seq /\ t[i].qty = seq[order[i]].qty BY <1>1
<1>4. \A i, j \in T : order[i] = order[j] => i = j BY <1>1
<1>5. QtyAt(t, T) = QtyAt(seq, Images(order, T)) BY <1>2, <1>3, <1>4, QtyRenamed
<1>6. Images(order, T) \in SUBSET S BY <1>1 DEF Images
<1> QED BY <1>2, <1>5, <1>6

(* One list after the other.                                                *)
Follows(t, a, b) ==
  /\ Listed(t) /\ Len(a) \in Nat /\ Len(b) \in Nat /\ Len(t) = Len(a) + Len(b)
  /\ DOMAIN a = 1..Len(a) /\ DOMAIN b = 1..Len(b) /\ DOMAIN t = 1..Len(a) + Len(b)
  /\ \A i \in DOMAIN a : t[i] = a[i]
  /\ \A i \in DOMAIN b : t[i + Len(a)] = b[i]
  /\ \A i \in DOMAIN t : i \in DOMAIN a \/ i - Len(a) \in DOMAIN b

(* What a concatenation is made of. *)
LEMMA Joining ==
  ASSUME NEW a, Listed(a), NEW b, Listed(b)
  PROVE  Follows(a \o b, a, b)
<1> DEFINE T == Range(a) \cup Range(b)
           t == a \o b
<1>1. a \in Seq(T) /\ b \in Seq(T)
  <2>1. a \in Seq(Range(a)) /\ b \in Seq(Range(b)) BY DEF Listed
  <2> DEFINE A == Range(a)
             B == Range(b)
  <2>2. a \in Seq(A) /\ b \in Seq(B) BY <2>1
  <2> HIDE DEF A, B
  <2>3. a \in Seq(A \cup B) /\ b \in Seq(A \cup B) BY <2>2
  <2> QED BY <2>3 DEF A, B
<1> HIDE DEF T
<1>2. /\ t \in Seq(T) /\ Len(a) \in Nat /\ Len(b) \in Nat /\ Len(t) = Len(a) + Len(b)
      /\ DOMAIN a = 1..Len(a) /\ DOMAIN b = 1..Len(b) /\ DOMAIN t = 1..Len(t)
  BY <1>1
<1>3. \A i \in 1..Len(a) : t[i] = a[i] BY <1>1
<1>4. ASSUME NEW i \in 1..Len(b) PROVE t[i + Len(a)] = b[i]
  <2> DEFINE j == i + Len(a)
  <2>1. j \in 1..Len(a) + Len(b) /\ j > Len(a) /\ j - Len(a) = i BY <1>2
  <2> HIDE DEF j
  <2>2. t[j] = IF j <= Len(a) THEN a[j] ELSE b[j - Len(a)] BY <1>1, <1>2, <2>1
  <2>3. ~(j <= Len(a)) BY <2>1, <1>2
  <2> QED BY <2>1, <2>2, <2>3 DEF j
<1>5. Listed(t)
  <2> HIDE DEF t
  <2> QED BY <1>2, ListedOfSeq
<1>6. \A i \in 1..Len(a) + Len(b) : i \in 1..Len(a) \/ i - Len(a) \in 1..Len(b) BY <1>2
<1> HIDE DEF t
<1>7. \A i \in DOMAIN a : t[i] = a[i] BY <1>2, <1>3
<1>8. \A i \in DOMAIN b : t[i + Len(a)] = b[i] BY <1>2, <1>4
<1>9. \A i \in DOMAIN t : i \in DOMAIN a \/ i - Len(a) \in DOMAIN b BY <1>2, <1>6
<1>10. Follows(t, a, b) BY <1>2, <1>5, <1>7, <1>8, <1>9 DEF Follows
<1> QED BY <1>10 DEF t

(* The quantity of a concatenation is that of its parts. *)
LEMMA QtyJoined ==
  ASSUME NEW a, Goods(a), NEW b, Goods(b), NEW S \in SUBSET DOMAIN (a \o b)
  PROVE  /\ Goods(a \o b)
         /\ QtyAt(a \o b, S) = QtyAt(a, S \cap DOMAIN a) + QtyAt(b, {i \in DOMAIN b : i + Len(a) \in S})
<1> DEFINE t == a \o b
           m == Len(a)
           P == S \cap DOMAIN a
           Q == {i \in DOMAIN b : i + m \in S}
           back == [i \in S \ P |-> i - m]
<1>0. Follows(t, a, b) BY Joining DEF Goods
<1> HIDE DEF t
<1>1. /\ Listed(t) /\ m \in Nat /\ Len(b) \in Nat
      /\ DOMAIN a = 1..m /\ DOMAIN b = 1..Len(b) /\ DOMAIN t = 1..m + Len(b)
  BY <1>0 DEF Follows
<1>2. \A i \in DOMAIN a : t[i] = a[i] BY <1>0 DEF Follows
<1>3. \A i \in DOMAIN b : t[i + m] = b[i] BY <1>0 DEF Follows
<1>4. \A i \in DOMAIN t : i \in DOMAIN a \/ i - m \in DOMAIN b BY <1>0 DEF Follows
<1> HIDE DEF m
<1>5. Goods(t)
  <2>1. ASSUME NEW i \in DOMAIN t PROVE t[i].qty \in Nat
    <3>1. CASE i \in DOMAIN a BY <3>1, <1>2 DEF Goods
    <3>2. CASE i - m \in DOMAIN b
      <4>1. t[(i - m) + m] = b[i - m] /\ b[i - m].qty \in Nat BY <3>2, <1>3 DEF Goods
      <4>2. (i - m) + m = i BY <1>1
      <4> QED BY <4>1, <4>2
    <3> QED BY <3>1, <3>2, <1>4
  <2> QED BY <2>1, <1>1 DEF Goods
<1>6. S \in SUBSET DOMAIN t BY DEF t
<1>7. P \in SUBSET S /\ P \in SUBSET DOMAIN t /\ P \in SUBSET DOMAIN a /\ S \ P \in SUBSET DOMAIN t BY <1>6
<1>8. QtyAt(t, S) = QtyAt(t, P) + QtyAt(t, S \ P)
  <2> HIDE DEF P
  <2> QED BY <1>5, <1>6, <1>7, QtyGrows
<1>9. QtyAt(t, P) = QtyAt(a, P)
  <2> HIDE DEF P
  <2>1. \A i \in P : t[i].qty = a[i].qty BY <1>2, <1>7
  <2> QED BY <1>5, <1>7, <2>1, QtyAgrees
<1>10. \A i \in S \ P : i \in 1..m + Len(b) /\ i - m \in DOMAIN b /\ (i - m) + m = i BY <1>1, <1>4, <1>6
<1>11. QtyAt(t, S \ P) = QtyAt(b, Images(back, S \ P))
  <2> DEFINE R == S \ P
  <2>1. R \in SUBSET DOMAIN t BY <1>7
  <2>2. \A i \in R : back[i] \in DOMAIN b /\ t[i].qty = b[back[i]].qty
    <3>1. ASSUME NEW i \in R PROVE back[i] \in DOMAIN b /\ t[i] = b[back[i]]
      <4>1. t[(i - m) + m] = b[i - m] BY <1>3, <1>10
      <4> QED BY <4>1, <1>10
    <3> QED BY <3>1
  <2>3. \A i, j \in R : back[i] = back[j] => i = j BY <1>1, <1>10
  <2> HIDE DEF R, back
  <2>4. QtyAt(t, R) = QtyAt(b, Images(back, R)) BY <1>5, <2>1, <2>2, <2>3, QtyRenamed
  <2> QED BY <2>4 DEF R
<1>12. Images(back, S \ P) = Q
  <2>1. ASSUME NEW i \in Q PROVE i \in Images(back, S \ P)
    <3>1. i + m \in S /\ i \in DOMAIN b BY <2>1
    <3>2. i + m \notin P /\ (i + m) - m = i BY <3>1, <1>1
    <3> QED BY <3>1, <3>2 DEF Images
  <2>2. ASSUME NEW i \in S \ P PROVE back[i] \in Q BY <1>10
  <2> QED BY <2>1, <2>2 DEF Images
<1> QED BY <1>5, <1>8, <1>9, <1>11, <1>12 DEF t, m

-----------------------------------------------------------------------------
(* Lots: what is held is taken off the first ones *)

LotsFirst(s, n, L) == QtyAt(s, {k \in 1..n : s[k].lot \in L})
LotsQty(s, L) == QtyAt(s, {k \in DOMAIN s : s[k].lot \in L})

(* The quantity of some lots is never negative. *)
LEMMA LotsNat ==
  ASSUME NEW s, Goods(s), NEW L
  PROVE  LotsQty(s, L) \in Nat
<1> DEFINE S == {k \in DOMAIN s : s[k].lot \in L}
<1>1. S \in SUBSET DOMAIN s /\ LotsQty(s, L) = QtyAt(s, S) BY DEF LotsQty
<1> HIDE DEF S
<1> QED BY <1>1, QtySum

(* A quantity of one lot counts for the lots it is among. *)
LEMMA LotsMore ==
  ASSUME NEW s, Goods(s), NEW n \in Nat, n < Len(s), NEW L
  PROVE  /\ LotsFirst(s, n, L) \in Nat
         /\ LotsFirst(s, n + 1, L) = LotsFirst(s, n, L) + (IF s[n + 1].lot \in L THEN s[n + 1].qty ELSE 0)
<1> DEFINE U == {k \in DOMAIN s : s[k].lot \in L}
           j == n + 1
<1>1. DOMAIN s = 1..Len(s) /\ Len(s) \in Nat BY GoodsIndices
<1>2. /\ {k \in 1..n : s[k].lot \in L} = U \cap 1..n
      /\ {k \in 1..j : s[k].lot \in L} = U \cap 1..j
      /\ j \in U <=> s[j].lot \in L
  BY <1>1
<1>3. U \in SUBSET DOMAIN s OBVIOUS
<1> HIDE DEF U
<1>4. /\ QtyAt(s, U \cap 1..n) \in Nat
      /\ QtyAt(s, U \cap 1..j) = QtyAt(s, U \cap 1..n) + (IF j \in U THEN s[j].qty ELSE 0)
  BY <1>3, QtyPrefix
<1> HIDE DEF j
<1>5. LotsFirst(s, j, L) = LotsFirst(s, n, L) + (IF s[j].lot \in L THEN s[j].qty ELSE 0) /\ LotsFirst(s, n, L) \in Nat
  BY <1>2, <1>4 DEF LotsFirst
<1> QED BY <1>5 DEF j

(* One more row counts for its lot. *)
LEMMA LotsAppend ==
  ASSUME NEW s, Goods(s), NEW x, x.qty \in Nat, NEW L
  PROVE  LotsQty(Append(s, x), L) = LotsQty(s, L) + (IF x.lot \in L THEN x.qty ELSE 0)
<1> DEFINE t == Append(s, x)
           n == Len(s) + 1
           A == {k \in DOMAIN s : s[k].lot \in L}
           B == {k \in DOMAIN t : t[k].lot \in L}
<1>1. A \in SUBSET DOMAIN s OBVIOUS
<1>2. DOMAIN t = DOMAIN s \cup {n} /\ n \notin DOMAIN s /\ t[n] = x BY <1>1, QtyAppend
<1>3. \A i \in DOMAIN s : t[i] = s[i] BY <1>1, QtyAppend
<1>4. QtyAt(t, A) = QtyAt(s, A) /\ QtyAt(t, A \cup {n}) = QtyAt(s, A) + x.qty
  <2> HIDE DEF A
  <2> QED BY <1>1, QtyAppend
<1>5. QtyAt(s, A) \in Nat
  <2> HIDE DEF A
  <2> QED BY <1>1, QtySum
<1> HIDE DEF t, n
<1>6. B = IF x.lot \in L THEN A \cup {n} ELSE A BY <1>2, <1>3
<1>7. LotsQty(t, L) = QtyAt(t, B) /\ LotsQty(s, L) = QtyAt(s, A) BY DEF LotsQty
<1> HIDE DEF A, B
<1>8. LotsQty(t, L) = LotsQty(s, L) + (IF x.lot \in L THEN x.qty ELSE 0)
  <2>1. CASE x.lot \in L BY <2>1, <1>4, <1>6, <1>7
  <2>2. CASE x.lot \notin L BY <2>2, <1>4, <1>5, <1>6, <1>7
  <2> QED BY <2>1, <2>2
<1> QED BY <1>8 DEF t

(* The invariant of the loop over the lots after n of them.                 *)
Held(base, s, n, acc) ==
  /\ acc.hold \in Nat /\ Goods(acc.out)
  /\ \A i \in DOMAIN acc.out :
       acc.out[i].kind = "ONHAND" /\ \E k \in 1..n : acc.out[i].lot = s[k].lot
  /\ \A L : LotsQty(acc.out, L) <= LotsFirst(s, n, L)
  /\ \A L : (\A k \in 1..n : s[k].lot \in L) => LotsQty(acc.out, L) + base.hold = LotsFirst(s, n, L) + acc.hold
  /\ DOMAIN acc.out # {} => acc.hold = 0

Holding == INSTANCE FoldLemmas WITH Op <- HoldLot, Holds <- Held

(* HoldLot(): one more lot keeps what is true of the supplies so far. *)
LEMMA HeldStep ==
  ASSUME NEW base, base.hold \in Nat, NEW s, Goods(s), NEW n \in Nat, n < Len(s), NEW acc, Held(base, s, n, acc)
  PROVE  Held(base, s, n + 1, HoldLot(acc, s[n + 1]))
<1> DEFINE j == n + 1
           x == s[j]
           take == IF x.qty < acc.hold THEN x.qty ELSE acc.hold
           g == [kind |-> "ONHAND", ref |-> x.lot, lot |-> x.lot, qty |-> x.qty - take, day |-> 0]
           b == HoldLot(acc, x)
<1>1. /\ acc.hold \in Nat /\ Goods(acc.out)
      /\ \A i \in DOMAIN acc.out :
           acc.out[i].kind = "ONHAND" /\ \E k \in 1..n : acc.out[i].lot = s[k].lot
      /\ \A L : LotsQty(acc.out, L) <= LotsFirst(s, n, L)
      /\ \A L : (\A k \in 1..n : s[k].lot \in L) => LotsQty(acc.out, L) + base.hold = LotsFirst(s, n, L) + acc.hold
      /\ DOMAIN acc.out # {} => acc.hold = 0
  BY DEF Held
<1>2. j \in DOMAIN s /\ x.qty \in Nat
  <2>1. DOMAIN s = 1..Len(s) /\ Len(s) \in Nat BY GoodsIndices
  <2> QED BY <2>1 DEF Goods
<1>3. \A L : /\ LotsFirst(s, n, L) \in Nat
             /\ LotsFirst(s, j, L) = LotsFirst(s, n, L) + (IF x.lot \in L THEN x.qty ELSE 0)
  BY LotsMore
<1>4. j \in 1..j /\ \A k \in 1..n : k \in 1..j OBVIOUS
<1> HIDE DEF j, x
<1>5. take \in Nat /\ take <= x.qty /\ take <= acc.hold /\ (take = x.qty \/ take = acc.hold) BY <1>1, <1>2
<1>6. b = [hold |-> acc.hold - take, out |-> IF x.qty = take THEN acc.out ELSE Append(acc.out, g)]
  BY DEF HoldLot
<1>7. g.kind = "ONHAND" /\ g.lot = x.lot /\ g.qty = x.qty - take OBVIOUS
<1> HIDE DEF b, take, g
<1>8. b.hold = acc.hold - take /\ b.out = IF x.qty = take THEN acc.out ELSE Append(acc.out, g) BY <1>6
<1>9. b.hold \in Nat BY <1>1, <1>5, <1>8
<1>10. CASE x.qty = take
  <2>1. b.out = acc.out BY <1>8, <1>10
  <2>2. ASSUME NEW L PROVE LotsQty(b.out, L) <= LotsFirst(s, j, L)
    <3>1. LotsQty(acc.out, L) \in Nat BY <1>1, LotsNat
    <3> QED BY <3>1, <2>1, <1>1, <1>2, <1>3
  <2>3. ASSUME NEW L, \A k \in 1..j : s[k].lot \in L
        PROVE  LotsQty(b.out, L) + base.hold = LotsFirst(s, j, L) + b.hold
    <3>1. x.lot \in L BY <2>3, <1>4 DEF x
    <3>2. LotsQty(acc.out, L) + base.hold = LotsFirst(s, n, L) + acc.hold BY <2>3, <1>1, <1>4
    <3>3. LotsQty(acc.out, L) + base.hold \in Int BY <3>2, <1>1, <1>3
    <3> QED BY <3>1, <3>2, <3>3, <2>1, <1>1, <1>2, <1>3, <1>8, <1>10
  <2>4. DOMAIN b.out # {} => b.hold = 0 BY <2>1, <1>1, <1>5, <1>8
  <2>5. \A i \in DOMAIN b.out : b.out[i].kind = "ONHAND" /\ \E k \in 1..j : b.out[i].lot = s[k].lot
    BY <2>1, <1>1, <1>4
  <2> QED BY <2>1, <2>2, <2>3, <2>4, <2>5, <1>1, <1>9 DEF Held, b, x, j
<1>11. CASE x.qty # take
  <2>1. b.out = Append(acc.out, g) BY <1>8, <1>11
  <2>2. g.qty \in Nat BY <1>2, <1>5, <1>7
  <2>3. \A L : LotsQty(Append(acc.out, g), L) = LotsQty(acc.out, L) + (IF g.lot \in L THEN g.qty ELSE 0)
    BY <2>2, <1>1, LotsAppend
  <2>4. Goods(b.out) /\ \A i \in DOMAIN b.out : (i \in DOMAIN acc.out /\ b.out[i] = acc.out[i]) \/ b.out[i] = g
    <3>1. {} \in SUBSET DOMAIN acc.out OBVIOUS
    <3>0. Goods(acc.out) BY <1>1
    <3> DEFINE t == Append(acc.out, g)
               m == Len(acc.out) + 1
    <3>2. Goods(t) /\ DOMAIN t = DOMAIN acc.out \cup {m} /\ t[m] = g BY ONLY <3>0, <3>1, <2>2, QtyAppend
    <3>3. \A i \in DOMAIN acc.out : t[i] = acc.out[i] BY ONLY <3>0, <3>1, <2>2, QtyAppend
    <3> HIDE DEF t, m
    <3>4. Goods(t) /\ \A i \in DOMAIN t : (i \in DOMAIN acc.out /\ t[i] = acc.out[i]) \/ t[i] = g BY <3>2, <3>3
    <3> QED BY <3>4, <2>1 DEF t
  <2>5. \A L : LotsQty(acc.out, L) \in Nat BY <1>1, LotsNat
  <2>6. take = acc.hold /\ b.hold = 0 BY <1>1, <1>5, <1>8, <1>11
  <2>7. ASSUME NEW L PROVE LotsQty(b.out, L) <= LotsFirst(s, j, L)
    <3>1. LotsQty(b.out, L) = LotsQty(acc.out, L) + (IF x.lot \in L THEN x.qty - take ELSE 0)
      BY <2>1, <2>3, <1>7
    <3> QED BY <3>1, <2>5, <1>1, <1>2, <1>3, <1>5
  <2>8. ASSUME NEW L, \A k \in 1..j : s[k].lot \in L
        PROVE  LotsQty(b.out, L) + base.hold = LotsFirst(s, j, L) + b.hold
    <3>1. x.lot \in L BY <2>8, <1>4 DEF x
    <3>2. LotsQty(acc.out, L) + base.hold = LotsFirst(s, n, L) + acc.hold BY <2>8, <1>1, <1>4
    <3>3. LotsQty(b.out, L) = LotsQty(acc.out, L) + (x.qty - take) BY <3>1, <2>1, <2>3, <1>7
    <3> DEFINE y == LotsQty(acc.out, L)
               z == LotsFirst(s, n, L)
    <3>4. y \in Nat /\ z \in Nat /\ LotsFirst(s, j, L) = z + x.qty BY <3>1, <2>5, <1>3
    <3>5. y + base.hold = z + take /\ LotsQty(b.out, L) = y + (x.qty - take) BY <3>2, <3>3, <2>6
    <3> HIDE DEF y, z
    <3>6. base.hold \in Nat /\ x.qty \in Nat /\ take \in Nat /\ y + base.hold = z + take BY <3>5, <1>2, <1>5
    <3>7. (y + (x.qty - take)) + base.hold = (z + x.qty) + 0 BY ONLY <3>4, <3>6
    <3> QED BY <3>4, <3>5, <3>7, <2>6
  <2>9. ASSUME NEW i \in DOMAIN b.out PROVE b.out[i].kind = "ONHAND" /\ \E k \in 1..j : b.out[i].lot = s[k].lot
    <3>1. CASE i \in DOMAIN acc.out /\ b.out[i] = acc.out[i] BY <3>1, <1>1, <1>4
    <3>2. CASE b.out[i] = g
      <4>1. b.out[i].kind = "ONHAND" /\ b.out[i].lot = s[j].lot BY <3>2, <1>7 DEF x
      <4> QED BY <4>1, <1>4
    <3> QED BY <3>1, <3>2, <2>4
  <2> QED BY <2>4, <2>6, <2>7, <2>8, <2>9, <1>9 DEF Held, b, x, j
<1> QED BY <1>10, <1>11

(* What is on hand of a list of lots but what is held.                      *)
ButHeld(out, held, s) ==
  /\ Goods(out)
  /\ \A i \in DOMAIN out : out[i].kind = "ONHAND" /\ \E k \in DOMAIN s : out[i].lot = s[k].lot
  /\ \A L : LotsQty(out, L) <= LotsQty(s, L)
  /\ DOMAIN out # {} => QtyOf(out) + held = QtyOf(s)

(* OnHandBut() is the stock less what is held, lot by lot. *)
LEMMA OnHandHeld ==
  ASSUME NEW held \in Nat, NEW s, Goods(s)
  PROVE  ButHeld(FoldLeft(HoldLot, [hold |-> held, out |-> <<>>], s).out, held, s)
<1> DEFINE base == [hold |-> held, out |-> <<>>]
           acc == Holding!Fold(base, s)
<1>1. FoldLeft(HoldLot, base, s) = acc
  <2> HIDE DEF base
  <2> QED BY DEF Holding!Fold, Holding!FoldLeft, Holding!MapThenFoldSet, Holding!Max, FoldLeft, MapThenFoldSet, Max
<1>2. base.hold = held /\ base.out = <<>> OBVIOUS
<1>3. s \in Seq(Range(s)) /\ DOMAIN s = 1..Len(s) /\ Len(s) \in Nat BY GoodsIndices DEF Goods, Listed
<1> HIDE DEF base
<1>4. Held(base, s, 0, base)
  <2>1. Goods(base.out) /\ DOMAIN base.out = {}
    <3>1. <<>> \in Seq({}) /\ DOMAIN <<>> = {} OBVIOUS
    <3>2. Range(<<>>) = {} BY <3>1 DEF Range
    <3> QED BY <3>1, <3>2, <1>2 DEF Goods, Listed
  <2>2. \A L : LotsQty(base.out, L) = 0 BY <2>1, QtyNothing DEF LotsQty
  <2>3. \A L : LotsFirst(s, 0, L) = 0
    <3>1. \A L : {k \in 1..0 : s[k].lot \in L} = {} OBVIOUS
    <3> QED BY <3>1, QtyNothing DEF LotsFirst
  <2> QED BY <2>1, <2>2, <2>3, <1>2 DEF Held
<1>5. ASSUME NEW i \in 1..Len(s), NEW c, Held(base, s, i - 1, c) PROVE Held(base, s, i, HoldLot(c, s[i]))
  <2> DEFINE n == i - 1
  <2>1. n \in Nat /\ n < Len(s) /\ n + 1 = i BY <1>3
  <2>2. Held(base, s, n, c) BY <1>5
  <2> HIDE DEF n
  <2>3. Held(base, s, n + 1, HoldLot(c, s[n + 1])) BY <2>1, <2>2, <1>2, HeldStep
  <2> QED BY <2>1, <2>3
<1>6. Held(base, s, Len(s), acc)
  <2> HIDE DEF Range
  <2> QED BY <1>3, <1>4, <1>5, Holding!FoldHolds
<1> HIDE DEF acc
<1>7. /\ acc.hold \in Nat /\ Goods(acc.out)
      /\ \A i \in DOMAIN acc.out :
           acc.out[i].kind = "ONHAND" /\ \E k \in 1..Len(s) : acc.out[i].lot = s[k].lot
      /\ \A L : LotsQty(acc.out, L) <= LotsFirst(s, Len(s), L)
      /\ \A L : (\A k \in 1..Len(s) : s[k].lot \in L)
                  => LotsQty(acc.out, L) + base.hold = LotsFirst(s, Len(s), L) + acc.hold
      /\ DOMAIN acc.out # {} => acc.hold = 0
  BY <1>6 DEF Held
<1>8. \A L : LotsFirst(s, Len(s), L) = LotsQty(s, L) BY <1>3 DEF LotsFirst, LotsQty
<1>9. ASSUME DOMAIN acc.out # {} PROVE QtyOf(acc.out) + held = QtyOf(s)
  <2> DEFINE L == {s[k].lot : k \in DOMAIN s}
  <2>1. {k \in DOMAIN s : s[k].lot \in L} = DOMAIN s OBVIOUS
  <2>2. {i \in DOMAIN acc.out : acc.out[i].lot \in L} = DOMAIN acc.out BY <1>3, <1>7
  <2>3. LotsQty(s, L) = QtyOf(s) /\ LotsQty(acc.out, L) = QtyOf(acc.out) BY <2>1, <2>2 DEF LotsQty, QtyOf
  <2>4. \A k \in 1..Len(s) : s[k].lot \in L BY <1>3
  <2> HIDE DEF L
  <2>5. LotsQty(acc.out, L) + base.hold = LotsFirst(s, Len(s), L) + acc.hold BY <2>4, <1>7
  <2>6. LotsQty(s, L) \in Nat BY LotsNat
  <2>7. acc.hold = 0 BY <1>7, <1>9
  <2> QED BY <2>3, <2>5, <2>6, <2>7, <1>2, <1>8
<1>10. \A i \in DOMAIN acc.out : acc.out[i].kind = "ONHAND" /\ \E k \in DOMAIN s : acc.out[i].lot = s[k].lot
  BY <1>3, <1>7
<1>11. \A L : LotsQty(acc.out, L) <= LotsQty(s, L) BY <1>7, <1>8
<1>12. ButHeld(acc.out, held, s) BY <1>7, <1>9, <1>10, <1>11 DEF ButHeld
<1> QED BY <1>1, <1>12 DEF base

-----------------------------------------------------------------------------
(* Scores are integers *)

(* A finite set of integers has a greatest element.                         *)
LEMMA LargestInt ==
  ASSUME NEW S \in SUBSET Int, IsFiniteSet(S)
  PROVE  Largest(S) \in Int /\ \A i \in S : i <= Largest(S)
<1> DEFINE D == {T \in SUBSET S : T = {} \/ \E m \in T : \A i \in T : i <= m}
<1>1. {} \in D OBVIOUS
<1>2. ASSUME NEW T \in SUBSET S, NEW x \in T, T \ {x} \in D PROVE T \in D
  <2>1. CASE T \ {x} = {}
    <3>1. \A i \in T : i <= x BY <2>1
    <3> QED BY <3>1
  <2>2. CASE \E m \in T \ {x} : \A i \in T \ {x} : i <= m
    <3>1. PICK m \in T \ {x} : \A i \in T \ {x} : i <= m BY <2>2
    <3>2. m \in Int /\ x \in Int OBVIOUS
    <3>3. CASE x <= m
      <4>1. \A i \in T : i <= m BY <3>1, <3>3
      <4> QED BY <4>1
    <3>4. CASE m <= x
      <4>1. \A i \in T \ {x} : i \in Int /\ i <= m BY <3>1
      <4>2. \A i \in T : i <= x BY <3>2, <3>4, <4>1
      <4> QED BY <4>2
    <3> QED BY <3>2, <3>3, <3>4
  <2> QED BY <2>1, <2>2, <1>2
<1>3. S \in D
  <2> HIDE DEF D
  <2> QED BY <1>1, <1>2, SubsetInduction
<1>4. CASE S = {} BY <1>4 DEF Largest
<1>5. CASE S # {}
  <2>1. \E m \in S : \A i \in S : i <= m BY <1>3, <1>5
  <2>2. Max(S) \in S /\ \A i \in S : i <= Max(S) BY <2>1 DEF Max
  <2> QED BY <2>2, <1>5 DEF Largest
<1> QED BY <1>4, <1>5

(* Whatever the method of ranking.                                          *)
LEMMA ScoreInt ==
  ASSUME NEW ds, Listed(ds), \A i \in DOMAIN ds : Demand(ds[i]), NEW k \in DOMAIN ds, NEW method
  PROVE  Score(ds[k], ds, method) \in Int
<1> DEFINE d == ds[k]
<1>1. /\ d.qty \in Nat /\ d.day \in Int /\ d.entered \in Int /\ d.prio \in Int /\ d.value \in Nat
  BY DEF Demand
<1>2. DOMAIN ds = 1..Len(ds) /\ Len(ds) \in Nat /\ IsFiniteSet(DOMAIN ds)
  <2>1. ds \in Seq(Range(ds)) BY DEF Listed
  <2> HIDE DEF Range
  <2>2. DOMAIN ds = 1..Len(ds) /\ Len(ds) \in Nat BY <2>1
  <2> QED BY <2>2, FS_Interval
<1>3. FifoRank(d, ds) \in Int
  <2> DEFINE key == [i \in DOMAIN ds |-> <<ds[i].entered, ds[i].day>>]
             byDate == SortedBy(ds, key)
             S == {i \in DOMAIN byDate : byDate[i].ref = d.ref}
  <2>1. Keyed(DOMAIN ds, key, 2) BY Tuples DEF Keyed, Demand
  <2>2. Lists(byDate, ds, DOMAIN ds, InOrder(DOMAIN ds, key))
    <3> HIDE DEF key
    <3>1. 2 \in Nat OBVIOUS
    <3> QED BY <2>1, <3>1, SortedListing
  <2>3. FifoRank(d, ds) = Len(ds) - Largest(S) BY DEF FifoRank
  <2> HIDE DEF byDate
  <2>4. byDate \in Seq(Range(byDate)) BY <2>2 DEF Lists, Listed
  <2>5. DOMAIN byDate = 1..Len(byDate) /\ Len(byDate) \in Nat
    <3> HIDE DEF Range
    <3> QED BY <2>4
  <2>6. S \in SUBSET Int /\ IsFiniteSet(S)
    <3>1. S \in SUBSET (1..Len(byDate)) /\ S \in SUBSET Int BY <2>5
    <3>2. IsFiniteSet(1..Len(byDate)) BY <2>5, FS_Interval
    <3> HIDE DEF S
    <3> QED BY <3>1, <3>2, FS_Subset
  <2> HIDE DEF S
  <2>7. Largest(S) \in Int BY <2>6, LargestInt
  <2> QED BY <2>3, <2>7, <1>2
<1>4. Overdue(d) \in Int BY <1>1 DEF Overdue
<1>5. Weighted(d, ds) \in Int
  <2> DEFINE values == {ds[i].value : i \in DOMAIN ds}
             top == Largest({ds[i].value : i \in DOMAIN ds} \cup {1})
             sum == (30 * 70 * (5 - d.prio)
                     + 10 * (20 * Overdue(d) + (IF d.day < 0 THEN 84 ELSE 0))
                     + 5 * (IF d.near THEN 280 ELSE 84)
                     + (IF d.contract THEN 15 * 280 ELSE 0))
  <2>1. IsFiniteSet(values)
    <3> DEFINE f == [i \in DOMAIN ds |-> ds[i].value]
    <3>1. f \in Surjection(DOMAIN ds, values) BY DEF Surjection
    <3> HIDE DEF values, f
    <3> QED BY <3>1, <1>2, FS_Surjection
  <2>2. values \cup {1} \in SUBSET Int BY DEF Demand
  <2>3. top \in Int
    <3> DEFINE S == values \cup {1}
    <3>1. S \in SUBSET Int /\ IsFiniteSet(S) BY <2>1, <2>2, FS_AddElement
    <3>2. top = Largest(S) OBVIOUS
    <3> HIDE DEF S, top
    <3> QED BY <3>1, <3>2, LargestInt
  <2>4. sum \in Int BY <1>1, <1>4
  <2>5. Weighted(d, ds) = top * sum + 20 * 280 * d.value BY DEF Weighted
  <2> HIDE DEF top, sum, d
  <2>6. ASSUME NEW x \in Int, NEW y \in Int, NEW z \in Nat PROVE x * y + 20 * 280 * z \in Int OBVIOUS
  <2> QED BY <2>3, <2>4, <2>5, <2>6, <1>1
<1> HIDE DEF d
<1>6. Score(d, ds, method) \in Int
  <2>1. CASE method = "fifo" BY <2>1, <1>3 DEF Score
  <2>2. CASE method = "priority" BY <2>2, <1>1 DEF Score
  <2>3. CASE method = "revenue" BY <2>3, <1>1 DEF Score
  <2>4. CASE method = "service_level" BY <2>4, <1>4 DEF Score
  <2>5. CASE method = "geography" BY <2>5 DEF Score
  <2>6. CASE method = "contract" BY <2>6 DEF Score
  <2>7. CASE method \in {"criticality", "margin"} BY <2>7 DEF Score
  <2>8. CASE method \notin {"fifo", "priority", "revenue", "service_level", "geography", "contract", "criticality", "margin"}
    BY <2>8, <1>5 DEF Score
  <2> QED BY <2>1, <2>2, <2>3, <2>4, <2>5, <2>6, <2>7, <2>8
<1> QED BY <1>6 DEF d

-----------------------------------------------------------------------------
(* The supplies and demands of a pair *)

InboundKinds == {"PO", "TO", "PROD"}
DemandList(ds) == Listed(ds) /\ \A i \in DOMAIN ds : Demand(ds[i])

PairOk(p) ==
  /\ p.lots \in [Lots -> Nat] /\ p.usable = SumFunction(p.lots)
  /\ Goods(p.inbound) /\ \A i \in DOMAIN p.inbound : p.inbound[i].kind \in InboundKinds /\ p.inbound[i].day \in Int
  /\ p.committed \in Nat /\ p.reserved \in Nat
  /\ DemandList(p.orders) /\ DemandList(p.backorders) /\ DemandList(p.required)

(* Lots are finitely many numbers. *)
LEMMA LotsFinite ==
  IsFiniteSet(Lots) /\ Lots \subseteq Nat /\ \A lot \in Lots : lot # 0 => lot \in 1..NLots
<1>1. NLots \in Nat BY LedgerAssumption
<1>2. Lots = 0..NLots BY DEF Lots
<1>3. IsFiniteSet(0..NLots) BY <1>1, FS_Interval
<1> QED BY <1>1, <1>2, <1>3

(* The usable stock of a pair is never negative. *)
LEMMA UsableNat ==
  ASSUME NEW p, PairOk(p)
  PROVE  p.usable \in Nat
<1>1. p.lots \in [Lots -> Nat] /\ p.usable = SumFunction(p.lots) BY DEF PairOk
<1>2. SumFunction(p.lots) = SumOverSet(p.lots, DOMAIN p.lots)
  BY DEF SumFunction, SumFunctionOnSet, FoldFunctionOnSet, SumOverSet, MapThenFoldSet
<1>3. DOMAIN p.lots = Lots /\ \A lot \in Lots : p.lots[lot] \in Nat BY <1>1
<1>4. SumOverSet(p.lots, Lots) \in Nat BY <1>3, LotsFinite, SumNat
<1> QED BY <1>1, <1>2, <1>3, <1>4

(* A date to sort by is a number. *)
LEMMA FarInt ==
  ASSUME NEW day \in Date
  PROVE  Far(day) \in Int
BY DEF Date, Far

(* The lots that may be used, each once.                                    *)
LEMMA LotsListed ==
  ASSUME NEW p, p.lots \in [Lots -> Nat], p.usable = SumFunction(p.lots)
  PROVE  LET s == LotsInOrder(p)
         IN  /\ Goods(s) /\ \A k \in DOMAIN s : s[k].lot \in Eligible(p)
             /\ \A lot \in Lots : LotsQty(s, {lot}) <= p.lots[lot]
             /\ QtyOf(s) <= p.usable
<1> DEFINE E == Eligible(p)
           key == [lot \in E |-> IF Fefo THEN <<Far(ExpiryOf(lot)), Far(ReceivedOn[lot])>>
                                 ELSE <<Far(ReceivedOn[lot])>>]
           w == IF Fefo THEN 2 ELSE 1
           order == InOrder(E, key)
           s == LotsInOrder(p)
           c == Cardinality(E)
<1>1. E \in SUBSET Lots /\ E \in SUBSET Nat /\ IsFiniteSet(E)
  <2>1. E \in SUBSET Lots BY DEF Eligible
  <2> HIDE DEF E
  <2> QED BY <2>1, LotsFinite, FS_Subset
<1>2. Keyed(E, key, w)
  <2>1. ASSUME NEW lot \in E PROVE Far(ExpiryOf(lot)) \in Int /\ Far(ReceivedOn[lot]) \in Int
    <3>1. lot \in Lots BY <1>1
    <3>2. ExpiryOf(lot) \in Date
      <4>1. CASE lot = 0 BY <4>1 DEF ExpiryOf, Date
      <4>2. CASE lot # 0 BY <4>2, <3>1, LotsFinite, SupplyAssumption DEF ExpiryOf
      <4> QED BY <4>1, <4>2
    <3>3. ReceivedOn[lot] \in Date BY <3>1, SupplyAssumption
    <3> QED BY <3>2, <3>3, FarInt
  <2>2. CASE Fefo
    <3>1. w = 2 /\ \A lot \in E : key[lot] = <<Far(ExpiryOf(lot)), Far(ReceivedOn[lot])>> BY <2>2
    <3> HIDE DEF key, w, E
    <3>2. \A x, y \in Int : <<x, y>> \in [1..2 -> Int] BY Tuples
    <3>3. \A lot \in E : key[lot] \in [1..2 -> Int]
      <4>1. \A lot \in E : <<Far(ExpiryOf(lot)), Far(ReceivedOn[lot])>> \in [1..2 -> Int] BY ONLY <2>1, <3>2
      <4> QED BY ONLY <4>1, <3>1
    <3> QED BY <3>1, <3>3 DEF Keyed
  <2>3. CASE ~Fefo
    <3>1. w = 1 /\ \A lot \in E : key[lot] = <<Far(ReceivedOn[lot])>> BY <2>3
    <3> HIDE DEF key, w, E
    <3> QED BY <3>1, <2>1, Tuples DEF Keyed
  <2> QED BY <2>2, <2>3
<1>3. w \in Nat OBVIOUS
<1>4. s = [n \in DOMAIN order |-> [lot |-> order[n], qty |-> p.lots[order[n]]]] BY DEF LotsInOrder
<1> HIDE DEF E, key, w
<1>5. /\ c \in Nat /\ order \in [1..c -> E] /\ \A m, n \in 1..c : order[m] = order[n] => m = n
  BY <1>1, <1>2, <1>3, InOrderLists
<1> HIDE DEF s, order, c
<1>6. DOMAIN s = 1..c /\ \A n \in 1..c : s[n].lot = order[n] /\ s[n].qty = p.lots[order[n]] BY <1>4, <1>5
<1>7. \A n \in 1..c : order[n] \in E /\ order[n] \in Lots /\ p.lots[order[n]] \in Nat BY <1>1, <1>5
<1>8. Goods(s)
  <2> DEFINE T == [lot: Lots, qty: Nat]
  <2>1. s = [n \in 1..c |-> [lot |-> order[n], qty |-> p.lots[order[n]]]] BY <1>4, <1>5
  <2>2. s \in [1..c -> T] BY <2>1, <1>7
  <2> HIDE DEF T
  <2>3. Listed(s) BY <2>2, <1>5, ListedOfFunction
  <2> QED BY <2>3, <1>6, <1>7 DEF Goods
<1>9. \A k \in DOMAIN s : s[k].lot \in E BY <1>6, <1>7
<1>10. ASSUME NEW lot \in Lots PROVE LotsQty(s, {lot}) <= p.lots[lot]
  <2>1. p.lots[lot] \in Nat OBVIOUS
  <2> DEFINE S == {k \in DOMAIN s : s[k].lot \in {lot}}
  <2>2. LotsQty(s, {lot}) = QtyAt(s, S) BY DEF LotsQty
  <2>3. CASE S = {}
    <3>1. QtyAt(s, S) = 0 BY <2>3, QtyNothing
    <3> QED BY <3>1, <2>1, <2>2
  <2>4. CASE S # {}
    <3>1. PICK k \in S : TRUE BY <2>4
    <3>2. k \in DOMAIN s /\ s[k].lot = lot BY <3>1
    <3>3. S = {k}
      <4>1. \A m \in S : m = k BY <3>2, <1>5, <1>6
      <4> QED BY <4>1, <3>1
    <3>4. QtyAt(s, S) = s[k].qty BY <3>2, <3>3, <1>8, QtyOne
    <3>5. s[k].qty = p.lots[lot] BY <3>2, <1>6
    <3> QED BY <3>4, <3>5, <2>1, <2>2
  <2> QED BY <2>3, <2>4
<1>11. QtyOf(s) <= p.usable
  <2> DEFINE I == DOMAIN s
             J == Images(order, I)
  <2>1. /\ QtyAt(s, I) = SumOverSet(Amounts(s), I) /\ IsFiniteSet(I) /\ \A k \in I : Amounts(s)[k] \in Int
    <3>1. I \in SUBSET DOMAIN s OBVIOUS
    <3> HIDE DEF I
    <3> QED BY <3>1, <1>8, QtySum
  <2>2. \A k \in I : Amounts(s)[k] = p.lots[order[k]] BY <1>6 DEF Amounts
  <2>3. \A m, n \in I : order[m] = order[n] => m = n BY <1>5, <1>6
  <2>4. QtyOf(s) = QtyAt(s, I) BY DEF QtyOf
  <2>5. J \in SUBSET Lots BY <1>6, <1>7 DEF Images
  <2> HIDE DEF I
  <2>6. SumOverSet(Amounts(s), I) = SumOverSet(p.lots, J) BY <2>1, <2>2, <2>3, SumRenamed
  <2> HIDE DEF J
  <2>7. SumOverSet(p.lots, J) <= SumOverSet(p.lots, Lots)
    <3>1. \A lot \in Lots : p.lots[lot] \in Nat OBVIOUS
    <3> QED BY <3>1, <2>5, LotsFinite, SumGrows
  <2>8. SumFunction(p.lots) = SumOverSet(p.lots, Lots)
    <3>1. DOMAIN p.lots = Lots OBVIOUS
    <3>2. SumFunction(p.lots) = SumOverSet(p.lots, DOMAIN p.lots)
      BY DEF SumFunction, SumFunctionOnSet, FoldFunctionOnSet, SumOverSet, MapThenFoldSet
    <3> QED BY <3>1, <3>2
  <2> QED BY <2>1, <2>4, <2>6, <2>7, <2>8
<1> QED BY <1>8, <1>9, <1>10, <1>11 DEF s, E

(* The supplies of a pair: what is on hand, then what is on its way.        *)
LEMMA SuppliesOf ==
  ASSUME NEW p, PairOk(p)
  PROVE  LET a == OnHandSupplies(p)
             b == InboundSupplies(p)
         IN  /\ Goods(a) /\ \A i \in DOMAIN a : a[i].kind = "ONHAND" /\ a[i].lot \in Eligible(p)
             /\ \A lot \in Lots : LotsQty(a, {lot}) <= p.lots[lot]
             /\ DOMAIN a # {} => QtyOf(a) + p.committed + p.reserved <= p.usable
             /\ Goods(b) /\ \A i \in DOMAIN b : b[i].kind \in InboundKinds
             /\ \A x : FromOrder(b, x) <= FromOrder(p.inbound, x)
<1> DEFINE a == OnHandSupplies(p)
           b == InboundSupplies(p)
           s == LotsInOrder(p)
           held == p.committed + p.reserved
<1>0. /\ p.lots \in [Lots -> Nat] /\ p.usable = SumFunction(p.lots)
      /\ Goods(p.inbound) /\ \A i \in DOMAIN p.inbound : p.inbound[i].kind \in InboundKinds /\ p.inbound[i].day \in Int
      /\ p.committed \in Nat /\ p.reserved \in Nat
  BY DEF PairOk
<1>1. /\ Goods(s) /\ \A k \in DOMAIN s : s[k].lot \in Eligible(p)
      /\ \A lot \in Lots : LotsQty(s, {lot}) <= p.lots[lot]
      /\ QtyOf(s) <= p.usable
  BY <1>0, LotsListed
<1>2. a = FoldLeft(HoldLot, [hold |-> held, out |-> <<>>], s).out BY DEF OnHandSupplies, OnHandBut
<1>3. held \in Nat BY <1>0
<1> HIDE DEF a, s, held
<1>4. /\ Goods(a) /\ \A i \in DOMAIN a : a[i].kind = "ONHAND" /\ \E k \in DOMAIN s : a[i].lot = s[k].lot
      /\ \A L : LotsQty(a, L) <= LotsQty(s, L)
      /\ DOMAIN a # {} => QtyOf(a) + held = QtyOf(s)
  <2> DEFINE out == FoldLeft(HoldLot, [hold |-> held, out |-> <<>>], s).out
  <2>1. ButHeld(out, held, s) BY <1>1, <1>3, OnHandHeld
  <2>6. a = out BY <1>2
  <2> HIDE DEF out
  <2> QED BY <2>1, <2>6 DEF ButHeld
<1>5. \A i \in DOMAIN a : a[i].kind = "ONHAND" /\ a[i].lot \in Eligible(p) BY <1>1, <1>4
<1>6. ASSUME NEW lot \in Lots PROVE LotsQty(a, {lot}) <= p.lots[lot]
  <2>1. LotsQty(a, {lot}) <= LotsQty(s, {lot}) /\ LotsQty(s, {lot}) <= p.lots[lot] BY <1>1, <1>4
  <2>2. LotsQty(a, {lot}) \in Nat /\ LotsQty(s, {lot}) \in Nat BY <1>1, <1>4, LotsNat
  <2>3. p.lots[lot] \in Nat BY <1>0
  <2> QED BY <2>1, <2>2, <2>3
<1>7. ASSUME DOMAIN a # {} PROVE QtyOf(a) + p.committed + p.reserved <= p.usable
  <2>1. QtyOf(a) + held = QtyOf(s) /\ QtyOf(s) <= p.usable BY <1>1, <1>4, <1>7
  <2>2. QtyOf(a) \in Nat
    <3> DEFINE I == DOMAIN a
    <3>1. I \in SUBSET DOMAIN a /\ QtyOf(a) = QtyAt(a, I) BY DEF QtyOf
    <3> HIDE DEF I
    <3> QED BY <3>1, <1>4, QtySum
  <2>3. QtyOf(a) + p.committed + p.reserved = QtyOf(a) + held BY <2>2, <1>0 DEF held
  <2> QED BY <2>1, <2>3
<1> DEFINE key == [i \in DOMAIN p.inbound |-> <<p.inbound[i].day>>]
           parts == SortedBy(p.inbound, key)
           order == InOrder(DOMAIN p.inbound, key)
<1>8. Lists(parts, p.inbound, DOMAIN p.inbound, order)
  <2>1. Keyed(DOMAIN p.inbound, key, 1) BY <1>0, Tuples DEF Keyed
  <2> HIDE DEF key
  <2>2. 1 \in Nat /\ Listed(p.inbound) BY <1>0 DEF Goods
  <2> QED BY <2>1, <2>2, SortedListing
<1>9. b = [i \in DOMAIN parts |->
            [kind |-> parts[i].kind, ref |-> parts[i].ref, lot |-> 0, qty |-> parts[i].qty,
             day |-> IF parts[i].day > 0 THEN parts[i].day ELSE 0]]
  BY DEF InboundSupplies
<1> HIDE DEF b, parts, order
<1>10. Goods(parts)
  <2>1. {} \in SUBSET DOMAIN parts OBVIOUS
  <2> QED BY <2>1, <1>0, <1>8, QtyListed
<1>11. /\ DOMAIN b = DOMAIN parts
       /\ \A i \in DOMAIN b : b[i].kind = parts[i].kind /\ b[i].ref = parts[i].ref /\ b[i].qty = parts[i].qty
  BY <1>9
<1>12. Goods(b)
  <2>1. DOMAIN parts = 1..Len(parts) /\ Len(parts) \in Nat BY <1>10, GoodsIndices
  <2> DEFINE T == {b[i] : i \in 1..Len(parts)}
  <2>2. b \in [1..Len(parts) -> T] BY <1>9, <2>1
  <2> HIDE DEF T
  <2>3. Listed(b) BY <2>1, <2>2, ListedOfFunction
  <2> QED BY <2>3, <1>10, <1>11 DEF Goods
<1>13. \A i \in DOMAIN parts : order[i] \in DOMAIN p.inbound /\ parts[i] = p.inbound[order[i]] BY <1>8 DEF Lists
<1>14. \A i \in DOMAIN b : b[i].kind \in InboundKinds BY <1>0, <1>11, <1>13
<1>15. ASSUME NEW x
       PROVE  FromOrder(b, x) <= FromOrder(p.inbound, x)
  <2> DEFINE S == {i \in DOMAIN b : b[i].kind = x.kind /\ b[i].ref = x.ref}
             T == {i \in DOMAIN p.inbound : p.inbound[i].kind = x.kind /\ p.inbound[i].ref = x.ref}
  <2>1. S \in SUBSET DOMAIN b /\ S \in SUBSET DOMAIN parts BY <1>11
  <2>2. Images(order, S) \in SUBSET T BY <1>11, <1>13 DEF Images
  <2>3. T \in SUBSET DOMAIN p.inbound OBVIOUS
  <2> HIDE DEF S, T
  <2>4. QtyAt(b, S) = QtyAt(parts, S)
    <3>1. \A i \in S : b[i].qty = parts[i].qty BY <2>1, <1>11
    <3> QED BY <3>1, <2>1, <1>10, <1>12, QtyAgrees
  <2>5. QtyAt(parts, S) = QtyAt(p.inbound, Images(order, S)) BY <2>1, <1>0, <1>8, QtyListed
  <2>6. QtyAt(p.inbound, Images(order, S)) <= QtyAt(p.inbound, T) BY <2>2, <2>3, <1>0, QtyGrows
  <2>7. QtyAt(b, S) <= QtyAt(p.inbound, T) BY <2>4, <2>5, <2>6
  <2> QED BY <2>7 DEF S, T, FromOrder
<1> QED BY <1>4, <1>5, <1>6, <1>7, <1>12, <1>14, <1>15 DEF a, b

(* Demands have quantities. *)
LEMMA DemandGoods ==
  ASSUME NEW ds, DemandList(ds)
  PROVE  Goods(ds)
BY DEF DemandList, Goods, Demand

(* Demands followed by demands are demands. *)
LEMMA DemandsJoined ==
  ASSUME NEW a, DemandList(a), NEW b, DemandList(b)
  PROVE  DemandList(a \o b)
<1> DEFINE t == a \o b
<1>1. Follows(t, a, b) BY Joining DEF DemandList
<1> HIDE DEF t
<1>2. ASSUME NEW i \in DOMAIN t PROVE Demand(t[i])
  <2>1. CASE i \in DOMAIN a
    <3>1. t[i] = a[i] BY <2>1, <1>1 DEF Follows
    <3> QED BY <3>1, <2>1 DEF DemandList
  <2>2. CASE i - Len(a) \in DOMAIN b
    <3> DEFINE k == i - Len(a)
    <3>1. k \in DOMAIN b /\ k + Len(a) = i BY <2>2, <1>1 DEF Follows
    <3> HIDE DEF k
    <3>2. t[k + Len(a)] = b[k] BY <3>1, <1>1 DEF Follows
    <3>3. Demand(b[k]) BY <3>1 DEF DemandList
    <3> QED BY <3>1, <3>2, <3>3
  <2> QED BY <2>1, <2>2, <1>1 DEF Follows
<1>3. Listed(t) BY <1>1 DEF Follows
<1>4. DemandList(t) BY <1>2, <1>3 DEF DemandList
<1> QED BY <1>4 DEF t

(* The demands of a pair and their ranking.                                 *)
LEMMA RankedOf ==
  ASSUME NEW p, PairOk(p)
  PROVE  /\ Goods(Demands(p)) /\ Goods(Ranked(p))
         /\ \A R : RefQty(Ranked(p), R) <= RefQty(Demands(p), R)
<1> DEFINE ds == Demands(p)
           key == [i \in DOMAIN ds |-> <<-Score(ds[i], ds, policy.method), ds[i].day, ds[i].entered>>]
           t == SortedBy(ds, key)
           order == InOrder(DOMAIN ds, key)
<1>1. DemandList(ds)
  <2>1. DemandList(p.orders) /\ DemandList(p.backorders) /\ DemandList(p.required) BY DEF PairOk
  <2> DEFINE u == p.orders \o p.backorders
  <2>2. DemandList(u) BY <2>1, DemandsJoined
  <2>3. ds = u \o p.required BY DEF Demands
  <2> HIDE DEF u, ds
  <2> QED BY <2>1, <2>2, <2>3, DemandsJoined
<1>2. Ranked(p) = t BY DEF Ranked
<1> HIDE DEF ds
<1>3. Keyed(DOMAIN ds, key, 3)
  <2>1. ASSUME NEW i \in DOMAIN ds PROVE key[i] \in [1..3 -> Int]
    <3>1. Score(ds[i], ds, policy.method) \in Int BY <1>1, ScoreInt DEF DemandList
    <3>2. ds[i].day \in Int /\ ds[i].entered \in Int BY <1>1 DEF DemandList, Demand
    <3>3. -Score(ds[i], ds, policy.method) \in Int BY <3>1
    <3> QED BY <3>2, <3>3, Tuples
  <2> HIDE DEF key
  <2> QED BY <2>1 DEF Keyed
<1>4. Lists(t, ds, DOMAIN ds, order)
  <2> HIDE DEF key
  <2>1. 3 \in Nat /\ Listed(ds) BY <1>1 DEF DemandList
  <2> QED BY <2>1, <1>3, SortedListing
<1> HIDE DEF t, order, key
<1>5. Goods(ds) BY <1>1, DemandGoods
<1>6. Goods(t)
  <2>1. {} \in SUBSET DOMAIN t OBVIOUS
  <2> QED BY <2>1, <1>4, <1>5, QtyListed
<1>7. ASSUME NEW R PROVE RefQty(t, R) <= RefQty(ds, R)
  <2> DEFINE S == {k \in DOMAIN t : t[k].ref \in R}
             T == {k \in DOMAIN ds : ds[k].ref \in R}
  <2>1. S \in SUBSET DOMAIN t /\ T \in SUBSET DOMAIN ds OBVIOUS
  <2>2. Images(order, S) \in SUBSET T
    <3>1. \A n \in DOMAIN t : order[n] \in DOMAIN ds /\ t[n] = ds[order[n]] BY <1>4 DEF Lists
    <3> QED BY <3>1 DEF Images
  <2>3. RefQty(t, R) = QtyAt(t, S) /\ RefQty(ds, R) = QtyAt(ds, T) BY DEF RefQty
  <2> HIDE DEF S, T
  <2>4. QtyAt(t, S) = QtyAt(ds, Images(order, S)) BY <2>1, <1>4, <1>5, QtyListed
  <2>5. QtyAt(ds, Images(order, S)) <= QtyAt(ds, T) BY <2>1, <2>2, <1>5, QtyGrows
  <2> QED BY <2>3, <2>4, <2>5
<1> QED BY <1>2, <1>5, <1>6, <1>7 DEF ds

-----------------------------------------------------------------------------
(* The pegs of a pair *)

KeysOf(s) == {Key(s[j]) : j \in DOMAIN s}

(* A key holds kind, reference and lot. *)
LEMMA KeyParts ==
  ASSUME NEW g
  PROVE  Key(g)[1] = g.kind /\ Key(g)[2] = g.ref /\ Key(g)[3] = g.lot
BY DEF Key

(* Rows of one key agree on them. *)
LEMMA KeysEqual ==
  ASSUME NEW g, NEW h, Key(g) = Key(h)
  PROVE  g.kind = h.kind /\ g.ref = h.ref /\ g.lot = h.lot
BY DEF Key

(* Keys of a concatenation, and their quantities. *)
LEMMA KeysJoined ==
  ASSUME NEW a, Goods(a), NEW b, Goods(b), NEW K
  PROVE  /\ Goods(a \o b) /\ KeyQty(a \o b, K) = KeyQty(a, K) + KeyQty(b, K)
         /\ KeysOf(a \o b) \subseteq KeysOf(a) \cup KeysOf(b)
<1> DEFINE t == a \o b
           S == {i \in DOMAIN t : Key(t[i]) \in K}
<1>1. Follows(t, a, b) BY Joining DEF Goods
<1>2. S \in SUBSET DOMAIN t OBVIOUS
<1>3. Goods(t) /\ QtyAt(t, S) = QtyAt(a, S \cap DOMAIN a) + QtyAt(b, {i \in DOMAIN b : i + Len(a) \in S})
  <2> HIDE DEF S
  <2> QED BY <1>2, QtyJoined
<1> HIDE DEF t
<1>4. S \cap DOMAIN a = {i \in DOMAIN a : Key(a[i]) \in K}
  <2>1. \A i \in DOMAIN a : i \in DOMAIN t /\ t[i] = a[i] BY <1>1 DEF Follows
  <2> QED BY <2>1
<1>5. {i \in DOMAIN b : i + Len(a) \in S} = {i \in DOMAIN b : Key(b[i]) \in K}
  <2>1. \A i \in DOMAIN b : i + Len(a) \in DOMAIN t /\ t[i + Len(a)] = b[i] BY <1>1 DEF Follows
  <2> QED BY <2>1
<1>6. KeyQty(t, K) = KeyQty(a, K) + KeyQty(b, K) BY <1>3, <1>4, <1>5 DEF KeyQty
<1>7. ASSUME NEW i \in DOMAIN t PROVE Key(t[i]) \in KeysOf(a) \cup KeysOf(b)
  <2>1. CASE i \in DOMAIN a
    <3>1. t[i] = a[i] BY <2>1, <1>1 DEF Follows
    <3> QED BY <3>1, <2>1 DEF KeysOf
  <2>2. CASE i - Len(a) \in DOMAIN b
    <3> DEFINE k == i - Len(a)
    <3>1. k \in DOMAIN b /\ k + Len(a) = i BY <2>2, <1>1 DEF Follows
    <3> HIDE DEF k
    <3>2. t[k + Len(a)] = b[k] BY <3>1, <1>1 DEF Follows
    <3> QED BY <3>1, <3>2 DEF KeysOf
  <2> QED BY <2>1, <2>2, <1>1 DEF Follows
<1>8. KeysOf(t) \subseteq KeysOf(a) \cup KeysOf(b) BY <1>7 DEF KeysOf
<1> QED BY <1>3, <1>6, <1>8 DEF t

(* No unit of supply is pegged twice, no demand beyond its quantity.        *)
PairPegs(p, mine) ==
  /\ Goods(mine)
  /\ \A lot \in Lots : FromLot(mine, lot) <= p.lots[lot]
  /\ FromStock(mine) > 0 => FromStock(mine) + p.committed + p.reserved <= p.usable
  /\ \A x \in Range(p.inbound) :
       FromOrder(mine, x)
         <= QtyAt(p.inbound, {j \in DOMAIN p.inbound : p.inbound[j].kind = x.kind /\ p.inbound[j].ref = x.ref})
  /\ \A i \in DOMAIN mine : mine[i].kind = "ONHAND" => mine[i].lot \in Eligible(p)
  /\ \A R : ToRefs(mine, R) <= RefQty(Demands(p), R)
  /\ \A i \in DOMAIN Ranked(p) : ToRefs(mine, {Ranked(p)[i].ref}) < Ranked(p)[i].qty =>
       /\ QtyOf(mine) = QtyOf(Supplies(p))
       /\ \A R : (\A h \in 1..i : Ranked(p)[h].ref \notin R) => ToRefs(mine, R) = 0

(* peg_pair(): whatever the inputs of a pair, its pegs take from a lot,     *)
(* from the stock and from an order no more than there is, give a demand no *)
(* more than it asks for, and leave a demand short only when everything is  *)
(* used up and nothing went to those ranked after it.                       *)
LEMMA PairPegged ==
  ASSUME NEW p, PairOk(p)
  PROVE  PairPegs(p, PegPair(p))
<1> DEFINE mine == PegPair(p)
           a == OnHandSupplies(p)
           b == InboundSupplies(p)
           sup == Supplies(p)
           ds == Demands(p)
           ranked == Ranked(p)
<1>1. /\ Goods(a) /\ \A i \in DOMAIN a : a[i].kind = "ONHAND" /\ a[i].lot \in Eligible(p)
      /\ \A lot \in Lots : LotsQty(a, {lot}) <= p.lots[lot]
      /\ DOMAIN a # {} => QtyOf(a) + p.committed + p.reserved <= p.usable
  BY SuppliesOf
<1>2. Goods(b) /\ \A i \in DOMAIN b : b[i].kind \in InboundKinds BY SuppliesOf
<1>3. \A x : FromOrder(b, x) <= FromOrder(p.inbound, x) BY SuppliesOf
<1>4. Goods(ds) /\ Goods(ranked) BY RankedOf
<1>5. \A R : RefQty(ranked, R) <= RefQty(ds, R) BY RankedOf
<1>6. sup = a \o b BY DEF Supplies
<1>7. mine = PegRanked(sup, ranked) BY DEF PegPair
<1>0. p.lots \in [Lots -> Nat] /\ p.committed \in Nat /\ p.reserved \in Nat BY DEF PairOk
<1> HIDE DEF mine, a, b, sup, ds, ranked
<1>8. Goods(sup) /\ \A K : KeyQty(sup, K) = KeyQty(a, K) + KeyQty(b, K) BY <1>1, <1>2, <1>6, KeysJoined
<1>9. KeysOf(sup) \subseteq KeysOf(a) \cup KeysOf(b) BY <1>1, <1>2, <1>6, KeysJoined
<1>10. Goods(mine) /\ \A i \in DOMAIN mine : \E j \in DOMAIN sup : Key(mine[i]) = Key(sup[j])
  BY <1>4, <1>7, <1>8, PegsOfRanked
<1>11. \A K : KeyQty(mine, K) <= KeyQty(sup, K) BY <1>4, <1>7, <1>8, PegsOfRanked
<1>12. \A R : ToRefs(mine, R) <= RefQty(ranked, R) BY <1>4, <1>7, <1>8, PegsOfRanked
<1>13. \A i \in DOMAIN ranked : ToRefs(mine, {ranked[i].ref}) < ranked[i].qty =>
         /\ QtyOf(mine) = QtyOf(sup)
         /\ \A R : (\A h \in 1..i : ranked[h].ref \notin R) => ToRefs(mine, R) = 0
  BY <1>4, <1>7, <1>8, PegsOfRanked
<1>14. \A i \in DOMAIN mine : Key(mine[i]) \in KeysOf(sup) BY <1>10 DEF KeysOf
<1>15. \A K : KeyQty(mine, K) <= KeyQty(a, K) + KeyQty(b, K) BY <1>8, <1>11
<1>16. \A K : KeyQty(mine, K) \in Nat /\ KeyQty(a, K) \in Nat /\ KeyQty(b, K) \in Nat
  BY <1>1, <1>2, <1>10, CountsNat
<1>17. ASSUME NEW lot \in Lots PROVE FromLot(mine, lot) <= p.lots[lot]
  <2> DEFINE K == {k \in KeysOf(sup) : k[1] = "ONHAND" /\ k[3] = lot}
  <2>1. {i \in DOMAIN mine : Key(mine[i]) \in K} = {i \in DOMAIN mine : mine[i].kind = "ONHAND" /\ mine[i].lot = lot}
    BY <1>14, KeyParts
  <2>2. FromLot(mine, lot) = KeyQty(mine, K) BY <2>1 DEF FromLot, KeyQty
  <2>3. {i \in DOMAIN b : Key(b[i]) \in K} = {} BY <1>2, KeyParts DEF InboundKinds
  <2>4. KeyQty(b, K) = 0 BY <2>3, QtyNothing DEF KeyQty
  <2>5. KeyQty(a, K) <= LotsQty(a, {lot})
    <3> DEFINE S == {i \in DOMAIN a : a[i].lot \in {lot}}
               T == {i \in DOMAIN a : Key(a[i]) \in K}
    <3>1. S \in SUBSET DOMAIN a /\ T \in SUBSET S BY KeyParts
    <3>2. KeyQty(a, K) = QtyAt(a, T) /\ LotsQty(a, {lot}) = QtyAt(a, S) BY DEF KeyQty, LotsQty
    <3> HIDE DEF S, T
    <3>3. QtyAt(a, T) <= QtyAt(a, S) BY <3>1, <1>1, QtyGrows
    <3> QED BY <3>2, <3>3
  <2> HIDE DEF K
  <2>6. KeyQty(mine, K) <= KeyQty(a, K) + KeyQty(b, K) /\ KeyQty(mine, K) \in Nat /\ KeyQty(a, K) \in Nat
    BY <1>15, <1>16
  <2>7. LotsQty(a, {lot}) <= p.lots[lot] /\ p.lots[lot] \in Nat /\ LotsQty(a, {lot}) \in Nat BY <1>0, <1>1, LotsNat
  <2> QED BY <2>2, <2>4, <2>5, <2>6, <2>7
<1>18. ASSUME FromStock(mine) > 0 PROVE FromStock(mine) + p.committed + p.reserved <= p.usable
  <2> DEFINE K == {k \in KeysOf(sup) : k[1] = "ONHAND"}
  <2>1. {i \in DOMAIN mine : Key(mine[i]) \in K} = {i \in DOMAIN mine : mine[i].kind = "ONHAND"}
    BY <1>14, KeyParts
  <2>2. FromStock(mine) = KeyQty(mine, K) BY <2>1 DEF FromStock, KeyQty
  <2>3. {i \in DOMAIN b : Key(b[i]) \in K} = {} BY <1>2, KeyParts DEF InboundKinds
  <2>4. KeyQty(b, K) = 0 BY <2>3, QtyNothing DEF KeyQty
  <2>5. KeyQty(a, K) <= QtyOf(a) /\ QtyOf(a) \in Nat
    <3> DEFINE S == DOMAIN a
               T == {i \in DOMAIN a : Key(a[i]) \in K}
    <3>1. S \in SUBSET DOMAIN a /\ T \in SUBSET S OBVIOUS
    <3>2. KeyQty(a, K) = QtyAt(a, T) /\ QtyOf(a) = QtyAt(a, S) BY DEF KeyQty, QtyOf
    <3> HIDE DEF S, T
    <3>3. QtyAt(a, T) <= QtyAt(a, S) /\ QtyAt(a, S) \in Nat BY <3>1, <1>1, QtyGrows, QtySum
    <3> QED BY <3>2, <3>3
  <2>6. KeyQty(mine, K) > 0 BY <2>2, <1>18
  <2>7. DOMAIN a # {}
    <3> SUFFICES ASSUME DOMAIN a = {} PROVE FALSE OBVIOUS
    <3>1. {i \in DOMAIN a : Key(a[i]) \in K} = {} OBVIOUS
    <3>2. KeyQty(a, K) = 0 BY <3>1, QtyNothing DEF KeyQty
    <3> HIDE DEF K
    <3>3. KeyQty(mine, K) <= KeyQty(a, K) + KeyQty(b, K) /\ KeyQty(mine, K) \in Nat BY <1>15, <1>16
    <3> QED BY <3>2, <3>3, <2>4, <2>6
  <2> HIDE DEF K
  <2>8. KeyQty(mine, K) <= KeyQty(a, K) + KeyQty(b, K) /\ KeyQty(mine, K) \in Nat /\ KeyQty(a, K) \in Nat
    BY <1>15, <1>16
  <2>9. QtyOf(a) + p.committed + p.reserved <= p.usable BY <2>7, <1>1
  <2>10. p.usable \in Nat BY UsableNat
  <2> QED BY <2>2, <2>4, <2>5, <2>8, <2>9, <2>10, <1>0
<1>19. ASSUME NEW x \in Range(p.inbound)
       PROVE  FromOrder(mine, x)
                <= QtyAt(p.inbound, {j \in DOMAIN p.inbound : p.inbound[j].kind = x.kind /\ p.inbound[j].ref = x.ref})
  <2> DEFINE K == {k \in KeysOf(sup) : k[1] = x.kind /\ k[2] = x.ref}
             W == {j \in DOMAIN p.inbound : p.inbound[j].kind = x.kind /\ p.inbound[j].ref = x.ref}
  <2>1. x.kind \in InboundKinds BY DEF PairOk, Range
  <2>2. {i \in DOMAIN mine : Key(mine[i]) \in K} = {i \in DOMAIN mine : mine[i].kind = x.kind /\ mine[i].ref = x.ref}
    BY <1>14, KeyParts
  <2>3. FromOrder(mine, x) = KeyQty(mine, K) BY <2>2 DEF FromOrder, KeyQty
  <2>4. {i \in DOMAIN a : Key(a[i]) \in K} = {} BY <2>1, <1>1, KeyParts DEF InboundKinds
  <2>5. KeyQty(a, K) = 0 BY <2>4, QtyNothing DEF KeyQty
  <2>6. KeyQty(b, K) <= QtyAt(p.inbound, W)
    <3> DEFINE S == {i \in DOMAIN b : b[i].kind = x.kind /\ b[i].ref = x.ref}
               T == {i \in DOMAIN b : Key(b[i]) \in K}
    <3>1. S \in SUBSET DOMAIN b /\ T \in SUBSET S BY KeyParts
    <3>2. KeyQty(b, K) = QtyAt(b, T) BY DEF KeyQty
    <3>3. QtyAt(b, S) <= QtyAt(p.inbound, W)
      <4>1. FromOrder(b, x) <= FromOrder(p.inbound, x) BY <1>3
      <4> QED BY <4>1 DEF FromOrder
    <3>4. W \in SUBSET DOMAIN p.inbound /\ Goods(p.inbound) BY DEF PairOk
    <3> HIDE DEF S, T, W
    <3>5. QtyAt(b, T) <= QtyAt(b, S) /\ QtyAt(b, T) \in Nat /\ QtyAt(b, S) \in Nat
      <4>1. T \in SUBSET DOMAIN b BY <3>1
      <4> QED BY <4>1, <3>1, <1>2, QtyGrows, QtySum
    <3>6. QtyAt(p.inbound, W) \in Nat BY <3>4, QtySum
    <3> QED BY <3>2, <3>3, <3>5, <3>6
  <2>7. QtyAt(p.inbound, W) \in Nat
    <3>1. W \in SUBSET DOMAIN p.inbound /\ Goods(p.inbound) BY DEF PairOk
    <3> HIDE DEF W
    <3> QED BY <3>1, QtySum
  <2> HIDE DEF K
  <2>8. KeyQty(mine, K) <= KeyQty(a, K) + KeyQty(b, K) /\ KeyQty(mine, K) \in Nat /\ KeyQty(b, K) \in Nat
    BY <1>15, <1>16
  <2> HIDE DEF W
  <2>9. FromOrder(mine, x) <= QtyAt(p.inbound, W) BY <2>3, <2>5, <2>6, <2>7, <2>8
  <2> QED BY <2>9 DEF W
<1>20. ASSUME NEW i \in DOMAIN mine, mine[i].kind = "ONHAND" PROVE mine[i].lot \in Eligible(p)
  <2>1. Key(mine[i]) \in KeysOf(a) \cup KeysOf(b) BY <1>9, <1>14
  <2>2. CASE Key(mine[i]) \in KeysOf(a)
    <3>1. PICK j \in DOMAIN a : Key(mine[i]) = Key(a[j]) BY <2>2 DEF KeysOf
    <3>2. mine[i].lot = a[j].lot BY <3>1, KeysEqual
    <3> QED BY <3>1, <3>2, <1>1
  <2>3. CASE Key(mine[i]) \in KeysOf(b)
    <3>1. PICK j \in DOMAIN b : Key(mine[i]) = Key(b[j]) BY <2>3 DEF KeysOf
    <3>2. mine[i].kind = b[j].kind BY <3>1, KeysEqual
    <3> QED BY <3>1, <3>2, <1>2, <1>20 DEF InboundKinds
  <2> QED BY <2>1, <2>2, <2>3
<1>21. ASSUME NEW R PROVE ToRefs(mine, R) <= RefQty(ds, R)
  <2>1. ToRefs(mine, R) <= RefQty(ranked, R) /\ RefQty(ranked, R) <= RefQty(ds, R) BY <1>5, <1>12
  <2>2. ToRefs(mine, R) \in Nat BY <1>10, CountsNat
  <2>3. RefQty(ranked, R) \in Nat /\ RefQty(ds, R) \in Nat
    <3> DEFINE S == {k \in DOMAIN ranked : ranked[k].ref \in R}
               T == {k \in DOMAIN ds : ds[k].ref \in R}
    <3>1. S \in SUBSET DOMAIN ranked /\ T \in SUBSET DOMAIN ds OBVIOUS
    <3>2. RefQty(ranked, R) = QtyAt(ranked, S) /\ RefQty(ds, R) = QtyAt(ds, T) BY DEF RefQty
    <3> HIDE DEF S, T
    <3> QED BY <3>1, <3>2, <1>4, QtySum
  <2> QED BY <2>1, <2>2, <2>3
<1>22. PairPegs(p, mine)
  <2>1. \A i \in DOMAIN Ranked(p) : ToRefs(mine, {Ranked(p)[i].ref}) < Ranked(p)[i].qty =>
          /\ QtyOf(mine) = QtyOf(Supplies(p))
          /\ \A R : (\A h \in 1..i : Ranked(p)[h].ref \notin R) => ToRefs(mine, R) = 0
    BY <1>13 DEF ranked, sup
  <2>2. \A R : ToRefs(mine, R) <= RefQty(Demands(p), R) BY <1>21 DEF ds
  <2> QED BY <2>1, <2>2, <1>10, <1>17, <1>18, <1>19, <1>20 DEF PairPegs
<1> QED BY <1>22 DEF mine

-----------------------------------------------------------------------------
(* The tables stay what they are *)

TableNames ==
  {"lots", "po", "ships", "transfers", "demand", "forecast", "expiry", "master", "loads", "sync",
   "balance", "txns", "quality"}

(* No balance is negative; orders are orders.                               *)
TablesOk(t) ==
  /\ DOMAIN t = TableNames
  /\ t.balance \in [Buckets -> Nat]
  /\ DOMAIN t.po = PoNumbers /\ DOMAIN t.transfers = TransferNos
  /\ \A n \in PoNumbers : t.po[n] # Absent => t.po[n] \in PurchaseOrder
  /\ \A n \in TransferNos : t.transfers[n] # Absent => t.transfers[n] \in TransferOrder

(* _post(): a balance that is moved within its bounds stays a number. *)
LEMMA ApplyNat ==
  ASSUME NEW bal \in [Buckets -> Nat], NEW log, NEW r, r.qty \in Int, Accepts(bal, log, r)
  PROVE  Apply(bal, r) \in [Buckets -> Nat]
<1>1. r.qty >= 0 /\ \A b \in Debit(r) : bal[b] >= r.qty BY DEF Accepts
<1>2. ASSUME NEW b \in Buckets PROVE bal[b] + Delta(r, b) \in Nat
  <2>1. bal[b] \in Nat OBVIOUS
  <2>2. CASE b \in Debit(r)
    <3>1. bal[b] >= r.qty BY <2>2, <1>1
    <3>2. Delta(r, b) = (IF b \in Credit(r) THEN r.qty ELSE 0) - r.qty BY <2>2 DEF Delta
    <3> QED BY <3>1, <3>2, <2>1, <1>1
  <2>3. CASE b \notin Debit(r)
    <3>1. Delta(r, b) = (IF b \in Credit(r) THEN r.qty ELSE 0) - 0 BY <2>3 DEF Delta
    <3> QED BY <3>1, <2>1, <1>1
  <2> QED BY <2>2, <2>3
<1> QED BY <1>2 DEF Apply

(* A posting keeps every table typed. *)
LEMMA PostInKeeps ==
  ASSUME NEW t, TablesOk(t), NEW r, {"qty", "to"} \subseteq DOMAIN r, r.qty \in Int, PostIn(t, r) # Refused
  PROVE  /\ TablesOk(PostIn(t, r))
         /\ PostIn(t, r).po = t.po /\ PostIn(t, r).transfers = t.transfers
<1> DEFINE s == ResolveIn(t.quality, r)
<1>1. s.qty = r.qty BY DEF ResolveIn
<1> HIDE DEF s
<1> DEFINE row == RowOf(t.balance, s, 0)
           bal == Apply(t.balance, s)
<1>2. /\ Accepts(t.balance, t.txns, s)
      /\ PostIn(t, r) = [t EXCEPT !.balance = bal, !.txns = Append(@, row)]
  BY DEF PostIn, s
<1>3. bal \in [Buckets -> Nat] BY <1>1, <1>2, ApplyNat DEF TablesOk
<1> HIDE DEF row, bal
<1> QED BY <1>2, <1>3 DEF TablesOk, TableNames

(* A new lot keeps every table typed. *)
LEMMA WithLotOk ==
  ASSUME NEW t, TablesOk(t), NEW lot
  PROVE  /\ TablesOk(WithLot(t, lot))
         /\ WithLot(t, lot).po = t.po /\ WithLot(t, lot).transfers = t.transfers
BY DEF WithLot, TablesOk, TableNames

(* A receipt leaves an order an order. *)
LEMMA ReceivePoTyped ==
  ASSUME NEW order \in PurchaseOrder, NEW sku, NEW q \in Nat
  PROVE  ReceivePo(order, sku, q) \in PurchaseOrder
<1> DEFINE lines == [i \in DOMAIN order.lines |->
                       IF order.lines[i].sku = sku THEN ReceiveLine(order.lines[i], q) ELSE order.lines[i]]
           new == ReceivePo(order, sku, q)
<1>1. order.lines \in Seq(OrderLine) BY DEF PurchaseOrder
<1>2. ASSUME NEW ln \in OrderLine PROVE ReceiveLine(ln, q) \in OrderLine
  <2> DEFINE transit == IF ln.transit > q THEN ln.transit - q ELSE 0
             status == IF ln.received + q >= ln.ordered THEN "RECEIVED" ELSE ln.status
  <2>1. ReceiveLine(ln, q) = [ln EXCEPT !.received = @ + q, !.transit = transit, !.status = status]
    BY DEF ReceiveLine
  <2>2. ln.received + q \in Int /\ transit \in Int /\ status \in {"ACTIVE", "RECEIVED"} BY DEF OrderLine
  <2> HIDE DEF transit, status
  <2>3. [ln EXCEPT !.received = @ + q, !.transit = transit, !.status = status] \in OrderLine
    BY <2>2 DEF OrderLine
  <2> QED BY <2>1, <2>3
<1>3. lines \in Seq(OrderLine)
  <2>1. DOMAIN order.lines = 1..Len(order.lines) /\ Len(order.lines) \in Nat BY <1>1
  <2>2. \A i \in DOMAIN order.lines : order.lines[i] \in OrderLine BY <1>1
  <2>3. \A i \in DOMAIN lines : lines[i] \in OrderLine BY <2>2, <1>2
  <2>4. lines \in [1..Len(order.lines) -> OrderLine] BY <2>1, <2>3
  <2> HIDE DEF lines
  <2> QED BY <2>1, <2>4
<1>4. new = [order EXCEPT !.lines = lines,
               !.status = IF \A i \in DOMAIN lines : lines[i].received >= lines[i].ordered
                          THEN "RECEIVED" ELSE "PARTIAL"] BY DEF ReceivePo
<1> HIDE DEF lines, new
<1>5. new \in PurchaseOrder BY <1>3, <1>4 DEF PurchaseOrder
<1> QED BY <1>5 DEF new

(* InventoryReceived keeps the tables typed. *)
LEMMA ReceivedKeeps ==
  ASSUME NEW t, TablesOk(t), NEW m, m.qty \in Nat, NEW txn, OnReceived(t, m, txn) # Refused,
         m.po \in PoNumbers \cup {Absent}
  PROVE  TablesOk(OnReceived(t, m, txn))
<1> DEFINE r == [Plain("RECEIPT", m.loc, m.lot, m.qty) EXCEPT !.id = txn]
           posted == IF m.sku # Own THEN t ELSE PostIn(WithLot(t, m.lot), r)
<1>1. {"qty", "to"} \subseteq DOMAIN r /\ r.qty = m.qty BY DEF Plain
<1>2. posted # Refused BY DEF OnReceived
<1> HIDE DEF r
<1>3. TablesOk(posted)
  <2>1. CASE m.sku # Own BY <2>1
  <2>2. CASE m.sku = Own BY <2>2, <1>1, <1>2, WithLotOk, PostInKeeps
  <2> QED BY <2>1, <2>2
<1>4. OnReceived(t, m, txn) = IF m.po = Absent THEN posted
                              ELSE IF posted.po[m.po] = Absent THEN posted
                              ELSE [posted EXCEPT !.po[m.po] = ReceivePo(@, m.sku, m.qty)]
  BY DEF OnReceived, r
<1> HIDE DEF posted
<1>5. CASE m.po = Absent \/ posted.po[m.po] = Absent BY <1>3, <1>4, <1>5
<1>6. CASE m.po # Absent /\ posted.po[m.po] # Absent
  <2> DEFINE order == posted.po[m.po]
             new == ReceivePo(order, m.sku, m.qty)
  <2>1. order \in PurchaseOrder BY <1>3, <1>6 DEF TablesOk
  <2>2. OnReceived(t, m, txn) = [posted EXCEPT !.po[m.po] = new] BY <1>4, <1>6
  <2> HIDE DEF order
  <2>3. new \in PurchaseOrder BY <2>1, ReceivePoTyped
  <2> HIDE DEF new
  <2> QED BY <2>2, <2>3, <1>3 DEF TablesOk, TableNames
<1> QED BY <1>5, <1>6

(* InventoryIssued keeps the tables typed. *)
LEMMA IssuedKeeps ==
  ASSUME NEW t, TablesOk(t), NEW m, m.qty \in Nat, NEW txn, OnIssued(t, m, txn) # Refused
  PROVE  TablesOk(OnIssued(t, m, txn))
<1> DEFINE r == [Plain("ISSUE", m.loc, m.lot, m.qty) EXCEPT !.id = txn]
<1>1. {"qty", "to"} \subseteq DOMAIN r /\ r.qty = m.qty BY DEF Plain
<1>2. OnIssued(t, m, txn) = PostIn(WithLot(t, m.lot), r) BY DEF OnIssued
<1> HIDE DEF r
<1> QED BY <1>1, <1>2, WithLotOk, PostInKeeps

(* QualityHold and QualityRelease keep the tables typed. *)
LEMMA QualityKeeps ==
  ASSUME NEW t, TablesOk(t), NEW m, m.qty \in Nat, NEW txn, OnQuality(t, m, txn) # Refused
  PROVE  TablesOk(OnQuality(t, m, txn))
<1> DEFINE r == [Plain(IF m.type = "QualityHold" THEN "QUARANTINE" ELSE "RELEASE", m.loc, m.lot, m.qty)
                   EXCEPT !.id = txn]
           posted == PostIn(WithLot(t, m.lot), r)
           status == IF m.type = "QualityHold" THEN "QUARANTINE" ELSE "RELEASED"
<1>1. {"qty", "to"} \subseteq DOMAIN r /\ r.qty = m.qty BY DEF Plain
<1>2. posted # Refused /\ OnQuality(t, m, txn) = [posted EXCEPT !.quality[m.lot] = status] BY DEF OnQuality
<1> HIDE DEF r
<1>3. TablesOk(posted) BY <1>1, <1>2, WithLotOk, PostInKeeps
<1> HIDE DEF posted, status
<1> QED BY <1>2, <1>3 DEF TablesOk, TableNames

(* InventoryAdjusted keeps the tables typed. *)
LEMMA AdjustedKeeps ==
  ASSUME NEW t, TablesOk(t), NEW m, m.loc \in Locations, m.counted \in Nat, OnAdjusted(t, m) # Refused
  PROVE  TablesOk(OnAdjusted(t, m))
<1> DEFINE b == <<m.loc, 0, "UNRESTRICTED">>
           system == t.balance[b]
           q == IF m.counted > system THEN m.counted - system ELSE system - m.counted
           r == [Plain("CYCLE_COUNT", m.loc, 0, q)
                   EXCEPT !.dir = IF m.counted > system THEN "IN" ELSE "OUT",
                          !.from = "UNRESTRICTED", !.to = "UNRESTRICTED"]
<1>1. system \in Nat
  <2>1. b \in Buckets
    <3>1. 0 \in Lots BY LedgerAssumption DEF Lots
    <3> QED BY <3>1 DEF Buckets, States, OnHandStates
  <2> HIDE DEF b
  <2> QED BY <2>1 DEF TablesOk
<1>2. q \in Int BY <1>1
<1>3. OnAdjusted(t, m) = IF m.counted = system THEN t ELSE PostIn(t, r) BY DEF OnAdjusted, CountIn
<1> HIDE DEF q
<1>4. {"qty", "to"} \subseteq DOMAIN r /\ r.qty = q BY DEF Plain
<1> HIDE DEF r
<1>5. CASE m.counted = system BY <1>3, <1>5
<1>6. CASE m.counted # system
  <2>1. OnAdjusted(t, m) = PostIn(t, r) BY <1>3, <1>6
  <2> QED BY <2>1, <1>2, <1>4, PostInKeeps
<1> QED BY <1>5, <1>6

(* PurchaseOrderCreated keeps the tables typed. *)
LEMMA PoCreatedKeeps ==
  ASSUME NEW t, TablesOk(t), NEW m, OnPoCreated(t, m) # Refused,
         m.po \in PoNumbers, m.supplier \in MasterKeys, m.loc \in Locations,
         m.sku \in Skus, m.qty \in Nat, m.eta \in Nat \cup {Absent}
  PROVE  TablesOk(OnPoCreated(t, m))
<1> DEFINE promised == IF m.eta # Absent THEN m.eta ELSE Today
           line == [sku |-> m.sku, ordered |-> m.qty, received |-> 0, transit |-> 0, status |-> "ACTIVE",
                    eta |-> promised]
           new == NewOrder(m.supplier, m.loc, m.sku, m.qty, 0, promised, promised)
<1>1. promised \in Nat BY DocumentsAssumption
<1>2. OnPoCreated(t, m) = [t EXCEPT !.po[m.po] = new] BY DEF OnPoCreated
<1> HIDE DEF promised
<1>3. line \in OrderLine BY <1>1 DEF OrderLine
<1>4. new = [supplier |-> m.supplier, dest |-> m.loc, status |-> "OPEN", promised |-> promised, eta |-> promised,
             lines |-> <<line>>] BY DEF NewOrder
<1> HIDE DEF line, new
<1>5. new \in PurchaseOrder
  <2>1. <<line>> \in Seq(OrderLine) BY <1>3
  <2> QED BY <2>1, <1>1, <1>4 DEF PurchaseOrder
<1> QED BY <1>2, <1>5 DEF TablesOk, TableNames

(* New dates leave an order an order. *)
LEMMA RedateTyped ==
  ASSUME NEW order \in PurchaseOrder, NEW eta \in Nat \cup {Absent}
  PROVE  Redate(order, eta) \in PurchaseOrder
<1> DEFINE lines == [i \in DOMAIN order.lines |-> [order.lines[i] EXCEPT !.eta = eta]]
           new == Redate(order, eta)
<1>1. new = [order EXCEPT !.eta = eta, !.lines = lines] BY DEF Redate
<1>2. lines \in Seq(OrderLine)
  <2>0. order.lines \in Seq(OrderLine) BY DEF PurchaseOrder
  <2>1. DOMAIN order.lines = 1..Len(order.lines) /\ Len(order.lines) \in Nat BY <2>0
  <2>2. \A i \in DOMAIN order.lines : order.lines[i] \in OrderLine BY <2>0
  <2>3. \A ln \in OrderLine : [ln EXCEPT !.eta = eta] \in OrderLine BY DEF OrderLine
  <2>4. \A i \in DOMAIN lines : lines[i] \in OrderLine BY <2>2, <2>3
  <2>5. lines \in [1..Len(order.lines) -> OrderLine] BY <2>1, <2>4
  <2> HIDE DEF lines
  <2> QED BY <2>1, <2>5
<1> HIDE DEF lines, new
<1>3. new \in PurchaseOrder BY <1>1, <1>2 DEF PurchaseOrder
<1> QED BY <1>3 DEF new

(* PurchaseOrderDelayed keeps the tables typed. *)
LEMMA PoDelayedKeeps ==
  ASSUME NEW t, TablesOk(t), NEW m, OnPoDelayed(t, m) # Refused,
         m.po \in PoNumbers, m.eta \in Nat \cup {Absent}
  PROVE  TablesOk(OnPoDelayed(t, m))
<1> DEFINE order == t.po[m.po]
           new == Redate(order, m.eta)
<1>1. order # Absent /\ OnPoDelayed(t, m) = IF m.eta = Absent THEN t ELSE [t EXCEPT !.po[m.po] = new]
  BY DEF OnPoDelayed
<1>2. order \in PurchaseOrder BY <1>1 DEF TablesOk
<1> HIDE DEF order
<1>3. new \in PurchaseOrder BY <1>2, RedateTyped
<1> HIDE DEF new
<1> QED BY <1>1, <1>3 DEF TablesOk, TableNames

(* The invariant of the loop over the lines of a shipment. *)
LinesTyped(base, s, n, acc) ==
  /\ acc = [lines |-> acc.lines, eta |-> acc.eta]
  /\ acc.lines \in Seq(OrderLine) /\ acc.eta \in Nat \cup {Absent}

Loading == INSTANCE FoldLemmas WITH Op <- ShipItem, Holds <- LinesTyped

(* A dispatched item keeps the lines of its order typed. *)
LEMMA ShipItemKeeps ==
  ASSUME NEW acc, acc = [lines |-> acc.lines, eta |-> acc.eta],
         acc.lines \in Seq(OrderLine), acc.eta \in Nat \cup {Absent},
         NEW x, x.qty \in Int
  PROVE  /\ ShipItem(acc, x) = [lines |-> ShipItem(acc, x).lines, eta |-> ShipItem(acc, x).eta]
         /\ ShipItem(acc, x).lines \in Seq(OrderLine) /\ ShipItem(acc, x).eta \in Nat \cup {Absent}
<1> DEFINE old == acc.lines
           lines == [i \in DOMAIN old |->
                       IF x.sku \in Skus /\ old[i].sku = x.sku THEN ShipLine(old[i], x.qty, acc.eta) ELSE old[i]]
<1>1. ShipItem(acc, x) = [acc EXCEPT !.lines = lines] BY DEF ShipItem
<1>2. old \in Seq(OrderLine) OBVIOUS
<1> HIDE DEF old
<1>3. ASSUME NEW ln \in OrderLine PROVE ShipLine(ln, x.qty, acc.eta) \in OrderLine
  <2> DEFINE open == ln.ordered - ln.received
             transit == IF ln.transit + x.qty < open THEN ln.transit + x.qty ELSE open
             eta == IF acc.eta # Absent THEN acc.eta ELSE ln.eta
  <2>1. ShipLine(ln, x.qty, acc.eta) = [ln EXCEPT !.transit = transit, !.eta = eta] BY DEF ShipLine
  <2>2. transit \in Int
    <3>1. ln.ordered \in Int /\ ln.received \in Int /\ ln.transit \in Int BY DEF OrderLine
    <3> QED BY <3>1
  <2>3. eta \in Nat \cup {Absent} BY DEF OrderLine
  <2> HIDE DEF transit, eta
  <2>4. [ln EXCEPT !.transit = transit, !.eta = eta] \in OrderLine BY <2>2, <2>3 DEF OrderLine
  <2> QED BY <2>1, <2>4
<1>4. lines \in Seq(OrderLine)
  <2>1. DOMAIN old = 1..Len(old) /\ Len(old) \in Nat BY <1>2
  <2>2. \A i \in DOMAIN old : old[i] \in OrderLine BY <1>2
  <2>3. \A i \in DOMAIN lines : lines[i] \in OrderLine BY <2>2, <1>3
  <2>4. lines \in [1..Len(old) -> OrderLine] BY <2>1, <2>3
  <2> HIDE DEF lines
  <2> QED BY <2>1, <2>4
<1> HIDE DEF lines
<1>5. [acc EXCEPT !.lines = lines] = [lines |-> lines, eta |-> acc.eta] OBVIOUS
<1> QED BY <1>1, <1>4, <1>5

(* So do all of them. *)
LEMMA ShipLinesKeep ==
  ASSUME NEW lines \in Seq(OrderLine), NEW shipped \in Seq([sku: Skus, qty: Nat]), NEW eta \in Nat \cup {Absent}
  PROVE  ShipLines(lines, shipped, eta) \in Seq(OrderLine)
<1> DEFINE base == [lines |-> lines, eta |-> eta]
           out == Loading!Fold(base, shipped)
           T == [sku: Skus, qty: Nat]
<1>1. LinesTyped(base, shipped, 0, base) BY DEF LinesTyped
<1> HIDE DEF base, out
<1>2. ASSUME NEW i \in 1..Len(shipped), NEW acc, LinesTyped(base, shipped, i - 1, acc)
      PROVE  LinesTyped(base, shipped, i, ShipItem(acc, shipped[i]))
  <2>1. shipped[i].qty \in Int
    <3>1. shipped \in Seq(T) OBVIOUS
    <3> HIDE DEF T
    <3>2. shipped[i] \in T BY <3>1
    <3> QED BY <3>2 DEF T
  <2> QED BY <1>2, <2>1, ShipItemKeeps DEF LinesTyped
<1>3. shipped \in Seq(T) OBVIOUS
<1> HIDE DEF T
<1>4. LinesTyped(base, shipped, Len(shipped), out) BY <1>1, <1>2, <1>3, Loading!FoldHolds DEF out
<1>5. FoldLeft(ShipItem, base, shipped) = out
  BY DEF out, Loading!Fold, Loading!FoldLeft, Loading!MapThenFoldSet, Loading!Max, FoldLeft, MapThenFoldSet, Max
<1> QED BY <1>4, <1>5 DEF LinesTyped, ShipLines, base

(* ShipmentDispatched keeps the tables typed. *)
LEMMA DispatchedKeeps ==
  ASSUME NEW t, TablesOk(t), NEW m, OnShipDispatched(t, m) # Refused,
         m.po \in PoNumbers \cup {Absent}, m.eta \in Nat \cup {Absent}, m.lines \in Seq([sku: Skus, qty: Nat])
  PROVE  TablesOk(OnShipDispatched(t, m))
<1> DEFINE order == OrderOf(t, m)
           po == OrdersShipped(t, m)
<1>1. OnShipDispatched(t, m) = [t EXCEPT !.ships[m.no] = ShipmentOf(t, m), !.po = po] BY DEF OnShipDispatched
<1>2. DOMAIN po = PoNumbers /\ \A n \in PoNumbers : po[n] # Absent => po[n] \in PurchaseOrder
  <2>1. CASE order = Absent BY <2>1 DEF TablesOk, OrdersShipped
  <2>2. CASE order # Absent
    <3>1. m.po \in PoNumbers /\ order = t.po[m.po] BY <2>2 DEF OrderOf
    <3> DEFINE lines == ShipLines(order.lines, m.lines, m.eta)
               new == [order EXCEPT !.lines = lines]
    <3>2. po = [t.po EXCEPT ![m.po] = [t.po[m.po] EXCEPT !.lines = ShipLines(t.po[m.po].lines, m.lines, m.eta)]]
      BY <2>2 DEF OrdersShipped
    <3>3. order \in PurchaseOrder BY <3>1, <2>2 DEF TablesOk
    <3> HIDE DEF order, po
    <3>4. po = [t.po EXCEPT ![m.po] = new] BY <3>1, <3>2
    <3>5. lines \in Seq(OrderLine)
      <4>1. order.lines \in Seq(OrderLine) BY <3>3 DEF PurchaseOrder
      <4> QED BY <4>1, ShipLinesKeep
    <3> HIDE DEF lines
    <3>6. new \in PurchaseOrder BY <3>3, <3>5 DEF PurchaseOrder
    <3> HIDE DEF new
    <3> QED BY <3>1, <3>4, <3>6 DEF TablesOk
  <2> QED BY <2>1, <2>2
<1> HIDE DEF po
<1> QED BY <1>1, <1>2 DEF TablesOk, TableNames

(* TransferCreated keeps the tables typed. *)
LEMMA TransferCreatedKeeps ==
  ASSUME NEW t, TablesOk(t), NEW m, OnTransferCreated(t, m) # Refused,
         m.no \in TransferNos, m.loc \in Locations, m.toLoc \in Locations, m.qty \in Nat, m.eta \in Nat \cup {Absent}
  PROVE  TablesOk(OnTransferCreated(t, m))
<1> DEFINE eta == IF m.eta # Absent THEN m.eta ELSE Today
           new == [from |-> m.loc, to |-> m.toLoc, qty |-> m.qty, received |-> 0, eta |-> eta, status |-> "OPEN"]
<1>1. OnTransferCreated(t, m) = [t EXCEPT !.transfers[m.no] = new] BY DEF OnTransferCreated
<1>2. eta \in Nat BY DocumentsAssumption
<1> HIDE DEF eta
<1>3. new \in TransferOrder BY <1>2 DEF TransferOrder
<1> HIDE DEF new
<1> QED BY <1>1, <1>3 DEF TablesOk, TableNames

(* TransferCompleted keeps the tables typed. *)
LEMMA TransferCompletedKeeps ==
  ASSUME NEW t, TablesOk(t), NEW m, NEW txn, OnTransferCompleted(t, m, txn) # Refused,
         m.no \in TransferNos, m.qty \in Nat
  PROVE  TablesOk(OnTransferCompleted(t, m, txn))
<1> DEFINE order == t.transfers[m.no]
           q == IF m.qty # 0 THEN m.qty ELSE order.qty
           r == [Plain("TRANSFER", order.from, 0, q) EXCEPT !.toLoc = order.to, !.id = txn]
           posted == PostIn(t, r)
           new == [order EXCEPT !.received = q, !.status = "RECEIVED"]
<1>1. order # Absent /\ posted # Refused
      /\ OnTransferCompleted(t, m, txn) =
           [posted EXCEPT !.transfers[m.no] = [posted.transfers[m.no] EXCEPT !.received = q, !.status = "RECEIVED"]]
  BY DEF OnTransferCompleted
<1>2. order \in TransferOrder BY <1>1 DEF TablesOk
<1>3. {"qty", "to"} \subseteq DOMAIN r /\ r.qty = q BY DEF Plain
<1>4. q \in Int BY <1>2 DEF TransferOrder
<1> HIDE DEF r, q
<1>5. TablesOk(posted) /\ posted.transfers = t.transfers BY <1>1, <1>3, <1>4, PostInKeeps
<1>6. OnTransferCompleted(t, m, txn) = [posted EXCEPT !.transfers[m.no] = new] BY <1>1, <1>5
<1> HIDE DEF posted, order
<1>7. new \in TransferOrder BY <1>2, <1>4 DEF TransferOrder
<1> HIDE DEF new
<1> QED BY <1>5, <1>6, <1>7 DEF TablesOk, TableNames

(* A message that is accepted leaves tables.                                *)
LEMMA HandleKeeps ==
  ASSUME NEW t, TablesOk(t), NEW m, Message(m), NEW txn, Handle(t, m, txn) # Refused
  PROVE  TablesOk(Handle(t, m, txn))
<1>1. CASE m.type = "InventoryReceived"
  <2>1. Handle(t, m, txn) = OnReceived(t, m, txn) BY <1>1 DEF Handle
  <2> QED BY <1>1, <2>1, ReceivedKeeps DEF Message
<1>2. CASE m.type = "InventoryIssued"
  <2>1. Handle(t, m, txn) = OnIssued(t, m, txn) BY <1>2 DEF Handle
  <2> QED BY <1>2, <2>1, IssuedKeeps DEF Message
<1>3. CASE m.type \in {"QualityHold", "QualityRelease"}
  <2>1. Handle(t, m, txn) = OnQuality(t, m, txn) BY <1>3 DEF Handle
  <2> QED BY <1>3, <2>1, QualityKeeps DEF Message
<1>4. CASE m.type = "InventoryAdjusted"
  <2>1. Handle(t, m, txn) = OnAdjusted(t, m) BY <1>4 DEF Handle
  <2> QED BY <1>4, <2>1, AdjustedKeeps DEF Message
<1>5. CASE m.type = "PurchaseOrderCreated"
  <2>1. Handle(t, m, txn) = OnPoCreated(t, m) BY <1>5 DEF Handle
  <2> QED BY <1>5, <2>1, PoCreatedKeeps DEF Message
<1>6. CASE m.type = "PurchaseOrderDelayed"
  <2>1. Handle(t, m, txn) = OnPoDelayed(t, m) BY <1>6 DEF Handle
  <2> QED BY <1>6, <2>1, PoDelayedKeeps DEF Message
<1>7. CASE m.type = "ShipmentDispatched"
  <2>1. Handle(t, m, txn) = OnShipDispatched(t, m) BY <1>7 DEF Handle
  <2> QED BY <1>7, <2>1, DispatchedKeeps DEF Message
<1>8. CASE m.type = "TransferCreated"
  <2>1. Handle(t, m, txn) = OnTransferCreated(t, m) BY <1>8 DEF Handle
  <2> QED BY <1>8, <2>1, TransferCreatedKeeps DEF Message
<1>9. CASE m.type = "TransferCompleted"
  <2>1. Handle(t, m, txn) = OnTransferCompleted(t, m, txn) BY <1>9 DEF Handle
  <2> QED BY <1>9, <2>1, TransferCompletedKeeps DEF Message
<1> QED BY <1>1, <1>2, <1>3, <1>4, <1>5, <1>6, <1>7, <1>8, <1>9 DEF Message

(* A message, handled or refused, keeps the tables typed. *)
LEMMA AcceptKeeps ==
  ASSUME NEW t, TablesOk(t), NEW m, Message(m)
  PROVE  TablesOk(Accept(t, m))
BY HandleKeeps DEF Accept

TablesStay(base, s, n, t) == TablesOk(t)
Starting == INSTANCE FoldLemmas WITH Op <- Accept, Holds <- TablesStay

(* The tables every run starts from.                                        *)
LEMMA AfterOk ==
  ASSUME NEW t, TablesOk(t), NEW ms, Listed(ms), \A m \in Range(ms) : Message(m)
  PROVE  TablesOk(After(t, ms))
<1> DEFINE T == Range(ms)
           out == Starting!Fold(t, ms)
<1>1. ms \in Seq(T) BY DEF Listed
<1>2. \A i \in 1..Len(ms) : ms[i] \in T BY <1>1
<1> HIDE DEF T, out
<1>3. \A i \in 1..Len(ms) : \A u : TablesStay(t, ms, i - 1, u) => TablesStay(t, ms, i, Accept(u, ms[i]))
  <2>1. \A i \in 1..Len(ms) : Message(ms[i]) BY <1>2 DEF T
  <2> QED BY <2>1, AcceptKeeps DEF TablesStay
<1>4. TablesStay(t, ms, 0, t) BY DEF TablesStay
<1>5. TablesStay(t, ms, Len(ms), out) BY <1>1, <1>3, <1>4, Starting!FoldHolds DEF out
<1>6. FoldLeft(Accept, t, ms) = out
  BY DEF out, Starting!Fold, Starting!FoldLeft, Starting!MapThenFoldSet, Starting!Max, FoldLeft, MapThenFoldSet, Max
<1> QED BY <1>5, <1>6 DEF After, TablesStay

(* Empty tables are typed. *)
LEMMA NoTablesOk == TablesOk(NoTables)
<1> DEFINE d == [b \in Buckets |-> 0]
<1>0. DOMAIN NoDocuments = TableNames \ {"balance", "txns", "quality"} BY DEF NoDocuments, TableNames
<1>1. DOMAIN NoTables = TableNames BY <1>0 DEF NoTables, TableNames
<1>2. NoTables.balance = d /\ NoTables.po = NoDocuments.po /\ NoTables.transfers = NoDocuments.transfers
  BY <1>0 DEF NoTables, TableNames
<1>3. d \in [Buckets -> Nat] OBVIOUS
<1>4. /\ NoDocuments.po = [n \in PoNumbers |-> Absent]
      /\ NoDocuments.transfers = [n \in TransferNos |-> Absent]
  BY DEF NoDocuments
<1> HIDE DEF d
<1> QED BY <1>1, <1>2, <1>3, <1>4 DEF TablesOk

-----------------------------------------------------------------------------
(* What the snapshot makes of the tables *)

InboundParts(s) == Goods(s) /\ \A i \in DOMAIN s : s[i].kind \in InboundKinds /\ s[i].day \in Int

(* Nothing is on its way. *)
LEMMA NoParts == InboundParts(<<>>)
<1>1. Listed(<<>>) /\ DOMAIN <<>> = {}
  <2>1. <<>> \in Seq({}) /\ DOMAIN <<>> = {} OBVIOUS
  <2> QED BY <2>1, ListedOfSeq
<1> DEFINE s == <<>>
<1>2. Listed(s) /\ DOMAIN s = {} BY <1>1
<1> HIDE DEF s
<1>3. InboundParts(s) BY <1>2 DEF InboundParts, Goods
<1> QED BY <1>3 DEF s

(* One part of what is on its way, if it has a quantity. *)
LEMMA OnePart ==
  ASSUME NEW kind \in InboundKinds, NEW ref, NEW q \in Int, NEW transit, NEW day \in Int
  PROVE  InboundParts(Part(kind, ref, q, transit, day))
<1> DEFINE x == [kind |-> kind, ref |-> ref, qty |-> q, transit |-> transit, day |-> day]
           s == <<x>>
<1>1. CASE q > 0
  <2>1. x.kind \in InboundKinds /\ x.qty \in Nat /\ x.day \in Int BY <1>1
  <2>2. Part(kind, ref, q, transit, day) = s BY <1>1 DEF Part
  <2> HIDE DEF x
  <2>3. DOMAIN s = {1} /\ s[1] = x /\ s \in Seq({x}) OBVIOUS
  <2>4. Listed(s) BY <2>3, ListedOfSeq
  <2> HIDE DEF s
  <2>5. InboundParts(s) BY <2>1, <2>3, <2>4 DEF InboundParts, Goods
  <2> QED BY <2>2, <2>5
<1>2. CASE ~(q > 0)
  <2>1. Part(kind, ref, q, transit, day) = <<>> BY <1>2 DEF Part
  <2> QED BY <2>1, NoParts
<1> QED BY <1>1, <1>2

(* Parts followed by parts are parts. *)
LEMMA PartsJoined ==
  ASSUME NEW a, InboundParts(a), NEW b, InboundParts(b)
  PROVE  InboundParts(a \o b)
<1> DEFINE t == a \o b
           Fine(x) == x.qty \in Nat /\ x.kind \in InboundKinds /\ x.day \in Int
<1>0. (\A i \in DOMAIN a : Fine(a[i])) /\ (\A i \in DOMAIN b : Fine(b[i])) BY DEF InboundParts, Goods
<1>1. Follows(t, a, b) BY Joining DEF InboundParts, Goods
<1> HIDE DEF t, Fine
<1>2. ASSUME NEW i \in DOMAIN t PROVE Fine(t[i])
  <2>1. CASE i \in DOMAIN a
    <3>1. t[i] = a[i] BY <2>1, <1>1 DEF Follows
    <3> QED BY <3>1, <2>1, <1>0
  <2>2. CASE i - Len(a) \in DOMAIN b
    <3> DEFINE k == i - Len(a)
    <3>1. k \in DOMAIN b /\ k + Len(a) = i BY <2>2, <1>1 DEF Follows
    <3> HIDE DEF k
    <3>2. t[k + Len(a)] = b[k] BY <3>1, <1>1 DEF Follows
    <3> QED BY <3>1, <3>2, <1>0
  <2> QED BY <2>1, <2>2, <1>1 DEF Follows
<1>3. Listed(t) BY <1>1 DEF Follows
<1>4. InboundParts(t) BY <1>2, <1>3 DEF InboundParts, Goods, Fine
<1> QED BY <1>4 DEF t

(* The invariant of joining. *)
Glued(base, s, n, all) == InboundParts(all)
Gluing == INSTANCE FoldLemmas WITH Op <- Glue, Holds <- Glued

(* Parts joined are parts. *)
LEMMA AllPartsJoined ==
  ASSUME NEW T, NEW seqs \in Seq(T), \A i \in DOMAIN seqs : InboundParts(seqs[i])
  PROVE  InboundParts(Joined(seqs))
<1> DEFINE base == <<>>
           out == Gluing!Fold(base, seqs)
<1>1. Glued(base, seqs, 0, base) BY NoParts DEF Glued
<1>5. FoldLeft(Glue, base, seqs) = out
  BY DEF out, Gluing!Fold, Gluing!FoldLeft, Gluing!MapThenFoldSet, Gluing!Max, FoldLeft, MapThenFoldSet, Max
<1>6. Joined(seqs) = FoldLeft(Glue, base, seqs) BY DEF Joined
<1> HIDE DEF base, out
<1>2. ASSUME NEW i \in 1..Len(seqs), NEW all, Glued(base, seqs, i - 1, all)
      PROVE  Glued(base, seqs, i, Glue(all, seqs[i]))
  <2>1. InboundParts(seqs[i]) OBVIOUS
  <2> QED BY <1>2, <2>1, PartsJoined DEF Glued, Glue
<1>3. Glued(base, seqs, Len(seqs), out) BY <1>1, <1>2, Gluing!FoldHolds DEF out
<1> QED BY <1>3, <1>5, <1>6 DEF Glued

(* A sequence made of one part after the other. *)
LEMMA MadeOfParts ==
  ASSUME NEW n \in Nat, NEW seqs, seqs = [i \in 1..n |-> seqs[i]], \A i \in 1..n : InboundParts(seqs[i])
  PROVE  InboundParts(Joined(seqs))
<1> DEFINE T == {seqs[i] : i \in 1..n}
<1>1. seqs \in [1..n -> T] OBVIOUS
<1> HIDE DEF T
<1>2. seqs \in Seq(T) /\ DOMAIN seqs = 1..n BY <1>1
<1> QED BY <1>2, AllPartsJoined

(* An expected day is a number. *)
LEMMA EtaDayInt ==
  ASSUME NEW order \in PurchaseOrder, NEW ln \in OrderLine
  PROVE  EtaDay(ln, order) \in Int
<1> DEFINE eta == IF ln.eta # Absent THEN ln.eta
                  ELSE IF order.eta # Absent THEN order.eta ELSE order.promised
<1>1. ln.eta \in Nat \cup {Absent} BY DEF OrderLine
<1>2. order.eta \in Nat \cup {Absent} /\ order.promised \in Nat \cup {Absent} BY DEF PurchaseOrder
<1>3. eta \in Nat \cup {Absent} BY <1>1, <1>2
<1>4. EtaDay(ln, order) = IF eta = Absent THEN 0 ELSE eta - Today BY DEF EtaDay
<1> HIDE DEF eta
<1> QED BY <1>3, <1>4, DocumentsAssumption

(* The shipped part and the rest of an order line. *)
LEMMA LineParts ==
  ASSUME NEW order \in PurchaseOrder, NEW ln \in OrderLine, NEW n
  PROVE  InboundParts(LineInbound(n, order, ln))
<1> DEFINE open == ln.ordered - ln.received
           sent == IF ln.transit < open THEN ln.transit ELSE open
           day == EtaDay(ln, order)
           x == Part("PO", n, sent, TRUE, day)
           y == Part("PO", n, open - sent, FALSE, day)
<1>1. open \in Int /\ sent \in Int /\ open - sent \in Int BY DEF OrderLine
<1>2. day \in Int BY EtaDayInt
<1>3. LineInbound(n, order, ln) = IF ln.sku # Own \/ open <= 0 THEN <<>> ELSE x \o y BY DEF LineInbound
<1>4. "PO" \in InboundKinds BY DEF InboundKinds
<1> HIDE DEF open, sent, day
<1>5. InboundParts(x) /\ InboundParts(y) BY <1>1, <1>2, <1>4, OnePart
<1> HIDE DEF x, y
<1>6. InboundParts(x \o y) BY <1>5, PartsJoined
<1> QED BY <1>3, <1>6, NoParts

(* What is on its way of an order. *)
LEMMA OrderParts ==
  ASSUME NEW order \in PurchaseOrder, NEW n
  PROVE  InboundParts(OrderInbound(n, order))
<1> DEFINE lines == order.lines
           seqs == [i \in DOMAIN lines |-> LineInbound(n, order, lines[i])]
<1>1. lines \in Seq(OrderLine) BY DEF PurchaseOrder
<1>2. OrderInbound(n, order) = Joined(seqs) BY DEF OrderInbound
<1> HIDE DEF lines
<1>3. Len(lines) \in Nat /\ DOMAIN lines = 1..Len(lines) /\ \A i \in DOMAIN lines : lines[i] \in OrderLine BY <1>1
<1>4. \A i \in 1..Len(lines) : InboundParts(seqs[i]) BY <1>3, LineParts
<1>5. seqs = [i \in 1..Len(lines) |-> seqs[i]] BY <1>3
<1> HIDE DEF seqs
<1> QED BY <1>2, <1>3, <1>4, <1>5, MadeOfParts

(* The elements of a finite set, one after the other.                       *)
LEMMA SetListed ==
  ASSUME NEW S, IsFiniteSet(S)
  PROVE  Cardinality(S) \in Nat /\ SetToSeq(S) \in [1..Cardinality(S) -> S]
<1> DEFINE c == Cardinality(S)
<1>1. c \in Nat /\ ExistsBijection(1..c, S) BY FS_CardinalityType
<1> HIDE DEF c
<1>2. \E f \in [1..c -> S] : IsInjective(f) BY <1>1 DEF ExistsBijection, Bijection, Injection
<1>3. SetToSeq(S) = CHOOSE f \in [1..c -> S] : IsInjective(f) BY DEF SetToSeq, c
<1>4. SetToSeq(S) \in [1..c -> S] BY <1>2, <1>3
<1> QED BY <1>1, <1>4 DEF c

(* What is on its way to a location has quantities, days and a known kind. *)
LEMMA InboundTyped ==
  ASSUME NEW t, TablesOk(t), NEW l
  PROVE  InboundParts(Inbound(t, l))
<1> DEFINE O == OpenOrders(t, l)
           M == {n \in OpenTransfers(t) : t.transfers[n].to = l}
           orders == SetToSeq(O)
           moves == SetToSeq(M)
           a == [i \in DOMAIN orders |-> OrderInbound(orders[i], t.po[orders[i]])]
           b == [i \in DOMAIN moves |->
                   LET order == t.transfers[moves[i]]
                   IN  Part("TO", moves[i], OpenQty(order), FALSE, order.eta - Today)]
           c == [i \in DOMAIN Production |->
                   LET po == Production[i]
                   IN  IF po.loc = l /\ po.item = Own THEN Part("PROD", po.ref, po.qty, FALSE, po.due - Today)
                       ELSE <<>>]
<1>0. Inbound(t, l) = Joined(a) \o Joined(b) \o Joined(c) BY DEF Inbound
<1>1. IsFiniteSet(O) /\ \A n \in O : t.po[n] \in PurchaseOrder
  <2>1. O \in SUBSET PoNumbers /\ \A n \in O : t.po[n] # Absent BY DEF OpenOrders
  <2> HIDE DEF O
  <2> QED BY <2>1, SupplyAssumption, FS_Subset DEF TablesOk
<1>2. IsFiniteSet(M) /\ \A n \in M : t.transfers[n] \in TransferOrder
  <2>1. M \in SUBSET TransferNos /\ \A n \in M : t.transfers[n] # Absent BY DEF OpenTransfers
  <2> HIDE DEF M
  <2> QED BY <2>1, SupplyAssumption, FS_Subset DEF TablesOk
<1> HIDE DEF O, M
<1>3. Cardinality(O) \in Nat /\ orders \in [1..Cardinality(O) -> O] BY <1>1, SetListed
<1>4. Cardinality(M) \in Nat /\ moves \in [1..Cardinality(M) -> M] BY <1>2, SetListed
<1> HIDE DEF orders, moves
<1>5. InboundParts(Joined(a))
  <2>1. \A i \in 1..Cardinality(O) : InboundParts(a[i])
    <3>1. \A i \in 1..Cardinality(O) : t.po[orders[i]] \in PurchaseOrder BY <1>1, <1>3
    <3> QED BY <3>1, <1>3, OrderParts
  <2>2. a = [i \in 1..Cardinality(O) |-> a[i]] BY <1>3
  <2> HIDE DEF a
  <2> QED BY <2>1, <2>2, <1>3, MadeOfParts
<1>6. InboundParts(Joined(b))
  <2>1. ASSUME NEW i \in 1..Cardinality(M) PROVE InboundParts(b[i])
    <3> DEFINE order == t.transfers[moves[i]]
               q == OpenQty(order)
               day == order.eta - Today
    <3>1. b[i] = Part("TO", moves[i], q, FALSE, day) BY <1>4
    <3>2. order \in TransferOrder BY <1>2, <1>4
    <3> HIDE DEF order
    <3>3. q \in Int /\ day \in Int BY <3>2, DocumentsAssumption DEF OpenQty, TransferOrder
    <3>4. "TO" \in InboundKinds BY DEF InboundKinds
    <3> HIDE DEF q, day
    <3> QED BY <3>1, <3>3, <3>4, OnePart
  <2>2. b = [i \in 1..Cardinality(M) |-> b[i]] BY <1>4
  <2> HIDE DEF b
  <2> QED BY <2>1, <2>2, <1>4, MadeOfParts
<1>7. InboundParts(Joined(c))
  <2>0. Len(Production) \in Nat /\ DOMAIN Production = 1..Len(Production)
    <3> DEFINE R == Range(Production)
    <3>1. Production \in Seq(R) BY SupplyAssumption
    <3> HIDE DEF R
    <3> QED BY <3>1
  <2>1. ASSUME NEW i \in 1..Len(Production) PROVE InboundParts(c[i])
    <3> DEFINE po == Production[i]
               day == po.due - Today
    <3>1. c[i] = IF po.loc = l /\ po.item = Own THEN Part("PROD", po.ref, po.qty, FALSE, day) ELSE <<>>
      BY <2>0
    <3>2. po.qty \in Int /\ day \in Int BY <2>0, SupplyAssumption, DocumentsAssumption
    <3>3. "PROD" \in InboundKinds BY DEF InboundKinds
    <3> HIDE DEF po, day
    <3>4. InboundParts(Part("PROD", po.ref, po.qty, FALSE, day)) BY <3>2, <3>3, OnePart
    <3> QED BY <3>1, <3>4, NoParts
  <2>2. c = [i \in 1..Len(Production) |-> c[i]] BY <2>0
  <2> HIDE DEF c
  <2> QED BY <2>0, <2>1, <2>2, MadeOfParts
<1> HIDE DEF a, b, c
<1> DEFINE ab == Joined(a) \o Joined(b)
<1>8. InboundParts(ab) BY <1>5, <1>6, PartsJoined
<1>9. Inbound(t, l) = ab \o Joined(c) BY <1>0
<1> HIDE DEF ab
<1> QED BY <1>7, <1>8, <1>9, PartsJoined

(* Selected sales order lines are demands. *)
LEMMA DemandsListed ==
  ASSUME NEW sold, DemandList(sold), NEW S \in SUBSET DOMAIN sold
  PROVE  DemandList(Where(sold, S))
<1> DEFINE t == Where(sold, S)
<1>1. Lists(t, sold, S, Plainly(S)) BY WhereListing DEF DemandList
<1> HIDE DEF t
<1>2. Listed(t) /\ \A n \in DOMAIN t : Plainly(S)[n] \in DOMAIN sold /\ t[n] = sold[Plainly(S)[n]] BY <1>1 DEF Lists
<1>3. \A i \in DOMAIN sold : Demand(sold[i]) BY DEF DemandList
<1>4. \A n \in DOMAIN t : Demand(t[n]) BY <1>2, <1>3
<1>5. DemandList(t) BY <1>2, <1>4 DEF DemandList
<1> QED BY <1>5 DEF t

(* What production needs is a demand. *)
LEMMA RequiredDemands ==
  ASSUME NEW l
  PROVE  DemandList(Requirements(l))
<1> DEFINE S == {i \in DOMAIN Production : Production[i].loc = l /\ Production[i].item # Own}
           mine == Where(Production, S)
           need(x) == [ref |-> x.ref, loc |-> l, qty |-> x.qty * QtyPer, prio |-> 3, entered |-> 0,
                       day |-> IF x.start > Today THEN x.start - Today ELSE 0,
                       value |-> x.qty * QtyPer, contract |-> FALSE, near |-> FALSE]
           t == Requirements(l)
<1>0. t = [i \in DOMAIN mine |-> need(mine[i])] BY DEF Requirements
<1>1. S \in SUBSET DOMAIN Production OBVIOUS
<1> HIDE DEF S, t
<1>2. Listed(Production) BY SupplyAssumption DEF Listed
<1>3. Lists(mine, Production, S, Plainly(S)) BY <1>1, <1>2, WhereListing
<1> HIDE DEF mine
<1>4. Listed(mine) /\ \A n \in DOMAIN mine : Plainly(S)[n] \in DOMAIN Production /\ mine[n] = Production[Plainly(S)[n]]
  BY <1>1, <1>3 DEF Lists
<1>5. ASSUME NEW n \in DOMAIN mine PROVE Demand(t[n])
  <2> DEFINE x == mine[n]
             q == x.qty * QtyPer
             day == IF x.start > Today THEN x.start - Today ELSE 0
  <2>1. x.qty \in Nat /\ x.start \in Int BY <1>4, SupplyAssumption
  <2>2. t[n] = need(x) BY <1>0
  <2> HIDE DEF x
  <2>3. QtyPer \in Nat BY SupplyAssumption
  <2>4. q \in Nat
    <3>1. \A a, b \in Nat : a * b \in Nat OBVIOUS
    <3> QED BY <2>1, <2>3, <3>1
  <2>5. day \in Int BY <2>1, DocumentsAssumption
  <2> DEFINE y == need(x)
  <2>6. /\ y.qty = q /\ y.value = q /\ y.day = day /\ y.entered = 0
        /\ y.prio = 3 /\ y.contract = FALSE /\ y.near = FALSE
    OBVIOUS
  <2>7. t[n] = y BY <2>2
  <2> HIDE DEF q, day, y
  <2>8. y.qty \in Nat /\ y.value \in Nat /\ y.day \in Int /\ y.entered \in Int /\ y.prio \in Int
    BY <2>4, <2>5, <2>6
  <2>9. y.contract \in BOOLEAN /\ y.near \in BOOLEAN BY <2>6
  <2>10. Demand(y) BY <2>8, <2>9 DEF Demand
  <2> QED BY <2>7, <2>10
<1>6. Listed(t)
  <2>1. Len(mine) \in Nat /\ DOMAIN mine = 1..Len(mine)
    <3> DEFINE R == Range(mine)
    <3>1. mine \in Seq(R) BY <1>4 DEF Listed
    <3> HIDE DEF R
    <3> QED BY <3>1
  <2> HIDE DEF need
  <2> DEFINE T == {need(mine[i]) : i \in 1..Len(mine)}
  <2>2. t \in [1..Len(mine) -> T] BY <1>0, <2>1
  <2> HIDE DEF T
  <2> QED BY <2>1, <2>2, ListedOfFunction
<1>7. DOMAIN t = DOMAIN mine BY <1>0
<1>8. DemandList(t) BY <1>5, <1>6, <1>7 DEF DemandList
<1> QED BY <1>8 DEF t

(* The claims of a location: those not made by hand are a run's. *)
ClaimList(mine) ==
  /\ Listed(mine)
  /\ \A i \in DOMAIN mine : mine[i] \in Claim /\ (~mine[i].manual => mine[i].type = "ALLOCATED")

(* Claims have quantities. *)
LEMMA ClaimGoods ==
  ASSUME NEW mine, ClaimList(mine)
  PROVE  Goods(mine)
BY DEF ClaimList, Goods, Claim

(* What is claimed of a type is never negative. *)
LEMMA ClaimedNat ==
  ASSUME NEW mine, ClaimList(mine), NEW type
  PROVE  Claimed(mine, type) \in Nat
<1> DEFINE S == {i \in DOMAIN mine : mine[i].type = type}
<1>1. S \in SUBSET DOMAIN mine OBVIOUS
<1>2. Claimed(mine, type) = QtyAt(mine, S) BY DEF Claimed
<1> HIDE DEF S
<1> QED BY <1>1, <1>2, ClaimGoods, QtySum

(* What open transfers claim is never negative. *)
LEMMA ReservedNat ==
  ASSUME NEW t, TablesOk(t), NEW l
  PROVE  ReservedForTransfers(t, l) \in Nat
<1> DEFINE S == {k \in OpenTransfers(t) : t.transfers[k].from = l}
           f == [n \in S |-> OpenQty(t.transfers[n])]
<1>1. IsFiniteSet(S) /\ \A n \in S : t.transfers[n] \in TransferOrder /\ t.transfers[n].qty > t.transfers[n].received
  <2>1. S \in SUBSET TransferNos /\ \A n \in S : t.transfers[n] # Absent /\ t.transfers[n].qty > t.transfers[n].received
    BY DEF OpenTransfers
  <2> HIDE DEF S
  <2> QED BY <2>1, SupplyAssumption, FS_Subset DEF TablesOk
<1>2. ReservedForTransfers(t, l) = SumFunction(f) BY DEF ReservedForTransfers
<1> HIDE DEF S
<1>3. \A n \in S : f[n] \in Nat BY <1>1 DEF TransferOrder, OpenQty
<1>4. DOMAIN f = S OBVIOUS
<1> HIDE DEF f
<1>5. SumFunction(f) = SumOverSet(f, DOMAIN f)
  BY DEF SumFunction, SumFunctionOnSet, FoldFunctionOnSet, SumOverSet, MapThenFoldSet
<1> QED BY <1>1, <1>2, <1>3, <1>4, <1>5, SumNat

(* The inputs of a pair are what the pegging and the position need.         *)
LEMMA InputsTyped ==
  ASSUME NEW t, TablesOk(t), NEW sold, DemandList(sold), NEW mine, ClaimList(mine), NEW l \in Locations
  PROVE  PairOk(PairInputs(t, sold, mine, l))
<1> DEFINE stock == [lot \in Lots |-> t.balance[<<l, lot, "UNRESTRICTED">>]]
           p == PairInputs(t, sold, mine, l)
<1>1. /\ p.lots = stock /\ p.usable = SumFunction(stock) /\ p.inbound = Inbound(t, l)
      /\ p.committed = Claimed(mine, "COMMITTED")
      /\ p.reserved = Claimed(mine, "RESERVED") + ReservedForTransfers(t, l)
      /\ p.orders = Orders(sold, l) /\ p.backorders = Backorders(sold, l) /\ p.required = Requirements(l)
  BY DEF PairInputs
<1> HIDE DEF p
<1>2. stock \in [Lots -> Nat]
  <2>1. \A lot \in Lots : <<l, lot, "UNRESTRICTED">> \in Buckets BY DEF Buckets, States, OnHandStates
  <2> QED BY <2>1 DEF TablesOk
<1> HIDE DEF stock
<1>3. InboundParts(p.inbound) BY <1>1, InboundTyped
<1>4. p.committed \in Nat /\ p.reserved \in Nat
  <2>1. Claimed(mine, "COMMITTED") \in Nat /\ Claimed(mine, "RESERVED") \in Nat BY ClaimedNat
  <2>2. ReservedForTransfers(t, l) \in Nat BY ReservedNat
  <2> QED BY <2>1, <2>2, <1>1
<1>5. DemandList(p.orders)
  <2> DEFINE S == {i \in DOMAIN sold : sold[i].loc = l /\ sold[i].day >= 0}
  <2>1. S \in SUBSET DOMAIN sold OBVIOUS
  <2>2. p.orders = Where(sold, S) BY <1>1 DEF Orders
  <2> HIDE DEF S
  <2> QED BY <2>1, <2>2, DemandsListed
<1>6. DemandList(p.backorders)
  <2> DEFINE S == {i \in DOMAIN sold : sold[i].loc = l /\ sold[i].day < 0}
  <2>1. S \in SUBSET DOMAIN sold OBVIOUS
  <2>2. p.backorders = Where(sold, S) BY <1>1 DEF Backorders
  <2> HIDE DEF S
  <2> QED BY <2>1, <2>2, DemandsListed
<1>7. DemandList(p.required) BY <1>1, RequiredDemands
<1>8. PairOk(p) BY <1>1, <1>2, <1>3, <1>4, <1>5, <1>6, <1>7 DEF PairOk, InboundParts
<1> QED BY <1>8 DEF p

-----------------------------------------------------------------------------
(* Runs replace their own claims *)

(* Numbers in a row are listed as they are.                                 *)
LEMMA FirstOnes ==
  ASSUME NEW n \in Nat
  PROVE  Plainly(1..n) = [k \in 1..n |-> k]
<1> DEFINE S == 1..n
           key == [i \in S |-> <<>>]
<1>1. IsFiniteSet(S) /\ Cardinality(S) = n BY FS_Interval
<1>2. ASSUME NEW i \in S, NEW j \in S PROVE Before(key, j, i) <=> j < i
  <2>1. key[i] = <<>> /\ key[j] = <<>> OBVIOUS
  <2>2. DOMAIN <<>> = {} OBVIOUS
  <2> HIDE DEF key
  <2> QED BY <2>1, <2>2 DEF Before
<1>3. ASSUME NEW i \in S PROVE Cardinality({j \in S : Before(key, j, i)}) = i - 1
  <2>1. {j \in S : Before(key, j, i)} = {j \in S : j < i}
    <3> HIDE DEF key
    <3> QED BY <1>2
  <2>2. {j \in S : j < i} = 1..(i - 1) OBVIOUS
  <2>3. Cardinality(1..(i - 1)) = i - 1
    <3>1. i - 1 \in Nat OBVIOUS
    <3> DEFINE m == i - 1
    <3>2. m \in Nat BY <3>1
    <3> HIDE DEF m
    <3>3. Cardinality(1..m) = m BY <3>2, FS_Interval
    <3> QED BY <3>3 DEF m
  <2> QED BY <2>1, <2>2, <2>3
<1> HIDE DEF key
<1>4. ASSUME NEW k \in 1..n
      PROVE  (CHOOSE i \in S : Cardinality({j \in S : Before(key, j, i)}) = k - 1) = k
  <2>1. \A i \in S : Cardinality({j \in S : Before(key, j, i)}) = k - 1 <=> i = k
    <3>1. \A i \in S : i - 1 = k - 1 <=> i = k OBVIOUS
    <3> QED BY <1>3, <3>1
  <2>2. k \in S OBVIOUS
  <2> HIDE DEF S
  <2> QED BY <2>1, <2>2
<1>5. Plainly(S) = [k \in 1..Cardinality(S) |->
                      CHOOSE i \in S : Cardinality({j \in S : Before(key, j, i)}) = k - 1]
  BY DEF Plainly, InOrder, key
<1>6. Plainly(S) = [k \in 1..n |-> CHOOSE i \in S : Cardinality({j \in S : Before(key, j, i)}) = k - 1]
  BY <1>1, <1>5
<1> QED BY <1>4, <1>6

(* What is selected from the first part of a sequence. *)
LEMMA FirstPart ==
  ASSUME NEW a, Listed(a), NEW t, NEW b, Follows(t, a, b)
  PROVE  Where(t, DOMAIN a) = a
<1> DEFINE n == Len(a)
<1>1. n \in Nat /\ DOMAIN a = 1..n /\ \A i \in 1..n : t[i] = a[i] BY DEF Follows
<1>2. Plainly(1..n) = [k \in 1..n |-> k] BY <1>1, FirstOnes
<1>3. Where(t, 1..n) = [k \in DOMAIN Plainly(1..n) |-> t[Plainly(1..n)[k]]] BY DEF Where, Plainly
<1> HIDE DEF n
<1>4. Where(t, 1..n) = [k \in 1..n |-> t[k]]
  <2> DEFINE order == Plainly(1..n)
  <2>1. DOMAIN order = 1..n /\ \A k \in 1..n : order[k] = k BY <1>2
  <2>2. Where(t, 1..n) = [k \in DOMAIN order |-> t[order[k]]] BY <1>3
  <2> HIDE DEF order
  <2> QED BY <2>1, <2>2
<1>5. a = [k \in 1..n |-> a[k]]
  <2> DEFINE R == Range(a)
  <2>1. a \in Seq(R) BY DEF Listed
  <2> HIDE DEF R
  <2> QED BY <2>1, <1>1
<1>6. [k \in 1..n |-> t[k]] = [k \in 1..n |-> a[k]] BY <1>1
<1> QED BY <1>1, <1>4, <1>5, <1>6

(* A plan takes from lots there are. *)
PlanOk(plan) == Goods(plan) /\ \A i \in DOMAIN plan : plan[i].kind = "ONHAND" => plan[i].lot \in Lots

(* The claims a run makes of its plan. *)
LEMMA PlannedClaims ==
  ASSUME NEW plan, PlanOk(plan)
  PROVE  /\ ClaimList(ClaimsOf(plan))
         /\ \A i \in DOMAIN ClaimsOf(plan) : ~ClaimsOf(plan)[i].manual /\ ClaimsOf(plan)[i].type = "ALLOCATED"
<1> DEFINE S == {i \in DOMAIN plan : plan[i].kind = "ONHAND"}
           held == Where(plan, S)
           t == ClaimsOf(plan)
<1>0. t = [i \in DOMAIN held |-> [lot |-> held[i].lot, qty |-> held[i].qty,
                                  type |-> "ALLOCATED", manual |-> FALSE]]
  BY DEF ClaimsOf
<1>1. S \in SUBSET DOMAIN plan /\ \A i \in S : plan[i].lot \in Lots /\ plan[i].qty \in Nat BY DEF PlanOk, Goods
<1> HIDE DEF S, t
<1>2. Lists(held, plan, S, Plainly(S)) BY <1>1, WhereListing DEF PlanOk, Goods
<1> HIDE DEF held
<1>3. Listed(held) /\ \A n \in DOMAIN held : Plainly(S)[n] \in S /\ held[n] = plan[Plainly(S)[n]] BY <1>2 DEF Lists
<1>4. \A n \in DOMAIN held : held[n].lot \in Lots /\ held[n].qty \in Nat BY <1>1, <1>3
<1>5. \A i \in DOMAIN t : t[i] \in Claim /\ ~t[i].manual /\ t[i].type = "ALLOCATED"
  BY <1>0, <1>4 DEF Claim, ClaimTypes
<1>6. Listed(t)
  <2>1. Len(held) \in Nat /\ DOMAIN held = 1..Len(held)
    <3> DEFINE R == Range(held)
    <3>1. held \in Seq(R) BY <1>3 DEF Listed
    <3> HIDE DEF R
    <3> QED BY <3>1
  <2>2. DOMAIN t = 1..Len(held) BY <1>0, <2>1
  <2>3. t \in [1..Len(held) -> Claim]
    <3>1. t = [i \in 1..Len(held) |-> t[i]] BY <1>0, <2>1
    <3> QED BY <3>1, <2>2, <1>5
  <2> QED BY <2>1, <2>3, ListedOfFunction
<1>7. ClaimList(t) BY <1>5, <1>6 DEF ClaimList
<1> QED BY <1>5, <1>7 DEF t

(* Claims made by hand stay; so does what is committed and reserved.        *)
LEMMA ManualClaims ==
  ASSUME NEW mine, ClaimList(mine)
  PROVE  /\ ClaimList(Manual(mine)) /\ \A i \in DOMAIN Manual(mine) : Manual(mine)[i].manual
         /\ \A type : type # "ALLOCATED" => Claimed(Manual(mine), type) = Claimed(mine, type)
<1> DEFINE S == {i \in DOMAIN mine : mine[i].manual}
           t == Manual(mine)
           order == Plainly(S)
<1>0. t = Where(mine, S) BY DEF Manual
<1>1. S \in SUBSET DOMAIN mine /\ \A i \in DOMAIN mine : i \in S <=> mine[i].manual BY DEF ClaimList, Claim
<1> HIDE DEF S, t
<1>2. Lists(t, mine, S, order) BY <1>0, <1>1, WhereListing DEF ClaimList
<1> HIDE DEF order
<1>3. /\ Listed(t)
      /\ \A n \in DOMAIN t : order[n] \in S /\ order[n] \in DOMAIN mine /\ t[n] = mine[order[n]]
      /\ \A i \in S : \E n \in DOMAIN t : order[n] = i
  BY <1>1, <1>2 DEF Lists
<1>4. \A i \in DOMAIN t : t[i] \in Claim /\ t[i].manual BY <1>1, <1>3 DEF ClaimList
<1>5. ClaimList(t) BY <1>3, <1>4 DEF ClaimList
<1>6. ASSUME NEW type, type # "ALLOCATED" PROVE Claimed(t, type) = Claimed(mine, type)
  <2> DEFINE A == {i \in DOMAIN t : t[i].type = type}
             B == {i \in DOMAIN mine : mine[i].type = type}
  <2>1. A \in SUBSET DOMAIN t OBVIOUS
  <2>2. Images(order, A) = B
    <3>1. \A i \in B : i \in S BY <1>1, <1>6 DEF ClaimList
    <3>2. \A i \in B : \E n \in A : order[n] = i
      <4>1. ASSUME NEW i \in B PROVE \E n \in A : order[n] = i
        <5>1. PICK n \in DOMAIN t : order[n] = i BY <3>1, <1>3
        <5>2. t[n] = mine[i] BY <5>1, <1>3
        <5> QED BY <5>1, <5>2
      <4> QED BY <4>1
    <3>3. \A n \in A : order[n] \in B BY <1>3
    <3> HIDE DEF A, B
    <3> QED BY <3>2, <3>3 DEF Images
  <2>3. Claimed(t, type) = QtyAt(t, A) /\ Claimed(mine, type) = QtyAt(mine, B) BY DEF Claimed
  <2> HIDE DEF A, B
  <2>4. QtyAt(t, A) = QtyAt(mine, Images(order, A)) BY <2>1, <1>2, ClaimGoods, QtyListed
  <2> QED BY <2>2, <2>3, <2>4
<1> QED BY <1>4, <1>5, <1>6 DEF t

Replaced(mine, plan) == Manual(mine) \o ClaimsOf(plan)

(* A run replaces its own claims: those made by hand stay, and so does what *)
(* is committed and reserved.                                               *)
LEMMA RunClaims ==
  ASSUME NEW mine, ClaimList(mine), NEW plan, PlanOk(plan)
  PROVE  /\ ClaimList(Replaced(mine, plan))
         /\ Manual(Replaced(mine, plan)) = Manual(mine)
         /\ \A type : type # "ALLOCATED" => Claimed(Replaced(mine, plan), type) = Claimed(mine, type)
<1> DEFINE a == Manual(mine)
           b == ClaimsOf(plan)
           t == Replaced(mine, plan)
<1>1. /\ ClaimList(a) /\ \A i \in DOMAIN a : a[i].manual
      /\ \A type : type # "ALLOCATED" => Claimed(a, type) = Claimed(mine, type)
  BY ManualClaims
<1>2. ClaimList(b) /\ \A i \in DOMAIN b : ~b[i].manual /\ b[i].type = "ALLOCATED" BY PlannedClaims
<1>3. t = a \o b BY DEF Replaced
<1> HIDE DEF a, b, t
<1>4. Follows(t, a, b) BY <1>1, <1>2, <1>3, Joining DEF ClaimList
<1>5. ASSUME NEW i \in DOMAIN t
      PROVE  \/ i \in DOMAIN a /\ t[i] = a[i]
             \/ i \notin DOMAIN a /\ i - Len(a) \in DOMAIN b /\ t[i] = b[i - Len(a)]
  <2>1. CASE i \in DOMAIN a BY <2>1, <1>4 DEF Follows
  <2>2. CASE i \notin DOMAIN a
    <3> DEFINE k == i - Len(a)
    <3>1. k \in DOMAIN b BY <2>2, <1>4 DEF Follows
    <3>2. k + Len(a) = i BY <1>4 DEF Follows
    <3> HIDE DEF k
    <3>3. t[k + Len(a)] = b[k] BY <3>1, <1>4 DEF Follows
    <3>4. t[i] = b[k] BY <3>2, <3>3
    <3> QED BY <2>2, <3>1, <3>4 DEF k
  <2> QED BY <2>1, <2>2
<1>6. ClaimList(t)
  <2>1. ASSUME NEW i \in DOMAIN t PROVE t[i] \in Claim /\ (~t[i].manual => t[i].type = "ALLOCATED")
    <3>1. CASE i \in DOMAIN a /\ t[i] = a[i] BY <3>1, <1>1 DEF ClaimList
    <3>2. CASE i - Len(a) \in DOMAIN b /\ t[i] = b[i - Len(a)] BY <3>2, <1>2 DEF ClaimList
    <3> QED BY <3>1, <3>2, <1>5
  <2>2. Listed(t) BY <1>4 DEF Follows
  <2> QED BY <2>1, <2>2 DEF ClaimList
<1>7. Manual(t) = a
  <2>1. {i \in DOMAIN t : t[i].manual} = DOMAIN a
    <3>1. \A i \in DOMAIN a : i \in DOMAIN t /\ t[i] = a[i] BY <1>4 DEF Follows
    <3>2. \A i \in DOMAIN a : i \in DOMAIN t /\ t[i].manual BY <3>1, <1>1
    <3>3. ASSUME NEW i \in DOMAIN t, t[i].manual PROVE i \in DOMAIN a
      <4>1. CASE i - Len(a) \in DOMAIN b /\ t[i] = b[i - Len(a)] BY <4>1, <3>3, <1>2
      <4> QED BY <4>1, <1>5
    <3> QED BY <3>2, <3>3
  <2>2. Where(t, DOMAIN a) = a BY <1>1, <1>4, FirstPart DEF ClaimList
  <2> QED BY <2>1, <2>2 DEF Manual
<1>8. ASSUME NEW type, type # "ALLOCATED" PROVE Claimed(t, type) = Claimed(mine, type)
  <2> DEFINE S == {i \in DOMAIN t : t[i].type = type}
             P == {i \in DOMAIN a : a[i].type = type}
             Q == {i \in DOMAIN b : i + Len(a) \in S}
  <2>1. S \in SUBSET DOMAIN t OBVIOUS
  <2>2. S \cap DOMAIN a = P
    <3>1. \A i \in DOMAIN a : i \in DOMAIN t /\ t[i] = a[i] BY <1>4 DEF Follows
    <3> QED BY <3>1
  <2>3. Q = {}
    <3>1. \A i \in DOMAIN b : t[i + Len(a)] = b[i] BY <1>4 DEF Follows
    <3> QED BY <3>1, <1>2, <1>8
  <2>4. Claimed(t, type) = QtyAt(t, S) /\ Claimed(a, type) = QtyAt(a, P) BY DEF Claimed
  <2>5. QtyAt(t, S) = QtyAt(a, S \cap DOMAIN a) + QtyAt(b, Q)
    <3>1. Goods(a) /\ Goods(b) BY <1>1, <1>2, ClaimGoods
    <3> HIDE DEF S
    <3> QED BY <2>1, <3>1, <1>3, QtyJoined
  <2>6. QtyAt(b, Q) = 0 BY <2>3, QtyNothing
  <2>7. Claimed(a, type) \in Nat BY <1>1, ClaimedNat
  <2> HIDE DEF S, P, Q
  <2> QED BY <2>2, <2>4, <2>5, <2>6, <2>7, <1>1, <1>8
<1> QED BY <1>6, <1>7, <1>8 DEF a, t

(* What earlier runs claimed is not looked at. *)
SamePair(p, q) ==
  /\ p.lots = q.lots /\ p.quality = q.quality /\ p.inbound = q.inbound
  /\ p.committed = q.committed /\ p.reserved = q.reserved
  /\ p.orders = q.orders /\ p.backorders = q.backorders /\ p.required = q.required

(* Inputs that differ in what earlier runs claimed are pegged alike. *)
LEMMA SamePegs ==
  ASSUME NEW p, NEW q, SamePair(p, q)
  PROVE  PegPair(p) = PegPair(q)
<1>1. Eligible(p) = Eligible(q) BY DEF SamePair, Eligible
<1>2. LotsInOrder(p) = LotsInOrder(q) BY <1>1 DEF SamePair, LotsInOrder
<1>3. OnHandSupplies(p) = OnHandSupplies(q) BY <1>2 DEF SamePair, OnHandSupplies, OnHandBut
<1>4. InboundSupplies(p) = InboundSupplies(q) BY DEF SamePair, InboundSupplies
<1>5. Supplies(p) = Supplies(q) BY <1>3, <1>4 DEF Supplies
<1>6. Demands(p) = Demands(q) BY DEF SamePair, Demands
<1>7. Ranked(p) = Ranked(q) BY <1>6 DEF Ranked
<1> QED BY <1>5, <1>7 DEF PegPair

-----------------------------------------------------------------------------
(* The state the sessions share and what each of them holds *)

WorkOk(x) ==
  /\ x = [pc |-> x.pc, fresh |-> x.fresh, plan |-> x.plan, loc |-> x.loc, claim |-> x.claim]
  /\ x.pc = "asked" => x.loc \in Locations /\ x.claim \in Claim /\ x.claim.manual
  /\ x.pc = "pegging" => x.plan = [l \in Locations |-> x.plan[l]] /\ \A l \in Locations : PlanOk(x.plan[l])

StateOk ==
  /\ DOMAIN docs = DOMAIN NoDocuments
  /\ TablesOk(Tables)
  /\ scope \in DOMAIN Scopes
  /\ DemandList(sales)
  /\ claims = [l \in Locations |-> claims[l]] /\ \A l \in Locations : ClaimList(claims[l])
  /\ work = [w \in Sessions |-> work[w]] /\ \A w \in Sessions : WorkOk(work[w])

(* What was written from current data, and what was read and is not out of  *)
(* date, is what a session would read now.                                  *)
Current(x) ==
  /\ x.fresh /\ x.pc = "pegging" => x.plan = PegAll
  /\ x.fresh /\ x.pc = "asked" => x.claim.qty <= Grantable(x.loc, x.claim.lot)

UpToDate ==
  /\ last = "pegged" => pegs = PegAll /\ claims = [l \in Locations |-> Replaced(claims[l], pegs[l])]
  /\ \A w \in Sessions : Current(work[w])

AllocInv == StateOk /\ UpToDate

(* The tables that are not the ledger's. *)
LEMMA DocumentNames == DOMAIN NoDocuments = TableNames \ {"balance", "txns", "quality"}
BY DEF NoDocuments, TableNames

(* What a handler stores are typed tables. *)
LEMMA TablesKept ==
  ASSUME NEW t, TablesOk(t), DOMAIN docs = DOMAIN NoDocuments, Store(t)
  PROVE  TablesOk(Tables)' /\ DOMAIN docs' = DOMAIN NoDocuments
<1>1. DOMAIN docs' = DOMAIN NoDocuments /\ \A f \in DOMAIN NoDocuments : docs'[f] = t[f] BY DEF Store
<1>2. DOMAIN Tables' = TableNames BY <1>1, DocumentNames DEF Tables, TableNames
<1>3. Tables'.balance = t.balance /\ Tables'.po = t.po /\ Tables'.transfers = t.transfers
  <2>1. balance' = t.balance BY DEF Store
  <2>2. docs'["po"] = t.po /\ docs'["transfers"] = t.transfers BY <1>1, DocumentNames DEF TableNames
  <2> QED BY <1>1, <2>1, <2>2, DocumentNames DEF Tables, TableNames
<1> QED BY <1>1, <1>2, <1>3 DEF TablesOk

(* A session that has read nothing. *)
LEMMA IdleOk == WorkOk(Idle) /\ ~Idle.fresh /\ Idle.pc = "idle"
BY DEF WorkOk, Idle

(* The invariant holds at the start. *)
LEMMA AllocInvInit == AllocInit => AllocInv
<1> SUFFICES ASSUME AllocInit PROVE AllocInv OBVIOUS
<1> DEFINE t == After(NoTables, Scopes[scope].past)
<1>1. scope \in DOMAIN Scopes /\ claims = [l \in Locations |-> <<>>] /\ sales = <<>>
      /\ work = [w \in Sessions |-> Idle] /\ last = "other"
      /\ balance = t.balance /\ docs = [f \in DOMAIN NoDocuments |-> t[f]]
  BY DEF AllocInit
<1>2. TablesOk(t)
  <2>1. Listed(Scopes[scope].past) /\ \A m \in Range(Scopes[scope].past) : Message(m)
    BY <1>1, ScopesAssumption DEF Listed
  <2> QED BY <2>1, NoTablesOk, AfterOk
<1> HIDE DEF t
<1>3. DOMAIN docs = DOMAIN NoDocuments /\ docs["po"] = t.po /\ docs["transfers"] = t.transfers
  BY <1>1, DocumentNames DEF TableNames
<1>4. TablesOk(Tables)
  <2>1. DOMAIN Tables = TableNames BY <1>3, DocumentNames DEF Tables, TableNames
  <2>2. Tables.balance = t.balance /\ Tables.po = t.po /\ Tables.transfers = t.transfers
    BY <1>1, <1>3, DocumentNames DEF Tables, TableNames
  <2> QED BY <1>2, <2>1, <2>2 DEF TablesOk
<1>5. DemandList(sales) /\ \A l \in Locations : ClaimList(claims[l])
  <2>1. <<>> \in Seq({}) /\ DOMAIN <<>> = {} OBVIOUS
  <2> DEFINE s == <<>>
  <2>2. Listed(s) /\ DOMAIN s = {} BY <2>1, ListedOfSeq
  <2>3. sales = s /\ \A l \in Locations : claims[l] = s BY <1>1
  <2> HIDE DEF s
  <2>4. DemandList(s) /\ ClaimList(s) BY <2>2 DEF DemandList, ClaimList
  <2> QED BY <2>3, <2>4
<1>6. StateOk
  <2>1. claims = [l \in Locations |-> claims[l]] /\ work = [w \in Sessions |-> work[w]] BY <1>1
  <2>2. \A w \in Sessions : WorkOk(work[w]) BY <1>1, IdleOk
  <2> QED BY <1>1, <1>3, <1>4, <1>5, <2>1, <2>2 DEF StateOk
<1>7. UpToDate
  <2>1. \A w \in Sessions : ~work[w].fresh BY <1>1, IdleOk
  <2> QED BY <2>1, <1>1 DEF UpToDate, Current
<1> QED BY <1>6, <1>7 DEF AllocInv

(* What the sessions read depends on nothing else. *)
LEMMA ReadingStays ==
  ASSUME UNCHANGED <<balance, txns, quality, docs, sales, claims, policy>>
  PROVE  /\ PegAll' = PegAll
         /\ \A l, lot : Grantable(l, lot)' = Grantable(l, lot)
         /\ Tables' = Tables
<1>1. ASSUME NEW l PROVE Inputs(l)' = Inputs(l) BY DEF Inputs, Tables
<1>2. ASSUME NEW l PROVE PegPair(Inputs(l))' = PegPair(Inputs(l))
  BY <1>1 DEF PegPair, Ranked, Supplies, OnHandSupplies, OnHandBut, LotsInOrder, Eligible, Fefo
<1>3. PegAll' = PegAll BY <1>2 DEF PegAll
<1>4. \A l, lot : Grantable(l, lot)' = Grantable(l, lot) BY <1>1 DEF Grantable, LotQty, LotClaims
<1>5. Tables' = Tables BY DEF Tables
<1> QED BY <1>3, <1>4, <1>5

(* Once another session has committed, nothing that was read is current.    *)
LEMMA OutdatedOk ==
  ASSUME StateOk
  PROVE  /\ Outdated = [w \in Sessions |-> Outdated[w]]
         /\ \A w \in Sessions : WorkOk(Outdated[w]) /\ ~Outdated[w].fresh
<1>1. Outdated = [w \in Sessions |-> [work[w] EXCEPT !.fresh = FALSE]]
  BY DEF Outdated
<1>2. ASSUME NEW w \in Sessions PROVE WorkOk(Outdated[w]) /\ ~Outdated[w].fresh
  <2> DEFINE x == work[w]
             y == Outdated[w]
  <2>0. y = [x EXCEPT !.fresh = FALSE] BY <1>1
  <2>1. WorkOk(x) BY DEF StateOk
  <2> HIDE DEF x
  <2>2. y = [pc |-> x.pc, fresh |-> FALSE, plan |-> x.plan, loc |-> x.loc, claim |-> x.claim] BY <2>0, <2>1 DEF WorkOk
  <2> HIDE DEF y
  <2>3. WorkOk(y) /\ ~y.fresh BY <2>1, <2>2 DEF WorkOk
  <2> QED BY <2>3 DEF x, y
<1> QED BY <1>1, <1>2

(* The inputs of every pair are typed. *)
LEMMA PairsOk ==
  ASSUME StateOk, NEW l \in Locations
  PROVE  PairOk(Inputs(l))
<1>1. TablesOk(Tables) /\ DemandList(sales) /\ ClaimList(claims[l]) BY DEF StateOk
<1> QED BY <1>1, InputsTyped DEF Inputs

(* What a run is about to write. *)
LEMMA PlansOk ==
  ASSUME StateOk
  PROVE  PegAll = [l \in Locations |-> PegAll[l]] /\ \A l \in Locations : PlanOk(PegAll[l])
<1>1. ASSUME NEW l \in Locations PROVE PlanOk(PegPair(Inputs(l)))
  <2> DEFINE p == Inputs(l)
             mine == PegPair(p)
  <2>1. PairOk(p) BY PairsOk
  <2> HIDE DEF p
  <2>2. PairPegs(p, mine) BY <2>1, PairPegged
  <2> HIDE DEF mine
  <2>3. Goods(mine) /\ \A i \in DOMAIN mine : mine[i].kind = "ONHAND" => mine[i].lot \in Eligible(p)
    BY <2>2 DEF PairPegs
  <2>4. Eligible(p) \subseteq Lots BY DEF Eligible
  <2>5. PlanOk(mine) BY <2>3, <2>4 DEF PlanOk
  <2> QED BY <2>5 DEF mine, p
<1>2. PegAll = [l \in Locations |-> PegPair(Inputs(l))] BY DEF PegAll
<1> QED BY <1>1, <1>2

(* What one session holds is set. *)
LEMMA WorkSet ==
  ASSUME StateOk, NEW w \in Sessions, NEW x, WorkOk(x),
         NEW rest, rest = [v \in Sessions |-> rest[v]], \A v \in Sessions : WorkOk(rest[v]),
         work' = [rest EXCEPT ![w] = x]
  PROVE  /\ work' = [v \in Sessions |-> work'[v]] /\ \A v \in Sessions : WorkOk(work'[v])
         /\ work'[w] = x /\ \A v \in Sessions \ {w} : work'[v] = rest[v]
<1>1. work' = [v \in Sessions |-> work'[v]] OBVIOUS
<1>2. work'[w] = x /\ \A v \in Sessions \ {w} : work'[v] = rest[v] OBVIOUS
<1>3. \A v \in Sessions : WorkOk(work'[v]) BY <1>2
<1> QED BY <1>1, <1>2, <1>3

(* An event. *)
LEMMA HappenKeeps ==
  ASSUME AllocInv, NEW m \in Scopes[scope].msgs, Happen(m)
  PROVE  AllocInv'
<1> DEFINE t == Handle(Tables, m, GeneratedId)
<1>0. StateOk BY DEF AllocInv
<1>1. Message(m) BY <1>0, ScopesAssumption DEF StateOk
<1>2. /\ t # Refused /\ Store(t) /\ work' = Outdated /\ last' = "other"
      /\ UNCHANGED <<claims, sales, scope>>
  BY DEF Happen
<1>3. TablesOk(t) BY <1>0, <1>1, <1>2, HandleKeeps DEF StateOk
<1> HIDE DEF t
<1>4. TablesOk(Tables)' /\ DOMAIN docs' = DOMAIN NoDocuments BY <1>0, <1>2, <1>3, TablesKept DEF StateOk
<1>5. work' = [w \in Sessions |-> work'[w]] /\ \A w \in Sessions : WorkOk(work'[w]) /\ ~work'[w].fresh
  BY <1>0, <1>2, OutdatedOk
<1>6. StateOk' BY <1>0, <1>2, <1>4, <1>5 DEF StateOk
<1>7. UpToDate' BY <1>2, <1>5 DEF UpToDate, Current
<1> QED BY <1>6, <1>7 DEF AllocInv

(* A row of sales orders. *)
LEMMA SellKeeps ==
  ASSUME AllocInv, Sell
  PROVE  AllocInv'
<1> DEFINE x == Scopes[scope].sales[Len(sales) + 1]
<1>0. StateOk BY DEF AllocInv
<1>1. /\ Len(sales) < Len(Scopes[scope].sales) /\ sales' = Append(sales, x)
      /\ work' = Outdated /\ last' = "other"
      /\ UNCHANGED <<balance, txns, quality, docs, claims, scope>>
  BY DEF Sell
<1>2. Demand(x)
  <2> DEFINE all == Scopes[scope].sales
             R == Range(all)
             n == Len(sales) + 1
  <2>1. all \in Seq(R) /\ \A d \in R : Demand(d) BY <1>0, ScopesAssumption DEF StateOk
  <2>2. Len(sales) \in Nat
    <3>1. Listed(sales) BY <1>0 DEF StateOk, DemandList
    <3> QED BY <3>1, Appended
  <2>3. Len(sales) < Len(all) BY <1>1
  <2> HIDE DEF R, all
  <2>4. Len(all) \in Nat BY <2>1
  <2>5. n \in 1..Len(all) BY <2>2, <2>3, <2>4
  <2> HIDE DEF n
  <2>6. all[n] \in R BY <2>1, <2>5
  <2>7. Demand(all[n]) BY <2>1, <2>6
  <2> QED BY <2>7 DEF all, n
<1> HIDE DEF x
<1>3. DemandList(sales')
  <2> DEFINE s == sales
             u == Append(s, x)
             n == Len(s)
  <2>1. DemandList(s) BY <1>0 DEF StateOk
  <2> HIDE DEF s
  <2>2. /\ Listed(u) /\ n \in Nat /\ DOMAIN s = 1..n /\ DOMAIN u = 1..n + 1
        /\ u[n + 1] = x /\ \A i \in 1..n : u[i] = s[i]
    BY <2>1, Appended DEF DemandList
  <2> HIDE DEF u, n
  <2>3. ASSUME NEW i \in DOMAIN u PROVE Demand(u[i])
    <3>1. CASE i \in 1..n BY <3>1, <2>1, <2>2 DEF DemandList
    <3>2. CASE i = n + 1 BY <3>2, <1>2, <2>2
    <3> QED BY <3>1, <3>2, <2>2
  <2>4. DemandList(u) BY <2>2, <2>3 DEF DemandList
  <2> QED BY <2>4, <1>1 DEF u, s
<1>4. Tables' = Tables BY <1>1 DEF Tables
<1>5. work' = [w \in Sessions |-> work'[w]] /\ \A w \in Sessions : WorkOk(work'[w]) /\ ~work'[w].fresh
  BY <1>0, <1>1, OutdatedOk
<1>6. StateOk' BY <1>0, <1>1, <1>3, <1>4, <1>5 DEF StateOk
<1>7. UpToDate' BY <1>1, <1>5 DEF UpToDate, Current
<1> QED BY <1>6, <1>7 DEF AllocInv

(* What a session holds is as current as before when nothing it reads        *)
(* changed.                                                                 *)
LEMMA CurrentStays ==
  ASSUME NEW v, Current(work'[v]), UNCHANGED <<balance, txns, quality, docs, sales, claims, policy>>
  PROVE  Current(work[v])'
<1>0. PegAll' = PegAll /\ \A l, lot : Grantable(l, lot)' = Grantable(l, lot) BY ReadingStays
<1> DEFINE y == work'[v]
<1>2. (y.fresh /\ y.pc = "pegging" => y.plan = PegAll)
      /\ (y.fresh /\ y.pc = "asked" => y.claim.qty <= Grantable(y.loc, y.claim.lot))
  BY DEF Current
<1>3. Grantable(y.loc, y.claim.lot) = Grantable(work[v].loc, work[v].claim.lot)'
  <2>1. \A l, lot : Grantable(l, lot) = Grantable(l, lot)' BY <1>0
  <2>2. y.loc = work[v].loc' /\ y.claim.lot = work[v].claim.lot' OBVIOUS
  <2> QED BY <2>1 DEF Grantable, LotQty, LotClaims, Inputs, Tables
<1> QED BY <1>2, <1>3, <1>0 DEF Current

(* A session reads. *)
LEMMA ReadKeeps ==
  ASSUME AllocInv, NEW w \in Sessions, NEW x, WorkOk(x), Current(x), work' = [work EXCEPT ![w] = x],
         UNCHANGED <<balance, txns, quality, docs, sales, claims, policy, pegs, last, scope>>
  PROVE  AllocInv'
<1>0. StateOk /\ UpToDate BY DEF AllocInv
<1>1. /\ work' = [v \in Sessions |-> work'[v]] /\ \A v \in Sessions : WorkOk(work'[v])
      /\ work'[w] = x /\ \A v \in Sessions \ {w} : work'[v] = work[v]
  <2>1. work = [v \in Sessions |-> work[v]] /\ \A v \in Sessions : WorkOk(work[v]) BY <1>0 DEF StateOk
  <2> QED BY <1>0, <2>1, WorkSet
<1>2. /\ PegAll' = PegAll /\ (\A l, lot : Grantable(l, lot)' = Grantable(l, lot)) /\ Tables' = Tables
  BY ReadingStays
<1>3. StateOk' BY <1>0, <1>1, <1>2 DEF StateOk
<1>4. ASSUME NEW v \in Sessions PROVE Current(work[v])'
  <2>1. Current(work'[v])
    <3>1. CASE v = w BY <3>1, <1>1
    <3>2. CASE v # w BY <3>2, <1>0, <1>1 DEF UpToDate
    <3> QED BY <3>1, <3>2
  <2> QED BY <2>1, CurrentStays
<1>5. UpToDate'
  <2>1. last' = "pegged" => pegs' = PegAll' /\ claims' = [l \in Locations |-> Replaced(claims'[l], pegs'[l])]
    BY <1>0, <1>2 DEF UpToDate
  <2> QED BY <2>1, <1>4 DEF UpToDate
<1> QED BY <1>3, <1>5 DEF AllocInv

WorkFields == {"pc", "fresh", "plan", "loc", "claim"}
(* A function on the fields of a session's work is a record. *)
LEMMA AsRecord == ASSUME NEW x, x = [f \in WorkFields |-> x[f]]
  PROVE x = [pc |-> x.pc, fresh |-> x.fresh, plan |-> x.plan, loc |-> x.loc, claim |-> x.claim]
BY DEF WorkFields
(* What a session holds when it has asked for a claim, *)
LEMMA Asked == ASSUME NEW l, NEW c
 PROVE LET x == [Idle EXCEPT !.pc = "asked", !.fresh = TRUE, !.loc = l, !.claim = c]
       IN  x = [pc |-> "asked", fresh |-> TRUE, plan |-> x.plan, loc |-> l, claim |-> c]
<1> DEFINE b == Idle
           x == [b EXCEPT !.pc = "asked", !.fresh = TRUE, !.loc = l, !.claim = c]
<1>1. DOMAIN b = WorkFields BY IdleOk DEF WorkOk, WorkFields
<1> HIDE DEF b
<1>2. x = [f \in DOMAIN b |-> x[f]] BY Zenon
<1>3. x.pc = "asked" /\ x.fresh = TRUE /\ x.loc = l /\ x.claim = c BY <1>1 DEF WorkFields
<1> HIDE DEF x
<1>4. x = [pc |-> x.pc, fresh |-> x.fresh, plan |-> x.plan, loc |-> x.loc, claim |-> x.claim] BY <1>1, <1>2, AsRecord
<1>5. x = [pc |-> "asked", fresh |-> TRUE, plan |-> x.plan, loc |-> l, claim |-> c] BY <1>3, <1>4
<1> QED BY <1>5 DEF x, b
(* and when it has made a plan. *)
LEMMA PegRan == ASSUME NEW plan
 PROVE LET x == [Idle EXCEPT !.pc = "pegging", !.fresh = TRUE, !.plan = plan]
       IN  x = [pc |-> "pegging", fresh |-> TRUE, plan |-> plan, loc |-> x.loc, claim |-> x.claim]
<1> DEFINE b == Idle
           x == [b EXCEPT !.pc = "pegging", !.fresh = TRUE, !.plan = plan]
<1>1. DOMAIN b = WorkFields BY IdleOk DEF WorkOk, WorkFields
<1> HIDE DEF b
<1>2. x = [f \in DOMAIN b |-> x[f]] BY Zenon
<1>3. x.pc = "pegging" /\ x.fresh = TRUE /\ x.plan = plan BY <1>1 DEF WorkFields
<1> HIDE DEF x
<1>4. x = [pc |-> x.pc, fresh |-> x.fresh, plan |-> x.plan, loc |-> x.loc, claim |-> x.claim] BY <1>1, <1>2, AsRecord
<1>5. x = [pc |-> "pegging", fresh |-> TRUE, plan |-> plan, loc |-> x.loc, claim |-> x.claim] BY <1>3, <1>4
<1> QED BY <1>5 DEF x, b

(* commit_allocation() reads. *)
LEMMA AskKeeps ==
  ASSUME AllocInv, NEW w \in Scopes[scope].sessions, NEW l \in Locations, NEW c \in Scopes[scope].asks[l],
         Ask(w, l, c)
  PROVE  AllocInv'
<1> DEFINE x == [Idle EXCEPT !.pc = "asked", !.fresh = TRUE, !.loc = l, !.claim = c]
<1>1. w \in Sessions /\ c \in Claim /\ c.manual BY ScopesAssumption DEF AllocInv, StateOk
<1>2. /\ c.qty <= Grantable(l, c.lot) /\ work' = [work EXCEPT ![w] = x]
      /\ UNCHANGED <<balance, txns, quality, docs, sales, claims, policy, pegs, last, scope>>
  BY DEF Ask
<1>3. x = [pc |-> "asked", fresh |-> TRUE, plan |-> x.plan, loc |-> l, claim |-> c] BY Asked
<1> HIDE DEF x
<1>4. WorkOk(x) BY <1>1, <1>3 DEF WorkOk
<1>5. Current(x) BY <1>2, <1>3 DEF Current
<1> QED BY <1>1, <1>2, <1>4, <1>5, ReadKeeps

(* run_pegging_all() reads. *)
LEMMA PegReadKeeps ==
  ASSUME AllocInv, NEW w \in Scopes[scope].sessions, PegRead(w)
  PROVE  AllocInv'
<1> DEFINE x == [Idle EXCEPT !.pc = "pegging", !.fresh = TRUE, !.plan = PegAll]
<1>1. w \in Sessions BY ScopesAssumption DEF AllocInv, StateOk
<1>2. /\ work' = [work EXCEPT ![w] = x]
      /\ UNCHANGED <<balance, txns, quality, docs, sales, claims, policy, pegs, last, scope>>
  BY DEF PegRead
<1>3. x = [pc |-> "pegging", fresh |-> TRUE, plan |-> PegAll, loc |-> x.loc, claim |-> x.claim]
  <2> DEFINE plan == PegAll
  <2> HIDE DEF plan
  <2>1. LET y == [Idle EXCEPT !.pc = "pegging", !.fresh = TRUE, !.plan = plan]
        IN  y = [pc |-> "pegging", fresh |-> TRUE, plan |-> plan, loc |-> y.loc, claim |-> y.claim]
    BY PegRan
  <2> QED BY <2>1 DEF plan
<1> HIDE DEF x
<1>4. WorkOk(x)
  <2>1. PegAll = [l \in Locations |-> PegAll[l]] /\ \A l \in Locations : PlanOk(PegAll[l])
    BY PlansOk DEF AllocInv
  <2> QED BY <1>3, <2>1 DEF WorkOk
<1>5. Current(x) BY <1>3 DEF Current
<1> QED BY <1>1, <1>2, <1>4, <1>5, ReadKeeps

(* Claims change and what the other sessions read is out of date. *)
LEMMA ClaimsKeep ==
  ASSUME StateOk, UNCHANGED <<balance, txns, quality, docs, sales, scope>>,
         claims' = [l \in Locations |-> claims'[l]], \A l \in Locations : ClaimList(claims'[l]),
         work' = Outdated \/ \E w \in Sessions : work' = [Outdated EXCEPT ![w] = Idle]
  PROVE  StateOk' /\ \A w \in Sessions : ~work'[w].fresh
<1>1. /\ Outdated = [w \in Sessions |-> Outdated[w]]
      /\ \A w \in Sessions : WorkOk(Outdated[w]) /\ ~Outdated[w].fresh
  BY OutdatedOk
<1>2. work' = [v \in Sessions |-> work'[v]] /\ \A v \in Sessions : WorkOk(work'[v]) /\ ~work'[v].fresh
  <2>1. CASE work' = Outdated BY <2>1, <1>1
  <2>2. ASSUME NEW w \in Sessions, work' = [Outdated EXCEPT ![w] = Idle]
        PROVE  work' = [v \in Sessions |-> work'[v]] /\ \A v \in Sessions : WorkOk(work'[v]) /\ ~work'[v].fresh
    <3> DEFINE x == Idle
               rest == Outdated
    <3>1. WorkOk(x) /\ ~x.fresh BY IdleOk
    <3>2. work' = [rest EXCEPT ![w] = x] BY <2>2
    <3>3. rest = [v \in Sessions |-> rest[v]] /\ \A v \in Sessions : WorkOk(rest[v]) /\ ~rest[v].fresh BY <1>1
    <3> HIDE DEF x, rest
    <3>4. /\ work' = [v \in Sessions |-> work'[v]] /\ \A v \in Sessions : WorkOk(work'[v])
          /\ work'[w] = x /\ \A v \in Sessions \ {w} : work'[v] = rest[v]
      BY <3>1, <3>2, <3>3, WorkSet
    <3>5. \A v \in Sessions : ~work'[v].fresh BY <3>1, <3>3, <3>4
    <3> QED BY <3>4, <3>5
  <2> QED BY <2>1, <2>2
<1>3. Tables' = Tables BY DEF Tables
<1> QED BY <1>2, <1>3 DEF StateOk

Claims == {c \in Claim : ~c.manual => c.type = "ALLOCATED"}

(* Lists of claims are sequences. *)
LEMMA ClaimSeqs ==
  ASSUME NEW s
  PROVE  ClaimList(s) <=> s \in Seq(Claims)
<1>1. ASSUME ClaimList(s) PROVE s \in Seq(Claims)
  <2> DEFINE R == Range(s)
  <2>1. s \in Seq(R) BY <1>1 DEF ClaimList, Listed
  <2> HIDE DEF R
  <2>2. Len(s) \in Nat /\ DOMAIN s = 1..Len(s) /\ s = [i \in 1..Len(s) |-> s[i]] BY <2>1
  <2>3. \A i \in 1..Len(s) : s[i] \in Claims BY <2>2, <1>1 DEF ClaimList, Claims
  <2>4. s \in [1..Len(s) -> Claims] BY <2>2, <2>3
  <2> QED BY <2>2, <2>4
<1>2. ASSUME s \in Seq(Claims) PROVE ClaimList(s)
  <2> DEFINE C == Claims
  <2>1. s \in Seq(C) /\ \A c \in C : c \in Claim /\ (~c.manual => c.type = "ALLOCATED") BY <1>2 DEF Claims
  <2> HIDE DEF C
  <2>2. \A i \in DOMAIN s : s[i] \in C BY <2>1
  <2>3. Listed(s) BY <2>1, ListedOfSeq
  <2> QED BY <2>1, <2>2, <2>3 DEF ClaimList
<1> QED BY <1>1, <1>2

(* commit_allocation() writes. *)
LEMMA GrantKeeps ==
  ASSUME AllocInv, NEW w \in Scopes[scope].sessions, Grant(w)
  PROVE  AllocInv'
<1> DEFINE l == work[w].loc
           c == work[w].claim
<1>0. StateOk BY DEF AllocInv
<1>1. w \in Sessions BY <1>0, ScopesAssumption DEF StateOk
<1>2. /\ work[w].pc = "asked" /\ claims' = [claims EXCEPT ![l] = Append(@, c)]
      /\ work' = [Outdated EXCEPT ![w] = Idle] /\ last' = "other"
      /\ UNCHANGED <<balance, txns, quality, docs, sales, scope>>
  BY DEF Grant
<1>3. l \in Locations /\ c \in Claims BY <1>0, <1>1, <1>2 DEF StateOk, WorkOk, Claims
<1> HIDE DEF l, c
<1>4. claims = [k \in Locations |-> claims[k]] /\ \A k \in Locations : claims[k] \in Seq(Claims)
  BY <1>0, ClaimSeqs DEF StateOk
<1>5. Append(claims[l], c) \in Seq(Claims)
  <2> DEFINE C == Claims
             s == claims[l]
  <2>1. s \in Seq(C) /\ c \in C BY <1>3, <1>4
  <2> HIDE DEF C, s
  <2>2. Append(s, c) \in Seq(C) BY <2>1
  <2> QED BY <2>2 DEF C, s
<1>6. claims' = [k \in Locations |-> claims'[k]] /\ \A k \in Locations : claims'[k] \in Seq(Claims)
  BY <1>2, <1>3, <1>4, <1>5
<1>7. StateOk' /\ \A v \in Sessions : ~work'[v].fresh
  <2>1. \A k \in Locations : ClaimList(claims'[k]) BY <1>6, ClaimSeqs
  <2> QED BY <2>1, <1>0, <1>1, <1>2, <1>6, ClaimsKeep
<1>8. UpToDate' BY <1>2, <1>7 DEF UpToDate, Current
<1> QED BY <1>7, <1>8 DEF AllocInv

(* A claim is released. *)
LEMMA ReleaseKeeps ==
  ASSUME AllocInv, NEW l \in Locations, NEW i \in DOMAIN claims[l], Release(l, i)
  PROVE  AllocInv'
<1>0. StateOk BY DEF AllocInv
<1>2. /\ claims' = [claims EXCEPT ![l] = RemoveAt(@, i)]
      /\ work' = Outdated /\ last' = "other"
      /\ UNCHANGED <<balance, txns, quality, docs, sales, scope>>
  BY DEF Release
<1>4. claims = [k \in Locations |-> claims[k]] /\ \A k \in Locations : claims[k] \in Seq(Claims)
  BY <1>0, ClaimSeqs DEF StateOk
<1>5. RemoveAt(claims[l], i) \in Seq(Claims)
  <2> DEFINE C == Claims
             s == claims[l]
  <2>1. s \in Seq(C) /\ i \in DOMAIN s BY <1>4
  <2> HIDE DEF C, s
  <2>2. i \in 1..Len(s) /\ Len(s) \in Nat BY <2>1
  <2>3. SubSeq(s, 1, i - 1) \in Seq(C) /\ SubSeq(s, i + 1, Len(s)) \in Seq(C) BY <2>1, <2>2
  <2>4. RemoveAt(s, i) \in Seq(C) BY <2>3 DEF RemoveAt
  <2> QED BY <2>4 DEF C, s
<1>6. claims' = [k \in Locations |-> claims'[k]] /\ \A k \in Locations : claims'[k] \in Seq(Claims)
  BY <1>2, <1>4, <1>5
<1>7. StateOk' /\ \A v \in Sessions : ~work'[v].fresh
  <2>1. \A k \in Locations : ClaimList(claims'[k]) BY <1>6, ClaimSeqs
  <2> QED BY <2>1, <1>0, <1>2, <1>6, ClaimsKeep
<1>8. UpToDate' BY <1>2, <1>7 DEF UpToDate, Current
<1> QED BY <1>7, <1>8 DEF AllocInv

(* A run writes claims that change nothing the next run reads.              *)
LEMMA RunReadsTheSame ==
  ASSUME StateOk, NEW plan, \A l \in Locations : PlanOk(plan[l]),
         claims' = [l \in Locations |-> Replaced(claims[l], plan[l])],
         UNCHANGED <<balance, txns, quality, docs, sales, policy>>
  PROVE  /\ \A l \in Locations : ClaimList(claims'[l]) /\ Manual(claims'[l]) = Manual(claims[l])
         /\ PegAll' = PegAll
<1>1. ASSUME NEW l \in Locations
      PROVE  /\ ClaimList(claims'[l]) /\ Manual(claims'[l]) = Manual(claims[l])
             /\ \A type : type # "ALLOCATED" => Claimed(claims'[l], type) = Claimed(claims[l], type)
  <2>1. claims'[l] = Replaced(claims[l], plan[l]) OBVIOUS
  <2>2. ClaimList(claims[l]) BY DEF StateOk
  <2> QED BY <2>1, <2>2, RunClaims
<1>2. Tables' = Tables BY DEF Tables
<1>3. ASSUME NEW l \in Locations PROVE PegPair(Inputs(l))' = PegPair(Inputs(l))
  <2> DEFINE t == Tables
             p == PairInputs(t, sales, claims[l], l)
             q == PairInputs(t, sales, claims'[l], l)
  <2>1. Inputs(l) = p /\ Inputs(l)' = q BY <1>2 DEF Inputs
  <2>2. Claimed(claims'[l], "COMMITTED") = Claimed(claims[l], "COMMITTED")
        /\ Claimed(claims'[l], "RESERVED") = Claimed(claims[l], "RESERVED") BY <1>1
  <2> HIDE DEF t
  <2>3. SamePair(p, q) BY <2>2 DEF SamePair, PairInputs
  <2> HIDE DEF p, q
  <2>4. PegPair(p) = PegPair(q) BY <2>3, SamePegs
  <2>5. PegPair(Inputs(l))' = PegPair(q)
    BY <2>1 DEF PegPair, Ranked, Supplies, OnHandSupplies, OnHandBut, LotsInOrder, Eligible, Fefo
  <2> QED BY <2>1, <2>4, <2>5
<1>4. PegAll' = PegAll BY <1>3 DEF PegAll
<1> QED BY <1>1, <1>4

(* run_pegging_all() writes. *)
LEMMA PegWriteKeeps ==
  ASSUME AllocInv, NEW w \in Scopes[scope].sessions, PegWrite(w)
  PROVE  AllocInv'
<1> DEFINE plan == work[w].plan
<1>0. StateOk /\ UpToDate BY DEF AllocInv
<1>1. w \in Sessions BY <1>0, ScopesAssumption DEF StateOk
<1>2. /\ work[w].pc = "pegging"
      /\ claims' = [l \in Locations |-> Replaced(claims[l], plan[l])]
      /\ pegs' = plan /\ work' = [Outdated EXCEPT ![w] = Idle]
      /\ last' = (IF work[w].fresh THEN "pegged" ELSE "other")
      /\ UNCHANGED <<balance, txns, quality, docs, sales, policy, scope>>
  BY DEF PegWrite, Replaced
<1>3. plan = [l \in Locations |-> plan[l]] /\ \A l \in Locations : PlanOk(plan[l])
  BY <1>0, <1>1, <1>2 DEF StateOk, WorkOk
<1>4. work[w].fresh => plan = PegAll BY <1>0, <1>1, <1>2 DEF UpToDate, Current
<1> HIDE DEF plan
<1>5. /\ \A l \in Locations : ClaimList(claims'[l]) /\ Manual(claims'[l]) = Manual(claims[l])
      /\ PegAll' = PegAll
  BY <1>0, <1>2, <1>3, RunReadsTheSame
<1>6. StateOk' /\ \A v \in Sessions : ~work'[v].fresh
  <2>1. claims' = [l \in Locations |-> claims'[l]] BY <1>2
  <2> QED BY <2>1, <1>0, <1>1, <1>2, <1>5, ClaimsKeep
<1>7. last' = "pegged" => pegs' = PegAll' /\ claims' = [l \in Locations |-> Replaced(claims'[l], pegs'[l])]
  <2>1. ASSUME last' = "pegged" PROVE pegs' = PegAll'
    <3>1. work[w].fresh BY <2>1, <1>2
    <3> QED BY <3>1, <1>2, <1>4, <1>5
  <2>2. \A l \in Locations : Replaced(claims'[l], pegs'[l]) = Replaced(claims[l], plan[l])
    BY <1>2, <1>5 DEF Replaced
  <2> QED BY <2>1, <2>2, <1>2
<1>8. UpToDate' BY <1>6, <1>7 DEF UpToDate, Current
<1> QED BY <1>6, <1>8 DEF AllocInv

(* Every step keeps the invariant. *)
LEMMA AllocInvNext == AllocInv /\ [AllocNext]_allocVars => AllocInv'
<1> SUFFICES ASSUME AllocInv, [AllocNext]_allocVars PROVE AllocInv' OBVIOUS
<1>1. ASSUME NEW m \in Scopes[scope].msgs, Happen(m) PROVE AllocInv' BY <1>1, HappenKeeps
<1>2. CASE Sell BY <1>2, SellKeeps
<1>3. ASSUME NEW w \in Scopes[scope].sessions, NEW l \in Locations, NEW c \in Scopes[scope].asks[l], Ask(w, l, c)
      PROVE  AllocInv'
  BY <1>3, AskKeeps
<1>4. ASSUME NEW w \in Scopes[scope].sessions, Grant(w) \/ PegRead(w) \/ PegWrite(w) PROVE AllocInv'
  BY <1>4, GrantKeeps, PegReadKeeps, PegWriteKeeps
<1>5. ASSUME NEW l \in Locations, NEW i \in DOMAIN claims[l], Release(l, i) PROVE AllocInv'
  BY <1>5, ReleaseKeeps
<1>6. CASE UNCHANGED allocVars
  <2>1. UNCHANGED <<balance, txns, quality, docs, sales, claims, policy, pegs, last, scope, work>>
    BY <1>6 DEF allocVars
  <2>2. StateOk /\ UpToDate BY DEF AllocInv
  <2>3. PegAll' = PegAll /\ (\A l, lot : Grantable(l, lot)' = Grantable(l, lot)) /\ Tables' = Tables
    BY <2>1, ReadingStays
  <2>4. StateOk' BY <2>1, <2>2, <2>3 DEF StateOk
  <2>5. UpToDate'
    <3>1. ASSUME NEW w \in Sessions PROVE Current(work[w])'
      <4>1. Current(work'[w]) BY <2>1, <2>2 DEF UpToDate
      <4> QED BY <2>1, <4>1, CurrentStays
    <3> QED BY <3>1, <2>1, <2>2, <2>3 DEF UpToDate
  <2> QED BY <2>4, <2>5 DEF AllocInv
<1>7. CASE AllocNext
  <2>1. CASE \E m \in Scopes[scope].msgs : Happen(m) BY <2>1, <1>1
  <2>2. CASE \E w \in Scopes[scope].sessions :
               \/ \E l \in Locations : \E c \in Scopes[scope].asks[l] : Ask(w, l, c)
               \/ Grant(w) \/ PegRead(w) \/ PegWrite(w)
    BY <2>2, <1>3, <1>4
  <2>3. CASE \E l \in Locations : \E i \in DOMAIN claims[l] : Release(l, i) BY <2>3, <1>5
  <2> QED BY ONLY <1>7, <1>2, <2>1, <2>2, <2>3 DEF AllocNext
<1> QED BY <1>6, <1>7

(* So it always holds. *)
LEMMA AllocInvAlways == AllocSpec => []AllocInv
BY AllocInvInit, AllocInvNext, PTL DEF AllocSpec

-----------------------------------------------------------------------------
(* Theorems *)

(* Pegs written from current data are those of the inputs as they are. *)
LEMMA PeggedNow ==
  ASSUME AllocInv, last = "pegged", NEW l \in Locations
  PROVE  PairPegs(Inputs(l), pegs[l])
<1>1. pegs[l] = PegPair(Inputs(l)) BY DEF AllocInv, UpToDate, PegAll
<1>2. PairOk(Inputs(l)) BY PairsOk DEF AllocInv
<1> DEFINE p == Inputs(l)
<1> HIDE DEF p
<1>3. PairPegs(p, PegPair(p)) BY <1>2, PairPegged DEF p
<1> QED BY <1>1, <1>3 DEF p

(* The stock and the quality status among a pair's inputs. *)
LEMMA StockInputs ==
  ASSUME NEW l \in Locations
  PROVE  /\ \A lot \in Lots : Inputs(l).lots[lot] = LotQty(l, lot)
         /\ Inputs(l).quality = quality
<1> DEFINE t == Tables
           mine == claims[l]
           p == PairInputs(t, sales, mine, l)
<1>1. t.balance = balance /\ t.quality = quality BY DEF Tables
<1>2. Inputs(l) = p BY DEF Inputs
<1> HIDE DEF t, mine
<1>3. p.lots = [lot \in Lots |-> t.balance[<<l, lot, "UNRESTRICTED">>]] /\ p.quality = t.quality
  BY DEF PairInputs
<1> HIDE DEF p
<1>4. \A lot \in Lots : p.lots[lot] = balance[<<l, lot, "UNRESTRICTED">>] BY <1>1, <1>3
<1> QED BY <1>1, <1>2, <1>3, <1>4 DEF LotQty

(* Pegs made from current data take no more of a lot, of the usable stock,  *)
(* of an order or of a production order than there is, only from lots that  *)
(* may be used, and give no demand more than it asks for (peg_pair(),       *)
(* run_pegging_all()).                                                      *)
THEOREM NothingIsPeggedTwice == AllocSpec => []PeggedOnce
<1>1. ASSUME AllocInv PROVE PeggedOnce
  <2> SUFFICES ASSUME last = "pegged", NEW l \in Locations
      PROVE LET p == Inputs(l)
                mine == pegs[l]
                demands == Demands(p)
            IN  /\ \A lot \in Lots : FromLot(mine, lot) <= LotQty(l, lot)
                /\ FromStock(mine) > 0 => FromStock(mine) + p.committed + p.reserved <= p.usable
                /\ \A x \in Range(p.inbound) :
                     FromOrder(mine, x)
                       <= QtyAt(p.inbound, {j \in DOMAIN p.inbound : p.inbound[j].kind = x.kind /\ p.inbound[j].ref = x.ref})
                /\ \A g \in Range(mine) :
                     g.kind = "ONHAND" /\ g.lot # 0 =>
                       /\ Far(Expiry[g.lot]) >= Today
                       /\ policy.released => quality[g.lot] = "RELEASED"
                /\ \A d \in Range(demands) :
                     ToDemand(mine, d) <= QtyAt(demands, {j \in DOMAIN demands : demands[j].ref = d.ref})
    BY DEF PeggedOnce
  <2> DEFINE p == Inputs(l)
             mine == pegs[l]
             demands == Demands(p)
  <2>1. PairPegs(p, mine) BY <1>1, PeggedNow
  <2>2. (\A lot \in Lots : p.lots[lot] = LotQty(l, lot)) /\ p.quality = quality BY StockInputs
  <2> HIDE DEF p, mine
  <2>3. \A lot \in Lots : FromLot(mine, lot) <= LotQty(l, lot) BY <2>1, <2>2 DEF PairPegs
  <2>4. FromStock(mine) > 0 => FromStock(mine) + p.committed + p.reserved <= p.usable BY <2>1 DEF PairPegs
  <2>5. \A x \in Range(p.inbound) :
          FromOrder(mine, x)
            <= QtyAt(p.inbound, {j \in DOMAIN p.inbound : p.inbound[j].kind = x.kind /\ p.inbound[j].ref = x.ref})
    BY <2>1 DEF PairPegs
  <2>6. ASSUME NEW g \in Range(mine), g.kind = "ONHAND", g.lot # 0
        PROVE  Far(Expiry[g.lot]) >= Today /\ (policy.released => quality[g.lot] = "RELEASED")
    <3>1. g.lot \in Eligible(p) BY <2>1, <2>6 DEF PairPegs, Range
    <3> QED BY <3>1, <2>2, <2>6 DEF Eligible, ExpiryOf
  <2>7. ASSUME NEW d \in Range(demands)
        PROVE  ToDemand(mine, d) <= QtyAt(demands, {j \in DOMAIN demands : demands[j].ref = d.ref})
    <3>1. ToRefs(mine, {d.ref}) <= RefQty(demands, {d.ref}) BY <2>1 DEF PairPegs
    <3>2. {i \in DOMAIN mine : mine[i].demand \in {d.ref}} = {i \in DOMAIN mine : mine[i].demand = d.ref} OBVIOUS
    <3>3. {j \in DOMAIN demands : demands[j].ref \in {d.ref}} = {j \in DOMAIN demands : demands[j].ref = d.ref}
      OBVIOUS
    <3> QED BY <3>1, <3>2, <3>3 DEF ToRefs, RefQty, ToDemand
  <2> QED BY <2>3, <2>4, <2>5, <2>6, <2>7 DEF p, mine
<1> QED BY <1>1, AllocInvAlways, PTL

(* A demand goes short only when every supply of its location is used up,   *)
(* and no demand ranked after it has got anything (peg_pair()).             *)
THEOREM NobodyJumpsTheQueue == AllocSpec => []NoQueueJumping
<1>1. ASSUME AllocInv PROVE NoQueueJumping
  <2> SUFFICES ASSUME last = "pegged", NEW l \in Locations
      PROVE LET p == Inputs(l)
                mine == pegs[l]
                ranked == Ranked(p)
            IN  \A i \in DOMAIN ranked :
                  ToDemand(mine, ranked[i]) < ranked[i].qty =>
                    /\ QtyOf(mine) = QtyOf(Supplies(p))
                    /\ \A j \in DOMAIN ranked :
                         (\A k \in 1..i : ranked[k].ref # ranked[j].ref) => ToDemand(mine, ranked[j]) = 0
    BY DEF NoQueueJumping
  <2> DEFINE p == Inputs(l)
             mine == pegs[l]
             ranked == Ranked(p)
  <2>1. PairPegs(p, mine) BY <1>1, PeggedNow
  <2> HIDE DEF p, mine
  <2>2. \A d : ToDemand(mine, d) = ToRefs(mine, {d.ref})
    <3>1. \A d : {i \in DOMAIN mine : mine[i].demand \in {d.ref}} = {i \in DOMAIN mine : mine[i].demand = d.ref}
      OBVIOUS
    <3> QED BY <3>1 DEF ToRefs, ToDemand
  <2>3. ASSUME NEW i \in DOMAIN ranked, ToDemand(mine, ranked[i]) < ranked[i].qty
        PROVE  /\ QtyOf(mine) = QtyOf(Supplies(p))
               /\ \A j \in DOMAIN ranked :
                    (\A k \in 1..i : ranked[k].ref # ranked[j].ref) => ToDemand(mine, ranked[j]) = 0
    <3>1. ToRefs(mine, {ranked[i].ref}) < ranked[i].qty BY <2>2, <2>3
    <3>2. /\ QtyOf(mine) = QtyOf(Supplies(p))
          /\ \A R : (\A h \in 1..i : ranked[h].ref \notin R) => ToRefs(mine, R) = 0
      BY <2>1, <3>1 DEF PairPegs
    <3> HIDE DEF ranked
    <3>3. ASSUME NEW j \in DOMAIN ranked, \A k \in 1..i : ranked[k].ref # ranked[j].ref
          PROVE  ToDemand(mine, ranked[j]) = 0
      <4>1. \A k \in 1..i : ranked[k].ref \notin {ranked[j].ref} BY <3>3
      <4>2. ToRefs(mine, {ranked[j].ref}) = 0 BY <3>2, <4>1
      <4> QED BY <4>2, <2>2
    <3> QED BY <3>2, <3>3
  <2> QED BY <2>3 DEF p, mine, ranked
<1> QED BY <1>1, AllocInvAlways, PTL

(* A run that finds what it would write leaves everything as it is, and no  *)
(* run touches a claim made by hand.                                        *)
LEMMA RunRepeats ==
  ASSUME AllocInv, NEW w \in Sessions, PegWrite(w)
  PROVE  /\ last = "pegged" /\ work[w].fresh => pegs' = pegs /\ claims' = claims
         /\ \A l \in Locations : Manual(claims[l])' = Manual(claims[l])
<1> DEFINE plan == work[w].plan
<1>0. StateOk /\ UpToDate BY DEF AllocInv
<1>2. /\ work[w].pc = "pegging"
      /\ claims' = [k \in Locations |-> Replaced(claims[k], plan[k])]
      /\ pegs' = plan
      /\ UNCHANGED <<balance, txns, quality, docs, sales, policy>>
  BY DEF PegWrite, Replaced
<1>3. \A k \in Locations : PlanOk(plan[k]) BY <1>0, <1>2 DEF StateOk, WorkOk
<1>4. work[w].fresh => plan = PegAll BY <1>0, <1>2 DEF UpToDate, Current
<1> HIDE DEF plan
<1>5. ASSUME last = "pegged", work[w].fresh PROVE pegs' = pegs /\ claims' = claims
  <2>1. pegs = PegAll /\ claims = [k \in Locations |-> Replaced(claims[k], pegs[k])] BY <1>0, <1>5 DEF UpToDate
  <2>2. plan = pegs BY <2>1, <1>4, <1>5
  <2> QED BY <2>1, <2>2, <1>2
<1>6. \A l \in Locations : Manual(claims'[l]) = Manual(claims[l]) BY <1>0, <1>2, <1>3, RunReadsTheSame
<1>7. \A l \in Locations : Manual(claims[l])' = Manual(claims'[l]) BY DEF Manual
<1> QED BY <1>5, <1>6, <1>7

(* run_pegging_all() is idempotent: a second run over data that did not     *)
(* change makes the same pegs and leaves the same claims, although it reads *)
(* the first one's claims.                                                  *)
THEOREM RunsRepeatThemselves == AllocSpec => RepegStable
<1>1. ASSUME AllocInv, NEW w \in Sessions, PegWrite(w)
      PROVE  /\ last = "pegged" /\ work[w].fresh => pegs' = pegs /\ claims' = claims
             /\ \A l \in Locations : Manual(claims[l])' = Manual(claims[l])
  BY <1>1, RunRepeats
<1>2. AllocInv => [\A w \in Sessions : PegWrite(w) =>
       /\ last = "pegged" /\ work[w].fresh => pegs' = pegs /\ claims' = claims
       /\ \A l \in Locations : Manual(claims[l])' = Manual(claims[l])]_allocVars
  BY <1>1
<1> QED BY <1>2, AllocInvAlways, PTL DEF RepegStable

(* One more claim in a location. *)
LEMMA ClaimAdded ==
  ASSUME NEW mine, ClaimList(mine), NEW c \in Claim
  PROVE  LET t == Append(mine, c)
         IN  /\ \A type : Claimed(t, type) = Claimed(mine, type) + IF c.type = type THEN c.qty ELSE 0
             /\ \A lot : LotsQty(t, {lot}) = LotsQty(mine, {lot}) + IF c.lot = lot THEN c.qty ELSE 0
<1> DEFINE t == Append(mine, c)
           n == Len(mine) + 1
<1>1. Goods(mine) /\ c.qty \in Nat BY ClaimGoods DEF Claim
<1>2. /\ DOMAIN t = DOMAIN mine \cup {n} /\ n \notin DOMAIN mine
      /\ t[n] = c /\ \A i \in DOMAIN mine : t[i] = mine[i]
  <2>1. {} \in SUBSET DOMAIN mine OBVIOUS
  <2> QED BY <2>1, <1>1, QtyAppend
<1>3. ASSUME NEW S \in SUBSET DOMAIN mine
      PROVE  QtyAt(t, S) = QtyAt(mine, S) /\ QtyAt(t, S \cup {n}) = QtyAt(mine, S) + c.qty
             /\ QtyAt(mine, S) \in Nat
  <2>1. QtyAt(t, S) = QtyAt(mine, S) /\ QtyAt(t, S \cup {n}) = QtyAt(mine, S) + c.qty BY <1>1, QtyAppend
  <2>2. QtyAt(mine, S) \in Nat BY <1>1, QtySum
  <2> QED BY <2>1, <2>2
<1> HIDE DEF t, n
<1>4. ASSUME NEW type PROVE Claimed(t, type) = Claimed(mine, type) + IF c.type = type THEN c.qty ELSE 0
  <2> DEFINE S == {i \in DOMAIN mine : mine[i].type = type}
             T == {i \in DOMAIN t : t[i].type = type}
  <2>1. S \in SUBSET DOMAIN mine /\ T = IF c.type = type THEN S \cup {n} ELSE S BY <1>2
  <2>2. Claimed(t, type) = QtyAt(t, T) /\ Claimed(mine, type) = QtyAt(mine, S) BY DEF Claimed
  <2> HIDE DEF S, T
  <2> QED BY <2>1, <2>2, <1>3
<1>5. ASSUME NEW lot
      PROVE  LotsQty(t, {lot}) = LotsQty(mine, {lot}) + IF c.lot = lot THEN c.qty ELSE 0
  <2> DEFINE S == {i \in DOMAIN mine : mine[i].lot \in {lot}}
             T == {i \in DOMAIN t : t[i].lot \in {lot}}
  <2>1. S \in SUBSET DOMAIN mine /\ T = IF c.lot = lot THEN S \cup {n} ELSE S BY <1>2
  <2>2. LotsQty(t, {lot}) = QtyAt(t, T) /\ LotsQty(mine, {lot}) = QtyAt(mine, S) BY DEF LotsQty
  <2> HIDE DEF S, T
  <2> QED BY <2>1, <2>2, <1>3
<1>6. /\ \A type : Claimed(t, type) = Claimed(mine, type) + IF c.type = type THEN c.qty ELSE 0
      /\ \A lot : LotsQty(t, {lot}) = LotsQty(mine, {lot}) + IF c.lot = lot THEN c.qty ELSE 0
  BY <1>4, <1>5
<1> QED BY ONLY <1>6 DEF t

(* A claim granted on a current reading is covered. *)
LEMMA GrantCovers ==
  ASSUME AllocInv, NEW w \in Sessions, Grant(w), work[w].fresh,
         NEW l \in Locations, NEW lot \in Lots, work[w].loc = l, work[w].claim.lot = lot
  PROVE  Available(Inputs(l))' >= 0 /\ (lot # 0 => LotClaims(l, lot)' <= LotQty(l, lot)')
<1> DEFINE c == work[w].claim
           mine == claims[l]
           more == Append(mine, c)
           t == Tables
           p == PairInputs(t, sales, mine, l)
           q == PairInputs(t, sales, more, l)
           held == LotsQty(mine, {lot})
           holds == LotsQty(more, {lot})
<1>0. StateOk /\ UpToDate BY DEF AllocInv
<1>1. /\ work[w].pc = "asked" /\ claims' = [claims EXCEPT ![l] = Append(@, c)]
      /\ UNCHANGED <<balance, txns, quality, docs, sales, scope>>
  BY DEF Grant
<1>2. c \in Claim /\ c.lot = lot BY <1>0, <1>1 DEF StateOk, WorkOk
<1>3. c.qty <= Grantable(l, lot) BY <1>0, <1>1 DEF UpToDate, Current
<1>4. ClaimList(mine) /\ claims'[l] = more BY <1>0, <1>1 DEF StateOk
<1>5. Tables' = Tables BY <1>1 DEF Tables
<1>6. Inputs(l) = p /\ Inputs(l)' = q BY <1>1, <1>4, <1>5 DEF Inputs
<1>7. PairOk(p) BY <1>0, <1>6, PairsOk
<1>8. LotClaims(l, lot) = held /\ LotClaims(l, lot)' = holds
  <2>1. \A s : QtyAt(s, {i \in DOMAIN s : s[i].lot = lot}) = LotsQty(s, {lot})
    <3>1. \A s : {i \in DOMAIN s : s[i].lot = lot} = {i \in DOMAIN s : s[i].lot \in {lot}} OBVIOUS
    <3> QED BY <3>1 DEF LotsQty
  <2>2. LotClaims(l, lot) = held BY <2>1 DEF LotClaims
  <2>3. LotClaims(l, lot)' = QtyAt(claims'[l], {i \in DOMAIN claims'[l] : claims'[l][i].lot = lot})
    BY DEF LotClaims
  <2> QED BY <2>1, <2>2, <2>3, <1>4
<1>9. LotQty(l, lot)' = LotQty(l, lot) /\ LotQty(l, lot) \in Nat
  <2>1. LotQty(l, lot) = Inputs(l).lots[lot] BY StockInputs
  <2>2. p.lots[lot] \in Nat BY <1>7 DEF PairOk
  <2> QED BY <2>1, <2>2, <1>1, <1>6 DEF LotQty
<1>10. TablesOk(t) BY <1>0 DEF StateOk
<1> HIDE DEF t
<1>11. /\ \A type : Claimed(more, type) = Claimed(mine, type) + IF c.type = type THEN c.qty ELSE 0
       /\ holds = held + c.qty
  <2>1. /\ \A type : Claimed(more, type) = Claimed(mine, type) + IF c.type = type THEN c.qty ELSE 0
        /\ \A x : LotsQty(more, {x}) = LotsQty(mine, {x}) + IF c.lot = x THEN c.qty ELSE 0
    <3> HIDE DEF c, mine
    <3> QED BY <1>2, <1>4, ClaimAdded
  <2>2. holds = held + c.qty BY <2>1, <1>2
  <2> QED BY <2>1, <2>2
<1>12. held \in Nat
  <2>1. Goods(mine) BY <1>4, ClaimGoods
  <2> QED BY <2>1, LotsNat
<1>17. c.qty \in Nat BY <1>2 DEF Claim
<1>13. Available(q) = Available(p) - c.qty
  <2> DEFINE A == Claimed(mine, "ALLOCATED")
             C == Claimed(mine, "COMMITTED")
             R == Claimed(mine, "RESERVED")
             moved == ReservedForTransfers(t, l)
             u == p.usable
  <2>1. A \in Nat /\ C \in Nat /\ R \in Nat /\ moved \in Nat BY <1>4, <1>10, ClaimedNat, ReservedNat
  <2>2. p.allocated = A /\ p.committed = C /\ p.reserved = R + moved /\ q.usable = u
    BY DEF PairInputs
  <2>3. /\ q.allocated = Claimed(more, "ALLOCATED") /\ q.committed = Claimed(more, "COMMITTED")
        /\ q.reserved = Claimed(more, "RESERVED") + moved
    BY DEF PairInputs
  <2>4. u \in Int BY <1>7, UsableNat
  <2>5. Available(p) = u - A - C - (R + moved) BY <2>2 DEF Available
  <2>6. Available(q) = u - Claimed(more, "ALLOCATED") - Claimed(more, "COMMITTED") - (Claimed(more, "RESERVED") + moved)
    BY <2>2, <2>3 DEF Available
  <2>10. /\ Claimed(more, "ALLOCATED") = A + IF c.type = "ALLOCATED" THEN c.qty ELSE 0
         /\ Claimed(more, "COMMITTED") = C + IF c.type = "COMMITTED" THEN c.qty ELSE 0
         /\ Claimed(more, "RESERVED") = R + IF c.type = "RESERVED" THEN c.qty ELSE 0
    BY <1>11
  <2> HIDE DEF A, C, R, moved, u, p, q, more, mine, c
  <2>7. CASE c.type = "ALLOCATED" BY <2>1, <2>4, <2>5, <2>6, <2>7, <2>10, <1>11, <1>17
  <2>8. CASE c.type = "COMMITTED" BY <2>1, <2>4, <2>5, <2>6, <2>8, <2>10, <1>11, <1>17
  <2>9. CASE c.type = "RESERVED" BY <2>1, <2>4, <2>5, <2>6, <2>9, <2>10, <1>11, <1>17
  <2> QED BY <2>7, <2>8, <2>9, <1>2 DEF Claim, ClaimTypes
<1>14. Available(p) \in Int
  <2>1. p.usable \in Nat BY <1>7, UsableNat
  <2>2. p.allocated = Claimed(mine, "ALLOCATED") /\ p.committed \in Nat /\ p.reserved \in Nat
    BY <1>7 DEF PairOk, PairInputs
  <2>3. p.allocated \in Nat BY <2>2, <1>4, ClaimedNat
  <2> HIDE DEF p
  <2> QED BY <2>1, <2>2, <2>3 DEF Available
<1>15. c.qty <= Available(p) /\ (lot # 0 => c.qty <= LotQty(l, lot) - held)
  BY <1>2, <1>3, <1>6, <1>8, <1>9, <1>12, <1>14 DEF Grantable, Claim
<1>16. Available(Inputs(l))' = Available(q) BY <1>6 DEF Available
<1> HIDE DEF p, q, held, holds, c, mine, more
<1>18. Available(q) >= 0 BY <1>13, <1>14, <1>15, <1>17
<1>19. lot # 0 => holds <= LotQty(l, lot) BY <1>9, <1>11, <1>12, <1>15, <1>17
<1> QED BY <1>8, <1>9, <1>16, <1>18, <1>19

(* commit_allocation() "refuses to over-allocate": a claim granted on a     *)
(* reading no other session made out of date leaves every claim covered, in *)
(* its location and in its lot.                                             *)
THEOREM GrantsAreCovered == AllocSpec => CommitCovered
<1>1. ASSUME AllocInv, NEW w \in Sessions, NEW l \in Locations, NEW lot \in Lots,
             Grant(w), work[w].fresh, work[w].loc = l, work[w].claim.lot = lot
      PROVE  Available(Inputs(l))' >= 0 /\ (lot # 0 => LotClaims(l, lot)' <= LotQty(l, lot)')
  BY <1>1, GrantCovers
<1>2. AllocInv => [\A w \in Sessions : \A l \in Locations : \A lot \in Lots :
                     Grant(w) /\ work[w].fresh /\ work[w].loc = l /\ work[w].claim.lot = lot =>
                       /\ Available(Inputs(l))' >= 0
                       /\ lot # 0 => LotClaims(l, lot)' <= LotQty(l, lot)']_allocVars
  BY <1>1
<1> QED BY <1>2, AllocInvAlways, PTL DEF CommitCovered

-----------------------------------------------------------------------------
(* The position of a location as sums over the tables *)

(* What is missing of an order line, and of an order to a location.         *)
Owed(ln) == IF ln.sku = Own /\ ln.received < ln.ordered THEN ln.ordered - ln.received ELSE 0
OwedLines(order) == [i \in DOMAIN order.lines |-> Owed(order.lines[i])]
OrderOwed(order) == SumOverSet(OwedLines(order), DOMAIN order.lines)
OwedTo(order, l) == IF order # Absent /\ order.dest = l THEN OrderOwed(order) ELSE 0

(* What a transfer brings to a location, and takes from it.                 *)
IsOpen(order) == order # Absent /\ order.status = "OPEN"
Brings(order, l) == IF IsOpen(order) /\ order.to = l THEN OpenQty(order) ELSE 0
Takes(order, l) == IF IsOpen(order) /\ order.from = l THEN OpenQty(order) ELSE 0

Stock(bal, l) == SumOverSet([lot \in Lots |-> bal[<<l, lot, "UNRESTRICTED">>]], Lots)
OnOrder(po, l) == SumOverSet([n \in PoNumbers |-> OwedTo(po[n], l)], PoNumbers)
Arriving(transfers, l) == SumOverSet([n \in TransferNos |-> Brings(transfers[n], l)], TransferNos)
Leaving(transfers, l) == SumOverSet([n \in TransferNos |-> Takes(transfers[n], l)], TransferNos)
Made(l) ==
  QtyOf(Joined([i \in DOMAIN Production |->
                  LET po == Production[i]
                  IN  IF po.loc = l /\ po.item = Own THEN Part("PROD", po.ref, po.qty, FALSE, po.due - Today)
                      ELSE <<>>]))

InPlace(t, l) ==
  Stock(t.balance, l) - Leaving(t.transfers, l) + OnOrder(t.po, l) + Arriving(t.transfers, l) + Made(l)

(* Nothing is in transit for less than nothing but on a complete line, an   *)
(* order that is received is complete, an open transfer has not brought     *)
(* more than it should: else the snapshot counts something else.            *)
LineSound(ln) == ln.transit < 0 => ln.received >= ln.ordered
OrderSound(order) ==
  /\ \A i \in DOMAIN order.lines : LineSound(order.lines[i])
  /\ order.status = "RECEIVED" => \A i \in DOMAIN order.lines : order.lines[i].received >= order.lines[i].ordered
Balanced(t) ==
  /\ \A n \in PoNumbers : t.po[n] # Absent => OrderSound(t.po[n])
  /\ \A n \in TransferNos : IsOpen(t.transfers[n]) => t.transfers[n].received <= t.transfers[n].qty

(* A sum over the elements that count. *)
LEMMA SumOnly ==
  ASSUME NEW T, IsFiniteSet(T), NEW S \in SUBSET T, NEW f, NEW g, \A x \in T : g[x] \in Int,
         \A x \in S : f[x] = g[x], \A x \in T \ S : g[x] = 0
  PROVE  SumOverSet(f, S) = SumOverSet(g, T)
<1> DEFINE R == T \ S
<1>1. IsFiniteSet(S) /\ IsFiniteSet(R) BY FS_Subset
<1>2. SumOverSet(g, T) = SumOverSet(g, S) + SumOverSet(g, R) /\ SumOverSet(g, S) \in Int BY SumPart
<1>3. SumOverSet(g, R) = 0
  <2>1. \A x \in R : g[x] = 0 OBVIOUS
  <2> HIDE DEF R
  <2> QED BY <1>1, <2>1, SumZero
<1>4. SumOverSet(f, S) = SumOverSet(g, S) BY <1>1, SumAgrees
<1> QED BY <1>2, <1>3, <1>4

(* A sum over a function of its own. *)
LEMMA SumOfFunction ==
  ASSUME NEW f
  PROVE  SumFunction(f) = SumOverSet(f, DOMAIN f)
BY DEF SumFunction, SumFunctionOnSet, FoldFunctionOnSet, SumOverSet, MapThenFoldSet

(* The order in which a set is listed does not change its sum. *)
LEMMA SumListed ==
  ASSUME NEW S, IsFiniteSet(S), NEW g, NEW h, \A x \in S : g[x] \in Int,
         \A i \in 1..Cardinality(S) : h[i] = g[SetToSeq(S)[i]]
  PROVE  SumOverSet(h, 1..Cardinality(S)) = SumOverSet(g, S)
<1> DEFINE c == Cardinality(S)
           b == SetToSeq(S)
<1>1. c \in Nat /\ ExistsBijection(1..c, S) BY FS_CardinalityType
<1>2. b \in [1..c -> S] BY SetListed
<1>3. IsInjective(b)
  <2>1. \E f \in [1..c -> S] : IsInjective(f) BY <1>1 DEF ExistsBijection, Bijection, Injection
  <2>2. b = CHOOSE f \in [1..c -> S] : IsInjective(f) BY DEF SetToSeq
  <2> HIDE DEF b, c
  <2> QED BY <2>1, <2>2
<1>4. Cardinality(1..c) = Cardinality(S)
  <2>1. Cardinality(1..c) = IF 1 > c THEN 0 ELSE c - 1 + 1 BY <1>1, FS_Interval
  <2> QED BY <2>1, <1>1
<1>5. Images(b, 1..c) = S
  <2>1. b \in Surjection(1..c, S)
    <3>1. b \in Injection(1..c, S) BY <1>2, <1>3 DEF Injection
    <3> HIDE DEF b, c
    <3> QED BY <3>1, <1>4, FS_Injection
  <2> HIDE DEF b, c
  <2> QED BY <2>1 DEF Surjection, Images
<1>6. IsFiniteSet(1..c) BY <1>1, FS_Interval
<1>7. \A i \in 1..c : h[i] = g[b[i]] /\ h[i] \in Int BY <1>2
<1>8. \A i, j \in 1..c : b[i] = b[j] => i = j BY <1>2, <1>3 DEF IsInjective
<1> HIDE DEF b, c
<1>9. SumOverSet(h, 1..c) = SumOverSet(g, Images(b, 1..c)) BY <1>6, <1>7, <1>8, SumRenamed
<1> QED BY <1>5, <1>9 DEF c

(* Two sequences of goods together. *)
LEMMA QtyBoth ==
  ASSUME NEW a, Goods(a), NEW b, Goods(b)
  PROVE  Goods(a \o b) /\ QtyOf(a \o b) = QtyOf(a) + QtyOf(b)
<1> DEFINE t == a \o b
           S == DOMAIN t
<1>1. Follows(t, a, b) BY Joining DEF Goods
<1>2. S \in SUBSET DOMAIN (a \o b) OBVIOUS
<1>3. Goods(t) /\ QtyAt(t, S) = QtyAt(a, S \cap DOMAIN a) + QtyAt(b, {i \in DOMAIN b : i + Len(a) \in S})
  <2> HIDE DEF S
  <2> QED BY <1>2, QtyJoined
<1> HIDE DEF t
<1>4. S \cap DOMAIN a = DOMAIN a /\ {i \in DOMAIN b : i + Len(a) \in S} = DOMAIN b BY <1>1 DEF Follows
<1> QED BY <1>3, <1>4 DEF t, QtyOf

(* The invariant of joining. *)
Counted(base, s, n, all) ==
  InboundParts(all) /\ QtyOf(all) = SumOverSet([i \in DOMAIN s |-> QtyOf(s[i])], 1..n)
Counting == INSTANCE FoldLemmas WITH Op <- Glue, Holds <- Counted

(* The quantity of parts joined is the sum of theirs. *)
LEMMA QtyOfJoined ==
  ASSUME NEW n \in Nat, NEW seqs, seqs = [i \in 1..n |-> seqs[i]], \A i \in 1..n : InboundParts(seqs[i])
  PROVE  QtyOf(Joined(seqs)) = SumOverSet([i \in 1..n |-> QtyOf(seqs[i])], 1..n)
<1> DEFINE T == {seqs[i] : i \in 1..n}
           base == <<>>
           out == Counting!Fold(base, seqs)
           f == [i \in DOMAIN seqs |-> QtyOf(seqs[i])]
<1>1. seqs \in [1..n -> T] OBVIOUS
<1> HIDE DEF T
<1>2. seqs \in Seq(T) /\ Len(seqs) = n /\ DOMAIN seqs = 1..n BY <1>1
<1>3. Counted(base, seqs, 0, base)
  <2>1. QtyOf(base) = 0
    <3>1. DOMAIN base = {} OBVIOUS
    <3> HIDE DEF base
    <3> QED BY <3>1, QtyNothing DEF QtyOf
  <2>2. 1..0 = {} OBVIOUS
  <2>3. SumOverSet(f, 1..0) = 0 BY <2>2, SumEmpty
  <2>4. InboundParts(base) BY NoParts
  <2> QED BY <2>1, <2>3, <2>4 DEF Counted
<1>4. FoldLeft(Glue, base, seqs) = out
  BY DEF out, Counting!Fold, Counting!FoldLeft, Counting!MapThenFoldSet, Counting!Max, FoldLeft, MapThenFoldSet, Max
<1>5. Joined(seqs) = FoldLeft(Glue, base, seqs) BY DEF Joined
<1> HIDE DEF base, out
<1>6. ASSUME NEW i \in 1..n, NEW all, Counted(base, seqs, i - 1, all)
      PROVE  Counted(base, seqs, i, Glue(all, seqs[i]))
  <2>1. InboundParts(all) /\ QtyOf(all) = SumOverSet(f, 1..i - 1) BY <1>6 DEF Counted
  <2>2. InboundParts(seqs[i]) OBVIOUS
  <2>3. InboundParts(all \o seqs[i]) BY <2>1, <2>2, PartsJoined
  <2>4. QtyOf(all \o seqs[i]) = QtyOf(all) + QtyOf(seqs[i])
    <3>1. Goods(all) /\ Goods(seqs[i]) BY <2>1, <2>2 DEF InboundParts
    <3> QED BY <3>1, QtyBoth
  <2>5. \A k \in 1..n : f[k] = QtyOf(seqs[k]) /\ f[k] \in Int
    <3>1. ASSUME NEW k \in 1..n PROVE QtyOf(seqs[k]) \in Int
      <4>1. Goods(seqs[k]) BY DEF InboundParts
      <4> QED BY <4>1, QtySum DEF QtyOf
    <3>2. \A k \in 1..n : f[k] = QtyOf(seqs[k]) BY <1>2
    <3> QED BY <3>1, <3>2
  <2> HIDE DEF f
  <2>6. /\ IsFiniteSet(1..i) /\ IsFiniteSet(1..i - 1)
        /\ (1..i) \ {i} = 1..i - 1 /\ i \in 1..i /\ 1..i \subseteq 1..n
    <3>1. \A a, k \in Int : IsFiniteSet(a..k) BY FS_Interval
    <3>2. i \in Int /\ i - 1 \in Int OBVIOUS
    <3>3. IsFiniteSet(1..i) /\ IsFiniteSet(1..i - 1) BY <3>1, <3>2
    <3> QED BY <3>3
  <2>7. SumOverSet(f, 1..i) = f[i] + SumOverSet(f, (1..i) \ {i}) BY <2>5, <2>6, SumTakesOut
  <2>8. SumOverSet(f, 1..i - 1) \in Int
    <3>1. \A k \in 1..i - 1 : f[k] \in Int BY <2>5
    <3> QED BY <3>1, <2>6, SumInt
  <2>9. f[i] = QtyOf(seqs[i]) /\ f[i] \in Int BY <2>5
  <2>11. SumOverSet(f, 1..i) = f[i] + SumOverSet(f, 1..i - 1) BY <2>6, <2>7
  <2>12. QtyOf(all) \in Int /\ QtyOf(all \o seqs[i]) = QtyOf(all) + f[i] BY <2>1, <2>4, <2>8, <2>9
  <2>13. QtyOf(all \o seqs[i]) = f[i] + SumOverSet(f, 1..i - 1)
    <3>1. QtyOf(all) = SumOverSet(f, 1..i - 1) BY <2>1 DEF f
    <3> QED BY <3>1, <2>9, <2>12
  <2>10. QtyOf(all \o seqs[i]) = SumOverSet(f, 1..i) BY <2>11, <2>13
  <2> QED BY <2>3, <2>10 DEF Counted, Glue, f
<1>7. Counted(base, seqs, Len(seqs), out) BY <1>2, <1>3, <1>6, Counting!FoldHolds DEF out
<1>8. QtyOf(Joined(seqs)) = SumOverSet(f, 1..n) BY <1>2, <1>4, <1>5, <1>7 DEF Counted
<1> QED BY <1>2, <1>8

(* The quantity of a part. *)
LEMMA PartQty ==
  ASSUME NEW kind \in InboundKinds, NEW ref, NEW q \in Int, NEW transit, NEW day \in Int
  PROVE  QtyOf(Part(kind, ref, q, transit, day)) = IF q > 0 THEN q ELSE 0
<1> DEFINE x == [kind |-> kind, ref |-> ref, qty |-> q, transit |-> transit, day |-> day]
           s == <<x>>
           p == Part(kind, ref, q, transit, day)
<1>0. InboundParts(p) BY OnePart
<1>1. CASE q > 0
  <2>1. x.qty = q OBVIOUS
  <2>2. p = s BY <1>1 DEF Part
  <2> HIDE DEF x, p
  <2>3. DOMAIN s = {1} /\ s[1] = x OBVIOUS
  <2> HIDE DEF s
  <2>4. Goods(s) BY <1>0, <2>2 DEF InboundParts
  <2>5. 1 \in DOMAIN s BY <2>3
  <2>6. QtyAt(s, {1}) = s[1].qty BY <2>4, <2>5, QtyOne
  <2> QED BY <1>1, <2>1, <2>2, <2>3, <2>6 DEF QtyOf, p
<1>2. CASE ~(q > 0)
  <2>1. p = <<>> BY <1>2 DEF Part
  <2>2. DOMAIN p = {} BY <2>1
  <2> HIDE DEF p
  <2>3. QtyOf(p) = 0 BY <2>2, QtyNothing DEF QtyOf
  <2> QED BY <1>2, <2>3 DEF p
<1> QED BY <1>1, <1>2

(* Nothing has no quantity. *)
LEMMA NoQty == QtyOf(<<>>) = 0
<1> DEFINE s == <<>>
<1>1. DOMAIN s = {} OBVIOUS
<1> HIDE DEF s
<1>2. QtyOf(s) = 0 BY <1>1, QtyNothing DEF QtyOf
<1> QED BY <1>2 DEF s

(* What is missing is never negative. *)
LEMMA OwedNat ==
  ASSUME NEW ln \in OrderLine
  PROVE  Owed(ln) \in Nat
BY DEF OrderLine, Owed

(* The shipped part and the rest of a line make what is missing of it.      *)
LEMMA LineQty ==
  ASSUME NEW order \in PurchaseOrder, NEW ln \in OrderLine, LineSound(ln), NEW n
  PROVE  QtyOf(LineInbound(n, order, ln)) = Owed(ln)
<1> DEFINE open == ln.ordered - ln.received
           sent == IF ln.transit < open THEN ln.transit ELSE open
           day == EtaDay(ln, order)
           rest == open - sent
           x == Part("PO", n, sent, TRUE, day)
           y == Part("PO", n, rest, FALSE, day)
<1>0. ln.ordered \in Int /\ ln.received \in Int /\ ln.transit \in Int BY DEF OrderLine
<1>1. open \in Int /\ sent \in Int /\ rest \in Int BY <1>0
<1>2. day \in Int BY EtaDayInt
<1>3. LineInbound(n, order, ln) = IF ln.sku # Own \/ open <= 0 THEN <<>> ELSE x \o y BY DEF LineInbound
<1>4. "PO" \in InboundKinds BY DEF InboundKinds
<1>5. open > 0 => sent >= 0 /\ rest >= 0 /\ sent + rest = open /\ ln.received < ln.ordered
  BY <1>0 DEF LineSound
<1>6. open <= 0 => ~(ln.received < ln.ordered) BY <1>0
<1>7. CASE ln.sku # Own \/ open <= 0 BY <1>3, <1>6, <1>7, NoQty DEF Owed
<1>8. CASE ln.sku = Own /\ open > 0
  <2>1. Owed(ln) = open BY <1>5, <1>8 DEF Owed
  <2>7. ~(ln.sku # Own \/ open <= 0) BY <1>1, <1>8
  <2>2. LineInbound(n, order, ln) = x \o y
    <3> HIDE DEF open, sent, rest, day, x, y
    <3> QED BY <1>3, <2>7
  <2> HIDE DEF open, sent, rest, day
  <2>3. QtyOf(x) = (IF sent > 0 THEN sent ELSE 0) /\ QtyOf(y) = (IF rest > 0 THEN rest ELSE 0)
    BY <1>1, <1>2, <1>4, PartQty
  <2>4. InboundParts(x) /\ InboundParts(y) BY <1>1, <1>2, <1>4, OnePart
  <2> HIDE DEF x, y
  <2>5. QtyOf(x \o y) = QtyOf(x) + QtyOf(y) BY <2>4, QtyBoth DEF InboundParts
  <2>6. QtyOf(x) = sent /\ QtyOf(y) = rest BY <1>1, <1>5, <1>8, <2>3
  <2> QED BY <1>5, <1>8, <2>1, <2>2, <2>5, <2>6
<1> QED BY <1>1, <1>7, <1>8

(* The lines of an order. *)
LEMMA OrderLines ==
  ASSUME NEW order \in PurchaseOrder
  PROVE  /\ Len(order.lines) \in Nat /\ DOMAIN order.lines = 1..Len(order.lines) /\ IsFiniteSet(DOMAIN order.lines)
         /\ \A i \in DOMAIN order.lines : order.lines[i] \in OrderLine
         /\ \A i \in DOMAIN order.lines : OwedLines(order)[i] = Owed(order.lines[i]) /\ OwedLines(order)[i] \in Nat
         /\ OrderOwed(order) \in Nat
<1> DEFINE lines == order.lines
<1>1. lines \in Seq(OrderLine) BY DEF PurchaseOrder
<1>2. OwedLines(order) = [i \in DOMAIN lines |-> Owed(lines[i])]
      /\ OrderOwed(order) = SumOverSet(OwedLines(order), DOMAIN lines) BY DEF OwedLines, OrderOwed
<1> HIDE DEF lines
<1>3. Len(lines) \in Nat /\ DOMAIN lines = 1..Len(lines) /\ \A i \in DOMAIN lines : lines[i] \in OrderLine BY <1>1
<1>4. IsFiniteSet(DOMAIN lines)
  <2>1. \A a, k \in Int : IsFiniteSet(a..k) BY FS_Interval
  <2> QED BY <1>3, <2>1
<1>5. \A i \in DOMAIN lines : OwedLines(order)[i] = Owed(lines[i]) /\ OwedLines(order)[i] \in Nat
  BY <1>2, <1>3, OwedNat
<1>6. OrderOwed(order) \in Nat BY <1>2, <1>4, <1>5, SumNat
<1> QED BY <1>3, <1>4, <1>5, <1>6 DEF lines

(* What is on its way of an order is what is missing of it. *)
LEMMA OrderQty ==
  ASSUME NEW order \in PurchaseOrder, OrderSound(order), NEW n
  PROVE  QtyOf(OrderInbound(n, order)) = OrderOwed(order)
<1> DEFINE lines == order.lines
           seqs == [i \in DOMAIN lines |-> LineInbound(n, order, lines[i])]
           c == Len(lines)
           f == [i \in 1..c |-> QtyOf(seqs[i])]
<1>1. OrderInbound(n, order) = Joined(seqs) BY DEF OrderInbound
<1>2. c \in Nat /\ DOMAIN lines = 1..c /\ IsFiniteSet(1..c) /\ \A i \in 1..c : lines[i] \in OrderLine BY OrderLines
<1>3. \A i \in 1..c : OwedLines(order)[i] = Owed(lines[i]) BY OrderLines
<1>4. \A i \in 1..c : LineSound(lines[i]) BY <1>2 DEF OrderSound
<1>5. OrderOwed(order) = SumOverSet(OwedLines(order), 1..c) BY <1>2 DEF OrderOwed
<1> HIDE DEF lines, c
<1>6. \A i \in 1..c : InboundParts(seqs[i]) /\ QtyOf(seqs[i]) = Owed(lines[i]) BY <1>2, <1>4, LineParts, LineQty
<1>7. seqs = [i \in 1..c |-> seqs[i]] BY <1>2
<1> HIDE DEF seqs
<1>8. QtyOf(Joined(seqs)) = SumOverSet(f, 1..c) BY <1>2, <1>6, <1>7, QtyOfJoined
<1>9. \A i \in 1..c : f[i] = OwedLines(order)[i] BY <1>3, <1>6
<1> HIDE DEF f
<1>10. SumOverSet(f, 1..c) = SumOverSet(OwedLines(order), 1..c) BY <1>2, <1>9, SumAgrees
<1> QED BY <1>1, <1>5, <1>8, <1>10

(* An order that is received has nothing missing. *)
LEMMA ReceivedOwesNothing ==
  ASSUME NEW order \in PurchaseOrder, OrderSound(order), order.status = "RECEIVED"
  PROVE  OrderOwed(order) = 0
<1> DEFINE lines == order.lines
<1>1. IsFiniteSet(DOMAIN lines) /\ \A i \in DOMAIN lines : lines[i] \in OrderLine /\ OwedLines(order)[i] = Owed(lines[i])
  BY OrderLines
<1>2. \A i \in DOMAIN lines : lines[i].received >= lines[i].ordered BY DEF OrderSound
<1>3. OrderOwed(order) = SumOverSet(OwedLines(order), DOMAIN lines) BY DEF OrderOwed
<1> HIDE DEF lines
<1>4. ASSUME NEW i \in DOMAIN lines PROVE OwedLines(order)[i] = 0
  <2> DEFINE ln == lines[i]
  <2>1. ln \in OrderLine /\ ln.received >= ln.ordered /\ OwedLines(order)[i] = Owed(ln) BY <1>1, <1>2
  <2> HIDE DEF ln
  <2>2. ln.received \in Int /\ ln.ordered \in Int BY <2>1 DEF OrderLine
  <2> QED BY <2>1, <2>2 DEF Owed
<1> QED BY <1>1, <1>3, <1>4, SumZero

OrderParted(t, orders) == [i \in DOMAIN orders |-> OrderInbound(orders[i], t.po[orders[i]])]
MoveParted(t, moves) ==
  [i \in DOMAIN moves |->
     LET order == t.transfers[moves[i]]
     IN  Part("TO", moves[i], OpenQty(order), FALSE, order.eta - Today)]
ArrivingAt(t, l) == {n \in OpenTransfers(t) : t.transfers[n].to = l}

(* What orders bring to a location. *)
LEMMA OrdersOnWay ==
  ASSUME NEW t, TablesOk(t), Balanced(t), NEW l
  PROVE  LET a == OrderParted(t, SetToSeq(OpenOrders(t, l)))
         IN  InboundParts(Joined(a)) /\ QtyOf(Joined(a)) = OnOrder(t.po, l)
<1> DEFINE O == OpenOrders(t, l)
           c == Cardinality(O)
           orders == SetToSeq(O)
           a == OrderParted(t, orders)
           g == [n \in PoNumbers |-> OwedTo(t.po[n], l)]
           h == [i \in 1..c |-> QtyOf(a[i])]
<1>1. O \in SUBSET PoNumbers
      /\ \A n \in O : t.po[n] # Absent /\ t.po[n].dest = l
  BY DEF OpenOrders
<1>2. \A n \in PoNumbers : t.po[n] # Absent => t.po[n] \in PurchaseOrder /\ OrderSound(t.po[n])
  BY DEF TablesOk, Balanced
<1>3. \A n \in PoNumbers : g[n] \in Int
  <2>1. ASSUME NEW order, order # Absent => order \in PurchaseOrder PROVE OwedTo(order, l) \in Int
    <3>1. order # Absent => OrderOwed(order) \in Nat BY <2>1, OrderLines
    <3> QED BY <3>1 DEF OwedTo
  <2> QED BY <2>1, <1>2
<1>4. \A n \in PoNumbers \ O : g[n] = 0
  <2>1. ASSUME NEW n \in PoNumbers \ O, t.po[n] # Absent, t.po[n].dest = l PROVE OrderOwed(t.po[n]) = 0
    <3> DEFINE order == t.po[n]
    <3>1. order.status \notin {"OPEN", "PARTIAL"} BY <2>1 DEF OpenOrders
    <3>2. order \in PurchaseOrder /\ OrderSound(order) BY <1>2, <2>1
    <3> HIDE DEF order
    <3>3. order.status = "RECEIVED" BY <3>1, <3>2 DEF PurchaseOrder
    <3>4. OrderOwed(order) = 0 BY <3>2, <3>3, ReceivedOwesNothing
    <3> QED BY <3>4 DEF order
  <2> QED BY <2>1 DEF OwedTo
<1>5. \A n \in O : g[n] = OrderOwed(t.po[n]) BY <1>1 DEF OwedTo
<1>6. IsFiniteSet(PoNumbers) /\ IsFiniteSet(O)
  <2>1. IsFiniteSet(PoNumbers) BY SupplyAssumption
  <2> HIDE DEF O
  <2> QED BY <1>1, <2>1, FS_Subset
<1>7. OnOrder(t.po, l) = SumOverSet(g, PoNumbers) BY DEF OnOrder
<1> HIDE DEF O, g
<1>8. SumOverSet(g, O) = SumOverSet(g, PoNumbers) BY <1>1, <1>3, <1>4, <1>6, SumOnly
<1>9. c \in Nat /\ orders \in [1..c -> O] BY <1>6, SetListed
<1>10. \A i \in 1..c : InboundParts(a[i]) /\ QtyOf(a[i]) = g[orders[i]]
  <2>1. ASSUME NEW i \in 1..c PROVE InboundParts(a[i]) /\ QtyOf(a[i]) = g[orders[i]]
    <3> DEFINE n == orders[i]
               order == t.po[n]
    <3>1. n \in O BY <1>9
    <3>2. a[i] = OrderInbound(n, order) BY <1>9 DEF OrderParted
    <3> HIDE DEF n, a
    <3>3. order \in PurchaseOrder /\ OrderSound(order) BY <1>1, <1>2, <3>1
    <3>4. g[n] = OrderOwed(order) BY <1>5, <3>1
    <3> HIDE DEF order
    <3>5. InboundParts(OrderInbound(n, order)) BY <3>3, OrderParts
    <3>6. QtyOf(OrderInbound(n, order)) = OrderOwed(order) BY <3>3, OrderQty
    <3>7. InboundParts(a[i]) /\ QtyOf(a[i]) = g[n] BY <3>2, <3>4, <3>5, <3>6
    <3> QED BY <3>7 DEF n
  <2> QED BY <2>1
<1>11. a = [i \in 1..c |-> a[i]] BY <1>9 DEF OrderParted
<1> HIDE DEF a
<1>12. InboundParts(Joined(a)) BY <1>9, <1>10, <1>11, MadeOfParts
<1>13. QtyOf(Joined(a)) = SumOverSet(h, 1..c) BY <1>9, <1>10, <1>11, QtyOfJoined
<1>14. \A i \in 1..c : h[i] = g[orders[i]] BY <1>10
<1>15. \A n \in O : g[n] \in Int BY <1>1, <1>3
<1> HIDE DEF h
<1>16. SumOverSet(h, 1..c) = SumOverSet(g, O) BY <1>6, <1>14, <1>15, SumListed
<1> QED BY <1>7, <1>8, <1>12, <1>13, <1>16 DEF a, O

(* What an open transfer has left to bring. *)
LEMMA TransferLeft ==
  ASSUME NEW t, TablesOk(t), Balanced(t), NEW n \in TransferNos
  PROVE  LET order == t.transfers[n]
         IN  /\ IsOpen(order) => order \in TransferOrder /\ OpenQty(order) \in Nat
             /\ n \in OpenTransfers(t) <=> IsOpen(order) /\ OpenQty(order) > 0
             /\ \A l : Brings(order, l) \in Nat /\ Takes(order, l) \in Nat
<1> DEFINE order == t.transfers[n]
<1>1. order # Absent => order \in TransferOrder BY DEF TablesOk
<1>2. IsOpen(order) => order.received <= order.qty BY DEF Balanced
<1>3. n \in OpenTransfers(t) <=> order # Absent /\ order.status = "OPEN" /\ order.qty > order.received
  BY DEF OpenTransfers
<1> HIDE DEF order
<1>4. order # Absent => order.qty \in Int /\ order.received \in Int BY <1>1 DEF TransferOrder
<1>5. IsOpen(order) => order \in TransferOrder /\ OpenQty(order) \in Nat BY <1>1, <1>2, <1>4 DEF IsOpen, OpenQty
<1>6. n \in OpenTransfers(t) <=> IsOpen(order) /\ OpenQty(order) > 0 BY <1>3, <1>4 DEF IsOpen, OpenQty
<1>7. \A l : Brings(order, l) \in Nat /\ Takes(order, l) \in Nat BY <1>5 DEF Brings, Takes
<1> QED BY <1>5, <1>6, <1>7 DEF order

(* What transfers bring to a location. *)
LEMMA TransfersOnWay ==
  ASSUME NEW t, TablesOk(t), Balanced(t), NEW l
  PROVE  LET b == MoveParted(t, SetToSeq(ArrivingAt(t, l)))
         IN  InboundParts(Joined(b)) /\ QtyOf(Joined(b)) = Arriving(t.transfers, l)
<1> DEFINE M == ArrivingAt(t, l)
           c == Cardinality(M)
           moves == SetToSeq(M)
           b == MoveParted(t, moves)
           g == [n \in TransferNos |-> Brings(t.transfers[n], l)]
           h == [i \in 1..c |-> QtyOf(b[i])]
<1>1. M \in SUBSET TransferNos /\ \A n \in TransferNos : n \in M <=> n \in OpenTransfers(t) /\ t.transfers[n].to = l
  BY DEF ArrivingAt, OpenTransfers
<1>2. \A n \in TransferNos :
        /\ n \in OpenTransfers(t) <=> IsOpen(t.transfers[n]) /\ OpenQty(t.transfers[n]) > 0
        /\ IsOpen(t.transfers[n]) => t.transfers[n] \in TransferOrder /\ OpenQty(t.transfers[n]) \in Nat
        /\ Brings(t.transfers[n], l) \in Nat
  BY TransferLeft
<1>3. \A n \in TransferNos : g[n] \in Int BY <1>2
<1>4. \A n \in TransferNos \ M : g[n] = 0
  <2>1. ASSUME NEW n \in TransferNos \ M PROVE Brings(t.transfers[n], l) = 0
    <3>1. CASE IsOpen(t.transfers[n]) /\ t.transfers[n].to = l
      <4>1. OpenQty(t.transfers[n]) \in Nat /\ ~(OpenQty(t.transfers[n]) > 0) BY <1>1, <1>2, <3>1
      <4>2. OpenQty(t.transfers[n]) = 0 BY <4>1
      <4> QED BY <4>2, <3>1 DEF Brings
    <3>2. CASE ~(IsOpen(t.transfers[n]) /\ t.transfers[n].to = l) BY <3>2 DEF Brings
    <3> QED BY <3>1, <3>2
  <2> QED BY <2>1
<1>5. \A n \in M : g[n] = OpenQty(t.transfers[n]) /\ g[n] > 0 /\ t.transfers[n] \in TransferOrder
  <2>1. \A n \in M : n \in TransferNos /\ IsOpen(t.transfers[n]) /\ t.transfers[n].to = l /\ OpenQty(t.transfers[n]) > 0
    BY <1>1, <1>2
  <2>2. \A n \in M : g[n] = OpenQty(t.transfers[n]) BY <2>1 DEF Brings
  <2> QED BY <2>1, <2>2, <1>2
<1>6. IsFiniteSet(TransferNos) /\ IsFiniteSet(M)
  <2>1. IsFiniteSet(TransferNos) BY SupplyAssumption
  <2> HIDE DEF M
  <2> QED BY <1>1, <2>1, FS_Subset
<1>7. Arriving(t.transfers, l) = SumOverSet(g, TransferNos) BY DEF Arriving
<1> HIDE DEF M, g
<1>8. SumOverSet(g, M) = SumOverSet(g, TransferNos) BY <1>1, <1>3, <1>4, <1>6, SumOnly
<1>9. c \in Nat /\ moves \in [1..c -> M] BY <1>6, SetListed
<1>10. \A i \in 1..c : InboundParts(b[i]) /\ QtyOf(b[i]) = g[moves[i]]
  <2>1. ASSUME NEW i \in 1..c PROVE InboundParts(b[i]) /\ QtyOf(b[i]) = g[moves[i]]
    <3> DEFINE n == moves[i]
               order == t.transfers[n]
               q == OpenQty(order)
               day == order.eta - Today
    <3>1. n \in M BY <1>9
    <3>2. b[i] = Part("TO", n, q, FALSE, day) BY <1>9 DEF MoveParted
    <3> HIDE DEF n, b
    <3>3. order \in TransferOrder BY <1>5, <3>1
    <3>4. g[n] = q /\ g[n] > 0 /\ g[n] \in Int BY <1>1, <1>3, <1>5, <3>1
    <3> HIDE DEF order
    <3>5. day \in Int BY <3>3, DocumentsAssumption DEF TransferOrder
    <3>6. "TO" \in InboundKinds BY DEF InboundKinds
    <3> HIDE DEF q, day
    <3>7. InboundParts(Part("TO", n, q, FALSE, day)) BY <3>4, <3>5, <3>6, OnePart
    <3>10. \A k \in Int : QtyOf(Part("TO", n, k, FALSE, day)) = IF k > 0 THEN k ELSE 0 BY <3>5, <3>6, PartQty
    <3>8. QtyOf(Part("TO", n, q, FALSE, day)) = IF q > 0 THEN q ELSE 0 BY <3>4, <3>10
    <3>9. InboundParts(b[i]) /\ QtyOf(b[i]) = g[n] BY <3>2, <3>4, <3>7, <3>8
    <3> QED BY <3>9 DEF n
  <2> QED BY <2>1
<1>11. b = [i \in 1..c |-> b[i]] BY <1>9 DEF MoveParted
<1> HIDE DEF b
<1>12. InboundParts(Joined(b)) BY <1>9, <1>10, <1>11, MadeOfParts
<1>13. QtyOf(Joined(b)) = SumOverSet(h, 1..c) BY <1>9, <1>10, <1>11, QtyOfJoined
<1>14. \A i \in 1..c : h[i] = g[moves[i]] BY <1>10
<1>15. \A n \in M : g[n] \in Int BY <1>1, <1>3
<1> HIDE DEF h
<1>16. SumOverSet(h, 1..c) = SumOverSet(g, M) BY <1>6, <1>14, <1>15, SumListed
<1> QED BY <1>7, <1>8, <1>12, <1>13, <1>16 DEF b, M

(* What transfers are going to take from a location. *)
LEMMA LeavingReserved ==
  ASSUME NEW t, TablesOk(t), Balanced(t), NEW l
  PROVE  ReservedForTransfers(t, l) = Leaving(t.transfers, l)
<1> DEFINE M == {k \in OpenTransfers(t) : t.transfers[k].from = l}
           f == [n \in M |-> OpenQty(t.transfers[n])]
           g == [n \in TransferNos |-> Takes(t.transfers[n], l)]
<1>1. M \in SUBSET TransferNos /\ \A n \in TransferNos : n \in M <=> n \in OpenTransfers(t) /\ t.transfers[n].from = l
  BY DEF OpenTransfers
<1>2. \A n \in TransferNos :
        /\ n \in OpenTransfers(t) <=> IsOpen(t.transfers[n]) /\ OpenQty(t.transfers[n]) > 0
        /\ IsOpen(t.transfers[n]) => OpenQty(t.transfers[n]) \in Nat
        /\ Takes(t.transfers[n], l) \in Nat
  BY TransferLeft
<1>3. \A n \in TransferNos : g[n] \in Int BY <1>2
<1>4. \A n \in TransferNos \ M : g[n] = 0
  <2>1. ASSUME NEW n \in TransferNos \ M PROVE Takes(t.transfers[n], l) = 0
    <3>1. CASE IsOpen(t.transfers[n]) /\ t.transfers[n].from = l
      <4>1. OpenQty(t.transfers[n]) \in Nat /\ ~(OpenQty(t.transfers[n]) > 0) BY <1>1, <1>2, <3>1
      <4>2. OpenQty(t.transfers[n]) = 0 BY <4>1
      <4> QED BY <4>2, <3>1 DEF Takes
    <3>2. CASE ~(IsOpen(t.transfers[n]) /\ t.transfers[n].from = l) BY <3>2 DEF Takes
    <3> QED BY <3>1, <3>2
  <2> QED BY <2>1
<1>5. \A n \in M : f[n] = g[n]
  <2>1. \A n \in M : n \in TransferNos /\ IsOpen(t.transfers[n]) /\ t.transfers[n].from = l BY <1>1, <1>2
  <2> QED BY <2>1 DEF Takes
<1>6. IsFiniteSet(TransferNos) BY SupplyAssumption
<1>7. Leaving(t.transfers, l) = SumOverSet(g, TransferNos) BY DEF Leaving
<1>8. ReservedForTransfers(t, l) = SumFunction(f) BY DEF ReservedForTransfers
<1>9. DOMAIN f = M OBVIOUS
<1> HIDE DEF M, f, g
<1>10. SumFunction(f) = SumOverSet(f, DOMAIN f) BY SumOfFunction
<1>11. SumOverSet(f, M) = SumOverSet(g, TransferNos) BY <1>1, <1>3, <1>4, <1>5, <1>6, SumOnly
<1> QED BY <1>7, <1>8, <1>9, <1>10, <1>11

(* What is being made at a location has a quantity. *)
LEMMA MadeParts ==
  ASSUME NEW l
  PROVE  LET c == [i \in DOMAIN Production |->
                     LET po == Production[i]
                     IN  IF po.loc = l /\ po.item = Own THEN Part("PROD", po.ref, po.qty, FALSE, po.due - Today)
                         ELSE <<>>]
         IN  InboundParts(Joined(c)) /\ QtyOf(Joined(c)) = Made(l) /\ Made(l) \in Nat
<1> DEFINE c == [i \in DOMAIN Production |->
                   LET po == Production[i]
                   IN  IF po.loc = l /\ po.item = Own THEN Part("PROD", po.ref, po.qty, FALSE, po.due - Today)
                       ELSE <<>>]
<1>0. Len(Production) \in Nat /\ DOMAIN Production = 1..Len(Production)
  <2> DEFINE R == Range(Production)
  <2>1. Production \in Seq(R) BY SupplyAssumption
  <2> HIDE DEF R
  <2> QED BY <2>1
<1>1. ASSUME NEW i \in 1..Len(Production) PROVE InboundParts(c[i])
  <2> DEFINE po == Production[i]
             day == po.due - Today
  <2>1. c[i] = IF po.loc = l /\ po.item = Own THEN Part("PROD", po.ref, po.qty, FALSE, day) ELSE <<>> BY <1>0
  <2>2. po.qty \in Int /\ day \in Int BY <1>0, SupplyAssumption, DocumentsAssumption
  <2>3. "PROD" \in InboundKinds BY DEF InboundKinds
  <2> HIDE DEF po, day
  <2>4. InboundParts(Part("PROD", po.ref, po.qty, FALSE, day)) BY <2>2, <2>3, OnePart
  <2> QED BY <2>1, <2>4, NoParts
<1>2. c = [i \in 1..Len(Production) |-> c[i]] BY <1>0
<1>3. Made(l) = QtyOf(Joined(c)) BY DEF Made
<1> HIDE DEF c
<1>4. InboundParts(Joined(c)) BY <1>0, <1>1, <1>2, MadeOfParts
<1>5. QtyOf(Joined(c)) \in Nat BY <1>4, QtySum DEF InboundParts, QtyOf
<1> QED BY <1>3, <1>4, <1>5 DEF c

(* Of no claims nothing is claimed, and of no orders nothing is late. *)
LEMMA NothingAsked ==
  ASSUME NEW l
  PROVE  (\A type : Claimed(<<>>, type) = 0) /\ QtyOf(Backorders(<<>>, l)) = 0
<1> DEFINE s == <<>>
<1>0. DOMAIN s = {} OBVIOUS
<1> HIDE DEF s
<1>1. ASSUME NEW type PROVE Claimed(s, type) = 0
  <2>1. {i \in DOMAIN s : s[i].type = type} = {} BY <1>0
  <2>2. Claimed(s, type) = QtyAt(s, {}) BY <2>1 DEF Claimed
  <2> QED BY <2>2, QtyNothing
<1>2. QtyOf(Backorders(s, l)) = 0
  <2> DEFINE order == InOrder({}, [i \in {} |-> <<>>])
             w == [n \in DOMAIN order |-> s[order[n]]]
  <2>1. {i \in DOMAIN s : s[i].loc = l /\ s[i].day < 0} = {} BY <1>0
  <2>2. Backorders(s, l) = Where(s, {}) BY <2>1 DEF Backorders
  <2>3. Where(s, {}) = w BY DEF Where
  <2>4. DOMAIN order = {}
    <3>1. Cardinality({}) = 0 BY FS_EmptySet
    <3>2. 1..0 = {} OBVIOUS
    <3> QED BY <3>1, <3>2 DEF InOrder
  <2> HIDE DEF order
  <2>5. DOMAIN w = {} BY <2>4
  <2> HIDE DEF w
  <2> QED BY <2>2, <2>3, <2>5, QtyNothing DEF QtyOf
<1> QED BY <1>1, <1>2 DEF s

(* The buckets of stock that may be used. *)
LEMMA StockBuckets ==
  ASSUME NEW t, TablesOk(t), NEW l \in Locations
  PROVE  /\ \A lot \in Lots : <<l, lot, "UNRESTRICTED">> \in Buckets /\ t.balance[<<l, lot, "UNRESTRICTED">>] \in Nat
         /\ Stock(t.balance, l) \in Nat
<1> DEFINE f == [lot \in Lots |-> t.balance[<<l, lot, "UNRESTRICTED">>]]
<1>1. \A lot \in Lots : <<l, lot, "UNRESTRICTED">> \in Buckets BY DEF Buckets, States, OnHandStates
<1>2. \A lot \in Lots : t.balance[<<l, lot, "UNRESTRICTED">>] \in Nat BY <1>1 DEF TablesOk
<1>3. \A lot \in Lots : f[lot] \in Nat BY <1>2
<1>4. Stock(t.balance, l) = SumOverSet(f, Lots) BY DEF Stock
<1> HIDE DEF f
<1>5. SumOverSet(f, Lots) \in Nat BY <1>3, LotsFinite, SumNat
<1> QED BY <1>1, <1>2, <1>4, <1>5

(* What orders owe to a location. *)
LEMMA OwedTyped ==
  ASSUME NEW po, \A n \in PoNumbers : po[n] # Absent => po[n] \in PurchaseOrder, NEW l
  PROVE  /\ \A n \in PoNumbers : OwedTo(po[n], l) \in Nat
         /\ OnOrder(po, l) \in Nat
<1> DEFINE g == [n \in PoNumbers |-> OwedTo(po[n], l)]
<1>1. \A n \in PoNumbers : OwedTo(po[n], l) \in Nat
  <2>1. ASSUME NEW order, order # Absent => order \in PurchaseOrder PROVE OwedTo(order, l) \in Nat
    <3>1. order # Absent => OrderOwed(order) \in Nat BY <2>1, OrderLines
    <3> QED BY <3>1 DEF OwedTo
  <2> QED BY <2>1
<1>2. \A n \in PoNumbers : g[n] \in Nat BY <1>1
<1>3. OnOrder(po, l) = SumOverSet(g, PoNumbers) BY DEF OnOrder
<1>4. IsFiniteSet(PoNumbers) BY SupplyAssumption
<1> HIDE DEF g
<1>5. SumOverSet(g, PoNumbers) \in Nat BY <1>2, <1>4, SumNat
<1> QED BY <1>1, <1>3, <1>5

(* What transfers bring and take. *)
LEMMA MovesTyped ==
  ASSUME NEW t, TablesOk(t), Balanced(t), NEW l
  PROVE  Arriving(t.transfers, l) \in Nat /\ Leaving(t.transfers, l) \in Nat
<1> DEFINE f == [n \in TransferNos |-> Brings(t.transfers[n], l)]
           g == [n \in TransferNos |-> Takes(t.transfers[n], l)]
<1>1. \A n \in TransferNos : Brings(t.transfers[n], l) \in Nat /\ Takes(t.transfers[n], l) \in Nat BY TransferLeft
<1>2. \A n \in TransferNos : f[n] \in Nat /\ g[n] \in Nat BY <1>1
<1>3. Arriving(t.transfers, l) = SumOverSet(f, TransferNos) /\ Leaving(t.transfers, l) = SumOverSet(g, TransferNos)
  BY DEF Arriving, Leaving
<1>4. IsFiniteSet(TransferNos) BY SupplyAssumption
<1> HIDE DEF f, g
<1>5. SumOverSet(f, TransferNos) \in Nat /\ SumOverSet(g, TransferNos) \in Nat BY <1>2, <1>4, SumNat
<1> QED BY <1>3, <1>5

(* The position of a location that claims and orders leave alone is what is *)
(* in place there, less what is leaving and more what is on its way.        *)
LEMMA PositionInPlace ==
  ASSUME NEW t, TablesOk(t), Balanced(t), NEW l \in Locations
  PROVE  Position(PairInputs(t, <<>>, <<>>, l)) = InPlace(t, l)
<1> DEFINE s == <<>>
           p == PairInputs(t, s, s, l)
           stock == [lot \in Lots |-> t.balance[<<l, lot, "UNRESTRICTED">>]]
           a == OrderParted(t, SetToSeq(OpenOrders(t, l)))
           b == MoveParted(t, SetToSeq(ArrivingAt(t, l)))
           c == [i \in DOMAIN Production |->
                   LET po == Production[i]
                   IN  IF po.loc = l /\ po.item = Own THEN Part("PROD", po.ref, po.qty, FALSE, po.due - Today)
                       ELSE <<>>]
<1>1. (\A type : Claimed(s, type) = 0) /\ QtyOf(Backorders(s, l)) = 0 BY NothingAsked
<1> HIDE DEF s
<1>2. /\ p.usable = SumFunction(stock) /\ p.inbound = Inbound(t, l)
      /\ p.allocated = Claimed(s, "ALLOCATED") /\ p.committed = Claimed(s, "COMMITTED")
      /\ p.reserved = Claimed(s, "RESERVED") + ReservedForTransfers(t, l)
      /\ p.backorders = Backorders(s, l)
  BY DEF PairInputs
<1>3. p.usable = Stock(t.balance, l)
  <2>1. DOMAIN stock = Lots OBVIOUS
  <2>2. Stock(t.balance, l) = SumOverSet(stock, Lots) BY DEF Stock
  <2> HIDE DEF stock, p
  <2>3. SumFunction(stock) = SumOverSet(stock, DOMAIN stock) BY SumOfFunction
  <2> QED BY <1>2, <2>1, <2>2, <2>3
<1>4. Inbound(t, l) = Joined(a) \o Joined(b) \o Joined(c) BY DEF Inbound, OrderParted, MoveParted, ArrivingAt
<1>5. InboundParts(Joined(a)) /\ QtyOf(Joined(a)) = OnOrder(t.po, l) BY OrdersOnWay
<1>6. InboundParts(Joined(b)) /\ QtyOf(Joined(b)) = Arriving(t.transfers, l) BY TransfersOnWay
<1>7. InboundParts(Joined(c)) /\ QtyOf(Joined(c)) = Made(l) /\ Made(l) \in Nat BY MadeParts
<1>8. QtyOf(Inbound(t, l)) = QtyOf(Joined(a)) + QtyOf(Joined(b)) + QtyOf(Joined(c))
  <2> DEFINE u == Joined(a)
             v == Joined(b)
             w == Joined(c)
             x == u \o v
  <2>1. Goods(u) /\ Goods(v) /\ Goods(w) BY <1>5, <1>6, <1>7 DEF InboundParts
  <2> HIDE DEF u, v, w
  <2>2. Goods(x) /\ QtyOf(x) = QtyOf(u) + QtyOf(v) BY <2>1, QtyBoth
  <2>3. Inbound(t, l) = x \o w BY <1>4 DEF u, v, w
  <2> HIDE DEF x
  <2>4. QtyOf(x \o w) = QtyOf(x) + QtyOf(w) BY <2>1, <2>2, QtyBoth
  <2> QED BY <2>2, <2>3, <2>4 DEF u, v, w
<1>9. ReservedForTransfers(t, l) = Leaving(t.transfers, l) BY LeavingReserved
<1>10. Stock(t.balance, l) \in Nat BY StockBuckets
<1>11. OnOrder(t.po, l) \in Nat BY OwedTyped DEF TablesOk
<1>12. Arriving(t.transfers, l) \in Nat /\ Leaving(t.transfers, l) \in Nat BY MovesTyped
<1> HIDE DEF a, b, c, stock
<1>13. Position(p) = p.usable - p.allocated - p.committed - p.reserved + QtyOf(p.inbound) - QtyOf(p.backorders)
  <2> HIDE DEF p
  <2> QED BY DEF Position, Available
<1> HIDE DEF p
<1>14. /\ p.allocated = 0 /\ p.committed = 0 /\ p.reserved = Leaving(t.transfers, l)
       /\ QtyOf(p.backorders) = 0 /\ p.usable = Stock(t.balance, l)
  <2>1. Claimed(s, "ALLOCATED") = 0 /\ Claimed(s, "COMMITTED") = 0 /\ Claimed(s, "RESERVED") = 0 BY <1>1
  <2> QED BY <1>1, <1>2, <1>3, <1>9, <1>12, <2>1
<1>15. QtyOf(p.inbound) = OnOrder(t.po, l) + Arriving(t.transfers, l) + Made(l) BY <1>2, <1>5, <1>6, <1>7, <1>8
<1>16. Position(p) = InPlace(t, l)
  <2>1. Position(p) = Stock(t.balance, l) - 0 - 0 - Leaving(t.transfers, l)
                        + (OnOrder(t.po, l) + Arriving(t.transfers, l) + Made(l)) - 0 BY <1>13, <1>14, <1>15
  <2> QED BY <2>1, <1>7, <1>10, <1>11, <1>12 DEF InPlace
<1> QED BY <1>16 DEF p, s

-----------------------------------------------------------------------------
(* What a handler does to the position *)

(* A posting moves the stock of a location by what it moves of one bucket.  *)
LEMMA PostMoves ==
  ASSUME NEW t, TablesOk(t), NEW r, {"qty", "to", "lot"} \subseteq DOMAIN r, r.qty \in Int, r.lot \in Lots,
         PostIn(t, r) # Refused, NEW l \in Locations
  PROVE  Stock(PostIn(t, r).balance, l)
           = Stock(t.balance, l) + Delta(ResolveIn(t.quality, r), <<l, r.lot, "UNRESTRICTED">>)
<1> DEFINE s == ResolveIn(t.quality, r)
           At(lot) == <<l, lot, "UNRESTRICTED">>
           bal == Apply(t.balance, s)
           f == [lot \in Lots |-> t.balance[At(lot)]]
           g == [lot \in Lots |-> bal[At(lot)]]
<1>1. s.qty = r.qty /\ s.lot = r.lot BY DEF ResolveIn
<1> HIDE DEF s
<1>2. PostIn(t, r).balance = bal
  <2> DEFINE row == RowOf(t.balance, s, 0)
  <2>1. PostIn(t, r) = [t EXCEPT !.balance = bal, !.txns = Append(@, row)] BY DEF PostIn, s
  <2> HIDE DEF row, bal
  <2> QED BY <2>1 DEF TablesOk, TableNames
<1>3. \A b \in Debit(s) \cup Credit(s) : b[2] = r.lot
  <2>1. \A b \in Debit(s) : b[2] = s.lot BY DEF Debit
  <2>2. \A b \in Credit(s) : b[2] = s.lot BY DEF Credit
  <2> QED BY <1>1, <2>1, <2>2
<1>4. \A b : Delta(s, b) \in Int BY <1>1 DEF Delta
<1>5. \A lot \in Lots \ {r.lot} : Delta(s, At(lot)) = 0
  <2>1. ASSUME NEW lot \in Lots \ {r.lot} PROVE At(lot) \notin Debit(s) \cup Credit(s)
    <3>1. At(lot)[2] = lot OBVIOUS
    <3> QED BY <3>1, <1>3
  <2> QED BY <2>1 DEF Delta
<1>6. \A lot \in Lots : At(lot) \in Buckets /\ t.balance[At(lot)] \in Nat BY StockBuckets
<1>7. \A lot \in Lots : bal[At(lot)] = t.balance[At(lot)] + Delta(s, At(lot)) BY <1>6 DEF Apply
<1>8. Stock(t.balance, l) = SumOverSet(f, Lots) /\ Stock(bal, l) = SumOverSet(g, Lots) BY DEF Stock
<1>9. \A lot \in Lots : f[lot] \in Int BY <1>6
<1>10. \A lot \in Lots \ {r.lot} : g[lot] = f[lot] BY <1>5, <1>6, <1>7
<1>11. g[r.lot] = f[r.lot] + Delta(s, At(r.lot)) /\ g[r.lot] \in Int BY <1>4, <1>6, <1>7
<1> HIDE DEF f, g, bal
<1>12. SumOverSet(g, Lots) = SumOverSet(f, Lots) + (g[r.lot] - f[r.lot])
  <2> DEFINE x == r.lot
  <2>1. x \in Lots /\ (\A lot \in Lots \ {x} : g[lot] = f[lot]) /\ g[x] \in Int BY <1>10, <1>11
  <2>2. IsFiniteSet(Lots) BY LotsFinite
  <2> HIDE DEF x
  <2>3. SumOverSet(g, Lots) = SumOverSet(f, Lots) + (g[x] - f[x]) BY <1>9, <2>1, <2>2, SumChanges
  <2> QED BY <2>3 DEF x
<1>13. SumOverSet(f, Lots) \in Int BY <1>9, LotsFinite, SumInt
<1>14. Delta(s, At(r.lot)) \in Int /\ f[r.lot] \in Int BY <1>4, <1>9
<1>15. Stock(bal, l) = Stock(t.balance, l) + Delta(s, At(r.lot)) BY <1>8, <1>11, <1>12, <1>13, <1>14
<1> QED BY <1>2, <1>15 DEF s

(* The sum of orders changes by what one of them changes. *)
LEMMA OrdersMove ==
  ASSUME NEW po, \A n \in PoNumbers : po[n] # Absent => po[n] \in PurchaseOrder,
         NEW new, NEW n \in PoNumbers, \A k \in PoNumbers \ {n} : new[k] = po[k],
         NEW l, OwedTo(new[n], l) \in Int
  PROVE  OnOrder(new, l) = OnOrder(po, l) + (OwedTo(new[n], l) - OwedTo(po[n], l))
<1> DEFINE f == [k \in PoNumbers |-> OwedTo(po[k], l)]
           g == [k \in PoNumbers |-> OwedTo(new[k], l)]
<1>1. OnOrder(po, l) = SumOverSet(f, PoNumbers) /\ OnOrder(new, l) = SumOverSet(g, PoNumbers) BY DEF OnOrder
<1>2. \A k \in PoNumbers : f[k] \in Int
  <2>1. \A k \in PoNumbers : OwedTo(po[k], l) \in Nat BY OwedTyped
  <2> QED BY <2>1
<1>3. (\A k \in PoNumbers \ {n} : g[k] = f[k]) /\ g[n] \in Int OBVIOUS
<1>4. f[n] = OwedTo(po[n], l) /\ g[n] = OwedTo(new[n], l) OBVIOUS
<1>5. IsFiniteSet(PoNumbers) BY SupplyAssumption
<1> HIDE DEF f, g
<1>6. SumOverSet(g, PoNumbers) = SumOverSet(f, PoNumbers) + (g[n] - f[n])
  <2>1. \A k \in PoNumbers \ {n} : g[k] = f[k] BY <1>3
  <2>2. g[n] \in Int BY <1>3
  <2> QED BY ONLY <1>2, <2>1, <2>2, <1>5, n \in PoNumbers, SumChanges
<1> QED BY <1>1, <1>4, <1>6

(* So does what transfers bring and take. *)
LEMMA TransfersMove ==
  ASSUME NEW t, TablesOk(t), Balanced(t), NEW new, NEW n \in TransferNos,
         \A k \in TransferNos \ {n} : new[k] = t.transfers[k],
         NEW l, Brings(new[n], l) \in Int, Takes(new[n], l) \in Int
  PROVE  /\ Arriving(new, l) = Arriving(t.transfers, l) + (Brings(new[n], l) - Brings(t.transfers[n], l))
         /\ Leaving(new, l) = Leaving(t.transfers, l) + (Takes(new[n], l) - Takes(t.transfers[n], l))
<1> DEFINE old == t.transfers
           f == [k \in TransferNos |-> Brings(old[k], l)]
           g == [k \in TransferNos |-> Brings(new[k], l)]
           u == [k \in TransferNos |-> Takes(old[k], l)]
           v == [k \in TransferNos |-> Takes(new[k], l)]
<1>1. Arriving(old, l) = SumOverSet(f, TransferNos) /\ Arriving(new, l) = SumOverSet(g, TransferNos) BY DEF Arriving
<1>2. Leaving(old, l) = SumOverSet(u, TransferNos) /\ Leaving(new, l) = SumOverSet(v, TransferNos) BY DEF Leaving
<1>3. \A k \in TransferNos : Brings(old[k], l) \in Int /\ Takes(old[k], l) \in Int
  <2>1. \A k \in TransferNos : Brings(old[k], l) \in Nat /\ Takes(old[k], l) \in Nat BY TransferLeft
  <2> QED BY <2>1
<1> HIDE DEF old
<1>4. \A k \in TransferNos : f[k] \in Int /\ u[k] \in Int BY <1>3
<1>5. (\A k \in TransferNos \ {n} : g[k] = f[k] /\ v[k] = u[k]) /\ g[n] \in Int /\ v[n] \in Int BY DEF old
<1>6. /\ f[n] = Brings(old[n], l) /\ g[n] = Brings(new[n], l)
      /\ u[n] = Takes(old[n], l) /\ v[n] = Takes(new[n], l)
  OBVIOUS
<1>7. IsFiniteSet(TransferNos) BY SupplyAssumption
<1> HIDE DEF f, g, u, v
<1>8. SumOverSet(g, TransferNos) = SumOverSet(f, TransferNos) + (g[n] - f[n]) BY <1>4, <1>5, <1>7, SumChanges
<1>9. SumOverSet(v, TransferNos) = SumOverSet(u, TransferNos) + (v[n] - u[n]) BY <1>4, <1>5, <1>7, SumChanges
<1> QED BY <1>1, <1>2, <1>6, <1>8, <1>9 DEF old

(* A sum of differences. *)
LEMMA SumLess ==
  ASSUME NEW S, IsFiniteSet(S), NEW f, NEW g, NEW h,
         \A x \in S : f[x] \in Int /\ g[x] \in Int /\ h[x] = f[x] - g[x]
  PROVE  SumOverSet(h, S) = SumOverSet(f, S) - SumOverSet(g, S)
<1> DEFINE D == {U \in SUBSET S : SumOverSet(h, U) = SumOverSet(f, U) - SumOverSet(g, U)}
<1>1. {} \in D BY SumEmpty
<1>2. ASSUME NEW T \in SUBSET S, NEW x \in T, T \ {x} \in D PROVE T \in D
  <2> DEFINE R == T \ {x}
  <2>1. IsFiniteSet(T) /\ IsFiniteSet(R)
    <3>1. T \in SUBSET S /\ R \in SUBSET S OBVIOUS
    <3> QED BY <3>1, FS_Subset
  <2>2. \A y \in T : f[y] \in Int /\ g[y] \in Int /\ h[y] \in Int /\ h[y] = f[y] - g[y] OBVIOUS
  <2>3. SumOverSet(h, R) = SumOverSet(f, R) - SumOverSet(g, R) BY <1>2
  <2>4. SumOverSet(f, T) = f[x] + SumOverSet(f, R) BY <2>1, <2>2, SumTakesOut
  <2>5. SumOverSet(g, T) = g[x] + SumOverSet(g, R) BY <2>1, <2>2, SumTakesOut
  <2>6. SumOverSet(h, T) = h[x] + SumOverSet(h, R) BY <2>1, <2>2, SumTakesOut
  <2>7. SumOverSet(f, R) \in Int /\ SumOverSet(g, R) \in Int
    <3>1. \A y \in R : f[y] \in Int /\ g[y] \in Int OBVIOUS
    <3> HIDE DEF R
    <3> QED BY <2>1, <3>1, SumInt
  <2>8. h[x] = f[x] - g[x] /\ f[x] \in Int /\ g[x] \in Int OBVIOUS
  <2> HIDE DEF R, D
  <2>9. SumOverSet(h, T) = SumOverSet(f, T) - SumOverSet(g, T) BY <2>3, <2>4, <2>5, <2>6, <2>7, <2>8
  <2> QED BY <2>9 DEF D
<1>3. S \in D
  <2> HIDE DEF D
  <2> QED BY <1>1, <1>2, SubsetInduction
<1> QED BY <1>3

(* What a receipt takes off what a line and an order owe. *)
OffLine(ln, status, q) ==
  LET open == ln.ordered - ln.received
  IN  IF ln.sku # Own \/ status = "RECEIVED" \/ open < 0 THEN 0 ELSE IF q < open THEN q ELSE open
OffLines(order, q) == [i \in DOMAIN order.lines |-> OffLine(order.lines[i], order.status, q)]
OffOrder(order, q) == SumFunction(OffLines(order, q))

(* A receipt of the item on one of its lines. *)
LEMMA ReceiveLineOwes ==
  ASSUME NEW ln \in OrderLine, NEW q \in Nat, NEW status, status = "RECEIVED" => ln.received >= ln.ordered
  PROVE  /\ OffLine(ln, status, q) \in Int
         /\ LineSound(ReceiveLine(ln, q))
         /\ ReceiveLine(ln, q).sku = ln.sku
         /\ ln.received >= ln.ordered => ReceiveLine(ln, q).received >= ReceiveLine(ln, q).ordered
         /\ ln.sku = Own => Owed(ReceiveLine(ln, q)) = Owed(ln) - OffLine(ln, status, q)
         /\ ln.sku # Own => Owed(ReceiveLine(ln, q)) = 0 /\ Owed(ln) = 0 /\ OffLine(ln, status, q) = 0
<1> DEFINE new == ReceiveLine(ln, q)
           open == ln.ordered - ln.received
<1>0. ln.ordered \in Int /\ ln.received \in Int /\ ln.transit \in Int BY DEF OrderLine
<1>1. /\ new.sku = ln.sku /\ new.ordered = ln.ordered /\ new.received = ln.received + q
      /\ new.transit = IF ln.transit > q THEN ln.transit - q ELSE 0
  BY DEF ReceiveLine, OrderLine
<1> HIDE DEF new
<1>2. LineSound(new) BY <1>0, <1>1 DEF LineSound
<1>3. OffLine(ln, status, q) = IF ln.sku # Own \/ status = "RECEIVED" \/ open < 0 THEN 0 ELSE IF q < open THEN q ELSE open
  BY DEF OffLine
<1>4. OffLine(ln, status, q) \in Int BY <1>0, <1>3
<1>5. ASSUME ln.sku = Own PROVE Owed(new) = Owed(ln) - OffLine(ln, status, q)
  <2>1. Owed(ln) = IF ln.received < ln.ordered THEN open ELSE 0 BY <1>5 DEF Owed
  <2>2. Owed(new) = IF ln.received + q < ln.ordered THEN ln.ordered - (ln.received + q) ELSE 0 BY <1>1, <1>5 DEF Owed
  <2> QED BY <1>0, <1>3, <1>5, <2>1, <2>2
<1>6. ln.sku # Own => Owed(new) = 0 /\ Owed(ln) = 0 /\ OffLine(ln, status, q) = 0 BY <1>1, <1>3 DEF Owed
<1>7. ln.received >= ln.ordered => new.received >= new.ordered BY <1>0, <1>1
<1> QED BY <1>1, <1>2, <1>4, <1>5, <1>6, <1>7 DEF new

(* A receipt on an order. *)
LEMMA ReceivePoOwes ==
  ASSUME NEW order \in PurchaseOrder, OrderSound(order), NEW sku, NEW q \in Nat,
         ReceivePo(order, sku, q) \in PurchaseOrder
  PROVE  LET new == ReceivePo(order, sku, q)
         IN  /\ OrderSound(new) /\ new.dest = order.dest
             /\ OffOrder(order, q) \in Int
             /\ OrderOwed(new) = OrderOwed(order) - (IF sku = Own THEN OffOrder(order, q) ELSE 0)
<1> DEFINE new == ReceivePo(order, sku, q)
           old == order.lines
           I == DOMAIN old
           lines == [i \in I |-> IF old[i].sku = sku THEN ReceiveLine(old[i], q) ELSE old[i]]
           Whole == \A i \in DOMAIN lines : lines[i].received >= lines[i].ordered
           status == IF Whole THEN "RECEIVED" ELSE "PARTIAL"
           f == OwedLines(order)
           g == OffLines(order, q)
           h == OwedLines(new)
<1>1. new = [order EXCEPT !.lines = lines, !.status = status] BY DEF ReceivePo
<1>2. IsFiniteSet(I) /\ \A i \in I : old[i] \in OrderLine BY OrderLines
<1>3. \A i \in I : f[i] = Owed(old[i]) /\ f[i] \in Int
  <2>1. \A i \in I : f[i] = Owed(old[i]) /\ f[i] \in Nat BY OrderLines
  <2> QED BY <2>1
<1>4. \A i \in I : g[i] = OffLine(old[i], order.status, q) BY DEF OffLines
<1>5. \A i \in I : LineSound(old[i]) /\ (order.status = "RECEIVED" => old[i].received >= old[i].ordered)
  BY DEF OrderSound
<1>6. OrderOwed(order) = SumOverSet(f, I) BY DEF OrderOwed
<1>7. OffOrder(order, q) = SumOverSet(g, I)
  <2>1. DOMAIN g = I BY DEF OffLines
  <2>2. OffOrder(order, q) = SumFunction(g) BY DEF OffOrder
  <2> HIDE DEF g
  <2>3. SumFunction(g) = SumOverSet(g, DOMAIN g) BY SumOfFunction
  <2> QED BY <2>1, <2>2, <2>3
<1>8. DOMAIN lines = I /\ \A i \in I : lines[i] = IF old[i].sku = sku THEN ReceiveLine(old[i], q) ELSE old[i] OBVIOUS
<1>9. order = [supplier |-> order.supplier, dest |-> order.dest, status |-> order.status,
               promised |-> order.promised, eta |-> order.eta, lines |-> order.lines] BY DEF PurchaseOrder
<1> HIDE DEF new, lines, old, I
<1>10. new.lines = lines /\ new.dest = order.dest /\ new.status = status
  <2> HIDE DEF status
  <2> QED BY <1>1, <1>9
<1>11. \A i \in I : LET ln == old[i] IN
         /\ OffLine(ln, order.status, q) \in Int
         /\ LineSound(ReceiveLine(ln, q))
         /\ ln.sku = Own => Owed(ReceiveLine(ln, q)) = Owed(ln) - OffLine(ln, order.status, q)
         /\ ln.sku # Own => Owed(ReceiveLine(ln, q)) = 0 /\ Owed(ln) = 0 /\ OffLine(ln, order.status, q) = 0
  BY <1>2, <1>5, ReceiveLineOwes
<1>12. OrderSound(new)
  <2>1. \A i \in I : LineSound(lines[i]) BY <1>5, <1>8, <1>11
  <2>2. new.status = "RECEIVED" => Whole BY <1>10
  <2> QED BY <2>1, <2>2, <1>8, <1>10 DEF OrderSound
<1>13. h = [i \in I |-> Owed(lines[i])] /\ OrderOwed(new) = SumOverSet(h, I) BY <1>8, <1>10 DEF OwedLines, OrderOwed
<1>14. \A i \in I : g[i] \in Int BY <1>4, <1>11
<1> HIDE DEF f, g, h
<1>15. SumOverSet(g, I) \in Int BY <1>2, <1>14, SumInt
<1>16. CASE sku = Own
  <2>1. ASSUME NEW i \in I PROVE Owed(lines[i]) = f[i] - g[i]
    <3>1. CASE old[i].sku = Own BY <1>3, <1>4, <1>8, <1>11, <1>16, <3>1
    <3>2. CASE old[i].sku # Own
      <4>1. lines[i] = old[i] /\ f[i] = 0 /\ g[i] = 0 /\ Owed(old[i]) = 0 BY <1>3, <1>4, <1>8, <1>11, <1>16, <3>2
      <4> QED BY <4>1
    <3> QED BY <3>1, <3>2
  <2>2. \A i \in I : h[i] = f[i] - g[i] BY <2>1, <1>13
  <2>3. SumOverSet(h, I) = SumOverSet(f, I) - SumOverSet(g, I) BY <1>2, <1>3, <1>14, <2>2, SumLess
  <2> QED BY <1>6, <1>7, <1>10, <1>12, <1>13, <1>15, <1>16, <2>3 DEF new
<1>17. CASE sku # Own
  <2>1. ASSUME NEW i \in I PROVE Owed(lines[i]) = f[i]
    <3>1. CASE old[i].sku = sku
      <4>1. old[i].sku # Own BY <1>17, <3>1
      <4> QED BY <1>3, <1>8, <1>11, <3>1, <4>1
    <3>2. CASE old[i].sku # sku BY <1>3, <1>8, <3>2
    <3> QED BY <3>1, <3>2
  <2>2. \A i \in I : h[i] = f[i] BY <2>1, <1>13
  <2>3. SumOverSet(h, I) = SumOverSet(f, I) BY <1>2, <2>2, SumAgrees
  <2>4. SumOverSet(f, I) \in Int BY <1>2, <1>3, SumInt
  <2> QED BY <1>6, <1>7, <1>10, <1>12, <1>13, <1>15, <1>17, <2>3, <2>4 DEF new
<1> QED BY <1>16, <1>17

(* What the position does not see of a line, and of the lines of an order.  *)
SameLine(old, new) ==
  /\ new.sku = old.sku /\ new.ordered = old.ordered /\ new.received = old.received
  /\ LineSound(old) => LineSound(new)
SameLines(old, new) == DOMAIN new = DOMAIN old /\ \A i \in DOMAIN old : SameLine(old[i], new[i])

(* An order whose lines are the same owes the same. *)
LEMMA SameOrder ==
  ASSUME NEW order \in PurchaseOrder, OrderSound(order), NEW new,
         new.status = order.status, new.dest = order.dest, SameLines(order.lines, new.lines), new # Absent
  PROVE  OrderSound(new) /\ \A l : OwedTo(new, l) = OwedTo(order, l)
<1> DEFINE I == DOMAIN order.lines
<1>1. DOMAIN new.lines = I /\ \A i \in I : SameLine(order.lines[i], new.lines[i]) BY DEF SameLines
<1>2. OrderSound(new) BY <1>1 DEF OrderSound, SameLine
<1>3. \A i \in I : Owed(new.lines[i]) = Owed(order.lines[i]) BY <1>1 DEF SameLine, Owed
<1>4. OwedLines(new) = OwedLines(order) BY <1>1, <1>3 DEF OwedLines
<1>5. OrderOwed(new) = OrderOwed(order) BY <1>1, <1>4 DEF OrderOwed
<1>6. order # Absent BY DocumentsAssumption
<1> QED BY <1>2, <1>5, <1>6 DEF OwedTo

(* New dates do not change what is missing. *)
LEMMA RedateOwes ==
  ASSUME NEW order \in PurchaseOrder, NEW eta
  PROVE  LET new == Redate(order, eta)
         IN  new.status = order.status /\ new.dest = order.dest /\ SameLines(order.lines, new.lines)
<1> DEFINE old == order.lines
           lines == [i \in DOMAIN old |-> [old[i] EXCEPT !.eta = eta]]
           new == Redate(order, eta)
<1>1. new = [order EXCEPT !.eta = eta, !.lines = lines] BY DEF Redate
<1>2. order = [supplier |-> order.supplier, dest |-> order.dest, status |-> order.status,
               promised |-> order.promised, eta |-> order.eta, lines |-> order.lines] BY DEF PurchaseOrder
<1>3. \A i \in DOMAIN old : old[i] \in OrderLine BY OrderLines
<1> HIDE DEF old
<1>4. \A ln \in OrderLine : SameLine(ln, [ln EXCEPT !.eta = eta])
  <2>1. ASSUME NEW ln \in OrderLine PROVE SameLine(ln, [ln EXCEPT !.eta = eta])
    <3> DEFINE x == [ln EXCEPT !.eta = eta]
    <3>1. x.sku = ln.sku /\ x.ordered = ln.ordered /\ x.received = ln.received /\ x.transit = ln.transit
      BY DEF OrderLine
    <3> HIDE DEF x
    <3>2. SameLine(ln, x) BY <3>1 DEF SameLine, LineSound
    <3> QED BY <3>2 DEF x
  <2> QED BY <2>1
<1>5. SameLines(old, lines) BY <1>3, <1>4 DEF SameLines
<1> HIDE DEF lines, new
<1>6. new.status = order.status /\ new.dest = order.dest /\ new.lines = lines BY <1>1, <1>2
<1> QED BY <1>5, <1>6 DEF new, old

(* The invariant of the loop over the items of a shipment: the quantity in  *)
(* transit and the date are all that it changes.                            *)
LinesSame(base, s, n, acc) == LinesTyped(base, s, n, acc) /\ SameLines(base.lines, acc.lines)

Sending == INSTANCE FoldLemmas WITH Op <- ShipItem, Holds <- LinesSame

(* A dispatched item. *)
LEMMA ShipItemOwes ==
  ASSUME NEW acc, acc = [lines |-> acc.lines, eta |-> acc.eta], acc.lines \in Seq(OrderLine), NEW x, x.qty \in Nat
  PROVE  SameLines(acc.lines, ShipItem(acc, x).lines)
<1> DEFINE old == acc.lines
           lines == [i \in DOMAIN old |->
                       IF x.sku \in Skus /\ old[i].sku = x.sku THEN ShipLine(old[i], x.qty, acc.eta) ELSE old[i]]
<1>1. ShipItem(acc, x) = [acc EXCEPT !.lines = lines] BY DEF ShipItem
<1>2. old \in Seq(OrderLine) OBVIOUS
<1> HIDE DEF old
<1>3. \A i \in DOMAIN old : old[i] \in OrderLine BY <1>2
<1>4. ASSUME NEW ln \in OrderLine PROVE SameLine(ln, ShipLine(ln, x.qty, acc.eta))
  <2> DEFINE open == ln.ordered - ln.received
             new == ShipLine(ln, x.qty, acc.eta)
  <2>0. ln.ordered \in Int /\ ln.received \in Int /\ ln.transit \in Int BY DEF OrderLine
  <2>1. /\ new.sku = ln.sku /\ new.ordered = ln.ordered /\ new.received = ln.received
        /\ new.transit = IF ln.transit + x.qty < open THEN ln.transit + x.qty ELSE open
    BY DEF ShipLine, OrderLine
  <2> HIDE DEF new
  <2>2. LineSound(ln) => LineSound(new) BY <2>0, <2>1 DEF LineSound
  <2>3. SameLine(ln, new) BY <2>1, <2>2 DEF SameLine
  <2> QED BY <2>3 DEF new
<1>5. \A ln \in OrderLine : SameLine(ln, ln) BY DEF SameLine
<1>6. SameLines(old, lines) BY <1>3, <1>4, <1>5 DEF SameLines
<1> HIDE DEF lines
<1>7. [acc EXCEPT !.lines = lines].lines = lines OBVIOUS
<1> QED BY <1>1, <1>6, <1>7 DEF old

(* All dispatched items. *)
LEMMA ShipLinesOwe ==
  ASSUME NEW lines \in Seq(OrderLine), NEW shipped \in Seq([sku: Skus, qty: Nat]), NEW eta \in Nat \cup {Absent}
  PROVE  SameLines(lines, ShipLines(lines, shipped, eta))
<1> DEFINE base == [lines |-> lines, eta |-> eta]
           out == Sending!Fold(base, shipped)
           T == [sku: Skus, qty: Nat]
<1>1. LinesSame(base, shipped, 0, base)
  <2>1. SameLines(lines, lines) BY DEF SameLines, SameLine
  <2> QED BY <2>1 DEF LinesSame, LinesTyped
<1>6. base.lines = lines OBVIOUS
<1> HIDE DEF base, out
<1>2. ASSUME NEW i \in 1..Len(shipped), NEW acc, LinesSame(base, shipped, i - 1, acc)
      PROVE  LinesSame(base, shipped, i, ShipItem(acc, shipped[i]))
  <2> DEFINE x == shipped[i]
             new == ShipItem(acc, x)
  <2>1. x.qty \in Nat /\ x.qty \in Int
    <3>1. shipped \in Seq(T) OBVIOUS
    <3> HIDE DEF T
    <3>2. x \in T BY <3>1
    <3>3. x.qty \in Nat BY <3>2 DEF T
    <3> QED BY <3>3
  <2> HIDE DEF x
  <2>2. /\ acc = [lines |-> acc.lines, eta |-> acc.eta]
        /\ acc.lines \in Seq(OrderLine) /\ acc.eta \in Nat \cup {Absent}
        /\ SameLines(base.lines, acc.lines)
    BY <1>2 DEF LinesSame, LinesTyped
  <2>3. SameLines(acc.lines, new.lines) BY <2>1, <2>2, ShipItemOwes
  <2>4. /\ new = [lines |-> new.lines, eta |-> new.eta]
        /\ new.lines \in Seq(OrderLine) /\ new.eta \in Nat \cup {Absent}
    BY <2>1, <2>2, ShipItemKeeps
  <2> HIDE DEF new
  <2>5. SameLines(base.lines, new.lines) BY <2>2, <2>3 DEF SameLines, SameLine
  <2>6. LinesSame(base, shipped, i, new) BY <2>4, <2>5 DEF LinesSame, LinesTyped
  <2> QED BY <2>6 DEF new, x
<1>3. shipped \in Seq(T) OBVIOUS
<1> HIDE DEF T
<1>4. LinesSame(base, shipped, Len(shipped), out) BY <1>1, <1>2, <1>3, Sending!FoldHolds DEF out
<1>5. FoldLeft(ShipItem, base, shipped) = out
  BY DEF out, Sending!Fold, Sending!FoldLeft, Sending!MapThenFoldSet, Sending!Max, FoldLeft, MapThenFoldSet, Max
<1> QED BY <1>4, <1>5, <1>6 DEF LinesSame, ShipLines, base

-----------------------------------------------------------------------------
(* What each message does to the position *)

(* The parts of the position are numbers. *)
LEMMA InPlaceParts ==
  ASSUME NEW t, TablesOk(t), Balanced(t), NEW l \in Locations
  PROVE  /\ Stock(t.balance, l) \in Int /\ OnOrder(t.po, l) \in Int
         /\ Arriving(t.transfers, l) \in Int /\ Leaving(t.transfers, l) \in Int
         /\ Made(l) \in Int /\ InPlace(t, l) \in Int
<1>1. Stock(t.balance, l) \in Nat BY StockBuckets
<1>2. OnOrder(t.po, l) \in Nat BY OwedTyped DEF TablesOk
<1>3. Arriving(t.transfers, l) \in Nat /\ Leaving(t.transfers, l) \in Nat BY MovesTyped
<1>4. Made(l) \in Nat BY MadeParts
<1> QED BY <1>1, <1>2, <1>3, <1>4 DEF InPlace

(* What a posting moves into the stock that may be used: a receipt its      *)
(* quantity, unless its lot is held back.                                   *)
LEMMA ReceiptDelta ==
  ASSUME NEW q, NEW r, r.type = "RECEIPT", r.qty \in Int, r.to = NoState, "to" \in DOMAIN r, NEW l
  PROVE  Delta(ResolveIn(q, r), <<l, r.lot, "UNRESTRICTED">>)
           = IF r.loc = l /\ (r.lot = 0 \/ q[r.lot] = "RELEASED") THEN r.qty ELSE 0
<1> DEFINE s == ResolveIn(q, r)
           aside == r.lot # 0 /\ q[r.lot] # "RELEASED"
<1>2. /\ s.type = "RECEIPT" /\ s.loc = r.loc /\ s.lot = r.lot /\ s.qty = r.qty
      /\ IF aside THEN s.to \in {"QUARANTINED", "BLOCKED"} ELSE s.to = NoState
  BY DEF ResolveIn
<1> HIDE DEF s
<1>3. Debit(s) = {} BY <1>2 DEF Debit, CountTypes
<1>4. Credit(s) = {<<r.loc, r.lot, Or(s.to, "UNRESTRICTED")>>} BY <1>2 DEF Credit
<1>5. IF aside THEN Or(s.to, "UNRESTRICTED") # "UNRESTRICTED" ELSE Or(s.to, "UNRESTRICTED") = "UNRESTRICTED"
  BY <1>2 DEF Or, NoState
<1>6. <<l, r.lot, "UNRESTRICTED">> \in Credit(s) <=> r.loc = l /\ ~aside BY <1>4, <1>5
<1>7. Delta(s, <<l, r.lot, "UNRESTRICTED">>) = IF r.loc = l /\ ~aside THEN r.qty ELSE 0 BY <1>2, <1>3, <1>6 DEF Delta
<1> QED BY <1>7 DEF s

(* An issue takes its quantity out. *)
LEMMA IssueDelta ==
  ASSUME NEW q, NEW r, r.type = "ISSUE", r.qty \in Int, r.from = NoState, NEW l
  PROVE  Delta(ResolveIn(q, r), <<l, r.lot, "UNRESTRICTED">>) = IF r.loc = l THEN -r.qty ELSE 0
<1>2. ResolveIn(q, r) = r BY DEF ResolveIn
<1>3. Credit(r) = {} BY DEF Credit, CountTypes
<1>4. Debit(r) = {<<r.loc, r.lot, "UNRESTRICTED">>} BY DEF Debit, Or, NoState
<1>5. Delta(r, <<l, r.lot, "UNRESTRICTED">>) = IF r.loc = l THEN -r.qty ELSE 0 BY <1>3, <1>4 DEF Delta
<1> QED BY <1>2, <1>5

(* A hold takes it out, a release puts it back. *)
LEMMA HoldDelta ==
  ASSUME NEW q, NEW r, r.type \in {"QUARANTINE", "RELEASE"}, r.qty \in Int, r.from = NoState, r.to = NoState, NEW l
  PROVE  Delta(ResolveIn(q, r), <<l, r.lot, "UNRESTRICTED">>)
           = IF r.loc # l THEN 0 ELSE IF r.type = "QUARANTINE" THEN -r.qty ELSE r.qty
<1>1. ResolveIn(q, r) = r BY DEF ResolveIn
<1>2. CASE r.type = "QUARANTINE"
  <2>1. Credit(r) = {<<r.loc, r.lot, "QUARANTINED">>} /\ Debit(r) = {<<r.loc, r.lot, "UNRESTRICTED">>}
    BY <1>2 DEF Credit, Debit, Or, NoState, CountTypes
  <2>2. Delta(r, <<l, r.lot, "UNRESTRICTED">>) = IF r.loc = l THEN -r.qty ELSE 0 BY <1>2, <2>1 DEF Delta
  <2> QED BY <1>1, <1>2, <2>2
<1>3. CASE r.type = "RELEASE"
  <2>1. Credit(r) = {<<r.loc, r.lot, "UNRESTRICTED">>} /\ Debit(r) = {<<r.loc, r.lot, "QUARANTINED">>}
    BY <1>3 DEF Credit, Debit, Or, NoState, CountTypes
  <2>2. Delta(r, <<l, r.lot, "UNRESTRICTED">>) = IF r.loc = l THEN r.qty ELSE 0 BY <1>3, <2>1 DEF Delta
  <2> QED BY <1>1, <1>3, <2>2
<1> QED BY <1>2, <1>3

(* A count takes out or puts in what it found missing or too much.          *)
LEMMA CountDelta ==
  ASSUME NEW q, NEW r, r.type = "CYCLE_COUNT", r.qty \in Int, r.dir \in {"IN", "OUT"},
         r.from = "UNRESTRICTED", r.to = "UNRESTRICTED", NEW l
  PROVE  Delta(ResolveIn(q, r), <<l, r.lot, "UNRESTRICTED">>)
           = IF r.loc # l THEN 0 ELSE IF r.dir = "IN" THEN r.qty ELSE -r.qty
<1>2. ResolveIn(q, r) = r BY DEF ResolveIn
<1>4. CASE r.dir = "IN"
  <2>1. Debit(r) = {} /\ Credit(r) = {<<r.loc, r.lot, "UNRESTRICTED">>}
    BY <1>4 DEF Debit, Credit, CountTypes, Or, NoState
  <2>2. Delta(r, <<l, r.lot, "UNRESTRICTED">>) = IF r.loc # l THEN 0 ELSE r.qty BY <2>1 DEF Delta
  <2> QED BY <1>2, <1>4, <2>2
<1>5. CASE r.dir = "OUT"
  <2>1. Credit(r) = {} /\ Debit(r) = {<<r.loc, r.lot, "UNRESTRICTED">>}
    BY <1>5 DEF Debit, Credit, CountTypes, Or, NoState
  <2>2. Delta(r, <<l, r.lot, "UNRESTRICTED">>) = IF r.loc # l THEN 0 ELSE -r.qty BY <2>1 DEF Delta
  <2> QED BY <1>2, <1>5, <2>2
<1> QED BY <1>4, <1>5

(* A transfer takes it from one location to the other.                      *)
LEMMA TransferDelta ==
  ASSUME NEW q, NEW r, r.type = "TRANSFER", r.qty \in Int, r.from = NoState, r.to = NoState, NEW l
  PROVE  Delta(ResolveIn(q, r), <<l, r.lot, "UNRESTRICTED">>)
           = (IF r.toLoc = l THEN r.qty ELSE 0) - (IF r.loc = l THEN r.qty ELSE 0)
<1>2. ResolveIn(q, r) = r BY DEF ResolveIn
<1>3. Credit(r) = {<<r.toLoc, r.lot, "UNRESTRICTED">>} /\ Debit(r) = {<<r.loc, r.lot, "UNRESTRICTED">>}
  BY DEF Credit, Debit, Or, NoState, CountTypes
<1>4. Delta(r, <<l, r.lot, "UNRESTRICTED">>) = (IF r.toLoc = l THEN r.qty ELSE 0) - (IF r.loc = l THEN r.qty ELSE 0)
  BY <1>3 DEF Delta
<1> QED BY <1>2, <1>4

(* A posting leaves orders and transfers alone: the position moves with the *)
(* stock.                                                                   *)
LEMMA PostInMoves ==
  ASSUME NEW t, TablesOk(t), Balanced(t), NEW r, {"qty", "to", "lot"} \subseteq DOMAIN r, r.qty \in Int, r.lot \in Lots,
         PostIn(t, r) # Refused, NEW l \in Locations
  PROVE  /\ Balanced(PostIn(t, r))
         /\ Delta(ResolveIn(t.quality, r), <<l, r.lot, "UNRESTRICTED">>) \in Int
         /\ InPlace(PostIn(t, r), l)
              = InPlace(t, l) + Delta(ResolveIn(t.quality, r), <<l, r.lot, "UNRESTRICTED">>)
<1> DEFINE s == ResolveIn(t.quality, r)
           out == PostIn(t, r)
           d == Delta(s, <<l, r.lot, "UNRESTRICTED">>)
<1>1. out.po = t.po /\ out.transfers = t.transfers BY PostInKeeps
<1>2. Stock(out.balance, l) = Stock(t.balance, l) + d BY PostMoves
<1>3. d \in Int
  <2>1. s.qty = r.qty BY DEF ResolveIn
  <2> HIDE DEF s
  <2> QED BY <2>1 DEF Delta
<1> HIDE DEF out, d
<1>4. Balanced(out) BY <1>1 DEF Balanced
<1>5. InPlace(out, l) = InPlace(t, l) + d BY <1>1, <1>2, <1>3, InPlaceParts DEF InPlace
<1> QED BY <1>3, <1>4, <1>5 DEF out, d

(* A new lot moves nothing. *)
LEMMA WithLotMoves ==
  ASSUME NEW t, TablesOk(t), Balanced(t), NEW lot
  PROVE  LET u == WithLot(t, lot)
         IN  /\ TablesOk(u) /\ Balanced(u) /\ u.quality = t.quality /\ u.balance = t.balance
             /\ u.po = t.po /\ u.transfers = t.transfers
             /\ \A l : InPlace(u, l) = InPlace(t, l)
<1> DEFINE u == WithLot(t, lot)
<1>1. TablesOk(u) /\ u.po = t.po /\ u.transfers = t.transfers BY WithLotOk
<1>2. u.quality = t.quality /\ u.balance = t.balance BY DEF WithLot, TablesOk, TableNames
<1> HIDE DEF u
<1>3. Balanced(u) BY <1>1 DEF Balanced
<1>4. \A l : InPlace(u, l) = InPlace(t, l) BY <1>1, <1>2 DEF InPlace
<1> QED BY <1>1, <1>2, <1>3, <1>4 DEF u

(* A changed order moves what it owes to each location.                     *)
LEMMA OrderMoves ==
  ASSUME NEW t, TablesOk(t), Balanced(t), NEW n \in PoNumbers, NEW new \in PurchaseOrder, OrderSound(new),
         NEW out, TablesOk(out), out.po = [t.po EXCEPT ![n] = new], out.transfers = t.transfers, out.balance = t.balance
  PROVE  /\ Balanced(out)
         /\ \A l \in Locations : /\ OwedTo(new, l) \in Int /\ OwedTo(t.po[n], l) \in Int
                                 /\ InPlace(out, l) = InPlace(t, l) + (OwedTo(new, l) - OwedTo(t.po[n], l))
<1>1. \A k \in PoNumbers : out.po[k] = IF k = n THEN new ELSE t.po[k] BY DEF TablesOk
<1>2. Balanced(out) BY <1>1 DEF Balanced
<1>3. ASSUME NEW l \in Locations
      PROVE  /\ OwedTo(new, l) \in Int /\ OwedTo(t.po[n], l) \in Int
             /\ InPlace(out, l) = InPlace(t, l) + (OwedTo(new, l) - OwedTo(t.po[n], l))
  <2> DEFINE po == t.po
             next == out.po
  <2>1. \A k \in PoNumbers : po[k] # Absent => po[k] \in PurchaseOrder BY DEF TablesOk
  <2>2. \A k \in PoNumbers : next[k] # Absent => next[k] \in PurchaseOrder BY DEF TablesOk
  <2>3. next[n] = new /\ \A k \in PoNumbers \ {n} : next[k] = po[k] BY <1>1
  <2>4. InPlace(t, l) = Stock(t.balance, l) - Leaving(t.transfers, l) + OnOrder(po, l) + Arriving(t.transfers, l) + Made(l)
    BY DEF InPlace
  <2>5. InPlace(out, l) = Stock(t.balance, l) - Leaving(t.transfers, l) + OnOrder(next, l) + Arriving(t.transfers, l) + Made(l)
    BY DEF InPlace
  <2>6. /\ Stock(t.balance, l) \in Int /\ OnOrder(po, l) \in Int
        /\ Arriving(t.transfers, l) \in Int /\ Leaving(t.transfers, l) \in Int /\ Made(l) \in Int
    BY InPlaceParts
  <2> HIDE DEF po, next
  <2>7. OwedTo(po[n], l) \in Int /\ OwedTo(next[n], l) \in Int
    <3>1. \A k \in PoNumbers : OwedTo(po[k], l) \in Nat BY <2>1, OwedTyped
    <3>2. \A k \in PoNumbers : OwedTo(next[k], l) \in Nat BY <2>2, OwedTyped
    <3> QED BY <3>1, <3>2
  <2>8. OnOrder(next, l) = OnOrder(po, l) + (OwedTo(next[n], l) - OwedTo(po[n], l)) BY <2>1, <2>3, <2>7, OrdersMove
  <2>9. InPlace(out, l) = InPlace(t, l) + (OwedTo(next[n], l) - OwedTo(po[n], l)) BY <2>4, <2>5, <2>6, <2>7, <2>8
  <2> QED BY <2>3, <2>7, <2>9 DEF po
<1> QED BY <1>2, <1>3

(* What a receipt brings into usable stock, and takes off an open order.    *)
StockIn(t, m, l) == IF m.loc = l /\ m.sku = Own /\ (m.lot = 0 \/ t.quality[m.lot] = "RELEASED") THEN m.qty ELSE 0
OrderOff(t, m, l) ==
  IF m.po = Absent \/ t.po[m.po] = Absent \/ t.po[m.po].dest # l THEN 0 ELSE OffOrder(t.po[m.po], m.qty)

(* InventoryReceived: what becomes usable comes in, what was on order goes. *)
LEMMA ReceivedMoves ==
  ASSUME NEW t, TablesOk(t), Balanced(t), NEW m, NEW txn, OnReceived(t, m, txn) # Refused,
         m.lot \in Lots, m.qty \in Nat, m.po \in PoNumbers \cup {Absent}
  PROVE  /\ Balanced(OnReceived(t, m, txn))
         /\ \A l \in Locations :
              InPlace(OnReceived(t, m, txn), l)
                = InPlace(t, l) + (StockIn(t, m, l) - (IF m.sku = Own THEN OrderOff(t, m, l) ELSE 0))
<1> DEFINE r == [Plain("RECEIPT", m.loc, m.lot, m.qty) EXCEPT !.id = txn]
           u == WithLot(t, m.lot)
           posted == IF m.sku # Own THEN t ELSE PostIn(u, r)
           out == OnReceived(t, m, txn)
<1>0. TablesOk(out) BY ReceivedKeeps
<1>1. posted # Refused BY DEF OnReceived
<1>2. out = IF m.po = Absent THEN posted
            ELSE IF posted.po[m.po] = Absent THEN posted
            ELSE [posted EXCEPT !.po[m.po] = ReceivePo(@, m.sku, m.qty)]
  BY DEF OnReceived
<1>3. /\ TablesOk(posted) /\ Balanced(posted) /\ posted.po = t.po
      /\ \A l \in Locations : StockIn(t, m, l) \in Int /\ InPlace(posted, l) = InPlace(t, l) + StockIn(t, m, l)
  <2>1. CASE m.sku # Own
    <3>1. posted = t BY <2>1
    <3>2. \A l : StockIn(t, m, l) = 0 BY <2>1 DEF StockIn
    <3> HIDE DEF posted
    <3>3. \A l \in Locations : InPlace(t, l) \in Int BY InPlaceParts
    <3> QED BY <3>1, <3>2, <3>3
  <2>2. CASE m.sku = Own
    <3>1. posted = PostIn(u, r) BY <2>2
    <3>2. /\ TablesOk(u) /\ Balanced(u) /\ u.quality = t.quality /\ u.po = t.po
          /\ \A l : InPlace(u, l) = InPlace(t, l)
      BY WithLotMoves
    <3>3. {"qty", "to", "lot"} \subseteq DOMAIN r /\ r.qty = m.qty /\ r.lot = m.lot BY DEF Plain
    <3>4. \A l : Delta(ResolveIn(t.quality, r), <<l, m.lot, "UNRESTRICTED">>) = StockIn(t, m, l)
      <4>1. r.type = "RECEIPT" /\ r.loc = m.loc /\ r.to = NoState /\ r.qty \in Int BY <3>3 DEF Plain
      <4>2. r.lot = m.lot /\ r.qty = m.qty /\ "to" \in DOMAIN r BY <3>3
      <4> DEFINE q == t.quality
      <4> HIDE DEF r, q
      <4>3. \A l : Delta(ResolveIn(q, r), <<l, r.lot, "UNRESTRICTED">>)
                     = IF r.loc = l /\ (r.lot = 0 \/ q[r.lot] = "RELEASED") THEN r.qty ELSE 0
        BY <4>1, <4>2, ReceiptDelta
      <4> QED BY <2>2, <4>1, <4>2, <4>3 DEF StockIn, q
    <3> HIDE DEF r, u, posted
    <3>5. {"qty", "to"} \subseteq DOMAIN r /\ r.qty \in Int /\ r.lot \in Lots BY <3>3
    <3>6. TablesOk(posted) /\ posted.po = u.po BY <1>1, <3>1, <3>2, <3>5, PostInKeeps
    <3>7. ASSUME NEW l \in Locations
          PROVE  /\ Balanced(posted)
                 /\ StockIn(t, m, l) \in Int /\ InPlace(posted, l) = InPlace(t, l) + StockIn(t, m, l)
      <4>1. /\ Balanced(PostIn(u, r))
            /\ Delta(ResolveIn(u.quality, r), <<l, r.lot, "UNRESTRICTED">>) \in Int
            /\ InPlace(PostIn(u, r), l) = InPlace(u, l) + Delta(ResolveIn(u.quality, r), <<l, r.lot, "UNRESTRICTED">>)
        BY <1>1, <3>1, <3>2, <3>3, <3>5, PostInMoves
      <4> QED BY <4>1, <3>1, <3>2, <3>3, <3>4
    <3>8. Balanced(posted)
      <4>1. posted.po = t.po /\ posted.transfers = t.transfers
        <5>1. PostIn(u, r).transfers = u.transfers BY <1>1, <3>1, <3>2, <3>5, PostInKeeps
        <5>2. u.transfers = t.transfers BY WithLotMoves DEF u
        <5> QED BY <5>1, <5>2, <3>1, <3>2, <3>6
      <4> QED BY <4>1 DEF Balanced
    <3> QED BY <3>2, <3>6, <3>7, <3>8
  <2> QED BY <2>1, <2>2
<1> HIDE DEF posted, out
<1>4. CASE m.po = Absent \/ t.po[m.po] = Absent
  <2>1. out = posted BY <1>2, <1>3, <1>4
  <2>2. \A l : OrderOff(t, m, l) = 0 BY <1>4 DEF OrderOff
  <2>3. \A l \in Locations : InPlace(t, l) \in Int BY InPlaceParts
  <2> QED BY <1>3, <2>1, <2>2, <2>3 DEF out
<1>5. CASE m.po # Absent /\ t.po[m.po] # Absent
  <2> DEFINE n == m.po
             order == t.po[n]
             new == ReceivePo(order, m.sku, m.qty)
  <2>1. n \in PoNumbers BY <1>5
  <2>2. order \in PurchaseOrder /\ OrderSound(order) BY <1>5, <2>1 DEF TablesOk, Balanced
  <2>3. out = [posted EXCEPT !.po[n] = new] BY <1>2, <1>3, <1>5
  <2>4. /\ out.po = [posted.po EXCEPT ![n] = new] /\ out.transfers = posted.transfers /\ out.balance = posted.balance
        /\ out.po[n] = new
    <3> HIDE DEF new
    <3> QED BY <1>3, <2>1, <2>3 DEF TablesOk, TableNames
  <2>5. new \in PurchaseOrder BY <2>2, ReceivePoTyped
  <2>6. /\ OrderSound(new) /\ new.dest = order.dest /\ OffOrder(order, m.qty) \in Int
        /\ OrderOwed(new) = OrderOwed(order) - (IF m.sku = Own THEN OffOrder(order, m.qty) ELSE 0)
    BY <2>2, <2>5, ReceivePoOwes
  <2>7. OrderOwed(order) \in Nat BY <2>2, OrderLines
  <2>8. new # Absent /\ order # Absent BY <2>2, <2>5, DocumentsAssumption
  <2>9. posted.po[n] = order BY <1>3
  <2> HIDE DEF new, order
  <2>10. \A l : OwedTo(new, l) - OwedTo(order, l) = -(IF m.sku = Own /\ order.dest = l THEN OffOrder(order, m.qty) ELSE 0)
    BY <2>6, <2>7, <2>8 DEF OwedTo
  <2>11. \A l : OrderOff(t, m, l) = IF order.dest = l THEN OffOrder(order, m.qty) ELSE 0
    BY <1>5 DEF OrderOff, order
  <2> HIDE DEF n
  <2>12. /\ Balanced(out)
         /\ \A l \in Locations : InPlace(out, l) = InPlace(posted, l) + (OwedTo(new, l) - OwedTo(posted.po[n], l))
    BY <1>0, <1>3, <2>1, <2>4, <2>5, <2>6, OrderMoves DEF out
  <2>13. \A l \in Locations : InPlace(t, l) \in Int BY InPlaceParts
  <2>14. ASSUME NEW l \in Locations
         PROVE InPlace(out, l) = InPlace(t, l) + (StockIn(t, m, l) - (IF m.sku = Own THEN OrderOff(t, m, l) ELSE 0))
    <3>1. InPlace(posted, l) = InPlace(t, l) + StockIn(t, m, l) /\ StockIn(t, m, l) \in Int BY <1>3
    <3>2. InPlace(out, l) = InPlace(posted, l) + (OwedTo(new, l) - OwedTo(order, l)) BY <2>9, <2>12
    <3>3. OwedTo(new, l) - OwedTo(order, l) = -(IF m.sku = Own THEN OrderOff(t, m, l) ELSE 0) BY <2>10, <2>11
    <3>4. (IF m.sku = Own THEN OrderOff(t, m, l) ELSE 0) \in Int BY <2>6, <2>11
    <3> QED BY <2>13, <3>1, <3>2, <3>3, <3>4
  <2> QED BY <2>12, <2>14 DEF out
<1> QED BY <1>4, <1>5

(* A posting of a request on a lot that may be new.                         *)
LEMMA LotPostMoves ==
  ASSUME NEW t, TablesOk(t), Balanced(t), NEW r, {"qty", "to", "lot"} \subseteq DOMAIN r, r.qty \in Int, r.lot \in Lots,
         NEW lot, PostIn(WithLot(t, lot), r) # Refused
  PROVE  LET out == PostIn(WithLot(t, lot), r)
         IN  /\ TablesOk(out) /\ Balanced(out) /\ out.po = t.po /\ out.transfers = t.transfers
             /\ \A l \in Locations :
                  /\ Delta(ResolveIn(t.quality, r), <<l, r.lot, "UNRESTRICTED">>) \in Int
                  /\ InPlace(out, l) = InPlace(t, l) + Delta(ResolveIn(t.quality, r), <<l, r.lot, "UNRESTRICTED">>)
<1> DEFINE u == WithLot(t, lot)
           out == PostIn(u, r)
<1>1. /\ TablesOk(u) /\ Balanced(u) /\ u.quality = t.quality /\ u.po = t.po /\ u.transfers = t.transfers
      /\ \A l : InPlace(u, l) = InPlace(t, l)
  BY WithLotMoves
<1> HIDE DEF u
<1>2. TablesOk(out) /\ out.po = u.po /\ out.transfers = u.transfers BY <1>1, PostInKeeps DEF u
<1>3. Balanced(out) BY <1>1, <1>2 DEF Balanced
<1>4. ASSUME NEW l \in Locations
      PROVE  /\ Delta(ResolveIn(u.quality, r), <<l, r.lot, "UNRESTRICTED">>) \in Int
             /\ InPlace(out, l) = InPlace(u, l) + Delta(ResolveIn(u.quality, r), <<l, r.lot, "UNRESTRICTED">>)
  BY <1>1, PostInMoves DEF u
<1> QED BY <1>1, <1>2, <1>3, <1>4 DEF u

(* InventoryIssued: what is issued goes. *)
LEMMA IssuedMoves ==
  ASSUME NEW t, TablesOk(t), Balanced(t), NEW m, NEW txn, OnIssued(t, m, txn) # Refused,
         m.lot \in Lots, m.qty \in Nat
  PROVE  /\ Balanced(OnIssued(t, m, txn))
         /\ \A l \in Locations :
              InPlace(OnIssued(t, m, txn), l) = InPlace(t, l) + (IF m.loc = l THEN -m.qty ELSE 0)
<1> DEFINE r == [Plain("ISSUE", m.loc, m.lot, m.qty) EXCEPT !.id = txn]
           q == t.quality
           out == OnIssued(t, m, txn)
<1>1. /\ {"qty", "to", "lot"} \subseteq DOMAIN r /\ r.qty = m.qty /\ r.lot = m.lot /\ r.loc = m.loc
      /\ r.type = "ISSUE" /\ r.from = NoState
  BY DEF Plain
<1>2. out = PostIn(WithLot(t, m.lot), r) BY DEF OnIssued
<1> HIDE DEF r, q
<1>3. r.qty \in Int /\ r.lot \in Lots BY <1>1
<1>4. \A l : Delta(ResolveIn(q, r), <<l, r.lot, "UNRESTRICTED">>) = IF r.loc = l THEN -r.qty ELSE 0
  BY <1>1, <1>3, IssueDelta
<1>5. /\ Balanced(out)
      /\ \A l \in Locations : InPlace(out, l) = InPlace(t, l) + Delta(ResolveIn(t.quality, r), <<l, r.lot, "UNRESTRICTED">>)
  BY <1>1, <1>2, <1>3, LotPostMoves
<1> HIDE DEF out
<1> QED BY <1>1, <1>4, <1>5 DEF q, out

(* QualityHold and QualityRelease: what is held goes and what is released   *)
(* comes, and the status of the lot moves nothing by itself.                *)
LEMMA QualityMoves ==
  ASSUME NEW t, TablesOk(t), Balanced(t), NEW m, NEW txn, OnQuality(t, m, txn) # Refused,
         m.lot \in Lots, m.qty \in Nat
  PROVE  /\ Balanced(OnQuality(t, m, txn))
         /\ \A l \in Locations :
              InPlace(OnQuality(t, m, txn), l)
                = InPlace(t, l) + (IF m.loc # l THEN 0 ELSE IF m.type = "QualityHold" THEN -m.qty ELSE m.qty)
<1> DEFINE kind == IF m.type = "QualityHold" THEN "QUARANTINE" ELSE "RELEASE"
           r == [Plain(kind, m.loc, m.lot, m.qty) EXCEPT !.id = txn]
           posted == PostIn(WithLot(t, m.lot), r)
           status == IF m.type = "QualityHold" THEN "QUARANTINE" ELSE "RELEASED"
           q == t.quality
           out == OnQuality(t, m, txn)
<1>1. kind \in {"QUARANTINE", "RELEASE"} /\ (kind = "QUARANTINE" <=> m.type = "QualityHold") OBVIOUS
<1>2. posted # Refused /\ out = [posted EXCEPT !.quality[m.lot] = status] BY DEF OnQuality
<1> HIDE DEF kind, q, status
<1>3. /\ {"qty", "to", "lot"} \subseteq DOMAIN r /\ r.qty = m.qty /\ r.lot = m.lot /\ r.loc = m.loc
      /\ r.type = kind /\ r.from = NoState /\ r.to = NoState
  BY DEF Plain
<1> HIDE DEF r
<1>4. r.qty \in Int /\ r.lot \in Lots BY <1>3
<1>5. \A l : Delta(ResolveIn(q, r), <<l, r.lot, "UNRESTRICTED">>)
               = IF r.loc # l THEN 0 ELSE IF r.type = "QUARANTINE" THEN -r.qty ELSE r.qty
  BY <1>1, <1>3, <1>4, HoldDelta
<1>6. /\ TablesOk(posted) /\ Balanced(posted)
      /\ \A l \in Locations : InPlace(posted, l) = InPlace(t, l) + Delta(ResolveIn(t.quality, r), <<l, r.lot, "UNRESTRICTED">>)
  BY <1>2, <1>3, <1>4, LotPostMoves
<1> HIDE DEF posted, out
<1>7. out.balance = posted.balance /\ out.po = posted.po /\ out.transfers = posted.transfers
  BY <1>2, <1>6 DEF TablesOk, TableNames
<1>8. Balanced(out) BY <1>6, <1>7 DEF Balanced
<1>9. \A l : InPlace(out, l) = InPlace(posted, l) BY <1>7 DEF InPlace
<1> QED BY <1>1, <1>3, <1>5, <1>6, <1>8, <1>9 DEF q, out

(* InventoryAdjusted: the stock without a lot becomes what was counted.     *)
LEMMA AdjustedMoves ==
  ASSUME NEW t, TablesOk(t), Balanced(t), NEW m, OnAdjusted(t, m) # Refused, m.loc \in Locations, m.counted \in Nat
  PROVE  /\ Balanced(OnAdjusted(t, m))
         /\ \A l \in Locations :
              InPlace(OnAdjusted(t, m), l)
                = InPlace(t, l) + (IF m.loc = l THEN m.counted - t.balance[<<l, 0, "UNRESTRICTED">>] ELSE 0)
<1> DEFINE system == t.balance[<<m.loc, 0, "UNRESTRICTED">>]
           q == IF m.counted > system THEN m.counted - system ELSE system - m.counted
           dir == IF m.counted > system THEN "IN" ELSE "OUT"
           r == [Plain("CYCLE_COUNT", m.loc, 0, q) EXCEPT !.dir = dir, !.from = "UNRESTRICTED", !.to = "UNRESTRICTED"]
           lotStatus == t.quality
           out == OnAdjusted(t, m)
<1>0. 0 \in Lots BY LedgerAssumption DEF Lots
<1>1. system \in Nat BY <1>0, StockBuckets
<1>2. q \in Int BY <1>1
<1>3. dir \in {"IN", "OUT"} /\ m.counted - system = IF dir = "IN" THEN q ELSE -q BY <1>1
<1>4. out = IF m.counted = system THEN t ELSE PostIn(t, r) BY DEF OnAdjusted, CountIn
<1>5. \A l \in Locations : InPlace(t, l) \in Int BY InPlaceParts
<1>6. \A l \in Locations : (IF m.loc = l THEN m.counted - t.balance[<<l, 0, "UNRESTRICTED">>] ELSE 0)
                             = (IF m.loc = l THEN m.counted - system ELSE 0) OBVIOUS
<1> HIDE DEF q, dir, system
<1>7. /\ {"qty", "to", "lot"} \subseteq DOMAIN r /\ r.qty = q /\ r.lot = 0 /\ r.loc = m.loc /\ r.dir = dir
      /\ r.type = "CYCLE_COUNT" /\ r.from = "UNRESTRICTED" /\ r.to = "UNRESTRICTED"
  BY DEF Plain
<1> HIDE DEF r, out, lotStatus
<1>8. CASE m.counted = system
  <2>1. out = t BY <1>4, <1>8
  <2>2. m.counted - system = 0 BY <1>1, <1>8
  <2> QED BY <2>1, <2>2, <1>5, <1>6 DEF out
<1>9. CASE m.counted # system
  <2>1. out = PostIn(t, r) /\ PostIn(t, r) # Refused BY <1>4, <1>9 DEF out
  <2>2. r.qty \in Int /\ r.lot \in Lots /\ r.dir \in {"IN", "OUT"} BY <1>0, <1>2, <1>3, <1>7
  <2>3. \A l : Delta(ResolveIn(lotStatus, r), <<l, r.lot, "UNRESTRICTED">>)
                 = IF r.loc # l THEN 0 ELSE IF r.dir = "IN" THEN r.qty ELSE -r.qty
    BY <2>2, <1>7, CountDelta
  <2>4. \A l \in Locations :
          /\ Balanced(out)
          /\ InPlace(out, l) = InPlace(t, l) + Delta(ResolveIn(t.quality, r), <<l, r.lot, "UNRESTRICTED">>)
    BY <1>7, <2>1, <2>2, PostInMoves
  <2>5. \A l \in Locations : InPlace(out, l) = InPlace(t, l) + (IF m.loc = l THEN m.counted - system ELSE 0)
    BY <1>3, <1>7, <2>3, <2>4 DEF lotStatus
  <2>6. Balanced(out) BY <2>4
  <2> QED BY <1>6, <2>5, <2>6 DEF out
<1> QED BY <1>8, <1>9

(* An order with other dates or quantities in transit moves nothing.        *)
LEMMA SameOrderMoves ==
  ASSUME NEW t, TablesOk(t), Balanced(t), NEW n \in PoNumbers, t.po[n] # Absent,
         NEW new \in PurchaseOrder, new.status = t.po[n].status, new.dest = t.po[n].dest,
         SameLines(t.po[n].lines, new.lines),
         NEW out, TablesOk(out), out.po = [t.po EXCEPT ![n] = new], out.transfers = t.transfers, out.balance = t.balance
  PROVE  Balanced(out) /\ \A l \in Locations : InPlace(out, l) = InPlace(t, l)
<1> DEFINE order == t.po[n]
<1>1. order \in PurchaseOrder /\ OrderSound(order) BY DEF TablesOk, Balanced
<1>2. new # Absent BY DocumentsAssumption
<1>3. new.status = order.status /\ new.dest = order.dest /\ SameLines(order.lines, new.lines) OBVIOUS
<1> HIDE DEF order
<1>4. OrderSound(new) /\ \A l : OwedTo(new, l) = OwedTo(order, l) BY <1>1, <1>2, <1>3, SameOrder
<1>5. /\ Balanced(out)
      /\ \A l \in Locations : /\ OwedTo(new, l) \in Int /\ OwedTo(t.po[n], l) \in Int
                              /\ InPlace(out, l) = InPlace(t, l) + (OwedTo(new, l) - OwedTo(t.po[n], l))
  BY <1>4, OrderMoves
<1>6. \A l \in Locations : InPlace(t, l) \in Int BY InPlaceParts
<1> QED BY <1>4, <1>5, <1>6 DEF order

(* PurchaseOrderDelayed moves nothing. *)
LEMMA PoDelayedMoves ==
  ASSUME NEW t, TablesOk(t), Balanced(t), NEW m, OnPoDelayed(t, m) # Refused,
         m.po \in PoNumbers, m.eta \in Nat \cup {Absent}
  PROVE  Balanced(OnPoDelayed(t, m)) /\ \A l \in Locations : InPlace(OnPoDelayed(t, m), l) = InPlace(t, l)
<1> DEFINE order == t.po[m.po]
           new == Redate(order, m.eta)
           out == OnPoDelayed(t, m)
<1>1. order # Absent /\ out = IF m.eta = Absent THEN t ELSE [t EXCEPT !.po[m.po] = new] BY DEF OnPoDelayed
<1>2. TablesOk(out) BY PoDelayedKeeps
<1>3. order \in PurchaseOrder BY <1>1 DEF TablesOk
<1>7. new \in PurchaseOrder
  <2> HIDE DEF order
  <2> QED BY <1>3, RedateTyped
<1>4. new.status = order.status /\ new.dest = order.dest /\ SameLines(order.lines, new.lines)
  <2> HIDE DEF order
  <2> QED BY <1>3, RedateOwes
<1> HIDE DEF new, out
<1>5. CASE m.eta = Absent BY <1>1, <1>5 DEF out
<1>6. CASE m.eta # Absent
  <2>1. /\ out.po = [t.po EXCEPT ![m.po] = new] /\ out.transfers = t.transfers /\ out.balance = t.balance
        /\ out.po[m.po] = new
    BY <1>1, <1>6 DEF TablesOk, TableNames
  <2> DEFINE n == m.po
  <2>2. /\ n \in PoNumbers /\ t.po[n] # Absent
        /\ new.status = t.po[n].status /\ new.dest = t.po[n].dest /\ SameLines(t.po[n].lines, new.lines)
        /\ out.po = [t.po EXCEPT ![n] = new]
    BY <1>1, <1>4, <2>1
  <2> HIDE DEF n, order
  <2>3. Balanced(out) /\ \A l \in Locations : InPlace(out, l) = InPlace(t, l)
    BY <1>2, <1>7, <2>1, <2>2, SameOrderMoves
  <2> QED BY <2>3 DEF out
<1> QED BY <1>5, <1>6

(* ShipmentDispatched moves nothing: the order counted already. *)
LEMMA DispatchedMoves ==
  ASSUME NEW t, TablesOk(t), Balanced(t), NEW m, OnShipDispatched(t, m) # Refused,
         m.po \in PoNumbers \cup {Absent}, m.eta \in Nat \cup {Absent}, m.lines \in Seq([sku: Skus, qty: Nat])
  PROVE  /\ Balanced(OnShipDispatched(t, m))
         /\ \A l \in Locations : InPlace(OnShipDispatched(t, m), l) = InPlace(t, l)
<1> DEFINE order == OrderOf(t, m)
           po == OrdersShipped(t, m)
           out == OnShipDispatched(t, m)
<1>1. out = [t EXCEPT !.ships[m.no] = ShipmentOf(t, m), !.po = po] BY Zenon DEF OnShipDispatched
<1>2. TablesOk(out) BY DispatchedKeeps
<1> HIDE DEF po, out
<1>3. out.po = po /\ out.transfers = t.transfers /\ out.balance = t.balance
  BY <1>1 DEF TablesOk, TableNames
<1>4. CASE order = Absent
  <2>1. out.po = t.po BY <1>3, <1>4 DEF po, OrdersShipped
  <2>2. Balanced(out) BY <1>3, <2>1 DEF Balanced
  <2>3. \A l : InPlace(out, l) = InPlace(t, l) BY <1>3, <2>1 DEF InPlace
  <2> QED BY <2>2, <2>3 DEF out
<1>5. CASE order # Absent
  <2> DEFINE n == m.po
             old == t.po[n]
             lines == ShipLines(old.lines, m.lines, m.eta)
             new == [old EXCEPT !.lines = lines]
  <2>1. n \in PoNumbers /\ old = order BY <1>5 DEF OrderOf
  <2>2. old \in PurchaseOrder BY <2>1, <1>5 DEF TablesOk
  <2>3. po = [t.po EXCEPT ![n] = new]
    <3>1. po = [t.po EXCEPT ![n].lines = ShipLines(@, m.lines, m.eta)] BY <1>5 DEF po, OrdersShipped
    <3>2. t.po[n].lines = old.lines OBVIOUS
    <3> QED BY <3>1
  <2>4. old.lines \in Seq(OrderLine) BY <2>2 DEF PurchaseOrder
  <2>5. lines \in Seq(OrderLine) /\ SameLines(old.lines, lines)
    <3> DEFINE have == old.lines
               shipped == m.lines
               eta == m.eta
    <3>1. have \in Seq(OrderLine) /\ shipped \in Seq([sku: Skus, qty: Nat]) /\ eta \in Nat \cup {Absent} BY <2>4
    <3> HIDE DEF have, shipped, eta, old
    <3>2. ShipLines(have, shipped, eta) \in Seq(OrderLine) BY <3>1, ShipLinesKeep
    <3>3. SameLines(have, ShipLines(have, shipped, eta)) BY <3>1, ShipLinesOwe
    <3> QED BY <3>2, <3>3 DEF have, shipped, eta
  <2> HIDE DEF lines
  <2>6. new \in PurchaseOrder /\ new.status = old.status /\ new.dest = old.dest /\ new.lines = lines
    <3> HIDE DEF old
    <3> QED BY <2>2, <2>5 DEF PurchaseOrder
  <2> HIDE DEF new, n
  <2>7. Balanced(out) /\ \A l \in Locations : InPlace(out, l) = InPlace(t, l)
    BY <1>2, <1>3, <1>5, <2>1, <2>3, <2>5, <2>6, SameOrderMoves
  <2> QED BY <2>7 DEF out
<1> QED BY <1>4, <1>5

(* PurchaseOrderCreated: an order of the item counts from its creation.     *)
LEMMA PoCreatedMoves ==
  ASSUME NEW t, TablesOk(t), Balanced(t), NEW m, OnPoCreated(t, m) # Refused,
         m.po \in PoNumbers, m.supplier \in MasterKeys, m.loc \in Locations,
         m.sku \in Skus, m.qty \in Nat, m.eta \in Nat \cup {Absent}
  PROVE  /\ Balanced(OnPoCreated(t, m))
         /\ \A l \in Locations :
              InPlace(OnPoCreated(t, m), l) = InPlace(t, l) + (IF m.loc = l /\ m.sku = Own THEN m.qty ELSE 0)
<1> DEFINE promised == IF m.eta # Absent THEN m.eta ELSE Today
           line == [sku |-> m.sku, ordered |-> m.qty, received |-> 0, transit |-> 0, status |-> "ACTIVE",
                    eta |-> promised]
           new == NewOrder(m.supplier, m.loc, m.sku, m.qty, 0, promised, promised)
           out == OnPoCreated(t, m)
           n == m.po
<1>1. out = [t EXCEPT !.po[n] = new] /\ t.po[n] = Absent BY DEF OnPoCreated
<1>2. TablesOk(out) BY PoCreatedKeeps
<1> HIDE DEF promised
<1>3. new = [supplier |-> m.supplier, dest |-> m.loc, status |-> "OPEN", promised |-> promised, eta |-> promised,
             lines |-> <<line>>] BY DEF NewOrder
<1>4. line.sku = m.sku /\ line.ordered = m.qty /\ line.received = 0 /\ line.transit = 0 OBVIOUS
<1> HIDE DEF line, new, out
<1>5. new.dest = m.loc /\ new.status = "OPEN" /\ DOMAIN new.lines = {1} /\ new.lines[1] = line BY <1>3
<1> HIDE DEF n
<1>6. /\ out.po = [t.po EXCEPT ![n] = new] /\ out.transfers = t.transfers /\ out.balance = t.balance
      /\ out.po[n] = new /\ n \in PoNumbers
  BY <1>1 DEF TablesOk, TableNames, n
<1>7. new # Absent /\ new \in PurchaseOrder
  <2>1. new # Absent
    <3>1. promised \in Nat BY DocumentsAssumption DEF promised
    <3>2. line \in OrderLine
      <4>1. line = [sku |-> m.sku, ordered |-> m.qty, received |-> 0, transit |-> 0, status |-> "ACTIVE",
                    eta |-> promised] BY DEF line
      <4> QED BY <3>1, <4>1 DEF OrderLine
    <3>3. <<line>> \in Seq(OrderLine) BY <3>2
    <3>4. new \in PurchaseOrder BY <1>3, <3>1, <3>3 DEF PurchaseOrder
    <3> QED BY <3>4, DocumentsAssumption
  <2> QED BY <2>1, <1>2, <1>6 DEF TablesOk
<1>8. Owed(line) = IF m.sku = Own THEN m.qty ELSE 0 BY <1>4 DEF Owed
<1>9. OrderOwed(new) = Owed(line)
  <2> DEFINE f == OwedLines(new)
  <2>1. f[1] = Owed(line) BY <1>5 DEF OwedLines
  <2>2. f[1] \in Int BY <2>1, <1>8
  <2>3. OrderOwed(new) = SumOverSet(f, {1}) BY <1>5 DEF OrderOwed
  <2> HIDE DEF f
  <2>4. IsFiniteSet({1}) BY FS_Singleton
  <2>5. SumOverSet(f, {1}) = f[1] + SumOverSet(f, {1} \ {1}) BY <2>2, <2>4, SumTakesOut
  <2>6. SumOverSet(f, {1} \ {1}) = 0
    <3>1. {1} \ {1} = {} OBVIOUS
    <3> QED BY <3>1, SumEmpty
  <2> QED BY <2>1, <2>2, <2>3, <2>5, <2>6
<1>10. OrderSound(new) BY <1>4, <1>5 DEF OrderSound, LineSound
<1>11. \A l : OwedTo(new, l) = IF m.loc = l /\ m.sku = Own THEN m.qty ELSE 0 BY <1>5, <1>7, <1>8, <1>9 DEF OwedTo
<1>12. \A l : OwedTo(t.po[n], l) = 0 BY <1>1 DEF OwedTo
<1>13. /\ Balanced(out)
       /\ \A l \in Locations : /\ OwedTo(new, l) \in Int /\ OwedTo(t.po[n], l) \in Int
                               /\ InPlace(out, l) = InPlace(t, l) + (OwedTo(new, l) - OwedTo(t.po[n], l))
  BY <1>2, <1>6, <1>7, <1>10, OrderMoves
<1>14. \A l \in Locations : InPlace(t, l) \in Int BY InPlaceParts
<1>15. \A l \in Locations : InPlace(out, l) = InPlace(t, l) + (IF m.loc = l /\ m.sku = Own THEN m.qty ELSE 0)
  BY <1>11, <1>12, <1>13, <1>14
<1> QED BY <1>13, <1>15 DEF out

(* A changed transfer moves what it brings and takes.                       *)
LEMMA TransferMoves ==
  ASSUME NEW t, TablesOk(t), Balanced(t), NEW n \in TransferNos, NEW new \in TransferOrder,
         IsOpen(new) => new.received <= new.qty,
         NEW out, TablesOk(out), out.transfers = [t.transfers EXCEPT ![n] = new], out.po = t.po,
         NEW d, \A l \in Locations : d[l] \in Int /\ Stock(out.balance, l) = Stock(t.balance, l) + d[l]
  PROVE  /\ Balanced(out)
         /\ \A l \in Locations :
              /\ Brings(new, l) \in Int /\ Brings(t.transfers[n], l) \in Int
              /\ Takes(new, l) \in Int /\ Takes(t.transfers[n], l) \in Int
              /\ InPlace(out, l)
                   = InPlace(t, l) + (d[l] + (Brings(new, l) - Brings(t.transfers[n], l))
                                           - (Takes(new, l) - Takes(t.transfers[n], l)))
<1> DEFINE next == out.transfers
<1>1. next[n] = new /\ \A k \in TransferNos \ {n} : next[k] = t.transfers[k] BY DEF TablesOk
<1>2. Balanced(out)
  <2>1. \A k \in TransferNos : IsOpen(next[k]) => next[k].received <= next[k].qty BY <1>1 DEF Balanced
  <2> QED BY <2>1 DEF Balanced
<1>3. ASSUME NEW l \in Locations
      PROVE  /\ Brings(new, l) \in Int /\ Brings(t.transfers[n], l) \in Int
             /\ Takes(new, l) \in Int /\ Takes(t.transfers[n], l) \in Int
             /\ InPlace(out, l)
                  = InPlace(t, l) + (d[l] + (Brings(new, l) - Brings(t.transfers[n], l))
                                          - (Takes(new, l) - Takes(t.transfers[n], l)))
  <2>1. Brings(t.transfers[n], l) \in Int /\ Takes(t.transfers[n], l) \in Int
    <3>1. \A k \in TransferNos : Brings(t.transfers[k], l) \in Nat /\ Takes(t.transfers[k], l) \in Nat BY TransferLeft
    <3> QED BY <3>1
  <2>2. Brings(next[n], l) \in Int /\ Takes(next[n], l) \in Int
    <3>1. \A k \in TransferNos : Brings(out.transfers[k], l) \in Nat /\ Takes(out.transfers[k], l) \in Nat
      BY <1>2, TransferLeft
    <3> QED BY <3>1
  <2> HIDE DEF next
  <2>3. /\ Arriving(next, l) = Arriving(t.transfers, l) + (Brings(next[n], l) - Brings(t.transfers[n], l))
        /\ Leaving(next, l) = Leaving(t.transfers, l) + (Takes(next[n], l) - Takes(t.transfers[n], l))
    BY <1>1, <2>2, TransfersMove
  <2>4. /\ Stock(t.balance, l) \in Int /\ OnOrder(t.po, l) \in Int
        /\ Arriving(t.transfers, l) \in Int /\ Leaving(t.transfers, l) \in Int /\ Made(l) \in Int
    BY InPlaceParts
  <2>5. InPlace(t, l) = Stock(t.balance, l) - Leaving(t.transfers, l) + OnOrder(t.po, l) + Arriving(t.transfers, l) + Made(l)
    BY DEF InPlace
  <2>6. InPlace(out, l) = Stock(out.balance, l) - Leaving(next, l) + OnOrder(t.po, l) + Arriving(next, l) + Made(l)
    BY DEF InPlace, next
  <2>7. d[l] \in Int /\ Stock(out.balance, l) = Stock(t.balance, l) + d[l] OBVIOUS
  <2>8. InPlace(out, l)
          = InPlace(t, l) + (d[l] + (Brings(next[n], l) - Brings(t.transfers[n], l))
                                  - (Takes(next[n], l) - Takes(t.transfers[n], l)))
    BY <2>1, <2>2, <2>3, <2>4, <2>5, <2>6, <2>7
  <2> QED BY <1>1, <2>1, <2>2, <2>8
<1> QED BY <1>2, <1>3

(* TransferCreated: what is asked for is on its way. *)
LEMMA TransferCreatedMoves ==
  ASSUME NEW t, TablesOk(t), Balanced(t), NEW m, OnTransferCreated(t, m) # Refused,
         m.no \in TransferNos, m.loc \in Locations, m.toLoc \in Locations, m.qty \in Nat, m.eta \in Nat \cup {Absent}
  PROVE  /\ Balanced(OnTransferCreated(t, m))
         /\ \A l \in Locations :
              InPlace(OnTransferCreated(t, m), l)
                = InPlace(t, l) + ((IF m.toLoc = l THEN m.qty ELSE 0) - (IF m.loc = l THEN m.qty ELSE 0))
<1> DEFINE eta == IF m.eta # Absent THEN m.eta ELSE Today
           new == [from |-> m.loc, to |-> m.toLoc, qty |-> m.qty, received |-> 0, eta |-> eta, status |-> "OPEN"]
           n == m.no
           out == OnTransferCreated(t, m)
           d == [l \in Locations |-> 0]
<1>1. out = [t EXCEPT !.transfers[n] = new] /\ t.transfers[n] = Absent BY DEF OnTransferCreated
<1>2. TablesOk(out) BY TransferCreatedKeeps
<1>3. new.from = m.loc /\ new.to = m.toLoc /\ new.qty = m.qty /\ new.received = 0 /\ new.status = "OPEN" OBVIOUS
<1>4. new \in TransferOrder
  <2>1. eta \in Nat BY DocumentsAssumption
  <2> HIDE DEF eta
  <2> QED BY <2>1 DEF TransferOrder
<1> HIDE DEF new, out, n
<1>5. /\ out.transfers = [t.transfers EXCEPT ![n] = new] /\ out.po = t.po /\ out.balance = t.balance
      /\ n \in TransferNos
  BY <1>1 DEF TablesOk, TableNames, n
<1>6. new # Absent BY <1>4, DocumentsAssumption
<1>7. \A l : /\ Brings(new, l) = IF m.toLoc = l THEN m.qty ELSE 0
             /\ Takes(new, l) = IF m.loc = l THEN m.qty ELSE 0
             /\ Brings(t.transfers[n], l) = 0 /\ Takes(t.transfers[n], l) = 0
  <2>1. OpenQty(new) = m.qty BY <1>3 DEF OpenQty
  <2>2. IsOpen(new) /\ ~IsOpen(t.transfers[n]) BY <1>1, <1>3, <1>6 DEF IsOpen
  <2> QED BY <1>3, <2>1, <2>2 DEF Brings, Takes
<1>8. \A l \in Locations : InPlace(t, l) \in Int /\ Stock(t.balance, l) \in Int BY InPlaceParts
<1>9. \A l \in Locations : d[l] = 0 /\ d[l] \in Int /\ Stock(out.balance, l) = Stock(t.balance, l) + d[l]
  BY <1>5, <1>8
<1>10. IsOpen(new) => new.received <= new.qty BY <1>3
<1> HIDE DEF d
<1>11. /\ Balanced(out)
       /\ \A l \in Locations :
            InPlace(out, l)
              = InPlace(t, l) + (d[l] + (Brings(new, l) - Brings(t.transfers[n], l))
                                      - (Takes(new, l) - Takes(t.transfers[n], l)))
  BY <1>2, <1>4, <1>5, <1>9, <1>10, TransferMoves
<1>12. \A l \in Locations :
         InPlace(out, l) = InPlace(t, l) + ((IF m.toLoc = l THEN m.qty ELSE 0) - (IF m.loc = l THEN m.qty ELSE 0))
  BY <1>7, <1>8, <1>9, <1>11
<1> QED BY <1>11, <1>12 DEF out

(* How much more a transfer brings than was still on its way.               *)
MoreThanOpen(order, qty) ==
  (IF qty # 0 THEN qty ELSE order.qty) - (IF order.status = "OPEN" THEN order.qty - order.received ELSE 0)

(* TransferCompleted: what comes beyond what was on its way is more at one  *)
(* end and less at the other.                                               *)
LEMMA TransferCompletedMoves ==
  ASSUME NEW t, TablesOk(t), Balanced(t), NEW m, NEW txn, OnTransferCompleted(t, m, txn) # Refused,
         m.no \in TransferNos, m.qty \in Nat
  PROVE  LET order == t.transfers[m.no]
             more == MoreThanOpen(order, m.qty)
         IN  /\ Balanced(OnTransferCompleted(t, m, txn))
             /\ \A l \in Locations :
                  InPlace(OnTransferCompleted(t, m, txn), l)
                    = InPlace(t, l) + ((IF order.to = l THEN more ELSE 0) - (IF order.from = l THEN more ELSE 0))
<1> DEFINE n == m.no
           order == t.transfers[n]
           q == IF m.qty # 0 THEN m.qty ELSE order.qty
           r == [Plain("TRANSFER", order.from, 0, q) EXCEPT !.toLoc = order.to, !.id = txn]
           posted == PostIn(t, r)
           new == [order EXCEPT !.received = q, !.status = "RECEIVED"]
           out == OnTransferCompleted(t, m, txn)
           lotStatus == t.quality
           more == MoreThanOpen(order, m.qty)
           d == [l \in Locations |-> (IF order.to = l THEN q ELSE 0) - (IF order.from = l THEN q ELSE 0)]
<1>1. order # Absent /\ posted # Refused
      /\ out = [posted EXCEPT !.transfers[n] = [posted.transfers[n] EXCEPT !.received = q, !.status = "RECEIVED"]]
  BY DEF OnTransferCompleted
<1>2. TablesOk(out) BY TransferCompletedKeeps
<1>3. order \in TransferOrder BY <1>1 DEF TablesOk
<1>4. order.qty \in Int /\ order.received \in Int BY <1>3 DEF TransferOrder
<1>5. q \in Int BY <1>4
<1>6. more = q - (IF order.status = "OPEN" THEN order.qty - order.received ELSE 0) BY DEF MoreThanOpen
<1> HIDE DEF q
<1>7. /\ {"qty", "to", "lot"} \subseteq DOMAIN r /\ r.qty = q /\ r.lot = 0 /\ r.loc = order.from /\ r.toLoc = order.to
      /\ r.type = "TRANSFER" /\ r.from = NoState /\ r.to = NoState
  BY DEF Plain
<1>20. r.lot \in Lots BY <1>7, LedgerAssumption DEF Lots
<1> HIDE DEF r, lotStatus
<1>8. TablesOk(posted) /\ posted.transfers = t.transfers /\ posted.po = t.po BY <1>1, <1>5, <1>7, PostInKeeps
<1>9. out = [posted EXCEPT !.transfers[n] = new] BY <1>1, <1>8
<1>10. \A l \in Locations : Stock(posted.balance, l)
                              = Stock(t.balance, l) + Delta(ResolveIn(t.quality, r), <<l, r.lot, "UNRESTRICTED">>)
  BY <1>1, <1>5, <1>7, <1>20, PostMoves
<1>11. \A l : Delta(ResolveIn(lotStatus, r), <<l, r.lot, "UNRESTRICTED">>)
                = (IF r.toLoc = l THEN r.qty ELSE 0) - (IF r.loc = l THEN r.qty ELSE 0)
  BY <1>5, <1>7, TransferDelta
<1> HIDE DEF posted, order, n, out
<1>12. new \in TransferOrder BY <1>3, <1>5 DEF TransferOrder
<1>13. new.status = "RECEIVED" BY <1>3 DEF TransferOrder
<1> HIDE DEF new
<1>14. /\ out.transfers = [t.transfers EXCEPT ![n] = new] /\ out.po = t.po /\ out.balance = posted.balance
       /\ n \in TransferNos
  <2>1. n \in TransferNos BY DEF n
  <2> QED BY <2>1, <1>8, <1>9 DEF TablesOk, TableNames
<1>15. \A l \in Locations : d[l] \in Int /\ Stock(out.balance, l) = Stock(t.balance, l) + d[l]
  <2>1. \A l \in Locations : d[l] \in Int BY <1>5
  <2>2. \A l \in Locations : d[l] = Delta(ResolveIn(t.quality, r), <<l, r.lot, "UNRESTRICTED">>)
    BY <1>7, <1>11 DEF lotStatus
  <2> HIDE DEF d
  <2> QED BY <2>1, <2>2, <1>10, <1>14
<1>16. ~IsOpen(new) BY <1>13 DEF IsOpen
<1>17. \A l \in Locations : d[l] = (IF order.to = l THEN q ELSE 0) - (IF order.from = l THEN q ELSE 0) OBVIOUS
<1> HIDE DEF d, more
<1>18. /\ Balanced(out)
       /\ \A l \in Locations :
            InPlace(out, l)
              = InPlace(t, l) + (d[l] + (Brings(new, l) - Brings(t.transfers[n], l))
                                      - (Takes(new, l) - Takes(t.transfers[n], l)))
  BY <1>2, <1>12, <1>14, <1>15, <1>16, TransferMoves
<1>19. ASSUME NEW l \in Locations
       PROVE  InPlace(out, l)
                = InPlace(t, l) + ((IF order.to = l THEN more ELSE 0) - (IF order.from = l THEN more ELSE 0))
  <2> DEFINE open == IF order.status = "OPEN" THEN order.qty - order.received ELSE 0
  <2>1. Brings(new, l) = 0 /\ Takes(new, l) = 0 BY <1>16 DEF Brings, Takes
  <2>2. Brings(order, l) = (IF order.to = l THEN open ELSE 0) /\ Takes(order, l) = (IF order.from = l THEN open ELSE 0)
    BY <1>1 DEF Brings, Takes, IsOpen, OpenQty, order
  <2>3. more = q - open BY <1>6
  <2>4. open \in Int BY <1>4
  <2> HIDE DEF open
  <2>5. InPlace(t, l) \in Int BY InPlaceParts
  <2>6. InPlace(out, l) = InPlace(t, l) + (d[l] + (0 - Brings(order, l)) - (0 - Takes(order, l)))
    BY <1>18, <2>1 DEF order
  <2>7. d[l] = (IF order.to = l THEN q ELSE 0) - (IF order.from = l THEN q ELSE 0) BY <1>17
  <2> QED BY <1>5, <2>2, <2>3, <2>4, <2>5, <2>6, <2>7
<1> QED BY <1>18, <1>19 DEF out, order, n, more

-----------------------------------------------------------------------------
(* The positions follow the messages *)

(* What a message is worth to the position of a location over given tables. *)
WorthIn(t, m, l) ==
  CASE m.type = "InventoryReceived" -> StockIn(t, m, l) - (IF m.sku = Own THEN OrderOff(t, m, l) ELSE 0)
    [] m.type = "InventoryIssued"   -> IF m.loc = l THEN -m.qty ELSE 0
    [] m.type = "PurchaseOrderCreated" -> IF m.loc = l /\ m.sku = Own THEN m.qty ELSE 0
    [] m.type = "InventoryAdjusted" -> IF m.loc = l THEN m.counted - t.balance[<<l, 0, "UNRESTRICTED">>] ELSE 0
    [] m.type = "QualityHold"       -> IF m.loc = l THEN -m.qty ELSE 0
    [] m.type = "QualityRelease"    -> IF m.loc = l THEN m.qty ELSE 0
    [] m.type = "TransferCreated"   -> (IF m.toLoc = l THEN m.qty ELSE 0) - (IF m.loc = l THEN m.qty ELSE 0)
    [] m.type = "TransferCompleted" ->
         LET order == t.transfers[m.no]
             more == MoreThanOpen(order, m.qty)
         IN  (IF order.to = l THEN more ELSE 0) - (IF order.from = l THEN more ELSE 0)
    [] OTHER -> 0

(* A message that is handled moves each position by what it is worth.       *)
LEMMA HandleMoves ==
  ASSUME NEW t, TablesOk(t), Balanced(t), NEW m, Message(m), NEW txn, Handle(t, m, txn) # Refused
  PROVE  /\ Balanced(Handle(t, m, txn))
         /\ \A l \in Locations : InPlace(Handle(t, m, txn), l) = InPlace(t, l) + WorthIn(t, m, l)
<1> DEFINE out == Handle(t, m, txn)
<1>0. \A l \in Locations : InPlace(t, l) \in Int BY InPlaceParts
<1>1. CASE m.type = "InventoryReceived"
  <2>1. out = OnReceived(t, m, txn) BY <1>1 DEF Handle
  <2>2. m.lot \in Lots /\ m.qty \in Nat /\ m.po \in PoNumbers \cup {Absent} BY <1>1 DEF Message
  <2>3. \A l : WorthIn(t, m, l) = StockIn(t, m, l) - (IF m.sku = Own THEN OrderOff(t, m, l) ELSE 0) BY <1>1 DEF WorthIn
  <2> HIDE DEF out
  <2> QED BY <2>1, <2>2, <2>3, ReceivedMoves DEF out
<1>2. CASE m.type = "InventoryIssued"
  <2>1. out = OnIssued(t, m, txn) BY <1>2 DEF Handle
  <2>2. m.lot \in Lots /\ m.qty \in Nat BY <1>2 DEF Message
  <2>3. \A l : WorthIn(t, m, l) = IF m.loc = l THEN -m.qty ELSE 0 BY <1>2 DEF WorthIn
  <2> QED BY <2>1, <2>2, <2>3, IssuedMoves
<1>3. CASE m.type \in {"QualityHold", "QualityRelease"}
  <2>1. out = OnQuality(t, m, txn) BY <1>3 DEF Handle
  <2>2. m.lot \in Lots /\ m.qty \in Nat BY <1>3 DEF Message
  <2>3. \A l : WorthIn(t, m, l) = IF m.loc # l THEN 0 ELSE IF m.type = "QualityHold" THEN -m.qty ELSE m.qty
    BY <1>3 DEF WorthIn
  <2> QED BY <2>1, <2>2, <2>3, QualityMoves
<1>4. CASE m.type = "InventoryAdjusted"
  <2>1. out = OnAdjusted(t, m) BY <1>4 DEF Handle
  <2>2. m.loc \in Locations /\ m.counted \in Nat BY <1>4 DEF Message
  <2>3. \A l : WorthIn(t, m, l) = IF m.loc = l THEN m.counted - t.balance[<<l, 0, "UNRESTRICTED">>] ELSE 0
    BY <1>4 DEF WorthIn
  <2> QED BY <2>1, <2>2, <2>3, AdjustedMoves
<1>5. CASE m.type = "PurchaseOrderCreated"
  <2>1. out = OnPoCreated(t, m) BY <1>5 DEF Handle
  <2>2. /\ m.po \in PoNumbers /\ m.supplier \in MasterKeys /\ m.loc \in Locations
        /\ m.sku \in Skus /\ m.qty \in Nat /\ m.eta \in Nat \cup {Absent}
    BY <1>5 DEF Message
  <2>3. \A l : WorthIn(t, m, l) = IF m.loc = l /\ m.sku = Own THEN m.qty ELSE 0 BY <1>5 DEF WorthIn
  <2> QED BY <2>1, <2>2, <2>3, PoCreatedMoves
<1>6. CASE m.type = "PurchaseOrderDelayed"
  <2>1. out = OnPoDelayed(t, m) BY <1>6 DEF Handle
  <2>2. m.po \in PoNumbers /\ m.eta \in Nat \cup {Absent} BY <1>6 DEF Message
  <2>3. \A l : WorthIn(t, m, l) = 0 BY <1>6 DEF WorthIn
  <2>4. Balanced(out) /\ \A l \in Locations : InPlace(out, l) = InPlace(t, l) BY <2>1, <2>2, PoDelayedMoves
  <2> HIDE DEF out
  <2> QED BY <1>0, <2>3, <2>4 DEF out
<1>7. CASE m.type = "ShipmentDispatched"
  <2>1. out = OnShipDispatched(t, m) BY <1>7 DEF Handle
  <2>2. m.po \in PoNumbers \cup {Absent} /\ m.eta \in Nat \cup {Absent} /\ m.lines \in Seq([sku: Skus, qty: Nat])
    BY <1>7 DEF Message
  <2>3. \A l : WorthIn(t, m, l) = 0 BY <1>7 DEF WorthIn
  <2>4. Balanced(out) /\ \A l \in Locations : InPlace(out, l) = InPlace(t, l) BY <2>1, <2>2, DispatchedMoves
  <2> HIDE DEF out
  <2> QED BY <1>0, <2>3, <2>4 DEF out
<1>8. CASE m.type = "TransferCreated"
  <2>1. out = OnTransferCreated(t, m) BY <1>8 DEF Handle
  <2>2. /\ m.no \in TransferNos /\ m.loc \in Locations /\ m.toLoc \in Locations
        /\ m.qty \in Nat /\ m.eta \in Nat \cup {Absent}
    BY <1>8 DEF Message
  <2>3. \A l : WorthIn(t, m, l) = (IF m.toLoc = l THEN m.qty ELSE 0) - (IF m.loc = l THEN m.qty ELSE 0)
    BY <1>8 DEF WorthIn
  <2> QED BY <2>1, <2>2, <2>3, TransferCreatedMoves
<1>9. CASE m.type = "TransferCompleted"
  <2> DEFINE order == t.transfers[m.no]
             more == MoreThanOpen(order, m.qty)
  <2>1. out = OnTransferCompleted(t, m, txn) BY <1>9 DEF Handle
  <2>2. m.no \in TransferNos /\ m.qty \in Nat BY <1>9 DEF Message
  <2>3. \A l : WorthIn(t, m, l) = (IF order.to = l THEN more ELSE 0) - (IF order.from = l THEN more ELSE 0)
    BY <1>9 DEF WorthIn
  <2> QED BY <2>1, <2>2, <2>3, TransferCompletedMoves
<1> QED BY <1>1, <1>2, <1>3, <1>4, <1>5, <1>6, <1>7, <1>8, <1>9 DEF Message

(* A message, handled or refused, keeps the tables in balance. *)
LEMMA AcceptBalances ==
  ASSUME NEW t, TablesOk(t), Balanced(t), NEW m, Message(m)
  PROVE  TablesOk(Accept(t, m)) /\ Balanced(Accept(t, m))
BY AcceptKeeps, HandleMoves DEF Accept

BalanceStays(base, s, n, t) == TablesOk(t) /\ Balanced(t)
Beginning == INSTANCE FoldLemmas WITH Op <- Accept, Holds <- BalanceStays

(* So do any number of them. *)
LEMMA AfterBalances ==
  ASSUME NEW t, TablesOk(t), Balanced(t), NEW ms, Listed(ms), \A m \in Range(ms) : Message(m)
  PROVE  TablesOk(After(t, ms)) /\ Balanced(After(t, ms))
<1> DEFINE T == Range(ms)
           out == Beginning!Fold(t, ms)
<1>1. ms \in Seq(T) BY DEF Listed
<1>2. \A i \in 1..Len(ms) : ms[i] \in T BY <1>1
<1> HIDE DEF T, out
<1>3. \A i \in 1..Len(ms) : \A u : BalanceStays(t, ms, i - 1, u) => BalanceStays(t, ms, i, Accept(u, ms[i]))
  <2>1. \A i \in 1..Len(ms) : Message(ms[i]) BY <1>2 DEF T
  <2> QED BY <2>1, AcceptBalances DEF BalanceStays
<1>4. BalanceStays(t, ms, 0, t) BY DEF BalanceStays
<1>5. BalanceStays(t, ms, Len(ms), out) BY <1>1, <1>3, <1>4, Beginning!FoldHolds DEF out
<1>6. FoldLeft(Accept, t, ms) = out
  BY DEF out, Beginning!Fold, Beginning!FoldLeft, Beginning!MapThenFoldSet, Beginning!Max, FoldLeft, MapThenFoldSet, Max
<1> QED BY <1>5, <1>6 DEF After, BalanceStays

(* Empty tables are in balance. *)
LEMMA NoTablesBalanced == Balanced(NoTables)
<1>0. DOMAIN NoDocuments = TableNames \ {"balance", "txns", "quality"} BY DEF NoDocuments, TableNames
<1>1. NoTables.po = NoDocuments.po /\ NoTables.transfers = NoDocuments.transfers
  BY <1>0 DEF NoTables, TableNames
<1>2. /\ NoDocuments.po = [n \in PoNumbers |-> Absent]
      /\ NoDocuments.transfers = [n \in TransferNos |-> Absent]
  BY DEF NoDocuments
<1> QED BY <1>1, <1>2 DEF Balanced, IsOpen

(* What the history counts is what a message is worth over the tables.      *)
LEMMA WorthOfTables ==
  ASSUME StateOk, NEW m, Message(m), NEW l
  PROVE  Worth(m, l) = WorthIn(Tables, m, l)
<1>1. Tables.balance = balance /\ Tables.quality = quality /\ Tables.po = docs.po /\ Tables.transfers = docs.transfers
  BY DocumentNames DEF StateOk, Tables, TableNames
<1>2. CASE m.type = "InventoryReceived"
  <2>1. StockIn(Tables, m, l) = IF m.loc = l /\ m.sku = Own /\ Usable(m.lot) THEN m.qty ELSE 0
    BY <1>1 DEF StockIn, Usable
  <2>2. OrderOff(Tables, m, l) = OpenAt(m, l)
    BY <1>1 DEF OrderOff, OpenAt, OffOrder, OffLines, OffLine
  <2>3. Worth(m, l) = (IF m.loc = l /\ m.sku = Own /\ Usable(m.lot) THEN m.qty ELSE 0)
                        - (IF m.sku = Own THEN OpenAt(m, l) ELSE 0)
    BY <1>2 DEF Worth
  <2>4. WorthIn(Tables, m, l) = StockIn(Tables, m, l) - (IF m.sku = Own THEN OrderOff(Tables, m, l) ELSE 0)
    BY <1>2 DEF WorthIn
  <2> QED BY <2>1, <2>2, <2>3, <2>4
<1>3. CASE m.type = "TransferCompleted"
  <2> DEFINE order == docs.transfers[m.no]
             more == MoreThanOpen(order, m.qty)
  <2>1. WorthIn(Tables, m, l) = (IF order.to = l THEN more ELSE 0) - (IF order.from = l THEN more ELSE 0)
    BY <1>1, <1>3 DEF WorthIn
  <2>2. Worth(m, l) = (IF order.to = l THEN more ELSE 0) - (IF order.from = l THEN more ELSE 0)
    BY <1>3 DEF Worth, MoreThanOpen
  <2> QED BY <2>1, <2>2
<1>4. CASE m.type \notin {"InventoryReceived", "TransferCompleted"}
  <2>1. LotQty(l, 0) = Tables.balance[<<l, 0, "UNRESTRICTED">>] BY <1>1 DEF LotQty
  <2> HIDE DEF Tables
  <2> QED BY <1>4, <2>1 DEF Worth, WorthIn, Message
<1> QED BY <1>2, <1>3, <1>4

(* The tables are in balance and the history has counted what they hold.    *)
Counts == Balanced(Tables) /\ \A l \in Locations : worth[l] = InPlace(Tables, l)
PositionInv == AllocInv /\ Counts

(* The position is what the tables hold in place. *)
LEMMA MovedInPlace ==
  ASSUME StateOk, Balanced(Tables), NEW l \in Locations
  PROVE  Moved(l) = InPlace(Tables, l)
<1>1. TablesOk(Tables) BY DEF StateOk
<1> HIDE DEF Tables
<1>2. Position(PairInputs(Tables, <<>>, <<>>, l)) = InPlace(Tables, l) BY <1>1, PositionInPlace
<1> QED BY <1>2 DEF Moved

(* Nothing has been counted wrong at the start. *)
LEMMA PositionInit == AllocInit => PositionInv
<1> SUFFICES ASSUME AllocInit PROVE PositionInv OBVIOUS
<1> DEFINE t == After(NoTables, Scopes[scope].past)
<1>1. AllocInv BY AllocInvInit
<1>2. StateOk BY <1>1 DEF AllocInv
<1>3. balance = t.balance /\ docs = [f \in DOMAIN NoDocuments |-> t[f]] /\ worth = [l \in Locations |-> Moved(l)]
  BY DEF AllocInit
<1>4. Balanced(t)
  <2>1. Listed(Scopes[scope].past) /\ \A m \in Range(Scopes[scope].past) : Message(m)
    BY <1>2, ScopesAssumption DEF StateOk, Listed
  <2> QED BY <2>1, NoTablesOk, NoTablesBalanced, AfterBalances
<1> HIDE DEF t
<1>5. Tables.po = t.po /\ Tables.transfers = t.transfers
  BY <1>3, DocumentNames DEF Tables, TableNames
<1>6. Balanced(Tables) BY <1>4, <1>5 DEF Balanced
<1>7. \A l \in Locations : worth[l] = InPlace(Tables, l) BY <1>2, <1>3, <1>6, MovedInPlace
<1> QED BY <1>1, <1>6, <1>7 DEF PositionInv, Counts

(* A message counts for what it moves. *)
LEMMA HappenCounts ==
  ASSUME AllocInv, Counts, NEW m \in Scopes[scope].msgs, Happen(m)
  PROVE  Counts'
<1> DEFINE t == Handle(Tables, m, GeneratedId)
           old == Tables
<1>0. StateOk BY DEF AllocInv
<1>1. Message(m) BY <1>0, ScopesAssumption DEF StateOk
<1>2. t # Refused /\ Store(t) /\ worth' = [l \in Locations |-> worth[l] + Worth(m, l)] BY DEF Happen
<1>3. TablesOk(old) /\ Balanced(old) BY <1>0 DEF StateOk, Counts
<1>4. \A l : Worth(m, l) = WorthIn(old, m, l) BY <1>0, <1>1, WorthOfTables
<1>5. \A l \in Locations : worth[l] = InPlace(old, l) BY DEF Counts
<1> HIDE DEF old
<1>6. Balanced(t) /\ \A l \in Locations : InPlace(t, l) = InPlace(old, l) + WorthIn(old, m, l)
  BY <1>1, <1>2, <1>3, HandleMoves DEF old
<1> HIDE DEF t
<1>7. Tables'.balance = t.balance /\ Tables'.po = t.po /\ Tables'.transfers = t.transfers
  <2>1. DOMAIN docs = DOMAIN NoDocuments BY <1>0 DEF StateOk
  <2>2. balance' = t.balance /\ docs' = [f \in DOMAIN docs |-> t[f]] BY <1>2 DEF Store
  <2> QED BY <2>1, <2>2, DocumentNames DEF Tables, TableNames
<1>8. Balanced(Tables)' BY <1>6, <1>7 DEF Balanced
<1>9. \A l \in Locations : worth'[l] = InPlace(t, l) BY <1>2, <1>4, <1>5, <1>6
<1>10. \A l \in Locations : InPlace(Tables, l)' = InPlace(t, l) BY <1>7 DEF InPlace, Made
<1> QED BY <1>8, <1>9, <1>10 DEF Counts

(* What leaves the tables alone counts nothing. *)
LEMMA CountsStay ==
  ASSUME Counts, UNCHANGED <<balance, txns, quality, docs, worth>>
  PROVE  Counts'
<1>1. Tables' = Tables BY DEF Tables
<1> QED BY <1>1 DEF Counts, Balanced, InPlace, Made

(* Every step keeps the count. *)
LEMMA PositionNext == PositionInv /\ [AllocNext]_allocVars => PositionInv'
<1> SUFFICES ASSUME PositionInv, [AllocNext]_allocVars PROVE PositionInv' OBVIOUS
<1>1. AllocInv /\ Counts BY DEF PositionInv
<1>2. AllocInv' BY <1>1, AllocInvNext
<1>3. Counts'
  <2>1. CASE \E m \in Scopes[scope].msgs : Happen(m) BY <1>1, <2>1, HappenCounts
  <2>2. CASE Sell
    <3>1. UNCHANGED <<balance, txns, quality, docs, worth>> BY <2>2 DEF Sell
    <3> QED BY <1>1, <3>1, CountsStay
  <2>3. CASE \E w \in Scopes[scope].sessions :
               \/ \E l \in Locations : \E c \in Scopes[scope].asks[l] : Ask(w, l, c)
               \/ Grant(w) \/ PegRead(w) \/ PegWrite(w)
    <3>1. UNCHANGED <<balance, txns, quality, docs, worth>> BY <2>3 DEF Ask, Grant, PegRead, PegWrite
    <3> QED BY <1>1, <3>1, CountsStay
  <2>4. CASE \E l \in Locations : \E i \in DOMAIN claims[l] : Release(l, i)
    <3>1. UNCHANGED <<balance, txns, quality, docs, worth>> BY <2>4 DEF Release
    <3> QED BY <1>1, <3>1, CountsStay
  <2>5. CASE UNCHANGED allocVars
    <3>1. UNCHANGED <<balance, txns, quality, docs, worth>> BY <2>5 DEF allocVars
    <3> QED BY <1>1, <3>1, CountsStay
  <2>6. AllocNext \/ UNCHANGED allocVars OBVIOUS
  <2> QED BY ONLY <2>1, <2>2, <2>3, <2>4, <2>5, <2>6 DEF AllocNext
<1> QED BY <1>2, <1>3 DEF PositionInv

(* Every message moves the position of each location by exactly what it is  *)
(* worth: what is on order, in transit, held and usable is never counted    *)
(* twice and never lost.                                                    *)
THEOREM PositionsFollow == AllocSpec => []PositionFollowsMessages
<1>1. PositionInv => PositionFollowsMessages
  <2> SUFFICES ASSUME PositionInv PROVE PositionFollowsMessages OBVIOUS
  <2>1. StateOk /\ Balanced(Tables) /\ \A l \in Locations : worth[l] = InPlace(Tables, l)
    BY DEF PositionInv, AllocInv, Counts
  <2>2. \A l \in Locations : Moved(l) = InPlace(Tables, l) BY <2>1, MovedInPlace
  <2> QED BY <2>1, <2>2 DEF PositionFollowsMessages
<1> QED BY <1>1, PositionInit, PositionNext, PTL DEF AllocSpec
=============================================================================
