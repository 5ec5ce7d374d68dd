----------------------------- MODULE FoldLemmas -----------------------------
(***************************************************************************)
(* What FoldLeft computes, for every sequence and every operator.  The     *)
(* operator and what is to be shown of the result are parameters of this   *)
(* module: a proof about a loop of the code takes an instance of it, with  *)
(* Op the body of the loop and Holds the invariant of the loop.            *)
(***************************************************************************)
EXTENDS SequencesExt, NatLemmas

CONSTANTS
  Op(_, _),         \* what one element does to the accumulator
  Holds(_, _, _, _) \* of the start, the sequence, the number of elements done, the accumulator

Fold(base, s) == FoldLeft(Op, base, s)

-----------------------------------------------------------------------------
(* The greatest element of a set of indices. *)
LEMMA MaxIn ==
  ASSUME NEW n \in Nat, NEW S \in SUBSET (1..n), S # {}
  PROVE  /\ Max(S) \in S /\ \A i \in S : i <= Max(S)
         /\ S \ {Max(S)} \in SUBSET (1..n)
         /\ n \in S => Max(S) = n
<1>1. \A i \in S : i <= n OBVIOUS
<1>2. PICK m \in S : \A i \in S : i <= m
  <2>1. S \subseteq Nat OBVIOUS
  <2> QED BY <2>1, <1>1, GreatestNat
<1>3. Max(S) \in S /\ \A i \in S : i <= Max(S) BY <1>2 DEF Max
<1>4. ASSUME n \in S PROVE Max(S) = n
  <2>0. \A i \in S : i \in Nat OBVIOUS
  <2> DEFINE x == Max(S)
  <2>2. x \in S /\ \A i \in S : i <= x BY <1>3
  <2> HIDE DEF x
  <2>3. n <= x /\ x <= n /\ x \in Nat BY <1>1, <1>4, <2>0, <2>2
  <2>1. n <= Max(S) /\ Max(S) <= n /\ Max(S) \in Nat BY <2>3 DEF x
  <2> QED BY <2>1
<1> QED BY <1>3, <1>4

(* The greatest index of a prefix is its length.                            *)
LEMMA MaxOfPrefix ==
  ASSUME NEW n \in Nat, n # 0
  PROVE  Max(1..n) = n /\ (1..n) \ {n} = 1..(n-1) /\ 1..n # {}
<1>1. n \in 1..n OBVIOUS
<1>2. Max(1..n) = n
  <2>1. 1..n \in SUBSET (1..n) /\ 1..n # {} BY <1>1
  <2> QED BY <2>1, <1>1, MaxIn
<1> QED BY <1>1, <1>2

(* The value of a fold over the elements whose indices are in S. *)
AtSet(g, base, s, S) == IF S = {} THEN base ELSE Op(g[S \ {Max(S)}], s[Max(S)])
IsIter(g, base, s, n) == g = [S \in SUBSET (1..n) |-> AtSet(g, base, s, S)]

(* The function over sets of indices that defines a fold exists. *)
LEMMA IterExists ==
  ASSUME NEW base, NEW s, NEW n \in Nat
  PROVE  \E g : IsIter(g, base, s, n)
<1> DEFINE Bad == {m \in Nat : ~\E g : IsIter(g, base, s, m)}
<1>1. SUFFICES ASSUME Bad # {} PROVE FALSE OBVIOUS
<1>2. PICK m \in Bad : \A k \in Bad : m <= k
  <2>1. Bad \subseteq Nat OBVIOUS
  <2> HIDE DEF Bad
  <2> QED BY <2>1, <1>1, LeastNat
<1>3. m \in Nat /\ ~\E g : IsIter(g, base, s, m) BY <1>2
<1>4. m # 0
  <2>1. SUBSET (1..0) = {{}} OBVIOUS
  <2> DEFINE g0 == [S \in SUBSET (1..0) |-> base]
  <2>2. \A S \in SUBSET (1..0) : g0[S] = AtSet(g0, base, s, S) BY <2>1 DEF AtSet
  <2>3. g0 = [S \in SUBSET (1..0) |-> AtSet(g0, base, s, S)]
    <3>1. \A S \in SUBSET (1..0) : AtSet(g0, base, s, S) = base BY <2>1 DEF AtSet
    <3> QED BY <3>1
  <2>4. IsIter(g0, base, s, 0) BY <2>3 DEF IsIter
  <2> QED BY <2>4, <1>3
<1>5. m-1 \in Nat /\ m-1 \notin Bad
  <2>1. m-1 \in Nat /\ ~(m <= m-1) BY <1>3, <1>4
  <2> QED BY <2>1, <1>2
<1>6. PICK g : IsIter(g, base, s, m-1) BY <1>5
<1> HIDE DEF Bad
<1> DEFINE h == [S \in SUBSET (1..m) |-> IF m \in S THEN Op(g[S \ {m}], s[m]) ELSE g[S]]
<1>7. ASSUME NEW S \in SUBSET (1..m) PROVE h[S] = AtSet(h, base, s, S)
  <2>0. \A R \in SUBSET (1..(m-1)) : h[R] = g[R] /\ g[R] = AtSet(g, base, s, R)
    <3>1. ASSUME NEW R \in SUBSET (1..(m-1)) PROVE R \in SUBSET (1..m) /\ m \notin R
      <4>1. \A i \in 1..(m-1) : i \in 1..m /\ i # m BY <1>3
      <4> QED BY <4>1
    <3> QED BY <3>1, <1>6 DEF IsIter
  <2>1. CASE m \in S
    <3>1. Max(S) = m /\ S # {} BY <2>1, <1>3, MaxIn
    <3>2. S \ {m} \in SUBSET (1..(m-1))
      <4>1. \A i \in 1..m : i # m => i \in 1..(m-1) BY <1>3
      <4> QED BY <4>1
    <3> HIDE DEF h
    <3>3. h[S \ {m}] = g[S \ {m}] BY <3>2, <2>0
    <3>4. h[S] = Op(g[S \ {m}], s[m]) BY <2>1 DEF h
    <3> QED BY <3>1, <3>3, <3>4 DEF AtSet
  <2>2. CASE m \notin S
    <3>1. S \in SUBSET (1..(m-1))
      <4>1. \A i \in 1..m : i # m => i \in 1..(m-1) BY <1>3
      <4> QED BY <4>1, <2>2
    <3> HIDE DEF h
    <3>2. h[S] = AtSet(g, base, s, S) BY <3>1, <2>0
    <3>3. CASE S = {} BY <3>2, <3>3 DEF AtSet
    <3>4. CASE S # {}
      <4>1. S \ {Max(S)} \in SUBSET (1..(m-1)) BY <3>1, <3>4, <1>5, MaxIn
      <4>2. h[S \ {Max(S)}] = g[S \ {Max(S)}] BY <4>1, <2>0
      <4> QED BY <4>2, <3>2 DEF AtSet
    <3> QED BY <3>3, <3>4
  <2> QED BY <2>1, <2>2
<1>8. IsIter(h, base, s, m)
  <2>1. h = [S \in SUBSET (1..m) |-> h[S]] OBVIOUS
  <2> HIDE DEF h
  <2>2. [S \in SUBSET (1..m) |-> h[S]] = [S \in SUBSET (1..m) |-> AtSet(h, base, s, S)] BY <1>7
  <2> QED BY <2>1, <2>2 DEF IsIter
<1> QED BY <1>8, <1>3

(* The values of a fold along the sequence: one for every prefix. *)
Trace(g, base, s) ==
  /\ g[0] = base
  /\ \A i \in 1..Len(s) : g[i] = Op(g[i-1], s[i])

(* A fold goes through its sequence from left to right. *)
LEMMA FoldTrace ==
  ASSUME NEW base, NEW T, NEW s \in Seq(T)
  PROVE  \E g : Trace(g, base, s) /\ Fold(base, s) = g[Len(s)]
<1> DEFINE n == Len(s)
           it == CHOOSE g : IsIter(g, base, s, n)
           g == [i \in 0..n |-> it[1..i]]
<1>1. n \in Nat /\ DOMAIN s = 1..n OBVIOUS
<1>2. IsIter(it, base, s, n) BY <1>1, IterExists
<1>3. Fold(base, s) = it[1..n]
  <2>1. Fold(base, s) = (CHOOSE h : h = [S \in SUBSET (DOMAIN s) |->
                            IF S = {} THEN base ELSE Op(h[S \ {Max(S)}], s[Max(S)])])[DOMAIN s]
    BY DEF Fold, FoldLeft, MapThenFoldSet
  <2> QED BY <2>1, <1>1 DEF IsIter, AtSet
<1> HIDE DEF n, it
<1>4. \A S \in SUBSET (1..n) : it[S] = AtSet(it, base, s, S) BY <1>2 DEF IsIter
<1>5. g[0] = base
  <2>1. 1..0 = {} /\ 1..0 \in SUBSET (1..n) /\ 0 \in 0..n BY <1>1
  <2> QED BY <2>1, <1>4 DEF AtSet
<1>6. ASSUME NEW i \in 1..n PROVE g[i] = Op(g[i-1], s[i])
  <2>1. i \in Nat /\ i # 0 /\ i \in 0..n /\ i-1 \in 0..n BY <1>1
  <2>2. Max(1..i) = i /\ (1..i) \ {i} = 1..(i-1) /\ 1..i # {} BY <2>1, MaxOfPrefix
  <2>3. 1..i \in SUBSET (1..n) BY <1>1
  <2>4. it[1..i] = Op(it[1..(i-1)], s[i]) BY <2>2, <2>3, <1>4 DEF AtSet
  <2> QED BY <2>1, <2>4
<1>7. g[n] = it[1..n] BY <1>1
<1>8. Trace(g, base, s) BY <1>5, <1>6 DEF Trace, n
<1> HIDE DEF g
<1> QED BY <1>3, <1>7, <1>8 DEF n

(* The invariant of a loop that holds at its start and is kept by every      *)
(* element of the sequence holds at its end.                                *)
LEMMA FoldHolds ==
  ASSUME NEW base, NEW T, NEW s \in Seq(T),
         Holds(base, s, 0, base),
         \A i \in 1..Len(s) : \A acc : Holds(base, s, i-1, acc) => Holds(base, s, i, Op(acc, s[i]))
  PROVE  Holds(base, s, Len(s), Fold(base, s))
<1>1. PICK g : Trace(g, base, s) /\ Fold(base, s) = g[Len(s)] BY FoldTrace
<1>2. Len(s) \in Nat OBVIOUS
<1> DEFINE Bad == {i \in 0..Len(s) : ~Holds(base, s, i, g[i])}
<1>3. Bad = {}
  <2>1. SUFFICES ASSUME Bad # {} PROVE FALSE OBVIOUS
  <2>2. PICK i \in Bad : \A k \in Bad : i <= k
    <3>1. Bad \subseteq Nat OBVIOUS
    <3> HIDE DEF Bad
    <3> QED BY <2>1, <3>1, LeastNat
  <2>3. i # 0 BY <2>2, <1>1 DEF Trace
  <2>4. i \in 1..Len(s) /\ i-1 \in 0..Len(s) /\ ~(i <= i-1) BY <2>2, <2>3
  <2>5. Holds(base, s, i-1, g[i-1]) BY <2>4, <2>2
  <2>6. g[i] = Op(g[i-1], s[i]) BY <2>4, <1>1 DEF Trace
  <2>7. Holds(base, s, i, g[i]) BY <2>4, <2>5, <2>6
  <2> QED BY <2>2, <2>7
<1>4. Len(s) \in 0..Len(s) BY <1>2
<1> QED BY <1>1, <1>3, <1>4

(* A loop over nothing, and a loop over one more element. *)
LEMMA FoldEmpty ==
  ASSUME NEW base
  PROVE  Fold(base, <<>>) = base
<1>1. <<>> \in Seq({}) /\ Len(<<>>) = 0 OBVIOUS
<1>2. PICK g : Trace(g, base, <<>>) /\ Fold(base, <<>>) = g[Len(<<>>)] BY <1>1, FoldTrace
<1> QED BY <1>1, <1>2 DEF Trace

(* One more element is one more application of the operator.                *)
LEMMA FoldAppend ==
  ASSUME NEW base, NEW T, NEW s \in Seq(T), NEW x \in T
  PROVE  Fold(base, Append(s, x)) = Op(Fold(base, s), x)
<1> DEFINE u == Append(s, x)
           n == Len(s)
<1>1. /\ n \in Nat /\ u \in Seq(T) /\ Len(u) = n+1 /\ u[n+1] = x
      /\ \A i \in 1..n : u[i] = s[i]
  OBVIOUS
<1>2. PICK g : Trace(g, base, s) /\ Fold(base, s) = g[n] BY FoldTrace
<1> HIDE DEF u, n
<1>3. PICK h : Trace(h, base, u) /\ Fold(base, u) = h[Len(u)] BY <1>1, FoldTrace
<1> DEFINE Bad == {i \in 0..n : g[i] # h[i]}
<1>4. Bad = {}
  <2>1. SUFFICES ASSUME Bad # {} PROVE FALSE OBVIOUS
  <2>2. PICK i \in Bad : \A k \in Bad : i <= k
    <3>1. Bad \subseteq Nat BY <1>1
    <3> HIDE DEF Bad
    <3> QED BY <2>1, <3>1, LeastNat
  <2>3. i # 0 BY <2>2, <1>2, <1>3 DEF Trace
  <2>4. i \in 1..n /\ i \in 1..Len(u) /\ i-1 \in 0..n /\ ~(i <= i-1) BY <1>1, <2>2, <2>3
  <2>5. g[i-1] = h[i-1] BY <2>4, <2>2
  <2>6. g[i] = Op(g[i-1], s[i]) BY <2>4, <1>2 DEF Trace, n
  <2>7. h[i] = Op(h[i-1], u[i]) BY <2>4, <1>3 DEF Trace
  <2> QED BY <2>2, <2>4, <2>5, <2>6, <2>7, <1>1
<1>5. g[n] = h[n] /\ n+1 \in 1..Len(u) /\ (n+1)-1 = n BY <1>1, <1>4
<1>6. h[n+1] = Op(h[n], u[n+1])
  <2>1. h[n+1] = Op(h[(n+1)-1], u[n+1]) BY <1>5, <1>3 DEF Trace
  <2> QED BY <2>1, <1>5
<1>7. Fold(base, u) = Op(Fold(base, s), x) BY <1>1, <1>2, <1>3, <1>5, <1>6
<1> QED BY <1>7 DEF u
=============================================================================
