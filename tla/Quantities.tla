----------------------------- MODULE Quantities -----------------------------
(* What the planning modules share: a missing value, sums, rounding.       *)
EXTENDS Integers, SequencesExt, TLC

CONSTANT Absent   \* None

Tabled(f) == f @@ <<>>                              \* f itself, worked out once at every argument
Total(s, Amount(_)) == FoldSeq(LAMBDA x, sum : sum + Amount(x), 0, s)
SumOver(S, Amount(_)) == FoldSet(LAMBDA x, sum : sum + Amount(x), 0, S)
Listed(S) == FoldSet(LAMBDA x, s : Append(s, x), <<>>, S)                \* in some order
Least(S) == CHOOSE i \in S : \A j \in S : i <= j
Most(S) == CHOOSE i \in S : \A j \in S : i >= j
Larger(a, b) == IF a >= b THEN a ELSE b
Smaller(a, b) == IF a <= b THEN a ELSE b
NotBelow0(x) == Larger(x, 0)
CeilDiv(a, b) == -((-a) \div b)
Or(x, otherwise) == IF x \in {Absent, 0} THEN otherwise ELSE x          \* x or otherwise
Else(x, otherwise) == IF x = Absent THEN otherwise ELSE x               \* otherwise only if x is None
Given(x) == IF x = Absent THEN {} ELSE {x}
=============================================================================
