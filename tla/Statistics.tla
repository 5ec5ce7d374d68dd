----------------------------- MODULE Statistics -----------------------------
(***************************************************************************)
(* Summary statistics (utils/stats.py), what is planned with from observed *)
(* lead times (lead_time_service.py), and the segmentation of items        *)
(* (abc_xyz_service.py).  Results are rounded to integers; ratios are in   *)
(* hundredths.                                                             *)
(***************************************************************************)
EXTENDS Quantities

Value(x) == x
Mean(xs) == IF xs = <<>> THEN 0 ELSE Total(xs, Value) \div Len(xs)
\* The largest k whose square is no more than n, found bit by bit.
Root(n) ==
  FoldLeft(LAMBDA k, bit : IF (k + bit) * (k + bit) <= n THEN k + bit ELSE k, 0, [b \in 1..15 |-> 2 ^ (15 - b)])
Std(xs) ==
  IF Len(xs) <= 1 THEN 0
  ELSE Root(Total(xs, LAMBDA x : (x - Mean(xs)) * (x - Mean(xs))) \div (Len(xs) - 1))

\* Interpolated between the two nearest of the sorted values.
Percentile(xs, q) ==
  LET sorted == SortSeq(xs, <)
      place == q * (Len(xs) - 1)
      low == sorted[place \div 100 + 1]
      high == sorted[Smaller(place \div 100 + 2, Len(xs))]
  IN  IF xs = <<>> THEN 0 ELSE low + ((high - low) * (place % 100)) \div 100

\* Absent stands for an infinite coefficient of variation.
Cv(xs) == IF Mean(xs) # 0 THEN (100 * Std(xs)) \div Mean(xs)
          ELSE IF \E i \in DOMAIN xs : xs[i] # 0 THEN Absent ELSE 0

\* Smooth, erratic, intermittent or lumpy, by how often demand occurs and how much it varies.
DemandProfile(weekly) ==
  LET some == SelectSeq(weekly, LAMBDA x : x > 0)
      often == some # <<>> /\ 100 * Len(weekly) < 132 * Len(some)
      steady == some = <<>> \/ Cv(some) < 70
  IN  CASE Len(weekly) < 8 -> "UNKNOWN"
        [] often           -> IF steady THEN "SMOOTH" ELSE "ERRATIC"
        [] OTHER           -> IF steady THEN "INTERMITTENT" ELSE "LUMPY"

-----------------------------------------------------------------------------
(* Lead times, in days. *)

LeadTimes(observed, static, minObs) ==
  LET obs == SelectSeq(observed, LAMBDA x : x # Absent /\ x > 0)
      seen == obs # <<>>
      if(x) == IF seen THEN x ELSE Absent
  IN  [n |-> Len(obs), static |-> static, mean |-> if(Mean(obs)), p50 |-> if(Percentile(obs, 50)),
       p90 |-> if(Percentile(obs, 90)), std |-> if(Std(obs)), eligible |-> seen /\ Len(obs) >= minObs]

\* [L, sigma]: the lead time planned with.  c: [basis, useObserved, defaultLt, assumedCv].
PlanningLeadTime(st, c) ==
  LET static == Or(st.static, c.defaultLt)
      sigma == CASE ~st.eligible      -> (static * c.assumedCv) \div 100
                 [] ~c.useObserved    -> Or(st.std, 0)
                 [] OTHER             -> 0
  IN  CASE ~c.useObserved \/ c.basis = "static" \/ ~st.eligible -> [L |-> static, sigma |-> sigma]
        [] c.basis = "p90" -> [L |-> st.p90, sigma |-> 0]
        [] c.basis = "p50" -> [L |-> st.p50, sigma |-> st.std]
        [] OTHER           -> [L |-> st.mean, sigma |-> st.std]

\* The lead times a sample may yield: any that was observed when there are enough, or the planned one.
Drawn(observed, st, shift, scale) ==
  LET base == IF st.eligible THEN {observed[i] : i \in {i \in DOMAIN observed : observed[i] # Absent /\ observed[i] > 0}}
              ELSE {Or(st.static, Or(st.mean, 7))}
  IN  {Larger(1, (x * scale) \div 100 + shift) : x \in base}

-----------------------------------------------------------------------------
(* Segmentation.  The classes of a sequence of rows, in their order. *)

\* By the share of value that more valuable rows take up; th: [A, B].
Abc(rows, th) ==
  LET value(i) == Or(rows[i].demand, 0) * Or(rows[i].cost, 0)
      rank(i, j) == value(i) > value(j) \/ (value(i) = value(j) /\ i < j)
      before(i) == SumOver({j \in DOMAIN rows : rank(j, i)}, value)
      total == Or(SumOver(DOMAIN rows, value), 1)
  IN  [i \in DOMAIN rows |-> CASE value(i) <= 0 -> "C"
                               [] 100 * before(i) < th.A * total -> "A"
                               [] 100 * before(i) < th.B * total -> "B"
                               [] OTHER -> "C"]

Xyz(series, th) ==
  CASE series = <<>> \/ Mean(series) <= 0 -> "Z"
    [] Cv(series) <= th.X -> "X"
    [] Cv(series) <= th.Y -> "Y"
    [] OTHER -> "Z"

Fsn(turns, idle, th) ==
  CASE idle # Absent /\ idle > th.nonMoving -> "N"
    [] turns >= th.fast -> "F"
    [] OTHER -> "S"

\* By the share of rows that cost at least as much.
Hml(costs, th) ==
  LET rank(i) == Len(SelectSeq([j \in DOMAIN costs |-> <<Or(costs[j], 0), j>>],
                               LAMBDA c : c[1] > Or(costs[i], 0) \/ (c[1] = Or(costs[i], 0) /\ c[2] <= i)))
  IN  [i \in DOMAIN costs |-> CASE 100 * rank(i) <= th.H * Len(costs) -> "H"
                                [] 100 * rank(i) <= th.M * Len(costs) -> "M"
                                [] OTHER -> "L"]
=============================================================================
