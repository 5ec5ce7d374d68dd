------------------------------ MODULE OrderPlan ------------------------------
(***************************************************************************)
(* What to order of many items under shared limits                         *)
(* (optimization_service.replenishment_plan, optimization/replenishment.py)*)
(* A line is [id, need, moq, mult, most, cost, weight, supplier, shelf,    *)
(* short, hurry]; amounts are whole units.  limits is [budget, volume,     *)
(* truck, floor, capacity]; a limit that is not set is Absent, shares are  *)
(* in hundredths.  A plan chooses for each line how many multiples to      *)
(* order (k) and how much to buy in a hurry (z).                           *)
(***************************************************************************)
EXTENDS Engine

Families == <<"budget", "warehouse", "supplier", "truck", "shelf", "capacity", "service", "moq">>

WholeUp(x) == CeilDiv(x, 7)

\* Lines for what is bought, has a demand, and lacks at least a unit of its target.
LinesOf(pairs, c, rs) ==
  LET short(n) == NotBelow0(rs[n].d * (rs[n].lt.L + rs[n].R) + rs[n].ss - rs[n].pos.position)
      open == {n \in DOMAIN pairs : /\ pairs[n].supplier # Absent /\ rs[n].d > 0 /\ Or(pairs[n].cost, 0) > 0
                                    /\ short(n) >= 7}
      line(n) ==
        LET p == pairs[n]
            mult == WholeUp(Or(p.multiple, 7))
            moq == IF Or(p.moq, 0) = 0 THEN mult ELSE WholeUp(p.moq)
            need == WholeUp(short(n))
        IN  [id |-> n, need |-> need, moq |-> moq, mult |-> mult, cost |-> p.cost, weight |-> p.weight, supplier |-> p.supplier,
             most |-> Larger(6 * need, Larger(3 * moq, 4 * mult)), volume |-> p.volume,
             shelf |-> IF Or(p.shelfLife, 0) = 0 THEN Absent ELSE Larger((4 * rs[n].d * p.shelfLife) \div 35, moq),
             capacity |-> IF Or(p.supplierCapacity, 0) = 0 THEN Absent ELSE (p.supplierCapacity * Larger(rs[n].lt.L, 7)) \div 7]
  IN  Listed({line(n) : n \in open})

\* The mean of what the supplier's lines say it can deliver.
CapacityOf(lines, supplier) ==
  LET said == SelectSeq(lines, LAMBDA l : l.supplier = supplier /\ l.capacity # Absent)
  IN  IF said = <<>> THEN Absent ELSE Total(said, LAMBDA l : l.capacity) \div Len(said)

Qty(lines, x, n) == lines[n].mult * x[n].k
AtMost(used, limit) == limit = Absent \/ used <= limit

\* mutant: emergency purchases are not charged to the budget
SpendPlanned(lines, x) == SumOver(DOMAIN lines, LAMBDA n : Qty(lines, x, n) * lines[n].cost)
Spend(lines, x) == SumOver(DOMAIN lines, LAMBDA n : (Qty(lines, x, n) + x[n].z) * lines[n].cost)

Shipped(lines, x, s) == SumOver({n \in DOMAIN lines : lines[n].supplier = s}, LAMBDA n : Qty(lines, x, n) * lines[n].weight)

\* Whether a plan is within the limits, those of the family that is dropped left out.
Keeps(lines, limits, x, drop, enforce) ==
  /\ \A n \in DOMAIN lines :
       LET l == lines[n]
           q == Qty(lines, x, n)
       IN  /\ drop = "moq" \/ q = 0 \/ q >= l.moq
           /\ q <= Larger(Larger(l.most, l.moq), Larger(l.mult, 1))
           /\ enforce /\ drop # "service" => 100 * (q + x[n].z) >= limits.floor * l.need
           /\ drop = "shelf" \/ AtMost(q, l.shelf)
           /\ drop = "capacity" \/ q <= l.most
           /\ 10 * x[n].z <= 3 * l.need
  /\ drop = "budget" \/ AtMost(Spend(lines, x), limits.budget)
  /\ drop = "warehouse" \/ AtMost(SumOver(DOMAIN lines, LAMBDA n : Qty(lines, x, n) * lines[n].volume), limits.volume)
  /\ \A s \in {lines[n].supplier : n \in DOMAIN lines} :
       /\ \/ drop = "supplier"
          \/ AtMost(SumOver({n \in DOMAIN lines : lines[n].supplier = s}, LAMBDA n : Qty(lines, x, n)), CapacityOf(lines, s))
       /\ drop = "truck" \/ limits.truck = Absent \/ Shipped(lines, x, s) <= 200 * limits.truck

Plans(lines) ==
  LET k(n) == CeilDiv(Larger(Larger(lines[n].most, lines[n].moq), lines[n].need), lines[n].mult) + 1
      z(n) == (3 * lines[n].need) \div 10
      all == [DOMAIN lines -> [k : 0 .. Most({k(n) : n \in DOMAIN lines}), z : 0 .. Most({z(n) : n \in DOMAIN lines})]]
  IN  {x \in all : \A n \in DOMAIN lines : x[n].k <= k(n) /\ x[n].z <= z(n)}

Lost(lines, x, n) == NotBelow0(lines[n].need - Qty(lines, x, n) - x[n].z)
Beyond(lines, x, n) == NotBelow0(Qty(lines, x, n) - lines[n].need)

\* Lost sales, purchases in a hurry, stock and capital tied up, what may become obsolete, orders and trucks.
Objective(lines, limits, w, x) ==
  LET trucks(s) == IF limits.truck = Absent THEN 0 ELSE CeilDiv(Shipped(lines, x, s), limits.truck)
  IN  SumOver(DOMAIN lines, LAMBDA n : w.stockout * Lost(lines, x, n) + w.expedite * x[n].z
                                       + w.holding * lines[n].cost * Qty(lines, x, n) + w.obsolete * Beyond(lines, x, n)
                                       + (IF x[n].k > 0 THEN w.order ELSE 0))
      + SumOver({lines[n].supplier : n \in DOMAIN lines}, LAMBDA s : w.truck * trucks(s))

\* The plans the solver may return; none when the limits contradict each other.
BestPlans(lines, limits, w, enforce) ==
  LET kept == {x \in Plans(lines) : Keeps(lines, limits, x, "none", enforce)}
      cost == [x \in kept |-> Objective(lines, limits, w, x)]
      least == Least({cost[x] : x \in kept})
  IN  IF kept = {} THEN {} ELSE {x \in kept : cost[x] = least}

\* Families of limits each of which, left out, makes a plan possible; and the smallest budget that would.
Diagnose(lines, limits, enforce) ==
  LET without(f) == {x \in Plans(lines) : Keeps(lines, limits, x, f, enforce)}
  IN  [fixes |-> {f \in ToSet(Families) : without(f) # {}},
       budget |-> IF limits.budget = Absent \/ without("budget") = {} THEN Absent
                  ELSE Least({Spend(lines, x) : x \in without("budget")})]

-----------------------------------------------------------------------------
(* Scarce supply split over demands [qty, score] (optimization/
   allocation.py).  Fill is in tenths; quantities are multiples of ten
   times the number of demands, so that every floor is whole.              *)

\* What each demand is guaranteed: a share of itself or of an equal part of the supply.
Floors(supply, demands, fill) ==
  [n \in DOMAIN demands |-> (Smaller(demands[n].qty, supply \div Len(demands)) * fill) \div 10]

\* The orders of the demands by their scores: one for every way to break ties.
ByScore(demands) ==
  {s \in [DOMAIN demands -> DOMAIN demands] : /\ \A i, j \in DOMAIN s : i # j => s[i] # s[j]
                                              /\ \A i, j \in DOMAIN s : i < j => demands[s[i]].score >= demands[s[j]].score}

\* mutant: what the floors take is not taken from the supply
UnguardedSplit(supply, demands, fill, order) ==
  LET floor == Floors(supply, demands, fill)
      give(s, n) == LET more == Smaller(demands[n].qty - s.x[n], s.left) IN [x |-> [s.x EXCEPT ![n] = @ + more], left |-> s.left - more]
  IN  FoldLeft(give, [x |-> floor, left |-> supply], order).x

\* A vertex of the linear program: beyond the floors, the demands of higher scores are filled first.
\* Absent if the floors exceed the supply or a demand.
SolveAllocation(supply, demands, fill, order) ==
  LET floor == Floors(supply, demands, fill)
      floors == SumOver(DOMAIN demands, LAMBDA n : floor[n])
      give(s, n) == LET more == Smaller(demands[n].qty - s.x[n], s.left) IN [x |-> [s.x EXCEPT ![n] = @ + more], left |-> s.left - more]
  IN  CASE demands = <<>> \/ supply <= 0 -> [n \in DOMAIN demands |-> 0]
        [] floors > supply \/ \E n \in DOMAIN demands : floor[n] > demands[n].qty -> Absent
        [] OTHER -> FoldLeft(give, [x |-> floor, left |-> supply - floors], order).x
=============================================================================
