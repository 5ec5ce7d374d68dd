------------------------------ MODULE Replenish ------------------------------
(***************************************************************************)
(* Order quantities (replenishment_service.py): rounding to what can be    *)
(* ordered, gross-to-net planning, and the policies.  q is a quantity, c   *)
(* the state of the item: [position, d, L, R, ss, rop, eoq, sequenced,     *)
(* cover, planned]; p the parameters of its policy row, Absent if not set. *)
(***************************************************************************)
EXTENDS Quantities

Multiple(q, multiple) == IF Or(multiple, 0) > 0 THEN CeilDiv(q, multiple) * multiple ELSE q
Cap(most, multiple) == IF Or(multiple, 0) > 0 THEN (most \div multiple) * multiple ELSE most

\* mutant: the maximum is applied before the rounding
PracticalQtyUncapped(q, moq, multiple, most) ==
  IF q = Absent \/ q <= 0 THEN 0
  ELSE Multiple(IF most # Absent /\ Larger(q, Or(moq, 0)) > most THEN most ELSE Larger(q, Or(moq, 0)), multiple)

\* Raised to the minimum and to a multiple, then cut to the maximum; 0 when nothing can be ordered.
PracticalQty(q, moq, multiple, most) ==
  LET raised == Multiple(Larger(q, Or(moq, 0)), multiple)
  IN  CASE q = Absent \/ q <= 0 -> 0
        [] most = Absent \/ raised <= most -> raised
        [] Cap(most, multiple) < Or(moq, 0) -> 0
        [] OTHER -> Cap(most, multiple)

\* Day by day: when stock would fall below ss an order is planned for that day, or, when
\* there is no time left, for the day of its arrival.  An order is [day, release, receipt, qty].
MrpPlan(opening, rec, demand, ss, L, moq, multiple, most) ==
  LET n == Cardinality(DOMAIN demand)
      step(s, t) ==
        LET inv == s.inv + rec[t] + Total(SelectSeq(s.plan, LAMBDA o : o.receipt = t), LAMBDA o : o.qty) - demand[t]
            late == t < L
            order == [day |-> t, release |-> NotBelow0(t - L), receipt |-> IF late THEN L ELSE t,
                      qty |-> Or(PracticalQty(ss - inv, moq, multiple, most), ss - inv)]
        IN  IF inv >= ss THEN [s EXCEPT !.inv = inv]
            ELSE [inv |-> inv + (IF late THEN 0 ELSE order.qty), plan |-> Append(s.plan, order)]
  IN  FoldLeft(step, [inv |-> opening, plan |-> <<>>], [k \in 1 .. n |-> k - 1]).plan

-----------------------------------------------------------------------------
(* Policies: [triggered, qty] with the quantity before rounding, and the   *)
(* level whose crossing triggers it.                                       *)

Order(qty, level) == [triggered |-> TRUE, qty |-> qty, level |-> level]
NoOrder(level) == [triggered |-> FALSE, qty |-> 0, level |-> level]
When(triggered, qty, level) == IF triggered THEN Order(qty, level) ELSE NoOrder(level)

\* mutant: one lot, however deep the position is
LotsOne(level, position, lot) == IF lot <= 0 THEN NotBelow0(level - position) ELSE lot

\* Lots that lift the position to the level.
Lots(level, position, lot) ==
  IF lot <= 0 THEN NotBelow0(level - position)
  ELSE IF position <= level THEN CeilDiv(NotBelow0(level - position), lot) * lot ELSE 0

UpTo(level, target, c) == When(c.position <= level, NotBelow0(target - c.position), level)
Below(target, c) == When(c.position < target, target - c.position, target)

Kanban(p, c) ==
  LET size == Or(p.container, Larger(c.eoq \div 4, 1))
      needed == 11 * c.d * (c.L + 1)                       \* tenths: alpha is 0.1, safety_days 1
      cards == Or(p.cards, Larger(1, CeilDiv(needed, 10 * size)))
      target == cards * size
  IN  When(c.position <= target - size, size * ((target - c.position) \div size), target - size)

Sequenced(c) == When(c.cover < c.sequenced, c.sequenced - c.cover, c.sequenced)

Planned(c) ==
  LET due == SelectSeq(c.planned, LAMBDA o : o.release <= NotBelow0(c.R))
  IN  When(due # <<>>, Total(due, LAMBDA o : o.qty), Absent)

Recommend(policy, p, c) ==
  LET lot(q) == Or(Lots(c.rop, c.position, q), q)
  IN  CASE policy = "MIN_MAX"     -> UpTo(Else(p.min, c.rop), Else(p.max, c.rop + c.eoq), c)
        [] policy = "ROP"         -> When(c.position <= c.rop,
                                          Or(Lots(c.rop, c.position, IF c.eoq > 0 THEN c.eoq ELSE Else(p.fixed, 0)), c.eoq), c.rop)
        [] policy = "FIXED_QTY"   -> When(c.position <= c.rop, lot(Or(p.fixed, c.eoq)), c.rop)
        [] policy = "PERIODIC"    -> Below(Or(p.upTo, c.d * (c.L + Or(p.review, c.R)) + c.ss), c)
        [] policy = "ORDER_UP_TO" -> UpTo(Else(p.s, c.rop), Or(p.upTo, c.rop + c.eoq), c)
        [] policy = "BASE_STOCK"  -> Below(Or(p.base, c.d * c.L + c.ss), c)
        [] policy = "KANBAN"      -> Kanban(p, c)
        [] policy = "JIT"         -> Below(c.d * (c.L + Else(p.window, 2)), c)
        [] policy = "JIS"         -> Sequenced(c)
        [] policy \in {"MRP", "DRP"} -> Planned(c)
=============================================================================
