------------------------------- MODULE Engine -------------------------------
(***************************************************************************)
(* The inventory engine (engine.py): from the inputs p of an item at a     *)
(* location and the configuration c to its levels, its risk, its class and *)
(* what to order.  Amounts are in sevenths of a unit, days are whole,      *)
(* arrivals and due times in ticks, shares in hundredths.                  *)
(***************************************************************************)
EXTENDS Projection, Picking, Replenish, Statistics, Rules

CONSTANTS
  ZOf,       \* service level |-> normal quantile, in tenths
  ZOfLoss    \* normal loss, in hundredths |-> its argument, in tenths

\* The review period: the policy's, a day for pull policies, else the default.
ReviewDays(p, c) ==
  IF Or(p.repl.review, p.policy.review) \notin {Absent, 0} THEN Or(p.repl.review, p.policy.review)
  ELSE IF p.repl.policy \in {"KANBAN", "JIT", "JIS"} THEN 1 ELSE c.review

LastOf(s, n) == SubSeq(s, Larger(1, Len(s) - n + 1), Len(s))
FirstOf(s, n) == SubSeq(s, 1, Smaller(n, Len(s)))

\* [d, sd, profile]: daily demand over the window, from the forecast or else from history, and its
\* deviation, from forecast errors, from history, or assumed.  Weekly units are daily sevenths.
DemandStats(p, c, window) ==
  LET win == LastOf(p.history, c.statsWeeks)
      mean == IF p.forecast # <<>> THEN Mean(FirstOf(p.forecast, CeilDiv(Larger(window, 1), 7)))
              ELSE Mean(win)
      weekly == CASE Len(p.fcPairs) >= 8 -> Std([i \in DOMAIN p.fcPairs |-> p.fcPairs[i].forecast - p.fcPairs[i].actual])
                  [] Len(win) >= 8 -> Std(win)
                  [] win # <<>> /\ mean > 0 -> mean \div 2
                  [] OTHER -> 0
  IN  [d |-> mean, sd |-> (53 * weekly) \div 20, profile |-> DemandProfile(win)]     \* 7 / root of 7 is 2.65

\* In tenths of a day and sevenths, rounded to sevenths.
SigmaLtd(sd, d, L, sL, R) == Root((L + R) * sd * sd + d * d * sL * sL)

\* The quantile used: of the service level, or where the normal loss is the share of an order that may be missed.
Quantile(method, level, sigma, order, d, L) ==
  LET qty == IF order > 0 THEN order ELSE Larger(d * Larger(L, 1), 7)
  IN  CASE method # "service_level" -> ZOf[level]
        [] sigma = 0 -> 0
        [] OTHER -> At(ZOfLoss, ((100 - level) * qty) \div sigma)

SafetyStock(method, level, d, sd, L, sL, R, order, sample) ==
  LET sigma == SigmaLtd(sd, d, L, sL, 0)
      times(x) == (Quantile(method, level, sigma, order, d, L) * x) \div 10
  IN  NotBelow0(CASE method = "basic"    -> (d + 2 * sd) * (L + 2 * sL) - d * L
                  [] method = "demand"   -> times(Root(L * sd * sd))
                  [] method = "leadtime" -> times(d * sL)
                  [] method = "periodic" -> times(SigmaLtd(sd, d, L, sL, R))
                  [] method = "empirical" /\ Len(sample) >= 20 -> Percentile(sample, level) - Mean(sample)
                  [] OTHER               -> times(sigma))

\* Every sum of as many weeks as the lead time covers, scaled to it.
LeadTimeDemand(weekly, L) ==
  LET k == Larger(1, CeilDiv(L, 7))
      draws == Listed([1..k -> DOMAIN weekly])
  IN  [n \in DOMAIN draws |-> (SumOver(1..k, LAMBDA i : weekly[draws[n][i]]) * L) \div k]

Eoq(annual, cost, c) ==
  IF annual <= 0 \/ c.ordering <= 0 \/ cost * c.holding <= 0 THEN 0
  ELSE 7 * Root((200 * c.ordering * (annual \div 7)) \div (cost * c.holding))

\* [ss, z, method]: what the policy of the pair fixes, or else what the method gives.
SafetyLevel(p, c, ds, lt, R, order) ==
  LET sparse == ds.profile \in {"INTERMITTENT", "LUMPY"} /\ p.policy.method # "basic" /\ Len(p.history) >= 20
      method == IF sparse THEN "empirical" ELSE p.policy.method
      level == Or(p.policy.level, c.level)
      sample == IF method = "empirical" THEN LeadTimeDemand(LastOf(p.history, 52), lt.L) ELSE <<>>
  IN  CASE p.policy.fixed # Absent -> [ss |-> p.policy.fixed, z |-> 0, method |-> "combined"]
        [] p.policy.cover # Absent -> [ss |-> ds.d * p.policy.cover, z |-> 0, method |-> "combined"]
        [] OTHER -> [ss |-> SafetyStock(method, level, ds.d, ds.sd, lt.L, lt.sigma, R, order, sample), method |-> method,
                     z |-> Quantile(method, level, SigmaLtd(ds.sd, ds.d, lt.L, lt.sigma, 0), order, ds.d, lt.L)]

-----------------------------------------------------------------------------
(* Stock and what is coming. *)

OnHandStates == {"UNRESTRICTED", "QUARANTINED", "BLOCKED"}
Stock(p, states) == SumOver(states \cap DOMAIN p.stock, LAMBDA s : p.stock[s])
Coming(p, inTransit, kinds) == Total(SelectSeq(p.inbound, LAMBDA ib : ib.inTransit = inTransit /\ ib.kind \in kinds), Amount)

Claims(p) == p.allocated + p.committed + p.reserved

ComputePosition(p, c) ==
  LET usable == Stock(p, {"UNRESTRICTED"})
      transit == Coming(p, TRUE, {"PO", "TO"})
      order == Coming(p, FALSE, {"PO", "TO", "PROD"})
  IN  [onHand |-> Stock(p, OnHandStates), usable |-> usable, available |-> usable - Claims(p), inTransit |-> transit,
       onOrder |-> order, over |-> usable < Claims(p),
       position |-> usable + (IF c.inTransit THEN transit ELSE 0) + order - Claims(p) - p.backorder]

\* NORMAL, or why the stock is too much; what exceeds the levels is EXCESS.
Moving(p, c, d, pos) ==
  LET idle == p.noDemandFor
      still == p.noMoveFor
      beyond(x, limit) == x # Absent /\ x > limit
  IN  CASE pos.onHand <= 0 -> "NORMAL"
        [] p.life = "OBSOLETE" \/ beyond(idle, c.obsoleteDays) \/ (p.eolPassed /\ d = 0) -> "OBSOLETE"
        [] beyond(idle, c.nonMovingDays) \/ (d = 0 /\ Else(still, 0) > c.nonMovingDays) -> "NON_MOVING"
        [] beyond(still, c.slowDays) \/ (d > 0 /\ pos.usable > 3 * d * c.excessDays) -> "SLOW"
        [] OTHER -> "NORMAL"

Excess(p, c, d, pos, maxLevel) ==
  LET class == Moving(p, c, d, pos)
      over == NotBelow0(pos.usable - Larger(maxLevel, d * c.excessDays))
  IN  IF class \in {"OBSOLETE", "NON_MOVING"} THEN [class |-> class, qty |-> pos.onHand]
      ELSE [class |-> IF class = "NORMAL" /\ over > 0 THEN "EXCESS" ELSE class, qty |-> over]

LotsAt(p) == SelectSeq(p.lots, LAMBDA l : l.qty > 0)
OldestDays(p) ==
  LET ages == {-LotsAt(p)[i].received : i \in {i \in DOMAIN LotsAt(p) : LotsAt(p)[i].received # Absent}}
  IN  IF ages # {} THEN Most(ages) ELSE p.noReceiptFor

\* Days to expiry, share of the shelf life that remains, and status; made is the day of manufacture.
ExpiryInfo(expiry, made, shelfLife, th) ==
  LET life == IF made # Absent THEN expiry - made ELSE Or(shelfLife, 0)
      pct == IF life <= 0 THEN Absent ELSE Smaller(100, NotBelow0((100 * expiry) \div life))
  IN  IF expiry = Absent THEN [days |-> Absent, pct |-> Absent, status |-> "NONE"]
      ELSE [days |-> expiry, pct |-> pct, status |-> ExpiryStatus(expiry, pct, th)]

\* [days, status, expired, risk].
Expiry(p, c, d) ==
  LET dated == SelectSeq(LotsAt(p), LAMBDA l : l.expiry # Absent)
      days == Least({dated[i].expiry : i \in DOMAIN dated})
      risk == AtRisk(SelectSeq(p.lots, LAMBDA l : l.state \in {"UNRESTRICTED", "QUARANTINED"}), d)
  IN  IF dated = <<>> THEN [days |-> Absent, status |-> "NONE", expired |-> 0, risk |-> 0]
      ELSE [days |-> days, status |-> ExpiryInfo(days, Absent, p.shelfLife, c.expiry).status,
            expired |-> Total(SelectSeq(dated, LAMBDA l : l.expiry < 0), Amount),
            risk |-> SumOver(DOMAIN risk, LAMBDA n : risk[n].risk)]

-----------------------------------------------------------------------------
(* What to order.  r: [d, lt, R, ss, rop, qty (practical or economic), pos, pr]. *)

Within(list, days) == Total(SelectSeq(list, LAMBDA x : x.due <= Ticks * days), Amount)

\* Lot for lot: what the projection lacks in the week after it falls below the safety stock.
LotForLot(r) ==
  LET week == r.pr.firstBelow .. Smaller(r.pr.firstBelow + 6, Most(DOMAIN r.pr.ending))
  IN  IF r.pr.firstBelow = Absent THEN NoOrder(r.ss)
      ELSE [triggered |-> r.pr.firstBelow - r.lt.L <= NotBelow0(r.R), level |-> r.ss,
            qty |-> NotBelow0(r.ss - Least({r.pr.ending[i] : i \in week}))]

Advice(p, r) ==
  LET rec == [i \in DOMAIN r.pr.demand |-> Total(SelectSeq(p.inbound, LAMBDA ib : ArrivalDay(ib, "eta") = i), Amount)]
      due == SelectSeq(p.inbound, LAMBDA ib : ib.eta <= Ticks * p.repl.sequenceDays)
  IN  IF p.repl.policy = "L4L" THEN LotForLot(r)
      ELSE Recommend(p.repl.policy, p.repl,
             [position |-> r.pos.position, d |-> r.d, L |-> r.lt.L, R |-> r.R, ss |-> r.ss, rop |-> r.rop, eoq |-> r.qty,
              sequenced |-> Within(p.orders, p.repl.sequenceDays) + Within(p.requirements, p.repl.sequenceDays),
              cover |-> r.pos.usable + Total(due, Amount),
              planned |-> IF p.repl.policy \in {"MRP", "DRP"}
                          THEN MrpPlan(r.pos.usable, rec, r.pr.demand, r.ss, r.lt.L, r.moq, r.multiple, p.repl.maxQty) ELSE <<>>])

\* Now if triggered, else when demand will have taken the position to the reorder point.
OrderDay(advice, r) ==
  IF advice.triggered THEN 0
  ELSE IF r.d > 0 THEN NotBelow0((r.pos.position - r.rop) \div r.d) ELSE Absent

\* r is the result before it, advice what the policy asks for, qty as much of it as can be ordered, day when.
Proposal(p, r, advice, qty, day) ==
  LET wait == r.lt.L + r.R
      inbound == [n \in DOMAIN p.inbound |-> p.inbound[n] @@ [sigma |-> Ticks * r.lt.sigma]]
  IN  [triggered |-> advice.triggered /\ qty > 0, raw |-> advice.qty, qty |-> qty, level |-> advice.level,
       day |-> day, arrival |-> IF day = Absent THEN Absent ELSE day + r.lt.L,
       atArrival |-> IF day = Absent THEN Absent ELSE r.pr.ending[Smaller(day + r.lt.L, Most(DOMAIN r.pr.ending))],
       position |-> r.pos.position + qty,
       otherwise |-> StockoutRisk(r.pos.usable, inbound, r.d * wait, Root(r.sd * r.sd * Larger(wait, 1)), wait, p.backorder)]

Advised(p, r, advice) ==
  Proposal(p, r, advice, PracticalQty(advice.qty, r.moq, r.multiple, p.repl.maxQty), OrderDay(advice, r))
Recommendation(p, r) == Advised(p, r, Advice(p, r))

-----------------------------------------------------------------------------
(* The result grows from step to step: lead time, demand, levels, stock,   *)
(* projection, risk.                                                       *)

Timed(p, c, st) ==
  [st |-> st, lt |-> PlanningLeadTime(st, c), R |-> ReviewDays(p, c), moq |-> Or(p.moq, p.itemMoq),
   multiple |-> Or(p.multiple, p.itemMultiple)]
Demanded(p, c, r) == r @@ DemandStats(p, c, r.lt.L + r.R)

\* The practical quantity of the economic one, if there is any.
OrderLot(p, r, economic) == Or(PracticalQty(economic, r.moq, r.multiple, p.repl.maxQty), economic)
Sized(p, c, r, lot) == r @@ [qty |-> lot, safety |-> SafetyLevel(p, c, r, r.lt, r.R, lot)]
Levelled(p, c, r) ==
  r @@ [ss |-> r.safety.ss, rop |-> r.d * r.lt.L + r.safety.ss, maxLevel |-> r.d * r.lt.L + r.safety.ss + r.qty,
        pos |-> ComputePosition(p, c)]
PairLevels(p, c, r) == Levelled(p, c, Sized(p, c, r, OrderLot(p, r, Eoq(365 * r.d, Or(p.cost, 0), c))))

Inbound(p, r) ==
  [n \in DOMAIN p.inbound |-> p.inbound[n] @@ [sigma |-> (Ticks * r.lt.sigma) \div (IF p.inbound[n].inTransit THEN 2 ELSE 1)]]
ProjectPair(p, c, r, inbound, mode) ==
  LET daily == IF p.forecast = <<>> THEN <<r.d>> ELSE [i \in 1 .. 7 * Len(p.forecast) |-> p.forecast[(i - 1) \div 7 + 1]]
  IN  Project(r.pos.usable, [forecast |-> daily, orders |-> p.orders, requirements |-> p.requirements, out |-> p.out,
                             inbound |-> inbound, backorder |-> p.backorder], r.ss, 7 * c.weeks, 7, mode)
Projected(p, c, r, inbound) ==
  r @@ [pr |-> ProjectPair(p, c, r, inbound, "eta"), late |-> ProjectPair(p, c, r, inbound, "p90").firstOut]

Idle(p, r) == r.d = 0 /\ p.orders = <<>> /\ p.requirements = <<>>

\* Until stock runs out: as projected, or at the usual rate when nothing is on its way.
DaysOut(p, c, r) ==
  CASE r.pr.firstOut # Absent -> r.pr.firstOut
    [] r.d > 0 /\ p.inbound = <<>> /\ r.pos.usable < 7 * c.weeks * r.d -> r.pos.usable \div r.d
    [] OTHER -> Absent

RiskOf(p, c, r, inbound) ==
  LET T == Larger(r.lt.L, 1)
      demand == SumOver(0 .. Smaller(7 * c.weeks, T) - 1, LAMBDA i : r.pr.demand[i])
  IN  StockoutRisk(r.pos.usable, inbound, IF p.orders = <<>> THEN Larger(demand, r.d * T) ELSE demand,
                   Root(r.sd * r.sd * T), T, p.backorder)

Judged(p, c, r, out, risk) ==
  r @@ [daysOut |-> out, prob |-> IF Idle(p, r) THEN 0 ELSE risk.prob, short |-> risk.short,
        level |-> IF Idle(p, r) THEN 0 ELSE StockoutLevel(risk.prob, out, r.lt.L, c.stockout),
        excess |-> Excess(p, c, r.d, r.pos, r.maxLevel), oldest |-> OldestDays(p), expiry |-> Expiry(p, c, r.d)]
Assessed(p, c, r, inbound) == Judged(p, c, r, DaysOut(p, c, r), RiskOf(p, c, r, inbound))
Concluded(p, c, r) == Assessed(p, c, Projected(p, c, r, Inbound(p, r)), Inbound(p, r))
ComputePair(p, c) ==
  Concluded(p, c, PairLevels(p, c, Demanded(p, c, Timed(p, c, LeadTimes(p.observed, p.staticLt, c.minObs)))))

WithAdvice(p, r) == r @@ [rec |-> Recommendation(p, r)]
Plan(p, c) == WithAdvice(p, ComputePair(p, c))
=============================================================================
