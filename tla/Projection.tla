----------------------------- MODULE Projection -----------------------------
(***************************************************************************)
(* The time-phased balance of demand and supply of an item at a location   *)
(* (projection_service.py), over a horizon of whole weeks.  Amounts are in *)
(* sevenths of a unit, so that a forecast of w units a week is w a day;    *)
(* due times and arrivals are in ticks, since the code rounds them to days.*)
(***************************************************************************)
EXTENDS Quantities, FiniteSets

CONSTANTS
  Ticks,   \* ticks of a day
  Phi,     \* chance, in tenths, of a standard normal variable below z
  Loss     \* normal loss function of z, in tenths

DayOf(tick) == NotBelow0(tick \div Ticks)

ArrivalDay(ib, mode) ==
  NotBelow0(CASE mode = "promised" /\ ib.promised # Absent -> CeilDiv(ib.promised, Ticks)
              [] mode = "p90" -> CeilDiv(10000 * ib.eta + 12816 * ib.sigma, 10000 * Ticks)
              [] OTHER -> CeilDiv(ib.eta, Ticks))

Amount(x) == x.qty
DueOn(list, day) == Total(SelectSeq(list, LAMBDA x : DayOf(x.due) = day), Amount)

\* The days of a week, of the horizon H.
WeekOf(day) == LET w == 7 * (day \div 7) IN w .. w + 6

\* mutant: orders of a week are added to its forecast
UnallocatedToo(forecast, orders, day) == forecast[day]

\* Forecast of a week that its orders do not account for, spread over its days.
Unallocated(forecast, orders, day) ==
  NotBelow0(SumOver(WeekOf(day), LAMBDA i : forecast[i]) - SumOver(WeekOf(day), LAMBDA i : orders[i])) \div 7

\* p: [forecast (daily, extended by its last), orders, requirements, out, inbound, backorder].
Daily(p, H, mode) ==
  LET days == 0 .. H - 1
      forecast == [i \in days |-> IF p.forecast = <<>> THEN 0 ELSE p.forecast[Smaller(i + 1, Len(p.forecast))]]
      orders == Tabled([i \in days |-> DueOn(p.orders, i) + (IF i = 0 THEN p.backorder ELSE 0)])
  IN  [rec |-> Tabled([i \in days |-> Total(SelectSeq(p.inbound, LAMBDA ib : ArrivalDay(ib, mode) = i), Amount)]),
       orders |-> orders,
       unalloc |-> Tabled([i \in days |-> Unallocated(forecast, orders, i)]),
       req |-> Tabled([i \in days |-> DueOn(p.requirements, i)]),
       out |-> Tabled([i \in days |-> DueOn(p.out, i)])]

DemandOn(a, i) == a.orders[i] + a.unalloc[i] + a.req[i] + a.out[i]

\* The balance at the end of every day.
Ending(opening, a, H) ==
  LET end[i \in 0 .. H - 1] == (IF i = 0 THEN opening ELSE end[i - 1]) + a.rec[i] - DemandOn(a, i) IN Tabled(end)

Row(opening, ss, a, end, days) ==
  LET op == IF 0 \in days THEN opening ELSE end[Least(days) - 1]
      sum(series) == SumOver(days, LAMBDA i : series[i])
      last == end[Most(days)]
  IN  [opening |-> op, receipts |-> sum(a.rec), orders |-> sum(a.orders), forecast |-> sum(a.unalloc),
       production |-> sum(a.req), out |-> sum(a.out), ending |-> last,
       flag |-> IF last < 0 THEN "STOCKOUT" ELSE IF last < ss THEN "BELOW_SS" ELSE "OK"]

First(days) == IF days = {} THEN Absent ELSE Least(days)

\* From the movements a and the balances end of every day.
Balances(opening, ss, a, end, H, step) ==
  LET out == {i \in 0 .. H - 1 : end[i] < 0}
      least == Least({end[i] : i \in 0 .. H - 1})
  IN  [rows |-> [k \in 1 .. CeilDiv(H, step) |-> Row(opening, ss, a, end, (k - 1) * step .. Smaller(H, k * step) - 1)],
       ending |-> end, demand |-> [i \in 0 .. H - 1 |-> DemandOn(a, i)],
       firstOut |-> First(out), firstBelow |-> First({i \in 0 .. H - 1 : end[i] < ss}),
       least |-> least, shortage |-> NotBelow0(-least), daysOut |-> out]

Balanced(opening, ss, a, H, step) == Balances(opening, ss, a, Ending(opening, a, H), H, step)
Project(opening, p, ss, H, step, mode) == Balanced(opening, ss, Daily(p, H, mode), H, step)

-----------------------------------------------------------------------------
(* The chance of running out within T days, over the ways in which up to   *)
(* four uncertain lines arrive or not; other lines count by their chance.  *)

At(table, z) == table[Larger(Least(DOMAIN table), Smaller(Most(DOMAIN table), z))]

\* In tenths.
ArrivesBy(T, ib) ==
  IF ib.sigma = 0 THEN (IF Ticks * T >= ib.eta THEN 10 ELSE 0)
  ELSE At(Phi, (Ticks * T - ib.eta) \div ib.sigma)

Uncertain(inbound, T) ==
  LET spread(i) == inbound[i].qty * ArrivesBy(T, inbound[i]) * (10 - ArrivesBy(T, inbound[i]))
      open == {i \in DOMAIN inbound : ArrivesBy(T, inbound[i]) \in 1..9}
  IN  {i \in open : Cardinality({j \in open : spread(j) > spread(i) \/ (spread(j) = spread(i) /\ j < i)}) < 4}

\* In tenths of an amount.
Certain(usable, inbound, T) ==
  10 * usable + SumOver(DOMAIN inbound \ Uncertain(inbound, T), LAMBDA i : inbound[i].qty * ArrivesBy(T, inbound[i]))

\* The chance that of the lines open just those in arrived come.
Weight(inbound, T, open, arrived) ==
  FoldSet(LAMBDA i, w : w * (IF i \in arrived THEN ArrivesBy(T, inbound[i]) ELSE 10 - ArrivesBy(T, inbound[i])), 1, open)

\* The mean, over which of the open lines arrive, of what it means to have net of them.
Expected(inbound, T, open, Of(_)) ==
  SumOver(SUBSET open, LAMBDA s : Weight(inbound, T, open, s) * Of(SumOver(s, LAMBDA i : inbound[i].qty)))
    \div 10 ^ Cardinality(open)

Chance(net, sd) == IF sd = 0 THEN (IF net < 0 THEN 100 ELSE 0) ELSE 100 - 10 * At(Phi, net \div sd)
Short(net, sd) == IF sd = 0 THEN NotBelow0(-net) ELSE (sd * At(Loss, net \div sd)) \div 10

\* [prob (in hundredths), short]: of running out, and by how much.
StockoutRisk(usable, inbound, demand, sd, T, backorder) ==
  LET net == Certain(usable, inbound, T) - 10 * (demand + backorder)
      mean(Of(_, _)) == Expected(inbound, T, Uncertain(inbound, T), LAMBDA units : Of((net + 10 * units) \div 10, sd))
  IN  [prob |-> mean(Chance), short |-> mean(Short)]
=============================================================================
