------------------------------ MODULE Reviews --------------------------------
(***************************************************************************)
(* What is reported about the whole of the stock: the sales and operations *)
(* plan (sop_service.py), the measures behind the KPIs (kpi_service.py)    *)
(* and the scores of suppliers (risk_service.py).  A pair is [item, loc,   *)
(* source, cost, onHand, ...]; days are counted from today.                *)
(***************************************************************************)
EXTENDS Statistics

\* Pairs that supply no other location with their item.
TerminalPairs(pairs) ==
  {n \in DOMAIN pairs : ~\E m \in DOMAIN pairs : pairs[m].item = pairs[n].item /\ pairs[m].source = pairs[n].loc}

-----------------------------------------------------------------------------
(* The plan.  x: [pairs (with forecast, inbound), baseline (Seq of [pair,
   day, qty]), weekday, months, up, down], months of 30 days from 0; values
   are at cost, in hundredths.                                             *)

Cases == {"Baseline", "Consensus", "Upside", "Downside"}
Factor(x, case) == CASE case = "Upside" -> 100 + x.up [] case = "Downside" -> 100 - x.down [] OTHER -> 100

MonthOf(x, day) == NotBelow0(Smaller(x.months - 1, day \div 30))

BaselineDemand(x, m) ==
  Total(SelectSeq(x.baseline, LAMBDA f : /\ f.day >= -x.weekday /\ f.day < 30 * x.months /\ MonthOf(x, f.day) = m
                                         /\ f.pair \in TerminalPairs(x.pairs)),
        LAMBDA f : f.qty * x.pairs[f.pair].cost)

WeeksOf(x, p, m) == {w \in 1 .. Smaller(Len(p.forecast), 4 * x.months + 2) : Smaller(x.months - 1, (7 * (w - 1)) \div 30) = m}
ConsensusDemand(x, m) ==
  SumOver(TerminalPairs(x.pairs), LAMBDA n : SumOver(WeeksOf(x, x.pairs[n], m), LAMBDA w : x.pairs[n].forecast[w] * x.pairs[n].cost))

Cogs(x, case, m) == Factor(x, case) * (IF case = "Baseline" THEN BaselineDemand(x, m) ELSE ConsensusDemand(x, m))

External(ib) == ib.kind \in {"PO", "PROD"}
Supplied(x, m) ==
  100 * SumOver(DOMAIN x.pairs, LAMBDA n :
          Total(SelectSeq(x.pairs[n].inbound, LAMBDA ib : External(ib) /\ MonthOf(x, NotBelow0(ib.eta)) = m),
                LAMBDA ib : ib.qty * x.pairs[n].cost))

StockValue(x) == 100 * SumOver(DOMAIN x.pairs, LAMBDA n : x.pairs[n].onHand * x.pairs[n].cost)

\* mutant: what is missing in a month is carried into the next
OweOn(x, case, m, before) == [inv |-> before + Supplied(x, m) - Cogs(x, case, m), gap |-> Smaller(0, before + Supplied(x, m) - Cogs(x, case, m))]

\* A month: what is missing is reported once and not carried on.
Month(x, case, m, before) ==
  LET raw == before + Supplied(x, m) - Cogs(x, case, m) IN [inv |-> NotBelow0(raw), gap |-> Smaller(0, raw)]

SopCase(x, case) ==
  FoldLeft(LAMBDA rows, m : Append(rows, Month(x, case, m, IF rows = <<>> THEN StockValue(x) ELSE rows[Len(rows)].inv)),
           <<>>, [n \in 1 .. x.months |-> n - 1])

-----------------------------------------------------------------------------
(* Measures of the pairs in keys over a window of days.  x: [pairs (with    *)
(* class, d, usable, history, fcPairs, backorder), components, sales,       *)
(* counts, receipts, snapshots, window].                                    *)

Late(o) == o.lead > Or(o.promised, o.lead) + 1
InFull(o) == 100 * o.got >= 95 * o.ordered
Otif(o) == ~Late(o) /\ InFull(o)
FullLine(s) == 1000 * s.shipped >= 999 * s.ordered
OnTimeLine(s) == s.ship # Absent /\ s.requested # Absent /\ s.ship <= s.requested

Annual(p) == LET h == SubSeq(p.history, Larger(1, Len(p.history) - 51), Len(p.history))
             IN  (52 * Total(h, Value)) \div Larger(Len(h), 1)

\* mutant: lines of any pair of the items and of the locations of keys
LinesAnywhere(x, keys) ==
  SelectSeq(x.sales, LAMBDA s : /\ s.status = "SHIPPED" /\ s.requested # Absent /\ s.requested >= -x.window
                                /\ \E n, m \in keys : x.pairs[n].item = s.item /\ x.pairs[m].loc = s.loc)

\* Shipped lines of the window, of the pairs in keys.
LinesIn(x, keys) ==
  SelectSeq(x.sales, LAMBDA s : /\ s.status = "SHIPPED" /\ s.requested # Absent /\ s.requested >= -x.window
                                /\ \E n \in keys : x.pairs[n].item = s.item /\ x.pairs[n].loc = s.loc)

Measures(x, keys) ==
  LET in(S) == SumOver(S, LAMBDA n : x.pairs[n].onHand * x.pairs[n].cost)
      selling == {n \in keys \cap TerminalPairs(x.pairs) : x.pairs[n].item \notin x.components}
      busy == {n \in keys : x.pairs[n].d > 0}
      lines == LinesIn(x, keys)
      done == SelectSeq(lines, LAMBDA s : s.delivered # Absent /\ s.placed # Absent)
      counted == SelectSeq(x.counts, LAMBDA c : \E n \in keys : x.pairs[n].item = c.item /\ x.pairs[n].loc = c.loc)
      book(c) == x.pairs[CHOOSE n \in keys : x.pairs[n].item = c.item /\ x.pairs[n].loc = c.loc].onHand
      gap(c) == Larger(c.qty - book(c), book(c) - c.qty)
      right == SelectSeq(counted, LAMBDA c : gap(c) <= 2 \/ 50 * gap(c) <= book(c))
      got == SelectSeq(x.receipts, LAMBDA o : \E n \in keys : x.pairs[n].item = o.item)
      recent == SelectSeq(got, LAMBDA o : o.received # Absent /\ o.received >= -2 * x.window)
      paired(Of(_)) == SumOver(keys, LAMBDA n : Total(SubSeq(x.pairs[n].fcPairs, Larger(1, Len(x.pairs[n].fcPairs) - 12), Len(x.pairs[n].fcPairs)), Of))
      groups == {g \in {<<o.supplier, o.item>> : o \in Range(got)} : Len(SelectSeq(got, LAMBDA o : <<o.supplier, o.item>> = g)) >= 5}
      leads(g) == LET of == SelectSeq(got, LAMBDA o : <<o.supplier, o.item>> = g) IN [n \in DOMAIN of |-> of[n].lead]
  IN  [sums |->
         [inventory |-> in(keys), slow |-> in({n \in keys : x.pairs[n].class \in {"SLOW", "NON_MOVING"}}),
          cogs |-> SumOver(selling, LAMBDA n : Annual(x.pairs[n]) * x.pairs[n].cost),
          demandPairs |-> Cardinality(busy), stockoutPairs |-> Cardinality({n \in busy : x.pairs[n].usable <= 0}),
          backordered |-> SumOver(keys, LAMBDA n : x.pairs[n].backorder),
          bias |-> paired(LAMBDA f : f.forecast - f.actual), actual |-> paired(LAMBDA f : f.actual),
          lines |-> Len(lines), ordered |-> Total(lines, LAMBDA s : s.ordered), shipped |-> Total(lines, LAMBDA s : s.shipped),
          inFull |-> Len(SelectSeq(lines, FullLine)), otif |-> Len(SelectSeq(lines, LAMBDA s : FullLine(s) /\ OnTimeLine(s))),
          cycleDays |-> Total(done, LAMBDA s : s.delivered - s.placed), cycles |-> Len(done),
          counted |-> Len(counted), matched |-> Len(right),
          receipts |-> Len(recent), onTime |-> Len(SelectSeq(recent, LAMBDA o : ~Late(o))), receiptsOtif |-> Len(SelectSeq(recent, Otif))],
       average |-> IF Len(x.snapshots) >= 4 /\ keys = DOMAIN x.pairs THEN Mean(x.snapshots) ELSE in(keys),
       leadMean |-> Mean([n \in 1 .. Cardinality(groups) |-> Mean(leads(Listed(groups)[n]))]),
       leadStd |-> Mean([n \in 1 .. Cardinality(groups) |-> Std(leads(Listed(groups)[n]))])]

-----------------------------------------------------------------------------
(* Suppliers.  x: [suppliers (id |-> [geo, rejection]), receipts, sources    *)
(* (Seq of [item, supplier]), critical (items), weights]; components are in  *)
(* thousandths, scores in hundredths.                                        *)

Clamp(t) == NotBelow0(Smaller(1000, t))

\* Critical items that only this supplier delivers.
SoleItems(x, sid) ==
  {i \in x.critical : /\ \E n \in DOMAIN x.sources : x.sources[n].item = i /\ x.sources[n].supplier = sid
                      /\ Cardinality({n \in DOMAIN x.sources : x.sources[n].item = i}) = 1}

OtifCount(os) == Len(SelectSeq(os, Otif))

Components(x, sid) ==
  LET os == SelectSeq(x.receipts, LAMBDA o : o.supplier = sid /\ o.received # Absent /\ o.received >= -365)
      n == Len(os)
      share(k, none) == IF n = 0 THEN none ELSE (1000 * k) \div n
      rejected == IF n = 0 THEN x.suppliers[sid].rejection
                  ELSE (1000 * Total(os, LAMBDA o : o.rejected)) \div Larger(1, Total(os, LAMBDA o : o.got))
  IN  [otif |-> 1000 - share(OtifCount(os), 700), reliability |-> 1000 - share(Len(SelectSeq(os, LAMBDA o : ~Late(o))), 700),
       quality |-> Clamp(20 * rejected), concentration |-> Clamp(200 * Cardinality(SoleItems(x, sid))),
       geo |-> Clamp(x.suppliers[sid].geo), expedite |-> Clamp((10 * share(Len(SelectSeq(os, LAMBDA o : o.hurried)), 0)) \div 3)]

WeightOf(x, k) == IF k \in DOMAIN x.weights THEN x.weights[k] ELSE 0
RiskScore(x, sid) ==
  LET comp == Components(x, sid)
      all == SumOver(DOMAIN x.weights, LAMBDA k : x.weights[k])
  IN  (10 * SumOver(DOMAIN comp, LAMBDA k : comp[k] * WeightOf(x, k))) \div Or(all, 1)
SupplierScorecards(x) == [sid \in DOMAIN x.suppliers |-> RiskScore(x, sid)]
=============================================================================
