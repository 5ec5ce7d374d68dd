------------------------------ MODULE Planning -------------------------------
(***************************************************************************)
(* The planning services together, each at a task: an item at a location   *)
(* whose stock is sold, planned and replenished; a digital twin; a network *)
(* whose stock is rebalanced; an order plan; lots to pick; the policy,     *)
(* unit, reconciliation, forecast and preparation steps before them; and   *)
(* what is reported about them.                                            *)
(***************************************************************************)
EXTENDS Twin, Rebalance, OrderPlan, Reconcile, Preparation, Reviews, Picking

CONSTANTS
  Tasks,       \* [kind, no]
  Pairs,       \* [p, c]
  Networks,    \* [nodes, lanes, cold, ambient, penalty, c, t]
  Plannings,   \* [pairs, c, limits, weights, enforce]
  Picks,       \* [lots, qty, minDays, any, expired, demand]
  Policied,    \* [policies, item, loc]
  Conversions, \* [from, to, factors]
  Audits,      \* [ext, book, rules]
  Histories,   \* [rows, forecasts, precedence, weeks]
  Sourcings,   \* [suppliers, assigned, item, loc, obs, minObs]
  SalesPlans,  \* of Reviews
  Measured,    \* of Reviews
  Scorings,    \* of Reviews
  Splits,      \* [supply, more, demands, fill]
  Traced,      \* [book, lot]
  Feeds,       \* [table, m, precedence, weeks]
  MaxSold,     \* units that are sold
  MaxOrders    \* orders under way

VARIABLES
  task,
  desk,    \* [delta, placed, before]: stock sold and received, orders placed, the result before the last order
  choice   \* flows or plan that was chosen

vars == <<task, desk, choice, twin>>

\* The results of the nodes of each network and of the pairs of each planning.
NodeResults == [n \in DOMAIN Networks |-> [i \in DOMAIN Networks[n].nodes |-> Plan(Networks[n].nodes[i], Networks[n].c)]]
PlanLines == [n \in DOMAIN Plannings |->
                LinesOf(Plannings[n].pairs, Plannings[n].c,
                        [i \in DOMAIN Plannings[n].pairs |-> ComputePair(Plannings[n].pairs[i], Plannings[n].c)])]

Init ==
  /\ task \in Tasks
  /\ desk = [delta |-> 0, placed |-> <<>>, before |-> Absent]
  /\ choice = Absent
  /\ twin = [of |-> 0]

PairNow ==
  LET p == Pairs[task.no].p
  IN  [p EXCEPT !.stock.UNRESTRICTED = @ + desk.delta, !.inbound = @ \o desk.placed]
Now == Plan(PairNow, Pairs[task.no].c)

Sell(units) ==
  /\ task.kind = "pair"
  /\ desk.delta > -MaxSold * Unit
  /\ PairNow.stock.UNRESTRICTED >= units * Unit
  /\ desk' = [desk EXCEPT !.delta = @ - units * Unit, !.before = Absent]
  /\ UNCHANGED <<task, choice, twin>>

\* What is recommended is ordered.
Follow ==
  /\ task.kind = "pair"
  /\ Len(desk.placed) < MaxOrders
  /\ \E r \in {Now} :
       /\ r.rec.triggered
       /\ desk' = [desk EXCEPT !.placed = Append(@, Proposed(r.rec.qty, r.lt.L, "PO")),
                               !.before = [prob |-> r.prob, out |-> r.pr.firstOut, level |-> r.rec.level]]
  /\ UNCHANGED <<task, choice, twin>>

Arrive ==
  /\ task.kind = "pair"
  /\ desk.placed # <<>>
  /\ desk' = [delta |-> desk.delta + Head(desk.placed).qty, placed |-> Tail(desk.placed), before |-> Absent]
  /\ UNCHANGED <<task, choice, twin>>

Rebalance ==
  /\ task.kind = "network"
  /\ choice = Absent
  /\ LET net == Networks[task.no]
     IN choice' \in Cheapest(net, net.c, NodeResults[task.no], net.t)
  /\ UNCHANGED <<task, desk, twin>>

ReplenishmentPlan ==
  /\ task.kind = "orders"
  /\ choice = Absent
  /\ choice' \in BestPlans(PlanLines[task.no], Plannings[task.no].limits, Plannings[task.no].weights, Plannings[task.no].enforce)
  /\ UNCHANGED <<task, desk, twin>>

Twinned ==
  /\ task.kind = "twin"
  /\ Simulate(task.no) \/ Step
  /\ UNCHANGED <<task, desk, choice>>

Next ==
  \/ \E units \in 1..2 : Sell(units)
  \/ Follow
  \/ Arrive
  \/ Rebalance
  \/ ReplenishmentPlan
  \/ Twinned

Spec == Init /\ [][Next]_vars

-----------------------------------------------------------------------------
(* Quantities that must add up. *)

\* A week's demand is its orders or its forecast, whichever is more, and never both.
ProjectionAddsUp(p, r) ==
  LET H == Cardinality(DOMAIN r.pr.ending)
      rows == r.pr.rows
      arrived == Total(SelectSeq(p.inbound, LAMBDA ib : ArrivalDay(ib, "eta") < H), Amount)
      ordered(k) == Total(SelectSeq(p.orders, LAMBDA o : DayOf(o.due) \div 7 = k - 1), Amount) + (IF k = 1 THEN p.backorder ELSE 0)
      weekly(k) == IF p.forecast = <<>> THEN 7 * r.d ELSE 7 * p.forecast[Smaller(k, Len(p.forecast))]
  IN  /\ Total(rows, LAMBDA x : x.receipts) = arrived
      /\ \A k \in DOMAIN rows :
           /\ rows[k].opening = IF k = 1 THEN r.pos.usable ELSE rows[k - 1].ending
           /\ rows[k].ending = rows[k].opening + rows[k].receipts
                               - (rows[k].orders + rows[k].forecast + rows[k].production + rows[k].out)
           /\ rows[k].orders = ordered(k)
           /\ Larger(ordered(k), weekly(k)) - (rows[k].orders + rows[k].forecast) \in 0..6

\* Lots that a day of demand uses up in the order of their expiry, and what is wasted when a lot expires.
Wasted(lots, demand, days) ==
  LET sorted == FefoSort(lots)
      take(s, n) == LET x == IF sorted[n].expiry < s.day THEN 0 ELSE Smaller(s.left, s.qty[n])
                    IN  [s EXCEPT !.qty[n] = @ - x, !.left = @ - x]
      after[day \in 0 .. days] ==
        IF day = 0 THEN [qty |-> [n \in DOMAIN sorted |-> sorted[n].qty], left |-> 0, day |-> 0]
        ELSE FoldLeft(take, [after[day - 1] EXCEPT !.left = demand, !.day = day - 1], [n \in DOMAIN sorted |-> n])
  IN  [n \in DOMAIN sorted |-> [no |-> sorted[n].no, qty |-> after[days].qty[n]]]

\* What is picked is there, may be picked, is as much as there is, and leaves no lot that expires sooner.
PickAddsUp(x) ==
  LET plan == FefoPick(x.lots, x.qty, x.minDays, x.any, x.expired)
      of(no) == Total(SelectSeq(plan.picks, LAMBDA k : k.no = no), Amount)
      may(l) == /\ l.state = "UNRESTRICTED"
                /\ x.any \/ l.quality = "RELEASED"
                /\ x.expired \/ l.expiry = Absent \/ l.expiry >= NotBelow0(x.minDays)
      open == SelectSeq(x.lots, may)
      waste == Wasted(SelectSeq(x.lots, LAMBDA l : l.expiry # Absent), x.demand, 1 + Most({0} \cup UNION {Given(x.lots[i].expiry) : i \in DOMAIN x.lots}))
      risk == AtRisk(SelectSeq(x.lots, LAMBDA l : l.expiry # Absent), x.demand)
  IN  /\ plan.left = x.qty - Total(plan.picks, Amount)
      /\ Total(plan.picks, Amount) = Smaller(x.qty, Total(open, Amount))
      /\ \A i \in DOMAIN x.lots : of(x.lots[i].no) \in 0 .. (IF may(x.lots[i]) THEN x.lots[i].qty ELSE 0)
      /\ \A i, j \in DOMAIN open : (Else(open[i].expiry, Far) < Else(open[j].expiry, Far) /\ of(open[j].no) > 0) => of(open[i].no) = open[i].qty
      /\ \A n \in DOMAIN waste : \A m \in DOMAIN risk : risk[m].no = waste[n].no => waste[n].qty <= risk[m].risk

\* What was there and what came is sold, delivered late or in stock, and what is on its way is still to come.
TwinAddsUp ==
  twin.of # 0 =>
        /\ twin.inv >= 0 /\ twin.backlog >= 0
        /\ Opening(Results[twin.of], Modded[twin.of]) + twin.got = twin.inv + twin.sold + twin.filled
        /\ twin.placed = twin.got + twin.pipeline
        /\ twin.pipeline = SumOver({t \in Steps(twin.of) : t >= twin.t}, LAMBDA t : twin.due[t])
        /\ twin.demand = twin.sold + twin.unmet
        /\ twin.backlog + twin.filled <= twin.unmet

\* Every promise of supply and every forecast falls into one month, and stock, supply, demand and gaps
\* balance; more demand never leaves more stock or a smaller gap.
SopAddsUp(x) ==
  LET rows(case) == SopCase(x, case)
      months == 0 .. x.months - 1
      sum(case, Of(_)) == Total(rows(case), Of)
      end(case) == rows(case)[x.months].inv
      coming == 100 * SumOver(DOMAIN x.pairs, LAMBDA n : Total(SelectSeq(x.pairs[n].inbound, External), LAMBDA ib : ib.qty * x.pairs[n].cost))
      weeks(p) == SumOver(1 .. Smaller(Len(p.forecast), 4 * x.months + 2), LAMBDA w : p.forecast[w])
  IN  /\ SumOver(months, LAMBDA m : Supplied(x, m)) = coming
      /\ SumOver(months, LAMBDA m : ConsensusDemand(x, m)) = SumOver(TerminalPairs(x.pairs), LAMBDA n : weeks(x.pairs[n]) * x.pairs[n].cost)
      /\ \A case \in Cases :
           /\ StockValue(x) + coming - SumOver(months, LAMBDA m : Cogs(x, case, m)) = end(case) + sum(case, LAMBDA r : r.gap)
           /\ \A m \in DOMAIN rows(case) : rows(case)[m].inv = 0 \/ rows(case)[m].gap = 0
      /\ \A pair \in {<<"Upside", "Consensus">>, <<"Consensus", "Downside">>}, m \in 1 .. x.months :
           rows(pair[1])[m].inv <= rows(pair[2])[m].inv /\ rows(pair[1])[m].gap <= rows(pair[2])[m].gap

\* What is measured of two sets of items adds up to what is measured of both, and parts are no more than wholes.
MeasuresAddUp(x) ==
  LET all == Measures(x, DOMAIN x.pairs).sums
      of(item) == {n \in DOMAIN x.pairs : x.pairs[n].item = item}
      part(S) == Measures(x, S).sums
  IN  /\ \A item \in {x.pairs[n].item : n \in DOMAIN x.pairs} :
           \A one \in {part(of(item))}, rest \in {part(DOMAIN x.pairs \ of(item))} : \A k \in DOMAIN all : one[k] + rest[k] = all[k]
      /\ all.otif <= all.inFull /\ all.inFull <= all.lines /\ all.matched <= all.counted
      /\ all.receiptsOtif <= all.onTime /\ all.onTime <= all.receipts /\ all.stockoutPairs <= all.demandPairs

\* All the supply is used or all the demand is met; nobody gets more than is asked for or less than is
\* guaranteed, a better score comes first, and more supply takes from nobody.
SplitAddsUp(x) ==
  \A order \in ByScore(x.demands) :
    LET one == SolveAllocation(x.supply, x.demands, x.fill, order)
        floor == Floors(x.supply, x.demands, x.fill)
    IN  /\ x.fill <= 10 => one # Absent
        /\ one # Absent =>
             /\ SumOver(DOMAIN one, LAMBDA n : one[n]) = Smaller(x.supply, Total(x.demands, Amount))
             /\ \A n \in DOMAIN one : floor[n] <= one[n] /\ one[n] <= x.demands[n].qty
             /\ \A n, m \in DOMAIN one : x.demands[n].score > x.demands[m].score /\ one[m] > floor[m] => one[n] = x.demands[n].qty
             /\ x.fill <= 10 => \A n \in DOMAIN one : one[n] <= SolveAllocation(x.supply + x.more, x.demands, x.fill, order)[n]

\* QuantitiesAddUp: projection rows, FEFO picks and expiry risk, the simulated stock, the sales and operations
\* plan, the measures and the split of scarce supply keep their balances (projection_service.py,
\* expiry_service.py, simulate_pair, sop_service.py, kpi_service.py, optimization/allocation.py).
QuantitiesAddUp ==
  CASE task.kind = "pair"  -> ProjectionAddsUp(PairNow, Now)
    [] task.kind = "picks" -> PickAddsUp(Picks[task.no])
    [] task.kind = "twin"  -> TwinAddsUp
    [] task.kind = "sop"   -> SopAddsUp(SalesPlans[task.no])
    [] task.kind = "kpi"   -> MeasuresAddUp(Measured[task.no])
    [] task.kind = "split" -> SplitAddsUp(Splits[task.no])
    [] OTHER -> TRUE

-----------------------------------------------------------------------------
(* Advice that can be followed. *)

\* What is advised can be ordered.  An order that was placed lifts the position to the level that called
\* for it unless the maximum cuts it; stock then does not run out sooner or more probably, and never
\* sooner in the plan than with late arrivals.
OrderSettles(r) ==
  LET earlier(a, b) == a # Absent /\ (b = Absent \/ a < b)
      most == Pairs[task.no].p.repl.maxQty
  IN  /\ r.rec.qty > 0 => /\ r.rec.qty >= Or(r.moq, 0) /\ (most = Absent \/ r.rec.qty <= most)
                          /\ r.rec.qty = Multiple(r.rec.qty, r.multiple)
      /\ ~earlier(r.pr.firstOut, r.late)
      /\ desk.before # Absent =>
           /\ Pairs[task.no].p.repl.policy \notin {"MRP", "DRP", "L4L", "JIS"} /\ most = Absent => r.pos.position >= desk.before.level
           /\ r.prob <= desk.before.prob
           /\ ~earlier(r.pr.firstOut, desk.before.out)

\* After every review the twin's position is above the level at which it orders.
TwinReorders(s, r, m) ==
  twin.t > 0 /\ (s.p.supplier # Absent \/ s.p.source # Absent) /\ r.d > 0 => Position(twin) > Level(s.p, r, s.c, m, s.step)

\* A donor is not short afterwards, a receiver gets no more than it needs, and before it runs out.
TransfersSettle(net, rs) ==
  LET left(n) == Gap(net.nodes[n], net.c, ComputePair(AfterTransfer(net, choice, n), net.c))
      got(n) == {a \in DOMAIN choice : a[2] = n /\ choice[a] > 0}
      gave(n) == \E a \in DOMAIN choice : a[1] = n /\ choice[a] > 0
  IN  \A n \in DOMAIN net.nodes :
        /\ gave(n) /\ net.t.keepSafety /\ net.nodes[n].backorder = 0 => left(n) <= 0
        /\ got(n) # {} /\ ~gave(n) => left(n) >= 0
        /\ \A a \in got(n) : rs[n].daysOut # Absent => net.lanes[a].days <= rs[n].daysOut

\* What is recommended can be done, comes in time, and leaves no more risk than doing nothing.
Helps(best, net, r) ==
  best # Absent =>
    /\ best.violations = {}
    /\ best.days # Absent /\ r.daysOut # Absent => best.days <= r.daysOut
    /\ ComputePair(best.after, net.c).prob <= r.prob
OptionHelps(net, rs) ==
  \A n \in DOMAIN net.nodes :
    Helps(Recommended(Options(net, net.c, rs, net.t, n), net.nodes[n], net.c, rs[n]), net, rs[n])

\* The limits hold, what is spent in a hurry included, and no line is both short and beyond its need.
PlanWithinLimits(lines, x) ==
  LET limits == Plannings[task.no].limits
  IN  /\ limits.budget # Absent => SumOver(DOMAIN lines, LAMBDA n : (lines[n].mult * x[n].k + x[n].z) * lines[n].cost) <= limits.budget
      /\ \A n \in DOMAIN lines : /\ Lost(lines, x, n) = 0 \/ Beyond(lines, x, n) = 0
                                 /\ x[n].k > 0 => lines[n].mult * x[n].k >= lines[n].moq

\* AdviceSettles: what is advised can be done within the limits and leaves nothing that calls for the
\* same advice again (recommend, _recommend, simulate_pair, rebalancing_plan, generate_options, solve).
AdviceSettles ==
  CASE task.kind = "pair"    -> OrderSettles(Now)
    [] task.kind = "twin"    -> twin.of # 0 => TwinReorders(Simulations[twin.of], Results[twin.of], Modded[twin.of])
    [] task.kind = "network" -> \A net \in {Networks[task.no]}, rs \in {NodeResults[task.no]} :
                                  OptionHelps(net, rs) /\ (choice # Absent => TransfersSettle(net, rs))
    [] task.kind = "orders"  -> choice # Absent => PlanWithinLimits(PlanLines[task.no], choice)
    [] OTHER -> TRUE

-----------------------------------------------------------------------------
(* What the services before and after planning make of their rows. *)

\* A parameter comes from the most specific level at which an active policy of the pair sets it.  Of several
\* of that level the newest counts or, in the index, the newest of those with the last key that is tried.
PolicyMostSpecific(x) ==
  LET sets(k) == {n \in DOMAIN x.policies : Applies(x.policies[n], x.item, x.loc) /\ x.policies[n].params[k] # Absent}
      specific(k) == {n \in sets(k) : \A m \in sets(k) : LevelRank(x.policies[m].level) <= LevelRank(x.policies[n].level)}
      place(n) == Most({i \in DOMAIN ScopeKeys(x.item, x.loc)[x.policies[n].level] :
                          ScopeKeys(x.item, x.loc)[x.policies[n].level][i] = x.policies[n].key})
      lastTried(S) == {n \in S : \A m \in S : place(m) <= place(n)}
      newest(S) == CHOOSE n \in S : \A m \in S : x.policies[m].id <= x.policies[n].id
      from(S, k) == IF S = {} THEN Absent ELSE x.policies[newest(S)].params[k]
  IN  \A k \in UNION {DOMAIN x.policies[n].params : n \in DOMAIN x.policies} :
        /\ Resolve(x.policies, x.item, x.loc)[k] = from(specific(k), k)
        /\ ResolveIndexed(x.policies, x.item, x.loc)[k] = from(lastTried(specific(k)), k)

\* What can be converted can be converted back, to the same quantity.
ConversionReturns(x) ==
  LET there == Convert(x.from, x.to, x.factors)
      back == Convert(x.to, x.from, x.factors)
  IN  /\ there.error = "none" <=> back.error = "none"
      /\ there.error = "none" => Same(Times(there.factor, back.factor), <<1, 1>>)

\* A record is judged once, and one that was right when it was read is not blamed for later movements.
AuditFair(x) ==
  LET rows == Reconciled(x.ext, x.book, x.rules)
      later(e) == {n \in DOMAIN x.book.moves : LET m == x.book.moves[n] IN m.sku = e.sku /\ m.loc = e.loc /\ m.at > e.synced}
      then(e) == OnHand(x.book, e.sku, e.loc) - SumOver(later(e), LAMBDA n : x.book.moves[n].delta)
      alone(e) == Len(SelectSeq(x.ext, LAMBDA f : <<f.system, f.sku, f.loc>> = <<e.system, e.sku, e.loc>>)) = 1
      right(e) == /\ e.sku \in x.book.skus /\ e.loc \in x.book.locs /\ alone(e) /\ e.synced # Absent
                  /\ e.uom = x.book.uom[e.sku] /\ e.qty = then(e) /\ e.qty >= 0
  IN  /\ \A r, q \in rows : <<r.system, r.sku, r.loc>> = <<q.system, q.sku, q.loc>> => r = q
      /\ \A n \in DOMAIN x.ext : right(x.ext[n]) /\ "timing" \in x.rules.checks =>
           \A r \in rows : <<r.system, r.sku, r.loc>> = <<x.ext[n].system, x.ext[n].sku, x.ext[n].loc>> => r.status \notin Bad

\* History loses nothing of the last year and has no gaps; every week ahead has the forecast in force.
HistoryComplete(x) ==
  LET history == History(x.rows)
      ahead == ForecastWeeks(x.forecasts, x.precedence, x.weeks)
      year == SelectSeq(x.rows, LAMBDA r : r.day < 0 /\ r.day >= -7 * 52)
      typed(w) == {n \in DOMAIN x.forecasts : x.forecasts[n].week = w}
  IN  /\ Total(history, Value) = Total(year, Amount)
      /\ ahead # <<>> => Len(ahead) = x.weeks
      /\ \A w \in 0 .. Len(ahead) - 1, n \in 1 .. Len(x.precedence) :
           (\E i \in typed(w) : x.forecasts[i].type = x.precedence[n])
             /\ ~(\E i \in typed(w) : \E m \in 1 .. n - 1 : x.forecasts[i].type = x.precedence[m])
           => \E i \in typed(w) : x.forecasts[i].type = x.precedence[n] /\ ahead[w + 1] = x.forecasts[i].qty
      /\ \A n \in DOMAIN ForecastPairs(x.forecasts, history, x.precedence) :
           \E w \in 1 .. Len(history) : ForecastPairs(x.forecasts, history, x.precedence)[n].actual = history[w]

\* Lead times are those of the source, and of the item's own lane when there are enough of them.
SourceSpecific(x) ==
  LET s == Source(x.suppliers, x.assigned, x.item, x.loc, x.obs, x.minObs)
      own == SelectSeq(x.obs, LAMBDA o : o.supplier = s.supplier /\ o.item = x.item.sku /\ o.dest = x.loc)
  IN  /\ s.source = Absent \/ s.supplier = Absent
      /\ s.source = Absent /\ Len(own) >= x.minObs => s.observed = [n \in DOMAIN own |-> own[n].days]
      /\ s.supplier # Absent => \A n \in DOMAIN s.observed : \E i \in DOMAIN x.obs :
           x.obs[i].supplier = s.supplier /\ x.obs[i].days = s.observed[n]

\* A lot's tree holds only lots that orders connect with it, and its customers got what came of it; where no
\* lot goes two ways or comes of itself, it holds all that came of it within three orders, and all customers.
TraceComplete(x) ==
  LET t == Trace(x.book, x.lot)
      ids == {x.lot} \cup {m.lot : m \in Range(x.book)}
      refs(l, type) == {m.ref : m \in Range(Moves(x.book, l, type))}
      in(ref, type) == {m.lot : m \in {m \in Range(x.book) : m.ref = ref /\ m.type = type}} \ {Absent}
      after(S) == UNION {in(r, "PROD_COMPLETION") : r \in UNION {refs(l, "PROD_CONSUMPTION") : l \in S}}
      below[n \in 0..3] == IF n = 0 THEN {x.lot} ELSE below[n - 1] \cup after(below[n - 1])
      linked[n \in 0..3] ==
        IF n = 0 THEN {x.lot}
        ELSE linked[n - 1] \cup UNION {in(r, "PROD_COMPLETION") \cup in(r, "PROD_CONSUMPTION") :
                                         r \in UNION {refs(l, "PROD_CONSUMPTION") \cup refs(l, "PROD_COMPLETION") : l \in linked[n - 1]}}
      to(S) == {m.party : m \in {m \in Range(x.book) : m.lot \in S /\ m.type = "SHIPMENT"}} \ {Absent}
      oneWay == \A l \in ids : /\ Cardinality(refs(l, "PROD_CONSUMPTION")) <= 1
                               /\ Cardinality(after({l})) <= 1
                               /\ l \notin after({l}) \cup after(after({l})) \cup after(after(after({l})))
  IN  /\ t.seen \subseteq linked[3]
      /\ t.customers \subseteq to(below[3])
      /\ oneWay => below[3] \subseteq t.seen /\ t.customers = to(below[3])

\* A receipt that came later, short, partly rejected or in a hurry never improves the score of its supplier,
\* and changes that of no other.
ScoresBlame(x) ==
  LET o(n) == x.receipts[n]
      worse(n) == {[o(n) EXCEPT !.lead = @ + 9], [o(n) EXCEPT !.got = 0], [o(n) EXCEPT !.rejected = @ + 1], [o(n) EXCEPT !.hurried = TRUE]}
  IN  \A n \in DOMAIN x.receipts : \A w \in worse(n) : \A sid \in DOMAIN x.suppliers :
        LET before == SupplierScorecards(x)[sid]
            after == SupplierScorecards([x EXCEPT !.receipts[n] = w])[sid]
        IN  IF sid = o(n).supplier THEN before <= after ELSE before = after

\* ResultsAsDefined: policies, conversions, reconciliation, history, sourcing, genealogies and scores give what
\* their documents define (policies.py, uom.py, reconciliation_service.py, snapshot.py, traceability_service.py,
\* risk_service.py).
ResultsAsDefined ==
  CASE task.kind = "policy"  -> PolicyMostSpecific(Policied[task.no])
    [] task.kind = "unit"    -> ConversionReturns(Conversions[task.no])
    [] task.kind = "audit"   -> AuditFair(Audits[task.no])
    [] task.kind = "history" -> HistoryComplete(Histories[task.no])
    [] task.kind = "source"  -> SourceSpecific(Sourcings[task.no])
    [] task.kind = "trace"   -> TraceComplete(Traced[task.no])
    [] task.kind = "score"   -> ScoresBlame(Scorings[task.no])
    [] OTHER -> TRUE

-----------------------------------------------------------------------------
(* The order in which rows are read. *)

Reordered(rows) == {[n \in DOMAIN rows |-> rows[f[n]]] : f \in Permutations(DOMAIN rows)}

\* The orders that leave rows of one key as they are among themselves.
ReorderedByKey(rows, key(_)) ==
  {[n \in DOMAIN rows |-> rows[f[n]]] :
     f \in {f \in Permutations(DOMAIN rows) : \A m, n \in DOMAIN rows : m < n /\ key(rows[f[m]]) = key(rows[f[n]]) => f[m] < f[n]}}

PoliciesAnyOrder(x) ==
  \A rows \in Reordered(x.policies) :
    /\ Resolve(rows, x.item, x.loc) = Resolve(x.policies, x.item, x.loc)
    /\ ResolveIndexed(rows, x.item, x.loc) = ResolveIndexed(x.policies, x.item, x.loc)

AuditAnyOrder(x) ==
  \A ext \in ReorderedByKey(x.ext, LAMBDA e : <<e.system, e.sku, e.loc>>), moves \in Reordered(x.book.moves) :
    Reconciled(ext, [x.book EXCEPT !.moves = moves], x.rules) = Reconciled(x.ext, x.book, x.rules)

HistoryAnyOrder(x) ==
  LET pairs(forecasts, rows) == ForecastPairs(forecasts, History(rows), x.precedence)
  IN  /\ \A rows \in Reordered(x.rows) :
           History(rows) = History(x.rows) /\ NoDemandFor(rows) = NoDemandFor(x.rows)
      /\ (\A m, n \in DOMAIN x.forecasts :
             <<x.forecasts[m].week, x.forecasts[m].type>> = <<x.forecasts[n].week, x.forecasts[n].type>> => m = n) =>
           \A forecasts \in Reordered(x.forecasts) :
             /\ ForecastWeeks(forecasts, x.precedence, x.weeks) = ForecastWeeks(x.forecasts, x.precedence, x.weeks)
             /\ pairs(forecasts, x.rows) = pairs(x.forecasts, x.rows)

\* Lead times are compared as a bag: which they are and how often, not in which order.
SourceAnyOrder(x) ==
  LET bag(s) == [s EXCEPT !.observed = [d \in Range(@) |-> Cardinality({n \in DOMAIN s.observed : s.observed[n] = d})]]
      of(suppliers, obs) == bag(Source(suppliers, x.assigned, x.item, x.loc, obs, x.minObs))
  IN  \A suppliers \in Reordered(x.suppliers), obs \in Reordered(x.obs) :
        Cardinality({n \in DOMAIN x.suppliers : x.suppliers[n].primary}) = 1 => of(suppliers, obs) = of(x.suppliers, x.obs)

ScoresAnyOrder(x) ==
  \A receipts \in Reordered(x.receipts) : SupplierScorecards([x EXCEPT !.receipts = receipts]) = SupplierScorecards(x)

\* RowsInAnyOrder: the tables are read without an order, and no order of their rows changes what is made of them:
\* the parameters resolved from policies, two of one level among them; what reconciliation finds, as long as
\* records of one key keep theirs; history and forecasts, where a week has one row of a type; the source and the
\* lead times observed there, where one supplier is the primary; the scores (policies.py, reconcile,
\* build_snapshot, supplier_scorecards).
RowsInAnyOrder ==
  CASE task.kind = "policy"  -> PoliciesAnyOrder(Policied[task.no])
    [] task.kind = "audit"   -> AuditAnyOrder(Audits[task.no])
    [] task.kind = "history" -> HistoryAnyOrder(Histories[task.no])
    [] task.kind = "source"  -> SourceAnyOrder(Sourcings[task.no])
    [] task.kind = "score"   -> ScoresAnyOrder(Scorings[task.no])
    [] OTHER -> TRUE

-----------------------------------------------------------------------------
(* Forecast messages. *)

\* FeedsSettle: a message that is sent again changes nothing; one that is refused, or on which the handler fails
\* half-way, leaves nothing; of any other each record counts once, the last readable one of a week is in the
\* table, and in force if its type comes first; forecasts of other types stay, and records of different weeks
\* may come in any order (ingest_fit_payload, api_forecast).
FeedSettles(x) ==
  LET one == IngestFitPayload(x.table, x.m)
      again == IngestFitPayload(one.table, x.m)
      good == SelectSeq(x.m.recs, Acceptable)
      last(n) == \A k \in n + 1 .. Len(good) : KeyOf(good[k], x.m.type) # KeyOf(good[n], x.m.type)
      rows(pair) == [n \in 1 .. Cardinality({k \in DOMAIN one.table : k[1] = pair}) |->
                       LET k == Listed({k \in DOMAIN one.table : k[1] = pair})[n] IN [week |-> k[2], type |-> k[3], qty |-> one.table[k]]]
  IN  /\ again.table = one.table /\ again.created = 0
      /\ one.created = Cardinality(DOMAIN one.table) - Cardinality(DOMAIN x.table)
      /\ \A k \in DOMAIN x.table : k[3] # x.m.type => k \in DOMAIN one.table /\ one.table[k] = x.table[k]
      /\ Absent \in Range(x.m.recs) => one.refused
      /\ IF one.refused THEN one.table = x.table
         ELSE /\ one.created + one.updated = Len(good) /\ one.rejected = Len(x.m.recs) - Len(good)
              /\ \A n \in DOMAIN good : last(n) =>
                   /\ one.table[<<good[n].pair, WeekOfDay(good[n].day), x.m.type>>] = good[n].qty
                   /\ x.m.type = Head(x.precedence) /\ WeekOfDay(good[n].day) \in 0 .. x.weeks - 1 =>
                        ForecastWeeks(rows(good[n].pair), x.precedence, x.weeks)[WeekOfDay(good[n].day) + 1] = good[n].qty
              /\ \A recs \in ReorderedByKey(x.m.recs, LAMBDA r : IF Acceptable(r) THEN KeyOf(r, x.m.type) ELSE <<>>) :
                   IngestFitPayload(x.table, [x.m EXCEPT !.recs = recs]) = one
FeedsSettle == task.kind = "feed" => FeedSettles(Feeds[task.no])
=============================================================================
