-------------------------------- MODULE Twin --------------------------------
(***************************************************************************)
(* The digital twin (simulation_service.py): stock of an item at a         *)
(* location is simulated in steps of some days, under the changes of a     *)
(* scenario.  What is drawn at random (demand, lead times, delays of what  *)
(* is under way) is any value of its range.                                *)
(***************************************************************************)
EXTENDS Engine

CONSTANTS
  Kept,        \* tenths of unmet demand that wait for stock
  Simulations  \* what is simulated: [p, c, changes, step, steps], steps of so many days

\* [of, t, inv, backlog, pipeline, due, placed, got, demand, unmet, sold, filled, out]; only of, 0, before the start.
VARIABLES
  twin

-----------------------------------------------------------------------------
(* A scenario's changes, as they concern p. *)

ScopeMatch(scope, p) == scope \in {Absent, "all"} \cup p.tags

NoMods == [demand |-> <<>>, ltShift |-> 0, ltScale |-> 100, block |-> <<>>, closure |-> <<>>, delays |-> <<>>, cuts |-> <<>>,
           moqScale |-> 100, ssScale |-> 100, level |-> Absent, arrivals |-> <<>>, delta |-> 0, earlier |-> <<>>]

Add(m, field, x) == [m EXCEPT ![field] = Append(@, x)]
Scaled(x, pct) == (x * (100 + pct)) \div 100

Change(m, ch, p) ==
  LET period == [from |-> ch.start, to |-> ch.start + ch.days]
      matches == ScopeMatch(ch.scope, p)
      uplift(pct) == Add(m, "demand", period @@ [pct |-> pct])
  IN  CASE ch.type = "supplier_shutdown" /\ p.supplier = ch.at -> Add(m, "block", period)
        [] ch.type \in {"plant_shutdown", "warehouse_closure"} /\ p.loc = ch.at ->
             Add(Add(m, "closure", period), "block", period)
        [] ch.type \in {"plant_shutdown", "warehouse_closure"} /\ p.loc # ch.at /\ p.source = ch.at -> Add(m, "block", period)
        [] ch.type = "demand_increase" /\ matches -> uplift(ch.pct)
        [] ch.type = "demand_decrease" /\ matches -> uplift(-Smaller(ch.pct, 100))
        [] ch.type = "promotion" /\ matches ->
             Add(uplift(ch.pct), "demand", [from |-> ch.start + ch.days, to |-> ch.start + 2 * ch.days, pct |-> -10])
        [] ch.type = "lead_time_increase" /\ matches -> [m EXCEPT !.ltScale = Scaled(@, ch.pct)]
        [] ch.type = "port_delay" -> Add(m, "delays", period @@ [port |-> ch.at, by |-> ch.by])
        [] ch.type = "border_disruption" /\ p.country = ch.at -> Add(m, "delays", period @@ [port |-> Absent, by |-> ch.by])
        [] ch.type = "transport_capacity_reduction" -> Add(m, "cuts", period @@ [pct |-> ch.pct])
        [] ch.type = "moq_increase" /\ matches -> [m EXCEPT !.moqScale = Scaled(@, ch.pct)]
        [] ch.type = "safety_stock_increase" /\ matches -> [m EXCEPT !.ssScale = Scaled(@, ch.pct)]
        [] ch.type = "service_level_change" /\ matches -> [m EXCEPT !.level = Smaller(99, Larger(50, ch.pct))]
        [] ch.type = "inventory_transfer" ->
             LET given == IF ch.at = p.loc THEN [m EXCEPT !.delta = @ - Smaller(ch.qty, Stock(p, {"UNRESTRICTED"}))] ELSE m
             IN  IF ch.to = p.loc THEN Add(given, "arrivals", [day |-> NotBelow0(ch.start) + ch.by, qty |-> ch.qty]) ELSE given
        [] ch.type = "emergency_purchase" /\ ch.at = p.loc -> Add(m, "arrivals", [day |-> ch.by, qty |-> ch.qty])
        [] ch.type = "expedited_shipment" /\ \E n \in DOMAIN p.inbound : p.inbound[n].ref = ch.at ->
             Add(m, "earlier", [ref |-> ch.at, days |-> ch.by])
        [] OTHER -> m

BuildMods(p, changes) == FoldLeft(LAMBDA m, ch : Change(m, ch, p), NoMods, changes)

-----------------------------------------------------------------------------
(* What drives a step.  m: the changes, day: the first day of the step. *)

During(periods, day) == SelectSeq(periods, LAMBDA x : x.from <= day /\ day < x.to)
Upto(n, steps) == Smaller(n, steps + 5)

\* Until the last block of that tick ends, in ticks.
BlockDelay(m, tick) ==
  LET open == During(m.block, tick \div Ticks)
  IN  IF open = <<>> THEN 0 ELSE Most({Ticks * open[n].to - tick : n \in DOMAIN open})
RuleDelay(m, day, port) ==
  Total(SelectSeq(During(m.delays, day), LAMBDA x : x.port \in {Absent, port}), LAMBDA x : x.by)

Uplifted(m, day, qty) == FoldLeft(LAMBDA x, up : Scaled(x, up.pct), qty, During(m.demand, day))

\* The mean demand of step t: the forecast or, if larger, what is firmly ordered.
Mu(p, r, m, t, step, steps) ==
  LET base == IF p.forecast = <<>> THEN r.d ELSE p.forecast[Smaller((t * step) \div 7 + 1, Len(p.forecast))]
      due(x) == Smaller(NotBelow0(x.due \div (Ticks * step)), steps - 1)
      firm(list) == Total(SelectSeq(list, LAMBDA x : due(x) = t), Amount)
  IN  Larger(Uplifted(m, t * step, base * step), Uplifted(m, t * step, firm(p.orders) + firm(p.requirements)))

Sigma(r, step) == Root(r.sd * r.sd * step)
Demands(mu, sigma) == {NotBelow0(mu + k * sigma) : k \in -1..1}

\* When a line may arrive, in ticks; each cut of capacity may put off by a week what arrives in it.
Etas(p, r, c, m, ib) ==
  LET moved == SelectSeq(m.earlier, LAMBDA x : x.ref = ib.ref)
      eta == NotBelow0(ib.eta - (IF moved = <<>> THEN 0 ELSE Ticks * moved[1].days))
      sigma == IF c.useObserved THEN (Ticks * r.lt.sigma) \div (IF ib.inTransit THEN 2 ELSE 1) ELSE 0
      later == Ticks * (RuleDelay(m, eta \div Ticks, ib.port) + (IF ib.inTransit THEN 0 ELSE m.ltShift)) + BlockDelay(m, eta)
      base == {NotBelow0(eta + k * sigma + later) : k \in -1..1}
      cut(etas, w) == etas \cup {x + 7 * Ticks : x \in {x \in etas : w.from <= x \div Ticks /\ x \div Ticks < w.to}}
  IN  FoldLeft(cut, base, m.cuts)

Leads(p, r, m) ==
  IF ~r.st.eligible /\ Or(r.st.static, 0) = 0 THEN {(r.lt.L * m.ltScale) \div 100 + m.ltShift}
  ELSE Drawn(p.observed, r.st, m.ltShift, m.ltScale)

\* Reorder level: demand over the lead time (and a step, if it is long), and the larger safety stock.
Level(p, r, c, m, step) ==
  LET protection == (r.lt.L * m.ltScale) \div 100 + m.ltShift + (IF step > 1 THEN step ELSE 0)
      sL == (r.lt.sigma * m.ltScale) \div 100
      ss == (r.ss * m.ssScale) \div 100
      planned == SafetyStock(r.safety.method, m.level, r.d, r.sd, (r.lt.L * m.ltScale) \div 100, sL, 7, r.qty, <<>>)
      inStep == (r.safety.z * SigmaLtd(r.sd, r.d, protection, sL, 0)) \div 10
  IN  r.d * protection + (IF m.level # Absent THEN (planned * m.ssScale) \div 100
                          ELSE Larger(ss, (Larger(ss, inStep) * m.ssScale) \div 100))

\* What is ordered to lift the position to the level and a lot above it.
OrderQty(p, r, m, level, position) ==
  LET moq == (Or(p.moq, 0) * m.moqScale) \div 100
      lot == Larger(Larger(r.qty, moq), Or(p.multiple, 7))
      short == NotBelow0(level + lot - position)
  IN  IF short = 0 THEN 0 ELSE Multiple(Larger(short, moq), p.multiple)

-----------------------------------------------------------------------------
(* The simulation. *)

Results == [n \in DOMAIN Simulations |-> ComputePair(Simulations[n].p, Simulations[n].c)]
Modded == [n \in DOMAIN Simulations |-> BuildMods(Simulations[n].p, Simulations[n].changes)]

\* Steps beyond the horizon hold what arrives after it.
Steps(n) == 0 .. Simulations[n].steps + 5
StepOf(n, tick) == Smaller(tick \div (Ticks * Simulations[n].step), Simulations[n].steps + 5)
Closed(m, day) == During(m.closure, day) # <<>>
Opening(r, m) == NotBelow0(r.pos.usable + m.delta)

\* r: the result of p, m: the changes that concern it, etas: when each line arrives.
Start(n, r, m, etas) ==
  LET lines == Simulations[n].p.inbound
      extra == {[at |-> StepOf(n, Ticks * m.arrivals[i].day), qty |-> m.arrivals[i].qty, no |-> i] : i \in DOMAIN m.arrivals}
      due == [t \in Steps(n) |-> SumOver({i \in DOMAIN lines : StepOf(n, etas[i]) = t}, LAMBDA i : lines[i].qty)
                                 + SumOver({x \in extra : x.at = t}, LAMBDA x : x.qty)]
      coming == SumOver(Steps(n), LAMBDA t : due[t])
  IN  [of |-> n, t |-> 0, inv |-> Opening(r, m), backlog |-> 0, pipeline |-> coming, due |-> due,
       placed |-> coming, got |-> 0, demand |-> 0, unmet |-> 0, sold |-> 0, filled |-> 0, out |-> FALSE]

Simulate(n) ==
  /\ twin.of = 0
  /\ \E r \in {Results[n]}, m \in {Modded[n]} :
       \E may \in {[i \in DOMAIN Simulations[n].p.inbound |->
                      Etas(Simulations[n].p, r, Simulations[n].c, m, Simulations[n].p.inbound[i])]} :
         \E etas \in [DOMAIN may -> UNION {may[i] : i \in DOMAIN may}] :
           /\ \A i \in DOMAIN may : etas[i] \in may[i]
           /\ twin' = Start(n, r, m, etas)

\* mutant: an order stays on the way when it arrives
ReceiveTwice(w) == [w EXCEPT !.inv = @ + w.due[w.t], !.got = @ + w.due[w.t], !.due[w.t] = 0]
Receive(w) == [w EXCEPT !.inv = @ + w.due[w.t], !.got = @ + w.due[w.t], !.pipeline = @ - w.due[w.t], !.due[w.t] = 0]

\* mutant: backlog is filled from what has just been sold
ServeStale(w, d, closed) ==
  LET sold == IF closed THEN 0 ELSE Smaller(w.inv, d)
      waiting == w.backlog + ((d - sold) * Kept) \div 10
      fill == IF closed THEN 0 ELSE Smaller(w.inv, waiting)
  IN  [w EXCEPT !.inv = @ - sold - fill, !.backlog = waiting - fill, !.demand = @ + d, !.unmet = @ + d - sold,
                !.sold = @ + sold, !.filled = @ + fill, !.out = @ \/ d > sold]

\* Demand is sold from stock, part of the rest waits, and what waits is filled from what is left.
Serve(w, d, closed) ==
  LET sold == IF closed THEN 0 ELSE Smaller(w.inv, d)
      waiting == w.backlog + ((d - sold) * Kept) \div 10
      fill == IF closed THEN 0 ELSE Smaller(w.inv - sold, waiting)
  IN  [w EXCEPT !.inv = @ - sold - fill, !.backlog = waiting - fill, !.demand = @ + d, !.unmet = @ + d - sold,
                !.sold = @ + sold, !.filled = @ + fill, !.out = @ \/ d > sold]

Position(w) == w.inv + w.pipeline - w.backlog

\* Reviewed at the end of the step.
Needed(w, p, r, m, level) ==
  IF (p.supplier # Absent \/ p.source # Absent) /\ r.d > 0 /\ Position(w) <= level
  THEN OrderQty(p, r, m, level, Position(w)) ELSE 0

\* What is ordered on day now takes lead days and what delays it.
ArrivalOf(p, m, now, lead) == Ticks * (now + lead + RuleDelay(m, now, p.port)) + BlockDelay(m, Ticks * (now + lead))

Reorder(w, s, qty, arrival) ==
  LET at == Smaller(CeilDiv(arrival, Ticks * s.step), s.steps + 5)
  IN  [w EXCEPT !.pipeline = @ + qty, !.placed = @ + qty, !.due[at] = @ + qty, !.t = @ + 1]

\* A step of s after the demand d has been served, with an order if it is needed.
Reviewed(w, s, r, m, lead) ==
  Reorder(w, s, Needed(w, s.p, r, m, Level(s.p, r, s.c, m, s.step)), ArrivalOf(s.p, m, s.step * w.t, lead))

Step ==
  /\ twin.of # 0
  /\ \E s \in {Simulations[twin.of]}, r \in {Results[twin.of]}, m \in {Modded[twin.of]} :
       /\ twin.t < s.steps
       /\ \E d \in Demands(Mu(s.p, r, m, twin.t, s.step, s.steps), Sigma(r, s.step)), lead \in Leads(s.p, r, m) :
            twin' = Reviewed(Serve(Receive(twin), d, Closed(m, s.step * twin.t)), s, r, m, lead)
=============================================================================
