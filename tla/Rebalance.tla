------------------------------ MODULE Rebalance ------------------------------
(***************************************************************************)
(* Moving stock of an item between locations, and the options against a    *)
(* stock-out (optimization_service.py, optimization/transfer.py).  A       *)
(* network is [nodes, lanes, cold]: nodes[i] the inputs of the item at a   *)
(* location, lanes[<<i, j>>] = [days, cost], cold the nodes that can store *)
(* at a controlled temperature; t is the transfer policy [keepSafety,      *)
(* maxDays, minQty, restricted].  A plan moves whole units.                *)
(***************************************************************************)
EXTENDS Engine

Unit == 7

\* Demand until the next order arrives, without or with the safety stock.
Cover(p, c, r) == r.d * (r.lt.L + ReviewDays(p, c))
Target(p, c, r) == Cover(p, c, r) + r.ss

\* mutant: a donor keeps its safety stock only
SpareAboveSafety(p, c, r, t) == NotBelow0(r.pos.available - r.ss)

\* What a location can give: stock that is not claimed, beyond its own cover.
Spare(p, c, r, t) ==
  IF r.excess.class = "OBSOLETE" \/ r.pos.usable <= 0 THEN 0
  ELSE NotBelow0(r.pos.available - Cover(p, c, r) - (IF t.keepSafety THEN r.ss ELSE 0) - 2 * r.d)

Gap(p, c, r) == Target(p, c, r) - r.pos.position
Wants(p, c, r) ==
  /\ r.d > 0 /\ Gap(p, c, r) > 0
  /\ r.level > 0 \/ r.pr.least < 0 \/ 4 * Gap(p, c, r) > Larger(Target(p, c, r), Unit)

Considered(r) == r.d > 0 \/ r.excess.qty > 0
Donors(net, c, rs, t) ==
  {i \in DOMAIN net.nodes : Considered(rs[i]) /\ Spare(net.nodes[i], c, rs[i], t) >= Larger(t.minQty, 1) * Unit}
Receivers(net, c, rs) == {i \in DOMAIN net.nodes : Considered(rs[i]) /\ Wants(net.nodes[i], c, rs[i])}

\* mutant: the arrival is not compared with the stock-out
OpenLate(net, rs, t, i, j) ==
  i # j /\ <<i, j>> \notin t.restricted /\ net.lanes[<<i, j>>].days <= t.maxDays

\* No movement within a node, on a restricted lane, that takes too long, that comes too late or would be too warm.
Open(net, rs, t, i, j) ==
  /\ i # j /\ <<i, j>> \notin t.restricted
  /\ net.lanes[<<i, j>>].days <= t.maxDays
  /\ rs[j].daysOut # Absent => net.lanes[<<i, j>>].days <= rs[j].daysOut
  /\ net.ambient \/ (i \in net.cold <=> j \in net.cold)

\* Units that may flow from i to j: no more than is spare and is needed, nothing on a closed lane.
Flows(net, c, rs, t) ==
  LET from == Donors(net, c, rs, t)
      to == Receivers(net, c, rs)
      spare(i) == Spare(net.nodes[i], c, rs[i], t)
      most(i, j) == IF Open(net, rs, t, i, j) THEN Smaller(spare(i), Gap(net.nodes[j], c, rs[j])) \div Unit ELSE 0
      all == [from \X to -> 0 .. Most({0} \cup {most(i, j) : i \in from, j \in to})]
  IN  {f \in all : /\ \A i \in from, j \in to : f[<<i, j>>] <= most(i, j)
                   /\ \A i \in from : SumOver(to, LAMBDA j : f[<<i, j>>]) * Unit <= spare(i)
                   /\ \A j \in to : SumOver(from, LAMBDA i : f[<<i, j>>]) * Unit <= Gap(net.nodes[j], c, rs[j])}

\* What the flows cost, and what the need they leave costs.
FlowCost(net, c, rs, f) ==
  LET to == Receivers(net, c, rs)
      got(j) == SumOver({a \in DOMAIN f : a[2] = j}, LAMBDA a : f[a])
  IN  SumOver(DOMAIN f, LAMBDA a : net.lanes[a].cost * f[a])
      + SumOver(to, LAMBDA j : net.penalty * (CeilDiv(Gap(net.nodes[j], c, rs[j]), Unit) - got(j)))

Cheapest(net, c, rs, t) ==
  LET flows == Flows(net, c, rs, t)
      least == Least({FlowCost(net, c, rs, f) : f \in flows})
  IN  {f \in flows : FlowCost(net, c, rs, f) = least}

Proposed(qty, days, kind) ==
  [qty |-> qty, eta |-> Ticks * days, promised |-> Ticks * days, inTransit |-> FALSE, kind |-> kind, ref |-> "PROPOSED", port |-> Absent]
WithInbound(p, ib) == [p EXCEPT !.inbound = Append(@, ib)]

\* Inputs of node n when the flows f are under way: a donor's stock is reduced, a receiver's inbound grows.
AfterTransfer(net, f, n) ==
  LET given == Unit * SumOver({a \in DOMAIN f : a[1] = n}, LAMBDA a : f[a])
      in == Listed({a \in DOMAIN f : a[2] = n /\ f[a] > 0})
      less == [net.nodes[n] EXCEPT !.stock.UNRESTRICTED = @ - given]
  IN  FoldLeft(LAMBDA p, a : WithInbound(p, Proposed(Unit * f[a], net.lanes[a].days, "TO")), less, in)

-----------------------------------------------------------------------------
(* Options for node n: [type, qty, days, violations, after, cost].         *)

LaterThan(days, r) == IF r.daysOut # Absent /\ days > r.daysOut THEN {"late"} ELSE {}
Need(p, c, r) == NotBelow0(Gap(p, c, r))

Option(type, qty, days, violations, after, cost) ==
  [type |-> type, qty |-> qty, days |-> days, violations |-> violations, after |-> after, cost |-> cost]

\* A purchase, or a transfer from upstream, that brings the position to its target at the usual lead time.
StandardPO(p, c, r) ==
  LET qty == PracticalQty(Larger(Need(p, c, r), r.rec.qty), p.moq, p.multiple, p.repl.maxQty)
      days == Larger(1, r.lt.L)
      dear == IF Or(c.budget, 0) > 0 /\ qty * p.cost > Unit * c.budget THEN {"budget"} ELSE {}
      old == IF Or(p.shelfLife, 0) > 0 /\ 5 * qty > 4 * r.d * p.shelfLife + 5 * Unit THEN {"shelf life"} ELSE {}
  IN  IF (p.supplier = Absent /\ p.source = Absent) \/ qty = 0 THEN {}
      ELSE {Option(IF p.supplier # Absent THEN "CREATE_PO" ELSE "TRANSFER_STOCK", qty, days, LaterThan(days, r) \cup dear \cup old,
                   WithInbound(p, Proposed(qty, days, "PO")), c.ordering)}

\* The largest purchase order that arrives too late, sped up if there is a faster way.
Expedite(p, c, r) ==
  LET late == {n \in DOMAIN p.inbound : /\ p.inbound[n].kind = "PO"
                                        /\ r.daysOut = Absent \/ 2 * p.inbound[n].eta > Ticks * (2 * r.daysOut - 1)}
      n == CHOOSE n \in late : \A k \in late : \/ p.inbound[n].qty > p.inbound[k].qty
                                               \/ p.inbound[n].qty = p.inbound[k].qty /\ n <= k
      days == Larger(1, p.fastDays)
      slow == IF p.faster THEN {} ELSE {"mode"}
      sooner == [k \in DOMAIN p.inbound |-> IF p.inbound[k].ref = p.inbound[n].ref
                                            THEN [p.inbound[k] EXCEPT !.eta = Ticks * days, !.promised = Ticks * days]
                                            ELSE p.inbound[k]]
  IN  IF late = {} \/ Ticks * days >= p.inbound[n].eta THEN {}
      ELSE {Option("EXPEDITE_PO", p.inbound[n].qty, days, LaterThan(days, r) \cup slow, [p EXCEPT !.inbound = sooner], p.fastCost)}

\* An item of the same substitute group, at its own lead time.
Substitute(p, c, r) ==
  LET alt == p.alternate
      qty == PracticalQty(Larger(Need(p, c, r), Unit), alt.moq, alt.multiple, Absent)
      days == Larger(1, alt.lead)
  IN  IF alt = Absent THEN {}
      ELSE {Option("CREATE_PO", qty, days, LaterThan(days, r),
                   WithInbound(p, [Proposed(qty, days, "PO") EXCEPT !.ref = "ALT-PROPOSED"]),
                   NotBelow0(alt.cost - p.cost) * (qty \div Unit) + c.ordering)}

\* From donor k; what it is left with is judged too.
Transfer(net, c, rs, t, n, k, units) ==
  LET days == Larger(1, net.lanes[<<k, n>>].days)
      donor == ComputePair([net.nodes[k] EXCEPT !.stock.UNRESTRICTED = @ - Unit * units], c)
      long == IF days > t.maxDays THEN {"transit"} ELSE {}
      harm == IF rs[k].level < 2 /\ donor.level >= 2 THEN {"donor"} ELSE {}
  IN  IF units = 0 THEN {}
      ELSE {Option("TRANSFER_STOCK", Unit * units, days, LaterThan(days, rs[n]) \cup long \cup harm,
                   WithInbound(net.nodes[n], Proposed(Unit * units, days, "TO")), net.lanes[<<k, n>>].cost * units)}

\* The donor is the one that is cheapest, then fastest.
TransferOption(net, c, rs, t, n) ==
  LET need == Need(net.nodes[n], c, rs[n])
      free(k) == rs[k].pos.available - (IF t.keepSafety THEN rs[k].ss ELSE 0) - 2 * rs[k].d
      donors == {k \in DOMAIN net.nodes \ {n} : free(k) > 0 /\ rs[k].excess.class # "OBSOLETE"}
      cost(k) == net.lanes[<<k, n>>].cost * Smaller(free(k), need)
      days(k) == net.lanes[<<k, n>>].days
      sooner(k, l) == \/ cost(k) < cost(l)
                      \/ cost(k) = cost(l) /\ (days(k) < days(l) \/ (days(k) = days(l) /\ k <= l))
      donor == CHOOSE k \in donors : \A l \in donors : sooner(k, l)
  IN  IF donors = {} \/ need = 0 THEN {} ELSE Transfer(net, c, rs, t, n, donor, Smaller(free(donor), Larger(need, Unit)) \div Unit)

\* The weighted money an option costs, the stock-out it leaves included.
Score(o, p, c, r) ==
  LET hold == Larger(r.lt.L, 7) + 14
      tied == ((o.qty \div Unit) * p.cost * hold) \div 365
  IN  (tied * (c.holding + 12)) \div 100 + o.cost + c.lostUnit * ComputePair(o.after, c).short

Scores(options, p, c, r) == [o \in options |-> Score(o, p, c, r)]
LeastOf(S, score) == CHOOSE o \in S : \A x \in S : score[o] <= score[x]

\* mutant: the best of all options, those that violate a constraint among them
BestAny(options, score, r) ==
  LET real == {o \in options : o.type # "DO_NOTHING"} IN IF real = {} THEN Absent ELSE LeastOf(real, score)

\* The best feasible option, or nothing at all when that costs less than half and the risk is small.
Best(options, score, r) ==
  LET feasible == {o \in options : o.violations = {} /\ o.type # "DO_NOTHING"}
      nothing == CHOOSE o \in options : o.type = "DO_NOTHING"
  IN  CASE feasible = {} -> Absent
        [] r.prob < 5 /\ 2 * score[nothing] < score[LeastOf(feasible, score)] -> nothing
        [] OTHER -> LeastOf(feasible, score)
Recommended(options, p, c, r) == Best(options, Tabled(Scores(options, p, c, r)), r)

Options(net, c, rs, t, n) ==
  LET p == net.nodes[n]
  IN  StandardPO(p, c, rs[n]) \cup Expedite(p, c, rs[n]) \cup TransferOption(net, c, rs, t, n)
      \cup Substitute(p, c, rs[n]) \cup {Option("DO_NOTHING", 0, Absent, {}, p, 0)}

Escalated(options, p, c, r) == Recommended(options, p, c, r) = Absent /\ r.level >= 2
=============================================================================
