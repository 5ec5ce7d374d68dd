----------------------------- MODULE MCPlanning ------------------------------
(* Small instances of every planning task. *)
EXTENDS Planning

MCPhi == [z \in -3..3 |-> CASE z <= -2 -> 0 [] z = -1 -> 2 [] z = 0 -> 5 [] z = 1 -> 8 [] OTHER -> 10]
MCLoss == [z \in -3..3 |-> CASE z < 0 -> 4 - 9 * z [] z = 0 -> 4 [] z = 1 -> 1 [] OTHER -> 0]
MCZOf == [level \in 50..99 |-> CASE level < 80 -> 3 [] level < 95 -> 12 [] level < 99 -> 16 [] OTHER -> 23]
MCZOfLoss == [loss \in 0..40 |-> CASE loss = 0 -> 40 [] loss <= 5 -> 16 [] loss <= 20 -> 6 [] OTHER -> 0]

Config ==
  [basis |-> "observed_mean", useObserved |-> TRUE, defaultLt |-> 7, assumedCv |-> 0, minObs |-> 3, review |-> 7,
   statsWeeks |-> 26, level |-> 95, ordering |-> 2, holding |-> 22, inTransit |-> TRUE, obsoleteDays |-> 365,
   nonMovingDays |-> 180, slowDays |-> 90, excessDays |-> 21, expiry |-> [critical |-> 3, near |-> 7, pct |-> 35],
   stockout |-> [critical |-> 35, high |-> 15, medium |-> 5], weeks |-> 4,
   budget |-> 0, lostUnit |-> 2]

Repl == [policy |-> "ROP", review |-> Absent, maxQty |-> Absent, sequenceDays |-> 5, min |-> Absent, max |-> Absent,
         fixed |-> Absent, upTo |-> Absent, s |-> Absent, base |-> Absent, container |-> Absent, cards |-> Absent, window |-> Absent]
Policy == [method |-> "combined", fixed |-> Absent, cover |-> Absent, level |-> Absent, review |-> Absent]

Item == [loc |-> "DC", source |-> Absent, supplier |-> "S1", supplierCapacity |-> Absent, country |-> "IN", port |-> Absent,
         tags |-> {"sku1"}, history |-> <<5, 9, 7, 3, 11, 7, 8, 6>>, forecast |-> <<7, 7, 14>>, fcPairs |-> <<>>,
         observed |-> <<4, 5, 3>>, staticLt |-> 4, stock |-> [UNRESTRICTED |-> 49, QUARANTINED |-> 7],
         allocated |-> 7, committed |-> 7, reserved |-> 0, backorder |-> 0, inbound |-> <<>>, orders |-> <<>>,
         requirements |-> <<>>, out |-> <<>>, moq |-> 14, itemMoq |-> Absent, multiple |-> 21, itemMultiple |-> Absent,
         repl |-> Repl, policy |-> Policy, lots |-> <<>>, life |-> "ACTIVE", eolPassed |-> FALSE, noMoveFor |-> 3,
         noDemandFor |-> 3, noReceiptFor |-> 9, shelfLife |-> Absent, cost |-> 20, weight |-> 2, volume |-> 1,
         alternate |-> Absent, fastDays |-> 1, fastCost |-> 30, faster |-> TRUE]

Line(qty, eta, kind, moving, ref) ==
  [qty |-> qty, eta |-> eta, promised |-> eta, inTransit |-> moving, kind |-> kind, ref |-> ref, port |-> Absent]
Due(qty, due) == [qty |-> qty, due |-> due]

By(policy, changes) == [Item EXCEPT !.repl = changes @@ [Repl EXCEPT !.policy = policy]]
Busy(p) == [p EXCEPT !.orders = <<Due(28, 3), Due(21, 20)>>, !.requirements = <<Due(14, 9)>>, !.out = <<Due(7, 5)>>,
                     !.inbound = <<Line(28, 5, "PO", FALSE, "PO1"), Line(14, 9, "TO", TRUE, "TO1")>>, !.backorder = 7]
Lot(no, qty, expiry, received, quality) ==
  [no |-> no, qty |-> qty, expiry |-> expiry, received |-> received, quality |-> quality, state |-> "UNRESTRICTED"]

Case(p) == [p |-> p, c |-> Config]
MCPairs ==
  <<Case(Item), Case(Busy(Item)),
    Case(By("MIN_MAX", [min |-> 60, max |-> 110])),
    Case(By("PERIODIC", [review |-> 5])),
    Case(By("ORDER_UP_TO", [s |-> 70, upTo |-> 120])),
    Case(Busy(By("BASE_STOCK", [window |-> 2]))),
    Case(By("KANBAN", [container |-> 14])),
    Case([By("JIT", [window |-> 1]) EXCEPT !.moq = Absent, !.multiple = Absent]),
    Case(Busy(By("JIS", [sequenceDays |-> 6]))),
    Case([By("FIXED_QTY", [fixed |-> 35]) EXCEPT !.policy.cover = 3]),
    Case([Busy(By("MRP", [maxQty |-> 70])) EXCEPT !.policy.method = "periodic"]),
    Case([By("L4L", [review |-> 2]) EXCEPT !.orders = <<Due(42, 14)>>, !.policy.fixed = 14]),
    Case([Item EXCEPT !.history = <<0, 0, 0, 9, 0, 0, 0, 0>>, !.forecast = <<>>, !.policy.method = "demand"]),
    Case([Busy(Item) EXCEPT !.policy.method = "service_level", !.observed = <<2, 9, 4, 6>>,
                            !.lots = <<Lot(1, 21, 4, -20, "RELEASED"), Lot(2, 28, 2, -9, "RELEASED")>>]),
    [p |-> [Busy(Item) EXCEPT !.observed = <<5>>, !.policy.method = "leadtime",
                              !.fcPairs = [n \in 1..8 |-> [forecast |-> 7, actual |-> 6 + (n % 3)]]],
     c |-> [Config EXCEPT !.assumedCv = 30, !.useObserved = FALSE]],
    Case([Item EXCEPT !.life = "OBSOLETE", !.noDemandFor = 400, !.forecast = <<>>, !.history = <<>>, !.staticLt = Absent, !.observed = <<>>]),
    [p |-> [Item EXCEPT !.observed = <<3, 5, 9>>, !.policy.method = "basic"], c |-> [Config EXCEPT !.basis = "p90", !.inTransit = FALSE]]>>

Simulated(p, changes, step, steps) == [p |-> p, c |-> Config, changes |-> changes, step |-> step, steps |-> steps]
Event == [type |-> "none", start |-> 0, days |-> 7, at |-> Absent, to |-> Absent, scope |-> "all", pct |-> 50, by |-> 3, qty |-> 14]
Of(type) == [Event EXCEPT !.type = type]
Still == [Item EXCEPT !.observed = <<4>>]
MCSimulations ==
  <<Simulated(Item, <<>>, 7, 5),
    Simulated([Busy(Item) EXCEPT !.observed = <<3, 9, 6>>], <<[Of("demand_increase") EXCEPT !.scope = "sku1"]>>, 7, 5),
    Simulated(Busy(Item), <<[Of("warehouse_closure") EXCEPT !.at = "DC", !.start = 7]>>, 7, 5),
    Simulated(Still, <<[Of("supplier_shutdown") EXCEPT !.at = "S1"], Of("lead_time_increase")>>, 2, 4),
    Simulated(Busy(Still), <<Of("port_delay"), Of("transport_capacity_reduction"),
                             [Of("expedited_shipment") EXCEPT !.at = "PO1"]>>, 7, 5),
    Simulated(Still, <<[Of("inventory_transfer") EXCEPT !.at = "DC", !.to = "ST"],
                       [Of("emergency_purchase") EXCEPT !.at = "DC"], Of("moq_increase")>>, 7, 5),
    Simulated(Still, <<Of("promotion"), Of("safety_stock_increase")>>, 7, 5),
    Simulated(Still, <<[Of("service_level_change") EXCEPT !.pct = 99], Of("demand_decrease"),
                       [Of("border_disruption") EXCEPT !.at = "IN"],
                       [Of("inventory_transfer") EXCEPT !.at = "ST", !.to = "DC"]>>, 7, 5),
    Simulated(Busy(Still), <<Of("transport_capacity_reduction"), [Of("transport_capacity_reduction") EXCEPT !.start = 7],
                             [Of("inventory_transfer") EXCEPT !.at = "DC", !.to = "DC"]>>, 7, 4)>>

-----------------------------------------------------------------------------
Node(loc, usable, forecast) ==
  [Item EXCEPT !.loc = loc, !.stock.UNRESTRICTED = usable, !.forecast = forecast, !.observed = <<4, 4, 4>>, !.allocated = 0, !.committed = 0]
Rich == [Node("A", 210, <<7>>) EXCEPT !.policy.fixed = 21]
Poor == [Node("B", 14, <<7>>) EXCEPT !.policy.fixed = 21]
Empty == [Node("C", 35, <<14>>) EXCEPT !.policy.cover = 1]
MCNetworks ==
  LET lanes == [a \in (1..3) \X (1..3) |-> [days |-> IF a[1] = a[2] THEN 0 ELSE IF a[1] > a[2] THEN 2 ELSE a[2] - a[1], cost |-> a[1] + 2 * a[2]]]
      net(nodes) == [nodes |-> nodes, lanes |-> lanes, cold |-> {}, ambient |-> TRUE, penalty |-> 20, c |-> Config,
                     t |-> [keepSafety |-> TRUE, maxDays |-> 10, minQty |-> 1, restricted |-> {}]]
  IN  <<net(<<Rich, Poor>>), net(<<Rich, Empty, Poor>>),
        net(<<Rich, [Busy(Poor) EXCEPT !.faster = FALSE, !.supplier = Absent, !.source = "HUB"]>>),
        [net(<<Rich, Poor, [Rich EXCEPT !.stock.UNRESTRICTED = 154]>>) EXCEPT !.t.restricted = {<<1, 2>>}],
        [net(<<Rich, Poor>>) EXCEPT !.lanes[<<1, 2>>].days = 3],
        [net(<<Rich, Poor>>) EXCEPT !.cold = {1}, !.ambient = FALSE, !.t.keepSafety = FALSE],
        [net(<<Rich, Busy(Poor)>>) EXCEPT !.c.budget = 3],
        net(<<[Rich EXCEPT !.committed = 70], [Busy(Poor) EXCEPT !.shelfLife = 4, !.alternate = [lead |-> 2, moq |-> 7, multiple |-> 7, cost |-> 6]]>>)>>

Limits == [budget |-> Absent, volume |-> Absent, truck |-> Absent, floor |-> 90]
Weighted == [stockout |-> 9, expedite |-> 2, holding |-> 0, obsolete |-> 1, order |-> 4, truck |-> 5]
Two == <<[Poor EXCEPT !.multiple = 14], [Empty EXCEPT !.supplier = "S2", !.multiple = 21]>>
MCPlannings ==
  LET plan(limits, enforce) == [pairs |-> Two, c |-> Config, limits |-> limits, weights |-> Weighted, enforce |-> enforce]
  IN  <<plan(Limits, TRUE), plan([Limits EXCEPT !.budget = 360], FALSE), plan([Limits EXCEPT !.budget = 80], TRUE),
        plan([Limits EXCEPT !.truck = 12, !.volume = 25], FALSE)>>

MCPicks ==
  LET lots == <<Lot(1, 3, 5, -9, "RELEASED"), Lot(2, 2, 1, -4, "RELEASED"), Lot(3, 4, Absent, -2, "RELEASED"),
                Lot(4, 5, -1, -30, "RELEASED"), Lot(5, 2, 3, -1, "HOLD"), Lot(6, 0, 2, Absent, "RELEASED")>>
      pick(qty, min, any, expired) == [lots |-> lots, qty |-> qty, minDays |-> min, any |-> any, expired |-> expired, demand |-> 1 + min]
  IN  Listed({pick(qty, min, any, expired) : qty \in {1, 4, 9, 20}, min \in 0..2, any \in BOOLEAN, expired \in BOOLEAN})

\* Rows with ids, in an order of their own; in the second table several of one level.
MCPolicied ==
  LET row(id, level, key, service, method) ==
        [id |-> id, level |-> level, key |-> key, active |-> TRUE, params |-> [service |-> service, method |-> method]]
      rows == <<row(4, "SKU", "sku1", 99, Absent), row(1, "GLOBAL", "*", 90, "basic"), row(3, "CATEGORY", "F1", 95, "demand"),
                row(5, "NODE", "DC", 92, "periodic"), row(2, "SKU_LOCATION", <<"sku1", "ST">>, 97, "fixed"),
                [row(6, "SKU", "sku1", 50, "none") EXCEPT !.active = FALSE]>>
      alike == <<row(3, "CATEGORY", "C1", 95, "demand"), row(1, "CATEGORY", "F1", 93, Absent), row(5, "SKU", "sku1", Absent, "basic"),
                 row(2, "SKU", "sku1", 98, "periodic"), row(4, "INDUSTRY", "FMCG", 91, "fixed"), row(6, "INDUSTRY", "RETAIL", 90, Absent)>>
      item == [industry |-> "FMCG", category |-> Absent, family |-> "F1", sku |-> "sku1"]
      at(code) == [policies |-> rows, item |-> item, loc |-> [industry |-> Absent, region |-> "N", code |-> code]]
      tied(sku, family) == [at("DC") EXCEPT !.policies = alike, !.loc.industry = "RETAIL", !.item.category = "C1",
                                            !.item.sku = sku, !.item.family = family]
  IN  <<at("DC"), at("ST"), [at("DC") EXCEPT !.item.sku = "sku2"], tied("sku1", "F1"), tied("sku2", "F1"), tied("sku2", "F2"),
        [tied("sku2", Absent) EXCEPT !.item.category = Absent]>>

MCDimensions == [count |-> [EA |-> <<1, 1>>, DOZ |-> <<12, 1>>], mass |-> [KG |-> <<1, 1>>, G |-> <<1, 1000>>]]
MCPackUnits == {"CASE", "PALLET", "BAG"}
Factors == {[a |-> "CASE", b |-> "EA", f |-> <<24, 1>>], [a |-> "PALLET", b |-> "CASE", f |-> <<40, 1>>]}
MCConversions ==
  Listed({[from |-> x, to |-> y, factors |-> Factors] : x \in {"EA", "DOZ", "CASE", "PALLET", "KG", "BAG"}, y \in {"DOZ", "PALLET", "G", "BAG", "TUN"}})

MCAudits ==
  LET move(at, delta) == [sku |-> "sku1", loc |-> "DC", at |-> at, delta |-> delta]
      record(sku, loc, qty, uom, synced) == [system |-> "ERP", sku |-> sku, loc |-> loc, qty |-> qty, uom |-> uom, synced |-> synced]
      b == [skus |-> {"sku1", "sku2"}, locs |-> {"DC", "ST"}, onHand |-> (<<"sku1", "DC">> :> 100) @@ (<<"sku2", "DC">> :> 48),
            uom |-> [sku1 |-> "EA", sku2 |-> "EA"], factors |-> Factors, moves |-> <<move(2, -30), move(5, 50)>>]
      rules == [checks |-> {"missing", "location", "unit", "negative", "timing", "duplicate"}, pct |-> 2, abs |-> 1]
      audit(ext) == [ext |-> ext, book |-> b, rules |-> rules]
      at(t) == audit(<<record("sku1", "DC", IF t < 2 THEN 80 ELSE IF t < 5 THEN 50 ELSE 100, "EA", t), record("sku2", "DC", 2, "CASE", 6)>>)
  IN  [t \in 1..6 |-> at(t)]
      \o <<audit(<<record("sku1", "DC", 99, "EA", 6), record("sku1", "DC", 101, "EA", 6), record("sku9", "DC", 1, "EA", 6),
                   record("sku1", "XX", 1, "EA", 6), record("sku2", "DC", 5, "KG", 6)>>),
           audit(<<record("sku1", "DC", -4, "EA", 6)>>)>>

MCHistories ==
  LET row(day, qty) == [day |-> day, qty |-> qty, weekly |-> TRUE]
      fc(week, type, qty) == [week |-> week, type |-> type, qty |-> qty]
      forecasts == <<fc(1, "STAT", 5), fc(-2, "STAT", 4), fc(1, "CONSENSUS", 8), fc(3, "STAT", 6), fc(3, "OTHER", 9)>>
      h(rows) == [rows |-> rows, forecasts |-> forecasts, precedence |-> <<"CONSENSUS", "STAT">>, weeks |-> 6]
  IN  <<h(<<>>), h(<<row(-20, 3), row(-3, 2), row(-19, 1), row(2, 9)>>), h(<<row(-400, 3), row(-14, 0), row(-28, 5)>>)>>

MCSourcings ==
  LET sup(s, primary, moq) == [supplier |-> s, primary |-> primary, lead |-> 5, moq |-> moq, multiple |-> Absent]
      o(s, item, dest, days) == [supplier |-> s, item |-> item, dest |-> dest, origin |-> "HUB", days |-> days]
      x(assigned, min) ==
        [suppliers |-> <<sup("S1", FALSE, 3), sup("S2", TRUE, Absent)>>, assigned |-> assigned, loc |-> "DC", minObs |-> min,
         item |-> [sku |-> "sku1", moq |-> 7, multiple |-> 7],
         obs |-> <<o("S2", "sku1", "DC", 4), o("S2", "sku1", "ST", 6), o("S2", "sku2", "DC", 9), o("S1", "sku1", "DC", 2),
                   o("S2", "sku1", "DC", 3)>>]
      to(from, supplier) == [from |-> from, supplier |-> supplier, lead |-> Absent]
  IN  Listed({x(a, min) : a \in {Absent, to("HUB", Absent), to(Absent, "S1"), to(Absent, Absent)}, min \in 1..4})

MCSalesPlans ==
  LET pair(item, loc, source, cost, onHand, forecast, inbound) ==
        [item |-> item, loc |-> loc, source |-> source, cost |-> cost, onHand |-> onHand, forecast |-> forecast, inbound |-> inbound]
      coming(qty, eta, kind) == [qty |-> qty, eta |-> eta, kind |-> kind]
      fc(n, day, qty) == [pair |-> n, day |-> day, qty |-> qty]
      pairs == <<pair("i1", "ST", "DC", 3, 20, [w \in 1..12 |-> w], <<coming(4, 5, "TO"), coming(9, 31, "PO")>>),
                 pair("i1", "DC", Absent, 2, 30, <<6, 6, 6>>, <<coming(10, -3, "PO"), coming(7, 400, "PROD"), coming(5, 59, "PO")>>),
                 pair("i2", "DC", Absent, 5, 4, <<2, 0, 8, 1>>, <<>>)>>
      plan(stock, months) == [pairs |-> [pairs EXCEPT ![1].onHand = stock], weekday |-> 2, months |-> months, up |-> 15, down |-> 15,
                              baseline |-> <<fc(1, -2, 9), fc(1, -9, 50), fc(1, 33, 12), fc(2, 5, 40), fc(3, 59, 6), fc(3, 60, 7), fc(1, 89, 3), fc(1, 700, 99)>>]
  IN  Listed({plan(stock, months) : stock \in {0, 9, 20, 60}, months \in 1..3})

MCMeasured ==
  LET pair(item, loc, source, class, onHand) ==
        [item |-> item, loc |-> loc, source |-> source, cost |-> 3, onHand |-> onHand, class |-> class, d |-> IF class = "SLOW" THEN 0 ELSE 2,
         usable |-> onHand - 4, history |-> [n \in 1..onHand |-> n % 5], fcPairs |-> [n \in 1..14 |-> [forecast |-> n, actual |-> 9]], backorder |-> 1]
      line(item, loc, shipped, requested, ship) ==
        [item |-> item, loc |-> loc, status |-> "SHIPPED", ordered |-> 10, shipped |-> shipped, requested |-> requested, ship |-> ship,
         delivered |-> IF ship = Absent THEN Absent ELSE ship + 2, placed |-> -60]
      o(s, item, lead, promised, got) == [supplier |-> s, item |-> item, received |-> -10 * lead, lead |-> lead, promised |-> promised, got |-> got, ordered |-> 20]
      x(window) ==
        [pairs |-> <<pair("i1", "DC", Absent, "NORMAL", 4), pair("i1", "ST", "DC", "SLOW", 60), pair("i2", "ST", Absent, "NORMAL", 30), pair("i3", "DC", Absent, "NON_MOVING", 8)>>,
         components |-> {"i3"}, window |-> window, snapshots |-> [n \in 1 .. window \div 10 |-> 100 + n],
         sales |-> <<line("i1", "DC", 10, -5, -5), line("i1", "ST", 10, -20, -19), line("i2", "ST", 9, -30, -31), line("i2", "DC", 10, -3, -3),
                     [line("i1", "DC", 10, -8, -9) EXCEPT !.status = "OPEN"], line("i3", "DC", 10, -45, Absent), line("i1", "DC", 10, Absent, -1)>>,
         counts |-> <<[item |-> "i1", loc |-> "DC", qty |-> 6], [item |-> "i1", loc |-> "ST", qty |-> 57], [item |-> "i9", loc |-> "DC", qty |-> 1]>>,
         receipts |-> <<o("S1", "i1", 3, 3, 20), o("S1", "i1", 5, 3, 20), o("S1", "i1", 4, 3, 18), o("S1", "i1", 9, Absent, 19), o("S1", "i1", 6, 0, 20),
                        o("S2", "i3", 4, 4, 20), o("S2", "i9", 4, 4, 20)>>]
  IN  Listed({x(w) : w \in {10, 40, 90}})

\* Supply and demand in multiples of ten times the number of demands.
MCSplits ==
  LET split(n, supply, asked, fill) ==
        [supply |-> 10 * n * supply, more |-> 10 * n, fill |-> fill,
         demands |-> [k \in 1..n |-> [qty |-> 10 * n * asked[k], score |-> IF k = 3 THEN 1 ELSE k]]]
  IN  Listed({split(n, supply, asked, fill) : n \in {1, 3}, supply \in {0, 1, 3, 5}, asked \in {<<1, 2, 1>>, <<0, 3, 4>>, <<2, 2, 2>>}, fill \in {0, 3, 10, 25, 50}})

\* The ways in which three lots are made in one of two orders, or in none, and used in any of them, the third in p2 at most.
MCTraced ==
  LET orders == {"p1", "p2"}
      move(l, type, ref) == [lot |-> l, type |-> type, ref |-> ref, party |-> Absent]
      ship(l, party) == [lot |-> l, type |-> "SHIPMENT", ref |-> Absent, party |-> party]
      lines(makes, uses) == {move(l, "PROD_COMPLETION", makes[l]) : l \in {l \in 1..3 : makes[l] # Absent}}
                             \cup {move(lr[1], "PROD_CONSUMPTION", lr[2]) : lr \in {lr \in (1..3) \X orders : lr[2] \in uses[lr[1]]}}
      chain == FoldLeft(LAMBDA s, l : s \o <<move(l, "PROD_CONSUMPTION", l), move(l + 1, "PROD_COMPLETION", l)>>, <<>>, <<1, 2, 3, 4>>)
      shipped == <<ship(1, "c1"), ship(2, "c2"), ship(3, "c3"), ship(3, Absent), ship(5, "c5")>>
      made == Listed([1..3 -> orders \cup {Absent}])
      used == Listed({u \in [1..3 -> SUBSET orders] : "p1" \notin u[3]})
      of(n) == lines(made[(n \div Len(used)) + 1], used[(n % Len(used)) + 1])
  IN  [n \in 1 .. Len(made) * Len(used) |-> [lot |-> 1, book |-> Listed(of(n - 1)) \o shipped]]
      \o [l \in 1..5 |-> [lot |-> l, book |-> chain \o shipped]]
      \o <<[lot |-> 1, book |-> <<move(1, "PROD_CONSUMPTION", Absent), move(Absent, "PROD_COMPLETION", Absent), move(2, "PROD_COMPLETION", Absent)>> \o shipped]>>

MCFeeds ==
  LET r(pair, day, qty) == [pair |-> pair, day |-> day, qty |-> qty]
      table == (<<"a", 0, "BASELINE">> :> 5) @@ (<<"a", 2, "ADJUSTED">> :> 9) @@ (<<"b", 1, "CONSENSUS">> :> 4)
      m(source, type, recs) == [table |-> table, m |-> [source |-> source, type |-> type, recs |-> recs], precedence |-> <<"ADJUSTED", "CONSENSUS", "BASELINE">>, weeks |-> 4]
      records == {r("a", 1, 7), r("a", 6, 3), r("a", 15, 0), r("b", -3, 2), r("b", 9, -1), r("b", 9, Absent), r(Absent, 3, 8), r("a", Absent, 1), Absent}
      both(type) == Listed({m("FIT", type, <<p, q>>) : p \in records, q \in records})
  IN  both("BASELINE") \o both("ADJUSTED")
      \o <<m("XYZ", "BASELINE", <<r("a", 1, 7)>>), m("ERP", "MEDIAN", <<r("a", 1, 7)>>), m("ERP", "BASELINE", <<>>)>>

MCScorings ==
  LET o(s, lead, promised, got, rejected) ==
        [supplier |-> s, received |-> -9 * lead, lead |-> lead, promised |-> promised, got |-> got, ordered |-> 20, rejected |-> rejected, hurried |-> lead < 3]
      x(geo, receipts) ==
        [suppliers |-> [S1 |-> [geo |-> geo, rejection |-> 10], S2 |-> [geo |-> 400, rejection |-> 30]], receipts |-> receipts, critical |-> {"i1", "i2"},
         sources |-> <<[item |-> "i1", supplier |-> "S1"], [item |-> "i2", supplier |-> "S1"], [item |-> "i2", supplier |-> "S2"], [item |-> "i3", supplier |-> "S2"]>>,
         weights |-> [otif |-> 30, reliability |-> 20, quality |-> 15, concentration |-> 15, geo |-> 10, expedite |-> 10]]
      receipts == <<o("S1", 4, 4, 20, 0), o("S1", 2, 4, 19, 1), o("S2", 9, 4, 20, 0), o("S1", 5, Absent, 0, 0), o("S1", 50, 4, 20, 0)>>
  IN  <<x(100, <<>>), x(100, receipts), [x(1500, receipts) EXCEPT !.weights = [k \in {"otif", "geo"} |-> 1]], [x(0, Tail(receipts)) EXCEPT !.weights = [k \in {"geo"} |-> 0]]>>

MCTasks ==
  LET sizes == [pair |-> Len(MCPairs), twin |-> Len(MCSimulations), network |-> Len(MCNetworks), orders |-> Len(MCPlannings),
                picks |-> Len(MCPicks), policy |-> Len(MCPolicied), unit |-> Len(MCConversions), audit |-> Len(MCAudits),
                history |-> Len(MCHistories), source |-> Len(MCSourcings), sop |-> Len(MCSalesPlans), kpi |-> Len(MCMeasured),
                split |-> Len(MCSplits), trace |-> Len(MCTraced), feed |-> Len(MCFeeds), score |-> Len(MCScorings)]
  IN  UNION {{[kind |-> kind, no |-> n] : n \in 1 .. sizes[kind]} : kind \in DOMAIN sizes}
=============================================================================
