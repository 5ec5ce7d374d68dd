---------------------------- MODULE MCDetection -----------------------------
(* Worlds, rules and families of steps for TLC, and what detection promises. *)
EXTENDS Detection

CONSTANTS a, b

MCLevels == [medium |-> 5, high |-> 15, critical |-> 35]
MCExpiryDays == [critical |-> 30, near |-> 90, pct |-> Absent]
MCWeights == [worth |-> 7, severity |-> 2, time |-> 1]
MCTimeScore == [d \in 0..60 |-> CASE d = 0 -> 100 [] d < 5 -> 80 [] d < 10 -> 60 [] d < 20 -> 35 [] OTHER -> 10]
MCTopN == [STOCKOUT |-> 2, OBSOLESCENCE |-> 1, EXPIRY |-> 1]

Calm ==
  [usable_on_hand |-> 40, safety_stock |-> 20, demand_daily |-> 5, excess_value |-> 0, inv_class |-> "NORMAL",
   on_hand_value |-> 100, oldest_days |-> 10, at_risk_qty |-> 0, lt_ratio |-> Absent, lt_obs_n |-> 0,
   demand_ratio_4w |-> 100, demand_z |-> 0, over_allocated |-> FALSE, eco_leftover_qty |-> Absent,
   eol_exposure_value |-> 0]

Pair(sku, prob, days, inbound) ==
  [sku |-> sku, node |-> 1, industry |-> "FMCG", metrics |-> Calm, prob |-> prob, days |-> days, lead |-> 10, review |-> 7,
   orders |-> <<[qty |-> 2, due |-> 3]>>, inbound |-> inbound, available |-> 40, worth |-> [STOCKOUT |-> 10 * sku],
   best |-> "CREATE_PO", expiry |-> Absent, waiting |-> {}, supplier |-> Absent]

Part(ref, shipment, port, promised) ==
  [kind |-> "PO", ref |-> ref, qty |-> 5, promised |-> promised, eta |-> 9, delay |-> IF promised < 0 THEN 3 ELSE 0,
   shipment |-> shipment, port |-> port, lane |-> Absent, supplier |-> Absent, worth |-> 30]

Subject(scope, place) ==
  [scope |-> scope, place |-> place, sku |-> Absent, worth |-> 5, observations |-> 9, capacity |-> 100, onHand |-> 99,
   quality |-> "REJECTED", received |-> -6, qty |-> 3, ratio |-> 400,
   ctx |-> [otif |-> 60, lt_reliability |-> 90, variance_pct_abs |-> 5, variance_value |-> 9000, recon_status |-> "VARIANCE"]]

World(pairs, subjects, transfers) == [pairs |-> pairs, subjects |-> subjects, transfers |-> transfers]

Aged == [Pair(1, 0, Absent, <<>>) EXCEPT !.metrics.oldest_days = 400, !.metrics.on_hand_value = 600000]
Short == [Pair(2, 20, 4, <<>>) EXCEPT !.waiting = {7}]
Short3 == [Pair(3, 40, Absent, <<>>) EXCEPT !.best = Absent]
Dead == [Pair(4, 0, Absent, <<>>) EXCEPT !.metrics.inv_class = "OBSOLETE", !.expiry = 20]

RulesNamed(codes) == SelectSeq(SeedRules, LAMBDA rule : rule.code \in codes)

\* every scope, muting, escalation, the decisions of a planner
Everyday ==
  [worlds |-> <<World(<<Aged, Short>>, <<Subject("lot", <<1, 1>>), [Subject("sync", <<2>>) EXCEPT !.ratio = Absent]>>, {}),
                World(<<Short>>, <<Subject("sync", <<2>>)>>, {1})>>,
   rules |-> <<[RulesNamed({"STOCKOUT_RISK"})[1] EXCEPT !.suppress = 24]>>
               \o RulesNamed({"AGING_STOCK", "QUALITY_HOLD", "DATA_STALE"}),
   mutes |-> {[rule |-> "STOCKOUT_RISK", sku |-> 2, until |-> 0]}, toggled |-> {"STOCKOUT_RISK"},
   statuses |-> {"Acknowledged", "Dismissed", "Resolved"}, lots |-> {[place |-> 5, sku |-> 1, days |-> 20]},
   sessions |-> {a}, events |-> 5, faults |-> FALSE, ticks |-> TRUE]

\* all rules at once: more alerts of a type than are advised on
Crowded ==
  [worlds |-> <<World(<<Short, Short3, Pair(5, 50, 2, <<>>), Dead>>,
                      <<Subject("location", <<1>>), Subject("supplier", <<8>>), Subject("recon", <<3, 2, 1>>)>>, {1}),
                World(<<Short, Pair(5, 6, 12, <<>>), [Dead EXCEPT !.expiry = Absent], [Short3 EXCEPT !.best = "DO_NOTHING"]>>, <<>>, {})>>,
   rules |-> SeedRules, mutes |-> {[rule |-> "*", sku |-> Absent, until |-> Absent]}, toggled |-> {},
   statuses |-> {"Action Proposed"}, lots |-> {}, sessions |-> {a}, events |-> 4, faults |-> FALSE, ticks |-> FALSE]

Line(sku, days, shipment) == Pair(sku, 20, days, <<Part(sku, shipment, 9, -2)>>)

\* causes that come and go; two groups of alerts under one port
Clustering ==
  [worlds |-> <<World(<<Line(1, 4, 1), Line(2, 30, 2), Line(3, 6, 3), Line(4, 33, 2)>>, <<>>, {}),
                World(<<Line(1, 4, 1), Line(3, 6, 3)>>, <<>>, {}),
                World(<<Line(1, 4, 1), Line(2, 25, 2)>>, <<>>, {})>>,
   rules |-> RulesNamed({"STOCKOUT_RISK"}), mutes |-> {[rule |-> "*", sku |-> 3, until |-> Absent]}, toggled |-> {},
   statuses |-> {"Executed"}, lots |-> {}, sessions |-> {a}, events |-> 5, faults |-> FALSE, ticks |-> FALSE]

\* a purchase order line of which a part is in transit: two parts, one key
Halved == [Pair(1, 0, Absent, <<Part(1, 1, 9, -2), Part(1, Absent, Absent, -2)>>) EXCEPT !.node = 2]

\* two runs at once, workers that fail or are lost
Racing ==
  [worlds |-> <<World(<<Halved, Short>>, <<>>, {}), World(<<Halved>>, <<>>, {})>>,
   rules |-> RulesNamed({"STOCKOUT_RISK", "PO_DELAY"}), mutes |-> {}, toggled |-> {},
   statuses |-> {"Dismissed", "Resolved"}, lots |-> {}, sessions |-> {a, b}, events |-> 4, faults |-> TRUE, ticks |-> FALSE]

Slow(sku, supplier) ==
  [Pair(sku, 0, Absent, <<>>) EXCEPT !.metrics.lt_ratio = 140, !.metrics.lt_obs_n = 9, !.supplier = supplier]

\* lead times that grow: the items of a supplier, the supplier, and what waits for its late order
Slower ==
  [worlds |-> <<World(<<Pair(1, 20, 4, <<[Part(1, 1, 9, -2) EXCEPT !.supplier = 8]>>), Slow(2, 8), Slow(3, 9)>>,
                      <<Subject("supplier", <<8>>)>>, {}),
                World(<<Slow(2, 8), Slow(3, 8), Slow(4, Absent)>>, <<Subject("supplier", <<9>>)>>, {})>>,
   rules |-> RulesNamed({"STOCKOUT_RISK", "LEAD_TIME_INCREASE", "SUPPLIER_DELAY"}), toggled |-> {"STOCKOUT_RISK"},
   mutes |-> {[rule |-> "SUPPLIER_DELAY", sku |-> Absent, until |-> Absent]}, statuses |-> {"Dismissed"}, lots |-> {},
   sessions |-> {a}, events |-> 4, faults |-> FALSE, ticks |-> FALSE]

MCScenarios == <<Everyday, Crowded, Clustering, Racing, Slower>>

-----------------------------------------------------------------------------
(* What detection promises. *)

Fresh == last = "fresh"
Present == Facts(scn.worlds[world], off, now)
Keys(rows) == {rows[i].key : i \in DOMAIN rows}

\* After a run that nothing disturbed every fact has an alert that is up to date
\* and not resolved; no alert stays in the planner's inbox without a fact, twins
\* apart; and where facts have keys of their own and runs do not overlap, alerts do
\* (run_detection: de-duplicate, refresh, re-open, auto-resolve).
AlertsFollowFacts ==
  /\ Fresh =>
       /\ \A n \in DOMAIN Present :
            \E i \in DOMAIN alerts :
              /\ alerts[i].key = Present[n].key
              /\ alerts[i].status # "Resolved"
              /\ LastWith(Present, Present[n].key) = n =>
                   <<alerts[i].sev, alerts[i].score, alerts[i].dims>> = <<Present[n].sev, Present[n].score, Present[n].dims>>
       /\ \A i \in DOMAIN alerts :
            alerts[i].status \in {"New", "Acknowledged", "Investigating"} =>
              alerts[i].key \in Keys(Present) \/ LastWith(alerts, alerts[i].key) # i
  /\ Cardinality(scn.sessions) = 1 => Cardinality(Keys(alerts)) = Len(alerts)

\* After such a run what is advised on is open and in sight, once, and no alert of
\* its type with a higher score went without advice that could be given
\* (recommendation_service.generate).
AdviceFollowsAlerts ==
  Fresh =>
    \A r \in {r \in recs : r.status = "OPEN" /\ r.alert # 0} :
      /\ alerts[r.alert].status \in OpenStatuses /\ ~alerts[r.alert].suppressed
      /\ alerts[r.alert].key \in Keys(Present) \/ alerts[r.alert].status = "Action Proposed"
      /\ \A q \in recs : q.status = "OPEN" /\ q.alert = r.alert => q = r
      /\ \A i \in Advisable(alerts) :
           /\ alerts[i].type = alerts[r.alert].type /\ alerts[i].score > alerts[r.alert].score
           /\ \E p \in PairOf(scn.worlds[world], alerts[i]) : p.best # "DO_NOTHING"
           => \E q \in recs : q.status = "OPEN" /\ q.alert = i

\* After such a run alerts in sight with a cause in common, one of them its first
\* carrier and close in time, are in one incident, and so are the alert of a supplier
\* and those of the lead times of what it supplies; an incident's cause is shared by
\* two of its alerts; one that is not closed has alerts; and unless two groups go
\* under one key, it counts its alerts and is as severe as the worst (_dims_for_pair,
\* cluster, _fill).
IncidentsHold ==
  Fresh =>
    LET shown == Visible(alerts)
        known == {i \in shown : alerts[i].key \in Keys(Present)}
        Of(k) == {i \in shown : alerts[i].incident = k}
    IN  /\ \A i, j \in shown :
             \A t \in alerts[i].dims \cap alerts[j].dims :
               i # j /\ i = Least(Carriers(alerts, t)) /\ Near(alerts[i], alerts[j]) =>
                 alerts[i].incident = alerts[j].incident /\ alerts[i].incident # 0
        /\ \A i, j \in known : \A p \in PairOf(scn.worlds[world], alerts[i]) :
             alerts[i].type = "LEAD_TIME_INCREASE" /\ alerts[j].key = <<"SUPPLIER_DELAY", p.supplier>> =>
               alerts[i].incident = alerts[j].incident /\ alerts[i].incident # 0
        /\ \A k \in DOMAIN incidents :
             /\ Of(k) # {} => Cardinality({i \in Of(k) : incidents[k].key \in alerts[i].dims}) >= 2
             /\ incidents[k].status \notin {"Resolved", "Dismissed"} /\ LastWith(incidents, incidents[k].key) = k
                  => Of(k) # {}
             /\ Of(k) \in Groups(alerts) =>
                  /\ incidents[k].count = Cardinality(Of(k))
                  /\ \A i \in Of(k) : RankOf(alerts[i].sev) <= RankOf(incidents[k].sev)

Writing(s) == run[s].phase = "read" /\ run'[s].phase = "written"

\* Two things only may a run do to the status of an alert: re-open one that was
\* resolved when the run read it and whose fact is back, and resolve one that nobody
\* had taken further than an investigation when the run read it and whose fact is
\* gone.  Those two it does whatever planners have decided since it read them; every
\* other status stays, those set while the run was working included.  Incidents are
\* only ever resolved by it, and the recommendations acted on are kept (run_detection,
\* cluster, generate).
RunsReopenAndResolveOnly ==
  [][\A s \in Sessions : Writing(s) =>
       LET read == run[s].alerts
           facts == Keys(Facts(scn.worlds[run[s].world], run[s].off, run[s].day))
       IN  /\ \A i \in DOMAIN alerts :
                \/ alerts'[i].status = alerts[i].status
                \/ alerts'[i].status = "New" /\ alerts[i].key \in facts /\ read[i].status = "Resolved"
                \/ /\ alerts'[i].status = "Resolved" /\ alerts[i].key \notin facts
                   /\ read[i].status \in {"New", "Acknowledged", "Investigating"}
           /\ \A k \in DOMAIN incidents :
                incidents'[k].status \in {incidents[k].status, "Resolved"}
           /\ {r \in recs : r.status = "ACTIONED"} \subseteq recs']_vars

\* A job that was submitted ends, unless the process that had it ended
\* (jobs.submit, _run, _run_inline).
JobEnds ==
  \A s \in Sessions : job[s] \in {"QUEUED", "RUNNING"} ~> (job[s] \in {"DONE", "FAILED"} \/ s \in lost)

=============================================================================
