------------------------------ MODULE Detection ------------------------------
(***************************************************************************)
(* Detection runs: the rules are evaluated over what the planning engine   *)
(* computed (a world), alerts are raised, refreshed, resolved, suppressed  *)
(* and escalated, open alerts are clustered into incidents, and the open   *)
(* recommendations are made anew.  A run is the work of a background job;  *)
(* it reads the alerts, works, and writes in one transaction, columns that *)
(* it changed only, while planners and other runs go on.                   *)
(* Days of a world are counted from the day it is read.                    *)
(***************************************************************************)
EXTENDS Rules, FiniteSets

CONSTANTS
  Sessions,   \* clients that submit a detection job
  Workers,    \* JOB_WORKERS
  Scenarios,  \* [worlds, rules, mutes, statuses, lots, sessions, events, faults]
  Levels,     \* stock-out thresholds
  ExpiryDays, \* expiry thresholds
  Weights,    \* weights.priority, those of the impact, the severity and the time
  TimeScore,  \* 100 exp(-days / 14), by days
  MinPriority,
  Window,     \* WINDOW_DAYS
  TopN        \* alerts of a type that are turned into recommendations

VARIABLES family, world, off, muted, now, alerts, incidents, recs, job, run, lost, left, last
vars == <<family, world, off, muted, now, alerts, incidents, recs, job, run, lost, left, last>>

scn == Scenarios[family]
OpenStatuses == {"New", "Acknowledged", "Investigating", "Action Proposed", "Approved"}
SevScore == [LOW |-> 15, MEDIUM |-> 40, HIGH |-> 70, CRITICAL |-> 100]

LastWith(rows, key) == LET found == {i \in DOMAIN rows : rows[i].key = key} IN IF found = {} THEN 0 ELSE Most(found)

-----------------------------------------------------------------------------
(* What the rules are evaluated over. *)

Score(worth, sev, tti) ==
  (Weights.worth * worth + Weights.severity * SevScore[sev]
     + Weights.time * (IF tti = Absent THEN 20 ELSE TimeScore[NotBelow0(tti)]))
  \div (Weights.worth + Weights.severity + Weights.time)

\* Metrics of an item at a location: those the engine gives and those made of them.
PairContext(p) ==
  LET due == SelectSeq(p.orders, LAMBDA o : o.due <= p.lead)
      timely == SelectSeq(p.inbound, LAMBDA ib : ib.eta <= p.lead)
  IN  p.metrics @@ [risk_rank |-> StockoutLevel(p.prob, p.days, p.lead, Levels),
                    days_to_stockout |-> p.days,
                    lt_horizon |-> p.lead + p.review,
                    expiry_status |-> ExpiryStatus(p.expiry, Absent, ExpiryDays),
                    ss_ratio |-> IF p.metrics.safety_stock > 0
                                 THEN (100 * p.metrics.usable_on_hand) \div p.metrics.safety_stock ELSE 990,
                    unallocated_due_in_lt |-> Total(due, LAMBDA o : o.qty),
                    available_pos |-> NotBelow0(p.available) + Total(timely, LAMBDA ib : ib.qty)]

SupplyTypes == {"STOCKOUT", "SAFETY_STOCK_BREACH", "ALLOCATION_CONFLICT"}

TimeToImpact(p, type) ==
  CASE type \in SupplyTypes \cup {"DEMAND_SPIKE"} ->
         IF p.days = Absent /\ p.metrics.demand_daily > 0
         THEN p.metrics.usable_on_hand \div p.metrics.demand_daily ELSE p.days
    [] type = "EXPIRY" -> IF p.expiry # Absent /\ p.expiry >= 0 THEN p.expiry ELSE 0
    [] OTHER -> Absent

Tokens(ib) ==
  {<<"shipment", x>> : x \in Given(ib.shipment)} \cup {<<"port", x>> : x \in Given(ib.port)}
  \cup {<<"supplier", x>> : x \in Given(ib.supplier)} \cup {<<"lane", x>> : x \in Given(ib.lane)}
  \cup (IF ib.kind = "PO" THEN {<<"po", ib.ref>>} ELSE {})

\* mutant: only alerts about supply carry causes
PairDimsOfSupply(p, type) ==
  IF type \notin SupplyTypes THEN {}
  ELSE UNION {Tokens(ib) : ib \in {ib \in Range(p.inbound) : ib.delay > 0 \/ (ib.promised # Absent /\ ib.promised < 0)}}
       \cup {<<"prod_order", ref>> : ref \in p.waiting}

\* Causes an alert of a pair carries: its late inbound and the orders that wait for
\* it, or the supplier whose lead time grew.
PairDims(p, type) ==
  CASE type \in SupplyTypes ->
         UNION {Tokens(ib) : ib \in {ib \in Range(p.inbound) : ib.delay > 0 \/ (ib.promised # Absent /\ ib.promised < 0)}}
         \cup {<<"prod_order", ref>> : ref \in p.waiting}
    [] type = "LEAD_TIME_INCREASE" -> {<<"supplier", x>> : x \in Given(p.supplier)}
    [] OTHER -> {}

Fact(rule, place, ctx, sku, pair, worth, tti, dims) ==
  LET sev == SeverityFor(rule.severity, ctx)
  IN  [key |-> <<rule.code>> \o place, rule |-> rule.code, type |-> rule.type, sev |-> sev, sku |-> sku, pair |-> pair,
       score |-> Score(worth, sev, tti), tti |-> tti, dims |-> dims]

PairFacts(rule, p) ==
  LET ctx == PairContext(p)
  IN  IF /\ Holds(rule.condition, ctx)
         /\ ~(rule.type = "STOCKOUT" /\ p.metrics.demand_daily <= 0 /\ p.orders = <<>>)
      THEN <<Fact(rule, <<p.sku, p.node>>, ctx, p.sku, <<p.sku, p.node>>,
                  IF rule.type \in DOMAIN p.worth THEN p.worth[rule.type] ELSE 0, TimeToImpact(p, rule.type),
                  PairDims(p, rule.type))>>
      ELSE <<>>

PartFacts(rule, p, ib) ==
  LET ctx == [kind |-> ib.kind, qty |-> ib.qty,
              overdue_days |-> IF ib.promised # Absent /\ ib.promised < 0 THEN -ib.promised ELSE 0,
              eta_slip_days |-> IF ib.promised # Absent THEN ib.eta - ib.promised ELSE 0]
  IN  IF ib.kind \in {"PO", "TO"} /\ Holds(rule.condition, ctx)
      THEN <<Fact(rule, <<ib.ref, p.sku, p.node>>, ctx, p.sku, <<p.sku, p.node>>, ib.worth,
                  IF p.days # Absent THEN p.days ELSE NotBelow0(ib.eta), Tokens(ib))>>
      ELSE <<>>

\* A subject is a supplier, a location, a lot, a reconciled balance or a feed.
Counted(x) ==
  CASE x.scope = "supplier" -> x.observations >= 5
    [] x.scope = "location" -> x.capacity > 0
    [] x.scope = "lot"      -> x.qty > 0
    [] x.scope = "sync"     -> x.ratio # Absent
    [] OTHER                -> TRUE

SubjectContext(x, day) ==
  CASE x.scope = "location" -> [utilization |-> (100 * x.onHand) \div x.capacity]
    [] x.scope = "lot"      -> [quality_status |-> IF x.quality = "REJECTED" THEN "BLOCKED" ELSE x.quality,
                                hold_days |-> day - x.received]
    [] x.scope = "sync"     -> [age_ratio |-> x.ratio]
    [] OTHER                -> x.ctx

SubjectFacts(rule, x, day) ==
  IF x.scope = rule.scope /\ Counted(x) /\ Holds(rule.condition, SubjectContext(x, day))
  THEN <<Fact(rule, x.place, SubjectContext(x, day), x.sku, Absent, x.worth, Absent,
              IF x.scope = "supplier" THEN {<<"supplier", x.place[1]>>} ELSE {})>>
  ELSE <<>>

FactsOf(rule, w, day) ==
  LET applicable == SelectSeq(w.pairs, LAMBDA p : rule.industries = {} \/ p.industry \in rule.industries)
  IN  CASE rule.scope = "pair"   -> FlattenSeq([k \in DOMAIN applicable |-> PairFacts(rule, applicable[k])])
        [] rule.scope = "supply" ->
             FlattenSeq([k \in DOMAIN applicable |->
               LET p == applicable[k]
               IN  FlattenSeq([n \in DOMAIN p.inbound |-> PartFacts(rule, p, p.inbound[n])])])
        [] OTHER -> FlattenSeq([n \in DOMAIN w.subjects |-> SubjectFacts(rule, w.subjects[n], day)])

Facts(w, disabled, day) ==
  LET enabled == SelectSeq(scn.rules, LAMBDA rule : rule.code \notin disabled)
  IN  FlattenSeq([n \in DOMAIN enabled |-> FactsOf(enabled[n], w, day)])

-----------------------------------------------------------------------------
(* Alerts. *)

RuleOf(code) == scn.rules[CHOOSE n \in DOMAIN scn.rules : scn.rules[n].code = code]

Suppressed(a, day) ==
  \/ \E m \in muted : /\ m.rule \in {"*", a.rule}
                      /\ m.sku \in {Absent, a.sku}
                      /\ m.until = Absent \/ m.until >= day
  \/ a.score < MinPriority /\ a.sev = "LOW"
  \/ RuleOf(a.rule).suppress > 0 /\ a.status = "Dismissed"   \* last seen just now, so always recently

Escalates(a, day) ==
  LET hours == RuleOf(a.rule).escalate
  IN  /\ a.status \in {"New", "Acknowledged"}
      /\ a.sev \in {"HIGH", "CRITICAL"}
      /\ hours > 0
      /\ 24 * (day - a.first) > hours

Judged(a, day) ==
  [a EXCEPT !.suppressed = Suppressed(a, day), !.escalated = @ \/ Escalates(a, day)]

NewAlert(f, day) ==
  f @@ [status |-> "New", suppressed |-> FALSE, escalated |-> FALSE, first |-> day, incident |-> 0]

\* An alert of the run's reading, refreshed by a fact of its key.
Refreshed(a, f, day) ==
  Judged(f @@ [a EXCEPT !.status = IF @ = "Resolved" THEN "New" ELSE @], day)

\* mutant: only alerts that nobody has taken up are resolved
ClearedIfNew(a) ==
  IF a.status = "New" THEN [a EXCEPT !.status = "Resolved"] ELSE a

Cleared(a) ==
  IF a.status \in {"New", "Acknowledged", "Investigating"} THEN [a EXCEPT !.status = "Resolved"] ELSE a

\* Of the alerts of one key the run knows the last; it leaves the others alone.
Worked(read, facts, day) ==
  [i \in DOMAIN read |->
     LET n == LastWith(facts, read[i].key)
     IN  CASE LastWith(read, read[i].key) # i -> read[i]
           [] n = 0 -> Cleared(read[i])
           [] OTHER -> Refreshed(read[i], facts[n], day)]

\* mutant: the whole row is written
MergedWhole(before, after, stored) == after

\* Only columns whose value the run changed are written.
Merged(before, after, stored) ==
  [c \in DOMAIN stored |-> IF after[c] # before[c] THEN after[c] ELSE stored[c]]

Detected(read, facts, day) ==
  LET new == SelectSeq(facts, LAMBDA f : LastWith(read, f.key) = 0)
      worked == Worked(read, facts, day)
  IN  [i \in DOMAIN alerts |-> IF i \in DOMAIN read THEN Merged(read[i], worked[i], alerts[i]) ELSE alerts[i]]
      \o [n \in DOMAIN new |-> Judged(NewAlert(new[n], day), day)]

-----------------------------------------------------------------------------
(* Incidents. *)

Visible(as) == {i \in DOMAIN as : as[i].status \in OpenStatuses \cup {"Executed"} /\ ~as[i].suppressed}

Near(a, b) ==
  a.tti = Absent \/ b.tti = Absent \/ (a.tti - b.tti <= Window /\ b.tti - a.tti <= Window)

Carriers(as, token) == {i \in Visible(as) : token \in as[i].dims}

\* mutant: carriers are compared with the one before them
LinksOfNeighbours(as) ==
  {<<i, j>> \in Visible(as) \X Visible(as) :
     /\ i < j /\ Near(as[i], as[j])
     /\ \E token \in as[i].dims \cap as[j].dims : ~\E k \in Carriers(as, token) : i < k /\ k < j}

\* Carriers of a token are compared with the first of them.
Links(as) ==
  UNION {LET first == Least(Carriers(as, token))
         IN  {<<first, j>> : j \in {j \in Carriers(as, token) \ {first} : Near(as[first], as[j])}} :
           token \in UNION {as[i].dims : i \in Visible(as)}}

Groups(as) ==
  LET Holding(parts, i) == CHOOSE part \in parts : i \in part
      join(link, parts) == LET A == Holding(parts, link[1]) B == Holding(parts, link[2])
                           IN  (parts \ {A, B}) \cup {A \cup B}
  IN  {g \in FoldSet(join, {{i} : i \in Visible(as)}, Links(as)) : Cardinality(g) >= 2}

DimPriority == <<"port", "shipment", "po", "supplier", "lane", "prod_order">>

\* The token that most of a group carry, of the first dimension that two of it share.
Primary(as, group) ==
  LET Count(t) == Cardinality({i \in group : t \in as[i].dims})
      shared == {t \in UNION {as[i].dims : i \in group} : Count(t) >= 2}
      rank == Least({n \in DOMAIN DimPriority : \E t \in shared : t[1] = DimPriority[n]})
      cands == {t \in shared : t[1] = DimPriority[rank]}
  IN  CHOOSE t \in cands : \A u \in cands : Count(u) < Count(t) \/ (Count(u) = Count(t) /\ u[2] <= t[2])

Highest(sevs) == CHOOSE sev \in sevs : \A other \in sevs : RankOf(other) <= RankOf(sev)

\* The alerts and the incidents after clustering: [alerts, incidents].
Clustered(as, stored) ==
  LET groups == SetToSortSeq(Groups(as), LAMBDA g, h : Least(g) < Least(h))
      keys == {Primary(as, g) : g \in Range(groups)}
      fill(state, g) ==
        LET key == Primary(as, g)
            k == IF LastWith(stored, key) = 0 THEN Len(state.incidents) + 1 ELSE LastWith(stored, key)
            filled == [key |-> key, sev |-> Highest({as[i].sev : i \in g}), count |-> Cardinality(g),
                       status |-> IF k \in DOMAIN stored THEN stored[k].status ELSE "New"]
        IN  [alerts |-> [i \in DOMAIN as |-> IF i \in g THEN [state.alerts[i] EXCEPT !.incident = k] ELSE state.alerts[i]],
             incidents |-> IF k \in DOMAIN stored THEN [state.incidents EXCEPT ![k] = filled]
                           ELSE Append(state.incidents, filled)]
      detached == [i \in DOMAIN as |-> IF i \in Visible(as) THEN [as[i] EXCEPT !.incident = 0] ELSE as[i]]
      ended == [k \in DOMAIN stored |->
                  IF k = LastWith(stored, stored[k].key) /\ stored[k].key \notin keys
                     /\ stored[k].status \notin {"Resolved", "Dismissed"}
                  THEN [stored[k] EXCEPT !.status = "Resolved"] ELSE stored[k]]
  IN  FoldLeft(fill, [alerts |-> detached, incidents |-> ended], groups)

-----------------------------------------------------------------------------
(* Recommendations. *)

KindOf == [CREATE_PO |-> "REPLENISH", EXPEDITE_PO |-> "EXPEDITE", TRANSFER_STOCK |-> "TRANSFER"]

PairOf(w, a) == {p \in Range(w.pairs) : <<p.sku, p.node>> = a.pair}

Advisable(as) ==
  {i \in DOMAIN as : as[i].status \in OpenStatuses \ {"Approved"} /\ ~as[i].suppressed}

\* mutant: the first alerts, whatever their scores
ForemostByAge(as, type) ==
  {i \in Advisable(as) : as[i].type = type /\ Cardinality({j \in Advisable(as) : j < i /\ as[j].type = type}) < TopN[type]}

\* The alerts of a type with the highest scores, at most TopN of them.
Foremost(as, type) ==
  LET ranked == SetToSortSeq({i \in Advisable(as) : as[i].type = type},
                             LAMBDA i, j : as[i].score > as[j].score \/ (as[i].score = as[j].score /\ i < j))
  IN  {ranked[n] : n \in {n \in DOMAIN ranked : n <= TopN[type]}}

Rec(i, kind) == [alert |-> i, kind |-> kind, status |-> "OPEN"]

StockoutKind(p) ==
  IF p.best = Absent THEN "ESCALATE" ELSE IF p.best \in DOMAIN KindOf THEN KindOf[p.best] ELSE "REPLENISH"

Advice(as, w) ==
  {Rec(i, StockoutKind(p)) : <<i, p>> \in
     {x \in Foremost(as, "STOCKOUT") \X Range(w.pairs) : x[2] \in PairOf(w, as[x[1]]) /\ x[2].best # "DO_NOTHING"}}
  \cup {Rec(i, "REVIEW_" \o as[i].type) : i \in
     {i \in Foremost(as, "OBSOLESCENCE") \cup Foremost(as, "EXPIRY") : PairOf(w, as[i]) # {}}}
  \cup {Rec(0, "TRANSFER") : t \in w.transfers}

-----------------------------------------------------------------------------
(* The job that runs detection. *)

Idle == [phase |-> "idle"]

Env(x) == left > 0 /\ left' = left - 1 /\ last' = "other" /\ x

\* jobs.submit: a row, and a worker of the pool, or the caller's own thread.
Submit(s) ==
  /\ job[s] \notin {"QUEUED", "RUNNING"} \/ s \in lost
  /\ Env(job' = [job EXCEPT ![s] = "QUEUED"])
  /\ lost' = lost \ {s}
  /\ UNCHANGED <<family, world, off, muted, now, alerts, incidents, recs, run>>

Start(s) ==
  /\ job[s] = "QUEUED" /\ s \notin lost
  /\ Cardinality({t \in Sessions : run[t] # Idle}) < Workers
  /\ job' = [job EXCEPT ![s] = "RUNNING"]
  /\ run' = [run EXCEPT ![s] = [phase |-> "started"]]
  /\ last' = "other"
  /\ UNCHANGED <<family, world, off, muted, now, alerts, incidents, recs, lost, left>>

DetectRead(s) ==
  /\ run[s].phase = "started"
  /\ run' = [run EXCEPT ![s] = [phase |-> "read", alerts |-> alerts, world |-> world, off |-> off, day |-> now]]
  /\ last' = s
  /\ UNCHANGED <<family, world, off, muted, now, alerts, incidents, recs, job, lost, left>>

Commits(s) ==
  /\ run[s].phase = "read"
  /\ run' = [run EXCEPT ![s] = [phase |-> "written"]]

DetectWrite(s) ==
  /\ Commits(s)
  /\ LET r == run[s]
         detected == Detected(r.alerts, Facts(scn.worlds[r.world], r.off, r.day), r.day)
         clustered == Clustered(detected, incidents)
     IN  /\ alerts' = clustered.alerts
         /\ incidents' = clustered.incidents
         /\ recs' = {rec \in recs : rec.status # "OPEN"} \cup Advice(clustered.alerts, scn.worlds[r.world])
  /\ last' = IF last = s THEN "fresh" ELSE "other"
  /\ UNCHANGED <<family, world, off, muted, now, job, lost, left>>

Finish(s) ==
  /\ run[s].phase = "written"
  /\ run' = [run EXCEPT ![s] = Idle]
  /\ job' = [job EXCEPT ![s] = "DONE"]
  /\ last' = "other"
  /\ UNCHANGED <<family, world, off, muted, now, alerts, incidents, recs, lost, left>>

\* mutant: the row of the job is not told of the exception
FailUntold(s) ==
  /\ scn.faults /\ run[s] # Idle
  /\ Env(run' = [run EXCEPT ![s] = Idle])
  /\ UNCHANGED <<family, world, off, muted, now, alerts, incidents, recs, job, lost>>

\* An exception: what the run has not committed is rolled back.
Fail(s) ==
  /\ scn.faults /\ run[s] # Idle
  /\ Env(job' = [job EXCEPT ![s] = "FAILED"])
  /\ run' = [run EXCEPT ![s] = Idle]
  /\ UNCHANGED <<family, world, off, muted, now, alerts, incidents, recs, lost>>

\* The process ends, its workers with it; the rows of their jobs stay.
Restart ==
  /\ scn.faults
  /\ Env(run' = [s \in Sessions |-> Idle])
  /\ lost' = {s \in Sessions : job[s] \in {"QUEUED", "RUNNING"}}
  /\ UNCHANGED <<family, world, off, muted, now, alerts, incidents, recs, job>>

-----------------------------------------------------------------------------
(* Planners, the settings, and what happens to stock and supply. *)

SetStatus(i, status) ==
  /\ alerts[i].status # status
  /\ Env(alerts' = [alerts EXCEPT ![i].status = status])
  /\ UNCHANGED <<family, world, off, muted, now, incidents, recs, job, run, lost>>

SetIncidentStatus(k, status, cascade) ==
  /\ Env(incidents' = [incidents EXCEPT ![k].status = status])
  /\ alerts' = [i \in DOMAIN alerts |->
                  IF cascade /\ alerts[i].incident = k /\ alerts[i].status \in OpenStatuses
                  THEN [alerts[i] EXCEPT !.status = status] ELSE alerts[i]]
  /\ UNCHANGED <<family, world, off, muted, now, recs, job, run, lost>>

\* The action made of a recommendation is executed.
Act(rec) ==
  /\ rec.status = "OPEN"
  /\ Env(recs' = (recs \ {rec}) \cup {[rec EXCEPT !.status = "ACTIONED"]})
  /\ alerts' = [i \in DOMAIN alerts |-> IF i = rec.alert /\ alerts[i].status \in OpenStatuses
                                        THEN [alerts[i] EXCEPT !.status = "Executed"] ELSE alerts[i]]
  /\ UNCHANGED <<family, world, off, muted, now, incidents, job, run, lost>>

\* ExpiryApproaching, an event of another system, raises an alert of its own.
ExpiryEvent(lot) ==
  /\ LastWith(alerts, <<"EVENT_EXPIRY", lot.place>>) = 0
  /\ Env(alerts' = Append(alerts,
       [key |-> <<"EVENT_EXPIRY", lot.place>>, rule |-> "EVENT_EXPIRY", type |-> "EXPIRY", sku |-> lot.sku, pair |-> Absent,
        sev |-> IF lot.days <= 30 THEN "HIGH" ELSE "MEDIUM", score |-> 0, tti |-> Absent, dims |-> {}, status |-> "New",
        suppressed |-> FALSE, escalated |-> FALSE, first |-> now, incident |-> 0]))
  /\ UNCHANGED <<family, world, off, muted, now, incidents, recs, job, run, lost>>

Change(w) ==
  /\ w # world
  /\ Env(world' = w)
  /\ UNCHANGED <<family, off, muted, now, alerts, incidents, recs, job, run, lost>>

ToggleRule(code) ==
  /\ Env(off' = IF code \in off THEN off \ {code} ELSE off \cup {code})
  /\ UNCHANGED <<family, world, muted, now, alerts, incidents, recs, job, run, lost>>

Mute(m) ==
  /\ m \notin muted
  /\ Env(muted' = muted \cup {m})
  /\ UNCHANGED <<family, world, off, now, alerts, incidents, recs, job, run, lost>>

Tick ==
  /\ Env(now' = now + 3)
  /\ UNCHANGED <<family, world, off, muted, alerts, incidents, recs, job, run, lost>>

Init ==
  /\ family \in DOMAIN Scenarios
  /\ world = 1
  /\ off = {} /\ muted = {} /\ now = 0
  /\ alerts = <<>> /\ incidents = <<>> /\ recs = {}
  /\ job = [s \in Sessions |-> "NONE"]
  /\ run = [s \in Sessions |-> Idle]
  /\ lost = {} /\ left = scn.events /\ last = "other"

Job(s) == Start(s) \/ DetectRead(s) \/ DetectWrite(s) \/ Finish(s)

Planner ==
  \/ \E i \in DOMAIN alerts, status \in scn.statuses : SetStatus(i, status)
  \/ \E k \in DOMAIN incidents, status \in scn.statuses, cascade \in BOOLEAN : SetIncidentStatus(k, status, cascade)
  \/ \E rec \in recs : Act(rec)

Surroundings ==
  \/ \E lot \in scn.lots : ExpiryEvent(lot)
  \/ \E w \in DOMAIN scn.worlds : Change(w)
  \/ \E code \in scn.toggled : ToggleRule(code)
  \/ \E m \in scn.mutes : Mute(m)
  \/ scn.ticks /\ Tick

Next ==
  \/ \E s \in scn.sessions : Submit(s)
  \/ \E s \in Sessions : Job(s) \/ Fail(s)
  \/ Restart
  \/ Planner
  \/ Surroundings

\* A thread that has work goes on with it, whatever it is that it writes.
Progress(s) == Start(s) \/ DetectRead(s) \/ Commits(s) \/ Finish(s)

Spec == Init /\ [][Next]_vars /\ \A s \in Sessions : WF_run(Progress(s))
=============================================================================
