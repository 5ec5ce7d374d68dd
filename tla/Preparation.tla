----------------------------- MODULE Preparation -----------------------------
(***************************************************************************)
(* What the snapshot prepares for the engine (snapshot.py): demand history *)
(* in whole weeks, the forecast in force, the source of an item and the    *)
(* lead times observed there, how fresh the data is, and the segments; the *)
(* policies in force and the forecasts that are sent to the tower.         *)
(* Weeks are counted from the current one, 0; days from today, its first.  *)
(***************************************************************************)
EXTENDS Statistics

WeekOfDay(day) == day \div 7

\* The weeks before this one, from the first with a row (a year back at most); a week without rows is 0.
History(rows) ==
  LET past == SelectSeq(rows, LAMBDA r : WeekOfDay(r.day) < 0)
      first == Larger(Least({WeekOfDay(past[n].day) : n \in DOMAIN past}), -52)
      of(w) == Total(SelectSeq(past, LAMBDA r : WeekOfDay(r.day) = w), LAMBDA r : r.qty)
  IN  IF past = <<>> THEN <<>> ELSE [n \in 1 .. -first |-> of(first + n - 1)]

\* Days since the end of the last period with demand, or since its last week began.
NoDemandFor(rows) ==
  LET past == SelectSeq(rows, LAMBDA r : WeekOfDay(r.day) < 0)
      some == SelectSeq(past, LAMBDA r : r.qty > 0)
      end(r) == r.day + (IF r.weekly THEN 6 ELSE 0)
  IN  CASE past = <<>> -> Absent
        [] some # <<>> -> NotBelow0(-Most({end(some[n]) : n \in DOMAIN some}))
        [] OTHER -> -7 * Most({WeekOfDay(past[n].day) : n \in DOMAIN past})

\* mutant: the last forecast that was entered is in force, whatever its type
InForceLast(rows, week, precedence) ==
  LET of == SelectSeq(rows, LAMBDA r : r.week = week) IN IF of = <<>> THEN Absent ELSE of[Len(of)].qty

\* The forecast of a week of the type that comes first in precedence, the first entered of that type.
InForce(rows, week, precedence) ==
  LET rank(r) == LET at == {n \in DOMAIN precedence : precedence[n] = r.type} IN IF at = {} THEN 99 ELSE Least(at)
      of == SelectSeq(rows, LAMBDA r : r.week = week)
      best == {n \in DOMAIN of : \A m \in DOMAIN of : rank(of[n]) <= rank(of[m])}
  IN  IF of = <<>> THEN Absent ELSE of[Least(best)].qty

\* This week and later ones: a week without a forecast repeats the week before, the first ones the first there is.
ForecastWeeks(rows, precedence, weeks) ==
  LET ahead == {rows[n].week : n \in {n \in DOMAIN rows : rows[n].week >= 0}}
      value[w \in 0 .. weeks - 1] ==
        LET now == InForce(rows, w, precedence)
        IN  IF now # Absent THEN now ELSE IF w = 0 THEN InForce(rows, Least(ahead), precedence) ELSE value[w - 1]
  IN  IF ahead = {} THEN <<>> ELSE [n \in 1 .. weeks |-> value[n - 1]]

\* Forecasts of past weeks beside what was sold in them.
ForecastPairs(rows, history, precedence) ==
  LET first == -Len(history)
      known == SetToSortSeq({w \in first .. -1 : InForce(rows, w, precedence) # Absent}, <)
      pairs == [n \in DOMAIN known |-> [forecast |-> InForce(rows, known[n], precedence), actual |-> history[known[n] - first + 1]]]
  IN  SubSeq(pairs, Larger(1, Len(pairs) - 25), Len(pairs))

-----------------------------------------------------------------------------
(* Sources.  A row of suppliers is [supplier, primary, lead, moq, multiple];
   an assignment of the location is [from, supplier, lead]; an observation
   is [supplier, item, dest, origin, days].                                *)

Matching(obs, test(_)) == LET found == SelectSeq(obs, test) IN [n \in DOMAIN found |-> found[n].days]

\* The most specific observations that are enough, else the most specific there are.
ObservedFor(obs, supplier, item, loc, minObs) ==
  LET exact == Matching(obs, LAMBDA o : o.supplier = supplier /\ o.item = item /\ o.dest = loc)
      ofItem == Matching(obs, LAMBDA o : o.supplier = supplier /\ o.item = item)
      all == Matching(obs, LAMBDA o : o.supplier = supplier)
      tried == <<exact, ofItem, all>>
      enough == {n \in 1..3 : tried[n] # <<>> /\ (Len(tried[n]) >= minObs \/ n = 3)}
  IN  IF enough # {} THEN tried[Least(enough)] ELSE IF exact # <<>> THEN exact ELSE ofItem

Source(suppliers, assigned, item, loc, obs, minObs) ==
  LET primaries == {n \in DOMAIN suppliers : suppliers[n].primary}
      primary == IF suppliers = <<>> THEN Absent ELSE IF primaries # {} THEN Least(primaries) ELSE 1
      supplier == CASE assigned # Absent /\ assigned.supplier # Absent -> assigned.supplier
                    [] primary # Absent -> suppliers[primary].supplier
                    [] OTHER -> Absent
      rels == {n \in DOMAIN suppliers : suppliers[n].supplier = supplier}
      rel == IF rels # {} THEN Least(rels) ELSE primary
      row == suppliers[rel]
      lead == IF assigned # Absent /\ Or(assigned.lead, 0) # 0 THEN assigned.lead ELSE row.lead
  IN  IF assigned # Absent /\ assigned.from # Absent
      THEN [source |-> assigned.from, supplier |-> Absent, staticLt |-> assigned.lead, moq |-> item.moq, multiple |-> item.multiple,
            observed |-> Matching(obs, LAMBDA o : o.origin = assigned.from /\ o.dest = loc)]
      ELSE [source |-> Absent, supplier |-> supplier, observed |-> ObservedFor(obs, supplier, item.sku, loc, minObs)]
           @@ (IF rel = Absent THEN [staticLt |-> Absent, moq |-> Absent, multiple |-> Absent]
               ELSE [staticLt |-> lead, moq |-> Or(row.moq, item.moq), multiple |-> Or(row.multiple, item.multiple)])

\* Feeds are [synced (hours ago, Absent if never), every]: the mean of their scores, in hundredths.
Freshness(feeds, factor) ==
  LET expected(f) == Or(f.every, 24) * factor
      score(f) == CASE f.synced = Absent -> 0
                    [] f.synced <= expected(f) -> 100
                    [] OTHER -> NotBelow0(100 - (100 * (f.synced - expected(f))) \div (2 * expected(f)))
  IN  IF feeds = <<>> THEN 100 ELSE Total(feeds, score) \div Len(feeds)

\* Segments of items, each with its pairs [history, onHand, idle] and its cost: added up over its locations.
Segments(items, th) ==
  LET pairs(i) == items[i].pairs
      annual(i) == Total(pairs(i), LAMBDA p : LET h == SubSeq(p.history, Larger(1, Len(p.history) - 51), Len(p.history))
                                              IN  (52 * Total(h, Value)) \div Larger(Len(h), 1))
      weeks(i) == Most({0} \cup {Len(pairs(i)[n].history) : n \in DOMAIN pairs(i)})
      series(i) == [w \in 1 .. weeks(i) |-> Total(pairs(i), LAMBDA p : LET k == w - weeks(i) + Len(p.history)
                                                                       IN  IF k >= 1 THEN p.history[k] ELSE 0)]
      stock(i) == Total(pairs(i), LAMBDA p : p.onHand)
      idle(i) == UNION {Given(pairs(i)[n].idle) : n \in DOMAIN pairs(i)}
      turns(i) == IF stock(i) > 0 THEN annual(i) \div stock(i) ELSE IF annual(i) > 0 THEN 99 ELSE 0
      abc == Abc([i \in DOMAIN items |-> [demand |-> annual(i), cost |-> items[i].cost]], th)
      hml == Hml([i \in DOMAIN items |-> items[i].cost], th)
  IN  [i \in DOMAIN items |-> [abc |-> abc[i], xyz |-> Xyz(series(i), th), hml |-> hml[i], turns |-> turns(i),
                              fsn |-> Fsn(turns(i), IF idle(i) = {} THEN Absent ELSE Least(idle(i)), th)]]

-----------------------------------------------------------------------------
(* Which policies apply to an item at a location, and what they come to     *)
(* (rules/policies.py).  A policy is [id, level, key, active, params], in   *)
(* the order in which the table is read; a parameter that is not set is     *)
(* Absent.                                                                  *)

Levels == <<"GLOBAL", "INDUSTRY", "REGION", "NODE", "CATEGORY", "SKU", "SKU_LOCATION">>
LevelRank(level) == CHOOSE n \in DOMAIN Levels : Levels[n] = level

\* The keys that a policy of each level may have, in the order in which the index tries them.
ScopeKeys(item, loc) ==
  LET some(keys) == SelectSeq(keys, LAMBDA k : k # Absent)
  IN  [GLOBAL |-> <<"*">>, INDUSTRY |-> some(<<item.industry, loc.industry>>), REGION |-> some(<<loc.region>>),
       NODE |-> some(<<loc.code>>), CATEGORY |-> some(<<item.category, item.family>>), SKU |-> some(<<item.sku>>),
       SKU_LOCATION |-> <<<<item.sku, loc.code>>>>]

\* A key of a policy is compared with the keys of its own level only.
Applies(policy, item, loc) ==
  policy.active /\ \E n \in DOMAIN ScopeKeys(item, loc)[policy.level] : ScopeKeys(item, loc)[policy.level][n] = policy.key

\* Numbers of the policies that pass the test, in an order.
Numbers(policies, test(_), before(_, _)) == SortSeq(SelectSeq([n \in DOMAIN policies |-> n], test), before)

\* mutant: policies of one level apply in the order in which they are read
ApplicableAsRead(policies, item, loc) ==
  LET rank(n) == LevelRank(policies[n].level)
  IN  Numbers(policies, LAMBDA n : Applies(policies[n], item, loc),
              LAMBDA m, n : rank(m) < rank(n) \/ (rank(m) = rank(n) /\ m < n))

\* mutant: policies apply in the order in which they were entered
ApplicableUnranked(policies, item, loc) ==
  Numbers(policies, LAMBDA n : Applies(policies[n], item, loc), LAMBDA m, n : policies[m].id < policies[n].id)

\* From the broadest level to the most specific, and by their ids within a level.
Applicable(policies, item, loc) ==
  LET rank(n) == LevelRank(policies[n].level)
  IN  Numbers(policies, LAMBDA n : Applies(policies[n], item, loc),
              LAMBDA m, n : rank(m) < rank(n) \/ (rank(m) = rank(n) /\ policies[m].id < policies[n].id))

\* Later ones override earlier ones, key by key.
Merged(policies, order) ==
  FoldLeft(LAMBDA params, n : [k \in DOMAIN params |-> Else(policies[n].params[k], params[k])],
           [k \in UNION {DOMAIN policies[n].params : n \in DOMAIN policies} |-> Absent], order)

Resolve(policies, item, loc) == Merged(policies, Applicable(policies, item, loc))

\* The index of the snapshot looks policies up level by level, within a level key by key, within a key by id.
ResolveIndexed(policies, item, loc) ==
  LET keys == ScopeKeys(item, loc)
      at(level, k) == Numbers(policies, LAMBDA n : policies[n].active /\ policies[n].level = level /\ policies[n].key = k,
                              LAMBDA m, n : policies[m].id < policies[n].id)
      ofLevel(level) == FlattenSeq([n \in DOMAIN keys[level] |-> at(level, keys[level][n])])
  IN  Merged(policies, FlattenSeq([n \in DOMAIN Levels |-> ofLevel(Levels[n])]))

-----------------------------------------------------------------------------
(* Forecasts that are sent to the tower (ingest_fit_payload()).  A message
   is [source, type, recs], a record [pair, day, qty], Absent where it is
   unknown or unreadable; the table maps <<pair, week, type>> to a quantity. *)

Sources == {"FIT", "ERP", "UPLOAD", "MANUAL", "EVENT"}
ForecastTypes == {"BASELINE", "CONSENSUS", "ADJUSTED"}

\* A record that is Absent is not an object at all.
Acceptable(r) == r # Absent /\ r.pair # Absent /\ r.qty # Absent /\ r.qty >= 0 /\ r.day # Absent

\* mutant: the row of another type of the same week is overwritten
TypelessKey(r, type) == <<r.pair, WeekOfDay(r.day), "BASELINE">>

KeyOf(r, type) == <<r.pair, WeekOfDay(r.day), type>>

\* An object that cannot be read is counted and skipped; a later record of a week replaces the earlier one.
Ingested(s, r, type) ==
  IF ~Acceptable(r) THEN [s EXCEPT !.rejected = @ + 1]
  ELSE LET known == KeyOf(r, type) \in DOMAIN s.table
       IN  [s EXCEPT !.table = (KeyOf(r, type) :> r.qty) @@ @,
                     !.created = @ + (IF known THEN 0 ELSE 1), !.updated = @ + (IF known THEN 1 ELSE 0)]

Untouched(table) == [table |-> table, created |-> 0, updated |-> 0, rejected |-> 0, refused |-> FALSE]

InContract(m) == m.source \in Sources /\ m.type \in ForecastTypes /\ m.recs # <<>>

\* Record by record, up to one that is not an object, where the handler fails.
Worked(table, m) ==
  FoldLeft(LAMBDA s, r : IF s.refused \/ r = Absent THEN [s EXCEPT !.refused = TRUE] ELSE Ingested(s, r, m.type),
           Untouched(table), m.recs)

\* mutant: what was written before the handler failed is kept
IngestFitPayloadKept(table, m) ==
  IF InContract(m) THEN Worked(table, m) ELSE [Untouched(table) EXCEPT !.refused = TRUE]

\* A message that breaks the contract, or on which the handler fails, is rolled back and answered with an error.
IngestFitPayload(table, m) ==
  IF InContract(m) /\ ~Worked(table, m).refused THEN Worked(table, m) ELSE [Untouched(table) EXCEPT !.refused = TRUE]
=============================================================================
