----------------------------- MODULE Reconcile -------------------------------
(***************************************************************************)
(* Conversion between units of measure (utils/uom.py), and comparison of   *)
(* the stock with what other systems report                                *)
(* (reconciliation_service.py).  A record is [system, sku, loc, qty, uom,  *)
(* synced]; b is the book: [skus, locs, onHand, uom, factors, moves], a    *)
(* movement [sku, loc, at, delta]; rules are [checks, pct, abs].  Records  *)
(* of one key are kept in the order of their arrival.                      *)
(***************************************************************************)
EXTENDS Quantities

CONSTANTS Dimensions,  \* dimension |-> [unit |-> factor to its base unit]
          PackUnits    \* units without a factor of their own

KnownUnits == PackUnits \cup UNION {DOMAIN Dimensions[dim] : dim \in DOMAIN Dimensions}
DimensionOf(u) == LET dims == {dim \in DOMAIN Dimensions : u \in DOMAIN Dimensions[dim]}
                  IN  IF dims = {} THEN Absent ELSE CHOOSE dim \in dims : TRUE

Times(f, g) == <<f[1] * g[1], f[2] * g[2]>>
Over(f, g) == <<f[1] * g[2], f[2] * g[1]>>
Same(f, g) == f[1] * g[2] = g[1] * f[2]

\* mutant: the way back uses the factor of the way there
EdgesOneWay(factors) ==
  UNION {{<<f.a, f.b, f.f>>, <<f.b, f.a, f.f>>} : f \in {f \in factors : f.f[1] > 0}}
  \cup UNION {{<<a, b, Over(Dimensions[dim][a], Dimensions[dim][b])>> :
                 a \in DOMAIN Dimensions[dim], b \in DOMAIN Dimensions[dim]} : dim \in DOMAIN Dimensions}

\* <<from, to, factor>>: those of the item in both directions, and every pair of a dimension.
Edges(factors) ==
  UNION {{<<f.a, f.b, f.f>>, <<f.b, f.a, <<f.f[2], f.f[1]>>>>} : f \in {f \in factors : f.f[1] > 0}}
  \cup UNION {{<<a, b, Over(Dimensions[dim][a], Dimensions[dim][b])>> :
                 a \in DOMAIN Dimensions[dim], b \in DOMAIN Dimensions[dim]} : dim \in DOMAIN Dimensions}

\* Units reached after a number of rounds, each with the factor of the first chain found.
Reached(from, factors) ==
  LET edges == Edges(factors)
      round(seen) == {u \in KnownUnits \ DOMAIN seen : \E e \in edges : e[1] \in DOMAIN seen /\ e[2] = u}
      via(seen, u) == CHOOSE e \in edges : e[1] \in DOMAIN seen /\ e[2] = u
      next(seen) == [u \in DOMAIN seen \cup round(seen) |->
                       IF u \in DOMAIN seen THEN seen[u] ELSE Times(seen[via(seen, u)[1]], via(seen, u)[3])]
      after[n \in 0 .. Cardinality(KnownUnits)] == IF n = 0 THEN (from :> <<1, 1>>) ELSE next(after[n - 1])
  IN  after[Cardinality(KnownUnits)]

\* The factor, or why there is none.
Convert(from, to, factors) ==
  CASE from = to -> [factor |-> <<1, 1>>, error |-> "none"]
    [] {from, to} \ KnownUnits # {} -> [factor |-> <<0, 1>>, error |-> "unknown"]
    [] OTHER ->
         LET reached == Reached(from, factors)
             apart == DimensionOf(from) # Absent /\ DimensionOf(to) # Absent /\ DimensionOf(from) # DimensionOf(to)
         IN  IF to \in DOMAIN reached THEN [factor |-> reached[to], error |-> "none"]
             ELSE [factor |-> <<0, 1>>, error |-> IF apart THEN "dimension" ELSE "none registered"]

-----------------------------------------------------------------------------
(* Comparison with other systems. *)

Bad == {"VARIANCE", "MISSING_IN_ICT", "MISSING_IN_SOURCE", "DUPLICATE", "NEGATIVE", "UNIT_MISMATCH", "LOCATION_MISMATCH"}
Abs(x) == Larger(x, -x)
OnHand(b, sku, loc) == IF <<sku, loc>> \in DOMAIN b.onHand THEN b.onHand[<<sku, loc>>] ELSE 0

\* mutant: movements at the time of the source's own snapshot count as later
NetFrom(b, sku, loc, since) ==
  Total(SelectSeq(b.moves, LAMBDA m : m.sku = sku /\ m.loc = loc /\ m.at >= since), LAMBDA m : m.delta)

NetSince(b, sku, loc, since) ==
  Total(SelectSeq(b.moves, LAMBDA m : m.sku = sku /\ m.loc = loc /\ m.at > since), LAMBDA m : m.delta)

Tolerated(gap, book, rules) == Abs(gap) <= rules.abs \/ 100 * Abs(gap) <= rules.pct * Larger(Abs(book), 1)

\* Compared with what the book holds, and with what it held when the source was read.
Variance(qty, e, b, rules) ==
  LET book == OnHand(b, e.sku, e.loc)
      then == book - NetSince(b, e.sku, e.loc, e.synced)
  IN  CASE qty < 0 /\ "negative" \in rules.checks -> "NEGATIVE"
        [] qty = book -> "MATCH"
        [] Tolerated(qty - book, book, rules) -> "WITHIN_TOLERANCE"
        [] /\ "timing" \in rules.checks /\ e.synced # Absent
           /\ Tolerated(then - qty, book, rules) -> "TIMING"
        [] OTHER -> "VARIANCE"

\* The row of the records of one key: the last of them counts.
RowOf(recs, b, rules) ==
  LET e == recs[Len(recs)]
      unit == Convert(e.uom, b.uom[e.sku], b.factors)
      convert == "unit" \in rules.checks /\ e.uom # b.uom[e.sku]
      qty == IF convert THEN (e.qty * unit.factor[1]) \div unit.factor[2] ELSE e.qty
      status == Variance(qty, e, b, rules)
      row(s) == [system |-> e.system, sku |-> e.sku, loc |-> e.loc, status |-> s]
  IN  CASE e.sku \notin b.skus -> IF "missing" \in rules.checks THEN {row("MISSING_IN_ICT")}
                                  ELSE IF e.loc \notin b.locs /\ "location" \in rules.checks THEN {row("LOCATION_MISMATCH")} ELSE {}
        [] e.loc \notin b.locs -> IF "location" \in rules.checks THEN {row("LOCATION_MISMATCH")} ELSE {}
        [] convert /\ unit.error # "none" -> {row("UNIT_MISMATCH")}
        [] Len(recs) > 1 /\ "duplicate" \in rules.checks /\ status \in {"MATCH", "WITHIN_TOLERANCE"} -> {row("DUPLICATE")}
        [] OTHER -> {row(status)}

\* Stock that a system does not report, where it reports the location.
Unreported(ext, rows, b) ==
  LET systems == {ext[n].system : n \in DOMAIN ext} \ {"PHYSICAL"}
      covers(s) == {ext[n].loc : n \in {n \in DOMAIN ext : ext[n].system = s}} \cap b.locs
      kept(s, k) == \E r \in rows : r.system = s /\ r.sku = k[1] /\ r.loc = k[2]
  IN  {[system |-> s, sku |-> k[1], loc |-> k[2], status |-> "MISSING_IN_SOURCE"] :
         <<s, k>> \in {x \in systems \X DOMAIN b.onHand : x[2][2] \in covers(x[1]) /\ b.onHand[x[2]] > 0 /\ ~kept(x[1], x[2])}}

Reconciled(ext, b, rules) ==
  LET keys == {<<ext[n].system, ext[n].sku, ext[n].loc>> : n \in DOMAIN ext}
      rows == UNION {RowOf(SelectSeq(ext, LAMBDA e : <<e.system, e.sku, e.loc>> = k), b, rules) : k \in keys}
  IN  rows \cup (IF "missing" \in rules.checks THEN Unreported(ext, rows, b) ELSE {})

Count(rows, status) == Cardinality({r \in rows : r.status \in status})
Summary(rows) == [rate |-> (100 * Count(rows, {"MATCH", "WITHIN_TOLERANCE"})) \div Larger(Cardinality(rows), 1),
                  bad |-> [s \in {r.system : r \in rows} |-> Count({r \in rows : r.system = s}, Bad)]]

\* How old each feed is; a feed that was never read, or is older than expected, is named as such.
Latency(feeds, now) ==
  [n \in DOMAIN feeds |-> CASE feeds[n].synced = Absent -> "NEVER"
                            [] feeds[n].every # Absent /\ feeds[n].every > 0 /\ now - feeds[n].synced > feeds[n].every -> "STALE"
                            [] OTHER -> "FRESH"]
=============================================================================
