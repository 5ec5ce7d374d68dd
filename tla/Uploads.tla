------------------------------ MODULE Uploads -------------------------------
(***************************************************************************)
(* Files of rows (app/services/ingestion_service.py): what parsing leaves, *)
(* the handler of each row, the savepoint of each row and of the file, and *)
(* the report.  A file is [entity, rows]; a row carries the number of its  *)
(* fields that cannot be parsed or are empty though required.              *)
(***************************************************************************)
EXTENDS Documents

Taken(res, t) == [res |-> res, t |-> t, warn |-> 0]

SourceOf(entity) ==
  CASE entity \in {"balances", "transactions"} -> "INVENTORY"
    [] entity = "external_balances" -> "WMS"
    [] entity = "forecast" -> "FORECAST"
    [] entity = "lead_times" -> "TMS"
    [] OTHER -> "ERP"

MasterEntities == {"items", "locations", "suppliers", "customers", "item_suppliers"}
AppendEntities == {"sales_orders", "lead_times", "external_balances"}
Entities == {"balances", "transactions", "demand", "forecast", "purchase_orders"}
              \cup MasterEntities \cup AppendEntities

Known(t, refs) == \A k \in refs : t.master[k] # Absent

(* A bucket has a database row once some posting touched it. *)
HasRowIn(log, b) == \E i \in DOMAIN log : b \in Debit(log[i]) \cup Credit(log[i])

-----------------------------------------------------------------------------
(* Rows.  r.units is the number of base units of the unit the row names,    *)
(* 0 when no conversion is registered.                                      *)

(* Set the balance of a bucket by posting the difference. *)
BalanceRow(t, r) ==
  LET b == <<r.loc, r.lot, r.state>>
      q == r.qty * r.units
      known == WithLot(t, r.lot)
      posted == IF HasRowIn(t.txns, b) THEN CountIn(known, r.loc, r.lot, r.state, q)
                ELSE PostIn(known, [Plain("RECEIPT", r.loc, r.lot, q) EXCEPT !.to = r.state])
  IN  IF r.qty < 0 \/ r.units = 0 THEN Refused
      ELSE IF q = t.balance[b] THEN Taken("skipped", known)
      ELSE IF posted = Refused THEN Refused
      ELSE Taken(IF HasRowIn(t.txns, b) THEN "updated" ELSE "created", posted)

(* A row whose id was posted before is skipped with a warning; the lot it   *)
(* names stays created.                                                     *)
TransactionRow(t, r) ==
  LET known == WithLot(t, r.lot)
      request == [Plain(r.type, r.loc, r.lot, r.qty * r.units)
                    EXCEPT !.toLoc = r.toLoc, !.id = IF r.txn = Absent THEN GeneratedId ELSE r.txn]
      again == r.txn # Absent /\ \E i \in DOMAIN t.txns : t.txns[i].id = r.txn
      posted == PostIn(known, request)
  IN  IF r.type \notin TxnTypes \/ r.qty < 0 \/ r.units = 0 THEN Refused
      ELSE IF again THEN [Taken("skipped", known) EXCEPT !.warn = 1]
      ELSE IF posted = Refused THEN Refused
      ELSE Taken("created", posted)

\* mutant: a row is added as the event handler does
DemandRowAppended(t, r) ==
  IF r.qty < 0 THEN Refused
  ELSE Taken("created", [t EXCEPT !.demand =
         Append(@, [loc |-> r.loc, period |-> r.period, gran |-> r.gran, qty |-> r.qty])])

(* The first row of the period is overwritten. *)
DemandUpload(t, r) ==
  LET same == {i \in DOMAIN t.demand : /\ t.demand[i].loc = r.loc /\ t.demand[i].period = r.period
                                       /\ t.demand[i].gran = r.gran}
  IN  IF r.qty < 0 THEN Refused
      ELSE IF same # {} THEN Taken("updated", [t EXCEPT !.demand[Min(same)].qty = r.qty])
      ELSE Taken("created", [t EXCEPT !.demand =
             Append(@, [loc |-> r.loc, period |-> r.period, gran |-> r.gran, qty |-> r.qty])])

ForecastUpload(t, r) ==
  IF r.kind \notin {"BASELINE", "CONSENSUS", "ADJUSTED"} THEN Refused
  ELSE Taken(IF <<r.loc, r.period, r.kind>> \in DOMAIN t.forecast THEN "updated" ELSE "created",
            SetForecast(t, r.loc, r.period, r.kind, r.qty))

(* The line of the item is overwritten or added; the status of the order    *)
(* and of the line are left as they are.                                    *)
PurchaseOrderRow(t, r) ==
  LET eta == IF r.eta # Absent THEN r.eta ELSE r.promised
      got == IF r.received # Absent THEN r.received ELSE 0
      line == [sku |-> r.sku, ordered |-> r.qty, received |-> got, transit |-> 0,
               status |-> "ACTIVE", eta |-> eta]
      old == t.po[r.po]
      mine == {i \in DOMAIN old.lines : old.lines[i].sku = r.sku}
      edit(ln) == [ln EXCEPT !.ordered = r.qty, !.eta = IF r.eta # Absent THEN r.eta ELSE @,
                             !.received = IF r.received # Absent THEN r.received ELSE @]
      lines == IF mine # {} THEN [old.lines EXCEPT ![Min(mine)] = edit(@)]
               ELSE Append(old.lines, line)
  IN  IF r.sku \notin Skus \/ ~Known(t, {r.supplier}) \/ r.qty <= 0 THEN Refused
      ELSE IF r.eta # Absent /\ r.eta + 3650 < Today THEN Refused
      ELSE IF old = Absent
           THEN Taken("created", [t EXCEPT !.po[r.po] =
                  NewOrder(r.supplier, r.loc, r.sku, r.qty, got, r.promised, eta)])
      ELSE Taken("updated", [t EXCEPT !.po[r.po].lines = lines])

(* Master data: columns that are given overwrite, the others stay.          *)
MasterRow(t, r) ==
  LET old == t.master[r.key]
  IN  IF ~r.valid \/ ~Known(t, r.refs) THEN Refused
      ELSE IF old = Absent THEN Taken("created", [t EXCEPT !.master[r.key] = r.vals])
      ELSE Taken("updated", [t EXCEPT !.master[r.key] =
             [c \in Columns |-> IF r.vals[c] # Absent THEN r.vals[c] ELSE old[c]]])

(* Sales order lines, lead time observations and external balances are      *)
(* appended, whatever is there.                                             *)
AppendRow(t, entity, r) ==
  IF ~r.valid \/ ~Known(t, r.refs) THEN Refused
  ELSE Taken("created", [t EXCEPT !.loads = Append(@, <<entity, r.refs>>)])

IngestRow(t, entity, r) ==
  CASE entity = "balances"        -> BalanceRow(t, r)
    [] entity = "transactions"    -> TransactionRow(t, r)
    [] entity = "demand"          -> DemandUpload(t, r)
    [] entity = "forecast"        -> ForecastUpload(t, r)
    [] entity = "purchase_orders" -> PurchaseOrderRow(t, r)
    [] entity \in MasterEntities  -> MasterRow(t, r)
    [] entity \in AppendEntities  -> AppendRow(t, entity, r)

-----------------------------------------------------------------------------
(* The file *)

(* One row in its savepoint: a row that raises leaves the tables as they    *)
(* were and an error in the report.  A row with a bad field is not handled. *)
Step(acc, r) ==
  LET out == IngestRow(acc.t, acc.entity, r)
  IN  IF r.bad > 0 THEN acc
      ELSE IF out = Refused
      THEN [acc EXCEPT !.errors = @ + 1, !.errorRows = @ + 1]
      ELSE [acc EXCEPT !.t = out.t, !.warnings = @ + out.warn,
                       !.created = IF out.res = "created" THEN @ + 1 ELSE @,
                       !.updated = IF out.res = "updated" THEN @ + 1 ELSE @,
                       !.skipped = IF out.res = "skipped" THEN @ + 1 ELSE @]

(* parse_rows(): a row with a bad field is reported once for each such      *)
(* field.                                                                   *)
AddBad(n, r) == n + r.bad
BadFields(rows) == FoldLeft(AddBad, 0, rows)

Parsed(t, file) ==
  [t |-> t, entity |-> file.entity, created |-> 0, updated |-> 0, skipped |-> 0, warnings |-> 0,
   errors |-> BadFields(file.rows),
   errorRows |-> Len(SelectSeq(file.rows, LAMBDA r : r.bad > 0))]

Ingest(t, file) == FoldLeft(Step, Parsed(t, file), file.rows)
=============================================================================
