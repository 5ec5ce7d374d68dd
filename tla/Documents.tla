----------------------------- MODULE Documents ------------------------------
(***************************************************************************)
(* The documents that travel with the stock of one item: purchase orders,  *)
(* shipments, transfer orders, demand and forecast rows, master data       *)
(* (app/models), and the handlers of app/services/event_service.py that    *)
(* post to the ledger and change them.  All tables a request can change    *)
(* are one record, so that a savepoint is: drop the record.                *)
(*                                                                         *)
(* The ledger of one item is kept.  Order lines of an item other than Own  *)
(* are kept too; its ledger is not: a receipt of an item that is not       *)
(* lot-tracked is never refused.                                           *)
(***************************************************************************)
EXTENDS Ledger, SequencesExt

CONSTANTS
  Own,         \* the sku whose ledger is kept
  Skus,        \* the skus of the master data, Own among them
  PoNumbers, ShipmentNos, TransferNos,
  MasterKeys,  \* pairs <<table, key>> of master data
  MasterRefs,  \* the rows of master data that exist from the start
  Columns,     \* optional columns of a row of master data
  Sources,     \* the rows of sync_status
  Absent,      \* no such row; a field that is not given; NULL
  Today

(* The columns of the tables the handlers read or write. *)
OrderLine == [sku: Skus, ordered: Int, received: Int, transit: Int,
              status: {"ACTIVE", "RECEIVED"}, eta: Nat \cup {Absent}]
PurchaseOrder == [supplier: MasterKeys, dest: Locations, status: {"OPEN", "PARTIAL", "RECEIVED"},
                  promised: Nat \cup {Absent}, eta: Nat \cup {Absent}, lines: Seq(OrderLine)]
Shipment == [po: PoNumbers \cup {Absent}, status: {"IN_TRANSIT", "DELAYED", "DELIVERED"},
             eta: Nat \cup {Absent}, promised: Nat \cup {Absent}, delay: Int,
             lines: Seq([sku: Skus, qty: Int])]
TransferOrder == [from: Locations, to: Locations, qty: Int, received: Int,
                  eta: Nat, status: {"OPEN", "RECEIVED"}]
DemandRow == [loc: Locations, period: Nat, gran: {"W", "D", "M"}, qty: Int]
ForecastKey == Locations \X Nat \X {"BASELINE", "CONSENSUS", "ADJUSTED"}

ASSUME DocumentsAssumption ==
  /\ Own \in Skus
  /\ MasterRefs \subseteq MasterKeys
  /\ Today \in Nat
  /\ Absent \notin PoNumbers /\ Absent \notin PurchaseOrder /\ Absent \notin TransferOrder

(* There are no tables after a handler that raises: its savepoint is gone.  *)
Refused == [raised |-> TRUE]

NoDocuments ==
  [lots      |-> {},                                  \* lots that have a row
   po        |-> [n \in PoNumbers |-> Absent],
   ships     |-> [n \in ShipmentNos |-> Absent],
   transfers |-> [n \in TransferNos |-> Absent],
   demand    |-> <<>>,
   forecast  |-> <<>>,                                \* a function of forecast keys
   expiry    |-> [n \in 1..NLots |-> Absent],         \* EVENT_EXPIRY alerts by lot
   master    |-> [k \in MasterKeys |-> IF k \in MasterRefs THEN [c \in Columns |-> Absent]
                                       ELSE Absent],
   loads     |-> <<>>,                                \* rows of tables uploads only append to
   sync      |-> [s \in Sources |-> 0]]               \* SyncStatus.records

DocumentsType(t) ==
  /\ t.lots \subseteq 1..NLots
  /\ \A n \in PoNumbers : t.po[n] # Absent =>
       t.po[n] \in PurchaseOrder
  /\ \A n \in ShipmentNos : t.ships[n] # Absent => t.ships[n] \in Shipment
  /\ \A n \in TransferNos : t.transfers[n] # Absent => t.transfers[n] \in TransferOrder
  /\ t.demand \in Seq(DemandRow)
  /\ DOMAIN t.forecast \subseteq ForecastKey

-----------------------------------------------------------------------------
(* Posting from a handler *)

ResolveIn(q, r) ==
  IF /\ r.type \in {"RECEIPT", "PROD_COMPLETION"} /\ r.lot # 0 /\ r.to = NoState
     /\ q[r.lot] # "RELEASED"
  THEN [r EXCEPT !.to = IF q[r.lot] = "QUARANTINE" THEN "QUARANTINED" ELSE "BLOCKED"]
  ELSE r

(* The tables after ledger.post(), or Refused when it raises. *)
PostIn(t, request) ==
  LET r == ResolveIn(t.quality, request)
  IN  IF Accepts(t.balance, t.txns, r)
      THEN [t EXCEPT !.balance = Apply(@, r), !.txns = Append(@, RowOf(t.balance, r, 0))]
      ELSE Refused

(* cycle_count() of a bucket; an equal count posts nothing. *)
CountIn(t, l, lot, state, counted) ==
  LET system == t.balance[<<l, lot, state>>]
  IN  IF counted = system THEN t
      ELSE PostIn(t, [Plain("CYCLE_COUNT", l, lot,
                            IF counted > system THEN counted - system ELSE system - counted)
                        EXCEPT !.dir = IF counted > system THEN "IN" ELSE "OUT",
                               !.from = state, !.to = state])

(* _lot(): a lot nobody knows is created, released. *)
WithLot(t, lot) == IF lot = 0 THEN t ELSE [t EXCEPT !.lots = @ \cup {lot}]

-----------------------------------------------------------------------------
(* The handlers: the tables after the event m with the ledger id txn, or    *)
(* Refused when the handler raises.                                         *)

ReceiveLine(ln, q) ==
  [ln EXCEPT !.received = @ + q,
             !.transit = IF @ > q THEN @ - q ELSE 0,
             !.status = IF ln.received + q >= ln.ordered THEN "RECEIVED" ELSE @]

\* mutant: one complete line completes the order
ReceivePoByOneLine(order, sku, q) ==
  LET lines == [i \in DOMAIN order.lines |->
                  IF order.lines[i].sku = sku THEN ReceiveLine(order.lines[i], q) ELSE order.lines[i]]
  IN  [order EXCEPT !.lines = lines,
         !.status = IF \E i \in DOMAIN lines : lines[i].received >= lines[i].ordered
                    THEN "RECEIVED" ELSE "PARTIAL"]

ReceivePo(order, sku, q) ==
  LET lines == [i \in DOMAIN order.lines |->
                  IF order.lines[i].sku = sku THEN ReceiveLine(order.lines[i], q) ELSE order.lines[i]]
  IN  [order EXCEPT !.lines = lines,
         !.status = IF \A i \in DOMAIN lines : lines[i].received >= lines[i].ordered
                    THEN "RECEIVED" ELSE "PARTIAL"]

OnReceived(t, m, txn) ==
  LET posted == IF m.sku # Own THEN t
                ELSE PostIn(WithLot(t, m.lot), [Plain("RECEIPT", m.loc, m.lot, m.qty) EXCEPT !.id = txn])
  IN  IF m.sku \notin Skus \/ posted = Refused THEN Refused
      ELSE IF m.po = Absent THEN posted
      ELSE IF posted.po[m.po] = Absent THEN posted
      ELSE [posted EXCEPT !.po[m.po] = ReceivePo(@, m.sku, m.qty)]

OnIssued(t, m, txn) ==
  PostIn(WithLot(t, m.lot), [Plain("ISSUE", m.loc, m.lot, m.qty) EXCEPT !.id = txn])

(* min(ordered - received, in transit + shipped). *)
ShipLine(ln, q, eta) ==
  LET open == ln.ordered - ln.received
  IN  [ln EXCEPT !.transit = IF @ + q < open THEN @ + q ELSE open,
                 !.eta = IF eta # Absent THEN eta ELSE @]

(* The lines of a message that name a known item, one after the other. *)
ShipItem(acc, x) ==
  [acc EXCEPT !.lines = [i \in DOMAIN @ |->
     IF x.sku \in Skus /\ @[i].sku = x.sku THEN ShipLine(@[i], x.qty, acc.eta) ELSE @[i]]]

ShipLines(lines, shipped, eta) == FoldLeft(ShipItem, [lines |-> lines, eta |-> eta], shipped).lines

OrderOf(t, m) == IF m.po = Absent THEN Absent ELSE t.po[m.po]

ShipmentOf(t, m) ==
  LET shipped == SelectSeq(m.lines, LAMBDA x : x.sku \in Skus)
      old == IF t.ships[m.no] # Absent THEN t.ships[m.no]
             ELSE [po |-> m.po, status |-> "IN_TRANSIT", eta |-> Absent, promised |-> Absent,
                   delay |-> 0, lines |-> <<>>]
  IN  [old EXCEPT !.status = "IN_TRANSIT",
                  !.eta = IF m.eta # Absent THEN m.eta ELSE @,
                  !.promised = IF @ = Absent /\ OrderOf(t, m) # Absent THEN OrderOf(t, m).promised ELSE @,
                  !.lines = @ \o shipped]

OrdersShipped(t, m) ==
  IF OrderOf(t, m) = Absent THEN t.po
  ELSE [t.po EXCEPT ![m.po].lines = ShipLines(@, m.lines, m.eta)]

OnShipDispatched(t, m) == [t EXCEPT !.ships[m.no] = ShipmentOf(t, m), !.po = OrdersShipped(t, m)]

(* The dates of an order and of all its lines. *)
Redate(order, eta) ==
  [order EXCEPT !.eta = eta,
                !.lines = [i \in DOMAIN @ |-> [@[i] EXCEPT !.eta = eta]]]

OnShipDelayed(t, m) ==
  IF t.ships[m.no] = Absent THEN Refused
  ELSE
    LET old == t.ships[m.no]
        eta == IF m.eta # Absent THEN m.eta ELSE old.eta
        late == IF eta # Absent /\ old.promised # Absent THEN eta - old.promised ELSE old.delay
        ship == [old EXCEPT !.eta = eta, !.status = "DELAYED",
                            !.delay = IF m.delay # 0 THEN m.delay ELSE late]
    IN  [t EXCEPT !.ships[m.no] = ship,
                  !.po = [n \in PoNumbers |->
                            IF n = ship.po /\ @[n] # Absent THEN Redate(@[n], eta) ELSE @[n]]]

OnShipStatus(t, m) ==
  IF t.ships[m.no] # Absent /\ m.status = "DELIVERED"
  THEN [t EXCEPT !.ships[m.no].status = "DELIVERED"] ELSE t

NewOrder(supplier, l, sku, q, received, promised, eta) ==
  [supplier |-> supplier, dest |-> l, status |-> "OPEN", promised |-> promised, eta |-> eta,
   lines |-> <<[sku |-> sku, ordered |-> q, received |-> received, transit |-> 0,
                status |-> "ACTIVE", eta |-> eta]>>]

OnPoCreated(t, m) ==
  LET promised == IF m.eta # Absent THEN m.eta ELSE Today
  IN  IF t.master[m.supplier] = Absent \/ m.sku \notin Skus \/ t.po[m.po] # Absent THEN Refused
      ELSE [t EXCEPT !.po[m.po] = NewOrder(m.supplier, m.loc, m.sku, m.qty, 0, promised, promised)]

OnPoDelayed(t, m) ==
  IF t.po[m.po] = Absent THEN Refused
  ELSE IF m.eta = Absent THEN t
  ELSE [t EXCEPT !.po[m.po] = Redate(@, m.eta)]

OnDemand(t, m) ==
  [t EXCEPT !.demand = Append(@, [loc |-> m.loc, period |-> m.period, gran |-> "W", qty |-> m.qty])]

SetForecast(t, l, period, kind, q) ==
  [t EXCEPT !.forecast = [k \in DOMAIN @ \cup {<<l, period, kind>>} |->
                            IF k = <<l, period, kind>> THEN q ELSE @[k]]]

OnForecast(t, m) == SetForecast(t, m.loc, m.period, m.kind, m.qty)

OnAdjusted(t, m) == CountIn(t, m.loc, 0, "UNRESTRICTED", m.counted)

(* The number of a transfer order is unique in the database. *)
OnTransferCreated(t, m) ==
  IF t.transfers[m.no] # Absent THEN Refused
  ELSE [t EXCEPT !.transfers[m.no] =
          [from |-> m.loc, to |-> m.toLoc, qty |-> m.qty, received |-> 0,
           eta |-> IF m.eta # Absent THEN m.eta ELSE Today, status |-> "OPEN"]]

(* The status of the order is not looked at. *)
OnTransferCompleted(t, m, txn) ==
  IF t.transfers[m.no] = Absent THEN Refused
  ELSE
    LET order == t.transfers[m.no]
        q == IF m.qty # 0 THEN m.qty ELSE order.qty
        posted == PostIn(t, [Plain("TRANSFER", order.from, 0, q) EXCEPT !.toLoc = order.to, !.id = txn])
    IN  IF posted = Refused THEN Refused
        ELSE [posted EXCEPT !.transfers[m.no] = [@ EXCEPT !.received = q, !.status = "RECEIVED"]]

OnQuality(t, m, txn) ==
  LET hold == m.type = "QualityHold"
      posted == PostIn(WithLot(t, m.lot),
                       [Plain(IF hold THEN "QUARANTINE" ELSE "RELEASE", m.loc, m.lot, m.qty)
                          EXCEPT !.id = txn])
  IN  IF posted = Refused THEN Refused
      ELSE [posted EXCEPT !.quality[m.lot] = IF hold THEN "QUARANTINE" ELSE "RELEASED"]

(* One alert for a lot, whatever became of it. *)
OnExpiry(t, m) ==
  IF t.expiry[m.lot] # Absent THEN t
  ELSE [t EXCEPT !.expiry[m.lot] = IF m.days <= 30 THEN "HIGH" ELSE "MEDIUM"]

Handle(t, m, txn) ==
  CASE m.type = "InventoryReceived"    -> OnReceived(t, m, txn)
    [] m.type = "InventoryIssued"      -> OnIssued(t, m, txn)
    [] m.type = "ShipmentDispatched"   -> OnShipDispatched(t, m)
    [] m.type = "ShipmentDelayed"      -> OnShipDelayed(t, m)
    [] m.type = "ShipmentStatus"       -> OnShipStatus(t, m)
    [] m.type = "PurchaseOrderCreated" -> OnPoCreated(t, m)
    [] m.type = "PurchaseOrderDelayed" -> OnPoDelayed(t, m)
    [] m.type = "DemandChanged"        -> OnDemand(t, m)
    [] m.type = "ForecastUpdated"      -> OnForecast(t, m)
    [] m.type = "InventoryAdjusted"    -> OnAdjusted(t, m)
    [] m.type = "TransferCreated"      -> OnTransferCreated(t, m)
    [] m.type = "TransferCompleted"    -> OnTransferCompleted(t, m, txn)
    [] m.type \in {"QualityHold", "QualityRelease"} -> OnQuality(t, m, txn)
    [] m.type = "ExpiryApproaching"    -> OnExpiry(t, m)
=============================================================================
