------------------------------ MODULE MCIntake ------------------------------
(* Families of messages and files for TLC. *)
EXTENDS Intake

CONSTANTS plant, store, other, po1, s1, t1, T1

(* Event ids of the ledger are pairs; T1 is an id the sender chose. *)
MCClientIds == {T1} \cup {<<"EV", e>> : e \in 1..6}

Sup(n) == <<"suppliers", n>>
MCMasterKeys == {Sup(1), Sup(2), <<"items", 1>>, <<"locations", 1>>, <<"customers", 1>>}
MCMasterRefs == {Sup(1)}
MCSources == {"INVENTORY", "ERP", "WMS", "TMS", "FORECAST"}

Received(sku, lot, q, po, txn) ==
  [type |-> "InventoryReceived", sku |-> sku, loc |-> plant, lot |-> lot, qty |-> q, po |-> po, txn |-> txn]
Issued(lot, q, txn) ==
  [type |-> "InventoryIssued", sku |-> Own, loc |-> plant, lot |-> lot, qty |-> q, txn |-> txn]
Created(sup, sku, q) ==
  [type |-> "PurchaseOrderCreated", po |-> po1, supplier |-> Sup(sup), loc |-> plant, sku |-> sku, qty |-> q, eta |-> Absent]
Dispatched(q, eta) ==
  [type |-> "ShipmentDispatched", no |-> s1, po |-> po1, eta |-> eta, lines |-> <<[sku |-> Own, qty |-> q]>>]
Delayed(eta) == [type |-> "ShipmentDelayed", no |-> s1, eta |-> eta, delay |-> 0]
Quality(kind, q) == [type |-> kind, loc |-> plant, lot |-> 1, qty |-> q]
Completed(q) == [type |-> "TransferCompleted", no |-> t1, qty |-> q]
NewTransfer(q) == [type |-> "TransferCreated", no |-> t1, loc |-> plant, toLoc |-> store, qty |-> q, eta |-> Absent]
Counted(q) == [type |-> "InventoryAdjusted", loc |-> plant, counted |-> q]

File(entity, rows) == [entity |-> entity, rows |-> rows]
Pairs(entity, rows) == {File(entity, <<r>>) : r \in rows} \cup {File(entity, <<r, s>>) : r, s \in rows}

OrderRow(sup, sku, q, got, bad) ==
  [po |-> po1, supplier |-> Sup(sup), loc |-> plant, sku |-> sku, qty |-> q, promised |-> Absent, eta |-> Absent,
   received |-> got, bad |-> bad]
Balance(lot, q, units, bad) ==
  [loc |-> plant, lot |-> lot, state |-> "UNRESTRICTED", qty |-> q, units |-> units, bad |-> bad]
Txn(type, lot, q, txn) ==
  [type |-> type, loc |-> plant, toLoc |-> NoLoc, lot |-> lot, qty |-> q, units |-> 1, txn |-> txn, bad |-> 0]
Period(gran, q) == [loc |-> plant, period |-> 1, gran |-> gran, qty |-> q, bad |-> 0]
Kind(kind, q) == [loc |-> plant, period |-> 1, kind |-> kind, qty |-> q, bad |-> 0]
Vals(v, w) == [c \in Columns |-> IF c = "name" THEN v ELSE w]
Master(key, refs, v, w, valid) ==
  [key |-> key, refs |-> refs, vals |-> Vals(v, w), valid |-> valid, bad |-> 0]
Appended(refs, bad) == [refs |-> refs, valid |-> TRUE, bad |-> bad]

(* A purchase order from its creation to its receipts, in any order. *)
Purchasing ==
  [msgs |-> {Created(1, Own, 2), Dispatched(1, 5), Dispatched(2, Absent), Delayed(Absent), [type |-> "ShipmentStatus", no |-> s1, status |-> "DELIVERED"],
             [type |-> "PurchaseOrderDelayed", po |-> po1, eta |-> 7],
             Received(Own, 0, 1, po1, Absent), Received(Own, 0, 3, po1, Absent), [type |-> "Unknown"]},
   edi |-> {[records |-> 0, events |-> <<Created(1, Own, 1), Dispatched(1, Absent)>>]},
   files |-> {}, events |-> 5, uploads |-> 0]

(* Orders that files create and change, suppliers that files bring. *)
Ordering ==
  [msgs |-> {Created(2, Own, 1), Dispatched(1, Absent), Received(Own, 0, 1, po1, Absent),
             Received(other, 0, 1, po1, Absent), Received(other, 0, 2, po1, Absent)},
   edi |-> {},
   files |-> {File("purchase_orders", <<OrderRow(1, Own, 2, Absent, 0), OrderRow(1, other, 1, Absent, 0)>>),
              File("purchase_orders", <<OrderRow(2, Own, 1, 1, 0)>>),
              File("purchase_orders", <<OrderRow(1, Own, 0, Absent, 0), OrderRow(1, Own, 1, Absent, 2)>>)}
               \cup {File("suppliers", <<Master(Sup(2), {}, "a", Absent, TRUE)>>)},
   events |-> 3, uploads |-> 2]

(* Events that move stock; two of them name the same transaction id. *)
Moving ==
  [msgs |-> {Received(Own, 0, 2, Absent, Absent), Received(Own, 1, 2, Absent, T1), Issued(1, 1, T1), Quality("QualityHold", 1), Quality("QualityRelease", 1),
             NewTransfer(1), Completed(0), Counted(-1)},
   edi |-> {[records |-> 1, events |-> <<Received(Own, 0, 1, Absent, Absent), Counted(0)>>]},
   files |-> {}, events |-> 4, uploads |-> 0]

(* Files of balances and transactions, with an event between them. *)
Loading ==
  [msgs |-> {Received(Own, 1, 2, Absent, T1), Quality("QualityHold", 1)}, edi |-> {},
   files |-> Pairs("balances", {Balance(1, 1, 2, 0), Balance(1, 1, 1, 0), Balance(0, 3, 1, 0), Balance(0, -1, 1, 0),
                                Balance(0, 1, 0, 0), Balance(1, 0, 1, 2)})
               \cup Pairs("transactions", {Txn("RECEIPT", 1, 2, T1), Txn("ISSUE", 1, 1, Absent),
                                           Txn("ISSUE", 0, 1, T1), Txn("LOAN", 0, 1, Absent)}),
   events |-> 1, uploads |-> 2]

(* Rows that plans are made from, and master data. *)
Planning ==
  [msgs |-> {[type |-> "DemandChanged", loc |-> plant, period |-> 1, qty |-> 1],
             [type |-> "ForecastUpdated", loc |-> plant, period |-> 1, kind |-> "BASELINE", qty |-> 2],
             [type |-> "ExpiryApproaching", lot |-> 1, days |-> 10]},
   edi |-> {},
   files |-> Pairs("demand", {Period("W", 2), Period("W", -1)})
               \cup Pairs("forecast", {Kind("BASELINE", 1), Kind("OTHER", 1)})
               \cup Pairs("items", {Master(<<"items", 1>>, {}, "a", "b", TRUE),
                                    Master(<<"items", 1>>, {}, Absent, "c", TRUE),
                                    Master(<<"items", 1>>, {}, "a", "b", FALSE)})
               \cup Pairs("locations", {Master(<<"locations", 1>>, {<<"items", 1>>}, "a", Absent, TRUE)})
               \cup Pairs("sales_orders", {Appended({<<"customers", 1>>}, 0)})
               \cup Pairs("external_balances", {Appended({}, 0), Appended({}, 1)}),
   events |-> 2, uploads |-> 2]

MCScopes == <<Purchasing, Ordering, Moving, Loading, Planning>>

(* The families keep to what the theorems take for granted. *)
ASSUME Senders
=============================================================================
