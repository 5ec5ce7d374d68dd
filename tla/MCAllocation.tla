---------------------------- MODULE MCAllocation ----------------------------
(* Families of messages, orders and claims for TLC. *)
EXTENDS Allocation

CONSTANTS a, b, plant, store, other, po1, s1, t1

MCMasterKeys == {<<"suppliers", 1>>}
MCReceivedOn == [lot \in 0..2 |-> IF lot = 0 THEN Absent ELSE 3 - lot]
MCExpiry == <<Absent, 6>>
MCExpired == <<3, 6>>
MCProduction ==
  <<[ref |-> "mo1", loc |-> plant, item |-> other, qty |-> 1, start |-> 5, due |-> 6],
    [ref |-> "mo2", loc |-> store, item |-> Own, qty |-> 1, start |-> 3, due |-> 5]>>

Received(lot, q, po) ==
  [type |-> "InventoryReceived", sku |-> Own, loc |-> plant, lot |-> lot, qty |-> q, po |-> po, txn |-> Absent]
Issued(lot, q) == [type |-> "InventoryIssued", sku |-> Own, loc |-> plant, lot |-> lot, qty |-> q, txn |-> Absent]
Created(q) ==
  [type |-> "PurchaseOrderCreated", po |-> po1, supplier |-> <<"suppliers", 1>>, loc |-> plant, sku |-> Own,
   qty |-> q, eta |-> 6]
Dispatched(q) ==
  [type |-> "ShipmentDispatched", no |-> s1, po |-> po1, eta |-> Absent, lines |-> <<[sku |-> Own, qty |-> q]>>]
Delayed == [type |-> "PurchaseOrderDelayed", po |-> po1, eta |-> 9]
Quality(kind, q) == [type |-> kind, loc |-> plant, lot |-> 1, qty |-> q]
NewTransfer(q) == [type |-> "TransferCreated", no |-> t1, loc |-> plant, toLoc |-> store, qty |-> q, eta |-> 5]
Completed(q) == [type |-> "TransferCompleted", no |-> t1, qty |-> q]
Counted(q) == [type |-> "InventoryAdjusted", loc |-> plant, counted |-> q]

Order(ref, q, day, prio, value, contract) ==
  [ref |-> ref, loc |-> plant, qty |-> q, day |-> day, prio |-> prio, entered |-> prio, value |-> value,
   contract |-> contract, near |-> contract]
so1 == Order("so1", 2, 3, 1, 4, FALSE)
so2 == Order("so2", 1, -2, 4, 6, TRUE)
so3 == Order("so1", 2, 3, 1, 6, FALSE)   \* another line of the first order

Asked(lot, q, type) == [lot |-> lot, qty |-> q, type |-> type, manual |-> TRUE]
AtPlant(asks) == [l \in Locations |-> IF l = plant THEN asks ELSE {}]

Policy(method, released, fefo) == [method |-> method, released |-> released, fefo |-> fefo]
AllMethods ==
  {Policy(m, TRUE, FALSE) : m \in {"fifo", "priority", "revenue", "criticality", "service_level", "geography",
                                   "margin", "contract", "weighted", "fefo_priority"}}
Weighting == {Policy("weighted", TRUE, TRUE)}

\* orders of every rank against stock, an open order and a shipment
Pegging ==
  [sessions |-> {a}, past |-> <<Received(1, 2, Absent), Received(2, 1, Absent), Created(2), Dispatched(1)>>,
   msgs |-> {Issued(1, 1), Received(0, 1, po1), Quality("QualityHold", 1)}, sales |-> <<so1, so2, so3>>,
   asks |-> AtPlant({Asked(0, 1, "COMMITTED")}), events |-> 2, claims |-> 1, policies |-> AllMethods]

\* two sessions claim the same stock by hand and peg it
Claiming ==
  [sessions |-> {a, b}, past |-> <<Received(1, 2, Absent), Received(0, 1, Absent)>>,
   msgs |-> {Issued(1, 1), NewTransfer(1)}, sales |-> <<so1>>,
   asks |-> AtPlant({Asked(0, 1, "COMMITTED"), Asked(1, 2, "RESERVED"), Asked(1, 1, "ALLOCATED")}),
   events |-> 1, claims |-> 2, policies |-> Weighting]

\* every message that moves stock or its promises
Moving ==
  [sessions |-> {}, past |-> <<Received(1, 2, Absent)>>,
   msgs |-> {Received(0, 1, po1), Received(1, 3, po1), Issued(1, 1), Created(2), Dispatched(1), Dispatched(3), Delayed,
             Quality("QualityHold", 1), Quality("QualityRelease", 1), NewTransfer(2), Completed(0), Completed(1),
             Counted(3)},
   sales |-> <<>>, asks |-> AtPlant({}), events |-> 5, claims |-> 0, policies |-> Weighting]

MCScopes == <<Pegging, Claiming, Moving>>
=============================================================================
