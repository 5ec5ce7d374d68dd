---------------------------- MODULE IntakeProofs ----------------------------
(***************************************************************************)
(* Theorems about what comes into the system, for every family of messages *)
(* and files the senders may send.  The loops over events and rows are     *)
(* folds; what they do is shown with instances of FoldLemmas.              *)
(***************************************************************************)
EXTENDS Intake, NatLemmas, TLAPS

-----------------------------------------------------------------------------
(* The rows a request appends to the ledger *)

TableNames == {"lots", "po", "ships", "transfers", "demand", "forecast", "expiry", "master",
               "loads", "sync", "balance", "txns", "quality"}

(* log2 is log with a row whose id, if a caller chose it, is new.            *)
Adds(log, log2, row) ==
  /\ log2 = Append(log, row)
  /\ row.id # GeneratedId => \A i \in 1..Len(log) : log[i].id # row.id

(* A posting appends one row, with the id, type and quantity of the request. *)
LEMMA PostInAdds ==
  ASSUME NEW t, DOMAIN t = TableNames, NEW r, {"id", "type", "qty", "to"} \subseteq DOMAIN r,
         PostIn(t, r) # Refused
  PROVE  /\ DOMAIN PostIn(t, r) = TableNames
         /\ \E row : /\ Adds(t.txns, PostIn(t, r).txns, row)
                     /\ row.id = r.id /\ row.type = r.type /\ row.qty = r.qty
<1> DEFINE s == ResolveIn(t.quality, r)
<1>1. s.id = r.id /\ s.type = r.type /\ s.qty = r.qty BY DEF ResolveIn
<1> HIDE DEF s
<1> DEFINE row == RowOf(t.balance, s, 0)
<1>2. /\ Accepts(t.balance, t.txns, s)
      /\ PostIn(t, r) = [t EXCEPT !.balance = Apply(@, s), !.txns = Append(@, row)]
  BY DEF PostIn, s
<1>3. row.id = s.id /\ row.type = s.type /\ row.qty = s.qty BY DEF RowOf
<1> HIDE DEF row
<1>4. DOMAIN PostIn(t, r) = TableNames BY <1>2
<1>5. PostIn(t, r).txns = Append(t.txns, row) BY <1>2 DEF TableNames
<1>6. Adds(t.txns, PostIn(t, r).txns, row) BY <1>2, <1>3, <1>5 DEF Adds, Accepts
<1> QED BY <1>1, <1>3, <1>4, <1>6

(* Creating a lot touches no other table.                                   *)
LEMMA WithLotKeeps ==
  ASSUME NEW t, DOMAIN t = TableNames, NEW lot
  PROVE  /\ DOMAIN WithLot(t, lot) = TableNames /\ WithLot(t, lot).txns = t.txns
         /\ WithLot(t, lot).balance = t.balance
  BY DEF WithLot, TableNames

(* A count posts nothing, or one row with an id of its own.                 *)
LEMMA CountInAdds ==
  ASSUME NEW t, DOMAIN t = TableNames, NEW l, NEW lot, NEW state, NEW q,
         CountIn(t, l, lot, state, q) # Refused
  PROVE  /\ DOMAIN CountIn(t, l, lot, state, q) = TableNames
         /\ \/ CountIn(t, l, lot, state, q).txns = t.txns
            \/ \E row : Adds(t.txns, CountIn(t, l, lot, state, q).txns, row) /\ row.id = GeneratedId
<1> DEFINE n == t.balance[<<l, lot, state>>]
           r == [Plain("CYCLE_COUNT", l, lot, IF q > n THEN q - n ELSE n - q)
                   EXCEPT !.dir = IF q > n THEN "IN" ELSE "OUT", !.from = state, !.to = state]
<1>1. CountIn(t, l, lot, state, q) = IF q = n THEN t ELSE PostIn(t, r) BY DEF CountIn
<1>2. {"id", "type", "qty", "to"} \subseteq DOMAIN r /\ r.id = GeneratedId BY DEF Plain
<1> HIDE DEF r, n
<1>3. CASE q = n BY <1>1, <1>3
<1>4. CASE q # n
  <2>1. CountIn(t, l, lot, state, q) = PostIn(t, r) BY <1>1, <1>4
  <2>2. PostIn(t, r) # Refused BY <2>1
  <2>3. /\ DOMAIN PostIn(t, r) = TableNames
        /\ \E row : Adds(t.txns, PostIn(t, r).txns, row) /\ row.id = r.id
    BY <1>2, <2>2, PostInAdds
  <2> QED BY <1>2, <2>1, <2>3
<1> QED BY <1>3, <1>4

-----------------------------------------------------------------------------
(* Events *)

(* Whether the event is to have a row in the ledger that is kept. *)
Posts(m) == PostedType(m) # "none" /\ ("sku" \in DOMAIN m => m.sku = Own)

(* The row of an event. *)
RowFor(row, m, id) ==
  /\ row.id = id /\ row.type = PostedType(m)
  /\ m.type = "TransferCompleted" \/ row.qty = m.qty

(* What a handler does to the ledger. *)
Effect(log, log2, m, id) ==
  \/ ~Posts(m) /\ log2 = log
  \/ ~Posts(m) /\ \E row : Adds(log, log2, row) /\ row.id = GeneratedId
  \/ Posts(m) /\ \E row : Adds(log, log2, row) /\ RowFor(row, m, id)

(* A receipt of the item posts, one of another item does not.               *)
LEMMA ReceivedEffect ==
  ASSUME NEW t, DOMAIN t = TableNames, NEW m, NEW id, m.type = "InventoryReceived",
         "sku" \in DOMAIN m, OnReceived(t, m, id) # Refused
  PROVE  /\ DOMAIN OnReceived(t, m, id) = TableNames
         /\ Effect(t.txns, OnReceived(t, m, id).txns, m, id)
<1> DEFINE r == [Plain("RECEIPT", m.loc, m.lot, m.qty) EXCEPT !.id = id]
           posted == IF m.sku # Own THEN t ELSE PostIn(WithLot(t, m.lot), r)
           out == OnReceived(t, m, id)
<1>1. /\ {"id", "type", "qty", "to"} \subseteq DOMAIN r
      /\ r.id = id /\ r.type = "RECEIPT" /\ r.qty = m.qty
  BY DEF Plain
<1>2. posted # Refused /\ (out = posted \/ out = [posted EXCEPT !.po[m.po] = ReceivePo(@, m.sku, m.qty)])
  BY DEF OnReceived
<1>3. PostedType(m) = "RECEIPT" BY DEF PostedType
<1> HIDE DEF r, out
<1>4. CASE m.sku # Own
  <2>1. posted = t BY <1>4
  <2> HIDE DEF posted
  <2>2. DOMAIN out = TableNames /\ out.txns = t.txns BY <1>2, <2>1 DEF TableNames
  <2>3. ~Posts(m) BY <1>4 DEF Posts
  <2> QED BY <2>2, <2>3 DEF Effect, out
<1>5. CASE m.sku = Own
  <2>1. posted = PostIn(WithLot(t, m.lot), r) BY <1>5
  <2> HIDE DEF posted
  <2>2. DOMAIN WithLot(t, m.lot) = TableNames /\ WithLot(t, m.lot).txns = t.txns BY WithLotKeeps
  <2>3. PICK row : /\ Adds(WithLot(t, m.lot).txns, posted.txns, row)
                   /\ row.id = r.id /\ row.type = r.type /\ row.qty = r.qty
    BY <1>1, <1>2, <2>1, <2>2, PostInAdds
  <2>4. DOMAIN posted = TableNames BY <1>1, <1>2, <2>1, <2>2, PostInAdds
  <2>5. DOMAIN out = TableNames /\ out.txns = posted.txns BY <1>2, <2>4 DEF TableNames
  <2>6. Adds(t.txns, out.txns, row) BY <2>2, <2>3, <2>5
  <2>7. RowFor(row, m, id) BY <1>1, <1>3, <2>3 DEF RowFor
  <2>8. Posts(m) BY <1>3, <1>5 DEF Posts
  <2> QED BY <2>5, <2>6, <2>7, <2>8 DEF Effect, out
<1> QED BY <1>4, <1>5

(* An issue posts.                                                          *)
LEMMA IssuedEffect ==
  ASSUME NEW t, DOMAIN t = TableNames, NEW m, NEW id, m.type = "InventoryIssued",
         "sku" \in DOMAIN m => m.sku = Own, OnIssued(t, m, id) # Refused
  PROVE  /\ DOMAIN OnIssued(t, m, id) = TableNames
         /\ Effect(t.txns, OnIssued(t, m, id).txns, m, id)
<1> DEFINE r == [Plain("ISSUE", m.loc, m.lot, m.qty) EXCEPT !.id = id]
           out == OnIssued(t, m, id)
<1>1. /\ {"id", "type", "qty", "to"} \subseteq DOMAIN r
      /\ r.id = id /\ r.type = "ISSUE" /\ r.qty = m.qty
  BY DEF Plain
<1>2. out = PostIn(WithLot(t, m.lot), r) BY DEF OnIssued
<1>3. PostedType(m) = "ISSUE" BY DEF PostedType
<1> HIDE DEF r, out
<1>4. DOMAIN WithLot(t, m.lot) = TableNames /\ WithLot(t, m.lot).txns = t.txns BY WithLotKeeps
<1>5. out # Refused BY DEF out
<1>6. /\ DOMAIN out = TableNames
      /\ \E row : /\ Adds(t.txns, out.txns, row)
                  /\ row.id = r.id /\ row.type = r.type /\ row.qty = r.qty
  BY <1>1, <1>2, <1>4, <1>5, PostInAdds
<1>7. Posts(m) BY <1>3 DEF Posts
<1>8. \E row : Adds(t.txns, out.txns, row) /\ RowFor(row, m, id) BY <1>1, <1>3, <1>6 DEF RowFor
<1> QED BY <1>6, <1>7, <1>8 DEF Effect, out

(* A quality event posts.                                                   *)
LEMMA QualityEffect ==
  ASSUME NEW t, DOMAIN t = TableNames, NEW m, NEW id, m.type \in {"QualityHold", "QualityRelease"},
         "sku" \in DOMAIN m => m.sku = Own, OnQuality(t, m, id) # Refused
  PROVE  /\ DOMAIN OnQuality(t, m, id) = TableNames
         /\ Effect(t.txns, OnQuality(t, m, id).txns, m, id)
<1> DEFINE type == IF m.type = "QualityHold" THEN "QUARANTINE" ELSE "RELEASE"
           r == [Plain(type, m.loc, m.lot, m.qty) EXCEPT !.id = id]
           posted == PostIn(WithLot(t, m.lot), r)
           out == OnQuality(t, m, id)
<1>1. /\ {"id", "type", "qty", "to"} \subseteq DOMAIN r
      /\ r.id = id /\ r.type = type /\ r.qty = m.qty
  BY DEF Plain
<1>2. PICK q : posted # Refused /\ out = [posted EXCEPT !.quality[m.lot] = q] BY DEF OnQuality
<1>3. PostedType(m) = type /\ type # "none" BY DEF PostedType
<1> HIDE DEF type
<1> HIDE DEF r, out
<1>4. DOMAIN WithLot(t, m.lot) = TableNames /\ WithLot(t, m.lot).txns = t.txns BY WithLotKeeps
<1>5. /\ DOMAIN posted = TableNames
      /\ \E row : /\ Adds(t.txns, posted.txns, row)
                  /\ row.id = r.id /\ row.type = r.type /\ row.qty = r.qty
  BY <1>1, <1>2, <1>4, PostInAdds
<1> HIDE DEF posted
<1>6. DOMAIN out = TableNames /\ out.txns = posted.txns BY <1>2, <1>5 DEF TableNames
<1>7. Posts(m) BY <1>3 DEF Posts
<1>8. \E row : Adds(t.txns, out.txns, row) /\ RowFor(row, m, id) BY <1>1, <1>3, <1>5, <1>6 DEF RowFor
<1> QED BY <1>6, <1>7, <1>8 DEF Effect, out

(* A completed transfer posts.                                              *)
LEMMA TransferEffect ==
  ASSUME NEW t, DOMAIN t = TableNames, NEW m, NEW id, m.type = "TransferCompleted",
         "sku" \in DOMAIN m => m.sku = Own, OnTransferCompleted(t, m, id) # Refused
  PROVE  /\ DOMAIN OnTransferCompleted(t, m, id) = TableNames
         /\ Effect(t.txns, OnTransferCompleted(t, m, id).txns, m, id)
<1> DEFINE order == t.transfers[m.no]
           n == IF m.qty # 0 THEN m.qty ELSE order.qty
           r == [Plain("TRANSFER", order.from, 0, n) EXCEPT !.toLoc = order.to, !.id = id]
           posted == PostIn(t, r)
           out == OnTransferCompleted(t, m, id)
<1>1. /\ {"id", "type", "qty", "to"} \subseteq DOMAIN r
      /\ r.id = id /\ r.type = "TRANSFER"
  BY DEF Plain
<1>2. /\ posted # Refused
      /\ out = [posted EXCEPT !.transfers[m.no] = [@ EXCEPT !.received = n, !.status = "RECEIVED"]]
  BY DEF OnTransferCompleted
<1>3. PostedType(m) = "TRANSFER" BY DEF PostedType
<1> HIDE DEF r, out, n, order
<1>5. /\ DOMAIN posted = TableNames
      /\ \E row : /\ Adds(t.txns, posted.txns, row) /\ row.id = r.id /\ row.type = r.type
  BY <1>1, <1>2, PostInAdds
<1> HIDE DEF posted
<1>6. DOMAIN out = TableNames /\ out.txns = posted.txns BY <1>2, <1>5 DEF TableNames
<1>7. Posts(m) BY <1>3 DEF Posts
<1>8. \E row : Adds(t.txns, out.txns, row) /\ RowFor(row, m, id) BY <1>1, <1>3, <1>5, <1>6 DEF RowFor
<1> QED BY <1>6, <1>7, <1>8 DEF Effect, out

Documentary == {"ShipmentDispatched", "ShipmentDelayed", "ShipmentStatus", "PurchaseOrderCreated",
                "PurchaseOrderDelayed", "DemandChanged", "ForecastUpdated", "TransferCreated",
                "ExpiryApproaching"}

(* The handlers of documents leave the ledger alone.                        *)
LEMMA DocumentEffect ==
  ASSUME NEW t, DOMAIN t = TableNames, NEW m, NEW id, m.type \in Documentary,
         Handle(t, m, id) # Refused
  PROVE  DOMAIN Handle(t, m, id) = TableNames /\ Handle(t, m, id).txns = t.txns
<1> DEFINE out == Handle(t, m, id)
<1>0. out # Refused OBVIOUS
<1>1. CASE m.type = "ShipmentDispatched"
  <2>1. out = OnShipDispatched(t, m) BY <1>1 DEF Handle
  <2>2. \E a, b : OnShipDispatched(t, m) = [t EXCEPT !.ships[m.no] = a, !.po = b]
    BY Zenon DEF OnShipDispatched
  <2> HIDE DEF out
  <2>3. PICK a, b : out = [t EXCEPT !.ships[m.no] = a, !.po = b] BY <2>1, <2>2
  <2>4. DOMAIN out = TableNames /\ out.txns = t.txns BY <2>3 DEF TableNames
  <2> QED BY <2>4 DEF out
<1>2. CASE m.type = "ShipmentDelayed"
  <2>1. out = OnShipDelayed(t, m) BY <1>2 DEF Handle
  <2>2. \E a, b : OnShipDelayed(t, m) = [t EXCEPT !.ships[m.no] = a, !.po = b]
    BY <1>0, <2>1 DEF OnShipDelayed
  <2> HIDE DEF out
  <2>3. PICK a, b : out = [t EXCEPT !.ships[m.no] = a, !.po = b] BY <2>1, <2>2
  <2>4. DOMAIN out = TableNames /\ out.txns = t.txns BY <2>3 DEF TableNames
  <2> QED BY <2>4 DEF out
<1>3. CASE m.type = "ShipmentStatus"
  <2>1. out = OnShipStatus(t, m) BY <1>3 DEF Handle
  <2> QED BY <2>1 DEF OnShipStatus, TableNames
<1>4. CASE m.type = "PurchaseOrderCreated"
  <2>1. out = OnPoCreated(t, m) BY <1>4 DEF Handle
  <2>2. \E a : OnPoCreated(t, m) = [t EXCEPT !.po[m.po] = a] BY <1>0, <2>1 DEF OnPoCreated
  <2> HIDE DEF out
  <2>3. DOMAIN out = TableNames /\ out.txns = t.txns BY <2>1, <2>2 DEF TableNames
  <2> QED BY <2>3 DEF out
<1>5. CASE m.type = "PurchaseOrderDelayed"
  <2>1. out = OnPoDelayed(t, m) BY <1>5 DEF Handle
  <2>2. OnPoDelayed(t, m) = t \/ \E a : OnPoDelayed(t, m) = [t EXCEPT !.po[m.po] = a]
    BY <1>0, <2>1 DEF OnPoDelayed
  <2> HIDE DEF out
  <2>3. DOMAIN out = TableNames /\ out.txns = t.txns BY <2>1, <2>2 DEF TableNames
  <2> QED BY <2>3 DEF out
<1>6. CASE m.type = "DemandChanged"
  <2>1. out = OnDemand(t, m) BY <1>6 DEF Handle
  <2> QED BY <2>1 DEF OnDemand, TableNames
<1>7. CASE m.type = "ForecastUpdated"
  <2>1. out = OnForecast(t, m) BY <1>7 DEF Handle
  <2>2. \E a : OnForecast(t, m) = [t EXCEPT !.forecast = a] BY DEF OnForecast, SetForecast
  <2> HIDE DEF out
  <2>3. DOMAIN out = TableNames /\ out.txns = t.txns BY <2>1, <2>2 DEF TableNames
  <2> QED BY <2>3 DEF out
<1>8. CASE m.type = "TransferCreated"
  <2>1. out = OnTransferCreated(t, m) BY <1>8 DEF Handle
  <2>2. \E a : OnTransferCreated(t, m) = [t EXCEPT !.transfers[m.no] = a]
    BY <1>0, <2>1 DEF OnTransferCreated
  <2> HIDE DEF out
  <2>3. DOMAIN out = TableNames /\ out.txns = t.txns BY <2>1, <2>2 DEF TableNames
  <2> QED BY <2>3 DEF out
<1>9. CASE m.type = "ExpiryApproaching"
  <2>1. out = OnExpiry(t, m) BY <1>9 DEF Handle
  <2> QED BY <2>1 DEF OnExpiry, TableNames
<1> QED BY <1>1, <1>2, <1>3, <1>4, <1>5, <1>6, <1>7, <1>8, <1>9 DEF Documentary

(* Every handler: an event that is to have a row in the ledger gets one, of *)
(* its id, type and quantity; any other event gets none, or one with an id  *)
(* of its own (a count).                                                    *)
LEMMA HandleEffect ==
  ASSUME NEW t, DOMAIN t = TableNames, NEW m, NEW id, Valid(m), OwnMessage(m),
         Handle(t, m, id) # Refused
  PROVE  /\ DOMAIN Handle(t, m, id) = TableNames
         /\ Effect(t.txns, Handle(t, m, id).txns, m, id)
<1> DEFINE out == Handle(t, m, id)
<1>0. m.type \in DOMAIN Required /\ Required[m.type] \subseteq DOMAIN m BY DEF Valid
<1>1. CASE m.type = "InventoryReceived"
  <2>1. "sku" \in DOMAIN m BY <1>0, <1>1 DEF Required
  <2>2. out = OnReceived(t, m, id) BY <1>1 DEF Handle
  <2> QED BY <1>1, <2>1, <2>2, ReceivedEffect
<1>2. CASE m.type = "InventoryIssued"
  <2>1. "sku" \in DOMAIN m => m.sku = Own BY <1>2 DEF OwnMessage, PostedType
  <2>2. out = OnIssued(t, m, id) BY <1>2 DEF Handle
  <2> QED BY <1>2, <2>1, <2>2, IssuedEffect
<1>3. CASE m.type \in {"QualityHold", "QualityRelease"}
  <2>1. "sku" \in DOMAIN m => m.sku = Own BY <1>3 DEF OwnMessage, PostedType
  <2>2. out = OnQuality(t, m, id) BY <1>3 DEF Handle
  <2> QED BY <1>3, <2>1, <2>2, QualityEffect
<1>4. CASE m.type = "TransferCompleted"
  <2>1. "sku" \in DOMAIN m => m.sku = Own BY <1>4 DEF OwnMessage, PostedType
  <2>2. out = OnTransferCompleted(t, m, id) BY <1>4 DEF Handle
  <2> QED BY <1>4, <2>1, <2>2, TransferEffect
<1>5. CASE m.type = "InventoryAdjusted"
  <2>1. out = CountIn(t, m.loc, 0, "UNRESTRICTED", m.counted) BY <1>5 DEF Handle, OnAdjusted
  <2>2. ~Posts(m) BY <1>5 DEF Posts, PostedType
  <2> QED BY <2>1, <2>2, CountInAdds DEF Effect
<1>6. CASE m.type \in Documentary
  <2>1. ~Posts(m) BY <1>6 DEF Posts, PostedType, Documentary
  <2> QED BY <1>6, <2>1, DocumentEffect DEF Effect
<1>7. m.type \in Documentary \cup {"InventoryReceived", "InventoryIssued", "QualityHold", "QualityRelease",
                                   "TransferCompleted", "InventoryAdjusted"}
  BY <1>0 DEF Required, Documentary
<1> QED BY <1>1, <1>2, <1>3, <1>4, <1>5, <1>6, <1>7

-----------------------------------------------------------------------------
(* The inbox and the ledger *)

Processed(box, e) == box[e].status = "PROCESSED"
IdOf(box, e) == TxnId(box[e].msg, e)

(* A transaction id a caller chose, or one of an event, is in one row.      *)
OneRowAnId(log) ==
  \A i, j \in 1..Len(log) : log[i].id = log[j].id /\ log[i].id # GeneratedId => i = j

(* A row with the id of an event was posted by it. *)
Rooted(log, box) ==
  \A i \in 1..Len(log) : \A e \in Nat :
    log[i].id = <<"EV", e>> => e \in 1..Len(box) /\ Processed(box, e)

(* A processed event that posts has its row. *)
Posted(log, box) ==
  \A e \in 1..Len(box) : Processed(box, e) /\ Posts(box[e].msg) =>
    \E i \in 1..Len(log) : RowFor(log[i], box[e].msg, IdOf(box, e))

(* No two processed events have one ledger id. *)
Apart(box) ==
  \A e, f \in 1..Len(box) : e # f /\ Processed(box, e) /\ Processed(box, f) => IdOf(box, e) # IdOf(box, f)

Inbox(box) ==
  /\ Listed(box)
  /\ \A e \in 1..Len(box) :
       OwnMessage(box[e].msg) /\ box[e] = [msg |-> box[e].msg, status |-> box[e].status]

Agree(log, box) ==
  /\ Listed(log) /\ Inbox(box)
  /\ OneRowAnId(log) /\ Rooted(log, box) /\ Posted(log, box) /\ Apart(box)

(* The ledger id of an event is one that dispatch() makes, or was chosen by *)
(* the sender of an event that posts.                                       *)
LEMMA IdKinds ==
  ASSUME Senders, NEW m, OwnMessage(m), NEW e \in Nat
  PROVE  /\ TxnId(m, e) # GeneratedId
         /\ TxnId(m, e) = <<"EV", e>> \/ (TxnId(m, e) \notin EventTxns /\ Posts(m))
<1>1. <<"EV", e>> \in EventTxns BY DEF EventTxns
<1>2. GeneratedId \notin EventTxns BY DEF Senders
<1>3. CASE "txn" \in DOMAIN m /\ m.txn # Absent
  <2>1. TxnId(m, e) = m.txn BY <1>3 DEF TxnId
  <2>2. /\ m.type \in {"InventoryReceived", "InventoryIssued"} /\ m.sku = Own
        /\ m.txn # GeneratedId /\ m.txn \notin EventTxns
    BY <1>3 DEF OwnMessage
  <2>3. Posts(m) BY <2>2 DEF Posts, PostedType
  <2> QED BY <2>1, <2>2, <2>3
<1>4. CASE ~("txn" \in DOMAIN m /\ m.txn # Absent)
  <2>1. TxnId(m, e) = <<"EV", e>> BY <1>4 DEF TxnId
  <2> QED BY <2>1, <1>1, <1>2
<1> QED BY <1>3, <1>4

(* A new row with a new id, or one of its own, keeps ids unique.            *)
LEMMA OneRowMore ==
  ASSUME NEW log, Listed(log), OneRowAnId(log), NEW log2, NEW row, Adds(log, log2, row)
  PROVE  OneRowAnId(log2) /\ Listed(log2)
<1>1. /\ Listed(log2) /\ Len(log) \in Nat /\ Len(log2) = Len(log) + 1
      /\ log2[Len(log) + 1] = row /\ \A i \in 1..Len(log) : log2[i] = log[i]
  BY Appended DEF Adds
<1>2. ASSUME NEW i \in 1..Len(log2), NEW j \in 1..Len(log2),
             log2[i].id = log2[j].id, log2[i].id # GeneratedId
      PROVE  i = j
  <2>1. (i \in 1..Len(log) \/ i = Len(log) + 1) /\ (j \in 1..Len(log) \/ j = Len(log) + 1)
    BY <1>1
  <2>2. CASE i \in 1..Len(log) /\ j \in 1..Len(log) BY <2>2, <1>1, <1>2 DEF OneRowAnId
  <2>3. CASE i = Len(log) + 1 /\ j \in 1..Len(log) BY <2>3, <1>1, <1>2 DEF Adds
  <2>4. CASE j = Len(log) + 1 /\ i \in 1..Len(log) BY <2>4, <1>1, <1>2 DEF Adds
  <2> QED BY <2>1, <2>2, <2>3, <2>4
<1> QED BY <1>1, <1>2 DEF OneRowAnId

(* Rows stay where they are: an event that had its row keeps it.            *)
LEMMA PostedStays ==
  ASSUME NEW log, Listed(log), NEW box, Posted(log, box), NEW log2, NEW row, Adds(log, log2, row)
  PROVE  Posted(log2, box)
<1>1. /\ Len(log) \in Nat /\ Len(log2) = Len(log) + 1 /\ \A i \in 1..Len(log) : log2[i] = log[i]
  BY Appended DEF Adds
<1>2. 1..Len(log) \subseteq 1..Len(log2) BY <1>1
<1> QED BY <1>1, <1>2 DEF Posted

(* A row that no event posted leaves inbox and ledger in agreement.         *)
LEMMA AgreeRow ==
  ASSUME Senders, NEW log, NEW box, Agree(log, box), NEW log2, NEW row, Adds(log, log2, row),
         row.id \notin EventTxns
  PROVE  Agree(log2, box)
<1>1. OneRowAnId(log2) /\ Listed(log2) BY OneRowMore DEF Agree
<1>2. Posted(log2, box) BY PostedStays DEF Agree
<1>3. Rooted(log2, box)
  <2>1. /\ Len(log) \in Nat /\ Len(log2) = Len(log) + 1 /\ log2[Len(log) + 1] = row
        /\ \A i \in 1..Len(log) : log2[i] = log[i]
    BY Appended DEF Adds, Agree
  <2>2. ASSUME NEW i \in 1..Len(log2), NEW e \in Nat, log2[i].id = <<"EV", e>>
        PROVE  e \in 1..Len(box) /\ Processed(box, e)
    <3>1. <<"EV", e>> \in EventTxns BY DEF EventTxns
    <3>2. i # Len(log) + 1 BY <2>1, <2>2, <3>1
    <3>3. i \in 1..Len(log) BY <2>1, <3>2
    <3> QED BY <2>1, <2>2, <3>3 DEF Agree, Rooted
  <2> QED BY <2>2 DEF Rooted
<1> QED BY <1>1, <1>2, <1>3 DEF Agree

(* What becomes of the inbox when an event is stored.                       *)
LEMMA InboxMore ==
  ASSUME NEW box, Inbox(box), NEW x, OwnMessage(x.msg), x = [msg |-> x.msg, status |-> x.status],
         NEW box2, box2 = Append(box, x)
  PROVE  /\ Inbox(box2) /\ Len(box) \in Nat /\ Len(box2) = Len(box) + 1
         /\ DOMAIN box = 1..Len(box) /\ DOMAIN box2 = 1..Len(box) + 1
         /\ box2[Len(box) + 1] = x
         /\ \A e \in 1..Len(box) : box2[e] = box[e] /\ IdOf(box2, e) = IdOf(box, e)
<1>1. /\ Listed(box2) /\ Len(box) \in Nat /\ Len(box2) = Len(box) + 1
      /\ DOMAIN box = 1..Len(box) /\ DOMAIN box2 = 1..Len(box) + 1
      /\ box2[Len(box) + 1] = x
      /\ \A e \in 1..Len(box) : box2[e] = box[e]
  BY Appended DEF Inbox
<1>2. ASSUME NEW e \in 1..Len(box2)
      PROVE  OwnMessage(box2[e].msg) /\ box2[e] = [msg |-> box2[e].msg, status |-> box2[e].status]
  <2>1. CASE e = Len(box) + 1 BY <2>1, <1>1
  <2>2. CASE e # Len(box) + 1
    <3>1. e \in 1..Len(box) BY <2>2, <1>1
    <3> QED BY <3>1, <1>1 DEF Inbox
  <2> QED BY <2>1, <2>2
<1>3. \A e \in 1..Len(box) : IdOf(box2, e) = IdOf(box, e) BY <1>1 DEF IdOf
<1> QED BY <1>1, <1>2, <1>3 DEF Inbox

(* An event that is stored as failed changes nothing.                       *)
LEMMA AgreeFailed ==
  ASSUME NEW log, NEW box, Agree(log, box), NEW m, OwnMessage(m)
  PROVE  Agree(log, Append(box, [msg |-> m, status |-> "FAILED"]))
<1> DEFINE x == [msg |-> m, status |-> "FAILED"]
           box2 == Append(box, x)
<1>0. /\ box2 = Append(box, x) /\ Inbox(box) /\ OwnMessage(x.msg)
      /\ x = [msg |-> x.msg, status |-> x.status] /\ x.status = "FAILED"
  BY DEF Agree
<1> HIDE DEF box2, x
<1>1. /\ Inbox(box2) /\ Len(box) \in Nat /\ Len(box2) = Len(box) + 1
      /\ box2[Len(box) + 1] = x
      /\ \A e \in 1..Len(box) : box2[e] = box[e] /\ IdOf(box2, e) = IdOf(box, e)
  <2>1. Inbox(box2) BY <1>0, InboxMore
  <2>2. Len(box) \in Nat /\ Len(box2) = Len(box) + 1 BY <1>0, InboxMore
  <2>3. box2[Len(box) + 1] = x BY <1>0, InboxMore
  <2>4. \A e \in 1..Len(box) : box2[e] = box[e] BY <1>0, InboxMore
  <2>5. \A e \in 1..Len(box) : IdOf(box2, e) = IdOf(box, e) BY <1>0, InboxMore, ZenonT(30)
  <2> QED BY <2>1, <2>2, <2>3, <2>4, <2>5
<1>2. \A e \in 1..Len(box2) : e \in 1..Len(box) \/ e = Len(box) + 1 BY <1>1
<1>3. 1..Len(box) \subseteq 1..Len(box2) BY <1>1
<1>4. ~Processed(box2, Len(box) + 1) BY <1>0, <1>1 DEF Processed
<1>5. \A e \in 1..Len(box) : Processed(box2, e) <=> Processed(box, e) BY <1>1 DEF Processed
<1>6. Rooted(log, box2) BY <1>3, <1>5 DEF Agree, Rooted
<1>7. Posted(log, box2)
  <2> SUFFICES ASSUME NEW e \in 1..Len(box2), Processed(box2, e), Posts(box2[e].msg)
               PROVE  \E i \in 1..Len(log) : RowFor(log[i], box2[e].msg, IdOf(box2, e))
    BY DEF Posted
  <2>1. e \in 1..Len(box) BY <1>2, <1>4
  <2> QED BY <2>1, <1>1, <1>5 DEF Agree, Posted
<1>8. Apart(box2)
  <2> SUFFICES ASSUME NEW e \in 1..Len(box2), NEW f \in 1..Len(box2), e # f,
                      Processed(box2, e), Processed(box2, f)
               PROVE  IdOf(box2, e) # IdOf(box2, f)
    BY DEF Apart
  <2>1. e \in 1..Len(box) /\ f \in 1..Len(box) BY <1>2, <1>4
  <2> QED BY <2>1, <1>1, <1>5 DEF Agree, Apart
<1> QED BY <1>1, <1>6, <1>7, <1>8 DEF Agree, box2, x

(* An event that is processed brings its row, if it is to have one, under   *)
(* an id no other event has.                                                *)
LEMMA AgreeProcessed ==
  ASSUME Senders, NEW log, NEW box, Agree(log, box), NEW m, OwnMessage(m), NEW log2,
         Effect(log, log2, m, TxnId(m, Len(box) + 1))
  PROVE  Agree(log2, Append(box, [msg |-> m, status |-> "PROCESSED"]))
<1> DEFINE n == Len(box) + 1
           x == [msg |-> m, status |-> "PROCESSED"]
           box2 == Append(box, x)
           id == TxnId(m, n)
<1>0. /\ box2 = Append(box, x) /\ Inbox(box) /\ OwnMessage(x.msg)
      /\ x = [msg |-> x.msg, status |-> x.status] /\ x.status = "PROCESSED" /\ x.msg = m
  BY DEF Agree
<1> HIDE DEF box2, id, x
<1>1. /\ Inbox(box2) /\ Len(box) \in Nat /\ Len(box2) = n
      /\ box2[n] = x
      /\ \A e \in 1..Len(box) : box2[e] = box[e] /\ IdOf(box2, e) = IdOf(box, e)
  <2>1. Inbox(box2) BY <1>0, InboxMore
  <2>2. Len(box) \in Nat /\ Len(box2) = Len(box) + 1 BY <1>0, InboxMore
  <2>3. box2[Len(box) + 1] = x BY <1>0, InboxMore
  <2>4. \A e \in 1..Len(box) : box2[e] = box[e] BY <1>0, InboxMore
  <2>5. \A e \in 1..Len(box) : IdOf(box2, e) = IdOf(box, e) BY <1>0, InboxMore, ZenonT(30)
  <2> QED BY <2>1, <2>2, <2>3, <2>4, <2>5
<1>e. Effect(log, log2, m, id) BY DEF id
<1>n. n \in Nat BY <1>1
<1>2. \A e \in 1..Len(box2) : e \in 1..Len(box) \/ e = n BY <1>1
<1>3. 1..Len(box) \subseteq 1..Len(box2) /\ n \in 1..Len(box2) /\ n \notin 1..Len(box) BY <1>1
<1>4. Processed(box2, n) /\ IdOf(box2, n) = id /\ box2[n].msg = m BY <1>0, <1>1 DEF Processed, IdOf, id
<1>5. \A e \in 1..Len(box) : Processed(box2, e) <=> Processed(box, e) BY <1>1 DEF Processed
<1> HIDE DEF n
<1>6. id # GeneratedId /\ (id = <<"EV", n>> \/ (id \notin EventTxns /\ Posts(m)))
  BY <1>n, IdKinds DEF id
<1>7. \A e \in 1..Len(box) :
        /\ IdOf(box, e) # GeneratedId /\ e \in Nat
        /\ IdOf(box, e) = <<"EV", e>> \/ (IdOf(box, e) \notin EventTxns /\ Posts(box[e].msg))
  <2> TAKE e \in 1..Len(box)
  <2>0. e \in Nat BY <1>1
  <2>1. e \in Nat /\ OwnMessage(box[e].msg) BY <2>0, <1>0 DEF Inbox
  <2> QED BY <2>1, IdKinds DEF IdOf
<1>8. \A e \in Nat : <<"EV", e>> \in EventTxns BY DEF EventTxns
<1>9. Listed(log) /\ OneRowAnId(log) /\ Rooted(log, box) /\ Posted(log, box) /\ Apart(box) /\ Inbox(box)
  BY DEF Agree
<1>10. Listed(log2) /\ OneRowAnId(log2)
  BY <1>9, <1>e, OneRowMore DEF Effect
<1>11. Rooted(log2, box2)
  <2>1. Rooted(log, box2) BY <1>3, <1>5, <1>9 DEF Rooted
  <2>2. ASSUME NEW row, Adds(log, log2, row), row.id \in {GeneratedId, id}
        PROVE  Rooted(log2, box2)
    <3>1. /\ Len(log) \in Nat /\ Len(log2) = Len(log) + 1 /\ log2[Len(log) + 1] = row
          /\ \A i \in 1..Len(log) : log2[i] = log[i]
      BY <1>9, <2>2, Appended DEF Adds
    <3>2. ASSUME NEW i \in 1..Len(log2), NEW e \in Nat, log2[i].id = <<"EV", e>>
          PROVE  e \in 1..Len(box2) /\ Processed(box2, e)
      <4>1. CASE i \in 1..Len(log) BY <4>1, <3>1, <3>2, <2>1 DEF Rooted
      <4>2. CASE i = Len(log) + 1
        <5>1. row.id = <<"EV", e>> /\ GeneratedId \notin EventTxns BY <4>2, <3>1, <3>2 DEF Senders
        <5>2. id = <<"EV", e>> BY <5>1, <2>2, <1>8
        <5>3. e = n BY <5>2, <1>6, <1>8
        <5> QED BY <5>3, <1>3, <1>4
      <4> QED BY <4>1, <4>2, <3>1
    <3> QED BY <3>2 DEF Rooted
  <2> QED BY <2>1, <2>2, <1>e DEF Effect, RowFor
<1>12. Posted(log2, box)
  BY <1>9, <1>e, PostedStays DEF Effect
<1>13. Posted(log2, box2)
  <2> SUFFICES ASSUME NEW e \in 1..Len(box2), Processed(box2, e), Posts(box2[e].msg)
               PROVE  \E i \in 1..Len(log2) : RowFor(log2[i], box2[e].msg, IdOf(box2, e))
    BY DEF Posted
  <2>1. CASE e \in 1..Len(box) BY <2>1, <1>1, <1>5, <1>12 DEF Posted
  <2>2. CASE e = n
    <3>1. PICK row : Adds(log, log2, row) /\ RowFor(row, m, id) BY <2>2, <1>4, <1>e DEF Effect
    <3>2. Len(log) \in Nat /\ Len(log2) = Len(log) + 1 /\ log2[Len(log) + 1] = row
      BY <1>9, <3>1, Appended DEF Adds
    <3>3. Len(log) + 1 \in 1..Len(log2) BY <3>2
    <3> QED BY <2>2, <3>1, <3>2, <3>3, <1>4
  <2> QED BY <2>1, <2>2, <1>2
<1>14. \A e \in 1..Len(box) : Processed(box, e) => IdOf(box, e) # id
  <2> SUFFICES ASSUME NEW e \in 1..Len(box), Processed(box, e), IdOf(box, e) = id
               PROVE  FALSE
    OBVIOUS
  <2>0. e \in Nat /\ e # n BY <1>3, <1>7
  <2>1. id # <<"EV", e>>
    <3>1. <<"EV", e>> # <<"EV", n>> BY <2>0
    <3> QED BY <3>1, <1>6, <1>8, <2>0
  <2>2. id # <<"EV", n>>
    <3>1. <<"EV", e>> # <<"EV", n>> BY <2>0
    <3> QED BY <3>1, <1>7, <1>8, <1>n
  <2>3. Posts(m) /\ Posts(box[e].msg) BY <2>1, <2>2, <1>6, <1>7
  <2>4. PICK row : Adds(log, log2, row) /\ RowFor(row, m, id) BY <2>3, <1>e DEF Effect
  <2>5. PICK i \in 1..Len(log) : RowFor(log[i], box[e].msg, IdOf(box, e)) BY <2>3, <1>9 DEF Posted
  <2>6. log[i].id = row.id /\ row.id # GeneratedId BY <2>4, <2>5, <1>6 DEF RowFor
  <2> QED BY <2>4, <2>6 DEF Adds
<1>15. Apart(box2)
  <2> SUFFICES ASSUME NEW e \in 1..Len(box2), NEW f \in 1..Len(box2), e # f,
                      Processed(box2, e), Processed(box2, f)
               PROVE  IdOf(box2, e) # IdOf(box2, f)
    BY DEF Apart
  <2>1. CASE e \in 1..Len(box) /\ f \in 1..Len(box) BY <2>1, <1>1, <1>5, <1>9 DEF Apart
  <2>2. CASE e = n /\ f \in 1..Len(box) BY <2>2, <1>1, <1>4, <1>5, <1>14
  <2>3. CASE f = n /\ e \in 1..Len(box) BY <2>3, <1>1, <1>4, <1>5, <1>14
  <2> QED BY <2>1, <2>2, <2>3, <1>2
<1> QED BY <1>1, <1>10, <1>11, <1>13, <1>15 DEF Agree, box2, x

-----------------------------------------------------------------------------
(* One request with several events *)

(* The invariant of the loop over events. *)
InAgreement(base, ms, i, acc) == DOMAIN acc.t = TableNames /\ Agree(acc.t.txns, acc.inbox)

Receipts == INSTANCE FoldLemmas WITH Op <- Receive, Holds <- InAgreement

(* Handling one event keeps inbox and ledger in agreement.                  *)
LEMMA ReceiveAgrees ==
  ASSUME Senders, NEW acc, NEW m, OwnMessage(m), DOMAIN acc.t = TableNames,
         Agree(acc.t.txns, acc.inbox)
  PROVE  /\ DOMAIN Receive(acc, m).t = TableNames
         /\ Agree(Receive(acc, m).t.txns, Receive(acc, m).inbox)
<1> DEFINE id == TxnId(m, Len(acc.inbox) + 1)
           t == IF Valid(m) THEN Handle(acc.t, m, id) ELSE Refused
           out == Receive(acc, m)
<1>1. CASE t = Refused
  <2>1. out = [t |-> acc.t, inbox |-> Append(acc.inbox, [msg |-> m, status |-> "FAILED"])]
    BY <1>1 DEF Receive
  <2>2. out.t = acc.t /\ out.inbox = Append(acc.inbox, [msg |-> m, status |-> "FAILED"]) BY <2>1
  <2> HIDE DEF out
  <2>3. Agree(acc.t.txns, Append(acc.inbox, [msg |-> m, status |-> "FAILED"])) BY AgreeFailed
  <2>4. DOMAIN out.t = TableNames /\ Agree(out.t.txns, out.inbox) BY <2>2, <2>3
  <2> QED BY <2>4 DEF out
<1>2. CASE t # Refused
  <2>1. Valid(m) /\ t = Handle(acc.t, m, id) BY <1>2
  <2>2. out = [t |-> t, inbox |-> Append(acc.inbox, [msg |-> m, status |-> "PROCESSED"])]
    BY <1>2 DEF Receive
  <2>3. out.t = t /\ out.inbox = Append(acc.inbox, [msg |-> m, status |-> "PROCESSED"]) BY <2>2
  <2> HIDE DEF out, t
  <2>4. DOMAIN t = TableNames /\ Effect(acc.t.txns, t.txns, m, id)
    <3> HIDE DEF id
    <3> QED BY <1>2, <2>1, HandleEffect
  <2>5. Agree(t.txns, Append(acc.inbox, [msg |-> m, status |-> "PROCESSED"]))
    BY <2>4, AgreeProcessed
  <2>6. DOMAIN out.t = TableNames /\ Agree(out.t.txns, out.inbox) BY <2>3, <2>4, <2>5
  <2> QED BY <2>6 DEF out
<1> QED BY <1>1, <1>2

(* So does handling a sequence of events.                                   *)
LEMMA ReceiptsAgree ==
  ASSUME Senders, NEW base, NEW T, NEW ms \in Seq(T), \A i \in 1..Len(ms) : OwnMessage(ms[i]),
         DOMAIN base.t = TableNames, Agree(base.t.txns, base.inbox)
  PROVE  Agree(FoldLeft(Receive, base, ms).t.txns, FoldLeft(Receive, base, ms).inbox)
<1>1. FoldLeft(Receive, base, ms) = Receipts!Fold(base, ms)
  BY DEF Receipts!Fold, Receipts!FoldLeft, Receipts!MapThenFoldSet, Receipts!Max,
         FoldLeft, MapThenFoldSet, Max
<1>2. InAgreement(base, ms, 0, base) BY DEF InAgreement
<1>3. ASSUME NEW i \in 1..Len(ms), NEW acc, InAgreement(base, ms, i-1, acc)
      PROVE  InAgreement(base, ms, i, Receive(acc, ms[i]))
  BY <1>3, ReceiveAgrees DEF InAgreement
<1>4. InAgreement(base, ms, Len(ms), Receipts!Fold(base, ms)) BY <1>2, <1>3, Receipts!FoldHolds
<1> QED BY <1>1, <1>4 DEF InAgreement

-----------------------------------------------------------------------------
(* Files *)

(* What a row of a file does to the ledger. *)
RowEffect(log, log2) ==
  log2 = log \/ \E row : Adds(log, log2, row) /\ row.id \notin EventTxns

(* How the handler of a row reports. *)
Outcomes == {"created", "updated", "skipped"}

(* Setting a balance posts at most one row, with an id of its own.          *)
LEMMA BalanceRowEffect ==
  ASSUME Senders, NEW t, DOMAIN t = TableNames, NEW r, BalanceRow(t, r) # Refused
  PROVE  /\ DOMAIN BalanceRow(t, r).t = TableNames /\ BalanceRow(t, r).res \in Outcomes
         /\ RowEffect(t.txns, BalanceRow(t, r).t.txns)
<1> DEFINE q == r.qty * r.units
           known == WithLot(t, r.lot)
           counted == CountIn(known, r.loc, r.lot, r.state, q)
           request == [Plain("RECEIPT", r.loc, r.lot, q) EXCEPT !.to = r.state]
           received == PostIn(known, request)
           out == BalanceRow(t, r)
<1>1. /\ {"id", "type", "qty", "to"} \subseteq DOMAIN request /\ request.id = GeneratedId
  BY DEF Plain
<1>2. DOMAIN known = TableNames /\ known.txns = t.txns BY WithLotKeeps
<1>3. \/ out = Taken("skipped", known)
      \/ counted # Refused /\ \E res \in Outcomes : out = Taken(res, counted)
      \/ received # Refused /\ \E res \in Outcomes : out = Taken(res, received)
  BY DEF BalanceRow, Outcomes
<1> HIDE DEF out, known, request, q
<1>4. counted # Refused => DOMAIN counted = TableNames /\ RowEffect(t.txns, counted.txns)
  BY <1>2, CountInAdds DEF RowEffect, Senders
<1>5. received # Refused => DOMAIN received = TableNames /\ RowEffect(t.txns, received.txns)
  BY <1>1, <1>2, PostInAdds DEF RowEffect, Senders
<1>6. RowEffect(t.txns, known.txns) BY <1>2 DEF RowEffect
<1> HIDE DEF counted, received
<1>7. DOMAIN out.t = TableNames /\ out.res \in Outcomes /\ RowEffect(t.txns, out.t.txns)
  BY <1>2, <1>3, <1>4, <1>5, <1>6 DEF Taken, Outcomes
<1> QED BY <1>7 DEF out

(* A transaction posts at most one row, under its id if that is new.        *)
LEMMA TransactionRowEffect ==
  ASSUME Senders, NEW t, DOMAIN t = TableNames, NEW r, r.txn \notin EventTxns,
         TransactionRow(t, r) # Refused
  PROVE  /\ DOMAIN TransactionRow(t, r).t = TableNames /\ TransactionRow(t, r).res \in Outcomes
         /\ RowEffect(t.txns, TransactionRow(t, r).t.txns)
<1> DEFINE known == WithLot(t, r.lot)
           id == IF r.txn = Absent THEN GeneratedId ELSE r.txn
           request == [Plain(r.type, r.loc, r.lot, r.qty * r.units) EXCEPT !.toLoc = r.toLoc, !.id = id]
           posted == PostIn(known, request)
           out == TransactionRow(t, r)
<1>1. /\ {"id", "type", "qty", "to"} \subseteq DOMAIN request /\ request.id = id
  BY DEF Plain
<1>2. DOMAIN known = TableNames /\ known.txns = t.txns BY WithLotKeeps
<1>3. id \notin EventTxns BY DEF Senders
<1>4. \/ out = [Taken("skipped", known) EXCEPT !.warn = 1]
      \/ posted # Refused /\ out = Taken("created", posted)
  BY DEF TransactionRow
<1> HIDE DEF out, known, request, id
<1>5. posted # Refused => DOMAIN posted = TableNames /\ RowEffect(t.txns, posted.txns)
  BY <1>1, <1>2, <1>3, PostInAdds DEF RowEffect
<1>6. RowEffect(t.txns, known.txns) BY <1>2 DEF RowEffect
<1> HIDE DEF posted
<1>7. DOMAIN out.t = TableNames /\ out.res \in Outcomes /\ RowEffect(t.txns, out.t.txns)
  BY <1>2, <1>4, <1>5, <1>6 DEF Taken, Outcomes
<1> QED BY <1>7 DEF out

(* The rows of every other entity leave the ledger alone.                   *)
LEMMA OtherRowEffect ==
  ASSUME NEW t, DOMAIN t = TableNames, NEW r, NEW entity \in Entities \ {"balances", "transactions"},
         IngestRow(t, entity, r) # Refused
  PROVE  /\ DOMAIN IngestRow(t, entity, r).t = TableNames /\ IngestRow(t, entity, r).res \in Outcomes
         /\ IngestRow(t, entity, r).t.txns = t.txns
<1> DEFINE out == IngestRow(t, entity, r)
           Sets(f) == \E res \in Outcomes : \E v : out = Taken(res, [t EXCEPT ![f] = v])
<1>0. out # Refused OBVIOUS
<1>1. CASE entity = "demand"
  <2>1. out = DemandUpload(t, r) BY <1>1 DEF IngestRow, MasterEntities, AppendEntities
  <2>2. Sets("demand") BY <1>0, <2>1 DEF DemandUpload, Outcomes
  <2> QED BY <2>2 DEF Taken, TableNames
<1>2. CASE entity = "forecast"
  <2>1. out = ForecastUpload(t, r) BY <1>2 DEF IngestRow, MasterEntities, AppendEntities
  <2>2. Sets("forecast") BY <1>0, <2>1 DEF ForecastUpload, SetForecast, Outcomes
  <2> QED BY <2>2 DEF Taken, TableNames
<1>3. CASE entity = "purchase_orders"
  <2>1. out = PurchaseOrderRow(t, r) BY <1>3 DEF IngestRow, MasterEntities, AppendEntities
  <2> DEFINE old == t.po[r.po]
             eta == IF r.eta # Absent THEN r.eta ELSE r.promised
             got == IF r.received # Absent THEN r.received ELSE 0
             line == [sku |-> r.sku, ordered |-> r.qty, received |-> got, transit |-> 0,
                      status |-> "ACTIVE", eta |-> eta]
             mine == {i \in DOMAIN old.lines : old.lines[i].sku = r.sku}
             edit(ln) == [ln EXCEPT !.ordered = r.qty, !.eta = IF r.eta # Absent THEN r.eta ELSE @,
                                    !.received = IF r.received # Absent THEN r.received ELSE @]
             first == NewOrder(r.supplier, r.loc, r.sku, r.qty, got, r.promised, eta)
             lines == IF mine # {} THEN [old.lines EXCEPT ![Min(mine)] = edit(@)]
                      ELSE Append(old.lines, line)
             created == [t EXCEPT !.po[r.po] = first]
             updated == [t EXCEPT !.po[r.po].lines = lines]
  <2>2. PurchaseOrderRow(t, r) \in {Refused, Taken("created", created), Taken("updated", updated)}
    <3> DEFINE bad == r.sku \notin Skus \/ ~Known(t, {r.supplier}) \/ r.qty <= 0
               longPast == r.eta # Absent /\ r.eta + 3650 < Today
    <3>1. PurchaseOrderRow(t, r) = IF bad THEN Refused ELSE IF longPast THEN Refused
            ELSE IF old = Absent THEN Taken("created", created) ELSE Taken("updated", updated)
      BY Zenon DEF PurchaseOrderRow
    <3> HIDE DEF bad, longPast, old, created, updated
    <3> QED BY <3>1
  <2> HIDE DEF first, lines
  <2>3. /\ DOMAIN created = TableNames /\ created.txns = t.txns
        /\ DOMAIN updated = TableNames /\ updated.txns = t.txns
    BY DEF TableNames
  <2> HIDE DEF out, created, updated
  <2>4. out \in {Taken("created", created), Taken("updated", updated)} BY <1>0, <2>1, <2>2
  <2>5. DOMAIN out.t = TableNames /\ out.res \in Outcomes /\ out.t.txns = t.txns
    BY <2>3, <2>4 DEF Taken, Outcomes
  <2> QED BY <2>5 DEF out
<1>4. CASE entity \in MasterEntities
  <2>1. out = MasterRow(t, r) BY <1>4 DEF IngestRow, MasterEntities, AppendEntities
  <2>2. Sets("master") BY <1>0, <2>1 DEF MasterRow, Outcomes
  <2> QED BY <2>2 DEF Taken, TableNames
<1>5. CASE entity \in AppendEntities
  <2>1. out = AppendRow(t, entity, r) BY <1>5 DEF IngestRow, MasterEntities, AppendEntities
  <2>2. Sets("loads") BY <1>0, <2>1 DEF AppendRow, Outcomes
  <2> QED BY <2>2 DEF Taken, TableNames
<1> QED BY <1>1, <1>2, <1>3, <1>4, <1>5 DEF Entities

(* One row of a file appends at most one row to the ledger.                 *)
LEMMA IngestRowEffect ==
  ASSUME Senders, NEW t, DOMAIN t = TableNames, NEW r, NEW entity \in Entities,
         entity = "transactions" => r.txn \notin EventTxns,
         IngestRow(t, entity, r) # Refused
  PROVE  /\ DOMAIN IngestRow(t, entity, r).t = TableNames /\ IngestRow(t, entity, r).res \in Outcomes
         /\ RowEffect(t.txns, IngestRow(t, entity, r).t.txns)
<1>1. CASE entity = "balances"
  <2>1. IngestRow(t, entity, r) = BalanceRow(t, r) BY <1>1 DEF IngestRow, MasterEntities, AppendEntities
  <2> QED BY <2>1, BalanceRowEffect
<1>2. CASE entity = "transactions"
  <2>1. IngestRow(t, entity, r) = TransactionRow(t, r) BY <1>2 DEF IngestRow, MasterEntities, AppendEntities
  <2> QED BY <1>2, <2>1, TransactionRowEffect
<1>3. CASE entity \notin {"balances", "transactions"}
  BY <1>3, OtherRowEffect DEF RowEffect
<1> QED BY <1>1, <1>2, <1>3

AccFields == {"t", "entity", "created", "updated", "skipped", "warnings", "errors", "errorRows"}

(* One row of a file: it is left out, raises, or is taken.                  *)
LEMMA StepCases ==
  ASSUME NEW acc, DOMAIN acc = AccFields, NEW r
  PROVE  LET out == IngestRow(acc.t, acc.entity, r)
             next == Step(acc, r)
         IN  /\ DOMAIN next = AccFields /\ next.entity = acc.entity
             /\ \/ r.bad > 0 /\ next = acc
                \/ /\ ~(r.bad > 0) /\ out = Refused /\ next.t = acc.t /\ next.errors = acc.errors + 1
                   /\ next.created = acc.created /\ next.updated = acc.updated /\ next.skipped = acc.skipped
                \/ /\ ~(r.bad > 0) /\ out # Refused /\ next.t = out.t /\ next.errors = acc.errors
                   /\ next.created = IF out.res = "created" THEN acc.created + 1 ELSE acc.created
                   /\ next.updated = IF out.res = "updated" THEN acc.updated + 1 ELSE acc.updated
                   /\ next.skipped = IF out.res = "skipped" THEN acc.skipped + 1 ELSE acc.skipped
<1> DEFINE out == IngestRow(acc.t, acc.entity, r)
           next == Step(acc, r)
<1>1. CASE r.bad > 0 BY <1>1 DEF Step
<1>2. CASE ~(r.bad > 0) /\ out = Refused
  <2>1. next = [acc EXCEPT !.errors = @ + 1, !.errorRows = @ + 1] BY <1>2 DEF Step
  <2> HIDE DEF out, next
  <2>2. /\ DOMAIN next = AccFields /\ next.entity = acc.entity /\ next.t = acc.t
        /\ next.errors = acc.errors + 1 /\ next.created = acc.created
        /\ next.updated = acc.updated /\ next.skipped = acc.skipped
    BY <2>1 DEF AccFields
  <2> QED BY <1>2, <2>2 DEF out, next
<1>3. CASE ~(r.bad > 0) /\ out # Refused
  <2>1. next = [acc EXCEPT !.t = out.t, !.warnings = @ + out.warn,
                           !.created = IF out.res = "created" THEN @ + 1 ELSE @,
                           !.updated = IF out.res = "updated" THEN @ + 1 ELSE @,
                           !.skipped = IF out.res = "skipped" THEN @ + 1 ELSE @]
    BY <1>3 DEF Step
  <2> HIDE DEF out, next
  <2>2. /\ DOMAIN next = AccFields /\ next.entity = acc.entity /\ next.t = out.t
        /\ next.errors = acc.errors
        /\ next.created = IF out.res = "created" THEN acc.created + 1 ELSE acc.created
        /\ next.updated = IF out.res = "updated" THEN acc.updated + 1 ELSE acc.updated
        /\ next.skipped = IF out.res = "skipped" THEN acc.skipped + 1 ELSE acc.skipped
    BY <2>1 DEF AccFields
  <2> QED BY <1>3, <2>2 DEF out, next
<1> QED BY <1>1, <1>2, <1>3

(* What the loop over the rows of a file starts from.                       *)
LEMMA ParsedFields ==
  ASSUME NEW t, NEW file
  PROVE  /\ DOMAIN Parsed(t, file) = AccFields
         /\ Parsed(t, file).t = t /\ Parsed(t, file).entity = file.entity
         /\ Parsed(t, file).created = 0 /\ Parsed(t, file).updated = 0 /\ Parsed(t, file).skipped = 0
         /\ Parsed(t, file).errors = BadFields(file.rows)
  BY DEF Parsed, AccFields

(* The invariant of the loop over rows. *)
LoadsInAgreement(base, rows, i, acc) ==
  /\ DOMAIN acc = AccFields /\ acc.entity = base.entity
  /\ DOMAIN acc.t = TableNames /\ Agree(acc.t.txns, inbox)

Loads == INSTANCE FoldLemmas WITH Op <- Step, Holds <- LoadsInAgreement

(* A file keeps inbox and ledger in agreement.                              *)
LEMMA IngestAgrees ==
  ASSUME Senders, NEW t, DOMAIN t = TableNames, Agree(t.txns, inbox), NEW file, SoundFile(file)
  PROVE  /\ DOMAIN Ingest(t, file) = AccFields /\ DOMAIN Ingest(t, file).t = TableNames
         /\ Agree(Ingest(t, file).t.txns, inbox)
<1> DEFINE base == Parsed(t, file)
           rows == file.rows
<1>1. Ingest(t, file) = Loads!Fold(base, rows)
  BY DEF Ingest, Loads!Fold, Loads!FoldLeft, Loads!MapThenFoldSet, Loads!Max,
         FoldLeft, MapThenFoldSet, Max
<1>2. LoadsInAgreement(base, rows, 0, base) /\ base.entity = file.entity
  BY ParsedFields DEF LoadsInAgreement
<1> HIDE DEF base
<1>3. rows \in Seq(Range(rows)) /\ DOMAIN rows = 1..Len(rows)
  <2>1. rows \in Seq(Range(rows)) BY DEF SoundFile
  <2> HIDE DEF rows
  <2> QED BY <2>1
<1>4. ASSUME NEW i \in 1..Len(rows), NEW acc, LoadsInAgreement(base, rows, i-1, acc)
      PROVE  LoadsInAgreement(base, rows, i, Step(acc, rows[i]))
  <2> DEFINE r == rows[i]
             out == IngestRow(acc.t, acc.entity, r)
             next == Step(acc, r)
  <2>1. acc.entity \in Entities /\ (acc.entity = "transactions" => r.txn \notin EventTxns)
    BY <1>2, <1>3, <1>4 DEF SoundFile, LoadsInAgreement
  <2>2. /\ DOMAIN next = AccFields /\ next.entity = acc.entity
        /\ next.t = acc.t \/ (out # Refused /\ next.t = out.t)
    <3>1. DOMAIN acc = AccFields BY <1>4 DEF LoadsInAgreement
    <3> HIDE DEF r
    <3> QED BY <3>1, StepCases
  <2>3. ASSUME out # Refused
        PROVE  DOMAIN out.t = TableNames /\ Agree(out.t.txns, inbox)
    <3> HIDE DEF r
    <3>1. DOMAIN out.t = TableNames /\ RowEffect(acc.t.txns, out.t.txns)
      BY <1>4, <2>1, <2>3, IngestRowEffect DEF LoadsInAgreement
    <3> HIDE DEF out
    <3> QED BY <1>4, <3>1, AgreeRow DEF RowEffect, LoadsInAgreement
  <2> HIDE DEF next, out
  <2>4. LoadsInAgreement(base, rows, i, next) BY <1>4, <2>2, <2>3 DEF LoadsInAgreement
  <2> QED BY <2>4 DEF next
<1>5. LoadsInAgreement(base, rows, Len(rows), Loads!Fold(base, rows))
  <2> HIDE DEF rows
  <2> QED BY <1>2, <1>3, <1>4, Loads!FoldHolds
<1> QED BY <1>1, <1>5 DEF LoadsInAgreement

-----------------------------------------------------------------------------
(* The inductive invariant *)

DocumentNames == TableNames \ {"balance", "txns", "quality"}

IntakeInv ==
  /\ scope \in DOMAIN Scopes
  /\ docs = [f \in DocumentNames |-> docs[f]]
  /\ uploads \in Nat
  /\ Agree(txns, inbox)

(* The record of all tables.                                                *)
LEMMA AllTables ==
  ASSUME docs = [f \in DocumentNames |-> docs[f]]
  PROVE  /\ DOMAIN docs = DocumentNames /\ DOMAIN Tables = TableNames
         /\ Tables = [f \in TableNames |-> Tables[f]]
         /\ Tables.balance = balance /\ Tables.txns = txns /\ Tables.quality = quality
         /\ \A f \in DocumentNames : Tables[f] = docs[f]
<1>1. DOMAIN docs = DocumentNames OBVIOUS
<1>2. DocumentNames \cup LedgerTables = TableNames BY DEF DocumentNames, LedgerTables, TableNames
<1> QED BY <1>1, <1>2 DEF Tables, DocumentNames, TableNames

(* At the start there is neither an event nor a row.                        *)
LEMMA AgreeAtStart == Agree(<<>>, <<>>)
<1>1. Listed(<<>>)
  <2>1. <<>> \in Seq({}) OBVIOUS
  <2> QED BY <2>1, ListedOfSeq
<1>2. Len(<<>>) = 0 OBVIOUS
<1>3. 1..Len(<<>>) = {}
  <2>1. 1..0 = {} OBVIOUS
  <2> QED BY <1>2, <2>1
<1> QED BY <1>1, <1>3 DEF Agree, Inbox, OneRowAnId, Rooted, Posted, Apart

(* The invariant holds before anything came in.                             *)
LEMMA IntakeInvInit == IntakeInit => IntakeInv
<1> SUFFICES ASSUME IntakeInit PROVE IntakeInv OBVIOUS
<1>1. txns = <<>> /\ inbox = <<>> /\ scope \in DOMAIN Scopes /\ docs = NoDocuments /\ uploads = 0
  BY DEF IntakeInit, Init
<1>2. docs = [f \in DocumentNames |-> docs[f]]
  BY <1>1 DEF NoDocuments, DocumentNames, TableNames
<1> QED BY <1>1, <1>2, AgreeAtStart DEF IntakeInv

(* What a request stores are the tables it computed.                        *)
LEMMA StoreKeeps ==
  ASSUME docs = [f \in DocumentNames |-> docs[f]], NEW t, Store(t)
  PROVE  docs' = [f \in DocumentNames |-> docs'[f]] /\ txns' = t.txns
<1>1. DOMAIN docs = DocumentNames OBVIOUS
<1>2. docs' = [f \in DocumentNames |-> t[f]] /\ txns' = t.txns BY <1>1 DEF Store
<1> QED BY <1>2

(* A request with events.                                                   *)
LEMMA EventsAgree ==
  ASSUME Senders, IntakeInv, NEW t, DOMAIN t = TableNames, t.txns = txns,
         NEW T, NEW ms \in Seq(T), \A i \in 1..Len(ms) : OwnMessage(ms[i]), ReceiveAll(t, ms)
  PROVE  IntakeInv'
<1> DEFINE base == [t |-> t, inbox |-> inbox]
           out == FoldLeft(Receive, base, ms)
<1>1. Store(out.t) /\ inbox' = out.inbox /\ scope' = scope /\ uploads' = uploads BY DEF ReceiveAll
<1>2. base.t = t /\ base.inbox = inbox OBVIOUS
<1> HIDE DEF base
<1>3. Agree(out.t.txns, out.inbox) BY <1>2, ReceiptsAgree DEF IntakeInv
<1> HIDE DEF out
<1>4. docs' = [f \in DocumentNames |-> docs'[f]] /\ txns' = out.t.txns
  BY <1>1, StoreKeeps DEF IntakeInv
<1> QED BY <1>1, <1>3, <1>4 DEF IntakeInv

(* A published event keeps it,                                              *)
LEMMA PublishKeeps ==
  ASSUME Senders, IntakeInv, Publish
  PROVE  IntakeInv'
<1>1. PICK m \in Scopes[scope].msgs : ReceiveAll(Tables, <<m>>) BY DEF Publish
<1>2. OwnMessage(m) BY DEF Senders, IntakeInv
<1>3. DOMAIN Tables = TableNames /\ Tables.txns = txns BY AllTables DEF IntakeInv
<1>4. <<m>> \in Seq({m}) /\ \A i \in 1..Len(<<m>>) : <<m>>[i] = m OBVIOUS
<1>5. \A i \in 1..Len(<<m>>) : OwnMessage(<<m>>[i]) BY <1>2, <1>4
<1> QED BY <1>1, <1>3, <1>4, <1>5, EventsAgree

(* an applied EDI document keeps it,                                        *)
LEMMA ApplyEdiKeeps ==
  ASSUME Senders, IntakeInv, ApplyEdi
  PROVE  IntakeInv'
<1>1. PICK x \in Scopes[scope].edi :
        ReceiveAll([Tables EXCEPT !.loads = @ \o [i \in 1..x.records |-> <<"external_balances", {}>>]],
                   x.events)
  BY DEF ApplyEdi
<1>2. x.events \in Seq(Range(x.events)) /\ \A i \in DOMAIN x.events : OwnMessage(x.events[i])
  BY DEF Senders, IntakeInv
<1> DEFINE ms == x.events
           t == [Tables EXCEPT !.loads = @ \o [i \in 1..x.records |-> <<"external_balances", {}>>]]
<1>3. DOMAIN Tables = TableNames /\ Tables.txns = txns BY AllTables DEF IntakeInv
<1>4. DOMAIN t = TableNames /\ t.txns = txns BY <1>3 DEF TableNames
<1>5. ReceiveAll(t, ms) BY <1>1
<1>6. ms \in Seq(Range(ms)) /\ \A i \in DOMAIN ms : OwnMessage(ms[i]) BY <1>2
<1> HIDE DEF t, ms
<1>7. \A i \in 1..Len(ms) : OwnMessage(ms[i])
  <2>1. DOMAIN ms = 1..Len(ms) BY <1>6
  <2> QED BY <1>6, <2>1
<1> QED BY <1>4, <1>5, <1>6, <1>7, EventsAgree

(* an uploaded file keeps it,                                               *)
LEMMA UploadKeeps ==
  ASSUME Senders, IntakeInv, NEW file \in Scopes[scope].files, NEW commit, NEW allOrNothing,
         Upload(file, commit, allOrNothing)
  PROVE  IntakeInv'
<1> DEFINE out == Ingest(Tables, file)
           rep == Outcome(out, file, commit, allOrNothing)
           t == IF rep.committed
                THEN [out.t EXCEPT !.sync[SourceOf(file.entity)] = @ + out.created + out.updated]
                ELSE Tables
<1>1. Store(t) /\ inbox' = inbox /\ scope' = scope /\ uploads' = uploads + 1 BY DEF Upload
<1>2. SoundFile(file) BY DEF Senders, IntakeInv
<1>3. DOMAIN Tables = TableNames /\ Tables.txns = txns BY AllTables DEF IntakeInv
<1>4. DOMAIN out.t = TableNames /\ Agree(out.t.txns, inbox) BY <1>2, <1>3, IngestAgrees DEF IntakeInv
<1> HIDE DEF out, rep
<1>5. t.txns \in {txns, out.t.txns} BY <1>3, <1>4 DEF TableNames
<1> HIDE DEF t
<1>6. docs' = [f \in DocumentNames |-> docs'[f]] /\ txns' = t.txns
  BY <1>1, StoreKeeps DEF IntakeInv
<1> QED BY <1>1, <1>4, <1>5, <1>6 DEF IntakeInv

(* Statuses other than PROCESSED do not matter.                             *)
LEMMA AgreeRestated ==
  ASSUME NEW log, NEW box, Agree(log, box), NEW box2, Listed(box2), Len(box2) = Len(box),
         \A f \in 1..Len(box) : /\ box2[f].msg = box[f].msg
                                /\ box2[f] = [msg |-> box2[f].msg, status |-> box2[f].status]
                                /\ box2[f].status = "PROCESSED" <=> box[f].status = "PROCESSED"
  PROVE  Agree(log, box2)
<1>1. \A f \in 1..Len(box) : /\ Processed(box2, f) <=> Processed(box, f)
                             /\ IdOf(box2, f) = IdOf(box, f)
  BY DEF Processed, IdOf
<1>2. Inbox(box2) BY DEF Agree, Inbox
<1>3. Rooted(log, box2) BY <1>1 DEF Agree, Rooted
<1>4. Posted(log, box2) BY <1>1 DEF Agree, Posted
<1>5. Apart(box2) BY <1>1 DEF Agree, Apart
<1> QED BY <1>2, <1>3, <1>4, <1>5 DEF Agree

Restated(box, e) == [box EXCEPT ![e].status = IF @ = "PROCESSED" THEN @ ELSE "DUPLICATE"]

(* An event that comes again keeps its message, and is processed if it was. *)
LEMMA RestatedKeeps ==
  ASSUME NEW box, Inbox(box), NEW e \in DOMAIN box
  PROVE  /\ Listed(Restated(box, e)) /\ Len(Restated(box, e)) = Len(box)
         /\ DOMAIN Restated(box, e) = DOMAIN box /\ DOMAIN box = 1..Len(box)
         /\ \A f \in 1..Len(box) :
              /\ Restated(box, e)[f].msg = box[f].msg
              /\ Restated(box, e)[f] = [msg |-> Restated(box, e)[f].msg,
                                        status |-> Restated(box, e)[f].status]
              /\ Restated(box, e)[f].status = "PROCESSED" <=> box[f].status = "PROCESSED"
<1> DEFINE box2 == Restated(box, e)
<1> DEFINE x == [box[e] EXCEPT !.status = IF @ = "PROCESSED" THEN @ ELSE "DUPLICATE"]
<1>1. box2 = [box EXCEPT ![e] = x] BY DEF Restated
<1> HIDE DEF box2
<1>2. box \in Seq(Range(box)) BY DEF Inbox, Listed
<1>3. DOMAIN box = 1..Len(box) /\ Len(box) \in Nat /\ box \in [1..Len(box) -> Range(box)]
  <2> HIDE DEF Range
  <2> QED BY <1>2
<1>4. box[e] = [msg |-> box[e].msg, status |-> box[e].status] BY <1>3 DEF Inbox
<1>5. /\ x = [msg |-> x.msg, status |-> x.status] /\ x.msg = box[e].msg
      /\ x.status = "PROCESSED" <=> box[e].status = "PROCESSED"
  BY <1>4
<1> HIDE DEF x
<1>6. Listed(box2) /\ Len(box2) = Len(box) /\ DOMAIN box2 = DOMAIN box
  <2> DEFINE T == Range(box) \cup {x}
  <2>1. box2 \in [1..Len(box) -> T] BY <1>1, <1>3
  <2> HIDE DEF T
  <2> QED BY <1>3, <2>1, ListedOfFunction
<1>7. ASSUME NEW f \in 1..Len(box)
      PROVE  /\ box2[f].msg = box[f].msg
             /\ box2[f] = [msg |-> box2[f].msg, status |-> box2[f].status]
             /\ box2[f].status = "PROCESSED" <=> box[f].status = "PROCESSED"
  <2>1. CASE f = e BY <2>1, <1>1, <1>3, <1>5
  <2>2. CASE f # e
    <3>1. box2[f] = box[f] BY <2>2, <1>1, <1>3
    <3>2. box[f] = [msg |-> box[f].msg, status |-> box[f].status] BY DEF Inbox
    <3> QED BY <3>1, <3>2
  <2> QED BY <2>1, <2>2
<1> QED BY <1>3, <1>6, <1>7 DEF box2

(* and so does a retried delivery.                                          *)
LEMMA ResendKeeps ==
  ASSUME IntakeInv, NEW e \in DOMAIN inbox, Resend(e)
  PROVE  IntakeInv'
<1>1. /\ inbox' = Restated(inbox, e)
      /\ txns' = txns /\ docs' = docs /\ scope' = scope /\ uploads' = uploads
  BY DEF Resend, Restated
<1> DEFINE box2 == Restated(inbox, e)
<1>2. Inbox(inbox) BY DEF IntakeInv, Agree
<1>3. /\ Listed(box2) /\ Len(box2) = Len(inbox)
      /\ \A f \in 1..Len(inbox) :
           /\ box2[f].msg = inbox[f].msg
           /\ box2[f] = [msg |-> box2[f].msg, status |-> box2[f].status]
           /\ box2[f].status = "PROCESSED" <=> inbox[f].status = "PROCESSED"
  BY <1>2, RestatedKeeps
<1> HIDE DEF box2
<1>4. Agree(txns, box2) BY <1>3, AgreeRestated DEF IntakeInv
<1>5. Agree(txns', inbox') BY <1>1, <1>4 DEF box2
<1> QED BY <1>1, <1>5 DEF IntakeInv

(* Every step keeps it.                                                     *)
LEMMA IntakeInvNext ==
  ASSUME Senders, IntakeInv, [IntakeNext]_intakeVars
  PROVE  IntakeInv'
<1>1. CASE Publish BY <1>1, PublishKeeps
<1>2. CASE ApplyEdi BY <1>2, ApplyEdiKeeps
<1>3. CASE \E e \in DOMAIN inbox : Resend(e) BY <1>3, ResendKeeps
<1>4. CASE \E file \in Scopes[scope].files, commit, allOrNothing \in BOOLEAN :
             Upload(file, commit, allOrNothing)
  BY <1>4, UploadKeeps
<1>5. CASE UNCHANGED intakeVars
  BY <1>5 DEF intakeVars, IntakeInv
<1> QED BY <1>1, <1>2, <1>3, <1>4, <1>5 DEF IntakeNext

(* What the agreement of inbox and ledger means event by event.             *)
LEMMA EventLedgerHolds ==
  ASSUME Senders, IntakeInv
  PROVE  EventLedger
<1>0. /\ Listed(txns) /\ Inbox(inbox) /\ OneRowAnId(txns) /\ Rooted(txns, inbox)
      /\ Posted(txns, inbox) /\ Apart(inbox)
  BY DEF IntakeInv, Agree
<1>1. DOMAIN txns = 1..Len(txns) /\ DOMAIN inbox = 1..Len(inbox) /\ Len(inbox) \in Nat
  <2>1. txns \in Seq(Range(txns)) /\ inbox \in Seq(Range(inbox)) BY <1>0 DEF Inbox, Listed
  <2> HIDE DEF Range
  <2> QED BY <2>1
<1> SUFFICES ASSUME NEW e \in DOMAIN inbox, Posts(inbox[e].msg)
             PROVE  LET m == inbox[e].msg
                        mine == {i \in DOMAIN txns : txns[i].id = TxnId(m, e)}
                    IN  IF inbox[e].status = "PROCESSED"
                        THEN \E i \in mine : /\ mine = {i} /\ txns[i].type = PostedType(m)
                                             /\ m.type = "TransferCompleted" \/ txns[i].qty = m.qty
                                             /\ \A f \in DOMAIN inbox \ {e} :
                                                  inbox[f].status = "PROCESSED" =>
                                                    TxnId(inbox[f].msg, f) # TxnId(m, e)
                        ELSE TxnId(m, e) = <<"EV", e>> => mine = {}
  BY DEF EventLedger, Posts
<1> DEFINE m == inbox[e].msg
           id == TxnId(m, e)
           mine == {i \in DOMAIN txns : txns[i].id = id}
<1>2. e \in 1..Len(inbox) /\ e \in Nat /\ OwnMessage(m) BY <1>0, <1>1 DEF Inbox
<1>3. CASE Processed(inbox, e)
  <2>1. PICK i \in 1..Len(txns) : RowFor(txns[i], m, id)
    BY <1>0, <1>2, <1>3 DEF Posted, IdOf
  <2>2. id # GeneratedId BY <1>2, IdKinds
  <2>3. i \in mine /\ mine = {i} BY <1>0, <1>1, <2>1, <2>2 DEF OneRowAnId, RowFor
  <2>4. \A f \in DOMAIN inbox \ {e} : inbox[f].status = "PROCESSED" => TxnId(inbox[f].msg, f) # id
    BY <1>0, <1>1, <1>2, <1>3 DEF Apart, Processed, IdOf
  <2>5. /\ txns[i].type = PostedType(m)
        /\ m.type = "TransferCompleted" \/ txns[i].qty = m.qty
    BY <2>1 DEF RowFor
  <2> HIDE DEF mine, id
  <2>6. \E j \in mine : /\ mine = {j} /\ txns[j].type = PostedType(m)
                        /\ m.type = "TransferCompleted" \/ txns[j].qty = m.qty
                        /\ \A f \in DOMAIN inbox \ {e} :
                             inbox[f].status = "PROCESSED" => TxnId(inbox[f].msg, f) # id
    BY <2>3, <2>4, <2>5
  <2> QED BY <1>3, <2>6 DEF mine, id, Processed
<1>4. CASE ~Processed(inbox, e)
  <2>1. id = <<"EV", e>> => mine = {} BY <1>0, <1>1, <1>2, <1>4 DEF Rooted
  <2> QED BY <1>4, <2>1 DEF Processed
<1> QED BY <1>3, <1>4

(* The inbox and the ledger agree: whatever the senders send, in whatever    *)
(* order, an event that moves stock has exactly one row of the ledger if it *)
(* was processed, and none if it was not.                                   *)
THEOREM InboxAndLedgerAgree ==
  ASSUME Senders
  PROVE  IntakeSpec => []EventLedger
<1>1. IntakeInit => IntakeInv BY IntakeInvInit
<1>2. IntakeInv /\ [IntakeNext]_intakeVars => IntakeInv' BY IntakeInvNext
<1>3. IntakeInv => EventLedger BY EventLedgerHolds
<1> QED BY <1>1, <1>2, <1>3, PTL DEF IntakeSpec

-----------------------------------------------------------------------------
(* Steps *)

(* What a request stores is what can be read afterwards.                    *)
LEMMA StoredTables ==
  ASSUME docs = [f \in DocumentNames |-> docs[f]], NEW t, t = [f \in TableNames |-> t[f]], Store(t)
  PROVE  Tables' = t
<1>1. DOMAIN docs = DocumentNames OBVIOUS
<1>2. /\ docs' = [f \in DocumentNames |-> t[f]] /\ balance' = t.balance
      /\ txns' = t.txns /\ quality' = t.quality
  BY <1>1 DEF Store
<1>3. DOMAIN docs' = DocumentNames /\ \A f \in DocumentNames : docs'[f] = t[f] BY <1>2
<1>4. DocumentNames \cup LedgerTables = TableNames BY DEF DocumentNames, LedgerTables, TableNames
<1> DEFINE get(f) == CASE f = "balance" -> balance'
                       [] f = "txns" -> txns'
                       [] f = "quality" -> quality'
                       [] OTHER -> docs'[f]
<1>5. Tables' = [f \in DOMAIN docs' \cup LedgerTables |-> get(f)] BY DEF Tables
<1>6. \A f \in TableNames : get(f) = t[f] BY <1>2, <1>3 DEF DocumentNames
<1> HIDE DEF get
<1> QED BY <1>3, <1>4, <1>5, <1>6

(* The invariant of the loop over events: a change of the tables has an     *)
(* event that was processed.                                                *)
Accounted(base, ms, i, acc) ==
  /\ Listed(acc.inbox) /\ Len(acc.inbox) = Len(base.inbox) + i
  /\ \A e \in 1..Len(base.inbox) : acc.inbox[e] = base.inbox[e]
  /\ acc.t # base.t => \E e \in 1..Len(acc.inbox) : e > Len(base.inbox) /\ Processed(acc.inbox, e)

Accounts == INSTANCE FoldLemmas WITH Op <- Receive, Holds <- Accounted

(* One delivery accounts for what it handles.                               *)
LEMMA ReceiveAccounts ==
  ASSUME NEW base, Len(base.inbox) \in Nat, NEW ms, NEW i \in Nat \ {0}, NEW acc, NEW m,
         Accounted(base, ms, i-1, acc)
  PROVE  Accounted(base, ms, i, Receive(acc, m))
<1> DEFINE t == IF Valid(m) THEN Handle(acc.t, m, TxnId(m, Len(acc.inbox) + 1)) ELSE Refused
           x == [msg |-> m, status |-> IF t = Refused THEN "FAILED" ELSE "PROCESSED"]
           box2 == Append(acc.inbox, x)
           next == Receive(acc, m)
<1>1. /\ next.inbox = box2
      /\ next.t = acc.t \/ x.status = "PROCESSED"
  BY DEF Receive
<1> HIDE DEF t, x, next
<1>2. Listed(acc.inbox) BY DEF Accounted
<1>3. /\ Listed(box2) /\ Len(box2) = Len(acc.inbox) + 1 /\ box2[Len(acc.inbox) + 1] = x
      /\ \A e \in 1..Len(acc.inbox) : box2[e] = acc.inbox[e]
  BY <1>2, Appended
<1> HIDE DEF box2
<1>4. Len(acc.inbox) = Len(base.inbox) + (i-1) /\ i-1 \in Nat BY DEF Accounted
<1>5. /\ Len(box2) = Len(base.inbox) + i /\ Len(acc.inbox) \in Nat
      /\ Len(acc.inbox) + 1 \in 1..Len(box2) /\ Len(acc.inbox) + 1 > Len(base.inbox)
      /\ 1..Len(base.inbox) \subseteq 1..Len(acc.inbox)
      /\ 1..Len(acc.inbox) \subseteq 1..Len(box2)
  BY <1>3, <1>4
<1>6. \A e \in 1..Len(base.inbox) : box2[e] = base.inbox[e] BY <1>3, <1>5 DEF Accounted
<1>7. ASSUME next.t # base.t
      PROVE  \E e \in 1..Len(box2) : e > Len(base.inbox) /\ Processed(box2, e)
  <2>1. CASE x.status = "PROCESSED"
    <3>1. Processed(box2, Len(acc.inbox) + 1) BY <2>1, <1>3 DEF Processed
    <3> QED BY <3>1, <1>5
  <2>2. CASE next.t = acc.t
    <3>1. PICK e \in 1..Len(acc.inbox) : e > Len(base.inbox) /\ Processed(acc.inbox, e)
      BY <2>2, <1>7 DEF Accounted
    <3>2. Processed(box2, e) BY <3>1, <1>3 DEF Processed
    <3> QED BY <3>1, <3>2, <1>5
  <2> QED BY <2>1, <2>2, <1>1
<1>8. Accounted(base, ms, i, next) BY <1>1, <1>3, <1>5, <1>6, <1>7 DEF Accounted
<1> QED BY <1>8 DEF next

(* So does a batch of them.                                                 *)
LEMMA ReceiptsAccount ==
  ASSUME NEW base, Listed(base.inbox), NEW T, NEW ms \in Seq(T)
  PROVE  Accounted(base, ms, Len(ms), FoldLeft(Receive, base, ms))
<1>1. FoldLeft(Receive, base, ms) = Accounts!Fold(base, ms)
  BY DEF Accounts!Fold, Accounts!FoldLeft, Accounts!MapThenFoldSet, Accounts!Max,
         FoldLeft, MapThenFoldSet, Max
<1>2. Len(base.inbox) \in Nat
  <2>1. base.inbox \in Seq(Range(base.inbox)) BY DEF Listed
  <2> HIDE DEF Range
  <2> QED BY <2>1
<1>3. Accounted(base, ms, 0, base) BY <1>2 DEF Accounted
<1>4. ASSUME NEW i \in 1..Len(ms), NEW acc, Accounted(base, ms, i-1, acc)
      PROVE  Accounted(base, ms, i, Receive(acc, ms[i]))
  <2>1. i \in Nat \ {0} OBVIOUS
  <2> QED BY <1>2, <1>4, <2>1, ReceiveAccounts
<1>5. Accounted(base, ms, Len(ms), Accounts!Fold(base, ms)) BY <1>3, <1>4, Accounts!FoldHolds
<1> QED BY <1>1, <1>5

(* The body of EventsOnce. *)
OnceStep ==
  /\ Handled' # Handled =>
       \/ \E e \in DOMAIN inbox' \ DOMAIN inbox : inbox'[e].status = "PROCESSED"
       \/ uploads' # uploads /\ report'.committed
  /\ \A e \in DOMAIN inbox : (inbox'[e].status = "PROCESSED") <=> (inbox[e].status = "PROCESSED")

(* After a batch no event was handled twice.                                *)
LEMMA OnceReceived ==
  ASSUME IntakeInv, NEW t, t = [f \in TableNames |-> t[f]],
         [t EXCEPT !.loads = <<>>] = Handled,
         NEW T, NEW ms \in Seq(T), ReceiveAll(t, ms)
  PROVE  OnceStep
<1> DEFINE base == [t |-> t, inbox |-> inbox]
           out == FoldLeft(Receive, base, ms)
           box2 == inbox'
<1>0. Inbox(inbox) BY DEF IntakeInv, Agree
<1>1. base.t = t /\ base.inbox = inbox /\ Listed(base.inbox) BY <1>0 DEF Inbox
<1>2. Store(out.t) /\ box2 = out.inbox BY DEF ReceiveAll
<1> HIDE DEF base
<1>3. Accounted(base, ms, Len(ms), out) BY <1>1, ReceiptsAccount
<1> HIDE DEF out
<1>4. /\ Listed(box2) /\ Len(box2) = Len(inbox) + Len(ms) /\ Len(ms) \in Nat
      /\ \A e \in 1..Len(inbox) : box2[e] = inbox[e]
      /\ out.t # t => \E e \in 1..Len(box2) : e > Len(inbox) /\ box2[e].status = "PROCESSED"
  BY <1>1, <1>2, <1>3 DEF Accounted, Processed
<1> HIDE DEF box2
<1>5. DOMAIN box2 = 1..Len(box2) /\ DOMAIN inbox = 1..Len(inbox)
  <2>1. box2 \in Seq(Range(box2)) /\ inbox \in Seq(Range(inbox)) BY <1>0, <1>4 DEF Inbox, Listed
  <2> HIDE DEF Range
  <2> QED BY <2>1
<1>6. ASSUME out.t = t PROVE Handled' = Handled
  <2>1. Tables' = t BY <1>2, <1>6, StoredTables DEF IntakeInv
  <2> QED BY <2>1 DEF Handled
<1>7. Handled' # Handled => \E e \in DOMAIN box2 \ DOMAIN inbox : box2[e].status = "PROCESSED"
  BY <1>4, <1>5, <1>6
<1>8. \A e \in DOMAIN inbox : box2[e].status = inbox[e].status BY <1>4, <1>5
<1> QED BY <1>7, <1>8 DEF OnceStep, box2

(* No step handles an event twice.                                          *)
LEMMA OnceNext ==
  ASSUME Senders, IntakeInv, [IntakeNext]_intakeVars
  PROVE  OnceStep
<1>0. /\ DOMAIN Tables = TableNames /\ Tables = [f \in TableNames |-> Tables[f]]
  BY AllTables DEF IntakeInv
<1>1. CASE Publish
  <2>1. PICK m \in Scopes[scope].msgs : ReceiveAll(Tables, <<m>>) BY <1>1 DEF Publish
  <2>2. [Tables EXCEPT !.loads = <<>>] = Handled BY DEF Handled
  <2>3. <<m>> \in Seq({m}) OBVIOUS
  <2> QED BY <1>0, <2>1, <2>2, <2>3, OnceReceived
<1>2. CASE ApplyEdi
  <2> DEFINE more(x) == [Tables EXCEPT !.loads = @ \o [i \in 1..x.records |-> <<"external_balances", {}>>]]
  <2>1. PICK x \in Scopes[scope].edi : ReceiveAll(more(x), x.events) BY <1>2 DEF ApplyEdi
  <2> DEFINE t == more(x)
  <2>2. [t EXCEPT !.loads = <<>>] = Handled BY <1>0 DEF Handled
  <2>3. t = [f \in TableNames |-> t[f]] BY <1>0
  <2>4. x.events \in Seq(Range(x.events)) BY DEF Senders, IntakeInv
  <2>5. ReceiveAll(t, x.events) BY <2>1
  <2> HIDE DEF t, Range
  <2> QED BY <2>2, <2>3, <2>4, <2>5, OnceReceived
<1>3. ASSUME NEW e \in DOMAIN inbox, Resend(e) PROVE OnceStep
  <2>1. inbox' = Restated(inbox, e) /\ Tables' = Tables BY <1>3 DEF Resend, Restated, Tables
  <2> DEFINE box2 == Restated(inbox, e)
  <2>2. Inbox(inbox) BY DEF IntakeInv, Agree
  <2>3. /\ DOMAIN inbox = 1..Len(inbox)
        /\ \A f \in 1..Len(inbox) : box2[f].status = "PROCESSED" <=> inbox[f].status = "PROCESSED"
    BY <2>2, <1>3, RestatedKeeps
  <2>4. Handled' = Handled BY <2>1 DEF Handled
  <2> HIDE DEF box2
  <2>5. \A f \in DOMAIN inbox : box2[f].status = "PROCESSED" <=> inbox[f].status = "PROCESSED" BY <2>3
  <2> QED BY <2>1, <2>4, <2>5 DEF OnceStep, box2
<1>4. ASSUME NEW file, NEW commit, NEW allOrNothing, Upload(file, commit, allOrNothing)
      PROVE OnceStep
  <2>1. inbox' = inbox /\ uploads' = uploads + 1 BY <1>4 DEF Upload
  <2>2. ASSUME ~report'.committed PROVE Handled' = Handled
    <3> DEFINE rep == Outcome(Ingest(Tables, file), file, commit, allOrNothing)
    <3>1. report' = rep BY <1>4 DEF Upload
    <3>2. ~rep.committed BY <2>2, <3>1
    <3>3. Store(Tables)
      <4> HIDE DEF rep
      <4> QED BY <1>4, <3>2 DEF Upload, rep
    <3>4. Tables' = Tables BY <1>0, <3>3, StoredTables DEF IntakeInv
    <3> QED BY <3>4 DEF Handled
  <2>3. uploads' # uploads BY <2>1 DEF IntakeInv
  <2> QED BY <2>1, <2>2, <2>3 DEF OnceStep
<1>5. CASE UNCHANGED intakeVars
  <2>1. inbox' = inbox /\ Handled' = Handled BY <1>5 DEF intakeVars, Handled, Tables
  <2> QED BY <2>1 DEF OnceStep
<1> QED BY <1>1, <1>2, <1>3, <1>4, <1>5 DEF IntakeNext

(* An event is handled once: the tables change only with an event processed *)
(* for the first time or a file that is committed; a failed handler leaves  *)
(* nothing, and the event that comes again does nothing.                    *)
THEOREM EventsAreHandledOnce ==
  ASSUME Senders
  PROVE  IntakeSpec => EventsOnce
<1>1. IntakeInit => IntakeInv BY IntakeInvInit
<1>2. IntakeInv /\ [IntakeNext]_intakeVars => IntakeInv' BY IntakeInvNext
<1>3. IntakeInv /\ [IntakeNext]_intakeVars => OnceStep BY OnceNext
<1> QED BY <1>1, <1>2, <1>3, PTL DEF IntakeSpec, EventsOnce, OnceStep

-----------------------------------------------------------------------------
(* What a report counts *)

(* The invariant of the loop over bad fields: none is lost. *)
BadCounted(base, rows, i, n) == n \in Nat /\ \A j \in 1..i : rows[j].bad <= n

Faults == INSTANCE FoldLemmas WITH Op <- AddBad, Holds <- BadCounted

(* A file with a row that has a bad field is reported with an error.        *)
LEMMA BadFieldsFound ==
  ASSUME NEW T, NEW rows \in Seq(T), \A j \in 1..Len(rows) : rows[j].bad \in Nat
  PROVE  BadFields(rows) \in Nat /\ \A j \in 1..Len(rows) : rows[j].bad <= BadFields(rows)
<1>1. BadFields(rows) = Faults!Fold(0, rows)
  BY DEF BadFields, Faults!Fold, Faults!FoldLeft, Faults!MapThenFoldSet, Faults!Max,
         FoldLeft, MapThenFoldSet, Max
<1>2. BadCounted(0, rows, 0, 0) BY DEF BadCounted
<1>3. ASSUME NEW i \in 1..Len(rows), NEW n, BadCounted(0, rows, i-1, n)
      PROVE  BadCounted(0, rows, i, AddBad(n, rows[i]))
  <2>1. n \in Nat /\ rows[i].bad \in Nat BY <1>3 DEF BadCounted
  <2>2. \A j \in 1..i : j \in 1..(i-1) \/ j = i OBVIOUS
  <2>3. \A j \in 1..(i-1) : rows[j].bad <= n BY <1>3 DEF BadCounted
  <2>4. \A j \in 1..i : rows[j].bad \in Nat OBVIOUS
  <2>5. AddBad(n, rows[i]) = n + rows[i].bad BY DEF AddBad
  <2>6. ASSUME NEW j \in 1..i PROVE rows[j].bad <= AddBad(n, rows[i])
    <3>1. CASE j = i BY <2>1, <2>5, <3>1
    <3>2. CASE j \in 1..(i-1)
      <4>1. rows[j].bad <= n /\ rows[j].bad \in Nat BY <2>3, <2>4, <3>2
      <4> QED BY <2>1, <2>5, <4>1
    <3> QED BY <2>2, <3>1, <3>2
  <2> QED BY <2>1, <2>5, <2>6 DEF BadCounted
<1>4. BadCounted(0, rows, Len(rows), Faults!Fold(0, rows)) BY <1>2, <1>3, Faults!FoldHolds
<1> QED BY <1>1, <1>4 DEF BadCounted

(* The invariant of the loop over rows: as long as there is no error, every *)
(* row so far was created, updated or skipped.                              *)
AllCounted(base, rows, i, acc) ==
  /\ DOMAIN acc = AccFields /\ acc.entity = base.entity /\ DOMAIN acc.t = TableNames
  /\ acc.created \in Nat /\ acc.updated \in Nat /\ acc.skipped \in Nat /\ acc.errors \in Nat
  /\ base.errors <= acc.errors
  /\ acc.errors = 0 => acc.created + acc.updated + acc.skipped = i

Counts == INSTANCE FoldLemmas WITH Op <- Step, Holds <- AllCounted

(* One row of a file moves one of its counters.                             *)
LEMMA StepCounts ==
  ASSUME Senders, NEW base, base.entity \in Entities, base.errors \in Nat, NEW rows,
         NEW i \in Nat \ {0}, NEW acc, NEW r,
         base.entity = "transactions" => r.txn \notin EventTxns,
         r.bad \in Nat, r.bad <= base.errors, AllCounted(base, rows, i-1, acc)
  PROVE  AllCounted(base, rows, i, Step(acc, r))
<1> DEFINE out == IngestRow(acc.t, acc.entity, r)
           next == Step(acc, r)
<1>0. DOMAIN acc = AccFields /\ acc.entity = base.entity /\ DOMAIN acc.t = TableNames
  BY DEF AllCounted
<1>1. /\ DOMAIN next = AccFields /\ next.entity = acc.entity
      /\ \/ r.bad > 0 /\ next = acc
         \/ /\ ~(r.bad > 0) /\ out = Refused /\ next.t = acc.t /\ next.errors = acc.errors + 1
            /\ next.created = acc.created /\ next.updated = acc.updated /\ next.skipped = acc.skipped
         \/ /\ ~(r.bad > 0) /\ out # Refused /\ next.t = out.t /\ next.errors = acc.errors
            /\ next.created = IF out.res = "created" THEN acc.created + 1 ELSE acc.created
            /\ next.updated = IF out.res = "updated" THEN acc.updated + 1 ELSE acc.updated
            /\ next.skipped = IF out.res = "skipped" THEN acc.skipped + 1 ELSE acc.skipped
  BY <1>0, StepCases
<1>2. out # Refused => DOMAIN out.t = TableNames /\ out.res \in {"created", "updated", "skipped"}
  BY <1>0, IngestRowEffect DEF Outcomes
<1> HIDE DEF out, next
<1>3. /\ acc.created \in Nat /\ acc.updated \in Nat /\ acc.skipped \in Nat /\ acc.errors \in Nat
      /\ base.errors <= acc.errors /\ i-1 \in Nat
      /\ acc.errors = 0 => acc.created + acc.updated + acc.skipped = i-1
  BY DEF AllCounted
<1>4. CASE r.bad > 0 /\ next = acc
  <2>1. acc.errors # 0 BY <1>3, <1>4
  <2>2. AllCounted(base, rows, i, next) BY <1>0, <1>3, <1>4, <2>1 DEF AllCounted
  <2> QED BY <2>2 DEF next
<1>5. CASE /\ out = Refused /\ next.t = acc.t /\ next.errors = acc.errors + 1
           /\ next.created = acc.created /\ next.updated = acc.updated /\ next.skipped = acc.skipped
  <2>1. next.errors # 0 /\ next.errors \in Nat /\ base.errors <= next.errors BY <1>3, <1>5
  <2>2. AllCounted(base, rows, i, next) BY <1>0, <1>1, <1>3, <1>5, <2>1 DEF AllCounted
  <2> QED BY <2>2 DEF next
<1>6. CASE /\ out # Refused /\ next.t = out.t /\ next.errors = acc.errors
           /\ next.created = IF out.res = "created" THEN acc.created + 1 ELSE acc.created
           /\ next.updated = IF out.res = "updated" THEN acc.updated + 1 ELSE acc.updated
           /\ next.skipped = IF out.res = "skipped" THEN acc.skipped + 1 ELSE acc.skipped
  <2> DEFINE a == acc.created
             b == acc.updated
             c == acc.skipped
  <2>1. a \in Nat /\ b \in Nat /\ c \in Nat BY <1>3
  <2>2. \/ next.created = a + 1 /\ next.updated = b /\ next.skipped = c
        \/ next.created = a /\ next.updated = b + 1 /\ next.skipped = c
        \/ next.created = a /\ next.updated = b /\ next.skipped = c + 1
    BY <1>2, <1>6
  <2>3. next.errors = 0 => a + b + c = i-1 BY <1>3, <1>6
  <2> HIDE DEF a, b, c
  <2>4. /\ next.created \in Nat /\ next.updated \in Nat /\ next.skipped \in Nat
        /\ next.errors = 0 => next.created + next.updated + next.skipped = i
    BY <2>1, <2>2, <2>3
  <2>5. AllCounted(base, rows, i, next) BY <1>0, <1>1, <1>2, <1>3, <1>6, <2>4 DEF AllCounted
  <2> QED BY <2>5 DEF next
<1> QED BY <1>1, <1>4, <1>5, <1>6

(* The counters of a file add up to its rows.                               *)
LEMMA IngestCounts ==
  ASSUME Senders, NEW t, DOMAIN t = TableNames, NEW file, SoundFile(file)
  PROVE  LET out == Ingest(t, file)
         IN  out.errors \in Nat /\ (out.errors = 0 => out.created + out.updated + out.skipped = Len(file.rows))
<1> DEFINE base == Parsed(t, file)
           rows == file.rows
<1>1. Ingest(t, file) = Counts!Fold(base, rows)
  BY DEF Ingest, Counts!Fold, Counts!FoldLeft, Counts!MapThenFoldSet, Counts!Max,
         FoldLeft, MapThenFoldSet, Max
<1>2. /\ DOMAIN base = AccFields /\ base.t = t /\ base.entity = file.entity
      /\ base.created = 0 /\ base.updated = 0 /\ base.skipped = 0 /\ base.errors = BadFields(rows)
  BY ParsedFields
<1> HIDE DEF base
<1>3. /\ file.entity \in Entities /\ rows \in Seq(Range(rows))
      /\ \A i \in DOMAIN rows : /\ rows[i].bad \in Nat
                                /\ file.entity = "transactions" => rows[i].txn \notin EventTxns
  BY DEF SoundFile
<1> HIDE DEF rows
<1>4. DOMAIN rows = 1..Len(rows) BY <1>3
<1>5. base.errors \in Nat /\ \A j \in 1..Len(rows) : rows[j].bad <= base.errors
  BY <1>2, <1>3, <1>4, BadFieldsFound
<1>6. AllCounted(base, rows, 0, base) BY <1>2, <1>5 DEF AllCounted
<1>7. ASSUME NEW i \in 1..Len(rows), NEW acc, AllCounted(base, rows, i-1, acc)
      PROVE  AllCounted(base, rows, i, Step(acc, rows[i]))
  <2> DEFINE r == rows[i]
  <2>1. /\ r.bad \in Nat /\ r.bad <= base.errors /\ i \in Nat \ {0}
        /\ base.entity \in Entities /\ (base.entity = "transactions" => r.txn \notin EventTxns)
    BY <1>2, <1>3, <1>4, <1>5
  <2> HIDE DEF r
  <2>2. AllCounted(base, rows, i, Step(acc, r)) BY <1>5, <1>7, <2>1, StepCounts
  <2> QED BY <2>2 DEF r
<1>8. AllCounted(base, rows, Len(rows), Counts!Fold(base, rows)) BY <1>3, <1>6, <1>7, Counts!FoldHolds
<1> QED BY <1>1, <1>8 DEF AllCounted, rows

(* The body of NothingOrAll. *)
WholeStep ==
  uploads' # uploads =>
    /\ (~report'.commit \/ (report'.allOrNothing /\ report'.errors > 0)) => Tables' = Tables
    /\ (report'.allOrNothing /\ report'.committed) =>
         report'.created + report'.updated + report'.skipped = report'.total

(* Every step leaves whole files behind.                                    *)
LEMMA WholeNext ==
  ASSUME Senders, IntakeInv, [IntakeNext]_intakeVars
  PROVE  WholeStep
<1>1. ASSUME uploads' = uploads PROVE WholeStep BY <1>1 DEF WholeStep
<1>2. ASSUME NEW file \in Scopes[scope].files, NEW commit, NEW allOrNothing,
             Upload(file, commit, allOrNothing)
      PROVE  WholeStep
  <2> DEFINE out == Ingest(Tables, file)
             rep == Outcome(out, file, commit, allOrNothing)
             kept == commit /\ ~(allOrNothing /\ out.errors > 0)
  <2>1. /\ DOMAIN Tables = TableNames /\ Tables = [f \in TableNames |-> Tables[f]]
    BY AllTables DEF IntakeInv
  <2>2. SoundFile(file) BY DEF Senders, IntakeInv
  <2>3. /\ out.errors \in Nat
        /\ out.errors = 0 => out.created + out.updated + out.skipped = Len(file.rows)
    BY <2>1, <2>2, IngestCounts
  <2>4. report' = rep BY <1>2 DEF Upload
  <2>5. ~rep.committed => Store(Tables)
    <3> HIDE DEF rep
    <3> QED BY <1>2 DEF Upload, rep
  <2>6. Store(Tables) => Tables' = Tables BY <2>1, StoredTables DEF IntakeInv
  <2> HIDE DEF out
  <2>7. /\ rep.commit = commit /\ rep.allOrNothing = allOrNothing /\ rep.committed = kept
        /\ rep.errors = out.errors /\ rep.total = Len(file.rows)
        /\ rep.created = IF kept THEN out.created ELSE 0
        /\ rep.updated = IF kept THEN out.updated ELSE 0
        /\ rep.skipped = IF kept THEN out.skipped ELSE 0
    BY DEF Outcome
  <2> HIDE DEF rep
  <2>8. (~rep.commit \/ (rep.allOrNothing /\ rep.errors > 0)) => Tables' = Tables
    BY <2>5, <2>6, <2>7
  <2>9. (rep.allOrNothing /\ rep.committed) => rep.created + rep.updated + rep.skipped = rep.total
    <3> SUFFICES ASSUME rep.allOrNothing, rep.committed
                 PROVE  rep.created + rep.updated + rep.skipped = rep.total
      OBVIOUS
    <3>0. ~(out.errors > 0) BY Zenon, <2>7
    <3>1. out.errors = 0 BY <2>3, <3>0
    <3> QED BY <2>3, <2>7, <3>1
  <2> QED BY <2>4, <2>8, <2>9 DEF WholeStep
<1>3. CASE Publish \/ ApplyEdi \/ \E e \in DOMAIN inbox : Resend(e)
  BY <1>1, <1>3 DEF Publish, ApplyEdi, Resend, ReceiveAll
<1>4. CASE UNCHANGED intakeVars BY <1>1, <1>4 DEF intakeVars
<1> QED BY <1>2, <1>3, <1>4 DEF IntakeNext

(* A preview and an all-or-nothing file with an error write nothing, and an *)
(* all-or-nothing file that is committed has written every row.             *)
THEOREM FilesAreWhole ==
  ASSUME Senders
  PROVE  IntakeSpec => NothingOrAll
<1>1. IntakeInit => IntakeInv BY IntakeInvInit
<1>2. IntakeInv /\ [IntakeNext]_intakeVars => IntakeInv' BY IntakeInvNext
<1>3. IntakeInv /\ [IntakeNext]_intakeVars => WholeStep BY WholeNext
<1> QED BY <1>1, <1>2, <1>3, PTL DEF IntakeSpec, NothingOrAll, WholeStep

-----------------------------------------------------------------------------
(* What an event does to the orders *)

(* What is in transit is still expected.                                    *)
Expected(ln) == ln.transit > 0 => ln.received + ln.transit <= ln.ordered
Complete(o) == \A i \in DOMAIN o.lines : o.lines[i].received >= o.lines[i].ordered

(* An order as OrdersAddUp has it, its receipts apart.                      *)
Sound(o) ==
  /\ \A i \in DOMAIN o.lines : Expected(o.lines[i])
  /\ o.status # "OPEN" => (o.status = "RECEIVED" <=> Complete(o))

(* What a message brings for a line.                                        *)
Got(m, n, sku) == IF m.type = "InventoryReceived" /\ m.po = n /\ m.sku = sku THEN m.qty ELSE 0

LineStep(ln, ln2, got) ==
  /\ ln2 \in OrderLine /\ ln2.sku = ln.sku /\ ln2.ordered = ln.ordered
  /\ ln2.received = ln.received + got
  /\ Expected(ln) => Expected(ln2)

OrderStep(o, o2, m, n) ==
  /\ o2 \in PurchaseOrder /\ DOMAIN o2.lines = DOMAIN o.lines
  /\ \A i \in DOMAIN o.lines :
       /\ o2.lines[i].sku = o.lines[i].sku
       /\ o2.lines[i].received = o.lines[i].received + Got(m, n, o.lines[i].sku)
  /\ Sound(o) => Sound(o2)

(* An order that has just been created. *)
Fresh(o) ==
  /\ o \in PurchaseOrder /\ o.status = "OPEN"
  /\ \A i \in DOMAIN o.lines : o.lines[i].transit = 0

OrdersTyped(t) ==
  /\ DOMAIN t = TableNames /\ DOMAIN t.po = PoNumbers /\ t.po = [n \in PoNumbers |-> t.po[n]]
  /\ \A n \in PoNumbers : t.po[n] # Absent => t.po[n] \in PurchaseOrder
  /\ DOMAIN t.ships = ShipmentNos
  /\ \A n \in ShipmentNos : t.ships[n] # Absent => "eta" \in DOMAIN t.ships[n] /\ t.ships[n].eta \in Day

Creates(m, n) == m.type = "PurchaseOrderCreated" /\ m.po = n

(* What a handler does to the orders. *)
OrdersEffect(t, t2, m) ==
  /\ OrdersTyped(t2)
  /\ \A n \in PoNumbers :
       /\ t.po[n] = Absent /\ Creates(m, n) =>
            Fresh(t2.po[n]) /\ \A i \in DOMAIN t2.po[n].lines : t2.po[n].lines[i].received = 0
       /\ t.po[n] = Absent /\ ~Creates(m, n) => t2.po[n] = Absent
       /\ t.po[n] # Absent => ~Creates(m, n) /\ OrderStep(t.po[n], t2.po[n], m, n)

(* Lines changed one by one are lines.                                      *)
LEMMA LinesMapped ==
  ASSUME NEW old \in Seq(OrderLine), NEW new, new = [i \in DOMAIN old |-> new[i]],
         \A i \in DOMAIN old : new[i] \in OrderLine
  PROVE  new \in Seq(OrderLine)
<1>1. DOMAIN old = 1..Len(old) /\ Len(old) \in Nat OBVIOUS
<1>2. new \in [1..Len(old) -> OrderLine] BY <1>1
<1> QED BY <1>1, <1>2

(* The lines of an order.                                                   *)
LEMMA LinesOf ==
  ASSUME NEW o \in PurchaseOrder
  PROVE  /\ o.lines \in Seq(OrderLine) /\ DOMAIN o.lines = 1..Len(o.lines) /\ Len(o.lines) \in Nat
         /\ \A i \in DOMAIN o.lines : o.lines[i] \in OrderLine
<1>1. o.lines \in Seq(OrderLine) BY DEF PurchaseOrder
<1> QED BY <1>1

(* A line keeps its numbers.                                                *)
LEMMA LineSame ==
  ASSUME NEW ln \in OrderLine
  PROVE  LineStep(ln, ln, 0)
<1>1. ln.received \in Int BY DEF OrderLine
<1> QED BY <1>1 DEF LineStep

(* An order whose lines change, and whose status stays or is computed anew. *)
LEMMA OrderChanged ==
  ASSUME NEW o \in PurchaseOrder, NEW o2 \in PurchaseOrder, NEW m, NEW n,
         DOMAIN o2.lines = DOMAIN o.lines,
         \A i \in DOMAIN o.lines : LineStep(o.lines[i], o2.lines[i], Got(m, n, o.lines[i].sku)),
         \/ o2.status = o.status /\ \A i \in DOMAIN o.lines : Got(m, n, o.lines[i].sku) = 0
         \/ o2.status = IF Complete(o2) THEN "RECEIVED" ELSE "PARTIAL"
  PROVE  OrderStep(o, o2, m, n)
<1>1. ASSUME Sound(o) PROVE Sound(o2)
  <2>1. \A i \in DOMAIN o2.lines : Expected(o2.lines[i]) BY <1>1 DEF Sound, LineStep
  <2>2. CASE o2.status = IF Complete(o2) THEN "RECEIVED" ELSE "PARTIAL" BY <2>1, <2>2 DEF Sound
  <2>3. CASE o2.status = o.status /\ \A i \in DOMAIN o.lines : Got(m, n, o.lines[i].sku) = 0
    <3>1. ASSUME NEW i \in DOMAIN o.lines
          PROVE  o2.lines[i].received = o.lines[i].received /\ o2.lines[i].ordered = o.lines[i].ordered
      <4>1. o.lines[i] \in OrderLine BY LinesOf
      <4>2. o.lines[i].received \in Int BY <4>1 DEF OrderLine
      <4> QED BY <2>3, <4>2 DEF LineStep
    <3>2. Complete(o2) <=> Complete(o) BY <3>1 DEF Complete
    <3> QED BY <1>1, <2>1, <2>3, <3>2 DEF Sound
  <2> QED BY <2>2, <2>3
<1> QED BY <1>1 DEF OrderStep, LineStep

(* An order nothing happens to. *)
LEMMA OrderSame ==
  ASSUME NEW o \in PurchaseOrder, NEW m, NEW n, \A i \in DOMAIN o.lines : Got(m, n, o.lines[i].sku) = 0
  PROVE  OrderStep(o, o, m, n)
<1>1. \A i \in DOMAIN o.lines : LineStep(o.lines[i], o.lines[i], Got(m, n, o.lines[i].sku))
  BY LinesOf, LineSame
<1> QED BY <1>1, OrderChanged

(* What is not a receipt brings nothing.                                    *)
LEMMA GotNothing ==
  ASSUME NEW m, NEW n, m.type # "InventoryReceived" \/ m.po # n
  PROVE  \A sku : Got(m, n, sku) = 0
BY DEF Got

(* A handler that leaves orders and shipments alone.                        *)
LEMMA OrdersUntouched ==
  ASSUME NEW t, OrdersTyped(t), NEW t2, DOMAIN t2 = TableNames, t2.po = t.po, t2.ships = t.ships,
         NEW m, m.type # "PurchaseOrderCreated",
         m.type # "InventoryReceived" \/ m.po = Absent \/ t.po[m.po] = Absent
  PROVE  OrdersEffect(t, t2, m)
<1>1. OrdersTyped(t2) BY DEF OrdersTyped
<1>2. \A n : ~Creates(m, n) BY DEF Creates
<1>3. ASSUME NEW n \in PoNumbers, t.po[n] # Absent
      PROVE  OrderStep(t.po[n], t2.po[n], m, n)
  <2>1. t.po[n] \in PurchaseOrder BY <1>3 DEF OrdersTyped
  <2>2. m.type # "InventoryReceived" \/ m.po # n BY <1>3, DocumentsAssumption
  <2> QED BY <2>1, <2>2, GotNothing, OrderSame
<1> QED BY <1>1, <1>2, <1>3 DEF OrdersEffect

(* A posting leaves orders and shipments alone.                             *)
LEMMA PostInOrders ==
  ASSUME NEW t, DOMAIN t = TableNames, NEW r, PostIn(t, r) # Refused
  PROVE  DOMAIN PostIn(t, r) = TableNames /\ PostIn(t, r).po = t.po /\ PostIn(t, r).ships = t.ships
<1> DEFINE s == ResolveIn(t.quality, r)
           bal == Apply(t.balance, s)
           log == Append(t.txns, RowOf(t.balance, s, 0))
<1>1. PostIn(t, r) = [t EXCEPT !.balance = bal, !.txns = log] BY DEF PostIn
<1> HIDE DEF bal, log
<1> QED BY <1>1 DEF TableNames

(* So does a new lot. *)
LEMMA WithLotOrders ==
  ASSUME NEW t, DOMAIN t = TableNames, NEW lot
  PROVE  /\ DOMAIN WithLot(t, lot) = TableNames
         /\ WithLot(t, lot).po = t.po /\ WithLot(t, lot).ships = t.ships
BY DEF WithLot, TableNames

(* receive_po_line(): a line takes what came, and no more of what is on its *)
(* way.                                                                     *)
LEMMA ReceiveLineStep ==
  ASSUME NEW ln \in OrderLine, NEW q \in Nat
  PROVE  LineStep(ln, ReceiveLine(ln, q), q)
<1> DEFINE transit == IF ln.transit > q THEN ln.transit - q ELSE 0
           status == IF ln.received + q >= ln.ordered THEN "RECEIVED" ELSE ln.status
           new == ReceiveLine(ln, q)
<1>1. new = [ln EXCEPT !.received = @ + q, !.transit = transit, !.status = status] BY DEF ReceiveLine
<1>2. ln.received \in Int /\ ln.transit \in Int /\ ln.ordered \in Int BY DEF OrderLine
<1>3. ln.received + q \in Int /\ transit \in Int /\ status \in {"ACTIVE", "RECEIVED"} BY <1>2 DEF OrderLine
<1>4. transit > 0 => transit = ln.transit - q /\ ln.transit > 0 BY <1>2
<1> HIDE DEF transit, status, new
<1>5. new \in OrderLine BY <1>1, <1>3 DEF OrderLine
<1>6. new.sku = ln.sku /\ new.ordered = ln.ordered /\ new.received = ln.received + q /\ new.transit = transit
  BY <1>1 DEF OrderLine
<1>7. Expected(ln) => Expected(new) BY <1>2, <1>3, <1>4, <1>6 DEF Expected
<1>8. LineStep(ln, new, q) BY <1>5, <1>6, <1>7 DEF LineStep
<1> QED BY <1>8 DEF new

(* Every line of the item takes what came, and the status of the order is   *)
(* computed.                                                                *)
LEMMA ReceivePoStep ==
  ASSUME NEW o \in PurchaseOrder, NEW m, m.type = "InventoryReceived", m.qty \in Nat
  PROVE  OrderStep(o, ReceivePo(o, m.sku, m.qty), m, m.po)
<1> DEFINE old == o.lines
           lines == [i \in DOMAIN old |-> IF old[i].sku = m.sku THEN ReceiveLine(old[i], m.qty) ELSE old[i]]
           status == IF \A i \in DOMAIN lines : lines[i].received >= lines[i].ordered
                     THEN "RECEIVED" ELSE "PARTIAL"
           new == ReceivePo(o, m.sku, m.qty)
<1>1. new = [o EXCEPT !.lines = lines, !.status = status] BY DEF ReceivePo
<1>2. old \in Seq(OrderLine) /\ \A i \in DOMAIN old : old[i] \in OrderLine BY LinesOf
<1>3. ASSUME NEW i \in DOMAIN old
      PROVE  LineStep(old[i], lines[i], Got(m, m.po, old[i].sku))
  <2>1. CASE old[i].sku = m.sku
    <3>1. lines[i] = ReceiveLine(old[i], m.qty) /\ Got(m, m.po, old[i].sku) = m.qty BY <2>1 DEF Got
    <3> QED BY <1>2, <3>1, ReceiveLineStep
  <2>2. CASE old[i].sku # m.sku
    <3>1. lines[i] = old[i] /\ Got(m, m.po, old[i].sku) = 0 BY <2>2 DEF Got
    <3> QED BY <1>2, <3>1, LineSame
  <2> QED BY <2>1, <2>2
<1>4. lines = [i \in DOMAIN old |-> lines[i]] OBVIOUS
<1>5. DOMAIN lines = DOMAIN old OBVIOUS
<1> HIDE DEF lines
<1>6. lines \in Seq(OrderLine) BY <1>2, <1>3, <1>4, LinesMapped DEF LineStep
<1>7. status \in {"PARTIAL", "RECEIVED"} OBVIOUS
<1>8. new \in PurchaseOrder /\ new.lines = lines /\ new.status = status
  <2> HIDE DEF status, new
  <2> QED BY <1>1, <1>6, <1>7 DEF PurchaseOrder
<1>9. new.status = IF Complete(new) THEN "RECEIVED" ELSE "PARTIAL" BY <1>8 DEF Complete
<1> HIDE DEF status, new
<1>10. OrderStep(o, new, m, m.po) BY <1>3, <1>5, <1>8, <1>9, OrderChanged
<1> QED BY <1>10 DEF new

(* InventoryReceived: what came counts for the lines of its order.          *)
LEMMA ReceivedOrders ==
  ASSUME NEW t, OrdersTyped(t), NEW m, m.type = "InventoryReceived", m.qty \in Nat,
         m.po \in PoNumbers \cup {Absent}, NEW txn, OnReceived(t, m, txn) # Refused
  PROVE  OrdersEffect(t, OnReceived(t, m, txn), m)
<1> DEFINE r == [Plain("RECEIPT", m.loc, m.lot, m.qty) EXCEPT !.id = txn]
           posted == IF m.sku # Own THEN t ELSE PostIn(WithLot(t, m.lot), r)
           out == OnReceived(t, m, txn)
           new == ReceivePo(t.po[m.po], m.sku, m.qty)
<1> HIDE DEF r
<1>1. posted # Refused BY DEF OnReceived, r
<1>2. DOMAIN posted = TableNames /\ posted.po = t.po /\ posted.ships = t.ships
  <2>1. DOMAIN t = TableNames BY DEF OrdersTyped
  <2>2. CASE m.sku # Own BY <2>1, <2>2
  <2>3. CASE m.sku = Own
    <3>1. posted = PostIn(WithLot(t, m.lot), r) BY <2>3
    <3> HIDE DEF posted
    <3> QED BY <2>1, <3>1, <1>1, WithLotOrders, PostInOrders
  <2> QED BY <2>2, <2>3
<1>3. out = IF m.po = Absent THEN posted
            ELSE IF posted.po[m.po] = Absent THEN posted
            ELSE [posted EXCEPT !.po[m.po] = ReceivePo(@, m.sku, m.qty)]
  BY DEF OnReceived, r
<1> HIDE DEF posted, out
<1>4. CASE m.po = Absent \/ t.po[m.po] = Absent
  <2>1. out = posted BY <1>2, <1>3, <1>4
  <2>2. OrdersEffect(t, out, m) BY <1>2, <1>4, <2>1, OrdersUntouched
  <2> QED BY <2>2 DEF out
<1>5. CASE m.po # Absent /\ t.po[m.po] # Absent
  <2>0. m.po \in PoNumbers BY <1>5
  <2>1. out = [posted EXCEPT !.po[m.po] = new] BY <1>2, <1>3, <1>5
  <2>2. t.po[m.po] \in PurchaseOrder BY <1>5, <2>0 DEF OrdersTyped
  <2>3. OrderStep(t.po[m.po], new, m, m.po) BY <2>2, ReceivePoStep
  <2> HIDE DEF new
  <2>4. DOMAIN out = TableNames /\ out.po = [t.po EXCEPT ![m.po] = new] /\ out.ships = t.ships
    BY <2>1, <1>2 DEF TableNames
  <2>5. OrdersTyped(out) BY <2>3, <2>4 DEF OrdersTyped, OrderStep
  <2>6. \A n : ~Creates(m, n) BY DEF Creates
  <2>7. ASSUME NEW n \in PoNumbers, t.po[n] # Absent
        PROVE  OrderStep(t.po[n], out.po[n], m, n)
    <3>1. CASE n = m.po BY <3>1, <2>0, <2>3, <2>4 DEF OrdersTyped
    <3>2. CASE n # m.po
      <4>1. out.po[n] = t.po[n] /\ t.po[n] \in PurchaseOrder BY <2>4, <2>7, <3>2 DEF OrdersTyped
      <4> QED BY <3>2, <4>1, GotNothing, OrderSame
    <3> QED BY <3>1, <3>2
  <2>8. \A n \in PoNumbers : t.po[n] = Absent => out.po[n] = Absent BY <1>5, <2>4 DEF OrdersTyped
  <2>9. OrdersEffect(t, out, m) BY <2>5, <2>6, <2>7, <2>8 DEF OrdersEffect
  <2> QED BY <2>9 DEF out
<1> QED BY <1>4, <1>5

(* The invariant of the loop over the lines of a shipment.                  *)
StillExpected(base, s, n, acc) ==
  /\ acc = [lines |-> acc.lines, eta |-> acc.eta] /\ acc.eta = base.eta
  /\ acc.lines \in Seq(OrderLine) /\ DOMAIN acc.lines = DOMAIN base.lines
  /\ \A i \in DOMAIN acc.lines : LineStep(base.lines[i], acc.lines[i], 0)

Loading == INSTANCE FoldLemmas WITH Op <- ShipItem, Holds <- StillExpected

(* A line in transit is at most what is open.                               *)
LEMMA ShipLineStep ==
  ASSUME NEW ln \in OrderLine, NEW q \in Int, NEW eta \in Day
  PROVE  LineStep(ln, ShipLine(ln, q, eta), 0)
<1> DEFINE open == ln.ordered - ln.received
           transit == IF ln.transit + q < open THEN ln.transit + q ELSE open
           day == IF eta # Absent THEN eta ELSE ln.eta
           new == ShipLine(ln, q, eta)
<1>1. new = [ln EXCEPT !.transit = transit, !.eta = day] BY DEF ShipLine
<1>2. ln.received \in Int /\ ln.transit \in Int /\ ln.ordered \in Int BY DEF OrderLine
<1>3. transit \in Int /\ ln.received + transit <= ln.ordered BY <1>2
<1>4. day \in Nat \cup {Absent} BY DEF OrderLine, Day
<1> HIDE DEF transit, day, new
<1>5. new \in OrderLine BY <1>1, <1>3, <1>4 DEF OrderLine
<1>6. new.sku = ln.sku /\ new.ordered = ln.ordered /\ new.received = ln.received + 0 /\ new.transit = transit
  BY <1>1, <1>2 DEF OrderLine
<1>7. Expected(new) BY <1>2, <1>3, <1>6 DEF Expected
<1>8. LineStep(ln, new, 0) BY <1>5, <1>6, <1>7 DEF LineStep
<1> QED BY <1>8 DEF new

(* Two changes of a line that bring nothing are one.                        *)
LEMMA LineSteps ==
  ASSUME NEW a \in OrderLine, NEW b, LineStep(a, b, 0), NEW c, LineStep(b, c, 0)
  PROVE  LineStep(a, c, 0)
<1>1. a.received \in Int BY DEF OrderLine
<1> QED BY <1>1 DEF LineStep

(* One item of a shipment,                                                  *)
LEMMA ShipItemStep ==
  ASSUME NEW acc, acc = [lines |-> acc.lines, eta |-> acc.eta], acc.eta \in Day,
         acc.lines \in Seq(OrderLine), NEW x, x.qty \in Int
  PROVE  LET next == ShipItem(acc, x)
         IN  /\ next = [lines |-> next.lines, eta |-> next.eta] /\ next.eta = acc.eta
             /\ next.lines \in Seq(OrderLine) /\ DOMAIN next.lines = DOMAIN acc.lines
             /\ \A i \in DOMAIN acc.lines : LineStep(acc.lines[i], next.lines[i], 0)
<1> DEFINE old == acc.lines
           lines == [i \in DOMAIN old |->
                       IF x.sku \in Skus /\ old[i].sku = x.sku THEN ShipLine(old[i], x.qty, acc.eta) ELSE old[i]]
           next == ShipItem(acc, x)
<1>1. next = [acc EXCEPT !.lines = lines] BY DEF ShipItem
<1>2. old \in Seq(OrderLine) /\ \A i \in DOMAIN old : old[i] \in OrderLine
  <2>1. old \in Seq(OrderLine) OBVIOUS
  <2> HIDE DEF old
  <2> QED BY <2>1
<1>3. ASSUME NEW i \in DOMAIN old PROVE LineStep(old[i], lines[i], 0)
  BY <1>2, ShipLineStep, LineSame
<1>4. lines = [i \in DOMAIN old |-> lines[i]] /\ DOMAIN lines = DOMAIN old OBVIOUS
<1> HIDE DEF lines
<1>5. lines \in Seq(OrderLine) BY <1>2, <1>3, <1>4, LinesMapped DEF LineStep
<1>6. next = [lines |-> lines, eta |-> acc.eta] BY <1>1
<1> HIDE DEF next
<1>7. next.lines = lines /\ next.eta = acc.eta BY <1>6
<1>8. /\ next = [lines |-> next.lines, eta |-> next.eta] /\ next.eta = acc.eta
      /\ next.lines \in Seq(OrderLine) /\ DOMAIN next.lines = DOMAIN old
      /\ \A i \in DOMAIN old : LineStep(old[i], next.lines[i], 0)
  BY <1>3, <1>4, <1>5, <1>6, <1>7
<1> QED BY <1>8 DEF next

(* and all of them.                                                         *)
LEMMA ShipLinesStep ==
  ASSUME NEW lines \in Seq(OrderLine), NEW shipped, shipped \in Seq(Range(shipped)),
         \A i \in DOMAIN shipped : shipped[i].qty \in Int, NEW eta \in Day
  PROVE  LET new == ShipLines(lines, shipped, eta)
         IN  /\ new \in Seq(OrderLine) /\ DOMAIN new = DOMAIN lines
             /\ \A i \in DOMAIN lines : LineStep(lines[i], new[i], 0)
<1> DEFINE base == [lines |-> lines, eta |-> eta]
           out == Loading!Fold(base, shipped)
<1>0. \A i \in DOMAIN lines : lines[i] \in OrderLine OBVIOUS
<1>1. base = [lines |-> base.lines, eta |-> base.eta] /\ base.lines = lines /\ base.eta = eta OBVIOUS
<1> HIDE DEF base, out
<1>2. StillExpected(base, shipped, 0, base) BY <1>0, <1>1, LineSame DEF StillExpected
<1>3. ASSUME NEW i \in 1..Len(shipped), NEW acc, StillExpected(base, shipped, i - 1, acc)
      PROVE  StillExpected(base, shipped, i, ShipItem(acc, shipped[i]))
  <2> DEFINE next == ShipItem(acc, shipped[i])
  <2>1. shipped[i].qty \in Int
    <3> HIDE DEF Range
    <3>1. DOMAIN shipped = 1..Len(shipped) OBVIOUS
    <3> QED BY <3>1
  <2>2. /\ next = [lines |-> next.lines, eta |-> next.eta] /\ next.eta = acc.eta
        /\ next.lines \in Seq(OrderLine) /\ DOMAIN next.lines = DOMAIN acc.lines
        /\ \A j \in DOMAIN acc.lines : LineStep(acc.lines[j], next.lines[j], 0)
    <3>1. /\ acc = [lines |-> acc.lines, eta |-> acc.eta] /\ acc.lines \in Seq(OrderLine)
          /\ acc.eta \in Day
      BY <1>1, <1>3 DEF StillExpected
    <3> QED BY <2>1, <3>1, ShipItemStep
  <2> HIDE DEF next
  <2>3. \A j \in DOMAIN base.lines : LineStep(base.lines[j], next.lines[j], 0)
    BY <1>0, <1>1, <1>3, <2>2, LineSteps DEF StillExpected
  <2>4. StillExpected(base, shipped, i, next) BY <1>3, <2>2, <2>3 DEF StillExpected
  <2> QED BY <2>4 DEF next
<1>4. StillExpected(base, shipped, Len(shipped), out)
  <2> HIDE DEF Range
  <2> QED BY <1>2, <1>3, Loading!FoldHolds DEF out
<1>5. FoldLeft(ShipItem, base, shipped) = out
  BY DEF out, Loading!Fold, Loading!FoldLeft, Loading!MapThenFoldSet, Loading!Max, FoldLeft, MapThenFoldSet, Max
<1>6. ShipLines(lines, shipped, eta) = out.lines BY <1>5 DEF ShipLines, base
<1> QED BY <1>1, <1>4, <1>6 DEF StillExpected

(* An order whose lines change without a receipt.                           *)
LEMMA OrderRelined ==
  ASSUME NEW o \in PurchaseOrder, NEW o2 \in PurchaseOrder, o2.status = o.status,
         DOMAIN o2.lines = DOMAIN o.lines,
         \A i \in DOMAIN o.lines : LineStep(o.lines[i], o2.lines[i], 0),
         NEW m, m.type # "InventoryReceived", NEW n
  PROVE  OrderStep(o, o2, m, n)
<1>1. \A sku : Got(m, n, sku) = 0 BY GotNothing
<1> QED BY <1>1, OrderChanged

(* One order of the table changes. *)
LEMMA OneOrder ==
  ASSUME NEW t, OrdersTyped(t), NEW m, NEW n \in PoNumbers, t.po[n] # Absent, NEW new,
         OrderStep(t.po[n], new, m, n),
         m.type # "PurchaseOrderCreated", m.type = "InventoryReceived" => m.po = n,
         NEW t2, DOMAIN t2 = TableNames, t2.po = [t.po EXCEPT ![n] = new],
         DOMAIN t2.ships = ShipmentNos,
         \A k \in ShipmentNos : t2.ships[k] # Absent => "eta" \in DOMAIN t2.ships[k] /\ t2.ships[k].eta \in Day
  PROVE  OrdersEffect(t, t2, m)
<1>1. OrdersTyped(t2) BY DEF OrdersTyped, OrderStep
<1>2. \A k : ~Creates(m, k) BY DEF Creates
<1>3. ASSUME NEW k \in PoNumbers, t.po[k] # Absent
      PROVE  OrderStep(t.po[k], t2.po[k], m, k)
  <2>1. CASE k = n BY <2>1 DEF OrdersTyped
  <2>2. CASE k # n
    <3>1. t2.po[k] = t.po[k] /\ t.po[k] \in PurchaseOrder BY <1>3, <2>2 DEF OrdersTyped
    <3> QED BY <2>2, <3>1, GotNothing, OrderSame
  <2> QED BY <2>1, <2>2
<1>4. \A k \in PoNumbers : t.po[k] = Absent => t2.po[k] = Absent BY DEF OrdersTyped
<1> QED BY <1>1, <1>2, <1>3, <1>4 DEF OrdersEffect

(* The shipment a dispatch leaves has a date to expect it.                  *)
LEMMA ShipmentDated ==
  ASSUME NEW t, OrdersTyped(t), NEW m, m.no \in ShipmentNos, m.eta \in Day
  PROVE  "eta" \in DOMAIN ShipmentOf(t, m) /\ ShipmentOf(t, m).eta \in Day
<1> DEFINE old == IF t.ships[m.no] # Absent THEN t.ships[m.no]
                  ELSE [po |-> m.po, status |-> "IN_TRANSIT", eta |-> Absent, promised |-> Absent,
                        delay |-> 0, lines |-> <<>>]
           eta == IF m.eta # Absent THEN m.eta ELSE old.eta
           promised == IF old.promised = Absent /\ OrderOf(t, m) # Absent THEN OrderOf(t, m).promised
                       ELSE old.promised
           lines == old.lines \o SelectSeq(m.lines, LAMBDA x : x.sku \in Skus)
           new == [old EXCEPT !.status = "IN_TRANSIT", !.eta = eta, !.promised = promised, !.lines = lines]
<1>1. ShipmentOf(t, m) = new BY DEF ShipmentOf
<1>2. "eta" \in DOMAIN old /\ old.eta \in Day BY DEF OrdersTyped, Day
<1>3. eta \in Day BY <1>2
<1> HIDE DEF old, eta, promised, lines
<1>4. "eta" \in DOMAIN new /\ new.eta = eta BY <1>2
<1> QED BY <1>1, <1>3, <1>4

(* ShipmentDispatched: what is in transit of an order is no more than what  *)
(* is open.                                                                 *)
LEMMA DispatchedOrders ==
  ASSUME NEW t, OrdersTyped(t), NEW m, m.type = "ShipmentDispatched", OrderMessage(m)
  PROVE  OrdersEffect(t, OnShipDispatched(t, m), m)
<1> DEFINE ship == ShipmentOf(t, m)
           po == OrdersShipped(t, m)
           order == t.po[m.po]
           out == OnShipDispatched(t, m)
<1>0. /\ m.no \in ShipmentNos /\ m.eta \in Day /\ m.po \in PoNumbers \cup {Absent}
      /\ m.lines \in Seq(Range(m.lines)) /\ \A i \in DOMAIN m.lines : m.lines[i].qty \in Int
  BY DEF OrderMessage
<1>1. out = [t EXCEPT !.ships[m.no] = ship, !.po = po] BY Zenon DEF OnShipDispatched
<1>2. "eta" \in DOMAIN ship /\ ship.eta \in Day BY <1>0, ShipmentDated
<1>3. po = IF OrderOf(t, m) = Absent THEN t.po
           ELSE [t.po EXCEPT ![m.po].lines = ShipLines(@, m.lines, m.eta)]
  BY DEF OrdersShipped
<1> HIDE DEF ship, po
<1>4. /\ DOMAIN out = TableNames /\ out.po = po /\ out.ships = [t.ships EXCEPT ![m.no] = ship]
  BY <1>1 DEF OrdersTyped, TableNames
<1>5. /\ DOMAIN out.ships = ShipmentNos
      /\ \A k \in ShipmentNos : out.ships[k] # Absent => "eta" \in DOMAIN out.ships[k] /\ out.ships[k].eta \in Day
  BY <1>0, <1>2, <1>4 DEF OrdersTyped
<1> HIDE DEF out
<1>6. CASE OrderOf(t, m) = Absent
  <2>1. out.po = t.po BY <1>3, <1>4, <1>6
  <2>2. OrdersTyped(out) BY <1>4, <1>5, <2>1 DEF OrdersTyped
  <2>3. \A n : ~Creates(m, n) BY DEF Creates
  <2>4. \A n \in PoNumbers : t.po[n] # Absent => OrderStep(t.po[n], t.po[n], m, n)
    BY GotNothing, OrderSame DEF OrdersTyped
  <2>5. OrdersEffect(t, out, m) BY <2>1, <2>2, <2>3, <2>4 DEF OrdersEffect
  <2> QED BY <2>5 DEF out
<1>7. CASE OrderOf(t, m) # Absent
  <2>1. m.po \in PoNumbers /\ order # Absent BY <1>0, <1>7 DEF OrderOf
  <2>2. order \in PurchaseOrder BY <2>1 DEF OrdersTyped
  <2> DEFINE lines == ShipLines(order.lines, m.lines, m.eta)
             new == [order EXCEPT !.lines = lines]
  <2>3. po = [t.po EXCEPT ![m.po] = new] BY <1>3, <1>7
  <2> HIDE DEF order
  <2>4. order.lines \in Seq(OrderLine) BY <2>2, LinesOf
  <2>5. /\ lines \in Seq(OrderLine) /\ DOMAIN lines = DOMAIN order.lines
        /\ \A i \in DOMAIN order.lines : LineStep(order.lines[i], lines[i], 0)
    BY <1>0, <2>4, ShipLinesStep
  <2> HIDE DEF lines
  <2>6. new \in PurchaseOrder /\ new.lines = lines /\ new.status = order.status
    BY <2>2, <2>5 DEF PurchaseOrder
  <2> HIDE DEF new
  <2>7. OrderStep(order, new, m, m.po) BY <2>2, <2>5, <2>6, OrderRelined
  <2>8. OrdersEffect(t, out, m) BY <2>1, <2>3, <2>7, <1>4, <1>5, OneOrder DEF order
  <2> QED BY <2>8 DEF out
<1> QED BY <1>6, <1>7

(* New dates change no quantity.                                            *)
LEMMA RedateStep ==
  ASSUME NEW o \in PurchaseOrder, NEW eta \in Day, NEW m, m.type # "InventoryReceived", NEW n
  PROVE  OrderStep(o, Redate(o, eta), m, n)
<1> DEFINE old == o.lines
           lines == [i \in DOMAIN old |-> [old[i] EXCEPT !.eta = eta]]
           new == Redate(o, eta)
<1>1. new = [o EXCEPT !.eta = eta, !.lines = lines] BY DEF Redate
<1>2. old \in Seq(OrderLine) /\ \A i \in DOMAIN old : old[i] \in OrderLine BY LinesOf
<1>3. ASSUME NEW ln \in OrderLine PROVE LineStep(ln, [ln EXCEPT !.eta = eta], 0)
  <2> DEFINE ln2 == [ln EXCEPT !.eta = eta]
  <2>1. /\ ln2 \in OrderLine /\ ln2.sku = ln.sku /\ ln2.ordered = ln.ordered
        /\ ln2.received = ln.received /\ ln2.transit = ln.transit
    BY DEF OrderLine, Day
  <2>2. ln.received \in Int BY DEF OrderLine
  <2> HIDE DEF ln2
  <2>3. LineStep(ln, ln2, 0) BY <2>1, <2>2 DEF LineStep, Expected
  <2> QED BY <2>3 DEF ln2
<1>4. \A i \in DOMAIN old : LineStep(old[i], lines[i], 0) BY <1>2, <1>3
<1>5. lines = [i \in DOMAIN old |-> lines[i]] /\ DOMAIN lines = DOMAIN old OBVIOUS
<1> HIDE DEF lines
<1>6. lines \in Seq(OrderLine) BY <1>2, <1>4, <1>5, LinesMapped DEF LineStep
<1> HIDE DEF new
<1>7. new \in PurchaseOrder /\ new.lines = lines /\ new.status = o.status
  BY <1>1, <1>6 DEF PurchaseOrder, Day
<1>8. OrderStep(o, new, m, n) BY <1>4, <1>5, <1>7, OrderRelined
<1> QED BY <1>8 DEF new

(* ShipmentDelayed: the dates of an order follow those of its shipment.     *)
LEMMA ShipDelayedOrders ==
  ASSUME NEW t, OrdersTyped(t), NEW m, m.type = "ShipmentDelayed", OrderMessage(m),
         OnShipDelayed(t, m) # Refused
  PROVE  OrdersEffect(t, OnShipDelayed(t, m), m)
<1> DEFINE old == t.ships[m.no]
           eta == IF m.eta # Absent THEN m.eta ELSE old.eta
           late == IF eta # Absent /\ old.promised # Absent THEN eta - old.promised ELSE old.delay
           delay == IF m.delay # 0 THEN m.delay ELSE late
           ship == [old EXCEPT !.eta = eta, !.status = "DELAYED", !.delay = delay]
           po == [n \in PoNumbers |-> IF n = ship.po /\ t.po[n] # Absent THEN Redate(t.po[n], eta) ELSE t.po[n]]
           out == OnShipDelayed(t, m)
<1>0. m.no \in ShipmentNos /\ m.eta \in Day BY DEF OrderMessage
<1>1. old # Absent /\ out = [t EXCEPT !.ships[m.no] = ship, !.po = po] BY DEF OnShipDelayed
<1>2. "eta" \in DOMAIN old /\ old.eta \in Day BY <1>0, <1>1 DEF OrdersTyped
<1>3. eta \in Day BY <1>0, <1>2
<1> HIDE DEF old, eta, late, delay
<1>4. "eta" \in DOMAIN ship /\ ship.eta = eta BY <1>2
<1> HIDE DEF ship, out
<1>5. DOMAIN out = TableNames /\ out.po = po /\ out.ships = [t.ships EXCEPT ![m.no] = ship]
  <2> HIDE DEF po
  <2> QED BY <1>1 DEF OrdersTyped, TableNames
<1>6. \A n \in PoNumbers : t.po[n] # Absent => OrderStep(t.po[n], po[n], m, n)
  <2> SUFFICES ASSUME NEW n \in PoNumbers, t.po[n] # Absent PROVE OrderStep(t.po[n], po[n], m, n) OBVIOUS
  <2>1. t.po[n] \in PurchaseOrder BY DEF OrdersTyped
  <2>2. po[n] \in {t.po[n], Redate(t.po[n], eta)} OBVIOUS
  <2> HIDE DEF po
  <2> QED BY <1>3, <2>1, <2>2, RedateStep, GotNothing, OrderSame
<1>7. /\ DOMAIN po = PoNumbers /\ po = [n \in PoNumbers |-> po[n]]
      /\ \A n \in PoNumbers : t.po[n] = Absent => po[n] = Absent
  OBVIOUS
<1> HIDE DEF po
<1>8. OrdersTyped(out) BY <1>0, <1>3, <1>4, <1>5, <1>6, <1>7 DEF OrdersTyped, OrderStep
<1>9. \A n : ~Creates(m, n) BY DEF Creates
<1>10. OrdersEffect(t, out, m) BY <1>5, <1>6, <1>7, <1>8, <1>9 DEF OrdersEffect
<1> QED BY <1>10 DEF out

(* ShipmentStatus: a delivered shipment keeps its dates.                    *)
LEMMA ShipStatusOrders ==
  ASSUME NEW t, OrdersTyped(t), NEW m, m.type = "ShipmentStatus"
  PROVE  OrdersEffect(t, OnShipStatus(t, m), m)
<1> DEFINE ship == [t.ships[m.no] EXCEPT !.status = "DELIVERED"]
           out == OnShipStatus(t, m)
<1>1. \/ out = t
      \/ t.ships[m.no] # Absent /\ out = [t EXCEPT !.ships[m.no] = ship]
  BY DEF OnShipStatus
<1>2. ASSUME m.no \in ShipmentNos, t.ships[m.no] # Absent
      PROVE  "eta" \in DOMAIN ship /\ ship.eta \in Day
  BY <1>2 DEF OrdersTyped
<1> HIDE DEF ship, out
<1>3. DOMAIN out = TableNames /\ out.po = t.po BY <1>1 DEF OrdersTyped, TableNames
<1>4. /\ DOMAIN out.ships = ShipmentNos
      /\ \A k \in ShipmentNos : out.ships[k] # Absent => "eta" \in DOMAIN out.ships[k] /\ out.ships[k].eta \in Day
  <2>1. out.ships = t.ships \/ (t.ships[m.no] # Absent /\ out.ships = [t.ships EXCEPT ![m.no] = ship])
    BY <1>1 DEF OrdersTyped, TableNames
  <2> QED BY <1>2, <2>1 DEF OrdersTyped
<1>5. OrdersTyped(out) BY <1>3, <1>4 DEF OrdersTyped
<1>6. \A n : ~Creates(m, n) BY DEF Creates
<1>7. \A n \in PoNumbers : t.po[n] # Absent => OrderStep(t.po[n], t.po[n], m, n)
  BY GotNothing, OrderSame DEF OrdersTyped
<1>8. OrdersEffect(t, out, m) BY <1>3, <1>5, <1>6, <1>7 DEF OrdersEffect
<1> QED BY <1>8 DEF out

(* A created order has one line, with nothing in transit.                   *)
LEMMA NewOrderFresh ==
  ASSUME NEW supplier \in MasterKeys, NEW l \in Locations, NEW sku \in Skus, NEW q \in Int, NEW got \in Int,
         NEW promised \in Day, NEW eta \in Day
  PROVE  LET o == NewOrder(supplier, l, sku, q, got, promised, eta)
         IN  /\ Fresh(o) /\ o # Absent
             /\ \A i \in DOMAIN o.lines : o.lines[i].received = got
<1> DEFINE line == [sku |-> sku, ordered |-> q, received |-> got, transit |-> 0, status |-> "ACTIVE", eta |-> eta]
           o == NewOrder(supplier, l, sku, q, got, promised, eta)
<1>1. o = [supplier |-> supplier, dest |-> l, status |-> "OPEN", promised |-> promised, eta |-> eta,
           lines |-> <<line>>]
  BY DEF NewOrder
<1>2. line \in OrderLine BY DEF OrderLine, Day
<1>3. line.transit = 0 /\ line.received = got OBVIOUS
<1> HIDE DEF line, o
<1>4. <<line>> \in Seq(OrderLine) BY <1>2
<1>5. o \in PurchaseOrder BY <1>1, <1>4 DEF PurchaseOrder, Day
<1>6. o.status = "OPEN" /\ o.lines = <<line>> BY <1>1
<1>7. Fresh(o) /\ o # Absent /\ \A i \in DOMAIN o.lines : o.lines[i].received = got
  BY <1>3, <1>5, <1>6, DocumentsAssumption DEF Fresh
<1> QED BY <1>7 DEF o

(* PurchaseOrderCreated: an order that did not exist, nothing of it         *)
(* received.                                                                *)
LEMMA CreatedOrders ==
  ASSUME NEW t, OrdersTyped(t), NEW m, m.type = "PurchaseOrderCreated", OrderMessage(m),
         OnPoCreated(t, m) # Refused
  PROVE  OrdersEffect(t, OnPoCreated(t, m), m)
<1> DEFINE promised == IF m.eta # Absent THEN m.eta ELSE Today
           new == NewOrder(m.supplier, m.loc, m.sku, m.qty, 0, promised, promised)
           out == OnPoCreated(t, m)
<1>0. /\ m.po \in PoNumbers /\ m.supplier \in MasterKeys /\ m.loc \in Locations
      /\ m.qty \in Int /\ m.eta \in Day
  BY DEF OrderMessage
<1>1. out = [t EXCEPT !.po[m.po] = new] /\ m.sku \in Skus /\ t.po[m.po] = Absent BY DEF OnPoCreated
<1>2. promised \in Day BY <1>0, DocumentsAssumption DEF Day
<1> HIDE DEF promised
<1>3. Fresh(new) /\ new # Absent /\ \A i \in DOMAIN new.lines : new.lines[i].received = 0
  <2>1. m.sku \in Skus /\ 0 \in Int BY <1>1
  <2>2. \A supplier \in MasterKeys : \A l \in Locations : \A sku \in Skus : \A q \in Int : \A day \in Day :
          LET o == NewOrder(supplier, l, sku, q, 0, day, day)
          IN  Fresh(o) /\ o # Absent /\ \A i \in DOMAIN o.lines : o.lines[i].received = 0
    BY <2>1, NewOrderFresh
  <2> QED BY <1>0, <1>2, <2>1, <2>2
<1> HIDE DEF new, out
<1>4. DOMAIN out = TableNames /\ out.po = [t.po EXCEPT ![m.po] = new] /\ out.ships = t.ships
  BY <1>1 DEF OrdersTyped, TableNames
<1>5. OrdersTyped(out) BY <1>0, <1>3, <1>4 DEF OrdersTyped, Fresh
<1>6. \A n \in PoNumbers : Creates(m, n) <=> n = m.po BY DEF Creates
<1>7. ASSUME NEW n \in PoNumbers, t.po[n] # Absent
      PROVE  ~Creates(m, n) /\ OrderStep(t.po[n], out.po[n], m, n)
  <2>1. n # m.po BY <1>1, <1>7
  <2>2. out.po[n] = t.po[n] /\ t.po[n] \in PurchaseOrder BY <1>4, <1>7, <2>1 DEF OrdersTyped
  <2> QED BY <1>6, <2>1, <2>2, GotNothing, OrderSame
<1>8. ASSUME NEW n \in PoNumbers, t.po[n] = Absent
      PROVE  /\ Creates(m, n) => Fresh(out.po[n]) /\ \A i \in DOMAIN out.po[n].lines : out.po[n].lines[i].received = 0
             /\ ~Creates(m, n) => out.po[n] = Absent
  BY <1>3, <1>4, <1>6, <1>8 DEF OrdersTyped
<1>9. OrdersEffect(t, out, m) BY <1>5, <1>7, <1>8 DEF OrdersEffect
<1> QED BY <1>9 DEF out

(* PurchaseOrderDelayed changes dates. *)
LEMMA DelayedOrders ==
  ASSUME NEW t, OrdersTyped(t), NEW m, m.type = "PurchaseOrderDelayed", OrderMessage(m),
         OnPoDelayed(t, m) # Refused
  PROVE  OrdersEffect(t, OnPoDelayed(t, m), m)
<1> DEFINE new == Redate(t.po[m.po], m.eta)
           out == OnPoDelayed(t, m)
<1>0. m.po \in PoNumbers /\ m.eta \in Day BY DEF OrderMessage
<1>1. t.po[m.po] # Absent /\ out = IF m.eta = Absent THEN t ELSE [t EXCEPT !.po[m.po] = new]
  BY DEF OnPoDelayed
<1>2. t.po[m.po] \in PurchaseOrder BY <1>0, <1>1 DEF OrdersTyped
<1>3. OrderStep(t.po[m.po], new, m, m.po) BY <1>0, <1>2, RedateStep
<1> HIDE DEF new, out
<1>4. CASE m.eta = Absent
  <2>1. out = t BY <1>1, <1>4
  <2>2. OrdersEffect(t, out, m) BY <2>1, OrdersUntouched DEF OrdersTyped
  <2> QED BY <2>2 DEF out
<1>5. CASE m.eta # Absent
  <2>1. DOMAIN out = TableNames /\ out.po = [t.po EXCEPT ![m.po] = new] /\ out.ships = t.ships
    BY <1>1, <1>5 DEF OrdersTyped, TableNames
  <2>2. /\ DOMAIN out.ships = ShipmentNos
        /\ \A k \in ShipmentNos : out.ships[k] # Absent => "eta" \in DOMAIN out.ships[k] /\ out.ships[k].eta \in Day
    BY <2>1 DEF OrdersTyped
  <2>3. OrdersEffect(t, out, m) BY <1>0, <1>1, <1>3, <2>1, <2>2, OneOrder
  <2> QED BY <2>3 DEF out
<1> QED BY <1>4, <1>5

(* The handlers that have nothing to do with orders.                        *)
LEMMA OtherOrders ==
  ASSUME NEW t, OrdersTyped(t), NEW m, NEW txn, Handle(t, m, txn) # Refused,
         m.type \in {"InventoryIssued", "DemandChanged", "ForecastUpdated", "InventoryAdjusted", "TransferCreated",
                     "TransferCompleted", "QualityHold", "QualityRelease", "ExpiryApproaching"}
  PROVE  OrdersEffect(t, Handle(t, m, txn), m)
<1> DEFINE out == Handle(t, m, txn)
           Leaves == DOMAIN out = TableNames /\ out.po = t.po /\ out.ships = t.ships
           Sets(f) == \E v : out = [t EXCEPT ![f] = v]
<1>0. DOMAIN t = TableNames /\ out # Refused BY DEF OrdersTyped
<1>a. SUFFICES Leaves
  <2> HIDE DEF out
  <2>1. ASSUME Leaves PROVE OrdersEffect(t, out, m) BY <2>1, OrdersUntouched
  <2> QED BY <2>1 DEF out
<1>1. CASE m.type = "InventoryIssued"
  <2>0. out = OnIssued(t, m, txn) BY <1>1 DEF Handle
  <2> HIDE DEF out
  <2> DEFINE r == [Plain("ISSUE", m.loc, m.lot, m.qty) EXCEPT !.id = txn]
  <2>1. out = PostIn(WithLot(t, m.lot), r) BY <1>0, <2>0 DEF OnIssued
  <2> HIDE DEF r
  <2> QED BY <1>0, <2>1, WithLotOrders, PostInOrders DEF out
<1>2. CASE m.type = "DemandChanged"
  <2>0. out = OnDemand(t, m) BY <1>2 DEF Handle
  <2> HIDE DEF out
  <2>1. Sets("demand") BY <1>0, <2>0 DEF OnDemand
  <2> QED BY <1>0, <2>1 DEF TableNames
<1>3. CASE m.type = "ForecastUpdated"
  <2>0. out = OnForecast(t, m) BY <1>3 DEF Handle
  <2> HIDE DEF out
  <2>1. Sets("forecast") BY <1>0, <2>0 DEF OnForecast, SetForecast
  <2> QED BY <1>0, <2>1 DEF TableNames
<1>4. CASE m.type = "InventoryAdjusted"
  <2>0. out = OnAdjusted(t, m) BY <1>4 DEF Handle
  <2> HIDE DEF out
  <2> DEFINE b == <<m.loc, 0, "UNRESTRICTED">>
             n == t.balance[b]
             r == [Plain("CYCLE_COUNT", m.loc, 0, IF m.counted > n THEN m.counted - n ELSE n - m.counted)
                     EXCEPT !.dir = IF m.counted > n THEN "IN" ELSE "OUT", !.from = "UNRESTRICTED", !.to = "UNRESTRICTED"]
  <2>1. out = IF m.counted = n THEN t ELSE PostIn(t, r) BY <1>0, <2>0 DEF OnAdjusted, CountIn
  <2> HIDE DEF r, n
  <2> QED BY <1>0, <2>1, PostInOrders DEF out
<1>5. CASE m.type = "TransferCreated"
  <2>0. out = OnTransferCreated(t, m) BY <1>5 DEF Handle
  <2> HIDE DEF out
  <2> DEFINE order == [from |-> m.loc, to |-> m.toLoc, qty |-> m.qty, received |-> 0,
                       eta |-> IF m.eta # Absent THEN m.eta ELSE Today, status |-> "OPEN"]
  <2>1. out = [t EXCEPT !.transfers[m.no] = order] BY <1>0, <2>0 DEF OnTransferCreated
  <2> HIDE DEF order
  <2> QED BY <1>0, <2>1 DEF TableNames
<1>6. CASE m.type = "TransferCompleted"
  <2>0. out = OnTransferCompleted(t, m, txn) BY <1>6 DEF Handle
  <2> HIDE DEF out
  <2> DEFINE order == t.transfers[m.no]
             q == IF m.qty # 0 THEN m.qty ELSE order.qty
             r == [Plain("TRANSFER", order.from, 0, q) EXCEPT !.toLoc = order.to, !.id = txn]
             posted == PostIn(t, r)
  <2>1. posted # Refused /\ out = [posted EXCEPT !.transfers[m.no] = [@ EXCEPT !.received = q, !.status = "RECEIVED"]]
    BY <1>0, <2>0 DEF OnTransferCompleted
  <2> HIDE DEF r, q
  <2>2. DOMAIN posted = TableNames /\ posted.po = t.po /\ posted.ships = t.ships BY <1>0, <2>1, PostInOrders
  <2> HIDE DEF posted
  <2> QED BY <2>1, <2>2 DEF TableNames
<1>7. CASE m.type \in {"QualityHold", "QualityRelease"}
  <2> DEFINE hold == m.type = "QualityHold"
             r == [Plain(IF hold THEN "QUARANTINE" ELSE "RELEASE", m.loc, m.lot, m.qty) EXCEPT !.id = txn]
             posted == PostIn(WithLot(t, m.lot), r)
             v == IF hold THEN "QUARANTINE" ELSE "RELEASED"
  <2>1. out = OnQuality(t, m, txn) BY <1>7 DEF Handle
  <2>2. posted # Refused /\ out = [posted EXCEPT !.quality[m.lot] = v] BY <2>1 DEF OnQuality
  <2> HIDE DEF r, v
  <2>3. DOMAIN posted = TableNames /\ posted.po = t.po /\ posted.ships = t.ships
    BY <1>0, <2>2, WithLotOrders, PostInOrders
  <2> HIDE DEF posted, out
  <2> QED BY <2>2, <2>3 DEF TableNames
<1>8. CASE m.type = "ExpiryApproaching"
  <2>0. out = OnExpiry(t, m) BY <1>8 DEF Handle
  <2> HIDE DEF out
  <2> DEFINE v == IF m.days <= 30 THEN "HIGH" ELSE "MEDIUM"
  <2>1. out = t \/ out = [t EXCEPT !.expiry[m.lot] = v] BY <1>0, <2>0 DEF OnExpiry
  <2> HIDE DEF v
  <2> QED BY <1>0, <2>1 DEF TableNames
<1> QED BY <1>1, <1>2, <1>3, <1>4, <1>5, <1>6, <1>7, <1>8

(* What a handler does to the orders. *)
LEMMA HandleOrders ==
  ASSUME NEW t, OrdersTyped(t), NEW m, Valid(m), OrderMessage(m), NEW txn, Handle(t, m, txn) # Refused
  PROVE  OrdersEffect(t, Handle(t, m, txn), m)
<1>1. m.type \in DOMAIN Required BY DEF Valid
<1>2. CASE m.type = "InventoryReceived"
  <2>1. Handle(t, m, txn) = OnReceived(t, m, txn) BY <1>2 DEF Handle
  <2>2. m.qty \in Nat /\ m.po \in PoNumbers \cup {Absent}
    <3>1. Required[m.type] = {"sku", "loc", "qty"} BY <1>2 DEF Required
    <3>2. m.qty >= 0 BY <3>1 DEF Valid
    <3> QED BY <1>2, <3>2 DEF OrderMessage
  <2> QED BY <1>2, <2>1, <2>2, ReceivedOrders
<1>3. CASE m.type = "ShipmentDispatched"
  <2>1. Handle(t, m, txn) = OnShipDispatched(t, m) BY <1>3 DEF Handle
  <2> QED BY <1>3, <2>1, DispatchedOrders
<1>4. CASE m.type = "ShipmentDelayed"
  <2>1. Handle(t, m, txn) = OnShipDelayed(t, m) BY <1>4 DEF Handle
  <2> QED BY <1>4, <2>1, ShipDelayedOrders
<1>5. CASE m.type = "ShipmentStatus"
  <2>1. Handle(t, m, txn) = OnShipStatus(t, m) BY <1>5 DEF Handle
  <2> QED BY <1>5, <2>1, ShipStatusOrders
<1>6. CASE m.type = "PurchaseOrderCreated"
  <2>1. Handle(t, m, txn) = OnPoCreated(t, m) BY <1>6 DEF Handle
  <2> QED BY <1>6, <2>1, CreatedOrders
<1>7. CASE m.type = "PurchaseOrderDelayed"
  <2>1. Handle(t, m, txn) = OnPoDelayed(t, m) BY <1>7 DEF Handle
  <2> QED BY <1>7, <2>1, DelayedOrders
<1>8. DOMAIN Required \ {"InventoryReceived", "ShipmentDispatched", "ShipmentDelayed", "ShipmentStatus",
                         "PurchaseOrderCreated", "PurchaseOrderDelayed"}
        \subseteq {"InventoryIssued", "DemandChanged", "ForecastUpdated", "InventoryAdjusted", "TransferCreated",
                   "TransferCompleted", "QualityHold", "QualityRelease", "ExpiryApproaching"}
  BY DEF Required
<1> QED BY <1>1, <1>2, <1>3, <1>4, <1>5, <1>6, <1>7, <1>8, OtherOrders

-----------------------------------------------------------------------------
(* Receipts and the lines of the orders *)

(* What the inbox has brought for a line since an event.                    *)
Brings(x, n, sku) ==
  x.status = "PROCESSED" /\ x.msg.type = "InventoryReceived" /\ x.msg.po = n /\ x.msg.sku = sku
BroughtIn(box, e, n, sku) == {f \in 1..Len(box) : f > e /\ Brings(box[f], n, sku)}
QtysOf(box) == [f \in 1..Len(box) |-> box[f].msg.qty]
Since(box, e, n, sku) == SumOverSet(QtysOf(box), BroughtIn(box, e, n, sku))

(* Events that were processed were fit for it. *)
Delivered(box) ==
  /\ Listed(box)
  /\ \A e \in 1..Len(box) : Processed(box, e) => Valid(box[e].msg) /\ OrderMessage(box[e].msg)

(* The orders no upload has changed agree with the inbox.                   *)
Reconciled(t, box, touched) ==
  /\ OrdersTyped(t) /\ Delivered(box)
  /\ \A n \in PoNumbers \ touched : t.po[n] # Absent => Sound(t.po[n])
  /\ \A e \in 1..Len(box) : \A n \in PoNumbers :
       Processed(box, e) /\ Creates(box[e].msg, n) =>
         /\ t.po[n] # Absent
         /\ n \notin touched => \A i \in DOMAIN t.po[n].lines :
              t.po[n].lines[i].received = Since(box, e, n, t.po[n].lines[i].sku)

(* What came is a finite sum of integers.                                   *)
LEMMA SinceInt ==
  ASSUME NEW box, Delivered(box), NEW e, NEW n, NEW sku
  PROVE  /\ Len(box) \in Nat /\ IsFiniteSet(BroughtIn(box, e, n, sku))
         /\ \A f \in BroughtIn(box, e, n, sku) : QtysOf(box)[f] \in Int
         /\ Since(box, e, n, sku) \in Int
<1> DEFINE S == BroughtIn(box, e, n, sku)
<1>1. Len(box) \in Nat
  <2>1. box \in Seq(Range(box)) BY DEF Delivered, Listed
  <2> HIDE DEF Range
  <2> QED BY <2>1
<1>2. IsFiniteSet(S)
  <2>1. IsFiniteSet(1..Len(box)) BY <1>1, FS_Interval
  <2>2. S \subseteq 1..Len(box) BY DEF BroughtIn
  <2> QED BY <2>1, <2>2, FS_Subset
<1>3. \A f \in S : QtysOf(box)[f] \in Int
  BY DEF BroughtIn, QtysOf, Brings, Delivered, Processed, OrderMessage
<1>4. Since(box, e, n, sku) \in Int
  <2> HIDE DEF S
  <2>1. SumOverSet(QtysOf(box), S) \in Int BY <1>2, <1>3, SumInt
  <2> QED BY <2>1 DEF Since, S
<1> QED BY <1>1, <1>2, <1>3, <1>4

(* One more event brings what it brings.                                    *)
LEMMA SinceMore ==
  ASSUME NEW box, Delivered(box), NEW x, x.status = "PROCESSED" => Valid(x.msg) /\ OrderMessage(x.msg)
  PROVE  LET box2 == Append(box, x)
             k == Len(box) + 1
         IN  /\ Delivered(box2) /\ Len(box) \in Nat /\ Len(box2) = k /\ box2[k] = x
             /\ \A e \in 1..Len(box) : box2[e] = box[e]
             /\ \A n, sku : Since(box2, k, n, sku) = 0
             /\ \A e \in 1..Len(box) : \A n, sku :
                  Since(box2, e, n, sku)
                    = Since(box, e, n, sku) + (IF x.status = "PROCESSED" THEN Got(x.msg, n, sku) ELSE 0)
<1> DEFINE box2 == Append(box, x)
           k == Len(box) + 1
<1>1. /\ Listed(box2) /\ Len(box) \in Nat /\ Len(box2) = k /\ box2[k] = x
      /\ \A e \in 1..Len(box) : box2[e] = box[e]
  BY Appended DEF Delivered
<1> HIDE DEF box2
<1>2. Delivered(box2)
  <2> SUFFICES ASSUME NEW e \in 1..Len(box2), Processed(box2, e)
               PROVE  Valid(box2[e].msg) /\ OrderMessage(box2[e].msg)
    BY <1>1 DEF Delivered
  <2>1. CASE e = k BY <1>1, <2>1 DEF Processed
  <2>2. CASE e # k
    <3>1. e \in 1..Len(box) /\ box2[e] = box[e] BY <1>1, <2>2
    <3> QED BY <3>1 DEF Processed, Delivered
  <2> QED BY <2>1, <2>2
<1>3. ASSUME NEW n, NEW sku PROVE Since(box2, k, n, sku) = 0
  <2>1. BroughtIn(box2, k, n, sku) = {} BY <1>1 DEF BroughtIn
  <2> QED BY <2>1, SumEmpty DEF Since
<1>4. ASSUME NEW e \in 1..Len(box), NEW n, NEW sku
      PROVE  Since(box2, e, n, sku)
               = Since(box, e, n, sku) + (IF x.status = "PROCESSED" THEN Got(x.msg, n, sku) ELSE 0)
  <2> DEFINE S == BroughtIn(box, e, n, sku)
             S2 == BroughtIn(box2, e, n, sku)
  <2>1. IsFiniteSet(S) /\ IsFiniteSet(S2) /\ Since(box, e, n, sku) \in Int BY <1>2, SinceInt
  <2>2. \A f \in S2 : QtysOf(box2)[f] \in Int BY <1>2, SinceInt
  <2>3. \A f \in S : QtysOf(box2)[f] = QtysOf(box)[f] BY <1>1 DEF BroughtIn, QtysOf
  <2>4. SumOverSet(QtysOf(box2), S) = Since(box, e, n, sku)
    <3>1. SumOverSet(QtysOf(box2), S) = SumOverSet(QtysOf(box), S)
      <4> HIDE DEF S
      <4> QED BY <2>1, <2>3, SumAgrees
    <3> QED BY <3>1 DEF Since
  <2>5. k \notin S BY <1>1 DEF BroughtIn
  <2>6. CASE Brings(x, n, sku)
    <3>1. S2 = S \cup {k} BY <1>1, <2>6 DEF BroughtIn
    <3>2. QtysOf(box2)[k] = x.msg.qty BY <1>1 DEF QtysOf
    <3>3. S2 \ {k} = S /\ k \in S2 BY <2>5, <3>1
    <3>4. SumOverSet(QtysOf(box2), S2) = QtysOf(box2)[k] + SumOverSet(QtysOf(box2), S2 \ {k})
      <4> HIDE DEF S2
      <4> QED BY <2>1, <2>2, <3>3, SumTakesOut
    <3>5. x.status = "PROCESSED" /\ Got(x.msg, n, sku) = x.msg.qty BY <2>6 DEF Brings, Got
    <3>6. x.msg.qty \in Int BY <3>2, <3>3, <2>2
    <3>7. Since(box2, e, n, sku) = x.msg.qty + Since(box, e, n, sku)
      <4>1. Since(box2, e, n, sku) = SumOverSet(QtysOf(box2), S2) BY DEF Since
      <4> HIDE DEF S, S2
      <4> QED BY <2>4, <3>2, <3>3, <3>4, <4>1
    <3> HIDE DEF S, S2
    <3> QED BY <2>1, <3>5, <3>6, <3>7
  <2>7. CASE ~Brings(x, n, sku)
    <3>1. S2 = S BY <1>1, <2>7 DEF BroughtIn
    <3>2. (IF x.status = "PROCESSED" THEN Got(x.msg, n, sku) ELSE 0) = 0 BY <2>7 DEF Brings, Got
    <3> QED BY <2>1, <2>4, <3>1, <3>2 DEF Since
  <2> QED BY <2>6, <2>7
<1> QED BY <1>1, <1>2, <1>3, <1>4 DEF box2

(* A new order is sound. *)
LEMMA FreshSound ==
  ASSUME NEW o, Fresh(o)
  PROVE  Sound(o) /\ o # Absent
BY DocumentsAssumption DEF Fresh, Sound, Expected

(* An event that is not processed changes nothing.                          *)
LEMMA ReconciledFailed ==
  ASSUME NEW t, NEW box, NEW touched, Reconciled(t, box, touched), NEW x, x.status # "PROCESSED"
  PROVE  Reconciled(t, Append(box, x), touched)
<1> DEFINE box2 == Append(box, x)
           k == Len(box) + 1
<1>1. /\ Delivered(box2) /\ Len(box) \in Nat /\ Len(box2) = k /\ box2[k] = x
      /\ \A e \in 1..Len(box) : box2[e] = box[e]
      /\ \A e \in 1..Len(box) : \A n, sku : Since(box2, e, n, sku) = Since(box, e, n, sku) + 0
  BY SinceMore DEF Reconciled
<1> HIDE DEF box2
<1>2. ASSUME NEW e \in 1..Len(box2), Processed(box2, e)
      PROVE  /\ e \in 1..Len(box) /\ Processed(box, e) /\ box2[e] = box[e]
             /\ \A n, sku : Since(box2, e, n, sku) = Since(box, e, n, sku)
  <2>1. e # k BY <1>1, <1>2 DEF Processed
  <2>2. e \in 1..Len(box) BY <1>1, <2>1
  <2>3. \A n, sku : Since(box, e, n, sku) \in Int BY SinceInt DEF Reconciled
  <2> QED BY <1>1, <1>2, <2>2, <2>3 DEF Processed
<1>3. Reconciled(t, box2, touched) BY <1>1, <1>2 DEF Reconciled
<1> QED BY <1>3 DEF box2

(* An event that is processed brings its lines what the inbox says.         *)
LEMMA ReconciledProcessed ==
  ASSUME NEW t, NEW box, NEW touched, Reconciled(t, box, touched), NEW m, Valid(m), OrderMessage(m),
         NEW t2, OrdersEffect(t, t2, m), NEW x, x.msg = m, x.status = "PROCESSED"
  PROVE  Reconciled(t2, Append(box, x), touched)
<1> DEFINE box2 == Append(box, x)
           k == Len(box) + 1
<1>1. /\ Delivered(box2) /\ Len(box) \in Nat /\ Len(box2) = k /\ box2[k] = x
      /\ \A e \in 1..Len(box) : box2[e] = box[e]
      /\ \A n, sku : Since(box2, k, n, sku) = 0
      /\ \A e \in 1..Len(box) : \A n, sku : Since(box2, e, n, sku) = Since(box, e, n, sku) + Got(m, n, sku)
  BY SinceMore DEF Reconciled
<1> HIDE DEF box2
<1>2. OrdersTyped(t2) BY DEF OrdersEffect
<1>3. ASSUME NEW n \in PoNumbers \ touched, t2.po[n] # Absent
      PROVE  Sound(t2.po[n])
  <2>1. CASE t.po[n] = Absent BY <1>3, <2>1, FreshSound DEF OrdersEffect
  <2>2. CASE t.po[n] # Absent BY <2>2 DEF OrdersEffect, OrderStep, Reconciled
  <2> QED BY <2>1, <2>2
<1>4. ASSUME NEW e \in 1..Len(box2), NEW n \in PoNumbers, Processed(box2, e), Creates(box2[e].msg, n)
      PROVE  /\ t2.po[n] # Absent
             /\ n \notin touched => \A i \in DOMAIN t2.po[n].lines :
                  t2.po[n].lines[i].received = Since(box2, e, n, t2.po[n].lines[i].sku)
  <2>1. CASE e = k
    <3>1. Creates(m, n) BY <1>1, <1>4, <2>1
    <3>2. t.po[n] = Absent BY <3>1 DEF OrdersEffect
    <3>3. Fresh(t2.po[n]) /\ \A i \in DOMAIN t2.po[n].lines : t2.po[n].lines[i].received = 0
      BY <3>1, <3>2 DEF OrdersEffect
    <3> QED BY <1>1, <2>1, <3>3, FreshSound
  <2>2. CASE e # k
    <3>1. e \in 1..Len(box) /\ box2[e] = box[e] BY <1>1, <2>2
    <3>2. Processed(box, e) /\ Creates(box[e].msg, n) BY <1>4, <3>1 DEF Processed
    <3>3. /\ t.po[n] # Absent
          /\ n \notin touched => \A i \in DOMAIN t.po[n].lines :
               t.po[n].lines[i].received = Since(box, e, n, t.po[n].lines[i].sku)
      BY <3>1, <3>2 DEF Reconciled
    <3>4. OrderStep(t.po[n], t2.po[n], m, n) BY <3>3 DEF OrdersEffect
    <3>5. t2.po[n] # Absent BY <3>4, DocumentsAssumption DEF OrderStep
    <3>6. ASSUME n \notin touched, NEW i \in DOMAIN t2.po[n].lines
          PROVE  t2.po[n].lines[i].received = Since(box2, e, n, t2.po[n].lines[i].sku)
      <4>1. /\ i \in DOMAIN t.po[n].lines /\ t2.po[n].lines[i].sku = t.po[n].lines[i].sku
            /\ t2.po[n].lines[i].received = t.po[n].lines[i].received + Got(m, n, t.po[n].lines[i].sku)
        BY <3>4, <3>6 DEF OrderStep
      <4>2. t.po[n].lines[i].received = Since(box, e, n, t.po[n].lines[i].sku) BY <3>3, <3>6, <4>1
      <4> QED BY <1>1, <3>1, <4>1, <4>2
    <3> QED BY <3>5, <3>6
  <2> QED BY <2>1, <2>2
<1>5. Reconciled(t2, box2, touched) BY <1>1, <1>2, <1>3, <1>4 DEF Reconciled
<1> QED BY <1>5 DEF box2

(* The invariant of the loop over events. *)
InBalance(base, ms, i, acc) == Reconciled(acc.t, acc.inbox, edited)

Deliveries == INSTANCE FoldLemmas WITH Op <- Receive, Holds <- InBalance

(* Handling one event keeps the orders reconciled,                          *)
LEMMA ReceiveReconciles ==
  ASSUME NEW acc, NEW m, Valid(m) => OrderMessage(m), Reconciled(acc.t, acc.inbox, edited)
  PROVE  Reconciled(Receive(acc, m).t, Receive(acc, m).inbox, edited)
<1> DEFINE id == TxnId(m, Len(acc.inbox) + 1)
           t == IF Valid(m) THEN Handle(acc.t, m, id) ELSE Refused
           bad == [msg |-> m, status |-> "FAILED"]
           good == [msg |-> m, status |-> "PROCESSED"]
           out == Receive(acc, m)
<1>1. CASE t = Refused
  <2>1. out = [t |-> acc.t, inbox |-> Append(acc.inbox, bad)] BY <1>1 DEF Receive
  <2>2. bad.status # "PROCESSED" OBVIOUS
  <2> HIDE DEF bad, out
  <2>3. out.t = acc.t /\ out.inbox = Append(acc.inbox, bad) BY <2>1
  <2>4. Reconciled(out.t, out.inbox, edited) BY <2>2, <2>3, ReconciledFailed
  <2> QED BY <2>4 DEF out
<1>2. CASE t # Refused
  <2>1. Valid(m) /\ t = Handle(acc.t, m, id) BY <1>2
  <2>2. out = [t |-> t, inbox |-> Append(acc.inbox, good)] BY <1>2 DEF Receive
  <2>3. good.msg = m /\ good.status = "PROCESSED" OBVIOUS
  <2> HIDE DEF good, out, t, id
  <2>4. out.t = t /\ out.inbox = Append(acc.inbox, good) BY <2>2
  <2>5. OrdersEffect(acc.t, t, m) BY <1>2, <2>1, HandleOrders DEF Reconciled
  <2>6. Reconciled(out.t, out.inbox, edited) BY <2>1, <2>3, <2>4, <2>5, ReconciledProcessed
  <2> QED BY <2>6 DEF out
<1> QED BY <1>1, <1>2

(* and so does a batch of them.                                             *)
LEMMA ReceiptsReconcile ==
  ASSUME NEW base, NEW T, NEW ms \in Seq(T), \A i \in 1..Len(ms) : Valid(ms[i]) => OrderMessage(ms[i]),
         Reconciled(base.t, base.inbox, edited)
  PROVE  Reconciled(FoldLeft(Receive, base, ms).t, FoldLeft(Receive, base, ms).inbox, edited)
<1>1. FoldLeft(Receive, base, ms) = Deliveries!Fold(base, ms)
  BY DEF Deliveries!Fold, Deliveries!FoldLeft, Deliveries!MapThenFoldSet, Deliveries!Max,
         FoldLeft, MapThenFoldSet, Max
<1>2. InBalance(base, ms, 0, base) BY DEF InBalance
<1>3. ASSUME NEW i \in 1..Len(ms), NEW acc, InBalance(base, ms, i-1, acc)
      PROVE  InBalance(base, ms, i, Receive(acc, ms[i]))
  BY <1>3, ReceiveReconciles DEF InBalance
<1>4. InBalance(base, ms, Len(ms), Deliveries!Fold(base, ms)) BY <1>2, <1>3, Deliveries!FoldHolds
<1> QED BY <1>1, <1>4 DEF InBalance

-----------------------------------------------------------------------------
(* Orders of files *)

(* What a row of a file does to the orders: none is deleted, and one it     *)
(* creates is open, with nothing in transit.                                *)
RowOrders(t, t2) ==
  /\ OrdersTyped(t2)
  /\ \A n \in PoNumbers :
       /\ t.po[n] # Absent => t2.po[n] # Absent
       /\ t.po[n] = Absent => t2.po[n] = Absent \/ Fresh(t2.po[n])
       /\ Fresh(t.po[n]) => Fresh(t2.po[n])

(* A row that leaves orders and shipments alone. *)
LEMMA RowUntouched ==
  ASSUME NEW t, OrdersTyped(t), NEW t2, DOMAIN t2 = TableNames, t2.po = t.po, t2.ships = t.ships
  PROVE  RowOrders(t, t2)
BY DEF RowOrders, OrdersTyped

(* A count leaves orders and shipments alone. *)
LEMMA CountInOrders ==
  ASSUME NEW t, DOMAIN t = TableNames, NEW l, NEW lot, NEW state, NEW q,
         CountIn(t, l, lot, state, q) # Refused
  PROVE  LET t2 == CountIn(t, l, lot, state, q)
         IN  DOMAIN t2 = TableNames /\ t2.po = t.po /\ t2.ships = t.ships
<1> DEFINE n == t.balance[<<l, lot, state>>]
           r == [Plain("CYCLE_COUNT", l, lot, IF q > n THEN q - n ELSE n - q)
                   EXCEPT !.dir = IF q > n THEN "IN" ELSE "OUT", !.from = state, !.to = state]
           t2 == CountIn(t, l, lot, state, q)
<1>1. t2 = IF q = n THEN t ELSE PostIn(t, r) BY DEF CountIn
<1>2. t2 # Refused OBVIOUS
<1> HIDE DEF n, r, t2
<1>3. DOMAIN t2 = TableNames /\ t2.po = t.po /\ t2.ships = t.ships BY <1>1, <1>2, PostInOrders
<1> QED BY <1>3 DEF t2

(* Rows of balances and transactions leave orders and shipments alone.      *)
LEMMA StockRowOrders ==
  ASSUME NEW t, DOMAIN t = TableNames, NEW r, NEW out, out # Refused,
         out = BalanceRow(t, r) \/ out = TransactionRow(t, r)
  PROVE  DOMAIN out.t = TableNames /\ out.t.po = t.po /\ out.t.ships = t.ships
<1> DEFINE known == WithLot(t, r.lot)
           Leaves(t2) == DOMAIN t2 = TableNames /\ t2.po = t.po /\ t2.ships = t.ships
<1>1. Leaves(known) BY WithLotOrders
<1>2. CASE out = BalanceRow(t, r)
  <2> DEFINE b == <<r.loc, r.lot, r.state>>
             q == r.qty * r.units
             counted == CountIn(known, r.loc, r.lot, r.state, q)
             request == [Plain("RECEIPT", r.loc, r.lot, q) EXCEPT !.to = r.state]
             first == PostIn(known, request)
             posted == IF HasRowIn(t.txns, b) THEN counted ELSE first
  <2>1. \/ out = Taken("skipped", known)
        \/ posted # Refused /\ out = Taken(IF HasRowIn(t.txns, b) THEN "updated" ELSE "created", posted)
    BY <1>2 DEF BalanceRow
  <2> HIDE DEF known, q, request
  <2>2. counted # Refused => Leaves(counted) BY <1>1, CountInOrders
  <2>3. first # Refused => Leaves(first) BY <1>1, PostInOrders
  <2>4. posted # Refused => Leaves(posted) BY <2>2, <2>3
  <2> HIDE DEF posted
  <2>5. out.t \in {known, posted} /\ (out.t # known => posted # Refused) BY <2>1 DEF Taken
  <2> QED BY <1>1, <2>4, <2>5
<1>3. CASE out = TransactionRow(t, r)
  <2> DEFINE request == [Plain(r.type, r.loc, r.lot, r.qty * r.units)
                           EXCEPT !.toLoc = r.toLoc, !.id = IF r.txn = Absent THEN GeneratedId ELSE r.txn]
             posted == PostIn(known, request)
  <2>1. \/ out = [Taken("skipped", known) EXCEPT !.warn = 1]
        \/ posted # Refused /\ out = Taken("created", posted)
    BY <1>3 DEF TransactionRow
  <2> HIDE DEF known, request
  <2>2. posted # Refused => Leaves(posted) BY <1>1, PostInOrders
  <2> HIDE DEF posted
  <2>3. out.t \in {known, posted} /\ (out.t # known => posted # Refused) BY <2>1 DEF Taken
  <2> QED BY <1>1, <2>2, <2>3
<1> QED BY <1>2, <1>3

(* The least of a set of line numbers. *)
LEMMA MinIn ==
  ASSUME NEW S, S \subseteq Nat, S # {}
  PROVE  Min(S) \in S
<1>1. \E x \in S : \A y \in S : x <= y BY LeastNat
<1> QED BY <1>1 DEF Min

(* A row of purchase orders. *)
LEMMA OrderRowOrders ==
  ASSUME NEW t, OrdersTyped(t), NEW r, SoundOrder(r), PurchaseOrderRow(t, r) # Refused
  PROVE  RowOrders(t, PurchaseOrderRow(t, r).t)
<1> DEFINE old == t.po[r.po]
           eta == IF r.eta # Absent THEN r.eta ELSE r.promised
           got == IF r.received # Absent THEN r.received ELSE 0
           line == [sku |-> r.sku, ordered |-> r.qty, received |-> got, transit |-> 0,
                    status |-> "ACTIVE", eta |-> eta]
           mine == {i \in DOMAIN old.lines : old.lines[i].sku = r.sku}
           edit(ln) == [ln EXCEPT !.ordered = r.qty, !.eta = IF r.eta # Absent THEN r.eta ELSE @,
                                  !.received = IF r.received # Absent THEN r.received ELSE @]
           first == NewOrder(r.supplier, r.loc, r.sku, r.qty, got, r.promised, eta)
           lines == IF mine # {} THEN [old.lines EXCEPT ![Min(mine)] = edit(@)]
                    ELSE Append(old.lines, line)
           changed == [old EXCEPT !.lines = lines]
           created == [t EXCEPT !.po[r.po] = first]
           updated == [t EXCEPT !.po[r.po].lines = lines]
           out == PurchaseOrderRow(t, r)
           bad == r.sku \notin Skus \/ ~Known(t, {r.supplier}) \/ r.qty <= 0
           longPast == r.eta # Absent /\ r.eta + 3650 < Today
<1>0. /\ r.po \in PoNumbers /\ r.supplier \in MasterKeys /\ r.loc \in Locations
      /\ r.qty \in Int /\ r.received \in Int \cup {Absent} /\ r.promised \in Day /\ r.eta \in Day
  BY DEF SoundOrder
<1>1. out = IF bad THEN Refused ELSE IF longPast THEN Refused
            ELSE IF old = Absent THEN Taken("created", created) ELSE Taken("updated", updated)
  BY Zenon DEF PurchaseOrderRow
<1>2. bad => out = Refused
  <2> HIDE DEF bad, longPast, created, updated, old
  <2> QED BY <1>1
<1>3. r.sku \in Skus BY <1>2
<1>4. out.t = IF old = Absent THEN created ELSE updated
  <2> HIDE DEF bad, longPast, created, updated, old
  <2>1. out = IF old = Absent THEN Taken("created", created) ELSE Taken("updated", updated) BY <1>1
  <2> QED BY <2>1 DEF Taken
<1> HIDE DEF out, bad, longPast
<1>5. got \in Int /\ eta \in Day BY <1>0
<1>6. CASE old = Absent
  <2>1. Fresh(first) /\ first # Absent
    <3>1. \A supplier \in MasterKeys : \A l \in Locations : \A sku \in Skus : \A q \in Int : \A g \in Int :
            \A p \in Day : \A day \in Day :
              LET o == NewOrder(supplier, l, sku, q, g, p, day) IN Fresh(o) /\ o # Absent
      BY NewOrderFresh
    <3> HIDE DEF got, eta
    <3> QED BY <1>0, <1>3, <1>5, <3>1
  <2> HIDE DEF first
  <2>2. DOMAIN out.t = TableNames /\ out.t.po = [t.po EXCEPT ![r.po] = first] /\ out.t.ships = t.ships
    BY <1>4, <1>6 DEF OrdersTyped, TableNames
  <2>3. OrdersTyped(out.t) BY <1>0, <2>1, <2>2 DEF OrdersTyped, Fresh
  <2>4. RowOrders(t, out.t)
    <3> SUFFICES ASSUME NEW n \in PoNumbers
                 PROVE  /\ t.po[n] # Absent => out.t.po[n] # Absent
                        /\ t.po[n] = Absent => out.t.po[n] = Absent \/ Fresh(out.t.po[n])
                        /\ Fresh(t.po[n]) => Fresh(out.t.po[n])
      BY <2>3 DEF RowOrders
    <3>1. CASE n = r.po
      <4>1. out.t.po[n] = first BY <3>1, <2>2 DEF OrdersTyped
      <4> QED BY <2>1, <4>1
    <3>2. CASE n # r.po
      <4>1. out.t.po[n] = t.po[n] BY <3>2, <2>2 DEF OrdersTyped
      <4> QED BY <4>1
    <3> QED BY <3>1, <3>2
  <2> QED BY <2>4 DEF out
<1>7. CASE old # Absent
  <2>1. old \in PurchaseOrder BY <1>0, <1>7 DEF OrdersTyped
  <2> HIDE DEF old
  <2>2. old.lines \in Seq(OrderLine) /\ DOMAIN old.lines = 1..Len(old.lines) /\ Len(old.lines) \in Nat
        /\ \A i \in DOMAIN old.lines : old.lines[i] \in OrderLine
    BY <2>1, LinesOf
  <2>3. line \in OrderLine /\ line.transit = 0
    <3> HIDE DEF got, eta
    <3> QED BY <1>0, <1>3, <1>5 DEF OrderLine, Day
  <2>4. ASSUME NEW ln \in OrderLine PROVE edit(ln) \in OrderLine /\ edit(ln).transit = ln.transit
    <3> DEFINE a == IF r.eta # Absent THEN r.eta ELSE ln.eta
               c == IF r.received # Absent THEN r.received ELSE ln.received
    <3>1. edit(ln) = [ln EXCEPT !.ordered = r.qty, !.eta = a, !.received = c] OBVIOUS
    <3>2. a \in Day /\ c \in Int BY <1>0 DEF OrderLine, Day
    <3> HIDE DEF a, c, edit
    <3> QED BY <1>0, <3>1, <3>2 DEF OrderLine, Day
  <2>5. /\ lines \in Seq(OrderLine)
        /\ (\A i \in DOMAIN old.lines : old.lines[i].transit = 0) => \A i \in DOMAIN lines : lines[i].transit = 0
    <3>1. CASE mine # {}
      <4> DEFINE k == Min(mine)
      <4>1. k \in DOMAIN old.lines
        <5>1. mine \subseteq Nat BY <2>2
        <5>2. mine \subseteq DOMAIN old.lines OBVIOUS
        <5> HIDE DEF mine
        <5> QED BY <3>1, <5>1, <5>2, MinIn
      <4> HIDE DEF k, edit
      <4>2. lines = [old.lines EXCEPT ![k] = edit(old.lines[k])] BY <3>1 DEF k
      <4>3. edit(old.lines[k]) \in OrderLine /\ edit(old.lines[k]).transit = old.lines[k].transit
        BY <2>2, <2>4, <4>1
      <4> HIDE DEF lines
      <4>4. lines = [i \in DOMAIN old.lines |-> lines[i]] /\ \A i \in DOMAIN old.lines : lines[i] \in OrderLine
        BY <2>2, <4>1, <4>2, <4>3
      <4>5. lines \in Seq(OrderLine) BY <2>2, <4>4, LinesMapped
      <4>6. DOMAIN lines = DOMAIN old.lines BY <4>2
      <4> QED BY <4>1, <4>2, <4>3, <4>5, <4>6
    <3>2. CASE mine = {}
      <4>1. lines = Append(old.lines, line) BY <3>2
      <4> HIDE DEF lines, line
      <4> QED BY <2>2, <2>3, <4>1
    <3> QED BY <3>1, <3>2
  <2> HIDE DEF lines
  <2>6. changed \in PurchaseOrder /\ changed.lines = lines /\ changed.status = old.status
    BY <2>1, <2>5 DEF PurchaseOrder
  <2>7. changed # Absent BY <2>6, DocumentsAssumption
  <2>8. Fresh(old) => Fresh(changed) BY <2>5, <2>6 DEF Fresh
  <2>9. updated = [t EXCEPT !.po = [t.po EXCEPT ![r.po] = changed]] BY DEF old
  <2> HIDE DEF changed, updated
  <2>10. DOMAIN out.t = TableNames /\ out.t.po = [t.po EXCEPT ![r.po] = changed] /\ out.t.ships = t.ships
    BY <1>4, <1>7, <2>9 DEF OrdersTyped, TableNames
  <2>11. OrdersTyped(out.t) BY <1>0, <2>6, <2>10 DEF OrdersTyped
  <2>12. RowOrders(t, out.t)
    <3> SUFFICES ASSUME NEW n \in PoNumbers
                 PROVE  /\ t.po[n] # Absent => out.t.po[n] # Absent
                        /\ t.po[n] = Absent => out.t.po[n] = Absent \/ Fresh(out.t.po[n])
                        /\ Fresh(t.po[n]) => Fresh(out.t.po[n])
      BY <2>11 DEF RowOrders
    <3>1. CASE n = r.po
      <4>1. out.t.po[n] = changed /\ t.po[n] = old BY <3>1, <2>10 DEF OrdersTyped, old
      <4> QED BY <1>7, <2>7, <2>8, <4>1
    <3>2. CASE n # r.po
      <4>1. out.t.po[n] = t.po[n] BY <3>2, <2>10 DEF OrdersTyped
      <4> QED BY <4>1
    <3> QED BY <3>1, <3>2
  <2> QED BY <2>12 DEF out
<1> QED BY <1>6, <1>7

(* A row of any file. *)
LEMMA IngestRowOrders ==
  ASSUME NEW t, OrdersTyped(t), NEW entity \in Entities, NEW r,
         entity = "purchase_orders" => SoundOrder(r), IngestRow(t, entity, r) # Refused
  PROVE  RowOrders(t, IngestRow(t, entity, r).t)
<1> DEFINE out == IngestRow(t, entity, r)
           Leaves == DOMAIN out.t = TableNames /\ out.t.po = t.po /\ out.t.ships = t.ships
           Sets(f) == \E res : \E v : out = Taken(res, [t EXCEPT ![f] = v])
<1>0. DOMAIN t = TableNames /\ out # Refused BY DEF OrdersTyped
<1>1. CASE entity = "purchase_orders"
  <2>1. out = PurchaseOrderRow(t, r) BY <1>1 DEF IngestRow, MasterEntities, AppendEntities
  <2> QED BY <1>1, <2>1, OrderRowOrders
<1>2. ASSUME entity \in {"balances", "transactions"} PROVE Leaves
  <2>1. out = BalanceRow(t, r) \/ out = TransactionRow(t, r)
    BY <1>2 DEF IngestRow, MasterEntities, AppendEntities
  <2> HIDE DEF out
  <2> QED BY <1>0, <2>1, StockRowOrders
<1>3. ASSUME entity \in {"demand", "forecast"} \cup MasterEntities \cup AppendEntities PROVE Leaves
  <2>1. Sets("demand") \/ Sets("forecast") \/ Sets("master") \/ Sets("loads")
    <3>1. CASE entity = "demand"
      <4>1. out = DemandUpload(t, r) BY <3>1 DEF IngestRow, MasterEntities, AppendEntities
      <4>2. Sets("demand") BY <1>0, <4>1 DEF DemandUpload
      <4> QED BY <4>2
    <3>2. CASE entity = "forecast"
      <4>1. out = ForecastUpload(t, r) BY <3>2 DEF IngestRow, MasterEntities, AppendEntities
      <4>2. Sets("forecast") BY <1>0, <4>1 DEF ForecastUpload, SetForecast
      <4> QED BY <4>2
    <3>3. CASE entity \in MasterEntities
      <4>1. out = MasterRow(t, r) BY <3>3 DEF IngestRow, MasterEntities, AppendEntities
      <4>2. Sets("master") BY <1>0, <4>1 DEF MasterRow
      <4> QED BY <4>2
    <3>4. CASE entity \in AppendEntities
      <4>1. out = AppendRow(t, entity, r) BY <3>4 DEF IngestRow, MasterEntities, AppendEntities
      <4>2. Sets("loads") BY <1>0, <4>1 DEF AppendRow
      <4> QED BY <4>2
    <3> QED BY <1>3, <3>1, <3>2, <3>3, <3>4
  <2> HIDE DEF out
  <2>2. PICK f \in {"demand", "forecast", "master", "loads"} : Sets(f) BY <2>1
  <2>3. PICK res, v : out = Taken(res, [t EXCEPT ![f] = v]) BY <2>2
  <2>4. out.t = [t EXCEPT ![f] = v] BY <2>3 DEF Taken
  <2> QED BY <1>0, <2>4 DEF TableNames
<1>4. CASE entity # "purchase_orders"
  <2>1. Leaves BY <1>2, <1>3, <1>4 DEF Entities
  <2> QED BY <2>1, RowUntouched
<1> QED BY <1>1, <1>4

-----------------------------------------------------------------------------
(* The orders agree with the inbox *)

(* The invariant of the loop over rows. *)
OrdersOfFile(base, rows, i, acc) ==
  DOMAIN acc = AccFields /\ acc.entity = base.entity /\ RowOrders(base.t, acc.t)

OrderLoads == INSTANCE FoldLemmas WITH Op <- Step, Holds <- OrdersOfFile

(* Row after row, no order is deleted and new ones are open.                *)
LEMMA RowOrdersChain ==
  ASSUME NEW t, NEW t2, RowOrders(t, t2), NEW t3, RowOrders(t2, t3)
  PROVE  RowOrders(t, t3)
BY DEF RowOrders

(* A file does to the orders what a row does.                               *)
LEMMA IngestOrders ==
  ASSUME NEW t, OrdersTyped(t), NEW file, SoundFile(file),
         file.entity = "purchase_orders" =>
           \A i \in DOMAIN file.rows : file.rows[i].bad = 0 => SoundOrder(file.rows[i])
  PROVE  RowOrders(t, Ingest(t, file).t)
<1> DEFINE base == Parsed(t, file)
           rows == file.rows
<1>1. Ingest(t, file) = OrderLoads!Fold(base, rows)
  BY DEF Ingest, OrderLoads!Fold, OrderLoads!FoldLeft, OrderLoads!MapThenFoldSet, OrderLoads!Max,
         FoldLeft, MapThenFoldSet, Max
<1>2. DOMAIN base = AccFields /\ base.t = t /\ base.entity = file.entity BY ParsedFields
<1> HIDE DEF base
<1>3. DOMAIN t = TableNames BY DEF OrdersTyped
<1>4. RowOrders(t, t) BY <1>3, RowUntouched
<1>5. OrdersOfFile(base, rows, 0, base) BY <1>2, <1>4 DEF OrdersOfFile
<1>6. rows \in Seq(Range(rows)) /\ DOMAIN rows = 1..Len(rows)
  <2>1. rows \in Seq(Range(rows)) BY DEF SoundFile
  <2> HIDE DEF rows
  <2> QED BY <2>1
<1>7. ASSUME NEW i \in 1..Len(rows), NEW acc, OrdersOfFile(base, rows, i-1, acc)
      PROVE  OrdersOfFile(base, rows, i, Step(acc, rows[i]))
  <2> DEFINE r == rows[i]
             out == IngestRow(acc.t, acc.entity, r)
             next == Step(acc, r)
  <2>1. DOMAIN acc = AccFields /\ acc.entity = file.entity /\ RowOrders(t, acc.t) /\ OrdersTyped(acc.t)
    BY <1>2, <1>7 DEF OrdersOfFile, RowOrders
  <2>2. acc.entity \in Entities /\ r.bad \in Nat BY <1>6, <2>1 DEF SoundFile
  <2>3. r.bad = 0 /\ acc.entity = "purchase_orders" => SoundOrder(r) BY <1>6, <2>1
  <2> HIDE DEF r
  <2>4. /\ DOMAIN next = AccFields /\ next.entity = acc.entity
        /\ next.t = acc.t \/ (~(r.bad > 0) /\ out # Refused /\ next.t = out.t)
    BY <2>1, StepCases
  <2>5. ASSUME out # Refused, ~(r.bad > 0)
        PROVE  RowOrders(acc.t, out.t)
    <3>1. r.bad = 0 BY <2>2, <2>5
    <3> QED BY <2>1, <2>2, <2>3, <2>5, <3>1, IngestRowOrders
  <2> HIDE DEF next, out
  <2>6. RowOrders(t, next.t) BY <2>1, <2>4, <2>5, RowOrdersChain
  <2>7. OrdersOfFile(base, rows, i, next) BY <1>2, <2>1, <2>4, <2>6 DEF OrdersOfFile
  <2> QED BY <2>7 DEF next, r
<1>8. OrdersOfFile(base, rows, Len(rows), OrderLoads!Fold(base, rows))
  <2> HIDE DEF rows
  <2> QED BY <1>5, <1>6, <1>7, OrderLoads!FoldHolds
<1> QED BY <1>1, <1>2, <1>8 DEF OrdersOfFile

(* Only orders and shipments matter, and orders uploads have changed do not. *)
LEMMA ReconciledRows ==
  ASSUME NEW t, NEW box, NEW touched, Reconciled(t, box, touched), NEW t2, RowOrders(t, t2),
         NEW touched2, touched \subseteq touched2,
         \A n \in PoNumbers \ touched2 : t.po[n] # Absent => t2.po[n] = t.po[n]
  PROVE  Reconciled(t2, box, touched2)
<1>1. OrdersTyped(t2) /\ Delivered(box) BY DEF RowOrders, Reconciled
<1>2. ASSUME NEW n \in PoNumbers \ touched2, t2.po[n] # Absent
      PROVE  Sound(t2.po[n])
  <2>1. CASE t.po[n] = Absent BY <1>2, <2>1, FreshSound DEF RowOrders
  <2>2. CASE t.po[n] # Absent BY <1>2, <2>2 DEF Reconciled
  <2> QED BY <2>1, <2>2
<1>3. ASSUME NEW e \in 1..Len(box), NEW n \in PoNumbers, Processed(box, e), Creates(box[e].msg, n)
      PROVE  /\ t2.po[n] # Absent
             /\ n \notin touched2 => \A i \in DOMAIN t2.po[n].lines :
                  t2.po[n].lines[i].received = Since(box, e, n, t2.po[n].lines[i].sku)
  <2>1. t.po[n] # Absent BY <1>3 DEF Reconciled
  <2>2. t2.po[n] # Absent BY <2>1 DEF RowOrders
  <2>3. ASSUME n \notin touched2
        PROVE  \A i \in DOMAIN t2.po[n].lines :
                 t2.po[n].lines[i].received = Since(box, e, n, t2.po[n].lines[i].sku)
    <3>1. t2.po[n] = t.po[n] BY <2>1, <2>3
    <3> QED BY <1>3, <2>3, <3>1 DEF Reconciled
  <2> QED BY <2>2, <2>3
<1> QED BY <1>1, <1>2, <1>3 DEF Reconciled

(* Other tables may change. *)
LEMMA ReconciledSame ==
  ASSUME NEW t, NEW box, NEW touched, Reconciled(t, box, touched), NEW t2,
         DOMAIN t2 = TableNames, t2.po = t.po, t2.ships = t.ships
  PROVE  Reconciled(t2, box, touched)
<1>1. RowOrders(t, t2) BY RowUntouched DEF Reconciled
<1> QED BY <1>1, ReconciledRows

OrdersInv == Reconciled(Tables, inbox, edited)

(* At the start there is no order.                                          *)
LEMMA OrdersInvInit == IntakeInit => OrdersInv
<1> SUFFICES ASSUME IntakeInit PROVE OrdersInv OBVIOUS
<1>1. inbox = <<>> /\ docs = NoDocuments BY DEF IntakeInit
<1>2. docs = [f \in DocumentNames |-> docs[f]] BY <1>1 DEF NoDocuments, DocumentNames, TableNames
<1>3. DOMAIN Tables = TableNames /\ \A f \in DocumentNames : Tables[f] = docs[f] BY <1>2, AllTables
<1>4. docs.po = [n \in PoNumbers |-> Absent] /\ docs.ships = [n \in ShipmentNos |-> Absent]
  BY <1>1 DEF NoDocuments
<1>5. Tables.po = docs.po /\ Tables.ships = docs.ships BY <1>3 DEF DocumentNames, TableNames
<1>6. OrdersTyped(Tables) BY <1>3, <1>4, <1>5 DEF OrdersTyped
<1>7. Listed(<<>>) BY AgreeAtStart DEF Agree, Inbox
<1>8. 1..Len(<<>>) = {}
  <2>1. Len(<<>>) = 0 /\ 1..0 = {} OBVIOUS
  <2> QED BY <2>1
<1>9. Delivered(<<>>) BY <1>7, <1>8 DEF Delivered
<1>10. \A n \in PoNumbers : Tables.po[n] = Absent BY <1>4, <1>5
<1>11. Reconciled(Tables, <<>>, edited) BY <1>6, <1>8, <1>9, <1>10 DEF Reconciled
<1> QED BY <1>1, <1>11 DEF OrdersInv

(* The orders a request stores are those it computed.                       *)
LEMMA StoredOrders ==
  ASSUME docs = [f \in DocumentNames |-> docs[f]], NEW t, Store(t)
  PROVE  DOMAIN Tables' = TableNames /\ Tables'.po = t.po /\ Tables'.ships = t.ships
<1>1. DOMAIN docs = DocumentNames OBVIOUS
<1>2. docs' = [f \in DocumentNames |-> t[f]] BY <1>1 DEF Store
<1>3. DOMAIN docs' = DocumentNames /\ \A f \in DocumentNames : docs'[f] = t[f] BY <1>2
<1>4. DocumentNames \cup LedgerTables = TableNames BY DEF DocumentNames, LedgerTables, TableNames
<1> DEFINE get(f) == CASE f = "balance" -> balance'
                       [] f = "txns" -> txns'
                       [] f = "quality" -> quality'
                       [] OTHER -> docs'[f]
<1>5. Tables' = [f \in DOMAIN docs' \cup LedgerTables |-> get(f)] BY DEF Tables
<1>6. /\ "po" \in DocumentNames /\ "ships" \in DocumentNames
      /\ "po" \in TableNames /\ "ships" \in TableNames
  BY DEF DocumentNames, TableNames
<1>7. get("po") = t.po /\ get("ships") = t.ships BY <1>3, <1>6
<1> HIDE DEF get
<1> QED BY <1>3, <1>4, <1>5, <1>6, <1>7

(* A request that stores tables in which the orders are reconciled.         *)
LEMMA StoreReconciles ==
  ASSUME IntakeInv, NEW t, Store(t), Reconciled(t, inbox', edited')
  PROVE  OrdersInv'
<1>1. DOMAIN Tables' = TableNames /\ Tables'.po = t.po /\ Tables'.ships = t.ships
  BY StoredOrders DEF IntakeInv
<1>2. Reconciled(Tables', inbox', edited') BY <1>1, ReconciledSame
<1> QED BY <1>2 DEF OrdersInv

(* A request with events.                                                   *)
LEMMA EventsReconcile ==
  ASSUME IntakeInv, OrdersInv, NEW t, DOMAIN t = TableNames, t.po = Tables.po, t.ships = Tables.ships,
         NEW T, NEW ms \in Seq(T), \A i \in 1..Len(ms) : Valid(ms[i]) => OrderMessage(ms[i]),
         ReceiveAll(t, ms)
  PROVE  OrdersInv'
<1> DEFINE base == [t |-> t, inbox |-> inbox]
           out == FoldLeft(Receive, base, ms)
<1>1. Store(out.t) /\ inbox' = out.inbox /\ edited' = edited BY DEF ReceiveAll
<1>2. base.t = t /\ base.inbox = inbox OBVIOUS
<1>3. Reconciled(t, inbox, edited)
  <2>1. Reconciled(Tables, inbox, edited) BY DEF OrdersInv
  <2> QED BY <2>1, ReconciledSame
<1> HIDE DEF base
<1>4. Reconciled(out.t, out.inbox, edited)
  <2>1. Reconciled(base.t, base.inbox, edited) BY <1>2, <1>3
  <2> QED BY <2>1, ReceiptsReconcile
<1> HIDE DEF out
<1> QED BY <1>1, <1>4, StoreReconciles

(* A published event keeps the orders reconciled,                           *)
LEMMA PublishReconciles ==
  ASSUME IntakeInv, OrdersInv, Publish
  PROVE  OrdersInv'
<1>1. PICK m \in Scopes[scope].msgs : ReceiveAll(Tables, <<m>>) BY DEF Publish
<1>2. Valid(m) => OrderMessage(m) BY ScopesAssumption DEF IntakeInv
<1>3. DOMAIN Tables = TableNames BY AllTables DEF IntakeInv
<1>4. <<m>> \in Seq({m}) /\ \A i \in 1..Len(<<m>>) : <<m>>[i] = m OBVIOUS
<1>5. \A i \in 1..Len(<<m>>) : Valid(<<m>>[i]) => OrderMessage(<<m>>[i]) BY <1>2, <1>4
<1> QED BY <1>1, <1>3, <1>4, <1>5, EventsReconcile

(* so does an applied EDI document,                                         *)
LEMMA ApplyEdiReconciles ==
  ASSUME Senders, IntakeInv, OrdersInv, ApplyEdi
  PROVE  OrdersInv'
<1>1. PICK x \in Scopes[scope].edi :
        ReceiveAll([Tables EXCEPT !.loads = @ \o [i \in 1..x.records |-> <<"external_balances", {}>>]],
                   x.events)
  BY DEF ApplyEdi
<1>2. /\ x.events \in Seq(Range(x.events))
      /\ \A i \in DOMAIN x.events : Valid(x.events[i]) => OrderMessage(x.events[i])
  BY ScopesAssumption DEF Senders, IntakeInv
<1> DEFINE ms == x.events
           t == [Tables EXCEPT !.loads = @ \o [i \in 1..x.records |-> <<"external_balances", {}>>]]
<1>3. DOMAIN Tables = TableNames BY AllTables DEF IntakeInv
<1>4. DOMAIN t = TableNames /\ t.po = Tables.po /\ t.ships = Tables.ships BY <1>3 DEF TableNames
<1>5. ReceiveAll(t, ms) BY <1>1
<1>6. ms \in Seq(Range(ms)) /\ \A i \in DOMAIN ms : Valid(ms[i]) => OrderMessage(ms[i]) BY <1>2
<1> HIDE DEF t, ms
<1>7. \A i \in 1..Len(ms) : Valid(ms[i]) => OrderMessage(ms[i])
  <2>1. DOMAIN ms = 1..Len(ms) BY <1>6
  <2> QED BY <1>6, <2>1
<1> QED BY <1>4, <1>5, <1>6, <1>7, EventsReconcile

(* an uploaded file,                                                        *)
LEMMA UploadReconciles ==
  ASSUME Senders, IntakeInv, OrdersInv, NEW file \in Scopes[scope].files, NEW commit, NEW allOrNothing,
         Upload(file, commit, allOrNothing)
  PROVE  OrdersInv'
<1> DEFINE out == Ingest(Tables, file)
           rep == Outcome(out, file, commit, allOrNothing)
           t == IF rep.committed
                THEN [out.t EXCEPT !.sync[SourceOf(file.entity)] = @ + out.created + out.updated]
                ELSE Tables
           changed == {n \in PoNumbers : docs.po[n] # Absent /\ t.po[n] # docs.po[n]}
<1>1. Store(t) /\ inbox' = inbox /\ edited' = edited \cup changed BY DEF Upload
<1>2. SoundFile(file) BY DEF Senders, IntakeInv
<1>3. file.entity = "purchase_orders" =>
        \A i \in DOMAIN file.rows : file.rows[i].bad = 0 => SoundOrder(file.rows[i])
  BY ScopesAssumption DEF IntakeInv, SoundRow
<1>4. DOMAIN Tables = TableNames /\ Tables.po = docs.po
  <2>1. "po" \in DocumentNames BY DEF DocumentNames, TableNames
  <2> QED BY <2>1, AllTables DEF IntakeInv
<1>5. OrdersTyped(Tables) /\ Reconciled(Tables, inbox, edited) BY DEF OrdersInv, Reconciled
<1>6. RowOrders(Tables, out.t) BY <1>2, <1>3, <1>5, IngestOrders
<1>7. RowOrders(Tables, t)
  <2> HIDE DEF out, rep
  <2>1. CASE rep.committed
    <3>1. DOMAIN out.t = TableNames BY <1>6 DEF RowOrders, OrdersTyped
    <3>2. t = [out.t EXCEPT !.sync = [out.t.sync EXCEPT ![SourceOf(file.entity)]
                                         = @ + out.created + out.updated]]
      BY <2>1
    <3> DEFINE sync == [out.t.sync EXCEPT ![SourceOf(file.entity)] = @ + out.created + out.updated]
    <3> HIDE DEF sync
    <3>3. t = [out.t EXCEPT !.sync = sync] BY <3>2 DEF sync
    <3> HIDE DEF t
    <3>4. DOMAIN t = TableNames /\ t.po = out.t.po /\ t.ships = out.t.ships BY <3>1, <3>3 DEF TableNames
    <3>5. OrdersTyped(out.t) BY <1>6 DEF RowOrders
    <3>6. RowOrders(out.t, t) BY <3>4, <3>5, RowUntouched
    <3> QED BY <1>6, <3>6, RowOrdersChain
  <2>2. CASE ~rep.committed
    <3>1. t = Tables BY <2>2
    <3> HIDE DEF t
    <3> QED BY <1>4, <1>5, <3>1, RowUntouched
  <2> QED BY <2>1, <2>2
<1> HIDE DEF t
<1>8. edited \subseteq edited' BY <1>1
<1>9. \A n \in PoNumbers \ edited' : Tables.po[n] # Absent => t.po[n] = Tables.po[n] BY <1>1, <1>4
<1>10. Reconciled(t, inbox, edited') BY <1>5, <1>7, <1>8, <1>9, ReconciledRows
<1> QED BY <1>1, <1>10, StoreReconciles

(* and a retried delivery.                                                  *)
LEMMA ResendReconciles ==
  ASSUME IntakeInv, OrdersInv, NEW e \in DOMAIN inbox, Resend(e)
  PROVE  OrdersInv'
<1> DEFINE box2 == Restated(inbox, e)
<1>1. inbox' = box2 /\ Tables' = Tables /\ edited' = edited BY DEF Resend, Restated, Tables
<1>2. Inbox(inbox) BY DEF IntakeInv, Agree
<1>3. /\ Listed(box2) /\ Len(box2) = Len(inbox)
      /\ \A f \in 1..Len(inbox) :
           /\ box2[f].msg = inbox[f].msg
           /\ box2[f].status = "PROCESSED" <=> inbox[f].status = "PROCESSED"
  BY <1>2, RestatedKeeps
<1> HIDE DEF box2
<1>4. \A f \in 1..Len(inbox) : Processed(box2, f) <=> Processed(inbox, f) BY <1>3 DEF Processed
<1>5. ASSUME NEW f, NEW n, NEW sku PROVE Since(box2, f, n, sku) = Since(inbox, f, n, sku)
  <2>1. BroughtIn(box2, f, n, sku) = BroughtIn(inbox, f, n, sku) BY <1>3 DEF BroughtIn, Brings
  <2>2. QtysOf(box2) = QtysOf(inbox) BY <1>3 DEF QtysOf
  <2> QED BY <2>1, <2>2 DEF Since
<1>6. Reconciled(Tables, inbox, edited) BY DEF OrdersInv
<1>7. Delivered(box2) BY <1>3, <1>4, <1>6 DEF Delivered, Reconciled
<1>8. Reconciled(Tables, box2, edited) BY <1>3, <1>4, <1>5, <1>6, <1>7 DEF Reconciled
<1> QED BY <1>1, <1>8 DEF OrdersInv

(* Every step keeps the orders reconciled.                                  *)
LEMMA OrdersInvNext == ASSUME Senders PROVE IntakeInv /\ OrdersInv /\ [IntakeNext]_intakeVars => OrdersInv'
<1> SUFFICES ASSUME IntakeInv, OrdersInv, [IntakeNext]_intakeVars PROVE OrdersInv' OBVIOUS
<1>1. CASE Publish BY <1>1, PublishReconciles
<1>2. CASE ApplyEdi BY <1>2, ApplyEdiReconciles
<1>3. ASSUME NEW e \in DOMAIN inbox, Resend(e) PROVE OrdersInv' BY <1>3, ResendReconciles
<1>4. ASSUME NEW file \in Scopes[scope].files, NEW commit \in BOOLEAN, NEW allOrNothing \in BOOLEAN,
             Upload(file, commit, allOrNothing)
      PROVE  OrdersInv'
  BY <1>4, UploadReconciles
<1>5. CASE UNCHANGED intakeVars
  <2>1. Tables' = Tables /\ inbox' = inbox /\ edited' = edited BY <1>5 DEF intakeVars, Tables
  <2> QED BY <2>1 DEF OrdersInv
<1> QED BY <1>1, <1>2, <1>3, <1>4, <1>5 DEF IntakeNext

(* What the receipts after an event brought.                                *)
LEMMA ReceivedIsSince ==
  ASSUME IntakeInv, OrdersInv, NEW e, NEW n, NEW sku
  PROVE  ReceivedSince(e, n, sku) = Since(inbox, e, n, sku)
<1> DEFINE S == BroughtIn(inbox, e, n, sku)
           f == [i \in S |-> inbox[i].msg.qty]
<1>1. Delivered(inbox) BY DEF OrdersInv, Reconciled
<1>2. DOMAIN inbox = 1..Len(inbox)
  <2>1. inbox \in Seq(Range(inbox)) BY <1>1 DEF Delivered, Listed
  <2> HIDE DEF Range
  <2> QED BY <2>1
<1>3. Brought(e, n, sku) = S BY <1>2 DEF Brought, BroughtIn, Brings
<1>4. ReceivedSince(e, n, sku) = SumFunction(f) BY <1>3 DEF ReceivedSince
<1>5. SumFunction(f) = SumOverSet(f, DOMAIN f)
  BY DEF SumFunction, SumFunctionOnSet, FoldFunctionOnSet, SumOverSet, MapThenFoldSet
<1>6. DOMAIN f = S OBVIOUS
<1>7. IsFiniteSet(S) /\ \A i \in S : QtysOf(inbox)[i] \in Int BY <1>1, SinceInt
<1>8. \A i \in S : f[i] = QtysOf(inbox)[i] BY DEF BroughtIn, QtysOf
<1> HIDE DEF f, S
<1>9. SumOverSet(f, S) = SumOverSet(QtysOf(inbox), S) BY <1>7, <1>8, SumAgrees
<1> QED BY <1>4, <1>5, <1>6, <1>9 DEF Since, S

(* Reconciled orders add up.                                                *)
LEMMA OrdersAddUpHolds == IntakeInv /\ OrdersInv => OrdersAddUp
<1> SUFFICES ASSUME IntakeInv, OrdersInv, NEW n \in PoNumbers, docs.po[n] # Absent, n \notin edited
             PROVE  LET lines == docs.po[n].lines
                        complete == \A i \in DOMAIN lines : lines[i].received >= lines[i].ordered
                    IN  /\ \A e \in DOMAIN inbox :
                             inbox[e].status = "PROCESSED" /\ inbox[e].msg.type = "PurchaseOrderCreated"
                               /\ inbox[e].msg.po = n =>
                             \A i \in DOMAIN lines : lines[i].received = ReceivedSince(e, n, lines[i].sku)
                        /\ \A i \in DOMAIN lines :
                             lines[i].transit > 0 => lines[i].received + lines[i].transit <= lines[i].ordered
                        /\ docs.po[n].status # "OPEN" => (docs.po[n].status = "RECEIVED" <=> complete)
  BY DEF OrdersAddUp
<1>1. Reconciled(Tables, inbox, edited) BY DEF OrdersInv
<1>2. Tables.po = docs.po
  <2>1. "po" \in DocumentNames BY DEF DocumentNames, TableNames
  <2> QED BY <2>1, AllTables DEF IntakeInv
<1>3. DOMAIN inbox = 1..Len(inbox)
  <2>1. inbox \in Seq(Range(inbox)) BY <1>1 DEF Reconciled, Delivered, Listed
  <2> HIDE DEF Range
  <2> QED BY <2>1
<1> DEFINE o == docs.po[n]
<1>4. Sound(o) BY <1>1, <1>2 DEF Reconciled
<1>5. ASSUME NEW e \in DOMAIN inbox, inbox[e].status = "PROCESSED",
             inbox[e].msg.type = "PurchaseOrderCreated", inbox[e].msg.po = n,
             NEW i \in DOMAIN o.lines
      PROVE  o.lines[i].received = ReceivedSince(e, n, o.lines[i].sku)
  <2>1. Processed(inbox, e) /\ Creates(inbox[e].msg, n) BY <1>5 DEF Processed, Creates
  <2>2. \A j \in DOMAIN o.lines : o.lines[j].received = Since(inbox, e, n, o.lines[j].sku)
    BY <1>1, <1>2, <1>3, <2>1 DEF Reconciled
  <2>3. ReceivedSince(e, n, o.lines[i].sku) = Since(inbox, e, n, o.lines[i].sku) BY ReceivedIsSince
  <2> QED BY <1>5, <2>2, <2>3
<1> HIDE DEF o
<1>6. \A i \in DOMAIN o.lines : o.lines[i].transit > 0 => o.lines[i].received + o.lines[i].transit <= o.lines[i].ordered
  BY <1>4 DEF Sound, Expected
<1>7. o.status # "OPEN" =>
        (o.status = "RECEIVED" <=> \A i \in DOMAIN o.lines : o.lines[i].received >= o.lines[i].ordered)
  BY <1>4 DEF Sound, Complete
<1> QED BY <1>5, <1>6, <1>7 DEF o

(* Whatever the order in which creations, dispatches, receipts and files    *)
(* arrive (handlers on_received, on_po_created, on_shipment_dispatched of   *)
(* event_service.py), the received quantity of a line is what its receipts  *)
(* brought, what is in transit is still expected, and an order is RECEIVED  *)
(* exactly when it is complete.                                             *)
THEOREM OrdersAreReconciled == ASSUME Senders PROVE IntakeSpec => []OrdersAddUp
<1>1. IntakeInit => IntakeInv /\ OrdersInv BY IntakeInvInit, OrdersInvInit
<1>2. IntakeInv /\ OrdersInv /\ [IntakeNext]_intakeVars => (IntakeInv /\ OrdersInv)'
  BY IntakeInvNext, OrdersInvNext
<1>3. IntakeInv /\ OrdersInv => OrdersAddUp BY OrdersAddUpHolds
<1> QED BY <1>1, <1>2, <1>3, PTL DEF IntakeSpec

-----------------------------------------------------------------------------
(* Files sent again.  A file is compared with itself: s is what its first   *)
(* run had before a row, t what it had after it, u what it left at its end, *)
(* and v what its second run, which starts from u, has before the same row. *)
(* u still holds all that the rows so far brought (Grows), so the row finds *)
(* in v what it wrote the first time; and each cell of v is that of u or,   *)
(* where a later row wrote it again, that of s (Sim).  After the last row s *)
(* is u, and so is v.                                                       *)

(* The types of the tables *)

(* A bucket without a row is empty. *)
StockTyped(t) ==
  /\ t.balance \in [Buckets -> Int]
  /\ \A b \in Buckets : HasRowIn(t.txns, b) \/ t.balance[b] = 0

TransfersTyped(t) ==
  /\ DOMAIN t.transfers = TransferNos
  /\ \A n \in TransferNos : t.transfers[n] # Absent => t.transfers[n].qty \in Int

IsDemandRow(d) == d = [loc |-> d.loc, period |-> d.period, gran |-> d.gran, qty |-> d.qty]
DemandTyped(t) == Listed(t.demand) /\ \A i \in DOMAIN t.demand : IsDemandRow(t.demand[i])

ForecastTyped(t) == t.forecast = [k \in DOMAIN t.forecast |-> t.forecast[k]]

MasterTyped(t) == t.master \in [MasterKeys -> ColumnsRow \cup {Absent}]

TablesTyped(t) ==
  /\ t = [f \in TableNames |-> t[f]]
  /\ Listed(t.txns) /\ StockTyped(t) /\ TransfersTyped(t)
  /\ DemandTyped(t) /\ ForecastTyped(t) /\ MasterTyped(t)

(* Only the tables of S may differ. *)
Only(t, t2, S) == t2 = [f \in TableNames |-> IF f \in S THEN t2[f] ELSE t[f]]

(* Every row a ledger had is there. *)
MoreRows(log, log2) == \A b \in Buckets : HasRowIn(log, b) => HasRowIn(log2, b)

(* Changes of one or two tables.                                            *)
LEMMA OneTable ==
  ASSUME NEW t, t = [f \in TableNames |-> t[f]], NEW g \in TableNames, NEW v
  PROVE  Only(t, [t EXCEPT ![g] = v], {g}) /\ [t EXCEPT ![g] = v][g] = v
BY DEF Only

(* One change after the other. *)
LEMMA OnlyTwice ==
  ASSUME NEW t, NEW t2, NEW t3, NEW S, NEW R, Only(t, t2, S), Only(t2, t3, R)
  PROVE  Only(t, t3, S \cup R)
BY DEF Only

(* The tables that stay. *)
LEMMA OnlyFields ==
  ASSUME NEW t, NEW t2, NEW S, Only(t, t2, S)
  PROVE  /\ t2 = [f \in TableNames |-> t2[f]] /\ DOMAIN t2 = TableNames
         /\ \A f \in TableNames \ S : t2[f] = t[f]
BY DEF Only

(* A posting changes what it debits and credits, and these have a row then. *)
LEMMA PostInStock ==
  ASSUME NEW t, t = [f \in TableNames |-> t[f]], Listed(t.txns), StockTyped(t),
         NEW r, {"id", "type", "loc", "toLoc", "lot", "qty", "from", "to", "dir"} = DOMAIN r,
         r.qty \in Int, PostIn(t, r) # Refused
  PROVE  LET t2 == PostIn(t, r)
             s == ResolveIn(t.quality, r)
         IN  /\ Only(t, t2, {"balance", "txns"}) /\ Listed(t2.txns) /\ StockTyped(t2)
             /\ MoreRows(t.txns, t2.txns)
             /\ \A b \in Debit(s) \cup Credit(s) : HasRowIn(t2.txns, b)
             /\ t2.balance = Apply(t.balance, s)
<1> DEFINE t2 == PostIn(t, r)
           s == ResolveIn(t.quality, r)
           row == RowOf(t.balance, s, 0)
<1>1. s.qty = r.qty /\ DOMAIN s = DOMAIN r BY DEF ResolveIn
<1> HIDE DEF s
<1>2. t2 = [t EXCEPT !.balance = Apply(t.balance, s), !.txns = Append(t.txns, row)]
  BY DEF PostIn, s
<1>3. Debit(row) = Debit(s) /\ Credit(row) = Credit(s)
  <2>1. /\ row.type = s.type /\ row.loc = s.loc /\ row.toLoc = s.toLoc /\ row.lot = s.lot
        /\ row.from = s.from /\ row.to = s.to /\ row.dir = s.dir
    BY DEF RowOf
  <2> HIDE DEF row
  <2> QED BY <2>1 DEF Debit, Credit
<1> HIDE DEF row, t2
<1> DEFINE bal2 == Apply(t.balance, s)
<1>4. bal2 \in [Buckets -> Int] /\ \A b \in Buckets : b \notin Debit(s) \cup Credit(s) => bal2[b] = t.balance[b]
  <2>1. \A b \in Buckets : Delta(s, b) \in Int BY <1>1 DEF Delta
  <2>2. \A b \in Buckets : b \notin Debit(s) \cup Credit(s) => Delta(s, b) = 0 BY <1>1 DEF Delta
  <2>3. t.balance \in [Buckets -> Int] BY DEF StockTyped
  <2> QED BY <2>1, <2>2, <2>3 DEF Apply
<1> HIDE DEF bal2
<1>5. t2 = [t EXCEPT !.balance = bal2, !.txns = Append(t.txns, row)] BY <1>2 DEF bal2
<1>6. Only(t, t2, {"balance", "txns"}) /\ t2.balance = bal2 /\ t2.txns = Append(t.txns, row)
  BY <1>5 DEF Only, TableNames
<1>7. /\ Listed(t2.txns) /\ DOMAIN t.txns = 1..Len(t.txns) /\ DOMAIN t2.txns = 1..Len(t.txns) + 1
      /\ Len(t.txns) \in Nat /\ t2.txns[Len(t.txns) + 1] = row
      /\ \A i \in 1..Len(t.txns) : t2.txns[i] = t.txns[i]
  BY <1>6, Appended
<1>8. \A b : HasRowIn(t.txns, b) => HasRowIn(t2.txns, b)
  <2>1. \A i \in DOMAIN t.txns : i \in DOMAIN t2.txns /\ t2.txns[i] = t.txns[i] BY <1>7
  <2> QED BY <2>1 DEF HasRowIn
<1>9. ASSUME NEW b \in Debit(s) \cup Credit(s) PROVE HasRowIn(t2.txns, b)
  <2>1. Len(t.txns) + 1 \in DOMAIN t2.txns BY <1>7
  <2> QED BY <1>3, <1>7, <1>9, <2>1 DEF HasRowIn
<1>10. StockTyped(t2)
  <2>1. ASSUME NEW b \in Buckets PROVE HasRowIn(t2.txns, b) \/ t2.balance[b] = 0
    <3>1. CASE b \in Debit(s) \cup Credit(s) BY <1>9, <3>1
    <3>2. CASE b \notin Debit(s) \cup Credit(s) BY <1>4, <1>6, <1>8, <3>2 DEF StockTyped
    <3> QED BY <3>1, <3>2
  <2> QED BY <1>4, <1>6, <2>1 DEF StockTyped
<1>11. MoreRows(t.txns, t2.txns) BY <1>8 DEF MoreRows
<1>12. t2.balance = Apply(t.balance, s) BY <1>6 DEF bal2
<1> QED BY <1>6, <1>7, <1>9, <1>10, <1>11, <1>12 DEF t2, s

(* A request as the handlers make it. *)
LEMMA PlainFields ==
  ASSUME NEW type, NEW l, NEW lot, NEW q
  PROVE  LET p == Plain(type, l, lot, q)
         IN  /\ DOMAIN p = {"id", "type", "loc", "toLoc", "lot", "qty", "from", "to", "dir"}
             /\ p.type = type /\ p.loc = l /\ p.lot = lot /\ p.qty = q /\ p.toLoc = NoLoc
             /\ p.from = NoState /\ p.to = NoState /\ p.dir = "IN" /\ p.id = GeneratedId
BY DEF Plain

(* Stock as a handler or a row leaves it. *)
StockStep(t, t2, S) ==
  /\ Only(t, t2, S) /\ Listed(t2.txns) /\ StockTyped(t2) /\ MoreRows(t.txns, t2.txns)

(* A count sets its bucket.                                                 *)
LEMMA CountInStock ==
  ASSUME NEW t, t = [f \in TableNames |-> t[f]], Listed(t.txns), StockTyped(t),
         NEW l, NEW lot, NEW state, <<l, lot, state>> \in Buckets, NEW q \in Int,
         CountIn(t, l, lot, state, q) # Refused
  PROVE  LET t2 == CountIn(t, l, lot, state, q)
         IN  /\ StockStep(t, t2, {"balance", "txns"})
             /\ t2.balance = [t.balance EXCEPT ![<<l, lot, state>>] = q]
<1> DEFINE b == <<l, lot, state>>
           n == t.balance[b]
           d == IF q > n THEN q - n ELSE n - q
           r == [Plain("CYCLE_COUNT", l, lot, d)
                   EXCEPT !.dir = IF q > n THEN "IN" ELSE "OUT", !.from = state, !.to = state]
           t2 == CountIn(t, l, lot, state, q)
           s == ResolveIn(t.quality, r)
<1>1. t2 = IF q = n THEN t ELSE PostIn(t, r) BY DEF CountIn
<1>2. /\ DOMAIN r = {"id", "type", "loc", "toLoc", "lot", "qty", "from", "to", "dir"}
      /\ r.qty = d /\ r.type = "CYCLE_COUNT" /\ r.loc = l /\ r.lot = lot
      /\ r.dir = (IF q > n THEN "IN" ELSE "OUT") /\ r.from = state /\ r.to = state
  BY DEF Plain
<1>3. d \in Int /\ n \in Int BY DEF StockTyped
<1>4. s = r BY <1>2 DEF ResolveIn
<1> HIDE DEF r, t2
<1>5. t2 # Refused BY DEF t2
<1>6. CASE q = n
  <2>1. t2 = t BY <1>1, <1>6
  <2>2. Only(t, t2, {"balance", "txns"}) BY <2>1 DEF Only
  <2>3. t2.balance = [t.balance EXCEPT ![b] = q] BY <1>6, <2>1 DEF StockTyped
  <2> QED BY <2>1, <2>2, <2>3 DEF StockStep, MoreRows, t2
<1>7. CASE q # n
  <2>1. t2 = PostIn(t, r) BY <1>1, <1>7
  <2>2. StockStep(t, t2, {"balance", "txns"}) /\ t2.balance = Apply(t.balance, r)
    BY <1>2, <1>3, <1>4, <1>5, <2>1, PostInStock DEF StockStep
  <2>3. t2.balance = [t.balance EXCEPT ![b] = q]
    <3>1. state # NoState BY DEF Buckets, States, OnHandStates, NoState
    <3>2. /\ q > n => Credit(r) = {b} /\ Debit(r) = {}
          /\ ~(q > n) => Debit(r) = {b} /\ Credit(r) = {}
      BY <1>2, <3>1 DEF Credit, Debit, Or, CountTypes
    <3>3. \A c \in Buckets : Delta(r, c) = IF c = b THEN q - n ELSE 0
      <4>1. q \in Int /\ n \in Int BY <1>3
      <4> HIDE DEF n, b
      <4> QED BY <1>2, <3>2, <4>1 DEF Delta
    <3>4. t.balance \in [Buckets -> Int] BY DEF StockTyped
    <3>5. \A c \in Buckets : t.balance[c] + Delta(r, c) = [t.balance EXCEPT ![b] = q][c]
      BY <3>3, <3>4
    <3> QED BY <2>2, <3>4, <3>5 DEF Apply
  <2> QED BY <2>2, <2>3 DEF t2
<1> QED BY <1>6, <1>7

-----------------------------------------------------------------------------
(* What the handlers leave *)

(* A new lot. *)
LEMMA WithLotStock ==
  ASSUME NEW t, t = [f \in TableNames |-> t[f]], Listed(t.txns), StockTyped(t), NEW lot
  PROVE  /\ StockStep(t, WithLot(t, lot), {"lots"})
         /\ WithLot(t, lot).txns = t.txns /\ WithLot(t, lot).balance = t.balance
         /\ WithLot(t, lot).lots = IF lot = 0 THEN t.lots ELSE t.lots \cup {lot}
<1> DEFINE t2 == WithLot(t, lot)
<1>1. t2 = IF lot = 0 THEN t ELSE [t EXCEPT !.lots = t.lots \cup {lot}] BY DEF WithLot
<1> HIDE DEF t2
<1>2. /\ Only(t, t2, {"lots"}) /\ t2.txns = t.txns /\ t2.balance = t.balance
      /\ t2.lots = IF lot = 0 THEN t.lots ELSE t.lots \cup {lot}
  BY <1>1 DEF Only, TableNames
<1>3. StockTyped(t2) /\ MoreRows(t.txns, t2.txns) BY <1>2 DEF StockTyped, MoreRows
<1> QED BY <1>2, <1>3 DEF StockStep, t2

(* Steps on the stock one after the other. *)
LEMMA StockSteps ==
  ASSUME NEW t, NEW t2, NEW t3, NEW S, NEW R, StockStep(t, t2, S), StockStep(t2, t3, R)
  PROVE  StockStep(t, t3, S \cup R)
BY OnlyTwice DEF StockStep, MoreRows

(* A posting after a lot was made known. *)
LEMMA PostKnown ==
  ASSUME NEW t, t = [f \in TableNames |-> t[f]], Listed(t.txns), StockTyped(t), NEW lot,
         NEW r, {"id", "type", "loc", "toLoc", "lot", "qty", "from", "to", "dir"} = DOMAIN r,
         r.qty \in Int, PostIn(WithLot(t, lot), r) # Refused
  PROVE  StockStep(t, PostIn(WithLot(t, lot), r), {"lots", "balance", "txns"})
<1> DEFINE known == WithLot(t, lot)
           t2 == PostIn(known, r)
<1>1. StockStep(t, known, {"lots"}) BY WithLotStock
<1>2. known = [f \in TableNames |-> known[f]] BY <1>1, OnlyFields DEF StockStep
<1>3. StockStep(known, t2, {"balance", "txns"})
  <2>1. Listed(known.txns) /\ StockTyped(known) /\ PostIn(known, r) # Refused BY <1>1 DEF StockStep
  <2> HIDE DEF known
  <2> QED BY <1>2, <2>1, PostInStock DEF StockStep
<1>4. {"lots"} \cup {"balance", "txns"} = {"lots", "balance", "txns"} OBVIOUS
<1> HIDE DEF known, t2
<1> QED BY <1>1, <1>3, <1>4, StockSteps DEF known, t2

Posting == {"InventoryReceived", "InventoryIssued", "QualityHold", "QualityRelease",
            "TransferCompleted", "InventoryAdjusted"}

(* The stock after an event that posts. *)
LEMMA PostingStock ==
  ASSUME NEW t, TablesTyped(t), NEW m, m.type \in Posting, StockMessage(m), NEW id, Handle(t, m, id) # Refused
  PROVE  /\ StockStep(t, Handle(t, m, id), {"lots", "balance", "txns", "quality", "po", "transfers"})
         /\ TransfersTyped(Handle(t, m, id))
<1> DEFINE out == Handle(t, m, id)
           All == {"lots", "balance", "txns", "quality", "po", "transfers"}
<1>0. /\ t = [f \in TableNames |-> t[f]] /\ Listed(t.txns) /\ StockTyped(t) /\ TransfersTyped(t)
      /\ out # Refused
  BY DEF TablesTyped
<1>a. ASSUME NEW t2, NEW S, StockStep(t, t2, S), S \subseteq All, "transfers" \notin S
      PROVE  StockStep(t, t2, All) /\ TransfersTyped(t2)
  <2>1. t2.transfers = t.transfers BY <1>a DEF StockStep, Only, TableNames
  <2>2. Only(t, t2, All) BY <1>a DEF StockStep, Only
  <2> QED BY <1>0, <1>a, <2>1, <2>2 DEF StockStep, TransfersTyped
<1>1. CASE m.type = "InventoryReceived"
  <2> DEFINE r == [Plain("RECEIPT", m.loc, m.lot, m.qty) EXCEPT !.id = id]
             posted == IF m.sku # Own THEN t ELSE PostIn(WithLot(t, m.lot), r)
  <2>1. out = OnReceived(t, m, id) BY <1>1 DEF Handle
  <2>2. posted # Refused /\ (out = posted \/ out = [posted EXCEPT !.po[m.po] = ReceivePo(@, m.sku, m.qty)])
    BY <1>0, <2>1 DEF OnReceived
  <2>3. DOMAIN r = {"id", "type", "loc", "toLoc", "lot", "qty", "from", "to", "dir"} /\ r.qty \in Int
    BY <1>1 DEF Plain, StockMessage
  <2> HIDE DEF r, out
  <2>4. StockStep(t, posted, {"lots", "balance", "txns"})
    <3>1. CASE m.sku # Own
      <4>1. posted = t BY <3>1
      <4> QED BY <1>0, <4>1 DEF StockStep, Only, MoreRows
    <3>2. CASE m.sku = Own BY <1>0, <2>2, <2>3, <3>2, PostKnown
    <3> QED BY <3>1, <3>2
  <2> HIDE DEF posted
  <2>5. StockStep(t, out, {"lots", "balance", "txns", "po"})
    <3> DEFINE v == [posted.po EXCEPT ![m.po] = ReceivePo(@, m.sku, m.qty)]
    <3>1. out = posted \/ out = [posted EXCEPT !.po = v] BY <2>2
    <3> HIDE DEF v
    <3>2. posted = [f \in TableNames |-> posted[f]] BY <2>4, OnlyFields DEF StockStep
    <3>3. Only(posted, out, {"po"}) /\ out.txns = posted.txns /\ out.balance = posted.balance
      BY <3>1, <3>2 DEF Only, TableNames
    <3>4. StockStep(posted, out, {"po"}) BY <2>4, <3>3 DEF StockStep, StockTyped, MoreRows
    <3>5. {"lots", "balance", "txns"} \cup {"po"} = {"lots", "balance", "txns", "po"} OBVIOUS
    <3> QED BY <2>4, <3>4, <3>5, StockSteps
  <2>6. StockStep(t, out, All) /\ TransfersTyped(out) BY <1>a, <2>5
  <2> QED BY <2>6 DEF out
<1>2. CASE m.type = "InventoryIssued"
  <2> DEFINE r == [Plain("ISSUE", m.loc, m.lot, m.qty) EXCEPT !.id = id]
  <2>1. out = PostIn(WithLot(t, m.lot), r) BY <1>2 DEF Handle, OnIssued
  <2>3. DOMAIN r = {"id", "type", "loc", "toLoc", "lot", "qty", "from", "to", "dir"} /\ r.qty \in Int
    BY <1>2 DEF Plain, StockMessage
  <2> HIDE DEF r, out
  <2>4. StockStep(t, out, {"lots", "balance", "txns"}) BY <1>0, <2>1, <2>3, PostKnown
  <2>5. StockStep(t, out, All) /\ TransfersTyped(out) BY <1>a, <2>4
  <2> QED BY <2>5 DEF out
<1>3. CASE m.type \in {"QualityHold", "QualityRelease"}
  <2> DEFINE hold == m.type = "QualityHold"
             r == [Plain(IF hold THEN "QUARANTINE" ELSE "RELEASE", m.loc, m.lot, m.qty) EXCEPT !.id = id]
             posted == PostIn(WithLot(t, m.lot), r)
             v == IF hold THEN "QUARANTINE" ELSE "RELEASED"
  <2>1. out = OnQuality(t, m, id) BY <1>3 DEF Handle
  <2>2. posted # Refused /\ out = [posted EXCEPT !.quality[m.lot] = v] BY <1>0, <2>1 DEF OnQuality
  <2>3. DOMAIN r = {"id", "type", "loc", "toLoc", "lot", "qty", "from", "to", "dir"} /\ r.qty \in Int
    BY <1>3 DEF Plain, StockMessage
  <2> HIDE DEF r, v, out
  <2>4. StockStep(t, posted, {"lots", "balance", "txns"}) BY <1>0, <2>2, <2>3, PostKnown
  <2> HIDE DEF posted
  <2> DEFINE w == [posted.quality EXCEPT ![m.lot] = v]
  <2>5. out = [posted EXCEPT !.quality = w] BY <2>2
  <2> HIDE DEF w
  <2>6. posted = [f \in TableNames |-> posted[f]] BY <2>4, OnlyFields DEF StockStep
  <2>7. Only(posted, out, {"quality"}) /\ out.txns = posted.txns /\ out.balance = posted.balance
    BY <2>5, <2>6 DEF Only, TableNames
  <2>8. StockStep(posted, out, {"quality"}) BY <2>4, <2>7 DEF StockStep, StockTyped, MoreRows
  <2>9. StockStep(t, out, {"lots", "balance", "txns"} \cup {"quality"}) BY <2>4, <2>8, StockSteps
  <2>10. StockStep(t, out, All) /\ TransfersTyped(out) BY <1>a, <2>9
  <2> QED BY <2>10 DEF out
<1>4. CASE m.type = "TransferCompleted"
  <2> DEFINE order == t.transfers[m.no]
             q == IF m.qty # 0 THEN m.qty ELSE order.qty
             r == [Plain("TRANSFER", order.from, 0, q) EXCEPT !.toLoc = order.to, !.id = id]
             posted == PostIn(t, r)
             done == [posted.transfers[m.no] EXCEPT !.received = q, !.status = "RECEIVED"]
             w == [posted.transfers EXCEPT ![m.no] = done]
  <2>1. out = OnTransferCompleted(t, m, id) BY <1>4 DEF Handle
  <2>2. order # Absent /\ posted # Refused /\ out = [posted EXCEPT !.transfers = w]
    BY <1>0, <2>1 DEF OnTransferCompleted
  <2>3. m.no \in TransferNos /\ m.qty \in Int BY <1>4 DEF StockMessage
  <2>4. q \in Int /\ order.qty \in Int BY <1>0, <2>2, <2>3 DEF TransfersTyped
  <2>5. DOMAIN r = {"id", "type", "loc", "toLoc", "lot", "qty", "from", "to", "dir"} /\ r.qty = q
    BY DEF Plain
  <2> HIDE DEF r, q, out
  <2>6. StockStep(t, posted, {"balance", "txns"}) BY <1>0, <2>2, <2>4, <2>5, PostInStock DEF StockStep
  <2> HIDE DEF posted
  <2>7. posted = [f \in TableNames |-> posted[f]] /\ posted.transfers = t.transfers
    BY <2>6 DEF StockStep, Only, TableNames
  <2>8. done.qty = order.qty BY <2>7
  <2> HIDE DEF done
  <2>9. DOMAIN w = TransferNos /\ \A n \in TransferNos : w[n] # Absent => w[n].qty \in Int
    BY <1>0, <2>3, <2>4, <2>7, <2>8 DEF TransfersTyped
  <2> HIDE DEF w
  <2>10. /\ Only(posted, out, {"transfers"}) /\ out.txns = posted.txns /\ out.balance = posted.balance
         /\ out.transfers = w
    BY <2>2, <2>7 DEF Only, TableNames
  <2>11. StockStep(posted, out, {"transfers"}) BY <2>6, <2>10 DEF StockStep, StockTyped, MoreRows
  <2>12. StockStep(t, out, {"balance", "txns"} \cup {"transfers"}) BY <2>6, <2>11, StockSteps
  <2>13. Only(t, out, All) BY <2>12 DEF StockStep, Only
  <2>14. StockStep(t, out, All) BY <2>12, <2>13 DEF StockStep
  <2>15. TransfersTyped(out) BY <2>9, <2>10 DEF TransfersTyped
  <2> QED BY <2>14, <2>15 DEF out
<1>5. CASE m.type = "InventoryAdjusted"
  <2>1. out = CountIn(t, m.loc, 0, "UNRESTRICTED", m.counted) BY <1>5 DEF Handle, OnAdjusted
  <2>2. <<m.loc, 0, "UNRESTRICTED">> \in Buckets /\ m.counted \in Int
    BY <1>5, LedgerAssumption DEF StockMessage, Buckets, Lots, States, OnHandStates
  <2> HIDE DEF out
  <2>3. StockStep(t, out, {"balance", "txns"}) BY <1>0, <2>1, <2>2, CountInStock
  <2>4. StockStep(t, out, All) /\ TransfersTyped(out) BY <1>a, <2>3
  <2> QED BY <2>4 DEF out
<1> QED BY <1>1, <1>2, <1>3, <1>4, <1>5 DEF Posting

(* A handler of documents. *)
LEMMA DocumentTyped ==
  ASSUME NEW t, TablesTyped(t), NEW m, m.type \in Documentary, StockMessage(m), NEW id, Handle(t, m, id) # Refused
  PROVE  TablesTyped(Handle(t, m, id))
<1> DEFINE out == Handle(t, m, id)
           Sets(S) == Only(t, out, S)
           Documents3 == {"ships", "po", "expiry"}
<1>0. /\ t = [f \in TableNames |-> t[f]] /\ Listed(t.txns) /\ StockTyped(t) /\ TransfersTyped(t)
      /\ DemandTyped(t) /\ ForecastTyped(t) /\ MasterTyped(t) /\ out # Refused
  BY DEF TablesTyped
<1>a. ASSUME Sets(Documents3) PROVE TablesTyped(out)
  <2> HIDE DEF out
  <2>1. out = [f \in TableNames |-> out[f]] BY <1>a, OnlyFields
  <2>2. /\ out.txns = t.txns /\ out.balance = t.balance /\ out.transfers = t.transfers
        /\ out.demand = t.demand /\ out.forecast = t.forecast /\ out.master = t.master
    BY <1>a DEF Only, TableNames
  <2> QED BY <1>0, <2>1, <2>2 DEF TablesTyped, StockTyped, TransfersTyped, DemandTyped, ForecastTyped, MasterTyped
<1>1. CASE m.type = "ShipmentDispatched"
  <2>1. out = OnShipDispatched(t, m) BY <1>1 DEF Handle
  <2>2. \E a, b : OnShipDispatched(t, m) = [t EXCEPT !.ships[m.no] = a, !.po = b]
    BY Zenon DEF OnShipDispatched
  <2> HIDE DEF out
  <2>3. PICK a, b : out = [t EXCEPT !.ships[m.no] = a, !.po = b] BY <2>1, <2>2
  <2>4. Sets(Documents3) BY <1>0, <2>3 DEF Only, TableNames
  <2> QED BY <2>4, <1>a DEF out
<1>2. CASE m.type = "ShipmentDelayed"
  <2>1. out = OnShipDelayed(t, m) BY <1>2 DEF Handle
  <2>2. \E a, b : OnShipDelayed(t, m) = [t EXCEPT !.ships[m.no] = a, !.po = b]
    BY <1>0, <2>1 DEF OnShipDelayed
  <2> HIDE DEF out
  <2>3. PICK a, b : out = [t EXCEPT !.ships[m.no] = a, !.po = b] BY <2>1, <2>2
  <2>4. Sets(Documents3) BY <1>0, <2>3 DEF Only, TableNames
  <2> QED BY <2>4, <1>a DEF out
<1>3. CASE m.type = "ShipmentStatus"
  <2>1. out = OnShipStatus(t, m) BY <1>3 DEF Handle
  <2> HIDE DEF out
  <2>2. out = t \/ out = [t EXCEPT !.ships[m.no].status = "DELIVERED"] BY <2>1 DEF OnShipStatus
  <2>3. Sets(Documents3) BY <1>0, <2>2 DEF Only, TableNames
  <2> QED BY <2>3, <1>a DEF out
<1>4. CASE m.type = "PurchaseOrderCreated"
  <2>1. out = OnPoCreated(t, m) BY <1>4 DEF Handle
  <2>2. \E a : OnPoCreated(t, m) = [t EXCEPT !.po[m.po] = a] BY <1>0, <2>1 DEF OnPoCreated
  <2> HIDE DEF out
  <2>3. Sets(Documents3) BY <1>0, <2>1, <2>2 DEF Only, TableNames
  <2> QED BY <2>3, <1>a DEF out
<1>5. CASE m.type = "PurchaseOrderDelayed"
  <2>1. out = OnPoDelayed(t, m) BY <1>5 DEF Handle
  <2>2. OnPoDelayed(t, m) = t \/ \E a : OnPoDelayed(t, m) = [t EXCEPT !.po[m.po] = a]
    BY <1>0, <2>1 DEF OnPoDelayed
  <2> HIDE DEF out
  <2>3. Sets(Documents3) BY <1>0, <2>1, <2>2 DEF Only, TableNames
  <2> QED BY <2>3, <1>a DEF out
<1>6. CASE m.type = "DemandChanged"
  <2> DEFINE d == [loc |-> m.loc, period |-> m.period, gran |-> "W", qty |-> m.qty]
  <2>1. out = [t EXCEPT !.demand = Append(t.demand, d)] BY <1>6 DEF Handle, OnDemand
  <2>2. IsDemandRow(d) BY DEF IsDemandRow
  <2> HIDE DEF out, d
  <2>3. Sets({"demand"}) /\ out.demand = Append(t.demand, d) BY <1>0, <2>1 DEF Only, TableNames
  <2>4. DemandTyped(out)
    <3>1. /\ Listed(out.demand) /\ DOMAIN t.demand = 1..Len(t.demand) /\ Len(t.demand) \in Nat
          /\ DOMAIN out.demand = 1..Len(t.demand) + 1 /\ out.demand[Len(t.demand) + 1] = d
          /\ \A i \in 1..Len(t.demand) : out.demand[i] = t.demand[i]
      BY <1>0, <2>3, Appended DEF DemandTyped
    <3>2. \A i \in DOMAIN out.demand : i \in DOMAIN t.demand \/ i = Len(t.demand) + 1 BY <3>1
    <3> QED BY <1>0, <2>2, <3>1, <3>2 DEF DemandTyped
  <2>5. out = [f \in TableNames |-> out[f]] BY <2>3, OnlyFields
  <2>6. /\ out.txns = t.txns /\ out.balance = t.balance /\ out.transfers = t.transfers
        /\ out.forecast = t.forecast /\ out.master = t.master
    BY <2>3 DEF Only, TableNames
  <2>7. TablesTyped(out)
    BY <1>0, <2>4, <2>5, <2>6 DEF TablesTyped, StockTyped, TransfersTyped, ForecastTyped, MasterTyped
  <2> QED BY <2>7 DEF out
<1>7. CASE m.type = "ForecastUpdated"
  <2> DEFINE k == <<m.loc, m.period, m.kind>>
             v == [x \in DOMAIN t.forecast \cup {k} |-> IF x = k THEN m.qty ELSE t.forecast[x]]
  <2>1. out = [t EXCEPT !.forecast = v] BY <1>7 DEF Handle, OnForecast, SetForecast
  <2>2. v = [x \in DOMAIN v |-> v[x]] OBVIOUS
  <2> HIDE DEF out, v
  <2>3. Sets({"forecast"}) /\ out.forecast = v BY <1>0, <2>1 DEF Only, TableNames
  <2>4. ForecastTyped(out) BY <2>2, <2>3 DEF ForecastTyped
  <2>5. out = [f \in TableNames |-> out[f]] BY <2>3, OnlyFields
  <2>6. /\ out.txns = t.txns /\ out.balance = t.balance /\ out.transfers = t.transfers
        /\ out.demand = t.demand /\ out.master = t.master
    BY <2>3 DEF Only, TableNames
  <2>7. TablesTyped(out)
    BY <1>0, <2>4, <2>5, <2>6 DEF TablesTyped, StockTyped, TransfersTyped, DemandTyped, MasterTyped
  <2> QED BY <2>7 DEF out
<1>8. CASE m.type = "TransferCreated"
  <2> DEFINE order == [from |-> m.loc, to |-> m.toLoc, qty |-> m.qty, received |-> 0,
                       eta |-> IF m.eta # Absent THEN m.eta ELSE Today, status |-> "OPEN"]
             v == [t.transfers EXCEPT ![m.no] = order]
  <2>1. out = OnTransferCreated(t, m) BY <1>8 DEF Handle
  <2>2. out = [t EXCEPT !.transfers = v] BY <1>0, <2>1 DEF OnTransferCreated
  <2>3. order.qty \in Int BY <1>8 DEF StockMessage
  <2> HIDE DEF out, order
  <2>4. DOMAIN v = TransferNos /\ \A n \in TransferNos : v[n] # Absent => v[n].qty \in Int
    BY <1>0, <2>3 DEF TransfersTyped
  <2> HIDE DEF v
  <2>5. Sets({"transfers"}) /\ out.transfers = v BY <1>0, <2>2 DEF Only, TableNames
  <2>6. TransfersTyped(out) BY <2>4, <2>5 DEF TransfersTyped
  <2>7. out = [f \in TableNames |-> out[f]] BY <2>5, OnlyFields
  <2>8. /\ out.txns = t.txns /\ out.balance = t.balance /\ out.forecast = t.forecast
        /\ out.demand = t.demand /\ out.master = t.master
    BY <2>5 DEF Only, TableNames
  <2>9. TablesTyped(out)
    BY <1>0, <2>6, <2>7, <2>8 DEF TablesTyped, StockTyped, ForecastTyped, DemandTyped, MasterTyped
  <2> QED BY <2>9 DEF out
<1>9. CASE m.type = "ExpiryApproaching"
  <2>1. out = OnExpiry(t, m) BY <1>9 DEF Handle
  <2> DEFINE v == IF m.days <= 30 THEN "HIGH" ELSE "MEDIUM"
  <2>2. out = t \/ out = [t EXCEPT !.expiry[m.lot] = v] BY <2>1 DEF OnExpiry
  <2> HIDE DEF out, v
  <2>3. Sets(Documents3) BY <1>0, <2>2 DEF Only, TableNames
  <2> QED BY <2>3, <1>a DEF out
<1> QED BY <1>1, <1>2, <1>3, <1>4, <1>5, <1>6, <1>7, <1>8, <1>9 DEF Documentary

(* Every handler keeps the tables typed. *)
LEMMA HandleTyped ==
  ASSUME NEW t, TablesTyped(t), NEW m, Valid(m), StockMessage(m), NEW id, Handle(t, m, id) # Refused
  PROVE  TablesTyped(Handle(t, m, id))
<1> DEFINE out == Handle(t, m, id)
<1>1. m.type \in Documentary \cup Posting BY DEF Valid, Required, Documentary, Posting
<1>2. CASE m.type \in Documentary BY <1>2, DocumentTyped
<1>3. CASE m.type \in Posting
  <2>1. /\ StockStep(t, out, {"lots", "balance", "txns", "quality", "po", "transfers"})
        /\ TransfersTyped(out)
    BY <1>3, PostingStock
  <2> HIDE DEF out
  <2>2. out = [f \in TableNames |-> out[f]] BY <2>1, OnlyFields DEF StockStep
  <2>3. out.demand = t.demand /\ out.forecast = t.forecast /\ out.master = t.master
    BY <2>1 DEF StockStep, Only, TableNames
  <2>4. TablesTyped(out)
    BY <2>1, <2>2, <2>3 DEF StockStep, TablesTyped, DemandTyped, ForecastTyped, MasterTyped
  <2> QED BY <2>4 DEF out
<1> QED BY <1>1, <1>2, <1>3

-----------------------------------------------------------------------------
(* A row of a file, the first time and again *)

(* Tables are no refusal. *)
LEMMA NotRefused ==
  ASSUME NEW t, DOMAIN t = TableNames
  PROVE  t # Refused
<1>1. DOMAIN Refused = {"raised"} BY DEF Refused
<1>2. "raised" \notin TableNames BY DEF TableNames
<1> QED BY <1>1, <1>2

(* What a row that is taken reports. *)
LEMMA TakenFields ==
  ASSUME NEW res, NEW t
  PROVE  /\ Taken(res, t) # Refused /\ Taken(res, t).t = t
         /\ [Taken(res, t) EXCEPT !.warn = 1] # Refused /\ [Taken(res, t) EXCEPT !.warn = 1].t = t
<1>1. DOMAIN Refused = {"raised"} BY DEF Refused
<1>2. DOMAIN Taken(res, t) = {"res", "t", "warn"} BY DEF Taken
<1>3. "raised" \notin {"res", "t", "warn"} OBVIOUS
<1>4. DOMAIN [Taken(res, t) EXCEPT !.warn = 1] = {"res", "t", "warn"} BY <1>2
<1>5. Taken(res, t) # Refused BY <1>1, <1>2, <1>3
<1>6. [Taken(res, t) EXCEPT !.warn = 1] # Refused BY <1>1, <1>3, <1>4
<1>7. Taken(res, t).t = t /\ [Taken(res, t) EXCEPT !.warn = 1].t = t BY DEF Taken
<1> QED BY <1>5, <1>6, <1>7

StockTables == {"lots", "balance", "txns"}

(* A row of balances sets its bucket, *)
LEMMA BalanceRowSets ==
  ASSUME NEW t, t = [f \in TableNames |-> t[f]], Listed(t.txns), StockTyped(t), NEW r,
         SoundRow("balances", r), BalanceRow(t, r) # Refused
  PROVE  LET t2 == BalanceRow(t, r).t
             b == <<r.loc, r.lot, r.state>>
         IN  /\ StockStep(t, t2, StockTables)
             /\ r.qty >= 0 /\ r.units # 0
             /\ t2.balance = [t.balance EXCEPT ![b] = r.qty * r.units]
<1> DEFINE out == BalanceRow(t, r)
           b == <<r.loc, r.lot, r.state>>
           q == r.qty * r.units
           known == WithLot(t, r.lot)
           counted == CountIn(known, r.loc, r.lot, r.state, q)
           request == [Plain("RECEIPT", r.loc, r.lot, q) EXCEPT !.to = r.state]
           received == PostIn(known, request)
           posted == IF HasRowIn(t.txns, b) THEN counted ELSE received
           Sets(t2) == StockStep(t, t2, StockTables) /\ t2.balance = [t.balance EXCEPT ![b] = q]
<1>1. b \in Buckets /\ r.qty \in Int /\ r.units \in Nat BY DEF SoundRow
<1>2. q \in Int BY <1>1
<1>3. /\ r.qty >= 0 /\ r.units # 0
      /\ \/ q = t.balance[b] /\ out = Taken("skipped", known)
         \/ /\ q # t.balance[b] /\ posted # Refused
            /\ out = Taken(IF HasRowIn(t.txns, b) THEN "updated" ELSE "created", posted)
  BY <1>1 DEF BalanceRow
<1>4. /\ StockStep(t, known, {"lots"}) /\ known.txns = t.txns /\ known.balance = t.balance
      /\ known = [f \in TableNames |-> known[f]] /\ Listed(known.txns) /\ StockTyped(known)
  <2>1. StockStep(t, known, {"lots"}) /\ known.txns = t.txns /\ known.balance = t.balance BY WithLotStock
  <2> HIDE DEF known
  <2> QED BY <2>1, OnlyFields DEF StockStep
<1>5. /\ DOMAIN request = {"id", "type", "loc", "toLoc", "lot", "qty", "from", "to", "dir"}
      /\ request.qty = q /\ request.type = "RECEIPT" /\ request.to = r.state
      /\ request.loc = r.loc /\ request.lot = r.lot
  BY DEF Plain
<1>6. r.state # NoState BY <1>1 DEF Buckets, States, OnHandStates, NoState
<1>7. t.balance \in [Buckets -> Int] BY DEF StockTyped
<1>8. StockStep(t, known, StockTables) BY <1>4 DEF StockStep, Only, StockTables
<1> HIDE DEF known, q, out, request
<1>9. CASE q = t.balance[b]
  <2>1. out = Taken("skipped", known) BY <1>3, <1>9
  <2>2. out.t = known BY <2>1, TakenFields
  <2>3. Sets(out.t) BY <1>1, <1>4, <1>7, <1>8, <1>9, <2>2
  <2> QED BY <1>3, <2>3 DEF out, q
<1>10. CASE q # t.balance[b] /\ HasRowIn(t.txns, b)
  <2>1. counted # Refused /\ out = Taken("updated", counted) BY <1>3, <1>10
  <2>2. out.t = counted BY <2>1, TakenFields
  <2>3. StockStep(known, counted, {"balance", "txns"}) /\ counted.balance = [known.balance EXCEPT ![b] = q]
    <3>1. /\ <<r.loc, r.lot, r.state>> \in Buckets /\ q \in Int /\ CountIn(known, r.loc, r.lot, r.state, q) # Refused
          /\ known = [f \in TableNames |-> known[f]] /\ Listed(known.txns) /\ StockTyped(known)
      BY <1>1, <1>2, <1>4, <2>1
    <3> QED BY <3>1, CountInStock
  <2> HIDE DEF counted
  <2>4. StockStep(t, counted, {"lots"} \cup {"balance", "txns"}) BY <1>4, <2>3, StockSteps
  <2>5. {"lots"} \cup {"balance", "txns"} = StockTables BY DEF StockTables
  <2>6. Sets(out.t) BY <1>4, <2>2, <2>3, <2>4, <2>5
  <2> QED BY <1>3, <2>6 DEF out, q
<1>11. CASE q # t.balance[b] /\ ~HasRowIn(t.txns, b)
  <2>1. received # Refused /\ out = Taken("created", received) BY <1>3, <1>11
  <2>2. out.t = received BY <2>1, TakenFields
  <2> DEFINE s == ResolveIn(known.quality, request)
  <2>3. s = request BY <1>5, <1>6 DEF ResolveIn
  <2>4. StockStep(known, received, {"balance", "txns"}) /\ received.balance = Apply(known.balance, request)
    BY <1>2, <1>4, <1>5, <2>1, <2>3, PostInStock DEF StockStep
  <2> HIDE DEF received
  <2>5. StockStep(t, received, {"lots"} \cup {"balance", "txns"}) BY <1>4, <2>4, StockSteps
  <2>6. {"lots"} \cup {"balance", "txns"} = StockTables BY DEF StockTables
  <2>7. Credit(request) = {b} /\ Debit(request) = {} BY <1>5, <1>6 DEF Credit, Debit, Or, CountTypes
  <2>8. t.balance[b] = 0 BY <1>1, <1>11 DEF StockTyped
  <2>9. \A c \in Buckets : t.balance[c] + Delta(request, c) = [t.balance EXCEPT ![b] = q][c]
    <3>1. \A c \in Buckets : Delta(request, c) = IF c = b THEN q ELSE 0
      <4> HIDE DEF b
      <4> QED BY <1>2, <1>5, <2>7 DEF Delta
    <3> HIDE DEF b
    <3> QED BY <1>2, <1>7, <2>8, <3>1
  <2>10. received.balance = [t.balance EXCEPT ![b] = q] BY <1>4, <1>7, <2>4, <2>9 DEF Apply
  <2>11. Sets(out.t) BY <2>2, <2>5, <2>6, <2>10
  <2> QED BY <1>3, <2>11 DEF out, q
<1> QED BY <1>9, <1>10, <1>11

(* and is taken where the bucket has a row, or what it is to have.          *)
LEMMA BalanceRowTaken ==
  ASSUME NEW t, t = [f \in TableNames |-> t[f]], Listed(t.txns), StockTyped(t), NEW r,
         SoundRow("balances", r), r.qty >= 0, r.units # 0,
         HasRowIn(t.txns, <<r.loc, r.lot, r.state>>) \/ t.balance[<<r.loc, r.lot, r.state>>] = r.qty * r.units
  PROVE  BalanceRow(t, r) # Refused
<1> DEFINE out == BalanceRow(t, r)
           b == <<r.loc, r.lot, r.state>>
           q == r.qty * r.units
           known == WithLot(t, r.lot)
           counted == CountIn(known, r.loc, r.lot, r.state, q)
           request == [Plain("RECEIPT", r.loc, r.lot, q) EXCEPT !.to = r.state]
           posted == IF HasRowIn(t.txns, b) THEN counted ELSE PostIn(known, request)
           n == known.balance[b]
           d == IF q > n THEN q - n ELSE n - q
           count == [Plain("CYCLE_COUNT", r.loc, r.lot, d)
                       EXCEPT !.dir = IF q > n THEN "IN" ELSE "OUT", !.from = r.state, !.to = r.state]
<1>1. b \in Buckets /\ r.qty \in Nat /\ r.units \in Nat BY DEF SoundRow
<1>2. q \in Nat BY <1>1
<1>3. out = IF q = t.balance[b] THEN Taken("skipped", known)
            ELSE IF posted = Refused THEN Refused
            ELSE Taken(IF HasRowIn(t.txns, b) THEN "updated" ELSE "created", posted)
  BY <1>1 DEF BalanceRow
<1>4. known.balance = t.balance /\ DOMAIN known = TableNames
  <2>1. Only(t, known, {"lots"}) /\ known.balance = t.balance BY WithLotStock DEF StockStep
  <2> HIDE DEF known
  <2> QED BY <2>1, OnlyFields
<1>5. n \in Int BY <1>1, <1>4 DEF StockTyped
<1>6. counted = IF q = n THEN known ELSE PostIn(known, count) BY DEF CountIn
<1>7. /\ count.qty = d /\ count.type = "CYCLE_COUNT" /\ count.loc = r.loc /\ count.lot = r.lot
      /\ count.dir = (IF q > n THEN "IN" ELSE "OUT") /\ count.from = r.state /\ count.to = r.state
      /\ count.id = GeneratedId
  BY DEF Plain
<1>8. HasRowIn(t.txns, b) => counted # Refused
  <2> HIDE DEF known, q, request, count, out
  <2>0. r.state # NoState BY <1>1 DEF Buckets, States, OnHandStates, NoState
  <2>1. q > n => Debit(count) = {} BY <1>7 DEF Debit, CountTypes
  <2>2. ~(q > n) => Debit(count) = {b} BY <1>7, <2>0 DEF Debit, CountTypes, Or
  <2>3. d >= 0 /\ (~(q > n) => n >= d) BY <1>2, <1>5
  <2>4. ResolveIn(known.quality, count) = count BY <1>7 DEF ResolveIn
  <2>5. Accepts(known.balance, known.txns, count)
    <3>1. \A c \in Debit(count) : known.balance[c] >= count.qty BY <1>7, <2>1, <2>2, <2>3
    <3> QED BY <1>7, <2>3, <3>1 DEF Accepts, CountTypes
  <2> DEFINE t2 == PostIn(known, count)
  <2>6. t2 = [known EXCEPT !.balance = Apply(@, count), !.txns = Append(@, RowOf(known.balance, count, 0))]
    BY <2>4, <2>5 DEF PostIn
  <2> HIDE DEF t2
  <2>7. DOMAIN t2 = TableNames BY <1>4, <2>6
  <2>8. t2 # Refused /\ known # Refused BY <1>4, <2>7, NotRefused
  <2> QED BY <1>6, <2>8 DEF t2
<1> HIDE DEF known, q, request, counted, out
<1> QED BY <1>3, <1>8, TakenFields DEF out, q

(* The least of a set of places, and of what it extends. *)
LEMMA MinExtends ==
  ASSUME NEW n \in Nat, NEW A, A \subseteq 1..n, NEW B, B \subseteq Nat, A = {i \in B : i <= n}
  PROVE  /\ A # {} => B # {} /\ Min(B) = Min(A)
         /\ A = {} /\ n + 1 \in B => B # {} /\ Min(B) = n + 1
<1> USE DEF Min
<1>1. ASSUME NEW S, S \subseteq Nat, NEW x \in S, \A y \in S : x <= y PROVE Min(S) = x
  <2>1. Min(S) \in S /\ \A y \in S : Min(S) <= y BY <1>1
  <2>2. Min(S) <= x /\ x <= Min(S) /\ x \in Nat /\ Min(S) \in Nat BY <1>1, <2>1
  <2> QED BY <2>2
<1>2. ASSUME A # {} PROVE B # {} /\ Min(B) = Min(A)
  <2>1. A \subseteq Nat OBVIOUS
  <2>2. PICK x \in A : \A y \in A : x <= y BY <1>2, <2>1, LeastNat
  <2>3. x \in B /\ x <= n /\ x \in Nat BY <2>2
  <2>4. \A y \in B : x <= y
    <3> TAKE y \in B
    <3>1. y \in Nat OBVIOUS
    <3>2. CASE y <= n BY <2>2, <3>2
    <3>3. CASE ~(y <= n) BY <2>3, <3>1, <3>3
    <3> QED BY <3>2, <3>3
  <2>5. Min(A) = x BY <1>1, <2>1, <2>2
  <2>6. Min(B) = x BY <1>1, <2>3, <2>4
  <2> QED BY <2>3, <2>5, <2>6
<1>3. ASSUME A = {}, n + 1 \in B PROVE B # {} /\ Min(B) = n + 1
  <2>1. \A y \in B : n + 1 <= y
    <3> TAKE y \in B
    <3>1. y \in Nat /\ ~(y <= n) BY <1>3
    <3> QED BY <3>1
  <2>2. Min(B) = n + 1 BY <1>1, <1>3, <2>1
  <2> QED BY <1>3, <2>2
<1> QED BY <1>2, <1>3

IdsOf(log) == {log[i].id : i \in DOMAIN log}

(* A row of transactions makes its lot known and its id used, *)
LEMMA TransactionRowPosts ==
  ASSUME NEW t, t = [f \in TableNames |-> t[f]], Listed(t.txns), StockTyped(t), NEW r,
         SoundRow("transactions", r), TransactionRow(t, r) # Refused
  PROVE  LET t2 == TransactionRow(t, r).t
         IN  /\ StockStep(t, t2, StockTables)
             /\ r.type \in TxnTypes /\ r.qty >= 0 /\ r.units # 0
             /\ t.lots \subseteq t2.lots /\ (r.lot = 0 \/ r.lot \in t2.lots)
             /\ IdsOf(t.txns) \subseteq IdsOf(t2.txns) /\ (r.txn # Absent => r.txn \in IdsOf(t2.txns))
<1> DEFINE known == WithLot(t, r.lot)
           id == IF r.txn = Absent THEN GeneratedId ELSE r.txn
           request == [Plain(r.type, r.loc, r.lot, r.qty * r.units) EXCEPT !.toLoc = r.toLoc, !.id = id]
           again == r.txn # Absent /\ \E i \in DOMAIN t.txns : t.txns[i].id = r.txn
           posted == PostIn(known, request)
           out == TransactionRow(t, r)
           Good(t2) == /\ StockStep(t, t2, StockTables)
                       /\ t.lots \subseteq t2.lots /\ (r.lot = 0 \/ r.lot \in t2.lots)
                       /\ IdsOf(t.txns) \subseteq IdsOf(t2.txns) /\ (r.txn # Absent => r.txn \in IdsOf(t2.txns))
<1>1. r.qty \in Int /\ r.units \in Nat BY DEF SoundRow
<1>2. /\ r.type \in TxnTypes /\ r.qty >= 0 /\ r.units # 0
      /\ \/ again /\ out = [Taken("skipped", known) EXCEPT !.warn = 1]
         \/ ~again /\ posted # Refused /\ out = Taken("created", posted)
  BY <1>1 DEF TransactionRow
<1>3. /\ StockStep(t, known, {"lots"}) /\ known.txns = t.txns /\ known.balance = t.balance
      /\ known = [f \in TableNames |-> known[f]] /\ Listed(known.txns) /\ StockTyped(known)
      /\ known.lots = IF r.lot = 0 THEN t.lots ELSE t.lots \cup {r.lot}
  <2>1. /\ StockStep(t, known, {"lots"}) /\ known.txns = t.txns /\ known.balance = t.balance
        /\ known.lots = IF r.lot = 0 THEN t.lots ELSE t.lots \cup {r.lot}
    BY WithLotStock
  <2> HIDE DEF known
  <2> QED BY <2>1, OnlyFields DEF StockStep
<1>4. /\ DOMAIN request = {"id", "type", "loc", "toLoc", "lot", "qty", "from", "to", "dir"}
      /\ request.qty \in Int /\ request.id = id
  BY <1>1 DEF Plain
<1>5. r.txn # Absent => id = r.txn OBVIOUS
<1>6. t.lots \subseteq known.lots /\ (r.lot = 0 \/ r.lot \in known.lots) BY <1>3
<1> HIDE DEF known, out, request, id
<1>7. CASE again /\ out = [Taken("skipped", known) EXCEPT !.warn = 1]
  <2>1. out.t = known BY <1>7, TakenFields
  <2>2. StockStep(t, known, StockTables) BY <1>3 DEF StockStep, Only, StockTables
  <2>3. Good(out.t) BY <1>3, <1>6, <1>7, <2>1, <2>2 DEF IdsOf
  <2> QED BY <1>2, <2>3 DEF out
<1>8. CASE posted # Refused /\ out = Taken("created", posted)
  <2>1. out.t = posted BY <1>8, TakenFields
  <2>2. StockStep(known, posted, {"balance", "txns"}) BY <1>3, <1>4, <1>8, PostInStock DEF StockStep
  <2>3. DOMAIN known = TableNames BY <1>3
  <2>4. PICK row : Adds(known.txns, posted.txns, row) /\ row.id = id BY <1>4, <1>8, <2>3, PostInAdds
  <2> HIDE DEF posted
  <2>5. StockStep(t, posted, {"lots"} \cup {"balance", "txns"}) BY <1>3, <2>2, StockSteps
  <2>6. {"lots"} \cup {"balance", "txns"} = StockTables BY DEF StockTables
  <2>7. posted.lots = known.lots BY <2>2 DEF StockStep, Only, TableNames
  <2>8. /\ DOMAIN t.txns = 1..Len(t.txns) /\ DOMAIN posted.txns = 1..Len(t.txns) + 1 /\ Len(t.txns) \in Nat
        /\ posted.txns[Len(t.txns) + 1] = row /\ \A i \in 1..Len(t.txns) : posted.txns[i] = t.txns[i]
    BY <1>3, <2>4, Appended DEF Adds
  <2>9. IdsOf(t.txns) \subseteq IdsOf(posted.txns) /\ id \in IdsOf(posted.txns)
    <3> DEFINE n == Len(t.txns)
               log == t.txns
               log2 == posted.txns
    <3>0. DOMAIN log = 1..n /\ DOMAIN log2 = 1..n + 1 /\ n \in Nat /\ log2[n + 1] = row /\ \A i \in 1..n : log2[i] = log[i]
      BY <2>8
    <3> HIDE DEF n, log, log2
    <3>1. \A i \in DOMAIN log : i \in DOMAIN log2 /\ log2[i] = log[i] BY <3>0
    <3>2. n + 1 \in DOMAIN log2 BY <3>0
    <3>3. IdsOf(log) \subseteq IdsOf(log2) /\ id \in IdsOf(log2) BY <2>4, <3>0, <3>1, <3>2 DEF IdsOf
    <3> QED BY <3>3 DEF log, log2
  <2>10. Good(out.t) BY <1>5, <1>6, <2>1, <2>5, <2>6, <2>7, <2>9
  <2> QED BY <1>2, <2>10 DEF out
<1> QED BY <1>2, <1>7, <1>8

(* and does nothing where both are so. *)
LEMMA TransactionRowAgain ==
  ASSUME NEW t, t = [f \in TableNames |-> t[f]], NEW r, r.type \in TxnTypes, r.qty \in Int, r.qty >= 0,
         r.units # 0, r.txn # Absent, r.txn \in IdsOf(t.txns), r.lot = 0 \/ r.lot \in t.lots
  PROVE  TransactionRow(t, r) # Refused /\ TransactionRow(t, r).t = t
<1> DEFINE known == WithLot(t, r.lot)
<1>1. \E i \in DOMAIN t.txns : t.txns[i].id = r.txn BY DEF IdsOf
<1> DEFINE out == TransactionRow(t, r)
           taken == [Taken("skipped", known) EXCEPT !.warn = 1]
<1>2. out = taken BY <1>1 DEF TransactionRow
<1>3. known = t
  <2>1. t.lots \cup {r.lot} = t.lots \/ r.lot = 0 OBVIOUS
  <2>2. known = IF r.lot = 0 THEN t ELSE [t EXCEPT !.lots = t.lots \cup {r.lot}] BY DEF WithLot
  <2>3. [t EXCEPT !.lots = t.lots] = t BY DEF TableNames
  <2> QED BY <2>1, <2>2, <2>3
<1>4. taken # Refused /\ taken.t = known BY TakenFields
<1> HIDE DEF known, taken, out
<1> QED BY <1>2, <1>3, <1>4 DEF out

-----------------------------------------------------------------------------
(* Demand: a row writes one place. *)

(* A row is written where its period is, or at the end. *)
SamePeriod(d, e) == d.loc = e.loc /\ d.period = e.period /\ d.gran = e.gran
PeriodsOf(rows, r) == {i \in DOMAIN rows : SamePeriod(rows[i], r)}
PeriodPlace(rows, r) == IF PeriodsOf(rows, r) = {} THEN Len(rows) + 1 ELSE Min(PeriodsOf(rows, r))
PeriodRow(r) == [loc |-> r.loc, period |-> r.period, gran |-> r.gran, qty |-> r.qty]

(* One place holds the row x then. *)
DemandWrites(rows, rows2, k, x) ==
  /\ k \in 1..Len(rows) + 1 /\ DOMAIN rows = 1..Len(rows)
  /\ Listed(rows2) /\ DOMAIN rows2 = 1..Len(rows2)
  /\ Len(rows2) = IF k = Len(rows) + 1 THEN k ELSE Len(rows)
  /\ \A i \in 1..Len(rows2) : rows2[i] = IF i = k THEN x ELSE rows[i]

(* An upload of demand writes the place of its period, and nothing else. *)
LEMMA DemandUploadWrites ==
  ASSUME NEW t, t = [f \in TableNames |-> t[f]], DemandTyped(t), NEW r, ~(r.qty < 0)
  PROVE  LET out == DemandUpload(t, r)
         IN  /\ out # Refused /\ Only(t, out.t, {"demand"}) /\ DemandTyped(out.t)
             /\ Len(t.demand) \in Nat
             /\ DemandWrites(t.demand, out.t.demand, PeriodPlace(t.demand, r), PeriodRow(r))
<1> DEFINE out == DemandUpload(t, r)
           old == t.demand
           same == {i \in DOMAIN t.demand : /\ t.demand[i].loc = r.loc /\ t.demand[i].period = r.period
                                            /\ t.demand[i].gran = r.gran}
           x == PeriodRow(r)
           k == PeriodPlace(old, r)
           new == IF same # {} THEN [old EXCEPT ![Min(same)].qty = r.qty] ELSE Append(old, x)
<1>1. same = PeriodsOf(old, r) BY DEF PeriodsOf, SamePeriod
<1>2. \E res : out = Taken(res, [t EXCEPT !.demand = new]) BY DEF DemandUpload, PeriodRow
<1>3. old \in Seq(Range(old)) /\ \A i \in DOMAIN old : IsDemandRow(old[i]) BY DEF DemandTyped, Listed
<1>4. IsDemandRow(x) BY DEF IsDemandRow, PeriodRow
<1>5. out # Refused /\ out.t = [t EXCEPT !.demand = new] BY <1>2, TakenFields
<1> HIDE DEF new, out
<1>6. Only(t, out.t, {"demand"}) /\ out.t.demand = new BY <1>5, OneTable DEF TableNames
<1> HIDE DEF old
<1>7. DOMAIN old = 1..Len(old) /\ Len(old) \in Nat
  <2> HIDE DEF Range
  <2> QED BY <1>3
<1>8. DemandWrites(old, new, k, x) /\ \A i \in 1..Len(new) : IsDemandRow(new[i])
  <2>1. CASE same = {}
    <3>1. k = Len(old) + 1 /\ new = Append(old, x) BY <1>1, <2>1 DEF PeriodPlace, new, old
    <3> HIDE DEF k, x, same
    <3>2. Listed(old) BY <1>3 DEF Listed
    <3>3. /\ Listed(new) /\ Len(new) = Len(old) + 1 /\ DOMAIN new = 1..Len(old) + 1 /\ new[Len(old) + 1] = x
          /\ \A i \in 1..Len(old) : new[i] = old[i]
      BY <3>1, <3>2, Appended
    <3>4. \A i \in 1..Len(new) : i = k \/ i \in 1..Len(old) BY <1>7, <3>1, <3>3
    <3>5. \A i \in 1..Len(old) : i # k BY <1>7, <3>1
    <3>6. k \in 1..Len(old) + 1 BY <1>7, <3>1
    <3> QED BY <1>3, <1>4, <1>7, <3>1, <3>3, <3>4, <3>5, <3>6 DEF DemandWrites
  <2>2. CASE same # {}
    <3>1. k = Min(same) /\ new = [old EXCEPT ![Min(same)].qty = r.qty]
      BY <1>1, <2>2 DEF PeriodPlace, new, old
    <3>2. k \in same
      <4>1. same \subseteq Nat BY <1>7 DEF old
      <4> HIDE DEF same, k
      <4> QED BY <2>2, <3>1, <4>1, MinIn
    <3>3. k \in DOMAIN old /\ old[k].loc = r.loc /\ old[k].period = r.period /\ old[k].gran = r.gran
      BY <3>2 DEF old
    <3> HIDE DEF k, same
    <3>4. [old[k] EXCEPT !.qty = r.qty] = x
      <4>1. IsDemandRow(old[k]) BY <1>3, <3>3
      <4>2. [old[k] EXCEPT !.qty = r.qty] = [loc |-> old[k].loc, period |-> old[k].period,
                                             gran |-> old[k].gran, qty |-> r.qty]
        BY <4>1 DEF IsDemandRow
      <4> QED BY <3>3, <4>2 DEF PeriodRow
    <3>5. new = [old EXCEPT ![k] = x] BY <3>1, <3>4
    <3> HIDE DEF x
    <3> DEFINE T == Range(old) \cup {x}
    <3>6. new \in [1..Len(old) -> T] /\ \A i \in 1..Len(old) : new[i] = IF i = k THEN x ELSE old[i]
      <4>1. old \in [1..Len(old) -> Range(old)]
        <5> HIDE DEF Range
        <5> QED BY <1>3
      <4> HIDE DEF Range
      <4> QED BY <1>7, <3>3, <3>5, <4>1
    <3> HIDE DEF T
    <3>7. Listed(new) /\ Len(new) = Len(old) /\ DOMAIN new = 1..Len(old) BY <1>7, <3>6, ListedOfFunction
    <3>8. k \in 1..Len(old) + 1 /\ k # Len(old) + 1 BY <1>7, <3>3
    <3> QED BY <1>3, <1>4, <1>7, <3>6, <3>7, <3>8 DEF DemandWrites
  <2> QED BY <2>1, <2>2
<1>9. DemandTyped(out.t) BY <1>6, <1>8 DEF DemandTyped, DemandWrites
<1> QED BY <1>5, <1>6, <1>7, <1>8, <1>9 DEF out, old

(* Rows of demand stay where they are; *)
DemandGrows(d, d2) ==
  /\ Len(d) <= Len(d2)
  /\ \A i \in 1..Len(d) : SamePeriod(d[i], d2[i])

(* f is e, with some rows as they were in d.                                *)
DemandSim(d, e, f) ==
  /\ Listed(f) /\ DOMAIN f = 1..Len(f) /\ Len(f) = Len(e)
  /\ \A i \in 1..Len(e) : f[i] = e[i] \/ (i \in 1..Len(d) /\ f[i] = d[i])

(* Periods keep their places over several rows. *)
LEMMA DemandGrowsTwice ==
  ASSUME NEW d, NEW e, NEW f, Len(d) \in Nat, Len(e) \in Nat, Len(f) \in Nat,
         DemandGrows(d, e), DemandGrows(e, f)
  PROVE  DemandGrows(d, f)
BY DEF DemandGrows, SamePeriod

(* The place of a period that is there. *)
LEMMA PlaceIn ==
  ASSUME NEW d, DOMAIN d = 1..Len(d), Len(d) \in Nat, NEW r, PeriodsOf(d, r) # {}
  PROVE  /\ PeriodPlace(d, r) \in 1..Len(d) /\ SamePeriod(d[PeriodPlace(d, r)], r)
<1> DEFINE A == PeriodsOf(d, r)
<1>1. A \subseteq Nat /\ A \subseteq 1..Len(d) BY DEF PeriodsOf
<1>2. Min(A) \in A
  <2> HIDE DEF A
  <2> QED BY <1>1, MinIn DEF A
<1>3. PeriodPlace(d, r) = Min(A) BY DEF PeriodPlace
<1>4. \A i \in A : SamePeriod(d[i], r) BY DEF PeriodsOf
<1> QED BY <1>1, <1>2, <1>3, <1>4

(* A row keeps the places of the periods that are there. *)
LEMMA DemandGrown ==
  ASSUME NEW d, NEW d2, NEW r, Len(d) \in Nat, DemandWrites(d, d2, PeriodPlace(d, r), PeriodRow(r))
  PROVE  DemandGrows(d, d2) /\ Len(d2) \in Nat
<1> DEFINE k == PeriodPlace(d, r)
           x == PeriodRow(r)
<1>1. SamePeriod(x, r) BY DEF SamePeriod, PeriodRow
<1>2. k \in 1..Len(d) => SamePeriod(d[k], r)
  <2>1. CASE PeriodsOf(d, r) = {} BY <2>1 DEF PeriodPlace
  <2>2. CASE PeriodsOf(d, r) # {} BY <2>2, PlaceIn DEF DemandWrites
  <2> QED BY <2>1, <2>2
<1> HIDE DEF k, x
<1>3. /\ k \in 1..Len(d) + 1 /\ Len(d2) = (IF k = Len(d) + 1 THEN k ELSE Len(d))
      /\ \A i \in 1..Len(d2) : d2[i] = IF i = k THEN x ELSE d[i]
  BY DEF DemandWrites, k, x
<1>4. Len(d2) \in Nat /\ Len(d) <= Len(d2) BY <1>3
<1>5. ASSUME NEW i \in 1..Len(d) PROVE SamePeriod(d[i], d2[i])
  <2>1. i \in 1..Len(d2) BY <1>4
  <2>2. CASE i = k BY <1>1, <1>2, <1>3, <2>1, <2>2 DEF SamePeriod
  <2>3. CASE i # k BY <1>3, <2>1, <2>3 DEF SamePeriod
  <2> QED BY <2>2, <2>3
<1> QED BY <1>4, <1>5 DEF DemandGrows

(* The same row again writes the same place.                                *)
LEMMA DemandAgain ==
  ASSUME NEW d, NEW d2, NEW e, NEW f, NEW f2, NEW r,
         Len(d) \in Nat, Len(e) \in Nat, 
         DemandWrites(d, d2, PeriodPlace(d, r), PeriodRow(r)),
         DemandWrites(f, f2, PeriodPlace(f, r), PeriodRow(r)),
         DemandGrows(d2, e), DemandSim(d, e, f)
  PROVE  DemandSim(d2, e, f2)
<1> DEFINE k == PeriodPlace(d, r)
           j == PeriodPlace(f, r)
           x == PeriodRow(r)
           A == PeriodsOf(d, r)
           B == PeriodsOf(f, r)
           n == Len(d)
<1>1. DemandGrows(d, d2) /\ Len(d2) \in Nat BY DemandGrown
<1>2. DemandGrows(d, e) BY <1>1, DemandGrowsTwice
<1>3. Len(f) = Len(e) /\ DOMAIN f = 1..Len(e) /\ DOMAIN d = 1..n BY DEF DemandSim, DemandWrites
<1>4. \A i \in 1..n : i \in 1..Len(e) /\ SamePeriod(d[i], e[i])
  BY <1>2 DEF DemandGrows
<1>5. ASSUME NEW i \in 1..Len(e) PROVE SamePeriod(f[i], e[i])
  <2>1. CASE f[i] = e[i] BY <2>1 DEF SamePeriod
  <2>2. CASE i \in 1..n /\ f[i] = d[i] BY <1>4, <2>2
  <2> QED BY <2>1, <2>2 DEF DemandSim
<1>6. A \subseteq 1..n /\ B \subseteq Nat
  <2>1. A \subseteq 1..n BY <1>3 DEF PeriodsOf
  <2>2. B \subseteq 1..Len(e) BY <1>3 DEF PeriodsOf
  <2> QED BY <2>1, <2>2
<1>7. A = {i \in B : i <= n}
  <2>1. ASSUME NEW i \in 1..n PROVE i \in A <=> i \in B
    <3>1. i \in 1..Len(e) /\ SamePeriod(d[i], e[i]) /\ SamePeriod(f[i], e[i]) BY <1>4, <1>5
    <3>2. SamePeriod(d[i], r) <=> SamePeriod(f[i], r) BY <3>1 DEF SamePeriod
    <3> QED BY <1>3, <3>1, <3>2 DEF PeriodsOf
  <2>2. \A i \in B : i \in 1..Len(e) BY <1>3 DEF PeriodsOf
  <2>3. \A i \in B : i <= n => i \in 1..n BY <2>2
  <2>4. \A i \in 1..n : i <= n OBVIOUS
  <2> HIDE DEF A, B, n
  <2> QED BY <1>6, <2>1, <2>3, <2>4
<1>8. j = k /\ k \in 1..Len(e)
  <2>1. CASE A # {}
    <3>1. B # {} /\ Min(B) = Min(A) BY <1>6, <1>7, <2>1, MinExtends
    <3>2. k \in 1..n BY <1>3, <2>1, PlaceIn
    <3> QED BY <1>4, <2>1, <3>1, <3>2 DEF PeriodPlace
  <2>2. CASE A = {}
    <3>1. k = n + 1 BY <2>2 DEF PeriodPlace
    <3>2. Len(d2) = n + 1 /\ d2[n + 1] = x
      <4>1. Len(d2) = n + 1 /\ n + 1 \in 1..n + 1 BY <3>1 DEF DemandWrites
      <4> QED BY <3>1, <4>1 DEF DemandWrites
    <3>3. n + 1 \in 1..Len(e) /\ SamePeriod(x, e[n + 1])
      <4>1. n + 1 \in 1..Len(d2) BY <3>2
      <4>2. SamePeriod(d2[n + 1], e[n + 1]) /\ Len(d2) <= Len(e) BY <4>1 DEF DemandGrows
      <4> QED BY <1>1, <3>2, <4>2
    <3>4. SamePeriod(f[n + 1], e[n + 1]) BY <1>5, <3>3
    <3>5. SamePeriod(f[n + 1], r) BY <3>3, <3>4 DEF SamePeriod, PeriodRow
    <3>6. n + 1 \in B BY <1>3, <3>3, <3>5 DEF PeriodsOf
    <3>7. B # {} /\ Min(B) = n + 1 BY <1>6, <1>7, <2>2, <3>6, MinExtends
    <3>8. j = n + 1 BY <3>7 DEF PeriodPlace
    <3> QED BY <3>1, <3>3, <3>8
  <2> QED BY <2>1, <2>2
<1> HIDE DEF j, k, x, A, B
<1>9. /\ Listed(f2) /\ DOMAIN f2 = 1..Len(f2) /\ Len(f2) = Len(e)
      /\ \A i \in 1..Len(e) : f2[i] = IF i = k THEN x ELSE f[i]
  <2>1. /\ Listed(f2) /\ DOMAIN f2 = 1..Len(f2) /\ Len(f2) = (IF k = Len(f) + 1 THEN k ELSE Len(f))
        /\ \A i \in 1..Len(f2) : f2[i] = IF i = k THEN x ELSE f[i]
    BY <1>8 DEF DemandWrites, j, x
  <2>2. k # Len(f) + 1 /\ Len(f) = Len(e)
    <3> DEFINE m == Len(e)
    <3>1. k \in 1..m /\ m \in Nat /\ Len(f) = m BY <1>3, <1>8
    <3> HIDE DEF m
    <3> QED BY <3>1 DEF m
  <2>3. Len(f2) = Len(e) BY <2>1, <2>2
  <2> QED BY <2>1, <2>3
<1>10. /\ n <= Len(d2) /\ (k = n + 1 => Len(d2) = n + 1) /\ k \in 1..Len(d2)
       /\ \A i \in 1..Len(d2) : d2[i] = IF i = k THEN x ELSE d[i]
  BY DEF DemandWrites, k, x
<1>11. ASSUME NEW i \in 1..Len(e) PROVE f2[i] = e[i] \/ (i \in 1..Len(d2) /\ f2[i] = d2[i])
  <2>1. CASE i = k BY <1>9, <1>10, <2>1
  <2>2. CASE i # k
    <3>1. f2[i] = f[i] BY <1>9, <2>2
    <3>2. i \in 1..n => i \in 1..Len(d2) /\ d2[i] = d[i] BY <1>1, <1>10, <2>2
    <3> QED BY <3>1, <3>2 DEF DemandSim
  <2> QED BY <2>1, <2>2
<1> QED BY <1>9, <1>11 DEF DemandSim

-----------------------------------------------------------------------------
(* Purchase orders: a row writes one line of one order. *)

(* A row is written to the line of its item, or to a new one. *)
LinesFor(d, sku) == {i \in DOMAIN d : d[i].sku = sku}
LinePlace(d, sku) == IF LinesFor(d, sku) = {} THEN Len(d) + 1 ELSE Min(LinesFor(d, sku))

(* The line a row adds, and a line it overwrites. *)
NewLine(r) ==
  [sku |-> r.sku, ordered |-> r.qty, received |-> IF r.received # Absent THEN r.received ELSE 0,
   transit |-> 0, status |-> "ACTIVE", eta |-> IF r.eta # Absent THEN r.eta ELSE r.promised]
EditedLine(ln, ln2, r) ==
  /\ ln2.sku = ln.sku /\ ln2.transit = ln.transit /\ ln2.status = ln.status
  /\ ln2.ordered = r.qty
  /\ ln2.eta = IF r.eta # Absent THEN r.eta ELSE ln.eta
  /\ ln2.received = IF r.received # Absent THEN r.received ELSE ln.received

(* One line holds what the row says then. *)
LinesWrite(d, d2, k, r) ==
  /\ k \in 1..Len(d) + 1 /\ Len(d2) = IF k = Len(d) + 1 THEN k ELSE Len(d)
  /\ \A i \in 1..Len(d2) : i # k => d2[i] = d[i]
  /\ k = Len(d) + 1 => d2[k] = NewLine(r)
  /\ k # Len(d) + 1 => EditedLine(d[k], d2[k], r)

OrderLines(o) == IF o = Absent THEN <<>> ELSE o.lines

(* What a row must be to be taken. *)
Acceptable(t, r) ==
  /\ r.sku \in Skus /\ t.master[r.supplier] # Absent /\ r.qty > 0
  /\ ~(r.eta # Absent /\ r.eta + 3650 < Today)

(* The place of a line that is there. *)
LEMMA LinePlaceIn ==
  ASSUME NEW d, DOMAIN d = 1..Len(d), Len(d) \in Nat, NEW sku, LinesFor(d, sku) # {}
  PROVE  /\ LinePlace(d, sku) \in 1..Len(d) /\ d[LinePlace(d, sku)].sku = sku
<1> DEFINE A == LinesFor(d, sku)
<1>1. A \subseteq Nat /\ A \subseteq 1..Len(d) BY DEF LinesFor
<1>2. Min(A) \in A
  <2> HIDE DEF A
  <2> QED BY <1>1, MinIn DEF A
<1>3. LinePlace(d, sku) = Min(A) BY DEF LinePlace
<1>4. \A i \in A : d[i].sku = sku BY DEF LinesFor
<1> QED BY <1>1, <1>2, <1>3, <1>4

(* An acceptable row of an order is taken, *)
LEMMA OrderUploadTaken ==
  ASSUME NEW t, NEW r, SoundOrder(r), Acceptable(t, r)
  PROVE  PurchaseOrderRow(t, r) # Refused
<1>1. ~(r.sku \notin Skus \/ ~Known(t, {r.supplier}) \/ r.qty <= 0)
  <2>1. Known(t, {r.supplier}) BY DEF Acceptable, Known
  <2>2. ~(r.qty <= 0) BY DEF Acceptable, SoundOrder
  <2> QED BY <2>1, <2>2 DEF Acceptable
<1>2. ~(r.eta # Absent /\ r.eta + 3650 < Today) BY DEF Acceptable
<1> DEFINE old == t.po[r.po]
           bad == r.sku \notin Skus \/ ~Known(t, {r.supplier}) \/ r.qty <= 0
           longPast == r.eta # Absent /\ r.eta + 3650 < Today
           out == PurchaseOrderRow(t, r)
           eta == IF r.eta # Absent THEN r.eta ELSE r.promised
           got == IF r.received # Absent THEN r.received ELSE 0
           line == [sku |-> r.sku, ordered |-> r.qty, received |-> got, transit |-> 0,
                    status |-> "ACTIVE", eta |-> eta]
           mine == {i \in DOMAIN old.lines : old.lines[i].sku = r.sku}
           edit(ln) == [ln EXCEPT !.ordered = r.qty, !.eta = IF r.eta # Absent THEN r.eta ELSE @,
                                  !.received = IF r.received # Absent THEN r.received ELSE @]
           lines == IF mine # {} THEN [old.lines EXCEPT ![Min(mine)] = edit(@)]
                    ELSE Append(old.lines, line)
           created == [t EXCEPT !.po[r.po] =
                         NewOrder(r.supplier, r.loc, r.sku, r.qty, got, r.promised, eta)]
           updated == [t EXCEPT !.po[r.po].lines = lines]
<1>3. out = IF bad THEN Refused ELSE IF longPast THEN Refused
            ELSE IF old = Absent THEN Taken("created", created) ELSE Taken("updated", updated)
  BY Zenon DEF PurchaseOrderRow
<1> HIDE DEF out, old, created, updated
<1>4. \E res, v : out = Taken(res, v) BY <1>1, <1>2, <1>3
<1>5. out # Refused BY <1>4, TakenFields
<1> QED BY <1>5 DEF out

(* and a row that is taken is acceptable, and writes its line of its order. *)
LEMMA OrderUploadWrites ==
  ASSUME NEW t, OrdersTyped(t), t = [f \in TableNames |-> t[f]], NEW r, SoundOrder(r),
         PurchaseOrderRow(t, r) # Refused
  PROVE  LET out == PurchaseOrderRow(t, r)
             old == t.po[r.po]
             new == out.t.po[r.po]
         IN  /\ Acceptable(t, r) /\ Only(t, out.t, {"po"}) /\ OrdersTyped(out.t)
             /\ \A n \in PoNumbers : n # r.po => out.t.po[n] = t.po[n]
             /\ new # Absent /\ new \in PurchaseOrder
             /\ old # Absent => old \in PurchaseOrder /\ new = [old EXCEPT !.lines = new.lines]
             /\ LinesWrite(OrderLines(old), new.lines, LinePlace(OrderLines(old), r.sku), r)
<1> DEFINE old == t.po[r.po]
           eta == IF r.eta # Absent THEN r.eta ELSE r.promised
           got == IF r.received # Absent THEN r.received ELSE 0
           line == [sku |-> r.sku, ordered |-> r.qty, received |-> got, transit |-> 0,
                    status |-> "ACTIVE", eta |-> eta]
           mine == {i \in DOMAIN old.lines : old.lines[i].sku = r.sku}
           edit(ln) == [ln EXCEPT !.ordered = r.qty, !.eta = IF r.eta # Absent THEN r.eta ELSE @,
                                  !.received = IF r.received # Absent THEN r.received ELSE @]
           first == NewOrder(r.supplier, r.loc, r.sku, r.qty, got, r.promised, eta)
           lines == IF mine # {} THEN [old.lines EXCEPT ![Min(mine)] = edit(@)]
                    ELSE Append(old.lines, line)
           changed == [old EXCEPT !.lines = lines]
           created == [t EXCEPT !.po[r.po] = first]
           updated == [t EXCEPT !.po[r.po].lines = lines]
           out == PurchaseOrderRow(t, r)
           bad == r.sku \notin Skus \/ ~Known(t, {r.supplier}) \/ r.qty <= 0
           longPast == r.eta # Absent /\ r.eta + 3650 < Today
<1>0. /\ r.po \in PoNumbers /\ r.supplier \in MasterKeys /\ r.loc \in Locations
      /\ r.qty \in Int /\ r.received \in Int \cup {Absent} /\ r.promised \in Day /\ r.eta \in Day
  BY DEF SoundOrder
<1>1. out = IF bad THEN Refused ELSE IF longPast THEN Refused
            ELSE IF old = Absent THEN Taken("created", created) ELSE Taken("updated", updated)
  BY Zenon DEF PurchaseOrderRow
<1>2. ~bad /\ ~longPast
  <2> HIDE DEF bad, longPast, created, updated, old
  <2> QED BY <1>1
<1>3. Acceptable(t, r)
  <2>1. t.master[r.supplier] # Absent BY <1>2 DEF Known
  <2>2. r.qty > 0 BY <1>0, <1>2
  <2> QED BY <1>2, <2>1, <2>2 DEF Acceptable
<1>4. out.t = IF old = Absent THEN created ELSE updated
  <2> HIDE DEF bad, longPast, created, updated, old
  <2>1. out = IF old = Absent THEN Taken("created", created) ELSE Taken("updated", updated) BY <1>1, <1>2
  <2> QED BY <2>1, TakenFields
<1> HIDE DEF out, bad, longPast
<1>5. t.po = [n \in PoNumbers |-> t.po[n]] BY DEF OrdersTyped
<1>6. OrdersTyped(out.t) BY OrderRowOrders DEF out, RowOrders
<1>a. ASSUME NEW v, out.t = [t EXCEPT !.po = [t.po EXCEPT ![r.po] = v]]
      PROVE  /\ Only(t, out.t, {"po"}) /\ out.t.po[r.po] = v
             /\ \A n \in PoNumbers : n # r.po => out.t.po[n] = t.po[n]
  <2> DEFINE w == [t.po EXCEPT ![r.po] = v]
  <2>1. w[r.po] = v /\ \A n \in PoNumbers : n # r.po => w[n] = t.po[n] BY <1>0, <1>5
  <2>2. out.t = [t EXCEPT !.po = w] BY <1>a
  <2> HIDE DEF w
  <2>3. Only(t, out.t, {"po"}) /\ out.t.po = w BY <2>2, OneTable DEF TableNames
  <2> QED BY <2>1, <2>3
<1>7. CASE old = Absent
  <2>1. out.t = [t EXCEPT !.po = [t.po EXCEPT ![r.po] = first]] BY <1>4, <1>7
  <2>2. first.lines = <<NewLine(r)>> BY DEF NewOrder, NewLine
  <2>3. Fresh(first) /\ first # Absent
    <3>1. \A supplier \in MasterKeys : \A l \in Locations : \A sku \in Skus : \A q \in Int : \A g \in Int :
            \A p \in Day : \A day \in Day :
              LET o == NewOrder(supplier, l, sku, q, g, p, day) IN Fresh(o) /\ o # Absent
      BY NewOrderFresh
    <3>2. got \in Int /\ eta \in Day /\ r.sku \in Skus BY <1>0, <1>3 DEF Acceptable
    <3> HIDE DEF got, eta
    <3> QED BY <1>0, <3>1, <3>2
  <2> HIDE DEF first
  <2>4. /\ Only(t, out.t, {"po"}) /\ out.t.po[r.po] = first
        /\ \A n \in PoNumbers : n # r.po => out.t.po[n] = t.po[n]
    BY <1>a, <2>1
  <2>5. OrderLines(old) = <<>> BY <1>7 DEF OrderLines
  <2>6. LinesFor(<<>>, r.sku) = {} BY DEF LinesFor
  <2>7. LinePlace(<<>>, r.sku) = 1 BY <2>6 DEF LinePlace
  <2>8. LinesWrite(<<>>, first.lines, 1, r) BY <2>2 DEF LinesWrite
  <2>9. first \in PurchaseOrder BY <2>3 DEF Fresh
  <2> QED BY <1>3, <1>6, <1>7, <2>3, <2>4, <2>5, <2>7, <2>8, <2>9 DEF out
<1>8. CASE old # Absent
  <2>1. old \in PurchaseOrder BY <1>0, <1>8 DEF OrdersTyped
  <2>2. out.t = [t EXCEPT !.po = [t.po EXCEPT ![r.po] = changed]] BY <1>4, <1>8
  <2>3. /\ old.lines \in Seq(OrderLine) /\ DOMAIN old.lines = 1..Len(old.lines) /\ Len(old.lines) \in Nat
        /\ \A i \in DOMAIN old.lines : old.lines[i] \in OrderLine
    BY <2>1, LinesOf
  <2>4. mine = LinesFor(old.lines, r.sku) BY DEF LinesFor
  <2>5. line = NewLine(r) BY DEF NewLine
  <2>6. OrderLines(old) = old.lines BY <1>8 DEF OrderLines
  <2>7. ASSUME NEW ln \in OrderLine PROVE EditedLine(ln, edit(ln), r)
    <3> DEFINE a == IF r.eta # Absent THEN r.eta ELSE ln.eta
               c == IF r.received # Absent THEN r.received ELSE ln.received
    <3>1. edit(ln) = [ln EXCEPT !.ordered = r.qty, !.eta = a, !.received = c] OBVIOUS
    <3> HIDE DEF a, c, edit
    <3>2. /\ edit(ln).ordered = r.qty /\ edit(ln).eta = a /\ edit(ln).received = c
          /\ edit(ln).sku = ln.sku /\ edit(ln).transit = ln.transit /\ edit(ln).status = ln.status
      BY <3>1 DEF OrderLine
    <3> QED BY <3>2 DEF EditedLine, a, c
  <2> DEFINE k == LinePlace(old.lines, r.sku)
  <2>8. LinesWrite(old.lines, lines, k, r)
    <3>1. CASE mine # {}
      <4>1. k = Min(mine) /\ k \in 1..Len(old.lines) BY <2>3, <2>4, <3>1, LinePlaceIn DEF LinePlace
      <4>2. lines = [old.lines EXCEPT ![k] = edit(old.lines[k])] BY <3>1, <4>1
      <4> HIDE DEF lines, mine, edit, k
      <4> DEFINE d == old.lines
      <4>3. EditedLine(d[k], edit(d[k]), r) BY <2>3, <2>7, <4>1
      <4> DEFINE x == edit(d[k])
                 T == OrderLine \cup {x}
      <4>4. d \in [1..Len(d) -> OrderLine] /\ Len(d) \in Nat BY <2>3
      <4> HIDE DEF d, x
      <4>5. lines = [d EXCEPT ![k] = x] BY <4>2 DEF d, x
      <4>6. lines \in [1..Len(d) -> T] /\ \A i \in 1..Len(d) : lines[i] = IF i = k THEN x ELSE d[i]
        BY <4>1, <4>4, <4>5
      <4> HIDE DEF T
      <4>7. Len(lines) = Len(d) BY <4>4, <4>6, ListedOfFunction
      <4>8. k \in 1..Len(d) BY <4>1 DEF d
      <4>9. k \in 1..Len(d) + 1 /\ k # Len(d) + 1 BY <4>4, <4>8
      <4>10. EditedLine(d[k], x, r) BY <4>3 DEF d, x
      <4>11. LinesWrite(d, lines, k, r) BY <4>6, <4>7, <4>8, <4>9, <4>10 DEF LinesWrite
      <4> QED BY <4>11 DEF d
    <3>2. CASE mine = {}
      <4>1. k = Len(old.lines) + 1 /\ lines = Append(old.lines, line) BY <2>4, <3>2 DEF LinePlace
      <4> HIDE DEF lines, line, mine, k
      <4>2. Listed(old.lines) BY <2>3, ListedOfSeq
      <4> DEFINE d == old.lines
      <4>a. Listed(d) /\ lines = Append(d, line) BY <4>1, <4>2
      <4> HIDE DEF d
      <4>3. /\ Len(lines) = Len(d) + 1 /\ lines[Len(d) + 1] = line
            /\ \A i \in 1..Len(d) : lines[i] = d[i]
        BY <4>a, Appended
      <4>4. Len(d) \in Nat /\ k = Len(d) + 1 BY <2>3, <4>1 DEF d
      <4>5. k \in 1..Len(d) + 1 BY <4>4
      <4>6. \A i \in 1..Len(lines) : i # k => i \in 1..Len(d) BY <4>3, <4>4
      <4>7. lines[k] = NewLine(r) BY <2>5, <4>3, <4>4
      <4>8. LinesWrite(d, lines, k, r) BY <4>3, <4>4, <4>5, <4>6, <4>7 DEF LinesWrite
      <4> QED BY <4>8 DEF d
    <3> QED BY <3>1, <3>2
  <2> HIDE DEF lines
  <2>9. changed.lines = lines /\ changed = [old EXCEPT !.lines = changed.lines]
    BY <2>1 DEF PurchaseOrder
  <2> HIDE DEF changed
  <2>10. /\ Only(t, out.t, {"po"}) /\ out.t.po[r.po] = changed
         /\ \A n \in PoNumbers : n # r.po => out.t.po[n] = t.po[n]
    BY <1>a, <2>2
  <2>11. changed \in PurchaseOrder /\ changed # Absent
    <3>1. changed # Absent
      <4>1. RowOrders(t, out.t) BY OrderRowOrders DEF out
      <4> QED BY <1>0, <1>8, <2>10, <4>1 DEF RowOrders
    <3> QED BY <1>0, <1>6, <2>10, <3>1 DEF OrdersTyped
  <2> QED BY <1>3, <1>6, <2>1, <2>6, <2>8, <2>9, <2>10, <2>11 DEF out, k
<1> QED BY <1>7, <1>8

(* Lines stay where they are; *)
LinesGrow(d, d2) == Len(d) <= Len(d2) /\ \A i \in 1..Len(d) : d2[i].sku = d[i].sku

(* x is y, with the columns a row writes as y or z has them.                *)
LineSim(x, y) == x.sku = y.sku /\ x.transit = y.transit /\ x.status = y.status
Between(x, y, z) ==
  /\ x.ordered \in {y.ordered, z.ordered} /\ x.eta \in {y.eta, z.eta}
  /\ x.received \in {y.received, z.received}
LinesSim(d, e, f) ==
  /\ Len(f) = Len(e)
  /\ \A i \in 1..Len(e) :
       LineSim(f[i], e[i]) /\ Between(f[i], e[i], IF i \in 1..Len(d) THEN d[i] ELSE e[i])

(* A row keeps the places of the lines that are there. *)
LEMMA LinesGrown ==
  ASSUME NEW d, NEW d2, NEW r, Len(d) \in Nat, DOMAIN d = 1..Len(d), LinesWrite(d, d2, LinePlace(d, r.sku), r)
  PROVE  LinesGrow(d, d2) /\ Len(d2) \in Nat
<1> DEFINE k == LinePlace(d, r.sku)
<1>1. k # Len(d) + 1 => k \in 1..Len(d) /\ d[k].sku = r.sku
  <2>1. CASE LinesFor(d, r.sku) = {} BY <2>1 DEF LinePlace
  <2>2. CASE LinesFor(d, r.sku) # {} BY <2>2, LinePlaceIn
  <2> QED BY <2>1, <2>2
<1>2. LinesWrite(d, d2, k, r) OBVIOUS
<1> HIDE DEF k
<1>3. k \in 1..Len(d) + 1 /\ Len(d2) = (IF k = Len(d) + 1 THEN k ELSE Len(d)) BY <1>2 DEF LinesWrite
<1>4. Len(d2) \in Nat /\ Len(d) <= Len(d2) BY <1>3
<1>5. ASSUME NEW i \in 1..Len(d) PROVE d2[i].sku = d[i].sku
  <2>1. i \in 1..Len(d2) BY <1>4
  <2>2. CASE i = k
    <3>1. k # Len(d) + 1 BY <2>2
    <3> QED BY <1>2, <2>2, <3>1 DEF LinesWrite, EditedLine
  <2>3. CASE i # k BY <1>2, <2>1, <2>3 DEF LinesWrite
  <2> QED BY <2>2, <2>3
<1> QED BY <1>4, <1>5 DEF LinesGrow

(* Lines keep their places over several rows. *)
LEMMA LinesGrowTwice ==
  ASSUME NEW d, NEW e, NEW f, Len(d) \in Nat, Len(e) \in Nat, Len(f) \in Nat,
         LinesGrow(d, e), LinesGrow(e, f)
  PROVE  LinesGrow(d, f)
<1>1. Len(d) <= Len(f) BY DEF LinesGrow
<1>2. ASSUME NEW i \in 1..Len(d) PROVE f[i].sku = d[i].sku
  <2>1. i \in 1..Len(e) BY DEF LinesGrow
  <2> QED BY <2>1 DEF LinesGrow
<1> QED BY <1>1, <1>2 DEF LinesGrow

(* The same row again: what it writes is what the last run left or had. *)
LEMMA LinesAgain ==
  ASSUME NEW d, NEW d2, NEW e, NEW f, NEW f2, NEW r,
         Len(d) \in Nat, DOMAIN d = 1..Len(d), Len(e) \in Nat, DOMAIN f = 1..Len(f),
         LinesWrite(d, d2, LinePlace(d, r.sku), r), LinesWrite(f, f2, LinePlace(f, r.sku), r),
         LinesGrow(d2, e), LinesSim(d, e, f)
  PROVE  LinesSim(d2, e, f2)
<1> DEFINE k == LinePlace(d, r.sku)
           j == LinePlace(f, r.sku)
           A == LinesFor(d, r.sku)
           B == LinesFor(f, r.sku)
           n == Len(d)
           m == Len(e)
<1>1. LinesGrow(d, d2) /\ Len(d2) \in Nat BY LinesGrown
<1>2. LinesGrow(d, e) BY <1>1, LinesGrowTwice
<1>3. Len(f) = m /\ DOMAIN f = 1..m /\ DOMAIN d = 1..n /\ n \in Nat /\ m \in Nat BY DEF LinesSim
<1>4. \A i \in 1..n : i \in 1..m /\ e[i].sku = d[i].sku BY <1>2 DEF LinesGrow
<1>5. \A i \in 1..m : f[i].sku = e[i].sku BY DEF LinesSim, LineSim
<1>6. A \subseteq 1..n /\ B \subseteq 1..m /\ B \subseteq Nat
  <2>1. A \subseteq 1..n BY <1>3 DEF LinesFor
  <2>2. B \subseteq 1..m BY <1>3 DEF LinesFor
  <2> QED BY <2>1, <2>2
<1>7. A = {i \in B : i <= n}
  <2>1. ASSUME NEW i \in 1..n PROVE i \in A <=> i \in B
    <3>1. i \in 1..m /\ f[i].sku = d[i].sku BY <1>4, <1>5
    <3> QED BY <1>3, <3>1 DEF LinesFor
  <2> HIDE DEF A, B, n, m
  <2>2. \A i \in B : i <= n => i \in 1..n BY <1>3, <1>6
  <2>3. \A i \in 1..n : i <= n OBVIOUS
  <2> QED BY <1>6, <2>1, <2>2, <2>3
<1>b. /\ A # {} => B # {} /\ Min(B) = Min(A)
      /\ A = {} /\ n + 1 \in B => B # {} /\ Min(B) = n + 1
  <2>1. n \in Nat BY <1>3
  <2> HIDE DEF A, B, n
  <2> QED BY <1>6, <1>7, <2>1, MinExtends
<1>8. /\ n <= Len(d2) /\ (k = n + 1 => Len(d2) = n + 1) /\ k \in 1..Len(d2) /\ k \in 1..n + 1
      /\ \A i \in 1..Len(d2) : i # k => d2[i] = d[i]
      /\ k = n + 1 => d2[k] = NewLine(r)
      /\ k # n + 1 => EditedLine(d[k], d2[k], r)
  BY DEF LinesWrite
<1>9. j = k /\ k \in 1..m
  <2>1. CASE A # {}
    <3>1. B # {} /\ Min(B) = Min(A) BY <1>b, <2>1
    <3>2. k \in 1..n BY <1>3, <2>1, LinePlaceIn
    <3> QED BY <1>4, <2>1, <3>1, <3>2 DEF LinePlace
  <2>2. CASE A = {}
    <3>1. k = n + 1 BY <2>2 DEF LinePlace
    <3>2. n + 1 \in 1..m /\ f[n + 1].sku = r.sku
      <4>1. d2[n + 1].sku = r.sku BY <1>8, <3>1 DEF NewLine
      <4>2. n + 1 \in 1..Len(d2) /\ Len(d2) = n + 1 BY <1>8, <3>1
      <4>3. e[n + 1].sku = r.sku /\ n + 1 <= m BY <4>1, <4>2 DEF LinesGrow
      <4>4. n + 1 \in 1..m BY <1>3, <4>3
      <4> QED BY <1>5, <4>3, <4>4
    <3>3. n + 1 \in B BY <1>3, <3>2 DEF LinesFor
    <3>4. B # {} /\ Min(B) = n + 1 BY <1>b, <2>2, <3>3
    <3>5. j = n + 1 BY <3>4 DEF LinePlace
    <3> QED BY <3>1, <3>2, <3>5
  <2> QED BY <2>1, <2>2
<1>10. LinesWrite(f, f2, k, r) BY <1>9
<1>11. \A i \in 1..m : LineSim(f[i], e[i]) /\ Between(f[i], e[i], IF i \in 1..n THEN d[i] ELSE e[i])
  BY DEF LinesSim
<1> HIDE DEF j, k, A, B, n, m
<1>12. Len(f2) = m /\ (\A i \in 1..m : i # k => f2[i] = f[i]) /\ EditedLine(f[k], f2[k], r)
  <2>1. k # m + 1 BY <1>3, <1>9
  <2>2. k # Len(f) + 1 /\ Len(f) = m BY <1>3, <2>1
  <2> QED BY <1>10, <2>2 DEF LinesWrite
<1>13. ASSUME NEW i \in 1..m
       PROVE  LineSim(f2[i], e[i]) /\ Between(f2[i], e[i], IF i \in 1..Len(d2) THEN d2[i] ELSE e[i])
  <2>1. CASE i = k
    <3>1. LineSim(f2[i], e[i]) BY <1>11, <1>12, <2>1 DEF LineSim, EditedLine
    <3>2. i \in 1..Len(d2) BY <1>8, <2>1
    <3>3. Between(f2[i], e[i], d2[i])
      <4>1. CASE k = n + 1
        <5>1. i \notin 1..n BY <1>3, <2>1, <4>1
        <5>2. Between(f[i], e[i], e[i]) BY <1>11, <5>1
        <5>3. d2[i] = NewLine(r) BY <1>8, <2>1, <4>1
        <5> QED BY <1>12, <2>1, <5>2, <5>3 DEF Between, NewLine, EditedLine
      <4>2. CASE k # n + 1
        <5>1. i \in 1..n BY <1>3, <1>8, <2>1, <4>2
        <5>2. Between(f[i], e[i], d[i]) BY <1>11, <5>1
        <5>3. EditedLine(d[i], d2[i], r) BY <1>8, <2>1, <4>2
        <5> QED BY <1>12, <2>1, <5>2, <5>3 DEF Between, EditedLine
      <4> QED BY <4>1, <4>2
    <3> QED BY <3>1, <3>2, <3>3
  <2>2. CASE i # k
    <3>1. f2[i] = f[i] BY <1>12, <2>2
    <3>2. CASE i \in 1..n
      <4>1. i \in 1..Len(d2) BY <1>1, <1>3, <1>8, <3>2
      <4>2. d2[i] = d[i] BY <1>8, <2>2, <4>1
      <4> QED BY <1>11, <3>1, <3>2, <4>1, <4>2
    <3>3. CASE i \notin 1..n
      <4>1. Between(f[i], e[i], e[i]) /\ LineSim(f[i], e[i]) BY <1>11, <3>3
      <4> QED BY <3>1, <4>1 DEF Between
    <3> QED BY <3>2, <3>3
  <2> QED BY <2>1, <2>2
<1> QED BY <1>12, <1>13 DEF LinesSim, m

-----------------------------------------------------------------------------
(* All orders *)

(* Orders and their lines stay where they are, *)
OrdersGrow(s, s2) ==
  \A n \in PoNumbers : s.po[n] # Absent =>
    s2.po[n] # Absent /\ LinesGrow(s.po[n].lines, s2.po[n].lines)

(* and v has the orders of u, with some figures of s. *)
OrdersSim(s, u, v) ==
  \A n \in PoNumbers :
    /\ u.po[n] = Absent <=> v.po[n] = Absent
    /\ u.po[n] # Absent => /\ v.po[n] = [u.po[n] EXCEPT !.lines = v.po[n].lines]
                           /\ LinesSim(OrderLines(s.po[n]), u.po[n].lines, v.po[n].lines)

(* The lines of an order, or none. *)
LEMMA LinesOfOrders ==
  ASSUME NEW t, OrdersTyped(t), NEW n \in PoNumbers
  PROVE  LET d == OrderLines(t.po[n]) IN d \in Seq(OrderLine) /\ DOMAIN d = 1..Len(d) /\ Len(d) \in Nat
<1>1. CASE t.po[n] = Absent
  <2>1. OrderLines(t.po[n]) = <<>> BY <1>1 DEF OrderLines
  <2>2. <<>> \in Seq(OrderLine) /\ DOMAIN <<>> = 1..Len(<<>>) /\ Len(<<>>) = 0 OBVIOUS
  <2> QED BY <2>1, <2>2
<1>2. CASE t.po[n] # Absent
  <2>1. t.po[n] \in PurchaseOrder BY <1>2 DEF OrdersTyped
  <2> QED BY <1>2, <2>1, LinesOf DEF OrderLines
<1> QED BY <1>1, <1>2

(* A row keeps the orders that are there. *)
LEMMA OrdersGrown ==
  ASSUME NEW t, OrdersTyped(t), t = [f \in TableNames |-> t[f]], NEW r, SoundOrder(r),
         PurchaseOrderRow(t, r) # Refused
  PROVE  OrdersGrow(t, PurchaseOrderRow(t, r).t)
<1> DEFINE out == PurchaseOrderRow(t, r)
           old == t.po[r.po]
           new == out.t.po[r.po]
<1>1. /\ \A n \in PoNumbers : n # r.po => out.t.po[n] = t.po[n]
      /\ new # Absent
      /\ LinesWrite(OrderLines(old), new.lines, LinePlace(OrderLines(old), r.sku), r)
  BY OrderUploadWrites, ZenonT(40)
<1> HIDE DEF out
<1> SUFFICES ASSUME NEW n \in PoNumbers, t.po[n] # Absent
             PROVE  out.t.po[n] # Absent /\ LinesGrow(t.po[n].lines, out.t.po[n].lines)
  BY DEF OrdersGrow, out
<1>2. CASE n = r.po
  <2>1. OrderLines(old) = t.po[n].lines BY <1>2 DEF OrderLines
  <2>2. DOMAIN OrderLines(old) = 1..Len(OrderLines(old)) /\ Len(OrderLines(old)) \in Nat
    BY <1>2, LinesOfOrders
  <2>3. LinesGrow(OrderLines(old), new.lines) BY <1>1, <2>2, LinesGrown
  <2> QED BY <1>1, <1>2, <2>1, <2>3
<1>3. CASE n # r.po
  <2>1. OrderLines(t.po[n]) = t.po[n].lines BY DEF OrderLines
  <2>2. Len(t.po[n].lines) \in Nat BY <2>1, LinesOfOrders
  <2>3. LinesGrow(t.po[n].lines, t.po[n].lines) BY <2>2 DEF LinesGrow
  <2> QED BY <1>1, <1>3, <2>3
<1> QED BY <1>2, <1>3

(* Orders stay over several rows. *)
LEMMA OrdersGrowTwice ==
  ASSUME NEW s, NEW s2, NEW s3, OrdersTyped(s), OrdersTyped(s2), OrdersTyped(s3),
         OrdersGrow(s, s2), OrdersGrow(s2, s3)
  PROVE  OrdersGrow(s, s3)
<1> SUFFICES ASSUME NEW n \in PoNumbers, s.po[n] # Absent
             PROVE  s3.po[n] # Absent /\ LinesGrow(s.po[n].lines, s3.po[n].lines)
  BY DEF OrdersGrow
<1>1. s2.po[n] # Absent /\ LinesGrow(s.po[n].lines, s2.po[n].lines) BY DEF OrdersGrow
<1>2. s3.po[n] # Absent /\ LinesGrow(s2.po[n].lines, s3.po[n].lines) BY <1>1 DEF OrdersGrow
<1>3. Len(s.po[n].lines) \in Nat /\ Len(s2.po[n].lines) \in Nat /\ Len(s3.po[n].lines) \in Nat
  BY <1>1, <1>2, LinesOfOrders DEF OrderLines
<1> QED BY <1>1, <1>2, <1>3, LinesGrowTwice

(* A row of an order again is taken again, and writes what it wrote. *)
LEMMA OrdersAgain ==
  ASSUME NEW s, NEW u, NEW v, OrdersTyped(s), OrdersTyped(u), OrdersTyped(v),
         s = [f \in TableNames |-> s[f]], v = [f \in TableNames |-> v[f]], v.master = u.master,
         NEW r, SoundOrder(r), PurchaseOrderRow(s, r) # Refused, u.master[r.supplier] # Absent,
         OrdersGrow(PurchaseOrderRow(s, r).t, u), OrdersSim(s, u, v)
  PROVE  /\ PurchaseOrderRow(v, r) # Refused
         /\ OrdersSim(PurchaseOrderRow(s, r).t, u, PurchaseOrderRow(v, r).t)
         /\ Only(v, PurchaseOrderRow(v, r).t, {"po"}) /\ OrdersTyped(PurchaseOrderRow(v, r).t)
<1> DEFINE s2 == PurchaseOrderRow(s, r).t
           out == PurchaseOrderRow(v, r)
           v2 == out.t
<1>0. r.po \in PoNumbers BY DEF SoundOrder
<1>a. ASSUME NEW t, OrdersTyped(t), t = [f \in TableNames |-> t[f]], PurchaseOrderRow(t, r) # Refused
      PROVE  LET t2 == PurchaseOrderRow(t, r).t
             IN  /\ Acceptable(t, r) /\ OrdersTyped(t2) /\ Only(t, t2, {"po"})
                 /\ \A n \in PoNumbers : n # r.po => t2.po[n] = t.po[n]
                 /\ t2.po[r.po] # Absent
                 /\ t.po[r.po] # Absent => t2.po[r.po] = [t.po[r.po] EXCEPT !.lines = t2.po[r.po].lines]
                 /\ LinesWrite(OrderLines(t.po[r.po]), t2.po[r.po].lines,
                               LinePlace(OrderLines(t.po[r.po]), r.sku), r)
  BY <1>a, OrderUploadWrites
<1>1. /\ Acceptable(s, r) /\ OrdersTyped(s2)
      /\ \A n \in PoNumbers : n # r.po => s2.po[n] = s.po[n]
      /\ s2.po[r.po] # Absent
      /\ LinesWrite(OrderLines(s.po[r.po]), s2.po[r.po].lines, LinePlace(OrderLines(s.po[r.po]), r.sku), r)
  BY <1>a
<1>2. Acceptable(v, r) BY <1>1 DEF Acceptable
<1>3. out # Refused BY <1>2, OrderUploadTaken
<1>4. /\ Only(v, v2, {"po"}) /\ OrdersTyped(v2)
      /\ \A n \in PoNumbers : n # r.po => v2.po[n] = v.po[n]
      /\ v2.po[r.po] # Absent
      /\ v.po[r.po] # Absent => v2.po[r.po] = [v.po[r.po] EXCEPT !.lines = v2.po[r.po].lines]
      /\ LinesWrite(OrderLines(v.po[r.po]), v2.po[r.po].lines, LinePlace(OrderLines(v.po[r.po]), r.sku), r)
  BY <1>a, <1>3
<1>5. OrdersGrow(s2, u) OBVIOUS
<1> HIDE DEF s2, out
<1>6. ASSUME NEW n \in PoNumbers
      PROVE  /\ u.po[n] = Absent <=> v2.po[n] = Absent
             /\ u.po[n] # Absent => /\ v2.po[n] = [u.po[n] EXCEPT !.lines = v2.po[n].lines]
                                    /\ LinesSim(OrderLines(s2.po[n]), u.po[n].lines, v2.po[n].lines)
  <2>1. CASE n # r.po BY <1>1, <1>4, <2>1 DEF OrdersSim
  <2>2. CASE n = r.po
    <3> DEFINE o == u.po[n]
               p == v.po[n]
               p2 == v2.po[n]
               d == OrderLines(s.po[n])
               d2 == s2.po[n].lines
    <3>1. o # Absent /\ LinesGrow(d2, o.lines) BY <1>1, <1>5, <2>2 DEF OrdersGrow
    <3>2. /\ p # Absent /\ p = [o EXCEPT !.lines = p.lines]
          /\ LinesSim(d, o.lines, p.lines)
      BY <3>1 DEF OrdersSim
    <3>3. o \in PurchaseOrder /\ p \in PurchaseOrder BY <3>1, <3>2 DEF OrdersTyped
    <3>4. p2 = [p EXCEPT !.lines = p2.lines] /\ p2 # Absent BY <1>4, <2>2, <3>2
    <3>5. OrderLines(p) = p.lines BY <3>2 DEF OrderLines
    <3>6. /\ LinesWrite(d, d2, LinePlace(d, r.sku), r)
          /\ LinesWrite(p.lines, p2.lines, LinePlace(p.lines, r.sku), r)
      BY <1>1, <1>4, <2>2, <3>5
    <3>7. /\ DOMAIN d = 1..Len(d) /\ Len(d) \in Nat /\ Len(o.lines) \in Nat
          /\ DOMAIN p.lines = 1..Len(p.lines)
      BY <3>3, LinesOf, LinesOfOrders
    <3>8. OrderLines(s2.po[n]) = d2 BY <1>1, <2>2 DEF OrderLines
    <3> HIDE DEF o, p, p2, d, d2
    <3>9. LinesSim(d2, o.lines, p2.lines) BY <3>1, <3>2, <3>6, <3>7, LinesAgain
    <3>10. p2 = [o EXCEPT !.lines = p2.lines]
      <4> DEFINE w == p2.lines
      <4>1. p2 = [p EXCEPT !.lines = w] /\ p = [o EXCEPT !.lines = p.lines] BY <3>2, <3>4
      <4> HIDE DEF w
      <4>2. p2 = [o EXCEPT !.lines = w] BY <4>1
      <4> QED BY <4>2 DEF w
    <3> QED BY <3>1, <3>4, <3>8, <3>9, <3>10 DEF o, p2
  <2> QED BY <2>1, <2>2
<1> QED BY <1>3, <1>4, <1>6 DEF OrdersSim, s2, out

(* At the end nothing has changed.                                          *)
LEMMA OrdersUnchanged ==
  ASSUME NEW u, NEW v, OrdersTyped(u), OrdersTyped(v), OrdersSim(u, u, v)
  PROVE  v.po = u.po
<1>1. ASSUME NEW n \in PoNumbers PROVE v.po[n] = u.po[n]
  <2>1. CASE u.po[n] = Absent BY <2>1 DEF OrdersSim
  <2>2. CASE u.po[n] # Absent
    <3> DEFINE o == u.po[n]
               p == v.po[n]
               e == o.lines
               f == p.lines
    <3>1. o \in PurchaseOrder /\ p \in PurchaseOrder /\ p = [o EXCEPT !.lines = f] /\ LinesSim(e, e, f)
      BY <2>2 DEF OrdersSim, OrdersTyped, OrderLines
    <3>2. /\ e \in Seq(OrderLine) /\ DOMAIN e = 1..Len(e) /\ Len(e) \in Nat /\ \A i \in DOMAIN e : e[i] \in OrderLine
          /\ f \in Seq(OrderLine) /\ DOMAIN f = 1..Len(f) /\ \A i \in DOMAIN f : f[i] \in OrderLine
      BY <3>1, LinesOf
    <3> HIDE DEF o, p, e, f
    <3>3. Len(f) = Len(e) BY <3>1 DEF LinesSim
    <3>4. ASSUME NEW i \in 1..Len(e) PROVE f[i] = e[i]
      <4>1. LineSim(f[i], e[i]) /\ Between(f[i], e[i], e[i]) BY <3>1 DEF LinesSim
      <4>2. f[i] \in OrderLine /\ e[i] \in OrderLine BY <3>2, <3>3
      <4> QED BY <4>1, <4>2 DEF LineSim, Between, OrderLine
    <3>5. f = e
      <4>1. f = [i \in DOMAIN f |-> f[i]] /\ e = [i \in DOMAIN e |-> e[i]] BY <3>2
      <4> QED BY <3>2, <3>3, <3>4, <4>1
    <3>6. p = [o EXCEPT !.lines = e] BY <3>1, <3>5
    <3>7. p = o BY <3>1, <3>6 DEF PurchaseOrder, e
    <3> QED BY <3>7 DEF o, p
  <2> QED BY <2>1, <2>2
<1>2. u.po = [n \in PoNumbers |-> u.po[n]] /\ v.po = [n \in PoNumbers |-> v.po[n]] BY DEF OrdersTyped
<1> QED BY <1>1, <1>2

-----------------------------------------------------------------------------
(* The forecast: a row writes one cell. *)

(* f is e, with some of the cells of d. *)
ForecastSim(d, e, f) ==
  /\ DOMAIN f = DOMAIN e
  /\ \A k \in DOMAIN e : f[k] = e[k] \/ (k \in DOMAIN d /\ f[k] = d[k])

(* The forecast with the figure of a row. *)
ForecastSet(d, r) ==
  LET x == <<r.loc, r.period, r.kind>>
  IN  [k \in DOMAIN d \cup {x} |-> IF k = x THEN r.qty ELSE d[k]]

(* An upload of the forecast writes its cell, and nothing else. *)
LEMMA ForecastUploadWrites ==
  ASSUME NEW t, t = [f \in TableNames |-> t[f]], NEW r
  PROVE  LET out == ForecastUpload(t, r)
         IN  /\ out # Refused => r.kind \in {"BASELINE", "CONSENSUS", "ADJUSTED"}
             /\ r.kind \in {"BASELINE", "CONSENSUS", "ADJUSTED"} =>
                  /\ out # Refused /\ Only(t, out.t, {"forecast"})
                  /\ out.t.forecast = ForecastSet(t.forecast, r)
<1> DEFINE out == ForecastUpload(t, r)
           x == <<r.loc, r.period, r.kind>>
           new == [k \in DOMAIN t.forecast \cup {x} |-> IF k = x THEN r.qty ELSE t.forecast[k]]
           set == [t EXCEPT !.forecast = new]
           ok == r.kind \in {"BASELINE", "CONSENSUS", "ADJUSTED"}
<1>1. ~ok => out = Refused BY DEF ForecastUpload
<1>2. ok => out = Taken(IF x \in DOMAIN t.forecast THEN "updated" ELSE "created", set)
  BY DEF ForecastUpload, SetForecast
<1> HIDE DEF out, x, ok, new
<1>3. Only(t, set, {"forecast"}) /\ set.forecast = new BY OneTable DEF TableNames
<1> HIDE DEF set
<1>4. ok => out # Refused /\ out.t = set BY <1>2, TakenFields
<1>5. new = ForecastSet(t.forecast, r) BY DEF ForecastSet, new, x
<1> QED BY <1>1, <1>3, <1>4, <1>5 DEF out, ok

(* A row of the forecast again. *)
LEMMA ForecastAgain ==
  ASSUME NEW s, NEW u, NEW v, s = [f \in TableNames |-> s[f]], v = [f \in TableNames |-> v[f]],
         NEW r, ForecastUpload(s, r) # Refused,
         DOMAIN ForecastUpload(s, r).t.forecast \subseteq DOMAIN u.forecast,
         ForecastSim(s.forecast, u.forecast, v.forecast)
  PROVE  /\ ForecastUpload(v, r) # Refused /\ Only(v, ForecastUpload(v, r).t, {"forecast"})
         /\ ForecastSim(ForecastUpload(s, r).t.forecast, u.forecast, ForecastUpload(v, r).t.forecast)
<1> DEFINE x == <<r.loc, r.period, r.kind>>
           d == s.forecast
           d2 == ForecastUpload(s, r).t.forecast
           e == u.forecast
           f == v.forecast
           f2 == ForecastUpload(v, r).t.forecast
<1>a. ASSUME NEW t, t = [g \in TableNames |-> t[g]]
      PROVE  /\ ForecastUpload(t, r) # Refused => r.kind \in {"BASELINE", "CONSENSUS", "ADJUSTED"}
             /\ r.kind \in {"BASELINE", "CONSENSUS", "ADJUSTED"} =>
                  /\ ForecastUpload(t, r) # Refused /\ Only(t, ForecastUpload(t, r).t, {"forecast"})
                  /\ ForecastUpload(t, r).t.forecast = ForecastSet(t.forecast, r)
  BY <1>a, ForecastUploadWrites
<1>1. r.kind \in {"BASELINE", "CONSENSUS", "ADJUSTED"} BY <1>a
<1>2. d2 = [k \in DOMAIN d \cup {x} |-> IF k = x THEN r.qty ELSE d[k]]
  BY <1>1, <1>a DEF ForecastSet
<1>3. /\ ForecastUpload(v, r) # Refused /\ Only(v, ForecastUpload(v, r).t, {"forecast"})
      /\ f2 = [k \in DOMAIN f \cup {x} |-> IF k = x THEN r.qty ELSE f[k]]
  BY <1>1, <1>a DEF ForecastSet
<1>4. ForecastSim(d, e, f) /\ DOMAIN d2 \subseteq DOMAIN e OBVIOUS
<1> HIDE DEF x, d, d2, e, f, f2
<1>5. x \in DOMAIN e BY <1>2, <1>4
<1>6. DOMAIN f2 = DOMAIN e BY <1>3, <1>4, <1>5 DEF ForecastSim
<1>7. ASSUME NEW k \in DOMAIN e PROVE f2[k] = e[k] \/ (k \in DOMAIN d2 /\ f2[k] = d2[k])
  <2>1. CASE k = x BY <1>2, <1>3, <2>1
  <2>2. CASE k # x BY <1>2, <1>3, <1>4, <2>2 DEF ForecastSim
  <2> QED BY <2>1, <2>2
<1> QED BY <1>3, <1>6, <1>7 DEF ForecastSim, d2, e, f2

-----------------------------------------------------------------------------
(* Master data: a row writes some columns of one key. *)

(* Keys stay, *)
MasterGrows(s, s2) == \A k \in MasterKeys : s[k] # Absent => s2[k] # Absent

(* and f is e, with some of the columns of d. *)
MasterSim(d, e, f) ==
  \A k \in MasterKeys :
    /\ e[k] = Absent <=> f[k] = Absent
    /\ e[k] # Absent => \A c \in Columns : f[k][c] = e[k][c] \/ (d[k] # Absent /\ f[k][c] = d[k][c])

(* The columns a row gives, and the others as they were. *)
Merged(old, vals) == [c \in Columns |-> IF vals[c] # Absent THEN vals[c] ELSE old[c]]

(* Merged columns are columns. *)
LEMMA MergedTyped ==
  ASSUME NEW old \in ColumnsRow, NEW vals \in ColumnsRow
  PROVE  Merged(old, vals) \in ColumnsRow
BY DEF Merged, ColumnsRow

(* An upload of master data writes the columns it gives, and nothing else. *)
LEMMA MasterUploadWrites ==
  ASSUME NEW t, t = [f \in TableNames |-> t[f]], MasterTyped(t), NEW r,
         r.key \in MasterKeys, r.refs \subseteq MasterKeys, r.vals \in ColumnsRow
  PROVE  LET out == MasterRow(t, r)
             old == t.master[r.key]
             new == IF old = Absent THEN r.vals ELSE Merged(old, r.vals)
         IN  /\ out # Refused => r.valid /\ Known(t, r.refs)
             /\ r.valid /\ Known(t, r.refs) =>
                  /\ out # Refused /\ Only(t, out.t, {"master"}) /\ MasterTyped(out.t)
                  /\ out.t.master = [t.master EXCEPT ![r.key] = new]
             /\ new \in ColumnsRow /\ new # Absent
<1> DEFINE out == MasterRow(t, r)
           old == t.master[r.key]
           merged == Merged(old, r.vals)
           new == IF old = Absent THEN r.vals ELSE merged
           w == [t.master EXCEPT ![r.key] = new]
           set == [t EXCEPT !.master = w]
           ok == r.valid /\ Known(t, r.refs)
<1>1. merged = [c \in Columns |-> IF r.vals[c] # Absent THEN r.vals[c] ELSE old[c]] BY DEF Merged
<1> HIDE DEF merged
<1>2. ~ok => out = Refused BY DEF MasterRow
<1>3. ok => out = Taken(IF old = Absent THEN "created" ELSE "updated", set) BY <1>1 DEF MasterRow
<1>4. old # Absent => old \in ColumnsRow BY DEF MasterTyped
<1> HIDE DEF out, ok
<1>5. new \in ColumnsRow BY <1>4, MergedTyped DEF merged
<1>6. new # Absent BY <1>5, ScopesAssumption
<1>7. w \in [MasterKeys -> ColumnsRow \cup {Absent}]
  <2> HIDE DEF new
  <2> QED BY <1>5 DEF MasterTyped
<1> HIDE DEF w
<1>8. Only(t, set, {"master"}) /\ set.master = w BY OneTable DEF TableNames
<1> HIDE DEF set
<1>9. MasterTyped(set) BY <1>7, <1>8 DEF MasterTyped
<1>10. ok => out # Refused /\ out.t = set BY <1>3, TakenFields
<1> QED BY <1>2, <1>5, <1>6, <1>8, <1>9, <1>10 DEF out, ok, w, merged

(* A row of master data again. *)
LEMMA MasterAgain ==
  ASSUME NEW s, NEW u, NEW v, s = [f \in TableNames |-> s[f]], v = [f \in TableNames |-> v[f]],
         MasterTyped(s), MasterTyped(u), MasterTyped(v),
         NEW r, r.key \in MasterKeys, r.refs \subseteq MasterKeys, r.vals \in ColumnsRow,
         MasterRow(s, r) # Refused,
         MasterGrows(MasterRow(s, r).t.master, u.master), MasterSim(s.master, u.master, v.master)
  PROVE  /\ MasterGrows(s.master, MasterRow(s, r).t.master)
         /\ MasterRow(v, r) # Refused /\ Only(v, MasterRow(v, r).t, {"master"}) /\ MasterTyped(MasterRow(v, r).t)
         /\ MasterSim(MasterRow(s, r).t.master, u.master, MasterRow(v, r).t.master)
<1> DEFINE k == r.key
           New(old) == IF old = Absent THEN r.vals ELSE Merged(old, r.vals)
           d == s.master
           d2 == MasterRow(s, r).t.master
           e == u.master
           f == v.master
           f2 == MasterRow(v, r).t.master
<1>a. ASSUME NEW t, t = [g \in TableNames |-> t[g]], MasterTyped(t)
      PROVE  /\ MasterRow(t, r) # Refused => r.valid /\ Known(t, r.refs)
             /\ r.valid /\ Known(t, r.refs) =>
                  /\ MasterRow(t, r) # Refused /\ Only(t, MasterRow(t, r).t, {"master"})
                  /\ MasterTyped(MasterRow(t, r).t)
                  /\ MasterRow(t, r).t.master = [t.master EXCEPT ![k] = New(t.master[k])]
             /\ New(t.master[k]) \in ColumnsRow /\ New(t.master[k]) # Absent
  BY <1>a, MasterUploadWrites
<1>1. r.valid /\ Known(s, r.refs) /\ d2 = [d EXCEPT ![k] = New(d[k])] /\ New(d[k]) # Absent BY <1>a
<1>2. DOMAIN d = MasterKeys /\ DOMAIN f = MasterKeys BY DEF MasterTyped
<1>3. MasterGrows(d2, e) /\ MasterSim(d, e, f) OBVIOUS
<1>4. MasterGrows(d, d2) BY <1>1, <1>2 DEF MasterGrows
<1>5. MasterGrows(d, e) BY <1>3, <1>4 DEF MasterGrows
<1>6. Known(v, r.refs)
  <2>1. \A x \in r.refs : x \in MasterKeys /\ d[x] # Absent BY <1>1 DEF Known
  <2>2. \A x \in r.refs : f[x] # Absent BY <1>3, <1>5, <2>1 DEF MasterGrows, MasterSim
  <2> QED BY <2>2 DEF Known
<1>7. /\ MasterRow(v, r) # Refused /\ Only(v, MasterRow(v, r).t, {"master"}) /\ MasterTyped(MasterRow(v, r).t)
      /\ f2 = [f EXCEPT ![k] = New(f[k])] /\ New(f[k]) # Absent
  BY <1>1, <1>6, <1>a
<1>8. k \in MasterKeys OBVIOUS
<1> HIDE DEF k, d, d2, e, f, f2
<1>9. MasterSim(d2, e, f2)
  <2> SUFFICES ASSUME NEW x \in MasterKeys
               PROVE  /\ e[x] = Absent <=> f2[x] = Absent
                      /\ e[x] # Absent => \A c \in Columns :
                           f2[x][c] = e[x][c] \/ (d2[x] # Absent /\ f2[x][c] = d2[x][c])
    BY DEF MasterSim
  <2>1. CASE x # k
    <3>1. d2[x] = d[x] /\ f2[x] = f[x] BY <1>1, <1>2, <1>7, <2>1
    <3> QED BY <1>3, <3>1 DEF MasterSim
  <2>2. CASE x = k
    <3>1. d2[x] = New(d[x]) /\ f2[x] = New(f[x]) BY <1>1, <1>2, <1>7, <1>8, <2>2
    <3>2. d2[x] # Absent /\ f2[x] # Absent BY <1>1, <1>7, <2>2, <3>1
    <3>3. e[x] # Absent /\ f[x] # Absent BY <1>3, <3>2 DEF MasterGrows, MasterSim
    <3>4. f2[x] = Merged(f[x], r.vals) BY <3>1, <3>3
    <3>5. ASSUME NEW c \in Columns PROVE f2[x][c] = e[x][c] \/ f2[x][c] = d2[x][c]
      <4>1. f2[x][c] = IF r.vals[c] # Absent THEN r.vals[c] ELSE f[x][c] BY <3>4 DEF Merged
      <4>2. f[x][c] = e[x][c] \/ (d[x] # Absent /\ f[x][c] = d[x][c]) BY <1>3, <3>3 DEF MasterSim
      <4>3. d[x] # Absent => d2[x][c] = IF r.vals[c] # Absent THEN r.vals[c] ELSE d[x][c]
        BY <3>1 DEF Merged
      <4>4. d[x] = Absent => d2[x] = r.vals BY <3>1
      <4> QED BY <4>1, <4>2, <4>3, <4>4
    <3> QED BY <3>2, <3>3, <3>5
  <2> QED BY <2>1, <2>2
<1> QED BY <1>4, <1>7, <1>9 DEF d, d2, e, f, f2

(* With nothing to tell the runs apart, nothing changed. *)
LEMMA MasterUnchanged ==
  ASSUME NEW e, NEW f, e \in [MasterKeys -> ColumnsRow \cup {Absent}],
         f \in [MasterKeys -> ColumnsRow \cup {Absent}], MasterSim(e, e, f)
  PROVE  f = e
<1>1. ASSUME NEW k \in MasterKeys PROVE f[k] = e[k]
  <2>1. CASE e[k] = Absent BY <2>1 DEF MasterSim
  <2>2. CASE e[k] # Absent
    <3>1. f[k] # Absent /\ \A c \in Columns : f[k][c] = e[k][c] BY <2>2 DEF MasterSim
    <3>2. f[k] \in ColumnsRow /\ e[k] \in ColumnsRow BY <2>2, <3>1
    <3> QED BY <3>1, <3>2 DEF ColumnsRow
  <2> QED BY <2>1, <2>2
<1> QED BY <1>1

-----------------------------------------------------------------------------
(* A row of any file, the first time and again *)

Typed(t) == TablesTyped(t) /\ OrdersTyped(t)

(* The entities whose files may be sent again. *)
Repeated == Entities \ AppendEntities

(* Which table the rows of an entity write, stock apart. *)
TableOf(entity) ==
  CASE entity = "demand" -> "demand"
    [] entity = "forecast" -> "forecast"
    [] entity = "purchase_orders" -> "po"
    [] OTHER -> "master"

(* What a file brought stays there, *)
Grows(entity, s, t) ==
  /\ entity = "balances" => MoreRows(s.txns, t.txns)
  /\ entity = "transactions" => s.lots \subseteq t.lots /\ IdsOf(s.txns) \subseteq IdsOf(t.txns)
  /\ entity = "demand" => DemandGrows(s.demand, t.demand)
  /\ entity = "forecast" => DOMAIN s.forecast \subseteq DOMAIN t.forecast
  /\ entity = "purchase_orders" => OrdersGrow(s, t)
  /\ entity \in MasterEntities \cup {"purchase_orders"} => MasterGrows(s.master, t.master)

(* and v is u, with some of the cells as they were in s.                    *)
Sim(entity, s, u, v) ==
  /\ Typed(v)
  /\ entity = "balances" =>
       MoreRows(u.txns, v.txns) /\ \A b \in Buckets : v.balance[b] \in {u.balance[b], s.balance[b]}
  /\ entity = "transactions" => v = u
  /\ entity \in Repeated \ {"balances", "transactions"} => Only(u, v, {TableOf(entity)})
  /\ entity = "demand" => DemandSim(s.demand, u.demand, v.demand)
  /\ entity = "forecast" => ForecastSim(s.forecast, u.forecast, v.forecast)
  /\ entity = "purchase_orders" => OrdersSim(s, u, v)
  /\ entity \in MasterEntities => MasterSim(s.master, u.master, v.master)

(* The handler of each entity. *)
LEMMA IngestRowIs ==
  ASSUME NEW t, NEW r, NEW entity
  PROVE  /\ entity = "balances" => IngestRow(t, entity, r) = BalanceRow(t, r)
         /\ entity = "transactions" => IngestRow(t, entity, r) = TransactionRow(t, r)
         /\ entity = "demand" => IngestRow(t, entity, r) = DemandUpload(t, r)
         /\ entity = "forecast" => IngestRow(t, entity, r) = ForecastUpload(t, r)
         /\ entity = "purchase_orders" => IngestRow(t, entity, r) = PurchaseOrderRow(t, r)
         /\ entity \in MasterEntities => IngestRow(t, entity, r) = MasterRow(t, r)
         /\ entity \in AppendEntities => IngestRow(t, entity, r) = AppendRow(t, entity, r)
BY DEF IngestRow, MasterEntities, AppendEntities

(* The entities, those that only append apart. *)
LEMMA EntityCases ==
  /\ Entities = {"balances", "transactions", "demand", "forecast", "purchase_orders"}
                  \cup MasterEntities \cup AppendEntities
  /\ Repeated = {"balances", "transactions", "demand", "forecast", "purchase_orders"} \cup MasterEntities
  /\ \A e \in MasterEntities :
       e \notin {"balances", "transactions", "demand", "forecast", "purchase_orders"} \cup AppendEntities
  /\ \A e \in AppendEntities :
       e \notin {"balances", "transactions", "demand", "forecast", "purchase_orders"}
BY DEF Entities, MasterEntities, AppendEntities, Repeated

(* The tables stay typed when few of them change. *)
LEMMA TypedTables ==
  ASSUME NEW t, Typed(t), NEW t2, NEW S, Only(t, t2, S), OrdersTyped(t2),
         "balance" \in S \/ "txns" \in S => Listed(t2.txns) /\ StockTyped(t2),
         "transfers" \notin S, "demand" \in S => DemandTyped(t2),
         "forecast" \in S => ForecastTyped(t2), "master" \in S => MasterTyped(t2)
  PROVE  Typed(t2)
<1>1. t2 = [f \in TableNames |-> t2[f]] /\ \A f \in TableNames \ S : t2[f] = t[f] BY OnlyFields
<1>2. {"balance", "txns", "transfers", "demand", "forecast", "master"} \subseteq TableNames BY DEF TableNames
<1>3. TablesTyped(t) BY DEF Typed
<1>4. Listed(t2.txns) /\ StockTyped(t2) BY <1>1, <1>2, <1>3 DEF TablesTyped, StockTyped
<1>5. TransfersTyped(t2) BY <1>1, <1>2, <1>3 DEF TablesTyped, TransfersTyped
<1>6. DemandTyped(t2) BY <1>1, <1>2, <1>3 DEF TablesTyped, DemandTyped
<1>7. ForecastTyped(t2) BY <1>1, <1>2, <1>3 DEF TablesTyped, ForecastTyped
<1>8. MasterTyped(t2) BY <1>1, <1>2, <1>3 DEF TablesTyped, MasterTyped
<1> QED BY <1>1, <1>4, <1>5, <1>6, <1>7, <1>8 DEF Typed, TablesTyped

(* A row of demand. *)
LEMMA DemandRowOnce ==
  ASSUME NEW s, Typed(s), NEW r, DemandUpload(s, r) # Refused
  PROVE  LET s2 == DemandUpload(s, r).t
         IN  /\ Only(s, s2, {"demand"}) /\ DemandTyped(s2) /\ ~(r.qty < 0)
             /\ Len(s.demand) \in Nat /\ Len(s2.demand) \in Nat /\ DemandGrows(s.demand, s2.demand)
             /\ DemandWrites(s.demand, s2.demand, PeriodPlace(s.demand, r), PeriodRow(r))
<1> DEFINE out == DemandUpload(s, r)
<1>1. ~(r.qty < 0) BY DEF DemandUpload
<1>2. s = [f \in TableNames |-> s[f]] /\ DemandTyped(s) BY DEF Typed, TablesTyped
<1>3. /\ Only(s, out.t, {"demand"}) /\ DemandTyped(out.t) /\ Len(s.demand) \in Nat
      /\ DemandWrites(s.demand, out.t.demand, PeriodPlace(s.demand, r), PeriodRow(r))
  BY <1>1, <1>2, DemandUploadWrites
<1> HIDE DEF out
<1>4. DemandGrows(s.demand, out.t.demand) /\ Len(out.t.demand) \in Nat BY <1>3, DemandGrown
<1> QED BY <1>1, <1>3, <1>4 DEF out

(* A row of the forecast. *)
LEMMA ForecastRowOnce ==
  ASSUME NEW s, Typed(s), NEW r, ForecastUpload(s, r) # Refused
  PROVE  LET s2 == ForecastUpload(s, r).t
         IN  /\ Only(s, s2, {"forecast"}) /\ ForecastTyped(s2)
             /\ DOMAIN s.forecast \subseteq DOMAIN s2.forecast
<1> DEFINE out == ForecastUpload(s, r)
<1>1. s = [f \in TableNames |-> s[f]] BY DEF Typed, TablesTyped
<1>2. Only(s, out.t, {"forecast"}) /\ out.t.forecast = ForecastSet(s.forecast, r)
  BY <1>1, ForecastUploadWrites
<1> HIDE DEF out
<1>3. ForecastTyped(out.t) /\ DOMAIN s.forecast \subseteq DOMAIN out.t.forecast
  BY <1>2 DEF ForecastTyped, ForecastSet
<1> QED BY <1>2, <1>3 DEF out

(* A row of master data. *)
LEMMA MasterRowOnce ==
  ASSUME NEW s, Typed(s), NEW r, MasterRow(s, r) # Refused,
         r.key \in MasterKeys, r.refs \subseteq MasterKeys, r.vals \in ColumnsRow
  PROVE  LET s2 == MasterRow(s, r).t
         IN  /\ Only(s, s2, {"master"}) /\ MasterTyped(s2) /\ MasterGrows(s.master, s2.master)
<1> DEFINE out == MasterRow(s, r)
           old == s.master[r.key]
           new == IF old = Absent THEN r.vals ELSE Merged(old, r.vals)
<1>1. s = [f \in TableNames |-> s[f]] /\ MasterTyped(s) BY DEF Typed, TablesTyped
<1>2. /\ Only(s, out.t, {"master"}) /\ MasterTyped(out.t)
      /\ out.t.master = [s.master EXCEPT ![r.key] = new] /\ new # Absent
  BY <1>1, MasterUploadWrites
<1> HIDE DEF out, new
<1>3. MasterGrows(s.master, out.t.master) BY <1>1, <1>2 DEF MasterGrows, MasterTyped
<1> QED BY <1>2, <1>3 DEF out

(* A row leaves the tables typed, and what was there.                       *)
LEMMA RowOnce ==
  ASSUME NEW s, Typed(s), NEW entity \in Entities, NEW r, SoundRow(entity, r),
         IngestRow(s, entity, r) # Refused
  PROVE  /\ Typed(IngestRow(s, entity, r).t)
         /\ entity \in Repeated => Grows(entity, s, IngestRow(s, entity, r).t)
<1> DEFINE out == IngestRow(s, entity, r)
           s2 == out.t
<1>1. s = [f \in TableNames |-> s[f]] /\ Listed(s.txns) /\ StockTyped(s) /\ OrdersTyped(s)
  BY DEF Typed, TablesTyped
<1>2. OrdersTyped(s2) BY <1>1, IngestRowOrders DEF SoundRow, RowOrders
<1>3. CASE entity = "balances"
  <2>1. out = BalanceRow(s, r) BY <1>3, IngestRowIs
  <2>2. StockStep(s, s2, StockTables) BY <1>1, <1>3, <2>1, BalanceRowSets
  <2> HIDE DEF out
  <2>3. Typed(s2) BY <1>2, <2>2, TypedTables DEF StockStep, StockTables
  <2>4. Grows(entity, s, s2) BY <1>3, <2>2 DEF Grows, StockStep, MasterEntities
  <2> QED BY <2>3, <2>4 DEF out
<1>4. CASE entity = "transactions"
  <2>1. out = TransactionRow(s, r) BY <1>4, IngestRowIs
  <2>2. /\ StockStep(s, s2, StockTables) /\ s.lots \subseteq s2.lots
        /\ IdsOf(s.txns) \subseteq IdsOf(s2.txns)
    BY <1>1, <1>4, <2>1, TransactionRowPosts
  <2> HIDE DEF out
  <2>3. Typed(s2) BY <1>2, <2>2, TypedTables DEF StockStep, StockTables
  <2>4. Grows(entity, s, s2) BY <1>4, <2>2 DEF Grows, MasterEntities
  <2> QED BY <2>3, <2>4 DEF out
<1>5. CASE entity = "demand"
  <2>1. out = DemandUpload(s, r) BY <1>5, IngestRowIs
  <2>2. Only(s, s2, {"demand"}) /\ DemandTyped(s2) /\ DemandGrows(s.demand, s2.demand)
    BY <2>1, DemandRowOnce
  <2> HIDE DEF out
  <2>3. Typed(s2) BY <1>2, <2>2, TypedTables
  <2>4. Grows(entity, s, s2) BY <1>5, <2>2 DEF Grows, MasterEntities
  <2> QED BY <2>3, <2>4 DEF out
<1>6. CASE entity = "forecast"
  <2>1. out = ForecastUpload(s, r) BY <1>6, IngestRowIs
  <2>2. Only(s, s2, {"forecast"}) /\ ForecastTyped(s2) /\ DOMAIN s.forecast \subseteq DOMAIN s2.forecast
    BY <2>1, ForecastRowOnce
  <2> HIDE DEF out
  <2>3. Typed(s2) BY <1>2, <2>2, TypedTables
  <2>4. Grows(entity, s, s2) BY <1>6, <2>2 DEF Grows, MasterEntities
  <2> QED BY <2>3, <2>4 DEF out
<1>7. CASE entity = "purchase_orders"
  <2>1. out = PurchaseOrderRow(s, r) BY <1>7, IngestRowIs
  <2>2. SoundOrder(r) BY <1>7 DEF SoundRow
  <2>3. Only(s, s2, {"po"}) BY <1>1, <2>1, <2>2, OrderUploadWrites
  <2>4. OrdersGrow(s, s2) BY <1>1, <2>1, <2>2, OrdersGrown
  <2> HIDE DEF out
  <2>5. Typed(s2) BY <1>2, <2>3, TypedTables
  <2>6. s2.master = s.master BY <2>3 DEF Only, TableNames
  <2>7. Grows(entity, s, s2) BY <1>7, <2>4, <2>6 DEF Grows, MasterGrows
  <2> QED BY <2>5, <2>7 DEF out
<1>8. CASE entity \in MasterEntities
  <2>1. out = MasterRow(s, r) BY <1>8, IngestRowIs
  <2>2. r.key \in MasterKeys /\ r.refs \subseteq MasterKeys /\ r.vals \in ColumnsRow BY <1>8 DEF SoundRow
  <2>3. Only(s, s2, {"master"}) /\ MasterTyped(s2) /\ MasterGrows(s.master, s2.master)
    BY <2>1, <2>2, MasterRowOnce
  <2> HIDE DEF out
  <2>4. Typed(s2) BY <1>2, <2>3, TypedTables
  <2>5. Grows(entity, s, s2) BY <1>8, <2>3, EntityCases DEF Grows
  <2> QED BY <2>4, <2>5 DEF out
<1>9. CASE entity \in AppendEntities
  <2>1. out = AppendRow(s, entity, r) BY <1>9, IngestRowIs
  <2> DEFINE w == Append(s.loads, <<entity, r.refs>>)
             set == [s EXCEPT !.loads = w]
  <2>2. out = Taken("created", set) BY <2>1 DEF AppendRow
  <2>3. s2 = set BY <2>2, TakenFields
  <2> HIDE DEF out, w
  <2>4. Only(s, s2, {"loads"}) BY <1>1, <2>3, OneTable DEF TableNames
  <2>5. Typed(s2) BY <1>2, <2>4, TypedTables
  <2> QED BY <1>9, <2>5 DEF out, Repeated
<1> QED BY <1>3, <1>4, <1>5, <1>6, <1>7, <1>8, <1>9, EntityCases

(* What typed tables hold. *)
LEMMA TypedFields ==
  ASSUME NEW t, Typed(t)
  PROVE  /\ t = [f \in TableNames |-> t[f]] /\ Listed(t.txns) /\ StockTyped(t) /\ OrdersTyped(t)
         /\ DemandTyped(t) /\ ForecastTyped(t) /\ MasterTyped(t)
         /\ Len(t.demand) \in Nat /\ DOMAIN t.demand = 1..Len(t.demand)
<1>1. /\ t = [f \in TableNames |-> t[f]] /\ Listed(t.txns) /\ StockTyped(t) /\ OrdersTyped(t)
      /\ DemandTyped(t) /\ ForecastTyped(t) /\ MasterTyped(t)
  BY DEF Typed, TablesTyped
<1>2. Len(t.demand) \in Nat /\ DOMAIN t.demand = 1..Len(t.demand)
  BY <1>1, Appended DEF DemandTyped
<1> QED BY <1>1, <1>2

(* What is there is there, and stays over several rows. *)
LEMMA GrowsSelf ==
  ASSUME NEW t, Typed(t), NEW entity
  PROVE  Grows(entity, t, t)
<1>1. MoreRows(t.txns, t.txns) BY DEF MoreRows
<1>2. DemandGrows(t.demand, t.demand) BY TypedFields DEF DemandGrows, SamePeriod
<1>3. OrdersGrow(t, t)
  <2>1. ASSUME NEW n \in PoNumbers, t.po[n] # Absent PROVE LinesGrow(t.po[n].lines, t.po[n].lines)
    <3>1. Len(t.po[n].lines) \in Nat BY <2>1, LinesOfOrders, TypedFields DEF OrderLines
    <3> QED BY <3>1 DEF LinesGrow
  <2> QED BY <2>1 DEF OrdersGrow
<1>4. MasterGrows(t.master, t.master) BY DEF MasterGrows
<1> QED BY <1>1, <1>2, <1>3, <1>4 DEF Grows

(* One after the other. *)
LEMMA GrowsTwice ==
  ASSUME NEW s, Typed(s), NEW s2, Typed(s2), NEW s3, Typed(s3), NEW entity,
         Grows(entity, s, s2), Grows(entity, s2, s3)
  PROVE  Grows(entity, s, s3)
<1>1. entity = "balances" => MoreRows(s.txns, s3.txns) BY DEF Grows, MoreRows
<1>2. entity = "transactions" => s.lots \subseteq s3.lots /\ IdsOf(s.txns) \subseteq IdsOf(s3.txns)
  BY DEF Grows
<1>3. entity = "demand" => DemandGrows(s.demand, s3.demand)
  <2>1. Len(s.demand) \in Nat /\ Len(s2.demand) \in Nat /\ Len(s3.demand) \in Nat BY TypedFields
  <2> QED BY <2>1, DemandGrowsTwice DEF Grows
<1>4. entity = "forecast" => DOMAIN s.forecast \subseteq DOMAIN s3.forecast BY DEF Grows
<1>5. entity = "purchase_orders" => OrdersGrow(s, s3)
  <2>1. OrdersTyped(s) /\ OrdersTyped(s2) /\ OrdersTyped(s3) BY TypedFields
  <2> QED BY <2>1, OrdersGrowTwice DEF Grows
<1>6. entity \in MasterEntities \cup {"purchase_orders"} => MasterGrows(s.master, s3.master)
  BY DEF Grows, MasterGrows
<1> QED BY <1>1, <1>2, <1>3, <1>4, <1>5, <1>6 DEF Grows

(* Before the first row nothing differs, *)
LEMMA SimStart ==
  ASSUME NEW s, NEW u, Typed(u), NEW entity
  PROVE  Sim(entity, s, u, u)
<1>1. Only(u, u, {TableOf(entity)}) BY TypedFields DEF Only
<1>2. DemandSim(s.demand, u.demand, u.demand) BY TypedFields DEF DemandSim, DemandTyped
<1>3. ForecastSim(s.forecast, u.forecast, u.forecast) BY DEF ForecastSim
<1>4. OrdersSim(s, u, u)
  <2>1. ASSUME NEW n \in PoNumbers, u.po[n] # Absent
        PROVE  /\ u.po[n] = [u.po[n] EXCEPT !.lines = u.po[n].lines]
               /\ LinesSim(OrderLines(s.po[n]), u.po[n].lines, u.po[n].lines)
    <3>1. u.po[n] \in PurchaseOrder BY <2>1, TypedFields DEF OrdersTyped
    <3>2. u.po[n] = [u.po[n] EXCEPT !.lines = u.po[n].lines] BY <3>1 DEF PurchaseOrder
    <3>3. LinesSim(OrderLines(s.po[n]), u.po[n].lines, u.po[n].lines) BY DEF LinesSim, LineSim, Between
    <3> QED BY <3>2, <3>3
  <2> QED BY <2>1 DEF OrdersSim
<1>5. MasterSim(s.master, u.master, u.master) BY DEF MasterSim
<1>6. MoreRows(u.txns, u.txns) BY DEF MoreRows
<1> QED BY <1>1, <1>2, <1>3, <1>4, <1>5, <1>6 DEF Sim

(* Where the first run left the tables as they are, the second leaves them  *)
(* so too.                                                                  *)
LEMMA SimEnd ==
  ASSUME NEW s, NEW u, Typed(u), NEW v, NEW entity \in Repeated, Sim(entity, s, u, v),
         s.balance = u.balance, s.demand = u.demand, s.forecast = u.forecast, s.po = u.po,
         s.master = u.master
  PROVE  IF entity = "balances" THEN v.balance = u.balance ELSE v = u
<1>1. Typed(v) BY DEF Sim
<1>2. CASE entity = "balances"
  <2>1. \A b \in Buckets : v.balance[b] = u.balance[b] BY <1>2 DEF Sim
  <2>2. v.balance \in [Buckets -> Int] /\ u.balance \in [Buckets -> Int] BY <1>1, TypedFields DEF StockTyped
  <2> QED BY <1>2, <2>1, <2>2
<1>3. CASE entity = "transactions" BY <1>3 DEF Sim
<1>a. ASSUME NEW f \in TableNames, Only(u, v, {f}), v[f] = u[f] PROVE v = u
  <2>1. u = [g \in TableNames |-> u[g]] BY TypedFields
  <2> QED BY <1>a, <2>1 DEF Only
<1>4. CASE entity = "demand"
  <2> DEFINE e == u.demand
             f == v.demand
  <2>1. DemandSim(e, e, f) BY <1>4 DEF Sim
  <2>2. DOMAIN e = 1..Len(e) /\ DOMAIN f = 1..Len(f) /\ e \in Seq(Range(e)) /\ f \in Seq(Range(f))
    BY <1>1, TypedFields DEF DemandTyped, Listed
  <2> HIDE DEF e, f
  <2>3. e = [i \in DOMAIN e |-> e[i]] /\ f = [i \in DOMAIN f |-> f[i]]
    <3> HIDE DEF Range
    <3> QED BY <2>2
  <2>4. Len(f) = Len(e) /\ \A i \in 1..Len(e) : f[i] = e[i] BY <2>1 DEF DemandSim
  <2>5. f = e BY <2>2, <2>3, <2>4
  <2>6. Only(u, v, {"demand"}) BY <1>4, EntityCases DEF Sim, TableOf
  <2>7. v.demand = u.demand BY <2>5 DEF e, f
  <2> QED BY <1>4, <1>a, <2>6, <2>7 DEF TableNames
<1>5. CASE entity = "forecast"
  <2> DEFINE e == u.forecast
             f == v.forecast
  <2>1. ForecastSim(e, e, f) BY <1>5 DEF Sim
  <2>2. e = [k \in DOMAIN e |-> e[k]] /\ f = [k \in DOMAIN f |-> f[k]] BY <1>1, TypedFields DEF ForecastTyped
  <2> HIDE DEF e, f
  <2>3. f = e BY <2>1, <2>2 DEF ForecastSim
  <2>4. Only(u, v, {"forecast"}) BY <1>5, EntityCases DEF Sim, TableOf
  <2>5. v.forecast = u.forecast BY <2>3 DEF e, f
  <2> QED BY <1>5, <1>a, <2>4, <2>5 DEF TableNames
<1>6. CASE entity = "purchase_orders"
  <2>1. OrdersSim(u, u, v) BY <1>6 DEF Sim, OrdersSim
  <2>2. v.po = u.po BY <1>1, <2>1, OrdersUnchanged, TypedFields
  <2>3. Only(u, v, {"po"}) BY <1>6, EntityCases DEF Sim, TableOf
  <2> QED BY <1>6, <1>a, <2>2, <2>3 DEF TableNames
<1>7. CASE entity \in MasterEntities
  <2>1. MasterSim(u.master, u.master, v.master) BY <1>7 DEF Sim
  <2>2. v.master = u.master BY <1>1, <2>1, MasterUnchanged, TypedFields DEF MasterTyped
  <2>3. entity \notin {"balances", "transactions", "demand", "forecast", "purchase_orders"} BY <1>7, EntityCases
  <2>4. Only(u, v, {"master"}) BY <2>3 DEF Sim, TableOf
  <2> QED BY <1>a, <2>2, <2>3, <2>4 DEF TableNames
<1> QED BY <1>2, <1>3, <1>4, <1>5, <1>6, <1>7, EntityCases

(* A row again.                                                             *)
LEMMA OrderUploadSound ==
  ASSUME NEW t, OrdersTyped(t), t = [f \in TableNames |-> t[f]], NEW r, SoundOrder(r),
         PurchaseOrderRow(t, r) # Refused
  PROVE  Acceptable(t, r)
BY OrderUploadWrites

(* A row that was taken is taken again when the tables hold what came after it. *)
LEMMA RowAgain ==
  ASSUME NEW s, Typed(s), NEW u, Typed(u), NEW v, NEW entity \in Repeated, NEW r, SoundRow(entity, r),
         entity = "transactions" => r.txn # Absent,
         IngestRow(s, entity, r) # Refused,
         Grows(entity, IngestRow(s, entity, r).t, u), Sim(entity, s, u, v)
  PROVE  /\ IngestRow(v, entity, r) # Refused
         /\ Sim(entity, IngestRow(s, entity, r).t, u, IngestRow(v, entity, r).t)
<1> DEFINE out == IngestRow(s, entity, r)
           again == IngestRow(v, entity, r)
           s2 == out.t
           v2 == again.t
<1>1. Typed(v) /\ Typed(s2) /\ entity \in Entities /\ Grows(entity, s, s2)
  <2>1. entity \in Entities BY DEF Repeated
  <2>2. Typed(s2) /\ Grows(entity, s, s2) BY <2>1, RowOnce
  <2> QED BY <2>1, <2>2 DEF Sim
<1>2. Grows(entity, s, u) BY <1>1, GrowsTwice
<1>3. Grows(entity, s2, u) OBVIOUS
<1>4. again # Refused => Typed(v2) BY <1>1, RowOnce
<1>5. /\ s = [f \in TableNames |-> s[f]] /\ Listed(s.txns) /\ StockTyped(s) /\ OrdersTyped(s) /\ MasterTyped(s)
      /\ u = [f \in TableNames |-> u[f]] /\ Listed(u.txns) /\ StockTyped(u) /\ OrdersTyped(u) /\ MasterTyped(u)
      /\ v = [f \in TableNames |-> v[f]] /\ Listed(v.txns) /\ StockTyped(v) /\ OrdersTyped(v) /\ MasterTyped(v)
      /\ StockTyped(s2)
      /\ Len(s.demand) \in Nat /\ Len(u.demand) \in Nat
  BY <1>1, TypedFields
<1>a. ASSUME NEW f \in TableNames, Only(u, v, {f}), Only(v, v2, {f}) PROVE Only(u, v2, {f})
  BY <1>a DEF Only
<1>6. CASE entity = "balances"
  <2> DEFINE b == <<r.loc, r.lot, r.state>>
             q == r.qty * r.units
  <2>1. out = BalanceRow(s, r) /\ again = BalanceRow(v, r) /\ SoundRow("balances", r) BY <1>6, IngestRowIs
  <2>2. /\ StockStep(s, s2, StockTables) /\ r.qty >= 0 /\ r.units # 0
        /\ s2.balance = [s.balance EXCEPT ![b] = q]
    BY <1>5, <2>1, BalanceRowSets
  <2>3. b \in Buckets BY <1>6 DEF SoundRow
  <2>4. MoreRows(s2.txns, u.txns) BY <1>3, <1>6 DEF Grows
  <2>5. MoreRows(u.txns, v.txns) /\ \A c \in Buckets : v.balance[c] \in {u.balance[c], s.balance[c]}
    BY <1>6 DEF Sim
  <2> HIDE DEF out, again, b, q
  <2>6. s2.balance[b] = q /\ \A c \in Buckets : c # b => s2.balance[c] = s.balance[c]
    BY <1>5, <2>2, <2>3 DEF StockTyped
  <2>7. HasRowIn(v.txns, b) \/ v.balance[b] = q
    <3>1. HasRowIn(s2.txns, b) \/ q = 0 BY <1>5, <2>3, <2>6 DEF StockTyped
    <3>2. HasRowIn(s2.txns, b) => HasRowIn(v.txns, b) BY <2>3, <2>4, <2>5 DEF MoreRows
    <3>3. HasRowIn(v.txns, b) \/ v.balance[b] = 0 BY <1>5, <2>3 DEF StockTyped
    <3> QED BY <3>1, <3>2, <3>3
  <2>8. again # Refused BY <1>5, <2>1, <2>2, <2>7, BalanceRowTaken DEF b, q
  <2>9. StockStep(v, v2, StockTables) /\ v2.balance = [v.balance EXCEPT ![b] = q]
    BY <1>5, <2>1, <2>8, BalanceRowSets DEF b, q
  <2>10. v2.balance[b] = q /\ \A c \in Buckets : c # b => v2.balance[c] = v.balance[c]
    BY <1>5, <2>3, <2>9 DEF StockTyped
  <2>11. MoreRows(u.txns, v2.txns) BY <2>5, <2>9 DEF StockStep, MoreRows
  <2>12. \A c \in Buckets : v2.balance[c] \in {u.balance[c], s2.balance[c]} BY <2>5, <2>6, <2>10
  <2>13. Sim(entity, s2, u, v2) BY <1>4, <1>6, <2>8, <2>11, <2>12, EntityCases DEF Sim
  <2> QED BY <2>8, <2>13 DEF out, again
<1>7. CASE entity = "transactions"
  <2>1. out = TransactionRow(s, r) /\ again = TransactionRow(v, r) /\ SoundRow("transactions", r)
    BY <1>7, IngestRowIs
  <2>2. /\ r.type \in TxnTypes /\ r.qty >= 0 /\ r.units # 0
        /\ (r.lot = 0 \/ r.lot \in s2.lots) /\ (r.txn # Absent => r.txn \in IdsOf(s2.txns))
    BY <1>5, <2>1, TransactionRowPosts
  <2>3. s2.lots \subseteq u.lots /\ IdsOf(s2.txns) \subseteq IdsOf(u.txns) BY <1>3, <1>7 DEF Grows
  <2>4. v = u BY <1>7 DEF Sim
  <2>5. r.txn # Absent /\ r.qty \in Int BY <1>7 DEF SoundRow
  <2> HIDE DEF out, again
  <2>6. r.txn \in IdsOf(v.txns) /\ (r.lot = 0 \/ r.lot \in v.lots) BY <2>2, <2>3, <2>4, <2>5
  <2>7. again # Refused /\ v2 = v BY <1>5, <2>1, <2>2, <2>5, <2>6, TransactionRowAgain
  <2>8. Sim(entity, s2, u, v2) BY <1>1, <1>7, <2>4, <2>7, EntityCases DEF Sim
  <2> QED BY <2>7, <2>8 DEF out, again
<1>8. CASE entity = "demand"
  <2>1. out = DemandUpload(s, r) /\ again = DemandUpload(v, r) BY <1>8, IngestRowIs
  <2>2. ~(r.qty < 0) /\ DemandWrites(s.demand, s2.demand, PeriodPlace(s.demand, r), PeriodRow(r))
    BY <2>1, DemandRowOnce
  <2>3. again # Refused BY <1>1, <2>1, <2>2, DemandUploadWrites, TypedFields
  <2>4. /\ Only(v, v2, {"demand"})
        /\ DemandWrites(v.demand, v2.demand, PeriodPlace(v.demand, r), PeriodRow(r))
    BY <1>1, <2>1, <2>3, DemandRowOnce
  <2>5. DemandGrows(s2.demand, u.demand) BY <1>3, <1>8 DEF Grows
  <2>6. Only(u, v, {"demand"}) /\ DemandSim(s.demand, u.demand, v.demand) BY <1>8, EntityCases DEF Sim, TableOf
  <2> HIDE DEF out, again
  <2>7. DemandSim(s2.demand, u.demand, v2.demand) BY <1>5, <2>2, <2>4, <2>5, <2>6, DemandAgain
  <2>8. Only(u, v2, {"demand"}) BY <1>a, <2>4, <2>6 DEF TableNames
  <2>9. Sim(entity, s2, u, v2) BY <1>4, <1>8, <2>3, <2>7, <2>8, EntityCases DEF Sim, TableOf
  <2> QED BY <2>3, <2>9 DEF out, again
<1>9. CASE entity = "forecast"
  <2>1. out = ForecastUpload(s, r) /\ again = ForecastUpload(v, r) BY <1>9, IngestRowIs
  <2>2. DOMAIN s2.forecast \subseteq DOMAIN u.forecast BY <1>3, <1>9 DEF Grows
  <2>3. Only(u, v, {"forecast"}) /\ ForecastSim(s.forecast, u.forecast, v.forecast)
    BY <1>9, EntityCases DEF Sim, TableOf
  <2>a. /\ ForecastUpload(s, r) # Refused
        /\ DOMAIN ForecastUpload(s, r).t.forecast \subseteq DOMAIN u.forecast
    BY <2>1, <2>2
  <2>b. /\ ForecastUpload(v, r) # Refused /\ Only(v, ForecastUpload(v, r).t, {"forecast"})
        /\ ForecastSim(ForecastUpload(s, r).t.forecast, u.forecast, ForecastUpload(v, r).t.forecast)
    <3> HIDE DEF out, again, s2, v2
    <3> QED BY <1>5, <2>3, <2>a, ForecastAgain
  <2>4. /\ again # Refused /\ Only(v, v2, {"forecast"})
        /\ ForecastSim(s2.forecast, u.forecast, v2.forecast)
    BY <2>1, <2>b
  <2> HIDE DEF out, again
  <2>5. Only(u, v2, {"forecast"}) BY <1>a, <2>3, <2>4 DEF TableNames
  <2>6. Sim(entity, s2, u, v2) BY <1>4, <1>9, <2>4, <2>5, EntityCases DEF Sim, TableOf
  <2> QED BY <2>4, <2>6 DEF out, again
<1>10. CASE entity = "purchase_orders"
  <2>1. out = PurchaseOrderRow(s, r) /\ again = PurchaseOrderRow(v, r) BY <1>10, IngestRowIs
  <2>2. SoundOrder(r) /\ r.supplier \in MasterKeys BY <1>10 DEF SoundRow, SoundOrder
  <2>3. OrdersGrow(s2, u) /\ MasterGrows(s.master, u.master) BY <1>2, <1>3, <1>10 DEF Grows
  <2>4. Only(u, v, {"po"}) /\ OrdersSim(s, u, v) BY <1>10, EntityCases DEF Sim, TableOf
  <2>5. v.master = u.master BY <2>4 DEF Only, TableNames
  <2>6. s.master[r.supplier] # Absent BY <1>5, <2>1, <2>2, OrderUploadSound DEF Acceptable
  <2>7. u.master[r.supplier] # Absent BY <2>2, <2>3, <2>6 DEF MasterGrows
  <2>8. again # Refused /\ OrdersSim(s2, u, v2) /\ Only(v, v2, {"po"})
    BY <1>5, <2>1, <2>2, <2>3, <2>4, <2>5, <2>7, OrdersAgain
  <2> HIDE DEF out, again
  <2>9. Only(u, v2, {"po"}) BY <1>a, <2>4, <2>8 DEF TableNames
  <2>10. Sim(entity, s2, u, v2) BY <1>4, <1>10, <2>8, <2>9, EntityCases DEF Sim, TableOf
  <2> QED BY <2>8, <2>10 DEF out, again
<1>11. CASE entity \in MasterEntities
  <2>1. out = MasterRow(s, r) /\ again = MasterRow(v, r) BY <1>11, IngestRowIs
  <2>2. r.key \in MasterKeys /\ r.refs \subseteq MasterKeys /\ r.vals \in ColumnsRow BY <1>11 DEF SoundRow
  <2>3. MasterGrows(s2.master, u.master) BY <1>3, <1>11 DEF Grows
  <2>4. entity \notin {"balances", "transactions", "demand", "forecast", "purchase_orders"} BY <1>11, EntityCases
  <2>5. Only(u, v, {"master"}) /\ MasterSim(s.master, u.master, v.master)
    BY <1>11, <2>4, EntityCases DEF Sim, TableOf
  <2>6. /\ again # Refused /\ Only(v, v2, {"master"}) /\ MasterSim(s2.master, u.master, v2.master)
    BY <1>5, <2>1, <2>2, <2>3, <2>5, MasterAgain
  <2> HIDE DEF out, again
  <2>7. Only(u, v2, {"master"}) BY <1>a, <2>5, <2>6 DEF TableNames
  <2>8. Sim(entity, s2, u, v2) BY <1>4, <1>11, <2>4, <2>6, <2>7 DEF Sim, TableOf
  <2> QED BY <2>6, <2>8 DEF out, again
<1> QED BY <1>6, <1>7, <1>8, <1>9, <1>10, <1>11, EntityCases

-----------------------------------------------------------------------------
(* A file, the first time and again *)

(* g lists what the loop over the rows of a file goes through. *)
Runs(g, t, file) ==
  /\ g[0] = Parsed(t, file)
  /\ \A i \in 1..Len(file.rows) : g[i] = Step(g[i-1], file.rows[i])

(* Rows without a bad field are of the right types. *)
SoundRows(file) == \A i \in DOMAIN file.rows : file.rows[i].bad = 0 => SoundRow(file.entity, file.rows[i])

(* The rows of a file are numbered. *)
LEMMA RowsOf ==
  ASSUME NEW file, SoundFile(file)
  PROVE  /\ file.entity \in Entities /\ file.rows \in Seq(Range(file.rows))
         /\ Len(file.rows) \in Nat /\ DOMAIN file.rows = 1..Len(file.rows)
         /\ \A i \in 1..Len(file.rows) : file.rows[i].bad \in Nat
         /\ BadFields(file.rows) \in Nat
         /\ \A i \in 1..Len(file.rows) : file.rows[i].bad <= BadFields(file.rows)
<1> DEFINE rows == file.rows
<1>1. file.entity \in Entities /\ rows \in Seq(Range(rows)) /\ \A i \in DOMAIN rows : rows[i].bad \in Nat
  BY DEF SoundFile
<1> HIDE DEF rows
<1>2. Len(rows) \in Nat /\ DOMAIN rows = 1..Len(rows)
  <2> HIDE DEF Range
  <2> QED BY <1>1
<1>3. BadFields(rows) \in Nat /\ \A i \in 1..Len(rows) : rows[i].bad <= BadFields(rows)
  BY <1>1, <1>2, BadFieldsFound
<1> QED BY <1>1, <1>2, <1>3 DEF rows

(* Every file has a run. *)
LEMMA IngestRuns ==
  ASSUME NEW t, NEW file, SoundFile(file)
  PROVE  \E g : Runs(g, t, file) /\ Ingest(t, file) = g[Len(file.rows)]
<1> DEFINE base == Parsed(t, file)
           rows == file.rows
<1>1. Ingest(t, file) = Loads!Fold(base, rows)
  BY DEF Ingest, Loads!Fold, Loads!FoldLeft, Loads!MapThenFoldSet, Loads!Max,
         FoldLeft, MapThenFoldSet, Max
<1>2. rows \in Seq(Range(rows)) BY RowsOf
<1> HIDE DEF base, rows
<1>3. PICK g : Loads!Trace(g, base, rows) /\ Loads!Fold(base, rows) = g[Len(rows)] BY <1>2, Loads!FoldTrace
<1>4. g[0] = base /\ \A i \in 1..Len(rows) : g[i] = Step(g[i-1], rows[i]) BY <1>3 DEF Loads!Trace
<1>5. Runs(g, t, file) BY <1>4 DEF Runs, base, rows
<1> QED BY <1>1, <1>3, <1>5 DEF rows

(* The tables stay typed, and errors stay errors. *)
LEMMA RunTyped ==
  ASSUME NEW t, Typed(t), NEW file, SoundFile(file), SoundRows(file), NEW g, Runs(g, t, file)
  PROVE  \A i \in 0..Len(file.rows) :
           /\ DOMAIN g[i] = AccFields /\ g[i].entity = file.entity /\ Typed(g[i].t)
           /\ g[i].errors \in Nat /\ BadFields(file.rows) <= g[i].errors
<1> DEFINE n == Len(file.rows)
           Ok(acc) == /\ DOMAIN acc = AccFields /\ acc.entity = file.entity /\ Typed(acc.t)
                      /\ acc.errors \in Nat /\ BadFields(file.rows) <= acc.errors
           Bad == {i \in 0..n : ~Ok(g[i])}
<1>1. n \in Nat BY RowsOf
<1>2. Ok(g[0])
  <2>1. BadFields(file.rows) \in Nat BY RowsOf
  <2> QED BY <2>1, ParsedFields DEF Runs
<1>3. ASSUME NEW i \in 1..n, Ok(g[i-1]) PROVE Ok(g[i])
  <2> DEFINE r == file.rows[i]
             acc == g[i-1]
             out == IngestRow(acc.t, acc.entity, r)
             next == Step(acc, r)
  <2>1. g[i] = next BY DEF Runs
  <2>2. file.entity \in Entities /\ r.bad \in Nat /\ (r.bad = 0 => SoundRow(file.entity, r))
    BY RowsOf DEF SoundRows
  <2>3. Ok(acc) BY <1>3
  <2> HIDE DEF r, acc
  <2>4. /\ DOMAIN next = AccFields /\ next.entity = acc.entity
        /\ next.t = acc.t \/ (~(r.bad > 0) /\ out # Refused /\ next.t = out.t)
        /\ next.errors = acc.errors \/ next.errors = acc.errors + 1
    BY <2>3, StepCases
  <2>5. ASSUME ~(r.bad > 0), out # Refused PROVE Typed(out.t)
    <3>1. SoundRow(file.entity, r) BY <2>2, <2>5
    <3> QED BY <2>2, <2>3, <2>5, <3>1, RowOnce
  <2>6. BadFields(file.rows) \in Nat BY RowsOf
  <2> HIDE DEF out, next
  <2>7. next.errors \in Nat /\ BadFields(file.rows) <= next.errors BY <2>3, <2>4, <2>6
  <2>8. Ok(next) BY <2>3, <2>4, <2>5, <2>7
  <2> QED BY <2>1, <2>8
<1> HIDE DEF n, Ok
<1>4. Bad = {}
  <2>1. SUFFICES ASSUME Bad # {} PROVE FALSE OBVIOUS
  <2>2. PICK i \in Bad : \A k \in Bad : i <= k
    <3>1. Bad \subseteq Nat BY <1>1
    <3> HIDE DEF Bad
    <3> QED BY <2>1, <3>1, LeastNat
  <2>3. i # 0 BY <2>2, <1>2
  <2>4. i \in 1..n /\ i-1 \in 0..n /\ ~(i <= i-1) BY <1>1, <2>2, <2>3
  <2>5. Ok(g[i-1]) BY <2>4, <2>2
  <2> QED BY <2>2, <2>4, <2>5, <1>3
<1> QED BY <1>4 DEF n, Ok

(* A file leaves the tables typed. *)
LEMMA IngestTyped ==
  ASSUME NEW t, Typed(t), NEW file, SoundFile(file), SoundRows(file)
  PROVE  DOMAIN Ingest(t, file) = AccFields /\ Typed(Ingest(t, file).t)
<1>1. PICK g : Runs(g, t, file) /\ Ingest(t, file) = g[Len(file.rows)] BY IngestRuns
<1>2. Len(file.rows) \in 0..Len(file.rows) BY RowsOf
<1> QED BY <1>1, <1>2, RunTyped

(* In a file without an error every row is taken, *)
LEMMA RunClean ==
  ASSUME NEW t, Typed(t), NEW file, SoundFile(file), SoundRows(file), NEW g, Runs(g, t, file),
         g[Len(file.rows)].errors = 0
  PROVE  \A i \in 1..Len(file.rows) :
           /\ file.rows[i].bad = 0 /\ SoundRow(file.entity, file.rows[i])
           /\ g[i-1].errors = 0
           /\ IngestRow(g[i-1].t, file.entity, file.rows[i]) # Refused
           /\ g[i].t = IngestRow(g[i-1].t, file.entity, file.rows[i]).t
<1> DEFINE n == Len(file.rows)
<1>1. n \in Nat /\ n \in 0..n /\ BadFields(file.rows) = 0
  BY RowsOf, RunTyped
<1>2. ASSUME NEW i \in 1..n
      PROVE  /\ file.rows[i].bad = 0 /\ SoundRow(file.entity, file.rows[i])
             /\ \/ /\ IngestRow(g[i-1].t, file.entity, file.rows[i]) = Refused
                   /\ g[i].errors = g[i-1].errors + 1
                \/ /\ IngestRow(g[i-1].t, file.entity, file.rows[i]) # Refused
                   /\ g[i].t = IngestRow(g[i-1].t, file.entity, file.rows[i]).t
                   /\ g[i].errors = g[i-1].errors
  <2> DEFINE r == file.rows[i]
             acc == g[i-1]
  <2>1. r.bad = 0 /\ SoundRow(file.entity, r) BY <1>1, RowsOf DEF SoundRows
  <2>2. i-1 \in 0..n BY <1>1
  <2>3. g[i] = Step(acc, r) BY DEF Runs
  <2>4. DOMAIN acc = AccFields /\ acc.entity = file.entity BY <2>2, RunTyped
  <2>5. ~(r.bad > 0) BY <2>1
  <2> HIDE DEF acc, r
  <2>6. \/ /\ IngestRow(acc.t, acc.entity, r) = Refused /\ Step(acc, r).errors = acc.errors + 1
        \/ /\ IngestRow(acc.t, acc.entity, r) # Refused /\ Step(acc, r).t = IngestRow(acc.t, acc.entity, r).t
           /\ Step(acc, r).errors = acc.errors
    BY <2>4, <2>5, StepCases
  <2>7. \/ /\ IngestRow(acc.t, file.entity, r) = Refused /\ g[i].errors = acc.errors + 1
        \/ /\ IngestRow(acc.t, file.entity, r) # Refused /\ g[i].t = IngestRow(acc.t, file.entity, r).t
           /\ g[i].errors = acc.errors
    BY <2>3, <2>4, <2>6
  <2> QED BY <2>1, <2>7 DEF acc, r
<1>3. \A i \in 0..n : g[i].errors \in Nat BY RunTyped
<1>4. ASSUME NEW i \in 0..n PROVE g[i].errors = 0
  <2> DEFINE Clean == {k \in i..n : g[k].errors = 0}
  <2>1. SUFFICES ASSUME g[i].errors # 0 PROVE FALSE OBVIOUS
  <2>2. n \in Clean BY <1>1
  <2>3. PICK k \in Clean : \A j \in Clean : k <= j
    <3>1. Clean \subseteq Nat BY <1>1
    <3> HIDE DEF Clean
    <3> QED BY <2>2, <3>1, LeastNat
  <2>4. k # i BY <2>1, <2>3
  <2>5. k \in 1..n /\ k-1 \in i..n /\ k-1 \in 0..n /\ ~(k <= k-1) BY <1>1, <2>3, <2>4
  <2>6. g[k].errors = g[k-1].errors \/ g[k].errors = g[k-1].errors + 1 BY <1>2, <2>5
  <2>7. g[k-1].errors # 0 BY <2>3, <2>5
  <2>8. g[k-1].errors \in Nat BY <1>3, <2>5
  <2>9. g[k].errors = 0 BY <2>3
  <2> QED BY <2>6, <2>7, <2>8, <2>9
<1>5. ASSUME NEW i \in 1..n
      PROVE  /\ g[i-1].errors = 0
             /\ IngestRow(g[i-1].t, file.entity, file.rows[i]) # Refused
             /\ g[i].t = IngestRow(g[i-1].t, file.entity, file.rows[i]).t
  <2>1. i-1 \in 0..n /\ i \in 0..n BY <1>1
  <2>2. g[i-1].errors = 0 /\ g[i].errors = 0 BY <1>4, <2>1
  <2> QED BY <1>2, <2>2
<1> QED BY <1>2, <1>5

(* and what is there stays. *)
LEMMA RunGrows ==
  ASSUME NEW t, Typed(t), NEW file, SoundFile(file), SoundRows(file), file.entity \in Repeated,
         NEW g, Runs(g, t, file), g[Len(file.rows)].errors = 0
  PROVE  \A i \in 0..Len(file.rows) : Grows(file.entity, g[i].t, g[Len(file.rows)].t)
<1> DEFINE n == Len(file.rows)
<1>1. n \in Nat BY RowsOf
<1>2. \A i \in 0..n : Typed(g[i].t) BY RunTyped
<1>3. ASSUME NEW i \in 1..n PROVE Grows(file.entity, g[i-1].t, g[i].t)
  <2>1. /\ SoundRow(file.entity, file.rows[i])
        /\ IngestRow(g[i-1].t, file.entity, file.rows[i]) # Refused
        /\ g[i].t = IngestRow(g[i-1].t, file.entity, file.rows[i]).t
    BY RunClean
  <2>2. Typed(g[i-1].t) BY <1>1, <1>2
  <2>3. file.entity \in Entities BY DEF Repeated
  <2> QED BY <2>1, <2>2, <2>3, RowOnce
<1>4. ASSUME NEW i \in 0..n PROVE Grows(file.entity, g[i].t, g[n].t)
  <2> DEFINE Bad == {k \in i..n : ~Grows(file.entity, g[i].t, g[k].t)}
  <2>1. SUFFICES ASSUME n \in Bad PROVE FALSE BY <1>1
  <2>2. PICK k \in Bad : \A j \in Bad : k <= j
    <3>1. Bad \subseteq Nat BY <1>1
    <3> HIDE DEF Bad
    <3> QED BY <2>1, <3>1, LeastNat
  <2>3. k # i BY <1>2, <2>2, GrowsSelf
  <2>4. k \in 1..n /\ k \in 0..n /\ k-1 \in i..n /\ k-1 \in 0..n /\ ~(k <= k-1) BY <1>1, <2>2, <2>3
  <2>5. Grows(file.entity, g[i].t, g[k-1].t) BY <2>2, <2>4
  <2>6. Grows(file.entity, g[k-1].t, g[k].t) BY <1>3, <2>4
  <2>7. Typed(g[i].t) /\ Typed(g[k-1].t) /\ Typed(g[k].t) BY <1>2, <2>4
  <2>8. Grows(file.entity, g[i].t, g[k].t) BY <2>5, <2>6, <2>7, GrowsTwice
  <2> QED BY <2>2, <2>8
<1> QED BY <1>4

(* The tables rows of files read, those uploads only count in apart. *)
SameData(t, u) == \A f \in TableNames \ {"sync", "loads"} : t[f] = u[f]

(* What a file brought is still there when nothing but counters changed. *)
LEMMA GrowsData ==
  ASSUME NEW entity, NEW s, NEW t, Grows(entity, s, t), NEW u, SameData(t, u)
  PROVE  Grows(entity, s, u)
<1>1. /\ t.txns = u.txns /\ t.lots = u.lots /\ t.demand = u.demand /\ t.forecast = u.forecast
      /\ t.po = u.po /\ t.master = u.master
  BY DEF SameData, TableNames
<1> QED BY <1>1 DEF Grows, OrdersGrow

(* A file that went in without an error goes in again, and changes nothing. *)
LEMMA IngestAgain ==
  ASSUME NEW t, Typed(t), NEW file, SoundFile(file), SoundRows(file), Repeatable(file),
         Ingest(t, file).errors = 0, NEW u, Typed(u), SameData(Ingest(t, file).t, u)
  PROVE  /\ Ingest(u, file).errors = 0
         /\ IF file.entity = "balances" THEN Ingest(u, file).t.balance = u.balance
            ELSE Ingest(u, file).t = u
<1> DEFINE n == Len(file.rows)
           entity == file.entity
           rows == file.rows
<1>1. PICK g : Runs(g, t, file) /\ Ingest(t, file) = g[n] BY IngestRuns
<1>2. PICK h : Runs(h, u, file) /\ Ingest(u, file) = h[n] BY IngestRuns
<1>3. n \in Nat /\ n \in 0..n /\ entity \in Entities /\ DOMAIN rows = 1..n
  BY RowsOf
<1>4. entity \in Repeated BY <1>3 DEF Repeatable, Repeated
<1>5. \A i \in 0..n : Typed(g[i].t) BY <1>1, RunTyped
<1>6. \A i \in 0..n : DOMAIN h[i] = AccFields /\ h[i].entity = entity BY <1>2, RunTyped
<1>7. \A i \in 1..n : /\ rows[i].bad = 0 /\ SoundRow(entity, rows[i])
                      /\ IngestRow(g[i-1].t, entity, rows[i]) # Refused
                      /\ g[i].t = IngestRow(g[i-1].t, entity, rows[i]).t
  BY <1>1, RunClean
<1>8. \A i \in 0..n : Grows(entity, g[i].t, u)
  <2>1. \A i \in 0..n : Grows(entity, g[i].t, g[n].t) BY <1>1, <1>4, RunGrows
  <2> QED BY <1>1, <2>1, GrowsData
<1>9. BadFields(rows) = 0
  <2>1. BadFields(rows) \in Nat /\ BadFields(rows) <= g[n].errors BY <1>1, <1>3, RowsOf, RunTyped
  <2>2. g[n].errors = 0 BY <1>1
  <2> QED BY <2>1, <2>2
<1> DEFINE Ok(i) == h[i].errors = 0 /\ Sim(entity, g[i].t, u, h[i].t)
           Bad == {i \in 0..n : ~Ok(i)}
<1>10. Ok(0)
  <2>1. h[0].t = u /\ h[0].errors = 0 BY <1>2, <1>9, ParsedFields DEF Runs
  <2> QED BY <2>1, SimStart
<1>11. ASSUME NEW i \in 1..n, Ok(i-1) PROVE Ok(i)
  <2> DEFINE r == rows[i]
             acc == h[i-1]
             next == Step(acc, r)
             out == IngestRow(acc.t, entity, r)
  <2>1. i-1 \in 0..n /\ i \in 0..n BY <1>3
  <2>2. next = h[i] BY <1>2 DEF Runs
  <2>3. DOMAIN acc = AccFields /\ acc.entity = entity BY <1>6, <2>1
  <2>4. entity = "transactions" => r.txn # Absent BY <1>3 DEF Repeatable
  <2>5. /\ r.bad = 0 /\ SoundRow(entity, r) /\ IngestRow(g[i-1].t, entity, r) # Refused
        /\ g[i].t = IngestRow(g[i-1].t, entity, r).t
    BY <1>7
  <2>6. Typed(g[i-1].t) /\ Grows(entity, g[i].t, u) BY <1>5, <1>8, <2>1
  <2>7. acc.errors = 0 /\ Sim(entity, g[i-1].t, u, acc.t) BY <1>11
  <2> HIDE DEF r, acc, n, rows, entity
  <2>8. out # Refused /\ Sim(entity, g[i].t, u, out.t)
    BY <1>4, <2>4, <2>5, <2>6, <2>7, RowAgain
  <2>9. next.t = out.t /\ next.errors = acc.errors
    <3>1. ~(r.bad > 0) BY <2>5
    <3>2. IngestRow(acc.t, acc.entity, r) # Refused BY <2>3, <2>8
    <3>3. next.t = IngestRow(acc.t, acc.entity, r).t /\ next.errors = acc.errors
      BY <2>3, <3>1, <3>2, StepCases
    <3> QED BY <2>3, <3>3
  <2> HIDE DEF next, out
  <2> QED BY <2>2, <2>7, <2>8, <2>9
<1> HIDE DEF n, Ok, entity
<1>12. Bad = {}
  <2>1. SUFFICES ASSUME Bad # {} PROVE FALSE OBVIOUS
  <2>2. PICK i \in Bad : \A k \in Bad : i <= k
    <3>1. Bad \subseteq Nat BY <1>3
    <3> HIDE DEF Bad
    <3> QED BY <2>1, <3>1, LeastNat
  <2>3. i # 0 BY <2>2, <1>10
  <2>4. i \in 1..n /\ i-1 \in 0..n /\ ~(i <= i-1) BY <1>3, <2>2, <2>3
  <2>5. Ok(i-1) BY <2>4, <2>2
  <2> QED BY <2>2, <2>4, <2>5, <1>11
<1>13. h[n].errors = 0 /\ Sim(entity, g[n].t, u, h[n].t) BY <1>3, <1>12 DEF Ok
<1>14. /\ g[n].t.balance = u.balance /\ g[n].t.demand = u.demand /\ g[n].t.forecast = u.forecast
       /\ g[n].t.po = u.po /\ g[n].t.master = u.master
  BY <1>1 DEF SameData, TableNames
<1>15. IF entity = "balances" THEN h[n].t.balance = u.balance ELSE h[n].t = u
  BY <1>4, <1>13, <1>14, SimEnd
<1> QED BY <1>2, <1>13, <1>15 DEF entity, n

-----------------------------------------------------------------------------
(* Requests do not move the clock the rows of the ledger are stamped with *)

(* What a row of the ledger is, *)
LEMMA RowClock ==
  ASSUME now' = now, NEW bal, NEW r, NEW n
  PROVE  RowOf(bal, r, n)' = RowOf(bal, r, n)
BY DEF RowOf
(* what a posting does, *)
LEMMA PostClock ==
  ASSUME now' = now, NEW t, NEW r
  PROVE  PostIn(t, r)' = PostIn(t, r)
BY RowClock DEF PostIn
(* a count, *)
LEMMA CountClock ==
  ASSUME now' = now, NEW t, NEW l, NEW lot, NEW state, NEW c
  PROVE  CountIn(t, l, lot, state, c)' = CountIn(t, l, lot, state, c)
BY PostClock DEF CountIn
(* a row of a file, *)
LEMMA IngestRowClock ==
  ASSUME now' = now, NEW t, NEW entity, NEW r
  PROVE  IngestRow(t, entity, r)' = IngestRow(t, entity, r)
<1>1. BalanceRow(t, r)' = BalanceRow(t, r) BY PostClock, CountClock DEF BalanceRow
<1>2. TransactionRow(t, r)' = TransactionRow(t, r) BY PostClock, CountClock DEF TransactionRow
<1> QED BY <1>1, <1>2 DEF IngestRow
(* and its step in the loop, stay the same while the clock stands still. *)
LEMMA StepClock ==
  ASSUME now' = now, NEW acc, NEW r
  PROVE  Step(acc, r)' = Step(acc, r)
BY IngestRowClock DEF Step
(* Every file has a run, in every state. *)
LEMMA RunsExist == \A t, file : SoundFile(file) => \E g : Runs(g, t, file) /\ Ingest(t, file) = g[Len(file.rows)]
BY IngestRuns

(* In every state there is a run. *)
LEMMA RunsExistNext == (\A t, file : SoundFile(file) => \E g : Runs(g, t, file) /\ Ingest(t, file) = g[Len(file.rows)])'
BY RunsExist, PTL

(* What a file does stays the same while the clock stands still. *)
LEMMA IngestClock ==
  ASSUME now' = now, NEW t, NEW file, SoundFile(file)
  PROVE  Ingest(t, file)' = Ingest(t, file)
<1> DEFINE n == Len(file.rows)
<1>1. PICK g : Runs(g, t, file) /\ Ingest(t, file) = g[n] BY RunsExist
<1>2. PICK h : Runs(h, t, file)' /\ Ingest(t, file)' = h[n]
  BY RunsExistNext
<1>3. n \in Nat BY RowsOf
<1>4. g[0] = h[0] BY <1>1, <1>2 DEF Runs
<1>5. ASSUME NEW i \in 1..n, g[i-1] = h[i-1] PROVE g[i] = h[i]
  <2>1. g[i] = Step(g[i-1], file.rows[i]) BY <1>1 DEF Runs
  <2>2. h[i] = Step(h[i-1], file.rows[i])' BY <1>2 DEF Runs
  <2>3. Step(h[i-1], file.rows[i])' = Step(h[i-1], file.rows[i]) BY StepClock
  <2> QED BY <1>5, <2>1, <2>2, <2>3
<1> DEFINE Bad == {i \in 0..n : g[i] # h[i]}
<1> HIDE DEF n
<1>6. Bad = {}
  <2>1. SUFFICES ASSUME Bad # {} PROVE FALSE OBVIOUS
  <2>2. PICK i \in Bad : \A k \in Bad : i <= k
    <3>1. Bad \subseteq Nat BY <1>3
    <3> HIDE DEF Bad
    <3> QED BY <2>1, <3>1, LeastNat
  <2>3. i # 0 BY <2>2, <1>4
  <2>4. i \in 1..n /\ i-1 \in 0..n /\ ~(i <= i-1) BY <1>3, <2>2, <2>3
  <2>5. g[i-1] = h[i-1] BY <2>4, <2>2
  <2> QED BY <2>2, <2>4, <2>5, <1>5
<1>7. n \in 0..n BY <1>3
<1> QED BY <1>1, <1>2, <1>6, <1>7 DEF n

(* The tables are those a file that went in without an error left.          *)
LeftBy(file, u) ==
  \E t : Typed(t) /\ Ingest(t, file).errors = 0 /\ SameData(Ingest(t, file).t, u)

(* So does what a file left behind. *)
LEMMA LeftByClock ==
  ASSUME now' = now, NEW file, SoundFile(file), NEW u, LeftBy(file, u)
  PROVE  LeftBy(file, u)'
BY IngestClock DEF LeftBy

-----------------------------------------------------------------------------
(* What the last file left *)

(* The invariant of the loop over events: the tables are typed. *)
KeptTyped(base, ms, i, acc) == TablesTyped(acc.t)

Typing == INSTANCE FoldLemmas WITH Op <- Receive, Holds <- KeptTyped

(* Events leave the tables typed, and no events leave them as they are.     *)
LEMMA ReceiptsTyped ==
  ASSUME NEW base, TablesTyped(base.t), NEW T, NEW ms \in Seq(T),
         \A i \in 1..Len(ms) : Valid(ms[i]) => StockMessage(ms[i])
  PROVE  /\ TablesTyped(FoldLeft(Receive, base, ms).t)
         /\ Len(ms) = 0 => FoldLeft(Receive, base, ms) = base
<1>1. FoldLeft(Receive, base, ms) = Typing!Fold(base, ms)
  BY DEF Typing!Fold, Typing!FoldLeft, Typing!MapThenFoldSet, Typing!Max,
         FoldLeft, MapThenFoldSet, Max
<1>2. KeptTyped(base, ms, 0, base) BY DEF KeptTyped
<1>3. ASSUME NEW i \in 1..Len(ms), NEW acc, KeptTyped(base, ms, i-1, acc)
      PROVE  KeptTyped(base, ms, i, Receive(acc, ms[i]))
  <2> DEFINE m == ms[i]
             id == TxnId(m, Len(acc.inbox) + 1)
             t == IF Valid(m) THEN Handle(acc.t, m, id) ELSE Refused
             next == Receive(acc, m)
  <2>1. next.t = IF t = Refused THEN acc.t ELSE t BY DEF Receive
  <2>2. TablesTyped(acc.t) BY <1>3 DEF KeptTyped
  <2>3. Valid(m) => StockMessage(m) OBVIOUS
  <2> HIDE DEF m, id
  <2>4. t # Refused => TablesTyped(t) BY <2>2, <2>3, HandleTyped
  <2> HIDE DEF t, next
  <2>5. TablesTyped(next.t) BY <2>1, <2>2, <2>4
  <2> QED BY <2>5 DEF KeptTyped, next, m
<1>4. KeptTyped(base, ms, Len(ms), Typing!Fold(base, ms)) BY <1>2, <1>3, Typing!FoldHolds
<1>5. Len(ms) = 0 => Typing!Fold(base, ms) = base
  <2>1. Len(ms) = 0 => ms = <<>> OBVIOUS
  <2> QED BY <2>1, Typing!FoldEmpty
<1> QED BY <1>1, <1>4, <1>5 DEF KeptTyped

(* The last file, if it was committed without an error and no event came    *)
(* after it, left the tables as they are.                                   *)
ReuploadInv ==
  /\ TablesTyped(Tables)
  /\ report.after \in Nat /\ report.after <= Len(inbox)
  /\ report.committed =>
       /\ report.file \in Scopes[scope].files
       /\ report.errors = 0 /\ report.after = Len(inbox) => LeftBy(report.file, Tables)

(* At the start no file was sent. *)
LEMMA ReuploadInvInit == IntakeInit => ReuploadInv
<1> SUFFICES ASSUME IntakeInit PROVE ReuploadInv OBVIOUS
<1>1. /\ docs = NoDocuments /\ inbox = <<>> /\ report = NoReport
      /\ balance = [b \in Buckets |-> 0] /\ txns = <<>>
  BY DEF IntakeInit, Init
<1>2. docs = [f \in DocumentNames |-> docs[f]] BY <1>1 DEF NoDocuments, DocumentNames, TableNames
<1>3. /\ Tables = [f \in TableNames |-> Tables[f]] /\ Tables.balance = balance /\ Tables.txns = txns
      /\ \A f \in DocumentNames : Tables[f] = docs[f]
  BY <1>2, AllTables
<1>4. /\ Tables.transfers = docs.transfers /\ Tables.demand = docs.demand
      /\ Tables.forecast = docs.forecast /\ Tables.master = docs.master
  BY <1>3 DEF DocumentNames, TableNames
<1>5. /\ docs.transfers = [n \in TransferNos |-> Absent] /\ docs.demand = <<>> /\ docs.forecast = <<>>
      /\ docs.master = [k \in MasterKeys |-> IF k \in MasterRefs THEN [c \in Columns |-> Absent] ELSE Absent]
  BY <1>1 DEF NoDocuments
<1>6. Listed(<<>>) BY AgreeAtStart DEF Agree, Inbox
<1>7. Listed(Tables.txns) BY <1>1, <1>3, <1>6
<1>8. StockTyped(Tables) BY <1>1, <1>3 DEF StockTyped
<1>9. TransfersTyped(Tables) BY <1>4, <1>5 DEF TransfersTyped
<1>10. DemandTyped(Tables)
  <2>1. DOMAIN Tables.demand = {} BY <1>4, <1>5
  <2> QED BY <1>4, <1>5, <1>6, <2>1 DEF DemandTyped
<1>11. ForecastTyped(Tables)
  <2>1. <<>> = [k \in DOMAIN <<>> |-> <<>>[k]] OBVIOUS
  <2> QED BY <1>4, <1>5, <2>1 DEF ForecastTyped
<1>12. MasterTyped(Tables)
  <2>1. [c \in Columns |-> Absent] \in ColumnsRow BY DEF ColumnsRow
  <2> QED BY <1>4, <1>5, <2>1 DEF MasterTyped
<1>13. TablesTyped(Tables) BY <1>3, <1>7, <1>8, <1>9, <1>10, <1>11, <1>12 DEF TablesTyped
<1>14. report.after = 0 /\ ~report.committed /\ Len(inbox) = 0 BY <1>1 DEF NoReport
<1> QED BY <1>13, <1>14 DEF ReuploadInv

(* A step that leaves it so. *)
LEMMA ReuploadInvAfter ==
  ASSUME Senders, now' = now, scope' = scope, scope \in DOMAIN Scopes, TablesTyped(Tables'),
         report'.after \in Nat, report'.after <= Len(inbox'),
         report'.committed =>
           /\ report'.file \in Scopes[scope].files
           /\ report'.errors = 0 /\ report'.after = Len(inbox') => LeftBy(report'.file, Tables')
  PROVE  ReuploadInv'
<1>1. \A file, u : SoundFile(file) /\ LeftBy(file, u) => LeftBy(file, u)' BY LeftByClock
<1>2. report'.committed => SoundFile(report'.file) BY DEF Senders
<1> QED BY <1>1, <1>2 DEF ReuploadInv

(* A request with events. *)
LEMMA EventsKeepTyped ==
  ASSUME Senders, IntakeInv, ReuploadInv, NEW t, TablesTyped(t), SameData(Tables, t),
         NEW T, NEW ms \in Seq(T), \A i \in 1..Len(ms) : Valid(ms[i]) => StockMessage(ms[i]),
         ReceiveAll(t, ms)
  PROVE  ReuploadInv'
<1> DEFINE base == [t |-> t, inbox |-> inbox]
           out == FoldLeft(Receive, base, ms)
<1>1. Store(out.t) /\ inbox' = out.inbox /\ report' = report /\ scope' = scope /\ now' = now
  BY DEF ReceiveAll
<1>2. base.t = t /\ base.inbox = inbox OBVIOUS
<1>3. Listed(inbox) BY DEF IntakeInv, Agree, Inbox
<1> HIDE DEF base
<1>4. Len(out.inbox) = Len(inbox) + Len(ms)
  <2>1. Accounted(base, ms, Len(ms), out) BY <1>2, <1>3, ReceiptsAccount
  <2> QED BY <1>2, <2>1 DEF Accounted
<1>5. TablesTyped(out.t) /\ (Len(ms) = 0 => out.t = t) BY <1>2, ReceiptsTyped
<1>6. Len(inbox) \in Nat /\ Len(ms) \in Nat
  <2>1. inbox \in Seq(Range(inbox)) BY <1>3 DEF Listed
  <2> HIDE DEF Range
  <2> QED BY <2>1
<1> HIDE DEF out
<1>7. Tables' = out.t
  <2>1. out.t = [f \in TableNames |-> out.t[f]] BY <1>5 DEF TablesTyped
  <2> QED BY <1>1, <2>1, StoredTables DEF IntakeInv
<1>8. report.after \in Nat /\ report.after <= Len(inbox) BY DEF ReuploadInv
<1>9. Len(inbox') = Len(inbox) + Len(ms) BY <1>1, <1>4
<1>10. report.after <= Len(inbox') /\ (report.after = Len(inbox') => Len(ms) = 0 /\ report.after = Len(inbox))
  BY <1>6, <1>8, <1>9
<1>11. ASSUME report.committed, report.errors = 0, report.after = Len(inbox') PROVE LeftBy(report.file, Tables')
  <2>1. LeftBy(report.file, Tables) BY <1>10, <1>11 DEF ReuploadInv
  <2>2. Tables' = t BY <1>5, <1>7, <1>10, <1>11
  <2>3. LeftBy(report.file, t) BY <2>1 DEF LeftBy, SameData
  <2> QED BY <2>2, <2>3
<1>12. TablesTyped(Tables') BY <1>5, <1>7
<1>13. report.committed => report.file \in Scopes[scope].files BY DEF ReuploadInv
<1>14. scope \in DOMAIN Scopes BY DEF IntakeInv
<1> QED BY <1>1, <1>8, <1>10, <1>11, <1>12, <1>13, <1>14, ReuploadInvAfter

(* A published event, *)
LEMMA PublishRepeats ==
  ASSUME Senders, IntakeInv, ReuploadInv, Publish
  PROVE  ReuploadInv'
<1>1. PICK m \in Scopes[scope].msgs : ReceiveAll(Tables, <<m>>) BY DEF Publish
<1>2. Valid(m) => StockMessage(m) BY ScopesAssumption DEF IntakeInv
<1>3. TablesTyped(Tables) BY DEF ReuploadInv
<1>4. <<m>> \in Seq({m}) /\ \A i \in 1..Len(<<m>>) : <<m>>[i] = m OBVIOUS
<1>5. \A i \in 1..Len(<<m>>) : Valid(<<m>>[i]) => StockMessage(<<m>>[i]) BY <1>2, <1>4
<1>6. SameData(Tables, Tables) BY DEF SameData
<1> QED BY <1>1, <1>3, <1>4, <1>5, <1>6, EventsKeepTyped

(* an applied EDI document, *)
LEMMA ApplyEdiRepeats ==
  ASSUME Senders, IntakeInv, ReuploadInv, ApplyEdi
  PROVE  ReuploadInv'
<1>1. PICK x \in Scopes[scope].edi :
        ReceiveAll([Tables EXCEPT !.loads = @ \o [i \in 1..x.records |-> <<"external_balances", {}>>]],
                   x.events)
  BY DEF ApplyEdi
<1>2. /\ x.events \in Seq(Range(x.events))
      /\ \A i \in DOMAIN x.events : Valid(x.events[i]) => StockMessage(x.events[i])
  BY ScopesAssumption DEF Senders, IntakeInv
<1> DEFINE ms == x.events
           loads == Tables.loads \o [i \in 1..x.records |-> <<"external_balances", {}>>]
           t == [Tables EXCEPT !.loads = loads]
<1>3. ReceiveAll(t, ms) BY <1>1
<1>4. ms \in Seq(Range(ms)) /\ \A i \in DOMAIN ms : Valid(ms[i]) => StockMessage(ms[i]) BY <1>2
<1>5. TablesTyped(Tables) BY DEF ReuploadInv
<1>6. Tables = [f \in TableNames |-> Tables[f]] BY <1>5 DEF TablesTyped
<1> HIDE DEF loads, ms
<1>7. Only(Tables, t, {"loads"}) BY <1>6, OneTable DEF TableNames
<1> HIDE DEF t
<1>8. t = [f \in TableNames |-> t[f]] /\ \A f \in TableNames \ {"loads"} : t[f] = Tables[f]
  BY <1>7, OnlyFields
<1>9. SameData(Tables, t) BY <1>8 DEF SameData
<1>10. /\ t.txns = Tables.txns /\ t.balance = Tables.balance /\ t.transfers = Tables.transfers
       /\ t.demand = Tables.demand /\ t.forecast = Tables.forecast /\ t.master = Tables.master
  BY <1>8 DEF TableNames
<1>11. TablesTyped(t)
  BY <1>5, <1>8, <1>10 DEF TablesTyped, StockTyped, TransfersTyped, DemandTyped, ForecastTyped, MasterTyped
<1>12. \A i \in 1..Len(ms) : Valid(ms[i]) => StockMessage(ms[i])
  <2>1. DOMAIN ms = 1..Len(ms) BY <1>4
  <2> QED BY <1>4, <2>1
<1> QED BY <1>3, <1>4, <1>9, <1>11, <1>12, EventsKeepTyped

(* a file, *)
LEMMA UploadRepeats ==
  ASSUME Senders, IntakeInv, OrdersInv, ReuploadInv, NEW file \in Scopes[scope].files,
         NEW commit, NEW allOrNothing, Upload(file, commit, allOrNothing)
  PROVE  ReuploadInv'
<1> DEFINE out == Ingest(Tables, file)
           rep == Outcome(out, file, commit, allOrNothing)
           sync == [out.t.sync EXCEPT ![SourceOf(file.entity)] = @ + out.created + out.updated]
           counted == [out.t EXCEPT !.sync = sync]
           t == IF rep.committed THEN counted ELSE Tables
<1>1. Store(t) /\ inbox' = inbox /\ report' = rep /\ scope' = scope /\ now' = now BY DEF Upload
<1>2. rep.file = file /\ rep.errors = out.errors /\ rep.after = Len(inbox) BY DEF Outcome
<1>3. SoundFile(file) BY DEF Senders, IntakeInv
<1>4. SoundRows(file) BY ScopesAssumption DEF IntakeInv, SoundRows
<1>5. Typed(Tables) BY DEF Typed, ReuploadInv, OrdersInv, Reconciled
<1>6. Typed(out.t) BY <1>3, <1>4, <1>5, IngestTyped
<1>7. Len(inbox) \in Nat
  <2>1. inbox \in Seq(Range(inbox)) BY DEF IntakeInv, Agree, Inbox, Listed
  <2> HIDE DEF Range
  <2> QED BY <2>1
<1>a. out.t = [f \in TableNames |-> out.t[f]] BY <1>6, TypedFields
<1> HIDE DEF out, rep, sync
<1>8. Only(out.t, counted, {"sync"}) BY <1>a, OneTable DEF TableNames
<1> HIDE DEF counted
<1>9. counted = [f \in TableNames |-> counted[f]] /\ \A f \in TableNames \ {"sync"} : out.t[f] = counted[f]
  BY <1>8, OnlyFields
<1>10. SameData(out.t, counted) BY <1>9 DEF SameData
<1>11. Typed(counted)
  <2>1. DOMAIN counted = TableNames /\ counted.po = out.t.po /\ counted.ships = out.t.ships BY <1>9 DEF TableNames
  <2>2. OrdersTyped(counted) BY <1>6, <2>1 DEF Typed, OrdersTyped
  <2> QED BY <1>6, <1>8, <2>2, TypedTables
<1>12. Typed(t) BY <1>5, <1>11
<1>13. rep.committed => t = counted OBVIOUS
<1> HIDE DEF t
<1>14. Tables' = t BY <1>1, <1>12, StoredTables, TypedFields DEF IntakeInv
<1>15. ASSUME rep.committed, rep.errors = 0 PROVE LeftBy(file, Tables')
  <2>1. out.errors = 0 /\ Tables' = counted BY <1>2, <1>13, <1>14, <1>15
  <2> QED BY <1>5, <1>10, <2>1 DEF LeftBy, out
<1>16. TablesTyped(Tables') BY <1>12, <1>14 DEF Typed
<1>17. report'.after \in Nat /\ report'.after <= Len(inbox') BY <1>1, <1>2, <1>7
<1>18. scope \in DOMAIN Scopes BY DEF IntakeInv
<1> QED BY <1>1, <1>2, <1>15, <1>16, <1>17, <1>18, ReuploadInvAfter

(* and a retried delivery. *)
LEMMA ResendRepeats ==
  ASSUME Senders, IntakeInv, ReuploadInv, NEW e \in DOMAIN inbox, Resend(e)
  PROVE  ReuploadInv'
<1>1. /\ inbox' = Restated(inbox, e) /\ Tables' = Tables /\ report' = report
      /\ scope' = scope /\ now' = now
  BY DEF Resend, Restated, Tables
<1>2. Inbox(inbox) BY DEF IntakeInv, Agree
<1>3. Len(inbox') = Len(inbox) BY <1>1, <1>2, RestatedKeeps
<1>4. /\ TablesTyped(Tables) /\ report.after \in Nat /\ report.after <= Len(inbox)
      /\ report.committed =>
           /\ report.file \in Scopes[scope].files
           /\ report.errors = 0 /\ report.after = Len(inbox) => LeftBy(report.file, Tables)
  BY DEF ReuploadInv
<1>5. scope \in DOMAIN Scopes BY DEF IntakeInv
<1>6. /\ TablesTyped(Tables') /\ report'.after \in Nat /\ report'.after <= Len(inbox')
      /\ report'.committed =>
           /\ report'.file \in Scopes[scope].files
           /\ report'.errors = 0 /\ report'.after = Len(inbox') => LeftBy(report'.file, Tables')
  BY <1>1, <1>3, <1>4
<1> QED BY <1>1, <1>5, <1>6, ReuploadInvAfter

(* Every step keeps it. *)
LEMMA ReuploadInvNext ==
  ASSUME Senders PROVE IntakeInv /\ OrdersInv /\ ReuploadInv /\ [IntakeNext]_intakeVars => ReuploadInv'
<1> SUFFICES ASSUME IntakeInv, OrdersInv, ReuploadInv, [IntakeNext]_intakeVars PROVE ReuploadInv' OBVIOUS
<1>1. CASE Publish BY <1>1, PublishRepeats
<1>2. CASE ApplyEdi BY <1>2, ApplyEdiRepeats
<1>3. ASSUME NEW e \in DOMAIN inbox, Resend(e) PROVE ReuploadInv' BY <1>3, ResendRepeats
<1>4. ASSUME NEW file \in Scopes[scope].files, NEW commit \in BOOLEAN, NEW allOrNothing \in BOOLEAN,
             Upload(file, commit, allOrNothing)
      PROVE  ReuploadInv'
  BY <1>4, UploadRepeats
<1>5. CASE UNCHANGED intakeVars
  <2>1. Tables' = Tables /\ inbox' = inbox /\ report' = report /\ scope' = scope /\ now' = now
    BY <1>5 DEF intakeVars, Tables
  <2>2. /\ TablesTyped(Tables') /\ report'.after \in Nat /\ report'.after <= Len(inbox')
        /\ report'.committed =>
             /\ report'.file \in Scopes[scope].files
             /\ report'.errors = 0 /\ report'.after = Len(inbox') => LeftBy(report'.file, Tables')
    BY <2>1 DEF ReuploadInv
  <2>3. scope \in DOMAIN Scopes BY DEF IntakeInv
  <2> QED BY <2>1, <2>2, <2>3, ReuploadInvAfter
<1> QED BY <1>1, <1>2, <1>3, <1>4, <1>5 DEF IntakeNext

(* The tables a file left are those it leaves again. *)
LEMMA ReuploadHolds ==
  ASSUME Senders PROVE IntakeInv /\ OrdersInv /\ ReuploadInv => ReuploadHarmless
<1> SUFFICES ASSUME IntakeInv, OrdersInv, ReuploadInv, report.committed, report.errors = 0,
                    report.after = Len(inbox), Repeatable(report.file)
             PROVE  LET again == Ingest(Tables, report.file)
                    IN  /\ again.errors = 0
                        /\ IF report.file.entity = "balances" THEN again.t.balance = balance
                           ELSE again.t = Tables
  BY DEF ReuploadHarmless
<1> DEFINE file == report.file
<1>1. file \in Scopes[scope].files /\ LeftBy(file, Tables) BY DEF ReuploadInv
<1>2. SoundFile(file) BY <1>1 DEF Senders, IntakeInv
<1>3. SoundRows(file) BY <1>1, ScopesAssumption DEF IntakeInv, SoundRows
<1>4. Typed(Tables) BY DEF Typed, ReuploadInv, OrdersInv, Reconciled
<1>5. Tables.balance = balance BY AllTables DEF IntakeInv
<1>6. Repeatable(file) OBVIOUS
<1> HIDE DEF file
<1>7. PICK t : Typed(t) /\ Ingest(t, file).errors = 0 /\ SameData(Ingest(t, file).t, Tables)
  BY <1>1 DEF LeftBy
<1>8. /\ Ingest(Tables, file).errors = 0
      /\ IF file.entity = "balances" THEN Ingest(Tables, file).t.balance = Tables.balance
         ELSE Ingest(Tables, file).t = Tables
  BY <1>2, <1>3, <1>4, <1>6, <1>7, IngestAgain
<1> QED BY <1>5, <1>8 DEF file

(* A file that is uploaded again (ingest_dataframe() and the handlers of    *)
(* its rows in ingestion_service.py): when all its rows went in and no      *)
(* event came since, they all go in again, and leave the tables as they     *)
(* are; the balances, when it is a file of balances.                        *)
THEOREM ReuploadIsHarmless == ASSUME Senders PROVE IntakeSpec => []ReuploadHarmless
<1>1. IntakeInit => IntakeInv /\ OrdersInv /\ ReuploadInv BY IntakeInvInit, OrdersInvInit, ReuploadInvInit
<1>2. IntakeInv /\ OrdersInv /\ ReuploadInv /\ [IntakeNext]_intakeVars => (IntakeInv /\ OrdersInv /\ ReuploadInv)'
  BY IntakeInvNext, OrdersInvNext, ReuploadInvNext
<1>3. IntakeInv /\ OrdersInv /\ ReuploadInv => ReuploadHarmless BY ReuploadHolds
<1> QED BY <1>1, <1>2, <1>3, PTL DEF IntakeSpec
=============================================================================
