------------------------------- MODULE Intake -------------------------------
(***************************************************************************)
(* What comes into the system from outside: events (publish() and          *)
(* dispatch(), app/services/event_service.py), EDI interchanges and        *)
(* uploaded files, all changing the ledger and the documents.  One action  *)
(* is one request and its commit.                                          *)
(*                                                                         *)
(* Event ids are numbers in the order of their first arrival; sending an   *)
(* event again is Resend.  Families of messages that touch different       *)
(* tables are explored apart: scope, chosen once, names the family.        *)
(***************************************************************************)
EXTENDS Uploads

CONSTANTS
  Scopes,       \* sequence of [msgs, edi, files, events, uploads]
  ColumnValues  \* what a column of master data may hold

VARIABLES
  docs,     \* the documents
  inbox,    \* the event table: what was first sent under each id, and its status
  report,   \* the report of the last file
  uploads,  \* number of files sent
  edited,   \* history: orders an upload changed after they were created
  scope

intakeVars == <<balance, txns, quality, now, docs, inbox, report, uploads, edited, scope>>

LedgerTables == {"balance", "txns", "quality"}

Tables ==
  [f \in DOMAIN docs \cup LedgerTables |->
     CASE f = "balance" -> balance
       [] f = "txns" -> txns
       [] f = "quality" -> quality
       [] OTHER -> docs[f]]

Store(t) ==
  /\ Len(t.txns) <= MaxTxns
  /\ balance' = t.balance
  /\ txns' = t.txns
  /\ quality' = t.quality
  /\ docs' = [f \in DOMAIN docs |-> t[f]]

NoReport == [file |-> Absent, commit |-> FALSE, allOrNothing |-> FALSE, committed |-> FALSE,
             total |-> 0, valid |-> 0, created |-> 0, updated |-> 0, skipped |-> 0,
             errors |-> 0, errorRows |-> 0, warnings |-> 0, after |-> 0]

IntakeTypeOK ==
  /\ TypeOK
  /\ DocumentsType(docs)
  /\ \A e \in DOMAIN inbox : inbox[e].status \in {"PROCESSED", "FAILED", "DUPLICATE"}
  /\ edited \subseteq PoNumbers
  /\ scope \in DOMAIN Scopes

IntakeInit ==
  /\ Init
  /\ docs = NoDocuments
  /\ inbox = <<>>
  /\ report = NoReport
  /\ uploads = 0
  /\ edited = {}
  /\ scope \in DOMAIN Scopes

-----------------------------------------------------------------------------
(* Events *)

(* EVENT_SCHEMAS: the fields a message of each type must have.  Optional    *)
(* fields are always there and Absent when they are not given.              *)
Required ==
  [InventoryReceived    |-> {"sku", "loc", "qty"},
   InventoryIssued      |-> {"sku", "loc", "qty"},
   ShipmentDispatched   |-> {"no"},
   ShipmentDelayed      |-> {"no"},
   ShipmentStatus       |-> {"no"},
   PurchaseOrderCreated |-> {"po", "supplier", "loc", "sku", "qty"},
   PurchaseOrderDelayed |-> {"po"},
   DemandChanged        |-> {"loc", "period", "qty"},
   ForecastUpdated      |-> {"loc", "period", "qty"},
   InventoryAdjusted    |-> {"loc", "counted"},
   TransferCreated      |-> {"no", "loc", "toLoc", "qty"},
   TransferCompleted    |-> {"no"},
   QualityHold          |-> {"loc", "lot", "qty"},
   QualityRelease       |-> {"loc", "lot", "qty"},
   ExpiryApproaching    |-> {"lot", "days"}]

Valid(m) ==
  /\ m.type \in DOMAIN Required
  /\ Required[m.type] \subseteq DOMAIN m
  /\ "qty" \in DOMAIN m => m.qty >= 0
  /\ "counted" \in DOMAIN m => m.counted >= 0

TxnId(m, e) == IF "txn" \in DOMAIN m /\ m.txn # Absent THEN m.txn ELSE <<"EV", e>>

\* mutants: the handler is not undone when it raises; the outcome is that of
\* validate()
ReceiveUnsaved(acc, m) ==
  LET e == Len(acc.inbox) + 1
      t == IF Valid(m) THEN Handle(acc.t, m, TxnId(m, e)) ELSE Refused
  IN  IF t = Refused
      THEN [t |-> IF Valid(m) /\ "lot" \in DOMAIN m THEN WithLot(acc.t, m.lot) ELSE acc.t,
            inbox |-> Append(acc.inbox, [msg |-> m, status |-> "FAILED"])]
      ELSE [t |-> t, inbox |-> Append(acc.inbox, [msg |-> m, status |-> "PROCESSED"])]
ReceiveOptimistic(acc, m) ==
  LET e == Len(acc.inbox) + 1
      t == IF Valid(m) THEN Handle(acc.t, m, TxnId(m, e)) ELSE Refused
  IN  [t |-> IF t = Refused THEN acc.t ELSE t,
       inbox |-> Append(acc.inbox, [msg |-> m, status |-> IF Valid(m) THEN "PROCESSED" ELSE "FAILED"])]

(* publish() of an id that is not in the table yet.  The handler runs in a  *)
(* savepoint; the event is kept with its outcome either way.                *)
Receive(acc, m) ==
  LET e == Len(acc.inbox) + 1
      t == IF Valid(m) THEN Handle(acc.t, m, TxnId(m, e)) ELSE Refused
  IN  IF t = Refused
      THEN [t |-> acc.t, inbox |-> Append(acc.inbox, [msg |-> m, status |-> "FAILED"])]
      ELSE [t |-> t, inbox |-> Append(acc.inbox, [msg |-> m, status |-> "PROCESSED"])]

(* Events handed to publish() one after the other, and one commit. *)
ReceiveAll(t, ms) ==
  LET out == FoldLeft(Receive, [t |-> t, inbox |-> inbox], ms)
  IN  /\ Len(out.inbox) <= Scopes[scope].events
      /\ Store(out.t)
      /\ inbox' = out.inbox
      /\ UNCHANGED <<now, report, uploads, edited, scope>>

Publish == \E m \in Scopes[scope].msgs : ReceiveAll(Tables, <<m>>)

(* An EDI interchange is translated into records of external balances and   *)
(* several events, each under an id of its own, and committed once.         *)
ApplyEdi ==
  \E x \in Scopes[scope].edi :
    ReceiveAll([Tables EXCEPT !.loads = @ \o [i \in 1..x.records |-> <<"external_balances", {}>>]], x.events)

(* publish() of an id that is in the table. *)
Resend(e) ==
  /\ inbox' = [inbox EXCEPT ![e].status = IF @ = "PROCESSED" THEN @ ELSE "DUPLICATE"]
  /\ UNCHANGED <<balance, txns, quality, now, docs, report, uploads, edited, scope>>

-----------------------------------------------------------------------------
(* Files *)

\* mutant: errors found while parsing do not stop the file
OutcomeUnparsed(out, file, commit, allOrNothing) ==
  LET bad == Parsed(Tables, file).errors
      kept == commit /\ ~(allOrNothing /\ out.errors - bad > 0)
  IN  [file |-> file, commit |-> commit, allOrNothing |-> allOrNothing, committed |-> kept,
       total |-> Len(file.rows), valid |-> Len(file.rows) - out.errorRows,
       created |-> IF kept THEN out.created ELSE 0, updated |-> IF kept THEN out.updated ELSE 0,
       skipped |-> IF kept THEN out.skipped ELSE 0, errors |-> out.errors,
       errorRows |-> out.errorRows, after |-> Len(inbox),
       warnings |-> out.warnings + (IF commit /\ ~kept THEN 1 ELSE 0)]

(* The report, counters zeroed when nothing was written. *)
Outcome(out, file, commit, allOrNothing) ==
  LET kept == commit /\ ~(allOrNothing /\ out.errors > 0)
  IN  [file |-> file, commit |-> commit, allOrNothing |-> allOrNothing, committed |-> kept,
       total |-> Len(file.rows), valid |-> Len(file.rows) - out.errorRows,
       created |-> IF kept THEN out.created ELSE 0, updated |-> IF kept THEN out.updated ELSE 0,
       skipped |-> IF kept THEN out.skipped ELSE 0, errors |-> out.errors,
       errorRows |-> out.errorRows, after |-> Len(inbox),
       warnings |-> out.warnings + (IF commit /\ ~kept THEN 1 ELSE 0)]

(* ingest_dataframe() and the commit or roll-back of the route that calls   *)
(* it: a preview, and a file with an error in all-or-nothing mode, leave    *)
(* nothing behind.                                                          *)
Upload(file, commit, allOrNothing) ==
  LET out == Ingest(Tables, file)
      rep == Outcome(out, file, commit, allOrNothing)
      t == IF rep.committed
           THEN [out.t EXCEPT !.sync[SourceOf(file.entity)] = @ + out.created + out.updated]
           ELSE Tables
  IN  /\ uploads < Scopes[scope].uploads
      /\ uploads' = uploads + 1
      /\ Store(t)
      /\ report' = rep
      /\ edited' = edited \cup {n \in PoNumbers : docs.po[n] # Absent /\ t.po[n] # docs.po[n]}
      /\ UNCHANGED <<now, inbox, scope>>

IntakeNext ==
  \/ Publish
  \/ ApplyEdi
  \/ \E e \in DOMAIN inbox : Resend(e)
  \/ \E file \in Scopes[scope].files, commit, allOrNothing \in BOOLEAN :
       Upload(file, commit, allOrNothing)

IntakeSpec == IntakeInit /\ [][IntakeNext]_intakeVars

-----------------------------------------------------------------------------
(* Messages and files *)

(* The type of the row an event posts. *)
PostedType(m) ==
  CASE m.type = "InventoryReceived" -> "RECEIPT"
    [] m.type = "InventoryIssued"   -> "ISSUE"
    [] m.type = "TransferCompleted" -> "TRANSFER"
    [] m.type = "QualityHold"       -> "QUARANTINE"
    [] m.type = "QualityRelease"    -> "RELEASE"
    [] OTHER -> "none"

(* The ids dispatch() makes from event ids: EV-1, EV-2, ... *)
EventTxns == {"EV"} \X Nat

(* Events that post are about the item whose ledger is kept, receipts apart; *)
(* only receipts and issues carry a transaction id of the sender, which is   *)
(* none that events or the system give.                                      *)
OwnMessage(m) ==
  /\ PostedType(m) \notin {"none", "RECEIPT"} /\ "sku" \in DOMAIN m => m.sku = Own
  /\ "txn" \in DOMAIN m /\ m.txn # Absent =>
       /\ m.type \in {"InventoryReceived", "InventoryIssued"} /\ m.sku = Own
       /\ m.txn # GeneratedId /\ m.txn \notin EventTxns

(* A file is a sequence of rows of a known entity; its transactions carry no *)
(* id of an event.                                                           *)
SoundFile(file) ==
  /\ file.entity \in Entities
  /\ file.rows \in Seq(Range(file.rows))
  /\ \A i \in DOMAIN file.rows :
       /\ file.rows[i].bad \in Nat
       /\ file.entity = "transactions" => file.rows[i].txn \notin EventTxns

(* What messages and rows of files say of orders is of the right type.      *)
Day == Nat \cup {Absent}
OrderMessage(m) ==
  /\ m.type = "InventoryReceived" => m.qty \in Int /\ m.po \in PoNumbers \cup {Absent}
  /\ m.type = "PurchaseOrderCreated" =>
       /\ m.po \in PoNumbers /\ m.supplier \in MasterKeys /\ m.loc \in Locations
       /\ m.qty \in Int /\ m.eta \in Day
  /\ m.type = "PurchaseOrderDelayed" => m.po \in PoNumbers /\ m.eta \in Day
  /\ m.type \in {"ShipmentDispatched", "ShipmentDelayed"} => m.no \in ShipmentNos /\ m.eta \in Day
  /\ m.type = "ShipmentDispatched" =>
       /\ m.po \in PoNumbers \cup {Absent} /\ m.lines \in Seq(Range(m.lines))
       /\ \A i \in DOMAIN m.lines : m.lines[i].qty \in Int
SoundOrder(r) ==
  /\ r.po \in PoNumbers /\ r.supplier \in MasterKeys /\ r.loc \in Locations
  /\ r.qty \in Int /\ r.received \in Int \cup {Absent} /\ r.promised \in Day /\ r.eta \in Day

(* What they say of stock and master data is too.                           *)
StockMessage(m) ==
  /\ m.type \in {"InventoryReceived", "InventoryIssued", "QualityHold", "QualityRelease",
                 "TransferCreated", "TransferCompleted"} => m.qty \in Int
  /\ m.type = "InventoryAdjusted" => m.loc \in Locations /\ m.counted \in Int
  /\ m.type \in {"TransferCreated", "TransferCompleted"} => m.no \in TransferNos
ColumnsRow == [Columns -> ColumnValues \cup {Absent}]
SoundRow(entity, r) ==
  /\ entity = "purchase_orders" => SoundOrder(r)
  /\ entity \in {"balances", "transactions"} => r.qty \in Int /\ r.units \in Nat
  /\ entity = "balances" => <<r.loc, r.lot, r.state>> \in Buckets
  /\ entity \in MasterEntities =>
       r.key \in MasterKeys /\ r.refs \subseteq MasterKeys /\ r.vals \in ColumnsRow

ASSUME ScopesAssumption ==
  /\ Absent \notin ColumnsRow
  /\ \A s \in DOMAIN Scopes :
       /\ \A m \in Scopes[s].msgs : Valid(m) => OrderMessage(m) /\ StockMessage(m)
       /\ \A x \in Scopes[s].edi : \A i \in DOMAIN x.events :
            Valid(x.events[i]) => OrderMessage(x.events[i]) /\ StockMessage(x.events[i])
       /\ \A file \in Scopes[s].files : \A i \in DOMAIN file.rows :
            file.rows[i].bad = 0 => SoundRow(file.entity, file.rows[i])

(* What the code relies on of those who send. *)
Senders ==
  /\ GeneratedId \notin EventTxns
  /\ \A s \in DOMAIN Scopes :
       /\ \A m \in Scopes[s].msgs : OwnMessage(m)
       /\ \A x \in Scopes[s].edi :
            x.events \in Seq(Range(x.events)) /\ \A i \in DOMAIN x.events : OwnMessage(x.events[i])
       /\ \A file \in Scopes[s].files : SoundFile(file)

-----------------------------------------------------------------------------
(* Properties *)

(* "idempotent on event_id": the tables change only in a step in which an   *)
(* event that was never seen before is processed, or a file is committed;   *)
(* nothing a failed handler did stays, and an event that comes again, under *)
(* whatever status the first ended, does nothing.  (The rows uploads and    *)
(* interchanges append are not written by handlers.)                        *)
Handled == [Tables EXCEPT !.loads = <<>>]

EventsOnce ==
  [][/\ Handled' # Handled =>
          \/ \E e \in DOMAIN inbox' \ DOMAIN inbox : inbox'[e].status = "PROCESSED"
          \/ uploads' # uploads /\ report'.committed
     /\ \A e \in DOMAIN inbox :
          (inbox'[e].status = "PROCESSED") <=> (inbox[e].status = "PROCESSED")]_intakeVars

(* The inbox and the ledger agree: every processed event that moves stock   *)
(* has one row of its own, of its type and quantity, also when it carries a *)
(* transaction id that a file or another event may use, and an event that   *)
(* was not processed has none.                                              *)
EventLedger ==
  \A e \in DOMAIN inbox :
    LET m == inbox[e].msg
        mine == {i \in DOMAIN txns : txns[i].id = TxnId(m, e)}
    IN  PostedType(m) # "none" /\ ("sku" \in DOMAIN m => m.sku = Own) =>
          IF inbox[e].status = "PROCESSED"
          THEN \E i \in mine : /\ mine = {i} /\ txns[i].type = PostedType(m)
                               /\ m.type = "TransferCompleted" \/ txns[i].qty = m.qty
                               /\ \A f \in DOMAIN inbox \ {e} :
                                    inbox[f].status = "PROCESSED" => TxnId(inbox[f].msg, f) # TxnId(m, e)
          ELSE TxnId(m, e) = <<"EV", e>> => mine = {}

(* What the processed receipts after the event e brought for an order.      *)
Brought(e, n, sku) ==
  {f \in DOMAIN inbox : /\ f > e /\ inbox[f].status = "PROCESSED"
                        /\ inbox[f].msg.type = "InventoryReceived"
                        /\ inbox[f].msg.po = n /\ inbox[f].msg.sku = sku}
ReceivedSince(e, n, sku) == SumFunction([f \in Brought(e, n, sku) |-> inbox[f].msg.qty])

(* "on_order = ordered - received - in_transit": the received quantity of a *)
(* line is what its receipts brought since the order exists: no receipt is  *)
(* counted twice, lost, or counted for another item or for an order that    *)
(* came later; a quantity in transit is always still expected, in whatever  *)
(* order dispatches and receipts arrive (it may be negative when more was   *)
(* received than ordered); and an order is RECEIVED exactly when every line *)
(* is complete and PARTIAL when one is not.                                 *)
OrdersAddUp ==
  \A n \in PoNumbers :
    docs.po[n] # Absent /\ n \notin edited =>
      LET lines == docs.po[n].lines
          complete == \A i \in DOMAIN lines : lines[i].received >= lines[i].ordered
      IN  /\ \A e \in DOMAIN inbox :
               inbox[e].status = "PROCESSED" /\ inbox[e].msg.type = "PurchaseOrderCreated"
                 /\ inbox[e].msg.po = n =>
               \A i \in DOMAIN lines : lines[i].received = ReceivedSince(e, n, lines[i].sku)
          /\ \A i \in DOMAIN lines :
               lines[i].transit > 0 => lines[i].received + lines[i].transit <= lines[i].ordered
          /\ docs.po[n].status # "OPEN" => (docs.po[n].status = "RECEIVED" <=> complete)

(* A preview, and an all-or-nothing file with an error of any kind, write   *)
(* nothing, not even the lots its rows name; the status page counts only    *)
(* what was written.                                                        *)
NothingOrAll ==
  [][uploads' # uploads =>
       /\ (~report'.commit \/ (report'.allOrNothing /\ report'.errors > 0)) => Tables' = Tables
       /\ (report'.allOrNothing /\ report'.committed) =>
            report'.created + report'.updated + report'.skipped = report'.total]_intakeVars

(* A file whose rows all went in can be sent again without harm: balances   *)
(* are set, not added, a transaction that has an id is skipped, demand,     *)
(* forecast, orders and master data are overwritten with what they hold.    *)
Repeatable(file) ==
  /\ file.entity \notin AppendEntities
  /\ file.entity = "transactions" => \A i \in DOMAIN file.rows : file.rows[i].txn # Absent

ReuploadHarmless ==
  (/\ report.file # Absent
   /\ report.committed /\ report.errors = 0
   /\ report.after = Len(inbox)
   /\ Repeatable(report.file)) =>
      LET again == Ingest(Tables, report.file)
      IN  /\ again.errors = 0
          /\ IF report.file.entity = "balances" THEN again.t.balance = balance
             ELSE again.t = Tables
=============================================================================
