------------------------------- MODULE Supply -------------------------------
(***************************************************************************)
(* What the snapshot knows of the item Own at a location: stock by lot,    *)
(* claims, what is on its way and what is asked for (build_snapshot() of   *)
(* app/services/snapshot.py), and the position computed from it            *)
(* (compute_position() of app/services/inventory_service.py).              *)
(***************************************************************************)
EXTENDS Documents

CONSTANTS
  Expiry,      \* expiry day of each lot, or Absent
  ReceivedOn,  \* receipt day of each lot, or Absent; 0 stands for stock without a lot
  Production,  \* open production orders: [ref, loc, item, qty, start, due]
  QtyPer       \* units of Own in a unit of any other item

Date == Int \cup {Absent}

ASSUME SupplyAssumption ==
  /\ Absent \notin Int
  /\ Expiry \in [1..NLots -> Date]
  /\ ReceivedOn \in [Lots -> Date]
  /\ Production \in Seq(Range(Production))
  /\ \A i \in DOMAIN Production :
       /\ Production[i].qty \in Nat
       /\ Production[i].start \in Int /\ Production[i].due \in Int
  /\ QtyPer \in Nat
  /\ IsFiniteSet(PoNumbers) /\ IsFiniteSet(TransferNos)

(* A claim on the stock of a location. *)
ClaimTypes == {"ALLOCATED", "COMMITTED", "RESERVED"}
Claim == [lot: Lots, qty: Nat, type: ClaimTypes, manual: BOOLEAN]

-----------------------------------------------------------------------------
(* Sums and selections *)

(* The quantity of the elements of seq with the indices in S. *)
QtyAt(seq, S) == SumFunction([i \in S |-> seq[i].qty])
QtyOf(seq) == QtyAt(seq, DOMAIN seq)

(* The numbers in S by their keys, tuples of integers; those with the same  *)
(* key as they are.                                                         *)
Before(key, i, j) ==
  \/ \E n \in DOMAIN key[i] : /\ key[i][n] < key[j][n]
                              /\ \A k \in 1..n - 1 : key[i][k] = key[j][k]
  \/ key[i] = key[j] /\ i < j

InOrder(S, key) ==
  [n \in 1..Cardinality(S) |->
     CHOOSE i \in S : Cardinality({j \in S : Before(key, j, i)}) = n - 1]

SortedBy(seq, key) ==
  LET order == InOrder(DOMAIN seq, key)
  IN  [n \in DOMAIN order |-> seq[order[n]]]

(* The elements of seq with the indices in S. *)
Where(seq, S) ==
  LET order == InOrder(S, [i \in S |-> <<>>])
  IN  [n \in DOMAIN order |-> seq[order[n]]]

Glue(all, s) == all \o s
Joined(seqs) == FoldLeft(Glue, <<>>, seqs)

-----------------------------------------------------------------------------
(* What is on its way.  A part without a quantity is no part.               *)

Part(kind, ref, q, transit, day) ==
  IF q > 0 THEN <<[kind |-> kind, ref |-> ref, qty |-> q, transit |-> transit, day |-> day]>>
  ELSE <<>>

(* Days from today to the first of the dates that is known. *)
EtaDay(ln, order) ==
  LET eta == IF ln.eta # Absent THEN ln.eta
             ELSE IF order.eta # Absent THEN order.eta ELSE order.promised
  IN  IF eta = Absent THEN 0 ELSE eta - Today

(* The shipped part and the rest of an open order line.                     *)
\* mutant: the shipped part is still counted as on order
LineInboundWhole(n, order, ln) ==
  LET open == ln.ordered - ln.received
      sent == IF ln.transit < open THEN ln.transit ELSE open
  IN  IF ln.sku # Own \/ open <= 0 THEN <<>>
      ELSE Part("PO", n, sent, TRUE, EtaDay(ln, order)) \o Part("PO", n, open, FALSE, EtaDay(ln, order))

LineInbound(n, order, ln) ==
  LET open == ln.ordered - ln.received
      sent == IF ln.transit < open THEN ln.transit ELSE open
  IN  IF ln.sku # Own \/ open <= 0 THEN <<>>
      ELSE Part("PO", n, sent, TRUE, EtaDay(ln, order)) \o Part("PO", n, open - sent, FALSE, EtaDay(ln, order))

OrderInbound(n, order) ==
  Joined([i \in DOMAIN order.lines |-> LineInbound(n, order, order.lines[i])])

OpenOrders(t, l) ==
  {n \in PoNumbers : t.po[n] # Absent /\ t.po[n].status \in {"OPEN", "PARTIAL"} /\ t.po[n].dest = l}

OpenTransfers(t) ==
  {n \in TransferNos : /\ t.transfers[n] # Absent
                       /\ t.transfers[n].status = "OPEN"
                       /\ t.transfers[n].qty > t.transfers[n].received}
OpenQty(order) == order.qty - order.received

Inbound(t, l) ==
  LET orders == SetToSeq(OpenOrders(t, l))
      moves  == SetToSeq({n \in OpenTransfers(t) : t.transfers[n].to = l})
  IN  Joined([i \in DOMAIN orders |-> OrderInbound(orders[i], t.po[orders[i]])])
      \o Joined([i \in DOMAIN moves |->
                  LET order == t.transfers[moves[i]]
                  IN  Part("TO", moves[i], OpenQty(order), FALSE, order.eta - Today)])
      \o Joined([i \in DOMAIN Production |->
                  LET po == Production[i]
                  IN  IF po.loc = l /\ po.item = Own THEN Part("PROD", po.ref, po.qty, FALSE, po.due - Today)
                      ELSE <<>>])

(* An open transfer claims the stock it will take. *)
ReservedForTransfers(t, l) ==
  SumFunction([n \in {k \in OpenTransfers(t) : t.transfers[k].from = l} |-> OpenQty(t.transfers[n])])

-----------------------------------------------------------------------------
(* What is asked for: sales order lines that are open, late or not, and the *)
(* components of production orders.                                         *)

Backorders(sales, l) == Where(sales, {i \in DOMAIN sales : sales[i].loc = l /\ sales[i].day < 0})
Orders(sales, l) == Where(sales, {i \in DOMAIN sales : sales[i].loc = l /\ sales[i].day >= 0})

Requirements(l) ==
  LET mine == Where(Production, {i \in DOMAIN Production : Production[i].loc = l /\ Production[i].item # Own})
  IN  [i \in DOMAIN mine |->
        [ref |-> mine[i].ref, loc |-> l, qty |-> mine[i].qty * QtyPer, prio |-> 3, entered |-> 0,
         day |-> IF mine[i].start > Today THEN mine[i].start - Today ELSE 0,
         value |-> mine[i].qty * QtyPer, contract |-> FALSE, near |-> FALSE]]

Claimed(mine, type) == QtyAt(mine, {i \in DOMAIN mine : mine[i].type = type})

-----------------------------------------------------------------------------
(* The inputs of one item and location, its claims given, and its position. *)

PairInputs(t, sales, mine, l) ==
  LET stock == [lot \in Lots |-> t.balance[<<l, lot, "UNRESTRICTED">>]]
  IN  [lots       |-> stock,
       quality    |-> t.quality,
       usable     |-> SumFunction(stock),
       inbound    |-> Inbound(t, l),
       allocated  |-> Claimed(mine, "ALLOCATED"),
       committed  |-> Claimed(mine, "COMMITTED"),
       reserved   |-> Claimed(mine, "RESERVED") + ReservedForTransfers(t, l),
       orders     |-> Orders(sales, l),
       backorders |-> Backorders(sales, l),
       required   |-> Requirements(l)]

Available(p) == p.usable - p.allocated - p.committed - p.reserved

Position(p) == Available(p) + QtyOf(p.inbound) - QtyOf(p.backorders)
=============================================================================
