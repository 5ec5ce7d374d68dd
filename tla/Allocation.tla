----------------------------- MODULE Allocation -----------------------------
(***************************************************************************)
(* Claims on stock and pegs of supply to demand                            *)
(* (app/services/allocation_service.py).  Both services read a snapshot of *)
(* the tables and write later, in a session of their own; events and new   *)
(* orders, and the other session, may come between.                        *)
(***************************************************************************)
EXTENDS Supply

CONSTANTS
  Sessions,
  Scopes     \* sequence of [sessions, past, msgs, sales, asks, events, claims, policies]

(* The messages that may come in: their quantities are not negative.        *)
Message(m) ==
  \/ /\ m.type = "InventoryReceived"
     /\ m.sku \in Skus /\ m.loc \in Locations /\ m.lot \in Lots /\ m.qty \in Nat
     /\ m.po \in PoNumbers \cup {Absent}
  \/ /\ m.type \in {"InventoryIssued", "QualityHold", "QualityRelease"}
     /\ m.loc \in Locations /\ m.lot \in Lots /\ m.qty \in Nat
     /\ m.type # "InventoryIssued" => m.lot # 0
  \/ m.type = "InventoryAdjusted" /\ m.loc \in Locations /\ m.counted \in Nat
  \/ /\ m.type = "PurchaseOrderCreated"
     /\ m.po \in PoNumbers /\ m.supplier \in MasterKeys /\ m.loc \in Locations
     /\ m.sku \in Skus /\ m.qty \in Nat /\ m.eta \in Nat \cup {Absent}
  \/ m.type = "PurchaseOrderDelayed" /\ m.po \in PoNumbers /\ m.eta \in Nat \cup {Absent}
  \/ /\ m.type = "ShipmentDispatched"
     /\ m.no \in ShipmentNos /\ m.po \in PoNumbers \cup {Absent} /\ m.eta \in Nat \cup {Absent}
     /\ m.lines \in Seq([sku: Skus, qty: Nat])
  \/ /\ m.type = "TransferCreated"
     /\ m.no \in TransferNos /\ m.loc \in Locations /\ m.toLoc \in Locations
     /\ m.qty \in Nat /\ m.eta \in Nat \cup {Absent}
  \/ m.type = "TransferCompleted" /\ m.no \in TransferNos /\ m.qty \in Nat

(* A line of demand. *)
Demand(d) ==
  /\ d.qty \in Nat /\ d.day \in Int /\ d.entered \in Int /\ d.prio \in Int /\ d.value \in Nat
  /\ d.contract \in BOOLEAN /\ d.near \in BOOLEAN

ASSUME ScopesAssumption ==
  \A k \in DOMAIN Scopes :
    LET s == Scopes[k]
    IN  /\ s.sessions \subseteq Sessions
        /\ s.past \in Seq(Range(s.past))
        /\ \A m \in Range(s.past) \cup s.msgs : Message(m)
        /\ s.sales \in Seq(Range(s.sales))
        /\ \A d \in Range(s.sales) : Demand(d)
        /\ \A l \in Locations : \A c \in s.asks[l] : c \in Claim /\ c.manual

VARIABLES
  docs,
  claims,    \* active rows of allocation by location
  pegs,      \* rows of peg by location
  sales,     \* open sales order lines
  work,      \* what each session has read and is about to write
  last,      \* history: what has just been written from current data
  worth,     \* history: what the messages so far are worth to each location
  events,    \* events handled and claims released
  policy,    \* the policy of the pair
  scope

allocVars == <<balance, txns, quality, now, docs, claims, pegs, sales, work, last, worth, events, policy, scope>>

Tables ==
  [f \in DOMAIN docs \cup {"balance", "txns", "quality"} |->
     CASE f = "balance" -> balance
       [] f = "txns" -> txns
       [] f = "quality" -> quality
       [] OTHER -> docs[f]]

Store(t) ==
  /\ balance' = t.balance /\ txns' = t.txns /\ quality' = t.quality
  /\ docs' = [f \in DOMAIN docs |-> t[f]]

Inputs(l) == PairInputs(Tables, sales, claims[l], l)

LotClaims(l, lot) == QtyAt(claims[l], {i \in DOMAIN claims[l] : claims[l][i].lot = lot})
LotQty(l, lot) == balance[<<l, lot, "UNRESTRICTED">>]

(* The position as far as messages make it. *)
Moved(l) == Position(PairInputs(Tables, <<>>, <<>>, l))

Idle == [pc |-> "idle", fresh |-> FALSE, plan |-> <<>>, loc |-> NoLoc, claim |-> <<>>]

-----------------------------------------------------------------------------
(* Ranking of demands *)

Largest(S) == IF S = {} THEN 0 ELSE Max(S)

(* Days overdue, up to two weeks. *)
Overdue(d) == IF d.day >= 0 THEN 0 ELSE IF d.day < -14 THEN 14 ELSE -d.day

(* The earlier the order, the higher; lines of one order count as the last. *)
FifoRank(d, ds) ==
  LET byDate == SortedBy(ds, [i \in DOMAIN ds |-> <<ds[i].entered, ds[i].day>>])
  IN  Len(ds) - Largest({i \in DOMAIN byDate : byDate[i].ref = d.ref})

(* The weighted score, 280 * top times what the code computes.  What is the *)
(* same for all demands of an item is left out.                             *)
Weighted(d, ds) ==
  LET top == Largest({ds[i].value : i \in DOMAIN ds} \cup {1})
  IN  top * (30 * 70 * (5 - d.prio)
             + 10 * (20 * Overdue(d) + (IF d.day < 0 THEN 84 ELSE 0))
             + 5 * (IF d.near THEN 280 ELSE 84)
             + (IF d.contract THEN 15 * 280 ELSE 0))
      + 20 * 280 * d.value

Score(d, ds, method) ==
  CASE method = "fifo"          -> FifoRank(d, ds)
    [] method = "priority"      -> 5 - d.prio
    [] method = "revenue"       -> d.value
    [] method = "service_level" -> Overdue(d)
    [] method = "geography"     -> IF d.near THEN 1 ELSE 0
    [] method = "contract"      -> IF d.contract THEN 1 ELSE 0
    [] method \in {"criticality", "margin"} -> 0
    [] OTHER                    -> Weighted(d, ds)

Demands(p) == p.orders \o p.backorders \o p.required

Ranked(p) ==
  LET ds == Demands(p)
  IN  SortedBy(ds, [i \in DOMAIN ds |-> <<-Score(ds[i], ds, policy.method), ds[i].day, ds[i].entered>>])

-----------------------------------------------------------------------------
(* Supplies of a pair, in the order they are used *)

Far(day) == IF day = Absent THEN 100000 ELSE day
ExpiryOf(lot) == IF lot = 0 THEN Absent ELSE Expiry[lot]

Fefo == policy.fefo \/ policy.method = "fefo_priority"

Eligible(p) ==
  {lot \in Lots : /\ p.lots[lot] > 0
                  /\ policy.released /\ lot # 0 => p.quality[lot] = "RELEASED"
                  /\ Far(ExpiryOf(lot)) >= Today}

(* What is held is taken off the first lots. *)
HoldLot(acc, x) ==
  LET take == IF x.qty < acc.hold THEN x.qty ELSE acc.hold
  IN  [hold |-> acc.hold - take,
       out |-> IF x.qty = take THEN acc.out
               ELSE Append(acc.out, [kind |-> "ONHAND", ref |-> x.lot, lot |-> x.lot,
                                     qty |-> x.qty - take, day |-> 0])]

LotsInOrder(p) ==
  LET order == InOrder(Eligible(p), [lot \in Eligible(p) |->
                 IF Fefo THEN <<Far(ExpiryOf(lot)), Far(ReceivedOn[lot])>> ELSE <<Far(ReceivedOn[lot])>>])
  IN  [n \in DOMAIN order |-> [lot |-> order[n], qty |-> p.lots[order[n]]]]

OnHandBut(held, p) == FoldLeft(HoldLot, [hold |-> held, out |-> <<>>], LotsInOrder(p)).out

\* mutant: what earlier runs pegged is held too
OnHandSuppliesPegged(p) == OnHandBut(p.committed + p.reserved + p.allocated, p)

OnHandSupplies(p) == OnHandBut(p.committed + p.reserved, p)

InboundSupplies(p) ==
  LET parts == SortedBy(p.inbound, [i \in DOMAIN p.inbound |-> <<p.inbound[i].day>>])
  IN  [i \in DOMAIN parts |->
        [kind |-> parts[i].kind, ref |-> parts[i].ref, lot |-> 0, qty |-> parts[i].qty,
         day |-> IF parts[i].day > 0 THEN parts[i].day ELSE 0]]

Supplies(p) == OnHandSupplies(p) \o InboundSupplies(p)

-----------------------------------------------------------------------------
(* peg_pair(): each demand in its rank takes from the supplies in theirs.   *)

(* What of supply j goes to the demand. *)
PegTake(acc, j) ==
  LET x == acc.from[j]
      take == IF acc.left[j] < acc.need THEN acc.left[j] ELSE acc.need
  IN  IF take = 0 THEN acc
      ELSE [acc EXCEPT !.left[j] = @ - take, !.need = @ - take,
                       !.pegs = Append(@, [kind |-> x.kind, ref |-> x.ref, lot |-> x.lot,
                                           demand |-> acc.demand.ref, qty |-> take,
                                           late |-> x.day > acc.demand.day])]

PegDemand(acc, d) ==
  FoldLeft(PegTake, [acc EXCEPT !.demand = d, !.need = d.qty], [j \in DOMAIN acc.from |-> j])

(* Every demand of a pair takes from what those before it left. *)
PegRanked(supplies, ranked) ==
  FoldLeft(PegDemand, [from |-> supplies, left |-> [j \in DOMAIN supplies |-> supplies[j].qty],
                       demand |-> <<>>, need |-> 0, pegs |-> <<>>], ranked).pegs

\* mutants: each demand finds all supplies; demands are served as they come
PegPairAgain(p) ==
  LET ranked == Ranked(p)
  IN  Joined([i \in DOMAIN ranked |-> PegRanked(Supplies(p), <<ranked[i]>>)])
PegPairUnranked(p) == PegRanked(Supplies(p), Demands(p))

PegPair(p) == PegRanked(Supplies(p), Ranked(p))

PegAll == [l \in Locations |-> PegPair(Inputs(l))]

ClaimsOf(plan) ==
  LET held == Where(plan, {i \in DOMAIN plan : plan[i].kind = "ONHAND"})
  IN  [i \in DOMAIN held |-> [lot |-> held[i].lot, qty |-> held[i].qty,
                              type |-> "ALLOCATED", manual |-> FALSE]]

Manual(mine) == Where(mine, {i \in DOMAIN mine : mine[i].manual})

-----------------------------------------------------------------------------
(* The tables after a sequence of messages. *)
Accept(t, m) == LET after == Handle(t, m, GeneratedId) IN IF after = Refused THEN t ELSE after
After(t, ms) == FoldLeft(Accept, t, ms)

NoTables ==
  [f \in DOMAIN NoDocuments \cup {"balance", "txns", "quality"} |->
     CASE f = "balance" -> [b \in Buckets |-> 0]
       [] f = "txns" -> <<>>
       [] f = "quality" -> [n \in 1..NLots |-> "RELEASED"]
       [] OTHER -> NoDocuments[f]]

AllocInit ==
  /\ now = 0
  /\ scope \in DOMAIN Scopes
  /\ policy \in Scopes[scope].policies
  /\ LET t == After(NoTables, Scopes[scope].past)
     IN  /\ balance = t.balance /\ txns = t.txns /\ quality = t.quality
         /\ docs = [f \in DOMAIN NoDocuments |-> t[f]]
  /\ claims = [l \in Locations |-> <<>>] /\ pegs = [l \in Locations |-> <<>>] /\ sales = <<>>
  /\ work = [w \in Sessions |-> Idle]
  /\ last = "other"
  /\ worth = [l \in Locations |-> Moved(l)]
  /\ events = 0

(* What a session has read is out of date once another one commits. *)
Outdated == [w \in Sessions |-> [work[w] EXCEPT !.fresh = FALSE]]

-----------------------------------------------------------------------------
(* What a message is worth to the position of a location.                   *)
Usable(lot) == lot = 0 \/ quality[lot] = "RELEASED"
OpenAt(m, l) ==     \* what a receipt takes off an open order of the location
  IF m.po = Absent \/ docs.po[m.po] = Absent \/ docs.po[m.po].dest # l THEN 0
  ELSE LET order == docs.po[m.po]
           Off(ln) == LET open == ln.ordered - ln.received
                      IN  IF ln.sku # Own \/ order.status = "RECEIVED" \/ open < 0 THEN 0
                          ELSE IF m.qty < open THEN m.qty ELSE open
       IN  SumFunction([i \in DOMAIN order.lines |-> Off(order.lines[i])])

Worth(m, l) ==
  CASE m.type = "InventoryReceived" ->
         (IF m.loc = l /\ m.sku = Own /\ Usable(m.lot) THEN m.qty ELSE 0)
           - (IF m.sku = Own THEN OpenAt(m, l) ELSE 0)
    [] m.type = "InventoryIssued"   -> IF m.loc = l THEN -m.qty ELSE 0
    [] m.type = "PurchaseOrderCreated" -> IF m.loc = l /\ m.sku = Own THEN m.qty ELSE 0
    [] m.type = "InventoryAdjusted" -> IF m.loc = l THEN m.counted - LotQty(l, 0) ELSE 0
    [] m.type = "QualityHold"       -> IF m.loc = l THEN -m.qty ELSE 0
    [] m.type = "QualityRelease"    -> IF m.loc = l THEN m.qty ELSE 0
    [] m.type = "TransferCreated"   ->
         (IF m.toLoc = l THEN m.qty ELSE 0) - (IF m.loc = l THEN m.qty ELSE 0)
    [] m.type = "TransferCompleted" ->
         LET order == docs.transfers[m.no]
             q == IF m.qty # 0 THEN m.qty ELSE order.qty
             more == q - (IF order.status = "OPEN" THEN order.qty - order.received ELSE 0)
         IN  (IF order.to = l THEN more ELSE 0) - (IF order.from = l THEN more ELSE 0)
    [] OTHER -> 0

(* An event is handled and committed. *)
Happen(m) ==
  LET t == Handle(Tables, m, GeneratedId)
  IN  /\ events < Scopes[scope].events
      /\ t # Refused
      /\ Store(t)
      /\ events' = events + 1
      /\ worth' = [l \in Locations |-> worth[l] + Worth(m, l)]
      /\ work' = Outdated /\ last' = "other"
      /\ UNCHANGED <<now, claims, pegs, sales, policy, scope>>

(* A row of sales orders is uploaded. *)
Sell ==
  /\ Len(sales) < Len(Scopes[scope].sales)
  /\ sales' = Append(sales, Scopes[scope].sales[Len(sales) + 1])
  /\ work' = Outdated /\ last' = "other"
  /\ UNCHANGED <<balance, txns, quality, now, docs, claims, pegs, worth, events, policy, scope>>

(* commit_allocation(): what is available is read,                          *)
\* mutant: a lot's stock is taken for what is left of it
GrantableLot(l, lot) ==
  IF lot = 0 THEN Available(Inputs(l)) ELSE LotQty(l, lot) - LotClaims(l, lot)

Grantable(l, lot) ==
  LET avail == Available(Inputs(l))
      inLot == LotQty(l, lot) - LotClaims(l, lot)
  IN  IF lot # 0 /\ inLot < avail THEN inLot ELSE avail

ByHand == SumFunction([l \in Locations |-> Len(Manual(claims[l]))])

Ask(w, l, c) ==
  /\ work[w].pc = "idle"
  /\ ByHand < Scopes[scope].claims
  /\ c.qty > 0 /\ c.qty <= Grantable(l, c.lot)
  /\ work' = [work EXCEPT ![w] = [Idle EXCEPT !.pc = "asked", !.fresh = TRUE, !.loc = l, !.claim = c]]
  /\ UNCHANGED <<balance, txns, quality, now, docs, claims, pegs, sales, last, worth, events, policy, scope>>

(* and the claim is inserted and committed.                                 *)
Grant(w) ==
  /\ work[w].pc = "asked"
  /\ claims' = [claims EXCEPT ![work[w].loc] = Append(@, work[w].claim)]
  /\ work' = [Outdated EXCEPT ![w] = Idle]
  /\ last' = "other"
  /\ UNCHANGED <<balance, txns, quality, now, docs, pegs, sales, worth, events, policy, scope>>

Release(l, i) ==
  /\ events < Scopes[scope].events
  /\ events' = events + 1
  /\ claims' = [claims EXCEPT ![l] = RemoveAt(@, i)]
  /\ work' = Outdated /\ last' = "other"
  /\ UNCHANGED <<balance, txns, quality, now, docs, pegs, sales, worth, policy, scope>>

(* run_pegging_all(): the snapshot is built,                                *)
PegRead(w) ==
  /\ work[w].pc = "idle"
  /\ work' = [work EXCEPT ![w] = [Idle EXCEPT !.pc = "pegging", !.fresh = TRUE, !.plan = PegAll]]
  /\ UNCHANGED <<balance, txns, quality, now, docs, claims, pegs, sales, last, worth, events, policy, scope>>

(* the claims of earlier runs and their pegs are deleted, the new ones      *)
(* inserted.                                                                *)
PegWrite(w) ==
  /\ work[w].pc = "pegging"
  /\ claims' = [l \in Locations |-> Manual(claims[l]) \o ClaimsOf(work[w].plan[l])]
  /\ pegs' = work[w].plan
  /\ work' = [Outdated EXCEPT ![w] = Idle]
  /\ last' = IF work[w].fresh THEN "pegged" ELSE "other"
  /\ UNCHANGED <<balance, txns, quality, now, docs, sales, worth, events, policy, scope>>

AllocNext ==
  \/ \E m \in Scopes[scope].msgs : Happen(m)
  \/ Sell
  \/ \E w \in Scopes[scope].sessions :
       \/ \E l \in Locations : \E c \in Scopes[scope].asks[l] : Ask(w, l, c)
       \/ Grant(w) \/ PegRead(w) \/ PegWrite(w)
  \/ \E l \in Locations : \E i \in DOMAIN claims[l] : Release(l, i)

AllocSpec == AllocInit /\ [][AllocNext]_allocVars

-----------------------------------------------------------------------------
(* Properties *)

(* What a pair's pegs take from a lot, from its stock, from an order, and   *)
(* what they give to a demand.                                              *)
FromLot(mine, lot) == QtyAt(mine, {i \in DOMAIN mine : mine[i].kind = "ONHAND" /\ mine[i].lot = lot})
FromStock(mine) == QtyAt(mine, {i \in DOMAIN mine : mine[i].kind = "ONHAND"})
FromOrder(mine, x) == QtyAt(mine, {i \in DOMAIN mine : mine[i].kind = x.kind /\ mine[i].ref = x.ref})
ToDemand(mine, d) == QtyAt(mine, {i \in DOMAIN mine : mine[i].demand = d.ref})

(* "a unit of supply is never pegged twice and a demand is never pegged     *)
(* beyond its quantity": pegs made from current data take no more of a lot, *)
(* an order or a production order than there is, together with what is      *)
(* committed and reserved no more than the usable stock, only from lots     *)
(* that may be used, and give no demand more than it asks for.              *)
PeggedOnce ==
  last = "pegged" =>
    \A l \in Locations :
      LET p == Inputs(l)
          mine == pegs[l]
          demands == Demands(p)
      IN  /\ \A lot \in Lots : FromLot(mine, lot) <= LotQty(l, lot)
          /\ FromStock(mine) > 0 => FromStock(mine) + p.committed + p.reserved <= p.usable
          /\ \A x \in Range(p.inbound) :
               FromOrder(mine, x)
                 <= QtyAt(p.inbound, {j \in DOMAIN p.inbound : p.inbound[j].kind = x.kind /\ p.inbound[j].ref = x.ref})
          /\ \A g \in Range(mine) :
               g.kind = "ONHAND" /\ g.lot # 0 =>
                 /\ Far(Expiry[g.lot]) >= Today
                 /\ policy.released => quality[g.lot] = "RELEASED"
          /\ \A d \in Range(demands) :
               ToDemand(mine, d) <= QtyAt(demands, {j \in DOMAIN demands : demands[j].ref = d.ref})

(* A demand goes short only when every supply of its location is used up,   *)
(* and then no demand ranked after it has got anything (lines of one order  *)
(* are one demand of several ranks).                                        *)
NoQueueJumping ==
  last = "pegged" =>
    \A l \in Locations :
      LET p == Inputs(l)
          mine == pegs[l]
          ranked == Ranked(p)
      IN  \A i \in DOMAIN ranked :
            ToDemand(mine, ranked[i]) < ranked[i].qty =>
              /\ QtyOf(mine) = QtyOf(Supplies(p))
              /\ \A j \in DOMAIN ranked :
                   (\A k \in 1..i : ranked[k].ref # ranked[j].ref) => ToDemand(mine, ranked[j]) = 0

(* Running again over data that did not change makes the same pegs and      *)
(* leaves the same claims, although the claims of the first run are part of *)
(* what the second one reads; and no run touches a claim made by hand.      *)
RepegStable ==
  [][\A w \in Sessions : PegWrite(w) =>
       /\ last = "pegged" /\ work[w].fresh => pegs' = pegs /\ claims' = claims
       /\ \A l \in Locations : Manual(claims[l])' = Manual(claims[l])]_allocVars

(* "Refuses to over-allocate": a claim granted on a reading no other        *)
(* session made out of date leaves every claim covered, in its location and *)
(* in its lot.                                                              *)
CommitCovered ==
  [][\A w \in Sessions : \A l \in Locations : \A lot \in Lots :
       Grant(w) /\ work[w].fresh /\ work[w].loc = l /\ work[w].claim.lot = lot =>
         /\ Available(Inputs(l))' >= 0
         /\ lot # 0 => LotClaims(l, lot)' <= LotQty(l, lot)']_allocVars

(* "a unit can never be counted in two buckets": whatever a message does to *)
(* balances, order lines, quantities in transit and transfer orders, it     *)
(* moves the position of each location by exactly what it is worth: an      *)
(* order counts from its creation, and its dispatch, its delays and its     *)
(* receipt change nothing more.                                             *)
PositionFollowsMessages == \A l \in Locations : Moved(l) = worth[l]
=============================================================================
