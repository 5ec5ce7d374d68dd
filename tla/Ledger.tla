------------------------------- MODULE Ledger -------------------------------
(***************************************************************************)
(* The append-only stock ledger of one item                                *)
(* (app/services/ledger_service.py) and the code that posts to it: the     *)
(* ledger page, uploads, cycle counts, balance loads, quality events and   *)
(* reversals.  One action is one request that commits; a request that      *)
(* raises is rolled back by its caller and changes nothing, so it is the   *)
(* absence of a step.  Quantities are whole base units.                    *)
(***************************************************************************)
EXTENDS Integers, Sequences, FiniteSets, PartialSums

CONSTANTS
  Locations,    \* the locations of the item
  NoLoc,        \* the column to_location_id is NULL
  NLots,        \* the item's lots are 1..NLots; lot 0 is lot_id NULL
  LotTracked,   \* Item.lot_tracked
  ClientIds,    \* transaction ids chosen by a caller
  GeneratedId,  \* a uuid4 id, unique by construction
  PostTypes,    \* transaction types callers post in this instance
  Quantities,   \* quantities callers send, negative ones included
  LotQuality,   \* quality statuses a lot may start with
  TicksPerDay,  \* resolution of the clock
  AsOfPinned,   \* the setting system.as_of holds a date
  MaxTick,      \* bound on the clock
  MaxTxns       \* bound on the length of the ledger

TxnTypes == {"OPENING", "RECEIPT", "ISSUE", "TRANSFER", "ADJUSTMENT", "ALLOCATION",
             "DEALLOCATION", "SHIPMENT", "RETURN", "PROD_CONSUMPTION",
             "PROD_COMPLETION", "QUARANTINE", "RELEASE", "SCRAP", "CYCLE_COUNT"}
CountTypes == {"ADJUSTMENT", "CYCLE_COUNT"}
Directions == {"IN", "OUT"}
QualityStatuses == {"RELEASED", "QUARANTINE", "REJECTED", "BLOCKED"}

ASSUME LedgerAssumption ==
  /\ NoLoc \notin Locations
  /\ IsFiniteSet(Locations)
  /\ GeneratedId \notin ClientIds
  /\ NLots \in Nat
  /\ LotTracked \in BOOLEAN
  /\ PostTypes \subseteq TxnTypes
  /\ Quantities \subseteq Int
  /\ LotQuality \subseteq QualityStatuses
  /\ TicksPerDay \in Nat \ {0}
  /\ AsOfPinned \in BOOLEAN
  /\ MaxTick \in Nat
  /\ MaxTxns \in Nat

(* The physical states some posting names; the other states of            *)
(* DEFAULT_STATES are reached by no posting that is modelled here.         *)
OnHandStates == {"UNRESTRICTED", "QUARANTINED", "BLOCKED", "RETURNED"}
States == OnHandStates \cup {"SCRAP"}
NoState == "none"                    \* state_from / state_to is NULL

Lots == 0..NLots
Buckets == Locations \X Lots \X States     \* the rows of inventory_balance

VARIABLES
  balance,   \* quantity of each bucket
  txns,      \* inventory_transaction, in the order of their primary key
  quality,   \* Lot.quality_status
  now        \* S.now()

vars == <<balance, txns, quality, now>>

(* What a caller of post() passes. *)
Request == [type: TxnTypes, loc: Locations, toLoc: Locations \cup {NoLoc}, lot: Lots,
            qty: Int, from: States \cup {NoState}, to: States \cup {NoState},
            dir: Directions, id: ClientIds \cup {GeneratedId}]

(* A stored row.  reversalOf is the index of the reversed row, 0 for none.  *)
(* The table has no direction column: dir is kept only so that properties   *)
(* can say what the posting really did.                                     *)
Row == [type: TxnTypes, loc: Locations, toLoc: Locations \cup {NoLoc}, lot: Lots,
        qty: Nat, from: States \cup {NoState}, to: States \cup {NoState},
        dir: Directions, id: ClientIds \cup {GeneratedId},
        before: Int, after: Int, at: Nat, reversalOf: Nat]

TypeOK ==
  /\ balance \in [Buckets -> Int]
  /\ txns \in Seq(Row)
  /\ quality \in [1..NLots -> QualityStatuses]
  /\ now \in Nat

-----------------------------------------------------------------------------
(* Movements: effects() yields at most one bucket that is debited and at    *)
(* most one that is credited.                                               *)

Or(state, default) == IF state = NoState THEN default ELSE state

Debit(r) ==
  CASE r.type \in {"ISSUE", "SHIPMENT", "PROD_CONSUMPTION", "SCRAP", "TRANSFER", "QUARANTINE"} ->
         {<<r.loc, r.lot, Or(r.from, "UNRESTRICTED")>>}
    [] r.type = "RELEASE" ->
         {<<r.loc, r.lot, Or(r.from, "QUARANTINED")>>}
    [] r.type \in CountTypes /\ r.dir = "OUT" ->
         {<<r.loc, r.lot, Or(r.from, "UNRESTRICTED")>>}
    [] OTHER -> {}

Credit(r) ==
  CASE r.type \in {"OPENING", "RECEIPT", "PROD_COMPLETION", "RELEASE"} ->
         {<<r.loc, r.lot, Or(r.to, "UNRESTRICTED")>>}
    [] r.type = "RETURN" -> {<<r.loc, r.lot, Or(r.to, "RETURNED")>>}
    [] r.type = "SCRAP" -> {<<r.loc, r.lot, "SCRAP">>}
    [] r.type = "TRANSFER" -> {<<r.toLoc, r.lot, Or(r.to, Or(r.from, "UNRESTRICTED"))>>}
    [] r.type = "QUARANTINE" -> {<<r.loc, r.lot, Or(r.to, "QUARANTINED")>>}
    [] r.type \in CountTypes /\ r.dir = "IN" ->
         {<<r.loc, r.lot, Or(r.to, "UNRESTRICTED")>>}
    [] OTHER -> {}

(* The change a movement makes to one bucket. *)
Delta(r, b) == (IF b \in Credit(r) THEN r.qty ELSE 0) - (IF b \in Debit(r) THEN r.qty ELSE 0)

\* mutant: the outgoing leg is forgotten
ApplyIncoming(bal, r) == [b \in Buckets |-> bal[b] + IF b \in Credit(r) THEN r.qty ELSE 0]

Apply(bal, r) == [b \in Buckets |-> bal[b] + Delta(r, b)]

(* The stock of one lot at a location over the on-hand states. *)
LotOnHand(bal, l, lot) ==
  bal[<<l, lot, "UNRESTRICTED">>] + bal[<<l, lot, "QUARANTINED">>]
    + bal[<<l, lot, "BLOCKED">>] + bal[<<l, lot, "RETURNED">>]

(* The change a movement makes to a location's on-hand. *)
OnHandDelta(r, l) ==
  LET At(bs) == IF \E b \in bs : b[1] = l /\ b[3] \in OnHandStates THEN r.qty ELSE 0
  IN  At(Credit(r)) - At(Debit(r))

(* on_hand(): all lots of the item together. *)
OnHand(bal, l) == SumTo([lot \in Nat |-> IF lot \in Lots THEN LotOnHand(bal, l, lot) ELSE 0])[NLots]

-----------------------------------------------------------------------------
(* post() *)

(* A receipt of a lot that is not released is put aside unless the caller   *)
(* names the state.                                                         *)
Resolve(r) ==
  IF /\ r.type \in {"RECEIPT", "PROD_COMPLETION"} /\ r.lot # 0 /\ r.to = NoState
     /\ quality[r.lot] # "RELEASED"
  THEN [r EXCEPT !.to = IF quality[r.lot] = "QUARANTINE" THEN "QUARANTINED" ELSE "BLOCKED"]
  ELSE r

\* mutant: the balance that covers the quantity is not looked up
AcceptsUncovered(bal, log, r) ==
  r.qty >= 0 /\ (r.type = "TRANSFER" => r.toLoc # NoLoc)

Accepts(bal, log, r) ==
  /\ r.qty >= 0
  /\ r.id # GeneratedId => \A i \in 1..Len(log) : log[i].id # r.id
  /\ LotTracked /\ r.lot = 0 => r.type \in CountTypes \cup {"ALLOCATION", "DEALLOCATION"}
  /\ r.type = "TRANSFER" => r.toLoc # NoLoc
  /\ \A b \in Debit(r) : bal[b] >= r.qty

\* mutant: the on-hand figures of a row are those of its lot
RowOfLot(bal, r, reversed) ==
  [type |-> r.type, loc |-> r.loc, toLoc |-> r.toLoc, lot |-> r.lot, qty |-> r.qty,
   from |-> r.from, to |-> r.to, dir |-> r.dir, id |-> r.id,
   before |-> LotOnHand(bal, r.loc, r.lot), after |-> LotOnHand(Apply(bal, r), r.loc, r.lot),
   at |-> now, reversalOf |-> reversed]

RowOf(bal, r, reversed) ==
  [type |-> r.type, loc |-> r.loc, toLoc |-> r.toLoc, lot |-> r.lot, qty |-> r.qty,
   from |-> r.from, to |-> r.to, dir |-> r.dir, id |-> r.id,
   before |-> OnHand(bal, r.loc), after |-> OnHand(Apply(bal, r), r.loc),
   at |-> now, reversalOf |-> reversed]

(* One posting that is committed. *)
Book(request, reversed) ==
  LET r == Resolve(request)
  IN  /\ Len(txns) < MaxTxns
      /\ Accepts(balance, txns, r)
      /\ balance' = Apply(balance, r)
      /\ txns' = Append(txns, RowOf(balance, r, reversed))

(* Two postings of one request: the second sees the balances the first      *)
(* left, and when it is refused the request commits neither.  Neither is a  *)
(* receipt, so Resolve leaves both as they are.                             *)
BookBoth(first, second, reversed) ==
  LET mid == Apply(balance, first)
      log == Append(txns, RowOf(balance, first, reversed))
  IN  /\ Len(txns) + 1 < MaxTxns
      /\ Accepts(balance, txns, first)
      /\ Accepts(mid, log, second)
      /\ balance' = Apply(mid, second)
      /\ txns' = Append(log, RowOf(mid, second, 0))

Plain(type, l, lot, q) ==
  [type |-> type, loc |-> l, toLoc |-> NoLoc, lot |-> lot, qty |-> q,
   from |-> NoState, to |-> NoState, dir |-> "IN", id |-> GeneratedId]
-----------------------------------------------------------------------------
Init ==
  /\ balance = [b \in Buckets |-> 0]
  /\ txns = <<>>
  /\ quality \in [1..NLots -> LotQuality]
  /\ now = 0

(* The ledger page, an upload of transactions, a received or issued event.  *)
(* None of them passes a state; only a transfer uses the second location    *)
(* and only an adjustment or count the direction.                           *)
Post ==
  \E type \in PostTypes, l \in Locations, to \in Locations \cup {NoLoc}, lot \in Lots,
     q \in Quantities, d \in Directions, id \in ClientIds \cup {GeneratedId} :
    /\ type # "TRANSFER" => to = NoLoc
    /\ type \notin CountTypes => d = "IN"
    /\ Book([Plain(type, l, lot, q) EXCEPT !.toLoc = to, !.dir = d, !.id = id], 0)
    /\ UNCHANGED <<quality, now>>

(* cycle_count(): book the difference between the count and the bucket. *)
Recount(l, lot, state, counted) ==
  LET system == balance[<<l, lot, state>>]
  IN  /\ counted # system
      /\ Book([Plain("CYCLE_COUNT", l, lot,
                     IF counted > system THEN counted - system ELSE system - counted)
                 EXCEPT !.dir = IF counted > system THEN "IN" ELSE "OUT",
                        !.from = state, !.to = state], 0)

(* An InventoryAdjusted event names no lot and no state. *)
CycleCount ==
  /\ \E l \in Locations, counted \in Quantities : Recount(l, 0, "UNRESTRICTED", counted)
  /\ UNCHANGED <<quality, now>>

(* A bucket has a database row once some posting touched it. *)
HasRow(b) == \E i \in 1..Len(txns) : b \in Debit(txns[i]) \cup Credit(txns[i])

(* An uploaded balance: a receipt into the named state when the bucket has  *)
(* no row yet, a count of it otherwise.                                     *)
LoadBalance ==
  /\ \E l \in Locations, lot \in Lots, state \in States, q \in Quantities :
       /\ q >= 0
       /\ q # balance[<<l, lot, state>>]
       /\ IF HasRow(<<l, lot, state>>)
          THEN Recount(l, lot, state, q)
          ELSE Book([Plain("RECEIPT", l, lot, q) EXCEPT !.to = state], 0)
  /\ UNCHANGED <<quality, now>>

(* Quality events: the posting and the new status of the lot are one        *)
(* savepoint.                                                               *)
QualityHold ==
  \E l \in Locations, lot \in 1..NLots, q \in Quantities :
    /\ Book(Plain("QUARANTINE", l, lot, q), 0)
    /\ quality' = [quality EXCEPT ![lot] = "QUARANTINE"]
    /\ UNCHANGED now

QualityRelease ==
  \E l \in Locations, lot \in 1..NLots, q \in Quantities :
    /\ Book(Plain("RELEASE", l, lot, q), 0)
    /\ quality' = [quality EXCEPT ![lot] = "RELEASED"]
    /\ UNCHANGED now

-----------------------------------------------------------------------------
(* reverse() *)

\* mutant: the reversing row is looked at, not the reversed one
IsReversing(i) == txns[i].reversalOf # 0

IsReversed(i) == \E j \in 1..Len(txns) : txns[j].reversalOf = i

(* The types whose reversal is one posting, and that posting. *)
InboundTypes == {"RECEIPT", "PROD_COMPLETION", "OPENING"}
OutboundTypes == {"ISSUE", "SHIPMENT", "PROD_CONSUMPTION"}
SingleTypes == InboundTypes \cup OutboundTypes \cup CountTypes \cup {"RETURN", "TRANSFER"}

\* mutant: every reversal brings the quantity back in
OppositeInward(t) == [Plain("ADJUSTMENT", t.loc, t.lot, t.qty) EXCEPT !.to = t.from]

Opposite(t) ==
  CASE t.type \in InboundTypes ->
         [Plain(IF t.type = "PROD_COMPLETION" THEN "PROD_CONSUMPTION" ELSE "ISSUE",
                t.loc, t.lot, t.qty) EXCEPT !.from = Or(t.to, "UNRESTRICTED")]
    [] t.type \in OutboundTypes ->
         [Plain("RECEIPT", t.loc, t.lot, t.qty) EXCEPT !.to = Or(t.from, "UNRESTRICTED")]
    [] t.type = "RETURN" ->
         [Plain("ISSUE", t.loc, t.lot, t.qty) EXCEPT !.from = "RETURNED"]
    [] t.type = "TRANSFER" ->
         [Plain("TRANSFER", t.toLoc, t.lot, t.qty)
            EXCEPT !.toLoc = t.loc, !.from = Or(t.to, t.from), !.to = t.from]
    [] OTHER ->
         [Plain("ADJUSTMENT", t.loc, t.lot, t.qty)
            EXCEPT !.dir = IF t.after >= t.before THEN "OUT" ELSE "IN",
                   !.from = t.to, !.to = t.from]

(* A change of state is undone by two adjustments, one into the state the   *)
(* row left and one out of the state it entered.                            *)
StateChangeTypes == {"QUARANTINE", "RELEASE", "SCRAP"}

PutBack(t) ==
  [Plain("ADJUSTMENT", t.loc, t.lot, t.qty) EXCEPT !.to = Or(t.from, "UNRESTRICTED")]
\* mutant: stock is taken out of the default state
TakeOutDefault(t) == [Plain("ADJUSTMENT", t.loc, t.lot, t.qty) EXCEPT !.dir = "OUT"]

TakeOut(t) ==
  [Plain("ADJUSTMENT", t.loc, t.lot, t.qty)
     EXCEPT !.dir = "OUT", !.from = Or(t.to, "QUARANTINED")]

ReverseTxn(i) ==
  /\ ~IsReversed(i)
  /\ \/ txns[i].type \in SingleTypes /\ Book(Opposite(txns[i]), i)
     \/ txns[i].type \in StateChangeTypes /\ BookBoth(PutBack(txns[i]), TakeOut(txns[i]), i)
  /\ UNCHANGED <<quality, now>>

(* The clock of S.now(): a pinned as-of date keeps the day and takes only   *)
(* the time of day from the wall clock.                                     *)
Tick ==
  /\ now < MaxTick
  /\ now' = IF AsOfPinned THEN (now + 1) % TicksPerDay ELSE now + 1
  /\ UNCHANGED <<balance, txns, quality>>

Next ==
  \/ Post
  \/ CycleCount
  \/ LoadBalance
  \/ QualityHold
  \/ QualityRelease
  \/ \E i \in 1..Len(txns) : ReverseTxn(i)
  \/ Tick

Spec == Init /\ [][Next]_vars

-----------------------------------------------------------------------------
(* Replay from the stored columns *)

(* The direction of a count is not stored; it is read off the two on-hand   *)
(* figures of the row.                                                      *)
Inferred(t) ==
  [t EXCEPT !.dir = IF t.type \in CountTypes /\ t.after < t.before THEN "OUT" ELSE "IN"]

\* mutant: a transfer does not reach its destination
DeltaAtSource(t, l) == IF t.loc = l THEN OnHandDelta(Inferred(t), l) ELSE 0

(* _delta_at(): the change of a location's on-hand the columns imply. *)
DeltaAt(t, l) == OnHandDelta(Inferred(t), l)

(* The running total of a location after each row, in the order of ids. *)
Replay(log, l) == SumTo([i \in Nat |-> IF i \in 1..Len(log) THEN DeltaAt(log[i], l) ELSE 0])

-----------------------------------------------------------------------------
(* Properties *)

(* "a verifiable chain: Opening balance + sum of transactions = Closing     *)
(* balance", in posting order: replaying the columns of the first i-1 rows  *)
(* gives the on-hand-before of row i, and replaying all of them gives the   *)
(* on-hand the balances hold, although neither the direction of a count nor *)
(* the destination's on-hand of a transfer is stored.                       *)
ChainInPostingOrder ==
  /\ \A l \in Locations : Replay(txns, l)[Len(txns)] = OnHand(balance, l)
  /\ \A i \in 1..Len(txns) : Replay(txns, txns[i].loc)[i-1] = txns[i].before

(* No sequence of postings, counts, loads and reversals drives any bucket   *)
(* below zero: the guard of post() is evaluated before any write and once   *)
(* for each of the two postings of a state-change reversal.                 *)
NoNegativeStock == \A b \in Buckets : balance[b] >= 0

(* A transaction id chosen by a caller is posted at most once, whatever     *)
(* route it comes by.                                                       *)
UniqueTxnIds ==
  \A i, j \in 1..Len(txns) : txns[i].id = txns[j].id /\ txns[i].id # GeneratedId => i = j

(* A row is reversed at most once, and only by a later row; a reversing row *)
(* is itself open to reversal.                                              *)
ReversedOnce ==
  /\ \A i \in 1..Len(txns) : txns[i].reversalOf < i
  /\ \A i, j \in 1..Len(txns) :
       txns[i].reversalOf = txns[j].reversalOf /\ txns[i].reversalOf # 0 => i = j

(* The step in which row i is reversed undoes, in every bucket, what        *)
(* posting row i did.                                                       *)
UndoesRow(i) ==
  ~IsReversed(i) /\ IsReversed(i)' =>
    \A b \in Buckets : balance'[b] - balance[b] = -Delta(txns[i], b)

(* Rows whose reversal the table's columns are enough for: RELEASE, SCRAP   *)
(* and counts that lowered an off-hand state are not among them.            *)
Undoable(t) ==
  /\ t.type \notin {"RELEASE", "SCRAP"}
  /\ ~(t.type \in CountTypes /\ t.dir = "OUT" /\ Or(t.from, "UNRESTRICTED") \notin OnHandStates)

(* "Post an opposite transaction": reversing an undoable row, including a   *)
(* row that is itself a reversal, restores every bucket it touched, also    *)
(* when the lot was put on hold since.                                      *)
ReverseIsOpposite == [][\A i \in 1..Len(txns) : Undoable(txns[i]) => UndoesRow(i)]_vars
=============================================================================
