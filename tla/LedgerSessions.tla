--------------------------- MODULE LedgerSessions ---------------------------
(***************************************************************************)
(* post() and reverse() of app/services/ledger_service.py when requests of *)
(* several sessions interleave: one action is one SQL statement on         *)
(* PostgreSQL (READ COMMITTED) with the Python up to the next.  A posting  *)
(* moves a quantity of one item out of a bucket, into a bucket, or both.   *)
(*                                                                         *)
(* The ORM writes the quantity it computed, not a difference, and keeps    *)
(* the row the guard read for the write: Query.first() returns the object  *)
(* the session holds already, with the value loaded before.                *)
(***************************************************************************)
EXTENDS Integers, Sequences, FiniteSets, FiniteSetsExt

CONSTANTS
  Sessions,     \* database sessions, one per request in progress
  NoSession,    \* nobody has written the row
  Buckets,      \* (location, lot, state) of the item
  NoBucket,     \* a receipt has no source, an issue no destination
  LotNamed,     \* the rows name a lot, so that uq_balance tells them apart
  Quantities,   \* quantities of the postings
  Stock,        \* committed quantity of each bucket at first, 0 for no row
  ClientIds,    \* transaction ids chosen by a caller
  GeneratedId,  \* a uuid4 id
  Absent,       \* the committed value of a row that is not there
  Slots,        \* primary keys of a bucket's rows: one for each session is enough
  MaxPosts,     \* postings of one transaction: 1 for the ledger page, more for an upload
  MaxLog        \* bound on the postings

ASSUME SessionsAssumption ==
  /\ IsFiniteSet(Sessions) /\ NoSession \notin Sessions
  /\ NoBucket \notin Buckets
  /\ LotNamed \in BOOLEAN
  /\ Quantities \subseteq Nat \ {0}
  /\ Stock \in [Buckets -> Nat]
  /\ GeneratedId \notin ClientIds
  /\ Absent \notin Int
  /\ Slots # {} /\ 0 \notin Slots
  /\ MaxPosts \in Nat \ {0} /\ MaxLog \in Nat

Move == [from: Buckets \cup {NoBucket}, to: Buckets \cup {NoBucket}, qty: Quantities,
         id: ClientIds \cup {GeneratedId}, reverses: Nat]
None == [slot |-> 0, qty |-> 0]
NoMove == [from |-> NoBucket, to |-> NoBucket, qty |-> 0, id |-> GeneratedId, reverses |-> 0]

VARIABLES
  row,      \* the rows of inventory_balance: committed value, writer, value written
  log,      \* inventory_transaction, committed
  counter,  \* the session that holds the row of system.data_version
  pc,       \* what each session does next
  move,     \* the posting it is at
  begun,    \* the postings its transaction began
  have,     \* the row and quantity it read
  pending   \* the transactions it inserted and did not commit

vars == <<row, log, counter, pc, move, begun, have, pending>>

TypeOK ==
  /\ row \in [Buckets \X Slots -> [val: Int \cup {Absent}, by: Sessions \cup {NoSession}, new: Int]]
  /\ log \in Seq(Move)
  /\ counter \in Sessions \cup {NoSession}
  /\ pc \in [Sessions -> {"idle", "guard", "debit", "find", "create", "credit", "insert", "bump", "open"}]
  /\ move \in [Sessions -> Move \cup {NoMove}]
  /\ begun \in [Sessions -> 0..MaxPosts]
  /\ have \in [Sessions -> [slot: Slots \cup {0}, qty: Int]]
  /\ pending \in [Sessions -> Seq(Move)]

Init ==
  /\ row = [k \in Buckets \X Slots |->
              [val |-> IF k[2] = (CHOOSE i \in Slots : TRUE) /\ Stock[k[1]] > 0 THEN Stock[k[1]] ELSE Absent,
               by |-> NoSession, new |-> 0]]
  /\ log = <<>>
  /\ counter = NoSession
  /\ pc = [s \in Sessions |-> "idle"]
  /\ move = [s \in Sessions |-> NoMove]
  /\ begun = [s \in Sessions |-> 0]
  /\ have = [s \in Sessions |-> None]
  /\ pending = [s \in Sessions |-> <<>>]

-----------------------------------------------------------------------------
Go(s, where) == pc' = [pc EXCEPT ![s] = where]

(* The rows of a bucket a session sees, and the quantity it sees in one.    *)
Seen(s, b) == {i \in Slots : row[<<b, i>>].by = s \/ row[<<b, i>>].val # Absent}
SeenQty(s, b, i) == IF row[<<b, i>>].by = s THEN row[<<b, i>>].new ELSE row[<<b, i>>].val

Committed(s) == log \o pending[s]     \* the ledger as session s sees it

(* An UPDATE of a row waits for the transaction that wrote it. *)
Unlocked(s, k) == row[k].by \in {NoSession, s}

Written(s, k, qty) == [row EXCEPT ![k].by = s, ![k].new = qty]

-----------------------------------------------------------------------------
(* The checks of post() and reverse() before the balances are read.         *)
Begin(s, m) ==
  /\ pc[s] \in {"idle", "open"} /\ begun[s] < MaxPosts
  /\ Len(log) + MapThenSumSet(LAMBDA t : begun[t], Sessions) < MaxLog
  /\ m.id # GeneratedId => \A i \in 1..Len(Committed(s)) : Committed(s)[i].id # m.id
  /\ move' = [move EXCEPT ![s] = m]
  /\ begun' = [begun EXCEPT ![s] = @ + 1]
  /\ Go(s, "guard")
  /\ UNCHANGED <<row, log, counter, have, pending>>

(* The ledger page posts once; an upload posts row after row.               *)
Post(s) ==
  \E from, to \in Buckets \cup {NoBucket}, q \in Quantities, id \in ClientIds \cup {GeneratedId} :
    /\ from # to
    /\ \A i \in 1..Len(pending[s]) : pending[s][i].reverses = 0
    /\ Begin(s, [from |-> from, to |-> to, qty |-> q, id |-> id, reverses |-> 0])

Reverse(s) ==
  \E i \in 1..Len(log) :
    /\ pc[s] = "idle"
    /\ \A j \in 1..Len(log) : log[j].reverses # i
    /\ Begin(s, [from |-> log[i].to, to |-> log[i].from, qty |-> log[i].qty,
                 id |-> GeneratedId, reverses |-> i])

(* The negative-inventory guard. *)
Guard(s) ==
  /\ pc[s] = "guard"
  /\ IF move[s].from = NoBucket
     THEN Go(s, "find") /\ UNCHANGED have     \* it has a destination
     ELSE \E i \in Seen(s, move[s].from) :
            LET q == SeenQty(s, move[s].from, i)
            IN  /\ q >= move[s].qty
                /\ have' = [have EXCEPT ![s] = [slot |-> i, qty |-> q]]
                /\ Go(s, "debit")
  /\ UNCHANGED <<row, log, counter, move, begun, pending>>

(* The posting is refused: the ledger page gives up, and an upload goes on  *)
(* with its next row.                                                       *)
Refuse(s) ==
  /\ pc[s] = "guard" /\ move[s].from # NoBucket
  /\ \/ Seen(s, move[s].from) = {}
     \/ \E i \in Seen(s, move[s].from) : SeenQty(s, move[s].from, i) < move[s].qty
  /\ move' = [move EXCEPT ![s] = NoMove]
  /\ IF pending[s] = <<>>
     THEN Go(s, "idle") /\ begun' = [begun EXCEPT ![s] = 0]
     ELSE Go(s, "open") /\ UNCHANGED begun
  /\ UNCHANGED <<row, log, counter, have, pending>>

\* mutant: the database subtracts from what is there when the row is free
DebitInPlace(s) ==
  LET k == <<move[s].from, have[s].slot>>
  IN  /\ pc[s] = "debit"
      /\ Unlocked(s, k)
      /\ row' = Written(s, k, SeenQty(s, move[s].from, have[s].slot) - move[s].qty)
      /\ Go(s, IF move[s].to = NoBucket THEN "insert" ELSE "find")
      /\ UNCHANGED <<log, counter, move, begun, have, pending>>

Debit(s) ==
  LET k == <<move[s].from, have[s].slot>>
  IN  /\ pc[s] = "debit"
      /\ Unlocked(s, k)
      /\ row' = Written(s, k, have[s].qty - move[s].qty)
      /\ Go(s, IF move[s].to = NoBucket THEN "insert" ELSE "find")
      /\ UNCHANGED <<log, counter, move, begun, have, pending>>

(* _balance(): the row to credit, if there is one. *)
Find(s) ==
  /\ pc[s] = "find"
  /\ IF Seen(s, move[s].to) = {}
     THEN Go(s, "create") /\ UNCHANGED have
     ELSE \E i \in Seen(s, move[s].to) :
            /\ have' = [have EXCEPT ![s] = [slot |-> i, qty |-> SeenQty(s, move[s].to, i)]]
            /\ Go(s, "credit")
  /\ UNCHANGED <<row, log, counter, move, begun, pending>>

Vacant(b) == {i \in Slots : row[<<b, i>>].val = Absent /\ row[<<b, i>>].by = NoSession}

NewSlot(b) == CHOOSE i \in Vacant(b) : TRUE

\* mutant: uq_balance does not exist
CreateUnchecked(s) ==
  /\ pc[s] = "create"
  /\ row' = Written(s, <<move[s].to, NewSlot(move[s].to)>>, 0)
  /\ have' = [have EXCEPT ![s] = [slot |-> NewSlot(move[s].to), qty |-> 0]]
  /\ Go(s, "credit")
  /\ UNCHANGED <<log, counter, move, begun, pending>>

(* ... and a new one otherwise.  uq_balance makes the INSERT wait for a     *)
(* session that inserts the same row, but not when the lot is NULL.         *)
Create(s) ==
  /\ pc[s] = "create"
  /\ Vacant(move[s].to) # {} /\ (LotNamed => Vacant(move[s].to) = Slots)
  /\ row' = Written(s, <<move[s].to, NewSlot(move[s].to)>>, 0)
  /\ have' = [have EXCEPT ![s] = [slot |-> NewSlot(move[s].to), qty |-> 0]]
  /\ Go(s, "credit")
  /\ UNCHANGED <<log, counter, move, begun, pending>>

Credit(s) ==
  LET k == <<move[s].to, have[s].slot>>
  IN  /\ pc[s] = "credit"
      /\ Unlocked(s, k)
      /\ row' = Written(s, k, have[s].qty + move[s].qty)
      /\ Go(s, "insert")
      /\ UNCHANGED <<log, counter, move, begun, have, pending>>

Clash(s) == move[s].id # GeneratedId /\ \E i \in 1..Len(log) : log[i].id = move[s].id
AwaitedForId(s) ==
  {t \in Sessions \ {s} : /\ move[s].id # GeneratedId
                          /\ \E i \in 1..Len(pending[t]) : pending[t][i].id = move[s].id}

\* mutant: txn_id is not unique in the database
InsertUnchecked(s) ==
  /\ pc[s] = "insert"
  /\ pending' = [pending EXCEPT ![s] = Append(@, move[s])]
  /\ Go(s, "bump")
  /\ UNCHANGED <<row, log, counter, move, begun, have>>

(* The INSERT of the transaction waits for another session that inserted    *)
(* the same txn_id, and fails when that one committed.                      *)
Insert(s) ==
  /\ pc[s] = "insert"
  /\ ~Clash(s) /\ AwaitedForId(s) = {}
  /\ pending' = [pending EXCEPT ![s] = Append(@, move[s])]
  /\ Go(s, "bump")
  /\ UNCHANGED <<row, log, counter, move, begun, have>>

(* bump_version() writes the one row every transaction writes.              *)
Bump(s) ==
  /\ pc[s] = "bump"
  /\ counter \in {NoSession, s}
  /\ counter' = s
  /\ Go(s, "open")
  /\ move' = [move EXCEPT ![s] = NoMove]
  /\ have' = [have EXCEPT ![s] = None]
  /\ UNCHANGED <<row, log, begun, pending>>

Finish(s) ==
  /\ counter' = IF counter = s THEN NoSession ELSE counter
  /\ pending' = [pending EXCEPT ![s] = <<>>]
  /\ begun' = [begun EXCEPT ![s] = 0]
  /\ move' = [move EXCEPT ![s] = NoMove]
  /\ have' = [have EXCEPT ![s] = None]
  /\ Go(s, "idle")

Commit(s) ==
  /\ pc[s] = "open"
  /\ log' = log \o pending[s]
  /\ row' = [k \in Buckets \X Slots |->
               IF row[k].by = s THEN [val |-> row[k].new, by |-> NoSession, new |-> 0] ELSE row[k]]
  /\ Finish(s)

RollBack(s) ==
  /\ row' = [k \in Buckets \X Slots |->
               IF row[k].by = s THEN [row[k] EXCEPT !.by = NoSession, !.new = 0] ELSE row[k]]
  /\ UNCHANGED log
  /\ Finish(s)

(* IntegrityError: the request fails as a whole.                            *)
Fail(s) ==
  /\ \/ pc[s] = "insert" /\ Clash(s)
     \/ pc[s] = "create" /\ LotNamed /\ \E i \in Slots : row[<<move[s].to, i>>].val # Absent
  /\ RollBack(s)

-----------------------------------------------------------------------------
(* Waiting: who a session waits for, and what PostgreSQL does about a cycle. *)

WaitsFor(s) ==
  CASE pc[s] = "debit" -> {row[<<move[s].from, have[s].slot>>].by}
    [] pc[s] = "credit" -> {row[<<move[s].to, have[s].slot>>].by}
    [] pc[s] = "create" /\ LotNamed ->
         {row[<<move[s].to, i>>].by : i \in Slots}
    [] pc[s] = "insert" -> AwaitedForId(s)
    [] pc[s] = "bump" -> {counter}
    [] OTHER -> {}

Blockers(s) == WaitsFor(s) \ {s, NoSession}

\* mutant: the database does not look for cycles
NeverDeadlocked(s) == FALSE

Deadlocked(s) ==
  LET reached[n \in Nat] ==
        IF n = 0 THEN Blockers(s)
        ELSE reached[n-1] \cup UNION {Blockers(t) : t \in reached[n-1]}
  IN  s \in reached[Cardinality(Sessions)]

AbortDeadlock(s) == Deadlocked(s) /\ RollBack(s)

Step(s) ==
  \/ Guard(s) \/ Refuse(s) \/ Debit(s) \/ Find(s) \/ Create(s) \/ Credit(s) \/ Insert(s) \/ Bump(s)
  \/ Commit(s) \/ Fail(s) \/ AbortDeadlock(s)

Next == \E s \in Sessions : Post(s) \/ Reverse(s) \/ Step(s)

(* Threads run on, and PostgreSQL grants a lock in the order of arrival.    *)
Spec == Init /\ [][Next]_vars /\ \A s \in Sessions : SF_vars(Step(s))

-----------------------------------------------------------------------------
(* Properties *)

(* The committed stock of no row is negative, although the guard and the    *)
(* write of a posting are separate statements and other sessions write in   *)
(* between: what is written is what the guard saw, less the quantity.       *)
NoNegativeRow == \A k \in Buckets \X Slots : row[k].val # Absent => row[k].val >= 0

(* A transaction id is posted once, whatever sessions post it together.     *)
UniqueTxnIds ==
  \A i, j \in 1..Len(log) : log[i].id = log[j].id /\ log[i].id # GeneratedId => i = j

(* "uq_balance": a bucket has one row when its lot is named. *)
OneRowPerBucket ==
  \A b \in Buckets : Cardinality({i \in Slots : row[<<b, i>>].val # Absent}) <= 1

(* Every request ends, committed, refused or aborted: no wait for a row, a  *)
(* transaction id or the version counter lasts for ever.                    *)
RequestsEnd == \A s \in Sessions : (pc[s] # "idle") ~> (pc[s] = "idle")

Flow(m, b) == (IF m.to = b THEN m.qty ELSE 0) - (IF m.from = b THEN m.qty ELSE 0)
RowsTotal(b) ==
  MapThenSumSet(LAMBDA i : IF row[<<b, i>>].val = Absent THEN 0 ELSE row[<<b, i>>].val, Slots)

(* "Opening balance + sum of transactions = Closing balance" of each bucket *)
(* once every session is idle.                                              *)
ChainAcrossSessions ==
  (\A s \in Sessions : pc[s] = "idle") =>
    \A b \in Buckets :
      RowsTotal(b) = Stock[b] + MapThenSumSet(LAMBDA i : Flow(log[i], b), 1..Len(log))
=============================================================================
