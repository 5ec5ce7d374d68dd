---------------------------- MODULE LedgerProofs ----------------------------
(***************************************************************************)
(* Theorems about the ledger for every set of locations, every number of   *)
(* lots, every quantity and every length of the log.                       *)
(***************************************************************************)
EXTENDS LedgerReport, NatLemmas

-----------------------------------------------------------------------------
(* Movements and on-hand *)

(* The fields of a request or a row that a movement depends on. *)
Typed(r) ==
  /\ r.type \in TxnTypes /\ r.loc \in Locations /\ r.lot \in Lots
  /\ r.from \in States \cup {NoState} /\ r.to \in States \cup {NoState}
  /\ r.dir \in Directions
  /\ r.type = "TRANSFER" => r.toLoc \in Locations

(* A set of buckets that is empty or holds one bucket of the lot. *)
AtMostOne(bs, lot) == bs = {} \/ \E x \in Locations, s \in States : bs = {<<x, lot, s>>}

(* A movement debits at most one bucket and credits at most one, both of    *)
(* the same lot.                                                            *)
LEMMA MoveShape ==
  ASSUME NEW r, Typed(r)
  PROVE  /\ AtMostOne(Debit(r), r.lot)
         /\ AtMostOne(Credit(r), r.lot)
<1>1. /\ Or(r.from, "UNRESTRICTED") \in States /\ Or(r.from, "QUARANTINED") \in States
      /\ Or(r.to, "UNRESTRICTED") \in States /\ Or(r.to, "RETURNED") \in States
      /\ Or(r.to, "QUARANTINED") \in States
      /\ Or(r.to, Or(r.from, "UNRESTRICTED")) \in States /\ "SCRAP" \in States
  BY DEF Typed, Or, States, OnHandStates
<1>2. AtMostOne(Debit(r), r.lot)
  BY <1>1 DEF Debit, Typed, AtMostOne
<1>3. AtMostOne(Credit(r), r.lot)
  BY <1>1 DEF Credit, Typed, AtMostOne
<1> QED BY <1>2, <1>3

(* What a set of buckets contributes to one bucket, to the on-hand states   *)
(* of one lot, and to the on-hand of a location.                            *)
Part(bs, b, q) == IF b \in bs THEN q ELSE 0
LotPart(bs, l, lot, q) ==
  Part(bs, <<l, lot, "UNRESTRICTED">>, q) + Part(bs, <<l, lot, "QUARANTINED">>, q)
    + Part(bs, <<l, lot, "BLOCKED">>, q) + Part(bs, <<l, lot, "RETURNED">>, q)
AtLoc(bs, l, q) == IF \E b \in bs : b[1] = l /\ b[3] \in OnHandStates THEN q ELSE 0

(* At most one bucket contributes to the lot it belongs to, and to no other *)
LEMMA PartsOfLot ==
  ASSUME NEW bs, NEW lot, NEW m, NEW q \in Int, NEW l,
         AtMostOne(bs, m)
  PROVE  /\ LotPart(bs, l, lot, q) = IF lot = m THEN AtLoc(bs, l, q) ELSE 0
         /\ LotPart(bs, l, lot, q) \in Int /\ AtLoc(bs, l, q) \in Int
<1>1. CASE bs = {}
  BY <1>1 DEF LotPart, Part, AtLoc
<1>2. CASE bs # {}
  <2>1. PICK x \in Locations, s \in States : bs = {<<x, m, s>>} BY <1>2 DEF AtMostOne
  <2>2. (\E b \in bs : b[1] = l /\ b[3] \in OnHandStates) <=> x = l /\ s \in OnHandStates
    BY <2>1
  <2>3. \A st : <<l, lot, st>> \in bs <=> l = x /\ lot = m /\ st = s
    BY <2>1
  <2> QED BY <2>2, <2>3 DEF OnHandStates, LotPart, Part, AtLoc
<1> QED BY <1>1, <1>2

(* The on-hand of a location is an integer. *)
LEMMA OnHandInt ==
  ASSUME NEW bal \in [Buckets -> Int], NEW l \in Locations
  PROVE  /\ OnHand(bal, l) \in Int
         /\ [lot \in Nat |-> IF lot \in Lots THEN LotOnHand(bal, l, lot) ELSE 0] \in [Nat -> Int]
<1>1. \A lot \in Lots : LotOnHand(bal, l, lot) \in Int
  BY DEF LotOnHand, Buckets, States, OnHandStates
<1>2. [lot \in Nat |-> IF lot \in Lots THEN LotOnHand(bal, l, lot) ELSE 0] \in [Nat -> Int]
  BY <1>1
<1>3. NLots \in Nat BY LedgerAssumption
<1> QED BY <1>2, <1>3, SumToStep DEF OnHand

(* Applying a movement leaves integers, and moves the on-hand of every      *)
(* location by the movement's delta there: the lemma the chain rests on.    *)
LEMMA OnHandApply ==
  ASSUME NEW bal \in [Buckets -> Int], NEW r, Typed(r), r.qty \in Int, NEW l \in Locations
  PROVE  /\ Apply(bal, r) \in [Buckets -> Int]
         /\ OnHandDelta(r, l) \in Int
         /\ OnHand(Apply(bal, r), l) = OnHand(bal, l) + OnHandDelta(r, l)
<1> DEFINE f == [lot \in Nat |-> IF lot \in Lots THEN LotOnHand(bal, l, lot) ELSE 0]
           g == [lot \in Nat |-> IF lot \in Lots THEN LotOnHand(Apply(bal, r), l, lot) ELSE 0]
           inn(lot) == LotPart(Credit(r), l, lot, r.qty)
           out(lot) == LotPart(Debit(r), l, lot, r.qty)
<1>1. Apply(bal, r) \in [Buckets -> Int]
  BY DEF Apply, Delta
<1>2. /\ AtMostOne(Debit(r), r.lot)
      /\ AtMostOne(Credit(r), r.lot)
  BY MoveShape
<1>3. ASSUME NEW lot \in Lots
      PROVE  LotOnHand(Apply(bal, r), l, lot) = LotOnHand(bal, l, lot) + inn(lot) - out(lot)
  <2>1. ASSUME NEW s \in OnHandStates
        PROVE  /\ bal[<<l, lot, s>>] \in Int
               /\ Part(Credit(r), <<l, lot, s>>, r.qty) \in Int
               /\ Part(Debit(r), <<l, lot, s>>, r.qty) \in Int
               /\ Apply(bal, r)[<<l, lot, s>>]
                    = bal[<<l, lot, s>>] + Part(Credit(r), <<l, lot, s>>, r.qty)
                                         - Part(Debit(r), <<l, lot, s>>, r.qty)
    <3>1. <<l, lot, s>> \in Buckets BY DEF Buckets, States
    <3> QED BY <3>1 DEF Apply, Delta, Part
  <2>2. /\ "UNRESTRICTED" \in OnHandStates /\ "QUARANTINED" \in OnHandStates
        /\ "BLOCKED" \in OnHandStates /\ "RETURNED" \in OnHandStates
    BY DEF OnHandStates
  <2> QED BY <2>1, <2>2 DEF LotOnHand, LotPart
<1>4. ASSUME NEW lot
      PROVE  /\ inn(lot) = IF lot = r.lot THEN AtLoc(Credit(r), l, r.qty) ELSE 0
             /\ out(lot) = IF lot = r.lot THEN AtLoc(Debit(r), l, r.qty) ELSE 0
             /\ AtLoc(Credit(r), l, r.qty) \in Int /\ AtLoc(Debit(r), l, r.qty) \in Int
  BY <1>2, PartsOfLot
<1>5. f \in [Nat -> Int] /\ g \in [Nat -> Int]
  BY <1>1, OnHandInt
<1>6. r.lot \in Lots /\ r.lot \in Nat /\ NLots \in Nat /\ r.lot <= NLots
  BY LedgerAssumption DEF Typed, Lots
<1>7. /\ OnHandDelta(r, l) = AtLoc(Credit(r), l, r.qty) - AtLoc(Debit(r), l, r.qty)
      /\ OnHandDelta(r, l) \in Int
  BY <1>4 DEF OnHandDelta, AtLoc
<1>8. g[r.lot] = f[r.lot] + OnHandDelta(r, l)
  <2>1. f[r.lot] = LotOnHand(bal, l, r.lot) /\ g[r.lot] = LotOnHand(Apply(bal, r), l, r.lot)
    BY <1>6
  <2>2. f[r.lot] \in Int BY <1>5, <1>6
  <2> HIDE DEF f, g, inn, out
  <2>3. g[r.lot] = f[r.lot] + inn(r.lot) - out(r.lot)
    BY <1>3, <1>6, <2>1
  <2> QED BY <1>4, <1>7, <2>2, <2>3
<1>9. \A lot \in Nat \ {r.lot} : g[lot] = f[lot]
  <2>1. ASSUME NEW lot \in Nat \ {r.lot}, lot \in Lots PROVE g[lot] = f[lot]
    <3>1. f[lot] \in Int BY <1>5
    <3>2. f[lot] = LotOnHand(bal, l, lot) /\ g[lot] = LotOnHand(Apply(bal, r), l, lot)
      BY <2>1
    <3> HIDE DEF f, g, inn, out
    <3>3. inn(lot) = 0 /\ out(lot) = 0 BY <1>4, <2>1
    <3> QED BY <1>3, <2>1, <3>1, <3>2, <3>3
  <2> QED BY <2>1
<1> HIDE DEF f, g, inn, out
<1>10. Shifted(f, g, r.lot, OnHandDelta(r, l))
  BY <1>8, <1>9 DEF Shifted
<1>11. SumTo(g)[NLots] = SumTo(f)[NLots] + (IF r.lot <= NLots THEN OnHandDelta(r, l) ELSE 0)
  BY <1>5, <1>6, <1>7, <1>10, SumToShift
<1>12. OnHand(bal, l) = SumTo(f)[NLots] /\ OnHand(Apply(bal, r), l) = SumTo(g)[NLots]
  BY DEF OnHand, f, g
<1> QED BY <1>1, <1>6, <1>7, <1>11, <1>12
-----------------------------------------------------------------------------
(* Rows *)

(* The states that replay and reversal rely on are the ones the callers     *)
(* leave: none for a change of state, a return or a transfer, and both on   *)
(* the same side of on-hand for a count.                                    *)
PlainStates(r) ==
  /\ r.type \in StateChangeTypes \cup {"RETURN", "TRANSFER"} => r.from = NoState /\ r.to = NoState
  /\ r.type \in CountTypes => (Or(r.from, "UNRESTRICTED") \in OnHandStates
                                 <=> Or(r.to, "UNRESTRICTED") \in OnHandStates)

(* A row whose two on-hand figures differ by what it moved. *)
GoodRow(t) ==
  /\ t.type = "TRANSFER" => t.toLoc \in Locations
  /\ PlainStates(t)
  /\ t.after = t.before + OnHandDelta(t, t.loc)

(* A good row has the fields a movement needs. *)
LEMMA RowTyped ==
  ASSUME NEW t \in Row, GoodRow(t)
  PROVE  Typed(t) /\ t.qty \in Int
BY DEF Row, GoodRow, Typed

(* The movement of a count, in full. *)
LEMMA CountMove ==
  ASSUME NEW t \in Row, t.type \in CountTypes
  PROVE  /\ t.dir = "IN" => /\ Credit(t) = {<<t.loc, t.lot, Or(t.to, "UNRESTRICTED")>>}
                            /\ Debit(t) = {}
         /\ t.dir = "OUT" => /\ Debit(t) = {<<t.loc, t.lot, Or(t.from, "UNRESTRICTED")>>}
                             /\ Credit(t) = {}
BY DEF CountTypes, Credit, Debit

(* A movement's effect on a location is what it credits less what it debits *)
LEMMA DeltaParts ==
  ASSUME NEW r, NEW l
  PROVE  OnHandDelta(r, l) = AtLoc(Credit(r), l, r.qty) - AtLoc(Debit(r), l, r.qty)
BY DEF OnHandDelta, AtLoc

(* The stored columns are enough: reading the direction off the on-hand     *)
(* figures gives the change the posting made.                               *)
LEMMA ColumnsSuffice ==
  ASSUME NEW t \in Row, GoodRow(t), NEW l \in Locations
  PROVE  DeltaAt(t, l) = OnHandDelta(t, l)
<1> DEFINE u == Inferred(t)
<1>1. /\ u.type = t.type /\ u.loc = t.loc /\ u.toLoc = t.toLoc /\ u.lot = t.lot /\ u.qty = t.qty
      /\ u.from = t.from /\ u.to = t.to
      /\ u.dir = IF t.type \in CountTypes /\ t.after < t.before THEN "OUT" ELSE "IN"
      /\ u \in Row
  BY DEF Inferred, Row, Directions
<1> HIDE DEF u
<1>2. CASE t.type \notin CountTypes
  BY <1>1, <1>2 DEF DeltaAt, OnHandDelta, Credit, Debit, u
<1>3. CASE t.type \in CountTypes
  <2> DEFINE in == Or(t.to, "UNRESTRICTED") \in OnHandStates
  <2>1. t.qty \in Nat /\ t.before \in Int /\ t.after \in Int /\ t.dir \in {"IN", "OUT"}
    BY DEF Row, Directions
  <2>2. Or(t.from, "UNRESTRICTED") \in OnHandStates <=> in
    BY <1>3 DEF GoodRow, PlainStates
  <2>3. ASSUME NEW v \in Row, v.type = t.type, v.loc = t.loc, v.lot = t.lot, v.qty = t.qty,
               v.from = t.from, v.to = t.to, NEW x \in Locations
        PROVE  /\ v.dir = "IN" => OnHandDelta(v, x) = IF x = t.loc /\ in THEN t.qty ELSE 0
               /\ v.dir = "OUT" => OnHandDelta(v, x) = IF x = t.loc /\ in THEN -t.qty ELSE 0
    <3> DEFINE c == Or(t.to, "UNRESTRICTED")
               d == Or(t.from, "UNRESTRICTED")
    <3>1. CASE v.dir = "IN"
      <4>1. Credit(v) = {<<t.loc, t.lot, c>>} /\ Debit(v) = {}
        BY <1>3, <2>3, <3>1, CountMove
      <4> HIDE DEF c
      <4>2. AtLoc(Credit(v), x, v.qty) = (IF t.loc = x /\ c \in OnHandStates THEN t.qty ELSE 0)
        BY <2>3, <4>1 DEF AtLoc
      <4>3. AtLoc(Debit(v), x, v.qty) = 0 BY <4>1 DEF AtLoc
      <4>4. OnHandDelta(v, x) = AtLoc(Credit(v), x, v.qty) - AtLoc(Debit(v), x, v.qty)
        BY DeltaParts
      <4> QED BY <2>1, <3>1, <4>2, <4>3, <4>4 DEF c
    <3>2. CASE v.dir = "OUT"
      <4>1. Debit(v) = {<<t.loc, t.lot, d>>} /\ Credit(v) = {}
        BY <1>3, <2>3, <3>2, CountMove
      <4> HIDE DEF d
      <4>2. AtLoc(Debit(v), x, v.qty) = (IF t.loc = x /\ d \in OnHandStates THEN t.qty ELSE 0)
        BY <2>3, <4>1 DEF AtLoc
      <4>3. AtLoc(Credit(v), x, v.qty) = 0 BY <4>1 DEF AtLoc
      <4>4. OnHandDelta(v, x) = AtLoc(Credit(v), x, v.qty) - AtLoc(Debit(v), x, v.qty)
        BY DeltaParts
      <4> QED BY <2>1, <2>2, <3>2, <4>2, <4>3, <4>4 DEF d
    <3> QED BY <3>1, <3>2
  <2> HIDE DEF in
  <2>4. t.loc \in Locations /\ t.after = t.before + OnHandDelta(t, t.loc)
    BY DEF Row, GoodRow
  <2>5. /\ t.dir = "IN" => t.after = t.before + (IF in THEN t.qty ELSE 0)
        /\ t.dir = "OUT" => t.after = t.before + (IF in THEN -t.qty ELSE 0)
    BY <2>3, <2>4
  <2>6. DeltaAt(t, l) = OnHandDelta(u, l) BY DEF DeltaAt, u
  <2>7. CASE t.dir = "IN"
    <3>1. u.dir = "IN" BY <1>1, <1>3, <2>1, <2>5, <2>7
    <3> QED BY <1>1, <2>3, <2>6, <2>7, <3>1
  <2>8. CASE t.dir = "OUT"
    <3>1. u.dir = "OUT" \/ (u.dir = "IN" /\ (~in \/ t.qty = 0))
      BY <1>1, <1>3, <2>1, <2>5, <2>8
    <3> QED BY <1>1, <2>1, <2>3, <2>6, <2>8, <3>1
  <2> QED BY <2>1, <2>7, <2>8
<1> QED BY <1>2, <1>3

-----------------------------------------------------------------------------
(* Logs *)

GoodLog(log) == log \in Seq(Row) /\ \A i \in 1..Len(log) : GoodRow(log[i])

(* Appending a good row leaves the running totals of the earlier rows alone *)
(* and adds what the row moved to the last one.                             *)
LEMMA ReplayAppend ==
  ASSUME NEW log, GoodLog(log), NEW t \in Row, GoodRow(t), NEW l \in Locations
  PROVE  /\ \A i \in 0..Len(log) : Replay(Append(log, t), l)[i] = Replay(log, l)[i]
         /\ Replay(Append(log, t), l)[Len(log) + 1]
              = Replay(log, l)[Len(log)] + OnHandDelta(t, l)
<1> DEFINE n == Len(log)
           more == Append(log, t)
           f == [i \in Nat |-> IF i \in 1..Len(log) THEN DeltaAt(log[i], l) ELSE 0]
           g == [i \in Nat |-> IF i \in 1..Len(more) THEN DeltaAt(more[i], l) ELSE 0]
<1>1. /\ n \in Nat /\ Len(more) = n + 1 /\ more[n + 1] = t
      /\ \A i \in 1..n : more[i] = log[i] /\ log[i] \in Row /\ GoodRow(log[i])
  BY DEF GoodLog
<1>2. ASSUME NEW u \in Row, GoodRow(u)
      PROVE  DeltaAt(u, l) = OnHandDelta(u, l) /\ DeltaAt(u, l) \in Int
  <2>1. DeltaAt(u, l) = OnHandDelta(u, l) BY <1>2, ColumnsSuffice
  <2>2. Typed(u) /\ u.qty \in Int BY <1>2, RowTyped
  <2>3. AtLoc(Credit(u), l, u.qty) \in Int /\ AtLoc(Debit(u), l, u.qty) \in Int
    BY <2>2 DEF AtLoc
  <2> QED BY <2>1, <2>3, DeltaParts
<1>3. f \in [Nat -> Int]
  BY <1>1, <1>2
<1>4. g \in [Nat -> Int]
  <2>1. ASSUME NEW i \in 1..(n + 1) PROVE DeltaAt(more[i], l) \in Int
    <3>1. CASE i = n + 1 BY <1>1, <1>2, <3>1
    <3>2. CASE i # n + 1
      <4>1. i \in 1..n BY <1>1, <3>2
      <4> QED BY <1>1, <1>2, <4>1
    <3> QED BY <3>1, <3>2
  <2> QED BY <1>1, <2>1
<1>5. \A i \in 0..n : f[i] = g[i]
  BY <1>1
<1>6. g[n + 1] = OnHandDelta(t, l)
  BY <1>1, <1>2
<1>7. Replay(log, l) = SumTo(f) /\ Replay(more, l) = SumTo(g)
  BY DEF Replay
<1> HIDE DEF f, g, more
<1>8. ASSUME NEW i \in 0..n PROVE SumTo(f)[i] = SumTo(g)[i]
  <2>1. i \in Nat /\ \A k \in 0..i : f[k] = g[k] BY <1>1, <1>5
  <2> QED BY <1>3, <1>4, <2>1, SumToAgree
<1>9. SumTo(g)[n + 1] = SumTo(g)[n] + g[n + 1]
  <2>1. n + 1 \in Nat \ {0} /\ (n + 1) - 1 = n BY <1>1
  <2> QED BY <1>4, <2>1, SumToStep
<1>10. n \in 0..n BY <1>1
<1> QED BY <1>6, <1>7, <1>8, <1>9, <1>10 DEF more

(* The part of the invariant that speaks about a log and the balances it    *)
(* left; a two-posting reversal goes through it twice.                      *)
IdsOnce(log) ==
  \A i, j \in 1..Len(log) : log[i].id = log[j].id /\ log[i].id # GeneratedId => i = j

ReversalsOnce(log) ==
  /\ \A i \in 1..Len(log) : log[i].reversalOf < i
  /\ \A i, j \in 1..Len(log) :
       log[i].reversalOf = log[j].reversalOf /\ log[i].reversalOf # 0 => i = j

Chained(bal, log) ==
  /\ \A l \in Locations : Replay(log, l)[Len(log)] = OnHand(bal, l)
  /\ \A i \in 1..Len(log) : Replay(log, log[i].loc)[i-1] = log[i].before

Consistent(bal, log) ==
  /\ bal \in [Buckets -> Int]
  /\ GoodLog(log)
  /\ \A b \in Buckets : bal[b] >= 0
  /\ IdsOnce(log)
  /\ ReversalsOnce(log)
  /\ Chained(bal, log)

(* The row reversed, if any, lies in the log and is not reversed yet. *)
MayReverse(log, k) ==
  /\ k \in 0..Len(log)
  /\ k # 0 => \A j \in 1..Len(log) : log[j].reversalOf # k

(* What post() appends is a good row. *)
LEMMA NewRow ==
  ASSUME NEW bal \in [Buckets -> Int], NEW log, NEW r \in Request, NEW k \in Nat,
         PlainStates(r), Accepts(bal, log, r), now \in Nat
  PROVE  /\ RowOf(bal, r, k) \in Row
         /\ GoodRow(RowOf(bal, r, k))
         /\ \A l : OnHandDelta(RowOf(bal, r, k), l) = OnHandDelta(r, l)
         /\ Typed(r) /\ r.qty \in Nat
<1> DEFINE t == RowOf(bal, r, k)
<1>1. /\ t.type = r.type /\ t.loc = r.loc /\ t.toLoc = r.toLoc /\ t.lot = r.lot /\ t.qty = r.qty
      /\ t.from = r.from /\ t.to = r.to /\ t.dir = r.dir
      /\ t.before = OnHand(bal, r.loc) /\ t.after = OnHand(Apply(bal, r), r.loc)
  BY DEF RowOf
<1>2. Typed(r) /\ r.qty \in Nat
  BY DEF Request, Accepts, Typed
<1>3. r.loc \in Locations BY DEF Request
<1>4. /\ t.before \in Int /\ OnHandDelta(r, r.loc) \in Int
      /\ t.after = t.before + OnHandDelta(r, r.loc)
  <2>1. r.qty \in Int BY <1>2
  <2> HIDE DEF t
  <2> QED BY <1>1, <1>2, <1>3, <2>1, OnHandInt, OnHandApply
<1>5. t \in Row
  <2>1. OnHand(bal, r.loc) \in Int /\ OnHand(Apply(bal, r), r.loc) \in Int
    BY <1>1, <1>4
  <2> QED BY <1>2, <2>1 DEF RowOf, Row, Request
<1> HIDE DEF t
<1>6. Credit(t) = Credit(r) /\ Debit(t) = Debit(r)
  BY <1>1 DEF Credit, Debit
<1>7. \A l : OnHandDelta(t, l) = OnHandDelta(r, l)
  BY <1>1, <1>6 DEF OnHandDelta
<1>8. GoodRow(t)
  BY <1>1, <1>2, <1>4, <1>7 DEF GoodRow, PlainStates, Typed
<1> QED BY <1>2, <1>5, <1>7, <1>8 DEF t

(* post() keeps the log and the balances consistent.                        *)
LEMMA PostKeeps ==
  ASSUME NEW bal, NEW log, Consistent(bal, log), NEW r \in Request, NEW k,
         PlainStates(r), Accepts(bal, log, r), MayReverse(log, k), now \in Nat
  PROVE  Consistent(Apply(bal, r), Append(log, RowOf(bal, r, k)))
<1> DEFINE t == RowOf(bal, r, k)
           more == Append(log, t)
           left == Apply(bal, r)
           n == Len(log)
<1>1. bal \in [Buckets -> Int] /\ GoodLog(log) /\ k \in Nat /\ n \in Nat
  BY DEF Consistent, MayReverse, GoodLog
<1>2. /\ t \in Row /\ GoodRow(t) /\ \A l : OnHandDelta(t, l) = OnHandDelta(r, l)
      /\ Typed(r) /\ r.qty \in Nat
  BY <1>1, NewRow
<1>3. /\ t.id = r.id /\ t.reversalOf = k /\ t.loc = r.loc /\ r.loc \in Locations
      /\ t.before = OnHand(bal, r.loc)
  BY DEF RowOf, Request
<1> HIDE DEF t
<1>4. /\ Len(more) = n + 1 /\ more[n + 1] = t /\ more \in Seq(Row)
      /\ \A i \in 1..n : more[i] = log[i]
  BY <1>1, <1>2 DEF GoodLog
<1>5. GoodLog(more)
  BY <1>1, <1>2, <1>4 DEF GoodLog
<1>6. /\ left \in [Buckets -> Int]
      /\ \A l \in Locations : /\ OnHandDelta(r, l) \in Int
                              /\ OnHand(left, l) = OnHand(bal, l) + OnHandDelta(r, l)
  <2>1. r.qty \in Int BY <1>2
  <2>2. left \in [Buckets -> Int] BY <1>1, <1>2, <2>1 DEF Apply, Delta
  <2>3. ASSUME NEW l \in Locations
        PROVE  /\ OnHandDelta(r, l) \in Int
               /\ OnHand(left, l) = OnHand(bal, l) + OnHandDelta(r, l)
    BY <1>1, <1>2, <2>1, OnHandApply
  <2> QED BY <2>2, <2>3
<1>7. \A b \in Buckets : left[b] >= 0
  <2>1. ASSUME NEW b \in Buckets PROVE left[b] >= 0
    <3>1. left[b] = bal[b] + Delta(r, b) BY DEF Apply
    <3>2. bal[b] \in Int /\ bal[b] >= 0 BY <1>1 DEF Consistent
    <3>3. b \in Debit(r) => bal[b] >= r.qty BY DEF Accepts
    <3> QED BY <1>2, <3>1, <3>2, <3>3 DEF Delta
  <2> QED BY <2>1
<1>8. IdsOnce(more)
  <2>1. r.id # GeneratedId => \A i \in 1..n : log[i].id # r.id BY DEF Accepts
  <2>2. IdsOnce(log) BY DEF Consistent
  <2>3. \A i \in 1..(n + 1) : i \in 1..n \/ i = n + 1 BY <1>1
  <2> QED BY <1>3, <1>4, <2>1, <2>2, <2>3 DEF IdsOnce
<1>9. ReversalsOnce(more)
  <2>1. k < n + 1 /\ (k # 0 => \A j \in 1..n : log[j].reversalOf # k)
    BY <1>1 DEF MayReverse
  <2>2. ReversalsOnce(log) BY DEF Consistent
  <2>3. \A i \in 1..(n + 1) : i \in 1..n \/ i = n + 1 BY <1>1
  <2> QED BY <1>3, <1>4, <2>1, <2>2, <2>3 DEF ReversalsOnce
<1>10. Chained(left, more)
  <2>1. Chained(bal, log) BY DEF Consistent
  <2>2. ASSUME NEW l \in Locations
        PROVE  /\ \A i \in 0..n : Replay(more, l)[i] = Replay(log, l)[i]
               /\ Replay(more, l)[n + 1] = Replay(log, l)[n] + OnHandDelta(t, l)
    BY <1>1, <1>2, ReplayAppend
  <2>3. \A l \in Locations : Replay(more, l)[Len(more)] = OnHand(left, l)
    BY <1>2, <1>4, <1>6, <2>1, <2>2 DEF Chained
  <2>4. ASSUME NEW i \in 1..n PROVE Replay(more, more[i].loc)[i-1] = more[i].before
    <3>1. more[i] = log[i] /\ log[i].loc \in Locations
      <4>1. log[i] \in Row BY <1>1 DEF GoodLog
      <4>2. log[i].loc \in Locations BY <4>1 DEF Row
      <4> QED BY <1>4, <4>2
    <3>2. i - 1 \in 0..n BY <1>1
    <3> QED BY <2>1, <2>2, <3>1, <3>2 DEF Chained
  <2>5. Replay(more, t.loc)[n] = t.before
    <3>1. n \in 0..n BY <1>1
    <3> QED BY <1>3, <2>1, <2>2, <3>1 DEF Chained
  <2>6. \A i \in 1..Len(more) : Replay(more, more[i].loc)[i-1] = more[i].before
    <3>1. \A i \in 1..(n + 1) : i \in 1..n \/ i = n + 1 BY <1>1
    <3>2. (n + 1) - 1 = n BY <1>1
    <3> HIDE DEF more
    <3> QED BY <1>4, <2>4, <2>5, <3>1, <3>2
  <2> QED BY <2>3, <2>6 DEF Chained
<1> QED BY <1>5, <1>6, <1>7, <1>8, <1>9, <1>10 DEF Consistent, t

(* Filling in the state of a receipt leaves a request that may be posted.   *)
LEMMA ResolveKeeps ==
  ASSUME NEW r \in Request, PlainStates(r)
  PROVE  Resolve(r) \in Request /\ PlainStates(Resolve(r))
<1> DEFINE u == Resolve(r)
<1>1. \/ u = r
      \/ /\ r.type \in {"RECEIPT", "PROD_COMPLETION"}
         /\ \E s \in States : u = [r EXCEPT !.to = s]
  BY DEF Resolve, States, OnHandStates
<1>2. CASE u = r BY <1>2
<1>3. CASE u # r
  <2>1. PICK s \in States : u = [r EXCEPT !.to = s] BY <1>1, <1>3
  <2>2. u \in Request /\ u.type = r.type BY <2>1 DEF Request
  <2>3. r.type \in {"RECEIPT", "PROD_COMPLETION"} BY <1>1, <1>3
  <2> HIDE DEF u
  <2>4. PlainStates(u)
    BY <2>2, <2>3 DEF PlainStates, StateChangeTypes, CountTypes
  <2> QED BY <2>2, <2>4 DEF u
<1> QED BY <1>2, <1>3

-----------------------------------------------------------------------------
(* The inductive invariant *)

(* None of the properties is inductive by itself: a chain that holds is      *)
(* extended to one that holds only when the row appended moved the on-hand   *)
(* by what its columns say, and a reversal builds its posting from a row, so *)
(* the rows must have the shape their postings had.                          *)
IInv ==
  /\ Consistent(balance, txns)
  /\ quality \in [1..NLots -> QualityStatuses]
  /\ now \in Nat

(* The items start with no rows and no stock. *)
LEMMA NothingOnHand ==
  ASSUME NEW l \in Locations
  PROVE  OnHand([b \in Buckets |-> 0], l) = 0
<1> DEFINE zero == [b \in Buckets |-> 0]
           f == [lot \in Nat |-> IF lot \in Lots THEN LotOnHand(zero, l, lot) ELSE 0]
           g == [lot \in Nat |-> 0]
<1>1. \A lot \in Lots : LotOnHand(zero, l, lot) = 0
  BY DEF LotOnHand, Buckets, States, OnHandStates
<1>2. f = g BY <1>1
<1>3. \A n \in Nat : SumTo(g)[n] = 0
  <2> DEFINE Bad == {n \in Nat : SumTo(g)[n] # 0}
  <2>1. g \in [Nat -> Int] /\ \A n \in Nat : g[n] = 0 OBVIOUS
  <2> HIDE DEF g
  <2>2. SUFFICES ASSUME Bad # {} PROVE FALSE OBVIOUS
  <2>3. PICK n \in Bad : \A m \in Bad : n <= m
    BY <2>2, LeastNat
  <2>4. n # 0
    BY <2>1, SumToStep
  <2>5. n - 1 \in Nat /\ n - 1 \notin Bad BY <2>3, <2>4
  <2>6. SumTo(g)[n] = SumTo(g)[n - 1] + g[n]
    <3>1. n \in Nat \ {0} BY <2>4
    <3> QED BY <2>1, <3>1, SumToStep
  <2> QED BY <2>1, <2>5, <2>6
<1>4. NLots \in Nat BY LedgerAssumption
<1> QED BY <1>2, <1>3, <1>4 DEF OnHand

(* The initial states are consistent. *)
LEMMA InitConsistent == Init => IInv
<1> SUFFICES ASSUME Init PROVE IInv OBVIOUS
<1>1. balance \in [Buckets -> Int] /\ \A b \in Buckets : balance[b] >= 0
  BY DEF Init
<1>2. txns = <<>> /\ Len(txns) = 0 /\ GoodLog(txns)
  BY DEF Init, GoodLog
<1>3. IdsOnce(txns) /\ ReversalsOnce(txns)
  BY <1>2 DEF IdsOnce, ReversalsOnce
<1>4. Chained(balance, txns)
  <2>1. ASSUME NEW l \in Locations PROVE Replay(txns, l)[0] = 0
    <3> DEFINE f == [i \in Nat |-> IF i \in 1..Len(txns) THEN DeltaAt(txns[i], l) ELSE 0]
    <3>1. f \in [Nat -> Int] /\ f[0] = 0 BY <1>2
    <3>2. Replay(txns, l) = SumTo(f) BY DEF Replay
    <3> HIDE DEF f
    <3> QED BY <3>1, <3>2, SumToStep
  <2>2. \A l \in Locations : OnHand(balance, l) = 0
    BY NothingOnHand DEF Init
  <2> QED BY <1>2, <2>1, <2>2 DEF Chained
<1>5. quality \in [1..NLots -> QualityStatuses]
  BY LedgerAssumption DEF Init
<1>6. now \in Nat BY DEF Init
<1> QED BY <1>1, <1>2, <1>3, <1>4, <1>5, <1>6 DEF IInv, Consistent

-----------------------------------------------------------------------------
(* Steps *)

(* A single posting keeps the invariant's part about balances and rows.     *)
LEMMA BookKeeps ==
  ASSUME IInv, NEW request \in Request, PlainStates(request), NEW k, MayReverse(txns, k),
         Book(request, k)
  PROVE  Consistent(balance', txns')
<1> DEFINE r == Resolve(request)
<1>1. r \in Request /\ PlainStates(r) BY ResolveKeeps
<1>2. /\ Accepts(balance, txns, r)
      /\ balance' = Apply(balance, r)
      /\ txns' = Append(txns, RowOf(balance, r, k))
  BY DEF Book
<1> HIDE DEF r
<1>3. Consistent(balance, txns) /\ now \in Nat BY DEF IInv
<1>4. Consistent(Apply(balance, r), Append(txns, RowOf(balance, r, k)))
  BY <1>1, <1>2, <1>3, PostKeeps
<1> QED BY <1>2, <1>4

(* A row that is not a reversal may always be appended. *)
LEMMA ReversesNothing ==
  ASSUME NEW log, GoodLog(log)
  PROVE  MayReverse(log, 0)
BY DEF MayReverse, GoodLog

(* Nor does the second posting of a pair break it: it is checked against    *)
(* the balances the first one left.                                         *)
LEMMA BookBothKeeps ==
  ASSUME IInv, NEW first \in Request, PlainStates(first), NEW second \in Request,
         PlainStates(second), NEW k, MayReverse(txns, k), BookBoth(first, second, k)
  PROVE  Consistent(balance', txns')
<1> DEFINE mid == Apply(balance, first)
           log == Append(txns, RowOf(balance, first, k))
<1>1. /\ Accepts(balance, txns, first)
      /\ Accepts(mid, log, second)
      /\ balance' = Apply(mid, second)
      /\ txns' = Append(log, RowOf(mid, second, 0))
  BY DEF BookBoth
<1>2. Consistent(balance, txns) /\ now \in Nat BY DEF IInv
<1>3. Consistent(mid, log) BY <1>1, <1>2, PostKeeps
<1> HIDE DEF mid, log
<1>4. MayReverse(log, 0)
  <2>1. GoodLog(log) BY <1>3 DEF Consistent
  <2> QED BY <2>1, ReversesNothing
<1>5. Consistent(Apply(mid, second), Append(log, RowOf(mid, second, 0)))
  BY <1>1, <1>2, <1>3, <1>4, PostKeeps
<1> QED BY <1>1, <1>5

(* What the routes and events pass to post() is a request. *)
LEMMA PlainRequest ==
  ASSUME NEW type \in TxnTypes, NEW l \in Locations, NEW lot \in Lots, NEW q \in Int
  PROVE  Plain(type, l, lot, q) \in Request /\ PlainStates(Plain(type, l, lot, q))
<1>1. Plain(type, l, lot, q) \in Request
  BY DEF Plain, Request, Directions
<1>2. PlainStates(Plain(type, l, lot, q))
  BY DEF Plain, PlainStates, Or
<1> QED BY <1>1, <1>2

(* The ledger page and the uploads keep the invariant. *)
LEMMA PostStep ==
  ASSUME IInv, Post
  PROVE  IInv'
<1>1. PICK type \in PostTypes, l \in Locations, to \in Locations \cup {NoLoc}, lot \in Lots,
           q \in Quantities, d \in Directions, id \in ClientIds \cup {GeneratedId} :
        /\ Book([Plain(type, l, lot, q) EXCEPT !.toLoc = to, !.dir = d, !.id = id], 0)
        /\ UNCHANGED <<quality, now>>
  BY DEF Post
<1> DEFINE request == [Plain(type, l, lot, q) EXCEPT !.toLoc = to, !.dir = d, !.id = id]
<1>2. type \in TxnTypes /\ q \in Int BY LedgerAssumption
<1>3. request \in Request BY <1>2 DEF Plain, Request
<1>4. PlainStates(request)
  BY DEF Plain, PlainStates, Or
<1>5. MayReverse(txns, 0) BY ReversesNothing DEF IInv, Consistent
<1> HIDE DEF request
<1>6. Consistent(balance', txns')
  BY <1>1, <1>3, <1>4, <1>5, BookKeeps DEF request
<1> QED BY <1>1, <1>6 DEF IInv

(* So does a count of any bucket. *)
LEMMA RecountStep ==
  ASSUME IInv, NEW l \in Locations, NEW lot \in Lots, NEW state \in States,
         NEW counted \in Int, Recount(l, lot, state, counted)
  PROVE  Consistent(balance', txns')
<1> DEFINE system == balance[<<l, lot, state>>]
           q == IF counted > system THEN counted - system ELSE system - counted
           d == IF counted > system THEN "IN" ELSE "OUT"
           request == [Plain("CYCLE_COUNT", l, lot, q) EXCEPT !.dir = d, !.from = state, !.to = state]
<1>1. system \in Int
  BY DEF IInv, Consistent, Buckets
<1>2. q \in Int /\ d \in Directions /\ Book(request, 0)
  BY <1>1 DEF Directions, Recount
<1> HIDE DEF system, q, d
<1>3. request \in Request BY <1>2 DEF Plain, Request, TxnTypes
<1>4. PlainStates(request)
  BY DEF Plain, PlainStates, Or, StateChangeTypes, States, OnHandStates
<1>5. MayReverse(txns, 0) BY ReversesNothing DEF IInv, Consistent
<1> HIDE DEF request
<1> QED BY <1>2, <1>3, <1>4, <1>5, BookKeeps

(* And so do counts from events and the load of a balance. *)
LEMMA LoadStep ==
  ASSUME IInv, CycleCount \/ LoadBalance
  PROVE  IInv'
<1>1. UNCHANGED <<quality, now>> BY DEF CycleCount, LoadBalance
<1>2. Quantities \subseteq Int /\ 0 \in Lots BY LedgerAssumption DEF Lots
<1>3. CASE CycleCount
  <2>1. PICK l \in Locations, counted \in Quantities : Recount(l, 0, "UNRESTRICTED", counted)
    BY <1>3 DEF CycleCount
  <2>2. "UNRESTRICTED" \in States BY DEF States, OnHandStates
  <2> QED BY <1>1, <1>2, <2>1, <2>2, RecountStep DEF IInv
<1>4. CASE LoadBalance
  <2>1. PICK l \in Locations, lot \in Lots, state \in States, q \in Quantities :
          IF HasRow(<<l, lot, state>>)
          THEN Recount(l, lot, state, q)
          ELSE Book([Plain("RECEIPT", l, lot, q) EXCEPT !.to = state], 0)
    BY <1>4 DEF LoadBalance
  <2>2. CASE Recount(l, lot, state, q)
    BY <1>1, <1>2, <2>2, RecountStep DEF IInv
  <2>3. CASE Book([Plain("RECEIPT", l, lot, q) EXCEPT !.to = state], 0)
    <3> DEFINE request == [Plain("RECEIPT", l, lot, q) EXCEPT !.to = state]
    <3>1. request \in Request BY <1>2 DEF Plain, Request, TxnTypes, Directions
    <3>2. PlainStates(request) BY DEF Plain, PlainStates, Or, StateChangeTypes, CountTypes
    <3>3. MayReverse(txns, 0) BY ReversesNothing DEF IInv, Consistent
    <3> HIDE DEF request
    <3>4. Consistent(balance', txns') BY <2>3, <3>1, <3>2, <3>3, BookKeeps DEF request
    <3> QED BY <1>1, <3>4 DEF IInv
  <2> QED BY <2>1, <2>2, <2>3
<1> QED BY <1>3, <1>4

(* And the two quality events, which also set the status of a lot. *)
LEMMA QualityStep ==
  ASSUME IInv, QualityHold \/ QualityRelease
  PROVE  IInv'
<1>1. PICK type \in {"QUARANTINE", "RELEASE"}, l \in Locations, lot \in 1..NLots, q \in Quantities,
           status \in QualityStatuses :
        /\ Book(Plain(type, l, lot, q), 0)
        /\ quality' = [quality EXCEPT ![lot] = status]
        /\ UNCHANGED now
  BY DEF QualityHold, QualityRelease, QualityStatuses
<1>2. type \in TxnTypes /\ lot \in Lots /\ q \in Int
  BY LedgerAssumption DEF TxnTypes, Lots
<1>3. MayReverse(txns, 0) BY ReversesNothing DEF IInv, Consistent
<1>4. Plain(type, l, lot, q) \in Request /\ PlainStates(Plain(type, l, lot, q))
  BY <1>2, PlainRequest
<1>5. Consistent(balance', txns') BY <1>1, <1>3, <1>4, BookKeeps
<1>6. quality' \in [1..NLots -> QualityStatuses] BY <1>1 DEF IInv
<1> QED BY <1>1, <1>5, <1>6 DEF IInv

(* The states a reversal names are states, or left open. *)
LEMMA OrState ==
  ASSUME NEW s \in States \cup {NoState}, NEW d \in States
  PROVE  Or(s, d) \in States /\ Or(s, d) # NoState
BY DEF Or, States, OnHandStates, NoState

(* The one posting that reverses a row is a request, and its states are as  *)
(* plain as the row's.                                                      *)
LEMMA OppositeRequest ==
  ASSUME NEW t \in Row, GoodRow(t), t.type \in SingleTypes
  PROVE  /\ Opposite(t) \in Request /\ PlainStates(Opposite(t))
         /\ Resolve(Opposite(t)) = Opposite(t)
<1> DEFINE u == Opposite(t)
<1>1. /\ t.loc \in Locations /\ t.lot \in Lots /\ t.qty \in Int
      /\ t.from \in States \cup {NoState} /\ t.to \in States \cup {NoState}
  BY DEF Row
<1>2. "UNRESTRICTED" \in States /\ "RETURNED" \in States
  BY DEF States, OnHandStates
<1>3. Or(t.to, "UNRESTRICTED") \in States /\ Or(t.from, "UNRESTRICTED") \in States
      /\ Or(t.from, "UNRESTRICTED") # NoState
  BY <1>1, <1>2, OrState
<1>4. u \in Request /\ PlainStates(u) /\ (u.type \in {"RECEIPT", "PROD_COMPLETION"} => u.to # NoState)
  <2>1. CASE t.type \in InboundTypes
    <3>1. u = [Plain(IF t.type = "PROD_COMPLETION" THEN "PROD_CONSUMPTION" ELSE "ISSUE",
                     t.loc, t.lot, t.qty) EXCEPT !.from = Or(t.to, "UNRESTRICTED")]
      BY <2>1 DEF Opposite, InboundTypes, OutboundTypes
    <3> QED BY <1>1, <1>3, <3>1
        DEF Plain, Request, TxnTypes, Directions, PlainStates, StateChangeTypes, CountTypes
  <2>2. CASE t.type \in OutboundTypes
    <3>1. u = [Plain("RECEIPT", t.loc, t.lot, t.qty) EXCEPT !.to = Or(t.from, "UNRESTRICTED")]
      BY <2>2 DEF Opposite, InboundTypes, OutboundTypes
    <3> QED BY <1>1, <1>3, <3>1
        DEF Plain, Request, TxnTypes, Directions, PlainStates, StateChangeTypes, CountTypes
  <2>3. CASE t.type = "RETURN"
    <3>1. u = [Plain("ISSUE", t.loc, t.lot, t.qty) EXCEPT !.from = "RETURNED"]
      BY <2>3 DEF Opposite, InboundTypes, OutboundTypes
    <3> QED BY <1>1, <1>2, <3>1
        DEF Plain, Request, TxnTypes, Directions, PlainStates, StateChangeTypes, CountTypes
  <2>4. CASE t.type = "TRANSFER"
    <3>1. u = [Plain("TRANSFER", t.toLoc, t.lot, t.qty)
                 EXCEPT !.toLoc = t.loc, !.from = Or(t.to, t.from), !.to = t.from]
      BY <2>4 DEF Opposite, InboundTypes, OutboundTypes
    <3>2. t.toLoc \in Locations /\ t.from = NoState /\ t.to = NoState
      BY <2>4 DEF GoodRow, PlainStates
    <3> QED BY <1>1, <3>1, <3>2
        DEF Plain, Request, TxnTypes, Directions, PlainStates, StateChangeTypes, CountTypes, Or
  <2>5. CASE t.type \in CountTypes
    <3>1. u = [Plain("ADJUSTMENT", t.loc, t.lot, t.qty)
                 EXCEPT !.dir = IF t.after >= t.before THEN "OUT" ELSE "IN",
                        !.from = t.to, !.to = t.from]
      BY <2>5 DEF Opposite, InboundTypes, OutboundTypes, CountTypes
    <3>2. Or(t.from, "UNRESTRICTED") \in OnHandStates <=> Or(t.to, "UNRESTRICTED") \in OnHandStates
      BY <2>5 DEF GoodRow, PlainStates
    <3> QED BY <1>1, <3>1, <3>2
        DEF Plain, Request, TxnTypes, Directions, PlainStates, StateChangeTypes, CountTypes
  <2> QED BY <2>1, <2>2, <2>3, <2>4, <2>5 DEF SingleTypes
<1> QED BY <1>4 DEF Resolve

(* The pair of adjustments that reverses a change of state. *)
LEMMA PairRequests ==
  ASSUME NEW t \in Row, GoodRow(t), t.type \in StateChangeTypes
  PROVE  /\ PutBack(t) \in Request /\ PlainStates(PutBack(t))
         /\ TakeOut(t) \in Request /\ PlainStates(TakeOut(t))
<1>1. t.loc \in Locations /\ t.lot \in Lots /\ t.qty \in Int /\ t.from = NoState /\ t.to = NoState
  BY DEF Row, GoodRow, PlainStates
<1>2. /\ PutBack(t) = [Plain("ADJUSTMENT", t.loc, t.lot, t.qty) EXCEPT !.to = "UNRESTRICTED"]
      /\ TakeOut(t) = [Plain("ADJUSTMENT", t.loc, t.lot, t.qty)
                         EXCEPT !.dir = "OUT", !.from = "QUARANTINED"]
  BY <1>1 DEF PutBack, TakeOut, Or
<1> QED BY <1>1, <1>2
    DEF Plain, Request, TxnTypes, Directions, PlainStates, StateChangeTypes, CountTypes, Or,
        States, OnHandStates

(* A reversal keeps the invariant. *)
LEMMA ReverseStep ==
  ASSUME IInv, NEW i \in 1..Len(txns), ReverseTxn(i)
  PROVE  IInv'
<1> DEFINE t == txns[i]
<1>1. GoodLog(txns) BY DEF IInv, Consistent
<1>2. t \in Row /\ GoodRow(t) BY <1>1 DEF GoodLog
<1>3. MayReverse(txns, i)
  BY <1>1 DEF ReverseTxn, IsReversed, MayReverse, GoodLog
<1> HIDE DEF t
<1>4. ASSUME t.type \in SingleTypes, Book(Opposite(t), i)
      PROVE  Consistent(balance', txns')
  BY <1>2, <1>3, <1>4, OppositeRequest, BookKeeps
<1>5. ASSUME t.type \in StateChangeTypes, BookBoth(PutBack(t), TakeOut(t), i)
      PROVE  Consistent(balance', txns')
  BY <1>2, <1>3, <1>5, PairRequests, BookBothKeeps
<1>6. Consistent(balance', txns') BY <1>4, <1>5 DEF ReverseTxn, t
<1> QED BY <1>6 DEF ReverseTxn, IInv

(* Every step keeps the invariant. *)
LEMMA StepKeeps == IInv /\ [Next]_vars => IInv'
<1> SUFFICES ASSUME IInv, [Next]_vars PROVE IInv' OBVIOUS
<1>1. CASE Post BY <1>1, PostStep
<1>2. CASE CycleCount \/ LoadBalance BY <1>2, LoadStep
<1>3. CASE QualityHold \/ QualityRelease BY <1>3, QualityStep
<1>4. ASSUME NEW i \in 1..Len(txns), ReverseTxn(i) PROVE IInv' BY <1>4, ReverseStep
<1>5. CASE Tick
  <2>1. now' \in Nat
    <3>1. now \in Nat /\ TicksPerDay \in Nat \ {0} BY LedgerAssumption DEF IInv
    <3>2. (now + 1) % TicksPerDay \in Nat BY <3>1
    <3> QED BY <1>5, <3>1, <3>2 DEF Tick
  <2> QED BY <1>5, <2>1 DEF Tick, IInv
<1>6. CASE UNCHANGED vars BY <1>6 DEF vars, IInv
<1> QED BY <1>1, <1>2, <1>3, <1>4, <1>5, <1>6 DEF Next

-----------------------------------------------------------------------------
(* Theorems *)

(* The invariant holds of every behaviour of the ledger. *)
THEOREM Invariant == Spec => []IInv
BY InitConsistent, StepKeeps, PTL DEF Spec

(* Every state is well formed: the balances, the rows, the lots' status.    *)
THEOREM TypeCorrect == Spec => []TypeOK
<1>1. IInv => TypeOK BY DEF IInv, Consistent, GoodLog, TypeOK
<1> QED BY <1>1, Invariant, PTL

(* No posting, count, load, quality event or reversal, in any order and     *)
(* over any number of buckets, leaves a negative balance.                   *)
THEOREM StockNeverNegative == Spec => []NoNegativeStock
<1>1. IInv => NoNegativeStock BY DEF IInv, Consistent, NoNegativeStock
<1> QED BY <1>1, Invariant, PTL

(* A transaction id a caller chose is in the ledger at most once.           *)
THEOREM IdsUnique == Spec => []UniqueTxnIds
<1>1. IInv => UniqueTxnIds BY DEF IInv, Consistent, IdsOnce, UniqueTxnIds
<1> QED BY <1>1, Invariant, PTL

(* No row is reversed twice, and none by an earlier row.                    *)
THEOREM ReversedAtMostOnce == Spec => []ReversedOnce
<1>1. IInv => ReversedOnce BY DEF IInv, Consistent, ReversalsOnce, ReversedOnce
<1> QED BY <1>1, Invariant, PTL

(* "A verifiable chain": in posting order the stored columns of every       *)
(* location replay to each row's on-hand-before and to the current on-hand. *)
THEOREM ChainVerifiable == Spec => []ChainInPostingOrder
<1>1. IInv => ChainInPostingOrder BY DEF IInv, Consistent, Chained, ChainInPostingOrder
<1> QED BY <1>1, Invariant, PTL

-----------------------------------------------------------------------------
(* Reversal undoes what it reverses *)

(* The movement of a row that can be reversed by one posting is the         *)
(* movement of that posting, the other way round.                           *)
LEMMA OppositeDelta ==
  ASSUME NEW t \in Row, GoodRow(t), t.type \in SingleTypes, Undoable(t), NEW b
  PROVE  Delta(Opposite(t), b) = -Delta(t, b)
<1> DEFINE u == Opposite(t)
<1>0. /\ t.loc \in Locations /\ t.lot \in Lots /\ t.qty \in Nat
      /\ t.before \in Int /\ t.after \in Int /\ t.dir \in {"IN", "OUT"}
      /\ t.from \in States \cup {NoState} /\ t.to \in States \cup {NoState}
  BY DEF Row, Directions
<1>1. u.qty = t.qty /\ (t.qty # 0 => Debit(u) = Credit(t) /\ Credit(u) = Debit(t))
  <2>1. CASE t.type \in InboundTypes
    <3>1. u = [Plain(IF t.type = "PROD_COMPLETION" THEN "PROD_CONSUMPTION" ELSE "ISSUE",
                     t.loc, t.lot, t.qty) EXCEPT !.from = Or(t.to, "UNRESTRICTED")]
      BY <2>1 DEF Opposite, InboundTypes, OutboundTypes
    <3>2. /\ u.type \in {"ISSUE", "PROD_CONSUMPTION"} /\ u.loc = t.loc /\ u.lot = t.lot
          /\ u.qty = t.qty /\ u.from = Or(t.to, "UNRESTRICTED")
      BY <3>1 DEF Plain
    <3>3. Or(u.from, "UNRESTRICTED") = u.from BY <3>2 DEF Or
    <3> HIDE DEF u
    <3>4. Debit(u) = Credit(t) /\ Credit(u) = Debit(t)
      BY <2>1, <3>2, <3>3 DEF Debit, Credit, InboundTypes, CountTypes
    <3> QED BY <3>2, <3>4
  <2>2. CASE t.type \in OutboundTypes
    <3>1. u = [Plain("RECEIPT", t.loc, t.lot, t.qty) EXCEPT !.to = Or(t.from, "UNRESTRICTED")]
      BY <2>2 DEF Opposite, InboundTypes, OutboundTypes
    <3>2. /\ u.type = "RECEIPT" /\ u.loc = t.loc /\ u.lot = t.lot
          /\ u.qty = t.qty /\ u.to = Or(t.from, "UNRESTRICTED")
      BY <3>1 DEF Plain
    <3>3. Or(u.to, "UNRESTRICTED") = u.to BY <3>2 DEF Or
    <3> HIDE DEF u
    <3>4. Debit(u) = Credit(t) /\ Credit(u) = Debit(t)
      BY <2>2, <3>2, <3>3 DEF Debit, Credit, OutboundTypes, CountTypes
    <3> QED BY <3>2, <3>4
  <2>3. CASE t.type = "RETURN"
    <3>1. u = [Plain("ISSUE", t.loc, t.lot, t.qty) EXCEPT !.from = "RETURNED"]
      BY <2>3 DEF Opposite, InboundTypes, OutboundTypes
    <3>2. /\ u.type = "ISSUE" /\ u.loc = t.loc /\ u.lot = t.lot
          /\ u.qty = t.qty /\ u.from = "RETURNED"
      BY <3>1 DEF Plain
    <3>3. t.to = NoState BY <2>3 DEF GoodRow, PlainStates
    <3>4. Or(u.from, "UNRESTRICTED") = "RETURNED" /\ Or(t.to, "RETURNED") = "RETURNED"
      BY <3>2, <3>3 DEF Or, NoState
    <3> HIDE DEF u
    <3>5. Debit(u) = Credit(t) /\ Credit(u) = Debit(t)
      BY <2>3, <3>2, <3>4 DEF Debit, Credit, CountTypes
    <3> QED BY <3>2, <3>5
  <2>4. CASE t.type = "TRANSFER"
    <3>1. u = [Plain("TRANSFER", t.toLoc, t.lot, t.qty)
                 EXCEPT !.toLoc = t.loc, !.from = Or(t.to, t.from), !.to = t.from]
      BY <2>4 DEF Opposite, InboundTypes, OutboundTypes
    <3>2. t.from = NoState /\ t.to = NoState BY <2>4 DEF GoodRow, PlainStates
    <3>3. /\ u.type = "TRANSFER" /\ u.loc = t.toLoc /\ u.toLoc = t.loc /\ u.lot = t.lot
          /\ u.qty = t.qty /\ u.from = NoState /\ u.to = NoState
      BY <3>1, <3>2 DEF Plain, Or
    <3> HIDE DEF u
    <3>4. Debit(u) = Credit(t) /\ Credit(u) = Debit(t)
      BY <2>4, <3>2, <3>3 DEF Debit, Credit, CountTypes, Or
    <3> QED BY <3>3, <3>4
  <2>5. CASE t.type \in CountTypes
    <3> DEFINE in == Or(t.to, "UNRESTRICTED")
               out == Or(t.from, "UNRESTRICTED")
    <3>1. u = [Plain("ADJUSTMENT", t.loc, t.lot, t.qty)
                 EXCEPT !.dir = IF t.after >= t.before THEN "OUT" ELSE "IN",
                        !.from = t.to, !.to = t.from]
      BY <2>5 DEF Opposite, InboundTypes, OutboundTypes, CountTypes
    <3>2. /\ u.type \in CountTypes /\ u.loc = t.loc /\ u.lot = t.lot
          /\ u.qty = t.qty /\ u.from = t.to /\ u.to = t.from
          /\ u.dir = IF t.after >= t.before THEN "OUT" ELSE "IN"
      BY <3>1 DEF Plain, CountTypes
    <3>3. /\ u.dir = "IN" => Credit(u) = {<<t.loc, t.lot, out>>} /\ Debit(u) = {}
          /\ u.dir = "OUT" => Debit(u) = {<<t.loc, t.lot, in>>} /\ Credit(u) = {}
      <4> HIDE DEF u
      <4> QED BY <3>2 DEF Credit, Debit, CountTypes
    <3>4. /\ t.dir = "IN" => Credit(t) = {<<t.loc, t.lot, in>>} /\ Debit(t) = {}
          /\ t.dir = "OUT" => Debit(t) = {<<t.loc, t.lot, out>>} /\ Credit(t) = {}
      BY <2>5, CountMove
    <3>5. t.after = t.before + OnHandDelta(t, t.loc) BY DEF GoodRow
    <3>6. OnHandDelta(t, t.loc) = AtLoc(Credit(t), t.loc, t.qty) - AtLoc(Debit(t), t.loc, t.qty)
      BY DeltaParts
    <3>7. t.dir = "OUT" => out \in OnHandStates BY <2>5 DEF Undoable
    <3> HIDE DEF u, in, out
    <3>8. t.dir = "IN" => u.dir = "OUT"
      <4> SUFFICES ASSUME t.dir = "IN" PROVE u.dir = "OUT" OBVIOUS
      <4>1. AtLoc(Credit(t), t.loc, t.qty) >= 0 /\ AtLoc(Credit(t), t.loc, t.qty) \in Int
        BY <1>0 DEF AtLoc
      <4>2. AtLoc(Debit(t), t.loc, t.qty) = 0 BY <3>4 DEF AtLoc
      <4> QED BY <1>0, <3>2, <3>5, <3>6, <4>1, <4>2
    <3>9. t.dir = "OUT" /\ t.qty # 0 => u.dir = "IN"
      <4> SUFFICES ASSUME t.dir = "OUT", t.qty # 0 PROVE u.dir = "IN" OBVIOUS
      <4>1. AtLoc(Debit(t), t.loc, t.qty) = t.qty
        <5>1. <<t.loc, t.lot, out>> \in Debit(t) BY <3>4
        <5>2. \E c \in Debit(t) : c[1] = t.loc /\ c[3] \in OnHandStates
          BY <3>7, <5>1
        <5> QED BY <5>2 DEF AtLoc
      <4>2. AtLoc(Credit(t), t.loc, t.qty) = 0 BY <3>4 DEF AtLoc
      <4> QED BY <1>0, <3>2, <3>5, <3>6, <4>1, <4>2
    <3>10. t.qty # 0 => Debit(u) = Credit(t) /\ Credit(u) = Debit(t)
      BY <1>0, <3>3, <3>4, <3>8, <3>9
    <3> QED BY <3>2, <3>10
  <2> QED BY <2>1, <2>2, <2>3, <2>4, <2>5 DEF SingleTypes
<1> HIDE DEF u
<1>2. t.qty # 0 => Delta(u, b) = -Delta(t, b)
  BY <1>0, <1>1 DEF Delta
<1>3. t.qty = 0 => Delta(u, b) = 0 /\ Delta(t, b) = 0
  BY <1>1 DEF Delta
<1> QED BY <1>0, <1>2, <1>3 DEF u

(* A quarantine row is undone by the pair of adjustments. *)
LEMMA PairDelta ==
  ASSUME NEW t \in Row, GoodRow(t), t.type = "QUARANTINE", NEW b
  PROVE  Delta(PutBack(t), b) + Delta(TakeOut(t), b) = -Delta(t, b)
<1>1. t.from = NoState /\ t.to = NoState /\ t.qty \in Nat
  BY DEF Row, GoodRow, PlainStates, StateChangeTypes
<1>2. /\ Credit(t) = {<<t.loc, t.lot, "QUARANTINED">>} /\ Debit(t) = {<<t.loc, t.lot, "UNRESTRICTED">>}
  BY <1>1 DEF Credit, Debit, CountTypes, Or
<1>3. /\ Credit(PutBack(t)) = {<<t.loc, t.lot, "UNRESTRICTED">>} /\ Debit(PutBack(t)) = {}
      /\ PutBack(t).qty = t.qty
  BY <1>1 DEF Credit, Debit, CountTypes, Or, PutBack, Plain, NoState
<1>4. /\ Debit(TakeOut(t)) = {<<t.loc, t.lot, "QUARANTINED">>} /\ Credit(TakeOut(t)) = {}
      /\ TakeOut(t).qty = t.qty
  BY <1>1 DEF Credit, Debit, CountTypes, Or, TakeOut, Plain, NoState
<1> QED BY <1>1, <1>2, <1>3, <1>4 DEF Delta

(* The rows a log reverses, and the one more that a posting reverses.        *)
Reversed(log) == {log[j].reversalOf : j \in 1..Len(log)}

(* Appending a row that reverses row k adds k to the reversed ones.         *)
LEMMA NewlyReversed ==
  ASSUME NEW log, log \in Seq(Row), NEW r, NEW bal, NEW k
  PROVE  Reversed(Append(log, RowOf(bal, r, k))) = Reversed(log) \cup {k}
<1> DEFINE t == RowOf(bal, r, k)
<1>1. t.reversalOf = k BY DEF RowOf
<1> HIDE DEF t
<1>2. /\ Len(Append(log, t)) = Len(log) + 1 /\ Append(log, t)[Len(log) + 1] = t
      /\ \A j \in 1..Len(log) : Append(log, t)[j] = log[j]
      /\ \A j \in 1..(Len(log) + 1) : j \in 1..Len(log) \/ j = Len(log) + 1
      /\ Len(log) + 1 \in 1..(Len(log) + 1)
      /\ \A j \in 1..Len(log) : j \in 1..(Len(log) + 1)
  OBVIOUS
<1> QED BY <1>1, <1>2 DEF t, Reversed

(* "Post an opposite transaction": the step that reverses a row of one of   *)
(* the undoable kinds takes every bucket back by exactly what the row had   *)
(* moved, whatever was posted in between.                                   *)
THEOREM ReversalIsOpposite == Spec => ReverseIsOpposite
<1>1. ASSUME IInv, [Next]_vars, NEW i \in 1..Len(txns), Undoable(txns[i]), ~IsReversed(i), IsReversed(i)',
             NEW b \in Buckets
      PROVE  balance'[b] - balance[b] = -Delta(txns[i], b)
  <2>1. txns \in Seq(Row) /\ txns[i] \in Row /\ GoodRow(txns[i]) /\ balance \in [Buckets -> Int]
    BY <1>1 DEF IInv, Consistent, GoodLog
  <2>2. i \notin Reversed(txns) /\ i \in Reversed(txns') /\ i # 0
    BY <1>1 DEF IsReversed, Reversed
  <2>3. ASSUME NEW request, Book(request, 0) PROVE FALSE
    <3>1. txns' = Append(txns, RowOf(balance, Resolve(request), 0)) BY <2>3 DEF Book
    <3>2. Reversed(txns') = Reversed(txns) \cup {0} BY <2>1, <3>1, NewlyReversed
    <3> QED BY <2>2, <3>2
  <2>4. ~Post BY <2>3 DEF Post
  <2>5. ~CycleCount /\ ~LoadBalance BY <2>3 DEF CycleCount, LoadBalance, Recount
  <2>6. ~QualityHold /\ ~QualityRelease BY <2>3 DEF QualityHold, QualityRelease
  <2>7. ~Tick /\ ~UNCHANGED vars BY <1>1 DEF Tick, vars, IsReversed
  <2>8. PICK k \in 1..Len(txns) : ReverseTxn(k)
    BY <1>1, <2>4, <2>5, <2>6, <2>7 DEF Next
  <2>9. CASE txns[k].type \in SingleTypes /\ Book(Opposite(txns[k]), k)
    <3>1. /\ txns' = Append(txns, RowOf(balance, Resolve(Opposite(txns[k])), k))
          /\ balance' = Apply(balance, Resolve(Opposite(txns[k])))
      BY <2>9 DEF Book
    <3>2. k = i
      <4>1. Reversed(txns') = Reversed(txns) \cup {k} BY <2>1, <3>1, NewlyReversed
      <4> QED BY <2>2, <4>1
    <3>3. Resolve(Opposite(txns[i])) = Opposite(txns[i]) BY <2>1, <2>9, <3>2, OppositeRequest
    <3>4. Delta(Opposite(txns[i]), b) = -Delta(txns[i], b)
      BY <1>1, <2>1, <2>9, <3>2, OppositeDelta
    <3>5. Delta(txns[i], b) \in Int
      <4>1. txns[i].qty \in Nat BY <2>1 DEF Row
      <4> QED BY <4>1 DEF Delta
    <3> QED BY <2>1, <3>1, <3>2, <3>3, <3>4, <3>5 DEF Apply
  <2>10. CASE txns[k].type \in StateChangeTypes /\ BookBoth(PutBack(txns[k]), TakeOut(txns[k]), k)
    <3> DEFINE t == txns[k]
               log == Append(txns, RowOf(balance, PutBack(t), k))
               mid == Apply(balance, PutBack(t))
    <3>1. /\ txns' = Append(log, RowOf(mid, TakeOut(t), 0))
          /\ balance' = Apply(mid, TakeOut(t))
      BY <2>10 DEF BookBoth
    <3>2. k = i
      <4>1. log \in Seq(Row)
        <5>1. t \in Row /\ GoodRow(t) BY <1>1 DEF IInv, Consistent, GoodLog
        <5>2. PutBack(t) \in Request /\ PlainStates(PutBack(t)) BY <2>10, <5>1, PairRequests
        <5>3. Accepts(balance, txns, PutBack(t)) BY <2>10 DEF BookBoth
        <5>4. now \in Nat /\ k \in Nat BY <1>1, <2>1 DEF IInv
        <5> HIDE DEF t
        <5>5. RowOf(balance, PutBack(t), k) \in Row BY <2>1, <5>2, <5>3, <5>4, NewRow
        <5> QED BY <2>1, <5>5
      <4>2. Reversed(log) = Reversed(txns) \cup {k} BY <2>1, NewlyReversed
      <4> HIDE DEF log
      <4>3. Reversed(txns') = Reversed(log) \cup {0} BY <3>1, <4>1, NewlyReversed
      <4> QED BY <2>2, <4>2, <4>3
    <3>3. txns[i].type = "QUARANTINE"
      BY <1>1, <2>10, <3>2 DEF Undoable, StateChangeTypes
    <3>4. Delta(PutBack(txns[i]), b) + Delta(TakeOut(txns[i]), b) = -Delta(txns[i], b)
      BY <2>1, <3>3, PairDelta
    <3>5. /\ Delta(PutBack(txns[i]), b) \in Int /\ Delta(TakeOut(txns[i]), b) \in Int
          /\ Delta(txns[i], b) \in Int
      <4>1. /\ txns[i].qty \in Nat /\ PutBack(txns[i]).qty = txns[i].qty
            /\ TakeOut(txns[i]).qty = txns[i].qty
        BY <2>1 DEF Row, PutBack, TakeOut, Plain
      <4> QED BY <4>1 DEF Delta
    <3>6. balance'[b] = balance[b] + Delta(PutBack(txns[i]), b) + Delta(TakeOut(txns[i]), b)
      BY <3>1, <3>2 DEF Apply
    <3>7. balance[b] \in Int BY <2>1
    <3> QED BY <3>4, <3>5, <3>6, <3>7
  <2> QED BY <2>8, <2>9, <2>10 DEF ReverseTxn
<1>2. IInv /\ [Next]_vars => [\A i \in 1..Len(txns) : Undoable(txns[i]) => UndoesRow(i)]_vars
  BY <1>1 DEF UndoesRow
<1> QED BY <1>2, Invariant, PTL DEF Spec, ReverseIsOpposite

-----------------------------------------------------------------------------
(* Stock is neither made nor lost *)

Amount(bs, q) == IF bs = {} THEN 0 ELSE q

(* There are finitely many buckets.                                         *)
LEMMA BucketsFinite == IsFiniteSet(Buckets)
<1>1. IsFiniteSet(Locations) /\ NLots \in Nat BY LedgerAssumption
<1>2. IsFiniteSet(Lots)
  <2>1. IsFiniteSet(0..NLots) BY <1>1, FS_Interval
  <2> QED BY <2>1 DEF Lots
<1>3. IsFiniteSet(States)
  <2>1. IsFiniteSet({}) BY FS_EmptySet
  <2> DEFINE S1 == {"UNRESTRICTED"}  S2 == S1 \cup {"QUARANTINED"}  S3 == S2 \cup {"BLOCKED"}
             S4 == S3 \cup {"RETURNED"}  S5 == S4 \cup {"SCRAP"}
  <2>2. IsFiniteSet(S1) BY FS_Singleton
  <2>3. IsFiniteSet(S2) BY <2>2, FS_AddElement
  <2>4. IsFiniteSet(S3) BY <2>3, FS_AddElement
  <2>5. IsFiniteSet(S4) BY <2>4, FS_AddElement
  <2>6. IsFiniteSet(S5) BY <2>5, FS_AddElement
  <2>7. S5 = States BY DEF States, OnHandStates
  <2> QED BY <2>6, <2>7
<1>4. IsFiniteSet(Lots \X States) BY <1>2, <1>3, FS_Product
<1>5. IsFiniteSet(Locations \X (Lots \X States)) BY <1>1, <1>4, FS_Product
<1> DEFINE f == [x \in Locations \X (Lots \X States) |-> <<x[1], x[2][1], x[2][2]>>]
<1>6. Buckets = {f[x] : x \in Locations \X (Lots \X States)}
  <2>1. ASSUME NEW b \in Buckets PROVE \E x \in Locations \X (Lots \X States) : b = f[x]
    <3>1. <<b[1], <<b[2], b[3]>>>> \in Locations \X (Lots \X States) BY DEF Buckets
    <3>2. b = f[<<b[1], <<b[2], b[3]>>>>] BY <3>1 DEF Buckets
    <3> QED BY <3>1, <3>2
  <2>2. ASSUME NEW x \in Locations \X (Lots \X States) PROVE f[x] \in Buckets BY DEF Buckets
  <2> QED BY <2>1, <2>2
<1>7. f \in Surjection(Locations \X (Lots \X States), Buckets)
  <2>1. \A x \in Locations \X (Lots \X States) : f[x] \in Buckets BY DEF Buckets
  <2>2. f \in [Locations \X (Lots \X States) -> Buckets] BY <2>1
  <2> HIDE DEF f
  <2> QED BY <1>6, <2>2 DEF Surjection
<1> HIDE DEF f
<1> QED BY <1>5, <1>7, FS_Surjection

(* The total is the sum over them.                                          *)
LEMMA TotalSum == ASSUME NEW bal \in [Buckets -> Int] PROVE Total(bal) = SumOverSet(bal, Buckets)
<1>1. DOMAIN bal = Buckets OBVIOUS
<1>2. Total(bal) = SumOverSet(bal, DOMAIN bal)
  BY DEF Total, FoldFunction, FoldFunctionOnSet, SumOverSet
<1> QED BY <1>1, <1>2

(* What a set of at most one bucket adds to the total. *)
LEMMA TotalPart ==
  ASSUME NEW f \in [Buckets -> Int], NEW bs, NEW lot \in Lots, AtMostOne(bs, lot), NEW q \in Int
  PROVE  SumOverSet([b \in Buckets |-> f[b] + Part(bs, b, q)], Buckets) = SumOverSet(f, Buckets) + Amount(bs, q)
<1> DEFINE g == [b \in Buckets |-> f[b] + Part(bs, b, q)]
<1>1. IsFiniteSet(Buckets) BY BucketsFinite
<1>2. SumOverSet(f, Buckets) \in Int BY <1>1, SumInt
<1>3. CASE bs = {}
  <2>1. \A b \in Buckets : f[b] = g[b] BY <1>3 DEF Part
  <2> HIDE DEF g
  <2>2. SumOverSet(f, Buckets) = SumOverSet(g, Buckets) BY <1>1, <2>1, SumAgrees
  <2> QED BY <1>2, <1>3, <2>2 DEF Amount, g
<1>4. CASE bs # {}
  <2>1. PICK x \in Locations, s \in States : bs = {<<x, lot, s>>} BY <1>4 DEF AtMostOne
  <2> DEFINE c == <<x, lot, s>>
  <2>2. c \in Buckets /\ bs = {c} BY <2>1 DEF Buckets
  <2> HIDE DEF c
  <2>3. g[c] = f[c] + q /\ g[c] \in Int /\ f[c] \in Int BY <2>2 DEF Part
  <2>4. \A b \in Buckets \ {c} : g[b] = f[b] BY <2>2 DEF Part
  <2>5. \A b \in Buckets : f[b] \in Int OBVIOUS
  <2> HIDE DEF g
  <2>6. c \in Buckets /\ g[c] \in Int BY <2>2, <2>3
  <2>7. SumOverSet(g, Buckets) = SumOverSet(f, Buckets) + (g[c] - f[c])
    BY ONLY <1>1, <2>4, <2>5, <2>6, SumChanges, Z3
  <2> QED BY <1>2, <1>4, <2>3, <2>7 DEF Amount, g
<1> QED BY <1>3, <1>4

(* A movement changes the total by what it credits less what it debits.     *)
LEMMA TotalApply ==
  ASSUME NEW bal \in [Buckets -> Int], NEW r, Typed(r), r.qty \in Int
  PROVE  Total(Apply(bal, r)) = Total(bal) + (Amount(Credit(r), r.qty) - Amount(Debit(r), r.qty))
<1> DEFINE mid == [b \in Buckets |-> bal[b] + Part(Credit(r), b, r.qty)]
           left == [b \in Buckets |-> mid[b] + Part(Debit(r), b, -r.qty)]
<1>1. /\ AtMostOne(Debit(r), r.lot) /\ AtMostOne(Credit(r), r.lot) /\ r.lot \in Lots /\ -r.qty \in Int
  BY MoveShape DEF Typed
<1>2. mid \in [Buckets -> Int] BY DEF Part
<1>3. Apply(bal, r) = left
  <2>1. \A b \in Buckets : bal[b] + Delta(r, b) = bal[b] + Part(Credit(r), b, r.qty) + Part(Debit(r), b, -r.qty)
    BY DEF Delta, Part
  <2> QED BY <2>1 DEF Apply
<1>4. Apply(bal, r) \in [Buckets -> Int] BY DEF Apply, Delta
<1>5. SumOverSet(mid, Buckets) = SumOverSet(bal, Buckets) + Amount(Credit(r), r.qty) BY <1>1, TotalPart
<1> HIDE DEF mid
<1>6. SumOverSet(left, Buckets) = SumOverSet(mid, Buckets) + Amount(Debit(r), -r.qty) BY <1>1, <1>2, TotalPart
<1>7. Total(bal) = SumOverSet(bal, Buckets) /\ Total(Apply(bal, r)) = SumOverSet(left, Buckets)
  BY <1>3, <1>4, TotalSum
<1>8. SumOverSet(bal, Buckets) \in Int BY BucketsFinite, SumInt
<1>9. /\ Amount(Debit(r), -r.qty) = -Amount(Debit(r), r.qty)
      /\ Amount(Credit(r), r.qty) \in Int /\ Amount(Debit(r), r.qty) \in Int
  BY DEF Amount
<1> HIDE DEF left
<1> QED BY <1>5, <1>6, <1>7, <1>8, <1>9

(* Which is what the row says flowed in or out.                             *)
LEMMA FlowMoves ==
  ASSUME NEW t, Typed(t), t.qty \in Int
  PROVE  Flow(t) = Amount(Credit(t), t.qty) - Amount(Debit(t), t.qty) /\ Flow(t) \in Int
<1>1. CASE t.type \in {"OPENING", "RECEIPT", "PROD_COMPLETION", "RETURN"}
  <2>1. Credit(t) # {} BY <1>1 DEF Credit
  <2>2. Debit(t) = {} BY <1>1 DEF Debit, CountTypes
  <2>3. Flow(t) = t.qty BY <1>1 DEF Flow, CountTypes
  <2> QED BY <2>1, <2>2, <2>3 DEF Amount
<1>2. CASE t.type \in {"ISSUE", "SHIPMENT", "PROD_CONSUMPTION"}
  <2>1. Credit(t) = {} BY <1>2 DEF Credit, CountTypes
  <2>2. Debit(t) # {} BY <1>2 DEF Debit
  <2>3. Flow(t) = -t.qty BY <1>2 DEF Flow, CountTypes
  <2> QED BY <2>1, <2>2, <2>3 DEF Amount
<1>3. CASE t.type \in CountTypes /\ t.dir = "IN"
  <2>1. Credit(t) # {} BY <1>3 DEF Credit, CountTypes
  <2>2. Debit(t) = {} BY <1>3 DEF Debit, CountTypes
  <2>3. Flow(t) = t.qty BY <1>3 DEF Flow, CountTypes
  <2> QED BY <2>1, <2>2, <2>3 DEF Amount
<1>4. CASE t.type \in CountTypes /\ t.dir = "OUT"
  <2>1. Credit(t) = {} BY <1>4 DEF Credit, CountTypes
  <2>2. Debit(t) # {} BY <1>4 DEF Debit, CountTypes
  <2>3. Flow(t) = -t.qty BY <1>4 DEF Flow, CountTypes
  <2> QED BY <2>1, <2>2, <2>3 DEF Amount
<1>5. CASE t.type \in {"TRANSFER", "QUARANTINE", "RELEASE", "SCRAP"}
  <2>1. Credit(t) # {} BY <1>5 DEF Credit
  <2>2. Debit(t) # {} BY <1>5 DEF Debit
  <2>3. Flow(t) = 0 BY <1>5 DEF Flow, CountTypes
  <2> QED BY <2>1, <2>2, <2>3 DEF Amount
<1>6. CASE t.type \in {"ALLOCATION", "DEALLOCATION"}
  <2>1. Credit(t) = {} BY <1>6 DEF Credit, CountTypes
  <2>2. Debit(t) = {} BY <1>6 DEF Debit, CountTypes
  <2>3. Flow(t) = 0 BY <1>6 DEF Flow, CountTypes
  <2> QED BY <2>1, <2>2, <2>3 DEF Amount
<1>7. t.type \in TxnTypes /\ t.dir \in {"IN", "OUT"} BY DEF Typed, Directions
<1> QED BY <1>1, <1>2, <1>3, <1>4, <1>5, <1>6, <1>7 DEF TxnTypes, CountTypes

AnyFlow(base, s, i, sum) == TRUE
Flows == INSTANCE FoldLemmas WITH Op <- AddFlow, Holds <- AnyFlow

(* The flows of rows are added up by a loop.                                *)
LEMMA FlowSumFold == ASSUME NEW rows PROVE FlowSum(rows) = Flows!Fold(0, rows)
  BY DEF FlowSum, Flows!Fold, Flows!FoldLeft, Flows!MapThenFoldSet, Flows!Max, FoldLeft, MapThenFoldSet, Max

(* The flows of no row, of one and of two. *)
LEMMA FlowOf ==
  ASSUME NEW T, NEW t \in T, NEW u \in T, Flow(t) \in Int, Flow(u) \in Int
  PROVE  FlowSum(<<>>) = 0 /\ FlowSum(<<t>>) = Flow(t) /\ FlowSum(<<t, u>>) = Flow(t) + Flow(u)
<1>1. FlowSum(<<>>) = 0 BY FlowSumFold, Flows!FoldEmpty
<1>2. <<>> \in Seq(T) /\ <<t>> \in Seq(T) OBVIOUS
<1>3. Append(<<>>, t) = <<t>> /\ Append(<<t>>, u) = <<t, u>>
  <2> DEFINE a == Append(<<>>, t)  b == Append(<<t>>, u)
  <2>1. /\ a \in Seq(T) /\ Len(a) = 1 /\ a[1] = t
        /\ b \in Seq(T) /\ Len(b) = 2 /\ b[1] = t /\ b[2] = u
    OBVIOUS
  <2> HIDE DEF a, b
  <2>2. a = <<a[1]>> /\ b = <<b[1], b[2]>> BY <2>1
  <2> QED BY <2>1, <2>2 DEF a, b
<1>4. Flows!Fold(0, Append(<<>>, t)) = AddFlow(Flows!Fold(0, <<>>), t) BY <1>2, Flows!FoldAppend
<1>5. Flows!Fold(0, Append(<<t>>, u)) = AddFlow(Flows!Fold(0, <<t>>), u) BY <1>2, Flows!FoldAppend
<1>6. FlowSum(<<t>>) = AddFlow(FlowSum(<<>>), t) BY <1>3, <1>4, FlowSumFold
<1>7. FlowSum(<<t, u>>) = AddFlow(FlowSum(<<t>>), u) BY <1>3, <1>5, FlowSumFold
<1>8. FlowSum(<<t>>) = Flow(t) BY <1>1, <1>6 DEF AddFlow
<1>9. FlowSum(<<t, u>>) = Flow(t) + Flow(u) BY <1>7, <1>8 DEF AddFlow
<1> QED BY <1>1, <1>8, <1>9

(* A row moves what the posting it was made from moves. *)
LEMMA RowMoves ==
  ASSUME NEW bal, NEW r, NEW k, NEW t, t = RowOf(bal, r, k), t \in Row, GoodRow(t)
  PROVE  /\ Typed(r) /\ r.qty \in Int /\ Typed(t) /\ t.qty = r.qty
         /\ Credit(r) = Credit(t) /\ Debit(r) = Debit(t)
<1>1. /\ t.type = r.type /\ t.loc = r.loc /\ t.toLoc = r.toLoc /\ t.lot = r.lot /\ t.qty = r.qty
      /\ t.from = r.from /\ t.to = r.to /\ t.dir = r.dir
  BY DEF RowOf
<1>2. Typed(t) /\ t.qty \in Int BY RowTyped
<1>3. Typed(r) /\ r.qty \in Int BY <1>1, <1>2 DEF Typed
<1>4. Credit(r) = Credit(t) /\ Debit(r) = Debit(t) BY <1>1 DEF Credit, Debit
<1> QED BY <1>1, <1>2, <1>3, <1>4

(* A step books nothing, one row, or two. *)
LEMMA StepBooks ==
  [Next]_vars => \/ UNCHANGED <<balance, txns>>
                 \/ \E request, k : Book(request, k)
                 \/ \E first, second, k : BookBoth(first, second, k)
<1> SUFFICES ASSUME [Next]_vars, ~UNCHANGED <<balance, txns>>
             PROVE  \/ \E request, k : Book(request, k)
                    \/ \E first, second, k : BookBoth(first, second, k)
  OBVIOUS
<1>1. CASE Post BY <1>1 DEF Post
<1>2. CASE CycleCount \/ LoadBalance BY <1>2 DEF CycleCount, LoadBalance, Recount
<1>3. CASE QualityHold \/ QualityRelease BY <1>3 DEF QualityHold, QualityRelease
<1>4. ASSUME NEW i \in 1..Len(txns), ReverseTxn(i)
      PROVE  \/ \E request, k : Book(request, k)
             \/ \E first, second, k : BookBoth(first, second, k)
  BY <1>4 DEF ReverseTxn
<1>5. CASE Tick BY <1>5 DEF Tick
<1>6. CASE UNCHANGED vars BY <1>6 DEF vars
<1> QED BY <1>1, <1>2, <1>3, <1>4, <1>5, <1>6 DEF Next

(* The rows a step appends are those after the last one there was.          *)
LEMMA NewRows ==
  ASSUME NEW log \in Seq(Row), NEW t \in Row, NEW u \in Row
  PROVE  /\ SubSeq(log, Len(log) + 1, Len(log)) = <<>>
         /\ SubSeq(Append(log, t), Len(log) + 1, Len(log) + 1) = <<t>>
         /\ SubSeq(Append(Append(log, t), u), Len(log) + 1, Len(log) + 2) = <<t, u>>
<1>1. Len(log) \in Nat OBVIOUS
<1>2. SubSeq(log, Len(log) + 1, Len(log)) = <<>> BY <1>1
<1>3. SubSeq(Append(log, t), Len(log) + 1, Len(log) + 1) = <<t>>
  <2> DEFINE s == SubSeq(Append(log, t), Len(log) + 1, Len(log) + 1)
  <2>1. s \in Seq(Row) /\ Len(s) = 1 /\ s[1] = t
    <3>1. Append(log, t) \in Seq(Row) /\ Len(Append(log, t)) = Len(log) + 1 /\ Append(log, t)[Len(log)+1] = t OBVIOUS
    <3> QED BY <3>1, <1>1
  <2> HIDE DEF s
  <2>2. s = <<s[1]>> BY <2>1
  <2> QED BY <2>1, <2>2 DEF s
<1>4. SubSeq(Append(Append(log, t), u), Len(log) + 1, Len(log) + 2) = <<t, u>>
  <2> DEFINE l2 == Append(Append(log, t), u)
             s == SubSeq(l2, Len(log) + 1, Len(log) + 2)
  <2>1. l2 \in Seq(Row) /\ Len(l2) = Len(log) + 2 /\ l2[Len(log)+1] = t /\ l2[Len(log)+2] = u
    <3>1. Append(log, t) \in Seq(Row) /\ Len(Append(log, t)) = Len(log) + 1 /\ Append(log, t)[Len(log)+1] = t OBVIOUS
    <3> QED BY <3>1, <1>1
  <2> HIDE DEF l2
  <2>2. s \in Seq(Row) /\ Len(s) = 2 /\ s[1] = t /\ s[2] = u BY <2>1, <1>1
  <2> HIDE DEF s
  <2>3. s = <<s[1], s[2]>> BY <2>2
  <2> QED BY <2>2, <2>3 DEF s, l2
<1> QED BY <1>2, <1>3, <1>4

(* "a verifiable chain": no sequence of transfers, quarantines, releases,   *)
(* scrappings and reversals makes or loses stock, in any number of          *)
(* locations and lots: the total changes by what the appended rows say came *)
(* in from outside or went out.                                             *)
THEOREM OnlyFlowsCount == Spec => OnlyFlowsChangeTotal
<1>1. ASSUME IInv, IInv', [Next]_vars
      PROVE  Total(balance') - Total(balance)
               = FlowSum(SubSeq(txns', Len(txns) + 1, Len(txns')))
  <2>1. /\ balance \in [Buckets -> Int] /\ txns \in Seq(Row) /\ GoodLog(txns') /\ Len(txns) \in Nat
        /\ txns' \in Seq(Row)
    BY <1>1 DEF IInv, Consistent, GoodLog
  <2>2. Total(balance) \in Int BY <2>1, TotalSum, SumInt, BucketsFinite
  <2>3. CASE UNCHANGED <<balance, txns>>
    <3>1. SubSeq(txns, Len(txns) + 1, Len(txns)) = <<>> BY <2>1
    <3>2. FlowSum(<<>>) = 0 BY FlowSumFold, Flows!FoldEmpty
    <3>3. SubSeq(txns', Len(txns) + 1, Len(txns')) = <<>> BY <2>3, <3>1
    <3>4. FlowSum(SubSeq(txns', Len(txns) + 1, Len(txns'))) = 0 BY <3>2, <3>3
    <3> QED BY <2>2, <2>3, <3>4
  <2>4. ASSUME NEW request, NEW k, Book(request, k)
        PROVE  Total(balance') - Total(balance)
                 = FlowSum(SubSeq(txns', Len(txns) + 1, Len(txns')))
    <3> DEFINE r == Resolve(request)
               t == RowOf(balance, r, k)
    <3>1. balance' = Apply(balance, r) /\ txns' = Append(txns, t) BY <2>4 DEF Book
    <3> HIDE DEF t, r
    <3>2. Len(txns') = Len(txns) + 1 /\ txns'[Len(txns) + 1] = t BY <2>1, <3>1
    <3>3. t \in Row /\ GoodRow(t) BY <2>1, <3>2 DEF GoodLog
    <3>4. /\ Typed(r) /\ r.qty \in Int /\ Typed(t) /\ t.qty = r.qty
          /\ Credit(r) = Credit(t) /\ Debit(r) = Debit(t)
      BY <3>3, RowMoves DEF t
    <3>5. Total(balance') = Total(balance) + Flow(t) /\ Flow(t) \in Int
      <4>1. Total(Apply(balance, r)) = Total(balance) + (Amount(Credit(r), r.qty) - Amount(Debit(r), r.qty))
        BY <2>1, <3>4, TotalApply
      <4>2. Flow(t) = Amount(Credit(t), t.qty) - Amount(Debit(t), t.qty) /\ Flow(t) \in Int
        BY <3>4, FlowMoves
      <4> QED BY <3>1, <3>4, <4>1, <4>2
    <3>6. SubSeq(txns', Len(txns) + 1, Len(txns')) = <<t>> BY <2>1, <3>1, <3>2, <3>3, NewRows
    <3>7. FlowSum(<<t>>) = Flow(t) BY <3>3, <3>5, FlowOf
    <3>8. FlowSum(SubSeq(txns', Len(txns) + 1, Len(txns'))) = Flow(t) BY <3>6, <3>7
    <3> QED BY <2>2, <3>5, <3>8
  <2>5. ASSUME NEW first, NEW second, NEW k, BookBoth(first, second, k)
        PROVE  Total(balance') - Total(balance)
                 = FlowSum(SubSeq(txns', Len(txns) + 1, Len(txns')))
    <3> DEFINE mid == Apply(balance, first)
               t == RowOf(balance, first, k)
               u == RowOf(mid, second, 0)
    <3>1. balance' = Apply(mid, second) /\ txns' = Append(Append(txns, t), u) BY <2>5 DEF BookBoth
    <3> HIDE DEF t, u, mid
    <3>2. /\ Len(txns') = Len(txns) + 2 /\ txns'[Len(txns) + 1] = t /\ txns'[Len(txns) + 2] = u
      <4>1. Len(Append(txns, t)) = Len(txns) + 1 /\ Append(txns, t)[Len(txns) + 1] = t BY <2>1
      <4> QED BY <2>1, <3>1, <4>1
    <3>3. t \in Row /\ GoodRow(t) /\ u \in Row /\ GoodRow(u) BY <2>1, <3>2 DEF GoodLog
    <3>4. /\ Typed(first) /\ first.qty \in Int /\ Typed(t) /\ t.qty = first.qty
          /\ Credit(first) = Credit(t) /\ Debit(first) = Debit(t)
      BY <3>3, RowMoves DEF t
    <3>5. /\ Typed(second) /\ second.qty \in Int /\ Typed(u) /\ u.qty = second.qty
          /\ Credit(second) = Credit(u) /\ Debit(second) = Debit(u)
      BY <3>3, RowMoves DEF u
    <3>6. mid \in [Buckets -> Int] BY <2>1, <3>4 DEF mid, Apply, Delta
    <3>7. Total(mid) = Total(balance) + Flow(t) /\ Flow(t) \in Int
      <4>1. Total(Apply(balance, first)) = Total(balance) + (Amount(Credit(first), first.qty) - Amount(Debit(first), first.qty))
        BY <2>1, <3>4, TotalApply
      <4>2. Flow(t) = Amount(Credit(t), t.qty) - Amount(Debit(t), t.qty) /\ Flow(t) \in Int
        BY <3>4, FlowMoves
      <4> QED BY <3>4, <4>1, <4>2 DEF mid
    <3>8. Total(balance') = Total(mid) + Flow(u) /\ Flow(u) \in Int
      <4>1. Total(Apply(mid, second)) = Total(mid) + (Amount(Credit(second), second.qty) - Amount(Debit(second), second.qty))
        BY <3>6, <3>5, TotalApply
      <4>2. Flow(u) = Amount(Credit(u), u.qty) - Amount(Debit(u), u.qty) /\ Flow(u) \in Int
        BY <3>5, FlowMoves
      <4> QED BY <3>1, <3>5, <4>1, <4>2
    <3>9. SubSeq(txns', Len(txns) + 1, Len(txns')) = <<t, u>> BY <2>1, <3>1, <3>2, <3>3, NewRows
    <3>10. FlowSum(<<t, u>>) = Flow(t) + Flow(u)
      BY <3>3, <3>7, <3>8, FlowOf
    <3>11. FlowSum(SubSeq(txns', Len(txns) + 1, Len(txns'))) = Flow(t) + Flow(u) BY <3>9, <3>10
    <3> QED BY <2>2, <3>7, <3>8, <3>11
  <2> QED BY <1>1, <2>3, <2>4, <2>5, StepBooks
<1>2. IInv /\ IInv' /\ [Next]_vars =>
        [Total(balance') - Total(balance)
           = FlowSum(SubSeq(txns', Len(txns) + 1, Len(txns')))]_vars
  BY <1>1
<1> QED BY <1>2, Invariant, PTL DEF Spec, OnlyFlowsChangeTotal

-----------------------------------------------------------------------------
(* Rows in the order of the report *)

(* The rows of a location are the rows of its ids, each once, in order.     *)
LEMMA RowsInOrder ==
  ASSUME GoodLog(txns), NEW l
  PROVE  LET c == Cardinality(IdsAt(l)) IN
         /\ c \in Nat /\ RowsAt(l) \in Seq(Row) /\ Len(RowsAt(l)) = c
         /\ \A k \in 1..c : /\ IdsInOrder(l)[k] \in IdsAt(l)
                            /\ RowsAt(l)[k] = txns[IdsInOrder(l)[k]]
         /\ \A j, k \in 1..c : j < k => Precedes(IdsInOrder(l)[j], IdsInOrder(l)[k])
         /\ \A i \in IdsAt(l) : \E k \in 1..c : IdsInOrder(l)[k] = i
<1> DEFINE S == IdsAt(l)
           c == Cardinality(S)
           key == [i \in 1..Len(txns) |-> txns[i].at]
           ids == IdsInOrder(l)
           rows == RowsAt(l)
<1>1. /\ Len(txns) \in Nat /\ S \subseteq 1..Len(txns)
      /\ \A i \in 1..Len(txns) : txns[i] \in Row
  BY DEF GoodLog, IdsAt
<1>2. \A i \in 1..Len(txns) : txns[i].at \in Nat BY <1>1 DEF Row
<1>3. S \in SUBSET Nat /\ \A i \in S : key[i] = txns[i].at /\ key[i] \in Nat BY <1>1, <1>2
<1>4. IsFiniteSet(S)
  <2>1. IsFiniteSet(1..Len(txns)) BY <1>1, FS_Interval
  <2> HIDE DEF S
  <2> QED BY <1>1, <2>1, FS_Subset
<1>5. c \in Nat
  <2> HIDE DEF S
  <2> QED BY <1>4, FS_CardinalityType
<1> HIDE DEF key, c
<1>6. \A i, j \in S : Earlier(key, i, j) <=> Precedes(i, j) BY <1>3 DEF Earlier, Precedes
<1> HIDE DEF S
<1>7. \E s : Sorted(key, S, s) BY <1>3, <1>4, SortedExists
<1>8. ids \in [1..c -> S] /\ \A j, k \in 1..c : j < k => Precedes(ids[j], ids[k])
  <2>1. PICK s : Sorted(key, S, s) BY <1>7
  <2>2. s \in [1..c -> S] /\ \A j, k \in DOMAIN s : j < k => Precedes(s[j], s[k])
    <3>1. s \in [1..c -> S] /\ \A j, k \in 1..c : j < k => Earlier(key, s[j], s[k]) BY <2>1 DEF Sorted, c
    <3> QED BY <3>1, <1>6
  <2>3. ids = CHOOSE t \in [1..c -> S] : \A j, k \in DOMAIN t : j < k => Precedes(t[j], t[k])
    BY DEF IdsInOrder, S, c
  <2> HIDE DEF ids
  <2>4. ids \in [1..c -> S] /\ \A j, k \in DOMAIN ids : j < k => Precedes(ids[j], ids[k])
    BY <2>2, <2>3
  <2> QED BY <2>4
<1>9. \A i \in S : \E k \in 1..c : ids[k] = i
  <2> HIDE DEF ids
  <2>1. Sorted(key, S, ids) BY <1>6, <1>8 DEF Sorted, c
  <2> QED BY <1>3, <1>4, <2>1, SortedOnto DEF c
<1>10. rows = [k \in 1..c |-> txns[ids[k]]] BY DEF RowsAt, S, c
<1> HIDE DEF ids, rows
<1>11. rows \in [1..c -> Row]
  <2>1. \A k \in 1..c : txns[ids[k]] \in Row BY <1>1, <1>8
  <2> QED BY <1>10, <2>1
<1>12. rows \in Seq(Row) /\ Len(rows) = c BY <1>5, <1>11
<1>13. \A k \in 1..c : rows[k] = txns[ids[k]] BY <1>10
<1> QED BY <1>5, <1>8, <1>9, <1>12, <1>13 DEF S, c, ids, rows

(* The running total of a location after each row of a log.                 *)
LEMMA ReplayStep ==
  ASSUME NEW log, GoodLog(log), NEW l \in Locations
  PROVE  /\ Replay(log, l)[0] = 0
         /\ \A i \in 0..Len(log) : Replay(log, l)[i] \in Int
         /\ \A i \in 1..Len(log) : DeltaAt(log[i], l) \in Int
         /\ \A i \in 1..Len(log) : Replay(log, l)[i] = Replay(log, l)[i-1] + DeltaAt(log[i], l)
<1> DEFINE f == [i \in Nat |-> IF i \in 1..Len(log) THEN DeltaAt(log[i], l) ELSE 0]
<1>1. Len(log) \in Nat /\ \A i \in 1..Len(log) : log[i] \in Row /\ GoodRow(log[i]) BY DEF GoodLog
<1>2. ASSUME NEW u \in Row, GoodRow(u) PROVE DeltaAt(u, l) \in Int
  <2>1. DeltaAt(u, l) = OnHandDelta(u, l) BY <1>2, ColumnsSuffice
  <2>2. Typed(u) /\ u.qty \in Int BY <1>2, RowTyped
  <2>3. AtLoc(Credit(u), l, u.qty) \in Int /\ AtLoc(Debit(u), l, u.qty) \in Int
    BY <2>2 DEF AtLoc
  <2> QED BY <2>1, <2>3, DeltaParts
<1>3. f \in [Nat -> Int] BY <1>1, <1>2
<1>4. f[0] = 0 /\ \A i \in 1..Len(log) : f[i] = DeltaAt(log[i], l) /\ i \in Nat \ {0} BY <1>1
<1>5. Replay(log, l) = SumTo(f) BY DEF Replay
<1> HIDE DEF f
<1>6. /\ SumTo(f) \in [Nat -> Int] /\ SumTo(f)[0] = f[0]
      /\ \A k \in Nat \ {0} : SumTo(f)[k] = SumTo(f)[k-1] + f[k]
  BY <1>3, SumToStep
<1>7. ASSUME NEW i \in 1..Len(log)
      PROVE  Replay(log, l)[i] = Replay(log, l)[i-1] + DeltaAt(log[i], l)
  BY <1>4, <1>5, <1>6
<1>8. ASSUME NEW i \in 1..Len(log) PROVE DeltaAt(log[i], l) \in Int BY <1>1, <1>2
<1>9. ASSUME NEW i \in 0..Len(log) PROVE Replay(log, l)[i] \in Int BY <1>1, <1>5, <1>6
<1> QED BY <1>4, <1>5, <1>6, <1>7, <1>8, <1>9

(* A row that names a location nowhere moves nothing there.                 *)
LEMMA ElsewhereNothing ==
  ASSUME NEW t \in Row, GoodRow(t), NEW l \in Locations, t.loc # l, t.toLoc # l
  PROVE  DeltaAt(t, l) = 0
<1>1. DeltaAt(t, l) = AtLoc(Credit(t), l, t.qty) - AtLoc(Debit(t), l, t.qty)
  BY ColumnsSuffice, DeltaParts
<1>2. \A b \in Credit(t) : b[1] # l BY DEF Credit
<1>3. \A b \in Debit(t) : b[1] # l BY DEF Debit
<1>4. AtLoc(Credit(t), l, t.qty) = 0 BY <1>2 DEF AtLoc
<1>5. AtLoc(Debit(t), l, t.qty) = 0 BY <1>3 DEF AtLoc
<1> QED BY <1>1, <1>4, <1>5

(* The clock never went back, and the rows are stamped in posting order.    *)
InTime ==
  /\ \A i \in 1..Len(txns) : txns[i].at <= now
  /\ \A i, j \in 1..Len(txns) : i < j => txns[i].at <= txns[j].at

(* k of the rows of the location are among the first m of the ledger. *)
RowsUpTo(l, m, k) == \A j \in 1..Cardinality(IdsAt(l)) : j <= k <=> IdsInOrder(l)[j] <= m

(* Then the report's order is the order of posting, and the rows of a       *)
(* location have the running totals the whole ledger has.                   *)
LEMMA IdsAscend ==
  ASSUME GoodLog(txns), InTime, NEW l
  PROVE  \A j, k \in 1..Cardinality(IdsAt(l)) : j < k => IdsInOrder(l)[j] < IdsInOrder(l)[k]
<1> DEFINE c == Cardinality(IdsAt(l))
           ids == IdsInOrder(l)
<1> SUFFICES ASSUME NEW j \in 1..c, NEW k \in 1..c, j < k PROVE ids[j] < ids[k] OBVIOUS
<1>1. ids[j] \in IdsAt(l) /\ ids[k] \in IdsAt(l) /\ Precedes(ids[j], ids[k]) BY RowsInOrder
<1> HIDE DEF ids
<1>2. ids[j] \in 1..Len(txns) /\ ids[k] \in 1..Len(txns) BY <1>1 DEF IdsAt
<1>3. \A i \in 1..Len(txns) : txns[i].at \in Nat
  <2>1. \A i \in 1..Len(txns) : txns[i] \in Row BY DEF GoodLog
  <2> QED BY <2>1 DEF Row
<1>4. ~(ids[k] < ids[j])
  <2>1. SUFFICES ASSUME ids[k] < ids[j] PROVE FALSE OBVIOUS
  <2>2. txns[ids[k]].at <= txns[ids[j]].at BY <2>1, <1>2 DEF InTime
  <2> QED BY <2>1, <2>2, <1>1, <1>2, <1>3 DEF Precedes
<1>5. ids[k] # ids[j] BY <1>1, <1>2, <1>3 DEF Precedes
<1> QED BY <1>2, <1>4, <1>5

(* The running total after the first m rows of the ledger is the one after  *)
(* its k rows of the location.                                              *)
LEMMA ReplayOfRows ==
  ASSUME GoodLog(txns), InTime, NEW l \in Locations, NEW m \in 0..Len(txns),
         NEW k \in 0..Cardinality(IdsAt(l)), RowsUpTo(l, m, k), GoodLog(RowsAt(l))
  PROVE  Replay(txns, l)[m] = Replay(RowsAt(l), l)[k]
<1> DEFINE c == Cardinality(IdsAt(l))
           ids == IdsInOrder(l)
           rows == RowsAt(l)
           all == Replay(txns, l)
           own == Replay(rows, l)
           Agree(p) == \A q \in 0..c : RowsUpTo(l, p, q) => all[p] = own[q]
           Bad == {p \in 0..Len(txns) : ~Agree(p)}
<1>1. SUFFICES ASSUME Bad # {} PROVE FALSE OBVIOUS
<1>2. PICK p \in Bad : \A r \in Bad : p <= r
  <2>1. Bad \subseteq Nat OBVIOUS
  <2> HIDE DEF Bad
  <2> QED BY <1>1, <2>1, LeastNat
<1>3. PICK q \in 0..c : RowsUpTo(l, p, q) /\ all[p] # own[q] BY <1>2
<1>4. /\ c \in Nat /\ Len(txns) \in Nat /\ Len(rows) = c
      /\ \A j \in 1..c : ids[j] \in IdsAt(l) /\ ids[j] \in 1..Len(txns) /\ rows[j] = txns[ids[j]]
      /\ \A i \in IdsAt(l) : \E j \in 1..c : ids[j] = i
  <2>1. \A i \in IdsAt(l) : i \in 1..Len(txns) BY DEF IdsAt
  <2> HIDE DEF ids
  <2> QED BY <2>1, RowsInOrder DEF GoodLog, ids
<1>5. \A i, j \in 1..c : i < j => ids[i] < ids[j] BY IdsAscend
<1>6. /\ all[0] = 0 /\ \A i \in 1..Len(txns) : all[i] = all[i-1] + DeltaAt(txns[i], l)
      /\ \A i \in 0..Len(txns) : all[i] \in Int
  BY ReplayStep
<1>7. own[0] = 0 /\ \A i \in 1..c : own[i] = own[i-1] + DeltaAt(rows[i], l)
  <2>1. GoodLog(rows) /\ Len(rows) = c BY <1>4
  <2> HIDE DEF rows, c, ids, all
  <2>2. Replay(rows, l)[0] = 0 /\ \A i \in 1..Len(rows) : Replay(rows, l)[i] = Replay(rows, l)[i-1] + DeltaAt(rows[i], l)
    BY <2>1, ReplayStep
  <2> QED BY <2>1, <2>2
<1>8. p \in 0..Len(txns) /\ \A j \in 1..c : j <= q <=> ids[j] <= p BY <1>2, <1>3 DEF RowsUpTo
<1> HIDE DEF c, ids, rows, all, own
<1>9. p # 0
  <2>1. SUFFICES ASSUME p = 0 PROVE FALSE OBVIOUS
  <2>2. q = 0
    <3>1. SUFFICES ASSUME q # 0 PROVE FALSE OBVIOUS
    <3>2. 1 \in 1..c /\ 1 <= q BY <3>1, <1>3, <1>4
    <3>3. ids[1] <= 0 /\ ids[1] \in 1..Len(txns) BY <3>2, <2>1, <1>4, <1>8
    <3> QED BY <3>3, <1>4
  <2> QED BY <2>1, <2>2, <1>3, <1>6, <1>7
<1>10. p \in 1..Len(txns) /\ p-1 \in 0..Len(txns) /\ Agree(p-1)
  <2>1. p \in 1..Len(txns) /\ p-1 \in 0..Len(txns) /\ ~(p <= p-1) BY <1>4, <1>8, <1>9
  <2>2. p-1 \notin Bad BY <2>1, <1>2
  <2> QED BY <2>1, <2>2
<1>11. CASE p \in IdsAt(l)
  <2>1. PICK j \in 1..c : ids[j] = p BY <1>4, <1>11
  <2>2. j = q
    <3>1. j <= q BY <2>1, <1>4, <1>8
    <3>2. ~(j < q)
      <4>1. SUFFICES ASSUME j < q PROVE FALSE OBVIOUS
      <4>2. q \in 1..c BY <4>1, <1>3, <1>4
      <4>3. ids[j] < ids[q] /\ ids[q] <= p BY <4>1, <4>2, <1>5, <1>8, <1>4
      <4> QED BY <4>2, <4>3, <2>1, <1>4, <1>10
    <3> QED BY <3>1, <3>2, <1>3, <1>4
  <2>3. RowsUpTo(l, p-1, q-1)
    <3>1. ASSUME NEW i \in 1..c PROVE i <= q-1 <=> ids[i] <= p-1
      <4>1. i < q => ids[i] < p BY <2>1, <2>2, <1>5
      <4>2. q < i => p < ids[i] BY <2>1, <2>2, <1>5
      <4>3. i = q => ids[i] = p BY <2>1, <2>2
      <4>4. ids[i] \in Int /\ p \in Int /\ q \in Int /\ i \in Int BY <1>3, <1>4, <1>10
      <4> QED BY <4>1, <4>2, <4>3, <4>4
    <3> QED BY <3>1 DEF RowsUpTo, c, ids
  <2>4. q-1 \in 0..c /\ q \in 1..c BY <2>1, <2>2, <1>4
  <2>5. all[p-1] = own[q-1] BY <2>3, <2>4, <1>10
  <2>6. rows[q] = txns[p] BY <2>1, <2>2, <1>4
  <2> QED BY <2>4, <2>5, <2>6, <1>3, <1>6, <1>7, <1>10
<1>12. CASE p \notin IdsAt(l)
  <2>1. RowsUpTo(l, p-1, q)
    <3>1. ASSUME NEW i \in 1..c PROVE i <= q <=> ids[i] <= p-1
      <4>1. ids[i] # p BY <1>4, <1>12
      <4>2. ids[i] \in Int /\ p \in Int BY <1>4, <1>10
      <4> QED BY <4>1, <4>2, <1>8
    <3> QED BY <3>1 DEF RowsUpTo, c, ids
  <2>2. all[p-1] = own[q] BY <2>1, <1>10, <1>3
  <2>3. DeltaAt(txns[p], l) = 0
    <3>1. txns[p].loc # l /\ txns[p].toLoc # l BY <1>10, <1>12 DEF IdsAt
    <3>2. txns[p] \in Row /\ GoodRow(txns[p]) BY <1>10 DEF GoodLog
    <3> QED BY <3>1, <3>2, ElsewhereNothing
  <2> QED BY <2>2, <2>3, <1>3, <1>6, <1>10
<1> QED BY <1>11, <1>12

-----------------------------------------------------------------------------
(* The loop of the report *)

(* The rows before the start are the first c; those up to the end are.      *)
EarlyCut(rows, start, c) == \A j \in 1..Len(rows) : j <= c <=> Early(rows[j], start)
LateCut(rows, end, c) == \A j \in 1..Len(rows) : j <= c <=> ~Late(rows[j], end)

FromBlank(base, rows) ==
  /\ GoodLog(rows) /\ base.loc \in Locations
  /\ base = Blank(base.loc, base.start, base.end)

Locals(base) ==
  [loc: {base.loc}, start: {base.start}, end: {base.end},
   running: Int, opened: BOOLEAN, opening: Int, closing: Int, breaks: SUBSET Row]

OpenedAt(base, rows, i, acc) ==
  \A c \in 0..Len(rows) : EarlyCut(rows, base.start, c) =>
    (acc.opened <=> i > c) /\ (i > c => acc.opening = Replay(rows, base.loc)[c])

ClosedAt(base, rows, i, acc) ==
  base.start = NoDay => \A c \in 0..Len(rows) : LateCut(rows, base.end, c) =>
    acc.closing = Replay(rows, base.loc)[IF i <= c THEN i ELSE c]

Unbroken(base, rows, i, acc) ==
  (\A j \in 1..i : rows[j].loc = base.loc => rows[j].before = Replay(rows, base.loc)[j-1])
    => acc.breaks = {}

(* What the loop's locals are after i rows. *)
Reported(base, rows, i, acc) ==
  FromBlank(base, rows) =>
    /\ acc \in Locals(base) /\ acc.running = Replay(rows, base.loc)[i]
    /\ OpenedAt(base, rows, i, acc)
    /\ ClosedAt(base, rows, i, acc)
    /\ Unbroken(base, rows, i, acc)

Loop == INSTANCE FoldLemmas WITH Op <- ReportRow, Holds <- Reported

(* It holds before the first row,                                           *)
LEMMA ReportedFirst == ASSUME NEW base, NEW rows PROVE Reported(base, rows, 0, base)
<1> SUFFICES ASSUME FromBlank(base, rows)
             PROVE  /\ base \in Locals(base) /\ base.running = Replay(rows, base.loc)[0]
                    /\ OpenedAt(base, rows, 0, base)
                    /\ ClosedAt(base, rows, 0, base)
                    /\ Unbroken(base, rows, 0, base)
  BY DEF Reported
<1>1. /\ base.running = 0 /\ base.opened = FALSE /\ base.opening = 0 /\ base.closing = 0 /\ base.breaks = {}
      /\ base \in Locals(base)
  <2> DEFINE l == base.loc  s == base.start  e == base.end
  <2>1. base = Blank(l, s, e) BY DEF FromBlank
  <2> HIDE DEF l, s, e
  <2>2. /\ base.running = 0 /\ base.opened = FALSE /\ base.opening = 0 /\ base.closing = 0 /\ base.breaks = {}
        /\ base.loc = l /\ base.start = s /\ base.end = e
        /\ base \in [loc: {l}, start: {s}, end: {e}, running: Int, opened: BOOLEAN,
                     opening: Int, closing: Int, breaks: SUBSET Row]
    BY <2>1 DEF Blank
  <2> QED BY <2>2 DEF Locals
<1>2. Replay(rows, base.loc)[0] = 0 BY ReplayStep DEF FromBlank
<1>3. OpenedAt(base, rows, 0, base) BY <1>1 DEF OpenedAt
<1>4. ClosedAt(base, rows, 0, base) BY <1>1, <1>2 DEF ClosedAt
<1>5. Unbroken(base, rows, 0, base) BY <1>1 DEF Unbroken
<1> QED BY <1>1, <1>2, <1>3, <1>4, <1>5

(* and every row keeps it.                                                  *)
LEMMA ReportedNext ==
  ASSUME NEW base, NEW rows, NEW i \in 1..Len(rows), NEW acc, Reported(base, rows, i-1, acc)
  PROVE  Reported(base, rows, i, ReportRow(acc, rows[i]))
<1> DEFINE t == rows[i]
           new == ReportRow(acc, t)
           run == Replay(rows, base.loc)
<1> SUFFICES ASSUME FromBlank(base, rows)
             PROVE  /\ new \in Locals(base) /\ new.running = run[i]
                    /\ OpenedAt(base, rows, i, new)
                    /\ ClosedAt(base, rows, i, new)
                    /\ Unbroken(base, rows, i, new)
  BY DEF Reported
<1>1. /\ acc \in Locals(base) /\ acc.running = run[i-1]
      /\ OpenedAt(base, rows, i-1, acc) /\ ClosedAt(base, rows, i-1, acc) /\ Unbroken(base, rows, i-1, acc)
  BY DEF Reported
<1>2. GoodLog(rows) /\ base.loc \in Locations /\ Len(rows) \in Nat /\ t \in Row BY DEF FromBlank, GoodLog
<1>3. acc.loc = base.loc /\ acc.start = base.start /\ acc.end = base.end BY <1>1 DEF Locals
<1>4. /\ run[0] = 0 /\ \A k \in 0..Len(rows) : run[k] \in Int
      /\ DeltaAt(t, base.loc) \in Int /\ run[i] = run[i-1] + DeltaAt(t, base.loc)
  BY <1>2, ReplayStep
<1> DEFINE early == Early(t, base.start)
           late == Late(t, base.end)
           opening == IF acc.opened \/ early THEN acc.opening ELSE acc.running
           closing == IF early THEN acc.closing
                      ELSE IF late THEN (IF acc.opened THEN acc.closing ELSE opening)
                      ELSE acc.running + DeltaAt(t, base.loc)
<1> HIDE DEF t, run
<1>5. new = [acc EXCEPT !.running = acc.running + DeltaAt(t, base.loc),
                        !.opened = acc.opened \/ ~early,
                        !.opening = opening,
                        !.closing = closing,
                        !.breaks = IF t.loc = base.loc /\ t.before # acc.running
                                   THEN acc.breaks \cup {t} ELSE acc.breaks]
  BY <1>3 DEF ReportRow
<1> HIDE DEF new
<1>6. early \in BOOLEAN /\ late \in BOOLEAN BY DEF Early, Late
<1> HIDE DEF early, late
<1>7. opening \in Int /\ closing \in Int BY <1>1, <1>4, <1>6 DEF Locals
<1>8. /\ new \in Locals(base)
      /\ new.running = acc.running + DeltaAt(t, base.loc) /\ new.opened = (acc.opened \/ ~early)
      /\ new.opening = opening /\ new.closing = closing
      /\ new.breaks = IF t.loc = base.loc /\ t.before # acc.running
                      THEN acc.breaks \cup {t} ELSE acc.breaks
  <2> HIDE DEF opening, closing
  <2>1. acc.running + DeltaAt(t, base.loc) \in Int BY <1>1, <1>4 DEF Locals
  <2> QED BY <1>1, <1>2, <1>5, <1>6, <1>7, <2>1 DEF Locals
<1>9. new.running = run[i] BY <1>1, <1>4, <1>8
<1>10. OpenedAt(base, rows, i, new)
  <2> SUFFICES ASSUME NEW c \in 0..Len(rows), EarlyCut(rows, base.start, c)
               PROVE  (new.opened <=> i > c) /\ (i > c => new.opening = run[c])
    BY DEF OpenedAt, run
  <2>1. i <= c <=> early BY DEF EarlyCut, early, t
  <2>2. (acc.opened <=> i-1 > c) /\ (i-1 > c => acc.opening = run[c]) BY <1>1 DEF OpenedAt, run
  <2>3. i \in Int /\ c \in Int BY <1>2
  <2>4. new.opened <=> i > c
    <3>1. CASE i <= c
      <4>1. ~(i > c) /\ ~(i-1 > c) BY <2>3, <3>1
      <4> QED BY <1>8, <2>1, <2>2, <3>1, <4>1
    <3>2. CASE ~(i <= c)
      <4>1. i > c BY <2>3, <3>2
      <4> QED BY <1>8, <2>1, <3>2, <4>1
    <3> QED BY <3>1, <3>2
  <2>5. ASSUME i > c PROVE opening = run[c]
    <3>1. ~early BY <2>1, <2>3, <2>5
    <3>2. CASE i-1 > c BY <2>2, <3>2
    <3>3. CASE ~(i-1 > c)
      <4>1. i-1 = c /\ ~acc.opened BY <2>2, <2>3, <2>5, <3>3
      <4> QED BY <1>1, <3>1, <4>1
    <3> QED BY <3>2, <3>3
  <2> QED BY <1>8, <2>4, <2>5
<1>11. ClosedAt(base, rows, i, new)
  <2> SUFFICES ASSUME base.start = NoDay, NEW c \in 0..Len(rows), LateCut(rows, base.end, c)
               PROVE  new.closing = run[IF i <= c THEN i ELSE c]
    BY DEF ClosedAt, run
  <2>1. i <= c <=> ~late BY DEF LateCut, late, t
  <2>2. acc.closing = run[IF i-1 <= c THEN i-1 ELSE c] BY <1>1 DEF ClosedAt, run
  <2>3. i \in Int /\ c \in Int BY <1>2
  <2>4. ~early BY DEF early, Early
  <2>5. acc.opened <=> i-1 > 0
    <3>1. EarlyCut(rows, base.start, 0) BY DEF EarlyCut, Early
    <3>2. 0 \in 0..Len(rows) BY <1>2
    <3> QED BY <1>1, <3>1, <3>2 DEF OpenedAt
  <2>6. CASE i <= c
    <3>1. closing = run[i] BY <1>1, <1>4, <2>1, <2>4, <2>6
    <3> QED BY <1>8, <2>6, <3>1
  <2>7. CASE ~(i <= c) /\ i-1 > 0
    <3>1. closing = acc.closing BY <2>1, <2>4, <2>5, <2>7
    <3>2. (IF i-1 <= c THEN i-1 ELSE c) = c BY <2>3, <2>7
    <3> QED BY <1>8, <2>2, <2>7, <3>1, <3>2
  <2>8. CASE ~(i <= c) /\ ~(i-1 > 0)
    <3>1. i-1 = 0 /\ c = 0 BY <1>2, <2>3, <2>8
    <3>2. closing = acc.running BY <2>1, <2>4, <2>5, <2>8
    <3> QED BY <1>1, <1>8, <2>8, <3>1, <3>2
  <2> QED BY <2>6, <2>7, <2>8
<1>12. Unbroken(base, rows, i, new)
  <2> SUFFICES ASSUME \A j \in 1..i : rows[j].loc = base.loc => rows[j].before = run[j-1]
               PROVE  new.breaks = {}
    BY DEF Unbroken, run
  <2>1. acc.breaks = {}
    <3>1. \A j \in 1..(i-1) : rows[j].loc = base.loc => rows[j].before = run[j-1] BY <1>2
    <3> QED BY <1>1, <3>1 DEF Unbroken, run
  <2>2. t.loc = base.loc => t.before = acc.running
    <3>1. i \in 1..i BY <1>2
    <3> QED BY <1>1, <3>1 DEF t
  <2> QED BY <1>8, <2>1, <2>2
<1> QED BY <1>8, <1>9, <1>10, <1>11, <1>12

(* What it reports, for a cut of the rows at its start and at its end.      *)
LEMMA ReportIs ==
  ASSUME GoodLog(txns), NEW l \in Locations, NEW start, NEW end, GoodLog(RowsAt(l))
  PROVE  LET rows == RowsAt(l)  n == Len(rows)  rep == Report(l, start, end)  run == Replay(rows, l) IN
         /\ \A c \in 0..n : EarlyCut(rows, start, c) =>
              rep.opening = IF n > c THEN run[c] ELSE IF start # NoDay THEN run[n] ELSE 0
         /\ start = NoDay => \A c \in 0..n : LateCut(rows, end, c) => rep.closing = run[c]
         /\ (\A j \in 1..n : rows[j].loc = l => rows[j].before = run[j-1]) => rep.breaks = {}
<1> DEFINE rows == RowsAt(l)
           n == Len(rows)
           base == Blank(l, start, end)
           last == FoldLeft(ReportRow, base, rows)
           rep == Report(l, start, end)
           run == Replay(rows, l)
<1>1. /\ base.loc = l /\ base.start = start /\ base.end = end /\ base = Blank(base.loc, base.start, base.end)
  BY DEF Blank
<1>2. rows \in Seq(Row) /\ n \in Nat BY DEF GoodLog
<1>3. last = Loop!Fold(base, rows)
  BY DEF Loop!Fold, Loop!FoldLeft, Loop!MapThenFoldSet, Loop!Max, FoldLeft, MapThenFoldSet, Max
<1>4. /\ rep.opening = (IF last.opened THEN last.opening ELSE IF start # NoDay THEN last.running ELSE 0)
      /\ rep.closing = (IF last.opened THEN last.closing ELSE rep.opening)
      /\ rep.breaks = last.breaks
  BY DEF Report, Carried
<1>5. GoodLog(rows) OBVIOUS
<1> HIDE DEF rows, base, last, rep
<1>6. Reported(base, rows, n, last)
  <2>1. Reported(base, rows, 0, base) BY ReportedFirst
  <2>2. \A i \in 1..Len(rows) : \A acc : Reported(base, rows, i-1, acc) => Reported(base, rows, i, ReportRow(acc, rows[i]))
    BY ReportedNext
  <2>3. Reported(base, rows, Len(rows), Loop!Fold(base, rows)) BY <1>2, <2>1, <2>2, Loop!FoldHolds
  <2> QED BY <1>3, <2>3
<1>7. /\ last.running = run[n] /\ last \in Locals(base)
      /\ OpenedAt(base, rows, n, last) /\ ClosedAt(base, rows, n, last) /\ Unbroken(base, rows, n, last)
  <2>1. FromBlank(base, rows) BY <1>1, <1>5 DEF FromBlank
  <2> QED BY <1>1, <1>6, <2>1 DEF Reported
<1>8. ASSUME NEW c \in 0..n, EarlyCut(rows, start, c)
      PROVE  rep.opening = IF n > c THEN run[c] ELSE IF start # NoDay THEN run[n] ELSE 0
  <2>1. (last.opened <=> n > c) /\ (n > c => last.opening = run[c]) BY <1>1, <1>7, <1>8 DEF OpenedAt
  <2> HIDE DEF run
  <2> QED BY <1>4, <1>7, <2>1
<1>9. ASSUME start = NoDay, NEW c \in 0..n, LateCut(rows, end, c) PROVE rep.closing = run[c]
  <2>1. EarlyCut(rows, start, 0) /\ 0 \in 0..n BY <1>2, <1>9 DEF EarlyCut, Early
  <2>2. last.opened <=> n > 0 BY <1>1, <1>7, <2>1 DEF OpenedAt
  <2>3. last.closing = run[IF n <= c THEN n ELSE c] BY <1>1, <1>7, <1>9 DEF ClosedAt
  <2>4. (IF n <= c THEN n ELSE c) = c BY <1>2
  <2>5. CASE n > 0 BY <1>4, <2>2, <2>3, <2>4, <2>5
  <2>6. CASE ~(n > 0)
    <3>1. n = 0 /\ c = 0 BY <1>2, <2>6
    <3>2. run[0] = 0 BY <1>5, ReplayStep
    <3>3. rep.closing = rep.opening /\ rep.opening = 0 BY <1>4, <1>9, <2>2, <2>6
    <3> QED BY <3>1, <3>2, <3>3
  <2> QED BY <2>5, <2>6
<1>10. ASSUME \A j \in 1..n : rows[j].loc = l => rows[j].before = run[j-1] PROVE rep.breaks = {}
  BY <1>1, <1>4, <1>7, <1>10 DEF Unbroken
<1> QED BY <1>8, <1>9, <1>10 DEF rows, rep

-----------------------------------------------------------------------------
(* What the report shows *)

(* The rows of a location are good, and ordered by day.                     *)
LEMMA RowsGood ==
  ASSUME GoodLog(txns), NEW l
  PROVE  /\ GoodLog(RowsAt(l)) /\ Len(RowsAt(l)) \in Nat
         /\ \A j \in 1..Len(RowsAt(l)) : Day(RowsAt(l)[j]) \in Nat
         /\ \A j, k \in 1..Len(RowsAt(l)) : j < k => Day(RowsAt(l)[j]) <= Day(RowsAt(l)[k])
<1> DEFINE c == Cardinality(IdsAt(l))
           ids == IdsInOrder(l)
           rows == RowsAt(l)
<1>1. /\ c \in Nat /\ rows \in Seq(Row) /\ Len(rows) = c
      /\ \A k \in 1..c : ids[k] \in IdsAt(l) /\ rows[k] = txns[ids[k]]
      /\ \A j, k \in 1..c : j < k => Precedes(ids[j], ids[k])
  BY RowsInOrder
<1> HIDE DEF c, ids, rows
<1>2. \A i \in 1..Len(txns) : txns[i] \in Row /\ GoodRow(txns[i]) /\ txns[i].at \in Nat
  <2>1. \A i \in 1..Len(txns) : txns[i] \in Row /\ GoodRow(txns[i]) BY DEF GoodLog
  <2> QED BY <2>1 DEF Row
<1>3. \A k \in 1..c : ids[k] \in 1..Len(txns) BY <1>1 DEF IdsAt
<1>4. GoodLog(rows) BY <1>1, <1>2, <1>3 DEF GoodLog
<1>5. TicksPerDay \in Nat \ {0} BY LedgerAssumption
<1>6. ASSUME NEW j \in 1..c PROVE Day(rows[j]) \in Nat
  <2>1. rows[j].at \in Nat BY <1>1, <1>2, <1>3
  <2> QED BY <2>1, <1>5, DivMono DEF Day
<1>7. ASSUME NEW j \in 1..c, NEW k \in 1..c, j < k PROVE Day(rows[j]) <= Day(rows[k])
  <2>1. rows[j].at \in Nat /\ rows[k].at \in Nat BY <1>1, <1>2, <1>3
  <2>2. Precedes(ids[j], ids[k]) BY <1>1, <1>7
  <2>3. rows[j].at <= rows[k].at BY <1>1, <2>1, <2>2 DEF Precedes
  <2> QED BY <2>1, <2>3, <1>5, DivMono DEF Day
<1> QED BY <1>1, <1>4, <1>6, <1>7 DEF rows

(* so that the rows up to a day are the first so many.                      *)
LEMMA DayCut ==
  ASSUME GoodLog(txns), NEW l, NEW d \in Int
  PROVE  \E c \in 0..Len(RowsAt(l)) : \A j \in 1..Len(RowsAt(l)) : j <= c <=> Day(RowsAt(l)[j]) <= d
<1> DEFINE rows == RowsAt(l)
           n == Len(rows)
           after == {j \in 1..n : ~(Day(rows[j]) <= d)}
<1>1. /\ n \in Nat /\ \A j \in 1..n : Day(rows[j]) \in Nat
      /\ \A j, k \in 1..n : j < k => Day(rows[j]) <= Day(rows[k])
  BY RowsGood
<1> HIDE DEF n, rows
<1>2. CASE after = {}
  <2>1. \A j \in 1..n : j <= n <=> Day(rows[j]) <= d BY <1>1, <1>2
  <2>2. n \in 0..n BY <1>1
  <2> QED BY <2>1, <2>2 DEF n, rows
<1>3. CASE after # {}
  <2>1. PICK f \in after : \A k \in after : f <= k
    <3>1. after \subseteq Nat OBVIOUS
    <3> HIDE DEF after
    <3> QED BY <1>3, <3>1, LeastNat
  <2>2. f-1 \in 0..n BY <1>1, <2>1
  <2>3. ASSUME NEW j \in 1..n PROVE j <= f-1 <=> Day(rows[j]) <= d
    <3>1. CASE j < f
      <4>1. ~(f <= j) /\ j <= f-1 BY <1>1, <2>1, <3>1
      <4>2. j \notin after BY <2>1, <4>1
      <4> QED BY <4>1, <4>2
    <3>2. CASE f <= j
      <4>1. ~(j <= f-1) BY <1>1, <2>1, <3>2
      <4>2. Day(rows[f]) <= Day(rows[j])
        <5>1. f = j \/ f < j BY <1>1, <2>1, <3>2
        <5> QED BY <1>1, <2>1, <5>1
      <4>3. ~(Day(rows[j]) <= d) BY <1>1, <2>1, <4>2
      <4> QED BY <4>1, <4>3
    <3> QED BY <1>1, <2>1, <3>1, <3>2
  <2> QED BY <2>2, <2>3 DEF n, rows
<1> QED BY <1>2, <1>3

(* A day's opening and the closing of the day before it are the running     *)
(* total at the same cut of the rows.                                       *)
LEMMA DayClosing ==
  ASSUME GoodLog(txns), NEW l \in Locations, NEW d \in Nat, NEW c \in 0..Len(RowsAt(l)),
         \A j \in 1..Len(RowsAt(l)) : j <= c <=> Day(RowsAt(l)[j]) <= d
  PROVE  Report(l, NoDay, d).closing = Replay(RowsAt(l), l)[c]
<1>1. GoodLog(RowsAt(l)) BY RowsGood
<1>2. LateCut(RowsAt(l), d, c)
  <2>1. d # NoDay BY ReportAssumption
  <2>2. \A j \in 1..Len(RowsAt(l)) : Day(RowsAt(l)[j]) \in Nat BY RowsGood
  <2> QED BY <2>1, <2>2 DEF LateCut, Late
<1> QED BY <1>1, <1>2, ReportIs

(* What a window opens with, whatever its end.                              *)
LEMMA DayOpening ==
  ASSUME GoodLog(txns), NEW l \in Locations, NEW d \in Int, d + 1 \in Nat, NEW end, NEW c \in 0..Len(RowsAt(l)),
         \A j \in 1..Len(RowsAt(l)) : j <= c <=> Day(RowsAt(l)[j]) <= d
  PROVE  Report(l, d + 1, end).opening = Replay(RowsAt(l), l)[c]
<1> DEFINE rows == RowsAt(l)
           n == Len(rows)
           start == d + 1
<1>1. GoodLog(rows) /\ n \in Nat /\ \A j \in 1..n : Day(rows[j]) \in Nat BY RowsGood
<1>2. start # NoDay BY ReportAssumption
<1>3. EarlyCut(rows, start, c)
  <2>1. \A j \in 1..n : Day(rows[j]) <= d <=> Day(rows[j]) < start BY <1>1
  <2> HIDE DEF start, rows
  <2> QED BY <1>2, <2>1 DEF EarlyCut, Early, rows
<1> HIDE DEF start
<1>4. Report(l, start, end).opening = IF n > c THEN Replay(rows, l)[c] ELSE IF start # NoDay THEN Replay(rows, l)[n] ELSE 0
  BY <1>1, <1>3, ReportIs
<1>5. ~(n > c) => n = c BY <1>1
<1> QED BY <1>2, <1>4, <1>5 DEF start

(* The windows of the report compose, whatever order the clock stamped the  *)
(* rows in and whatever days have no rows: each window opens with what the  *)
(* one before it closed with, and the first one opens at zero.              *)
THEOREM ReportsCompose == Spec => []WindowsCompose
<1>1. ASSUME IInv PROVE WindowsCompose
  <2> SUFFICES ASSUME NEW l \in Locations, NEW d \in Nat
               PROVE  /\ Report(l, NoDay, d).closing = Report(l, d + 1, NoDay).opening
                      /\ Report(l, d, d).opening = (IF d = 0 THEN 0 ELSE Report(l, NoDay, d - 1).closing)
                      /\ Report(l, NoDay, d).opening = 0
    <3>1. \A d \in 0..(MaxTick \div TicksPerDay) : d \in Nat OBVIOUS
    <3> QED BY <3>1 DEF WindowsCompose
  <2>1. GoodLog(txns) BY <1>1 DEF IInv, Consistent
  <2> DEFINE rows == RowsAt(l)
             n == Len(rows)
             run == Replay(rows, l)
  <2>2. GoodLog(rows) /\ n \in Nat BY <2>1, RowsGood
  <2>3. run[0] = 0 BY <2>2, ReplayStep
  <2>4. Report(l, NoDay, d).closing = Report(l, d + 1, NoDay).opening
    <3>0. d \in Int OBVIOUS
    <3>1. PICK c \in 0..n : \A j \in 1..n : j <= c <=> Day(rows[j]) <= d BY <2>1, <3>0, DayCut
    <3>2. Report(l, NoDay, d).closing = run[c] BY <2>1, <3>1, DayClosing
    <3>3. d \in Int /\ d + 1 \in Nat OBVIOUS
    <3>4. Report(l, d + 1, NoDay).opening = run[c] BY <2>1, <3>1, <3>3, DayOpening
    <3> QED BY <3>2, <3>4
  <2>5. Report(l, d, d).opening = (IF d = 0 THEN 0 ELSE Report(l, NoDay, d - 1).closing)
    <3> DEFINE e == d - 1
    <3>1. e \in Int /\ e + 1 = d /\ e + 1 \in Nat OBVIOUS
    <3> HIDE DEF e
    <3>2. PICK c \in 0..n : \A j \in 1..n : j <= c <=> Day(rows[j]) <= e BY <2>1, <3>1, DayCut
    <3>3. Report(l, e + 1, d).opening = run[c] BY <2>1, <3>1, <3>2, DayOpening
    <3>4. CASE d = 0
      <4>1. c = 0
        <5>1. \A j \in 1..n : Day(rows[j]) \in Nat BY <2>1, RowsGood
        <5>2. \A j \in 1..n : ~(j <= c) BY <3>1, <3>2, <3>4, <5>1
        <5>3. c # 0 => c \in 1..n /\ c <= c BY <2>2
        <5> QED BY <5>2, <5>3
      <4> QED BY <2>3, <3>1, <3>3, <3>4, <4>1
    <3>5. CASE d # 0
      <4>1. e \in Nat BY <3>1, <3>5
      <4>2. Report(l, NoDay, e).closing = run[c] BY <2>1, <3>2, <4>1, DayClosing
      <4> QED BY <3>1, <3>3, <3>5, <4>2 DEF e
    <3> QED BY <3>4, <3>5
  <2>6. Report(l, NoDay, d).opening = 0
    <3>1. EarlyCut(rows, NoDay, 0) /\ 0 \in 0..n BY <2>2 DEF EarlyCut, Early
    <3>2. Report(l, NoDay, d).opening = IF n > 0 THEN run[0] ELSE IF NoDay # NoDay THEN run[n] ELSE 0
      BY <2>1, <2>2, <3>1, ReportIs
    <3> QED BY <2>3, <3>2
  <2> QED BY <2>4, <2>5, <2>6
<1> QED BY <1>1, Invariant, PTL

(* A clock that is not pinned stamps the rows in posting order.             *)
LEMMA StepInTime ==
  ASSUME ~AsOfPinned, IInv, InTime, [Next]_vars
  PROVE  InTime'
<1>1. /\ txns \in Seq(Row) /\ Len(txns) \in Nat /\ now \in Nat
      /\ \A i \in 1..Len(txns) : txns[i].at \in Nat
  <2>1. txns \in Seq(Row) /\ now \in Nat BY DEF IInv, Consistent, GoodLog
  <2>2. \A i \in 1..Len(txns) : txns[i] \in Row BY <2>1
  <2> QED BY <2>1, <2>2 DEF Row
<1>2. ASSUME NEW log \in Seq(Row), NEW t,
             \A i \in 1..Len(log) : log[i].at \in Nat /\ log[i].at <= now,
             \A i, j \in 1..Len(log) : i < j => log[i].at <= log[j].at, t.at = now
      PROVE  /\ \A i \in 1..Len(Append(log, t)) : Append(log, t)[i].at \in Nat /\ Append(log, t)[i].at <= now
             /\ \A i, j \in 1..Len(Append(log, t)) : i < j => Append(log, t)[i].at <= Append(log, t)[j].at
  <2> DEFINE more == Append(log, t)
             n == Len(log)
  <2>1. n \in Nat /\ Len(more) = n + 1 /\ more[n + 1] = t /\ \A i \in 1..n : more[i] = log[i] OBVIOUS
  <2> HIDE DEF more, n
  <2>2. ASSUME NEW i \in 1..(n + 1) PROVE more[i].at \in Nat /\ more[i].at <= now
    <3>1. CASE i = n + 1 BY <1>1, <1>2, <2>1, <3>1
    <3>2. CASE i # n + 1
      <4>1. i \in 1..n BY <2>1, <3>2
      <4> QED BY <1>2, <2>1, <4>1 DEF n
    <3> QED BY <3>1, <3>2
  <2>3. ASSUME NEW i \in 1..(n + 1), NEW j \in 1..(n + 1), i < j PROVE more[i].at <= more[j].at
    <3>1. i \in 1..n BY <2>1, <2>3
    <3>2. CASE j = n + 1 BY <1>2, <2>1, <2>2, <3>2
    <3>3. CASE j # n + 1
      <4>1. j \in 1..n BY <2>1, <3>3
      <4> QED BY <1>2, <2>1, <2>3, <3>1, <4>1 DEF n
    <3> QED BY <3>2, <3>3
  <2> QED BY <2>1, <2>2, <2>3 DEF more
<1>3. now' = now \/ (now' = now + 1 /\ UNCHANGED txns)
  <2>1. CASE Post BY <2>1 DEF Post
  <2>2. CASE CycleCount \/ LoadBalance BY <2>2 DEF CycleCount, LoadBalance
  <2>3. CASE QualityHold \/ QualityRelease BY <2>3 DEF QualityHold, QualityRelease
  <2>4. ASSUME NEW i \in 1..Len(txns), ReverseTxn(i) PROVE now' = now BY <2>4 DEF ReverseTxn
  <2>5. CASE Tick BY <2>5 DEF Tick
  <2>6. CASE UNCHANGED vars BY <2>6 DEF vars
  <2> QED BY <2>1, <2>2, <2>3, <2>4, <2>5, <2>6 DEF Next
<1>4. CASE UNCHANGED txns
  <2>1. now <= now' BY <1>1, <1>3
  <2>2. \A i \in 1..Len(txns) : txns[i].at <= now' BY <1>1, <1>3, <2>1 DEF InTime
  <2> QED BY <1>4, <2>2 DEF InTime
<1>5. ASSUME NEW t, t.at = now, txns' = Append(txns, t), now' = now PROVE InTime'
  BY <1>1, <1>2, <1>5 DEF InTime
<1>6. ASSUME NEW t, NEW u, t.at = now, u.at = now, t \in Row, txns' = Append(Append(txns, t), u), now' = now
      PROVE InTime'
  <2> DEFINE log == Append(txns, t)
  <2>1. log \in Seq(Row) BY <1>1, <1>6
  <2>2. /\ \A i \in 1..Len(log) : log[i].at \in Nat /\ log[i].at <= now
        /\ \A i, j \in 1..Len(log) : i < j => log[i].at <= log[j].at
    BY <1>1, <1>2, <1>6 DEF InTime
  <2> HIDE DEF log
  <2>3. /\ \A i \in 1..Len(Append(log, u)) : Append(log, u)[i].at \in Nat /\ Append(log, u)[i].at <= now
        /\ \A i, j \in 1..Len(Append(log, u)) : i < j => Append(log, u)[i].at <= Append(log, u)[j].at
    BY <1>2, <1>6, <2>1, <2>2
  <2>4. txns' = Append(log, u) BY <1>6 DEF log
  <2> QED BY <1>6, <2>3, <2>4 DEF InTime
<1>7. ASSUME ~UNCHANGED txns, NEW request, NEW k, Book(request, k) PROVE InTime'
  <2> DEFINE t == RowOf(balance, Resolve(request), k)
  <2>1. txns' = Append(txns, t) BY <1>7 DEF Book
  <2>2. t.at = now BY DEF RowOf
  <2> QED BY <1>3, <1>5, <1>7, <2>1, <2>2
<1>8. ASSUME ~UNCHANGED txns, NEW first, NEW second, NEW k, BookBoth(first, second, k) PROVE InTime'
  <2> DEFINE t == RowOf(balance, first, k)
             u == RowOf(Apply(balance, first), second, 0)
  <2>1. txns' = Append(Append(txns, t), u) BY <1>8 DEF BookBoth
  <2>2. t.at = now /\ u.at = now BY DEF RowOf
  <2>3. t \in Row
    <3>1. IInv' BY StepKeeps
    <3> HIDE DEF t, u
    <3>2. txns' \in Seq(Row) BY <3>1 DEF IInv, Consistent, GoodLog
    <3>3. Len(txns') = Len(txns) + 2 /\ txns'[Len(txns) + 1] = t
      <4>1. Len(Append(txns, t)) = Len(txns) + 1 /\ Append(txns, t)[Len(txns) + 1] = t BY <1>1
      <4> QED BY <1>1, <2>1, <4>1
    <3> QED BY <1>1, <3>2, <3>3
  <2> HIDE DEF t, u
  <2> QED BY <1>3, <1>6, <1>8, <2>1, <2>2, <2>3
<1> QED BY <1>4, <1>7, <1>8, StepBooks

(* While no as-of date is pinned, the report is the verifiable chain it is  *)
(* meant to be, for any number of rows and locations: it flags no break and *)
(* closes at the on-hand the balances hold.                                 *)
THEOREM ReportReconciles == ASSUME ~AsOfPinned PROVE Spec => []ChainHolds
<1>1. Init => InTime
  BY DEF Init, InTime
<1>2. IInv /\ InTime /\ [Next]_vars => InTime' BY StepInTime
<1>3. ASSUME IInv, InTime PROVE ChainHolds
  <2> SUFFICES ASSUME NEW l \in Locations
               PROVE  Report(l, NoDay, NoDay).breaks = {} /\ Report(l, NoDay, NoDay).closing = OnHand(balance, l)
    BY DEF ChainHolds
  <2> DEFINE rows == RowsAt(l)
             n == Len(rows)
             ids == IdsInOrder(l)
             run == Replay(rows, l)
  <2>1. GoodLog(txns) /\ Chained(balance, txns) BY <1>3 DEF IInv, Consistent
  <2>2. /\ n \in Nat /\ n = Cardinality(IdsAt(l))
        /\ \A k \in 1..n : ids[k] \in IdsAt(l) /\ rows[k] = txns[ids[k]]
    BY <2>1, RowsInOrder
  <2>3. \A j, k \in 1..n : j < k => ids[j] < ids[k] BY <1>3, <2>1, <2>2, IdsAscend
  <2>4. GoodLog(rows) BY <2>1, RowsGood
  <2>5. \A k \in 1..n : ids[k] \in 1..Len(txns) BY <2>2 DEF IdsAt
  <2>6. Len(txns) \in Nat BY <2>1 DEF GoodLog
  <2> HIDE DEF n, rows, ids
  <2>7. ASSUME NEW k \in 1..n, rows[k].loc = l PROVE rows[k].before = run[k-1]
    <3> DEFINE m == ids[k] - 1
    <3>1. m \in 0..Len(txns) /\ k-1 \in 0..n BY <2>2, <2>5, <2>6
    <3>2. RowsUpTo(l, m, k-1)
      <4>1. ASSUME NEW j \in 1..n PROVE j <= k-1 <=> ids[j] <= m
        <5>1. ids[j] \in Int /\ ids[k] \in Int /\ j \in Int /\ k \in Int BY <2>2, <2>5
        <5>2. j < k => ids[j] < ids[k] BY <2>3
        <5>3. k < j => ids[k] < ids[j] BY <2>3
        <5> QED BY <5>1, <5>2, <5>3
      <4> QED BY <2>2, <4>1 DEF RowsUpTo, ids
    <3>3. Replay(txns, l)[m] = run[k-1] BY <1>3, <2>1, <2>2, <2>4, <3>1, <3>2, ReplayOfRows DEF rows
    <3>4. txns[ids[k]].loc = l /\ rows[k].before = txns[ids[k]].before BY <2>2, <2>7
    <3>5. Replay(txns, l)[ids[k]-1] = txns[ids[k]].before BY <2>1, <2>5, <3>4 DEF Chained
    <3> QED BY <3>3, <3>4, <3>5
  <2>8. run[n] = OnHand(balance, l)
    <3>1. RowsUpTo(l, Len(txns), n) BY <2>2, <2>5 DEF RowsUpTo, ids
    <3>2. Len(txns) \in 0..Len(txns) /\ n \in 0..n BY <2>2, <2>6
    <3>3. Replay(txns, l)[Len(txns)] = run[n] BY <1>3, <2>1, <2>2, <2>4, <3>1, <3>2, ReplayOfRows DEF rows
    <3> QED BY <2>1, <3>3 DEF Chained
  <2>9. LateCut(rows, NoDay, n) /\ n \in 0..n BY <2>2 DEF LateCut, Late, n
  <2>10. Report(l, NoDay, NoDay).closing = run[n] BY <2>1, <2>4, <2>9, ReportIs DEF rows, n
  <2>11. Report(l, NoDay, NoDay).breaks = {} BY <2>1, <2>4, <2>7, ReportIs DEF rows, n
  <2> QED BY <2>8, <2>10, <2>11
<1>4. IInv /\ InTime => ChainHolds BY <1>3
<1> QED BY <1>1, <1>2, <1>4, Invariant, PTL DEF Spec
=============================================================================
