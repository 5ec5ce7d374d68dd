------------------------------- MODULE Picking -------------------------------
(***************************************************************************)
(* Lots: picking those that expire, and the tree of a lot.                 *)
(* Lots that expire (expiry_service.py).  A lot is [no, qty, quality,      *)
(* state, expiry, received]; days are counted from today.                  *)
(***************************************************************************)
EXTENDS Quantities

Far == 100000   \* date.max

\* First expired first, then the first received, then by lot number.
Before(x, y) ==
  LET k == <<Else(x.expiry, Far), Else(x.received, Far), x.no>>
      n == <<Else(y.expiry, Far), Else(y.received, Far), y.no>>
  IN  \E i \in 1..3 : k[i] < n[i] /\ \A j \in 1 .. i - 1 : k[j] = n[j]

FefoSort(lots) == SortSeq(lots, Before)

\* mutant: an expired lot may be picked, since only the minimum life is checked
PickableExpired(lot, minDays, anyQuality, allowExpired) ==
  /\ anyQuality \/ lot.quality = "RELEASED"
  /\ lot.state = "UNRESTRICTED"
  /\ lot.expiry # Absent /\ ~allowExpired /\ minDays > 0 => lot.expiry >= minDays

Pickable(lot, minDays, anyQuality, allowExpired) ==
  /\ anyQuality \/ lot.quality = "RELEASED"
  /\ lot.state = "UNRESTRICTED"
  /\ lot.expiry # Absent /\ ~allowExpired => lot.expiry >= NotBelow0(minDays)

\* [picks, left]: a lot with nothing in it is passed over; the walk ends when nothing is left to pick.
FefoPick(lots, qty, minDays, anyQuality, allowExpired) ==
  LET open == SelectSeq(FefoSort(lots), LAMBDA l : l.qty > 0 /\ Pickable(l, minDays, anyQuality, allowExpired))
      take(plan, l) == IF plan.picks # <<>> /\ plan.left <= 0 THEN plan
                       ELSE [picks |-> Append(plan.picks, [no |-> l.no, qty |-> Smaller(l.qty, plan.left)]),
                             left |-> plan.left - Smaller(l.qty, plan.left)]
  IN  FoldLeft(take, [picks |-> <<>>, left |-> qty], open)

\* What is left of each lot when it expires, if demand takes the lots in that order.
AtRisk(lots, demand) ==
  LET sorted == SelectSeq(FefoSort(lots), LAMBDA l : l.qty > 0)
      before(n) == Total(SubSeq(sorted, 1, n - 1), LAMBDA l : l.qty)
      consumed(n) == NotBelow0(Smaller(sorted[n].qty, demand * NotBelow0(sorted[n].expiry) - before(n)))
  IN  [n \in {n \in DOMAIN sorted : sorted[n].expiry # Absent} |->
         [no |-> sorted[n].no, risk |-> sorted[n].qty - consumed(n)]]

\* Age buckets: [lo, hi], the last without an end.
Buckets(edges) ==
  LET sorted == SetToSortSeq({e \in edges : e > 0}, LAMBDA x, y : x < y)
      lo(n) == IF n = 1 THEN 0 ELSE sorted[n - 1] + 1
  IN  [n \in 1 .. Len(sorted) + 1 |-> [lo |-> lo(n), hi |-> IF n > Len(sorted) THEN Absent ELSE sorted[n]]]

BucketFor(age, buckets) ==
  Least({n \in DOMAIN buckets : NotBelow0(age) >= buckets[n].lo /\ (buckets[n].hi = Absent \/ NotBelow0(age) <= buckets[n].hi)})

-----------------------------------------------------------------------------
(* Where a lot came from and where it went (traceability_service.py), from
   the movements [lot, type, ref, party] in the ledger.                    *)

Moves(book, lot, type) == SelectSeq(book, LAMBDA t : t.lot = lot /\ t.type = type)

\* The lots of the other type of movement under the references of the lot's own, in the order they are found.
Partners(book, lot, own, other) ==
  FoldLeft(LAMBDA s, t : s \o SelectSeq(book, LAMBDA c : c.ref = t.ref /\ c.type = other /\ c.lot # Absent), <<>>, Moves(book, lot, own))

\* mutant: only the lot's own customers are reported
OwnCustomers(book, lot, downstream) == {t.party : t \in {t \in Range(book) : t.lot = lot /\ t.type = "SHIPMENT"}} \ {Absent}

\* Those the lot was shipped to, and those that the lots found below it were shipped to.
Customers(book, lot, downstream) ==
  ({t.party : t \in {t \in Range(book) : t.lot = lot /\ t.type = "SHIPMENT"}} \ {Absent})
    \cup UNION {downstream[n].customers : n \in DOMAIN downstream}

\* Up, then down, three orders far; a lot that was seen anywhere before is not listed again.
Trace(book, lot) ==
  LET lots == {lot} \cup {t.lot : t \in Range(book)}
      tree[depth \in 0..3, l \in lots, seen \in SUBSET lots] ==
        LET visit(s, c) ==
              IF c.lot \in s.seen THEN s
              ELSE LET sub == tree[depth + 1, c.lot, s.seen] IN [seen |-> sub.seen, found |-> Append(s.found, sub)]
            walk(from, own, other) ==
              FoldLeft(visit, [seen |-> from, found |-> <<>>], IF depth < 3 THEN Partners(book, l, own, other) ELSE <<>>)
            up == walk(seen \cup {l}, "PROD_COMPLETION", "PROD_CONSUMPTION")
            down == walk(up.seen, "PROD_CONSUMPTION", "PROD_COMPLETION")
        IN  [lot |-> l, upstream |-> up.found, downstream |-> down.found, seen |-> down.seen,
             customers |-> Customers(book, l, down.found)]
  IN  tree[0, lot, {}]
=============================================================================
