---------------------------- MODULE LedgerReport ----------------------------
(***************************************************************************)
(* ledger_report(): the replay of the ledger of one location from the      *)
(* stored columns, and what it promises about the balances the postings    *)
(* left behind.                                                            *)
(***************************************************************************)
EXTENDS Ledger, SequencesExt

CONSTANT NoDay      \* a report without a start or an end date

ASSUME ReportAssumption == NoDay \notin Int

(* The rows of a location, ordered by (occurred_at, id). *)
IdsAt(l) == {i \in 1..Len(txns) : txns[i].loc = l \/ txns[i].toLoc = l}

Precedes(i, j) == \/ txns[i].at < txns[j].at
                  \/ txns[i].at = txns[j].at /\ i < j

IdsInOrder(l) ==
  CHOOSE ids \in [1..Cardinality(IdsAt(l)) -> IdsAt(l)] :
    \A j, k \in DOMAIN ids : j < k => Precedes(ids[j], ids[k])

RowsAt(l) == [k \in 1..Cardinality(IdsAt(l)) |-> txns[IdsInOrder(l)[k]]]

Day(t) == t.at \div TicksPerDay

(* The locals of ledger_report(): its arguments and what its loop keeps.    *)
Blank(l, start, end) ==
  [loc |-> l, start |-> start, end |-> end,
   running |-> 0, opened |-> FALSE, opening |-> 0, closing |-> 0, breaks |-> {}]

Early(t, start) == start # NoDay /\ Day(t) < start
Late(t, end)    == end # NoDay /\ Day(t) > end

(* One iteration of the loop over the rows. *)
ReportRow(acc, t) ==
  LET running == acc.running + DeltaAt(t, acc.loc)
      early   == Early(t, acc.start)
      opening == IF acc.opened \/ early THEN acc.opening ELSE acc.running
  IN  [acc EXCEPT
         !.running = running,
         !.opened  = acc.opened \/ ~early,
         !.opening = opening,
         !.closing = IF early THEN acc.closing
                     ELSE IF Late(t, acc.end) THEN (IF acc.opened THEN acc.closing ELSE opening)
                     ELSE running,
         !.breaks  = IF t.loc = acc.loc /\ t.before # acc.running
                     THEN acc.breaks \cup {t} ELSE acc.breaks]

\* mutant: a window after the last row opens at zero
CarriedNothing(last, start) == 0

(* The opening of a window that no row falls in or after. *)
Carried(last, start) == IF start # NoDay THEN last.running ELSE 0

Report(l, start, end) ==
  LET last    == FoldLeft(ReportRow, Blank(l, start, end), RowsAt(l))
      opening == IF last.opened THEN last.opening ELSE Carried(last, start)
  IN  [opening |-> opening,
       closing |-> IF last.opened THEN last.closing ELSE opening,
       breaks  |-> last.breaks]

-----------------------------------------------------------------------------
(* The same chain as the report shows it, its rows ordered by occurred_at:  *)
(* no break is flagged and the report closes at the current on-hand.        *)
ChainHolds ==
  \A l \in Locations :
    LET rep == Report(l, NoDay, NoDay)
    IN  rep.breaks = {} /\ rep.closing = OnHand(balance, l)

(* Consecutive report windows compose: what one day closes with the next    *)
(* opens with, days without rows included, and the first window opens at 0. *)
WindowsCompose ==
  \A l \in Locations : \A d \in 0..(MaxTick \div TicksPerDay) :
    /\ Report(l, NoDay, d).closing = Report(l, d + 1, NoDay).opening
    /\ Report(l, d, d).opening = (IF d = 0 THEN 0 ELSE Report(l, NoDay, d - 1).closing)
    /\ Report(l, NoDay, d).opening = 0

Total(bal) == FoldFunction(LAMBDA x, y : x + y, 0, bal)

(* What a row brings into or takes out of the company's books.              *)
Flow(t) ==
  CASE t.type \in {"OPENING", "RECEIPT", "PROD_COMPLETION", "RETURN"} -> t.qty
    [] t.type \in {"ISSUE", "SHIPMENT", "PROD_CONSUMPTION"} -> -t.qty
    [] t.type \in CountTypes -> IF t.dir = "IN" THEN t.qty ELSE -t.qty
    [] OTHER -> 0

AddFlow(sum, t) == sum + Flow(t)
FlowSum(rows) == FoldLeft(AddFlow, 0, rows)

(* Stock is neither made nor lost by a transfer, a quarantine, a release, a *)
(* scrapping or the reversal of one of them: the total over all buckets     *)
(* moves only by the flows of the rows a step appends.                      *)
OnlyFlowsChangeTotal ==
  [][Total(balance') - Total(balance)
       = FlowSum(SubSeq(txns', Len(txns) + 1, Len(txns')))]_vars
=============================================================================
