------------------------------ MODULE MCLedger ------------------------------
(* Instances of the ledger for TLC. *)
EXTENDS LedgerReport

\* every type a user can post by hand or upload
MCTypes == TxnTypes
\* types whose rows a replay reads differently
MCChainTypes == {"RECEIPT", "RETURN", "ADJUSTMENT", "TRANSFER"}

MCQuantities == {-1, 1, 2}

\* rows of one unit that change states, and their reversals, go on past the
\* third row: a change of state and its reversal alone are four rows
StatesGoOn ==
  Len(txns) >= 3 =>
    \A i \in DOMAIN txns :
      /\ \/ txns[i].type \in {"RECEIPT", "SCRAP", "QUARANTINE", "RELEASE"}
         \/ i > 1 /\ {txns[i].reversalOf, txns[i - 1].reversalOf} # {0}
      /\ txns[i].qty = 1 /\ txns[i].loc = txns[1].loc /\ txns[i].id = GeneratedId
=============================================================================
