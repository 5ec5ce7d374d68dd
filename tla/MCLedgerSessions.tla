-------------------------- MODULE MCLedgerSessions --------------------------
(* Instances of concurrent posting for TLC. *)
EXTENDS LedgerSessions

CONSTANTS plant, store

\* two units in the plant, nothing in the store yet
MCStock == [b \in Buckets |-> IF b = plant THEN 2 ELSE 0]
=============================================================================
