---------------------------- MODULE PartialSums ----------------------------
(***************************************************************************)
(* Running totals of an integer function on the naturals.  The ledger adds *)
(* up stock over the lots of a location and deltas over the rows of a      *)
(* report; both are totals of this form, and the lemmas of                 *)
(* NatLemmas are stated about it.                                          *)
(***************************************************************************)
EXTENDS Integers

(* SumTo(f)[n] = f[0] + f[1] + ... + f[n] *)
SumTo(f) ==
  LET s[k \in Nat] == IF k = 0 THEN f[0] ELSE s[k-1] + f[k]
  IN  s
=============================================================================
