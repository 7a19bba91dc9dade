----------------------------- MODULE MCBilling -----------------------------
(***************************************************************************)
(* Small instances of Billing for TLC.                                     *)
(***************************************************************************)
EXTENDS Billing, TLC

Symmetry == Permutations(Requests) \cup Permutations(Cards)
============================================================================
