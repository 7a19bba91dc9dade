-------------------------- MODULE MCConnectWebhook --------------------------
(***************************************************************************)
(* A small instance of ConnectWebhook for TLC.                             *)
(***************************************************************************)
EXTENDS ConnectWebhook, TLC

Symmetry == Permutations(Requests) \cup Permutations(Subs)
============================================================================
