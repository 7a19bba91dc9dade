--------------------------- MODULE MCConnectCards ---------------------------
(***************************************************************************)
(* A small instance of ConnectCards for TLC.                               *)
(***************************************************************************)
EXTENDS ConnectCards, TLC

Symmetry == Permutations(Requests) \cup Permutations(Cards)
============================================================================
