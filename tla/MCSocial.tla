----------------------------- MODULE MCSocial -----------------------------
(***************************************************************************)
(* A small instance of Social for TLC.                                     *)
(***************************************************************************)
EXTENDS Social, TLC

CONSTANT alice, bob, carol  \* the users; alice wrote everything

AuthorIsAlice == [i \in Posts \cup Comments |-> alice]

Symmetry == Permutations(Requests) \cup Permutations({bob, carol})
============================================================================
