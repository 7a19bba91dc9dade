----------------------------- MODULE MCSession -----------------------------
(***************************************************************************)
(* Small instances of Session for TLC.                                     *)
(***************************************************************************)
EXTENDS Session, TLC

\* Session ids, users and sign-ins are interchangeable.
Symmetry ==
  Permutations(Sids) \cup Permutations(Users) \cup Permutations(SignIns)
    \cup Permutations(Requests)
=============================================================================
