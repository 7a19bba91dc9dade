------------------------------- MODULE MCRows -------------------------------
(***************************************************************************)
(* Small instances of Credentials, Lists and Mixes for TLC: the rows of    *)
(* one user, of one list and of one user's mixes.  The three share no      *)
(* state: a behaviour of this module is a behaviour of one of them.        *)
(***************************************************************************)
EXTENDS Credentials, TLC

CONSTANTS Updates, Names, Members, None, Calls, Categories

VARIABLES list, update, prior, mixes, call, answered, preceded

listVars == <<list, update, prior>>
mixesVars == <<mixes, call, answered, preceded>>

L == INSTANCE Lists WITH Requests <- Updates, req <- update,
                         before <- prior
M == INSTANCE Mixes

ASSUME ListAssumption == None \notin L!Row

MCInit == Init /\ L!Init /\ M!Init
MCNext ==
  \/ Next /\ L!Init /\ M!Init /\ UNCHANGED <<listVars, mixesVars>>
  \/ L!Next /\ Init /\ M!Init /\ UNCHANGED <<vars, mixesVars>>
  \/ M!Next /\ Init /\ L!Init /\ UNCHANGED <<vars, listVars>>
MCSpec == MCInit /\ [][MCNext]_<<vars, listVars, mixesVars>>

ColumnsOfLatest == L!ColumnsOfLatest
MixesOfOneCall == M!MixesOfOneCall

Symmetry == Permutations(Updates)
=============================================================================
