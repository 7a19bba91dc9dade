------------------------------- MODULE Mixes -------------------------------
(***************************************************************************)
(* The mixes of one user: GetMixes of backend/pkg/service/v1/mixes.go,     *)
(* which at every call deletes the rows of the user and creates one for    *)
(* each category, statement by statement and without a transaction.  A row *)
(* is named by the call that created it and its category.                  *)
(***************************************************************************)
EXTENDS Naturals

CONSTANTS
  Calls,       \* calls of GetMixes by the user
  Categories,  \* the number of categories, which are taken in order
  Fails        \* may a statement return an error?

VARIABLES
  mixes,     \* the rows of the user
  call,      \* call[c]: the step c is at, and the next category
  answered,  \* answered[c]: the rows c has created so far
  preceded   \* history: <<b, c>> when b was over before c began

vars == <<mixes, call, answered, preceded>>

Ended(c) == call[c].pc \in {"ok", "err"}

Init ==
  /\ mixes = {}
  /\ call = [c \in Calls |-> [pc |-> "idle", next |-> 1]]
  /\ answered = [c \in Calls |-> {}]
  /\ preceded = {}
---------------------------------------------------------------------------
\* Faulty variant, refuted by the property: rows that are never deleted.
DeleteNone == mixes

\* DELETE FROM mixes WHERE user_id
DeleteUserMixes == {}

Goto(c, pc) == call' = [call EXCEPT ![c].pc = pc]

\* GetUserMixes; what it finds makes no difference.
GetMixes(c) ==
  /\ call[c].pc = "idle"
  /\ Goto(c, "delete")
  /\ preceded' = preceded \cup {<<b, c>> : b \in {b \in Calls : Ended(b)}}
  /\ UNCHANGED <<mixes, answered>>

Delete(c) ==
  /\ call[c].pc = "delete"
  /\ mixes' = DeleteUserMixes
  /\ Goto(c, "trending")
  /\ UNCHANGED <<answered, preceded>>

\* GetTrendingTodayPostIDs: a day without posts skips the category.
GetTrending(c) ==
  /\ call[c].pc = "trending"
  /\ call[c].next <= Categories
  /\ \/ Goto(c, "create")
     \/ call' = [call EXCEPT ![c].next = @ + 1]
  /\ UNCHANGED <<mixes, answered, preceded>>

CreateUserMix(c) ==
  /\ call[c].pc = "create"
  /\ LET row == <<c, call[c].next>> IN
       /\ mixes' = mixes \cup {row}
       /\ answered' = [answered EXCEPT ![c] = @ \cup {row}]
  /\ call' = [call EXCEPT ![c] = [pc |-> "trending", next |-> @.next + 1]]
  /\ UNCHANGED preceded

Return(c) ==
  /\ call[c].pc = "trending"
  /\ call[c].next > Categories
  /\ Goto(c, "ok")
  /\ UNCHANGED <<mixes, answered, preceded>>

\* A statement fails; the rows that were deleted or created stay so.
CallFails(c) ==
  /\ Fails
  /\ \/ call[c].pc \in {"delete", "create"}
     \/ call[c].pc = "trending" /\ call[c].next <= Categories
  /\ Goto(c, "err")
  /\ UNCHANGED <<mixes, answered, preceded>>

Next == \E c \in Calls : \/ GetMixes(c) \/ Delete(c) \/ GetTrending(c)
                         \/ CreateUserMix(c) \/ Return(c) \/ CallFails(c)

Spec == Init /\ [][Next]_vars
---------------------------------------------------------------------------
(* Properties.                                                             *)

TypeOK ==
  /\ mixes \subseteq Calls \X (1..Categories)
  /\ call \in [Calls -> [pc : {"idle", "delete", "trending", "create", "ok",
                               "err"}, next : 1..(Categories + 1)]]
  /\ answered \in [Calls -> SUBSET (Calls \X (1..Categories))]
  /\ preceded \subseteq Calls \X Calls

\* A user has rows of two calls, and with them a category twice, only when
\* neither call was over before the other began; a call that no other
\* overlapped or followed leaves what it answered.
MixesOfOneCall ==
  /\ \A x, y \in mixes : <<x[1], y[1]>> \notin preceded
  /\ \A c \in Calls :
       (/\ call[c].pc = "ok"
        /\ \A b \in Calls \ {c} :
             call[b].pc = "idle" \/ <<b, c>> \in preceded)
       => mixes = answered[c]
=============================================================================
