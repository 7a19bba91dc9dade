------------------------------- MODULE Lists -------------------------------
(***************************************************************************)
(* One list of users: CreateList and UpdateList of                         *)
(* backend/pkg/service/v1/chat.go over a row of the table lists.  An       *)
(* update reads the row and stores the columns in which the request        *)
(* differs from what was read, each with a statement of its own.           *)
(***************************************************************************)
CONSTANTS
  Requests,  \* calls of CreateList and UpdateList
  Names,     \* names of a list; the empty name is refused before all this
  Members,   \* values of the column allowed_users
  None,      \* no row, and not a record
  Fails      \* may a statement return an error?

VARIABLES
  list,    \* the row
  req,     \* req[r]: the request r
  before   \* history: <<q, r>> when q was over before r began

vars == <<list, req, before>>

Row == [name : Names, members : Members]

Over(r) == req[r].pc \in {"ok", "err"}
Asked(r) == req[r].asked

Init ==
  /\ list = None
  /\ req = [r \in Requests |-> [pc |-> "idle", asked |-> None, read |-> None,
                                answer |-> None]]
  /\ before = {}
---------------------------------------------------------------------------
\* Faulty variants, refuted by the property: a name that is stored only when
\* the members differ, a row that is answered as it was read.
NameDiffersWithMembers(r) == req[r].read.members # Asked(r).members
AnswerRead(r, row) == req[r].read

\* req.Name != listToEdit.Name, and DeepEqual of the members
NameDiffers(r) == req[r].read.name # Asked(r).name
MembersDiffer(r) == req[r].read.members # Asked(r).members

\* l is the row that the latest statement returns.
AnswerOf(r, row) == row

Begin(r, pc, asked, read) ==
  /\ req[r].pc = "idle"
  /\ req' = [req EXCEPT ![r] = [pc |-> pc, asked |-> asked, read |-> read,
                                answer |-> read]]
  /\ before' = before \cup {<<q, r>> : q \in {q \in Requests : Over(q)}}

Answer(r, pc, row) ==
  req' = [req EXCEPT ![r].pc = pc, ![r].answer = AnswerOf(r, row)]

CreateList(r, asked) ==
  /\ list = None
  /\ Begin(r, "ok", asked, asked)
  /\ list' = asked

\* GetListByID
UpdateList(r, asked) ==
  /\ list # None
  /\ Begin(r, "name", asked, list)
  /\ UNCHANGED list

UpdateName(r) ==
  /\ req[r].pc = "name"
  /\ NameDiffers(r)
  /\ list' = [list EXCEPT !.name = Asked(r).name]
  /\ Answer(r, "members", list')
  /\ UNCHANGED before

SameName(r) ==
  /\ req[r].pc = "name"
  /\ ~NameDiffers(r)
  /\ req' = [req EXCEPT ![r].pc = "members"]
  /\ UNCHANGED <<list, before>>

UpdateAllowedUsers(r) ==
  /\ req[r].pc = "members"
  /\ MembersDiffer(r)
  /\ list' = [list EXCEPT !.members = Asked(r).members]
  /\ Answer(r, "ok", list')
  /\ UNCHANGED before

SameMembers(r) ==
  /\ req[r].pc = "members"
  /\ ~MembersDiffer(r)
  /\ req' = [req EXCEPT ![r].pc = "ok"]
  /\ UNCHANGED <<list, before>>

\* The statement of a call fails; a name that is stored stays.
UpdateFails(r) ==
  /\ Fails
  /\ \/ req[r].pc = "name" /\ NameDiffers(r)
     \/ req[r].pc = "members" /\ MembersDiffer(r)
  /\ req' = [req EXCEPT ![r].pc = "err"]
  /\ UNCHANGED <<list, before>>

Next ==
  \E r \in Requests :
    \/ \E asked \in Row : CreateList(r, asked) \/ UpdateList(r, asked)
    \/ UpdateName(r) \/ SameName(r)
    \/ UpdateAllowedUsers(r) \/ SameMembers(r)
    \/ UpdateFails(r)

Spec == Init /\ [][Next]_vars
---------------------------------------------------------------------------
(* Properties.                                                             *)

TypeOK ==
  /\ list \in Row \cup {None}
  /\ req \in [Requests -> [pc : {"idle", "name", "members", "ok", "err"},
                           asked : Row \cup {None}, read : Row \cup {None},
                           answer : Row \cup {None}]]
  /\ before \subseteq Requests \X Requests

\* The requests that no successful one wholly followed
Latest == {r \in Requests :
             /\ Over(r)
             /\ \A q \in Requests : <<r, q>> \in before => req[q].pc # "ok"}

\* When all calls are over, each column of the list is what one of the
\* latest calls asked for, and a successful call that no other overlapped or
\* followed left, and answered, exactly what it asked for: a name of one and
\* members of another need two calls that overlapped or one that failed.
ColumnsOfLatest ==
  (list # None /\ \A r \in Requests : req[r].pc = "idle" \/ Over(r)) =>
    /\ \E r \in Latest : list.name = Asked(r).name
    /\ \E r \in Latest : list.members = Asked(r).members
    /\ \A r \in Requests :
         (/\ req[r].pc = "ok"
          /\ \A q \in Requests \ {r} :
               req[q].pc = "idle" \/ <<q, r>> \in before)
         => list = Asked(r) /\ req[r].answer = Asked(r)
=============================================================================
