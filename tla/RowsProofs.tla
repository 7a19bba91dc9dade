--------------------------- MODULE RowsProofs ---------------------------
(***************************************************************************)
(* Theorems about the rows that calls of the backend read and write        *)
(* statement by statement: Credentials, Lists and Mixes, for any sets of   *)
(* calls and any values, and MCRows, in which the three are side by side.  *)
(***************************************************************************)
EXTENDS MCRows, Naturals, TLAPS

---------------------------------------------------------------------------
(* Credentials: what a sign-in or a change of the password shows, although *)
(* the comparison and what it permits are apart.                           *)

Request == [pc: {"idle", "compare", "set", "update", "stamp", "ok", "err"},
            kind: {"signin", "change", "reset"},
            old: Passwords, new: Passwords]

Running(r) == req[r].pc # "idle" /\ ~Over(r)

TypeOK ==
  /\ req \in [Requests -> Request]
  /\ during \in [Requests -> SUBSET Passwords]
  /\ sessions \subseteq Requests
  /\ wrote \subseteq Requests
  /\ before \subseteq Requests \X Requests

\* What a request has seen: it knows every password stored while it runs, and
\* was let past the comparison only by one of these; what it opens or writes,
\* it has done after that.
Seen(r) ==
  /\ Running(r) => password \in during[r]
  /\ req[r].pc = "set" \/ (req[r].pc = "update" /\ req[r].kind = "change")
       => req[r].old \in during[r]
  /\ r \in sessions \cup wrote => req[r].pc \in {"stamp", "ok", "err"}
  /\ r \in sessions \/ (r \in wrote /\ req[r].kind = "change")
       => req[r].old \in during[r]

\* The password is that of a request no other wholly followed: a request that
\* is about to write is not over, so it precedes nobody.
LastInv ==
  /\ \A q, r \in Requests : <<q, r>> \in before => Over(q)
  /\ \/ wrote = {} /\ password = First
     \/ \E r \in wrote : /\ password = req[r].new
                         /\ \A q \in wrote : <<r, q>> \notin before

IInv == TypeOK /\ (\A r \in Requests : Seen(r)) /\ LastInv
---------------------------------------------------------------------------
\* A step of s from one point of its handler to another, which stores no
\* password
LEMMA Moves ==
  ASSUME IInv, NEW s \in Requests, Running(s),
         NEW pc \in {"set", "update", "stamp", "ok", "err"}, Goto(s, pc),
         pc = "set" \/ (pc = "update" /\ req[s].kind = "change")
           => req[s].old \in during[s],
         s \in sessions \cup wrote => pc \in {"ok", "err"},
         sessions' = sessions
           \/ (/\ sessions' = sessions \cup {s} /\ req[s].pc = "set"
               /\ pc = "ok"),
         UNCHANGED <<password, during, wrote, before>>
  PROVE  IInv'
<1>1. /\ req \in [Requests -> Request] /\ req' \in [Requests -> Request]
      /\ req'[s].pc = pc /\ req'[s].kind = req[s].kind
      /\ req'[s].old = req[s].old /\ req'[s].new = req[s].new
      /\ \A r \in Requests \ {s} : req'[r] = req[r]
  BY DEF IInv, TypeOK, Request, Goto
<1>2. TypeOK'
  BY <1>1 DEF IInv, TypeOK
<1>3. ASSUME NEW r \in Requests PROVE Seen(r)'
  <2>1. CASE r = s
    BY <1>1, <2>1 DEF IInv, Seen, Running, Over
  <2>2. CASE r # s
    BY <1>1, <2>2 DEF IInv, Seen, Running, Over
  <2>3. QED  BY <2>1, <2>2
<1>4. LastInv'
  <2>1. \A r \in Requests : req'[r].new = req[r].new
    BY <1>1
  <2>2. \A r \in Requests : Over(r) => Over(r)'
    BY <1>1 DEF Running, Over
  <2>3. QED  BY <2>1, <2>2 DEF IInv, TypeOK, LastInv
<1>5. QED  BY <1>2, <1>3, <1>4 DEF IInv

\* A request that begins knows the password of that moment, and comes after
\* those that are over.
LEMMA Begins ==
  ASSUME IInv, NEW s \in Requests, NEW pc \in {"compare", "update", "err"},
         NEW kind \in {"signin", "change", "reset"},
         pc = "update" => kind = "reset",
         NEW old \in Passwords, NEW new \in Passwords, password \in Passwords,
         Begin(s, pc, kind, old, new)
  PROVE  IInv'
<1>1. /\ req \in [Requests -> Request] /\ req' \in [Requests -> Request]
      /\ req[s].pc = "idle"
      /\ req'[s] = [pc |-> pc, kind |-> kind, old |-> old, new |-> new]
      /\ during'[s] = {password}
      /\ \A r \in Requests \ {s} : req'[r] = req[r] /\ during'[r] = during[r]
      /\ password' = password /\ sessions' = sessions /\ wrote' = wrote
      /\ before' = before \cup {<<q, s>> : q \in {q \in Requests : Over(q)}}
  BY DEF IInv, TypeOK, Request, Begin
<1>2. TypeOK'
  BY <1>1 DEF IInv, TypeOK, Begin
<1>3. s \notin sessions \cup wrote
  BY <1>1 DEF IInv, Seen
<1>4. ASSUME NEW r \in Requests PROVE Seen(r)'
  <2>1. CASE r = s
    BY <1>1, <1>3, <2>1 DEF Seen
  <2>2. CASE r # s
    BY <1>1, <2>2 DEF IInv, Seen, Running, Over
  <2>3. QED  BY <2>1, <2>2
<1>5. LastInv'
  <2>1. ASSUME NEW q \in Requests, NEW r \in Requests, <<q, r>> \in before'
        PROVE  Over(q)'
    <3>1. Over(q)
      BY <1>1, <2>1 DEF IInv, LastInv
    <3>2. QED  BY <1>1, <3>1 DEF Over
  <2>2. ASSUME NEW q \in wrote, NEW r \in wrote, <<q, r>> \notin before
        PROVE  <<q, r>> \notin before'
    BY <1>1, <1>3, <2>2
  <2>3. \A r \in wrote : req'[r].new = req[r].new
    BY <1>1, <1>3 DEF IInv, TypeOK
  <2>4. QED  BY <1>1, <2>1, <2>2, <2>3 DEF IInv, LastInv
<1>6. QED  BY <1>2, <1>4, <1>5 DEF IInv

\* What is written is a password that was stored while every running request
\* ran, and its writer precedes nobody.
LEMMA PasswordUpdates ==
  ASSUME IInv, NEW s \in Requests, Update(s)
  PROVE  IInv'
<1>1. /\ req \in [Requests -> Request] /\ req' \in [Requests -> Request]
      /\ req[s].pc = "update" /\ req'[s].pc = "stamp"
      /\ req'[s].kind = req[s].kind
      /\ req'[s].old = req[s].old /\ req'[s].new = req[s].new
      /\ \A r \in Requests \ {s} : req'[r] = req[r]
      /\ password' = req[s].new /\ password' \in Passwords
      /\ wrote' = wrote \cup {s} /\ sessions' = sessions /\ before' = before
  BY DEF IInv, TypeOK, Request, Update, UpdatePassword, Goto
<1>2. \A r \in Requests :
        /\ during[r] \subseteq during'[r]
        /\ Running(r) => password' \in during'[r]
  BY DEF Update, Running
<1>3. TypeOK'
  <2>1. during' \in [Requests -> SUBSET Passwords]
    BY <1>1 DEF IInv, TypeOK, Update
  <2>2. QED  BY <1>1, <2>1 DEF IInv, TypeOK
<1>4. ASSUME NEW r \in Requests PROVE Seen(r)'
  <2>1. CASE r = s
    BY <1>1, <1>2, <2>1 DEF IInv, Seen, Running, Over
  <2>2. CASE r # s
    BY <1>1, <1>2, <2>2 DEF IInv, Seen, Running, Over
  <2>3. QED  BY <2>1, <2>2
<1>5. LastInv'
  <2>1. \A q, r \in Requests : <<q, r>> \in before => Over(q) /\ Over(q)'
    BY <1>1 DEF IInv, LastInv, Over
  <2>2. \A q \in wrote' : <<s, q>> \notin before
    BY <1>1, <2>1 DEF IInv, TypeOK, Over
  <2>3. QED  BY <1>1, <2>1, <2>2 DEF LastInv
<1>6. QED  BY <1>3, <1>4, <1>5 DEF IInv

\* The sessions that a sign-out ends, and a verified email, matter to none.
LEMMA Others ==
  ASSUME IInv, sessions' \subseteq sessions,
         UNCHANGED <<password, req, during, wrote, before>>
  PROVE  IInv'
<1>1. TypeOK'
  BY DEF IInv, TypeOK
<1>2. \A r \in Requests : Seen(r)'
  BY DEF IInv, Seen, Running, Over
<1>3. LastInv'
  BY DEF IInv, LastInv, Over
<1>4. QED  BY <1>1, <1>2, <1>3 DEF IInv

\* The stored password is one of Passwords.
LEMMA PasswordType ==
  ASSUME IInv
  PROVE  password \in Passwords
<1>1. First \in Passwords
  BY CredentialsAssumption
<1>2. QED  BY <1>1 DEF IInv, LastInv, TypeOK, Request

\* Every step keeps the invariant.
LEMMA IInvStep == IInv /\ [Next]_vars => IInv'
<1> SUFFICES ASSUME IInv, [Next]_vars PROVE IInv'
  OBVIOUS
<1>1. ASSUME NEW r \in Requests, NEW p \in Passwords,
             EmailSignin(r, p) \/ ResetPassword(r, p)
      PROVE  IInv'
  BY <1>1, Begins, PasswordType DEF EmailSignin, ResetPassword
<1>2. ASSUME NEW r \in Requests, NEW old \in Passwords, NEW new \in Passwords,
             ChangePassword(r, old, new)
      PROVE  IInv'
  BY <1>2, Begins, PasswordType DEF ChangePassword
<1>3. ASSUME NEW r \in Requests, Compare(r) PROVE IInv'
  <2>1. r \notin sessions \cup wrote /\ Running(r) /\ password \in during[r]
    BY <1>3 DEF IInv, Seen, Compare, Running, Over
  <2>2. PICK pc \in {"set", "update", "err"} :
          Goto(r, pc) /\ (pc # "err" => req[r].old = password)
    BY <1>3 DEF Compare, Matches, AfterCompare
  <2>3. QED  BY <1>3, <2>1, <2>2, Moves DEF Compare
<1>4. ASSUME NEW r \in Requests, SetSession(r) PROVE IInv'
  <2>1. Running(r)
    BY <1>4 DEF SetSession, Running, Over
  <2>2. QED  BY <1>4, <2>1, Moves DEF SetSession
<1>5. ASSUME NEW r \in Requests, UpdatePasswordChangedAt(r) PROVE IInv'
  <2>1. Running(r)
    BY <1>5 DEF UpdatePasswordChangedAt, Running, Over
  <2>2. QED  BY <1>5, <2>1, Moves DEF UpdatePasswordChangedAt
<1>6. ASSUME NEW r \in Requests, RequestFails(r) PROVE IInv'
  BY <1>6, Moves DEF RequestFails, Running
<1>7. CASE EmailVerify \/ (\E s \in Requests : SignOut(s)) \/ UNCHANGED vars
  BY <1>7, Others DEF EmailVerify, SignOut, vars
<1>8. QED
  BY <1>1, <1>2, <1>3, <1>4, <1>5, <1>6, <1>7, PasswordUpdates DEF Next

\* It holds at first.
LEMMA IInvInit == Init => IInv
  BY CredentialsAssumption
     DEF Init, IInv, TypeOK, Request, Seen, Running, LastInv, Over
---------------------------------------------------------------------------
(* Lists: whose columns a list is left with.  For each column there is a   *)
(* call that answers for it: a later call either has read what it left and *)
(* not gone past the column, or has failed, or answers for it itself.      *)

ListCall == [pc : {"idle", "name", "members", "ok", "err"},
          asked : L!Row \cup {None}, read : L!Row \cup {None},
          answer : L!Row \cup {None}]

\* What is asked for and read by a call that has begun is a row.
BegunOK ==
  \A r \in Updates : update[r].pc # "idle" =>
    update[r].asked \in L!Row /\ update[r].read \in L!Row /\ list \in L!Row

ListOrderOK ==
  \A q, r \in Updates : <<q, r>> \in prior => L!Over(q) /\ update[r].pc # "idle"

StateOK ==
  /\ list \in L!Row \cup {None} /\ update \in [Updates -> ListCall]
  /\ list = None => \A r \in Updates : update[r].pc = "idle"

\* r answers for the name.
AnswersName(r) ==
  /\ update[r].pc \in {"members", "ok", "err"}
  /\ list.name = L!Asked(r).name
  /\ \A q \in Updates : <<r, q>> \in prior =>
       \/ update[q].pc = "name" /\ update[q].read.name = list.name
       \/ update[q].pc = "err"

\* r answers for the members.
AnswersMembers(r) ==
  /\ update[r].pc = "ok"
  /\ list.members = L!Asked(r).members
  /\ \A q \in Updates : <<r, q>> \in prior =>
       \/ update[q].pc \in {"name", "members"} /\ update[q].read.members = list.members
       \/ update[q].pc = "err"

NameOK == list # None => \E r \in Updates : AnswersName(r)
MembersOK == list # None => \E r \in Updates : AnswersMembers(r)

\* What a call that no other has overlapped finds
Undisturbed(r) ==
  /\ update[r].pc = "name" => list = update[r].read /\ update[r].answer = list
  /\ update[r].pc = "members" => /\ list.name = L!Asked(r).name
                              /\ list.members = update[r].read.members
                              /\ update[r].answer = list
  /\ update[r].pc = "ok" => list = L!Asked(r) /\ update[r].answer = L!Asked(r)

AloneOK ==
  \A r \in Updates :
    \/ \E q \in Updates \ {r} : update[q].pc # "idle" /\ <<q, r>> \notin prior
    \/ Undisturbed(r)

ListInv == StateOK /\ BegunOK /\ ListOrderOK /\ NameOK /\ MembersOK /\ AloneOK
---------------------------------------------------------------------------
\* A row is its two columns.
LEMMA RowIs ==
  ASSUME NEW x \in L!Row, NEW y \in L!Row, x.name = y.name, x.members = y.members
  PROVE  x = y
  BY DEF L!Row

\* Storing one column of a row leaves the other.
LEMMA RowExcept ==
  ASSUME NEW x \in L!Row, NEW y \in L!Row
  PROVE  /\ [x EXCEPT !.name = y.name] \in L!Row
         /\ [x EXCEPT !.name = y.name].name = y.name
         /\ [x EXCEPT !.name = y.name].members = x.members
         /\ [x EXCEPT !.members = y.members] \in L!Row
         /\ [x EXCEPT !.members = y.members].members = y.members
         /\ [x EXCEPT !.members = y.members].name = x.name
  BY DEF L!Row

\* There is no list at first, and no call has begun.
LEMMA ListInvInit == L!Init => ListInv
  BY DEF L!Init, ListInv, StateOK, BegunOK, ListOrderOK, NameOK, MembersOK, AloneOK,
     Undisturbed, ListCall

\* Nothing is older than a call that is not over.
LEMMA NotOverIsLatest ==
  ASSUME ListInv, NEW r \in Updates, ~L!Over(r)
  PROVE  \A q \in Updates : <<r, q>> \notin prior
  BY DEF ListInv, ListOrderOK

\* The first call answers for both columns.
LEMMA ListCreateKeeps ==
  ASSUME ListInv, NEW r \in Updates, NEW asked \in L!Row,
         L!CreateList(r, asked)
  PROVE  ListInv'
<1>1. /\ \A q \in Updates : update[q].pc = "idle"
      /\ prior = {} \/ \A q, p \in Updates : <<q, p>> \notin prior
      /\ update \in [Updates -> ListCall]
  BY DEF L!CreateList, ListInv, StateOK, ListOrderOK, L!Over
<1>2. /\ update' = [update EXCEPT ![r] = [pc |-> "ok", asked |-> asked,
                                    read |-> asked, answer |-> asked]]
      /\ prior' = prior /\ list' = asked
  BY <1>1 DEF L!CreateList, L!Begin, L!Over
<1>3. /\ update'[r] = [pc |-> "ok", asked |-> asked, read |-> asked,
                    answer |-> asked]
      /\ \A q \in Updates \ {r} : update'[q] = update[q]
      /\ update' \in [Updates -> ListCall]
  BY <1>1, <1>2 DEF ListCall
<1>4. StateOK' /\ BegunOK' /\ ListOrderOK'
  BY ListAssumption, <1>1, <1>2, <1>3 DEF StateOK, BegunOK, ListOrderOK, L!Over
<1>5. NameOK' /\ MembersOK'
  BY <1>1, <1>2, <1>3 DEF NameOK, MembersOK, AnswersName, AnswersMembers, L!Asked
<1>6. AloneOK'
  BY <1>1, <1>2, <1>3 DEF AloneOK, Undisturbed, L!Asked
<1>7. QED  BY <1>4, <1>5, <1>6 DEF ListInv

\* A call that begins has read what those before it left.
LEMMA UpdateKeeps ==
  ASSUME ListInv, NEW r \in Updates, NEW asked \in L!Row,
         L!UpdateList(r, asked)
  PROVE  ListInv'
<1>1. /\ update[r].pc = "idle" /\ list \in L!Row /\ list' = list
      /\ update \in [Updates -> ListCall]
      /\ \A q \in Updates : <<q, r>> \notin prior /\ <<r, q>> \notin prior
  BY DEF L!UpdateList, L!Begin, ListInv, StateOK, ListOrderOK, L!Over
<1>2. /\ update' = [update EXCEPT ![r] = [pc |-> "name", asked |-> asked,
                                    read |-> list, answer |-> list]]
      /\ prior' = prior \cup {<<q, r>> : q \in {q \in Updates : L!Over(q)}}
  BY DEF L!UpdateList, L!Begin
<1>3. /\ update'[r] = [pc |-> "name", asked |-> asked, read |-> list,
                    answer |-> list]
      /\ \A q \in Updates \ {r} : update'[q] = update[q]
      /\ update' \in [Updates -> ListCall]
  BY <1>1, <1>2 DEF ListCall
<1>4. /\ \A q \in Updates : <<q, r>> \in prior' <=> L!Over(q)
      /\ \A q \in Updates, p \in Updates \ {r} :
           <<q, p>> \in prior' <=> <<q, p>> \in prior
  BY <1>1, <1>2
<1>5. StateOK' /\ BegunOK'
  BY ListAssumption, <1>1, <1>3 DEF ListInv, StateOK, BegunOK
<1>6. ListOrderOK'
  BY <1>1, <1>3, <1>4 DEF ListInv, ListOrderOK, L!Over
<1>7. NameOK'
  <2>1. PICK w \in Updates : AnswersName(w)
    BY ListAssumption, <1>1 DEF ListInv, NameOK
  <2>2. w # r
    BY <2>1, <1>1 DEF AnswersName
  <2>3. AnswersName(w)'
    BY <2>1, <2>2, <1>1, <1>3, <1>4 DEF AnswersName, L!Asked
  <2>4. QED  BY <2>3 DEF NameOK
<1>8. MembersOK'
  <2>1. PICK w \in Updates : AnswersMembers(w)
    BY ListAssumption, <1>1 DEF ListInv, MembersOK
  <2>2. w # r
    BY <2>1, <1>1 DEF AnswersMembers
  <2>3. AnswersMembers(w)'
    BY <2>1, <2>2, <1>1, <1>3, <1>4 DEF AnswersMembers, L!Asked
  <2>4. QED  BY <2>3 DEF MembersOK
<1>9. AloneOK'
  <2>1. ASSUME NEW p \in Updates
        PROVE  \/ \E q \in Updates \ {p} :
                    update'[q].pc # "idle" /\ <<q, p>> \notin prior'
               \/ Undisturbed(p)'
    <3>1. CASE p = r
      BY <3>1, <1>1, <1>3 DEF Undisturbed
    <3>2. CASE p # r
      <4>1. CASE \E q \in Updates \ {p} : update[q].pc # "idle" /\ <<q, p>> \notin prior
        <5>1. PICK q \in Updates \ {p} : update[q].pc # "idle" /\ <<q, p>> \notin prior
          BY <4>1
        <5>2. q # r
          BY <5>1, <1>1
        <5>3. update'[q].pc # "idle" /\ <<q, p>> \notin prior'
          BY <5>1, <5>2, <3>2, <1>3, <1>4
        <5>4. QED  BY <5>3
      <4>2. CASE Undisturbed(p)
        BY <4>2, <3>2, <1>1, <1>3 DEF Undisturbed, L!Asked
      <4>3. QED  BY <4>1, <4>2 DEF ListInv, AloneOK
    <3>3. QED  BY <3>1, <3>2
  <2>2. QED  BY <2>1 DEF AloneOK
<1>10. QED  BY <1>5, <1>6, <1>7, <1>8, <1>9 DEF ListInv

\* What any step of a call on its way does to the others
ListMoves(r, pc) ==
  /\ update[r].pc \in {"name", "members"}
  /\ pc \in {"members", "ok", "err"}
  /\ prior' = prior
  /\ list \in L!Row /\ list' \in L!Row
  /\ update' \in [Updates -> ListCall]
  /\ update'[r].pc = pc /\ update'[r].asked = update[r].asked
  /\ update'[r].read = update[r].read
  /\ \A q \in Updates \ {r} : update'[q] = update[q]

\* A step of r keeps the invariant if there is a call that answers for each
\* column: no other call can be undisturbed by one that is not over.
LEMMA MoveKeeps ==
  ASSUME ListInv, NEW r \in Updates, NEW pc, ListMoves(r, pc),
         NameOK', MembersOK', Undisturbed(r) => Undisturbed(r)'
  PROVE  ListInv'
<1>1. StateOK' /\ BegunOK'
  BY ListAssumption DEF ListInv, StateOK, BegunOK, ListMoves
<1>2. ListOrderOK'
  BY DEF ListInv, ListOrderOK, ListMoves, L!Over
<1>3. AloneOK'
  <2>1. ASSUME NEW p \in Updates
        PROVE  \/ \E q \in Updates \ {p} :
                    update'[q].pc # "idle" /\ <<q, p>> \notin prior'
               \/ Undisturbed(p)'
    <3>1. CASE p = r
      BY <3>1 DEF ListInv, AloneOK, ListMoves
    <3>2. CASE p # r
      <4>1. <<r, p>> \notin prior
        BY NotOverIsLatest DEF ListMoves, L!Over
      <4>2. QED  BY <3>2, <4>1 DEF ListMoves
    <3>3. QED  BY <3>1, <3>2
  <2>2. QED  BY <2>1 DEF AloneOK
<1>4. QED  BY <1>1, <1>2, <1>3 DEF ListInv, ListMoves

\* The call that stores a name answers for it.
LEMMA UpdateNameKeeps ==
  ASSUME ListInv, NEW r \in Updates, L!UpdateName(r)
  PROVE  ListInv'
<1>1. /\ update[r].pc = "name" /\ list \in L!Row /\ update[r].asked \in L!Row
      /\ update[r].read \in L!Row /\ update \in [Updates -> ListCall]
  BY DEF L!UpdateName, ListInv, StateOK, BegunOK
<1>2. /\ list' = [list EXCEPT !.name = L!Asked(r).name] /\ list' \in L!Row
      /\ list'.name = L!Asked(r).name /\ list'.members = list.members
  BY <1>1, RowExcept DEF L!UpdateName, L!Asked
<1>3. update' = [update EXCEPT ![r].pc = "members", ![r].answer = list']
  BY DEF L!UpdateName, L!Answer, L!AnswerOf
<1>4. ListMoves(r, "members") /\ update'[r].answer = list'
  <2>1. update'[r] = [update[r] EXCEPT !.pc = "members", !.answer = list']
    BY <1>1, <1>3
  <2>2. update'[r] \in ListCall
    BY <2>1, <1>1, <1>2 DEF ListCall
  <2>3. update' \in [Updates -> ListCall]
    BY <2>2, <1>1, <1>3
  <2>4. QED  BY <2>1, <2>3, <1>1, <1>2, <1>3 DEF ListMoves, L!UpdateName, ListCall
<1>5. NameOK'
  BY <1>1, <1>2, <1>4, NotOverIsLatest DEF NameOK, AnswersName, ListMoves, L!Asked, L!Over
<1>6. MembersOK'
  <2>1. PICK w \in Updates : AnswersMembers(w)
    BY ListAssumption, <1>1 DEF ListInv, MembersOK
  <2>2. w # r
    BY <2>1, <1>1 DEF AnswersMembers
  <2>3. AnswersMembers(w)'
    BY <2>1, <2>2, <1>1, <1>2, <1>4 DEF AnswersMembers, ListMoves, L!Asked
  <2>4. QED  BY <2>3 DEF MembersOK
<1>7. Undisturbed(r) => Undisturbed(r)'
  BY <1>1, <1>2, <1>4 DEF Undisturbed, ListMoves, L!Asked
<1>8. QED  BY <1>4, <1>5, <1>6, <1>7, MoveKeeps

\* One that asks for the name it read answers for it, if it came later.
LEMMA SameNameKeeps ==
  ASSUME ListInv, NEW r \in Updates, L!SameName(r)
  PROVE  ListInv'
<1>1. /\ update[r].pc = "name" /\ list \in L!Row /\ update[r].asked \in L!Row
      /\ update[r].read \in L!Row /\ update \in [Updates -> ListCall]
      /\ update[r].read.name = L!Asked(r).name
  BY DEF L!SameName, L!NameDiffers, ListInv, StateOK, BegunOK
<1>2. list' = list /\ update' = [update EXCEPT ![r].pc = "members"]
  BY DEF L!SameName
<1>3. ListMoves(r, "members") /\ update'[r].answer = update[r].answer
  <2>1. update'[r] = [update[r] EXCEPT !.pc = "members"]
    BY <1>1, <1>2
  <2>2. update'[r] \in ListCall
    BY <2>1, <1>1 DEF ListCall
  <2>3. update' \in [Updates -> ListCall]
    BY <2>2, <1>1, <1>2
  <2>4. QED  BY <2>1, <2>3, <1>1, <1>2 DEF ListMoves, L!SameName, ListCall
<1>4. NameOK'
  <2>1. PICK w \in Updates : AnswersName(w)
    BY ListAssumption, <1>1 DEF ListInv, NameOK
  <2>2. w # r
    BY <2>1, <1>1 DEF AnswersName
  <2>3. CASE <<w, r>> \in prior
    <3>1. AnswersName(r)'
      BY <2>1, <2>3, <1>1, <1>2, <1>3, NotOverIsLatest
      DEF AnswersName, ListMoves, L!Asked, L!Over
    <3>2. QED  BY <3>1 DEF NameOK
  <2>4. CASE <<w, r>> \notin prior
    <3>1. AnswersName(w)'
      BY <2>1, <2>2, <2>4, <1>2, <1>3 DEF AnswersName, ListMoves, L!Asked
    <3>2. QED  BY <3>1 DEF NameOK
  <2>5. QED  BY <2>3, <2>4
<1>5. MembersOK'
  <2>1. PICK w \in Updates : AnswersMembers(w)
    BY ListAssumption, <1>1 DEF ListInv, MembersOK
  <2>2. w # r
    BY <2>1, <1>1 DEF AnswersMembers
  <2>3. AnswersMembers(w)'
    BY <2>1, <2>2, <1>1, <1>2, <1>3 DEF AnswersMembers, ListMoves, L!Asked
  <2>4. QED  BY <2>3 DEF MembersOK
<1>6. Undisturbed(r) => Undisturbed(r)'
  BY <1>1, <1>2, <1>3 DEF Undisturbed, ListMoves, L!Asked
<1>7. QED  BY <1>3, <1>4, <1>5, <1>6, MoveKeeps

\* The same two for the members
LEMMA UpdateAllowedUsersKeeps ==
  ASSUME ListInv, NEW r \in Updates, L!UpdateAllowedUsers(r)
  PROVE  ListInv'
<1>1. /\ update[r].pc = "members" /\ list \in L!Row /\ update[r].asked \in L!Row
      /\ update[r].read \in L!Row /\ update \in [Updates -> ListCall]
  BY DEF L!UpdateAllowedUsers, ListInv, StateOK, BegunOK
<1>2. /\ list' = [list EXCEPT !.members = L!Asked(r).members] /\ list' \in L!Row
      /\ list'.members = L!Asked(r).members /\ list'.name = list.name
  BY <1>1, RowExcept DEF L!UpdateAllowedUsers, L!Asked
<1>3. update' = [update EXCEPT ![r].pc = "ok", ![r].answer = list']
  BY DEF L!UpdateAllowedUsers, L!Answer, L!AnswerOf
<1>4. ListMoves(r, "ok") /\ update'[r].answer = list'
  <2>1. update'[r] = [update[r] EXCEPT !.pc = "ok", !.answer = list']
    BY <1>1, <1>3
  <2>2. update'[r] \in ListCall
    BY <2>1, <1>1, <1>2 DEF ListCall
  <2>3. update' \in [Updates -> ListCall]
    BY <2>2, <1>1, <1>3
  <2>4. QED  BY <2>1, <2>3, <1>1, <1>2, <1>3 DEF ListMoves, L!UpdateAllowedUsers, ListCall
<1>5. NameOK'
  <2>1. PICK w \in Updates : AnswersName(w)
    BY ListAssumption, <1>1 DEF ListInv, NameOK
  <2>2. AnswersName(w)'
    BY <2>1, <1>1, <1>2, <1>4 DEF AnswersName, ListMoves, L!Asked
  <2>3. QED  BY <2>2 DEF NameOK
<1>6. MembersOK'
  BY <1>1, <1>2, <1>4, NotOverIsLatest
  DEF MembersOK, AnswersMembers, ListMoves, L!Asked, L!Over
<1>7. Undisturbed(r) => Undisturbed(r)'
  <2>1. ASSUME Undisturbed(r) PROVE list' = L!Asked(r)
    <3>1. list.name = L!Asked(r).name
      BY <1>1, <2>1 DEF Undisturbed
    <3>2. L!Asked(r) \in L!Row
      BY <1>1 DEF L!Asked
    <3>3. QED  BY <1>2, <3>1, <3>2, RowIs
  <2>2. /\ update'[r].pc = "ok" /\ update'[r].answer = list'
        /\ L!Asked(r)' = L!Asked(r)
    BY <1>4 DEF ListMoves, L!Asked
  <2>3. QED  BY <2>1, <2>2 DEF Undisturbed
<1>8. QED  BY <1>4, <1>5, <1>6, <1>7, MoveKeeps

\* UpdateAllowedUsers is not called when the members are those that were read.
LEMMA SameMembersKeeps ==
  ASSUME ListInv, NEW r \in Updates, L!SameMembers(r)
  PROVE  ListInv'
<1>1. /\ update[r].pc = "members" /\ list \in L!Row /\ update[r].asked \in L!Row
      /\ update[r].read \in L!Row /\ update \in [Updates -> ListCall]
      /\ update[r].read.members = L!Asked(r).members
  BY DEF L!SameMembers, L!MembersDiffer, ListInv, StateOK, BegunOK
<1>2. list' = list /\ update' = [update EXCEPT ![r].pc = "ok"]
  BY DEF L!SameMembers
<1>3. ListMoves(r, "ok") /\ update'[r].answer = update[r].answer
  <2>1. update'[r] = [update[r] EXCEPT !.pc = "ok"]
    BY <1>1, <1>2
  <2>2. update'[r] \in ListCall
    BY <2>1, <1>1 DEF ListCall
  <2>3. update' \in [Updates -> ListCall]
    BY <2>2, <1>1, <1>2
  <2>4. QED  BY <2>1, <2>3, <1>1, <1>2 DEF ListMoves, L!SameMembers, ListCall
<1>4. NameOK'
  <2>1. PICK w \in Updates : AnswersName(w)
    BY ListAssumption, <1>1 DEF ListInv, NameOK
  <2>2. AnswersName(w)'
    BY <2>1, <1>1, <1>2, <1>3 DEF AnswersName, ListMoves, L!Asked
  <2>3. QED  BY <2>2 DEF NameOK
<1>5. MembersOK'
  <2>1. PICK w \in Updates : AnswersMembers(w)
    BY ListAssumption, <1>1 DEF ListInv, MembersOK
  <2>2. w # r
    BY <2>1, <1>1 DEF AnswersMembers
  <2>3. CASE <<w, r>> \in prior
    <3>1. AnswersMembers(r)'
      BY <2>1, <2>3, <1>1, <1>2, <1>3, NotOverIsLatest
      DEF AnswersMembers, ListMoves, L!Asked, L!Over
    <3>2. QED  BY <3>1 DEF MembersOK
  <2>4. CASE <<w, r>> \notin prior
    <3>1. AnswersMembers(w)'
      BY <2>1, <2>2, <2>4, <1>2, <1>3 DEF AnswersMembers, ListMoves, L!Asked
    <3>2. QED  BY <3>1 DEF MembersOK
  <2>5. QED  BY <2>3, <2>4
<1>6. Undisturbed(r) => Undisturbed(r)'
  BY <1>1, <1>2, <1>3, RowIs DEF Undisturbed, ListMoves, L!Asked
<1>7. QED  BY <1>3, <1>4, <1>5, <1>6, MoveKeeps

\* A call that fails answers for nothing more, nor does it take over.
LEMMA UpdateFailsKeeps ==
  ASSUME ListInv, NEW r \in Updates, L!UpdateFails(r)
  PROVE  ListInv'
<1>1. /\ update[r].pc \in {"name", "members"} /\ list \in L!Row
      /\ update[r].asked \in L!Row /\ update \in [Updates -> ListCall]
  BY DEF L!UpdateFails, ListInv, StateOK, BegunOK
<1>2. list' = list /\ update' = [update EXCEPT ![r].pc = "err"]
  BY DEF L!UpdateFails
<1>3. ListMoves(r, "err")
  <2>1. update'[r] = [update[r] EXCEPT !.pc = "err"]
    BY <1>1, <1>2
  <2>2. update'[r] \in ListCall
    BY <2>1, <1>1 DEF ListCall
  <2>3. update' \in [Updates -> ListCall]
    BY <2>2, <1>1, <1>2
  <2>4. QED  BY <2>1, <2>3, <1>1, <1>2 DEF ListMoves, L!UpdateFails, ListCall
<1>4. NameOK'
  <2>1. PICK w \in Updates : AnswersName(w)
    BY ListAssumption, <1>1 DEF ListInv, NameOK
  <2>2. AnswersName(w)'
    BY <2>1, <1>1, <1>2, <1>3 DEF AnswersName, ListMoves, L!Asked
  <2>3. QED  BY <2>2 DEF NameOK
<1>5. MembersOK'
  <2>1. PICK w \in Updates : AnswersMembers(w)
    BY ListAssumption, <1>1 DEF ListInv, MembersOK
  <2>2. w # r
    BY <2>1, <1>1 DEF AnswersMembers
  <2>3. AnswersMembers(w)'
    BY <2>1, <2>2, <1>1, <1>2, <1>3 DEF AnswersMembers, ListMoves, L!Asked
  <2>4. QED  BY <2>3 DEF MembersOK
<1>6. Undisturbed(r)'
  BY <1>3 DEF Undisturbed, ListMoves
<1>7. QED  BY <1>3, <1>4, <1>5, <1>6, MoveKeeps

\* A stutter changes nothing.
LEMMA StutterKeeps ==
  ASSUME ListInv, UNCHANGED L!vars
  PROVE  ListInv'
  BY DEF ListInv, StateOK, BegunOK, ListOrderOK, NameOK, MembersOK, AloneOK,
     AnswersName, AnswersMembers, Undisturbed, L!Asked, L!Over, L!vars

\* Every step keeps who answers for the columns.
LEMMA ListInvNext ==
  ASSUME ListInv, [L!Next]_(L!vars)
  PROVE  ListInv'
<1>1. CASE UNCHANGED L!vars
  BY <1>1, StutterKeeps
<1>2. CASE L!Next
  <2>1. PICK r \in Updates :
          \/ \E asked \in L!Row : L!CreateList(r, asked) \/ L!UpdateList(r, asked)
          \/ L!UpdateName(r) \/ L!SameName(r)
          \/ L!UpdateAllowedUsers(r) \/ L!SameMembers(r)
          \/ L!UpdateFails(r)
    BY <1>2 DEF L!Next
  <2>2. CASE \E asked \in L!Row : L!CreateList(r, asked) \/ L!UpdateList(r, asked)
    <3>1. PICK asked \in L!Row : L!CreateList(r, asked) \/ L!UpdateList(r, asked)
      BY <2>2
    <3>2. QED  BY <3>1, ListCreateKeeps, UpdateKeeps
  <2>3. CASE L!UpdateName(r) \/ L!SameName(r)
    BY <2>3, UpdateNameKeeps, SameNameKeeps
  <2>4. CASE L!UpdateAllowedUsers(r) \/ L!SameMembers(r)
    BY <2>4, UpdateAllowedUsersKeeps, SameMembersKeeps
  <2>5. CASE L!UpdateFails(r)
    BY <2>5, UpdateFailsKeeps
  <2>6. QED  BY <2>1, <2>2, <2>3, <2>4, <2>5
<1>3. QED  BY <1>1, <1>2
---------------------------------------------------------------------------
\* When no call is on its way, who answers for a column is one of the latest.
LEMMA InvGivesColumns == ListInv => L!ColumnsOfLatest
<1> SUFFICES ASSUME ListInv, list # None,
                    \A r \in Updates : update[r].pc = "idle" \/ L!Over(r)
             PROVE  /\ \E r \in L!Latest : list.name = L!Asked(r).name
                    /\ \E r \in L!Latest : list.members = L!Asked(r).members
                    /\ \A r \in Updates :
                         (/\ update[r].pc = "ok"
                          /\ \A q \in Updates \ {r} :
                               update[q].pc = "idle" \/ <<q, r>> \in prior)
                         => list = L!Asked(r) /\ update[r].answer = L!Asked(r)
  BY DEF L!ColumnsOfLatest
<1>1. \E r \in L!Latest : list.name = L!Asked(r).name
  <2>1. PICK w \in Updates : AnswersName(w)
    BY DEF ListInv, NameOK
  <2>2. w \in L!Latest
    BY <2>1 DEF AnswersName, L!Latest, L!Over
  <2>3. QED  BY <2>1, <2>2 DEF AnswersName
<1>2. \E r \in L!Latest : list.members = L!Asked(r).members
  <2>1. PICK w \in Updates : AnswersMembers(w)
    BY DEF ListInv, MembersOK
  <2>2. w \in L!Latest
    BY <2>1 DEF AnswersMembers, L!Latest, L!Over
  <2>3. QED  BY <2>1, <2>2 DEF AnswersMembers
<1>3. ASSUME NEW r \in Updates, update[r].pc = "ok",
             \A q \in Updates \ {r} : update[q].pc = "idle" \/ <<q, r>> \in prior
      PROVE  list = L!Asked(r) /\ update[r].answer = L!Asked(r)
  BY <1>3 DEF ListInv, AloneOK, Undisturbed
<1>4. QED  BY <1>1, <1>2, <1>3
---------------------------------------------------------------------------
(* Mixes: the rows a user is left with.  A call that has passed its DELETE *)
(* has removed the rows of every call that was over when it began, and     *)
(* those calls create no more.                                             *)

Past == {"trending", "create", "ok"}

\* The calls, and the rows each has created
CallsOK ==
  /\ call \in [Calls -> [pc : {"idle", "delete", "trending", "create", "ok",
                               "err"}, next : Nat]]
  /\ answered \in [Calls -> SUBSET (Calls \X Nat)]
  /\ \A c \in Calls : call[c].pc \in {"idle", "delete"} => answered[c] = {}

\* Who was over before whom
MixesOrderOK ==
  \A b, c \in Calls :
    <<b, c>> \in preceded => M!Ended(b) /\ call[c].pc # "idle"

\* Whose rows there may be
RowsOK ==
  \A x \in mixes :
    /\ x[1] \in Calls /\ x \in answered[x[1]]
    /\ \A c \in Calls : <<x[1], c>> \in preceded =>
         call[c].pc \notin Past /\ answered[c] = {}

\* What a call created is there unless another call, not over before it, has
\* begun.
KeptOK ==
  \A c \in Calls :
    \/ answered[c] \subseteq mixes
    \/ \E d \in Calls \ {c} : call[d].pc # "idle" /\ <<d, c>> \notin preceded

MixesInv == CallsOK /\ MixesOrderOK /\ RowsOK /\ KeptOK
---------------------------------------------------------------------------
\* There are no rows at first.
LEMMA MixesInvInit == M!Init => MixesInv
  BY DEF M!Init, MixesInv, CallsOK, MixesOrderOK, RowsOK, KeptOK

\* A call begins: those that are over precede it.
LEMMA GetMixesKeeps ==
  ASSUME MixesInv, NEW c \in Calls, M!GetMixes(c) PROVE MixesInv'
<1> USE DEF M!GetMixes, M!Goto, MixesInv, M!Ended
<1>1. CallsOK'
  BY DEF CallsOK
<1>2. MixesOrderOK'
  BY DEF CallsOK, MixesOrderOK
<1>3. RowsOK'
  BY DEF CallsOK, RowsOK, Past
<1>4. KeptOK'
  BY DEF CallsOK, KeptOK
<1>5. QED  BY <1>1, <1>2, <1>3, <1>4

\* DELETE removes the rows of every call.
LEMMA DeleteKeeps ==
  ASSUME MixesInv, NEW c \in Calls, M!Delete(c) PROVE MixesInv'
<1> USE DEF M!Delete, M!Goto, M!DeleteUserMixes, MixesInv, M!Ended
<1>1. CallsOK'
  BY DEF CallsOK
<1>2. MixesOrderOK'
  BY DEF CallsOK, MixesOrderOK
<1>3. RowsOK'
  BY DEF RowsOK
<1>4. KeptOK'
  BY DEF CallsOK, MixesOrderOK, KeptOK
<1>5. QED  BY <1>1, <1>2, <1>3, <1>4

\* A row is created by a call whose DELETE is done.
LEMMA MixesCreateKeeps ==
  ASSUME MixesInv, NEW c \in Calls, M!CreateUserMix(c) PROVE MixesInv'
<1> USE DEF M!CreateUserMix, MixesInv, M!Ended
<1>1. CallsOK'
  BY DEF CallsOK
<1>2. MixesOrderOK'
  BY DEF CallsOK, MixesOrderOK
<1>3. RowsOK'
  BY DEF CallsOK, MixesOrderOK, RowsOK, Past
<1>4. KeptOK'
  <2>1. \A b \in Calls : call[b].pc # "idle" => call'[b].pc # "idle"
    BY DEF CallsOK
  <2>2. \A b \in Calls : answered[b] \subseteq mixes => answered'[b] \subseteq mixes'
    BY DEF CallsOK
  <2>3. QED  BY <2>1, <2>2 DEF KeptOK
<1>5. QED  BY <1>1, <1>2, <1>3, <1>4

\* The steps that only move a call on.
LEMMA OtherStepKeeps ==
  ASSUME MixesInv, NEW c \in Calls, M!GetTrending(c) \/ M!Return(c) \/ M!CallFails(c)
  PROVE  MixesInv'
<1> USE DEF M!GetTrending, M!Return, M!CallFails, M!Goto, MixesInv, M!Ended
<1>1. CallsOK'
  BY DEF CallsOK
<1>2. MixesOrderOK'
  BY DEF CallsOK, MixesOrderOK
<1>3. RowsOK'
  BY DEF CallsOK, RowsOK, Past
<1>4. KeptOK'
  <2>1. \A b \in Calls : call[b].pc # "idle" => call'[b].pc # "idle"
    BY DEF CallsOK
  <2>2. answered' = answered /\ mixes' = mixes /\ preceded' = preceded
    OBVIOUS
  <2>3. QED  BY <2>1, <2>2 DEF KeptOK
<1>5. QED  BY <1>1, <1>2, <1>3, <1>4

\* Every step keeps it.
LEMMA MixesInvNext == MixesInv /\ [M!Next]_(M!vars) => MixesInv'
<1> SUFFICES ASSUME MixesInv, [M!Next]_(M!vars) PROVE MixesInv'
  OBVIOUS
<1>1. CASE M!Next
  BY <1>1, GetMixesKeeps, DeleteKeeps, MixesCreateKeeps, OtherStepKeeps DEF M!Next
<1>2. CASE UNCHANGED M!vars
  BY <1>2 DEF M!vars, MixesInv, CallsOK, MixesOrderOK, RowsOK, KeptOK, M!Ended
<1>3. QED  BY <1>1, <1>2

\* Rows of two calls are left only if neither was over before the other
\* began.
LEMMA InvGivesMixes == MixesInv => M!MixesOfOneCall
<1> SUFFICES ASSUME MixesInv PROVE M!MixesOfOneCall
  OBVIOUS
<1>1. ASSUME NEW x \in mixes, NEW y \in mixes, <<x[1], y[1]>> \in preceded
      PROVE  FALSE
  BY <1>1 DEF MixesInv, RowsOK
<1>2. ASSUME NEW c \in Calls, call[c].pc = "ok",
             \A b \in Calls \ {c} : call[b].pc = "idle" \/ <<b, c>> \in preceded
      PROVE  mixes = answered[c]
  <2>1. answered[c] \subseteq mixes
    BY <1>2 DEF MixesInv, KeptOK
  <2>2. ASSUME NEW x \in mixes PROVE x \in answered[c]
    BY <1>2, <2>2 DEF MixesInv, CallsOK, RowsOK, Past
  <2>3. QED  BY <2>1, <2>2
<1>3. QED  BY <1>1, <1>2 DEF M!MixesOfOneCall
---------------------------------------------------------------------------
(* The three side by side.                                                 *)

RowsInv == IInv /\ ListInv /\ MixesInv

\* A step of one of them leaves what the others know.
LEMMA RowsStep ==
  ASSUME RowsInv, [MCNext]_<<vars, listVars, mixesVars>>
  PROVE  RowsInv'
<1>1. [Next]_vars
  BY DEF MCNext
<1>2. [L!Next]_(L!vars)
  BY DEF MCNext, listVars, L!vars
<1>3. [M!Next]_(M!vars)
  BY DEF MCNext, mixesVars, M!vars
<1>4. QED
  BY <1>1, <1>2, <1>3, IInvStep, ListInvNext, MixesInvNext DEF RowsInv

\* What the three know holds throughout.
LEMMA RowsInvCorrect == MCSpec => []RowsInv
<1>1. MCInit => RowsInv
  BY IInvInit, ListInvInit, MixesInvInit DEF MCInit, RowsInv
<1>2. QED  BY <1>1, RowsStep, PTL DEF MCSpec

\* EmailSignin and ChangePassword (auth.go) compare the password and act on the
\* answer later: whatever changes in between, a session is opened and a
\* password is changed without a token only for one stored during the call.
THEOREM KnewThePasswordCorrect == MCSpec => []KnewThePassword
<1>1. RowsInv => KnewThePassword
  BY DEF RowsInv, IInv, Seen, KnewThePassword
<1>2. QED  BY <1>1, RowsInvCorrect, PTL

\* When all calls of auth.go about a user are over, the password is that of one
\* which no later one replaced, also when a statement after the UPDATE failed.
THEOREM LastChangeHoldsCorrect == MCSpec => []LastChangeHolds
<1>1. RowsInv => LastChangeHolds
  BY DEF RowsInv, IInv, LastInv, LastChangeHolds
<1>2. QED  BY <1>1, RowsInvCorrect, PTL

\* UpdateList of backend/pkg/service/v1/chat.go, for any calls, names and
\* members: when no call is on its way, the name and the members of the list
\* each come from a call that no successful one wholly followed, and a call
\* that no other overlapped left and answered what it asked for.
THEOREM ColumnsOfLatestCorrect == MCSpec => []ColumnsOfLatest
<1>1. RowsInv => ColumnsOfLatest
  BY InvGivesColumns DEF RowsInv, ColumnsOfLatest
<1>2. QED  BY <1>1, RowsInvCorrect, PTL

\* However many calls of GetMixes interleave and fail, rows of two calls are
\* left only if neither was over before the other began, and a call that ran
\* alone leaves exactly what it answered (mixes.go).
THEOREM MixesOfOneCallCorrect == MCSpec => []MixesOfOneCall
<1>1. RowsInv => MixesOfOneCall
  BY InvGivesMixes DEF RowsInv, MixesOfOneCall
<1>2. QED  BY <1>1, RowsInvCorrect, PTL

\* The same of each of the three on its own
THEOREM EachOnItsOwn ==
  /\ Spec => [](KnewThePassword /\ LastChangeHolds)
  /\ L!Spec => []L!ColumnsOfLatest
  /\ M!Spec => []M!MixesOfOneCall
<1>1. IInv => KnewThePassword /\ LastChangeHolds
  BY DEF IInv, Seen, LastInv, KnewThePassword, LastChangeHolds
<1>2. Spec => [](KnewThePassword /\ LastChangeHolds)
  BY <1>1, IInvInit, IInvStep, PTL DEF Spec
<1>3. L!Spec => []L!ColumnsOfLatest
  <2>1. ListInv /\ [L!Next]_(L!vars) => ListInv'
    BY ListInvNext
  <2>2. QED  BY <2>1, ListInvInit, InvGivesColumns, PTL DEF L!Spec
<1>4. M!Spec => []M!MixesOfOneCall
  BY MixesInvInit, MixesInvNext, InvGivesMixes, PTL DEF M!Spec
<1>5. QED  BY <1>2, <1>3, <1>4
=============================================================================
