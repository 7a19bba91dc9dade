--------------------------- MODULE SessionProofs ---------------------------
(***************************************************************************)
(* Theorems about Session, for any sets of session ids, users, requests    *)
(* and sign-ins: the commands of concurrent requests implement             *)
(* Authorization, and what sign-outs and renewals leave.  The argument     *)
(* rests on one fact, that a session which was deleted or has expired      *)
(* stays so (Closed): SetNew stores only ids that were never stored.       *)
(***************************************************************************)
EXTENDS Session, TLAPS

\* Where authorize still presents the session of its cookie, where it renews
\* it, where it has not answered yet, and where a sign-out has deleted it
Presenting == {"has", "ttl", "get", "del", "srem", "sadd", "set"}
Renewing == {"del", "srem", "sadd", "set"}
Deciding == Presenting \cup {"idle", "extract", "failing"}
Deleted == {"out_members", "out_check", "out_srem"}

Closed(s) == owner[s] # None /\ ~Exists(s)

\* What a request with a cookie knows of its session: it is the cookie's or,
\* when that has been renewed, one of the same user.
CookieOK(r) ==
  /\ req[r].pc = "idle" => req[r].cookie = None
  /\ req[r].pc # "idle" =>
       /\ req[r].cookie \in Sids /\ owner[req[r].cookie] # None
       /\ req[r].sid \in Sids /\ owner[req[r].sid] = owner[req[r].cookie]
       /\ req[r].sid = req[r].cookie \/ ~Exists(req[r].cookie)
  /\ req[r].pc \in Presenting => req[r].sid = req[r].cookie
  /\ req[r].pc \in Renewing =>
       req[r].user = owner[req[r].sid] /\ req[r].sid \in renewed
  /\ req[r].pc \in Renewing \ {"del"} => ~Exists(req[r].sid)
  /\ req[r].pc \in Deleted \/ (req[r].kind = "signout" /\ req[r].pc = "ok")
       => ~Exists(req[r].sid)
  /\ req[r].pc \in Deciding => answer[r] = None

\* A sign-in has a user, and no session until it ends.
SignInOK(i) ==
  /\ req[i].pc \in {"idle", "sadd", "set", "failing", "ok", "ko"}
  /\ req[i].pc \in {"sadd", "set"} => req[i].user \in Users
  /\ req[i].pc \in {"idle", "sadd", "set"} => \A s \in Sids : origin[s] # i

\* The id that is about to be stored is nobody else's.
NewOK(r) ==
  req[r].pc = "set" =>
    /\ req[r].new \in used /\ owner[req[r].new] = None
    /\ \A q \in Callers \ {r} : req[q].pc = "set" => req[q].new # req[r].new

IssuedOK ==
  \A s \in Sids : owner[s] # None => s \in used /\ origin[s] \in SignIns

Base ==
  /\ TypeOK
  /\ \A r \in Requests : CookieOK(r)
  /\ \A i \in SignIns : SignInOK(i)
  /\ \A r \in Callers : NewOK(r)
  /\ IssuedOK
---------------------------------------------------------------------------
(* Steps of one caller.                                                    *)

\* A step in which r's request becomes x
Becomes(r, x) ==
  /\ req' \in [Callers -> Request]
  /\ req'[r] = x
  /\ \A q \in Callers \ {r} : req'[q] = req[q]

\* Goto moves the program counter and nothing else.
LEMMA GotoIs ==
  ASSUME TypeOK, NEW r \in Callers, NEW pc \in PC, Goto(r, pc)
  PROVE  /\ Becomes(r, req'[r])
         /\ req'[r].pc = pc /\ req'[r].kind = req[r].kind
         /\ req'[r].cookie = req[r].cookie /\ req'[r].sid = req[r].sid
         /\ req'[r].new = req[r].new /\ req'[r].user = req[r].user
         /\ req'[r].todo = req[r].todo
<1>1. req[r] \in Request /\ req \in [Callers -> Request]
  BY DEF TypeOK
<1>2. req' = [req EXCEPT ![r] = [req[r] EXCEPT !.pc = pc]]
  BY <1>1 DEF Goto
<1>3. [req[r] EXCEPT !.pc = pc] \in Request
  BY <1>1 DEF Request
<1>4. req' \in [Callers -> Request] /\ req'[r] = [req[r] EXCEPT !.pc = pc]
      /\ \A q \in Callers \ {r} : req'[q] = req[q]
  BY <1>1, <1>2, <1>3
<1>5. QED  BY <1>1, <1>4 DEF Becomes, Request

\* The same of the steps that set other fields too
SetsUser(r, pc, u) ==
  req' = [req EXCEPT ![r].pc = pc, ![r].user = u]

\* GET of a renewal or of Delete, and a sign-in, note the user.
LEMMA SetsUserIs ==
  ASSUME TypeOK, NEW r \in Callers, NEW pc \in PC, NEW u \in Users,
         SetsUser(r, pc, u)
  PROVE  /\ Becomes(r, req'[r])
         /\ req'[r].pc = pc /\ req'[r].kind = req[r].kind
         /\ req'[r].cookie = req[r].cookie /\ req'[r].sid = req[r].sid
         /\ req'[r].new = req[r].new /\ req'[r].user = u
         /\ req'[r].todo = req[r].todo
<1>1. req[r] \in Request /\ req \in [Callers -> Request]
  BY DEF TypeOK
<1>2. req'[r] = [req[r] EXCEPT !.pc = pc, !.user = u]
  BY <1>1 DEF SetsUser
<1>3. /\ req'[r].pc = pc /\ req'[r].kind = req[r].kind
      /\ req'[r].cookie = req[r].cookie /\ req'[r].sid = req[r].sid
      /\ req'[r].new = req[r].new /\ req'[r].user = u
      /\ req'[r].todo = req[r].todo
  BY <1>1, <1>2 DEF Request
<1>4. req'[r] \in Request
  BY <1>1, <1>2, <1>3 DEF Request
<1>5. Becomes(r, req'[r])
  BY <1>1, <1>4 DEF Becomes, SetsUser
<1>6. QED  BY <1>3, <1>5

SetsNew(r, pc, s) ==
  req' = [req EXCEPT ![r].pc = pc, ![r].new = s]

\* SADD notes the id that SET will store.
LEMMA SetsNewIs ==
  ASSUME TypeOK, NEW r \in Callers, NEW pc \in PC, NEW s \in Sids,
         SetsNew(r, pc, s)
  PROVE  /\ Becomes(r, req'[r])
         /\ req'[r].pc = pc /\ req'[r].kind = req[r].kind
         /\ req'[r].cookie = req[r].cookie /\ req'[r].sid = req[r].sid
         /\ req'[r].new = s /\ req'[r].user = req[r].user
         /\ req'[r].todo = req[r].todo
<1>1. req[r] \in Request /\ req \in [Callers -> Request]
  BY DEF TypeOK
<1>2. req'[r] = [req[r] EXCEPT !.pc = pc, !.new = s]
  BY <1>1 DEF SetsNew
<1>3. /\ req'[r].pc = pc /\ req'[r].kind = req[r].kind
      /\ req'[r].cookie = req[r].cookie /\ req'[r].sid = req[r].sid
      /\ req'[r].new = s /\ req'[r].user = req[r].user
      /\ req'[r].todo = req[r].todo
  BY <1>1, <1>2 DEF Request
<1>4. req'[r] \in Request
  BY <1>1, <1>2, <1>3 DEF Request
<1>5. Becomes(r, req'[r])
  BY <1>1, <1>4 DEF Becomes, SetsNew
<1>6. QED  BY <1>3, <1>5

SetsSid(r, pc, s) ==
  req' = [req EXCEPT ![r].pc = pc, ![r].sid = s]

\* SET leaves the request with the session it stored.
LEMMA SetsSidIs ==
  ASSUME TypeOK, NEW r \in Callers, NEW pc \in PC, NEW s \in Sids,
         SetsSid(r, pc, s)
  PROVE  /\ Becomes(r, req'[r])
         /\ req'[r].pc = pc /\ req'[r].kind = req[r].kind
         /\ req'[r].cookie = req[r].cookie /\ req'[r].sid = s
         /\ req'[r].new = req[r].new /\ req'[r].user = req[r].user
         /\ req'[r].todo = req[r].todo
<1>1. req[r] \in Request /\ req \in [Callers -> Request]
  BY DEF TypeOK
<1>2. req'[r] = [req[r] EXCEPT !.pc = pc, !.sid = s]
  BY <1>1 DEF SetsSid
<1>3. /\ req'[r].pc = pc /\ req'[r].kind = req[r].kind
      /\ req'[r].cookie = req[r].cookie /\ req'[r].sid = s
      /\ req'[r].new = req[r].new /\ req'[r].user = req[r].user
      /\ req'[r].todo = req[r].todo
  BY <1>1, <1>2 DEF Request
<1>4. req'[r] \in Request
  BY <1>1, <1>2, <1>3 DEF Request
<1>5. Becomes(r, req'[r])
  BY <1>1, <1>4 DEF Becomes, SetsSid
<1>6. QED  BY <1>3, <1>5

SetsTodo(r, pc, todo) ==
  req' = [req EXCEPT ![r].todo = todo, ![r].pc = pc]

\* Sync notes the ids it has to look for.
LEMMA SetsTodoIs ==
  ASSUME TypeOK, NEW r \in Callers, NEW pc \in PC, NEW todo \in SUBSET Sids,
         SetsTodo(r, pc, todo)
  PROVE  /\ Becomes(r, req'[r])
         /\ req'[r].pc = pc /\ req'[r].kind = req[r].kind
         /\ req'[r].cookie = req[r].cookie /\ req'[r].sid = req[r].sid
         /\ req'[r].new = req[r].new /\ req'[r].user = req[r].user
         /\ req'[r].todo = todo
<1>1. req[r] \in Request /\ req \in [Callers -> Request]
  BY DEF TypeOK
<1>2. req'[r] = [req[r] EXCEPT !.todo = todo, !.pc = pc]
  BY <1>1 DEF SetsTodo
<1>3. /\ req'[r].pc = pc /\ req'[r].kind = req[r].kind
      /\ req'[r].cookie = req[r].cookie /\ req'[r].sid = req[r].sid
      /\ req'[r].new = req[r].new /\ req'[r].user = req[r].user
      /\ req'[r].todo = todo
  BY <1>1, <1>2 DEF Request
<1>4. req'[r] \in Request
  BY <1>1, <1>2, <1>3 DEF Request
<1>5. Becomes(r, req'[r])
  BY <1>1, <1>4 DEF Becomes, SetsTodo
<1>6. QED  BY <1>3, <1>5

SetsTodoNew(r, pc, todo, s) ==
  req' = [req EXCEPT ![r].todo = todo, ![r].pc = pc, ![r].new = s]

\* Sync notes the id it will take off the list.
LEMMA SetsTodoNewIs ==
  ASSUME TypeOK, NEW r \in Callers, NEW pc \in PC,
         NEW todo \in SUBSET Sids, NEW s \in Sids,
         SetsTodoNew(r, pc, todo, s)
  PROVE  /\ Becomes(r, req'[r])
         /\ req'[r].pc = pc /\ req'[r].kind = req[r].kind
         /\ req'[r].cookie = req[r].cookie /\ req'[r].sid = req[r].sid
         /\ req'[r].new = s /\ req'[r].user = req[r].user
         /\ req'[r].todo = todo
<1>1. req[r] \in Request /\ req \in [Callers -> Request]
  BY DEF TypeOK
<1>2. req'[r] = [req[r] EXCEPT !.todo = todo, !.pc = pc, !.new = s]
  BY <1>1 DEF SetsTodoNew
<1>3. /\ req'[r].pc = pc /\ req'[r].kind = req[r].kind
      /\ req'[r].cookie = req[r].cookie /\ req'[r].sid = req[r].sid
      /\ req'[r].new = s /\ req'[r].user = req[r].user
      /\ req'[r].todo = todo
  BY <1>1, <1>2 DEF Request
<1>4. req'[r] \in Request
  BY <1>1, <1>2, <1>3 DEF Request
<1>5. Becomes(r, req'[r])
  BY <1>1, <1>4 DEF Becomes, SetsTodoNew
<1>6. QED  BY <1>3, <1>5

SetsCookie(r, pc, kind, s) ==
  req' = [req EXCEPT ![r].pc = pc, ![r].kind = kind,
             ![r].cookie = s, ![r].sid = s]

\* A request arrives with a cookie.
LEMMA SetsCookieIs ==
  ASSUME TypeOK, NEW r \in Callers, NEW pc \in PC, NEW s \in Sids,
         NEW kind \in {"call", "signout"},
         SetsCookie(r, pc, kind, s)
  PROVE  /\ Becomes(r, req'[r])
         /\ req'[r].pc = pc /\ req'[r].kind = kind
         /\ req'[r].cookie = s /\ req'[r].sid = s
         /\ req'[r].new = req[r].new /\ req'[r].user = req[r].user
         /\ req'[r].todo = req[r].todo
<1>1. req[r] \in Request /\ req \in [Callers -> Request]
  BY DEF TypeOK
<1>2. req'[r] = [req[r] EXCEPT !.pc = pc, !.kind = kind, !.cookie = s, !.sid = s]
  BY <1>1 DEF SetsCookie
<1>3. /\ req'[r].pc = pc /\ req'[r].kind = kind
      /\ req'[r].cookie = s /\ req'[r].sid = s
      /\ req'[r].new = req[r].new /\ req'[r].user = req[r].user
      /\ req'[r].todo = req[r].todo
  BY <1>1, <1>2 DEF Request
<1>4. req'[r] \in Request
  BY <1>1, <1>2, <1>3 DEF Request
<1>5. Becomes(r, req'[r])
  BY <1>1, <1>4 DEF Becomes, SetsCookie
<1>6. QED  BY <1>3, <1>5
---------------------------------------------------------------------------
(* Base is inductive.                                                      *)

\* A step of r that stores no session; an id it is about to store is a new one.
LEMMA MoveKeeps ==
  ASSUME Base, TypeOK', NEW r \in Callers, Becomes(r, req'[r]),
         \A s \in Sids : user'[s] \in {user[s], None},
         owner' = owner, origin' = origin, used \subseteq used',
         renewed \subseteq renewed',
         req'[r].pc = "set" => req'[r].new \in used' \ used,
         \A q \in Requests \ {r} : answer'[q] = answer[q],
         r \in Requests => CookieOK(r)',
         r \in SignIns => SignInOK(r)'
  PROVE  Base'
<1>1. \A q \in Callers \ {r} : req'[q] = req[q]
  BY DEF Becomes
<1>2. ASSUME NEW q \in Requests PROVE CookieOK(q)'
  <2>1. CASE q # r
    <3>1. q \in Callers \ {r} /\ CookieOK(q)
      BY <2>1 DEF Base, Callers
    <3>2. req'[q] = req[q] /\ answer'[q] = answer[q] /\ owner' = owner
      BY <1>1, <2>1, <3>1
    <3>3. \A s \in Sids : user[s] = None => user'[s] = None
      BY DEF Exists
    <3>4. /\ req[q].pc = "idle" => req[q].cookie = None
          /\ req[q].pc # "idle" =>
               /\ req[q].cookie \in Sids /\ owner[req[q].cookie] # None
               /\ req[q].sid \in Sids /\ owner[req[q].sid] = owner[req[q].cookie]
               /\ req[q].sid = req[q].cookie \/ user'[req[q].cookie] = None
      BY <3>1, <3>3 DEF CookieOK, Exists
    <3>5. /\ req[q].pc \in Renewing =>
               req[q].user = owner[req[q].sid] /\ req[q].sid \in renewed'
          /\ req[q].pc \in Renewing \ {"del"} => user'[req[q].sid] = None
          /\ req[q].pc \in Deleted \/ (req[q].kind = "signout" /\ req[q].pc = "ok")
               => user'[req[q].sid] = None
      BY <3>1, <3>3, <3>4 DEF CookieOK, Renewing, Deleted, Exists
    <3>6. QED  BY <3>1, <3>2, <3>4, <3>5 DEF CookieOK, Exists
  <2>2. QED  BY <2>1
<1>3. ASSUME NEW i \in SignIns PROVE SignInOK(i)'
  <2>1. CASE i # r
    <3>1. i \in Callers \ {r} /\ SignInOK(i)
      BY <2>1 DEF Base, Callers
    <3>2. QED  BY <1>1, <2>1, <3>1 DEF SignInOK
  <2>2. QED  BY <2>1
<1>4. ASSUME NEW q \in Callers PROVE NewOK(q)'
  <2>1. CASE q = r
    <3>1. req'[r].pc = "set" =>
            /\ req'[r].new \in used' /\ owner[req'[r].new] = None
            /\ \A p \in Callers \ {r} : req[p].pc = "set" => req[p].new # req'[r].new
      BY DEF Base, NewOK, IssuedOK, TypeOK
    <3>2. QED  BY <1>1, <2>1, <3>1 DEF NewOK
  <2>2. CASE q # r
    <3>1. req'[q] = req[q] /\ NewOK(q)
      BY <1>1, <2>2 DEF Base
    <3>2. QED  BY <1>1, <2>2, <3>1 DEF NewOK
  <2>3. QED  BY <2>1, <2>2
<1>5. IssuedOK'
  BY DEF Base, IssuedOK
<1>6. QED  BY <1>2, <1>3, <1>4, <1>5 DEF Base

\* No session is stored when none is written.
LEMMA UserKept == user' = user => \A s \in Sids : user'[s] \in {user[s], None}
  OBVIOUS

\* A step that writes no session and no id, and types what it writes
LEMMA TypeKept ==
  ASSUME TypeOK, NEW r \in Callers, Becomes(r, req'[r]),
         UNCHANGED <<user, short, used, owner, origin>>,
         index' \subseteq Users \X Sids,
         answer' \in [Requests -> Users \cup {None, "refused"}],
         renewed' \subseteq Sids, forked' \subseteq SignIns,
         errors' \subseteq Requests, missed' \subseteq Sids
  PROVE  TypeOK'
  BY DEF TypeOK, Becomes, Exists

\* What the request r knows, by name
LEMMA RequestHas ==
  ASSUME Base, NEW r \in Requests
  PROVE  /\ r \in Callers /\ r \notin SignIns /\ CookieOK(r)
         /\ req[r] \in Request /\ TypeOK
  BY SessionAssumption DEF Base, Callers, TypeOK

\* A request that arrives carries a cookie that was once set.
LEMMA ArriveKeeps ==
  ASSUME Base, NEW r \in Requests, NEW s \in Sids,
         NEW kind \in {"call", "signout"}, Arrive(r, s, kind)
  PROVE  Base'
<1>1. /\ r \in Callers /\ r \notin SignIns /\ TypeOK /\ CookieOK(r)
      /\ "has" \in PC
  BY RequestHas DEF PC
<1>2. /\ Becomes(r, req'[r]) /\ req'[r].pc = "has" /\ req'[r].cookie = s
      /\ req'[r].sid = s
  <2>1. SetsCookie(r, "has", kind, s)
    BY DEF Arrive, SetsCookie
  <2>2. QED  BY <1>1, <2>1, SetsCookieIs
<1>3. TypeOK'
  BY <1>1, <1>2, TypeKept DEF Arrive, TypeOK, store, history
<1>4. CookieOK(r)'
  <2>1. req[r].pc = "idle" /\ owner[s] # None /\ owner' = owner /\ answer' = answer
    BY DEF Arrive, history
  <2>2. answer[r] = None
    BY <1>1, <2>1 DEF CookieOK, Deciding
  <2>3. QED
    BY <1>2, <2>1, <2>2 DEF CookieOK, Presenting, Renewing, Deleted, Deciding
<1>5. QED
  BY <1>1, <1>2, <1>3, <1>4, UserKept, MoveKeeps DEF Arrive, store, history

\* Steps of authorize and of SignOut that only move the request on
LEMMA GotoKeeps ==
  ASSUME Base, NEW r \in Requests,
         NEW pc \in {"ttl", "get", "extract", "ok", "out_get", "out_check",
                     "failing", "ko"},
         Goto(r, pc), UNCHANGED <<user, used, owner, origin>>,
         TypeOK', renewed' = renewed, req[r].pc # "idle",
         \A q \in Requests \ {r} : answer'[q] = answer[q],
         pc \in {"ttl", "get", "extract"} => req[r].pc \in {"has", "ttl"}
                                            /\ answer' = answer,
         pc = "out_check" => req[r].pc \in Deleted,
         pc = "failing" => req[r].pc \in Deciding /\ answer' = answer,
         pc = "ok" /\ req[r].kind = "signout" => req[r].pc \in Deleted
  PROVE  Base'
<1>1. /\ r \in Callers /\ r \notin SignIns /\ TypeOK /\ CookieOK(r) /\ pc \in PC
  BY RequestHas DEF PC
<1>2. /\ Becomes(r, req'[r]) /\ req'[r].pc = pc /\ req'[r].kind = req[r].kind
      /\ req'[r].cookie = req[r].cookie /\ req'[r].sid = req[r].sid
  BY <1>1, GotoIs
<1>3. CookieOK(r)'
  <2>1. user' = user /\ owner' = owner /\ renewed' = renewed
    OBVIOUS
  <2>2. /\ req[r].cookie \in Sids /\ owner[req[r].cookie] # None
        /\ req[r].sid \in Sids /\ owner[req[r].sid] = owner[req[r].cookie]
        /\ req[r].sid = req[r].cookie \/ ~Exists(req[r].cookie)
    BY <1>1 DEF CookieOK
  <2>3. pc \in {"ttl", "get"} => req[r].sid = req[r].cookie
    BY <1>1 DEF CookieOK, Presenting
  <2>4. pc \in Deleted \/ (req[r].kind = "signout" /\ pc = "ok")
          => ~Exists(req[r].sid)
    BY <1>1 DEF CookieOK, Deleted
  <2>5. pc \in Deciding => answer'[r] = None
    BY <1>1 DEF CookieOK, Deciding, Presenting
  <2>6. pc \notin Renewing /\ (pc \in Presenting => pc \in {"ttl", "get"})
    BY DEF Presenting, Renewing
  <2>7. QED
    BY <1>2, <2>1, <2>2, <2>3, <2>4, <2>5, <2>6 DEF CookieOK, Exists
<1>4. QED  BY <1>1, <1>2, <1>3, UserKept, MoveKeeps

\* An answer is one value more.
LEMMA AnswerIs ==
  ASSUME TypeOK, NEW r \in Requests, NEW a \in Users \cup {None, "refused"},
         answer' = [answer EXCEPT ![r] = a]
  PROVE  /\ answer' \in [Requests -> Users \cup {None, "refused"}]
         /\ answer'[r] = a /\ \A q \in Requests \ {r} : answer'[q] = answer[q]
  BY DEF TypeOK

\* HasSession, TTL, SREM of a renewal, GetUserBySID and a failed command
LEMMA AuthKeeps ==
  ASSUME Base, NEW r \in Requests,
         Has(r) \/ TTL(r) \/ Extract(r) \/ RenewSRem(r) \/ AuthFails(r)
  PROVE  Base'
<1>1. /\ r \in Callers /\ r \notin SignIns /\ TypeOK /\ CookieOK(r)
      /\ answer \in [Requests -> Users \cup {None, "refused"}]
  BY RequestHas DEF TypeOK
<1>2. ASSUME RefuseAuth(r), UNCHANGED <<user, short, used, owner, origin, index>>,
             renewed' = renewed, forked' = forked, missed' = missed,
             errors' \subseteq errors \cup {r}, req[r].pc # "idle"
      PROVE  Base'
  <2>1. Goto(r, "ko") /\ "ko" \in PC
    BY <1>2 DEF RefuseAuth, PC
  <2>2. /\ answer' \in [Requests -> Users \cup {None, "refused"}]
        /\ \A q \in Requests \ {r} : answer'[q] = answer[q]
    BY <1>1, <1>2, AnswerIs DEF RefuseAuth
  <2>3. TypeOK'
    BY <1>1, <1>2, <2>1, <2>2, GotoIs, TypeKept DEF TypeOK
  <2>4. QED  BY <1>2, <2>1, <2>2, <2>3, GotoKeeps
<1>3. CASE Has(r)
  <2>1. CASE Exists(req[r].sid) /\ Goto(r, "ttl") /\ UNCHANGED answer
    <3>1. TypeOK'
      BY <1>1, <1>3, <2>1, GotoIs, TypeKept DEF Has, TypeOK, store, history, PC
    <3>2. QED  BY <1>3, <2>1, <3>1, GotoKeeps DEF Has, store, history
  <2>2. QED  BY <1>2, <1>3, <2>1 DEF Has, store, history
<1>4. CASE TTL(r)
  <2>1. PICK pc \in {"get", "extract"} : Goto(r, pc)
    BY <1>4 DEF TTL
  <2>2. TypeOK'
    BY <1>1, <1>4, <2>1, GotoIs, TypeKept DEF TTL, TypeOK, store, history, PC
  <2>3. QED  BY <1>4, <2>1, <2>2, GotoKeeps DEF TTL, store, history
<1>5. CASE Extract(r)
  <2>1. CASE Exists(req[r].sid)
    <3>1. PICK pc \in {"out_get", "ok"} :
            Goto(r, pc) /\ (pc = "ok" => req[r].kind # "signout")
      BY <1>2, <1>5, <2>1 DEF Extract
    <3>2. answer' = [answer EXCEPT ![r] = user[req[r].sid]]
      BY <1>5, <2>1 DEF Extract
    <3>3. user[req[r].sid] \in Users
      BY <1>1, <1>5, <2>1 DEF CookieOK, Exists, TypeOK, Extract
    <3>4. /\ answer' \in [Requests -> Users \cup {None, "refused"}]
          /\ \A q \in Requests \ {r} : answer'[q] = answer[q]
      BY <1>1, <3>2, <3>3, AnswerIs
    <3>5. TypeOK'
      BY <1>1, <1>5, <3>1, <3>4, GotoIs, TypeKept
      DEF Extract, TypeOK, store, history, PC
    <3>6. QED
      BY <1>5, <3>1, <3>4, <3>5, GotoKeeps DEF Extract, store, history
  <2>2. QED  BY <1>2, <1>5, <2>1 DEF Extract, store, history
<1>6. CASE RenewSRem(r)
  <2>1. CASE Goto(r, "failing")
    <3>1. TypeOK'
      BY <1>1, <1>6, <2>1, GotoIs, TypeKept DEF RenewSRem, TypeOK, history, PC
    <3>2. QED
      BY <1>6, <2>1, <3>1, GotoKeeps DEF RenewSRem, history, Deciding, Presenting
  <2>2. CASE Goto(r, "sadd")
    <3>1. /\ Becomes(r, req'[r]) /\ req'[r].pc = "sadd"
          /\ req'[r].cookie = req[r].cookie /\ req'[r].sid = req[r].sid
          /\ req'[r].user = req[r].user
      BY <1>1, <2>2, GotoIs DEF PC
    <3>2. TypeOK'
      BY <1>1, <1>6, <3>1, TypeKept DEF RenewSRem, TypeOK, history
    <3>3. CookieOK(r)'
      <4>1. req[r].pc = "srem" /\ UNCHANGED <<user, history, answer>>
        BY <1>6 DEF RenewSRem
      <4>2. QED
        BY <1>1, <3>1, <4>1 DEF CookieOK, Presenting, Renewing, Deleted, Deciding,
           Exists, history
    <3>4. QED
      BY <1>1, <1>6, <3>1, <3>2, <3>3, UserKept, MoveKeeps DEF RenewSRem, history
  <2>3. QED  BY <1>6, <2>1, <2>2 DEF RenewSRem
<1>7. CASE AuthFails(r)
  BY <1>1, <1>2, <1>7 DEF AuthFails, store
<1>8. QED  BY <1>3, <1>4, <1>5, <1>6, <1>7

\* GET of a renewal reads the user the session was set for.
LEMMA RenewGetKeeps ==
  ASSUME Base, NEW r \in Requests, RenewGet(r)
  PROVE  Base'
<1>1. /\ r \in Callers /\ r \notin SignIns /\ TypeOK /\ CookieOK(r)
      /\ answer \in [Requests -> Users \cup {None, "refused"}]
      /\ req[r].pc = "get"
  BY RequestHas DEF TypeOK, RenewGet
<1>2. PICK s \in Sids : s = req[r].sid
  BY <1>1 DEF CookieOK
<1>3. CASE Exists(s)
  <2>1. user[s] \in Users /\ user[s] = owner[s] /\ origin[s] \in SignIns
    BY <1>1, <1>3 DEF Exists, TypeOK, Base, IssuedOK
  <2>2. /\ SetsUser(r, "del", user[s]) /\ renewed' = renewed \cup {s}
        /\ forked' \subseteq forked \cup {origin[s]}
        /\ UNCHANGED <<user, short, index, used, owner, origin, errors, missed,
                      answer>>
    BY <1>2, <1>3 DEF RenewGet, SetsUser, store
  <2>3. /\ Becomes(r, req'[r]) /\ req'[r].pc = "del"
        /\ req'[r].cookie = req[r].cookie /\ req'[r].sid = s
        /\ req'[r].user = user[s]
    BY <1>1, <1>2, <2>1, <2>2, SetsUserIs DEF PC
  <2>4. TypeOK'
    BY <1>1, <2>1, <2>2, <2>3, TypeKept DEF TypeOK
  <2>5. CookieOK(r)'
    BY <1>1, <1>2, <2>1, <2>2, <2>3
    DEF CookieOK, Presenting, Renewing, Deleted, Deciding, Exists
  <2>6. QED  BY <1>1, <2>2, <2>3, <2>4, <2>5, UserKept, MoveKeeps
<1>4. CASE ~Exists(s)
  <2>1. /\ RefuseAuth(r)
        /\ UNCHANGED <<user, short, index, used, history>>
    BY <1>2, <1>4 DEF RenewGet, store, history
  <2>2. Goto(r, "ko") /\ "ko" \in PC
    BY <2>1 DEF RefuseAuth, PC
  <2>3. /\ answer' \in [Requests -> Users \cup {None, "refused"}]
        /\ \A q \in Requests \ {r} : answer'[q] = answer[q]
    BY <1>1, <2>1, AnswerIs DEF RefuseAuth
  <2>4. TypeOK'
    BY <1>1, <2>1, <2>2, <2>3, GotoIs, TypeKept DEF TypeOK, history
  <2>5. QED  BY <1>1, <2>1, <2>2, <2>3, <2>4, GotoKeeps DEF history
<1>5. QED  BY <1>3, <1>4

\* The sign-ins of a caller, and what it is about to set
LEMMA CallerHas ==
  ASSUME Base, NEW r \in Callers
  PROVE  /\ r \in SignIns \/ r \in Requests
         /\ r \in SignIns => r \notin Requests /\ SignInOK(r)
         /\ r \in Requests => CookieOK(r)
         /\ TypeOK /\ req[r] \in Request
         /\ req[r].pc \in {"sadd", "set"} => req[r].user \in Users
<1>1. /\ r \in SignIns \/ r \in Requests
      /\ r \in SignIns => r \notin Requests /\ SignInOK(r)
      /\ r \in Requests => CookieOK(r)
      /\ TypeOK /\ req[r] \in Request
  BY SessionAssumption DEF Base, Callers, TypeOK
<1>2. CASE r \in SignIns
  BY <1>1, <1>2 DEF SignInOK
<1>3. CASE r \in Requests
  <2>1. req[r].pc \in {"sadd", "set"} =>
          /\ req[r].sid \in Sids /\ owner[req[r].sid] # None
          /\ req[r].user = owner[req[r].sid]
    BY <1>1, <1>3 DEF CookieOK, Renewing
  <2>2. owner \in [Sids -> Users \cup {None}]
    BY <1>1 DEF TypeOK
  <2>3. QED  BY <1>1, <2>1, <2>2
<1>4. QED  BY <1>1, <1>2, <1>3

\* A sign-in goes on to SetNew with its user.
LEMMA SignInKeeps ==
  ASSUME Base, NEW i \in SignIns, NEW u \in Users, SignIn(i, u)
  PROVE  Base'
<1>1. i \in Callers /\ i \notin Requests /\ SignInOK(i) /\ TypeOK /\ "sadd" \in PC
  BY CallerHas DEF Callers, PC
<1>2. SetsUser(i, "sadd", u)
  BY DEF SignIn, SetsUser
<1>3. Becomes(i, req'[i]) /\ req'[i].pc = "sadd" /\ req'[i].user = u
  BY <1>1, <1>2, SetsUserIs
<1>4. TypeOK'
  BY <1>1, <1>3, TypeKept DEF SignIn, TypeOK, store, history
<1>5. SignInOK(i)'
  BY <1>1, <1>3 DEF SignIn, SignInOK, history
<1>6. QED
  BY <1>1, <1>3, <1>4, <1>5, UserKept, MoveKeeps DEF SignIn, store, history

\* A command of a sign-in returns an error.
LEMMA SignInFailsKeeps ==
  ASSUME Base, NEW i \in SignIns, AuthFails(i)
  PROVE  Base'
<1>1. i \in Callers /\ i \notin Requests /\ SignInOK(i) /\ TypeOK
  BY CallerHas DEF Callers
<1>2. Becomes(i, req'[i]) /\ req'[i].pc = "ko"
  BY <1>1, GotoIs DEF AuthFails, PC
<1>3. TypeOK'
  BY <1>1, <1>2, TypeKept DEF AuthFails, TypeOK, store
<1>4. SignInOK(i)'
  BY <1>2 DEF SignInOK
<1>5. QED
  BY <1>1, <1>2, <1>3, <1>4, UserKept, MoveKeeps DEF AuthFails, store

\* SADD lists an id that no other request is about to store.
LEMMA SetNewAddKeeps ==
  ASSUME Base, NEW r \in Callers, NEW s \in Sids, SetNewAdd(r, s)
  PROVE  Base'
<1>1. /\ r \in SignIns \/ r \in Requests
      /\ r \in SignIns => r \notin Requests /\ SignInOK(r)
      /\ r \in Requests => CookieOK(r)
      /\ TypeOK /\ req[r] \in Request /\ req[r].user \in Users
      /\ req[r].pc = "sadd"
  BY CallerHas DEF SetNewAdd
<1>2. /\ s \notin used /\ used' = used \cup {s}
      /\ index' = index \cup {<<req[r].user, s>>}
      /\ UNCHANGED <<user, short, history, answer>>
  BY DEF SetNewAdd
<1>3. PICK pc \in {"set", "failing"} :
        /\ Becomes(r, req'[r]) /\ req'[r].pc = pc
        /\ req'[r].cookie = req[r].cookie /\ req'[r].sid = req[r].sid
        /\ req'[r].user = req[r].user
        /\ pc = "set" => req'[r].new = s
  <2>1. CASE Goto(r, "failing")
    BY <1>1, <2>1, GotoIs DEF PC
  <2>2. CASE SetsNew(r, "set", s)
    BY <1>1, <2>2, SetsNewIs DEF PC
  <2>3. QED  BY <2>1, <2>2 DEF SetNewAdd, SetsNew
<1>4. TypeOK'
  <2>1. req' \in [Callers -> Request]
    BY <1>3 DEF Becomes
  <2>2. index' \subseteq Users \X Sids /\ used' \subseteq Sids
    BY <1>1, <1>2 DEF TypeOK
  <2>3. QED  BY <1>1, <1>2, <2>1, <2>2 DEF TypeOK, Exists, history
<1>5. r \in Requests => CookieOK(r)'
  BY <1>1, <1>2, <1>3
  DEF CookieOK, Presenting, Renewing, Deleted, Deciding, Exists, history
<1>6. r \in SignIns => SignInOK(r)'
  BY <1>1, <1>2, <1>3 DEF SignInOK, history
<1>7. QED
  BY <1>2, <1>3, <1>4, <1>5, <1>6, UserKept, MoveKeeps DEF history

\* SET stores a session nobody's cookie holds, so no closed one reopens.
LEMMA SetNewSetKeeps ==
  ASSUME Base, NEW r \in Callers, SetNewSet(r)
  PROVE  Base'
<1>1. /\ r \in SignIns \/ r \in Requests
      /\ r \in SignIns => r \notin Requests /\ SignInOK(r)
      /\ r \in Requests => CookieOK(r)
      /\ TypeOK /\ req[r] \in Request /\ req[r].user \in Users
      /\ req[r].pc = "set" /\ NewOK(r)
  BY CallerHas DEF SetNewSet, Base
<1>2. PICK s \in Sids : s = req[r].new
  BY <1>1 DEF NewOK, TypeOK
<1>3. /\ s \in used /\ owner[s] = None
      /\ \A q \in Callers \ {r} : req[q].pc = "set" => req[q].new # s
  BY <1>1, <1>2 DEF NewOK
<1>4. /\ user' = [user EXCEPT ![s] = req[r].user]
      /\ owner' = [owner EXCEPT ![s] = req[r].user]
      /\ origin' = [origin EXCEPT ![s] = IF r \in SignIns THEN r
                                         ELSE origin[req[r].sid]]
      /\ UNCHANGED <<short, index, used, answer, renewed, forked, errors, missed>>
  BY <1>2 DEF SetNewSet
<1>5. r \in Requests =>
        /\ req[r].cookie \in Sids /\ owner[req[r].cookie] # None
        /\ req[r].sid = req[r].cookie /\ ~Exists(req[r].cookie)
        /\ req[r].user = owner[req[r].cookie]
        /\ origin[req[r].sid] \in SignIns /\ answer[r] = None
  BY <1>1 DEF CookieOK, Presenting, Renewing, Deciding, Base, IssuedOK
<1>6. PICK pc \in {"ok", "extract", "failing"} :
        /\ Becomes(r, req'[r]) /\ req'[r].pc = pc
        /\ req'[r].cookie = req[r].cookie /\ req'[r].kind = req[r].kind
        /\ req'[r].sid \in {s, req[r].sid}
        /\ pc = "ok" => r \in SignIns
        /\ pc = "extract" => r \in Requests
        /\ pc # "failing" => req'[r].sid = s
  <2>1. CASE Goto(r, "failing")
    BY <1>1, <2>1, GotoIs DEF PC
  <2>2. CASE SetsSid(r, IF r \in SignIns THEN "ok" ELSE "extract", s)
    <3>1. PICK pc \in {"ok", "extract"} :
            /\ SetsSid(r, pc, s)
            /\ pc = "ok" => r \in SignIns
            /\ pc = "extract" => r \in Requests
      BY <1>1, <2>2
    <3>2. QED  BY <1>1, <3>1, SetsSidIs DEF PC
  <2>3. QED  BY <1>2, <2>1, <2>2 DEF SetNewSet, SetsSid
<1>7. /\ user'[s] = req[r].user /\ owner'[s] = req[r].user /\ origin'[s] \in SignIns
      /\ origin'[s] = IF r \in SignIns THEN r ELSE origin[req[r].sid]
      /\ \A t \in Sids \ {s} :
           user'[t] = user[t] /\ owner'[t] = owner[t] /\ origin'[t] = origin[t]
      /\ user' \in [Sids -> Users \cup {None}]
      /\ owner' \in [Sids -> Users \cup {None}]
      /\ origin' \in [Sids -> SignIns \cup {None}]
      /\ req[r].user # None
  BY <1>1, <1>4, <1>5, SessionAssumption DEF TypeOK
<1>8. TypeOK'
  <2>1. req' \in [Callers -> Request]
    BY <1>6 DEF Becomes
  <2>2. short \subseteq {t \in Sids : Exists(t)'}
    BY <1>1, <1>7 DEF TypeOK, Exists
  <2>3. \A t \in Sids : user'[t] \in {None, owner'[t]}
    BY <1>1, <1>7 DEF TypeOK
  <2>4. QED  BY <1>1, <1>4, <1>7, <2>1, <2>2, <2>3 DEF TypeOK
<1>9. \A q \in Callers \ {r} : req'[q] = req[q]
  BY <1>6 DEF Becomes
<1>10. ASSUME NEW q \in Requests PROVE CookieOK(q)'
  <2>1. CASE q = r
    <3>1. /\ req'[r].cookie # s /\ req'[r].cookie = req[r].cookie
          /\ owner'[req'[r].cookie] = req[r].user
          /\ user'[req'[r].cookie] = None
      BY <1>3, <1>5, <1>6, <1>7, <2>1 DEF Exists
    <3>2. req'[r].sid \in Sids /\ owner'[req'[r].sid] = req[r].user
      BY <1>5, <1>6, <1>7, <2>1, <3>1
    <3>3. req'[r].pc \in {"extract", "failing"} /\ answer'[r] = None
      BY <1>1, <1>4, <1>5, <1>6, <2>1
    <3>4. QED
      BY <1>5, <1>7, <2>1, <3>1, <3>2, <3>3
      DEF CookieOK, Presenting, Renewing, Deleted, Deciding, Exists
  <2>2. CASE q # r
    <3>1. req'[q] = req[q] /\ CookieOK(q) /\ answer' = answer /\ renewed' = renewed
      BY <1>4, <1>9, <2>2 DEF Base, Callers
    <3>2. req[q].pc # "idle" =>
            /\ req[q].cookie \in Sids \ {s} /\ req[q].sid \in Sids \ {s}
      BY <1>3, <3>1 DEF CookieOK
    <3>3. req[q].pc # "idle" =>
            /\ owner'[req[q].cookie] = owner[req[q].cookie]
            /\ owner'[req[q].sid] = owner[req[q].sid]
            /\ user'[req[q].cookie] = user[req[q].cookie]
            /\ user'[req[q].sid] = user[req[q].sid]
      BY <1>7, <3>2
    <3>4. /\ req[q].pc \in Renewing \/ req[q].pc \in Deleted
               \/ req[q].pc = "ok" => req[q].pc # "idle"
      BY DEF Renewing, Deleted
    <3>5. QED  BY <3>1, <3>2, <3>3, <3>4 DEF CookieOK, Exists
  <2>3. QED  BY <2>1, <2>2
<1>11. ASSUME NEW i \in SignIns PROVE SignInOK(i)'
  <2>1. CASE i = r
    BY <1>1, <1>6, <2>1 DEF SignInOK
  <2>2. CASE i # r
    <3>1. req'[i] = req[i] /\ SignInOK(i)
      BY <1>9, <2>2 DEF Base, Callers
    <3>2. req[i].pc \in {"idle", "sadd", "set"} => \A t \in Sids : origin'[t] # i
      <4>1. r \in Requests => req[r].sid \in Sids
        BY <1>5
      <4>2. QED  BY <1>1, <1>7, <2>2, <3>1, <4>1 DEF SignInOK
    <3>3. QED  BY <3>1, <3>2 DEF SignInOK
  <2>3. QED  BY <2>1, <2>2
<1>12. ASSUME NEW q \in Callers PROVE NewOK(q)'
  <2>1. CASE q = r
    BY <1>6, <2>1 DEF NewOK
  <2>2. CASE q # r
    <3>1. req'[q] = req[q] /\ NewOK(q) /\ used' = used
      BY <1>4, <1>9, <2>2 DEF Base
    <3>2. req[q].pc = "set" => req[q].new \in Sids \ {s}
      BY <1>3, <2>2, <3>1, <1>1 DEF NewOK, TypeOK
    <3>3. QED  BY <1>6, <1>7, <1>9, <2>2, <3>1, <3>2 DEF NewOK
  <2>3. QED  BY <2>1, <2>2
<1>13. IssuedOK'
  BY <1>3, <1>4, <1>7 DEF Base, IssuedOK
<1>14. QED  BY <1>8, <1>10, <1>11, <1>12, <1>13 DEF Base

\* Steps that leave the requests alone: a session ages or expires.
LEMMA StoreKeeps ==
  ASSUME Base, TypeOK', \A s \in Sids : user'[s] \in {user[s], None},
         UNCHANGED <<used, req, owner, origin, answer, renewed>>
  PROVE  Base'
<1>1. ASSUME NEW q \in Requests PROVE CookieOK(q)'
  <2>1. CookieOK(q)
    BY DEF Base
  <2>2. \A s \in Sids : user[s] = None => user'[s] = None
    OBVIOUS
  <2>3. /\ req[q].pc = "idle" => req[q].cookie = None
        /\ req[q].pc # "idle" =>
             /\ req[q].cookie \in Sids /\ owner[req[q].cookie] # None
             /\ req[q].sid \in Sids /\ owner[req[q].sid] = owner[req[q].cookie]
             /\ req[q].sid = req[q].cookie \/ user'[req[q].cookie] = None
    BY <2>1, <2>2 DEF CookieOK, Exists
  <2>4. /\ req[q].pc \in Renewing \ {"del"} => user'[req[q].sid] = None
        /\ req[q].pc \in Deleted \/ (req[q].kind = "signout" /\ req[q].pc = "ok")
             => user'[req[q].sid] = None
    BY <2>1, <2>2, <2>3 DEF CookieOK, Renewing, Deleted, Exists
  <2>5. QED  BY <2>1, <2>3, <2>4 DEF CookieOK, Exists
<1>2. /\ \A i \in SignIns : SignInOK(i)'
      /\ \A r \in Callers : NewOK(r)'
      /\ IssuedOK'
  BY DEF Base, SignInOK, NewOK, IssuedOK
<1>3. QED  BY <1>1, <1>2 DEF Base

\* What Remove leaves
LEMMA RemoveIs ==
  ASSUME TypeOK, NEW s \in Sids, Remove(s)
  PROVE  /\ user' \in [Sids -> Users \cup {None}] /\ user'[s] = None
         /\ \A t \in Sids \ {s} : user'[t] = user[t]
         /\ \A t \in Sids : user'[t] \in {user[t], None}
         /\ short' \subseteq {t \in Sids : Exists(t)'}
         /\ owner' = owner => \A t \in Sids : user'[t] \in {None, owner'[t]}
  BY DEF TypeOK, Remove, Exists

\* Time passes.
LEMMA AgeKeeps ==
  ASSUME Base, NEW s \in Sids, Age(s) \/ Expire(s)
  PROVE  Base'
<1>1. CASE Age(s)
  <2>1. TypeOK'
    BY <1>1 DEF Base, TypeOK, Age, Exists, history
  <2>2. QED  BY <1>1, <2>1, StoreKeeps, UserKept DEF Age, history
<1>2. CASE Expire(s)
  <2>1. TypeOK /\ Remove(s) /\ UNCHANGED <<index, used, req, history, answer>>
    BY <1>2 DEF Base, Expire
  <2>2. TypeOK'
    BY <2>1, RemoveIs DEF TypeOK, history
  <2>3. QED  BY <2>1, <2>2, RemoveIs, StoreKeeps DEF history
<1>3. QED  BY <1>1, <1>2

\* DEL of a renewal or of a sign-out
LEMMA DelKeeps ==
  ASSUME Base, NEW r \in Requests, RenewDel(r) \/ OutDel(r)
  PROVE  Base'
<1>1. /\ r \in Callers /\ r \notin SignIns /\ TypeOK /\ CookieOK(r)
      /\ req[r].pc \in {"del", "out_del"}
  BY RequestHas DEF RenewDel, OutDel
<1>2. PICK s \in Sids : s = req[r].sid
  BY <1>1 DEF CookieOK
<1>3. Remove(s) /\ UNCHANGED <<index, used, history, answer>>
  BY <1>2 DEF RenewDel, OutDel
<1>4. PICK pc \in {"srem", "failing", "out_members", "ko"} :
        /\ Goto(r, pc)
        /\ pc \in {"srem", "failing"} => req[r].pc = "del"
  BY DEF RenewDel, OutDel
<1>5. /\ Becomes(r, req'[r]) /\ req'[r].pc = pc /\ req'[r].kind = req[r].kind
      /\ req'[r].cookie = req[r].cookie /\ req'[r].sid = s
      /\ req'[r].user = req[r].user
  BY <1>1, <1>2, <1>4, GotoIs DEF PC
<1>6. /\ user' \in [Sids -> Users \cup {None}] /\ user'[s] = None
      /\ \A t \in Sids \ {s} : user'[t] = user[t]
      /\ \A t \in Sids : user'[t] \in {user[t], None}
  BY <1>1, <1>3, RemoveIs
<1>7. TypeOK'
  BY <1>1, <1>3, <1>5, RemoveIs DEF TypeOK, Becomes, history
<1>8. CookieOK(r)'
  <2>1. /\ req[r].cookie \in Sids /\ owner[req[r].cookie] # None
        /\ owner[s] = owner[req[r].cookie]
        /\ s = req[r].cookie \/ user'[req[r].cookie] = None
    BY <1>1, <1>2, <1>6 DEF CookieOK, Exists
  <2>2. pc \in {"srem", "failing"} =>
          /\ s = req[r].cookie /\ req[r].user = owner[s] /\ s \in renewed
          /\ answer[r] = None
    BY <1>1, <1>2, <1>4 DEF CookieOK, Presenting, Renewing, Deciding
  <2>3. QED
    BY <1>3, <1>4, <1>5, <1>6, <2>1, <2>2
    DEF CookieOK, Presenting, Renewing, Deleted, Deciding, Exists, history
<1>9. QED
  BY <1>1, <1>3, <1>4, <1>5, <1>6, <1>7, <1>8, MoveKeeps DEF history

\* The steps of a sign-out: a request that is past authorize keeps what it
\* knows of its session, and deletes it before it goes on to Sync.
LEMMA OutMoves ==
  ASSUME Base, NEW r \in Requests, Becomes(r, req'[r]),
         req'[r].kind = req[r].kind, req'[r].cookie = req[r].cookie,
         req'[r].sid = req[r].sid, req[r].pc # "idle",
         UNCHANGED <<user, short, used, owner, origin, answer, renewed, forked,
                     errors>>,
         index' \subseteq index, missed' \subseteq Sids,
         req'[r].pc \in {"ok", "ko", "out_del", "out_check", "out_srem"},
         req'[r].pc \in {"ok", "out_check", "out_srem"} => req[r].pc \in Deleted
  PROVE  Base'
<1>1. /\ r \in Callers /\ r \notin SignIns /\ TypeOK /\ CookieOK(r)
  BY RequestHas
<1>2. TypeOK'
  BY <1>1, TypeKept DEF TypeOK
<1>3. CookieOK(r)'
  <2>1. /\ req[r].cookie \in Sids /\ owner[req[r].cookie] # None
        /\ req[r].sid \in Sids /\ owner[req[r].sid] = owner[req[r].cookie]
        /\ req[r].sid = req[r].cookie \/ ~Exists(req[r].cookie)
        /\ req[r].pc \in Deleted => ~Exists(req[r].sid)
    BY <1>1 DEF CookieOK
  <2>2. QED
    BY <2>1 DEF CookieOK, Presenting, Renewing, Deleted, Deciding, Exists
<1>4. QED  BY <1>1, <1>2, <1>3, UserKept, MoveKeeps

\* Delete and Sync of a sign-out
LEMMA OutKeeps ==
  ASSUME Base, NEW r \in Requests,
         \/ OutGet(r) \/ OutMembers(r) \/ OutSRem(r) \/ OutFails(r)
         \/ \E s \in Sids : OutCheck(r, s)
  PROVE  Base'
<1>1. /\ r \in Callers /\ r \notin SignIns /\ TypeOK /\ CookieOK(r)
      /\ req[r] \in Request /\ index \subseteq Users \X Sids /\ missed \subseteq Sids
  BY RequestHas DEF TypeOK
<1>2. CASE OutGet(r)
  <2>1. req[r].pc = "out_get" /\ UNCHANGED <<store, used, history, answer>>
    BY <1>2 DEF OutGet
  <2>2. CASE Goto(r, "ko")
    BY <1>1, <2>1, <2>2, GotoIs, OutMoves DEF store, history, PC
  <2>3. CASE /\ Exists(req[r].sid)
             /\ SetsUser(r, "out_del", user[req[r].sid])
    <3>1. user[req[r].sid] \in Users
      BY <1>1, <2>1, <2>3 DEF CookieOK, Exists, TypeOK
    <3>2. /\ Becomes(r, req'[r]) /\ req'[r].pc = "out_del"
          /\ req'[r].kind = req[r].kind
          /\ req'[r].cookie = req[r].cookie /\ req'[r].sid = req[r].sid
      BY <1>1, <2>3, <3>1, SetsUserIs DEF PC
    <3>3. QED  BY <1>1, <2>1, <3>2, OutMoves DEF store, history
  <2>4. QED  BY <1>2, <2>2, <2>3 DEF OutGet, SetsUser
<1>3. CASE OutMembers(r)
  <2>1. req[r].pc = "out_members" /\ UNCHANGED <<store, used, history, answer>>
    BY <1>3 DEF OutMembers
  <2>2. PICK pc \in {"ok", "out_check"}, sids \in SUBSET Sids :
          SetsTodo(r, pc, sids)
    <3>1. DEFINE sids == {s \in Sids : <<req[r].user, s>> \in index}
    <3>2. SetsTodo(r, IF sids = {} THEN "ok" ELSE "out_check", sids)
      BY <1>3 DEF OutMembers, SetsTodo
    <3>3. sids \in SUBSET Sids
      OBVIOUS
    <3>4. HIDE DEF sids
    <3>5. QED  BY <3>2, <3>3
  <2>3. /\ Becomes(r, req'[r]) /\ req'[r].pc = pc /\ req'[r].kind = req[r].kind
        /\ req'[r].cookie = req[r].cookie /\ req'[r].sid = req[r].sid
    BY <1>1, <2>2, SetsTodoIs DEF PC
  <2>4. QED  BY <1>1, <2>1, <2>3, OutMoves DEF store, history, Deleted
<1>4. CASE OutSRem(r)
  <2>1. /\ req[r].pc = "out_srem" /\ index' \subseteq index
        /\ UNCHANGED <<user, short, used, history, answer>>
    BY <1>4 DEF OutSRem
  <2>2. PICK pc \in {"ok", "out_check"} : Goto(r, pc)
    BY <1>4 DEF OutSRem
  <2>3. /\ Becomes(r, req'[r]) /\ req'[r].pc = pc /\ req'[r].kind = req[r].kind
        /\ req'[r].cookie = req[r].cookie /\ req'[r].sid = req[r].sid
    BY <1>1, <2>2, GotoIs DEF PC
  <2>4. QED  BY <1>1, <2>1, <2>3, OutMoves DEF history, Deleted
<1>5. CASE OutFails(r)
  BY <1>1, <1>5, GotoIs, OutMoves DEF OutFails, store, history, PC
<1>6. ASSUME NEW s \in Sids, OutCheck(r, s) PROVE Base'
  <2>1. /\ req[r].pc = "out_check" /\ missed' \subseteq Sids
        /\ UNCHANGED <<store, used, answer, owner, origin, renewed, forked, errors>>
    BY <1>1, <1>6 DEF OutCheck
  <2>2. req[r].todo \ {s} \in SUBSET Sids
    BY <1>1 DEF Request
  <2>3. CASE SetsTodoNew(r, "out_srem", req[r].todo \ {s}, s)
    <3>1. /\ Becomes(r, req'[r]) /\ req'[r].pc = "out_srem"
          /\ req'[r].kind = req[r].kind
          /\ req'[r].cookie = req[r].cookie /\ req'[r].sid = req[r].sid
      BY <1>1, <2>2, <2>3, SetsTodoNewIs DEF PC
    <3>2. QED  BY <1>1, <2>1, <3>1, OutMoves DEF store, Deleted
  <2>4. CASE SetsTodo(r, IF req[r].todo \ {s} = {} THEN "ok" ELSE "out_check",
                      req[r].todo \ {s})
    <3>1. PICK pc \in {"ok", "out_check"} : SetsTodo(r, pc, req[r].todo \ {s})
      BY <2>4
    <3>2. /\ Becomes(r, req'[r]) /\ req'[r].pc = pc
          /\ req'[r].kind = req[r].kind
          /\ req'[r].cookie = req[r].cookie /\ req'[r].sid = req[r].sid
      BY <1>1, <2>2, <3>1, SetsTodoIs DEF PC
    <3>3. QED  BY <1>1, <2>1, <3>2, OutMoves DEF store, Deleted
  <2>5. \/ SetsTodoNew(r, "out_srem", req[r].todo \ {s}, s)
        \/ SetsTodo(r, IF req[r].todo \ {s} = {} THEN "ok" ELSE "out_check",
                    req[r].todo \ {s})
    BY <1>6 DEF OutCheck, SetsTodo, SetsTodoNew
  <2>6. QED  BY <2>3, <2>4, <2>5
<1>7. QED  BY <1>2, <1>3, <1>4, <1>5, <1>6

\* extauth is gone: its requests are over, those of the backend are not.
LEMMA PanicKeeps ==
  ASSUME Base, GoogleCallbackPanics
  PROVE  Base'
<1>1. /\ TypeOK /\ req \in [Callers -> Request]
      /\ UNCHANGED <<store, used, history, answer>>
  BY DEF Base, TypeOK, GoogleCallbackPanics
<1>2. ASSUME NEW r \in Callers
      PROVE  /\ req'[r] \in Request
             /\ r \in SignIns => req'[r] = req[r]
             /\ \/ req'[r] = req[r]
                \/ /\ req'[r].pc = "ko" /\ req[r].pc # "idle"
                   /\ req'[r].cookie = req[r].cookie /\ req'[r].sid = req[r].sid
  <2>1. \/ req'[r] = req[r]
        \/ /\ req'[r] = [req[r] EXCEPT !.pc = "ko"]
           /\ r \notin SignIns /\ req[r].pc # "idle"
    BY DEF GoogleCallbackPanics
  <2>2. req[r] \in Request /\ "ko" \in PC
    BY <1>1 DEF PC
  <2>3. QED  BY <2>1, <2>2 DEF Request
<1>3. TypeOK'
  <2>1. \E f \in [Callers -> Request] : req' = f
    <3>1. DEFINE f == [r \in Callers |->
               IF r \in SignIns \/ req[r].pc \in {"idle", "ok"} THEN req[r]
               ELSE [req[r] EXCEPT !.pc = "ko"]]
    <3>2. req' = f
      BY DEF GoogleCallbackPanics
    <3>3. \A r \in Callers : req'[r] \in Request
      BY <1>2
    <3>4. \A r \in Callers : f[r] \in Request
      <4>1. HIDE DEF f
      <4>2. QED  BY <3>2, <3>3
    <3>5. f \in [Callers -> Request]
      BY <3>4
    <3>6. QED  BY <3>2, <3>5
  <2>2. QED  BY <1>1, <2>1 DEF TypeOK, Exists, store, history
<1>4. ASSUME NEW q \in Requests PROVE CookieOK(q)'
  <2>1. CookieOK(q) /\ q \in Callers
    BY DEF Base, Callers
  <2>2. CASE req'[q] = req[q]
    BY <1>1, <2>1, <2>2 DEF CookieOK, Exists, store, history
  <2>3. CASE req'[q].pc = "ko" /\ req'[q] # req[q]
    <3>1. /\ req[q].pc # "idle" /\ req'[q].cookie = req[q].cookie
          /\ req'[q].sid = req[q].sid
      BY <1>2, <2>1, <2>3
    <3>2. QED
      BY <1>1, <2>1, <2>3, <3>1
      DEF CookieOK, Presenting, Renewing, Deleted, Deciding, Exists, store, history
  <2>4. QED  BY <1>2, <2>1, <2>2, <2>3
<1>5. ASSUME NEW i \in SignIns PROVE SignInOK(i)'
  BY <1>1, <1>2 DEF Base, SignInOK, Callers, history
<1>6. ASSUME NEW r \in Callers PROVE NewOK(r)'
  <2>1. \A q \in Callers : req'[q].pc = "set" => req'[q] = req[q]
    BY <1>2
  <2>2. QED  BY <1>1, <2>1 DEF Base, NewOK, history
<1>7. IssuedOK'
  BY <1>1 DEF Base, IssuedOK, history
<1>8. QED  BY <1>3, <1>4, <1>5, <1>6, <1>7 DEF Base

\* There is nothing to know at first.
LEMMA BaseInit ==
  ASSUME Init
  PROVE  Base
<1>1. TypeOK
  <2>1. req \in [Callers -> Request]
    BY DEF Init, Request, PC
  <2>2. QED  BY <2>1 DEF Init, TypeOK, Exists
<1>2. \A r \in Requests : CookieOK(r)
  BY DEF Init, CookieOK, Callers, Presenting, Renewing, Deleted, Deciding
<1>3. \A i \in SignIns : SignInOK(i)
  BY SessionAssumption DEF Init, SignInOK, Callers
<1>4. (\A r \in Callers : NewOK(r)) /\ IssuedOK
  BY DEF Init, NewOK, IssuedOK
<1>5. QED  BY <1>1, <1>2, <1>3, <1>4 DEF Base

\* Every step keeps it.
LEMMA BaseStep ==
  ASSUME Base, [Next]_vars
  PROVE  Base'
<1>1. CASE UNCHANGED vars
  <2>1. TypeOK'
    BY <1>1 DEF Base, TypeOK, Exists, vars
  <2>2. QED  BY <1>1, <2>1, StoreKeeps, UserKept DEF vars
<1>2. ASSUME NEW i \in SignIns, NEW u \in Users, SignIn(i, u) PROVE Base'
  BY <1>2, SignInKeeps
<1>3. ASSUME NEW r \in Callers, SetNewStep(r) PROVE Base'
  BY <1>3, SetNewAddKeeps, SetNewSetKeeps DEF SetNewStep
<1>4. ASSUME NEW r \in Callers, AuthFails(r) PROVE Base'
  BY <1>4, SignInFailsKeeps, AuthKeeps DEF Callers
<1>5. ASSUME NEW r \in Requests, AuthStep(r) PROVE Base'
  BY <1>5, AuthKeeps, RenewGetKeeps, DelKeeps, ArriveKeeps DEF AuthStep
<1>6. ASSUME NEW r \in Requests, OutStep(r) PROVE Base'
  BY <1>6, OutKeeps, DelKeeps DEF OutStep
<1>7. CASE GoogleCallbackPanics
  BY <1>7, PanicKeeps
<1>8. ASSUME NEW s \in Sids, Age(s) \/ Expire(s) PROVE Base'
  BY <1>8, AgeKeeps
<1>9. CASE Finished
  BY <1>1, <1>9 DEF Finished
<1>10. QED
  BY <1>1, <1>2, <1>3, <1>4, <1>5, <1>6, <1>7, <1>8, <1>9 DEF Next

\* What is known of a session and of the requests that carry it holds in
\* every reachable state of the session manager, type correctness included.
THEOREM BaseCorrect == Spec => []Base
<1>1. Init => Base
  BY BaseInit
<1>2. Base /\ [Next]_vars => Base'
  BY BaseStep
<1>3. QED  BY <1>1, <1>2, PTL DEF Spec
---------------------------------------------------------------------------
(* Session implements Authorization.                                       *)

\* The cookies of the requests stay when each request keeps its own.
LEMMA CookiesKept ==
  ASSUME TypeOK, NEW r \in Callers, Becomes(r, req'[r]),
         req'[r].cookie = req[r].cookie
  PROVE  Cookies' = Cookies
<1>1. \A q \in Requests : req'[q].cookie = req[q].cookie
  BY DEF Becomes, Callers
<1>2. QED  BY <1>1 DEF Cookies

\* A step that a reader of Authorization does not see
Unseen ==
  UNCHANGED <<owner, user, answer, errors>> /\ Cookies' = Cookies

\* Such a step is a stutter of Authorization.
LEMMA UnseenStutters == Unseen => UNCHANGED Promise!vars
  BY DEF Unseen, Promise!vars, OpenSessions, Exists

\* Everything but a SET, a DEL, an expiry, a new request and an answer is
\* unseen.
LEMMA MovesUnseen ==
  ASSUME Base,
         \/ \E i \in SignIns, u \in Users : SignIn(i, u)
         \/ \E i \in SignIns : AuthFails(i)
         \/ \E r \in Callers, s \in Sids : SetNewAdd(r, s)
         \/ \E r \in Requests : TTL(r) \/ RenewSRem(r)
         \/ \E r \in Requests :
              OutGet(r) \/ OutMembers(r) \/ OutSRem(r) \/ OutFails(r)
         \/ \E r \in Requests, s \in Sids : OutCheck(r, s)
         \/ GoogleCallbackPanics
         \/ \E s \in Sids : Age(s)
         \/ UNCHANGED vars
  PROVE  Unseen
<1>1. TypeOK /\ req \in [Callers -> Request]
  BY DEF Base, TypeOK
<1>2. ASSUME NEW r \in Callers, NEW pc, Goto(r, pc)
      PROVE  Cookies' = Cookies
  <2>1. \A q \in Requests : req'[q].cookie = req[q].cookie
    BY <1>1, <1>2 DEF Goto, Request, Callers
  <2>2. QED  BY <2>1 DEF Cookies
<1>3. ASSUME NEW r \in Callers, NEW pc, NEW u,
             req' = [req EXCEPT ![r].pc = pc, ![r].user = u]
      PROVE  Cookies' = Cookies
  <2>1. \A q \in Requests : req'[q].cookie = req[q].cookie
    BY <1>1, <1>3 DEF Request, Callers
  <2>2. QED  BY <2>1 DEF Cookies
<1>4. ASSUME NEW r \in Callers, NEW pc, NEW s,
             req' = [req EXCEPT ![r].pc = pc, ![r].new = s]
      PROVE  Cookies' = Cookies
  <2>1. \A q \in Requests : req'[q].cookie = req[q].cookie
    BY <1>1, <1>4 DEF Request, Callers
  <2>2. QED  BY <2>1 DEF Cookies
<1>5. ASSUME NEW i \in SignIns,
             AuthFails(i) \/ \E u \in Users : SignIn(i, u)
      PROVE  Unseen
  BY <1>2, <1>3, <1>5 DEF SignIn, AuthFails, Unseen, store, history, Callers
<1>6. ASSUME NEW r \in Callers, NEW s \in Sids, SetNewAdd(r, s) PROVE Unseen
  BY <1>2, <1>4, <1>6 DEF SetNewAdd, Unseen, history
<1>7. ASSUME NEW r \in Requests,
             TTL(r) \/ RenewSRem(r) \/ OutSRem(r) \/ OutFails(r)
      PROVE  Unseen
  BY <1>2, <1>7
  DEF TTL, RenewSRem, OutSRem, OutFails, Unseen, store, history, Callers
<1>8. ASSUME NEW r \in Requests, OutGet(r) PROVE Unseen
  BY <1>2, <1>3, <1>8 DEF OutGet, Unseen, store, history, Callers
<1>9. ASSUME NEW r \in Requests, OutMembers(r) PROVE Unseen
  <2>1. \A q \in Requests : req'[q].cookie = req[q].cookie
    BY <1>1, <1>9 DEF OutMembers, Request, Callers
  <2>2. QED  BY <1>9, <2>1 DEF OutMembers, Cookies, Unseen, store, history
<1>10. ASSUME NEW r \in Requests, NEW s \in Sids, OutCheck(r, s) PROVE Unseen
  <2>1. ASSUME NEW q \in Requests PROVE req'[q].cookie = req[q].cookie
    <3>1. PICK pc, todo, new :
            \/ req' = [req EXCEPT ![r].todo = todo, ![r].pc = pc]
            \/ req' = [req EXCEPT ![r].todo = todo, ![r].pc = pc, ![r].new = new]
      BY <1>10 DEF OutCheck
    <3>2. q \in Callers /\ req[q] \in Request
      BY <1>1 DEF Callers
    <3>3. QED  BY <1>1, <3>1, <3>2 DEF Request
  <2>2. QED  BY <1>10, <2>1 DEF OutCheck, Cookies, Unseen, store
<1>11. CASE GoogleCallbackPanics
  <2>1. ASSUME NEW q \in Requests PROVE req'[q].cookie = req[q].cookie
    <3>1. q \in Callers /\ req[q] \in Request
      BY <1>1 DEF Callers
    <3>2. req'[q] = req[q] \/ req'[q] = [req[q] EXCEPT !.pc = "ko"]
      BY <1>11, <3>1 DEF GoogleCallbackPanics
    <3>3. QED  BY <3>1, <3>2 DEF Request
  <2>2. QED  BY <1>11, <2>1 DEF GoogleCallbackPanics, Cookies, Unseen, store, history
<1>12. ASSUME NEW s \in Sids, Age(s) PROVE Unseen
  BY <1>12 DEF Age, Unseen, Cookies, history
<1>13. CASE UNCHANGED vars
  BY <1>13 DEF vars, Unseen, Cookies
<1>14. QED
  BY <1>5, <1>6, <1>7, <1>8, <1>9, <1>10, <1>11, <1>12, <1>13

\* SET issues the session; SetNew of an id that is nobody's yet.
LEMMA SetIssues ==
  ASSUME Base, NEW r \in Callers, SetNewSet(r)
  PROVE  \E s \in Sids, u \in Users : Promise!Issue(s, u)
<1>1. /\ TypeOK /\ req[r].user \in Users /\ req[r].pc = "set" /\ NewOK(r)
      /\ req \in [Callers -> Request]
  BY CallerHas DEF SetNewSet, Base, TypeOK
<1>2. PICK s \in Sids : s = req[r].new
  BY <1>1 DEF NewOK, TypeOK
<1>3. owner[s] = None
  BY <1>1, <1>2 DEF NewOK
<1>4. /\ user' = [user EXCEPT ![s] = req[r].user]
      /\ owner' = [owner EXCEPT ![s] = req[r].user]
      /\ UNCHANGED <<answer, errors>>
  BY <1>2 DEF SetNewSet
<1>5. OpenSessions' = OpenSessions \cup {s}
  BY <1>1, <1>4, SessionAssumption DEF OpenSessions, Exists, TypeOK
<1>6. Cookies' = Cookies
  <2>1. \A q \in Requests : req'[q].cookie = req[q].cookie
    BY <1>1 DEF SetNewSet, Goto, Request, Callers
  <2>2. QED  BY <2>1 DEF Cookies
<1>7. Promise!Issue(s, req[r].user)
  BY <1>3, <1>4, <1>5, <1>6 DEF Promise!Issue
<1>8. QED  BY <1>1, <1>7

\* DEL and expiry close one.
LEMMA RemoveCloses ==
  ASSUME Base,
         \/ \E r \in Requests : RenewDel(r) \/ OutDel(r)
         \/ \E s \in Sids : Expire(s)
  PROVE  \E s \in Sids : Promise!Close(s)
<1>1. TypeOK /\ req \in [Callers -> Request]
  BY DEF Base, TypeOK
<1>2. ASSUME NEW s \in Sids, Remove(s), UNCHANGED <<owner, answer, errors>>,
             Cookies' = Cookies
      PROVE  Promise!Close(s)
  <2>1. OpenSessions' = OpenSessions \ {s}
    BY <1>1, <1>2, RemoveIs DEF OpenSessions, Exists
  <2>2. QED  BY <1>2, <2>1 DEF Promise!Close
<1>3. ASSUME NEW r \in Requests, RenewDel(r) \/ OutDel(r)
      PROVE  \E s \in Sids : Promise!Close(s)
  <2>1. req[r].sid \in Sids
    BY <1>3 DEF Base, CookieOK, RenewDel, OutDel
  <2>2. \A q \in Requests : req'[q].cookie = req[q].cookie
    BY <1>1, <1>3 DEF RenewDel, OutDel, Goto, Request, Callers
  <2>3. Cookies' = Cookies
    BY <2>2 DEF Cookies
  <2>4. QED  BY <1>2, <1>3, <2>1, <2>3 DEF RenewDel, OutDel, history
<1>4. ASSUME NEW s \in Sids, Expire(s)
      PROVE  Promise!Close(s)
  BY <1>2, <1>4 DEF Expire, Cookies, history
<1>5. QED  BY <1>3, <1>4

\* A request that arrives does so in Authorization.
LEMMA ArriveArrives ==
  ASSUME Base, NEW r \in Requests, NEW s \in Sids,
         NEW kind \in {"call", "signout"}, Arrive(r, s, kind)
  PROVE  Promise!Arrive(r, s)
<1>1. /\ r \in Callers /\ TypeOK /\ CookieOK(r) /\ "has" \in PC
  BY RequestHas DEF PC
<1>2. Cookies[r] = None /\ owner[s] # None
  BY <1>1 DEF Arrive, CookieOK, Cookies
<1>3. Becomes(r, req'[r]) /\ req'[r].cookie = s
  <2>1. SetsCookie(r, "has", kind, s)
    BY DEF Arrive, SetsCookie
  <2>2. QED  BY <1>1, <2>1, SetsCookieIs
<1>4. Cookies' = [Cookies EXCEPT ![r] = s]
  BY <1>3 DEF Cookies, Becomes, Callers
<1>5. UNCHANGED <<owner, user, answer, errors>>
  BY DEF Arrive, store, history
<1>6. OpenSessions' = OpenSessions
  BY <1>5 DEF OpenSessions, Exists
<1>7. QED  BY <1>2, <1>4, <1>5, <1>6 DEF Promise!Arrive

\* authorize refuses when the session of its cookie is closed, or when one
\* of its commands failed.
LEMMA RefuseRefuses ==
  ASSUME Base, NEW r \in Requests, RefuseAuth(r),
         req[r].pc \in Deciding \ {"idle"}, UNCHANGED <<owner, user>>
  PROVE  /\ errors' = errors /\ ~Exists(req[r].cookie) => Promise!Refuse(r)
         /\ errors' = errors \cup {r} => Promise!Fail(r)
<1>1. /\ r \in Callers /\ TypeOK /\ CookieOK(r)
      /\ answer' = [answer EXCEPT ![r] = "refused"]
  BY RequestHas DEF RefuseAuth
<1>2. Cookies[r] = req[r].cookie /\ Cookies[r] # None /\ answer[r] = None
  BY <1>1, SessionAssumption DEF CookieOK, Cookies
<1>3. Cookies' = Cookies
  BY <1>1, GotoIs, CookiesKept DEF RefuseAuth, PC
<1>4. OpenSessions' = OpenSessions
  BY DEF OpenSessions, Exists
<1>5. ~Exists(req[r].cookie) => Cookies[r] \notin OpenSessions
  BY <1>2 DEF OpenSessions
<1>6. QED
  BY <1>1, <1>2, <1>3, <1>4, <1>5
  DEF Promise!Refuse, Promise!Fail, Promise!Refused

\* What authorize answers is granted, refused or failed in Authorization.
LEMMA AuthAnswers ==
  ASSUME Base, NEW r \in Requests,
         Has(r) \/ RenewGet(r) \/ Extract(r) \/ AuthFails(r)
  PROVE  \/ Unseen
         \/ Promise!Refuse(r) \/ Promise!Fail(r)
         \/ \E s \in Sids : Promise!Grant(r, s)
<1>1. /\ r \in Callers /\ r \notin SignIns /\ TypeOK /\ CookieOK(r)
  BY RequestHas
<1>2. CASE Has(r)
  <2>1. req[r].pc = "has" /\ req[r].sid = req[r].cookie
    BY <1>1, <1>2 DEF Has, CookieOK, Presenting
  <2>2. CASE Goto(r, "ttl") /\ UNCHANGED answer
    <3>1. Cookies' = Cookies
      BY <1>1, <2>2, GotoIs, CookiesKept DEF PC
    <3>2. QED  BY <1>2, <2>2, <3>1 DEF Has, Unseen, store, history
  <2>3. CASE ~Exists(req[r].sid) /\ RefuseAuth(r)
    BY <1>2, <2>1, <2>3, RefuseRefuses
    DEF Has, Deciding, Presenting, store, history
  <2>4. QED  BY <1>2, <2>2, <2>3 DEF Has
<1>3. CASE RenewGet(r)
  <2>1. /\ req[r].pc = "get" /\ req[r].sid = req[r].cookie
        /\ req[r].sid \in Sids
    BY <1>1, <1>3 DEF RenewGet, CookieOK, Presenting
  <2>2. CASE Exists(req[r].sid)
    <3>1. /\ SetsUser(r, "del", user[req[r].sid]) /\ user[req[r].sid] \in Users
          /\ UNCHANGED answer
      BY <1>1, <1>3, <2>1, <2>2 DEF RenewGet, SetsUser, Exists, TypeOK
    <3>2. Cookies' = Cookies
      BY <1>1, <3>1, SetsUserIs, CookiesKept DEF PC
    <3>3. QED  BY <1>3, <3>1, <3>2 DEF RenewGet, Unseen, store
  <2>3. CASE ~Exists(req[r].sid)
    <3>1. RefuseAuth(r) /\ UNCHANGED <<owner, user, errors>>
      BY <1>3, <2>3 DEF RenewGet, store
    <3>2. QED  BY <2>1, <2>3, <3>1, RefuseRefuses DEF Deciding, Presenting
  <2>4. QED  BY <2>2, <2>3
<1>4. CASE Extract(r)
  <2>1. /\ req[r].pc = "extract" /\ req[r].sid \in Sids
        /\ req[r].cookie \in Sids
        /\ owner[req[r].sid] = owner[req[r].cookie]
        /\ req[r].sid = req[r].cookie \/ ~Exists(req[r].cookie)
        /\ answer[r] = None /\ UNCHANGED <<owner, user, errors>>
    BY <1>1, <1>4 DEF Extract, CookieOK, Deciding, store, history
  <2>2. CASE Exists(req[r].sid)
    <3>1. PICK pc \in {"out_get", "ok"} : Goto(r, pc)
      BY <1>4, <2>2 DEF Extract
    <3>2. answer' = [answer EXCEPT ![r] = user[req[r].sid]]
      BY <1>4, <2>2 DEF Extract
    <3>3. user[req[r].sid] = owner[req[r].sid]
      BY <1>1, <2>1, <2>2 DEF TypeOK, Exists
    <3>4. Cookies' = Cookies /\ Cookies[r] = req[r].cookie
      BY <1>1, <3>1, GotoIs, CookiesKept DEF PC, Cookies
    <3>5. OpenSessions' = OpenSessions /\ req[r].sid \in OpenSessions
      BY <2>1, <2>2 DEF OpenSessions, Exists
    <3>6. Promise!Grant(r, req[r].sid)
      BY <2>1, <3>2, <3>3, <3>4, <3>5, SessionAssumption DEF Promise!Grant
    <3>7. QED  BY <2>1, <3>6
  <2>3. CASE ~Exists(req[r].sid)
    BY <1>4, <2>1, <2>3, RefuseRefuses DEF Extract, Deciding
  <2>4. QED  BY <2>2, <2>3
<1>5. CASE AuthFails(r)
  <2>1. /\ req[r].pc \in Deciding \ {"idle"} /\ RefuseAuth(r)
        /\ errors' = errors \cup {r} /\ UNCHANGED <<owner, user>>
    BY <1>1, <1>5 DEF AuthFails, store, Deciding, Presenting
  <2>2. QED  BY <2>1, RefuseRefuses
<1>6. QED  BY <1>2, <1>3, <1>4, <1>5

\* Every step is a step of Authorization or unseen there.
LEMMA StepPromises ==
  ASSUME Base, [Next]_vars
  PROVE  [Promise!Next]_(Promise!vars)
<1>1. CASE Unseen
  BY <1>1, UnseenStutters
<1>2. CASE UNCHANGED vars
  BY <1>1, <1>2, MovesUnseen
<1>3. ASSUME NEW i \in SignIns, NEW u \in Users, SignIn(i, u)
      PROVE  Unseen
  BY <1>3, MovesUnseen
<1>4. ASSUME NEW r \in Callers, SetNewStep(r)
      PROVE  Unseen \/ Promise!Next
  BY <1>4, MovesUnseen, SetIssues DEF SetNewStep, Promise!Next
<1>5. ASSUME NEW r \in Callers, AuthFails(r)
      PROVE  Unseen \/ Promise!Next
  BY <1>5, MovesUnseen, AuthAnswers DEF Callers, Promise!Next
<1>6. ASSUME NEW r \in Requests, AuthStep(r)
      PROVE  Unseen \/ Promise!Next
  BY <1>6, MovesUnseen, AuthAnswers, RemoveCloses, ArriveArrives
  DEF AuthStep, Promise!Next
<1>7. ASSUME NEW r \in Requests, OutStep(r)
      PROVE  Unseen \/ Promise!Next
  BY <1>7, MovesUnseen, RemoveCloses DEF OutStep, Promise!Next
<1>8. ASSUME NEW s \in Sids, Age(s) \/ Expire(s)
      PROVE  Unseen \/ Promise!Next
  BY <1>8, MovesUnseen, RemoveCloses DEF Promise!Next
<1>9. CASE GoogleCallbackPanics
  BY <1>1, <1>9, MovesUnseen
<1>10. CASE Finished
  BY <1>2, <1>10 DEF Finished
<1>11. QED
  BY <1>1, <1>2, <1>3, <1>4, <1>5, <1>6, <1>7, <1>8, <1>9, <1>10 DEF Next

\* The commands of any number of concurrent requests, whatever fails between
\* them, add up to what extauth relies on: the user a request is authorized
\* as owns an open session at that instant, and is the one the cookie was
\* given to; a request is refused only when its session is closed or one of
\* its own commands failed; a closed session never opens again.
THEOREM ImplementsAuthorizationCorrect == Spec => ImplementsAuthorization
<1>1. Init => Promise!Init
  BY DEF Init, Promise!Init, OpenSessions, Exists, Cookies, Callers
<1>2. Base /\ [Next]_vars => [Promise!Next]_(Promise!vars)
  BY StepPromises
<1>3. QED
  BY <1>1, <1>2, BaseCorrect, PTL DEF Spec, ImplementsAuthorization, Promise!Spec
---------------------------------------------------------------------------
(* What renewals and Sync leave: OneSessionPerSignIn, ListedUnlessMissed.  *)

\* A step that neither stores, removes nor lists a session, and after which
\* nobody has begun to renew, to store or to unlist one
Quiet ==
  /\ UNCHANGED <<user, index, owner, origin, forked, missed>>
  /\ \A q \in Callers :
       \/ req'[q] = req[q]
       \/ /\ req'[q].pc \notin {"set", "out_srem"}
          /\ q \in Requests => req'[q].pc \notin Renewing

\* One request moves, to a program counter of no renewal.
LEMMA GotoQuiet ==
  ASSUME TypeOK, NEW r \in Callers, NEW pc \in PC \ {"set", "out_srem"},
         r \in Requests => pc \notin Renewing,
         Becomes(r, req'[r]), req'[r].pc = pc,
         UNCHANGED <<user, index, owner, origin, forked, missed>>
  PROVE  Quiet
  BY DEF Quiet, Becomes

\* The steps that are quiet
LEMMA QuietSteps ==
  ASSUME Base,
         \/ \E i \in SignIns, u \in Users : SignIn(i, u)
         \/ \E r \in Callers : AuthFails(r)
         \/ \E r \in Requests :
              \/ Has(r) \/ TTL(r) \/ Extract(r)
              \/ \E s \in Sids : Arrive(r, s, "call") \/ Arrive(r, s, "signout")
              \/ OutGet(r) \/ OutMembers(r) \/ OutFails(r)
         \/ GoogleCallbackPanics
         \/ \E s \in Sids : Age(s)
         \/ UNCHANGED vars
  PROVE  Quiet
<1>1. TypeOK /\ req \in [Callers -> Request]
  BY DEF Base, TypeOK
<1>2. ASSUME NEW r \in Callers,
             NEW pc \in {"ko", "ok", "ttl", "get", "extract", "out_get"},
             Goto(r, pc), UNCHANGED <<user, index, owner, origin, forked, missed>>
      PROVE  Quiet
  BY <1>1, <1>2, GotoIs, GotoQuiet DEF PC, Renewing
<1>3. ASSUME NEW i \in SignIns, NEW u \in Users, SignIn(i, u) PROVE Quiet
  <2>1. SetsUser(i, "sadd", u) /\ UNCHANGED <<user, index, history>>
    BY <1>3 DEF SignIn, SetsUser, store
  <2>2. i \in Callers /\ i \notin Requests
    BY SessionAssumption DEF Callers
  <2>3. QED  BY <1>1, <2>1, <2>2, SetsUserIs, GotoQuiet DEF PC, history
<1>4. ASSUME NEW r \in Callers, AuthFails(r) PROVE Quiet
  BY <1>2, <1>4 DEF AuthFails, RefuseAuth, store
<1>5. ASSUME NEW r \in Requests, Has(r) \/ TTL(r) \/ Extract(r) \/ OutFails(r)
      PROVE  Quiet
  BY <1>2, <1>5
  DEF Has, TTL, Extract, OutFails, RefuseAuth, store, history, Callers
<1>6. ASSUME NEW r \in Requests, NEW s \in Sids,
             Arrive(r, s, "call") \/ Arrive(r, s, "signout")
      PROVE  Quiet
  <2>1. PICK kind \in {"call", "signout"} : SetsCookie(r, "has", kind, s)
    BY <1>6 DEF Arrive, SetsCookie
  <2>2. r \in Callers /\ UNCHANGED <<user, index, history>>
    BY <1>6 DEF Arrive, store, Callers
  <2>3. QED
    BY <1>1, <2>1, <2>2, SetsCookieIs, GotoQuiet DEF PC, Renewing, history
<1>7. ASSUME NEW r \in Requests, OutGet(r) PROVE Quiet
  <2>1. r \in Callers /\ UNCHANGED <<user, index, history>>
    BY <1>7 DEF OutGet, store, Callers
  <2>2. CASE Goto(r, "ko")
    BY <1>2, <2>1, <2>2 DEF history
  <2>3. CASE Exists(req[r].sid) /\ SetsUser(r, "out_del", user[req[r].sid])
    <3>1. user[req[r].sid] \in Users
      BY <1>1, <1>7, <2>3 DEF Base, OutGet, CookieOK, Exists, TypeOK
    <3>2. QED
      BY <1>1, <2>1, <2>3, <3>1, SetsUserIs, GotoQuiet DEF PC, Renewing, history
  <2>4. QED  BY <1>7, <2>2, <2>3 DEF OutGet, SetsUser
<1>8. ASSUME NEW r \in Requests, OutMembers(r) PROVE Quiet
  <2>1. r \in Callers /\ UNCHANGED <<user, index, history>>
    BY <1>8 DEF OutMembers, store, Callers
  <2>2. Becomes(r, req'[r]) /\ req'[r].pc \in {"ok", "out_check"}
    <3>1. DEFINE sids == {s \in Sids : <<req[r].user, s>> \in index}
    <3>2. SetsTodo(r, IF sids = {} THEN "ok" ELSE "out_check", sids)
      BY <1>8 DEF OutMembers, SetsTodo
    <3>3. sids \in SUBSET Sids
      OBVIOUS
    <3>4. HIDE DEF sids
    <3>5. PICK pc \in {"ok", "out_check"} : SetsTodo(r, pc, sids)
      BY <3>2
    <3>6. QED  BY <1>1, <2>1, <3>3, <3>5, SetsTodoIs DEF PC
  <2>3. QED  BY <1>1, <2>1, <2>2, GotoQuiet DEF PC, Renewing, history
<1>9. CASE GoogleCallbackPanics
  <2>1. ASSUME NEW q \in Callers PROVE req'[q] = req[q] \/ req'[q].pc = "ko"
    <3>1. req[q] \in Request
      BY <1>1
    <3>2. req'[q] = req[q] \/ req'[q] = [req[q] EXCEPT !.pc = "ko"]
      BY <1>9 DEF GoogleCallbackPanics
    <3>3. QED  BY <3>1, <3>2 DEF Request
  <2>2. QED  BY <1>9, <2>1 DEF GoogleCallbackPanics, Quiet, Renewing, store, history
<1>10. ASSUME NEW s \in Sids, Age(s) PROVE Quiet
  BY <1>10 DEF Age, Quiet, history
<1>11. CASE UNCHANGED vars
  BY <1>11 DEF vars, Quiet
<1>12. QED
  BY <1>3, <1>4, <1>5, <1>6, <1>7, <1>8, <1>9, <1>10, <1>11

\* The steps of a renewal and of Sync that are not quiet, field by field
LEMMA RenewMoves ==
  ASSUME Base, NEW r \in Requests,
         \/ RenewGet(r) \/ RenewDel(r) \/ RenewSRem(r) \/ OutDel(r) \/ OutSRem(r)
  PROVE  /\ Becomes(r, req'[r]) /\ req'[r].sid = req[r].sid
         /\ req'[r].pc \notin {"set", "out_srem"}
         /\ owner' = owner /\ origin' = origin /\ missed' = missed
         /\ forked \subseteq forked'
<1>1. /\ r \in Callers /\ TypeOK /\ CookieOK(r)
      /\ UNCHANGED <<owner, origin, missed>> /\ forked \subseteq forked'
  BY RequestHas
  DEF RenewGet, RenewDel, RenewSRem, OutDel, OutSRem, history
<1>2. CASE \E pc \in PC \ {"set", "out_srem"} : Goto(r, pc)
  BY <1>1, <1>2, GotoIs
<1>3. CASE \E u \in Users : SetsUser(r, "del", u)
  BY <1>1, <1>3, SetsUserIs DEF PC
<1>4. CASE RenewGet(r)
  <2>1. Exists(req[r].sid) => user[req[r].sid] \in Users
    BY <1>1, <1>4 DEF RenewGet, CookieOK, Exists, TypeOK
  <2>2. QED
    BY <1>2, <1>3, <1>4, <2>1 DEF RenewGet, SetsUser, RefuseAuth, PC
<1>5. CASE RenewDel(r) \/ RenewSRem(r) \/ OutDel(r) \/ OutSRem(r)
  BY <1>2, <1>5 DEF RenewDel, RenewSRem, OutDel, OutSRem, PC
<1>6. QED  BY <1>4, <1>5

\* What it takes for an open session to be on the list: an id that is about
\* to be stored is listed, or a Sync has missed it; and Sync takes off the
\* list only what it missed or what is closed.
ListedOK ==
  /\ ListedUnlessMissed
  /\ \A r \in Callers :
       /\ req[r].pc = "set" =>
            <<req[r].user, req[r].new>> \in index \/ req[r].new \in missed
       /\ req[r].pc = "out_srem" =>
            \/ req[r].new \in missed
            \/ req[r].new \in Sids /\ Closed(req[r].new)

\* Steps that store no session
LEMMA ListedMoves ==
  ASSUME Base, Base', ListedOK,
         \A s \in Sids : user'[s] \in {user[s], None},
         owner' = owner, missed \subseteq missed',
         \A u \in Users, s \in Sids :
           <<u, s>> \in index => <<u, s>> \in index' \/ s \in missed \/ Closed(s),
         \A q \in Callers :
           /\ req'[q].pc = "set" =>
                \/ req'[q] = req[q]
                \/ <<req'[q].user, req'[q].new>> \in index'
           /\ req'[q].pc = "out_srem" =>
                \/ req'[q] = req[q]
                \/ req'[q].new \in missed'
                \/ req'[q].new \in Sids /\ Closed(req'[q].new)
  PROVE  ListedOK'
<1>1. TypeOK /\ TypeOK'
  BY DEF Base
<1>2. \A s \in Sids : Closed(s) => owner'[s] # None /\ user'[s] = None
  BY DEF Closed, Exists
<1>3. ListedUnlessMissed'
  <2>1. ASSUME NEW s \in Sids, user'[s] # None
        PROVE  <<user'[s], s>> \in index' \/ s \in missed'
    <3>1. user'[s] = user[s] /\ user[s] \in Users
      BY <1>1, <2>1 DEF TypeOK
    <3>2. ~Closed(s) /\ Exists(s)
      BY <2>1, <3>1 DEF Closed, Exists
    <3>3. <<user[s], s>> \in index \/ s \in missed
      BY <3>2 DEF ListedOK, ListedUnlessMissed, OpenSessions
    <3>4. QED  BY <3>1, <3>2, <3>3
  <2>2. QED  BY <2>1 DEF ListedUnlessMissed, OpenSessions, Exists
<1>4. ASSUME NEW q \in Callers, req'[q].pc = "set"
      PROVE  <<req'[q].user, req'[q].new>> \in index' \/ req'[q].new \in missed'
  <2>1. CASE req'[q] = req[q]
    <3>1. <<req[q].user, req[q].new>> \in index \/ req[q].new \in missed
      BY <1>4, <2>1 DEF ListedOK
    <3>2. req[q].user \in Users /\ req[q].new \in Sids /\ owner[req[q].new] = None
      BY <1>1, <1>4, <2>1, CallerHas DEF Base, NewOK, TypeOK
    <3>3. ~Closed(req[q].new)
      BY <3>2 DEF Closed
    <3>4. QED  BY <2>1, <3>1, <3>2, <3>3
  <2>2. QED  BY <1>4, <2>1
<1>5. ASSUME NEW q \in Callers, req'[q].pc = "out_srem"
      PROVE  \/ req'[q].new \in missed'
             \/ req'[q].new \in Sids /\ owner'[req'[q].new] # None
                                   /\ user'[req'[q].new] = None
  BY <1>2, <1>5 DEF ListedOK
<1>6. QED  BY <1>3, <1>4, <1>5 DEF ListedOK, Closed, Exists

\* SET: the id has been listed, unless it was missed.
LEMMA ListedSet ==
  ASSUME Base, Base', ListedOK, NEW r \in Callers, SetNewSet(r)
  PROVE  ListedOK'
<1>1. TypeOK /\ req[r].user \in Users /\ req[r].pc = "set" /\ NewOK(r)
  BY CallerHas DEF SetNewSet, Base
<1>2. PICK s \in Sids : s = req[r].new
  BY <1>1 DEF NewOK, TypeOK
<1>3. owner[s] = None
  BY <1>1, <1>2 DEF NewOK
<1>4. /\ user' = [user EXCEPT ![s] = req[r].user]
      /\ owner' = [owner EXCEPT ![s] = req[r].user]
      /\ UNCHANGED <<index, missed>>
  BY <1>2 DEF SetNewSet
<1>5. <<req[r].user, s>> \in index \/ s \in missed
  BY <1>1, <1>2 DEF ListedOK
<1>6. ASSUME NEW q \in Callers
      PROVE  \/ req'[q] = req[q]
             \/ req'[q].pc \notin {"set", "out_srem"}
  <2>1. req[q] \in Request /\ req \in [Callers -> Request]
    BY <1>1 DEF TypeOK
  <2>2. QED  BY <2>1 DEF SetNewSet, Goto, Request
<1>7. ListedUnlessMissed'
  BY <1>1, <1>4, <1>5 DEF ListedOK, ListedUnlessMissed, OpenSessions, Exists, TypeOK
<1>8. ASSUME NEW t \in Sids, Closed(t)
      PROVE  owner'[t] # None /\ user'[t] = None
  BY <1>1, <1>3, <1>4, <1>8 DEF Closed, Exists, TypeOK
<1>9. QED
  BY <1>4, <1>6, <1>7, <1>8 DEF ListedOK, Closed, Exists

\* Every step keeps the list.
LEMMA ListedStep ==
  ASSUME Base, Base', ListedOK, [Next]_vars
  PROVE  ListedOK'
<1>1. TypeOK
  BY DEF Base
<1>2. CASE Quiet
  BY <1>2, UserKept, ListedMoves DEF Quiet
<1>3. ASSUME NEW r \in Callers, NEW s \in Sids, SetNewAdd(r, s)
      PROVE  ListedOK'
  <2>1. /\ index' = index \cup {<<req[r].user, s>>}
        /\ UNCHANGED <<user, history>>
    BY <1>3 DEF SetNewAdd
  <2>2. \/ /\ Becomes(r, req'[r]) /\ req'[r].pc = "set"
           /\ req'[r].new = s /\ req'[r].user = req[r].user
        \/ Becomes(r, req'[r]) /\ req'[r].pc = "failing"
    <3>1. CASE Goto(r, "failing")
      BY <1>1, <3>1, GotoIs DEF PC
    <3>2. CASE SetsNew(r, "set", s)
      BY <1>1, <3>2, SetsNewIs DEF PC
    <3>3. QED  BY <1>3, <3>1, <3>2 DEF SetNewAdd, SetsNew
  <2>3. \A q \in Callers :
          \/ req'[q] = req[q]
          \/ /\ req'[q].pc # "out_srem"
             /\ req'[q].pc = "set" => <<req'[q].user, req'[q].new>> \in index'
    BY <2>1, <2>2 DEF Becomes
  <2>4. QED  BY <2>1, <2>3, UserKept, ListedMoves DEF history
<1>4. ASSUME NEW r \in Requests, RenewGet(r) \/ RenewDel(r) \/ OutDel(r)
      PROVE  ListedOK'
  <2>1. Becomes(r, req'[r]) /\ req'[r].pc \notin {"set", "out_srem"}
        /\ UNCHANGED <<owner, missed>>
    BY <1>4, RenewMoves
  <2>2. index' = index
    BY <1>4 DEF RenewGet, RenewDel, OutDel, store
  <2>3. \A s \in Sids : user'[s] \in {user[s], None}
    <3>1. CASE RenewGet(r)
      BY <3>1, UserKept DEF RenewGet, store
    <3>2. CASE RenewDel(r) \/ OutDel(r)
      <4>1. req[r].sid \in Sids
        BY <3>2 DEF Base, CookieOK, RenewDel, OutDel
      <4>2. QED  BY <1>1, <3>2, <4>1, RemoveIs DEF RenewDel, OutDel
    <3>3. QED  BY <1>4, <3>1, <3>2
  <2>4. \A q \in Callers :
          req'[q] = req[q] \/ req'[q].pc \notin {"set", "out_srem"}
    BY <2>1 DEF Becomes
  <2>5. QED  BY <2>1, <2>2, <2>3, <2>4, ListedMoves
<1>5. ASSUME NEW r \in Requests, RenewSRem(r) \/ OutSRem(r)
      PROVE  ListedOK'
  <2>1. Becomes(r, req'[r]) /\ req'[r].pc \notin {"set", "out_srem"}
        /\ UNCHANGED <<owner, missed>>
    BY <1>5, RenewMoves
  <2>2. user' = user
    BY <1>5 DEF RenewSRem, OutSRem
  <2>3. ASSUME NEW u \in Users, NEW s \in Sids,
               <<u, s>> \in index, <<u, s>> \notin index'
        PROVE  s \in missed \/ Closed(s)
    <3>1. CASE RenewSRem(r)
      <4>1. s = req[r].sid
        BY <2>3, <3>1 DEF RenewSRem
      <4>2. QED
        BY <3>1, <4>1 DEF Base, CookieOK, RenewSRem, Closed, Renewing
    <3>2. CASE OutSRem(r)
      <4>1. s = req[r].new /\ req[r].pc = "out_srem"
        BY <2>3, <3>2 DEF OutSRem
      <4>2. QED  BY <4>1 DEF ListedOK, Callers
    <3>3. QED  BY <1>5, <3>1, <3>2
  <2>4. \A q \in Callers :
          req'[q] = req[q] \/ req'[q].pc \notin {"set", "out_srem"}
    BY <2>1 DEF Becomes
  <2>5. QED  BY <2>1, <2>2, <2>3, <2>4, UserKept, ListedMoves
<1>6. ASSUME NEW r \in Requests, NEW s \in Sids, OutCheck(r, s)
      PROVE  ListedOK'
  <2>1. /\ UNCHANGED <<user, index, owner>> /\ missed \subseteq missed'
        /\ r \in Callers
    BY <1>6 DEF OutCheck, store, Callers
  <2>2. req[r].todo \ {s} \in SUBSET Sids
    BY <1>1, <2>1 DEF TypeOK, Request
  <2>3. CASE SetsTodoNew(r, "out_srem", req[r].todo \ {s}, s) /\ ~Exists(s)
             /\ missed' = missed \cup {t \in {s} : owner[t] = None}
    <3>1. Becomes(r, req'[r]) /\ req'[r].pc = "out_srem" /\ req'[r].new = s
      BY <1>1, <2>1, <2>2, <2>3, SetsTodoNewIs DEF PC
    <3>2. s \in missed' \/ Closed(s)
      BY <2>3 DEF Closed
    <3>3. \A q \in Callers :
            \/ req'[q] = req[q]
            \/ /\ req'[q].pc = "out_srem"
               /\ req'[q].new \in missed' \/ (req'[q].new \in Sids
                                               /\ Closed(req'[q].new))
      BY <3>1, <3>2 DEF Becomes
    <3>4. QED  BY <2>1, <3>3, UserKept, ListedMoves
  <2>4. CASE SetsTodo(r, IF req[r].todo \ {s} = {} THEN "ok" ELSE "out_check",
                      req[r].todo \ {s})
    <3>1. PICK pc \in {"ok", "out_check"} : SetsTodo(r, pc, req[r].todo \ {s})
      BY <2>4
    <3>2. Becomes(r, req'[r]) /\ req'[r].pc = pc
      BY <1>1, <2>1, <2>2, <3>1, SetsTodoIs DEF PC
    <3>3. \A q \in Callers :
            req'[q] = req[q] \/ req'[q].pc \notin {"set", "out_srem"}
      BY <3>2 DEF Becomes
    <3>4. QED  BY <2>1, <3>3, UserKept, ListedMoves
  <2>5. \/ /\ SetsTodoNew(r, "out_srem", req[r].todo \ {s}, s) /\ ~Exists(s)
           /\ missed' = missed \cup {t \in {s} : owner[t] = None}
        \/ SetsTodo(r, IF req[r].todo \ {s} = {} THEN "ok" ELSE "out_check",
                    req[r].todo \ {s})
    BY <1>6 DEF OutCheck, SetsTodo, SetsTodoNew
  <2>6. QED  BY <2>3, <2>4, <2>5
<1>7. ASSUME NEW s \in Sids, Expire(s) PROVE ListedOK'
  <2>1. Remove(s) /\ UNCHANGED <<index, req, history>>
    BY <1>7 DEF Expire
  <2>2. QED  BY <1>1, <2>1, RemoveIs, ListedMoves DEF history
<1>8. QED
  BY <1>2, <1>3, <1>4, <1>5, <1>6, <1>7, QuietSteps, ListedSet
  DEF Next, SetNewStep, AuthStep, OutStep, Finished

\* The list of a user's sessions, which Sync and the rest of the backend go
\* by, has every open session but those that a Sync looked for between the
\* SADD and the SET of SetNew: no renewal, sign-out or request that fails
\* half-way takes an open session off it.
THEOREM ListedUnlessMissedCorrect == Spec => []ListedUnlessMissed
<1>1. Init => ListedOK
  BY DEF Init, ListedOK, ListedUnlessMissed, OpenSessions, Exists
<1>2. Base /\ Base' /\ ListedOK /\ [Next]_vars => ListedOK'
  BY ListedStep
<1>3. ListedOK => ListedUnlessMissed
  BY DEF ListedOK
<1>4. QED  BY <1>1, <1>2, <1>3, BaseCorrect, PTL DEF Spec

\* The open sessions of a sign-in, and who renews one of them
Of(i) == {s \in Sids : Exists(s) /\ origin[s] = i}
Renews(r, i) == req[r].pc \in Renewing /\ origin[req[r].sid] = i

\* As long as no session of a sign-in was read by two renewals, it has one,
\* or one renewal that has read it; until that deletes it, both.
OriginOK(i) ==
  i \notin forked =>
    /\ \A s, t \in Of(i) : s = t
    /\ \A r \in Requests :
         Renews(r, i) =>
           /\ \A t \in Of(i) : req[r].pc = "del" /\ t = req[r].sid
           /\ \A q \in Requests : Renews(q, i) => q = r

\* A session of a sign-in that no renewal has read is the only one open, and
\* no other is being renewed.
NewestOK(i) ==
  i \notin forked =>
    \A s \in Sids :
      origin[s] = i /\ s \notin renewed =>
        /\ \A t \in Of(i) : t = s
        /\ \A q \in Requests : ~Renews(q, i)

\* A step that stores no session and begins no renewal
Stays ==
  /\ \A s \in Sids : user'[s] \in {user[s], None}
  /\ origin' = origin /\ forked \subseteq forked'
  /\ \A q \in Requests :
       req'[q].pc \in Renewing =>
         /\ req[q].pc \in Renewing /\ req'[q].sid = req[q].sid
         /\ \/ req'[q].pc = "del" \/ req[q].pc # "del"
            \/ user'[req[q].sid] = None

\* Such a step leaves what is known of the sign-in.
LEMMA OriginMoves ==
  ASSUME Base, NEW i \in SignIns, OriginOK(i), Stays
  PROVE  OriginOK(i)'
<1> USE DEF Stays
<1>1. SUFFICES ASSUME i \notin forked'
               PROVE  /\ \A s, t \in Of(i)' : s = t
                      /\ \A r \in Requests :
                           Renews(r, i)' =>
                             /\ \A t \in Of(i)' : req'[r].pc = "del" /\ t = req'[r].sid
                             /\ \A q \in Requests : Renews(q, i)' => q = r
  BY DEF OriginOK
<1>2. i \notin forked
  BY <1>1
<1>3. \A t \in Of(i)' : t \in Of(i) /\ user'[t] # None
  BY DEF Of, Exists
<1>4. \A q \in Requests : Renews(q, i)' =>
        /\ Renews(q, i) /\ req'[q].sid = req[q].sid
        /\ \/ req'[q].pc = "del" \/ req[q].pc # "del"
           \/ user'[req[q].sid] = None
  BY DEF Renews
<1>5. \A s, t \in Of(i)' : s = t
  BY <1>2, <1>3 DEF OriginOK
<1>6. ASSUME NEW r \in Requests, Renews(r, i)'
      PROVE  /\ \A t \in Of(i)' : req'[r].pc = "del" /\ t = req'[r].sid
             /\ \A q \in Requests : Renews(q, i)' => q = r
  <2>1. /\ \A t \in Of(i) : req[r].pc = "del" /\ t = req[r].sid
        /\ \A q \in Requests : Renews(q, i) => q = r
    BY <1>2, <1>4, <1>6 DEF OriginOK
  <2>2. \A t \in Of(i)' : req'[r].pc = "del" /\ t = req'[r].sid
    BY <1>3, <1>4, <1>6, <2>1
  <2>3. QED  BY <1>4, <2>1, <2>2
<1>7. QED  BY <1>5, <1>6

\* GET of a renewal: the first to read the session of a sign-in finds no
\* other renewal of it, and the second forks it.
LEMMA OriginGet ==
  ASSUME Base, NEW i \in SignIns, OriginOK(i), NEW r \in Requests, RenewGet(r)
  PROVE  OriginOK(i)'
<1>1. /\ r \in Callers /\ TypeOK /\ req[r].pc = "get" /\ req[r].sid \in Sids
  BY RequestHas DEF RenewGet, CookieOK
<1>2. PICK s \in Sids : s = req[r].sid
  BY <1>1
<1>3. /\ Becomes(r, req'[r]) /\ req'[r].sid = s
      /\ origin' = origin /\ forked \subseteq forked' /\ user' = user
  BY <1>2, RenewMoves DEF RenewGet, store
<1>4. \A q \in Requests \ {r} : req'[q] = req[q]
  BY <1>3 DEF Becomes, Callers
<1>5. CASE ~Exists(s) \/ origin[s] # i
  <2>1. Of(i)' = Of(i)
    BY <1>3 DEF Of, Exists
  <2>2. ~Renews(r, i)'
    <3>1. CASE ~Exists(s)
      <4>1. RefuseAuth(r)
        BY <1>2, <3>1 DEF RenewGet
      <4>2. req'[r].pc = "ko"
        BY <1>1, <4>1, GotoIs DEF RefuseAuth, PC
      <4>3. QED  BY <4>2 DEF Renews, Renewing
    <3>2. CASE origin[s] # i
      BY <1>3, <3>2 DEF Renews
    <3>3. QED  BY <1>5, <3>1, <3>2
  <2>3. \A q \in Requests \ {r} : Renews(q, i)' <=> Renews(q, i)
    BY <1>3, <1>4 DEF Renews
  <2>4. QED  BY <1>3, <1>4, <2>1, <2>2, <2>3 DEF OriginOK
<1>6. CASE Exists(s) /\ origin[s] = i
  <2>1. /\ SetsUser(r, "del", user[s]) /\ user[s] \in Users
        /\ forked' = IF s \in renewed THEN forked \cup {i} ELSE forked
    BY <1>1, <1>2, <1>6 DEF RenewGet, SetsUser, Exists, TypeOK
  <2>2. req'[r].pc = "del"
    BY <1>1, <2>1, SetsUserIs DEF PC
  <2>3. CASE i \in forked'
    BY <2>3 DEF OriginOK
  <2>4. CASE i \notin forked'
    <3>1. i \notin forked /\ s \notin renewed /\ s \in Of(i)
      BY <1>6, <2>1, <2>4 DEF Of
    <3>2. \A q \in Requests : ~Renews(q, i)
      <4>1. ASSUME NEW q \in Requests, Renews(q, i) PROVE FALSE
        <5>1. s = req[q].sid
          BY <3>1, <4>1 DEF OriginOK
        <5>2. req[q].sid \in renewed
          BY <4>1 DEF Base, CookieOK, Renews
        <5>3. QED  BY <3>1, <5>1, <5>2
      <4>2. QED  BY <4>1
    <3>3. \A q \in Requests : Renews(q, i)' => q = r
      BY <1>3, <1>4, <3>2 DEF Renews
    <3>4. Of(i)' = Of(i)
      BY <1>3 DEF Of, Exists
    <3>5. \A t \in Of(i) : t = s
      BY <3>1 DEF OriginOK
    <3>6. QED  BY <1>3, <2>2, <3>3, <3>4, <3>5 DEF OriginOK
  <2>5. QED  BY <2>3, <2>4
<1>7. QED  BY <1>5, <1>6

\* SET of a sign-in stores its first session; that of a renewal follows the
\* DEL of the only one: s is stored as one of the sign-in o.
Stored(s, o, i) ==
  /\ UNCHANGED <<forked, renewed>>
  /\ \A q \in Requests : Renews(q, i)' => Renews(q, i) /\ req'[q] = req[q]
  /\ \A t \in Of(i)' : t \in Of(i) \/ (t = s /\ o = i)
  /\ \A t \in Sids \ {s} : origin'[t] = origin[t]
  /\ origin'[s] = o
  /\ o = i => \/ \A t \in Sids : origin[t] # i
              \/ \E q \in Requests : Renews(q, i)
  /\ o = i /\ i \notin forked =>
       Of(i) = {} /\ \A q \in Requests : ~Renews(q, i)'

\* The SET of SetNew does that.
LEMMA SetStores ==
  ASSUME Base, NEW i \in SignIns, OriginOK(i), NEW r \in Callers, SetNewSet(r)
  PROVE  \E s \in Sids, o \in SignIns : Stored(s, o, i)
<1>1. /\ TypeOK /\ req[r].user \in Users /\ req[r].pc = "set" /\ NewOK(r)
      /\ r \in SignIns \/ r \in Requests
      /\ r \in SignIns => r \notin Requests /\ SignInOK(r)
      /\ r \in Requests => CookieOK(r)
      /\ req[r] \in Request /\ req \in [Callers -> Request]
  BY CallerHas DEF SetNewSet, Base, TypeOK
<1>2. PICK s \in Sids : s = req[r].new
  BY <1>1 DEF NewOK, TypeOK
<1>3. owner[s] = None /\ user[s] = None
  BY <1>1, <1>2 DEF NewOK, TypeOK
<1>4. PICK o \in SignIns :
        /\ origin' = [origin EXCEPT ![s] = o]
        /\ r \in SignIns => o = r
        /\ r \in Requests => o = origin[req[r].sid]
  <2>1. origin' = [origin EXCEPT ![s] = IF r \in SignIns THEN r
                                        ELSE origin[req[r].sid]]
    BY <1>2 DEF SetNewSet
  <2>2. r \in Requests => req[r].sid \in Sids /\ owner[req[r].sid] # None
    BY <1>1 DEF CookieOK
  <2>3. r \in Requests => origin[req[r].sid] \in SignIns
    BY <2>2 DEF Base, IssuedOK
  <2>4. QED  BY <1>1, <2>1, <2>3
<1>5. /\ user' = [user EXCEPT ![s] = req[r].user]
      /\ UNCHANGED <<forked, renewed>>
  BY <1>2 DEF SetNewSet
<1>6. /\ \A q \in Callers \ {r} : req'[q] = req[q]
      /\ req'[r].pc \notin Renewing
  <2>1. CASE Goto(r, "failing")
    BY <1>1, <2>1, GotoIs DEF Becomes, PC, Renewing
  <2>2. CASE SetsSid(r, IF r \in SignIns THEN "ok" ELSE "extract", s)
    <3>1. PICK pc \in {"ok", "extract"} : SetsSid(r, pc, s)
      BY <2>2
    <3>2. QED  BY <1>1, <3>1, SetsSidIs DEF Becomes, PC, Renewing
  <2>3. QED  BY <1>2, <2>1, <2>2 DEF SetNewSet, SetsSid
<1>7. ASSUME NEW q \in Requests
      PROVE  Renews(q, i)' => Renews(q, i) /\ q # r /\ req'[q] = req[q]
  <2>1. CASE q = r
    BY <1>6, <2>1 DEF Renews
  <2>2. CASE q # r
    <3>1. req'[q] = req[q] /\ CookieOK(q)
      BY <1>6, <2>2 DEF Callers, Base
    <3>2. req[q].pc \in Renewing => req[q].sid \in Sids \ {s}
      BY <1>3, <3>1 DEF CookieOK, Renewing
    <3>3. req[q].pc \in Renewing => origin'[req[q].sid] = origin[req[q].sid]
      BY <1>1, <1>4, <3>2 DEF TypeOK
    <3>4. QED  BY <2>2, <3>1, <3>3 DEF Renews
  <2>3. QED  BY <2>1, <2>2
<1>8. /\ \A t \in Of(i)' : t \in Of(i) \/ (t = s /\ o = i)
      /\ \A t \in Sids \ {s} : user'[t] = user[t] /\ origin'[t] = origin[t]
      /\ origin'[s] = o
  BY <1>1, <1>4, <1>5 DEF Of, Exists, TypeOK
<1>9. ASSUME o = i
      PROVE  \/ r \in SignIns /\ \A t \in Sids : origin[t] # i
             \/ r \in Requests /\ Renews(r, i)
  <2>1. CASE r \in SignIns
    BY <1>1, <1>4, <1>9, <2>1 DEF SignInOK
  <2>2. CASE r \in Requests
    BY <1>1, <1>4, <1>9, <2>2 DEF Renews, Renewing
  <2>3. QED  BY <1>1, <2>1, <2>2
<1>10. ASSUME o = i, i \notin forked
       PROVE  Of(i) = {} /\ \A q \in Requests : ~Renews(q, i)'
  <2>1. CASE r \in SignIns /\ \A t \in Sids : origin[t] # i
    <3>1. ASSUME NEW q \in Requests, Renews(q, i) PROVE FALSE
      BY <2>1, <3>1 DEF Base, CookieOK, Renews, Renewing
    <3>2. QED  BY <1>7, <2>1, <3>1 DEF Of
  <2>2. CASE r \in Requests /\ Renews(r, i)
    BY <1>1, <1>7, <1>10, <2>2 DEF OriginOK
  <2>3. QED  BY <1>9, <1>10, <2>1, <2>2
<1>11. Stored(s, o, i)
  BY <1>5, <1>7, <1>8, <1>9, <1>10 DEF Stored
<1>12. QED  BY <1>11

\* So it leaves one session, or one renewal.
LEMMA OriginSet ==
  ASSUME NEW i \in SignIns, OriginOK(i),
         NEW s \in Sids, NEW o \in SignIns, Stored(s, o, i)
  PROVE  OriginOK(i)'
<1>1. CASE o = i /\ i \notin forked
  <2>1. \A t \in Of(i)' : t = s
    BY <1>1 DEF Stored
  <2>2. QED  BY <1>1, <2>1 DEF Stored, OriginOK
<1>2. CASE o # i \/ i \in forked
  <2>1. i \notin forked' => o # i /\ i \notin forked
    BY <1>2 DEF Stored
  <2>2. i \notin forked' =>
          /\ \A t \in Of(i)' : t \in Of(i)
          /\ \A q \in Requests : Renews(q, i)' => Renews(q, i) /\ req'[q] = req[q]
    BY <2>1 DEF Stored
  <2>3. QED  BY <2>1, <2>2 DEF OriginOK
<1>3. QED  BY <1>1, <1>2

\* Only GET of a renewal and SET do more.
LEMMA Staying ==
  ASSUME Base, [Next]_vars
  PROVE  \/ Stays
         \/ \E r \in Requests : RenewGet(r)
         \/ \E r \in Callers : SetNewSet(r)
<1>1. TypeOK
  BY DEF Base
<1>2. CASE Quiet
  <2>1. \A q \in Requests : req'[q].pc \in Renewing => req'[q] = req[q]
    BY <1>2 DEF Quiet, Callers
  <2>2. QED  BY <1>2, <2>1, UserKept DEF Quiet, Stays
<1>3. ASSUME NEW r \in Requests,
             RenewDel(r) \/ RenewSRem(r) \/ OutDel(r) \/ OutSRem(r)
      PROVE  Stays
  <2>1. /\ Becomes(r, req'[r]) /\ req'[r].sid = req[r].sid
        /\ origin' = origin /\ forked \subseteq forked'
    BY <1>3, RenewMoves
  <2>2. \A s \in Sids : user'[s] \in {user[s], None}
    <3>1. CASE RenewDel(r) \/ OutDel(r)
      <4>1. req[r].sid \in Sids
        BY <3>1 DEF Base, CookieOK, RenewDel, OutDel
      <4>2. QED  BY <1>1, <3>1, <4>1, RemoveIs DEF RenewDel, OutDel
    <3>2. CASE RenewSRem(r) \/ OutSRem(r)
      BY <3>2, UserKept DEF RenewSRem, OutSRem
    <3>3. QED  BY <1>3, <3>1, <3>2
  <2>3. req'[r].pc \in Renewing =>
          req[r].pc = "srem" \/ (req[r].pc = "del" /\ user'[req[r].sid] = None)
    <3>1. CASE RenewDel(r)
      <4>1. req[r].pc = "del" /\ req[r].sid \in Sids
        BY <3>1 DEF Base, CookieOK, RenewDel
      <4>2. QED  BY <1>1, <3>1, <4>1, RemoveIs DEF RenewDel
    <3>2. CASE RenewSRem(r)
      BY <3>2 DEF RenewSRem
    <3>3. CASE OutDel(r) \/ OutSRem(r)
      <4>1. PICK pc \in {"ok", "ko", "out_members", "out_check"} : Goto(r, pc)
        BY <3>3 DEF OutDel, OutSRem
      <4>2. req'[r].pc = pc
        BY <1>1, <4>1, GotoIs DEF PC, Callers
      <4>3. QED  BY <4>2 DEF Renewing
    <3>4. QED  BY <1>3, <3>1, <3>2, <3>3
  <2>4. ASSUME NEW q \in Requests, req'[q].pc \in Renewing
        PROVE  /\ req[q].pc \in Renewing /\ req'[q].sid = req[q].sid
               /\ \/ req'[q].pc = "del" \/ req[q].pc # "del"
                  \/ user'[req[q].sid] = None
    <3>1. CASE q = r
      BY <2>1, <2>3, <2>4, <3>1 DEF Renewing
    <3>2. CASE q # r
      BY <2>1, <2>4, <3>2 DEF Becomes, Callers
    <3>3. QED  BY <3>1, <3>2
  <2>5. QED  BY <2>1, <2>2, <2>4 DEF Stays
<1>4. ASSUME NEW r \in Callers, NEW s \in Sids, SetNewAdd(r, s)
      PROVE  Stays
  <2>1. UNCHANGED <<user, origin, forked>> /\ req[r].pc = "sadd"
    BY <1>4 DEF SetNewAdd, history
  <2>2. Becomes(r, req'[r]) /\ req'[r].sid = req[r].sid /\ req'[r].pc # "del"
    <3>1. CASE Goto(r, "failing")
      BY <1>1, <3>1, GotoIs DEF PC
    <3>2. CASE SetsNew(r, "set", s)
      BY <1>1, <3>2, SetsNewIs DEF PC
    <3>3. QED  BY <1>4, <3>1, <3>2 DEF SetNewAdd, SetsNew
  <2>3. ASSUME NEW q \in Requests, req'[q].pc \in Renewing
        PROVE  /\ req[q].pc \in Renewing /\ req'[q].sid = req[q].sid
               /\ req'[q].pc = "del" \/ req[q].pc # "del"
    <3>1. CASE q = r
      BY <2>1, <2>2, <3>1 DEF Renewing
    <3>2. CASE q # r
      BY <2>2, <2>3, <3>2 DEF Becomes, Callers
    <3>3. QED  BY <3>1, <3>2
  <2>4. QED  BY <2>1, <2>3, UserKept DEF Stays
<1>5. ASSUME NEW r \in Requests, NEW s \in Sids, OutCheck(r, s)
      PROVE  Stays
  <2>1. UNCHANGED <<user, origin, forked>> /\ r \in Callers
    BY <1>5 DEF OutCheck, store, Callers
  <2>2. Becomes(r, req'[r]) /\ req'[r].pc \in {"ok", "out_check", "out_srem"}
    <3>1. req[r].todo \ {s} \in SUBSET Sids
      BY <1>1, <2>1 DEF TypeOK, Request
    <3>2. CASE SetsTodoNew(r, "out_srem", req[r].todo \ {s}, s)
      BY <1>1, <2>1, <3>1, <3>2, SetsTodoNewIs DEF PC
    <3>3. CASE \E pc \in {"ok", "out_check"} : SetsTodo(r, pc, req[r].todo \ {s})
      BY <1>1, <2>1, <3>1, <3>3, SetsTodoIs DEF PC
    <3>4. \/ SetsTodoNew(r, "out_srem", req[r].todo \ {s}, s)
          \/ SetsTodo(r, IF req[r].todo \ {s} = {} THEN "ok" ELSE "out_check",
                      req[r].todo \ {s})
      BY <1>5 DEF OutCheck, SetsTodo, SetsTodoNew
    <3>5. QED  BY <3>2, <3>3, <3>4
  <2>3. \A q \in Requests : req'[q].pc \in Renewing => req'[q] = req[q]
    BY <2>2 DEF Becomes, Callers, Renewing
  <2>4. QED  BY <2>1, <2>3, UserKept DEF Stays
<1>6. ASSUME NEW s \in Sids, Expire(s) PROVE Stays
  <2>1. Remove(s) /\ UNCHANGED <<req, history>>
    BY <1>6 DEF Expire
  <2>2. QED  BY <1>1, <2>1, RemoveIs DEF Stays, history
<1>7. QED
  BY <1>2, <1>3, <1>4, <1>5, <1>6, QuietSteps
  DEF Next, SetNewStep, AuthStep, OutStep, Finished

\* Every step keeps one session, or one renewal, per sign-in.
LEMMA OriginStep ==
  ASSUME Base, NEW i \in SignIns, OriginOK(i), [Next]_vars
  PROVE  OriginOK(i)'
<1>1. CASE \E r \in Callers : SetNewSet(r)
  BY <1>1, SetStores, OriginSet
<1>2. QED  BY <1>1, Staying, OriginMoves, OriginGet

\* What a renewal has read stays read.
LEMMA RenewedGrows == [Next]_vars => renewed \subseteq renewed'
  BY DEF Next, vars, history, SignIn, SetNewStep, SetNewSet, SetNewAdd, AuthFails,
         AuthStep, Has, TTL, RenewGet, RenewDel, RenewSRem, Extract, Arrive,
         OutStep, OutGet, OutDel, OutMembers, OutSRem, OutFails, OutCheck,
         GoogleCallbackPanics, Age, Expire, Finished

\* Every step leaves the one that was not read the newest.
LEMMA NewestStep ==
  ASSUME Base, NEW i \in SignIns, OriginOK(i), NewestOK(i), [Next]_vars
  PROVE  NewestOK(i)'
<1>1. renewed \subseteq renewed'
  BY RenewedGrows
<1>2. CASE Stays
  <2>1. \A t \in Of(i)' : t \in Of(i)
    BY <1>2 DEF Stays, Of, Exists
  <2>2. \A q \in Requests : Renews(q, i)' => Renews(q, i)
    BY <1>2 DEF Stays, Renews
  <2>3. QED  BY <1>1, <1>2, <2>1, <2>2 DEF Stays, NewestOK
<1>3. ASSUME NEW r \in Requests, RenewGet(r)
      PROVE  NewestOK(i)'
  <2>1. /\ Becomes(r, req'[r]) /\ req'[r].sid = req[r].sid
        /\ UNCHANGED <<user, origin>> /\ forked \subseteq forked'
        /\ r \in Callers /\ TypeOK /\ req[r].sid \in Sids
    BY <1>3, RenewMoves, RequestHas DEF RenewGet, CookieOK, store
  <2>2. Of(i)' = Of(i)
    BY <2>1 DEF Of, Exists
  <2>3. ASSUME i \notin forked', NEW s \in Sids, origin[s] = i, s \notin renewed'
        PROVE  /\ \A t \in Of(i) : t = s
               /\ \A q \in Requests : ~Renews(q, i)'
    <3>1. /\ \A t \in Of(i) : t = s
          /\ \A q \in Requests : ~Renews(q, i)
      BY <1>1, <2>1, <2>3 DEF NewestOK
    <3>2. ~Renews(r, i)'
      <4>1. CASE ~Exists(req[r].sid)
        <5>1. Goto(r, "ko")
          BY <1>3, <4>1 DEF RenewGet, RefuseAuth
        <5>2. req'[r].pc = "ko"
          BY <2>1, <5>1, GotoIs DEF PC
        <5>3. QED  BY <5>2 DEF Renews, Renewing
      <4>2. CASE Exists(req[r].sid)
        <5>1. req[r].sid \in renewed'
          BY <1>3, <4>2 DEF RenewGet
        <5>2. origin[req[r].sid] # i
          BY <2>1, <2>3, <3>1, <4>2, <5>1 DEF Of
        <5>3. QED  BY <2>1, <5>2 DEF Renews
      <4>3. QED  BY <4>1, <4>2
    <3>3. \A q \in Requests \ {r} : ~Renews(q, i)'
      BY <2>1, <3>1 DEF Renews, Becomes, Callers
    <3>4. QED  BY <3>1, <3>2, <3>3
  <2>4. QED  BY <2>1, <2>2, <2>3 DEF NewestOK
<1>4. ASSUME NEW r \in Callers, SetNewSet(r)
      PROVE  NewestOK(i)'
  <2>1. PICK s \in Sids, o \in SignIns : Stored(s, o, i)
    BY <1>4, SetStores
  <2>2. ASSUME i \notin forked', NEW x \in Sids, origin'[x] = i, x \notin renewed'
        PROVE  /\ \A t \in Of(i)' : t = x
               /\ \A q \in Requests : ~Renews(q, i)'
    <3>1. i \notin forked /\ x \notin renewed
      BY <2>1, <2>2 DEF Stored
    <3>2. CASE x = s
      <4>1. o = i /\ Of(i) = {} /\ \A q \in Requests : ~Renews(q, i)'
        BY <2>1, <2>2, <3>1, <3>2 DEF Stored
      <4>2. \A t \in Of(i)' : t \in Of(i) \/ t = s
        BY <2>1 DEF Stored
      <4>3. QED  BY <3>2, <4>1, <4>2
    <3>3. CASE x # s
      <4>1. origin[x] = i
        BY <2>1, <2>2, <3>3 DEF Stored
      <4>2. /\ \A t \in Of(i) : t = x
            /\ \A q \in Requests : ~Renews(q, i)
        BY <3>1, <4>1 DEF NewestOK
      <4>3. o # i
        BY <2>1, <4>1, <4>2 DEF Stored
      <4>4. QED  BY <2>1, <4>2, <4>3 DEF Stored
    <3>4. QED  BY <3>2, <3>3
  <2>3. QED  BY <2>2 DEF NewestOK
<1>5. QED  BY <1>2, <1>3, <1>4, Staying

\* A sign-in leads to one open session at a time, however often it is renewed
\* and whatever fails half-way, unless two renewals have read the same session
\* before one of them deleted it.
THEOREM OneSessionPerSignInCorrect == Spec => []OneSessionPerSignIn
<1> DEFINE Origins == \A i \in SignIns : OriginOK(i)
<1>1. Init => Origins
  BY DEF Init, OriginOK, Of, Renews, Renewing, Exists, Callers
<1>2. Base /\ Origins /\ [Next]_vars => Origins'
  BY OriginStep
<1>3. Base /\ Origins => OneSessionPerSignIn
  <2>1. ASSUME Base, Origins, NEW s \in OpenSessions, NEW t \in OpenSessions,
               origin[s] = origin[t], origin[s] \notin forked
        PROVE  s = t
    <3>1. s \in Sids /\ owner[s] # None
      BY <2>1 DEF Base, TypeOK, OpenSessions, Exists
    <3>2. origin[s] \in SignIns
      BY <2>1, <3>1 DEF Base, IssuedOK
    <3>3. s \in Of(origin[s]) /\ t \in Of(origin[s])
      BY <2>1 DEF OpenSessions, Of
    <3>4. QED  BY <2>1, <3>2, <3>3 DEF OriginOK
  <2>2. QED  BY <2>1 DEF OneSessionPerSignIn
<1>4. HIDE DEF Origins
<1>5. QED  BY <1>1, <1>2, <1>3, BaseCorrect, PTL DEF Spec

\* A sign-out that extauth reported as done has closed the session of its
\* cookie, the one it was renewed to, and every other session of the sign-in:
\* what SetNew stores later descends from a session that a renewal had read
\* before the sign-out deleted it, or from one that two renewals had read.
THEOREM SignedOutIsClosedCorrect == Spec => []SignedOutIsClosed
<1> DEFINE Lines == \A i \in SignIns : OriginOK(i) /\ NewestOK(i)
<1>1. Init => Lines
  <2>1. ASSUME Init, NEW i \in SignIns
        PROVE  OriginOK(i) /\ NewestOK(i)
    <3>1. \A s \in Sids : origin[s] # i
      BY <2>1, SessionAssumption DEF Init
    <3>2. QED
      BY <2>1, <3>1 DEF Init, OriginOK, NewestOK, Of, Renews, Renewing, Callers
  <2>2. QED  BY <2>1
<1>2. Base /\ Lines /\ [Next]_vars => Lines'
  BY OriginStep, NewestStep
<1>3. Base /\ Lines => SignedOutIsClosed
  <2>1. ASSUME Base, Lines, NEW r \in Requests,
               req[r].kind = "signout", req[r].pc = "ok"
        PROVE  /\ ~Exists(req[r].cookie) /\ ~Exists(req[r].sid)
               /\ \A s \in OpenSessions :
                    origin[s] = origin[req[r].sid]
                      => req[r].sid \in renewed \/ origin[s] \in forked
    <3>1. /\ req[r].sid \in Sids /\ owner[req[r].sid] # None
          /\ ~Exists(req[r].cookie) /\ ~Exists(req[r].sid)
      BY <2>1 DEF Base, CookieOK
    <3>2. ASSUME NEW s \in OpenSessions, origin[s] = origin[req[r].sid],
                 req[r].sid \notin renewed, origin[s] \notin forked
          PROVE  FALSE
      <4>1. origin[s] \in SignIns
        BY <2>1, <3>1, <3>2 DEF Base, IssuedOK
      <4>2. s \in Of(origin[s]) /\ Exists(s)
        BY <3>2 DEF OpenSessions, Of
      <4>3. s = req[r].sid
        BY <2>1, <3>1, <3>2, <4>1, <4>2 DEF NewestOK
      <4>4. QED  BY <3>1, <4>2, <4>3
    <3>3. QED  BY <3>1, <3>2
  <2>2. QED  BY <2>1 DEF SignedOutIsClosed
<1>4. HIDE DEF Lines
<1>5. QED  BY <1>1, <1>2, <1>3, BaseCorrect, PTL DEF Spec
=============================================================================
