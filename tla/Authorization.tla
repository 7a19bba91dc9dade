--------------------------- MODULE Authorization ---------------------------
(***************************************************************************)
(* What the session manager promises to extauth and the backend, without   *)
(* Redis commands: a session id is issued once, to one user; its session   *)
(* is open from then until it is closed, for good; and the answer to a     *)
(* request is given at one instant, at which a session is open of the      *)
(* user to whom the request's cookie was issued.  A request is refused     *)
(* only when its own session is closed, or when one of its own commands    *)
(* failed.                                                                 *)
(***************************************************************************)
CONSTANTS
  Sids,      \* session ids
  Users,     \* user ids
  Requests,  \* requests that carry a cookie
  None       \* no value

VARIABLES
  owner,    \* owner[s]: the user s was issued to
  open,     \* the open sessions
  cookie,   \* cookie[r]: the session id that r carries
  answer,   \* answer[r]: the user r is authorized as, or "refused"
  errors    \* the requests that were answered with an error of Redis

vars == <<owner, open, cookie, answer, errors>>

Refused == "refused"

Init ==
  /\ owner = [s \in Sids |-> None]
  /\ open = {}
  /\ cookie = [r \in Requests |-> None]
  /\ answer = [r \in Requests |-> None]
  /\ errors = {}

Issue(s, u) ==
  /\ owner[s] = None
  /\ owner' = [owner EXCEPT ![s] = u]
  /\ open' = open \cup {s}
  /\ UNCHANGED <<cookie, answer, errors>>

Close(s) ==
  /\ open' = open \ {s}
  /\ UNCHANGED <<owner, cookie, answer, errors>>

Arrive(r, s) ==
  /\ cookie[r] = None
  /\ owner[s] # None
  /\ cookie' = [cookie EXCEPT ![r] = s]
  /\ UNCHANGED <<owner, open, answer, errors>>

Grant(r, s) ==
  /\ cookie[r] # None /\ answer[r] = None
  /\ s \in open
  /\ owner[s] = owner[cookie[r]]
  /\ answer' = [answer EXCEPT ![r] = owner[s]]
  /\ UNCHANGED <<owner, open, cookie, errors>>

Refuse(r) ==
  /\ cookie[r] # None /\ answer[r] = None
  /\ cookie[r] \notin open
  /\ answer' = [answer EXCEPT ![r] = Refused]
  /\ UNCHANGED <<owner, open, cookie, errors>>

Fail(r) ==
  /\ cookie[r] # None /\ answer[r] = None
  /\ answer' = [answer EXCEPT ![r] = Refused]
  /\ errors' = errors \cup {r}
  /\ UNCHANGED <<owner, open, cookie>>

Next ==
  \/ \E s \in Sids, u \in Users : Issue(s, u)
  \/ \E s \in Sids : Close(s)
  \/ \E r \in Requests, s \in Sids : Arrive(r, s) \/ Grant(r, s)
  \/ \E r \in Requests : Refuse(r) \/ Fail(r)

Spec == Init /\ [][Next]_vars
=============================================================================
