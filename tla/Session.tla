------------------------------ MODULE Session ------------------------------
(***************************************************************************)
(* Sessions: core/session/manager.go on Redis, the authorize middleware    *)
(* and SignOut of extauth, and the sign-ins of the backend, which end with *)
(* SetNew. Every Redis command is one step; requests interleave, and those *)
(* of one browser carry the same cookie.                                   *)
(*                                                                         *)
(* Redis keeps, under a session id, the user it belongs to, with a time to *)
(* live (`user`, `short`), and under a user id the set of its session ids  *)
(* (`index`). When RedisFails, a command may return an error, whether or   *)
(* not it was applied.                                                     *)
(***************************************************************************)
EXTENDS FiniteSets

CONSTANTS
  Sids,       \* session ids (ksuid: never generated twice)
  Users,      \* user ids
  Requests,   \* requests that carry a session cookie
  SignIns,    \* sign-in and sign-up requests, which get one
  None,       \* no value
  RedisFails, \* may a Redis command return an error?
  Restarts    \* may extauth end and start again?

ASSUME SessionAssumption ==
  /\ None \notin Sids \cup Users \cup SignIns
  /\ "refused" \notin Users /\ None # "refused"
  /\ Requests \cap SignIns = {}
  /\ RedisFails \in BOOLEAN /\ Restarts \in BOOLEAN

VARIABLES
  user,     \* user[s]: value of the key s, None when there is no such key
  short,    \* the keys with at most TTLRefresh to live
  index,    \* the <<user, session id>> pairs in the sets of session ids
  used,     \* the session ids generated
  req,      \* req[r]: the request r
  owner,    \* history: owner[s], the user s was set for
  origin,   \* history: origin[s], the sign-in that s descends from
  answer,   \* answer[r]: what authorize answered
  renewed,  \* history: sessions that some RenewSession has read
  forked,   \* history: sign-ins with a session that two renewals have read
  errors,   \* history: requests that authorize refused for an error of Redis
  missed    \* history: ids that Sync has looked for before their SET

store == <<user, short, index>>
history == <<owner, origin, renewed, forked, errors, missed>>
vars == <<user, short, index, used, req, owner, origin, answer, renewed, forked,
          errors, missed>>

Callers == Requests \cup SignIns

PC == {"idle", "has", "ttl", "get", "del", "srem", "sadd", "set", "extract",
       "failing", "out_get", "out_del", "out_members", "out_check", "out_srem",
       "ok", "ko"}

Request ==
  [pc : PC, kind : {"call", "signout"}, cookie : Sids \cup {None},
   sid : Sids \cup {None}, new : Sids \cup {None}, user : Users \cup {None},
   todo : SUBSET Sids]

Init ==
  /\ user = [s \in Sids |-> None]
  /\ short = {} /\ index = {} /\ used = {}
  /\ req = [r \in Callers |-> [pc |-> "idle", kind |-> "call", cookie |-> None,
                               sid |-> None, new |-> None, user |-> None,
                               todo |-> {}]]
  /\ owner = [s \in Sids |-> None]
  /\ origin = [s \in Sids |-> None]
  /\ answer = [r \in Requests |-> None]
  /\ renewed = {} /\ forked = {} /\ errors = {} /\ missed = {}
---------------------------------------------------------------------------
Exists(s) == user[s] # None

\* s is dropped from Redis, by DEL or because it expired.
Remove(s) ==
  /\ user' = [user EXCEPT ![s] = None]
  /\ short' = short \ {s}

Goto(r, pc) == req' = [req EXCEPT ![r].pc = pc]

\* Faulty variants, each refuted by a property: a renewal that empties the
\* user's set, one that leaves the old session, a sign-out of the session
\* that was renewed instead of the new one, a session refused because it is
\* about to expire.
RenewDropsIndex(r) ==
  /\ req[r].pc = "srem"
  /\ index' = {x \in index : x[1] # req[r].user}
  /\ req' = [req EXCEPT ![r].pc = "sadd"]
  /\ UNCHANGED <<user, short, used, history, answer>>

RenewWithoutDel(r) ==
  /\ req[r].pc = "del"
  /\ req' = [req EXCEPT ![r].pc = "srem"]
  /\ UNCHANGED <<store, used, history, answer>>

OutDelCookie(r) ==
  /\ req[r].pc = "out_del"
  /\ Remove(req[r].cookie)
  /\ Goto(r, "out_members")
  /\ UNCHANGED <<index, used, history, answer>>

HasLongToLive(r) ==
  /\ req[r].pc = "has"
  /\ IF Exists(req[r].sid) /\ req[r].sid \notin short
       THEN req' = [req EXCEPT ![r].pc = "ttl"] /\ UNCHANGED answer
       ELSE /\ req' = [req EXCEPT ![r].pc = "ko"]
            /\ answer' = [answer EXCEPT ![r] = "refused"]
  /\ UNCHANGED <<store, used, history>>

\* authorize answers with an error.
RefuseAuth(r) ==
  /\ Goto(r, "ko")
  /\ answer' = [answer EXCEPT ![r] = "refused"]

---------------------------------------------------------------------------
(* SetNew, at the end of a sign-in and of RenewSession.                    *)

SignIn(i, u) ==
  /\ req[i].pc = "idle"
  /\ req' = [req EXCEPT ![i].pc = "sadd", ![i].user = u]
  /\ UNCHANGED <<store, used, history, answer>>

\* SADD of a new session id to the user's set
SetNewAdd(r, s) ==
  /\ req[r].pc = "sadd"
  /\ s \notin used
  /\ used' = used \cup {s}
  /\ index' = index \cup {<<req[r].user, s>>}
  /\ \/ req' = [req EXCEPT ![r].pc = "set", ![r].new = s]
     \/ RedisFails /\ Goto(r, "failing")
  /\ UNCHANGED <<user, short, history, answer>>

\* SET of the session with its lifetime
SetNewSet(r) ==
  LET s == req[r].new IN
  /\ req[r].pc = "set"
  /\ user' = [user EXCEPT ![s] = req[r].user]
  /\ owner' = [owner EXCEPT ![s] = req[r].user]
  /\ origin' = [origin EXCEPT ![s] = IF r \in SignIns THEN r
                                     ELSE origin[req[r].sid]]
  /\ \/ req' = [req EXCEPT ![r].pc = IF r \in SignIns THEN "ok" ELSE "extract",
                           ![r].sid = s]
     \/ RedisFails /\ Goto(r, "failing")
  /\ UNCHANGED <<short, index, used, answer, renewed, forked, errors,
                 missed>>

---------------------------------------------------------------------------
(* authorize. A cookie holds a session id that was once set.               *)

Arrive(r, s, kind) ==
  /\ req[r].pc = "idle"
  /\ owner[s] # None
  /\ req' = [req EXCEPT ![r].pc = "has", ![r].kind = kind,
                        ![r].cookie = s, ![r].sid = s]
  /\ UNCHANGED <<store, used, history, answer>>

\* HasSession
Has(r) ==
  /\ req[r].pc = "has"
  /\ \/ Exists(req[r].sid) /\ Goto(r, "ttl") /\ UNCHANGED answer
     \/ ~Exists(req[r].sid) /\ RefuseAuth(r)
  /\ UNCHANGED <<store, used, history>>

\* TTL: a key that is gone has a negative one, which is below TTLRefresh.
TTL(r) ==
  LET s == req[r].sid IN
  /\ req[r].pc = "ttl"
  /\ \/ (s \in short \/ ~Exists(s)) /\ Goto(r, "get")
     \/ s \notin short /\ Exists(s) /\ Goto(r, "extract")
  /\ UNCHANGED <<store, used, history, answer>>

\* RenewSession: GET
RenewGet(r) ==
  LET s == req[r].sid IN
  /\ req[r].pc = "get"
  /\ \/ /\ Exists(s)
        /\ req' = [req EXCEPT ![r].pc = "del", ![r].user = user[s]]
        /\ renewed' = renewed \cup {s}
        /\ forked' = IF s \in renewed THEN forked \cup {origin[s]} ELSE forked
        /\ UNCHANGED answer
     \/ /\ ~Exists(s)
        /\ RefuseAuth(r)
        /\ UNCHANGED <<renewed, forked>>
  /\ UNCHANGED <<store, used, owner, origin, errors, missed>>

\* RenewSession: DEL
RenewDel(r) ==
  /\ req[r].pc = "del"
  /\ Remove(req[r].sid)
  /\ \/ Goto(r, "srem")
     \/ RedisFails /\ Goto(r, "failing")
  /\ UNCHANGED <<index, used, history, answer>>

\* RenewSession: SREM
RenewSRem(r) ==
  /\ req[r].pc = "srem"
  /\ index' = index \ {<<req[r].user, req[r].sid>>}
  /\ \/ Goto(r, "sadd")
     \/ RedisFails /\ Goto(r, "failing")
  /\ UNCHANGED <<user, short, used, history, answer>>

\* GetUserBySID, whose user goes upstream as x-user-id
Extract(r) ==
  LET s == req[r].sid IN
  /\ req[r].pc = "extract"
  /\ \/ /\ Exists(s)
        /\ answer' = [answer EXCEPT ![r] = user[s]]
        /\ Goto(r, IF req[r].kind = "signout" THEN "out_get" ELSE "ok")
     \/ ~Exists(s) /\ RefuseAuth(r)
  /\ UNCHANGED <<store, used, history>>

\* A command of authorize or of a sign-in returned an error ("failing"), or
\* returns one without having been applied.
AuthFails(r) ==
  /\ RedisFails
  /\ req[r].pc \in {"has", "ttl", "get", "del", "srem", "sadd", "set", "extract",
                    "failing"}
  /\ IF r \in SignIns
       THEN Goto(r, "ko") /\ UNCHANGED <<answer, errors>>
       ELSE RefuseAuth(r) /\ errors' = errors \cup {r}
  /\ UNCHANGED <<store, used, owner, origin, renewed, forked, missed>>
---------------------------------------------------------------------------
(* SignOut: Delete of the session that authorize passes on, which may be   *)
(* a renewed one, and Sync of the user's set.                              *)

\* Delete: GET
OutGet(r) ==
  LET s == req[r].sid IN
  /\ req[r].pc = "out_get"
  /\ \/ /\ Exists(s)
        /\ req' = [req EXCEPT ![r].pc = "out_del", ![r].user = user[s]]
     \/ ~Exists(s) /\ Goto(r, "ko")
  /\ UNCHANGED <<store, used, history, answer>>

\* Delete: DEL
OutDel(r) ==
  /\ req[r].pc = "out_del"
  /\ Remove(req[r].sid)
  /\ \/ Goto(r, "out_members")
     \/ RedisFails /\ Goto(r, "ko")
  /\ UNCHANGED <<index, used, history, answer>>

\* Sync: SMEMBERS
OutMembers(r) ==
  LET sids == {s \in Sids : <<req[r].user, s>> \in index} IN
  /\ req[r].pc = "out_members"
  /\ req' = [req EXCEPT ![r].pc = IF sids = {} THEN "ok" ELSE "out_check",
                        ![r].todo = sids]
  /\ UNCHANGED <<store, used, history, answer>>

\* Sync: GET of one of them
OutCheck(r, s) ==
  LET todo == req[r].todo \ {s} IN
  /\ req[r].pc = "out_check"
  /\ s \in req[r].todo
  /\ \/ /\ Exists(s)
        /\ req' = [req EXCEPT ![r].todo = todo,
                              ![r].pc = IF todo = {} THEN "ok" ELSE "out_check"]
        /\ UNCHANGED missed
     \/ /\ ~Exists(s)
        /\ req' = [req EXCEPT ![r].todo = todo, ![r].pc = "out_srem",
                              ![r].new = s]
        /\ missed' = missed \cup {t \in {s} : owner[t] = None}
  /\ UNCHANGED <<store, used, answer, owner, origin, renewed, forked, errors>>

\* Sync: SREM, whose error is not looked at
OutSRem(r) ==
  /\ req[r].pc = "out_srem"
  /\ \/ index' = index \ {<<req[r].user, req[r].new>>}
     \/ RedisFails /\ UNCHANGED index
  /\ Goto(r, IF req[r].todo = {} THEN "ok" ELSE "out_check")
  /\ UNCHANGED <<user, short, used, history, answer>>

OutFails(r) ==
  /\ RedisFails
  /\ req[r].pc \in {"out_get", "out_del", "out_members", "out_check"}
  /\ Goto(r, "ko")
  /\ UNCHANGED <<store, used, history, answer>>
---------------------------------------------------------------------------
(* GoogleCallback does not look at the error of parseGoogleToken: a token  *)
(* that cannot be verified leaves no claims, and reading them panics.      *)
(* Every request that is with extauth is gone, whatever it has written;    *)
(* sign-ins are with the backend.                                          *)

GoogleCallbackPanics ==
  /\ Restarts
  /\ \E r \in Requests : req[r].pc \notin {"idle", "ok", "ko"}
  /\ req' = [r \in Callers |->
               IF r \in SignIns \/ req[r].pc \in {"idle", "ok"} THEN req[r]
               ELSE [req[r] EXCEPT !.pc = "ko"]]
  /\ UNCHANGED <<store, used, history, answer>>
---------------------------------------------------------------------------
(* Time.                                                                   *)

Age(s) ==
  /\ Exists(s)
  /\ s \notin short
  /\ short' = short \cup {s}
  /\ UNCHANGED <<user, index, used, req, history, answer>>

Expire(s) ==
  /\ s \in short
  /\ Remove(s)
  /\ UNCHANGED <<index, used, req, history, answer>>

\* Nothing is left to do, or no session id is left in the instance.
Finished ==
  /\ \A r \in Callers :
       \/ req[r].pc \in {"ok", "ko"}
       \/ req[r].pc = "sadd" /\ used = Sids
       \/ req[r].pc = "idle" /\ r \in Requests /\ \A s \in Sids : owner[s] = None
  /\ UNCHANGED vars

SetNewStep(r) == SetNewSet(r) \/ \E s \in Sids : SetNewAdd(r, s)

AuthStep(r) ==
  \/ Has(r) \/ TTL(r) \/ RenewGet(r) \/ RenewDel(r) \/ RenewSRem(r) \/ Extract(r)
  \/ \E s \in Sids : Arrive(r, s, "call") \/ Arrive(r, s, "signout")

OutStep(r) ==
  \/ OutGet(r) \/ OutDel(r) \/ OutMembers(r) \/ OutSRem(r) \/ OutFails(r)
  \/ \E s \in Sids : OutCheck(r, s)

Next ==
  \/ \E i \in SignIns, u \in Users : SignIn(i, u)
  \/ \E r \in Callers : SetNewStep(r) \/ AuthFails(r)
  \/ \E r \in Requests : AuthStep(r) \/ OutStep(r)
  \/ GoogleCallbackPanics
  \/ \E s \in Sids : Age(s) \/ Expire(s)
  \/ Finished

Spec == Init /\ [][Next]_vars
---------------------------------------------------------------------------
(* Properties.                                                             *)

\* Type invariant; a key that exists holds the user it was set for.
TypeOK ==
  /\ user \in [Sids -> Users \cup {None}]
  /\ short \subseteq {s \in Sids : Exists(s)}
  /\ index \subseteq Users \X Sids /\ used \subseteq Sids
  /\ req \in [Callers -> Request]
  /\ owner \in [Sids -> Users \cup {None}]
  /\ \A s \in Sids : user[s] \in {None, owner[s]}
  /\ origin \in [Sids -> SignIns \cup {None}]
  /\ answer \in [Requests -> Users \cup {None, "refused"}]
  /\ renewed \subseteq Sids /\ forked \subseteq SignIns
  /\ errors \subseteq Requests /\ missed \subseteq Sids

\* The commands of concurrent requests add up to the promise: an answer is
\* given at an instant at which a session of the cookie's user is open, and
\* refused only when the cookie's own session is closed or one of the
\* request's own commands failed.
OpenSessions == {s \in Sids : Exists(s)}
Cookies == [r \in Requests |-> req[r].cookie]
Promise == INSTANCE Authorization WITH open <- OpenSessions, cookie <- Cookies
ImplementsAuthorization == Promise!Spec

\* A sign-out that succeeded has ended its sign-in: the session of its cookie
\* is closed, the one that authorize may have renewed it to, and every other
\* that descends from the same sign-in, unless two requests got hold of one
\* session: a renewal that had read the one signed out before its DEL stores
\* another afterwards, and of a forked sign-in only one branch is closed.
SignedOutIsClosed ==
  \A r \in Requests :
    req[r].kind = "signout" /\ req[r].pc = "ok"
      => /\ ~Exists(req[r].cookie) /\ ~Exists(req[r].sid)
         /\ \A s \in OpenSessions :
              origin[s] = origin[req[r].sid]
                => req[r].sid \in renewed \/ origin[s] \in forked

\* Renewing keeps one session per sign-in, unless two renewals have read
\* the same session before it was deleted.
OneSessionPerSignIn ==
  \A s, t \in OpenSessions :
    origin[s] = origin[t] /\ origin[s] \notin forked => s = t

\* An open session is in the set of its user, unless a Sync looked for it
\* between the SADD and the SET of its SetNew and took it for an old one:
\* neither renewals, sign-outs nor requests that fail half-way take an open
\* session off the list.
ListedUnlessMissed ==
  \A s \in OpenSessions : <<user[s], s>> \in index \/ s \in missed

\* Refuted.  A sign-out that was acknowledged has ended its sign-in: a renewal
\* that is between its GET and its DEL, or past it, stores a session later.
SignOutEndsSignIn ==
  \A r \in Requests :
    req[r].kind = "signout" /\ req[r].pc = "ok"
      => \A s \in OpenSessions : origin[s] # origin[req[r].sid]

\* Refuted.  Sync removes a session id because the "Session doesn't exist
\* anymore" (manager.go): the session of an id that is not listed does not
\* exist.
OpenIsListed == \A s \in OpenSessions : <<user[s], s>> \in index
=============================================================================
