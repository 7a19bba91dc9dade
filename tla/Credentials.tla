---------------------------- MODULE Credentials ----------------------------
(***************************************************************************)
(* The password of one user: EmailSignin, EmailVerify, ChangePassword and  *)
(* ResetPassword of backend/pkg/service/v1/auth.go over the users table,   *)
(* and the sessions they open or leave open.  A session is a key of Redis; *)
(* Session has the steps that create, renew and delete it.                 *)
(***************************************************************************)
EXTENDS FiniteSets

CONSTANTS
  Requests,   \* calls for this user; a sign-in names its session
  Passwords,
  First,      \* the password of the sign-up
  Kinds,      \* bound: the RPCs of the instance
  Fails       \* may a statement return an error?

ASSUME CredentialsAssumption ==
  /\ IsFiniteSet(Requests)
  /\ First \in Passwords
  /\ Kinds \subseteq {"signin", "change", "reset"}
  /\ Fails \in BOOLEAN

VARIABLES
  password,   \* users.password
  verified,   \* users.email_verified
  sessions,   \* sign-ins whose session is open
  req,        \* req[r]: the request r
  during,     \* history: the passwords stored at some time while r ran
  wrote,      \* history: requests that stored their new password
  before      \* history: <<q, r>> when q was over before r began

vars == <<password, verified, sessions, req, during, wrote, before>>

Over(r) == req[r].pc \in {"ok", "err"}

Init ==
  /\ password = First
  /\ verified = FALSE
  /\ sessions = {}
  /\ req = [r \in Requests |->
              [pc |-> "idle", kind |-> "signin", old |-> First, new |-> First]]
  /\ during = [r \in Requests |-> {}]
  /\ wrote = {}
  /\ before = {}

\* Faulty variants, each refuted by a property.
MatchesAny(given) == TRUE
UpdateFirstOnly(new) == password' = IF password = First THEN new ELSE password

\* bcrypt.CompareHashAndPassword with the stored hash
Matches(given) == given = password

\* UPDATE users SET password
UpdatePassword(new) == password' = new

\* What a password that matches is followed by
AfterCompare(r) == IF req[r].kind = "signin" THEN "set" ELSE "update"

Goto(r, pc) == req' = [req EXCEPT ![r].pc = pc]

Begin(r, pc, kind, old, new) ==
  /\ req[r].pc = "idle"
  /\ kind \in Kinds
  /\ req' = [req EXCEPT ![r] = [pc |-> pc, kind |-> kind,
                                old |-> old, new |-> new]]
  /\ during' = [during EXCEPT ![r] = {password}]
  /\ before' = before \cup {<<q, r>> : q \in {q \in Requests : Over(q)}}
  /\ UNCHANGED <<password, verified, sessions, wrote>>

---------------------------------------------------------------------------
(* The handlers.                                                           *)

EmailSignin(r, given) ==
  Begin(r, "compare", "signin", given, given)

\* Some session authorises the call; the email must be verified.
ChangePassword(r, old, new) ==
  /\ sessions # {}
  /\ Begin(r, IF verified THEN "compare" ELSE "err", "change", old, new)

\* With a valid token of SendResetLink; nothing of the user is read.
ResetPassword(r, new) ==
  Begin(r, "update", "reset", new, new)

\* GetPassword and the comparison
Compare(r) ==
  /\ req[r].pc = "compare"
  /\ Goto(r, IF Matches(req[r].old) THEN AfterCompare(r) ELSE "err")
  /\ UNCHANGED <<password, verified, sessions, during, wrote, before>>

\* SetNew
SetSession(r) ==
  /\ req[r].pc = "set"
  /\ Goto(r, "ok")
  /\ sessions' = sessions \cup {r}
  /\ UNCHANGED <<password, verified, during, wrote, before>>

Update(r) ==
  /\ req[r].pc = "update"
  /\ Goto(r, "stamp")
  /\ UpdatePassword(req[r].new)
  /\ wrote' = wrote \cup {r}
  /\ during' = [q \in Requests |-> IF req[q].pc = "idle" \/ Over(q)
                                   THEN during[q]
                                   ELSE during[q] \cup {password'}]
  /\ UNCHANGED <<verified, sessions, before>>

\* UPDATE users SET password_changed_at: a column nobody reads
UpdatePasswordChangedAt(r) ==
  /\ req[r].pc = "stamp"
  /\ Goto(r, "ok")
  /\ UNCHANGED <<password, verified, sessions, during, wrote, before>>

\* A statement fails; what was written stays.
RequestFails(r) ==
  /\ Fails
  /\ req[r].pc # "idle" /\ ~Over(r)
  /\ Goto(r, "err")
  /\ UNCHANGED <<password, verified, sessions, during, wrote, before>>

\* One statement, for a signed-in user with the token of the sign-up.
EmailVerify ==
  /\ sessions # {} /\ ~verified
  /\ verified' = TRUE
  /\ UNCHANGED <<password, sessions, req, during, wrote, before>>

SignOut(s) ==
  /\ s \in sessions
  /\ sessions' = sessions \ {s}
  /\ UNCHANGED <<password, verified, req, during, wrote, before>>

Next ==
  \/ \E r \in Requests :
       \/ \E p \in Passwords : EmailSignin(r, p) \/ ResetPassword(r, p)
       \/ \E old, new \in Passwords : ChangePassword(r, old, new)
       \/ Compare(r) \/ SetSession(r)
       \/ Update(r) \/ UpdatePasswordChangedAt(r)
       \/ RequestFails(r)
  \/ EmailVerify
  \/ \E s \in Requests : SignOut(s)

Spec == Init /\ [][Next]_vars
---------------------------------------------------------------------------
(* Properties.                                                             *)

\* The comparison and what it permits are apart, and the password may change
\* in between; but a session is opened, and a password is changed without a
\* token, only for a password that was stored while the request ran.
KnewThePassword ==
  \A r \in Requests :
    r \in sessions \/ (r \in wrote /\ req[r].kind = "change")
      => req[r].old \in during[r]

\* When all calls are over the password is that of a call which no later one
\* replaced, whether or not it reported success; before the first it is that
\* of the sign-up.
LastChangeHolds ==
  (\A r \in Requests : req[r].pc = "idle" \/ Over(r)) =>
    \/ wrote = {} /\ password = First
    \/ \E r \in wrote : /\ password = req[r].new
                        /\ \A q \in wrote : <<r, q>> \notin before

\* What the comment of ChangePassword says of password_changed_at: other
\* clients have to sign in again.
ChangeEndsSessions ==
  \A s, r \in Requests :
    (/\ req[r].kind = "change" /\ req[r].pc = "ok"
     /\ <<s, r>> \in before) => s \notin sessions
============================================================================
