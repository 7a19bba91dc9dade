----------------------------- MODULE Accounts ------------------------------
(***************************************************************************)
(* How an account comes to exist: EmailSignup, googleAuthentication (the   *)
(* handler of GoogleCallback and GoogleOneTap), EmailSignin and            *)
(* UpdateUsername of backend/pkg/service/v1/auth.go, with the statements   *)
(* of users and customers they execute and the calls of Stripe they make.  *)
(*                                                                         *)
(* A sign-up is a chain of statements and remote calls without a           *)
(* transaction: it may stop after any of them, and others run in between.  *)
(* A string that is compared both with and without LOWER is a pair of a    *)
(* word and a spelling of it.  Passwords are in Credentials, sessions in   *)
(* Session.                                                                *)
(***************************************************************************)
EXTENDS Integers, FiniteSets

CONSTANTS
  Requests,     \* requests; a sign-up by email takes its own name as user id
  Mailboxes,    \* email addresses up to case; also the ids of the users who
                \* sign in with Google, whose Subject belongs to a mailbox
  Names,        \* usernames up to case
  None,         \* no value: NULL, or a row that does not exist
  Kinds,        \* bound: the RPCs of the instance
  EnableStripe, \* the feature flag
  Fails         \* may a statement or a call return an error?

ASSUME AccountsAssumption ==
  /\ IsFiniteSet(Requests)
  /\ Requests \cap Mailboxes = {}
  /\ None \notin Requests \cup Mailboxes \cup Names
  /\ Kinds \subseteq {"email", "google", "signin", "rename"}
  /\ EnableStripe \in BOOLEAN /\ Fails \in BOOLEAN

Spellings == {"lower", "mixed"}
Emails == Mailboxes \X Spellings
Usernames == Names \X Spellings
Ids == Requests \cup Mailboxes

Row == [email : Emails, username : Usernames \cup {None}, local : BOOLEAN]

ASSUME RowAssumption == None \notin Row

VARIABLES
  users,   \* users[id]: the row of id, or None
  made,    \* Stripe: how many customers were created for id
  cusRow,  \* the ids with a row in customers
  sub,     \* Stripe: the ids with a subscription
  subRow,  \* the ids with a row in stripe_subscriptions
  price,   \* the ids with a row in stripe_prices
  signed,  \* history: the ids that ever got a session
  req,     \* req[r]: the request r
  raced    \* history: pairs of requests that overlapped

billing == <<made, cusRow, sub, subRow, price>>
vars == <<users, made, cusRow, sub, subRow, price, signed, req, raced>>

\* "taken": refused because the email or the username exists.
PC == {"idle", "name_free", "email_free", "insert", "stripe_customer",
       "store_customer", "stripe_sub", "store_sub", "store_price", "session",
       "ok", "err", "taken"}

Request ==
  [pc : PC, kind : {"email", "google", "signin", "rename", None},
   id : Ids \cup {None}, email : Emails \cup {None},
   name : Usernames \cup {None}]

Init ==
  /\ users = [id \in Ids |-> None]
  /\ made = [id \in Ids |-> 0]
  /\ cusRow = {} /\ sub = {} /\ subRow = {} /\ price = {}
  /\ signed = {}
  /\ req = [r \in Requests |-> [pc |-> "idle", kind |-> None, id |-> None,
                                email |-> None, name |-> None]]
  /\ raced = {}
---------------------------------------------------------------------------
(* Helpers.                                                                *)

Registered == {id \in Ids : users[id] # None}

InFlight == {r \in Requests : req[r].pc \notin {"idle", "ok", "err", "taken"}}

Goto(r, pc) == req' = [req EXCEPT ![r].pc = pc]

Step(r, from, to) == req[r].pc = from /\ Goto(r, to)

\* SELECT ... WHERE LOWER(username) = LOWER($1)
UsernameExists(name) ==
  \E id \in Registered : /\ users[id].username # None
                         /\ users[id].username[1] = name[1]

\* Faulty variants, each refuted by a property.
EmailExistsAsSpelled(e) == \E id \in Registered : users[id].email = e
NoConflict(id, e, name) == FALSE
CustomerOfLocal(id) == id \in cusRow \cap Requests

\* SELECT ... WHERE LOWER(email) = LOWER($1)
EmailExists(e) == \E id \in Registered : users[id].email[1] = e[1]

\* The primary key and the two unique indexes of users, on the plain columns
Conflict(id, e, name) ==
  \/ users[id] # None
  \/ \E u \in Registered \ {id} :
       \/ users[u].email = e
       \/ name # None /\ users[u].username = name

\* GetCustomerByUserID finds a customer
CustomerFound(id) == id \in cusRow

\* CreatePlatformSubscription: a new subscription to the free plan
Subscribe(id) == sub' = sub \cup {id}

Begin(r, pc, kind, id, e, name) ==
  /\ req[r].pc = "idle"
  /\ kind \in Kinds
  /\ req' = [req EXCEPT ![r] = [pc |-> pc, kind |-> kind, id |-> id,
                                email |-> e, name |-> name]]
  /\ raced' = raced \cup {{r, q} : q \in InFlight}

---------------------------------------------------------------------------
(* The sign-ups.                                                           *)

\* The id of a sign-up by email is a fresh uuid.
EmailSignup(r, e, name) ==
  /\ Begin(r, "name_free", "email", r, e, name)
  /\ UNCHANGED <<users, billing, signed>>

\* A customer means that the user signs in; the id is Google's Subject.  A
\* subscription without its price is an error of GetCustomerByUserID.
GoogleAuthentication(r, box) ==
  /\ LET pc == IF ~CustomerFound(box) THEN "email_free"
               ELSE IF box \in subRow \ price THEN "err" ELSE "session"
     IN  Begin(r, pc, "google", box, <<box, "lower">>, None)
  /\ UNCHANGED <<users, billing, signed>>

CheckUsername(r) ==
  /\ Step(r, "name_free",
          IF UsernameExists(req[r].name) THEN "taken" ELSE "email_free")
  /\ UNCHANGED <<users, billing, signed, raced>>

CheckEmail(r) ==
  /\ Step(r, "email_free",
          IF EmailExists(req[r].email) THEN "taken" ELSE "insert")
  /\ UNCHANGED <<users, billing, signed, raced>>

\* INSERT INTO users; the columns are the primary key or unique
CreateUser(r) ==
  /\ req[r].pc = "insert"
  /\ \/ /\ Conflict(req[r].id, req[r].email, req[r].name)
        /\ Goto(r, "err")
        /\ UNCHANGED users
     \/ /\ ~Conflict(req[r].id, req[r].email, req[r].name)
        /\ Goto(r, IF EnableStripe THEN "stripe_customer" ELSE "session")
        /\ users' = [users EXCEPT ![req[r].id] =
                       [email |-> req[r].email, username |-> req[r].name,
                        local |-> req[r].kind = "email"]]
  /\ UNCHANGED <<billing, signed, raced>>

CreateCustomer(r) ==
  /\ Step(r, "stripe_customer", "store_customer")
  /\ made' = [made EXCEPT ![req[r].id] = @ + 1]
  /\ UNCHANGED <<users, cusRow, sub, subRow, price, signed, raced>>

StoreCustomer(r) ==
  /\ Step(r, "store_customer",
          IF req[r].id \in cusRow THEN "err" ELSE "stripe_sub")
  /\ cusRow' = cusRow \cup {req[r].id}
  /\ UNCHANGED <<users, made, sub, subRow, price, signed, raced>>

CreatePlatformSubscription(r) ==
  /\ Step(r, "stripe_sub", "store_sub")
  /\ Subscribe(req[r].id)
  /\ UNCHANGED <<users, made, cusRow, subRow, price, signed, raced>>

StoreSubscription(r) ==
  /\ Step(r, "store_sub", "store_price")
  /\ subRow' = subRow \cup {req[r].id}
  /\ UNCHANGED <<users, made, cusRow, sub, price, signed, raced>>

StorePrice(r) ==
  /\ Step(r, "store_price", "session")
  /\ price' = price \cup {req[r].id}
  /\ UNCHANGED <<users, made, cusRow, sub, subRow, signed, raced>>

\* A session for the user, and the answer.
SetNew(r) ==
  /\ Step(r, "session", "ok")
  /\ signed' = signed \cup {req[r].id}
  /\ UNCHANGED <<users, billing, raced>>

---------------------------------------------------------------------------
(* The other RPCs.                                                         *)

\* The email is compared as it is spelled; the row of a user of Google has no
\* password.  The password itself is that of the user.
EmailSignin(r, e) ==
  /\ \/ \E id \in Registered :
          /\ users[id].email = e
          /\ Begin(r, IF users[id].local THEN "session" ELSE "err",
                   "signin", id, e, None)
     \/ /\ \A id \in Registered : users[id].email # e
        /\ Begin(r, "err", "signin", None, e, None)
  /\ UNCHANGED <<users, billing, signed>>

\* UPDATE users SET username: nothing but the index is asked
UpdateUsername(r, id, name) ==
  /\ id \in signed
  /\ LET taken == \E u \in Registered \ {id} : users[u].username = name
     IN  /\ Begin(r, IF taken THEN "err" ELSE "ok", "rename", id, None, name)
         /\ users' = IF taken THEN users
                     ELSE [users EXCEPT ![id].username = name]
  /\ UNCHANGED <<billing, signed>>

\* A statement or a remote call fails and the request returns the error.
RequestFails(r) ==
  /\ Fails
  /\ r \in InFlight
  /\ Goto(r, "err")
  /\ UNCHANGED <<users, billing, signed, raced>>

SignUpStep(r) ==
  \/ CheckUsername(r) \/ CheckEmail(r) \/ CreateUser(r)
  \/ CreateCustomer(r) \/ StoreCustomer(r) \/ CreatePlatformSubscription(r)
  \/ StoreSubscription(r) \/ StorePrice(r) \/ SetNew(r)

Next ==
  \E r \in Requests :
    \/ \E e \in Emails, name \in Usernames : EmailSignup(r, e, name)
    \/ \E box \in Mailboxes : GoogleAuthentication(r, box)
    \/ \E e \in Emails : EmailSignin(r, e)
    \/ \E id \in Ids, name \in Usernames : UpdateUsername(r, id, name)
    \/ SignUpStep(r)
    \/ RequestFails(r)

Spec == Init /\ [][Next]_vars
---------------------------------------------------------------------------
(* Properties.                                                             *)

TypeOK ==
  /\ users \in [Ids -> Row \cup {None}]
  /\ made \in [Ids -> Nat]
  /\ cusRow \subseteq Registered
  /\ sub \subseteq cusRow /\ subRow \subseteq sub /\ price \subseteq subRow
  /\ signed \subseteq Registered
  /\ req \in [Requests -> Request]
  /\ raced \subseteq SUBSET Requests

\* However often a user comes back from Google, twice at once or after a
\* sign-up that failed half-way, at most one customer of Stripe is created
\* for the user: the INSERT into users comes before it.
OneCustomer == \A id \in Ids : made[id] <= 1

\* createUser checks that an email is free up to case, and inserts later.
\* Two accounts of one mailbox are possible only when the sign-ups
\* overlapped.
TwinsOnlyIfRaced ==
  \A u, v \in Registered :
    (u # v /\ users[u].email[1] = users[v].email[1]) =>
      \E p \in raced : \E q, r \in p : /\ q # r
                                       /\ req[q].id = u
                                       /\ req[r].id = v

\* A request of a Google user that overlaps with no other is refused for
\* the sake of its email only if another user has the email, or an earlier
\* request of the same user stopped half-way: once one has succeeded, the
\* user is found, whatever else others did.
RefusedForAReason ==
  EnableStripe =>
    \A r \in Requests :
      (/\ req[r].kind = "google" /\ req[r].pc = "taken"
       /\ \A p \in raced : r \notin p)
      => \/ \E u \in Registered \ {req[r].id} : users[u].email[1] = req[r].email[1]
         \/ \E q \in Requests : /\ req[q].kind = "google" /\ req[q].pc = "err"
                               /\ req[q].id = req[r].id

\* What the comment in googleAuthentication says: who was here before is
\* signed in.  A request that overlaps with no other is refused for the sake
\* of its email only if another user has the email.
GoogleReturns ==
  \A r \in Requests :
    /\ req[r].kind = "google" /\ req[r].pc = "taken"
    /\ \A p \in raced : r \notin p
    => users[req[r].id] = None

\* What the name of the index idx_lower_unique_email says.
EmailIsUnique ==
  \A u, v \in Registered :
    users[u].email[1] = users[v].email[1] => u = v

\* What the name of the index idx_lower_unique_username says, also of the
\* usernames that UpdateUsername stores while no other request runs.
UsernameIsUnique ==
  \A u, v \in Registered :
    /\ users[u].username # None /\ users[v].username # None
    /\ raced = {}
    => (users[u].username[1] = users[v].username[1] => u = v)
============================================================================
