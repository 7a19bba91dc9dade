--------------------------- MODULE AccountsProofs ---------------------------
(***************************************************************************)
(* Theorems about Accounts, for any sets of requests, mailboxes and names: *)
(* a user gets at most one customer of Stripe, and two accounts of one     *)
(* mailbox, or a user of Google who is refused, need an overlap of         *)
(* requests or an earlier failure.                                         *)
(***************************************************************************)
EXTENDS Accounts, TLAPS

\* Where a sign-up looks for others before its INSERT, and where it is billed
Asking == {"name_free", "email_free", "insert"}
Billed == {"stripe_customer", "store_customer", "stripe_sub", "store_sub",
           "store_price"}

\* What a request knows: who signs up, that its user has been stored before
\* a customer is created, and what is stored of the customer.
RequestOK(r) ==
  /\ req[r].pc = "idle" => req[r].id = None
  /\ req[r].pc = "name_free" => req[r].kind = "email"
  /\ req[r].pc \in Asking \cup Billed =>
       \/ req[r].kind = "email" /\ req[r].id = r /\ req[r].email \in Emails
       \/ /\ req[r].kind = "google" /\ req[r].id \in Mailboxes
          /\ req[r].email = <<req[r].id, "lower">>
  /\ req[r].pc \in Billed \cup {"session"} => req[r].id \in Registered
  /\ req[r].pc = "stripe_customer" =>
       /\ made[req[r].id] = 0
       /\ \A q \in Requests \ {r} :
            req[q].pc = "stripe_customer" => req[q].id # req[r].id
  /\ req[r].pc = "stripe_sub" => req[r].id \in cusRow
  /\ req[r].pc = "store_sub" => req[r].id \in sub
  /\ req[r].pc = "store_price" => req[r].id \in subRow

\* A user with a customer is stored, and has one.
MadeOK ==
  \A id \in Ids : made[id] <= 1 /\ (made[id] # 0 => id \in Registered)

\* The invariant behind OneCustomer
Base == TypeOK /\ MadeOK /\ \A r \in Requests : RequestOK(r)

---------------------------------------------------------------------------
(* Steps of one request.                                                   *)

\* A step in which r becomes x
Becomes(r, x) ==
  /\ req' \in [Requests -> Request]
  /\ req'[r] = x
  /\ \A q \in Requests \ {r} : req'[q] = req[q]

\* Goto moves the program counter and nothing else.
LEMMA GotoIs ==
  ASSUME TypeOK, NEW r \in Requests, NEW pc \in PC, Goto(r, pc)
  PROVE  /\ Becomes(r, req'[r])
         /\ req'[r].pc = pc /\ req'[r].kind = req[r].kind
         /\ req'[r].id = req[r].id /\ req'[r].email = req[r].email
<1>1. req[r] \in Request /\ req \in [Requests -> Request]
  BY DEF TypeOK
<1>2. req'[r] = [req[r] EXCEPT !.pc = pc]
  BY <1>1 DEF Goto
<1>3. /\ req'[r].pc = pc /\ req'[r].kind = req[r].kind
      /\ req'[r].id = req[r].id /\ req'[r].email = req[r].email
  BY <1>1, <1>2 DEF Request
<1>4. req'[r] \in Request
  BY <1>1, <1>2, <1>3 DEF Request
<1>5. Becomes(r, req'[r])
  BY <1>1, <1>4 DEF Becomes, Goto
<1>6. QED  BY <1>3, <1>5

\* A request that begins overlaps with those in flight.
Overlaps(r) == raced' = raced \cup {{r, q} : q \in InFlight}

\* What a beginning of r leaves
Begun(r, pc, kind, id, e) ==
  /\ Becomes(r, req'[r]) /\ req[r].pc = "idle"
  /\ req'[r].pc = pc /\ req'[r].kind = kind
  /\ req'[r].id = id /\ req'[r].email = e
  /\ Overlaps(r) /\ raced' \subseteq SUBSET Requests

\* Begin sets all that is known of a request, and notes whom it overlaps.
LEMMA BeginIs ==
  ASSUME TypeOK, NEW r \in Requests, NEW pc \in PC,
         NEW kind \in {"email", "google", "signin", "rename"},
         NEW id \in Ids \cup {None}, NEW e \in Emails \cup {None},
         NEW name \in Usernames \cup {None},
         Begin(r, pc, kind, id, e, name)
  PROVE  Begun(r, pc, kind, id, e)
<1> DEFINE x == [pc |-> pc, kind |-> kind, id |-> id, email |-> e,
                 name |-> name]
<1>1. req \in [Requests -> Request] /\ raced \subseteq SUBSET Requests
  BY DEF TypeOK
<1>2. /\ x \in Request
      /\ x.pc = pc /\ x.kind = kind /\ x.id = id /\ x.email = e
  BY DEF Request
<1>3. /\ req[r].pc = "idle" /\ req' = [req EXCEPT ![r] = x]
      /\ raced' = raced \cup {{r, q} : q \in InFlight}
  BY DEF Begin
<1>4. Becomes(r, x) /\ req'[r] = x
  <2> HIDE DEF x
  <2> QED  BY <1>1, <1>2, <1>3 DEF Becomes
<1>5. raced' \subseteq SUBSET Requests
  BY <1>1, <1>3 DEF InFlight
<1>6. QED
  <2> HIDE DEF x
  <2> QED  BY <1>2, <1>3, <1>4, <1>5 DEF Overlaps, Begun

\* Statements that leave who is registered, and with which email
Keeps ==
  /\ users' \in [Ids -> Row \cup {None}]
  /\ Registered' = Registered
  /\ \A u \in Registered : users'[u].email = users[u].email

\* A step without an UPDATE or INSERT of users is one.
LEMMA UnchangedKeeps ==
  ASSUME TypeOK, users' = users
  PROVE  Keeps
BY DEF TypeOK, Keeps, Registered

\* The rest of a step of r that could touch the others
Grow ==
  /\ Registered \subseteq Registered'
  /\ cusRow \subseteq cusRow' /\ sub \subseteq sub' /\ subRow \subseteq subRow'

\* What is known of the other requests survives a step of r.
LEMMA BaseOfStep ==
  ASSUME Base, NEW r \in Requests, Becomes(r, req'[r]), Grow,
         TypeOK', MadeOK', RequestOK(r)',
         \A q \in Requests \ {r} : req[q].pc = "stripe_customer" =>
           /\ made'[req[q].id] = made[req[q].id]
           /\ req'[r].pc = "stripe_customer" => req'[r].id # req[q].id
  PROVE  Base'
<1>1. ASSUME NEW q \in Requests, q # r
      PROVE  RequestOK(q)'
  <2>1. req'[q] = req[q] /\ RequestOK(q)
    BY <1>1 DEF Becomes, Base
  <2>2. /\ req[q].pc = "idle" => req[q].id = None
        /\ req[q].pc = "name_free" => req[q].kind = "email"
        /\ req[q].pc \in Asking \cup Billed =>
             \/ req[q].kind = "email" /\ req[q].id = q /\ req[q].email \in Emails
             \/ /\ req[q].kind = "google" /\ req[q].id \in Mailboxes
                /\ req[q].email = <<req[q].id, "lower">>
    BY <2>1 DEF RequestOK
  <2>3. /\ req[q].pc \in Billed \cup {"session"} => req[q].id \in Registered'
        /\ req[q].pc = "stripe_sub" => req[q].id \in cusRow'
        /\ req[q].pc = "store_sub" => req[q].id \in sub'
        /\ req[q].pc = "store_price" => req[q].id \in subRow'
    BY <2>1 DEF RequestOK, Grow
  <2>4. ASSUME req[q].pc = "stripe_customer"
        PROVE  /\ made'[req[q].id] = 0
               /\ \A p \in Requests \ {q} :
                    req'[p].pc = "stripe_customer" => req'[p].id # req[q].id
    <3>1. /\ made[req[q].id] = 0
          /\ \A p \in Requests \ {q} :
               req[p].pc = "stripe_customer" => req[p].id # req[q].id
      BY <2>1, <2>4 DEF RequestOK
    <3>2. /\ made'[req[q].id] = made[req[q].id]
          /\ req'[r].pc = "stripe_customer" => req'[r].id # req[q].id
      BY <1>1, <2>4
    <3>3. \A p \in Requests \ {q} :
            req'[p].pc = "stripe_customer" => req'[p].id # req[q].id
      BY <3>1, <3>2 DEF Becomes
    <3>4. QED  BY <3>1, <3>2, <3>3
  <2>5. req'[q].pc = "stripe_customer" =>
          /\ made'[req'[q].id] = 0
          /\ \A p \in Requests \ {q} :
               req'[p].pc = "stripe_customer" => req'[p].id # req'[q].id
    BY <2>1, <2>4
  <2>6. /\ req'[q].pc = "idle" => req'[q].id = None
        /\ req'[q].pc = "name_free" => req'[q].kind = "email"
        /\ req'[q].pc \in Asking \cup Billed =>
             \/ req'[q].kind = "email" /\ req'[q].id = q /\ req'[q].email \in Emails
             \/ /\ req'[q].kind = "google" /\ req'[q].id \in Mailboxes
                /\ req'[q].email = <<req'[q].id, "lower">>
        /\ req'[q].pc \in Billed \cup {"session"} => req'[q].id \in Registered'
        /\ req'[q].pc = "stripe_sub" => req'[q].id \in cusRow'
        /\ req'[q].pc = "store_sub" => req'[q].id \in sub'
        /\ req'[q].pc = "store_price" => req'[q].id \in subRow'
    BY <2>1, <2>2, <2>3
  <2>7. QED
    BY <2>5, <2>6 DEF RequestOK
<1>2. QED
  BY <1>1 DEF Base

\* The beginnings.
LEMMA BeginBase ==
  ASSUME Base, NEW r \in Requests,
         NEW pc \in {"name_free", "email_free", "session", "ok", "err"},
         NEW kind \in {"email", "google", "signin", "rename"},
         NEW id \in Ids \cup {None}, NEW e \in Emails \cup {None},
         NEW name \in Usernames \cup {None},
         Begin(r, pc, kind, id, e, name), Keeps, UNCHANGED <<billing, signed>>,
         pc = "name_free" => kind = "email",
         pc \in {"name_free", "email_free"} =>
           \/ kind = "email" /\ id = r /\ e \in Emails
           \/ kind = "google" /\ id \in Mailboxes /\ e = <<id, "lower">>,
         pc = "session" => id \in Registered
  PROVE  Base'
<1>1. TypeOK /\ MadeOK /\ pc \in PC
  BY DEF Base, PC
<1>2. /\ Becomes(r, req'[r]) /\ req[r].pc = "idle"
      /\ req'[r].pc = pc /\ req'[r].kind = kind
      /\ req'[r].id = id /\ req'[r].email = e
      /\ raced' \subseteq SUBSET Requests
  <2>1. Begun(r, pc, kind, id, e)
    BY <1>1, BeginIs
  <2>2. QED
    BY <2>1 DEF Begun
<1>3. /\ made' = made /\ cusRow' = cusRow /\ sub' = sub /\ subRow' = subRow
      /\ price' = price /\ signed' = signed
  BY DEF billing
<1>4. TypeOK'
  BY <1>1, <1>2, <1>3 DEF TypeOK, Keeps, Becomes
<1>5. MadeOK'
  BY <1>1, <1>3 DEF MadeOK, Keeps
<1>6. Grow
  BY <1>3 DEF Grow, Keeps
<1>7. RequestOK(r)'
  BY <1>2, <1>3 DEF RequestOK, Asking, Billed, Keeps
<1>8. QED
  BY <1>2, <1>3, <1>4, <1>5, <1>6, <1>7, BaseOfStep

\* A request that moves on without a statement that stores anything
LEMMA MoveBase ==
  ASSUME Base, NEW r \in Requests, NEW pc \in PC, Goto(r, pc),
         UNCHANGED <<users, billing, raced>>,
         signed' \subseteq Registered,
         RequestOK(r)', pc # "stripe_customer"
  PROVE  Base'
<1>1. TypeOK /\ MadeOK
  BY DEF Base
<1>2. Becomes(r, req'[r]) /\ req'[r].pc = pc
  BY <1>1, GotoIs
<1>3. /\ made' = made /\ cusRow' = cusRow /\ sub' = sub /\ subRow' = subRow
      /\ price' = price /\ users' = users /\ raced' = raced
  BY DEF billing
<1>4. Keeps
  BY <1>1, <1>3, UnchangedKeeps
<1>5. TypeOK'
  BY <1>1, <1>2, <1>3, <1>4 DEF TypeOK, Keeps, Becomes
<1>6. MadeOK' /\ Grow
  BY <1>1, <1>3, <1>4 DEF MadeOK, Grow, Keeps
<1>7. QED
  BY <1>2, <1>3, <1>5, <1>6, BaseOfStep
---------------------------------------------------------------------------
(* The actions: each keeps Base, and is one of three kinds of step for who *)
(* overlaps with whom.                                                     *)

\* A request comes in.
BeginStep(r) ==
  /\ req[r].pc = "idle" /\ Becomes(r, req'[r]) /\ Overlaps(r)
  /\ req'[r].pc \notin {"insert", "taken"}
  /\ req'[r].kind = "google" /\ req'[r].pc = "email_free"
       => req'[r].id \in Mailboxes \ cusRow
  /\ Keeps /\ cusRow' = cusRow

Same(r) ==
  /\ req'[r].kind = req[r].kind
  /\ req'[r].id = req[r].id /\ req'[r].email = req[r].email

\* A request moves on, without an INSERT into users.
AdvanceStep(r) ==
  /\ r \in InFlight /\ Becomes(r, req'[r]) /\ Same(r)
  /\ raced' = raced /\ users' = users /\ cusRow \subseteq cusRow'
  /\ req'[r].pc = "insert" => ~EmailExists(req[r].email)
  /\ req'[r].pc = "email_free" => req[r].kind = "email"
  /\ req'[r].pc = "taken" /\ req[r].kind = "google" =>
       req[r].pc = "email_free" /\ EmailExists(req[r].email)
  /\ req[r].pc \in {"stripe_customer", "store_customer"} =>
       \/ req'[r].pc \in {"store_customer", "err"}
       \/ req[r].id \in cusRow'

\* A request stores its user.
InsertStep(r) ==
  /\ req[r].pc = "insert" /\ Becomes(r, req'[r]) /\ Same(r)
  /\ EnableStripe => req'[r].pc = "stripe_customer"
  /\ req'[r].pc \in {"stripe_customer", "session"}
  /\ raced' = raced /\ cusRow' = cusRow
  /\ req[r].id \in Ids \ Registered
  /\ users' \in [Ids -> Row \cup {None}]
  /\ Registered' = Registered \cup {req[r].id}
  /\ users'[req[r].id].email = req[r].email
  /\ \A u \in Registered : users'[u].email = users[u].email

\* A sign-up by email begins.
LEMMA EmailSignupStep ==
  ASSUME Base, NEW r \in Requests, NEW e \in Emails, NEW name \in Usernames,
         EmailSignup(r, e, name)
  PROVE  Base' /\ BeginStep(r)
<1>1. /\ Begin(r, "name_free", "email", r, e, name)
      /\ UNCHANGED <<users, billing, signed>>
  BY DEF EmailSignup
<1>2. TypeOK /\ r \in Ids /\ r \in Ids \cup {None} /\ e \in Emails \cup {None}
      /\ name \in Usernames \cup {None} /\ "name_free" \in PC
  BY DEF Base, Ids, PC
<1>3. Keeps /\ cusRow' = cusRow
  BY <1>1, <1>2, UnchangedKeeps DEF billing
<1>4. Base'
  BY <1>1, <1>2, <1>3, BeginBase
<1>5. /\ Becomes(r, req'[r]) /\ req[r].pc = "idle" /\ Overlaps(r)
      /\ req'[r].pc = "name_free"
  BY <1>1, <1>2, BeginIs DEF Begun
<1>6. QED
  BY <1>3, <1>4, <1>5 DEF BeginStep

\* A user of Google begins: without a customer, the email is asked for.
LEMMA GoogleAuthenticationStep ==
  ASSUME Base, NEW r \in Requests, NEW box \in Mailboxes,
         GoogleAuthentication(r, box)
  PROVE  Base' /\ BeginStep(r)
<1>1. PICK pc \in {"email_free", "err", "session"} :
        /\ Begin(r, pc, "google", box, <<box, "lower">>, None)
        /\ pc = "email_free" => box \notin cusRow
        /\ pc = "session" => box \in cusRow
  BY DEF GoogleAuthentication, CustomerFound
<1>2. UNCHANGED <<users, billing, signed>>
  BY DEF GoogleAuthentication
<1>3. /\ TypeOK /\ box \in Ids \cup {None} /\ <<box, "lower">> \in Emails
      /\ <<box, "lower">> \in Emails \cup {None}
      /\ None \in Usernames \cup {None} /\ pc \in PC
      /\ pc = "session" => box \in Registered
  BY <1>1 DEF Base, TypeOK, Ids, PC, Emails, Spellings
<1>4. Keeps /\ cusRow' = cusRow
  BY <1>2, <1>3, UnchangedKeeps DEF billing
<1>5. Base'
  BY <1>1, <1>2, <1>3, <1>4, BeginBase
<1>6. /\ Becomes(r, req'[r]) /\ req[r].pc = "idle" /\ Overlaps(r)
      /\ req'[r].pc = pc /\ req'[r].id = box
  BY <1>1, <1>3, BeginIs DEF Begun
<1>7. QED
  BY <1>1, <1>4, <1>5, <1>6 DEF BeginStep

\* A sign-in finds its user or is refused.
LEMMA EmailSigninStep ==
  ASSUME Base, NEW r \in Requests, NEW e \in Emails, EmailSignin(r, e)
  PROVE  Base' /\ BeginStep(r)
<1>1. PICK pc \in {"session", "err"}, id \in Ids \cup {None} :
        /\ Begin(r, pc, "signin", id, e, None)
        /\ pc = "session" => id \in Registered
  BY DEF EmailSignin, Registered
<1>2. UNCHANGED <<users, billing, signed>>
  BY DEF EmailSignin
<1>3. TypeOK /\ e \in Emails \cup {None} /\ None \in Usernames \cup {None}
      /\ pc \in PC
  BY <1>1 DEF Base, PC
<1>4. Keeps /\ cusRow' = cusRow
  BY <1>2, <1>3, UnchangedKeeps DEF billing
<1>5. Base'
  BY <1>1, <1>2, <1>3, <1>4, BeginBase
<1>6. /\ Becomes(r, req'[r]) /\ req[r].pc = "idle" /\ Overlaps(r)
      /\ req'[r].pc = pc /\ req'[r].kind = "signin"
  BY <1>1, <1>3, BeginIs DEF Begun
<1>7. QED
  BY <1>1, <1>4, <1>5, <1>6 DEF BeginStep

\* UpdateUsername changes the username of a stored user.
LEMMA UpdateUsernameStep ==
  ASSUME Base, NEW r \in Requests, NEW id \in Ids, NEW name \in Usernames,
         UpdateUsername(r, id, name)
  PROVE  Base' /\ BeginStep(r)
<1>1. PICK pc \in {"ok", "err"} :
        /\ Begin(r, pc, "rename", id, None, name)
        /\ \/ users' = users
           \/ users' = [users EXCEPT ![id].username = name]
  BY DEF UpdateUsername
<1>2. id \in signed /\ UNCHANGED <<billing, signed>>
  BY DEF UpdateUsername
<1>3. /\ TypeOK /\ id \in Ids \cup {None} /\ id \in Registered
      /\ name \in Usernames \cup {None} /\ None \in Emails \cup {None}
      /\ pc \in PC
  BY <1>1, <1>2 DEF Base, TypeOK, PC
<1>4. ASSUME users' = [users EXCEPT ![id].username = name]
      PROVE  Keeps
  <2> DEFINE x == [users[id] EXCEPT !.username = name]
  <2>1. users \in [Ids -> Row \cup {None}] /\ users[id] \in Row
    BY <1>3 DEF TypeOK, Registered
  <2>2. x \in Row /\ x.email = users[id].email
    BY <2>1, <1>3 DEF Row
  <2>3. users' = [users EXCEPT ![id] = x]
    BY <1>4
  <2>4. x # None
    BY <2>2, RowAssumption
  <2> HIDE DEF x
  <2>5. /\ users' \in [Ids -> Row \cup {None}] /\ users'[id] = x
        /\ \A u \in Ids \ {id} : users'[u] = users[u]
    BY <2>1, <2>2, <2>3
  <2>6. Registered' = Registered
    BY <1>3, <2>4, <2>5 DEF Registered
  <2>7. QED
    BY <2>2, <2>5, <2>6 DEF Keeps, Registered
<1>5. Keeps
  BY <1>1, <1>3, <1>4, UnchangedKeeps
<1>6. Base'
  BY <1>1, <1>2, <1>3, <1>5, BeginBase
<1>7. /\ Becomes(r, req'[r]) /\ req[r].pc = "idle" /\ Overlaps(r)
      /\ req'[r].pc = pc /\ req'[r].kind = "rename" /\ cusRow' = cusRow
  BY <1>1, <1>2, <1>3, BeginIs DEF Begun, billing
<1>8. QED
  BY <1>5, <1>6, <1>7 DEF BeginStep

\* The two questions whether a name or an email is free store nothing.
LEMMA CheckStep ==
  ASSUME Base, NEW r \in Requests, CheckUsername(r) \/ CheckEmail(r)
  PROVE  Base' /\ AdvanceStep(r)
<1>1. PICK pc \in {"taken", "email_free", "insert"} :
        /\ Goto(r, pc) /\ req[r].pc \in {"name_free", "email_free"}
        /\ pc = "email_free" => req[r].pc = "name_free"
        /\ pc = "insert" => ~EmailExists(req[r].email)
        /\ pc = "taken" /\ req[r].pc = "email_free" => EmailExists(req[r].email)
        /\ pc = "insert" => req[r].pc = "email_free"
  BY DEF CheckUsername, CheckEmail, Step
<1>2. UNCHANGED <<users, billing, signed, raced>>
  BY DEF CheckUsername, CheckEmail
<1>3. TypeOK /\ pc \in PC /\ RequestOK(r) /\ signed' \subseteq Registered
  BY <1>1, <1>2 DEF Base, PC, TypeOK
<1>4. /\ Becomes(r, req'[r]) /\ req'[r].pc = pc /\ Same(r)
  BY <1>1, <1>3, GotoIs DEF Same
<1>5. /\ pc \in {"email_free", "insert"} =>
           \/ req[r].kind = "email" /\ req[r].id = r /\ req[r].email \in Emails
           \/ /\ req[r].kind = "google" /\ req[r].id \in Mailboxes
              /\ req[r].email = <<req[r].id, "lower">>
      /\ req[r].pc = "name_free" => req[r].kind = "email"
  BY <1>1, <1>3 DEF RequestOK, Asking
<1>6. RequestOK(r)'
  BY <1>1, <1>4, <1>5 DEF RequestOK, Asking, Billed, Same
<1>7. Base'
  BY <1>1, <1>2, <1>3, <1>6, MoveBase
<1>8. r \in InFlight
  BY <1>1 DEF InFlight
<1>9. cusRow' = cusRow /\ users' = users /\ raced' = raced
  BY <1>2 DEF billing
<1>10. QED
  BY <1>1, <1>4, <1>5, <1>7, <1>8, <1>9 DEF AdvanceStep

\* A request that gives up.
LEMMA RequestFailsStep ==
  ASSUME Base, NEW r \in Requests, r \in InFlight, Goto(r, "err"),
         UNCHANGED <<users, billing, signed, raced>>
  PROVE  Base' /\ AdvanceStep(r)
<1>1. TypeOK /\ "err" \in PC /\ signed' \subseteq Registered
  BY DEF Base, PC, TypeOK
<1>2. Becomes(r, req'[r]) /\ req'[r].pc = "err" /\ Same(r)
  BY <1>1, GotoIs DEF Same
<1>3. RequestOK(r)'
  BY <1>2 DEF RequestOK, Asking, Billed
<1>4. Base'
  BY <1>1, <1>3, MoveBase
<1>5. cusRow' = cusRow /\ users' = users /\ raced' = raced
  BY DEF billing
<1>6. QED
  BY <1>2, <1>4, <1>5 DEF AdvanceStep

\* The answer, with a session for the user
LEMMA SetNewStep ==
  ASSUME Base, NEW r \in Requests, SetNew(r)
  PROVE  Base' /\ AdvanceStep(r)
<1>1. /\ req[r].pc = "session" /\ Goto(r, "ok")
      /\ signed' = signed \cup {req[r].id} /\ UNCHANGED <<users, billing, raced>>
  BY DEF SetNew, Step
<1>2. TypeOK /\ "ok" \in PC /\ RequestOK(r)
  BY DEF Base, PC
<1>3. req[r].id \in Registered /\ signed' \subseteq Registered
  BY <1>1, <1>2 DEF RequestOK, TypeOK
<1>4. Becomes(r, req'[r]) /\ req'[r].pc = "ok" /\ Same(r)
  BY <1>1, <1>2, GotoIs DEF Same
<1>5. RequestOK(r)'
  BY <1>4 DEF RequestOK, Asking, Billed
<1>6. Base'
  BY <1>1, <1>2, <1>3, <1>5, MoveBase
<1>7. cusRow' = cusRow /\ users' = users /\ raced' = raced
  BY <1>1 DEF billing
<1>8. r \in InFlight
  BY <1>1 DEF InFlight
<1>9. QED
  BY <1>1, <1>4, <1>6, <1>7, <1>8 DEF AdvanceStep

\* The INSERT: the user is new, so nobody else is about to create a customer
\* for it.
LEMMA CreateUserStep ==
  ASSUME Base, NEW r \in Requests, CreateUser(r)
  PROVE  Base' /\ (AdvanceStep(r) \/ InsertStep(r))
<1>1. /\ req[r].pc = "insert" /\ UNCHANGED <<billing, signed, raced>>
      /\ TypeOK /\ MadeOK /\ RequestOK(r) /\ r \in InFlight
  BY DEF CreateUser, Step, Base, InFlight
<1>2. CASE Conflict(req[r].id, req[r].email, req[r].name)
  <2>1. Goto(r, "err") /\ users' = users
    BY <1>2 DEF CreateUser, Step
  <2>2. QED
    BY <1>1, <2>1, RequestFailsStep
<1>3. CASE ~Conflict(req[r].id, req[r].email, req[r].name)
  <2> DEFINE id == req[r].id
             b == req[r].kind = "email"
             x == [email |-> req[r].email, username |-> req[r].name,
                   local |-> b]
  <2>1. PICK pc \in {"stripe_customer", "session"} :
          Goto(r, pc) /\ (EnableStripe => pc = "stripe_customer")
    <3>1. CASE EnableStripe
      BY <1>3, <3>1 DEF CreateUser, Step
    <3>2. CASE ~EnableStripe
      BY <1>3, <3>2 DEF CreateUser, Step
    <3>3. QED  BY <3>1, <3>2
  <2>2. users' = [users EXCEPT ![id] = x]
    BY <1>3 DEF CreateUser
  <2>3. /\ id \in Ids /\ req[r].email \in Emails
        /\ req[r].name \in Usernames \cup {None} /\ pc \in PC
    <3>1. req[r] \in Request /\ pc \in PC
      BY <1>1 DEF TypeOK, PC
    <3>2. id \in Ids /\ req[r].email \in Emails
      BY <1>1 DEF RequestOK, Asking, Ids, Emails, Spellings
    <3>3. req[r].name \in Usernames \cup {None}
      BY <3>1 DEF Request
    <3>4. QED  BY <3>1, <3>2, <3>3
  <2>4. x \in Row /\ x.email = req[r].email /\ x # None
    <3>1. b \in BOOLEAN
      OBVIOUS
    <3> HIDE DEF b
    <3>2. x \in Row /\ x.email = req[r].email
      BY <2>3, <3>1 DEF Row
    <3>3. QED  BY <3>2, RowAssumption
  <2>5. users[id] = None
    BY <1>3 DEF Conflict
  <2>6. /\ Becomes(r, req'[r]) /\ req'[r].pc = pc /\ Same(r)
    BY <1>1, <2>1, <2>3, GotoIs DEF Same
  <2> HIDE DEF id, x
  <2>7. /\ users' \in [Ids -> Row \cup {None}] /\ users'[id] = x
        /\ \A u \in Ids \ {id} : users'[u] = users[u]
    BY <1>1, <2>2, <2>3, <2>4 DEF TypeOK
  <2>8. /\ id \notin Registered /\ Registered' = Registered \cup {id}
        /\ \A u \in Registered : users'[u] = users[u]
    BY <2>3, <2>4, <2>5, <2>7 DEF Registered
  <2>9. /\ made' = made /\ cusRow' = cusRow /\ sub' = sub /\ subRow' = subRow
        /\ price' = price /\ signed' = signed /\ raced' = raced
    BY <1>1 DEF billing
  <2>10. TypeOK'
    BY <1>1, <2>6, <2>7, <2>8, <2>9 DEF TypeOK, Becomes
  <2>11. MadeOK' /\ Grow
    BY <1>1, <2>8, <2>9 DEF MadeOK, Grow
  <2>12. \A q \in Requests \ {r} : req[q].pc = "stripe_customer" =>
           req[q].id # id
    BY <2>8 DEF Base, RequestOK, Billed
  <2>13. made[id] = 0
    BY <1>1, <2>3, <2>8 DEF MadeOK
  <2>14. req'[r].id = id
    BY <2>6 DEF Same, id
  <2>15. RequestOK(r)'
    <3>1. \/ req'[r].kind = "email" /\ req'[r].id = r /\ req'[r].email \in Emails
          \/ /\ req'[r].kind = "google" /\ req'[r].id \in Mailboxes
             /\ req'[r].email = <<req'[r].id, "lower">>
      BY <1>1, <2>6 DEF RequestOK, Asking, Same
    <3>2. \A q \in Requests \ {r} :
            req'[q].pc = "stripe_customer" => req'[q].id # req'[r].id
      BY <2>6, <2>12, <2>14 DEF Becomes
    <3>3. made'[req'[r].id] = 0 /\ req'[r].id \in Registered'
      BY <2>8, <2>9, <2>13, <2>14
    <3>4. req'[r].pc \in {"stripe_customer", "session"}
      BY <2>6
    <3>5. QED
      BY <3>1, <3>2, <3>3, <3>4 DEF RequestOK, Asking, Billed
  <2>16. \A q \in Requests \ {r} : req[q].pc = "stripe_customer" =>
           /\ made'[req[q].id] = made[req[q].id]
           /\ req'[r].pc = "stripe_customer" => req'[r].id # req[q].id
    BY <2>9, <2>12, <2>14
  <2>17. Base'
    BY <2>6, <2>10, <2>11, <2>15, <2>16, BaseOfStep
  <2>18. InsertStep(r)
    <3>1. users'[id].email = req[r].email
      BY <2>4, <2>7
    <3>2. /\ req[r].id \in Ids \ Registered
          /\ Registered' = Registered \cup {req[r].id}
          /\ users'[req[r].id].email = req[r].email
          /\ \A u \in Registered : users'[u].email = users[u].email
      BY <2>3, <2>8, <3>1 DEF id
    <3>3. QED
      BY <1>1, <2>1, <2>6, <2>7, <2>9, <3>2 DEF InsertStep
  <2>19. QED
    BY <2>17, <2>18
<1>4. QED  BY <1>2, <1>3

\* The call that creates the customer: it is the user's first.
LEMMA CreateCustomerStep ==
  ASSUME Base, NEW r \in Requests, CreateCustomer(r)
  PROVE  Base' /\ AdvanceStep(r)
<1> DEFINE id == req[r].id
<1>1. /\ req[r].pc = "stripe_customer" /\ Goto(r, "store_customer")
      /\ made' = [made EXCEPT ![id] = @ + 1]
      /\ UNCHANGED <<users, cusRow, sub, subRow, price, signed, raced>>
      /\ TypeOK /\ MadeOK /\ RequestOK(r) /\ "store_customer" \in PC
  BY DEF CreateCustomer, Step, Base, PC
<1>2. Becomes(r, req'[r]) /\ req'[r].pc = "store_customer" /\ Same(r)
  BY <1>1, GotoIs DEF Same
<1>3. /\ id \in Registered /\ id \in Ids /\ made[id] = 0
      /\ \A q \in Requests \ {r} :
           req[q].pc = "stripe_customer" => req[q].id # id
  BY <1>1 DEF RequestOK, Billed, Registered
<1>4. /\ \/ req[r].kind = "email" /\ req[r].id = r /\ req[r].email \in Emails
         \/ /\ req[r].kind = "google" /\ req[r].id \in Mailboxes
            /\ req[r].email = <<req[r].id, "lower">>
  BY <1>1 DEF RequestOK, Billed
<1>5. req'[r].id = id
  BY <1>2 DEF Same
<1> HIDE DEF id
<1>6. /\ made' \in [Ids -> Nat] /\ made'[id] = 1
      /\ \A u \in Ids \ {id} : made'[u] = made[u]
  BY <1>1, <1>3 DEF TypeOK
<1>7. Keeps
  BY <1>1, UnchangedKeeps
<1>8. TypeOK'
  BY <1>1, <1>2, <1>6, <1>7 DEF TypeOK, Keeps, Becomes
<1>9. MadeOK' /\ Grow
  BY <1>1, <1>3, <1>6, <1>7 DEF MadeOK, Grow, Keeps
<1>10. RequestOK(r)'
  <2>1. \/ req'[r].kind = "email" /\ req'[r].id = r /\ req'[r].email \in Emails
        \/ /\ req'[r].kind = "google" /\ req'[r].id \in Mailboxes
           /\ req'[r].email = <<req'[r].id, "lower">>
    BY <1>2, <1>4 DEF Same
  <2>2. req'[r].id \in Registered'
    BY <1>3, <1>5, <1>7 DEF Keeps
  <2>3. QED
    BY <1>2, <2>1, <2>2 DEF RequestOK, Asking, Billed
<1>11. \A q \in Requests \ {r} : req[q].pc = "stripe_customer" =>
         /\ made'[req[q].id] = made[req[q].id]
         /\ req'[r].pc = "stripe_customer" => req'[r].id # req[q].id
  <2>1. ASSUME NEW q \in Requests \ {r}, req[q].pc = "stripe_customer"
        PROVE  req[q].id \in Ids \ {id}
    BY <1>3, <2>1 DEF Base, RequestOK, Billed, Registered
  <2>2. QED  BY <1>2, <1>6, <2>1
<1>12. Base'
  BY <1>2, <1>8, <1>9, <1>10, <1>11, BaseOfStep
<1>13. r \in InFlight
  BY <1>1 DEF InFlight
<1>14. QED
  BY <1>1, <1>2, <1>12, <1>13 DEF AdvanceStep

\* The rows of the customer and the subscription, and the subscription itself
LEMMA StoreStep ==
  ASSUME Base, NEW r \in Requests,
         \/ StoreCustomer(r) \/ CreatePlatformSubscription(r)
         \/ StoreSubscription(r) \/ StorePrice(r)
  PROVE  Base' /\ AdvanceStep(r)
<1> DEFINE id == req[r].id
<1>1. /\ UNCHANGED <<users, made, signed, raced>>
      /\ TypeOK /\ MadeOK /\ RequestOK(r)
  BY DEF StoreCustomer, CreatePlatformSubscription, StoreSubscription,
         StorePrice, Base
<1>2. PICK pc \in {"err", "stripe_sub", "store_sub", "store_price", "session"} :
        /\ Goto(r, pc)
        /\ req[r].pc \in {"store_customer", "stripe_sub", "store_sub", "store_price"}
        /\ req[r].pc = "store_customer" => id \in cusRow'
        /\ pc = "stripe_sub" => id \in cusRow'
        /\ pc = "store_sub" => id \in sub'
        /\ pc = "store_price" => id \in subRow'
  BY DEF StoreCustomer, CreatePlatformSubscription, StoreSubscription,
         StorePrice, Step, Subscribe
<1>3. /\ id \in Registered
      /\ req[r].pc = "stripe_sub" => id \in cusRow
      /\ req[r].pc = "store_sub" => id \in sub
      /\ req[r].pc = "store_price" => id \in subRow
      /\ \/ req[r].kind = "email" /\ req[r].id = r /\ req[r].email \in Emails
         \/ /\ req[r].kind = "google" /\ req[r].id \in Mailboxes
            /\ req[r].email = <<req[r].id, "lower">>
  BY <1>1, <1>2 DEF RequestOK, Billed
<1>4. /\ Becomes(r, req'[r]) /\ req'[r].pc = pc /\ Same(r)
  <2>1. pc \in PC
    BY DEF PC
  <2>2. QED  BY <1>1, <1>2, <2>1, GotoIs DEF Same
<1>5. /\ cusRow' = cusRow \/ cusRow' = cusRow \cup {id}
      /\ sub' = sub \/ (sub' = sub \cup {id} /\ id \in cusRow)
      /\ subRow' = subRow \/ (subRow' = subRow \cup {id} /\ id \in sub)
      /\ price' = price \/ (price' = price \cup {id} /\ id \in subRow)
  BY <1>3 DEF StoreCustomer, CreatePlatformSubscription, StoreSubscription,
              StorePrice, Step, Subscribe
<1>6. Keeps
  BY <1>1, UnchangedKeeps
<1>7. TypeOK'
  BY <1>1, <1>3, <1>4, <1>5, <1>6 DEF TypeOK, Keeps, Becomes
<1>8. MadeOK' /\ Grow
  BY <1>1, <1>5, <1>6 DEF MadeOK, Grow, Keeps
<1>9. RequestOK(r)'
  <2>1. req'[r].id = id
    BY <1>4 DEF Same
  <2>2. \/ req'[r].kind = "email" /\ req'[r].id = r /\ req'[r].email \in Emails
        \/ /\ req'[r].kind = "google" /\ req'[r].id \in Mailboxes
           /\ req'[r].email = <<req'[r].id, "lower">>
    BY <1>3, <1>4 DEF Same
  <2>3. req'[r].id \in Registered'
    BY <1>3, <1>6, <2>1 DEF Keeps
  <2>4. QED
    BY <1>2, <1>4, <2>1, <2>2, <2>3 DEF RequestOK, Asking, Billed
<1>10. Base'
  BY <1>1, <1>2, <1>4, <1>7, <1>8, <1>9, BaseOfStep
<1>11. r \in InFlight
  BY <1>2 DEF InFlight
<1>12. QED
  BY <1>1, <1>2, <1>4, <1>5, <1>10, <1>11 DEF AdvanceStep

\* Every step is one of the three kinds.
LEMMA Steps ==
  ASSUME Base, Next
  PROVE  /\ Base'
         /\ \E r \in Requests : BeginStep(r) \/ AdvanceStep(r) \/ InsertStep(r)
<1>1. PICK r \in Requests :
        \/ \E e \in Emails, name \in Usernames : EmailSignup(r, e, name)
        \/ \E box \in Mailboxes : GoogleAuthentication(r, box)
        \/ \E e \in Emails : EmailSignin(r, e)
        \/ \E id \in Ids, name \in Usernames : UpdateUsername(r, id, name)
        \/ SignUpStep(r)
        \/ RequestFails(r)
  BY DEF Next
<1>2. CASE \E e \in Emails, name \in Usernames : EmailSignup(r, e, name)
  BY <1>2, EmailSignupStep
<1>3. CASE \E box \in Mailboxes : GoogleAuthentication(r, box)
  BY <1>3, GoogleAuthenticationStep
<1>4. CASE \E e \in Emails : EmailSignin(r, e)
  BY <1>4, EmailSigninStep
<1>5. CASE \E id \in Ids, name \in Usernames : UpdateUsername(r, id, name)
  BY <1>5, UpdateUsernameStep
<1>6. CASE SignUpStep(r)
  BY <1>6, CheckStep, CreateUserStep, CreateCustomerStep, StoreStep, SetNewStep
     DEF SignUpStep
<1>7. CASE RequestFails(r)
  BY <1>7, RequestFailsStep DEF RequestFails
<1>8. QED  BY <1>1, <1>2, <1>3, <1>4, <1>5, <1>6, <1>7

\* Init satisfies Base.
LEMMA BaseInit == Init => Base
<1> SUFFICES ASSUME Init PROVE Base
  OBVIOUS
<1>1. /\ users \in [Ids -> Row \cup {None}] /\ made \in [Ids -> Nat]
      /\ \A id \in Ids : made[id] = 0
      /\ cusRow = {} /\ sub = {} /\ subRow = {} /\ price = {} /\ signed = {}
      /\ raced = {}
  BY DEF Init
<1>2. /\ req \in [Requests -> Request]
      /\ \A r \in Requests : req[r].pc = "idle" /\ req[r].id = None
  BY DEF Init, Request, PC
<1>3. QED
  BY <1>1, <1>2 DEF Base, TypeOK, MadeOK, RequestOK, Asking, Billed

\* Base is an invariant.
THEOREM BaseCorrect == Spec => []Base
<1>1. Base /\ [Next]_vars => Base'
  <2>1. CASE Next  BY <2>1, Steps
  <2>2. ASSUME Base, vars' = vars  PROVE Base'
    <3>1. /\ users' = users /\ made' = made /\ cusRow' = cusRow /\ sub' = sub
          /\ subRow' = subRow /\ price' = price /\ signed' = signed
          /\ req' = req /\ raced' = raced
      BY <2>2 DEF vars
    <3>2. QED
      BY <2>2, <3>1 DEF Base, TypeOK, MadeOK, RequestOK, Registered
  <2>3. QED  BY <2>1, <2>2
<1>2. QED  BY <1>1, BaseInit, PTL DEF Spec

\* The types of Accounts, and that a row is stored only after what it refers
\* to: a price after its subscription, that after the customer, that after
\* the user.
THEOREM TypeCorrect == Spec => []TypeOK
BY BaseCorrect, PTL DEF Base

\* A user is created in Stripe once, whatever overlaps, fails or is tried
\* again: only the request whose INSERT stored the user creates the customer.
THEOREM OneCustomerCorrect == Spec => []OneCustomer
<1>1. Base => OneCustomer
  BY DEF Base, MadeOK, OneCustomer
<1>2. QED  BY <1>1, BaseCorrect, PTL
---------------------------------------------------------------------------
(* Who overlaps with whom.                                                 *)

\* Requests that are on their way together have overlapped.
OverlapOK == \A q, r \in InFlight : q # r => {q, r} \in raced

Mailbox(u) == users[u].email[1]

\* Who took the mailbox of a sign-up since it asked has overlapped with it.
InsertOK ==
  \A r \in Requests : req[r].pc = "insert" =>
    \A u \in Registered : Mailbox(u) = req[r].email[1] =>
      \E q \in Requests \ {r} : req[q].id = u /\ {q, r} \in raced

\* A stored user of Google has a customer, or a request that did not come so far
StoredOK ==
  \A id \in Registered \cap Mailboxes :
    \/ id \in cusRow
    \/ \E q \in Requests :
         /\ req[q].kind = "google" /\ req[q].id = id
         /\ req[q].pc \in {"stripe_customer", "store_customer", "err"}

Alone(r) == \A p \in raced : r \notin p

HalfWay(id) ==
  \E q \in Requests : /\ req[q].kind = "google" /\ req[q].pc = "err"
                      /\ req[q].id = id

\* A request that asks for its email alone finds its own user only if an earlier
\* one has failed.
AskingOK ==
  \A r \in Requests :
    (req[r].kind = "google" /\ req[r].pc = "email_free" /\ Alone(r)
       /\ req[r].id \in Registered)
    => HalfWay(req[r].id)

\* The invariant behind TwinsOnlyIfRaced and RefusedForAReason
Race ==
  /\ OverlapOK /\ InsertOK /\ TwinsOnlyIfRaced
  /\ EnableStripe => StoredOK /\ AskingOK /\ RefusedForAReason

\* What a begin adds to raced, and that who was there keeps its place
LEMMA BeginKeeps ==
  ASSUME Base, NEW r \in Requests, BeginStep(r)
  PROVE  /\ \A q \in Requests \ {r} : req'[q] = req[q]
         /\ raced \subseteq raced' /\ Registered' = Registered
         /\ \A u \in Registered : users'[u].email = users[u].email
         /\ \A q \in Requests : req[q].id \in Ids => q # r
         /\ \A q \in Requests : req[q].pc = "err" => q # r
         /\ \A p \in raced' : r \notin p => p \in raced
         /\ \A q \in InFlight : {r, q} \in raced'
         /\ r \notin InFlight
<1>1. req[r].id = None /\ None \notin Ids
  BY AccountsAssumption DEF Base, RequestOK, BeginStep, Ids
<1>2. QED
  BY <1>1 DEF BeginStep, Becomes, Overlaps, Keeps, InFlight

\* The steps of one request keep who it is; the others stay as they are.
LEMMA SameKeeps ==
  ASSUME Base, NEW r \in Requests, Becomes(r, req'[r]), Same(r)
  PROVE  \A q \in Requests : /\ req'[q].kind = req[q].kind
                             /\ req'[q].id = req[q].id
                             /\ req'[q].email = req[q].email
BY DEF Becomes, Same

\* Overlaps are noted.
LEMMA OverlapStep ==
  ASSUME Base, OverlapOK, NEW r \in Requests,
         BeginStep(r) \/ AdvanceStep(r) \/ InsertStep(r)
  PROVE  OverlapOK'
<1>1. CASE BeginStep(r)
  <2>1. SUFFICES ASSUME NEW p \in InFlight', NEW q \in InFlight', q # p
                 PROVE  {q, p} \in raced'
    BY DEF OverlapOK
  <2>2. /\ p \in Requests /\ q \in Requests
        /\ p # r => p \in InFlight
        /\ q # r => q \in InFlight
    BY <1>1, BeginKeeps DEF InFlight
  <2>3. CASE p = r
    <3>1. {r, q} \in raced'
      BY <1>1, <2>1, <2>2, <2>3, BeginKeeps
    <3>2. {q, p} = {r, q}
      BY <2>3
    <3>3. QED  BY <3>1, <3>2
  <2>4. CASE q = r
    BY <1>1, <2>1, <2>2, <2>4, BeginKeeps
  <2>5. CASE p # r /\ q # r
    BY <1>1, <2>1, <2>2, <2>5, BeginKeeps DEF OverlapOK
  <2>6. QED  BY <2>3, <2>4, <2>5
<1>2. CASE AdvanceStep(r) \/ InsertStep(r)
  <2>1. InFlight' \subseteq InFlight /\ raced' = raced
    BY <1>2 DEF AdvanceStep, InsertStep, Becomes, InFlight
  <2>2. QED  BY <2>1 DEF OverlapOK
<1>3. QED  BY <1>1, <1>2

\* A registered user has an email, so a mailbox.
LEMMA MailboxSame ==
  ASSUME NEW u, users'[u].email = users[u].email
  PROVE  Mailbox(u)' = Mailbox(u)
BY DEF Mailbox

\* Whoever stores a user overlaps with those who have asked before.
LEMMA InsertOKStep ==
  ASSUME Base, OverlapOK, InsertOK, NEW r \in Requests,
         BeginStep(r) \/ AdvanceStep(r) \/ InsertStep(r)
  PROVE  InsertOK'
<1> SUFFICES ASSUME NEW s \in Requests, req'[s].pc = "insert",
                    NEW u \in Registered', Mailbox(u)' = req'[s].email[1]
             PROVE  \E q \in Requests \ {s} :
                      req'[q].id = u /\ {q, s} \in raced'
  BY DEF InsertOK
<1>1. CASE BeginStep(r)
  <2>1. s # r
    BY <1>1 DEF BeginStep
  <2>2. req[s].pc = "insert" /\ u \in Registered /\ Mailbox(u) = req[s].email[1]
    BY <1>1, <2>1, BeginKeeps, MailboxSame
  <2>3. PICK q \in Requests \ {s} : req[q].id = u /\ {q, s} \in raced
    BY <2>2 DEF InsertOK
  <2>4. u \in Ids
    BY <2>2 DEF Registered
  <2>5. QED
    BY <1>1, <2>3, <2>4, BeginKeeps
<1>2. CASE AdvanceStep(r)
  <2>1. u \in Registered /\ Mailbox(u) = req'[s].email[1] /\ raced' = raced
    BY <1>2 DEF AdvanceStep, Registered, Mailbox
  <2>2. \A q \in Requests : req'[q].id = req[q].id /\ req'[q].email = req[q].email
    BY <1>2, SameKeeps DEF AdvanceStep
  <2>3. CASE s = r
    BY <1>2, <2>1, <2>2, <2>3 DEF AdvanceStep, EmailExists, Mailbox
  <2>4. CASE s # r
    <3>1. req[s].pc = "insert"
      BY <1>2, <2>4 DEF AdvanceStep, Becomes
    <3>2. QED
      BY <2>1, <2>2, <3>1 DEF InsertOK
  <2>5. QED  BY <2>3, <2>4
<1>3. CASE InsertStep(r)
  <2>1. s # r /\ raced' = raced /\ req[s].pc = "insert"
    BY <1>3 DEF InsertStep, Becomes
  <2>2. \A q \in Requests : req'[q].id = req[q].id /\ req'[q].email = req[q].email
    BY <1>3, SameKeeps DEF InsertStep
  <2>3. CASE u = req[r].id
    <3>1. r \in InFlight /\ s \in InFlight
      BY <1>3, <2>1 DEF InFlight, InsertStep
    <3>2. {r, s} \in raced
      BY <2>1, <3>1 DEF OverlapOK
    <3>3. QED
      BY <2>1, <2>2, <2>3, <3>2
  <2>4. CASE u # req[r].id
    <3>1. u \in Registered /\ Mailbox(u) = req[s].email[1]
      BY <1>3, <2>2, <2>4, MailboxSame DEF InsertStep
    <3>2. QED
      BY <2>1, <2>2, <3>1 DEF InsertOK
  <2>5. QED  BY <2>3, <2>4
<1>4. QED  BY <1>1, <1>2, <1>3

\* Two users of one mailbox have overlapped, seen from u and v
Overlapped(u, v) ==
  \E p \in raced : \E q, r \in p : q # r /\ req[q].id = u /\ req[r].id = v

\* The second user of a mailbox is stored by a request that overlapped with
\* that of the first.
LEMMA TwinsStep ==
  ASSUME Base, InsertOK, TwinsOnlyIfRaced, NEW r \in Requests,
         BeginStep(r) \/ AdvanceStep(r) \/ InsertStep(r)
  PROVE  TwinsOnlyIfRaced'
<1> SUFFICES ASSUME NEW u \in Registered', NEW v \in Registered', u # v,
                    users'[u].email[1] = users'[v].email[1]
             PROVE  Overlapped(u, v)'
  BY DEF TwinsOnlyIfRaced, Overlapped
<1>0. raced \subseteq SUBSET Requests
  BY DEF Base, TypeOK
<1>1. CASE BeginStep(r)
  <2>1. /\ u \in Registered /\ v \in Registered
        /\ users[u].email[1] = users[v].email[1] /\ u \in Ids /\ v \in Ids
    BY <1>1, BeginKeeps DEF Registered
  <2>2. PICK p \in raced : \E q, s \in p :
               q # s /\ req[q].id = u /\ req[s].id = v
    BY <2>1 DEF TwinsOnlyIfRaced
  <2>3. PICK q \in p, s \in p : q # s /\ req[q].id = u /\ req[s].id = v
    BY <2>2
  <2>4. q \in Requests /\ s \in Requests
    BY <1>0, <2>3
  <2>5. req'[q] = req[q] /\ req'[s] = req[s] /\ p \in raced'
    BY <1>1, <2>1, <2>3, <2>4, BeginKeeps
  <2>6. QED  BY <2>3, <2>5 DEF Overlapped
<1>2. ASSUME AdvanceStep(r) \/ InsertStep(r), Overlapped(u, v)
      PROVE  Overlapped(u, v)'
  <2>1. \A q \in Requests : req'[q].id = req[q].id
    BY <1>2, SameKeeps DEF AdvanceStep, InsertStep
  <2>2. raced' = raced
    BY <1>2 DEF AdvanceStep, InsertStep
  <2>3. QED
    BY <1>0, <1>2, <2>1, <2>2 DEF Overlapped
<1>3. CASE AdvanceStep(r)
  <2>1. /\ u \in Registered /\ v \in Registered
        /\ users[u].email[1] = users[v].email[1]
    BY <1>3 DEF AdvanceStep, Registered
  <2>2. QED
    BY <1>2, <1>3, <2>1 DEF TwinsOnlyIfRaced, Overlapped
<1>4. CASE InsertStep(r)
  <2>1. ASSUME NEW w \in Registered, Mailbox(w) = req[r].email[1]
        PROVE  Overlapped(w, req[r].id) /\ Overlapped(req[r].id, w)
    <3>1. PICK q \in Requests \ {r} : req[q].id = w /\ {q, r} \in raced
      BY <1>4, <2>1 DEF InsertOK, InsertStep
    <3>2. q \in {q, r} /\ r \in {q, r} /\ q # r
      BY <3>1
    <3>3. QED  BY <3>1, <3>2 DEF Overlapped
  <2>2. /\ \A w \in Registered : users'[w].email = users[w].email
        /\ users'[req[r].id].email = req[r].email
        /\ Registered' = Registered \cup {req[r].id}
    BY <1>4 DEF InsertStep
  <2>3. CASE u = req[r].id
    BY <1>2, <1>4, <2>1, <2>2, <2>3 DEF Mailbox
  <2>4. CASE v = req[r].id
    BY <1>2, <1>4, <2>1, <2>2, <2>4 DEF Mailbox
  <2>5. CASE u # req[r].id /\ v # req[r].id
    <3>1. /\ u \in Registered /\ v \in Registered
          /\ users[u].email[1] = users[v].email[1]
      BY <2>2, <2>5
    <3>2. QED
      BY <1>2, <1>4, <3>1 DEF TwinsOnlyIfRaced, Overlapped
  <2>6. QED  BY <2>3, <2>4, <2>5
<1>5. QED  BY <1>1, <1>3, <1>4

\* A user of Google without a customer is in the hands of a request, or that
\* has failed.
LEMMA StoredStep ==
  ASSUME Base, EnableStripe, StoredOK, NEW r \in Requests,
         BeginStep(r) \/ AdvanceStep(r) \/ InsertStep(r)
  PROVE  StoredOK'
<1> DEFINE Hands(q, id) == /\ req[q].kind = "google" /\ req[q].id = id
                           /\ req[q].pc \in {"stripe_customer",
                                             "store_customer", "err"}
<1> SUFFICES ASSUME NEW id \in Registered' \cap Mailboxes, id \notin cusRow'
             PROVE  \E q \in Requests : Hands(q, id)'
  BY DEF StoredOK
<1>1. CASE BeginStep(r)
  <2>1. id \in Registered \cap Mailboxes /\ id \notin cusRow
    BY <1>1 DEF BeginStep, Keeps
  <2>2. PICK q \in Requests : Hands(q, id)
    BY <2>1 DEF StoredOK
  <2>3. q # r
    BY <1>1, <2>2 DEF BeginStep
  <2>4. QED
    BY <1>1, <2>2, <2>3, BeginKeeps
<1>2. CASE AdvanceStep(r)
  <2>1. id \in Registered \cap Mailboxes /\ id \notin cusRow
    BY <1>2 DEF AdvanceStep, Registered
  <2>2. PICK q \in Requests : Hands(q, id)
    BY <2>1 DEF StoredOK
  <2>3. CASE q = r
    <3>1. req[r].pc # "err" /\ Same(r)
      BY <1>2 DEF AdvanceStep, InFlight
    <3>2. req'[r].pc \in {"store_customer", "err"}
      BY <1>2, <2>2, <2>3, <3>1 DEF AdvanceStep
    <3>3. QED
      BY <2>2, <2>3, <3>1, <3>2 DEF Same
  <2>4. CASE q # r
    BY <1>2, <2>2, <2>4 DEF AdvanceStep, Becomes
  <2>5. QED  BY <2>3, <2>4
<1>3. CASE InsertStep(r)
  <2>1. CASE id = req[r].id
    <3>1. req[r].kind = "google"
      BY <1>3, <2>1, AccountsAssumption
         DEF InsertStep, Base, RequestOK, Asking
    <3>2. Hands(r, id)'
      BY <1>3, <2>1, <3>1 DEF InsertStep, Same
    <3>3. QED  BY <3>2
  <2>2. CASE id # req[r].id
    <3>1. id \in Registered \cap Mailboxes /\ id \notin cusRow
      BY <1>3, <2>2 DEF InsertStep
    <3>2. PICK q \in Requests : Hands(q, id)
      BY <3>1 DEF StoredOK
    <3>3. q # r
      BY <1>3, <3>2 DEF InsertStep
    <3>4. QED
      BY <1>3, <3>2, <3>3 DEF InsertStep, Becomes
  <2>3. QED  BY <2>1, <2>2
<1>4. QED  BY <1>1, <1>2, <1>3

\* A request that failed stays as it is.
LEMMA HalfWayStays ==
  ASSUME Base, NEW r \in Requests,
         BeginStep(r) \/ AdvanceStep(r) \/ InsertStep(r),
         NEW id, HalfWay(id)
  PROVE  HalfWay(id)'
<1>1. PICK q \in Requests :
        req[q].kind = "google" /\ req[q].pc = "err" /\ req[q].id = id
  BY DEF HalfWay
<1>2. q # r
  BY <1>1 DEF BeginStep, AdvanceStep, InsertStep, InFlight
<1>3. req'[q] = req[q]
  BY <1>2 DEF BeginStep, AdvanceStep, InsertStep, Becomes
<1>4. QED  BY <1>1, <1>3 DEF HalfWay

\* Who overlaps with nobody after a step did so before it.
LEMMA AloneBefore ==
  ASSUME Base, NEW r \in Requests,
         BeginStep(r) \/ AdvanceStep(r) \/ InsertStep(r),
         NEW s \in Requests, Alone(s)'
  PROVE  Alone(s)
BY DEF BeginStep, AdvanceStep, InsertStep, Overlaps, Alone

\* A user of Google who asks for the email alone, and finds the own one, has
\* failed before.
LEMMA AskingStep ==
  ASSUME Base, EnableStripe, OverlapOK, StoredOK, AskingOK, NEW r \in Requests,
         BeginStep(r) \/ AdvanceStep(r) \/ InsertStep(r)
  PROVE  AskingOK'
<1> SUFFICES ASSUME NEW s \in Requests, req'[s].kind = "google",
                    req'[s].pc = "email_free", Alone(s)',
                    NEW id \in Registered', id = req'[s].id
             PROVE  HalfWay(id)'
  BY DEF AskingOK, HalfWay
<1>0. Alone(s)
  BY AloneBefore
<1>1. ASSUME s # r, id \in Registered
      PROVE  HalfWay(id)'
  <2>1. req'[s] = req[s]
    BY <1>1 DEF BeginStep, AdvanceStep, InsertStep, Becomes
  <2>2. HalfWay(id)
    BY <1>0, <1>1, <2>1 DEF AskingOK
  <2>3. QED
    BY <2>2, HalfWayStays
<1>2. CASE BeginStep(r)
  <2>1. id \in Registered
    BY <1>2 DEF BeginStep, Keeps
  <2>2. CASE s = r
    <3>1. InFlight = {}
      <4>1. ASSUME NEW q \in InFlight  PROVE FALSE
        <5>1. {r, q} \in raced' /\ r \in {r, q}
          BY <1>2, <4>1, BeginKeeps
        <5>2. QED  BY <2>2, <5>1 DEF Alone
      <4>2. QED  BY <4>1
    <3>2. id \in Registered \cap Mailboxes /\ id \notin cusRow
      BY <1>2, <2>1, <2>2 DEF BeginStep
    <3>3. PICK q \in Requests :
            /\ req[q].kind = "google" /\ req[q].id = id
            /\ req[q].pc \in {"stripe_customer", "store_customer", "err"}
      BY <3>2 DEF StoredOK
    <3>4. req[q].pc = "err"
      BY <3>1, <3>3 DEF InFlight
    <3>5. HalfWay(id)
      BY <3>3, <3>4 DEF HalfWay
    <3>6. QED  BY <3>5, HalfWayStays
  <2>3. QED  BY <1>1, <2>1, <2>2
<1>3. CASE AdvanceStep(r)
  <2>1. s # r /\ id \in Registered
    BY <1>3 DEF AdvanceStep, Same, Registered
  <2>2. QED  BY <1>1, <2>1
<1>4. CASE InsertStep(r)
  <2>1. s # r /\ req[s].pc = "email_free" /\ raced' = raced
    BY <1>4 DEF InsertStep, Becomes
  <2>2. r \in InFlight /\ s \in InFlight
    BY <1>4, <2>1 DEF InFlight, InsertStep
  <2>3. {s, r} \in raced /\ s \in {s, r}
    BY <2>1, <2>2 DEF OverlapOK
  <2>4. QED  BY <1>0, <2>3 DEF Alone
<1>5. QED  BY <1>2, <1>3, <1>4

\* Why a user of Google is refused
Refused(r) ==
  \/ \E u \in Registered \ {req[r].id} : users[u].email[1] = req[r].email[1]
  \/ HalfWay(req[r].id)

\* The refusal of a user of Google keeps its reason.
LEMMA RefusedStep ==
  ASSUME Base, EnableStripe, AskingOK, RefusedForAReason, NEW r \in Requests,
         BeginStep(r) \/ AdvanceStep(r) \/ InsertStep(r)
  PROVE  RefusedForAReason'
<1> SUFFICES ASSUME NEW s \in Requests, req'[s].kind = "google",
                    req'[s].pc = "taken", Alone(s)'
             PROVE  Refused(s)'
  BY DEF RefusedForAReason, Refused, HalfWay, Alone
<1>1. Alone(s)
  BY AloneBefore
<1>2. /\ Registered \subseteq Registered'
      /\ \A u \in Registered : users'[u].email = users[u].email
  BY DEF BeginStep, AdvanceStep, InsertStep, Keeps, Registered
<1>3. CASE s # r
  <2>1. req'[s] = req[s]
    BY <1>3 DEF BeginStep, AdvanceStep, InsertStep, Becomes
  <2>2. Refused(s)
    BY <1>1, <2>1 DEF RefusedForAReason, Refused, HalfWay, Alone
  <2>3. CASE HalfWay(req[s].id)
    <3>1. PICK id : id = req[s].id
      OBVIOUS
    <3>2. HalfWay(id)'
      BY <2>3, <3>1, HalfWayStays
    <3>3. QED  BY <2>1, <3>1, <3>2 DEF Refused, HalfWay
  <2>4. CASE \E u \in Registered \ {req[s].id} :
               users[u].email[1] = req[s].email[1]
    BY <1>2, <2>1, <2>4 DEF Refused
  <2>5. QED  BY <2>2, <2>3, <2>4 DEF Refused
<1>4. CASE s = r
  <2>1. AdvanceStep(r)
    BY <1>4 DEF BeginStep, InsertStep
  <2>2. /\ req[r].kind = "google" /\ req[r].pc = "email_free"
        /\ EmailExists(req[r].email) /\ Same(r)
    BY <1>4, <2>1 DEF AdvanceStep, Same
  <2>3. PICK u \in Registered : users[u].email[1] = req[r].email[1]
    BY <2>2 DEF EmailExists
  <2>4. CASE u = req[r].id
    <3>1. HalfWay(req[r].id)
      BY <1>1, <1>4, <2>2, <2>3, <2>4 DEF AskingOK
    <3>2. PICK id : id = req[r].id
      OBVIOUS
    <3>3. HalfWay(id)'
      BY <3>1, <3>2, HalfWayStays
    <3>4. QED  BY <1>4, <2>2, <3>2, <3>3 DEF Refused, Same, HalfWay
  <2>5. CASE u # req[r].id
    BY <1>2, <1>4, <2>2, <2>3, <2>5 DEF Refused, Same
  <2>6. QED  BY <2>4, <2>5
<1>5. QED  BY <1>3, <1>4

\* Race is an invariant.
THEOREM RaceCorrect == Spec => []Race
<1>1. Init => Race
  BY DEF Init, Race, OverlapOK, InsertOK, TwinsOnlyIfRaced, StoredOK, AskingOK,
         RefusedForAReason, InFlight, Registered
<1>2. Base /\ Race /\ [Next]_vars => Race'
  <2>1. ASSUME Base, Race, Next  PROVE Race'
    <3>1. PICK r \in Requests : BeginStep(r) \/ AdvanceStep(r) \/ InsertStep(r)
      BY <2>1, Steps
    <3>2. QED
      BY <2>1, <3>1, OverlapStep, InsertOKStep, TwinsStep, StoredStep,
         AskingStep, RefusedStep DEF Race
  <2>2. ASSUME Race, vars' = vars  PROVE Race'
    <3>1. users' = users /\ cusRow' = cusRow /\ req' = req /\ raced' = raced
      BY <2>2 DEF vars
    <3>2. OverlapOK' /\ InsertOK' /\ TwinsOnlyIfRaced'
      <4>1. OverlapOK'
        BY <2>2, <3>1 DEF Race, OverlapOK, InFlight
      <4>2. InsertOK'
        BY <2>2, <3>1 DEF Race, InsertOK, Registered, Mailbox
      <4>3. TwinsOnlyIfRaced'
        BY <2>2, <3>1 DEF Race, TwinsOnlyIfRaced, Registered
      <4>4. QED  BY <4>1, <4>2, <4>3
    <3>3. EnableStripe => StoredOK' /\ AskingOK'
      BY <2>2, <3>1 DEF Race, StoredOK, AskingOK, Registered, Alone, HalfWay
    <3>4. EnableStripe => RefusedForAReason'
      BY <2>2, <3>1 DEF Race, RefusedForAReason, Registered
    <3>5. QED
      BY <3>2, <3>3, <3>4 DEF Race
  <2>3. QED  BY <2>1, <2>2
<1>3. QED  BY <1>1, <1>2, BaseCorrect, PTL DEF Spec

\* Two accounts of one mailbox need sign-ups that overlapped: createUser asks
\* whether the email is free before its INSERT, and compares it up to case,
\* which the indexes do not.
THEOREM TwinsOnlyIfRacedCorrect == Spec => []TwinsOnlyIfRaced
BY RaceCorrect, PTL DEF Race

\* googleAuthentication refuses a user whom nobody disturbs only for another
\* user's email, or after a sign-up of the same user that failed half-way.
THEOREM RefusedForAReasonCorrect == Spec => []RefusedForAReason
<1>1. Race => RefusedForAReason
  BY DEF Race, RefusedForAReason
<1>2. QED  BY <1>1, RaceCorrect, PTL
============================================================================
