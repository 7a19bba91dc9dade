---------------------------- MODULE ConnectCards ----------------------------
(***************************************************************************)
(* The cards of a donor on a connected account.  Stripe keeps one customer *)
(* for the platform and one for the connected account; donations charge a  *)
(* copy of the platform's card.  HandlePMAttached (pkg/webhook/stripe.go)  *)
(* replaces that copy whenever a card is attached to the platform          *)
(* (SyncConnectPaymentMethods of stripeservice), MakeDonation              *)
(* (service/v1/payment.go) charges it.                                     *)
(*                                                                         *)
(* Every call of Stripe and every SQL statement is one step.  The rows of  *)
(* connected_accounts and connected_customers exist: the RPCs that stored  *)
(* them are commented out in this release, what reads them is not.  When   *)
(* Fails, a call may return an error without having been applied.          *)
(***************************************************************************)
EXTENDS Naturals, FiniteSets, Sequences

CONSTANTS
  Requests,   \* deliveries of payment_method.attached, and donations
  Kinds,      \* bound: which of the two the instance has
  Cards,      \* payment methods of the platform
  MaxCopies,  \* bound: copies on the connected account at the beginning
  None,       \* no value
  Fails       \* may a call of Stripe or of the database return an error?

ASSUME ConnectCardsAssumption ==
  /\ IsFiniteSet(Requests)
  /\ Kinds \subseteq {"event", "donation"}
  /\ MaxCopies \in Nat \ {0}
  /\ None \notin Cards \cup Requests \cup Nat
  /\ Fails \in BOOLEAN

VARIABLES
  card,         \* platform: card[c] is "new", "attached" or "detached"
  default,      \* platform: the default payment method of the customer
  copies,       \* connected account: copies[i] is what the i-th one copies
  attached,     \* connected account: the copies its customer has
  connDefault,  \* connected account: the default of its customer
  canReceive,   \* column can_receive_payments
  pmRow,        \* row of stripe_default_payment_methods
  req,          \* req[r]: the request r
  chosen,       \* history: the cards that were the platform's default
  charged,      \* history: the copies that were charged
  hurt,         \* history: has a sync ended for a reason of the outside?
  alone         \* history: the last request, if it overlapped with nothing

platform == <<card, default>>
connected == <<copies, attached, connDefault>>
history == <<chosen, charged, hurt, alone>>
vars == <<card, default, copies, attached, connDefault, canReceive, pmRow, req,
          chosen, charged, hurt, alone>>

\* The cards of which a payment_method.attached event exists
Emitted == {c \in Cards : card[c] # "new"}

Final == {"idle", "ok", "unsynced", "err", "lost"}
InSync == {"platform", "list", "detach", "copy", "attach", "default"}
Donating == {"account", "intent", "create", "again", "confirm"}

Request ==
  [pc : Final \cup InSync \cup Donating \cup {"row"},
   card : Cards \cup {None}, copy : Nat \cup {None}, list : SUBSET Nat]

\* CreateConnectedCustomer leaves one copy of the card that was the default;
\* overlapping syncs of earlier events may have left some more.
Init ==
  /\ \E c \in Cards :
       /\ card = [d \in Cards |-> IF d = c THEN "attached" ELSE "new"]
       /\ default = c /\ pmRow = c /\ chosen = {c}
       /\ \E n \in 1..MaxCopies :
            /\ copies = [i \in 1..n |-> c]
            /\ attached = 1..n
            /\ connDefault = n
  /\ canReceive \in BOOLEAN
  /\ req = [r \in Requests |-> [pc |-> "idle", card |-> None, copy |-> None,
                                list |-> {}]]
  /\ charged = {} /\ hurt = FALSE /\ alone = None
---------------------------------------------------------------------------
(* Helpers.                                                                *)

InFlight == {r \in Requests : req[r].pc \notin Final}

Syncing == {r \in Requests : req[r].pc \in InSync}

Goto(r, pc) == req' = [req EXCEPT ![r].pc = pc]

\* Faulty variants, each refuted by a property.
UpdateNothing(r) == connDefault' = connDefault
CopiesTheEventsCard(r) == req[r].card
NothingListed == {}

\* Stripe lists the newest payment method first.
Newest(list) == {i \in list : \A j \in list : j <= i}

\* The payment method a sync copies: the platform's default
CopiedCard(r) == default

\* The card the row is about: that of the event
StoredCard(r) == req[r].card

\* paymentmethod.List of the connected customer
ListConnected == attached

\* r starts; it is alone until another request starts.
Begin(r, pc, c) ==
  /\ req[r].pc = "idle"
  /\ req' = [req EXCEPT ![r].pc = pc, ![r].card = c]
  /\ alone' = IF InFlight = {} THEN r ELSE None

\* HandlePMAttached only prints the error of a sync.
SyncFails(r, outside) ==
  /\ Goto(r, "unsynced")
  /\ hurt' = (hurt \/ outside)

---------------------------------------------------------------------------
(* HandlePMAttached.  Stripe delivers an event once or more often, in any  *)
(* order.                                                                  *)

HandlePMAttached(r, c) ==
  /\ "event" \in Kinds
  /\ c \in Emitted
  /\ Begin(r, "row", c)
  /\ UNCHANGED <<platform, connected, canReceive, pmRow, chosen, charged, hurt>>

StoreDefaultPM(r) ==
  /\ req[r].pc = "row"
  /\ pmRow' = StoredCard(r)
  /\ Goto(r, "platform")
  /\ UNCHANGED <<platform, connected, canReceive, history>>

\* GetAllConnectCustomers, and customer.Get of the platform's customer
SyncPlatform(r) ==
  /\ req[r].pc = "platform"
  /\ req' = [req EXCEPT ![r].pc = "list", ![r].card = CopiedCard(r)]
  /\ UNCHANGED <<platform, connected, canReceive, pmRow, history>>

SyncList(r) ==
  /\ req[r].pc = "list"
  /\ req' = [req EXCEPT ![r].pc = "detach", ![r].list = ListConnected]
  /\ UNCHANGED <<platform, connected, canReceive, pmRow, history>>

\* paymentmethod.Detach of each: an error if another sync was faster
SyncDetach(r) ==
  /\ req[r].pc = "detach"
  /\ \E i \in Newest(req[r].list) :
       IF i \in attached
       THEN /\ attached' = attached \ {i}
            /\ connDefault' = IF connDefault = i THEN None ELSE connDefault
            /\ req' = [req EXCEPT ![r].list = @ \ {i}]
            /\ UNCHANGED hurt
       ELSE /\ SyncFails(r, FALSE)
            /\ UNCHANGED <<attached, connDefault>>
  /\ UNCHANGED <<platform, copies, canReceive, pmRow, chosen, charged, alone>>

\* Only now is the default that was read looked at.
SyncDetached(r) ==
  /\ req[r].pc = "detach" /\ req[r].list = {}
  /\ IF req[r].card = None
     THEN SyncFails(r, TRUE)
     ELSE Goto(r, "copy") /\ UNCHANGED hurt
  /\ UNCHANGED <<platform, connected, canReceive, pmRow, chosen, charged, alone>>

\* paymentmethod.New: the card has to be attached to the platform's customer.
SyncCopy(r) ==
  /\ req[r].pc = "copy"
  /\ IF card[req[r].card] = "attached"
     THEN /\ copies' = Append(copies, req[r].card)
          /\ req' = [req EXCEPT ![r].pc = "attach", ![r].copy = Len(copies) + 1]
          /\ UNCHANGED hurt
     ELSE /\ SyncFails(r, TRUE)
          /\ UNCHANGED copies
  /\ UNCHANGED <<platform, attached, connDefault, canReceive, pmRow, chosen,
                 charged, alone>>

\* paymentmethod.Attach
SyncAttach(r) ==
  /\ req[r].pc = "attach"
  /\ attached' = attached \cup {req[r].copy}
  /\ Goto(r, "default")
  /\ UNCHANGED <<platform, copies, connDefault, canReceive, pmRow, history>>

\* customer.Update of the connected customer: the copy becomes its default.
UpdateCustomer(r) == connDefault' = req[r].copy

SyncSetDefault(r) ==
  /\ req[r].pc = "default"
  /\ IF req[r].copy \in attached
     THEN /\ UpdateCustomer(r)
          /\ Goto(r, "ok")
          /\ UNCHANGED hurt
     ELSE /\ SyncFails(r, FALSE)
          /\ UNCHANGED connDefault
  /\ UNCHANGED <<platform, copies, attached, canReceive, pmRow, chosen, charged,
                 alone>>

---------------------------------------------------------------------------
(* MakeDonation.                                                           *)

MakeDonation(r) ==
  /\ "donation" \in Kinds
  /\ Begin(r, "account", None)
  /\ UNCHANGED <<platform, connected, canReceive, pmRow, chosen, charged, hurt>>

\* GetConnectedAccountByUserID, then GetConnectedCustomerByUserID
DonationAccount(r) ==
  /\ req[r].pc = "account"
  /\ Goto(r, IF canReceive THEN "intent" ELSE "err")
  /\ UNCHANGED <<platform, connected, canReceive, pmRow, history>>

\* An error of the database other than ErrNoRows is not returned: reading
\* the nil account panics and ends the process.
DonationPanics(r) ==
  /\ Fails
  /\ req[r].pc = "account"
  /\ req' = [q \in Requests |->
              [req[q] EXCEPT !.pc = IF q \in InFlight THEN "lost" ELSE @]]
  /\ hurt' = (hurt \/ Syncing # {})
  /\ alone' = None
  /\ UNCHANGED <<platform, connected, canReceive, pmRow, chosen, charged>>

\* customer.Get of the connected customer, by CreatePaymentIntent and again
\* by ConfirmConnectPaymentIntent
DonationReads(r) ==
  /\ req[r].pc \in {"intent", "again"}
  /\ LET pc == IF connDefault = None THEN "err"
               ELSE IF req[r].pc = "intent" THEN "create" ELSE "confirm"
     IN  req' = [req EXCEPT ![r].pc = pc, ![r].copy = connDefault]
  /\ UNCHANGED <<platform, connected, canReceive, pmRow, history>>

\* paymentintent.New
CreatePaymentIntent(r) ==
  /\ req[r].pc = "create"
  /\ Goto(r, IF req[r].copy \in attached THEN "again" ELSE "err")
  /\ UNCHANGED <<platform, connected, canReceive, pmRow, history>>

\* paymentintent.Confirm
ConfirmConnectPaymentIntent(r) ==
  /\ req[r].pc = "confirm"
  /\ IF req[r].copy \in attached
     THEN /\ charged' = charged \cup {req[r].copy}
          /\ Goto(r, "ok")
     ELSE /\ Goto(r, "err")
          /\ UNCHANGED charged
  /\ UNCHANGED <<platform, connected, canReceive, pmRow, chosen, hurt, alone>>

\* The error of any call ends the request; that of a sync is swallowed.
RequestFails(r) ==
  /\ Fails
  /\ r \in InFlight
  /\ IF r \in Syncing
     THEN SyncFails(r, TRUE)
     ELSE Goto(r, "err") /\ UNCHANGED hurt
  /\ UNCHANGED <<platform, connected, canReceive, pmRow, chosen, charged, alone>>

---------------------------------------------------------------------------
(* What the module Billing does to the platform's customer, step by step,  *)
(* and HandleAccountUpdate.  No request is alone through such a step.      *)

PlatformAttaches(c) ==
  /\ card[c] = "new"
  /\ card' = [card EXCEPT ![c] = "attached"]
  /\ alone' = None
  /\ UNCHANGED <<default, connected, canReceive, pmRow, req, chosen, charged, hurt>>

PlatformSetsDefault(c) ==
  /\ card[c] = "attached" /\ default # c
  /\ default' = c
  /\ chosen' = chosen \cup {c}
  /\ alone' = None
  /\ UNCHANGED <<card, connected, canReceive, pmRow, req, charged, hurt>>

PlatformDetaches(c) ==
  /\ card[c] = "attached"
  /\ card' = [card EXCEPT ![c] = "detached"]
  /\ default' = IF default = c THEN None ELSE default
  /\ alone' = None
  /\ UNCHANGED <<connected, canReceive, pmRow, req, chosen, charged, hurt>>

HandleAccountUpdate ==
  /\ canReceive' = ~canReceive
  /\ alone' = None
  /\ UNCHANGED <<platform, connected, pmRow, req, chosen, charged, hurt>>
---------------------------------------------------------------------------
SyncStep(r) ==
  \/ \E c \in Cards : HandlePMAttached(r, c)
  \/ StoreDefaultPM(r)
  \/ SyncPlatform(r) \/ SyncList(r) \/ SyncDetach(r) \/ SyncDetached(r)
  \/ SyncCopy(r) \/ SyncAttach(r) \/ SyncSetDefault(r)

DonationStep(r) ==
  \/ MakeDonation(r) \/ DonationAccount(r) \/ DonationPanics(r)
  \/ DonationReads(r) \/ CreatePaymentIntent(r)
  \/ ConfirmConnectPaymentIntent(r)

PlatformStep ==
  \/ \E c \in Cards :
       PlatformAttaches(c) \/ PlatformSetsDefault(c) \/ PlatformDetaches(c)
  \/ HandleAccountUpdate

Next ==
  \/ \E r \in Requests : SyncStep(r) \/ DonationStep(r) \/ RequestFails(r)
  \/ PlatformStep

Spec == Init /\ [][Next]_vars
---------------------------------------------------------------------------
(* Properties.                                                             *)

\* The requests are what the code can make of them; both defaults are
\* attached, a sync past its copy has one, and no two requests the same.
TypeOK ==
  /\ card \in [Cards -> {"new", "attached", "detached"}]
  /\ default \in {c \in Cards : card[c] = "attached"} \cup {None}
  /\ copies \in Seq(Cards)
  /\ attached \subseteq DOMAIN copies
  /\ connDefault \in attached \cup {None}
  /\ canReceive \in BOOLEAN /\ pmRow \in Emitted
  /\ req \in [Requests -> Request]
  /\ \A r \in Requests :
       /\ req[r].list \subseteq DOMAIN copies
       /\ req[r].pc \in {"attach", "default"} =>
            /\ req[r].copy \in DOMAIN copies
            /\ \A q \in Requests \ {r} :
                 req[q].pc \in {"attach", "default"} => req[q].copy # req[r].copy
  /\ chosen \subseteq Cards /\ charged \subseteq DOMAIN copies
  /\ hurt \in BOOLEAN /\ alone \in Requests \cup {None}

\* However syncs overlap and detach each other's copies, a connected customer
\* whose card they have detached gets another one, unless a sync returned an
\* error, which HandlePMAttached prints and Stripe is not told of.
ConnectedKeepsCard ==
  /\ ~hurt /\ \A r \in Requests : req[r].pc # "unsynced"
  /\ Syncing = {}
  => connDefault # None

\* A sync that ran alone and succeeded leaves one card on the connected
\* account, a copy of the platform's default, whatever was there before.
SyncedAlone ==
  alone # None /\ req[alone].card # None /\ req[alone].pc = "ok" =>
    /\ attached = {connDefault}
    /\ copies[connDefault] = default

\* A donation is charged to a copy of a card that the donor once made the
\* default of the platform, though events name every card that is attached.
ChargesChosenCard == \A i \in charged : copies[i] \in chosen

(* Refuted: what comments promise.                                         *)

\* The platform's default is set as the connected default
\* (stripeservice.go:497): four overlapping syncs of which only one fails can
\* leave none, the last default detached by the one that failed.
OneGetsThrough == ~hurt /\ Syncing = {} => connDefault # None

\* Only one payment method at a time (stripeservice.go:497).
OneCardAtATime == ~hurt /\ Syncing = {} => Cardinality(attached) <= 1

\* The copy is the platform's default (stripeservice.go:498).
CopyIsDefault ==
  ~hurt /\ InFlight = {} /\ default # None => copies[connDefault] = default
============================================================================
