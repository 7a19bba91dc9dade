--------------------------- MODULE ConnectWebhook ---------------------------
(***************************************************************************)
(* The rows that StripeConnectWebhook keeps of a connected account: whether*)
(* it can receive payments, and the access of one user to one room         *)
(* (service/v1/stripewebhook.go, pkg/webhook/stripeconnect.go,             *)
(* StoreRoomSubscription of stripeservice and of customers).               *)
(*                                                                         *)
(* Stripe numbers its changes here, and a row is the number of the change  *)
(* it shows.  Stripe delivers an event once or more often, in any order,   *)
(* several at a time, and again until it is accepted.  The subscriptions   *)
(* and payments are those of releases in which rooms could be entered;     *)
(* they renew, fail and end as before.  When Fails, a call may return an   *)
(* error without having been applied.                                      *)
(***************************************************************************)
EXTENDS Naturals, FiniteSets

CONSTANTS
  Requests,   \* deliveries of events
  Subs,       \* monthly subscriptions of the user to the room
  Payments,   \* payment intents of the user for the room
  None,       \* no value
  MaxChange,  \* bound: Stripe makes no more changes than that
  Fails       \* may a call of Stripe or of the database return an error?

ASSUME ConnectWebhookAssumption ==
  /\ IsFiniteSet(Requests)
  /\ Subs # {} /\ Subs \cap Payments = {}
  /\ None \notin Subs \cup Payments \cup Requests \cup Nat
  /\ MaxChange \in Nat
  /\ Fails \in BOOLEAN

VARIABLES
  now,        \* Stripe: the number of the last change
  sub,        \* Stripe: sub[s] is the last change of the subscription s
  ended,      \* Stripe: the subscriptions that were deleted
  settled,    \* Stripe: the payment intents that were paid
  events,     \* Stripe: the events emitted
  accepted,   \* Stripe: those that were answered without an error
  acctRow,    \* can_receive_payments: the change it shows
  roomRow,    \* row of room_subscriptions
  req,        \* req[r]: the delivery r
  top,        \* history: the latest change an event's own data was stored of
  overtaken,  \* history: was something older stored over something newer?
  alone       \* history: the last delivery, if nothing happened meanwhile

stripe == <<now, sub, ended, settled, events>>
history == <<top, overtaken, alone>>
vars == <<now, sub, ended, settled, events, accepted, acctRow, roomRow, req,
          top, overtaken, alone>>

\* kind is "account" (account.updated), "invoice" (invoice.paid,
\* .payment_failed and .payment_action_required), "updated" and "deleted"
\* (customer.subscription), "paid" and "declined" (payment_intent.succeeded
\* and .payment_failed).
Event(kind, of, n) == [kind |-> kind, of |-> of, n |-> n]

\* The row has the id of the first subscription it was stored for, and shows
\* the change n of the object `of` with the invoice of an event.
Init ==
  /\ now = 0
  /\ sub = [s \in Subs |-> 0]
  /\ ended = {} /\ settled = {} /\ events = {} /\ accepted = {}
  /\ acctRow = 0
  /\ \E s \in Subs : roomRow = [id |-> s, of |-> s, n |-> 0, invoice |-> 0]
  /\ req = [r \in Requests |-> [pc |-> "idle", event |-> None, n |-> 0]]
  /\ top = 0 /\ overtaken = FALSE /\ alone = None
---------------------------------------------------------------------------
(* Helpers.                                                                *)

InFlight == {r \in Requests : req[r].pc \in {"get", "store"}}

\* Faulty variants, each refuted by a property.
InsertIfNone(of, n, i) == roomRow' = roomRow
SubscriptionOfEvent(r) == req[r].event.n

\* INSERT INTO room_subscriptions ... ON CONFLICT (user_id, room_id)
StoreRoomSubscription(of, n, i) ==
  roomRow' = [id |-> roomRow.id, of |-> of, n |-> n, invoice |-> i]

\* sub.Get: the handlers of invoices do not trust the event.
UpToDate(r) == sub[req[r].event.of]

Fail(r) == req' = [req EXCEPT ![r].pc = "err"]

Accept(r) ==
  /\ req' = [req EXCEPT ![r].pc = "ok"]
  /\ accepted' = accepted \cup {req[r].event}

---------------------------------------------------------------------------
(* Stripe.                                                                 *)

Changes == now < MaxChange /\ now' = now + 1 /\ alone' = None

AccountChanges ==
  /\ Changes
  /\ events' = events \cup {Event("account", None, now')}
  /\ UNCHANGED <<sub, ended, settled, accepted, acctRow, roomRow, req, top,
                 overtaken>>

\* A period begins or its payment fails, with an invoice, or the status
\* changes without one.
SubscriptionChanges(s) ==
  /\ s \notin ended
  /\ Changes
  /\ sub' = [sub EXCEPT ![s] = now']
  /\ \E more \in {{}, {Event("invoice", s, now')}} :
       events' = events \cup {Event("updated", s, now')} \cup more
  /\ UNCHANGED <<ended, settled, accepted, acctRow, roomRow, req, top, overtaken>>

SubscriptionEnds(s) ==
  /\ s \notin ended
  /\ Changes
  /\ sub' = [sub EXCEPT ![s] = now']
  /\ ended' = ended \cup {s}
  /\ events' = events \cup {Event("deleted", s, now')}
  /\ UNCHANGED <<settled, accepted, acctRow, roomRow, req, top, overtaken>>

PaymentIsMade(p) ==
  /\ p \notin settled
  /\ Changes
  /\ \/ /\ settled' = settled \cup {p}
        /\ events' = events \cup {Event("paid", p, now')}
     \/ /\ events' = events \cup {Event("declined", p, now')}
        /\ UNCHANGED settled
  /\ UNCHANGED <<sub, ended, accepted, acctRow, roomRow, req, top, overtaken>>

---------------------------------------------------------------------------
(* StripeConnectWebhook.                                                   *)

Receive(r, e, pc) ==
  /\ req[r].pc = "idle"
  /\ e \in events
  /\ req' = [req EXCEPT ![r].pc = pc, ![r].event = e]
  /\ alone' = IF InFlight = {} THEN r ELSE None
  /\ UNCHANGED <<stripe, acctRow, roomRow, top, overtaken>>

\* HandleInvoicePaid, HandleInvoicePaymentFailed and
\* HandleInvoicePaymentActionRequired
HandleInvoice(r, e) ==
  /\ e.kind = "invoice"
  /\ Receive(r, e, "get")
  /\ UNCHANGED accepted

\* HandleSubscriptionUpdate, HandlePaymentIntentSucceeded and
\* HandleAccountUpdate store what the event says.
HandlePayload(r, e) ==
  /\ e.kind \in {"updated", "paid", "account"}
  /\ Receive(r, e, "store")
  /\ UNCHANGED accepted

\* The customer of the event is one of the connected account: Stripe does not
\* find it when the platform creates the free subscription.
HandleSubscriptionDeleted(r, e) ==
  /\ e.kind = "deleted"
  /\ Receive(r, e, "err")
  /\ UNCHANGED accepted

HandlePaymentIntentFailed(r, e) ==
  /\ e.kind = "declined"
  /\ Receive(r, e, "ok")
  /\ accepted' = accepted \cup {e}

\* unmarshalInvoiceWithSubscription
GetSubscription(r) ==
  /\ req[r].pc = "get"
  /\ req' = [req EXCEPT ![r].pc = "store", ![r].n = UpToDate(r)]
  /\ UNCHANGED <<stripe, accepted, acctRow, roomRow, history>>

\* storeRoomInvoice: the subscription of now with the invoice of the event
StoreInvoice(r) ==
  LET e == req[r].event IN
  /\ req[r].pc = "store" /\ e.kind = "invoice"
  /\ StoreRoomSubscription(e.of, req[r].n, e.n)
  /\ overtaken' = (overtaken \/ req[r].n < roomRow.n)
  /\ Accept(r)
  /\ UNCHANGED <<stripe, acctRow, top, alone>>

\* updateRoomSubscription, storeRoomPaymentIntent
StorePayload(r) ==
  LET e == req[r].event IN
  /\ req[r].pc = "store" /\ e.kind \in {"updated", "paid"}
  /\ StoreRoomSubscription(e.of, e.n, IF e.kind = "paid" THEN 0 ELSE e.n)
  /\ overtaken' = (overtaken \/ e.n < top)
  /\ top' = IF top < e.n THEN e.n ELSE top
  /\ Accept(r)
  /\ UNCHANGED <<stripe, acctRow, alone>>

UpdateConnectedAccountCanReceivePayments(r) ==
  LET e == req[r].event IN
  /\ req[r].pc = "store" /\ e.kind = "account"
  /\ acctRow' = e.n
  /\ overtaken' = (overtaken \/ e.n < acctRow)
  /\ Accept(r)
  /\ UNCHANGED <<stripe, roomRow, top, alone>>

RequestFails(r) ==
  /\ Fails
  /\ r \in InFlight
  /\ Fail(r)
  /\ UNCHANGED <<stripe, accepted, acctRow, roomRow, history>>
---------------------------------------------------------------------------
StripeStep ==
  \/ AccountChanges
  \/ \E s \in Subs : SubscriptionChanges(s) \/ SubscriptionEnds(s)
  \/ \E p \in Payments : PaymentIsMade(p)

HandlerStep(r) ==
  \/ \E e \in events :
       \/ HandleInvoice(r, e) \/ HandlePayload(r, e)
       \/ HandleSubscriptionDeleted(r, e) \/ HandlePaymentIntentFailed(r, e)
  \/ GetSubscription(r) \/ StoreInvoice(r) \/ StorePayload(r)
  \/ UpdateConnectedAccountCanReceivePayments(r) \/ RequestFails(r)

Next ==
  \/ StripeStep
  \/ \E r \in Requests : HandlerStep(r)

Spec == Init /\ [][Next]_vars
---------------------------------------------------------------------------
(* Properties.                                                             *)

\* The events whose data the handlers store
Stored == {e \in events : e.kind \in {"account", "updated", "paid"}}

\* When every event that can be accepted was, the rows show the last change of
\* the account and of the room, unless something older was stored over
\* something newer: an event's own data over that of a later event, or a
\* subscription that was read before the row changed.  An update that
\* arrives after an invoice which already stored more may set the row back,
\* but not for good.
SettledAgrees ==
  ~overtaken /\ InFlight = {} /\ Stored \subseteq accepted =>
    \A e \in Stored :
      IF e.kind = "account" THEN acctRow >= e.n ELSE roomRow.n >= e.n

\* An invoice event that was handled while nothing else happened leaves the
\* row with the subscription as it is, however old the event, and whatever
\* was stored before: Stripe's next invoice repairs any disorder.
InvoiceHeals ==
  alone # None /\ req[alone].pc = "ok" /\ req[alone].event.kind = "invoice" =>
    /\ roomRow.of = req[alone].event.of
    /\ roomRow.n = sub[roomRow.of]

(* Refuted: what comments and names promise.                               *)

\* customer.subscription.deleted is handled (stripewebhook.go:107).
DeletionIsAccepted ==
  \A r \in Requests :
    req[r].event # None /\ req[r].event.kind = "deleted" => req[r].pc # "err"

\* "One time payments are always active from the moment the payment is
\* successful" (stripeconnect.go:285).
OneTimeStaysActive ==
  (\E e \in accepted : e.kind = "paid") => roomRow.of \in Payments

\* The column latest_invoice (queries.sql:136) has the latest one stored.
LatestInvoice ==
  ~overtaken /\ InFlight = {} =>
    \A e \in accepted : e.kind = "invoice" /\ e.of = roomRow.of =>
      roomRow.invoice >= e.n
============================================================================
