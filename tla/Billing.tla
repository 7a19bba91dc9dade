------------------------------ MODULE Billing ------------------------------
(***************************************************************************)
(* The plan and the payment methods of one signed-up user: SubscribeToPlan,*)
(* UpdateSubscription, AttachPaymentMethod and RetryInvoice of             *)
(* backend/pkg/service/v1/payment.go, UpdatePlatformSubscription and       *)
(* StorePlatformSubscription of stripeservice, the platform webhook, and   *)
(* the SQL of customers.                                                   *)
(*                                                                         *)
(* The truth is with Stripe, the database holds a copy.  Every call of     *)
(* Stripe and every SQL statement is one step; the reads that begin a      *)
(* request are one step with it.  When Fails, a call may return an error   *)
(* without having been applied.                                            *)
(***************************************************************************)
EXTENDS Integers, FiniteSets

CONSTANTS
  Requests,  \* requests of the user, and deliveries of webhook events
  Kinds,     \* bound: what the requests of the instance ask for
  Cards,     \* ids of payment methods
  Paid,      \* the plans that cost
  Free,      \* the plan of a user who signed up
  None,      \* no value
  Stages,    \* how far the sign-up of the user got
  Fails,     \* may a call of Stripe or of the database return an error?
  Cancels    \* may Stripe cancel the subscription?

Plans == Paid \cup {Free}

\* What EmailSignup did before it returned: nothing for billing, the row of
\* the customer, the subscription, its row, or all.
AllStages == {"user", "customer", "subscription", "subscription_row", "all"}

ASSUME BillingAssumption ==
  /\ IsFiniteSet(Requests) /\ IsFiniteSet(Cards)
  /\ Kinds \subseteq {"subscribe", "update", "attach", "retry", "event"}
  /\ Free \notin Paid /\ None \notin Plans \cup Cards \cup Requests
  /\ Stages \subseteq AllStages
  /\ Fails \in BOOLEAN /\ Cancels \in BOOLEAN

VARIABLES
  plan,       \* Stripe: the plan of the active subscription, or None
  card,       \* Stripe: card[c] is "new", "attached" or "detached"
  default,    \* Stripe: the default payment method of the customer
  emitted,    \* Stripe: the cards with a payment_method.attached event
  pending,    \* Stripe: those whose event was not accepted yet
  customer,   \* is there a row in customers?
  trialUsed,  \* its column trial_used
  subRow,     \* row of stripe_subscriptions: the plan it was stored for
  price,      \* row of stripe_prices: the plan
  pmRow,      \* row of stripe_default_payment_methods: the card
  req,        \* req[r]: the request r
  died,       \* has a panic ended the process?
  granted,    \* history: requests that updated to a trial
  after,      \* history: requests begun after a SubscribeToPlan succeeded
  alone       \* history: the last request, if it overlapped with nothing

stripe == <<plan, card, default, emitted, pending>>
planRows == <<trialUsed, subRow, price>>
rows == <<customer, planRows, pmRow>>
history == <<granted, after, alone>>
vars == <<plan, card, default, emitted, pending, customer, trialUsed, subRow,
          price, pmRow, req, died, granted, after, alone>>

PC == {"idle", "detach", "attach", "default", "invoice", "trial",
       "update_trial", "update", "store_sub", "store_price", "use_trial",
       "clear", "store_pm", "ok", "err", "lost"}

Request ==
  [pc : PC, kind : {"subscribe", "update", "attach", "retry", "event", None},
   plan : Plans \cup {None}, card : Cards \cup {None}, list : SUBSET Cards]

Init ==
  \E s \in Stages :
    /\ customer = (s # "user")
    /\ plan = IF s \in {"user", "customer"} THEN None ELSE Free
    /\ subRow = IF s \in {"subscription_row", "all"} THEN Free ELSE None
    /\ price = IF s = "all" THEN Free ELSE None
    /\ trialUsed = FALSE
    /\ card = [c \in Cards |-> "new"]
    /\ default = None /\ pmRow = None
    /\ emitted = {} /\ pending = {}
    /\ req = [r \in Requests |-> [pc |-> "idle", kind |-> None, plan |-> None,
                                  card |-> None, list |-> {}]]
    /\ died = FALSE
    /\ granted = {} /\ after = {} /\ alone = None
---------------------------------------------------------------------------
(* Helpers.                                                                *)

InFlight == {r \in Requests : req[r].pc \notin {"idle", "ok", "err", "lost"}}

Attached == {c \in Cards : card[c] = "attached"}

\* Faulty variants, each refuted by a property.
TrialNeverUsed == FALSE
UseTrialForgotten == trialUsed' = trialUsed
NothingStoredAfterClear == "ok"

\* The column trial_used
HasCustomerUsedTrial == trialUsed

\* UPDATE customers SET trial_used = true
SetTrialUsed == trialUsed' = TRUE

\* INSERT INTO stripe_default_payment_methods ... ON CONFLICT DO UPDATE
UpsertDefaultPM(c) == pmRow' = c

\* The payment methods AttachPaymentMethod detaches
ListPaymentMethods == Attached

\* What StorePlatformSubscription is followed by
AfterPlan(r) == IF req[r].kind = "subscribe" THEN "store_pm" ELSE "ok"

\* What ClearCustomerPaymentMethods is followed by
AfterClear == "store_pm"

Goto(r, pc) == req' = [req EXCEPT ![r].pc = pc]

\* r starts; it is alone until another request starts.
Begin(r, pc, kind, p, c, list) ==
  /\ req[r].pc = "idle"
  /\ kind \in Kinds
  /\ req' = [req EXCEPT ![r] = [pc |-> pc, kind |-> kind, plan |-> p,
                                card |-> c, list |-> list]]
  /\ alone' = IF InFlight = {} THEN r ELSE None
  /\ after' = IF \E q \in Requests : /\ req[q].kind = "subscribe"
                                     /\ req[q].pc = "ok"
              THEN after \cup {r} ELSE after
  /\ UNCHANGED granted

---------------------------------------------------------------------------
(* SubscribeToPlan and UpdateSubscription.                                 *)

\* GetCustomerByUserID reads the rows; a subscription without a price is an
\* error.
SubscribeToPlan(r, p, c) ==
  /\ customer
  /\ Begin(r, IF subRow # None /\ price = None THEN "err" ELSE "attach",
           "subscribe", p, c, {})
  /\ UNCHANGED <<stripe, rows, died>>

\* ErrNoCustomer: the customer is created again and stored, but cus remains
\* nil and cus.CustomerId panics.
SubscribeRecreates(r, p, c) ==
  /\ ~customer
  /\ "subscribe" \in Kinds /\ req[r].pc = "idle"
  /\ customer' = TRUE
  /\ died' = TRUE
  /\ req' = [q \in Requests |->
              [req[q] EXCEPT !.pc = IF q \in InFlight \cup {r} THEN "lost" ELSE @]]
  /\ alone' = None
  /\ UNCHANGED <<stripe, planRows, pmRow, granted, after>>

\* customer.Get, and the first checks of UpdatePlatformSubscription
UpdateSubscription(r, p) ==
  /\ customer
  /\ Begin(r, IF plan = None \/ default = None THEN "err" ELSE "trial",
           "update", p, None, {})
  /\ UNCHANGED <<stripe, rows, died>>

\* paymentmethod.Attach; a payment method that was detached is of no use.
Attach(r) ==
  /\ req[r].pc = "attach"
  /\ LET c == req[r].card IN
     IF card[c] = "detached"
     THEN /\ Goto(r, "err")
          /\ UNCHANGED stripe
     ELSE /\ Goto(r, "default")
          /\ card' = [card EXCEPT ![c] = "attached"]
          /\ emitted' = emitted \cup {c}
          /\ pending' = IF card[c] = "new" THEN pending \cup {c} ELSE pending
          /\ UNCHANGED <<plan, default>>
  /\ UNCHANGED <<rows, died, history>>

\* customer.Update: the payment method has to be attached.  SubscribeToPlan
\* goes on with the subscriptions of the customer that Stripe answers.
SetDefault(r) ==
  /\ req[r].pc = "default"
  /\ LET c == req[r].card IN
     IF card[c] # "attached"
     THEN /\ Goto(r, "err")
          /\ UNCHANGED default
     ELSE /\ default' = c
          /\ Goto(r, CASE req[r].kind = "subscribe" ->
                            IF plan = None THEN "err" ELSE "trial"
                       [] req[r].kind = "attach" -> "clear"
                       [] req[r].kind = "retry" -> "invoice")
  /\ UNCHANGED <<plan, card, emitted, pending, rows, died, history>>

ReadTrial(r) ==
  /\ req[r].pc = "trial"
  /\ Goto(r, IF HasCustomerUsedTrial THEN "update" ELSE "update_trial")
  /\ UNCHANGED <<stripe, rows, died, history>>

\* sub.Update of the subscription that was active, with or without TrialEnd
UpdatePlatformSubscription(r) ==
  /\ req[r].pc \in {"update", "update_trial"}
  /\ IF plan = None
     THEN /\ Goto(r, "err")
          /\ UNCHANGED <<plan, granted>>
     ELSE /\ Goto(r, "store_sub")
          /\ plan' = req[r].plan
          /\ granted' = IF req[r].pc = "update_trial"
                        THEN granted \cup {r} ELSE granted
  /\ UNCHANGED <<card, default, emitted, pending, rows, died, after, alone>>

\* StorePlatformSubscription: three statements, no transaction
StoreSubscription(r) ==
  /\ req[r].pc = "store_sub"
  /\ subRow' = req[r].plan
  /\ Goto(r, "store_price")
  /\ UNCHANGED <<stripe, customer, trialUsed, price, pmRow, died, history>>

StorePrice(r) ==
  /\ req[r].pc = "store_price"
  /\ price' = req[r].plan
  /\ Goto(r, "use_trial")
  /\ UNCHANGED <<stripe, customer, trialUsed, subRow, pmRow, died, history>>

UseTrial(r) ==
  /\ req[r].pc = "use_trial"
  /\ SetTrialUsed
  /\ Goto(r, AfterPlan(r))
  /\ UNCHANGED <<stripe, customer, subRow, price, pmRow, died, history>>

\* UpdateSubscription overwrites the error of StorePlatformSubscription
\* before it looks at it.
UpdateIgnoresError(r) ==
  /\ Fails
  /\ req[r].kind = "update"
  /\ req[r].pc \in {"store_sub", "store_price", "use_trial"}
  /\ Goto(r, "ok")
  /\ UNCHANGED <<stripe, rows, died, history>>

---------------------------------------------------------------------------
(* AttachPaymentMethod, RetryInvoice, and the webhook.                     *)

AttachPaymentMethod(r, c) ==
  /\ customer
  /\ Begin(r, "detach", "attach", None, c, ListPaymentMethods)
  /\ UNCHANGED <<stripe, rows, died>>

\* Detaching the default payment method leaves the customer without one;
\* one that another request has detached is an error.
Detach(r) ==
  /\ req[r].pc = "detach"
  /\ \/ /\ req[r].list = {}
        /\ Goto(r, "attach")
        /\ UNCHANGED stripe
     \/ \E d \in req[r].list :
          IF card[d] = "attached"
          THEN /\ card' = [card EXCEPT ![d] = "detached"]
               /\ default' = IF default = d THEN None ELSE default
               /\ req' = [req EXCEPT ![r].list = @ \ {d}]
               /\ UNCHANGED <<plan, emitted, pending>>
          ELSE /\ Goto(r, "err")
               /\ UNCHANGED stripe
  /\ UNCHANGED <<rows, died, history>>

ClearCustomerPaymentMethods(r) ==
  /\ req[r].pc = "clear"
  /\ pmRow' = None
  /\ Goto(r, AfterClear)
  /\ UNCHANGED <<stripe, customer, planRows, died, history>>

RetryInvoice(r, c) ==
  /\ customer
  /\ Begin(r, "attach", "retry", None, c, {})
  /\ UNCHANGED <<stripe, rows, died>>

\* invoice.Get.  An invoice without a payment intent, that of a trial, is
\* not expected: reading its status panics.
GetInvoice(r) ==
  /\ req[r].pc = "invoice"
  /\ \/ /\ Goto(r, "ok")
        /\ UNCHANGED <<died, alone>>
     \/ /\ died' = TRUE
        /\ req' = [q \in Requests |->
                    [req[q] EXCEPT !.pc = IF q \in InFlight THEN "lost" ELSE @]]
        /\ alone' = None
  /\ UNCHANGED <<stripe, rows, granted, after>>

\* StripeWebhook: payment_method.attached, delivered once or more often, in
\* any order and at any time.  GetCustomerUserID finds the row.
HandlePMAttached(r, c) ==
  /\ customer
  /\ c \in emitted
  /\ Begin(r, "store_pm", "event", None, c, {})
  /\ UNCHANGED <<stripe, rows, died>>

StoreDefaultPM(r) ==
  /\ req[r].pc = "store_pm"
  /\ UpsertDefaultPM(req[r].card)
  /\ Goto(r, "ok")
  /\ pending' = IF req[r].kind = "event" THEN pending \ {req[r].card} ELSE pending
  /\ UNCHANGED <<plan, card, default, emitted, customer, planRows, died, history>>

\* The error of any other call ends the request.
RequestFails(r) ==
  /\ Fails
  /\ r \in InFlight
  /\ ~ (req[r].kind = "update" /\ req[r].pc \in {"store_sub", "store_price", "use_trial"})
  /\ Goto(r, "err")
  /\ UNCHANGED <<stripe, rows, died, history>>

\* A subscription that is not paid for is cancelled.  The platform webhook
\* has no case for the event.
StripeCancels ==
  /\ Cancels
  /\ plan # None
  /\ plan' = None
  /\ alone' = None
  /\ UNCHANGED <<card, default, emitted, pending, rows, req, died, granted, after>>
---------------------------------------------------------------------------
PlanStep(r) ==
  \/ \E p \in Plans : \/ UpdateSubscription(r, p)
                      \/ \E c \in Cards : \/ SubscribeToPlan(r, p, c)
                                          \/ SubscribeRecreates(r, p, c)
  \/ ReadTrial(r) \/ UpdatePlatformSubscription(r)
  \/ StoreSubscription(r) \/ StorePrice(r) \/ UseTrial(r)
  \/ UpdateIgnoresError(r)

CardStep(r) ==
  \/ \E c \in Cards : \/ AttachPaymentMethod(r, c)
                      \/ RetryInvoice(r, c)
                      \/ HandlePMAttached(r, c)
  \/ Detach(r) \/ Attach(r) \/ SetDefault(r) \/ GetInvoice(r)
  \/ ClearCustomerPaymentMethods(r) \/ StoreDefaultPM(r)
  \/ RequestFails(r)

Next ==
  \/ \E r \in Requests : PlanStep(r) \/ CardStep(r)
  \/ StripeCancels

Spec == Init /\ [][Next]_vars
---------------------------------------------------------------------------
(* Properties.                                                             *)

\* The requests and rows are what the code can make of them.  A request that
\* works on a plan or on a card has one; the default payment method is
\* attached, and a row holds one that once was.
TypeOK ==
  /\ plan \in Plans \cup {None}
  /\ card \in [Cards -> {"new", "attached", "detached"}]
  /\ default \in {c \in Cards : card[c] = "attached"} \cup {None}
  /\ emitted = {c \in Cards : card[c] # "new"}
  /\ pending \subseteq emitted
  /\ customer \in BOOLEAN /\ trialUsed \in BOOLEAN
  /\ subRow \in Plans \cup {None} /\ price \in Plans \cup {None}
  /\ pmRow \in emitted \cup {None}
  /\ req \in [Requests -> Request]
  /\ \A r \in InFlight :
       /\ req[r].pc \in {"attach", "default", "clear", "store_pm"} =>
            req[r].card # None
       /\ req[r].kind = "update" => req[r].plan # None
  /\ died \in BOOLEAN
  /\ granted \subseteq Requests /\ after \subseteq Requests
  /\ alone \in Requests \cup {None}

\* When a request that overlapped with nothing is answered without an error,
\* the rows agree with Stripe, whatever earlier requests left behind when
\* they failed halfway: the plan, its price, the trial and the default card
\* are those of the request, and AttachPaymentMethod leaves one card.
AloneAgrees ==
  alone # None /\ req[alone].pc = "ok" =>
    /\ req[alone].kind = "subscribe" =>
         /\ {plan, subRow, price} = {req[alone].plan}
         /\ trialUsed
         /\ {default, pmRow} = {req[alone].card}
    /\ req[alone].kind = "attach" =>
         /\ {default, pmRow} = {req[alone].card}
         /\ Attached = {req[alone].card}

\* A user whose SubscribeToPlan was answered never gets a trial by a request
\* made later, by whatever other requests it is overtaken.
NoLaterTrial == granted \cap after = {}

\* While no call fails and nothing panics, AttachPaymentMethod clearing the
\* rows of the customer loses none: when everything has settled and Stripe's
\* events have arrived, a customer with a default payment method has a row.
RowSurvives ==
  /\ ~died /\ \A r \in Requests : req[r].pc # "err"
  /\ InFlight = {} /\ pending = {} /\ default # None
  => pmRow # None

(* Refuted: what comments promise.                                         *)

\* SubscribeToPlan creates the customer again when the sign-up failed to
\* (payment.go:52), and goes on.
SubscribeRecovers == "subscribe" \in Kinds => ~died

\* A user gets the trial only if trial_used is not set (stripeservice.go).
TrialOnce == Cardinality(granted) <= 1

\* A user always has one active subscription (stripeservice.go).
OneActiveSubscription == InFlight = {} => plan # None

\* UpdateSubscription stores the subscription (payment.go).
UpdateIsStored ==
  alone # None /\ req[alone].kind = "update" /\ req[alone].pc = "ok" =>
    {subRow, price} = {plan}

\* The row is the default payment method (customers.go).
RowIsDefault == ~died /\ InFlight = {} /\ pending = {} => pmRow \in {default, None}
============================================================================
