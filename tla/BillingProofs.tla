--------------------------- MODULE BillingProofs ---------------------------
(***************************************************************************)
(* Theorems about Billing, for any sets of requests, cards and paid plans: *)
(* who has subscribed gets no second trial, a request that ran alone       *)
(* leaves rows that agree with Stripe, and clearing the cards of a         *)
(* customer loses none.                                                    *)
(***************************************************************************)
EXTENDS Billing, TLAPS

\* Where a request works on a plan, and where on a card
OnPlan == {"trial", "update_trial", "update", "store_sub", "store_price",
           "use_trial"}
OnCard == {"attach", "default", "clear", "store_pm"}

\* What the steps of a request can be, and what it knows: a card of which it
\* stores a row has been attached once.
ReqOK(r) ==
  /\ req[r].pc \in OnPlan => req[r].kind \in {"subscribe", "update"}
  /\ req[r].pc \in {"attach", "default"} =>
       req[r].kind \in {"subscribe", "attach", "retry"}
  /\ req[r].pc \in {"detach", "clear"} => req[r].kind = "attach"
  /\ req[r].pc = "invoice" => req[r].kind = "retry"
  /\ req[r].pc = "store_pm" => req[r].kind \in {"subscribe", "attach", "event"}
  /\ req[r].pc \notin {"idle", "lost"} =>
       /\ req[r].kind \in {"subscribe", "update"} => req[r].plan \in Plans
       /\ req[r].kind \in {"subscribe", "attach", "retry", "event"} =>
            req[r].card \in Cards
  /\ \/ req[r].pc \in {"default", "clear", "store_pm"}
     \/ req[r].kind = "subscribe" /\ req[r].pc \in OnPlan
     => req[r].card \in emitted

\* The types of everything but the requests
StateOK ==
  /\ plan \in Plans \cup {None}
  /\ card \in [Cards -> {"new", "attached", "detached"}]
  /\ default \in {c \in Cards : card[c] = "attached"} \cup {None}
  /\ emitted = {c \in Cards : card[c] # "new"}
  /\ pending \subseteq emitted
  /\ customer \in BOOLEAN /\ trialUsed \in BOOLEAN
  /\ subRow \in Plans \cup {None} /\ price \in Plans \cup {None}
  /\ pmRow \in emitted \cup {None}
  /\ died \in BOOLEAN
  /\ granted \subseteq Requests /\ after \subseteq Requests
  /\ alone \in Requests \cup {None}

Base ==
  /\ StateOK
  /\ req \in [Requests -> Request]
  /\ \A r \in Requests : ReqOK(r)
---------------------------------------------------------------------------
(* Steps of one request.                                                   *)

\* A step of r, which has reached pc
Becomes(r, pc) ==
  /\ req' \in [Requests -> Request]
  /\ req'[r].pc = pc
  /\ \A q \in Requests \ {r} : req'[q] = req[q]

\* It is about the same plan and card as before.
Same(r) ==
  /\ req'[r].kind = req[r].kind
  /\ req'[r].plan = req[r].plan /\ req'[r].card = req[r].card

\* Goto moves the program counter and nothing else.
LEMMA GotoIs ==
  ASSUME req \in [Requests -> Request], NEW r \in Requests,
         NEW pc \in PC, Goto(r, pc)
  PROVE  Becomes(r, pc) /\ Same(r) /\ req'[r].list = req[r].list
<1>1. req[r] \in Request
  OBVIOUS
<1>2. req'[r] = [req[r] EXCEPT !.pc = pc]
  BY DEF Goto
<1>3. /\ req'[r].pc = pc /\ req'[r].kind = req[r].kind
      /\ req'[r].plan = req[r].plan /\ req'[r].card = req[r].card
      /\ req'[r].list = req[r].list
  BY <1>1, <1>2 DEF Request
<1>4. req'[r] \in Request
  BY <1>1, <1>2, <1>3 DEF Request
<1>5. Becomes(r, pc)
  BY <1>3, <1>4 DEF Becomes, Goto
<1>6. QED  BY <1>3, <1>5 DEF Same

\* What a beginning of r leaves
Begun(r, pc, kind, p, c, list) ==
  /\ Becomes(r, pc) /\ req[r].pc = "idle"
  /\ req'[r].kind = kind /\ req'[r].plan = p
  /\ req'[r].card = c /\ req'[r].list = list
  /\ alone' = IF InFlight = {} THEN r ELSE None
  /\ after' = IF \E q \in Requests : /\ req[q].kind = "subscribe"
                                     /\ req[q].pc = "ok"
              THEN after \cup {r} ELSE after
  /\ granted' = granted

\* Begin sets all that is known of a request.
LEMMA BeginIs ==
  ASSUME req \in [Requests -> Request], NEW r \in Requests, NEW pc \in PC,
         NEW kind \in {"subscribe", "update", "attach", "retry", "event"},
         NEW p \in Plans \cup {None}, NEW c \in Cards \cup {None},
         NEW list \in SUBSET Cards, Begin(r, pc, kind, p, c, list)
  PROVE  Begun(r, pc, kind, p, c, list)
<1> DEFINE x == [pc |-> pc, kind |-> kind, plan |-> p, card |-> c,
                 list |-> list]
<1>1. /\ x \in Request /\ x.pc = pc /\ x.kind = kind /\ x.plan = p
      /\ x.card = c /\ x.list = list
  BY DEF Request
<1>2. req[r].pc = "idle" /\ req' = [req EXCEPT ![r] = x]
  BY DEF Begin
<1>3. Becomes(r, pc) /\ req'[r] = x
  <2> HIDE DEF x
  <2> QED  BY <1>1, <1>2 DEF Becomes
<1>4. /\ alone' = IF InFlight = {} THEN r ELSE None
      /\ after' = IF \E q \in Requests : /\ req[q].kind = "subscribe"
                                         /\ req[q].pc = "ok"
                  THEN after \cup {r} ELSE after
      /\ granted' = granted
  BY DEF Begin
<1>5. QED
  <2> HIDE DEF x
  <2> QED  BY <1>1, <1>2, <1>3, <1>4 DEF Begun

\* Base after a step of r: the others know only what was attached once.
LEMMA BaseOfStep ==
  ASSUME Base, NEW r \in Requests, NEW pc, Becomes(r, pc), StateOK',
         emitted \subseteq emitted', ReqOK(r)'
  PROVE  Base'
<1>1. ASSUME NEW q \in Requests \ {r}  PROVE ReqOK(q)'
  <2>1. req'[q] = req[q] /\ ReqOK(q)
    BY DEF Becomes, Base
  <2>2. QED  BY <2>1 DEF ReqOK
<1>2. QED  BY <1>1 DEF Base, Becomes

\* Where a request stands that overlapped with nothing: what of Stripe and of
\* the rows is its own.
Phase(r) ==
  /\ req[r].kind = "subscribe" =>
       /\ req[r].pc \in OnPlan \cup {"store_pm", "ok"} => default = req[r].card
       /\ req[r].pc \in {"store_sub", "store_price", "use_trial", "store_pm", "ok"} =>
            plan = req[r].plan
       /\ req[r].pc \in {"store_price", "use_trial", "store_pm", "ok"} =>
            subRow = req[r].plan
       /\ req[r].pc \in {"use_trial", "store_pm", "ok"} => price = req[r].plan
       /\ req[r].pc \in {"store_pm", "ok"} => trialUsed
       /\ req[r].pc = "ok" => pmRow = req[r].card
  /\ req[r].kind = "attach" =>
       /\ req[r].pc = "detach" => Attached = req[r].list
       /\ req[r].pc = "attach" => Attached = {}
       /\ req[r].pc \in {"default", "clear", "store_pm", "ok"} =>
            Attached = {req[r].card}
       /\ req[r].pc \in {"clear", "store_pm", "ok"} => default = req[r].card
       /\ req[r].pc = "ok" => pmRow = req[r].card

\* A card that was attached once has a row, or somebody is to store one.
Row ==
  \/ emitted = {} \/ pending # {} \/ pmRow # None
  \/ \E q \in Requests : req[q].pc = "store_pm"

\* A request moves on.
Moves(r) ==
  /\ r \in InFlight /\ alone' = alone /\ after' = after /\ died' = died
  /\ \A q \in Requests \ {r} : req'[q] = req[q]
  /\ req'[r].pc # "idle" /\ req'[r].kind = req[r].kind
  /\ Phase(r) => Phase(r)'
  /\ trialUsed => trialUsed'
  /\ req[r].kind = "subscribe" /\ req'[r].pc \in {"store_pm", "ok"} =>
       trialUsed' \/ req[r].pc = "store_pm"
  /\ req'[r].pc = "update_trial" => ~trialUsed
  /\ \A q \in granted' : q \in granted \/ (q = r /\ req[r].pc = "update_trial")
  /\ req'[r].pc = "err" \/ (Row => Row')

\* A request comes in.
Starts(r) ==
  /\ req[r].pc = "idle" /\ req'[r].pc \notin {"idle", "ok", "update_trial"}
  /\ req'[r].kind = "subscribe" => req'[r].pc # "store_pm"
  /\ \A q \in Requests \ {r} : req'[q] = req[q]
  /\ alone' = IF InFlight = {} THEN r ELSE None
  /\ after' \subseteq after \cup {r}
  /\ after' # after =>
       \E q \in Requests : req[q].kind = "subscribe" /\ req[q].pc = "ok"
  /\ granted' = granted /\ trialUsed' = trialUsed /\ died' = died
  /\ emitted' = emitted /\ pending' = pending /\ pmRow' = pmRow
  /\ Phase(r)'

\* Steps after which no request is alone
Disturbs ==
  /\ alone' = None /\ after' = after /\ granted' = granted
  /\ trialUsed' = trialUsed
  /\ \A q \in Requests :
       \/ req'[q] = req[q]
       \/ req'[q].pc = "lost"
  /\ \/ died'
     \/ /\ req' = req /\ died' = died /\ emitted' = emitted
        /\ pending' = pending /\ pmRow' = pmRow
---------------------------------------------------------------------------
(* The steps of a request that change nothing but itself.                  *)

\* What a request that has been begun may go on to without calling anything
\* that changes Stripe or the database
LEMMA QuietStep ==
  ASSUME Base, NEW r \in InFlight, NEW pc \in PC, Goto(r, pc),
         UNCHANGED <<stripe, rows, died, history>>,
         \/ pc \in {"ok", "err"} /\ ~(req[r].kind = "subscribe" /\ pc = "ok")
            /\ ~(req[r].kind = "attach" /\ pc = "ok")
            /\ (req[r].pc = "store_pm" => pc = "err")
         \/ /\ pc \in {"update", "update_trial"} /\ req[r].pc = "trial"
            /\ pc = "update_trial" => ~trialUsed
  PROVE  Base' /\ Moves(r)
<1>1. r \in Requests /\ req[r].pc \notin {"idle", "lost"} /\ ReqOK(r) /\ StateOK
      /\ req \in [Requests -> Request]
  BY DEF InFlight, Base
<1>2. Becomes(r, pc) /\ Same(r)
  BY <1>1, GotoIs
<1>3. /\ plan' = plan /\ card' = card /\ default' = default
      /\ emitted' = emitted /\ pending' = pending /\ customer' = customer
      /\ trialUsed' = trialUsed /\ subRow' = subRow /\ price' = price
      /\ pmRow' = pmRow /\ died' = died /\ granted' = granted
      /\ after' = after /\ alone' = alone
  BY DEF stripe, rows, planRows, history
<1>4. StateOK'
  BY <1>1, <1>3 DEF StateOK
<1>5. ReqOK(r)'
  BY <1>1, <1>2, <1>3 DEF ReqOK, Becomes, Same, OnPlan
<1>6. Base'
  BY <1>1, <1>2, <1>3, <1>4, <1>5, BaseOfStep
<1>7. Phase(r) => Phase(r)'
  BY <1>1, <1>2, <1>3 DEF Phase, Becomes, Same, OnPlan, ReqOK
<1>8. pc = "err" \/ (Row => Row')
  BY <1>2, <1>3 DEF Row, Becomes
<1>9. QED
  BY <1>1, <1>2, <1>3, <1>6, <1>7, <1>8 DEF Moves, Becomes, Same

\* The read of trial_used decides whether the update is to a trial.
LEMMA ReadTrialMoves ==
  ASSUME Base, NEW r \in Requests, ReadTrial(r)
  PROVE  Base' /\ Moves(r)
<1>1. PICK pc \in PC : /\ pc = IF trialUsed THEN "update" ELSE "update_trial"
                       /\ Goto(r, pc)
  BY DEF ReadTrial, HasCustomerUsedTrial, PC
<1>2. r \in InFlight /\ req[r].pc = "trial"
      /\ UNCHANGED <<stripe, rows, died, history>>
  BY DEF ReadTrial, InFlight
<1>3. QED  BY <1>1, <1>2, QuietStep

\* UpdateSubscription forgets the error of what it stores.
LEMMA UpdateIgnoresErrorMoves ==
  ASSUME Base, NEW r \in Requests, UpdateIgnoresError(r)
  PROVE  Base' /\ Moves(r)
<1>1. r \in InFlight /\ req[r].kind = "update" /\ req[r].pc # "store_pm"
      /\ Goto(r, "ok") /\ UNCHANGED <<stripe, rows, died, history>>
  BY DEF UpdateIgnoresError, InFlight
<1>2. "ok" \in PC
  BY DEF PC
<1>3. QED  BY <1>1, <1>2, QuietStep

\* An error ends a request.
LEMMA RequestFailsMoves ==
  ASSUME Base, NEW r \in Requests, RequestFails(r)
  PROVE  Base' /\ Moves(r)
<1>1. r \in InFlight /\ Goto(r, "err")
      /\ UNCHANGED <<stripe, rows, died, history>>
  BY DEF RequestFails
<1>2. "err" \in PC
  BY DEF PC
<1>3. QED  BY <1>1, <1>2, QuietStep

\* The invoice is read and RetryInvoice answers.
LEMMA GetInvoiceMoves ==
  ASSUME Base, NEW r \in Requests, GetInvoice(r), Goto(r, "ok"),
         UNCHANGED <<died, alone>>
  PROVE  Base' /\ Moves(r)
<1>1. r \in InFlight /\ req[r].pc = "invoice"
      /\ UNCHANGED <<stripe, rows, granted, after>>
  BY DEF GetInvoice, InFlight
<1>2. ReqOK(r) /\ "ok" \in PC
  BY DEF Base, PC
<1>3. req[r].kind = "retry"
  BY <1>1, <1>2 DEF ReqOK
<1>4. UNCHANGED <<stripe, rows, died, history>>
  BY <1>1 DEF history
<1>5. QED  BY <1>1, <1>2, <1>3, <1>4, QuietStep
---------------------------------------------------------------------------
(* The steps that update and store the plan.                               *)

\* Stripe updates the subscription, or there is none.
LEMMA UpdatePlatformSubscriptionMoves ==
  ASSUME Base, NEW r \in Requests, UpdatePlatformSubscription(r)
  PROVE  Base' /\ Moves(r)
<1>1. /\ r \in InFlight /\ req[r].pc \in {"update", "update_trial"}
      /\ ReqOK(r) /\ StateOK /\ req \in [Requests -> Request]
  BY DEF UpdatePlatformSubscription, InFlight, Base
<1>2. req[r].kind \in {"subscribe", "update"} /\ req[r].plan \in Plans
      /\ (req[r].kind = "subscribe" => req[r].card \in emitted)
  BY <1>1 DEF ReqOK, OnPlan
<1>3. /\ card' = card /\ default' = default
      /\ emitted' = emitted /\ pending' = pending /\ customer' = customer
      /\ trialUsed' = trialUsed /\ subRow' = subRow /\ price' = price
      /\ pmRow' = pmRow /\ died' = died
      /\ after' = after /\ alone' = alone
  BY DEF UpdatePlatformSubscription, rows, planRows
<1>4. CASE plan = None
  <2>1. Goto(r, "err") /\ plan' = plan /\ granted' = granted
    BY <1>4 DEF UpdatePlatformSubscription
  <2>2. UNCHANGED <<stripe, rows, died, history>> /\ "err" \in PC
    BY <1>3, <2>1 DEF stripe, rows, planRows, history, PC
  <2>3. QED  BY <1>1, <2>1, <2>2, QuietStep
<1>5. CASE plan # None
  <2>1. /\ Goto(r, "store_sub") /\ plan' = req[r].plan
        /\ granted' = IF req[r].pc = "update_trial"
                      THEN granted \cup {r} ELSE granted
    BY <1>5 DEF UpdatePlatformSubscription
  <2>2. Becomes(r, "store_sub") /\ Same(r)
    BY <1>1, <2>1, GotoIs DEF PC
  <2>3. StateOK'
    BY <1>1, <1>2, <1>3, <2>1 DEF StateOK
  <2>4. ReqOK(r)'
    BY <1>1, <1>2, <1>3, <2>2 DEF ReqOK, Becomes, Same, OnPlan
  <2>5. Base'
    BY <1>3, <2>2, <2>3, <2>4, BaseOfStep
  <2>6. Phase(r) => Phase(r)'
    BY <1>1, <1>2, <1>3, <2>1, <2>2 DEF Phase, Becomes, Same, OnPlan
  <2>7. Row => Row'
    BY <1>1, <1>3, <2>2 DEF Row, Becomes
  <2>8. \A q \in granted' :
          q \in granted \/ (q = r /\ req[r].pc = "update_trial")
    BY <2>1
  <2>9. QED
    BY <1>1, <1>3, <2>2, <2>5, <2>6, <2>7, <2>8 DEF Moves, Becomes, Same
<1>6. QED  BY <1>4, <1>5

\* The subscription's row is stored.
LEMMA StoreSubscriptionMoves ==
  ASSUME Base, NEW r \in Requests, StoreSubscription(r)
  PROVE  Base' /\ Moves(r)
<1>1. /\ r \in InFlight /\ req[r].pc = "store_sub" /\ Goto(r, "store_price")
      /\ ReqOK(r) /\ StateOK /\ req \in [Requests -> Request]
  BY DEF StoreSubscription, InFlight, Base
<1>2. req[r].kind \in {"subscribe", "update"} /\ req[r].plan \in Plans
      /\ (req[r].kind = "subscribe" => req[r].card \in emitted)
  BY <1>1 DEF ReqOK, OnPlan
<1>3. /\ plan' = plan /\ card' = card /\ default' = default
      /\ emitted' = emitted /\ pending' = pending /\ customer' = customer
      /\ trialUsed' = trialUsed /\ subRow' = req[r].plan /\ price' = price
      /\ pmRow' = pmRow /\ died' = died /\ granted' = granted
      /\ after' = after /\ alone' = alone
  BY DEF StoreSubscription, stripe, history
<1>4. Becomes(r, "store_price") /\ Same(r)
  BY <1>1, GotoIs DEF PC
<1>5. StateOK'
  BY <1>1, <1>2, <1>3 DEF StateOK
<1>6. ReqOK(r)'
  BY <1>1, <1>2, <1>3, <1>4 DEF ReqOK, Becomes, Same, OnPlan
<1>7. Base'
  BY <1>3, <1>4, <1>5, <1>6, BaseOfStep
<1>8. Phase(r) => Phase(r)'
  BY <1>1, <1>2, <1>3, <1>4 DEF Phase, Becomes, Same, OnPlan
<1>9. Row => Row'
  BY <1>1, <1>3, <1>4 DEF Row, Becomes
<1>10. QED
  BY <1>1, <1>3, <1>4, <1>7, <1>8, <1>9 DEF Moves, Becomes, Same

\* The row of its price is.
LEMMA StorePriceMoves ==
  ASSUME Base, NEW r \in Requests, StorePrice(r)
  PROVE  Base' /\ Moves(r)
<1>1. /\ r \in InFlight /\ req[r].pc = "store_price" /\ Goto(r, "use_trial")
      /\ ReqOK(r) /\ StateOK /\ req \in [Requests -> Request]
  BY DEF StorePrice, InFlight, Base
<1>2. req[r].kind \in {"subscribe", "update"} /\ req[r].plan \in Plans
      /\ (req[r].kind = "subscribe" => req[r].card \in emitted)
  BY <1>1 DEF ReqOK, OnPlan
<1>3. /\ plan' = plan /\ card' = card /\ default' = default
      /\ emitted' = emitted /\ pending' = pending /\ customer' = customer
      /\ trialUsed' = trialUsed /\ subRow' = subRow /\ price' = req[r].plan
      /\ pmRow' = pmRow /\ died' = died /\ granted' = granted
      /\ after' = after /\ alone' = alone
  BY DEF StorePrice, stripe, history
<1>4. Becomes(r, "use_trial") /\ Same(r)
  BY <1>1, GotoIs DEF PC
<1>5. StateOK'
  BY <1>1, <1>2, <1>3 DEF StateOK
<1>6. ReqOK(r)'
  BY <1>1, <1>2, <1>3, <1>4 DEF ReqOK, Becomes, Same, OnPlan
<1>7. Base'
  BY <1>3, <1>4, <1>5, <1>6, BaseOfStep
<1>8. Phase(r) => Phase(r)'
  BY <1>1, <1>2, <1>3, <1>4 DEF Phase, Becomes, Same, OnPlan
<1>9. Row => Row'
  BY <1>1, <1>3, <1>4 DEF Row, Becomes
<1>10. QED
  BY <1>1, <1>3, <1>4, <1>7, <1>8, <1>9 DEF Moves, Becomes, Same

\* trial_used is set before SubscribeToPlan stores the card and answers.
LEMMA UseTrialMoves ==
  ASSUME Base, NEW r \in Requests, UseTrial(r)
  PROVE  Base' /\ Moves(r)
<1>1. /\ r \in InFlight /\ req[r].pc = "use_trial" /\ Goto(r, AfterPlan(r))
      /\ ReqOK(r) /\ StateOK /\ req \in [Requests -> Request]
  BY DEF UseTrial, InFlight, Base
<1>2. req[r].kind \in {"subscribe", "update"} /\ req[r].plan \in Plans
      /\ (req[r].kind = "subscribe" => req[r].card \in emitted)
  BY <1>1 DEF ReqOK, OnPlan
<1>3. /\ plan' = plan /\ card' = card /\ default' = default
      /\ emitted' = emitted /\ pending' = pending /\ customer' = customer
      /\ trialUsed' = TRUE /\ subRow' = subRow /\ price' = price
      /\ pmRow' = pmRow /\ died' = died /\ granted' = granted
      /\ after' = after /\ alone' = alone
  BY DEF UseTrial, SetTrialUsed, stripe, history
<1>4. PICK pc \in PC :
        /\ pc = IF req[r].kind = "subscribe" THEN "store_pm" ELSE "ok"
        /\ Goto(r, pc)
  BY <1>1 DEF AfterPlan, PC
<1>5. Becomes(r, pc) /\ Same(r)
  BY <1>1, <1>4, GotoIs
<1>6. StateOK'
  BY <1>1, <1>2, <1>3 DEF StateOK
<1>7. ReqOK(r)'
  BY <1>1, <1>2, <1>3, <1>4, <1>5 DEF ReqOK, Becomes, Same, OnPlan
<1>8. Base'
  BY <1>3, <1>5, <1>6, <1>7, BaseOfStep
<1>9. Phase(r) => Phase(r)'
  BY <1>1, <1>2, <1>3, <1>4, <1>5 DEF Phase, Becomes, Same, OnPlan
<1>10. Row => Row'
  BY <1>1, <1>3, <1>5 DEF Row, Becomes
<1>11. QED
  BY <1>1, <1>3, <1>4, <1>5, <1>8, <1>9, <1>10 DEF Moves, Becomes, Same
---------------------------------------------------------------------------
(* The steps that attach, choose and store a card.                         *)

\* AttachPaymentMethod detaches the cards it has listed, one by one.
LEMMA DetachMoves ==
  ASSUME Base, NEW r \in Requests, Detach(r)
  PROVE  Base' /\ Moves(r)
<1>1. /\ r \in InFlight /\ req[r].pc = "detach" /\ req[r].kind = "attach"
      /\ ReqOK(r) /\ StateOK /\ req \in [Requests -> Request]
      /\ req[r].card \in Cards /\ req[r] \in Request
  BY DEF Detach, InFlight, Base, ReqOK
<1>2. /\ customer' = customer
      /\ trialUsed' = trialUsed /\ subRow' = subRow /\ price' = price
      /\ pmRow' = pmRow /\ died' = died /\ granted' = granted
      /\ after' = after /\ alone' = alone
  BY DEF Detach, rows, planRows, history
<1>3. CASE Goto(r, "err") /\ UNCHANGED stripe
  <2>1. UNCHANGED <<stripe, rows, died, history>> /\ "err" \in PC
    BY <1>2, <1>3 DEF rows, planRows, history, PC
  <2>2. QED  BY <1>1, <1>3, <2>1, QuietStep
<1>4. CASE req[r].list = {} /\ Goto(r, "attach") /\ UNCHANGED stripe
  <2>1. Becomes(r, "attach") /\ Same(r)
    BY <1>1, <1>4, GotoIs DEF PC
  <2>2. /\ plan' = plan /\ card' = card /\ default' = default
        /\ emitted' = emitted /\ pending' = pending
    BY <1>4 DEF stripe
  <2>3. StateOK'
    BY <1>1, <1>2, <2>2 DEF StateOK
  <2>4. ReqOK(r)'
    BY <1>1, <2>1 DEF ReqOK, Becomes, Same, OnPlan
  <2>5. Base'
    BY <2>1, <2>2, <2>3, <2>4, BaseOfStep
  <2>6. Phase(r) => Phase(r)'
    BY <1>1, <1>4, <2>1, <2>2 DEF Phase, Becomes, Same, Attached
  <2>7. Row => Row'
    BY <1>1, <1>2, <2>1, <2>2 DEF Row, Becomes
  <2>8. QED
    BY <1>1, <1>2, <2>1, <2>5, <2>6, <2>7 DEF Moves, Becomes, Same
<1>5. ASSUME NEW d \in req[r].list, card[d] = "attached",
             card' = [card EXCEPT ![d] = "detached"],
             default' = IF default = d THEN None ELSE default,
             req' = [req EXCEPT ![r].list = @ \ {d}],
             UNCHANGED <<plan, emitted, pending>>
      PROVE  Base' /\ Moves(r)
  <2>1. d \in Cards
    BY <1>1, <1>5 DEF Request
  <2>2. /\ req'[r] = [req[r] EXCEPT !.list = @ \ {d}]
        /\ \A q \in Requests \ {r} : req'[q] = req[q]
        /\ req' \in [Requests -> Request]
    <3> DEFINE x == [req[r] EXCEPT !.list = @ \ {d}]
    <3>1. x \in Request
      BY <1>1 DEF Request
    <3>2. req' = [req EXCEPT ![r] = x]
      BY <1>5
    <3> HIDE DEF x
    <3>3. req'[r] = x /\ (\A q \in Requests \ {r} : req'[q] = req[q])
          /\ req' \in [Requests -> Request]
      BY <1>1, <3>1, <3>2
    <3>4. QED  BY <3>3 DEF x
  <2>3. /\ Becomes(r, "detach") /\ Same(r)
        /\ req'[r].list = req[r].list \ {d}
    BY <1>1, <2>2 DEF Becomes, Same, Request
  <2>4. /\ card \in [Cards -> {"new", "attached", "detached"}]
        /\ emitted = {c \in Cards : card[c] # "new"}
        /\ default \in {c \in Cards : card[c] = "attached"} \cup {None}
    BY <1>1 DEF StateOK
  <2>5. /\ card' \in [Cards -> {"new", "attached", "detached"}]
        /\ emitted' = {c \in Cards : card'[c] # "new"}
        /\ default' \in {c \in Cards : card'[c] = "attached"} \cup {None}
        /\ Attached' = Attached \ {d}
    BY <1>5, <2>1, <2>4 DEF Attached
  <2>6. StateOK'
    BY <1>1, <1>2, <1>5, <2>5 DEF StateOK
  <2>7. ReqOK(r)'
    BY <1>1, <2>3 DEF ReqOK, Becomes, Same, OnPlan
  <2>8. Base'
    BY <1>5, <2>3, <2>6, <2>7, BaseOfStep
  <2>9. Phase(r) => Phase(r)'
    BY <1>1, <2>3, <2>5 DEF Phase, Becomes, Same
  <2>10. Row => Row'
    BY <1>1, <1>2, <1>5, <2>3 DEF Row, Becomes
  <2>11. QED
    BY <1>1, <1>2, <2>3, <2>8, <2>9, <2>10 DEF Moves, Becomes, Same
<1>6. QED  BY <1>3, <1>4, <1>5 DEF Detach

\* A card that is attached is one of those Stripe tells of.
LEMMA AttachMoves ==
  ASSUME Base, NEW r \in Requests, Attach(r)
  PROVE  Base' /\ Moves(r)
<1>1. /\ r \in InFlight /\ req[r].pc = "attach"
      /\ req[r].kind \in {"subscribe", "attach", "retry"}
      /\ ReqOK(r) /\ StateOK /\ req \in [Requests -> Request]
      /\ req[r].card \in Cards
  BY DEF Attach, InFlight, Base, ReqOK
<1>2. /\ customer' = customer
      /\ trialUsed' = trialUsed /\ subRow' = subRow /\ price' = price
      /\ pmRow' = pmRow /\ died' = died /\ granted' = granted
      /\ after' = after /\ alone' = alone
  BY DEF Attach, rows, planRows, history
<1>3. CASE card[req[r].card] = "detached"
  <2>1. Goto(r, "err") /\ "err" \in PC
        /\ UNCHANGED <<stripe, rows, died, history>>
    BY <1>3 DEF Attach, PC
  <2>2. QED  BY <1>1, <2>1, QuietStep
<1>4. CASE card[req[r].card] # "detached"
  <2>1. PICK c \in Cards : c = req[r].card
    BY <1>1
  <2>2. /\ Goto(r, "default") /\ card' = [card EXCEPT ![c] = "attached"]
        /\ emitted' = emitted \cup {c}
        /\ pending' = IF card[c] = "new" THEN pending \cup {c} ELSE pending
        /\ plan' = plan /\ default' = default
    BY <1>4, <2>1 DEF Attach
  <2>3. Becomes(r, "default") /\ Same(r)
    BY <1>1, <2>2, GotoIs DEF PC
  <2>4. /\ card \in [Cards -> {"new", "attached", "detached"}]
        /\ emitted = {d \in Cards : card[d] # "new"}
        /\ default \in {d \in Cards : card[d] = "attached"} \cup {None}
        /\ pending \subseteq emitted
    BY <1>1 DEF StateOK
  <2>5. /\ card' \in [Cards -> {"new", "attached", "detached"}]
        /\ emitted' = {d \in Cards : card'[d] # "new"}
        /\ default' \in {d \in Cards : card'[d] = "attached"} \cup {None}
        /\ pending' \subseteq emitted' /\ Attached' = Attached \cup {c}
    BY <2>2, <2>4 DEF Attached
  <2>6. StateOK'
    BY <1>1, <1>2, <2>2, <2>5 DEF StateOK
  <2>7. ReqOK(r)'
    BY <1>1, <2>1, <2>2, <2>3 DEF ReqOK, Becomes, Same, OnPlan
  <2>8. Base'
    BY <2>2, <2>3, <2>6, <2>7, BaseOfStep
  <2>9. Phase(r) => Phase(r)'
    BY <1>1, <2>1, <2>3, <2>5 DEF Phase, Becomes, Same, OnPlan
  <2>10. Row => Row'
    <3>1. CASE card[c] = "new"
      <4>1. pending' # {}
        BY <2>2, <3>1
      <4>2. QED  BY <4>1 DEF Row
    <3>2. CASE card[c] # "new"
      <4>1. emitted' = emitted /\ pending' = pending
        BY <2>2, <2>4, <3>2
      <4>2. QED  BY <1>1, <1>2, <2>3, <4>1 DEF Row, Becomes
    <3>3. QED  BY <3>1, <3>2
  <2>11. QED
    BY <1>1, <1>2, <2>3, <2>8, <2>9, <2>10 DEF Moves, Becomes, Same
<1>5. QED  BY <1>3, <1>4

\* The default payment method becomes that of the request.
LEMMA SetDefaultMoves ==
  ASSUME Base, NEW r \in Requests, SetDefault(r)
  PROVE  Base' /\ Moves(r)
<1>1. /\ r \in InFlight /\ req[r].pc = "default"
      /\ req[r].kind \in {"subscribe", "attach", "retry"}
      /\ ReqOK(r) /\ StateOK /\ req \in [Requests -> Request]
      /\ req[r].card \in Cards /\ req[r].card \in emitted
  BY DEF SetDefault, InFlight, Base, ReqOK
<1>2. /\ plan' = plan /\ card' = card /\ emitted' = emitted
      /\ pending' = pending /\ customer' = customer
      /\ trialUsed' = trialUsed /\ subRow' = subRow /\ price' = price
      /\ pmRow' = pmRow /\ died' = died /\ granted' = granted
      /\ after' = after /\ alone' = alone
  BY DEF SetDefault, rows, planRows, history
<1>3. CASE card[req[r].card] # "attached"
  <2>1. Goto(r, "err") /\ "err" \in PC
        /\ UNCHANGED <<stripe, rows, died, history>>
    BY <1>2, <1>3 DEF SetDefault, PC, stripe, rows, planRows, history
  <2>2. QED  BY <1>1, <2>1, QuietStep
<1>4. CASE card[req[r].card] = "attached"
  <2>1. /\ default' = req[r].card
        /\ \E pc \in PC :
             /\ Goto(r, pc)
             /\ req[r].kind = "subscribe" => pc \in {"err", "trial"}
             /\ req[r].kind = "attach" => pc = "clear"
             /\ req[r].kind = "retry" => pc = "invoice"
    <3>1. CASE req[r].kind = "subscribe"
      <4>1. default' = req[r].card
            /\ Goto(r, IF plan = None THEN "err" ELSE "trial")
        BY <1>4, <3>1 DEF SetDefault
      <4>2. QED  BY <3>1, <4>1 DEF PC
    <3>2. CASE req[r].kind = "attach"
      <4>1. default' = req[r].card /\ Goto(r, "clear")
        BY <1>4, <3>2 DEF SetDefault
      <4>2. QED  BY <3>2, <4>1 DEF PC
    <3>3. CASE req[r].kind = "retry"
      <4>1. default' = req[r].card /\ Goto(r, "invoice")
        BY <1>4, <3>3 DEF SetDefault
      <4>2. QED  BY <3>3, <4>1 DEF PC
    <3>4. QED  BY <1>1, <3>1, <3>2, <3>3
  <2>2. PICK pc \in PC :
          /\ Goto(r, pc)
          /\ req[r].kind = "subscribe" => pc \in {"err", "trial"}
          /\ req[r].kind = "attach" => pc = "clear"
          /\ req[r].kind = "retry" => pc = "invoice"
    BY <2>1
  <2>3. Becomes(r, pc) /\ Same(r)
    BY <1>1, <2>2, GotoIs
  <2>4. StateOK'
    BY <1>1, <1>2, <1>4, <2>1 DEF StateOK
  <2>5. ReqOK(r)'
    BY <1>1, <1>2, <2>2, <2>3 DEF ReqOK, Becomes, Same, OnPlan
  <2>6. Base'
    BY <1>2, <2>3, <2>4, <2>5, BaseOfStep
  <2>7. Phase(r) => Phase(r)'
    BY <1>1, <1>2, <2>1, <2>2, <2>3
    DEF Phase, Becomes, Same, OnPlan, Attached
  <2>8. Row => Row'
    BY <1>1, <1>2, <2>3 DEF Row, Becomes
  <2>9. QED
    BY <1>1, <1>2, <2>2, <2>3, <2>6, <2>7, <2>8 DEF Moves, Becomes, Same
<1>5. QED  BY <1>3, <1>4

\* Who has cleared the rows of the customer stores a row next.
LEMMA ClearCustomerPaymentMethodsMoves ==
  ASSUME Base, NEW r \in Requests, ClearCustomerPaymentMethods(r)
  PROVE  Base' /\ Moves(r)
<1>1. /\ r \in InFlight /\ req[r].pc = "clear" /\ Goto(r, "store_pm")
      /\ req[r].kind = "attach"
      /\ ReqOK(r) /\ StateOK /\ req \in [Requests -> Request]
      /\ req[r].card \in Cards /\ req[r].card \in emitted
  BY DEF ClearCustomerPaymentMethods, AfterClear, InFlight, Base, ReqOK
<1>2. /\ plan' = plan /\ card' = card /\ default' = default
      /\ emitted' = emitted /\ pending' = pending /\ customer' = customer
      /\ trialUsed' = trialUsed /\ subRow' = subRow /\ price' = price
      /\ pmRow' = None /\ died' = died /\ granted' = granted
      /\ after' = after /\ alone' = alone
  BY DEF ClearCustomerPaymentMethods, stripe, planRows, history
<1>3. Becomes(r, "store_pm") /\ Same(r)
  BY <1>1, GotoIs DEF PC
<1>4. StateOK'
  BY <1>1, <1>2 DEF StateOK
<1>5. ReqOK(r)'
  BY <1>1, <1>2, <1>3 DEF ReqOK, Becomes, Same, OnPlan
<1>6. Base'
  BY <1>2, <1>3, <1>4, <1>5, BaseOfStep
<1>7. Phase(r) => Phase(r)'
  BY <1>1, <1>2, <1>3 DEF Phase, Becomes, Same, OnPlan, Attached
<1>8. Row'
  BY <1>3 DEF Row, Becomes
<1>9. QED
  BY <1>1, <1>2, <1>3, <1>6, <1>7, <1>8 DEF Moves, Becomes, Same

\* The card of the request becomes the row of the customer.
LEMMA StoreDefaultPMMoves ==
  ASSUME Base, NEW r \in Requests, StoreDefaultPM(r)
  PROVE  Base' /\ Moves(r)
<1>1. /\ r \in InFlight /\ req[r].pc = "store_pm" /\ Goto(r, "ok")
      /\ req[r].kind \in {"subscribe", "attach", "event"}
      /\ ReqOK(r) /\ StateOK /\ req \in [Requests -> Request]
      /\ req[r].card \in Cards /\ req[r].card \in emitted
  BY DEF StoreDefaultPM, InFlight, Base, ReqOK
<1>2. /\ plan' = plan /\ card' = card /\ default' = default
      /\ emitted' = emitted /\ pending' \subseteq pending
      /\ customer' = customer
      /\ trialUsed' = trialUsed /\ subRow' = subRow /\ price' = price
      /\ pmRow' = req[r].card /\ died' = died /\ granted' = granted
      /\ after' = after /\ alone' = alone
  BY DEF StoreDefaultPM, UpsertDefaultPM, planRows, history
<1>3. Becomes(r, "ok") /\ Same(r)
  BY <1>1, GotoIs DEF PC
<1>4. StateOK'
  BY <1>1, <1>2 DEF StateOK
<1>5. ReqOK(r)'
  BY <1>1, <1>2, <1>3 DEF ReqOK, Becomes, Same, OnPlan
<1>6. Base'
  BY <1>2, <1>3, <1>4, <1>5, BaseOfStep
<1>7. Phase(r) => Phase(r)'
  BY <1>1, <1>2, <1>3 DEF Phase, Becomes, Same, OnPlan, Attached
<1>8. Row'
  BY <1>1, <1>2, BillingAssumption DEF Row
<1>9. QED
  BY <1>1, <1>2, <1>3, <1>6, <1>7, <1>8 DEF Moves, Becomes, Same
---------------------------------------------------------------------------
(* The beginnings of requests.                                             *)

\* A request that begins, at a place where nothing is asked of its phase
LEMMA BeginStarts ==
  ASSUME Base, NEW r \in Requests,
         NEW pc \in {"attach", "trial", "detach", "store_pm", "err"},
         NEW kind \in {"subscribe", "update", "attach", "retry", "event"},
         NEW p \in Plans \cup {None}, NEW c \in Cards \cup {None},
         NEW list \in SUBSET Cards, Begin(r, pc, kind, p, c, list),
         UNCHANGED <<stripe, rows, died>>,
         pc = "trial" => kind = "update",
         pc = "attach" => kind \in {"subscribe", "retry"},
         pc = "detach" => kind = "attach" /\ list = Attached,
         pc = "store_pm" => kind = "event" /\ c \in emitted,
         kind \in {"subscribe", "update"} => p \in Plans,
         kind \in {"subscribe", "attach", "retry", "event"} => c \in Cards
  PROVE  Base' /\ Starts(r)
<1>1. StateOK /\ req \in [Requests -> Request]
  BY DEF Base
<1>2. Begun(r, pc, kind, p, c, list)
  BY <1>1, BeginIs DEF PC
<1>3. /\ plan' = plan /\ card' = card /\ default' = default
      /\ emitted' = emitted /\ pending' = pending /\ customer' = customer
      /\ trialUsed' = trialUsed /\ subRow' = subRow /\ price' = price
      /\ pmRow' = pmRow /\ died' = died
  BY DEF stripe, rows, planRows
<1>4. /\ Becomes(r, pc) /\ req[r].pc = "idle"
      /\ req'[r].kind = kind /\ req'[r].plan = p
      /\ req'[r].card = c /\ req'[r].list = list
      /\ alone' = IF InFlight = {} THEN r ELSE None
      /\ after' = IF \E q \in Requests : /\ req[q].kind = "subscribe"
                                         /\ req[q].pc = "ok"
                  THEN after \cup {r} ELSE after
      /\ granted' = granted
  BY <1>2 DEF Begun
<1>5. StateOK'
  BY <1>1, <1>3, <1>4 DEF StateOK
<1>6. ReqOK(r)'
  BY <1>3, <1>4 DEF ReqOK, Becomes, OnPlan
<1>7. Base'
  BY <1>3, <1>4, <1>5, <1>6, BaseOfStep
<1>8. Phase(r)'
  BY <1>3, <1>4 DEF Phase, Becomes, OnPlan, Attached
<1>9. QED
  BY <1>3, <1>4, <1>7, <1>8 DEF Starts, Becomes

\* SubscribeToPlan begins by attaching the card.
LEMMA SubscribeToPlanStarts ==
  ASSUME Base, NEW r \in Requests, NEW p \in Plans, NEW c \in Cards,
         SubscribeToPlan(r, p, c)
  PROVE  Base' /\ Starts(r)
<1>1. PICK pc \in {"attach", "err"} : Begin(r, pc, "subscribe", p, c, {})
  BY DEF SubscribeToPlan
<1>2. UNCHANGED <<stripe, rows, died>>
  BY DEF SubscribeToPlan
<1>3. QED  BY <1>1, <1>2, BeginStarts

\* UpdateSubscription begins by reading trial_used.
LEMMA UpdateSubscriptionStarts ==
  ASSUME Base, NEW r \in Requests, NEW p \in Plans, UpdateSubscription(r, p)
  PROVE  Base' /\ Starts(r)
<1>1. PICK pc \in {"trial", "err"} : Begin(r, pc, "update", p, None, {})
  BY DEF UpdateSubscription
<1>2. UNCHANGED <<stripe, rows, died>>
  BY DEF UpdateSubscription
<1>3. QED  BY <1>1, <1>2, BeginStarts

\* AttachPaymentMethod begins by listing the cards.
LEMMA AttachPaymentMethodStarts ==
  ASSUME Base, NEW r \in Requests, NEW c \in Cards, AttachPaymentMethod(r, c)
  PROVE  Base' /\ Starts(r)
<1>1. /\ Begin(r, "detach", "attach", None, c, Attached)
      /\ UNCHANGED <<stripe, rows, died>>
      /\ Attached \in SUBSET Cards
  BY DEF AttachPaymentMethod, ListPaymentMethods, Attached
<1>2. QED  BY <1>1, BeginStarts

\* RetryInvoice begins by attaching the card.
LEMMA RetryInvoiceStarts ==
  ASSUME Base, NEW r \in Requests, NEW c \in Cards, RetryInvoice(r, c)
  PROVE  Base' /\ Starts(r)
<1>1. Begin(r, "attach", "retry", None, c, {})
      /\ UNCHANGED <<stripe, rows, died>>
  BY DEF RetryInvoice
<1>2. QED  BY <1>1, BeginStarts

\* The webhook begins with a card that was attached.
LEMMA HandlePMAttachedStarts ==
  ASSUME Base, NEW r \in Requests, NEW c \in Cards, HandlePMAttached(r, c)
  PROVE  Base' /\ Starts(r)
<1>1. Begin(r, "store_pm", "event", None, c, {}) /\ c \in emitted
      /\ UNCHANGED <<stripe, rows, died>>
  BY DEF HandlePMAttached
<1>2. QED  BY <1>1, BeginStarts
---------------------------------------------------------------------------
(* A panic, and Stripe's own step.                                         *)

\* A panic loses requests and keeps what the others know.
LEMMA PanicDisturbs ==
  ASSUME Base, NEW L \in SUBSET Requests,
         req' = [q \in Requests |->
                   [req[q] EXCEPT !.pc = IF q \in L THEN "lost" ELSE @]],
         died' = TRUE, alone' = None, customer' \in BOOLEAN,
         UNCHANGED <<stripe, planRows, pmRow, granted, after>>
  PROVE  Base' /\ Disturbs
<1>1. /\ plan' = plan /\ card' = card /\ default' = default
      /\ emitted' = emitted /\ pending' = pending
      /\ trialUsed' = trialUsed /\ subRow' = subRow /\ price' = price
      /\ pmRow' = pmRow /\ granted' = granted /\ after' = after
  BY DEF stripe, planRows
<1>2. StateOK'
  BY <1>1 DEF StateOK, Base
<1>3. ASSUME NEW q \in Requests
      PROVE  /\ req'[q] \in Request /\ ReqOK(q)'
             /\ (req'[q] = req[q] \/ req'[q].pc = "lost")
  <2>1. req[q] \in Request /\ ReqOK(q)
    BY DEF Base
  <2>2. req'[q] = [req[q] EXCEPT !.pc = IF q \in L THEN "lost" ELSE @]
    OBVIOUS
  <2>3. CASE q \in L
    <3>1. req'[q] = [req[q] EXCEPT !.pc = "lost"]
      BY <2>2, <2>3
    <3>2. req'[q] \in Request /\ req'[q].pc = "lost"
          /\ req'[q].kind = req[q].kind /\ req'[q].plan = req[q].plan
          /\ req'[q].card = req[q].card
      BY <2>1, <3>1 DEF Request, PC
    <3>3. QED  BY <2>1, <3>2 DEF ReqOK, OnPlan
  <2>4. CASE q \notin L
    <3>1. req'[q] = req[q]
      BY <2>1, <2>2, <2>4 DEF Request
    <3>2. QED  BY <1>1, <2>1, <3>1 DEF ReqOK
  <2>5. QED  BY <2>3, <2>4
<1>4. req' \in [Requests -> Request]
  BY <1>3
<1>5. Base'
  BY <1>2, <1>3, <1>4 DEF Base
<1>6. QED
  BY <1>1, <1>3, <1>5 DEF Disturbs

\* SubscribeToPlan panics for a user without a customer.
LEMMA SubscribeRecreatesDisturbs ==
  ASSUME Base, NEW r \in Requests, NEW p \in Plans, NEW c \in Cards,
         SubscribeRecreates(r, p, c)
  PROVE  Base' /\ Disturbs
<1>1. InFlight \cup {r} \in SUBSET Requests
  BY DEF InFlight
<1>2. /\ req' = [q \in Requests |->
                   [req[q] EXCEPT !.pc = IF q \in InFlight \cup {r}
                                         THEN "lost" ELSE @]]
      /\ died' = TRUE /\ alone' = None /\ customer' \in BOOLEAN
      /\ UNCHANGED <<stripe, planRows, pmRow, granted, after>>
  BY DEF SubscribeRecreates
<1>3. QED  BY <1>1, <1>2, PanicDisturbs

\* So does RetryInvoice when there is nothing to pay.
LEMMA GetInvoiceDisturbs ==
  ASSUME Base, NEW r \in Requests, GetInvoice(r), died' = TRUE, alone' = None,
         req' = [q \in Requests |->
                   [req[q] EXCEPT !.pc = IF q \in InFlight THEN "lost" ELSE @]]
  PROVE  Base' /\ Disturbs
<1>1. InFlight \in SUBSET Requests
  BY DEF InFlight
<1>2. /\ customer' \in BOOLEAN
      /\ UNCHANGED <<stripe, planRows, pmRow, granted, after>>
  BY DEF GetInvoice, rows, planRows, Base, StateOK
<1>3. QED  BY <1>1, <1>2, PanicDisturbs

\* A cancellation changes the plan at Stripe, and no row.
LEMMA StripeCancelsDisturbs ==
  ASSUME Base, StripeCancels
  PROVE  Base' /\ Disturbs
<1>1. /\ plan' = None /\ alone' = None
      /\ card' = card /\ default' = default
      /\ emitted' = emitted /\ pending' = pending /\ customer' = customer
      /\ trialUsed' = trialUsed /\ subRow' = subRow /\ price' = price
      /\ pmRow' = pmRow /\ died' = died /\ granted' = granted
      /\ after' = after /\ req' = req
  BY DEF StripeCancels, rows, planRows
<1>2. StateOK'
  BY <1>1 DEF Base, StateOK
<1>3. \A q \in Requests : ReqOK(q)'
  BY <1>1 DEF Base, ReqOK
<1>4. QED
  BY <1>1, <1>2, <1>3 DEF Base, Disturbs
---------------------------------------------------------------------------
(* Every step is one of these three.                                       *)

\* Each action of a request starts one, moves one on, or ends them all.
LEMMA Steps ==
  ASSUME Base, Next
  PROVE  /\ Base'
         /\ \/ \E r \in Requests : Moves(r) \/ Starts(r)
            \/ Disturbs
<1>1. CASE StripeCancels
  BY <1>1, StripeCancelsDisturbs
<1>2. ASSUME NEW r \in Requests, PlanStep(r)
      PROVE  Base' /\ (Moves(r) \/ Starts(r) \/ Disturbs)
  <2>1. CASE \E p \in Plans : UpdateSubscription(r, p)
    BY <2>1, UpdateSubscriptionStarts
  <2>2. CASE \E p \in Plans, c \in Cards : SubscribeToPlan(r, p, c)
    BY <2>2, SubscribeToPlanStarts
  <2>3. CASE \E p \in Plans, c \in Cards : SubscribeRecreates(r, p, c)
    BY <2>3, SubscribeRecreatesDisturbs
  <2>4. CASE ReadTrial(r)
    BY <2>4, ReadTrialMoves
  <2>5. CASE UpdatePlatformSubscription(r)
    BY <2>5, UpdatePlatformSubscriptionMoves
  <2>6. CASE StoreSubscription(r)
    BY <2>6, StoreSubscriptionMoves
  <2>7. CASE StorePrice(r)
    BY <2>7, StorePriceMoves
  <2>8. CASE UseTrial(r)
    BY <2>8, UseTrialMoves
  <2>9. CASE UpdateIgnoresError(r)
    BY <2>9, UpdateIgnoresErrorMoves
  <2>10. QED
    BY <1>2, <2>1, <2>2, <2>3, <2>4, <2>5, <2>6, <2>7, <2>8, <2>9 DEF PlanStep
<1>3. ASSUME NEW r \in Requests, CardStep(r)
      PROVE  Base' /\ (Moves(r) \/ Starts(r) \/ Disturbs)
  <2>1. CASE \E c \in Cards : AttachPaymentMethod(r, c)
    BY <2>1, AttachPaymentMethodStarts
  <2>2. CASE \E c \in Cards : RetryInvoice(r, c)
    BY <2>2, RetryInvoiceStarts
  <2>3. CASE \E c \in Cards : HandlePMAttached(r, c)
    BY <2>3, HandlePMAttachedStarts
  <2>4. CASE Detach(r)
    BY <2>4, DetachMoves
  <2>5. CASE Attach(r)
    BY <2>5, AttachMoves
  <2>6. CASE SetDefault(r)
    BY <2>6, SetDefaultMoves
  <2>7. CASE GetInvoice(r)
    <3>1. \/ Goto(r, "ok") /\ UNCHANGED <<died, alone>>
          \/ /\ died' = TRUE /\ alone' = None
             /\ req' = [q \in Requests |->
                          [req[q] EXCEPT !.pc = IF q \in InFlight
                                                THEN "lost" ELSE @]]
      BY <2>7 DEF GetInvoice
    <3>2. QED  BY <2>7, <3>1, GetInvoiceMoves, GetInvoiceDisturbs
  <2>8. CASE ClearCustomerPaymentMethods(r)
    BY <2>8, ClearCustomerPaymentMethodsMoves
  <2>9. CASE StoreDefaultPM(r)
    BY <2>9, StoreDefaultPMMoves
  <2>10. CASE RequestFails(r)
    BY <2>10, RequestFailsMoves
  <2>11. QED
    BY <1>3, <2>1, <2>2, <2>3, <2>4, <2>5, <2>6, <2>7, <2>8, <2>9, <2>10
    DEF CardStep
<1>4. QED  BY <1>1, <1>2, <1>3 DEF Next

\* Wherever the sign-up ended, the rows and the requests are well formed.
LEMMA BaseInit == Init => Base
<1>1. SUFFICES ASSUME Init PROVE Base
  OBVIOUS
<1>2. PICK s \in Stages :
        /\ customer = (s # "user")
        /\ plan = IF s \in {"user", "customer"} THEN None ELSE Free
        /\ subRow = IF s \in {"subscription_row", "all"} THEN Free ELSE None
        /\ price = IF s = "all" THEN Free ELSE None
  BY <1>1 DEF Init
<1>3. StateOK
  <2>1. customer \in BOOLEAN
    BY <1>2, Zenon
  <2>2. /\ plan \in Plans \cup {None} /\ subRow \in Plans \cup {None}
        /\ price \in Plans \cup {None}
    BY <1>2 DEF Plans
  <2>3. QED  BY <1>1, <2>1, <2>2 DEF Init, StateOK
<1>4. req = [r \in Requests |-> [pc |-> "idle", kind |-> None, plan |-> None,
                                 card |-> None, list |-> {}]]
  BY <1>1 DEF Init
<1>5. ASSUME NEW r \in Requests
      PROVE  req[r] \in Request /\ req[r].pc = "idle" /\ req[r].kind = None
             /\ req[r].plan = None /\ req[r].card = None
  BY <1>4 DEF Request, PC
<1>6. req \in [Requests -> Request]
  BY <1>4, <1>5
<1>7. \A r \in Requests : ReqOK(r)
  BY <1>5 DEF ReqOK, OnPlan
<1>8. QED  BY <1>3, <1>6, <1>7 DEF Base
---------------------------------------------------------------------------
(* Theorems.                                                               *)

\* In every behaviour the rows, Stripe and the requests are well formed.
LEMMA BaseCorrect == Spec => []Base
<1>1. ASSUME Base, [Next]_vars  PROVE Base'
  <2>1. CASE Next
    BY <1>1, <2>1, Steps
  <2>2. CASE UNCHANGED vars
    BY <1>1, <2>2 DEF Base, StateOK, ReqOK, vars
  <2>3. QED  BY <1>1, <2>1, <2>2
<1>2. QED  BY BaseInit, <1>1, PTL DEF Spec

\* The requests and the rows are what the code can make of them: who works
\* on a plan or on a card has one, Stripe's default payment method is
\* attached, and a row holds a card that once was.
THEOREM TypeCorrect == Spec => []TypeOK
<1>1. ASSUME Base  PROVE TypeOK
  <2>1. ASSUME NEW r \in InFlight
        PROVE  /\ req[r].pc \in {"attach", "default", "clear", "store_pm"} =>
                    req[r].card # None
               /\ req[r].kind = "update" => req[r].plan # None
    <3>1. r \in Requests /\ ReqOK(r) /\ req[r].pc \notin {"idle", "lost"}
      BY <1>1 DEF InFlight, Base
    <3>2. QED  BY <3>1, BillingAssumption DEF ReqOK
  <2>2. QED  BY <1>1, <2>1 DEF Base, StateOK, TypeOK
<1>2. QED  BY BaseCorrect, <1>1, PTL

\* Who grants trials, and what is known of trial_used: it is set before
\* SubscribeToPlan answers, and a request made after that has read it.
TrialOK ==
  /\ \A r \in Requests :
       req[r].kind = "subscribe" /\ req[r].pc \in {"store_pm", "ok"} => trialUsed
  /\ after # {} => trialUsed
  /\ \A r \in after : req[r].pc # "update_trial"
  /\ \A r \in granted : req[r].pc # "idle"
  /\ granted \cap after = {}

\* Every step keeps it.
LEMMA TrialStep ==
  ASSUME Base, TrialOK, [Next]_vars
  PROVE  TrialOK'
<1> USE DEF TrialOK
<1>1. granted \subseteq Requests /\ after \subseteq Requests
  BY DEF Base, StateOK
<1>2. ASSUME NEW r \in Requests, Moves(r)  PROVE TrialOK'
  <2>1. /\ trialUsed => trialUsed'
        /\ after' = after
        /\ \A q \in Requests \ {r} : req'[q] = req[q]
        /\ req[r].pc # "idle" /\ req'[r].pc # "idle"
        /\ req'[r].kind = req[r].kind
        /\ req'[r].pc = "update_trial" => ~trialUsed
        /\ \A q \in granted' :
             q \in granted \/ (q = r /\ req[r].pc = "update_trial")
        /\ req[r].kind = "subscribe" /\ req'[r].pc \in {"store_pm", "ok"} =>
             trialUsed' \/ req[r].pc = "store_pm"
    BY <1>2 DEF Moves, InFlight
  <2>2. \A q \in Requests :
          req'[q].kind = "subscribe" /\ req'[q].pc \in {"store_pm", "ok"} =>
            trialUsed'
    BY <2>1
  <2>3. (after' # {} => trialUsed')
        /\ \A q \in after' : req'[q].pc # "update_trial"
    BY <1>1, <2>1
  <2>4. (\A q \in granted' : req'[q].pc # "idle") /\ granted' \cap after' = {}
    BY <1>1, <2>1
  <2>5. QED  BY <2>2, <2>3, <2>4
<1>3. ASSUME NEW r \in Requests, Starts(r)  PROVE TrialOK'
  <2>1. /\ \A q \in Requests \ {r} : req'[q] = req[q]
        /\ req[r].pc = "idle" /\ req'[r].pc \notin {"idle", "ok", "update_trial"}
        /\ req'[r].kind = "subscribe" => req'[r].pc # "store_pm"
        /\ after' \subseteq after \cup {r}
        /\ after' # after =>
             \E q \in Requests : req[q].kind = "subscribe" /\ req[q].pc = "ok"
        /\ granted' = granted /\ trialUsed' = trialUsed
    BY <1>3 DEF Starts
  <2>2. QED  BY <1>1, <2>1
<1>4. CASE Disturbs
  <2>1. /\ after' = after /\ granted' = granted /\ trialUsed' = trialUsed
        /\ \A q \in Requests : req'[q] = req[q] \/ req'[q].pc = "lost"
    BY <1>4 DEF Disturbs
  <2>2. QED  BY <1>1, <2>1
<1>5. CASE UNCHANGED vars
  BY <1>5 DEF vars
<1>6. QED  BY <1>2, <1>3, <1>4, <1>5, Steps

\* A user whose SubscribeToPlan was answered gets no trial by a request made
\* later, by whatever other requests it is overtaken: trial_used is set before
\* the answer and never cleared, and a request reads it before it grants one.
THEOREM NoLaterTrialCorrect == Spec => []NoLaterTrial
<1>1. Init => TrialOK
  <2>1. SUFFICES ASSUME Init PROVE TrialOK
    OBVIOUS
  <2>2. \A r \in Requests : req[r].pc = "idle"
    BY <2>1 DEF Init
  <2>3. granted = {} /\ after = {}
    BY <2>1 DEF Init
  <2>4. QED  BY <2>2, <2>3 DEF TrialOK
<1>2. Base /\ TrialOK /\ [Next]_vars => TrialOK'
  BY TrialStep
<1>3. TrialOK => NoLaterTrial
  BY DEF TrialOK, NoLaterTrial
<1>4. QED  BY BaseCorrect, <1>1, <1>2, <1>3, PTL DEF Spec

\* The request that overlapped with nothing is the only one in flight, and
\* what it has read, set and stored so far still holds.
AloneOK == \A a \in Requests : alone = a => InFlight \subseteq {a} /\ Phase(a)

\* Every step keeps it: a step of another request needs it in flight, and a
\* beginning during another ends the solitude.
LEMMA AloneStep ==
  ASSUME Base, AloneOK, [Next]_vars
  PROVE  AloneOK'
<1>1. ASSUME NEW r \in Requests, Moves(r)  PROVE AloneOK'
  <2>1. SUFFICES ASSUME NEW a \in Requests, alone' = a
                 PROVE  (InFlight \subseteq {a} /\ Phase(a))'
    BY DEF AloneOK
  <2>2. r = a /\ Phase(r) /\ InFlight \subseteq {a}
    BY <1>1, <2>1 DEF AloneOK, Moves
  <2>3. Phase(r)' /\ \A q \in Requests \ {r} : req'[q] = req[q]
    BY <1>1, <2>2 DEF Moves
  <2>4. InFlight' \subseteq {a}
    BY <2>2, <2>3 DEF InFlight
  <2>5. QED  BY <2>2, <2>3, <2>4
<1>2. ASSUME NEW r \in Requests, Starts(r)  PROVE AloneOK'
  <2>1. SUFFICES ASSUME NEW a \in Requests, alone' = a
                 PROVE  (InFlight \subseteq {a} /\ Phase(a))'
    BY DEF AloneOK
  <2>2. InFlight = {} /\ a = r
    BY <1>2, <2>1, BillingAssumption DEF Starts
  <2>3. Phase(r)' /\ \A q \in Requests \ {r} : req'[q] = req[q]
    BY <1>2 DEF Starts
  <2>4. InFlight' \subseteq {a}
    BY <2>2, <2>3 DEF InFlight
  <2>5. QED  BY <2>2, <2>3, <2>4
<1>3. CASE Disturbs
  BY <1>3, BillingAssumption DEF Disturbs, AloneOK
<1>4. CASE UNCHANGED vars
  BY <1>4 DEF vars, AloneOK, InFlight, Phase, Attached
<1>5. QED  BY <1>1, <1>2, <1>3, <1>4, Steps

\* When a request that overlapped with nothing is answered without an error,
\* the rows agree with Stripe, whatever earlier requests left behind when they
\* failed halfway: the plan, its price, the trial and the default card are
\* those of the request, and AttachPaymentMethod leaves one card.
THEOREM AloneAgreesCorrect == Spec => []AloneAgrees
<1>1. Init => AloneOK
  BY BillingAssumption DEF Init, AloneOK
<1>2. Base /\ AloneOK /\ [Next]_vars => AloneOK'
  BY AloneStep
<1>3. ASSUME Base, AloneOK  PROVE AloneAgrees
  <2>1. SUFFICES ASSUME alone # None, req[alone].pc = "ok"
                 PROVE  /\ req[alone].kind = "subscribe" =>
                             /\ {plan, subRow, price} = {req[alone].plan}
                             /\ trialUsed
                             /\ {default, pmRow} = {req[alone].card}
                        /\ req[alone].kind = "attach" =>
                             /\ {default, pmRow} = {req[alone].card}
                             /\ Attached = {req[alone].card}
    BY DEF AloneAgrees
  <2>2. PICK a \in Requests : a = alone
    BY <1>3, <2>1 DEF Base, StateOK
  <2>3. Phase(a)
    BY <1>3, <2>2 DEF AloneOK
  <2>4. QED  BY <2>1, <2>2, <2>3 DEF Phase, OnPlan
<1>4. QED  BY BaseCorrect, <1>1, <1>2, <1>3, PTL DEF Spec

\* While nothing has failed or panicked, the row of a card that was attached
\* is there or on its way.
RowOK == ~died /\ (\A r \in Requests : req[r].pc # "err") => Row

\* Every step keeps it.
LEMMA RowStep ==
  ASSUME Base, RowOK, [Next]_vars
  PROVE  RowOK'
<1> SUFFICES ASSUME ~died', \A r \in Requests : req'[r].pc # "err"
             PROVE  Row'
  BY DEF RowOK
<1>1. ASSUME NEW r \in Requests, Moves(r)  PROVE Row'
  <2>1. ~died /\ \A q \in Requests : req[q].pc # "err"
    BY <1>1 DEF Moves, InFlight
  <2>2. QED  BY <1>1, <2>1 DEF RowOK, Moves
<1>2. ASSUME NEW r \in Requests, Starts(r)  PROVE Row'
  <2>1. ~died /\ \A q \in Requests : req[q].pc # "err"
    BY <1>2 DEF Starts
  <2>2. QED  BY <1>2, <2>1 DEF RowOK, Row, Starts
<1>3. CASE Disturbs
  <2>1. /\ req' = req /\ died' = died /\ emitted' = emitted
        /\ pending' = pending /\ pmRow' = pmRow
    BY <1>3 DEF Disturbs
  <2>2. QED  BY <2>1 DEF RowOK, Row
<1>4. CASE UNCHANGED vars
  BY <1>4 DEF RowOK, Row, vars
<1>5. QED  BY <1>1, <1>2, <1>3, <1>4, Steps

\* While no call fails and nothing panics, AttachPaymentMethod clearing the
\* rows of the customer loses none: when everything has settled and Stripe's
\* events have arrived, a customer with a default payment method has a row.
THEOREM RowSurvivesCorrect == Spec => []RowSurvives
<1>1. Init => RowOK
  BY DEF Init, RowOK, Row
<1>2. Base /\ RowOK /\ [Next]_vars => RowOK'
  BY RowStep
<1>3. ASSUME Base, RowOK  PROVE RowSurvives
  <2>1. SUFFICES ASSUME ~died, \A r \in Requests : req[r].pc # "err",
                        InFlight = {}, pending = {}, default # None
                 PROVE  pmRow # None
    BY DEF RowSurvives
  <2>2. emitted # {}
    BY <1>3, <2>1 DEF Base, StateOK
  <2>3. \A q \in Requests : req[q].pc # "store_pm"
    BY <2>1 DEF InFlight
  <2>4. QED  BY <1>3, <2>1, <2>2, <2>3 DEF RowOK, Row
<1>4. QED  BY BaseCorrect, <1>1, <1>2, <1>3, PTL DEF Spec
============================================================================
