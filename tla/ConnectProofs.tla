--------------------------- MODULE ConnectProofs ---------------------------
(***************************************************************************)
(* Theorems about ConnectCards, for any sets of requests and cards and any *)
(* number of copies to begin with: a donation charges a card that was once *)
(* chosen, a sync that ran alone leaves the platform's default and nothing *)
(* else, and a connected customer loses its card only by a sync that       *)
(* failed.  And about ConnectWebhook, as the instance W, for any number of *)
(* deliveries: the rows show the last change once all are accepted and     *)
(* nothing was overtaken, and an invoice handled alone repairs the row.    *)
(***************************************************************************)
EXTENDS ConnectCards, TLAPS

Copying == {"attach", "default"}

\* What a request knows: the card of an event was attached once, that of a
\* sync was the platform's default, and its copy is nobody else's.
ReqOK(r) ==
  /\ req[r].pc = "row" => req[r].card \in Emitted
  /\ req[r].pc \in Donating => req[r].card = None
  /\ req[r].pc \in {"list", "detach", "copy"} =>
       req[r].card \in chosen \cup {None}
  /\ req[r].pc = "copy" => req[r].card # None
  /\ req[r].list \subseteq DOMAIN copies
  /\ req[r].pc \in Copying =>
       /\ req[r].copy \in DOMAIN copies
       /\ \A q \in Requests \ {r} :
            req[q].pc \in Copying => req[q].copy # req[r].copy

\* The types of everything but the requests
StateOK ==
  /\ card \in [Cards -> {"new", "attached", "detached"}]
  /\ default \in {c \in Cards : card[c] = "attached"} \cup {None}
  /\ copies \in Seq(Cards)
  /\ attached \subseteq DOMAIN copies
  /\ connDefault \in attached \cup {None}
  /\ canReceive \in BOOLEAN /\ pmRow \in Emitted
  /\ chosen \subseteq Cards /\ charged \subseteq DOMAIN copies
  /\ hurt \in BOOLEAN /\ alone \in Requests \cup {None}

\* What is a default, and what is copied, was chosen.
ChosenOK ==
  /\ default \in chosen \cup {None}
  /\ \A i \in DOMAIN copies : copies[i] \in chosen

\* The invariant behind ChargesChosenCard
Base ==
  /\ StateOK /\ ChosenOK
  /\ req \in [Requests -> Request]
  /\ \A r \in Requests : ReqOK(r)
---------------------------------------------------------------------------
(* Steps of one request.                                                   *)

\* A step of r, which has reached pc
Becomes(r, pc) ==
  /\ req' \in [Requests -> Request]
  /\ req'[r].pc = pc
  /\ \A q \in Requests \ {r} : req'[q] = req[q]

\* Goto moves the program counter and nothing else.
LEMMA GotoIs ==
  ASSUME req \in [Requests -> Request], NEW r \in Requests,
         NEW pc \in Final \cup InSync \cup Donating \cup {"row"}, Goto(r, pc)
  PROVE  /\ Becomes(r, pc) /\ req'[r].card = req[r].card
         /\ req'[r].copy = req[r].copy /\ req'[r].list = req[r].list
<1>1. req[r] \in Request
  OBVIOUS
<1>2. req'[r] = [req[r] EXCEPT !.pc = pc]
  BY DEF Goto
<1>3. /\ req'[r].pc = pc /\ req'[r].card = req[r].card
      /\ req'[r].copy = req[r].copy /\ req'[r].list = req[r].list
  BY <1>1, <1>2 DEF Request
<1>4. req'[r] \in Request
  BY <1>1, <1>2, <1>3 DEF Request
<1>5. Becomes(r, pc)
  BY <1>3, <1>4 DEF Becomes, Goto
<1>6. QED  BY <1>3, <1>5

SetsCard(r, pc, c) == req' = [req EXCEPT ![r].pc = pc, ![r].card = c]

\* A beginning and SyncPlatform note a card.
LEMMA SetsCardIs ==
  ASSUME req \in [Requests -> Request], NEW r \in Requests,
         NEW pc \in Final \cup InSync \cup Donating \cup {"row"},
         NEW c \in Cards \cup {None}, SetsCard(r, pc, c)
  PROVE  /\ Becomes(r, pc) /\ req'[r].card = c
         /\ req'[r].copy = req[r].copy /\ req'[r].list = req[r].list
<1>1. req[r] \in Request
  OBVIOUS
<1>2. req'[r] = [req[r] EXCEPT !.pc = pc, !.card = c]
  BY DEF SetsCard
<1>3. /\ req'[r].pc = pc /\ req'[r].card = c
      /\ req'[r].copy = req[r].copy /\ req'[r].list = req[r].list
  BY <1>1, <1>2 DEF Request
<1>4. req'[r] \in Request
  BY <1>1, <1>2, <1>3 DEF Request
<1>5. Becomes(r, pc)
  BY <1>3, <1>4 DEF Becomes, SetsCard
<1>6. QED  BY <1>3, <1>5

SetsCopy(r, pc, i) == req' = [req EXCEPT ![r].pc = pc, ![r].copy = i]

\* SyncCopy notes the new copy, DonationReads the default.
LEMMA SetsCopyIs ==
  ASSUME req \in [Requests -> Request], NEW r \in Requests,
         NEW pc \in Final \cup InSync \cup Donating \cup {"row"},
         NEW i \in Nat \cup {None}, SetsCopy(r, pc, i)
  PROVE  /\ Becomes(r, pc) /\ req'[r].card = req[r].card
         /\ req'[r].copy = i /\ req'[r].list = req[r].list
<1>1. req[r] \in Request
  OBVIOUS
<1>2. req'[r] = [req[r] EXCEPT !.pc = pc, !.copy = i]
  BY DEF SetsCopy
<1>3. /\ req'[r].pc = pc /\ req'[r].card = req[r].card
      /\ req'[r].copy = i /\ req'[r].list = req[r].list
  BY <1>1, <1>2 DEF Request
<1>4. req'[r] \in Request
  BY <1>1, <1>2, <1>3 DEF Request
<1>5. Becomes(r, pc)
  BY <1>3, <1>4 DEF Becomes, SetsCopy
<1>6. QED  BY <1>3, <1>5

SetsList(r, pc, l) == req' = [req EXCEPT ![r].pc = pc, ![r].list = l]

\* SyncList notes what is attached, SyncDetach what is left of it.
LEMMA SetsListIs ==
  ASSUME req \in [Requests -> Request], NEW r \in Requests,
         NEW pc \in Final \cup InSync \cup Donating \cup {"row"},
         NEW l \in SUBSET Nat, SetsList(r, pc, l)
  PROVE  /\ Becomes(r, pc) /\ req'[r].card = req[r].card
         /\ req'[r].copy = req[r].copy /\ req'[r].list = l
<1>1. req[r] \in Request
  OBVIOUS
<1>2. req'[r] = [req[r] EXCEPT !.pc = pc, !.list = l]
  BY DEF SetsList
<1>3. /\ req'[r].pc = pc /\ req'[r].card = req[r].card
      /\ req'[r].copy = req[r].copy /\ req'[r].list = l
  BY <1>1, <1>2 DEF Request
<1>4. req'[r] \in Request
  BY <1>1, <1>2, <1>3 DEF Request
<1>5. Becomes(r, pc)
  BY <1>3, <1>4 DEF Becomes, SetsList
<1>6. QED  BY <1>3, <1>5

\* Nothing that a request relies on goes away.
Grow ==
  /\ Emitted \subseteq Emitted' /\ chosen \subseteq chosen'
  /\ DOMAIN copies \subseteq DOMAIN copies'

\* What is known of the others survives a step of r that makes no copy of
\* theirs.
LEMMA OthersOK ==
  ASSUME Base, NEW r \in Requests, NEW pc, Becomes(r, pc), Grow,
         pc \in Copying =>
           \/ req'[r].copy \notin DOMAIN copies
           \/ req[r].pc \in Copying /\ req'[r].copy = req[r].copy,
         NEW q \in Requests \ {r}
  PROVE  ReqOK(q)'
<1>1. req'[q] = req[q] /\ ReqOK(q)
  BY DEF Becomes, Base
<1>2. /\ req'[q].pc = "row" => req'[q].card \in Emitted'
      /\ req'[q].pc \in Donating => req'[q].card = None
      /\ req'[q].pc \in {"list", "detach", "copy"} =>
           req'[q].card \in chosen' \cup {None}
      /\ req'[q].pc = "copy" => req'[q].card # None
      /\ req'[q].list \subseteq DOMAIN copies'
  BY <1>1 DEF ReqOK, Grow
<1>3. ASSUME req'[q].pc \in Copying
      PROVE  /\ req'[q].copy \in DOMAIN copies'
             /\ \A p \in Requests \ {q} :
                  req'[p].pc \in Copying => req'[p].copy # req'[q].copy
  <2>1. /\ req[q].copy \in DOMAIN copies
        /\ \A p \in Requests \ {q} :
             req[p].pc \in Copying => req[p].copy # req[q].copy
    BY <1>1, <1>3 DEF ReqOK
  <2>2. req'[r].pc \in Copying => req'[r].copy # req[q].copy
    BY <2>1 DEF Becomes
  <2>3. \A p \in Requests \ {q} :
          req'[p].pc \in Copying => req'[p].copy # req[q].copy
    BY <2>1, <2>2 DEF Becomes
  <2>4. QED  BY <1>1, <2>1, <2>3 DEF Grow
<1>4. QED  BY <1>2, <1>3 DEF ReqOK

\* Base after a step of r
LEMMA BaseOfStep ==
  ASSUME Base, NEW r \in Requests, NEW pc, Becomes(r, pc), Grow,
         pc \in Copying =>
           \/ req'[r].copy \notin DOMAIN copies
           \/ req[r].pc \in Copying /\ req'[r].copy = req[r].copy,
         StateOK', ChosenOK', ReqOK(r)'
  PROVE  Base'
<1>1. \A q \in Requests : ReqOK(q)'
  BY OthersOK
<1>2. QED
  BY <1>1 DEF Base, Becomes

\* A step that leaves the cards, the copies and the rows
Quiet ==
  /\ UNCHANGED <<platform, copies, canReceive, pmRow, chosen>>
  /\ attached' \subseteq attached /\ connDefault' \in attached' \cup {None}
  /\ charged' \subseteq DOMAIN copies
  /\ hurt' \in BOOLEAN /\ alone' \in Requests \cup {None}

\* Such a step keeps everything but what it says of its request.
LEMMA QuietStep ==
  ASSUME Base, NEW r \in Requests, NEW pc, Becomes(r, pc), Quiet,
         /\ pc = "row" => req'[r].card \in Emitted
         /\ pc \in Donating => req'[r].card = None
         /\ pc \in {"list", "detach", "copy"} =>
              req'[r].card \in chosen \cup {None}
         /\ pc = "copy" => req'[r].card # None,
         pc \notin Copying, req'[r].list \subseteq DOMAIN copies
  PROVE  Base'
<1>1. /\ card' = card /\ default' = default /\ copies' = copies
      /\ canReceive' = canReceive /\ pmRow' = pmRow /\ chosen' = chosen
      /\ Emitted' = Emitted
  BY DEF Quiet, platform, Emitted
<1>2. StateOK' /\ ChosenOK' /\ Grow
  BY <1>1 DEF Base, StateOK, ChosenOK, Quiet, Grow
<1>3. ReqOK(r)'
  BY <1>1 DEF ReqOK, Becomes
<1>4. QED  BY <1>2, <1>3, BaseOfStep
---------------------------------------------------------------------------
(* What the steps of a request do to the connected customer.               *)

\* Where a request stands that overlapped with nothing: what is attached is
\* what it has listed and not detached, and then what it has made.
Phase(r) ==
  /\ req[r].pc \in {"list", "detach", "copy"} => req[r].card = default
  /\ req[r].pc = "detach" => attached = req[r].list
  /\ req[r].pc = "copy" => attached = {}
  /\ req[r].pc = "attach" => attached = {} /\ copies[req[r].copy] = default
  /\ req[r].pc = "default" =>
       attached = {req[r].copy} /\ copies[req[r].copy] = default
  /\ req[r].pc = "ok" /\ req[r].card # None =>
       attached = {connDefault} /\ copies[connDefault] = default

\* A step of r that leaves no default leaves r on its way to set one, or
\* failed, unless it has nothing to do with the cards.
KeepsCard(r) ==
  /\ hurt => hurt'
  /\ \/ connDefault' # None
     \/ req'[r].pc \in InSync \cup {"unsynced"}
     \/ /\ connDefault' = connDefault
        /\ req[r].pc \notin InSync \cup {"unsynced"}

\* A request moves on.
Moves(r) ==
  /\ r \in InFlight /\ alone' = alone
  /\ \A q \in Requests \ {r} : req'[q] = req[q]
  /\ Phase(r) => Phase(r)'
  /\ KeepsCard(r)

\* A request comes in.
Starts(r) ==
  /\ req[r].pc = "idle" /\ req'[r].pc \in {"row", "account"}
  /\ \A q \in Requests \ {r} : req'[q] = req[q]
  /\ alone' = IF InFlight = {} THEN r ELSE None
  /\ connDefault' = connDefault /\ hurt' = hurt

\* Most steps are quiet, and of requests whose phase is of no concern.
LEMMA QuietMoves ==
  ASSUME Base, NEW r \in Requests, NEW pc, Becomes(r, pc), r \in InFlight,
         connDefault' = connDefault, attached' = attached,
         copies' = copies, default' = default, alone' = alone, hurt => hurt',
         pc \in InSync \cup {"unsynced"} \/ r \notin Syncing,
         pc \in {"account", "intent", "create", "again", "confirm", "err",
                 "unsynced", "platform"}
  PROVE  Moves(r)
<1>1. req'[r].pc = pc /\ \A q \in Requests \ {r} : req'[q] = req[q]
  BY DEF Becomes
<1>2. Phase(r)'
  BY <1>1 DEF Phase
<1>3. KeepsCard(r)
  BY <1>1 DEF KeepsCard, Syncing, InFlight, Final
<1>4. QED  BY <1>1, <1>2, <1>3 DEF Moves

\* A sync gives up.
LEMMA SyncFailsStep ==
  ASSUME Base, NEW r \in Requests, NEW outside \in BOOLEAN,
         SyncFails(r, outside), r \in InFlight,
         UNCHANGED <<platform, connected, canReceive, pmRow, chosen, charged,
                     alone>>
  PROVE  Base' /\ Moves(r)
<1>1. /\ Goto(r, "unsynced") /\ hurt' = (hurt \/ outside)
      /\ req \in [Requests -> Request]
      /\ "unsynced" \in Final \cup InSync \cup Donating \cup {"row"}
  BY DEF SyncFails, Base, Final
<1>2. Becomes(r, "unsynced") /\ req'[r].list = req[r].list
  BY <1>1, GotoIs
<1>3. /\ copies' = copies /\ attached' = attached /\ connDefault' = connDefault
      /\ default' = default /\ alone' = alone /\ charged' = charged
      /\ hurt \in BOOLEAN /\ hurt' \in BOOLEAN /\ (hurt => hurt')
  BY <1>1 DEF connected, platform, Base, StateOK
<1>4. Quiet
  BY <1>3 DEF Quiet, connected, Base, StateOK
<1>5. req'[r].list \subseteq DOMAIN copies
  BY <1>2 DEF Base, ReqOK
<1>6. Base'
  BY <1>2, <1>4, <1>5, QuietStep DEF Donating, Copying
<1>7. Moves(r)
  BY <1>2, <1>3, QuietMoves
<1>8. QED  BY <1>6, <1>7

\* An event is delivered.
LEMMA HandlePMAttachedStep ==
  ASSUME Base, NEW r \in Requests, NEW c \in Cards, HandlePMAttached(r, c)
  PROVE  Base' /\ Starts(r)
<1>1. /\ SetsCard(r, "row", c) /\ c \in Emitted /\ req[r].pc = "idle"
      /\ alone' = IF InFlight = {} THEN r ELSE None
      /\ req \in [Requests -> Request] /\ c \in Cards \cup {None}
      /\ "row" \in Final \cup InSync \cup Donating \cup {"row"}
  BY DEF HandlePMAttached, Begin, SetsCard, Base
<1>2. Becomes(r, "row") /\ req'[r].card = c /\ req'[r].list = req[r].list
  BY <1>1, SetsCardIs
<1>3. Quiet
  BY <1>1 DEF HandlePMAttached, Quiet, connected, Base, StateOK
<1>4. req'[r].list \subseteq DOMAIN copies
  BY <1>2 DEF Base, ReqOK
<1>5. Base'
  BY <1>1, <1>2, <1>3, <1>4, QuietStep DEF Donating, Copying
<1>6. connDefault' = connDefault /\ hurt' = hurt
  BY DEF HandlePMAttached, connected
<1>7. QED  BY <1>1, <1>2, <1>5, <1>6 DEF Starts, Becomes

\* A donation begins.
LEMMA MakeDonationStep ==
  ASSUME Base, NEW r \in Requests, MakeDonation(r)
  PROVE  Base' /\ Starts(r)
<1>1. /\ SetsCard(r, "account", None) /\ req[r].pc = "idle"
      /\ alone' = IF InFlight = {} THEN r ELSE None
      /\ req \in [Requests -> Request] /\ None \in Cards \cup {None}
      /\ "account" \in Final \cup InSync \cup Donating \cup {"row"}
  BY DEF MakeDonation, Begin, SetsCard, Base, Donating
<1>2. Becomes(r, "account") /\ req'[r].card = None /\ req'[r].list = req[r].list
  BY <1>1, SetsCardIs
<1>3. Quiet
  BY <1>1 DEF MakeDonation, Quiet, connected, Base, StateOK
<1>4. req'[r].list \subseteq DOMAIN copies
  BY <1>2 DEF Base, ReqOK
<1>5. Base'
  BY <1>1, <1>2, <1>3, <1>4, QuietStep DEF Donating, Copying
<1>6. connDefault' = connDefault /\ hurt' = hurt
  BY DEF MakeDonation, connected
<1>7. QED  BY <1>1, <1>2, <1>5, <1>6 DEF Starts, Becomes

\* The row of the card
LEMMA StoreDefaultPMStep ==
  ASSUME Base, NEW r \in Requests, StoreDefaultPM(r)
  PROVE  Base' /\ Moves(r)
<1>1. /\ req[r].pc = "row" /\ Goto(r, "platform") /\ pmRow' = req[r].card
      /\ UNCHANGED <<platform, connected, canReceive, history>>
      /\ req \in [Requests -> Request]
      /\ "platform" \in Final \cup InSync \cup Donating \cup {"row"}
      /\ ReqOK(r)
  BY DEF StoreDefaultPM, StoredCard, Base, InSync
<1>2. Becomes(r, "platform") /\ req'[r].list = req[r].list
  BY <1>1, GotoIs
<1>3. /\ card' = card /\ default' = default /\ copies' = copies
      /\ attached' = attached /\ connDefault' = connDefault
      /\ canReceive' = canReceive /\ chosen' = chosen /\ charged' = charged
      /\ hurt' = hurt /\ alone' = alone /\ Emitted' = Emitted
      /\ pmRow' \in Emitted
  BY <1>1 DEF platform, connected, history, Emitted, ReqOK
<1>4. StateOK' /\ ChosenOK' /\ Grow
  BY <1>3 DEF Base, StateOK, ChosenOK, Grow
<1>5. ReqOK(r)'
  BY <1>1, <1>2, <1>3 DEF ReqOK, Becomes, Donating, Copying
<1>6. Base'
  BY <1>2, <1>4, <1>5, BaseOfStep DEF Copying
<1>7. Moves(r)
  BY <1>1, <1>2, <1>3, QuietMoves DEF InSync, InFlight, Final
<1>8. QED  BY <1>6, <1>7

\* The sync reads the platform's default.
LEMMA SyncPlatformStep ==
  ASSUME Base, NEW r \in Requests, SyncPlatform(r)
  PROVE  Base' /\ Moves(r)
<1>1. /\ req[r].pc = "platform" /\ SetsCard(r, "list", default)
      /\ UNCHANGED <<platform, connected, canReceive, pmRow, history>>
      /\ req \in [Requests -> Request] /\ default \in Cards \cup {None}
      /\ default \in chosen \cup {None}
      /\ "list" \in Final \cup InSync \cup Donating \cup {"row"}
  BY DEF SyncPlatform, SetsCard, CopiedCard, Base, StateOK, ChosenOK, InSync
<1>2. Becomes(r, "list") /\ req'[r].card = default /\ req'[r].list = req[r].list
  <2>1. PICK c \in Cards \cup {None} : c = default
    BY <1>1
  <2>2. SetsCard(r, "list", c)
    BY <1>1, <2>1
  <2>3. QED  BY <1>1, <2>1, <2>2, SetsCardIs
<1>3. /\ copies' = copies /\ attached' = attached /\ connDefault' = connDefault
      /\ default' = default /\ hurt' = hurt /\ alone' = alone
  BY <1>1 DEF connected, platform, history
<1>4. Quiet
  BY <1>1, <1>3 DEF Quiet, history, Base, StateOK
<1>5. Base'
  BY <1>1, <1>2, <1>4, QuietStep DEF Donating, Copying, Base, ReqOK
<1>6. Phase(r)' /\ KeepsCard(r) /\ r \in InFlight
  BY <1>1, <1>2, <1>3 DEF Phase, KeepsCard, Becomes, InFlight, Final, InSync
<1>7. QED  BY <1>2, <1>3, <1>5, <1>6 DEF Moves, Becomes

\* The sync lists what is attached.
LEMMA SyncListStep ==
  ASSUME Base, NEW r \in Requests, SyncList(r)
  PROVE  Base' /\ Moves(r)
<1>1. /\ req[r].pc = "list" /\ SetsList(r, "detach", attached)
      /\ UNCHANGED <<platform, connected, canReceive, pmRow, history>>
      /\ req \in [Requests -> Request] /\ attached \subseteq DOMAIN copies
      /\ "detach" \in Final \cup InSync \cup Donating \cup {"row"}
  BY DEF SyncList, SetsList, ListConnected, Base, StateOK, InSync
<1>2. /\ Becomes(r, "detach") /\ req'[r].card = req[r].card
      /\ req'[r].list = attached
  <2>1. attached \in SUBSET Nat
    BY <1>1 DEF Base, StateOK
  <2>2. PICK l \in SUBSET Nat : l = attached
    BY <2>1
  <2>3. SetsList(r, "detach", l)
    BY <1>1, <2>2
  <2>4. QED  BY <1>1, <2>2, <2>3, SetsListIs
<1>3. /\ copies' = copies /\ attached' = attached /\ connDefault' = connDefault
      /\ default' = default /\ hurt' = hurt /\ alone' = alone
  BY <1>1 DEF connected, platform, history
<1>4. Quiet
  BY <1>1, <1>3 DEF Quiet, history, Base, StateOK
<1>5. Base'
  BY <1>1, <1>2, <1>4, QuietStep DEF Donating, Copying, Base, ReqOK
<1>6. Phase(r) => Phase(r)'
  BY <1>1, <1>2, <1>3 DEF Phase, Becomes
<1>7. KeepsCard(r) /\ r \in InFlight
  BY <1>1, <1>2, <1>3 DEF KeepsCard, Becomes, InFlight, Final, InSync
<1>8. QED  BY <1>2, <1>3, <1>5, <1>6, <1>7 DEF Moves, Becomes

\* The sync detaches a copy, or finds that another one has.
LEMMA SyncDetachStep ==
  ASSUME Base, NEW r \in Requests, SyncDetach(r)
  PROVE  Base' /\ Moves(r)
<1>1. /\ req[r].pc = "detach" /\ r \in InFlight
      /\ UNCHANGED <<platform, copies, canReceive, pmRow, chosen, charged, alone>>
      /\ req \in [Requests -> Request] /\ ReqOK(r)
  BY DEF SyncDetach, Base, InFlight, Final
<1>2. PICK i \in req[r].list :
        \/ /\ i \in attached /\ attached' = attached \ {i}
           /\ connDefault' = IF connDefault = i THEN None ELSE connDefault
           /\ req' = [req EXCEPT ![r].list = @ \ {i}]
           /\ hurt' = hurt
        \/ SyncFails(r, FALSE) /\ attached' = attached /\ connDefault' = connDefault
  BY DEF SyncDetach, Newest
<1>3. CASE SyncFails(r, FALSE) /\ attached' = attached /\ connDefault' = connDefault
  <2>1. UNCHANGED <<platform, connected, canReceive, pmRow, chosen, charged, alone>>
    BY <1>1, <1>3 DEF connected
  <2>2. QED
    BY <1>1, <1>3, <2>1, SyncFailsStep
<1>4. CASE /\ i \in attached /\ attached' = attached \ {i}
           /\ connDefault' = IF connDefault = i THEN None ELSE connDefault
           /\ req' = [req EXCEPT ![r].list = @ \ {i}]
           /\ hurt' = hurt
  <2>1. /\ Becomes(r, "detach") /\ req'[r].card = req[r].card
        /\ req'[r].list = req[r].list \ {i}
    <3>1. req[r] \in Request
      BY <1>1
    <3>2. req'[r] = [req[r] EXCEPT !.list = req[r].list \ {i}]
      BY <1>1, <1>4
    <3>3. /\ req'[r].pc = "detach" /\ req'[r].card = req[r].card
          /\ req'[r].copy = req[r].copy /\ req'[r].list = req[r].list \ {i}
      BY <1>1, <3>1, <3>2 DEF Request
    <3>4. req'[r] \in Request
      BY <3>1, <3>2, <3>3 DEF Request
    <3>5. Becomes(r, "detach")
      BY <1>1, <1>4, <3>3, <3>4 DEF Becomes
    <3>6. QED  BY <3>3, <3>5
  <2>2. Quiet
    BY <1>1, <1>4 DEF Quiet, Base, StateOK
  <2>3. req'[r].list \subseteq DOMAIN copies
    BY <1>1, <2>1 DEF ReqOK
  <2>4. Base'
    BY <1>1, <2>1, <2>2, <2>3, QuietStep DEF Donating, Copying, ReqOK
  <2>5. Phase(r) => Phase(r)'
    BY <1>1, <1>4, <2>1 DEF Phase, Becomes, platform
  <2>6. KeepsCard(r)
    BY <1>4, <2>1 DEF KeepsCard, Becomes, InSync
  <2>7. QED  BY <1>1, <2>1, <2>4, <2>5, <2>6 DEF Moves, Becomes
<1>5. QED  BY <1>2, <1>3, <1>4

\* Everything is detached: only now the default has to be one.
LEMMA SyncDetachedStep ==
  ASSUME Base, NEW r \in Requests, SyncDetached(r)
  PROVE  Base' /\ Moves(r)
<1>1. /\ req[r].pc = "detach" /\ r \in InFlight /\ req[r].list = {}
      /\ UNCHANGED <<platform, connected, canReceive, pmRow, chosen, charged, alone>>
      /\ req \in [Requests -> Request] /\ ReqOK(r)
      /\ "copy" \in Final \cup InSync \cup Donating \cup {"row"}
  BY DEF SyncDetached, Base, InFlight, Final, InSync
<1>2. CASE req[r].card = None
  BY <1>1, <1>2, SyncFailsStep DEF SyncDetached
<1>3. CASE req[r].card # None
  <2>1. Goto(r, "copy") /\ hurt' = hurt
    BY <1>3 DEF SyncDetached
  <2>2. /\ Becomes(r, "copy") /\ req'[r].card = req[r].card
        /\ req'[r].list = req[r].list
    BY <1>1, <2>1, GotoIs
  <2>3. /\ copies' = copies /\ attached' = attached /\ connDefault' = connDefault
        /\ default' = default /\ alone' = alone
    BY <1>1 DEF connected, platform
  <2>4. Quiet
    BY <1>1, <2>1, <2>3 DEF Quiet, Base, StateOK
  <2>5. Base'
    BY <1>1, <1>3, <2>2, <2>4, QuietStep DEF Donating, Copying, ReqOK
  <2>6. Phase(r) => Phase(r)'
    BY <1>1, <2>2, <2>3 DEF Phase, Becomes
  <2>7. KeepsCard(r)
    BY <2>1, <2>2 DEF KeepsCard, Becomes, InSync
  <2>8. QED  BY <1>1, <2>2, <2>5, <2>6, <2>7 DEF Moves, Becomes
<1>4. QED  BY <1>2, <1>3

\* The new copy is one of the card that was chosen.
LEMMA SyncCopyStep ==
  ASSUME Base, NEW r \in Requests, SyncCopy(r)
  PROVE  Base' /\ Moves(r)
<1>1. /\ req[r].pc = "copy" /\ r \in InFlight
      /\ UNCHANGED <<platform, attached, connDefault, canReceive, pmRow, chosen,
                     charged, alone>>
      /\ req \in [Requests -> Request] /\ ReqOK(r)
      /\ "attach" \in Final \cup InSync \cup Donating \cup {"row"}
      /\ req[r].card \in chosen /\ req[r].card \in Cards
      /\ copies \in Seq(Cards)
  BY DEF SyncCopy, Base, InFlight, Final, InSync, ReqOK, StateOK
<1>2. CASE card[req[r].card] # "attached"
  BY <1>1, <1>2, SyncFailsStep DEF SyncCopy, connected
<1>3. CASE card[req[r].card] = "attached"
  <2> DEFINE n == Len(copies) + 1
  <2>1. /\ copies' = Append(copies, req[r].card) /\ hurt' = hurt
        /\ SetsCopy(r, "attach", n)
    BY <1>3 DEF SyncCopy, SetsCopy
  <2>2. n \in Nat /\ n \notin DOMAIN copies /\ DOMAIN copies = 1..Len(copies)
    BY <1>1
  <2>3. /\ copies' \in Seq(Cards) /\ DOMAIN copies' = DOMAIN copies \cup {n}
        /\ copies'[n] = req[r].card
        /\ \A i \in DOMAIN copies : copies'[i] = copies[i]
    BY <1>1, <2>1
  <2> HIDE DEF n
  <2>4. /\ Becomes(r, "attach") /\ req'[r].card = req[r].card
        /\ req'[r].copy = n /\ req'[r].list = req[r].list
    BY <1>1, <2>1, <2>2, SetsCopyIs
  <2>5. /\ card' = card /\ default' = default /\ Emitted' = Emitted
        /\ attached' = attached /\ connDefault' = connDefault
        /\ canReceive' = canReceive /\ pmRow' = pmRow /\ chosen' = chosen
        /\ charged' = charged /\ alone' = alone
    BY <1>1 DEF platform, Emitted
  <2>6. StateOK' /\ ChosenOK' /\ Grow
    BY <1>1, <2>1, <2>3, <2>5 DEF Base, StateOK, ChosenOK, Grow
  <2>7. ReqOK(r)'
    <3>1. req'[r].list \subseteq DOMAIN copies' /\ n \in DOMAIN copies'
      BY <1>1, <2>3, <2>4 DEF ReqOK
    <3>2. \A q \in Requests \ {r} :
            req'[q].pc \in Copying => req'[q].copy # n
      BY <2>2, <2>4 DEF Becomes, Base, ReqOK
    <3>3. QED
      BY <2>4, <3>1, <3>2 DEF ReqOK, Becomes, Donating
  <2>8. Base'
    BY <2>2, <2>4, <2>6, <2>7, BaseOfStep
  <2>9. Phase(r) => Phase(r)'
    BY <1>1, <2>3, <2>4, <2>5 DEF Phase, Becomes
  <2>10. KeepsCard(r)
    BY <2>1, <2>4 DEF KeepsCard, Becomes, InSync
  <2>11. QED  BY <1>1, <2>4, <2>8, <2>9, <2>10 DEF Moves, Becomes
<1>4. QED  BY <1>2, <1>3

\* The copy is attached.
LEMMA SyncAttachStep ==
  ASSUME Base, NEW r \in Requests, SyncAttach(r)
  PROVE  Base' /\ Moves(r)
<1>1. /\ req[r].pc = "attach" /\ r \in InFlight /\ Goto(r, "default")
      /\ attached' = attached \cup {req[r].copy}
      /\ UNCHANGED <<platform, copies, connDefault, canReceive, pmRow, history>>
      /\ req \in [Requests -> Request] /\ ReqOK(r)
      /\ "default" \in Final \cup InSync \cup Donating \cup {"row"}
  BY DEF SyncAttach, Base, InFlight, Final, InSync
<1>2. /\ Becomes(r, "default") /\ req'[r].card = req[r].card
      /\ req'[r].copy = req[r].copy /\ req'[r].list = req[r].list
  BY <1>1, GotoIs
<1>3. /\ card' = card /\ default' = default /\ copies' = copies
      /\ connDefault' = connDefault /\ Emitted' = Emitted
      /\ canReceive' = canReceive /\ pmRow' = pmRow /\ chosen' = chosen
      /\ charged' = charged /\ alone' = alone /\ hurt' = hurt
  BY <1>1 DEF platform, history, Emitted
<1>4. /\ req[r].copy \in DOMAIN copies
      /\ \A q \in Requests \ {r} :
           req[q].pc \in Copying => req[q].copy # req[r].copy
  BY <1>1 DEF ReqOK, Copying
<1>5. StateOK' /\ ChosenOK' /\ Grow
  BY <1>1, <1>3, <1>4 DEF Base, StateOK, ChosenOK, Grow
<1>6. ReqOK(r)'
  BY <1>1, <1>2, <1>3, <1>4 DEF ReqOK, Becomes, Donating
<1>7. Base'
  BY <1>1, <1>2, <1>5, <1>6, BaseOfStep DEF Copying
<1>8. Phase(r) => Phase(r)'
  BY <1>1, <1>2, <1>3 DEF Phase, Becomes
<1>9. KeepsCard(r)
  BY <1>2, <1>3 DEF KeepsCard, Becomes, InSync
<1>10. QED  BY <1>1, <1>2, <1>3, <1>7, <1>8, <1>9 DEF Moves, Becomes

\* The copy becomes the default, unless another sync has detached it.
LEMMA SyncSetDefaultStep ==
  ASSUME Base, NEW r \in Requests, SyncSetDefault(r)
  PROVE  Base' /\ Moves(r)
<1>1. /\ req[r].pc = "default" /\ r \in InFlight
      /\ UNCHANGED <<platform, copies, attached, canReceive, pmRow, chosen,
                     charged, alone>>
      /\ req \in [Requests -> Request] /\ ReqOK(r)
      /\ "ok" \in Final \cup InSync \cup Donating \cup {"row"}
  BY DEF SyncSetDefault, Base, InFlight, Final
<1>2. CASE req[r].copy \notin attached
  BY <1>1, <1>2, SyncFailsStep DEF SyncSetDefault, connected
<1>3. CASE req[r].copy \in attached
  <2>1. connDefault' = req[r].copy /\ Goto(r, "ok") /\ hurt' = hurt
    BY <1>3 DEF SyncSetDefault, UpdateCustomer
  <2>2. /\ Becomes(r, "ok") /\ req'[r].card = req[r].card
        /\ req'[r].copy = req[r].copy /\ req'[r].list = req[r].list
    BY <1>1, <2>1, GotoIs
  <2>3. Quiet
    BY <1>1, <1>3, <2>1 DEF Quiet, Base, StateOK
  <2>4. Base'
    BY <1>1, <2>2, <2>3, QuietStep DEF Donating, Copying, ReqOK
  <2>5. Phase(r) => Phase(r)'
    BY <1>1, <2>1, <2>2 DEF Phase, Becomes, platform
  <2>6. connDefault' # None
    BY <1>3, <2>1, ConnectCardsAssumption DEF Base, StateOK
  <2>7. KeepsCard(r)
    BY <2>1, <2>6 DEF KeepsCard
  <2>8. QED  BY <1>1, <2>2, <2>4, <2>5, <2>7 DEF Moves, Becomes
<1>4. QED  BY <1>2, <1>3

\* The steps of a donation, which has no card of its own, touch no copy.
LEMMA DonationMoves ==
  ASSUME Base, NEW r \in Requests, req[r].pc \in Donating,
         NEW pc \in {"intent", "create", "again", "confirm", "ok", "err"},
         Becomes(r, pc), req'[r].card = req[r].card, req'[r].list = req[r].list,
         UNCHANGED <<platform, connected, canReceive, pmRow, chosen, hurt, alone>>,
         charged' \subseteq DOMAIN copies
  PROVE  Base' /\ Moves(r)
<1>1. /\ copies' = copies /\ attached' = attached /\ connDefault' = connDefault
      /\ default' = default
  BY DEF connected, platform
<1>2. Quiet
  BY <1>1 DEF Quiet, Base, StateOK
<1>3. ReqOK(r) /\ req[r].card = None
  BY DEF Base, ReqOK
<1>4. Base'
  BY <1>2, <1>3, QuietStep DEF Donating, Copying, ReqOK
<1>5. Phase(r)'
  BY <1>3 DEF Phase, Becomes
<1>6. KeepsCard(r) /\ r \in InFlight
  BY <1>1 DEF KeepsCard, InFlight, Final, InSync, Donating
<1>7. QED  BY <1>4, <1>5, <1>6 DEF Moves, Becomes

\* The steps of a donation, up to the charge of an attached copy
LEMMA DonationSteps ==
  ASSUME Base, NEW r \in Requests,
         \/ DonationAccount(r) \/ DonationReads(r)
         \/ CreatePaymentIntent(r) \/ ConfirmConnectPaymentIntent(r)
  PROVE  Base' /\ Moves(r)
<1>0. /\ req \in [Requests -> Request] /\ attached \subseteq DOMAIN copies
      /\ charged \subseteq DOMAIN copies
      /\ connDefault \in Nat \cup {None}
  BY DEF Base, StateOK
<1>1. CASE DonationReads(r)
  <2>1. PICK pc \in {"err", "create", "confirm"} : SetsCopy(r, pc, connDefault)
    BY <1>1 DEF DonationReads, SetsCopy
  <2>2. pc \in Final \cup InSync \cup Donating \cup {"row"}
    BY DEF Final, Donating
  <2>3. PICK i \in Nat \cup {None} : i = connDefault
    BY <1>0
  <2>4. SetsCopy(r, pc, i)
    BY <2>1, <2>3
  <2>5. /\ Becomes(r, pc) /\ req'[r].card = req[r].card
        /\ req'[r].list = req[r].list
    BY <1>0, <2>2, <2>4, SetsCopyIs
  <2>6. /\ req[r].pc \in Donating
        /\ UNCHANGED <<platform, connected, canReceive, pmRow, chosen, hurt, alone>>
        /\ charged' \subseteq DOMAIN copies
    BY <1>0, <1>1 DEF DonationReads, Donating, history
  <2>7. QED  BY <2>5, <2>6, DonationMoves
<1>2. CASE \/ DonationAccount(r)
           \/ CreatePaymentIntent(r) \/ ConfirmConnectPaymentIntent(r)
  <2>1. PICK pc \in {"intent", "again", "ok", "err"} : Goto(r, pc)
    BY <1>2 DEF DonationAccount, CreatePaymentIntent, ConfirmConnectPaymentIntent
  <2>2. pc \in Final \cup InSync \cup Donating \cup {"row"}
    BY DEF Final, Donating
  <2>3. /\ Becomes(r, pc) /\ req'[r].card = req[r].card
        /\ req'[r].list = req[r].list
    BY <1>0, <2>1, <2>2, GotoIs
  <2>4. /\ req[r].pc \in Donating
        /\ UNCHANGED <<platform, connected, canReceive, pmRow, chosen, hurt, alone>>
        /\ charged' \subseteq DOMAIN copies
    BY <1>0, <1>2 DEF DonationAccount, CreatePaymentIntent,
                      ConfirmConnectPaymentIntent, Donating, history
  <2>5. QED  BY <2>3, <2>4, DonationMoves
<1>3. QED  BY <1>1, <1>2

\* The error of a call ends a request.
LEMMA RequestFailsStep ==
  ASSUME Base, NEW r \in Requests, RequestFails(r)
  PROVE  Base' /\ Moves(r)
<1>1. /\ r \in InFlight /\ req \in [Requests -> Request] /\ ReqOK(r)
      /\ UNCHANGED <<platform, connected, canReceive, pmRow, chosen, charged, alone>>
      /\ "err" \in Final \cup InSync \cup Donating \cup {"row"}
  BY DEF RequestFails, Base, Final
<1>2. CASE r \in Syncing
  BY <1>1, <1>2, SyncFailsStep DEF RequestFails
<1>3. CASE r \notin Syncing
  <2>1. Goto(r, "err") /\ hurt' = hurt
    BY <1>3 DEF RequestFails
  <2>2. Becomes(r, "err") /\ req'[r].list = req[r].list
    BY <1>1, <2>1, GotoIs
  <2>3. /\ copies' = copies /\ attached' = attached /\ connDefault' = connDefault
        /\ default' = default /\ alone' = alone
    BY <1>1 DEF connected, platform
  <2>4. Quiet
    BY <1>1, <2>1, <2>3 DEF Quiet, Base, StateOK
  <2>5. Base'
    BY <1>1, <2>2, <2>4, QuietStep DEF Donating, Copying, ReqOK
  <2>6. Moves(r)
    BY <1>1, <1>3, <2>1, <2>2, <2>3, QuietMoves
  <2>7. QED  BY <2>5, <2>6
<1>4. QED  BY <1>2, <1>3

\* Steps after which no request is alone, and that lose no default unnoticed
Disturbs ==
  /\ alone' = None /\ (hurt => hurt') /\ connDefault' = connDefault
  /\ \/ req' = req
     \/ /\ Syncing # {} => hurt'
        /\ \A q \in Requests : req'[q].pc = "unsynced" <=> req[q].pc = "unsynced"

\* The panic of a donation ends every request.
LEMMA DonationPanicsStep ==
  ASSUME Base, NEW r \in Requests, DonationPanics(r)
  PROVE  Base' /\ Disturbs
<1>1. /\ req' = [q \in Requests |->
                  [req[q] EXCEPT !.pc = IF q \in InFlight THEN "lost" ELSE @]]
      /\ hurt' = (hurt \/ Syncing # {}) /\ alone' = None
      /\ UNCHANGED <<platform, connected, canReceive, pmRow, chosen, charged>>
  BY DEF DonationPanics
<1>2. /\ card' = card /\ default' = default /\ copies' = copies
      /\ attached' = attached /\ connDefault' = connDefault /\ Emitted' = Emitted
  BY <1>1 DEF platform, connected, Emitted
<1>3. hurt' \in BOOLEAN /\ (hurt => hurt') /\ (Syncing # {} => hurt')
  BY <1>1 DEF Base, StateOK
<1>4. ASSUME NEW q \in Requests
      PROVE  /\ req'[q] \in Request
             /\ req'[q].card = req[q].card /\ req'[q].copy = req[q].copy
             /\ req'[q].list = req[q].list
             /\ req'[q].pc = IF q \in InFlight THEN "lost" ELSE req[q].pc
  <2> DEFINE pc == IF q \in InFlight THEN "lost" ELSE req[q].pc
  <2>1. req[q] \in Request
    BY DEF Base
  <2>2. req'[q] = [req[q] EXCEPT !.pc = pc]
    BY <1>1
  <2>3. pc \in Final \cup InSync \cup Donating \cup {"row"}
    BY <2>1 DEF Request, Final
  <2> HIDE DEF pc
  <2>4. /\ req'[q].card = req[q].card /\ req'[q].copy = req[q].copy
        /\ req'[q].list = req[q].list /\ req'[q].pc = pc
    BY <2>1, <2>2 DEF Request
  <2>5. req'[q] \in Request
    BY <2>1, <2>2, <2>3, <2>4 DEF Request
  <2>6. QED  BY <2>4, <2>5 DEF pc
<1>5. req' \in [Requests -> Request]
  <2>1. DOMAIN req' = Requests /\ req' = [q \in Requests |-> req'[q]]
    BY <1>1
  <2>2. QED  BY <1>4, <2>1
<1>6. \A q \in Requests : ReqOK(q)'
  BY <1>2, <1>4 DEF ReqOK, Base, InFlight, Final, Donating, Copying
<1>7. StateOK' /\ ChosenOK'
  BY <1>1, <1>2, <1>3 DEF Base, StateOK, ChosenOK
<1>8. \A q \in Requests : req'[q].pc = "unsynced" <=> req[q].pc = "unsynced"
  BY <1>4 DEF InFlight, Final
<1>9. QED
  BY <1>1, <1>2, <1>3, <1>5, <1>6, <1>7, <1>8 DEF Base, Disturbs

\* The platform and what of it was chosen, after a step
PlatformOK ==
  /\ card' \in [Cards -> {"new", "attached", "detached"}]
  /\ default' \in {c \in Cards : card'[c] = "attached"} \cup {None}
  /\ default' \in chosen' \cup {None}
  /\ chosen \subseteq chosen' /\ chosen' \subseteq Cards
  /\ Emitted \subseteq Emitted' /\ canReceive' \in BOOLEAN

\* What else happens on the platform
LEMMA PlatformSteps ==
  ASSUME Base, PlatformStep
  PROVE  Base' /\ Disturbs
<1>1. /\ alone' = None /\ req' = req /\ hurt' = hurt /\ charged' = charged
      /\ copies' = copies /\ attached' = attached /\ connDefault' = connDefault
      /\ pmRow' = pmRow
  BY DEF PlatformStep, PlatformAttaches, PlatformSetsDefault, PlatformDetaches,
         HandleAccountUpdate, connected
<1>2. \/ /\ card' = card /\ default' = default /\ chosen' = chosen
         /\ canReceive' \in BOOLEAN
      \/ /\ canReceive' = canReceive
         /\ \E c \in Cards :
              PlatformAttaches(c) \/ PlatformSetsDefault(c) \/ PlatformDetaches(c)
  BY DEF PlatformStep, HandleAccountUpdate, platform, PlatformAttaches,
         PlatformSetsDefault, PlatformDetaches
<1>3. PlatformOK
  <2>1. CASE card' = card /\ default' = default /\ chosen' = chosen
             /\ canReceive' \in BOOLEAN
    BY <2>1 DEF PlatformOK, Base, StateOK, ChosenOK, Emitted
  <2>2. ASSUME NEW c \in Cards, PlatformAttaches(c), canReceive' = canReceive
        PROVE  PlatformOK
    BY <2>2 DEF PlatformOK, Base, StateOK, ChosenOK, Emitted, PlatformAttaches
  <2>3. ASSUME NEW c \in Cards, PlatformSetsDefault(c), canReceive' = canReceive
        PROVE  PlatformOK
    BY <2>3 DEF PlatformOK, Base, StateOK, ChosenOK, Emitted, PlatformSetsDefault
  <2>4. ASSUME NEW c \in Cards, PlatformDetaches(c), canReceive' = canReceive
        PROVE  PlatformOK
    BY <2>4 DEF PlatformOK, Base, StateOK, ChosenOK, Emitted, PlatformDetaches
  <2>5. QED  BY <1>2, <2>1, <2>2, <2>3, <2>4
<1>4. StateOK' /\ ChosenOK'
  BY <1>1, <1>3 DEF PlatformOK, Base, StateOK, ChosenOK
<1>5. \A q \in Requests : ReqOK(q)'
  BY <1>1, <1>3 DEF PlatformOK, Base, ReqOK
<1>6. QED
  BY <1>1, <1>4, <1>5 DEF Base, Disturbs
---------------------------------------------------------------------------
(* The invariants.                                                         *)

\* Every step is one of three kinds.
LEMMA Steps ==
  ASSUME Base, Next
  PROVE  Base' /\ (Disturbs \/ \E r \in Requests : Starts(r) \/ Moves(r))
<1>1. CASE PlatformStep
  BY <1>1, PlatformSteps
<1>2. ASSUME NEW r \in Requests,
             SyncStep(r) \/ DonationStep(r) \/ RequestFails(r)
      PROVE  Base' /\ (Disturbs \/ Starts(r) \/ Moves(r))
  <2>1. CASE \E c \in Cards : HandlePMAttached(r, c)
    BY <2>1, HandlePMAttachedStep
  <2>2. CASE StoreDefaultPM(r) \/ SyncPlatform(r) \/ SyncList(r)
    BY <2>2, StoreDefaultPMStep, SyncPlatformStep, SyncListStep
  <2>3. CASE SyncDetach(r) \/ SyncDetached(r) \/ SyncCopy(r)
    BY <2>3, SyncDetachStep, SyncDetachedStep, SyncCopyStep
  <2>4. CASE SyncAttach(r) \/ SyncSetDefault(r)
    BY <2>4, SyncAttachStep, SyncSetDefaultStep
  <2>5. CASE MakeDonation(r)
    BY <2>5, MakeDonationStep
  <2>6. CASE DonationPanics(r)
    BY <2>6, DonationPanicsStep
  <2>7. CASE \/ DonationAccount(r) \/ DonationReads(r)
             \/ CreatePaymentIntent(r) \/ ConfirmConnectPaymentIntent(r)
    BY <2>7, DonationSteps
  <2>8. CASE RequestFails(r)
    BY <2>8, RequestFailsStep
  <2>9. QED
    BY <1>2, <2>1, <2>2, <2>3, <2>4, <2>5, <2>6, <2>7, <2>8
       DEF SyncStep, DonationStep
<1>3. QED  BY <1>1, <1>2 DEF Next

\* The copies there are to begin with are of the default.
LEMMA BaseInit == Init => Base
<1> SUFFICES ASSUME Init PROVE Base
  OBVIOUS
<1>1. PICK c \in Cards :
        /\ card = [d \in Cards |-> IF d = c THEN "attached" ELSE "new"]
        /\ default = c /\ pmRow = c /\ chosen = {c}
        /\ \E n \in 1..MaxCopies :
             copies = [i \in 1..n |-> c] /\ attached = 1..n /\ connDefault = n
  BY DEF Init
<1>2. PICK n \in 1..MaxCopies :
        copies = [i \in 1..n |-> c] /\ attached = 1..n /\ connDefault = n
  BY <1>1
<1>3. n \in Nat \ {0}
  BY ConnectCardsAssumption
<1>4. /\ copies \in Seq(Cards) /\ DOMAIN copies = 1..n
      /\ \A i \in DOMAIN copies : copies[i] = c
  BY <1>2, <1>3
<1>5. /\ canReceive \in BOOLEAN /\ charged = {} /\ hurt = FALSE /\ alone = None
      /\ req \in [Requests -> Request]
      /\ \A r \in Requests : req[r].pc = "idle" /\ req[r].list = {}
  BY DEF Init, Request, Final
<1>6. StateOK /\ ChosenOK
  <2>1. /\ card \in [Cards -> {"new", "attached", "detached"}]
        /\ default \in {d \in Cards : card[d] = "attached"} /\ pmRow \in Emitted
        /\ default = c /\ chosen = {c}
    BY <1>1 DEF Emitted
  <2>2. attached = DOMAIN copies /\ connDefault \in attached
    BY <1>2, <1>3, <1>4
  <2>3. QED
    BY <1>4, <1>5, <2>1, <2>2 DEF StateOK, ChosenOK
<1>7. \A r \in Requests : ReqOK(r)
  BY <1>5 DEF ReqOK, Donating, Copying
<1>8. QED  BY <1>5, <1>6, <1>7 DEF Base

\* Base is an invariant.
THEOREM BaseCorrect == Spec => []Base
<1>1. Base /\ [Next]_vars => Base'
  <2>1. CASE Next  BY <2>1, Steps
  <2>2. ASSUME Base, vars' = vars  PROVE Base'
    <3>1. /\ card' = card /\ default' = default /\ copies' = copies
          /\ attached' = attached /\ connDefault' = connDefault
          /\ canReceive' = canReceive /\ pmRow' = pmRow /\ req' = req
          /\ chosen' = chosen /\ charged' = charged /\ hurt' = hurt
          /\ alone' = alone
      BY <2>2 DEF vars
    <3>2. StateOK' /\ ChosenOK'
      BY <2>2, <3>1 DEF Base, StateOK, ChosenOK, Emitted
    <3>3. \A r \in Requests : ReqOK(r)'
      BY <2>2, <3>1 DEF Base, ReqOK, Emitted
    <3>4. QED  BY <2>2, <3>1, <3>2, <3>3 DEF Base
  <2>3. QED  BY <2>1, <2>2
<1>2. QED  BY <1>1, BaseInit, PTL DEF Spec

\* The types of ConnectCards; a default is attached, and no two syncs attach
\* the same copy.
THEOREM TypeCorrect == Spec => []TypeOK
<1>1. Base => TypeOK
  BY DEF Base, StateOK, ReqOK, Copying, TypeOK
<1>2. QED  BY <1>1, BaseCorrect, PTL

\* MakeDonation charges a copy of a card that the donor made the default of
\* the platform at some time, whatever card the events are about and in
\* whatever order they arrive.
THEOREM ChargesChosenCardCorrect == Spec => []ChargesChosenCard
<1>1. Base => ChargesChosenCard
  BY DEF Base, StateOK, ChosenOK, ChargesChosenCard
<1>2. QED  BY <1>1, BaseCorrect, PTL

\* The invariant behind SyncedAlone
AloneOK == alone # None => InFlight \subseteq {alone} /\ Phase(alone)

\* The request that is alone does its steps undisturbed.
LEMMA AloneStep ==
  ASSUME Base, AloneOK, Next
  PROVE  AloneOK'
<1> SUFFICES ASSUME alone' # None
             PROVE  InFlight' \subseteq {alone'} /\ Phase(alone)'
  BY DEF AloneOK
<1>1. PICK r \in Requests : Starts(r) \/ Moves(r)
  BY Steps DEF Disturbs
<1>2. CASE Starts(r)
  <2>1. alone' = r /\ InFlight = {}
    BY <1>2 DEF Starts
  <2>2. InFlight' \subseteq {r}
    BY <1>2, <2>1 DEF Starts, InFlight
  <2>3. Phase(r)'
    BY <1>2 DEF Starts, Phase
  <2>4. QED  BY <2>1, <2>2, <2>3 DEF Phase
<1>3. CASE Moves(r)
  <2>1. alone' = alone /\ alone = r /\ Phase(r)
    BY <1>3 DEF Moves, AloneOK
  <2>2. InFlight' \subseteq InFlight
    BY <1>3 DEF Moves, InFlight
  <2>3. Phase(r)'
    BY <1>3, <2>1 DEF Moves
  <2>4. QED  BY <2>1, <2>2, <2>3 DEF Phase, AloneOK
<1>4. QED  BY <1>1, <1>2, <1>3

\* A sync that ran alone and succeeded has left the connected account with
\* one card, a copy of the platform's default: the detachments, the copy and
\* the default belong together although they are calls of their own.
THEOREM SyncedAloneCorrect == Spec => []SyncedAlone
<1>1. Init => AloneOK
  BY DEF Init, AloneOK
<1>2. Base /\ AloneOK /\ [Next]_vars => AloneOK'
  <2>1. ASSUME AloneOK, vars' = vars  PROVE AloneOK'
    <3>1. /\ default' = default /\ copies' = copies /\ attached' = attached
          /\ connDefault' = connDefault /\ req' = req /\ alone' = alone
      BY <2>1 DEF vars
    <3>2. QED  BY <2>1, <3>1 DEF AloneOK, InFlight, Phase
  <2>2. QED  BY <2>1, AloneStep
<1>3. AloneOK => SyncedAlone
  BY DEF AloneOK, Phase, SyncedAlone
<1>4. QED  BY <1>1, <1>2, <1>3, BaseCorrect, PTL DEF Spec

\* A step that leaves the connected customer without a default leaves a sync
\* on its way, or one that has failed.
LEMMA KeepsStep ==
  ASSUME Base, ConnectedKeepsCard, Next
  PROVE  ConnectedKeepsCard'
<1> SUFFICES ASSUME ~hurt', \A q \in Requests : req'[q].pc # "unsynced",
                    Syncing' = {}
             PROVE  connDefault' # None
  BY DEF ConnectedKeepsCard
<1>1. CASE Disturbs
  <2>1. /\ ~hurt /\ connDefault' = connDefault /\ Syncing = {}
        /\ \A q \in Requests : req[q].pc # "unsynced"
    BY <1>1 DEF Disturbs, Syncing
  <2>2. QED  BY <2>1 DEF ConnectedKeepsCard
<1>2. ASSUME NEW r \in Requests, Starts(r)
      PROVE  connDefault' # None
  <2>1. /\ ~hurt /\ connDefault' = connDefault /\ Syncing = {}
        /\ \A q \in Requests : req[q].pc # "unsynced"
    BY <1>2 DEF Starts, Syncing, InSync
  <2>2. QED  BY <2>1 DEF ConnectedKeepsCard
<1>3. ASSUME NEW r \in Requests, Moves(r)
      PROVE  connDefault' # None
  <2>1. ~hurt /\ req'[r].pc \notin InSync \cup {"unsynced"}
    BY <1>3 DEF Moves, KeepsCard, Syncing
  <2>2. CASE /\ connDefault' = connDefault
             /\ req[r].pc \notin InSync \cup {"unsynced"}
    <3>1. Syncing = {} /\ \A q \in Requests : req[q].pc # "unsynced"
      BY <1>3, <2>2 DEF Moves, Syncing
    <3>2. QED  BY <2>1, <2>2, <3>1 DEF ConnectedKeepsCard
  <2>3. QED  BY <1>3, <2>1, <2>2 DEF Moves, KeepsCard
<1>4. QED  BY <1>1, <1>2, <1>3, Steps

\* However syncs overlap, the connected customer has a default card once they
\* are done, unless one of them returned the error that HandlePMAttached only
\* prints.
THEOREM ConnectedKeepsCardCorrect == Spec => []ConnectedKeepsCard
<1>1. Init => ConnectedKeepsCard
  <2>1. ASSUME Init  PROVE connDefault # None
    <3>1. PICK n \in 1..MaxCopies : connDefault = n
      BY <2>1 DEF Init
    <3>2. QED  BY <3>1, ConnectCardsAssumption
  <2>2. QED  BY <2>1 DEF ConnectedKeepsCard
<1>2. Base /\ ConnectedKeepsCard /\ [Next]_vars => ConnectedKeepsCard'
  <2>1. ASSUME ConnectedKeepsCard, vars' = vars  PROVE ConnectedKeepsCard'
    BY <2>1 DEF vars, ConnectedKeepsCard, Syncing
  <2>2. QED  BY <2>1, KeepsStep
<1>3. QED  BY <1>1, <1>2, BaseCorrect, PTL DEF Spec
---------------------------------------------------------------------------
(* ConnectWebhook: the rows of a connected account and of a room, which    *)
(* deliveries in any order overwrite.  The deliveries are here those of    *)
(* `delivery`; they share no state with the syncs above.                   *)

CONSTANTS Subs, Payments, MaxChange

VARIABLES now, sub, ended, settled, events, accepted, acctRow, roomRow,
          delivery, top, overtaken, last

W == INSTANCE ConnectWebhook WITH req <- delivery, alone <- last

EventType ==
  [kind : {"account", "invoice", "updated", "deleted", "paid", "declined"},
   of : Subs \cup Payments \cup {None}, n : Nat]

Delivery == [pc : {"idle", "get", "store", "ok", "err"},
             event : EventType \cup {None}, n : Nat]

\* The types of Stripe's changes and of the rows; a delivery is one of an
\* event that was emitted, and the invoices are those whose subscription is read.
WebhookOK ==
  /\ now \in Nat /\ sub \in [Subs -> Nat]
  /\ events \subseteq EventType /\ accepted \subseteq events
  /\ acctRow \in Nat /\ top \in Nat /\ overtaken \in BOOLEAN
  /\ roomRow \in [id : Subs, of : Subs \cup Payments, n : Nat, invoice : Nat]
  /\ last \in Requests \cup {None}
  /\ delivery \in [Requests -> Delivery]
  /\ \A e \in events : /\ e.kind \in {"invoice", "updated"} => e.of \in Subs
                       /\ e.kind = "paid" => e.of \in Payments
  /\ \A r \in Requests :
       /\ delivery[r].pc # "idle" => delivery[r].event \in events
       /\ delivery[r].pc = "get" => delivery[r].event.kind = "invoice"

\* A step of the delivery r, which has reached pc with the event e and has
\* read n
Delivers(r, pc, e, n) ==
  /\ delivery' \in [Requests -> Delivery]
  /\ delivery'[r].pc = pc /\ delivery'[r].event = e /\ delivery'[r].n = n
  /\ \A q \in Requests \ {r} : delivery'[q] = delivery[q]

\* A delivery that becomes x
LEMMA DeliversIs ==
  ASSUME delivery \in [Requests -> Delivery], NEW r \in Requests,
         NEW x \in Delivery, delivery' = [delivery EXCEPT ![r] = x]
  PROVE  Delivers(r, x.pc, x.event, x.n)
  BY DEF Delivers

\* A delivery that reaches pc
LEMMA DeliversTo ==
  ASSUME delivery \in [Requests -> Delivery], NEW r \in Requests,
         NEW pc \in {"idle", "get", "store", "ok", "err"},
         delivery' = [delivery EXCEPT ![r].pc = pc]
  PROVE  Delivers(r, pc, delivery[r].event, delivery[r].n)
<1> DEFINE x == [delivery[r] EXCEPT !.pc = pc]
<1>1. /\ x \in Delivery /\ x.pc = pc /\ x.event = delivery[r].event
      /\ x.n = delivery[r].n /\ delivery' = [delivery EXCEPT ![r] = x]
  BY DEF Delivery
<1> HIDE DEF x
<1>2. Delivers(r, x.pc, x.event, x.n)
  BY <1>1, DeliversIs
<1>3. QED  BY <1>1, <1>2

\* A delivery that reaches pc with the event e
LEMMA DeliversEvent ==
  ASSUME delivery \in [Requests -> Delivery], NEW r \in Requests,
         NEW pc \in {"idle", "get", "store", "ok", "err"}, NEW e \in EventType,
         delivery' = [delivery EXCEPT ![r].pc = pc, ![r].event = e]
  PROVE  Delivers(r, pc, e, delivery[r].n)
<1> DEFINE x == [delivery[r] EXCEPT !.pc = pc, !.event = e]
<1>1. /\ x \in Delivery /\ x.pc = pc /\ x.event = e
      /\ x.n = delivery[r].n /\ delivery' = [delivery EXCEPT ![r] = x]
  BY DEF Delivery
<1> HIDE DEF x
<1>2. Delivers(r, x.pc, x.event, x.n)
  BY <1>1, DeliversIs
<1>3. QED  BY <1>1, <1>2

\* A delivery that reaches pc and has read n
LEMMA DeliversRead ==
  ASSUME delivery \in [Requests -> Delivery], NEW r \in Requests,
         NEW pc \in {"idle", "get", "store", "ok", "err"}, NEW n \in Nat,
         delivery' = [delivery EXCEPT ![r].pc = pc, ![r].n = n]
  PROVE  Delivers(r, pc, delivery[r].event, n)
<1> DEFINE x == [delivery[r] EXCEPT !.pc = pc, !.n = n]
<1>1. /\ x \in Delivery /\ x.pc = pc /\ x.event = delivery[r].event
      /\ x.n = n /\ delivery' = [delivery EXCEPT ![r] = x]
  BY DEF Delivery
<1> HIDE DEF x
<1>2. Delivers(r, x.pc, x.event, x.n)
  BY <1>1, DeliversIs
<1>3. QED  BY <1>1, <1>2

\* What Stripe changes leaves every row and delivery alone.
Changed ==
  /\ last' = None /\ delivery' = delivery
  /\ accepted' = accepted /\ acctRow' = acctRow /\ roomRow' = roomRow
  /\ top' = top /\ overtaken' = overtaken

\* A delivery begins with an event; what nobody stores may be answered at once.
Received(r) ==
  /\ delivery[r].pc = "idle" /\ delivery'[r].event \in events
  /\ delivery'[r].pc \in {"get", "store", "ok", "err"}
  /\ delivery'[r].event.kind = "invoice" => delivery'[r].pc = "get"
  /\ delivery'[r].pc = "ok" => delivery'[r].event.kind = "declined"
  /\ \A q \in Requests \ {r} : delivery'[q] = delivery[q]
  /\ last' = IF W!InFlight = {} THEN r ELSE None
  /\ accepted' = accepted \/ (/\ accepted' = accepted \cup {delivery'[r].event}
                              /\ delivery'[r].event.kind = "declined")
  /\ sub' = sub /\ acctRow' = acctRow /\ roomRow' = roomRow
  /\ top' = top /\ overtaken' = overtaken

\* A delivery goes on: it has read the subscription, failed, or stored what it
\* read or was sent.
Stored(r) ==
  LET e == delivery[r].event IN
  /\ r \in W!InFlight /\ last' = last /\ sub' = sub
  /\ \A q \in Requests \ {r} : delivery'[q] = delivery[q]
  /\ delivery'[r].event = e
  /\ \/ /\ delivery[r].pc = "get" /\ delivery'[r].pc = "store"
        /\ delivery'[r].n = sub[e.of]
        /\ accepted' = accepted /\ acctRow' = acctRow /\ roomRow' = roomRow
        /\ top' = top /\ overtaken' = overtaken
     \/ /\ delivery'[r].pc = "err"
        /\ accepted' = accepted /\ acctRow' = acctRow /\ roomRow' = roomRow
        /\ top' = top /\ overtaken' = overtaken
     \/ /\ delivery[r].pc = "store" /\ delivery'[r].pc = "ok"
        /\ accepted' = accepted \cup {e}
        /\ \/ /\ e.kind = "invoice" /\ acctRow' = acctRow /\ top' = top
              /\ roomRow'.of = e.of /\ roomRow'.n = delivery[r].n
              /\ overtaken' = (overtaken \/ delivery[r].n < roomRow.n)
           \/ /\ e.kind \in {"updated", "paid"} /\ acctRow' = acctRow
              /\ roomRow'.n = e.n /\ top' = IF top < e.n THEN e.n ELSE top
              /\ overtaken' = (overtaken \/ e.n < top)
           \/ /\ e.kind = "account" /\ acctRow' = e.n /\ top' = top
              /\ roomRow' = roomRow
              /\ overtaken' = (overtaken \/ e.n < acctRow)

---------------------------------------------------------------------------
(* The steps of the webhook.                                               *)

\* An event of Stripe is one of a known type.
LEMMA EventIs ==
  ASSUME NEW kind \in {"account", "invoice", "updated", "deleted", "paid", "declined"},
         NEW of \in Subs \cup Payments \cup {None}, NEW n \in Nat
  PROVE  W!Event(kind, of, n) \in EventType /\ W!Event(kind, of, n).kind = kind
         /\ W!Event(kind, of, n).of = of
  BY DEF W!Event, EventType

\* Stripe's steps keep the types and disturb no row.
LEMMA StripeChanges ==
  ASSUME WebhookOK, W!StripeStep
  PROVE  WebhookOK' /\ Changed
<1>1. /\ last' = None /\ now' \in Nat /\ delivery' = delivery
      /\ accepted' = accepted /\ acctRow' = acctRow /\ roomRow' = roomRow
      /\ top' = top /\ overtaken' = overtaken
  BY DEF WebhookOK, W!StripeStep, W!AccountChanges, W!SubscriptionChanges,
         W!SubscriptionEnds, W!PaymentIsMade, W!Changes
<1> DEFINE Known(e) == /\ e \in EventType
                       /\ e.kind \in {"invoice", "updated"} => e.of \in Subs
                       /\ e.kind = "paid" => e.of \in Payments
<1>2. /\ sub' \in [Subs -> Nat] /\ events \subseteq events'
      /\ \A e \in events' \ events : Known(e)
  <2>1. CASE W!AccountChanges
    <3>1. events' = events \cup {W!Event("account", None, now')} /\ sub' = sub
      BY <2>1 DEF W!AccountChanges
    <3>2. Known(W!Event("account", None, now'))
      BY <1>1, EventIs
    <3>3. QED  BY <3>1, <3>2 DEF WebhookOK
  <2>2. CASE \E s \in Subs : W!SubscriptionChanges(s)
    <3>1. PICK s \in Subs : W!SubscriptionChanges(s)
      BY <2>2
    <3>2. PICK more \in {{}, {W!Event("invoice", s, now')}} :
            events' = events \cup {W!Event("updated", s, now')} \cup more
      BY <3>1 DEF W!SubscriptionChanges
    <3>3. Known(W!Event("updated", s, now')) /\ Known(W!Event("invoice", s, now'))
      BY <1>1, EventIs
    <3>4. sub' = [sub EXCEPT ![s] = now']
      BY <3>1 DEF W!SubscriptionChanges
    <3>5. sub' \in [Subs -> Nat]
      BY <1>1, <3>4 DEF WebhookOK
    <3>6. QED  BY <3>2, <3>3, <3>5
  <2>3. CASE \E s \in Subs : W!SubscriptionEnds(s)
    <3>1. PICK s \in Subs : W!SubscriptionEnds(s)
      BY <2>3
    <3>2. /\ events' = events \cup {W!Event("deleted", s, now')}
          /\ sub' = [sub EXCEPT ![s] = now']
      BY <3>1 DEF W!SubscriptionEnds
    <3>3. Known(W!Event("deleted", s, now'))
      BY <1>1, EventIs
    <3>4. sub' \in [Subs -> Nat]
      BY <1>1, <3>2 DEF WebhookOK
    <3>5. QED  BY <3>2, <3>3, <3>4
  <2>4. CASE \E p \in Payments : W!PaymentIsMade(p)
    <3>1. PICK p \in Payments : W!PaymentIsMade(p)
      BY <2>4
    <3>2. /\ sub' = sub
          /\ \/ events' = events \cup {W!Event("paid", p, now')}
             \/ events' = events \cup {W!Event("declined", p, now')}
      BY <3>1 DEF W!PaymentIsMade
    <3>3. Known(W!Event("paid", p, now')) /\ Known(W!Event("declined", p, now'))
      BY <1>1, EventIs
    <3>4. QED  BY <3>2, <3>3 DEF WebhookOK
  <2>5. QED  BY <2>1, <2>2, <2>3, <2>4 DEF W!StripeStep
<1>3. \A e \in events' : Known(e)
  BY <1>2 DEF WebhookOK
<1>4. QED
  <2>1. Changed
    BY <1>1 DEF Changed
  <2>2. /\ events' \subseteq EventType /\ accepted' \subseteq events'
        /\ \A e \in events' : /\ e.kind \in {"invoice", "updated"} => e.of \in Subs
                              /\ e.kind = "paid" => e.of \in Payments
    BY <1>1, <1>2, <1>3 DEF WebhookOK
  <2>3. /\ acctRow' \in Nat /\ top' \in Nat /\ overtaken' \in BOOLEAN
        /\ roomRow' \in [id : Subs, of : Subs \cup Payments, n : Nat, invoice : Nat]
        /\ last' \in Requests \cup {None}
        /\ delivery' \in [Requests -> Delivery]
        /\ \A r \in Requests :
             /\ delivery'[r].pc # "idle" => delivery'[r].event \in events'
             /\ delivery'[r].pc = "get" => delivery'[r].event.kind = "invoice"
    BY <1>1, <1>2 DEF WebhookOK
  <2> HIDE DEF Known
  <2>4. WebhookOK'
    BY <1>1, <1>2, <2>2, <2>3 DEF WebhookOK
  <2>5. QED  BY <2>1, <2>4

\* A delivery begins.
LEMMA DeliveryBegins ==
  ASSUME WebhookOK, NEW r \in Requests, NEW e \in events,
         \/ W!HandleInvoice(r, e) \/ W!HandlePayload(r, e)
         \/ W!HandleSubscriptionDeleted(r, e) \/ W!HandlePaymentIntentFailed(r, e)
  PROVE  WebhookOK' /\ Received(r)
<1>1. PICK pc \in {"get", "store", "ok", "err"} :
        /\ W!Receive(r, e, pc)
        /\ e.kind = "invoice" => pc = "get"
        /\ pc = "ok" => e.kind = "declined"
        /\ pc = "get" => e.kind = "invoice"
        /\ \/ accepted' = accepted
           \/ accepted' = accepted \cup {e} /\ e.kind = "declined"
  BY DEF W!HandleInvoice, W!HandlePayload, W!HandleSubscriptionDeleted,
         W!HandlePaymentIntentFailed
<1>2. /\ delivery[r].pc = "idle"
      /\ delivery' = [delivery EXCEPT ![r].pc = pc, ![r].event = e]
      /\ last' = IF W!InFlight = {} THEN r ELSE None
      /\ now' = now /\ sub' = sub /\ events' = events
      /\ acctRow' = acctRow /\ roomRow' = roomRow
      /\ top' = top /\ overtaken' = overtaken
  BY <1>1 DEF W!Receive, W!stripe
<1>3. Delivers(r, pc, e, delivery[r].n)
  <2>1. delivery \in [Requests -> Delivery] /\ e \in EventType
    BY DEF WebhookOK
  <2>2. QED  BY <1>2, <2>1, DeliversEvent, Zenon
<1>4. Received(r)
  BY <1>1, <1>2, <1>3 DEF Delivers, Received
<1>5. \A q \in Requests :
        /\ delivery'[q].pc # "idle" => delivery'[q].event \in events'
        /\ delivery'[q].pc = "get" => delivery'[q].event.kind = "invoice"
  BY <1>1, <1>2, <1>3 DEF Delivers, WebhookOK
<1>6. last' \in Requests \cup {None} /\ accepted' \subseteq events'
  BY <1>1, <1>2 DEF WebhookOK
<1>7. delivery' \in [Requests -> Delivery]
  BY <1>3 DEF Delivers
<1>8. WebhookOK'
  BY <1>2, <1>5, <1>6, <1>7 DEF WebhookOK
<1>9. QED  BY <1>4, <1>8

\* A delivery goes on: what it leaves alone, and the types
LEMMA DeliveryKeepsTypes ==
  ASSUME WebhookOK, NEW r \in Requests,
         /\ r \in W!InFlight /\ delivery' \in [Requests -> Delivery]
         /\ delivery'[r].event = delivery[r].event /\ delivery'[r].pc # "get"
         /\ \A q \in Requests \ {r} : delivery'[q] = delivery[q]
         /\ now' = now /\ sub' = sub /\ events' = events /\ last' = last
         /\ accepted' \subseteq accepted \cup {delivery[r].event}
         /\ acctRow' \in Nat /\ top' \in Nat /\ overtaken' \in BOOLEAN
         /\ roomRow' \in [id : Subs, of : Subs \cup Payments, n : Nat, invoice : Nat]
  PROVE  WebhookOK'
<1>1. delivery[r].pc # "idle" /\ delivery[r].event \in events
  BY DEF W!InFlight, WebhookOK
<1>2. \A q \in Requests :
        /\ delivery'[q].pc # "idle" => delivery'[q].event \in events'
        /\ delivery'[q].pc = "get" => delivery'[q].event.kind = "invoice"
  BY <1>1 DEF WebhookOK
<1>3. accepted' \subseteq events'
  BY <1>1 DEF WebhookOK
<1>4. QED  BY <1>2, <1>3 DEF WebhookOK

\* The row after a subscription or a payment was stored
LEMMA RoomRowIs ==
  ASSUME NEW of \in Subs \cup Payments, NEW n \in Nat, NEW i \in Nat,
         roomRow \in [id : Subs, of : Subs \cup Payments, n : Nat, invoice : Nat],
         W!StoreRoomSubscription(of, n, i)
  PROVE  /\ roomRow' \in [id : Subs, of : Subs \cup Payments, n : Nat, invoice : Nat]
         /\ roomRow'.of = of /\ roomRow'.n = n
  BY DEF W!StoreRoomSubscription

\* A delivery reads the subscription, fails, or is stored and accepted.
LEMMA DeliveryGoesOn ==
  ASSUME WebhookOK, NEW r \in Requests,
         \/ W!GetSubscription(r) \/ W!StoreInvoice(r) \/ W!StorePayload(r)
         \/ W!UpdateConnectedAccountCanReceivePayments(r) \/ W!RequestFails(r)
  PROVE  WebhookOK' /\ Stored(r)
<1> DEFINE e == delivery[r].event
<1>1. r \in W!InFlight
  BY DEF W!GetSubscription, W!StoreInvoice, W!StorePayload, W!RequestFails,
         W!UpdateConnectedAccountCanReceivePayments, W!InFlight
<1>2. e \in events /\ e \in EventType /\ e.n \in Nat /\ delivery[r].n \in Nat
  BY <1>1 DEF W!InFlight, WebhookOK, Delivery, EventType
<1>3. delivery \in [Requests -> Delivery]
  BY DEF WebhookOK
<1>4. now' = now /\ sub' = sub /\ events' = events /\ last' = last
  BY DEF W!GetSubscription, W!StoreInvoice, W!StorePayload, W!RequestFails,
         W!UpdateConnectedAccountCanReceivePayments, W!stripe, W!history
<1>5. /\ acctRow \in Nat /\ top \in Nat /\ overtaken \in BOOLEAN
      /\ roomRow \in [id : Subs, of : Subs \cup Payments, n : Nat, invoice : Nat]
      /\ roomRow.n \in Nat
  BY DEF WebhookOK
<1> DEFINE Same == /\ accepted' = accepted /\ acctRow' = acctRow
                   /\ roomRow' = roomRow /\ top' = top /\ overtaken' = overtaken
<1>6. CASE W!GetSubscription(r)
  <2>1. /\ delivery[r].pc = "get" /\ Same
        /\ delivery' = [delivery EXCEPT ![r].pc = "store", ![r].n = sub[e.of]]
    BY <1>6 DEF W!GetSubscription, W!UpToDate, W!stripe, W!history
  <2>2. sub[e.of] \in Nat
    BY <2>1 DEF WebhookOK
  <2>3. Delivers(r, "store", e, sub[e.of])
    BY <1>3, <2>1, <2>2, DeliversRead, Zenon
  <2>4. WebhookOK'
    BY <1>1, <1>4, <1>5, <2>1, <2>3, DeliveryKeepsTypes DEF Delivers
  <2>5. Stored(r)
    BY <1>1, <1>4, <2>1, <2>3 DEF Delivers, Stored
  <2>6. QED  BY <2>4, <2>5
<1>7. CASE W!RequestFails(r)
  <2>1. Same /\ delivery' = [delivery EXCEPT ![r].pc = "err"]
    BY <1>7 DEF W!RequestFails, W!Fail, W!stripe, W!history
  <2>2. Delivers(r, "err", e, delivery[r].n)
    BY <1>3, <2>1, DeliversTo
  <2>3. WebhookOK'
    BY <1>1, <1>4, <1>5, <2>1, <2>2, DeliveryKeepsTypes DEF Delivers
  <2>4. Stored(r)
    BY <1>1, <1>4, <2>1, <2>2 DEF Delivers, Stored
  <2>5. QED  BY <2>3, <2>4
<1>8. ASSUME W!Accept(r)
      PROVE  Delivers(r, "ok", e, delivery[r].n) /\ accepted' = accepted \cup {e}
  BY <1>3, <1>8, DeliversTo DEF W!Accept
<1>9. CASE W!StoreInvoice(r)
  <2>1. /\ delivery[r].pc = "store" /\ e.kind = "invoice"
        /\ W!StoreRoomSubscription(e.of, delivery[r].n, e.n)
        /\ overtaken' = (overtaken \/ delivery[r].n < roomRow.n)
        /\ W!Accept(r) /\ acctRow' = acctRow /\ top' = top
    BY <1>9 DEF W!StoreInvoice
  <2>2. e.of \in Subs \cup Payments
    BY <1>2, <2>1 DEF WebhookOK
  <2>3. /\ roomRow' \in [id : Subs, of : Subs \cup Payments, n : Nat, invoice : Nat]
        /\ roomRow'.of = e.of /\ roomRow'.n = delivery[r].n
    BY <1>2, <1>5, <2>1, <2>2, RoomRowIs
  <2>4. overtaken' \in BOOLEAN
    BY <2>1
  <2>5. WebhookOK'
    BY <1>1, <1>4, <1>5, <1>8, <2>1, <2>3, <2>4, DeliveryKeepsTypes DEF Delivers
  <2>6. Stored(r)
    BY <1>1, <1>4, <1>8, <2>1, <2>3 DEF Delivers, Stored
  <2>7. QED  BY <2>5, <2>6
<1>10. CASE W!StorePayload(r)
  <2> DEFINE i == IF e.kind = "paid" THEN 0 ELSE e.n
  <2>1. /\ delivery[r].pc = "store" /\ e.kind \in {"updated", "paid"}
        /\ W!StoreRoomSubscription(e.of, e.n, i)
        /\ overtaken' = (overtaken \/ e.n < top)
        /\ top' = IF top < e.n THEN e.n ELSE top
        /\ W!Accept(r) /\ acctRow' = acctRow
    BY <1>10 DEF W!StorePayload
  <2>2. e.of \in Subs \cup Payments
    BY <1>2, <2>1 DEF WebhookOK
  <2>3. /\ roomRow' \in [id : Subs, of : Subs \cup Payments, n : Nat, invoice : Nat]
        /\ roomRow'.n = e.n
    BY <1>2, <1>5, <2>1, <2>2, RoomRowIs
  <2>4. overtaken' \in BOOLEAN /\ top' \in Nat
    BY <1>2, <1>5, <2>1
  <2>5. WebhookOK'
    BY <1>1, <1>4, <1>5, <1>8, <2>1, <2>3, <2>4, DeliveryKeepsTypes DEF Delivers
  <2>6. Stored(r)
    BY <1>1, <1>4, <1>8, <2>1, <2>3 DEF Delivers, Stored
  <2>7. QED  BY <2>5, <2>6
<1>11. CASE W!UpdateConnectedAccountCanReceivePayments(r)
  <2>1. /\ delivery[r].pc = "store" /\ e.kind = "account"
        /\ acctRow' = e.n /\ roomRow' = roomRow /\ top' = top
        /\ overtaken' = (overtaken \/ e.n < acctRow) /\ W!Accept(r)
    BY <1>11 DEF W!UpdateConnectedAccountCanReceivePayments
  <2>2. overtaken' \in BOOLEAN
    BY <2>1
  <2>3. WebhookOK'
    BY <1>1, <1>2, <1>4, <1>5, <1>8, <2>1, <2>2, DeliveryKeepsTypes DEF Delivers
  <2>4. Stored(r)
    BY <1>1, <1>4, <1>8, <2>1 DEF Delivers, Stored
  <2>5. QED  BY <2>3, <2>4
<1>12. QED  BY <1>6, <1>7, <1>9, <1>10, <1>11

---------------------------------------------------------------------------
(* The rows of the webhook: SettledAgrees and InvoiceHeals.                *)

\* Unless something was overtaken, the rows show at least what was accepted.
SettledOK ==
  ~overtaken =>
    /\ roomRow.n >= top
    /\ \A e \in accepted : /\ e.kind = "account" => acctRow >= e.n
                           /\ e.kind \in {"updated", "paid"} => top >= e.n

\* A delivery during which nothing else happens: the subscription it has read,
\* and then the row, are those of now.
HealOK ==
  \A a \in Requests : last = a =>
    /\ W!InFlight \subseteq {a}
    /\ delivery[a].pc # "idle" /\ delivery[a].event.kind = "invoice" =>
         LET s == delivery[a].event.of IN
         /\ delivery[a].pc = "store" => delivery[a].n = sub[s]
         /\ delivery[a].pc = "ok" => roomRow.of = s /\ roomRow.n = sub[s]

\* Every step of the webhook is one of the three kinds.
LEMMA WebhookSteps ==
  ASSUME WebhookOK, [W!Next]_W!vars
  PROVE  /\ WebhookOK'
         /\ \/ Changed
            \/ \E r \in Requests : Received(r) \/ Stored(r)
            \/ UNCHANGED W!vars
<1>1. CASE W!StripeStep
  BY <1>1, StripeChanges
<1>2. CASE \E r \in Requests : W!HandlerStep(r)
  <2>1. PICK r \in Requests : W!HandlerStep(r)
    BY <1>2
  <2>2. CASE \E e \in events :
               \/ W!HandleInvoice(r, e) \/ W!HandlePayload(r, e)
               \/ W!HandleSubscriptionDeleted(r, e)
               \/ W!HandlePaymentIntentFailed(r, e)
    BY <2>2, DeliveryBegins
  <2>3. CASE \/ W!GetSubscription(r) \/ W!StoreInvoice(r) \/ W!StorePayload(r)
             \/ W!UpdateConnectedAccountCanReceivePayments(r)
             \/ W!RequestFails(r)
    BY <2>3, DeliveryGoesOn
  <2>4. QED  BY <2>1, <2>2, <2>3 DEF W!HandlerStep
<1>3. CASE UNCHANGED W!vars
  BY <1>3 DEF W!vars, WebhookOK
<1>4. QED  BY <1>1, <1>2, <1>3 DEF W!Next

\* The numbers that the rows are compared with
LEMMA WebhookNumbers ==
  ASSUME WebhookOK
  PROVE  /\ acctRow \in Nat /\ top \in Nat /\ overtaken \in BOOLEAN /\ roomRow.n \in Nat
         /\ \A e \in events : e.n \in Nat
         /\ \A e \in accepted : e.n \in Nat
         /\ \A r \in Requests : /\ delivery[r].n \in Nat
                                /\ r \in W!InFlight => delivery[r].event.n \in Nat
  BY DEF WebhookOK, EventType, Delivery, W!InFlight

LEMMA SettledKept ==
  ASSUME WebhookOK, SettledOK,
         \/ Changed \/ UNCHANGED W!vars
         \/ \E r \in Requests : Received(r) \/ Stored(r)
  PROVE  SettledOK'
<1>1. CASE Changed
  BY <1>1 DEF Changed, SettledOK
<1>2. CASE UNCHANGED W!vars
  BY <1>2 DEF W!vars, SettledOK
<1>3. ASSUME NEW r \in Requests, Received(r)
      PROVE  SettledOK'
  BY <1>3 DEF Received, SettledOK
<1>4. ASSUME NEW r \in Requests, Stored(r)
      PROVE  SettledOK'
  <2> DEFINE e == delivery[r].event
  <2>1. /\ acctRow \in Nat /\ top \in Nat /\ overtaken \in BOOLEAN
        /\ roomRow.n \in Nat /\ e.n \in Nat /\ delivery[r].n \in Nat
        /\ \A d \in accepted : d.n \in Nat
    BY <1>4, WebhookNumbers DEF Stored
  <2>2. CASE accepted' = accepted /\ acctRow' = acctRow /\ roomRow' = roomRow
             /\ top' = top /\ overtaken' = overtaken
    BY <2>2 DEF SettledOK
  <2>3. CASE /\ accepted' = accepted \cup {e}
             /\ e.kind = "invoice" /\ acctRow' = acctRow /\ top' = top
             /\ roomRow'.n = delivery[r].n
             /\ overtaken' = (overtaken \/ delivery[r].n < roomRow.n)
    <3>1. ASSUME ~overtaken'
          PROVE  roomRow'.n >= top'
      <4>1. ~overtaken /\ ~(delivery[r].n < roomRow.n)
        BY <2>3, <3>1, Zenon
      <4>2. roomRow.n >= top
        BY <4>1 DEF SettledOK
      <4>3. QED  BY <2>1, <2>3, <4>1, <4>2
    <3>2. ASSUME ~overtaken', NEW d \in accepted'
          PROVE  /\ d.kind = "account" => acctRow' >= d.n
                 /\ d.kind \in {"updated", "paid"} => top' >= d.n
      BY <2>3, <3>2 DEF SettledOK
    <3>3. QED  BY <3>1, <3>2 DEF SettledOK
  <2>4. CASE /\ accepted' = accepted \cup {e}
             /\ e.kind \in {"updated", "paid"} /\ acctRow' = acctRow
             /\ roomRow'.n = e.n /\ top' = IF top < e.n THEN e.n ELSE top
             /\ overtaken' = (overtaken \/ e.n < top)
    <3>1. ASSUME ~overtaken'
          PROVE  roomRow'.n >= top' /\ top' = e.n /\ top' >= top
      <4>1. ~overtaken /\ ~(e.n < top)
        BY <2>4, <3>1, Zenon
      <4>2. QED  BY <2>1, <2>4, <4>1
    <3>2. ASSUME ~overtaken', NEW d \in accepted'
          PROVE  /\ d.kind = "account" => acctRow' >= d.n
                 /\ d.kind \in {"updated", "paid"} => top' >= d.n
      <4>1. CASE d = e
        BY <2>1, <2>4, <3>1, <3>2, <4>1
      <4>2. CASE d \in accepted
        <5>1. ~overtaken
          BY <2>4, <3>2, Zenon
        <5>2. /\ d.kind = "account" => acctRow >= d.n
              /\ d.kind \in {"updated", "paid"} => top >= d.n
          BY <4>2, <5>1 DEF SettledOK
        <5>3. QED  BY <2>1, <2>4, <3>1, <3>2, <4>2, <5>2
      <4>3. QED  BY <2>4, <3>2, <4>1, <4>2
    <3>3. QED  BY <3>1, <3>2 DEF SettledOK
  <2>5. CASE /\ accepted' = accepted \cup {e}
             /\ e.kind = "account" /\ acctRow' = e.n /\ top' = top
             /\ roomRow' = roomRow
             /\ overtaken' = (overtaken \/ e.n < acctRow)
    <3>1. ASSUME ~overtaken', NEW d \in accepted'
          PROVE  /\ d.kind = "account" => acctRow' >= d.n
                 /\ d.kind \in {"updated", "paid"} => top' >= d.n
      <4>1. CASE d = e
        BY <2>1, <2>5, <4>1
      <4>2. CASE d \in accepted
        <5>1. ~overtaken /\ ~(e.n < acctRow)
          BY <2>5, <3>1, Zenon
        <5>2. /\ d.kind = "account" => acctRow >= d.n
              /\ d.kind \in {"updated", "paid"} => top >= d.n
          BY <4>2, <5>1 DEF SettledOK
        <5>3. QED  BY <2>1, <2>5, <4>2, <5>1, <5>2
      <4>3. QED  BY <2>5, <3>1, <4>1, <4>2
    <3>2. QED  BY <2>5, <3>1 DEF SettledOK
  <2>6. QED  BY <1>4, <2>2, <2>3, <2>4, <2>5 DEF Stored
<1>5. QED  BY <1>1, <1>2, <1>3, <1>4

LEMMA HealKept ==
  ASSUME WebhookOK, HealOK, None \notin Requests,
         \/ Changed \/ UNCHANGED W!vars
         \/ \E r \in Requests : Received(r) \/ Stored(r)
  PROVE  HealOK'
<1>1. CASE Changed
  BY <1>1 DEF Changed, HealOK
<1>2. CASE UNCHANGED W!vars
  BY <1>2 DEF W!vars, HealOK, W!InFlight
<1>3. ASSUME NEW r \in Requests, Received(r), NEW a \in Requests, last' = a
      PROVE  /\ W!InFlight' \subseteq {a}
             /\ delivery'[a].pc # "idle" /\ delivery'[a].event.kind = "invoice" =>
                  delivery'[a].pc \notin {"store", "ok"}
  <2>1. W!InFlight = {} /\ a = r
    BY <1>3 DEF Received
  <2>2. W!InFlight' \subseteq {a}
    BY <1>3, <2>1 DEF Received, W!InFlight
  <2>3. QED  BY <1>3, <2>1, <2>2 DEF Received
<1>4. ASSUME NEW r \in Requests, Stored(r), NEW a \in Requests, last' = a
      PROVE  /\ W!InFlight' \subseteq {a}
             /\ delivery'[a].pc # "idle" /\ delivery'[a].event.kind = "invoice" =>
                  LET s == delivery'[a].event.of IN
                  /\ delivery'[a].pc = "store" => delivery'[a].n = sub'[s]
                  /\ delivery'[a].pc = "ok" => roomRow'.of = s /\ roomRow'.n = sub'[s]
  <2>1. last = a /\ r = a /\ W!InFlight \subseteq {a}
    BY <1>4 DEF Stored, HealOK
  <2>2. W!InFlight' \subseteq {a}
    BY <1>4, <2>1 DEF Stored, W!InFlight
  <2>3. delivery[a].pc # "idle"
    BY <1>4, <2>1 DEF Stored, W!InFlight
  <2>4. delivery[a].event.kind = "invoice" /\ delivery[a].pc = "store" =>
          delivery[a].n = sub[delivery[a].event.of]
    BY <2>1, <2>3 DEF HealOK
  <2>5. QED  BY <1>4, <2>1, <2>2, <2>4 DEF Stored
<1>5. ASSUME NEW r \in Requests, Received(r)
      PROVE  HealOK'
  BY <1>3, <1>5 DEF HealOK
<1>6. ASSUME NEW r \in Requests, Stored(r)
      PROVE  HealOK'
  BY <1>4, <1>6 DEF HealOK
<1>7. QED  BY <1>1, <1>2, <1>5, <1>6

\* The webhook's states have their types, and the rows and the lone delivery
\* are as SettledOK and HealOK say.
THEOREM WebhookCorrect == W!Spec => [](WebhookOK /\ SettledOK /\ HealOK)
<1>1. None \notin Requests /\ None \notin Nat
  BY ConnectCardsAssumption
<1>2. W!Init => WebhookOK /\ SettledOK /\ HealOK
  <2> SUFFICES ASSUME W!Init
               PROVE  WebhookOK /\ SettledOK /\ HealOK
    OBVIOUS
  <2>1. PICK s \in Subs : roomRow = [id |-> s, of |-> s, n |-> 0, invoice |-> 0]
    BY DEF W!Init
  <2>2. roomRow \in [id : Subs, of : Subs \cup Payments, n : Nat, invoice : Nat]
        /\ roomRow.n = 0
    BY <2>1
  <2>3. delivery \in [Requests -> Delivery] /\ \A r \in Requests : delivery[r].pc = "idle"
    <3>1. [pc |-> "idle", event |-> None, n |-> 0] \in Delivery
      BY DEF Delivery
    <3>2. QED  BY <3>1 DEF W!Init
  <2>4. WebhookOK
    BY <2>2, <2>3 DEF W!Init, WebhookOK
  <2>5. SettledOK /\ HealOK
    BY <1>1, <2>2, <2>3 DEF W!Init, SettledOK, HealOK, W!InFlight
  <2>6. QED  BY <2>4, <2>5
<1>3. WebhookOK /\ SettledOK /\ HealOK /\ [W!Next]_W!vars =>
        (WebhookOK /\ SettledOK /\ HealOK)'
  BY <1>1, WebhookSteps, SettledKept, HealKept
<1>4. QED  BY <1>2, <1>3, PTL DEF W!Spec

\* When every event that can be accepted was, and nothing older was stored over
\* something newer, the rows show the last change of the account and of the
\* room (storeRoomInvoice, updateRoomSubscription, storeRoomPaymentIntent and
\* UpdateConnectedAccountCanReceivePayments overwrite whatever is there).
THEOREM SettledAgreesCorrect == W!Spec => []W!SettledAgrees
<1>1. WebhookOK /\ SettledOK => W!SettledAgrees
  <2> SUFFICES ASSUME WebhookOK, SettledOK, ~overtaken, W!Stored \subseteq accepted,
                      NEW e \in W!Stored
               PROVE  IF e.kind = "account" THEN acctRow >= e.n ELSE roomRow.n >= e.n
    BY DEF W!SettledAgrees
  <2>1. /\ acctRow \in Nat /\ top \in Nat /\ roomRow.n \in Nat /\ e.n \in Nat
        /\ e \in accepted /\ e.kind \in {"account", "updated", "paid"}
    BY WebhookNumbers DEF W!Stored
  <2>2. QED  BY <2>1 DEF SettledOK
<1>2. QED  BY <1>1, WebhookCorrect, PTL

\* An invoice that was handled while nothing else happened repairs the row
\* (unmarshalInvoiceWithSubscription reads the subscription of now).
THEOREM InvoiceHealsCorrect == W!Spec => []W!InvoiceHeals
<1>1. WebhookOK /\ HealOK => W!InvoiceHeals
  BY DEF WebhookOK, HealOK, W!InvoiceHeals
<1>2. QED  BY <1>1, WebhookCorrect, PTL
============================================================================
