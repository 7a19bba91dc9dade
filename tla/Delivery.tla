------------------------------ MODULE Delivery ------------------------------
(***************************************************************************)
(* The chat with one of its listeners: Chat, and ChatStream for the        *)
(* goroutines of the stream that Listener has on Channel.  They meet in    *)
(*   - PUBLISH of a SendMessage, which the connection of the stream        *)
(*     receives or loses;                                                  *)
(*   - the handler of ListenForMessages, whose commands of Redis are in    *)
(*     Chat and whose channels are in ChatStream;                          *)
(*   - the process, which a panic of the sender ends with every request,   *)
(*     and another request with the stream.                                *)
(* Together they keep the promise of Feed.                                 *)
(***************************************************************************)
EXTENDS Chat

CONSTANTS
  Listener,   \* the stream whose goroutines are modelled
  Channel,    \* the conversation it listens to
  Lossy       \* may the pubsub connection lose messages?

ASSUME DeliveryAssumption ==
  Listener \in Streams /\ Channel \in Convs /\ Lossy \in BOOLEAN

VARIABLES
  client, ctx, handler, sendErr, returned, done, sender, relay, reader, held,
  pubsub, buffer, posted, delivered, panicked, failed, from, lost,
  killed      \* another request ended the process that served the stream

\* A request publishes once, so that the number of messages bounds nothing.
\* The read fails where there is no copy, whatever Redis does.
C == INSTANCE ChatStream WITH
       MaxPublished <- Cardinality(Sends), ReadFails <- TRUE,
       published <- posted

goroutines == <<client, ctx, handler, sendErr, returned, done, sender, relay,
                reader, held, pubsub, buffer, posted, delivered, panicked,
                failed, from, lost>>
everything == <<vars, goroutines, killed>>

Serving == ~panicked /\ ~killed

DeliveryInit == Init /\ C!Init /\ killed = FALSE
---------------------------------------------------------------------------
(* Where the two meet.                                                     *)

\* Message number n of the stream is the nth one published on the channel
\* while the process lived.
Publish(s) ==
  /\ snd[s].conv = Channel
  /\ SendPublish(s)
  /\ IF Serving THEN C!Publish ELSE UNCHANGED goroutines
  /\ UNCHANGED killed

\* SetActiveConversation follows on the read, failed or not, and then the
\* handler starts the sender.
HandlerOpens ==
  /\ Serving
  /\ StreamSetActive(Listener) /\ C!HandlerReads
  /\ failed' <=> str[Listener].pc = "setactive_failed"
  /\ UNCHANGED killed

HandlerCloses ==
  /\ Serving
  /\ StreamClose(Listener) /\ C!HandlerReturns
  /\ UNCHANGED killed

\* The sender closes done a second time. The process may serve no other
\* request, and then there is nothing else to end.
SenderPanics ==
  /\ Serving
  /\ C!SenderStep /\ panicked'
  /\ Crash \/ UNCHANGED vars
  /\ UNCHANGED killed

\* A panic elsewhere, or a restart. A stream that is not open yet may open
\* in the next process.
ProcessDies ==
  /\ Crash
  /\ killed' = (killed \/ str[Listener].pc # "idle")
  /\ UNCHANGED goroutines
---------------------------------------------------------------------------
(* What each does on its own.                                              *)

StoreStep ==
  /\ \/ \E c \in Convs : CreateStep(c)
     \/ \E c \in Convs : \E u, v \in Users : CreateConversation(c, u, v)
     \/ \E s \in Sends, u \in Users, c \in Convs : SendBegin(s, u, c)
     \/ \E s \in Sends : SendStep(s) /\ pub'[Channel] = pub[Channel]
     \/ \E u \in Users : StreamRead(Listener, u, Channel)
     \/ StreamWrite(Listener) \/ StreamWriteFails(Listener)
     \/ \E l \in Streams \ {Listener} :
          StreamStep(l) \/ \E u \in Users, c \in Convs : StreamRead(l, u, c)
  /\ UNCHANGED <<goroutines, killed>>

\* A client that leaves has called the handler.
GoroutineStep ==
  /\ Serving
  /\ \/ C!SenderStep /\ ~panicked'
     \/ C!RelayStep \/ C!ReaderStep
     \/ C!Subscribed \/ C!ReaderConfirms \/ C!PubsubCloses
     \/ C!ClientLeaves /\ str[Listener].pc # "idle"
     \/ C!LeavingCancels
  /\ UNCHANGED <<vars, killed>>

DeliveryNext ==
  \/ StoreStep \/ GoroutineStep
  \/ \E s \in Sends : Publish(s)
  \/ HandlerOpens \/ HandlerCloses \/ SenderPanics \/ ProcessDies

DeliverySpec == DeliveryInit /\ [][DeliveryNext]_everything

\* The handler's commands return, the Go scheduler runs every goroutine that
\* can move, and the server notices a client that has gone. Nothing obliges
\* Redis to confirm the subscription or to send anything.
HandlerRuns ==
  \/ /\ StreamWrite(Listener) \/ StreamWriteFails(Listener)
     /\ UNCHANGED <<goroutines, killed>>
  \/ HandlerOpens \/ HandlerCloses

Running(step) == Serving /\ step /\ ~panicked' /\ UNCHANGED <<vars, killed>>

FairDelivery ==
  /\ DeliverySpec
  /\ WF_everything(HandlerRuns)
  /\ WF_everything(SenderPanics \/ Running(C!SenderStep))
  /\ WF_everything(Running(C!RelayStep))
  /\ WF_everything(Running(C!ReaderStep))
  /\ WF_everything(Running(C!LeavingCancels))
---------------------------------------------------------------------------
(* Properties.                                                             *)

\* The history is the conversation's sorted set, an acknowledgement the
\* answer to SendMessage, and a message is named by the request it came with.
Promise == INSTANCE Feed WITH
       Messages <- Sends,
       said <- log[Channel],
       acked <- {s \in Sends : snd[s].pc = "ok" /\ snd[s].conv = Channel},
       heard <- [k \in 1..Len(delivered) |-> pub[Channel][delivered[k]]]

\* The chat keeps the promise: the lock of the messages key gives the order,
\* and neither Redis, sender, relay and reader nor a restart changes it.
ImplementsFeed == Promise!Spec

OnItsWay(n) ==
  \/ \E k \in 1..Len(buffer) : buffer[k] = n
  \/ \E g \in C!Goroutines : held[g] = n

\* Between the confirmation and the end of the stream
Listening ==
  Serving /\ client = "connected" /\ ctx = "live" /\ reader \in {"recv", "send"}

\* A message that was acknowledged is in the history, and a client that was
\* listening by then has it, unless the connection lost it or goroutines of
\* the stream are still handing it on.
AcknowledgedArrives ==
  \A s \in Sends : snd[s].pc = "ok" /\ snd[s].conv = Channel =>
    /\ s \in Stored(Channel)
    /\ \E n \in 1..Len(pub[Channel]) :
         /\ pub[Channel][n] = s
         /\ Listening /\ n > from =>
              \/ \E k \in 1..Len(delivered) : delivered[k] = n
              \/ OnItsWay(n) \/ n \in lost

\* The stream ends without an error only if the client left, and ends the
\* process only after a read that failed.
StreamEndsForAReason == C!EndsForAReason

\* Once the client has left, the handler returns, whatever its goroutines
\* are blocked on and whatever else runs.
LeavingEndsHandler ==
  (client = "gone") ~> (handler = "returned" \/ ~Serving)

\* If nothing is in hand when the pubsub is closed, no goroutine is left
\* behind.
EmptyStreamCleansUp ==
  (ctx = "cancelled" /\ pubsub = "closed" /\ ~C!Leaky)
    ~> (~Serving \/ {sender, relay, reader} = {"exited"})
=============================================================================
