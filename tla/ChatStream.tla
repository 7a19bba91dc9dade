---------------------------- MODULE ChatStream ----------------------------
(***************************************************************************)
(* One ListenForMessages stream: the handler of service/v1/chat.go and the *)
(* goroutines it starts,                                                   *)
(*   sender: started by the handler, calls stream.Send;                    *)
(*   relay:  started by the controller's ListenForMessages;                *)
(*   reader: started by the use case's Subscribe, reads the pubsub.        *)
(* They hand messages on over unbuffered channels (a rendezvous is one     *)
(* step) and learn that the upstream goroutine has gone from its deferred  *)
(* close of the channel.                                                   *)
(*                                                                         *)
(* Message n is the n-th one published on the conversation's channel. The  *)
(* pubsub connection of go-redis is external: it delivers in order, and    *)
(* may lose messages (Lossy) on a reconnection or when its buffer is full. *)
(*                                                                         *)
(* Delivery composes the stream with the rest of the chat, states fairness *)
(* and checks its liveness.                                                *)
(***************************************************************************)
EXTENDS Naturals, Sequences

CONSTANTS
  MaxPublished,   \* bound, a natural number: messages published in all
  Lossy,          \* a Boolean: may the pubsub connection lose messages?
  ReadFails       \* a Boolean: may ReadConversationMessages fail?

VARIABLES
  client,      \* "connected" or "gone"
  ctx,         \* the stream's context: "live" or "cancelled"
  handler,     \* "reading", "waiting" on done, or "returned"
  sendErr,     \* the variable the handler and the sender share
  returned,    \* what the handler returned
  done,        \* the done channel: "open" or "closed"
  sender,      \* "none", "start", "select", "sending" or "exited"
  relay,       \* "none", "recv", "send" or "exited"
  reader,      \* "none", "subscribing", "recv", "send" or "exited"
  held,        \* held[g]: the message goroutine g has in hand, 0 for none
  pubsub,      \* "none", "open" or "closed"
  buffer,      \* messages the pubsub has received and not handed out
  published,   \* number of messages published
  delivered,   \* messages the client has received
  panicked,    \* a goroutine panicked: the process is dead
  failed,      \* history: did ReadConversationMessages fail?
  from,        \* history: messages published before SUBSCRIBE took effect
  lost         \* history: messages the pubsub lost

vars == <<client, ctx, handler, sendErr, returned, done, sender, relay, reader,
          held, pubsub, buffer, published, delivered, panicked,
          failed, from, lost>>

conn == <<pubsub, buffer, from, lost>>
outside == <<client, published, failed>>

Errors == {"nil", "read", "send", "closed"}
Numbers == 1..MaxPublished
Goroutines == {"sender", "relay", "reader"}

Init ==
  /\ client = "connected" /\ ctx = "live"
  /\ handler = "reading" /\ sendErr = "nil" /\ returned = "none"
  /\ done = "open"
  /\ sender = "none" /\ relay = "none" /\ reader = "none"
  /\ held = [g \in Goroutines |-> 0]
  /\ pubsub = "none" /\ buffer = <<>>
  /\ published = 0 /\ delivered = <<>>
  /\ panicked = FALSE /\ failed = FALSE
  /\ from = 0 /\ lost = {}

---------------------------------------------------------------------------
(* Faulty variants, each refuted by a property: a case that is missing,    *)
(* the end of the channel not reported, a message taken twice or dropped.  *)

MissingCase == FALSE

SenderEndsQuietly ==
  /\ sender = "select" /\ relay = "exited"
  /\ sender' = "exited" /\ done' = "closed"
  /\ UNCHANGED <<outside, ctx, handler, sendErr, returned, relay, reader, held,
                 conn, delivered, panicked>>

ReaderPeeks ==
  /\ reader = "recv" /\ buffer # <<>>
  /\ reader' = "send"
  /\ held' = [held EXCEPT !["reader"] = Head(buffer)]
  /\ UNCHANGED <<outside, ctx, handler, sendErr, returned, done, sender, relay,
                 conn, delivered, panicked>>

\* A decoded message is not handed on.
ReaderForgets ==
  /\ reader = "recv" /\ buffer # <<>>
  /\ buffer' = Tail(buffer)
  /\ UNCHANGED <<outside, ctx, handler, sendErr, returned, done, sender, relay,
                 reader, held, pubsub, delivered, panicked, from, lost>>

---------------------------------------------------------------------------
(* The handler.                                                            *)

\* ReadConversationMessages, then `go` the sender. A failed read sets
\* sendErr and closes done, and goes on all the same.
HandlerReads ==
  /\ handler = "reading"
  /\ \/ UNCHANGED <<sendErr, done, failed>>
     \/ /\ ReadFails
        /\ sendErr' = "read" /\ done' = "closed" /\ failed' = TRUE
  /\ handler' = "waiting"
  /\ sender' = "start"
  /\ UNCHANGED <<client, published, ctx, returned, relay, reader, held, conn, delivered,
                 panicked>>

\* <-done; return sendErr. The server then cancels the stream's context.
HandlerReturns ==
  /\ handler = "waiting"
  /\ done = "closed"
  /\ handler' = "returned"
  /\ returned' = sendErr
  /\ ctx' = "cancelled"
  /\ UNCHANGED <<outside, sendErr, done, sender, relay, reader, held, conn,
                 delivered, panicked>>

---------------------------------------------------------------------------
(* The sender.                                                             *)

\* The controller's ListenForMessages starts the relay, and Subscribe the
\* reader.
SenderStarts ==
  /\ sender = "start"
  /\ sender' = "select" /\ relay' = "recv" /\ reader' = "subscribing"
  /\ UNCHANGED <<outside, ctx, handler, sendErr, returned, done, held, conn,
                 delivered, panicked>>

\* The deferred close(done): closing a closed channel panics.
SenderExits(err) ==
  /\ sender' = "exited"
  /\ sendErr' = err
  /\ IF done = "closed" THEN panicked' = TRUE /\ UNCHANGED done
                        ELSE done' = "closed" /\ UNCHANGED panicked
  /\ UNCHANGED <<outside, ctx, handler, returned, relay, reader, held, conn,
                 delivered>>

SenderSeesCancel ==
  /\ sender = "select"
  /\ ctx = "cancelled"
  /\ SenderExits(sendErr)

SenderSeesClosed ==
  /\ sender = "select"
  /\ relay = "exited"
  /\ SenderExits("closed")

\* stream.Send: its error is remembered, and the loop goes on.
SenderSends ==
  /\ sender = "sending"
  /\ sender' = "select"
  /\ held' = [held EXCEPT !["sender"] = 0]
  /\ \/ /\ client = "connected" /\ ctx = "live"
        /\ delivered' = Append(delivered, held["sender"])
        /\ UNCHANGED sendErr
     \/ /\ client = "gone" \/ ctx = "cancelled"
        /\ sendErr' \in {sendErr, "send"}
        /\ UNCHANGED delivered
  /\ UNCHANGED <<outside, ctx, handler, returned, done, relay, reader, conn,
                 panicked>>

---------------------------------------------------------------------------
(* The relay and the reader.                                               *)

RelayToSender ==
  /\ relay = "send" /\ sender = "select"
  /\ relay' = "recv" /\ sender' = "sending"
  /\ held' = [held EXCEPT !["sender"] = held["relay"], !["relay"] = 0]
  /\ UNCHANGED <<outside, ctx, handler, sendErr, returned, done, reader, conn,
                 delivered, panicked>>

ReaderToRelay ==
  /\ reader = "send" /\ relay = "recv"
  /\ reader' = "recv" /\ relay' = "send"
  /\ held' = [held EXCEPT !["relay"] = held["reader"], !["reader"] = 0]
  /\ UNCHANGED <<outside, ctx, handler, sendErr, returned, done, sender, conn,
                 delivered, panicked>>

RelayExits ==
  /\ relay = "recv" /\ reader = "exited"
  /\ relay' = "exited"
  /\ UNCHANGED <<outside, ctx, handler, sendErr, returned, done, sender,
                 reader, held, conn, delivered, panicked>>

\* Redis takes the SUBSCRIBE.
Subscribed ==
  /\ reader = "subscribing" /\ pubsub = "none"
  /\ pubsub' = "open" /\ from' = published
  /\ UNCHANGED <<outside, ctx, handler, sendErr, returned, done, sender, relay,
                 reader, held, buffer, delivered, panicked, lost>>

\* pubsub.Receive: the confirmation arrives, or an error ends the goroutine,
\* whose deferred calls close the pubsub and the channel.
ReaderConfirms ==
  /\ reader = "subscribing"
  /\ \/ /\ pubsub = "open"
        /\ reader' = "recv"
        /\ UNCHANGED conn
     \/ /\ reader' = "exited"
        /\ pubsub' = "closed" /\ buffer' = <<>>
        /\ UNCHANGED <<from, lost>>
  /\ UNCHANGED <<outside, ctx, handler, sendErr, returned, done, sender, relay,
                 held, delivered, panicked>>

ReaderTakes ==
  /\ reader = "recv" /\ buffer # <<>>
  /\ reader' = "send"
  /\ held' = [held EXCEPT !["reader"] = Head(buffer)]
  /\ buffer' = Tail(buffer)
  /\ UNCHANGED <<outside, ctx, handler, sendErr, returned, done, sender, relay,
                 pubsub, delivered, panicked, from, lost>>

\* `range pubsub.Channel()` ends once the pubsub is closed and drained.
ReaderExits ==
  /\ reader = "recv" /\ buffer = <<>> /\ pubsub = "closed"
  /\ reader' = "exited"
  /\ UNCHANGED <<outside, ctx, handler, sendErr, returned, done, sender, relay,
                 held, conn, delivered, panicked>>

\* The goroutine that waits on ctx.Done() closes the pubsub; what had not
\* reached the Go channel yet is dropped.
PubsubCloses ==
  /\ reader \notin {"none", "subscribing"}
  /\ ctx = "cancelled" /\ pubsub = "open"
  /\ pubsub' = "closed"
  /\ \E n \in 0..Len(buffer) : buffer' = SubSeq(buffer, 1, n)
  /\ UNCHANGED <<outside, ctx, handler, sendErr, returned, done, sender, relay,
                 reader, held, delivered, panicked, from, lost>>

---------------------------------------------------------------------------
(* Outside: SendMessage publishes, the client leaves.                      *)

Publish ==
  /\ published < MaxPublished
  /\ published' = published + 1
  /\ \/ /\ pubsub = "open"
        /\ buffer' = Append(buffer, published + 1)
        /\ UNCHANGED lost
     \/ /\ pubsub # "open" \/ Lossy
        /\ lost' = lost \cup {published + 1}
        /\ UNCHANGED buffer
  /\ UNCHANGED <<client, ctx, handler, sendErr, returned, done, sender, relay,
                 reader, held, pubsub, delivered, panicked, failed, from>>

ClientLeaves ==
  /\ client = "connected"
  /\ client' = "gone"
  /\ UNCHANGED <<ctx, handler, sendErr, returned, done, sender, relay, reader,
                 held, conn, published, delivered, panicked, failed>>

\* The server notices and cancels the stream's context.
LeavingCancels ==
  /\ client = "gone" /\ ctx = "live"
  /\ ctx' = "cancelled"
  /\ UNCHANGED <<outside, handler, sendErr, returned, done, sender, relay,
                 reader, held, conn, delivered, panicked>>

HandlerStep == HandlerReads \/ HandlerReturns
SenderStep ==
  SenderStarts \/ SenderSeesCancel \/ SenderSeesClosed \/ SenderSends
RelayStep == RelayToSender \/ RelayExits
ReaderStep == ReaderToRelay \/ ReaderTakes \/ ReaderExits

Step ==
  \/ HandlerStep \/ SenderStep \/ RelayStep \/ ReaderStep
  \/ Subscribed \/ ReaderConfirms \/ PubsubCloses
  \/ Publish \/ ClientLeaves \/ LeavingCancels

Next == ~panicked /\ Step

Spec == Init /\ [][Next]_vars

---------------------------------------------------------------------------
(* Properties.                                                             *)

\* Type invariant, with the goroutine that has a message in hand being the
\* one that is about to pass it on.
TypeOK ==
  /\ client \in {"connected", "gone"} /\ ctx \in {"live", "cancelled"}
  /\ handler \in {"reading", "waiting", "returned"}
  /\ sendErr \in Errors /\ returned \in Errors \cup {"none"}
  /\ done \in {"open", "closed"}
  /\ sender \in {"none", "start", "select", "sending", "exited"}
  /\ relay \in {"none", "recv", "send", "exited"}
  /\ reader \in {"none", "subscribing", "recv", "send", "exited"}
  /\ held \in [Goroutines -> Numbers \cup {0}]
  /\ pubsub \in {"none", "open", "closed"}
  /\ buffer \in Seq(Numbers) /\ delivered \in Seq(Numbers)
  /\ published \in Numbers \cup {0} /\ from \in Numbers \cup {0}
  /\ lost \subseteq Numbers
  /\ panicked \in BOOLEAN /\ failed \in BOOLEAN
  /\ held["sender"] # 0 <=> sender = "sending"
  /\ held["relay"] # 0 <=> relay = "send"
  /\ held["reader"] # 0 <=> reader = "send"

\* A message in hand when the pubsub is closed: relay or reader block for
\* ever on a sender that has exited, because nothing receives it.
Leaky == relay = "send" \/ reader = "send" \/ buffer # <<>>

\* The client receives messages in the order of publication, none twice, and
\* between SUBSCRIBE and the latest message it has only what the pubsub lost
\* is missing: no goroutine on the way reorders, repeats or drops a message.
InOrderWithoutGap ==
  \A i \in 1..Len(delivered) :
    /\ \A j \in 1..i - 1 : delivered[j] < delivered[i]
    /\ \A n \in (from + 1)..delivered[i] :
         n \in lost \/ \E k \in 1..i : delivered[k] = n

\* The stream ends without an error only if the client left: a subscription
\* that breaks is reported.  And it ends the process only if the read had
\* failed: in no other order do handler, sender, relay, reader and closer
\* close a channel twice.
EndsForAReason ==
  /\ returned = "nil" => client = "gone"
  /\ panicked => failed

\* A failed read is answered with the error "failed to read previous
\* conversation messages" (chat.go), not with the end of the process.
FailedReadSurvives == ~panicked
=============================================================================
