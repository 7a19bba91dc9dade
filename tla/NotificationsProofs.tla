------------------------ MODULE NotificationsProofs ------------------------
(***************************************************************************)
(* Theorems about Notifications, for any sets of streams and requests:     *)
(* its type invariant, and that streams and the process end for a reason   *)
(* (EndsForAReason).  The argument is about the channel of a stream: only  *)
(* a Receive that failed closes it before the reader ends, and the reader  *)
(* ends only when the context is cancelled, which the client's leaving or  *)
(* the handler's return does.                                              *)
(***************************************************************************)
EXTENDS Notifications, SequenceTheorems, TLAPS

\* What the goroutines of a stream know of each other.
HandsOK(x) ==
  /\ x.sender = "sending" => x.out \in Requests
  /\ x.reader = "send" => x.hand \in Requests

ChannelOK(x) ==
  /\ x.channel = "closed" => x.refused \/ x.reader = "exited"
  /\ x.reader = "exited" => x.pubsub = "closed"
  /\ x.pubsub = "closed" => x.ctx = "cancelled"

EndOK(x) ==
  /\ x.client = "none" => x.handler = "none"
  /\ x.ctx = "cancelled" => x.client = "gone" \/ x.handler = "returned"
  /\ x.handler = "returned" => x.sender = "exited"
  /\ x.sender = "exited" /\ x.sendErr = "nil" => x.client = "gone" \/ x.refused

StreamOK(x) == x \in Stream /\ HandsOK(x) /\ ChannelOK(x) /\ EndOK(x)

DiesForAReason ==
  died => \/ \E s \in Streams : st[s].refused
          \/ \E r \in Requests : req[r] = "unstored"

Inv == TypeOK /\ (\A s \in Streams : StreamOK(st[s])) /\ DiesForAReason
---------------------------------------------------------------------------
(* Steps of one stream.                                                    *)

\* The fields of a stream, in groups that steps leave alone
Ends(x) == <<x.client, x.ctx, x.handler, x.sendErr>>
Hands(x) == <<x.sender, x.out, x.reader, x.hand>>
Wires(x) == <<x.channel, x.refused, x.pubsub>>
Log(x) == <<x.buffer, x.delivered, x.from, x.lost>>

\* Update of a stream by a record that is as it should be keeps all streams so.
LEMMA UpdateKeeps ==
  ASSUME TypeOK, \A s \in Streams : StreamOK(st[s]),
         NEW s \in Streams, NEW x, StreamOK(x), Update(s, x)
  PROVE  /\ server' = server /\ online' = online /\ published' = published
         /\ req' = req /\ st' = [st EXCEPT ![s] = x]
         /\ st' \in [Streams -> Stream]
         /\ \A t \in Streams : StreamOK(st'[t])
         /\ st'[s] = x
         /\ \A t \in Streams \ {s} : st'[t] = st[t]
BY DEF Update, TypeOK, StreamOK

\* A step that gives s a record as it should be, in which a failed Receive
\* is not forgotten, keeps the invariant, if what it does to died has a reason.
LEMMA StreamStepKeeps ==
  ASSUME Inv, ~died, NEW s \in Streams, NEW x, StreamOK(x), Update(s, x),
         died' \in BOOLEAN, died' => x.refused
  PROVE  Inv'
<1>1. /\ server' = server /\ online' = online /\ published' = published
      /\ req' = req /\ st' \in [Streams -> Stream]
      /\ \A t \in Streams : StreamOK(st'[t])
      /\ st'[s] = x
  BY UpdateKeeps DEF Inv
<1>2. TypeOK'
  BY <1>1 DEF Inv, TypeOK
<1>3. (\A t \in Streams : StreamOK(st[t]))'
  BY <1>1 DEF StreamOK, HandsOK, ChannelOK, EndOK
<1>4. DiesForAReason'
  BY <1>1 DEF DiesForAReason
<1>5. QED  BY <1>2, <1>3, <1>4 DEF Inv

\* The steps of the handler of a stream, its subscription included
LEMMA HandlerKeeps ==
  ASSUME Inv, ~died, NEW s \in Streams,
         \/ ListenForNotifications(s) \/ Subscribed(s) \/ Confirmed(s)
         \/ ReceiveFails(s) \/ HandlerReturns(s) \/ ClientLeaves(s)
         \/ LeavingCancels(s)
  PROVE  Inv'
<1>0. StreamOK(st[s]) /\ published \in Seq(Requests) /\ died \in BOOLEAN
  BY DEF Inv, TypeOK
<1>1. CASE ListenForNotifications(s)
  <2> DEFINE x == [st[s] EXCEPT !.client = "connected", !.handler = "waiting",
                             !.sender = "subscribing"]
  <2>1. st[s].client = "none"
    BY <1>0, <1>1 DEF ListenForNotifications, StreamOK, Stream
  <2>2. /\ x.client = "connected" /\ x.ctx = st[s].ctx
        /\ x.handler = "waiting" /\ x.sendErr = st[s].sendErr
        /\ x.sender = "subscribing" /\ x.out = st[s].out
        /\ x.reader = st[s].reader /\ x.hand = st[s].hand
        /\ Wires(x) = Wires(st[s]) /\ Log(x) = Log(st[s])
    BY <1>0 DEF StreamOK, Stream, Ends, Hands, Wires, Log
  <2>3. x \in Stream
    BY <1>0, <2>1, <2>2 DEF StreamOK, Stream, Ends, Hands, Wires, Log
  <2>4. Update(s, x) /\ died' = died
    BY <1>1 DEF ListenForNotifications
  <2> HIDE DEF x
  <2>5. StreamOK(x)
    BY <1>0, <2>1, <2>2, <2>3 DEF StreamOK, HandsOK, ChannelOK, EndOK,
       Ends, Hands, Wires, Log
  <2>6. QED  BY <1>0, <2>4, <2>5, StreamStepKeeps
<1>2. CASE Subscribed(s)
  <2> DEFINE x == [st[s] EXCEPT !.pubsub = "open", !.from = Len(published)]
  <2>1. st[s].pubsub # "closed" /\ Len(published) \in Nat
    BY <1>0, <1>2 DEF Subscribed, StreamOK, Stream
  <2>2. /\ Ends(x) = Ends(st[s]) /\ Hands(x) = Hands(st[s])
        /\ x.channel = st[s].channel /\ x.refused = st[s].refused
        /\ x.pubsub = "open" /\ x.buffer = st[s].buffer
        /\ x.delivered = st[s].delivered /\ x.from = Len(published)
        /\ x.lost = st[s].lost
    BY <1>0 DEF StreamOK, Stream, Ends, Hands, Wires, Log
  <2>3. x \in Stream
    BY <1>0, <2>1, <2>2 DEF StreamOK, Stream, Ends, Hands, Wires, Log
  <2>4. Update(s, x) /\ died' = died
    BY <1>2 DEF Subscribed
  <2> HIDE DEF x
  <2>5. StreamOK(x)
    BY <1>0, <2>1, <2>2, <2>3 DEF StreamOK, HandsOK, ChannelOK, EndOK,
       Ends, Hands, Wires, Log
  <2>6. QED  BY <1>0, <2>4, <2>5, StreamStepKeeps
<1>3. CASE Confirmed(s)
  <2> DEFINE x == [st[s] EXCEPT !.sender = "select", !.reader = "recv"]
  <2>1. st[s].sender = "subscribing" /\ st[s].pubsub = "open"
    BY <1>0, <1>3 DEF Confirmed, StreamOK, Stream
  <2>2. /\ Ends(x) = Ends(st[s]) /\ x.sender = "select" /\ x.out = st[s].out
        /\ x.reader = "recv" /\ x.hand = st[s].hand
        /\ Wires(x) = Wires(st[s]) /\ Log(x) = Log(st[s])
    BY <1>0 DEF StreamOK, Stream, Ends, Hands, Wires, Log
  <2>3. x \in Stream
    BY <1>0, <2>1, <2>2 DEF StreamOK, Stream, Ends, Hands, Wires, Log
  <2>4. Update(s, x) /\ died' = died
    BY <1>3 DEF Confirmed
  <2> HIDE DEF x
  <2>5. StreamOK(x)
    BY <1>0, <2>1, <2>2, <2>3 DEF StreamOK, HandsOK, ChannelOK, EndOK,
       Ends, Hands, Wires, Log
  <2>6. QED  BY <1>0, <2>4, <2>5, StreamStepKeeps
<1>4. CASE ReceiveFails(s)
  <2> DEFINE x == [st[s] EXCEPT !.refused = TRUE, !.sender = "select",
                             !.reader = "recv", !.channel = "closed",
                             !.pubsub = "broken", !.buffer = <<>>]
  <2>1. st[s].sender = "subscribing" /\ <<>> \in Seq(Requests)
    BY <1>0, <1>4 DEF ReceiveFails, StreamOK, Stream
  <2>2. /\ Ends(x) = Ends(st[s]) /\ x.sender = "select" /\ x.out = st[s].out
        /\ x.reader = "recv" /\ x.hand = st[s].hand /\ x.channel = "closed"
        /\ x.refused = TRUE /\ x.pubsub = "broken" /\ x.buffer = <<>>
        /\ x.delivered = st[s].delivered /\ x.from = st[s].from
        /\ x.lost = st[s].lost
    BY <1>0 DEF StreamOK, Stream, Ends, Hands, Wires, Log
  <2>3. x \in Stream
    BY <1>0, <2>1, <2>2 DEF StreamOK, Stream, Ends, Hands, Wires, Log
  <2>4. Update(s, x) /\ died' = died
    BY <1>4 DEF ReceiveFails
  <2> HIDE DEF x
  <2>5. StreamOK(x)
    BY <1>0, <2>1, <2>2, <2>3 DEF StreamOK, HandsOK, ChannelOK, EndOK,
       Ends, Hands, Wires, Log
  <2>6. QED  BY <1>0, <2>4, <2>5, StreamStepKeeps
<1>5. CASE HandlerReturns(s)
  <2> DEFINE x == [st[s] EXCEPT !.handler = "returned", !.ctx = "cancelled"]
  <2>1. st[s].handler = "waiting" /\ st[s].sender = "exited"
    BY <1>0, <1>5 DEF HandlerReturns, StreamOK, Stream
  <2>2. /\ x.client = st[s].client /\ x.ctx = "cancelled"
        /\ x.handler = "returned" /\ x.sendErr = st[s].sendErr
        /\ Hands(x) = Hands(st[s]) /\ Wires(x) = Wires(st[s])
        /\ Log(x) = Log(st[s])
    BY <1>0 DEF StreamOK, Stream, Ends, Hands, Wires, Log
  <2>3. x \in Stream
    BY <1>0, <2>1, <2>2 DEF StreamOK, Stream, Ends, Hands, Wires, Log
  <2>4. Update(s, x) /\ died' = died
    BY <1>5 DEF HandlerReturns
  <2> HIDE DEF x
  <2>5. StreamOK(x)
    BY <1>0, <2>1, <2>2, <2>3 DEF StreamOK, HandsOK, ChannelOK, EndOK,
       Ends, Hands, Wires, Log
  <2>6. QED  BY <1>0, <2>4, <2>5, StreamStepKeeps
<1>6. CASE ClientLeaves(s)
  <2> DEFINE x == [st[s] EXCEPT !.client = "gone"]
  <2>1. st[s].client = "connected"
    BY <1>0, <1>6 DEF ClientLeaves, StreamOK, Stream
  <2>2. /\ x.client = "gone" /\ x.ctx = st[s].ctx
        /\ x.handler = st[s].handler /\ x.sendErr = st[s].sendErr
        /\ Hands(x) = Hands(st[s]) /\ Wires(x) = Wires(st[s])
        /\ Log(x) = Log(st[s])
    BY <1>0 DEF StreamOK, Stream, Ends, Hands, Wires, Log
  <2>3. x \in Stream
    BY <1>0, <2>1, <2>2 DEF StreamOK, Stream, Ends, Hands, Wires, Log
  <2>4. Update(s, x) /\ died' = died
    BY <1>6 DEF ClientLeaves
  <2> HIDE DEF x
  <2>5. StreamOK(x)
    BY <1>0, <2>1, <2>2, <2>3 DEF StreamOK, HandsOK, ChannelOK, EndOK,
       Ends, Hands, Wires, Log
  <2>6. QED  BY <1>0, <2>4, <2>5, StreamStepKeeps
<1>7. CASE LeavingCancels(s)
  <2> DEFINE x == [st[s] EXCEPT !.ctx = "cancelled"]
  <2>1. st[s].client = "gone"
    BY <1>0, <1>7 DEF LeavingCancels, StreamOK, Stream
  <2>2. /\ x.client = st[s].client /\ x.ctx = "cancelled"
        /\ x.handler = st[s].handler /\ x.sendErr = st[s].sendErr
        /\ Hands(x) = Hands(st[s]) /\ Wires(x) = Wires(st[s])
        /\ Log(x) = Log(st[s])
    BY <1>0 DEF StreamOK, Stream, Ends, Hands, Wires, Log
  <2>3. x \in Stream
    BY <1>0, <2>1, <2>2 DEF StreamOK, Stream, Ends, Hands, Wires, Log
  <2>4. Update(s, x) /\ died' = died
    BY <1>7 DEF LeavingCancels
  <2> HIDE DEF x
  <2>5. StreamOK(x)
    BY <1>0, <2>1, <2>2, <2>3 DEF StreamOK, HandsOK, ChannelOK, EndOK,
       Ends, Hands, Wires, Log
  <2>6. QED  BY <1>0, <2>4, <2>5, StreamStepKeeps
<1>8. QED  BY <1>1, <1>2, <1>3, <1>4, <1>5, <1>6, <1>7

\* The steps of the goroutine that sends
LEMMA SenderKeeps ==
  ASSUME Inv, ~died, NEW s \in Streams, SenderStep(s)
  PROVE  Inv'
<1>0. StreamOK(st[s]) /\ died \in BOOLEAN
  BY DEF Inv, TypeOK
<1>1. CASE SenderSends(s)
  <2>1. /\ st[s].sender = "sending"
        /\ Append(st[s].delivered, st[s].out) \in Seq(Requests)
    BY <1>0, <1>1 DEF SenderSends, StreamOK, Stream, HandsOK
  <2>2. ASSUME NEW x,
               x = [st[s] EXCEPT !.sender = "select", !.out = None,
                             !.delivered = Append(@, st[s].out)]
        PROVE  StreamOK(x)
    <3>1. /\ Ends(x) = Ends(st[s]) /\ x.sender = "select" /\ x.out = None
          /\ x.reader = st[s].reader /\ x.hand = st[s].hand
          /\ Wires(x) = Wires(st[s]) /\ x.buffer = st[s].buffer
          /\ x.delivered = Append(st[s].delivered, st[s].out)
          /\ x.from = st[s].from /\ x.lost = st[s].lost
      BY <1>0, <2>2 DEF StreamOK, Stream, Ends, Hands, Wires, Log
    <3>2. x \in Stream
      BY <1>0, <2>1, <2>2, <3>1 DEF StreamOK, Stream, Ends, Hands, Wires, Log
    <3>3. QED
      BY <1>0, <2>1, <3>1, <3>2 DEF StreamOK, HandsOK, ChannelOK, EndOK,
         Ends, Hands, Wires, Log
  <2>3. ASSUME NEW x,
               x = [st[s] EXCEPT !.sender = "select", !.out = None]
        PROVE  StreamOK(x)
    <3>1. /\ Ends(x) = Ends(st[s]) /\ x.sender = "select" /\ x.out = None
          /\ x.reader = st[s].reader /\ x.hand = st[s].hand
          /\ Wires(x) = Wires(st[s]) /\ Log(x) = Log(st[s])
      BY <1>0, <2>3 DEF StreamOK, Stream, Ends, Hands, Wires, Log
    <3>2. x \in Stream
      BY <1>0, <2>1, <2>3, <3>1 DEF StreamOK, Stream, Ends, Hands, Wires, Log
    <3>3. QED
      BY <1>0, <2>1, <3>1, <3>2 DEF StreamOK, HandsOK, ChannelOK, EndOK,
         Ends, Hands, Wires, Log
  <2>4. ASSUME NEW x,
               x = [st[s] EXCEPT !.sender = "exited", !.out = None,
                             !.sendErr = "send"]
        PROVE  StreamOK(x)
    <3>1. /\ x.client = st[s].client /\ x.ctx = st[s].ctx
          /\ x.handler = st[s].handler /\ x.sendErr = "send"
          /\ x.sender = "exited" /\ x.out = None /\ x.reader = st[s].reader
          /\ x.hand = st[s].hand /\ Wires(x) = Wires(st[s])
          /\ Log(x) = Log(st[s])
      BY <1>0, <2>4 DEF StreamOK, Stream, Ends, Hands, Wires, Log
    <3>2. x \in Stream
      BY <1>0, <2>1, <2>4, <3>1 DEF StreamOK, Stream, Ends, Hands, Wires, Log
    <3>3. QED
      BY <1>0, <2>1, <3>1, <3>2 DEF StreamOK, HandsOK, ChannelOK, EndOK,
         Ends, Hands, Wires, Log
  <2>5. PICK x : StreamOK(x) /\ Update(s, x) /\ died' = died
    BY <1>1, <2>2, <2>3, <2>4 DEF SenderSends
  <2>6. QED  BY <1>0, <2>5, StreamStepKeeps
<1>2. CASE SenderEnds(s)
  <2> DEFINE x == [st[s] EXCEPT !.sender = "exited"]
  <2>1. /\ st[s].sender = "select"
        /\ st[s].ctx = "cancelled" \/ st[s].channel = "closed"
    BY <1>0, <1>2 DEF SenderEnds, Cancelled, StreamOK, Stream
  <2>2. /\ Ends(x) = Ends(st[s]) /\ x.sender = "exited" /\ x.out = st[s].out
        /\ x.reader = st[s].reader /\ x.hand = st[s].hand
        /\ Wires(x) = Wires(st[s]) /\ Log(x) = Log(st[s])
    BY <1>0 DEF StreamOK, Stream, Ends, Hands, Wires, Log
  <2>3. x \in Stream
    BY <1>0, <2>1, <2>2 DEF StreamOK, Stream, Ends, Hands, Wires, Log
  <2>4. Update(s, x) /\ died' = died
    BY <1>2 DEF SenderEnds
  <2> HIDE DEF x
  <2>5. StreamOK(x)
    BY <1>0, <2>1, <2>2, <2>3 DEF StreamOK, HandsOK, ChannelOK, EndOK,
       Ends, Hands, Wires, Log
  <2>6. QED  BY <1>0, <2>4, <2>5, StreamStepKeeps
<1>3. QED  BY <1>1, <1>2 DEF SenderStep

\* The steps of the goroutine that reads the subscription
LEMMA ReaderKeeps ==
  ASSUME Inv, ~died, NEW s \in Streams, ReaderStep(s) \/ PubsubCloses(s)
  PROVE  Inv'
<1>0. StreamOK(st[s]) /\ died \in BOOLEAN /\ st[s].buffer \in Seq(Requests)
  BY DEF Inv, TypeOK, StreamOK, Stream
<1>1. CASE ReaderTakes(s)
  <2> DEFINE x == [st[s] EXCEPT !.reader = "send", !.hand = Head(st[s].buffer),
                             !.buffer = Tail(@)]
  <2>1. /\ st[s].reader = "recv" /\ Head(st[s].buffer) \in Requests
        /\ Tail(st[s].buffer) \in Seq(Requests)
    BY <1>0, <1>1 DEF ReaderTakes, StreamOK, Stream
  <2>2. /\ Ends(x) = Ends(st[s]) /\ x.sender = st[s].sender
        /\ x.out = st[s].out /\ x.reader = "send"
        /\ x.hand = Head(st[s].buffer) /\ Wires(x) = Wires(st[s])
        /\ x.buffer = Tail(st[s].buffer) /\ x.delivered = st[s].delivered
        /\ x.from = st[s].from /\ x.lost = st[s].lost
    BY <1>0 DEF StreamOK, Stream, Ends, Hands, Wires, Log
  <2>3. x \in Stream
    BY <1>0, <2>1, <2>2 DEF StreamOK, Stream, Ends, Hands, Wires, Log
  <2>4. Update(s, x) /\ died' = died
    BY <1>1 DEF ReaderTakes
  <2> HIDE DEF x
  <2>5. StreamOK(x)
    BY <1>0, <2>1, <2>2, <2>3 DEF StreamOK, HandsOK, ChannelOK, EndOK,
       Ends, Hands, Wires, Log
  <2>6. QED  BY <1>0, <2>4, <2>5, StreamStepKeeps
<1>2. CASE ReaderToSender(s)
  <2> DEFINE x == [st[s] EXCEPT !.reader = "recv", !.hand = None,
                             !.sender = "sending", !.out = st[s].hand]
  <2>1. /\ st[s].reader = "send" /\ st[s].sender = "select"
        /\ st[s].hand \in Requests
    BY <1>0, <1>2 DEF ReaderToSender, HandsOK, StreamOK, Stream
  <2>2. /\ Ends(x) = Ends(st[s]) /\ x.sender = "sending"
        /\ x.out = st[s].hand /\ x.reader = "recv" /\ x.hand = None
        /\ Wires(x) = Wires(st[s]) /\ Log(x) = Log(st[s])
    BY <1>0 DEF StreamOK, Stream, Ends, Hands, Wires, Log
  <2>3. x \in Stream
    BY <1>0, <2>1, <2>2 DEF StreamOK, Stream, Ends, Hands, Wires, Log
  <2>4. Update(s, x) /\ died' = died
    BY <1>2 DEF ReaderToSender
  <2> HIDE DEF x
  <2>5. StreamOK(x)
    BY <1>0, <2>1, <2>2, <2>3 DEF StreamOK, HandsOK, ChannelOK, EndOK,
       Ends, Hands, Wires, Log
  <2>6. QED  BY <1>0, <2>4, <2>5, StreamStepKeeps
<1>3. CASE ReaderSendsOnClosed(s)
  <2>1. st[s].refused
    BY <1>0, <1>3 DEF ReaderSendsOnClosed, StreamOK, ChannelOK
  <2>2. QED
    BY <2>1, <1>3 DEF ReaderSendsOnClosed, Inv, TypeOK, DiesForAReason
<1>4. CASE ReaderExits(s)
  <2> DEFINE x == [st[s] EXCEPT !.reader = "exited", !.channel = "closed"]
  <2>1. /\ st[s].reader = "recv" /\ st[s].pubsub = "closed"
        /\ st[s].channel = "closed" => st[s].refused
    BY <1>0, <1>4 DEF ReaderExits, ChannelOK, StreamOK, Stream
  <2>2. /\ Ends(x) = Ends(st[s]) /\ x.sender = st[s].sender
        /\ x.out = st[s].out /\ x.reader = "exited" /\ x.hand = st[s].hand
        /\ x.channel = "closed" /\ x.refused = st[s].refused
        /\ x.pubsub = st[s].pubsub /\ Log(x) = Log(st[s])
    BY <1>0 DEF StreamOK, Stream, Ends, Hands, Wires, Log
  <2>3. x \in Stream
    BY <1>0, <2>1, <2>2 DEF StreamOK, Stream, Ends, Hands, Wires, Log
  <2>4. Update(s, x) /\ died' = (st[s].channel = "closed")
    BY <1>4 DEF ReaderExits
  <2> HIDE DEF x
  <2>5. StreamOK(x)
    BY <1>0, <2>1, <2>2, <2>3 DEF StreamOK, HandsOK, ChannelOK, EndOK,
       Ends, Hands, Wires, Log
  <2>6. died' \in BOOLEAN /\ (died' => x.refused)
    BY <2>1, <2>2, <2>4 DEF Wires
  <2>7. QED  BY <2>4, <2>5, <2>6, StreamStepKeeps
<1>5. CASE PubsubCloses(s)
  <2>0. PICK n \in 0..Len(st[s].buffer) :
          /\ Update(s, [st[s] EXCEPT !.pubsub = "closed",
                                     !.buffer = SubSeq(@, 1, n)])
          /\ died' = died
    BY <1>5 DEF PubsubCloses
  <2> DEFINE x == [st[s] EXCEPT !.pubsub = "closed", !.buffer = SubSeq(@, 1, n)]
  <2>1. /\ st[s].ctx = "cancelled" /\ st[s].reader # "none"
        /\ SubSeq(st[s].buffer, 1, n) \in Seq(Requests)
    <3>1. st[s].ctx = "cancelled" /\ st[s].reader # "none"
      BY <1>5 DEF PubsubCloses, Cancelled
    <3>2. SubSeq(st[s].buffer, 1, n) \in Seq(Requests)
      BY <1>0, SubSeqProperties
    <3>3. QED  BY <3>1, <3>2
  <2>2. /\ Ends(x) = Ends(st[s]) /\ Hands(x) = Hands(st[s])
        /\ x.channel = st[s].channel /\ x.refused = st[s].refused
        /\ x.pubsub = "closed" /\ x.buffer = SubSeq(st[s].buffer, 1, n)
        /\ x.delivered = st[s].delivered /\ x.from = st[s].from
        /\ x.lost = st[s].lost
    BY <1>0 DEF StreamOK, Stream, Ends, Hands, Wires, Log
  <2>3. x \in Stream
    BY <1>0, <2>1, <2>2 DEF StreamOK, Stream, Ends, Hands, Wires, Log
  <2>4. Update(s, x) /\ died' = died
    BY <2>0
  <2> HIDE DEF x
  <2>5. StreamOK(x)
    BY <1>0, <2>1, <2>2, <2>3 DEF StreamOK, HandsOK, ChannelOK, EndOK,
       Ends, Hands, Wires, Log
  <2>6. QED  BY <1>0, <2>4, <2>5, StreamStepKeeps
<1>6. QED  BY <1>1, <1>2, <1>3, <1>4, <1>5 DEF ReaderStep
---------------------------------------------------------------------------
(* Steps of Send and of the server.                                        *)

\* A PUBLISH adds to what a connection has received, or has lost.
LEMMA ReceivesKeeps ==
  ASSUME NEW s \in Streams, NEW r \in Requests, NEW drop \in SUBSET Streams,
         StreamOK(st[s])
  PROVE  /\ StreamOK(Receives(s, r, drop))
         /\ Receives(s, r, drop).refused = st[s].refused
<1>1. st[s] \in Stream /\ Append(st[s].buffer, r) \in Seq(Requests)
  BY DEF StreamOK, Stream
<1>2. ASSUME NEW x, x = [st[s] EXCEPT !.buffer = Append(@, r)]
      PROVE  StreamOK(x) /\ x.refused = st[s].refused
  <2>1. /\ Ends(x) = Ends(st[s]) /\ Hands(x) = Hands(st[s])
        /\ Wires(x) = Wires(st[s]) /\ x.buffer = Append(st[s].buffer, r)
        /\ x.delivered = st[s].delivered /\ x.from = st[s].from
        /\ x.lost = st[s].lost
    BY <1>1, <1>2 DEF Stream, Ends, Hands, Wires
  <2>2. x \in Stream
    BY <1>1, <1>2, <2>1 DEF Stream, Ends, Hands, Wires
  <2>3. QED
    BY <2>1, <2>2 DEF StreamOK, HandsOK, ChannelOK, EndOK, Ends, Hands, Wires
<1>3. ASSUME NEW x, x = [st[s] EXCEPT !.lost = @ \cup {r}]
      PROVE  StreamOK(x) /\ x.refused = st[s].refused
  <2>1. /\ Ends(x) = Ends(st[s]) /\ Hands(x) = Hands(st[s])
        /\ Wires(x) = Wires(st[s]) /\ x.buffer = st[s].buffer
        /\ x.delivered = st[s].delivered /\ x.from = st[s].from
        /\ x.lost = st[s].lost \cup {r}
    BY <1>1, <1>3 DEF Stream, Ends, Hands, Wires
  <2>2. x \in Stream
    BY <1>1, <1>3, <2>1 DEF Stream, Ends, Hands, Wires
  <2>3. QED
    BY <2>1, <2>2 DEF StreamOK, HandsOK, ChannelOK, EndOK, Ends, Hands, Wires
<1>4. \/ Receives(s, r, drop) = [st[s] EXCEPT !.buffer = Append(@, r)]
      \/ Receives(s, r, drop) = [st[s] EXCEPT !.lost = @ \cup {r}]
  BY DEF Receives
<1>5. QED  BY <1>2, <1>3, <1>4

\* The steps of a notification that is sent
LEMMA SendKeeps ==
  ASSUME Inv, ~died, NEW r \in Requests, CreateNotification(r) \/ SendStep(r)
  PROVE  Inv'
<1>1. CASE Push(r)
  <2>1. PICK drop \in SUBSET Streams :
          st' = [s \in Streams |-> Receives(s, r, drop)]
    BY <1>1 DEF Push
  <2>2. \A s \in Streams : StreamOK(st'[s])
    BY <2>1, ReceivesKeeps DEF Inv
  <2>3. st' \in [Streams -> Stream]
    BY <2>1, <2>2 DEF StreamOK
  <2>4. published' \in Seq(Requests)
    BY <1>1 DEF Push, Inv, TypeOK
  <2>5. TypeOK'
    BY <2>3, <2>4, <1>1 DEF Push, Inv, TypeOK
  <2>6. (\A s \in Streams : StreamOK(st[s]))'
    BY <2>2 DEF StreamOK, HandsOK, ChannelOK, EndOK
  <2>7. DiesForAReason'
    BY <1>1 DEF Push, DiesForAReason
  <2>8. QED  BY <2>5, <2>6, <2>7 DEF Inv
<1>2. CASE EncodeNil(r)
  <2>1. DiesForAReason'
    BY <1>2 DEF EncodeNil, DiesForAReason
  <2>2. QED
    BY <2>1, <1>2 DEF EncodeNil, Inv, TypeOK, StreamOK, HandsOK, ChannelOK, EndOK
<1>3. CASE \/ CreateNotification(r) \/ IsOffline(r) \/ IsOnline(r)
           \/ PushFails(r)
  <2>1. /\ req' \in [Requests -> {"idle", "stored", "unstored", "push", "over"}]
        /\ UNCHANGED <<server, died, online, published, st>>
    BY <1>3 DEF CreateNotification, IsOffline, IsOnline, PushFails, Inv, TypeOK
  <2>2. QED
    BY <2>1 DEF Inv, TypeOK, DiesForAReason, StreamOK, HandsOK, ChannelOK, EndOK
<1>4. QED  BY <1>1, <1>2, <1>3 DEF SendStep

\* The steps of the server as a whole
LEMMA ServerKeeps ==
  ASSUME Inv, ~died,
         SetUserOnline \/ SetUserOffline \/ Signal \/ GracefulStopReturns
  PROVE  Inv'
<1>1. TypeOK'
  <2>1. CASE SetUserOnline
    BY <2>1 DEF SetUserOnline, Inv, TypeOK
  <2>2. CASE SetUserOffline
    BY <2>2 DEF SetUserOffline, Inv, TypeOK
  <2>3. CASE Signal \/ GracefulStopReturns
    BY <2>3 DEF Signal, GracefulStopReturns, Inv, TypeOK
  <2>4. QED  BY <2>1, <2>2, <2>3
<1>2. UNCHANGED <<died, req, st>>
  BY DEF SetUserOnline, SetUserOffline, Signal, GracefulStopReturns
<1>3. QED
  BY <1>1, <1>2 DEF Inv, DiesForAReason, StreamOK, HandsOK, ChannelOK, EndOK
---------------------------------------------------------------------------
\* No stream is open at first.
LEMMA InvInit == Init => Inv
<1> SUFFICES ASSUME Init PROVE Inv
  OBVIOUS
<1>1. NoStream \in Stream
  BY DEF NoStream, Stream
<1>2. StreamOK(NoStream)
  BY <1>1 DEF NoStream, StreamOK, HandsOK, ChannelOK, EndOK
<1>3. published \in Seq(Requests)
  BY DEF Init
<1>4. TypeOK
  BY <1>1, <1>3 DEF Init, TypeOK
<1>5. QED
  BY <1>2, <1>4 DEF Init, Inv, DiesForAReason

\* Every step keeps the invariant.
LEMMA InvNext == Inv /\ [Next]_vars => Inv'
<1> SUFFICES ASSUME Inv, [Next]_vars PROVE Inv'
  OBVIOUS
<1>1. CASE Next
  BY <1>1, HandlerKeeps, SenderKeeps, ReaderKeeps, SendKeeps, ServerKeeps
  DEF Next, Step
<1>2. CASE UNCHANGED vars
  BY <1>2 DEF vars, Inv, TypeOK, DiesForAReason, StreamOK, HandsOK, ChannelOK,
     EndOK
<1>3. QED  BY <1>1, <1>2

\* What the goroutines of a stream know of each other holds in every state.
THEOREM InvCorrect == Spec => []Inv
  BY InvInit, InvNext, PTL DEF Spec

\* Every stream, connection and request has its type.
THEOREM TypeCorrect == Spec => []TypeOK
<1>1. Inv => TypeOK
  BY DEF Inv
<1>2. QED  BY <1>1, InvCorrect, PTL

\* Whatever the order in which reader, closer, sender and handler of any
\* number of streams end, a stream ends without an error only if its client
\* left or Receive failed, and the process ends only after a Receive that
\* failed or for a notification that was not stored (push.go, notifications.go).
THEOREM EndsForAReasonCorrect == Spec => []EndsForAReason
<1>1. Inv => EndsForAReason
  BY DEF Inv, StreamOK, EndOK, DiesForAReason, EndsForAReason
<1>2. QED  BY <1>1, InvCorrect, PTL
=============================================================================
