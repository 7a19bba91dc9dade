---------------------------- MODULE Notifications ----------------------------
(***************************************************************************)
(* How the notifications of one user reach the user, and how the server    *)
(* stops meanwhile:                                                        *)
(*   - the second half of notifications.Manager.Send, run by requests of   *)
(*     other users: INSERT, is the receiver online, push over Redis;       *)
(*   - SetUserOnline and SetUserOffline, one entry of a Redis set per user *)
(*     however many streams the user has;                                  *)
(*   - the streams of the user: the handler ListenForNotifications, the    *)
(*     sender it starts, and the reader and the closer that Subscribe      *)
(*     starts;                                                             *)
(*   - ListenForShutdown and RunServer: a signal begins GracefulStop,      *)
(*     which refuses new calls and waits for those that run.               *)
(* Social has the first half of Send.  A notification is named by the      *)
(* request that sends it.  go-redis, grpc-go and the clients are external. *)
(***************************************************************************)
EXTENDS Naturals, Sequences, SequencesExt

CONSTANTS
  Streams,    \* calls of ListenForNotifications by the user
  Requests,   \* calls of others that notify the user
  None,       \* no notification
  Fails       \* may a statement, a command or the subscription fail?

ASSUME NotificationsAssumption ==
  /\ None \notin Requests
  /\ Fails \in BOOLEAN

VARIABLES
  server,     \* "serving", "draining" in GracefulStop, or "stopped"
  died,       \* has a panic ended the process?
  online,     \* is the user in the set user:online: ?
  published,  \* the requests in the order of their PUBLISH
  req,        \* req[r]: where request r is
  st          \* st[s]: stream s with its goroutines and its connection

vars == <<server, died, online, published, req, st>>

Stream ==
  [client : {"none", "connected", "gone"},
   ctx : {"live", "cancelled"},
   handler : {"none", "waiting", "returned"},
   sendErr : {"nil", "send"},             \* what the handler returns
   sender : {"none", "subscribing", "select", "sending", "exited"},
   out : Requests \cup {None},            \* what the sender has in hand
   reader : {"none", "recv", "send", "exited"},
   hand : Requests \cup {None},           \* what the reader has in hand
   channel : {"open", "closed"},          \* the channel notifications
   refused : BOOLEAN,                     \* did Receive fail?
   pubsub : {"none", "open", "broken", "closed"},
   buffer : Seq(Requests),                \* received and not handed out
   delivered : Seq(Requests),             \* what the client has received
   from : Nat,                            \* history: published before it
   lost : SUBSET Requests]                \* history: what the pubsub lost

NoStream ==
  [client |-> "none", ctx |-> "live", handler |-> "none", sendErr |-> "nil",
   sender |-> "none", out |-> None, reader |-> "none", hand |-> None,
   channel |-> "open", refused |-> FALSE, pubsub |-> "none", buffer |-> <<>>,
   delivered |-> <<>>, from |-> 0, lost |-> {}]

Init ==
  /\ server = "serving"
  /\ died = FALSE
  /\ online = FALSE
  /\ published = <<>>
  /\ req = [r \in Requests |-> "idle"]
  /\ st = [s \in Streams |-> NoStream]

InFlight(r) == req[r] \in {"stored", "unstored", "push"}
Running(s) == st[s].handler = "waiting"
---------------------------------------------------------------------------
(* Faulty variants, each refuted by a property: a pubsub closed, or a      *)
(* sender that ends, without waiting for the context; a reader that drops  *)
(* what nobody waits for; a context nobody looks at.                       *)

CancelledAtOnce(s) == TRUE
NeverCancelled(s) == FALSE
ReaderToSenderOrNobody(s) ==
  /\ st[s].reader = "send" /\ st[s].channel = "open"
  /\ st' = [st EXCEPT ![s].reader = "recv", ![s].hand = None]
  /\ UNCHANGED <<server, died, online, published, req>>
---------------------------------------------------------------------------
(* Send, from the INSERT on.  Its errors are logged by the callers, which  *)
(* answer all the same.                                                    *)

\* createNotification, whose error the next assignment overwrites
CreateNotification(r) ==
  /\ server = "serving"
  /\ req[r] = "idle"
  /\ \E pc \in IF Fails THEN {"stored", "unstored"} ELSE {"stored"} :
       req' = [req EXCEPT ![r] = pc]
  /\ UNCHANGED <<server, died, online, published, st>>

\* SISMEMBER; an error of it, or a user who is not online, ends the call.
IsOffline(r) ==
  /\ req[r] \in {"stored", "unstored"}
  /\ ~online \/ Fails
  /\ req' = [req EXCEPT ![r] = "over"]
  /\ UNCHANGED <<server, died, online, published, st>>

IsOnline(r) ==
  /\ req[r] = "stored"
  /\ online
  /\ req' = [req EXCEPT ![r] = "push"]
  /\ UNCHANGED <<server, died, online, published, st>>

\* Without a row the notification is nil: gob panics on a nil pointer.
EncodeNil(r) ==
  /\ req[r] = "unstored"
  /\ online
  /\ died' = TRUE
  /\ UNCHANGED <<server, online, published, req, st>>

\* What each connection makes of a PUBLISH: go-redis drops a message when
\* the channel is full, and misses it while it reconnects.
Receives(s, r, drop) ==
  IF st[s].pubsub = "open" /\ s \notin drop
    THEN [st[s] EXCEPT !.buffer = Append(@, r)]
    ELSE [st[s] EXCEPT !.lost = @ \cup {r}]

Push(r) ==
  /\ req[r] = "push"
  /\ published' = Append(published, r)
  /\ \E drop \in SUBSET Streams :
       st' = [s \in Streams |-> Receives(s, r, drop)]
  /\ req' = [req EXCEPT ![r] = "over"]
  /\ UNCHANGED <<server, died, online>>

PushFails(r) ==
  /\ Fails
  /\ req[r] = "push"
  /\ req' = [req EXCEPT ![r] = "over"]
  /\ UNCHANGED <<server, died, online, published, st>>

\* SADD and SREM
SetUserOnline ==
  /\ server = "serving" /\ ~online
  /\ online' = TRUE
  /\ UNCHANGED <<server, died, published, req, st>>

SetUserOffline ==
  /\ server = "serving" /\ online
  /\ online' = FALSE
  /\ UNCHANGED <<server, died, published, req, st>>
---------------------------------------------------------------------------
(* A stream.  The sender calls Listen and with it Subscribe, which returns *)
(* when Receive does: the context does not interrupt it.                   *)

Update(s, new) ==
  /\ st' = [st EXCEPT ![s] = new]
  /\ UNCHANGED <<server, online, published, req>>

ListenForNotifications(s) ==
  /\ server = "serving"
  /\ st[s].client = "none"
  /\ Update(s, [st[s] EXCEPT !.client = "connected", !.handler = "waiting",
                             !.sender = "subscribing"])
  /\ UNCHANGED died

\* Redis takes the SUBSCRIBE, or the one of a connection that go-redis has
\* replaced.
Subscribed(s) ==
  /\ \/ st[s].pubsub = "none" /\ st[s].sender = "subscribing"
     \/ st[s].pubsub = "broken"
  /\ Update(s, [st[s] EXCEPT !.pubsub = "open", !.from = Len(published)])
  /\ UNCHANGED died

Confirmed(s) ==
  /\ st[s].sender = "subscribing" /\ st[s].pubsub = "open"
  /\ Update(s, [st[s] EXCEPT !.sender = "select", !.reader = "recv"])
  /\ UNCHANGED died

\* Receive fails: the channel is closed, and the reader, which will close it
\* when it ends, is started all the same.
ReceiveFails(s) ==
  /\ Fails
  /\ st[s].sender = "subscribing"
  /\ Update(s, [st[s] EXCEPT !.refused = TRUE, !.sender = "select",
                             !.reader = "recv", !.channel = "closed",
                             !.pubsub = "broken", !.buffer = <<>>])
  /\ UNCHANGED died

ReaderTakes(s) ==
  /\ st[s].reader = "recv" /\ st[s].buffer # <<>>
  /\ Update(s, [st[s] EXCEPT !.reader = "send", !.hand = Head(st[s].buffer),
                             !.buffer = Tail(@)])
  /\ UNCHANGED died

ReaderToSender(s) ==
  /\ st[s].reader = "send" /\ st[s].channel = "open"
  /\ st[s].sender = "select"
  /\ Update(s, [st[s] EXCEPT !.reader = "recv", !.hand = None,
                             !.sender = "sending", !.out = st[s].hand])
  /\ UNCHANGED died

\* A send on a closed channel panics.
ReaderSendsOnClosed(s) ==
  /\ st[s].reader = "send" /\ st[s].channel = "closed"
  /\ died' = TRUE
  /\ UNCHANGED <<server, online, published, req, st>>

\* The goroutine that waits on ctx.Done(); what had not reached the Go
\* channel yet is dropped.
Cancelled(s) == st[s].ctx = "cancelled"

PubsubCloses(s) ==
  /\ st[s].reader # "none"
  /\ Cancelled(s)
  /\ st[s].pubsub \in {"open", "broken"}
  /\ \E n \in 0..Len(st[s].buffer) :
       Update(s, [st[s] EXCEPT !.pubsub = "closed",
                               !.buffer = SubSeq(@, 1, n)])
  /\ UNCHANGED died

\* The range ends; closing a closed channel panics.
ReaderExits(s) ==
  /\ st[s].reader = "recv"
  /\ st[s].pubsub = "closed" /\ st[s].buffer = <<>>
  /\ died' = (st[s].channel = "closed")
  /\ Update(s, [st[s] EXCEPT !.reader = "exited", !.channel = "closed"])

\* stream.Send; on an error the sender returns.
SenderSends(s) ==
  /\ st[s].sender = "sending"
  /\ \/ /\ st[s].client = "connected" /\ st[s].ctx = "live"
        /\ Update(s, [st[s] EXCEPT !.sender = "select", !.out = None,
                                   !.delivered = Append(@, st[s].out)])
     \/ /\ st[s].client = "gone" \/ st[s].ctx = "cancelled"
        /\ \/ Update(s, [st[s] EXCEPT !.sender = "select", !.out = None])
           \/ Update(s, [st[s] EXCEPT !.sender = "exited", !.out = None,
                                      !.sendErr = "send"])
  /\ UNCHANGED died

\* ctx.Done(), or a channel that is closed
SenderEnds(s) ==
  /\ st[s].sender = "select"
  /\ Cancelled(s) \/ st[s].channel = "closed"
  /\ Update(s, [st[s] EXCEPT !.sender = "exited"])
  /\ UNCHANGED died

\* <-done; the server then cancels the stream's context.
HandlerReturns(s) ==
  /\ st[s].handler = "waiting" /\ st[s].sender = "exited"
  /\ Update(s, [st[s] EXCEPT !.handler = "returned", !.ctx = "cancelled"])
  /\ UNCHANGED died

ClientLeaves(s) ==
  /\ st[s].client = "connected"
  /\ Update(s, [st[s] EXCEPT !.client = "gone"])
  /\ UNCHANGED died

LeavingCancels(s) ==
  /\ st[s].client = "gone" /\ st[s].ctx = "live"
  /\ Update(s, [st[s] EXCEPT !.ctx = "cancelled"])
  /\ UNCHANGED died
---------------------------------------------------------------------------
(* The server.  GracefulStop returns when no handler runs.  The goroutine  *)
(* of the signals then waits for a context that RunServer cancels when it  *)
(* returns, which it never does: the process stays, and no other signal is *)
(* looked at.                                                              *)

Signal ==
  /\ server = "serving"
  /\ server' = "draining"
  /\ UNCHANGED <<died, online, published, req, st>>

Drained == /\ \A s \in Streams : ~Running(s)
           /\ \A r \in Requests : ~InFlight(r)

GracefulStopReturns ==
  /\ server = "draining"
  /\ Drained
  /\ server' = "stopped"
  /\ UNCHANGED <<died, online, published, req, st>>
---------------------------------------------------------------------------
SendStep(r) ==
  \/ IsOffline(r) \/ IsOnline(r) \/ EncodeNil(r) \/ Push(r) \/ PushFails(r)
SenderStep(s) == SenderSends(s) \/ SenderEnds(s)
ReaderStep(s) ==
  \/ ReaderTakes(s) \/ ReaderToSender(s) \/ ReaderSendsOnClosed(s)
  \/ ReaderExits(s)
Answered(s) == st[s].pubsub = "open" /\ (Confirmed(s) \/ ReceiveFails(s))

Step ==
  \/ \E r \in Requests : CreateNotification(r) \/ SendStep(r)
  \/ \E s \in Streams :
       \/ ListenForNotifications(s) \/ Subscribed(s)
       \/ Confirmed(s) \/ ReceiveFails(s)
       \/ ReaderStep(s) \/ SenderStep(s) \/ PubsubCloses(s)
       \/ HandlerReturns(s) \/ ClientLeaves(s) \/ LeavingCancels(s)
  \/ SetUserOnline \/ SetUserOffline
  \/ Signal \/ GracefulStopReturns

Next == ~died /\ Step

Spec == Init /\ [][Next]_vars

\* The scheduler runs every goroutine that can move, the server notices a
\* client that has gone, commands and statements return, and so does Receive
\* once Redis has taken the SUBSCRIBE.  Nothing obliges Redis to take it, a
\* client to leave or anybody to send a signal.
FairSpec ==
  /\ Spec
  /\ \A r \in Requests : WF_vars(~died /\ SendStep(r))
  /\ \A s \in Streams :
       /\ WF_vars(~died /\ Answered(s))
       /\ WF_vars(~died /\ ReaderStep(s))
       /\ WF_vars(~died /\ SenderStep(s))
       /\ WF_vars(~died /\ PubsubCloses(s))
       /\ WF_vars(~died /\ HandlerReturns(s))
       /\ WF_vars(~died /\ LeavingCancels(s))
  /\ WF_vars(~died /\ GracefulStopReturns)
---------------------------------------------------------------------------
(* Properties.                                                             *)

TypeOK ==
  /\ server \in {"serving", "draining", "stopped"}
  /\ died \in BOOLEAN /\ online \in BOOLEAN
  /\ published \in Seq(Requests)
  /\ req \in [Requests -> {"idle", "stored", "unstored", "push", "over"}]
  /\ st \in [Streams -> Stream]

\* A stream ends without an error only if its client left or Receive failed,
\* and the process ends only after a Receive that failed or for a
\* notification that was not stored: the order in which reader, closer and
\* sender end never closes a channel twice or sends on a closed one.
EndsForAReason ==
  /\ \A s \in Streams :
       st[s].handler = "returned" /\ st[s].sendErr = "nil"
         => st[s].client = "gone" \/ st[s].refused
  /\ died => \/ \E s \in Streams : st[s].refused
             \/ \E r \in Requests : req[r] = "unstored"

\* What is pushed to a stream that is subscribed, and that Redis or the
\* client library does not lose, is delivered, unless the client leaves or
\* the process ends; a stream that Receive failed for ends the process.
PushedIsDelivered ==
  \A s \in Streams, r \in Requests :
    (/\ r \in ToSet(SubSeq(published, st[s].from + 1, Len(published)))
     /\ st[s].pubsub = "open" /\ r \notin st[s].lost)
      ~> (r \in ToSet(st[s].delivered) \/ st[s].client = "gone" \/ died)

\* After a signal the server stops once every client has left and Redis has
\* confirmed or refused their subscriptions; a goroutine that is left
\* behind on a channel does not keep it.
StopsWhenClientsLeave ==
  (/\ server = "draining"
   /\ \A s \in Streams : /\ st[s].client # "connected"
                         /\ st[s].sender # "subscribing")
    ~> (server = "stopped" \/ died)
=============================================================================
