------------------------------- MODULE Chat -------------------------------
(***************************************************************************)
(* The chat of the backend on its Redis store: backend/pkg/chat (usecase,  *)
(* controller, conversation), backend/pkg/lock and the chat handlers of    *)
(* backend/pkg/service/v1/chat.go.                                         *)
(*                                                                         *)
(* What Redis keeps for a conversation c:                                  *)
(*   - a copy of it in the hash of each participant (`rows`), which holds  *)
(*     that participant's count of unread messages (`unread`);             *)
(*   - the sorted set of its messages (`log` lists them in ZADD order);    *)
(*   - a pubsub channel (`pub` lists what was published on it);            *)
(* and, for any string k, the key "conversations:active"+k (`active`).     *)
(*                                                                         *)
(* Every Redis command is one step, so that the commands of concurrent     *)
(* handlers interleave as they do in the program. When RedisFails, a       *)
(* command may return an error (the client left and the request's context  *)
(* was cancelled, or the connection broke); a write that returned an error *)
(* may have been applied.                                                  *)
(***************************************************************************)
EXTENDS Naturals, Sequences, FiniteSets

CONSTANTS
  Users,        \* user ids
  Convs,        \* conversation ids
  Sends,        \* SendMessage requests, each with the message it carries
  Streams,      \* ListenForMessages requests
  None,         \* no value: an absent key, a free lock, no user
  RedisFails    \* may a Redis command return an error?

ASSUME ChatAssumption ==
  /\ IsFiniteSet(Sends)
  /\ Users \cap Convs = {}
  /\ None \notin Users \cup Convs \cup Sends
  /\ RedisFails \in BOOLEAN

VARIABLES
  members,   \* members[c]: the Participants encoded in every copy of c
  creating,  \* creating[c]: progress of CreateConversation for c
  rows,      \* the <<user, conversation>> pairs that have a copy in Redis
  unread,    \* unread[<<u, c>>]: UnreadMessagesCount of that copy
  active,    \* active[k]: value of the key "conversations:active"+k
  log,       \* log[c]: the messages of c's sorted set, in ZADD order
  pub,       \* pub[c]: the messages published on c's channel
  holder,    \* holder[c]: the request that holds the lock of c's messages key
  snd,       \* snd[s]: the SendMessage request s
  str,       \* str[l]: the ListenForMessages request l
  counted,   \* history: <<u, s>> when s was added to u's unread count
  since,     \* history: messages counted for a copy since it was last read
  stale,     \* history: requests whose read count was overwritten since
  raced      \* history: copies a stale count was written to since last read

redis == <<rows, unread, active, log, pub>>
history == <<counted, since, stale, raced>>
vars == <<members, creating, rows, unread, active, log, pub, holder, snd, str,
          counted, since, stale, raced>>

Pairs == Users \X Convs
Keys == Users \cup Convs

SendPC == {"idle", "lock", "store", "publish", "members", "active", "bump",
           "write", "ok", "err", "lost"}
StreamPC == {"idle", "write", "setactive", "setactive_failed", "open",
             "failed", "closed"}

SendRequest ==
  [pc : SendPC, user : Users \cup {None}, conv : Convs \cup {None},
   todo : SUBSET Users, inactive : SUBSET Users,
   cur : Users \cup {None}, val : Nat]

StreamRequest ==
  [pc : StreamPC, user : Users \cup {None}, conv : Convs \cup {None}]

Init ==
  /\ members = [c \in Convs |-> {}]
  /\ creating = [c \in Convs |-> {}]
  /\ rows = {}
  /\ unread = [p \in Pairs |-> 0]
  /\ active = [k \in Keys |-> None]
  /\ log = [c \in Convs |-> <<>>]
  /\ pub = [c \in Convs |-> <<>>]
  /\ holder = [c \in Convs |-> None]
  /\ snd = [s \in Sends |-> [pc |-> "idle", user |-> None, conv |-> None,
                             todo |-> {}, inactive |-> {},
                             cur |-> None, val |-> 0]]
  /\ str = [l \in Streams |-> [pc |-> "idle", user |-> None, conv |-> None]]
  /\ counted = {}
  /\ since = [p \in Pairs |-> 0]
  /\ stale = {}
  /\ raced = {}
---------------------------------------------------------------------------
(* What Redis and the lock table say.                                      *)

Stored(c) == {log[c][i] : i \in 1..Len(log[c])}

\* The messages of c that have been added to u's unread count.
CountedIn(u, c) == {s \in Sends : <<u, s>> \in counted /\ snd[s].conv = c}

\* The requests between the HGET and the HSET of u's copy of c.
Incrementing(u, c) ==
  {s \in Sends : /\ snd[s].pc = "write"
                 /\ snd[s].cur = u
                 /\ snd[s].conv = c}

\* Faulty variants, each refuted by a property: the unlock forgotten, the
\* lock taken as a reader, a missing conversation taken for one without
\* inactive users, the count stored wrongly.
UnlockForgotten(s) == holder' = holder

SendRLock(s) ==
  /\ snd[s].pc = "lock"
  /\ holder' = [holder EXCEPT ![snd[s].conv] = s]
  /\ snd' = [snd EXCEPT ![s].pc = "store"]
  /\ UNCHANGED <<members, creating, redis, history, str>>

SendMembersOrNone(s) ==
  LET c == snd[s].conv
      found == <<snd[s].user, c>> \in rows
  IN
  /\ snd[s].pc = "members"
  /\ snd' = [snd EXCEPT ![s].pc = IF found THEN "active" ELSE "ok",
                        ![s].todo = IF found THEN members[c] ELSE {}]
  /\ UNCHANGED <<members, creating, redis, history, holder, str>>

HSetOther(r, u, c, n) ==
  /\ unread' = [unread EXCEPT ![<<u, c>>] = n]
  /\ stale' = (stale \cup Incrementing(u, c)) \ {r}

HSetTwice(r, u, c, n) == HSetOther(r, u, c, IF n = 0 THEN 0 ELSE n + 1)
HSetUnchanged(r, u, c, n) == HSetOther(r, u, c, unread[<<u, c>>])

\* deferred unlock() of usecase.SendMessage
Unlock(s) == holder' = [holder EXCEPT ![snd[s].conv] = None]

Goto(s, pc) == snd' = [snd EXCEPT ![s].pc = pc]

\* HSET of u's copy of c with the count n by the request r: every other
\* request that has read the copy now holds an outdated count.
HSetCount(r, u, c, n) ==
  /\ unread' = [unread EXCEPT ![<<u, c>>] = n]
  /\ stale' = (stale \cup Incrementing(u, c)) \ {r}

---------------------------------------------------------------------------
(* CreateConversation: conversation.New makes the id and the participants, *)
(* then one HSET per participant, in any order (a Go map is iterated).     *)

CreateConversation(c, u, v) ==
  /\ members[c] = {}
  /\ members' = [members EXCEPT ![c] = {u, v}]
  /\ creating' = [creating EXCEPT ![c] = {u, v}]
  /\ UNCHANGED <<redis, history, holder, snd, str>>

StoreCopy(c, u) ==
  /\ u \in creating[c]
  /\ rows' = rows \cup {<<u, c>>}
  /\ HSetCount(None, u, c, 0)
  /\ \/ creating' = [creating EXCEPT ![c] = @ \ {u}]
     \/ RedisFails /\ creating' = [creating EXCEPT ![c] = {}]
  /\ UNCHANGED <<members, active, log, pub, holder, snd, str,
                 counted, since, raced>>

CreateFails(c) ==
  /\ RedisFails
  /\ creating[c] # {}
  /\ creating' = [creating EXCEPT ![c] = {}]
  /\ UNCHANGED <<members, redis, history, holder, snd, str>>

---------------------------------------------------------------------------
(* SendMessage. The service handler stamps the message, the use case       *)
(* stores and publishes it under the lock of the messages key, and the     *)
(* controller then counts it for the inactive participants.                *)

SendBegin(s, u, c) ==
  /\ snd[s].pc = "idle"
  /\ snd' = [snd EXCEPT ![s].pc = "lock", ![s].user = u, ![s].conv = c]
  /\ UNCHANGED <<members, creating, redis, history, holder, str>>

SendLock(s) ==
  /\ snd[s].pc = "lock"
  /\ holder[snd[s].conv] = None
  /\ holder' = [holder EXCEPT ![snd[s].conv] = s]
  /\ Goto(s, "store")
  /\ UNCHANGED <<members, creating, redis, history, str>>

\* ZADD
SendStore(s) ==
  /\ snd[s].pc = "store"
  /\ log' = [log EXCEPT ![snd[s].conv] = Append(@, s)]
  /\ \/ Goto(s, "publish") /\ UNCHANGED holder
     \/ RedisFails /\ Goto(s, "err") /\ Unlock(s)
  /\ UNCHANGED <<members, creating, rows, unread, active, pub, history, str>>

\* PUBLISH, and the deferred unlock as the use case returns
SendPublish(s) ==
  /\ snd[s].pc = "publish"
  /\ pub' = [pub EXCEPT ![snd[s].conv] = Append(@, s)]
  /\ Unlock(s)
  /\ \/ Goto(s, "members")
     \/ RedisFails /\ Goto(s, "err")
  /\ UNCHANGED <<members, creating, rows, unread, active, log, history, str>>

\* GetConversationInactiveUsers: HGET of the sender's own copy, which fails
\* with redis.Nil when the sender has none.
SendMembers(s) ==
  LET c == snd[s].conv IN
  /\ snd[s].pc = "members"
  /\ \/ /\ <<snd[s].user, c>> \in rows
        /\ snd' = [snd EXCEPT ![s].pc = "active", ![s].todo = members[c]]
     \/ /\ <<snd[s].user, c>> \notin rows
        /\ Goto(s, "err")
  /\ UNCHANGED <<members, creating, redis, history, holder, str>>

\* GET of the active conversation of one participant, the sender included. A
\* GET that fails returns an empty value too, which the first case of the
\* switch takes for a user without active conversation: no error comes of it.
SendActive(s, p) ==
  LET todo == snd[s].todo \ {p}
      look(inactive) ==
        snd' = [snd EXCEPT
          ![s].todo = todo,
          ![s].inactive = inactive,
          ![s].pc = IF todo # {} THEN "active"
                    ELSE IF inactive # {} THEN "bump" ELSE "ok"]
  IN
  /\ snd[s].pc = "active"
  /\ p \in snd[s].todo
  /\ \/ active[p] = snd[s].conv /\ look(snd[s].inactive)
     \/ /\ active[p] # snd[s].conv \/ RedisFails
        /\ look(snd[s].inactive \cup {p})
  /\ UNCHANGED <<members, creating, redis, history, holder, str>>

\* IncrementInactiveUserMsgsCount, HGET: redis.Nil ends the whole request
BumpRead(s, p) ==
  LET c == snd[s].conv IN
  /\ snd[s].pc = "bump"
  /\ p \in snd[s].inactive
  /\ \/ /\ <<p, c>> \in rows
        /\ snd' = [snd EXCEPT ![s].pc = "write", ![s].cur = p,
                              ![s].val = unread[<<p, c>>]]
     \/ /\ <<p, c>> \notin rows
        /\ Goto(s, "err")
  /\ UNCHANGED <<members, creating, redis, history, holder, str>>

\* IncrementInactiveUserMsgsCount, HSET of the count read plus one
BumpWrite(s) ==
  LET c == snd[s].conv
      p == snd[s].cur
      left == snd[s].inactive \ {p}
      finish(pc) == snd' = [snd EXCEPT ![s].pc = pc, ![s].inactive = left,
                                       ![s].cur = None, ![s].val = 0]
  IN
  /\ snd[s].pc = "write"
  /\ HSetCount(s, p, c, snd[s].val + 1)
  /\ counted' = counted \cup {<<p, s>>}
  /\ since' = [since EXCEPT ![<<p, c>>] = @ + 1]
  /\ raced' = IF s \in stale THEN raced \cup {<<p, c>>} ELSE raced
  /\ \/ finish(IF left # {} THEN "bump" ELSE "ok")
     \/ RedisFails /\ finish("err")
  /\ UNCHANGED <<members, creating, rows, active, log, pub, holder, str>>

\* A Redis command of s returns an error without having been applied.
SendFails(s) ==
  /\ RedisFails
  /\ snd[s].pc \in {"store", "publish", "members", "bump", "write"}
  /\ Goto(s, "err")
  /\ stale' = stale \ {s}
  /\ IF snd[s].pc \in {"store", "publish"} THEN Unlock(s)
                                           ELSE UNCHANGED holder
  /\ UNCHANGED <<members, creating, redis, counted, since, raced, str>>

---------------------------------------------------------------------------
(* ListenForMessages, as far as Redis keys are concerned: mark the         *)
(* conversation read, set the active conversation, stream, clear it. The   *)
(* goroutines of the stream are modelled in ChatStream.                    *)

\* ReadConversationMessages, HGET
StreamRead(l, u, c) ==
  /\ str[l].pc = "idle"
  /\ \/ /\ <<u, c>> \in rows
        /\ str' = [str EXCEPT ![l] = [pc |-> "write", user |-> u, conv |-> c]]
     \/ /\ <<u, c>> \notin rows \/ RedisFails
        /\ str' = [str EXCEPT ![l] = [pc |-> "setactive_failed", user |-> u,
                                      conv |-> c]]
  /\ UNCHANGED <<members, creating, redis, history, holder, snd>>

\* ReadConversationMessages, HSET of a zero count
StreamWrite(l) ==
  LET u == str[l].user
      c == str[l].conv
  IN
  /\ str[l].pc = "write"
  /\ HSetCount(None, u, c, 0)
  /\ since' = [since EXCEPT ![<<u, c>>] = 0]
  /\ raced' = raced \ {<<u, c>>}
  /\ \/ str' = [str EXCEPT ![l].pc = "setactive"]
     \/ RedisFails /\ str' = [str EXCEPT ![l].pc = "setactive_failed"]
  /\ UNCHANGED <<members, creating, rows, active, log, pub, holder, snd,
                 counted>>

StreamWriteFails(l) ==
  /\ RedisFails
  /\ str[l].pc = "write"
  /\ str' = [str EXCEPT ![l].pc = "setactive_failed"]
  /\ UNCHANGED <<members, creating, redis, history, holder, snd>>

\* SetActiveConversation(ctx, req.Channel, req.Channel): the key is built
\* from the channel, not from the user; its error is ignored, and a failed
\* read does not skip it.
StreamSetActive(l) ==
  LET c == str[l].conv IN
  /\ \/ /\ str[l].pc = "setactive"
        /\ str' = [str EXCEPT ![l].pc = "open"]
     \/ /\ str[l].pc = "setactive_failed"
        /\ str' = [str EXCEPT ![l].pc = "failed"]
  /\ \/ active' = [active EXCEPT ![c] = c]
     \/ RedisFails /\ UNCHANGED active
  /\ UNCHANGED <<members, creating, rows, unread, log, pub, history, holder,
                 snd>>

\* The handler returns; the deferred GETDEL of the user's key runs under the
\* stream's context and is not sent when that context is cancelled already.
StreamClose(l) ==
  /\ str[l].pc \in {"open", "failed"}
  /\ str' = [str EXCEPT ![l].pc = "closed"]
  /\ \/ active' = [active EXCEPT ![str[l].user] = None]
     \/ UNCHANGED active
  /\ UNCHANGED <<members, creating, rows, unread, log, pub, history, holder,
                 snd>>

---------------------------------------------------------------------------
(* The process dies (a panic in a goroutine takes every request with it)   *)
(* and is restarted: locks and requests are lost, Redis is kept.           *)

InFlight(s) == snd[s].pc \notin {"idle", "ok", "err", "lost"}

Crash ==
  /\ \/ \E s \in Sends : InFlight(s)
     \/ \E l \in Streams : str[l].pc \notin {"idle", "closed"}
     \/ \E c \in Convs : creating[c] # {}
  /\ snd' = [s \in Sends |->
               IF InFlight(s) THEN [snd[s] EXCEPT !.pc = "lost"] ELSE snd[s]]
  /\ str' = [l \in Streams |->
               IF str[l].pc # "idle" THEN [str[l] EXCEPT !.pc = "closed"]
                                     ELSE str[l]]
  /\ creating' = [c \in Convs |-> {}]
  /\ holder' = [c \in Convs |-> None]
  /\ stale' = {}
  /\ UNCHANGED <<members, redis, counted, since, raced>>

\* Nothing is left to do: the requests of the instance are used up.
Finished ==
  /\ \A s \in Sends : snd[s].pc \in {"ok", "err", "lost"}
  /\ \A l \in Streams : str[l].pc = "closed"
  /\ \A c \in Convs : members[c] # {} /\ creating[c] = {}
  /\ UNCHANGED vars

SendStep(s) ==
  \/ SendLock(s) \/ SendStore(s) \/ SendPublish(s) \/ SendMembers(s)
  \/ \E p \in Users : SendActive(s, p) \/ BumpRead(s, p)
  \/ BumpWrite(s) \/ SendFails(s)

StreamStep(l) ==
  StreamWrite(l) \/ StreamWriteFails(l) \/ StreamSetActive(l) \/ StreamClose(l)

CreateStep(c) == CreateFails(c) \/ \E u \in Users : StoreCopy(c, u)

Next ==
  \/ \E c \in Convs : \E u, v \in Users : CreateConversation(c, u, v)
  \/ \E c \in Convs : CreateStep(c)
  \/ \E s \in Sends : SendStep(s)
  \/ \E s \in Sends, u \in Users, c \in Convs : SendBegin(s, u, c)
  \/ \E l \in Streams : StreamStep(l)
  \/ \E l \in Streams, u \in Users, c \in Convs : StreamRead(l, u, c)
  \/ Crash
  \/ Finished

Spec == Init /\ [][Next]_vars

\* The scheduler runs every request, every Redis command returns, and a
\* mutex that keeps being released is eventually given to each waiter.
FairSpec == Spec /\ \A s \in Sends : WF_vars(SendStep(s))

---------------------------------------------------------------------------
(* Properties.                                                             *)

\* Type invariant.
TypeOK ==
  /\ members \in [Convs -> SUBSET Users]
  /\ creating \in [Convs -> SUBSET Users]
  /\ rows \subseteq Pairs
  /\ unread \in [Pairs -> Nat]
  /\ active \in [Keys -> Convs \cup {None}]
  /\ log \in [Convs -> Seq(Sends)]
  /\ pub \in [Convs -> Seq(Sends)]
  /\ holder \in [Convs -> Sends \cup {None}]
  /\ snd \in [Sends -> SendRequest]
  /\ str \in [Streams -> StreamRequest]
  /\ counted \subseteq Users \X Sends
  /\ since \in [Pairs -> Nat]
  /\ stale \subseteq Sends
  /\ raced \subseteq Pairs
  /\ \A s \in Sends : snd[s].pc # "idle" =>
       snd[s].user \in Users /\ snd[s].conv \in Convs
  /\ \A s \in Sends : snd[s].pc = "write" => snd[s].cur \in Users
  /\ \A l \in Streams : str[l].pc # "idle" =>
       str[l].user \in Users /\ str[l].conv \in Convs

\* The unread count of a copy never exceeds the messages stored in its
\* conversation, whatever increments overlap: IncrementInactiveUserMsgsCount
\* reads and writes back without a lock, so it may lose a message but it
\* never invents one.
UnreadBounded ==
  \A u \in Users, c \in Convs : unread[<<u, c>>] <= Cardinality(Stored(c))

\* Lost updates never hide that there is something to read: once a message
\* has been counted after the last read, the count is not zero.
BadgeShows ==
  \A p \in Pairs : since[p] > 0 => unread[p] > 0

\* The count is exactly the number of messages counted since the last read
\* unless an increment wrote over a change it had not seen.
ExactUnlessRaced ==
  \A p \in Pairs : p \notin raced => unread[p] = since[p]

\* What SendMessage acknowledged is stored, was published, and was counted
\* for every participant that was not on the conversation: no error on the
\* way is swallowed.
AcknowledgedIsComplete ==
  \A s \in Sends : snd[s].pc = "ok" =>
    LET c == snd[s].conv IN
    /\ s \in Stored(c)
    /\ \E i \in 1..Len(pub[c]) : pub[c][i] = s
    /\ \A p \in members[c] : active[p] # c => <<p, s>> \in counted

\* The lock of the messages key spans ZADD and PUBLISH: subscribers hear the
\* messages of a conversation in the order they were stored, and hear nothing
\* that is not in the history.
PublishedInStoreOrder ==
  \A c \in Convs : \A j \in 1..Len(pub[c]) :
    \E i \in 1..Len(log[c]) :
      /\ log[c][i] = pub[c][j]
      /\ \A k \in 1..j : \E h \in 1..i : log[c][h] = pub[c][k]

\* A SendMessage that was started returns, with or without an error: no
\* error path keeps the lock.
SendsReturn ==
  \A s \in Sends : (snd[s].pc = "lock") ~> ~InFlight(s)

(***************************************************************************)
(* Two statements of the repository that the code does not keep.           *)
(***************************************************************************)

\* "SetActiveConversation sets the user active conversation in a redis set"
\* (usecase.go), called by ListenForMessages to "Set active conversation": a
\* user whose stream is open has the streamed conversation as active.
ListenerIsActive ==
  \A l \in Streams :
    str[l].pc = "open" => active[str[l].user] = str[l].conv

\* TestMessages sends to a fresh channel, no conversation being stored, and
\* requires a nil error: without a Redis failure SendMessage succeeds.
SendSucceeds == \A s \in Sends : snd[s].pc # "err"
=============================================================================
