---------------------------- MODULE ChatHistory ----------------------------
(***************************************************************************)
(* The history of one conversation and the clients that page through it:   *)
(* usecase.SendMessage (ZADD and PUBLISH) and GetMessages of the use case  *)
(* and the controller in backend/pkg/chat.                                 *)
(*                                                                         *)
(* The sorted set is ordered by CreatedAt in whole seconds, and messages   *)
(* of the same second by their encoding. The handler takes CreatedAt       *)
(* before it waits for the lock, so messages need not be stored in the     *)
(* order of the set, and GetMessages locks another key (the conversation   *)
(* id), which no writer takes: pages are read between any two commands.    *)
(*                                                                         *)
(* A message is the number that its encoding has in the byte order. The    *)
(* client is external: it asks for the next page at the offset given by    *)
(* the number of messages it was given so far, until HasMore is false.     *)
(* What it is sent on its stream may be lost on the way, and the stream    *)
(* may end; Delivery has the goroutines of which this is the outcome.      *)
(***************************************************************************)
EXTENDS Naturals, FiniteSets

CONSTANTS
  Msgs,             \* messages, numbered in the order of their encodings
  Walks,            \* walks of a client through the history
  MessagesLimit,    \* the most messages a response carries
  MaxChatMessages,  \* "the maximum length of messages that can be stored"
  JoinedAt,         \* the second in which the participants joined
  MaxTime           \* bound: the last second of the instance

ASSUME ChatHistoryAssumption ==
  /\ Msgs \subseteq Nat /\ IsFiniteSet(Msgs)
  /\ MessagesLimit \in Nat \ {0} /\ MaxChatMessages \in Nat
  /\ JoinedAt \in Nat /\ MaxTime \in Nat /\ JoinedAt <= MaxTime

VARIABLES
  clock,      \* the second it is
  pc,         \* pc[m]: "idle", "locking", "publishing" or "sent"
  at,         \* at[m]: CreatedAt of m, in seconds
  stored,     \* the members of the sorted set
  published,  \* the messages published
  locked,     \* is the lock of the messages key held?
  walk,       \* walk[w]: the client's walk
  base,       \* history: base[w], what was stored when w began
  listening,  \* listening[w]: w's client has a confirmed subscription
  ahead,      \* history: ahead[w], it has had one since before w began
  heard,      \* heard[w]: what that brought it
  dropped,    \* history: dropped[w], what it lost since w began
  repeated    \* history: walks that were given a message twice

messages == <<pc, at, stored, published, locked>>
walks == <<walk, base, listening, ahead, heard, dropped, repeated>>
vars == <<clock, pc, at, stored, published, locked, walk, base, listening,
          ahead, heard, dropped, repeated>>

WalkState == [pc : {"idle", "reading", "done"}, offset : Nat, got : SUBSET Msgs]

Init ==
  /\ clock = JoinedAt
  /\ pc = [m \in Msgs |-> "idle"]
  /\ at = [m \in Msgs |-> 0]
  /\ stored = {} /\ published = {} /\ locked = FALSE
  /\ walk = [w \in Walks |-> [pc |-> "idle", offset |-> 0, got |-> {}]]
  /\ base = [w \in Walks |-> {}]
  /\ listening = [w \in Walks |-> FALSE]
  /\ ahead = [w \in Walks |-> FALSE]
  /\ heard = [w \in Walks |-> {}]
  /\ dropped = [w \in Walks |-> {}]
  /\ repeated = {}
---------------------------------------------------------------------------
(* What a subscription brings.                                             *)

\* Of those who listen, some receive m; the connections, go-redis or the
\* streams of the others drop it.
Reaches(m) ==
  \E reached \in SUBSET {w \in Walks : listening[w]} :
    /\ heard' = [w \in Walks |-> IF w \in reached THEN heard[w] \cup {m}
                                                 ELSE heard[w]]
    /\ dropped' = [w \in Walks |-> IF ahead[w] /\ w \notin reached
                                     THEN dropped[w] \cup {m}
                                     ELSE dropped[w]]
---------------------------------------------------------------------------
(* ZRANGEBYSCORE JoinedAt +inf LIMIT offset MessagesLimit+1.               *)

Precedes(m, n) == at[m] < at[n] \/ (at[m] = at[n] /\ m < n)

Visible == {m \in stored : at[m] >= JoinedAt}

Rank(m) == Cardinality({n \in Visible : Precedes(n, m)})

\* Faulty variants, each refuted by a property: a page that starts one too
\* early, no message asked for beyond the limit, PUBLISH before ZADD.
FetchedEarly(offset) ==
  {m \in Visible : offset <= Rank(m) + 1 /\ Rank(m) < offset + MessagesLimit + 1}

FetchedToLimit(offset) ==
  {m \in Visible : offset <= Rank(m) /\ Rank(m) < offset + MessagesLimit}

StampAndPublish(m) ==
  /\ pc[m] = "idle"
  /\ pc' = [pc EXCEPT ![m] = "locking"]
  /\ at' = [at EXCEPT ![m] = clock]
  /\ published' = published \cup {m}
  /\ Reaches(m)
  /\ UNCHANGED <<clock, stored, locked, walk, base, listening, ahead, repeated>>

Fetched(offset) ==
  {m \in Visible : offset <= Rank(m) /\ Rank(m) < offset + MessagesLimit + 1}

\* One more than the limit was asked for, to know whether there is more.
HasMore(offset) == Cardinality(Fetched(offset)) > MessagesLimit

\* The controller drops the last one when there is more.
Page(offset) ==
  IF HasMore(offset)
    THEN {m \in Fetched(offset) : \E n \in Fetched(offset) : Precedes(m, n)}
    ELSE Fetched(offset)
---------------------------------------------------------------------------
(* SendMessage.                                                            *)

Tick ==
  /\ clock < MaxTime
  /\ clock' = clock + 1
  /\ UNCHANGED <<messages, walks>>

\* The handler stamps the message; it then waits for the lock.
Stamp(m) ==
  /\ pc[m] = "idle"
  /\ pc' = [pc EXCEPT ![m] = "locking"]
  /\ at' = [at EXCEPT ![m] = clock]
  /\ UNCHANGED <<clock, stored, published, locked, walks>>

\* Lock, ZADD
Store(m) ==
  /\ pc[m] = "locking"
  /\ ~locked
  /\ stored' = stored \cup {m}
  /\ pc' = [pc EXCEPT ![m] = "publishing"]
  /\ locked' = TRUE
  /\ UNCHANGED <<clock, at, published, walks>>

\* PUBLISH, or its failure, and the deferred unlock
Publish(m) ==
  /\ pc[m] = "publishing"
  /\ pc' = [pc EXCEPT ![m] = "sent"]
  /\ locked' = FALSE
  /\ \/ published' = published \cup {m} /\ Reaches(m)
     \/ UNCHANGED <<published, heard, dropped>>
  /\ UNCHANGED <<clock, at, stored, walk, base, listening, ahead, repeated>>
---------------------------------------------------------------------------
(* The clients.                                                            *)

Listen(w) ==
  /\ ~listening[w]
  /\ listening' = [listening EXCEPT ![w] = TRUE]
  /\ UNCHANGED <<clock, messages, walk, base, ahead, heard, dropped, repeated>>

\* The stream of w ends. Only one that began before the walk is followed to
\* its end: nothing is claimed of the others.
Leave(w) ==
  /\ ahead[w]
  /\ listening' = [listening EXCEPT ![w] = FALSE]
  /\ ahead' = [ahead EXCEPT ![w] = FALSE]
  /\ UNCHANGED <<clock, messages, walk, base, heard, dropped, repeated>>

Begin(w) ==
  /\ walk[w].pc = "idle"
  /\ walk' = [walk EXCEPT ![w].pc = "reading"]
  /\ base' = [base EXCEPT ![w] = Visible]
  /\ ahead' = [ahead EXCEPT ![w] = listening[w]]
  /\ UNCHANGED <<clock, messages, listening, heard, dropped, repeated>>

GetMessages(w) ==
  LET offset == walk[w].offset
      page == Page(offset)
  IN
  /\ walk[w].pc = "reading"
  /\ walk' = [walk EXCEPT
       ![w].offset = offset + Cardinality(page),
       ![w].got = @ \cup page,
       ![w].pc = IF HasMore(offset) THEN "reading" ELSE "done"]
  /\ repeated' = IF page \cap walk[w].got # {} THEN repeated \cup {w}
                                               ELSE repeated
  /\ UNCHANGED <<clock, messages, base, listening, ahead, heard, dropped>>

Finished ==
  /\ \A m \in Msgs : pc[m] = "sent"
  /\ \A w \in Walks : walk[w].pc = "done" /\ listening[w]
  /\ clock = MaxTime
  /\ UNCHANGED vars

Next ==
  \/ Tick
  \/ \E m \in Msgs : Stamp(m) \/ Store(m) \/ Publish(m)
  \/ \E w \in Walks : Listen(w) \/ Leave(w) \/ Begin(w) \/ GetMessages(w)
  \/ Finished

Spec == Init /\ [][Next]_vars
---------------------------------------------------------------------------
(* Properties.                                                             *)

\* A walk that has reached the end was given every message that was stored
\* when it began, although messages arrive between its pages, even before
\* its offset: a page boundary never falls past a message.
WalkMissesNothing ==
  \A w \in Walks : walk[w].pc = "done" => base[w] \subseteq walk[w].got

\* Because ZADD comes before PUBLISH, a client that walks through the
\* history while it is subscribed, from before it began, misses a published
\* message only if the subscription lost it after the walk began: what it
\* lost earlier the walk has brought, and between the two nothing is missed.
ListenerMissesNothing ==
  \A w \in Walks :
    walk[w].pc = "done" /\ ahead[w]
      => published \subseteq walk[w].got \cup heard[w] \cup dropped[w]

\* A walk repeats a message only if one that sorts before it was stored
\* meanwhile: a message of an earlier second that waited for the lock, or
\* one of the same second with a smaller encoding.
RepeatsOnlyIfOvertaken ==
  \A w \in repeated :
    \E m \in walk[w].got : \E n \in Visible \ base[w] : Precedes(n, m)

\* "MaxChatMessages denotes the maximum length of messages that can be
\* stored in the redis sorted set" (conversation.go); nothing enforces it.
HistoryBounded == Cardinality(stored) <= MaxChatMessages
=============================================================================
