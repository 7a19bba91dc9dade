# unpaper: a verification project

unpaper is a social network with chat, paid plans, rooms and donations. This
directory holds TLA+ modules for its backend, the TLC configurations that check
them on small instances, and theorems that the TLA+ proof system (TLAPS) checks
for every instance. Paths below are relative to `src/`; `service/v1` stands for
`backend/pkg/service/v1`.

## 1. The system

```
 browser --grpc-web--> Envoy --Check--> extauth            (session cookie -> x-user-id)
                         |
                         +--> backend (gRPC, service/v1) --> Postgres, Redis, Stripe
                         ^
 Stripe --webhooks-------+
```

Several requests run at once, each in a goroutine of its own; a streaming RPC
runs several. No interceptor recovers from panics (`backend/pkg/cmd/server.go`):
a panic in any goroutine ends the process and every request in flight. Redis and
Postgres execute single commands atomically. Nothing in the code uses MULTI, Lua,
WATCH or an SQL transaction, so every sequence of commands interleaves with
those of other requests and can stop in the middle; this is where most of the
behaviour worth checking lies.

### Components

| component | code | state it keeps | operations | what makes it correct |
|---|---|---|---|---|
| Chat | `backend/pkg/chat`, `service/v1/chat.go` | Redis: a copy of the conversation with an unread count per participant, a sorted set of messages, a pubsub channel, the active conversation per user | CreateConversation, SendMessage (SendAward, SendDonation and SendAudio make the same call), the read that opens a stream | a count neither invents messages nor hides that there are any; what is acknowledged is stored, published and counted; subscribers hear the order of the store |
| Chat streams | `service/v1/chat.go:28-84`, `controller.go:71-88`, `usecase.go:29-64` | four goroutines, three channels, a pubsub connection | ListenForMessages | messages arrive in order and without a gap of the server's making; the stream ends when the client leaves; an error is an error |
| Chat history | `usecase.go:93-129`, `controller.go:45-69` | the sorted set, the client's offset | GetMessages | no page boundary loses a message; history and stream together have what the stream did not lose meanwhile |
| Keyed locks | `backend/pkg/lock` | one in-memory RW mutex per key | Lock, RLock | every path releases |
| Sessions | `core/session`, `extauth/middleware`, `extauth/.../SignOut` | Redis: session id → user with a lifetime, user → set of session ids | SetNew, HasSession, TTL, RenewSession, GetUserBySID, Delete, Sync | an answer names the user of the cookie; a sign-out ends its sign-in, but for renewals under way; a renewal replaces |
| Accounts | `service/v1/auth.go`, `backend/users` | Postgres: users, customers; Stripe: customers, subscriptions | EmailSignup, Google sign-in, EmailSignin, UpdateUsername | one customer per user; one account per mailbox; who was here is signed in |
| Passwords | `service/v1/auth.go:383-700` | Postgres: password, email_verified, password_changed_at | EmailSignin, EmailVerify, ChangePassword, ResetPassword | what is permitted needed a current password; the last change holds |
| Social | `service/v1/posts.go`, `auth.go:788-863`, `backend/posts`, `backend/follows` | Postgres: a counter and an array of likers per post, two dates per follow | LikePost, LikeComment, CreateComment, FollowUser | counter and array agree; the last write decides who follows |
| Notifications | `backend/pkg/notifications`, `usersession` | Postgres: notifications; Redis: users online, a channel per user | Send, ListenForNotifications, SetUserOnline/Offline | each interaction is notified, not too often; what is pushed to who is online arrives; a stream ends for a reason |
| Platform billing | `service/v1/payment.go`, `backend/pkg/stripeservice`, `backend/customers`, `backend/pkg/webhook/stripe.go` | Postgres: customer, subscription, price, default card; Stripe holds the truth | SubscribeToPlan, UpdateSubscription, AttachPaymentMethod, RetryInvoice, the webhook payment_method.attached | rows agree with Stripe; one trial |
| Donations, cards of a donor | `payment.go:514-586`, `stripeservice.go:497-560`, `webhook/stripe.go` | Stripe: the donor's cards on the platform, copies of them on the connected account; Postgres: connected_accounts, connected_customers | MakeDonation, HandlePMAttached with SyncConnectPaymentMethods | a connected customer keeps a card; a donation charges one its donor chose |
| Connect webhooks | `webhook/stripeconnect.go`, `service/v1/stripewebhook.go:60-130` | Postgres: can_receive_payments, room_subscriptions | one handler per event; the RPCs that create room subscriptions are commented out, those that exist go on | rows agree with Stripe once the events are accepted |
| Lists | `service/v1/chat.go:403-490`, `backend/lists` | Postgres: a name and an array of users per list | CreateList, UpdateList | each column is that of a latest call |
| Mixes | `service/v1/mixes.go`, `backend/mixes` | Postgres: a row per category | GetMixes | the rows are those of one call |
| Server and shutdown | `backend/cmd/server`, `backend/pkg/cmd/server.go`, `backend/pkg/protocol/grpcserver` | none but the running calls | ListenForShutdown, GracefulStop | the server stops once its clients have left |
| Google login | `extauth/server/googleHandlers.go` | none of its own | GoogleCallback | a token that does not verify is refused |
| Configuration, cookies, Kubernetes secrets, logging, generated code | see `PROJECT.json` | none of its own | formatting, input and output | not modelled |

### How they interact

The handlers call each other's managers directly: a sign-up creates a user, a
customer and a subscription before it opens a session; LikePost and FollowUser
call `notifications.Send` and only log its error; a stream of chat messages
first resets the unread count that senders increment; extauth shares nothing with
the backend but the session keys in Redis. Components meet in Redis and Postgres
keys, and in Stripe, whose events come back through the webhook at any time, in
any order and more than once.

### What is hard about it

`PROJECT.json` lists every hazard with its line. In groups:

- read, decide, write without a lock or a transaction: unread counts
  (`usecase.go:361`), likes (`posts.go:240`), the trial (`stripeservice.go:360`),
  the previous notification (`notifications.go:101`), emails (`auth.go:309`), the
  cards of a connected customer (`stripeservice.go:517`);
- one step of several failing: a message stored but not counted, a renewal that
  deleted the old session, a subscription stored without its price, a user
  stored without a customer;
- an error that the next assignment overwrites (`notifications.go:79`,
  `posts.go:259`, `payment.go:182`, `extauth/server/googleHandlers.go:73`);
- goroutines that close each other's channels (`chat.go:54-64`, `push.go:42`);
- a server that waits for streams, and streams that wait for their clients
  (`grpcserver/server.go:57`);
- two stores written in one order and read in another: ZADD and PUBLISH, Stripe
  and the rows, dates taken before the statement that stores them;
- paging by offset while messages arrive;
- events that Stripe repeats, delays and reorders, stored as they come.

## 2. Modules

| module | models | state and actions |
|---|---|---|
| `Chat` | the store of the chat | `rows`, `unread`, `active`, `log`, `pub` are the Redis keys, `holder` the lock table, `snd[s]` and `str[l]` the program counters and locals of the handlers. One action per Redis command: SendLock, SendStore (ZADD), SendPublish, SendMembers and SendActive (GetConversationInactiveUsers), BumpRead and BumpWrite (IncrementInactiveUserMsgsCount), SendFails; StreamRead, StreamWrite, StreamSetActive, StreamClose; StoreCopy; Crash (restart of the process, which loses locks and requests) |
| `ChatStream` | the goroutines of one stream | `handler`, `sender`, `relay`, `reader` are their positions, `done` and the channels between them rendezvous; `pubsub` and `buffer` are go-redis, `client` and `ctx` grpc-go |
| `Delivery` | the chat together with the goroutines of one of its streams | extends `Chat` and takes `ChatStream` as the instance `C`, `published` being `posted`. They meet in Publish (PUBLISH of a SendMessage, as the connection of the stream takes or loses it), HandlerOpens and HandlerCloses (the handler's commands of Redis and its channels) and in the end of the process: SenderPanics takes every request with it, ProcessDies the goroutines (`killed`). StoreStep and GoroutineStep are what each does on its own |
| `Feed` | the promise of the chat for one conversation, without lock, Redis and goroutines | Say appends to the history, Acknowledge answers for something said, Hear gives a listener a message that follows, in the history, on all it has heard |
| `ChatHistory` | GetMessages against concurrent senders | `at` the CreatedAt taken before the lock, `stored`, `published`; `walk[w]` a client that pages through by offset; its subscription (`listening`) takes or drops each message (Reaches) and may end (Leave) |
| `Authorization` | the promise of the session manager, without Redis | one action each for issuing, closing, granting, refusing and failing |
| `Session` | `core/session/manager.go` with authorize and SignOut | one action per Redis command; GoogleCallbackPanics ends the process between any two of them, a history `missed` says which sessions a Sync looked for too early; implements `Authorization` under `open <- OpenSessions, cookie <- Cookies` |
| `Social` | likes, comments, follows, and the row of their notification | `likes` and `liked` are the counter and the array, `followed` and `unfollowed` the two dates, `notes` the notifications, `read` those ReadNotification marked, `ShownBefore` the order of GetAllNotifications; one action per statement, CreateFails for an INSERT whose error is overwritten; the process may end (Dies) on a post that could not be read or a notification that was not stored |
| `Notifications` | the push half of Send, who is online, the streams of one user, the end of the server | `req[r]` a Send from its INSERT on, `st[s]` a stream with the positions of handler, sender and reader, the channel between them, its pubsub and its client, `published` the order of PUBLISH, `server` serving, draining or stopped |
| `Lists` | CreateList and UpdateList on one list | `list` is the row, `req[r]` what a call asked for, read and answered; one action per statement |
| `Mixes` | GetMixes for one user | `mixes` are rows named by call and category, `call[c]` a position in the loop over categories; one action per statement |
| `Billing` | plan and cards of one user | Stripe's side (`plan`, `card`, `default`, `emitted`) and the rows (`subRow`, `price`, `pmRow`, `trialUsed`), one action per call or statement |
| `ConnectCards` | a donor's cards on one connected account | `card` and `default` of the platform, `copies`, `attached` and `connDefault` of the connected account; one action per call of Stripe or statement. What `Billing` does to the platform's customer step by step is here the environment (PlatformAttaches, PlatformSetsDefault, PlatformDetaches) |
| `ConnectWebhook` | the rows the Connect webhook keeps | Stripe's changes are numbered and a row is the number of the change it shows; `events` emitted, `accepted`; one action per handler, call and statement |
| `Accounts` | sign-up and sign-in | `users` with the unique indexes, Stripe's customers and subscriptions, one action per call or statement |
| `Credentials` | one user's password | `password`, `sessions`, one action per statement |
| `ChatProofs` (`Chat`, `ChatStream`, `Delivery` with `Feed`, `ChatHistory`), `NotificationsProofs`, `RowsProofs` (`MCRows` with `Credentials`, `Lists`, `Mixes`), `SessionProofs` (`Session`, `Authorization`), `AccountsProofs`, `ConnectProofs` (`ConnectCards`, `ConnectWebhook`), `BillingProofs`, `SocialProofs` | theorems | section 5 |
| `MCSession`, `MCSocial`, `MCBilling`, `MCAccounts`, `MCConnectCards`, `MCConnectWebhook` | small instances | symmetry sets and constant functions |
| `MCRows` | small instances of `Credentials`, `Lists` and `Mixes` | the three share no state, and a behaviour is one of one of them: their first step decides which |

`Chat`, `ChatStream`, `Delivery`, `ChatHistory` and `Notifications` are checked directly.

Operators called *faulty variants* in a module are plausible bugs of the code
next to them: a dropped unlock, a lookup that forgets a column, a step that
forgets to write. They are not used by the specification; each is there because
replacing the true definition by it makes TLC refute one of the properties
(`PROJECT.json`, "mutants"), which shows that the property depends on the code.

Conventions. An error of a command is a choice, enabled by the constant
`RedisFails`, `DbFails` or `Fails`: in `Chat` and `Session` a write that returned
an error may have been applied or not, in the others it was not. History
variables are marked as such and guard nothing. Message texts, amounts, periods,
tokens and audio are left out. go-redis's retries and reconnections are external.
A sorted set is ordered by whole seconds, then by the encoded bytes.

## 3. Runs

Twelve runs, each by `tlc -config <name>.cfg <module>`.

| run | instance | question and answer |
|---|---|---|
| `MCChat` | 2 users, 1 conversation, 2 messages, 1 stream, errors, restarts; no symmetry | Unread counts lose updates but stay between zero and the number of stored messages (`UnreadBounded`), are not zero when something was counted since the last read (`BadgeShows`), and are exact unless a stale count was written back (`ExactUnlessRaced`). An acknowledged message is stored, published and counted (`AcknowledgedIsComplete`); pubsub order is store order (`PublishedInStoreOrder`); every SendMessage returns (`SendsReturn`) |
| `MCDelivery` | 1 conversation of 1 user, 2 messages, 1 stream, losses, a failing read, restarts; no errors of Redis | Chat and stream together implement `Feed`: one order of the history, acknowledgements only for what is in it, and a listener hears that order, nothing twice (`ImplementsFeed`). An acknowledged message is in the history, and whoever was listening has it, will be handed it, or lost it on the connection (`AcknowledgedArrives`). The stream ends without an error only if the client left, and ends the process only after a failed read (`StreamEndsForAReason`); the handler returns once the client has left (`LeavingEndsHandler`); the goroutines end if none has a message in hand (`EmptyStreamCleansUp`) |
| `MCChatStream_failed_read` | 1 message | violated: a failed read ends the process (see 6) |
| `MCChatHistory` | 3 messages, 2 seconds, pages of 1 | No message is lost between pages (`WalkMissesNothing`); a client subscribed since before it began lacks only what the subscription lost after that (`ListenerMissesNothing`); a message is repeated only if it was overtaken (`RepeatsOnlyIfOvertaken`) |
| `MCSession` | 3 session ids, 2 users, 2 sign-ins, 2 requests, errors, the end of the process | `Session` implements `Authorization`: an answer is given at an instant at which a session of the cookie's user is open, and a request whose own commands all succeeded is refused only when its session is closed. A sign-out closes the old and the renewed session and leaves no other of the same sign-in open, unless a renewal had read the one it deletes or two had read one session (`SignedOutIsClosed`); a sign-in has one session unless two renewals read the same one; an open session is in the set of its user unless a Sync met its id between the two commands of SetNew (`ListedUnlessMissed`) |
| `MCSocial` | 3 likes, comments, follows or readings of a notification among 3 users, 1 post, 1 comment, errors | Counter and array agree unless two likes of one user overlapped (`LikesExact`); a like is notified again only after the gap (`ResentOnlyAfterGap`); the last write decides a follow unless dates were taken in another order (`FollowsLastWrite`); each answered interaction has its notification (`InteractionsNotified`) |
| `MCBilling` | 3 requests or webhook deliveries of any kind, 2 cards, any stage of the sign-up, errors, a cancellation | No trial for a request begun after an answered SubscribeToPlan; a request that ran alone and was answered leaves rows that agree with Stripe, whatever failed before; clearing the cards never loses the default one |
| `MCConnectCards` | 3 deliveries or donations, 2 cards, 1 or 2 copies to begin with, errors | However syncs overlap, a connected customer is without a default card only while one runs or after one that failed (`ConnectedKeepsCard`); one that ran alone leaves exactly the platform's default (`SyncedAlone`); a donation charges a card that was once the default (`ChargesChosenCard`) |
| `MCConnectWebhook` | 3 deliveries of the events of 3 changes, 2 subscriptions, 1 payment, errors | When everything that can be accepted was, the rows show the last change, unless an older one was stored over a newer (`SettledAgrees`); an invoice handled alone sets the row right whatever came before (`InvoiceHeals`) |
| `MCAccounts` | 3 requests of any kind, 1 mailbox in 2 spellings, 2 names, errors | One customer per user (`OneCustomer`), twins of a mailbox only by a race (`TwinsOnlyIfRaced`), and a Google user who is alone is refused only for a mailbox of another or after a sign-up that stopped half-way (`RefusedForAReason`) |
| `MCRows` | 3 requests about a password of 3; or 4 calls about a list, 3 names, 2 values of the members; or 3 GetMixes, 2 categories; errors | A session or a change without a token needed a password that was stored while the request ran (`KnewThePassword`); the password is that of a call that none later replaced (`LastChangeHolds`). When no call is on its way, each column of the list is that of a call which no successful one wholly followed (`ColumnsOfLatest`). Mixes of two calls are there only if neither was over before the other began, and a call alone leaves what it answered (`MixesOfOneCall`) |
| `MCNotifications` | 2 streams of a user, 1 notification, losses, refused subscriptions, errors, a signal to stop | A stream ends only when its client left or Receive failed, and the process ends only after a failed Receive or for a notification that was not stored (`EndsForAReason`). What is pushed to a subscribed stream and not lost arrives (`PushedIsDelivered`). After a signal the server stops once its clients have left (`StopsWhenClientsLeave`) |

Why the bounds are enough to be interesting. The races of this code are between
two requests: one reads, another writes, the first writes. Every run has two
requests that can be anywhere in their handlers at once, and where a state left
behind by a failure or an earlier event matters (billing, accounts, likes, cards,
Connect events) a third that comes after; a list has a fourth, so that one call
creates it and another follows two that overlap. Two spellings, two cards, two
subscriptions and more than one page give each comparison both results. The
largest instance, `MCConnectCards`, has 2.4 million states; `MCSocial` has 1.7,
`MCSession` 1.2 and `MCRows` one million. One notification and two streams are
enough for `MCNotifications`, where a stream waits for nothing of another but
the process; one stream with three notifications was checked too. Of the three
categories of mixes two are taken: the loop does the same for each.
`MCDelivery` has 0.6 million with one user and without errors of Redis, for the
sake of its liveness; its safety properties and `ImplementsFeed` were checked with
`RedisFails = TRUE` too (2.7 million), and they are proved for all. Two messages
are enough for an order to be wrong. `MaxTime` is such that a notification can be both within and beyond `Gap`.
`CHECK_DEADLOCK FALSE` is set where all requests of an instance may be over; the
other runs end in an explicit step, so that a deadlock of the code is found.

Fairness. `MCChat` assumes weak fairness of each SendMessage (`FairSpec`): the Go
scheduler runs a goroutine that can move, a command of Redis returns, with an
error if need be, and Go's mutex hands itself to a waiter that has starved.
`MCDelivery` assumes it of the commands of the stream's handler, of each of its
goroutines while the process lives, and of the server noticing that its
client is gone (`FairDelivery`): nothing obliges a subscription to be confirmed,
a message to be published or a client to come or leave. `MCNotifications` assumes it of each goroutine and of
Send, of the server noticing that a client is gone, of GracefulStop, and of
Receive returning once Redis has taken the SUBSCRIBE. Nothing obliges Redis to
take it, a client to leave or anybody to send a signal, so `StopsWhenClientsLeave`
says nothing of a stream whose subscription hangs: cancelling the context does
not interrupt go-redis's `Receive` (`push.go:36`), and such a stream keeps the
server from stopping. No other run
uses fairness.

Each module has a type invariant; all were checked with the instances above, and
section 5 says which are proved. `Feed` and `Authorization` have none of their own:
what they say is in the refinement.

## 4. What is only model-checked

- The liveness properties `SendsReturn`, `LeavingEndsHandler`,
  `EmptyStreamCleansUp`, `PushedIsDelivered` and `StopsWhenClientsLeave`: TLAPS 1.4.5
  does not reason about ENABLED, and so not about fairness.
- What section 6 lists as refuted: a counterexample is one of a small instance.

Every safety invariant a run checks is proved, and so are the refinements of
`Authorization` and `Feed`. No module declares a RECURSIVE operator.

## 5. What is proved

`ChatProofs`, for any sets of users, conversations, streams and finite set of
messages, from `ChatAssumption` alone (finite messages, users and conversation
ids disjoint, `None` none of them):

- `TypeCorrect`: `Spec => []TypeOK`. The invariant is split in `SendsOK` (the
  records of the requests) and `RestOK`; each action has a lemma.
- `UnreadBoundedCorrect`: `Spec => []UnreadBounded`. However many SendMessage
  requests, readers, errors and restarts interleave, a count never exceeds the
  number of stored messages. `UnreadBounded` is not inductive: a request between
  HGET and HSET holds a number that other requests have overtaken or undone. The
  strengthening `CountInv` says what such a request knows:
  the number it read is at most the number of messages counted for that copy
  (`ReadWasReached`); its own message is not among them yet, and not counted
  for any user it still has to count it for (`Uncounted`); and what is counted has been stored
  (`StoredBeforeCounted`). So writing back `val + 1` is bounded by the counted
  messages and the new one, and these are a subset of the stored ones.
  `CountFrame` and `CountOthers` show once that actions of other requests leave
  this alone; `CountBumpWrite` is the step that matters.

The code behind the argument is the order of `usecase.go:70-90` (store, then
publish) before `usecase.go:353-379` (count), and that each request counts a
user once.

The other safety invariants of `MCChat`, from the same assumption:

- `PublishedInStoreOrderCorrect`: `Spec => []PublishedInStoreOrder`. `LockInv` says
  what the lock is for: a request between ZADD and PUBLISH holds the lock of its
  conversation, so there is at most one, and its message is the last one stored.
  What it publishes therefore comes after all that has been published.
- `AcknowledgedIsCompleteCorrect`: `Spec => []AcknowledgedIsComplete`. `SoFar` says
  what a request has done by the command it is at: stored and published before
  it reads the participants, and counted for each participant it no longer has
  to count for. It rests on `CopiesOK`: participants of a conversation never change, and no
  user's own key holds an active conversation (the key a stream sets is the
  channel's, which no sender reads), so `SendMessage` skips nobody.
- `BadgeShowsCorrect` and `ExactUnlessRacedCorrect`. `HoldsOK` is the
  strengthening: a request between HGET and HSET holds the stored count unless
  somebody has written the copy since, and `stale` knows of each that was
  overtaken; `FreshOK` says that a copy that is not there has counted nothing.
  A wrong count therefore takes an overtaken increment, and since every
  increment writes at least one, none leaves zero behind.

And of `ChatStream`, for any number of messages, from no assumption:

- `InOrderWithoutGapCorrect`: the client receives messages in the order of publication,
  none twice and none missing but those the connection lost. Messages are with the client,
  in the hands of sender, relay and reader, or in the buffer, each before the next, and none between the
  subscription and the last published one is missing that the connection did not lose
  (`Flow`). Each step hands messages on by one place. That holds until the
  stream is over (the client has left, the context is cancelled) or has ended before it
  began; from then on nothing is delivered, so what the client has stays in order.
- `ChatStreamEndsForAReason`. `done` is closed once, by the sender, unless the
  read failed; by then `sendErr` is set or the client has left (`Control`).

Of `Delivery`, from `ChatAssumption` and `DeliveryAssumption` (the listener is one of
the streams, its channel one of the conversations, `Lossy` a Boolean):

- `DeliveryIsBoth`: a behaviour of `Delivery` is one of `Chat` and one of `ChatStream`,
  for each of its steps is one of either or leaves its variables alone. All theorems above
  therefore hold of the composition, and `StreamEndsForAReasonCorrect` is one of them.
- `ImplementsFeedCorrect`: `DeliverySpec => ImplementsFeed`. `DeliveryInv` takes what was shown
  of the two (types, `AckInv`, `PublishedInStoreOrder`, `PathOK`) and adds three parts.
  `OnceOK`: no message is stored or published twice, since a request passes ZADD
  and PUBLISH once. `LinkOK`: the stream has counted no more messages
  than were published on its channel, and all of them while the process lives. `DeliveredOK`:
  the client was given none but these. Then ZADD is Say, because what a request is about to store
  is not stored; the last command of a SendMessage is Acknowledge, because it has been; and
  `stream.Send` is Hear: the message follows on what the client has in the order of publication
  (`Delivering`), which is that of the history (`PublishedInStoreOrder`), and strictly, for no
  message has two places (`HearsNext`). PUBLISH, a panic and a restart are stutters.
- `HeardInOrderCorrect`: what `Feed` promises step by step holds in every state: only what is in the
  history was acknowledged, and what a listener has is in the order of the history, nothing twice.
- `AcknowledgedArrivesCorrect`: `DeliverySpec => []AcknowledgedArrives`. While somebody listens
  the process lives and the stream is neither over nor broken, so that all published
  messages are on their way by `FlowOK`; by `SoFar` an acknowledged one is published.

And of `ChatHistory`, for any finite set of messages, any number of walks and any
limit of a page, under its assumption:

- `WalkMissesNothingCorrect`, `ListenerMissesNothingCorrect` and
  `RepeatsOnlyIfOvertakenCorrect`. The messages are numbered in the order of the set
  (`Nth`); numbers are injective and without gaps (`SliceSize`, from the facts
  about injections of finite sets), so a page holds exactly the messages of the next
  numbers (`PageIsNext`), the last one asked for being held back when there is more.
  As the history grows a message keeps its number or is given a larger one
  (`NumbersGrow`). `WalkOK` follows: what was there when a walk began and is numbered
  below its offset was given, and nothing given is numbered beyond it unless
  something that sorts before was stored meanwhile. A client subscribed since before
  it began has heard or lost what was published since (`Reaching`), and all that
  was published before is in what it was given, lost or not.

`RowsProofs` is about `MCRows`, in which a behaviour is one of `Credentials`, `Lists`
or `Mixes`: for any passwords, calls, names and members, and any number of categories,
from `CredentialsAssumption` (the password of the sign-up is one of them) and
`ListAssumption` (`None` is no row of a list).

- `KnewThePasswordCorrect`. `Seen` says that a running request has seen each
  password stored while it runs, and is past the comparison only with one of these.
- `LastChangeHoldsCorrect`. A request about to write is not over, so it precedes nobody;
  the last writer is the witness (`LastInv`).
- `ColumnsOfLatestCorrect`. For each column there is
  a call that answers for it (`AnswersName`, `AnswersMembers`): a call begun
  after it was over either has read what it left and not gone past the column,
  or has failed. One that gets past the column, by storing it or by asking for what it read,
  answers for it from then on. `Undisturbed` says what a call finds that no
  other overlapped.
- `MixesOfOneCallCorrect`. A call past its DELETE has
  removed the rows of every call that was over when it began, and those create no
  more (`RowsOK`); what a call created is there unless another has begun that
  was not over before it (`KeptOK`).
- `EachOnItsOwn`: the same of the specifications of `Credentials`, `Lists` and `Mixes`.

`NotificationsProofs`, for any sets of users' streams and requests, from
`NotificationsAssumption` (`None` is no request, `Fails` is a Boolean):

- `TypeCorrect`: `Spec => []TypeOK`.
- `EndsForAReasonCorrect`: `Spec => []EndsForAReason`. What the goroutines of a
  stream know of each other is `StreamOK`: the channel is closed before the reader has
  ended only by a Receive that failed, the reader ends only once the pubsub is
  closed, and the closer does that only after the context was cancelled; so a
  sender that finds the channel closed has either been refused or come after the
  end of the context, and the channel is closed twice or sent on when
  closed only after a refusal. A request that has not stored its notification
  stays where it is until it finds the user offline (`DiesForAReason`).

`SessionProofs`, for any session ids, users, sign-ins and requests, from
`SessionAssumption` (`None` is none of them):

- `ImplementsAuthorizationCorrect`: `Spec` implements `Authorization` under
  `open <- OpenSessions, cookie <- Cookies`. Initial states map to initial ones
  and each step to a step of the promise or a stutter: a request that is answered has
  seen its session open at an instant since it began, and one that is refused
  though its own commands succeeded has found it closed.
- `SignedOutIsClosedCorrect`, `OneSessionPerSignInCorrect` and
  `ListedUnlessMissedCorrect`. What a sign-out has closed
  nobody opens again, a renewed session is closed or the renewal under way
  (`CookieOK`, `NewOK`), each session of a sign-in was renewed from one of it, and
  two only by requests that read the same one (`OriginOK`); a session that no renewal has
  read is the last of its sign-in (`NewestOK`), so that a sign-out that deletes it
  leaves none open and none to come; an open session is listed unless
  a Sync met its id between the two commands of SetNew (`ListedOK`).

`AccountsProofs`, for any requests, users and mailboxes, from the module's
assumptions (`RowAssumption`: `None` is no row of users):

- `OneCustomerCorrect`, `TwinsOnlyIfRacedCorrect`, `RefusedForAReasonCorrect`.
  The INSERT is the one point at which a mailbox is won. `Race` says what a
  request knows between its lookup and its INSERT: who holds the mailbox was there
  before it asked, or overlapped with it (`OverlapOK`, `InsertOK`); a
  customer is stored only by the request that inserted the user (`StoredOK`), and a
  request that asks on its own sees what is there (`AskingOK`).

`ConnectProofs`, for any donors' cards, deliveries and number of copies to begin with,
from `ConnectCardsAssumption`:

- `ConnectedKeepsCardCorrect`, `SyncedAloneCorrect`, `ChargesChosenCardCorrect`.
  A copy under way is nobody else's, and is attached or made the default only by
  the request that made it; of syncs that overlap, the last one to
  list the copies detaches none that came later. `Phase` says what a sync that
  overlapped with nothing finds and leaves. An earlier form of
  `ConnectedKeepsCard` held in the instance of three deliveries and failed in the
  proof: with four overlapping syncs of which only one fails, the one that failed can
  have detached the last default. It is kept as `OneGetsThrough` (section 6).
- `SettledAgreesCorrect` and `InvoiceHealsCorrect`, of `ConnectWebhook`. Unless
  something was overtaken, the row shows at least the latest change whose own
  data was stored, and that is at least each accepted one (`SettledOK`). While a delivery is
  alone, what it has read of Stripe is what Stripe has, and then what the row
  has (`HealOK`): Stripe's next change ends the claim, and so does another delivery.

`BillingProofs`, for any requests and cards, from the module's assumptions:

- `NoLaterTrialCorrect` (`TrialOK`): a request begun after an answered
  SubscribeToPlan reads `trialUsed`, which was stored before the answer.
- `AloneAgreesCorrect` (`AloneOK`, `Phase`): what a request that runs alone has
  done to Stripe and to the rows by the step it is at.
- `RowSurvivesCorrect` (`RowOK`): the row of the default card is the one that the
  clearing of the others leaves.
- `TypeCorrect`. Each step is one that moves a request, begins one, or disturbs those under
  way (`Moves`, `Starts`, `Disturbs`), and each part is kept by the three kinds.

`SocialProofs`, for any finite set of users and any posts and comments, from
`SocialAssumption`:

- `LikesExactCorrect` (`LikesOK`): a toggle that read the array as it is
  when it writes changes counter and array alike, and one that did not overlapped with
  another of the same user.
- `FollowsLastWriteCorrect` (`FollowsOK`): the dates in the row are unique and in the past, so the
  later one is that of the last write unless dates were taken in another order.
- `InteractionsNotifiedCorrect` (`NotifiedOK`) and `ResentOnlyAfterGapCorrect`
  (`ResentOK`): what the lookup of a Send found is still the latest when it inserts,
  or another Send of the same interaction overlapped.
- `TypeCorrect`.

The assumptions are about names only (`None` is no value of another kind, sets of ids
are disjoint, flags are Booleans, bounds are natural numbers), the ones that Go's types and Postgres's
keys give. In particular posts and comments have ids of their own (`SocialAssumption`),
being rows of two tables. A theorem about an INSTANCE names the assumption it needs, if
any, as a hypothesis.

## 6. Where the code and its own words differ

One of these is a run of its own (`MCChatStream_failed_read`):

- `FailedReadSurvives`: after a failed ReadConversationMessages the handler
  closes `done` and goes on; the goroutine's deferred close closes it again
  (`service/v1/chat.go:54-64`).

The others are stated at the end of their module. Put in place of the properties
of the configuration named, TLC refutes each of them:

| property | configuration | what the code does |
|---|---|---|
| `ListenerIsActive` | `MCChat` | `chat.go:57` stores the active conversation under the channel's id, not the user's |
| `SendSucceeds` | `MCChat`, also with `RedisFails = FALSE` | a message to a channel without a stored conversation is stored, published, and answered with an error |
| `HistoryBounded` | `MCChatHistory` | nothing enforces MaxChatMessages (`conversation.go:18`) |
| `SignOutEndsSignIn` | `MCSession` | a renewal that has read the session before the sign-out deletes it stores a new one after the sign-out was acknowledged (`core/session/manager.go:128`, `protectedHandlers.go:34`); so does the other branch of a session that two requests renewed |
| `OpenIsListed` | `MCSession` | SetNew lists a session id before it stores the session, and a Sync in between takes it for expired (`core/session/manager.go:37`, `:115`) |
| `NotificationsSpaced` | `MCSocial` | the previous notification is looked up as LIKE_POST whatever the event (`notifications.go:105`) |
| `NotifiedLikeIsALike` | `MCSocial` | taking a like back sends the notification of a like (`posts.go:267`) |
| `LikePostReturns` | `MCSocial` | a post that cannot be read after the toggle is a nil pointer (`posts.go:259`), and so is the notification that was not stored (`notifications.go:79`) |
| `UnreadAtTheTop` | `MCSocial` | the comment promises unread notifications first (`backend/notifications/notifications.go:105`); the ORDER BY is of the whole UNION (`queries.sql:61`) |
| `FollowersFollow` | `MCSocial` | AND binds closer than OR (`follows/queries.sql:33`) |
| `SubscribeRecovers` | `MCBilling` | the customer created again is dropped and nil is read (`payment.go:81`) |
| `TrialOnce` | `MCBilling`, also with `Fails = FALSE` | two concurrent requests both get the trial |
| `OneActiveSubscription` | `MCBilling`, with `Stages = {"all"}` for the cancellation | no webhook replaces a cancelled subscription (`stripewebhook.go:55`) |
| `UpdateIsStored` | `MCBilling` | the error of the store is overwritten (`payment.go:182`) |
| `RowIsDefault` | `MCBilling` with `Fails = FALSE` and four requests | a late event makes an older card the default row (`webhook/stripe.go:126`) |
| `OneGetsThrough` | `MCConnectCards` with `Kinds = {"event"}` and four requests | the comment says that the platform's default is set as the connected default; of four syncs that overlap the only one that fails can detach the last default (`stripeservice.go:497`) |
| `OneCardAtATime` | `MCConnectCards` with `MaxCopies = 1` | overlapping syncs each attach their copy; the comment says only one at a time (`stripeservice.go:497`) |
| `CopyIsDefault` | `MCConnectCards` | the default is read when the sync begins, and nothing synchronises when it changes later (`stripeservice.go:498`) |
| `DeletionIsAccepted` | `MCConnectWebhook` | the handler stores the free subscription for a customer of the connected account, whom the platform does not know (`service/v1/stripewebhook.go:107`) |
| `OneTimeStaysActive` | `MCConnectWebhook` | the row of a one-time payment is overwritten by the subscription's next event; the comment says always active (`stripeconnect.go:285`) |
| `LatestInvoice` | `MCConnectWebhook` | an old invoice event stores its own invoice (`customers/queries.sql:136`) |
| `GoogleReturns` | `MCAccounts` with `Kinds = {"google"}` | a Google user without a customer is taken for new and refused for having an account (`service/v1/auth.go:106`); with `EnableStripe = FALSE` that is every user |
| `EmailIsUnique` | `MCAccounts` | the index compares emails as spelled |
| `UsernameIsUnique` | `MCAccounts` with two mailboxes | so does that of usernames, and UpdateUsername asks nothing else |
| `ChangeEndsSessions` | `MCRows` | nothing reads password_changed_at (`auth.go:547`) |

Ends of a process that no comment contradicts are actions of the models:
MakeDonation reads a nil account after an error of the database other than
ErrNoRows (`payment.go:532-538`, DonationPanics), LikePost a nil post
(FetchPostPanics), GoogleCallback a nil user (`googleHandlers.go:73`,
GoogleCallbackPanics); Send encodes a nil notification for a receiver who is
online (EncodeNil), and a stream whose Receive failed sends on a closed channel
or closes it again (`push.go:38-43`, ReaderSendsOnClosed, ReaderExits).

The opposite happens after SIGTERM: the goroutine of the signals waits for a
context that RunServer cancels only when it returns, and RunServer waits for
ever (`grpcserver/server.go:58`, `pkg/cmd/server.go:110`). The process stays until
it is killed; `Notifications` ends in `server = "stopped"`.

## 7. Abstractions to know of

- `Chat`: the JoinedAt filter and the content of messages are in `ChatHistory`
  or left out; the reads that change nothing (GetConversations and the like)
  have no action. `PublishedInStoreOrder` makes no claim of at-most-once: a
  client that repeats a failed request sends another message.
- `Delivery`: the goroutines of one stream are modelled, those of the others are the handlers of
  `Chat`. A client leaves only after it has called the handler. The history of `Feed` is in the order
  of ZADD; Redis gives it sorted by seconds, of which `ChatHistory` is about. What `ChatStream` bounds
  (`MaxPublished`) is here the number of requests, each of which publishes once, and bounds nothing.
- `ChatHistory`: a conversation is read under another key than the one it is
  written under (`lock` is keyed by the string), so pages need no lock step. What becomes of a
  published message on its way to a client (Redis, go-redis, the goroutines of its stream) is
  decided at PUBLISH: it arrives or is lost. `ChatStream` and `Delivery` have the way.
- `ChatStream`: a message that cannot be decoded ends the reader in the code
  (`usecase.go:53-56`); what is published was encoded by the same build, so no such message
  is modelled.
- `Session`: session ids are ksuids and never repeat. The backend's sign-ins are
  reduced to SetNew. `renewed` and `forked` count a renewal that has read a session even if it then
  fails before its DEL, so `SignedOutIsClosed` and `OneSessionPerSignIn` make no
  claim of a session that was read and not replaced.
- `Billing`: one user; a subscription's latest invoice is taken to be present
  when it is stored, and its column is not modelled (the update of a row that exists leaves
  it as it was, `customers/queries.sql.go:691-699`). An invoice without a payment intent ends the process, as
  `RetryInvoice` would.
- `Credentials`: tokens of resets and verifications are valid; their expiry is
  not modelled. EmailSignin ends with SetNew: an error after it (`auth.go:416-428`: the cookie, the
  header, the user) leaves a session nobody was told of, and is taken for the answer.
- `Accounts`: StoreSubscription of a sign-up is one row, then its price.
- `Social`: Send ends with the row of the notification or, if it was not stored,
  with the end of the process when the receiver is online, which is a choice here.
  Whether a user is online and the push are in `Notifications`.
- `Notifications`: one user and its streams; a notification is named by the
  request that sends it. A message that cannot be decoded ends the reader in
  the code (`push.go:51`); what is published was encoded by the same build, so
  no such message is modelled. The goroutine of `signal.Notify` reads one signal.
- `Lists`: one list; a set of users is a value, compared as DeepEqual does,
  and the list is never deleted, for no RPC does. `Mixes`: one user; the posts
  of a mix are left out.
- `ConnectCards`: one donor and one connected account, whose customer exists with
  the copies that syncs of earlier events left.
- `ConnectWebhook`: the row of one user and one room; amounts, statuses and
  dates are the number of the change they belong to.

Not modelled, and why:

- The RPCs that create rooms and enter them are commented out
  (`payment.go:590-662`, `688` on), so the modules about connected accounts
  start from the rows that earlier releases left.
- RPCs and queries that only read (conversations, posts, comments, followers,
  previews, CustomerInfo, account links) change no state another step depends on.
- CreatePost is one INSERT, CreateStripeAccount a call of Stripe and one UPDATE:
  nothing waits for either.
- OAuth, cookies, configuration, Kubernetes secrets and logging are input and output
  without shared state. Start-up is sequential.
- Of the generated code, the `.pb.go` files hold messages and carry no
  behaviour; they are more than half of the lines of Go. The statements in
  `*/queries.sql.go` that a model executes are mapped where it executes them.
- Test helpers and the fixtures of tests.

The map covers about a seventh of the repository's lines of Go for these
reasons, and nearly a third of those that are not `.pb.go`. The rest of them
are queries that read, the generated rows (`*/models.go`), the thin layers that hand a
call on to its query, mocks of tests, and the above.

## 8. Plan

Done: the chat store, the stream, both together and what they promise, the history,
sessions, social, billing, accounts, passwords, the cards of connected accounts, the
Connect webhook, notifications with the shutdown, lists and mixes; every safety invariant
of the runs proved, and the refinements of `Authorization` and `Feed`. Left, the most
important first:

1. `ChatHistory` in the composition: what a client has that reads the history and listens,
   with the seconds by which Redis sorts.
2. An abstract count (reset, counted, shown) that the copies of a conversation implement
   unless a stale one was written.
3. Action properties of `Notifications` about the shutdown: what no step does once
   the server drains.
