------------------------------- MODULE Social -------------------------------
(***************************************************************************)
(* Likes, comments and follows, and the notifications they send: LikePost, *)
(* LikeComment, CreateComment and FollowUser of backend/pkg/service/v1,    *)
(* notifications.Manager.Send, and the SQL they run, with what GetFollowers*)
(* and GetAllNotifications select.  How Send reaches a receiver who is     *)
(* online is in Notifications.                                             *)
(*                                                                         *)
(* Every SQL statement is one step.  When DbFails, a statement may return  *)
(* an error without having been applied.                                   *)
(*                                                                         *)
(* Every time.Now() that is stored advances the clock, so that no two      *)
(* dates are equal; Tick lets more time pass.                              *)
(***************************************************************************)
EXTENDS Integers, FiniteSets

CONSTANTS
  Users,     \* user ids
  Posts,     \* post ids
  Comments,  \* ids of comments that exist
  Author,    \* Author[i]: who wrote the post or comment i
  Requests,  \* requests to like, comment or follow
  Events,    \* bound: what the requests ask for, and "read"
  None,      \* no value
  Gap,       \* the duration given to ResendConditionAfter
  MaxTime,   \* bound: Tick stops here
  DbFails    \* may a statement return an error?

ASSUME SocialAssumption ==
  /\ IsFiniteSet(Users) /\ Posts \cap Comments = {}
  /\ Events \subseteq {"like_post", "like_comment", "comment", "follow", "read"}
  /\ Author \in [Posts \cup Comments -> Users]
  /\ Gap \in Nat /\ MaxTime \in Nat
  /\ DbFails \in BOOLEAN

VARIABLES
  clock,       \* the time
  likes,       \* likes[i]: the column likes of the post or comment i
  liked,       \* liked[<<i, u>>]: occurrences of u in user_ids_who_likes
  followed,    \* followed[<<f, t>>]: follow_date, 0 without a row
  unfollowed,  \* unfollowed[<<f, t>>]: unfollow_date, 0 for NULL
  notes,       \* the rows of the table notifications
  read,        \* the ids of those that are read
  req,         \* req[r]: the request r
  died,        \* has a panic ended the process?
  stale,       \* history: LikePost requests whose read was overtaken
  raced,       \* history: <<post, user>> toggled by such a request
  last,        \* history: last[<<f, t>>], the latest write of a follow row
  disordered,  \* history: rows written with a date before one written
  blind,       \* history: requests that looked before another one created
  failed       \* history: requests with an error that was only logged

items == <<likes, liked>>
follows == <<followed, unfollowed>>
table == <<notes, read>>
history == <<stale, raced, last, disordered, blind, failed>>
vars == <<clock, likes, liked, followed, unfollowed, notes, read,
          req, died, stale, raced, last, disordered, blind, failed>>

Items == Posts \cup Comments
Likers == Items \X Users
Follow == Users \X Users

PC == {"idle", "add", "remove", "fetch", "follow", "unfollow", "follow_write",
       "unfollow_write", "lookup", "create", "ok", "err", "lost"}

Request ==
  [pc : PC, event : {"like_post", "like_comment", "comment", "follow", None},
   user : Users \cup {None}, to : Users \cup {None},
   trigger : Items \cup Requests \cup Users \cup {None}, date : Nat]

Note ==
  [id : Requests, event : {"like_post", "like_comment", "comment", "follow"},
   by : Users, to : Users, trigger : Items \cup Requests \cup Users, date : Nat]

Init ==
  /\ clock = 1
  /\ likes = [i \in Items |-> 0]
  /\ liked = [x \in Likers |-> 0]
  /\ followed = [x \in Follow |-> 0]
  /\ unfollowed = [x \in Follow |-> 0]
  /\ notes = {} /\ read = {}
  /\ req = [r \in Requests |-> [pc |-> "idle", event |-> None, user |-> None,
                                to |-> None, trigger |-> None, date |-> 0]]
  /\ died = FALSE
  /\ stale = {} /\ raced = {}
  /\ last = [x \in Follow |-> "none"] /\ disordered = {}
  /\ blind = {} /\ failed = {}
---------------------------------------------------------------------------
(* What the statements select.                                             *)

\* Faulty variants, each refuted by a property: array_remove of
\* no occurrence, an INSERT that does nothing on conflict, a lookup that does
\* not compare the sender, a notification resent at any time.
RemoveNone(x) == liked' = liked
InsertFollowOnce(x, date) ==
  followed' = [followed EXCEPT ![x] = IF @ = 0 THEN date ELSE @]
PreviousOfAnySender(r) ==
  {n \in notes : /\ n.to = req[r].to
                 /\ n.trigger = req[r].trigger
                 /\ n.event = "like_post"}
ResendConditionAlways(n) == TRUE

HasUserLikedPost(p, u) == liked[<<p, u>>] > 0

IsRow(f, t) == followed[<<f, t>>] > 0

isFollowed(followDate, unfollowDate) ==
  unfollowDate = 0 \/ followDate > unfollowDate

IsFollowingUser(f, t) ==
  IsRow(f, t) /\ isFollowed(followed[<<f, t>>], unfollowed[<<f, t>>])

\* `following_user_id=$1 AND follow_date > unfollow_date OR unfollow_date IS
\* NULL`, in which AND binds tighter than OR.
GetFollowers(t) ==
  {f \in Users : \E x \in Users :
     /\ IsRow(f, x)
     /\ \/ x = t /\ followed[<<f, x>>] > unfollowed[<<f, x>>]
        \/ unfollowed[<<f, x>>] = 0}

\* GetNotification looks for the event LIKE_POST whatever was fired, and
\* takes any row that matches.
Previous(r) ==
  {n \in notes : /\ n.to = req[r].to
                 /\ n.by = req[r].user
                 /\ n.trigger = req[r].trigger
                 /\ n.event = "like_post"}

ResendConditionAfter(n) == clock - n.date > Gap

\* The requests about to create a notification like that of r.
Rivals(r) ==
  {q \in Requests \ {r} : /\ req[q].pc = "create"
                          /\ req[q].to = req[r].to
                          /\ req[q].user = req[r].user
                          /\ req[q].trigger = req[r].trigger}

Overtaken(r) ==
  {q \in Requests \ {r} : /\ req[q].pc \in {"add", "remove"}
                          /\ req[q].user = req[r].user
                          /\ req[q].trigger = req[r].trigger}

\* array_remove of the user from user_ids_who_likes
RemoveLike(x) == liked' = [liked EXCEPT ![x] = 0]

Goto(r, pc) == req' = [req EXCEPT ![r].pc = pc]

\* A panic: the process and all that it was doing is gone.
Dies ==
  /\ died' = TRUE
  /\ req' = [q \in Requests |->
               IF req[q].pc \in {"idle", "ok", "err"} THEN req[q]
               ELSE [req[q] EXCEPT !.pc = "lost"]]
  /\ stale' = {}
  /\ UNCHANGED <<clock, items, follows, table, raced, last,
                 disordered, blind, failed>>

Start(r, pc, event, u, to, trigger) ==
  /\ req[r].pc = "idle"
  /\ event \in Events
  /\ req' = [req EXCEPT ![r] = [pc |-> pc, event |-> event, user |-> u,
                                to |-> to, trigger |-> trigger, date |-> 0]]

---------------------------------------------------------------------------
(* LikePost.                                                               *)

LikePostRead(r, u, p) ==
  /\ Start(r, IF HasUserLikedPost(p, u) THEN "remove" ELSE "add",
           "like_post", u, Author[p], p)
  /\ UNCHANGED <<clock, items, follows, table, died, history>>

\* UPDATE: one like more and u appended, or one like less and every
\* occurrence of u removed
LikeOrDislikePost(r) ==
  LET p == req[r].trigger
      u == req[r].user
  IN
  /\ \/ /\ req[r].pc = "add"
        /\ likes' = [likes EXCEPT ![p] = @ + 1]
        /\ liked' = [liked EXCEPT ![<<p, u>>] = @ + 1]
     \/ /\ req[r].pc = "remove"
        /\ likes' = [likes EXCEPT ![p] = @ - 1]
        /\ RemoveLike(<<p, u>>)
  /\ Goto(r, "fetch")
  /\ stale' = (stale \cup Overtaken(r)) \ {r}
  /\ raced' = IF r \in stale THEN raced \cup {<<p, u>>} ELSE raced
  /\ UNCHANGED <<clock, follows, table, died, last, disordered,
                 blind, failed>>

FetchPost(r) ==
  /\ req[r].pc = "fetch"
  /\ Goto(r, "lookup")
  /\ UNCHANGED <<clock, items, follows, table, died, history>>

\* fetchPost returns a nil post and an error that is not looked at: reading
\* post.Author panics.
FetchPostPanics(r) ==
  /\ DbFails
  /\ req[r].pc = "fetch"
  /\ Dies

---------------------------------------------------------------------------
(* LikeComment and CreateComment. The id of a new comment stands for the   *)
(* request that creates it.                                                *)

LikeComment(r, u, c) ==
  /\ Start(r, "lookup", "like_comment", u, Author[c], c)
  /\ likes' = [likes EXCEPT ![c] = @ + 1]
  /\ liked' = [liked EXCEPT ![<<c, u>>] = @ + 1]
  /\ UNCHANGED <<clock, follows, table, died, history>>

CreateComment(r, u, p) ==
  /\ Start(r, "lookup", "comment", u, Author[p], r)
  /\ UNCHANGED <<clock, items, follows, table, died, history>>

---------------------------------------------------------------------------
(* FollowUser. The trigger of its notification is the follower's username. *)

FollowRead(r, f, t) ==
  /\ Start(r, IF IsFollowingUser(f, t) THEN "unfollow" ELSE "follow",
           "follow", f, t, f)
  /\ UNCHANGED <<clock, items, follows, table, died, history>>

\* time.Now() of toggleFollowUser
FollowStamp(r) ==
  /\ clock' = clock + 1
  /\ \/ /\ req[r].pc = "follow"
        /\ req' = [req EXCEPT ![r].pc = "follow_write", ![r].date = clock + 1]
     \/ /\ req[r].pc = "unfollow"
        /\ req' = [req EXCEPT ![r].pc = "unfollow_write", ![r].date = clock + 1]
  /\ UNCHANGED <<items, follows, table, died, history>>

\* INSERT ... ON CONFLICT DO UPDATE SET follow_date
InsertFollow(x, date) == followed' = [followed EXCEPT ![x] = date]

\* The INSERT or the UPDATE, and the answer computed from the row written
ToggleFollowUser(r) ==
  LET x == <<req[r].user, req[r].to>>
      date == req[r].date
  IN
  /\ \/ /\ req[r].pc = "follow_write"
        /\ InsertFollow(x, date)
        /\ last' = [last EXCEPT ![x] = "follow"]
        /\ UNCHANGED unfollowed
     \/ /\ req[r].pc = "unfollow_write"
        /\ unfollowed' = [unfollowed EXCEPT ![x] = date]
        /\ last' = [last EXCEPT ![x] = "unfollow"]
        /\ UNCHANGED followed
  /\ Goto(r, IF isFollowed(followed'[x], unfollowed'[x]) THEN "lookup" ELSE "ok")
  /\ disordered' = IF date < followed[x] \/ date < unfollowed[x]
                     THEN disordered \cup {x} ELSE disordered
  /\ UNCHANGED <<clock, items, table, died, stale, raced, blind, failed>>

\* A statement of the request itself fails, maybe its first one: it is
\* answered with an error.
RequestFails(r) ==
  /\ DbFails
  /\ req[r].pc \in {"idle", "add", "remove", "follow", "unfollow", "follow_write",
                    "unfollow_write"}
  /\ Goto(r, "err")
  /\ stale' = stale \ {r}
  /\ UNCHANGED <<clock, items, follows, table, died, raced, last,
                 disordered, blind, failed>>

---------------------------------------------------------------------------
(* Send. Its errors are logged by the handlers, which answer all the same. *)

\* shouldSendNotification; CreateComment has no resend condition
ShouldSendNotification(r) ==
  /\ req[r].pc = "lookup"
  /\ \/ /\ req[r].to # req[r].user
        /\ \/ Previous(r) = {}
           \/ req[r].event = "comment"
           \/ \E n \in Previous(r) : ResendConditionAfter(n)
        /\ Goto(r, "create")
     \/ /\ \/ req[r].to = req[r].user
           \/ /\ req[r].event # "comment"
              /\ \E n \in Previous(r) : ~ResendConditionAfter(n)
        /\ Goto(r, "ok")
  /\ UNCHANGED <<clock, items, follows, table, died, history>>

\* createNotification
CreateNotification(r) ==
  /\ req[r].pc = "create"
  /\ clock' = clock + 1
  /\ notes' = notes \cup {[id |-> r, event |-> req[r].event,
                           by |-> req[r].user, to |-> req[r].to,
                           trigger |-> req[r].trigger, date |-> clock + 1]}
  /\ blind' = blind \cup Rivals(r)
  /\ Goto(r, "ok")
  /\ UNCHANGED <<items, follows, read, died, stale, raced, last, disordered,
                 failed>>

\* Its error is overwritten by the next call, and Send goes on with a nil
\* notification: a receiver who is online is pushed it, and the encoder
\* panics on a nil pointer.
CreateFails(r) ==
  /\ DbFails
  /\ req[r].pc = "create"
  /\ \/ /\ Goto(r, "ok")
        /\ failed' = failed \cup {r}
        /\ UNCHANGED <<clock, items, follows, table, died, stale, raced, last,
                       disordered, blind>>
     \/ Dies

SendFails(r) ==
  /\ DbFails
  /\ req[r].pc = "lookup"
  /\ Goto(r, "ok")
  /\ failed' = failed \cup {r}
  /\ UNCHANGED <<clock, items, follows, table, died, stale, raced,
                 last, disordered, blind>>

\* UPDATE notifications SET read, of any row there is
ReadNotification ==
  /\ "read" \in Events
  /\ \E n \in notes : read' = read \cup {n.id}
  /\ UNCHANGED <<clock, items, follows, notes, req, died, history>>

\* The rows of u in front of n in GetAllNotifications: both halves of the
\* UNION ALL are sorted by date together.
ShownBefore(u, n) == {m \in notes : m.to = u /\ m.date > n.date}

Tick ==
  /\ clock < MaxTime
  /\ clock' = clock + 1
  /\ UNCHANGED <<items, follows, table, req, died, history>>

LikeStep(r) ==
  \/ \E u \in Users : \/ \E p \in Posts : LikePostRead(r, u, p)
                      \/ \E c \in Comments : LikeComment(r, u, c)
                      \/ \E p \in Posts : CreateComment(r, u, p)
  \/ LikeOrDislikePost(r) \/ FetchPost(r) \/ FetchPostPanics(r)

FollowStep(r) ==
  \/ \E f, t \in Users : FollowRead(r, f, t)
  \/ FollowStamp(r) \/ ToggleFollowUser(r)

SendStep(r) ==
  \/ ShouldSendNotification(r) \/ CreateNotification(r)
  \/ CreateFails(r) \/ SendFails(r)

Next ==
  \/ \E r \in Requests : LikeStep(r) \/ FollowStep(r) \/ SendStep(r)
  \/ \E r \in Requests : RequestFails(r)
  \/ ReadNotification
  \/ Tick

Spec == Init /\ [][Next]_vars
---------------------------------------------------------------------------
(* Properties.                                                             *)

\* Type invariant; a follow row that was never written has no dates.
TypeOK ==
  /\ clock \in Nat
  /\ likes \in [Items -> Int] /\ liked \in [Likers -> Nat]
  /\ followed \in [Follow -> Nat] /\ unfollowed \in [Follow -> Nat]
  /\ notes \subseteq Note /\ read \subseteq {n.id : n \in notes}
  /\ req \in [Requests -> Request]
  /\ died \in BOOLEAN
  /\ stale \subseteq Requests /\ raced \subseteq Posts \X Users
  /\ last \in [Follow -> {"none", "follow", "unfollow"}]
  /\ disordered \subseteq Follow
  /\ blind \subseteq Requests /\ failed \subseteq Requests
  /\ \A x \in Follow : last[x] = "none" <=> followed[x] = 0

\* A post has as many likes as users who like it, each listed once, unless
\* two LikePost requests of one user overlapped (HasUserLikedPost and the
\* UPDATE are two statements).
LikesExact ==
  \A p \in Posts :
    (\A u \in Users : <<p, u>> \notin raced) =>
      /\ likes[p] = Cardinality({u \in Users : HasUserLikedPost(p, u)})
      /\ \A u \in Users : liked[<<p, u>>] <= 1

\* Whether f follows t is what the latest write said, whichever of the two
\* dates it wrote, unless the writes came in another order than their dates
\* were taken.
FollowsLastWrite ==
  \A f, t \in Users :
    <<f, t>> \notin disordered =>
      (IsFollowingUser(f, t) <=> last[<<f, t>>] = "follow")

\* Every like or comment for somebody else that was answered has
\* left a notification for its receiver: Send may refrain from repeating one
\* but not from sending the first. (An error in Send is only logged.)
InteractionsNotified ==
  \A r \in Requests \ failed :
    /\ req[r].pc = "ok"
    /\ req[r].event \in {"like_post", "like_comment", "comment"}
    /\ req[r].user # req[r].to
    => \E n \in notes : /\ n.to = req[r].to
                        /\ n.by = req[r].user
                        /\ n.trigger = req[r].trigger
                        /\ n.event = req[r].event

\* A like of a post is notified again only when more than Gap has passed
\* since an earlier notification of it, unless two requests looked for one
\* before either had created it.
ResentOnlyAfterGap ==
  \A n \in notes :
    n.event = "like_post" /\ n.id \notin blind =>
      LET earlier == {m \in notes : /\ m.to = n.to /\ m.by = n.by
                                    /\ m.trigger = n.trigger
                                    /\ m.event = n.event /\ m.date < n.date}
      IN earlier # {} => \E m \in earlier : n.date - m.date > Gap

(***************************************************************************)
(* Statements of the repository that the code does not keep.               *)
(***************************************************************************)

\* "ResendConditionAfter resends the notification if the elapsed time since
\* the previous is greater than `d`" (notifications.go), which likes and
\* follows are sent with: no two within Gap.
NotificationsSpaced ==
  \A m, n \in notes :
    /\ m.to = n.to /\ m.by = n.by /\ m.trigger = n.trigger
    /\ m.event = n.event /\ m.date < n.date
    => n.date - m.date > Gap

\* EventTextLikePost, "liked your post!", is "used on a `like` post event"
\* (notifications.go): whoever it names has just liked the post, not stopped
\* liking it.
NotifiedLikeIsALike ==
  \A r \in Requests :
    /\ req[r].pc = "create" /\ req[r].event = "like_post"
    /\ \A q \in Requests \ {r} : req[q].pc \in {"idle", "ok"}
    => HasUserLikedPost(req[r].trigger, req[r].user)

\* "The unread ones are always returned at the top" (backend/notifications/
\* notifications.go).
UnreadAtTheTop ==
  \A n \in notes : n.id \notin read => \A m \in ShownBefore(n.to, n) : m.id \notin read

\* "LikePost increments the post's likes and returns the new updated post"
\* (posts.go): it returns, if only with an error.
LikePostReturns == ~died

\* "GetFollowers returns a list of ext user info who follows the passed param
\* userID" (follows.go).
FollowersFollow ==
  \A t \in Users : \A f \in GetFollowers(t) : IsFollowingUser(f, t)
=============================================================================
