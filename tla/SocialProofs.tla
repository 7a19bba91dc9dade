---------------------------- MODULE SocialProofs ----------------------------
(***************************************************************************)
(* Theorems about Social, for any sets of users, posts, comments and       *)
(* requests and any resend gap: the counts of likes are exact, a follow is *)
(* what was written last, who is liked or commented on is notified, and a  *)
(* like is notified again only after the gap.                              *)
(***************************************************************************)
EXTENDS Social, FiniteSetTheorems, TLAPS

\* Requests that have ended with nothing to show, or not begun
Over == {"idle", "err", "lost"}

\* What a request can be at each of its steps: the read of FollowUser found a
\* row if it goes on to unfollow, and the time it took has passed.
ReqOK(r) ==
  /\ req[r].pc \in {"add", "remove", "fetch"} => req[r].event = "like_post"
  /\ req[r].pc \in {"follow", "unfollow", "follow_write", "unfollow_write"} =>
       req[r].event = "follow"
  /\ req[r].pc \notin Over =>
       /\ req[r].event \in {"like_post", "like_comment", "comment", "follow"}
       /\ req[r].user \in Users /\ req[r].to \in Users
       /\ req[r].trigger \in Items \cup Requests \cup Users
       /\ req[r].event = "like_post" => req[r].trigger \in Posts
       /\ req[r].event = "like_comment" => req[r].trigger \in Comments
  /\ req[r].pc \in {"unfollow", "unfollow_write"} =>
       followed[<<req[r].user, req[r].to>>] > 0
  /\ req[r].pc \in {"follow_write", "unfollow_write"} =>
       0 < req[r].date /\ req[r].date <= clock

\* The types of everything but the requests; no notification is of the future,
\* and those of liked posts are about posts.
StateOK ==
  /\ clock \in Nat
  /\ likes \in [Items -> Int] /\ liked \in [Likers -> Nat]
  /\ followed \in [Follow -> Nat] /\ unfollowed \in [Follow -> Nat]
  /\ notes \subseteq Note /\ read \subseteq {n.id : n \in notes}
  /\ died \in BOOLEAN
  /\ stale \subseteq Requests /\ raced \subseteq Posts \X Users
  /\ last \in [Follow -> {"none", "follow", "unfollow"}]
  /\ disordered \subseteq Follow
  /\ blind \subseteq Requests /\ failed \subseteq Requests
  /\ \A x \in Follow : last[x] = "none" <=> followed[x] = 0
  /\ \A n \in notes : /\ n.date <= clock
                      /\ n.event = "like_post" => n.trigger \in Posts

Base ==
  /\ StateOK
  /\ req \in [Requests -> Request]
  /\ \A r \in Requests : ReqOK(r)
---------------------------------------------------------------------------
(* What a step does to likes, follows and notifications.                   *)

\* No like of a post changes; who is about to add or remove one is not new,
\* or has just looked.
LikesCalm ==
  /\ \A p \in Posts : /\ likes'[p] = likes[p]
                      /\ \A u \in Users : liked'[<<p, u>>] = liked[<<p, u>>]
  /\ raced' = raced
  /\ \A q \in Requests : req'[q].pc \in {"add", "remove"} =>
       \/ req'[q] = req[q] /\ (q \in stale => q \in stale')
       \/ req'[q].pc = "add" <=> liked'[<<req'[q].trigger, req'[q].user>>] = 0

\* No row of a follow changes, and nobody takes a date for one.
FollowsCalm ==
  /\ followed' = followed /\ unfollowed' = unfollowed
  /\ last' = last /\ disordered' = disordered
  /\ clock' \in Nat /\ clock <= clock'
  /\ \A q \in Requests :
       req'[q].pc \in {"follow_write", "unfollow_write"} => req'[q] = req[q]

\* What ShouldSendNotification has found for a like of a post
Found(r) == Previous(r) = {} \/ \E n \in Previous(r) : ResendConditionAfter(n)

\* No notification is created; who is about to create one for a like is not
\* new, or has just looked.
NotesCalm ==
  /\ notes' = notes /\ blind' = blind
  /\ clock' \in Nat /\ clock <= clock'
  /\ \A q \in Requests :
       req'[q].pc = "create" /\ req'[q].event = "like_post" =>
         req'[q] = req[q] \/ Found(q)'

\* The receiver of r has a notification of what r did.
Told(r) == \E n \in notes : /\ n.to = req[r].to /\ n.by = req[r].user
                            /\ n.trigger = req[r].trigger
                            /\ n.event = req[r].event

\* No notification is lost, and a request that is answered has sent its own.
Notifies ==
  /\ notes \subseteq notes' /\ failed \subseteq failed'
  /\ \A q \in Requests : req'[q].pc = "ok" =>
       \/ req'[q] = req[q]
       \/ q \in failed'
       \/ req'[q].event = "follow" \/ req'[q].user = req'[q].to
       \/ Told(q)'
---------------------------------------------------------------------------
(* Steps of one request.                                                   *)

\* A step of r, which has reached pc
Becomes(r, pc) ==
  /\ req' \in [Requests -> Request]
  /\ req'[r].pc = pc
  /\ \A q \in Requests \ {r} : req'[q] = req[q]

\* It is about the same as before.
Same(r) ==
  /\ req'[r].event = req[r].event /\ req'[r].user = req[r].user
  /\ req'[r].to = req[r].to /\ req'[r].trigger = req[r].trigger
  /\ req'[r].date = req[r].date

\* Goto moves the program counter and nothing else.
LEMMA GotoIs ==
  ASSUME req \in [Requests -> Request], NEW r \in Requests, NEW pc \in PC,
         Goto(r, pc)
  PROVE  Becomes(r, pc) /\ Same(r)
<1>1. req[r] \in Request
  OBVIOUS
<1>2. req'[r] = [req[r] EXCEPT !.pc = pc]
  BY DEF Goto
<1>3. req'[r].pc = pc /\ Same(r)
  BY <1>1, <1>2 DEF Request, Same
<1>4. req'[r] \in Request
  BY <1>1, <1>2, <1>3 DEF Request
<1>5. QED
  BY <1>3, <1>4 DEF Becomes, Goto

\* Start sets all that is known of a request.
LEMMA StartIs ==
  ASSUME req \in [Requests -> Request], NEW r \in Requests, NEW pc \in PC,
         NEW event \in {"like_post", "like_comment", "comment", "follow"},
         NEW u \in Users, NEW to \in Users,
         NEW trigger \in Items \cup Requests \cup Users,
         Start(r, pc, event, u, to, trigger)
  PROVE  /\ Becomes(r, pc) /\ req[r].pc = "idle"
         /\ req'[r].event = event /\ req'[r].user = u
         /\ req'[r].to = to /\ req'[r].trigger = trigger
<1> DEFINE x == [pc |-> pc, event |-> event, user |-> u, to |-> to,
                 trigger |-> trigger, date |-> 0]
<1>1. /\ x \in Request /\ x.pc = pc /\ x.event = event /\ x.user = u
      /\ x.to = to /\ x.trigger = trigger
  BY DEF Request
<1>2. req[r].pc = "idle" /\ req' = [req EXCEPT ![r] = x]
  BY DEF Start
<1> HIDE DEF x
<1>3. req'[r] = x /\ Becomes(r, pc)
  BY <1>1, <1>2 DEF Becomes
<1>4. QED  BY <1>1, <1>2, <1>3

\* Time passes, and no row of a follow disappears.
Grows ==
  /\ clock \in Nat /\ clock' \in Nat /\ clock <= clock'
  /\ \A x \in Follow : followed[x] > 0 => followed'[x] > 0

\* Base after a step of r
LEMMA BaseOfStep ==
  ASSUME Base, NEW r \in Requests, NEW pc, Becomes(r, pc), StateOK', Grows,
         ReqOK(r)'
  PROVE  Base'
<1>1. ASSUME NEW q \in Requests \ {r}  PROVE ReqOK(q)'
  <2>1. req'[q] = req[q] /\ ReqOK(q) /\ req[q] \in Request
    BY DEF Becomes, Base
  <2>2. req[q].pc \in {"unfollow", "unfollow_write"} =>
          followed'[<<req[q].user, req[q].to>>] > 0
    <3>1. SUFFICES ASSUME req[q].pc \in {"unfollow", "unfollow_write"}
                   PROVE  followed'[<<req[q].user, req[q].to>>] > 0
      OBVIOUS
    <3>2. <<req[q].user, req[q].to>> \in Follow
      BY <2>1, <3>1 DEF ReqOK, Follow, Over
    <3>3. QED  BY <2>1, <3>1, <3>2 DEF ReqOK, Grows
  <2>3. req[q].pc \in {"follow_write", "unfollow_write"} =>
          0 < req[q].date /\ req[q].date <= clock'
    BY <2>1 DEF ReqOK, Grows, Request
  <2>4. QED  BY <2>1, <2>2, <2>3 DEF ReqOK
<1>2. QED  BY <1>1 DEF Base, Becomes
---------------------------------------------------------------------------
(* The kinds of steps.                                                     *)

\* A step that keeps the order of things: likes, follows and notifications
\* stay, and every answer has been notified.
Calm == LikesCalm /\ FollowsCalm /\ NotesCalm /\ Notifies

\* A request goes on to a place where it writes no like and no follow.
LEMMA GotoStep ==
  ASSUME Base, NEW r \in Requests,
         NEW pc \in {"lookup", "create", "ok", "err"}, Goto(r, pc),
         UNCHANGED <<clock, items, follows, table, died, raced, last,
                     disordered, blind>>,
         stale' = stale \/ stale' = stale \ {r},
         failed \subseteq failed', failed' \subseteq Requests,
         pc # "err" => req[r].pc \notin Over,
         pc = "create" /\ req[r].event = "like_post" => Found(r),
         pc = "ok" => \/ r \in failed'
                      \/ req[r].event = "follow" \/ req[r].user = req[r].to
                      \/ Told(r)
  PROVE  Base' /\ Calm
<1>1. StateOK /\ req \in [Requests -> Request] /\ ReqOK(r) /\ clock \in Nat
  BY DEF Base, StateOK
<1>2. Becomes(r, pc) /\ Same(r)
  BY <1>1, GotoIs DEF PC
<1>3. /\ clock' = clock /\ likes' = likes /\ liked' = liked
      /\ followed' = followed /\ unfollowed' = unfollowed
      /\ notes' = notes /\ read' = read /\ died' = died /\ raced' = raced
      /\ last' = last /\ disordered' = disordered /\ blind' = blind
  BY DEF items, follows, table
<1>4. stale' \subseteq Requests /\ \A q \in Requests \ {r} : q \in stale => q \in stale'
  BY <1>1 DEF StateOK
<1>5. StateOK'
  BY <1>1, <1>3, <1>4 DEF StateOK
<1>6. ReqOK(r)'
  BY <1>1, <1>2, <1>3 DEF ReqOK, Becomes, Same, Over
<1>7. Base'
  BY <1>1, <1>2, <1>3, <1>5, <1>6, BaseOfStep DEF Grows
<1>8. LikesCalm
  BY <1>2, <1>3, <1>4 DEF LikesCalm, Becomes
<1>9. FollowsCalm
  BY <1>1, <1>2, <1>3 DEF FollowsCalm, Becomes
<1>10. NotesCalm
  <2>1. Found(r) => Found(r)'
    BY <1>2, <1>3 DEF Found, Previous, ResendConditionAfter, Same
  <2>2. QED  BY <1>1, <1>2, <1>3, <2>1 DEF NotesCalm, Becomes, Same
<1>11. Notifies
  <2>1. Told(r) => Told(r)'
    BY <1>2, <1>3 DEF Told, Same
  <2>2. QED  BY <1>2, <1>3, <2>1 DEF Notifies, Becomes, Same
<1>12. QED  BY <1>7, <1>8, <1>9, <1>10, <1>11 DEF Calm

\* A request begins, after it has looked at what it is to change.
LEMMA StartStep ==
  ASSUME Base, NEW r \in Requests,
         NEW pc \in {"add", "remove", "follow", "unfollow", "lookup"},
         NEW event \in {"like_post", "like_comment", "comment", "follow"},
         NEW u \in Users, NEW to \in Users,
         NEW trigger \in Items \cup Requests \cup Users,
         Start(r, pc, event, u, to, trigger),
         UNCHANGED <<clock, follows, table, died, history>>,
         likes' \in [Items -> Int], liked' \in [Likers -> Nat],
         \A p \in Posts : /\ likes'[p] = likes[p]
                          /\ \A v \in Users : liked'[<<p, v>>] = liked[<<p, v>>],
         event = "like_post" => trigger \in Posts,
         event = "like_comment" => trigger \in Comments,
         pc \in {"add", "remove"} =>
           event = "like_post" /\ (pc = "add" <=> liked'[<<trigger, u>>] = 0),
         pc \in {"follow", "unfollow"} => event = "follow",
         pc = "unfollow" => followed[<<u, to>>] > 0
  PROVE  Base' /\ Calm
<1>1. StateOK /\ req \in [Requests -> Request] /\ clock \in Nat
  BY DEF Base, StateOK
<1>2. /\ Becomes(r, pc) /\ req[r].pc = "idle"
      /\ req'[r].event = event /\ req'[r].user = u
      /\ req'[r].to = to /\ req'[r].trigger = trigger
  BY <1>1, StartIs DEF PC
<1>3. /\ clock' = clock /\ followed' = followed /\ unfollowed' = unfollowed
      /\ notes' = notes /\ read' = read /\ died' = died /\ raced' = raced
      /\ last' = last /\ disordered' = disordered /\ blind' = blind
      /\ stale' = stale /\ failed' = failed
  BY DEF follows, table, history
<1>4. StateOK'
  BY <1>1, <1>3 DEF StateOK
<1>5. ReqOK(r)'
  BY <1>2, <1>3 DEF ReqOK, Becomes, Over
<1>6. Base'
  BY <1>1, <1>2, <1>3, <1>4, <1>5, BaseOfStep DEF Grows
<1>7. LikesCalm
  BY <1>2, <1>3 DEF LikesCalm, Becomes
<1>8. FollowsCalm
  BY <1>1, <1>2, <1>3 DEF FollowsCalm, Becomes
<1>9. NotesCalm
  BY <1>1, <1>2, <1>3 DEF NotesCalm, Becomes
<1>10. Notifies
  BY <1>2, <1>3 DEF Notifies, Becomes
<1>11. QED  BY <1>6, <1>7, <1>8, <1>9, <1>10 DEF Calm

\* A panic loses what was going on.
LEMMA DiesStep ==
  ASSUME Base, Dies
  PROVE  Base' /\ Calm
<1>1. StateOK /\ req \in [Requests -> Request] /\ clock \in Nat
  BY DEF Base, StateOK
<1>2. /\ clock' = clock /\ likes' = likes /\ liked' = liked
      /\ followed' = followed /\ unfollowed' = unfollowed
      /\ notes' = notes /\ read' = read /\ died' = TRUE /\ raced' = raced
      /\ last' = last /\ disordered' = disordered /\ blind' = blind
      /\ stale' = {} /\ failed' = failed
  BY DEF Dies, items, follows, table
<1>3. StateOK'
  BY <1>1, <1>2 DEF StateOK
<1>4. ASSUME NEW q \in Requests
      PROVE  /\ req'[q] \in Request
             /\ \/ req'[q] = req[q] /\ req[q].pc \in {"idle", "ok", "err"}
                \/ req'[q].pc = "lost"
  <2>1. req'[q] = IF req[q].pc \in {"idle", "ok", "err"} THEN req[q]
                  ELSE [req[q] EXCEPT !.pc = "lost"]
    BY DEF Dies
  <2>2. req[q] \in Request
    BY <1>1
  <2>3. CASE req[q].pc \in {"idle", "ok", "err"}
    BY <2>1, <2>2, <2>3
  <2>4. CASE req[q].pc \notin {"idle", "ok", "err"}
    BY <2>1, <2>2, <2>4 DEF Request, PC
  <2>5. QED  BY <2>3, <2>4
<1>5. ASSUME NEW q \in Requests  PROVE ReqOK(q)'
  <2>1. ReqOK(q)
    BY DEF Base
  <2>2. CASE req'[q] = req[q]
    BY <1>2, <2>1, <2>2 DEF ReqOK
  <2>3. CASE req'[q].pc = "lost"
    BY <2>3 DEF ReqOK, Over
  <2>4. QED  BY <1>4, <2>2, <2>3
<1>6. req' \in [Requests -> Request]
  BY <1>4 DEF Dies
<1>7. Base'
  BY <1>3, <1>5, <1>6 DEF Base
<1>8. QED
  BY <1>1, <1>2, <1>4, <1>7
  DEF Calm, LikesCalm, FollowsCalm, NotesCalm, Notifies

\* No request moves, and no row but that of a notification read.
LEMMA UnmovedStep ==
  ASSUME Base, req' = req, clock' \in Nat, clock <= clock',
         UNCHANGED <<items, follows, notes, died, history>>,
         read \subseteq read', read' \subseteq {n.id : n \in notes}
  PROVE  Base' /\ Calm
<1>1. StateOK /\ req \in [Requests -> Request] /\ clock \in Nat
  BY DEF Base, StateOK
<1>2. /\ likes' = likes /\ liked' = liked
      /\ followed' = followed /\ unfollowed' = unfollowed
      /\ notes' = notes /\ died' = died /\ raced' = raced
      /\ last' = last /\ disordered' = disordered /\ blind' = blind
      /\ stale' = stale /\ failed' = failed
  BY DEF items, follows, history
<1>3. StateOK'
  <2>1. \A n \in notes : n.date <= clock'
    BY <1>1 DEF StateOK, Note
  <2>2. QED  BY <1>1, <1>2, <2>1 DEF StateOK
<1>4. ASSUME NEW q \in Requests  PROVE ReqOK(q)'
  <2>1. ReqOK(q) /\ req[q] \in Request
    BY DEF Base
  <2>2. QED  BY <1>1, <1>2, <2>1 DEF ReqOK, Request
<1>5. Base'
  BY <1>1, <1>3, <1>4 DEF Base
<1>6. QED
  BY <1>1, <1>2, <1>5 DEF Calm, LikesCalm, FollowsCalm, NotesCalm, Notifies
---------------------------------------------------------------------------
(* The actions that keep calm.                                             *)

\* LikePost begins with HasUserLikedPost.
LEMMA LikePostReadCalm ==
  ASSUME Base, NEW r \in Requests, NEW u \in Users, NEW p \in Posts,
         LikePostRead(r, u, p)
  PROVE  Base' /\ Calm
<1>1. PICK pc \in {"add", "remove"} :
        /\ pc = IF liked[<<p, u>>] > 0 THEN "remove" ELSE "add"
        /\ Start(r, pc, "like_post", u, Author[p], p)
  BY DEF LikePostRead, HasUserLikedPost
<1>2. /\ UNCHANGED <<clock, follows, table, died, history>>
      /\ likes' = likes /\ liked' = liked
  BY DEF LikePostRead, items
<1>3. Author[p] \in Users /\ p \in Items
  BY SocialAssumption DEF Items
<1>4. likes \in [Items -> Int] /\ liked \in [Likers -> Nat]
      /\ liked[<<p, u>>] \in Nat
  BY <1>3 DEF Base, StateOK, Likers
<1>5. pc = "add" <=> liked'[<<p, u>>] = 0
  BY <1>1, <1>2, <1>4
<1>6. QED  BY <1>1, <1>2, <1>3, <1>4, <1>5, StartStep

\* LikeComment counts a like of a comment, which is no post.
LEMMA LikeCommentCalm ==
  ASSUME Base, NEW r \in Requests, NEW u \in Users, NEW c \in Comments,
         LikeComment(r, u, c)
  PROVE  Base' /\ Calm
<1>1. /\ Start(r, "lookup", "like_comment", u, Author[c], c)
      /\ likes' = [likes EXCEPT ![c] = @ + 1]
      /\ liked' = [liked EXCEPT ![<<c, u>>] = @ + 1]
      /\ UNCHANGED <<clock, follows, table, died, history>>
  BY DEF LikeComment
<1>2. Author[c] \in Users /\ c \in Items
  BY SocialAssumption DEF Items
<1>3. likes \in [Items -> Int] /\ liked \in [Likers -> Nat]
  BY DEF Base, StateOK
<1>4. likes' \in [Items -> Int] /\ \A p \in Posts : likes'[p] = likes[p]
  BY <1>1, <1>2, <1>3, SocialAssumption DEF Items
<1>5. /\ liked' \in [Likers -> Nat]
      /\ \A p \in Posts : \A v \in Users : liked'[<<p, v>>] = liked[<<p, v>>]
  <2> DEFINE x == <<c, u>>
  <2>1. x \in Likers /\ \A p \in Posts : \A v \in Users :
                          <<p, v>> \in Likers /\ <<p, v>> # x
    BY <1>2, SocialAssumption DEF Likers, Items
  <2>2. liked' = [liked EXCEPT ![x] = @ + 1]
    BY <1>1
  <2> HIDE DEF x
  <2>3. QED  BY <1>3, <2>1, <2>2
<1>6. QED  BY <1>1, <1>2, <1>4, <1>5, StartStep

\* CreateComment creates a row of its own.
LEMMA CreateCommentCalm ==
  ASSUME Base, NEW r \in Requests, NEW u \in Users, NEW p \in Posts,
         CreateComment(r, u, p)
  PROVE  Base' /\ Calm
<1>1. /\ Start(r, "lookup", "comment", u, Author[p], r)
      /\ UNCHANGED <<clock, follows, table, died, history>>
      /\ likes' = likes /\ liked' = liked
  BY DEF CreateComment, items
<1>2. Author[p] \in Users
  BY SocialAssumption
<1>3. likes \in [Items -> Int] /\ liked \in [Likers -> Nat]
  BY DEF Base, StateOK
<1>4. QED  BY <1>1, <1>2, <1>3, StartStep

\* FollowUser begins with a look at the row.
LEMMA FollowReadCalm ==
  ASSUME Base, NEW r \in Requests, NEW f \in Users, NEW t \in Users,
         FollowRead(r, f, t)
  PROVE  Base' /\ Calm
<1>1. PICK pc \in {"follow", "unfollow"} :
        /\ pc = IF IsFollowingUser(f, t) THEN "unfollow" ELSE "follow"
        /\ Start(r, pc, "follow", f, t, f)
  BY DEF FollowRead
<1>2. /\ UNCHANGED <<clock, follows, table, died, history>>
      /\ likes' = likes /\ liked' = liked
  BY DEF FollowRead, items
<1>3. likes \in [Items -> Int] /\ liked \in [Likers -> Nat]
  BY DEF Base, StateOK
<1>4. pc = "unfollow" => followed[<<f, t>>] > 0
  BY <1>1 DEF IsFollowingUser, IsRow
<1>5. QED  BY <1>1, <1>2, <1>3, <1>4, StartStep

\* The post is read again before its author is notified.
LEMMA FetchPostCalm ==
  ASSUME Base, NEW r \in Requests, FetchPost(r)
  PROVE  Base' /\ Calm
<1>1. /\ req[r].pc = "fetch" /\ Goto(r, "lookup")
      /\ UNCHANGED <<clock, items, follows, table, died, raced, last,
                     disordered, blind>>
      /\ stale' = stale /\ failed' = failed
  BY DEF FetchPost, history
<1>2. failed \subseteq Requests
  BY DEF Base, StateOK
<1>3. QED  BY <1>1, <1>2, GotoStep DEF Over

\* An error of the request itself ends it.
LEMMA RequestFailsCalm ==
  ASSUME Base, NEW r \in Requests, RequestFails(r)
  PROVE  Base' /\ Calm
<1>1. /\ Goto(r, "err") /\ stale' = stale \ {r} /\ failed' = failed
      /\ UNCHANGED <<clock, items, follows, table, died, raced, last,
                     disordered, blind>>
  BY DEF RequestFails
<1>2. failed \subseteq Requests
  BY DEF Base, StateOK
<1>3. QED  BY <1>1, <1>2, GotoStep

\* ShouldSendNotification lets a first notification pass, and one that is
\* old enough; what it holds back has been sent before.
LEMMA ShouldSendNotificationCalm ==
  ASSUME Base, NEW r \in Requests, ShouldSendNotification(r)
  PROVE  Base' /\ Calm
<1>1. /\ req[r].pc = "lookup"
      /\ UNCHANGED <<clock, items, follows, table, died, raced, last,
                     disordered, blind>>
      /\ stale' = stale /\ failed' = failed
  BY DEF ShouldSendNotification, history
<1>2. failed \subseteq Requests /\ ReqOK(r) /\ StateOK
  BY DEF Base, StateOK
<1>3. CASE /\ req[r].to # req[r].user
           /\ \/ Previous(r) = {}
              \/ req[r].event = "comment"
              \/ \E n \in Previous(r) : ResendConditionAfter(n)
           /\ Goto(r, "create")
  <2>1. req[r].event = "like_post" => Found(r)
    BY <1>3 DEF Found
  <2>2. QED  BY <1>1, <1>2, <1>3, <2>1, GotoStep DEF Over
<1>4. CASE /\ \/ req[r].to = req[r].user
              \/ /\ req[r].event # "comment"
                 /\ \E n \in Previous(r) : ~ResendConditionAfter(n)
           /\ Goto(r, "ok")
  <2>1. \/ req[r].event = "follow" \/ req[r].user = req[r].to \/ Told(r)
    <3>1. SUFFICES ASSUME NEW n \in Previous(r),
                          req[r].event \notin {"comment", "follow"}
                   PROVE  Told(r)
      BY <1>4
    <3>2. n \in notes /\ n.to = req[r].to /\ n.by = req[r].user
          /\ n.trigger = req[r].trigger /\ n.event = "like_post"
      BY DEF Previous
    <3>3. req[r].trigger \in Posts
      BY <1>2, <3>2 DEF StateOK
    <3>4. req[r].event = "like_post"
      BY <1>1, <1>2, <3>1, <3>3, SocialAssumption DEF ReqOK, Over
    <3>5. QED  BY <3>2, <3>4 DEF Told
  <2>2. QED  BY <1>1, <1>2, <1>4, <2>1, GotoStep DEF Over
<1>5. QED  BY <1>3, <1>4 DEF ShouldSendNotification

\* An error of Send is logged, and the request answered.
LEMMA SendFailsCalm ==
  ASSUME Base, NEW r \in Requests, SendFails(r)
  PROVE  Base' /\ Calm
<1>1. /\ req[r].pc = "lookup" /\ Goto(r, "ok")
      /\ UNCHANGED <<clock, items, follows, table, died, raced, last,
                     disordered, blind>>
      /\ stale' = stale /\ failed' = failed \cup {r}
  BY DEF SendFails
<1>2. failed \subseteq Requests
  BY DEF Base, StateOK
<1>3. QED  BY <1>1, <1>2, GotoStep DEF Over

\* So is an error of the INSERT, unless the process dies of it.
LEMMA CreateFailsCalm ==
  ASSUME Base, NEW r \in Requests, CreateFails(r)
  PROVE  Base' /\ Calm
<1>1. CASE Dies
  BY <1>1, DiesStep
<1>2. CASE /\ Goto(r, "ok")
           /\ failed' = failed \cup {r}
           /\ UNCHANGED <<clock, items, follows, table, died, stale, raced,
                          last, disordered, blind>>
  <2>1. req[r].pc = "create" /\ stale' = stale
        /\ UNCHANGED <<clock, items, follows, table, died, raced, last,
                       disordered, blind>>
    BY <1>2 DEF CreateFails
  <2>2. failed \subseteq Requests
    BY DEF Base, StateOK
  <2>3. QED  BY <1>2, <2>1, <2>2, GotoStep DEF Over
<1>3. QED  BY <1>1, <1>2 DEF CreateFails

\* Reading a notification changes nothing else.
LEMMA ReadNotificationCalm ==
  ASSUME Base, ReadNotification
  PROVE  Base' /\ Calm
<1>1. PICK n \in notes : read' = read \cup {n.id}
  BY DEF ReadNotification
<1>2. /\ req' = req /\ clock' = clock
      /\ UNCHANGED <<items, follows, notes, died, history>>
  BY DEF ReadNotification
<1>3. clock \in Nat /\ read \subseteq {m.id : m \in notes}
  BY DEF Base, StateOK
<1>4. QED  BY <1>1, <1>2, <1>3, UnmovedStep

\* Neither does time.
LEMMA TickCalm ==
  ASSUME Base, Tick
  PROVE  Base' /\ Calm
<1>1. /\ req' = req /\ clock' = clock + 1 /\ read' = read
      /\ UNCHANGED <<items, follows, notes, died, history>>
  BY DEF Tick, table
<1>2. clock \in Nat /\ read \subseteq {m.id : m \in notes}
  BY DEF Base, StateOK
<1>3. QED  BY <1>1, <1>2, UnmovedStep
---------------------------------------------------------------------------
(* The actions that write.                                                 *)

\* A like of a post is counted or no longer counted, and whoever looked
\* before is overtaken.
Toggled(r, p, u) ==
  /\ req[r].pc \in {"add", "remove"} /\ req[r].trigger = p /\ req[r].user = u
  /\ req'[r].pc = "fetch" /\ \A q \in Requests \ {r} : req'[q] = req[q]
  /\ \A q \in Posts \ {p} : likes'[q] = likes[q]
  /\ likes'[p] = IF req[r].pc = "add" THEN likes[p] + 1 ELSE likes[p] - 1
  /\ \A x \in Posts \X Users : x # <<p, u>> => liked'[x] = liked[x]
  /\ liked'[<<p, u>>] = IF req[r].pc = "add" THEN liked[<<p, u>>] + 1 ELSE 0
  /\ stale' = (stale \cup Overtaken(r)) \ {r}
  /\ raced' = IF r \in stale THEN raced \cup {<<p, u>>} ELSE raced

\* LikeOrDislikePost writes nothing but the like.
LEMMA LikeOrDislikePostToggles ==
  ASSUME Base, NEW r \in Requests, LikeOrDislikePost(r)
  PROVE  /\ Base' /\ FollowsCalm /\ NotesCalm /\ Notifies
         /\ \E p \in Posts, u \in Users : Toggled(r, p, u)
<1>1. /\ StateOK /\ req \in [Requests -> Request] /\ clock \in Nat
      /\ req[r].pc \in {"add", "remove"} /\ ReqOK(r)
      /\ req[r].trigger \in Posts /\ req[r].user \in Users
  BY DEF Base, StateOK, LikeOrDislikePost, ReqOK, Over
<1>2. PICK p \in Posts, u \in Users : p = req[r].trigger /\ u = req[r].user
  BY <1>1
<1>3. PICK x \in Likers : x = <<p, u>>
  BY DEF Likers, Items
<1>4. /\ Goto(r, "fetch")
      /\ clock' = clock /\ followed' = followed /\ unfollowed' = unfollowed
      /\ notes' = notes /\ read' = read /\ died' = died
      /\ last' = last /\ disordered' = disordered /\ blind' = blind
      /\ failed' = failed
      /\ stale' = (stale \cup Overtaken(r)) \ {r}
      /\ raced' = IF r \in stale THEN raced \cup {x} ELSE raced
  BY <1>2, <1>3 DEF LikeOrDislikePost, follows, table
<1>5. \/ /\ req[r].pc = "add"
         /\ likes' = [likes EXCEPT ![p] = @ + 1]
         /\ liked' = [liked EXCEPT ![x] = @ + 1]
      \/ /\ req[r].pc = "remove"
         /\ likes' = [likes EXCEPT ![p] = @ - 1]
         /\ liked' = [liked EXCEPT ![x] = 0]
  BY <1>2, <1>3 DEF LikeOrDislikePost, RemoveLike
<1>6. p \in Items /\ likes \in [Items -> Int] /\ liked \in [Likers -> Nat]
  BY <1>1 DEF StateOK, Items
<1>7. /\ likes' \in [Items -> Int] /\ liked' \in [Likers -> Nat]
      /\ \A q \in Posts \ {p} : likes'[q] = likes[q]
      /\ likes'[p] = IF req[r].pc = "add" THEN likes[p] + 1 ELSE likes[p] - 1
      /\ \A y \in Likers : y # x => liked'[y] = liked[y]
      /\ liked'[x] = IF req[r].pc = "add" THEN liked[x] + 1 ELSE 0
  BY <1>5, <1>6 DEF Items
<1>8. Becomes(r, "fetch") /\ Same(r)
  BY <1>1, <1>4, GotoIs DEF PC
<1>9. stale' \subseteq Requests /\ raced' \subseteq Posts \X Users
  BY <1>1, <1>3, <1>4 DEF StateOK, Overtaken
<1>10. StateOK'
  BY <1>1, <1>4, <1>7, <1>9 DEF StateOK
<1>11. ReqOK(r)'
  BY <1>1, <1>8 DEF ReqOK, Becomes, Same, Over
<1>12. Base'
  BY <1>1, <1>4, <1>8, <1>10, <1>11, BaseOfStep DEF Grows
<1>13. FollowsCalm /\ NotesCalm /\ Notifies
  BY <1>1, <1>4, <1>8 DEF FollowsCalm, NotesCalm, Notifies, Becomes
<1>14. Toggled(r, p, u)
  <2>1. \A y \in Posts \X Users : y \in Likers
    BY DEF Likers, Items
  <2>2. QED
    BY <1>1, <1>2, <1>3, <1>4, <1>7, <1>8, <2>1 DEF Toggled, Becomes
<1>15. QED  BY <1>12, <1>13, <1>14

\* A request has taken the time of its follow.
Stamped(r) ==
  /\ clock' = clock + 1 /\ followed' = followed /\ unfollowed' = unfollowed
  /\ last' = last /\ disordered' = disordered
  /\ req'[r].date = clock + 1 /\ \A q \in Requests \ {r} : req'[q] = req[q]

\* FollowStamp takes a time that nobody has taken.
LEMMA FollowStampStamps ==
  ASSUME Base, NEW r \in Requests, FollowStamp(r)
  PROVE  Base' /\ LikesCalm /\ NotesCalm /\ Notifies /\ Stamped(r)
<1>1. /\ StateOK /\ req \in [Requests -> Request] /\ clock \in Nat
      /\ ReqOK(r) /\ req[r].pc \in {"follow", "unfollow"}
      /\ req[r] \in Request
  BY DEF Base, StateOK, FollowStamp
<1>2. /\ clock' = clock + 1 /\ likes' = likes /\ liked' = liked
      /\ followed' = followed /\ unfollowed' = unfollowed
      /\ notes' = notes /\ read' = read /\ died' = died /\ raced' = raced
      /\ last' = last /\ disordered' = disordered /\ blind' = blind
      /\ stale' = stale /\ failed' = failed
  BY DEF FollowStamp, items, follows, table, history
<1>3. PICK pc \in {"follow_write", "unfollow_write"} :
        /\ req' = [req EXCEPT ![r].pc = pc, ![r].date = clock + 1]
        /\ pc = "unfollow_write" => req[r].pc = "unfollow"
  BY DEF FollowStamp
<1>4. /\ Becomes(r, pc) /\ req'[r].date = clock + 1
      /\ req'[r].event = req[r].event /\ req'[r].user = req[r].user
      /\ req'[r].to = req[r].to /\ req'[r].trigger = req[r].trigger
  <2> DEFINE x == [req[r] EXCEPT !.pc = pc, !.date = clock + 1]
  <2>1. req' = [req EXCEPT ![r] = x]
    BY <1>3
  <2>2. /\ x.pc = pc /\ x.date = clock + 1 /\ x.event = req[r].event
        /\ x.user = req[r].user /\ x.to = req[r].to
        /\ x.trigger = req[r].trigger
    BY <1>1 DEF Request
  <2>3. x \in Request
    <3>1. clock + 1 \in Nat /\ pc \in PC
      BY <1>1 DEF PC
    <3>2. QED  BY <1>1, <3>1 DEF Request
  <2> HIDE DEF x
  <2>4. QED  BY <1>1, <2>1, <2>2, <2>3 DEF Becomes
<1>5. StateOK'
  <2>1. \A n \in notes : n.date <= clock + 1
    BY <1>1 DEF StateOK, Note
  <2>2. QED  BY <1>1, <1>2, <2>1 DEF StateOK
<1>6. ReqOK(r)'
  BY <1>1, <1>2, <1>3, <1>4 DEF ReqOK, Becomes, Over
<1>7. Base'
  BY <1>1, <1>2, <1>4, <1>5, <1>6, BaseOfStep DEF Grows
<1>8. LikesCalm /\ NotesCalm /\ Notifies /\ Stamped(r)
  BY <1>1, <1>2, <1>4
  DEF LikesCalm, NotesCalm, Notifies, Stamped, Becomes
<1>9. QED  BY <1>7, <1>8

\* One of the dates of a follow has been written.
Wrote(r, x) ==
  /\ req[r].pc \in {"follow_write", "unfollow_write"}
  /\ req'[r].pc \in {"lookup", "ok"}
  /\ clock' = clock
  /\ \A y \in Follow \ {x} : /\ followed'[y] = followed[y]
                             /\ unfollowed'[y] = unfollowed[y]
                             /\ last'[y] = last[y]
  /\ IF req[r].pc = "follow_write"
     THEN /\ followed'[x] = req[r].date /\ unfollowed'[x] = unfollowed[x]
          /\ last'[x] = "follow"
     ELSE /\ unfollowed'[x] = req[r].date /\ followed'[x] = followed[x]
          /\ last'[x] = "unfollow" /\ followed[x] > 0
  /\ disordered' = IF req[r].date < followed[x] \/ req[r].date < unfollowed[x]
                     THEN disordered \cup {x} ELSE disordered
  /\ \A q \in Requests \ {r} : req'[q] = req[q]

\* ToggleFollowUser writes the time it took, into a row that exists or as one.
LEMMA ToggleFollowUserWrites ==
  ASSUME Base, NEW r \in Requests, ToggleFollowUser(r)
  PROVE  /\ Base' /\ LikesCalm /\ NotesCalm /\ Notifies
         /\ \E x \in Follow : Wrote(r, x)
<1>1. /\ StateOK /\ req \in [Requests -> Request] /\ clock \in Nat
      /\ ReqOK(r) /\ req[r].pc \in {"follow_write", "unfollow_write"}
      /\ req[r] \in Request /\ req[r].date \in Nat
      /\ 0 < req[r].date /\ req[r].date <= clock
      /\ req[r].user \in Users /\ req[r].to \in Users
      /\ req[r].event = "follow"
  BY DEF Base, StateOK, ToggleFollowUser, ReqOK, Request, Over
<1>2. PICK x \in Follow : x = <<req[r].user, req[r].to>>
  BY <1>1 DEF Follow
<1>3. /\ clock' = clock /\ likes' = likes /\ liked' = liked
      /\ notes' = notes /\ read' = read /\ died' = died /\ raced' = raced
      /\ blind' = blind /\ stale' = stale /\ failed' = failed
      /\ disordered' = IF req[r].date < followed[x] \/ req[r].date < unfollowed[x]
                         THEN disordered \cup {x} ELSE disordered
  BY <1>2 DEF ToggleFollowUser, items, table
<1>4. PICK pc \in {"lookup", "ok"} : Goto(r, pc)
  BY DEF ToggleFollowUser
<1>5. \/ /\ req[r].pc = "follow_write"
         /\ followed' = [followed EXCEPT ![x] = req[r].date]
         /\ last' = [last EXCEPT ![x] = "follow"]
         /\ unfollowed' = unfollowed
      \/ /\ req[r].pc = "unfollow_write"
         /\ unfollowed' = [unfollowed EXCEPT ![x] = req[r].date]
         /\ last' = [last EXCEPT ![x] = "unfollow"]
         /\ followed' = followed
  BY <1>2 DEF ToggleFollowUser, InsertFollow
<1>6. Becomes(r, pc) /\ Same(r)
  BY <1>1, <1>4, GotoIs DEF PC
<1>7. /\ followed \in [Follow -> Nat] /\ unfollowed \in [Follow -> Nat]
      /\ last \in [Follow -> {"none", "follow", "unfollow"}]
      /\ \A y \in Follow : last[y] = "none" <=> followed[y] = 0
  BY <1>1 DEF StateOK
<1>8. req[r].pc = "unfollow_write" => followed[x] > 0
  BY <1>1, <1>2 DEF ReqOK
<1>9. Wrote(r, x)
  BY <1>1, <1>3, <1>5, <1>6, <1>7, <1>8 DEF Wrote, Becomes
<1>10. /\ followed' \in [Follow -> Nat] /\ unfollowed' \in [Follow -> Nat]
       /\ last' \in [Follow -> {"none", "follow", "unfollow"}]
       /\ \A y \in Follow : last'[y] = "none" <=> followed'[y] = 0
       /\ \A y \in Follow : followed[y] > 0 => followed'[y] > 0
  <2>1. CASE req[r].pc = "follow_write"
    BY <1>1, <1>5, <1>7, <2>1
  <2>2. CASE req[r].pc = "unfollow_write"
    BY <1>1, <1>5, <1>7, <1>8, <2>2
  <2>3. QED  BY <1>1, <2>1, <2>2
<1>11. StateOK'
  BY <1>1, <1>3, <1>10 DEF StateOK
<1>12. ReqOK(r)'
  BY <1>1, <1>6 DEF ReqOK, Becomes, Same, Over
<1>13. Base'
  BY <1>1, <1>3, <1>6, <1>10, <1>11, <1>12, BaseOfStep DEF Grows
<1>14. LikesCalm /\ NotesCalm /\ Notifies
  BY <1>1, <1>3, <1>6
  DEF LikesCalm, NotesCalm, Notifies, Becomes, Same
<1>15. QED  BY <1>9, <1>13, <1>14

\* A notification has been created now, and its rivals have looked before.
Created(r, n) ==
  /\ req[r].pc = "create" /\ n.id = r /\ n.event = req[r].event
  /\ n.by = req[r].user /\ n.to = req[r].to /\ n.trigger = req[r].trigger
  /\ n.date = clock + 1 /\ clock' = clock + 1
  /\ notes' = notes \cup {n} /\ blind' = blind \cup Rivals(r)
  /\ req'[r].pc = "ok" /\ \A q \in Requests \ {r} : req'[q] = req[q]

\* CreateNotification creates the one of its request.
LEMMA CreateNotificationCreates ==
  ASSUME Base, NEW r \in Requests, CreateNotification(r)
  PROVE  /\ Base' /\ LikesCalm /\ FollowsCalm /\ Notifies
         /\ \E n \in Note : Created(r, n)
<1>1. /\ StateOK /\ req \in [Requests -> Request] /\ clock \in Nat
      /\ ReqOK(r) /\ req[r].pc = "create" /\ Goto(r, "ok")
      /\ req[r].event \in {"like_post", "like_comment", "comment", "follow"}
      /\ req[r].user \in Users /\ req[r].to \in Users
      /\ req[r].trigger \in Items \cup Requests \cup Users
      /\ req[r].event = "like_post" => req[r].trigger \in Posts
  BY DEF Base, StateOK, CreateNotification, ReqOK, Over
<1>2. PICK n \in Note :
        n = [id |-> r, event |-> req[r].event, by |-> req[r].user,
             to |-> req[r].to, trigger |-> req[r].trigger, date |-> clock + 1]
  <2>1. clock + 1 \in Nat
    BY <1>1
  <2>2. [id |-> r, event |-> req[r].event, by |-> req[r].user,
         to |-> req[r].to, trigger |-> req[r].trigger, date |-> clock + 1]
          \in Note
    BY <1>1, <2>1 DEF Note
  <2>3. QED  BY <2>2
<1>3. /\ clock' = clock + 1 /\ likes' = likes /\ liked' = liked
      /\ followed' = followed /\ unfollowed' = unfollowed
      /\ notes' = notes \cup {n} /\ blind' = blind \cup Rivals(r)
      /\ read' = read /\ died' = died /\ raced' = raced
      /\ last' = last /\ disordered' = disordered
      /\ stale' = stale /\ failed' = failed
  BY <1>2 DEF CreateNotification, items, follows
<1>4. Becomes(r, "ok") /\ Same(r)
  BY <1>1, GotoIs DEF PC
<1>5. /\ n.id = r /\ n.event = req[r].event /\ n.by = req[r].user
      /\ n.to = req[r].to /\ n.trigger = req[r].trigger /\ n.date = clock + 1
  BY <1>2
<1>6. StateOK'
  <2>1. \A m \in notes' : /\ m.date <= clock'
                          /\ m.event = "like_post" => m.trigger \in Posts
    BY <1>1, <1>3, <1>5 DEF StateOK, Note
  <2>2. blind' \subseteq Requests
    BY <1>1, <1>3 DEF StateOK, Rivals
  <2>3. notes' \subseteq Note /\ read' \subseteq {m.id : m \in notes'}
    BY <1>1, <1>3 DEF StateOK
  <2>4. QED  BY <1>1, <1>3, <2>1, <2>2, <2>3 DEF StateOK
<1>7. ReqOK(r)'
  BY <1>1, <1>4 DEF ReqOK, Becomes, Same, Over
<1>8. Base'
  BY <1>1, <1>3, <1>4, <1>6, <1>7, BaseOfStep DEF Grows
<1>9. LikesCalm /\ FollowsCalm
  BY <1>1, <1>3, <1>4 DEF LikesCalm, FollowsCalm, Becomes
<1>10. Notifies
  <2>1. Told(r)'
    BY <1>3, <1>4, <1>5 DEF Told, Same
  <2>2. QED  BY <1>3, <1>4, <2>1 DEF Notifies, Becomes
<1>11. Created(r, n)
  BY <1>1, <1>3, <1>4, <1>5 DEF Created, Becomes
<1>12. QED  BY <1>8, <1>9, <1>10, <1>11
---------------------------------------------------------------------------
(* Every step.                                                             *)

\* Every step is calm, or writes a like, takes or writes a date of a follow,
\* or creates a notification.
LEMMA Steps ==
  ASSUME Base, [Next]_vars
  PROVE  /\ Base' /\ Notifies
         /\ LikesCalm \/ \E r \in Requests, p \in Posts, u \in Users :
                           Toggled(r, p, u)
         /\ FollowsCalm \/ \E r \in Requests :
                             \/ FollowStamp(r) /\ Stamped(r)
                             \/ \E x \in Follow : Wrote(r, x)
         /\ NotesCalm \/ \E r \in Requests, n \in Note : Created(r, n)
<1>1. CASE Base' /\ Calm
  BY <1>1 DEF Calm
<1>2. CASE UNCHANGED vars
  <2>1. /\ req' = req /\ clock' = clock /\ read' = read
        /\ UNCHANGED <<items, follows, notes, died, history>>
    BY <1>2 DEF vars, items, follows, history
  <2>2. clock \in Nat /\ read \subseteq {m.id : m \in notes}
    BY DEF Base, StateOK
  <2>3. QED  BY <1>1, <2>1, <2>2, UnmovedStep
<1>3. ASSUME NEW r \in Requests, LikeStep(r)
      PROVE  Base' /\ (Calm \/ LikeOrDislikePost(r))
  <2>1. CASE \E u \in Users : \E p \in Posts : LikePostRead(r, u, p)
    BY <2>1, LikePostReadCalm
  <2>2. CASE \E u \in Users : \E c \in Comments : LikeComment(r, u, c)
    BY <2>2, LikeCommentCalm
  <2>3. CASE \E u \in Users : \E p \in Posts : CreateComment(r, u, p)
    BY <2>3, CreateCommentCalm
  <2>4. CASE LikeOrDislikePost(r)
    BY <2>4, LikeOrDislikePostToggles
  <2>5. CASE FetchPost(r)
    BY <2>5, FetchPostCalm
  <2>6. CASE FetchPostPanics(r)
    BY <2>6, DiesStep DEF FetchPostPanics
  <2>7. QED
    BY <1>3, <2>1, <2>2, <2>3, <2>4, <2>5, <2>6 DEF LikeStep
<1>4. ASSUME NEW r \in Requests, FollowStep(r)
      PROVE  (Base' /\ Calm) \/ FollowStamp(r) \/ ToggleFollowUser(r)
  BY <1>4, FollowReadCalm DEF FollowStep
<1>5. ASSUME NEW r \in Requests, SendStep(r)
      PROVE  (Base' /\ Calm) \/ CreateNotification(r)
  BY <1>5, ShouldSendNotificationCalm, CreateFailsCalm, SendFailsCalm
  DEF SendStep
<1>6. CASE \E r \in Requests : LikeOrDislikePost(r)
  BY <1>6, LikeOrDislikePostToggles
<1>7. CASE \E r \in Requests : FollowStamp(r)
  BY <1>7, FollowStampStamps
<1>8. CASE \E r \in Requests : ToggleFollowUser(r)
  BY <1>8, ToggleFollowUserWrites
<1>9. CASE \E r \in Requests : CreateNotification(r)
  BY <1>9, CreateNotificationCreates
<1>10. CASE \E r \in Requests : RequestFails(r)
  BY <1>1, <1>10, RequestFailsCalm
<1>11. CASE ReadNotification \/ Tick
  BY <1>1, <1>11, ReadNotificationCalm, TickCalm
<1>12. QED
  BY <1>1, <1>2, <1>3, <1>4, <1>5, <1>6, <1>7, <1>8, <1>9, <1>10, <1>11
  DEF Next

\* At the beginning there is nothing.
LEMMA BaseInit == Init => Base
<1>1. SUFFICES ASSUME Init PROVE Base
  OBVIOUS
<1>2. StateOK
  <2>1. /\ clock = 1 /\ clock \in Nat
        /\ likes \in [Items -> Int] /\ liked \in [Likers -> Nat]
        /\ followed \in [Follow -> Nat] /\ unfollowed \in [Follow -> Nat]
    BY <1>1 DEF Init
  <2>2. /\ last \in [Follow -> {"none", "follow", "unfollow"}]
        /\ \A x \in Follow : last[x] = "none" /\ followed[x] = 0
    BY <1>1 DEF Init
  <2>3. /\ notes = {} /\ read = {} /\ died = FALSE /\ stale = {} /\ raced = {}
        /\ disordered = {} /\ blind = {} /\ failed = {}
    BY <1>1 DEF Init
  <2>4. QED  BY <2>1, <2>2, <2>3 DEF StateOK
<1>3. req = [r \in Requests |-> [pc |-> "idle", event |-> None, user |-> None,
                                 to |-> None, trigger |-> None, date |-> 0]]
  BY <1>1 DEF Init
<1>4. ASSUME NEW r \in Requests
      PROVE  req[r] \in Request /\ req[r].pc = "idle"
  BY <1>3 DEF Request, PC
<1>5. req \in [Requests -> Request]
  BY <1>3, <1>4
<1>6. \A r \in Requests : ReqOK(r)
  BY <1>4 DEF ReqOK, Over
<1>7. QED  BY <1>2, <1>5, <1>6 DEF Base

\* In every behaviour the rows and the requests are well formed.
LEMMA BaseCorrect == Spec => []Base
<1>1. Base /\ [Next]_vars => Base'
  BY Steps
<1>2. QED  BY BaseInit, <1>1, PTL DEF Spec

\* The rows and the requests have their types, and a follow row that was
\* never written has no dates.
THEOREM TypeCorrect == Spec => []TypeOK
<1>1. Base => TypeOK
  BY DEF Base, StateOK, TypeOK
<1>2. QED  BY BaseCorrect, <1>1, PTL
---------------------------------------------------------------------------
(* Likes.                                                                  *)

\* Who likes the post p
Fans(p) == {u \in Users : liked[<<p, u>>] > 0}

\* A count is exact and no user is listed twice unless a read was overtaken,
\* and a read that was not still holds.
LikesOK ==
  /\ \A p \in Posts : (\A u \in Users : <<p, u>> \notin raced) =>
       likes[p] = Cardinality(Fans(p))
  /\ \A p \in Posts, u \in Users :
       <<p, u>> \notin raced => liked[<<p, u>>] <= 1
  /\ \A r \in Requests : req[r].pc \in {"add", "remove"} /\ r \notin stale =>
       (req[r].pc = "add" <=> liked[<<req[r].trigger, req[r].user>>] = 0)

\* Only the like of a post touches what it says.
LEMMA LikesCalmStep ==
  ASSUME Base, LikesOK, LikesCalm
  PROVE  LikesOK'
<1>1. \A p \in Posts : Fans(p)' = Fans(p)
  BY DEF Fans, LikesCalm
<1>2. \A p \in Posts : (\A u \in Users : <<p, u>> \notin raced') =>
        likes'[p] = Cardinality(Fans(p)')
  BY <1>1 DEF LikesOK, LikesCalm
<1>3. \A p \in Posts, u \in Users :
        <<p, u>> \notin raced' => liked'[<<p, u>>] <= 1
  BY DEF LikesOK, LikesCalm
<1>4. ASSUME NEW r \in Requests, req'[r].pc \in {"add", "remove"},
             r \notin stale'
      PROVE  req'[r].pc = "add" <=>
               liked'[<<req'[r].trigger, req'[r].user>>] = 0
  <2>1. CASE req'[r] = req[r] /\ r \notin stale
    <3>1. req[r].trigger \in Posts /\ req[r].user \in Users
      BY <1>4, <2>1 DEF Base, ReqOK, Over
    <3>2. liked'[<<req[r].trigger, req[r].user>>] =
            liked[<<req[r].trigger, req[r].user>>]
      BY <3>1 DEF LikesCalm
    <3>3. QED  BY <1>4, <2>1, <3>2 DEF LikesOK
  <2>2. QED  BY <1>4, <2>1 DEF LikesCalm
<1>5. QED  BY <1>2, <1>3, <1>4 DEF LikesOK

\* A like counts one more for a user who was not listed, or one less for one
\* who was, if its read was not overtaken.
LEMMA ToggledStep ==
  ASSUME Base, LikesOK, NEW r \in Requests, NEW p \in Posts, NEW u \in Users,
         Toggled(r, p, u)
  PROVE  LikesOK'
<1>1. /\ likes \in [Items -> Int] /\ liked \in [Likers -> Nat]
      /\ raced \subseteq Posts \X Users
  BY DEF Base, StateOK
<1>2. /\ likes[p] \in Int
      /\ \A q \in Posts, v \in Users : liked[<<q, v>>] \in Nat
  BY <1>1 DEF Items, Likers
<1>3. /\ \A q \in Posts, v \in Users :
           ~(q = p /\ v = u) => liked'[<<q, v>>] = liked[<<q, v>>]
      /\ raced \subseteq raced'
      /\ r \in stale => <<p, u>> \in raced'
      /\ r \notin stale => raced' = raced
  BY DEF Toggled
<1>4. ASSUME r \notin stale
      PROVE  req[r].pc = "add" <=> liked[<<p, u>>] = 0
  BY <1>4 DEF LikesOK, Toggled
<1>5. ASSUME NEW q \in Posts, \A v \in Users : <<q, v>> \notin raced'
      PROVE  likes'[q] = Cardinality(Fans(q)')
  <2>1. likes[q] = Cardinality(Fans(q))
    BY <1>3, <1>5 DEF LikesOK
  <2>2. CASE q # p
    <3>1. Fans(q)' = Fans(q)
      BY <1>3, <2>2 DEF Fans
    <3>2. QED  BY <2>1, <2>2, <3>1 DEF Toggled
  <2>3. CASE q = p
    <3>1. r \notin stale
      BY <1>3, <1>5, <2>3
    <3>2. IsFiniteSet(Fans(p))
      BY SocialAssumption, FS_Subset DEF Fans
    <3>3. CASE req[r].pc = "add"
      <4>1. u \notin Fans(p) /\ liked'[<<p, u>>] = liked[<<p, u>>] + 1
        BY <1>4, <3>1, <3>3 DEF Fans, Toggled
      <4>2. Fans(p)' = Fans(p) \cup {u}
        BY <1>2, <1>3, <4>1 DEF Fans
      <4>3. Cardinality(Fans(p)') = Cardinality(Fans(p)) + 1
        BY <3>2, <4>1, <4>2, FS_AddElement
      <4>4. QED  BY <2>1, <2>3, <3>3, <4>3 DEF Toggled
    <3>4. CASE req[r].pc # "add"
      <4>1. u \in Fans(p) /\ liked'[<<p, u>>] = 0
        BY <1>2, <1>4, <3>1, <3>4 DEF Fans, Toggled
      <4>2. Fans(p)' = Fans(p) \ {u}
        BY <1>2, <1>3, <4>1 DEF Fans
      <4>3. Cardinality(Fans(p)') = Cardinality(Fans(p)) - 1
        BY <3>2, <4>1, <4>2, FS_RemoveElement
      <4>4. QED  BY <2>1, <2>3, <3>4, <4>3 DEF Toggled
    <3>5. QED  BY <3>3, <3>4
  <2>4. QED  BY <2>2, <2>3
<1>6. ASSUME NEW q \in Posts, NEW v \in Users, <<q, v>> \notin raced'
      PROVE  liked'[<<q, v>>] <= 1
  <2>1. liked[<<q, v>>] <= 1
    BY <1>3, <1>6 DEF LikesOK
  <2>2. CASE q = p /\ v = u
    <3>1. r \notin stale
      BY <1>3, <1>6, <2>2
    <3>2. liked'[<<p, u>>] = IF req[r].pc = "add" THEN liked[<<p, u>>] + 1
                                                  ELSE 0
      BY DEF Toggled
    <3>3. QED  BY <1>2, <1>4, <2>2, <3>1, <3>2
  <2>3. CASE ~(q = p /\ v = u)
    BY <1>3, <2>1, <2>3
  <2>4. QED  BY <2>2, <2>3
<1>7. ASSUME NEW q \in Requests, req'[q].pc \in {"add", "remove"},
             q \notin stale'
      PROVE  req'[q].pc = "add" <=>
               liked'[<<req'[q].trigger, req'[q].user>>] = 0
  <2>1. q # r /\ req'[q] = req[q]
    BY <1>7 DEF Toggled
  <2>2. q \notin stale /\ ~(req[q].trigger = p /\ req[q].user = u)
    BY <1>7, <2>1 DEF Toggled, Overtaken
  <2>3. req[q].trigger \in Posts /\ req[q].user \in Users
    BY <1>7, <2>1 DEF Base, ReqOK, Over
  <2>4. liked'[<<req[q].trigger, req[q].user>>] =
          liked[<<req[q].trigger, req[q].user>>]
    BY <1>3, <2>2, <2>3
  <2>5. QED  BY <1>7, <2>1, <2>2, <2>4 DEF LikesOK
<1>8. QED  BY <1>5, <1>6, <1>7 DEF LikesOK

\* A post has as many likes as users who like it, each listed once, unless
\* two LikePost requests of one user overlapped.
THEOREM LikesExactCorrect == Spec => []LikesExact
<1>1. Init => LikesOK
  <2>1. SUFFICES ASSUME Init PROVE LikesOK
    OBVIOUS
  <2>2. \A p \in Posts : likes[p] = 0 /\ \A u \in Users : liked[<<p, u>>] = 0
    BY <2>1 DEF Init, Items, Likers
  <2>3. \A p \in Posts : Fans(p) = {}
    BY <2>2 DEF Fans
  <2>4. \A r \in Requests : req[r].pc = "idle"
    BY <2>1 DEF Init
  <2>5. Cardinality({}) = 0
    BY FS_EmptySet
  <2>6. QED  BY <2>2, <2>3, <2>4, <2>5 DEF LikesOK
<1>2. Base /\ LikesOK /\ [Next]_vars => LikesOK'
  BY Steps, LikesCalmStep, ToggledStep
<1>3. LikesOK => LikesExact
  BY DEF LikesOK, LikesExact, Fans, HasUserLikedPost
<1>4. QED  BY BaseCorrect, <1>1, <1>2, <1>3, PTL DEF Spec
---------------------------------------------------------------------------
(* Follows.                                                                *)

Writing(r) == req[r].pc \in {"follow_write", "unfollow_write"}

\* All dates are of the past and no two are equal, and a row that was written
\* in the order of its dates shows what was written last.
FollowsOK ==
  /\ \A x \in Follow : followed[x] <= clock /\ unfollowed[x] <= clock
  /\ \A r \in Requests : Writing(r) => \A x \in Follow :
       followed[x] # req[r].date /\ unfollowed[x] # req[r].date
  /\ \A r, q \in Requests :
       r # q /\ Writing(r) /\ Writing(q) => req[r].date # req[q].date
  /\ \A x \in Follow \ disordered :
       /\ last[x] = "follow" => followed[x] > unfollowed[x]
       /\ last[x] = "unfollow" =>
            unfollowed[x] > 0 /\ followed[x] <= unfollowed[x]

\* Only dates that are taken or written touch what it says.
LEMMA FollowsCalmStep ==
  ASSUME Base, FollowsOK, FollowsCalm
  PROVE  FollowsOK'
<1>1. /\ clock \in Nat /\ followed \in [Follow -> Nat]
      /\ unfollowed \in [Follow -> Nat]
  BY DEF Base, StateOK
<1>2. \A r \in Requests : Writing(r)' => req'[r] = req[r] /\ Writing(r)
  BY DEF FollowsCalm, Writing
<1>3. QED  BY <1>1, <1>2 DEF FollowsOK, FollowsCalm

\* The time that is taken is later than all others.
LEMMA StampedStep ==
  ASSUME Base, FollowsOK, NEW r \in Requests, Stamped(r)
  PROVE  FollowsOK'
<1>1. /\ clock \in Nat /\ followed \in [Follow -> Nat]
      /\ unfollowed \in [Follow -> Nat]
  BY DEF Base, StateOK
<1>2. /\ clock' = clock + 1 /\ followed' = followed /\ unfollowed' = unfollowed
      /\ last' = last /\ disordered' = disordered
      /\ req'[r].date = clock + 1
      /\ \A q \in Requests \ {r} : req'[q] = req[q]
  BY DEF Stamped
<1>3. ASSUME NEW q \in Requests \ {r}, Writing(q)'
      PROVE  /\ Writing(q) /\ req'[q] = req[q]
             /\ req[q].date \in Nat /\ req[q].date <= clock
  <2>1. req[q] \in Request /\ ReqOK(q)
    BY DEF Base
  <2>2. QED  BY <1>2, <1>3, <2>1 DEF Writing, ReqOK, Request
<1>4. \A x \in Follow : followed'[x] <= clock' /\ unfollowed'[x] <= clock'
  BY <1>1, <1>2 DEF FollowsOK
<1>5. ASSUME NEW q \in Requests, Writing(q)', NEW x \in Follow
      PROVE  followed'[x] # req'[q].date /\ unfollowed'[x] # req'[q].date
  <2>1. CASE q = r
    BY <1>1, <1>2, <2>1 DEF FollowsOK
  <2>2. CASE q # r
    BY <1>2, <1>3, <1>5, <2>2 DEF FollowsOK
  <2>3. QED  BY <2>1, <2>2
<1>6. \A p, q \in Requests :
        p # q /\ Writing(p)' /\ Writing(q)' => req'[p].date # req'[q].date
  BY <1>1, <1>2, <1>3 DEF FollowsOK
<1>7. \A x \in Follow \ disordered' :
        /\ last'[x] = "follow" => followed'[x] > unfollowed'[x]
        /\ last'[x] = "unfollow" =>
             unfollowed'[x] > 0 /\ followed'[x] <= unfollowed'[x]
  BY <1>2 DEF FollowsOK
<1>8. QED  BY <1>4, <1>5, <1>6, <1>7 DEF FollowsOK

\* A date that is written is later than both of the row, or it is disordered.
LEMMA WroteStep ==
  ASSUME Base, FollowsOK, NEW r \in Requests, NEW x \in Follow, Wrote(r, x)
  PROVE  FollowsOK'
<1>1. /\ clock \in Nat /\ followed \in [Follow -> Nat]
      /\ unfollowed \in [Follow -> Nat]
      /\ disordered \subseteq Follow
  BY DEF Base, StateOK
<1>2. /\ Writing(r) /\ req[r].date \in Nat
      /\ 0 < req[r].date /\ req[r].date <= clock /\ clock' = clock
  BY DEF Base, ReqOK, Request, Wrote, Writing
<1>3. \A q \in Requests : Writing(q)' => q # r /\ req'[q] = req[q] /\ Writing(q)
  BY DEF Wrote, Writing
<1>4. /\ \A y \in Follow \ {x} : /\ followed'[y] = followed[y]
                                 /\ unfollowed'[y] = unfollowed[y]
                                 /\ last'[y] = last[y]
      /\ \/ /\ followed'[x] = req[r].date /\ unfollowed'[x] = unfollowed[x]
            /\ last'[x] = "follow"
         \/ /\ unfollowed'[x] = req[r].date /\ followed'[x] = followed[x]
            /\ last'[x] = "unfollow"
  BY DEF Wrote
<1>5. \A y \in Follow : followed'[y] <= clock' /\ unfollowed'[y] <= clock'
  BY <1>1, <1>2, <1>4 DEF FollowsOK
<1>6. ASSUME NEW q \in Requests, Writing(q)', NEW y \in Follow
      PROVE  followed'[y] # req'[q].date /\ unfollowed'[y] # req'[q].date
  BY <1>2, <1>3, <1>4, <1>6 DEF FollowsOK
<1>7. \A p, q \in Requests :
        p # q /\ Writing(p)' /\ Writing(q)' => req'[p].date # req'[q].date
  BY <1>3 DEF FollowsOK
<1>8. ASSUME NEW y \in Follow, y \notin disordered'
      PROVE  /\ last'[y] = "follow" => followed'[y] > unfollowed'[y]
             /\ last'[y] = "unfollow" =>
                  unfollowed'[y] > 0 /\ followed'[y] <= unfollowed'[y]
  <2>1. disordered' = IF req[r].date < followed[x] \/ req[r].date < unfollowed[x]
                        THEN disordered \cup {x} ELSE disordered
    BY DEF Wrote
  <2>2. CASE y = x
    <3>1. req[r].date >= followed[x] /\ req[r].date >= unfollowed[x]
          /\ req[r].date # followed[x] /\ req[r].date # unfollowed[x]
      BY <1>1, <1>2, <1>8, <2>1, <2>2 DEF FollowsOK
    <3>2. QED  BY <1>1, <1>2, <1>4, <2>2, <3>1
  <2>3. CASE y # x
    BY <1>4, <1>8, <2>1, <2>3 DEF FollowsOK
  <2>4. QED  BY <2>2, <2>3
<1>9. QED  BY <1>5, <1>6, <1>7, <1>8 DEF FollowsOK

\* Whether f follows t is what the latest write said, whichever of the two
\* dates it wrote, unless the writes came in another order than their dates
\* were taken.
THEOREM FollowsLastWriteCorrect == Spec => []FollowsLastWrite
<1>1. Init => FollowsOK
  BY DEF Init, FollowsOK, Writing
<1>2. Base /\ FollowsOK /\ [Next]_vars => FollowsOK'
  BY Steps, FollowsCalmStep, StampedStep, WroteStep
<1>3. ASSUME Base, FollowsOK  PROVE FollowsLastWrite
  <2>1. SUFFICES ASSUME NEW f \in Users, NEW t \in Users,
                        <<f, t>> \notin disordered
                 PROVE  IsFollowingUser(f, t) <=> last[<<f, t>>] = "follow"
    BY DEF FollowsLastWrite
  <2>2. PICK x \in Follow : x = <<f, t>>
    BY DEF Follow
  <2>3. /\ followed[x] \in Nat /\ unfollowed[x] \in Nat
        /\ last[x] \in {"none", "follow", "unfollow"}
        /\ last[x] = "none" <=> followed[x] = 0
    BY <1>3 DEF Base, StateOK
  <2>4. /\ last[x] = "follow" => followed[x] > unfollowed[x]
        /\ last[x] = "unfollow" =>
             unfollowed[x] > 0 /\ followed[x] <= unfollowed[x]
    BY <1>3, <2>1, <2>2 DEF FollowsOK
  <2>5. IsFollowingUser(f, t) <=>
          followed[x] > 0 /\ (unfollowed[x] = 0 \/ followed[x] > unfollowed[x])
    BY <2>2 DEF IsFollowingUser, IsRow, isFollowed
  <2>6. QED  BY <2>2, <2>3, <2>4, <2>5
<1>4. QED  BY BaseCorrect, <1>1, <1>2, <1>3, PTL DEF Spec
---------------------------------------------------------------------------
(* Notifications.                                                          *)

\* Who was answered has sent its notification.
NotifiedOK ==
  \A r \in Requests : req[r].pc = "ok" =>
    \/ r \in failed
    \/ req[r].event = "follow" \/ req[r].user = req[r].to
    \/ Told(r)

\* Every like or comment for somebody else that was answered has left a
\* notification for its receiver, unless an error of Send was logged: Send
\* holds back only what has been sent before.
THEOREM InteractionsNotifiedCorrect == Spec => []InteractionsNotified
<1>1. Init => NotifiedOK
  BY DEF Init, NotifiedOK
<1>2. ASSUME Base, NotifiedOK, [Next]_vars  PROVE NotifiedOK'
  <2>1. Notifies
    BY <1>2, Steps
  <2>2. SUFFICES ASSUME NEW r \in Requests, req'[r].pc = "ok", req'[r] = req[r]
                 PROVE  \/ r \in failed'
                        \/ req'[r].event = "follow" \/ req'[r].user = req'[r].to
                        \/ Told(r)'
    BY <2>1 DEF Notifies, NotifiedOK
  <2>3. Told(r) => Told(r)'
    BY <2>1, <2>2 DEF Told, Notifies
  <2>4. QED  BY <1>2, <2>1, <2>2, <2>3 DEF NotifiedOK, Notifies
<1>3. NotifiedOK => InteractionsNotified
  BY DEF NotifiedOK, InteractionsNotified, Told
<1>4. QED  BY BaseCorrect, <1>1, <1>2, <1>3, PTL DEF Spec

\* The earlier notifications of what n is about
Earlier(n) == {m \in notes : /\ m.to = n.to /\ m.by = n.by
                             /\ m.trigger = n.trigger
                             /\ m.event = n.event /\ m.date < n.date}

\* A notification of a like is the first or late enough, and so is one that is
\* about to be created, unless a rival was created since it looked.
ResentOK ==
  /\ \A n \in notes : n.event = "like_post" /\ n.id \notin blind =>
       Earlier(n) = {} \/ \E m \in Earlier(n) : n.date - m.date > Gap
  /\ \A r \in Requests \ blind :
       req[r].pc = "create" /\ req[r].event = "like_post" => Found(r)

\* What was found stays found while time passes.
LEMMA FoundStays ==
  ASSUME Base, NEW r \in Requests, Found(r), req'[r] = req[r],
         Previous(r)' = Previous(r), clock' \in Nat, clock <= clock'
  PROVE  Found(r)'
<1>1. clock \in Nat /\ \A n \in Previous(r) : n.date \in Nat
  BY DEF Base, StateOK, Previous, Note
<1>2. \A n \in Previous(r) :
        ResendConditionAfter(n) => ResendConditionAfter(n)'
  BY <1>1, SocialAssumption DEF ResendConditionAfter
<1>3. QED  BY <1>2 DEF Found

\* Only a creation touches what it says.
LEMMA NotesCalmStep ==
  ASSUME Base, ResentOK, NotesCalm
  PROVE  ResentOK'
<1>1. \A n \in notes' : n \in notes /\ Earlier(n)' = Earlier(n)
  BY DEF NotesCalm, Earlier
<1>2. ASSUME NEW r \in Requests \ blind', req'[r].pc = "create",
             req'[r].event = "like_post"
      PROVE  Found(r)'
  <2>1. CASE req'[r] = req[r]
    <3>1. Previous(r)' = Previous(r)
      BY <2>1 DEF Previous, NotesCalm
    <3>2. Found(r)
      BY <1>2, <2>1 DEF ResentOK, NotesCalm
    <3>3. QED  BY <2>1, <3>1, <3>2, FoundStays DEF NotesCalm
  <2>2. QED  BY <1>2, <2>1 DEF NotesCalm
<1>3. \A n \in notes' : n.event = "like_post" /\ n.id \notin blind' =>
        Earlier(n)' = {} \/ \E m \in Earlier(n)' : n.date - m.date > Gap
  BY <1>1 DEF ResentOK, NotesCalm
<1>4. QED  BY <1>2, <1>3 DEF ResentOK

\* A creation is the first or late enough, and makes its rivals blind.
LEMMA CreatedStep ==
  ASSUME Base, ResentOK, NEW r \in Requests, NEW n \in Note, Created(r, n)
  PROVE  ResentOK'
<1>1. /\ clock \in Nat /\ notes \subseteq Note
      /\ \A m \in notes : m.date \in Nat /\ m.date <= clock
  BY DEF Base, StateOK, Note
<1>2. /\ req[r].pc = "create" /\ n.id = r /\ n.event = req[r].event
      /\ n.by = req[r].user /\ n.to = req[r].to /\ n.trigger = req[r].trigger
      /\ n.date = clock + 1 /\ clock' = clock + 1
      /\ notes' = notes \cup {n} /\ blind' = blind \cup Rivals(r)
      /\ req'[r].pc = "ok" /\ \A q \in Requests \ {r} : req'[q] = req[q]
  BY DEF Created
<1>3. ASSUME NEW m \in notes, m.event = "like_post", m.id \notin blind'
      PROVE  Earlier(m)' = {} \/ \E k \in Earlier(m)' : m.date - k.date > Gap
  <2>1. Earlier(m)' = Earlier(m)
    BY <1>1, <1>2 DEF Earlier
  <2>2. QED  BY <1>2, <1>3, <2>1 DEF ResentOK
<1>4. ASSUME n.event = "like_post", n.id \notin blind'
      PROVE  Earlier(n)' = {} \/ \E k \in Earlier(n)' : n.date - k.date > Gap
  <2>1. Earlier(n)' = Previous(r)
    <3>1. Earlier(n)' = {m \in notes \cup {n} :
                           /\ m.to = n.to /\ m.by = n.by
                           /\ m.trigger = n.trigger
                           /\ m.event = n.event /\ m.date < n.date}
      BY <1>2 DEF Earlier
    <3>2. \A m \in notes : m.date < n.date
      BY <1>1, <1>2
    <3>3. ~(n.date < n.date)
      BY <1>1, <1>2
    <3>4. QED  BY <1>2, <1>4, <3>1, <3>2, <3>3 DEF Previous
  <2>2. Found(r)
    BY <1>2, <1>4 DEF ResentOK
  <2>3. \A m \in Previous(r) : ResendConditionAfter(m) => n.date - m.date > Gap
    BY <1>1, <1>2, SocialAssumption DEF ResendConditionAfter, Previous
  <2>4. QED  BY <2>1, <2>2, <2>3 DEF Found
<1>5. ASSUME NEW q \in Requests \ blind', req'[q].pc = "create",
             req'[q].event = "like_post"
      PROVE  Found(q)'
  <2>1. q # r /\ req'[q] = req[q] /\ q \notin blind /\ q \notin Rivals(r)
    BY <1>2, <1>5
  <2>2. ~(/\ req[q].to = req[r].to /\ req[q].user = req[r].user
          /\ req[q].trigger = req[r].trigger)
    BY <1>5, <2>1 DEF Rivals
  <2>3. Previous(q)' = Previous(q)
    BY <1>2, <2>1, <2>2 DEF Previous
  <2>4. Found(q)
    BY <1>5, <2>1 DEF ResentOK
  <2>5. clock' \in Nat /\ clock <= clock'
    BY <1>1, <1>2
  <2>6. QED  BY <2>1, <2>3, <2>4, <2>5, FoundStays
<1>6. QED  BY <1>2, <1>3, <1>4, <1>5 DEF ResentOK

\* A like of a post is notified again only when more than Gap has passed since
\* an earlier notification of it, unless two requests looked for one before
\* either had created it.
THEOREM ResentOnlyAfterGapCorrect == Spec => []ResentOnlyAfterGap
<1>1. Init => ResentOK
  BY DEF Init, ResentOK
<1>2. Base /\ ResentOK /\ [Next]_vars => ResentOK'
  BY Steps, NotesCalmStep, CreatedStep
<1>3. ResentOK => ResentOnlyAfterGap
  BY DEF ResentOK, ResentOnlyAfterGap, Earlier
<1>4. QED  BY BaseCorrect, <1>1, <1>2, <1>3, PTL DEF Spec
=============================================================================
