\* Three likes, comments or follows among three users, statements that fail.
CONSTANTS
  alice = alice
  bob = bob
  carol = carol
  Users = {alice, bob, carol}
  Posts = {p1}
  Comments = {c1}
  Requests = {r1, r2, r3}
  Events = {"like_post", "like_comment", "comment", "follow", "read"}
  Author <- AuthorIsAlice
  None = None
  Gap = 1
  MaxTime = 2
  DbFails = TRUE
SPECIFICATION Spec
CHECK_DEADLOCK FALSE
SYMMETRY Symmetry
INVARIANTS
  LikesExact
  ResentOnlyAfterGap
  FollowsLastWrite
  InteractionsNotified
