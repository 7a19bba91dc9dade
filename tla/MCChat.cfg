\* Two users, two messages and a stream on one conversation, with errors of
\* Redis and restarts. No symmetry: it is not sound for liveness.
CONSTANTS
  Users = {alice, bob}
  Convs = {c1}
  Sends = {s1, s2}
  Streams = {l1}
  None = None
  RedisFails = TRUE
SPECIFICATION FairSpec
INVARIANTS
  UnreadBounded
  BadgeShows
  ExactUnlessRaced
  AcknowledgedIsComplete
  PublishedInStoreOrder
PROPERTIES
  SendsReturn
