\* Two messages and one stream on a conversation of one participant, with
\* restarts, lost messages and reads that fail.
CONSTANTS
  Users = {alice}
  Convs = {c1}
  Sends = {s1, s2}
  Streams = {l1}
  None = None
  RedisFails = FALSE
  Listener = l1
  Channel = c1
  Lossy = TRUE
SPECIFICATION FairDelivery
CHECK_DEADLOCK FALSE
INVARIANTS
  AcknowledgedArrives
  StreamEndsForAReason
PROPERTIES
  ImplementsFeed
  LeavingEndsHandler
  EmptyStreamCleansUp
