\* Two streams of a user and one notification, with every failure.
CONSTANTS
  Streams = {s1, s2}
  Requests = {r1}
  None = none
  Fails = TRUE
SPECIFICATION FairSpec
CHECK_DEADLOCK FALSE
INVARIANTS
  EndsForAReason
PROPERTIES
  PushedIsDelivered
  StopsWhenClientsLeave
