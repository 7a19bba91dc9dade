\* Two users, two sign-ins, two requests, Redis commands that fail, restarts.
CONSTANTS
  Sids = {k1, k2, k3}
  Users = {alice, bob}
  Requests = {r1, r2}
  SignIns = {i1, i2}
  None = None
  RedisFails = TRUE
  Restarts = TRUE
SPECIFICATION Spec
SYMMETRY Symmetry
INVARIANTS
  SignedOutIsClosed
  OneSessionPerSignIn
  ListedUnlessMissed
PROPERTIES
  ImplementsAuthorization
