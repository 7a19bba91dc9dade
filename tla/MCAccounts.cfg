\* Three requests of any kind, with errors at every step.
CONSTANTS
  Requests = {r1, r2, r3}
  Mailboxes = {m1}
  Names = {n1, n2}
  None = None
  Kinds = {"email", "google", "signin", "rename"}
  EnableStripe = TRUE
  Fails = TRUE
SPECIFICATION Spec
CHECK_DEADLOCK FALSE
SYMMETRY Symmetry
INVARIANTS
  OneCustomer
  TwinsOnlyIfRaced
  RefusedForAReason
