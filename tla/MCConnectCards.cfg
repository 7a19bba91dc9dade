\* Three deliveries or donations, two cards that come and go, errors.
CONSTANTS
  Requests = {r1, r2, r3}
  Kinds = {"event", "donation"}
  Cards = {c1, c2}
  MaxCopies = 2
  None = None
  Fails = TRUE
SPECIFICATION Spec
CHECK_DEADLOCK FALSE
SYMMETRY Symmetry
INVARIANTS
  ConnectedKeepsCard
  SyncedAlone
  ChargesChosenCard
