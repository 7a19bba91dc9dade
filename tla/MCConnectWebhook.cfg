\* Three deliveries of the events of three changes.
CONSTANTS
  Requests = {r1, r2, r3}
  Subs = {s1, s2}
  Payments = {p1}
  None = None
  MaxChange = 3
  Fails = TRUE
SPECIFICATION Spec
CHECK_DEADLOCK FALSE
SYMMETRY Symmetry
INVARIANTS
  SettledAgrees
  InvoiceHeals
