\* Three requests of any kind, deliveries of webhooks among them, after any
\* complete or failed sign-up, with errors and a cancellation.
CONSTANTS
  Requests = {r1, r2, r3}
  Kinds = {"subscribe", "update", "attach", "retry", "event"}
  Cards = {c1, c2}
  Paid = {monthly}
  Free = free
  None = None
  Stages = {"user", "customer", "subscription", "subscription_row", "all"}
  Fails = TRUE
  Cancels = TRUE
SPECIFICATION Spec
CHECK_DEADLOCK FALSE
SYMMETRY Symmetry
INVARIANTS
  NoLaterTrial
  AloneAgrees
  RowSurvives
