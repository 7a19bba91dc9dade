\* Three calls about a password, four about a list, or three for the mixes of
\* a user, with errors.
CONSTANTS
  Requests = {r1, r2, r3}
  Passwords = {p1, p2, p3}
  First = p1
  Kinds = {"signin", "change", "reset"}
  Updates = {u1, u2, u3, u4}
  Names = {n1, n2, n3}
  Members = {m1, m2}
  None = none
  Calls = {c1, c2, c3}
  Categories = 2
  Fails = TRUE
SPECIFICATION MCSpec
CHECK_DEADLOCK FALSE
SYMMETRY Symmetry
INVARIANTS
  KnewThePassword
  LastChangeHolds
  ColumnsOfLatest
  MixesOfOneCall
