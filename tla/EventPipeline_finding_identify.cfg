SPECIFICATION Spec
CONSTANTS
  Events = {e1, e2}
  Payloads <- Visits
  Workflows = {}
  Workers = {w1, w2}
  None = None
  Absent = Absent
  MaxAttempts = 2
  MaxDisturbances = 0
  u1 = u1
  u2 = u2
  a1 = a1
  a2 = a2
INVARIANT IdentifiesAreLinked
CHECK_DEADLOCK FALSE
