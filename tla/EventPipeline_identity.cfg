SPECIFICATION FairSpec
CONSTANTS
  Events = {e1, e2}
  Payloads <- Visits
  Workflows = {f1}
  Workers = {w1, w2}
  None = None
  Absent = Absent
  MaxAttempts = 2
  MaxDisturbances = 1
  u1 = u1
  u2 = u2
  a1 = a1
  a2 = a2
INVARIANT UserHasOneContact
INVARIANT ProcessedWasCarriedOut
PROPERTY AcceptedEventsEnd
\* answered calls and settled messages leave nothing to do
CHECK_DEADLOCK FALSE
