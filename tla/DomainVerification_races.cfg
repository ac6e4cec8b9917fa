SPECIFICATION FairSpec
CONSTANTS
  Regs = {d1, d2}
  Calls = {c1, c2}
  Workers = {w1, w2}
  Nothing = Nothing
  MaxDisturbances = 1
INVARIANT VerifiedIsProven
INVARIANT PendingIsPolled
PROPERTY VerificationEnds
\* a verified domain leaves nothing to do
CHECK_DEADLOCK FALSE
