SPECIFICATION FairSpec
CONSTANTS
  Requests = {p1, p2}
  Keyless = {p2}
  Bodies = {b1}
  NoSend = NoSend
  Limit = 1
  Used = 0
  Workers = {w1, w2}
  MaxAttempts = 2
  SendOutcomes = {"accepted", "permanent", "transient"}
  MaxDisturbances = 0
INVARIANT QuotaWhenCalm
PROPERTY AnsweredIsResolved
\* answered calls and settled messages leave nothing to do
CHECK_DEADLOCK FALSE
