SPECIFICATION Spec
CONSTANTS
  Requests = {p1, p2}
  Keyless = {}
  Bodies = {b1}
  NoSend = NoSend
  Limit = 2
  Used = 0
  Workers = {w1, w2}
  MaxAttempts = 2
  SendOutcomes = {"accepted", "transient", "denied"}
  MaxDisturbances = 2
SYMMETRY Interchangeable
INVARIANT AnswersAreTracked
INVARIANT OneSendWhenCalm
\* answered calls and settled messages leave nothing to do
CHECK_DEADLOCK FALSE
