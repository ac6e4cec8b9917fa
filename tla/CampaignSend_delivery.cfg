SPECIFICATION FairSpec
CONSTANTS
  NumContacts = 2
  ChunkSize = 2
  Starters = {s1}
  Workers = {w1, w2}
  MaxAttempts = 2
  MaxStarts = 1
  SendOutcomes = {"accepted", "permanent", "transient", "denied"}
  MaxDisturbances = 1
  MaxChanges = 0
INVARIANT TypeOK
INVARIANT SentIsAccepted
INVARIANT AtMostOnceUndisturbed
PROPERTY RecipientsResolved
PROPERTY RowsKeepContract
\* a finished campaign has nothing left to do
CHECK_DEADLOCK FALSE
