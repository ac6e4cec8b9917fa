SPECIFICATION FairSpec
CONSTANTS
  NumContacts = 2
  ChunkSize = 1
  Starters = {s1, s2}
  Workers = {w1}
  MaxAttempts = 2
  MaxStarts = 1
  SendOutcomes = {"accepted"}
  MaxDisturbances = 2
  MaxChanges = 1
INVARIANT CompletedWasCounted
INVARIANT StreamedRowsAreCarried
PROPERTY PublishedIsMailed
\* a finished campaign has nothing left to do
CHECK_DEADLOCK FALSE
