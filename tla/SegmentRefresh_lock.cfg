SPECIFICATION PopulatedSpec
CONSTANTS
  NumContacts = 2
  Requests = {r1, r2}
  Workers = {w1, w2}
  MaxAttempts = 2
  NoJob = NoJob
  Free = Free
  Orphan = Orphan
  MaxDisturbances = 1
  MaxChanges = 1
INVARIANT OneRefresher
INVARIANT ReadyCountsMembers
INVARIANT SettledIsFresh
PROPERTY LockIsReleasedByHolder
PROPERTY RequestsResolved
\* a refreshed segment leaves nothing to do
CHECK_DEADLOCK FALSE
