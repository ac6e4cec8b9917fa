SPECIFICATION AccountsSpec
CONSTANTS
  SessionCalls = {k1, k2}
  MaxTokens = 3
  MaxSessions = 1
  MaxRequests = 3
  MaxCrashes = 1
  Users = {u1, u2, u3}
  Creator = u1
  Holder = u2
  MemberCalls = {k1, k2}
  Absent = Absent
  MaxMembers = 3
  MaxChanges = 2
  MaxFailures = 1
  PoolSizes = {2, 3}
  Mixed = 1
INVARIANT OneChainPerFamily
INVARIANT RevokedAccessEnds
INVARIANT OwnerIsNamed
INVARIANT CacheIsCurrent
INVARIANT RemovedIsSignedOut
PROPERTY CallsAreAnswered
CHECK_DEADLOCK FALSE
