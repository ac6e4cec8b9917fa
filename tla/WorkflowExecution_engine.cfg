SPECIFICATION FairSpec
CONSTANTS
  Workflows <- NodeLists
  Garbled = Garbled
  Execs = {e1}
  FromEvents = {}
  Workers = {w1, w2}
  Pollers = {s1, s2}
  Nothing = Nothing
  MaxAttempts = 2
  MaxDisturbances = 2
  MaxChanges = 1
INVARIANT EmailsOnce
INVARIANT CompletedWasServed
PROPERTY EnrolledEnds
