SPECIFICATION FairSpec
CONSTANTS
  Campaigns = {c1}
  Calls = {k1, k2}
  Contents = {x, y}
  TemplateOnly = {y}
  Nothing = Nothing
  MaxPerMonth = 2
  MaxCalls = 3
  MaxDisturbances = 1
INVARIANT MailedIsCurrent
INVARIANT SendingHasWork
INVARIANT OneStartUnlessPaused
PROPERTY SendingIsMailed
CHECK_DEADLOCK FALSE
