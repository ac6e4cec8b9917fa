SPECIFICATION BillingSpec
CONSTANTS
  Subs = {s1, s2}
  Paid = {starter, pro}
  Free = free
  None = None
  BillingCalls = {k1, k2}
  Deliveries = {d1, d2}
  MaxChanges = 3
  MaxCalls = 2
  MaxTroubles = 1
  MaxTogether = 4
INVARIANT EventsAreWrittenOnce
INVARIANT AnsweredIsProcessed
INVARIANT RowShowsStripe
INVARIANT CheckoutsTakeTurns
SYMMETRY Alike
CHECK_DEADLOCK FALSE
