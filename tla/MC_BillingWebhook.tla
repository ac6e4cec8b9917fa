--------------------------- MODULE MC_BillingWebhook ---------------------------
(***************************************************************************)
(* BillingWebhook for TLC.  No property of the run tells subscriptions,    *)
(* plans, calls or deliveries apart, and none is about liveness.           *)
(***************************************************************************)
EXTENDS BillingWebhook, TLC

Alike == Permutations(Subs) \cup Permutations(Paid) \cup Permutations(BillingCalls)
            \cup Permutations(Deliveries)
=============================================================================
