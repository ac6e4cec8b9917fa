---------------------------- MODULE BillingWebhook ----------------------------
(***************************************************************************)
(* The subscription of one workspace: what Stripe has, what the API's row  *)
(* says, and the three ways the row is written: the checkout a customer    *)
(* pays, the calls that change, cancel and resume, and the webhook.        *)
(* Stripe delivers an event until it is answered 2xx, in any order; each   *)
(* carries the subscription as it was when the event was made.             *)
(***************************************************************************)
EXTENDS Naturals, Sequences, FiniteSets

CONSTANTS
    Subs,           \* subscriptions Stripe can make
    Paid,           \* plans that can be bought
    Free, None,     \* the free plan; no subscription, no call
    BillingCalls,   \* API calls that can be in flight
    Deliveries,     \* webhook deliveries that can be in flight
    MaxChanges,     \* bound: changes on Stripe's side
    MaxCalls,       \* bound: API calls
    MaxTroubles,    \* bound: handlings that fail, die or come late
    MaxTogether     \* bound: changes, calls and troubles together

ASSUME BillingAssumption ==
    /\ Subs # {} /\ Free \notin Paid /\ None \notin Subs \cup BillingCalls
    /\ MaxChanges \in Nat /\ MaxCalls \in Nat /\ MaxTroubles \in Nat
    /\ MaxTogether \in Nat

VARIABLES
    stripe,     \* Stripe: the subscriptions
    sessions,   \* Stripe: checkout sessions not yet paid, by plan
    change,     \* Stripe: the changes so far, the time of a snapshot
    event,      \* Stripe: the events made
    answered,   \* Stripe: the events answered 2xx
    row,        \* the workspace's row of subscriptions
    stored,     \* billing_events: absent, unprocessed or processed
    seen,       \* billing:webhook:{id} in Redis
    lock,       \* billing:checkout:{workspace} in Redis: who set it
    at, call,   \* API calls: step and locals
    on, work,   \* deliveries: step and locals
    asOf,       \* observation: per subscription, the latest state written of it
    overtaken,  \* observation: an older state of a subscription came after a newer
    troubled,   \* observation: events whose handling failed or came late
    applied,    \* observation: how often an event was written
    freed,      \* observation: the lock was lost by the call that had it
    calls, troubles

stripeVars == <<stripe, sessions, change, event>>
observed == <<asOf, overtaken>>
billingVars == <<stripeVars, answered, row, stored, seen, lock, at, call, on, work, observed,
                 troubled, applied, freed, calls, troubles>>

Plans == Paid \cup {Free}
Running == {"active", "past_due"}
Statuses == Running \cup {"none", "canceled"}
States == [status : Statuses, plan : Plans, ending : BOOLEAN]
Kinds == {"checkout", "upsert", "deleted", "unpaid"}
Rows == [sub : Subs \cup {None}, status : Statuses, plan : Plans, ending : BOOLEAN]

\* A workspace that never paid, or one that has paid a while.
NoSub == [status |-> "none", plan |-> Free, ending |-> FALSE]
NoRow == [sub |-> None, status |-> "active", plan |-> Free, ending |-> FALSE]

BillingInit ==
    /\ \/ stripe = [s \in Subs |-> NoSub] /\ row = NoRow
       \/ \E s \in Subs, p \in Paid :
             /\ stripe = [t \in Subs |-> IF t = s THEN [NoSub EXCEPT !.status = "active", !.plan = p]
                                         ELSE NoSub]
             /\ row = [sub |-> s, status |-> "active", plan |-> p, ending |-> FALSE]
    /\ sessions = {} /\ change = 0 /\ event = <<>> /\ answered = {}
    /\ stored = [e \in 1..(2 * MaxChanges) |-> "absent"] /\ seen = {} /\ lock = None
    /\ at = [k \in BillingCalls |-> "idle"] /\ call = [k \in BillingCalls |-> None]
    /\ on = [d \in Deliveries |-> "idle"] /\ work = [d \in Deliveries |-> None]
    /\ asOf = [s \in Subs |-> 0] /\ overtaken = FALSE /\ troubled = {} /\ freed = FALSE
    /\ applied = [e \in 1..(2 * MaxChanges) |-> 0]
    /\ calls = 0 /\ troubles = 0

Events == 1..Len(event)
Callers(e) == {d \in Deliveries : on[d] # "idle" /\ work[d].event = e}

BillingTypeOK ==
    /\ stripe \in [Subs -> States] /\ sessions \subseteq Paid /\ change \in 0..MaxChanges
    /\ \A e \in Events : event[e].kind \in Kinds /\ event[e].sub \in Subs /\ event[e].state \in States
    /\ answered \subseteq Events /\ seen \subseteq Events /\ troubled \subseteq Events
    /\ row \in Rows /\ lock \in BillingCalls \cup {None}
    /\ \A e \in DOMAIN stored : stored[e] \in {"absent", "unprocessed", "processed"}
    /\ \A k \in BillingCalls : at[k] \in {"idle", "check", "session", "release", "stripe", "write"}
    /\ \A d \in Deliveries : on[d] \in {"idle", "insert", "retrieve", "write", "mark"}
    /\ asOf \in [Subs -> 0..MaxChanges]

-----------------------------------------------------------------------------
(* Stripe's side.                                                           *)

\* A change: the subscription's new state and an event of each of the kinds.
Changes(s, state, kinds) ==
    /\ change < MaxChanges /\ change' = change + 1
    /\ stripe' = [stripe EXCEPT ![s] = state]
    /\ event' = event \o [i \in 1..Len(kinds) |->
                   [kind |-> kinds[i], sub |-> s, state |-> state, time |-> change + 1]]

Pay(p) ==
    /\ p \in sessions /\ sessions' = sessions \ {p}
    /\ \E s \in Subs : stripe[s].status = "none"
          /\ Changes(s, [status |-> "active", plan |-> p, ending |-> FALSE], <<"upsert", "checkout">>)

PaymentFails(s) ==
    /\ stripe[s].status = "active" /\ UNCHANGED sessions
    /\ Changes(s, [stripe[s] EXCEPT !.status = "past_due"], <<"upsert", "unpaid">>)

PaymentRecovers(s) ==
    /\ stripe[s].status = "past_due" /\ UNCHANGED sessions
    /\ Changes(s, [stripe[s] EXCEPT !.status = "active"], <<"upsert">>)

PeriodEnds(s) ==
    /\ stripe[s].status \in Running /\ stripe[s].ending /\ UNCHANGED sessions
    /\ Changes(s, [stripe[s] EXCEPT !.status = "canceled"], <<"deleted">>)

StripeMoves ==
    /\ \/ \E p \in Paid : Pay(p)
       \/ \E s \in Subs : PaymentFails(s) \/ PaymentRecovers(s) \/ PeriodEnds(s)
    /\ UNCHANGED <<answered, row, stored, seen, lock, at, call, on, work, observed,
                   troubled, applied, freed, calls, troubles>>

-----------------------------------------------------------------------------
(* The row.                                                                 *)

\* Faulty variant: the plan is taken over with a new subscription only.
Reconciled_KeepPlan(s, state) ==
    [sub |-> s, status |-> state.status, plan |-> IF row.sub = s THEN row.plan ELSE state.plan,
     ending |-> state.ending]

\* upsertSubscription, from reconcileSubscriptionFromStripe and changePlan.
Reconciled(s, state) ==
    [sub |-> s, status |-> state.status, plan |-> state.plan, ending |-> state.ending]

\* updateSubscriptionByStripeId, from cancel and resume.
Patched(s, state) ==
    IF row.sub = s THEN [row EXCEPT !.status = state.status, !.ending = state.ending] ELSE row

Ended(s) ==
    IF row.sub = s THEN [sub |-> None, status |-> "canceled", plan |-> Free, ending |-> FALSE]
    ELSE row

Demoted(s) ==
    IF row.sub = s THEN [row EXCEPT !.status = "past_due", !.plan = Free] ELSE row

\* A write of what was known of s at that time.  The UPDATE by a subscription's
\* id may find the row of another, or of none: what it knew is lost then.
Put(new, s, time) ==
    /\ row' = new
    /\ asOf' = [asOf EXCEPT ![s] = time]
    /\ overtaken' = (overtaken \/ time < asOf[s])

-----------------------------------------------------------------------------
(* The API's calls.                                                         *)

Go(k, step) == at' = [at EXCEPT ![k] = step]
Finish(k) == /\ at' = [at EXCEPT ![k] = "idle"] /\ call' = [call EXCEPT ![k] = None]

Begin(k, step, locals) ==
    /\ at[k] = "idle" /\ calls < MaxCalls /\ calls' = calls + 1
    /\ Go(k, step) /\ call' = [call EXCEPT ![k] = locals]
    /\ UNCHANGED <<stripeVars, answered, row, stored, seen, on, work, observed, troubled,
                   applied, freed, troubles>>

\* Faulty variant: SET without NX.
LockFree_Always == TRUE
LockFree == lock = None

BeginCheckout(k, p) ==
    /\ p \in Paid /\ LockFree /\ lock' = k
    /\ Begin(k, "check", [op |-> "checkout", plan |-> p, sub |-> None, state |-> NoSub, time |-> 0])

CheckRow(k) ==
    /\ at[k] = "check"
    /\ Go(k, IF row.sub # None /\ row.status \in Running THEN "release" ELSE "session")
    /\ UNCHANGED <<stripeVars, answered, row, stored, seen, lock, call, on, work, observed,
                   troubled, applied, freed, calls, troubles>>

CreateSession(k) ==
    /\ at[k] = "session" /\ Go(k, "release")
    /\ sessions' = sessions \cup {call[k].plan}
    /\ UNCHANGED <<stripe, change, event, answered, row, stored, seen, lock, call, on,
                   work, observed, troubled, applied, freed, calls, troubles>>

\* The key is deleted whoever set it.
ReleaseLock(k) ==
    /\ at[k] = "release" /\ Finish(k) /\ lock' = None
    /\ freed' = (freed \/ lock \notin {k, None})
    /\ UNCHANGED <<stripeVars, answered, row, stored, seen, on, work, observed, troubled,
                   applied, calls, troubles>>

LockExpires ==
    /\ lock # None /\ lock' = None /\ freed' = TRUE
    /\ troubles < MaxTroubles /\ troubles' = troubles + 1
    /\ UNCHANGED <<stripeVars, answered, row, stored, seen, at, call, on, work, observed,
                   troubled, applied, calls>>

\* changePlan, cancelSubscription and resumeSubscription read the row first.
MayChange(op) ==
    /\ row.sub # None
    /\ op = "change" => row.status \in Running
    /\ op = "resume" => row.ending

BeginChange(k, op, p) ==
    /\ MayChange(op) /\ (op = "change" <=> p # Free)
    /\ Begin(k, "stripe", [op |-> op, plan |-> p, sub |-> row.sub, state |-> NoSub, time |-> 0])
    /\ UNCHANGED lock

\* Stripe refuses to change a subscription that has ended.
Asked(k) == LET now == stripe[call[k].sub] IN
    CASE call[k].op = "change" -> [now EXCEPT !.plan = call[k].plan]
      [] call[k].op = "cancel" -> [now EXCEPT !.ending = TRUE]
      [] call[k].op = "resume" -> [now EXCEPT !.ending = FALSE]

AskStripe(k) ==
    /\ at[k] = "stripe" /\ stripe[call[k].sub].status \in Running /\ UNCHANGED sessions
    /\ Changes(call[k].sub, Asked(k), <<"upsert">>)
    /\ Go(k, "write")
    /\ call' = [call EXCEPT ![k].state = Asked(k), ![k].time = change + 1]
    /\ UNCHANGED <<answered, row, stored, seen, lock, on, work, observed, troubled, applied,
                   freed, calls, troubles>>

StripeRefuses(k) ==
    /\ at[k] = "stripe" /\ stripe[call[k].sub].status \notin Running /\ Finish(k)
    /\ UNCHANGED <<stripeVars, answered, row, stored, seen, lock, on, work, observed, troubled,
                   applied, freed, calls, troubles>>

WriteChange(k) ==
    /\ at[k] = "write" /\ Finish(k)
    /\ LET c == call[k] IN
       Put(IF c.op = "change" THEN Reconciled(c.sub, c.state) ELSE Patched(c.sub, c.state),
           c.sub, c.time)
    /\ UNCHANGED <<stripeVars, answered, stored, seen, lock, on, work, troubled, applied, freed,
                   calls, troubles>>

-----------------------------------------------------------------------------
(* The webhook.                                                             *)

Step(d, s) == on' = [on EXCEPT ![d] = s]
Answer(d)  == /\ on' = [on EXCEPT ![d] = "idle"] /\ work' = [work EXCEPT ![d] = None]
Accept(d)  == Answer(d) /\ answered' = answered \cup {work[d].event}

\* Stripe delivers, and delivers again while it has no answer.  The key in
\* Redis is the first thing that tells the two apart.
Deliver(d, e) ==
    /\ on[d] = "idle" /\ e \in Events \ answered
    /\ IF e \in seen
       THEN answered' = answered \cup {e} /\ UNCHANGED <<on, work, seen>>
       ELSE /\ seen' = seen \cup {e} /\ UNCHANGED answered
            /\ Step(d, "insert")
            /\ work' = [work EXCEPT ![d] = [event |-> e, state |-> event[e].state,
                                            time |-> event[e].time]]
    /\ UNCHANGED <<stripeVars, row, stored, lock, at, call, observed, troubled, applied, freed,
                   calls, troubles>>

\* More than five minutes after it was made, it is answered and dropped.
DeliverLate(e) ==
    /\ e \in Events \ answered /\ troubles < MaxTroubles /\ troubles' = troubles + 1
    /\ answered' = answered \cup {e} /\ troubled' = troubled \cup {e}
    /\ UNCHANGED <<stripeVars, row, stored, seen, lock, at, call, on, work, observed, applied,
                   freed, calls>>

\* Faulty variant: what is stored but not processed is taken up again.
IsNew_Unprocessed(e) == stored[e] # "processed"
IsNew(e) == stored[e] = "absent"

InsertEvent(d) ==
    /\ on[d] = "insert"
    /\ LET e == work[d].event IN
       IF IsNew(e)
       THEN /\ stored' = [stored EXCEPT ![e] = "unprocessed"]
            /\ Step(d, IF event[e].kind = "checkout" THEN "retrieve" ELSE "write")
            /\ UNCHANGED <<work, answered>>
       ELSE Accept(d) /\ UNCHANGED stored
    /\ UNCHANGED <<stripeVars, row, seen, lock, at, call, observed, troubled, applied, freed,
                   calls, troubles>>

\* A paid checkout is looked up; the other kinds carry what they write.
Retrieve(d) ==
    /\ on[d] = "retrieve" /\ Step(d, "write")
    /\ work' = [work EXCEPT ![d] =
                   [@ EXCEPT !.state = stripe[event[work[d].event].sub], !.time = change]]
    /\ UNCHANGED <<stripeVars, answered, row, stored, seen, lock, at, call, observed, troubled,
                   applied, freed, calls, troubles>>

Written(e, state) ==
    CASE event[e].kind \in {"checkout", "upsert"} -> Reconciled(event[e].sub, state)
      [] event[e].kind = "deleted" -> Ended(event[e].sub)
      [] event[e].kind = "unpaid"  -> Demoted(event[e].sub)

WriteEvent(d) ==
    /\ on[d] = "write" /\ Step(d, "mark")
    /\ LET w == work[d] IN
       /\ Put(Written(w.event, w.state), event[w.event].sub, w.time)
       /\ applied' = [applied EXCEPT ![w.event] = @ + 1]
       /\ IF event[w.event].kind = "checkout"
          THEN lock' = None /\ freed' = (freed \/ lock # None) ELSE UNCHANGED <<lock, freed>>
    /\ UNCHANGED <<stripeVars, answered, stored, seen, at, call, work, troubled, calls, troubles>>

\* Faulty variant: the event is left unprocessed.
MarkProcessed_Answer(d) ==
    /\ on[d] = "mark" /\ Accept(d)
    /\ UNCHANGED <<stripeVars, row, stored, seen, lock, at, call, observed, troubled, applied,
                   freed, calls, troubles>>

MarkProcessed(d) ==
    /\ on[d] = "mark" /\ Accept(d)
    /\ stored' = [stored EXCEPT ![work[d].event] = "processed"]
    /\ UNCHANGED <<stripeVars, row, seen, lock, at, call, observed, troubled, applied, freed,
                   calls, troubles>>

\* An error after the event was stored: the key goes, the answer is a 500.
HandlingFails(d) ==
    /\ on[d] \in {"retrieve", "write", "mark"}
    /\ troubles < MaxTroubles /\ troubles' = troubles + 1
    /\ Answer(d) /\ seen' = seen \ {work[d].event}
    /\ troubled' = troubled \cup {work[d].event}
    /\ UNCHANGED <<stripeVars, answered, row, stored, lock, at, call, observed, applied, freed, calls>>

\* The API dies, or the insert fails: the key stays, Stripe gets no answer.
HandlingDies(d) ==
    /\ on[d] # "idle" /\ troubles < MaxTroubles /\ troubles' = troubles + 1
    /\ Answer(d) /\ troubled' = troubled \cup {work[d].event}
    /\ UNCHANGED <<stripeVars, answered, row, stored, seen, lock, at, call, observed, applied,
                   freed, calls>>

\* An API call dies, or its write does.
CallDies(k) ==
    /\ at[k] # "idle" /\ troubles < MaxTroubles /\ troubles' = troubles + 1 /\ Finish(k)
    /\ UNCHANGED <<stripeVars, answered, row, stored, seen, lock, on, work, observed, troubled,
                   applied, freed, calls>>

-----------------------------------------------------------------------------
CallStep(k) ==
    \/ CheckRow(k) \/ CreateSession(k) \/ ReleaseLock(k) \/ AskStripe(k) \/ StripeRefuses(k)
    \/ WriteChange(k)
DeliveryStep(d) == InsertEvent(d) \/ Retrieve(d) \/ WriteEvent(d) \/ MarkProcessed(d)
DeliverAgain(e) == \E d \in Deliveries : Deliver(d, e)

Bounded == change' + calls' + troubles' <= MaxTogether

BillingStep ==
    \/ StripeMoves \/ LockExpires
    \/ \E k \in BillingCalls, p \in Plans :
          BeginCheckout(k, p) \/ \E op \in {"change", "cancel", "resume"} : BeginChange(k, op, p)
    \/ \E k \in BillingCalls : CallStep(k) \/ CallDies(k)
    \/ \E d \in Deliveries : DeliveryStep(d) \/ HandlingFails(d) \/ HandlingDies(d)
    \/ \E e \in Events : DeliverAgain(e) \/ DeliverLate(e)

BillingNext == BillingStep /\ Bounded
BillingSpec == BillingInit /\ [][BillingNext]_billingVars

-----------------------------------------------------------------------------
(* Properties that hold.                                                    *)

\* Delivered twice, at the same time, or again after a failure: an event is
\* written at most once.
EventsAreWrittenOnce == \A e \in Events : applied[e] <= 1

\* What was answered 2xx and did not fail on the way has been processed, or is
\* being: another delivery of it has been answered for the one still at work.
AnsweredIsProcessed ==
    \A e \in answered \ troubled : stored[e] = "processed" \/ Callers(e) # {}

\* When every event is answered and every call is done, and none of them failed
\* or wrote an older state of a subscription after a newer, the row shows what
\* Stripe has.
AtRest ==
    /\ answered = Events
    /\ \A k \in BillingCalls : at[k] = "idle"
    /\ \A d \in Deliveries : on[d] = "idle"
Matches(s) ==
    /\ row.status = stripe[s].status /\ row.ending = stripe[s].ending
    /\ row.plan = stripe[s].plan \/ (row.plan = Free /\ row.status = "past_due")
RowShowsStripe ==
    AtRest /\ troubles = 0 /\ ~overtaken =>
        /\ row.sub # None => Matches(row.sub)
        /\ row.sub = None => \E s \in Subs : stripe[s].status \notin Running

\* Two checkouts are made at once only after one has lost the lock, to its expiry
\* or to the webhook of an earlier one.
CheckoutsTakeTurns ==
    ~freed => \A k, l \in BillingCalls :
        at[k] \in {"check", "session"} /\ at[l] \in {"check", "session"} => k = l
=============================================================================
