------------------------ MODULE OutsideServices_proofs ------------------------
(***************************************************************************)
(* Theorems about the two components that keep a row in step with a        *)
(* service outside: BillingWebhook (Stripe) and DomainVerification (SES).  *)
(*                                                                         *)
(* BillingWebhook: its types; that an event is written at most once; that  *)
(* an event answered 2xx was processed or is at work; that checkouts take  *)
(* turns; and that at rest the row shows what Stripe has.                  *)
(* DomainVerification: its types; that a domain is verified by its own key *)
(* only; and that a requested verification is being polled.                *)
(***************************************************************************)
EXTENDS BillingWebhook, DomainVerification, TLAPS

Slots == 1..(2 * MaxChanges)
EventRecs == [kind : Kinds, sub : Subs, state : States, time : Nat]
CallRecs == [op : {"checkout", "change", "cancel", "resume"}, plan : Plans,
             sub : Subs \cup {None}, state : States, time : 0..MaxChanges]
WorkRecs == [event : Slots, state : States, time : Nat]

-----------------------------------------------------------------------------
(* BillingWebhook.  Types.                                                  *)

StripeType ==
    /\ stripe \in [Subs -> States] /\ sessions \subseteq Paid /\ change \in 0..MaxChanges
    /\ event \in Seq(EventRecs) /\ Len(event) <= 2 * change
    /\ \A e \in Events : event[e].time <= change

RowType ==
    /\ row \in Rows /\ asOf \in [Subs -> 0..MaxChanges] /\ lock \in BillingCalls \cup {None}
    /\ answered \subseteq Events /\ seen \subseteq Events /\ troubled \subseteq Events
    /\ stored \in [Slots -> {"absent", "unprocessed", "processed"}]
    /\ applied \in [Slots -> Nat]

\* A call at Stripe or about to write has a subscription to change.
CallType ==
    /\ at \in [BillingCalls -> {"idle", "check", "session", "release", "stripe", "write"}]
    /\ call \in [BillingCalls -> CallRecs \cup {None}]
    /\ \A k \in BillingCalls : at[k] # "idle" => call[k] \in CallRecs
    /\ \A k \in BillingCalls : at[k] \in {"check", "session"} => call[k].plan \in Paid
    /\ \A k \in BillingCalls : at[k] \in {"stripe", "write"} =>
          call[k].op # "checkout" /\ call[k].sub \in Subs

WorkType ==
    /\ on \in [Deliveries -> {"idle", "insert", "retrieve", "write", "mark"}]
    /\ work \in [Deliveries -> WorkRecs \cup {None}]
    /\ \A d \in Deliveries : on[d] # "idle" =>
          /\ work[d] \in WorkRecs /\ work[d].event \in Events /\ work[d].time <= change

TypeInv == StripeType /\ RowType /\ CallType /\ WorkType

\* The events made so far fit the tables, and are told apart by their number.
LEMMA EventsFit == StripeType => Events \subseteq Slots /\ Len(event) \in Nat
BY BillingAssumption DEF StripeType, Events, Slots

EventsGrow == StripeType' /\ Events \subseteq Events' /\ change' = change + 1

LEMMA NewEvents ==
    ASSUME StripeType, NEW s \in Subs, NEW state \in States, NEW kinds \in Seq(Kinds),
           Len(kinds) <= 2, Changes(s, state, kinds), sessions' \subseteq Paid
    PROVE  EventsGrow
<1> DEFINE fresh == [i \in 1..Len(kinds) |->
               [kind |-> kinds[i], sub |-> s, state |-> state, time |-> change + 1]]
<1>1. change \in Nat /\ change' = change + 1 /\ change' \in 0..MaxChanges
  BY BillingAssumption DEF StripeType, Changes
<1>2. stripe' \in [Subs -> States]
  BY DEF StripeType, Changes
<1>3. fresh \in Seq(EventRecs) /\ Len(fresh) = Len(kinds)
  BY <1>1 DEF EventRecs
<1>4. event' = event \o fresh
  BY DEF Changes
<1> HIDE DEF fresh
<1>5. event' \in Seq(EventRecs) /\ Len(event') = Len(event) + Len(kinds)
  BY <1>3, <1>4 DEF StripeType
<1>6. \A e \in 1..Len(event) : event'[e] = event[e]
  BY <1>3, <1>4 DEF StripeType
<1>7. \A e \in 1..Len(fresh) : event'[Len(event) + e] = fresh[e]
  BY <1>3, <1>4 DEF StripeType
<1>8. \A e \in 1..Len(fresh) : fresh[e].time = change + 1
  BY <1>3 DEF fresh
<1>9. \A e \in 1..Len(event') : event'[e].time <= change'
  <2> SUFFICES ASSUME NEW e \in 1..Len(event') PROVE event'[e].time <= change'
    OBVIOUS
  <2>0. Len(event) \in Nat /\ Len(fresh) \in Nat
    BY <1>3 DEF StripeType
  <2>1. CASE e \in 1..Len(event)
    <3>1. event[e] \in EventRecs
      BY <2>1 DEF StripeType
    <3>2. event[e].time <= change /\ event[e].time \in Nat
      BY <2>1, <3>1 DEF StripeType, Events, EventRecs
    <3>3. event'[e].time = event[e].time
      BY <2>1, <1>6
    <3> HIDE DEF Changes
    <3> QED BY <3>2, <3>3, <1>1
  <2>2. CASE e \notin 1..Len(event)
    <3>1. e - Len(event) \in 1..Len(fresh) /\ e = Len(event) + (e - Len(event))
      BY <2>0, <2>2, <1>3, <1>5
    <3>2. event'[e] = fresh[e - Len(event)]
      BY <3>1, <1>7
    <3>3. event'[e].time = change + 1
      BY <3>1, <3>2, <1>8
    <3> QED BY <3>3, <1>1
  <2> QED BY <2>1, <2>2
<1>10. Len(event') <= 2 * change' /\ Len(event) \in Nat /\ Len(kinds) \in Nat
  BY <1>1, <1>5 DEF StripeType
<1> QED BY <1>1, <1>2, <1>5, <1>9, <1>10 DEF EventsGrow, StripeType, Events

\* A move of Stripe's leaves the API's side well typed.
LEMMA GrowingEventsKeepTypes ==
    ASSUME TypeInv, EventsGrow,
           UNCHANGED <<answered, row, stored, seen, lock, on, work, observed, troubled, applied>>
    PROVE  RowType' /\ WorkType'
<1>1. RowType'
  BY DEF EventsGrow, TypeInv, RowType, observed
<1>2. change \in Nat
  BY BillingAssumption DEF TypeInv, StripeType
<1>3. \A d \in Deliveries : on[d] # "idle" => work[d].time <= change'
  BY <1>2 DEF EventsGrow, TypeInv, WorkType, WorkRecs
<1>4. WorkType'
  BY <1>3 DEF EventsGrow, TypeInv, WorkType
<1> QED BY <1>1, <1>4

LEMMA StripeMovesType == TypeInv /\ StripeMoves => TypeInv'
<1> SUFFICES ASSUME TypeInv, StripeMoves PROVE TypeInv'
  OBVIOUS
<1>1. EventsGrow
  <2>1. ASSUME NEW p \in Paid, Pay(p) PROVE EventsGrow
    <3>1. PICK s \in Subs :
            Changes(s, [status |-> "active", plan |-> p, ending |-> FALSE], <<"upsert", "checkout">>)
      BY <2>1 DEF Pay
    <3>2. [status |-> "active", plan |-> p, ending |-> FALSE] \in States
      BY DEF States, Statuses, Running, Plans
    <3>3. <<"upsert", "checkout">> \in Seq(Kinds) /\ Len(<<"upsert", "checkout">>) <= 2
      BY DEF Kinds
    <3>4. sessions' \subseteq Paid
      BY <2>1 DEF Pay, TypeInv, StripeType
    <3> QED BY <3>1, <3>2, <3>3, <3>4, NewEvents DEF EventsGrow, TypeInv
  <2>2. ASSUME NEW s \in Subs, PaymentFails(s) PROVE EventsGrow
    <3>1. [stripe[s] EXCEPT !.status = "past_due"] \in States
      BY DEF TypeInv, StripeType, States, Statuses, Running
    <3>2. <<"upsert", "unpaid">> \in Seq(Kinds) /\ Len(<<"upsert", "unpaid">>) <= 2
      BY DEF Kinds
    <3> QED BY <2>2, <3>1, <3>2, NewEvents DEF EventsGrow, TypeInv, StripeType, PaymentFails
  <2>3. ASSUME NEW s \in Subs, PaymentRecovers(s) PROVE EventsGrow
    <3>1. [stripe[s] EXCEPT !.status = "active"] \in States
      BY DEF TypeInv, StripeType, States, Statuses, Running
    <3>2. <<"upsert">> \in Seq(Kinds) /\ Len(<<"upsert">>) <= 2
      BY DEF Kinds
    <3> QED BY <2>3, <3>1, <3>2, NewEvents DEF EventsGrow, TypeInv, StripeType, PaymentRecovers
  <2>4. ASSUME NEW s \in Subs, PeriodEnds(s) PROVE EventsGrow
    <3>1. [stripe[s] EXCEPT !.status = "canceled"] \in States
      BY DEF TypeInv, StripeType, States, Statuses, Running
    <3>2. <<"deleted">> \in Seq(Kinds) /\ Len(<<"deleted">>) <= 2
      BY DEF Kinds
    <3> QED BY <2>4, <3>1, <3>2, NewEvents DEF EventsGrow, TypeInv, StripeType, PeriodEnds
  <2> QED BY <2>1, <2>2, <2>3, <2>4 DEF StripeMoves
<1>2. RowType' /\ WorkType'
  BY <1>1, GrowingEventsKeepTypes DEF StripeMoves
<1>3. CallType'
  BY DEF StripeMoves, TypeInv, CallType
<1> QED BY <1>1, <1>2, <1>3 DEF EventsGrow, TypeInv

\* What a call or an event writes is a row.
LEMMA RowsAreWritten ==
    ASSUME TypeInv, NEW s \in Subs, NEW state \in States
    PROVE  Reconciled(s, state) \in Rows /\ Patched(s, state) \in Rows
           /\ Ended(s) \in Rows /\ Demoted(s) \in Rows
BY DEF TypeInv, RowType, Reconciled, Patched, Ended, Demoted, Rows, States, Plans, Statuses, Running

LEMMA BeginType ==
    ASSUME TypeInv, NEW k \in BillingCalls, NEW p \in Plans,
           BeginCheckout(k, p) \/ \E op \in {"change", "cancel", "resume"} : BeginChange(k, op, p)
    PROVE  TypeInv'
<1>1. NoSub \in States /\ 0 \in 0..MaxChanges
  BY BillingAssumption DEF NoSub, States, Statuses, Plans
<1>2. StripeType' /\ WorkType'
  BY DEF TypeInv, StripeType, WorkType, BeginCheckout, BeginChange, Begin, stripeVars, Events
<1>3. RowType'
  BY DEF TypeInv, RowType, BeginCheckout, BeginChange, Begin, stripeVars, Events, observed
<1>4. CallType'
  <2>1. CASE BeginCheckout(k, p)
    <3>1. [op |-> "checkout", plan |-> p, sub |-> None, state |-> NoSub, time |-> 0] \in CallRecs
      BY <1>1 DEF CallRecs
    <3> QED BY <2>1, <3>1 DEF TypeInv, CallType, BeginCheckout, Begin, Go
  <2>2. ASSUME NEW op \in {"change", "cancel", "resume"}, BeginChange(k, op, p) PROVE CallType'
    <3>1. row.sub \in Subs
      BY <2>2 DEF BeginChange, MayChange, TypeInv, RowType, Rows
    <3>2. [op |-> op, plan |-> p, sub |-> row.sub, state |-> NoSub, time |-> 0] \in CallRecs
      BY <1>1, <3>1 DEF CallRecs
    <3> QED BY <2>2, <3>1, <3>2 DEF TypeInv, CallType, BeginChange, Begin, Go
  <2> QED BY <2>1, <2>2
<1> QED BY <1>2, <1>3, <1>4 DEF TypeInv

LEMMA CallStepType == ASSUME TypeInv, NEW k \in BillingCalls, CallStep(k) \/ CallDies(k)
                      PROVE  TypeInv'
<1> USE DEF TypeInv
<1>1. CASE CheckRow(k)
  BY <1>1 DEF CheckRow, Go, StripeType, RowType, CallType, WorkType, stripeVars, observed, Events
<1>2. CASE CreateSession(k)
  BY <1>2 DEF CreateSession, Go, StripeType, RowType, CallType, WorkType, observed, Events
<1>3. CASE ReleaseLock(k)
  BY <1>3 DEF ReleaseLock, Finish, StripeType, RowType, CallType, WorkType, stripeVars, observed,
              Events
<1>4. CASE AskStripe(k)
  <2>1. call[k] \in CallRecs /\ call[k].op \in {"change", "cancel", "resume"} /\ call[k].sub \in Subs
    BY <1>4 DEF AskStripe, CallType, CallRecs
  <2>2. Asked(k) \in States
    BY <2>1 DEF Asked, StripeType, States, CallRecs
  <2>3. <<"upsert">> \in Seq(Kinds) /\ Len(<<"upsert">>) <= 2
    BY DEF Kinds
  <2>4. EventsGrow
    BY <1>4, <2>1, <2>2, <2>3, NewEvents DEF AskStripe, StripeType
  <2>5. RowType' /\ WorkType'
    BY <1>4, <2>4, GrowingEventsKeepTypes DEF AskStripe
  <2>6. change + 1 \in 0..MaxChanges
    BY <2>4 DEF EventsGrow, StripeType
  <2>7. CallType'
    BY <1>4, <2>1, <2>2, <2>6 DEF AskStripe, Go, CallType, CallRecs
  <2> QED BY <2>4, <2>5, <2>7 DEF EventsGrow
<1>5. CASE StripeRefuses(k)
  BY <1>5 DEF StripeRefuses, Finish, StripeType, RowType, CallType, WorkType, stripeVars, observed,
              Events
<1>6. CASE WriteChange(k)
  <2>1. call[k] \in CallRecs /\ call[k].sub \in Subs
    BY <1>6 DEF WriteChange, CallType
  <2>2. row' \in Rows /\ asOf' \in [Subs -> 0..MaxChanges]
    <3>1. row' \in Rows
      BY <1>6, <2>1, RowsAreWritten DEF WriteChange, Put, CallRecs
    <3>2. asOf' = [asOf EXCEPT ![call[k].sub] = call[k].time]
      BY <1>6 DEF WriteChange, Put
    <3> QED BY <2>1, <3>1, <3>2 DEF RowType, CallRecs
  <2>3. RowType'
    BY <1>6, <2>2 DEF WriteChange, RowType, stripeVars, Events
  <2> QED BY <1>6, <2>3 DEF WriteChange, Finish, StripeType, CallType, WorkType, stripeVars, Events
<1>7. CASE CallDies(k)
  BY <1>7 DEF CallDies, Finish, StripeType, RowType, CallType, WorkType, stripeVars, observed,
              Events
<1> QED BY <1>1, <1>2, <1>3, <1>4, <1>5, <1>6, <1>7 DEF CallStep

LEMMA DeliveryType ==
    ASSUME TypeInv, NEW d \in Deliveries,
           DeliveryStep(d) \/ HandlingFails(d) \/ HandlingDies(d) \/ \E e \in Events : Deliver(d, e)
    PROVE  TypeInv'
<1> USE DEF TypeInv
<1>1. StripeType' /\ CallType'
  BY DEF DeliveryStep, InsertEvent, Retrieve, WriteEvent, MarkProcessed, HandlingFails,
         HandlingDies, Deliver, StripeType, CallType, stripeVars, Events
<1>2. ASSUME NEW e \in Events, Deliver(d, e) PROVE TypeInv'
  <2>1. e \in Slots /\ event[e] \in EventRecs /\ event[e].time <= change
    BY EventsFit DEF StripeType, Events
  <2>2. [event |-> e, state |-> event[e].state, time |-> event[e].time] \in WorkRecs
    BY <2>1 DEF WorkRecs, EventRecs
  <2>3. RowType'
    BY <1>2 DEF Deliver, RowType, stripeVars, Events, observed
  <2>4. WorkType'
    BY <1>2, <2>1, <2>2 DEF Deliver, Step, WorkType, stripeVars, Events
  <2> QED BY <1>1, <2>3, <2>4
<1>3. CASE InsertEvent(d)
  <2>1. RowType'
    BY <1>3 DEF InsertEvent, Accept, Answer, RowType, WorkType, stripeVars, Events, observed
  <2>2. WorkType'
    BY <1>3 DEF InsertEvent, Accept, Answer, Step, WorkType, stripeVars, Events
  <2> QED BY <1>1, <2>1, <2>2
<1>4. CASE Retrieve(d)
  <2>1. event[work[d].event] \in EventRecs /\ work[d] \in WorkRecs
    BY <1>4 DEF Retrieve, WorkType, StripeType, Events
  <2>2. stripe[event[work[d].event].sub] \in States /\ change \in Nat
    BY <2>1, BillingAssumption DEF StripeType, EventRecs
  <2>3. RowType'
    BY <1>4 DEF Retrieve, RowType, stripeVars, Events, observed
  <2> DEFINE filled == [work[d] EXCEPT !.state = stripe[event[work[d].event].sub], !.time = change]
  <2>4. filled \in WorkRecs /\ filled.event = work[d].event /\ filled.time = change
    BY <2>1, <2>2 DEF WorkRecs
  <2>0. work' = [work EXCEPT ![d] = filled] /\ work \in [Deliveries -> WorkRecs \cup {None}]
    BY <1>4 DEF Retrieve, WorkType
  <2> HIDE DEF filled
  <2>5. /\ work' \in [Deliveries -> WorkRecs \cup {None}] /\ work'[d] \in WorkRecs
        /\ work'[d].event = work[d].event /\ work'[d].time = change
        /\ \A c \in Deliveries \ {d} : work'[c] = work[c]
    BY <2>4, <2>0
  <2>6. on' = [on EXCEPT ![d] = "write"] /\ Events' = Events /\ change' = change
    BY <1>4 DEF Retrieve, Step, stripeVars, Events
  <2>7. work[d].event \in Events
    BY <1>4 DEF Retrieve, WorkType
  <2>8. \A c \in Deliveries : on'[c] # "idle" =>
            work'[c] \in WorkRecs /\ work'[c].event \in Events' /\ work'[c].time <= change'
    BY <2>2, <2>5, <2>6, <2>7 DEF WorkType
  <2>9. WorkType'
    BY <2>5, <2>6, <2>8 DEF WorkType
  <2> QED BY <1>1, <2>3, <2>9
<1>5. CASE WriteEvent(d)
  <2>1. event[work[d].event] \in EventRecs /\ work[d] \in WorkRecs /\ work[d].event \in Slots
        /\ work[d].time \in 0..change
    BY <1>5 DEF WriteEvent, WorkType, StripeType, Events, WorkRecs
  <2>2. Written(work[d].event, work[d].state) \in Rows
    BY <2>1, RowsAreWritten DEF Written, EventRecs, Kinds, WorkRecs
  <2>3. row' \in Rows /\ asOf' \in [Subs -> 0..MaxChanges]
    <3>1. work[d].time \in 0..MaxChanges
      BY <2>1, BillingAssumption DEF StripeType
    <3>2. asOf' = [asOf EXCEPT ![event[work[d].event].sub] = work[d].time]
      BY <1>5 DEF WriteEvent, Put
    <3>3. row' = Written(work[d].event, work[d].state)
      BY <1>5 DEF WriteEvent, Put
    <3> QED BY <2>2, <3>1, <3>2, <3>3 DEF RowType
  <2>4. applied' \in [Slots -> Nat]
    BY <1>5, <2>1 DEF WriteEvent, RowType
  <2>5. RowType'
    BY <1>5, <2>3, <2>4 DEF WriteEvent, RowType, stripeVars, Events
  <2>6. WorkType'
    BY <1>5 DEF WriteEvent, Step, WorkType, stripeVars, Events
  <2> QED BY <1>1, <2>5, <2>6
<1>6. CASE MarkProcessed(d)
  <2>1. RowType'
    BY <1>6 DEF MarkProcessed, Accept, Answer, RowType, WorkType, stripeVars, Events, observed
  <2>2. WorkType'
    BY <1>6 DEF MarkProcessed, Accept, Answer, WorkType, stripeVars, Events
  <2> QED BY <1>1, <2>1, <2>2
<1>7. CASE HandlingFails(d) \/ HandlingDies(d)
  <2>1. RowType'
    BY <1>7 DEF HandlingFails, HandlingDies, Answer, RowType, WorkType, stripeVars, Events, observed
  <2>2. WorkType'
    BY <1>7 DEF HandlingFails, HandlingDies, Answer, WorkType, stripeVars, Events
  <2> QED BY <1>1, <2>1, <2>2
<1> QED BY <1>2, <1>3, <1>4, <1>5, <1>6, <1>7 DEF DeliveryStep

LEMMA InitType == BillingInit => TypeInv
<1> SUFFICES ASSUME BillingInit PROVE TypeInv
  OBVIOUS
<1>1. /\ stripe \in [Subs -> States] /\ row \in Rows
  <2>1. NoSub \in States /\ NoRow \in Rows
    BY DEF NoSub, NoRow, Rows, States, Statuses, Running, Plans
  <2>2. CASE stripe = [s \in Subs |-> NoSub] /\ row = NoRow
    BY <2>1, <2>2
  <2>3. ASSUME NEW s \in Subs, NEW p \in Paid,
               stripe = [t \in Subs |-> IF t = s THEN [NoSub EXCEPT !.status = "active", !.plan = p]
                                        ELSE NoSub],
               row = [sub |-> s, status |-> "active", plan |-> p, ending |-> FALSE]
        PROVE  stripe \in [Subs -> States] /\ row \in Rows
    <3>1. [NoSub EXCEPT !.status = "active", !.plan = p] \in States
      BY DEF NoSub, States, Statuses, Running, Plans
    <3>2. row \in Rows
      BY <2>3 DEF Rows, Statuses, Running, Plans
    <3> QED BY <2>1, <2>3, <3>1, <3>2
  <2> QED BY <2>2, <2>3 DEF BillingInit
<1>2. StripeType
  <2>1. event = <<>> /\ sessions = {} /\ change = 0
    BY DEF BillingInit
  <2>2. Len(event) = 0 /\ Events = {} /\ event \in Seq(EventRecs)
    BY <2>1 DEF Events
  <2> QED BY <1>1, <2>1, <2>2, BillingAssumption DEF StripeType
<1>3. RowType
  <2>1. stored \in [Slots -> {"absent", "unprocessed", "processed"}] /\ applied \in [Slots -> Nat]
    BY DEF BillingInit, Slots
  <2>2. asOf \in [Subs -> 0..MaxChanges]
    <3>1. asOf = [s \in Subs |-> 0]
      BY DEF BillingInit
    <3> QED BY <3>1, BillingAssumption
  <2> QED BY <1>1, <2>1, <2>2 DEF BillingInit, RowType
<1>4. CallType /\ WorkType
  BY DEF BillingInit, CallType, WorkType
<1> QED BY <1>2, <1>3, <1>4 DEF TypeInv

LEMMA OtherStepType ==
    ASSUME TypeInv, LockExpires \/ \E e \in Events : DeliverLate(e)
    PROVE  TypeInv'
BY DEF LockExpires, DeliverLate, TypeInv, StripeType, RowType, CallType, WorkType, stripeVars,
       observed, Events

LEMMA StepType == TypeInv /\ [BillingNext]_billingVars => TypeInv'
<1> SUFFICES ASSUME TypeInv, [BillingNext]_billingVars PROVE TypeInv'
  OBVIOUS
<1>1. CASE BillingStep
  BY <1>1, StripeMovesType, BeginType, CallStepType, DeliveryType, OtherStepType
     DEF BillingStep, DeliverAgain
<1>2. CASE UNCHANGED billingVars
  BY <1>2 DEF TypeInv, StripeType, RowType, CallType, WorkType, billingVars, stripeVars, observed,
              Events
<1> QED BY <1>1, <1>2 DEF BillingNext

LEMMA TypeInvHolds == BillingSpec => []TypeInv
BY InitType, StepType, PTL DEF BillingSpec

\* Stripe's objects, the row, the keys in Redis and every handler hold only
\* values the code can write, for any number of subscriptions and deliveries.
THEOREM BillingTypeCorrect == BillingSpec => []BillingTypeOK
<1>1. TypeInv => BillingTypeOK
  <2> SUFFICES ASSUME TypeInv PROVE BillingTypeOK
    OBVIOUS
  <2>1. \A e \in Events : event[e] \in EventRecs
    BY DEF TypeInv, StripeType, Events
  <2> QED BY <2>1 DEF TypeInv, StripeType, RowType, CallType, WorkType, BillingTypeOK, EventRecs
<1> QED BY <1>1, TypeInvHolds, PTL

-----------------------------------------------------------------------------
(* Every event is written at most once.                                     *)

\* A delivery past its insert is the only one that will write the event.
Owns(d) == on[d] \in {"retrieve", "write", "mark"}

OnceInv ==
    /\ \A d \in Deliveries : Owns(d) => stored[work[d].event] # "absent"
    /\ \A c, d \in Deliveries : Owns(c) /\ Owns(d) /\ work[c].event = work[d].event => c = d
    /\ \A d \in Deliveries : on[d] \in {"retrieve", "write"} => applied[work[d].event] = 0
    /\ \A e \in Slots : applied[e] <= 1 /\ (stored[e] = "absent" => applied[e] = 0)

\* What both arguments read of the state.
eventVars == <<answered, stored, seen, on, work, troubled, applied>>

\* Only Stripe's deliveries and their handlers disturb what is read.
LEMMA OnlyDeliveries ==
    ASSUME BillingStep
    PROVE  \/ UNCHANGED eventVars
           \/ \E d \in Deliveries : DeliveryStep(d) \/ HandlingFails(d) \/ HandlingDies(d)
           \/ \E d \in Deliveries, e \in Events : Deliver(d, e)
           \/ \E e \in Events : DeliverLate(e)
<1>1. CASE StripeMoves \/ LockExpires
  BY <1>1 DEF StripeMoves, LockExpires, eventVars
<1>2. ASSUME NEW k \in BillingCalls, NEW p \in Plans,
             BeginCheckout(k, p) \/ \E op \in {"change", "cancel", "resume"} : BeginChange(k, op, p)
      PROVE  UNCHANGED eventVars
  BY <1>2 DEF BeginCheckout, BeginChange, Begin, eventVars
<1>3. ASSUME NEW k \in BillingCalls, CallStep(k) \/ CallDies(k) PROVE UNCHANGED eventVars
  BY <1>3 DEF CallStep, CallDies, CheckRow, CreateSession, ReleaseLock, AskStripe, StripeRefuses,
              WriteChange, eventVars
<1> QED BY <1>1, <1>2, <1>3 DEF BillingStep, DeliverAgain

\* A paid checkout's lookup changes what is written, never of which event.
LEMMA RetrieveKeepsEvent ==
    ASSUME TypeInv, NEW d \in Deliveries, Retrieve(d)
    PROVE  /\ \A c \in Deliveries : work'[c].event = work[c].event
           /\ on[d] = "retrieve" /\ on' = [on EXCEPT ![d] = "write"]
           /\ UNCHANGED <<answered, stored, seen, troubled, applied>>
<1>1. work[d] \in WorkRecs /\ work \in [Deliveries -> WorkRecs \cup {None}]
  BY DEF TypeInv, WorkType, Retrieve
<1> DEFINE filled == [work[d] EXCEPT !.state = stripe[event[work[d].event].sub], !.time = change]
<1>2. work' = [work EXCEPT ![d] = filled]
  BY DEF Retrieve
<1>3. filled.event = work[d].event
  BY <1>1 DEF WorkRecs
<1> HIDE DEF filled
<1>4. \A c \in Deliveries : work'[c].event = work[c].event
  BY <1>1, <1>2, <1>3
<1> QED BY <1>4 DEF Retrieve, Step

LEMMA OnceInit == BillingInit => OnceInv
<1> SUFFICES ASSUME BillingInit PROVE OnceInv
  OBVIOUS
<1>1. \A d \in Deliveries : on[d] = "idle"
  BY DEF BillingInit
<1>2. \A e \in Slots : applied[e] = 0
  BY DEF BillingInit, Slots
<1> QED BY <1>1, <1>2 DEF OnceInv, Owns

LEMMA OnceStep ==
    ASSUME TypeInv, OnceInv, NEW d \in Deliveries,
           DeliveryStep(d) \/ HandlingFails(d) \/ HandlingDies(d) \/ \E e \in Events : Deliver(d, e)
    PROVE  OnceInv'
<1> USE DEF OnceInv, Owns
<1>1. /\ on \in [Deliveries -> {"idle", "insert", "retrieve", "write", "mark"}]
      /\ work \in [Deliveries -> WorkRecs \cup {None}]
      /\ stored \in [Slots -> {"absent", "unprocessed", "processed"}] /\ applied \in [Slots -> Nat]
  BY DEF TypeInv, WorkType, RowType
<1>2. \A c \in Deliveries : on[c] # "idle" => work[c].event \in Slots
  BY DEF TypeInv, WorkType, WorkRecs
<1>3. ASSUME NEW e \in Events, Deliver(d, e) PROVE OnceInv'
  BY <1>1, <1>3 DEF Deliver, Step
<1>4. CASE InsertEvent(d)
  BY <1>1, <1>2, <1>4 DEF InsertEvent, IsNew, Accept, Answer, Step
<1>5. CASE Retrieve(d)
  BY <1>1, <1>5, RetrieveKeepsEvent
<1>6. CASE WriteEvent(d)
  <2>1. /\ on[d] = "write" /\ on' = [on EXCEPT ![d] = "mark"] /\ UNCHANGED <<stored, work>>
        /\ applied' = [applied EXCEPT ![work[d].event] = @ + 1]
    BY <1>6 DEF WriteEvent, Step
  <2>2. /\ work[d].event \in Slots /\ applied[work[d].event] = 0
        /\ stored[work[d].event] # "absent"
    BY <1>2, <2>1
  <2>3. /\ applied'[work[d].event] = 1
        /\ \A e \in Slots : e # work[d].event => applied'[e] = applied[e]
    BY <1>1, <2>1, <2>2
  <2> QED BY <1>1, <1>2, <2>1, <2>2, <2>3
<1>7. CASE MarkProcessed(d)
  BY <1>1, <1>2, <1>7 DEF MarkProcessed, Accept, Answer
<1>8. CASE HandlingFails(d) \/ HandlingDies(d)
  BY <1>1, <1>8 DEF HandlingFails, HandlingDies, Answer
<1> QED BY <1>3, <1>4, <1>5, <1>6, <1>7, <1>8 DEF DeliveryStep

LEMMA OnceNext == TypeInv /\ OnceInv /\ [BillingNext]_billingVars => OnceInv'
<1> SUFFICES ASSUME TypeInv, OnceInv, [BillingNext]_billingVars PROVE OnceInv'
  OBVIOUS
<1>1. CASE UNCHANGED eventVars
  BY <1>1 DEF eventVars, OnceInv, Owns
<1>2. CASE \E e \in Events : DeliverLate(e)
  BY <1>2 DEF DeliverLate, OnceInv, Owns
<1>3. UNCHANGED billingVars => UNCHANGED eventVars
  BY DEF billingVars, eventVars
<1> QED BY <1>1, <1>2, <1>3, OnlyDeliveries, OnceStep DEF BillingNext

\* However often Stripe delivers an event, to however many handlers at once,
\* and whatever fails between its insert and its answer, the row is written for
\* it at most once.
THEOREM EventsWrittenOnce == BillingSpec => []EventsAreWrittenOnce
<1>1. TypeInv /\ OnceInv => EventsAreWrittenOnce
  BY EventsFit DEF TypeInv, OnceInv, EventsAreWrittenOnce
<1>2. BillingInit => OnceInv
  BY OnceInit
<1> QED BY <1>1, <1>2, OnceNext, TypeInvHolds, PTL DEF BillingSpec

-----------------------------------------------------------------------------
(* What is answered 2xx was processed, or is at work.                       *)

\* An event nothing has gone wrong with is in Redis exactly from its first
\* delivery on; that delivery alone handles it, and only it finishes it.
Clean == Slots \ troubled

AnsweredInv ==
    /\ \A e \in Clean : e \notin seen =>
          e \notin answered /\ stored[e] = "absent" /\ Callers(e) = {}
    /\ \A e \in Clean : \A c, d \in Callers(e) : c = d
    /\ \A e \in Clean : \A d \in Callers(e) :
          stored[e] = IF on[d] = "insert" THEN "absent" ELSE "unprocessed"
    /\ \A e \in Clean : e \in seen => stored[e] = "processed" \/ Callers(e) # {}

LEMMA AnsweredInit == BillingInit => AnsweredInv
<1> SUFFICES ASSUME BillingInit PROVE AnsweredInv
  OBVIOUS
<1>1. \A d \in Deliveries : on[d] = "idle"
  BY DEF BillingInit
<1>2. /\ \A e \in Slots : stored[e] = "absent"
      /\ seen = {} /\ answered = {}
  BY DEF BillingInit, Slots
<1> QED BY <1>1, <1>2 DEF AnsweredInv, Callers, Clean

LEMMA AnsweredStep ==
    ASSUME TypeInv, AnsweredInv, NEW d \in Deliveries,
           DeliveryStep(d) \/ HandlingFails(d) \/ HandlingDies(d) \/ \E e \in Events : Deliver(d, e)
    PROVE  AnsweredInv'
<1> USE DEF AnsweredInv, Callers, Clean
<1>1. /\ on \in [Deliveries -> {"idle", "insert", "retrieve", "write", "mark"}]
      /\ work \in [Deliveries -> WorkRecs \cup {None}]
      /\ stored \in [Slots -> {"absent", "unprocessed", "processed"}]
  BY DEF TypeInv, WorkType, RowType
<1>2. \A c \in Deliveries : on[c] # "idle" => work[c].event \in Slots
  BY DEF TypeInv, WorkType, WorkRecs
<1>3. ASSUME NEW e \in Events, Deliver(d, e) PROVE AnsweredInv'
  BY <1>1, <1>3, EventsFit DEF Deliver, Step, TypeInv
<1>4. CASE InsertEvent(d)
  BY <1>1, <1>2, <1>4 DEF InsertEvent, IsNew, Accept, Answer, Step
<1>5. CASE Retrieve(d)
  BY <1>1, <1>5, RetrieveKeepsEvent
<1>6. CASE WriteEvent(d)
  BY <1>1, <1>6 DEF WriteEvent, Step
<1>7. CASE MarkProcessed(d)
  BY <1>1, <1>2, <1>7 DEF MarkProcessed, Accept, Answer
<1>8. CASE HandlingFails(d) \/ HandlingDies(d)
  BY <1>1, <1>8 DEF HandlingFails, HandlingDies, Answer
<1> QED BY <1>3, <1>4, <1>5, <1>6, <1>7, <1>8 DEF DeliveryStep

LEMMA AnsweredNext == TypeInv /\ AnsweredInv /\ [BillingNext]_billingVars => AnsweredInv'
<1> SUFFICES ASSUME TypeInv, AnsweredInv, [BillingNext]_billingVars PROVE AnsweredInv'
  OBVIOUS
<1>1. CASE UNCHANGED eventVars
  BY <1>1 DEF eventVars, AnsweredInv, Callers, Clean
<1>2. CASE \E e \in Events : DeliverLate(e)
  BY <1>2 DEF DeliverLate, AnsweredInv, Callers, Clean
<1>3. UNCHANGED billingVars => UNCHANGED eventVars
  BY DEF billingVars, eventVars
<1> QED BY <1>1, <1>2, <1>3, OnlyDeliveries, AnsweredStep DEF BillingNext

\* A delivery that finds its event's key in Redis is answered 2xx at once; while
\* nothing fails, that never loses the event: the delivery that set the key
\* finishes it.
THEOREM AnsweredProcessed == BillingSpec => []AnsweredIsProcessed
<1>1. TypeInv /\ AnsweredInv => AnsweredIsProcessed
  <2> SUFFICES ASSUME TypeInv, AnsweredInv, NEW e \in answered \ troubled
      PROVE  stored[e] = "processed" \/ Callers(e) # {}
    BY DEF AnsweredIsProcessed
  <2>1. e \in Clean
    BY EventsFit DEF TypeInv, RowType, Clean
  <2> QED BY <2>1 DEF AnsweredInv
<1> QED BY <1>1, AnsweredInit, AnsweredNext, TypeInvHolds, PTL DEF BillingSpec

-----------------------------------------------------------------------------
(* Checkouts take turns.                                                    *)

\* While the lock was never lost, a checkout under way has it.
TurnsInv == ~freed => \A k \in BillingCalls : at[k] \in {"check", "session"} => lock = k

LEMMA TurnsStep == TypeInv /\ TurnsInv /\ [BillingNext]_billingVars => TurnsInv'
<1> SUFFICES ASSUME TypeInv, TurnsInv, [BillingNext]_billingVars PROVE TurnsInv'
  OBVIOUS
<1>0. at \in [BillingCalls -> {"idle", "check", "session", "release", "stripe", "write"}] /\ None \notin BillingCalls
  BY BillingAssumption DEF TypeInv, CallType
<1>1. CASE UNCHANGED <<at, lock, freed>>
  BY <1>1 DEF TurnsInv
<1>2. ASSUME NEW k \in BillingCalls, NEW p \in Plans, BeginCheckout(k, p) PROVE TurnsInv'
  BY <1>0, <1>2 DEF BeginCheckout, Begin, Go, LockFree, TurnsInv
<1>3. ASSUME NEW k \in BillingCalls, NEW op, NEW p \in Plans, BeginChange(k, op, p) PROVE TurnsInv'
  BY <1>0, <1>3 DEF BeginChange, Begin, Go, TurnsInv
<1>4. ASSUME NEW k \in BillingCalls, ReleaseLock(k) PROVE TurnsInv'
  <2>1. at[k] = "release" /\ at' = [at EXCEPT ![k] = "idle"] /\ lock' = None /\ freed' = (freed \/ lock \notin {k, None})
    BY <1>4 DEF ReleaseLock, Finish
  <2>2. ASSUME ~freed' PROVE ~freed /\ lock \in {k, None}
    BY Zenon, <2>1, <2>2
  <2>3. ASSUME ~freed', NEW l \in BillingCalls, at'[l] \in {"check", "session"} PROVE FALSE
    <3>1. l # k /\ at[l] \in {"check", "session"}
      BY <1>0, <2>1, <2>3
    <3> QED BY <1>0, <2>2, <2>3, <3>1 DEF TurnsInv
  <2> QED BY <2>3 DEF TurnsInv
<1>5. ASSUME NEW k \in BillingCalls,
             CheckRow(k) \/ CreateSession(k) \/ AskStripe(k) \/ StripeRefuses(k) \/ WriteChange(k) \/ CallDies(k)
      PROVE  TurnsInv'
  <2>1. UNCHANGED <<lock, freed>>
    BY <1>5 DEF CheckRow, CreateSession, AskStripe, StripeRefuses, WriteChange, CallDies
  <2>2. \A l \in BillingCalls : at'[l] \in {"check", "session"} => at[l] \in {"check", "session"}
    BY <1>0, <1>5 DEF CheckRow, CreateSession, AskStripe, StripeRefuses, WriteChange, CallDies, Go, Finish
  <2> QED BY <2>1, <2>2 DEF TurnsInv
<1>6. CASE LockExpires
  BY <1>6 DEF LockExpires, TurnsInv
<1>7. ASSUME NEW d \in Deliveries, WriteEvent(d) PROVE TurnsInv'
  <2>1. UNCHANGED at /\ (UNCHANGED <<lock, freed>> \/ (lock' = None /\ freed' = (freed \/ lock # None)))
    BY <1>7 DEF WriteEvent
  <2>2. CASE lock' = None /\ freed' = (freed \/ lock # None)
    <3>1. ASSUME ~freed' PROVE ~freed /\ lock = None
      BY Zenon, <2>2, <3>1
    <3> QED BY <1>0, <2>1, <2>2, <3>1 DEF TurnsInv
  <2> QED BY <1>1, <2>1, <2>2
<1>8. CASE StripeMoves \/ \E e \in Events : DeliverAgain(e) \/ DeliverLate(e)
  BY <1>1, <1>8 DEF StripeMoves, DeliverAgain, Deliver, DeliverLate
<1>9. ASSUME NEW d \in Deliveries,
             InsertEvent(d) \/ Retrieve(d) \/ MarkProcessed(d) \/ HandlingFails(d) \/ HandlingDies(d)
      PROVE  TurnsInv'
  BY <1>1, <1>9 DEF InsertEvent, Retrieve, MarkProcessed, HandlingFails, HandlingDies
<1>10. CASE UNCHANGED billingVars
  BY <1>1, <1>10 DEF billingVars
<1> QED BY <1>2, <1>3, <1>4, <1>5, <1>6, <1>7, <1>8, <1>9, <1>10
        DEF BillingNext, BillingStep, CallStep, DeliveryStep

\* However many checkouts a workspace starts at once, one is past the lock at a
\* time, as long as no call lost the lock to its expiry, to the webhook, or to a
\* call that released what it no longer had.
THEOREM TurnsTaken == BillingSpec => []CheckoutsTakeTurns
<1>1. BillingInit => TurnsInv
  BY DEF BillingInit, TurnsInv
<1>2. TurnsInv => CheckoutsTakeTurns
  BY DEF TurnsInv, CheckoutsTakeTurns
<1> QED BY <1>1, <1>2, TurnsStep, TypeInvHolds, PTL DEF BillingSpec

-----------------------------------------------------------------------------
(* At rest the row shows what Stripe has.                                   *)

\* Every event of s made by time t is all there is of s, and a state of that
\* time is then Stripe's.
Fresh(s, t)       == \A e \in Events : event[e].sub = s => event[e].time <= t
Snap(s, state, t) == Fresh(s, t) => state = stripe[s]

Plain == {"checkout", "upsert", "deleted"}
Twin(e, f) == event[f].kind = "upsert" /\ event[f].sub = event[e].sub /\ event[f].time = event[e].time

EventInv ==
    \A e \in Events :
        /\ Snap(event[e].sub, event[e].state, event[e].time)
        /\ event[e].kind = "unpaid" =>
              event[e].state.status = "past_due" /\ \E f \in Events : Twin(e, f)
        /\ event[e].kind = "deleted" => stripe[event[e].sub].status = "canceled"

\* What handlers and calls are about to write was so when they learned it.
KnownWork(d) ==
    LET e == work[d].event IN
    /\ on[d] = "retrieve" => event[e].kind = "checkout"
    /\ Snap(event[e].sub, work[d].state, work[d].time) /\ event[e].time <= work[d].time
    /\ event[e].kind = "unpaid" => work[d].state.status = "past_due"
KnownCall(k) == Snap(call[k].sub, call[k].state, call[k].time) /\ call[k].time <= change
KnownInv ==
    /\ \A d \in Deliveries : on[d] # "idle" => KnownWork(d)
    /\ \A k \in BillingCalls : at[k] = "write" => KnownCall(k)

\* Without an older state after a newer, a written event is no later than the
\* latest state written.
AsOfInv == ~overtaken => \A e \in Events : applied[e] > 0 => event[e].time <= asOf[event[e].sub]

\* Then the row shows its subscription, or an event of it is still to come.
ToCome(s) == \E e \in Events : event[e].sub = s /\ event[e].kind \in Plain /\ applied[e] = 0
ShowInv == ~overtaken /\ row.sub # None => Matches(row.sub) \/ ToCome(row.sub)

\* With no row, some subscription ended or was never made, or one is to come.
NoneInv ==
    row.sub = None =>
        \/ \E s \in Subs : stripe[s].status \notin Running
        \/ \E e \in Events : event[e].kind \in {"checkout", "upsert"} /\ applied[e] = 0

\* Only events that were made are written.
MadeInv == \A e \in Slots \ Events : applied[e] = 0

RowInv == EventInv /\ KnownInv /\ AsOfInv /\ ShowInv /\ NoneInv /\ MadeInv

-----------------------------------------------------------------------------
(* A change on Stripe's side.                                               *)

EventOf(kind, s, state) == [kind |-> kind, sub |-> s, state |-> state, time |-> change + 1]
Made == Events' \ Events

Changed(s, state) ==
    /\ stripe' = [stripe EXCEPT ![s] = state] /\ change' = change + 1
    /\ Events \subseteq Events' /\ \A e \in Events : event'[e] = event[e]
    /\ \A e \in Made :
          /\ event'[e].sub = s /\ event'[e].state = state /\ event'[e].time = change + 1
          /\ event'[e].kind = "unpaid" => state.status = "past_due"
          /\ event'[e].kind = "deleted" => state.status = "canceled"
    /\ \E e \in Made : event'[e].kind = IF state.status = "canceled" THEN "deleted" ELSE "upsert"
    /\ stripe[s].status # "canceled"

\* A sequence that follows another keeps its elements.
LEMMA Follows ==
    ASSUME NEW S, NEW p \in Seq(S), NEW q \in Seq(S)
    PROVE  /\ Len(p \o q) = Len(p) + Len(q)
           /\ \A i \in 1..Len(p) : (p \o q)[i] = p[i]
           /\ \A i \in 1..Len(q) : (p \o q)[Len(p) + i] = q[i]
OBVIOUS

LEMMA EventsAdded ==
    ASSUME StripeType, NEW s \in Subs, NEW state \in States, NEW kinds \in Seq(Kinds),
           Changes(s, state, kinds)
    PROVE  /\ Events \subseteq Events' /\ \A e \in Events : event'[e] = event[e]
           /\ \A e \in Made : \E i \in 1..Len(kinds) : event'[e] = EventOf(kinds[i], s, state)
           /\ \A i \in 1..Len(kinds) : \E e \in Made : event'[e] = EventOf(kinds[i], s, state)
<1> DEFINE fresh == [i \in 1..Len(kinds) |->
               [kind |-> kinds[i], sub |-> s, state |-> state, time |-> change + 1]]
<1>0. event \in Seq(EventRecs) /\ Len(event) \in Nat /\ Len(kinds) \in Nat /\ change \in Nat
  BY BillingAssumption DEF StripeType
<1>1. fresh \in Seq(EventRecs) /\ Len(fresh) = Len(kinds)
  BY <1>0 DEF EventRecs
<1>2. event' = event \o fresh
  BY DEF Changes
<1>a. \A i \in 1..Len(fresh) : fresh[i] = EventOf(kinds[i], s, state)
  BY <1>1 DEF EventOf
<1> HIDE DEF fresh
<1>3. /\ Len(event') = Len(event) + Len(fresh)
      /\ \A i \in 1..Len(event) : event'[i] = event[i]
      /\ \A i \in 1..Len(fresh) : event'[Len(event) + i] = fresh[i]
  <2>1. event \in Seq(EventRecs) /\ fresh \in Seq(EventRecs)
    BY <1>0, <1>1
  <2>2. /\ Len(event \o fresh) = Len(event) + Len(fresh)
        /\ \A i \in 1..Len(event) : (event \o fresh)[i] = event[i]
        /\ \A i \in 1..Len(fresh) : (event \o fresh)[Len(event) + i] = fresh[i]
    BY ONLY <2>1, Follows
  <2> QED BY ONLY <1>2, <2>2
<1>6. Events = 1..Len(event) /\ Events' = 1..(Len(event) + Len(kinds))
  BY <1>1, <1>3 DEF Events
<1>7. ASSUME NEW e \in Made
      PROVE  \E i \in 1..Len(kinds) : event'[e] = EventOf(kinds[i], s, state)
  <2>1. e - Len(event) \in 1..Len(kinds) /\ e = Len(event) + (e - Len(event))
    BY <1>0, <1>6 DEF Made
  <2> QED BY <1>1, <1>a, <1>3, <2>1
<1>8. ASSUME NEW i \in 1..Len(kinds)
      PROVE  \E e \in Made : event'[e] = EventOf(kinds[i], s, state)
  <2>1. Len(event) + i \in Made
    BY <1>0, <1>6 DEF Made
  <2> QED BY <1>1, <1>a, <1>3, <2>1
<1>9. Events \subseteq Events'
  BY <1>0, <1>6
<1> QED BY <1>3, <1>6, <1>7, <1>8, <1>9

LEMMA EventOfFields ==
    ASSUME NEW kind, NEW s, NEW state
    PROVE  /\ EventOf(kind, s, state).kind = kind /\ EventOf(kind, s, state).sub = s
           /\ EventOf(kind, s, state).state = state /\ EventOf(kind, s, state).time = change + 1
BY DEF EventOf

LEMMA ChangesChange ==
    ASSUME StripeType, NEW s \in Subs, NEW state \in States, NEW kinds \in Seq(Kinds),
           Changes(s, state, kinds), stripe[s].status # "canceled",
           1 \in 1..Len(kinds), kinds[1] = IF state.status = "canceled" THEN "deleted" ELSE "upsert",
           \A i \in 1..Len(kinds) : kinds[i] = "unpaid" => state.status = "past_due",
           \A i \in 1..Len(kinds) : kinds[i] = "deleted" => state.status = "canceled"
    PROVE  Changed(s, state)
<1>1. stripe' = [stripe EXCEPT ![s] = state] /\ change' = change + 1
  BY DEF Changes
<1>2. /\ Events \subseteq Events' /\ \A e \in Events : event'[e] = event[e]
      /\ \A e \in Made : \E i \in 1..Len(kinds) : event'[e] = EventOf(kinds[i], s, state)
      /\ \A i \in 1..Len(kinds) : \E e \in Made : event'[e] = EventOf(kinds[i], s, state)
  BY EventsAdded
<1>3. ASSUME NEW e \in Made
      PROVE  /\ event'[e].sub = s /\ event'[e].state = state /\ event'[e].time = change + 1
             /\ event'[e].kind = "unpaid" => state.status = "past_due"
             /\ event'[e].kind = "deleted" => state.status = "canceled"
  <2>1. PICK i \in 1..Len(kinds) : event'[e] = EventOf(kinds[i], s, state)
    BY <1>2
  <2> QED BY <2>1, EventOfFields
<1>4. \E e \in Made : event'[e].kind = IF state.status = "canceled" THEN "deleted" ELSE "upsert"
  <2>1. PICK e \in Made : event'[e] = EventOf(kinds[1], s, state)
    BY <1>2
  <2> QED BY <2>1, EventOfFields
<1> QED BY <1>1, <1>2, <1>3, <1>4 DEF Changed

LEMMA StripeChanges ==
    ASSUME TypeInv, StripeMoves
    PROVE  \E s \in Subs, state \in States : Changed(s, state)
<1>1. ASSUME NEW p \in Paid, Pay(p) PROVE \E s \in Subs, state \in States : Changed(s, state)
  <2> DEFINE new == [status |-> "active", plan |-> p, ending |-> FALSE]
             kinds == <<"upsert", "checkout">>
  <2>1. PICK s \in Subs : stripe[s].status = "none" /\ Changes(s, new, kinds)
    BY <1>1 DEF Pay
  <2>2. new \in States /\ new.status = "active"
    BY DEF States, Statuses, Running, Plans
  <2>3. /\ kinds \in Seq(Kinds) /\ 1 \in 1..Len(kinds) /\ kinds[1] = "upsert"
        /\ \A i \in 1..Len(kinds) : kinds[i] \in {"upsert", "checkout"}
    BY DEF Kinds
  <2> HIDE DEF new, kinds
  <2>4. Changed(s, new)
    BY <2>1, <2>2, <2>3, ChangesChange DEF TypeInv
  <2> QED BY <2>2, <2>4
<1>2. ASSUME NEW s \in Subs, PaymentFails(s) PROVE \E state \in States : Changed(s, state)
  <2> DEFINE new == [stripe[s] EXCEPT !.status = "past_due"]
             kinds == <<"upsert", "unpaid">>
  <2>1. stripe[s].status = "active" /\ Changes(s, new, kinds)
    BY <1>2 DEF PaymentFails
  <2>2. new \in States /\ new.status = "past_due"
    BY DEF TypeInv, StripeType, States, Statuses, Running
  <2>3. /\ kinds \in Seq(Kinds) /\ 1 \in 1..Len(kinds) /\ kinds[1] = "upsert"
        /\ \A i \in 1..Len(kinds) : kinds[i] \in {"upsert", "unpaid"}
    BY DEF Kinds
  <2> HIDE DEF new, kinds
  <2>4. Changed(s, new)
    BY <2>1, <2>2, <2>3, ChangesChange DEF TypeInv
  <2> QED BY <2>2, <2>4
<1>3. ASSUME NEW s \in Subs, PaymentRecovers(s) PROVE \E state \in States : Changed(s, state)
  <2> DEFINE new == [stripe[s] EXCEPT !.status = "active"]
             kinds == <<"upsert">>
  <2>1. stripe[s].status = "past_due" /\ Changes(s, new, kinds)
    BY <1>3 DEF PaymentRecovers
  <2>2. new \in States /\ new.status = "active"
    BY DEF TypeInv, StripeType, States, Statuses, Running
  <2>3. /\ kinds \in Seq(Kinds) /\ 1 \in 1..Len(kinds) /\ kinds[1] = "upsert"
        /\ \A i \in 1..Len(kinds) : kinds[i] \in {"upsert"}
    BY DEF Kinds
  <2> HIDE DEF new, kinds
  <2>4. Changed(s, new)
    BY <2>1, <2>2, <2>3, ChangesChange DEF TypeInv
  <2> QED BY <2>2, <2>4
<1>4. ASSUME NEW s \in Subs, PeriodEnds(s) PROVE \E state \in States : Changed(s, state)
  <2> DEFINE new == [stripe[s] EXCEPT !.status = "canceled"]
             kinds == <<"deleted">>
  <2>1. stripe[s].status \in Running /\ Changes(s, new, kinds)
    BY <1>4 DEF PeriodEnds
  <2>2. new \in States /\ new.status = "canceled"
    BY DEF TypeInv, StripeType, States, Statuses, Running
  <2>3. /\ kinds \in Seq(Kinds) /\ 1 \in 1..Len(kinds) /\ kinds[1] = "deleted"
        /\ \A i \in 1..Len(kinds) : kinds[i] \in {"deleted"}
    BY DEF Kinds
  <2> HIDE DEF new, kinds
  <2>4. Changed(s, new)
    BY <2>1, <2>2, <2>3, ChangesChange DEF TypeInv, Running
  <2> QED BY <2>2, <2>4
<1> QED BY <1>1, <1>2, <1>3, <1>4 DEF StripeMoves

\* A change of plan, a cancellation, a resumption: the call knows the new state.
LEMMA AskChanges ==
    ASSUME TypeInv, NEW k \in BillingCalls, AskStripe(k)
    PROVE  /\ call[k].sub \in Subs /\ Asked(k) \in States /\ Changed(call[k].sub, Asked(k))
           /\ \A l \in BillingCalls \ {k} : at'[l] = at[l] /\ call'[l] = call[l]
           /\ call'[k].sub = call[k].sub /\ call'[k].state = Asked(k) /\ call'[k].time = change + 1
<1>1. /\ at[k] = "stripe" /\ call[k] \in CallRecs /\ call[k].op # "checkout" /\ call[k].sub \in Subs
      /\ call[k].plan \in Plans /\ call[k].op \in {"change", "cancel", "resume"}
  BY DEF AskStripe, TypeInv, CallType, CallRecs
<1>2. stripe[call[k].sub] \in States
  BY <1>1 DEF TypeInv, StripeType
<1>3. Asked(k) \in States /\ Asked(k).status = stripe[call[k].sub].status
  BY <1>1, <1>2 DEF Asked, States
<1>4. stripe[call[k].sub].status \in Running /\ Changes(call[k].sub, Asked(k), <<"upsert">>)
  BY DEF AskStripe
<1> DEFINE kinds == <<"upsert">>
<1>5. /\ kinds \in Seq(Kinds) /\ 1 \in 1..Len(kinds) /\ kinds[1] = "upsert"
      /\ \A i \in 1..Len(kinds) : kinds[i] \in {"upsert"}
  BY DEF Kinds
<1>a. Changes(call[k].sub, Asked(k), kinds)
  BY <1>4
<1> HIDE DEF kinds
<1>6. Changed(call[k].sub, Asked(k))
  BY <1>1, <1>3, <1>4, <1>a, <1>5, ChangesChange DEF TypeInv, Running
<1>7. at' = [at EXCEPT ![k] = "write"] /\ call' = [call EXCEPT ![k].state = Asked(k), ![k].time = change + 1]
  BY DEF AskStripe, Go
<1>8. \A l \in BillingCalls \ {k} : at'[l] = at[l] /\ call'[l] = call[l]
  BY <1>7 DEF TypeInv, CallType
<1>9. call'[k].sub = call[k].sub /\ call'[k].state = Asked(k) /\ call'[k].time = change + 1
  <2>1. call'[k] = [call[k] EXCEPT !.state = Asked(k), !.time = change + 1]
    BY <1>7 DEF TypeInv, CallType
  <2> HIDE DEF Asked
  <2> QED BY <1>1, <2>1 DEF CallRecs
<1> QED BY <1>1, <1>3, <1>6, <1>8, <1>9
\* A state that was Stripe's at a time stays so, or a newer event tells of a change.
LEMMA SnapStays ==
    ASSUME TypeInv, NEW s \in Subs, NEW state \in States, Changed(s, state),
           NEW r \in Subs, NEW old, NEW t \in Nat, t <= change, Snap(r, old, t)
    PROVE  Snap(r, old, t)'
<1>0. change \in Nat /\ t < change + 1
  BY BillingAssumption DEF TypeInv, StripeType
<1> SUFFICES ASSUME \A e \in Events' : event'[e].sub = r => event'[e].time <= t
    PROVE  old = stripe'[r]
  BY DEF Snap, Fresh
<1>1. r # s
  <2>1. PICK e \in Made : event'[e].sub = s /\ event'[e].time = change + 1
    BY DEF Changed
  <2> QED BY <1>0, <2>1 DEF Made
<1>2. stripe'[r] = stripe[r]
  BY <1>1 DEF Changed, TypeInv, StripeType
<1>3. Fresh(r, t)
  BY DEF Changed, Fresh
<1> QED BY <1>2, <1>3 DEF Snap

LEMMA EventFacts ==
    ASSUME StripeType, NEW e \in Events
    PROVE  /\ event[e].kind \in Kinds /\ event[e].sub \in Subs /\ event[e].state \in States
           /\ event[e].time \in Nat /\ event[e].time <= change
<1>1. event[e] \in EventRecs
  BY DEF StripeType, Events
<1> QED BY <1>1 DEF StripeType, EventRecs

\* After a change the events made before tell what was, those made now what is.
LEMMA ChangeKeepsEvents ==
    ASSUME TypeInv, EventInv, NEW s \in Subs, NEW state \in States, Changed(s, state)
    PROVE  EventInv'
<1> USE DEF Made
<1> SUFFICES ASSUME NEW e \in Events'
    PROVE  /\ Snap(event[e].sub, event[e].state, event[e].time)'
           /\ event'[e].kind = "unpaid" =>
                 event'[e].state.status = "past_due" /\ \E f \in Events' : Twin(e, f)'
           /\ event'[e].kind = "deleted" => stripe'[event'[e].sub].status = "canceled"
  BY DEF EventInv
<1>1. stripe'[s] = state /\ \A r \in Subs \ {s} : stripe'[r] = stripe[r]
  BY DEF Changed, TypeInv, StripeType
<1>2. CASE e \in Events
  <2>1. event'[e] = event[e]
    BY <1>2 DEF Changed
  <2>2. event[e].sub \in Subs /\ event[e].time \in Nat /\ event[e].time <= change
    BY <1>2, EventFacts DEF TypeInv
  <2>3. Snap(event[e].sub, event[e].state, event[e].time)
    BY <1>2 DEF EventInv
  <2>4. Snap(event[e].sub, event[e].state, event[e].time)'
    <3>1. \A r, old, t : r = event[e].sub /\ old = event[e].state /\ t = event[e].time => Snap(r, old, t)'
      BY <2>2, <2>3, SnapStays
    <3> QED BY <2>1, <3>1 DEF Snap, Fresh
  <2>5. ASSUME event'[e].kind = "unpaid"
        PROVE  event'[e].state.status = "past_due" /\ \E f \in Events' : Twin(e, f)'
    <3>1. event[e].state.status = "past_due"
      BY <1>2, <2>1, <2>5 DEF EventInv
    <3>2. PICK f \in Events : Twin(e, f)
      BY <1>2, <2>1, <2>5 DEF EventInv
    <3>3. f \in Events' /\ event'[f] = event[f]
      BY DEF Changed
    <3>4. Twin(e, f)'
      BY <2>1, <3>2, <3>3 DEF Twin
    <3> QED BY <2>1, <3>1, <3>3, <3>4
  <2>6. ASSUME event'[e].kind = "deleted" PROVE stripe'[event'[e].sub].status = "canceled"
    <3>1. stripe[event[e].sub].status = "canceled"
      BY <1>2, <2>1, <2>6 DEF EventInv
    <3>2. event[e].sub # s
      BY <3>1 DEF Changed
    <3> QED BY <1>1, <2>1, <2>2, <3>1, <3>2
  <2> QED BY <2>4, <2>5, <2>6
<1>3. CASE e \notin Events
  <2>1. /\ event'[e].sub = s /\ event'[e].state = state /\ event'[e].time = change + 1
        /\ event'[e].kind = "unpaid" => state.status = "past_due"
        /\ event'[e].kind = "deleted" => state.status = "canceled"
    BY <1>3 DEF Changed
  <2>2. Snap(event[e].sub, event[e].state, event[e].time)'
    BY <1>1, <2>1 DEF Snap
  <2>3. ASSUME event'[e].kind = "unpaid" PROVE \E f \in Events' : Twin(e, f)'
    <3>1. state.status # "canceled"
      BY <2>1, <2>3
    <3>2. PICK f \in Made : event'[f].kind = "upsert"
      BY <3>1 DEF Changed
    <3>3. event'[f].sub = s /\ event'[f].time = change + 1
      BY DEF Changed
    <3> QED BY <2>1, <3>2, <3>3 DEF Twin
  <2> QED BY <1>1, <2>1, <2>2, <2>3
<1> QED BY <1>2, <1>3

rowVars == <<row, asOf, overtaken, applied>>

\* The row waits for the new event.
LEMMA ChangeKeepsRow ==
    ASSUME TypeInv, TypeInv', RowInv, NEW s \in Subs, NEW state \in States, Changed(s, state),
           UNCHANGED rowVars
    PROVE  AsOfInv' /\ ShowInv' /\ NoneInv' /\ MadeInv'
<1> USE DEF Made
<1>0. /\ Events \subseteq Slots /\ Events' \subseteq Slots /\ Events \subseteq Events'
      /\ \A e \in Events : event'[e] = event[e]
  <2>1. Events \subseteq Slots
    BY EventsFit DEF TypeInv
  <2>2. Events' \subseteq Slots
    BY BillingAssumption DEF TypeInv, StripeType, Events, Slots
  <2> QED BY <2>1, <2>2 DEF Changed
<1>1. stripe'[s] = state /\ \A r \in Subs \ {s} : stripe'[r] = stripe[r]
  BY DEF Changed, TypeInv, StripeType
<1>a. row' = row /\ asOf' = asOf /\ overtaken' = overtaken /\ applied' = applied
  BY DEF rowVars
<1>2. \A e \in Events' \ Events : applied[e] = 0
  BY <1>0 DEF RowInv, MadeInv
<1>3. AsOfInv'
  <2> SUFFICES ASSUME ~overtaken, NEW e \in Events', applied[e] > 0
      PROVE  event'[e].time <= asOf[event'[e].sub]
    BY <1>a DEF AsOfInv
  <2>1. e \in Events
    BY <1>2
  <2>2. event[e].time <= asOf[event[e].sub]
    BY <2>1 DEF RowInv, AsOfInv
  <2> QED BY <1>0, <2>1, <2>2
<1>b. \A r : ToCome(r) => ToCome(r)'
  BY <1>0, <1>a DEF ToCome
<1>4. ShowInv'
  <2> SUFFICES ASSUME ~overtaken, row.sub # None PROVE Matches(row.sub)' \/ ToCome(row.sub)'
    BY <1>a DEF ShowInv
  <2>1. CASE row.sub = s
    <3>1. PICK e \in Events' \ Events : event'[e].sub = s /\ event'[e].kind \in {"deleted", "upsert"}
      BY DEF Changed
    <3> QED BY <1>2, <1>a, <2>1, <3>1 DEF ToCome, Plain
  <2>2. CASE row.sub # s
    <3>1. stripe'[row.sub] = stripe[row.sub]
      BY <1>1, <2>2 DEF TypeInv, RowType, Rows
    <3>2. Matches(row.sub) => Matches(row.sub)'
      BY <1>a, <3>1 DEF Matches
    <3>3. Matches(row.sub) \/ ToCome(row.sub)
      BY DEF RowInv, ShowInv
    <3>4. ToCome(row.sub) => ToCome(row.sub)'
      BY <1>0, <1>a DEF ToCome
    <3> QED BY <3>2, <3>3, <3>4
  <2> QED BY <2>1, <2>2
<1>5. NoneInv'
  <2> SUFFICES ASSUME row.sub = None
      PROVE  \/ \E r \in Subs : stripe'[r].status \notin Running
             \/ \E e \in Events' : event'[e].kind \in {"checkout", "upsert"} /\ applied[e] = 0
    BY <1>a DEF NoneInv
  <2>1. ASSUME NEW r \in Subs, stripe[r].status \notin Running, stripe'[r].status \in Running
        PROVE  \E e \in Events' : event'[e].kind \in {"checkout", "upsert"} /\ applied[e] = 0
    <3>1. state.status # "canceled"
      BY <1>1, <2>1 DEF Running
    <3>2. PICK e \in Events' \ Events : event'[e].kind = "upsert"
      BY <3>1 DEF Changed
    <3> QED BY <1>2, <3>2
  <2>2. ASSUME NEW e \in Events, event[e].kind \in {"checkout", "upsert"}, applied[e] = 0
        PROVE  \E f \in Events' : event'[f].kind \in {"checkout", "upsert"} /\ applied[f] = 0
    BY <1>0, <2>2
  <2> QED BY <2>1, <2>2 DEF RowInv, NoneInv
<1>6. MadeInv'
  BY <1>0, <1>a DEF RowInv, MadeInv
<1> QED BY <1>3, <1>4, <1>5, <1>6

-----------------------------------------------------------------------------
(* The writes of the row.                                                   *)

\* Without an older state after a newer, a write is the latest of its subscription.
LEMMA PutFacts ==
    ASSUME TypeInv, RowInv, NEW new, NEW s \in Subs, NEW t \in 0..MaxChanges, Put(new, s, t),
           ~overtaken'
    PROVE  /\ ~overtaken /\ asOf[s] <= t /\ asOf'[s] = t /\ row' = new
           /\ \A r \in Subs : asOf[r] <= asOf'[r]
           /\ \A e \in Events : applied[e] > 0 => event[e].time <= asOf'[event[e].sub]
<1>1. asOf' = [asOf EXCEPT ![s] = t] /\ row' = new /\ overtaken' = (overtaken \/ t < asOf[s])
  BY DEF Put
<1>2. ~overtaken /\ ~(t < asOf[s])
  BY Zenon, <1>1
<1>3. asOf \in [Subs -> 0..MaxChanges] /\ t \in Nat /\ \A r \in Subs : asOf[r] \in Nat
  BY BillingAssumption DEF TypeInv, RowType
<1>4. \A r \in Subs : asOf[r] <= asOf'[r] /\ asOf'[r] \in Nat
  BY <1>1, <1>2, <1>3
<1>5. ASSUME NEW e \in Events, applied[e] > 0 PROVE event[e].time <= asOf'[event[e].sub]
  <2>1. event[e].sub \in Subs /\ event[e].time \in Nat
    BY EventFacts DEF TypeInv
  <2>2. event[e].time <= asOf[event[e].sub]
    BY <1>2, <1>5 DEF RowInv, AsOfInv
  <2> HIDE DEF Put
  <2> QED BY <1>3, <1>4, <2>1, <2>2
<1> QED BY <1>1, <1>2, <1>3, <1>4, <1>5

\* When no event of s is left to write and all it made are as old as t, what was
\* known at t is what Stripe has.
LEMMA LatestIsStripes ==
    ASSUME TypeInv, EventInv, NEW s \in Subs, NEW state, NEW t \in Nat, Snap(s, state, t),
           \A e \in Events : event[e].sub = s /\ event[e].kind \in Plain => event[e].time <= t
    PROVE  state = stripe[s]
<1>1. ASSUME NEW e \in Events, event[e].sub = s PROVE event[e].time <= t
  <2>1. CASE event[e].kind \in Plain
    BY <1>1, <2>1
  <2>2. CASE event[e].kind \notin Plain
    <3>1. event[e].kind = "unpaid"
      BY <2>2, EventFacts DEF TypeInv, Kinds, Plain
    <3>2. PICK f \in Events : Twin(e, f)
      BY <3>1 DEF EventInv
    <3> QED BY <1>1, <3>2 DEF Twin, Plain
  <2> QED BY <2>1, <2>2
<1> QED BY <1>1 DEF Snap, Fresh

LEMMA CallFacts ==
    ASSUME TypeInv, RowInv, NEW k \in BillingCalls, at[k] = "write"
    PROVE  /\ call[k] \in CallRecs /\ call[k].sub \in Subs /\ call[k].state \in States
           /\ call[k].time \in 0..MaxChanges /\ KnownCall(k)
BY DEF TypeInv, CallType, CallRecs, RowInv, KnownInv

\* A call's answer is written: new as it is, or into the row of its subscription.
LEMMA WriteChangeKeeps ==
    ASSUME TypeInv, RowInv, NEW k \in BillingCalls, WriteChange(k)
    PROVE  EventInv' /\ AsOfInv' /\ ShowInv' /\ NoneInv' /\ MadeInv'
<1> DEFINE c == call[k]
           new == IF c.op = "change" THEN Reconciled(c.sub, c.state) ELSE Patched(c.sub, c.state)
<1>1. /\ at[k] = "write" /\ Put(new, c.sub, c.time)
      /\ stripe' = stripe /\ event' = event /\ applied' = applied
  BY DEF WriteChange, stripeVars
<1>2. c.sub \in Subs /\ c.state \in States /\ c.time \in 0..MaxChanges /\ c.time \in Nat /\ Snap(c.sub, c.state, c.time)
  BY <1>1, CallFacts, BillingAssumption DEF KnownCall
<1>3. \/ new = Reconciled(c.sub, c.state)
      \/ row.sub = c.sub /\ new = [row EXCEPT !.status = c.state.status, !.ending = c.state.ending]
      \/ row.sub # c.sub /\ new = row
  BY DEF Patched
<1>r. row' = new
  BY <1>1 DEF Put
<1> HIDE DEF c, new
<1>4. row \in Rows /\ c.sub # None
  BY <1>2, BillingAssumption DEF TypeInv, RowType
<1>5. EventInv'
  BY <1>1 DEF RowInv, EventInv, Snap, Fresh, Events, Twin
<1>6. MadeInv'
  BY <1>1 DEF RowInv, MadeInv, Events
<1>7. AsOfInv'
  <2> SUFFICES ASSUME ~overtaken'
      PROVE  \A e \in Events : applied[e] > 0 => event[e].time <= asOf'[event[e].sub]
    BY <1>1 DEF AsOfInv, Events
  <2> QED BY <1>1, <1>2, PutFacts
<1>8. NoneInv'
  <2> SUFFICES ASSUME row'.sub = None PROVE row.sub = None
    BY <1>1 DEF RowInv, NoneInv, Events
  <2>1. new # Reconciled(c.sub, c.state)
    BY <1>4, <1>r DEF Reconciled
  <2> QED BY <1>3, <1>4, <1>r, <2>1 DEF Rows
<1>9. ShowInv'
  <2> SUFFICES ASSUME ~overtaken', row'.sub # None, ~ToCome(row'.sub) PROVE Matches(row.sub)'
    BY <1>1 DEF ShowInv, ToCome, Events
  <2>1. ~overtaken /\ \A e \in Events : applied[e] > 0 => event[e].time <= asOf'[event[e].sub]
    BY <1>1, <1>2, PutFacts
  <2>2. CASE row' = row
    BY <1>1, <2>1, <2>2 DEF RowInv, ShowInv, Matches
  <2>3. CASE row'.sub = c.sub
    <3>1. ASSUME NEW e \in Events, event[e].sub = c.sub, event[e].kind \in Plain
          PROVE  event[e].time <= c.time
      <4>1. applied[e] \in Nat /\ applied[e] # 0
        <5>1. e \in Slots
          BY EventsFit DEF TypeInv
        <5> QED BY <2>3, <3>1, <5>1 DEF ToCome, TypeInv, RowType
      <4>2. applied[e] > 0
        BY <4>1
      <4>3. asOf'[c.sub] = c.time
        BY <1>1, <1>2, PutFacts
      <4> QED BY <2>1, <3>1, <4>2, <4>3
    <3>2. c.state = stripe[c.sub]
      BY <1>2, <3>1, LatestIsStripes DEF RowInv
    <3>3. CASE new = Reconciled(c.sub, c.state)
      BY <1>1, <1>r, <3>2, <3>3 DEF Reconciled, Matches
    <3>4. CASE row.sub = c.sub /\ new = [row EXCEPT !.status = c.state.status, !.ending = c.state.ending]
      <4>1. Matches(c.sub)
        BY <1>4, <2>1, <2>3, <3>4 DEF RowInv, ShowInv
      <4>2. /\ row'.status = stripe[c.sub].status /\ row'.ending = stripe[c.sub].ending
            /\ row'.plan = row.plan /\ row.status = row'.status
        BY <1>4, <1>r, <3>2, <3>4, <4>1 DEF Rows, Matches
      <4> QED BY <1>1, <2>3, <4>1, <4>2 DEF Matches
    <3> QED BY <1>3, <1>r, <2>2, <3>3, <3>4
  <2>4. row' = row \/ row'.sub = c.sub
    <3>1. Reconciled(c.sub, c.state).sub = c.sub
      BY DEF Reconciled
    <3>2. \A x, y : [row EXCEPT !.status = x, !.ending = y].sub = row.sub
      BY <1>4 DEF Rows
    <3>3. CASE row.sub = c.sub /\ new = [row EXCEPT !.status = c.state.status, !.ending = c.state.ending]
      <4>1. new.sub = row.sub
        BY <3>2, <3>3
      <4> QED BY <1>r, <3>3, <4>1
    <3> QED BY <1>3, <1>r, <3>1, <3>3
  <2> QED BY <2>2, <2>3, <2>4
<1> QED BY <1>5, <1>6, <1>7, <1>8, <1>9

LEMMA WorkFacts ==
    ASSUME TypeInv, RowInv, NEW d \in Deliveries, on[d] # "idle"
    PROVE  /\ work[d] \in WorkRecs /\ work[d].event \in Events /\ work[d].event \in Slots
           /\ work[d].state \in States /\ work[d].time \in 0..MaxChanges /\ work[d].time \in Nat
           /\ KnownWork(d)
<1>1. work[d] \in WorkRecs /\ work[d].event \in Events /\ work[d].time <= change
  BY DEF TypeInv, WorkType
<1>2. KnownWork(d)
  BY DEF RowInv, KnownInv
<1>3. change \in 0..MaxChanges
  BY DEF TypeInv, StripeType
<1>4. work[d].state \in States /\ work[d].time \in Nat /\ work[d].event \in Slots
  BY <1>1 DEF WorkRecs
<1>5. work[d].time \in 0..MaxChanges
  BY <1>1, <1>3, <1>4, BillingAssumption
<1> QED BY <1>1, <1>2, <1>4, <1>5

\* What each kind of event makes of the row.
LEMMA WrittenRow ==
    ASSUME TypeInv, NEW e \in Events, NEW state \in States
    PROVE  LET s == event[e].sub new == Written(e, state) IN
           \/ event[e].kind \in {"checkout", "upsert"} /\ new = Reconciled(s, state)
           \/ event[e].kind = "deleted" /\ row.sub = s /\ new.sub = None
           \/ event[e].kind = "unpaid" /\ row.sub = s /\ new.sub = s /\ new.ending = row.ending
                 /\ new.status = "past_due" /\ new.plan = Free
           \/ event[e].kind \in {"deleted", "unpaid"} /\ row.sub # s /\ new = row
<1>1. event[e].kind \in {"checkout", "upsert", "deleted", "unpaid"} /\ row \in Rows
  BY EventFacts DEF TypeInv, RowType, Kinds
<1>2. CASE event[e].kind \in {"checkout", "upsert"}
  BY <1>2 DEF Written
<1>3. CASE event[e].kind = "deleted"
  BY <1>3 DEF Written, Ended
<1>4. CASE event[e].kind = "unpaid"
  <2>1. Written(e, state) = Demoted(event[e].sub)
    BY <1>4 DEF Written
  <2>2. CASE row.sub = event[e].sub
    BY <1>1, <1>4, <2>1, <2>2 DEF Demoted, Rows
  <2>3. CASE row.sub # event[e].sub
    BY <1>4, <2>1, <2>3 DEF Demoted
  <2> QED BY <2>2, <2>3
<1> QED BY <1>1, <1>2, <1>3, <1>4

LEMMA WriteEventKeeps ==
    ASSUME TypeInv, RowInv, NEW d \in Deliveries, WriteEvent(d)
    PROVE  EventInv' /\ AsOfInv' /\ ShowInv' /\ NoneInv' /\ MadeInv'
<1> DEFINE e == work[d].event
           s == event[e].sub
           state == work[d].state
           time == work[d].time
           new == Written(e, state)
<1>1. /\ on[d] = "write" /\ Put(new, s, time)
      /\ stripe' = stripe /\ event' = event /\ applied' = [applied EXCEPT ![e] = @ + 1]
  BY DEF WriteEvent, stripeVars
<1>2. /\ e \in Events /\ e \in Slots /\ state \in States /\ time \in 0..MaxChanges /\ time \in Nat
      /\ s \in Subs /\ event[e].time <= time /\ event[e].time \in Nat /\ Snap(s, state, time)
      /\ event[e].kind = "unpaid" => state.status = "past_due"
  BY <1>1, WorkFacts, EventFacts DEF KnownWork, TypeInv
<1>3. \/ event[e].kind \in {"checkout", "upsert"} /\ new = Reconciled(s, state)
      \/ event[e].kind = "deleted" /\ row.sub = s /\ new.sub = None
      \/ event[e].kind = "unpaid" /\ row.sub = s /\ new.sub = s /\ new.ending = row.ending
            /\ new.status = "past_due" /\ new.plan = Free
      \/ event[e].kind \in {"deleted", "unpaid"} /\ row.sub # s /\ new = row
  BY <1>2, WrittenRow
<1>4. row' = new /\ s # None
  BY <1>1, <1>2, BillingAssumption DEF Put
<1>a. /\ applied \in [Slots -> Nat] /\ applied'[e] # 0
      /\ \A f \in Slots \ {e} : applied'[f] = applied[f]
  BY <1>1, <1>2 DEF TypeInv, RowType
<1>b. Events \subseteq Slots /\ Events' = Events
  BY <1>1, EventsFit DEF TypeInv, Events
<1>r. Reconciled(s, state).sub = s
  BY DEF Reconciled
<1>d. event[e].kind = "deleted" => stripe[s].status = "canceled"
  BY <1>2 DEF RowInv, EventInv
<1> HIDE DEF e, s, state, time, new
<1>s. s = event[e].sub
  BY DEF s
<1>5. EventInv'
  BY <1>1 DEF RowInv, EventInv, Snap, Fresh, Events, Twin
<1>6. MadeInv'
  BY <1>2, <1>a, <1>b DEF RowInv, MadeInv
<1>p. ~overtaken' => /\ ~overtaken /\ asOf'[s] = time
                     /\ \A f \in Events : applied[f] > 0 => event[f].time <= asOf'[event[f].sub]
  BY <1>1, <1>2, PutFacts
<1>7. ASSUME ~overtaken', NEW f \in Events, applied'[f] # 0
      PROVE  event[f].time <= asOf'[event[f].sub]
  <2>1. CASE f = e
    BY <1>2, <1>p, <1>7, <1>s, <2>1
  <2>2. CASE f # e
    <3>1. applied[f] \in Nat /\ applied[f] # 0
      BY <1>7, <1>a, <1>b, <2>2
    <3> QED BY <1>p, <1>7, <3>1
  <2> QED BY <2>1, <2>2
<1>8. AsOfInv'
  BY <1>1, <1>b, <1>7 DEF AsOfInv
<1>9. NoneInv'
  <2> SUFFICES ASSUME row'.sub = None
      PROVE  \/ \E r \in Subs : stripe[r].status \notin Running
             \/ \E f \in Events : event[f].kind \in {"checkout", "upsert"} /\ applied'[f] = 0
    BY <1>1, <1>b DEF NoneInv
  <2>1. CASE event[e].kind = "deleted" /\ row.sub = s
    BY <1>2, <1>d, <2>1 DEF Running
  <2>2. CASE row' = row /\ event[e].kind \in {"deleted", "unpaid"}
    BY <1>a, <1>b, <2>2 DEF RowInv, NoneInv
  <2> QED BY <1>3, <1>4, <1>r, <2>1, <2>2
<1>10. ShowInv'
  <2> SUFFICES ASSUME ~overtaken', row'.sub # None, ~ToCome(row.sub)' PROVE Matches(row.sub)'
    BY DEF ShowInv
  <2>0. \A f \in Events : event[f].sub = row'.sub /\ event[f].kind \in Plain => applied'[f] # 0
    BY <1>1, <1>b DEF ToCome
  <2>1. CASE row' = row /\ row.sub # s
    <3>1. ~ToCome(row.sub)
      BY <1>a, <1>b, <1>s, <2>0, <2>1 DEF ToCome
    <3> QED BY <1>1, <1>p, <2>1, <3>1 DEF RowInv, ShowInv, Matches
  <2>2. CASE row'.sub = s
    <3>1. state = stripe[s]
      <4>1. \A f \in Events : event[f].sub = s /\ event[f].kind \in Plain => event[f].time <= time
        BY <1>7, <1>p, <2>0, <2>2
      <4> QED BY <1>2, <4>1, LatestIsStripes DEF RowInv
    <3>2. CASE new = Reconciled(s, state)
      BY <1>1, <1>4, <3>1, <3>2 DEF Reconciled, Matches
    <3>3. CASE event[e].kind = "unpaid" /\ row.sub = s /\ new.sub = s /\ new.ending = row.ending
                  /\ new.status = "past_due" /\ new.plan = Free
      <4>1. ~ToCome(s)
        BY <1>a, <1>b, <2>0, <2>2, <3>3 DEF ToCome, Plain
      <4>2. Matches(s)
        BY <1>4, <1>p, <3>3, <4>1 DEF RowInv, ShowInv
      <4> QED BY <1>1, <1>2, <1>4, <3>1, <3>3, <4>2 DEF Matches
    <3> QED BY <1>3, <1>4, <2>2, <3>2, <3>3
  <2> QED BY <1>3, <1>4, <1>r, <2>1, <2>2
<1> QED BY <1>5, <1>6, <1>8, <1>9, <1>10

-----------------------------------------------------------------------------
(* What handlers and calls know.                                            *)

\* Which step of its own a delivery or call can take without learning anything.
SameWork(d) == on'[d] # "idle" =>
    on[d] # "idle" /\ work'[d] = work[d] /\ (on'[d] = "retrieve" => event[work[d].event].kind = "checkout")
SameCall(k) == at'[k] = "write" => at[k] = "write" /\ call'[k] = call[k]
rowSide == <<stripe, event, change, row, asOf, overtaken, applied>>

LEMMA KnownStays ==
    ASSUME UNCHANGED <<stripe, event, change>>, KnownInv,
           \A d \in Deliveries : SameWork(d) \/ (on'[d] # "idle" => KnownWork(d)'),
           \A k \in BillingCalls : SameCall(k)
    PROVE  KnownInv'
<1>1. ASSUME NEW d \in Deliveries, on'[d] # "idle", SameWork(d) PROVE KnownWork(d)'
  <2>1. on[d] # "idle" /\ work'[d] = work[d] /\ (on'[d] = "retrieve" => event[work[d].event].kind = "checkout")
    BY <1>1 DEF SameWork
  <2>2. KnownWork(d)
    BY <2>1 DEF KnownInv
  <2> QED BY <2>1, <2>2 DEF KnownWork, Snap, Fresh, Events
<1>2. ASSUME NEW k \in BillingCalls, at'[k] = "write" PROVE KnownCall(k)'
  <2>1. at[k] = "write" /\ call'[k] = call[k]
    BY <1>2 DEF SameCall
  <2> QED BY <2>1 DEF KnownInv, KnownCall, Snap, Fresh, Events
<1> QED BY <1>1, <1>2 DEF KnownInv

LEMMA RestStays == RowInv /\ UNCHANGED rowSide /\ KnownInv' => RowInv'
BY DEF rowSide, RowInv, EventInv, AsOfInv, ShowInv, NoneInv, MadeInv, Matches, ToCome, Snap, Fresh, Events, Twin

\* A change reaches nobody's memory but that of the call that asked for it.
LEMMA ChangeKeepsKnown ==
    ASSUME TypeInv, RowInv, NEW s \in Subs, NEW state \in States, Changed(s, state),
           UNCHANGED <<on, work>>,
           \A k \in BillingCalls : SameCall(k) \/ (at'[k] = "write" => KnownCall(k)')
    PROVE  KnownInv'
<1>0. change \in Nat /\ change' = change + 1
  BY BillingAssumption DEF Changed, TypeInv, StripeType
<1>1. ASSUME NEW d \in Deliveries, on[d] # "idle" PROVE KnownWork(d)'
  <2> DEFINE e == work[d].event
  <2>1. e \in Events /\ work[d].time \in Nat /\ work[d].time <= change /\ KnownWork(d)
    BY <1>1, WorkFacts DEF TypeInv, WorkType
  <2>2. event'[e] = event[e] /\ event[e].sub \in Subs
    BY <2>1, EventFacts DEF Changed, TypeInv
  <2>3. Snap(event[e].sub, work[d].state, work[d].time)
    BY <2>1 DEF KnownWork
  <2>4. \A r, old, t : r = event[e].sub /\ old = work[d].state /\ t = work[d].time => Snap(r, old, t)'
    BY <2>1, <2>2, <2>3, SnapStays
  <2>5. Snap(event[e].sub, work[d].state, work[d].time)'
    BY <2>2, <2>4 DEF Snap, Fresh
  <2> QED BY <2>1, <2>2, <2>5 DEF KnownWork
<1>2. ASSUME NEW k \in BillingCalls, at'[k] = "write", SameCall(k) PROVE KnownCall(k)'
  <2>1. at[k] = "write" /\ call'[k] = call[k]
    BY <1>2 DEF SameCall
  <2>2. call[k].sub \in Subs /\ call[k].time \in 0..MaxChanges /\ KnownCall(k)
    BY <2>1, CallFacts
  <2>3. call[k].time \in Nat /\ call[k].time <= change /\ Snap(call[k].sub, call[k].state, call[k].time)
    BY <2>2, BillingAssumption DEF KnownCall
  <2>4. \A r, old, t : r = call[k].sub /\ old = call[k].state /\ t = call[k].time => Snap(r, old, t)'
    BY <2>2, <2>3, SnapStays
  <2>5. Snap(call[k].sub, call[k].state, call[k].time)'
    BY <2>1, <2>4 DEF Snap, Fresh
  <2> QED BY <1>0, <2>1, <2>3, <2>5 DEF KnownCall
<1> QED BY <1>1, <1>2 DEF KnownInv

LEMMA ChangeKeepsAll ==
    ASSUME TypeInv, TypeInv', RowInv, NEW s \in Subs, NEW state \in States, Changed(s, state),
           UNCHANGED <<on, work>>, UNCHANGED rowVars,
           \A k \in BillingCalls : SameCall(k) \/ (at'[k] = "write" => KnownCall(k)')
    PROVE  RowInv'
<1>1. KnownInv'
  BY ChangeKeepsKnown
<1>2. EventInv'
  BY ChangeKeepsEvents DEF RowInv
<1>3. AsOfInv' /\ ShowInv' /\ NoneInv' /\ MadeInv'
  BY ChangeKeepsRow
<1> QED BY <1>1, <1>2, <1>3 DEF RowInv

LEMMA CallsKeepRowInv ==
    ASSUME TypeInv, TypeInv', RowInv, NEW k \in BillingCalls, CallStep(k) \/ CallDies(k)
    PROVE  RowInv'
<1>0. at \in [BillingCalls -> {"idle", "check", "session", "release", "stripe", "write"}]
      /\ call \in [BillingCalls -> CallRecs \cup {None}]
  BY DEF TypeInv, CallType
<1>1. CASE AskStripe(k)
  <2>1. UNCHANGED <<on, work>> /\ UNCHANGED rowVars
    BY <1>1 DEF AskStripe, rowVars, observed
  <2>2. /\ call[k].sub \in Subs /\ Asked(k) \in States /\ Changed(call[k].sub, Asked(k))
        /\ \A l \in BillingCalls \ {k} : at'[l] = at[l] /\ call'[l] = call[l]
        /\ call'[k].sub = call[k].sub /\ call'[k].state = Asked(k) /\ call'[k].time = change + 1
    BY <1>1, AskChanges
  <2>3. stripe'[call[k].sub] = Asked(k) /\ change' = change + 1 /\ change \in Nat
    BY <2>2, BillingAssumption DEF Changed, TypeInv, StripeType
  <2>4. KnownCall(k)'
    BY <2>2, <2>3 DEF KnownCall, Snap
  <2>5. \A l \in BillingCalls : SameCall(l) \/ (at'[l] = "write" => KnownCall(l)')
    BY <2>2, <2>4 DEF SameCall
  <2> QED BY <2>1, <2>2, <2>5, ChangeKeepsAll
<1>2. CASE WriteChange(k)
  <2>1. EventInv' /\ AsOfInv' /\ ShowInv' /\ NoneInv' /\ MadeInv'
    BY <1>2, WriteChangeKeeps
  <2>2. UNCHANGED <<stripe, event, change>> /\ UNCHANGED <<on, work>>
    BY <1>2 DEF WriteChange, stripeVars
  <2>3. \A l \in BillingCalls : SameCall(l)
    BY <1>0, <1>2 DEF WriteChange, Finish, SameCall
  <2>4. \A d \in Deliveries : SameWork(d) \/ (on'[d] # "idle" => KnownWork(d)')
    <3>1. \A d \in Deliveries : on[d] = "retrieve" => event[work[d].event].kind = "checkout"
      BY DEF RowInv, KnownInv, KnownWork
    <3> QED BY <2>2, <3>1 DEF SameWork
  <2>5. KnownInv'
    BY <2>2, <2>3, <2>4, KnownStays DEF RowInv
  <2> QED BY <2>1, <2>5 DEF RowInv
<1>3. CASE CheckRow(k) \/ CreateSession(k) \/ ReleaseLock(k) \/ StripeRefuses(k) \/ CallDies(k)
  <2>1. UNCHANGED rowSide /\ UNCHANGED <<on, work>>
    BY <1>3 DEF CheckRow, CreateSession, ReleaseLock, StripeRefuses, CallDies, rowSide, stripeVars, observed
  <2>2. \A l \in BillingCalls : SameCall(l)
    <3>1. CASE CheckRow(k) \/ CreateSession(k)
      BY <1>0, <3>1 DEF CheckRow, CreateSession, Go, SameCall
    <3>2. CASE ReleaseLock(k) \/ StripeRefuses(k) \/ CallDies(k)
      BY <1>0, <3>2 DEF ReleaseLock, StripeRefuses, CallDies, Finish, SameCall
    <3> QED BY <1>3, <3>1, <3>2
  <2>3. \A d \in Deliveries : SameWork(d) \/ (on'[d] # "idle" => KnownWork(d)')
    <3>1. \A d \in Deliveries : on[d] = "retrieve" => event[work[d].event].kind = "checkout"
      BY DEF RowInv, KnownInv, KnownWork
    <3> QED BY <2>1, <3>1 DEF SameWork
  <2>4. KnownInv'
    BY <2>1, <2>2, <2>3, KnownStays DEF RowInv, rowSide
  <2> QED BY <2>1, <2>4, RestStays
<1> QED BY <1>1, <1>2, <1>3 DEF CallStep

LEMMA OthersKeepRowInv ==
    ASSUME TypeInv, TypeInv', RowInv
    PROVE  /\ StripeMoves => RowInv'
           /\ LockExpires => RowInv'
           /\ \A k \in BillingCalls, p \in Plans : BeginCheckout(k, p) => RowInv'
           /\ \A k \in BillingCalls, p \in Plans : \A op : BeginChange(k, op, p) => RowInv'
           /\ UNCHANGED billingVars => RowInv'
<1>0. at \in [BillingCalls -> {"idle", "check", "session", "release", "stripe", "write"}]
      /\ call \in [BillingCalls -> CallRecs \cup {None}]
  BY DEF TypeInv, CallType
<1>1. UNCHANGED <<on, work>> => \A d \in Deliveries : SameWork(d) \/ (on'[d] # "idle" => KnownWork(d)')
  <2>1. \A d \in Deliveries : on[d] = "retrieve" => event[work[d].event].kind = "checkout"
    BY DEF RowInv, KnownInv, KnownWork
  <2> QED BY <2>1 DEF SameWork
<1>2. ASSUME UNCHANGED rowSide, UNCHANGED <<on, work>>, \A l \in BillingCalls : SameCall(l) PROVE RowInv'
  <2>1. KnownInv'
    BY <1>1, <1>2, KnownStays DEF RowInv, rowSide
  <2> QED BY <1>2, <2>1, RestStays
<1>3. ASSUME StripeMoves PROVE RowInv'
  <2>1. UNCHANGED <<on, work>> /\ UNCHANGED rowVars /\ \A k \in BillingCalls : SameCall(k)
    BY <1>3 DEF StripeMoves, rowVars, observed, SameCall
  <2>2. PICK s \in Subs, state \in States : Changed(s, state)
    BY <1>3, StripeChanges
  <2> QED BY <2>1, <2>2, ChangeKeepsAll
<1>4. ASSUME LockExpires PROVE RowInv'
  <2>1. UNCHANGED rowSide /\ UNCHANGED <<on, work>> /\ UNCHANGED <<at, call>>
    BY <1>4 DEF LockExpires, rowSide, stripeVars, observed
  <2> QED BY <1>2, <2>1 DEF SameCall
<1>5. ASSUME NEW k \in BillingCalls, NEW p \in Plans, BeginCheckout(k, p) PROVE RowInv'
  <2>1. UNCHANGED rowSide /\ UNCHANGED <<on, work>>
    BY <1>5 DEF BeginCheckout, Begin, rowSide, stripeVars, observed
  <2>2. \A l \in BillingCalls : SameCall(l)
    BY <1>0, <1>5 DEF BeginCheckout, Begin, Go, SameCall
  <2> QED BY <1>2, <2>1, <2>2
<1>6. ASSUME NEW k \in BillingCalls, NEW p \in Plans, NEW op, BeginChange(k, op, p) PROVE RowInv'
  <2>1. UNCHANGED rowSide /\ UNCHANGED <<on, work>>
    BY <1>6 DEF BeginChange, Begin, rowSide, stripeVars, observed
  <2>2. \A l \in BillingCalls : SameCall(l)
    BY <1>0, <1>6 DEF BeginChange, Begin, Go, SameCall
  <2> QED BY <1>2, <2>1, <2>2
<1>7. ASSUME UNCHANGED billingVars PROVE RowInv'
  <2>1. UNCHANGED rowSide /\ UNCHANGED <<on, work>> /\ UNCHANGED <<at, call>>
    BY <1>7 DEF billingVars, rowSide, stripeVars, observed
  <2> QED BY <1>2, <2>1 DEF SameCall
<1> QED BY <1>3, <1>4, <1>5, <1>6, <1>7

LEMMA DeliveriesKeepRowInv ==
    ASSUME TypeInv, TypeInv', RowInv, NEW d \in Deliveries,
           \/ DeliveryStep(d) \/ HandlingFails(d) \/ HandlingDies(d)
           \/ \E e \in Events : Deliver(d, e)
    PROVE  RowInv'
<1>0. on \in [Deliveries -> {"idle", "insert", "retrieve", "write", "mark"}]
      /\ work \in [Deliveries -> WorkRecs \cup {None}]
  BY DEF TypeInv, WorkType
<1>1. \A l \in Deliveries : on[l] = "retrieve" => event[work[l].event].kind = "checkout"
  BY DEF RowInv, KnownInv, KnownWork
<1>c. UNCHANGED <<at, call>> => \A k \in BillingCalls : SameCall(k)
  BY DEF SameCall
<1>2. ASSUME UNCHANGED rowSide, UNCHANGED <<at, call>>,
             \A l \in Deliveries : SameWork(l) \/ (on'[l] # "idle" => KnownWork(l)')
      PROVE  RowInv'
  <2>1. KnownInv'
    BY <1>c, <1>2, KnownStays DEF RowInv, rowSide
  <2> QED BY <1>2, <2>1, RestStays
<1>3. CASE WriteEvent(d)
  <2>1. EventInv' /\ AsOfInv' /\ ShowInv' /\ NoneInv' /\ MadeInv'
    BY <1>3, WriteEventKeeps
  <2>2. UNCHANGED <<stripe, event, change>> /\ UNCHANGED <<at, call>>
    BY <1>3 DEF WriteEvent, stripeVars
  <2>3. \A l \in Deliveries : SameWork(l)
    BY <1>0, <1>1, <1>3 DEF WriteEvent, Step, SameWork
  <2>4. KnownInv'
    BY <1>c, <2>2, <2>3, KnownStays DEF RowInv
  <2> QED BY <2>1, <2>4 DEF RowInv
<1>4. ASSUME NEW e \in Events, Deliver(d, e) PROVE RowInv'
  <2>1. UNCHANGED rowSide /\ UNCHANGED <<at, call>>
    BY <1>4 DEF Deliver, rowSide, stripeVars, observed
  <2>2. CASE e \in seen
    <3>1. UNCHANGED <<on, work>>
      BY <1>4, <2>2 DEF Deliver
    <3> QED BY <1>1, <1>2, <2>1, <3>1 DEF SameWork
  <2>3. CASE e \notin seen
    <3>1. /\ on' = [on EXCEPT ![d] = "insert"]
          /\ work' = [work EXCEPT ![d] = [event |-> e, state |-> event[e].state, time |-> event[e].time]]
      BY <1>4, <2>3 DEF Deliver, Step
    <3>2. on'[d] = "insert" /\ work'[d] = [event |-> e, state |-> event[e].state, time |-> event[e].time]
      BY <1>0, <3>1
    <3>3. work'[d].event = e /\ work'[d].state = event[e].state /\ work'[d].time = event[e].time
      BY <3>2
    <3>4. event' = event /\ stripe' = stripe
      BY <2>1 DEF rowSide
    <3>5. Snap(event[e].sub, event[e].state, event[e].time)' /\ event[e].time \in Nat
          /\ (event[e].kind = "unpaid" => event[e].state.status = "past_due")
      BY <3>4, EventFacts DEF RowInv, EventInv, TypeInv, Snap, Fresh, Events
    <3>6. KnownWork(d)'
      BY <3>2, <3>3, <3>4, <3>5 DEF KnownWork, Snap, Fresh, Events
    <3>7. \A l \in Deliveries : SameWork(l) \/ (on'[l] # "idle" => KnownWork(l)')
      BY <1>0, <1>1, <3>1, <3>6 DEF SameWork
    <3> QED BY <1>2, <2>1, <3>7
  <2> QED BY <2>2, <2>3
<1>6. CASE InsertEvent(d)
  <2>1. UNCHANGED rowSide /\ UNCHANGED <<at, call>>
    BY <1>6 DEF InsertEvent, rowSide, stripeVars, observed
  <2>2. \A l \in Deliveries : SameWork(l)
    <3>1. CASE IsNew(work[d].event)
      <4>1. /\ on' = [on EXCEPT ![d] = IF event[work[d].event].kind = "checkout" THEN "retrieve" ELSE "write"]
            /\ work' = work /\ on[d] = "insert"
        BY <1>6, <3>1 DEF InsertEvent, Step
      <4> QED BY <1>0, <1>1, <4>1 DEF SameWork
    <3>2. CASE ~IsNew(work[d].event)
      <4>1. on' = [on EXCEPT ![d] = "idle"] /\ work' = [work EXCEPT ![d] = None]
        BY <1>6, <3>2 DEF InsertEvent, Accept, Answer
      <4> QED BY <1>0, <1>1, <4>1 DEF SameWork
    <3> QED BY <3>1, <3>2
  <2> QED BY <1>2, <2>1, <2>2
<1>7. CASE Retrieve(d)
  <2> DEFINE e == work[d].event
  <2>1. UNCHANGED rowSide /\ UNCHANGED <<at, call>>
    BY <1>7 DEF Retrieve, rowSide, stripeVars, observed
  <2>2. /\ on[d] = "retrieve" /\ on' = [on EXCEPT ![d] = "write"]
        /\ work' = [work EXCEPT ![d] = [@ EXCEPT !.state = stripe[event[e].sub], !.time = change]]
    BY <1>7 DEF Retrieve, Step
  <2>3. work[d] \in WorkRecs /\ e \in Events /\ event[e].kind = "checkout" /\ event[e].time <= change
    BY <1>1, <2>2, WorkFacts, EventFacts DEF TypeInv
  <2>4. work'[d] = [work[d] EXCEPT !.state = stripe[event[e].sub], !.time = change]
    BY <1>0, <2>2
  <2>5. work'[d].event = e /\ work'[d].state = stripe[event[e].sub] /\ work'[d].time = change
    BY <2>3, <2>4 DEF WorkRecs
  <2>6. on'[d] = "write" /\ event' = event /\ stripe' = stripe
    BY <1>0, <2>1, <2>2 DEF rowSide
  <2> HIDE DEF e
  <2>7. KnownWork(d)'
    BY <2>3, <2>5, <2>6 DEF KnownWork, Snap
  <2>8. \A l \in Deliveries : SameWork(l) \/ (on'[l] # "idle" => KnownWork(l)')
    BY <1>0, <1>1, <2>2, <2>7 DEF SameWork
  <2> QED BY <1>2, <2>1, <2>8
<1>8. CASE MarkProcessed(d) \/ HandlingFails(d) \/ HandlingDies(d)
  <2>1. UNCHANGED rowSide /\ UNCHANGED <<at, call>>
    BY <1>8 DEF MarkProcessed, HandlingFails, HandlingDies, rowSide, stripeVars, observed
  <2>2. on' = [on EXCEPT ![d] = "idle"] /\ work' = [work EXCEPT ![d] = None]
    BY <1>8 DEF MarkProcessed, HandlingFails, HandlingDies, Accept, Answer
  <2>3. \A l \in Deliveries : SameWork(l)
    BY <1>0, <1>1, <2>2 DEF SameWork
  <2> QED BY <1>2, <2>1, <2>3
<1> QED BY <1>3, <1>4, <1>6, <1>7, <1>8 DEF DeliveryStep

\* A late delivery needs no free handler.
LEMMA LateKeepsRowInv ==
    ASSUME TypeInv, RowInv, NEW e \in Events, DeliverLate(e)
    PROVE  RowInv'
<1>1. UNCHANGED rowSide /\ UNCHANGED <<at, call>> /\ UNCHANGED <<on, work>>
  BY DEF DeliverLate, rowSide, stripeVars, observed
<1>2. KnownInv'
  BY <1>1 DEF RowInv, KnownInv, KnownWork, KnownCall, rowSide, Snap, Fresh, Events
<1> QED BY <1>1, <1>2, RestStays

LEMMA RowInvNext == TypeInv /\ TypeInv' /\ RowInv /\ [BillingNext]_billingVars => RowInv'
<1> SUFFICES ASSUME TypeInv, TypeInv', RowInv, [BillingNext]_billingVars PROVE RowInv'
  OBVIOUS
<1>1. CASE StripeMoves \/ LockExpires \/ UNCHANGED billingVars
  BY <1>1, OthersKeepRowInv
<1>2. ASSUME NEW k \in BillingCalls, NEW p \in Plans,
             BeginCheckout(k, p) \/ \E op \in {"change", "cancel", "resume"} : BeginChange(k, op, p)
      PROVE  RowInv'
  BY <1>2, OthersKeepRowInv
<1>3. ASSUME NEW k \in BillingCalls, CallStep(k) \/ CallDies(k) PROVE RowInv'
  BY <1>3, CallsKeepRowInv
<1>4. ASSUME NEW d \in Deliveries, DeliveryStep(d) \/ HandlingFails(d) \/ HandlingDies(d) PROVE RowInv'
  BY <1>4, DeliveriesKeepRowInv
<1>5. ASSUME NEW e \in Events, DeliverAgain(e) \/ DeliverLate(e) PROVE RowInv'
  BY <1>5, DeliveriesKeepRowInv, LateKeepsRowInv DEF DeliverAgain
<1> QED BY <1>1, <1>2, <1>3, <1>4, <1>5 DEF BillingNext, BillingStep

LEMMA RowInvInit == BillingInit => RowInv
<1> SUFFICES ASSUME BillingInit PROVE RowInv
  OBVIOUS
<1>1. Events = {} /\ \A e \in Slots : applied[e] = 0
  <2>1. event = <<>>
    BY DEF BillingInit
  <2>2. applied = [e \in Slots |-> 0]
    BY DEF BillingInit, Slots
  <2>3. Events = {}
    BY <2>1 DEF Events
  <2> QED BY <2>2, <2>3
<1>2. (\A d \in Deliveries : on[d] = "idle") /\ (\A k \in BillingCalls : at[k] = "idle")
  BY DEF BillingInit
<1>3. EventInv /\ KnownInv /\ AsOfInv /\ MadeInv
  BY <1>1, <1>2 DEF EventInv, KnownInv, AsOfInv, MadeInv
<1>4. CASE stripe = [s \in Subs |-> NoSub] /\ row = NoRow
  <2>1. row.sub = None
    BY <1>4 DEF NoRow
  <2>2. PICK s \in Subs : TRUE
    BY BillingAssumption
  <2>3. stripe[s].status \notin Running
    BY <1>4 DEF NoSub, Running
  <2> QED BY <1>3, <2>1, <2>3 DEF RowInv, ShowInv, NoneInv
<1>5. ASSUME NEW s \in Subs, NEW p \in Paid,
             stripe = [t \in Subs |-> IF t = s THEN [NoSub EXCEPT !.status = "active", !.plan = p] ELSE NoSub],
             row = [sub |-> s, status |-> "active", plan |-> p, ending |-> FALSE]
      PROVE  RowInv
  <2>1. row.sub = s /\ row.status = "active" /\ row.plan = p /\ row.ending = FALSE /\ s # None
    BY <1>5, BillingAssumption
  <2>2. stripe[s].status = "active" /\ stripe[s].plan = p /\ stripe[s].ending = FALSE
    BY <1>5 DEF NoSub
  <2> QED BY <1>3, <2>1, <2>2 DEF RowInv, ShowInv, NoneInv, Matches
<1> QED BY <1>4, <1>5 DEF BillingInit

-----------------------------------------------------------------------------
(* What is processed was written, and nothing is troubled without a trouble.*)

WrittenInv ==
    /\ \A d \in Deliveries : on[d] = "mark" => applied[work[d].event] # 0
    /\ \A e \in Slots : stored[e] = "processed" => applied[e] # 0

LEMMA WrittenStep ==
    ASSUME TypeInv, WrittenInv, NEW d \in Deliveries,
           DeliveryStep(d) \/ HandlingFails(d) \/ HandlingDies(d) \/ \E e \in Events : Deliver(d, e)
    PROVE  WrittenInv'
<1> USE DEF WrittenInv
<1>1. /\ on \in [Deliveries -> {"idle", "insert", "retrieve", "write", "mark"}]
      /\ work \in [Deliveries -> WorkRecs \cup {None}]
      /\ stored \in [Slots -> {"absent", "unprocessed", "processed"}] /\ applied \in [Slots -> Nat]
  BY DEF TypeInv, WorkType, RowType
<1>2. \A c \in Deliveries : on[c] # "idle" => work[c].event \in Slots
  BY DEF TypeInv, WorkType, WorkRecs
<1>3. ASSUME NEW e \in Events, Deliver(d, e) PROVE WrittenInv'
  BY <1>1, <1>3 DEF Deliver, Step
<1>4. CASE InsertEvent(d)
  BY <1>1, <1>2, <1>4 DEF InsertEvent, IsNew, Accept, Answer, Step
<1>5. CASE Retrieve(d)
  BY <1>1, <1>5, RetrieveKeepsEvent
<1>6. CASE WriteEvent(d)
  <2>1. /\ on[d] = "write" /\ on' = [on EXCEPT ![d] = "mark"] /\ UNCHANGED <<stored, work>>
        /\ applied' = [applied EXCEPT ![work[d].event] = @ + 1]
    BY <1>6 DEF WriteEvent, Step
  <2>2. /\ applied'[work[d].event] # 0
        /\ \A e \in Slots : e # work[d].event => applied'[e] = applied[e]
    BY <1>1, <1>2, <2>1
  <2> QED BY <1>1, <1>2, <2>1, <2>2
<1>7. CASE MarkProcessed(d)
  BY <1>1, <1>2, <1>7 DEF MarkProcessed, Accept, Answer
<1>8. CASE HandlingFails(d) \/ HandlingDies(d)
  BY <1>1, <1>8 DEF HandlingFails, HandlingDies, Answer
<1> QED BY <1>3, <1>4, <1>5, <1>6, <1>7, <1>8 DEF DeliveryStep

LEMMA WrittenNext == TypeInv /\ WrittenInv /\ [BillingNext]_billingVars => WrittenInv'
<1> SUFFICES ASSUME TypeInv, WrittenInv, [BillingNext]_billingVars PROVE WrittenInv'
  OBVIOUS
<1>1. CASE UNCHANGED eventVars
  BY <1>1 DEF eventVars, WrittenInv
<1>2. CASE \E e \in Events : DeliverLate(e)
  BY <1>2 DEF DeliverLate, WrittenInv
<1>3. UNCHANGED billingVars => UNCHANGED eventVars
  BY DEF billingVars, eventVars
<1> QED BY <1>1, <1>2, <1>3, OnlyDeliveries, WrittenStep DEF BillingNext

TroubleInv == troubles \in Nat /\ (troubles = 0 => troubled = {})

LEMMA TroubleNext == TroubleInv /\ [BillingNext]_billingVars => TroubleInv'
<1> SUFFICES ASSUME TroubleInv, [BillingNext]_billingVars PROVE TroubleInv'
  OBVIOUS
<1>1. CASE UNCHANGED <<troubles, troubled>>
  BY <1>1 DEF TroubleInv
<1>2. CASE troubles' = troubles + 1
  BY <1>2 DEF TroubleInv
<1>3. CASE StripeMoves \/ LockExpires \/ UNCHANGED billingVars
  BY <1>1, <1>2, <1>3 DEF StripeMoves, LockExpires, billingVars
<1>4. ASSUME NEW k \in BillingCalls, NEW p \in Plans,
             BeginCheckout(k, p) \/ \E op \in {"change", "cancel", "resume"} : BeginChange(k, op, p)
      PROVE  UNCHANGED <<troubles, troubled>>
  BY <1>4 DEF BeginCheckout, BeginChange, Begin
<1>5. ASSUME NEW k \in BillingCalls, CallStep(k) \/ CallDies(k)
      PROVE  UNCHANGED <<troubles, troubled>> \/ troubles' = troubles + 1
  BY <1>5 DEF CallStep, CallDies, CheckRow, CreateSession, ReleaseLock, AskStripe, StripeRefuses, WriteChange
<1>6. ASSUME NEW d \in Deliveries, DeliveryStep(d) \/ HandlingFails(d) \/ HandlingDies(d)
      PROVE  UNCHANGED <<troubles, troubled>> \/ troubles' = troubles + 1
  BY <1>6 DEF DeliveryStep, HandlingFails, HandlingDies, InsertEvent, Retrieve, WriteEvent, MarkProcessed
<1>7. ASSUME NEW e \in Events, DeliverAgain(e) \/ DeliverLate(e)
      PROVE  UNCHANGED <<troubles, troubled>> \/ troubles' = troubles + 1
  BY <1>7 DEF DeliverAgain, Deliver, DeliverLate
<1> QED BY <1>1, <1>2, <1>3, <1>4, <1>5, <1>6, <1>7 DEF BillingNext, BillingStep

\* In whatever order Stripe's events are delivered, again or at once, and however
\* they race with changes of plan, cancellations and resumptions: when all is
\* answered and nothing failed, and no older state of a subscription came after a
\* newer, the row shows what Stripe has.
THEOREM RowShown == BillingSpec => []RowShowsStripe
<1>1. BillingInit => RowInv /\ AnsweredInv /\ WrittenInv /\ TroubleInv
  <2>1. BillingInit => WrittenInv /\ TroubleInv
    <3> SUFFICES ASSUME BillingInit PROVE WrittenInv /\ TroubleInv
      OBVIOUS
    <3>1. stored = [e \in Slots |-> "absent"] /\ on = [d \in Deliveries |-> "idle"]
      BY DEF BillingInit, Slots
    <3>2. troubles = 0 /\ troubled = {}
      BY DEF BillingInit
    <3> QED BY <3>1, <3>2 DEF WrittenInv, TroubleInv
  <2> QED BY <2>1, RowInvInit, AnsweredInit
<1>2. TypeInv /\ RowInv /\ AnsweredInv /\ WrittenInv /\ TroubleInv => RowShowsStripe
  <2> SUFFICES ASSUME TypeInv, RowInv, AnsweredInv, WrittenInv, TroubleInv, AtRest, troubles = 0, ~overtaken
      PROVE  /\ row.sub # None => Matches(row.sub)
             /\ row.sub = None => \E s \in Subs : stripe[s].status \notin Running
    BY DEF RowShowsStripe
  <2>1. ASSUME NEW e \in Events PROVE applied[e] # 0
    <3>1. e \in Clean /\ e \in Slots /\ e \in answered
      BY EventsFit DEF TypeInv, TroubleInv, AtRest, Clean
    <3>2. Callers(e) = {}
      BY DEF AtRest, Callers
    <3>3. stored[e] = "processed"
      BY <3>1, <3>2 DEF AnsweredInv
    <3> QED BY <3>1, <3>3 DEF WrittenInv
  <2> QED BY <2>1 DEF RowInv, ShowInv, NoneInv, ToCome
<1> QED BY <1>1, <1>2, RowInvNext, AnsweredNext, WrittenNext, TroubleNext, TypeInvHolds, PTL DEF BillingSpec

-----------------------------------------------------------------------------
(* DomainVerification.  Types, which row a call is about, which poll a slot *)
(* has in hand.                                                             *)

Begun(c) == cpc[c] \notin {"new", "insert", "done"}

CallsPlaced ==
    \A c \in Calls :
        /\ Begun(c) => crow[c] \in Regs
        /\ poll[c] # "none" => cpc[c] = "done" /\ crow[c] \in Regs

SlotsPlaced ==
    \A w \in Workers :
        /\ wpc[w] = "idle" <=> job[w] = Nothing
        /\ job[w] # Nothing => poll[job[w]] # "none"

DomainInv == TypeOK /\ CallsPlaced /\ SlotsPlaced

\* What a slot at work has in hand.
LEMMA InHandOK ==
    ASSUME DomainInv, NEW w \in Workers, wpc[w] # "idle"
    PROVE  job[w] \in Calls /\ Subject(w) \in Regs
BY DEF DomainInv, TypeOK, CallsPlaced, SlotsPlaced, Subject

\* A write of the API: one row, its version one up.
LEMMA WriteOK ==
    ASSUME DomainInv, NEW c \in Calls, crow[c] \in Regs, NEW r \in DomainRows, Write(c, r),
           r.version = domain[crow[c]].version
    PROVE  /\ domain' \in [Regs -> DomainRows] /\ cver' \in [Calls -> Nat]
           /\ domain'[crow[c]].status = r.status /\ domain'[crow[c]].key = r.key
           /\ domain'[crow[c]].version = domain[crow[c]].version + 1
           /\ cver'[c] = domain[crow[c]].version + 1
           /\ \A q \in Regs \ {crow[c]} : domain'[q] = domain[q]
           /\ \A d \in Calls \ {c} : cver'[d] = cver[d]
<1> DEFINE new == [r EXCEPT !.version = @ + 1]
<1>1. r.version \in Nat
  BY DEF DomainRows
<1>2. new \in DomainRows /\ new.status = r.status /\ new.key = r.key /\ new.version = r.version + 1
  BY <1>1 DEF DomainRows
<1>3. domain' = [domain EXCEPT ![crow[c]] = new]
      /\ cver' = [cver EXCEPT ![c] = domain[crow[c]].version + 1]
  BY DEF Write
<1> HIDE DEF new
<1>4. QED
  BY <1>1, <1>2, <1>3 DEF DomainInv, TypeOK

\* What the four writes of the API change beside the version.
Became(c, st, k) ==
    /\ domain' \in [Regs -> DomainRows] /\ cver' \in [Calls -> Nat]
    /\ domain'[crow[c]].status = st /\ domain'[crow[c]].key = k
    /\ domain'[crow[c]].version = domain[crow[c]].version + 1
    /\ cver'[c] = domain[crow[c]].version + 1
    /\ \A q \in Regs \ {crow[c]} : domain'[q] = domain[q]
    /\ \A d \in Calls \ {c} : cver'[d] = cver[d]

LEMMA Wrote ==
    ASSUME DomainInv, NEW c \in Calls, crow[c] \in Regs
    PROVE  /\ Write(c, [domain[crow[c]] EXCEPT !.status = "verifying", !.key = TRUE])
              => Became(c, "verifying", TRUE)
           /\ Write(c, [domain[crow[c]] EXCEPT !.status = "verifying", !.aged = FALSE])
              => Became(c, "verifying", domain[crow[c]].key)
           /\ Write(c, [domain[crow[c]] EXCEPT !.status = "deleting"])
              => Became(c, "deleting", domain[crow[c]].key)
           /\ Write(c, [domain[crow[c]] EXCEPT !.status = "deleted"])
              => Became(c, "deleted", domain[crow[c]].key)
<1> DEFINE q == crow[c]
           r1 == [domain[q] EXCEPT !.status = "verifying", !.key = TRUE]
           r2 == [domain[q] EXCEPT !.status = "verifying", !.aged = FALSE]
           r3 == [domain[q] EXCEPT !.status = "deleting"]
           r4 == [domain[q] EXCEPT !.status = "deleted"]
<1>1. domain[q] \in DomainRows
  BY DEF DomainInv, TypeOK
<1>2. /\ r1 \in DomainRows /\ r2 \in DomainRows /\ r3 \in DomainRows /\ r4 \in DomainRows
      /\ r1.version = domain[q].version /\ r2.version = domain[q].version
      /\ r3.version = domain[q].version /\ r4.version = domain[q].version
      /\ r1.status = "verifying" /\ r2.status = "verifying"
      /\ r3.status = "deleting" /\ r4.status = "deleted"
      /\ r2.key = domain[q].key /\ r3.key = domain[q].key /\ r4.key = domain[q].key
  BY <1>1 DEF DomainRows, DomainStatus
<1>3. r1.key = TRUE
  BY <1>1 DEF DomainRows
<1> HIDE DEF r1, r2, r3, r4
<1>4. (Write(c, r1) => Became(c, "verifying", TRUE))
  BY <1>2, <1>3, WriteOK DEF Became
<1>5. (Write(c, r2) => Became(c, "verifying", domain[q].key))
  BY <1>2, WriteOK DEF Became
<1>6. (Write(c, r3) => Became(c, "deleting", domain[q].key))
  BY <1>2, WriteOK DEF Became
<1>7. (Write(c, r4) => Became(c, "deleted", domain[q].key))
  BY <1>2, WriteOK DEF Became
<1>8. QED
  BY <1>4, <1>5, <1>6, <1>7 DEF r1, r2, r3, r4

\* The steps of a call that leave the table alone, and those that write it.
Asks(c) ==
    \/ CreateCheck(c) \/ InsertConflict(c) \/ ClearIdentity(c) \/ CreateIdentity(c)
    \/ UndoIdentity(c) \/ PublishPoll(c) \/ RemoveIdentity(c) \/ CrashCall(c)
    \/ \E r \in Regs : VerifyRead(c, r) \/ DeleteRead(c, r)
Revises(c) ==
    \/ PersistKey(c) \/ Requeue(c) \/ MarkDeleting(c) \/ Tombstone(c)

LEMMA AsksTyped ==
    ASSUME DomainInv, NEW c \in Calls, Asks(c) PROVE DomainInv'
<1> USE DEF DomainInv, TypeOK, CallsPlaced, SlotsPlaced, Begun, slots, history, CallSteps,
            Disturb, Undisturbed, Goes
<1>0. ConstantsAssumption
  BY ConstantsAssumption
<1>1. CASE CreateCheck(c) \/ InsertConflict(c)
  BY <1>1 DEF CreateCheck, InsertConflict
<1>2. CASE ClearIdentity(c) \/ UndoIdentity(c) \/ RemoveIdentity(c)
  BY <1>0, <1>2 DEF ClearIdentity, UndoIdentity, RemoveIdentity, NoIdentity, ConstantsAssumption
<1>3. CASE CreateIdentity(c)
  BY <1>0, <1>3 DEF CreateIdentity, ConstantsAssumption
<1>4. CASE PublishPoll(c) \/ CrashCall(c)
  <2>1. lost' \in BOOLEAN
    BY <1>4 DEF PublishPoll, CrashCall
  <2>2. disturbances' \in 0..MaxDisturbances /\ poll' \in [Calls -> {"none", "ready", "out", "gone"}]
    BY <1>0, <1>4 DEF PublishPoll, CrashCall, ConstantsAssumption
  <2>3. CASE PublishPoll(c)
    BY <2>1, <2>2, <2>3 DEF PublishPoll
  <2>4. CASE CrashCall(c)
    BY <2>1, <2>2, <2>4 DEF CrashCall
  <2>5. QED
    BY <1>4, <2>3, <2>4
<1>5. ASSUME NEW r \in Regs, VerifyRead(c, r) \/ DeleteRead(c, r) PROVE DomainInv'
  <2>1. domain[r].version \in Nat
    BY DEF DomainRows
  <2>2. QED
    BY <1>5, <2>1 DEF VerifyRead, DeleteRead, On
<1>6. QED
  BY <1>1, <1>2, <1>3, <1>4, <1>5 DEF Asks

LEMMA RevisesTyped ==
    ASSUME DomainInv, NEW c \in Calls, Revises(c) PROVE DomainInv'
<1>1. crow[c] \in Regs
  BY DEF Revises, PersistKey, Requeue, MarkDeleting, Tombstone, DomainInv, CallsPlaced, Begun
<1>2. domain' \in [Regs -> DomainRows] /\ cver' \in [Calls -> Nat]
  BY <1>1, Wrote DEF Revises, PersistKey, Requeue, MarkDeleting, Tombstone, Became, DomainInv, TypeOK
<1>3. /\ UNCHANGED <<identity, dns, poll, crow, slots, stale, proven, late, lost, disturbances>>
      /\ cpc' \in [Calls -> CallSteps] /\ cpc[c] # "done"
      /\ cpc'[c] \in {"done", "publish", "remove"}
      /\ \A d \in Calls \ {c} : cpc'[d] = cpc[d]
      /\ asked' \subseteq Regs
  BY <1>1 DEF Revises, PersistKey, Requeue, MarkDeleting, Tombstone, Goes, history, DomainInv, TypeOK, CallSteps
<1>4. QED
  BY <1>1, <1>2, <1>3 DEF DomainInv, TypeOK, CallsPlaced, SlotsPlaced, Begun, slots

\* A row that is inserted or rolled back.
LEMMA RowsTyped ==
    ASSUME DomainInv, NEW c \in Calls,
           (\E r \in Regs : InsertRow(c, r)) \/ Rollback(c)
    PROVE  DomainInv'
<1>1. CASE Rollback(c)
  <2>1. crow[c] \in Regs
    BY <1>1 DEF Rollback, DomainInv, CallsPlaced, Begun
  <2>2. domain' \in [Regs -> DomainRows]
    BY <1>1, <2>1 DEF Rollback, DomainInv, TypeOK, DomainRows, DomainStatus
  <2>3. QED
    BY <1>1, <2>2 DEF Rollback, Goes, slots, history, DomainInv, TypeOK, CallsPlaced, SlotsPlaced, Begun, CallSteps
<1>2. ASSUME NEW r \in Regs, InsertRow(c, r) PROVE DomainInv'
  <2>2. domain' \in [Regs -> DomainRows]
    BY <1>2 DEF InsertRow, DomainInv, TypeOK, DomainRows, DomainStatus
  <2>3. QED
    BY <1>2, <2>2 DEF InsertRow, Goes, slots, DomainInv, TypeOK, CallsPlaced, SlotsPlaced, Begun, CallSteps
<1>3. QED
  BY <1>1, <1>2

\* The worker's update of a row, and the sweeper's.
LEMMA UpdateOK ==
    ASSUME DomainInv, NEW r \in Regs, NEW st \in DomainStatus,
           domain' = [domain EXCEPT ![r].status = st]
    PROVE  /\ domain' \in [Regs -> DomainRows]
           /\ \A q \in Regs : /\ domain'[q].key = domain[q].key
                              /\ domain'[q].version = domain[q].version
                              /\ domain'[q].status = IF q = r THEN st ELSE domain[q].status
BY DEF DomainInv, TypeOK, DomainRows

\* A worker's steps.
LEMMA HandleTyped ==
    ASSUME DomainInv, NEW w \in Workers, Handle(w) \/ CrashWorker(w)
    PROVE  DomainInv'
<1> USE DEF DomainInv, TypeOK, CallsPlaced, SlotsPlaced, Begun, api, history, WorkSteps,
            Disturb, Undisturbed
<1>0. ConstantsAssumption
  BY ConstantsAssumption
<1>1. ASSUME NEW m \in Calls, Receive(w, m) PROVE DomainInv'
  BY <1>0, <1>1 DEF Receive, ConstantsAssumption
<1>2. CASE CheckStatus(w) \/ CheckIdentity(w) \/ Settle(w) \/ CrashWorker(w)
  <2>1. job[w] \in Calls /\ poll[job[w]] # "none"
    BY <1>2, InHandOK DEF CheckStatus, CheckIdentity, Settle, CrashWorker
  <2>2. CASE CrashWorker(w)
    BY <1>0, <2>1, <2>2 DEF CrashWorker, ConstantsAssumption
  <2>3. ASSUME NEW st \in {"ready", "gone"}, Returns(w, st), disturbances' \in 0..MaxDisturbances,
               UNCHANGED <<domain, identity, dns, api, stale, history>>
        PROVE  DomainInv'
    BY <2>1, <2>3 DEF Returns
  <2>4. ASSUME NEW step \in {"check", "verified", "pending", "failed"}, Steps(w, step),
               disturbances' \in 0..MaxDisturbances, wpc[w] # "idle",
               UNCHANGED <<domain, identity, dns, poll, api, stale, history>>
        PROVE  DomainInv'
    BY <2>1, <2>4 DEF Steps
  <2>5. (Disturb \/ Undisturbed) => disturbances' \in 0..MaxDisturbances
    BY <1>0 DEF ConstantsAssumption
  <2>6. CASE CheckStatus(w)
    BY <2>3, <2>4, <2>5, <2>6 DEF CheckStatus
  <2>7. CASE CheckIdentity(w)
    <3>1. (IF identity.dkim = "success" THEN "verified" ELSE identity.dkim) \in {"verified", "pending", "failed"}
      OBVIOUS
    <3>2. QED
      BY <2>3, <2>4, <2>5, <2>7, <3>1 DEF CheckIdentity
  <2>8. CASE Settle(w)
    BY <2>3, <2>8 DEF Settle
  <2>9. QED
    BY <1>2, <2>2, <2>6, <2>7, <2>8
<1>3. ASSUME NEW to \in {"verified", "pending", "failed"}, NEW next \in {"ack", "nak"},
             UpdateDomain(w, to, next)
      PROVE  DomainInv'
  <2>1. job[w] \in Calls /\ poll[job[w]] # "none" /\ Subject(w) \in Regs
    BY <1>3, InHandOK DEF UpdateDomain
  <2>2. domain' \in [Regs -> DomainRows]
    BY <1>3, <2>1 DEF UpdateDomain, DomainRows, DomainStatus
  <2>3. QED
    BY <1>0, <1>3, <2>1, <2>2 DEF UpdateDomain, Steps, Returns, ConstantsAssumption
<1>4. QED
  BY <1>1, <1>2, <1>3 DEF Handle, UpdateDomainVerified, UpdateDomainPending, UpdateDomainFailed

\* Timers, the sweeper and what is outside.
Outside ==
    \/ \E m \in Calls : ExpireAckWait(m)
    \/ GetStale \/ \E r \in Regs : MarkExpired(r) \/ PublishDns(r) \/ Age(r)
    \/ SesDecides \/ SesLapses \/ SesRecovers

LEMMA OutsideTyped ==
    ASSUME DomainInv, Outside PROVE DomainInv'
<1> USE DEF DomainInv, TypeOK, CallsPlaced, SlotsPlaced, Begun, api, slots, history,
            Disturb, Undisturbed
<1>0. ConstantsAssumption
  BY ConstantsAssumption
<1>1. ASSUME NEW m \in Calls, ExpireAckWait(m) PROVE DomainInv'
  <2>1. lost' \in BOOLEAN
    BY <1>1 DEF ExpireAckWait
  <2>2. disturbances' \in 0..MaxDisturbances
    BY <1>0, <1>1 DEF ExpireAckWait, ConstantsAssumption
  <2>3. QED
    BY <1>1, <2>1, <2>2 DEF ExpireAckWait
<1>2. CASE GetStale \/ SesDecides \/ SesLapses \/ SesRecovers
  BY <1>0, <1>2 DEF GetStale, SesDecides, SesLapses, SesRecovers, ConstantsAssumption
<1>3. ASSUME NEW r \in Regs, MarkExpired(r) \/ Age(r) PROVE DomainInv'
  <2>1. domain' \in [Regs -> DomainRows]
    <3>1. CASE MarkExpired(r)
      BY <3>1 DEF MarkExpired, DomainRows, DomainStatus
    <3>2. CASE Age(r)
      <4>1. domain' = [domain EXCEPT ![r] = [@ EXCEPT !.aged = TRUE]]
        BY <3>2 DEF Age
      <4>2. domain[r] \in DomainRows
        OBVIOUS
      <4>3. [domain[r] EXCEPT !.aged = TRUE] \in DomainRows
        BY ONLY <4>2 DEF DomainRows
      <4>4. QED
        BY <4>1, <4>3
    <3>3. QED
      BY <1>3, <3>1, <3>2
  <2>2. QED
    BY <1>0, <1>3, <2>1 DEF MarkExpired, Age, ConstantsAssumption
<1>4. ASSUME NEW r \in Regs, PublishDns(r) PROVE DomainInv'
  BY <1>4 DEF PublishDns
<1>5. QED
  BY <1>1, <1>2, <1>3, <1>4 DEF Outside

LEMMA DomainSteps ==
    ASSUME [Next]_vars
    PROVE  \/ UNCHANGED vars
           \/ \E c \in Calls : Asks(c) \/ Revises(c) \/ Rollback(c)
           \/ \E c \in Calls, r \in Regs : InsertRow(c, r)
           \/ \E w \in Workers : Handle(w) \/ CrashWorker(w)
           \/ Outside
BY DEF Next, Continue, Asks, Revises, Outside

LEMMA DomainTyped == DomainInv /\ [Next]_vars => DomainInv'
<1> SUFFICES ASSUME DomainInv, [Next]_vars PROVE DomainInv'
  OBVIOUS
<1>1. CASE UNCHANGED vars
  BY <1>1 DEF vars, DomainInv, TypeOK, CallsPlaced, SlotsPlaced, Begun
<1>2. QED
  BY <1>1, DomainSteps, AsksTyped, RevisesTyped, RowsTyped, HandleTyped, OutsideTyped

LEMMA InitDomain == Init => DomainInv
<1> SUFFICES ASSUME Init PROVE DomainInv
  OBVIOUS
<1>0. ConstantsAssumption
  BY ConstantsAssumption
<1>1. AbsentRow \in DomainRows /\ RegisteredRow \in DomainRows /\ DeletedRow \in DomainRows
  BY DEF AbsentRow, RegisteredRow, DeletedRow, DomainRows, DomainStatus
<1>2. domain \in [Regs -> DomainRows]
  BY <1>1 DEF Init
<1>3. /\ identity \in [owner : Regs \cup {Nothing}, dkim : {"pending", "success", "failed"}]
      /\ dns \subseteq Regs /\ proven \subseteq Regs
  BY DEF Init, NoIdentity
<1>4. lost \in BOOLEAN
  BY DEF Init
<1>5. QED
  BY <1>0, <1>2, <1>3, <1>4 DEF Init, DomainInv, TypeOK, CallsPlaced, SlotsPlaced, Begun, CallSteps,
                                WorkSteps, ConstantsAssumption

-----------------------------------------------------------------------------
(* The table and the calls at work on it.                                   *)

Creates(c) == cpc[c] \in {"clear", "create", "persist", "rollback", "undo"}
Writes(c)  == cpc[c] \in {"clear", "create", "persist", "requeue", "mark", "remove", "tombstone"}

\* A call at work has its row in the table's past or present.
RowsThere ==
    /\ \A c \in Calls :
          /\ Begun(c) => Status(crow[c]) # "absent"
          /\ cpc[c] = "publish" \/ poll[c] # "none" => crow[c] \in asked
    /\ \A r \in Regs : Status(r) = "absent" => ~domain[r].key /\ r \notin asked

\* No version is read ahead of its time; a deletion or a request for
\* verification leaves every older version behind.
Versions ==
    \A c \in Calls : Writes(c) =>
        /\ cver[c] <= domain[crow[c]].version
        /\ Status(crow[c]) = "deleted" => cver[c] # domain[crow[c]].version
        /\ Creates(c) /\ crow[c] \in asked => cver[c] # domain[crow[c]].version

\* A row has one creator, and no key before the creator stores it.
Creators ==
    \A c \in Calls : Creates(c) =>
        /\ ~domain[crow[c]].key
        /\ \A d \in Calls : Creates(d) /\ crow[d] = crow[c] => d = c

OneActive == \A r, q \in Regs : Active(r) /\ Active(q) => r = q

TableInv == RowsThere /\ Versions /\ Creators /\ OneActive

\* An update that stays among the four statuses of a verification.
Verifications == {"pending", "verifying", "verified", "failed"}
Mild ==
    \A r \in Regs :
        /\ domain'[r].key = domain[r].key /\ domain'[r].version = domain[r].version
        /\ \/ domain'[r].status = domain[r].status
           \/ domain[r].status \in Verifications /\ domain'[r].status \in Verifications

LEMMA MildKeeps ==
    ASSUME DomainInv, TableInv, Mild, UNCHANGED <<cpc, crow, cver, asked>>,
           \A c \in Calls : poll'[c] = "none" <=> poll[c] = "none"
    PROVE  TableInv'
<1> USE DEF DomainInv, CallsPlaced, Begun, Mild, Verifications, TableInv, Status
<1>1. RowsThere'
  BY DEF RowsThere
<1>2. Versions'
  BY DEF Versions, Writes, Creates
<1>3. Creators'
  BY DEF Creators, Creates
<1>4. OneActive'
  BY DEF OneActive, Active, InTable
<1>5. QED
  BY <1>1, <1>2, <1>3, <1>4

\* The steps that leave the table alone.
LEMMA AsksKeepTable ==
    ASSUME DomainInv, TableInv, NEW c \in Calls, Asks(c) PROVE TableInv'
<1> USE DEF DomainInv, TypeOK, CallsPlaced, Begun
<1>1. UNCHANGED <<domain, asked>>
  BY DEF Asks, CreateCheck, InsertConflict, ClearIdentity, CreateIdentity, UndoIdentity,
         PublishPoll, RemoveIdentity, CrashCall, VerifyRead, DeleteRead, history
<1>2. /\ \A d \in Calls \ {c} : cpc'[d] = cpc[d] /\ crow'[d] = crow[d] /\ cver'[d] = cver[d] /\ poll'[d] = poll[d]
      /\ poll'[c] = poll[c] \/ cpc[c] = "publish"
  BY DEF Asks, CreateCheck, InsertConflict, ClearIdentity, CreateIdentity, UndoIdentity,
         PublishPoll, RemoveIdentity, CrashCall, VerifyRead, DeleteRead, Goes, On
<1>3. \/ /\ crow'[c] = crow[c] /\ cver'[c] = cver[c]
         /\ \/ cpc'[c] \in {"done", "insert"} /\ (cpc[c] = "publish" \/ poll'[c] = poll[c])
            \/ cpc[c] = "clear" /\ cpc'[c] \in {"create", "rollback"}
            \/ cpc[c] = "create" /\ cpc'[c] \in {"persist", "rollback"}
            \/ cpc[c] = "remove" /\ cpc'[c] = "tombstone"
      \/ /\ cpc[c] = "new" /\ cpc'[c] \in {"requeue", "mark"} /\ poll'[c] = poll[c]
         /\ crow'[c] \in Regs /\ Active(crow'[c]) /\ cver'[c] = domain[crow'[c]].version
  BY DEF Asks, CreateCheck, InsertConflict, ClearIdentity, CreateIdentity, UndoIdentity,
         PublishPoll, RemoveIdentity, CrashCall, VerifyRead, DeleteRead, Goes, On
<1>4. RowsThere'
  BY <1>1, <1>2, <1>3 DEF TableInv, RowsThere, Active, InTable, Status
<1>5. Versions'
  BY <1>1, <1>2, <1>3 DEF TableInv, Versions, Writes, Creates, Active, InTable, Status, DomainRows
<1>6. Creators'
  BY <1>1, <1>2, <1>3 DEF TableInv, Creators, Creates
<1>7. OneActive'
  BY <1>1 DEF TableInv, OneActive, Active, InTable, Status
<1>8. QED
  BY <1>4, <1>5, <1>6, <1>7 DEF TableInv

\* The writes of the API, by what they make of the row.
LEMMA RevisionsAre ==
    ASSUME DomainInv, TableInv, NEW c \in Calls, Revises(c)
    PROVE  /\ crow[c] \in Regs
           /\ UNCHANGED <<identity, dns, poll, crow, wpc, job, proven, late, lost>>
           /\ \A d \in Calls \ {c} : cpc'[d] = cpc[d]
           /\ \/ UNCHANGED <<domain, cver, asked>> /\ cpc'[c] = "done" /\ Writes(c)
              \/ /\ cpc[c] = "persist" /\ cpc'[c] = "done" /\ VersionMatches(c)
                 /\ Became(c, "verifying", TRUE) /\ UNCHANGED asked
              \/ /\ cpc[c] = "requeue" /\ cpc'[c] = "publish" /\ VersionMatches(c)
                 /\ Became(c, "verifying", domain[crow[c]].key)
                 /\ asked' = asked \cup {crow[c]}
              \/ /\ cpc[c] = "mark" /\ cpc'[c] = "remove" /\ VersionMatches(c)
                 /\ Became(c, "deleting", domain[crow[c]].key) /\ UNCHANGED asked
              \/ /\ cpc[c] = "tombstone" /\ cpc'[c] = "done" /\ VersionMatches(c)
                 /\ Became(c, "deleted", domain[crow[c]].key) /\ UNCHANGED asked
<1>1. crow[c] \in Regs
  BY DEF Revises, PersistKey, Requeue, MarkDeleting, Tombstone, DomainInv, CallsPlaced, Begun
<1>2. cpc \in [Calls -> CallSteps]
  BY DEF DomainInv, TypeOK
<1>3. CASE PersistKey(c)
  BY <1>1, <1>2, <1>3, Wrote DEF PersistKey, Goes, slots, history, Writes
<1>4. CASE Requeue(c)
  BY <1>1, <1>2, <1>4, Wrote DEF Requeue, Goes, slots, history, Writes
<1>5. CASE MarkDeleting(c)
  BY <1>1, <1>2, <1>5, Wrote DEF MarkDeleting, Goes, slots, history, Writes
<1>6. CASE Tombstone(c)
  BY <1>1, <1>2, <1>6, Wrote DEF Tombstone, Goes, slots, history, Writes
<1>7. QED
  BY <1>3, <1>4, <1>5, <1>6 DEF Revises

\* A row that is written was active.
LEMMA WritesActive ==
    ASSUME DomainInv, TableInv, NEW c \in Calls, Writes(c), VersionMatches(c)
    PROVE  Active(crow[c]) /\ (Creates(c) => crow[c] \notin asked)
BY DEF TableInv, Versions, VersionMatches, Active

LEMMA RevisesKeepTable ==
    ASSUME DomainInv, TableInv, NEW c \in Calls, Revises(c) PROVE TableInv'
<1> USE DEF DomainInv, TypeOK, CallsPlaced, Begun
<1> DEFINE q == crow[c]
<1>1. CASE UNCHANGED <<domain, cver, asked>> /\ cpc'[c] = "done"
  <2>1. /\ UNCHANGED <<domain, cver, asked, poll, crow>> /\ cpc'[c] = "done"
        /\ \A d \in Calls \ {c} : cpc'[d] = cpc[d]
    BY <1>1, RevisionsAre
  <2>2. RowsThere'
    BY <2>1 DEF TableInv, RowsThere, Status
  <2>3. Versions' /\ Creators' /\ OneActive'
    BY <2>1 DEF TableInv, Versions, Creators, OneActive, Writes, Creates, Active, InTable, Status
  <2>4. QED
    BY <2>2, <2>3 DEF TableInv
<1>2. ASSUME NEW st \in {"verifying", "deleting", "deleted"}, NEW k, Became(c, st, k),
             Writes(c), VersionMatches(c), cpc'[c] \in {"done", "publish", "remove"},
             k = domain[q].key \/ Creates(c),
             Creates(c) => cpc'[c] = "done",
             cpc'[c] = "publish" <=> asked' # asked \/ cpc'[c] = "publish",
             asked' = asked \/ (asked' = asked \cup {q} /\ ~Creates(c)),
             cpc'[c] = "publish" => q \in asked',
             st = "deleted" => cpc'[c] = "done"
      PROVE  TableInv'
  <2>1. Active(q) /\ q \in Regs
    BY <1>2, WritesActive, RevisionsAre
  <2>2. /\ \A r \in Regs \ {q} : domain'[r] = domain[r]
        /\ domain'[q].status = st /\ domain'[q].key = k
        /\ domain'[q].version = domain[q].version + 1 /\ domain[q].version \in Nat
        /\ cver'[c] = domain[q].version + 1
        /\ \A d \in Calls \ {c} : cver'[d] = cver[d] /\ cpc'[d] = cpc[d]
        /\ UNCHANGED <<poll, crow>>
    BY <1>2, <2>1, RevisionsAre DEF Became, DomainRows
  <2>3. RowsThere'
    BY <1>2, <2>1, <2>2 DEF TableInv, RowsThere, Status, Writes
  <2>4. \A d \in Calls \ {c} : Writes(d) /\ crow[d] = q =>
            cver'[d] < domain'[q].version /\ cver'[d] \in Nat
    BY <2>1, <2>2 DEF TableInv, Versions
  <2>5. Versions'
    BY <1>2, <2>1, <2>2, <2>4 DEF TableInv, Versions, Writes, Creates, Status, DomainRows
  <2>6. Creators'
    BY <1>2, <2>1, <2>2 DEF TableInv, Creators, Creates
  <2>7. OneActive'
    BY <1>2, <2>1, <2>2 DEF TableInv, OneActive, Active, InTable, Status
  <2>8. QED
    BY <2>3, <2>5, <2>6, <2>7 DEF TableInv
<1>3. QED
  BY <1>1, <1>2, RevisionsAre DEF Writes, Creates

\* A row is inserted where none was, by a call that becomes its creator.
LEMMA InsertKeepsTable ==
    ASSUME DomainInv, TableInv, NEW c \in Calls, NEW q \in Regs, InsertRow(c, q)
    PROVE  TableInv'
<1> USE DEF DomainInv, TypeOK, CallsPlaced, Begun
<1>1. /\ \A r \in Regs \ {q} : domain'[r] = domain[r]
      /\ domain'[q].status = "pending" /\ domain'[q].version = 1
      /\ domain'[q].key = domain[q].key
      /\ Status(q) = "absent" /\ \A r \in Regs : ~Active(r)
      /\ cpc[c] = "insert" /\ cpc'[c] = "clear" /\ crow'[c] = q /\ cver'[c] = 1
      /\ \A d \in Calls \ {c} : cpc'[d] = cpc[d] /\ crow'[d] = crow[d] /\ cver'[d] = cver[d]
      /\ UNCHANGED <<poll, asked, identity, dns, proven, wpc, job>>
  BY DEF InsertRow, Goes, Duplicate, slots, DomainRows
<1>2. \A d \in Calls : Begun(d) => crow[d] # q
  BY <1>1 DEF TableInv, RowsThere
<1>3. ~domain[q].key /\ q \notin asked
  BY <1>1 DEF TableInv, RowsThere
<1>4. RowsThere'
  BY <1>1, <1>2, <1>3 DEF TableInv, RowsThere, Status
<1>5. Versions'
  BY <1>1, <1>2, <1>3 DEF TableInv, Versions, Writes, Creates, Status
<1>6. Creators'
  BY <1>1, <1>2, <1>3 DEF TableInv, Creators, Creates
<1>7. OneActive'
  BY <1>1 DEF OneActive, Active, InTable, Status
<1>8. QED
  BY <1>4, <1>5, <1>6, <1>7 DEF TableInv

\* A row is rolled back.
LEMMA RollbackKeepsTable ==
    ASSUME DomainInv, TableInv, NEW c \in Calls, Rollback(c)
    PROVE  TableInv'
<1> USE DEF DomainInv, TypeOK, CallsPlaced, Begun
<1> DEFINE q == crow[c]
<1>1. /\ q \in Regs /\ \A r \in Regs \ {q} : domain'[r] = domain[r]
      /\ domain'[q].status = "removed" /\ domain'[q].version = domain[q].version
      /\ domain'[q].key = domain[q].key
      /\ cpc[c] = "rollback" /\ cpc'[c] = "undo"
      /\ \A d \in Calls \ {c} : cpc'[d] = cpc[d]
      /\ UNCHANGED <<poll, crow, cver, asked, identity, dns, proven, wpc, job>>
  BY DEF Rollback, Goes, slots, history, DomainRows
<1>2. RowsThere'
  BY <1>1 DEF TableInv, RowsThere, Status
<1>3. Versions'
  BY <1>1 DEF TableInv, Versions, Writes, Creates, Status
<1>4. Creators'
  BY <1>1 DEF TableInv, Creators, Creates
<1>5. OneActive'
  BY <1>1 DEF TableInv, OneActive, Active, InTable, Status
<1>6. QED
  BY <1>2, <1>3, <1>4, <1>5 DEF TableInv

\* Workers, timers, the sweeper and the world.
LEMMA UpdatesAreMild ==
    ASSUME DomainInv,
           \/ \E w \in Workers : Handle(w) \/ CrashWorker(w)
           \/ Outside
    PROVE  /\ Mild /\ UNCHANGED <<cpc, crow, cver, asked>>
           /\ \A c \in Calls : poll'[c] = "none" <=> poll[c] = "none"
<1> USE DEF DomainInv, TypeOK
<1>1. UNCHANGED <<cpc, crow, cver, asked>>
  BY DEF Handle, CrashWorker, Outside, Receive, CheckStatus, CheckIdentity, UpdateDomain,
         UpdateDomainVerified, UpdateDomainPending, UpdateDomainFailed, Settle, ExpireAckWait,
         GetStale, MarkExpired, PublishDns, Age, SesDecides, SesLapses, SesRecovers, api, history
<1>2. \A c \in Calls : poll'[c] = "none" <=> poll[c] = "none"
  BY DEF Handle, CrashWorker, Outside, Receive, CheckStatus, CheckIdentity, UpdateDomain,
         UpdateDomainVerified, UpdateDomainPending, UpdateDomainFailed, Settle, ExpireAckWait,
         GetStale, MarkExpired, PublishDns, Age, SesDecides, SesLapses, SesRecovers, Steps, Returns
<1>3. Mild
  <2>1. CASE UNCHANGED domain
    BY <2>1 DEF Mild
  <2>2. ASSUME NEW w \in Workers, NEW to \in {"verified", "pending", "failed"}, NEW next,
               UpdateDomain(w, to, next), ~UNCHANGED domain
        PROVE  Mild
    <3>1. Subject(w) \in Regs
      BY <2>2, InHandOK DEF UpdateDomain
    <3>2. Updatable(Subject(w)) /\ domain' = [domain EXCEPT ![Subject(w)].status = to]
      BY <2>2, <3>1 DEF UpdateDomain, DomainRows
    <3>3. domain[Subject(w)].status \in Verifications
      BY <3>1, <3>2 DEF Updatable, Active, InTable, Status, Verifications, DomainRows, DomainStatus
    <3>4. QED
      BY <3>1, <3>2, <3>3 DEF Mild, Verifications, DomainRows
  <2>3. ASSUME NEW r \in Regs, MarkExpired(r), ~UNCHANGED domain PROVE Mild
    <3>1. Expirable(r) /\ domain' = [domain EXCEPT ![r].status = "failed"]
      BY <2>3 DEF MarkExpired, DomainRows
    <3>2. QED
      BY <3>1 DEF Mild, Expirable, Status, Verifications, DomainRows
  <2>4. ASSUME NEW r \in Regs, Age(r) PROVE Mild
    BY <2>4 DEF Age, Mild, DomainRows
  <2>5. QED
    BY <2>1, <2>2, <2>3, <2>4 DEF Handle, CrashWorker, Outside, Receive, CheckStatus,
         CheckIdentity, UpdateDomainVerified, UpdateDomainPending, UpdateDomainFailed, Settle,
         ExpireAckWait, GetStale, PublishDns, SesDecides, SesLapses, SesRecovers
<1>4. QED
  BY <1>1, <1>2, <1>3

LEMMA TableStays == DomainInv /\ TableInv /\ [Next]_vars => TableInv'
<1> SUFFICES ASSUME DomainInv, TableInv, [Next]_vars PROVE TableInv'
  OBVIOUS
<1>1. CASE UNCHANGED vars
  <2>1. Mild /\ UNCHANGED <<cpc, crow, cver, asked, poll>>
    BY <1>1 DEF vars, Mild
  <2>2. QED
    BY <2>1, MildKeeps
<1>2. CASE (\E w \in Workers : Handle(w) \/ CrashWorker(w)) \/ Outside
  BY <1>2, UpdatesAreMild, MildKeeps
<1>3. QED
  BY <1>1, <1>2, DomainSteps, AsksKeepTable, RevisesKeepTable, InsertKeepsTable,
     RollbackKeepsTable

LEMMA InitTable == Init => TableInv
<1> SUFFICES ASSUME Init PROVE TableInv
  OBVIOUS
<1>0. /\ \A r \in Regs : domain[r].status = "absent" => domain[r].key = FALSE
      /\ asked = {} /\ \A c \in Calls : cpc[c] = "new" /\ poll[c] = "none"
  <2>1. /\ AbsentRow.status = "absent" /\ AbsentRow.key = FALSE
        /\ RegisteredRow.status # "absent" /\ DeletedRow.status # "absent"
    BY DEF AbsentRow, RegisteredRow, DeletedRow
  <2>2. \A r \in Regs : domain[r] \in {AbsentRow, RegisteredRow, DeletedRow}
    BY DEF Init
  <2>3. asked = {} /\ \A c \in Calls : cpc[c] = "new" /\ poll[c] = "none"
    BY DEF Init
  <2>4. QED
    BY <2>1, <2>2, <2>3
<1>1. RowsThere
  BY <1>0 DEF RowsThere, Begun, Status
<1>2. Versions /\ Creators
  BY DEF Init, Versions, Creators, Writes, Creates
<1>3. OneActive
  BY DEF Init, OneActive, Active, InTable, Status, AbsentRow, RegisteredRow, DeletedRow
<1>4. QED
  BY <1>1, <1>2, <1>3 DEF TableInv

-----------------------------------------------------------------------------
(* What SES knows under the domain's name, and what the workers heard.      *)

\* The row is active and has a key, or its creator is about to store one.
Settled(r) ==
    /\ Active(r)
    /\ \/ domain[r].key
       \/ \E c \in Calls : cpc[c] = "persist" /\ crow[c] = r /\ VersionMatches(c)

KeyedDns == \A r \in dns : domain[r].key
SuccessProven == proven \subseteq dns /\ (identity.dkim = "success" => identity.owner \in proven)

\* Once a row is settled, an identity of another row is not one that was
\* stored: nobody could publish its record.
OldOwner ==
    \A r \in Regs : identity.owner \in Regs \ {r} /\ Settled(r) => ~domain[identity.owner].key

\* What a worker is about to write is true of the row it is about.
HandProven ==
    \A w \in Workers :
        wpc[w] = "verified" /\ Active(Subject(w)) /\ domain[Subject(w)].key => Subject(w) \in proven

IdentityInv == KeyedDns /\ SuccessProven /\ OldOwner /\ HandProven /\ VerifiedIsProven

\* A poll in hand was published by a call that is over, for a row that was asked about.
LEMMA SubjectAsked ==
    ASSUME DomainInv, TableInv, NEW w \in Workers, wpc[w] # "idle"
    PROVE  /\ job[w] \in Calls /\ poll[job[w]] # "none" /\ cpc[job[w]] = "done"
           /\ Subject(w) \in Regs /\ Subject(w) \in asked
BY DEF DomainInv, TypeOK, CallsPlaced, SlotsPlaced, Subject, TableInv, RowsThere

LEMMA AsksKeepIdentity ==
    ASSUME DomainInv, TableInv, IdentityInv, NEW c \in Calls, Asks(c) PROVE IdentityInv'
<1> USE DEF DomainInv, TypeOK, CallsPlaced, Begun, IdentityInv
<1>1. UNCHANGED <<domain, dns, proven, wpc, job>>
  BY DEF Asks, CreateCheck, InsertConflict, ClearIdentity, CreateIdentity, UndoIdentity,
         PublishPoll, RemoveIdentity, CrashCall, VerifyRead, DeleteRead, history, slots
<1>2. /\ \A d \in Calls \ {c} : cpc'[d] = cpc[d] /\ crow'[d] = crow[d] /\ cver'[d] = cver[d]
      /\ cpc[c] # "done"
  BY DEF Asks, CreateCheck, InsertConflict, ClearIdentity, CreateIdentity, UndoIdentity,
         PublishPoll, RemoveIdentity, CrashCall, VerifyRead, DeleteRead, Goes, On
<1>3. \/ identity' = identity /\ cpc'[c] # "persist"
      \/ identity' = NoIdentity /\ cpc'[c] # "persist"
      \/ cpc[c] = "create" /\ identity' = [owner |-> crow[c], dkim |-> "pending"]
  BY DEF Asks, CreateCheck, InsertConflict, ClearIdentity, CreateIdentity, UndoIdentity,
         PublishPoll, RemoveIdentity, CrashCall, VerifyRead, DeleteRead, Goes, On
<1>4. KeyedDns' /\ VerifiedIsProven'
  BY <1>1 DEF KeyedDns, VerifiedIsProven, Status
<1>5. SuccessProven'
  BY <1>1, <1>3 DEF SuccessProven, NoIdentity
<1>6. OldOwner'
  <2>1. CASE cpc[c] = "create" /\ identity' = [owner |-> crow[c], dkim |-> "pending"]
    <3>1. ~domain'[identity'.owner].key
      BY <1>1, <2>1 DEF TableInv, Creators, Creates
    <3>2. QED
      BY <3>1 DEF OldOwner
  <2>2. CASE identity' = NoIdentity
    <3>1. identity'.owner \notin Regs
      BY <2>2, ConstantsAssumption DEF NoIdentity, ConstantsAssumption
    <3>2. QED
      BY <3>1 DEF OldOwner
  <2>3. CASE identity' = identity /\ cpc'[c] # "persist"
    <3>1. \A r \in Regs : Settled(r)' => Settled(r)
      BY <1>1, <1>2, <2>3 DEF Settled, Active, InTable, Status, VersionMatches
    <3>2. QED
      BY <1>1, <2>3, <3>1 DEF OldOwner
  <2>4. QED
    BY <1>3, <2>1, <2>2, <2>3
<1>7. HandProven'
  <2>1. \A w \in Workers : wpc[w] # "idle" => job[w] \in Calls \ {c}
    BY <1>2, SubjectAsked
  <2>2. QED
    BY <1>1, <1>2, <2>1 DEF HandProven, Subject, Active, InTable, Status
<1>8. QED
  BY <1>4, <1>5, <1>6, <1>7

LEMMA RevisesKeepIdentity ==
    ASSUME DomainInv, TableInv, IdentityInv, NEW c \in Calls, Revises(c) PROVE IdentityInv'
<1> USE DEF DomainInv, TypeOK, CallsPlaced, Begun, IdentityInv
<1> DEFINE q == crow[c]
<1>1. /\ q \in Regs /\ UNCHANGED <<identity, dns, proven, crow, wpc, job>>
      /\ \A d \in Calls \ {c} : cpc'[d] = cpc[d]
  BY RevisionsAre
<1>2. CASE UNCHANGED <<domain, cver, asked>> /\ cpc'[c] = "done"
  <2>1. KeyedDns' /\ SuccessProven' /\ VerifiedIsProven'
    BY <1>1, <1>2 DEF KeyedDns, SuccessProven, VerifiedIsProven, Status
  <2>2. \A r \in Regs : Settled(r)' => Settled(r)
    BY <1>1, <1>2 DEF Settled, Active, InTable, Status, VersionMatches
  <2>3. OldOwner'
    BY <1>1, <1>2, <2>2 DEF OldOwner
  <2>4. HandProven'
    BY <1>1, <1>2 DEF HandProven, Subject, Active, InTable, Status
  <2>5. QED
    BY <2>1, <2>3, <2>4
<1>3. ASSUME NEW st \in {"verifying", "deleting", "deleted"}, NEW k \in BOOLEAN, Became(c, st, k),
             Writes(c), VersionMatches(c), cpc'[c] # "persist",
             \/ k = domain[q].key
             \/ cpc[c] = "persist" /\ k = TRUE
      PROVE  IdentityInv'
  <2>1. /\ Active(q)
        /\ \A r \in Regs \ {q} : ~Active(r)
    BY <1>1, <1>3, WritesActive DEF TableInv, OneActive
  <2>2. /\ \A r \in Regs \ {q} : domain'[r] = domain[r]
        /\ domain'[q].status = st /\ domain'[q].key = k
        /\ domain'[q].version = domain[q].version + 1 /\ domain[q].version \in Nat
        /\ \A d \in Calls \ {c} : cver'[d] = cver[d]
    BY <1>1, <1>3 DEF Became, DomainRows
  <2>3. \A r \in Regs : domain[r].key => domain'[r].key
    BY <1>3, <2>2
  <2>4. KeyedDns' /\ SuccessProven'
    BY <1>1, <2>3 DEF KeyedDns, SuccessProven
  <2>5. VerifiedIsProven'
    BY <1>1, <1>3, <2>2 DEF VerifiedIsProven, Status
  <2>6. \A r \in Regs \ {q} : ~Settled(r)'
    BY <2>1, <2>2 DEF Settled, Active, InTable, Status
  <2>7. Settled(q)' => Settled(q)
    <3>1. CASE cpc[c] = "persist"
      BY <1>1, <1>3, <2>1, <3>1 DEF Settled
    <3>2. CASE k = domain[q].key
      <4>1. ~(\E d \in Calls : cpc'[d] = "persist" /\ crow'[d] = q /\ VersionMatches(d)')
        BY <1>1, <1>3, <2>2 DEF VersionMatches, TableInv, Versions, Writes
      <4>2. QED
        BY <1>1, <2>1, <2>2, <3>2, <4>1 DEF Settled
    <3>3. QED
      BY <1>3, <3>1, <3>2
  <2>8. OldOwner'
    BY <1>1, <2>2, <2>6, <2>7 DEF OldOwner
  <2>9. HandProven'
    <3> SUFFICES ASSUME NEW w \in Workers, wpc'[w] = "verified", Active(Subject(w))', domain'[Subject(w)'].key
                 PROVE  Subject(w)' \in proven'
      BY DEF HandProven
    <3>1. /\ Subject(w)' = Subject(w) /\ wpc[w] = "verified"
          /\ Subject(w) \in Regs /\ Subject(w) \in asked
      BY <1>1, SubjectAsked DEF Subject
    <3>2. Subject(w) = q
      BY <2>1, <2>2, <3>1 DEF Active, InTable, Status
    <3>3. cpc[c] # "persist"
      BY <1>3, <3>1, <3>2, WritesActive DEF Creates
    <3>4. domain[q].key
      BY <1>3, <2>2, <3>1, <3>2, <3>3
    <3>5. QED
      BY <1>1, <2>1, <3>1, <3>2, <3>4 DEF HandProven
  <2>10. QED
    BY <2>4, <2>5, <2>8, <2>9
<1>4. domain[q].key \in BOOLEAN
  BY <1>1 DEF DomainRows
<1>5. QED
  BY <1>2, <1>3, <1>4, RevisionsAre DEF Writes

LEMMA RowsKeepIdentity ==
    ASSUME DomainInv, TableInv, IdentityInv, NEW c \in Calls,
           Rollback(c) \/ \E r \in Regs : InsertRow(c, r)
    PROVE  IdentityInv'
<1> USE DEF DomainInv, TypeOK, CallsPlaced, Begun, IdentityInv
<1>1. CASE Rollback(c)
  <2> DEFINE q == crow[c]
  <2>1. /\ q \in Regs /\ \A r \in Regs \ {q} : domain'[r] = domain[r]
        /\ domain'[q].status = "removed" /\ domain'[q].version = domain[q].version
        /\ domain'[q].key = domain[q].key
        /\ cpc'[c] = "undo"
        /\ \A d \in Calls \ {c} : cpc'[d] = cpc[d]
        /\ UNCHANGED <<crow, cver, identity, dns, proven, wpc, job>>
    BY <1>1 DEF Rollback, Goes, slots, history, DomainRows
  <2>2. KeyedDns' /\ SuccessProven' /\ VerifiedIsProven'
    BY <2>1 DEF KeyedDns, SuccessProven, VerifiedIsProven, Status
  <2>3. \A r \in Regs : Active(r)' => Active(r) /\ domain'[r] = domain[r]
    BY <2>1 DEF Active, InTable, Status
  <2>4. \A r \in Regs : Settled(r)' => Settled(r)
    BY <2>1, <2>3 DEF Settled, VersionMatches, InTable, Status
  <2>5. OldOwner'
    BY <2>1, <2>4 DEF OldOwner
  <2>6. HandProven'
    BY <2>1, <2>3, SubjectAsked DEF HandProven, Subject
  <2>7. QED
    BY <2>2, <2>5, <2>6
<1>2. ASSUME NEW q \in Regs, InsertRow(c, q) PROVE IdentityInv'
  <2>1. /\ \A r \in Regs \ {q} : domain'[r] = domain[r]
        /\ domain'[q].status = "pending" /\ domain'[q].key = domain[q].key
        /\ Status(q) = "absent" /\ \A r \in Regs : ~Active(r)
        /\ cpc[c] = "insert" /\ cpc'[c] = "clear"
        /\ \A d \in Calls \ {c} : cpc'[d] = cpc[d] /\ crow'[d] = crow[d]
        /\ UNCHANGED <<identity, dns, proven, wpc, job>>
    BY <1>2 DEF InsertRow, Goes, Duplicate, slots, DomainRows
  <2>2. /\ ~domain[q].key
        /\ \A d \in Calls : Begun(d) => crow[d] # q
    BY <2>1 DEF TableInv, RowsThere
  <2>3. KeyedDns' /\ SuccessProven' /\ VerifiedIsProven'
    BY <2>1 DEF KeyedDns, SuccessProven, VerifiedIsProven, Status
  <2>4. \A r \in Regs : ~Settled(r)'
    BY <2>1, <2>2 DEF Settled, Active, InTable, Status
  <2>5. HandProven'
    <3>1. \A w \in Workers : wpc[w] # "idle" => job[w] \in Calls \ {c}
      BY <2>1, SubjectAsked
    <3>2. \A w \in Workers : wpc[w] = "verified" =>
             Subject(w)' = Subject(w) /\ Subject(w) \in Regs
      BY <2>1, <3>1, SubjectAsked DEF Subject
    <3>3. \A w \in Workers : wpc[w] = "verified" =>
             ~(Active(Subject(w))' /\ domain'[Subject(w)'].key)
      BY <2>1, <2>2, <3>2 DEF Active, InTable, Status
    <3>4. QED
      BY <2>1, <3>3 DEF HandProven
  <2>6. QED
    BY <2>3, <2>4, <2>5 DEF OldOwner
<1>3. QED
  BY <1>1, <1>2

\* What a worker heard is about its row: a settled row has no other's identity.
LEMMA HeardOwn ==
    ASSUME DomainInv, TableInv, IdentityInv, NEW r \in Regs, Active(r), domain[r].key,
           identity.dkim = "success"
    PROVE  r \in proven
<1>1. identity.owner \in dns /\ identity.owner \in proven /\ domain[identity.owner].key
  BY DEF IdentityInv, SuccessProven, KeyedDns
<1>2. identity.owner \in Regs
  BY <1>1 DEF DomainInv, TypeOK
<1>3. Settled(r)
  BY DEF Settled
<1>4. QED
  BY <1>1, <1>2, <1>3 DEF IdentityInv, OldOwner

LEMMA MildKeepsIdentity ==
    ASSUME DomainInv, TableInv, IdentityInv, Mild, UNCHANGED <<cpc, crow, cver>>,
           dns \subseteq dns', \A r \in dns' \ dns : r \in Regs /\ domain[r].key,
           proven \subseteq proven', proven' \subseteq proven \cup dns',
           identity'.owner = identity.owner,
           identity'.dkim = "success" =>
               identity.dkim = "success" \/ (identity.owner \in dns' /\ identity.owner \in proven'),
           \A r \in Regs : Status(r)' = "verified" /\ domain[r].key => r \in proven',
           \A w \in Workers : wpc'[w] = "verified" =>
               \/ wpc[w] = "verified" /\ job'[w] = job[w]
               \/ Subject(w)' \in Regs /\ identity.dkim = "success"
    PROVE  IdentityInv'
<1> USE DEF DomainInv, TypeOK, CallsPlaced, Begun, IdentityInv
<1>1. \A r \in Regs : /\ domain'[r].key = domain[r].key /\ domain'[r].version = domain[r].version
                      /\ InTable(r)' <=> InTable(r)
                      /\ Active(r)' <=> Active(r)
  BY DEF Mild, Verifications, Active, InTable, Status
<1>2. KeyedDns' /\ SuccessProven' /\ VerifiedIsProven'
  BY <1>1 DEF KeyedDns, SuccessProven, VerifiedIsProven
<1>3. \A r \in Regs : Settled(r)' => Settled(r)
  BY <1>1 DEF Settled, VersionMatches
<1>4. OldOwner'
  BY <1>1, <1>3 DEF OldOwner
<1>5. HandProven'
  <2> SUFFICES ASSUME NEW w \in Workers, wpc'[w] = "verified", Active(Subject(w))', domain'[Subject(w)'].key
               PROVE  Subject(w)' \in proven'
    BY DEF HandProven
  <2>1. CASE wpc[w] = "verified" /\ job'[w] = job[w]
    <3>1. Subject(w)' = Subject(w) /\ Subject(w) \in Regs
      BY <2>1, SubjectAsked DEF Subject
    <3>2. Active(Subject(w)) /\ domain[Subject(w)].key
      BY <1>1, <3>1 DEF Active, InTable, Status
    <3>3. QED
      BY <2>1, <3>1, <3>2 DEF HandProven
  <2>2. CASE Subject(w)' \in Regs /\ identity.dkim = "success"
    <3>1. Active(Subject(w)') /\ domain[Subject(w)'].key
      BY <1>1, <2>2 DEF Active, InTable, Status
    <3>2. QED
      BY <2>2, <3>1, HeardOwn
  <2>3. QED
    BY <2>1, <2>2
<1>6. QED
  BY <1>2, <1>4, <1>5

LEMMA UpdatesKeepIdentity ==
    ASSUME DomainInv, TableInv, IdentityInv,
           \/ \E w \in Workers : Handle(w) \/ CrashWorker(w)
           \/ Outside
    PROVE  IdentityInv'
<1> USE DEF DomainInv, TypeOK
<1>1. Mild /\ UNCHANGED <<cpc, crow, cver>>
  BY UpdatesAreMild
<1>2. \A r \in Regs : Status(r)' = "verified" /\ domain[r].key => Status(r) = "verified" \/ r \in proven
  <2>1. CASE UNCHANGED domain
    BY <2>1 DEF Status
  <2>2. ASSUME NEW w \in Workers, NEW to \in {"verified", "pending", "failed"}, NEW next,
               UpdateDomain(w, to, next), ~UNCHANGED domain
        PROVE  \A r \in Regs : Status(r)' = "verified" /\ domain[r].key => Status(r) = "verified" \/ r \in proven
    <3>1. Subject(w) \in Regs /\ wpc[w] = to
      BY <2>2, InHandOK DEF UpdateDomain
    <3>2. Active(Subject(w)) /\ domain' = [domain EXCEPT ![Subject(w)].status = to]
      BY <2>2, <3>1 DEF UpdateDomain, Updatable, DomainRows
    <3>3. \A r \in Regs : domain'[r].status = IF r = Subject(w) THEN to ELSE domain[r].status
      BY <3>1, <3>2 DEF DomainRows
    <3>4. to = "verified" /\ domain[Subject(w)].key => Subject(w) \in proven
      BY <3>1, <3>2 DEF IdentityInv, HandProven
    <3>5. QED
      BY <3>3, <3>4 DEF Status
  <2>3. ASSUME NEW r \in Regs, MarkExpired(r) \/ Age(r)
        PROVE  \A q \in Regs : Status(q)' = "verified" => Status(q) = "verified"
    BY <2>3 DEF MarkExpired, Age, Status, DomainRows
  <2>4. QED
    BY <2>1, <2>2, <2>3 DEF Handle, CrashWorker, Outside, Receive, CheckStatus,
         CheckIdentity, UpdateDomainVerified, UpdateDomainPending, UpdateDomainFailed, Settle,
         ExpireAckWait, GetStale, PublishDns, SesDecides, SesLapses, SesRecovers
<1>3. /\ dns \subseteq dns' /\ \A r \in dns' \ dns : r \in Regs /\ domain[r].key
      /\ proven \subseteq proven' /\ proven' \subseteq proven \cup dns'
      /\ identity'.owner = identity.owner
      /\ identity'.dkim = "success" =>
             identity.dkim = "success" \/ (identity.owner \in dns' /\ identity.owner \in proven')
  <2>1. CASE SesRecovers
    BY <2>1 DEF SesRecovers, IdentityInv, SuccessProven, history
  <2>2. CASE ~SesRecovers
    BY <2>2 DEF Handle, CrashWorker, Outside, Receive, CheckStatus, CheckIdentity, UpdateDomain,
         UpdateDomainVerified, UpdateDomainPending, UpdateDomainFailed, Settle, ExpireAckWait,
         GetStale, MarkExpired, PublishDns, Age, SesDecides, SesLapses, history
  <2> QED BY <2>1, <2>2
<1>4. \A r \in Regs : Status(r)' = "verified" /\ domain[r].key => r \in proven'
  BY <1>2, <1>3 DEF IdentityInv, VerifiedIsProven
<1>5. \A w \in Workers : wpc'[w] = "verified" =>
               \/ wpc[w] = "verified" /\ job'[w] = job[w]
               \/ Subject(w)' \in Regs /\ identity.dkim = "success"
  <2>1. CASE UNCHANGED <<wpc, job>>
    BY <2>1
  <2>2. ASSUME NEW v \in Workers, Handle(v) \/ CrashWorker(v), NEW w \in Workers, wpc'[w] = "verified"
        PROVE  \/ wpc[w] = "verified" /\ job'[w] = job[w]
               \/ Subject(w)' \in Regs /\ identity.dkim = "success"
    <3>1. CASE w # v
      BY <2>2, <3>1 DEF Handle, CrashWorker, Receive, CheckStatus, CheckIdentity, UpdateDomain,
         UpdateDomainVerified, UpdateDomainPending, UpdateDomainFailed, Settle, Steps, Returns
    <3>2. CASE w = v
      <4>1. CheckIdentity(w) /\ identity.dkim = "success" /\ job' = job
        BY <2>2, <3>2 DEF Handle, CrashWorker, Receive, CheckStatus, CheckIdentity, UpdateDomain,
         UpdateDomainVerified, UpdateDomainPending, UpdateDomainFailed, Settle, Steps, Returns
      <4>2. wpc[w] # "idle"
        BY <4>1 DEF CheckIdentity
      <4>3. QED
        BY <1>1, <4>1, <4>2, InHandOK DEF Subject
    <3>3. QED
      BY <3>1, <3>2
  <2>3. QED
    BY <2>1, <2>2 DEF Outside, ExpireAckWait, GetStale, MarkExpired, PublishDns, Age, SesDecides,
       SesLapses, SesRecovers, slots
<1>6. QED
  BY <1>1, <1>3, <1>4, <1>5, MildKeepsIdentity

LEMMA IdentityStays == DomainInv /\ TableInv /\ IdentityInv /\ [Next]_vars => IdentityInv'
<1> SUFFICES ASSUME DomainInv, TableInv, IdentityInv, [Next]_vars PROVE IdentityInv'
  OBVIOUS
<1>1. CASE UNCHANGED vars
  <2>1. KeyedDns' /\ SuccessProven' /\ VerifiedIsProven'
    BY <1>1 DEF vars, IdentityInv, KeyedDns, SuccessProven, VerifiedIsProven, Status
  <2>2. OldOwner' /\ HandProven'
    BY <1>1 DEF vars, IdentityInv, OldOwner, HandProven, Settled, Active, InTable, Status,
                VersionMatches, Subject
  <2>3. QED
    BY <2>1, <2>2 DEF IdentityInv
<1>2. QED
  BY <1>1, DomainSteps, AsksKeepIdentity, RevisesKeepIdentity, RowsKeepIdentity, UpdatesKeepIdentity

LEMMA InitIdentity == Init => IdentityInv
<1> SUFFICES ASSUME Init PROVE IdentityInv
  OBVIOUS
<1>1. /\ \A w \in Workers : wpc[w] = "idle"
      /\ \A c \in Calls : cpc[c] = "new"
      /\ \A r \in Regs : Status(r) # "verified"
  <2>1. /\ AbsentRow.status # "verified" /\ RegisteredRow.status # "verified"
        /\ DeletedRow.status # "verified"
    BY DEF AbsentRow, RegisteredRow, DeletedRow
  <2>2. \A r \in Regs : domain[r] \in {AbsentRow, RegisteredRow, DeletedRow}
    BY DEF Init
  <2>3. QED
    BY <2>1, <2>2 DEF Init, Status
<1>2. \A r \in dns : domain[r].key = TRUE
  BY DEF Init, RegisteredRow, DeletedRow
<1>3. SuccessProven
  BY DEF Init, SuccessProven, NoIdentity
<1>4. \A r \in Regs : Active(r) => identity.owner = r \/ identity.owner \notin Regs
  BY ConstantsAssumption DEF ConstantsAssumption, Init, NoIdentity, Active, InTable, Status,
     AbsentRow, RegisteredRow, DeletedRow
<1>5. QED
  BY <1>1, <1>2, <1>3, <1>4 DEF IdentityInv, KeyedDns, OldOwner, Settled, HandProven, VerifiedIsProven

-----------------------------------------------------------------------------
(* The polls.                                                               *)

\* A poll that can still lead to another look at its row.
Live(c) ==
    \/ cpc[c] = "publish" \/ poll[c] = "ready"
    \/ poll[c] = "out" /\ \A w \in Workers : job[w] = c => wpc[w] # "ack"

OneHand ==
    \A w \in Workers : job[w] # Nothing =>
        poll[job[w]] = "out" /\ \A v \in Workers : job[v] = job[w] => v = w
Waits(r) == r \in asked /\ Status(r) \in {"pending", "verifying"}
StillLive == \A r \in Regs : Waits(r) => \E c \in Calls : crow[c] = r /\ Live(c)

PollInv == ~lost => OneHand /\ StillLive

LEMMA CallsKeepPolls ==
    ASSUME DomainInv, TableInv, PollInv, ~lost', NEW c \in Calls,
           Asks(c) \/ Revises(c) \/ Rollback(c) \/ \E r \in Regs : InsertRow(c, r)
    PROVE  OneHand' /\ StillLive'
<1> USE DEF DomainInv, TypeOK, CallsPlaced, Begun
<1>1. /\ UNCHANGED <<wpc, job>> /\ ~lost
      /\ \A d \in Calls \ {c} : cpc'[d] = cpc[d] /\ crow'[d] = crow[d] /\ poll'[d] = poll[d]
      /\ cpc[c] # "done"
      /\ IF cpc[c] = "publish" THEN poll'[c] = "ready" /\ crow'[c] = crow[c] ELSE poll'[c] = poll[c]
  BY DEF Asks, CreateCheck, InsertConflict, ClearIdentity, CreateIdentity, UndoIdentity,
         PublishPoll, RemoveIdentity, CrashCall, VerifyRead, DeleteRead, history, slots, Goes, On,
         Revises, PersistKey, Requeue, MarkDeleting, Tombstone, Rollback, InsertRow
<1>2. poll[c] = "none" /\ \A w \in Workers : job[w] # c
  BY <1>1, ConstantsAssumption DEF SlotsPlaced, ConstantsAssumption
<1>3. OneHand'
  <2>1. \A w \in Workers : job[w] # Nothing => job[w] \in Calls \ {c}
    BY <1>2
  <2>2. QED
    BY <1>1, <2>1 DEF PollInv, OneHand
<1>4. \A d \in Calls : Live(d) => Live(d)' /\ crow'[d] = crow[d]
  <2>1. \A d \in Calls \ {c} : Live(d) => Live(d)' /\ crow'[d] = crow[d]
    BY <1>1 DEF Live
  <2>2. Live(c) => Live(c)' /\ crow'[c] = crow[c]
    BY <1>1, <1>2 DEF Live
  <2>3. QED
    BY <2>1, <2>2
<1>5. \A r \in Regs : Waits(r)' => Waits(r) \/ (cpc'[c] = "publish" /\ crow'[c] = r)
  <2>1. CASE UNCHANGED <<domain, asked>>
    BY <2>1 DEF Waits, Status
  <2>2. CASE Revises(c)
    <3>1. CASE \E st \in {"deleting", "deleted"}, k \in {domain[crow[c]].key} : Became(c, st, k) /\ UNCHANGED asked
      BY <3>1 DEF Waits, Status, Became
    <3>2. CASE cpc[c] = "persist" /\ VersionMatches(c) /\ Became(c, "verifying", TRUE) /\ UNCHANGED asked
      <4>1. crow[c] \notin asked
        BY <3>2, WritesActive DEF Writes, Creates
      <4>2. QED
        BY <3>2, <4>1 DEF Waits, Status, Became
    <3>3. CASE /\ cpc'[c] = "publish" /\ UNCHANGED crow
               /\ Became(c, "verifying", domain[crow[c]].key) /\ asked' = asked \cup {crow[c]}
      BY <3>3 DEF Waits, Status, Became
    <3>4. QED
      BY <2>1, <2>2, <3>1, <3>2, <3>3, RevisionsAre
  <2>3. CASE Rollback(c)
    BY <2>3 DEF Rollback, Waits, Status, history, DomainRows
  <2>4. ASSUME NEW q \in Regs, InsertRow(c, q) PROVE \A r \in Regs : Waits(r)' => Waits(r)
    <3>1. q \notin asked
      BY <2>4 DEF InsertRow, TableInv, RowsThere
    <3>2. asked' = asked /\ \A r \in Regs \ {q} : domain'[r] = domain[r]
      BY <2>4 DEF InsertRow
    <3>3. QED
      BY <3>1, <3>2 DEF Waits, Status
  <2>5. Asks(c) => UNCHANGED <<domain, asked>>
    BY DEF Asks, CreateCheck, InsertConflict, ClearIdentity, CreateIdentity, UndoIdentity,
         PublishPoll, RemoveIdentity, CrashCall, VerifyRead, DeleteRead, history
  <2>6. QED
    BY <2>1, <2>2, <2>3, <2>4, <2>5
<1>6. StillLive'
  <2>1. cpc'[c] = "publish" => Live(c)'
    BY DEF Live
  <2>2. QED
    BY <1>1, <1>4, <1>5, <2>1 DEF PollInv, StillLive
<1>7. QED
  BY <1>3, <1>6

\* A worker lets go of its poll: it is ready again, or its row waits no more.
LEMMA ReturnKeepsPolls ==
    ASSUME DomainInv, TableInv, OneHand, StillLive, NEW w \in Workers, wpc[w] # "idle",
           NEW st \in {"ready", "gone"}, Returns(w, st), UNCHANGED <<cpc, crow, asked>>,
           \A r \in Regs : Waits(r)' => Waits(r),
           st = "ready" \/ wpc[w] = "ack" \/ \A r \in Regs : r = Subject(w) => ~Waits(r)'
    PROVE  OneHand' /\ StillLive'
<1> USE DEF DomainInv, TypeOK
<1> PICK m \in Calls : m = job[w] /\ m # Nothing /\ crow[m] = Subject(w) /\ crow[m] \in Regs
  BY InHandOK, ConstantsAssumption DEF ConstantsAssumption, Subject
<1>2. /\ poll[m] = "out" /\ \A v \in Workers \ {w} : job[v] # m
  BY DEF OneHand
<1>3. /\ poll'[m] = st /\ \A c \in Calls \ {m} : poll'[c] = poll[c]
      /\ job'[w] = Nothing /\ wpc'[w] = "idle"
      /\ \A v \in Workers \ {w} : job'[v] = job[v] /\ wpc'[v] = wpc[v]
  BY <1>2 DEF Returns
<1>4. OneHand'
  BY <1>2, <1>3 DEF OneHand
<1>5. \A c \in Calls \ {m} : Live(c) => Live(c)'
  BY <1>3 DEF Live
<1>6. \A r \in Regs : r = Subject(w) /\ Waits(r)' /\ Live(m) => Live(m)'
  <2>1. st = "ready" => Live(m)'
    BY <1>3 DEF Live
  <2>2. wpc[w] = "ack" /\ Live(m) => cpc[m] = "publish"
    BY <1>2 DEF Live
  <2>3. cpc[m] = "publish" => Live(m)'
    BY DEF Live
  <2>4. QED
    BY <2>1, <2>2, <2>3
<1>7. StillLive'
  BY <1>5, <1>6 DEF StillLive
<1>8. QED
  BY <1>4, <1>7

\* A worker goes on with the poll in its hand.
LEMMA StepKeepsPolls ==
    ASSUME DomainInv, TableInv, OneHand, StillLive, NEW w \in Workers, wpc[w] # "idle",
           NEW step \in WorkSteps, Steps(w, step), UNCHANGED <<cpc, crow, asked, poll>>,
           \A r \in Regs : Waits(r)' => Waits(r) \/ r = Subject(w),
           step # "ack" \/ \A r \in Regs : r = Subject(w) => ~Waits(r)'
    PROVE  OneHand' /\ StillLive'
<1> USE DEF DomainInv, TypeOK
<1> PICK m \in Calls : m = job[w] /\ m # Nothing /\ crow[m] = Subject(w) /\ crow[m] \in Regs
  BY InHandOK, ConstantsAssumption DEF ConstantsAssumption, Subject
<1>2. /\ poll[m] = "out" /\ \A v \in Workers \ {w} : job[v] # m
  BY DEF OneHand
<1>3. job' = job /\ wpc'[w] = step /\ \A v \in Workers \ {w} : wpc'[v] = wpc[v]
  BY DEF Steps
<1>4. OneHand'
  BY <1>3 DEF OneHand
<1>5. \A c \in Calls \ {m} : Live(c) => Live(c)'
  BY <1>3 DEF Live
<1>6. step # "ack" => Live(m)'
  BY <1>2, <1>3 DEF Live
<1>7. StillLive'
  BY <1>5, <1>6 DEF StillLive
<1>8. QED
  BY <1>4, <1>7

LEMMA HandleKeepsPolls ==
    ASSUME DomainInv, TableInv, PollInv, ~lost', NEW w \in Workers, Handle(w) \/ CrashWorker(w)
    PROVE  OneHand' /\ StillLive'
<1> USE DEF DomainInv, TypeOK
<1>1. OneHand /\ StillLive /\ UNCHANGED <<cpc, crow, asked>>
  BY DEF PollInv, Handle, CrashWorker, Receive, CheckStatus, CheckIdentity, UpdateDomain,
         UpdateDomainVerified, UpdateDomainPending, UpdateDomainFailed, Settle, api, history
<1>2. ASSUME NEW m \in Calls, Receive(w, m) PROVE OneHand' /\ StillLive'
  <2>1. /\ poll[m] = "ready" /\ poll'[m] = "out" /\ \A c \in Calls \ {m} : poll'[c] = poll[c]
        /\ wpc'[w] = "status" /\ job'[w] = m /\ job[w] = Nothing
        /\ \A v \in Workers \ {w} : job'[v] = job[v] /\ wpc'[v] = wpc[v]
        /\ UNCHANGED domain
    BY <1>2 DEF Receive, SlotsPlaced
  <2>2. \A v \in Workers : job[v] # m
    BY <1>1, <2>1, ConstantsAssumption DEF OneHand, ConstantsAssumption
  <2>3. OneHand'
    BY <1>1, <2>1, <2>2 DEF OneHand
  <2>4. \A c \in Calls : Live(c) => Live(c)'
    <3>1. Live(m)'
      BY <2>1, <2>2 DEF Live
    <3>2. \A c \in Calls \ {m} : Live(c) => Live(c)'
      BY <1>1, <2>1 DEF Live
    <3>3. QED
      BY <3>1, <3>2
  <2>5. QED
    BY <1>1, <2>1, <2>3, <2>4 DEF StillLive, Waits, Status
<1>3. CASE CheckStatus(w) \/ CheckIdentity(w) \/ Settle(w)
  <2>1. UNCHANGED domain /\ wpc[w] # "idle"
    BY <1>3 DEF CheckStatus, CheckIdentity, Settle
  <2>2. \A r \in Regs : Waits(r)' <=> Waits(r)
    BY <1>1, <2>1 DEF Waits, Status
  <2>3. \/ Returns(w, "ready")
        \/ Returns(w, "gone") /\ wpc[w] = "ack"
        \/ Returns(w, "gone") /\ ~Updatable(Subject(w))
        \/ \E step \in {"check", "verified", "pending", "failed"} : Steps(w, step) /\ UNCHANGED poll
    BY <1>3 DEF CheckStatus, CheckIdentity, Settle, Updatable
  <2>4. ~Updatable(Subject(w)) => \A r \in Regs : r = Subject(w) => ~Waits(r)'
    BY <1>1, <2>1 DEF Updatable, Active, InTable, Waits, Status
  <2>5. {"check", "verified", "pending", "failed"} \subseteq WorkSteps \ {"ack"}
    BY DEF WorkSteps
  <2>6. QED
    BY <1>1, <2>1, <2>2, <2>3, <2>4, <2>5, ReturnKeepsPolls, StepKeepsPolls
<1>4. ASSUME NEW to \in {"verified", "pending", "failed"}, NEW next \in {"ack", "nak"},
             to = "pending" <=> next = "nak", UpdateDomain(w, to, next)
      PROVE  OneHand' /\ StillLive'
  <2>1. wpc[w] # "idle" /\ Subject(w) \in Regs
    BY <1>4, InHandOK DEF UpdateDomain
  <2>2. CASE UNCHANGED domain /\ Returns(w, "ready")
    <3>1. \A r \in Regs : Waits(r)' <=> Waits(r)
      BY <1>1, <2>2 DEF Waits, Status
    <3>2. QED
      BY <1>1, <2>1, <2>2, <3>1, ReturnKeepsPolls
  <2>3. CASE Steps(w, next) /\ UNCHANGED poll
    <3>1. \A r \in Regs \ {Subject(w)} : Waits(r)' <=> Waits(r)
      BY <1>1, <1>4, <2>1 DEF UpdateDomain, Waits, Status, DomainRows
    <3>2. next = "ack" => \A r \in Regs : r = Subject(w) => ~Waits(r)'
      <4>1. CASE Updatable(Subject(w)) /\ domain' = [domain EXCEPT ![Subject(w)].status = to]
        <5>1. domain'[Subject(w)].status = to
          BY <2>1, <4>1 DEF DomainRows
        <5>2. QED
          BY <1>4, <5>1 DEF Waits, Status
      <4>2. CASE ~Updatable(Subject(w)) /\ UNCHANGED domain
        BY <4>2 DEF Updatable, Active, InTable, Waits, Status
      <4>3. QED
        BY <1>4, <2>1, <2>3, <4>1, <4>2 DEF UpdateDomain, Steps, Returns, DomainRows
    <3>3. next \in WorkSteps
      BY DEF WorkSteps
    <3>4. QED
      BY <1>1, <2>1, <2>3, <3>1, <3>2, <3>3, StepKeepsPolls
  <2>4. QED
    BY <1>4, <2>2, <2>3 DEF UpdateDomain
<1>5. CASE CrashWorker(w)
  <2>1. /\ job'[w] = Nothing /\ wpc'[w] = "idle" /\ UNCHANGED <<domain, poll>>
        /\ \A v \in Workers \ {w} : job'[v] = job[v] /\ wpc'[v] = wpc[v]
    BY <1>5 DEF CrashWorker
  <2>2. OneHand'
    BY <1>1, <2>1 DEF OneHand
  <2>3. \A c \in Calls : Live(c) => Live(c)'
    BY <1>1, <2>1 DEF Live
  <2>4. QED
    BY <1>1, <2>1, <2>2, <2>3 DEF StillLive, Waits, Status
<1>6. QED
  BY <1>2, <1>3, <1>4, <1>5 DEF Handle, UpdateDomainVerified, UpdateDomainPending, UpdateDomainFailed

LEMMA OutsideKeepsPolls ==
    ASSUME DomainInv, TableInv, PollInv, ~lost', Outside
    PROVE  OneHand' /\ StillLive'
<1> USE DEF DomainInv, TypeOK
<1>1. UNCHANGED <<cpc, crow, asked, wpc, job>>
  BY DEF Outside, ExpireAckWait, GetStale, MarkExpired, PublishDns, Age, SesDecides, SesLapses, SesRecovers,
         api, slots, history
<1>2. OneHand /\ StillLive
  BY DEF PollInv, Outside, ExpireAckWait, GetStale, MarkExpired, PublishDns, Age, SesDecides,
         SesLapses, SesRecovers, history
<1>3. \A r \in Regs : Waits(r)' => Waits(r)
  BY <1>1 DEF Outside, ExpireAckWait, GetStale, MarkExpired, PublishDns, Age, SesDecides,
         SesLapses, SesRecovers, Waits, Status, DomainRows
<1>4. CASE UNCHANGED poll
  <2>1. \A c \in Calls : Live(c) => Live(c)'
    BY <1>1, <1>4 DEF Live
  <2>2. QED
    BY <1>1, <1>2, <1>3, <1>4, <2>1 DEF OneHand, StillLive
<1>5. ASSUME NEW m \in Calls, ExpireAckWait(m) PROVE OneHand' /\ StillLive'
  <2>1. /\ \A w \in Workers : job[w] # m
        /\ poll'[m] = "ready" /\ \A c \in Calls \ {m} : poll'[c] = poll[c]
    BY <1>5 DEF ExpireAckWait, InHand
  <2>2. OneHand'
    BY <1>1, <1>2, <2>1 DEF OneHand
  <2>3. \A c \in Calls : Live(c) => Live(c)'
    BY <1>1, <2>1 DEF Live
  <2>4. QED
    BY <1>1, <1>2, <1>3, <2>2, <2>3 DEF StillLive
<1>6. QED
  BY <1>4, <1>5 DEF Outside, GetStale, MarkExpired, PublishDns, Age, SesDecides, SesLapses, SesRecovers

LEMMA PollsStay == DomainInv /\ TableInv /\ PollInv /\ [Next]_vars => PollInv'
<1> SUFFICES ASSUME DomainInv, TableInv, PollInv, [Next]_vars, ~lost' PROVE OneHand' /\ StillLive'
  BY DEF PollInv
<1>1. CASE UNCHANGED vars
  BY <1>1 DEF vars, PollInv, OneHand, StillLive, Waits, Status, Live
<1>2. QED
  BY <1>1, DomainSteps, CallsKeepPolls, HandleKeepsPolls, OutsideKeepsPolls

LEMMA InitPolls == Init => PollInv
BY DEF Init, PollInv, OneHand, StillLive, Waits

-----------------------------------------------------------------------------
(* The theorems.                                                            *)

LEMMA DomainCorrect == Spec => [](DomainInv /\ TableInv /\ IdentityInv /\ PollInv)
<1> DEFINE Inv == DomainInv /\ TableInv /\ IdentityInv /\ PollInv
<1>1. Init => Inv
  BY InitDomain, InitTable, InitIdentity, InitPolls
<1>2. Inv /\ [Next]_vars => Inv'
  BY DomainTyped, TableStays, IdentityStays, PollsStay
<1>3. QED
  BY <1>1, <1>2, PTL DEF Spec

\* The table, the calls, the polls and the slots keep their types.
THEOREM DomainTypeCorrect == Spec => []TypeOK
<1>1. DomainInv => TypeOK
  BY DEF DomainInv
<1>2. QED
  BY <1>1, DomainCorrect, PTL

\* A registration with a stored key is verified only by its own DNS record:
\* createDomain's clearing of the identity, the unique index and the version
\* the API compares are enough, whatever the workers and the sweeper write
\* and wherever a process dies.
THEOREM OwnKeyProven == Spec => []VerifiedIsProven
<1>1. IdentityInv => VerifiedIsProven
  BY DEF IdentityInv
<1>2. QED
  BY <1>1, DomainCorrect, PTL

\* Unless a publish was lost or a poll was in two hands, a requested
\* verification without a result is being polled.
THEOREM PendingPolled == Spec => []PendingIsPolled
<1>1. DomainInv /\ PollInv => PendingIsPolled
  BY DEF DomainInv, TypeOK, PollInv, PendingIsPolled, StillLive, Waits, Live
<1>2. QED
  BY <1>1, DomainCorrect, PTL
=============================================================================
