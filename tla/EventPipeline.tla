--------------------------- MODULE EventPipeline ---------------------------
(***************************************************************************)
(* Behavioural events, from the API that takes them to the worker that     *)
(* links each to a contact, keeps it enriched and triggers workflows.      *)
(* Several workers handle the events of one visitor at the same time; what *)
(* keeps the visitor one contact are the unique indexes on user_id and on  *)
(* anonymous_id.  A contact is named by the event that created its row: an *)
(* event creates one at most.                                              *)
(***************************************************************************)
EXTENDS WorkQueue

CONSTANTS
    Events,          \* calls of the ingestion API
    Payloads,        \* what they may carry: type, user, anon
    Workflows,       \* those with an active trigger rule that matches
    Workers,         \* delivery slots of the enrichment handler
    None,            \* no user, no anonymous id, no contact, no event
    Absent,          \* no such row
    MaxDisturbances  \* bound: failed calls, lost answers and crashes

ASSUME EventsAssumption ==
    /\ MaxAttempts \in Nat \ {0} /\ MaxDisturbances \in Nat
    /\ None \notin Events /\ Absent \notin Events
    /\ Absent \notin {"pending", "queued", "processing", "processed", "failed"}
    /\ \A p \in Payloads : /\ p.type \in {"track", "identify", "alias"}
                           /\ p.user # None \/ p.anon # None
                           /\ p.type = "alias" => p.user # None /\ p.anon # None

VARIABLES
    ev,              \* payload of each event
    \* PostgreSQL
    raw,             \* status of events_raw
    enriched,        \* contact_id of events_enriched
    contact,         \* contacts: user_id and anonymous_id
    \* JetStream
    msg,             \* events.raw.*
    triggers,        \* workflow.trigger messages stored for event and workflow
    \* the API's calls and the handler
    call,
    pc, job, attempt,
    linked,          \* res.ContactID
    todo,            \* triggers still to be published
    \* observation
    stuck,           \* events whose outcome was lost with a write or a worker
    disturbances

tables == <<raw, enriched, contact>>
local  == <<linked, todo>>
slots  == <<pc, job, attempt, linked, todo>>
vars   == <<ev, raw, enriched, contact, msg, triggers, call, pc, job, attempt, linked, todo,
            stuck, disturbances>>

NoContact == [user |-> None, anon |-> None]

TypeOK ==
    /\ ev \in [Events -> Payloads]
    /\ raw \in [Events -> {Absent, "pending", "processing", "processed", "failed"}]
    /\ enriched \in [Events -> Events \cup {None, Absent}]
    /\ \A c \in Events : contact[c].user \in {None, ev[c].user}
    /\ msg \in [Events -> Messages]
    /\ triggers \in [Events -> [Workflows -> Nat]]
    /\ call \in [Events -> {"new", "publish", "usage", "rollback", "accepted", "refused"}]
    /\ pc \in [Workers -> {"idle", "status", "mark", "find", "upsert", "link", "persist",
                           "rules", "trigger", "processed", "failed"}]
    /\ job \in [Workers -> Events \cup {None}]
    /\ attempt \in [Workers -> 0..MaxAttempts]
    /\ linked \in [Workers -> Events \cup {None}]
    /\ todo \in [Workers -> SUBSET Workflows]
    /\ stuck \subseteq Events
    /\ disturbances \in 0..MaxDisturbances

Init ==
    /\ ev \in [Events -> Payloads]
    /\ raw = [e \in Events |-> Absent]
    /\ enriched = [e \in Events |-> Absent]
    /\ contact = [e \in Events |-> NoContact]
    /\ msg = [e \in Events |-> [st |-> "none", n |-> 0]]
    /\ triggers = [e \in Events |-> [f \in Workflows |-> 0]]
    /\ call = [e \in Events |-> "new"]
    /\ pc = [w \in Workers |-> "idle"]
    /\ job = [w \in Workers |-> None]
    /\ attempt = [w \in Workers |-> 0]
    /\ linked = [w \in Workers |-> None]
    /\ todo = [w \in Workers |-> {}]
    /\ stuck = {} /\ disturbances = 0

-----------------------------------------------------------------------------
Disturb == /\ disturbances < MaxDisturbances
           /\ disturbances' = disturbances + 1
Undisturbed == UNCHANGED disturbances

(* The API (EventService.ingest).                                           *)

Goes(e, label) == call' = [call EXCEPT ![e] = label]

InsertEvent(e) ==
    /\ call[e] = "new" /\ Goes(e, "publish")
    /\ raw' = [raw EXCEPT ![e] = "pending"]
    /\ UNCHANGED <<ev, enriched, contact, msg, triggers, slots, stuck, disturbances>>

\* The answer to a stored publish may be lost, too.
PublishEvent(e) ==
    /\ call[e] = "publish"
    /\ \/ Undisturbed /\ msg' = NewMsg(msg, e) /\ Goes(e, "usage")
       \/ Disturb /\ msg' \in {msg, NewMsg(msg, e)} /\ Goes(e, "rollback")
    /\ UNCHANGED <<ev, tables, triggers, slots, stuck>>

\* recordUsage is awaited: its failure is the caller's answer.
RecordUsage(e) ==
    /\ call[e] = "usage"
    /\ \/ Undisturbed /\ Goes(e, "accepted")
       \/ Disturb /\ Goes(e, "refused")
    /\ UNCHANGED <<ev, tables, msg, triggers, slots, stuck>>

\* The row goes, its enriched row with it; a failed delete is ignored.
RollBack(e) ==
    /\ call[e] = "rollback" /\ Goes(e, "refused")
    /\ \/ /\ Undisturbed /\ raw' = [raw EXCEPT ![e] = Absent]
          /\ enriched' = [enriched EXCEPT ![e] = Absent]
       \/ Disturb /\ UNCHANGED <<raw, enriched>>
    /\ UNCHANGED <<ev, contact, msg, triggers, slots, stuck>>

-----------------------------------------------------------------------------
(* The contacts as the enricher's statements see them.                      *)

WithUser(u) == {c \in Events : u # None /\ contact[c].user = u}
WithAnon(a) == {c \in Events : a # None /\ contact[c].anon = a}

\* Faulty variant: INSERT alone, with no unique index to object.
Upserted_InsertOnly(e, p) ==
    {[id |-> e, table |-> [contact EXCEPT ![e] = [user |-> p.user, anon |-> p.anon]]]}

\* UpsertContact, and UpsertAnonymousContact when there is no user: what the
\* statement may return.  Nothing if it fails: ON CONFLICT names one index, and
\* the anonymous id may be another contact's.
Upserted(e, p) ==
    LET found == IF p.user # None THEN WithUser(p.user) ELSE WithAnon(p.anon)
        id    == IF found = {} THEN e ELSE CHOOSE c \in found : TRUE
        row   == [user |-> IF p.user # None THEN p.user ELSE contact[id].user,
                  anon |-> IF p.anon # None THEN p.anon ELSE contact[id].anon]
    IN  IF WithAnon(p.anon) \ {id} # {} THEN {}
        ELSE {[id |-> id, table |-> [contact EXCEPT ![id] = row]]}

-----------------------------------------------------------------------------
(* The handler (Handler.Handle, with Enricher.Enrich).                      *)

GoTo(w, label) == pc' = [pc EXCEPT ![w] = label] /\ UNCHANGED <<job, attempt>>

Forget(w) == /\ pc' = [pc EXCEPT ![w] = "idle"]
             /\ job' = [job EXCEPT ![w] = None]
             /\ attempt' = [attempt EXCEPT ![w] = 0]
             /\ linked' = [linked EXCEPT ![w] = None]
             /\ todo' = [todo EXCEPT ![w] = {}]

\* Faulty variant: the handler counts one delivery more than the consumer.
IsLast_OffByOne(w) == attempt[w] > MaxAttempts

IsLast(w) == attempt[w] >= MaxAttempts

\* A Nak after the last delivery leaves the event as it is.
Nak(w) == /\ msg' = Requeue(msg, job[w]) /\ Forget(w)
          /\ stuck' = IF IsLast(w) THEN stuck \cup {job[w]} ELSE stuck

\* handleTransient.
Transient(w) ==
    IF IsLast(w) THEN GoTo(w, "failed") /\ UNCHANGED <<msg, local, stuck>>
    ELSE Nak(w)

Receive(w, e) ==
    /\ pc[w] = "idle" /\ msg[e].st = "ready"
    /\ msg' = Deliver(msg, e)
    /\ pc' = [pc EXCEPT ![w] = "status"]
    /\ job' = [job EXCEPT ![w] = e]
    /\ attempt' = [attempt EXCEPT ![w] = msg[e].n + 1]
    /\ UNCHANGED <<ev, tables, triggers, call, local, stuck, disturbances>>

CheckStatus(w) ==
    /\ pc[w] = "status"
    /\ \/ /\ Undisturbed /\ raw[job[w]] = "processed"
          /\ msg' = Settle(msg, job[w]) /\ Forget(w) /\ UNCHANGED stuck
       \/ /\ Undisturbed /\ raw[job[w]] # "processed"
          /\ GoTo(w, "mark") /\ UNCHANGED <<msg, local, stuck>>
       \/ Disturb /\ Nak(w)
    /\ UNCHANGED <<ev, tables, triggers, call>>

\* handleIdentify and handleAlias, as opposed to handleTrack.
Stitches(p) == p.type # "track" /\ p.user # None

\* The statement asks for 'queued', a status the API never writes.
MarkProcessing(w) ==
    /\ pc[w] = "mark"
    /\ \/ /\ Undisturbed /\ UNCHANGED <<msg, local, stuck>>
          /\ raw' = IF raw[job[w]] \in {"queued", "processing"}
                    THEN [raw EXCEPT ![job[w]] = "processing"] ELSE raw
          /\ GoTo(w, IF Stitches(ev[job[w]]) THEN "upsert" ELSE "find")
       \/ Disturb /\ Nak(w) /\ UNCHANGED raw
    /\ UNCHANGED <<ev, enriched, contact, triggers, call>>

\* FindContactByUserID, or FindContactByAnonymousID.
Known(p) == IF p.user # None THEN WithUser(p.user) ELSE WithAnon(p.anon)

\* handleTrack, which identify without a user is, too.
FindContact(w) ==
    /\ pc[w] = "find"
    /\ LET known == Known(ev[job[w]]) IN
       \/ /\ Undisturbed /\ known = {} /\ GoTo(w, "upsert")
          /\ UNCHANGED <<msg, local, stuck>>
       \/ /\ Undisturbed /\ \E c \in known : linked' = [linked EXCEPT ![w] = c]
          /\ GoTo(w, "persist") /\ UNCHANGED <<msg, todo, stuck>>
       \/ Disturb /\ Transient(w)
    /\ UNCHANGED <<ev, tables, triggers, call>>

\* The contact a track event did not find is looked for again by the statement.
UpsertContact(w) ==
    /\ pc[w] = "upsert"
    /\ LET e == job[w]
           p == ev[e] IN
       \/ /\ Undisturbed
          /\ \E r \in Upserted(e, p) :
                /\ contact' = r.table /\ linked' = [linked EXCEPT ![w] = r.id]
          /\ GoTo(w, IF Stitches(p) THEN "link" ELSE "persist")
          /\ UNCHANGED <<msg, todo, stuck>>
       \/ Undisturbed /\ Upserted(e, p) = {} /\ Transient(w) /\ UNCHANGED contact
       \/ /\ Disturb /\ Transient(w)
          /\ contact' \in {contact} \cup {r.table : r \in Upserted(e, p)}
    /\ UNCHANGED <<ev, raw, enriched, triggers, call>>

\* MergeAnonymousIntoContact: identify asks first whether another contact has
\* the anonymous id, which then refuses it, and only logs that; alias does not.
LinkAnonymous(w) ==
    /\ pc[w] = "link"
    /\ LET p     == ev[job[w]]
           c     == linked[w]
           other == WithAnon(p.anon) \ {c} IN
       \/ /\ Undisturbed /\ p.type = "alias" /\ other # {}
          /\ Transient(w) /\ UNCHANGED contact
       \/ /\ Undisturbed /\ (p.type = "identify" \/ other = {})
          /\ contact' = IF p.type = "alias" THEN [contact EXCEPT ![c].anon = p.anon]
                        ELSE contact
          /\ GoTo(w, "persist") /\ UNCHANGED <<msg, local, stuck>>
       \/ /\ Disturb /\ p.type = "alias"
          /\ Transient(w) /\ UNCHANGED contact
    /\ UNCHANGED <<ev, raw, enriched, triggers, call>>

\* Faulty variant: a failed insert is logged and the handler goes on.
PersistEnriched_Onward(w) ==
    /\ pc[w] = "persist"
    /\ \/ Undisturbed /\ enriched' = [enriched EXCEPT ![job[w]] = linked[w]]
       \/ Disturb /\ UNCHANGED enriched
    /\ GoTo(w, "rules")
    /\ UNCHANGED <<ev, raw, contact, msg, triggers, call, local, stuck>>

\* ON CONFLICT (raw_event_id) DO NOTHING; the foreign key asks for the raw row.
PersistEnriched(w) ==
    /\ pc[w] = "persist"
    /\ LET e    == job[w]
           more == IF enriched[e] = Absent THEN [enriched EXCEPT ![e] = linked[w]]
                   ELSE enriched IN
       \/ /\ Undisturbed /\ raw[e] # Absent
          /\ enriched' = more /\ GoTo(w, "rules") /\ UNCHANGED <<msg, local, stuck>>
       \/ Undisturbed /\ raw[e] = Absent /\ Transient(w) /\ UNCHANGED enriched
       \/ /\ Disturb /\ Transient(w)
          /\ enriched' \in IF raw[e] = Absent THEN {enriched} ELSE {enriched, more}
    /\ UNCHANGED <<ev, raw, contact, triggers, call>>

\* FindMatchingWorkflowTriggers; a failure is only logged.
FindTriggers(w) ==
    /\ pc[w] = "rules"
    /\ \/ /\ Undisturbed /\ todo' = [todo EXCEPT ![w] = Workflows]
          /\ GoTo(w, IF Workflows = {} THEN "processed" ELSE "trigger")
       \/ Disturb /\ UNCHANGED todo /\ GoTo(w, "processed")
    /\ UNCHANGED <<ev, tables, msg, triggers, call, linked, stuck>>

\* The message id is that of workflow and event.  An earlier delivery's message
\* is recognised within ten minutes; a redelivery may come later than that.
PublishTrigger(w) ==
    /\ pc[w] = "trigger"
    /\ \E f \in todo[w] :
       LET e    == job[w]
           more == [triggers EXCEPT ![e][f] = @ + 1] IN
       /\ \/ Undisturbed /\ triggers' = more
          \/ Undisturbed /\ triggers[e][f] > 0 /\ UNCHANGED triggers
          \/ Disturb /\ triggers' \in {triggers, more}
       /\ todo' = [todo EXCEPT ![w] = @ \ {f}]
       /\ GoTo(w, IF todo[w] = {f} THEN "processed" ELSE "trigger")
    /\ UNCHANGED <<ev, tables, msg, call, linked, stuck>>

\* Acknowledged also when the write fails; the acknowledgement may be lost.
MarkProcessed(w) ==
    /\ pc[w] = "processed"
    /\ LET e    == job[w]
           done == IF raw[e] = Absent THEN raw ELSE [raw EXCEPT ![e] = "processed"] IN
       \/ Undisturbed /\ raw' = done /\ msg' = Settle(msg, e) /\ UNCHANGED stuck
       \/ /\ Disturb /\ UNCHANGED raw /\ msg' = Settle(msg, e)
          /\ stuck' = stuck \cup {e}
       \/ Disturb /\ raw' = done /\ UNCHANGED <<msg, stuck>>
    /\ Forget(w)
    /\ UNCHANGED <<ev, enriched, contact, triggers, call>>

\* MarkRawEventFailed, then Term.
MarkFailed(w) ==
    /\ pc[w] = "failed"
    /\ LET e == job[w] IN
       /\ \/ /\ Undisturbed /\ UNCHANGED stuck
             /\ raw' = IF raw[e] = Absent THEN raw ELSE [raw EXCEPT ![e] = "failed"]
          \/ Disturb /\ UNCHANGED raw /\ stuck' = stuck \cup {e}
       /\ msg' = Settle(msg, e)
    /\ Forget(w)
    /\ UNCHANGED <<ev, enriched, contact, triggers, call>>

Crash(w) ==
    /\ pc[w] # "idle" /\ Disturb /\ Forget(w)
    /\ stuck' = IF IsLast(w) THEN stuck \cup {job[w]} ELSE stuck
    /\ UNCHANGED <<ev, tables, msg, triggers, call>>

\* The handler ends within half of the shortest wait, so nobody is at work.
ExpireAckWait(e) ==
    /\ \A w \in Workers : job[w] # e
    /\ CanRedeliver(msg, e) /\ msg' = Requeue(msg, e)
    /\ UNCHANGED <<ev, tables, triggers, call, slots, stuck, disturbances>>

-----------------------------------------------------------------------------
Ingest(e) == InsertEvent(e) \/ PublishEvent(e) \/ RecordUsage(e) \/ RollBack(e)

WorkerStep(w) ==
    \/ \E e \in Events : Receive(w, e)
    \/ CheckStatus(w) \/ MarkProcessing(w) \/ FindContact(w) \/ UpsertContact(w)
    \/ LinkAnonymous(w) \/ PersistEnriched(w) \/ FindTriggers(w) \/ PublishTrigger(w)
    \/ MarkProcessed(w) \/ MarkFailed(w)

Next ==
    \/ \E e \in Events : Ingest(e) \/ ExpireAckWait(e)
    \/ \E w \in Workers : WorkerStep(w) \/ Crash(w)

Spec == Init /\ [][Next]_vars

\* The handler's calls return or time out, and JetStream redelivers.
Fairness ==
    /\ \A w \in Workers : WF_vars(WorkerStep(w))
    /\ \A e \in Events : WF_vars(ExpireAckWait(e))

FairSpec == Spec /\ Fairness

-----------------------------------------------------------------------------
(* Properties that hold.                                                    *)

\* However the events of a visitor are handled at the same time, retried and
\* mixed up, those with a user's id end at one contact, which is that user's,
\* and no anonymous id has two.
UserHasOneContact ==
    /\ \A c, d \in Events :
          (contact[c].user = contact[d].user => c = d \/ contact[c].user = None)
          /\ (contact[c].anon = contact[d].anon => c = d \/ contact[c].anon = None)
    /\ \A e \in Events : enriched[e] \in Events /\ ev[e].user # None
          => contact[enriched[e]].user = ev[e].user

\* Nothing is called processed that was not: the enriched row is there, and the
\* triggers too unless a call failed.
ProcessedWasCarriedOut ==
    \A e \in Events : raw[e] = "processed" =>
        /\ enriched[e] # Absent
        /\ disturbances = 0 => \A f \in Workflows : triggers[e][f] = 1

\* An event that was accepted ends as processed or as failed, whichever calls
\* fail and whoever dies before its last delivery.
AcceptedEventsEnd ==
    \A e \in Events : call[e] = "accepted" ~> raw[e] \in {"processed", "failed"} \/ e \in stuck

-----------------------------------------------------------------------------
(* What the repository says of the program and the code does not do.        *)

\* handler_test.go:382, identify "should merge anonymous profile into identified
\* contact": a visitor whom nobody else claims is identified without an error.
IdentifiesAreLinked ==
    \A e \in Events :
        /\ ev[e].type = "identify" /\ disturbances = 0
        /\ \A f \in Events : ev[f].user \in {None, ev[e].user}
        => raw[e] # "failed"
=============================================================================
