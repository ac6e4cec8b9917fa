------------------------ MODULE EventPipeline_proofs ------------------------
(***************************************************************************)
(* Proofs about EventPipeline for any events, payloads, workflows, workers *)
(* and numbers of deliveries and disturbances.                             *)
(***************************************************************************)
EXTENDS EventPipeline, TLAPS

(* TypeOK by groups of variables, with what makes it inductive.            *)
Statuses == {"pending", "processing", "processed", "failed"}
Calls    == {"new", "publish", "usage", "rollback", "accepted", "refused"}
Labels   == {"idle", "status", "mark", "find", "upsert", "link", "persist",
             "rules", "trigger", "processed", "failed"}
ContactRows == [user : {None} \cup {p.user : p \in Payloads},
                anon : {None} \cup {p.anon : p \in Payloads}]

EventType ==
    /\ ev \in [Events -> Payloads]
    /\ raw \in [Events -> Statuses \cup {Absent}]
    /\ enriched \in [Events -> Events \cup {Absent}]
    /\ triggers \in [Events -> [Workflows -> Nat]]

\* A contact has the user of the event that created its row, or none.
ContactType ==
    /\ contact \in [Events -> ContactRows]
    /\ \A c \in Events : contact[c].user \in {None, ev[c].user}

QueueInv ==
    /\ msg \in [Events -> Messages]
    /\ \A e \in Events : msg[e].st = "ready" => msg[e].n < MaxAttempts

CallType == call \in [Events -> Calls]

SlotInv ==
    /\ pc \in [Workers -> Labels]
    /\ job \in [Workers -> Events \cup {None}]
    /\ \A w \in Workers : pc[w] = "idle" <=> job[w] = None
    /\ attempt \in [Workers -> 0..MaxAttempts]

WorkInv ==
    /\ linked \in [Workers -> Events \cup {None}]
    /\ todo \in [Workers -> SUBSET Workflows]
    /\ \A w \in Workers : pc[w] \in {"link", "persist"} => linked[w] \in Events

SeenType == stuck \subseteq Events /\ disturbances \in 0..MaxDisturbances

TypeInv == /\ EventType /\ ContactType /\ QueueInv /\ CallType
           /\ SlotInv /\ WorkInv /\ SeenType

(* One contact per user.                                                   *)
OneOwner ==
    \A c, d \in Events :
        /\ contact[c].user = contact[d].user => c = d \/ contact[c].user = None
        /\ contact[c].anon = contact[d].anon => c = d \/ contact[c].anon = None

\* The contact a handler has in hand is that of its event's user.
LinkedIsUsers ==
    \A w \in Workers : pc[w] \in {"link", "persist"} /\ ev[job[w]].user # None =>
        contact[linked[w]].user = ev[job[w]].user

EnrichedIsUsers ==
    \A e \in Events : enriched[e] \in Events /\ ev[e].user # None =>
        contact[enriched[e]].user = ev[e].user

UserInv == TypeInv /\ OneOwner /\ LinkedIsUsers /\ EnrichedIsUsers

(* Processed means carried out.                                            *)

\* An event is published once, after its row is inserted, and handled after that.
PublishedOnce ==
    /\ \A e \in Events : call[e] \in {"new", "publish"} => msg[e].st = "none"
    /\ \A w \in Workers : pc[w] # "idle" => msg[job[w]].st # "none"

\* Past the insert of the enriched row, it is there as long as the raw one is.
EnrichedFirst ==
    /\ \A w \in Workers : pc[w] \in {"rules", "trigger", "processed"} =>
          raw[job[w]] = Absent \/ enriched[job[w]] # Absent
    /\ \A e \in Events : raw[e] = "processed" => enriched[e] # Absent

\* Without a disturbance a delivered event has one handler.
OneHandler ==
    /\ \A w \in Workers : pc[w] # "idle" => msg[job[w]].st = "out"
    /\ \A v, w \in Workers : pc[v] # "idle" /\ job[v] = job[w] => v = w
    /\ \A e \in Events : msg[e].st = "out" => \E w \in Workers : job[w] = e
    /\ \A w \in Workers : pc[w] # "idle" => attempt[w] = msg[job[w]].n

\* The triggers of an event follow its handler.
Publishing == {"trigger", "processed"}
TriggersFollow ==
    /\ \A e \in Events, f \in Workflows : msg[e].st \in {"none", "ready"} => triggers[e][f] = 0
    /\ \A w \in Workers, f \in Workflows : pc[w] \notin Publishing \cup {"idle"} =>
          triggers[job[w]][f] = 0
    /\ \A w \in Workers, f \in Workflows : pc[w] \in Publishing =>
          triggers[job[w]][f] = IF f \in todo[w] THEN 0 ELSE 1
    /\ \A w \in Workers : pc[w] = "processed" => todo[w] = {}

ProcessedTriggered ==
    \A e \in Events : raw[e] = "processed" =>
        msg[e].st = "gone" /\ \A f \in Workflows : triggers[e][f] = 1

Calm == OneHandler /\ TriggersFollow /\ ProcessedTriggered

CarriedInv == TypeInv /\ PublishedOnce /\ EnrichedFirst /\ (disturbances = 0 => Calm)

-----------------------------------------------------------------------------
(* Types.                                                                   *)

LEMMA TypeInvIsTypeOK == TypeInv => TypeOK
BY DEF TypeInv, TypeOK, EventType, ContactType, QueueInv, CallType, SlotInv, WorkInv,
       SeenType, Statuses, Calls, Labels

\* A step that leaves a group of variables alone keeps what is said of it.
LEMMA Frame ==
    ASSUME TypeInv
    PROVE  /\ UNCHANGED <<ev, raw, enriched, triggers>> => EventType'
           /\ UNCHANGED <<ev, contact>> => ContactType'
           /\ UNCHANGED msg => QueueInv'
           /\ UNCHANGED call => CallType'
           /\ UNCHANGED <<pc, job, attempt>> => SlotInv'
           /\ UNCHANGED <<pc, linked, todo>> => WorkInv'
           /\ UNCHANGED <<stuck, disturbances>> => SeenType'
BY DEF TypeInv, EventType, ContactType, QueueInv, CallType, SlotInv, WorkInv, SeenType

\* A disturbance stays within its bound.
LEMMA DisturbOK ==
    ASSUME TypeInv, Disturb \/ Undisturbed, stuck' \subseteq Events
    PROVE  SeenType'
BY EventsAssumption DEF TypeInv, SeenType, Disturb, Undisturbed, EventsAssumption

LEMMA NewMsgOK ==
    ASSUME QueueInv, NEW e \in Events, msg' = NewMsg(msg, e)
    PROVE  QueueInv'
BY EventsAssumption DEF EventsAssumption, QueueInv, NewMsg, Messages, MsgStatus

LEMMA SettleOK ==
    ASSUME QueueInv, NEW e \in Events, msg' = Settle(msg, e)
    PROVE  QueueInv'
BY EventsAssumption DEF EventsAssumption, QueueInv, Settle, Messages, MsgStatus

LEMMA RequeueOK ==
    ASSUME QueueInv, NEW e \in Events, msg' = Requeue(msg, e)
    PROVE  QueueInv'
BY EventsAssumption
   DEF EventsAssumption, QueueInv, Requeue, CanRedeliver, Messages, MsgStatus

LEMMA DeliverOK ==
    ASSUME QueueInv, NEW e \in Events, msg' = Deliver(msg, e), msg[e].st = "ready"
    PROVE  QueueInv' /\ msg[e].n + 1 \in 0..MaxAttempts
BY EventsAssumption DEF EventsAssumption, QueueInv, Deliver, Messages, MsgStatus

\* A handler goes on to its next step.
LEMMA GoToOK ==
    ASSUME TypeInv, NEW w \in Workers, NEW label \in Labels \ {"idle"}, pc[w] # "idle",
           GoTo(w, label)
    PROVE  SlotInv'
BY DEF TypeInv, SlotInv, GoTo

\* A slot becomes free.
LEMMA ForgetOK ==
    ASSUME TypeInv, NEW w \in Workers, Forget(w)
    PROVE  SlotInv' /\ WorkInv'
<1>1. SlotInv'
  BY EventsAssumption DEF EventsAssumption, TypeInv, SlotInv, Forget, Labels
<1>2. WorkInv'
  BY DEF TypeInv, WorkInv, SlotInv, Forget
<1> QED BY <1>1, <1>2

\* The event in hand.
LEMMA InHand ==
    ASSUME TypeInv, NEW w \in Workers, pc[w] # "idle"
    PROVE  job[w] \in Events /\ ev[job[w]] \in Payloads
BY DEF TypeInv, SlotInv, EventType

\* A step that fails returns the event or gives it up.
LEMMA NakOK ==
    ASSUME TypeInv, NEW w \in Workers, pc[w] # "idle", Nak(w), Disturb \/ Undisturbed
    PROVE  QueueInv' /\ SlotInv' /\ WorkInv' /\ SeenType'
<1>1. QueueInv'
  BY InHand, RequeueOK DEF TypeInv, Nak
<1>2. SeenType'
  BY InHand, DisturbOK DEF TypeInv, SeenType, Nak
<1> QED BY <1>1, <1>2, ForgetOK DEF Nak

LEMMA TransientOK ==
    ASSUME TypeInv, NEW w \in Workers, pc[w] # "idle", Transient(w), Disturb \/ Undisturbed
    PROVE  QueueInv' /\ SlotInv' /\ WorkInv' /\ SeenType'
<1>1. CASE IsLast(w)
  <2>1. GoTo(w, "failed") /\ UNCHANGED <<msg, local, stuck>>
    BY <1>1 DEF Transient
  <2>2. SlotInv'
    BY <2>1, GoToOK DEF Labels
  <2>3. WorkInv'
    BY <2>1, <2>2 DEF TypeInv, WorkInv, SlotInv, GoTo, local
  <2>4. SeenType'
    BY <2>1, DisturbOK DEF TypeInv, SeenType
  <2> QED BY <2>1, <2>2, <2>3, <2>4, Frame
<1>2. CASE ~IsLast(w)
  BY <1>2, NakOK DEF Transient
<1> QED BY <1>1, <1>2

LEMMA InitTypeInv == Init => TypeInv
<1> SUFFICES ASSUME Init PROVE TypeInv
  OBVIOUS
<1> USE EventsAssumption DEF EventsAssumption, Init
<1>1. EventType
  BY DEF EventType, Statuses
<1>2. ContactType
  BY DEF ContactType, ContactRows, NoContact
<1>3. QueueInv
  BY DEF QueueInv, Messages, MsgStatus
<1>4. SlotInv /\ CallType
  BY DEF SlotInv, Labels, CallType, Calls
<1>5. WorkInv /\ SeenType
  BY DEF WorkInv, SeenType
<1> QED BY <1>1, <1>2, <1>3, <1>4, <1>5 DEF TypeInv

LEMMA IngestType ==
    ASSUME TypeInv, NEW e \in Events, Ingest(e)
    PROVE  TypeInv'
<1>1. CASE InsertEvent(e)
  <2>1. EventType'
    BY <1>1 DEF InsertEvent, TypeInv, EventType, Statuses
  <2>2. CallType'
    BY <1>1 DEF InsertEvent, Goes, TypeInv, CallType, Calls
  <2> QED BY <1>1, <2>1, <2>2, Frame DEF InsertEvent, TypeInv, slots
<1>2. CASE PublishEvent(e)
  <2>1. QueueInv'
    BY <1>2, NewMsgOK, Frame DEF PublishEvent, TypeInv
  <2>2. CallType'
    BY <1>2 DEF PublishEvent, Goes, TypeInv, CallType, Calls
  <2>3. SeenType'
    BY <1>2, DisturbOK DEF PublishEvent, TypeInv, SeenType
  <2> QED BY <1>2, <2>1, <2>2, <2>3, Frame DEF PublishEvent, TypeInv, slots, tables
<1>3. CASE RecordUsage(e)
  <2>2. CallType'
    BY <1>3 DEF RecordUsage, Goes, TypeInv, CallType, Calls
  <2>3. SeenType'
    BY <1>3, DisturbOK DEF RecordUsage, TypeInv, SeenType
  <2> QED BY <1>3, <2>2, <2>3, Frame DEF RecordUsage, TypeInv, slots, tables
<1>4. CASE RollBack(e)
  <2>1. EventType'
    BY <1>4 DEF RollBack, TypeInv, EventType
  <2>2. CallType'
    BY <1>4 DEF RollBack, Goes, TypeInv, CallType, Calls
  <2>3. SeenType'
    BY <1>4, DisturbOK DEF RollBack, TypeInv, SeenType
  <2> QED BY <1>4, <2>1, <2>2, <2>3, Frame DEF RollBack, TypeInv, slots
<1> QED BY <1>1, <1>2, <1>3, <1>4 DEF Ingest

\* What a statement that upserts a contact may leave.
LEMMA UpsertedOK ==
    ASSUME TypeInv, NEW e \in Events, NEW r \in Upserted(e, ev[e])
    PROVE  /\ r.id \in Events
           /\ contact' = r.table /\ UNCHANGED ev => ContactType'
<1> DEFINE p     == ev[e]
           found == IF p.user # None THEN WithUser(p.user) ELSE WithAnon(p.anon)
           id    == IF found = {} THEN e ELSE CHOOSE c \in found : TRUE
           new   == [user |-> IF p.user # None THEN p.user ELSE contact[id].user,
                     anon |-> IF p.anon # None THEN p.anon ELSE contact[id].anon]
<1>1. r.id = id /\ r.table = [contact EXCEPT ![id] = new]
  <2>1. Upserted(e, p) \subseteq {[id |-> id, table |-> [contact EXCEPT ![id] = new]]}
    BY DEF Upserted
  <2>2. r \in Upserted(e, p)
    OBVIOUS
  <2> HIDE DEF p, id, new
  <2>3. r = [id |-> id, table |-> [contact EXCEPT ![id] = new]]
    BY <2>1, <2>2
  <2> QED BY <2>3
<1>2. found \subseteq Events
  BY DEF WithUser, WithAnon
<1>3. id \in Events /\ (found # {} => id \in found)
  BY <1>2
<1>4. contact[id] \in ContactRows /\ p \in Payloads
  BY <1>3 DEF TypeInv, ContactType, EventType
<1>5. new \in ContactRows
  BY <1>4 DEF ContactRows
<1>6. new.user \in {None, ev[id].user}
  <2>1. CASE p.user = None
    BY <2>1, <1>3 DEF TypeInv, ContactType
  <2>2. CASE p.user # None /\ found = {}
    BY <2>2
  <2>3. CASE p.user # None /\ found # {}
    BY <2>3, <1>3 DEF WithUser, TypeInv, ContactType
  <2> QED BY <2>1, <2>2, <2>3
<1> HIDE DEF new, id
<1>7. ASSUME contact' = r.table, UNCHANGED ev PROVE ContactType'
  BY <1>1, <1>3, <1>5, <1>6, <1>7 DEF TypeInv, ContactType
<1> QED BY <1>1, <1>3, <1>7

LEMMA WorkerType ==
    ASSUME TypeInv, NEW w \in Workers, WorkerStep(w)
    PROVE  TypeInv'
<1>1. ASSUME NEW e \in Events, Receive(w, e) PROVE TypeInv'
  <2>1. QueueInv' /\ msg[e].n + 1 \in 0..MaxAttempts
    BY <1>1, DeliverOK DEF Receive, TypeInv
  <2>2. SlotInv'
    BY <1>1, <2>1, EventsAssumption DEF EventsAssumption, Receive, TypeInv, SlotInv, Labels
  <2>3. WorkInv'
    BY <1>1 DEF Receive, TypeInv, WorkInv, SlotInv, local
  <2> QED BY <1>1, <2>1, <2>2, <2>3, Frame DEF Receive, TypeInv, tables
<1>2. CASE CheckStatus(w)
  <2>0. pc[w] # "idle"
    BY <1>2 DEF CheckStatus
  <2>1. CASE Disturb /\ Nak(w)
    BY <1>2, <2>0, <2>1, NakOK, Frame DEF CheckStatus, TypeInv, tables
  <2>2. CASE Undisturbed /\ GoTo(w, "mark") /\ UNCHANGED <<msg, local, stuck>>
    <3>1. SlotInv'
      BY <2>0, <2>2, GoToOK DEF Labels
    <3>2. WorkInv'
      BY <2>2, <3>1 DEF TypeInv, WorkInv, SlotInv, GoTo, local
    <3> QED BY <1>2, <2>2, <3>1, <3>2, Frame DEF CheckStatus, TypeInv, tables, Undisturbed
  <2>3. CASE Undisturbed /\ msg' = Settle(msg, job[w]) /\ Forget(w) /\ UNCHANGED stuck
    <3>1. QueueInv'
      BY <2>0, <2>3, InHand, SettleOK DEF TypeInv
    <3> QED BY <1>2, <2>3, <3>1, ForgetOK, Frame DEF CheckStatus, TypeInv, tables, Undisturbed
  <2> QED BY <1>2, <2>1, <2>2, <2>3 DEF CheckStatus
<1>3. CASE MarkProcessing(w)
  <2>0. pc[w] # "idle"
    BY <1>3 DEF MarkProcessing
  <2>1. EventType'
    BY <1>3 DEF MarkProcessing, TypeInv, EventType, Statuses
  <2>2. CASE Disturb /\ Nak(w)
    BY <1>3, <2>0, <2>1, <2>2, NakOK, Frame DEF MarkProcessing, TypeInv
  <2>3. CASE Undisturbed /\ UNCHANGED <<msg, local, stuck>>
                /\ GoTo(w, IF Stitches(ev[job[w]]) THEN "upsert" ELSE "find")
    <3>1. SlotInv'
      BY <2>0, <2>3, GoToOK DEF Labels
    <3>2. WorkInv'
      BY <2>3, <3>1 DEF TypeInv, WorkInv, SlotInv, GoTo, local
    <3> QED BY <1>3, <2>1, <2>3, <3>1, <3>2, Frame DEF MarkProcessing, TypeInv, Undisturbed
  <2> QED BY <1>3, <2>2, <2>3 DEF MarkProcessing
<1>4. CASE FindContact(w)
  <2>0. pc[w] # "idle" /\ Known(ev[job[w]]) \subseteq Events
    BY <1>4 DEF FindContact, Known, WithUser, WithAnon
  <2>1. CASE Disturb /\ Transient(w)
    BY <1>4, <2>0, <2>1, TransientOK, Frame DEF FindContact, TypeInv, tables
  <2>2. CASE Undisturbed /\ GoTo(w, "upsert") /\ UNCHANGED <<msg, local, stuck>>
    <3>1. SlotInv'
      BY <2>0, <2>2, GoToOK DEF Labels
    <3>2. WorkInv'
      BY <2>2, <3>1 DEF TypeInv, WorkInv, SlotInv, GoTo, local
    <3> QED BY <1>4, <2>2, <3>1, <3>2, Frame DEF FindContact, TypeInv, tables, Undisturbed
  <2>3. CASE /\ Undisturbed /\ \E c \in Known(ev[job[w]]) : linked' = [linked EXCEPT ![w] = c]
             /\ GoTo(w, "persist") /\ UNCHANGED <<msg, todo, stuck>>
    <3>1. SlotInv'
      BY <2>0, <2>3, GoToOK DEF Labels
    <3>2. WorkInv'
      BY <2>0, <2>3, <3>1 DEF TypeInv, WorkInv, SlotInv, GoTo
    <3> QED BY <1>4, <2>3, <3>1, <3>2, Frame DEF FindContact, TypeInv, tables, Undisturbed
  <2> QED BY <1>4, <2>1, <2>2, <2>3 DEF FindContact
<1>5. CASE UpsertContact(w)
  <2>0. pc[w] # "idle" /\ job[w] \in Events
    BY <1>5, InHand DEF UpsertContact
  <2>1. CASE Transient(w) /\ (Disturb \/ Undisturbed)
                /\ contact' \in {contact} \cup {r.table : r \in Upserted(job[w], ev[job[w]])}
    <3>1. ContactType'
      BY <1>5, <2>0, <2>1, UpsertedOK, Frame DEF UpsertContact
    <3> QED BY <1>5, <2>0, <2>1, <3>1, TransientOK, Frame DEF UpsertContact, TypeInv
  <2>2. CASE /\ Undisturbed
             /\ \E r \in Upserted(job[w], ev[job[w]]) :
                   /\ contact' = r.table /\ linked' = [linked EXCEPT ![w] = r.id]
             /\ GoTo(w, IF Stitches(ev[job[w]]) THEN "link" ELSE "persist")
             /\ UNCHANGED <<msg, todo, stuck>>
    <3>1. ContactType'
      BY <1>5, <2>0, <2>2, UpsertedOK DEF UpsertContact
    <3>2. SlotInv'
      BY <2>0, <2>2, GoToOK DEF Labels
    <3>3. \E c \in Events : linked' = [linked EXCEPT ![w] = c]
      BY <2>0, <2>2, UpsertedOK
    <3>4. WorkInv'
      BY <2>2, <3>2, <3>3 DEF TypeInv, WorkInv, SlotInv, GoTo
    <3> QED BY <1>5, <2>2, <3>1, <3>2, <3>4, Frame DEF UpsertContact, TypeInv, Undisturbed
  <2> QED BY <1>5, <2>1, <2>2 DEF UpsertContact
<1>6. CASE LinkAnonymous(w)
  <2>0. /\ pc[w] # "idle" /\ job[w] \in Events /\ ev[job[w]] \in Payloads
        /\ linked[w] \in Events
    BY <1>6, InHand DEF LinkAnonymous, TypeInv, WorkInv
  <2>1. CASE Transient(w) /\ (Disturb \/ Undisturbed) /\ UNCHANGED contact
    BY <1>6, <2>0, <2>1, TransientOK, Frame DEF LinkAnonymous, TypeInv
  <2>2. CASE /\ Undisturbed /\ GoTo(w, "persist") /\ UNCHANGED <<msg, local, stuck>>
             /\ contact' = IF ev[job[w]].type = "alias"
                           THEN [contact EXCEPT ![linked[w]].anon = ev[job[w]].anon] ELSE contact
    <3>1. ContactType'
      BY <1>6, <2>0, <2>2 DEF LinkAnonymous, TypeInv, ContactType, ContactRows
    <3>2. SlotInv'
      BY <2>0, <2>2, GoToOK DEF Labels
    <3>3. WorkInv'
      BY <1>6, <2>2, <3>2 DEF LinkAnonymous, TypeInv, WorkInv, SlotInv, GoTo, local
    <3> QED BY <1>6, <2>2, <3>1, <3>2, <3>3, Frame DEF LinkAnonymous, TypeInv, Undisturbed
  <2> QED BY <1>6, <2>1, <2>2 DEF LinkAnonymous
<1>7. CASE PersistEnriched(w)
  <2>0. pc[w] # "idle" /\ job[w] \in Events /\ linked[w] \in Events
    BY <1>7, InHand DEF PersistEnriched, TypeInv, WorkInv
  <2>1. EventType'
    BY <1>7, <2>0 DEF PersistEnriched, TypeInv, EventType
  <2>2. CASE Transient(w) /\ (Disturb \/ Undisturbed)
    BY <1>7, <2>0, <2>1, <2>2, TransientOK, Frame DEF PersistEnriched, TypeInv
  <2>3. CASE Undisturbed /\ GoTo(w, "rules") /\ UNCHANGED <<msg, local, stuck>>
    <3>2. SlotInv'
      BY <2>0, <2>3, GoToOK DEF Labels
    <3>3. WorkInv'
      BY <2>3, <3>2 DEF TypeInv, WorkInv, SlotInv, GoTo, local
    <3> QED BY <1>7, <2>1, <2>3, <3>2, <3>3, Frame DEF PersistEnriched, TypeInv, Undisturbed
  <2> QED BY <1>7, <2>2, <2>3 DEF PersistEnriched
<1>8. CASE FindTriggers(w)
  <2>0. pc[w] # "idle"
    BY <1>8 DEF FindTriggers
  <2>1. SlotInv'
    BY <1>8, <2>0, GoToOK DEF FindTriggers, Labels
  <2>2. WorkInv'
    BY <1>8, <2>1 DEF FindTriggers, TypeInv, WorkInv, SlotInv, GoTo
  <2>3. SeenType'
    BY <1>8, DisturbOK DEF FindTriggers, TypeInv, SeenType
  <2> QED BY <1>8, <2>1, <2>2, <2>3, Frame DEF FindTriggers, TypeInv, tables
<1>9. CASE PublishTrigger(w)
  <2>0. pc[w] # "idle" /\ job[w] \in Events
    BY <1>9, InHand DEF PublishTrigger
  <2>1. PICK f \in todo[w] :
           /\ triggers' \in {triggers, [triggers EXCEPT ![job[w]][f] = @ + 1]}
           /\ Disturb \/ Undisturbed
           /\ todo' = [todo EXCEPT ![w] = @ \ {f}]
           /\ GoTo(w, IF todo[w] = {f} THEN "processed" ELSE "trigger")
    BY <1>9 DEF PublishTrigger
  <2>2. SlotInv'
    BY <2>0, <2>1, GoToOK DEF Labels
  <2>3. WorkInv'
    BY <1>9, <2>1, <2>2 DEF PublishTrigger, TypeInv, WorkInv, SlotInv, GoTo
  <2>4. EventType'
    <3>1. f \in Workflows /\ triggers \in [Events -> [Workflows -> Nat]]
      BY <2>1 DEF TypeInv, EventType, WorkInv
    <3>2. triggers' \in [Events -> [Workflows -> Nat]]
      BY <2>0, <2>1, <3>1
    <3> QED BY <1>9, <3>2 DEF PublishTrigger, TypeInv, EventType, tables
  <2>5. SeenType'
    BY <1>9, <2>1, DisturbOK DEF PublishTrigger, TypeInv, SeenType
  <2> QED BY <1>9, <2>2, <2>3, <2>4, <2>5, Frame DEF PublishTrigger, TypeInv, tables
<1>10. CASE MarkProcessed(w)
  <2>0. pc[w] # "idle" /\ job[w] \in Events
    BY <1>10, InHand DEF MarkProcessed
  <2>1. EventType'
    BY <1>10, <2>0 DEF MarkProcessed, TypeInv, EventType, Statuses
  <2>2. QueueInv'
    BY <1>10, <2>0, SettleOK, Frame DEF MarkProcessed, TypeInv
  <2>3. SeenType'
    BY <1>10, <2>0, DisturbOK DEF MarkProcessed, TypeInv, SeenType
  <2> QED BY <1>10, <2>1, <2>2, <2>3, ForgetOK, Frame DEF MarkProcessed, TypeInv
<1>11. CASE MarkFailed(w)
  <2>0. pc[w] # "idle" /\ job[w] \in Events
    BY <1>11, InHand DEF MarkFailed
  <2>1. EventType'
    BY <1>11, <2>0 DEF MarkFailed, TypeInv, EventType, Statuses
  <2>2. QueueInv'
    BY <1>11, <2>0, SettleOK DEF MarkFailed, TypeInv
  <2>3. SeenType'
    BY <1>11, <2>0, DisturbOK DEF MarkFailed, TypeInv, SeenType
  <2> QED BY <1>11, <2>1, <2>2, <2>3, ForgetOK, Frame DEF MarkFailed, TypeInv
<1> QED BY <1>1, <1>2, <1>3, <1>4, <1>5, <1>6, <1>7, <1>8, <1>9, <1>10, <1>11 DEF WorkerStep

LEMMA NextTypeInv == TypeInv /\ [Next]_vars => TypeInv'
<1> SUFFICES ASSUME TypeInv, [Next]_vars PROVE TypeInv'
  OBVIOUS
<1>1. ASSUME NEW e \in Events, ExpireAckWait(e) PROVE TypeInv'
  <2>1. QueueInv'
    BY <1>1, RequeueOK DEF ExpireAckWait, TypeInv
  <2> QED BY <1>1, <2>1, Frame DEF ExpireAckWait, TypeInv, tables, slots
<1>2. ASSUME NEW w \in Workers, Crash(w) PROVE TypeInv'
  <2>1. SeenType'
    BY <1>2, InHand, DisturbOK DEF Crash, TypeInv, SeenType
  <2> QED BY <1>2, <2>1, ForgetOK, Frame DEF Crash, TypeInv, tables
<1>3. CASE UNCHANGED vars
  BY <1>3, Frame DEF vars, TypeInv
<1> QED BY <1>1, <1>2, <1>3, IngestType, WorkerType DEF Next

\* The types of EventPipeline, and with them the bound on deliveries and what a
\* contact's user can be: the user of the event that created it.
THEOREM EventsTypeCorrect == Spec => []TypeOK
BY TypeInvIsTypeOK, InitTypeInv, NextTypeInv, PTL DEF Spec

-----------------------------------------------------------------------------
(* A user has one contact.                                                  *)

\* What an upsert does to the contacts: nobody loses a user, none gets two.
UsersKept ==
    \A c \in Events : contact[c].user # None => contact'[c].user = contact[c].user

LEMMA UpsertedUsers ==
    ASSUME TypeInv, OneOwner, NEW e \in Events, NEW r \in Upserted(e, ev[e]), contact' = r.table
    PROVE  OneOwner' /\ UsersKept /\ (ev[e].user # None => contact'[r.id].user = ev[e].user)
<1> DEFINE p     == ev[e]
           found == IF p.user # None THEN WithUser(p.user) ELSE WithAnon(p.anon)
           id    == IF found = {} THEN e ELSE CHOOSE c \in found : TRUE
           new   == [user |-> IF p.user # None THEN p.user ELSE contact[id].user,
                     anon |-> IF p.anon # None THEN p.anon ELSE contact[id].anon]
<1>1. r.id = id /\ r.table = [contact EXCEPT ![id] = new] /\ WithAnon(p.anon) \ {id} = {}
  <2>1. /\ Upserted(e, p) \subseteq {[id |-> id, table |-> [contact EXCEPT ![id] = new]]}
        /\ WithAnon(p.anon) \ {id} # {} => Upserted(e, p) = {}
    BY DEF Upserted
  <2>2. r \in Upserted(e, p)
    OBVIOUS
  <2> HIDE DEF p, id, new
  <2>3. r = [id |-> id, table |-> [contact EXCEPT ![id] = new]]
    BY <2>1, <2>2
  <2> QED BY <2>1, <2>2, <2>3
<1>2. id \in Events /\ (found # {} => id \in found)
  BY DEF WithUser, WithAnon
<1>3. contact' = [contact EXCEPT ![id] = new] /\ contact \in [Events -> ContactRows]
  BY <1>1 DEF TypeInv, ContactType
<1>4. p.user # None => new.user = p.user
  OBVIOUS
<1>5. p.user = None => new.user = contact[id].user
  OBVIOUS
<1>6. p.anon # None => new.anon = p.anon
  OBVIOUS
<1>7. p.anon = None => new.anon = contact[id].anon
  OBVIOUS
<1>8. p.user # None => \A c \in Events : contact[c].user = p.user => c = id
  <2> SUFFICES ASSUME p.user # None, NEW c \in Events, contact[c].user = p.user PROVE c = id
    OBVIOUS
  <2>1. c \in found /\ found = WithUser(p.user)
    BY DEF WithUser
  <2>2. contact[id].user = p.user
    BY <1>2, <2>1 DEF WithUser
  <2> QED BY <1>2, <2>2 DEF OneOwner
<1>9. p.anon # None => \A c \in Events : contact[c].anon = p.anon => c = id
  BY <1>1 DEF WithAnon
<1>10. contact[id].user # None => new.user = contact[id].user
  <2> SUFFICES ASSUME contact[id].user # None, p.user # None PROVE p.user = contact[id].user
    BY <1>4, <1>5
  <2>1. CASE found = {}
    BY <2>1 DEF TypeInv, ContactType
  <2>2. CASE found # {}
    BY <2>2, <1>2 DEF WithUser
  <2> QED BY <2>1, <2>2
<1> HIDE DEF new, id, found
<1>11. /\ contact'[id] = new
       /\ \A c \in Events : c # id => contact'[c] = contact[c]
  BY <1>2, <1>3
<1>12. UsersKept
  BY <1>10, <1>11 DEF UsersKept
<1>13. \A c \in Events : c # id =>
          /\ contact'[c].user = contact'[id].user => contact'[c].user = None
          /\ contact'[c].anon = contact'[id].anon => contact'[c].anon = None
  BY <1>2, <1>4, <1>5, <1>6, <1>7, <1>8, <1>9, <1>11 DEF OneOwner
<1>14. OneOwner'
  <2> SUFFICES ASSUME NEW c \in Events, NEW d \in Events
               PROVE  /\ contact'[c].user = contact'[d].user => c = d \/ contact'[c].user = None
                      /\ contact'[c].anon = contact'[d].anon => c = d \/ contact'[c].anon = None
    BY DEF OneOwner
  <2>1. CASE c = id \/ d = id
    BY <2>1, <1>13
  <2>2. CASE c # id /\ d # id
    BY <2>2, <1>11 DEF OneOwner
  <2> QED BY <2>1, <2>2
<1> QED BY <1>1, <1>4, <1>11, <1>12, <1>14

\* What a step may do to the contacts and to those who refer to them.
Refers(v) == pc[v] \in {"link", "persist"}
UsersStep ==
    /\ UNCHANGED ev /\ OneOwner' /\ UsersKept
    /\ \A e \in Events : enriched'[e] \in Events =>
          \/ enriched'[e] = enriched[e]
          \/ \E w \in Workers : Refers(w) /\ job[w] = e /\ linked[w] = enriched'[e]
    /\ \A v \in Workers : Refers(v)' =>
          \/ Refers(v) /\ linked'[v] = linked[v] /\ job'[v] = job[v]
          \/ ev[job'[v]].user # None => contact'[linked'[v]].user = ev[job'[v]].user

LEMMA UsersStepKeeps ==
    ASSUME UserInv, TypeInv', UsersStep
    PROVE  UserInv'
<1>1. LinkedIsUsers'
  <2> SUFFICES ASSUME NEW v \in Workers, Refers(v)', ev'[job'[v]].user # None
               PROVE  contact'[linked'[v]].user = ev'[job'[v]].user
    BY DEF LinkedIsUsers, Refers
  <2>1. CASE Refers(v) /\ linked'[v] = linked[v] /\ job'[v] = job[v]
    <3>1. linked[v] \in Events
      BY <2>1 DEF Refers, UserInv, TypeInv, WorkInv
    <3> QED BY <2>1, <3>1 DEF Refers, UserInv, LinkedIsUsers, UsersStep, UsersKept
  <2> QED BY <2>1 DEF UsersStep
<1>2. EnrichedIsUsers'
  <2> SUFFICES ASSUME NEW e \in Events, enriched'[e] \in Events, ev'[e].user # None
               PROVE  contact'[enriched'[e]].user = ev'[e].user
    BY DEF EnrichedIsUsers
  <2>1. contact[enriched'[e]].user = ev[e].user
    BY DEF UsersStep, Refers, UserInv, LinkedIsUsers, EnrichedIsUsers
  <2> QED BY <2>1 DEF UsersStep, UsersKept
<1> QED BY <1>1, <1>2 DEF UserInv, UsersStep

\* Steps that leave the contacts alone and make no handler refer to one.
LEMMA QuietForUsers ==
    ASSUME UserInv, UNCHANGED <<ev, contact>>,
           \A e \in Events : enriched'[e] \in Events => enriched'[e] = enriched[e],
           \A v \in Workers : Refers(v)' =>
               Refers(v) /\ linked'[v] = linked[v] /\ job'[v] = job[v]
    PROVE  UsersStep
BY DEF UsersStep, UsersKept, UserInv, OneOwner

\* A slot that fails or becomes free refers to nothing.
LEMMA FreedRefersNot ==
    ASSUME TypeInv, NEW w \in Workers, Transient(w) \/ Nak(w) \/ Forget(w)
    PROVE  /\ ~Refers(w)'
           /\ \A v \in Workers \ {w} :
                 pc'[v] = pc[v] /\ linked'[v] = linked[v] /\ job'[v] = job[v]
BY DEF TypeInv, SlotInv, WorkInv, Transient, Nak, Forget, GoTo, Refers, local

LEMMA InitUserInv == Init => UserInv
<1> SUFFICES ASSUME Init PROVE UserInv
  OBVIOUS
<1>1. OneOwner
  BY DEF Init, OneOwner, NoContact
<1>2. LinkedIsUsers /\ EnrichedIsUsers
  BY EventsAssumption DEF EventsAssumption, Init, LinkedIsUsers, EnrichedIsUsers
<1> QED BY <1>1, <1>2, InitTypeInv DEF UserInv

\* Each step of a handler is such a step.
LEMMA WorkerUsers ==
    ASSUME UserInv, NEW w \in Workers, WorkerStep(w)
    PROVE  UsersStep
<1>0. TypeInv /\ OneOwner
  BY DEF UserInv
<1>1. CASE \E e \in Events : Receive(w, e)
  <2>1. \A v \in Workers : Refers(v)' =>
            Refers(v) /\ linked'[v] = linked[v] /\ job'[v] = job[v]
    BY <1>0, <1>1 DEF Receive, Refers, TypeInv, SlotInv, local
  <2> QED BY <1>1, <2>1, QuietForUsers DEF Receive, tables
<1>2. CASE CheckStatus(w)
  <2>1. \A v \in Workers : Refers(v)' =>
            Refers(v) /\ linked'[v] = linked[v] /\ job'[v] = job[v]
    BY <1>0, <1>2, FreedRefersNot DEF CheckStatus, GoTo, Refers, TypeInv, SlotInv, local
  <2> QED BY <1>2, <2>1, QuietForUsers DEF CheckStatus, tables
<1>3. CASE MarkProcessing(w)
  <2>1. \A v \in Workers : Refers(v)' =>
            Refers(v) /\ linked'[v] = linked[v] /\ job'[v] = job[v]
    BY <1>0, <1>3, FreedRefersNot DEF MarkProcessing, GoTo, Refers, TypeInv, SlotInv, local
  <2> QED BY <1>3, <2>1, QuietForUsers DEF MarkProcessing
<1>4. CASE FindContact(w)
  <2>0. job[w] \in Events
    BY <1>0, <1>4, InHand DEF FindContact
  <2>1. CASE \/ Disturb /\ Transient(w)
             \/ GoTo(w, "upsert") /\ UNCHANGED <<msg, local, stuck>>
    <3>1. \A v \in Workers : Refers(v)' =>
              Refers(v) /\ linked'[v] = linked[v] /\ job'[v] = job[v]
      BY <1>0, <2>1, FreedRefersNot DEF GoTo, Refers, TypeInv, SlotInv, local
    <3> QED BY <1>4, <3>1, QuietForUsers DEF FindContact, tables
  <2>2. CASE /\ \E c \in Known(ev[job[w]]) : linked' = [linked EXCEPT ![w] = c]
             /\ GoTo(w, "persist") /\ UNCHANGED <<msg, todo, stuck>>
    <3>1. PICK c \in Known(ev[job[w]]) : linked' = [linked EXCEPT ![w] = c]
      BY <2>2
    <3>2. UNCHANGED <<ev, enriched, contact, job>>
      BY <1>4, <2>2 DEF FindContact, tables, GoTo
    <3>3. ev[job[w]].user # None => contact[c].user = ev[job[w]].user
      BY <3>1 DEF Known, WithUser
    <3>4. linked'[w] = c /\ \A v \in Workers \ {w} : pc'[v] = pc[v] /\ linked'[v] = linked[v]
      BY <1>0, <2>2, <3>1 DEF GoTo, TypeInv, SlotInv, WorkInv
    <3>5. \A v \in Workers : Refers(v)' =>
            \/ Refers(v) /\ linked'[v] = linked[v] /\ job'[v] = job[v]
            \/ ev[job'[v]].user # None => contact'[linked'[v]].user = ev[job'[v]].user
      BY <3>2, <3>3, <3>4 DEF Refers
    <3> QED BY <1>0, <3>2, <3>5 DEF UsersStep, UsersKept, OneOwner
  <2> QED BY <1>4, <2>1, <2>2 DEF FindContact
<1>5. CASE UpsertContact(w)
  <2>0. job[w] \in Events /\ UNCHANGED <<ev, enriched>>
    BY <1>0, <1>5, InHand DEF UpsertContact
  <2>1. CASE Transient(w) /\ contact' \in {contact} \cup {r.table : r \in Upserted(job[w], ev[job[w]])}
    <3>1. OneOwner' /\ UsersKept
      <4>1. CASE contact' = contact
        BY <1>0, <4>1 DEF OneOwner, UsersKept
      <4>2. CASE contact' # contact
        BY <1>0, <2>0, <2>1, <4>2, UpsertedUsers
      <4> QED BY <4>1, <4>2
    <3>2. \A v \in Workers : Refers(v)' =>
              Refers(v) /\ linked'[v] = linked[v] /\ job'[v] = job[v]
      BY <1>0, <2>1, FreedRefersNot DEF Refers
    <3> QED BY <2>0, <3>1, <3>2 DEF UsersStep
  <2>2. CASE /\ \E r \in Upserted(job[w], ev[job[w]]) :
                   /\ contact' = r.table /\ linked' = [linked EXCEPT ![w] = r.id]
             /\ GoTo(w, IF Stitches(ev[job[w]]) THEN "link" ELSE "persist")
    <3>1. PICK r \in Upserted(job[w], ev[job[w]]) :
                   /\ contact' = r.table /\ linked' = [linked EXCEPT ![w] = r.id]
      BY <2>2
    <3>2. /\ OneOwner' /\ UsersKept
          /\ ev[job[w]].user # None => contact'[r.id].user = ev[job[w]].user
      BY <1>0, <2>0, <3>1, UpsertedUsers
    <3>3. /\ linked'[w] = r.id /\ UNCHANGED job
          /\ \A v \in Workers \ {w} : pc'[v] = pc[v] /\ linked'[v] = linked[v]
      BY <1>0, <2>2, <3>1 DEF GoTo, TypeInv, SlotInv, WorkInv
    <3>4. \A v \in Workers : Refers(v)' =>
            \/ Refers(v) /\ linked'[v] = linked[v] /\ job'[v] = job[v]
            \/ ev[job'[v]].user # None => contact'[linked'[v]].user = ev[job'[v]].user
      BY <3>2, <3>3 DEF Refers
    <3> QED BY <2>0, <3>2, <3>4 DEF UsersStep
  <2> QED BY <1>5, <2>1, <2>2 DEF UpsertContact
<1>6. CASE LinkAnonymous(w)
  <2>0. Refers(w) /\ linked[w] \in Events /\ ev[job[w]] \in Payloads /\ UNCHANGED <<ev, enriched>>
    BY <1>0, <1>6, InHand DEF LinkAnonymous, Refers, TypeInv, WorkInv
  <2>1. CASE Transient(w) /\ UNCHANGED contact
    <3>1. \A v \in Workers : Refers(v)' =>
              Refers(v) /\ linked'[v] = linked[v] /\ job'[v] = job[v]
      BY <1>0, <2>1, FreedRefersNot DEF Refers
    <3> QED BY <2>0, <2>1, <3>1, QuietForUsers
  <2>2. CASE /\ GoTo(w, "persist") /\ UNCHANGED <<msg, local, stuck>>
             /\ contact' = IF ev[job[w]].type = "alias"
                           THEN [contact EXCEPT ![linked[w]].anon = ev[job[w]].anon] ELSE contact
             /\ ev[job[w]].type = "alias" => WithAnon(ev[job[w]].anon) \ {linked[w]} = {}
    <3>1. \A v \in Workers : Refers(v)' =>
              Refers(v) /\ linked'[v] = linked[v] /\ job'[v] = job[v]
      BY <1>0, <2>0, <2>2 DEF Refers, GoTo, local, TypeInv, SlotInv
    <3>2. contact \in [Events -> ContactRows]
      BY <1>0 DEF TypeInv, ContactType
    <3>3. CASE ev[job[w]].type # "alias"
      BY <2>0, <2>2, <3>1, <3>3, QuietForUsers
    <3>4. CASE ev[job[w]].type = "alias"
      <4> DEFINE c == linked[w]
                 a == ev[job[w]].anon
      <4>1. a # None
        BY <2>0, <3>4, EventsAssumption DEF EventsAssumption
      <4>2. contact' = [contact EXCEPT ![c].anon = a] /\ c \in Events
        BY <2>0, <2>2, <3>4
      <4>3. \A d \in Events : contact[d].anon = a => d = c
        BY <2>2, <3>4, <4>1 DEF WithAnon
      <4> HIDE DEF c, a
      <4>4. /\ \A d \in Events : contact'[d].user = contact[d].user
            /\ \A d \in Events : d # c => contact'[d].anon = contact[d].anon
            /\ contact'[c].anon = a
        BY <3>2, <4>2 DEF ContactRows
      <4>5. OneOwner'
        BY <1>0, <4>2, <4>3, <4>4 DEF OneOwner
      <4> QED BY <2>0, <3>1, <4>4, <4>5 DEF UsersStep, UsersKept
    <3> QED BY <3>3, <3>4
  <2> QED BY <1>6, <2>0, <2>1, <2>2, EventsAssumption DEF LinkAnonymous, EventsAssumption
<1>7. CASE PersistEnriched(w)
  <2>0. Refers(w) /\ job[w] \in Events /\ UNCHANGED <<ev, contact>>
    BY <1>0, <1>7, InHand DEF PersistEnriched, Refers
  <2>1. \A v \in Workers : Refers(v)' =>
            Refers(v) /\ linked'[v] = linked[v] /\ job'[v] = job[v]
    BY <1>0, <1>7, FreedRefersNot DEF PersistEnriched, GoTo, Refers, TypeInv, SlotInv, local
  <2>2. \A e \in Events : enriched'[e] = enriched[e] \/ (e = job[w] /\ enriched'[e] = linked[w])
    <3>1. enriched' \in {enriched, [enriched EXCEPT ![job[w]] = linked[w]]}
      BY <1>7 DEF PersistEnriched
    <3> QED BY <1>0, <2>0, <3>1 DEF TypeInv, EventType
  <2> QED BY <1>0, <2>0, <2>1, <2>2 DEF UsersStep, UsersKept, OneOwner
<1>8. CASE FindTriggers(w) \/ PublishTrigger(w)
  <2>1. /\ UNCHANGED <<ev, contact, enriched, job, linked>>
        /\ \E l \in {"trigger", "processed"} : pc' = [pc EXCEPT ![w] = l]
    BY <1>8 DEF FindTriggers, PublishTrigger, tables, GoTo
  <2>2. \A v \in Workers : Refers(v)' => Refers(v)
    BY <1>0, <2>1 DEF Refers, TypeInv, SlotInv
  <2> QED BY <2>1, <2>2, QuietForUsers
<1>9. CASE MarkProcessed(w) \/ MarkFailed(w)
  <2>1. \A v \in Workers : Refers(v)' =>
            Refers(v) /\ linked'[v] = linked[v] /\ job'[v] = job[v]
    BY <1>0, <1>9, FreedRefersNot DEF MarkProcessed, MarkFailed, Refers
  <2> QED BY <1>9, <2>1, QuietForUsers DEF MarkProcessed, MarkFailed
<1> QED BY <1>1, <1>2, <1>3, <1>4, <1>5, <1>6, <1>7, <1>8, <1>9 DEF WorkerStep

LEMMA NextUserInv == UserInv /\ [Next]_vars => UserInv'
<1> SUFFICES ASSUME UserInv, [Next]_vars PROVE UserInv'
  OBVIOUS
<1>0. TypeInv /\ TypeInv'
  BY NextTypeInv DEF UserInv
<1>1. ASSUME NEW e \in Events, Ingest(e) PROVE UsersStep
  <2>1. UNCHANGED <<ev, contact, pc, job, linked>>
    BY <1>1 DEF Ingest, InsertEvent, PublishEvent, RecordUsage, RollBack, slots, tables
  <2>2. \A c \in Events : enriched'[c] \in {enriched[c], Absent}
    BY <1>0, <1>1 DEF Ingest, InsertEvent, PublishEvent, RecordUsage, RollBack, slots, tables,
                      TypeInv, EventType
  <2> QED BY <2>1, <2>2, QuietForUsers, EventsAssumption DEF EventsAssumption, Refers
<1>2. ASSUME NEW e \in Events, ExpireAckWait(e) PROVE UsersStep
  BY <1>2, QuietForUsers DEF ExpireAckWait, slots, tables, Refers
<1>3. ASSUME NEW w \in Workers, Crash(w) PROVE UsersStep
  <2>1. \A v \in Workers : Refers(v)' =>
            Refers(v) /\ linked'[v] = linked[v] /\ job'[v] = job[v]
    BY <1>0, <1>3, FreedRefersNot DEF Crash, Refers
  <2> QED BY <1>3, <2>1, QuietForUsers DEF Crash, tables
<1>4. ASSUME UNCHANGED vars PROVE UsersStep
  <2>1. UNCHANGED <<ev, contact, enriched, pc, linked, job>>
    BY <1>4 DEF vars
  <2> QED BY <2>1, QuietForUsers DEF Refers
<1>5. UsersStep
  <2>1. CASE Next
    BY <1>1, <1>2, <1>3, <2>1, WorkerUsers DEF Next
  <2> QED BY <1>4, <2>1
<1> QED BY <1>0, <1>5, UsersStepKeeps

\* However the events of a visitor interleave, are retried and are given up, a
\* user has one contact, an anonymous id belongs to one contact, and an event of
\* a user is enriched with that user's contact.
THEOREM OneContact == Spec => []UserHasOneContact
<1>1. UserInv => UserHasOneContact
  BY DEF UserInv, OneOwner, EnrichedIsUsers, UserHasOneContact
<1> QED BY <1>1, InitUserInv, NextUserInv, PTL DEF Spec

-----------------------------------------------------------------------------
(* What is called processed was carried out.                                *)

HandlerStep(w) ==
    \/ CheckStatus(w) \/ MarkProcessing(w) \/ FindContact(w) \/ UpsertContact(w)
    \/ LinkAnonymous(w) \/ PersistEnriched(w) \/ FindTriggers(w) \/ PublishTrigger(w)
    \/ MarkProcessed(w) \/ MarkFailed(w) \/ Crash(w)

\* A handler has the event of its own delivery in hand, and nothing else.
LEMMA HandlerMoves ==
    ASSUME TypeInv, NEW w \in Workers, HandlerStep(w)
    PROVE  /\ pc[w] # "idle" /\ UNCHANGED <<ev, call>>
           /\ msg' \in {msg, Settle(msg, job[w]), Requeue(msg, job[w])}
           /\ \A v \in Workers : v # w => pc'[v] = pc[v] /\ job'[v] = job[v] /\ todo'[v] = todo[v]
           /\ pc'[w] # "idle" => job'[w] = job[w]
<1>1. ASSUME Forget(w)
      PROVE  /\ pc'[w] = "idle"
             /\ \A v \in Workers : v # w => pc'[v] = pc[v] /\ job'[v] = job[v] /\ todo'[v] = todo[v]
  BY <1>1 DEF Forget, TypeInv, SlotInv, WorkInv
<1>2. ASSUME NEW l, GoTo(w, l), UNCHANGED todo
      PROVE  /\ UNCHANGED job
             /\ \A v \in Workers : v # w => pc'[v] = pc[v] /\ job'[v] = job[v] /\ todo'[v] = todo[v]
  BY <1>2 DEF GoTo, TypeInv, SlotInv
<1>3. ASSUME Nak(w) \/ Transient(w)
      PROVE  /\ msg' \in {msg, Settle(msg, job[w]), Requeue(msg, job[w])}
             /\ \A v \in Workers : v # w => pc'[v] = pc[v] /\ job'[v] = job[v] /\ todo'[v] = todo[v]
             /\ pc'[w] # "idle" => job'[w] = job[w]
  BY <1>1, <1>2, <1>3 DEF Nak, Transient, local
<1>4. CASE CheckStatus(w) \/ MarkProcessing(w) \/ MarkProcessed(w) \/ MarkFailed(w) \/ Crash(w)
  BY <1>1, <1>2, <1>3, <1>4
     DEF CheckStatus, MarkProcessing, MarkProcessed, MarkFailed, Crash, local, tables
<1>5. CASE FindContact(w) \/ UpsertContact(w) \/ LinkAnonymous(w) \/ PersistEnriched(w)
  BY <1>2, <1>3, <1>5
     DEF FindContact, UpsertContact, LinkAnonymous, PersistEnriched, local, tables
<1>6. CASE FindTriggers(w) \/ PublishTrigger(w)
  <2>1. /\ pc[w] # "idle" /\ UNCHANGED <<ev, call, msg, job>>
        /\ \E l \in {"trigger", "processed"} : pc' = [pc EXCEPT ![w] = l]
        /\ \/ UNCHANGED todo
           \/ \E S \in SUBSET Workflows : todo' = [todo EXCEPT ![w] = S]
    BY <1>6 DEF FindTriggers, PublishTrigger, tables, GoTo, TypeInv, WorkInv
  <2> QED BY <2>1 DEF TypeInv, SlotInv, WorkInv
<1> QED BY <1>4, <1>5, <1>6 DEF HandlerStep

\* What is published stays published.
LEMMA MsgMoves ==
    ASSUME TypeInv, PublishedOnce, NEW w \in Workers, HandlerStep(w)
    PROVE  \A e \in Events : /\ msg[e].st = "none" <=> msg'[e].st = "none"
                             /\ e # job[w] => msg'[e] = msg[e]
<1>1. job[w] \in Events /\ msg[job[w]].st # "none"
  BY HandlerMoves, InHand DEF PublishedOnce
<1>2. msg \in [Events -> Messages] /\ msg' \in {msg, Settle(msg, job[w]), Requeue(msg, job[w])}
  BY HandlerMoves DEF TypeInv, QueueInv
<1> QED BY <1>1, <1>2 DEF Settle, Requeue, CanRedeliver

LEMMA HandlerPublishedOnce ==
    ASSUME TypeInv, PublishedOnce, NEW w \in Workers, HandlerStep(w)
    PROVE  PublishedOnce'
<1>1. \A e \in Events : msg[e].st = "none" <=> msg'[e].st = "none"
  BY MsgMoves
<1>2. \A v \in Workers : pc'[v] # "idle" => pc[v] # "idle" /\ job'[v] = job[v]
  BY HandlerMoves
<1>3. UNCHANGED call
  BY HandlerMoves
<1>4. \A v \in Workers : pc[v] # "idle" => job[v] \in Events
  BY InHand
<1> QED BY <1>1, <1>2, <1>3, <1>4 DEF PublishedOnce

LEMMA NextPublishedOnce == TypeInv /\ PublishedOnce /\ [Next]_vars => PublishedOnce'
<1> SUFFICES ASSUME TypeInv, PublishedOnce, [Next]_vars PROVE PublishedOnce'
  OBVIOUS
<1>0. /\ msg \in [Events -> Messages]
      /\ \A v \in Workers : pc[v] # "idle" => job[v] \in Events
  BY InHand DEF TypeInv, QueueInv
<1>1. ASSUME NEW e \in Events, Ingest(e) PROVE PublishedOnce'
  <2>1. UNCHANGED <<pc, job>> /\ call' \in [Events -> Calls]
    BY <1>1, IngestType DEF Ingest, InsertEvent, PublishEvent, RecordUsage, RollBack, slots,
                            tables, TypeInv, CallType
  <2>2. CASE InsertEvent(e)
    BY <1>0, <2>1, <2>2 DEF InsertEvent, Goes, TypeInv, CallType, PublishedOnce, slots
  <2>3. CASE PublishEvent(e)
    <3>1. call'[e] \in {"usage", "rollback"} /\ \A c \in Events : c # e => call'[c] = call[c]
      BY <2>3 DEF PublishEvent, Goes, TypeInv, CallType
    <3>2. \A c \in Events : /\ c # e => msg'[c] = msg[c]
                            /\ msg[c].st # "none" => msg'[c].st # "none"
      BY <1>0, <2>3 DEF PublishEvent, NewMsg
    <3> QED BY <1>0, <2>1, <3>1, <3>2 DEF PublishedOnce
  <2>4. CASE RecordUsage(e) \/ RollBack(e)
    <3>1. /\ call'[e] \in {"accepted", "refused"} /\ UNCHANGED msg
          /\ \A c \in Events : c # e => call'[c] = call[c]
      BY <2>4 DEF RecordUsage, RollBack, Goes, TypeInv, CallType
    <3> QED BY <2>1, <3>1 DEF PublishedOnce
  <2> QED BY <1>1, <2>2, <2>3, <2>4 DEF Ingest
<1>2. ASSUME NEW e \in Events, ExpireAckWait(e) PROVE PublishedOnce'
  BY <1>0, <1>2 DEF ExpireAckWait, CanRedeliver, Requeue, PublishedOnce, slots
<1>3. ASSUME NEW w \in Workers, NEW e \in Events, Receive(w, e) PROVE PublishedOnce'
  BY <1>0, <1>3 DEF Receive, Deliver, PublishedOnce, TypeInv, SlotInv
<1>4. ASSUME NEW w \in Workers, HandlerStep(w) PROVE PublishedOnce'
  BY <1>4, HandlerPublishedOnce
<1>5. CASE UNCHANGED vars
  BY <1>5 DEF vars, PublishedOnce
<1> QED BY <1>1, <1>2, <1>3, <1>4, <1>5 DEF Next, WorkerStep, HandlerStep

\* How a step may change the two tables, and which handlers go past the insert.
Late(v) == pc[v] \in {"rules", "trigger", "processed"}
TablesStep ==
    /\ \A e \in Events :
          /\ raw[e] = Absent => raw'[e] = Absent \/ msg[e].st = "none"
          /\ enriched[e] # Absent => enriched'[e] # Absent \/ raw'[e] = Absent
          /\ raw'[e] = "processed" =>
                raw[e] = "processed" \/ (raw[e] # Absent /\ \E w \in Workers : Late(w) /\ job[w] = e)
    /\ \A v \in Workers : Late(v)' =>
          (Late(v) /\ job'[v] = job[v]) \/ enriched'[job'[v]] # Absent

LEMMA TablesStepKeeps ==
    ASSUME TypeInv, TypeInv', PublishedOnce, EnrichedFirst, TablesStep
    PROVE  EnrichedFirst'
<1>1. ASSUME NEW v \in Workers, Late(v)' PROVE raw'[job'[v]] = Absent \/ enriched'[job'[v]] # Absent
  <2>1. CASE Late(v) /\ job'[v] = job[v]
    <3>1. job[v] \in Events /\ msg[job[v]].st # "none"
      BY <2>1, InHand DEF Late, PublishedOnce
    <3>2. raw[job[v]] = Absent \/ enriched[job[v]] # Absent
      BY <2>1 DEF Late, EnrichedFirst
    <3> QED BY <2>1, <3>1, <3>2 DEF TablesStep
  <2> QED BY <1>1, <2>1 DEF TablesStep
<1>2. ASSUME NEW e \in Events, raw'[e] = "processed" PROVE enriched'[e] # Absent
  <2>1. raw'[e] # Absent
    BY <1>2, EventsAssumption DEF EventsAssumption
  <2>2. enriched[e] # Absent
    BY <1>2 DEF TablesStep, EnrichedFirst, Late
  <2> QED BY <2>1, <2>2 DEF TablesStep
<1> QED BY <1>1, <1>2 DEF EnrichedFirst, Late

LEMMA HandlerTables ==
    ASSUME TypeInv, PublishedOnce, NEW w \in Workers, HandlerStep(w)
    PROVE  TablesStep
<1>0. /\ pc[w] # "idle" /\ job[w] \in Events /\ (pc[w] = "persist" => linked[w] \in Events)
      /\ \A v \in Workers : v # w => pc'[v] = pc[v] /\ job'[v] = job[v]
      /\ pc'[w] # "idle" => job'[w] = job[w]
  BY HandlerMoves, InHand DEF TypeInv, WorkInv
<1>1. raw \in [Events -> Statuses \cup {Absent}] /\ enriched \in [Events -> Events \cup {Absent}]
  BY DEF TypeInv, EventType
<1>2. /\ \A e \in Events : raw[e] = Absent <=> raw'[e] = Absent
      /\ \A e \in Events : raw'[e] = "processed" => raw[e] = "processed" \/ (e = job[w] /\ Late(w))
  <2>1. raw' \in {raw, [raw EXCEPT ![job[w]] = "processing"], [raw EXCEPT ![job[w]] = "failed"]}
        \/ (Late(w) /\ raw' = [raw EXCEPT ![job[w]] = "processed"])
    BY DEF HandlerStep, CheckStatus, MarkProcessing, FindContact, UpsertContact, LinkAnonymous,
           PersistEnriched, FindTriggers, PublishTrigger, MarkProcessed, MarkFailed, Crash,
           Late, tables
  <2>2. raw' = raw \/ raw[job[w]] # Absent
    BY EventsAssumption DEF HandlerStep, CheckStatus, MarkProcessing, FindContact, UpsertContact,
           LinkAnonymous, PersistEnriched, FindTriggers, PublishTrigger, MarkProcessed, MarkFailed,
           Crash, tables, EventsAssumption
  <2> QED BY <1>0, <1>1, <2>1, <2>2, EventsAssumption DEF EventsAssumption
<1>3. \A e \in Events : enriched[e] # Absent => enriched'[e] # Absent
  <2>1. enriched' = enriched
        \/ (pc[w] = "persist" /\ enriched' = [enriched EXCEPT ![job[w]] = linked[w]])
    BY DEF HandlerStep, CheckStatus, MarkProcessing, FindContact, UpsertContact, LinkAnonymous,
           PersistEnriched, FindTriggers, PublishTrigger, MarkProcessed, MarkFailed, Crash, tables
  <2> QED BY <1>0, <1>1, <2>1, EventsAssumption DEF EventsAssumption
<1>4. Late(w)' => Late(w) \/ enriched'[job'[w]] # Absent
  <2>1. ASSUME Nak(w) \/ Transient(w) \/ Forget(w) PROVE ~Late(w)'
    BY <1>0, <2>1 DEF Nak, Transient, Forget, GoTo, TypeInv, SlotInv, Late
  <2>2. CASE PersistEnriched(w)
    <3>1. CASE GoTo(w, "rules")
      <4>1. enriched' = IF enriched[job[w]] = Absent
                        THEN [enriched EXCEPT ![job[w]] = linked[w]] ELSE enriched
        BY <2>2, <3>1, <2>1 DEF PersistEnriched, GoTo, Late, TypeInv, SlotInv
      <4>2. job'[w] = job[w]
        BY <3>1 DEF GoTo
      <4>3. linked[w] \in Events
        BY <2>2, <1>0 DEF PersistEnriched
      <4> QED BY <1>0, <1>1, <4>1, <4>2, <4>3, EventsAssumption DEF EventsAssumption
    <3> QED BY <2>1, <2>2, <3>1 DEF PersistEnriched
  <2>3. CASE CheckStatus(w) \/ MarkProcessing(w) \/ FindContact(w) \/ UpsertContact(w)
             \/ LinkAnonymous(w)
    <3>1. CASE \E l \in {"mark", "find", "upsert", "link", "persist"} : GoTo(w, l)
      BY <3>1 DEF GoTo, TypeInv, SlotInv, Late
    <3> QED BY <2>1, <2>3, <3>1
            DEF CheckStatus, MarkProcessing, FindContact, UpsertContact, LinkAnonymous
  <2>4. CASE FindTriggers(w) \/ PublishTrigger(w)
    BY <2>4 DEF FindTriggers, PublishTrigger, Late
  <2>5. CASE MarkProcessed(w) \/ MarkFailed(w) \/ Crash(w)
    BY <2>1, <2>5 DEF MarkProcessed, MarkFailed, Crash
  <2> QED BY <2>2, <2>3, <2>4, <2>5 DEF HandlerStep
<1>5. ASSUME NEW v \in Workers, Late(v)'
      PROVE  (Late(v) /\ job'[v] = job[v]) \/ enriched'[job'[v]] # Absent
  <2>1. pc'[v] # "idle"
    BY <1>5 DEF Late
  <2> QED BY <1>0, <1>4, <1>5, <2>1 DEF Late
<1>6. ASSUME NEW e \in Events
      PROVE  /\ raw[e] = Absent => raw'[e] = Absent \/ msg[e].st = "none"
             /\ enriched[e] # Absent => enriched'[e] # Absent \/ raw'[e] = Absent
             /\ raw'[e] = "processed" =>
                   raw[e] = "processed" \/ (raw[e] # Absent /\ \E v \in Workers : Late(v) /\ job[v] = e)
  <2>1. raw'[e] = "processed" => raw'[e] # Absent
    BY EventsAssumption DEF EventsAssumption
  <2> QED BY <1>2, <1>3, <2>1
<1> QED BY <1>5, <1>6 DEF TablesStep

LEMMA NextEnrichedFirst ==
    TypeInv /\ PublishedOnce /\ EnrichedFirst /\ [Next]_vars => EnrichedFirst'
<1> SUFFICES ASSUME TypeInv, PublishedOnce, EnrichedFirst, [Next]_vars PROVE EnrichedFirst'
  OBVIOUS
<1>0. TypeInv' /\ raw \in [Events -> Statuses \cup {Absent}]
               /\ enriched \in [Events -> Events \cup {Absent}]
  BY NextTypeInv DEF TypeInv, EventType
<1>1. ASSUME NEW e \in Events, Ingest(e) PROVE TablesStep
  <2>1. CASE InsertEvent(e)
    BY <1>0, <2>1 DEF InsertEvent, PublishedOnce, TablesStep, Late, slots
  <2>2. CASE PublishEvent(e) \/ RecordUsage(e)
    BY <2>2, EventsAssumption
       DEF EventsAssumption, PublishEvent, RecordUsage, TablesStep, Late, slots, tables
  <2>3. CASE RollBack(e)
    <3>1. CASE raw' = [raw EXCEPT ![e] = Absent] /\ enriched' = [enriched EXCEPT ![e] = Absent]
      BY <1>0, <2>3, <3>1, EventsAssumption
         DEF EventsAssumption, RollBack, TablesStep, Late, slots
    <3>2. CASE UNCHANGED <<raw, enriched>>
      BY <2>3, <3>2, EventsAssumption DEF EventsAssumption, RollBack, TablesStep, Late, slots
    <3> QED BY <2>3, <3>1, <3>2 DEF RollBack
  <2> QED BY <1>1, <2>1, <2>2, <2>3 DEF Ingest
<1>2. ASSUME NEW e \in Events, ExpireAckWait(e) PROVE TablesStep
  BY <1>2 DEF ExpireAckWait, TablesStep, Late, slots, tables
<1>3. ASSUME NEW w \in Workers, NEW e \in Events, Receive(w, e) PROVE TablesStep
  BY <1>3 DEF Receive, TablesStep, Late, tables, TypeInv, SlotInv
<1>4. ASSUME NEW w \in Workers, HandlerStep(w) PROVE TablesStep
  BY <1>4, HandlerTables
<1>5. ASSUME UNCHANGED vars PROVE TablesStep
  BY <1>5 DEF vars, TablesStep, Late
<1>6. TablesStep
  <2>1. CASE Next
    BY <1>1, <1>2, <1>3, <1>4, <2>1 DEF Next, WorkerStep, HandlerStep
  <2> QED BY <1>5, <2>1
<1> QED BY <1>0, <1>6, TablesStepKeeps

\* Nothing was disturbed before a step that leaves nothing disturbed.
LEMMA StillCalm ==
    ASSUME TypeInv, disturbances' = 0
    PROVE  /\ ~Disturb
           /\ Undisturbed => disturbances = 0
<1>1. disturbances \in Nat
  BY EventsAssumption DEF EventsAssumption, TypeInv, SeenType
<1> QED BY <1>1 DEF Disturb, Undisturbed

\* Handlers that keep their event keep OneHandler.
LEMMA HandlersStay ==
    ASSUME OneHandler, UNCHANGED <<msg, job, attempt>>,
           \A v \in Workers : pc'[v] = "idle" <=> pc[v] = "idle"
    PROVE  OneHandler'
BY DEF OneHandler

\* A handler without disturbance returns its event settled or ready again.
LEMMA HandlerReturns ==
    ASSUME TypeInv, OneHandler, NEW w \in Workers, pc[w] # "idle", Forget(w),
           \/ msg' = Settle(msg, job[w])
           \/ msg' = Requeue(msg, job[w]) /\ ~IsLast(w)
    PROVE  /\ OneHandler'
           /\ msg'[job[w]].st = IF msg' = Settle(msg, job[w]) THEN "gone" ELSE "ready"
           /\ \A e \in Events : e # job[w] => msg'[e] = msg[e]
           /\ \A v \in Workers : v # w => pc'[v] = pc[v] /\ job'[v] = job[v] /\ todo'[v] = todo[v]
           /\ pc'[w] = "idle"
<1> DEFINE e == job[w]
<1>1. e \in Events /\ msg \in [Events -> Messages]
  BY InHand DEF TypeInv, QueueInv
<1>2. msg[e].st = "out" /\ attempt[w] = msg[e].n /\ msg[e].n \in Nat
  BY <1>1, EventsAssumption DEF EventsAssumption, OneHandler, Messages
<1>3. ~IsLast(w) => CanRedeliver(msg, e)
  BY <1>1, <1>2, EventsAssumption
     DEF EventsAssumption, IsLast, CanRedeliver, TypeInv, SlotInv, Messages
<1>4. /\ msg' = Settle(msg, e) => msg'[e].st = "gone"
      /\ msg' # Settle(msg, e) => msg'[e].st = "ready"
      /\ \A c \in Events : c # e => msg'[c] = msg[c]
  BY <1>1, <1>3 DEF Settle, Requeue
<1>5. /\ \A v \in Workers : v # w => /\ pc'[v] = pc[v] /\ job'[v] = job[v]
                                     /\ todo'[v] = todo[v] /\ attempt'[v] = attempt[v]
      /\ pc'[w] = "idle" /\ job'[w] = None
  BY DEF Forget, TypeInv, SlotInv, WorkInv
<1>6. \A v \in Workers : v # w /\ pc[v] # "idle" => job[v] \in Events /\ job[v] # e
  BY InHand DEF OneHandler
<1>7. \A c \in Events : msg'[c].st = "out" => c # e /\ msg[c].st = "out"
  BY <1>4
<1> HIDE DEF e
<1>8. OneHandler'
  <2>1. \A c \in Events : msg'[c].st = "out" => \E v \in Workers : job'[v] = c
    <3> SUFFICES ASSUME NEW c \in Events, msg'[c].st = "out" PROVE \E v \in Workers : job'[v] = c
      OBVIOUS
    <3>1. PICK v \in Workers : job[v] = c
      BY <1>7 DEF OneHandler
    <3> QED BY <1>5, <1>7, <3>1 DEF e
  <2>2. \A v \in Workers : pc'[v] # "idle" =>
            /\ v # w /\ pc[v] # "idle" /\ msg'[job'[v]] = msg[job[v]]
            /\ job'[v] = job[v] /\ attempt'[v] = attempt[v]
    BY <1>4, <1>5, <1>6
  <2>3. \A v \in Workers : pc'[v] # "idle" => /\ msg'[job'[v]].st = "out"
                                              /\ attempt'[v] = msg'[job'[v]].n
    BY <2>2 DEF OneHandler
  <2>4. \A u, v \in Workers : pc'[u] # "idle" /\ job'[u] = job'[v] => u = v
    <3> SUFFICES ASSUME NEW u \in Workers, NEW v \in Workers, pc'[u] # "idle", job'[u] = job'[v]
                 PROVE  u = v
      OBVIOUS
    <3>1. job'[u] \in Events /\ pc[u] # "idle" /\ job'[u] = job[u]
      BY <1>6, <2>2
    <3>2. v # w
      BY <1>5, <3>1, EventsAssumption DEF EventsAssumption
    <3>3. job[u] = job[v]
      BY <1>5, <3>1, <3>2
    <3> QED BY <3>1, <3>3 DEF OneHandler
  <2> QED BY <2>1, <2>3, <2>4 DEF OneHandler
<1> QED BY <1>4, <1>5, <1>8 DEF e

\* An event returned to the queue was not published for yet; one that is
\* settled has all its triggers if it is processed.
LEMMA CalmReturn ==
    ASSUME TypeInv, Calm, NEW w \in Workers, pc[w] # "idle", Forget(w), UNCHANGED triggers,
           \/ msg' = Settle(msg, job[w])
           \/ msg' = Requeue(msg, job[w]) /\ ~IsLast(w) /\ pc[w] \notin Publishing,
           \A e \in Events : raw'[e] = "processed" =>
               raw[e] = "processed"
               \/ (e = job[w] /\ pc[w] = "processed" /\ msg' = Settle(msg, job[w]))
    PROVE  Calm'
<1>0. OneHandler /\ TriggersFollow /\ ProcessedTriggered /\ job[w] \in Events
  BY InHand DEF Calm
<1>1. /\ OneHandler'
      /\ msg'[job[w]].st = IF msg' = Settle(msg, job[w]) THEN "gone" ELSE "ready"
      /\ \A e \in Events : e # job[w] => msg'[e] = msg[e]
      /\ \A v \in Workers : v # w => pc'[v] = pc[v] /\ job'[v] = job[v] /\ todo'[v] = todo[v]
      /\ pc'[w] = "idle"
  BY <1>0, HandlerReturns
<1>2. TriggersFollow'
  <2>1. \A e \in Events, f \in Workflows : msg'[e].st \in {"none", "ready"} => triggers[e][f] = 0
    <3> SUFFICES ASSUME NEW e \in Events, NEW f \in Workflows, msg'[e].st \in {"none", "ready"}
                 PROVE  triggers[e][f] = 0
      OBVIOUS
    <3>1. CASE e = job[w]
      BY <1>0, <1>1, <3>1 DEF TriggersFollow
    <3>2. CASE e # job[w]
      BY <1>0, <1>1, <3>2 DEF TriggersFollow
    <3> QED BY <3>1, <3>2
  <2>2. \A v \in Workers : pc'[v] # "idle" => pc'[v] = pc[v] /\ job'[v] = job[v] /\ todo'[v] = todo[v]
    BY <1>1
  <2>3. \A v \in Workers : pc'[v] \in Publishing => pc'[v] # "idle"
    BY DEF Publishing
  <2>4. \A v \in Workers, f \in Workflows : pc'[v] \notin Publishing \cup {"idle"} =>
            triggers'[job'[v]][f] = 0
    BY <1>0, <2>2 DEF TriggersFollow
  <2>5. \A v \in Workers, f \in Workflows : pc'[v] \in Publishing =>
            triggers'[job'[v]][f] = IF f \in todo'[v] THEN 0 ELSE 1
    BY <1>0, <2>2, <2>3 DEF TriggersFollow
  <2>6. \A v \in Workers : pc'[v] = "processed" => todo'[v] = {}
    BY <1>0, <2>2 DEF TriggersFollow
  <2> QED BY <2>1, <2>4, <2>5, <2>6 DEF TriggersFollow
<1>3. ProcessedTriggered'
  <2> SUFFICES ASSUME NEW e \in Events, raw'[e] = "processed"
               PROVE  msg'[e].st = "gone" /\ \A f \in Workflows : triggers[e][f] = 1
    BY DEF ProcessedTriggered
  <2>1. CASE raw[e] = "processed"
    <3>1. msg[e].st = "gone" /\ msg[job[w]].st = "out"
      BY <1>0, <2>1 DEF ProcessedTriggered, OneHandler
    <3> QED BY <1>0, <1>1, <2>1, <3>1 DEF ProcessedTriggered
  <2>2. CASE e = job[w] /\ pc[w] = "processed" /\ msg' = Settle(msg, job[w])
    BY <1>0, <1>1, <2>2 DEF TriggersFollow, Publishing
  <2> QED BY <2>1, <2>2
<1> QED BY <1>1, <1>2, <1>3 DEF Calm

\* Steps before the triggers leave them to later steps.
LEMMA CalmGoTo ==
    ASSUME TypeInv, Calm, NEW w \in Workers, pc[w] \notin Publishing \cup {"idle"},
           NEW l \in Labels \ (Publishing \cup {"idle"}), GoTo(w, l),
           UNCHANGED <<msg, triggers, todo>>,
           \A e \in Events : raw'[e] = "processed" => raw[e] = "processed"
    PROVE  Calm'
<1>0. OneHandler /\ TriggersFollow /\ ProcessedTriggered
  BY DEF Calm
<1>1. pc' = [pc EXCEPT ![w] = l] /\ UNCHANGED <<job, attempt>> /\ pc \in [Workers -> Labels]
  BY DEF GoTo, TypeInv, SlotInv
<1>2. OneHandler'
  BY <1>0, <1>1, HandlersStay
<1>3. TriggersFollow'
  BY <1>0, <1>1 DEF TriggersFollow, Publishing
<1>4. ProcessedTriggered'
  BY <1>0 DEF ProcessedTriggered
<1> QED BY <1>2, <1>3, <1>4 DEF Calm

LEMMA CalmTransient ==
    ASSUME TypeInv, Calm, NEW w \in Workers, pc[w] \notin Publishing \cup {"idle"}, Transient(w),
           UNCHANGED <<triggers, raw>>
    PROVE  Calm'
<1>1. CASE IsLast(w)
  BY <1>1, CalmGoTo DEF Transient, Publishing, Labels, local
<1>2. CASE ~IsLast(w)
  BY <1>2, CalmReturn DEF Transient, Nak
<1> QED BY <1>1, <1>2

LEMMA CalmIngest ==
    ASSUME TypeInv, PublishedOnce, Calm, NEW e \in Events, Ingest(e), disturbances' = 0
    PROVE  Calm'
<1>0. /\ OneHandler /\ TriggersFollow /\ ProcessedTriggered
      /\ msg \in [Events -> Messages] /\ raw \in [Events -> Statuses \cup {Absent}] /\ ~Disturb
      /\ \A v \in Workers : pc[v] # "idle" => job[v] \in Events
  BY StillCalm, InHand DEF Calm, TypeInv, QueueInv, EventType
<1>1. CASE InsertEvent(e) \/ RecordUsage(e) \/ RollBack(e)
  <2>1. UNCHANGED <<pc, job, attempt, todo, msg, triggers>>
    BY <1>1 DEF InsertEvent, RecordUsage, RollBack, slots, tables
  <2>2. raw' \in {raw, [raw EXCEPT ![e] = "pending"], [raw EXCEPT ![e] = Absent]}
    BY <1>1 DEF InsertEvent, RecordUsage, RollBack, tables
  <2>3. \A c \in Events : raw'[c] = "processed" => raw[c] = "processed"
    BY <1>0, <2>2, EventsAssumption DEF EventsAssumption
  <2> QED BY <1>0, <2>1, <2>3 DEF Calm, OneHandler, TriggersFollow, ProcessedTriggered
<1>2. CASE PublishEvent(e)
  <2>1. /\ UNCHANGED <<pc, job, attempt, todo, raw, triggers>> /\ msg' = NewMsg(msg, e)
        /\ msg[e].st = "none"
    BY <1>0, <1>2 DEF PublishEvent, PublishedOnce, slots, tables
  <2>2. /\ \A c \in Events : c # e => msg'[c] = msg[c]
        /\ msg'[e].st = "ready"
    BY <1>0, <2>1 DEF NewMsg
  <2>3. \A v \in Workers : pc[v] # "idle" => job[v] # e
    BY <1>0, <2>1 DEF OneHandler
  <2>4. OneHandler'
    BY <1>0, <2>1, <2>2, <2>3 DEF OneHandler
  <2>5. TriggersFollow'
    BY <1>0, <2>1, <2>2 DEF TriggersFollow
  <2>6. ProcessedTriggered'
    BY <1>0, <2>1, <2>2 DEF ProcessedTriggered
  <2> QED BY <2>4, <2>5, <2>6 DEF Calm
<1> QED BY <1>1, <1>2 DEF Ingest

LEMMA CalmReceive ==
    ASSUME TypeInv, Calm, NEW w \in Workers, NEW e \in Events, Receive(w, e)
    PROVE  Calm'
<1>0. /\ OneHandler /\ TriggersFollow /\ ProcessedTriggered
      /\ msg \in [Events -> Messages] /\ \A v \in Workers : pc[v] # "idle" => job[v] \in Events
      /\ \A v \in Workers : pc[v] = "idle" => job[v] = None
  BY InHand DEF Calm, TypeInv, QueueInv, SlotInv
<1>1. /\ pc[w] = "idle" /\ msg[e].st = "ready" /\ UNCHANGED <<raw, triggers, todo>>
      /\ \A v \in Workers : v # w => pc'[v] = pc[v] /\ job'[v] = job[v] /\ attempt'[v] = attempt[v]
      /\ pc'[w] = "status" /\ job'[w] = e /\ attempt'[w] = msg[e].n + 1
  BY DEF Receive, tables, local, TypeInv, SlotInv
<1>2. /\ msg'[e].st = "out" /\ msg'[e].n = msg[e].n + 1
      /\ \A c \in Events : c # e => msg'[c] = msg[c]
  BY <1>0 DEF Receive, Deliver
<1>3. \A v \in Workers : pc[v] # "idle" => job[v] # e
  BY <1>0, <1>1 DEF OneHandler
<1>4. OneHandler'
  <2>1. \A v \in Workers : pc'[v] # "idle" => /\ msg'[job'[v]].st = "out"
                                              /\ attempt'[v] = msg'[job'[v]].n
    <3> SUFFICES ASSUME NEW v \in Workers, pc'[v] # "idle"
                 PROVE  msg'[job'[v]].st = "out" /\ attempt'[v] = msg'[job'[v]].n
      OBVIOUS
    <3>1. CASE v = w
      BY <1>1, <1>2, <3>1
    <3>2. CASE v # w
      BY <1>0, <1>1, <1>2, <1>3, <3>2 DEF OneHandler
    <3> QED BY <3>1, <3>2
  <2>2. \A u, v \in Workers : pc'[u] # "idle" /\ job'[u] = job'[v] => u = v
    <3> SUFFICES ASSUME NEW u \in Workers, NEW v \in Workers, pc'[u] # "idle", job'[u] = job'[v]
                 PROVE  u = v
      OBVIOUS
    <3>1. CASE u = w /\ v # w
      <4>1. job[v] = e
        BY <1>1, <3>1
      <4> QED BY <1>0, <1>3, <4>1, EventsAssumption DEF EventsAssumption
    <3>2. CASE u # w /\ v = w
      <4>1. pc[u] # "idle" /\ job[u] = e
        BY <1>1, <3>2
      <4> QED BY <1>3, <4>1
    <3>3. CASE u # w /\ v # w
      <4>1. pc[u] # "idle" /\ job[u] = job[v]
        BY <1>1, <3>3
      <4> QED BY <1>0, <4>1 DEF OneHandler
    <3> QED BY <3>1, <3>2, <3>3
  <2>3. \A c \in Events : msg'[c].st = "out" => \E v \in Workers : job'[v] = c
    <3> SUFFICES ASSUME NEW c \in Events, msg'[c].st = "out" PROVE \E v \in Workers : job'[v] = c
      OBVIOUS
    <3>1. CASE c = e
      BY <1>1, <3>1
    <3>2. CASE c # e
      <4>1. PICK v \in Workers : job[v] = c
        BY <1>0, <1>2, <3>2 DEF OneHandler
      <4>2. v # w
        BY <1>0, <1>1, <4>1, EventsAssumption DEF EventsAssumption
      <4> QED BY <1>1, <4>1, <4>2
    <3> QED BY <3>1, <3>2
  <2> QED BY <2>1, <2>2, <2>3 DEF OneHandler
<1>5. TriggersFollow'
  <2>1. \A c \in Events, f \in Workflows : msg'[c].st \in {"none", "ready"} => triggers'[c][f] = 0
    BY <1>0, <1>1, <1>2 DEF TriggersFollow
  <2>2. \A f \in Workflows : triggers[e][f] = 0
    BY <1>0, <1>1 DEF TriggersFollow
  <2>3. \A v \in Workers, f \in Workflows : pc'[v] \notin Publishing \cup {"idle"} =>
            triggers'[job'[v]][f] = 0
    BY <1>0, <1>1, <2>2 DEF TriggersFollow
  <2>4. \A v \in Workers, f \in Workflows : pc'[v] \in Publishing =>
            triggers'[job'[v]][f] = IF f \in todo'[v] THEN 0 ELSE 1
    BY <1>0, <1>1 DEF TriggersFollow, Publishing
  <2>5. \A v \in Workers : pc'[v] = "processed" => todo'[v] = {}
    BY <1>0, <1>1 DEF TriggersFollow
  <2> QED BY <2>1, <2>3, <2>4, <2>5 DEF TriggersFollow
<1>6. ProcessedTriggered'
  BY <1>0, <1>1, <1>2 DEF ProcessedTriggered
<1> QED BY <1>4, <1>5, <1>6 DEF Calm

LEMMA CalmTriggers ==
    ASSUME TypeInv, Calm, NEW w \in Workers, FindTriggers(w) \/ PublishTrigger(w),
           disturbances' = 0
    PROVE  Calm'
<1>0. /\ OneHandler /\ TriggersFollow /\ ProcessedTriggered /\ ~Disturb
      /\ pc \in [Workers -> Labels] /\ todo \in [Workers -> SUBSET Workflows]
      /\ triggers \in [Events -> [Workflows -> Nat]]
      /\ \A v \in Workers : pc[v] # "idle" => job[v] \in Events
  BY StillCalm, InHand DEF Calm, TypeInv, SlotInv, WorkInv, EventType
<1>1. /\ UNCHANGED <<raw, msg, job, attempt>> /\ pc[w] # "idle"
      /\ \E l \in Publishing : pc' = [pc EXCEPT ![w] = l]
  BY DEF FindTriggers, PublishTrigger, GoTo, tables, Publishing
<1>2. OneHandler'
  BY <1>0, <1>1, HandlersStay DEF Publishing
<1>3. CASE FindTriggers(w)
  <2>1. /\ UNCHANGED triggers /\ todo' = [todo EXCEPT ![w] = Workflows]
        /\ pc' = [pc EXCEPT ![w] = IF Workflows = {} THEN "processed" ELSE "trigger"]
        /\ pc[w] \notin Publishing \cup {"idle"}
    BY <1>0, <1>3 DEF FindTriggers, GoTo, Publishing
  <2>2. TriggersFollow'
    BY <1>0, <1>1, <2>1 DEF TriggersFollow, Publishing
  <2>3. ProcessedTriggered'
    BY <1>0, <1>1, <2>1 DEF ProcessedTriggered
  <2> QED BY <1>2, <2>2, <2>3 DEF Calm
<1>4. CASE PublishTrigger(w)
  <2> DEFINE e == job[w]
  <2>1. PICK f \in todo[w] :
           /\ \/ triggers' = [triggers EXCEPT ![e][f] = @ + 1]
              \/ triggers[e][f] > 0 /\ UNCHANGED triggers
           /\ todo' = [todo EXCEPT ![w] = @ \ {f}]
           /\ pc' = [pc EXCEPT ![w] = IF todo[w] = {f} THEN "processed" ELSE "trigger"]
    BY <1>0, <1>4 DEF PublishTrigger, GoTo
  <2>2. pc[w] \in Publishing /\ f \in Workflows /\ e \in Events
    BY <1>0, <1>1, <1>4 DEF PublishTrigger, Publishing
  <2>3. triggers[e][f] = 0
    BY <1>0, <2>2 DEF TriggersFollow
  <2>4. triggers' = [triggers EXCEPT ![e][f] = @ + 1]
    BY <2>1, <2>3
  <2>5. /\ triggers'[e][f] = 1
        /\ \A g \in Workflows : g # f => triggers'[e][g] = triggers[e][g]
        /\ \A c \in Events : c # e => triggers'[c] = triggers[c]
    BY <1>0, <2>2, <2>3, <2>4
  <2>6. \A v \in Workers : v # w /\ pc[v] # "idle" => job[v] # e
    BY <1>0, <1>1 DEF OneHandler
  <2>7. msg[e].st = "out"
    BY <1>0, <1>1 DEF OneHandler
  <2> HIDE DEF e
  <2>8. TriggersFollow'
    <3>1. \A c \in Events, g \in Workflows : msg'[c].st \in {"none", "ready"} => triggers'[c][g] = 0
      BY <1>0, <1>1, <2>5, <2>7 DEF TriggersFollow
    <3>2. \A v \in Workers : v # w => pc'[v] = pc[v] /\ todo'[v] = todo[v]
      BY <1>0, <2>1
    <3>3. \A v \in Workers, g \in Workflows : v # w /\ pc[v] # "idle" =>
             triggers'[job'[v]][g] = triggers[job[v]][g]
      BY <1>0, <1>1, <2>5, <2>6
    <3>4. pc'[w] \in Publishing /\ todo'[w] = todo[w] \ {f} /\ (pc'[w] = "processed" => todo'[w] = {})
      BY <1>0, <2>1 DEF Publishing
    <3>5. \A g \in Workflows : triggers'[e][g] = IF g \in todo'[w] THEN 0 ELSE 1
      <4> SUFFICES ASSUME NEW g \in Workflows
                   PROVE  triggers'[e][g] = IF g \in todo'[w] THEN 0 ELSE 1
        OBVIOUS
      <4>1. CASE g = f
        BY <2>5, <3>4, <4>1
      <4>2. CASE g # f
        BY <1>0, <2>2, <2>5, <3>4, <4>2 DEF TriggersFollow, e
      <4> QED BY <4>1, <4>2
    <3>6. \A v \in Workers, g \in Workflows : pc'[v] \notin Publishing \cup {"idle"} =>
             triggers'[job'[v]][g] = 0
      BY <1>0, <3>2, <3>3, <3>4 DEF TriggersFollow
    <3>7. \A v \in Workers, g \in Workflows : pc'[v] \in Publishing =>
             triggers'[job'[v]][g] = IF g \in todo'[v] THEN 0 ELSE 1
      <4> SUFFICES ASSUME NEW v \in Workers, NEW g \in Workflows, pc'[v] \in Publishing
                   PROVE  triggers'[job'[v]][g] = IF g \in todo'[v] THEN 0 ELSE 1
        OBVIOUS
      <4>1. CASE v = w
        BY <1>1, <3>5, <4>1 DEF e
      <4>2. CASE v # w
        <5>1. pc[v] \in Publishing /\ pc[v] # "idle"
          BY <3>2, <4>2 DEF Publishing
        <5> QED BY <1>0, <3>2, <3>3, <4>2, <5>1 DEF TriggersFollow
      <4> QED BY <4>1, <4>2
    <3>8. \A v \in Workers : pc'[v] = "processed" => todo'[v] = {}
      BY <1>0, <3>2, <3>4 DEF TriggersFollow
    <3> QED BY <3>1, <3>6, <3>7, <3>8 DEF TriggersFollow
  <2>9. ProcessedTriggered'
    BY <1>0, <1>1, <2>5, <2>7 DEF ProcessedTriggered
  <2> QED BY <1>2, <2>8, <2>9 DEF Calm
<1> QED BY <1>3, <1>4

LEMMA CalmHandler ==
    ASSUME TypeInv, Calm, NEW w \in Workers, HandlerStep(w), disturbances' = 0
    PROVE  Calm'
<1>0. ~Disturb /\ pc[w] # "idle" /\ raw \in [Events -> Statuses \cup {Absent}]
  BY StillCalm, HandlerMoves DEF TypeInv, EventType
<1>1. CASE CheckStatus(w)
  <2>1. CASE msg' = Settle(msg, job[w]) /\ Forget(w)
    BY <1>0, <1>1, <2>1, CalmReturn DEF CheckStatus, tables
  <2>2. CASE GoTo(w, "mark") /\ UNCHANGED <<msg, local>>
    BY <1>0, <1>1, <2>2, CalmGoTo DEF CheckStatus, tables, local, Publishing, Labels
  <2> QED BY <1>0, <1>1, <2>1, <2>2 DEF CheckStatus
<1>2. CASE MarkProcessing(w)
  <2>1. /\ GoTo(w, IF Stitches(ev[job[w]]) THEN "upsert" ELSE "find")
        /\ UNCHANGED <<msg, triggers, todo>> /\ pc[w] = "mark"
        /\ raw' \in {raw, [raw EXCEPT ![job[w]] = "processing"]}
    BY <1>0, <1>2 DEF MarkProcessing, local
  <2>2. \A e \in Events : raw'[e] = "processed" => raw[e] = "processed"
    BY <1>0, <2>1
  <2>3. (IF Stitches(ev[job[w]]) THEN "upsert" ELSE "find") \in Labels \ (Publishing \cup {"idle"})
    BY DEF Labels, Publishing
  <2>4. pc[w] \notin Publishing \cup {"idle"}
    BY <2>1 DEF Publishing
  <2> QED BY <2>1, <2>2, <2>3, <2>4, CalmGoTo
<1>3. CASE FindContact(w) \/ UpsertContact(w) \/ LinkAnonymous(w) \/ PersistEnriched(w)
  <2>1. UNCHANGED <<raw, triggers>> /\ pc[w] \notin Publishing \cup {"idle"}
    BY <1>3 DEF FindContact, UpsertContact, LinkAnonymous, PersistEnriched, tables, Publishing
  <2>2. CASE Transient(w)
    BY <2>1, <2>2, CalmTransient
  <2>3. CASE \E l \in {"upsert", "link", "persist", "rules"} : GoTo(w, l) /\ UNCHANGED <<msg, todo>>
    BY <2>1, <2>3, CalmGoTo DEF Publishing, Labels
  <2> QED BY <1>0, <1>3, <2>2, <2>3
          DEF FindContact, UpsertContact, LinkAnonymous, PersistEnriched, local
<1>4. CASE MarkProcessed(w) \/ MarkFailed(w)
  <2>1. Forget(w) /\ UNCHANGED triggers /\ msg' = Settle(msg, job[w])
    BY <1>0, <1>4 DEF MarkProcessed, MarkFailed
  <2>2. \/ raw' \in {raw, [raw EXCEPT ![job[w]] = "failed"]}
        \/ pc[w] = "processed" /\ raw' = [raw EXCEPT ![job[w]] = "processed"]
    BY <1>0, <1>4 DEF MarkProcessed, MarkFailed
  <2>3. \A e \in Events : raw'[e] = "processed" =>
           raw[e] = "processed" \/ (e = job[w] /\ pc[w] = "processed" /\ msg' = Settle(msg, job[w]))
    BY <1>0, <2>1, <2>2
  <2> QED BY <1>0, <2>1, <2>3, CalmReturn
<1>5. ~Crash(w)
  BY <1>0 DEF Crash
<1> QED BY <1>1, <1>2, <1>3, <1>4, <1>5, CalmTriggers DEF HandlerStep

LEMMA NextCalm ==
    TypeInv /\ PublishedOnce /\ (disturbances = 0 => Calm) /\ [Next]_vars
        => (disturbances' = 0 => Calm')
<1> SUFFICES ASSUME TypeInv, PublishedOnce, disturbances = 0 => Calm, [Next]_vars,
                    disturbances' = 0
             PROVE  Calm'
  OBVIOUS
<1>0. ~Disturb /\ disturbances = 0 /\ Calm
  <2>1. disturbances' \in {disturbances, disturbances + 1} /\ disturbances \in Nat
    <3>1. CASE UNCHANGED vars
      BY <3>1, EventsAssumption DEF vars, EventsAssumption, TypeInv, SeenType
    <3>2. Disturb \/ Undisturbed => disturbances' \in {disturbances, disturbances + 1}
      BY DEF Disturb, Undisturbed
    <3>3. ASSUME NEW e \in Events, Ingest(e) \/ ExpireAckWait(e) PROVE Disturb \/ Undisturbed
      BY <3>3 DEF Ingest, ExpireAckWait, InsertEvent, PublishEvent, RecordUsage, RollBack, Undisturbed
    <3>4. ASSUME NEW w \in Workers, WorkerStep(w) \/ Crash(w) PROVE Disturb \/ Undisturbed
      BY <3>4 DEF WorkerStep, Crash, Receive, CheckStatus, MarkProcessing, FindContact,
                  UpsertContact, LinkAnonymous, PersistEnriched, FindTriggers, PublishTrigger,
                  MarkProcessed, MarkFailed, Undisturbed
    <3> QED BY <3>1, <3>2, <3>3, <3>4, EventsAssumption DEF Next, EventsAssumption, TypeInv, SeenType
  <2> QED BY <2>1, StillCalm
<1>1. ASSUME NEW e \in Events, Ingest(e) PROVE Calm'
  BY <1>0, <1>1, CalmIngest
<1>2. ASSUME NEW e \in Events, ExpireAckWait(e) PROVE Calm'
  BY <1>0, <1>2 DEF ExpireAckWait, CanRedeliver, Calm, OneHandler
<1>3. ASSUME NEW w \in Workers, NEW e \in Events, Receive(w, e) PROVE Calm'
  BY <1>0, <1>3, CalmReceive
<1>4. ASSUME NEW w \in Workers, HandlerStep(w) PROVE Calm'
  BY <1>0, <1>4, CalmHandler
<1>5. CASE UNCHANGED vars
  BY <1>0, <1>5 DEF vars, Calm, OneHandler, TriggersFollow, ProcessedTriggered
<1> QED BY <1>1, <1>2, <1>3, <1>4, <1>5 DEF Next, WorkerStep, HandlerStep

LEMMA InitCarriedInv == Init => CarriedInv
<1> SUFFICES ASSUME Init PROVE CarriedInv
  OBVIOUS
<1> USE EventsAssumption DEF EventsAssumption, Init
<1>1. PublishedOnce
  BY DEF PublishedOnce
<1>2. EnrichedFirst
  BY DEF EnrichedFirst
<1>3. OneHandler
  BY DEF OneHandler
<1>4. TriggersFollow /\ ProcessedTriggered
  BY DEF TriggersFollow, ProcessedTriggered, Publishing
<1> QED BY <1>1, <1>2, <1>3, <1>4, InitTypeInv DEF CarriedInv, Calm

LEMMA NextCarriedInv == CarriedInv /\ [Next]_vars => CarriedInv'
BY NextTypeInv, NextPublishedOnce, NextEnrichedFirst, NextCalm DEF CarriedInv

\* Whatever fails, is redelivered or rolled back, a raw event that says processed
\* has its enriched row, and with nothing disturbed its triggers were published
\* exactly once each.
THEOREM ProcessedCarriedOut == Spec => []ProcessedWasCarriedOut
<1>1. CarriedInv => ProcessedWasCarriedOut
  BY DEF CarriedInv, EnrichedFirst, Calm, ProcessedTriggered, ProcessedWasCarriedOut
<1> QED BY <1>1, InitCarriedInv, NextCarriedInv, PTL DEF Spec
=============================================================================
