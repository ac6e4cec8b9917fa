---------------------------- MODULE CampaignSend ----------------------------
(***************************************************************************)
(* The campaign send pipeline of the Go workers, for one campaign:         *)
(*                                                                         *)
(*   scheduler --start msg--> start handler --chunk msgs--> chunk handler  *)
(*                                                                         *)
(* The start handler pages through the segment, inserts one recipient row  *)
(* per contact and publishes one chunk message per page; the chunk handler *)
(* sends the recipients of a chunk through SES one by one and adds the     *)
(* outcomes to the campaign row.  Each action is one step that other       *)
(* processes can observe: one SQL statement, one SES call, one publish or  *)
(* one Ack/Nak/Term.  A process may crash between any two of them.         *)
(***************************************************************************)
EXTENDS CampaignRow, WorkQueue, Integers, FiniteSets, Functions

CONSTANTS
    NumContacts,     \* contacts of the workspace, 1..NumContacts in id order
    ChunkSize,       \* page size of the batcher (CampaignChunkSize)
    Starters,        \* slots for deliveries of campaign.send.start
    Workers,         \* slots for deliveries of campaign.send.chunk
    MaxStarts,       \* bound: start messages published for the campaign
    SendOutcomes,    \* what a send attempt can meet, a subset of AllOutcomes
    MaxDisturbances, \* bound: infrastructure disturbances (see Disturb)
    MaxChanges       \* bound: changes of the segment's membership

AllOutcomes == {"accepted", "permanent", "transient", "denied"}

ASSUME ConstantsAssumption ==
    /\ NumContacts \in Nat
    /\ ChunkSize \in Nat \ {0}
    /\ MaxAttempts \in Nat \ {0}
    /\ MaxStarts \in Nat \ {0}
    /\ SendOutcomes \subseteq AllOutcomes
    /\ MaxDisturbances \in Nat
    /\ MaxChanges \in Nat

Contacts   == 1..NumContacts
StartIds   == 1..MaxStarts
ChunkIdx   == 0..NumContacts
\* A chunk can be stored again only after its dedup entry expired.
ChunkMsgs  == ChunkIdx \X (1..(MaxDisturbances + 1))
NoMsg      == <<-1, 0>>
NoStart    == 0

RecipientStatus == {"absent", "queued", "sending", "sent", "failed"}

VARIABLES
    \* PostgreSQL
    segment,     \* contacts that match the segment and may be mailed
    campaign,    \* the campaigns row
    recipient,   \* status of each contact's campaign_recipients row
    \* JetStream, stream CAMPAIGN
    startMsg,    \* start messages: state and number of deliveries
    chunkMsg,    \* chunk messages: state and number of deliveries
    payload,     \* recipients carried by each stored chunk message
    dedup,       \* chunk ids inside the stream's duplicate window
    dlq,         \* chunk ids published on campaign.send.dlq
    \* campaign scheduler
    firing,      \* a claimed campaign whose start message is not yet published
    \* start handler, per delivery slot
    spc, sjob, afterID, chunkIdx, total, batch,
    \* chunk handler, per delivery slot
    pc, job, attempt, todo, sent, failed, transient,
    \* observation
    accepted,    \* per contact, messages SES accepted for this campaign
    disturbances, changes

store  == <<segment, campaign, recipient>>
stream == <<startMsg, chunkMsg, payload, dedup, dlq>>
startHandler == <<spc, sjob, afterID, chunkIdx, total, batch>>
chunkHandler == <<pc, job, attempt, todo, sent, failed, transient>>
history == <<accepted, disturbances, changes>>
vars == <<segment, campaign, recipient, startMsg, chunkMsg, payload, dedup, dlq,
          firing, spc, sjob, afterID, chunkIdx, total, batch,
          pc, job, attempt, todo, sent, failed, transient,
          accepted, disturbances, changes>>

-----------------------------------------------------------------------------
(* Infrastructure disturbances: a statement or publish that fails, a crash, *)
(* an AckWait that expires under a live handler, a dedup entry that expires.*)
Disturb == /\ disturbances < MaxDisturbances
           /\ disturbances' = disturbances + 1
Undisturbed == UNCHANGED disturbances

IsFirst(r, S) == r \in S /\ \A q \in S : r <= q
IsLast(r, S)  == r \in S /\ \A q \in S : q <= r

StoreType ==
    /\ segment \in SUBSET Contacts
    /\ campaign \in CampaignRows
    /\ recipient \in [Contacts -> RecipientStatus]

StreamType ==
    /\ startMsg \in [StartIds -> Messages]
    /\ chunkMsg \in [ChunkMsgs -> Messages]
    /\ payload \in [ChunkMsgs -> SUBSET Contacts]
    /\ dedup \in SUBSET ChunkIdx
    /\ dlq \in SUBSET ChunkIdx
    /\ firing \in BOOLEAN

StartLabels == {"idle", "status", "page", "publish", "finish", "ack"}

StartHandlerType ==
    /\ spc \in [Starters -> StartLabels]
    /\ sjob \in [Starters -> StartIds \cup {NoStart}]
    /\ afterID \in [Starters -> 0..NumContacts]
    /\ chunkIdx \in [Starters -> ChunkIdx]
    /\ total \in [Starters -> Nat]
    /\ batch \in [Starters -> SUBSET Contacts]

ChunkLabels == {"idle", "check", "mark", "ses", "markSent", "markFailed", "count",
                "complete", "settle", "giveUp", "finalCount", "finalComplete", "dlq"}

ChunkHandlerType ==
    /\ pc \in [Workers -> ChunkLabels]
    /\ job \in [Workers -> ChunkMsgs \cup {NoMsg}]
    /\ attempt \in [Workers -> 0..MaxAttempts]
    /\ todo \in [Workers -> SUBSET Contacts]
    /\ sent \in [Workers -> Nat]
    /\ failed \in [Workers -> Nat]
    /\ transient \in [Workers -> SUBSET Contacts]

HistoryType ==
    /\ accepted \in [Contacts -> Nat]
    /\ disturbances \in 0..MaxDisturbances
    /\ changes \in 0..MaxChanges

TypeOK ==
    /\ StoreType /\ StreamType /\ StartHandlerType /\ ChunkHandlerType /\ HistoryType

(* The campaign has just been handed over: either the API set it to sending *)
(* and published a start message, or it is scheduled and its time has come. *)
Init ==
    /\ segment \in SUBSET Contacts
    /\ \/ /\ campaign = FreshCampaign("sending", TRUE)
          /\ startMsg = [m \in StartIds |->
                [st |-> IF m = 1 THEN "ready" ELSE "none", n |-> 0]]
       \/ /\ campaign = FreshCampaign("scheduled", FALSE)
          /\ startMsg = [m \in StartIds |-> [st |-> "none", n |-> 0]]
    /\ recipient = [r \in Contacts |-> "absent"]
    /\ chunkMsg = [m \in ChunkMsgs |-> [st |-> "none", n |-> 0]]
    /\ payload = [m \in ChunkMsgs |-> {}]
    /\ dedup = {} /\ dlq = {}
    /\ firing = FALSE
    /\ spc = [s \in Starters |-> "idle"]
    /\ sjob = [s \in Starters |-> NoStart]
    /\ afterID = [s \in Starters |-> 0]
    /\ chunkIdx = [s \in Starters |-> 0]
    /\ total = [s \in Starters |-> 0]
    /\ batch = [s \in Starters |-> {}]
    /\ pc = [w \in Workers |-> "idle"]
    /\ job = [w \in Workers |-> NoMsg]
    /\ attempt = [w \in Workers |-> 0]
    /\ todo = [w \in Workers |-> {}]
    /\ sent = [w \in Workers |-> 0]
    /\ failed = [w \in Workers |-> 0]
    /\ transient = [w \in Workers |-> {}]
    /\ accepted = [r \in Contacts |-> 0]
    /\ disturbances = 0 /\ changes = 0

-----------------------------------------------------------------------------
(* The campaign scheduler.                                                  *)

\* poll: claims the due campaign in one statement.  (The WHERE clause sees
\* the row the UPDATE locks, so two replicas cannot both claim it.)
SchedulerPoll ==
    /\ ~firing /\ IsDue(campaign)
    /\ campaign' = ClaimDueCampaign(campaign)
    /\ firing' = TRUE
    /\ UNCHANGED <<segment, recipient, stream, startHandler, chunkHandler, history>>

\* fire: publishes the start message; a publish error is only logged.
SchedulerFire ==
    /\ firing
    /\ firing' = FALSE
    /\ \/ /\ Undisturbed
          /\ \E m \in StartIds : /\ startMsg[m].st = "none"
                                 /\ startMsg' = NewMsg(startMsg, m)
       \/ Disturb /\ UNCHANGED startMsg
    /\ UNCHANGED <<store, chunkMsg, payload, dedup, dlq, startHandler,
                   chunkHandler, accepted, changes>>

-----------------------------------------------------------------------------
(* The start handler (CampaignStartHandler.Handle and StreamAndChunk).      *)

ReceiveStart(s, m) ==
    /\ spc[s] = "idle" /\ startMsg[m].st = "ready"
    /\ startMsg' = Deliver(startMsg, m)
    /\ spc' = [spc EXCEPT ![s] = "status"]
    /\ sjob' = [sjob EXCEPT ![s] = m]
    /\ UNCHANGED <<store, chunkMsg, payload, dedup, dlq, firing, afterID,
                   chunkIdx, total, batch, chunkHandler, history>>

\* The handler returns: locals are dropped.
StartIdle(s) ==
    /\ spc' = [spc EXCEPT ![s] = "idle"]
    /\ sjob' = [sjob EXCEPT ![s] = NoStart]
    /\ afterID' = [afterID EXCEPT ![s] = 0]
    /\ chunkIdx' = [chunkIdx EXCEPT ![s] = 0]
    /\ total' = [total EXCEPT ![s] = 0]
    /\ batch' = [batch EXCEPT ![s] = {}]

NakStart(s) ==
    /\ StartIdle(s)
    /\ startMsg' = Requeue(startMsg, sjob[s])

AckStart(s) ==
    /\ spc[s] = "ack"
    /\ StartIdle(s)
    /\ startMsg' = Settle(startMsg, sjob[s])
    /\ UNCHANGED <<store, chunkMsg, payload, dedup, dlq, firing, chunkHandler, history>>

\* A failed statement or publish anywhere in the handler: Nak.
StartError(s) ==
    /\ spc[s] \in {"status", "page", "publish", "finish"}
    /\ Disturb
    /\ NakStart(s)
    /\ UNCHANGED <<store, chunkMsg, payload, dedup, dlq, firing, chunkHandler,
                   accepted, changes>>

\* Only 'completed' and 'failed' stop the handler; any other status goes on.
StartStatus(s) ==
    /\ spc[s] = "status"
    /\ spc' = [spc EXCEPT ![s] =
            IF campaign.status \in {"completed", "failed"} THEN "ack" ELSE "page"]
    /\ UNCHANGED <<store, stream, firing, sjob, afterID, chunkIdx, total, batch,
                   chunkHandler, history>>

\* FetchSegmentContactsBatch: the first ChunkSize members after afterID.
Page(after) ==
    LET rest == {c \in segment : c > after}
    IN  {c \in rest : Cardinality({d \in rest : d < c}) < ChunkSize}

\* Fetch one page and insert its recipient rows (existing rows are kept).
InsertPage(s) ==
    /\ spc[s] = "page"
    /\ batch' = [batch EXCEPT ![s] = Page(afterID[s])]
    /\ recipient' = [r \in Contacts |->
            IF r \in Page(afterID[s]) /\ recipient[r] = "absent" THEN "queued"
            ELSE recipient[r]]
    /\ spc' = [spc EXCEPT ![s] = IF Page(afterID[s]) = {} THEN "finish" ELSE "publish"]
    /\ UNCHANGED <<segment, campaign, stream, firing, sjob, afterID, chunkIdx,
                   total, chunkHandler, history>>

\* JetStream keeps a chunk whose id is outside the duplicate window and drops
\* one whose id is inside it; both are a successful publish.
StoreChunk(k, members) ==
    IF k \in dedup THEN UNCHANGED <<chunkMsg, payload, dedup>>
    ELSE \E m \in ChunkMsgs :
            /\ m[1] = k
            /\ chunkMsg[m].st = "none"
            /\ \A g \in 1..(m[2] - 1) : chunkMsg[<<k, g>>].st # "none"
            /\ chunkMsg' = NewMsg(chunkMsg, m)
            /\ payload' = [payload EXCEPT ![m] = members]
            /\ dedup' = dedup \cup {k}

\* Faulty variant: a publish error is logged and the pass goes on.
PublishChunk_IgnoreError(s) ==
    /\ spc[s] = "publish"
    /\ \/ Undisturbed /\ StoreChunk(chunkIdx[s], batch[s])
       \/ Disturb /\ UNCHANGED <<chunkMsg, payload, dedup>>
    /\ \E last \in batch[s] :
          /\ IsLast(last, batch[s])
          /\ afterID' = [afterID EXCEPT ![s] = last]
    /\ total' = [total EXCEPT ![s] = @ + Cardinality(batch[s])]
    /\ chunkIdx' = [chunkIdx EXCEPT ![s] = @ + 1]
    /\ spc' = [spc EXCEPT ![s] =
          IF Cardinality(batch[s]) < ChunkSize THEN "finish" ELSE "page"]
    /\ batch' = [batch EXCEPT ![s] = {}]
    /\ UNCHANGED <<sjob, startMsg, store, dlq, firing, chunkHandler, accepted, changes>>

PublishChunk(s) ==
    /\ spc[s] = "publish"
    /\ StoreChunk(chunkIdx[s], batch[s])
    /\ \/ /\ Undisturbed
          /\ \E last \in batch[s] :
                /\ IsLast(last, batch[s])
                /\ afterID' = [afterID EXCEPT ![s] = last]
          /\ total' = [total EXCEPT ![s] = @ + Cardinality(batch[s])]
          /\ chunkIdx' = [chunkIdx EXCEPT ![s] = @ + 1]
          /\ spc' = [spc EXCEPT ![s] =
                IF Cardinality(batch[s]) < ChunkSize THEN "finish" ELSE "page"]
          /\ batch' = [batch EXCEPT ![s] = {}]
          /\ UNCHANGED <<sjob, startMsg>>
       \* stored, but the publish acknowledgement is lost
       \/ Disturb /\ NakStart(s)
    /\ UNCHANGED <<store, dlq, firing, chunkHandler, accepted, changes>>

\* Only now does the campaign row learn how many recipients there are.
FinishStart(s) ==
    /\ spc[s] = "finish"
    /\ campaign' = IF total[s] = 0 THEN MarkCampaignCompleteEmpty(campaign)
                   ELSE UpdateCampaignStarted(campaign, total[s])
    /\ spc' = [spc EXCEPT ![s] = "ack"]
    /\ UNCHANGED <<segment, recipient, stream, firing, sjob, afterID, chunkIdx,
                   total, batch, chunkHandler, history>>

CrashStart(s) ==
    /\ spc[s] # "idle"
    /\ Disturb
    /\ StartIdle(s)
    /\ UNCHANGED <<store, stream, firing, chunkHandler, accepted, changes>>

-----------------------------------------------------------------------------
(* The chunk handler (CampaignChunkHandler.Handle and processRecipient).    *)

ReceiveChunk(w, m) ==
    /\ pc[w] = "idle" /\ chunkMsg[m].st = "ready"
    /\ chunkMsg' = Deliver(chunkMsg, m)
    /\ pc' = [pc EXCEPT ![w] = "check"]
    /\ job' = [job EXCEPT ![w] = m]
    /\ attempt' = [attempt EXCEPT ![w] = chunkMsg[m].n + 1]
    /\ todo' = [todo EXCEPT ![w] = payload[m]]
    /\ UNCHANGED <<store, startMsg, payload, dedup, dlq, firing, startHandler,
                   sent, failed, transient, history>>

\* The handler returns: locals are dropped.
ChunkIdle(w) ==
    /\ pc' = [pc EXCEPT ![w] = "idle"]
    /\ job' = [job EXCEPT ![w] = NoMsg]
    /\ attempt' = [attempt EXCEPT ![w] = 0]
    /\ todo' = [todo EXCEPT ![w] = {}]
    /\ sent' = [sent EXCEPT ![w] = 0]
    /\ failed' = [failed EXCEPT ![w] = 0]
    /\ transient' = [transient EXCEPT ![w] = {}]

NakChunk(w) ==
    /\ ChunkIdle(w)
    /\ chunkMsg' = Requeue(chunkMsg, job[w])

\* Ack or Term: the message leaves the work queue, even when the delivery
\* that settles it is not the latest one.
SettleChunk(w) ==
    /\ ChunkIdle(w)
    /\ chunkMsg' = Settle(chunkMsg, job[w])

GoTo(w, label) == pc' = [pc EXCEPT ![w] = label]

\* The loop moves on to the next recipient.
Next1(w, r) ==
    /\ todo' = [todo EXCEPT ![w] = @ \ {r}]
    /\ GoTo(w, "check")

\* r joins transientRecipients.
Transient(w, r) ==
    /\ Next1(w, r)
    /\ transient' = [transient EXCEPT ![w] = @ \cup {r}]

\* Faulty variant: the status is not looked at.
Check_NoStatus(w, r) ==
    /\ pc[w] = "check" /\ IsFirst(r, todo[w])
    /\ GoTo(w, "mark")
    /\ UNCHANGED <<store, stream, firing, startHandler, job, attempt, todo, sent,
                   failed, transient, history>>

\* Status read and rate limiter.  Only a row that says 'sent' is a duplicate.
Check(w, r) ==
    /\ pc[w] = "check" /\ IsFirst(r, todo[w])
    /\ \/ /\ Undisturbed /\ recipient[r] = "sent"
          /\ Next1(w, r)
          /\ UNCHANGED transient
       \/ /\ Undisturbed /\ recipient[r] # "sent"
          /\ GoTo(w, "mark")
          /\ UNCHANGED <<todo, transient>>
       \/ /\ Undisturbed /\ recipient[r] # "sent" /\ "denied" \in SendOutcomes
          /\ Transient(w, r)
       \/ Disturb /\ Transient(w, r)
    /\ UNCHANGED <<store, stream, firing, startHandler, job, attempt, sent, failed,
                   accepted, changes>>

\* MarkCampaignRecipientSending: the number of affected rows is not looked at.
MarkSending(w, r) ==
    /\ pc[w] = "mark" /\ IsFirst(r, todo[w])
    /\ \/ /\ Undisturbed
          /\ recipient' = [recipient EXCEPT ![r] =
                IF @ \in {"queued", "failed", "sending"} THEN "sending" ELSE @]
          /\ GoTo(w, "ses")
          /\ UNCHANGED <<todo, transient>>
       \/ /\ Disturb
          /\ Transient(w, r)
          /\ UNCHANGED recipient
    /\ UNCHANGED <<segment, campaign, stream, firing, startHandler, job, attempt,
                   sent, failed, accepted, changes>>

\* Faulty variant: a transient SES error is taken for a success.
SendEmail_TransientIsSuccess(w, r) ==
    /\ pc[w] = "ses" /\ IsFirst(r, todo[w])
    /\ GoTo(w, "markSent")
    /\ \/ accepted' = [accepted EXCEPT ![r] = @ + 1]
       \/ UNCHANGED accepted
    /\ UNCHANGED <<store, stream, firing, startHandler, job, attempt, todo, sent,
                   failed, transient, disturbances, changes>>

\* The SES call and the classification of its error.  An answer that is lost
\* is a transient error, although SES has the message.
SendEmail(w, r) ==
    /\ pc[w] = "ses" /\ IsFirst(r, todo[w])
    /\ \/ /\ Undisturbed /\ "accepted" \in SendOutcomes
          /\ accepted' = [accepted EXCEPT ![r] = @ + 1]
          /\ GoTo(w, "markSent")
          /\ UNCHANGED <<todo, transient>>
       \/ /\ Undisturbed /\ "permanent" \in SendOutcomes
          /\ GoTo(w, "markFailed")
          /\ UNCHANGED <<todo, transient, accepted>>
       \/ /\ Undisturbed /\ "transient" \in SendOutcomes
          /\ Transient(w, r)
          /\ UNCHANGED accepted
       \/ /\ Disturb /\ "accepted" \in SendOutcomes
          /\ accepted' = [accepted EXCEPT ![r] = @ + 1]
          /\ Transient(w, r)
    /\ UNCHANGED <<store, stream, firing, startHandler, job, attempt, sent, failed, changes>>

\* MarkCampaignRecipientSent; a lost write is only logged, the send counts.
MarkSent(w, r) ==
    /\ pc[w] = "markSent" /\ IsFirst(r, todo[w])
    /\ \/ /\ Undisturbed
          /\ recipient' = [recipient EXCEPT ![r] = "sent"]
       \/ Disturb /\ UNCHANGED recipient
    /\ sent' = [sent EXCEPT ![w] = @ + 1]
    /\ Next1(w, r)
    /\ UNCHANGED <<segment, campaign, stream, firing, startHandler, job, attempt,
                   failed, transient, accepted, changes>>

\* Faulty variant: no status NOT IN ('sent', 'bounced').
FailRecipient_Always(r) == recipient' = [recipient EXCEPT ![r] = "failed"]

FailRecipient(r) ==
    recipient' = [recipient EXCEPT ![r] = IF @ = "sent" THEN @ ELSE "failed"]

\* MarkCampaignRecipientFailed after a permanent error; a lost write is logged.
MarkFailed(w, r) ==
    /\ pc[w] = "markFailed" /\ IsFirst(r, todo[w])
    /\ \/ Undisturbed /\ FailRecipient(r)
       \/ Disturb /\ UNCHANGED recipient
    /\ failed' = [failed EXCEPT ![w] = @ + 1]
    /\ Next1(w, r)
    /\ UNCHANGED <<segment, campaign, stream, firing, startHandler, job, attempt,
                   sent, transient, accepted, changes>>

\* After the loop: only fresh outcomes are added to the campaign row.
LoopDone(w) ==
    /\ pc[w] = "check" /\ todo[w] = {}
    /\ GoTo(w, IF sent[w] > 0 \/ failed[w] > 0 THEN "count" ELSE "settle")
    /\ UNCHANGED <<store, stream, firing, startHandler, job, attempt, todo, sent,
                   failed, transient, history>>

\* IncrementCampaignCounts; on an error the chunk is naked and the outcomes of
\* this delivery are forgotten.
Count(w) ==
    /\ pc[w] = "count"
    /\ \/ /\ Undisturbed
          /\ campaign' = IncrementCampaignCounts(campaign, sent[w], failed[w])
          /\ GoTo(w, IF CountsReachedTotal(campaign') THEN "complete" ELSE "settle")
          /\ sent' = [sent EXCEPT ![w] = 0]
          /\ failed' = [failed EXCEPT ![w] = 0]
          /\ UNCHANGED <<chunkMsg, job, attempt, todo, transient>>
       \/ /\ Disturb
          /\ NakChunk(w)
          /\ UNCHANGED campaign
    /\ UNCHANGED <<segment, recipient, startMsg, payload, dedup, dlq, firing,
                   startHandler, accepted, changes>>

\* MarkCampaignComplete; an error is only logged.
Complete(w) ==
    /\ pc[w] = "complete"
    /\ \/ Undisturbed /\ campaign' = MarkCampaignComplete(campaign)
       \/ Disturb /\ UNCHANGED campaign
    /\ GoTo(w, "settle")
    /\ UNCHANGED <<segment, recipient, stream, firing, startHandler, job, attempt,
                   todo, sent, failed, transient, accepted, changes>>

\* No transient recipient left: Ack.
AckChunk(w) ==
    /\ pc[w] = "settle" /\ transient[w] = {}
    /\ SettleChunk(w)
    /\ UNCHANGED <<store, startMsg, payload, dedup, dlq, firing, startHandler, history>>

\* Faulty variant: the chunk is acknowledged with recipients left to retry.
RetryChunk_Ack(w) ==
    /\ pc[w] = "settle" /\ transient[w] # {} /\ attempt[w] < MaxAttempts
    /\ SettleChunk(w)
    /\ UNCHANGED <<store, startMsg, payload, dedup, dlq, firing, startHandler, history>>

\* Some are left and the delivery is not the last: Nak.
RetryChunk(w) ==
    /\ pc[w] = "settle" /\ transient[w] # {} /\ attempt[w] < MaxAttempts
    /\ NakChunk(w)
    /\ UNCHANGED <<store, startMsg, payload, dedup, dlq, firing, startHandler, history>>

\* Some are left on the last delivery: they are failed one by one; a lost
\* write leaves the recipient out of the final count.
GiveUp(w, r) ==
    /\ \/ pc[w] = "settle" /\ attempt[w] >= MaxAttempts
       \/ pc[w] = "giveUp"
    /\ IsFirst(r, transient[w])
    /\ transient' = [transient EXCEPT ![w] = @ \ {r}]
    /\ \/ /\ Undisturbed
          /\ FailRecipient(r)
          /\ failed' = [failed EXCEPT ![w] = @ + 1]
       \/ Disturb /\ UNCHANGED <<recipient, failed>>
    /\ GoTo(w, IF transient'[w] # {} THEN "giveUp"
               ELSE IF failed'[w] > 0 THEN "finalCount" ELSE "dlq")
    /\ UNCHANGED <<segment, campaign, stream, firing, startHandler, job, attempt,
                   todo, sent, accepted, changes>>

\* The final increment; an error is only logged.
FinalCount(w) ==
    /\ pc[w] = "finalCount"
    /\ \/ /\ Undisturbed
          /\ campaign' = IncrementCampaignCounts(campaign, 0, failed[w])
       \/ Disturb /\ UNCHANGED campaign
    /\ GoTo(w, "finalComplete")
    /\ UNCHANGED <<segment, recipient, stream, firing, startHandler, job, attempt,
                   todo, sent, failed, transient, accepted, changes>>

\* MarkCampaignComplete again; its error is discarded.
FinalComplete(w) ==
    /\ pc[w] = "finalComplete"
    /\ \/ Undisturbed /\ campaign' = MarkCampaignComplete(campaign)
       \/ Disturb /\ UNCHANGED campaign
    /\ GoTo(w, "dlq")
    /\ UNCHANGED <<segment, recipient, stream, firing, startHandler, job, attempt,
                   todo, sent, failed, transient, accepted, changes>>

\* publishCampaignDLQ (an error is only logged), then Term.
DeadLetter(w) ==
    /\ pc[w] = "dlq"
    /\ \/ Undisturbed /\ dlq' = dlq \cup {job[w][1]}
       \/ Disturb /\ UNCHANGED dlq
    /\ SettleChunk(w)
    /\ UNCHANGED <<store, startMsg, payload, dedup, firing, startHandler,
                   accepted, changes>>

\* The handler's context times out while recipients are left: every later
\* statement fails.  Fresh outcomes make the increment fail, hence Nak; without
\* any, the last delivery is terminated with nothing marked or dead-lettered.
ContextExpired(w) ==
    /\ pc[w] \in {"check", "mark", "ses", "markSent", "markFailed"}
    /\ todo[w] # {}
    /\ Disturb
    /\ IF \/ pc[w] \in {"markSent", "markFailed"} \/ sent[w] > 0 \/ failed[w] > 0
          \/ attempt[w] < MaxAttempts
       THEN NakChunk(w) ELSE SettleChunk(w)
    /\ UNCHANGED <<store, startMsg, payload, dedup, dlq, firing, startHandler,
                   accepted, changes>>

CrashChunk(w) ==
    /\ pc[w] # "idle"
    /\ Disturb
    /\ ChunkIdle(w)
    /\ UNCHANGED <<store, stream, firing, startHandler, accepted, changes>>

-----------------------------------------------------------------------------
(* The environment: JetStream timers and the segment.                       *)

\* AckWait (or the BackOff entry that overrides it) expires.  Under a live
\* handler it is a disturbance, after a crash it is the recovery.
HeldStart(m) == \E s \in Starters : sjob[s] = m
HeldChunk(m) == \E w \in Workers : job[w] = m

ExpireStart(m) ==
    /\ CanRedeliver(startMsg, m)
    /\ startMsg' = Requeue(startMsg, m)
    /\ IF HeldStart(m) THEN Disturb ELSE Undisturbed
    /\ UNCHANGED <<store, chunkMsg, payload, dedup, dlq, firing, startHandler,
                   chunkHandler, accepted, changes>>

ExpireChunk(m) ==
    /\ CanRedeliver(chunkMsg, m)
    /\ chunkMsg' = Requeue(chunkMsg, m)
    /\ IF HeldChunk(m) THEN Disturb ELSE Undisturbed
    /\ UNCHANGED <<store, startMsg, payload, dedup, dlq, firing, startHandler,
                   chunkHandler, accepted, changes>>

\* The duplicate window (30 minutes) of a chunk id ends.
ExpireDedup(k) ==
    /\ k \in dedup
    /\ Disturb
    /\ dedup' = dedup \ {k}
    /\ UNCHANGED <<store, startMsg, chunkMsg, payload, dlq, firing, startHandler,
                   chunkHandler, accepted, changes>>

\* A contact joins or leaves the segment, or is suppressed or restored.
SegmentChange(c) ==
    /\ changes < MaxChanges
    /\ changes' = changes + 1
    /\ segment' = IF c \in segment THEN segment \ {c} ELSE segment \cup {c}
    /\ UNCHANGED <<campaign, recipient, stream, firing, startHandler, chunkHandler,
                   accepted, disturbances>>

-----------------------------------------------------------------------------
Scheduler == SchedulerPoll \/ SchedulerFire

StartStep(s) ==
    \/ \E m \in StartIds : ReceiveStart(s, m)
    \/ StartStatus(s) \/ InsertPage(s) \/ PublishChunk(s) \/ FinishStart(s)
    \/ AckStart(s) \/ StartError(s)

RecipientStep(w, r) ==
    \/ Check(w, r) \/ MarkSending(w, r) \/ SendEmail(w, r) \/ MarkSent(w, r)
    \/ MarkFailed(w, r) \/ GiveUp(w, r)

ChunkStep(w) ==
    \/ \E m \in ChunkMsgs : ReceiveChunk(w, m)
    \/ \E r \in Contacts : RecipientStep(w, r)
    \/ LoopDone(w) \/ Count(w) \/ Complete(w) \/ AckChunk(w) \/ RetryChunk(w)
    \/ FinalCount(w) \/ FinalComplete(w) \/ DeadLetter(w) \/ ContextExpired(w)

Timers ==
    \/ \E m \in StartIds : ExpireStart(m)
    \/ \E m \in ChunkMsgs : ExpireChunk(m)
    \/ \E k \in ChunkIdx : ExpireDedup(k)

Crash == \/ \E s \in Starters : CrashStart(s)
         \/ \E w \in Workers : CrashChunk(w)

Next ==
    \/ Scheduler
    \/ \E s \in Starters : StartStep(s)
    \/ \E w \in Workers : ChunkStep(w)
    \/ Timers
    \/ Crash
    \/ \E c \in Contacts : SegmentChange(c)

Spec == Init /\ [][Next]_vars

(* The scheduler's ticker, the consumers' delivery loops and the redelivery  *)
(* of abandoned messages keep running; nothing obliges a disturbance or a    *)
(* change of the segment.                                                    *)
Recovery ==
    \/ \E m \in StartIds : ~HeldStart(m) /\ ExpireStart(m)
    \/ \E m \in ChunkMsgs : ~HeldChunk(m) /\ ExpireChunk(m)

Fairness ==
    /\ WF_vars(Scheduler)
    /\ \A s \in Starters : WF_vars(StartStep(s))
    /\ \A w \in Workers : WF_vars(ChunkStep(w))
    /\ WF_vars(Recovery)

FairSpec == Spec /\ Fairness

-----------------------------------------------------------------------------
(* Properties that hold.                                                    *)

\* The recipients table keeps the promises of RecipientContract.
Contract == INSTANCE RecipientContract
                WITH Contacts <- Contacts, recipient <- recipient, accepted <- accepted

RowsKeepContract == Contract!Spec

\* A recipient row that says 'sent' is never a lie: SES accepted a message
\* for that recipient, whatever crashed, was lost or was redelivered.
SentIsAccepted == \A r \in Contacts : recipient[r] = "sent" => accepted[r] > 0

\* 'sent' is final: a second delivery that read the row before it became sent
\* takes it neither back to 'sending' nor to 'failed'.
SentIsFinal ==
    [][\A r \in Contacts : recipient[r] = "sent" => recipient'[r] = "sent"]_vars

\* The special case every campaign without a disturbance enjoys.
AtMostOnceUndisturbed ==
    disturbances = 0 => \A r \in Contacts : accepted[r] <= 1

\* A completed campaign stays one whose counters cover its audience: a later
\* streaming pass cannot raise the total under a completed row.
CompletedWasCounted ==
    campaign.completed_at =>
        campaign.sent_count + campaign.failed_count >= campaign.total_recipients

\* Once a streaming pass over an unchanging segment finished, every member has
\* a row, every row is carried by a stored chunk and the total is the size of
\* the segment, however often the start handler crashed or was redelivered:
\* the chunk ids name the same pages each time, so dropping a duplicate is safe.
StreamedRowsAreCarried ==
    changes = 0 /\ campaign.total_recipients > 0 =>
        /\ \A r \in segment : recipient[r] # "absent"
        /\ \A r \in Contacts :
              recipient[r] # "absent" => \E m \in ChunkMsgs : r \in payload[m]
        /\ campaign.total_recipients = Cardinality(segment)

\* Nothing but its own retries stands between a recipient and a final status:
\* without a disturbance every member of the segment ends up sent or failed.
RecipientsResolved ==
    [](disturbances = 0) => <>[](\A r \in segment : recipient[r] \in {"sent", "failed"})

\* A published campaign survives fewer disturbances than it has delivery
\* attempts: SES accepts a message for every member of an unchanging segment,
\* as long as it refuses nobody.
PublishedIsMailed ==
    [](changes = 0 /\ disturbances < MaxAttempts) =>
        ((\E m \in StartIds : startMsg[m].st # "none")
            ~> (\A r \in segment : accepted[r] > 0))

=============================================================================
