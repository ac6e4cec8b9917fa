------------------------- MODULE CampaignLifecycle -------------------------
(***************************************************************************)
(* What the API, the campaign scheduler and the workers do to the status   *)
(* of a campaign.  Every API call reads the row, checks what it read and   *)
(* writes later under a WHERE clause; sending also publishes, and takes    *)
(* its transition back when that fails.  The workers' pipeline is the one  *)
(* of CampaignSend, here for an audience of one contact: a start message   *)
(* becomes a chunk, the chunk a mail and a count.                          *)
(***************************************************************************)
EXTENDS CampaignRow, FiniteSets

CONSTANTS
    Campaigns, Calls,
    Contents,        \* what a campaign can say
    TemplateOnly,    \* contents that name a template and have no body
    Nothing,
    MaxPerMonth,     \* the plan's maxCampaignsPerMonth
    MaxCalls,        \* bound: API calls
    MaxDisturbances  \* bound: failed publishes and writes, crashes

ASSUME ConstantsAssumption ==
    /\ TemplateOnly \subseteq Contents /\ Nothing \notin Contents \cup Campaigns
    /\ IsFiniteSet(Calls)
    /\ MaxPerMonth \in Nat /\ MaxCalls \in Nat /\ MaxDisturbances \in Nat

VARIABLES
    \* PostgreSQL: the row, and what CampaignRow's statements do not touch
    campaign, version, content,
    scheduledAt,     \* "none", "future" or "past"
    mailed,          \* what the contact was mailed; its row says 'sent'
    \* JetStream
    starts, chunks,  \* messages of campaign.send.start and campaign.send.chunk
    dedup,           \* campaigns whose chunk id is in the duplicate window
    \* processes
    firing,          \* claimed by the scheduler, start not yet published
    pc, on, seen,    \* API calls: step, campaign, what was read
    \* observation
    published, pauses, lost,
    misled,          \* campaigns resumed by what an old read said of them
    calls, disturbances

rows == <<campaign, version, content, scheduledAt>>
work == <<mailed, starts, chunks, dedup>>
rpc  == <<pc, on, seen>>
vars == <<campaign, version, content, scheduledAt, mailed, starts, chunks, dedup,
          firing, pc, on, seen, published, pauses, lost, misled, calls, disturbances>>

StartMessages == [of : Campaigns, n : Nat, says : Contents, step : {"ready", "open"}]
ChunkMessages == [of : Campaigns, n : Nat, says : Contents, step : {"ready", "counted"}]
Snapshots == [status : CampaignStatus, version : Nat, content : Contents,
              started : BOOLEAN, scheduledAt : {"none", "future", "past"}]
Labels == {"idle", "update", "schedule", "count", "claim", "publish", "rollback",
           "pause", "resume", "republish", "delete"}

TypeOK ==
    /\ campaign \in [Campaigns -> CampaignRows]
    /\ version \in [Campaigns -> Nat]
    /\ content \in [Campaigns -> Contents]
    /\ scheduledAt \in [Campaigns -> {"none", "future", "past"}]
    /\ mailed \in [Campaigns -> Contents \cup {Nothing}]
    /\ starts \subseteq StartMessages /\ chunks \subseteq ChunkMessages
    /\ dedup \subseteq Campaigns
    /\ firing \in [Campaigns -> Contents \cup {Nothing}]
    /\ pc \in [Calls -> Labels]
    /\ on \in [Calls -> Campaigns \cup {Nothing}]
    /\ \A k \in Calls : pc[k] # "idle" => on[k] \in Campaigns /\ seen[k] \in Snapshots
    /\ published \in [Campaigns -> Nat] /\ pauses \in [Campaigns -> Nat]
    /\ lost \subseteq Campaigns /\ misled \subseteq Campaigns
    /\ calls \in 0..MaxCalls /\ disturbances \in 0..MaxDisturbances

\* createCampaign has inserted the rows.
Init ==
    /\ campaign = [c \in Campaigns |-> FreshCampaign("draft", FALSE)]
    /\ version = [c \in Campaigns |-> 1]
    /\ content \in [Campaigns -> Contents]
    /\ scheduledAt = [c \in Campaigns |-> "none"]
    /\ mailed = [c \in Campaigns |-> Nothing]
    /\ starts = {} /\ chunks = {} /\ dedup = {}
    /\ firing = [c \in Campaigns |-> Nothing]
    /\ pc = [k \in Calls |-> "idle"]
    /\ on = [k \in Calls |-> Nothing]
    /\ seen = [k \in Calls |-> Nothing]
    /\ published = [c \in Campaigns |-> 0] /\ pauses = [c \in Campaigns |-> 0]
    /\ lost = {} /\ misled = {} /\ calls = 0 /\ disturbances = 0

-----------------------------------------------------------------------------
Disturb == /\ disturbances < MaxDisturbances
           /\ disturbances' = disturbances + 1
Undisturbed == UNCHANGED disturbances

Status(c) == campaign[c].status
Live(c)   == ~campaign[c].deleted_at

Snapshot(c) == [status |-> Status(c), version |-> version[c], content |-> content[c],
                started |-> campaign[c].started_at, scheduledAt |-> scheduledAt[c]]

GoTo(k, label) == pc' = [pc EXCEPT ![k] = label] /\ UNCHANGED <<on, seen>>
\* The statement returned the row: what is published is what it says.
Proceed(k, label) == /\ pc' = [pc EXCEPT ![k] = label] /\ UNCHANGED on
                     /\ seen' = [seen EXCEPT ![k].content = content[on[k]]]
Return(k) == /\ pc' = [pc EXCEPT ![k] = "idle"]
             /\ on' = [on EXCEPT ![k] = Nothing]
             /\ seen' = [seen EXCEPT ![k] = Nothing]

\* UPDATE ... WHERE deleted_at IS NULL AND status IN (from).
Matches(c, from) == Live(c) /\ Status(c) \in from
SetStatus(c, to) == campaign' = [campaign EXCEPT ![c].status = to]
Bump(c)          == version' = [version EXCEPT ![c] = @ + 1]

-----------------------------------------------------------------------------
(* The API.  A call that is refused by what it reads has no effect.         *)

Begin(k, c, label) ==
    /\ pc[k] = "idle" /\ calls < MaxCalls /\ Live(c)
    /\ calls' = calls + 1
    /\ pc' = [pc EXCEPT ![k] = label]
    /\ on' = [on EXCEPT ![k] = c]
    /\ seen' = [seen EXCEPT ![k] = Snapshot(c)]
    /\ UNCHANGED <<rows, work, firing, published, pauses, lost, misled, disturbances>>

Sendable(c) == Status(c) \notin {"sent", "failed", "cancelled"}
Renamable   == {"draft", "scheduled"}
\* Faulty variant: the update is guarded by the version alone.
Editable_AnyStatus == CampaignStatus

Editable == {"draft"}

BeginUpdate(k, c)   == Status(c) \in Renamable /\ Begin(k, c, "update")
BeginSchedule(k, c) == Sendable(c) /\ Begin(k, c, "schedule")
BeginSend(k, c)     == Sendable(c) /\ Begin(k, c, "count")
BeginPause(k, c)    == Begin(k, c, "pause")
BeginResume(k, c)   == Begin(k, c, "resume")
BeginDelete(k, c)   == Status(c) # "sending" /\ Begin(k, c, "delete")

\* The version the client saw; content of drafts only, the name of scheduled
\* campaigns too.
Update(k) ==
    /\ pc[k] = "update" /\ Return(k)
    /\ LET c == on[k] IN
       IF version[c] = seen[k].version
       THEN \/ Matches(c, Renamable) /\ Bump(c) /\ UNCHANGED content
            \/ /\ Matches(c, Editable) /\ Bump(c)
               /\ \E x \in Contents : content' = [content EXCEPT ![c] = x]
            \/ ~Matches(c, Renamable) /\ UNCHANGED <<version, content>>
       ELSE UNCHANGED <<version, content>>
    /\ UNCHANGED <<campaign, scheduledAt, work, firing, published, pauses, lost, misled, calls,
                   disturbances>>

Schedule(k) ==
    /\ pc[k] = "schedule" /\ Return(k)
    /\ LET c == on[k] IN
       IF Matches(c, {"draft", "scheduled", "paused"})
       THEN /\ SetStatus(c, "scheduled") /\ Bump(c)
            /\ scheduledAt' = [scheduledAt EXCEPT ![c] = "future"]
       ELSE UNCHANGED <<campaign, version, scheduledAt>>
    /\ UNCHANGED <<content, work, firing, published, pauses, lost, misled, calls, disturbances>>

\* countSentThisMonth, in the transaction of the transition, at READ COMMITTED.
SentThisMonth == {c \in Campaigns :
    Live(c) /\ Status(c) \in {"sent", "sending"} /\ campaign[c].started_at}

CountSent(k) ==
    /\ pc[k] = "count"
    /\ IF Cardinality(SentThisMonth) >= MaxPerMonth THEN Return(k) ELSE GoTo(k, "claim")
    /\ UNCHANGED <<rows, work, firing, published, pauses, lost, misled, calls, disturbances>>

\* Faulty variant: a campaign already on its way can be sent.
Claimable_Sending(k) ==
    version[on[k]] = seen[k].version /\ Matches(on[k], {"draft", "scheduled", "paused", "sending"})
Claimable(k) ==
    version[on[k]] = seen[k].version /\ Matches(on[k], {"draft", "scheduled", "paused"})

ClaimForSend(k) ==
    /\ pc[k] = "claim"
    /\ LET c == on[k] IN
       IF Claimable(k)
       THEN /\ campaign' = [campaign EXCEPT ![c].status = "sending", ![c].started_at = TRUE]
            /\ Bump(c) /\ Proceed(k, "publish")
       ELSE Return(k) /\ UNCHANGED <<campaign, version>>
    /\ UNCHANGED <<content, scheduledAt, work, firing, published, pauses, lost, misled, calls,
                   disturbances>>

StoreStart(c, x) ==
    /\ starts' = starts \cup {[of |-> c, n |-> published[c] + 1, says |-> x, step |-> "ready"]}
    /\ published' = [published EXCEPT ![c] = @ + 1]

\* An error, with the message stored or not, leads to the roll-back.
Publish(k) ==
    /\ pc[k] = "publish"
    /\ LET c == on[k] IN
       \/ Undisturbed /\ StoreStart(c, seen[k].content) /\ Return(k)
       \/ Disturb /\ GoTo(k, "rollback") /\ StoreStart(c, seen[k].content)
       \/ Disturb /\ GoTo(k, "rollback") /\ UNCHANGED <<starts, published>>
    /\ UNCHANGED <<rows, mailed, chunks, dedup, firing, pauses, lost, misled, calls>>

Rollback_LogOnly(k) ==
    /\ pc[k] = "rollback" /\ Return(k)
    /\ UNCHANGED <<rows, work, firing, published, pauses, lost, misled, calls, disturbances>>

\* Back to the status that was read, if the campaign is still sending.  A
\* failing roll-back strands it.
Rollback(k) ==
    /\ pc[k] = "rollback" /\ Return(k)
    /\ LET c == on[k] IN
       \/ /\ Undisturbed /\ UNCHANGED lost
          /\ IF Matches(c, {"sending"}) THEN SetStatus(c, seen[k].status) /\ Bump(c)
             ELSE UNCHANGED <<campaign, version>>
       \/ Disturb /\ lost' = lost \cup {c} /\ UNCHANGED <<campaign, version>>
    /\ UNCHANGED <<content, scheduledAt, work, firing, published, pauses, misled, calls>>

Pause(k) ==
    /\ pc[k] = "pause" /\ Return(k)
    /\ LET c == on[k] IN
       IF Matches(c, {"scheduled", "sending"})
       THEN /\ SetStatus(c, "paused") /\ Bump(c)
            /\ pauses' = [pauses EXCEPT ![c] = @ + 1]
       ELSE UNCHANGED <<campaign, version, pauses>>
    /\ UNCHANGED <<content, scheduledAt, work, firing, published, lost, misled, calls, disturbances>>

ResumeTarget(s) ==
    IF s.started THEN "sending" ELSE IF s.scheduledAt = "future" THEN "scheduled" ELSE "draft"

Resume(k) ==
    /\ pc[k] = "resume"
    /\ LET c == on[k]
           target == ResumeTarget(seen[k]) IN
       IF Matches(c, {"paused"})
       THEN /\ SetStatus(c, target) /\ Bump(c)
            /\ IF target = "sending" THEN Proceed(k, "republish") ELSE Return(k)
            /\ misled' = IF target = ResumeTarget(Snapshot(c)) THEN misled ELSE misled \cup {c}
       ELSE Return(k) /\ UNCHANGED <<campaign, version, misled>>
    /\ UNCHANGED <<content, scheduledAt, work, firing, published, pauses, lost, calls,
                   disturbances>>

\* The failure to publish is a warning: "worker will reconcile".
Republish(k) ==
    /\ pc[k] = "republish" /\ Return(k)
    /\ LET c == on[k] IN
       \/ Undisturbed /\ StoreStart(c, seen[k].content) /\ UNCHANGED lost
       \/ Disturb /\ StoreStart(c, seen[k].content) /\ UNCHANGED lost
       \/ Disturb /\ lost' = lost \cup {c} /\ UNCHANGED <<starts, published>>
    /\ UNCHANGED <<rows, mailed, chunks, dedup, firing, pauses, misled, calls>>

\* softDelete looks at deleted_at only.
Delete(k) ==
    /\ pc[k] = "delete" /\ Return(k)
    /\ LET c == on[k] IN
       IF Live(c)
       THEN /\ campaign' = [campaign EXCEPT ![c].status = "cancelled", ![c].deleted_at = TRUE]
            /\ Bump(c)
       ELSE UNCHANGED <<campaign, version>>
    /\ UNCHANGED <<content, scheduledAt, work, firing, published, pauses, lost, misled, calls,
                   disturbances>>

CrashCall(k) ==
    /\ pc[k] # "idle" /\ Disturb /\ Return(k)
    /\ lost' = IF pc[k] \in {"publish", "rollback", "republish"} THEN lost \cup {on[k]} ELSE lost
    /\ UNCHANGED <<rows, work, firing, published, pauses, misled, calls>>

-----------------------------------------------------------------------------
(* The scheduler.  Its claim leaves the version alone.                      *)

TimeComes(c) ==
    /\ scheduledAt[c] = "future"
    /\ scheduledAt' = [scheduledAt EXCEPT ![c] = "past"]
    /\ UNCHANGED <<campaign, version, content, work, firing, rpc, published, pauses, lost, misled,
                   calls, disturbances>>

SchedulerPoll(c) ==
    /\ scheduledAt[c] = "past" /\ IsDue(campaign[c]) /\ firing[c] = Nothing
    /\ campaign' = [campaign EXCEPT ![c] = ClaimDueCampaign(@)]
    /\ firing' = [firing EXCEPT ![c] = content[c]]
    /\ UNCHANGED <<version, content, scheduledAt, work, rpc, published, pauses, lost, misled, calls,
                   disturbances>>

SchedulerFire(c) ==
    /\ firing[c] # Nothing
    /\ firing' = [firing EXCEPT ![c] = Nothing]
    /\ \/ Undisturbed /\ StoreStart(c, firing[c]) /\ UNCHANGED lost
       \/ Disturb /\ lost' = lost \cup {c} /\ UNCHANGED <<starts, published>>
    /\ UNCHANGED <<rows, mailed, chunks, dedup, rpc, pauses, misled, calls>>

-----------------------------------------------------------------------------
(* The workers.                                                             *)

\* Faulty variant: a campaign that is sending is taken for one in good hands.
StreamStops_Sending == {"completed", "failed", "sending"}

StreamStops == {"completed", "failed"}

\* The recipient's row and the chunk; a payload without a body is terminated.
StreamStart(m) ==
    /\ m \in starts /\ m.step = "ready"
    /\ IF Status(m.of) \in StreamStops \/ m.says \in TemplateOnly
       THEN starts' = starts \ {m} /\ UNCHANGED <<chunks, dedup>>
       ELSE /\ starts' = (starts \ {m}) \cup {[m EXCEPT !.step = "open"]}
            /\ dedup' = dedup \cup {m.of}
            /\ chunks' = IF m.of \in dedup THEN chunks ELSE chunks \cup {m}
    /\ UNCHANGED <<rows, mailed, firing, rpc, published, pauses, lost, misled, calls, disturbances>>

RecordTotal(m) ==
    /\ m \in starts /\ m.step = "open"
    /\ \/ /\ Undisturbed /\ starts' = starts \ {m}
          /\ campaign' = [campaign EXCEPT ![m.of] = UpdateCampaignStarted(@, 1)]
       \/ /\ Disturb /\ UNCHANGED campaign
          /\ starts' = (starts \ {m}) \cup {[m EXCEPT !.step = "ready"]}
    /\ UNCHANGED <<version, content, scheduledAt, mailed, chunks, dedup, firing, rpc,
                   published, pauses, lost, misled, calls>>

\* A recipient that is 'sent' is passed over and nothing is counted; nobody
\* asks what became of the campaign.
SendChunk(m) ==
    /\ m \in chunks /\ m.step = "ready"
    /\ IF mailed[m.of] # Nothing
       THEN chunks' = chunks \ {m} /\ UNCHANGED <<campaign, mailed>>
       ELSE LET row == IncrementCampaignCounts(campaign[m.of], 1, 0) IN
            /\ mailed' = [mailed EXCEPT ![m.of] = m.says]
            /\ campaign' = [campaign EXCEPT ![m.of] = row]
            /\ chunks' = (chunks \ {m}) \cup
                  (IF CountsReachedTotal(row) THEN {[m EXCEPT !.step = "counted"]} ELSE {})
    /\ UNCHANGED <<version, content, scheduledAt, starts, dedup, firing, rpc, published,
                   pauses, lost, misled, calls, disturbances>>

CompleteChunk(m) ==
    /\ m \in chunks /\ m.step = "counted"
    /\ chunks' = chunks \ {m}
    /\ \/ Undisturbed /\ campaign' = [campaign EXCEPT ![m.of] = MarkCampaignComplete(@)]
       \/ Disturb /\ UNCHANGED campaign
    /\ UNCHANGED <<version, content, scheduledAt, mailed, starts, dedup, firing, rpc,
                   published, pauses, lost, misled, calls>>

WindowEnds(c) ==
    /\ c \in dedup /\ dedup' = dedup \ {c}
    /\ UNCHANGED <<rows, mailed, starts, chunks, firing, rpc, published, pauses, lost, misled, calls,
                   disturbances>>

-----------------------------------------------------------------------------
CallStep(k) ==
    \/ Update(k) \/ Schedule(k) \/ CountSent(k) \/ ClaimForSend(k) \/ Publish(k)
    \/ Rollback(k) \/ Pause(k) \/ Resume(k) \/ Republish(k) \/ Delete(k)

Request(k, c) ==
    \/ BeginUpdate(k, c) \/ BeginSchedule(k, c) \/ BeginSend(k, c)
    \/ BeginPause(k, c) \/ BeginResume(k, c) \/ BeginDelete(k, c)

WorkerStep ==
    \/ \E m \in starts : StreamStart(m) \/ RecordTotal(m)
    \/ \E m \in chunks : SendChunk(m) \/ CompleteChunk(m)

SchedulerStep(c) == SchedulerPoll(c) \/ SchedulerFire(c)

Next ==
    \/ \E k \in Calls, c \in Campaigns : Request(k, c)
    \/ \E k \in Calls : CallStep(k) \/ CrashCall(k)
    \/ \E c \in Campaigns : TimeComes(c) \/ SchedulerStep(c) \/ WindowEnds(c)
    \/ WorkerStep

Spec == Init /\ [][Next]_vars

(* Calls, the scheduler and the workers go on; the workers' queue delivers   *)
(* every message in time.  Nobody has to ask for anything.                  *)
FairSpec ==
    /\ Spec /\ WF_vars(WorkerStep)
    /\ \A k \in Calls : WF_vars(CallStep(k))
    /\ \A c \in Campaigns : WF_vars(SchedulerStep(c))

-----------------------------------------------------------------------------
(* Properties that hold.                                                    *)

\* While no publish, write or process fails, whatever is on its way to the
\* contact, or reached it, is what the campaign says: nobody could edit it in
\* between, however it was paused, resumed and scheduled again.  Except where a
\* resume went by an old read.
MailedIsCurrent ==
    disturbances = 0 =>
        \A c \in Campaigns \ misled :
            /\ \A m \in starts \cup chunks : m.of = c => m.says = content[c]
            /\ mailed[c] \in {Nothing, content[c]}

\* A campaign in 'sending' has somebody at work for it, or has been mailed:
\* a send whose publish failed takes the status back.  The code gives this up
\* where the scheduler or a resume cannot publish (lost), and for a campaign
\* that is only a template.
AtWork(c) ==
    \/ firing[c] # Nothing
    \/ \E m \in starts \cup chunks : m.of = c
    \/ \E k \in Calls : on[k] = c /\ pc[k] \in {"publish", "rollback", "republish"}

SendingHasWork ==
    \A c \in Campaigns \ lost : Status(c) = "sending" =>
        AtWork(c) \/ mailed[c] # Nothing \/ content[c] \in TemplateOnly

\* Two users, or a user and the scheduler, who send a campaign at the same
\* time publish it once; only a pause or a failure lets it be published again.
OneStartUnlessPaused ==
    \A c \in Campaigns : published[c] <= 1 + pauses[c] + disturbances

\* A campaign does not stay in 'sending' without reaching its audience: it is
\* mailed, paused or deleted, or a failed publish takes the status back.  The
\* exceptions are those of SendingHasWork.  What a pause halts is the status
\* alone; the workers mail the campaign all the same.
SendingIsMailed ==
    \A c \in Campaigns :
        Status(c) = "sending" /\ content[c] \notin TemplateOnly
            ~> mailed[c] # Nothing \/ Status(c) # "sending" \/ c \in lost
=============================================================================
