---------------------- MODULE CampaignLifecycle_proofs ----------------------
(***************************************************************************)
(* Theorems about CampaignLifecycle: its types, that a campaign is         *)
(* published once per send or pause, that a campaign in 'sending' has      *)
(* somebody at work for it, and that what is mailed is what it says.       *)
(***************************************************************************)
EXTENDS CampaignLifecycle, FiniteSetTheorems, TLAPS

-----------------------------------------------------------------------------
(* Types.                                                                   *)

RowType ==
    /\ campaign \in [Campaigns -> CampaignRows]
    /\ version \in [Campaigns -> Nat]
    /\ content \in [Campaigns -> Contents]
    /\ scheduledAt \in [Campaigns -> {"none", "future", "past"}]

WorkType ==
    /\ mailed \in [Campaigns -> Contents \cup {Nothing}]
    /\ starts \subseteq StartMessages /\ chunks \subseteq ChunkMessages
    /\ dedup \subseteq Campaigns
    /\ firing \in [Campaigns -> Contents \cup {Nothing}]

CallType ==
    /\ pc \in [Calls -> Labels]
    /\ on \in [Calls -> Campaigns \cup {Nothing}]
    /\ seen \in [Calls -> Snapshots \cup {Nothing}]
    /\ \A k \in Calls : pc[k] # "idle" => on[k] \in Campaigns /\ seen[k] \in Snapshots

HistoryType ==
    /\ published \in [Campaigns -> Nat] /\ pauses \in [Campaigns -> Nat]
    /\ lost \subseteq Campaigns /\ misled \subseteq Campaigns
    /\ calls \in 0..MaxCalls /\ disturbances \in 0..MaxDisturbances

TypeInv == RowType /\ WorkType /\ CallType /\ HistoryType

\* The statements map rows to rows.
LEMMA StatementsKeepRows ==
    ASSUME NEW r \in CampaignRows, NEW n \in Nat, NEW s \in CampaignStatus
    PROVE  /\ UpdateCampaignStarted(r, n) \in CampaignRows
           /\ IncrementCampaignCounts(r, 1, 0) \in CampaignRows
           /\ MarkCampaignComplete(r) \in CampaignRows
           /\ ClaimDueCampaign(r) \in CampaignRows
           /\ [r EXCEPT !.status = s] \in CampaignRows
           /\ [r EXCEPT !.status = s, !.started_at = TRUE] \in CampaignRows
           /\ [r EXCEPT !.status = s, !.deleted_at = TRUE] \in CampaignRows
<1>1. UpdateCampaignStarted(r, n) \in CampaignRows
  BY DEF UpdateCampaignStarted, CampaignRows, CampaignStatus
<1>2. IncrementCampaignCounts(r, 1, 0) \in CampaignRows
  <2>1. r.sent_count + 1 \in Nat /\ r.failed_count + 0 \in Nat
    BY DEF CampaignRows
  <2> QED BY <2>1 DEF IncrementCampaignCounts, CampaignRows
<1>3. MarkCampaignComplete(r) \in CampaignRows
  BY DEF MarkCampaignComplete, CampaignRows, CampaignStatus
<1>4. ClaimDueCampaign(r) \in CampaignRows
  BY DEF ClaimDueCampaign, CampaignRows, CampaignStatus
<1>5. QED
  BY <1>1, <1>2, <1>3, <1>4 DEF CampaignRows

\* So every statement keeps the table well typed.
LEMMA StatementsKeepTable ==
    ASSUME RowType, NEW c \in Campaigns
    PROVE  LET Kept == campaign' \in [Campaigns -> CampaignRows] IN
           /\ \A s \in CampaignStatus : SetStatus(c, s) => Kept
           /\ campaign' = [campaign EXCEPT ![c].status = "sending", ![c].started_at = TRUE] => Kept
           /\ campaign' = [campaign EXCEPT ![c].status = "cancelled", ![c].deleted_at = TRUE] => Kept
           /\ campaign' = [campaign EXCEPT ![c] = ClaimDueCampaign(@)] => Kept
           /\ campaign' = [campaign EXCEPT ![c] = UpdateCampaignStarted(@, 1)] => Kept
           /\ campaign' = [campaign EXCEPT ![c] = IncrementCampaignCounts(@, 1, 0)] => Kept
           /\ campaign' = [campaign EXCEPT ![c] = MarkCampaignComplete(@)] => Kept
           /\ Bump(c) => version' \in [Campaigns -> Nat]
<1> DEFINE r == campaign[c]
<1>1. r \in CampaignRows
  BY DEF RowType
<1>2. \A q \in CampaignRows : campaign' = [campaign EXCEPT ![c] = q] =>
          campaign' \in [Campaigns -> CampaignRows]
  BY DEF RowType
<1>3. \A s \in CampaignStatus : [r EXCEPT !.status = s] \in CampaignRows
  BY <1>1, StatementsKeepRows
<1>4. /\ [r EXCEPT !.status = "sending", !.started_at = TRUE] \in CampaignRows
      /\ [r EXCEPT !.status = "cancelled", !.deleted_at = TRUE] \in CampaignRows
  BY <1>1 DEF CampaignRows, CampaignStatus
<1>5. /\ UpdateCampaignStarted(r, 1) \in CampaignRows /\ ClaimDueCampaign(r) \in CampaignRows
      /\ IncrementCampaignCounts(r, 1, 0) \in CampaignRows
      /\ MarkCampaignComplete(r) \in CampaignRows
  BY <1>1, StatementsKeepRows DEF CampaignStatus
<1>6. \A s \in CampaignStatus : SetStatus(c, s) => campaign' \in [Campaigns -> CampaignRows]
  BY <1>2, <1>3 DEF SetStatus
<1>7. /\ campaign' = [campaign EXCEPT ![c].status = "sending", ![c].started_at = TRUE] =>
             campaign' \in [Campaigns -> CampaignRows]
      /\ campaign' = [campaign EXCEPT ![c].status = "cancelled", ![c].deleted_at = TRUE] =>
             campaign' \in [Campaigns -> CampaignRows]
  BY <1>4 DEF RowType
<1>8. Bump(c) => version' \in [Campaigns -> Nat]
  BY DEF Bump, RowType
<1> QED BY <1>2, <1>5, <1>6, <1>7, <1>8

\* A step that leaves a group of variables alone keeps what is said of it.
LEMMA Frame ==
    /\ RowType /\ UNCHANGED rows => RowType'
    /\ WorkType /\ UNCHANGED <<work, firing>> => WorkType'
    /\ CallType /\ UNCHANGED rpc => CallType'
BY DEF RowType, WorkType, CallType, rows, work, rpc

\* The steps of a call.
LEMMA CallMoves ==
    ASSUME CallType, NEW k \in Calls
    PROVE  /\ \A l \in Labels : pc[k] # "idle" /\ GoTo(k, l) => CallType'
           /\ \A l \in Labels : pc[k] # "idle" /\ RowType /\ Proceed(k, l) => CallType'
           /\ Return(k) => CallType'
<1>1. ASSUME NEW l \in Labels, pc[k] # "idle", GoTo(k, l) PROVE CallType'
  BY <1>1 DEF CallType, GoTo
<1>2. ASSUME NEW l \in Labels, pc[k] # "idle", RowType, Proceed(k, l) PROVE CallType'
  <2>1. [seen[k] EXCEPT !.content = content[on[k]]] \in Snapshots
    BY <1>2 DEF CallType, RowType, Snapshots
  <2> QED BY <1>2, <2>1 DEF CallType, Proceed
<1>3. Return(k) => CallType'
  BY DEF CallType, Return, Labels
<1> QED BY <1>1, <1>2, <1>3

LEMMA MoreDisturbances ==
    ASSUME disturbances \in 0..MaxDisturbances, Disturb \/ Undisturbed
    PROVE  disturbances' \in 0..MaxDisturbances
BY ConstantsAssumption DEF Disturb, Undisturbed, ConstantsAssumption

LEMMA StoreStartType ==
    ASSUME TypeInv, NEW c \in Campaigns, NEW x \in Contents, StoreStart(c, x)
    PROVE  starts' \subseteq StartMessages /\ published' \in [Campaigns -> Nat]
<1>1. published[c] + 1 \in Nat
  BY DEF TypeInv, HistoryType
<1>2. [of |-> c, n |-> published[c] + 1, says |-> x, step |-> "ready"] \in StartMessages
  BY <1>1 DEF StartMessages
<1> QED BY <1>1, <1>2 DEF StoreStart, TypeInv, WorkType, HistoryType

LEMMA TypeInit == Init => TypeInv
<1> SUFFICES ASSUME Init PROVE TypeInv
  OBVIOUS
<1>1. FreshCampaign("draft", FALSE) \in CampaignRows
  BY DEF FreshCampaign, CampaignRows, CampaignStatus
<1>2. RowType
  BY <1>1 DEF Init, RowType
<1>3. WorkType
  BY DEF Init, WorkType
<1>4. CallType
  BY DEF Init, CallType, Labels
<1>5. HistoryType
  BY ConstantsAssumption DEF Init, HistoryType, ConstantsAssumption
<1> QED BY <1>2, <1>3, <1>4, <1>5 DEF TypeInv

LEMMA RequestType ==
    ASSUME TypeInv, NEW k \in Calls, NEW c \in Campaigns, Request(k, c)
    PROVE  TypeInv'
<1>1. PICK l \in Labels \ {"idle"} : Begin(k, c, l)
  BY DEF Request, BeginUpdate, BeginSchedule, BeginSend, BeginPause, BeginResume, BeginDelete, Labels
<1>2. Snapshot(c) \in Snapshots
  BY DEF TypeInv, RowType, Snapshot, Snapshots, Status, CampaignRows
<1>3. CallType'
  BY <1>1, <1>2 DEF Begin, TypeInv, CallType
<1>4. HistoryType'
  BY <1>1, ConstantsAssumption DEF Begin, TypeInv, HistoryType, ConstantsAssumption
<1> QED BY <1>1, <1>3, <1>4, Frame DEF Begin, TypeInv

LEMMA CallStepType ==
    ASSUME TypeInv, NEW k \in Calls, CallStep(k) \/ CrashCall(k)
    PROVE  TypeInv'
<1> USE DEF TypeInv
<1>0. pc[k] # "idle" => on[k] \in Campaigns /\ seen[k] \in Snapshots
  BY DEF CallType
<1>1. CASE Update(k)
  <2>1. RowType'
    BY <1>0, <1>1 DEF Update, RowType, Bump
  <2>2. CallType'
    BY <1>1, CallMoves DEF Update
  <2> QED BY <1>1, <2>1, <2>2, Frame DEF Update, HistoryType
<1>2. CASE Schedule(k)
  <2>1. RowType'
    BY <1>0, <1>2, StatementsKeepTable DEF Schedule, RowType, CampaignStatus
  <2>2. CallType'
    BY <1>2, CallMoves DEF Schedule
  <2> QED BY <1>2, <2>1, <2>2, Frame DEF Schedule, HistoryType
<1>3. CASE CountSent(k)
  <2>1. CallType'
    BY <1>3, CallMoves DEF CountSent, Labels
  <2> QED BY <1>3, <2>1, Frame DEF CountSent, HistoryType
<1>4. CASE ClaimForSend(k)
  <2>1. RowType'
    BY <1>0, <1>4, StatementsKeepTable DEF ClaimForSend, RowType, CampaignStatus
  <2>2. CallType'
    BY <1>4, CallMoves DEF ClaimForSend, Labels
  <2> QED BY <1>4, <2>1, <2>2, Frame DEF ClaimForSend, HistoryType
<1>5. CASE Publish(k)
  <2>1. CallType'
    BY <1>5, CallMoves DEF Publish, Labels
  <2>2. disturbances' \in 0..MaxDisturbances
    BY <1>5, MoreDisturbances DEF Publish, HistoryType
  <2>3. starts' \subseteq StartMessages /\ published' \in [Campaigns -> Nat]
    BY <1>0, <1>5, StoreStartType DEF Publish, WorkType, HistoryType, Snapshots
  <2>4. WorkType' /\ HistoryType'
    BY <1>5, <2>2, <2>3 DEF Publish, WorkType, HistoryType
  <2> QED BY <1>5, <2>1, <2>4, Frame DEF Publish
<1>6. CASE Rollback(k)
  <2>1. RowType'
    BY <1>0, <1>6, StatementsKeepTable DEF Rollback, RowType, Snapshots
  <2>2. CallType'
    BY <1>6, CallMoves DEF Rollback
  <2>3. disturbances' \in 0..MaxDisturbances
    BY <1>6, MoreDisturbances DEF Rollback, HistoryType
  <2>4. HistoryType'
    BY <1>0, <1>6, <2>3 DEF Rollback, HistoryType
  <2> QED BY <1>6, <2>1, <2>2, <2>4, Frame DEF Rollback
<1>7. CASE Pause(k)
  <2>1. RowType'
    BY <1>0, <1>7, StatementsKeepTable DEF Pause, RowType, CampaignStatus
  <2>2. CallType'
    BY <1>7, CallMoves DEF Pause
  <2>3. HistoryType'
    BY <1>0, <1>7 DEF Pause, HistoryType
  <2> QED BY <1>7, <2>1, <2>2, <2>3, Frame DEF Pause
<1>8. CASE Resume(k)
  <2>0. ResumeTarget(seen[k]) \in CampaignStatus
    BY DEF ResumeTarget, CampaignStatus
  <2>1. RowType'
    BY <1>0, <1>8, <2>0, StatementsKeepTable DEF Resume, RowType
  <2>2. CallType'
    BY <1>8, CallMoves DEF Resume, Labels
  <2>3. HistoryType'
    BY <1>0, <1>8 DEF Resume, HistoryType
  <2> QED BY <1>8, <2>1, <2>2, <2>3, Frame DEF Resume
<1>9. CASE Republish(k)
  <2>1. CallType'
    BY <1>9, CallMoves DEF Republish
  <2>2. disturbances' \in 0..MaxDisturbances
    BY <1>9, MoreDisturbances DEF Republish, HistoryType
  <2>3. starts' \subseteq StartMessages /\ published' \in [Campaigns -> Nat]
    BY <1>0, <1>9, StoreStartType DEF Republish, WorkType, HistoryType, Snapshots
  <2>4. WorkType' /\ HistoryType'
    BY <1>0, <1>9, <2>2, <2>3 DEF Republish, WorkType, HistoryType
  <2> QED BY <1>9, <2>1, <2>4, Frame DEF Republish
<1>10. CASE Delete(k)
  <2>1. RowType'
    BY <1>0, <1>10, StatementsKeepTable DEF Delete, RowType, CampaignStatus
  <2>2. CallType'
    BY <1>10, CallMoves DEF Delete
  <2> QED BY <1>10, <2>1, <2>2, Frame DEF Delete, HistoryType
<1>11. CASE CrashCall(k)
  <2>1. CallType'
    BY <1>11, CallMoves DEF CrashCall
  <2>2. disturbances' \in 0..MaxDisturbances
    BY <1>11, MoreDisturbances DEF CrashCall, HistoryType
  <2>3. HistoryType'
    BY <1>0, <1>11, <2>2 DEF CrashCall, HistoryType
  <2> QED BY <1>11, <2>1, <2>3, Frame DEF CrashCall
<1> QED
  BY <1>1, <1>2, <1>3, <1>4, <1>5, <1>6, <1>7, <1>8, <1>9, <1>10, <1>11 DEF CallStep

LEMMA BackgroundType ==
    ASSUME TypeInv,
           WorkerStep \/ \E c \in Campaigns : TimeComes(c) \/ SchedulerStep(c) \/ WindowEnds(c)
    PROVE  TypeInv'
<1> USE DEF TypeInv
<1>1. ASSUME NEW c \in Campaigns, TimeComes(c) PROVE TypeInv'
  <2>1. RowType'
    BY <1>1 DEF TimeComes, RowType
  <2> QED BY <1>1, <2>1, Frame DEF TimeComes, HistoryType
<1>2. ASSUME NEW c \in Campaigns, SchedulerPoll(c) PROVE TypeInv'
  <2>1. RowType'
    BY <1>2, StatementsKeepTable DEF SchedulerPoll, RowType
  <2>2. WorkType'
    BY <1>2 DEF SchedulerPoll, RowType, WorkType, work
  <2> QED BY <1>2, <2>1, <2>2, Frame DEF SchedulerPoll, HistoryType
<1>3. ASSUME NEW c \in Campaigns, SchedulerFire(c) PROVE TypeInv'
  <2>1. disturbances' \in 0..MaxDisturbances
    BY <1>3, MoreDisturbances DEF SchedulerFire, HistoryType
  <2>2. firing[c] \in Contents
    BY <1>3 DEF SchedulerFire, WorkType
  <2>3. starts' \subseteq StartMessages /\ published' \in [Campaigns -> Nat]
    BY <1>3, <2>2, StoreStartType DEF SchedulerFire, WorkType, HistoryType
  <2>4. WorkType' /\ HistoryType'
    BY <1>3, <2>1, <2>3 DEF SchedulerFire, WorkType, HistoryType
  <2> QED BY <1>3, <2>4, Frame DEF SchedulerFire
<1>4. ASSUME NEW c \in Campaigns, WindowEnds(c) PROVE TypeInv'
  <2>1. WorkType'
    BY <1>4 DEF WindowEnds, WorkType
  <2> QED BY <1>4, <2>1, Frame DEF WindowEnds, HistoryType
<1>5. ASSUME NEW m \in starts, StreamStart(m) PROVE TypeInv'
  <2>1. m \in StartMessages /\ m.step = "ready"
    BY <1>5 DEF StreamStart, WorkType
  <2>2. m \in ChunkMessages /\ m.of \in Campaigns /\ [m EXCEPT !.step = "open"] \in StartMessages
    BY <2>1 DEF StartMessages, ChunkMessages
  <2>3. WorkType'
    BY <1>5, <2>2 DEF StreamStart, WorkType
  <2> QED BY <1>5, <2>3, Frame DEF StreamStart, HistoryType
<1>6. ASSUME NEW m \in starts, RecordTotal(m) PROVE TypeInv'
  <2>1. m \in StartMessages
    BY DEF WorkType
  <2>2. m.of \in Campaigns /\ [m EXCEPT !.step = "ready"] \in StartMessages
    BY <2>1 DEF StartMessages
  <2>3. WorkType'
    BY <1>6, <2>2 DEF RecordTotal, WorkType
  <2>4. RowType'
    BY <1>6, <2>2, StatementsKeepTable DEF RecordTotal, RowType
  <2>5. disturbances' \in 0..MaxDisturbances
    BY <1>6, MoreDisturbances DEF RecordTotal, HistoryType
  <2> QED BY <1>6, <2>3, <2>4, <2>5, Frame DEF RecordTotal, HistoryType
<1>7. ASSUME NEW m \in chunks, SendChunk(m) PROVE TypeInv'
  <2>1. m \in ChunkMessages
    BY DEF WorkType
  <2>2. m.of \in Campaigns /\ m.says \in Contents /\ [m EXCEPT !.step = "counted"] \in ChunkMessages
    BY <2>1 DEF ChunkMessages
  <2>3. WorkType'
    BY <1>7, <2>2 DEF SendChunk, WorkType
  <2>4. RowType'
    BY <1>7, <2>2, StatementsKeepTable DEF SendChunk, RowType
  <2> QED BY <1>7, <2>3, <2>4, Frame DEF SendChunk, HistoryType
<1>8. ASSUME NEW m \in chunks, CompleteChunk(m) PROVE TypeInv'
  <2>1. m \in ChunkMessages
    BY DEF WorkType
  <2>2. m.of \in Campaigns
    BY <2>1 DEF ChunkMessages
  <2>3. WorkType'
    BY <1>8 DEF CompleteChunk, WorkType
  <2>4. RowType'
    BY <1>8, <2>2, StatementsKeepTable DEF CompleteChunk, RowType
  <2>5. disturbances' \in 0..MaxDisturbances
    BY <1>8, MoreDisturbances DEF CompleteChunk, HistoryType
  <2> QED BY <1>8, <2>3, <2>4, <2>5, Frame DEF CompleteChunk, HistoryType
<1> QED
  BY <1>1, <1>2, <1>3, <1>4, <1>5, <1>6, <1>7, <1>8 DEF WorkerStep, SchedulerStep

LEMMA TypeStep == TypeInv /\ [Next]_vars => TypeInv'
<1> SUFFICES ASSUME TypeInv, [Next]_vars PROVE TypeInv'
  OBVIOUS
<1>1. CASE UNCHANGED vars
  BY <1>1, Frame DEF vars, TypeInv, rows, work, rpc, HistoryType
<1>2. CASE Next
  BY <1>2, RequestType, CallStepType, BackgroundType DEF Next
<1> QED BY <1>1, <1>2

LEMMA TypeAlways == Spec => []TypeInv
BY TypeInit, TypeStep, PTL DEF Spec

\* Every reachable state of the campaign row, the queues and the calls has the
\* types the API's and the workers' code gives them.
THEOREM LifecycleTypeCorrect == Spec => []TypeOK
<1>1. TypeInv => TypeOK
  BY DEF TypeInv, TypeOK, RowType, WorkType, CallType, HistoryType
<1> QED BY <1>1, TypeAlways, PTL

-----------------------------------------------------------------------------
(* What the statements do to status, start and deletion of a campaign.      *)

Open == {"draft", "scheduled", "paused"}

Started(c) == campaign[c].started_at

\* Row x as it was.
Same(x) == /\ campaign'[x].status = Status(x) /\ campaign'[x].started_at = Started(x)
           /\ campaign'[x].deleted_at = campaign[x].deleted_at

Becomes(x, s) == /\ campaign'[x].status = s /\ campaign'[x].started_at = Started(x)
                 /\ campaign'[x].deleted_at = campaign[x].deleted_at

LEMMA StatementEffects ==
    ASSUME RowType, NEW c \in Campaigns, NEW x \in Campaigns
    PROVE  /\ \A s \in CampaignStatus : SetStatus(c, s) => IF x = c THEN Becomes(x, s) ELSE Same(x)
           /\ campaign' = [campaign EXCEPT ![c].status = "sending", ![c].started_at = TRUE] =>
                 IF x = c THEN campaign'[x].status = "sending" /\ campaign'[x].started_at
                               /\ campaign'[x].deleted_at = campaign[x].deleted_at ELSE Same(x)
           /\ campaign' = [campaign EXCEPT ![c].status = "cancelled", ![c].deleted_at = TRUE] =>
                 IF x = c THEN campaign'[x].status = "cancelled" /\ campaign'[x].started_at = Started(x)
                          ELSE Same(x)
           /\ IsDue(campaign[c]) /\ campaign' = [campaign EXCEPT ![c] = ClaimDueCampaign(@)] =>
                 IF x = c THEN campaign'[x].status = "sending" /\ campaign'[x].started_at
                               /\ campaign'[x].deleted_at = campaign[x].deleted_at ELSE Same(x)
           /\ campaign' = [campaign EXCEPT ![c] = UpdateCampaignStarted(@, 1)] =>
                 \/ Same(x)
                 \/ Status(x) \in {"queued", "sending"} /\ campaign'[x].status = "sending"
                    /\ campaign'[x].started_at /\ campaign'[x].deleted_at = campaign[x].deleted_at
           /\ campaign' = [campaign EXCEPT ![c] = IncrementCampaignCounts(@, 1, 0)] => Same(x)
           /\ campaign' = [campaign EXCEPT ![c] = MarkCampaignComplete(@)] =>
                 Same(x) \/ Becomes(x, "completed")
<1>0. campaign[c] \in CampaignRows /\ campaign[x] \in CampaignRows
  BY DEF RowType
<1>1. \A s \in CampaignStatus : SetStatus(c, s) => IF x = c THEN Becomes(x, s) ELSE Same(x)
  BY <1>0 DEF SetStatus, Becomes, Same, Status, Started, RowType, CampaignRows
<1>2. campaign' = [campaign EXCEPT ![c].status = "sending", ![c].started_at = TRUE] =>
        IF x = c THEN campaign'[x].status = "sending" /\ campaign'[x].started_at
                      /\ campaign'[x].deleted_at = campaign[x].deleted_at ELSE Same(x)
  BY <1>0 DEF Same, Status, Started, RowType, CampaignRows
<1>3. campaign' = [campaign EXCEPT ![c].status = "cancelled", ![c].deleted_at = TRUE] =>
        IF x = c THEN campaign'[x].status = "cancelled" /\ campaign'[x].started_at = Started(x)
                 ELSE Same(x)
  BY <1>0 DEF Same, Status, Started, RowType, CampaignRows
<1>4. IsDue(campaign[c]) /\ campaign' = [campaign EXCEPT ![c] = ClaimDueCampaign(@)] =>
        IF x = c THEN campaign'[x].status = "sending" /\ campaign'[x].started_at
                      /\ campaign'[x].deleted_at = campaign[x].deleted_at ELSE Same(x)
  BY <1>0 DEF ClaimDueCampaign, Same, Status, Started, RowType, CampaignRows
<1>5. campaign' = [campaign EXCEPT ![c] = UpdateCampaignStarted(@, 1)] =>
        \/ Same(x)
        \/ Status(x) \in {"queued", "sending"} /\ campaign'[x].status = "sending"
           /\ campaign'[x].started_at /\ campaign'[x].deleted_at = campaign[x].deleted_at
  <2> SUFFICES ASSUME campaign' = [campaign EXCEPT ![c] = UpdateCampaignStarted(@, 1)]
               PROVE  \/ Same(x)
                      \/ /\ Status(x) \in {"queued", "sending"} /\ campaign'[x].status = "sending"
                         /\ campaign'[x].started_at
                         /\ campaign'[x].deleted_at = campaign[x].deleted_at
    OBVIOUS
  <2>1. campaign'[x] = IF x = c THEN UpdateCampaignStarted(campaign[x], 1) ELSE campaign[x]
    BY DEF RowType
  <2>2. \/ UpdateCampaignStarted(campaign[x], 1) = campaign[x]
        \/ LET r == UpdateCampaignStarted(campaign[x], 1) IN
           /\ Status(x) \in {"queued", "sending"} /\ r.status = "sending" /\ r.started_at
           /\ r.deleted_at = campaign[x].deleted_at
    BY <1>0 DEF UpdateCampaignStarted, Status, CampaignRows
  <2> QED BY <2>1, <2>2 DEF Same, Status, Started
<1>6. campaign' = [campaign EXCEPT ![c] = IncrementCampaignCounts(@, 1, 0)] => Same(x)
  BY <1>0 DEF IncrementCampaignCounts, Same, Status, Started, RowType, CampaignRows
<1>7. campaign' = [campaign EXCEPT ![c] = MarkCampaignComplete(@)] =>
        Same(x) \/ Becomes(x, "completed")
  BY <1>0 DEF MarkCampaignComplete, Becomes, Same, Status, Started, RowType, CampaignRows
<1> QED BY <1>1, <1>2, <1>3, <1>4, <1>5, <1>6, <1>7

-----------------------------------------------------------------------------
(* A campaign is published once.  Whoever may still publish it is counted: *)
(* a call past its claim, the scheduler, and the next claim while the       *)
(* status allows one.                                                       *)

Claims(c) == {k \in Calls : on[k] = c /\ pc[k] \in {"publish", "rollback", "republish"}}
ToClaim(c) == IF Status(c) \in Open THEN 1 ELSE 0
ToFire(c)  == IF firing[c] # Nothing THEN 1 ELSE 0

BoundInv == \A c \in Campaigns :
    published[c] + Cardinality(Claims(c)) + ToClaim(c) + ToFire(c) <= 1 + pauses[c] + disturbances

Bit(b) == IF b THEN 1 ELSE 0

\* A step of one call moves that call only.
LEMMA OneCallMoves ==
    ASSUME NEW k \in Calls, NEW x \in Campaigns,
           \A j \in Calls \ {k} : pc'[j] = pc[j] /\ on'[j] = on[j]
    PROVE  \E n \in Nat : /\ Cardinality(Claims(x)) = n + Bit(k \in Claims(x))
                          /\ Cardinality(Claims(x)') = n + Bit(k \in Claims(x)')
<1> DEFINE Rest == Claims(x) \ {k}
<1>1. IsFiniteSet(Calls)
  BY ConstantsAssumption DEF ConstantsAssumption
<1>2. Claims(x) \subseteq Calls /\ Claims(x)' \subseteq Calls
  BY DEF Claims
<1>3. IsFiniteSet(Rest)
  BY <1>1, <1>2, FS_Subset
<1>4. Claims(x)' \ {k} = Rest
  BY DEF Claims
<1>5. Claims(x) = IF k \in Claims(x) THEN Rest \cup {k} ELSE Rest
  OBVIOUS
<1>6. Claims(x)' = IF k \in Claims(x)' THEN Rest \cup {k} ELSE Rest
  BY <1>4
<1>7. k \notin Rest
  OBVIOUS
<1> HIDE DEF Rest
<1>8. Cardinality(Rest) \in Nat /\ Cardinality(Rest \cup {k}) = Cardinality(Rest) + 1
  BY <1>3, <1>7, FS_CardinalityType, FS_AddElement
<1> QED BY <1>5, <1>6, <1>8 DEF Bit

LEMMA BoundInit == Init => BoundInv
<1> SUFFICES ASSUME Init, NEW c \in Campaigns
             PROVE  published[c] + Cardinality(Claims(c)) + ToClaim(c) + ToFire(c)
                      <= 1 + pauses[c] + disturbances
  BY DEF BoundInv
<1>1. Claims(c) = {}
  BY DEF Init, Claims
<1>2. Cardinality(Claims(c)) = 0
  BY <1>1, FS_EmptySet
<1>3. published[c] = 0 /\ pauses[c] = 0 /\ disturbances = 0
  BY DEF Init
<1>4. ToFire(c) = 0
  BY DEF Init, ToFire
<1>5. ToClaim(c) \in 0..1
  BY DEF ToClaim
<1> HIDE DEF Init
<1> QED BY <1>2, <1>3, <1>4, <1>5

\* What a campaign has used up, and what it may use.
Used(c)  == published[c] + Cardinality(Claims(c)) + ToClaim(c) + ToFire(c)
Grant(c) == pauses[c] + disturbances

LEMMA NumbersAreNaturals ==
    ASSUME TypeInv, NEW c \in Campaigns
    PROVE  /\ published[c] \in Nat /\ pauses[c] \in Nat /\ disturbances \in Nat
           /\ ToClaim(c) \in 0..1 /\ ToFire(c) \in 0..1 /\ Cardinality(Claims(c)) \in Nat
<1>1. IsFiniteSet(Claims(c))
  BY ConstantsAssumption, FS_Subset DEF ConstantsAssumption, Claims
<1>2. Cardinality(Claims(c)) \in Nat
  BY <1>1, FS_CardinalityType
<1>3. ToClaim(c) \in 0..1 /\ ToFire(c) \in 0..1
  BY DEF ToClaim, ToFire
<1> QED BY <1>2, <1>3 DEF TypeInv, HistoryType

\* A step of call k changes the use of campaign x by what follows.
CallUses(k, x) ==
    Bit(k \in Claims(x)') + ToClaim(x)' + published'[x] - Bit(k \in Claims(x)) - ToClaim(x) - published[x]
      <= Grant(x)' - Grant(x)

LEMMA CallKeepsBound ==
    ASSUME TypeInv, TypeInv', BoundInv, NEW k \in Calls, UNCHANGED firing,
           \A j \in Calls \ {k} : pc'[j] = pc[j] /\ on'[j] = on[j],
           \A x \in Campaigns : CallUses(k, x)
    PROVE  BoundInv'
<1> SUFFICES ASSUME NEW x \in Campaigns
             PROVE  (published[x] + Cardinality(Claims(x)) + ToClaim(x) + ToFire(x)
                      <= 1 + pauses[x] + disturbances)'
  BY DEF BoundInv
<1>1. PICK n \in Nat : /\ Cardinality(Claims(x)) = n + Bit(k \in Claims(x))
                       /\ Cardinality(Claims(x)') = n + Bit(k \in Claims(x)')
  BY OneCallMoves
<1>2. /\ published[x] \in Nat /\ pauses[x] \in Nat /\ disturbances \in Nat
      /\ ToClaim(x) \in 0..1 /\ ToFire(x) \in 0..1
  BY NumbersAreNaturals
<1>3. /\ published'[x] \in Nat /\ pauses'[x] \in Nat /\ disturbances' \in Nat
      /\ ToClaim(x)' \in 0..1
  BY DEF TypeInv, HistoryType, ToClaim
<1>4. ToFire(x)' = ToFire(x)
  BY DEF ToFire
<1>5. Bit(k \in Claims(x)) \in 0..1 /\ Bit(k \in Claims(x)') \in 0..1
  BY DEF Bit
<1>6. published[x] + Cardinality(Claims(x)) + ToClaim(x) + ToFire(x) <= 1 + pauses[x] + disturbances
  BY DEF BoundInv
<1>7. CallUses(k, x)
  OBVIOUS
<1> QED BY <1>1, <1>2, <1>3, <1>4, <1>5, <1>6, <1>7 DEF CallUses, Grant

\* A step that moves no call changes the use of campaign x by what follows.
LEMMA OtherKeepsBound ==
    ASSUME TypeInv, TypeInv', BoundInv, UNCHANGED <<pc, on>>,
           \A x \in Campaigns :
               ToFire(x)' + ToClaim(x)' + published'[x] - ToFire(x) - ToClaim(x) - published[x]
                 <= Grant(x)' - Grant(x)
    PROVE  BoundInv'
<1> SUFFICES ASSUME NEW x \in Campaigns
             PROVE  (published[x] + Cardinality(Claims(x)) + ToClaim(x) + ToFire(x)
                      <= 1 + pauses[x] + disturbances)'
  BY DEF BoundInv
<1>1. /\ published[x] \in Nat /\ pauses[x] \in Nat /\ disturbances \in Nat
      /\ ToClaim(x) \in 0..1 /\ ToFire(x) \in 0..1 /\ Cardinality(Claims(x)) \in Nat
  BY NumbersAreNaturals
<1>2. /\ published'[x] \in Nat /\ pauses'[x] \in Nat /\ disturbances' \in Nat
      /\ ToClaim(x)' \in 0..1 /\ ToFire(x)' \in 0..1
  BY DEF TypeInv, HistoryType, ToClaim, ToFire
<1>3. Claims(x)' = Claims(x)
  BY DEF Claims
<1>4. Cardinality(Claims(x)') = Cardinality(Claims(x))
  BY <1>3
<1>5. published[x] + Cardinality(Claims(x)) + ToClaim(x) + ToFire(x) <= 1 + pauses[x] + disturbances
  BY DEF BoundInv
<1>6. ToFire(x)' + ToClaim(x)' + published'[x] - ToFire(x) - ToClaim(x) - published[x]
        <= Grant(x)' - Grant(x)
  OBVIOUS
<1> QED BY <1>1, <1>2, <1>4, <1>5, <1>6 DEF Grant

LEMMA DisturbCounts ==
    ASSUME TypeInv
    PROVE  /\ disturbances \in Nat
           /\ Disturb => disturbances' = disturbances + 1
           /\ Undisturbed => disturbances' = disturbances
BY DEF TypeInv, HistoryType, Disturb, Undisturbed

LEMMA StoreCounts ==
    ASSUME TypeInv, NEW c \in Campaigns, NEW d, NEW x \in Campaigns, StoreStart(c, d)
    PROVE  published'[x] = IF x = c THEN published[x] + 1 ELSE published[x]
BY DEF TypeInv, HistoryType, StoreStart

LEMMA CallStepBound ==
    ASSUME TypeInv, TypeInv', BoundInv, NEW k \in Calls, CallStep(k) \/ CrashCall(k)
    PROVE  BoundInv'
<1>0. pc[k] # "idle" => on[k] \in Campaigns /\ seen[k] \in Snapshots
  BY DEF TypeInv, CallType
<1>1. UNCHANGED firing
  BY DEF CallStep, CrashCall, Update, Schedule, CountSent, ClaimForSend, Publish, Rollback, Pause,
         Resume, Republish, Delete
<1>2. /\ \A j \in Calls \ {k} : pc'[j] = pc[j] /\ on'[j] = on[j]
      /\ \/ Return(k) \/ \E l \in Labels : pc[k] # "idle" /\ (GoTo(k, l) \/ Proceed(k, l))
  <2>1. \/ Return(k) \/ \E l \in Labels : pc[k] # "idle" /\ (GoTo(k, l) \/ Proceed(k, l))
    BY DEF CallStep, CrashCall, Update, Schedule, CountSent, ClaimForSend, Publish, Rollback, Pause,
           Resume, Republish, Delete, Labels
  <2>2. \A j \in Calls \ {k} : pc'[j] = pc[j] /\ on'[j] = on[j]
    BY <2>1 DEF Return, GoTo, Proceed, TypeInv, CallType
  <2> QED BY <2>1, <2>2
<1> SUFFICES ASSUME NEW x \in Campaigns PROVE CallUses(k, x)
  BY <1>1, <1>2, CallKeepsBound
<1>3. /\ published[x] \in Nat /\ pauses[x] \in Nat /\ disturbances \in Nat
  BY NumbersAreNaturals
<1>4. RowType
  BY DEF TypeInv
<1>5. Return(k) => k \notin Claims(x)'
  BY DEF Return, Claims, TypeInv, CallType
<1>6. Same(x) => ToClaim(x)' = ToClaim(x)
  BY DEF Same, ToClaim, Status
<1>7. UNCHANGED campaign => ToClaim(x)' = ToClaim(x)
  BY DEF ToClaim, Status
<1>8. k \in Claims(x) <=> on[k] = x /\ pc[k] \in {"publish", "rollback", "republish"}
  BY DEF Claims
<1>9. ToClaim(x) \in 0..1 /\ ToClaim(x)' \in 0..1
  BY DEF ToClaim
\* A step that leaves status and counters alone and claims nothing.
<1>10. ASSUME Return(k), UNCHANGED <<published, pauses>>, ToClaim(x)' <= ToClaim(x),
              disturbances' \in Nat, disturbances' >= disturbances
       PROVE  CallUses(k, x)
  BY <1>3, <1>5, <1>9, <1>10 DEF CallUses, Bit, Grant
<1>11. CASE Update(k)
  BY <1>3, <1>7, <1>9, <1>10, <1>11 DEF Update
<1>12. CASE Schedule(k)
  <2>1. ToClaim(x)' <= ToClaim(x)
    <3>1. CASE Matches(on[k], {"draft", "scheduled", "paused"})
      <4>1. IF x = on[k] THEN campaign'[x].status = "scheduled" ELSE Same(x)
        BY <1>0, <1>4, <1>12, <3>1, StatementEffects DEF Schedule, Becomes, CampaignStatus
      <4>2. x = on[k] => ToClaim(x) = 1
        BY <3>1 DEF Matches, ToClaim, Status, Open
      <4> QED BY <1>6, <1>9, <4>1, <4>2
    <3>2. CASE ~Matches(on[k], {"draft", "scheduled", "paused"})
      BY <1>7, <1>9, <1>12, <3>2 DEF Schedule
    <3> QED BY <3>1, <3>2
  <2> QED BY <1>3, <1>10, <1>12, <2>1 DEF Schedule
<1>13. CASE CountSent(k)
  <2>1. ToClaim(x)' = ToClaim(x)
    BY <1>7, <1>13 DEF CountSent, rows
  <2>2. k \notin Claims(x)'
    BY <1>13, <1>5 DEF CountSent, GoTo, Claims, TypeInv, CallType
  <2>3. UNCHANGED <<published, pauses, disturbances>>
    BY <1>13 DEF CountSent
  <2> QED BY <1>3, <1>9, <2>1, <2>2, <2>3 DEF CallUses, Bit, Grant
<1>14. CASE ClaimForSend(k)
  <2>0. UNCHANGED <<published, pauses, disturbances>>
    BY <1>14 DEF ClaimForSend
  <2>1. CASE Claimable(k)
    <3>1. Matches(on[k], {"draft", "scheduled", "paused"}) /\ on[k] \in Campaigns
      BY <1>0, <1>14, <2>1 DEF Claimable, ClaimForSend
    <3>2. IF x = on[k] THEN ToClaim(x) = 1 /\ ToClaim(x)' = 0 ELSE ToClaim(x)' = ToClaim(x)
      BY <1>4, <1>6, <1>14, <2>1, <3>1, StatementEffects
         DEF ClaimForSend, Matches, ToClaim, Status, Open
    <3>3. x # on[k] => k \notin Claims(x)'
      BY <1>14, <2>1 DEF ClaimForSend, Proceed, Claims
    <3> QED BY <1>3, <1>9, <2>0, <3>2, <3>3 DEF CallUses, Bit, Grant
  <2>2. CASE ~Claimable(k)
    BY <1>3, <1>7, <1>9, <1>10, <1>14, <2>0, <2>2 DEF ClaimForSend
  <2> QED BY <2>1, <2>2
<1>15. CASE Publish(k)
  <2>1. ToClaim(x)' = ToClaim(x) /\ UNCHANGED pauses
    BY <1>7, <1>15 DEF Publish, rows
  <2>2. k \in Claims(x) <=> x = on[k]
    BY <1>8, <1>15 DEF Publish
  <2>3. CASE Undisturbed /\ StoreStart(on[k], seen[k].content) /\ Return(k)
    <3>1. published'[x] = IF x = on[k] THEN published[x] + 1 ELSE published[x]
      BY <1>0, <1>15, <2>3, StoreCounts DEF Publish
    <3> QED BY <1>3, <1>5, <1>9, <2>1, <2>2, <2>3, <3>1, DisturbCounts DEF CallUses, Bit, Grant
  <2>4. CASE Disturb /\ GoTo(k, "rollback")
    <3>1. published'[x] <= published[x] + 1 /\ published'[x] \in Nat
      BY <1>0, <1>3, <1>15, <2>4, StoreCounts DEF Publish
    <3>2. k \in Claims(x)' <=> x = on[k]
      BY <1>0, <1>15, <2>4 DEF GoTo, Claims, TypeInv, CallType, Publish
    <3> QED BY <1>3, <1>9, <2>1, <2>2, <2>4, <3>1, <3>2, DisturbCounts DEF CallUses, Bit, Grant
  <2> QED BY <1>15, <2>3, <2>4 DEF Publish
<1>16. CASE Rollback(k)
  <2>0. Return(k) /\ UNCHANGED <<published, pauses>>
    BY <1>16 DEF Rollback
  <2>1. k \in Claims(x) <=> x = on[k]
    BY <1>8, <1>16 DEF Rollback
  <2>2. x # on[k] => ToClaim(x)' = ToClaim(x)
    BY <1>0, <1>4, <1>6, <1>7, <1>16, StatementEffects DEF Rollback, Snapshots
  <2>3. disturbances' \in Nat /\ disturbances' >= disturbances
    BY <1>16, DisturbCounts DEF Rollback
  <2>4. x = on[k] => ToClaim(x)' <= ToClaim(x) + 1
    BY <1>9
  <2> QED BY <1>3, <1>5, <1>9, <2>0, <2>1, <2>2, <2>3, <2>4 DEF CallUses, Bit, Grant
<1>17. CASE Pause(k)
  <2>0. Return(k) /\ UNCHANGED <<published, disturbances>>
    BY <1>17 DEF Pause
  <2>1. CASE Matches(on[k], {"scheduled", "sending"})
    <3>1. pauses'[x] = IF x = on[k] THEN pauses[x] + 1 ELSE pauses[x]
      BY <1>0, <1>17, <2>1 DEF Pause, TypeInv, HistoryType
    <3>2. x # on[k] => ToClaim(x)' = ToClaim(x)
      BY <1>0, <1>4, <1>6, <1>17, <2>1, StatementEffects DEF Pause, CampaignStatus
    <3> QED BY <1>3, <1>5, <1>9, <2>0, <3>1, <3>2 DEF CallUses, Bit, Grant
  <2>2. CASE ~Matches(on[k], {"scheduled", "sending"})
    <3>1. UNCHANGED <<campaign, pauses>>
      BY <1>17, <2>2 DEF Pause
    <3> QED BY <1>3, <1>7, <1>9, <1>10, <2>0, <3>1
  <2> QED BY <2>1, <2>2
<1>18. CASE Resume(k)
  <2>0. UNCHANGED <<published, pauses, disturbances>>
    BY <1>18 DEF Resume
  <2>1. ResumeTarget(seen[k]) \in {"sending", "scheduled", "draft"}
    BY DEF ResumeTarget
  <2>2. CASE Matches(on[k], {"paused"})
    <3>1. SetStatus(on[k], ResumeTarget(seen[k])) /\ on[k] \in Campaigns
      BY <1>0, <1>18, <2>2 DEF Resume
    <3>2. IF x = on[k] THEN campaign'[x].status = ResumeTarget(seen[k]) ELSE Same(x)
      BY <1>4, <2>1, <3>1, StatementEffects DEF Becomes, CampaignStatus
    <3>3. x = on[k] => ToClaim(x) = 1
      BY <2>2 DEF Matches, ToClaim, Status, Open
    <3>4. CASE ResumeTarget(seen[k]) = "sending"
      <4>1. x = on[k] => ToClaim(x)' = 0
        BY <3>2, <3>4 DEF ToClaim, Status, Open
      <4>2. x # on[k] => k \notin Claims(x)'
        BY <1>18, <2>2, <3>4 DEF Resume, Proceed, Claims
      <4> QED BY <1>3, <1>6, <1>9, <2>0, <3>2, <3>3, <4>1, <4>2 DEF CallUses, Bit, Grant
    <3>5. CASE ResumeTarget(seen[k]) # "sending"
      <4>1. Return(k)
        BY <1>18, <2>2, <3>5 DEF Resume
      <4>2. ToClaim(x)' <= ToClaim(x)
        BY <1>6, <1>9, <3>2, <3>3
      <4> QED BY <1>3, <1>10, <2>0, <4>1, <4>2
    <3> QED BY <3>4, <3>5
  <2>3. CASE ~Matches(on[k], {"paused"})
    BY <1>3, <1>7, <1>9, <1>10, <1>18, <2>0, <2>3 DEF Resume
  <2> QED BY <2>2, <2>3
<1>19. CASE Republish(k)
  <2>1. ToClaim(x)' = ToClaim(x) /\ UNCHANGED pauses /\ Return(k)
    BY <1>7, <1>19 DEF Republish, rows
  <2>2. k \in Claims(x) <=> x = on[k]
    BY <1>8, <1>19 DEF Republish
  <2>3. disturbances' \in Nat /\ disturbances' >= disturbances
    BY <1>19, DisturbCounts DEF Republish
  <2>4. IF x = on[k] THEN published'[x] \in {published[x], published[x] + 1}
                     ELSE published'[x] = published[x]
    BY <1>0, <1>19, StoreCounts DEF Republish
  <2> QED BY <1>3, <1>5, <1>9, <2>1, <2>2, <2>3, <2>4 DEF CallUses, Bit, Grant
<1>20. CASE Delete(k)
  <2>1. ToClaim(x)' <= ToClaim(x)
    <3>1. \/ UNCHANGED campaign
          \/ IF x = on[k] THEN campaign'[x].status = "cancelled" ELSE Same(x)
      BY <1>0, <1>4, <1>20, StatementEffects DEF Delete
    <3>2. campaign'[x].status = "cancelled" => ToClaim(x)' = 0
      BY DEF ToClaim, Status, Open
    <3> QED BY <1>6, <1>7, <1>9, <3>1, <3>2
  <2> QED BY <1>3, <1>10, <1>20, <2>1 DEF Delete
<1>21. CASE CrashCall(k)
  <2>1. ToClaim(x)' = ToClaim(x)
    BY <1>7, <1>21 DEF CrashCall, rows
  <2> QED BY <1>3, <1>9, <1>10, <1>21, <2>1, DisturbCounts DEF CrashCall
<1> QED
  BY <1>11, <1>12, <1>13, <1>14, <1>15, <1>16, <1>17, <1>18, <1>19, <1>20, <1>21 DEF CallStep

LEMMA RequestBound ==
    ASSUME TypeInv, TypeInv', BoundInv, NEW k \in Calls, NEW c \in Campaigns, Request(k, c)
    PROVE  BoundInv'
<1>1. PICK l \in Labels \ {"idle", "publish", "rollback", "republish"} : Begin(k, c, l)
  BY DEF Request, BeginUpdate, BeginSchedule, BeginSend, BeginPause, BeginResume, BeginDelete, Labels
<1>2. /\ UNCHANGED <<campaign, firing, published, pauses, disturbances>> /\ pc[k] = "idle"
      /\ pc' = [pc EXCEPT ![k] = l] /\ on' = [on EXCEPT ![k] = c]
  BY <1>1 DEF Begin, rows
<1>3. \A j \in Calls \ {k} : pc'[j] = pc[j] /\ on'[j] = on[j]
  BY <1>2 DEF TypeInv, CallType
<1>4. \A x \in Campaigns : CallUses(k, x)
  <2> SUFFICES ASSUME NEW x \in Campaigns PROVE CallUses(k, x)
    OBVIOUS
  <2>1. k \notin Claims(x) /\ k \notin Claims(x)'
    BY <1>1, <1>2 DEF Claims, TypeInv, CallType
  <2>2. ToClaim(x)' = ToClaim(x)
    BY <1>2 DEF ToClaim, Status
  <2> QED BY <1>2, <2>1, <2>2, NumbersAreNaturals DEF CallUses, Bit, Grant
<1> QED BY <1>2, <1>3, <1>4, CallKeepsBound

LEMMA BackgroundBound ==
    ASSUME TypeInv, TypeInv', BoundInv,
           WorkerStep \/ \E c \in Campaigns : TimeComes(c) \/ SchedulerStep(c) \/ WindowEnds(c)
    PROVE  BoundInv'
<1>1. UNCHANGED <<pc, on, pauses>>
  BY DEF WorkerStep, TimeComes, SchedulerStep, SchedulerPoll, SchedulerFire, WindowEnds, StreamStart,
         RecordTotal, SendChunk, CompleteChunk, rpc
<1> SUFFICES ASSUME NEW x \in Campaigns
             PROVE  ToFire(x)' + ToClaim(x)' + published'[x] - ToFire(x) - ToClaim(x) - published[x]
                      <= Grant(x)' - Grant(x)
  BY <1>1, OtherKeepsBound
<1>2. /\ published[x] \in Nat /\ pauses[x] \in Nat /\ disturbances \in Nat
  BY NumbersAreNaturals
<1>3. /\ ToFire(x) \in 0..1 /\ ToFire(x)' \in 0..1 /\ ToClaim(x) \in 0..1 /\ ToClaim(x)' \in 0..1
  BY DEF ToFire, ToClaim
<1>4. Same(x) => ToClaim(x)' = ToClaim(x)
  BY DEF Same, ToClaim, Status
<1>5. UNCHANGED campaign => ToClaim(x)' = ToClaim(x)
  BY DEF ToClaim, Status
<1>6. UNCHANGED firing => ToFire(x)' = ToFire(x)
  BY DEF ToFire
<1>7. RowType
  BY DEF TypeInv
<1>8. \A m \in starts \cup chunks : m.of \in Campaigns
  BY DEF TypeInv, WorkType, StartMessages, ChunkMessages
<1>9. campaign'[x].status \notin Open => ToClaim(x)' = 0
  BY DEF ToClaim, Status
\* A step that may take the status away from the next claim, and no more.
<1>10. ASSUME UNCHANGED <<published, firing>>, ToClaim(x)' <= ToClaim(x),
              disturbances' \in Nat, disturbances' >= disturbances
       PROVE  ToFire(x)' + ToClaim(x)' + published'[x] - ToFire(x) - ToClaim(x) - published[x]
                <= Grant(x)' - Grant(x)
  BY <1>1, <1>2, <1>3, <1>6, <1>10 DEF Grant
<1>11. ASSUME NEW c \in Campaigns, TimeComes(c) \/ WindowEnds(c)
       PROVE  ToFire(x)' + ToClaim(x)' + published'[x] - ToFire(x) - ToClaim(x) - published[x]
                <= Grant(x)' - Grant(x)
  BY <1>2, <1>3, <1>5, <1>10, <1>11 DEF TimeComes, WindowEnds, rows
<1>12. ASSUME NEW c \in Campaigns, SchedulerPoll(c)
       PROVE  ToFire(x)' + ToClaim(x)' + published'[x] - ToFire(x) - ToClaim(x) - published[x]
                <= Grant(x)' - Grant(x)
  <2>1. IF x = c THEN campaign'[x].status = "sending" ELSE Same(x)
    BY <1>7, <1>12, StatementEffects DEF SchedulerPoll
  <2>2. x = c => ToClaim(x) = 1
    BY <1>12 DEF SchedulerPoll, IsDue, ToClaim, Status, Open
  <2>3. x # c => ToFire(x)' = ToFire(x)
    BY <1>12 DEF SchedulerPoll, ToFire, TypeInv, WorkType
  <2>4. x = c => ToFire(x) = 0
    BY <1>12 DEF SchedulerPoll, ToFire
  <2>5. UNCHANGED <<published, disturbances>>
    BY <1>12 DEF SchedulerPoll
  <2>6. x = c => ToClaim(x)' = 0
    BY <2>1, <1>9 DEF Open
  <2> QED BY <1>1, <1>2, <1>3, <1>4, <2>1, <2>2, <2>3, <2>4, <2>5, <2>6 DEF Grant
<1>13. ASSUME NEW c \in Campaigns, SchedulerFire(c)
       PROVE  ToFire(x)' + ToClaim(x)' + published'[x] - ToFire(x) - ToClaim(x) - published[x]
                <= Grant(x)' - Grant(x)
  <2>1. ToClaim(x)' = ToClaim(x)
    BY <1>5, <1>13 DEF SchedulerFire, rows
  <2>2. IF x = c THEN ToFire(x) = 1 /\ ToFire(x)' = 0 ELSE ToFire(x)' = ToFire(x)
    BY <1>13 DEF SchedulerFire, ToFire, TypeInv, WorkType
  <2>3. IF x = c THEN published'[x] \in {published[x], published[x] + 1}
                 ELSE published'[x] = published[x]
    BY <1>13, StoreCounts DEF SchedulerFire
  <2>4. disturbances' \in Nat /\ disturbances' >= disturbances
    BY <1>13, DisturbCounts DEF SchedulerFire
  <2> QED BY <1>1, <1>2, <1>3, <2>1, <2>2, <2>3, <2>4 DEF Grant
<1>14. ASSUME WorkerStep
       PROVE  ToFire(x)' + ToClaim(x)' + published'[x] - ToFire(x) - ToClaim(x) - published[x]
                <= Grant(x)' - Grant(x)
  <2>1. UNCHANGED <<published, firing>>
    BY <1>14 DEF WorkerStep, StreamStart, RecordTotal, SendChunk, CompleteChunk
  <2>2. disturbances' \in Nat /\ disturbances' >= disturbances
    BY <1>14, DisturbCounts DEF WorkerStep, StreamStart, RecordTotal, SendChunk, CompleteChunk
  <2>3. UNCHANGED campaign \/ Same(x) \/ campaign'[x].status \in {"sending", "completed"}
    BY <1>7, <1>8, <1>14, StatementEffects
       DEF WorkerStep, StreamStart, RecordTotal, SendChunk, CompleteChunk, Becomes, rows
  <2>4. ToClaim(x)' <= ToClaim(x)
    BY <1>3, <1>4, <1>5, <1>9, <2>3 DEF Open
  <2> QED BY <1>10, <2>1, <2>2, <2>4
<1> QED BY <1>11, <1>12, <1>13, <1>14 DEF SchedulerStep

LEMMA BoundStep == TypeInv /\ TypeInv' /\ BoundInv /\ [Next]_vars => BoundInv'
<1> SUFFICES ASSUME TypeInv, TypeInv', BoundInv, [Next]_vars PROVE BoundInv'
  OBVIOUS
<1>1. CASE UNCHANGED vars
  BY <1>1, OtherKeepsBound, NumbersAreNaturals DEF vars, ToFire, ToClaim, Status, Grant
<1>2. CASE Next
  BY <1>2, RequestBound, CallStepBound, BackgroundBound DEF Next
<1> QED BY <1>1, <1>2

\* Two users, or a user and the scheduler, who send a campaign at the same
\* time publish it once: a status that allows a claim, a claim in hand and a
\* start already published exclude each other, unless somebody paused the
\* campaign or something failed.
THEOREM PublishedOnce == Spec => []OneStartUnlessPaused
<1>1. TypeInv /\ BoundInv => OneStartUnlessPaused
  BY NumbersAreNaturals DEF BoundInv, OneStartUnlessPaused
<1> QED BY <1>1, TypeAlways, BoundInit, BoundStep, PTL DEF Spec

-----------------------------------------------------------------------------
(* What one step does to a campaign's row.                                  *)

StatusInv == \A c \in Campaigns :
    Status(c) # "queued" /\ (Status(c) = "sending" => Live(c))

\* The version a send read tells it the status is still one to send from; what
\* it took the status from is where a roll-back leads.
ReadsInv == \A k \in Calls :
    /\ pc[k] \in {"count", "claim"} =>
          /\ seen[k].version <= version[on[k]]
          /\ seen[k].version = version[on[k]] /\ Status(on[k]) \in Open => seen[k].status \in Open
    /\ pc[k] \in {"publish", "rollback"} => seen[k].status \in Open

\* Status and version of x after a step: a row enters a status to send from with
\* a new version, and 'sending' as a row that is not deleted.
RowMoves(x) ==
    /\ version'[x] \in Nat /\ version'[x] >= version[x]
    /\ campaign'[x].status \in Open => Status(x) \in Open \/ version'[x] > version[x]
    /\ campaign'[x].status # "queued"
    /\ campaign'[x].status = "sending" => ~campaign'[x].deleted_at
    /\ content'[x] # content[x] => Status(x) = "draft" /\ Same(x)
    /\ Started(x) => campaign'[x].started_at

LEMMA CallMovesRow ==
    ASSUME TypeInv, TypeInv', StatusInv, ReadsInv, NEW k \in Calls, CallStep(k) \/ CrashCall(k),
           NEW x \in Campaigns
    PROVE  RowMoves(x)
<1>0. /\ pc[k] # "idle" => on[k] \in Campaigns /\ seen[k] \in Snapshots
      /\ version[x] \in Nat /\ version'[x] \in Nat /\ RowType
  BY DEF TypeInv, CallType, RowType
<1>1. Status(x) # "queued" /\ (Status(x) = "sending" => ~campaign[x].deleted_at)
  BY DEF StatusInv, Live
<1>2. ASSUME NEW c \in Campaigns, Bump(c)
      PROVE  version'[x] = IF x = c THEN version[x] + 1 ELSE version[x]
  BY <1>2 DEF Bump, TypeInv, RowType
<1>3. ASSUME UNCHANGED <<campaign, version>>, content'[x] = content[x] \/ Status(x) = "draft"
      PROVE  RowMoves(x)
  BY <1>0, <1>1, <1>3 DEF RowMoves, Same, Status, Started
<1>4. ASSUME Same(x), version'[x] \in {version[x], version[x] + 1},
             content'[x] = content[x] \/ Status(x) = "draft"
      PROVE  RowMoves(x)
  BY <1>0, <1>1, <1>4 DEF RowMoves, Same
<1>5. ASSUME NEW c \in Campaigns, NEW s \in CampaignStatus \ {"queued"},
             SetStatus(c, s), Bump(c), UNCHANGED content, s = "sending" => Live(c)
      PROVE  RowMoves(x)
  <2>1. IF x = c THEN Becomes(x, s) ELSE Same(x)
    BY <1>0, <1>5, StatementEffects
  <2>2. CASE x = c
    BY <1>0, <1>2, <1>5, <2>1, <2>2 DEF RowMoves, Becomes, Live
  <2>3. CASE x # c
    BY <1>0, <1>2, <1>4, <1>5, <2>1, <2>3
  <2> QED BY <2>2, <2>3
<1>6. CASE Update(k)
  <2>1. version'[x] \in {version[x], version[x] + 1}
    BY <1>0, <1>2, <1>6 DEF Update
  <2>2. content'[x] = content[x] \/ Status(x) = "draft"
    BY <1>0, <1>6 DEF Update, Matches, Editable, TypeInv, RowType
  <2>3. Same(x)
    BY <1>6 DEF Update, Same, Status, Started
  <2> QED BY <1>4, <2>1, <2>2, <2>3
<1>7. CASE Schedule(k)
  BY <1>0, <1>3, <1>5, <1>7 DEF Schedule, CampaignStatus
<1>8. CASE ClaimForSend(k)
  <2>1. CASE Claimable(k)
    <3>1. /\ campaign' = [campaign EXCEPT ![on[k]].status = "sending", ![on[k]].started_at = TRUE]
          /\ Bump(on[k]) /\ UNCHANGED content /\ Live(on[k]) /\ on[k] \in Campaigns
      BY <1>0, <1>8, <2>1 DEF ClaimForSend, Claimable, Matches
    <3>2. IF x = on[k] THEN campaign'[x].status = "sending" /\ campaign'[x].started_at
                            /\ campaign'[x].deleted_at = campaign[x].deleted_at ELSE Same(x)
      BY <1>0, <3>1, StatementEffects
    <3>3. CASE x = on[k]
      BY <1>0, <1>2, <3>1, <3>2, <3>3 DEF RowMoves, Live, Open
    <3>4. CASE x # on[k]
      BY <1>0, <1>2, <1>4, <3>1, <3>2, <3>4
    <3> QED BY <3>3, <3>4
  <2>2. CASE ~Claimable(k)
    BY <1>3, <1>8, <2>2 DEF ClaimForSend
  <2> QED BY <2>1, <2>2
<1>9. CASE Rollback(k)
  <2>1. seen[k].status \in Open
    BY <1>9 DEF Rollback, ReadsInv
  <2>2. seen[k].status \in CampaignStatus \ {"queued"} /\ seen[k].status # "sending"
    BY <2>1 DEF Open, CampaignStatus
  <2> QED BY <1>0, <1>3, <1>5, <1>9, <2>2 DEF Rollback
<1>10. CASE Pause(k)
  BY <1>0, <1>3, <1>5, <1>10 DEF Pause, CampaignStatus
<1>11. CASE Resume(k)
  <2>1. ResumeTarget(seen[k]) \in CampaignStatus \ {"queued"}
    BY DEF ResumeTarget, CampaignStatus
  <2> QED BY <1>0, <1>3, <1>5, <1>11, <2>1 DEF Resume, Matches
<1>12. CASE Delete(k)
  <2>1. CASE Live(on[k])
    <3>1. IF x = on[k] THEN campaign'[x].status = "cancelled" /\ campaign'[x].started_at = Started(x)
                       ELSE Same(x)
      BY <1>0, <1>12, <2>1, StatementEffects DEF Delete
    <3>2. Bump(on[k]) /\ UNCHANGED content /\ on[k] \in Campaigns
      BY <1>0, <1>12, <2>1 DEF Delete
    <3>3. CASE x = on[k]
      BY <1>0, <1>2, <3>1, <3>2, <3>3 DEF RowMoves, Open
    <3>4. CASE x # on[k]
      BY <1>0, <1>2, <1>4, <3>1, <3>2, <3>4
    <3> QED BY <3>3, <3>4
  <2>2. CASE ~Live(on[k])
    BY <1>3, <1>12, <2>2 DEF Delete
  <2> QED BY <2>1, <2>2
<1>13. CASE CountSent(k) \/ Publish(k) \/ Republish(k) \/ CrashCall(k)
  BY <1>3, <1>13 DEF CountSent, Publish, Republish, CrashCall, rows
<1> QED BY <1>6, <1>7, <1>8, <1>9, <1>10, <1>11, <1>12, <1>13 DEF CallStep

LEMMA OthersMoveRow ==
    ASSUME TypeInv, TypeInv', StatusInv, NEW x \in Campaigns,
           \/ \E k \in Calls, c \in Campaigns : Request(k, c)
           \/ WorkerStep \/ \E c \in Campaigns : TimeComes(c) \/ SchedulerStep(c) \/ WindowEnds(c)
           \/ UNCHANGED vars
    PROVE  RowMoves(x) /\ version'[x] = version[x] /\ content'[x] = content[x]
<1>0. version[x] \in Nat /\ version'[x] \in Nat /\ RowType
  BY DEF TypeInv, RowType
<1>1. Status(x) # "queued" /\ (Status(x) = "sending" => ~campaign[x].deleted_at)
  BY DEF StatusInv, Live
<1>2. version'[x] = version[x] /\ content'[x] = content[x]
  BY DEF Request, BeginUpdate, BeginSchedule, BeginSend, BeginPause, BeginResume, BeginDelete, Begin,
         WorkerStep, TimeComes, SchedulerStep, SchedulerPoll, SchedulerFire, WindowEnds, StreamStart,
         RecordTotal, SendChunk, CompleteChunk, rows, vars
<1>3. \A m \in starts \cup chunks : m.of \in Campaigns
  BY DEF TypeInv, WorkType, StartMessages, ChunkMessages
<1>4. ASSUME UNCHANGED campaign \/ Same(x) PROVE RowMoves(x)
  BY <1>0, <1>1, <1>2, <1>4 DEF RowMoves, Same, Status, Started
<1>5. ASSUME NEW c \in Campaigns, SchedulerPoll(c) PROVE RowMoves(x)
  <2>1. IF x = c THEN campaign'[x].status = "sending" /\ campaign'[x].started_at
                      /\ campaign'[x].deleted_at = campaign[x].deleted_at ELSE Same(x)
    BY <1>0, <1>5, StatementEffects DEF SchedulerPoll
  <2>2. x = c => ~campaign[x].deleted_at
    BY <1>5 DEF SchedulerPoll, IsDue
  <2> QED BY <1>0, <1>2, <1>4, <2>1, <2>2 DEF RowMoves, Open
<1>6. ASSUME NEW m \in starts, RecordTotal(m) PROVE RowMoves(x)
  <2>1. \/ UNCHANGED campaign \/ Same(x)
        \/ /\ Status(x) \in {"queued", "sending"} /\ campaign'[x].status = "sending"
           /\ campaign'[x].started_at /\ campaign'[x].deleted_at = campaign[x].deleted_at
    BY <1>0, <1>3, <1>6, StatementEffects DEF RecordTotal
  <2> QED BY <1>0, <1>1, <1>2, <1>4, <2>1 DEF RowMoves, Open
<1>7. ASSUME NEW m \in chunks, SendChunk(m) \/ CompleteChunk(m) PROVE RowMoves(x)
  <2>1. \/ UNCHANGED campaign \/ Same(x) \/ Becomes(x, "completed")
    BY <1>0, <1>3, <1>7, StatementEffects DEF SendChunk, CompleteChunk
  <2> QED BY <1>0, <1>1, <1>2, <1>4, <2>1 DEF RowMoves, Open, Becomes
<1>8. \/ UNCHANGED campaign
      \/ \E c \in Campaigns : SchedulerPoll(c)
      \/ \E m \in starts : RecordTotal(m)
      \/ \E m \in chunks : SendChunk(m) \/ CompleteChunk(m)
  BY DEF Request, BeginUpdate, BeginSchedule, BeginSend, BeginPause, BeginResume, BeginDelete, Begin,
         WorkerStep, TimeComes, SchedulerStep, SchedulerFire, WindowEnds, StreamStart, rows, vars
<1> QED BY <1>2, <1>4, <1>5, <1>6, <1>7, <1>8

LEMMA MovesRow ==
    ASSUME TypeInv, TypeInv', StatusInv, ReadsInv, [Next]_vars, NEW x \in Campaigns
    PROVE  RowMoves(x)
BY CallMovesRow, OthersMoveRow DEF Next

LEMMA ReadsStep ==
    ASSUME TypeInv, TypeInv', StatusInv, ReadsInv, [Next]_vars
    PROVE  StatusInv' /\ ReadsInv'
<1>1. \A x \in Campaigns : RowMoves(x)
  BY MovesRow
<1>2. StatusInv'
  BY <1>1 DEF RowMoves, StatusInv, Status, Live
<1> SUFFICES ASSUME NEW k \in Calls
             PROVE (/\ pc[k] \in {"count", "claim"} =>
                          /\ seen[k].version <= version[on[k]]
                          /\ seen[k].version = version[on[k]] /\ Status(on[k]) \in Open =>
                                seen[k].status \in Open
                    /\ pc[k] \in {"publish", "rollback"} => seen[k].status \in Open)'
  BY <1>2 DEF ReadsInv
<1>3. pc[k] # "idle" => /\ on[k] \in Campaigns /\ seen[k].version \in Nat
                        /\ version[on[k]] \in Nat /\ version'[on[k]] \in Nat
  BY DEF TypeInv, CallType, RowType, Snapshots
<1>4. ASSUME pc'[k] = pc[k] \/ (pc[k] = "count" /\ pc'[k] = "claim") \/
                 (pc[k] = "publish" /\ pc'[k] = "rollback"),
             on'[k] = on[k], seen'[k] = seen[k]
      PROVE  (/\ pc[k] \in {"count", "claim"} =>
                    /\ seen[k].version <= version[on[k]]
                    /\ seen[k].version = version[on[k]] /\ Status(on[k]) \in Open =>
                          seen[k].status \in Open
              /\ pc[k] \in {"publish", "rollback"} => seen[k].status \in Open)'
  <2>1. ASSUME pc[k] \in {"count", "claim"}
        PROVE  /\ seen[k].version <= version'[on[k]]
               /\ seen[k].version = version'[on[k]] /\ campaign'[on[k]].status \in Open =>
                     seen[k].status \in Open
    BY <1>1, <1>3, <2>1 DEF RowMoves, ReadsInv
  <2>2. pc[k] \in {"publish", "rollback"} => seen[k].status \in Open
    BY DEF ReadsInv
  <2> QED BY <1>4, <2>1, <2>2 DEF Status
<1>5. ASSUME NEW j \in Calls, j # k,
             CallStep(j) \/ CrashCall(j) \/ \E c \in Campaigns : Request(j, c)
      PROVE  pc'[k] = pc[k] /\ on'[k] = on[k] /\ seen'[k] = seen[k]
  <2>1. \/ Return(j) \/ \E l \in Labels : GoTo(j, l) \/ Proceed(j, l)
        \/ \E c \in Campaigns, l \in Labels : Begin(j, c, l)
    BY <1>5 DEF CallStep, CrashCall, Update, Schedule, CountSent, ClaimForSend, Publish, Rollback, Pause,
           Resume, Republish, Delete, Labels, Request, BeginUpdate, BeginSchedule, BeginSend, BeginPause,
           BeginResume, BeginDelete
  <2> QED BY <1>5, <2>1 DEF Return, GoTo, Proceed, Begin, TypeInv, CallType
<1>6. CASE CallStep(k) \/ CrashCall(k)
  <2>1. CASE Return(k)
    BY <2>1 DEF Return, TypeInv, CallType
  <2>2. CASE CountSent(k) /\ GoTo(k, "claim")
    BY <1>4, <2>2 DEF CountSent, GoTo, TypeInv, CallType
  <2>3. CASE Publish(k) /\ GoTo(k, "rollback")
    BY <1>4, <2>3 DEF Publish, GoTo, TypeInv, CallType
  <2>4. CASE ClaimForSend(k) /\ Claimable(k)
    <3>1. /\ pc[k] = "claim" /\ Proceed(k, "publish") /\ Status(on[k]) \in Open
          /\ seen[k].version = version[on[k]]
      BY <2>4 DEF ClaimForSend, Claimable, Matches, Open
    <3>2. seen[k].status \in Open
      BY <3>1 DEF ReadsInv
    <3>3. seen'[k].status = seen[k].status /\ pc'[k] = "publish"
      BY <3>1 DEF Proceed, TypeInv, CallType, Snapshots
    <3> QED BY <3>2, <3>3
  <2>5. CASE Resume(k) /\ Proceed(k, "republish")
    BY <2>5 DEF Proceed, TypeInv, CallType
  <2> QED
    BY <1>6, <2>1, <2>2, <2>3, <2>4, <2>5
       DEF CallStep, CrashCall, Update, Schedule, CountSent, ClaimForSend, Publish, Rollback, Pause,
           Resume, Republish, Delete
<1>7. ASSUME NEW c \in Campaigns, Request(k, c)
      PROVE  (/\ pc[k] \in {"count", "claim"} =>
                    /\ seen[k].version <= version[on[k]]
                    /\ seen[k].version = version[on[k]] /\ Status(on[k]) \in Open =>
                          seen[k].status \in Open
              /\ pc[k] \in {"publish", "rollback"} => seen[k].status \in Open)'
  <2>1. PICK l \in Labels \ {"publish", "rollback"} : Begin(k, c, l)
    BY <1>7 DEF Request, BeginUpdate, BeginSchedule, BeginSend, BeginPause, BeginResume, BeginDelete,
                Labels
  <2>2. /\ pc'[k] = l /\ on'[k] = c /\ seen'[k] = Snapshot(c) /\ UNCHANGED <<version, campaign>>
    BY <2>1 DEF Begin, rows, TypeInv, CallType
  <2>3. version[c] \in Nat
    BY DEF TypeInv, RowType
  <2> QED BY <2>2, <2>3 DEF Snapshot, Status
<1>8. CASE \/ UNCHANGED vars \/ WorkerStep
           \/ \E c \in Campaigns : TimeComes(c) \/ SchedulerStep(c) \/ WindowEnds(c)
  <2>1. UNCHANGED <<pc, on, seen>>
    BY <1>8 DEF WorkerStep, TimeComes, SchedulerStep, SchedulerPoll, SchedulerFire, WindowEnds,
           StreamStart, RecordTotal, SendChunk, CompleteChunk, rpc, vars
  <2> QED BY <1>4, <2>1
<1> QED BY <1>4, <1>5, <1>6, <1>7, <1>8 DEF Next

-----------------------------------------------------------------------------
(* A campaign in 'sending' has somebody at work for it.                     *)

\* A counted chunk was mailed; the duplicate window only remembers chunks that
\* are stored or were mailed.
ChunkInv ==
    /\ \A m \in chunks : m.step = "counted" => mailed[m.of] # Nothing
    /\ \A c \in dedup : mailed[c] # Nothing \/ \E m \in chunks : m.of = c

\* Whoever is at work says what the campaign says: a start with an older
\* content could be one of a template, and come to nothing.
ByChunk(c) == \E m \in chunks : m.of = c
ByStart(c) == \E m \in starts : m.of = c /\ m.step = "ready" /\ m.says = content[c]
ByCall(k, c) == /\ on[k] = c
                /\ \/ pc[k] \in {"publish", "republish"} /\ seen[k].content = content[c]
                   \/ pc[k] = "rollback"
InHand(c) == \/ mailed[c] # Nothing \/ content[c] \in TemplateOnly \/ firing[c] = content[c]
             \/ ByChunk(c) \/ ByStart(c) \/ \E k \in Calls : ByCall(k, c)

SendingInv == \A c \in Campaigns \ lost : Status(c) = "sending" => InHand(c)

LEMMA ChunkStep == TypeInv /\ ChunkInv /\ [Next]_vars => ChunkInv'
<1> SUFFICES ASSUME TypeInv, ChunkInv, [Next]_vars PROVE ChunkInv'
  OBVIOUS
<1>0. \A m \in starts \cup chunks : m.of \in Campaigns /\ m.says \in Contents
  BY DEF TypeInv, WorkType, StartMessages, ChunkMessages
<1>1. ASSUME UNCHANGED <<mailed, chunks, dedup>> PROVE ChunkInv'
  BY <1>1 DEF ChunkInv
<1>2. ASSUME NEW c \in Campaigns, WindowEnds(c) PROVE ChunkInv'
  BY <1>2 DEF ChunkInv, WindowEnds
<1>3. ASSUME NEW m \in starts, StreamStart(m) PROVE ChunkInv'
  <2>1. UNCHANGED mailed /\ m.step = "ready" /\ chunks \subseteq chunks'
    BY <1>3 DEF StreamStart
  <2>2. \A n \in chunks' : n \in chunks \/ n.step = "ready"
    BY <1>3 DEF StreamStart
  <2>3. \A c \in dedup' : c \in dedup \/ (c = m.of /\ m \in chunks')
    BY <1>3 DEF StreamStart
  <2> QED BY <2>1, <2>2, <2>3 DEF ChunkInv
<1>4. ASSUME NEW m \in chunks, SendChunk(m) PROVE ChunkInv'
  <2>1. m.says # Nothing /\ m.of \in Campaigns
    BY <1>0, ConstantsAssumption DEF ConstantsAssumption
  <2>2. /\ mailed'[m.of] # Nothing
        /\ \A c \in Campaigns : mailed[c] # Nothing => mailed'[c] # Nothing
    BY <1>4, <2>1 DEF SendChunk, TypeInv, WorkType
  <2>3. UNCHANGED dedup
    BY <1>4 DEF SendChunk
  <2>4. /\ \A n \in chunks' : n \in chunks \/ n.of = m.of
        /\ \A n \in chunks : n \in chunks' \/ n = m
    BY <1>4, <2>1 DEF SendChunk, TypeInv, WorkType, ChunkMessages
  <2> QED BY <1>0, <2>2, <2>3, <2>4 DEF ChunkInv, TypeInv, WorkType
<1>5. ASSUME NEW m \in chunks, CompleteChunk(m) PROVE ChunkInv'
  BY <1>5 DEF ChunkInv, CompleteChunk
<1>6. \/ UNCHANGED <<mailed, chunks, dedup>>
      \/ \E c \in Campaigns : WindowEnds(c)
      \/ \E m \in starts : StreamStart(m)
      \/ \E m \in chunks : SendChunk(m) \/ CompleteChunk(m)
  <2>1. ASSUME NEW k \in Calls, NEW c \in Campaigns, Request(k, c)
        PROVE  UNCHANGED <<mailed, chunks, dedup>>
    BY <2>1 DEF Request, BeginUpdate, BeginSchedule, BeginSend, BeginPause, BeginResume, BeginDelete,
                Begin, work
  <2>2. ASSUME NEW k \in Calls, CallStep(k) \/ CrashCall(k) PROVE UNCHANGED <<mailed, chunks, dedup>>
    BY <2>2 DEF CallStep, CrashCall, Update, Schedule, CountSent, ClaimForSend, Publish, Rollback,
                Pause, Resume, Republish, Delete, work
  <2>3. ASSUME NEW c \in Campaigns, TimeComes(c) \/ SchedulerStep(c)
        PROVE  UNCHANGED <<mailed, chunks, dedup>>
    BY <2>3 DEF TimeComes, SchedulerStep, SchedulerPoll, SchedulerFire, work
  <2>4. ASSUME NEW m \in starts, RecordTotal(m) PROVE UNCHANGED <<mailed, chunks, dedup>>
    BY <2>4 DEF RecordTotal
  <2> QED BY <2>1, <2>2, <2>3, <2>4 DEF Next, WorkerStep, vars
<1> QED BY <1>1, <1>2, <1>3, <1>4, <1>5, <1>6

\* A published start is there for the workers.
LEMMA StoredStart ==
    ASSUME NEW c, NEW x, StoreStart(c, x)
    PROVE  \E m \in starts' : m.of = c /\ m.step = "ready" /\ m.says = x
<1> DEFINE m == [of |-> c, n |-> published[c] + 1, says |-> x, step |-> "ready"]
<1>1. m \in starts'
  BY DEF StoreStart
<1> QED BY <1>1

\* A call that is not at work for x, or stays so, leaves x in hand.
LEMMA CallKeepsHand ==
    ASSUME TypeInv, NEW k \in Calls, CallStep(k) \/ CrashCall(k), NEW x \in Campaigns,
           content'[x] = content[x], InHand(x), ByCall(k, x) => ByCall(k, x)' \/ ByStart(x)'
    PROVE  InHand(x)'
<1>1. UNCHANGED <<mailed, chunks, firing>> /\ starts \subseteq starts'
  BY DEF CallStep, CrashCall, Update, Schedule, CountSent, ClaimForSend, Publish, Rollback, Pause,
         Resume, Republish, Delete, work, StoreStart
<1>2. \/ Return(k) \/ \E l \in Labels : GoTo(k, l) \/ Proceed(k, l)
  BY DEF CallStep, CrashCall, Update, Schedule, CountSent, ClaimForSend, Publish, Rollback, Pause,
         Resume, Republish, Delete, Labels
<1>3. \A j \in Calls \ {k} : pc'[j] = pc[j] /\ on'[j] = on[j] /\ seen'[j] = seen[j]
  BY <1>2 DEF Return, GoTo, Proceed, TypeInv, CallType
<1>4. \A j \in Calls \ {k} : ByCall(j, x) => ByCall(j, x)'
  BY <1>3 DEF ByCall
<1>5. ByStart(x) => ByStart(x)'
  BY <1>1 DEF ByStart
<1>6. ByChunk(x) => ByChunk(x)'
  BY <1>1 DEF ByChunk
<1> QED BY <1>1, <1>4, <1>5, <1>6 DEF InHand

LEMMA CallSending ==
    ASSUME TypeInv, TypeInv', StatusInv, ReadsInv, SendingInv, NEW k \in Calls,
           CallStep(k) \/ CrashCall(k), NEW x \in Campaigns, x \notin lost',
           campaign'[x].status = "sending"
    PROVE  InHand(x)'
<1>0. /\ pc[k] # "idle" => on[k] \in Campaigns /\ seen[k] \in Snapshots
      /\ RowType /\ content[x] \in Contents
  BY DEF TypeInv, CallType, RowType
<1>1. x \notin lost
  BY DEF CallStep, CrashCall, Update, Schedule, CountSent, ClaimForSend, Publish, Rollback, Pause,
         Resume, Republish, Delete
<1>2. RowMoves(x)
  BY CallMovesRow
<1>3. Status(x) = "sending" => content'[x] = content[x] /\ InHand(x)
  BY <1>1, <1>2 DEF RowMoves, SendingInv
\* A call that does not work for x and leaves its status alone.
<1>4. ASSUME Status(x) = "sending", ByCall(k, x) => ByCall(k, x)' \/ ByStart(x)' PROVE InHand(x)'
  BY <1>3, <1>4, CallKeepsHand
<1>5. ASSUME UNCHANGED campaign, pc[k] \notin {"publish", "republish", "rollback"} PROVE InHand(x)'
  BY <1>4, <1>5 DEF ByCall, Status
<1>6. ASSUME NEW c \in Campaigns, NEW s \in CampaignStatus \ {"sending"}, SetStatus(c, s)
      PROVE  x # c /\ Status(x) = "sending"
  <2>1. IF x = c THEN Becomes(x, s) ELSE Same(x)
    BY <1>0, <1>6, StatementEffects
  <2> QED BY <1>6, <2>1 DEF Becomes, Same
<1>7. CASE Update(k) \/ CountSent(k)
  BY <1>5, <1>7 DEF Update, CountSent, rows
<1>8. CASE Schedule(k)
  BY <1>0, <1>4, <1>5, <1>6, <1>8 DEF Schedule, ByCall, CampaignStatus
<1>9. CASE Pause(k)
  BY <1>0, <1>4, <1>5, <1>6, <1>9 DEF Pause, ByCall, CampaignStatus
<1>10. CASE Delete(k)
  <2>1. \/ UNCHANGED campaign
        \/ IF x = on[k] THEN campaign'[x].status = "cancelled" ELSE Same(x)
    BY <1>0, <1>10, StatementEffects DEF Delete
  <2>2. Status(x) = "sending" /\ ~ByCall(k, x)
    BY <1>10, <2>1 DEF Delete, ByCall, Same, Status
  <2> QED BY <1>4, <2>2
<1>11. CASE ClaimForSend(k)
  <2>1. CASE Claimable(k)
    <3>1. /\ campaign' = [campaign EXCEPT ![on[k]].status = "sending", ![on[k]].started_at = TRUE]
          /\ Proceed(k, "publish") /\ UNCHANGED content /\ on[k] \in Campaigns
      BY <1>0, <1>11, <2>1 DEF ClaimForSend
    <3>2. CASE x = on[k]
      <4>1. /\ pc'[k] = "publish" /\ on'[k] = x /\ seen'[k].content = content'[x]
        BY <1>0, <1>11, <3>1, <3>2 DEF Proceed, ClaimForSend, TypeInv, CallType, Snapshots
      <4> QED BY <4>1 DEF InHand, ByCall
    <3>3. CASE x # on[k]
      <4>1. Same(x)
        BY <1>0, <3>1, <3>3, StatementEffects
      <4> QED BY <1>4, <3>3, <4>1 DEF Same, ByCall
    <3> QED BY <3>2, <3>3
  <2>2. CASE ~Claimable(k)
    BY <1>5, <1>11, <2>2 DEF ClaimForSend
  <2> QED BY <2>1, <2>2
<1>12. CASE Resume(k)
  <2>1. CASE Matches(on[k], {"paused"})
    <3>1. /\ SetStatus(on[k], ResumeTarget(seen[k])) /\ UNCHANGED content /\ on[k] \in Campaigns
          /\ pc[k] = "resume"
      BY <1>0, <1>12, <2>1 DEF Resume
    <3>2. ResumeTarget(seen[k]) \in CampaignStatus
      BY DEF ResumeTarget, CampaignStatus
    <3>3. CASE x = on[k]
      <4>1. ResumeTarget(seen[k]) = "sending"
        BY <1>0, <3>1, <3>2, <3>3, StatementEffects DEF Becomes
      <4>2. Proceed(k, "republish")
        BY <1>12, <2>1, <4>1 DEF Resume
      <4>3. /\ pc'[k] = "republish" /\ on'[k] = x /\ seen'[k].content = content'[x]
        BY <1>0, <3>1, <3>3, <4>2 DEF Proceed, TypeInv, CallType, Snapshots
      <4> QED BY <4>3 DEF InHand, ByCall
    <3>4. CASE x # on[k]
      <4>1. Same(x)
        BY <1>0, <3>1, <3>2, <3>4, StatementEffects
      <4> QED BY <1>4, <3>4, <4>1 DEF Same, ByCall
    <3> QED BY <3>3, <3>4
  <2>2. CASE ~Matches(on[k], {"paused"})
    BY <1>5, <1>12, <2>2 DEF Resume
  <2> QED BY <2>1, <2>2
<1>13. CASE Publish(k) \/ Republish(k)
  <2>1. Status(x) = "sending"
    BY <1>13 DEF Publish, Republish, rows, Status
  <2>2. content' = content /\ pc[k] \in {"publish", "republish"} /\ on[k] \in Campaigns
    BY <1>0, <1>13 DEF Publish, Republish, rows
  <2>3. CASE StoreStart(on[k], seen[k].content)
    <3>1. ByCall(k, x) => ByStart(x)'
      BY <2>2, <2>3, StoredStart DEF ByCall, ByStart
    <3> QED BY <1>4, <2>1, <3>1
  <2>4. CASE Publish(k) /\ GoTo(k, "rollback")
    <3>1. ByCall(k, x) => ByCall(k, x)'
      BY <2>4 DEF GoTo, ByCall, TypeInv, CallType
    <3> QED BY <1>4, <2>1, <3>1
  <2>5. CASE Republish(k) /\ lost' = lost \cup {on[k]}
    BY <1>4, <2>1, <2>5 DEF ByCall
  <2> QED BY <1>13, <2>3, <2>4, <2>5 DEF Publish, Republish
<1>14. CASE Rollback(k)
  <2>1. seen[k].status \in CampaignStatus \ {"sending"} /\ on[k] \in Campaigns
    BY <1>0, <1>14 DEF Rollback, ReadsInv, Open, CampaignStatus
  <2>2. CASE Matches(on[k], {"sending"}) /\ SetStatus(on[k], seen[k].status)
    BY <1>4, <1>6, <2>1, <2>2 DEF ByCall
  <2>3. CASE ~Matches(on[k], {"sending"}) /\ UNCHANGED campaign
    <3>1. Status(x) = "sending"
      BY <2>3 DEF Status
    <3>2. x # on[k]
      BY <2>3, <3>1 DEF Matches, StatusInv
    <3> QED BY <1>4, <3>1, <3>2 DEF ByCall
  <2>4. CASE lost' = lost \cup {on[k]} /\ UNCHANGED campaign
    BY <1>4, <2>4 DEF ByCall, Status
  <2> QED BY <1>14, <2>2, <2>3, <2>4 DEF Rollback
<1>15. CASE CrashCall(k)
  <2>1. Status(x) = "sending"
    BY <1>15 DEF CrashCall, rows, Status
  <2>2. ~ByCall(k, x)
    BY <1>15 DEF CrashCall, ByCall
  <2> QED BY <1>4, <2>1, <2>2
<1> QED
  BY <1>7, <1>8, <1>9, <1>10, <1>11, <1>12, <1>13, <1>14, <1>15 DEF CallStep

LEMMA OtherSending ==
    ASSUME TypeInv, TypeInv', StatusInv, ChunkInv, SendingInv, NEW x \in Campaigns, x \notin lost',
           campaign'[x].status = "sending",
           \/ \E k \in Calls, c \in Campaigns : Request(k, c)
           \/ WorkerStep \/ \E c \in Campaigns : TimeComes(c) \/ SchedulerStep(c) \/ WindowEnds(c)
           \/ UNCHANGED vars
    PROVE  InHand(x)'
<1>0. /\ RowType /\ content[x] \in Contents
      /\ \A m \in starts \cup chunks : m.of \in Campaigns /\ m.says \in Contents
  BY DEF TypeInv, RowType, WorkType, StartMessages, ChunkMessages
<1>1. content'[x] = content[x]
  BY OthersMoveRow
<1>2. x \notin lost
  BY DEF Request, BeginUpdate, BeginSchedule, BeginSend, BeginPause, BeginResume, BeginDelete, Begin,
         WorkerStep, TimeComes, SchedulerStep, SchedulerPoll, SchedulerFire, WindowEnds, StreamStart,
         RecordTotal, SendChunk, CompleteChunk, vars
<1>3. Status(x) = "sending" => InHand(x)
  BY <1>2 DEF SendingInv
<1>4. ASSUME NEW k \in Calls, NEW c \in Campaigns, Request(k, c) PROVE InHand(x)'
  <2>1. PICK l \in Labels : Begin(k, c, l)
    BY <1>4 DEF Request, BeginUpdate, BeginSchedule, BeginSend, BeginPause, BeginResume, BeginDelete,
                Labels
  <2>2. UNCHANGED <<campaign, mailed, firing, chunks, starts>> /\ pc[k] = "idle"
    BY <2>1 DEF Begin, rows, work
  <2>3. \A j \in Calls : ByCall(j, x) => ByCall(j, x)'
    BY <1>1, <2>1, <2>2 DEF Begin, ByCall, TypeInv, CallType
  <2>4. InHand(x)
    BY <1>3, <2>2 DEF Status
  <2> QED BY <1>1, <2>2, <2>3, <2>4 DEF InHand, ByStart, ByChunk
\* From here on no call moves.
<1>5. ASSUME UNCHANGED <<pc, on, seen>>, InHand(x),
             mailed[x] # Nothing => mailed'[x] # Nothing,
             firing[x] = content[x] => firing'[x] = firing[x] \/ ByStart(x)',
             ByChunk(x) => ByChunk(x)' \/ mailed'[x] # Nothing,
             ByStart(x) => \/ ByStart(x)' \/ ByChunk(x)' \/ mailed'[x] # Nothing
                           \/ content[x] \in TemplateOnly
      PROVE  InHand(x)'
  <2>1. \A j \in Calls : ByCall(j, x) => ByCall(j, x)'
    BY <1>1, <1>5 DEF ByCall
  <2> QED BY <1>1, <1>5, <2>1 DEF InHand
<1>6. CASE UNCHANGED vars \/ \E c \in Campaigns : TimeComes(c) \/ WindowEnds(c)
  <2>1. UNCHANGED <<campaign, content, mailed, firing, chunks, starts, pc, on, seen>>
    BY <1>6 DEF vars, TimeComes, WindowEnds, rows, work, rpc
  <2>2. InHand(x)
    BY <1>3, <2>1 DEF Status
  <2> QED BY <1>5, <2>1, <2>2 DEF ByStart, ByChunk
<1>7. ASSUME NEW c \in Campaigns, SchedulerPoll(c) PROVE InHand(x)'
  <2>1. UNCHANGED <<mailed, chunks, starts, pc, on, seen>> /\ firing' = [firing EXCEPT ![c] = content[c]]
    BY <1>7 DEF SchedulerPoll, work, rpc
  <2>2. CASE x = c
    <3>1. firing'[x] = content'[x]
      BY <1>1, <2>1, <2>2 DEF TypeInv, WorkType
    <3> QED BY <3>1 DEF InHand
  <2>3. CASE x # c
    <3>1. Same(x)
      BY <1>0, <1>7, <2>3, StatementEffects DEF SchedulerPoll
    <3>2. InHand(x) /\ firing'[x] = firing[x]
      BY <1>3, <2>1, <2>3, <3>1 DEF Same, TypeInv, WorkType
    <3> QED BY <1>1, <1>5, <2>1, <3>2 DEF ByStart, ByChunk
  <2> QED BY <2>2, <2>3
<1>8. ASSUME NEW c \in Campaigns, SchedulerFire(c) PROVE InHand(x)'
  <2>1. UNCHANGED <<campaign, mailed, chunks, pc, on, seen>> /\ starts \subseteq starts'
    BY <1>8 DEF SchedulerFire, rows, rpc, StoreStart
  <2>2. InHand(x)
    BY <1>3, <2>1 DEF Status
  <2>3. firing[x] = content[x] => firing'[x] = firing[x] \/ ByStart(x)'
    <3> SUFFICES ASSUME firing[x] = content[x], firing'[x] # firing[x] \/ x = c
                 PROVE  firing'[x] = firing[x] \/ ByStart(x)'
      OBVIOUS
    <3>1. x = c
      BY <1>8 DEF SchedulerFire, TypeInv, WorkType
    <3>2. StoreStart(c, firing[c])
      BY <1>8, <3>1 DEF SchedulerFire
    <3> QED BY <1>1, <3>1, <3>2, StoredStart DEF ByStart
  <2>4. ByStart(x) => ByStart(x)'
    BY <1>1, <2>1 DEF ByStart
  <2> QED BY <1>5, <2>1, <2>2, <2>3, <2>4 DEF ByChunk
<1>9. ASSUME NEW m \in starts, StreamStart(m) PROVE InHand(x)'
  <2>1. UNCHANGED <<campaign, mailed, firing, pc, on, seen>> /\ chunks \subseteq chunks'
    BY <1>9 DEF StreamStart, rows, rpc
  <2>2. InHand(x) /\ Status(x) = "sending"
    BY <1>3, <2>1 DEF Status
  <2>3. ByStart(x) => \/ ByStart(x)' \/ ByChunk(x)' \/ mailed'[x] # Nothing
                      \/ content[x] \in TemplateOnly
    <3> SUFFICES ASSUME ByStart(x)
                 PROVE  \/ ByStart(x)' \/ ByChunk(x)' \/ mailed'[x] # Nothing
                        \/ content[x] \in TemplateOnly
      OBVIOUS
    <3>1. PICK n \in starts : n.of = x /\ n.step = "ready" /\ n.says = content[x]
      BY DEF ByStart
    <3>2. CASE n # m
      <4>1. n \in starts'
        BY <1>9, <3>2 DEF StreamStart
      <4> QED BY <1>1, <3>1, <4>1 DEF ByStart
    <3>3. CASE n = m /\ content[x] \notin TemplateOnly
      <4>1. chunks' = IF x \in dedup THEN chunks ELSE chunks \cup {m}
        BY <1>9, <2>2, <3>1, <3>3 DEF StreamStart, StreamStops
      <4>2. x \in dedup => mailed[x] # Nothing \/ \E q \in chunks : q.of = x
        BY DEF ChunkInv
      <4> QED BY <2>1, <3>1, <3>3, <4>1, <4>2 DEF ByChunk
    <3> QED BY <3>2, <3>3
  <2>4. ByChunk(x) => ByChunk(x)'
    BY <2>1 DEF ByChunk
  <2> QED BY <1>5, <2>1, <2>2, <2>3, <2>4
<1>10. ASSUME NEW m \in starts, RecordTotal(m) PROVE InHand(x)'
  <2>1. UNCHANGED <<mailed, chunks, firing, pc, on, seen>>
    BY <1>10 DEF RecordTotal, rpc
  <2>2. Status(x) = "sending"
    <3>1. \/ UNCHANGED campaign \/ Same(x) \/ Status(x) \in {"queued", "sending"}
      BY <1>0, <1>10, StatementEffects DEF RecordTotal
    <3> QED BY <3>1 DEF Same, Status, StatusInv
  <2>3. \A n \in starts : n.step = "ready" => n \in starts'
    BY <1>10 DEF RecordTotal
  <2>4. ByStart(x) => ByStart(x)'
    BY <1>1, <2>3 DEF ByStart
  <2> QED BY <1>3, <1>5, <2>1, <2>2, <2>4 DEF ByChunk
<1>11. ASSUME NEW m \in chunks, SendChunk(m) \/ CompleteChunk(m) PROVE InHand(x)'
  <2>1. UNCHANGED <<starts, firing, pc, on, seen>>
    BY <1>11 DEF SendChunk, CompleteChunk, rpc
  <2>2. Status(x) = "sending"
    <3>1. \/ UNCHANGED campaign \/ Same(x) \/ Becomes(x, "completed")
      BY <1>0, <1>11, StatementEffects DEF SendChunk, CompleteChunk
    <3> QED BY <3>1 DEF Same, Status, Becomes
  <2>3. m.says # Nothing /\ m.of \in Campaigns
    BY <1>0, ConstantsAssumption DEF ConstantsAssumption
  <2>4. mailed[x] # Nothing => mailed'[x] # Nothing
    BY <1>11, <2>3 DEF SendChunk, CompleteChunk, TypeInv, WorkType
  <2>5. m.of = x => mailed'[x] # Nothing
    BY <1>11, <2>3 DEF SendChunk, CompleteChunk, TypeInv, WorkType, ChunkInv
  <2>6. m.of # x => (ByChunk(x) => ByChunk(x)')
    BY <1>11 DEF SendChunk, CompleteChunk, ByChunk
  <2>7. ByStart(x) => ByStart(x)'
    BY <1>1, <2>1 DEF ByStart
  <2> QED BY <1>3, <1>5, <2>1, <2>2, <2>4, <2>5, <2>6, <2>7
<1> QED BY <1>4, <1>6, <1>7, <1>8, <1>9, <1>10, <1>11 DEF WorkerStep, SchedulerStep

HandInv == StatusInv /\ ReadsInv /\ ChunkInv /\ SendingInv

LEMMA HandInit == Init => HandInv
<1> SUFFICES ASSUME Init PROVE HandInv
  OBVIOUS
<1>1. \A c \in Campaigns : Status(c) = "draft"
  BY DEF Init, FreshCampaign, Status
<1>2. chunks = {} /\ dedup = {} /\ \A k \in Calls : pc[k] = "idle"
  BY DEF Init
<1> HIDE DEF Init
<1> QED BY <1>1, <1>2 DEF HandInv, StatusInv, ReadsInv, ChunkInv, SendingInv

LEMMA HandStep == TypeInv /\ TypeInv' /\ HandInv /\ [Next]_vars => HandInv'
<1> SUFFICES ASSUME TypeInv, TypeInv', HandInv, [Next]_vars PROVE HandInv'
  OBVIOUS
<1> USE DEF HandInv
<1>1. StatusInv' /\ ReadsInv' /\ ChunkInv'
  BY ReadsStep, ChunkStep
<1>2. SendingInv'
  <2> SUFFICES ASSUME NEW x \in Campaigns, x \notin lost', campaign'[x].status = "sending"
               PROVE  InHand(x)'
    BY DEF SendingInv, Status
  <2> QED BY CallSending, OtherSending DEF Next
<1> QED BY <1>1, <1>2

LEMMA HandAlways == Spec => [](TypeInv /\ HandInv)
BY TypeInit, TypeStep, HandInit, HandStep, PTL DEF Spec

\* A campaign in 'sending' has somebody at work for it or has been mailed: a
\* send whose publish failed takes the status back, and a dropped duplicate
\* leaves the chunk it duplicates.
THEOREM SendingIsAtWork == Spec => []SendingHasWork
<1>1. TypeInv /\ HandInv => SendingHasWork
  <2> SUFFICES ASSUME TypeInv, HandInv, NEW c \in Campaigns \ lost, Status(c) = "sending"
               PROVE  AtWork(c) \/ mailed[c] # Nothing \/ content[c] \in TemplateOnly
    BY DEF SendingHasWork
  <2>1. InHand(c) /\ content[c] # Nothing
    BY ConstantsAssumption DEF HandInv, SendingInv, TypeInv, RowType, ConstantsAssumption
  <2> QED BY <2>1 DEF InHand, AtWork, ByChunk, ByStart, ByCall
<1> QED BY <1>1, HandAlways, PTL

-----------------------------------------------------------------------------
(* While nothing fails, what is on its way is what the campaign says: a     *)
(* campaign that has started never is a draft again.                        *)

Current(c) ==
    /\ Started(c) => Status(c) # "draft"
    /\ \A m \in starts \cup chunks : m.of = c => Started(c) /\ m.says = content[c]
    /\ mailed[c] # Nothing => Started(c) /\ mailed[c] = content[c]
    /\ firing[c] # Nothing => Started(c) /\ firing[c] = content[c]
    /\ \A k \in Calls : on[k] = c /\ pc[k] \in {"publish", "republish"} =>
          Started(c) /\ seen[k].content = content[c]

CurrentInv == disturbances = 0 =>
    /\ \A k \in Calls : pc[k] # "rollback"
    /\ \A c \in Campaigns \ misled : Current(c)

\* What a calm step leaves as it was stays current.
LEMMA StaysCurrent ==
    ASSUME NEW x \in Campaigns, Current(x), Started(x) => campaign'[x].started_at,
           content'[x] = content[x],
           campaign'[x].started_at => campaign'[x].status # "draft",
           \A m \in starts' \cup chunks' : m.of = x =>
               \/ \E n \in starts \cup chunks : n.of = x /\ n.says = m.says
               \/ campaign'[x].started_at /\ m.says = content[x],
           mailed'[x] # Nothing =>
               \/ mailed'[x] = mailed[x]
               \/ \E n \in starts \cup chunks : n.of = x /\ n.says = mailed'[x],
           firing'[x] # Nothing =>
               firing'[x] = firing[x] \/ (campaign'[x].started_at /\ firing'[x] = content[x]),
           \A k \in Calls : on'[k] = x /\ pc'[k] \in {"publish", "republish"} =>
               \/ on[k] = x /\ pc[k] \in {"publish", "republish"} /\ seen'[k].content = seen[k].content
               \/ campaign'[x].started_at /\ seen'[k].content = content[x]
    PROVE  Current(x)'
<1>1. \A n \in starts \cup chunks : n.of = x => Started(x) /\ n.says = content[x]
  BY DEF Current
<1>2. (\A m \in starts \cup chunks : m.of = x => Started(x) /\ m.says = content[x])'
  BY <1>1 DEF Started
<1>3. (mailed[x] # Nothing => Started(x) /\ mailed[x] = content[x])'
  BY <1>1 DEF Current, Started
<1>4. (firing[x] # Nothing => Started(x) /\ firing[x] = content[x])'
  BY DEF Current, Started
<1>5. (\A k \in Calls : on[k] = x /\ pc[k] \in {"publish", "republish"} =>
          Started(x) /\ seen[k].content = content[x])'
  BY DEF Current, Started
<1>6. (Started(x) => Status(x) # "draft")'
  BY DEF Started, Status
<1> QED BY <1>2, <1>3, <1>4, <1>5, <1>6 DEF Current

\* A draft that is edited has nothing under way.
LEMMA EditedDraft ==
    ASSUME NEW x \in Campaigns, Current(x), Status(x) = "draft", Same(x),
           UNCHANGED <<starts, chunks, mailed, firing>>,
           \A k \in Calls : on'[k] = x /\ pc'[k] \in {"publish", "republish"} =>
               on[k] = x /\ pc[k] \in {"publish", "republish"}
    PROVE  Current(x)'
<1>1. ~Started(x) /\ ~campaign'[x].started_at
  BY DEF Current, Same, Status
<1> QED BY <1>1 DEF Current, Started

LEMMA CallCurrent ==
    ASSUME TypeInv, TypeInv', StatusInv, ReadsInv, CurrentInv, NEW k \in Calls,
           CallStep(k) \/ CrashCall(k), disturbances' = 0
    PROVE  CurrentInv'
<1>0. /\ pc[k] # "idle" => on[k] \in Campaigns /\ seen[k] \in Snapshots
      /\ RowType
  BY DEF TypeInv, CallType
<1>1. disturbances = 0 /\ ~Disturb
  BY DisturbCounts DEF CallStep, CrashCall, Update, Schedule, CountSent, ClaimForSend, Publish, Rollback,
         Pause, Resume, Republish, Delete, Undisturbed
<1>2. pc[k] # "rollback" /\ \A c \in Campaigns \ misled : Current(c)
  BY <1>1 DEF CurrentInv
<1>3. \A j \in Calls : pc[j] # "rollback"
  BY <1>1 DEF CurrentInv
<1>4. \A j \in Calls \ {k} : pc'[j] = pc[j] /\ on'[j] = on[j] /\ seen'[j] = seen[j]
  <2>1. \/ Return(k) \/ \E l \in Labels : GoTo(k, l) \/ Proceed(k, l)
    BY DEF CallStep, CrashCall, Update, Schedule, CountSent, ClaimForSend, Publish, Rollback, Pause,
           Resume, Republish, Delete, Labels
  <2> QED BY <2>1 DEF Return, GoTo, Proceed, TypeInv, CallType
<1>5. pc'[k] # "rollback"
  BY <1>1, <1>2 DEF CallStep, CrashCall, Update, Schedule, CountSent, ClaimForSend, Publish, Rollback,
         Pause, Resume, Republish, Delete, Return, GoTo, Proceed, TypeInv, CallType
<1> SUFFICES ASSUME NEW x \in Campaigns \ misled' PROVE Current(x)'
  BY <1>3, <1>4, <1>5 DEF CurrentInv
<1>6. x \notin misled
  BY DEF CallStep, CrashCall, Update, Schedule, CountSent, ClaimForSend, Publish, Rollback, Pause,
         Resume, Republish, Delete
<1>7. Current(x) /\ RowMoves(x)
  BY <1>2, <1>6, CallMovesRow
<1>8. /\ Started(x) => campaign'[x].started_at
      /\ content'[x] # content[x] => Status(x) = "draft" /\ Same(x)
  BY <1>7 DEF RowMoves
<1>9. UNCHANGED <<mailed, chunks, firing>>
  BY DEF CallStep, CrashCall, Update, Schedule, CountSent, ClaimForSend, Publish, Rollback, Pause,
         Resume, Republish, Delete, work
\* A call that publishes nothing and claims nothing.
<1>10. ASSUME UNCHANGED starts,
              campaign'[x].started_at => campaign'[x].status # "draft",
              on'[k] = x /\ pc'[k] \in {"publish", "republish"} =>
                  campaign'[x].started_at /\ seen'[k].content = content[x]
       PROVE  Current(x)'
  <2>1. CASE content'[x] = content[x]
    BY <1>4, <1>7, <1>8, <1>9, <1>10, <2>1, StaysCurrent
  <2>2. CASE content'[x] # content[x]
    <3>1. UNCHANGED starts /\ pc'[k] \notin {"publish", "republish"}
      BY <1>10, <2>2 DEF CallStep, CrashCall, Update, Schedule, CountSent, ClaimForSend, Publish,
         Rollback, Pause, Resume, Republish, Delete, rows, Return, TypeInv, CallType
    <3> QED BY <1>4, <1>7, <1>8, <1>9, <2>2, <3>1, EditedDraft
  <2> QED BY <2>1, <2>2
<1>11. Same(x) \/ UNCHANGED campaign => (campaign'[x].started_at => campaign'[x].status # "draft")
  BY <1>7 DEF Current, Same, Started, Status
<1>12. Return(k) => pc'[k] = "idle"
  BY DEF Return, TypeInv, CallType
<1>13. CASE Update(k) \/ CountSent(k) \/ CrashCall(k)
  <2>1. UNCHANGED <<campaign, starts>> /\ pc'[k] \notin {"publish", "republish"}
    BY <1>12, <1>13 DEF Update, CountSent, CrashCall, rows, work, GoTo, TypeInv, CallType
  <2> QED BY <1>10, <1>11, <2>1
<1>14. CASE Schedule(k) \/ Pause(k) \/ Delete(k)
  <2>1. UNCHANGED starts /\ pc'[k] = "idle"
    BY <1>12, <1>14 DEF Schedule, Pause, Delete, work
  <2>2. UNCHANGED campaign \/ Same(x) \/ campaign'[x].status \in {"scheduled", "paused", "cancelled"}
    BY <1>0, <1>14, StatementEffects DEF Schedule, Pause, Delete, Becomes, CampaignStatus
  <2> QED BY <1>10, <1>11, <2>1, <2>2
<1>15. CASE ClaimForSend(k)
  <2>1. UNCHANGED <<starts, content>>
    BY <1>15 DEF ClaimForSend, work
  <2>2. CASE Claimable(k)
    <3>1. /\ campaign' = [campaign EXCEPT ![on[k]].status = "sending", ![on[k]].started_at = TRUE]
          /\ Proceed(k, "publish") /\ on[k] \in Campaigns /\ seen[k] \in Snapshots
      BY <1>0, <1>15, <2>2 DEF ClaimForSend
    <3>2. IF x = on[k] THEN campaign'[x].status = "sending" /\ campaign'[x].started_at ELSE Same(x)
      BY <1>0, <3>1, StatementEffects
    <3>3. on'[k] = on[k] /\ seen'[k].content = content[on[k]]
      BY <3>1 DEF Proceed, TypeInv, CallType, Snapshots
    <3> QED BY <1>10, <1>11, <2>1, <3>2, <3>3
  <2>3. CASE ~Claimable(k)
    BY <1>10, <1>11, <1>12, <1>15, <2>1, <2>3 DEF ClaimForSend
  <2> QED BY <2>2, <2>3
<1>16. CASE Resume(k)
  <2>1. UNCHANGED <<starts, content>>
    BY <1>16 DEF Resume, work
  <2>2. CASE Matches(on[k], {"paused"})
    <3>1. /\ SetStatus(on[k], ResumeTarget(seen[k])) /\ on[k] \in Campaigns /\ seen[k] \in Snapshots
      BY <1>0, <1>16, <2>2 DEF Resume
    <3>2. IF x = on[k] THEN Becomes(x, ResumeTarget(seen[k])) ELSE Same(x)
      BY <1>0, <3>1, StatementEffects DEF ResumeTarget, CampaignStatus
    <3>3. x = on[k] => ResumeTarget(seen[k]) = ResumeTarget(Snapshot(x))
      BY <1>16, <2>2 DEF Resume
    <3>4. /\ x = on[k] /\ Started(x) => ResumeTarget(seen[k]) = "sending"
          /\ x = on[k] /\ ResumeTarget(seen[k]) = "sending" => Started(x)
      BY <3>3 DEF ResumeTarget, Snapshot, Started
    <3>5. campaign'[x].started_at => campaign'[x].status # "draft"
      BY <1>11, <3>2, <3>4 DEF Becomes
    <3>6. on'[k] = x /\ pc'[k] \in {"publish", "republish"} =>
              campaign'[x].started_at /\ seen'[k].content = content[x]
      <4>1. CASE ResumeTarget(seen[k]) = "sending"
        <5>1. Proceed(k, "republish")
          BY <1>16, <2>2, <4>1 DEF Resume
        <5>2. on'[k] = on[k] /\ seen'[k].content = content[on[k]]
          BY <3>1, <5>1 DEF Proceed, TypeInv, CallType, Snapshots
        <5> QED BY <3>2, <3>4, <4>1, <5>2 DEF Becomes
      <4>2. CASE ResumeTarget(seen[k]) # "sending"
        BY <1>12, <1>16, <2>2, <4>2 DEF Resume
      <4> QED BY <4>1, <4>2
    <3> QED BY <1>10, <2>1, <3>5, <3>6
  <2>3. CASE ~Matches(on[k], {"paused"})
    BY <1>10, <1>11, <1>12, <1>16, <2>1, <2>3 DEF Resume
  <2> QED BY <2>2, <2>3
<1>17. CASE Publish(k) \/ Republish(k)
  <2>1. /\ StoreStart(on[k], seen[k].content) /\ UNCHANGED <<campaign, content>> /\ Return(k)
        /\ pc[k] \in {"publish", "republish"}
    BY <1>1, <1>17 DEF Publish, Republish, rows
  <2>2. \A m \in starts' : m \in starts \/ (m.of = on[k] /\ m.says = seen[k].content)
    BY <2>1 DEF StoreStart
  <2>3. x = on[k] => Started(x) /\ seen[k].content = content[x]
    BY <1>7, <2>1 DEF Current
  <2>4. \A m \in starts' \cup chunks' : m.of = x =>
            \/ \E n \in starts \cup chunks : n.of = x /\ n.says = m.says
            \/ campaign'[x].started_at /\ m.says = content[x]
    BY <1>8, <1>9, <2>2, <2>3
  <2> QED BY <1>4, <1>7, <1>8, <1>9, <1>11, <1>12, <2>1, <2>4, StaysCurrent
<1> QED BY <1>2, <1>13, <1>14, <1>15, <1>16, <1>17 DEF CallStep, Rollback

LEMMA OtherCurrent ==
    ASSUME TypeInv, TypeInv', StatusInv, CurrentInv, disturbances' = 0,
           \/ \E k \in Calls, c \in Campaigns : Request(k, c)
           \/ WorkerStep \/ \E c \in Campaigns : TimeComes(c) \/ SchedulerStep(c) \/ WindowEnds(c)
           \/ UNCHANGED vars
    PROVE  CurrentInv'
<1>0. /\ RowType
      /\ \A m \in starts \cup chunks : m.of \in Campaigns /\ m.says \in Contents
  BY DEF TypeInv, WorkType, StartMessages, ChunkMessages
<1>1. disturbances = 0 /\ ~Disturb
  <2>1. UNCHANGED disturbances \/ Disturb \/ Undisturbed
    BY DEF Request, BeginUpdate, BeginSchedule, BeginSend, BeginPause, BeginResume, BeginDelete, Begin,
           WorkerStep, TimeComes, SchedulerStep, SchedulerPoll, SchedulerFire, WindowEnds, StreamStart,
           RecordTotal, SendChunk, CompleteChunk, vars
  <2> QED BY <2>1, DisturbCounts
<1>2. \A k \in Calls : pc[k] # "rollback"
  BY <1>1 DEF CurrentInv
<1>3. \A k \in Calls : pc'[k] \notin {"publish", "republish", "rollback"} \/
          (pc'[k] = pc[k] /\ on'[k] = on[k] /\ seen'[k] = seen[k])
  <2>1. ASSUME NEW k \in Calls, NEW c \in Campaigns, Request(k, c)
        PROVE  \A j \in Calls : pc'[j] \notin {"publish", "republish", "rollback"} \/
                   (pc'[j] = pc[j] /\ on'[j] = on[j] /\ seen'[j] = seen[j])
    <3>1. PICK l \in Labels \ {"publish", "republish", "rollback"} : Begin(k, c, l)
      BY <2>1 DEF Request, BeginUpdate, BeginSchedule, BeginSend, BeginPause, BeginResume, BeginDelete,
                  Labels
    <3> QED BY <3>1 DEF Begin, TypeInv, CallType
  <2>2. CASE UNCHANGED <<pc, on, seen>>
    BY <2>2
  <2> QED BY <2>1, <2>2 DEF WorkerStep, TimeComes, SchedulerStep, SchedulerPoll, SchedulerFire,
             WindowEnds, StreamStart, RecordTotal, SendChunk, CompleteChunk, rpc, vars
<1> SUFFICES ASSUME NEW x \in Campaigns \ misled' PROVE Current(x)'
  BY <1>2, <1>3 DEF CurrentInv
<1>4. x \notin misled
  BY DEF Request, BeginUpdate, BeginSchedule, BeginSend, BeginPause, BeginResume, BeginDelete, Begin,
         WorkerStep, TimeComes, SchedulerStep, SchedulerPoll, SchedulerFire, WindowEnds, StreamStart,
         RecordTotal, SendChunk, CompleteChunk, vars
<1>5. /\ Current(x) /\ content'[x] = content[x]
      /\ Started(x) => campaign'[x].started_at
  BY <1>1, <1>4, OthersMoveRow DEF CurrentInv, RowMoves
\* All that can be new: a claimed campaign, and messages made from others.
<1>6. ASSUME Same(x) \/ UNCHANGED campaign \/ campaign'[x].status \in {"sending", "completed"},
             \A m \in starts' \cup chunks' : m.of = x =>
                 \/ \E n \in starts \cup chunks : n.of = x /\ n.says = m.says
                 \/ campaign'[x].started_at /\ m.says = content[x],
             mailed'[x] = mailed[x] \/ \E n \in starts \cup chunks : n.of = x /\ n.says = mailed'[x],
             \/ firing'[x] \in {firing[x], Nothing}
             \/ campaign'[x].started_at /\ firing'[x] = content[x]
      PROVE  Current(x)'
  <2>1. campaign'[x].started_at => campaign'[x].status # "draft"
    BY <1>5, <1>6 DEF Current, Same, Started, Status
  <2> QED BY <1>3, <1>5, <1>6, <2>1, StaysCurrent
<1>7. CASE UNCHANGED <<campaign, starts, chunks, mailed, firing>>
  BY <1>6, <1>7
<1>8. ASSUME NEW c \in Campaigns, SchedulerPoll(c) PROVE Current(x)'
  <2>1. IF x = c THEN campaign'[x].status = "sending" /\ campaign'[x].started_at ELSE Same(x)
    BY <1>0, <1>8, StatementEffects DEF SchedulerPoll
  <2>2. UNCHANGED <<starts, chunks, mailed>> /\ firing'[x] = IF x = c THEN content[x] ELSE firing[x]
    BY <1>8 DEF SchedulerPoll, work, TypeInv, WorkType
  <2> QED BY <1>6, <2>1, <2>2
<1>9. ASSUME NEW c \in Campaigns, SchedulerFire(c) PROVE Current(x)'
  <2>1. /\ UNCHANGED <<campaign, chunks, mailed>> /\ firing'[x] \in {firing[x], Nothing}
        /\ StoreStart(c, firing[c]) /\ firing[c] # Nothing
    BY <1>1, <1>9 DEF SchedulerFire, rows, TypeInv, WorkType
  <2>2. \A m \in starts' : m \in starts \/ (m.of = c /\ m.says = firing[c])
    BY <2>1 DEF StoreStart
  <2>3. x = c => Started(x) /\ firing[c] = content[x]
    BY <1>5, <2>1 DEF Current
  <2> QED BY <1>5, <1>6, <2>1, <2>2, <2>3
<1>10. ASSUME NEW m \in starts, StreamStart(m) PROVE Current(x)'
  <2>1. UNCHANGED <<campaign, mailed, firing>>
    BY <1>10 DEF StreamStart, rows
  <2>2. m \in StartMessages
    BY DEF TypeInv, WorkType
  <2>3. \A q \in starts' \cup chunks' : q \in starts \cup chunks \/ (q.of = m.of /\ q.says = m.says)
    BY <1>10, <2>2 DEF StreamStart, StartMessages
  <2> QED BY <1>6, <2>1, <2>3
<1>11. ASSUME NEW m \in starts, RecordTotal(m) PROVE Current(x)'
  <2>1. UNCHANGED <<mailed, firing, chunks>>
    BY <1>11 DEF RecordTotal
  <2>2. m \in StartMessages
    BY DEF TypeInv, WorkType
  <2>3. \A q \in starts' \cup chunks' : q \in starts \cup chunks \/ (q.of = m.of /\ q.says = m.says)
    BY <1>11, <2>1, <2>2 DEF RecordTotal, StartMessages
  <2>4. Same(x) \/ UNCHANGED campaign \/ campaign'[x].status \in {"sending", "completed"}
    BY <1>0, <1>11, StatementEffects DEF RecordTotal
  <2> QED BY <1>6, <2>1, <2>3, <2>4
<1>12. ASSUME NEW m \in chunks, SendChunk(m) \/ CompleteChunk(m) PROVE Current(x)'
  <2>1. UNCHANGED <<starts, firing>>
    BY <1>12 DEF SendChunk, CompleteChunk
  <2>2. m \in ChunkMessages
    BY DEF TypeInv, WorkType
  <2>3. \A q \in starts' \cup chunks' : q \in starts \cup chunks \/ (q.of = m.of /\ q.says = m.says)
    BY <1>12, <2>1, <2>2 DEF SendChunk, CompleteChunk, ChunkMessages
  <2>4. Same(x) \/ UNCHANGED campaign \/ campaign'[x].status \in {"sending", "completed"}
    BY <1>0, <1>12, StatementEffects DEF SendChunk, CompleteChunk, Becomes
  <2>5. mailed'[x] = mailed[x] \/ (m.of = x /\ m.says = mailed'[x])
    BY <1>12 DEF SendChunk, CompleteChunk, TypeInv, WorkType
  <2> QED BY <1>6, <2>1, <2>3, <2>4, <2>5
<1>13. \/ UNCHANGED <<campaign, starts, chunks, mailed, firing>>
       \/ \E c \in Campaigns : SchedulerPoll(c) \/ SchedulerFire(c)
       \/ \E m \in starts : StreamStart(m) \/ RecordTotal(m)
       \/ \E m \in chunks : SendChunk(m) \/ CompleteChunk(m)
  BY DEF Request, BeginUpdate, BeginSchedule, BeginSend, BeginPause, BeginResume, BeginDelete, Begin,
         WorkerStep, TimeComes, SchedulerStep, WindowEnds, rows, work, vars
<1> QED BY <1>7, <1>8, <1>9, <1>10, <1>11, <1>12, <1>13

LEMMA CurrentInit == Init => CurrentInv
<1> SUFFICES ASSUME Init PROVE CurrentInv
  OBVIOUS
<1>1. \A c \in Campaigns : ~Started(c) /\ mailed[c] = Nothing /\ firing[c] = Nothing
  BY DEF Init, FreshCampaign, Started
<1>2. starts = {} /\ chunks = {} /\ \A k \in Calls : pc[k] = "idle"
  BY DEF Init
<1> HIDE DEF Init
<1> QED BY <1>1, <1>2 DEF CurrentInv, Current

LEMMA CurrentStep == TypeInv /\ TypeInv' /\ HandInv /\ CurrentInv /\ [Next]_vars => CurrentInv'
<1> SUFFICES ASSUME TypeInv, TypeInv', HandInv, CurrentInv, [Next]_vars, disturbances' = 0
             PROVE  CurrentInv'
  BY DEF CurrentInv
<1> QED BY CallCurrent, OtherCurrent DEF Next, HandInv

\* While nothing fails, whatever is on its way to the contact, or reached it, is
\* what the campaign says: from its first start on a campaign is never a draft
\* again, and only drafts can be edited.  Resumes that go by an old read are the
\* exception the property makes.
THEOREM MailsAreCurrent == Spec => []MailedIsCurrent
<1>1. CurrentInv => MailedIsCurrent
  BY DEF CurrentInv, Current, MailedIsCurrent
<1> QED BY <1>1, HandAlways, CurrentInit, CurrentStep, PTL DEF Spec
=============================================================================
