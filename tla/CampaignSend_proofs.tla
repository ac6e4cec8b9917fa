------------------------ MODULE CampaignSend_proofs ------------------------
(***************************************************************************)
(* Proofs about CampaignSend for every value of its constants, in four     *)
(* parts: its types; what the rows of campaign_recipients and campaigns    *)
(* promise, the refinement of RecipientContract among it; that a campaign  *)
(* without a disturbance mails nobody twice; and that a streaming pass     *)
(* over an unchanging segment leaves nobody out.                           *)
(***************************************************************************)
EXTENDS CampaignSend, FiniteSetTheorems, TLAPS

(* TypeOK is inductive together with what the handlers' locals and the     *)
(* delivery counters satisfy beyond their types.                           *)
QueueOK(q, S) ==
    /\ q \in [S -> Messages]
    /\ \A m \in S : q[m].st = "ready" => q[m].n < MaxAttempts

StreamInv ==
    /\ StreamType
    /\ QueueOK(startMsg, StartIds)
    /\ QueueOK(chunkMsg, ChunkMsgs)

StartInv ==
    /\ StartHandlerType
    /\ \A s \in Starters :
          /\ spc[s] # "idle" => sjob[s] \in StartIds
          /\ chunkIdx[s] <= afterID[s]
          /\ \A c \in batch[s] : c > afterID[s]

ChunkInv ==
    /\ ChunkHandlerType
    /\ \A w \in Workers : pc[w] # "idle" => job[w] \in ChunkMsgs

TypeInv == StoreType /\ StreamInv /\ StartInv /\ ChunkInv /\ HistoryType

\* A step that leaves a group of variables alone keeps what is said of it.
LEMMA Frame ==
    /\ StoreType /\ UNCHANGED store => StoreType'
    /\ StreamInv /\ UNCHANGED <<stream, firing>> => StreamInv'
    /\ StartInv /\ UNCHANGED startHandler => StartInv'
    /\ ChunkInv /\ UNCHANGED chunkHandler => ChunkInv'
    /\ HistoryType /\ UNCHANGED history => HistoryType'
<1>1. StoreType /\ UNCHANGED store => StoreType'
  BY DEF StoreType, store
<1>2. StreamInv /\ UNCHANGED <<stream, firing>> => StreamInv'
  BY DEF StreamInv, StreamType, QueueOK, stream
<1>3. StartInv /\ UNCHANGED startHandler => StartInv'
  BY DEF StartInv, StartHandlerType, startHandler
<1>4. ChunkInv /\ UNCHANGED chunkHandler => ChunkInv'
  BY DEF ChunkInv, ChunkHandlerType, chunkHandler
<1>5. HistoryType /\ UNCHANGED history => HistoryType'
  BY DEF HistoryType, history
<1>6. QED
  BY <1>1, <1>2, <1>3, <1>4, <1>5

\* A disturbance stays within its bound.
LEMMA DisturbOK ==
    ASSUME HistoryType, Disturb \/ Undisturbed, UNCHANGED <<accepted, changes>>
    PROVE  HistoryType'
BY ConstantsAssumption DEF HistoryType, Disturb, Undisturbed, ConstantsAssumption

-----------------------------------------------------------------------------
(* The queue operators keep a queue well typed and its deliveries bounded.  *)

\* Publishing a message.
LEMMA NewMsgOK ==
    ASSUME NEW S, NEW q, QueueOK(q, S), NEW m \in S
    PROVE  QueueOK(NewMsg(q, m), S)
BY ConstantsAssumption DEF ConstantsAssumption, QueueOK, NewMsg, Messages, MsgStatus

\* Delivering a ready message.
LEMMA DeliverOK ==
    ASSUME NEW S, NEW q, QueueOK(q, S), NEW m \in S, q[m].st = "ready"
    PROVE  QueueOK(Deliver(q, m), S)
BY ConstantsAssumption DEF ConstantsAssumption, QueueOK, Deliver, Messages, MsgStatus

\* Ack and Term.
LEMMA SettleOK ==
    ASSUME NEW S, NEW q, QueueOK(q, S), NEW m \in S
    PROVE  QueueOK(Settle(q, m), S)
BY ConstantsAssumption DEF ConstantsAssumption, QueueOK, Settle, Messages, MsgStatus

\* Nak and AckWait.
LEMMA RequeueOK ==
    ASSUME NEW S, NEW q, QueueOK(q, S), NEW m \in S
    PROVE  QueueOK(Requeue(q, m), S)
BY ConstantsAssumption DEF ConstantsAssumption, QueueOK, Requeue, CanRedeliver, Messages,
       MsgStatus

\* Every run starts well typed.
LEMMA InitTypeInv == Init => TypeInv
<1> SUFFICES ASSUME Init PROVE TypeInv
  OBVIOUS
<1> USE ConstantsAssumption DEF ConstantsAssumption
<1> DEFINE fresh == [st |-> "none", n |-> 0]
           handed == [st |-> "ready", n |-> 0]
<1>1. fresh \in Messages /\ handed \in Messages
  BY DEF Messages, MsgStatus
<1>2. StoreType
  <2>1. FreshCampaign("sending", TRUE) \in CampaignRows
    BY DEF FreshCampaign, CampaignRows, CampaignStatus
  <2>2. FreshCampaign("scheduled", FALSE) \in CampaignRows
    BY DEF FreshCampaign, CampaignRows, CampaignStatus
  <2>3. segment \in SUBSET Contacts /\ recipient \in [Contacts -> RecipientStatus]
    BY DEF Init, RecipientStatus
  <2>4. campaign \in CampaignRows
    BY <2>1, <2>2 DEF Init
  <2>5. QED
    BY <2>3, <2>4 DEF StoreType
<1>3. StreamInv
  <2>1. \/ startMsg = [m \in StartIds |-> [st |-> IF m = 1 THEN "ready" ELSE "none", n |-> 0]]
        \/ startMsg = [m \in StartIds |-> [st |-> "none", n |-> 0]]
    BY DEF Init
  <2>2. QueueOK(startMsg, StartIds)
    BY <2>1, <1>1 DEF QueueOK
  <2>3. chunkMsg = [m \in ChunkMsgs |-> fresh]
    BY DEF Init
  <2>4. QueueOK(chunkMsg, ChunkMsgs)
    BY <2>3, <1>1 DEF QueueOK
  <2>5. payload \in [ChunkMsgs -> SUBSET Contacts]
    BY DEF Init
  <2>6. dedup \in SUBSET ChunkIdx /\ dlq \in SUBSET ChunkIdx /\ firing \in BOOLEAN
    BY DEF Init
  <2>7. QED
    BY <2>2, <2>4, <2>5, <2>6 DEF StreamInv, StreamType, QueueOK
<1>4. StartInv
  BY DEF Init, StartInv, StartHandlerType, StartLabels, ChunkIdx
<1>5. ChunkInv
  BY DEF Init, ChunkInv, ChunkHandlerType, ChunkLabels
<1>6. HistoryType
  BY DEF Init, HistoryType
<1>7. QED
  BY <1>2, <1>3, <1>4, <1>5, <1>6 DEF TypeInv

-----------------------------------------------------------------------------
(* The handlers drop their locals when they return.                         *)

\* The start handler's slot becomes free.
LEMMA StartIdleOK ==
    ASSUME StartInv, NEW s \in Starters, StartIdle(s)
    PROVE  StartInv'
BY ConstantsAssumption DEF ConstantsAssumption, StartInv, StartHandlerType, StartLabels,
       StartIdle, ChunkIdx

\* The chunk handler's slot becomes free.
LEMMA ChunkIdleOK ==
    ASSUME ChunkInv, NEW w \in Workers, ChunkIdle(w)
    PROVE  ChunkInv'
BY ConstantsAssumption DEF ConstantsAssumption, ChunkInv, ChunkHandlerType, ChunkLabels,
       ChunkIdle

-----------------------------------------------------------------------------
(* The actions of the scheduler and of the start handler keep TypeInv.      *)

\* Every UPDATE of the campaigns row yields a campaigns row.
LEMMA RowOK ==
    ASSUME NEW row \in CampaignRows, NEW a \in Nat, NEW b \in Nat
    PROVE  /\ UpdateCampaignStarted(row, a) \in CampaignRows
           /\ IncrementCampaignCounts(row, a, b) \in CampaignRows
           /\ MarkCampaignComplete(row) \in CampaignRows
           /\ MarkCampaignCompleteEmpty(row) \in CampaignRows
           /\ ClaimDueCampaign(row) \in CampaignRows
<1>1. UpdateCampaignStarted(row, a) \in CampaignRows
  BY DEF UpdateCampaignStarted, CampaignRows, CampaignStatus
<1>2. IncrementCampaignCounts(row, a, b) \in CampaignRows
  <2>1. row.sent_count + a \in Nat /\ row.failed_count + b \in Nat
    BY DEF CampaignRows
  <2>2. QED
    BY <2>1 DEF IncrementCampaignCounts, CampaignRows
<1>3. MarkCampaignComplete(row) \in CampaignRows
  BY DEF MarkCampaignComplete, CampaignRows, CampaignStatus
<1>4. MarkCampaignCompleteEmpty(row) \in CampaignRows
  BY DEF MarkCampaignCompleteEmpty, CampaignRows, CampaignStatus
<1>5. ClaimDueCampaign(row) \in CampaignRows
  BY DEF ClaimDueCampaign, CampaignRows, CampaignStatus
<1>6. QED
  BY <1>1, <1>2, <1>3, <1>4, <1>5

\* A page holds contacts beyond the last one published, and is finite.
LEMMA PageOK ==
    ASSUME StoreType, NEW after \in Nat
    PROVE  Page(after) \subseteq Contacts /\ \A c \in Page(after) : c > after
BY DEF Page, StoreType

\* The size of a batch is a number.
LEMMA BatchSize ==
    ASSUME NEW S \in SUBSET Contacts
    PROVE  IsFiniteSet(S) /\ Cardinality(S) \in Nat
<1>1. IsFiniteSet(1..NumContacts)
  BY FS_Interval, ConstantsAssumption DEF ConstantsAssumption
<1>2. IsFiniteSet(S)
  BY <1>1, FS_Subset DEF Contacts
<1>3. QED
  BY <1>2, FS_CardinalityType

\* poll and fire.
LEMMA SchedulerOK == TypeInv /\ Scheduler => TypeInv'
<1> SUFFICES ASSUME TypeInv, Scheduler PROVE TypeInv'
  OBVIOUS
<1>1. CASE SchedulerPoll
  <2>1. StoreType'
    BY <1>1, RowOK DEF SchedulerPoll, TypeInv, StoreType
  <2>2. StreamInv'
    BY <1>1 DEF SchedulerPoll, TypeInv, StreamInv, StreamType, QueueOK, stream
  <2>3. QED
    BY <1>1, <2>1, <2>2, Frame DEF SchedulerPoll, TypeInv
<1>2. CASE SchedulerFire
  <2>1. QueueOK(startMsg, StartIds)'
    BY <1>2, NewMsgOK DEF SchedulerFire, TypeInv, StreamInv, QueueOK
  <2>2. StreamInv'
    BY <1>2, <2>1 DEF SchedulerFire, TypeInv, StreamInv, StreamType, QueueOK
  <2>3. HistoryType'
    BY <1>2, DisturbOK DEF SchedulerFire, TypeInv
  <2>4. QED
    BY <1>2, <2>2, <2>3, Frame DEF SchedulerFire, TypeInv
<1>3. QED
  BY <1>1, <1>2 DEF Scheduler

\* The deliveries and the status check of a start message.
LEMMA StartFlowOK ==
    ASSUME TypeInv, NEW s \in Starters,
           (\E m \in StartIds : ReceiveStart(s, m)) \/ StartStatus(s) \/ AckStart(s)
    PROVE  TypeInv'
<1>1. CASE \E m \in StartIds : ReceiveStart(s, m)
  <2> PICK m \in StartIds : ReceiveStart(s, m)
    BY <1>1
  <2>1. QueueOK(startMsg, StartIds)'
    BY DeliverOK DEF ReceiveStart, TypeInv, StreamInv, QueueOK
  <2>2. StreamInv'
    BY <2>1 DEF ReceiveStart, TypeInv, StreamInv, StreamType, QueueOK
  <2>3. StartInv'
    BY DEF ReceiveStart, TypeInv, StartInv, StartHandlerType, StartLabels
  <2>4. QED
    BY <2>2, <2>3, Frame DEF ReceiveStart, TypeInv
<1>2. CASE StartStatus(s)
  <2>1. StartInv'
    BY <1>2 DEF StartStatus, TypeInv, StartInv, StartHandlerType, StartLabels
  <2>2. QED
    BY <1>2, <2>1, Frame DEF StartStatus, TypeInv
<1>3. CASE AckStart(s)
  <2>1. sjob[s] \in StartIds
    BY <1>3 DEF AckStart, TypeInv, StartInv
  <2>2. QueueOK(startMsg, StartIds)'
    BY <1>3, <2>1, SettleOK DEF AckStart, TypeInv, StreamInv, QueueOK
  <2>3. StreamInv'
    BY <1>3, <2>2 DEF AckStart, TypeInv, StreamInv, StreamType, QueueOK
  <2>4. StartInv'
    BY <1>3, StartIdleOK DEF AckStart, TypeInv
  <2>5. QED
    BY <1>3, <2>3, <2>4, Frame DEF AckStart, TypeInv
<1>4. QED
  BY <1>1, <1>2, <1>3

\* A failed or crashed start handler.
LEMMA StartFaultOK ==
    ASSUME TypeInv, NEW s \in Starters, StartError(s) \/ CrashStart(s)
    PROVE  TypeInv'
<1>1. CASE StartError(s)
  <2>1. sjob[s] \in StartIds
    BY <1>1 DEF StartError, TypeInv, StartInv
  <2>2. QueueOK(startMsg, StartIds)'
    BY <1>1, <2>1, RequeueOK DEF StartError, NakStart, TypeInv, StreamInv, QueueOK
  <2>3. StreamInv'
    BY <1>1, <2>2 DEF StartError, TypeInv, StreamInv, StreamType, QueueOK
  <2>4. StartInv'
    BY <1>1, StartIdleOK DEF StartError, NakStart, TypeInv
  <2>5. HistoryType'
    BY <1>1, DisturbOK DEF StartError, TypeInv
  <2>6. QED
    BY <1>1, <2>3, <2>4, <2>5, Frame DEF StartError, TypeInv
<1>2. CASE CrashStart(s)
  <2>1. StartInv'
    BY <1>2, StartIdleOK DEF CrashStart, TypeInv
  <2>2. HistoryType'
    BY <1>2, DisturbOK DEF CrashStart, TypeInv
  <2>3. QED
    BY <1>2, <2>1, <2>2, Frame DEF CrashStart, TypeInv
<1>3. QED
  BY <1>1, <1>2

\* A chunk is stored under an id of its own, or dropped as a duplicate.
LEMMA StoreChunkOK ==
    ASSUME StreamInv, NEW k \in ChunkIdx, NEW members \in SUBSET Contacts,
           StoreChunk(k, members)
    PROVE  /\ QueueOK(chunkMsg, ChunkMsgs)'
           /\ (payload \in [ChunkMsgs -> SUBSET Contacts])'
           /\ (dedup \in SUBSET ChunkIdx)'
<1>1. CASE UNCHANGED <<chunkMsg, payload, dedup>>
  BY <1>1 DEF StreamInv, StreamType, QueueOK
<1>2. CASE \E m \in ChunkMsgs : /\ chunkMsg' = NewMsg(chunkMsg, m)
                               /\ payload' = [payload EXCEPT ![m] = members]
                               /\ dedup' = dedup \cup {k}
  <2> PICK m \in ChunkMsgs : /\ chunkMsg' = NewMsg(chunkMsg, m)
                             /\ payload' = [payload EXCEPT ![m] = members]
                             /\ dedup' = dedup \cup {k}
    BY <1>2
  <2>1. QueueOK(NewMsg(chunkMsg, m), ChunkMsgs)
    BY NewMsgOK DEF StreamInv
  <2>2. QueueOK(chunkMsg, ChunkMsgs)'
    BY <2>1 DEF QueueOK
  <2>3. QED
    BY <2>2 DEF StreamInv, StreamType
<1>3. QED
  BY <1>1, <1>2 DEF StoreChunk

\* What PublishChunk does to the handler's locals when it goes on.
PublishedOn(s) ==
    /\ Undisturbed
    /\ spc[s] = "publish"
    /\ \E last \in batch[s] :
          /\ IsLast(last, batch[s])
          /\ afterID' = [afterID EXCEPT ![s] = last]
    /\ total' = [total EXCEPT ![s] = @ + Cardinality(batch[s])]
    /\ chunkIdx' = [chunkIdx EXCEPT ![s] = @ + 1]
    /\ spc' = [spc EXCEPT ![s] =
          IF Cardinality(batch[s]) < ChunkSize THEN "finish" ELSE "page"]
    /\ batch' = [batch EXCEPT ![s] = {}]
    /\ UNCHANGED sjob

\* The chunk index never overtakes the last contact published.
LEMMA PublishedOnOK ==
    ASSUME StartInv, NEW s \in Starters, PublishedOn(s)
    PROVE  StartInv'
<1>1. PICK last \in batch[s] : afterID' = [afterID EXCEPT ![s] = last]
  BY DEF PublishedOn
<1>2. batch[s] \in SUBSET Contacts /\ Cardinality(batch[s]) \in Nat
  BY BatchSize DEF StartInv, StartHandlerType
<1>3. last \in 1..NumContacts /\ last > afterID[s] /\ chunkIdx[s] <= afterID[s]
  BY <1>2 DEF StartInv, Contacts
<1>4. last \in 0..NumContacts /\ chunkIdx[s] + 1 \in ChunkIdx /\ chunkIdx[s] + 1 <= last
  BY <1>3, ConstantsAssumption DEF StartInv, StartHandlerType, ChunkIdx, ConstantsAssumption
<1>5. (afterID \in [Starters -> 0..NumContacts])' /\ (chunkIdx \in [Starters -> ChunkIdx])'
  BY <1>1, <1>4 DEF PublishedOn, StartInv, StartHandlerType
<1>6. (total \in [Starters -> Nat])' /\ (batch \in [Starters -> SUBSET Contacts])'
  BY <1>2 DEF PublishedOn, StartInv, StartHandlerType
<1>7. (spc \in [Starters -> StartLabels])' /\ (sjob \in [Starters -> StartIds \cup {NoStart}])'
  BY DEF PublishedOn, StartInv, StartHandlerType, StartLabels
<1>8. ASSUME NEW t \in Starters
      PROVE  /\ spc'[t] # "idle" => sjob'[t] \in StartIds
             /\ chunkIdx'[t] <= afterID'[t]
             /\ \A c \in batch'[t] : c > afterID'[t]
  BY <1>1, <1>4 DEF PublishedOn, StartInv, StartHandlerType
<1>9. QED
  BY <1>5, <1>6, <1>7, <1>8 DEF StartInv, StartHandlerType

\* One page: rows inserted, then its chunk published.
LEMMA PagingOK ==
    ASSUME TypeInv, NEW s \in Starters, InsertPage(s) \/ PublishChunk(s)
    PROVE  TypeInv'
<1>1. CASE InsertPage(s)
  <2>1. afterID[s] \in Nat
    BY ConstantsAssumption DEF TypeInv, StartInv, StartHandlerType, ConstantsAssumption
  <2>2. StoreType'
    <3> DEFINE P == Page(afterID[s])
    <3>1. recipient' = [r \in Contacts |-> IF r \in P /\ recipient[r] = "absent" THEN "queued"
                                           ELSE recipient[r]]
      BY <1>1 DEF InsertPage
    <3> HIDE DEF P
    <3>2. (recipient \in [Contacts -> RecipientStatus])'
      BY <3>1 DEF TypeInv, StoreType, RecipientStatus
    <3>3. QED
      BY <1>1, <3>2 DEF InsertPage, TypeInv, StoreType
  <2>3. StartInv'
    BY <1>1, <2>1, PageOK DEF InsertPage, TypeInv, StartInv, StartHandlerType, StartLabels
  <2>4. QED
    BY <1>1, <2>2, <2>3, Frame DEF InsertPage, TypeInv
<1>2. CASE PublishChunk(s)
  <2>1. chunkIdx[s] \in ChunkIdx /\ batch[s] \in SUBSET Contacts /\ sjob[s] \in StartIds
    BY <1>2 DEF PublishChunk, TypeInv, StartInv, StartHandlerType
  <2>2. /\ QueueOK(chunkMsg, ChunkMsgs)'
        /\ (payload \in [ChunkMsgs -> SUBSET Contacts])'
        /\ (dedup \in SUBSET ChunkIdx)'
    BY <1>2, <2>1, StoreChunkOK DEF PublishChunk, TypeInv
  <2>3. CASE UNCHANGED <<sjob, startMsg>> /\ PublishedOn(s)
    <3>1. StreamInv'
      BY <1>2, <2>2, <2>3 DEF PublishChunk, TypeInv, StreamInv, StreamType, QueueOK
    <3>2. StartInv'
      BY <2>1, <2>3, PublishedOnOK DEF TypeInv
    <3>3. QED
      BY <1>2, <3>1, <3>2, DisturbOK, Frame DEF PublishChunk, PublishedOn, TypeInv
  <2>4. CASE Disturb /\ NakStart(s)
    <3>1. QueueOK(startMsg, StartIds)'
      BY <2>1, <2>4, RequeueOK DEF NakStart, TypeInv, StreamInv, QueueOK
    <3>2. StreamInv'
      BY <1>2, <2>2, <3>1 DEF PublishChunk, TypeInv, StreamInv, StreamType, QueueOK
    <3>3. StartInv'
      BY <2>4, StartIdleOK DEF NakStart, TypeInv
    <3>4. QED
      BY <1>2, <2>4, <3>2, <3>3, DisturbOK, Frame DEF PublishChunk, TypeInv
  <2>5. QED
    BY <1>2, <2>3, <2>4 DEF PublishChunk, PublishedOn
<1>3. QED
  BY <1>1, <1>2

\* The last statement of a streaming pass.
LEMMA FinishOK ==
    ASSUME TypeInv, NEW s \in Starters, FinishStart(s)
    PROVE  TypeInv'
<1>1. total[s] \in Nat
  BY DEF TypeInv, StartInv, StartHandlerType
<1>2. StoreType'
  BY <1>1, RowOK DEF FinishStart, TypeInv, StoreType
<1>3. StartInv'
  BY DEF FinishStart, TypeInv, StartInv, StartHandlerType, StartLabels
<1>4. QED
  BY <1>2, <1>3, Frame DEF FinishStart, TypeInv

-----------------------------------------------------------------------------
(* The actions of the chunk handler keep TypeInv.                           *)

\* Moving on to the next recipient, with or without one to retry.
LEMMA LoopOK ==
    ASSUME ChunkInv, NEW w \in Workers, NEW r \in Contacts, pc[w] # "idle",
           UNCHANGED <<job, attempt>>,
           Next1(w, r) \/ (GoTo(w, "mark") /\ UNCHANGED todo)
                       \/ (GoTo(w, "ses") /\ UNCHANGED todo)
                       \/ (GoTo(w, "markSent") /\ UNCHANGED todo)
                       \/ (GoTo(w, "markFailed") /\ UNCHANGED todo),
           sent' = sent \/ sent' = [sent EXCEPT ![w] = @ + 1],
           failed' = failed \/ failed' = [failed EXCEPT ![w] = @ + 1],
           transient' = transient \/ transient' = [transient EXCEPT ![w] = @ \cup {r}]
    PROVE  ChunkInv'
<1>1. (sent \in [Workers -> Nat])' /\ (failed \in [Workers -> Nat])'
  BY DEF ChunkInv, ChunkHandlerType
<1>2. (todo \in [Workers -> SUBSET Contacts])' /\ (transient \in [Workers -> SUBSET Contacts])'
  BY DEF ChunkInv, ChunkHandlerType, Next1
<1>3. (pc \in [Workers -> ChunkLabels])' /\ \A v \in Workers : pc'[v] # "idle" => pc[v] # "idle"
  BY DEF ChunkInv, ChunkHandlerType, ChunkLabels, Next1, GoTo
<1>4. QED
  BY <1>1, <1>2, <1>3 DEF ChunkInv, ChunkHandlerType

\* Updates of a recipient's row write a status.
LEMMA RecipientOK ==
    ASSUME StoreType, NEW r \in Contacts, UNCHANGED <<segment, campaign>>,
           \/ UNCHANGED recipient \/ FailRecipient(r)
           \/ recipient' = [recipient EXCEPT ![r] = "sent"]
           \/ recipient' = [recipient EXCEPT ![r] =
                 IF @ \in {"queued", "failed", "sending"} THEN "sending" ELSE @]
    PROVE  StoreType'
BY DEF StoreType, FailRecipient, RecipientStatus

\* The steps of processRecipient.
LEMMA RecipientStepOK ==
    ASSUME TypeInv, NEW w \in Workers, NEW r \in Contacts,
           \/ Check(w, r) \/ MarkSending(w, r) \/ SendEmail(w, r)
           \/ MarkSent(w, r) \/ MarkFailed(w, r)
    PROVE  TypeInv'
<1>1. CASE Check(w, r)
  <2>1. ChunkInv'
    BY <1>1, LoopOK DEF Check, Transient, TypeInv
  <2>2. HistoryType'
    BY <1>1, DisturbOK DEF Check, TypeInv
  <2>3. QED
    BY <1>1, <2>1, <2>2, Frame DEF Check, TypeInv
<1>2. CASE MarkSending(w, r)
  <2>1. ChunkInv'
    BY <1>2, LoopOK DEF MarkSending, Transient, TypeInv
  <2>2. HistoryType'
    BY <1>2, DisturbOK DEF MarkSending, TypeInv
  <2>3. StoreType'
    BY <1>2, RecipientOK DEF MarkSending, TypeInv
  <2>4. QED
    BY <1>2, <2>1, <2>2, <2>3, Frame DEF MarkSending, TypeInv
<1>3. CASE SendEmail(w, r)
  <2>1. ChunkInv'
    BY <1>3, LoopOK DEF SendEmail, Transient, TypeInv
  <2>2. HistoryType'
    BY <1>3, ConstantsAssumption
       DEF SendEmail, TypeInv, HistoryType, Disturb, Undisturbed, ConstantsAssumption
  <2>3. QED
    BY <1>3, <2>1, <2>2, Frame DEF SendEmail, TypeInv
<1>4. CASE MarkSent(w, r)
  <2>1. ChunkInv'
    BY <1>4, LoopOK DEF MarkSent, TypeInv
  <2>2. HistoryType'
    BY <1>4, DisturbOK DEF MarkSent, TypeInv
  <2>3. StoreType'
    BY <1>4, RecipientOK DEF MarkSent, TypeInv
  <2>4. QED
    BY <1>4, <2>1, <2>2, <2>3, Frame DEF MarkSent, TypeInv
<1>5. CASE MarkFailed(w, r)
  <2>1. ChunkInv'
    BY <1>5, LoopOK DEF MarkFailed, TypeInv
  <2>2. HistoryType'
    BY <1>5, DisturbOK DEF MarkFailed, TypeInv
  <2>3. StoreType'
    BY <1>5, RecipientOK DEF MarkFailed, TypeInv
  <2>4. QED
    BY <1>5, <2>1, <2>2, <2>3, Frame DEF MarkFailed, TypeInv
<1>6. QED
  BY <1>1, <1>2, <1>3, <1>4, <1>5

\* Failing the recipients that are left on the last delivery.
LEMMA GiveUpOK ==
    ASSUME TypeInv, NEW w \in Workers, NEW r \in Contacts, GiveUp(w, r)
    PROVE  TypeInv'
<1>1. ChunkInv'
  BY DEF GiveUp, GoTo, TypeInv, ChunkInv, ChunkHandlerType, ChunkLabels
<1>2. HistoryType'
  BY DisturbOK DEF GiveUp, TypeInv
<1>3. StoreType'
  BY RecipientOK DEF GiveUp, TypeInv
<1>4. QED
  BY <1>1, <1>2, <1>3, Frame DEF GiveUp, TypeInv

\* A delivery of a chunk, and the end of its loop.
LEMMA ChunkFlowOK ==
    ASSUME TypeInv, NEW w \in Workers,
           (\E m \in ChunkMsgs : ReceiveChunk(w, m)) \/ LoopDone(w)
    PROVE  TypeInv'
<1>1. CASE \E m \in ChunkMsgs : ReceiveChunk(w, m)
  <2> PICK m \in ChunkMsgs : ReceiveChunk(w, m)
    BY <1>1
  <2>1. QueueOK(Deliver(chunkMsg, m), ChunkMsgs)
    BY DeliverOK DEF ReceiveChunk, TypeInv, StreamInv
  <2>2. QueueOK(chunkMsg, ChunkMsgs)'
    BY <2>1 DEF ReceiveChunk, QueueOK
  <2>3. StreamInv'
    BY <2>2 DEF ReceiveChunk, TypeInv, StreamInv, StreamType, QueueOK
  <2>4. chunkMsg[m].n + 1 \in 0..MaxAttempts /\ payload[m] \in SUBSET Contacts
    BY ConstantsAssumption
       DEF ReceiveChunk, TypeInv, StreamInv, StreamType, QueueOK, Messages, ConstantsAssumption
  <2>5. ChunkInv'
    BY <2>4 DEF ReceiveChunk, TypeInv, ChunkInv, ChunkHandlerType, ChunkLabels
  <2>6. QED
    BY <2>3, <2>5, Frame DEF ReceiveChunk, TypeInv
<1>2. CASE LoopDone(w)
  <2>1. ChunkInv'
    BY <1>2 DEF LoopDone, GoTo, TypeInv, ChunkInv, ChunkHandlerType, ChunkLabels
  <2>2. QED
    BY <1>2, <2>1, Frame DEF LoopDone, TypeInv
<1>3. QED
  BY <1>1, <1>2

\* The chunk handler returns its message, settled or for another delivery.
LEMMA ReturnChunkOK ==
    ASSUME TypeInv, NEW w \in Workers, pc[w] # "idle", NakChunk(w) \/ SettleChunk(w)
    PROVE  ChunkInv' /\ QueueOK(chunkMsg, ChunkMsgs)'
<1>1. job[w] \in ChunkMsgs
  BY DEF TypeInv, ChunkInv
<1>2. QueueOK(Requeue(chunkMsg, job[w]), ChunkMsgs) /\ QueueOK(Settle(chunkMsg, job[w]), ChunkMsgs)
  BY <1>1, RequeueOK, SettleOK DEF TypeInv, StreamInv
<1>3. QueueOK(chunkMsg, ChunkMsgs)'
  BY <1>2 DEF NakChunk, SettleChunk, QueueOK
<1>4. ChunkInv'
  BY ChunkIdleOK DEF NakChunk, SettleChunk, TypeInv
<1>5. QED
  BY <1>3, <1>4

\* Every way to return keeps the stream well typed.
LEMMA ReturnStream ==
    ASSUME TypeInv, QueueOK(chunkMsg, ChunkMsgs)', UNCHANGED <<startMsg, payload, dedup, firing>>,
           NEW k \in ChunkIdx, UNCHANGED dlq \/ dlq' = dlq \cup {k}
    PROVE  StreamInv'
BY DEF TypeInv, StreamInv, StreamType, QueueOK

\* Ack, Nak and Term after the loop, with the dead letter.
LEMMA SettleStepOK ==
    ASSUME TypeInv, NEW w \in Workers,
           AckChunk(w) \/ RetryChunk(w) \/ DeadLetter(w) \/ ContextExpired(w)
    PROVE  TypeInv'
<1>1. pc[w] # "idle" /\ (NakChunk(w) \/ SettleChunk(w))
  BY DEF AckChunk, RetryChunk, DeadLetter, ContextExpired
<1>2. ChunkInv' /\ QueueOK(chunkMsg, ChunkMsgs)'
  BY <1>1, ReturnChunkOK
<1>3. job[w] \in ChunkMsgs /\ job[w][1] \in ChunkIdx
  BY <1>1 DEF TypeInv, ChunkInv, ChunkMsgs
<1>4. UNCHANGED dlq \/ dlq' = dlq \cup {job[w][1]}
  BY DEF AckChunk, RetryChunk, DeadLetter, ContextExpired
<1>5. UNCHANGED <<startMsg, payload, dedup, firing, store, startHandler>>
  BY DEF AckChunk, RetryChunk, DeadLetter, ContextExpired
<1>6. StreamInv'
  BY <1>2, <1>3, <1>4, <1>5, ReturnStream
<1>7. HistoryType'
  BY DisturbOK, Frame DEF AckChunk, RetryChunk, DeadLetter, ContextExpired, TypeInv
<1>8. QED
  BY <1>2, <1>5, <1>6, <1>7, Frame DEF TypeInv

\* The counters and the completion of the campaign row.
LEMMA CountStepOK ==
    ASSUME TypeInv, NEW w \in Workers,
           Count(w) \/ Complete(w) \/ FinalCount(w) \/ FinalComplete(w)
    PROVE  TypeInv'
<1>1. sent[w] \in Nat /\ failed[w] \in Nat /\ campaign \in CampaignRows
  BY DEF TypeInv, ChunkInv, ChunkHandlerType, StoreType
<1>2. StoreType'
  <2>1. /\ IncrementCampaignCounts(campaign, sent[w], failed[w]) \in CampaignRows
        /\ IncrementCampaignCounts(campaign, 0, failed[w]) \in CampaignRows
        /\ MarkCampaignComplete(campaign) \in CampaignRows
    BY <1>1, RowOK
  <2>2. QED
    BY <2>1 DEF Count, Complete, FinalCount, FinalComplete, TypeInv, StoreType
<1>3. HistoryType'
  BY DisturbOK DEF Count, Complete, FinalCount, FinalComplete, TypeInv
<1>4. CASE Count(w) /\ NakChunk(w)
  <2>1. ChunkInv' /\ QueueOK(chunkMsg, ChunkMsgs)'
    BY <1>4, ReturnChunkOK DEF Count
  <2>2. StreamInv'
    BY <1>4, <2>1 DEF Count, TypeInv, StreamInv, StreamType, QueueOK
  <2>3. QED
    BY <1>2, <1>3, <1>4, <2>1, <2>2, Frame DEF Count, TypeInv
<1>5. CASE Count(w) /\ ~NakChunk(w)
  <2>1. ChunkInv'
    BY <1>5 DEF Count, GoTo, TypeInv, ChunkInv, ChunkHandlerType, ChunkLabels
  <2>2. StreamInv'
    BY <1>5 DEF Count, TypeInv, StreamInv, StreamType, QueueOK
  <2>3. QED
    BY <1>2, <1>3, <1>5, <2>1, <2>2, Frame DEF Count, TypeInv
<1>6. CASE Complete(w) \/ FinalCount(w) \/ FinalComplete(w)
  <2>1. ChunkInv'
    BY <1>6 DEF Complete, FinalCount, FinalComplete, GoTo, TypeInv, ChunkInv,
                ChunkHandlerType, ChunkLabels
  <2>2. UNCHANGED <<stream, firing, startHandler>>
    BY <1>6 DEF Complete, FinalCount, FinalComplete
  <2>3. QED
    BY <1>2, <1>3, <2>1, <2>2, Frame DEF TypeInv
<1>7. QED
  BY <1>4, <1>5, <1>6

\* Crashes, timers and the changing segment.
LEMMA EnvironmentOK ==
    ASSUME TypeInv,
           Timers \/ Crash \/ \E c \in Contacts : SegmentChange(c)
    PROVE  TypeInv'
<1>1. CASE \E m \in StartIds : ExpireStart(m)
  <2> PICK m \in StartIds : ExpireStart(m)
    BY <1>1
  <2>1. QueueOK(Requeue(startMsg, m), StartIds)
    BY RequeueOK DEF TypeInv, StreamInv
  <2>2. StreamInv'
    BY <2>1 DEF ExpireStart, TypeInv, StreamInv, StreamType, QueueOK
  <2>3. HistoryType'
    BY DisturbOK DEF ExpireStart, TypeInv
  <2>4. QED
    BY <2>2, <2>3, Frame DEF ExpireStart, TypeInv
<1>2. CASE \E m \in ChunkMsgs : ExpireChunk(m)
  <2> PICK m \in ChunkMsgs : ExpireChunk(m)
    BY <1>2
  <2>1. QueueOK(Requeue(chunkMsg, m), ChunkMsgs)
    BY RequeueOK DEF TypeInv, StreamInv
  <2>2. StreamInv'
    BY <2>1 DEF ExpireChunk, TypeInv, StreamInv, StreamType, QueueOK
  <2>3. HistoryType'
    BY DisturbOK DEF ExpireChunk, TypeInv
  <2>4. QED
    BY <2>2, <2>3, Frame DEF ExpireChunk, TypeInv
<1>3. CASE \E k \in ChunkIdx : ExpireDedup(k)
  <2>1. StreamInv'
    BY <1>3 DEF ExpireDedup, TypeInv, StreamInv, StreamType, QueueOK
  <2>2. HistoryType'
    BY <1>3, DisturbOK DEF ExpireDedup, TypeInv
  <2>3. QED
    BY <1>3, <2>1, <2>2, Frame DEF ExpireDedup, TypeInv
<1>4. CASE \E w \in Workers : CrashChunk(w)
  <2>1. ChunkInv'
    BY <1>4, ChunkIdleOK DEF CrashChunk, TypeInv
  <2>2. HistoryType'
    BY <1>4, DisturbOK DEF CrashChunk, TypeInv
  <2>3. QED
    BY <1>4, <2>1, <2>2, Frame DEF CrashChunk, TypeInv
<1>5. CASE \E c \in Contacts : SegmentChange(c)
  <2>1. StoreType'
    BY <1>5 DEF SegmentChange, TypeInv, StoreType
  <2>2. HistoryType'
    BY <1>5, ConstantsAssumption DEF SegmentChange, TypeInv, HistoryType, ConstantsAssumption
  <2>3. QED
    BY <1>5, <2>1, <2>2, Frame DEF SegmentChange, TypeInv
<1>6. QED
  BY <1>1, <1>2, <1>3, <1>4, <1>5, StartFaultOK DEF Timers, Crash

\* Every step keeps TypeInv.
LEMMA NextTypeInv == TypeInv /\ [Next]_vars => TypeInv'
<1> SUFFICES ASSUME TypeInv, [Next]_vars PROVE TypeInv'
  OBVIOUS
<1>1. CASE Scheduler
  BY <1>1, SchedulerOK
<1>2. ASSUME NEW s \in Starters, StartStep(s) PROVE TypeInv'
  BY <1>2, StartFlowOK, StartFaultOK, PagingOK, FinishOK DEF StartStep
<1>3. ASSUME NEW w \in Workers, ChunkStep(w) PROVE TypeInv'
  BY <1>3, RecipientStepOK, GiveUpOK, ChunkFlowOK, SettleStepOK, CountStepOK
     DEF ChunkStep, RecipientStep
<1>4. CASE Timers \/ Crash \/ \E c \in Contacts : SegmentChange(c)
  BY <1>4, EnvironmentOK
<1>5. CASE UNCHANGED vars
  BY <1>5, Frame DEF vars, TypeInv, store, stream, startHandler, chunkHandler, history
<1>6. QED
  BY <1>1, <1>2, <1>3, <1>4, <1>5 DEF Next

-----------------------------------------------------------------------------
\* The types of CampaignSend, and with them the bound on deliveries: no message
\* is delivered more often than MaxDeliver allows.
THEOREM TypeCorrect == Spec => []TypeOK
<1>1. TypeInv => TypeOK
  BY DEF TypeInv, TypeOK, StreamInv, StartInv, ChunkInv
<1>2. QED
  BY <1>1, InitTypeInv, NextTypeInv, PTL DEF Spec

-----------------------------------------------------------------------------
(* What the rows promise.                                                   *)

Rows == {r \in Contacts : recipient[r] # "absent"}

\* Nobody is carried, sent to or kept for a retry without a recipient row.
RowsFirst ==
    /\ \A s \in Starters : batch[s] \subseteq Rows
    /\ \A m \in ChunkMsgs : payload[m] \subseteq Rows
    /\ \A w \in Workers : todo[w] \subseteq Rows /\ transient[w] \subseteq Rows

\* A worker about to write 'sent' for r has SES's answer for r.
AcceptedFirst ==
    \A w \in Workers : \A r \in Contacts :
        pc[w] = "markSent" /\ IsFirst(r, todo[w]) => accepted[r] > 0

DeliveryInv == TypeInv /\ RowsFirst /\ AcceptedFirst /\ SentIsAccepted

\* What a step of the contract does to one recipient.
ContractStep == Contract!Next \/ UNCHANGED <<recipient, accepted>>

\* The recipient at the head of the loop is unique.
LEMMA OneFirst ==
    ASSUME NEW S \in SUBSET Contacts, NEW r, NEW q, IsFirst(r, S), IsFirst(q, S)
    PROVE  r = q
BY DEF IsFirst, Contacts

\* Steps that touch neither a recipient's row nor SES.
Quiet ==
    /\ UNCHANGED <<recipient, accepted>>
    /\ \A s \in Starters : batch'[s] \subseteq batch[s]
    /\ \A m \in ChunkMsgs : payload'[m] \subseteq Rows
    /\ \A w \in Workers :
          /\ todo'[w] \subseteq Rows
          /\ transient'[w] \subseteq Rows
          /\ pc'[w] = "markSent" => pc[w] = "markSent" /\ todo'[w] = todo[w]

\* Quiet steps keep the invariant.
LEMMA QuietKeeps == DeliveryInv /\ TypeInv' /\ Quiet => DeliveryInv'
<1> SUFFICES ASSUME DeliveryInv, TypeInv', Quiet PROVE DeliveryInv'
  OBVIOUS
<1>1. Rows' = Rows
  BY DEF Quiet, Rows
<1>2. RowsFirst'
  BY <1>1 DEF Quiet, DeliveryInv, RowsFirst
<1>3. AcceptedFirst'
  BY DEF Quiet, DeliveryInv, AcceptedFirst
<1>4. QED
  BY <1>2, <1>3 DEF Quiet, DeliveryInv, SentIsAccepted

\* Returning a chunk is quiet.
LEMMA ReturnIsQuiet ==
    ASSUME DeliveryInv, NEW w \in Workers, ChunkIdle(w),
           UNCHANGED <<recipient, accepted, startHandler, payload>>
    PROVE  Quiet
BY DEF Quiet, ChunkIdle, DeliveryInv, RowsFirst, TypeInv, ChunkInv, ChunkHandlerType,
       startHandler

\* The scheduler, the timers and the segment are quiet.
LEMMA OutsideIsQuiet ==
    ASSUME DeliveryInv,
           Scheduler \/ Timers \/ (\E c \in Contacts : SegmentChange(c))
    PROVE  Quiet
<1>1. UNCHANGED <<recipient, accepted, startHandler, payload, chunkHandler>>
  BY DEF Scheduler, SchedulerPoll, SchedulerFire, Timers, ExpireStart, ExpireChunk,
         ExpireDedup, SegmentChange, store, stream, history
<1>2. QED
  BY <1>1 DEF Quiet, DeliveryInv, RowsFirst, startHandler, chunkHandler

\* The start handler is quiet but for the insertion of rows.
LEMMA StartIsQuiet ==
    ASSUME DeliveryInv, NEW s \in Starters,
           \/ \E m \in StartIds : ReceiveStart(s, m)
           \/ StartStatus(s) \/ PublishChunk(s) \/ FinishStart(s)
           \/ AckStart(s) \/ StartError(s) \/ CrashStart(s)
    PROVE  Quiet
<1>1. UNCHANGED <<recipient, accepted, chunkHandler>>
  BY DEF ReceiveStart, StartStatus, PublishChunk, FinishStart, AckStart, StartError,
         CrashStart, store, history
<1>2. \A t \in Starters : batch'[t] \subseteq batch[t]
  BY DEF ReceiveStart, StartStatus, PublishChunk, FinishStart, AckStart, StartError,
         CrashStart, NakStart, StartIdle, DeliveryInv, TypeInv, StartInv, StartHandlerType
<1>3. \A m \in ChunkMsgs : payload'[m] \subseteq Rows
  <2>1. CASE PublishChunk(s)
    <3>1. batch[s] \subseteq Rows
      BY DEF DeliveryInv, RowsFirst
    <3>2. QED
      BY <2>1, <3>1 DEF PublishChunk, StoreChunk, DeliveryInv, RowsFirst, TypeInv, StreamInv,
                        StreamType
  <2>2. CASE ~PublishChunk(s)
    BY <2>2 DEF ReceiveStart, StartStatus, FinishStart, AckStart, StartError, CrashStart,
         stream, DeliveryInv, RowsFirst
  <2>3. QED
    BY <2>1, <2>2
<1>4. QED
  BY <1>1, <1>2, <1>3 DEF Quiet, DeliveryInv, RowsFirst, chunkHandler

\* The chunk handler is quiet outside processRecipient's writes.
LEMMA ChunkIsQuiet ==
    ASSUME DeliveryInv, NEW w \in Workers,
           \/ \E m \in ChunkMsgs : ReceiveChunk(w, m)
           \/ \E r \in Contacts : Check(w, r)
           \/ LoopDone(w) \/ Count(w) \/ Complete(w) \/ AckChunk(w) \/ RetryChunk(w)
           \/ FinalCount(w) \/ FinalComplete(w) \/ DeadLetter(w) \/ ContextExpired(w)
           \/ CrashChunk(w)
    PROVE  Quiet
<1>1. CASE ChunkIdle(w) /\ UNCHANGED <<recipient, accepted, startHandler, payload>>
  BY <1>1, ReturnIsQuiet
<1>2. CASE \E m \in ChunkMsgs : ReceiveChunk(w, m)
  BY <1>2 DEF ReceiveChunk, Quiet, DeliveryInv, RowsFirst, TypeInv, ChunkInv,
              ChunkHandlerType, store, startHandler, history
<1>3. CASE \E r \in Contacts : Check(w, r)
  <2> PICK r \in Contacts : Check(w, r)
    BY <1>3
  <2>1. todo[w] \subseteq Rows /\ transient[w] \subseteq Rows /\ r \in todo[w]
    BY DEF Check, IsFirst, DeliveryInv, RowsFirst
  <2>2. QED
    BY <2>1 DEF Check, Next1, GoTo, Transient, Quiet, DeliveryInv, RowsFirst, TypeInv,
                ChunkInv, ChunkHandlerType, store, stream, startHandler
<1>4. CASE LoopDone(w) \/ Complete(w) \/ FinalCount(w) \/ FinalComplete(w)
           \/ (Count(w) /\ ~NakChunk(w))
  <2>1. UNCHANGED <<recipient, accepted, startHandler, payload, todo, transient>>
    BY <1>4 DEF LoopDone, Complete, FinalCount, FinalComplete, Count, store, stream, history
  <2>2. \A v \in Workers : pc'[v] = "markSent" => pc[v] = "markSent"
    BY <1>4 DEF LoopDone, Complete, FinalCount, FinalComplete, Count, GoTo, DeliveryInv,
                TypeInv, ChunkInv, ChunkHandlerType
  <2>3. QED
    BY <2>1, <2>2 DEF Quiet, DeliveryInv, RowsFirst, startHandler
<1>5. QED
  <2>1. AckChunk(w) \/ RetryChunk(w) \/ DeadLetter(w) \/ ContextExpired(w) \/ CrashChunk(w)
        \/ (Count(w) /\ NakChunk(w))
        => ChunkIdle(w) /\ UNCHANGED <<recipient, accepted, startHandler, payload>>
    BY DEF AckChunk, RetryChunk, DeadLetter, ContextExpired, CrashChunk, Count, NakChunk,
           SettleChunk, store, stream, history
  <2>2. QED
    BY <1>1, <1>2, <1>3, <1>4, <2>1

\* No step takes a row away.
LEMMA RowsGrow ==
    ASSUME DeliveryInv, NEW r \in Contacts, FailRecipient(r) \/ UNCHANGED recipient
           \/ recipient' = [recipient EXCEPT ![r] = "sent"]
           \/ recipient' = [recipient EXCEPT ![r] =
                 IF @ \in {"queued", "failed", "sending"} THEN "sending" ELSE @]
    PROVE  Rows \subseteq Rows'
BY DEF Rows, FailRecipient, DeliveryInv, TypeInv, StoreType

\* A step of a worker on one recipient keeps what is carried inside Rows.
LEMMA WorkerRows ==
    ASSUME DeliveryInv, NEW w \in Workers, NEW r \in Contacts, r \in todo[w] \cup transient[w],
           Rows \subseteq Rows', UNCHANGED <<startHandler, payload>>,
           todo' = todo \/ todo' = [todo EXCEPT ![w] = @ \ {r}],
           \/ transient' = transient
           \/ transient' = [transient EXCEPT ![w] = @ \cup {r}]
           \/ transient' = [transient EXCEPT ![w] = @ \ {r}]
    PROVE  RowsFirst'
<1>1. \A s \in Starters : batch'[s] \subseteq Rows
  BY DEF startHandler, DeliveryInv, RowsFirst
<1>2. \A m \in ChunkMsgs : payload'[m] \subseteq Rows
  BY DEF DeliveryInv, RowsFirst
<1>3. r \in Rows
  BY DEF DeliveryInv, RowsFirst
<1>4. \A v \in Workers : todo'[v] \subseteq Rows /\ transient'[v] \subseteq Rows
  BY <1>3 DEF DeliveryInv, RowsFirst, TypeInv, ChunkInv, ChunkHandlerType
<1>5. QED
  BY <1>1, <1>2, <1>4 DEF RowsFirst

\* A page of rows: only contacts without a row get one.
LEMMA InsertPageStep ==
    ASSUME DeliveryInv, NEW s \in Starters, InsertPage(s)
    PROVE  RowsFirst' /\ AcceptedFirst' /\ SentIsAccepted' /\ ContractStep
<1> DEFINE P == Page(afterID[s])
<1>1. P \subseteq Contacts
  BY DEF Page, DeliveryInv, TypeInv, StoreType
<1>2. recipient' = [r \in Contacts |->
            IF r \in P /\ recipient[r] = "absent" THEN "queued" ELSE recipient[r]]
      /\ batch' = [batch EXCEPT ![s] = P]
      /\ UNCHANGED <<payload, chunkHandler, accepted>>
  BY DEF InsertPage, stream, history
<1> HIDE DEF P
<1>3. Rows \subseteq Rows' /\ P \subseteq Rows'
  BY <1>1, <1>2 DEF Rows
<1>4. RowsFirst'
  BY <1>2, <1>3 DEF RowsFirst, DeliveryInv, TypeInv, StartInv, StartHandlerType, chunkHandler
<1>5. AcceptedFirst' /\ SentIsAccepted'
  BY <1>2 DEF AcceptedFirst, SentIsAccepted, DeliveryInv, chunkHandler
<1>6. ContractStep
  <2> DEFINE S == {r \in P : recipient[r] = "absent"}
  <2>1. S \in SUBSET {r \in Contacts : recipient[r] = "absent"}
    BY <1>1
  <2>2. recipient' = [r \in Contacts |-> IF r \in S THEN "queued" ELSE recipient[r]]
    BY <1>2
  <2>3. Contract!Resolve
    BY <1>2, <2>1, <2>2 DEF Contract!Resolve
  <2>4. QED
    BY <2>3 DEF ContractStep, Contract!Next
<1>7. QED
  BY <1>4, <1>5, <1>6

\* MarkSending begins an attempt on an open row and leaves a 'sent' one alone.
LEMMA MarkSendingStep ==
    ASSUME DeliveryInv, NEW w \in Workers, NEW r \in Contacts, MarkSending(w, r)
    PROVE  RowsFirst' /\ AcceptedFirst' /\ SentIsAccepted' /\ ContractStep
<1>1. r \in todo[w] /\ UNCHANGED <<startHandler, payload, accepted>>
  BY DEF MarkSending, IsFirst, stream
<1>2. RowsFirst'
  BY <1>1, RowsGrow, WorkerRows DEF MarkSending, Transient, Next1
<1>3. AcceptedFirst'
  BY <1>1 DEF MarkSending, Transient, Next1, GoTo, AcceptedFirst, DeliveryInv, TypeInv,
              ChunkInv, ChunkHandlerType
<1>4. SentIsAccepted'
  BY <1>1 DEF MarkSending, SentIsAccepted, DeliveryInv, TypeInv, StoreType
<1>5. ContractStep
  <2>1. CASE UNCHANGED recipient
    BY <1>1, <2>1 DEF ContractStep
  <2>2. CASE recipient[r] \in {"queued", "failed", "sending"} /\ ~UNCHANGED recipient
    BY <1>1, <2>2 DEF MarkSending, ContractStep, Contract!Next, Contract!Begin
  <2>3. CASE recipient[r] \notin {"queued", "failed", "sending"}
    BY <1>1, <2>3 DEF MarkSending, ContractStep, DeliveryInv, TypeInv, StoreType
  <2>4. QED
    BY <2>1, <2>2, <2>3
<1>6. QED
  BY <1>2, <1>3, <1>4, <1>5

\* SES accepts a message only for a contact that has a row.
LEMMA SendEmailStep ==
    ASSUME DeliveryInv, NEW w \in Workers, NEW r \in Contacts, SendEmail(w, r)
    PROVE  RowsFirst' /\ AcceptedFirst' /\ SentIsAccepted' /\ ContractStep
<1>1. r \in todo[w] /\ IsFirst(r, todo[w]) /\ UNCHANGED <<startHandler, payload, recipient>>
  BY DEF SendEmail, IsFirst, stream, store
<1>2. accepted \in [Contacts -> Nat] /\ recipient[r] # "absent"
  BY <1>1 DEF DeliveryInv, TypeInv, HistoryType, RowsFirst, Rows
<1>3. RowsFirst'
  BY <1>1, WorkerRows DEF SendEmail, Transient, Next1, Rows
<1>4. \A q \in Contacts : accepted[q] > 0 => accepted'[q] > 0
  BY <1>2 DEF SendEmail
<1>5. AcceptedFirst'
  <2> SUFFICES ASSUME NEW v \in Workers, NEW q \in Contacts,
                      pc'[v] = "markSent", IsFirst(q, todo'[v])
               PROVE  accepted'[q] > 0
    BY DEF AcceptedFirst
  <2>1. CASE v # w
    <3>1. pc[v] = "markSent" /\ IsFirst(q, todo[v])
      BY <2>1 DEF SendEmail, Transient, Next1, GoTo, DeliveryInv, TypeInv, ChunkInv,
                  ChunkHandlerType
    <3>2. QED
      BY <1>2, <1>4, <3>1 DEF DeliveryInv, AcceptedFirst
  <2>2. CASE v = w
    <3>1. accepted' = [accepted EXCEPT ![r] = @ + 1] /\ todo'[w] = todo[w]
      BY <2>2 DEF SendEmail, Transient, Next1, GoTo, DeliveryInv, TypeInv, ChunkInv,
                  ChunkHandlerType
    <3>2. q = r
      BY <1>1, <2>2, <3>1, OneFirst DEF DeliveryInv, TypeInv, ChunkInv, ChunkHandlerType
    <3>3. QED
      BY <1>2, <3>1, <3>2
  <2>3. QED
    BY <2>1, <2>2
<1>6. SentIsAccepted'
  BY <1>1, <1>2, <1>4 DEF SentIsAccepted, DeliveryInv
<1>7. ContractStep
  <2>1. CASE UNCHANGED accepted
    BY <1>1, <2>1 DEF ContractStep
  <2>2. CASE accepted' = [accepted EXCEPT ![r] = @ + 1]
    BY <1>1, <1>2, <2>2 DEF ContractStep, Contract!Next, Contract!Accept
  <2>3. QED
    BY <2>1, <2>2 DEF SendEmail
<1>8. QED
  BY <1>3, <1>5, <1>6, <1>7

\* 'sent' is written only with an acceptance at hand.
LEMMA MarkSentStep ==
    ASSUME DeliveryInv, NEW w \in Workers, NEW r \in Contacts, MarkSent(w, r)
    PROVE  RowsFirst' /\ AcceptedFirst' /\ SentIsAccepted' /\ ContractStep
<1>1. r \in todo[w] /\ UNCHANGED <<startHandler, payload, accepted, transient>>
  BY DEF MarkSent, IsFirst, stream
<1>2. accepted[r] > 0 /\ recipient[r] # "absent"
  BY <1>1 DEF MarkSent, DeliveryInv, AcceptedFirst, RowsFirst, Rows
<1>3. RowsFirst'
  BY <1>1, RowsGrow, WorkerRows DEF MarkSent, Next1
<1>4. AcceptedFirst'
  BY <1>1 DEF MarkSent, Next1, GoTo, AcceptedFirst, DeliveryInv, TypeInv, ChunkInv,
              ChunkHandlerType
<1>5. SentIsAccepted'
  BY <1>1, <1>2 DEF MarkSent, SentIsAccepted, DeliveryInv, TypeInv, StoreType
<1>6. ContractStep
  BY <1>1, <1>2 DEF MarkSent, ContractStep, Contract!Next, Contract!ReportSent
<1>7. QED
  BY <1>3, <1>4, <1>5, <1>6

\* 'failed' never replaces 'sent'.
LEMMA FailStep ==
    ASSUME DeliveryInv, NEW w \in Workers, NEW r \in Contacts,
           MarkFailed(w, r) \/ GiveUp(w, r)
    PROVE  RowsFirst' /\ AcceptedFirst' /\ SentIsAccepted' /\ ContractStep
<1>1. r \in todo[w] \cup transient[w] /\ UNCHANGED <<startHandler, payload, accepted>>
  BY DEF MarkFailed, GiveUp, IsFirst, stream
<1>2. FailRecipient(r) \/ UNCHANGED recipient
  BY DEF MarkFailed, GiveUp
<1>3. recipient[r] # "absent"
  BY <1>1 DEF DeliveryInv, RowsFirst, Rows
<1>4. RowsFirst'
  BY <1>1, <1>2, RowsGrow, WorkerRows DEF MarkFailed, GiveUp, Next1
<1>5. AcceptedFirst'
  BY <1>1 DEF MarkFailed, GiveUp, Next1, GoTo, AcceptedFirst, DeliveryInv, TypeInv,
              ChunkInv, ChunkHandlerType
<1>6. SentIsAccepted'
  BY <1>1, <1>2 DEF FailRecipient, SentIsAccepted, DeliveryInv, TypeInv, StoreType
<1>7. ContractStep
  <2>1. CASE UNCHANGED recipient
    BY <1>1, <2>1 DEF ContractStep
  <2>2. CASE FailRecipient(r) /\ recipient[r] = "sent"
    BY <1>1, <2>2 DEF FailRecipient, ContractStep, DeliveryInv, TypeInv, StoreType
  <2>3. CASE FailRecipient(r) /\ recipient[r] # "sent"
    <3>1. recipient[r] \in {"queued", "failed", "sending"}
      BY <1>3, <2>3 DEF DeliveryInv, TypeInv, StoreType, RecipientStatus
    <3>2. recipient' = [recipient EXCEPT ![r] = "failed"]
      BY <2>3 DEF FailRecipient
    <3>3. QED
      BY <1>1, <3>1, <3>2 DEF ContractStep, Contract!Next, Contract!ReportFailed
  <2>4. QED
    BY <1>2, <2>1, <2>2, <2>3
<1>8. QED
  BY <1>4, <1>5, <1>6, <1>7

-----------------------------------------------------------------------------
\* Every run starts with no row, no message and nothing accepted.
LEMMA InitDelivery == Init => DeliveryInv /\ Contract!Init
BY InitTypeInv DEF Init, DeliveryInv, RowsFirst, AcceptedFirst, SentIsAccepted, Contract!Init

\* Every step keeps the invariant and is a step of the contract or a stutter.
LEMMA NextDelivery == DeliveryInv /\ [Next]_vars => DeliveryInv' /\ ContractStep
<1> SUFFICES ASSUME DeliveryInv, [Next]_vars PROVE DeliveryInv' /\ ContractStep
  OBVIOUS
<1>1. TypeInv'
  BY NextTypeInv DEF DeliveryInv
<1>2. CASE Quiet
  BY <1>1, <1>2, QuietKeeps DEF Quiet, ContractStep
<1>3. CASE UNCHANGED vars
  <2>1. Quiet
    BY <1>3 DEF vars, Quiet, DeliveryInv, RowsFirst
  <2>2. QED
    BY <1>2, <2>1
<1>4. ASSUME NEW s \in Starters, StartStep(s) \/ CrashStart(s)
      PROVE  DeliveryInv' /\ ContractStep
  BY <1>1, <1>2, <1>4, StartIsQuiet, InsertPageStep DEF StartStep, DeliveryInv
<1>5. ASSUME NEW w \in Workers, ChunkStep(w) \/ CrashChunk(w)
      PROVE  DeliveryInv' /\ ContractStep
  <2>1. CASE \E r \in Contacts : RecipientStep(w, r) /\ ~Check(w, r)
    BY <1>1, <2>1, MarkSendingStep, SendEmailStep, MarkSentStep, FailStep
       DEF RecipientStep, DeliveryInv
  <2>2. CASE ~(\E r \in Contacts : RecipientStep(w, r) /\ ~Check(w, r))
    BY <1>2, <1>5, <2>2, ChunkIsQuiet DEF ChunkStep
  <2>3. QED
    BY <2>1, <2>2
<1>6. QED
  BY <1>2, <1>3, <1>4, <1>5, OutsideIsQuiet DEF Next, Crash

\* A recipient row that says 'sent' is never a lie, for any number of workers,
\* deliveries, crashes and lost writes.
THEOREM SentImpliesAccepted == Spec => []SentIsAccepted
<1>1. DeliveryInv => SentIsAccepted
  BY DEF DeliveryInv
<1>2. QED
  BY <1>1, InitDelivery, NextDelivery, PTL DEF Spec

\* The pipeline implements the contract of the recipients table.
THEOREM PipelineKeepsContract == Spec => RowsKeepContract
<1>1. ContractStep => [Contract!Next]_(Contract!cvars)
  BY DEF ContractStep, Contract!cvars
<1>2. QED
  BY <1>1, InitDelivery, NextDelivery, PTL DEF Spec, RowsKeepContract, Contract!Spec

\* 'sent' is final: redeliveries, retries and a second streaming pass leave it.
THEOREM SentStaysSent == Spec => SentIsFinal
<1>1. DeliveryInv /\ [Next]_vars =>
        [\A r \in Contacts : recipient[r] = "sent" => recipient'[r] = "sent"]_vars
  <2> SUFFICES ASSUME DeliveryInv, [Next]_vars, NEW r \in Contacts, recipient[r] = "sent"
               PROVE  recipient'[r] = "sent"
    OBVIOUS
  <2>1. ContractStep
    BY NextDelivery
  <2>2. QED
    BY <2>1 DEF ContractStep, Contract!Next, Contract!Resolve, Contract!Begin,
                Contract!Accept, Contract!ReportSent, Contract!ReportFailed, DeliveryInv,
                TypeInv, StoreType
<1>2. QED
  BY <1>1, InitDelivery, NextDelivery, PTL DEF Spec, SentIsFinal

-----------------------------------------------------------------------------
(* The campaign row.                                                        *)

\* What a completed row satisfies; no statement of the workers reopens it.
RowInv ==
    campaign.completed_at =>
        /\ campaign.status = "completed"
        /\ campaign.sent_count + campaign.failed_count >= campaign.total_recipients

\* Every statement keeps RowInv.
LEMMA RowSteps ==
    ASSUME TypeInv, RowInv, NEW a \in Nat, NEW b \in Nat,
           \/ UNCHANGED campaign
           \/ campaign' = ClaimDueCampaign(campaign)
           \/ campaign' = UpdateCampaignStarted(campaign, a)
           \/ campaign' = IncrementCampaignCounts(campaign, a, b)
           \/ campaign' = MarkCampaignComplete(campaign)
           \/ campaign' = MarkCampaignCompleteEmpty(campaign)
    PROVE  RowInv'
<1>1. campaign \in CampaignRows
  BY DEF TypeInv, StoreType
<1>2. /\ campaign.sent_count \in Nat /\ campaign.failed_count \in Nat
      /\ campaign.total_recipients \in Nat /\ campaign.completed_at \in BOOLEAN
  BY <1>1 DEF CampaignRows
<1>3. CASE campaign' = ClaimDueCampaign(campaign)
  BY <1>1, <1>2, <1>3 DEF RowInv, ClaimDueCampaign, IsDue, CampaignRows
<1>4. CASE campaign' = UpdateCampaignStarted(campaign, a)
  BY <1>1, <1>2, <1>4 DEF RowInv, UpdateCampaignStarted, CampaignRows
<1>5. CASE campaign' = IncrementCampaignCounts(campaign, a, b)
  <2>1. /\ campaign'.sent_count = campaign.sent_count + a
        /\ campaign'.failed_count = campaign.failed_count + b
        /\ campaign'.total_recipients = campaign.total_recipients
        /\ campaign'.completed_at = campaign.completed_at
        /\ campaign'.status = campaign.status
    BY <1>1, <1>5 DEF IncrementCampaignCounts, CampaignRows
  <2>2. QED
    BY <1>2, <2>1 DEF RowInv
<1>6. CASE campaign' = MarkCampaignComplete(campaign)
  BY <1>1, <1>2, <1>6 DEF RowInv, MarkCampaignComplete, CountsReachedTotal, CampaignRows
<1>7. CASE campaign' = MarkCampaignCompleteEmpty(campaign)
  BY <1>1, <1>2, <1>7 DEF RowInv, MarkCampaignCompleteEmpty, CampaignRows
<1>8. CASE UNCHANGED campaign
  BY <1>8 DEF RowInv
<1>9. QED
  BY <1>3, <1>4, <1>5, <1>6, <1>7, <1>8

\* Which statements the actions run.
LEMMA NextRow == TypeInv /\ RowInv /\ [Next]_vars => RowInv'
<1> SUFFICES ASSUME TypeInv, RowInv, [Next]_vars PROVE RowInv'
  OBVIOUS
<1>1. CASE UNCHANGED campaign
  BY <1>1, RowSteps
<1>2. CASE SchedulerPoll
  BY <1>2, RowSteps DEF SchedulerPoll
<1>3. ASSUME NEW s \in Starters, FinishStart(s) PROVE RowInv'
  <2>1. total[s] \in Nat
    BY DEF TypeInv, StartInv, StartHandlerType
  <2>2. QED
    BY <1>3, <2>1, RowSteps DEF FinishStart
<1>4. ASSUME NEW w \in Workers, Count(w) \/ Complete(w) \/ FinalCount(w) \/ FinalComplete(w)
      PROVE  RowInv'
  <2>1. sent[w] \in Nat /\ failed[w] \in Nat
    BY DEF TypeInv, ChunkInv, ChunkHandlerType
  <2>2. QED
    BY <1>4, <2>1, RowSteps DEF Count, Complete, FinalCount, FinalComplete
<1>5. ASSUME NEW s \in Starters, (StartStep(s) \/ CrashStart(s)) /\ ~FinishStart(s)
      PROVE  UNCHANGED campaign
  BY <1>5 DEF StartStep, ReceiveStart, StartStatus, InsertPage, PublishChunk, AckStart,
              StartError, CrashStart, store
<1>6. ASSUME NEW w \in Workers, ChunkStep(w) \/ CrashChunk(w),
             ~(Count(w) \/ Complete(w) \/ FinalCount(w) \/ FinalComplete(w))
      PROVE  UNCHANGED campaign
  BY <1>6 DEF ChunkStep, RecipientStep, ReceiveChunk, Check, MarkSending, SendEmail,
              MarkSent, MarkFailed, GiveUp, LoopDone, AckChunk, RetryChunk, DeadLetter,
              ContextExpired, CrashChunk, store
<1>7. SchedulerFire \/ Timers \/ (\E c \in Contacts : SegmentChange(c)) \/ UNCHANGED vars
      => UNCHANGED campaign
  BY DEF SchedulerFire, Timers, ExpireStart, ExpireChunk, ExpireDedup, SegmentChange, store, vars
<1>8. QED
  BY <1>1, <1>2, <1>3, <1>4, <1>5, <1>6, <1>7 DEF Next, Scheduler, Crash

\* A completed campaign stays one whose counters cover its audience.
THEOREM CompletedStaysCounted == Spec => []CompletedWasCounted
<1>1. Init => RowInv
  BY DEF Init, RowInv, FreshCampaign
<1>2. RowInv => CompletedWasCounted
  BY DEF RowInv, CompletedWasCounted
<1>3. QED
  BY <1>1, <1>2, InitTypeInv, NextTypeInv, NextRow, PTL DEF Spec

-----------------------------------------------------------------------------
(* A campaign that meets no disturbance mails nobody twice, for any number  *)
(* of workers and pages, every SES outcome, every retry, and any change of   *)
(* the segment while its pages are read.                                     *)

Active(s)  == spc[s] # "idle"
Busy(w)    == pc[w] # "idle"
Stored(m)  == chunkMsg[m].st # "none"

\* The campaign has at most one start message, and none before it is claimed.
OneStart ==
    /\ \A m, n \in StartIds : startMsg[m].st # "none" /\ startMsg[n].st # "none" => m = n
    /\ campaign.status = "scheduled" => ~firing
    /\ campaign.status = "scheduled" \/ firing => \A m \in StartIds : startMsg[m].st = "none"

\* A delivered start message has a handler, and the other way round.
StartHeld ==
    /\ \A s \in Starters : Active(s) => startMsg[sjob[s]].st = "out"
    /\ \A s, t \in Starters : Active(s) /\ Active(t) => s = t
    /\ \A m \in StartIds : startMsg[m].st = "out" => HeldStart(m)

\* Chunks are stored by the one streaming pass, which moves upwards only.
OnePass ==
    /\ \A m \in ChunkMsgs : ~Stored(m) => payload[m] = {}
    /\ (\E m \in ChunkMsgs : Stored(m)) =>
          /\ campaign.status # "scheduled" /\ ~firing
          /\ \A m \in StartIds : startMsg[m].st # "ready"
    /\ \A s \in Starters : Active(s) =>
          \A m \in ChunkMsgs : \A r \in payload[m] : r <= afterID[s]
    /\ \A m, n \in ChunkMsgs : m # n => payload[m] \cap payload[n] = {}

\* A delivered chunk has one handler, which knows how often it was delivered.
ChunkHeld ==
    /\ \A w \in Workers : Busy(w) => /\ chunkMsg[job[w]].st = "out"
                                     /\ attempt[w] = chunkMsg[job[w]].n
                                     /\ todo[w] \subseteq payload[job[w]]
    /\ \A v, w \in Workers : Busy(v) /\ Busy(w) /\ job[v] = job[w] => v = w
    /\ \A m \in ChunkMsgs : chunkMsg[m].st = "out" =>
          \E w \in Workers : Busy(w) /\ job[w] = m

\* Every acceptance is recorded or about to be, and nobody who has one is
\* about to get another.
Recorded ==
    /\ \A r \in Contacts : accepted[r] <= 1
    /\ \A r \in Contacts : accepted[r] > 0 =>
          \/ recipient[r] = "sent"
          \/ \E w \in Workers : pc[w] = "markSent" /\ IsFirst(r, todo[w])
    /\ \A w \in Workers : \A r \in Contacts :
          pc[w] \in {"mark", "ses"} /\ IsFirst(r, todo[w]) => accepted[r] = 0

Once == OneStart /\ StartHeld /\ OnePass /\ ChunkHeld /\ Recorded

OnceInv == TypeInv /\ (disturbances = 0 => Once)

-----------------------------------------------------------------------------
(* What the steps that concern one group do to the others.                  *)

\* OneStart looks at the start messages, the scheduler and a status that
\* nothing sets back to scheduled.
LEMMA OneStartFrame ==
    ASSUME OneStart, UNCHANGED <<startMsg, firing>>,
           campaign'.status = "scheduled" => campaign.status = "scheduled"
    PROVE  OneStart'
BY DEF OneStart

\* StartHeld looks at the start messages and their handlers.
LEMMA StartHeldFrame ==
    ASSUME StartHeld, UNCHANGED <<startMsg, spc, sjob>>
    PROVE  StartHeld'
BY DEF StartHeld, Active, HeldStart

\* OnePass looks at the payloads and at how far the pass came.
LEMMA OnePassFrame ==
    ASSUME OnePass, UNCHANGED <<startMsg, firing, payload, spc, afterID>>,
           \A m \in ChunkMsgs : Stored(m)' <=> Stored(m),
           campaign'.status = "scheduled" => campaign.status = "scheduled"
    PROVE  OnePass'
BY DEF OnePass, Active

\* ChunkHeld looks at the chunk messages and their handlers.
LEMMA ChunkHeldFrame ==
    ASSUME ChunkHeld, UNCHANGED <<chunkMsg, job, attempt>>,
           \A m \in ChunkMsgs : Stored(m) => payload'[m] = payload[m],
           \A w \in Workers : /\ Busy(w)' <=> Busy(w)
                              /\ todo'[w] \subseteq todo[w],
           \A w \in Workers : Busy(w) => job[w] \in ChunkMsgs
    PROVE  ChunkHeld'
<1>1. \A w \in Workers : Busy(w) => payload'[job[w]] = payload[job[w]]
  BY DEF ChunkHeld, Stored
<1>2. QED
  BY <1>1 DEF ChunkHeld

\* Recorded looks at the rows, the acceptances and the loops.
LEMMA RecordedFrame ==
    ASSUME Recorded, UNCHANGED accepted,
           \A r \in Contacts : recipient[r] = "sent" => recipient'[r] = "sent",
           \A w \in Workers :
              pc[w] \in {"mark", "ses", "markSent"} \/ pc'[w] \in {"mark", "ses", "markSent"}
              => pc'[w] = pc[w] /\ todo'[w] = todo[w]
    PROVE  Recorded'
<1>1. \A r \in Contacts : accepted'[r] > 0 =>
          \/ recipient'[r] = "sent"
          \/ \E w \in Workers : pc'[w] = "markSent" /\ IsFirst(r, todo'[w])
  BY DEF Recorded
<1>2. \A w \in Workers : \A r \in Contacts :
          pc'[w] \in {"mark", "ses"} /\ IsFirst(r, todo'[w]) => accepted'[r] = 0
  BY DEF Recorded
<1>3. QED
  BY <1>1, <1>2 DEF Recorded

\* No statement sets a campaign back to scheduled.
LEMMA NeverRescheduled ==
    ASSUME TypeInv, NEW a, NEW b,
           \/ UNCHANGED campaign
           \/ campaign' = UpdateCampaignStarted(campaign, a)
           \/ campaign' = IncrementCampaignCounts(campaign, a, b)
           \/ campaign' = MarkCampaignComplete(campaign)
           \/ campaign' = MarkCampaignCompleteEmpty(campaign)
    PROVE  campaign'.status = "scheduled" => campaign.status = "scheduled"
BY DEF TypeInv, StoreType, CampaignRows, UpdateCampaignStarted, IncrementCampaignCounts,
       MarkCampaignComplete, MarkCampaignCompleteEmpty

\* A disturbance is counted.
LEMMA DisturbCounts == TypeInv /\ Disturb => disturbances' # 0
BY ConstantsAssumption DEF TypeInv, HistoryType, Disturb, ConstantsAssumption

-----------------------------------------------------------------------------
(* The steps of a run without disturbances.                                 *)

\* poll and fire: the one start message is published.
LEMMA SchedulerOnce ==
    ASSUME TypeInv, Once, Scheduler, disturbances' = 0
    PROVE  Once'
<1>1. CASE SchedulerPoll
  <2>1. campaign.status = "scheduled" /\ campaign'.status = "sending" /\ firing' = TRUE
        /\ UNCHANGED <<recipient, stream, startHandler, chunkHandler, history>>
    BY <1>1 DEF SchedulerPoll, ClaimDueCampaign, IsDue, TypeInv, StoreType, CampaignRows
  <2>2. OneStart'
    BY <2>1 DEF Once, OneStart, stream
  <2>3. OnePass'
    BY <2>1 DEF Once, OnePass, Stored, Active, stream, startHandler
  <2>4. QED
    BY <2>1, <2>2, <2>3, StartHeldFrame, ChunkHeldFrame, RecordedFrame
       DEF Once, stream, startHandler, chunkHandler, history, TypeInv, ChunkInv, Busy
<1>2. CASE SchedulerFire
  <2>1. firing /\ firing' = FALSE /\ UNCHANGED <<store, chunkMsg, payload, startHandler,
                                                 chunkHandler, accepted>>
    BY <1>2 DEF SchedulerFire
  <2>2. PICK m \in StartIds : startMsg[m].st = "none" /\ startMsg' = NewMsg(startMsg, m)
    BY <1>2, DisturbCounts DEF SchedulerFire
  <2>3. \A n \in StartIds : startMsg[n].st = "none"
    BY <2>1 DEF Once, OneStart
  <2>4. \A n \in StartIds : startMsg'[n].st = IF n = m THEN "ready" ELSE "none"
    BY <2>2, <2>3 DEF NewMsg, TypeInv, StreamInv, StreamType
  <2>5. OneStart'
    BY <2>1, <2>4 DEF Once, OneStart, store
  <2>6. \A s \in Starters : ~Active(s)
    BY <2>3 DEF Once, StartHeld, Active, TypeInv, StartInv
  <2>7. StartHeld'
    BY <2>1, <2>4, <2>6 DEF StartHeld, Active, startHandler
  <2>8. OnePass'
    BY <2>1, <2>6 DEF Once, OnePass, Stored, Active, startHandler
  <2>9. QED
    BY <2>1, <2>5, <2>7, <2>8, ChunkHeldFrame, RecordedFrame
       DEF Once, store, chunkHandler, TypeInv, ChunkInv, Busy
<1>3. QED
  BY <1>1, <1>2 DEF Scheduler

\* The start message is delivered to a handler that finds no chunk stored.
LEMMA ReceiveStartOnce ==
    ASSUME TypeInv, Once, NEW s \in Starters, NEW m \in StartIds, ReceiveStart(s, m)
    PROVE  Once'
<1>1. UNCHANGED <<store, chunkMsg, payload, firing, afterID, chunkHandler, history>>
  BY DEF ReceiveStart
<1>2. /\ startMsg[m].st = "ready"
      /\ \A n \in StartIds : startMsg'[n].st = IF n = m THEN "out" ELSE startMsg[n].st
  BY DEF ReceiveStart, Deliver, TypeInv, StreamInv, StreamType
<1>3. /\ \A t \in Starters : spc'[t] = IF t = s THEN "status" ELSE spc[t]
      /\ \A t \in Starters : sjob'[t] = IF t = s THEN m ELSE sjob[t]
      /\ spc[s] = "idle"
  BY DEF ReceiveStart, TypeInv, StartInv, StartHandlerType
<1>4. \A n \in StartIds : n # m => startMsg[n].st = "none"
  BY <1>2 DEF Once, OneStart
<1>5. \A t \in Starters : ~Active(t)
  BY <1>2, <1>4 DEF Once, StartHeld, Active, TypeInv, StartInv
<1>6. OneStart'
  BY <1>1, <1>2 DEF Once, OneStart, store
<1>7. StartHeld'
  BY <1>2, <1>3, <1>4, <1>5 DEF StartHeld, Active, HeldStart
<1>8. OnePass'
  <2>1. \A n \in ChunkMsgs : ~Stored(n) /\ payload[n] = {}
    BY <1>2 DEF Once, OnePass
  <2>2. \A n \in ChunkMsgs : ~Stored(n)' /\ payload'[n] = {}
    BY <1>1, <2>1 DEF Stored
  <2>3. QED
    BY <2>2 DEF OnePass
<1>9. QED
  BY <1>1, <1>6, <1>7, <1>8, ChunkHeldFrame, RecordedFrame
     DEF Once, store, chunkHandler, history, TypeInv, ChunkInv, Busy

\* The start message is acknowledged at the end of its pass.
LEMMA AckStartOnce ==
    ASSUME TypeInv, Once, NEW s \in Starters, AckStart(s)
    PROVE  Once'
<1>1. UNCHANGED <<store, chunkMsg, payload, firing, chunkHandler, history>>
  BY DEF AckStart
<1>2. Active(s) /\ sjob[s] \in StartIds /\ startMsg[sjob[s]].st = "out"
  BY DEF AckStart, Active, Once, StartHeld, TypeInv, StartInv
<1>3. \A n \in StartIds : startMsg'[n].st = IF n = sjob[s] THEN "gone" ELSE startMsg[n].st
  BY <1>2 DEF AckStart, Settle, TypeInv, StreamInv, StreamType
<1>4. \A t \in Starters : Active(t) => t = s
  BY <1>2 DEF Once, StartHeld
<1>5. \A t \in Starters : ~Active(t)'
  BY <1>4 DEF AckStart, StartIdle, Active, TypeInv, StartInv, StartHandlerType
<1>6. \A n \in StartIds : n # sjob[s] => startMsg[n].st = "none"
  BY <1>2 DEF Once, OneStart
<1>7. OneStart'
  BY <1>1, <1>2, <1>3 DEF Once, OneStart, store
<1>8. StartHeld'
  BY <1>3, <1>5, <1>6 DEF StartHeld
<1>9. OnePass'
  BY <1>1, <1>3, <1>5 DEF Once, OnePass, Stored, store
<1>10. QED
  BY <1>1, <1>7, <1>8, <1>9, ChunkHeldFrame, RecordedFrame
     DEF Once, store, chunkHandler, history, TypeInv, ChunkInv, Busy

\* Steps of a pass that publish nothing.
LEMMA PassOnce ==
    ASSUME TypeInv, Once, NEW s \in Starters, StartStatus(s) \/ InsertPage(s) \/ FinishStart(s)
    PROVE  Once'
<1>1. UNCHANGED <<stream, firing, sjob, afterID, chunkHandler, accepted>>
  BY DEF StartStatus, InsertPage, FinishStart, history
<1>2. \A t \in Starters : Active(t)' <=> Active(t)
  BY DEF StartStatus, InsertPage, FinishStart, Active, TypeInv, StartInv, StartHandlerType
<1>3. campaign'.status = "scheduled" => campaign.status = "scheduled"
  BY NeverRescheduled DEF StartStatus, InsertPage, FinishStart, store
<1>4. \A r \in Contacts : recipient[r] = "sent" => recipient'[r] = "sent"
  BY DEF StartStatus, InsertPage, FinishStart, store
<1>5. OneStart' /\ Recorded' /\ ChunkHeld'
  BY <1>1, <1>3, <1>4, OneStartFrame, RecordedFrame, ChunkHeldFrame
     DEF Once, stream, chunkHandler, TypeInv, ChunkInv, Busy
<1>6. StartHeld'
  BY <1>1, <1>2 DEF Once, StartHeld, HeldStart, stream
<1>7. OnePass'
  BY <1>1, <1>2, <1>3 DEF Once, OnePass, Stored, stream
<1>8. QED
  BY <1>5, <1>6, <1>7 DEF Once

\* A page is stored as one new chunk beyond all earlier ones, or dropped.
LEMMA PublishOnce ==
    ASSUME TypeInv, Once, NEW s \in Starters, PublishChunk(s), disturbances' = 0
    PROVE  Once'
<1>1. UNCHANGED <<store, firing, chunkHandler, accepted>>
  BY DEF PublishChunk
<1>2. /\ UNCHANGED <<sjob, startMsg>>
      /\ \A t \in Starters : Active(t)' <=> Active(t)
      /\ Active(s)
  BY DisturbCounts DEF PublishChunk, Active, TypeInv, StartInv, StartHandlerType
<1>3. PICK last \in batch[s] : IsLast(last, batch[s]) /\ afterID' = [afterID EXCEPT ![s] = last]
  BY DisturbCounts DEF PublishChunk
<1>4. \A t \in Starters : Active(t) => t = s
  BY <1>2 DEF Once, StartHeld
<1>5. \A n \in StartIds : startMsg[n].st # "ready"
  BY <1>2 DEF Once, StartHeld, OneStart, TypeInv, StartInv, Active
<1>6. campaign.status # "scheduled" /\ ~firing
  BY <1>2 DEF Once, StartHeld, OneStart, TypeInv, StartInv, Active
<1>7. \A r \in batch[s] : r \in Contacts /\ r > afterID[s] /\ r <= last /\ afterID[s] < last
  BY <1>3 DEF IsLast, TypeInv, StartInv, StartHandlerType
<1>8. /\ afterID[s] \in Int /\ last \in Int /\ Contacts \subseteq Int
      /\ afterID'[s] = last
  BY <1>3, <1>7 DEF TypeInv, StartInv, StartHandlerType, Contacts
<1>9. \A m \in ChunkMsgs : \A r \in payload[m] : r \in Int /\ r <= afterID[s] /\ r <= last
  <2> SUFFICES ASSUME NEW m \in ChunkMsgs, NEW r \in payload[m]
               PROVE  r \in Int /\ r <= afterID[s] /\ r <= last
    OBVIOUS
  <2>1. r \in Int /\ r <= afterID[s]
    BY <1>2, <1>8 DEF Once, OnePass, TypeInv, StreamInv, StreamType
  <2>2. QED
    BY <2>1, <1>7, <1>8
<1>10. CASE UNCHANGED <<chunkMsg, payload>>
  <2>2. OnePass'
    BY <1>1, <1>2, <1>4, <1>8, <1>9, <1>10 DEF Once, OnePass, Stored, store
  <2>3. StartHeld'
    BY <1>2 DEF Once, StartHeld, HeldStart
  <2>4. QED
    BY <1>1, <1>2, <1>10, <2>2, <2>3, OneStartFrame, ChunkHeldFrame, RecordedFrame
       DEF Once, store, chunkHandler, TypeInv, ChunkInv, Busy
<1>11. CASE ~UNCHANGED <<chunkMsg, payload>>
  <2>1. PICK m \in ChunkMsgs : /\ ~Stored(m)
                               /\ chunkMsg' = NewMsg(chunkMsg, m)
                               /\ payload' = [payload EXCEPT ![m] = batch[s]]
    BY <1>11 DEF PublishChunk, StoreChunk, Stored
  <2>2. \A n \in ChunkMsgs : payload'[n] = IF n = m THEN batch[s] ELSE payload[n]
    BY <2>1 DEF TypeInv, StreamInv, StreamType
  <2>3. \A n \in ChunkMsgs : chunkMsg'[n] = IF n = m THEN [st |-> "ready", n |-> 0]
                                            ELSE chunkMsg[n]
    BY <2>1 DEF NewMsg, TypeInv, StreamInv, StreamType
  <2>4. \A n \in ChunkMsgs : Stored(n)' <=> (n = m \/ Stored(n))
    BY <2>3 DEF Stored
  <2>5. OnePass'
    <3>1. \A n \in ChunkMsgs : ~Stored(n)' => payload'[n] = {}
      BY <2>2, <2>4 DEF Once, OnePass
    <3>2. campaign'.status # "scheduled" /\ ~firing'
          /\ \A n \in StartIds : startMsg'[n].st # "ready"
      BY <1>1, <1>2, <1>5, <1>6 DEF store
    <3>3. \A n \in ChunkMsgs : \A r \in payload'[n] : r <= last
      BY <1>7, <1>9, <2>2
    <3>4. \A n, p \in ChunkMsgs : n # p => payload'[n] \cap payload'[p] = {}
      <4>1. ASSUME NEW n \in ChunkMsgs, NEW r \in payload[n], r \in batch[s] PROVE FALSE
        <5>1. r \in Int /\ r <= afterID[s] /\ r > afterID[s]
          BY <1>7, <1>9, <4>1
        <5>2. QED
          BY <1>8, <5>1
      <4>2. QED
        BY <2>2, <4>1 DEF Once, OnePass
    <3>5. QED
      BY <1>2, <1>4, <1>8, <3>1, <3>2, <3>3, <3>4 DEF OnePass
  <2>6. ChunkHeld'
    <3>1. \A w \in Workers : Busy(w) => job[w] \in ChunkMsgs /\ job[w] # m
      BY <2>1 DEF Once, ChunkHeld, Stored, TypeInv, ChunkInv, Busy
    <3>2. \A w \in Workers : Busy(w) => /\ chunkMsg'[job[w]] = chunkMsg[job[w]]
                                        /\ payload'[job[w]] = payload[job[w]]
      BY <2>2, <2>3, <3>1
    <3>3. \A n \in ChunkMsgs : chunkMsg'[n].st = "out" => chunkMsg[n].st = "out"
      BY <2>3
    <3>4. QED
      BY <1>1, <3>2, <3>3 DEF Once, ChunkHeld, Busy, chunkHandler
  <2>7. StartHeld'
    BY <1>2 DEF Once, StartHeld, HeldStart
  <2>8. QED
    BY <1>1, <1>2, <2>5, <2>6, <2>7, OneStartFrame, RecordedFrame
       DEF Once, store, chunkHandler
<1>12. QED
  BY <1>10, <1>11

\* The chunk handler leaves the streaming pass alone.
LEMMA ChunkSideFrame ==
    ASSUME Once, UNCHANGED <<startMsg, firing, startHandler, payload>>,
           \A m \in ChunkMsgs : Stored(m)' <=> Stored(m),
           campaign'.status = "scheduled" => campaign.status = "scheduled"
    PROVE  OneStart' /\ StartHeld' /\ OnePass'
BY OneStartFrame, StartHeldFrame, OnePassFrame DEF Once, startHandler

\* No two handlers have the same recipient before them.
LEMMA OneSender ==
    ASSUME TypeInv, Once, NEW v \in Workers, NEW w \in Workers, Busy(v), Busy(w),
           NEW r, r \in todo[v], r \in todo[w]
    PROVE  v = w
<1>1. job[v] \in ChunkMsgs /\ job[w] \in ChunkMsgs
  BY DEF TypeInv, ChunkInv, Busy
<1>2. r \in payload[job[v]] /\ r \in payload[job[w]]
  BY DEF Once, ChunkHeld
<1>3. job[v] = job[w]
  BY <1>1, <1>2 DEF Once, OnePass
<1>4. QED
  BY <1>3 DEF Once, ChunkHeld

\* A ready chunk is delivered: nobody else holds it.
LEMMA ReceiveChunkOnce ==
    ASSUME TypeInv, Once, NEW w \in Workers, NEW m \in ChunkMsgs, ReceiveChunk(w, m)
    PROVE  Once'
<1>1. UNCHANGED <<store, startMsg, payload, firing, startHandler, history>>
  BY DEF ReceiveChunk
<1>2. /\ chunkMsg[m].st = "ready"
      /\ \A n \in ChunkMsgs : chunkMsg'[n] = IF n = m THEN [st |-> "out", n |-> chunkMsg[m].n + 1]
                                             ELSE chunkMsg[n]
  BY DEF ReceiveChunk, Deliver, TypeInv, StreamInv, StreamType
<1>3. \A v \in Workers :
         /\ pc'[v] = IF v = w THEN "check" ELSE pc[v]
         /\ job'[v] = IF v = w THEN m ELSE job[v]
         /\ attempt'[v] = IF v = w THEN chunkMsg[m].n + 1 ELSE attempt[v]
         /\ todo'[v] = IF v = w THEN payload[m] ELSE todo[v]
  BY DEF ReceiveChunk, TypeInv, ChunkInv, ChunkHandlerType
<1>4. pc[w] = "idle"
  BY DEF ReceiveChunk
<1>5. \A v \in Workers : Busy(v) => job[v] \in ChunkMsgs /\ job[v] # m
  BY <1>2 DEF Once, ChunkHeld, TypeInv, ChunkInv, Busy
<1>6. ChunkHeld'
  <2>1. ASSUME NEW v \in Workers, Busy(v)'
        PROVE  /\ chunkMsg'[job'[v]].st = "out"
               /\ attempt'[v] = chunkMsg'[job'[v]].n
               /\ todo'[v] \subseteq payload'[job'[v]]
    BY <1>1, <1>2, <1>3, <1>5, <2>1 DEF Once, ChunkHeld, Busy
  <2>2. \A u, v \in Workers : Busy(u)' /\ Busy(v)' /\ job'[u] = job'[v] => u = v
    BY <1>3, <1>5 DEF Once, ChunkHeld, Busy
  <2>3. ASSUME NEW n \in ChunkMsgs, chunkMsg'[n].st = "out" 
        PROVE  \E v \in Workers : Busy(v)' /\ job'[v] = n
    <3>1. CASE n = m
      BY <1>3, <3>1 DEF Busy
    <3>2. CASE n # m
      <4>1. PICK v \in Workers : Busy(v) /\ job[v] = n
        BY <1>2, <2>3, <3>2 DEF Once, ChunkHeld
      <4>2. QED
        BY <1>3, <1>4, <4>1 DEF Busy
    <3>3. QED
      BY <3>1, <3>2
  <2>4. QED
    BY <2>1, <2>2, <2>3 DEF ChunkHeld
<1>7. Recorded'
  BY <1>1, <1>3, <1>4, RecordedFrame DEF Once, store, history
<1>8. \A n \in ChunkMsgs : Stored(n)' <=> Stored(n)
  BY <1>2 DEF Stored
<1>9. QED
  BY <1>1, <1>6, <1>7, <1>8, ChunkSideFrame DEF Once, store

\* Ack, the last Term and Nak: the chunk is no longer out.
LEMMA ReturnOnce ==
    ASSUME TypeInv, Once, NEW w \in Workers, AckChunk(w) \/ RetryChunk(w) \/ DeadLetter(w)
    PROVE  Once'
<1>1. UNCHANGED <<store, startMsg, payload, firing, startHandler, accepted>>
  BY DEF AckChunk, RetryChunk, DeadLetter, history
<1>2. Busy(w) /\ job[w] \in ChunkMsgs /\ chunkMsg[job[w]].st = "out"
      /\ attempt[w] = chunkMsg[job[w]].n
  BY DEF AckChunk, RetryChunk, DeadLetter, Busy, Once, ChunkHeld, TypeInv, ChunkInv
<1>3. \A v \in Workers :
         /\ pc'[v] = IF v = w THEN "idle" ELSE pc[v]
         /\ job'[v] = IF v = w THEN NoMsg ELSE job[v]
         /\ attempt'[v] = IF v = w THEN 0 ELSE attempt[v]
         /\ todo'[v] = IF v = w THEN {} ELSE todo[v]
  BY DEF AckChunk, RetryChunk, DeadLetter, NakChunk, SettleChunk, ChunkIdle, TypeInv,
         ChunkInv, ChunkHandlerType
<1>4. /\ chunkMsg'[job[w]].st \in {"gone", "ready"}
      /\ \A n \in ChunkMsgs : n # job[w] => chunkMsg'[n] = chunkMsg[n]
  BY <1>2 DEF AckChunk, RetryChunk, DeadLetter, NakChunk, SettleChunk, Settle, Requeue,
              CanRedeliver, TypeInv, StreamInv, StreamType
<1>5. \A v \in Workers : Busy(v) /\ v # w => job[v] \in ChunkMsgs /\ job[v] # job[w]
  BY <1>2 DEF Once, ChunkHeld, TypeInv, ChunkInv, Busy
<1>6. ChunkHeld'
  <2>1. ASSUME NEW v \in Workers, Busy(v)'
        PROVE  /\ chunkMsg'[job'[v]].st = "out"
               /\ attempt'[v] = chunkMsg'[job'[v]].n
               /\ todo'[v] \subseteq payload'[job'[v]]
    BY <1>1, <1>3, <1>4, <1>5, <2>1 DEF Once, ChunkHeld, Busy
  <2>2. \A u, v \in Workers : Busy(u)' /\ Busy(v)' /\ job'[u] = job'[v] => u = v
    BY <1>3 DEF Once, ChunkHeld, Busy
  <2>3. ASSUME NEW n \in ChunkMsgs, chunkMsg'[n].st = "out"
        PROVE  \E v \in Workers : Busy(v)' /\ job'[v] = n
    <3>1. n # job[w] /\ chunkMsg[n].st = "out"
      BY <1>4, <2>3
    <3>2. PICK v \in Workers : Busy(v) /\ job[v] = n
      BY <3>1 DEF Once, ChunkHeld
    <3>3. QED
      BY <1>3, <3>1, <3>2 DEF Busy
  <2>4. QED
    BY <2>1, <2>2, <2>3 DEF ChunkHeld
<1>7. pc[w] \in {"settle", "dlq"}
  BY DEF AckChunk, RetryChunk, DeadLetter
<1>8. Recorded'
  BY <1>1, <1>3, <1>7, RecordedFrame DEF Once, store
<1>9. \A n \in ChunkMsgs : Stored(n)' <=> Stored(n)
  BY <1>2, <1>4 DEF Stored
<1>10. QED
  BY <1>1, <1>6, <1>8, <1>9, ChunkSideFrame DEF Once, store

\* What the steps inside the loop and after it leave alone.
LEMMA WorkFrame ==
    ASSUME TypeInv, Once, NEW w \in Workers, Busy(w),
           UNCHANGED <<stream, firing, startHandler, job, attempt>>,
           campaign'.status = "scheduled" => campaign.status = "scheduled",
           \A v \in Workers : Busy(v)' <=> Busy(v),
           \A v \in Workers : todo'[v] \subseteq todo[v],
           Recorded'
    PROVE  Once'
<1>1. OneStart' /\ StartHeld' /\ OnePass'
  BY ChunkSideFrame DEF Stored, stream
<1>2. ChunkHeld'
  BY ChunkHeldFrame DEF Once, stream, TypeInv, ChunkInv, Busy
<1>3. QED
  BY <1>1, <1>2 DEF Once

\* The loop over the recipients, without a disturbance.
LEMMA LoopOnce ==
    ASSUME TypeInv, Once, NEW w \in Workers, NEW r \in Contacts, disturbances' = 0,
           \/ Check(w, r) \/ MarkSending(w, r) \/ SendEmail(w, r)
           \/ MarkSent(w, r) \/ MarkFailed(w, r)
    PROVE  Once'
<1>1. UNCHANGED <<campaign, stream, firing, startHandler, job, attempt>>
  BY DEF Check, MarkSending, SendEmail, MarkSent, MarkFailed, store
<1>2. IsFirst(r, todo[w]) /\ r \in todo[w] /\ Busy(w)
  BY DEF Check, MarkSending, SendEmail, MarkSent, MarkFailed, IsFirst, Busy
<1>3. /\ \A v \in Workers : v # w => pc'[v] = pc[v] /\ todo'[v] = todo[v]
      /\ todo'[w] \subseteq todo[w]
      /\ pc'[w] # "idle"
  BY DEF Check, MarkSending, SendEmail, MarkSent, MarkFailed, Next1, GoTo, Transient,
         TypeInv, ChunkInv, ChunkHandlerType
<1>4. \A q \in Contacts : IsFirst(q, todo[w]) => q = r
  BY <1>2 DEF IsFirst, Contacts
<1>5. \A v \in Workers : Busy(v) /\ r \in todo[v] => v = w
  BY <1>2, OneSender
<1>6. accepted \in [Contacts -> Nat] /\ recipient \in [Contacts -> RecipientStatus]
  BY DEF TypeInv, HistoryType, StoreType
<1>7. CASE Check(w, r)
  <2>1. UNCHANGED <<recipient, accepted>> /\ pc[w] = "check"
    BY <1>7 DEF Check, store
  <2>2. ASSUME pc'[w] = "check" PROVE Recorded'
    BY <1>3, <2>1, <2>2, RecordedFrame DEF Once
  <2>3. ASSUME pc'[w] # "check" PROVE Recorded'
    <3>1. recipient[r] # "sent" /\ pc'[w] = "mark" /\ todo' = todo
      BY <1>7, <2>3, DisturbCounts
         DEF Check, Next1, GoTo, Transient, TypeInv, ChunkInv, ChunkHandlerType
    <3>2. accepted[r] = 0
      <4>1. ASSUME NEW v \in Workers, pc[v] = "markSent", IsFirst(r, todo[v]) PROVE FALSE
        BY <1>5, <2>1, <4>1 DEF Busy, IsFirst
      <4>2. QED
        BY <1>6, <3>1, <4>1 DEF Once, Recorded
    <3>3. \A q \in Contacts : accepted'[q] > 0 =>
             \/ recipient'[q] = "sent"
             \/ \E v \in Workers : pc'[v] = "markSent" /\ IsFirst(q, todo'[v])
      BY <1>3, <2>1, <3>1 DEF Once, Recorded
    <3>4. \A v \in Workers : \A q \in Contacts :
             pc'[v] \in {"mark", "ses"} /\ IsFirst(q, todo'[v]) => accepted'[q] = 0
      BY <1>3, <1>4, <2>1, <3>1, <3>2 DEF Once, Recorded
    <3>5. QED
      BY <2>1, <3>3, <3>4 DEF Once, Recorded
  <2>4. Recorded'
    BY <2>2, <2>3
  <2>5. QED
    BY <1>1, <1>2, <1>3, <2>4, WorkFrame DEF Busy
<1>8. CASE MarkSending(w, r)
  <2>1. UNCHANGED <<accepted, todo>> /\ pc[w] = "mark" /\ pc'[w] = "ses"
    BY <1>8, DisturbCounts DEF MarkSending, GoTo, TypeInv, ChunkInv, ChunkHandlerType
  <2>2. \A q \in Contacts : recipient[q] = "sent" => recipient'[q] = "sent"
    BY <1>6, <1>8 DEF MarkSending
  <2>3. \A q \in Contacts : accepted'[q] > 0 =>
           \/ recipient'[q] = "sent"
           \/ \E v \in Workers : pc'[v] = "markSent" /\ IsFirst(q, todo'[v])
    <3>1. \A v \in Workers : pc[v] = "markSent" => pc'[v] = "markSent" /\ todo'[v] = todo[v]
      BY <1>3, <2>1
    <3>2. QED
      BY <2>1, <2>2, <3>1 DEF Once, Recorded
  <2>4. \A v \in Workers : \A q \in Contacts :
           pc'[v] \in {"mark", "ses"} /\ IsFirst(q, todo'[v]) => accepted'[q] = 0
    BY <1>3, <2>1 DEF Once, Recorded
  <2>5. Recorded'
    BY <2>1, <2>3, <2>4 DEF Once, Recorded
  <2>6. QED
    BY <1>1, <1>2, <1>3, <2>5, WorkFrame DEF Busy
<1>9. CASE SendEmail(w, r)
  <2>1. UNCHANGED recipient /\ pc[w] = "ses" /\ accepted[r] = 0
    BY <1>2, <1>9 DEF SendEmail, store, Once, Recorded
  <2>2. ASSUME accepted' = [accepted EXCEPT ![r] = @ + 1] PROVE Recorded'
    <3>1. pc'[w] = "markSent" /\ todo'[w] = todo[w]
      BY <1>6, <1>9, <2>1, <2>2, DisturbCounts DEF SendEmail, GoTo, TypeInv, ChunkInv, ChunkHandlerType
    <3>2. \A q \in Contacts : accepted'[q] = IF q = r THEN 1 ELSE accepted[q]
      BY <1>6, <2>1, <2>2
    <3>3. \A q \in Contacts : accepted'[q] > 0 =>
             \/ recipient'[q] = "sent"
             \/ \E v \in Workers : pc'[v] = "markSent" /\ IsFirst(q, todo'[v])
      <4>1. \A v \in Workers : pc[v] = "markSent" => pc'[v] = "markSent" /\ todo'[v] = todo[v]
        BY <1>3, <2>1
      <4>2. QED
        BY <1>2, <2>1, <3>1, <3>2, <4>1 DEF Once, Recorded
    <3>4. ASSUME NEW v \in Workers, NEW q \in Contacts, pc'[v] \in {"mark", "ses"},
                 IsFirst(q, todo'[v])
          PROVE  accepted'[q] = 0
      <4>1. v # w /\ pc[v] \in {"mark", "ses"} /\ IsFirst(q, todo[v])
        BY <1>3, <3>1, <3>4
      <4>2. q # r
        BY <1>5, <4>1 DEF IsFirst, Busy
      <4>3. QED
        BY <3>2, <4>1, <4>2 DEF Once, Recorded
    <3>5. QED
      BY <3>2, <3>3, <3>4 DEF Once, Recorded
  <2>3. ASSUME UNCHANGED accepted PROVE Recorded'
    <3>1. pc'[w] \in {"check", "markFailed", "markSent"}
      BY <1>9 DEF SendEmail, Transient, Next1, GoTo, TypeInv, ChunkInv, ChunkHandlerType
    <3>2. \A q \in Contacts : accepted'[q] > 0 =>
             \/ recipient'[q] = "sent"
             \/ \E v \in Workers : pc'[v] = "markSent" /\ IsFirst(q, todo'[v])
      <4>1. \A v \in Workers : pc[v] = "markSent" => pc'[v] = "markSent" /\ todo'[v] = todo[v]
        BY <1>3, <2>1
      <4>2. QED
        BY <2>1, <2>3, <4>1 DEF Once, Recorded
    <3>3. \A v \in Workers : \A q \in Contacts :
             pc'[v] \in {"mark", "ses"} /\ IsFirst(q, todo'[v]) => accepted'[q] = 0
      BY <1>3, <2>3, <3>1 DEF Once, Recorded
    <3>4. QED
      BY <2>3, <3>2, <3>3 DEF Once, Recorded
  <2>4. Recorded'
    BY <1>9, <2>2, <2>3 DEF SendEmail
  <2>5. QED
    BY <1>1, <1>2, <1>3, <2>4, WorkFrame DEF Busy
<1>10. CASE MarkSent(w, r) \/ MarkFailed(w, r)
  <2>1. UNCHANGED accepted /\ pc[w] \in {"markSent", "markFailed"} /\ pc'[w] = "check"
    BY <1>10 DEF MarkSent, MarkFailed, Next1, GoTo, TypeInv, ChunkInv, ChunkHandlerType
  <2>2. /\ \A q \in Contacts : recipient[q] = "sent" => recipient'[q] = "sent"
        /\ pc[w] = "markSent" => recipient'[r] = "sent"
    BY <1>6, <1>10, DisturbCounts DEF MarkSent, MarkFailed, FailRecipient
  <2>3. ASSUME NEW q \in Contacts, accepted'[q] > 0
        PROVE  \/ recipient'[q] = "sent"
               \/ \E v \in Workers : pc'[v] = "markSent" /\ IsFirst(q, todo'[v])
    <3>1. CASE recipient[q] = "sent"
      BY <2>2, <3>1
    <3>2. CASE \E v \in Workers : pc[v] = "markSent" /\ IsFirst(q, todo[v])
      <4> PICK v \in Workers : pc[v] = "markSent" /\ IsFirst(q, todo[v])
        BY <3>2
      <4>1. QED
        BY <1>3, <1>4, <2>2
    <3>3. QED
      BY <2>1, <2>3, <3>1, <3>2 DEF Once, Recorded
  <2>4. \A v \in Workers : \A q \in Contacts :
           pc'[v] \in {"mark", "ses"} /\ IsFirst(q, todo'[v]) => accepted'[q] = 0
    BY <1>3, <2>1 DEF Once, Recorded
  <2>5. Recorded'
    BY <2>1, <2>3, <2>4 DEF Once, Recorded
  <2>6. QED
    BY <1>1, <1>2, <1>3, <2>5, WorkFrame DEF Busy
<1>11. QED
  BY <1>7, <1>8, <1>9, <1>10

\* After the loop: counters, completion and giving up.
LEMMA AfterLoopOnce ==
    ASSUME TypeInv, Once, NEW w \in Workers, disturbances' = 0,
           \/ LoopDone(w) \/ Count(w) \/ Complete(w) \/ FinalCount(w) \/ FinalComplete(w)
           \/ \E r \in Contacts : GiveUp(w, r)
    PROVE  Once'
<1>1. UNCHANGED <<stream, firing, startHandler, job, attempt, todo, accepted>>
  BY DisturbCounts DEF LoopDone, Count, Complete, FinalCount, FinalComplete, GiveUp, stream,
                       history
<1>2. /\ Busy(w)
      /\ pc[w] \in {"check", "count", "complete", "settle", "giveUp", "finalCount", "finalComplete"}
  BY DEF LoopDone, Count, Complete, FinalCount, FinalComplete, GiveUp, Busy
<1>3. /\ \A v \in Workers : v # w => pc'[v] = pc[v]
      /\ pc'[w] \notin {"idle", "mark", "ses", "markSent"}
  <2>1. PICK label \in ChunkLabels \ {"idle", "mark", "ses", "markSent"} : GoTo(w, label)
    BY DisturbCounts DEF LoopDone, Count, Complete, FinalCount, FinalComplete, GiveUp,
                         ChunkLabels
  <2>2. QED
    BY <2>1 DEF GoTo, TypeInv, ChunkInv, ChunkHandlerType
<1>4. campaign'.status = "scheduled" => campaign.status = "scheduled"
  <2>1. \/ UNCHANGED campaign
        \/ campaign' = IncrementCampaignCounts(campaign, sent[w], failed[w])
        \/ campaign' = IncrementCampaignCounts(campaign, 0, failed[w])
        \/ campaign' = MarkCampaignComplete(campaign)
    BY DEF LoopDone, Count, Complete, FinalCount, FinalComplete, GiveUp, store
  <2>2. QED
    BY <2>1, NeverRescheduled
<1>5. \A r \in Contacts : recipient[r] = "sent" => recipient'[r] = "sent"
  BY DEF LoopDone, Count, Complete, FinalCount, FinalComplete, GiveUp, FailRecipient, store,
         TypeInv, StoreType
<1>6. Recorded'
  BY <1>1, <1>2, <1>3, <1>5, RecordedFrame DEF Once
<1>7. QED
  BY <1>1, <1>2, <1>3, <1>4, <1>6, WorkFrame DEF Busy

\* Without a disturbance no timer fires under anybody.
LEMMA TimersOnce == TypeInv /\ Once /\ Timers => disturbances' # 0
<1> SUFFICES ASSUME TypeInv, Once, Timers PROVE disturbances' # 0
  OBVIOUS
<1>1. ASSUME NEW m \in StartIds, ExpireStart(m) PROVE disturbances' # 0
  BY <1>1, DisturbCounts DEF ExpireStart, CanRedeliver, Once, StartHeld
<1>2. ASSUME NEW m \in ChunkMsgs, ExpireChunk(m) PROVE disturbances' # 0
  BY <1>2, DisturbCounts DEF ExpireChunk, CanRedeliver, Once, ChunkHeld, HeldChunk
<1>3. ASSUME NEW k \in ChunkIdx, ExpireDedup(k) PROVE disturbances' # 0
  BY <1>3, DisturbCounts DEF ExpireDedup
<1>4. QED
  BY <1>1, <1>2, <1>3 DEF Timers

\* Steps of the environment that this invariant does not look at.
LEMMA OutsideOnce ==
    ASSUME TypeInv, Once, UNCHANGED vars \/ \E c \in Contacts : SegmentChange(c)
    PROVE  Once'
<1>1. UNCHANGED <<campaign, recipient, stream, firing, startHandler, chunkHandler, accepted>>
  BY DEF SegmentChange, vars, stream, startHandler, chunkHandler
<1>2. OneStart' /\ StartHeld' /\ OnePass'
  BY <1>1, ChunkSideFrame DEF Stored, stream
<1>3. ChunkHeld' /\ Recorded'
  BY <1>1, ChunkHeldFrame, RecordedFrame
     DEF Once, stream, chunkHandler, TypeInv, ChunkInv, Busy
<1>4. QED
  BY <1>2, <1>3 DEF Once

\* A campaign starts undisturbed with nothing stored and nobody at work.
LEMMA InitOnce == Init => OnceInv
<1> SUFFICES ASSUME Init PROVE Once
  BY InitTypeInv DEF OnceInv
<1>1. /\ \A s \in Starters : ~Active(s)
      /\ \A w \in Workers : ~Busy(w) /\ pc[w] = "idle"
      /\ \A m \in ChunkMsgs : ~Stored(m) /\ payload[m] = {} /\ chunkMsg[m].st # "out"
      /\ \A r \in Contacts : accepted[r] = 0
  BY DEF Init, Active, Busy, Stored
<1>2. \A m \in StartIds : startMsg[m].st \in {"ready", "none"}
  <2>1. \/ startMsg = [m \in StartIds |-> [st |-> IF m = 1 THEN "ready" ELSE "none", n |-> 0]]
        \/ startMsg = [m \in StartIds |-> [st |-> "none", n |-> 0]]
    BY DEF Init
  <2>2. QED
    BY <2>1
<1>3. OneStart
  BY DEF Init, OneStart, FreshCampaign
<1>4. QED
  BY <1>1, <1>2, <1>3 DEF Once, StartHeld, OnePass, ChunkHeld, Recorded

\* Every step of an undisturbed run keeps Once; a disturbance ends the promise.
LEMMA NextOnce == OnceInv /\ [Next]_vars => OnceInv'
<1> SUFFICES ASSUME OnceInv, [Next]_vars, disturbances' = 0 PROVE Once'
  BY NextTypeInv DEF OnceInv
<1>1. disturbances = 0
  <2>1. disturbances \in Nat
    BY ConstantsAssumption DEF OnceInv, TypeInv, HistoryType, ConstantsAssumption
  <2>2. disturbances' = disturbances \/ disturbances' = disturbances + 1
    BY DEF Next, vars, Scheduler, SchedulerPoll, SchedulerFire, StartStep, ReceiveStart,
           StartStatus, InsertPage, PublishChunk, FinishStart, AckStart, StartError,
           ChunkStep, RecipientStep, ReceiveChunk, Check, MarkSending, SendEmail, MarkSent,
           MarkFailed, GiveUp, LoopDone, Count, Complete, AckChunk, RetryChunk, FinalCount,
           FinalComplete, DeadLetter, ContextExpired, Timers, ExpireStart, ExpireChunk,
           ExpireDedup, Crash, CrashStart, CrashChunk, SegmentChange, Disturb, Undisturbed,
           history
  <2>3. QED
    BY <2>1, <2>2
<1>2. TypeInv /\ Once
  BY <1>1 DEF OnceInv
<1>3. ~Crash /\ ~Timers
  BY <1>2, TimersOnce, DisturbCounts DEF Crash, CrashStart, CrashChunk
<1>4. ASSUME NEW s \in Starters, StartStep(s) PROVE Once'
  <2>1. ~StartError(s)
    BY <1>2, DisturbCounts DEF StartError
  <2>2. QED
    BY <1>2, <1>4, <2>1, ReceiveStartOnce, AckStartOnce, PassOnce, PublishOnce DEF StartStep
<1>5. ASSUME NEW w \in Workers, ChunkStep(w) PROVE Once'
  <2>1. ~ContextExpired(w)
    BY <1>2, DisturbCounts DEF ContextExpired
  <2>2. QED
    BY <1>2, <1>5, <2>1, ReceiveChunkOnce, ReturnOnce, LoopOnce, AfterLoopOnce
       DEF ChunkStep, RecipientStep
<1>6. QED
  BY <1>2, <1>3, <1>4, <1>5, SchedulerOnce, OutsideOnce DEF Next

\* Without a disturbance SES accepts at most one message per recipient: Nak,
\* retries, concurrent workers and a changing segment alone never duplicate.
THEOREM UndisturbedMailsOnce == Spec => []AtMostOnceUndisturbed
<1>1. OnceInv => AtMostOnceUndisturbed
  BY DEF OnceInv, Once, Recorded, AtMostOnceUndisturbed
<1>2. QED
  BY <1>1, InitOnce, NextOnce, PTL DEF Spec

-----------------------------------------------------------------------------
(* Over an unchanging segment every streaming pass cuts the same pages.  A  *)
(* page is named by its number and not by how a pass came to it: it holds   *)
(* the members whose rank in the segment lies in its range, so two passes,  *)
(* or two deliveries of one, that reach the same chunk index carry the same *)
(* members.                                                                 *)

\* The number of members up to and including contact n.
Rank(n) == Cardinality({c \in segment : c <= n})

\* The members on page k, counted from 0.
PageNo(k) == {c \in segment : k * ChunkSize < Rank(c) /\ Rank(c) <= (k + 1) * ChunkSize}

\* Every member up to n has its row, and some chunk carries it.
Covered(n) ==
    \A r \in segment : r <= n =>
        recipient[r] # "absent" /\ \E m \in ChunkMsgs : r \in payload[m]

\* What is stored is a page under its own number; only members have rows.
PayloadInv ==
    /\ \A m \in ChunkMsgs : payload[m] = {} \/ payload[m] = PageNo(m[1])
    /\ \A k \in dedup : \E m \in ChunkMsgs : m[1] = k /\ payload[m] = PageNo(k)
    /\ \A r \in Contacts : recipient[r] # "absent" => r \in segment

\* A pass has stored every page before the one it is at, and counted its members.
PassAt(s) ==
    /\ spc[s] \in {"idle", "status"} => afterID[s] = 0 /\ chunkIdx[s] = 0 /\ total[s] = 0
    /\ spc[s] \in {"page", "publish"} =>
          /\ Rank(afterID[s]) = chunkIdx[s] * ChunkSize
          /\ total[s] = Rank(afterID[s])
          /\ Covered(afterID[s])
    /\ spc[s] = "publish" =>
          /\ batch[s] = Page(afterID[s])
          /\ \A r \in batch[s] : recipient[r] # "absent"
    /\ spc[s] = "finish" => total[s] = Cardinality(segment) /\ Covered(NumContacts)

\* A total on the campaign row is the one of a complete pass.
TotalInv ==
    campaign.total_recipients > 0 =>
        campaign.total_recipients = Cardinality(segment) /\ Covered(NumContacts)

Streamed == PayloadInv /\ (\A s \in Starters : PassAt(s)) /\ TotalInv

-----------------------------------------------------------------------------
\* A set of contacts has a first one.
LEMMA FirstContact ==
    ASSUME NEW S \in SUBSET Contacts, S # {}
    PROVE  \E c \in S : \A d \in S : c <= d
<1> DEFINE Low(c) == {d \in S : d < c}
           T == {Low(c) : c \in S}
<1>1. IsFiniteSet(S)
  BY BatchSize
<1>2. IsWellFoundedOn(StrictSubsetOrdering(S), SUBSET S)
  BY <1>1, FS_StrictSubsetOrderingWellFounded, FS_FiniteSubsetsOfFinite
<1>3. T \subseteq SUBSET S /\ T # {}
  OBVIOUS
<1>4. \E x \in T : \A y \in T : <<y, x>> \notin StrictSubsetOrdering(S)
  <2> HIDE DEF T
  <2>1. QED
    BY <1>2, <1>3, WFMin
<1>5. PICK c \in S : \A d \in S : <<Low(d), Low(c)>> \notin StrictSubsetOrdering(S)
  BY <1>4
<1>6. ASSUME NEW d \in S, d < c PROVE FALSE
  <2>1. S \subseteq Int
    BY ConstantsAssumption DEF Contacts, ConstantsAssumption
  <2>2. Low(d) \subseteq Low(c) /\ d \in Low(c) /\ d \notin Low(d)
    <3>1. \A e \in S : e < d => e < c
      BY <1>6, <2>1
    <3>2. ~(d < d)
      BY <2>1
    <3>3. QED
      BY <1>6, <3>1, <3>2
  <2>3. Low(d) \in SUBSET S /\ Low(c) \in SUBSET S
    OBVIOUS
  <2> HIDE DEF Low
  <2>4. <<Low(d), Low(c)>> \in StrictSubsetOrdering(S)
    BY <2>2, <2>3 DEF StrictSubsetOrdering
  <2>5. QED
    BY <1>5, <2>4
<1>7. S \subseteq Int
  BY ConstantsAssumption DEF Contacts, ConstantsAssumption
<1>8. QED
  BY <1>6, <1>7

\* Disjoint sets of contacts add up.
LEMMA AddUp ==
    ASSUME NEW S \in SUBSET Contacts, NEW T \in SUBSET Contacts, S \cap T = {}
    PROVE  Cardinality(S \cup T) = Cardinality(S) + Cardinality(T)
<1>1. IsFiniteSet(S) /\ IsFiniteSet(T) /\ Cardinality(S) \in Nat /\ Cardinality(T) \in Nat
  BY BatchSize
<1>2. Cardinality(S \cup T) = Cardinality(S) + Cardinality(T) - Cardinality(S \cap T)
  BY <1>1, FS_Union
<1>3. Cardinality(S \cap T) = 0
  BY FS_EmptySet
<1>4. QED
  BY <1>1, <1>2, <1>3

\* A larger set of contacts has more.
LEMMA NoFewer ==
    ASSUME NEW S \in SUBSET Contacts, NEW T \in SUBSET S
    PROVE  Cardinality(T) <= Cardinality(S)
BY BatchSize, FS_Subset

\* A rank is a number; it grows with the contact, by the members passed.
LEMMA RankOK ==
    ASSUME StoreType, NEW n \in Nat
    PROVE  /\ Rank(n) \in Nat
           /\ \A c \in segment : c <= n => Rank(c) <= Rank(n)
           /\ \A c \in segment : c > n =>
                 Rank(c) = Rank(n) + Cardinality({d \in segment : d > n /\ d < c}) + 1
<1>1. segment \in SUBSET Contacts /\ segment \subseteq Nat
  BY ConstantsAssumption DEF StoreType, Contacts, ConstantsAssumption
<1>2. Rank(n) \in Nat
  BY <1>1, BatchSize DEF Rank
<1>3. ASSUME NEW c \in segment, c <= n PROVE Rank(c) <= Rank(n)
  <2> DEFINE A == {d \in segment : d <= c}
             B == {d \in segment : d <= n}
  <2>1. \A d \in segment : d <= c => d <= n
    BY <1>1, <1>3
  <2>2. A \in SUBSET B /\ B \in SUBSET Contacts
    BY <1>1, <2>1
  <2>3. Cardinality(A) <= Cardinality(B)
    <3> HIDE DEF A, B
    <3>1. QED
      BY <2>2, NoFewer
  <2>4. QED
    BY <2>3 DEF Rank
<1>4. ASSUME NEW c \in segment, c > n
      PROVE  Rank(c) = Rank(n) + Cardinality({d \in segment : d > n /\ d < c}) + 1
  <2> DEFINE A == {d \in segment : d <= n}
             B == {d \in segment : d > n /\ d < c}
             C == {d \in segment : d <= c}
  <2>1. A \in SUBSET Contacts /\ B \in SUBSET Contacts /\ A \cup B \in SUBSET Contacts
        /\ {c} \in SUBSET Contacts
    BY <1>1
  <2>2. A \cap B = {} /\ (A \cup B) \cap {c} = {} /\ C = (A \cup B) \cup {c}
    <3>1. \A d \in segment : /\ ~(d <= n /\ d > n)
                             /\ d <= c <=> d <= n \/ (d > n /\ d < c) \/ d = c
      BY <1>1, <1>4
    <3>2. ~(c <= n) /\ ~(c < c)
      BY <1>1, <1>4
    <3>3. A \cap B = {}
      BY <3>1
    <3>4. c \notin A /\ c \notin B
      BY <3>2
    <3>5. C = (A \cup B) \cup {c}
      BY <1>4, <3>1
    <3>6. QED
      BY <3>3, <3>4, <3>5
  <2>3. Rank(n) = Cardinality(A) /\ Rank(c) = Cardinality(C)
    BY DEF Rank
  <2> HIDE DEF A, B, C
  <2>4. Cardinality(C) = Cardinality(A \cup B) + Cardinality({c})
    BY <2>1, <2>2, AddUp
  <2>5. Cardinality(A \cup B) = Cardinality(A) + Cardinality(B)
    BY <2>1, <2>2, AddUp
  <2>6. Cardinality({c}) = 1
    BY FS_Singleton
  <2>7. Cardinality(C) = Cardinality(A) + Cardinality(B) + 1
    BY <2>4, <2>5, <2>6
  <2>8. QED
    BY <2>3, <2>7 DEF B
<1>5. QED
  BY <1>2, <1>3, <1>4

\* The page after the first k full pages is page k.
LEMMA PageIsNumbered ==
    ASSUME StoreType, NEW after \in Nat, NEW k \in Nat, Rank(after) = k * ChunkSize
    PROVE  Page(after) = PageNo(k)
<1>1. segment \in SUBSET Contacts /\ segment \subseteq Nat /\ ChunkSize \in Nat
  BY ConstantsAssumption DEF StoreType, Contacts, ConstantsAssumption
<1>2. k * ChunkSize \in Nat /\ (k + 1) * ChunkSize = k * ChunkSize + ChunkSize
  BY <1>1
<1>3. ASSUME NEW c \in segment PROVE c \in Page(after) <=> c \in PageNo(k)
  <2> DEFINE B == {d \in segment : d > after /\ d < c}
  <2>1. Cardinality(B) \in Nat
    BY <1>1, BatchSize
  <2>2. {d \in {e \in segment : e > after} : d < c} = B
    OBVIOUS
  <2>3. c \in Page(after) <=> c > after /\ Cardinality(B) < ChunkSize
    BY <2>2 DEF Page
  <2>4. c \in PageNo(k) <=> Rank(after) < Rank(c) /\ Rank(c) <= Rank(after) + ChunkSize
    BY <1>2 DEF PageNo
  <2>5. Rank(after) \in Nat
    BY RankOK
  <2>6. CASE c <= after
    <3>1. Rank(c) <= Rank(after) /\ Rank(c) \in Nat
      BY <1>1, <2>6, RankOK
    <3>2. QED
      BY <1>1, <2>3, <2>4, <2>5, <2>6, <3>1
  <2>7. CASE c > after
    <3>1. Rank(c) = Rank(after) + Cardinality(B) + 1
      BY <2>7, RankOK
    <3> HIDE DEF B
    <3>2. QED
      BY <1>1, <2>1, <2>3, <2>4, <2>5, <2>7, <3>1
  <2>8. QED
    BY <1>1, <2>6, <2>7
<1>4. QED
  BY <1>3 DEF Page, PageNo

\* A page that is not full is the last one.
LEMMA ShortPage ==
    ASSUME StoreType, NEW after \in Nat, Cardinality(Page(after)) < ChunkSize,
           NEW c \in segment, c > after
    PROVE  c \in Page(after)
<1> DEFINE W == {d \in segment : d > after} \ Page(after)
<1>1. segment \in SUBSET Contacts /\ segment \subseteq Nat /\ ChunkSize \in Nat
  BY ConstantsAssumption DEF StoreType, Contacts, ConstantsAssumption
<1>2. SUFFICES ASSUME W # {} PROVE FALSE
  OBVIOUS
<1>3. W \in SUBSET Contacts
  BY <1>1
<1>4. PICK d \in W : \A e \in W : d <= e
  <2> HIDE DEF W
  <2>1. QED
    BY <1>2, <1>3, FirstContact
<1> DEFINE L == {e \in {f \in segment : f > after} : e < d}
<1>5. L \in SUBSET Page(after)
  <2>1. \A e \in segment : e < d => ~(d <= e)
    BY <1>1, <1>4
  <2>2. QED
    BY <1>4, <2>1
<1>6. Page(after) \in SUBSET Contacts
  BY PageOK
<1>7. Cardinality(L) <= Cardinality(Page(after))
  <2> HIDE DEF L
  <2>1. QED
    BY <1>5, <1>6, NoFewer
<1>8. Cardinality(L) \in Nat /\ Cardinality(Page(after)) \in Nat
  BY <1>5, <1>6, BatchSize
<1>9. Cardinality(L) < ChunkSize
  <2> HIDE DEF L, W
  <2>1. QED
    BY <1>1, <1>7, <1>8
<1>10. d \in Page(after)
  BY <1>9 DEF Page
<1>11. QED
  BY <1>10

\* Where a pass stands after the last member of a page.
LEMMA LastOfPage ==
    ASSUME StoreType, NEW after \in Nat, NEW last \in Page(after), IsLast(last, Page(after))
    PROVE  /\ Rank(last) = Rank(after) + Cardinality(Page(after))
           /\ Cardinality(Page(after)) <= ChunkSize
           /\ \A c \in segment : c <= last => c <= after \/ c \in Page(after)
<1> DEFINE P == Page(after)
           B == {d \in segment : d > after /\ d < last}
<1>1. segment \in SUBSET Contacts /\ segment \subseteq Nat /\ ChunkSize \in Nat
  BY ConstantsAssumption DEF StoreType, Contacts, ConstantsAssumption
<1>2. P \in SUBSET Contacts /\ last \in segment /\ last > after
  BY PageOK DEF Page
<1>3. {d \in {e \in segment : e > after} : d < last} = B
  OBVIOUS
<1>4. Cardinality(B) < ChunkSize /\ B \in SUBSET Contacts /\ Cardinality(B) \in Nat
  BY <1>1, <1>3, BatchSize DEF Page
<1>5. B \subseteq P
  <2> SUFFICES ASSUME NEW b \in B PROVE b \in P
    OBVIOUS
  <2> DEFINE L == {e \in {f \in segment : f > after} : e < b}
  <2>1. L \in SUBSET B
    <3>1. \A e \in segment : e < b => e < last
      BY <1>1, <1>2
    <3>2. QED
      BY <3>1
  <2>2. Cardinality(L) <= Cardinality(B) /\ Cardinality(L) \in Nat
    <3> HIDE DEF L, B
    <3>1. QED
      BY <1>4, <2>1, NoFewer, BatchSize
  <2>3. Cardinality(L) < ChunkSize
    <3> HIDE DEF L, B
    <3>1. QED
      BY <1>1, <1>4, <2>2
  <2>4. QED
    BY <2>3 DEF Page
<1>6. P = B \cup {last}
  <2>1. \A c \in P : c \in segment /\ c > after /\ c <= last
    BY DEF Page, IsLast
  <2>2. \A c \in P : c > after /\ (c < last \/ c = last)
    BY <1>1, <1>2, <2>1
  <2>3. P \subseteq B \cup {last}
    BY <2>1, <2>2
  <2>4. last \in P
    OBVIOUS
  <2> HIDE DEF P, B
  <2>5. QED
    BY <1>5, <2>3, <2>4
<1>7. B \cap {last} = {} /\ {last} \in SUBSET Contacts
  BY <1>1, <1>2
<1>8. Cardinality(P) = Cardinality(B) + 1
  <2> HIDE DEF P, B
  <2>1. Cardinality(B \cup {last}) = Cardinality(B) + Cardinality({last})
    BY <1>4, <1>7, AddUp
  <2>2. Cardinality({last}) = 1
    BY FS_Singleton
  <2>3. QED
    BY <1>6, <2>1, <2>2
<1>9. Rank(last) = Rank(after) + Cardinality(B) + 1 /\ Rank(after) \in Nat
  BY <1>2, RankOK
<1>10. \A c \in segment : c <= last => c <= after \/ c \in P
  <2> HIDE DEF P
  <2>1. QED
    BY <1>1, <1>2, <1>6
<1>11. QED
  <2>1. Rank(last) = Rank(after) + Cardinality(P) /\ Cardinality(P) <= ChunkSize
    <3> HIDE DEF P, B
    <3>1. QED
      BY <1>1, <1>4, <1>8, <1>9
  <2>2. QED
    BY <2>1, <1>10

\* Beyond the last member there is nothing left to stream.
LEMMA PassDone ==
    ASSUME StoreType, NEW n \in Nat, \A c \in segment : c <= n
    PROVE  Rank(n) = Cardinality(segment) /\ (Covered(n) => Covered(NumContacts))
<1>1. {c \in segment : c <= n} = segment
  OBVIOUS
<1>2. QED
  BY <1>1 DEF Rank, Covered

-----------------------------------------------------------------------------
(* What a step that takes no row and no page away keeps.                    *)

Kept ==
    /\ segment' = segment
    /\ \A r \in Contacts : recipient[r] # "absent" => recipient'[r] # "absent"
    /\ \A m \in ChunkMsgs : payload[m] \subseteq payload'[m]

\* Who is covered stays covered.
LEMMA CoveredKept ==
    ASSUME StoreType, Kept, NEW n
    PROVE  Covered(n) => Covered(n)'
BY DEF Kept, Covered, StoreType

\* A pass that does not move stays where it is.
LEMMA PassKept ==
    ASSUME TypeInv, Kept, NEW s \in Starters, PassAt(s),
           spc'[s] = spc[s], afterID'[s] = afterID[s], chunkIdx'[s] = chunkIdx[s],
           total'[s] = total[s], batch'[s] = batch[s]
    PROVE  PassAt(s)'
<1> DEFINE a == afterID[s]
<1>1. Rank(a)' = Rank(a) /\ Page(a)' = Page(a) /\ Cardinality(segment)' = Cardinality(segment)
  BY DEF Kept, Rank, Page
<1>2. (Covered(a) => Covered(a)') /\ (Covered(NumContacts) => Covered(NumContacts)')
  <2>1. \A n : Covered(n) => Covered(n)'
    BY CoveredKept DEF TypeInv
  <2>2. Covered(a) => Covered(afterID[s])'
    BY <2>1
  <2>3. QED
    BY <2>1, <2>2
<1>3. batch[s] \subseteq Contacts
  BY DEF TypeInv, StartInv, StartHandlerType
<1>4. QED
  BY <1>1, <1>2, <1>3 DEF PassAt, Kept

\* A total that does not grow stays the one of a complete pass.
LEMMA TotalKept ==
    ASSUME TypeInv, TotalInv, Kept,
           \/ campaign'.total_recipients = campaign.total_recipients
           \/ campaign'.total_recipients = 0
    PROVE  TotalInv'
<1>1. Covered(NumContacts) => Covered(NumContacts)'
  BY CoveredKept DEF TypeInv
<1>2. Cardinality(segment)' = Cardinality(segment)
  BY DEF Kept
<1>3. QED
  BY <1>1, <1>2 DEF TotalInv

\* A step that stores no page and adds no row keeps the pages.
LEMMA PayloadKept ==
    ASSUME TypeInv, PayloadInv, UNCHANGED <<segment, payload>>, dedup' \subseteq dedup,
           \A r \in Contacts : recipient'[r] # "absent" => r \in segment
    PROVE  PayloadInv'
<1>1. \A k : PageNo(k)' = PageNo(k)
  BY DEF PageNo, Rank
<1>2. QED
  BY <1>1 DEF PayloadInv

\* Steps outside the start handler.
LEMMA OutsideStreamed ==
    ASSUME TypeInv, Streamed, UNCHANGED <<segment, payload, startHandler>>,
           dedup' \subseteq dedup,
           \A r \in Contacts : recipient[r] # "absent" <=> recipient'[r] # "absent",
           campaign'.total_recipients = campaign.total_recipients
    PROVE  Streamed'
<1>1. Kept
  BY DEF Kept
<1>2. PayloadInv'
  BY PayloadKept DEF Streamed, PayloadInv
<1>3. TotalInv'
  BY <1>1, TotalKept DEF Streamed
<1>4. ASSUME NEW s \in Starters PROVE PassAt(s)'
  BY <1>1, PassKept DEF Streamed, startHandler
<1>5. QED
  BY <1>2, <1>3, <1>4 DEF Streamed

\* Only the slot that takes a step moves.
Others(s) ==
    \A t \in Starters \ {s} :
        /\ spc'[t] = spc[t] /\ afterID'[t] = afterID[t] /\ chunkIdx'[t] = chunkIdx[t]
        /\ total'[t] = total[t] /\ batch'[t] = batch[t]

\* A step of one start handler, once its own place and the pages are seen to.
LEMMA StarterStreamed ==
    ASSUME TypeInv, Streamed, NEW s \in Starters, Others(s), Kept, PayloadInv', PassAt(s)',
           TotalInv'
    PROVE  Streamed'
<1>1. ASSUME NEW t \in Starters PROVE PassAt(t)'
  <2>1. CASE t = s
    BY <2>1
  <2>2. CASE t # s
    BY <2>2, PassKept DEF Streamed, Others
  <2>3. QED
    BY <2>1, <2>2
<1>2. QED
  BY <1>1 DEF Streamed

\* The scheduler and the timers.
LEMMA TimersStreamed ==
    ASSUME TypeInv, Streamed, Scheduler \/ Timers PROVE Streamed'
<1>1. UNCHANGED <<segment, payload, startHandler, recipient>>
  BY DEF Scheduler, SchedulerPoll, SchedulerFire, Timers, ExpireStart, ExpireChunk,
         ExpireDedup, store, stream
<1>2. dedup' \subseteq dedup
  BY DEF Scheduler, SchedulerPoll, SchedulerFire, Timers, ExpireStart, ExpireChunk,
         ExpireDedup, stream
<1>3. campaign'.total_recipients = campaign.total_recipients
  <2>1. CASE SchedulerPoll
    BY <2>1 DEF SchedulerPoll, ClaimDueCampaign, TypeInv, StoreType, CampaignRows
  <2>2. CASE ~SchedulerPoll
    BY <2>2 DEF Scheduler, SchedulerFire, Timers, ExpireStart, ExpireChunk, ExpireDedup, store
  <2>3. QED
    BY <2>1, <2>2
<1>4. QED
  BY <1>1, <1>2, <1>3, OutsideStreamed

\* The chunk handler writes only to rows that are there, and no total.
LEMMA ChunkStreamed ==
    ASSUME DeliveryInv, Streamed, NEW w \in Workers, ChunkStep(w) \/ CrashChunk(w)
    PROVE  Streamed'
<1>1. UNCHANGED <<segment, payload, startHandler, dedup>>
  BY DEF ChunkStep, RecipientStep, ReceiveChunk, Check, MarkSending, SendEmail, MarkSent,
         MarkFailed, GiveUp, LoopDone, Count, Complete, AckChunk, RetryChunk, FinalCount,
         FinalComplete, DeadLetter, ContextExpired, CrashChunk, store, stream
<1>2. \A r \in Contacts : recipient[r] # "absent" <=> recipient'[r] # "absent"
  <2>1. CASE \E r \in Contacts : MarkSending(w, r)
    BY <2>1 DEF MarkSending, DeliveryInv, TypeInv, StoreType
  <2>2. CASE \E r \in Contacts : MarkSent(w, r) \/ MarkFailed(w, r) \/ GiveUp(w, r)
    <3> PICK r \in Contacts : MarkSent(w, r) \/ MarkFailed(w, r) \/ GiveUp(w, r)
      BY <2>2
    <3>1. r \in Rows
      BY DEF MarkSent, MarkFailed, GiveUp, IsFirst, DeliveryInv, RowsFirst
    <3>2. \/ UNCHANGED recipient \/ FailRecipient(r)
          \/ recipient' = [recipient EXCEPT ![r] = "sent"]
      BY DEF MarkSent, MarkFailed, GiveUp
    <3>3. QED
      BY <3>1, <3>2 DEF Rows, FailRecipient, DeliveryInv, TypeInv, StoreType
  <2>3. CASE \/ \E m \in ChunkMsgs : ReceiveChunk(w, m)
             \/ \E r \in Contacts : Check(w, r) \/ SendEmail(w, r)
             \/ LoopDone(w) \/ Count(w) \/ Complete(w) \/ AckChunk(w) \/ RetryChunk(w)
             \/ FinalCount(w) \/ FinalComplete(w) \/ DeadLetter(w) \/ ContextExpired(w)
             \/ CrashChunk(w)
    <3>1. UNCHANGED recipient
      BY <2>3 DEF ReceiveChunk, Check, SendEmail, LoopDone, Count, Complete, AckChunk,
           RetryChunk, FinalCount, FinalComplete, DeadLetter, ContextExpired, CrashChunk, store
    <3>2. QED
      BY <3>1
  <2>4. QED
    BY <2>1, <2>2, <2>3 DEF ChunkStep, RecipientStep
<1>3. campaign'.total_recipients = campaign.total_recipients
  <2>1. campaign \in CampaignRows
    BY DEF DeliveryInv, TypeInv, StoreType
  <2>2. \/ UNCHANGED campaign
        \/ \E a, b : campaign' = IncrementCampaignCounts(campaign, a, b)
        \/ campaign' = MarkCampaignComplete(campaign)
    BY DEF ChunkStep, RecipientStep, ReceiveChunk, Check, MarkSending, SendEmail, MarkSent,
         MarkFailed, GiveUp, LoopDone, Count, Complete, AckChunk, RetryChunk, FinalCount,
         FinalComplete, DeadLetter, ContextExpired, CrashChunk, store
  <2>3. QED
    BY <2>1, <2>2 DEF IncrementCampaignCounts, MarkCampaignComplete, CampaignRows
<1>4. QED
  BY <1>1, <1>2, <1>3, OutsideStreamed DEF DeliveryInv

-----------------------------------------------------------------------------
(* The start handler.                                                       *)

\* Dropping a slot's locals leaves nothing to say of it.
LEMMA IdlePass ==
    ASSUME TypeInv, NEW s \in Starters, StartIdle(s)
    PROVE  Others(s) /\ PassAt(s)'
<1>1. spc'[s] = "idle" /\ afterID'[s] = 0 /\ chunkIdx'[s] = 0 /\ total'[s] = 0
  BY DEF StartIdle, TypeInv, StartInv, StartHandlerType
<1>2. PassAt(s)'
  BY <1>1 DEF PassAt
<1>3. Others(s)
  BY DEF StartIdle, Others, TypeInv, StartInv, StartHandlerType
<1>4. QED
  BY <1>2, <1>3

\* Nothing comes before the first page.
LEMMA FirstPage ==
    ASSUME StoreType PROVE Rank(0) = 0 /\ Covered(0)
<1>1. \A c \in segment : ~(c <= 0)
  BY ConstantsAssumption DEF StoreType, Contacts, ConstantsAssumption
<1>2. {c \in segment : c <= 0} = {}
  BY <1>1
<1>3. Rank(0) = 0
  BY <1>2, FS_EmptySet DEF Rank
<1>4. QED
  BY <1>1, <1>3 DEF Covered

\* Receiving, reading the status, returning: the pages stay as they are.
LEMMA FlowStreamed ==
    ASSUME TypeInv, Streamed, NEW s \in Starters,
           \/ \E m \in StartIds : ReceiveStart(s, m)
           \/ StartStatus(s) \/ AckStart(s) \/ StartError(s) \/ CrashStart(s)
    PROVE  Streamed'
<1>1. UNCHANGED <<segment, campaign, recipient, payload, dedup>>
  BY DEF ReceiveStart, StartStatus, AckStart, StartError, CrashStart, store, stream
<1>2. Kept
  BY <1>1 DEF Kept
<1>3. PayloadInv'
  BY <1>1, PayloadKept DEF Streamed, PayloadInv
<1>4. TotalInv'
  BY <1>1, <1>2, TotalKept DEF Streamed
<1>5. Others(s) /\ PassAt(s)'
  <2>1. CASE StartIdle(s)
    BY <2>1, IdlePass
  <2>2. CASE \E m \in StartIds : ReceiveStart(s, m)
    <3>1. /\ spc[s] = "idle" /\ spc' = [spc EXCEPT ![s] = "status"]
          /\ UNCHANGED <<afterID, chunkIdx, total, batch>>
      BY <2>2 DEF ReceiveStart
    <3>2. Others(s)
      BY <3>1 DEF Others, TypeInv, StartInv, StartHandlerType
    <3>3. spc'[s] = "status"
      BY <3>1 DEF TypeInv, StartInv, StartHandlerType
    <3>4. PassAt(s)'
      BY <3>1, <3>3 DEF PassAt, Streamed
    <3>5. QED
      BY <3>2, <3>4
  <2>3. CASE StartStatus(s)
    <3>1. /\ spc[s] = "status" /\ UNCHANGED <<afterID, chunkIdx, total, batch>>
          /\ spc'[s] \in {"ack", "page"}
      BY <2>3 DEF StartStatus, TypeInv, StartInv, StartHandlerType
    <3>2. Others(s)
      BY <2>3 DEF StartStatus, Others, TypeInv, StartInv, StartHandlerType
    <3>3. afterID[s] = 0 /\ chunkIdx[s] = 0 /\ total[s] = 0
      BY <3>1 DEF PassAt, Streamed
    <3>4. Rank(0)' = 0 /\ Covered(0)'
      <4>1. Rank(0)' = Rank(0)
        BY <1>1 DEF Rank
      <4>2. QED
        BY <1>2, <4>1, FirstPage, CoveredKept DEF TypeInv
    <3>5. 0 = 0 * ChunkSize
      BY ConstantsAssumption DEF ConstantsAssumption
    <3>6. PassAt(s)'
      BY <3>1, <3>3, <3>4, <3>5 DEF PassAt
    <3>7. QED
      BY <3>2, <3>6
  <2>4. QED
    BY <2>1, <2>2, <2>3 DEF AckStart, StartError, NakStart, CrashStart
<1>6. QED
  BY <1>2, <1>3, <1>4, <1>5, StarterStreamed

\* The end of a pass: the total is the size of the segment, or there is none.
LEMMA FinishStreamed ==
    ASSUME TypeInv, Streamed, NEW s \in Starters, FinishStart(s)
    PROVE  Streamed'
<1>1. UNCHANGED <<segment, recipient, payload, dedup, afterID, chunkIdx, total, batch>>
  BY DEF FinishStart, stream
<1>2. Kept
  BY <1>1 DEF Kept
<1>3. PayloadInv'
  BY <1>1, PayloadKept DEF Streamed, PayloadInv
<1>4. total[s] = Cardinality(segment) /\ Covered(NumContacts)
  BY DEF FinishStart, Streamed, PassAt
<1>5. TotalInv'
  <2>1. \/ campaign'.total_recipients = campaign.total_recipients
        \/ campaign'.total_recipients = 0
        \/ campaign'.total_recipients = total[s]
    BY DEF FinishStart, MarkCampaignCompleteEmpty, UpdateCampaignStarted, TypeInv, StoreType,
           CampaignRows
  <2>2. CASE campaign'.total_recipients = total[s]
    <3>1. Covered(NumContacts)'
      BY <1>2, <1>4, CoveredKept DEF TypeInv
    <3>2. QED
      BY <1>1, <1>4, <2>2, <3>1 DEF TotalInv
  <2>3. QED
    BY <1>2, <2>1, <2>2, TotalKept DEF Streamed
<1>6. Others(s) /\ PassAt(s)'
  <2>1. spc'[s] = "ack"
    BY DEF FinishStart, TypeInv, StartInv, StartHandlerType
  <2>2. PassAt(s)'
    BY <2>1 DEF PassAt
  <2>3. Others(s)
    BY <1>1 DEF FinishStart, Others, TypeInv, StartInv, StartHandlerType
  <2>4. QED
    BY <2>2, <2>3
<1>7. QED
  BY <1>2, <1>3, <1>5, <1>6, StarterStreamed

\* One page of rows; an empty page is the end of the segment.
LEMMA InsertStreamed ==
    ASSUME TypeInv, Streamed, NEW s \in Starters, InsertPage(s)
    PROVE  Streamed'
<1> DEFINE a == afterID[s]
           P == Page(a)
<1>1. a \in Nat /\ StoreType
  BY ConstantsAssumption DEF TypeInv, StartInv, StartHandlerType, ConstantsAssumption
<1>2. P \subseteq segment /\ P \subseteq Contacts
  BY <1>1, PageOK DEF Page
<1>3. /\ spc[s] = "page" /\ batch' = [batch EXCEPT ![s] = P]
      /\ recipient' = [r \in Contacts |->
            IF r \in P /\ recipient[r] = "absent" THEN "queued" ELSE recipient[r]]
      /\ spc' = [spc EXCEPT ![s] = IF P = {} THEN "finish" ELSE "publish"]
      /\ UNCHANGED <<segment, campaign, payload, dedup, afterID, chunkIdx, total>>
  BY DEF InsertPage, stream
<1>4. Page(a)' = P
  BY <1>3 DEF Page
<1>5. /\ Rank(a) = chunkIdx[s] * ChunkSize /\ total[s] = Rank(a) /\ Covered(a)
  BY <1>3 DEF Streamed, PassAt
<1>6. P = {} => \A c \in segment : c <= a
  <2> SUFFICES ASSUME P = {}, NEW c \in segment PROVE c <= a
    OBVIOUS
  <2>1. Cardinality(P) < ChunkSize
    BY FS_EmptySet, ConstantsAssumption DEF ConstantsAssumption
  <2>2. ~(c > a)
    BY <1>1, <2>1, ShortPage
  <2>3. c \in Nat
    BY <1>1, ConstantsAssumption DEF StoreType, Contacts, ConstantsAssumption
  <2>4. QED
    BY <1>1, <2>2, <2>3
<1> HIDE DEF P
<1>7. Kept
  BY <1>3 DEF Kept
<1>8. PayloadInv'
  <2>1. \A r \in Contacts : recipient'[r] # "absent" => r \in segment
    BY <1>2, <1>3 DEF Streamed, PayloadInv
  <2>2. QED
    BY <1>3, <2>1, PayloadKept DEF Streamed
<1>9. TotalInv'
  BY <1>3, <1>7, TotalKept DEF Streamed
<1>10. Others(s)
  BY <1>3 DEF Others, TypeInv, StartInv, StartHandlerType
<1>11. PassAt(s)'
  <2>1. batch'[s] = P /\ spc'[s] = (IF P = {} THEN "finish" ELSE "publish")
    BY <1>3 DEF TypeInv, StartInv, StartHandlerType
  <2>2. Covered(a)' /\ Rank(a)' = Rank(a)
    <3>1. Rank(a)' = Rank(a)
      BY <1>3 DEF Rank
    <3>2. Covered(a)'
      BY <1>1, <1>3, <1>5, <1>7 DEF Covered, Kept, StoreType
    <3>3. QED
      BY <3>1, <3>2
  <2>3. CASE P = {}
    <3>1. total[s] = Cardinality(segment) /\ Covered(NumContacts)
      BY <1>1, <1>5, <1>6, <2>3, PassDone
    <3>2. Covered(NumContacts)'
      BY <1>1, <1>7, <3>1, CoveredKept
    <3>3. QED
      BY <1>3, <2>1, <2>3, <3>1, <3>2 DEF PassAt
  <2>4. CASE P # {}
    <3>1. \A r \in P : recipient'[r] # "absent"
      BY <1>2, <1>3
    <3>2. QED
      BY <1>3, <1>4, <1>5, <2>1, <2>2, <2>4, <3>1 DEF PassAt
  <2>5. QED
    BY <2>3, <2>4
<1>12. QED
  BY <1>7, <1>8, <1>9, <1>10, <1>11, StarterStreamed

\* Storing page k, or dropping it because page k is already stored.
LEMMA StoreStreamed ==
    ASSUME TypeInv, Streamed, NEW k \in ChunkIdx, StoreChunk(k, PageNo(k)),
           UNCHANGED <<segment, recipient>>
    PROVE  Kept /\ PayloadInv' /\ \E m \in ChunkMsgs : payload'[m] = PageNo(k)
<1>1. \A i : PageNo(i)' = PageNo(i)
  BY DEF PageNo, Rank
<1>2. CASE k \in dedup
  <2>1. UNCHANGED <<payload, dedup>>
    BY <1>2 DEF StoreChunk
  <2>2. PayloadInv'
    BY <2>1, PayloadKept DEF Streamed, PayloadInv
  <2>3. QED
    BY <1>2, <2>1, <2>2 DEF Kept, Streamed, PayloadInv
<1>3. CASE k \notin dedup
  <2> PICK m \in ChunkMsgs : /\ m[1] = k
                             /\ payload' = [payload EXCEPT ![m] = PageNo(k)]
                             /\ dedup' = dedup \cup {k}
    BY <1>3 DEF StoreChunk
  <2>1. /\ payload'[m] = PageNo(k)
        /\ \A i \in ChunkMsgs : i # m => payload'[i] = payload[i]
    BY DEF TypeInv, StreamInv, StreamType
  <2>2. Kept
    BY <2>1 DEF Kept, Streamed, PayloadInv
  <2>3. \A i \in ChunkMsgs : payload'[i] = {} \/ payload'[i] = PageNo(i[1])
    BY <2>1 DEF Streamed, PayloadInv
  <2>4. ASSUME NEW j \in dedup' PROVE \E i \in ChunkMsgs : i[1] = j /\ payload'[i] = PageNo(j)
    <3>1. CASE j = k
      BY <2>1, <3>1
    <3>2. CASE j # k
      <4>1. PICK i \in ChunkMsgs : i[1] = j /\ payload[i] = PageNo(j)
        BY <3>2 DEF Streamed, PayloadInv
      <4>2. i # m
        BY <3>2, <4>1
      <4>3. QED
        BY <2>1, <4>1, <4>2
    <3>3. QED
      BY <3>1, <3>2
  <2>5. PayloadInv'
    BY <1>1, <2>3, <2>4 DEF Streamed, PayloadInv
  <2>6. QED
    BY <2>1, <2>2, <2>5
<1>4. QED
  BY <1>2, <1>3

\* A page's chunk is published: the pass moves behind it, or starts over.
LEMMA PublishStreamed ==
    ASSUME TypeInv, Streamed, NEW s \in Starters, PublishChunk(s)
    PROVE  Streamed'
<1> DEFINE a == afterID[s]
           k == chunkIdx[s]
           P == Page(a)
<1>1. a \in Nat /\ StoreType /\ k \in Nat /\ k \in ChunkIdx /\ ChunkSize \in Nat
  BY ConstantsAssumption DEF TypeInv, StartInv, StartHandlerType, ConstantsAssumption, ChunkIdx
<1>2. /\ Rank(a) = k * ChunkSize /\ total[s] = Rank(a) /\ Covered(a)
      /\ batch[s] = P /\ \A r \in P : recipient[r] # "absent"
  BY DEF PublishChunk, Streamed, PassAt
<1>3. P = PageNo(k)
  BY <1>1, <1>2, PageIsNumbered
<1>4. UNCHANGED <<segment, campaign, recipient>>
  BY DEF PublishChunk, store
<1>5. Kept /\ PayloadInv' /\ \E m \in ChunkMsgs : payload'[m] = P
  <2>1. StoreChunk(k, PageNo(k))
    BY <1>2, <1>3 DEF PublishChunk
  <2>2. QED
    BY <1>1, <1>3, <1>4, <2>1, StoreStreamed
<1>6. TotalInv'
  BY <1>4, <1>5, TotalKept DEF Streamed
<1>7. CASE StartIdle(s)
  BY <1>5, <1>6, <1>7, IdlePass, StarterStreamed
<1>8. CASE PublishedOn(s)
  <2>1. PICK last \in P : IsLast(last, P) /\ afterID' = [afterID EXCEPT ![s] = last]
    BY <1>2, <1>8 DEF PublishedOn
  <2>2. /\ Rank(last) = Rank(a) + Cardinality(P)
        /\ Cardinality(P) <= ChunkSize
        /\ \A c \in segment : c <= last => c <= a \/ c \in P
    BY <1>1, <2>1, LastOfPage
  <2>3. last \in Nat /\ last > a /\ P \in SUBSET Contacts /\ segment \subseteq Nat
    BY <1>1, <2>1, PageOK, ConstantsAssumption
       DEF StoreType, Contacts, ConstantsAssumption
  <2>4. Cardinality(P) \in Nat /\ Rank(a) \in Nat
    BY <1>1, <2>3, BatchSize, RankOK
  <2>5. /\ afterID'[s] = last /\ chunkIdx'[s] = k + 1
        /\ total'[s] = Rank(a) + Cardinality(P) /\ batch'[s] = {}
        /\ spc'[s] = (IF Cardinality(P) < ChunkSize THEN "finish" ELSE "page")
    <3> HIDE DEF P
    <3>1. QED
      BY <1>2, <1>8, <2>1 DEF PublishedOn, TypeInv, StartInv, StartHandlerType
  <2>6. Others(s)
    BY <1>8, <2>1 DEF PublishedOn, Others, TypeInv, StartInv, StartHandlerType
  <2>7. Covered(last)'
    <3> HIDE DEF P
    <3>1. ASSUME NEW r \in segment, r <= last
          PROVE  recipient'[r] # "absent" /\ \E m \in ChunkMsgs : r \in payload'[m]
      <4>1. CASE r <= a
        BY <1>1, <1>2, <1>5, <4>1 DEF Covered, Kept, StoreType
      <4>2. CASE r \in P
        BY <1>2, <1>4, <1>5, <4>2
      <4>3. QED
        BY <2>2, <3>1, <4>1, <4>2
    <3>2. QED
      BY <1>4, <3>1 DEF Covered
  <2>8. Rank(last)' = Rank(last)
    BY <1>4 DEF Rank
  <2>9. CASE Cardinality(P) < ChunkSize
    <3>1. ASSUME NEW c \in segment PROVE c <= last
      <4>1. CASE c > a
        <5>1. c \in P
          BY <1>1, <2>9, <4>1, ShortPage
        <5>2. QED
          BY <2>1, <5>1 DEF IsLast
      <4>2. CASE ~(c > a)
        BY <1>1, <2>3, <4>2
      <4>3. QED
        BY <4>1, <4>2
    <3>2. Rank(last) = Cardinality(segment)
      BY <1>1, <2>3, <3>1, PassDone
    <3>3. Covered(NumContacts)'
      BY <1>4, <2>7, <3>1 DEF Covered
    <3>4. PassAt(s)'
      <4> HIDE DEF P
      <4>1. QED
        BY <1>4, <2>2, <2>5, <2>9, <3>2, <3>3 DEF PassAt
    <3>5. QED
      BY <1>5, <1>6, <2>6, <3>4, StarterStreamed
  <2>10. CASE ~(Cardinality(P) < ChunkSize)
    <3>1. Cardinality(P) = ChunkSize
      <4> HIDE DEF P
      <4>1. QED
        BY <1>1, <2>2, <2>4, <2>10
    <3>2. (k + 1) * ChunkSize = k * ChunkSize + ChunkSize
      BY <1>1
    <3>3. Rank(last) = (k + 1) * ChunkSize
      BY <1>2, <2>2, <3>1, <3>2
    <3>4. Rank(afterID[s])' = Rank(last)
      BY <2>5, <1>4 DEF Rank
    <3>5. Covered(afterID[s])'
      BY <2>5, <2>7 DEF Covered
    <3>6. PassAt(s)'
      <4> HIDE DEF P
      <4>1. QED
        BY <2>2, <2>5, <2>10, <3>3, <3>4, <3>5 DEF PassAt
    <3>7. QED
      BY <1>5, <1>6, <2>6, <3>6, StarterStreamed
  <2>11. QED
    BY <2>9, <2>10
<1>9. QED
  BY <1>7, <1>8 DEF PublishChunk, PublishedOn, NakStart

-----------------------------------------------------------------------------
\* What the proof knows as long as the segment has not changed.
StreamedInv == DeliveryInv /\ (changes = 0 => Streamed)

\* Nothing is streamed yet.
LEMMA InitStreamed == Init => StreamedInv
<1> SUFFICES ASSUME Init PROVE Streamed
  BY InitDelivery DEF StreamedInv
<1>1. PayloadInv
  BY DEF Init, PayloadInv
<1>2. ASSUME NEW s \in Starters PROVE PassAt(s)
  BY DEF Init, PassAt
<1>3. campaign.total_recipients = 0
  BY DEF Init, FreshCampaign
<1>4. TotalInv
  BY <1>3 DEF TotalInv
<1>5. QED
  BY <1>1, <1>2, <1>4 DEF Streamed

\* Every step keeps it; a change of the segment ends what is promised.
LEMMA NextStreamed == StreamedInv /\ [Next]_vars => StreamedInv'
<1> SUFFICES ASSUME StreamedInv, [Next]_vars, changes' = 0 PROVE Streamed'
  BY NextDelivery DEF StreamedInv
<1>1. DeliveryInv /\ TypeInv
  BY DEF StreamedInv, DeliveryInv
<1>2. ~(\E c \in Contacts : SegmentChange(c))
  BY <1>1 DEF SegmentChange, TypeInv, HistoryType
<1>3. changes = 0 /\ Streamed
  <2>1. changes' = changes
    BY <1>2 DEF Next, Scheduler, SchedulerPoll, SchedulerFire, StartStep, ReceiveStart,
         StartStatus, InsertPage, PublishChunk, FinishStart, AckStart, StartError, ChunkStep,
         RecipientStep, ReceiveChunk, Check, MarkSending, SendEmail, MarkSent, MarkFailed,
         GiveUp, LoopDone, Count, Complete, AckChunk, RetryChunk, FinalCount, FinalComplete,
         DeadLetter, ContextExpired, Timers, ExpireStart, ExpireChunk, ExpireDedup, Crash,
         CrashStart, CrashChunk, history, vars
  <2>2. QED
    BY <2>1 DEF StreamedInv
<1>4. CASE UNCHANGED vars
  BY <1>1, <1>3, <1>4, OutsideStreamed DEF vars, startHandler
<1>5. CASE Scheduler \/ Timers
  BY <1>1, <1>3, <1>5, TimersStreamed
<1>6. ASSUME NEW s \in Starters, StartStep(s) \/ CrashStart(s) PROVE Streamed'
  BY <1>1, <1>3, <1>6, FlowStreamed, InsertStreamed, PublishStreamed, FinishStreamed
     DEF StartStep
<1>7. ASSUME NEW w \in Workers, ChunkStep(w) \/ CrashChunk(w) PROVE Streamed'
  BY <1>1, <1>3, <1>7, ChunkStreamed
<1>8. QED
  BY <1>2, <1>4, <1>5, <1>6, <1>7 DEF Next, Crash

\* Once a pass over an unchanging segment has recorded its total, every member
\* has a row, every row is carried by a stored chunk and the total is exact,
\* for any page size and whatever crashed or was redelivered.
THEOREM StreamedCarried == Spec => []StreamedRowsAreCarried
<1>1. StreamedInv => StreamedRowsAreCarried
  <2> SUFFICES ASSUME DeliveryInv, Streamed, campaign.total_recipients > 0
               PROVE  /\ \A r \in segment : recipient[r] # "absent"
                      /\ \A r \in Contacts :
                            recipient[r] # "absent" => \E m \in ChunkMsgs : r \in payload[m]
                      /\ campaign.total_recipients = Cardinality(segment)
    BY DEF StreamedInv, StreamedRowsAreCarried
  <2>1. campaign.total_recipients = Cardinality(segment) /\ Covered(NumContacts)
    BY DEF Streamed, TotalInv
  <2>2. \A r \in segment : r <= NumContacts
    BY ConstantsAssumption DEF DeliveryInv, TypeInv, StoreType, Contacts, ConstantsAssumption
  <2>3. QED
    BY <2>1, <2>2 DEF Covered, Streamed, PayloadInv
<1>2. QED
  BY <1>1, InitStreamed, NextStreamed, PTL DEF Spec

=============================================================================
