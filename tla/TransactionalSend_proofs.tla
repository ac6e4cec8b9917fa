---------------------- MODULE TransactionalSend_proofs ----------------------
(***************************************************************************)
(* Theorems about TransactionalSend: its types, that an answered send is   *)
(* tracked, and, for calls that do not overlap, one send per key and the   *)
(* quota.                                                                  *)
(***************************************************************************)
EXTENDS TransactionalSend, TLAPS

-----------------------------------------------------------------------------
(* Types.  A ready message has a delivery left.                             *)

StoreType ==
    /\ key \in [held : BOOLEAN, body : Bodies, response : Requests \cup {NoSend}]
    /\ cache \in Nat \cup {NoCache}
    /\ row \in [Requests -> RowStatus]
    /\ usage \in Nat

QueueType ==
    /\ msg \in [Requests -> Messages] /\ dlq \in SUBSET Requests
    /\ \A p \in Requests : msg[p].st = "ready" => msg[p].n < MaxAttempts

CallType ==
    /\ rpc \in [Requests -> CallLabels]
    /\ body \in [Requests -> Bodies]
    /\ snapshot \in [Requests -> Nat]
    /\ outcome \in [Requests -> Outcomes]
    /\ reply \in [Requests -> Requests \cup {NoSend}]

SlotType ==
    /\ pc \in [Workers -> SlotLabels]
    /\ job \in [Workers -> Requests \cup {NoSend}]
    /\ attempt \in [Workers -> 0..MaxAttempts]
    /\ \A w \in Workers : pc[w] # "idle" => job[w] \in Requests

SeenType ==
    /\ accepted \in [Requests -> Nat] /\ overlap \in BOOLEAN /\ disturbances \in 0..MaxDisturbances

TypeInv == StoreType /\ QueueType /\ CallType /\ SlotType /\ SeenType

\* A step that leaves a group of variables alone keeps what is said of it.
LEMMA Frame ==
    /\ StoreType /\ UNCHANGED <<key, cache, row, usage>> => StoreType'
    /\ QueueType /\ UNCHANGED <<msg, dlq>> => QueueType'
    /\ CallType /\ UNCHANGED calls => CallType'
    /\ SlotType /\ UNCHANGED slots => SlotType'
    /\ SeenType /\ UNCHANGED <<accepted, overlap, disturbances>> => SeenType'
BY DEF StoreType, QueueType, CallType, SlotType, SeenType, calls, slots

LEMMA QueueOperators ==
    ASSUME QueueType, NEW p \in Requests, UNCHANGED dlq
    PROVE  /\ msg' = NewMsg(msg, p) => QueueType'
           /\ msg[p].st = "ready" /\ msg' = Deliver(msg, p) => QueueType'
           /\ msg' = Settle(msg, p) => QueueType'
           /\ msg' = Requeue(msg, p) => QueueType'
<1> USE ConstantsAssumption DEF ConstantsAssumption, QueueType, Messages, MsgStatus
<1>1. msg' = NewMsg(msg, p) => QueueType'
  BY DEF NewMsg
<1>2. msg[p].st = "ready" /\ msg' = Deliver(msg, p) => QueueType'
  BY DEF Deliver
<1>3. msg' = Settle(msg, p) => QueueType'
  BY DEF Settle
<1>4. msg' = Requeue(msg, p) => QueueType'
  BY DEF Requeue, CanRedeliver
<1> QED BY <1>1, <1>2, <1>3, <1>4

LEMMA HeldType ==
    \A b \in Bodies, s \in Requests \cup {NoSend} :
        Held(b, s) \in [held : BOOLEAN, body : Bodies, response : Requests \cup {NoSend}]
BY DEF Held

LEMMA Moves ==
    ASSUME TypeInv
    PROVE  /\ \A p \in Requests, l \in CallLabels :
                  Step(p, l) /\ UNCHANGED <<body, snapshot>> => CallType'
           /\ \A p \in Requests, o \in Outcomes, s \in Requests \cup {NoSend} :
                  Answer(p, o, s) /\ UNCHANGED <<body, snapshot>> => CallType'
           /\ \A w \in Workers, l \in SlotLabels :
                  pc[w] # "idle" /\ GoTo(w, l) => SlotType'
           /\ \A w \in Workers : Idle(w) => SlotType'
           /\ Disturb \/ Undisturbed => disturbances' \in 0..MaxDisturbances
<1> USE DEF TypeInv, CallType, SlotType
<1>1. \A p \in Requests, l \in CallLabels : Step(p, l) /\ UNCHANGED <<body, snapshot>> => CallType'
  BY DEF Step
<1>2. \A p \in Requests, o \in Outcomes, s \in Requests \cup {NoSend} :
          Answer(p, o, s) /\ UNCHANGED <<body, snapshot>> => CallType'
  BY DEF Answer, CallLabels
<1>3. \A w \in Workers, l \in SlotLabels : pc[w] # "idle" /\ GoTo(w, l) => SlotType'
  BY DEF GoTo
<1>4. \A w \in Workers : Idle(w) => SlotType'
  BY ConstantsAssumption DEF Idle, SlotLabels, ConstantsAssumption
<1>5. Disturb \/ Undisturbed => disturbances' \in 0..MaxDisturbances
  BY ConstantsAssumption DEF Disturb, Undisturbed, SeenType, ConstantsAssumption
<1> QED BY <1>1, <1>2, <1>3, <1>4, <1>5

LEMMA TypeInit == Init => TypeInv
<1> SUFFICES ASSUME Init PROVE TypeInv
  OBVIOUS
<1> USE ConstantsAssumption DEF Init, ConstantsAssumption
<1>1. StoreType
  <2>1. NoKey \in [held : BOOLEAN, body : Bodies, response : Requests \cup {NoSend}]
    BY DEF NoKey
  <2> QED BY <2>1 DEF StoreType, RowStatus
<1>2. QueueType
  BY DEF QueueType, Messages, MsgStatus
<1>3. CallType
  BY DEF CallType, CallLabels, Outcomes
<1>4. SlotType
  BY DEF SlotType, SlotLabels
<1>5. SeenType
  <2>1. accepted \in [Requests -> Nat] /\ disturbances \in 0..MaxDisturbances
    OBVIOUS
  <2>2. overlap \in BOOLEAN
    OBVIOUS
  <2> QED BY <2>1, <2>2 DEF SeenType
<1> QED BY <1>1, <1>2, <1>3, <1>4, <1>5 DEF TypeInv

LEMMA CallStepType ==
    ASSUME TypeInv, NEW p \in Requests,
           Arrive(p) \/ Refuse(p) \/ CallStep(p) \/ FailCall(p)
    PROVE  TypeInv'
<1> USE DEF TypeInv
<1>0. /\ usage + 1 \in Nat /\ snapshot[p] \in Nat /\ body[p] \in Bodies
      /\ key.response \in Requests \cup {NoSend}
  BY DEF StoreType, CallType
<1>1. CASE Arrive(p)
  <2>1. key' \in [held : BOOLEAN, body : Bodies, response : Requests \cup {NoSend}]
    <3>1. Held(body[p], NoSend) \in [held : BOOLEAN, body : Bodies, response : Requests \cup {NoSend}]
      BY <1>0, HeldType
    <3>2. key' \in {key, Held(body[p], NoSend)}
      BY <1>1 DEF Arrive
    <3> QED BY <3>1, <3>2 DEF StoreType
  <2>2. CallType'
    BY <1>0, <1>1, Moves DEF Arrive, CallLabels, Outcomes
  <2>3. SeenType'
    BY <1>1 DEF Arrive, SeenType
  <2> QED BY <1>1, <2>1, <2>2, <2>3, Frame DEF Arrive, StoreType
<1>2. CASE Refuse(p)
  <2>1. CallType'
    BY <1>2, Moves DEF Refuse, Outcomes
  <2> QED BY <1>2, <2>1, Frame DEF Refuse, redis
<1>3. CASE ReadUsage(p)
  <2>1. CallType'
    <3>1. CASE UNCHANGED snapshot
      BY <1>3, <3>1, Moves DEF ReadUsage, Decide, CallLabels, Outcomes
    <3>2. CASE snapshot' = [snapshot EXCEPT ![p] = usage] /\ Step(p, "cacheUsage")
      BY <1>3, <3>2 DEF ReadUsage, Step, CallType, CallLabels, StoreType
    <3> QED BY <1>3, <3>1, <3>2 DEF ReadUsage
  <2>2. disturbances' \in 0..MaxDisturbances
    BY <1>3, Moves DEF ReadUsage
  <2> QED BY <1>3, <2>1, <2>2, Frame DEF ReadUsage, redis, SeenType
<1>4. CASE CacheUsage(p)
  <2>1. CallType'
    BY <1>4, Moves DEF CacheUsage, Decide, CallLabels, Outcomes
  <2>2. disturbances' \in 0..MaxDisturbances
    BY <1>4, Moves DEF CacheUsage
  <2>3. cache' \in Nat \cup {NoCache}
    BY <1>0, <1>4 DEF CacheUsage, StoreType
  <2> QED BY <1>4, <2>1, <2>2, <2>3, Frame DEF CacheUsage, StoreType, SeenType
<1>5. CASE InsertSend(p)
  <2>1. CallType'
    BY <1>5, Moves DEF InsertSend, CallLabels
  <2>2. row' \in [Requests -> RowStatus]
    BY <1>5 DEF InsertSend, StoreType, RowStatus
  <2> QED BY <1>5, <2>1, <2>2, Frame DEF InsertSend, StoreType, redis
<1>6. CASE Publish(p)
  <2>1. CallType'
    BY <1>6, Moves DEF Publish, CallLabels
  <2>2. disturbances' \in 0..MaxDisturbances
    BY <1>6, Moves DEF Publish
  <2>3. QueueType'
    BY <1>6, QueueOperators, Frame DEF Publish
  <2> QED BY <1>6, <2>1, <2>2, <2>3, Frame DEF Publish, redis, SeenType
<1>7. CASE Rollback(p)
  <2>1. CallType'
    BY <1>7, Moves DEF Rollback, Outcomes
  <2>2. disturbances' \in 0..MaxDisturbances
    BY <1>7, Moves DEF Rollback
  <2>3. row' \in [Requests -> RowStatus]
    BY <1>7 DEF Rollback, StoreType, RowStatus
  <2> QED BY <1>7, <2>1, <2>2, <2>3, Frame DEF Rollback, StoreType, redis, SeenType
<1>8. CASE RecordUsage(p)
  <2>1. CallType'
    BY <1>8, Moves DEF RecordUsage, CallLabels
  <2> QED BY <1>0, <1>8, <2>1, Frame DEF RecordUsage, StoreType, redis
<1>9. CASE DropCache(p)
  <2>1. CallType'
    BY <1>9, Moves DEF DropCache, CallLabels
  <2>2. disturbances' \in 0..MaxDisturbances
    BY <1>9, Moves DEF DropCache
  <2> QED BY <1>9, <2>1, <2>2, Frame DEF DropCache, StoreType, SeenType
<1>10. CASE StoreResponse(p)
  <2>1. CallType'
    BY <1>10, Moves DEF StoreResponse, Outcomes
  <2>2. disturbances' \in 0..MaxDisturbances
    BY <1>10, Moves DEF StoreResponse
  <2>3. key' \in [held : BOOLEAN, body : Bodies, response : Requests \cup {NoSend}]
    <3>1. Held(body[p], p) \in [held : BOOLEAN, body : Bodies, response : Requests \cup {NoSend}]
      BY <1>0, HeldType
    <3>2. key' \in {key, Held(body[p], p)}
      BY <1>10 DEF StoreResponse
    <3> QED BY <3>1, <3>2 DEF StoreType
  <2> QED BY <1>10, <2>1, <2>2, <2>3, Frame DEF StoreResponse, StoreType, SeenType
<1>11. CASE FailCall(p)
  <2>1. CallType'
    BY <1>11, Moves DEF FailCall, Outcomes
  <2>2. disturbances' \in 0..MaxDisturbances
    BY <1>11, Moves DEF FailCall
  <2> QED BY <1>11, <2>1, <2>2, Frame DEF FailCall, redis, SeenType
<1> QED
  BY <1>1, <1>2, <1>3, <1>4, <1>5, <1>6, <1>7, <1>8, <1>9, <1>10, <1>11 DEF CallStep

\* A worker leaves the counter, the key and the calls alone.
LEMMA WorkerStepType ==
    ASSUME TypeInv, NEW w \in Workers, WorkerStep(w) \/ CrashWorker(w)
    PROVE  TypeInv'
<1> USE DEF TypeInv
<1>0. pc[w] # "idle" => job[w] \in Requests
  BY DEF SlotType
<1>1. UNCHANGED <<key, cache, usage, calls, overlap>>
  BY DEF WorkerStep, CrashWorker, Receive, Check, MarkSending, SendEmail, MarkSent, DeadLetter,
         MarkFailed, SettleSend, redis
<1>2. row' \in [Requests -> RowStatus]
  BY DEF WorkerStep, CrashWorker, Receive, Check, MarkSending, SendEmail, MarkSent, DeadLetter,
         MarkFailed, SettleSend, FailSend, StoreType, RowStatus
<1>3. accepted' \in [Requests -> Nat]
  BY <1>0 DEF WorkerStep, CrashWorker, Receive, Check, MarkSending, SendEmail, MarkSent, DeadLetter,
         MarkFailed, SettleSend, SeenType
<1>4. disturbances' \in 0..MaxDisturbances
  <2>1. UNCHANGED disturbances \/ Disturb \/ Undisturbed
    BY DEF WorkerStep, CrashWorker, Receive, Check, MarkSending, SendEmail, MarkSent, DeadLetter,
         MarkFailed, SettleSend
  <2> QED BY <2>1, Moves DEF SeenType
<1>5. ASSUME NEW p \in Requests, Receive(w, p) PROVE QueueType' /\ SlotType'
  <2>1. QueueType'
    BY <1>5, QueueOperators DEF Receive
  <2>2. msg[p].n + 1 \in 0..MaxAttempts
    BY <1>5, ConstantsAssumption DEF Receive, QueueType, Messages, ConstantsAssumption
  <2> QED BY <1>5, <2>1, <2>2 DEF Receive, SlotType, SlotLabels
<1>6. ASSUME Nak(w), pc[w] # "idle", UNCHANGED dlq PROVE QueueType' /\ SlotType'
  BY <1>0, <1>6, QueueOperators, Moves DEF Nak
<1>7. ASSUME Idle(w), pc[w] # "idle", msg' = Settle(msg, job[w]), UNCHANGED dlq
      PROVE  QueueType' /\ SlotType'
  BY <1>0, <1>7, QueueOperators, Moves
<1>8. ASSUME NEW l \in SlotLabels, pc[w] # "idle", GoTo(w, l), UNCHANGED msg, dlq' \in SUBSET Requests
      PROVE  QueueType' /\ SlotType'
  BY <1>8, Moves DEF QueueType
<1>9. dlq \in SUBSET Requests
  BY DEF QueueType
<1>10. QueueType' /\ SlotType'
  <2>1. CASE Check(w)
    BY <1>6, <1>7, <1>8, <1>9, <2>1 DEF Check, SlotLabels
  <2>2. CASE MarkSending(w)
    BY <1>6, <1>8, <1>9, <2>2 DEF MarkSending, SlotLabels
  <2>3. CASE SendEmail(w)
    BY <1>6, <1>8, <1>9, <2>3 DEF SendEmail, Transient, SlotLabels
  <2>4. CASE MarkSent(w) \/ MarkFailed(w)
    BY <1>8, <1>9, <2>4 DEF MarkSent, MarkFailed, SlotLabels
  <2>5. CASE DeadLetter(w)
    BY <1>0, <1>8, <1>9, <2>5 DEF DeadLetter, SlotLabels
  <2>6. CASE SettleSend(w)
    BY <1>7, <2>6 DEF SettleSend
  <2>7. CASE CrashWorker(w)
    BY <2>7, Moves, Frame DEF CrashWorker
  <2> QED BY <1>5, <2>1, <2>2, <2>3, <2>4, <2>5, <2>6, <2>7 DEF WorkerStep
<1> QED BY <1>1, <1>2, <1>3, <1>4, <1>10, Frame DEF StoreType, SeenType

LEMMA TypeStep == TypeInv /\ [Next]_vars => TypeInv'
<1> SUFFICES ASSUME TypeInv, [Next]_vars PROVE TypeInv'
  OBVIOUS
<1>1. ASSUME NEW p \in Requests, ExpireAckWait(p) PROVE TypeInv'
  <2>1. QueueType'
    BY <1>1, QueueOperators DEF ExpireAckWait, TypeInv
  <2>2. disturbances' \in 0..MaxDisturbances
    BY <1>1, Moves DEF ExpireAckWait
  <2> QED BY <1>1, <2>1, <2>2, Frame DEF ExpireAckWait, TypeInv, redis, SeenType
<1>2. CASE ExpireKey
  <2>1. NoKey \in [held : BOOLEAN, body : Bodies, response : Requests \cup {NoSend}]
    BY ConstantsAssumption DEF NoKey, ConstantsAssumption
  <2>2. disturbances' \in 0..MaxDisturbances
    BY <1>2, Moves DEF ExpireKey
  <2> QED BY <1>2, <2>1, <2>2, Frame DEF ExpireKey, TypeInv, StoreType, SeenType
<1>3. CASE ExpireCache
  BY <1>3, Frame DEF ExpireCache, TypeInv, StoreType
<1>4. CASE UNCHANGED vars
  BY <1>4, Frame DEF vars, TypeInv, calls, slots
<1> QED BY <1>1, <1>2, <1>3, <1>4, CallStepType, WorkerStepType DEF Next

LEMMA TypeAlways == Spec => []TypeInv
BY TypeInit, TypeStep, PTL DEF Spec

\* Every reachable state of the key, the cache, the rows, the queue and the
\* handlers has the types the code gives them.
THEOREM TransactionalTypeCorrect == Spec => []TypeOK
<1>1. TypeInv => TypeOK
  BY DEF TypeInv, TypeOK, StoreType, QueueType, CallType, SlotType, SeenType
<1> QED BY <1>1, TypeAlways, PTL

-----------------------------------------------------------------------------
(* An answered send is tracked.                                             *)

\* A send that was stored and published, and whose call is over: nobody takes
\* its row back any more.
Stored(s) == s \in Requests /\ row[s] # "absent" /\ msg[s].st # "none"
Tracked(s) == Stored(s) /\ rpc[s] = "done"

TrackInv ==
    /\ \A p \in Requests : rpc[p] = "publish" => row[p] # "absent"
    /\ \A p \in Requests : rpc[p] \in {"record", "dropCache", "store"} => Stored(p)
    /\ key.response # NoSend => Tracked(key.response)
    /\ \A p \in Requests : outcome[p] = "ok" => Tracked(reply[p])

LEMMA TrackInit == Init => TrackInv
BY DEF Init, TrackInv, NoKey

\* Nobody unpublishes a message, and only a roll-back removes a row.
LEMMA StoredStays ==
    ASSUME TypeInv, [Next]_vars, NEW s \in Requests
    PROVE  /\ msg[s].st # "none" => msg'[s].st # "none"
           /\ row[s] # "absent" => row'[s] # "absent" \/ rpc[s] = "rollback"
<1>1. msg \in [Requests -> Messages] /\ row \in [Requests -> RowStatus]
  BY DEF TypeInv, QueueType, StoreType
<1>2. /\ \A w \in Workers : pc[w] # "idle" => job[w] \in Requests
  BY DEF TypeInv, SlotType
<1>3. \A p \in Requests :
        /\ msg' \in {NewMsg(msg, p), Deliver(msg, p), Settle(msg, p), Requeue(msg, p)}
           => (msg[s].st # "none" => msg'[s].st # "none")
  BY <1>1 DEF NewMsg, Deliver, Settle, Requeue, Messages
<1>4. msg[s].st # "none" => msg'[s].st # "none"
  <2>1. UNCHANGED msg \/ \E p \in Requests :
            msg' \in {NewMsg(msg, p), Deliver(msg, p), Settle(msg, p), Requeue(msg, p)}
    <3>1. ASSUME NEW p \in Requests,
                 Arrive(p) \/ Refuse(p) \/ CallStep(p) \/ FailCall(p) \/ ExpireAckWait(p)
          PROVE  UNCHANGED msg \/ msg' \in {NewMsg(msg, p), Requeue(msg, p)}
      BY <3>1 DEF Arrive, Refuse, CallStep, FailCall, ExpireAckWait, ReadUsage, CacheUsage, InsertSend,
             Publish, Rollback, RecordUsage, DropCache, StoreResponse
    <3>2. ASSUME NEW w \in Workers, NEW p \in Requests, Receive(w, p)
          PROVE  msg' = Deliver(msg, p)
      BY <3>2 DEF Receive
    <3>3. ASSUME NEW w \in Workers, pc[w] # "idle",
                 \/ Check(w) \/ MarkSending(w) \/ SendEmail(w) \/ MarkSent(w) \/ DeadLetter(w)
                 \/ MarkFailed(w) \/ SettleSend(w) \/ CrashWorker(w)
          PROVE  UNCHANGED msg \/ msg' \in {Settle(msg, job[w]), Requeue(msg, job[w])}
      BY <3>3 DEF Check, MarkSending, SendEmail, MarkSent, DeadLetter, MarkFailed, SettleSend,
             CrashWorker, Transient, Nak
    <3>4. \A w \in Workers : WorkerStep(w) \/ CrashWorker(w) =>
              pc[w] # "idle" \/ \E p \in Requests : Receive(w, p)
      BY DEF WorkerStep, Check, MarkSending, SendEmail, MarkSent, DeadLetter, MarkFailed, SettleSend,
             CrashWorker
    <3>5. ExpireKey \/ ExpireCache \/ UNCHANGED vars => UNCHANGED msg
      BY DEF ExpireKey, ExpireCache, vars
    <3> QED BY <1>2, <3>1, <3>2, <3>3, <3>4, <3>5 DEF Next, WorkerStep
  <2> QED BY <1>3, <2>1
<1>5. row[s] # "absent" => row'[s] # "absent" \/ rpc[s] = "rollback"
  <2>1. ASSUME NEW p \in Requests,
               Arrive(p) \/ Refuse(p) \/ CallStep(p) \/ FailCall(p) \/ ExpireAckWait(p)
        PROVE  row[s] # "absent" => row'[s] # "absent" \/ rpc[s] = "rollback"
    BY <1>1, <2>1 DEF Arrive, Refuse, CallStep, FailCall, ExpireAckWait, ReadUsage, CacheUsage,
           InsertSend, Publish, Rollback, RecordUsage, DropCache, StoreResponse
  <2>2. ASSUME NEW w \in Workers, WorkerStep(w) \/ CrashWorker(w)
        PROVE  row[s] # "absent" => row'[s] # "absent"
    BY <1>1, <2>2 DEF WorkerStep, CrashWorker, Receive, Check, MarkSending, SendEmail, MarkSent,
           DeadLetter, MarkFailed, SettleSend, FailSend
  <2>3. ExpireKey \/ ExpireCache \/ UNCHANGED vars => UNCHANGED row
    BY DEF ExpireKey, ExpireCache, vars
  <2> QED BY <2>1, <2>2, <2>3 DEF Next
<1> QED BY <1>4, <1>5

\* What one step may do to the calls: it moves the call that takes it, and an
\* answered call is over.
LEMMA CallMoves ==
    ASSUME TypeInv, [Next]_vars
    PROVE  \/ UNCHANGED calls
           \/ \E p \in Requests :
                /\ Arrive(p) \/ Refuse(p) \/ CallStep(p) \/ FailCall(p)
                /\ rpc[p] # "done"
                /\ \E l \in CallLabels : rpc' = [rpc EXCEPT ![p] = l]
                /\ \A q \in Requests \ {p} : outcome'[q] = outcome[q] /\ reply'[q] = reply[q]
<1>0. CallType
  BY DEF TypeInv
<1>1. ASSUME NEW p \in Requests, Arrive(p) \/ Refuse(p) \/ CallStep(p) \/ FailCall(p)
      PROVE  /\ rpc[p] # "done"
             /\ \E l \in CallLabels : rpc' = [rpc EXCEPT ![p] = l]
             /\ \A q \in Requests \ {p} : outcome'[q] = outcome[q] /\ reply'[q] = reply[q]
  <2>1. rpc[p] # "done"
    BY <1>1 DEF Arrive, Refuse, CallStep, FailCall, ReadUsage, CacheUsage, InsertSend, Publish, Rollback,
           RecordUsage, DropCache, StoreResponse, Running
  <2>2. (\E l \in CallLabels : Step(p, l)) \/ \E o, s : Answer(p, o, s)
    <3>1. CASE Arrive(p)
      BY <3>1 DEF Arrive, CallLabels
    <3>2. CASE Refuse(p) \/ FailCall(p)
      BY <3>2 DEF Refuse, FailCall
    <3>3. CASE CallStep(p)
      BY <3>3 DEF CallStep, ReadUsage, CacheUsage, Decide, InsertSend, Publish, Rollback, RecordUsage,
             DropCache, StoreResponse, CallLabels
    <3> QED BY <1>1, <3>1, <3>2, <3>3
  <2>3. \E l \in CallLabels : rpc' = [rpc EXCEPT ![p] = l]
    BY <2>2 DEF Step, Answer, CallLabels
  <2>4. \A q \in Requests \ {p} : outcome'[q] = outcome[q] /\ reply'[q] = reply[q]
    BY <1>0, <2>2 DEF Step, Answer, CallType
  <2> QED BY <2>1, <2>3, <2>4
<1>2. ASSUME NEW p \in Requests, ExpireAckWait(p) PROVE UNCHANGED calls
  BY <1>2 DEF ExpireAckWait
<1>3. ASSUME NEW w \in Workers, WorkerStep(w) \/ CrashWorker(w) PROVE UNCHANGED calls
  BY <1>3 DEF WorkerStep, CrashWorker, Receive, Check, MarkSending, SendEmail, MarkSent, DeadLetter,
         MarkFailed, SettleSend
<1>4. ExpireKey \/ ExpireCache \/ UNCHANGED vars => UNCHANGED calls
  BY DEF ExpireKey, ExpireCache, vars, calls
<1> QED BY <1>1, <1>2, <1>3, <1>4 DEF Next

\* The reservation is written by the calls that carry a key, and expires.
LEMMA KeyMoves ==
    ASSUME TypeInv, [Next]_vars
    PROVE  \/ UNCHANGED key
           \/ key'.response = NoSend
           \/ \E p \in Requests \ Keyless : StoreResponse(p) /\ Undisturbed /\ key' = Held(body[p], p)
<1>1. ASSUME NEW p \in Requests,
             Arrive(p) \/ Refuse(p) \/ CallStep(p) \/ FailCall(p) \/ ExpireAckWait(p)
      PROVE  \/ UNCHANGED key
             \/ key'.response = NoSend
             \/ p \notin Keyless /\ StoreResponse(p) /\ Undisturbed /\ key' = Held(body[p], p)
  <2>1. CASE Arrive(p)
    BY <2>1 DEF Arrive, Held
  <2>2. CASE StoreResponse(p)
    BY <2>2 DEF StoreResponse
  <2>3. CASE Refuse(p) \/ FailCall(p) \/ ExpireAckWait(p)
    BY <2>3 DEF Refuse, FailCall, ExpireAckWait, redis
  <2>4. CASE CallStep(p) /\ ~StoreResponse(p)
    BY <2>4 DEF CallStep, ReadUsage, CacheUsage, InsertSend, Publish, Rollback, RecordUsage, DropCache, redis
  <2> QED BY <1>1, <2>1, <2>2, <2>3, <2>4
<1>2. ASSUME NEW w \in Workers, WorkerStep(w) \/ CrashWorker(w) PROVE UNCHANGED key
  BY <1>2 DEF WorkerStep, CrashWorker, Receive, Check, MarkSending, SendEmail, MarkSent, DeadLetter,
         MarkFailed, SettleSend, redis
<1>3. ExpireKey => key'.response = NoSend
  BY DEF ExpireKey, NoKey
<1>4. ExpireCache \/ UNCHANGED vars => UNCHANGED key
  BY DEF ExpireCache, vars
<1> QED BY <1>1, <1>2, <1>3, <1>4 DEF Next

\* A send whose call is over stays stored.
LEMMA TrackedStays ==
    ASSUME TypeInv, [Next]_vars, NEW s
    PROVE  /\ Stored(s) /\ rpc[s] # "rollback" => Stored(s)'
           /\ Tracked(s) => Tracked(s)'
<1>1. Stored(s) /\ rpc[s] # "rollback" => Stored(s)'
  BY StoredStays DEF Stored
<1>2. s \in Requests /\ rpc[s] = "done" => rpc'[s] = "done"
  BY CallMoves DEF calls, TypeInv, CallType
<1> QED BY <1>1, <1>2 DEF Tracked, Stored

LEMMA TrackStep == TypeInv /\ TrackInv /\ [Next]_vars => TrackInv'
<1> SUFFICES ASSUME TypeInv, TrackInv, [Next]_vars PROVE TrackInv'
  OBVIOUS
<1>0. CallType /\ row \in [Requests -> RowStatus] /\ msg \in [Requests -> Messages]
  BY DEF TypeInv, StoreType, QueueType
<1>1. ASSUME NEW q \in Requests, rpc'[q] = "publish" PROVE row'[q] # "absent"
  <2>1. CASE rpc[q] = "publish"
    BY <2>1, StoredStays DEF TrackInv
  <2>2. CASE rpc[q] # "publish"
    <3>1. Arrive(q) \/ Refuse(q) \/ CallStep(q) \/ FailCall(q)
      BY <1>0, <1>1, <2>2, CallMoves DEF calls, CallType
    <3>2. InsertSend(q)
      BY <1>0, <1>1, <3>1 DEF Arrive, Refuse, CallStep, FailCall, ReadUsage, CacheUsage, Decide, Publish,
             Rollback, RecordUsage, DropCache, StoreResponse, Step, Answer, CallType
    <3> QED BY <1>0, <3>2 DEF InsertSend
  <2> QED BY <2>1, <2>2
<1>2. ASSUME NEW q \in Requests, rpc'[q] \in {"record", "dropCache", "store"} PROVE Stored(q)'
  <2>1. CASE rpc[q] \in {"record", "dropCache", "store"}
    BY <2>1, TrackedStays DEF TrackInv
  <2>2. CASE rpc[q] \notin {"record", "dropCache", "store"}
    <3>1. Arrive(q) \/ Refuse(q) \/ CallStep(q) \/ FailCall(q)
      BY <1>0, <1>2, <2>2, CallMoves DEF calls, CallType
    <3>2. Publish(q)
      BY <1>0, <1>2, <2>2, <3>1 DEF Arrive, Refuse, CallStep, FailCall, ReadUsage, CacheUsage, Decide,
             InsertSend, Rollback, RecordUsage, DropCache, StoreResponse, Step, Answer, CallType
    <3>3. msg' = NewMsg(msg, q) /\ UNCHANGED row /\ row[q] # "absent"
      BY <1>0, <1>2, <3>2 DEF Publish, Step, CallType, TrackInv
    <3> QED BY <1>0, <3>3 DEF Stored, NewMsg
  <2> QED BY <2>1, <2>2
<1>3. ASSUME NEW p \in Requests, StoreResponse(p) PROVE Tracked(p)'
  <2>1. Stored(p)'
    BY <1>3, TrackedStays DEF StoreResponse, TrackInv
  <2> QED BY <1>0, <1>3, <2>1 DEF StoreResponse, Answer, Tracked, CallType
<1>4. (key.response # NoSend => Tracked(key.response))'
  <2>1. CASE UNCHANGED key
    BY <2>1, TrackedStays DEF TrackInv, Tracked, Stored
  <2>2. ASSUME NEW p \in Requests, StoreResponse(p), key' = Held(body[p], p)
        PROVE  (key.response # NoSend => Tracked(key.response))'
    BY <1>3, <2>2 DEF Held, Tracked, Stored
  <2> QED BY <2>1, <2>2, KeyMoves
<1>5. ASSUME NEW q \in Requests, outcome'[q] = "ok" PROVE Tracked(reply[q])'
  <2>1. CASE outcome[q] = "ok" /\ reply'[q] = reply[q]
    BY <2>1, TrackedStays DEF TrackInv, Tracked, Stored
  <2>2. CASE ~(outcome[q] = "ok" /\ reply'[q] = reply[q])
    <3>1. Arrive(q) \/ Refuse(q) \/ CallStep(q) \/ FailCall(q)
      BY <1>5, <2>2, CallMoves DEF calls
    <3>2. ASSUME NEW l, Step(q, l) PROVE FALSE
      BY <1>5, <2>2, <3>2 DEF Step
    <3>3. \/ Arrive(q) /\ key.response # NoSend /\ Answer(q, "ok", key.response)
          \/ StoreResponse(q)
      <4>1. \A o, t : Answer(q, o, t) => o = "ok"
        BY <1>0, <1>5 DEF Answer, CallType
      <4>2. CASE Arrive(q)
        BY <3>2, <4>1, <4>2 DEF Arrive
      <4>3. CASE Refuse(q) \/ FailCall(q)
        BY <4>1, <4>3 DEF Refuse, FailCall
      <4>4. CASE CallStep(q)
        BY <3>2, <4>1, <4>4 DEF CallStep, ReadUsage, CacheUsage, Decide, InsertSend, Publish, Rollback,
               RecordUsage, DropCache
      <4> QED BY <3>1, <4>2, <4>3, <4>4
    <3>4. (reply'[q] = key.response /\ Tracked(key.response)) \/ (reply'[q] = q /\ StoreResponse(q))
      BY <1>0, <3>3 DEF Answer, StoreResponse, TrackInv, CallType
    <3> QED BY <1>3, <3>4, TrackedStays DEF Tracked, Stored
  <2> QED BY <2>1, <2>2
<1> QED BY <1>1, <1>2, <1>4, <1>5 DEF TrackInv

LEMMA TrackAlways == Spec => [](TypeInv /\ TrackInv)
BY TypeInit, TypeStep, TrackInit, TrackStep, PTL DEF Spec

\* The id a client is answered with is that of a send that was published and
\* whose row is still there, whatever other calls and workers do.
THEOREM AnswersTracked == Spec => []AnswersAreTracked
<1>1. TrackInv => AnswersAreTracked
  BY DEF TrackInv, AnswersAreTracked, Tracked, Stored
<1> QED BY <1>1, TrackAlways, PTL

-----------------------------------------------------------------------------
(* Calls that do not overlap, while nothing fails.                          *)

\* One call runs at a time and none rolls back.  While a keyed call runs the
\* reservation waits for its answer, and then it answers every retry.
Alone == /\ \A p, q \in Requests : Running(p) /\ Running(q) => p = q
         /\ \A p \in Requests : rpc[p] # "rollback"
Reserved == \A p \in Requests \ Keyless : Running(p) => key.held /\ key.response = NoSend
Remembered == \A p \in Requests \ Keyless : outcome[p] = "ok" => key.held /\ key.response = reply[p]

CalmInv == Calm => Alone /\ Reserved /\ Remembered

LEMMA CalmInit == Init => CalmInv
BY DEF Init, CalmInv, Alone, Reserved, Remembered, Running

\* Trouble and overlap are remembered, so a calm step starts in a calm state.
LEMMA CalmBefore ==
    ASSUME TypeInv, [Next]_vars, Calm'
    PROVE  Calm /\ Undisturbed
<1>1. disturbances \in 0..MaxDisturbances /\ MaxDisturbances \in Nat
  BY ConstantsAssumption DEF TypeInv, SeenType, ConstantsAssumption
<1>2. Undisturbed \/ Disturb
  <2>1. ASSUME NEW p \in Requests,
               Arrive(p) \/ Refuse(p) \/ CallStep(p) \/ FailCall(p) \/ ExpireAckWait(p)
        PROVE  Undisturbed \/ Disturb
    BY <2>1 DEF Arrive, Refuse, CallStep, FailCall, ExpireAckWait, ReadUsage, CacheUsage, InsertSend,
           Publish, Rollback, RecordUsage, DropCache, StoreResponse, Undisturbed
  <2>2. ASSUME NEW w \in Workers, WorkerStep(w) \/ CrashWorker(w)
        PROVE  Undisturbed \/ Disturb
    BY <2>2 DEF WorkerStep, CrashWorker, Receive, Check, MarkSending, SendEmail, MarkSent, DeadLetter,
           MarkFailed, SettleSend, Undisturbed
  <2>3. ExpireKey \/ ExpireCache \/ UNCHANGED vars => Undisturbed \/ Disturb
    BY DEF ExpireKey, ExpireCache, vars, Undisturbed
  <2> QED BY <2>1, <2>2, <2>3 DEF Next
<1>3. Undisturbed /\ disturbances = 0
  BY <1>1, <1>2 DEF Disturb, Undisturbed, Calm
<1>4. ~overlap
  <2>1. UNCHANGED overlap \/ \E p \in Requests : Arrive(p)
    <3>1. ASSUME NEW p \in Requests, Refuse(p) \/ CallStep(p) \/ FailCall(p) \/ ExpireAckWait(p)
          PROVE  UNCHANGED overlap
      BY <3>1 DEF Refuse, CallStep, FailCall, ExpireAckWait, ReadUsage, CacheUsage, InsertSend,
             Publish, Rollback, RecordUsage, DropCache, StoreResponse
    <3>2. ASSUME NEW w \in Workers, WorkerStep(w) \/ CrashWorker(w)
          PROVE  UNCHANGED overlap
      BY <3>2 DEF WorkerStep, CrashWorker, Receive, Check, MarkSending, SendEmail, MarkSent, DeadLetter,
             MarkFailed, SettleSend
    <3>3. ExpireKey \/ ExpireCache \/ UNCHANGED vars => UNCHANGED overlap
      BY DEF ExpireKey, ExpireCache, vars
    <3> QED BY <3>1, <3>2, <3>3 DEF Next
  <2>2. ASSUME NEW p \in Requests, Arrive(p) PROVE ~overlap
    BY <2>2 DEF Arrive, Calm
  <2> QED BY <2>1, <2>2 DEF Calm
<1> QED BY <1>3, <1>4 DEF Calm

\* A call that arrives in calm finds no other call running.
LEMMA CalmArrival ==
    ASSUME NEW p \in Requests, Arrive(p), Calm'
    PROVE  \A q \in Requests : ~Running(q)
<1>1. ASSUME NEW q \in Requests, Running(q) PROVE overlap'
  BY <1>1 DEF Arrive
<1> QED BY <1>1 DEF Calm

LEMMA CalmStep ==
    ASSUME TypeInv, TrackInv, CalmInv, [Next]_vars, Calm'
    PROVE  (Alone /\ Reserved /\ Remembered)'
<1>0. /\ Calm /\ Undisturbed /\ Alone /\ Reserved /\ Remembered /\ CallType
      /\ disturbances = 0
  BY CalmBefore DEF CalmInv, TypeInv, Calm
<1>1. ~Disturb
  BY <1>0 DEF Disturb, Undisturbed
<1>2. ASSUME NEW p \in Requests, Arrive(p) \/ Refuse(p) \/ CallStep(p) \/ FailCall(p)
      PROVE  \A q \in Requests \ {p} : ~Running(q) /\ ~Running(q)'
  <2>1. \A q \in Requests \ {p} : ~Running(q)
    <3>1. CASE Arrive(p)
      BY <3>1, CalmArrival
    <3>2. CASE Refuse(p) \/ CallStep(p) \/ FailCall(p)
      <4>1. Running(p)
        BY <3>2 DEF Refuse, CallStep, FailCall, ReadUsage, CacheUsage, InsertSend, Publish, Rollback,
               RecordUsage, DropCache, StoreResponse, Running
      <4> QED BY <1>0, <4>1 DEF Alone
    <3> QED BY <1>2, <3>1, <3>2
  <2>2. \A q \in Requests \ {p} : rpc'[q] = rpc[q]
    BY <1>0, <1>2 DEF Arrive, Refuse, CallStep, FailCall, ReadUsage, CacheUsage, Decide, InsertSend,
           Publish, Rollback, RecordUsage, DropCache, StoreResponse, Step, Answer, CallType
  <2> QED BY <2>1, <2>2 DEF Running
<1>3. Alone'
  <2>1. ASSUME NEW p \in Requests, Arrive(p) \/ Refuse(p) \/ CallStep(p) \/ FailCall(p)
        PROVE  Alone'
    <3>1. rpc'[p] # "rollback"
      BY <1>0, <1>1, <2>1 DEF Arrive, Refuse, CallStep, FailCall, ReadUsage, CacheUsage, Decide,
             InsertSend, Publish, Rollback, RecordUsage, DropCache, StoreResponse, Step, Answer, CallType
    <3> QED BY <1>2, <2>1, <3>1 DEF Alone, Running
  <2>2. UNCHANGED calls => Alone'
    BY <1>0 DEF Alone, Running, calls
  <2> QED BY <2>1, <2>2, CallMoves
<1>4. (Reserved /\ Remembered)'
  <2>1. UNCHANGED <<calls, key>> => (Reserved /\ Remembered)'
    BY <1>0 DEF Reserved, Remembered, Running, calls
  <2>2. ~ExpireKey
    BY <1>1 DEF ExpireKey
  <2>3. ASSUME NEW p \in Requests, Arrive(p) \/ Refuse(p) \/ CallStep(p) \/ FailCall(p)
        PROVE  (Reserved /\ Remembered)'
    <3>1. /\ \A q \in Requests \ {p} : outcome'[q] = outcome[q] /\ reply'[q] = reply[q]
      BY <1>0, <2>3 DEF Arrive, Refuse, CallStep, FailCall, ReadUsage, CacheUsage, Decide, InsertSend,
             Publish, Rollback, RecordUsage, DropCache, StoreResponse, Step, Answer, CallType
    <3>2. \A q \in Requests \ Keyless : outcome[q] = "ok" => key.response # NoSend
      BY <1>0, ConstantsAssumption DEF Remembered, TrackInv, Tracked, Stored, ConstantsAssumption
    <3>3. CASE Arrive(p) /\ key.held /\ UNCHANGED key /\ p \notin Keyless
      <4>1. \/ key.response = NoSend /\ Step(p, "quota")
            \/ Answer(p, "ok", key.response)
            \/ Answer(p, "conflict", NoSend)
        BY <3>3 DEF Arrive
      <4> QED BY <1>0, <1>2, <2>3, <3>1, <3>3, <4>1
              DEF Reserved, Remembered, Running, Step, Answer, CallType
    <3>4. CASE Arrive(p) /\ ~key.held /\ p \notin Keyless
      <4>1. key' = Held(body[p], NoSend) /\ Step(p, "quota")
        BY <3>4 DEF Arrive
      <4> QED BY <1>0, <1>2, <2>3, <3>1, <3>4, <4>1
              DEF Reserved, Remembered, Running, Step, Held
    <3>5. CASE Arrive(p) /\ p \in Keyless
      <4>1. UNCHANGED key
        BY <3>5 DEF Arrive
      <4> QED BY <1>0, <1>2, <2>3, <3>1, <3>5, <4>1 DEF Reserved, Remembered
    <3>6. CASE StoreResponse(p) /\ p \notin Keyless
      <4>1. key' = Held(body[p], p) /\ Answer(p, "ok", p) /\ Running(p) /\ key.response = NoSend
        BY <1>0, <1>1, <3>6 DEF StoreResponse, Running, Reserved
      <4>2. /\ \A q \in (Requests \ Keyless) \ {p} : outcome'[q] # "ok"
            /\ rpc'[p] = "done" /\ reply'[p] = p
        BY <1>0, <3>1, <3>2, <4>1 DEF Answer, CallType
      <4> QED BY <1>2, <2>3, <4>1, <4>2 DEF Reserved, Remembered, Running, Held
    <3>7. CASE UNCHANGED key /\ (Refuse(p) \/ FailCall(p) \/ CallStep(p)) /\ (p \in Keyless \/ ~StoreResponse(p))
      <4>1. Running(p)
        BY <3>7 DEF Refuse, CallStep, FailCall, ReadUsage, CacheUsage, InsertSend, Publish, Rollback,
               RecordUsage, DropCache, StoreResponse, Running
      <4>2. p \notin Keyless => outcome'[p] # "ok" \/ (outcome'[p] = outcome[p] /\ reply'[p] = reply[p])
        BY <1>0, <3>7 DEF Refuse, CallStep, FailCall, ReadUsage, CacheUsage, Decide, InsertSend, Publish,
               Rollback, RecordUsage, DropCache, Step, Answer, CallType
      <4> QED BY <1>0, <1>2, <2>3, <3>1, <3>7, <4>1, <4>2 DEF Reserved, Remembered
    <3>8. Refuse(p) \/ FailCall(p) \/ CallStep(p) => UNCHANGED key \/ (StoreResponse(p) /\ p \notin Keyless)
      BY DEF Refuse, CallStep, FailCall, ReadUsage, CacheUsage, InsertSend, Publish, Rollback,
             RecordUsage, DropCache, StoreResponse, redis
    <3>9. Arrive(p) => UNCHANGED key \/ ~key.held
      BY DEF Arrive
    <3>10. Arrive(p) /\ p \notin Keyless => key.held \/ ~key.held
      BY DEF Arrive
    <3> QED BY <2>3, <3>3, <3>4, <3>5, <3>6, <3>7, <3>8, <3>9, <3>10
  <2>4. UNCHANGED key \/ \E p \in Requests : Arrive(p) \/ Refuse(p) \/ CallStep(p) \/ FailCall(p)
    <3>1. ASSUME NEW p \in Requests, ExpireAckWait(p) PROVE UNCHANGED key
      BY <3>1 DEF ExpireAckWait, redis
    <3>2. ASSUME NEW w \in Workers, WorkerStep(w) \/ CrashWorker(w) PROVE UNCHANGED key
      BY <3>2 DEF WorkerStep, CrashWorker, Receive, Check, MarkSending, SendEmail, MarkSent, DeadLetter,
             MarkFailed, SettleSend, redis
    <3>3. ExpireCache \/ UNCHANGED vars => UNCHANGED key
      BY DEF ExpireCache, vars
    <3> QED BY <2>2, <3>1, <3>2, <3>3 DEF Next
  <2> QED BY <2>1, <2>3, <2>4, CallMoves
<1> QED BY <1>3, <1>4

\* The inductive invariant of the rest.
LoneInv == TypeInv /\ TrackInv /\ CalmInv

LEMMA LoneAlways == Spec => []LoneInv
<1>1. Init => LoneInv
  BY TypeInit, TrackInit, CalmInit DEF LoneInv
<1>2. LoneInv /\ [Next]_vars => LoneInv'
  <2> SUFFICES ASSUME LoneInv, [Next]_vars PROVE LoneInv'
    OBVIOUS
  <2>1. TypeInv' /\ TrackInv'
    BY TypeStep, TrackStep DEF LoneInv
  <2>2. CalmInv'
    BY CalmStep DEF LoneInv, CalmInv
  <2> QED BY <2>1, <2>2 DEF LoneInv
<1> QED BY <1>1, <1>2, PTL DEF Spec

\* Calls with one key that do not overlap, with nothing failing, are all
\* answered with one send.
THEOREM OneSendPerKey == Spec => []OneSendWhenCalm
<1>1. CalmInv => OneSendWhenCalm
  BY DEF CalmInv, Remembered, OneSendWhenCalm
<1> QED BY <1>1, LoneAlways, PTL DEF LoneInv

-----------------------------------------------------------------------------
(* The quota.                                                               *)

Bound == IF Used > Limit THEN Used ELSE Limit

\* The cached count is the counter unless a call has still to drop it, and the
\* call that was let through found room for its email.
CountIsRight ==
    /\ usage <= Bound
    /\ \A p \in Requests : rpc[p] = "cacheUsage" => snapshot[p] = usage
    /\ cache \in {NoCache, usage} \/ \E p \in Requests : rpc[p] = "dropCache"
    /\ \A p \in Requests : rpc[p] \in {"insert", "publish", "record"} => usage + 1 <= Limit

QuotaInv == Calm => CountIsRight

LEMMA QuotaInit == Init => QuotaInv
<1> SUFFICES ASSUME Init PROVE CountIsRight
  BY DEF QuotaInv
<1>1. usage <= Bound
  BY ConstantsAssumption DEF Init, Bound, ConstantsAssumption
<1>2. cache = NoCache /\ \A p \in Requests : rpc[p] = "new"
  BY DEF Init
<1> QED BY <1>1, <1>2 DEF CountIsRight

\* A step of one call keeps the count, while the other calls wait.
LEMMA CallCounts ==
    ASSUME LoneInv, CountIsRight, Calm, NEW p \in Requests, Undisturbed,
           Arrive(p) \/ Refuse(p) \/ CallStep(p) \/ FailCall(p),
           \A q \in Requests \ {p} : ~Running(q) /\ ~Running(q)'
    PROVE  CountIsRight'
<1>0. /\ rpc \in [Requests -> CallLabels] /\ snapshot \in [Requests -> Nat]
      /\ usage \in Nat /\ cache \in Nat \cup {NoCache}
      /\ Limit \in Nat /\ Used \in Nat /\ disturbances = 0
  BY ConstantsAssumption DEF LoneInv, TypeInv, StoreType, CallType, Calm, ConstantsAssumption
<1>1. ~Disturb
  BY <1>0 DEF Disturb, Undisturbed
<1>2. \A q \in Requests \ {p} : rpc[q] \in {"new", "done"} /\ rpc'[q] \in {"new", "done"}
  BY DEF Running
<1>3. /\ usage <= Bound
      /\ rpc[p] = "cacheUsage" => snapshot[p] = usage
      /\ cache \in {NoCache, usage} \/ rpc[p] = "dropCache"
      /\ rpc[p] \in {"insert", "publish", "record"} => usage + 1 <= Limit
  BY <1>2 DEF CountIsRight
<1>4. ASSUME usage' <= Bound,
             rpc'[p] = "cacheUsage" => snapshot'[p] = usage',
             cache' \in {NoCache, usage'} \/ rpc'[p] = "dropCache",
             rpc'[p] \in {"insert", "publish", "record"} => usage' + 1 <= Limit
      PROVE  CountIsRight'
  BY <1>2, <1>4 DEF CountIsRight, Bound
<1>5. \A l : Step(p, l) => rpc'[p] = l
  BY <1>0 DEF Step
<1>6. \A o, s : Answer(p, o, s) => rpc'[p] = "done"
  BY <1>0 DEF Answer
<1>7. CASE Arrive(p)
  <2>1. rpc[p] = "new" /\ rpc'[p] \in {"quota", "done"} /\ UNCHANGED <<usage, cache>>
    BY <1>5, <1>6, <1>7 DEF Arrive
  <2> QED BY <1>3, <1>4, <2>1
<1>8. CASE Refuse(p)
  <2>1. rpc[p] # "dropCache" /\ rpc'[p] = "done" /\ UNCHANGED <<usage, cache>>
    BY <1>6, <1>8 DEF Refuse, redis
  <2> QED BY <1>3, <1>4, <2>1
<1>9. CASE ReadUsage(p)
  <2>1. rpc[p] = "quota" /\ UNCHANGED <<usage, cache>>
    BY <1>9 DEF ReadUsage, redis
  <2>2. CASE cache # NoCache /\ Decide(p, cache)
    <3>1. cache = usage
      BY <1>3, <2>1, <2>2
    <3>2. rpc'[p] = "done" \/ (rpc'[p] = "insert" /\ Limit - usage >= 1)
      BY <1>5, <1>6, <2>2, <3>1 DEF Decide
    <3> QED BY <1>0, <1>3, <1>4, <2>1, <3>1, <3>2
  <2>3. CASE snapshot' = [snapshot EXCEPT ![p] = usage] /\ Step(p, "cacheUsage")
    <3>1. rpc'[p] = "cacheUsage" /\ snapshot'[p] = usage
      BY <1>0, <1>5, <2>3
    <3> QED BY <1>3, <1>4, <2>1, <3>1
  <2> QED BY <1>9, <2>2, <2>3 DEF ReadUsage
<1>10. CASE CacheUsage(p)
  <2>1. rpc[p] = "cacheUsage" /\ UNCHANGED usage /\ cache' = snapshot[p] /\ Decide(p, snapshot[p])
    BY <1>1, <1>10 DEF CacheUsage
  <2>2. snapshot[p] = usage
    BY <1>3, <2>1
  <2>3. rpc'[p] = "done" \/ (rpc'[p] = "insert" /\ Limit - usage >= 1)
    BY <1>5, <1>6, <2>1, <2>2 DEF Decide
  <2> QED BY <1>0, <1>3, <1>4, <2>1, <2>2, <2>3
<1>11. CASE InsertSend(p)
  <2>1. rpc[p] = "insert" /\ rpc'[p] = "publish" /\ UNCHANGED <<usage, cache>>
    BY <1>5, <1>11 DEF InsertSend, redis
  <2> QED BY <1>3, <1>4, <2>1
<1>12. CASE Publish(p)
  <2>1. rpc[p] = "publish" /\ rpc'[p] = "record" /\ UNCHANGED <<usage, cache>>
    BY <1>1, <1>5, <1>12 DEF Publish, redis
  <2> QED BY <1>3, <1>4, <2>1
<1>13. CASE Rollback(p)
  <2>1. rpc[p] = "rollback" /\ rpc'[p] = "done" /\ UNCHANGED <<usage, cache>>
    BY <1>6, <1>13 DEF Rollback, redis
  <2> QED BY <1>3, <1>4, <2>1
<1>14. CASE RecordUsage(p)
  <2>1. rpc[p] = "record" /\ rpc'[p] = "dropCache" /\ usage' = usage + 1
    BY <1>5, <1>14 DEF RecordUsage
  <2>2. usage' <= Bound
    BY <1>0, <1>3, <2>1 DEF Bound
  <2> QED BY <1>4, <2>1, <2>2
<1>15. CASE DropCache(p)
  <2>1. rpc'[p] = "store" /\ cache' = NoCache /\ UNCHANGED usage
    BY <1>1, <1>5, <1>15 DEF DropCache
  <2> QED BY <1>3, <1>4, <2>1
<1>16. CASE StoreResponse(p)
  <2>1. rpc[p] = "store" /\ rpc'[p] = "done" /\ UNCHANGED <<usage, cache>>
    BY <1>6, <1>16 DEF StoreResponse
  <2> QED BY <1>3, <1>4, <2>1
<1>17. ~FailCall(p)
  BY <1>1 DEF FailCall
<1> QED BY <1>7, <1>8, <1>9, <1>10, <1>11, <1>12, <1>13, <1>14, <1>15, <1>16, <1>17 DEF CallStep

LEMMA QuotaStep ==
    ASSUME LoneInv, QuotaInv, [Next]_vars
    PROVE  QuotaInv'
<1> SUFFICES ASSUME Calm' PROVE CountIsRight'
  BY DEF QuotaInv
<1>0. Calm /\ Undisturbed /\ CountIsRight /\ Alone /\ Alone'
  BY CalmBefore, CalmStep DEF LoneInv, QuotaInv, CalmInv
<1>1. ASSUME NEW p \in Requests, Arrive(p) \/ Refuse(p) \/ CallStep(p) \/ FailCall(p)
      PROVE  CountIsRight'
  <2>1. \A q \in Requests \ {p} : ~Running(q) /\ ~Running(q)'
    <3>1. \A q \in Requests \ {p} : ~Running(q)
      <4>1. CASE Arrive(p)
        BY <4>1, CalmArrival
      <4>2. CASE Refuse(p) \/ CallStep(p) \/ FailCall(p)
        <5>1. Running(p)
          BY <4>2 DEF Refuse, CallStep, FailCall, ReadUsage, CacheUsage, InsertSend, Publish, Rollback,
                 RecordUsage, DropCache, StoreResponse, Running
        <5> QED BY <1>0, <5>1 DEF Alone
      <4> QED BY <1>1, <4>1, <4>2
    <3>2. \A q \in Requests \ {p} : rpc'[q] = rpc[q]
      BY <1>1 DEF LoneInv, TypeInv, CallType, Arrive, Refuse, CallStep, FailCall, ReadUsage, CacheUsage,
             Decide, InsertSend, Publish, Rollback, RecordUsage, DropCache, StoreResponse, Step, Answer
    <3> QED BY <3>1, <3>2 DEF Running
  <2> QED BY <1>0, <1>1, <2>1, CallCounts
<1>2. UNCHANGED <<usage, cache, calls>> => CountIsRight'
  BY <1>0 DEF CountIsRight, calls, Bound
<1>3. UNCHANGED <<usage, calls>> /\ cache' = NoCache => CountIsRight'
  BY <1>0 DEF CountIsRight, calls, Bound
<1>4. ASSUME NEW p \in Requests, ExpireAckWait(p) PROVE UNCHANGED <<usage, cache, calls>>
  BY <1>4 DEF ExpireAckWait, redis
<1>5. ASSUME NEW w \in Workers, WorkerStep(w) \/ CrashWorker(w) PROVE UNCHANGED <<usage, cache, calls>>
  BY <1>5 DEF WorkerStep, CrashWorker, Receive, Check, MarkSending, SendEmail, MarkSent, DeadLetter,
         MarkFailed, SettleSend, redis
<1>6. ExpireKey \/ UNCHANGED vars => UNCHANGED <<usage, cache, calls>>
  BY DEF ExpireKey, vars, calls
<1>7. ExpireCache => UNCHANGED <<usage, calls>> /\ cache' = NoCache
  BY DEF ExpireCache
<1> QED BY <1>1, <1>2, <1>3, <1>4, <1>5, <1>6, <1>7 DEF Next

\* While calls do not overlap and nothing fails, the workspace never sends more
\* than its plan allows, although calls decide on a count cached in Redis.
THEOREM QuotaKept == Spec => []QuotaWhenCalm
<1>1. Init => QuotaInv
  BY QuotaInit
<1>2. LoneInv /\ QuotaInv /\ [Next]_vars => QuotaInv'
  BY QuotaStep
<1>3. QuotaInv => QuotaWhenCalm
  BY DEF QuotaInv, CountIsRight, QuotaWhenCalm, Bound
<1> QED BY <1>1, <1>2, <1>3, LoneAlways, PTL DEF Spec
=============================================================================
