----------------------- MODULE SegmentRefresh_proofs -----------------------
(***************************************************************************)
(* Theorems about SegmentRefresh for every number of contacts, requests,   *)
(* workers, deliveries and disturbances: types, one refresher at a time,   *)
(* whose lock is released by whom, the count of a ready segment, and that  *)
(* the newest filter wins.                                                 *)
(***************************************************************************)
EXTENDS SegmentRefresh, FiniteSetTheorems, TLAPS

(* TypeOK by groups of variables, with what makes it inductive: a message  *)
(* that can be delivered has a delivery left, and job is a function.       *)
TableType ==
    /\ alive \subseteq Contacts /\ members \subseteq Contacts
    /\ filter \in Filters
    /\ status \in Statuses /\ count \in Int

QueueInv ==
    /\ msg \in [Requests -> Messages]
    /\ \A r \in Requests : msg[r].st = "ready" => msg[r].n < MaxAttempts

LockType == lock \in Workers \cup {Free, Orphan}
CallType == call \in [Requests -> {"new", "publish", "done"}]

SlotInv ==
    /\ pc \in [Workers -> Labels]
    /\ job \in [Workers -> Requests \cup {NoJob}]
    /\ \A w \in Workers : pc[w] # "idle" => job[w] \in Requests
    /\ attempt \in [Workers -> 0..MaxAttempts]

WorkType ==
    /\ loaded \in [Workers -> Filters]
    /\ cursor \in [Workers -> 0..NumContacts]
    /\ matched \in [Workers -> SUBSET Contacts]
    /\ current \in [Workers -> SUBSET Contacts]

SeenType ==
    /\ skipped \in BOOLEAN /\ overlapped \in BOOLEAN
    /\ disturbances \in 0..MaxDisturbances /\ changes \in 0..MaxChanges

TypeInv == /\ TableType /\ QueueInv /\ LockType /\ CallType
           /\ SlotInv /\ WorkType /\ SeenType

LEMMA TypeInvIsTypeOK == TypeInv => TypeOK
BY DEF TypeInv, TypeOK, TableType, QueueInv, LockType, CallType, SlotInv, WorkType, SeenType

\* A step that leaves a group of variables alone keeps what is said of it.
LEMMA Frame ==
    ASSUME TypeInv
    PROVE  /\ UNCHANGED <<alive, row>> => TableType'
           /\ UNCHANGED msg => QueueInv'
           /\ UNCHANGED lock => LockType'
           /\ UNCHANGED call => CallType'
           /\ UNCHANGED <<pc, job, attempt>> => SlotInv'
           /\ UNCHANGED work => WorkType'
           /\ UNCHANGED <<seen, disturbances, changes>> => SeenType'
BY DEF TypeInv, TableType, QueueInv, LockType, CallType, SlotInv, WorkType, SeenType,
       row, work, seen

\* A disturbance stays within its bound.
LEMMA DisturbOK ==
    ASSUME TypeInv, Disturb \/ Undisturbed, UNCHANGED <<seen, changes>>
    PROVE  SeenType'
BY ConstantsAssumption
   DEF TypeInv, SeenType, Disturb, Undisturbed, seen, ConstantsAssumption

LEMMA NewMsgOK ==
    ASSUME QueueInv, NEW r \in Requests, msg' = NewMsg(msg, r)
    PROVE  QueueInv'
BY ConstantsAssumption DEF ConstantsAssumption, QueueInv, NewMsg, Messages, MsgStatus

LEMMA SettleOK ==
    ASSUME QueueInv, NEW r \in Requests, msg' = Settle(msg, r)
    PROVE  QueueInv'
BY ConstantsAssumption DEF ConstantsAssumption, QueueInv, Settle, Messages, MsgStatus

LEMMA RequeueOK ==
    ASSUME QueueInv, NEW r \in Requests, msg' = Requeue(msg, r)
    PROVE  QueueInv'
BY ConstantsAssumption
   DEF ConstantsAssumption, QueueInv, Requeue, CanRedeliver, Messages, MsgStatus

\* Nak and its give-up keep the queue.
LEMMA NakOK ==
    ASSUME TypeInv, NEW w \in Workers, pc[w] # "idle", Nak(w)
    PROVE  QueueInv'
<1>1. QueueInv /\ job[w] \in Requests
  BY DEF TypeInv, SlotInv
<1>2. CASE attempt[w] >= MaxAttempts
  BY <1>1, <1>2, SettleOK DEF Nak
<1>3. CASE ~(attempt[w] >= MaxAttempts)
  BY <1>1, <1>3, RequeueOK DEF Nak
<1>4. QED
  BY <1>2, <1>3

\* A delivery goes on to its next step.
LEMMA GoToOK ==
    ASSUME TypeInv, NEW w \in Workers, NEW label \in Labels, pc[w] # "idle", GoTo(w, label)
    PROVE  SlotInv'
BY DEF TypeInv, SlotInv, GoTo

\* A slot becomes free.
LEMMA ForgetOK ==
    ASSUME TypeInv, NEW w \in Workers, Forget(w)
    PROVE  SlotInv' /\ WorkType'
<1>1. Unknown \in Filters
  BY DEF Filters
<1>2. SlotInv'
  BY ConstantsAssumption DEF ConstantsAssumption, TypeInv, SlotInv, Forget, Labels
<1>3. WorkType'
  BY <1>1, ConstantsAssumption DEF ConstantsAssumption, TypeInv, WorkType, Forget
<1>4. QED
  BY <1>2, <1>3

\* A step fails with the lock in hand.
LEMMA FailOK ==
    ASSUME TypeInv, NEW w \in Workers, pc[w] # "idle", Fail(w)
    PROVE  QueueInv' /\ SlotInv' /\ WorkType'
<1>1. QueueInv'
  BY NakOK DEF Fail
<1>2. SlotInv'
  BY GoToOK DEF Fail, Labels
<1>3. WorkType'
  BY Frame DEF Fail
<1>4. QED
  BY <1>1, <1>2, <1>3

LEMMA InitTypeInv == Init => TypeInv
<1> SUFFICES ASSUME Init PROVE TypeInv
  OBVIOUS
<1> USE ConstantsAssumption DEF ConstantsAssumption, Init
<1>1. Unknown \in Filters /\ Describes({}) \in Filters
  BY DEF Filters
<1>2. TableType
  BY <1>1 DEF TableType, Statuses
<1>3. QueueInv
  BY DEF QueueInv, Messages, MsgStatus
<1>4. SlotInv
  BY DEF SlotInv, Labels
<1>5. WorkType
  BY <1>1 DEF WorkType
<1>6. LockType
  BY DEF LockType
<1>7. CallType
  BY DEF CallType
<1>8. SeenType
  <2>1. skipped \in BOOLEAN /\ overlapped \in BOOLEAN
    BY Zenon
  <2>2. disturbances \in 0..MaxDisturbances /\ changes \in 0..MaxChanges
    OBVIOUS
  <2>3. QED
    BY <2>1, <2>2 DEF SeenType
<1>9. QED
  BY <1>2, <1>3, <1>4, <1>5, <1>6, <1>7, <1>8 DEF TypeInv

-----------------------------------------------------------------------------
(* The environment and the API keep the types.                              *)

LEMMA RequestOK == ASSUME TypeInv, NEW r \in Requests, Request(r) PROVE TypeInv'
<1> USE DEF Request
<1>1. TableType'
  BY DEF TypeInv, TableType, Statuses
<1>2. CallType'
  BY DEF TypeInv, CallType
<1>3. QED
  BY <1>1, <1>2, Frame DEF TypeInv, slots

LEMMA EnqueueOK == ASSUME TypeInv, NEW r \in Requests, Enqueue(r) PROVE TypeInv'
<1> USE DEF Enqueue
<1>1. QueueInv'
  <2>1. CASE msg' = NewMsg(msg, r)
    BY <2>1, NewMsgOK DEF TypeInv
  <2>2. CASE UNCHANGED msg
    BY <2>2, Frame
  <2>3. QED
    BY <2>1, <2>2
<1>2. CallType'
  BY DEF TypeInv, CallType
<1>3. SeenType'
  BY DisturbOK
<1>4. QED
  BY <1>1, <1>2, <1>3, Frame DEF TypeInv, slots

LEMMA ContactChangeOK == ASSUME TypeInv, NEW c \in Contacts, ContactChange(c) PROVE TypeInv'
<1> USE DEF ContactChange
<1>1. TableType'
  BY DEF TypeInv, TableType, row
<1>2. SeenType'
  BY ConstantsAssumption DEF ConstantsAssumption, TypeInv, SeenType, seen
<1>3. QED
  BY <1>1, <1>2, Frame DEF TypeInv, slots

LEMMA ExpireAckWaitOK ==
    ASSUME TypeInv, NEW r \in Requests, ExpireAckWait(r) PROVE TypeInv'
<1> USE DEF ExpireAckWait
<1>1. QueueInv'
  BY RequeueOK DEF TypeInv
<1>2. SeenType'
  BY DisturbOK
<1>3. QED
  BY <1>1, <1>2, Frame DEF TypeInv, slots

LEMMA ExpireLockOK == ASSUME TypeInv, ExpireLock PROVE TypeInv'
<1> USE DEF ExpireLock
<1>1. LockType'
  BY DEF LockType
<1>2. SeenType'
  <2>1. skipped' \in BOOLEAN /\ overlapped' \in BOOLEAN
    BY Zenon DEF TypeInv, SeenType
  <2>2. disturbances' \in 0..MaxDisturbances /\ changes' \in 0..MaxChanges
    BY ConstantsAssumption
       DEF ConstantsAssumption, TypeInv, SeenType, Disturb, Undisturbed
  <2>3. QED
    BY <2>1, <2>2 DEF SeenType
<1>3. QED
  BY <1>1, <1>2, Frame DEF TypeInv, slots

LEMMA CrashOK == ASSUME TypeInv, NEW w \in Workers, Crash(w) PROVE TypeInv'
<1> USE DEF Crash
<1>1. LockType'
  BY DEF TypeInv, LockType
<1>2. SeenType'
  BY DisturbOK
<1>3. QED
  BY <1>1, <1>2, ForgetOK, Frame DEF TypeInv

-----------------------------------------------------------------------------
(* The worker keeps the types.                                              *)

LEMMA ReceiveOK ==
    ASSUME TypeInv, NEW w \in Workers, NEW r \in Requests, Receive(w, r) PROVE TypeInv'
<1> USE DEF Receive
<1>1. msg[r].n \in Nat /\ msg[r].n < MaxAttempts
  BY DEF TypeInv, QueueInv, Messages
<1>2. QueueInv'
  BY <1>1, ConstantsAssumption
     DEF ConstantsAssumption, TypeInv, QueueInv, Deliver, Messages, MsgStatus
<1>3. SlotInv'
  BY <1>1, ConstantsAssumption DEF ConstantsAssumption, TypeInv, SlotInv, Labels
<1>4. QED
  BY <1>2, <1>3, Frame DEF TypeInv

LEMMA AcquireLockOK == ASSUME TypeInv, NEW w \in Workers, AcquireLock(w) PROVE TypeInv'
<1>1. pc[w] # "idle" /\ job[w] \in Requests
  BY DEF TypeInv, SlotInv, AcquireLock
<1>2. TableType' /\ CallType'
  BY Frame DEF AcquireLock
<1>3. LockType'
  BY DEF AcquireLock, Unanswered, LockType, TypeInv
<1>4. SeenType'
  <2>1. skipped' \in BOOLEAN /\ overlapped' \in BOOLEAN
    BY Zenon DEF TypeInv, SeenType, AcquireLock
  <2>2. disturbances' \in 0..MaxDisturbances /\ changes' \in 0..MaxChanges
    BY ConstantsAssumption
       DEF ConstantsAssumption, AcquireLock, TypeInv, SeenType, Disturb, Undisturbed
  <2>3. QED
    BY <2>1, <2>2 DEF SeenType
<1>5. QueueInv'
  BY <1>1, Frame, SettleOK, NakOK DEF AcquireLock, TypeInv
<1>6. SlotInv' /\ WorkType'
  BY <1>1, Frame, ForgetOK, GoToOK DEF AcquireLock, Labels
<1>7. QED
  BY <1>2, <1>3, <1>4, <1>5, <1>6 DEF TypeInv

LEMMA LoadSegmentOK == ASSUME TypeInv, NEW w \in Workers, LoadSegment(w) PROVE TypeInv'
<1> USE DEF LoadSegment
<1>1. TableType' /\ LockType' /\ CallType' /\ SeenType'
  BY Frame, DisturbOK
<1>2. CASE Fail(w)
  BY <1>1, <1>2, FailOK DEF TypeInv
<1>3. CASE ~Fail(w)
  <2>1. WorkType'
    BY <1>3 DEF TypeInv, WorkType, TableType
  <2>2. SlotInv' /\ QueueInv'
    BY <1>3, GoToOK, Frame DEF Labels
  <2>3. QED
    BY <1>1, <2>1, <2>2 DEF TypeInv
<1>4. QED
  BY <1>2, <1>3

LEMMA MarkProcessingOK == ASSUME TypeInv, NEW w \in Workers, MarkProcessing(w) PROVE TypeInv'
<1> USE DEF MarkProcessing
<1>1. LockType' /\ CallType' /\ SeenType'
  BY Frame, DisturbOK
<1>2. TableType'
  BY DEF TypeInv, TableType, Statuses
<1>3. QueueInv' /\ SlotInv' /\ WorkType'
  BY FailOK, GoToOK, Frame DEF Labels
<1>4. QED
  BY <1>1, <1>2, <1>3 DEF TypeInv

LEMMA EvaluateOK == ASSUME TypeInv, NEW w \in Workers, Evaluate(w) PROVE TypeInv'
<1>1. LockType' /\ CallType' /\ SeenType' /\ pc[w] # "idle"
  BY Frame, DisturbOK DEF Evaluate
<1>2. TableType'
  BY DEF Evaluate, TypeInv, TableType, Statuses
<1>3. CASE Fail(w)
  BY <1>1, <1>2, <1>3, FailOK DEF TypeInv
<1>4. CASE GoTo(w, "read") /\ UNCHANGED <<msg, work>>
  BY <1>1, <1>2, <1>4, GoToOK, Frame DEF TypeInv, Labels
<1>5. CASE /\ cursor[w] < NumContacts
           /\ cursor' = [cursor EXCEPT ![w] = cursor[w] + 1]
           /\ matched' = IF cursor[w] + 1 \in alive /\ cursor[w] + 1 \in loaded[w].who
                         THEN [matched EXCEPT ![w] = @ \cup {cursor[w] + 1}] ELSE matched
           /\ UNCHANGED <<pc, job, attempt, msg, loaded, current>>
  <2>1. cursor[w] \in 0..NumContacts /\ cursor[w] + 1 \in Contacts
    BY <1>5, ConstantsAssumption
       DEF ConstantsAssumption, TypeInv, WorkType, Contacts
  <2>2. matched' \in [Workers -> SUBSET Contacts]
    BY <1>5, <2>1 DEF TypeInv, WorkType
  <2>3. cursor' \in [Workers -> 0..NumContacts]
    BY <1>5, <2>1, ConstantsAssumption DEF ConstantsAssumption, TypeInv, WorkType, Contacts
  <2>4. WorkType'
    BY <1>5, <2>2, <2>3 DEF TypeInv, WorkType
  <2>5. QED
    BY <1>1, <1>2, <1>5, <2>4, Frame DEF TypeInv
<1>6. QED
  BY <1>3, <1>4, <1>5 DEF Evaluate

LEMMA ReadMembersOK == ASSUME TypeInv, NEW w \in Workers, ReadMembers(w) PROVE TypeInv'
<1> USE DEF ReadMembers
<1>1. TableType' /\ LockType' /\ CallType' /\ SeenType'
  BY Frame, DisturbOK
<1>2. CASE Fail(w)
  BY <1>1, <1>2, FailOK DEF TypeInv
<1>3. CASE ~Fail(w)
  <2>1. WorkType'
    BY <1>3 DEF TypeInv, WorkType, TableType
  <2>2. SlotInv' /\ QueueInv'
    BY <1>3, GoToOK, Frame DEF Labels
  <2>3. QED
    BY <1>1, <2>1, <2>2 DEF TypeInv
<1>4. QED
  BY <1>2, <1>3

LEMMA InsertMembersOK == ASSUME TypeInv, NEW w \in Workers, InsertMembers(w) PROVE TypeInv'
<1> USE DEF InsertMembers
<1>1. LockType' /\ CallType' /\ SeenType'
  BY Frame, DisturbOK
<1>2. TableType'
  BY DEF TypeInv, TableType, WorkType, ToAdd
<1>3. QueueInv' /\ SlotInv' /\ WorkType'
  BY FailOK, GoToOK, Frame DEF Labels
<1>4. QED
  BY <1>1, <1>2, <1>3 DEF TypeInv

LEMMA DeleteMembersOK == ASSUME TypeInv, NEW w \in Workers, DeleteMembers(w) PROVE TypeInv'
<1> USE DEF DeleteMembers
<1>1. LockType' /\ CallType' /\ SeenType'
  BY Frame, DisturbOK
<1>2. TableType'
  BY DEF TypeInv, TableType
<1>3. QueueInv' /\ SlotInv' /\ WorkType'
  BY FailOK, GoToOK, Frame DEF Labels
<1>4. QED
  BY <1>1, <1>2, <1>3 DEF TypeInv

\* Sets of contacts are finite.
LEMMA ContactsFinite ==
    ASSUME NEW S \in SUBSET Contacts
    PROVE  IsFiniteSet(S) /\ Cardinality(S) \in Nat
<1>1. IsFiniteSet(Contacts)
  BY FS_Interval, ConstantsAssumption DEF Contacts, ConstantsAssumption
<1>2. IsFiniteSet(S)
  BY <1>1, FS_Subset
<1>3. QED
  BY <1>2, FS_CardinalityType

\* The count computed from the difference is the number of matches.
LEMMA FinalCountIsMatched ==
    ASSUME TypeInv, NEW w \in Workers
    PROVE  FinalCount(w) = Cardinality(matched[w]) /\ FinalCount(w) \in Int
<1> DEFINE C == current[w]
           M == matched[w]
<1>1. C \in SUBSET Contacts /\ M \in SUBSET Contacts
  BY DEF TypeInv, WorkType
<1>2. /\ IsFiniteSet(C) /\ IsFiniteSet(M)
      /\ Cardinality(C) \in Nat /\ Cardinality(M) \in Nat
      /\ Cardinality(M \cap C) \in Nat
  BY <1>1, ContactsFinite
<1>3. Cardinality(M \ C) = Cardinality(M) - Cardinality(M \cap C)
  BY <1>2, FS_Difference
<1>4. Cardinality(C \ M) = Cardinality(C) - Cardinality(C \cap M)
  BY <1>2, FS_Difference
<1>5. Cardinality(C \ M) = Cardinality(C) - Cardinality(M \cap C)
  <2>1. C \cap M = M \cap C
    OBVIOUS
  <2>2. QED
    BY <1>4, <2>1
<1> HIDE DEF C, M
<1>6. Cardinality(C) + Cardinality(M \ C) - Cardinality(C \ M) = Cardinality(M)
  <2>1. \A c, m, i \in Nat : c + (m - i) - (c - i) = m
    OBVIOUS
  <2>2. QED
    BY <1>2, <1>3, <1>5, <2>1
<1>7. FinalCount(w) = Cardinality(C) + Cardinality(M \ C) - Cardinality(C \ M)
  BY DEF FinalCount, ToAdd, ToRemove, C, M
<1>8. FinalCount(w) = Cardinality(M) /\ FinalCount(w) \in Int
  BY <1>2, <1>6, <1>7
<1>9. QED
  BY <1>8 DEF M

LEMMA UpdateReadyOK == ASSUME TypeInv, NEW w \in Workers, UpdateReady(w) PROVE TypeInv'
<1> USE DEF UpdateReady
<1>1. LockType' /\ CallType' /\ SeenType' /\ job[w] \in Requests
  BY Frame, DisturbOK DEF TypeInv, SlotInv
<1>2. TableType'
  BY FinalCountIsMatched DEF TypeInv, TableType, Statuses
<1>3. CASE Fail(w)
  BY <1>1, <1>2, <1>3, FailOK DEF TypeInv
<1>4. CASE msg' = Settle(msg, job[w]) /\ GoTo(w, "release") /\ UNCHANGED work
  BY <1>1, <1>2, <1>4, SettleOK, GoToOK, Frame DEF TypeInv, Labels
<1>5. QED
  BY <1>3, <1>4

LEMMA ReleaseLockOK == ASSUME TypeInv, NEW w \in Workers, ReleaseLock(w) PROVE TypeInv'
<1> USE DEF ReleaseLock
<1>1. LockType'
  BY DEF TypeInv, LockType
<1>2. SeenType'
  BY DisturbOK
<1>3. QED
  BY <1>1, <1>2, ForgetOK, Frame DEF TypeInv

-----------------------------------------------------------------------------
(* Type correctness.                                                        *)

LEMMA TypeInvInductive == TypeInv /\ [Next]_vars => TypeInv'
<1> SUFFICES ASSUME TypeInv, [Next]_vars PROVE TypeInv'
  OBVIOUS
<1>1. CASE UNCHANGED vars
  BY <1>1, Frame DEF vars, row, work, seen, TypeInv
<1>2. CASE \E r \in Requests : Request(r) \/ Enqueue(r) \/ ExpireAckWait(r)
  BY <1>2, RequestOK, EnqueueOK, ExpireAckWaitOK
<1>3. CASE \E c \in Contacts : ContactChange(c)
  BY <1>3, ContactChangeOK
<1>4. CASE \E w \in Workers : WorkerStep(w)
  BY <1>4, ReceiveOK, AcquireLockOK, LoadSegmentOK, MarkProcessingOK, EvaluateOK,
     ReadMembersOK, InsertMembersOK, DeleteMembersOK, UpdateReadyOK, ReleaseLockOK
     DEF WorkerStep
<1>5. CASE \E w \in Workers : Crash(w)
  BY <1>5, CrashOK
<1>6. CASE ExpireLock
  BY <1>6, ExpireLockOK
<1>7. QED
  BY <1>1, <1>2, <1>3, <1>4, <1>5, <1>6 DEF Next

\* Every variable keeps its type: in particular no refresh request is delivered
\* more than MaxAttempts times, and the lock always names a delivery slot, a
\* dead delivery or nobody.
THEOREM TypeCorrect == Spec => []TypeOK
<1>1. TypeInv => TypeOK
  BY TypeInvIsTypeOK
<1>2. QED
  BY <1>1, InitTypeInv, TypeInvInductive, PTL DEF Spec

-----------------------------------------------------------------------------
(* The lock.                                                                *)

\* A delivery between taking the lock and giving it back.
Holds(w) == Refreshing(w) \/ pc[w] = "release"

\* Unless the lock expired under somebody, whoever is past AcquireLock has it.
LockInv == ~overlapped => \A w \in Workers : Holds(w) => lock = w

\* What a step does to a slot that comes to hold the lock, and to the lock of a
\* slot that holds it already.
LEMMA LockInductive == TypeInv /\ LockInv /\ [Next]_vars => LockInv'
<1> SUFFICES ASSUME TypeInv, LockInv, [Next]_vars, ~overlapped',
                    NEW v \in Workers, Holds(v)'
             PROVE  lock' = v
  BY DEF LockInv
<1> USE DEF Holds, Refreshing
<1>0. pc \in [Workers -> Labels] /\ Free # Orphan /\ Free \notin Workers /\ Orphan \notin Workers
  BY ConstantsAssumption DEF ConstantsAssumption, TypeInv, SlotInv
<1>1. CASE UNCHANGED vars
  BY <1>1 DEF vars, LockInv
<1>2. CASE \E r \in Requests : Request(r) \/ Enqueue(r) \/ ExpireAckWait(r)
  BY <1>2 DEF Request, Enqueue, ExpireAckWait, LockInv, slots, seen
<1>3. CASE \E c \in Contacts : ContactChange(c)
  BY <1>3 DEF ContactChange, LockInv, slots, seen
<1>4. ASSUME NEW w \in Workers, WorkerStep(w) PROVE lock' = v
  <2>1. CASE \E r \in Requests : Receive(w, r)
    BY <2>1, <1>0 DEF Receive, LockInv, seen
  <2>2. CASE AcquireLock(w)
    BY <2>2, <1>0 DEF AcquireLock, Unanswered, GoTo, Forget, LockInv
  <2>3. CASE LoadSegment(w)
    BY <2>3, <1>0 DEF LoadSegment, Fail, GoTo, LockInv, seen
  <2>4. CASE MarkProcessing(w)
    BY <2>4, <1>0 DEF MarkProcessing, Fail, GoTo, LockInv, seen
  <2>5. CASE Evaluate(w)
    BY <2>5, <1>0 DEF Evaluate, Fail, GoTo, LockInv, seen
  <2>6. CASE ReadMembers(w)
    BY <2>6, <1>0 DEF ReadMembers, Fail, GoTo, LockInv, seen
  <2>7. CASE InsertMembers(w)
    BY <2>7, <1>0 DEF InsertMembers, Fail, GoTo, LockInv, seen
  <2>8. CASE DeleteMembers(w)
    BY <2>8, <1>0 DEF DeleteMembers, Fail, GoTo, LockInv, seen
  <2>9. CASE UpdateReady(w)
    BY <2>9, <1>0 DEF UpdateReady, Fail, GoTo, LockInv, seen
  <2>10. CASE ReleaseLock(w)
    BY <2>10, <1>0 DEF ReleaseLock, Forget, LockInv, seen
  <2>11. QED
    BY <1>4, <2>1, <2>2, <2>3, <2>4, <2>5, <2>6, <2>7, <2>8, <2>9, <2>10 DEF WorkerStep
<1>5. ASSUME NEW w \in Workers, Crash(w) PROVE lock' = v
  BY <1>5, <1>0 DEF Crash, Forget, LockInv, seen
<1>6. CASE ExpireLock
  BY <1>6, <1>0 DEF ExpireLock, LockInv, slots
<1>7. QED
  BY <1>1, <1>2, <1>3, <1>4, <1>5, <1>6 DEF Next

LEMMA InitLock == Init => LockInv
BY DEF Init, LockInv, Holds, Refreshing

\* Two deliveries recompute a segment at once only after the lock's TTL ran out
\* under one of them, for any number of workers, retries and crashes.
THEOREM OneRefresherAtATime == Spec => []OneRefresher
<1>1. LockInv => OneRefresher
  BY DEF LockInv, OneRefresher, Holds
<1>2. QED
  BY <1>1, InitTypeInv, TypeInvInductive, InitLock, LockInductive, PTL DEF Spec

\* The lock of a delivery goes away only by its own step, or by a disturbance:
\* a release after the lock expired leaves the next holder's lock alone.
THEOREM LockReleasedByHolder == Spec => LockIsReleasedByHolder
<1>1. ASSUME TypeInv, [Next]_vars, NEW w \in Workers, lock = w, lock' # w
      PROVE  pc'[w] # pc[w] \/ disturbances' # disturbances
  <2> USE <1>1, ConstantsAssumption DEF ConstantsAssumption
  <2>0. pc \in [Workers -> Labels] /\ disturbances \in Nat
    BY DEF TypeInv, SlotInv, SeenType
  <2>1. CASE UNCHANGED vars
    BY <2>1 DEF vars
  <2>2. CASE \E r \in Requests : Request(r) \/ Enqueue(r) \/ ExpireAckWait(r)
    BY <2>2 DEF Request, Enqueue, ExpireAckWait
  <2>3. CASE \E c \in Contacts : ContactChange(c)
    BY <2>3 DEF ContactChange
  <2>4. ASSUME NEW v \in Workers, WorkerStep(v) PROVE ReleaseLock(v)
    BY <2>4 DEF WorkerStep, Receive, AcquireLock, Unanswered, LoadSegment, MarkProcessing, Evaluate,
       ReadMembers, InsertMembers, DeleteMembers, UpdateReady
  <2>5. ASSUME NEW v \in Workers, ReleaseLock(v) PROVE pc'[w] # pc[w]
    BY <2>0, <2>5 DEF ReleaseLock, Forget
  <2>6. ASSUME NEW v \in Workers, Crash(v) PROVE pc'[w] # pc[w]
    BY <2>0, <2>6 DEF Crash, Forget
  <2>7. CASE ExpireLock
    BY <2>0, <2>7 DEF ExpireLock, Disturb
  <2>8. QED
    BY <2>1, <2>2, <2>3, <2>4, <2>5, <2>6, <2>7 DEF Next
<1>2. TypeInv /\ [Next]_vars =>
        [\A w \in Workers :
          lock = w /\ lock' # w => pc'[w] # pc[w] \/ disturbances' # disturbances]_vars
  BY <1>1
<1>3. QED
  BY <1>2, InitTypeInv, TypeInvInductive, PTL DEF Spec, LockIsReleasedByHolder

-----------------------------------------------------------------------------
(* The members.                                                             *)

\* How far the delivery with the lock got with the members, and that the
\* segment is not shown as ready meanwhile.
Progress(w) ==
    /\ pc[w] \in {"eval", "read", "insert", "delete", "ready"} => status # "ready"
    /\ pc[w] = "insert" => members = current[w]
    /\ pc[w] = "delete" => members = current[w] \cup matched[w]
    /\ pc[w] = "ready" => members = matched[w]

MemberInv == ~overlapped => /\ \A w \in Workers : Progress(w)
                            /\ status = "ready" => count = Cardinality(members)

LEMMA InitMember == Init => MemberInv
BY FS_EmptySet DEF Init, MemberInv, Progress

\* A failed step hands over to the release.
LEMMA FailGoes ==
    ASSUME TypeInv, NEW w \in Workers, Fail(w)
    PROVE  pc'[w] = "release" /\ (\A v \in Workers : v # w => pc'[v] = pc[v])
BY DEF Fail, GoTo, TypeInv, SlotInv

\* As long as no lock expired in use, only the holder touches the members, and
\* it shows the segment as ready once they are the matches it counted.
LEMMA MemberInductive == TypeInv /\ LockInv /\ MemberInv /\ [Next]_vars => MemberInv'
<1> SUFFICES ASSUME TypeInv, LockInv, MemberInv, [Next]_vars, ~overlapped'
             PROVE  /\ \A w \in Workers : Progress(w)'
                    /\ status' = "ready" => count' = Cardinality(members')
  BY DEF MemberInv
<1> DEFINE Goal == /\ \A w \in Workers : Progress(w)'
                   /\ status' = "ready" => count' = Cardinality(members')
<1> USE DEF Progress
<1>0. /\ pc \in [Workers -> Labels]
      /\ current \in [Workers -> SUBSET Contacts]
      /\ matched \in [Workers -> SUBSET Contacts]
  BY DEF TypeInv, SlotInv, WorkType
<1>1. CASE UNCHANGED vars
  BY <1>1 DEF vars, MemberInv
<1>2. CASE \E r \in Requests : Request(r) \/ Enqueue(r) \/ ExpireAckWait(r)
  BY <1>2 DEF Request, Enqueue, ExpireAckWait, MemberInv, row, slots, work, seen
<1>3. CASE \E c \in Contacts : ContactChange(c)
  BY <1>3 DEF ContactChange, MemberInv, row, slots, work, seen
<1>4. ASSUME NEW w \in Workers, WorkerStep(w) PROVE Goal
  <2>1. CASE \E r \in Requests : Receive(w, r)
    BY <2>1, <1>0 DEF Receive, MemberInv, row, work, seen
  <2>2. CASE AcquireLock(w)
    BY <2>2, <1>0 DEF AcquireLock, GoTo, Forget, MemberInv, row, work
  <2>3. CASE LoadSegment(w)
    BY <2>3, <1>0 DEF LoadSegment, Fail, GoTo, MemberInv, row, work, seen
  <2>4. CASE MarkProcessing(w)
    BY <2>4, <1>0 DEF MarkProcessing, Fail, GoTo, MemberInv, work, seen
  <2>5. CASE Evaluate(w)
    BY <2>5, <1>0 DEF Evaluate, Fail, GoTo, MemberInv, work, seen
  <2>6. CASE ReadMembers(w)
    BY <2>6, <1>0 DEF ReadMembers, Fail, GoTo, MemberInv, row, work, seen
  <2>7. ASSUME ~overlapped, pc[w] \in {"insert", "delete", "ready"}, NEW v \in Workers, v # w
        PROVE  pc[v] \notin {"eval", "read", "insert", "delete", "ready"}
    BY <2>7 DEF LockInv, Holds, Refreshing
  <2>8. CASE InsertMembers(w)
    <3>1. members \cup ToAdd(w) = current[w] \cup matched[w] \/ overlapped
      BY <2>8 DEF InsertMembers, ToAdd, MemberInv
    <3>2. QED
      BY <2>7, <2>8, <3>1, <1>0 DEF InsertMembers, Fail, GoTo, MemberInv, work, seen
  <2>9. CASE DeleteMembers(w)
    <3>1. members \ ToRemove(w) = matched[w] \/ overlapped
      BY <2>9 DEF DeleteMembers, ToRemove, MemberInv
    <3>2. QED
      BY <2>7, <2>9, <3>1, <1>0 DEF DeleteMembers, Fail, GoTo, MemberInv, work, seen
  <2>10. CASE UpdateReady(w)
    <3>1. FinalCount(w) = Cardinality(members) \/ overlapped
      BY <2>10, FinalCountIsMatched DEF UpdateReady, MemberInv
    <3>2. pc'[w] = "release" /\ \A v \in Workers : v # w => pc'[v] = pc[v]
      BY <2>10, <1>0, FailGoes DEF UpdateReady, GoTo
    <3>3. /\ UNCHANGED <<members, overlapped, matched, current>>
          /\ \/ UNCHANGED <<status, count>>
             \/ status' = "ready" /\ count' = FinalCount(w)
      BY <2>10 DEF UpdateReady, Fail, work, seen
    <3>4. QED
      BY <2>7, <2>10, <3>1, <3>2, <3>3, <1>0 DEF UpdateReady, MemberInv
  <2>11. CASE ReleaseLock(w)
    BY <2>11, <1>0 DEF ReleaseLock, Forget, MemberInv, row, seen
  <2>12. QED
    BY <1>4, <2>1, <2>2, <2>3, <2>4, <2>5, <2>6, <2>8, <2>9, <2>10, <2>11 DEF WorkerStep
<1>5. ASSUME NEW w \in Workers, Crash(w) PROVE Goal
  BY <1>5, <1>0 DEF Crash, Forget, MemberInv, row, seen
<1>6. CASE ExpireLock
  BY <1>6 DEF ExpireLock, MemberInv, row, slots, work
<1>7. QED
  BY <1>1, <1>2, <1>3, <1>4, <1>5, <1>6 DEF Next

\* The member count shown for a ready segment is the number of its members, for
\* any number of contacts, refreshes, retries and crashes, unless a lock expired
\* under a running refresh: a difference applied by half is never shown as ready.
THEOREM ReadyCount == Spec => []ReadyCountsMembers
<1>1. MemberInv => ReadyCountsMembers
  BY DEF MemberInv, ReadyCountsMembers
<1>2. QED
  BY <1>1, InitTypeInv, TypeInvInductive, InitLock, LockInductive, InitMember,
     MemberInductive, PTL DEF Spec

-----------------------------------------------------------------------------
(* The last definition wins.                                                *)

\* A delivery before it has read the filter, and one that works with what it read.
Fetching(w) == pc[w] \in {"acquire", "load"}
Working(w)  == pc[w] \in {"mark", "eval", "read", "insert", "delete", "ready"}
InWork(w)   == Fetching(w) \/ Working(w)

\* While nothing is disturbed, a message is published once and out with one delivery.
HandInv ==
    disturbances = 0 =>
        /\ ~overlapped
        /\ \A w \in Workers : InWork(w) => msg[job[w]].st = "out"
        /\ \A v, w \in Workers : InWork(v) /\ InWork(w) /\ job[v] = job[w] => v = w
        /\ \A r \in Requests : call[r] # "done" => msg[r].st = "none"

LEMMA DisturbanceCounts ==
    ASSUME TypeInv
    PROVE  /\ disturbances \in Nat /\ changes \in Nat
           /\ Disturb => disturbances' # 0
           /\ Undisturbed => disturbances' = disturbances
BY ConstantsAssumption DEF ConstantsAssumption, TypeInv, SeenType, Disturb, Undisturbed

\* No step takes a disturbance or a change back.
LEMMA CountsStay ==
    ASSUME TypeInv, [Next]_vars
    PROVE  /\ disturbances' = disturbances \/ disturbances' # 0
           /\ changes' = changes \/ changes' # 0
           /\ disturbances' = 0 => UNCHANGED overlapped
<1> USE DisturbanceCounts
<1>1. CASE UNCHANGED vars
  BY <1>1 DEF vars
<1>2. CASE \E r \in Requests : Request(r) \/ Enqueue(r) \/ ExpireAckWait(r)
  BY <1>2 DEF Request, Enqueue, ExpireAckWait, seen
<1>3. CASE \E c \in Contacts : ContactChange(c)
  BY <1>3 DEF ContactChange, seen
<1>4. ASSUME NEW w \in Workers, WorkerStep(w) \/ Crash(w)
      PROVE  disturbances' = disturbances \/ disturbances' # 0
  <2>1. CASE Crash(w) \/ \E r \in Requests : Receive(w, r)
    BY <2>1 DEF Crash, Receive
  <2>2. CASE AcquireLock(w) \/ LoadSegment(w) \/ MarkProcessing(w) \/ Evaluate(w) \/ ReadMembers(w)
    BY <2>2 DEF AcquireLock, LoadSegment, MarkProcessing, Evaluate, ReadMembers
  <2>3. CASE InsertMembers(w) \/ DeleteMembers(w) \/ UpdateReady(w) \/ ReleaseLock(w)
    BY <2>3 DEF InsertMembers, DeleteMembers, UpdateReady, ReleaseLock
  <2> QED BY <1>4, <2>1, <2>2, <2>3 DEF WorkerStep
<1>5. ASSUME NEW w \in Workers, WorkerStep(w) \/ Crash(w) PROVE UNCHANGED <<changes, overlapped>>
  BY <1>5 DEF WorkerStep, Crash, Receive, AcquireLock, LoadSegment, MarkProcessing, Evaluate,
     ReadMembers, InsertMembers, DeleteMembers, UpdateReady, ReleaseLock, seen
<1>6. CASE ExpireLock
  BY <1>6 DEF ExpireLock
<1> QED BY <1>1, <1>2, <1>3, <1>4, <1>5, <1>6 DEF Next

LEMMA HandInit == Init => HandInv
BY DEF Init, HandInv, InWork, Fetching, Working

\* A delivery at work goes on, or gives its message back and releases.
LEMMA HandGoesOn ==
    ASSUME TypeInv, HandInv, disturbances = 0, NEW w \in Workers, InWork(w),
           UNCHANGED <<job, call, overlapped>>,
           \A v \in Workers \ {w} : pc'[v] = pc[v],
           \/ UNCHANGED msg
           \/ pc'[w] = "release" /\ \A r \in Requests \ {job[w]} : msg'[r] = msg[r]
    PROVE  HandInv'
<1>1. /\ ~overlapped
      /\ \A v \in Workers : InWork(v) => job[v] \in Requests /\ msg[job[v]].st = "out"
      /\ \A u, v \in Workers : InWork(u) /\ InWork(v) /\ job[u] = job[v] => u = v
      /\ \A r \in Requests : call[r] # "done" => msg[r].st = "none"
  BY DEF HandInv, TypeInv, SlotInv, InWork, Fetching, Working
<1>2. \A v \in Workers : InWork(v)' => InWork(v)
  BY DEF InWork, Fetching, Working
<1>3. CASE UNCHANGED msg
  BY <1>1, <1>2, <1>3 DEF HandInv
<1>4. CASE pc'[w] = "release" /\ \A r \in Requests \ {job[w]} : msg'[r] = msg[r]
  <2>1. \A v \in Workers : InWork(v)' => v # w /\ job[v] # job[w]
    BY <1>1, <1>2, <1>4 DEF InWork, Fetching, Working
  <2>2. call[job[w]] = "done"
    BY <1>1
  <2> QED BY <1>1, <1>2, <1>4, <2>1, <2>2 DEF HandInv
<1> QED BY <1>3, <1>4

LEMMA NakElsewhere ==
    ASSUME TypeInv, NEW w \in Workers, pc[w] # "idle", Nak(w) \/ msg' = Settle(msg, job[w])
    PROVE  \A r \in Requests \ {job[w]} : msg'[r] = msg[r]
BY DEF TypeInv, QueueInv, SlotInv, Nak, Settle, Requeue

LEMMA HandInductive == TypeInv /\ HandInv /\ [Next]_vars => HandInv'
<1> SUFFICES ASSUME TypeInv, HandInv, [Next]_vars, disturbances' = 0 PROVE HandInv'
  BY DEF HandInv
<1>0. disturbances = 0 /\ UNCHANGED overlapped
  BY CountsStay
<1>t. /\ pc \in [Workers -> Labels] /\ job \in [Workers -> Requests \cup {NoJob}]
      /\ call \in [Requests -> {"new", "publish", "done"}] /\ msg \in [Requests -> Messages]
      /\ \A w \in Workers : pc[w] # "idle" => job[w] \in Requests
  BY DEF TypeInv, SlotInv, CallType, QueueInv
<1>i. /\ ~overlapped
      /\ \A v \in Workers : InWork(v) => job[v] \in Requests /\ msg[job[v]].st = "out"
      /\ \A u, v \in Workers : InWork(u) /\ InWork(v) /\ job[u] = job[v] => u = v
      /\ \A r \in Requests : call[r] # "done" => msg[r].st = "none"
  BY <1>0, <1>t DEF HandInv, InWork, Fetching, Working
<1> USE DisturbanceCounts
<1>1. CASE UNCHANGED <<pc, job, msg, call>>
  BY <1>0, <1>i, <1>1 DEF HandInv, InWork, Fetching, Working
<1>2. ASSUME NEW r \in Requests, Request(r) PROVE HandInv'
  <2>1. UNCHANGED <<pc, job, msg>> /\ call[r] = "new" /\ call' = [call EXCEPT ![r] = "publish"]
    BY <1>2 DEF Request, slots
  <2> QED BY <1>0, <1>t, <1>i, <2>1 DEF HandInv, InWork, Fetching, Working
<1>3. ASSUME NEW r \in Requests, Enqueue(r) PROVE HandInv'
  <2>1. /\ UNCHANGED <<pc, job>> /\ call[r] = "publish" /\ call' = [call EXCEPT ![r] = "done"]
        /\ msg' = NewMsg(msg, r) /\ msg[r].st = "none"
    BY <1>0, <1>i, <1>3 DEF Enqueue, slots
  <2>2. \A q \in Requests \ {r} : msg'[q] = msg[q]
    BY <1>t, <2>1 DEF NewMsg
  <2>3. \A v \in Workers : InWork(v)' <=> InWork(v)
    BY <2>1 DEF InWork, Fetching, Working
  <2>4. \A v \in Workers : InWork(v) => job[v] # r
    BY <1>i, <2>1
  <2>5. \A q \in Requests : call'[q] # "done" => q # r /\ call[q] # "done"
    BY <1>t, <2>1
  <2> QED BY <1>0, <1>i, <2>1, <2>2, <2>3, <2>4, <2>5 DEF HandInv
<1>4. ASSUME NEW r \in Requests, ExpireAckWait(r) PROVE HandInv'
  <2>1. UNCHANGED <<pc, job, call>> /\ msg[r].st = "out" /\ msg' = Requeue(msg, r) /\ ~InHand(r)
    BY <1>0, <1>4 DEF ExpireAckWait, CanRedeliver, slots
  <2>2. \A q \in Requests \ {r} : msg'[q] = msg[q]
    BY <1>t, <2>1 DEF Requeue
  <2>3. \A v \in Workers : InWork(v)' <=> InWork(v)
    BY <2>1 DEF InWork, Fetching, Working
  <2>4. \A v \in Workers : InWork(v) => job[v] # r
    BY <2>1 DEF InHand, InWork, Fetching, Working
  <2>5. call[r] = "done"
    BY <1>i, <2>1
  <2> QED BY <1>0, <1>i, <2>1, <2>2, <2>3, <2>4, <2>5 DEF HandInv
<1>5. ASSUME NEW c \in Contacts, ContactChange(c) PROVE HandInv'
  BY <1>1, <1>5 DEF ContactChange, slots
<1>6. CASE ExpireLock
  BY <1>1, <1>6 DEF ExpireLock, slots
<1>7. ASSUME NEW w \in Workers, Crash(w) PROVE HandInv'
  BY <1>0, <1>7 DEF Crash
<1>8. ASSUME NEW w \in Workers, NEW r \in Requests, Receive(w, r) PROVE HandInv'
  <2>1. /\ pc' = [pc EXCEPT ![w] = "acquire"] /\ job' = [job EXCEPT ![w] = r]
        /\ msg[r].st = "ready" /\ msg' = Deliver(msg, r) /\ UNCHANGED call
    BY <1>8 DEF Receive
  <2>2. msg'[r].st = "out" /\ \A q \in Requests \ {r} : msg'[q] = msg[q]
    BY <1>t, <2>1 DEF Deliver
  <2>3. \A v \in Workers \ {w} : (InWork(v)' <=> InWork(v)) /\ job'[v] = job[v]
    BY <1>t, <2>1 DEF InWork, Fetching, Working
  <2>4. job'[w] = r /\ \A v \in Workers : InWork(v) => job[v] # r
    BY <1>t, <1>i, <2>1
  <2>5. call[r] = "done"
    BY <1>i, <2>1
  <2>6. \A v \in Workers : InWork(v)' => msg'[job'[v]].st = "out"
    BY <1>i, <2>2, <2>3, <2>4
  <2>7. \A q \in Requests : call[q] # "done" => msg'[q].st = "none"
    BY <1>i, <2>2, <2>5
  <2>8. \A u, v \in Workers : InWork(u)' /\ InWork(v)' /\ job'[u] = job'[v] => u = v
    BY <1>i, <2>3, <2>4
  <2> QED BY <1>0, <1>i, <2>1, <2>6, <2>7, <2>8 DEF HandInv
<1>9. ASSUME NEW w \in Workers, AcquireLock(w), lock # Free PROVE HandInv'
  <2>1. /\ pc[w] = "acquire" /\ msg' = Settle(msg, job[w]) /\ UNCHANGED call
        /\ pc' = [pc EXCEPT ![w] = "idle"] /\ job' = [job EXCEPT ![w] = NoJob]
    BY <1>0, <1>9 DEF AcquireLock, Forget
  <2>2. InWork(w) /\ job[w] \in Requests
    BY <1>t, <2>1 DEF InWork, Fetching
  <2>3. \A r \in Requests \ {job[w]} : msg'[r] = msg[r]
    BY <1>t, <2>1 DEF Settle
  <2>4. \A v \in Workers : InWork(v)' => v # w /\ InWork(v) /\ job'[v] = job[v] /\ job[v] # job[w]
    BY <1>t, <1>i, <2>1, <2>2 DEF InWork, Fetching, Working
  <2>5. call[job[w]] = "done"
    BY <1>i, <2>2
  <2> QED BY <1>0, <1>i, <2>1, <2>2, <2>3, <2>4, <2>5 DEF HandInv
<1>10. ASSUME NEW w \in Workers, AcquireLock(w), lock = Free PROVE HandInv'
  <2>1. /\ pc[w] = "acquire" /\ UNCHANGED <<msg, call, job>> /\ pc' = [pc EXCEPT ![w] = "load"]
    BY <1>0, <1>10 DEF AcquireLock, GoTo
  <2> QED BY <1>0, <1>t, <2>1, HandGoesOn DEF InWork, Fetching
<1>11. ASSUME NEW w \in Workers,
              \/ LoadSegment(w) \/ MarkProcessing(w) \/ ReadMembers(w) \/ InsertMembers(w) \/ DeleteMembers(w)
       PROVE  HandInv'
  <2>1. UNCHANGED <<msg, call, job>> /\ \A v \in Workers \ {w} : pc'[v] = pc[v]
    BY <1>0, <1>t, <1>11 DEF LoadSegment, MarkProcessing, ReadMembers, InsertMembers, DeleteMembers, GoTo
  <2>2. InWork(w)
    BY <1>11 DEF LoadSegment, MarkProcessing, ReadMembers, InsertMembers, DeleteMembers, InWork, Fetching, Working
  <2> QED BY <1>0, <2>1, <2>2, HandGoesOn
<1>12. ASSUME NEW w \in Workers, Evaluate(w) \/ UpdateReady(w) PROVE HandInv'
  <2>1. InWork(w) /\ pc[w] # "idle"
    BY <1>12 DEF Evaluate, UpdateReady, InWork, Working
  <2>2. UNCHANGED <<call, job>> /\ \A v \in Workers \ {w} : pc'[v] = pc[v]
    BY <1>0, <1>t, <1>12 DEF Evaluate, UpdateReady, Fail, GoTo
  <2>3. UNCHANGED msg \/ (pc'[w] = "release" /\ (Nak(w) \/ msg' = Settle(msg, job[w])))
    BY <1>0, <1>t, <1>12 DEF Evaluate, UpdateReady, Fail, GoTo
  <2> QED BY <1>0, <2>1, <2>2, <2>3, NakElsewhere, HandGoesOn
<1>13. ASSUME NEW w \in Workers, ReleaseLock(w) PROVE HandInv'
  <2>1. /\ pc' = [pc EXCEPT ![w] = "idle"] /\ job' = [job EXCEPT ![w] = NoJob] /\ UNCHANGED <<msg, call>>
    BY <1>13 DEF ReleaseLock, Forget
  <2>2. \A v \in Workers : InWork(v)' => v # w /\ InWork(v) /\ job'[v] = job[v]
    BY <1>t, <2>1 DEF InWork, Fetching, Working
  <2> QED BY <1>0, <1>i, <2>1, <2>2 DEF HandInv
<1>14. CASE UNCHANGED vars
  BY <1>1, <1>14 DEF vars
<1> QED BY <1>2, <1>3, <1>4, <1>5, <1>6, <1>7, <1>8, <1>9, <1>10, <1>11, <1>12, <1>13, <1>14
        DEF Next, WorkerStep

\* While no contact comes or goes, a delivery has matched what its filter describes
\* of the contacts visited so far.
Matched(w) ==
    /\ pc[w] \in {"idle", "acquire", "load", "mark"} => cursor[w] = 0 /\ matched[w] = {}
    /\ Working(w) => matched[w] = loaded[w].who \cap alive \cap (1..cursor[w])
    /\ pc[w] \in {"read", "insert", "delete", "ready"} => cursor[w] = NumContacts
MatchInv == changes = 0 => \A w \in Workers : Matched(w)

LEMMA MatchInit == Init => MatchInv
BY DEF Init, MatchInv, Matched, Working

LEMMA MatchInductive == TypeInv /\ MatchInv /\ [Next]_vars => MatchInv'
<1> SUFFICES ASSUME TypeInv, MatchInv, [Next]_vars, changes' = 0, NEW v \in Workers PROVE Matched(v)'
  BY DEF MatchInv
<1>0. changes = 0 /\ Matched(v)
  BY CountsStay DEF MatchInv
<1>t. /\ pc \in [Workers -> Labels] /\ loaded \in [Workers -> Filters]
      /\ cursor \in [Workers -> 0..NumContacts] /\ matched \in [Workers -> SUBSET Contacts]
      /\ NumContacts \in Nat
  BY ConstantsAssumption DEF ConstantsAssumption, TypeInv, SlotInv, WorkType
<1>1. ASSUME pc'[v] = pc[v], loaded'[v] = loaded[v], cursor'[v] = cursor[v], matched'[v] = matched[v], alive' = alive
      PROVE  Matched(v)'
  BY <1>0, <1>1 DEF Matched, Working
<1>2. ASSUME UNCHANGED <<slots, alive>> PROVE Matched(v)'
  BY <1>1, <1>2 DEF slots, work
<1>3. CASE UNCHANGED vars \/ ExpireLock \/ \E r \in Requests : Request(r) \/ Enqueue(r) \/ ExpireAckWait(r)
  BY <1>2, <1>3 DEF vars, slots, work, ExpireLock, Request, Enqueue, ExpireAckWait
<1>4. CASE \E c \in Contacts : ContactChange(c)
  BY <1>0, <1>4 DEF ContactChange
<1>5. ASSUME NEW w \in Workers, WorkerStep(w) \/ Crash(w), w # v PROVE Matched(v)'
  <2>1. UNCHANGED alive
    BY <1>5 DEF WorkerStep, Crash, Receive, AcquireLock, LoadSegment, MarkProcessing, Evaluate,
       ReadMembers, InsertMembers, DeleteMembers, UpdateReady, ReleaseLock
  <2>2. pc'[v] = pc[v] /\ loaded'[v] = loaded[v] /\ cursor'[v] = cursor[v] /\ matched'[v] = matched[v]
    <3>1. CASE Crash(w) \/ AcquireLock(w) \/ ReleaseLock(w) \/ \E r \in Requests : Receive(w, r)
      BY <1>t, <1>5, <3>1 DEF Crash, AcquireLock, ReleaseLock, Receive, Forget, GoTo, work
    <3>2. CASE LoadSegment(w) \/ MarkProcessing(w) \/ ReadMembers(w)
      BY <1>t, <1>5, <3>2 DEF LoadSegment, MarkProcessing, ReadMembers, Fail, GoTo, work
    <3>3. CASE Evaluate(w)
      BY <1>t, <1>5, <3>3 DEF Evaluate, Fail, GoTo, work
    <3>4. CASE InsertMembers(w) \/ DeleteMembers(w) \/ UpdateReady(w)
      BY <1>t, <1>5, <3>4 DEF InsertMembers, DeleteMembers, UpdateReady, Fail, GoTo, work
    <3> QED BY <1>5, <3>1, <3>2, <3>3, <3>4 DEF WorkerStep
  <2> QED BY <1>1, <2>1, <2>2
<1>6. ASSUME Fail(v) PROVE Matched(v)'
  BY <1>t, <1>6 DEF Fail, GoTo, Matched, Working
<1>7. ASSUME Forget(v) PROVE Matched(v)'
  BY <1>t, <1>7 DEF Forget, Matched, Working
<1>8. CASE Crash(v) \/ ReleaseLock(v)
  BY <1>7, <1>8 DEF Crash, ReleaseLock
<1>9. CASE (\E r \in Requests : Receive(v, r)) \/ AcquireLock(v)
  BY <1>0, <1>t, <1>7, <1>9 DEF Receive, AcquireLock, GoTo, Matched, Working, work
<1>10. CASE LoadSegment(v)
  <2>1. CASE Fail(v)
    BY <1>6, <2>1
  <2>2. CASE /\ pc[v] = "load" /\ pc' = [pc EXCEPT ![v] = "mark"] /\ UNCHANGED <<alive, cursor, matched>>
    BY <1>0, <1>t, <2>2 DEF Matched, Working
  <2> QED BY <1>10, <2>1, <2>2 DEF LoadSegment, GoTo
<1>11. CASE MarkProcessing(v) \/ ReadMembers(v) \/ InsertMembers(v) \/ DeleteMembers(v) \/ UpdateReady(v)
  <2>1. CASE Fail(v)
    BY <1>6, <2>1
  <2>2. ASSUME ~Fail(v)
        PROVE  /\ UNCHANGED <<alive, loaded, cursor, matched>> /\ pc[v] \in {"mark", "read", "insert", "delete", "ready"}
               /\ pc'[v] = CASE pc[v] = "mark" -> "eval" [] pc[v] = "read" -> "insert" [] pc[v] = "insert" -> "delete"
                             [] pc[v] = "delete" -> "ready" [] pc[v] = "ready" -> "release"
    BY <1>t, <1>11, <2>2 DEF MarkProcessing, ReadMembers, InsertMembers, DeleteMembers, UpdateReady, GoTo, work
  <2>3. ASSUME ~Fail(v) PROVE Matched(v)'
    BY <1>0, <2>2, <2>3 DEF Matched, Working
  <2> QED BY <2>1, <2>3
<1>12. CASE Evaluate(v)
  <2>1. CASE Fail(v)
    BY <1>6, <2>1
  <2>2. CASE /\ pc[v] = "eval" /\ cursor[v] = NumContacts /\ pc' = [pc EXCEPT ![v] = "read"]
             /\ UNCHANGED <<alive, loaded, cursor, matched>>
    BY <1>0, <1>t, <2>2 DEF Matched, Working
  <2>3. CASE /\ pc[v] = "eval" /\ cursor[v] < NumContacts /\ cursor' = [cursor EXCEPT ![v] = cursor[v] + 1]
             /\ matched' = IF cursor[v] + 1 \in alive /\ cursor[v] + 1 \in loaded[v].who
                           THEN [matched EXCEPT ![v] = @ \cup {cursor[v] + 1}] ELSE matched
             /\ UNCHANGED <<alive, pc, loaded>>
    <3>1. matched[v] = loaded[v].who \cap alive \cap (1..cursor[v])
      BY <1>0, <2>3 DEF Matched, Working
    <3>2. cursor'[v] = cursor[v] + 1 /\ cursor[v] \in Nat
      BY <1>t, <2>3
    <3>3. matched'[v] = IF cursor[v] + 1 \in alive /\ cursor[v] + 1 \in loaded[v].who
                        THEN matched[v] \cup {cursor[v] + 1} ELSE matched[v]
      BY <1>t, <2>3
    <3>4. 1..(cursor[v] + 1) = (1..cursor[v]) \cup {cursor[v] + 1}
      BY <3>2
    <3>5. matched'[v] = loaded[v].who \cap alive \cap (1..cursor'[v])
      BY <3>1, <3>2, <3>3, <3>4
    <3> QED BY <2>3, <3>5 DEF Matched, Working
  <2> QED BY <1>12, <2>1, <2>2, <2>3 DEF Evaluate, GoTo, work
<1> QED BY <1>3, <1>4, <1>5, <1>8, <1>9, <1>10, <1>11, <1>12 DEF Next, WorkerStep

\* Calm and quiet, whoever is to make the members those of the newest filter is still
\* on the way: a request to be published, its message, a delivery that has not read
\* the filter yet or has read this one.  Otherwise the members are right and nobody
\* is about to change them.
Calm == disturbances = 0 /\ changes = 0 /\ ~skipped
Coming ==
    \/ ~filter.known
    \/ \E r \in Requests : call[r] = "publish" \/ msg[r].st = "ready"
    \/ \E w \in Workers : Fetching(w)
    \/ \E w \in Workers : Working(w) /\ loaded[w] = filter
Done == members = filter.who \cap alive /\ \A w \in Workers : ~Working(w)
FreshInv == Calm => Coming \/ Done

LEMMA FreshInit == Init => FreshInv
BY DEF Init, FreshInv, Done, Working, Describes

\* A step of one delivery leaves it to the others what is coming from them.
LEMMA OthersCome ==
    ASSUME TypeInv, HandInv, disturbances = 0, NEW w \in Workers, InWork(w),
           UNCHANGED <<filter, call>>,
           \A v \in Workers \ {w} : pc'[v] = pc[v] /\ loaded'[v] = loaded[v],
           \A r \in Requests \ {job[w]} : msg'[r] = msg[r]
    PROVE  \/ Coming'
           \/ ~Coming
           \/ Fetching(w) /\ ~Fetching(w)'
           \/ Working(w) /\ loaded[w] = filter /\ ~(Working(w)' /\ loaded'[w] = filter)
<1> SUFFICES ASSUME Coming, ~Coming' PROVE \/ Fetching(w) /\ ~Fetching(w)'
                                           \/ Working(w) /\ loaded[w] = filter /\ ~(Working(w)' /\ loaded'[w] = filter)
  OBVIOUS
<1>1. filter.known /\ (\A r \in Requests : call[r] # "publish")
  BY DEF Coming
<1>2. ASSUME NEW r \in Requests, msg[r].st = "ready" PROVE FALSE
  <2>1. r # job[w]
    BY <1>2 DEF HandInv
  <2> QED BY <1>2, <2>1 DEF Coming
<1>3. ASSUME NEW v \in Workers, Fetching(v) PROVE Fetching(w) /\ ~Fetching(w)'
  BY <1>3 DEF Coming, Fetching
<1>4. ASSUME NEW v \in Workers, Working(v), loaded[v] = filter
      PROVE  Working(w) /\ loaded[w] = filter /\ ~(Working(w)' /\ loaded'[w] = filter)
  BY <1>4 DEF Coming, Working
<1> QED BY <1>1, <1>2, <1>3, <1>4 DEF Coming

LEMMA FreshInductive ==
    TypeInv /\ LockInv /\ MemberInv /\ HandInv /\ MatchInv /\ FreshInv /\ [Next]_vars => FreshInv'
<1> SUFFICES ASSUME TypeInv, LockInv, MemberInv, HandInv, MatchInv, FreshInv, [Next]_vars, Calm'
             PROVE  Coming' \/ Done'
  BY DEF FreshInv
<1> USE DisturbanceCounts
<1>t. /\ pc \in [Workers -> Labels] /\ loaded \in [Workers -> Filters]
      /\ call \in [Requests -> {"new", "publish", "done"}] /\ msg \in [Requests -> Messages]
      /\ \A w \in Workers : pc[w] # "idle" => job[w] \in Requests
  BY DEF TypeInv, SlotInv, CallType, QueueInv, WorkType
<1>0. disturbances = 0 /\ disturbances' = 0 /\ changes = 0 /\ changes' = 0 /\ ~overlapped
  BY CountsStay DEF Calm, HandInv
<1>s. ~skipped
  BY DEF Calm, Next, Request, Enqueue, ExpireAckWait, ContactChange, WorkerStep, Receive, AcquireLock,
     LoadSegment, MarkProcessing, Evaluate, ReadMembers, InsertMembers, DeleteMembers, UpdateReady, ReleaseLock,
     Crash, ExpireLock, seen, vars
<1>f. Coming \/ Done
  BY <1>0, <1>s DEF FreshInv, Calm
<1>1. CASE UNCHANGED <<filter, call, msg, pc, loaded, members, alive>>
  BY <1>f, <1>1 DEF Coming, Done, Fetching, Working
<1>2. CASE UNCHANGED vars \/ ExpireLock
  BY <1>1, <1>2 DEF vars, ExpireLock, row, slots, work
<1>3. ASSUME NEW r \in Requests, Request(r) PROVE Coming'
  BY <1>t, <1>3 DEF Request, Coming
<1>4. ASSUME NEW r \in Requests, Enqueue(r) PROVE Coming'
  BY <1>0, <1>t, <1>4 DEF Enqueue, NewMsg, Coming
<1>5. ASSUME NEW r \in Requests, ExpireAckWait(r) PROVE Coming' \/ Done'
  <2>1. UNCHANGED <<filter, call, pc, loaded, members, alive>> /\ msg' = Requeue(msg, r)
    BY <1>5 DEF ExpireAckWait, row, slots, work
  <2>2. \A q \in Requests : msg[q].st = "ready" => msg'[q].st = "ready"
    BY <1>t, <2>1 DEF Requeue
  <2> QED BY <1>f, <2>1, <2>2 DEF Coming, Done, Fetching, Working
<1>6. ASSUME NEW c \in Contacts, ContactChange(c) PROVE FALSE
  BY <1>0, <1>6 DEF ContactChange
<1>7. ASSUME NEW w \in Workers, Crash(w) PROVE FALSE
  BY <1>0, <1>7 DEF Crash
<1>8. ASSUME NEW w \in Workers, NEW r \in Requests, Receive(w, r) PROVE Coming'
  BY <1>t, <1>8 DEF Receive, Coming, Fetching
<1>9. ASSUME NEW w \in Workers, AcquireLock(w) PROVE Coming'
  BY <1>0, <1>t, <1>9 DEF AcquireLock, GoTo, Coming, Fetching, Calm
<1>10. ASSUME NEW w \in Workers, LoadSegment(w) PROVE Coming'
  <2>1. pc' = [pc EXCEPT ![w] = "mark"] /\ loaded' = [loaded EXCEPT ![w] = filter] /\ UNCHANGED filter
    BY <1>0, <1>10 DEF LoadSegment, GoTo, row
  <2> QED BY <1>t, <2>1 DEF Coming, Working
<1>11. ASSUME NEW w \in Workers, Working(w), UNCHANGED <<filter, call, job, loaded>>,
              \A v \in Workers \ {w} : pc'[v] = pc[v], \A r \in Requests \ {job[w]} : msg'[r] = msg[r]
       PROVE  Coming' \/ (loaded[w] = filter /\ ~Working(w)')
  <2>1. Coming
    BY <1>f, <1>11 DEF Done
  <2>2. ~Fetching(w) /\ InWork(w)
    BY <1>11 DEF Fetching, Working, InWork
  <2> QED BY <1>0, <1>11, <2>1, <2>2, OthersCome
<1>12. ASSUME NEW w \in Workers,
              MarkProcessing(w) \/ ReadMembers(w) \/ InsertMembers(w) \/ DeleteMembers(w)
       PROVE  Coming'
  <2>1. /\ Working(w) /\ Working(w)' /\ UNCHANGED <<filter, call, job, loaded, msg>>
        /\ \A v \in Workers \ {w} : pc'[v] = pc[v]
    BY <1>0, <1>t, <1>12 DEF MarkProcessing, ReadMembers, InsertMembers, DeleteMembers, GoTo, Working, row, work
  <2> QED BY <1>11, <2>1
<1>13. ASSUME NEW w \in Workers, Evaluate(w) PROVE Coming'
  <2>1. /\ Working(w) /\ UNCHANGED <<filter, call, job, loaded>>
        /\ \A v \in Workers \ {w} : pc'[v] = pc[v]
    BY <1>0, <1>t, <1>13 DEF Evaluate, Fail, GoTo, Working, work
  <2>2. UNCHANGED msg \/ Nak(w)
    BY <1>0, <1>13 DEF Evaluate, Fail
  <2>3. \A r \in Requests \ {job[w]} : msg'[r] = msg[r]
    BY <2>1, <2>2, NakElsewhere DEF Working
  <2>4. Working(w)' \/ Rejected(w, cursor[w] + 1)
    BY <1>0, <1>t, <1>13 DEF Evaluate, GoTo, Working
  <2>5. CASE Coming'
    BY <2>5
  <2>6. CASE loaded[w] = filter /\ ~Working(w)'
    BY <2>1, <2>4, <2>6 DEF Rejected, Coming
  <2> QED BY <1>11, <2>1, <2>3, <2>5, <2>6
<1>14. ASSUME NEW w \in Workers, UpdateReady(w) PROVE Coming' \/ Done'
  <2>1. /\ pc[w] = "ready" /\ Working(w) /\ UNCHANGED <<filter, call, job, loaded, members, alive>>
        /\ pc'[w] = "release" /\ \A v \in Workers \ {w} : pc'[v] = pc[v]
    BY <1>0, <1>t, <1>14 DEF UpdateReady, Fail, GoTo, Working, work
  <2>2. msg' = Settle(msg, job[w]) \/ Nak(w)
    BY <1>14 DEF UpdateReady, Fail
  <2>3. \A r \in Requests \ {job[w]} : msg'[r] = msg[r]
    BY <2>1, <2>2, NakElsewhere
  <2>4. members = matched[w]
    BY <1>0, <2>1 DEF MemberInv, Progress
  <2>5. matched[w] = loaded[w].who \cap alive
    <3>1. matched[w] = loaded[w].who \cap alive \cap (1..NumContacts)
      BY <1>0, <2>1 DEF MatchInv, Matched
    <3>2. alive \subseteq 1..NumContacts
      BY DEF TypeInv, TableType, Contacts
    <3> QED BY <3>1, <3>2
  <2>6. \A v \in Workers \ {w} : ~Working(v)
    BY <1>0, <2>1 DEF LockInv, Holds, Refreshing, Working
  <2>7. loaded[w] = filter => Done'
    BY <2>1, <2>4, <2>5, <2>6 DEF Done, Working
  <2> QED BY <1>11, <2>1, <2>3, <2>7
<1>15. ASSUME NEW w \in Workers, ReleaseLock(w) PROVE Coming' \/ Done'
  <2>1. /\ UNCHANGED <<filter, call, msg, members, alive>> /\ pc[w] = "release"
        /\ \A v \in Workers \ {w} : pc'[v] = pc[v] /\ loaded'[v] = loaded[v]
        /\ pc'[w] = "idle"
    BY <1>t, <1>15 DEF ReleaseLock, Forget, row
  <2>2. ~Fetching(w) /\ ~Working(w) /\ ~Working(w)'
    BY <2>1 DEF Fetching, Working
  <2>3. \A v \in Workers \ {w} : (Fetching(v) => Fetching(v)') /\ (Working(v)' <=> Working(v))
    BY <2>1 DEF Fetching, Working
  <2> QED BY <1>f, <2>1, <2>2, <2>3 DEF Coming, Done
<1> QED BY <1>2, <1>3, <1>4, <1>5, <1>6, <1>7, <1>8, <1>9, <1>10, <1>12, <1>13, <1>14, <1>15
        DEF Next, WorkerStep

\* The members of a segment end as the newest filter describes them, for any number
\* of requests, refreshes and contacts: a refresh that still evaluates an older filter
\* is followed by one that reads the newest, unless its message was skipped.
THEOREM NewestFilterWins == Spec => []SettledIsFresh
<1>1. FreshInv => SettledIsFresh
  <2> SUFFICES ASSUME FreshInv, Settled, Calm, filter.known PROVE members = filter.who \cap alive
    BY DEF SettledIsFresh, Calm
  <2>1. ~Coming
    BY DEF Coming, Settled, Fetching, Working
  <2> QED BY <2>1 DEF FreshInv, Done
<1>2. QED
  BY <1>1, InitTypeInv, TypeInvInductive, InitLock, LockInductive, InitMember, MemberInductive,
     HandInit, HandInductive, MatchInit, MatchInductive, FreshInit, FreshInductive, PTL DEF Spec
=============================================================================
