---------------------- MODULE WorkflowExecution_proofs ----------------------
(***************************************************************************)
(* Proofs about WorkflowExecution for any workflows, executions, workers,  *)
(* pollers and numbers of deliveries and disturbances.                     *)
(***************************************************************************)
EXTENDS WorkflowExecution, TLAPS

(* TypeOK by groups of variables, with what makes it inductive: where each *)
(* kind of actor can be, and which node it stands at.                      *)
RowType  == nodes \in Workflows \cup {Garbled} /\ row \in [Execs -> Rows]
WfType   == wf \in {"published", "paused", "archived"}
LockType == /\ lock \in [Execs -> {"free", "trigger", "resume"}]
            /\ pollLock \in {"free", "scheduler"}
MailType == mailed \in [Execs -> [NodeIds -> Nat]]

QueueInv ==
    /\ msg \in [Execs -> Messages]
    /\ \A e \in Execs : msg[e].st = "ready" => msg[e].n < MaxAttempts

WorkerLabels == {"idle", "check", "create", "lock", "node", "advance", "done", "fail", "reject",
                 "nak", "unlock"}
PollerLabels == {"idle", "fetch", "batch", "lockExec", "load", "latest", "resume", "node",
                 "advance", "done", "fail", "unlock", "release"}

\* Where a poller has an execution of its batch in hand.
Resuming == Locked \cup {"lockExec"}

SlotInv ==
    /\ pc \in [Actors -> Labels]
    /\ \A w \in Workers : pc[w] \in WorkerLabels
    /\ \A s \in Pollers : pc[s] \in PollerLabels
    /\ job \in [Actors -> Execs \cup {Nothing}]
    /\ \A w \in Workers : pc[w] # "idle" => job[w] \in Execs
    /\ \A s \in Pollers : pc[s] \in Resuming => job[s] \in Execs
    /\ attempt \in [Workers -> 0..MaxAttempts]
    /\ batch \in [Pollers -> SUBSET Execs]

PosInv ==
    /\ pos \in [Actors -> Nat]
    /\ \A a \in Actors : pc[a] = "node" => nodes # Garbled
    /\ \A a \in Actors : pc[a] \in {"advance", "resume"} => pos[a] \in NodeIds
    /\ \A a \in Actors : pc[a] = "advance" => nodes[pos[a]] = "email"
    /\ \A a \in Actors : pc[a] = "resume" => nodes[pos[a]] = "delay"
    /\ \A e \in Execs : row[e].status = "waiting" =>
          row[e].at \in NodeIds /\ nodes[row[e].at] = "delay"

ServedType == served \in [Execs -> SUBSET NodeIds]
SeenType ==
    /\ overlapped \in [Execs -> BOOLEAN] /\ pollOverlap \in BOOLEAN
    /\ disturbances \in 0..MaxDisturbances /\ changes \in 0..MaxChanges

TypeInv == /\ RowType /\ WfType /\ LockType /\ MailType /\ QueueInv /\ SlotInv /\ PosInv
           /\ ServedType /\ SeenType

(* One run at a time.                                                      *)

\* A worker past the insert of its execution, and a poller that has e in its
\* batch or in hand.
Begun(w)     == pc[w] \in Locked \cup {"lock"}
Taken(s, e)  == e \in batch[s] \/ (pc[s] \in Resuming /\ job[s] = e)
Running(a)   == pc[a] \in {"lock", "node", "advance"}

\* The unique key lets one worker run an execution, once; until that worker is
\* past the first delay no poller looks at it.
OneRun ==
    /\ \A w \in Workers : Begun(w) => row[job[w]].status # "absent"
    /\ \A v, w \in Workers : Begun(v) /\ Begun(w) /\ job[v] = job[w] => v = w
    /\ \A w \in Workers : Running(w) => row[job[w]].status = "running"
    /\ \A w \in Workers, s \in Pollers : Running(w) => ~Taken(s, job[w])
    /\ \A s \in Pollers, e \in Execs : Taken(s, e) => row[e].status # "absent"

\* While its lock never expired under a holder, an execution has one holder,
\* who has the lock.
LockHeld ==
    \A e \in Execs : ~overlapped[e] =>
        /\ \A a \in Actors : Holds(a, e) => lock[e] = LockValue(a)
        /\ \A a, b \in Actors : Holds(a, e) /\ Holds(b, e) => a = b

\* No node from i on was mailed for e.
Unmailed(e, i) == \A k \in NodeIds : k >= i => mailed[e][k] = 0

MailedTo(e) ==
    /\ \A i \in NodeIds : mailed[e][i] <= 1
    /\ row[e].status = "absent" => Unmailed(e, 0)
    /\ row[e].status = "waiting" => Unmailed(e, row[e].at + 1)
    /\ \A w \in Workers : pc[w] = "lock" /\ job[w] = e => Unmailed(e, 0)
    /\ \A a \in Actors : Holds(a, e) =>
          /\ pc[a] \in {"node", "advance"} => row[e].status = "running"
          /\ pc[a] = "node" => Unmailed(e, pos[a])
          /\ pc[a] \in {"advance", "resume"} => Unmailed(e, pos[a] + 1)

MailedBehind == \A e \in Execs : ~overlapped[e] => MailedTo(e)

MailInv == TypeInv /\ OneRun /\ LockHeld /\ MailedBehind

(* Completed means served.                                                 *)

\* What lies before node i of e was dealt with.
Behind(e, i) == \A k \in NodeIds : k < i /\ nodes[k] \in {"email", "delay"} => k \in served[e]

\* One poller polls, under the lock.
OnePoller ==
    /\ \A s \in Pollers : pc[s] # "idle" => pollLock = "scheduler"
    /\ \A s, t \in Pollers : pc[s] # "idle" /\ pc[t] # "idle" => s = t

\* A poller has e in its batch or took it and has not read it again.
Pending(s, e) == e \in batch[s] \/ (pc[s] \in {"lockExec", "load", "latest"} /\ job[s] = e)

\* Such an execution is due if it waits.
TakenIsDue ==
    /\ \A s \in Pollers : pc[s] \in Resuming => job[s] \notin batch[s]
    /\ \A s \in Pollers : pc[s] \in {"idle", "fetch"} => batch[s] = {}
    /\ \A s \in Pollers, e \in Execs :
          Pending(s, e) /\ row[e].status = "waiting" => row[e].due

\* Where an actor stands, and what a row says, what is behind it.
StandsServed(a) ==
    /\ pc[a] = "node" => Behind(job[a], pos[a])
    /\ pc[a] \in {"advance", "resume"} => Behind(job[a], pos[a] + 1)
RowServed(e) ==
    /\ row[e].status = "waiting" => Behind(e, row[e].at) /\ (row[e].due => row[e].at \in served[e])
    /\ Served(e)

ServedBehind == (\A a \in Actors : StandsServed(a)) /\ \A e \in Execs : RowServed(e)

ServedInv == TypeInv /\ OneRun /\ (~pollOverlap => OnePoller /\ TakenIsDue /\ ServedBehind)

-----------------------------------------------------------------------------
(* Types.                                                                   *)

LEMMA TypeInvIsTypeOK == TypeInv => TypeOK
<1> SUFFICES ASSUME TypeInv PROVE TypeOK
  OBVIOUS
<1>1. \A a \in Actors : pc[a] \in Locked => job[a] \in Execs
  BY DEF TypeInv, SlotInv, Actors, Locked, Resuming
<1> QED BY <1>1 DEF TypeInv, TypeOK, RowType, WfType, LockType, MailType, QueueInv, SlotInv, PosInv,
                    ServedType, SeenType

\* A step that leaves a group of variables alone keeps what is said of it.
LEMMA Frame ==
    ASSUME TypeInv, UNCHANGED nodes
    PROVE  /\ UNCHANGED row => RowType'
           /\ UNCHANGED wf => WfType'
           /\ UNCHANGED <<lock, pollLock>> => LockType'
           /\ UNCHANGED mailed => MailType'
           /\ UNCHANGED msg => QueueInv'
           /\ UNCHANGED <<pc, job, attempt, batch>> => SlotInv'
           /\ UNCHANGED <<row, pc, pos>> => PosInv'
           /\ UNCHANGED served => ServedType'
           /\ UNCHANGED <<overlapped, pollOverlap, disturbances, changes>> => SeenType'
<1>1. NodeIds' = NodeIds
  BY DEF NodeIds
<1>2. Rows' = Rows
  BY <1>1 DEF Rows
<1>3. UNCHANGED row => RowType'
  BY <1>2 DEF TypeInv, RowType
<1>4. UNCHANGED mailed => MailType'
  BY <1>1 DEF TypeInv, MailType
<1>5. UNCHANGED <<row, pc, pos>> => PosInv'
  BY <1>1 DEF TypeInv, PosInv
<1>6. UNCHANGED served => ServedType'
  BY <1>1 DEF TypeInv, ServedType
<1>7. /\ UNCHANGED wf => WfType'
      /\ UNCHANGED <<lock, pollLock>> => LockType'
      /\ UNCHANGED msg => QueueInv'
      /\ UNCHANGED <<pc, job, attempt, batch>> => SlotInv'
  BY DEF TypeInv, WfType, LockType, QueueInv, SlotInv
<1>8. UNCHANGED <<overlapped, pollOverlap, disturbances, changes>> => SeenType'
  BY DEF TypeInv, SeenType
<1> QED BY <1>3, <1>4, <1>5, <1>6, <1>7, <1>8

\* Who is who.
LEMMA ActorsOK ==
    /\ \A w \in Workers : w \in Actors /\ w \notin Pollers /\ LockValue(w) = "trigger"
    /\ \A s \in Pollers : s \in Actors /\ s \notin Workers /\ LockValue(s) = "resume"
    /\ Actors = Workers \cup Pollers
BY ConstantsAssumption DEF Actors, LockValue, ConstantsAssumption

\* Node lists are lists of node types, and an end is the last of them.
LEMMA NodesOK ==
    ASSUME RowType, nodes # Garbled
    PROVE  /\ nodes \in Seq(NodeTypes) /\ Len(nodes) \in Nat /\ NodeIds = 1..Len(nodes)
           /\ \A i \in NodeIds : nodes[i] \in NodeTypes /\ (nodes[i] = "end" => i = Len(nodes))
<1>1. nodes \in Workflows /\ nodes \in Seq(NodeTypes)
  BY ConstantsAssumption DEF RowType, ConstantsAssumption
<1> QED BY <1>1, ConstantsAssumption DEF ConstantsAssumption, NodeIds

\* A disturbance stays within its bound.
LEMMA DisturbOK ==
    ASSUME TypeInv, Disturb \/ Undisturbed, UNCHANGED changes,
           overlapped' \in [Execs -> BOOLEAN], pollOverlap' \in BOOLEAN
    PROVE  SeenType'
<1>1. disturbances' \in 0..MaxDisturbances
  BY ConstantsAssumption DEF TypeInv, SeenType, Disturb, Undisturbed, ConstantsAssumption
<1> QED BY <1>1 DEF TypeInv, SeenType

LEMMA NewMsgOK ==
    ASSUME QueueInv, NEW e \in Execs, msg' = NewMsg(msg, e)
    PROVE  QueueInv'
BY ConstantsAssumption DEF ConstantsAssumption, QueueInv, NewMsg, Messages, MsgStatus

LEMMA SettleOK ==
    ASSUME QueueInv, NEW e \in Execs, msg' = Settle(msg, e)
    PROVE  QueueInv'
BY ConstantsAssumption DEF ConstantsAssumption, QueueInv, Settle, Messages, MsgStatus

LEMMA RequeueOK ==
    ASSUME QueueInv, NEW e \in Execs, msg' = Requeue(msg, e)
    PROVE  QueueInv'
BY ConstantsAssumption
   DEF ConstantsAssumption, QueueInv, Requeue, CanRedeliver, Messages, MsgStatus

LEMMA DeliverOK ==
    ASSUME QueueInv, NEW e \in Execs, msg' = Deliver(msg, e), msg[e].st = "ready"
    PROVE  QueueInv' /\ msg[e].n + 1 \in 0..MaxAttempts
BY ConstantsAssumption DEF ConstantsAssumption, QueueInv, Deliver, Messages, MsgStatus

LEMMA NakOK ==
    ASSUME TypeInv, NEW w \in Workers, pc[w] # "idle", Nak(w)
    PROVE  QueueInv'
<1>1. QueueInv /\ job[w] \in Execs
  BY DEF TypeInv, SlotInv
<1>2. CASE attempt[w] >= MaxAttempts
  BY <1>1, <1>2, SettleOK DEF Nak
<1>3. CASE ~(attempt[w] >= MaxAttempts)
  BY <1>1, <1>3, RequeueOK DEF Nak
<1> QED BY <1>2, <1>3

\* An actor goes on to another label that its kind can be at; for the labels at
\* which it stands at a node, the node is the one it stands at.
CanBe(a, l) ==
    /\ l \in Labels /\ l \notin {"node", "advance", "resume"}
    /\ a \in Workers => l \in WorkerLabels /\ (l # "idle" => job[a] \in Execs)
    /\ a \in Pollers => l \in PollerLabels /\ (l \in Resuming => job[a] \in Execs)

LEMMA MoveOK ==
    ASSUME TypeInv, UNCHANGED nodes, NEW a \in Actors, NEW l, CanBe(a, l),
           pc' = [pc EXCEPT ![a] = l], UNCHANGED <<job, attempt>>,
           batch' \in [Pollers -> SUBSET Execs]
    PROVE  /\ SlotInv'
           /\ UNCHANGED <<row, pos>> => PosInv'
<1>0. NodeIds' = NodeIds
  BY DEF NodeIds
<1>1. SlotInv'
  BY DEF TypeInv, SlotInv, CanBe, Actors
<1>2. ASSUME UNCHANGED <<row, pos>> PROVE PosInv'
  BY <1>0, <1>2 DEF TypeInv, SlotInv, PosInv, CanBe
<1> QED BY <1>1, <1>2

LEMMA IdleOK ==
    ASSUME TypeInv, UNCHANGED nodes, NEW a \in Actors, Idle(a)
    PROVE  SlotInv' /\ (UNCHANGED row => PosInv')
<1>0. NodeIds' = NodeIds
  BY DEF NodeIds
<1>1. SlotInv'
  BY ConstantsAssumption, ActorsOK
     DEF ConstantsAssumption, TypeInv, SlotInv, Idle, Labels, WorkerLabels, PollerLabels, Actors,
         Locked, Resuming
<1>2. ASSUME UNCHANGED row PROVE PosInv'
  BY <1>0, <1>2 DEF TypeInv, SlotInv, PosInv, Idle
<1> QED BY <1>1, <1>2

LEMMA InitTypeInv == Init => TypeInv
<1> SUFFICES ASSUME Init PROVE TypeInv
  OBVIOUS
<1> USE ConstantsAssumption DEF ConstantsAssumption, Init
<1>1. RowType /\ WfType /\ LockType
  BY DEF RowType, WfType, LockType, Rows
<1>2. MailType /\ ServedType
  BY DEF MailType, ServedType
<1>3. QueueInv
  BY DEF QueueInv, Messages, MsgStatus
<1>4. SlotInv
  BY ActorsOK DEF SlotInv, Labels, WorkerLabels, PollerLabels, Locked, Resuming
<1>5. PosInv
  BY DEF PosInv
<1>6. SeenType
  <2>1. overlapped \in [Execs -> BOOLEAN] /\ pollOverlap \in BOOLEAN
    BY Zenon
  <2>2. disturbances \in 0..MaxDisturbances /\ changes \in 0..MaxChanges
    OBVIOUS
  <2> QED BY <2>1, <2>2 DEF SeenType
<1> QED BY <1>1, <1>2, <1>3, <1>4, <1>5, <1>6 DEF TypeInv

(* The writes of the executor.                                              *)

\* A write that creates, completes or fails an execution.
LEMMA PlainRowsOK ==
    ASSUME TypeInv, UNCHANGED nodes, NEW e \in Execs,
           row' \in {row, Created(e), CompleteExecution(e), [row EXCEPT ![e].status = "failed"]}
    PROVE  /\ RowType'
           /\ \A f \in Execs : row'[f].status = "waiting" => row'[f] = row[f]
<1>1. NodeIds' = NodeIds /\ Rows' = Rows
  BY DEF NodeIds, Rows
<1>2. row \in [Execs -> Rows] /\ nodes \in Workflows \cup {Garbled}
  BY DEF TypeInv, RowType
<1> USE DEF Rows, Created, CompleteExecution
<1>3. RowType'
  BY <1>1, <1>2 DEF RowType
<1>4. ASSUME NEW f \in Execs, row'[f].status = "waiting" PROVE row'[f] = row[f]
  BY <1>2, <1>4
<1> QED BY <1>3, <1>4

\* A write that moves an execution to a node.
LEMMA NodeRowsOK ==
    ASSUME TypeInv, UNCHANGED nodes, NEW e \in Execs, NEW i \in NodeIds,
           \/ row' = AdvanceExecution(e, i)
           \/ row' = ScheduleDelay(e, i) /\ nodes[i] = "delay"
    PROVE  /\ RowType'
           /\ \A f \in Execs : row'[f].status = "waiting" =>
                 row'[f] = row[f] \/ (row'[f].at = i /\ nodes[i] = "delay")
<1>1. NodeIds' = NodeIds /\ Rows' = Rows
  BY DEF NodeIds, Rows
<1>2. row \in [Execs -> Rows] /\ nodes \in Workflows \cup {Garbled}
  BY DEF TypeInv, RowType
<1> USE DEF Rows, AdvanceExecution, ScheduleDelay
<1>3. row' \in [Execs -> Rows]
  <2>1. [status |-> "waiting", at |-> i, due |-> FALSE] \in Rows
    OBVIOUS
  <2>2. CASE row' = ScheduleDelay(e, i)
    BY <1>2, <2>1, <2>2
  <2>3. CASE row' = AdvanceExecution(e, i)
    BY <1>2, <2>3
  <2> QED BY <2>2, <2>3
<1>4. ASSUME NEW f \in Execs, row'[f].status = "waiting"
      PROVE  row'[f] = row[f] \/ (row'[f].at = i /\ nodes[i] = "delay")
  BY <1>2, <1>4
<1>5. RowType'
  BY <1>1, <1>2, <1>3 DEF RowType
<1> QED BY <1>4, <1>5

(* One lemma per action: it keeps the types.                                *)

\* A step that writes to none of the tables.
LEMMA QuietOK ==
    ASSUME TypeInv, UNCHANGED <<db, mailed, served>>,
           SlotInv', PosInv', LockType', QueueInv', SeenType'
    PROVE  TypeInv'
BY Frame DEF db, TypeInv

LEMMA ChangeStatusOK == ASSUME TypeInv, ChangeStatus PROVE TypeInv'
<1>1. UNCHANGED <<nodes, row, lock, pollLock, msg, mailed, pc, job, pos, attempt, batch, served>>
  BY DEF ChangeStatus, slots, seen
<1>2. WfType'
  BY DEF ChangeStatus, WfType
<1>3. changes' \in 0..MaxChanges
  BY ConstantsAssumption DEF ConstantsAssumption, ChangeStatus, TypeInv, SeenType
<1>4. SeenType'
  BY <1>3 DEF ChangeStatus, TypeInv, SeenType, seen
<1> QED BY <1>1, <1>2, <1>4, Frame DEF TypeInv

LEMMA PublishTriggerOK ==
    ASSUME TypeInv, NEW e \in Execs, PublishTrigger(e) PROVE TypeInv'
<1>1. UNCHANGED db /\ UNCHANGED <<lock, pollLock, mailed, slots, seen, disturbances, changes>>
  BY DEF PublishTrigger
<1>2. QueueInv'
  BY NewMsgOK DEF PublishTrigger, TypeInv
<1> QED BY <1>1, <1>2, Frame, QuietOK DEF db, slots, seen

LEMMA ReceiveOK ==
    ASSUME TypeInv, NEW w \in Workers, NEW e \in Execs, Receive(w, e) PROVE TypeInv'
<1>1. /\ UNCHANGED db /\ UNCHANGED <<lock, pollLock, mailed, pos, batch, seen, disturbances, changes>>
      /\ pc' = [pc EXCEPT ![w] = "check"] /\ job' = [job EXCEPT ![w] = e]
      /\ attempt' = [attempt EXCEPT ![w] = msg[e].n + 1]
  BY DEF Receive
<1>2. QueueInv' /\ msg[e].n + 1 \in 0..MaxAttempts
  BY DeliverOK DEF Receive, TypeInv
<1>3. SlotInv'
  BY <1>1, <1>2, ActorsOK DEF TypeInv, SlotInv, Labels, WorkerLabels, PollerLabels, Actors, Resuming, Locked
<1>4. PosInv'
  BY <1>1 DEF TypeInv, SlotInv, PosInv, NodeIds, db
<1> QED BY <1>1, <1>2, <1>3, <1>4, Frame, QuietOK DEF db, seen

LEMMA CheckTriggerOK ==
    ASSUME TypeInv, NEW w \in Workers, CheckTrigger(w) PROVE TypeInv'
<1>1. /\ UNCHANGED db /\ UNCHANGED <<lock, pollLock, mailed, seen, changes>> /\ pc[w] = "check"
      /\ w \in Actors /\ w \notin Pollers /\ job[w] \in Execs
  BY ActorsOK DEF CheckTrigger, TypeInv, SlotInv
<1>2. SeenType'
  BY <1>1, DisturbOK DEF CheckTrigger, seen, TypeInv, SeenType
<1>3. CASE GoTo(w, "create") /\ UNCHANGED msg
  <2>1. CanBe(w, "create")
    BY <1>1 DEF CanBe, Labels, WorkerLabels
  <2> QED BY <1>1, <1>2, <1>3, <2>1, MoveOK, Frame, QuietOK DEF GoTo, db, seen, TypeInv, SlotInv
<1>4. CASE Idle(w) /\ (msg' = Settle(msg, job[w]) \/ Nak(w))
  <2>1. QueueInv'
    BY <1>1, <1>4, SettleOK, NakOK DEF TypeInv
  <2> QED BY <1>1, <1>2, <1>4, <2>1, IdleOK, Frame, QuietOK DEF db, seen
<1> QED BY <1>3, <1>4 DEF CheckTrigger

LEMMA AcquireLockOK ==
    ASSUME TypeInv, NEW w \in Workers, AcquireLock(w) PROVE TypeInv'
<1>1. /\ UNCHANGED db /\ UNCHANGED <<pollLock, mailed, seen, changes>> /\ pc[w] = "lock"
      /\ w \in Actors /\ w \notin Pollers /\ job[w] \in Execs
  BY ActorsOK DEF AcquireLock, TypeInv, SlotInv
<1>2. SeenType'
  BY <1>1, DisturbOK DEF AcquireLock, seen, TypeInv, SeenType
<1>3. LockType'
  BY <1>1 DEF AcquireLock, TypeInv, LockType
<1>4. CASE /\ pc' = [pc EXCEPT ![w] = IF nodes = Garbled THEN "reject" ELSE "node"]
           /\ pos' = [pos EXCEPT ![w] = 1] /\ UNCHANGED <<msg, job, attempt, batch>>
  <2>1. SlotInv'
    BY <1>1, <1>4 DEF TypeInv, SlotInv, Labels, Locked, WorkerLabels, Actors
  <2>2. PosInv'
    BY <1>1, <1>4 DEF TypeInv, SlotInv, PosInv, NodeIds, db
  <2> QED BY <1>1, <1>2, <1>3, <1>4, <2>1, <2>2, Frame, QuietOK DEF db, seen
<1>5. CASE Idle(w) /\ Nak(w)
  <2>1. QueueInv'
    BY <1>1, <1>5, NakOK
  <2> QED BY <1>1, <1>2, <1>3, <1>5, <2>1, IdleOK, QuietOK DEF db, seen
<1> QED BY <1>4, <1>5 DEF AcquireLock

LEMMA SettleTriggerOK ==
    ASSUME TypeInv, NEW w \in Workers, SettleTrigger(w) PROVE TypeInv'
<1>1. /\ UNCHANGED db /\ UNCHANGED <<lock, pollLock, mailed, seen, disturbances, changes>>
      /\ pc[w] \in {"done", "nak"} /\ w \in Actors /\ w \notin Pollers /\ job[w] \in Execs
      /\ GoTo(w, "unlock")
  BY ActorsOK DEF SettleTrigger, TypeInv, SlotInv
<1>2. QueueInv'
  BY <1>1, SettleOK, NakOK DEF SettleTrigger, TypeInv
<1>3. CanBe(w, "unlock")
  BY <1>1 DEF CanBe, Labels, Locked, WorkerLabels
<1> QED BY <1>1, <1>2, <1>3, MoveOK, Frame, QuietOK DEF GoTo, db, seen, TypeInv, SlotInv

LEMMA BadNodeOK == ASSUME TypeInv, NEW a \in Actors, BadNode(a) PROVE TypeInv'
<1>1. /\ UNCHANGED db /\ UNCHANGED <<lock, pollLock, msg, mailed, seen, disturbances, changes>>
      /\ pc[a] = "node" /\ GoTo(a, "fail")
  BY DEF BadNode
<1>2. CanBe(a, "fail")
  BY <1>1, ActorsOK DEF CanBe, Labels, Locked, WorkerLabels, PollerLabels, Resuming, TypeInv, SlotInv
<1> QED BY <1>1, <1>2, MoveOK, Frame, QuietOK DEF GoTo, db, seen, TypeInv, SlotInv

LEMMA ReleaseLockOK == ASSUME TypeInv, NEW a \in Actors, ReleaseLock(a) PROVE TypeInv'
<1>1. /\ UNCHANGED db /\ UNCHANGED <<pollLock, msg, mailed, seen, changes>>
      /\ pc[a] \in {"done", "unlock"} /\ job[a] \in Execs
  BY ActorsOK DEF ReleaseLock, TypeInv, SlotInv, Actors, Resuming, Locked
<1>2. SeenType'
  BY <1>1, DisturbOK DEF ReleaseLock, seen, TypeInv, SeenType
<1>3. LockType'
  BY <1>1 DEF ReleaseLock, TypeInv, LockType
<1>4. CASE Idle(a)
  BY <1>1, <1>2, <1>3, <1>4, IdleOK, Frame, QuietOK DEF db, seen
<1>5. CASE GoTo(a, "batch") /\ a \notin Workers
  <2>1. CanBe(a, "batch")
    BY <1>1, <1>5 DEF CanBe, Labels, PollerLabels
  <2> QED BY <1>1, <1>2, <1>3, <1>5, <2>1, MoveOK, Frame, QuietOK DEF GoTo, db, seen, TypeInv, SlotInv
<1> QED BY <1>4, <1>5 DEF ReleaseLock

LEMMA PollOK == ASSUME TypeInv, NEW s \in Pollers, Poll(s) PROVE TypeInv'
<1>1. /\ UNCHANGED db /\ UNCHANGED <<lock, msg, mailed, seen, changes>> /\ pc[s] = "idle"
      /\ pollLock' = "scheduler" /\ s \in Actors /\ s \notin Workers
  BY ActorsOK DEF Poll
<1>2. SeenType'
  BY <1>1, DisturbOK DEF Poll, seen, TypeInv, SeenType
<1>3. LockType'
  BY <1>1 DEF TypeInv, LockType
<1>4. CASE GoTo(s, "fetch")
  <2>1. CanBe(s, "fetch")
    BY <1>1 DEF CanBe, Labels, Locked, PollerLabels, Resuming
  <2> QED BY <1>1, <1>2, <1>3, <1>4, <2>1, MoveOK, Frame, QuietOK DEF GoTo, db, seen, TypeInv, SlotInv
<1>5. CASE UNCHANGED slots
  BY <1>1, <1>2, <1>3, <1>5, Frame, QuietOK DEF db, seen, slots
<1> QED BY <1>4, <1>5 DEF Poll

LEMMA FetchDueOK == ASSUME TypeInv, NEW s \in Pollers, FetchDue(s) PROVE TypeInv'
<1>1. /\ UNCHANGED db /\ UNCHANGED <<lock, pollLock, msg, mailed, job, pos, attempt, seen, changes>>
      /\ pc[s] = "fetch" /\ s \in Actors /\ s \notin Workers /\ pc' = [pc EXCEPT ![s] = "batch"]
  BY ActorsOK DEF FetchDue
<1>2. SeenType'
  BY <1>1, DisturbOK DEF FetchDue, seen, TypeInv, SeenType
<1>3. batch' \in [Pollers -> SUBSET Execs]
  BY DEF FetchDue, TypeInv, SlotInv
<1>4. CanBe(s, "batch")
  BY <1>1 DEF CanBe, Labels, Locked, PollerLabels, Resuming
<1> QED BY <1>1, <1>2, <1>3, <1>4, MoveOK, Frame, QuietOK DEF db, seen

LEMMA NextExecutionOK == ASSUME TypeInv, NEW s \in Pollers, NextExecution(s) PROVE TypeInv'
<1>1. /\ UNCHANGED db /\ UNCHANGED <<lock, pollLock, msg, mailed, seen, disturbances, changes>>
      /\ pc[s] = "batch" /\ s \in Actors /\ s \notin Workers
  BY ActorsOK DEF NextExecution
<1>2. CASE GoTo(s, "release")
  <2>1. CanBe(s, "release")
    BY <1>1 DEF CanBe, Labels, Locked, PollerLabels, Resuming
  <2> QED BY <1>1, <1>2, <2>1, MoveOK, Frame, QuietOK DEF GoTo, db, seen, TypeInv, SlotInv
<1>3. ASSUME NEW e \in batch[s], batch' = [batch EXCEPT ![s] = @ \ {e}],
             job' = [job EXCEPT ![s] = e], pc' = [pc EXCEPT ![s] = "lockExec"],
             UNCHANGED <<pos, attempt>>
      PROVE  TypeInv'
  <2>1. e \in Execs /\ batch' \in [Pollers -> SUBSET Execs]
    BY <1>3 DEF TypeInv, SlotInv
  <2>2. SlotInv'
    BY <1>1, <1>3, <2>1 DEF TypeInv, SlotInv, Labels, PollerLabels, Actors
  <2>3. PosInv'
    BY <1>1, <1>3 DEF TypeInv, SlotInv, PosInv, NodeIds, db
  <2> QED BY <1>1, <2>2, <2>3, Frame, QuietOK DEF db, seen
<1> QED BY <1>2, <1>3 DEF NextExecution

LEMMA LockExecutionOK == ASSUME TypeInv, NEW s \in Pollers, LockExecution(s) PROVE TypeInv'
<1>1. /\ UNCHANGED db /\ UNCHANGED <<pollLock, msg, mailed, seen, changes>>
      /\ pc[s] = "lockExec" /\ s \in Actors /\ s \notin Workers /\ job[s] \in Execs
  BY ActorsOK DEF LockExecution, TypeInv, SlotInv, Resuming
<1>2. SeenType'
  BY <1>1, DisturbOK DEF LockExecution, seen, TypeInv, SeenType
<1>3. LockType'
  BY <1>1 DEF LockExecution, TypeInv, LockType
<1>4. CanBe(s, "load") /\ CanBe(s, "batch")
  BY <1>1 DEF CanBe, Labels, Locked, PollerLabels, Resuming
<1>5. GoTo(s, "load") \/ GoTo(s, "batch")
  BY DEF LockExecution
<1>6. SlotInv' /\ PosInv'
  BY <1>1, <1>4, <1>5, MoveOK DEF GoTo, db, TypeInv, SlotInv
<1> QED BY <1>1, <1>2, <1>3, <1>6, Frame, QuietOK DEF db, seen

LEMMA LoadForResumeOK == ASSUME TypeInv, NEW s \in Pollers, LoadForResume(s) PROVE TypeInv'
<1>1. /\ UNCHANGED db /\ UNCHANGED <<lock, pollLock, msg, mailed, seen, changes>>
      /\ pc[s] = "load" /\ s \in Actors /\ s \notin Workers /\ job[s] \in Execs
  BY ActorsOK DEF LoadForResume, TypeInv, SlotInv, Resuming, Locked
<1>2. SeenType'
  BY <1>1, DisturbOK DEF LoadForResume, seen, TypeInv, SeenType
<1>4. CanBe(s, "latest") /\ CanBe(s, "fail")
  BY <1>1 DEF CanBe, Labels, Locked, PollerLabels, Resuming
<1>5. GoTo(s, "latest") \/ GoTo(s, "fail")
  BY DEF LoadForResume
<1>6. SlotInv' /\ PosInv'
  BY <1>1, <1>4, <1>5, MoveOK DEF GoTo, db, TypeInv, SlotInv
<1> QED BY <1>1, <1>2, <1>6, Frame, QuietOK DEF db, seen

LEMMA GetLatestOK == ASSUME TypeInv, NEW s \in Pollers, GetLatest(s) PROVE TypeInv'
<1>1. /\ UNCHANGED db /\ UNCHANGED <<lock, pollLock, msg, mailed, seen, changes>>
      /\ pc[s] = "latest" /\ s \in Actors /\ s \notin Workers /\ job[s] \in Execs
  BY ActorsOK DEF GetLatest, TypeInv, SlotInv, Resuming, Locked
<1>2. SeenType'
  BY <1>1, DisturbOK DEF GetLatest, seen, TypeInv, SeenType
<1>3. CASE GoTo(s, "unlock")
  <2>1. CanBe(s, "unlock")
    BY <1>1 DEF CanBe, Labels, Locked, PollerLabels, Resuming
  <2> QED BY <1>1, <1>2, <1>3, <2>1, MoveOK, Frame, QuietOK DEF GoTo, db, seen, TypeInv, SlotInv
<1>4. CASE /\ row[job[s]].status = "waiting" /\ pc' = [pc EXCEPT ![s] = "resume"]
           /\ pos' = [pos EXCEPT ![s] = row[job[s]].at] /\ UNCHANGED <<job, attempt, batch>>
  <2>1. SlotInv'
    BY <1>1, <1>4 DEF TypeInv, SlotInv, Labels, Locked, PollerLabels, Actors
  <2>2. row[job[s]].at \in NodeIds /\ nodes[row[job[s]].at] = "delay" /\ nodes # Garbled
    BY <1>1, <1>4 DEF TypeInv, PosInv, NodeIds
  <2>3. row[job[s]].at \in Nat
    BY <2>2, NodesOK DEF TypeInv
  <2>4. PosInv'
    BY <1>1, <1>4, <2>2, <2>3 DEF TypeInv, SlotInv, PosInv, NodeIds, db
  <2> QED BY <1>1, <1>2, <1>4, <2>1, <2>4, Frame, QuietOK DEF db, seen
<1> QED BY <1>3, <1>4 DEF GetLatest

LEMMA ReleasePollLockOK == ASSUME TypeInv, NEW s \in Pollers, ReleasePollLock(s) PROVE TypeInv'
<1>1. /\ UNCHANGED db /\ UNCHANGED <<lock, msg, mailed, seen, changes>> /\ Idle(s) /\ s \in Actors
  BY ActorsOK DEF ReleasePollLock
<1>2. SeenType'
  BY <1>1, DisturbOK DEF ReleasePollLock, seen, TypeInv, SeenType
<1>3. LockType'
  BY <1>1 DEF ReleasePollLock, TypeInv, LockType
<1> QED BY <1>1, <1>2, <1>3, IdleOK, Frame, QuietOK DEF db, seen

LEMMA CrashOK == ASSUME TypeInv, NEW a \in Actors, Crash(a) PROVE TypeInv'
<1>1. /\ UNCHANGED db /\ UNCHANGED <<lock, pollLock, msg, mailed, seen, changes>> /\ Idle(a)
  BY DEF Crash
<1>2. SeenType'
  BY <1>1, DisturbOK DEF Crash, seen, TypeInv, SeenType
<1> QED BY <1>1, <1>2, IdleOK, Frame, QuietOK DEF db, seen

LEMMA TimeoutOK == ASSUME TypeInv, NEW w \in Workers, Timeout(w) PROVE TypeInv'
<1>1. /\ UNCHANGED db /\ UNCHANGED <<lock, pollLock, mailed, seen, changes>> /\ Idle(w) /\ w \in Actors
  BY ActorsOK DEF Timeout
<1>2. SeenType'
  BY <1>1, DisturbOK DEF Timeout, seen, TypeInv, SeenType
<1>3. QueueInv'
  BY NakOK DEF Timeout
<1> QED BY <1>1, <1>2, <1>3, IdleOK, Frame, QuietOK DEF db, seen

LEMMA ExpireAckWaitOK == ASSUME TypeInv, NEW e \in Execs, ExpireAckWait(e) PROVE TypeInv'
<1>1. UNCHANGED db /\ UNCHANGED <<lock, pollLock, mailed, slots, seen, changes>>
  BY DEF ExpireAckWait
<1>2. SeenType'
  BY <1>1, DisturbOK DEF ExpireAckWait, seen, TypeInv, SeenType
<1>3. QueueInv'
  BY RequeueOK DEF ExpireAckWait, TypeInv
<1> QED BY <1>1, <1>2, <1>3, Frame, QuietOK DEF db, seen, slots

LEMMA ExpireLockOK == ASSUME TypeInv, NEW e \in Execs, ExpireLock(e) PROVE TypeInv'
<1>1. UNCHANGED db /\ UNCHANGED <<pollLock, msg, mailed, slots, served, pollOverlap, changes>>
  BY DEF ExpireLock
<1>2. overlapped' \in [Execs -> BOOLEAN]
  BY Zenon DEF ExpireLock, TypeInv, SeenType
<1>3. SeenType'
  BY <1>1, <1>2, DisturbOK DEF ExpireLock, TypeInv, SeenType
<1>4. LockType'
  BY <1>1 DEF ExpireLock, TypeInv, LockType
<1> QED BY <1>1, <1>3, <1>4, Frame, QuietOK DEF db, slots

LEMMA ExpirePollLockOK == ASSUME TypeInv, ExpirePollLock PROVE TypeInv'
<1>1. UNCHANGED db /\ UNCHANGED <<lock, msg, mailed, slots, served, overlapped, changes>>
  BY DEF ExpirePollLock
<1>2. pollOverlap' \in BOOLEAN
  BY Zenon DEF ExpirePollLock, TypeInv, SeenType
<1>3. SeenType'
  BY <1>1, <1>2, DisturbOK DEF ExpirePollLock, TypeInv, SeenType
<1>4. LockType'
  BY <1>1 DEF ExpirePollLock, TypeInv, LockType
<1> QED BY <1>1, <1>3, <1>4, Frame, QuietOK DEF db, slots

LEMMA CreateExecutionOK ==
    ASSUME TypeInv, NEW w \in Workers, CreateExecution(w) PROVE TypeInv'
<1>1. /\ UNCHANGED <<nodes, wf, lock, pollLock, mailed, seen, changes>>
      /\ pc[w] = "create" /\ w \in Actors /\ w \notin Pollers /\ job[w] \in Execs
  BY ActorsOK DEF CreateExecution, TypeInv, SlotInv
<1>2. SeenType'
  BY <1>1, DisturbOK DEF CreateExecution, seen, TypeInv, SeenType
<1>3. row' \in {row, Created(job[w])}
  BY DEF CreateExecution
<1>4. RowType' /\ \A f \in Execs : row'[f].status = "waiting" => row'[f] = row[f]
  BY <1>1, <1>3, PlainRowsOK
<1>5. QueueInv'
  BY <1>1, SettleOK, NakOK, Frame DEF CreateExecution, TypeInv
<1>6. CanBe(w, "lock")
  BY <1>1 DEF CanBe, Labels, WorkerLabels
<1>7. SlotInv'
  BY <1>1, <1>6, MoveOK, IdleOK DEF CreateExecution, GoTo, TypeInv, SlotInv
<1>8. PosInv'
  <2>1. NodeIds' = NodeIds
    BY <1>1 DEF NodeIds
  <2>2. CASE GoTo(w, "lock")
    BY <1>1, <1>4, <2>1, <2>2 DEF GoTo, TypeInv, SlotInv, PosInv
  <2>3. CASE Idle(w)
    BY <1>1, <1>4, <2>1, <2>3 DEF Idle, TypeInv, SlotInv, PosInv
  <2> QED BY <2>2, <2>3 DEF CreateExecution
<1> QED BY <1>1, <1>2, <1>4, <1>5, <1>7, <1>8, Frame DEF seen, TypeInv

LEMMA FailExecutionOK == ASSUME TypeInv, NEW a \in Actors, FailExecution(a) PROVE TypeInv'
<1>1. /\ UNCHANGED <<nodes, wf, lock, pollLock, msg, mailed, seen, changes>>
      /\ pc[a] \in {"fail", "reject"} /\ job[a] \in Execs
  BY ActorsOK DEF FailExecution, TypeInv, SlotInv, Actors, Resuming, Locked
<1>2. SeenType'
  BY <1>1, DisturbOK DEF FailExecution, seen, TypeInv, SeenType
<1>3. RowType' /\ \A f \in Execs : row'[f].status = "waiting" => row'[f] = row[f]
  BY <1>1, PlainRowsOK DEF FailExecution
<1>4. PICK l \in {"unlock", "nak", "done"} : GoTo(a, l) /\ (l = "unlock" <=> a \in Pollers)
  BY DEF FailExecution
<1>5. CanBe(a, l)
  BY <1>1, <1>4, ActorsOK DEF CanBe, Labels, Locked, Resuming, WorkerLabels, PollerLabels
<1>6. SlotInv'
  BY <1>1, <1>4, <1>5, MoveOK DEF GoTo, TypeInv, SlotInv
<1>7. PosInv'
  <2>1. NodeIds' = NodeIds
    BY <1>1 DEF NodeIds
  <2> QED BY <1>1, <1>3, <1>4, <2>1 DEF GoTo, TypeInv, SlotInv, PosInv
<1> QED BY <1>1, <1>2, <1>3, <1>6, <1>7, Frame DEF seen, TypeInv

LEMMA EmailNodeOK == ASSUME TypeInv, NEW a \in Actors, EmailNode(a) PROVE TypeInv'
<1>1. /\ UNCHANGED db /\ UNCHANGED <<lock, pollLock, msg, overlapped, pollOverlap, changes>>
      /\ pc[a] = "node" /\ Node(a) = "email" /\ job[a] \in Execs
  BY ActorsOK DEF EmailNode, TypeInv, SlotInv, Actors, Resuming, Locked
<1>2. pos[a] \in NodeIds /\ nodes[pos[a]] = "email" /\ pos[a] \in Nat
  BY <1>1 DEF Node, TypeInv, PosInv
<1>3. NodeIds' = NodeIds
  BY <1>1 DEF NodeIds, db
<1>4. SeenType'
  BY <1>1, DisturbOK DEF EmailNode, TypeInv, SeenType
<1>5. mailed' \in [Execs -> [NodeIds -> Nat]]
  <2>1. mailed \in [Execs -> [NodeIds -> Nat]]
    BY DEF TypeInv, MailType
  <2>2. [mailed EXCEPT ![job[a]][pos[a]] = @ + 1] \in [Execs -> [NodeIds -> Nat]]
    BY <1>1, <1>2, <2>1
  <2> QED BY <2>1, <2>2 DEF EmailNode
<1>6. MailType'
  BY <1>3, <1>5 DEF MailType
<1>7. ServedType'
  <2>1. UNCHANGED served \/ served' = [served EXCEPT ![job[a]] = @ \cup {pos[a]}]
    BY DEF EmailNode
  <2> QED BY <1>1, <1>2, <1>3, <2>1 DEF TypeInv, ServedType
<1>8. GoTo(a, "advance") \/ GoTo(a, "fail")
  BY DEF EmailNode
<1>9. SlotInv'
  BY <1>1, <1>8, ActorsOK
     DEF GoTo, TypeInv, SlotInv, Labels, Locked, WorkerLabels, PollerLabels
<1>10. PosInv'
  BY <1>1, <1>2, <1>3, <1>8 DEF GoTo, TypeInv, SlotInv, PosInv, db
<1> QED BY <1>1, <1>4, <1>6, <1>7, <1>9, <1>10, Frame DEF db, TypeInv

\* A write of the executor takes the actor to "node", "done" or "fail".
LEMMA WriteRowOK ==
    ASSUME TypeInv, NEW a \in Actors, NEW new, NEW l \in {"node", "done"},
           UNCHANGED <<nodes, wf, lock, pollLock, msg, mailed, job, attempt, batch, seen, changes>>,
           pc[a] \in {"node", "advance", "resume"}, WriteRow(a, new, l),
           pos' \in [Actors -> Nat], \A b \in Actors : b # a => pos'[b] = pos[b],
           nodes # Garbled,
           \E i \in NodeIds : \/ new = CompleteExecution(job[a])
                              \/ new = AdvanceExecution(job[a], i)
                              \/ new = ScheduleDelay(job[a], i) /\ nodes[i] = "delay"
    PROVE  TypeInv'
<1>1. PICK i \in NodeIds : \/ new = CompleteExecution(job[a])
                           \/ new = AdvanceExecution(job[a], i)
                           \/ new = ScheduleDelay(job[a], i) /\ nodes[i] = "delay"
  OBVIOUS
<1>2. job[a] \in Execs /\ NodeIds' = NodeIds
  BY ActorsOK DEF TypeInv, SlotInv, Actors, Resuming, Locked, NodeIds
<1>3. row' \in {row, new} /\ \E k \in {l, "fail"} : pc' = [pc EXCEPT ![a] = k]
  BY DEF WriteRow
<1>4. /\ RowType'
      /\ \A f \in Execs : row'[f].status = "waiting" =>
            row'[f] = row[f] \/ (row'[f].at = i /\ nodes[i] = "delay")
  <2>1. CASE row' \in {row, CompleteExecution(job[a])}
    BY <1>2, <2>1, PlainRowsOK
  <2>2. CASE row' = AdvanceExecution(job[a], i) \/ (row' = ScheduleDelay(job[a], i) /\ nodes[i] = "delay")
    BY <1>2, <2>2, NodeRowsOK
  <2> QED BY <1>1, <1>3, <2>1, <2>2
<1>5. SeenType'
  BY DisturbOK DEF WriteRow, seen, TypeInv, SeenType
<1>6. SlotInv'
  BY <1>2, <1>3, ActorsOK DEF TypeInv, SlotInv, Labels, Locked, WorkerLabels, PollerLabels
<1>7. PosInv'
  BY <1>2, <1>3, <1>4 DEF TypeInv, SlotInv, PosInv
<1> QED BY <1>4, <1>5, <1>6, <1>7, Frame DEF seen, TypeInv

\* Where Advance takes the actor from: a node there is.
LEMMA AtNode ==
    ASSUME TypeInv, NEW a \in Actors,
           pc[a] \in {"advance", "resume"} \/ Node(a) # "missing"
    PROVE  /\ pos[a] \in NodeIds /\ pos[a] \in Nat /\ nodes # Garbled
           /\ NodeIds = 1..Len(nodes) /\ Len(nodes) \in Nat
           /\ pc[a] \in {"advance", "resume"} \/ Node(a) = nodes[pos[a]]
           /\ ~Last(a) => pos[a] + 1 \in NodeIds
<1>1. pos[a] \in NodeIds /\ nodes # Garbled
  BY DEF TypeInv, PosInv, Node, NodeIds
<1> QED BY <1>1, NodesOK DEF TypeInv, Last, Node

LEMMA AdvanceOK == ASSUME TypeInv, NEW a \in Actors, Advance(a) PROVE TypeInv'
<1>1. /\ UNCHANGED <<nodes, wf, lock, pollLock, msg, mailed, job, attempt, batch, seen, changes>>
      /\ pc[a] \in {"node", "advance", "resume"}
      /\ pc[a] \in {"advance", "resume"} \/ Node(a) # "missing"
  BY DEF Advance
<1>2. pos[a] \in NodeIds /\ pos[a] \in Nat /\ nodes # Garbled /\ (~Last(a) => pos[a] + 1 \in NodeIds)
  BY <1>1, AtNode
<1>3. pos \in [Actors -> Nat]
  BY DEF TypeInv, PosInv
<1>4. CASE Last(a)
  <2>1. WriteRow(a, CompleteExecution(job[a]), "done") /\ UNCHANGED pos
    BY <1>4 DEF Advance
  <2> QED BY <1>1, <1>2, <1>3, <2>1, WriteRowOK
<1>5. CASE ~Last(a)
  <2>1. WriteRow(a, AdvanceExecution(job[a], pos[a] + 1), "node") /\ pos' = [pos EXCEPT ![a] = @ + 1]
    BY <1>5 DEF Advance
  <2>2. pos' \in [Actors -> Nat] /\ \A b \in Actors : b # a => pos'[b] = pos[b]
    BY <1>2, <1>3, <2>1
  <2> QED BY <1>1, <1>2, <1>5, <2>1, <2>2, WriteRowOK
<1> QED BY <1>4, <1>5

LEMMA DelayNodeOK == ASSUME TypeInv, NEW a \in Actors, DelayNode(a) PROVE TypeInv'
<1>1. /\ UNCHANGED <<nodes, wf, lock, pollLock, msg, mailed, job, pos, attempt, batch, seen, changes>>
      /\ pc[a] = "node" /\ Node(a) = "delay" /\ WriteRow(a, ScheduleDelay(job[a], pos[a]), "done")
  BY DEF DelayNode
<1>2. pos[a] \in NodeIds /\ nodes[pos[a]] = "delay" /\ nodes # Garbled /\ pos \in [Actors -> Nat]
  BY <1>1, AtNode DEF TypeInv, PosInv
<1> QED BY <1>1, <1>2, WriteRowOK

LEMMA EndNodeOK == ASSUME TypeInv, NEW a \in Actors, EndNode(a) PROVE TypeInv'
<1>1. /\ UNCHANGED <<nodes, wf, lock, pollLock, msg, mailed, job, pos, attempt, batch, seen, changes>>
      /\ pc[a] = "node" /\ Node(a) = "end" /\ WriteRow(a, CompleteExecution(job[a]), "done")
  BY DEF EndNode
<1>2. pos[a] \in NodeIds /\ nodes # Garbled /\ pos \in [Actors -> Nat]
  BY <1>1, AtNode DEF TypeInv, PosInv
<1> QED BY <1>1, <1>2, WriteRowOK

LEMMA DelayEndsOK == ASSUME TypeInv, NEW e \in Execs, DelayEnds(e) PROVE TypeInv'
<1>1. /\ UNCHANGED <<nodes, wf, lock, pollLock, msg, mailed, slots, overlapped, pollOverlap,
                     disturbances, changes>>
      /\ row' = [row EXCEPT ![e].due = TRUE]
      /\ row[e].status = "waiting" /\ served' = [served EXCEPT ![e] = @ \cup {row[e].at}]
  BY DEF DelayEnds
<1>2. NodeIds' = NodeIds /\ Rows' = Rows /\ row \in [Execs -> Rows] /\ row[e].at \in NodeIds
  BY <1>1 DEF NodeIds, Rows, TypeInv, RowType, PosInv
<1>3. row' \in [Execs -> Rows] /\ \A f \in Execs : row'[f].status = row[f].status /\ row'[f].at = row[f].at
  BY <1>1, <1>2 DEF Rows
<1>4. RowType'
  BY <1>1, <1>2, <1>3 DEF RowType, TypeInv
<1>5. PosInv'
  BY <1>1, <1>2, <1>3 DEF PosInv, TypeInv, slots
<1>6. ServedType'
  BY <1>1, <1>2 DEF ServedType, TypeInv
<1> QED BY <1>1, <1>4, <1>5, <1>6, Frame DEF slots, TypeInv

LEMMA ExecutorTypes == ASSUME TypeInv, NEW a \in Actors, ExecutorStep(a) PROVE TypeInv'
BY BadNodeOK, EmailNodeOK, AdvanceOK, DelayNodeOK, EndNodeOK, FailExecutionOK, ReleaseLockOK
   DEF ExecutorStep

LEMMA NextTypeInv == ASSUME TypeInv, [Next]_vars PROVE TypeInv'
<1>1. CASE UNCHANGED vars
  BY <1>1, Frame DEF vars, TypeInv
<1>2. ASSUME NEW e \in Execs,
             PublishTrigger(e) \/ ExpireAckWait(e) \/ ExpireLock(e) \/ DelayEnds(e)
      PROVE  TypeInv'
  BY <1>2, PublishTriggerOK, ExpireAckWaitOK, ExpireLockOK, DelayEndsOK
<1>3. ASSUME NEW w \in Workers, WorkerStep(w) \/ Timeout(w) PROVE TypeInv'
  BY <1>3, ActorsOK, ReceiveOK, CheckTriggerOK, CreateExecutionOK, AcquireLockOK, ExecutorTypes,
     SettleTriggerOK, TimeoutOK DEF WorkerStep
<1>4. ASSUME NEW s \in Pollers, PollerStep(s) PROVE TypeInv'
  BY <1>4, ActorsOK, PollOK, FetchDueOK, NextExecutionOK, LockExecutionOK, LoadForResumeOK,
     GetLatestOK, ExecutorTypes, ReleasePollLockOK DEF PollerStep
<1> QED BY <1>1, <1>2, <1>3, <1>4, ChangeStatusOK, CrashOK, ExpirePollLockOK DEF Next

\* The variables have their types, whatever is disturbed: what the trigger
\* handlers, the executor and the pollers write.
THEOREM WorkflowTypeCorrect == Spec => []TypeOK
<1>1. Spec => []TypeInv
  BY InitTypeInv, NextTypeInv, PTL DEF Spec
<1> QED BY <1>1, TypeInvIsTypeOK, PTL

-----------------------------------------------------------------------------
(* One run at a time.                                                       *)

\* The worker whose insert made the execution.
New(w) == /\ pc[w] = "create" /\ pc' = [pc EXCEPT ![w] = "lock"] /\ UNCHANGED <<job, batch>>
          /\ row[job[w]].status = "absent" /\ row' = Created(job[w])

\* Who runs an execution runs it since its insert, and who took one that waits.
Carried ==
    /\ \A w \in Workers : Running(w)' => (Running(w) /\ job'[w] = job[w]) \/ New(w)
    /\ \A w \in Workers : Begun(w)' => (Begun(w) /\ job'[w] = job[w]) \/ New(w)
    /\ \A s \in Pollers, e \in Execs : Taken(s, e)' =>
          Taken(s, e) \/ (row[e].status = "waiting" /\ UNCHANGED row)

\* The status of e is written by the insert and by who has it in hand.
Written(e) ==
    \/ \E w \in Workers : /\ pc[w] = "create" /\ job[w] = e
                          /\ row[e].status = "absent" /\ row'[e].status = "running"
    \/ \E a \in Actors : /\ job[a] = e /\ pc[a] \in {"node", "advance", "resume", "fail", "reject"}
                         /\ row'[e].status # "absent"
                         /\ pc'[a] \in {"lock", "node", "advance"} => row'[e].status = "running"
StatusWritten == \A e \in Execs : row'[e].status # row[e].status => Written(e)

LEMMA OneRunKept ==
    ASSUME TypeInv, OneRun, Carried, StatusWritten
    PROVE  OneRun'
<1> USE ActorsOK
<1>1. ASSUME NEW w \in Workers, Begun(w)
      PROVE  job[w] \in Execs /\ \A v \in Workers : New(v) => job[v] # job[w]
  BY <1>1 DEF TypeInv, SlotInv, Begun, Locked, OneRun, New
<1>2. \A v, w \in Workers : New(v) /\ New(w) => v = w
  BY DEF New, TypeInv, SlotInv
<1>3. ASSUME NEW e \in Execs, row[e].status # "absent" PROVE row'[e].status # "absent"
  BY <1>3 DEF StatusWritten, Written
<1>4. ASSUME NEW w \in Workers, New(w)
      PROVE  /\ job'[w] = job[w] /\ job[w] \in Execs /\ row'[job[w]].status = "running"
             /\ row[job[w]].status = "absent"
  BY <1>4 DEF New, TypeInv, SlotInv, RowType, Created, Rows
<1>5. ASSUME NEW w \in Workers, Begun(w)' PROVE row'[job'[w]].status # "absent"
  BY <1>1, <1>3, <1>4, <1>5 DEF Carried, OneRun
<1>6. ASSUME NEW v \in Workers, NEW w \in Workers, Begun(v)', Begun(w)', job'[v] = job'[w]
      PROVE  v = w
  BY <1>1, <1>2, <1>4, <1>6 DEF Carried, OneRun
<1>7. ASSUME NEW w \in Workers, Running(w)' PROVE row'[job'[w]].status = "running"
  <2>1. CASE New(w)
    BY <1>4, <2>1
  <2>2. CASE Running(w) /\ job'[w] = job[w]
    <3>1. Begun(w) /\ job[w] \in Execs /\ row[job[w]].status = "running"
      BY <1>1, <2>2 DEF Running, Begun, Locked, OneRun
    <3>2. CASE Written(job[w])
      <4>1. PICK a \in Actors : /\ job[a] = job[w] /\ pc[a] \in {"node", "advance", "resume", "fail", "reject"}
                                /\ pc'[a] \in {"lock", "node", "advance"} => row'[job[w]].status = "running"
        BY <3>1, <3>2 DEF Written
      <4>2. a \notin Pollers
        BY <2>2, <3>1, <4>1 DEF OneRun, Taken, Resuming, Locked
      <4>3. a \in Workers /\ Begun(a)
        BY <4>1, <4>2 DEF Actors, Begun, Locked
      <4>4. a = w
        BY <3>1, <4>1, <4>3 DEF OneRun
      <4> QED BY <1>7, <2>2, <4>1, <4>4 DEF Running
    <3> QED BY <2>2, <3>1, <3>2 DEF StatusWritten
  <2> QED BY <1>7, <2>1, <2>2 DEF Carried
<1>8. ASSUME NEW w \in Workers, NEW s \in Pollers, Running(w)', Taken(s, job[w])' PROVE FALSE
  <2>1. job'[w] \in Execs
    BY <1>1, <1>4, <1>8 DEF Carried, Running, Begun, Locked
  <2>2. CASE New(w)
    BY <1>4, <1>8, <2>1, <2>2 DEF Carried, OneRun
  <2>3. CASE Running(w) /\ job'[w] = job[w]
    BY <1>8, <2>1, <2>3 DEF Carried, OneRun
  <2> QED BY <1>8, <2>2, <2>3 DEF Carried
<1>9. ASSUME NEW s \in Pollers, NEW e \in Execs, Taken(s, e)' PROVE row'[e].status # "absent"
  BY <1>3, <1>9 DEF Carried, OneRun
<1> QED BY <1>5, <1>6, <1>7, <1>8, <1>9 DEF OneRun

LEMMA GoCarried ==
    ASSUME TypeInv, NEW a \in Actors, NEW l, pc' = [pc EXCEPT ![a] = l], UNCHANGED <<job, batch>>,
           a \in Workers => /\ l \in {"lock", "node", "advance"} => pc[a] \in {"lock", "node", "advance"}
                            /\ l \in Locked \cup {"lock"} => pc[a] \in Locked \cup {"lock"},
           a \in Pollers => (l \in Resuming => pc[a] \in Resuming)
    PROVE  Carried
BY ActorsOK DEF TypeInv, SlotInv, Carried, Running, Begun, Taken

LEMMA IdleCarried == ASSUME TypeInv, NEW a \in Actors, Idle(a) PROVE Carried
BY ActorsOK DEF TypeInv, SlotInv, Idle, Carried, Running, Begun, Taken, Resuming, Locked

LEMMA SameCarried == ASSUME UNCHANGED <<pc, job, batch>> PROVE Carried
BY DEF Carried, Running, Begun, Taken

LEMMA WorkerRun ==
    ASSUME TypeInv, NEW w \in Workers, NEW e \in Execs,
           Receive(w, e) \/ CheckTrigger(w) \/ AcquireLock(w) \/ SettleTrigger(w) \/ Timeout(w)
    PROVE  Carried /\ StatusWritten
<1> USE ActorsOK
<1>1. UNCHANGED row
  BY DEF Receive, CheckTrigger, AcquireLock, SettleTrigger, Timeout, db
<1>2. ASSUME Receive(w, e) PROVE Carried
  BY <1>2 DEF Receive, TypeInv, SlotInv, Carried, Running, Begun, Taken, Locked
<1>3. ASSUME CheckTrigger(w) PROVE Carried
  BY <1>3, GoCarried, IdleCarried DEF CheckTrigger, GoTo, Locked
<1>4. ASSUME AcquireLock(w) PROVE Carried
  BY <1>4, GoCarried, IdleCarried DEF AcquireLock, Locked
<1>5. ASSUME SettleTrigger(w) PROVE Carried
  BY <1>5, GoCarried DEF SettleTrigger, GoTo, Locked
<1>6. ASSUME Timeout(w) PROVE Carried
  BY <1>6, IdleCarried DEF Timeout
<1> QED BY <1>1, <1>2, <1>3, <1>4, <1>5, <1>6 DEF StatusWritten

LEMMA CreateRun ==
    ASSUME TypeInv, NEW w \in Workers, CreateExecution(w) PROVE Carried /\ StatusWritten
<1> USE ActorsOK
<1>1. pc[w] = "create" /\ job[w] \in Execs /\ row \in [Execs -> Rows]
  BY DEF CreateExecution, TypeInv, SlotInv, RowType
<1>2. CASE GoTo(w, "lock") /\ row[job[w]].status = "absent" /\ row' = Created(job[w])
  <2>1. New(w)
    BY <1>1, <1>2 DEF New, GoTo
  <2>2. \A v \in Workers : v # w => pc'[v] = pc[v]
    BY <1>2 DEF GoTo, TypeInv, SlotInv
  <2>3. Carried
    BY <1>2, <2>1, <2>2 DEF Carried, Running, Begun, Taken, GoTo, TypeInv, SlotInv, Resuming, Locked
  <2>4. StatusWritten
    BY <1>1, <1>2 DEF StatusWritten, Written, Created, Rows
  <2> QED BY <2>3, <2>4
<1>3. CASE Idle(w) /\ UNCHANGED row
  BY <1>3, IdleCarried DEF StatusWritten
<1>4. CASE Idle(w) /\ row[job[w]].status = "absent" /\ row' = Created(job[w])
  BY <1>1, <1>4, IdleCarried DEF StatusWritten, Written, Created, Rows
<1> QED BY <1>2, <1>3, <1>4 DEF CreateExecution

LEMMA ExecutorRun == ASSUME TypeInv, NEW a \in Actors, ExecutorStep(a) PROVE Carried /\ StatusWritten
<1> USE ActorsOK
<1>1. row \in [Execs -> Rows] /\ pc[a] \in {"node", "advance", "resume", "fail", "reject", "done", "unlock"}
  BY DEF ExecutorStep, BadNode, EmailNode, Advance, DelayNode, EndNode, FailExecution, ReleaseLock,
         TypeInv, RowType
<1>2. job[a] \in Execs
  BY <1>1 DEF TypeInv, SlotInv, Resuming, Locked, Actors
<1>3. CASE BadNode(a) \/ EmailNode(a)
  <2>1. Carried
    BY <1>3, GoCarried DEF BadNode, EmailNode, GoTo, Resuming, Locked
  <2> QED BY <1>3, <2>1 DEF BadNode, EmailNode, StatusWritten, db
<1>4. CASE ReleaseLock(a)
  <2>1. Carried
    BY <1>4, GoCarried, IdleCarried DEF ReleaseLock, GoTo, Resuming, Locked
  <2> QED BY <1>4, <2>1 DEF ReleaseLock, StatusWritten, db
<1>5. CASE FailExecution(a)
  <2>1. Carried
    BY <1>1, <1>5, GoCarried DEF FailExecution, GoTo, Resuming, Locked
  <2>2. pc[a] \in {"fail", "reject"} /\ pc'[a] \notin {"lock", "node", "advance"}
    BY <1>5 DEF FailExecution, GoTo, TypeInv, SlotInv
  <2>3. UNCHANGED row \/ row' = [row EXCEPT ![job[a]].status = "failed"]
    BY <1>5 DEF FailExecution
  <2>4. StatusWritten
    BY <1>1, <1>2, <2>2, <2>3 DEF StatusWritten, Written, Rows
  <2> QED BY <2>1, <2>4
<1>6. ASSUME NEW l \in {"node", "done"}, NEW i, NEW new, WriteRow(a, new, l), UNCHANGED <<job, batch>>,
             new \in {CompleteExecution(job[a]), AdvanceExecution(job[a], i), ScheduleDelay(job[a], i)},
             l = "node" => new = AdvanceExecution(job[a], i),
             pc[a] \in {"node", "advance", "resume"}, a \in Workers => pc[a] # "resume"
      PROVE  Carried /\ StatusWritten
  <2>1. PICK k \in {l, "fail"} : pc' = [pc EXCEPT ![a] = k] /\ row' \in {row, new} /\ (k = l => row' = new)
    BY <1>6 DEF WriteRow
  <2>2. Carried
    BY <1>6, <2>1, GoCarried DEF Resuming, Locked
  <2>3. ASSUME NEW e \in Execs, row'[e].status # row[e].status PROVE Written(e)
    <3>1. row' = new
      BY <2>1, <2>3
    <3>2. e = job[a] /\ row'[e].status # "absent" /\ (l = "node" => row'[e].status = "running")
      BY <1>1, <1>2, <1>6, <2>3, <3>1 DEF CompleteExecution, AdvanceExecution, ScheduleDelay, Rows
    <3>3. pc'[a] \in {"lock", "node", "advance"} => l = "node"
      BY <1>6, <2>1 DEF TypeInv, SlotInv
    <3> QED BY <1>6, <3>2, <3>3 DEF Written
  <2> QED BY <2>2, <2>3 DEF StatusWritten
<1>7. a \in Workers => pc[a] # "resume"
  BY DEF TypeInv, SlotInv, WorkerLabels
<1>8. CASE Advance(a)
  <2>1. /\ UNCHANGED <<job, batch>> /\ pc[a] \in {"node", "advance", "resume"}
        /\ \/ WriteRow(a, CompleteExecution(job[a]), "done")
           \/ WriteRow(a, AdvanceExecution(job[a], pos[a] + 1), "node")
    BY <1>8 DEF Advance
  <2> QED BY <1>6, <1>7, <2>1
<1>9. CASE DelayNode(a)
  <2>1. UNCHANGED <<job, batch>> /\ pc[a] = "node" /\ WriteRow(a, ScheduleDelay(job[a], pos[a]), "done")
    BY <1>9 DEF DelayNode
  <2> QED BY <1>6, <1>7, <2>1
<1>10. CASE EndNode(a)
  <2>1. UNCHANGED <<job, batch>> /\ pc[a] = "node" /\ WriteRow(a, CompleteExecution(job[a]), "done")
    BY <1>10 DEF EndNode
  <2> QED BY <1>6, <1>7, <2>1
<1> QED BY <1>3, <1>4, <1>5, <1>8, <1>9, <1>10 DEF ExecutorStep

LEMMA PollerRun ==
    ASSUME TypeInv, NEW s \in Pollers,
           \/ Poll(s) \/ FetchDue(s) \/ NextExecution(s) \/ LockExecution(s) \/ LoadForResume(s)
           \/ GetLatest(s) \/ ReleasePollLock(s)
    PROVE  Carried /\ StatusWritten
<1> USE ActorsOK
<1>1. UNCHANGED row
  BY DEF Poll, FetchDue, NextExecution, LockExecution, LoadForResume, GetLatest, ReleasePollLock, db
<1>2. ASSUME Poll(s) PROVE Carried
  BY <1>2, GoCarried, SameCarried DEF Poll, GoTo, slots, Resuming, Locked
<1>3. ASSUME FetchDue(s) PROVE Carried
  <2>1. \A t \in Pollers : \A e \in batch'[t] : e \in batch[t] \/ row[e].status = "waiting"
    BY <1>3 DEF FetchDue, TypeInv, SlotInv
  <2> QED BY <1>1, <1>3, <2>1 DEF FetchDue, TypeInv, SlotInv, Carried, Running, Begun, Taken, Resuming, Locked
<1>4. ASSUME NextExecution(s) PROVE Carried
  <2>1. CASE GoTo(s, "release")
    BY <2>1, GoCarried DEF GoTo, Resuming, Locked
  <2>2. ASSUME NEW e \in batch[s], batch' = [batch EXCEPT ![s] = @ \ {e}],
               job' = [job EXCEPT ![s] = e], pc' = [pc EXCEPT ![s] = "lockExec"]
        PROVE  Carried
    BY <2>2 DEF TypeInv, SlotInv, Carried, Running, Begun, Taken, Resuming
  <2> QED BY <1>4, <2>1, <2>2 DEF NextExecution
<1>5. ASSUME LockExecution(s) PROVE Carried
  BY <1>5, GoCarried DEF LockExecution, GoTo, Resuming, Locked
<1>6. ASSUME LoadForResume(s) \/ GetLatest(s) PROVE Carried
  BY <1>6, GoCarried DEF LoadForResume, GetLatest, GoTo, Resuming, Locked
<1>7. ASSUME ReleasePollLock(s) PROVE Carried
  BY <1>7, IdleCarried DEF ReleasePollLock
<1> QED BY <1>1, <1>2, <1>3, <1>4, <1>5, <1>6, <1>7 DEF StatusWritten

LEMMA NextRun == ASSUME TypeInv, [Next]_vars PROVE Carried /\ StatusWritten
<1>1. CASE UNCHANGED vars
  BY <1>1, SameCarried DEF vars, StatusWritten
<1>2. ASSUME NEW e \in Execs, PublishTrigger(e) \/ ExpireAckWait(e) \/ ExpireLock(e)
      PROVE  Carried /\ StatusWritten
  BY <1>2, SameCarried DEF PublishTrigger, ExpireAckWait, ExpireLock, StatusWritten, db, slots
<1>3. ASSUME NEW e \in Execs, DelayEnds(e) PROVE Carried /\ StatusWritten
  <2>1. \A f \in Execs : row'[f].status = row[f].status
    BY <1>3 DEF DelayEnds, TypeInv, RowType, Rows
  <2> QED BY <1>3, <2>1, SameCarried DEF DelayEnds, StatusWritten, slots
<1>4. CASE ChangeStatus \/ ExpirePollLock
  BY <1>4, SameCarried DEF ChangeStatus, ExpirePollLock, StatusWritten, db, slots
<1>5. ASSUME NEW a \in Actors, Crash(a) PROVE Carried /\ StatusWritten
  BY <1>5, IdleCarried DEF Crash, StatusWritten, db
<1>6. ASSUME NEW w \in Workers, WorkerStep(w) \/ Timeout(w) PROVE Carried /\ StatusWritten
  <2>1. CASE \E e \in Execs : Receive(w, e)
    BY <2>1, WorkerRun
  <2>2. CASE CheckTrigger(w) \/ AcquireLock(w) \/ SettleTrigger(w) \/ Timeout(w)
    <3>1. pc[w] # "idle"
      BY <2>2 DEF CheckTrigger, AcquireLock, SettleTrigger, Timeout
    <3>2. job[w] \in Execs
      BY <3>1 DEF TypeInv, SlotInv
    <3> QED BY <2>2, <3>2, WorkerRun
  <2> QED BY <1>6, <2>1, <2>2, CreateRun, ExecutorRun, ActorsOK DEF WorkerStep
<1>7. ASSUME NEW s \in Pollers, PollerStep(s) PROVE Carried /\ StatusWritten
  BY <1>7, PollerRun, ExecutorRun, ActorsOK DEF PollerStep
<1> QED BY <1>1, <1>2, <1>3, <1>4, <1>5, <1>6, <1>7 DEF Next

LEMMA NextOneRun == ASSUME TypeInv, OneRun, [Next]_vars PROVE OneRun'
BY NextRun, OneRunKept

LEMMA InitOneRun == Init => OneRun
BY ActorsOK DEF Init, OneRun, Begun, Running, Taken, Locked, Resuming

-----------------------------------------------------------------------------
(* One holder of a lock that does not expire under it.                      *)

\* An actor gets e's lock.
Got(a, e) ==
    /\ job[a] = e /\ pc[a] = (IF a \in Workers THEN "lock" ELSE "lockExec")
    /\ (a \in Pollers => lock[e] = "free") /\ lock'[e] = LockValue(a)
    /\ \A b \in Actors : b # a => pc'[b] = pc[b]

\* Why a lock changes: someone about to run e gets it, it was free, its holder
\* releases it, or it expires.
LockChanges(e) ==
    \/ \E w \in Workers : pc[w] = "lock" /\ job[w] = e
    \/ lock[e] = "free"
    \/ \E b \in Actors : Holds(b, e) /\ ~Holds(b, e)' /\ lock[e] = LockValue(b)
    \/ ~Held(e)

LockStep ==
    \A e \in Execs : ~overlapped'[e] =>
        /\ ~overlapped[e]
        /\ \A a \in Actors : Holds(a, e)' => Holds(a, e) \/ Got(a, e)
        /\ lock'[e] # lock[e] => LockChanges(e)

\* Nobody holds the lock of an execution that a worker is about to lock.
LEMMA NobodyYet ==
    ASSUME TypeInv, OneRun, NEW w \in Workers, pc[w] = "lock", NEW a \in Actors
    PROVE  ~Holds(a, job[w])
<1> SUFFICES ASSUME Holds(a, job[w]) PROVE FALSE
  OBVIOUS
<1>1. Running(w) /\ Begun(w)
  BY DEF Running, Begun
<1>2. CASE a \in Workers
  BY <1>1, <1>2 DEF Holds, OneRun, Begun, Locked
<1>3. CASE a \in Pollers
  BY <1>1, <1>3 DEF Holds, OneRun, Taken, Resuming
<1> QED BY <1>2, <1>3 DEF Actors

LEMMA LockHeldKept ==
    ASSUME TypeInv, OneRun, LockHeld, LockStep
    PROVE  LockHeld'
<1> SUFFICES ASSUME NEW e \in Execs, ~overlapped'[e]
             PROVE  /\ \A a \in Actors : Holds(a, e)' => lock'[e] = LockValue(a)
                    /\ \A a, b \in Actors : Holds(a, e)' /\ Holds(b, e)' => a = b
  BY DEF LockHeld, LockValue
<1>1. /\ ~overlapped[e] /\ (lock'[e] # lock[e] => LockChanges(e))
      /\ \A a \in Actors : Holds(a, e)' => Holds(a, e) \/ Got(a, e)
  BY DEF LockStep
<1>2. /\ \A a \in Actors : Holds(a, e) => lock[e] = LockValue(a)
      /\ \A a, b \in Actors : Holds(a, e) /\ Holds(b, e) => a = b
  BY <1>1 DEF LockHeld
<1>3. \A w \in Workers, a \in Actors : pc[w] = "lock" /\ job[w] = e => ~Holds(a, e)
  BY NobodyYet
<1>4. ASSUME NEW a \in Actors, Holds(a, e), Holds(a, e)' PROVE lock'[e] = lock[e]
  <2>1. lock[e] = LockValue(a) /\ lock[e] # "free"
    BY <1>2, <1>4 DEF LockValue
  <2> QED BY <1>1, <1>2, <1>3, <1>4, <2>1 DEF LockChanges, Held
<1>5. ASSUME NEW a \in Actors, NEW b \in Actors, Holds(a, e), Got(b, e) PROVE FALSE
  <2>1. lock[e] # "free"
    BY <1>2, <1>5 DEF LockValue
  <2>2. b \in Workers
    BY <1>5, <2>1 DEF Got, Actors
  <2> QED BY <1>3, <1>5, <2>2 DEF Got
<1>6. ASSUME NEW a \in Actors, NEW b \in Actors, Got(a, e), a # b PROVE Holds(b, e)' => Holds(b, e)
  BY <1>1, <1>6 DEF Got, Holds, Locked
<1>7. ASSUME NEW a \in Actors, Holds(a, e)' PROVE lock'[e] = LockValue(a)
  BY <1>1, <1>2, <1>4, <1>7 DEF Got
<1>8. ASSUME NEW a \in Actors, NEW b \in Actors, Holds(a, e)', Holds(b, e)' PROVE a = b
  BY <1>1, <1>2, <1>5, <1>6, <1>8
<1> QED BY <1>7, <1>8

\* The steps that leave the locks alone and lead no one to where it holds one.
LEMMA NoLock ==
    ASSUME TypeInv, UNCHANGED <<lock, overlapped>>, NEW a \in Actors, NEW l,
           pc' = [pc EXCEPT ![a] = l], l \in Locked => pc[a] \in Locked /\ job'[a] = job[a],
           \A b \in Actors : b # a => job'[b] = job[b]
    PROVE  LockStep
BY DEF TypeInv, SlotInv, LockStep, Holds

LEMMA IdleNoLock ==
    ASSUME TypeInv, UNCHANGED <<lock, overlapped>>, NEW a \in Actors, Idle(a)
    PROVE  LockStep
<1>1. pc' = [pc EXCEPT ![a] = "idle"] /\ \A b \in Actors : b # a => job'[b] = job[b]
  BY DEF Idle, TypeInv, SlotInv
<1> QED BY <1>1, NoLock DEF Locked

LEMMA SameLock == ASSUME UNCHANGED <<pc, job, lock, overlapped>> PROVE LockStep
BY DEF LockStep, Holds

LEMMA WorkerLocks ==
    ASSUME TypeInv, NEW w \in Workers, WorkerStep(w) \/ Timeout(w), ~ExecutorStep(w)
    PROVE  LockStep
<1> USE ActorsOK
<1>1. ASSUME NEW e \in Execs, Receive(w, e) PROVE LockStep
  <2>1. /\ pc' = [pc EXCEPT ![w] = "check"] /\ \A b \in Actors : b # w => job'[b] = job[b]
        /\ UNCHANGED <<lock, overlapped>>
    BY <1>1 DEF Receive, TypeInv, SlotInv, seen
  <2> QED BY <2>1, NoLock DEF Locked
<1>2. ASSUME CheckTrigger(w) PROVE LockStep
  BY <1>2, NoLock, IdleNoLock DEF CheckTrigger, GoTo, Locked, seen
<1>3. ASSUME CreateExecution(w) PROVE LockStep
  BY <1>3, NoLock, IdleNoLock DEF CreateExecution, GoTo, Locked, seen
<1>4. ASSUME AcquireLock(w) PROVE LockStep
  <2>1. /\ pc[w] = "lock" /\ job[w] \in Execs /\ UNCHANGED overlapped
        /\ lock' \in {lock, [lock EXCEPT ![job[w]] = "trigger"]} /\ lock \in [Execs -> {"free", "trigger", "resume"}]
    BY <1>4 DEF AcquireLock, TypeInv, SlotInv, LockType, seen
  <2>2. \A e \in Execs : lock'[e] # lock[e] => LockChanges(e)
    BY <2>1 DEF LockChanges
  <2>3. CASE Idle(w)
    BY <2>1, <2>2, <2>3 DEF LockStep, Holds, Idle, TypeInv, SlotInv, Locked
  <2>4. CASE /\ lock' = [lock EXCEPT ![job[w]] = "trigger"] /\ UNCHANGED job
             /\ pc' = [pc EXCEPT ![w] = IF nodes = Garbled THEN "reject" ELSE "node"]
    <3>1. Got(w, job[w])
      BY <2>1, <2>4 DEF Got, TypeInv, SlotInv
    <3> QED BY <2>1, <2>2, <2>4, <3>1 DEF LockStep, Holds, TypeInv, SlotInv
  <2> QED BY <1>4, <2>3, <2>4 DEF AcquireLock
<1>5. ASSUME SettleTrigger(w) PROVE LockStep
  BY <1>5, NoLock DEF SettleTrigger, GoTo, Locked, seen
<1>6. ASSUME Timeout(w) PROVE LockStep
  BY <1>6, IdleNoLock DEF Timeout, seen
<1> QED BY <1>1, <1>2, <1>3, <1>4, <1>5, <1>6 DEF WorkerStep

LEMMA ExecutorLocks == ASSUME TypeInv, NEW a \in Actors, ExecutorStep(a) PROVE LockStep
<1> USE ActorsOK
<1>1. CASE BadNode(a) \/ EmailNode(a)
  BY <1>1, NoLock DEF BadNode, EmailNode, GoTo, Locked, seen
<1>2. CASE Advance(a) \/ DelayNode(a) \/ EndNode(a)
  <2>1. pc[a] \in Locked /\ UNCHANGED <<lock, overlapped, job>> /\ \E l \in Labels : pc' = [pc EXCEPT ![a] = l]
    BY <1>2 DEF Advance, DelayNode, EndNode, WriteRow, Locked, Labels, seen
  <2> QED BY <2>1, NoLock
<1>3. CASE FailExecution(a)
  BY <1>3, NoLock DEF FailExecution, GoTo, Locked, seen
<1>4. CASE ReleaseLock(a)
  <2>1. /\ pc[a] \in Locked /\ job[a] \in Execs /\ UNCHANGED overlapped
        /\ lock' \in {lock, [lock EXCEPT ![job[a]] = IF @ = LockValue(a) THEN "free" ELSE @]}
        /\ lock \in [Execs -> {"free", "trigger", "resume"}]
    BY <1>4 DEF ReleaseLock, TypeInv, SlotInv, LockType, seen, Locked, Resuming, Actors
  <2>2. \A b \in Actors : b # a => pc'[b] = pc[b] /\ job'[b] = job[b]
    BY <1>4 DEF ReleaseLock, GoTo, Idle, TypeInv, SlotInv
  <2>3. pc'[a] \notin Locked
    BY <1>4 DEF ReleaseLock, GoTo, Idle, TypeInv, SlotInv, Locked
  <2>4. ASSUME NEW e \in Execs, lock'[e] # lock[e] PROVE LockChanges(e)
    <3>1. e = job[a] /\ lock[e] = LockValue(a)
      BY <2>1, <2>4
    <3> QED BY <2>1, <2>3, <3>1 DEF LockChanges, Holds
  <2> QED BY <2>1, <2>2, <2>3, <2>4 DEF LockStep, Holds
<1> QED BY <1>1, <1>2, <1>3, <1>4 DEF ExecutorStep

LEMMA PollerLocks ==
    ASSUME TypeInv, NEW s \in Pollers, PollerStep(s), ~ExecutorStep(s)
    PROVE  LockStep
<1> USE ActorsOK
<1>1. CASE Poll(s)
  BY <1>1, NoLock, SameLock DEF Poll, GoTo, Locked, seen, slots
<1>2. CASE FetchDue(s)
  BY <1>2, NoLock DEF FetchDue, Locked, seen
<1>3. CASE NextExecution(s)
  <2>1. /\ UNCHANGED <<lock, overlapped>> /\ \A b \in Actors : b # s => job'[b] = job[b]
        /\ \E l \in {"release", "lockExec"} : pc' = [pc EXCEPT ![s] = l]
    BY <1>3 DEF NextExecution, GoTo, seen, TypeInv, SlotInv
  <2> QED BY <2>1, NoLock DEF Locked
<1>4. CASE LockExecution(s)
  <2>1. /\ pc[s] = "lockExec" /\ job[s] \in Execs /\ UNCHANGED <<overlapped, job>>
        /\ lock \in [Execs -> {"free", "trigger", "resume"}]
    BY <1>4 DEF LockExecution, GoTo, TypeInv, SlotInv, LockType, seen, Resuming
  <2>2. UNCHANGED lock \/ (lock[job[s]] = "free" /\ lock' = [lock EXCEPT ![job[s]] = "resume"])
    BY <1>4 DEF LockExecution
  <2>3. \A e \in Execs : lock'[e] # lock[e] => LockChanges(e)
    BY <2>1, <2>2 DEF LockChanges
  <2>4. CASE GoTo(s, "batch")
    BY <2>1, <2>3, <2>4 DEF LockStep, Holds, GoTo, TypeInv, SlotInv, Locked
  <2>5. CASE lock[job[s]] = "free" /\ lock' = [lock EXCEPT ![job[s]] = "resume"] /\ GoTo(s, "load")
    <3>1. Got(s, job[s])
      BY <2>1, <2>5 DEF Got, GoTo, TypeInv, SlotInv
    <3> QED BY <2>1, <2>3, <2>5, <3>1 DEF LockStep, Holds, GoTo, TypeInv, SlotInv
  <2> QED BY <1>4, <2>4, <2>5 DEF LockExecution
<1>5. CASE LoadForResume(s) \/ GetLatest(s)
  BY <1>5, NoLock DEF LoadForResume, GetLatest, GoTo, Locked, seen
<1>6. CASE ReleasePollLock(s)
  BY <1>6, IdleNoLock DEF ReleasePollLock, seen
<1> QED BY <1>1, <1>2, <1>3, <1>4, <1>5, <1>6 DEF PollerStep

LEMMA NextLocks == ASSUME TypeInv, [Next]_vars PROVE LockStep
<1>1. CASE UNCHANGED vars
  BY <1>1, SameLock DEF vars
<1>2. ASSUME NEW e \in Execs, PublishTrigger(e) \/ ExpireAckWait(e) \/ DelayEnds(e) PROVE LockStep
  BY <1>2, SameLock DEF PublishTrigger, ExpireAckWait, DelayEnds, slots, seen
<1>3. ASSUME NEW e \in Execs, ExpireLock(e) PROVE LockStep
  <2>1. UNCHANGED <<pc, job>> /\ \A f \in Execs : f # e => lock'[f] = lock[f]
    BY <1>3 DEF ExpireLock, slots, TypeInv, LockType
  <2>2. (Held(e) => overlapped'[e]) /\ (~Held(e) => UNCHANGED overlapped)
    BY <1>3 DEF ExpireLock, TypeInv, SeenType
  <2>3. \A f \in Execs : ~overlapped'[f] => ~overlapped[f]
    BY Zenon, <1>3 DEF ExpireLock, TypeInv, SeenType
  <2> QED BY <2>1, <2>2, <2>3 DEF LockStep, Holds, LockChanges
<1>4. CASE ChangeStatus \/ ExpirePollLock
  BY <1>4, SameLock DEF ChangeStatus, ExpirePollLock, slots, seen
<1>5. ASSUME NEW a \in Actors, Crash(a) PROVE LockStep
  BY <1>5, IdleNoLock DEF Crash, seen
<1> QED BY <1>1, <1>2, <1>3, <1>4, <1>5, WorkerLocks, ExecutorLocks, PollerLocks, ActorsOK DEF Next

LEMMA NextLockHeld == ASSUME TypeInv, OneRun, LockHeld, [Next]_vars PROVE LockHeld'
BY NextLocks, LockHeldKept

LEMMA InitLockHeld == Init => LockHeld
BY DEF Init, LockHeld, Holds, Locked

-----------------------------------------------------------------------------
(* What a step may do to the executions and to who stands at a node.        *)

Standing == {"lock", "node", "advance", "resume"}
Same(a)  == pc'[a] \in Standing => pc'[a] = pc[a] /\ job'[a] = job[a] /\ pos'[a] = pos[a]
Others(a) == \A b \in Actors : b # a => Same(b)

Still == UNCHANGED <<nodes, row, mailed, served>> /\ \A a \in Actors : Same(a)

Inserted(w) ==
    /\ job[w] \in Execs /\ row[job[w]].status = "absent" /\ row' = Created(job[w])
    /\ pc'[w] \notin Standing \/ (pc'[w] = "lock" /\ job'[w] = job[w])
    /\ UNCHANGED <<nodes, mailed, served>> /\ Others(w)

Started(w) ==
    /\ pc[w] = "lock" /\ pc'[w] = "node" /\ pos'[w] = 1 /\ job'[w] = job[w]
    /\ UNCHANGED <<nodes, row, mailed, served>> /\ Others(w)

Resumed(s) ==
    /\ pc[s] = "latest" /\ row[job[s]].status = "waiting"
    /\ pc'[s] = "resume" /\ pos'[s] = row[job[s]].at /\ job'[s] = job[s]
    /\ UNCHANGED <<nodes, row, mailed, served>> /\ Others(s)

AtEmail(a) == pos[a] \in NodeIds /\ nodes[pos[a]] = "email"
Mails(a) ==
    /\ pc[a] = "node" /\ AtEmail(a)
    /\ mailed' \in {mailed, [mailed EXCEPT ![job[a]][pos[a]] = @ + 1]}
    /\ \/ pc'[a] = "fail" /\ UNCHANGED served
       \/ pc'[a] = "advance" /\ served' = [served EXCEPT ![job[a]] = @ \cup {pos[a]}]
    /\ pos'[a] = pos[a] /\ job'[a] = job[a]
    /\ UNCHANGED <<nodes, row>> /\ Others(a)

\* The executor's writes: the row is new, or the actor fails.
Wrote(a, new, l) ==
    /\ row' \in {row, new} /\ pc'[a] \in {l, "fail"} /\ (pc'[a] = l => row' = new)
    /\ job'[a] = job[a] /\ UNCHANGED <<nodes, mailed, served>> /\ Others(a)

Leaves(a) == \/ pc[a] \in {"advance", "resume"}
             \/ pc[a] = "node" /\ pos[a] \in NodeIds /\ nodes[pos[a]] = "trigger"
Moves(a) == /\ Leaves(a) /\ Wrote(a, AdvanceExecution(job[a], pos[a] + 1), "node")
            /\ pos'[a] = pos[a] + 1
Delays(a) == /\ pc[a] = "node" /\ pos[a] \in NodeIds
             /\ Wrote(a, ScheduleDelay(job[a], pos[a]), "done")
Ends(a) == /\ \/ Leaves(a) /\ pos[a] = Len(nodes)
              \/ pc[a] = "node" /\ pos[a] \in NodeIds /\ nodes[pos[a]] = "end"
           /\ Wrote(a, CompleteExecution(job[a]), "done")
Fails(a) == /\ pc[a] \in {"fail", "reject"} /\ pc'[a] \notin Standing
            /\ row' \in {row, [row EXCEPT ![job[a]].status = "failed"]}
            /\ UNCHANGED <<nodes, mailed, served>> /\ Others(a)

Progress == \/ \E w \in Workers : Inserted(w) \/ Started(w)
            \/ \E s \in Pollers : Resumed(s)
            \/ \E a \in Actors : Mails(a) \/ Moves(a) \/ Delays(a) \/ Ends(a) \/ Fails(a)
            \/ \E e \in Execs : DelayEnds(e)

LEMMA GoStill ==
    ASSUME TypeInv, UNCHANGED <<nodes, row, mailed, served>>, NEW a \in Actors,
           \/ Idle(a)
           \/ UNCHANGED pos /\ (\A b \in Actors : b # a => pc'[b] = pc[b] /\ job'[b] = job[b])
              /\ pc'[a] \notin Standing
    PROVE  Still
<1>1. \A b \in Actors : b # a => pc'[b] = pc[b] /\ job'[b] = job[b] /\ pos'[b] = pos[b]
  BY DEF TypeInv, SlotInv, PosInv, Idle
<1>2. pc'[a] \notin Standing
  BY DEF TypeInv, SlotInv, Idle, Standing
<1> QED BY <1>1, <1>2 DEF Still, Same

LEMMA GoOthers ==
    ASSUME TypeInv, NEW a \in Actors, NEW l, pc' = [pc EXCEPT ![a] = l], UNCHANGED job,
           \A b \in Actors : b # a => pos'[b] = pos[b]
    PROVE  pc'[a] = l /\ job'[a] = job[a] /\ Others(a)
BY DEF TypeInv, SlotInv, Others, Same

LEMMA WorkerKinds ==
    ASSUME TypeInv, NEW w \in Workers, WorkerStep(w) \/ Timeout(w), ~ExecutorStep(w)
    PROVE  Still \/ Inserted(w) \/ Started(w)
<1> USE ActorsOK
<1>1. ASSUME NEW e \in Execs, Receive(w, e) PROVE Still
  <2>1. UNCHANGED <<nodes, row, mailed, served, pos>> /\ pc'[w] \notin Standing
    BY <1>1 DEF Receive, db, seen, Standing, TypeInv, SlotInv
  <2>2. \A b \in Actors : b # w => pc'[b] = pc[b] /\ job'[b] = job[b]
    BY <1>1 DEF Receive, TypeInv, SlotInv
  <2> QED BY <2>1, <2>2, GoStill
<1>2. ASSUME CheckTrigger(w) \/ SettleTrigger(w) \/ Timeout(w) PROVE Still
  <2>1. UNCHANGED <<nodes, row, mailed, served>>
    BY <1>2 DEF CheckTrigger, SettleTrigger, Timeout, db, seen
  <2>2. Idle(w) \/ GoTo(w, "create") \/ GoTo(w, "unlock")
    BY <1>2 DEF CheckTrigger, SettleTrigger, Timeout
  <2> QED BY <2>1, <2>2, GoStill DEF GoTo, Standing, TypeInv, SlotInv
<1>3. ASSUME CreateExecution(w) PROVE Still \/ Inserted(w)
  <2>1. UNCHANGED <<nodes, mailed, served>> /\ job[w] \in Execs
    BY <1>3 DEF CreateExecution, seen, TypeInv, SlotInv
  <2>2. CASE Idle(w) /\ UNCHANGED row
    BY <2>1, <2>2, GoStill
  <2>3. CASE Idle(w) /\ row[job[w]].status = "absent" /\ row' = Created(job[w])
    <3>1. Others(w) /\ pc'[w] \notin Standing
      BY <2>3 DEF Idle, Others, Same, Standing, TypeInv, SlotInv, PosInv
    <3> QED BY <2>1, <2>3, <3>1 DEF Inserted
  <2>4. CASE GoTo(w, "lock") /\ row[job[w]].status = "absent" /\ row' = Created(job[w])
    BY <2>1, <2>4, GoOthers DEF Inserted, GoTo
  <2> QED BY <1>3, <2>2, <2>3, <2>4 DEF CreateExecution
<1>4. ASSUME AcquireLock(w) PROVE Still \/ Started(w)
  <2>1. UNCHANGED <<nodes, row, mailed, served>> /\ pc[w] = "lock"
    BY <1>4 DEF AcquireLock, seen, db
  <2>2. CASE Idle(w)
    BY <2>1, <2>2, GoStill
  <2>3. CASE /\ pc' = [pc EXCEPT ![w] = IF nodes = Garbled THEN "reject" ELSE "node"]
             /\ pos' = [pos EXCEPT ![w] = 1] /\ UNCHANGED job
    <3>1. pos'[w] = 1 /\ \A b \in Actors : b # w => pos'[b] = pos[b]
      BY <2>3 DEF TypeInv, PosInv
    <3>2. Others(w) /\ job'[w] = job[w] /\ pc'[w] \in {"reject", "node"}
      BY <2>3, <3>1, GoOthers
    <3> QED BY <2>1, <3>1, <3>2 DEF Started, Still, Others, Same, Standing
  <2> QED BY <1>4, <2>2, <2>3 DEF AcquireLock
<1> QED BY <1>1, <1>2, <1>3, <1>4 DEF WorkerStep

LEMMA PollerKinds ==
    ASSUME TypeInv, NEW s \in Pollers, PollerStep(s), ~ExecutorStep(s)
    PROVE  Still \/ Resumed(s)
<1> USE ActorsOK
<1>1. CASE GetLatest(s)
  <2>1. UNCHANGED <<nodes, row, mailed, served>> /\ pc[s] = "latest"
    BY <1>1 DEF GetLatest, db, seen
  <2>2. CASE GoTo(s, "unlock")
    BY <2>1, <2>2, GoStill DEF GoTo, Standing, TypeInv, SlotInv
  <2>3. CASE /\ row[job[s]].status = "waiting" /\ pc' = [pc EXCEPT ![s] = "resume"]
             /\ pos' = [pos EXCEPT ![s] = row[job[s]].at] /\ UNCHANGED job
    <3>1. pos'[s] = row[job[s]].at /\ \A b \in Actors : b # s => pos'[b] = pos[b]
      BY <2>3 DEF TypeInv, PosInv
    <3> QED BY <2>1, <2>3, <3>1, GoOthers DEF Resumed
  <2> QED BY <1>1, <2>2, <2>3 DEF GetLatest
<1>2. CASE ReleasePollLock(s)
  BY <1>2, GoStill DEF ReleasePollLock, db, seen
<1>3. CASE Poll(s) /\ UNCHANGED slots
  BY <1>3 DEF Poll, Still, Same, slots, db, seen
<1>4. CASE Poll(s) /\ GoTo(s, "fetch")
  BY <1>4, GoStill DEF Poll, GoTo, Standing, TypeInv, SlotInv, db, seen
<1>5. CASE FetchDue(s) \/ NextExecution(s) \/ LockExecution(s) \/ LoadForResume(s)
  <2>1. UNCHANGED <<nodes, row, mailed, served, pos>>
    BY <1>5 DEF FetchDue, NextExecution, LockExecution, LoadForResume, GoTo, db, seen
  <2>2. PICK l \in Labels : l \notin Standing /\ pc' = [pc EXCEPT ![s] = l]
    BY <1>5 DEF FetchDue, NextExecution, LockExecution, LoadForResume, GoTo, Standing, Labels, Locked
  <2>3. \A b \in Actors : b # s => job'[b] = job[b]
    BY <1>5 DEF FetchDue, NextExecution, LockExecution, LoadForResume, GoTo, TypeInv, SlotInv
  <2> QED BY <2>1, <2>2, <2>3, GoStill DEF TypeInv, SlotInv
<1> QED BY <1>1, <1>2, <1>3, <1>4, <1>5 DEF PollerStep, Poll

LEMMA ExecutorKinds ==
    ASSUME TypeInv, NEW a \in Actors, ExecutorStep(a)
    PROVE  Still \/ Mails(a) \/ Moves(a) \/ Delays(a) \/ Ends(a) \/ Fails(a)
<1>1. CASE BadNode(a) \/ ReleaseLock(a)
  <2>1. UNCHANGED <<nodes, row, mailed, served>>
    BY <1>1 DEF BadNode, ReleaseLock, db, seen
  <2>2. Idle(a) \/ GoTo(a, "fail") \/ GoTo(a, "batch")
    BY <1>1 DEF BadNode, ReleaseLock
  <2> QED BY <2>1, <2>2, GoStill DEF GoTo, Standing, TypeInv, SlotInv
<1>2. CASE EmailNode(a)
  <2>1. pc[a] = "node" /\ AtEmail(a) /\ UNCHANGED <<nodes, row, job, pos>>
    BY <1>2, AtNode DEF EmailNode, GoTo, AtEmail, db
  <2>2. mailed' \in {mailed, [mailed EXCEPT ![job[a]][pos[a]] = @ + 1]}
    BY <1>2 DEF EmailNode
  <2>3. \/ GoTo(a, "fail") /\ UNCHANGED served
        \/ GoTo(a, "advance") /\ served' = [served EXCEPT ![job[a]] = @ \cup {pos[a]}]
    BY <1>2 DEF EmailNode
  <2> QED BY <2>1, <2>2, <2>3, GoOthers DEF Mails, GoTo
<1>3. CASE FailExecution(a)
  <2>1. /\ pc[a] \in {"fail", "reject"} /\ UNCHANGED <<nodes, mailed, served, job, pos>>
        /\ row' \in {row, [row EXCEPT ![job[a]].status = "failed"]}
        /\ \E l \in {"unlock", "nak", "done"} : pc' = [pc EXCEPT ![a] = l]
    BY <1>3 DEF FailExecution, GoTo, seen
  <2> QED BY <2>1, GoOthers DEF Fails, Standing
<1>4. ASSUME NEW new, NEW l \in {"node", "done"}, WriteRow(a, new, l), UNCHANGED <<nodes, mailed, served, job>>,
             \A b \in Actors : b # a => pos'[b] = pos[b]
      PROVE  Wrote(a, new, l)
  <2>1. CASE row' = new /\ pc' = [pc EXCEPT ![a] = l]
    BY <1>4, <2>1, GoOthers DEF Wrote
  <2>2. CASE row' \in {row, new} /\ pc' = [pc EXCEPT ![a] = "fail"]
    <3>1. pc'[a] = "fail" /\ job'[a] = job[a] /\ Others(a)
      BY <1>4, <2>2, GoOthers
    <3>2. pc'[a] # l
      BY <1>4, <3>1
    <3> QED BY <1>4, <2>2, <3>1, <3>2 DEF Wrote
  <2> QED BY <1>4, <2>1, <2>2 DEF WriteRow
<1>5. CASE Advance(a)
  <2>1. UNCHANGED <<nodes, mailed, served, job>> /\ Leaves(a)
    BY <1>5, AtNode DEF Advance, Leaves, seen
  <2>2. CASE Last(a)
    BY <1>4, <1>5, <2>1, <2>2 DEF Advance, Ends, Last
  <2>3. CASE ~Last(a)
    <3>1. /\ WriteRow(a, AdvanceExecution(job[a], pos[a] + 1), "node")
          /\ pos' = [pos EXCEPT ![a] = @ + 1] /\ pos \in [Actors -> Nat]
      BY <1>5, <2>3 DEF Advance, TypeInv, PosInv
    <3>2. pos'[a] = pos[a] + 1 /\ \A b \in Actors : b # a => pos'[b] = pos[b]
      BY <3>1
    <3> QED BY <1>4, <2>1, <3>1, <3>2 DEF Moves
  <2> QED BY <2>2, <2>3
<1>6. CASE DelayNode(a)
  BY <1>4, <1>6, AtNode DEF DelayNode, Delays, seen
<1>7. CASE EndNode(a)
  BY <1>4, <1>7, AtNode DEF EndNode, Ends, seen
<1> QED BY <1>1, <1>2, <1>3, <1>5, <1>6, <1>7 DEF ExecutorStep

LEMMA StepKinds == ASSUME TypeInv, [Next]_vars PROVE Still \/ Progress
<1> USE ActorsOK
<1>1. CASE UNCHANGED vars
  BY <1>1 DEF vars, Still, Same
<1>2. ASSUME NEW e \in Execs, PublishTrigger(e) \/ ExpireAckWait(e) \/ ExpireLock(e) PROVE Still
  BY <1>2 DEF PublishTrigger, ExpireAckWait, ExpireLock, slots, seen, db, Still, Same
<1>3. CASE ChangeStatus \/ ExpirePollLock
  BY <1>3 DEF ChangeStatus, ExpirePollLock, slots, seen, db, Still, Same
<1>4. ASSUME NEW a \in Actors, Crash(a) PROVE Still
  BY <1>4, GoStill DEF Crash, seen, db
<1> QED BY <1>1, <1>2, <1>3, <1>4, WorkerKinds, PollerKinds, ExecutorKinds DEF Next, Progress

-----------------------------------------------------------------------------
(* At most one mail per email node.                                         *)

\* Positions are numbers.
LEMMA Positions ==
    ASSUME TypeInv
    PROVE  /\ NodeIds \subseteq Nat /\ \A k \in NodeIds : k >= 1
           /\ \A a \in Actors : pos[a] \in Nat
           /\ \A e \in Execs : row[e].at \in Nat
           /\ \A e \in Execs, i \in NodeIds : mailed[e][i] \in Nat
<1>1. NodeIds \subseteq Nat /\ \A k \in NodeIds : k >= 1
  BY NodesOK DEF TypeInv, NodeIds
<1>2. row \in [Execs -> Rows] /\ pos \in [Actors -> Nat] /\ mailed \in [Execs -> [NodeIds -> Nat]]
  BY DEF TypeInv, RowType, PosInv, MailType
<1>3. \A e \in Execs : row[e].at \in {0} \cup NodeIds
  BY <1>2 DEF Rows
<1>4. \A e \in Execs, i \in NodeIds : mailed[e][i] \in Nat
  BY <1>2
<1>5. \A a \in Actors : pos[a] \in Nat
  BY <1>2
<1>6. ASSUME NEW e \in Execs PROVE row[e].at \in Nat
  <2>1. \A n \in {0} \cup NodeIds : n \in Nat
    BY <1>1
  <2> QED BY <1>3, <2>1
<1> QED BY <1>1, <1>4, <1>5, <1>6

\* Nobody but a has e in hand: what the invariant says of e follows from what a did.
LEMMA MailedByOne ==
    ASSUME TypeInv, UNCHANGED nodes, NEW e \in Execs, NEW a \in Actors, MailedTo(e), Others(a),
           \A w \in Workers : ~(pc[w] = "lock" /\ job[w] = e) \/ w = a,
           \A b \in Actors : Holds(b, e) => b = a,
           pc'[a] # "lock",
           \A i \in NodeIds : mailed'[e][i] <= 1,
           row'[e].status = "absent" => Unmailed(e, 0)',
           row'[e].status = "waiting" => Unmailed(e, row[e].at + 1)',
           Holds(a, e)' => /\ pc'[a] \in {"node", "advance"} => row'[e].status = "running"
                           /\ pc'[a] = "node" => Unmailed(e, pos[a])'
                           /\ pc'[a] \in {"advance", "resume"} => Unmailed(e, pos[a] + 1)'
    PROVE  MailedTo(e)'
<1>1. NodeIds' = NodeIds
  BY DEF NodeIds
<1>2. \A w \in Workers : ~(pc'[w] = "lock" /\ job'[w] = e)
  BY ActorsOK DEF Others, Same, Standing
<1>3. ASSUME NEW b \in Actors, Holds(b, e)', pc'[b] \in {"node", "advance", "resume"} PROVE b = a
  BY <1>3 DEF Others, Same, Standing, Holds, Locked
<1>4. ASSUME NEW b \in Actors, Holds(b, e)'
      PROVE  /\ pc'[b] \in {"node", "advance"} => row'[e].status = "running"
             /\ pc'[b] = "node" => Unmailed(e, pos[b])'
             /\ pc'[b] \in {"advance", "resume"} => Unmailed(e, pos[b] + 1)'
  BY <1>3, <1>4
<1> QED BY <1>1, <1>2, <1>4 DEF MailedTo

\* Nothing was written of e, and nobody new stands at a node of it.
LEMMA MailedSame ==
    ASSUME UNCHANGED nodes, NEW e \in Execs, MailedTo(e), mailed'[e] = mailed[e],
           row'[e].status = row[e].status, row'[e].at = row[e].at,
           \A b \in Actors : Same(b) \/ job'[b] # e
    PROVE  MailedTo(e)'
<1>1. NodeIds' = NodeIds
  BY DEF NodeIds
<1>2. \A i : Unmailed(e, i) = Unmailed(e, i)'
  BY <1>1 DEF Unmailed
<1>3. ASSUME NEW b \in Actors, job'[b] = e, pc'[b] \in Standing
      PROVE  job[b] = e /\ pc'[b] = pc[b] /\ pos'[b] = pos[b]
  BY <1>3 DEF Same
<1>4. \A w \in Workers : pc'[w] = "lock" /\ job'[w] = e => Unmailed(e, 0)'
  BY <1>2, <1>3, ActorsOK DEF MailedTo, Standing
<1>5. ASSUME NEW b \in Actors, Holds(b, e)'
      PROVE  /\ pc'[b] \in {"node", "advance"} => row'[e].status = "running"
             /\ pc'[b] = "node" => Unmailed(e, pos[b])'
             /\ pc'[b] \in {"advance", "resume"} => Unmailed(e, pos[b] + 1)'
  <2>1. CASE pc'[b] \in {"node", "advance", "resume"}
    <3>1. job[b] = e /\ pc'[b] = pc[b] /\ pos'[b] = pos[b] /\ Holds(b, e)
      BY <1>3, <1>5, <2>1 DEF Holds, Standing, Locked
    <3>2. Unmailed(e, pos[b])' = Unmailed(e, pos[b]) /\ Unmailed(e, pos[b] + 1)' = Unmailed(e, pos[b] + 1)
      BY <1>1, <3>1 DEF Unmailed
    <3> QED BY <3>1, <3>2 DEF MailedTo
  <2> QED BY <2>1
<1>6. (row'[e].status = "absent" => Unmailed(e, 0)') /\ (row'[e].status = "waiting" => Unmailed(e, row[e].at + 1)')
  BY <1>1 DEF MailedTo, Unmailed
<1> QED BY <1>1, <1>4, <1>5, <1>6 DEF MailedTo

\* What happens to e while its lock does not expire under its holder.
LEMMA NextMailedTo ==
    ASSUME TypeInv, OneRun, LockHeld, NEW e \in Execs, ~overlapped[e], MailedTo(e), Still \/ Progress
    PROVE  MailedTo(e)'
<1> USE ActorsOK
<1>0. row \in [Execs -> Rows] /\ mailed \in [Execs -> [NodeIds -> Nat]]
  BY DEF TypeInv, RowType, MailType
<1>h. \A a, b \in Actors : Holds(a, e) /\ Holds(b, e) => a = b
  BY DEF LockHeld
\* The executor's steps: the actor holds the lock, alone.
<1>a. ASSUME NEW a \in Actors, pc[a] \in {"node", "advance", "resume", "fail", "reject"}, job[a] = e
      PROVE  /\ Holds(a, e) /\ \A b \in Actors : Holds(b, e) => b = a
             /\ \A w \in Workers : ~(pc[w] = "lock" /\ job[w] = e)
  <2>1. Holds(a, e)
    BY <1>a DEF Holds, Locked
  <2> QED BY <1>h, <2>1, NobodyYet
<1>b. ASSUME NEW a \in Actors, Others(a), UNCHANGED nodes, row'[e] = row[e], mailed'[e] = mailed[e],
             job'[a] # e \/ pc'[a] \notin Standing
      PROVE  MailedTo(e)'
  BY <1>b, MailedSame DEF Others, Same
<1>1. CASE Still
  BY <1>1, MailedSame DEF Still
<1>2. ASSUME NEW w \in Workers, Inserted(w) PROVE MailedTo(e)'
  <2>1. CASE job[w] # e
    <3>1. row'[e] = row[e]
      BY <1>0, <1>2, <2>1 DEF Inserted, Created
    <3> QED BY <1>2, <1>b, <2>1, <3>1 DEF Inserted
  <2>2. CASE job[w] = e
    <3>1. row[e].status = "absent" /\ row'[e].status = "running" /\ Unmailed(e, 0) /\ UNCHANGED <<nodes, mailed>>
      BY <1>0, <1>2, <2>2 DEF Inserted, Created, MailedTo, Rows
    <3>2. NodeIds' = NodeIds /\ \A i : Unmailed(e, i)' = Unmailed(e, i)
      BY <3>1 DEF NodeIds, Unmailed
    <3>3. \A k \in NodeIds : k >= 0 /\ mailed[e][k] = 0
      BY <3>1, Positions DEF Unmailed
    <3>4. \A v \in Workers : pc'[v] = "lock" /\ job'[v] = e => Unmailed(e, 0)'
      BY <3>1, <3>2
    <3>5. ASSUME NEW b \in Actors, Holds(b, e)'
          PROVE  /\ pc'[b] \in {"node", "advance"} => row'[e].status = "running"
                 /\ pc'[b] = "node" => Unmailed(e, pos[b])'
                 /\ pc'[b] \in {"advance", "resume"} => Unmailed(e, pos[b] + 1)'
      BY <3>1, <3>2, <3>3 DEF Unmailed
    <3> QED BY <3>1, <3>2, <3>3, <3>4, <3>5 DEF MailedTo
  <2> QED BY <2>1, <2>2
<1>3. ASSUME NEW w \in Workers, Started(w) PROVE MailedTo(e)'
  <2>1. CASE job[w] # e
    BY <1>3, <1>b, <2>1 DEF Started
  <2>2. CASE job[w] = e
    <3>1. row[e].status = "running" /\ Unmailed(e, 0) /\ UNCHANGED <<nodes, mailed, row>>
      BY <1>3, <2>2 DEF Started, MailedTo, OneRun, Running
    <3>2. NodeIds' = NodeIds /\ Unmailed(e, 1)' /\ pos'[w] = 1 /\ pc'[w] = "node"
      BY <1>3, <3>1, Positions DEF NodeIds, Unmailed, Started
    <3>3. \A b \in Actors : ~Holds(b, e)
      BY <1>3, <2>2, NobodyYet DEF Started
    <3>4. \A v \in Workers : pc[v] = "lock" /\ job[v] = e => v = w
      BY <1>3, <2>2 DEF Started, OneRun, Begun
    <3>5. (Unmailed(e, pos[w]))'
      BY <3>2 DEF Unmailed
    <3>6. (row'[e].status # "absent") /\ row'[e].status # "waiting" /\ \A i \in NodeIds : mailed'[e][i] <= 1
      BY <3>1 DEF MailedTo
    <3> QED BY <1>3, <3>1, <3>2, <3>3, <3>4, <3>5, <3>6, MailedByOne DEF Started
  <2> QED BY <2>1, <2>2
<1>4. ASSUME NEW s \in Pollers, Resumed(s) PROVE MailedTo(e)'
  <2>1. CASE job[s] # e
    BY <1>4, <1>b, <2>1 DEF Resumed
  <2>2. CASE job[s] = e
    <3>1. Holds(s, e) /\ \A b \in Actors : Holds(b, e) => b = s
      BY <1>4, <1>h, <2>2 DEF Resumed, Holds, Locked
    <3>2. /\ row[e].status = "waiting" /\ UNCHANGED <<nodes, row, mailed>> /\ pos'[s] = row[e].at
          /\ pc'[s] = "resume" /\ Unmailed(e, row[e].at + 1)
      BY <1>4, <2>2 DEF Resumed, MailedTo
    <3>3. Unmailed(e, row[e].at + 1)' /\ Unmailed(e, pos[s] + 1)'
      BY <3>2 DEF Unmailed, NodeIds
    <3>4. \A w \in Workers : ~(pc[w] = "lock" /\ job[w] = e)
      BY <3>1, NobodyYet
    <3>5. \A i \in NodeIds : mailed'[e][i] <= 1
      BY <3>2 DEF MailedTo
    <3> QED BY <1>4, <3>1, <3>2, <3>3, <3>4, <3>5, MailedByOne DEF Resumed
  <2> QED BY <2>1, <2>2
<1>5. ASSUME NEW a \in Actors, Mails(a) PROVE MailedTo(e)'
  <2>0. pc[a] = "node" /\ pos[a] \in NodeIds /\ job[a] \in Execs /\ UNCHANGED <<nodes, row>>
    BY <1>5 DEF Mails, AtEmail, TypeInv, SlotInv, Resuming, Locked, Actors
  <2>1. CASE job[a] # e
    <3>1. mailed'[e] = mailed[e]
      BY <1>0, <1>5, <2>0, <2>1 DEF Mails
    <3> QED BY <1>5, <1>b, <2>1, <3>1 DEF Mails
  <2>2. CASE job[a] = e
    <3>1. /\ Holds(a, e) /\ \A b \in Actors : Holds(b, e) => b = a
          /\ \A w \in Workers : ~(pc[w] = "lock" /\ job[w] = e)
      BY <1>a, <2>0, <2>2
    <3>2. row[e].status = "running" /\ Unmailed(e, pos[a])
      BY <2>0, <3>1 DEF MailedTo
    <3>3. \A i \in NodeIds : mailed'[e][i] = mailed[e][i] \/ (i = pos[a] /\ mailed'[e][i] = mailed[e][i] + 1)
      BY <1>0, <1>5, <2>0, <2>2 DEF Mails
    <3>4. mailed[e][pos[a]] = 0
      BY <2>0, <3>2, Positions DEF Unmailed
    <3>5. \A i \in NodeIds : mailed'[e][i] <= 1
      BY <3>3, <3>4 DEF MailedTo
    <3>6. \A i \in NodeIds : i >= pos[a] + 1 => mailed'[e][i] = 0
      BY <2>0, <3>2, <3>3, Positions DEF Unmailed
    <3>7. pos'[a] = pos[a] /\ NodeIds' = NodeIds /\ pc'[a] \in {"advance", "fail"}
      BY <1>5, <2>0 DEF Mails, NodeIds
    <3>8. Unmailed(e, pos[a] + 1)'
      BY <3>6, <3>7 DEF Unmailed
    <3> QED BY <1>5, <2>0, <3>1, <3>2, <3>5, <3>7, <3>8, MailedByOne DEF Mails
  <2> QED BY <2>1, <2>2
<1>6. ASSUME NEW a \in Actors, NEW new, NEW l \in {"node", "done"}, Wrote(a, new, l), job[a] \in Execs,
             pc[a] \in {"node", "advance", "resume"},
             \A f \in Execs : f # job[a] => new[f] = row[f],
             new[job[a]].status # "absent",
             job[a] = e => /\ new[e].status = "waiting" => Unmailed(e, new[e].at + 1)
                           /\ l = "node" => Unmailed(e, pos'[a]) /\ new[e].status = "running"
      PROVE  MailedTo(e)'
  <2>0. /\ UNCHANGED <<nodes, mailed>> /\ NodeIds' = NodeIds /\ Others(a) /\ job'[a] = job[a]
        /\ row' \in {row, new} /\ pc'[a] \in {l, "fail"} /\ (pc'[a] = l => row' = new)
    BY <1>6 DEF Wrote, NodeIds
  <2>1. CASE job[a] # e
    BY <1>6, <1>b, <2>0, <2>1
  <2>2. CASE job[a] = e
    <3>1. /\ Holds(a, e) /\ \A b \in Actors : Holds(b, e) => b = a
          /\ \A w \in Workers : ~(pc[w] = "lock" /\ job[w] = e)
      BY <1>6, <1>a, <2>2
    <3>2. \A i \in NodeIds : mailed'[e][i] <= 1
      BY <2>0 DEF MailedTo
    <3>3. row'[e].status = "waiting" => Unmailed(e, row[e].at + 1)'
      BY <1>6, <2>0, <2>2 DEF MailedTo, Unmailed
    <3>4. row'[e].status = "absent" => Unmailed(e, 0)'
      BY <1>6, <2>0, <2>2 DEF MailedTo, Unmailed
    <3>5. pc'[a] # "lock" /\ (pc'[a] \in {"node", "advance", "resume"} => pc'[a] = "node" /\ l = "node" /\ row' = new)
      BY <1>6, <2>0
    <3>6. pc'[a] = "node" => Unmailed(e, pos[a])'
      BY <1>6, <2>0, <2>2, <3>5 DEF Unmailed
    <3>7. Holds(a, e)' => /\ pc'[a] \in {"node", "advance"} => row'[e].status = "running"
                          /\ pc'[a] = "node" => Unmailed(e, pos[a])'
                          /\ pc'[a] \in {"advance", "resume"} => Unmailed(e, pos[a] + 1)'
      BY <1>6, <2>2, <3>5, <3>6
    <3> QED BY <2>0, <3>1, <3>2, <3>3, <3>4, <3>5, <3>7, MailedByOne
  <2> QED BY <2>1, <2>2
<1>7. ASSUME NEW a \in Actors, Leaves(a) \/ pc[a] = "node"
      PROVE  /\ pc[a] \in {"node", "advance", "resume"} /\ job[a] \in Execs
             /\ job[a] = e => /\ Unmailed(e, pos[a] + 1)
                              /\ pc[a] = "node" => row[e].status = "running"
  <2>1. pc[a] \in {"node", "advance", "resume"}
    BY <1>7 DEF Leaves
  <2>2. job[a] \in Execs
    BY <2>1 DEF TypeInv, SlotInv, Actors, Resuming, Locked
  <2>3. ASSUME job[a] = e PROVE Unmailed(e, pos[a] + 1) /\ (pc[a] = "node" => row[e].status = "running")
    <3>1. Holds(a, e)
      BY <2>1, <2>3 DEF Holds, Locked
    <3>2. \A k \in NodeIds : k >= pos[a] + 1 => k >= pos[a]
      BY Positions
    <3> QED BY <2>1, <3>1, <3>2 DEF MailedTo, Unmailed
  <2> QED BY <2>1, <2>2, <2>3
<1>8. ASSUME NEW a \in Actors, Moves(a) PROVE MailedTo(e)'
  <2>1. job[a] \in Execs /\ pc[a] \in {"node", "advance", "resume"}
    BY <1>7, <1>8 DEF Moves
  <2> DEFINE new == AdvanceExecution(job[a], pos[a] + 1)
  <2>2. (\A f \in Execs : f # job[a] => new[f] = row[f]) /\ new[job[a]].status = "running"
    BY <1>0, <2>1 DEF AdvanceExecution, Rows
  <2>3. Wrote(a, new, "node") /\ pos'[a] = pos[a] + 1
    BY <1>8 DEF Moves
  <2>4. job[a] = e => Unmailed(e, pos'[a])
    BY <1>7, <1>8, <2>3 DEF Moves
  <2> HIDE DEF new
  <2> QED BY <1>6, <2>1, <2>2, <2>3, <2>4
<1>9. ASSUME NEW a \in Actors, Delays(a) PROVE MailedTo(e)'
  <2>1. job[a] \in Execs /\ pc[a] = "node"
    BY <1>7, <1>9 DEF Delays
  <2> DEFINE new == ScheduleDelay(job[a], pos[a])
  <2>2. /\ \A f \in Execs : f # job[a] => new[f] = row[f]
        /\ new[job[a]].status = "waiting" /\ new[job[a]].at = pos[a]
    BY <1>0, <2>1 DEF ScheduleDelay, Rows
  <2>3. Wrote(a, new, "done")
    BY <1>9 DEF Delays
  <2>4. job[a] = e => Unmailed(e, new[e].at + 1)
    BY <1>7, <2>1, <2>2
  <2> HIDE DEF new
  <2> QED BY <1>6, <2>1, <2>2, <2>3, <2>4
<1>10. ASSUME NEW a \in Actors, Ends(a) PROVE MailedTo(e)'
  <2>1. job[a] \in Execs /\ pc[a] \in {"node", "advance", "resume"}
    BY <1>7, <1>10 DEF Ends
  <2> DEFINE new == CompleteExecution(job[a])
  <2>2. (\A f \in Execs : f # job[a] => new[f] = row[f]) /\ new[job[a]].status = "completed"
    BY <1>0, <2>1 DEF CompleteExecution, Rows
  <2>3. Wrote(a, new, "done")
    BY <1>10 DEF Ends
  <2> HIDE DEF new
  <2> QED BY <1>6, <2>1, <2>2, <2>3
<1>11. ASSUME NEW a \in Actors, Fails(a) PROVE MailedTo(e)'
  <2>1. row'[e] = row[e] \/ (job[a] = e /\ row'[e].status = "failed")
    BY <1>0, <1>11 DEF Fails, Rows
  <2>2. CASE row'[e] = row[e]
    BY <1>11, <1>b, <2>2 DEF Fails
  <2>3. CASE job[a] = e /\ row'[e].status = "failed"
    <3>1. /\ \A b \in Actors : Holds(b, e) => b = a
          /\ \A w \in Workers : ~(pc[w] = "lock" /\ job[w] = e)
      BY <1>11, <1>a, <2>3 DEF Fails
    <3>2. \A i \in NodeIds : mailed'[e][i] <= 1
      BY <1>11 DEF Fails, MailedTo
    <3>3. pc'[a] \notin {"lock", "node", "advance", "resume"} /\ UNCHANGED nodes /\ Others(a)
      BY <1>11 DEF Fails, Standing
    <3> QED BY <2>3, <3>1, <3>2, <3>3, MailedByOne
  <2> QED BY <2>1, <2>2, <2>3
<1>12. ASSUME NEW f \in Execs, DelayEnds(f) PROVE MailedTo(e)'
  <2>1. row'[e].status = row[e].status /\ row'[e].at = row[e].at /\ UNCHANGED <<nodes, mailed, pc, job, pos>>
    BY <1>0, <1>12 DEF DelayEnds, Rows, slots
  <2> QED BY <2>1, MailedSame DEF Same
<1> QED BY <1>1, <1>2, <1>3, <1>4, <1>5, <1>8, <1>9, <1>10, <1>11, <1>12 DEF Progress

LEMMA NextMailed == ASSUME MailInv, [Next]_vars PROVE MailedBehind'
<1>1. TypeInv /\ OneRun /\ LockHeld /\ MailedBehind /\ (Still \/ Progress) /\ LockStep
  BY StepKinds, NextLocks DEF MailInv
<1>2. ASSUME NEW e \in Execs, ~overlapped'[e] PROVE MailedTo(e)'
  BY <1>1, <1>2, NextMailedTo DEF LockStep, MailedBehind
<1> QED BY <1>2 DEF MailedBehind

LEMMA InitMailed == Init => MailedBehind
<1> SUFFICES ASSUME Init, NEW e \in Execs PROVE MailedTo(e)
  BY DEF MailedBehind
<1>1. \A i \in NodeIds : mailed[e][i] = 0
  BY DEF Init
<1> QED BY <1>1 DEF Init, MailedTo, Unmailed, Holds, Locked, Actors

\* An email node of an execution is mailed at most once, whatever crashed,
\* timed out, failed or was delivered again, unless the execution's lock
\* expired under its holder: the node's job is behind the node the holder is at
\* or the row names, and nobody goes back.
THEOREM EmailsAtMostOnce == Spec => []EmailsOnce
<1>1. Init => MailInv
  BY InitTypeInv, InitOneRun, InitLockHeld, InitMailed DEF MailInv
<1>2. MailInv /\ [Next]_vars => MailInv'
  BY NextTypeInv, NextOneRun, NextLockHeld, NextMailed DEF MailInv
<1>3. MailInv => EmailsOnce
  BY DEF MailInv, MailedBehind, MailedTo, EmailsOnce
<1> QED BY <1>1, <1>2, <1>3, PTL DEF Spec

-----------------------------------------------------------------------------
(* Completed means served.                                                  *)

\* Only Poll makes an idle poller busy, and it takes the free lock.
PollStep ==
    ~pollOverlap' =>
        /\ ~pollOverlap
        /\ \/ UNCHANGED pollLock /\ \A s \in Pollers : pc'[s] # "idle" => pc[s] # "idle"
           \/ \E s \in Pollers : /\ pollLock = "free" /\ pollLock' = "scheduler"
                                 /\ \A t \in Pollers : t # s => pc'[t] = pc[t]
           \/ \A s \in Pollers : pc'[s] = "idle"

LEMMA PollIdle ==
    ASSUME TypeInv, UNCHANGED <<pollLock, pollOverlap>>, NEW a \in Actors,
           \A b \in Actors : b # a => pc'[b] = pc[b],
           a \in Workers \/ pc[a] # "idle" \/ pc'[a] = "idle"
    PROVE  PollStep
BY ActorsOK DEF PollStep

LEMMA NextPoll == ASSUME TypeInv, OnePoller, [Next]_vars PROVE PollStep
<1> USE ActorsOK
<1>0. \A s \in Pollers, t \in Pollers : pc[s] # "idle" /\ pc[t] # "idle" => s = t
  BY DEF OnePoller
<1>1. CASE UNCHANGED vars
  BY <1>1 DEF vars, PollStep
<1>2. ASSUME NEW e \in Execs, PublishTrigger(e) \/ ExpireAckWait(e) \/ ExpireLock(e) \/ DelayEnds(e)
      PROVE  PollStep
  BY <1>2 DEF PublishTrigger, ExpireAckWait, ExpireLock, DelayEnds, slots, seen, PollStep
<1>3. CASE ChangeStatus
  BY <1>3 DEF ChangeStatus, slots, seen, PollStep
<1>4. CASE ExpirePollLock
  <2>1. CASE Polling
    BY <1>4, <2>1 DEF ExpirePollLock, PollStep
  <2>2. CASE ~Polling
    BY <1>4, <2>2 DEF ExpirePollLock, Polling, slots, PollStep
  <2> QED BY <2>1, <2>2
<1>5. ASSUME NEW a \in Actors, Crash(a) PROVE PollStep
  BY <1>5, PollIdle DEF Crash, Idle, seen, TypeInv, SlotInv
<1>6. ASSUME NEW a \in Actors, ExecutorStep(a) PROVE PollStep
  <2>1. /\ UNCHANGED <<pollLock, pollOverlap>> /\ pc[a] # "idle"
        /\ \A b \in Actors : b # a => pc'[b] = pc[b]
    BY <1>6 DEF ExecutorStep, BadNode, EmailNode, Advance, DelayNode, EndNode, FailExecution, ReleaseLock,
                WriteRow, GoTo, Idle, seen, TypeInv, SlotInv
  <2> QED BY <2>1, PollIdle
<1>7. ASSUME NEW w \in Workers, WorkerStep(w) \/ Timeout(w), ~ExecutorStep(w) PROVE PollStep
  <2>1. UNCHANGED <<pollLock, pollOverlap>> /\ \A b \in Actors : b # w => pc'[b] = pc[b]
    BY <1>7 DEF WorkerStep, Timeout, Receive, CheckTrigger, CreateExecution, AcquireLock, SettleTrigger,
                GoTo, Idle, seen, TypeInv, SlotInv
  <2> QED BY <2>1, PollIdle
<1>8. ASSUME NEW s \in Pollers, PollerStep(s), ~ExecutorStep(s) PROVE PollStep
  <2>1. CASE FetchDue(s) \/ NextExecution(s) \/ LockExecution(s) \/ LoadForResume(s) \/ GetLatest(s)
    <3>1. /\ UNCHANGED <<pollLock, pollOverlap>> /\ pc[s] # "idle"
          /\ \A b \in Actors : b # s => pc'[b] = pc[b]
      BY <2>1 DEF FetchDue, NextExecution, LockExecution, LoadForResume, GetLatest, GoTo, seen, TypeInv, SlotInv
    <3> QED BY <3>1, PollIdle
  <2>2. CASE Poll(s)
    <3>1. /\ pollLock = "free" /\ pollLock' = "scheduler" /\ UNCHANGED pollOverlap
          /\ \A t \in Pollers : t # s => pc'[t] = pc[t]
      BY <2>2 DEF Poll, GoTo, slots, seen, TypeInv, SlotInv
    <3> QED BY <3>1 DEF PollStep
  <2>3. CASE ReleasePollLock(s)
    <3>1. /\ pc[s] # "idle" /\ UNCHANGED pollOverlap /\ pc'[s] = "idle"
          /\ \A t \in Pollers : t # s => pc'[t] = pc[t]
      BY <2>3 DEF ReleasePollLock, Idle, seen, TypeInv, SlotInv
    <3>2. \A t \in Pollers : t # s => pc[t] = "idle"
      BY <1>0, <3>1
    <3> QED BY <3>1, <3>2 DEF PollStep
  <2> QED BY <1>8, <2>1, <2>2, <2>3 DEF PollerStep
<1> QED BY <1>1, <1>2, <1>3, <1>4, <1>5, <1>6, <1>7, <1>8 DEF Next

LEMMA OnePollerKept == ASSUME OnePoller, PollStep, ~pollOverlap' PROVE OnePoller'
<1>1. CASE UNCHANGED pollLock /\ \A s \in Pollers : pc'[s] # "idle" => pc[s] # "idle"
  BY <1>1 DEF OnePoller
<1>2. ASSUME NEW s \in Pollers, pollLock = "free", pollLock' = "scheduler",
             \A t \in Pollers : t # s => pc'[t] = pc[t]
      PROVE  OnePoller'
  <2>1. \A t \in Pollers : pc[t] = "idle"
    BY <1>2 DEF OnePoller
  <2> QED BY <1>2, <2>1 DEF OnePoller
<1>3. CASE \A s \in Pollers : pc'[s] = "idle"
  BY <1>3 DEF OnePoller
<1> QED BY <1>1, <1>2, <1>3 DEF PollStep

\* What a step does to a poller's batch and to the execution it has in hand.
BatchStep(s) ==
    \/ /\ batch'[s] = batch[s] /\ job'[s] = job[s]
       /\ pc'[s] \in Resuming => pc[s] \in Resuming
       /\ pc'[s] \in {"lockExec", "load", "latest"} => pc[s] \in {"lockExec", "load", "latest"}
       /\ pc'[s] \in {"idle", "fetch"} => pc[s] \in {"idle", "fetch"}
    \/ batch'[s] = {} /\ pc'[s] = "idle"
    \/ /\ pc'[s] = "batch" /\ UNCHANGED row
       /\ batch'[s] \subseteq batch[s] \cup {e \in Execs : row[e].status = "waiting" /\ row[e].due}
    \/ \E e \in batch[s] : batch'[s] = batch[s] \ {e} /\ job'[s] = e /\ pc'[s] = "lockExec"

LEMMA BatchOfOther ==
    ASSUME TypeInv, NEW s \in Pollers, pc'[s] = pc[s], job'[s] = job[s], batch'[s] = batch[s]
    PROVE  BatchStep(s)
BY DEF BatchStep

LEMMA BatchOfMover ==
    ASSUME TypeInv, NEW s \in Pollers, PollerStep(s)
    PROVE  BatchStep(s) /\ \A t \in Pollers : t # s => BatchStep(t)
<1> USE ActorsOK
<1>1. CASE Idle(s)
  BY <1>1, BatchOfOther DEF Idle, BatchStep, TypeInv, SlotInv
<1>2. CASE Poll(s)
  BY <1>2, BatchOfOther DEF Poll, GoTo, slots, BatchStep, TypeInv, SlotInv, Resuming, Locked
<1>3. CASE FetchDue(s)
  <2>1. UNCHANGED <<row, job>> /\ pc'[s] = "batch" /\ \A t \in Pollers : t # s => pc'[t] = pc[t] /\ batch'[t] = batch[t]
    BY <1>3 DEF FetchDue, db, TypeInv, SlotInv
  <2>2. batch'[s] \subseteq batch[s] \cup {e \in Execs : row[e].status = "waiting" /\ row[e].due}
    BY <1>3 DEF FetchDue, TypeInv, SlotInv
  <2> QED BY <2>1, <2>2, BatchOfOther DEF BatchStep
<1>4. CASE NextExecution(s)
  <2>1. pc[s] = "batch"
    BY <1>4 DEF NextExecution
  <2>2. CASE GoTo(s, "release")
    BY <2>1, <2>2, BatchOfOther DEF GoTo, BatchStep, TypeInv, SlotInv, Resuming, Locked
  <2>3. ASSUME NEW e \in batch[s], batch' = [batch EXCEPT ![s] = @ \ {e}],
               job' = [job EXCEPT ![s] = e], pc' = [pc EXCEPT ![s] = "lockExec"]
        PROVE  BatchStep(s) /\ \A t \in Pollers : t # s => BatchStep(t)
    <3>1. batch'[s] = batch[s] \ {e} /\ job'[s] = e /\ pc'[s] = "lockExec"
      BY <2>3 DEF TypeInv, SlotInv
    <3> QED BY <2>3, <3>1, BatchOfOther DEF BatchStep, TypeInv, SlotInv
  <2> QED BY <1>4, <2>2, <2>3 DEF NextExecution
<1>5. CASE LockExecution(s) \/ LoadForResume(s) \/ GetLatest(s)
  <2>1. UNCHANGED <<job, batch>> /\ pc[s] \in {"lockExec", "load", "latest"}
    BY <1>5 DEF LockExecution, LoadForResume, GetLatest, GoTo
  <2>2. PICK l \in {"load", "batch", "latest", "fail", "resume", "unlock"} : pc' = [pc EXCEPT ![s] = l]
    BY <1>5 DEF LockExecution, LoadForResume, GetLatest, GoTo
  <2> QED BY <2>1, <2>2, BatchOfOther DEF BatchStep, TypeInv, SlotInv, Resuming, Locked
<1>6. CASE ExecutorStep(s)
  <2>1. UNCHANGED <<job, batch>> /\ pc[s] \in Resuming
    BY <1>6 DEF ExecutorStep, BadNode, EmailNode, Advance, DelayNode, EndNode, FailExecution, ReleaseLock,
                GoTo, Resuming, Locked
  <2>2. PICK l \in {"node", "advance", "done", "fail", "unlock", "nak", "batch"} : pc' = [pc EXCEPT ![s] = l]
    BY <1>6 DEF ExecutorStep, BadNode, EmailNode, Advance, DelayNode, EndNode, FailExecution, ReleaseLock,
                GoTo, WriteRow
  <2> QED BY <2>1, <2>2, BatchOfOther DEF BatchStep, TypeInv, SlotInv
<1>7. CASE ReleasePollLock(s)
  BY <1>1, <1>7 DEF ReleasePollLock
<1> QED BY <1>2, <1>3, <1>4, <1>5, <1>6, <1>7 DEF PollerStep

LEMMA NextBatch == ASSUME TypeInv, [Next]_vars, NEW s \in Pollers PROVE BatchStep(s)
<1> USE ActorsOK
<1>1. CASE UNCHANGED vars
  BY <1>1, BatchOfOther DEF vars
<1>2. ASSUME NEW e \in Execs, PublishTrigger(e) \/ ExpireAckWait(e) \/ ExpireLock(e) \/ DelayEnds(e)
      PROVE  BatchStep(s)
  BY <1>2, BatchOfOther DEF PublishTrigger, ExpireAckWait, ExpireLock, DelayEnds, slots
<1>3. CASE ChangeStatus \/ ExpirePollLock
  BY <1>3, BatchOfOther DEF ChangeStatus, ExpirePollLock, slots
<1>4. ASSUME NEW w \in Workers, Idle(w) PROVE BatchStep(s)
  BY <1>4, BatchOfOther DEF Idle, TypeInv, SlotInv
<1>5. ASSUME NEW w \in Workers, WorkerStep(w) \/ Timeout(w) PROVE BatchStep(s)
  <2>1. CASE Idle(w)
    BY <1>4, <2>1
  <2>2. CASE ~Idle(w)
    <3>1. UNCHANGED batch /\ pc'[s] = pc[s] /\ job'[s] = job[s]
      BY <1>5, <2>2
         DEF WorkerStep, Timeout, Receive, CheckTrigger, CreateExecution, AcquireLock, SettleTrigger,
             ExecutorStep, BadNode, EmailNode, Advance, DelayNode, EndNode, FailExecution, ReleaseLock,
             WriteRow, GoTo, TypeInv, SlotInv
    <3> QED BY <3>1, BatchOfOther
  <2> QED BY <2>1, <2>2
<1>6. ASSUME NEW t \in Pollers, PollerStep(t) PROVE BatchStep(s)
  BY <1>6, BatchOfMover
<1>7. ASSUME NEW a \in Actors, Crash(a) PROVE BatchStep(s)
  <2>1. Idle(a)
    BY <1>7 DEF Crash
  <2> QED BY <2>1, BatchOfOther DEF Idle, BatchStep, TypeInv, SlotInv
<1> QED BY <1>1, <1>2, <1>3, <1>5, <1>6, <1>7 DEF Next

\* An execution waits anew only by the step of an actor at a delay of it.
LEMMA WaitsAnew ==
    ASSUME TypeInv, Still \/ Progress, NEW e \in Execs, row'[e].status = "waiting", ~row'[e].due
    PROVE  row'[e] = row[e] \/ \E a \in Actors : pc[a] = "node" /\ job[a] = e
<1> USE ActorsOK
<1>0. row \in [Execs -> Rows]
  BY DEF TypeInv, RowType
<1>1. CASE Still
  BY <1>1 DEF Still
<1>2. ASSUME NEW w \in Workers, Inserted(w) \/ Started(w) PROVE row'[e] = row[e]
  BY <1>0, <1>2 DEF Inserted, Started, Created, Rows
<1>3. ASSUME NEW s \in Pollers, Resumed(s) PROVE row'[e] = row[e]
  BY <1>3 DEF Resumed
<1>4. ASSUME NEW a \in Actors, Mails(a) \/ Fails(a) PROVE row'[e] = row[e]
  BY <1>0, <1>4 DEF Mails, Fails, Rows
<1>5. ASSUME NEW a \in Actors, Moves(a) \/ Ends(a) PROVE row'[e] = row[e]
  BY <1>0, <1>5 DEF Moves, Ends, Wrote, AdvanceExecution, CompleteExecution, Rows
<1>6. ASSUME NEW a \in Actors, Delays(a) PROVE row'[e] = row[e] \/ (pc[a] = "node" /\ job[a] = e)
  BY <1>0, <1>6 DEF Delays, Wrote, ScheduleDelay, Rows
<1>7. ASSUME NEW f \in Execs, DelayEnds(f) PROVE row'[e] = row[e]
  BY <1>0, <1>7 DEF DelayEnds, Rows
<1> QED BY <1>1, <1>2, <1>3, <1>4, <1>5, <1>6, <1>7 DEF Progress

LEMMA TakenIsDueKept ==
    ASSUME TypeInv, OneRun, OnePoller, TakenIsDue, Still \/ Progress, \A s \in Pollers : BatchStep(s)
    PROVE  TakenIsDue'
<1>1. ASSUME NEW s \in Pollers, pc'[s] \in Resuming PROVE job'[s] \notin batch'[s]
  BY <1>1 DEF BatchStep, TakenIsDue, Resuming, Locked
<1>2. ASSUME NEW s \in Pollers, pc'[s] \in {"idle", "fetch"} PROVE batch'[s] = {}
  BY <1>2 DEF BatchStep, TakenIsDue
<1>3. ASSUME NEW s \in Pollers, NEW e \in Execs, Pending(s, e), NEW a \in Actors, pc[a] = "node", job[a] = e
      PROVE  FALSE
  <2>1. pc[s] # "idle" /\ (Taken(s, e) \/ pc[s] \in {"lockExec", "load", "latest"})
    BY <1>3 DEF Pending, TakenIsDue, Taken
  <2>2. CASE a \in Workers
    BY <1>3, <2>2 DEF OneRun, Running, Taken, Pending, Resuming, Locked
  <2>3. CASE a \in Pollers
    <3>1. a = s
      BY <1>3, <2>1, <2>3 DEF OnePoller
    <3> QED BY <1>3, <3>1 DEF Pending, TakenIsDue, Resuming, Locked
  <2> QED BY <2>2, <2>3 DEF Actors
<1>4. ASSUME NEW s \in Pollers, NEW e \in Execs, Pending(s, e)', row'[e].status = "waiting" PROVE row'[e].due
  <2>1. Pending(s, e) \/ (UNCHANGED row /\ row[e].due)
    BY <1>4 DEF BatchStep, Pending
  <2>2. CASE Pending(s, e)
    <3>1. row[e].status = "waiting" => row[e].due
      BY <2>2 DEF TakenIsDue
    <3> QED BY <1>3, <1>4, <2>2, <3>1, WaitsAnew
  <2> QED BY <2>1, <2>2
<1> QED BY <1>1, <1>2, <1>4 DEF TakenIsDue

\* What was dealt with stays dealt with.
ServedGrows == UNCHANGED nodes /\ \A e \in Execs : served[e] \subseteq served'[e]

LEMMA NextServedGrows == ASSUME TypeInv, Still \/ Progress PROVE ServedGrows
<1>0. served \in [Execs -> SUBSET NodeIds]
  BY DEF TypeInv, ServedType
<1>1. CASE Still
  BY <1>1 DEF Still, ServedGrows
<1>2. ASSUME NEW w \in Workers, Inserted(w) \/ Started(w) PROVE ServedGrows
  BY <1>2 DEF Inserted, Started, ServedGrows
<1>3. ASSUME NEW s \in Pollers, Resumed(s) PROVE ServedGrows
  BY <1>3 DEF Resumed, ServedGrows
<1>4. ASSUME NEW a \in Actors, Mails(a) PROVE ServedGrows
  BY <1>0, <1>4 DEF Mails, ServedGrows
<1>5. ASSUME NEW a \in Actors, Moves(a) \/ Delays(a) \/ Ends(a) \/ Fails(a) PROVE ServedGrows
  BY <1>5 DEF Moves, Delays, Ends, Fails, Wrote, ServedGrows
<1>6. ASSUME NEW e \in Execs, DelayEnds(e) PROVE ServedGrows
  BY <1>0, <1>6 DEF DelayEnds, ServedGrows
<1> QED BY <1>1, <1>2, <1>3, <1>4, <1>5, <1>6 DEF Progress

LEMMA StandsStays ==
    ASSUME TypeInv, ServedGrows, NEW a \in Actors, StandsServed(a), Same(a)
    PROVE  StandsServed(a)'
<1>1. CASE pc'[a] = "node"
  <2>1. pc[a] = "node" /\ job'[a] = job[a] /\ pos'[a] = pos[a] /\ job[a] \in Execs
    BY <1>1 DEF Same, Standing, TypeInv, SlotInv, Resuming, Locked, Actors
  <2> QED BY <1>1, <2>1 DEF StandsServed, Behind, ServedGrows, NodeIds
<1>2. CASE pc'[a] \in {"advance", "resume"}
  <2>1. pc[a] = pc'[a] /\ job'[a] = job[a] /\ pos'[a] = pos[a] /\ job[a] \in Execs
    BY <1>2 DEF Same, Standing, TypeInv, SlotInv, Resuming, Locked, Actors
  <2> QED BY <1>2, <2>1 DEF StandsServed, Behind, ServedGrows, NodeIds
<1> QED BY <1>1, <1>2 DEF StandsServed

LEMMA RowStays ==
    ASSUME ServedGrows, NEW e \in Execs, RowServed(e),
           row'[e] = row[e] \/ row'[e].status \notin {"waiting", "completed"}
    PROVE  RowServed(e)'
<1>1. CASE row'[e] = row[e]
  BY <1>1 DEF RowServed, Served, Behind, ServedGrows, NodeIds
<1>2. CASE row'[e].status \notin {"waiting", "completed"}
  BY <1>2 DEF RowServed, Served
<1> QED BY <1>1, <1>2

LEMMA NextServed ==
    ASSUME TypeInv, TakenIsDue, ServedBehind, Still \/ Progress PROVE ServedBehind'
<1> USE ActorsOK
<1>0. /\ ServedGrows /\ row \in [Execs -> Rows] /\ NodeIds' = NodeIds /\ UNCHANGED nodes
      /\ served \in [Execs -> SUBSET NodeIds]
  BY NextServedGrows DEF TypeInv, RowType, ServedType, ServedGrows, NodeIds
<1>a. ASSUME NEW a \in Actors, Others(a), StandsServed(a)' PROVE \A b \in Actors : StandsServed(b)'
  BY <1>0, <1>a, StandsStays DEF Others, ServedBehind
<1>b. ASSUME NEW a \in Actors, pc'[a] \notin {"node", "advance", "resume"} PROVE StandsServed(a)'
  BY <1>b DEF StandsServed
<1>c. ASSUME UNCHANGED row PROVE \A e \in Execs : RowServed(e)'
  BY <1>0, <1>c, RowStays DEF ServedBehind
<1>d. \A a \in Actors : pc[a] \in {"node", "advance", "resume"} => job[a] \in Execs
  BY DEF TypeInv, SlotInv, Resuming, Locked, Actors
<1>1. CASE Still
  BY <1>0, <1>1, <1>c, StandsStays DEF Still, ServedBehind
<1>2. ASSUME NEW w \in Workers, Inserted(w) PROVE ServedBehind'
  <2>1. pc'[w] \notin {"node", "advance", "resume"} /\ Others(w)
    BY <1>2 DEF Inserted, Standing
  <2>2. \A e \in Execs : row'[e] = row[e] \/ row'[e].status = "running"
    BY <1>0, <1>2 DEF Inserted, Created, Rows
  <2>3. \A e \in Execs : RowServed(e)'
    BY <1>0, <2>2, RowStays DEF ServedBehind
  <2> QED BY <1>a, <1>b, <2>1, <2>3 DEF ServedBehind
<1>3. ASSUME NEW w \in Workers, Started(w) PROVE ServedBehind'
  <2>1. pc'[w] = "node" /\ pos'[w] = 1 /\ Others(w) /\ UNCHANGED row
    BY <1>3 DEF Started
  <2>2. \A k \in NodeIds' : ~(k < 1)
    BY <1>0, Positions
  <2>3. StandsServed(w)'
    BY <2>1, <2>2 DEF StandsServed, Behind
  <2> QED BY <1>a, <1>c, <2>1, <2>3 DEF ServedBehind
<1>4. ASSUME NEW s \in Pollers, Resumed(s) PROVE ServedBehind'
  <2>0. job[s] \in Execs
    BY <1>4 DEF Resumed, TypeInv, SlotInv, Resuming, Locked
  <2>1. /\ pc'[s] = "resume" /\ pos'[s] = row[job[s]].at /\ job'[s] = job[s] /\ Others(s)
        /\ UNCHANGED <<row, served, nodes>>
    BY <1>4 DEF Resumed
  <2>2. Behind(job[s], row[job[s]].at) /\ row[job[s]].at \in served[job[s]]
    BY <1>4, <2>0 DEF Resumed, TakenIsDue, Pending, ServedBehind, RowServed
  <2>3. \A k \in NodeIds : k < row[job[s]].at + 1 => k < row[job[s]].at \/ k = row[job[s]].at
    BY <2>0, Positions
  <2>4. Behind(job[s], row[job[s]].at + 1)
    BY <2>2, <2>3 DEF Behind
  <2>5. StandsServed(s)'
    BY <1>0, <2>1, <2>4 DEF StandsServed, Behind
  <2> QED BY <1>a, <1>c, <2>1, <2>5 DEF ServedBehind
<1>5. ASSUME NEW a \in Actors, Mails(a) PROVE ServedBehind'
  <2>0. job[a] \in Execs /\ pos[a] \in NodeIds
    BY <1>5, <1>d DEF Mails, AtEmail
  <2>1. pc[a] = "node" /\ Others(a) /\ UNCHANGED row /\ job'[a] = job[a] /\ pos'[a] = pos[a]
    BY <1>5 DEF Mails
  <2>2. CASE pc'[a] = "fail"
    BY <1>a, <1>b, <1>c, <2>1, <2>2 DEF ServedBehind
  <2>3. CASE pc'[a] = "advance" /\ served' = [served EXCEPT ![job[a]] = @ \cup {pos[a]}]
    <3>1. Behind(job[a], pos[a]) /\ pos[a] \in served'[job[a]]
      BY <1>0, <2>0, <2>1, <2>3 DEF ServedBehind, StandsServed
    <3>2. \A k \in NodeIds : k < pos[a] + 1 => k < pos[a] \/ k = pos[a]
      BY Positions
    <3>3. \A k \in NodeIds : k < pos[a] + 1 /\ nodes[k] \in {"email", "delay"} => k \in served'[job[a]]
      BY <1>0, <2>0, <3>1, <3>2 DEF Behind, ServedGrows
    <3>4. StandsServed(a)'
      BY <1>0, <2>1, <2>3, <3>3 DEF StandsServed, Behind
    <3> QED BY <1>a, <1>c, <2>1, <3>4 DEF ServedBehind
  <2> QED BY <1>5, <2>2, <2>3 DEF Mails
\* Past the node it leaves.
<1>6. ASSUME NEW a \in Actors, Leaves(a) PROVE job[a] \in Execs /\ Behind(job[a], pos[a] + 1)
  <2>1. job[a] \in Execs
    BY <1>6, <1>d DEF Leaves
  <2>2. CASE pc[a] \in {"advance", "resume"}
    BY <2>1, <2>2 DEF ServedBehind, StandsServed
  <2>3. CASE pc[a] = "node" /\ nodes[pos[a]] = "trigger"
    <3>1. Behind(job[a], pos[a])
      BY <2>3 DEF ServedBehind, StandsServed
    <3>2. \A k \in NodeIds : k < pos[a] + 1 => k < pos[a] \/ k = pos[a]
      BY Positions
    <3> QED BY <2>1, <2>3, <3>1, <3>2 DEF Behind
  <2> QED BY <1>6, <2>2, <2>3 DEF Leaves
<1>7. ASSUME NEW a \in Actors, Moves(a) PROVE ServedBehind'
  <2>1. /\ job[a] \in Execs /\ Behind(job[a], pos[a] + 1) /\ job'[a] = job[a] /\ pos'[a] = pos[a] + 1
        /\ Others(a) /\ pc'[a] \in {"node", "fail"} /\ row' \in {row, AdvanceExecution(job[a], pos[a] + 1)}
    BY <1>6, <1>7 DEF Moves, Wrote
  <2>2. \A e \in Execs : row'[e] = row[e] \/ row'[e].status = "running"
    BY <1>0, <2>1 DEF AdvanceExecution, Rows
  <2>3. StandsServed(a)'
    BY <1>0, <2>1 DEF StandsServed, Behind, ServedGrows
  <2>4. \A e \in Execs : RowServed(e)'
    BY <1>0, <2>2, RowStays DEF ServedBehind
  <2> QED BY <1>a, <2>1, <2>3, <2>4 DEF ServedBehind
<1>8. ASSUME NEW a \in Actors, Delays(a) PROVE ServedBehind'
  <2>1. /\ job[a] \in Execs /\ Behind(job[a], pos[a]) /\ Others(a) /\ pc'[a] \in {"done", "fail"}
        /\ row' \in {row, ScheduleDelay(job[a], pos[a])}
    BY <1>8, <1>d DEF Delays, Wrote, ServedBehind, StandsServed
  <2>2. \A e \in Execs : \/ row'[e] = row[e]
                         \/ e = job[a] /\ row'[e].status = "waiting" /\ row'[e].at = pos[a] /\ ~row'[e].due
    BY <1>0, <2>1 DEF ScheduleDelay, Rows
  <2>3. ASSUME NEW e \in Execs PROVE RowServed(e)'
    <3>1. CASE row'[e] = row[e]
      BY <1>0, <3>1, RowStays DEF ServedBehind
    <3>2. CASE e = job[a] /\ row'[e].status = "waiting" /\ row'[e].at = pos[a] /\ ~row'[e].due
      BY <1>0, <2>1, <3>2 DEF RowServed, Served, Behind, ServedGrows
    <3> QED BY <2>2, <3>1, <3>2
  <2> QED BY <1>a, <1>b, <2>1, <2>3 DEF ServedBehind
<1>9. ASSUME NEW a \in Actors, Ends(a) PROVE ServedBehind'
  <2>1. job[a] \in Execs /\ nodes # Garbled
    BY <1>9, <1>d DEF Ends, Leaves, TypeInv, PosInv, NodeIds
  <2>2. /\ NodeIds = 1..Len(nodes) /\ Len(nodes) \in Nat
        /\ \A i \in NodeIds : nodes[i] = "end" => i = Len(nodes)
    BY <2>1, NodesOK DEF TypeInv
  <2>3. \A k \in NodeIds : nodes[k] \in {"email", "delay"} => k \in served[job[a]]
    <3>1. CASE Leaves(a) /\ pos[a] = Len(nodes)
      <4>1. Behind(job[a], pos[a] + 1)
        BY <1>6, <3>1
      <4>2. \A k \in NodeIds : k < pos[a] + 1
        BY <2>2, <3>1
      <4> QED BY <4>1, <4>2 DEF Behind
    <3>2. CASE pc[a] = "node" /\ pos[a] \in NodeIds /\ nodes[pos[a]] = "end"
      <4>1. Behind(job[a], pos[a]) /\ pos[a] = Len(nodes)
        BY <2>2, <3>2 DEF ServedBehind, StandsServed
      <4>2. \A k \in NodeIds : k < pos[a] \/ k = pos[a]
        BY <2>2, <4>1
      <4> QED BY <3>2, <4>1, <4>2 DEF Behind
    <3> QED BY <1>9, <3>1, <3>2 DEF Ends
  <2>4. Others(a) /\ pc'[a] \in {"done", "fail"} /\ row' \in {row, CompleteExecution(job[a])}
    BY <1>9 DEF Ends, Wrote
  <2>5. \A e \in Execs : row'[e] = row[e] \/ (e = job[a] /\ row'[e].status = "completed")
    BY <1>0, <2>4 DEF CompleteExecution, Rows
  <2>6. ASSUME NEW e \in Execs PROVE RowServed(e)'
    <3>1. CASE row'[e] = row[e]
      BY <1>0, <3>1, RowStays DEF ServedBehind
    <3>2. CASE e = job[a] /\ row'[e].status = "completed"
      BY <1>0, <2>1, <2>3, <3>2 DEF RowServed, Served, ServedGrows
    <3> QED BY <2>5, <3>1, <3>2
  <2> QED BY <1>a, <1>b, <2>4, <2>6 DEF ServedBehind
<1>10. ASSUME NEW a \in Actors, Fails(a) PROVE ServedBehind'
  <2>1. Others(a) /\ pc'[a] \notin {"node", "advance", "resume"}
    BY <1>10 DEF Fails, Standing
  <2>2. \A e \in Execs : row'[e] = row[e] \/ row'[e].status = "failed"
    BY <1>0, <1>10 DEF Fails, Rows
  <2>3. \A e \in Execs : RowServed(e)'
    BY <1>0, <2>2, RowStays DEF ServedBehind
  <2> QED BY <1>a, <1>b, <2>1, <2>3 DEF ServedBehind
<1>11. ASSUME NEW f \in Execs, DelayEnds(f) PROVE ServedBehind'
  <2>1. \A b \in Actors : Same(b)
    BY <1>11 DEF DelayEnds, slots, Same
  <2>2. /\ row[f].status = "waiting" /\ row[f].at \in served'[f]
        /\ \A e \in Execs : row'[e].status = row[e].status /\ row'[e].at = row[e].at /\ (e # f => row'[e] = row[e])
    BY <1>0, <1>11 DEF DelayEnds, Rows
  <2>3. ASSUME NEW e \in Execs PROVE RowServed(e)'
    <3>1. CASE e # f
      BY <1>0, <2>2, <3>1, RowStays DEF ServedBehind
    <3>2. CASE e = f
      BY <1>0, <2>2, <3>2 DEF ServedBehind, RowServed, Served, Behind, ServedGrows
    <3> QED BY <3>1, <3>2
  <2>4. \A b \in Actors : StandsServed(b)'
    BY <1>0, <2>1, StandsStays DEF ServedBehind
  <2> QED BY <2>3, <2>4 DEF ServedBehind
<1> QED BY <1>1, <1>2, <1>3, <1>4, <1>5, <1>7, <1>8, <1>9, <1>10, <1>11 DEF Progress

LEMMA InitServed == Init => OnePoller /\ TakenIsDue /\ ServedBehind
<1> SUFFICES ASSUME Init PROVE OnePoller /\ TakenIsDue /\ ServedBehind
  OBVIOUS
<1>1. OnePoller /\ TakenIsDue
  BY ActorsOK DEF Init, OnePoller, TakenIsDue, Resuming, Locked, Pending
<1>2. ServedBehind
  BY DEF Init, ServedBehind, StandsServed, RowServed, Served
<1> QED BY <1>1, <1>2

\* A completed execution dealt with every email node and sat through every
\* delay, as long as the pollers' lock never expired while one polled: a poller
\* does not compare next_run_at again when it resumes, so it must be the only
\* one, for what it read to be still true.
THEOREM CompletedServed == Spec => []CompletedWasServed
<1>1. Init => ServedInv
  BY InitTypeInv, InitOneRun, InitServed DEF ServedInv
<1>2. ServedInv /\ [Next]_vars => ServedInv'
  <2> SUFFICES ASSUME ServedInv, [Next]_vars PROVE ServedInv'
    OBVIOUS
  <2>1. TypeInv' /\ OneRun' /\ (Still \/ Progress)
    BY NextTypeInv, NextOneRun, StepKinds DEF ServedInv
  <2>2. ASSUME ~pollOverlap, ~pollOverlap' PROVE OnePoller' /\ TakenIsDue' /\ ServedBehind'
    <3>1. TypeInv /\ OneRun /\ OnePoller /\ TakenIsDue /\ ServedBehind
      BY <2>2 DEF ServedInv
    <3> QED BY <2>1, <2>2, <3>1, NextPoll, OnePollerKept, NextBatch, TakenIsDueKept, NextServed
  <2>3. ~pollOverlap' => ~pollOverlap
    BY DEF Next, ChangeStatus, PublishTrigger, ExpireAckWait, ExpireLock, DelayEnds, Crash,
           ExpirePollLock, WorkerStep, PollerStep, ExecutorStep, Timeout, Receive, CheckTrigger,
           CreateExecution, AcquireLock, SettleTrigger, BadNode, EmailNode, Advance, DelayNode, EndNode,
           FailExecution, ReleaseLock, Poll, FetchDue, NextExecution, LockExecution, LoadForResume,
           GetLatest, ReleasePollLock, seen, vars
  <2> QED BY <2>1, <2>2, <2>3 DEF ServedInv
<1>3. ServedInv => CompletedWasServed
  BY DEF ServedInv, ServedBehind, RowServed, CompletedWasServed
<1> QED BY <1>1, <1>2, <1>3, PTL DEF Spec
=============================================================================
