------------------------- MODULE WorkflowExecution -------------------------
(***************************************************************************)
(* The workflow engine of the workers.  Trigger messages enrol contacts:   *)
(* each creates an execution and runs it, node by node, to its first delay *)
(* or its end; the pollers of all replicas resume executions whose delay   *)
(* ran out.  A workflow is the sequence of its nodes' types (a node names  *)
(* at most one next node), an execution is named by its unique key: the    *)
(* workflow, the contact and the event.                                    *)
(***************************************************************************)
EXTENDS WorkQueue, Sequences

CONSTANTS
    Workflows,       \* node lists a workflow may have
    Garbled,         \* a node list that cannot be parsed
    Execs,           \* keys of executions, each with one trigger message
    FromEvents,      \* those whose trigger the event worker publishes
    Workers,         \* delivery slots of the trigger handler
    Pollers,         \* delay schedulers, one per worker replica
    Nothing,
    MaxDisturbances, \* bound: crashes, timeouts, lost calls, early expiries
    MaxChanges       \* bound: API calls on the workflow

NodeTypes == {"trigger", "email", "delay", "end", "broken"}

ASSUME ConstantsAssumption ==
    /\ Workflows \subseteq Seq(NodeTypes) /\ Garbled \notin Seq(NodeTypes)
    \* The list follows the next nodes, and nothing follows an end.
    /\ \A f \in Workflows : \A i \in DOMAIN f : f[i] = "end" => i = Len(f)
    /\ MaxAttempts \in Nat \ {0}
    /\ FromEvents \subseteq Execs /\ Nothing \notin Execs
    /\ Workers \cap Pollers = {}
    /\ MaxDisturbances \in Nat /\ MaxChanges \in Nat

VARIABLES
    \* PostgreSQL
    nodes, wf,       \* the workflow: node list and status
    row,             \* executions: status, current node, next_run_at passed
    \* Redis
    lock, pollLock,  \* value of each execution's lock, and of the pollers'
    \* JetStream
    msg,             \* workflow.trigger
    mailed,          \* jobs stored for an email node (email.send.transactional)
    \* delivery slots and pollers
    pc, job, pos,    \* pos: the node being executed
    attempt,         \* of a delivery
    batch,           \* of a poller: due executions still to resume
    \* observation
    served,          \* email nodes dealt with and delays that ran out
    overlapped, pollOverlap,   \* a lock expired under its holder
    disturbances, changes

slots == <<pc, job, pos, attempt, batch>>
db    == <<nodes, wf, row>>
seen  == <<served, overlapped, pollOverlap>>
vars  == <<nodes, wf, row, lock, pollLock, msg, mailed, pc, job, pos, attempt, batch,
           served, overlapped, pollOverlap, disturbances, changes>>

Actors == Workers \cup Pollers
NodeIds == IF nodes = Garbled THEN {} ELSE DOMAIN nodes

Rows == [status : {"absent", "running", "waiting", "completed", "failed"},
         at : {0} \cup NodeIds, due : BOOLEAN]

\* Where the actor holds, or believes to hold, an execution's lock.
Locked  == {"node", "advance", "done", "fail", "reject", "nak", "unlock",
            "load", "latest", "resume"}
Labels  == Locked \cup {"idle", "check", "create", "lock", "fetch", "batch", "lockExec",
                        "release"}

TypeOK ==
    /\ nodes \in Workflows \cup {Garbled}
    /\ wf \in {"published", "paused", "archived"}
    /\ row \in [Execs -> Rows]
    /\ lock \in [Execs -> {"free", "trigger", "resume"}]
    /\ pollLock \in {"free", "scheduler"}
    /\ msg \in [Execs -> Messages]
    /\ mailed \in [Execs -> [NodeIds -> Nat]]
    /\ pc \in [Actors -> Labels]
    /\ job \in [Actors -> Execs \cup {Nothing}]
    /\ \A a \in Actors : pc[a] \in Locked => job[a] \in Execs
    /\ pos \in [Actors -> Nat]
    /\ attempt \in [Workers -> 0..MaxAttempts]
    /\ batch \in [Pollers -> SUBSET Execs]
    /\ served \in [Execs -> SUBSET NodeIds]
    /\ overlapped \in [Execs -> BOOLEAN] /\ pollOverlap \in BOOLEAN
    /\ disturbances \in 0..MaxDisturbances /\ changes \in 0..MaxChanges

Init ==
    /\ nodes \in Workflows \cup {Garbled}
    /\ wf = "published"
    /\ row = [e \in Execs |-> [status |-> "absent", at |-> 0, due |-> FALSE]]
    /\ lock = [e \in Execs |-> "free"] /\ pollLock = "free"
    /\ msg = [e \in Execs |-> [st |-> "none", n |-> 0]]
    /\ mailed = [e \in Execs |-> [i \in NodeIds |-> 0]]
    /\ pc = [a \in Actors |-> "idle"]
    /\ job = [a \in Actors |-> Nothing]
    /\ pos = [a \in Actors |-> 0]
    /\ attempt = [w \in Workers |-> 0]
    /\ batch = [s \in Pollers |-> {}]
    /\ served = [e \in Execs |-> {}]
    /\ overlapped = [e \in Execs |-> FALSE] /\ pollOverlap = FALSE
    /\ disturbances = 0 /\ changes = 0

-----------------------------------------------------------------------------
Disturb == /\ disturbances < MaxDisturbances
           /\ disturbances' = disturbances + 1
Undisturbed == UNCHANGED disturbances

GoTo(a, label) == pc' = [pc EXCEPT ![a] = label] /\ UNCHANGED <<job, pos, attempt, batch>>

\* Ready for the next delivery, or the next tick.
Idle(a) ==
    /\ pc' = [pc EXCEPT ![a] = "idle"]
    /\ job' = [job EXCEPT ![a] = Nothing]
    /\ pos' = [pos EXCEPT ![a] = 0]
    /\ attempt' = IF a \in Workers THEN [attempt EXCEPT ![a] = 0] ELSE attempt
    /\ batch' = IF a \in Pollers THEN [batch EXCEPT ![a] = {}] ELSE batch

(* The API: publish, pause and resume, delete.                              *)
ChangeStatus ==
    /\ changes < MaxChanges /\ changes' = changes + 1
    /\ \/ wf = "paused" /\ wf' = "published"
       \/ wf = "published" /\ wf' = "paused"
       \/ wf # "archived" /\ wf' = "archived"
    /\ UNCHANGED <<nodes, row, lock, pollLock, msg, mailed, slots, seen, disturbances>>

(* An event matched the workflow's trigger; a failed publish is logged.     *)
PublishTrigger(e) ==
    /\ msg[e].st = "none"
    /\ msg' = NewMsg(msg, e)
    /\ UNCHANGED <<db, lock, pollLock, mailed, slots, seen, disturbances, changes>>

-----------------------------------------------------------------------------
(* The trigger handler (TriggerHandler.Handle).                             *)

Nak(w) == msg' = IF attempt[w] >= MaxAttempts THEN Settle(msg, job[w])
                 ELSE Requeue(msg, job[w])

Receive(w, e) ==
    /\ pc[w] = "idle" /\ msg[e].st = "ready"
    /\ msg' = Deliver(msg, e)
    /\ pc' = [pc EXCEPT ![w] = "check"]
    /\ job' = [job EXCEPT ![w] = e]
    /\ attempt' = [attempt EXCEPT ![w] = msg[e].n + 1]
    /\ UNCHANGED <<db, lock, pollLock, mailed, pos, batch, seen, disturbances, changes>>

\* The payload must name the workflow, which the event worker's does not, and
\* the workflow must be published.
CheckTrigger(w) ==
    /\ pc[w] = "check"
    /\ LET wanted == job[w] \notin FromEvents /\ wf = "published" IN
       \/ Undisturbed /\ wanted /\ GoTo(w, "create") /\ UNCHANGED msg
       \/ Undisturbed /\ ~wanted /\ msg' = Settle(msg, job[w]) /\ Idle(w)
       \/ Disturb /\ job[w] \notin FromEvents /\ Nak(w) /\ Idle(w)
    /\ UNCHANGED <<db, lock, pollLock, mailed, seen, changes>>

Created(e) == [row EXCEPT ![e].status = "running"]

\* Faulty variant: ON CONFLICT DO UPDATE ... RETURNING id.
CreateExecution_Again(w) ==
    /\ pc[w] = "create"
    /\ Undisturbed /\ row' = Created(job[w])
    /\ GoTo(w, "lock")
    /\ UNCHANGED <<nodes, wf, lock, pollLock, msg, mailed, seen, changes>>

\* ON CONFLICT DO NOTHING: a second delivery of a trigger does nothing more.
CreateExecution(w) ==
    /\ pc[w] = "create"
    /\ LET new == row[job[w]].status = "absent" IN
       \/ Undisturbed /\ new /\ row' = Created(job[w]) /\ GoTo(w, "lock") /\ UNCHANGED msg
       \/ /\ Undisturbed /\ ~new
          /\ msg' = Settle(msg, job[w]) /\ Idle(w) /\ UNCHANGED row
       \/ /\ Disturb /\ Nak(w) /\ Idle(w)
          /\ row' \in IF new THEN {row, Created(job[w])} ELSE {row}
    /\ UNCHANGED <<nodes, wf, lock, pollLock, mailed, seen, changes>>

\* The lock of an execution that was just created: only a lost answer can keep
\* the handler from it.
AcquireLock(w) ==
    /\ pc[w] = "lock"
    /\ LET taken == [lock EXCEPT ![job[w]] = "trigger"] IN
       \/ /\ Undisturbed /\ lock' = taken
          /\ pc' = [pc EXCEPT ![w] = IF nodes = Garbled THEN "reject" ELSE "node"]
          /\ pos' = [pos EXCEPT ![w] = 1]
          /\ UNCHANGED <<msg, job, attempt, batch>>
       \/ Disturb /\ lock' \in {lock, taken} /\ Nak(w) /\ Idle(w)
    /\ UNCHANGED <<db, pollLock, mailed, seen, changes>>

-----------------------------------------------------------------------------
(* The executor (Executor.Run), used by trigger handlers and pollers.       *)

Node(a) == IF pos[a] \in NodeIds THEN nodes[pos[a]] ELSE "missing"
Last(a) == pos[a] = Len(nodes)

AdvanceExecution(e, i)  == [row EXCEPT ![e].status = "running", ![e].at = i]
CompleteExecution(e)    == [row EXCEPT ![e].status = "completed"]
ScheduleDelay(e, i)     == [row EXCEPT ![e] = [status |-> "waiting", at |-> i, due |-> FALSE]]

\* A write and the label it leads to; its error fails the run although the
\* database may have done it.
WriteRow(a, new, label) ==
    \/ Undisturbed /\ row' = new /\ pc' = [pc EXCEPT ![a] = label]
    \/ Disturb /\ row' \in {row, new} /\ pc' = [pc EXCEPT ![a] = "fail"]

\* A node that does not exist, has an unknown type or misses its settings.
BadNode(a) ==
    /\ pc[a] = "node" /\ Node(a) \in {"missing", "broken"}
    /\ GoTo(a, "fail")
    /\ UNCHANGED <<db, lock, pollLock, msg, mailed, seen, disturbances, changes>>

\* One job with an id made of the execution and the node: a repetition is
\* dropped while the stream's duplicate window lasts.  Without an address
\* nothing is sent and the run goes on: GetContactForWorkflow takes the
\* contact's id for a user_id, so it finds only a contact whose user_id that
\* happens to be.
EmailNode(a) ==
    /\ pc[a] = "node" /\ Node(a) = "email"
    /\ LET i == pos[a]
           more == [mailed EXCEPT ![job[a]][i] = @ + 1] IN
       \/ /\ Undisturbed
          /\ mailed' = more \/ UNCHANGED mailed
          /\ served' = [served EXCEPT ![job[a]] = @ \cup {i}]
          /\ GoTo(a, "advance")
       \/ /\ Disturb
          /\ mailed' \in {mailed, more}
          /\ GoTo(a, "fail") /\ UNCHANGED served
    /\ UNCHANGED <<db, lock, pollLock, msg, overlapped, pollOverlap, changes>>

\* To the next node, or to the end of the list: after a trigger, after an
\* email, and past the delay a poller resumes from.
Advance(a) ==
    /\ \/ pc[a] \in {"advance", "resume"}
       \/ pc[a] = "node" /\ Node(a) = "trigger"
    /\ LET e == job[a] IN
       IF Last(a) THEN WriteRow(a, CompleteExecution(e), "done") /\ UNCHANGED pos
       ELSE /\ WriteRow(a, AdvanceExecution(e, pos[a] + 1), "node")
            /\ pos' = [pos EXCEPT ![a] = @ + 1]
    /\ UNCHANGED <<nodes, wf, lock, pollLock, msg, mailed, job, attempt, batch, seen, changes>>

DelayNode(a) ==
    /\ pc[a] = "node" /\ Node(a) = "delay"
    /\ WriteRow(a, ScheduleDelay(job[a], pos[a]), "done")
    /\ UNCHANGED <<nodes, wf, lock, pollLock, msg, mailed, job, pos, attempt, batch, seen, changes>>

EndNode(a) ==
    /\ pc[a] = "node" /\ Node(a) = "end"
    /\ WriteRow(a, CompleteExecution(job[a]), "done")
    /\ UNCHANGED <<nodes, wf, lock, pollLock, msg, mailed, job, pos, attempt, batch, seen, changes>>

FailExecution(a) ==
    /\ pc[a] \in {"fail", "reject"}
    /\ \/ Undisturbed /\ row' = [row EXCEPT ![job[a]].status = "failed"]
       \/ Disturb /\ UNCHANGED row
    /\ GoTo(a, IF a \in Pollers THEN "unlock" ELSE IF pc[a] = "fail" THEN "nak" ELSE "done")
    /\ UNCHANGED <<nodes, wf, lock, pollLock, msg, mailed, seen, changes>>

\* Ack or Term after the run, Nak after an error.
SettleTrigger(w) ==
    /\ pc[w] \in {"done", "nak"}
    /\ IF pc[w] = "nak" THEN Nak(w) ELSE msg' = Settle(msg, job[w])
    /\ GoTo(w, "unlock")
    /\ UNCHANGED <<db, lock, pollLock, mailed, seen, disturbances, changes>>

LockValue(a) == IF a \in Workers THEN "trigger" ELSE "resume"

\* Only if the lock has this value, which all pollers share.
ReleaseLock(a) ==
    /\ pc[a] = "unlock" \/ (a \in Pollers /\ pc[a] = "done")
    /\ LET e == job[a] IN
       \/ /\ Undisturbed
          /\ lock' = [lock EXCEPT ![e] = IF @ = LockValue(a) THEN "free" ELSE @]
       \/ Disturb /\ UNCHANGED lock
    /\ IF a \in Workers THEN Idle(a) ELSE GoTo(a, "batch")
    /\ UNCHANGED <<db, pollLock, msg, mailed, seen, changes>>

ExecutorStep(a) ==
    \/ BadNode(a) \/ EmailNode(a) \/ Advance(a) \/ DelayNode(a) \/ EndNode(a)
    \/ FailExecution(a) \/ ReleaseLock(a)

-----------------------------------------------------------------------------
(* The delay scheduler (Scheduler.poll and resume).                         *)

Poll(s) ==
    /\ pc[s] = "idle" /\ pollLock = "free"
    /\ pollLock' = "scheduler"
    /\ \/ Undisturbed /\ GoTo(s, "fetch")
       \/ Disturb /\ UNCHANGED slots
    /\ UNCHANGED <<db, lock, msg, mailed, seen, changes>>

\* Faulty variant: next_run_at is not compared with the clock.
FetchDue_AnyWaiting(s) ==
    /\ pc[s] = "fetch"
    /\ batch' = [batch EXCEPT ![s] = {e \in Execs : row[e].status = "waiting"}]
    /\ pc' = [pc EXCEPT ![s] = "batch"]
    /\ UNCHANGED <<db, lock, pollLock, msg, mailed, job, pos, attempt, seen, disturbances, changes>>

FetchDue(s) ==
    /\ pc[s] = "fetch"
    /\ \/ /\ Undisturbed
          /\ batch' = [batch EXCEPT ![s] =
                {e \in Execs : row[e].status = "waiting" /\ row[e].due}]
       \/ Disturb /\ UNCHANGED batch
    /\ pc' = [pc EXCEPT ![s] = "batch"]
    /\ UNCHANGED <<db, lock, pollLock, msg, mailed, job, pos, attempt, seen, changes>>

NextExecution(s) ==
    /\ pc[s] = "batch"
    /\ \/ batch[s] = {} /\ GoTo(s, "release")
       \/ \E e \in batch[s] :
             /\ batch' = [batch EXCEPT ![s] = @ \ {e}]
             /\ job' = [job EXCEPT ![s] = e]
             /\ pc' = [pc EXCEPT ![s] = "lockExec"]
             /\ UNCHANGED <<pos, attempt>>
    /\ UNCHANGED <<db, lock, pollLock, msg, mailed, seen, disturbances, changes>>

\* An execution whose lock is held, or cannot be taken, is left for later.
LockExecution(s) ==
    /\ pc[s] = "lockExec"
    /\ LET free  == lock[job[s]] = "free"
           taken == [lock EXCEPT ![job[s]] = "resume"] IN
       \/ Undisturbed /\ free /\ lock' = taken /\ GoTo(s, "load")
       \/ Undisturbed /\ ~free /\ GoTo(s, "batch") /\ UNCHANGED lock
       \/ Disturb /\ lock' \in (IF free THEN {lock, taken} ELSE {lock}) /\ GoTo(s, "batch")
    /\ UNCHANGED <<db, pollLock, msg, mailed, seen, changes>>

\* Faulty variant: only executions of a published workflow go on.
LoadForResume_PublishedOnly(s) ==
    /\ pc[s] = "load"
    /\ \/ Undisturbed /\ GoTo(s, IF wf = "published" THEN "latest" ELSE "unlock")
       \/ Disturb /\ GoTo(s, "fail")
    /\ UNCHANGED <<db, lock, pollLock, msg, mailed, seen, changes>>

\* The node list; the workflow's status is not looked at, an error is final.
LoadForResume(s) ==
    /\ pc[s] = "load"
    /\ \/ Undisturbed /\ GoTo(s, "latest")
       \/ Disturb /\ GoTo(s, "fail")
    /\ UNCHANGED <<db, lock, pollLock, msg, mailed, seen, changes>>

\* Read again under the lock: the status is checked, next_run_at is not.
GetLatest(s) ==
    /\ pc[s] = "latest"
    /\ \/ /\ Undisturbed /\ row[job[s]].status = "waiting"
          /\ pc' = [pc EXCEPT ![s] = "resume"]
          /\ pos' = [pos EXCEPT ![s] = row[job[s]].at]
          /\ UNCHANGED <<job, attempt, batch>>
       \/ Undisturbed /\ row[job[s]].status # "waiting" /\ GoTo(s, "unlock")
       \/ Disturb /\ GoTo(s, "unlock")
    /\ UNCHANGED <<db, lock, pollLock, msg, mailed, seen, changes>>

ReleasePollLock(s) ==
    /\ pc[s] = "release"
    /\ \/ Undisturbed /\ pollLock' = "free"
       \/ Disturb /\ UNCHANGED pollLock
    /\ Idle(s)
    /\ UNCHANGED <<db, lock, msg, mailed, seen, changes>>

-----------------------------------------------------------------------------
(* Crashes, and time.                                                       *)

Crash(a) ==
    /\ pc[a] # "idle"
    /\ Disturb /\ Idle(a)
    /\ UNCHANGED <<db, lock, pollLock, msg, mailed, seen, changes>>

\* HandlerTimeout in the middle of a run: every later call fails, those that
\* record the failure and release the lock included; the Nak gets out.
Timeout(w) ==
    /\ pc[w] \in {"node", "advance", "fail"}
    /\ Disturb /\ Nak(w) /\ Idle(w)
    /\ UNCHANGED <<db, lock, pollLock, mailed, seen, changes>>

InHand(e) == \E w \in Workers : job[w] = e
ExpireAckWait(e) ==
    /\ CanRedeliver(msg, e) /\ msg' = Requeue(msg, e)
    /\ IF InHand(e) THEN Disturb ELSE Undisturbed
    /\ UNCHANGED <<db, lock, pollLock, mailed, slots, seen, changes>>

Holds(a, e) == pc[a] \in Locked /\ job[a] = e
Held(e)     == \E a \in Actors : Holds(a, e) /\ lock[e] = LockValue(a)

\* The TTL of an execution's lock: five minutes or two.
ExpireLock(e) ==
    /\ lock[e] # "free" /\ lock' = [lock EXCEPT ![e] = "free"]
    /\ IF Held(e) THEN Disturb /\ overlapped' = [overlapped EXCEPT ![e] = TRUE]
       ELSE Undisturbed /\ UNCHANGED overlapped
    /\ UNCHANGED <<db, pollLock, msg, mailed, slots, served, pollOverlap, changes>>

\* The TTL of the pollers' lock: 45 seconds, for a batch of up to fifty.
Polling == \E s \in Pollers : pc[s] # "idle"
ExpirePollLock ==
    /\ pollLock # "free" /\ pollLock' = "free"
    /\ IF Polling THEN Disturb /\ pollOverlap' = TRUE
       ELSE Undisturbed /\ UNCHANGED pollOverlap
    /\ UNCHANGED <<db, lock, msg, mailed, slots, served, overlapped, changes>>

\* A delay runs out.
DelayEnds(e) ==
    /\ row[e].status = "waiting" /\ ~row[e].due
    /\ row' = [row EXCEPT ![e].due = TRUE]
    /\ served' = [served EXCEPT ![e] = @ \cup {row[e].at}]
    /\ UNCHANGED <<nodes, wf, lock, pollLock, msg, mailed, slots, overlapped, pollOverlap,
                   disturbances, changes>>

-----------------------------------------------------------------------------
WorkerStep(w) ==
    \/ \E e \in Execs : Receive(w, e)
    \/ CheckTrigger(w) \/ CreateExecution(w) \/ AcquireLock(w) \/ ExecutorStep(w)
    \/ SettleTrigger(w)

PollerStep(s) ==
    \/ Poll(s) \/ FetchDue(s) \/ NextExecution(s) \/ LockExecution(s) \/ LoadForResume(s)
    \/ GetLatest(s) \/ ExecutorStep(s) \/ ReleasePollLock(s)

Next ==
    \/ ChangeStatus
    \/ \E e \in Execs :
          PublishTrigger(e) \/ ExpireAckWait(e) \/ ExpireLock(e) \/ DelayEnds(e)
    \/ \E w \in Workers : WorkerStep(w) \/ Timeout(w)
    \/ \E s \in Pollers : PollerStep(s)
    \/ \E a \in Actors : Crash(a)
    \/ ExpirePollLock

Spec == Init /\ [][Next]_vars

(* Workers and pollers go on, locks of the dead expire, delays end.         *)
Fairness ==
    /\ \A w \in Workers : WF_vars(WorkerStep(w))
    /\ \A s \in Pollers : WF_vars(PollerStep(s))
    /\ \A e \in Execs :
          /\ WF_vars(DelayEnds(e))
          /\ WF_vars(~InHand(e) /\ ExpireAckWait(e))
          /\ WF_vars(~Held(e) /\ ExpireLock(e))
    /\ WF_vars(~Polling /\ ExpirePollLock)

FairSpec == Spec /\ Fairness

-----------------------------------------------------------------------------
(* Properties that hold.                                                    *)

\* An email node is mailed at most once per execution, whatever crashed, timed
\* out, failed or was delivered again.
EmailsOnce ==
    \A e \in Execs, i \in NodeIds : ~overlapped[e] => mailed[e][i] <= 1

\* A completed execution dealt with every email node and sat through every
\* delay, as long as there was one poller at a time.
Served(e) == row[e].status = "completed" =>
    \A i \in NodeIds : nodes[i] \in {"email", "delay"} => i \in served[e]

CompletedWasServed == ~pollOverlap => \A e \in Execs : Served(e)

\* Undisturbed, an execution under way ends, also when its workflow is paused
\* or deleted meanwhile.
EnrolledEnds ==
    [](disturbances = 0) =>
        \A e \in Execs : row[e].status \in {"running", "waiting"}
                            ~> row[e].status \in {"completed", "failed"}
=============================================================================
