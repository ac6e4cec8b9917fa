--------------------------- MODULE SegmentRefresh ---------------------------
(***************************************************************************)
(* The membership of one dynamic segment.  API calls change its filter or  *)
(* ask for a refresh; the segment worker recomputes the members under a    *)
(* Redis lock and applies the difference.  A filter is abstracted to the   *)
(* set of contacts it describes, or is Unknown when it uses an operator    *)
(* the worker's evaluator rejects.  Every delivery has a lock value of its *)
(* own, so the lock names the worker slot whose delivery holds it.         *)
(***************************************************************************)
EXTENDS WorkQueue, Integers, FiniteSets

CONSTANTS
    NumContacts,     \* contacts of the workspace, visited in id order
    Requests,        \* API calls, each publishes one segment.refresh message
    Workers,         \* delivery slots, across worker replicas
    NoJob,           \* "no message in hand"
    Free, Orphan,    \* lock: nobody, or a delivery that is no more
    MaxDisturbances, \* bound: crashes, lost calls, expiries under load
    MaxChanges       \* bound: contacts created or deleted

Contacts == 1..NumContacts
Describes(S) == [known |-> TRUE, who |-> S]
Unknown  == [known |-> FALSE, who |-> {}]
Filters  == {Describes(S) : S \in SUBSET Contacts} \cup {Unknown}

ASSUME ConstantsAssumption ==
    /\ NumContacts \in Nat
    /\ MaxAttempts \in Nat \ {0}
    /\ Free # Orphan /\ Free \notin Workers /\ Orphan \notin Workers
    /\ MaxDisturbances \in Nat /\ MaxChanges \in Nat

VARIABLES
    \* PostgreSQL
    alive,           \* contacts that are not deleted
    filter, status, count, members,
    \* Redis
    lock,
    \* JetStream
    msg,
    \* API calls
    call,
    \* delivery slots
    pc, job, attempt,
    loaded,          \* the filter tree read from the row
    cursor, matched, \* evaluation so far
    current,         \* members read before the difference is applied
    \* observation
    skipped,         \* some delivery was dropped because the lock was held
    overlapped,      \* the lock expired under a running delivery
    disturbances, changes

row   == <<filter, status, count, members>>
work  == <<loaded, cursor, matched, current>>
slots == <<pc, job, attempt, work>>
seen  == <<skipped, overlapped>>
vars == <<alive, filter, status, count, members, lock, msg, call, pc, job, attempt,
          loaded, cursor, matched, current, skipped, overlapped, disturbances, changes>>

Statuses == {"pending", "processing", "ready", "failed"}
Labels   == {"idle", "acquire", "load", "mark", "eval", "read", "insert", "delete",
             "ready", "release"}

TypeOK ==
    /\ alive \subseteq Contacts /\ members \subseteq Contacts
    /\ filter \in Filters
    /\ status \in Statuses /\ count \in Int
    /\ lock \in Workers \cup {Free, Orphan}
    /\ msg \in [Requests -> Messages]
    /\ call \in [Requests -> {"new", "publish", "done"}]
    /\ pc \in [Workers -> Labels]
    /\ \A w \in Workers : pc[w] # "idle" => job[w] \in Requests
    /\ attempt \in [Workers -> 0..MaxAttempts]
    /\ loaded \in [Workers -> Filters]
    /\ cursor \in [Workers -> 0..NumContacts]
    /\ matched \in [Workers -> SUBSET Contacts]
    /\ current \in [Workers -> SUBSET Contacts]
    /\ skipped \in BOOLEAN /\ overlapped \in BOOLEAN
    /\ disturbances \in 0..MaxDisturbances /\ changes \in 0..MaxChanges

Init ==
    /\ alive \in SUBSET Contacts
    /\ filter = Describes({}) /\ status = "ready" /\ count = 0 /\ members = {}
    /\ lock = Free
    /\ msg = [r \in Requests |-> [st |-> "none", n |-> 0]]
    /\ call = [r \in Requests |-> "new"]
    /\ pc = [w \in Workers |-> "idle"]
    /\ job = [w \in Workers |-> NoJob]
    /\ attempt = [w \in Workers |-> 0]
    /\ loaded = [w \in Workers |-> Unknown]
    /\ cursor = [w \in Workers |-> 0]
    /\ matched = [w \in Workers |-> {}]
    /\ current = [w \in Workers |-> {}]
    /\ skipped = FALSE /\ overlapped = FALSE
    /\ disturbances = 0 /\ changes = 0

-----------------------------------------------------------------------------
Disturb == /\ disturbances < MaxDisturbances
           /\ disturbances' = disturbances + 1
Undisturbed == UNCHANGED disturbances

(* The API.                                                                 *)

\* updateSegment (any filter the API's schema admits) and refreshSegment.
Request(r) ==
    /\ call[r] = "new"
    /\ filter' \in Filters
    /\ status' = "pending"
    /\ call' = [call EXCEPT ![r] = "publish"]
    /\ UNCHANGED <<alive, count, members, lock, msg, slots, seen, disturbances, changes>>

\* enqueueRefresh is not awaited: a failed publish goes unnoticed.
Enqueue(r) ==
    /\ call[r] = "publish"
    /\ \/ Undisturbed /\ msg' = NewMsg(msg, r)
       \/ Disturb /\ UNCHANGED msg
    /\ call' = [call EXCEPT ![r] = "done"]
    /\ UNCHANGED <<alive, row, lock, slots, seen, changes>>

\* A contact is created or deleted; no refresh follows from that.
ContactChange(c) ==
    /\ changes < MaxChanges /\ changes' = changes + 1
    /\ alive' = IF c \in alive THEN alive \ {c} ELSE alive \cup {c}
    /\ UNCHANGED <<row, lock, msg, call, slots, seen, disturbances>>

-----------------------------------------------------------------------------
(* The worker (Handler.Handle).                                             *)

GoTo(w, label) == pc' = [pc EXCEPT ![w] = label] /\ UNCHANGED <<job, attempt>>

Forget(w) == /\ pc' = [pc EXCEPT ![w] = "idle"]
             /\ job' = [job EXCEPT ![w] = NoJob]
             /\ attempt' = [attempt EXCEPT ![w] = 0]
             /\ loaded' = [loaded EXCEPT ![w] = Unknown]
             /\ cursor' = [cursor EXCEPT ![w] = 0]
             /\ matched' = [matched EXCEPT ![w] = {}]
             /\ current' = [current EXCEPT ![w] = {}]

\* nak: Term on the last delivery, which leaves the message settled.
Nak(w) == msg' = IF attempt[w] >= MaxAttempts THEN Settle(msg, job[w])
                 ELSE Requeue(msg, job[w])

\* An error after the lock was taken; the deferred release is still to come.
Fail(w) == Nak(w) /\ GoTo(w, "release") /\ UNCHANGED work

Receive(w, r) ==
    /\ pc[w] = "idle" /\ msg[r].st = "ready"
    /\ msg' = Deliver(msg, r)
    /\ pc' = [pc EXCEPT ![w] = "acquire"]
    /\ job' = [job EXCEPT ![w] = r]
    /\ attempt' = [attempt EXCEPT ![w] = msg[r].n + 1]
    /\ UNCHANGED <<alive, row, lock, call, work, seen, disturbances, changes>>

\* Faulty variant: SET without NX.
AcquireLock_Overwrite(w) ==
    /\ pc[w] = "acquire"
    /\ lock' = w /\ GoTo(w, "load")
    /\ UNCHANGED <<alive, row, msg, call, work, seen, disturbances, changes>>

\* The lock of a delivery that never learns that it has it.
Unanswered == IF lock = Free THEN Orphan ELSE lock

\* A held lock means the message is acknowledged and forgotten.  Where the reply
\* to SET NX is lost, so may be one that was set: the message comes again, or
\* the client tries again and meets the lock it has itself.
AcquireLock(w) ==
    /\ pc[w] = "acquire"
    /\ \/ /\ Undisturbed /\ lock = Free
          /\ lock' = w /\ GoTo(w, "load")
          /\ UNCHANGED <<msg, work, skipped>>
       \/ /\ Undisturbed /\ lock # Free
          /\ msg' = Settle(msg, job[w]) /\ Forget(w)
          /\ skipped' = TRUE /\ UNCHANGED lock
       \/ /\ Disturb /\ lock' \in {lock, Unanswered}
          /\ Nak(w) /\ Forget(w) /\ UNCHANGED skipped
       \/ /\ Disturb /\ lock = Free /\ lock' = Unanswered
          /\ msg' = Settle(msg, job[w]) /\ Forget(w) /\ skipped' = TRUE
    /\ UNCHANGED <<alive, row, call, overlapped, changes>>

LoadSegment(w) ==
    /\ pc[w] = "load"
    /\ \/ /\ Undisturbed /\ loaded' = [loaded EXCEPT ![w] = filter]
          /\ GoTo(w, "mark") /\ UNCHANGED <<msg, cursor, matched, current>>
       \/ Disturb /\ Fail(w)
    /\ UNCHANGED <<alive, row, lock, call, seen, changes>>

MarkProcessing(w) ==
    /\ pc[w] = "mark"
    /\ \/ /\ Undisturbed /\ status' = "processing"
          /\ GoTo(w, "eval") /\ UNCHANGED <<msg, work>>
       \/ Disturb /\ Fail(w) /\ status' \in {status, "processing"}
    /\ UNCHANGED <<alive, filter, count, members, lock, call, seen, changes>>

Rejected(w, c) == ~loaded[w].known /\ c \in alive

\* Faulty variant: a failed evaluation is retried without marking the segment.
Evaluate_NoFailedMark(w) ==
    /\ pc[w] = "eval"
    /\ LET c == cursor[w] + 1 IN
       \/ /\ Undisturbed /\ cursor[w] = NumContacts
          /\ GoTo(w, "read") /\ UNCHANGED <<msg, work>>
       \/ /\ Undisturbed /\ cursor[w] < NumContacts /\ ~Rejected(w, c)
          /\ cursor' = [cursor EXCEPT ![w] = c]
          /\ matched' = IF c \in alive /\ c \in loaded[w].who
                        THEN [matched EXCEPT ![w] = @ \cup {c}] ELSE matched
          /\ UNCHANGED <<pc, job, attempt, msg, loaded, current>>
       \/ Undisturbed /\ cursor[w] < NumContacts /\ Rejected(w, c) /\ Fail(w)
       \/ Disturb /\ Fail(w)
    /\ UNCHANGED <<alive, row, lock, call, seen, changes>>

\* The next contact in id order; a page of one is the finest the code can do.
\* An operator the evaluator does not know fails the refresh at every attempt.
Evaluate(w) ==
    /\ pc[w] = "eval"
    /\ LET c == cursor[w] + 1 IN
       \/ /\ Undisturbed /\ cursor[w] = NumContacts
          /\ GoTo(w, "read") /\ UNCHANGED <<status, msg, work>>
       \/ /\ Undisturbed /\ cursor[w] < NumContacts /\ ~Rejected(w, c)
          /\ cursor' = [cursor EXCEPT ![w] = c]
          /\ matched' = IF c \in alive /\ c \in loaded[w].who
                        THEN [matched EXCEPT ![w] = @ \cup {c}] ELSE matched
          /\ UNCHANGED <<pc, job, attempt, status, msg, loaded, current>>
       \/ /\ Undisturbed /\ cursor[w] < NumContacts /\ Rejected(w, c)
          /\ status' = "failed" /\ Fail(w)
       \/ Disturb /\ Fail(w) /\ status' \in {status, "failed"}
    /\ UNCHANGED <<alive, filter, count, members, lock, call, seen, changes>>

ReadMembers(w) ==
    /\ pc[w] = "read"
    /\ \/ /\ Undisturbed /\ current' = [current EXCEPT ![w] = members]
          /\ GoTo(w, "insert") /\ UNCHANGED <<msg, loaded, cursor, matched>>
       \/ Disturb /\ Fail(w)
    /\ UNCHANGED <<alive, row, lock, call, seen, changes>>

ToAdd(w)    == matched[w] \ current[w]
ToRemove(w) == current[w] \ matched[w]

InsertMembers(w) ==
    /\ pc[w] = "insert"
    /\ LET more == members \cup ToAdd(w) IN
       \/ Undisturbed /\ members' = more /\ GoTo(w, "delete") /\ UNCHANGED <<msg, work>>
       \/ Disturb /\ members' \in {members, more} /\ Fail(w)
    /\ UNCHANGED <<alive, filter, status, count, lock, call, seen, changes>>

\* Faulty variant: members that no longer match are kept.
DeleteMembers_Never(w) ==
    /\ pc[w] = "delete"
    /\ GoTo(w, "ready")
    /\ UNCHANGED <<alive, row, lock, msg, call, work, seen, disturbances, changes>>

DeleteMembers(w) ==
    /\ pc[w] = "delete"
    /\ LET fewer == members \ ToRemove(w) IN
       \/ Undisturbed /\ members' = fewer /\ GoTo(w, "ready") /\ UNCHANGED <<msg, work>>
       \/ Disturb /\ members' \in {members, fewer} /\ Fail(w)
    /\ UNCHANGED <<alive, filter, status, count, lock, call, seen, changes>>

\* Faulty variant: removals are not subtracted.
FinalCount_AddsOnly(w) == Cardinality(current[w]) + Cardinality(ToAdd(w))

\* The count is computed from the difference, not read back.
FinalCount(w) == Cardinality(current[w]) + Cardinality(ToAdd(w)) - Cardinality(ToRemove(w))

UpdateReady(w) ==
    /\ pc[w] = "ready"
    /\ \/ UNCHANGED <<status, count>> /\ Disturb
       \/ status' = "ready" /\ count' = FinalCount(w) /\ (Disturb \/ Undisturbed)
    /\ IF disturbances' # disturbances THEN Fail(w)
       ELSE msg' = Settle(msg, job[w]) /\ GoTo(w, "release") /\ UNCHANGED work
    /\ UNCHANGED <<alive, filter, members, lock, call, seen, changes>>

\* Faulty variant: DEL without comparing the value.
ReleaseLock_Any(w) ==
    /\ pc[w] = "release"
    /\ lock' = Free /\ Forget(w)
    /\ UNCHANGED <<alive, row, msg, call, seen, disturbances, changes>>

\* Only if the lock still has this delivery's value.
ReleaseLock(w) ==
    /\ pc[w] = "release"
    /\ Forget(w)
    /\ \/ Undisturbed /\ lock' = IF lock = w THEN Free ELSE lock
       \/ Disturb /\ lock' = IF lock = w THEN Orphan ELSE lock
    /\ UNCHANGED <<alive, row, msg, call, seen, changes>>

Crash(w) ==
    /\ pc[w] # "idle"
    /\ Disturb /\ Forget(w)
    /\ lock' = IF lock = w THEN Orphan ELSE lock
    /\ UNCHANGED <<alive, row, msg, call, seen, changes>>

-----------------------------------------------------------------------------
(* Timers.                                                                  *)
InHand(r) == \E w \in Workers : pc[w] # "idle" /\ job[w] = r

ExpireAckWait(r) ==
    /\ CanRedeliver(msg, r) /\ msg' = Requeue(msg, r)
    /\ IF InHand(r) THEN Disturb ELSE Undisturbed
    /\ UNCHANGED <<alive, row, lock, call, slots, seen, changes>>

\* The lock's TTL: ten minutes, less than the handler may run.
ExpireLock ==
    /\ lock # Free /\ lock' = Free
    /\ IF lock = Orphan THEN Undisturbed /\ UNCHANGED overlapped
       ELSE Disturb /\ overlapped' = TRUE
    /\ UNCHANGED <<alive, row, msg, call, slots, skipped, changes>>

-----------------------------------------------------------------------------
WorkerStep(w) ==
    \/ \E r \in Requests : Receive(w, r)
    \/ AcquireLock(w) \/ LoadSegment(w) \/ MarkProcessing(w) \/ Evaluate(w)
    \/ ReadMembers(w) \/ InsertMembers(w) \/ DeleteMembers(w) \/ UpdateReady(w)
    \/ ReleaseLock(w)

Next ==
    \/ \E r \in Requests : Request(r) \/ Enqueue(r) \/ ExpireAckWait(r)
    \/ \E c \in Contacts : ContactChange(c)
    \/ \E w \in Workers : WorkerStep(w) \/ Crash(w)
    \/ ExpireLock

Spec == Init /\ [][Next]_vars

Fairness ==
    /\ \A r \in Requests : WF_vars(Enqueue(r)) /\ WF_vars(~InHand(r) /\ ExpireAckWait(r))
    /\ \A w \in Workers : WF_vars(WorkerStep(w))
    /\ WF_vars(lock = Orphan /\ ExpireLock)

FairSpec == Spec /\ Fairness

-----------------------------------------------------------------------------
(* Properties that hold.                                                    *)

\* Two deliveries recompute the segment at once only after the lock's TTL ran
\* out under one of them.
Refreshing(w) == pc[w] \in {"load", "mark", "eval", "read", "insert", "delete", "ready"}
OneRefresher ==
    ~overlapped => \A v, w \in Workers : Refreshing(v) /\ Refreshing(w) => v = w

\* A lock is lost by its holder or by time, never released by a delivery whose
\* own lock expired long ago.
LockIsReleasedByHolder ==
    [][\A w \in Workers :
          lock = w /\ lock' # w => pc'[w] # pc[w] \/ disturbances' # disturbances]_vars

\* The count shown for a ready segment is the number of its members, whatever
\* crashed or was retried on the way: a half applied difference is never ready.
ReadyCountsMembers ==
    ~overlapped /\ status = "ready" => count = Cardinality(members)

\* When everything settled and nothing was disturbed or skipped, the members
\* are the contacts the last filter describes, although earlier refreshes were
\* still evaluating the filter before it.
Settled ==
    /\ \A r \in Requests : call[r] # "publish" /\ msg[r].st \in {"none", "gone"}
    /\ \A w \in Workers : pc[w] = "idle"

SettledIsFresh ==
    Settled /\ ~skipped /\ disturbances = 0 /\ changes = 0 /\ filter.known =>
        members = filter.who \cap alive

\* As long as nothing is skipped or disturbed, every request is answered: the
\* segment does not stay pending or processing.
RequestsResolved ==
    [](~skipped /\ disturbances = 0) => []<>(status \in {"ready", "failed"})
=============================================================================
