------------------------- MODULE TransactionalSend -------------------------
(***************************************************************************)
(* One transactional email from the API call to SES:                       *)
(*                                                                         *)
(*   POST /emails/send --email.send.transactional--> Go email handler      *)
(*                                                                         *)
(* Several API calls, retries of a client among them, race for one         *)
(* idempotency key in Redis and for the workspace's monthly quota, whose   *)
(* counter lives in PostgreSQL behind a Redis cache.  Each action is one   *)
(* awaited call; an API process or a worker may die between any two.       *)
(* A call creates at most one send, so a send has the name of its call.    *)
(***************************************************************************)
EXTENDS WorkQueue, Integers, FiniteSets

CONSTANTS
    Requests,        \* API calls
    Keyless,         \* those that carry no idempotency key
    Bodies,          \* request bodies, as told apart by their hash
    NoSend,          \* "no send": response null, no message in hand
    Limit,           \* emails the plan allows per month
    Used,            \* emails counted before the first call
    Workers,         \* slots for deliveries of email.send.transactional
    SendOutcomes,    \* what a send attempt can meet, a subset of AllOutcomes
    MaxDisturbances  \* bound: infrastructure disturbances

AllOutcomes == {"accepted", "permanent", "transient", "denied"}

ASSUME ConstantsAssumption ==
    /\ Keyless \subseteq Requests
    /\ IsFiniteSet(Requests) /\ Bodies # {}
    /\ NoSend \notin Requests
    /\ MaxAttempts \in Nat \ {0}
    /\ Limit \in Nat /\ Used \in Nat
    /\ SendOutcomes \subseteq AllOutcomes
    /\ MaxDisturbances \in Nat

NoCache == -1
NoKey   == [held |-> FALSE, body |-> CHOOSE b \in Bodies : TRUE, response |-> NoSend]
Held(b, s) == [held |-> TRUE, body |-> b, response |-> s]

RowStatus == {"absent", "queued", "sending", "sent", "failed"}

VARIABLES
    \* Redis
    key,         \* the idempotency key: held or not, body hash, response
    cache,       \* billing:usage, the cached count of emails or NoCache
    \* PostgreSQL
    row,         \* status of the email_sends row of each send
    usage,       \* emails counted this period
    \* JetStream
    msg, dlq,
    \* the API calls
    rpc, body, snapshot, outcome, reply,
    \* the workers' delivery slots
    pc, job, attempt,
    \* observation
    accepted,    \* per send, messages SES accepted
    overlap,     \* some call started while another one was running
    disturbances

calls   == <<rpc, body, snapshot, outcome, reply>>
slots   == <<pc, job, attempt>>
redis   == <<key, cache>>
vars == <<key, cache, row, usage, msg, dlq, rpc, body, snapshot, outcome, reply,
          pc, job, attempt, accepted, overlap, disturbances>>

CallLabels == {"new", "quota", "cacheUsage", "insert", "publish", "rollback", "record",
               "dropCache", "store", "done"}
Outcomes   == {"pending", "ok", "conflict", "refused", "error"}
SlotLabels == {"idle", "check", "mark", "ses", "markSent", "dlq", "markFailed", "settle"}

TypeOK ==
    /\ key \in [held : BOOLEAN, body : Bodies, response : Requests \cup {NoSend}]
    /\ cache \in Nat \cup {NoCache}
    /\ row \in [Requests -> RowStatus]
    /\ usage \in Nat
    /\ msg \in [Requests -> Messages]
    /\ dlq \in SUBSET Requests
    /\ rpc \in [Requests -> CallLabels]
    /\ body \in [Requests -> Bodies]
    /\ snapshot \in [Requests -> Nat]
    /\ outcome \in [Requests -> Outcomes]
    /\ reply \in [Requests -> Requests \cup {NoSend}]
    /\ pc \in [Workers -> SlotLabels]
    /\ job \in [Workers -> Requests \cup {NoSend}]
    /\ attempt \in [Workers -> 0..MaxAttempts]
    /\ accepted \in [Requests -> Nat]
    /\ overlap \in BOOLEAN
    /\ disturbances \in 0..MaxDisturbances

Init ==
    /\ key = NoKey /\ cache = NoCache
    /\ row = [p \in Requests |-> "absent"]
    /\ usage = Used
    /\ msg = [p \in Requests |-> [st |-> "none", n |-> 0]]
    /\ dlq = {}
    /\ rpc = [p \in Requests |-> "new"]
    /\ body \in [Requests -> Bodies]
    /\ snapshot = [p \in Requests |-> 0]
    /\ outcome = [p \in Requests |-> "pending"]
    /\ reply = [p \in Requests |-> NoSend]
    /\ pc = [w \in Workers |-> "idle"]
    /\ job = [w \in Workers |-> NoSend]
    /\ attempt = [w \in Workers |-> 0]
    /\ accepted = [p \in Requests |-> 0]
    /\ overlap = FALSE
    /\ disturbances = 0

-----------------------------------------------------------------------------
(* A failed statement, publish or Redis call, a crash, an expiry under load. *)
Disturb == /\ disturbances < MaxDisturbances
           /\ disturbances' = disturbances + 1
Undisturbed == UNCHANGED disturbances

Step(p, label) == /\ rpc' = [rpc EXCEPT ![p] = label]
                  /\ UNCHANGED <<outcome, reply>>
Answer(p, what, send) == /\ rpc' = [rpc EXCEPT ![p] = "done"]
                         /\ outcome' = [outcome EXCEPT ![p] = what]
                         /\ reply' = [reply EXCEPT ![p] = send]

Running(p) == rpc[p] \notin {"new", "done"}

-----------------------------------------------------------------------------
(* The API call (TransactionalService.sendEmail).                           *)

\* checkOrReserve.  A reservation without a response, left by a call that is
\* still running or that failed, counts as a miss.
Arrive(p) ==
    /\ rpc[p] = "new"
    /\ overlap' = (overlap \/ \E q \in Requests : Running(q))
    /\ \/ /\ p \in Keyless
          /\ Step(p, "quota") /\ UNCHANGED key
       \/ /\ p \notin Keyless /\ ~key.held
          /\ key' = Held(body[p], NoSend)
          /\ Step(p, "quota")
       \/ /\ p \notin Keyless /\ key.held /\ key.body # body[p]
          /\ Answer(p, "conflict", NoSend) /\ UNCHANGED key
       \/ /\ p \notin Keyless /\ key.held /\ key.body = body[p]
          /\ IF key.response = NoSend THEN Step(p, "quota")
             ELSE Answer(p, "ok", key.response)
          /\ UNCHANGED key
    /\ UNCHANGED <<cache, row, usage, msg, dlq, body, snapshot, slots, accepted,
                   disturbances>>

\* The sender domain is not verified, or the template does not exist.
Refuse(p) ==
    /\ rpc[p] \in {"quota", "insert"}
    /\ Answer(p, "refused", NoSend)
    /\ UNCHANGED <<redis, row, usage, msg, dlq, body, snapshot, slots, accepted,
                   overlap, disturbances>>

Decide(p, used) == IF Limit - used >= 1 THEN Step(p, "insert")
                   ELSE Answer(p, "refused", NoSend)

\* getUsage: the cached count if there is one, else the counter.
ReadUsage(p) ==
    /\ rpc[p] = "quota"
    /\ \/ /\ cache # NoCache /\ Undisturbed
          /\ Decide(p, cache) /\ UNCHANGED snapshot
       \/ /\ \/ cache = NoCache /\ Undisturbed
             \/ Disturb
          /\ snapshot' = [snapshot EXCEPT ![p] = usage]
          /\ Step(p, "cacheUsage")
    /\ UNCHANGED <<redis, row, usage, msg, dlq, body, slots, accepted, overlap>>

CacheUsage(p) ==
    /\ rpc[p] = "cacheUsage"
    /\ \/ Undisturbed /\ cache' = snapshot[p]
       \/ Disturb /\ UNCHANGED cache
    /\ Decide(p, snapshot[p])
    /\ UNCHANGED <<key, row, usage, msg, dlq, body, snapshot, slots, accepted, overlap>>

InsertSend(p) ==
    /\ rpc[p] = "insert"
    /\ row' = [row EXCEPT ![p] = "queued"]
    /\ Step(p, "publish")
    /\ UNCHANGED <<redis, usage, msg, dlq, body, snapshot, slots, accepted, overlap,
                   disturbances>>

\* Faulty variant: a publish error is logged and the call goes on.
Publish_IgnoreError(p) ==
    /\ rpc[p] = "publish"
    /\ \/ Undisturbed /\ msg' = NewMsg(msg, p)
       \/ Disturb /\ UNCHANGED msg
    /\ Step(p, "record")
    /\ UNCHANGED <<redis, row, usage, dlq, body, snapshot, slots, accepted, overlap>>

\* The publish may fail before or after the stream stored the message.
Publish(p) ==
    /\ rpc[p] = "publish"
    /\ \/ Undisturbed /\ msg' = NewMsg(msg, p) /\ Step(p, "record")
       \/ Disturb /\ msg' \in {msg, NewMsg(msg, p)} /\ Step(p, "rollback")
    /\ UNCHANGED <<redis, row, usage, dlq, body, snapshot, slots, accepted, overlap>>

\* deleteSendByIdTx, then a 500; the reservation stays.
Rollback(p) ==
    /\ rpc[p] = "rollback"
    /\ \/ Undisturbed /\ row' = [row EXCEPT ![p] = "absent"]
       \/ Disturb /\ UNCHANGED row
    /\ Answer(p, "error", NoSend)
    /\ UNCHANGED <<redis, usage, msg, dlq, body, snapshot, slots, accepted, overlap>>

\* recordUsage: the counter, then the cached snapshot is dropped.
RecordUsage(p) ==
    /\ rpc[p] = "record"
    /\ usage' = usage + 1
    /\ Step(p, "dropCache")
    /\ UNCHANGED <<redis, row, msg, dlq, body, snapshot, slots, accepted, overlap,
                   disturbances>>

\* Faulty variant: the cached snapshot lives until its TTL.
DropCache_Never(p) ==
    /\ rpc[p] = "dropCache"
    /\ Step(p, "store")
    /\ UNCHANGED <<redis, row, usage, msg, dlq, body, snapshot, slots, accepted, overlap,
                   disturbances>>

DropCache(p) ==
    /\ rpc[p] = "dropCache"
    /\ \/ Undisturbed /\ cache' = NoCache
       \/ Disturb /\ UNCHANGED cache
    /\ Step(p, "store")
    /\ UNCHANGED <<key, row, usage, msg, dlq, body, snapshot, slots, accepted, overlap>>

\* Faulty variant: the reservation is never completed.
StoreResponse_Forgets(p) ==
    /\ rpc[p] = "store"
    /\ Answer(p, "ok", p)
    /\ UNCHANGED <<redis, row, usage, msg, dlq, body, snapshot, slots, accepted, overlap,
                   disturbances>>

\* storeResponse (a lost write is only logged), and the answer.
StoreResponse(p) ==
    /\ rpc[p] = "store"
    /\ \/ Undisturbed /\ key' = IF p \in Keyless THEN key ELSE Held(body[p], p)
       \/ Disturb /\ UNCHANGED key
    /\ Answer(p, "ok", p)
    /\ UNCHANGED <<cache, row, usage, msg, dlq, body, snapshot, slots, accepted, overlap>>

\* A statement throws, or the API process dies: the client sees an error.
FailCall(p) ==
    /\ Running(p)
    /\ Disturb
    /\ Answer(p, "error", NoSend)
    /\ UNCHANGED <<redis, row, usage, msg, dlq, body, snapshot, slots, accepted, overlap>>

-----------------------------------------------------------------------------
(* The email handler of the workers (Handler.Handle).                       *)

GoTo(w, label) == pc' = [pc EXCEPT ![w] = label] /\ UNCHANGED <<job, attempt>>

Idle(w) == /\ pc' = [pc EXCEPT ![w] = "idle"]
           /\ job' = [job EXCEPT ![w] = NoSend]
           /\ attempt' = [attempt EXCEPT ![w] = 0]
Nak(w)  == Idle(w) /\ msg' = Requeue(msg, job[w])

Receive(w, p) ==
    /\ pc[w] = "idle" /\ msg[p].st = "ready"
    /\ msg' = Deliver(msg, p)
    /\ pc' = [pc EXCEPT ![w] = "check"]
    /\ job' = [job EXCEPT ![w] = p]
    /\ attempt' = [attempt EXCEPT ![w] = msg[p].n + 1]
    /\ UNCHANGED <<redis, row, usage, dlq, calls, accepted, overlap, disturbances>>

\* Status read and rate limiter.  A missing row does not stop the handler.
Check(w) ==
    /\ pc[w] = "check"
    /\ \/ /\ Undisturbed /\ row[job[w]] = "sent"
          /\ Idle(w) /\ msg' = Settle(msg, job[w])
       \/ /\ Undisturbed /\ row[job[w]] # "sent"
          /\ GoTo(w, "mark") /\ UNCHANGED msg
       \/ /\ Undisturbed /\ row[job[w]] # "sent" /\ "denied" \in SendOutcomes
          /\ Nak(w)
       \/ Disturb /\ Nak(w)
    /\ UNCHANGED <<redis, row, usage, dlq, calls, accepted, overlap>>

\* UpdateEmailSendSending: the number of affected rows is not looked at.
MarkSending(w) ==
    /\ pc[w] = "mark"
    /\ \/ /\ Undisturbed
          /\ row' = [row EXCEPT ![job[w]] =
                IF @ \in {"queued", "failed", "sending"} THEN "sending" ELSE @]
          /\ GoTo(w, "ses") /\ UNCHANGED msg
       \/ Disturb /\ Nak(w) /\ UNCHANGED row
    /\ UNCHANGED <<redis, usage, dlq, calls, accepted, overlap>>

\* Faulty variant: no dead letter, the last delivery is naked like the others.
Transient_AlwaysNak(w) == Nak(w)

\* A transient error: Nak, or the dead letter on the last delivery.
Transient(w) == IF attempt[w] >= MaxAttempts THEN GoTo(w, "dlq") /\ UNCHANGED msg
                ELSE Nak(w)

\* The SES call and the classification of its error; an answer that is lost is
\* a transient error although SES has the message.
SendEmail(w) ==
    /\ pc[w] = "ses"
    /\ \/ /\ Undisturbed /\ "accepted" \in SendOutcomes
          /\ accepted' = [accepted EXCEPT ![job[w]] = @ + 1]
          /\ GoTo(w, "markSent") /\ UNCHANGED msg
       \/ /\ Undisturbed /\ "permanent" \in SendOutcomes
          /\ GoTo(w, "markFailed") /\ UNCHANGED <<accepted, msg>>
       \/ /\ Undisturbed /\ "transient" \in SendOutcomes
          /\ Transient(w) /\ UNCHANGED accepted
       \/ /\ Disturb /\ "accepted" \in SendOutcomes
          /\ accepted' = [accepted EXCEPT ![job[w]] = @ + 1]
          /\ Transient(w)
    /\ UNCHANGED <<redis, row, usage, dlq, calls, overlap>>

\* UpdateEmailSendSent; a lost write is logged and the message acknowledged.
MarkSent(w) ==
    /\ pc[w] = "markSent"
    /\ \/ /\ Undisturbed
          /\ row' = [row EXCEPT ![job[w]] = IF @ = "absent" THEN @ ELSE "sent"]
       \/ Disturb /\ UNCHANGED row
    /\ GoTo(w, "settle")
    /\ UNCHANGED <<redis, usage, msg, dlq, calls, accepted, overlap>>

DeadLetter(w) ==
    /\ pc[w] = "dlq"
    /\ \/ Undisturbed /\ dlq' = dlq \cup {job[w]}
       \/ Disturb /\ UNCHANGED dlq
    /\ GoTo(w, "markFailed")
    /\ UNCHANGED <<redis, row, usage, msg, calls, accepted, overlap>>

FailSend(p) == row' = [row EXCEPT ![p] = IF @ \in {"absent", "sent"} THEN @ ELSE "failed"]

MarkFailed(w) ==
    /\ pc[w] = "markFailed"
    /\ \/ Undisturbed /\ FailSend(job[w])
       \/ Disturb /\ UNCHANGED row
    /\ GoTo(w, "settle")
    /\ UNCHANGED <<redis, usage, msg, dlq, calls, accepted, overlap>>

\* Ack or Term.
SettleSend(w) ==
    /\ pc[w] = "settle"
    /\ Idle(w) /\ msg' = Settle(msg, job[w])
    /\ UNCHANGED <<redis, row, usage, dlq, calls, accepted, overlap, disturbances>>

CrashWorker(w) ==
    /\ pc[w] # "idle"
    /\ Disturb
    /\ Idle(w)
    /\ UNCHANGED <<redis, row, usage, msg, dlq, calls, accepted, overlap>>

-----------------------------------------------------------------------------
(* Timers.                                                                  *)
InHand(p) == \E w \in Workers : job[w] = p

\* AckWait: a disturbance under a live handler, the recovery after a crash.
ExpireAckWait(p) ==
    /\ CanRedeliver(msg, p)
    /\ msg' = Requeue(msg, p)
    /\ IF InHand(p) THEN Disturb ELSE Undisturbed
    /\ UNCHANGED <<redis, row, usage, dlq, calls, slots, accepted, overlap>>

\* The key's TTL (24 hours); later retries are new sends.
ExpireKey ==
    /\ key.held
    /\ Disturb
    /\ key' = NoKey
    /\ UNCHANGED <<cache, row, usage, msg, dlq, calls, slots, accepted, overlap>>

ExpireCache ==
    /\ cache # NoCache
    /\ cache' = NoCache
    /\ UNCHANGED <<key, row, usage, msg, dlq, calls, slots, accepted, overlap, disturbances>>

-----------------------------------------------------------------------------
CallStep(p) ==
    \/ ReadUsage(p) \/ CacheUsage(p) \/ InsertSend(p) \/ Publish(p) \/ Rollback(p)
    \/ RecordUsage(p) \/ DropCache(p) \/ StoreResponse(p)

WorkerStep(w) ==
    \/ \E p \in Requests : Receive(w, p)
    \/ Check(w) \/ MarkSending(w) \/ SendEmail(w) \/ MarkSent(w) \/ DeadLetter(w)
    \/ MarkFailed(w) \/ SettleSend(w)

Next ==
    \/ \E p \in Requests :
          Arrive(p) \/ Refuse(p) \/ CallStep(p) \/ FailCall(p) \/ ExpireAckWait(p)
    \/ \E w \in Workers : WorkerStep(w) \/ CrashWorker(w)
    \/ ExpireKey \/ ExpireCache

Spec == Init /\ [][Next]_vars

(* A call that arrived runs on, deliveries and redeliveries go on.          *)
Fairness ==
    /\ \A p \in Requests : WF_vars(CallStep(p))
    /\ \A w \in Workers : WF_vars(WorkerStep(w))
    /\ \A p \in Requests : WF_vars(~InHand(p) /\ ExpireAckWait(p))

FairSpec == Spec /\ Fairness

-----------------------------------------------------------------------------
(* Properties that hold.                                                    *)

\* The id a client is answered with is that of a send that was published and
\* whose row is still there, also when another call answered or rolled back.
AnswersAreTracked ==
    \A p \in Requests : outcome[p] = "ok" =>
        reply[p] \in Requests /\ row[reply[p]] # "absent" /\ msg[reply[p]].st # "none"

Calm == disturbances = 0 /\ ~overlap

\* Calls that do not overlap, with nothing failing, get one send per key...
OneSendWhenCalm ==
    Calm => \A p, q \in Requests \ Keyless :
                outcome[p] = "ok" /\ outcome[q] = "ok" => reply[p] = reply[q]

\* ... and never exceed the quota, although they decide on a cached count.
QuotaWhenCalm == Calm => usage <= IF Used > Limit THEN Used ELSE Limit

\* Without a disturbance or a denied token every answered send is resolved.
AnsweredIsResolved ==
    \A p, s \in Requests :
        (outcome[p] = "ok" /\ reply[p] = s) ~> row[s] \in {"sent", "failed"}
=============================================================================
