----------------------------- MODULE WorkQueue -----------------------------
(***************************************************************************)
(* A JetStream work-queue stream as its consumers see it.  A queue is a    *)
(* function from message ids to records: a message is not yet published,   *)
(* ready for delivery, out (delivered and not settled) or gone.  Ack and   *)
(* Term settle it, Nak and an expired AckWait make it ready again unless   *)
(* it was delivered MaxAttempts times.                                     *)
(***************************************************************************)
EXTENDS Naturals

CONSTANT MaxAttempts     \* MaxDeliver of the consumer

MsgStatus == {"none", "ready", "out", "gone"}
Messages  == [st : MsgStatus, n : 0..MaxAttempts]

NewMsg(q, m)  == [q EXCEPT ![m] = [st |-> "ready", n |-> 0]]
Deliver(q, m) == [q EXCEPT ![m] = [st |-> "out", n |-> q[m].n + 1]]
Settle(q, m)  == [q EXCEPT ![m] = [st |-> "gone", n |-> q[m].n]]

\* Faulty variants: MaxDeliver not configured, or one delivery too few.
CanRedeliver_Unlimited(q, m) == q[m].st = "out"
CanRedeliver_OneShort(q, m)  == q[m].st = "out" /\ q[m].n < MaxAttempts - 1

CanRedeliver(q, m) == q[m].st = "out" /\ q[m].n < MaxAttempts

Requeue(q, m) ==
    IF CanRedeliver(q, m) THEN [q EXCEPT ![m] = [st |-> "ready", n |-> q[m].n]] ELSE q
=============================================================================
