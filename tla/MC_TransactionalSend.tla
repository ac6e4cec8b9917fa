------------------------ MODULE MC_TransactionalSend ------------------------
(***************************************************************************)
(* TransactionalSend for TLC.  Delivery slots are interchangeable, and so  *)
(* are calls that carry the idempotency key.                               *)
(***************************************************************************)
EXTENDS TransactionalSend, TLC

Interchangeable == Permutations(Workers) \cup Permutations(Requests \ Keyless)
=============================================================================
