------------------------ MODULE MC_EventPipeline ------------------------
(***************************************************************************)
(* EventPipeline for TLC: one user with two devices, who visits without    *)
(* being known, is identified and aliased, and a second user of the first  *)
(* device.                                                                 *)
(***************************************************************************)
EXTENDS EventPipeline, TLC

CONSTANTS u1, u2, a1, a2

Carries(type, user, anon) == [type |-> type, user |-> user, anon |-> anon]

Visits == {Carries("track", None, a1), Carries("track", u1, a1),
           Carries("identify", u1, a1), Carries("identify", u1, a2),
           Carries("alias", u2, a1)}

Interchangeable == Permutations(Workers)
=============================================================================
