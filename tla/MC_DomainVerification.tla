----------------------- MODULE MC_DomainVerification -----------------------
(***************************************************************************)
(* DomainVerification for TLC: rows, calls and delivery slots are          *)
(* interchangeable.                                                        *)
(***************************************************************************)
EXTENDS DomainVerification, TLC

Interchangeable == Permutations(Regs) \cup Permutations(Calls) \cup Permutations(Workers)
=============================================================================
