------------------------- MODULE MC_SegmentRefresh -------------------------
(***************************************************************************)
(* SegmentRefresh for TLC: delivery slots and API calls are                *)
(* interchangeable, and every contact exists at first (MaxChanges lets     *)
(* one of them be deleted).                                                *)
(***************************************************************************)
EXTENDS SegmentRefresh, TLC

Interchangeable == Permutations(Workers) \cup Permutations(Requests)

Populated == Init /\ alive = Contacts

PopulatedSpec == Populated /\ [][Next]_vars /\ Fairness
=============================================================================
