----------------------------- MODULE MC_Accounts -----------------------------
(***************************************************************************)
(* Accounts for TLC: the user whose sessions are looked at is u2, u1 owns  *)
(* the workspace.                                                          *)
(***************************************************************************)
EXTENDS Accounts, TLC
=============================================================================
