------------------------ MODULE MC_CampaignLifecycle ------------------------
(***************************************************************************)
(* CampaignLifecycle for TLC.                                              *)
(***************************************************************************)
EXTENDS CampaignLifecycle, TLC
=============================================================================
