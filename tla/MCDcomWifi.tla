----------------------------- MODULE MCDcomWifi -----------------------------
(***************************************************************************)
(* Two uses of the module: the diagnostic's and the sync's.                *)
(***************************************************************************)
EXTENDS DcomWifi
=============================================================================
