---------------------------- MODULE MCWakeCycle ----------------------------
(***************************************************************************)
(* Instances of WakeCycle for TLC.                                         *)
(***************************************************************************)
EXTENDS WakeCycle

MCCapacity == [measure |-> 2, log |-> 1]

=============================================================================
