---------------------------- MODULE MCUltrasonic ----------------------------
(***************************************************************************)
(* The ends of the sensor's range, and of what its registers may hold.     *)
(***************************************************************************)
EXTENDS Ultrasonic

Ends == {0, MaxDistance, Word - 1}
=============================================================================
