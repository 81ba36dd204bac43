----------------------------- MODULE MCSimHttp -----------------------------
(* SimHttp needs no definitions of its own for TLC.                        *)
EXTENDS SimHttp
=============================================================================
