---------------------------- MODULE MCSimNetwork ----------------------------
(***************************************************************************)
(* A modem that answers at the next read or only after two seconds.        *)
(***************************************************************************)
EXTENDS SimNetwork

PromptOrSlow == {1, 21}
=============================================================================
