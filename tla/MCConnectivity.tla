--------------------------- MODULE MCConnectivity ---------------------------
(***************************************************************************)
(* The bound on how long a SIM check takes to fail.                        *)
(***************************************************************************)
EXTENDS Connectivity

\* The longest that SimNetwork's InTime allows: configureLteMode, the 40 s of checkInternet,
\* and AT+CSQ, AT+CIMI and AT+COPS? and a read past its deadline, all unanswered.
Unanswered == 55
=============================================================================
