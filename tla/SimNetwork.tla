----------------------------- MODULE SimNetwork -----------------------------
(***************************************************************************)
(* Sim4GModule from powerOn to the end of checkInternet: the handshake,    *)
(* the SIM card, registration, the carrier, and the data context on one    *)
(* APN and then on the other, all but the first within one deadline.       *)
(*                                                                         *)
(* Time is counted in tenths of a second.  A command waits for its answer  *)
(* in reads of a fixed length; an answer that comes after its wait is      *)
(* dropped by the flush before the next command, but the command may have  *)
(* been obeyed.                                                            *)
(***************************************************************************)
EXTENDS Naturals

CONSTANTS
  Budget,    (* kSimNetworkTimeoutMs                                       *)
  Lags       (* how long the modem may take to answer a command            *)

ASSUME SimNetworkAssumption == Budget \in Nat \ {0} /\ Lags \subseteq Nat \ {0}

Apns == {"Viettel", "Vinaphone"}
None == "none"

VARIABLES
  step,      (* the command the driver is at                               *)
  now,       (* since powerOn began, then since checkInternet began        *)
  profile,   (* the APN being tried                                        *)
  tried,     (* history: APNs tried in this check                          *)
  saved,     (* the APN kept in NVS                                        *)
  card,      (* the APN of the card's carrier, or none known               *)
  works,     (* APNs the network accepts from this card                    *)
  apn,       (* the modem: the APN that context 1 is configured with       *)
  pdp,       (* the modem: the APN with which context 1 was activated      *)
  seen,      (* history: pdp as AT+CGACT? found it                         *)
  stale,     (* history: a context was left up between the two APNs        *)
  trouble    (* history: in this check, modem or network failed a command  *)

vars == <<step, now, profile, tried, saved, card, works, apn, pdp, seen, stale, trouble>>
modem == <<apn, pdp>>
world == <<card, works>>
history == <<seen, stale, trouble>>

Other(p) == CHOOSE q \in Apns : q # p

Init ==
  /\ step = "handshake" /\ now = 51        (* the power edge and the boot *)
  /\ profile \in Apns /\ saved = profile /\ tried = {}
  /\ card \in Apns \cup {None} /\ works \in SUBSET Apns
  /\ apn = None /\ pdp = None
  /\ seen = None /\ stale = FALSE /\ trouble = FALSE

-----------------------------------------------------------------------------
(* The time a command takes.                                               *)

Handshake == 120     (* kSimAtHandshakeTimeoutMs *)

\* kSimRegPollIntervalMs and kSimAtRetryDelayMs
PollDelay == 20
RetryDelay == 5

\* msRemaining and clampTimeout: the deadline is Budget after the check began.
Remaining == IF now < Budget THEN Budget - now ELSE 0

\* Mutated: the deadline is not looked at.
Clamp_Not(t) == t

Clamp(t) == IF Remaining < t THEN Remaining ELSE t

\* A wait of t made of reads of n each ends with a read.
Reads(t, n) == n * ((t + n - 1) \div n)

\* The instants at which a wait of t, in reads of n, finds its answer, or gives up.
FoundIn(t, n) == {now + Reads(lag, n) : lag \in {l \in Lags : l < Reads(t, n)}}
EndsIn(t, n) == FoundIn(t, n) \cup {now + Reads(t, n)}

\* waitForToken reads for 200 ms at a time.
Found(t) == FoundIn(t, 2)
Ends(t) == EndsIn(t, 2)

-----------------------------------------------------------------------------
(* powerOn: the handshake, then configureLteMode, which ignores failures.  *)

Ready ==
  /\ step = "handshake"
  /\ now' \in Found(10)
  /\ step' = "config"
  /\ UNCHANGED <<profile, tried, saved, world, modem, history>>

NoUart ==
  /\ step = "handshake" /\ now = 51
  /\ step' = "off" /\ trouble' = TRUE
  /\ UNCHANGED <<now, profile, tried, saved, world, modem, seen, stale>>

\* One try more, while the handshake's time has not passed.
NotReady ==
  /\ step = "handshake"
  /\ \E end \in Ends(10) :
       /\ now' = end + RetryDelay
       /\ step' = IF now' < 51 + Handshake THEN "handshake" ELSE "off"
  /\ trouble' = TRUE
  /\ UNCHANGED <<profile, tried, saved, world, modem, seen, stale>>

\* Three commands, whatever they answer; then checkInternet sets its deadline.
Configure ==
  /\ step = "config"
  /\ step' = "sim" /\ now' = 0
  /\ UNCHANGED <<profile, tried, saved, world, modem, history>>

-----------------------------------------------------------------------------
(* checkSimReady, waitLteRegistration, detectCarrier.                      *)

CardReady ==
  /\ step = "sim"
  /\ now' \in Found(Clamp(50))
  /\ step' = "register"
  /\ UNCHANGED <<profile, tried, saved, world, modem, history>>

CardNotReady ==
  /\ step = "sim"
  /\ now' \in Ends(Clamp(50))
  /\ step' = "failed" /\ trouble' = TRUE
  /\ UNCHANGED <<profile, tried, saved, world, modem, seen, stale>>

Registered ==
  /\ step = "register" /\ Remaining > 0
  /\ now' \in Found(Clamp(30))
  /\ step' = "signal"
  /\ UNCHANGED <<profile, tried, saved, world, modem, history>>

Denied ==
  /\ step = "register" /\ Remaining > 0
  /\ now' \in Found(Clamp(30))
  /\ step' = "failed" /\ trouble' = TRUE
  /\ UNCHANGED <<profile, tried, saved, world, modem, seen, stale>>

\* Searching, or no answer.
NotRegistered ==
  /\ step = "register" /\ Remaining > 0
  /\ \E end \in Ends(Clamp(30)) : now' = end + PollDelay
  /\ UNCHANGED <<step, profile, tried, saved, world, modem, history>>

RegistrationEnds ==
  /\ step = "register" /\ Remaining = 0
  /\ step' = "failed"
  /\ UNCHANGED <<now, profile, tried, saved, world, modem, history>>

\* AT+CSQ is only logged, but waited for with no regard to the deadline.
Signal ==
  /\ step = "signal"
  /\ now' \in Ends(20)
  /\ step' = "imsi"
  /\ UNCHANGED <<profile, tried, saved, world, modem, history>>

\* tryApnConnect returns at once when no time is left.
Begin(p) ==
  /\ profile' = p
  /\ IF now' < Budget
     THEN step' = "define" /\ tried' = tried \cup {p}
     ELSE step' = "cleanup" /\ UNCHANGED tried

\* AT+CIMI, in reads of 300 ms until "OK": the card's number tells its carrier.
Imsi ==
  /\ step = "imsi" /\ card # None
  /\ now' \in EndsIn(30, 3)
  /\ Begin(card)
  /\ UNCHANGED <<saved, world, modem, history>>

NoImsi ==
  /\ step = "imsi"
  /\ now' \in EndsIn(30, 3)
  /\ step' = "operator"
  /\ UNCHANGED <<profile, tried, saved, world, modem, history>>

\* AT+COPS? tells the operator in use, of any carrier; without it the saved APN is first.
Operator ==
  /\ step = "operator"
  /\ \/ now' \in Found(30) /\ \E p \in Apns : Begin(p)
     \/ now' \in Ends(30) /\ Begin(saved)
  /\ UNCHANGED <<saved, world, modem, history>>

-----------------------------------------------------------------------------
(* tryApnConnect: configureApnPhase, attachAndActivateData,                *)
(* verifyDataReady.                                                        *)

\* Mutated: only one APN is tried.
Fails_ForGood == step' = "failed"

\* This APN failed: the other one's turn, or the end.
Fails == step' = IF tried = Apns THEN "failed" ELSE "cleanup"

\* AT+CGDCONT
Defined ==
  /\ step = "define"
  /\ now' \in Found(Clamp(30))
  /\ apn' = profile
  /\ step' = "authorize"
  /\ UNCHANGED <<profile, tried, saved, world, pdp, history>>

NotDefined ==
  /\ step = "define"
  /\ now' \in Ends(Clamp(30))
  /\ apn' \in {apn, profile}
  /\ Fails /\ trouble' = TRUE
  /\ UNCHANGED <<profile, tried, saved, world, pdp, seen, stale>>

\* AT+CGAUTH
Authorized ==
  /\ step = "authorize"
  /\ now' \in Found(Clamp(20))
  /\ step' = "attach"
  /\ UNCHANGED <<profile, tried, saved, world, modem, history>>

NotAuthorized ==
  /\ step = "authorize"
  /\ now' \in Ends(Clamp(20))
  /\ Fails /\ trouble' = TRUE
  /\ UNCHANGED <<profile, tried, saved, world, modem, seen, stale>>

\* AT+CGATT=1, whatever it answers.
Attach ==
  /\ step = "attach"
  /\ now' \in Ends(Clamp(50))
  /\ step' = "attached"
  /\ UNCHANGED <<profile, tried, saved, world, modem, history>>

\* AT+CGATT? until it says so.
Attached ==
  /\ step = "attached" /\ Remaining > 0
  /\ now' \in Found(Clamp(20))
  /\ step' = "activate"
  /\ UNCHANGED <<profile, tried, saved, world, modem, history>>

NotAttached ==
  /\ step = "attached" /\ Remaining > 0
  /\ \E end \in Ends(Clamp(20)) : now' = end + PollDelay
  /\ UNCHANGED <<step, profile, tried, saved, world, modem, history>>

AttachEnds ==
  /\ step = "attached" /\ Remaining = 0
  /\ Fails
  /\ UNCHANGED <<now, profile, tried, saved, world, modem, history>>

\* AT+CGACT=1,1: a context that is up stays as it is.
Activation == IF pdp = None THEN apn ELSE pdp

Activated ==
  /\ step = "activate"
  /\ now' \in Found(Clamp(50))
  /\ Activation \in works
  /\ pdp' = Activation
  /\ step' = "verify"
  /\ UNCHANGED <<profile, tried, saved, world, apn, history>>

NotActivated ==
  /\ step = "activate"
  /\ now' \in Ends(Clamp(50))
  /\ pdp' \in {pdp} \cup ({Activation} \cap works)
  /\ Fails /\ trouble' = (trouble \/ Activation \in works)
  /\ UNCHANGED <<profile, tried, saved, world, apn, seen, stale>>

\* AT+CGACT?, for which there must be time left.
Verified ==
  /\ step = "verify" /\ Remaining > 0
  /\ now' \in Found(Clamp(30))
  /\ pdp # None
  /\ seen' = pdp
  /\ step' = "address"
  /\ UNCHANGED <<profile, tried, saved, world, modem, stale, trouble>>

NotVerified ==
  /\ step = "verify"
  /\ now' \in IF Remaining = 0 THEN {now} ELSE Ends(Clamp(30))
  /\ Fails /\ trouble' = (trouble \/ now < Budget)
  /\ UNCHANGED <<profile, tried, saved, world, modem, seen, stale>>

\* AT+CGPADDR: no answer is as good as an address.  The APN is saved.
Addressed ==
  /\ step = "address"
  /\ now' \in Ends(Clamp(30))
  /\ saved' = profile
  /\ step' = "online"
  /\ UNCHANGED <<profile, tried, world, modem, history>>

NotAddressed ==
  /\ step = "address" /\ pdp = None
  /\ now' \in Found(Clamp(30))
  /\ Fails /\ trouble' = TRUE
  /\ UNCHANGED <<profile, tried, saved, world, modem, seen, stale>>

\* The other APN, if there is time.
Fallback ==
  IF now' < Budget
  THEN step' = "define" /\ profile' = Other(profile) /\ tried' = Apns
  ELSE step' = "failed" /\ UNCHANGED <<profile, tried>>

\* Mutated: the first context is not taken down.
Cleanup_Nothing ==
  /\ step = "cleanup"
  /\ UNCHANGED now
  /\ Fallback
  /\ UNCHANGED <<saved, world, modem, history>>

\* AT+CGACT=0,1 before the other APN, whatever it answers.
Cleanup ==
  /\ step = "cleanup"
  /\ now' \in Ends(Clamp(20))
  /\ pdp' \in {pdp, None}
  /\ stale' = (stale \/ pdp' # None)
  /\ Fallback
  /\ UNCHANGED <<saved, world, apn, seen, trouble>>

-----------------------------------------------------------------------------
\* The network takes the context down, at any time.
PdpLost ==
  /\ pdp # None
  /\ pdp' = None /\ trouble' = TRUE
  /\ UNCHANGED <<step, now, profile, tried, saved, world, apn, seen, stale>>

\* powerOff, and powerOn for the next check: the modem keeps what it was configured with.
PowerCycle ==
  /\ step \in {"off", "online", "failed"}
  /\ step' = "handshake" /\ now' = 51
  /\ tried' = {} /\ pdp' = None
  /\ seen' = None /\ stale' = FALSE /\ trouble' = FALSE
  /\ UNCHANGED <<profile, saved, world, apn>>

Driver ==
  \/ Ready \/ NoUart \/ NotReady \/ Configure
  \/ CardReady \/ CardNotReady
  \/ Registered \/ Denied \/ NotRegistered \/ RegistrationEnds
  \/ Signal \/ Imsi \/ NoImsi \/ Operator
  \/ Defined \/ NotDefined \/ Authorized \/ NotAuthorized
  \/ Attach \/ Attached \/ NotAttached \/ AttachEnds
  \/ Activated \/ NotActivated \/ Verified \/ NotVerified
  \/ Addressed \/ NotAddressed \/ Cleanup

Next == Driver \/ PdpLost \/ PowerCycle

Spec == Init /\ [][Next]_vars
-----------------------------------------------------------------------------
Steps == {"handshake", "config", "sim", "register", "signal", "imsi", "operator", "define",
          "authorize", "attach", "attached", "activate", "verify", "address", "cleanup",
          "off", "online", "failed"}

TypeOK ==
  /\ step \in Steps /\ now \in Nat
  /\ profile \in Apns /\ saved \in Apns /\ tried \subseteq Apns
  /\ card \in Apns \cup {None} /\ works \subseteq Apns
  /\ apn \in Apns \cup {None} /\ pdp \in Apns \cup {None} /\ seen \in Apns \cup {None}
  /\ stale \in BOOLEAN /\ trouble \in BOOLEAN

\* powerOn gives up within 19 seconds.  checkInternet returns true within its budget and
\* a read, and false at the latest after the three commands that do not look at the
\* deadline: Connectivity counts on these times.
InTime ==
  /\ step = "off" => now <= 185
  /\ step = "online" => now <= Budget + 1
  /\ step = "failed" => now <= Budget + 81

\* The APN that checkInternet reports and saves is the one the data context was seen active
\* with, not the one the first attempt left up, unless the clean-up between them failed.
RightApn == step = "online" /\ ~stale => seen = saved

\* Both APNs are refused, or the time is up, or something failed: one APN that does not work
\* is no reason to give up.
FailsForAReason == step = "failed" => works = {} \/ now >= Budget \/ trouble
=============================================================================
