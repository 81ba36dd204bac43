------------------------------ MODULE DcomWifi ------------------------------
(***************************************************************************)
(* DcomModule and the Wi-Fi driver's events.  checkInternet runs in the    *)
(* caller's task and waits on two event bits; wifiEventHandler runs in the *)
(* event task, later, and sets them; the station's own state changes in    *)
(* between.  A use of the module is powerOn, checkInternet, a session if   *)
(* that returned true, powerOff; the diagnostic and the sync each make one.*)
(***************************************************************************)
EXTENDS Naturals, Sequences

CONSTANTS
  Uses,        (* bound: times the module is used in a boot                *)
  Losses,      (* bound: connections refused, lost or late, calls failed   *)
  Fatal        (* may a disconnection have one of the fatal reasons?       *)

ASSUME DcomWifiAssumption == Uses \in Nat /\ Losses \in Nat /\ Fatal \in BOOLEAN

VARIABLES
  pc,          (* where the caller is                                      *)
  use,         (* history: number of the use                               *)
  started,     (* wifi_started_                                            *)
  bits,        (* s_wifi_events                                            *)
  radio,       (* the station: "off", "idle", "connecting", "connected"    *)
  events,      (* posted, not yet handled                                  *)
  losses,      (* bound on the station's failures                          *)
  source,      (* history: use whose event set the connected bit           *)
  gaveUp       (* history: a fatal reason was handled in this use          *)

vars == <<pc, use, started, bits, radio, events, losses, source, gaveUp>>

Event(k) == [kind |-> k, use |-> use]
Kinds == {"start", "gotIp", "lost", "lostFatal"}
Reasons == IF Fatal THEN {"lost", "lostFatal"} ELSE {"lost"}

Init ==
  /\ pc = "off" /\ use = 0 /\ started = FALSE /\ bits = {}
  /\ radio = "off" /\ events = <<>> /\ losses = 0
  /\ source = 0 /\ gaveUp = FALSE

-----------------------------------------------------------------------------
(* The Wi-Fi driver.                                                       *)

\* esp_wifi_connect: begins only from a started station that is doing nothing.
Connecting == IF radio = "idle" THEN "connecting" ELSE radio

GetsIp ==
  /\ radio = "connecting"
  /\ radio' = "connected"
  /\ events' = Append(events, Event("gotIp"))
  /\ UNCHANGED <<pc, use, started, bits, losses, source, gaveUp>>

\* The access point refuses the station, or loses it.
Disconnects(reason) ==
  /\ radio \in {"connecting", "connected"} /\ losses < Losses
  /\ radio' = "idle"
  /\ events' = Append(events, Event(reason))
  /\ losses' = losses + 1
  /\ UNCHANGED <<pc, use, started, bits, source, gaveUp>>

-----------------------------------------------------------------------------
(* wifiEventHandler, in the event task.                                    *)

OnStart ==
  /\ Head(events).kind = "start"
  /\ radio' = Connecting
  /\ UNCHANGED <<bits, source, gaveUp>>

OnGotIp ==
  /\ Head(events).kind = "gotIp"
  /\ bits' = bits \cup {"connected"}
  /\ source' = Head(events).use
  /\ UNCHANGED <<radio, gaveUp>>

\* Mutated: no disconnection is followed by another attempt.
OnDisconnected_NoRetry ==
  /\ Head(events).kind \in {"lost", "lostFatal"}
  /\ bits' = bits \ {"connected"}
  /\ UNCHANGED <<radio, source, gaveUp>>

\* A fatal reason ends the attempts; after any other the station tries again.
OnDisconnected ==
  /\ Head(events).kind \in {"lost", "lostFatal"}
  /\ IF Head(events).kind = "lostFatal"
     THEN /\ bits' = (bits \ {"connected"}) \cup {"fail"}
          /\ gaveUp' = TRUE
          /\ UNCHANGED radio
     ELSE /\ bits' = bits \ {"connected"}
          /\ radio' = Connecting
          /\ UNCHANGED gaveUp
  /\ UNCHANGED source

Handle ==
  /\ events # <<>>
  /\ OnStart \/ OnGotIp \/ OnDisconnected
  /\ events' = Tail(events)
  /\ UNCHANGED <<pc, use, started, losses>>

-----------------------------------------------------------------------------
(* DcomModule, in the caller's task.                                       *)

\* powerOn takes 600 ms, and the event task has the highest priority of all: whatever
\* the last use posted is handled by then.
PowerOn ==
  /\ pc = "off" /\ use < Uses /\ events = <<>>
  /\ pc' = "clear"
  /\ use' = use + 1
  /\ gaveUp' = FALSE
  /\ UNCHANGED <<started, bits, radio, events, losses, source>>

\* Mutated: the bits of the last use are not cleared.
ClearBits_Kept ==
  /\ pc = "clear"
  /\ pc' = "start"
  /\ UNCHANGED <<use, started, bits, radio, events, losses, source, gaveUp>>

ClearBits ==
  /\ pc = "clear"
  /\ bits' = {}
  /\ pc' = "start"
  /\ UNCHANGED <<use, started, radio, events, losses, source, gaveUp>>

StartWifi ==
  /\ pc = "start"
  /\ pc' = "connect"
  /\ started' = TRUE
  /\ IF started THEN UNCHANGED <<radio, events>>
     ELSE /\ radio' = IF radio = "off" THEN "idle" ELSE radio
          /\ events' = Append(events, Event("start"))
  /\ UNCHANGED <<use, bits, losses, source, gaveUp>>

\* esp_wifi_set_mode, _set_config or _start fails: checkInternet returns false.
StartFails ==
  /\ pc = "start" /\ losses < Losses
  /\ losses' = losses + 1
  /\ pc' = "down"
  /\ UNCHANGED <<use, started, bits, radio, events, source, gaveUp>>

\* Mutated: the bits are cleared here, after the station was started.
Connect_ClearsBits ==
  /\ pc = "connect"
  /\ radio' = Connecting
  /\ bits' = {}
  /\ pc' = "wait"
  /\ UNCHANGED <<use, started, events, losses, source, gaveUp>>

Connect ==
  /\ pc = "connect"
  /\ radio' = Connecting
  /\ pc' = "wait"
  /\ UNCHANGED <<use, started, bits, events, losses, source, gaveUp>>

\* esp_wifi_connect fails: checkInternet returns false, the Wi-Fi started.
ConnectFails ==
  /\ pc = "connect" /\ losses < Losses
  /\ losses' = losses + 1
  /\ pc' = "down"
  /\ UNCHANGED <<use, started, bits, radio, events, source, gaveUp>>

\* xEventGroupWaitBits, which clears both bits as it returns.
Waited ==
  /\ pc = "wait" /\ bits # {}
  /\ bits' = {}
  /\ pc' = IF "connected" \in bits THEN "session" ELSE "down"
  /\ UNCHANGED <<use, started, radio, events, losses, source, gaveUp>>

\* Sixty seconds, enough for a station and an access point that do not fail: a failure of
\* the station like the others.
WaitTimesOut ==
  /\ pc = "wait" /\ bits = {} /\ losses < Losses
  /\ losses' = losses + 1
  /\ pc' = "down"
  /\ UNCHANGED <<use, started, bits, radio, events, source, gaveUp>>

SessionEnds ==
  /\ pc = "session"
  /\ pc' = "down"
  /\ UNCHANGED <<use, started, bits, radio, events, losses, source, gaveUp>>

\* powerOff begins with esp_wifi_disconnect, whose event carries no fatal reason.
Disconnect ==
  /\ pc = "down"
  /\ pc' = "stop"
  /\ IF started /\ radio \in {"connecting", "connected"}
     THEN radio' = "idle" /\ events' = Append(events, Event("lost"))
     ELSE UNCHANGED <<radio, events>>
  /\ UNCHANGED <<use, started, bits, losses, source, gaveUp>>

\* esp_wifi_stop; the handler may have begun to connect again meanwhile.
StopWifi ==
  /\ pc = "stop"
  /\ pc' = "off"
  /\ started' = FALSE
  /\ radio' = IF started THEN "off" ELSE radio
  /\ UNCHANGED <<use, bits, events, losses, source, gaveUp>>

-----------------------------------------------------------------------------
Caller ==
  \/ PowerOn \/ ClearBits \/ StartWifi \/ StartFails \/ Connect \/ ConnectFails
  \/ Waited \/ WaitTimesOut \/ SessionEnds \/ Disconnect \/ StopWifi

Station == GetsIp \/ \E reason \in Reasons : Disconnects(reason)

Next == Caller \/ Station \/ Handle

Spec == Init /\ [][Next]_vars

\* Waits time out, events are handled, and an attempt to connect ends.
FairSpec == Spec /\ WF_vars(Caller) /\ WF_vars(Handle) /\ WF_vars(Station)
-----------------------------------------------------------------------------
TypeOK ==
  /\ pc \in {"off", "clear", "start", "connect", "wait", "session", "down", "stop"}
  /\ use \in 0 .. Uses /\ losses \in 0 .. Losses
  /\ started \in BOOLEAN /\ gaveUp \in BOOLEAN
  /\ bits \in SUBSET {"connected", "fail"}
  /\ radio \in {"off", "idle", "connecting", "connected"}
  /\ events \in Seq([kind : Kinds, use : 1 .. Uses])
  /\ source \in 0 .. Uses
  /\ started = (radio # "off")

\* checkInternet returns true on an address obtained in this use, not on a bit that a
\* late event of an earlier one left behind.
ResultFresh == pc = "session" => source = use

\* Whatever interrupts the link of a session without a fatal reason, the station is
\* trying to get it back once the event is handled.
KeepsTrying ==
  pc = "session" /\ events = <<>> /\ ~gaveUp => radio \in {"connecting", "connected"}

\* powerOff leaves the station stopped and wifi_started_ false, though its own
\* disconnection makes the handler connect again.
OffIsOff == pc = "off" => radio = "off" /\ ~started

\* A use that begins after the last failure gets its session, whatever the uses before it
\* have left: bits, late events, a station half stopped.
HealthySession == pc = "clear" /\ losses = Losses ~> pc = "session"
=============================================================================
