---------------------------- MODULE Links_proofs ----------------------------
(***************************************************************************)
(* Proofs about the two links, DcomWifi and SimHttp.                       *)
(*                                                                         *)
(* DcomWifi, for any number of uses and of failures.  What checkInternet   *)
(* returns is fresh because the events of a use are handled before the     *)
(* next begins (CurrentEvents) and its bits are cleared before the station *)
(* starts (CurrentBits).  A session's station is on its way because        *)
(* whatever stops it leaves an event behind (Noticed).                     *)
(* A use after the last failure comes to its session within seven steps    *)
(* (SessionIsNear).                                                        *)
(*                                                                         *)
(* SimHttp, for any number of calls, with late answers, cut tokens and a   *)
(* failing network or without.  No call fails while modem and server       *)
(* answer as they should, because each step of the driver then finds the   *)
(* UART and the modem in one of a few states (Fine): the driver's wait,    *)
(* the commands not yet obeyed, and the tokens on their way to it, those   *)
(* in the buffer and those on the wire together (Coming).                  *)
(***************************************************************************)
EXTENDS DcomWifi, SimHttp, SequenceTheorems, WellFoundedInduction, TLAPS

-----------------------------------------------------------------------------
(* The Wi-Fi module.                                                       *)

Busy == {"clear", "start", "connect", "wait", "session", "down", "stop"}

\* A use has a number, and outside a use the station is stopped.
InUse == (pc \in Busy => use > 0) /\ (pc \in {"off", "clear"} => ~started)

\* checkInternet goes on only with a started station.
Running == pc \in {"connect", "wait", "session"} => started

\* No event of an earlier use is left when one begins.
CurrentEvents == pc \in Busy => \A i \in 1 .. Len(events) : events[i].use = use

\* Once the bits were cleared, a connected bit is this use's.
CurrentBits ==
  /\ pc \in {"start", "connect", "wait", "down", "stop", "session"} /\ "connected" \in bits
       => source = use
  /\ pc = "session" => source = use

\* A station found idle has left an event that will make it connect, or give up.
Noticed ==
  pc \in {"wait", "session"} /\ radio = "idle" /\ ~gaveUp =>
    \E i \in 1 .. Len(events) : events[i].kind # "gotIp"

IInv == TypeOK /\ InUse /\ Running /\ CurrentEvents /\ CurrentBits /\ Noticed

-----------------------------------------------------------------------------
\* The elements of a queue of events with one more at its end.
LEMMA AppendedEvents ==
  ASSUME NEW S, NEW s \in Seq(S), NEW e \in S
  PROVE  /\ Append(s, e) \in Seq(S)
         /\ Len(Append(s, e)) = Len(s) + 1
         /\ \A i \in 1 .. Len(s) : Append(s, e)[i] = s[i]
         /\ Append(s, e)[Len(s) + 1] = e
  OBVIOUS

\* The elements of a queue of events without its first.
LEMMA HandledEvents ==
  ASSUME NEW S, NEW s \in Seq(S), s # <<>>
  PROVE  /\ Head(s) \in S /\ Head(s) = s[1]
         /\ Len(s) \in Nat /\ Len(s) > 0
         /\ Tail(s) \in Seq(S) /\ Len(Tail(s)) = Len(s) - 1
         /\ \A i \in 1 .. Len(s) - 1 : Tail(s)[i] = s[i + 1]
  OBVIOUS

LEMMA InitHolds == Init => IInv
<1> SUFFICES ASSUME Init PROVE IInv
  OBVIOUS
<1>1. events \in Seq([kind : Kinds, use : 1 .. Uses])
  BY DEF Init
<1>2. use \in 0 .. Uses /\ losses \in 0 .. Losses /\ source \in 0 .. Uses
  BY DcomWifiAssumption DEF Init
<1>3. started = (radio # "off") /\ bits \in SUBSET {"connected", "fail"}
  BY Zenon DEF Init
<1>4. TypeOK
  BY <1>1, <1>2, <1>3 DEF Init, TypeOK
<1> QED
  BY <1>4 DEF Init, IInv, InUse, Running, CurrentEvents, CurrentBits, Noticed, Busy

\* What the driver and the caller post: an event of the use under way.
LEMMA Posted ==
  ASSUME IInv, pc \in Busy, NEW k \in Kinds, events' = Append(events, Event(k))
  PROVE  /\ events' \in Seq([kind : Kinds, use : 1 .. Uses])
         /\ \A i \in 1 .. Len(events') : events'[i].use = use
         /\ Len(events') \in Nat /\ Len(events') > 0
         /\ events'[Len(events')].kind = k
         /\ \A i \in 1 .. Len(events) : i \in 1 .. Len(events') /\ events'[i] = events[i]
<1> DEFINE S == [kind : Kinds, use : 1 .. Uses]
<1>1. Event(k) \in S /\ Event(k).use = use /\ Event(k).kind = k
  BY DcomWifiAssumption DEF Event, IInv, TypeOK, InUse
<1>2. events \in Seq(S) /\ \A i \in 1 .. Len(events) : events[i].use = use
  BY DEF IInv, TypeOK, CurrentEvents
<1>3. Len(events) \in Nat
  BY <1>2
<1> HIDE DEF S
<1>4. /\ events' \in Seq(S) /\ Len(events') = Len(events) + 1
      /\ \A i \in 1 .. Len(events) : events'[i] = events[i]
      /\ events'[Len(events) + 1] = Event(k)
  BY <1>1, <1>2, AppendedEvents
<1> QED
  BY <1>1, <1>2, <1>3, <1>4 DEF S

-----------------------------------------------------------------------------
(* One lemma for the station, one for the handler, one for the caller.     *)

LEMMA StationKeeps == IInv /\ Station => IInv'
<1> SUFFICES ASSUME IInv, Station PROVE IInv'
  OBVIOUS
<1>1. pc \in Busy
  BY DEF IInv, TypeOK, InUse, Station, GetsIp, Disconnects, Busy
<1>2. CASE GetsIp
  <2>1. "gotIp" \in Kinds /\ events' = Append(events, Event("gotIp"))
    BY <1>2 DEF GetsIp, Kinds
  <2>2. /\ events' \in Seq([kind : Kinds, use : 1 .. Uses])
        /\ \A i \in 1 .. Len(events') : events'[i].use = use
    BY <1>1, <2>1, Posted
  <2>3. TypeOK' /\ InUse' /\ Running' /\ CurrentEvents' /\ CurrentBits'
    BY <1>2, <2>2 DEF GetsIp, IInv, TypeOK, InUse, Running, CurrentEvents, CurrentBits
  <2>4. Noticed'
    BY <1>2 DEF GetsIp, Noticed
  <2> QED
    BY <2>3, <2>4 DEF IInv
<1>3. ASSUME NEW reason \in Reasons, Disconnects(reason)
      PROVE IInv'
  <2>1. reason \in Kinds /\ reason # "gotIp" /\ events' = Append(events, Event(reason))
    BY <1>3 DEF Disconnects, Kinds, Reasons
  <2>2. /\ events' \in Seq([kind : Kinds, use : 1 .. Uses])
        /\ \A i \in 1 .. Len(events') : events'[i].use = use
        /\ Len(events') \in Nat /\ Len(events') > 0
        /\ events'[Len(events')].kind # "gotIp"
    BY <1>1, <2>1, Posted
  <2>3. TypeOK'
    BY <1>3, <2>2, DcomWifiAssumption DEF Disconnects, IInv, TypeOK
  <2>4. InUse' /\ Running' /\ CurrentEvents' /\ CurrentBits'
    BY <1>3, <2>2 DEF Disconnects, IInv, InUse, Running, CurrentEvents, CurrentBits
  <2>5. Noticed'
    BY <2>2 DEF Noticed
  <2> QED
    BY <2>3, <2>4, <2>5 DEF IInv
<1> QED
  BY <1>2, <1>3 DEF Station

LEMMA HandlerKeeps == IInv /\ Handle => IInv'
<1> SUFFICES ASSUME IInv, Handle PROVE IInv'
  OBVIOUS
<1> DEFINE S == [kind : Kinds, use : 1 .. Uses]
<1>1. events \in Seq(S) /\ events # <<>> /\ events' = Tail(events)
  BY DEF Handle, IInv, TypeOK
<1>2. /\ Head(events) \in S /\ Head(events) = events[1]
      /\ Len(events) \in Nat /\ Len(events) > 0
      /\ events' \in Seq(S) /\ Len(events') = Len(events) - 1
      /\ \A i \in 1 .. Len(events) - 1 : events'[i] = events[i + 1]
  <2> HIDE DEF S
  <2> QED
    BY <1>1, HandledEvents
<1>3. /\ UNCHANGED <<pc, use, started, losses>>
      /\ radio' \in {radio, Connecting}
  BY DEF Handle, OnStart, OnGotIp, OnDisconnected
<1>4. radio' \in {"off", "idle", "connecting", "connected"} /\ ((radio' = "off") <=> (radio = "off"))
  BY <1>3 DEF Connecting, IInv, TypeOK
<1>5. source' \in 0 .. Uses /\ bits' \in SUBSET {"connected", "fail"} /\ gaveUp' \in BOOLEAN
  <2>1. source \in 0 .. Uses /\ bits \in SUBSET {"connected", "fail"} /\ gaveUp \in BOOLEAN
    BY DEF IInv, TypeOK
  <2>2. CASE OnStart
    BY <2>1, <2>2 DEF OnStart
  <2>3. CASE OnGotIp
    BY <1>2, <2>1, <2>3, DcomWifiAssumption DEF OnGotIp
  <2>4. CASE OnDisconnected
    BY <2>1, <2>4 DEF OnDisconnected
  <2> QED
    BY <2>2, <2>3, <2>4 DEF Handle
<1>6. TypeOK'
  BY <1>2, <1>3, <1>4, <1>5 DEF IInv, TypeOK
<1>7. InUse' /\ Running'
  BY <1>3 DEF IInv, InUse, Running
<1>8. CurrentEvents'
  <2>1. pc' = pc /\ use' = use
    BY <1>3
  <2>2. ASSUME pc \in Busy, NEW i \in 1 .. Len(events') PROVE events'[i].use = use
    <3>1. \A k \in 1 .. Len(events) : events[k].use = use
      BY <2>2 DEF IInv, CurrentEvents
    <3>2. i \in 1 .. Len(events) - 1 /\ i + 1 \in 1 .. Len(events)
      BY <1>2, <2>2
    <3> QED
      BY <1>2, <3>1, <3>2
  <2> QED
    BY <2>1, <2>2 DEF CurrentEvents
<1>9. CurrentBits'
  <2>1. pc \in Busy => Head(events).use = use
    BY <1>2 DEF IInv, CurrentEvents
  <2>2. CASE OnGotIp
    BY <1>3, <2>1, <2>2 DEF OnGotIp, CurrentBits, Busy
  <2>3. CASE OnStart \/ OnDisconnected
    <3>1. source' = source /\ ("connected" \in bits' => "connected" \in bits)
      BY <2>3 DEF OnStart, OnDisconnected
    <3> QED
      BY <1>3, <3>1 DEF IInv, CurrentBits
  <2> QED
    BY <2>2, <2>3 DEF Handle
<1>10. Noticed'
  <2>1. CASE OnGotIp
    <3>1. UNCHANGED <<radio, gaveUp>> /\ events[1].kind = "gotIp"
      BY <1>2, <2>1 DEF OnGotIp
    <3>2. ASSUME NEW i \in 1 .. Len(events), events[i].kind # "gotIp"
          PROVE  i - 1 \in 1 .. Len(events') /\ events'[i - 1].kind # "gotIp"
      <4>1. i # 1
        BY <3>1, <3>2
      <4>2. i - 1 \in 1 .. Len(events) - 1 /\ (i - 1) + 1 = i
        BY <1>2, <4>1
      <4> QED
        BY <1>2, <3>2, <4>2
    <3> QED
      BY <1>3, <3>1, <3>2 DEF IInv, Noticed
  <2>2. CASE OnStart
    BY <2>2 DEF OnStart, Connecting, Noticed
  <2>3. CASE OnDisconnected
    BY <2>3 DEF OnDisconnected, Connecting, Noticed
  <2> QED
    BY <2>1, <2>2, <2>3 DEF Handle
<1> QED
  BY <1>6, <1>7, <1>8, <1>9, <1>10 DEF IInv

\* The steps of the caller that post no event and leave the queue alone.
LEMMA QuietCallerKeeps ==
  IInv /\ ( \/ PowerOn \/ ClearBits \/ StartFails \/ Connect \/ ConnectFails \/ Waited
          \/ WaitTimesOut \/ SessionEnds \/ StopWifi) => IInv'
<1> USE DEF Busy
<1>1. ASSUME IInv, PowerOn PROVE IInv'
  <2>1. use' \in 0 .. Uses /\ use' > 0 /\ Len(events) = 0
    BY <1>1, DcomWifiAssumption DEF PowerOn, IInv, TypeOK
  <2>2. TypeOK'
    BY <1>1, <2>1 DEF PowerOn, IInv, TypeOK
  <2> QED
    BY <1>1, <2>1, <2>2
       DEF PowerOn, IInv, InUse, Running, CurrentEvents, CurrentBits, Noticed
<1>2. ASSUME IInv, ClearBits PROVE IInv'
  BY <1>2 DEF ClearBits, IInv, TypeOK, InUse, Running, CurrentEvents, CurrentBits, Noticed
<1>3. ASSUME IInv, StartFails \/ ConnectFails \/ WaitTimesOut PROVE IInv'
  <2>1. losses' \in 0 .. Losses
    BY <1>3, DcomWifiAssumption DEF StartFails, ConnectFails, WaitTimesOut, IInv, TypeOK
  <2> QED
    BY <1>3, <2>1 DEF StartFails, ConnectFails, WaitTimesOut, IInv, TypeOK, InUse, Running, CurrentEvents,
                      CurrentBits, Noticed
<1>4. ASSUME IInv, Connect PROVE IInv'
  BY <1>4 DEF Connect, Connecting, IInv, TypeOK, InUse, Running, CurrentEvents, CurrentBits,
              Noticed
<1>5. ASSUME IInv, Waited \/ SessionEnds PROVE IInv'
  BY <1>5 DEF Waited, SessionEnds, IInv, TypeOK, InUse, Running, CurrentEvents,
              CurrentBits, Noticed
<1>6. ASSUME IInv, StopWifi PROVE IInv'
  BY <1>6 DEF StopWifi, IInv, TypeOK, InUse, Running, CurrentEvents, CurrentBits, Noticed
<1> QED
  BY <1>1, <1>2, <1>3, <1>4, <1>5, <1>6

LEMMA PostingCallerKeeps == IInv /\ (StartWifi \/ Disconnect) => IInv'
<1>1. ASSUME IInv, StartWifi, started PROVE IInv'
  BY <1>1 DEF StartWifi, IInv, InUse, TypeOK, Running, CurrentEvents, CurrentBits, Noticed, Busy
<1>2. ASSUME IInv, StartWifi, ~started PROVE IInv'
  <2>1. "start" \in Kinds /\ pc \in Busy /\ events' = Append(events, Event("start"))
    BY <1>2 DEF StartWifi, Kinds, Busy
  <2>2. /\ events' \in Seq([kind : Kinds, use : 1 .. Uses])
        /\ \A i \in 1 .. Len(events') : events'[i].use = use
    BY <1>2, <2>1, Posted
  <2> QED
    BY <1>2, <2>2 DEF StartWifi, IInv, TypeOK, InUse, Running, CurrentEvents, CurrentBits,
                      Noticed, Busy
<1>3. ASSUME IInv, Disconnect, started /\ radio \in {"connecting", "connected"} PROVE IInv'
  <2>1. "lost" \in Kinds /\ pc \in Busy /\ events' = Append(events, Event("lost"))
    BY <1>3 DEF Disconnect, Kinds, Busy
  <2>2. /\ events' \in Seq([kind : Kinds, use : 1 .. Uses])
        /\ \A i \in 1 .. Len(events') : events'[i].use = use
    BY <1>3, <2>1, Posted
  <2> QED
    BY <1>3, <2>2 DEF Disconnect, IInv, TypeOK, InUse, Running, CurrentEvents, CurrentBits,
                      Noticed, Busy
<1>4. ASSUME IInv, Disconnect, ~(started /\ radio \in {"connecting", "connected"}) PROVE IInv'
  BY <1>4 DEF Disconnect, IInv, TypeOK, InUse, Running, CurrentEvents, CurrentBits, Noticed, Busy
<1> QED
  BY <1>1, <1>2, <1>3, <1>4

LEMMA StepHolds == IInv /\ [Next]_vars => IInv'
<1>1. IInv /\ Caller => IInv'
  BY QuietCallerKeeps, PostingCallerKeeps DEF Caller
<1>2. IInv /\ UNCHANGED vars => IInv'
  BY DEF vars, IInv, TypeOK, InUse, Running, CurrentEvents, CurrentBits, Noticed
<1> QED
  BY <1>1, <1>2, StationKeeps, HandlerKeeps DEF Next

LEMMA Invariance == Spec => []IInv
<1> QED
  BY InitHolds, StepHolds, PTL DEF Spec

-----------------------------------------------------------------------------
\* DcomWifi's state stays well formed: in particular wifi_started_ always agrees with the
\* driver, whatever fails (dcom_module.cpp:134-225).
THEOREM TypeCorrect == Spec => []TypeOK
<1>1. IInv => TypeOK
  BY DEF IInv
<1> QED
  BY <1>1, Invariance, PTL

\* checkInternet returns true on an address obtained in this use, for any number of uses and
\* of refused or lost connections (dcom_module.cpp:147-197).
THEOREM ResultIsFresh == Spec => []ResultFresh
<1>1. IInv => ResultFresh
  BY DEF IInv, CurrentBits, ResultFresh
<1> QED
  BY <1>1, Invariance, PTL

\* A session whose link is lost has its station trying again, unless a fatal reason was given
\* (wifiEventHandler, dcom_module.cpp:40-66).
THEOREM StationKeepsTrying == Spec => []KeepsTrying
<1>1. IInv => KeepsTrying
  <2> SUFFICES ASSUME IInv, pc = "session", events = <<>>, ~gaveUp
               PROVE  radio \in {"connecting", "connected"}
    BY DEF KeepsTrying
  <2>1. radio # "idle"
    BY DEF IInv, Noticed
  <2>2. radio # "off"
    BY DEF IInv, TypeOK, Running
  <2> QED
    BY <2>1, <2>2 DEF IInv, TypeOK
<1> QED
  BY <1>1, Invariance, PTL

\* powerOff leaves the station stopped, though the handler connects again between its
\* esp_wifi_disconnect and esp_wifi_stop (dcom_module.cpp:214-224).
THEOREM OffStaysOff == Spec => []OffIsOff
<1>1. IInv => OffIsOff
  BY DEF IInv, TypeOK, InUse, OffIsOff
<1> QED
  BY <1>1, Invariance, PTL

-----------------------------------------------------------------------------
(* HTTP over the modem: short sequences first.                              *)

\* A sequence of up to four elements is the tuple of its elements.
LEMMA Tuples ==
  ASSUME NEW T
  PROVE  /\ \A s \in Seq(T) : Len(s) = 0 => s = <<>>
         /\ \A s \in Seq(T) : Len(s) = 1 => s = <<s[1]>> /\ s[1] \in T
         /\ \A s \in Seq(T) : Len(s) = 2 => s = <<s[1], s[2]>> /\ s[1] \in T /\ s[2] \in T
         /\ \A s \in Seq(T) : Len(s) = 3 => s = <<s[1], s[2], s[3]>>
         /\ \A s \in Seq(T) : Len(s) = 4 => s = <<s[1], s[2], s[3], s[4]>>
<1>1. ASSUME NEW s \in Seq(T) PROVE Len(s) \in Nat /\ DOMAIN s = 1 .. Len(s)
  BY <1>1, LenProperties
<1>2. ASSUME NEW s \in Seq(T), NEW i \in 1 .. Len(s) PROVE s[i] \in T
  BY <1>2, ElementOfSeq
<1>3. ASSUME NEW s \in Seq(T), Len(s) = 0 PROVE s = <<>>
  BY <1>3, EmptySeq
<1>4. ASSUME NEW s \in Seq(T), Len(s) = 1 PROVE s = <<s[1]>> /\ s[1] \in T
  <2>1. s[1] \in T
    BY <1>2, <1>4
  <2>2. <<s[1]>> \in Seq(T) /\ Len(<<s[1]>>) = 1
    BY <2>1
  <2>3. \A i \in 1 .. Len(s) : s[i] = <<s[1]>>[i]
    BY <1>4
  <2> QED
    BY <1>4, <2>1, <2>2, <2>3, SeqEqual
<1>5. ASSUME NEW s \in Seq(T), Len(s) = 2 PROVE s = <<s[1], s[2]>> /\ s[1] \in T /\ s[2] \in T
  <2>1. s[1] \in T /\ s[2] \in T
    BY <1>2, <1>5
  <2>2. <<s[1], s[2]>> \in Seq(T) /\ Len(<<s[1], s[2]>>) = 2
    BY <2>1
  <2>3. \A i \in 1 .. Len(s) : s[i] = <<s[1], s[2]>>[i]
    BY <1>5
  <2> QED
    BY <1>5, <2>1, <2>2, <2>3, SeqEqual
<1>6. ASSUME NEW s \in Seq(T), Len(s) = 3 PROVE s = <<s[1], s[2], s[3]>>
  <2>1. s[1] \in T /\ s[2] \in T /\ s[3] \in T
    BY <1>2, <1>6
  <2>2. <<s[1], s[2], s[3]>> \in Seq(T) /\ Len(<<s[1], s[2], s[3]>>) = 3
    BY <2>1
  <2>3. \A i \in 1 .. Len(s) : s[i] = <<s[1], s[2], s[3]>>[i]
    BY <1>6
  <2> QED
    BY <1>6, <2>1, <2>2, <2>3, SeqEqual
<1>7. ASSUME NEW s \in Seq(T), Len(s) = 4 PROVE s = <<s[1], s[2], s[3], s[4]>>
  <2>1. s[1] \in T /\ s[2] \in T /\ s[3] \in T /\ s[4] \in T
    BY <1>2, <1>7
  <2>2. <<s[1], s[2], s[3], s[4]>> \in Seq(T) /\ Len(<<s[1], s[2], s[3], s[4]>>) = 4
    BY <2>1
  <2>3. \A i \in 1 .. Len(s) : s[i] = <<s[1], s[2], s[3], s[4]>>[i]
    BY <1>7
  <2> QED
    BY <1>7, <2>1, <2>2, <2>3, SeqEqual
<1> QED
  BY <1>3, <1>4, <1>5, <1>6, <1>7

\* The parts of a concatenation.
LEMMA Parts ==
  ASSUME NEW T, NEW r \in Seq(T), NEW w \in Seq(T)
  PROVE  /\ r \o w \in Seq(T) /\ Len(r \o w) = Len(r) + Len(w) /\ Len(r) \in Nat /\ Len(w) \in Nat
         /\ \A i \in 1 .. Len(r) : (r \o w)[i] = r[i]
         /\ \A i \in 1 .. Len(w) : (r \o w)[Len(r) + i] = w[i]
<1>1. Len(r) \in Nat /\ Len(w) \in Nat
  BY LenProperties
<1>2. /\ r \o w \in Seq(T) /\ Len(r \o w) = Len(r) + Len(w)
      /\ \A i \in 1 .. Len(r) + Len(w) : (r \o w)[i] = IF i <= Len(r) THEN r[i] ELSE w[i - Len(r)]
  BY ConcatProperties
<1>3. ASSUME NEW i \in 1 .. Len(w) PROVE (r \o w)[Len(r) + i] = w[i]
  <2>1. Len(r) + i \in 1 .. Len(r) + Len(w) /\ ~(Len(r) + i <= Len(r)) /\ (Len(r) + i) - Len(r) = i
    BY <1>1, <1>3
  <2> QED
    BY <1>2, <2>1
<1>4. ASSUME NEW i \in 1 .. Len(r) PROVE (r \o w)[i] = r[i]
  <2>1. i \in 1 .. Len(r) + Len(w) /\ i <= Len(r)
    BY <1>1, <1>4
  <2> QED
    BY <1>2, <2>1
<1> QED
  BY <1>1, <1>2, <1>3, <1>4

\* Joining short sequences: JoinMN joins M elements and N.
LEMMA JoinEmpty ==
  ASSUME NEW T, NEW s \in Seq(T)
  PROVE  <<>> \o s = s /\ s \o <<>> = s
  BY ConcatEmptySeq

\* Two sequences joined, by how long each is.
LEMMA Join11 ==
  ASSUME NEW T, NEW a \in T, NEW b \in T
  PROVE  <<a>> \o <<b>> = <<a, b>>
<1> DEFINE s == <<a>> \o <<b>>
<1>1. <<a>> \in Seq(T) /\ <<b>> \in Seq(T) /\ Len(<<a>>) = 1 /\ Len(<<b>>) = 1
  OBVIOUS
<1>2. s \in Seq(T) /\ Len(s) = 2
  BY <1>1, Parts
<1>3. s[1] = a
  BY <1>1, Parts
<1>4. s[1 + 1] = b
  BY <1>1, Parts
<1>5. s[2] = b
  BY <1>4
<1> HIDE DEF s
<1>6. s = <<a, b>>
  BY <1>2, <1>3, <1>5, Tuples
<1> QED
  BY <1>6 DEF s

LEMMA Join12 ==
  ASSUME NEW T, NEW a \in T, NEW b \in T, NEW c \in T
  PROVE  <<a>> \o <<b, c>> = <<a, b, c>>
<1> DEFINE s == <<a>> \o <<b, c>>
<1>1. <<a>> \in Seq(T) /\ <<b, c>> \in Seq(T) /\ Len(<<a>>) = 1 /\ Len(<<b, c>>) = 2
  OBVIOUS
<1>2. s \in Seq(T) /\ Len(s) = 3
  BY <1>1, Parts
<1>3. s[1] = a
  BY <1>1, Parts
<1>4. s[1 + 1] = b /\ s[1 + 2] = c
  BY <1>1, Parts
<1>5. s[2] = b /\ s[3] = c
  BY <1>4
<1> HIDE DEF s
<1>6. s = <<a, b, c>>
  BY <1>2, <1>3, <1>5, Tuples
<1> QED
  BY <1>6 DEF s

LEMMA Join21 ==
  ASSUME NEW T, NEW a \in T, NEW b \in T, NEW c \in T
  PROVE  <<a, b>> \o <<c>> = <<a, b, c>>
<1> DEFINE s == <<a, b>> \o <<c>>
<1>1. <<a, b>> \in Seq(T) /\ <<c>> \in Seq(T) /\ Len(<<a, b>>) = 2 /\ Len(<<c>>) = 1
  OBVIOUS
<1>2. s \in Seq(T) /\ Len(s) = 3
  BY <1>1, Parts
<1>3. s[1] = a /\ s[2] = b
  BY <1>1, Parts
<1>4. s[2 + 1] = c
  BY <1>1, Parts
<1>5. s[3] = c
  BY <1>4
<1> HIDE DEF s
<1>6. s = <<a, b, c>>
  BY <1>2, <1>3, <1>5, Tuples
<1> QED
  BY <1>6 DEF s

LEMMA Join31 ==
  ASSUME NEW T, NEW a \in T, NEW b \in T, NEW c \in T, NEW d \in T
  PROVE  <<a, b, c>> \o <<d>> = <<a, b, c, d>>
<1> DEFINE s == <<a, b, c>> \o <<d>>
<1>1. <<a, b, c>> \in Seq(T) /\ <<d>> \in Seq(T) /\ Len(<<a, b, c>>) = 3 /\ Len(<<d>>) = 1
  OBVIOUS
<1>2. s \in Seq(T) /\ Len(s) = 4
  BY <1>1, Parts
<1>3. s[1] = a /\ s[2] = b /\ s[3] = c
  BY <1>1, Parts
<1>4. s[3 + 1] = d
  BY <1>1, Parts
<1>5. s[4] = d
  BY <1>4
<1> HIDE DEF s
<1>6. s = <<a, b, c, d>>
  BY <1>2, <1>3, <1>5, Tuples
<1> QED
  BY <1>6 DEF s

LEMMA Join22 ==
  ASSUME NEW T, NEW a \in T, NEW b \in T, NEW c \in T, NEW d \in T
  PROVE  <<a, b>> \o <<c, d>> = <<a, b, c, d>>
<1> DEFINE s == <<a, b>> \o <<c, d>>
<1>1. <<a, b>> \in Seq(T) /\ <<c, d>> \in Seq(T) /\ Len(<<a, b>>) = 2 /\ Len(<<c, d>>) = 2
  OBVIOUS
<1>2. s \in Seq(T) /\ Len(s) = 4
  BY <1>1, Parts
<1>3. s[1] = a /\ s[2] = b
  BY <1>1, Parts
<1>4. s[2 + 1] = c /\ s[2 + 2] = d
  BY <1>1, Parts
<1>5. s[3] = c /\ s[4] = d
  BY <1>4
<1> HIDE DEF s
<1>6. s = <<a, b, c, d>>
  BY <1>2, <1>3, <1>5, Tuples
<1> QED
  BY <1>6 DEF s

\* A sequence with one element more, as a tuple.
LEMMA AppendOne ==
  ASSUME NEW T, NEW a \in T
  PROVE  Append(<<>>, a) = <<a>>
  BY JoinEmpty, AppendIsConcat

LEMMA AppendTwo ==
  ASSUME NEW T, NEW a \in T, NEW b \in T
  PROVE  Append(<<a>>, b) = <<a, b>>
<1>1. <<a>> \in Seq(T) /\ <<a>> \o <<b>> = <<a, b>>
  BY Join11
<1>2. Append(<<a>>, b) = <<a>> \o <<b>>
  BY <1>1, AppendIsConcat
<1> QED
  BY <1>1, <1>2

\* How small numbers add up.
LEMMA Sums ==
  ASSUME NEW m \in Nat, NEW n \in Nat
  PROVE  /\ m + n = 0 => m = 0 /\ n = 0
         /\ m + n = 1 => (m = 0 /\ n = 1) \/ (m = 1 /\ n = 0)
         /\ m + n = 2 => (m = 0 /\ n = 2) \/ (m = 1 /\ n = 1) \/ (m = 2 /\ n = 0)
         /\ m + n = 3 => (m = 0 /\ n = 3) \/ (m = 1 /\ n = 2) \/ (m = 2 /\ n = 1) \/ (m = 3 /\ n = 0)
         /\ m + n = 4 => (m = 0 /\ n = 4) \/ (m = 1 /\ n = 3) \/ (m = 2 /\ n = 2) \/ (m = 3 /\ n = 1) \/ (m = 4 /\ n = 0)
  OBVIOUS

\* s is r, then w.
Parted(s, r, w) ==
  /\ Len(s) = Len(r) + Len(w)
  /\ \A i \in 1 .. Len(r) : s[i] = r[i]
  /\ \A i \in 1 .. Len(w) : s[Len(r) + i] = w[i]

\* Where a short sequence may be parted.
LEMMA Splits ==
  ASSUME NEW T, NEW r \in Seq(T), NEW w \in Seq(T), NEW s, Parted(s, r, w)
  PROVE  /\ s = <<>> => r = <<>> /\ w = <<>>
         /\ \A a : s = <<a>> => \/ (r = <<>> /\ w = <<a>>)
                                \/ (r = <<a>> /\ w = <<>>)
         /\ \A a, b : s = <<a, b>> => \/ (r = <<>> /\ w = <<a, b>>)
                                      \/ (r = <<a>> /\ w = <<b>>)
                                      \/ (r = <<a, b>> /\ w = <<>>)
         /\ \A a, b, c : s = <<a, b, c>> => \/ (r = <<>> /\ w = <<a, b, c>>)
                                            \/ (r = <<a>> /\ w = <<b, c>>)
                                            \/ (r = <<a, b>> /\ w = <<c>>)
                                            \/ (r = <<a, b, c>> /\ w = <<>>)
         /\ \A a, b, c, d : s = <<a, b, c, d>> => \/ (r = <<>> /\ w = <<a, b, c, d>>)
                                                  \/ (r = <<a>> /\ w = <<b, c, d>>)
                                                  \/ (r = <<a, b>> /\ w = <<c, d>>)
                                                  \/ (r = <<a, b, c>> /\ w = <<d>>)
                                                  \/ (r = <<a, b, c, d>> /\ w = <<>>)
<1>1. Len(r) \in Nat /\ Len(w) \in Nat
  BY LenProperties
<1>2. Len(s) = Len(r) + Len(w)
  BY DEF Parted
<1>3. \A i \in 1 .. Len(r) : s[i] = r[i]
  BY DEF Parted
<1>4. \A i \in 1 .. Len(w) : s[Len(r) + i] = w[i]
  BY DEF Parted
<1>5. ASSUME s = <<>> PROVE r = <<>> /\ w = <<>>
  <2>1. Len(s) = 0
    BY <1>5
  <2>2. Len(r) = 0 /\ Len(w) = 0
    BY <1>1, <1>2, <2>1, Sums, Zenon
  <2> QED
    BY <2>2, Tuples
<1>6. ASSUME NEW a, s = <<a>>
      PROVE  \/ (r = <<>> /\ w = <<a>>)
             \/ (r = <<a>> /\ w = <<>>)
  <2>1. Len(s) = 1
    BY <1>6
  <2>2. s[1] = a
    BY <1>6
  <2>3. (Len(r) = 0 /\ Len(w) = 1) \/ (Len(r) = 1 /\ Len(w) = 0)
    BY <1>1, <1>2, <2>1, Sums, Zenon
  <2>4. ASSUME Len(r) = 0, Len(w) = 1 PROVE r = <<>> /\ w = <<a>>
    <3>2. s[0 + 1] = w[1]
      BY <1>4, <2>4
    <3>3. s[1] = w[1]
      BY <3>2
    <3>4. w[1] = a
      BY <2>2, <3>3
    <3> QED
      BY <3>4, <2>4, Tuples
  <2>5. ASSUME Len(r) = 1, Len(w) = 0 PROVE r = <<a>> /\ w = <<>>
    <3>1. s[1] = r[1]
      BY <1>3, <2>5
    <3>4. r[1] = a
      BY <2>2, <3>1
    <3> QED
      BY <3>4, <2>5, Tuples
  <2> QED
    BY <2>3, <2>4, <2>5
<1>7. ASSUME NEW a, NEW b, s = <<a, b>>
      PROVE  \/ (r = <<>> /\ w = <<a, b>>)
             \/ (r = <<a>> /\ w = <<b>>)
             \/ (r = <<a, b>> /\ w = <<>>)
  <2>1. Len(s) = 2
    BY <1>7
  <2>2. s[1] = a /\ s[2] = b
    BY <1>7
  <2>3. (Len(r) = 0 /\ Len(w) = 2) \/ (Len(r) = 1 /\ Len(w) = 1) \/ (Len(r) = 2 /\ Len(w) = 0)
    BY <1>1, <1>2, <2>1, Sums, Zenon
  <2>4. ASSUME Len(r) = 0, Len(w) = 2 PROVE r = <<>> /\ w = <<a, b>>
    <3>2. s[0 + 1] = w[1] /\ s[0 + 2] = w[2]
      BY <1>4, <2>4
    <3>3. s[1] = w[1] /\ s[2] = w[2]
      BY <3>2
    <3>4. w[1] = a /\ w[2] = b
      BY <2>2, <3>3
    <3> QED
      BY <3>4, <2>4, Tuples
  <2>5. ASSUME Len(r) = 1, Len(w) = 1 PROVE r = <<a>> /\ w = <<b>>
    <3>1. s[1] = r[1]
      BY <1>3, <2>5
    <3>2. s[1 + 1] = w[1]
      BY <1>4, <2>5
    <3>3. s[2] = w[1]
      BY <3>2
    <3>4. r[1] = a /\ w[1] = b
      BY <2>2, <3>1, <3>3
    <3> QED
      BY <3>4, <2>5, Tuples
  <2>6. ASSUME Len(r) = 2, Len(w) = 0 PROVE r = <<a, b>> /\ w = <<>>
    <3>1. s[1] = r[1] /\ s[2] = r[2]
      BY <1>3, <2>6
    <3>4. r[1] = a /\ r[2] = b
      BY <2>2, <3>1
    <3> QED
      BY <3>4, <2>6, Tuples
  <2> QED
    BY <2>3, <2>4, <2>5, <2>6
<1>8. ASSUME NEW a, NEW b, NEW c, s = <<a, b, c>>
      PROVE  \/ (r = <<>> /\ w = <<a, b, c>>)
             \/ (r = <<a>> /\ w = <<b, c>>)
             \/ (r = <<a, b>> /\ w = <<c>>)
             \/ (r = <<a, b, c>> /\ w = <<>>)
  <2>1. Len(s) = 3
    BY <1>8
  <2>2. s[1] = a /\ s[2] = b /\ s[3] = c
    BY <1>8
  <2>3. (Len(r) = 0 /\ Len(w) = 3) \/ (Len(r) = 1 /\ Len(w) = 2) \/ (Len(r) = 2 /\ Len(w) = 1) \/ (Len(r) = 3 /\ Len(w) = 0)
    BY <1>1, <1>2, <2>1, Sums, Zenon
  <2>4. ASSUME Len(r) = 0, Len(w) = 3 PROVE r = <<>> /\ w = <<a, b, c>>
    <3>2. s[0 + 1] = w[1] /\ s[0 + 2] = w[2] /\ s[0 + 3] = w[3]
      BY <1>4, <2>4
    <3>3. s[1] = w[1] /\ s[2] = w[2] /\ s[3] = w[3]
      BY <3>2
    <3>4. w[1] = a /\ w[2] = b /\ w[3] = c
      BY <2>2, <3>3
    <3> QED
      BY <3>4, <2>4, Tuples
  <2>5. ASSUME Len(r) = 1, Len(w) = 2 PROVE r = <<a>> /\ w = <<b, c>>
    <3>1. s[1] = r[1]
      BY <1>3, <2>5
    <3>2. s[1 + 1] = w[1] /\ s[1 + 2] = w[2]
      BY <1>4, <2>5
    <3>3. s[2] = w[1] /\ s[3] = w[2]
      BY <3>2
    <3>4. r[1] = a /\ w[1] = b /\ w[2] = c
      BY <2>2, <3>1, <3>3
    <3> QED
      BY <3>4, <2>5, Tuples
  <2>6. ASSUME Len(r) = 2, Len(w) = 1 PROVE r = <<a, b>> /\ w = <<c>>
    <3>1. s[1] = r[1] /\ s[2] = r[2]
      BY <1>3, <2>6
    <3>2. s[2 + 1] = w[1]
      BY <1>4, <2>6
    <3>3. s[3] = w[1]
      BY <3>2
    <3>4. r[1] = a /\ r[2] = b /\ w[1] = c
      BY <2>2, <3>1, <3>3
    <3> QED
      BY <3>4, <2>6, Tuples
  <2>7. ASSUME Len(r) = 3, Len(w) = 0 PROVE r = <<a, b, c>> /\ w = <<>>
    <3>1. s[1] = r[1] /\ s[2] = r[2] /\ s[3] = r[3]
      BY <1>3, <2>7
    <3>4. r[1] = a /\ r[2] = b /\ r[3] = c
      BY <2>2, <3>1
    <3> QED
      BY <3>4, <2>7, Tuples
  <2> QED
    BY <2>3, <2>4, <2>5, <2>6, <2>7
<1>9. ASSUME NEW a, NEW b, NEW c, NEW d, s = <<a, b, c, d>>
      PROVE  \/ (r = <<>> /\ w = <<a, b, c, d>>)
             \/ (r = <<a>> /\ w = <<b, c, d>>)
             \/ (r = <<a, b>> /\ w = <<c, d>>)
             \/ (r = <<a, b, c>> /\ w = <<d>>)
             \/ (r = <<a, b, c, d>> /\ w = <<>>)
  <2>1. Len(s) = 4
    BY <1>9
  <2>2. s[1] = a /\ s[2] = b /\ s[3] = c /\ s[4] = d
    BY <1>9
  <2>3. (Len(r) = 0 /\ Len(w) = 4) \/ (Len(r) = 1 /\ Len(w) = 3) \/ (Len(r) = 2 /\ Len(w) = 2) \/ (Len(r) = 3 /\ Len(w) = 1) \/ (Len(r) = 4 /\ Len(w) = 0)
    BY <1>1, <1>2, <2>1, Sums, Zenon
  <2>4. ASSUME Len(r) = 0, Len(w) = 4 PROVE r = <<>> /\ w = <<a, b, c, d>>
    <3>2. s[0 + 1] = w[1] /\ s[0 + 2] = w[2] /\ s[0 + 3] = w[3] /\ s[0 + 4] = w[4]
      BY <1>4, <2>4
    <3>3. s[1] = w[1] /\ s[2] = w[2] /\ s[3] = w[3] /\ s[4] = w[4]
      BY <3>2
    <3>4. w[1] = a /\ w[2] = b /\ w[3] = c /\ w[4] = d
      BY <2>2, <3>3
    <3> QED
      BY <3>4, <2>4, Tuples
  <2>5. ASSUME Len(r) = 1, Len(w) = 3 PROVE r = <<a>> /\ w = <<b, c, d>>
    <3>1. s[1] = r[1]
      BY <1>3, <2>5
    <3>2. s[1 + 1] = w[1] /\ s[1 + 2] = w[2] /\ s[1 + 3] = w[3]
      BY <1>4, <2>5
    <3>3. s[2] = w[1] /\ s[3] = w[2] /\ s[4] = w[3]
      BY <3>2
    <3>4. r[1] = a /\ w[1] = b /\ w[2] = c /\ w[3] = d
      BY <2>2, <3>1, <3>3
    <3> QED
      BY <3>4, <2>5, Tuples
  <2>6. ASSUME Len(r) = 2, Len(w) = 2 PROVE r = <<a, b>> /\ w = <<c, d>>
    <3>1. s[1] = r[1] /\ s[2] = r[2]
      BY <1>3, <2>6
    <3>2. s[2 + 1] = w[1] /\ s[2 + 2] = w[2]
      BY <1>4, <2>6
    <3>3. s[3] = w[1] /\ s[4] = w[2]
      BY <3>2
    <3>4. r[1] = a /\ r[2] = b /\ w[1] = c /\ w[2] = d
      BY <2>2, <3>1, <3>3
    <3> QED
      BY <3>4, <2>6, Tuples
  <2>7. ASSUME Len(r) = 3, Len(w) = 1 PROVE r = <<a, b, c>> /\ w = <<d>>
    <3>1. s[1] = r[1] /\ s[2] = r[2] /\ s[3] = r[3]
      BY <1>3, <2>7
    <3>2. s[3 + 1] = w[1]
      BY <1>4, <2>7
    <3>3. s[4] = w[1]
      BY <3>2
    <3>4. r[1] = a /\ r[2] = b /\ r[3] = c /\ w[1] = d
      BY <2>2, <3>1, <3>3
    <3> QED
      BY <3>4, <2>7, Tuples
  <2>8. ASSUME Len(r) = 4, Len(w) = 0 PROVE r = <<a, b, c, d>> /\ w = <<>>
    <3>1. s[1] = r[1] /\ s[2] = r[2] /\ s[3] = r[3] /\ s[4] = r[4]
      BY <1>3, <2>8
    <3>4. r[1] = a /\ r[2] = b /\ r[3] = c /\ r[4] = d
      BY <2>2, <3>1
    <3> QED
      BY <3>4, <2>8, Tuples
  <2> QED
    BY <2>3, <2>4, <2>5, <2>6, <2>7, <2>8
<1> QED
  BY <1>5, <1>6, <1>7, <1>8, <1>9

-----------------------------------------------------------------------------
(* Types.                                                                  *)

Args == Nat \cup Ops
Tokens == [kind : TokenKinds, arg : Args]
Commands == [cmd : Steps, arg : Args]
Sessions == [open : BOOLEAN, url : Args, data : Args, pending : Args \cup {"none"}, body : Args]

\* The types, as far as the proof needs them; only httpGet's reading uses rawRead.
HttpTypes ==
  /\ step \in Steps \cup {"idle", "return"} /\ waiting \in BOOLEAN
  /\ call \in [op : Ops, n : Nat] /\ calls \in Nat
  /\ IF step = "idle" THEN waiting = FALSE ELSE call.n # Nothing
  /\ inited \in BOOLEAN
  /\ rx \in Seq(Tokens) /\ wire \in Seq(Tokens) /\ raw \in Seq(Tokens) /\ inbox \in Seq(Commands)
  /\ session \in Sessions
  /\ step # "read" \/ call.op = "POST" => raw = <<>>

\* The tokens and their arguments.
LEMMA TokensTyped ==
  /\ OK \in Tokens /\ ERROR \in Tokens
  /\ \A k \in TokenKinds, a \in Args : Tok(k, a) \in Tokens
  /\ \A n \in Nat : n \in Args
  /\ Nothing \in Nat /\ 1 \in Nat /\ Garbage \in Nat /\ Statuses \subseteq Nat
  /\ "POST" \in Args /\ "GET" \in Args
  BY SimHttpAssumption DEF OK, ERROR, Tokens, Tok, TokenKinds, Args, Ops, Nothing, Garbage, Statuses

\* Short tuples of them.
LEMMA ShortTyped ==
  ASSUME NEW T, NEW a \in T, NEW b \in T, NEW c \in T, NEW d \in T
  PROVE  /\ <<>> \in Seq(T) /\ <<a>> \in Seq(T) /\ <<a, b>> \in Seq(T) /\ <<a, b, c>> \in Seq(T)
         /\ <<a, b, c, d>> \in Seq(T)
  OBVIOUS

\* Sequences that grow, shrink and join.
LEMMA SeqTyped ==
  ASSUME NEW T, NEW s \in Seq(T)
  PROVE  /\ <<>> \in Seq(T)
         /\ \A e \in T : Append(s, e) \in Seq(T)
         /\ \A t \in Seq(T) : s \o t \in Seq(T)
         /\ s # <<>> => Head(s) \in T /\ Tail(s) \in Seq(T)
  BY ConcatProperties

\* The page that HTTPREAD sends.
Page(n) == <<Tok("+HTTPREAD", Nothing)>> \o Body(n) \o <<OK>>

\* The page HTTPREAD gives, as a tuple.
LEMMA PageIs ==
  ASSUME NEW n \in Args
  PROVE  /\ Page(n) = <<Tok("+HTTPREAD", Nothing), Tok("BODY1", n), Tok("BODY2", n), OK>>
         /\ Page(n) \in Seq(Tokens)
<1>1. /\ Tok("+HTTPREAD", Nothing) \in Tokens /\ Tok("BODY1", n) \in Tokens
      /\ Tok("BODY2", n) \in Tokens /\ OK \in Tokens
  BY TokensTyped DEF TokenKinds
<1>2. <<Tok("+HTTPREAD", Nothing)>> \o Body(n)
        = <<Tok("+HTTPREAD", Nothing), Tok("BODY1", n), Tok("BODY2", n)>>
  BY <1>1, Join12 DEF Body
<1>3. Page(n) = <<Tok("+HTTPREAD", Nothing), Tok("BODY1", n), Tok("BODY2", n), OK>>
  <2>1. <<Tok("+HTTPREAD", Nothing), Tok("BODY1", n), Tok("BODY2", n)>> \o <<OK>>
          = <<Tok("+HTTPREAD", Nothing), Tok("BODY1", n), Tok("BODY2", n), OK>>
    BY <1>1, Join31
  <2> QED
    BY <1>2, <2>1, Zenon DEF Page
<1> QED
  BY <1>1, <1>3, ShortTyped

\* Every step keeps the types.
LEMMA InitTypes == HttpInit => HttpTypes
<1> SUFFICES ASSUME HttpInit PROVE HttpTypes
  OBVIOUS
<1>1. rx \in Seq(Tokens) /\ raw \in Seq(Tokens) /\ inbox \in Seq(Commands)
  BY DEF HttpInit
<1>2. wire \in Seq(Tokens)
  <2>1. <<OK>> \in Seq(Tokens) /\ <<>> \in Seq(Tokens)
    BY TokensTyped
  <2> QED
    BY <2>1 DEF HttpInit, Leftover
<1>3. session \in Sessions
  BY DEF HttpInit, Closed, Sessions, Args, Nothing
<1>4. step = "idle" /\ waiting = FALSE /\ inited = FALSE /\ raw = <<>> /\ call = NoCall /\ calls = 0
  BY DEF HttpInit
<1>5. call \in [op : Ops, n : Nat] /\ calls \in Nat
  BY <1>4 DEF NoCall, Ops
<1> QED
  BY <1>1, <1>2, <1>3, <1>4, <1>5 DEF HttpTypes

\* What a driver's step adds to what the UART and the modem hold.
LEMMA DriverTypes == HttpTypes /\ (Begin \/ PowerCycle \/ Driver) => HttpTypes'
<1> SUFFICES ASSUME HttpTypes, Begin \/ PowerCycle \/ Driver PROVE HttpTypes'
  OBVIOUS
<1>1. CASE Begin
  <2>1. PICK op \in Ops : call' = [op |-> op, n |-> calls + 1]
    BY <1>1 DEF Begin
  <2>2. /\ calls' = calls + 1 /\ step' = "term" /\ waiting' = FALSE /\ raw' = <<>>
        /\ UNCHANGED <<inited, rx, wire, inbox, session>>
    BY <1>1 DEF Begin, GoTo, modem
  <2>3. calls \in Nat /\ inited \in BOOLEAN /\ rx \in Seq(Tokens) /\ wire \in Seq(Tokens)
        /\ inbox \in Seq(Commands) /\ session \in Sessions
    BY DEF HttpTypes
  <2>4. calls + 1 \in Nat /\ calls + 1 # Nothing
    BY <2>3 DEF Nothing
  <2>5. call' \in [op : Ops, n : Nat] /\ call'.n # Nothing
    BY <2>1, <2>4
  <2>6. step' \in Steps /\ <<>> \in Seq(Tokens)
    BY <2>2 DEF Steps
  <2> QED
    BY <2>2, <2>3, <2>4, <2>5, <2>6 DEF HttpTypes
<1>2. CASE PowerCycle
  <2>1. wire' \in Seq(Tokens) /\ rx' \in Seq(Tokens) /\ inbox' \in Seq(Commands)
    <3>1. <<OK>> \in Seq(Tokens) /\ <<>> \in Seq(Tokens) /\ <<>> \in Seq(Commands)
      BY TokensTyped
    <3> QED
      BY <1>2, <3>1 DEF PowerCycle, Leftover
  <2> QED
    BY <1>2, <2>1, TokensTyped DEF PowerCycle, HttpTypes, Closed, Sessions
<1>3. CASE SkipTerm
  BY <1>3 DEF SkipTerm, NoTerm, AfterTerm, GoTo, HttpTypes, modem, Steps
<1>4. CASE SendCommand
  <2>1. Command \in Commands
    BY <1>4, TokensTyped DEF SendCommand, Command, Commands, HttpTypes, Steps, Args
  <2>2. inbox' \in Seq(Commands) /\ rx' \in Seq(Tokens)
    BY <1>4, <2>1, SeqTyped DEF SendCommand, HttpTypes
  <2> QED
    BY <1>4, <2>2 DEF SendCommand, HttpTypes, modem, Steps
<1>5. CASE Found
  <2>1. step' \in Steps /\ step # "idle" /\ (step = "read" => call.op = "POST")
    BY <1>5 DEF Found, InWaitForToken, Expect, GoTo, After, AfterAction, Steps, HttpTypes, Ops
  <2>2. raw = <<>> /\ raw' = <<>> /\ rx' = <<>>
    BY <1>5, <2>1 DEF Found, HttpTypes
  <2>3. UNCHANGED <<call, calls, wire, inbox, session>> /\ inited' \in BOOLEAN /\ waiting' = FALSE
    BY <1>5 DEF Found, GoTo, Opened, HttpTypes, modem
  <2> QED
    BY <2>1, <2>2, <2>3, SeqTyped DEF HttpTypes
<1>6. CASE Skipped
  BY <1>6, SeqTyped DEF Skipped, HttpTypes, driver, modem
<1>7. CASE FoundError \/ TimeOut
  <2>1. step' \in Steps \cup {"return"} /\ step # "idle" /\ (step = "read" => call.op = "POST")
    BY <1>7 DEF FoundError, TimeOut, InWaitForToken, Expect, GoTo, Failed, Steps, HttpTypes, Ops
  <2>2. raw = <<>> /\ raw' = <<>> /\ rx' \in {rx, <<>>}
    BY <1>7, <2>1 DEF FoundError, TimeOut, HttpTypes
  <2>3. UNCHANGED <<call, calls, wire, inbox, session, inited>> /\ waiting' = FALSE
    BY <1>7 DEF FoundError, TimeOut, GoTo, modem
  <2> QED
    BY <2>1, <2>2, <2>3, SeqTyped DEF HttpTypes
<1>8. CASE ReadRest
  BY <1>8, SeqTyped DEF ReadRest, GoTo, HttpTypes, modem, Steps
<1>9. CASE GetReads
  <2>1. /\ step = "read" /\ step' \in {"read", "cleanup"} /\ waiting' \in BOOLEAN /\ call.op = "GET"
        /\ raw' \in {<<>>, raw \o rx} /\ (step' = "cleanup" => raw' = <<>>) /\ rx' = <<>>
        /\ UNCHANGED <<call, calls, inited, wire, inbox, session>>
    BY <1>9 DEF GetReads, GoTo, modem, HttpTypes
  <2>2. raw' \in Seq(Tokens) /\ rx' \in Seq(Tokens)
    <3>1. raw \o rx \in Seq(Tokens) /\ <<>> \in Seq(Tokens)
      BY SeqTyped DEF HttpTypes
    <3> QED
      BY <2>1, <3>1
  <2> QED
    BY <2>1, <2>2 DEF HttpTypes, Steps
<1>10. CASE GetReadEnds
  BY <1>10, SeqTyped DEF GetReadEnds, GoTo, HttpTypes, modem, Steps
<1>11. CASE TermEnds
  BY <1>11, SeqTyped DEF TermEnds, AfterTerm, GoTo, HttpTypes, modem, Steps
<1>12. CASE Return
  BY <1>12 DEF Return, GoTo, HttpTypes, modem, Steps
<1> QED
  BY <1>1, <1>2, <1>3, <1>4, <1>5, <1>6, <1>7, <1>8, <1>9, <1>10, <1>11, <1>12 DEF Driver

\* ActionEnds with one status.
ActionEndsWith(status) ==
  /\ session.pending # "none"
  /\ IF ~pdp THEN status = 500
     ELSE NetworkFaults \/ status = 200 \/ (status = 204 /\ session.pending = "POST")
  /\ session' = [session EXCEPT !.pending = "none",
                                !.body = IF status = 200 THEN session.url ELSE Nothing]
  /\ Answer(<<Tok("+HTTPACTION", status)>>)
  /\ trouble' = (trouble \/ status = 500 \/ (status = 204 /\ session.pending = "GET"))
  /\ UNCHANGED <<driver, rx, inbox, mode, pdp>>

\* ActionEnds ends with one of the statuses.
LEMMA ActionEndsAs == ActionEnds => \E status \in Statuses : ActionEndsWith(status)
<1> SUFFICES ASSUME ActionEnds PROVE \E status \in Statuses : ActionEndsWith(status)
  OBVIOUS
<1>1. PICK status \in Statuses :
       /\ IF ~pdp THEN status = 500
          ELSE NetworkFaults \/ status = 200 \/ (status = 204 /\ session.pending = "POST")
       /\ session' = [session EXCEPT !.pending = "none",
                                     !.body = IF status = 200 THEN session.url ELSE Nothing]
       /\ Answer(<<Tok("+HTTPACTION", status)>>)
       /\ IF session.pending = "POST" /\ Is2xx(status)
          THEN server' = server \cup {session.data}
          ELSE UNCHANGED server
       /\ trouble' = (trouble \/ status = 500 \/ (status = 204 /\ session.pending = "GET"))
  BY Zenon DEF ActionEnds
<1>2. session.pending # "none" /\ UNCHANGED <<driver, rx, inbox, mode, pdp>>
  BY DEF ActionEnds
<1> QED
  BY <1>1, <1>2, Zenon DEF ActionEndsWith

\* What is on the wire after an answer.
LEMMA AnswerTypes ==
  ASSUME HttpTypes, NEW tokens \in Seq(Tokens), Answer(tokens)
  PROVE  wire' \in Seq(Tokens)
  BY SeqTyped DEF HttpTypes, Answer

LEMMA ModemTypes == HttpTypes /\ (Modem \/ Cut \/ ModemDataTimeout \/ PdpLost) => HttpTypes'
<1> SUFFICES ASSUME HttpTypes, Modem \/ Cut \/ ModemDataTimeout \/ PdpLost PROVE HttpTypes'
  OBVIOUS
<1>1. inbox # <<>> => Head(inbox) \in Commands /\ Tail(inbox) \in Seq(Commands)
  BY SeqTyped DEF HttpTypes
<1>2. inbox # <<>> => Head(inbox).arg \in Args
  BY <1>1 DEF Commands
<1>3. ASSUME UNCHANGED driver, wire' \in Seq(Tokens), rx' \in Seq(Tokens), inbox' \in Seq(Commands),
             session' \in Sessions
      PROVE  HttpTypes'
  BY <1>3 DEF driver, HttpTypes
<1>4. CASE Arrive
  <2>1. rx' \in Seq(Tokens) /\ wire' \in Seq(Tokens)
    BY <1>4, SeqTyped DEF Arrive, HttpTypes
  <2> QED
    BY <1>3, <1>4, <2>1 DEF Arrive, modem, HttpTypes
<1>5. CASE Cut
  <2>1. wire' \in Seq(Tokens)
    BY <1>5, SeqTyped DEF Cut, HttpTypes
  <2> QED
    BY <1>3, <1>5, <2>1 DEF Cut, modem, HttpTypes
<1>6. CASE PdpLost
  BY <1>3, <1>6 DEF PdpLost, HttpTypes
<1>7. CASE ActionEnds
  <2>0. PICK status \in Statuses : ActionEndsWith(status)
    BY <1>7, ActionEndsAs
  <2>1. /\ session' = [session EXCEPT !.pending = "none",
                                      !.body = IF status = 200 THEN session.url ELSE Nothing]
        /\ Answer(<<Tok("+HTTPACTION", status)>>)
    BY <2>0 DEF ActionEndsWith
  <2>2. <<Tok("+HTTPACTION", status)>> \in Seq(Tokens)
    BY TokensTyped, ShortTyped DEF TokenKinds
  <2>3. session' \in Sessions
    BY <2>1, TokensTyped DEF HttpTypes, Sessions
  <2>4. UNCHANGED driver /\ rx' \in Seq(Tokens) /\ inbox' \in Seq(Commands)
    BY <1>7 DEF ActionEnds, HttpTypes
  <2> QED
    BY <1>3, <2>1, <2>2, <2>3, <2>4, AnswerTypes
<1>8. CASE ModemDataTimeout
  <2>1. PICK t \in {OK, ERROR} : Answer(<<t>>)
    BY <1>8 DEF ModemDataTimeout
  <2>2. <<t>> \in Seq(Tokens)
    BY TokensTyped, ShortTyped
  <2>3. session' \in Sessions
    BY <1>8, TokensTyped DEF ModemDataTimeout, HttpTypes, Sessions
  <2> QED
    BY <1>3, <1>8, <2>1, <2>2, <2>3, AnswerTypes DEF ModemDataTimeout, HttpTypes
<1>9. ASSUME Obeyed, wire' \in Seq(Tokens), session' \in Sessions
      PROVE  HttpTypes'
  BY <1>1, <1>3, <1>9 DEF Obeyed, HttpTypes
<1>10. CASE ModemTerm
  <2>1. Obeyed /\ Answer(<<IF session.open THEN OK ELSE ERROR>>) /\ session' = Closed
    BY <1>10 DEF ModemTerm
  <2>2. <<IF session.open THEN OK ELSE ERROR>> \in Seq(Tokens)
    BY TokensTyped, ShortTyped
  <2>3. session' \in Sessions
    BY <2>1, TokensTyped DEF Closed, Sessions
  <2> QED
    BY <1>9, <2>1, <2>2, <2>3, AnswerTypes
<1>11. CASE ModemPdp
  <2>1. Obeyed /\ session' = session
    BY <1>11 DEF ModemPdp
  <2>2. PICK tokens \in {<<Tok("+CGACT", IF pdp THEN 1 ELSE 0), OK>>, <<Tok("+CGPADDR", Nothing), OK>>,
                         <<OK>>, <<ERROR>>} : Answer(tokens)
    BY <1>11 DEF ModemPdp
  <2>3. tokens \in Seq(Tokens)
    <3>1. /\ Tok("+CGACT", IF pdp THEN 1 ELSE 0) \in Tokens /\ Tok("+CGPADDR", Nothing) \in Tokens
          /\ OK \in Tokens /\ ERROR \in Tokens
      BY TokensTyped DEF TokenKinds, Nothing
    <3> QED
      BY <3>1, ShortTyped
  <2> QED
    BY <1>9, <2>1, <2>2, <2>3, AnswerTypes DEF HttpTypes
<1>12. CASE ModemInit
  <2>1. /\ Obeyed /\ Answer(<<IF session.open THEN ERROR ELSE OK>>)
        /\ session' = [session EXCEPT !.open = TRUE]
    BY <1>12 DEF ModemInit
  <2>2. <<IF session.open THEN ERROR ELSE OK>> \in Seq(Tokens)
    BY TokensTyped, ShortTyped
  <2>3. session' \in Sessions
    BY <2>1 DEF HttpTypes, Sessions
  <2> QED
    BY <1>9, <2>1, <2>2, <2>3, AnswerTypes
<1>13. CASE ModemPara
  <2>1. /\ Obeyed /\ inbox # <<>> /\ Answer(<<IF session.open THEN OK ELSE ERROR>>)
        /\ session' \in {session, [session EXCEPT !.url = Head(inbox).arg]}
    BY <1>13 DEF ModemPara, InboxIs
  <2>2. <<IF session.open THEN OK ELSE ERROR>> \in Seq(Tokens)
    BY TokensTyped, ShortTyped
  <2>3. session' \in Sessions
    BY <1>2, <2>1 DEF HttpTypes, Sessions
  <2> QED
    BY <1>9, <2>1, <2>2, <2>3, AnswerTypes
<1>14. CASE ModemData
  <2>1. /\ Obeyed /\ Answer(<<IF Ready THEN Tok("DOWNLOAD", Nothing) ELSE ERROR>>)
        /\ session' \in {session, [session EXCEPT !.data = Nothing]}
    BY <1>14 DEF ModemData
  <2>2. <<IF Ready THEN Tok("DOWNLOAD", Nothing) ELSE ERROR>> \in Seq(Tokens)
    BY TokensTyped, ShortTyped DEF TokenKinds
  <2>3. session' \in Sessions
    BY <2>1, TokensTyped DEF HttpTypes, Sessions
  <2> QED
    BY <1>9, <2>1, <2>2, <2>3, AnswerTypes
<1>15. CASE ModemTakesData
  <2>1. /\ Obeyed /\ inbox # <<>>
        /\ Answer(<<OK>>) \/ wire' = wire
    BY <1>15 DEF ModemTakesData
  <2>2. session' \in {[session EXCEPT !.data = d] : d \in {Head(inbox).arg, Garbage}}
    BY <1>15 DEF ModemTakesData
  <2>3. session' \in Sessions
    BY <1>2, <2>1, <2>2, TokensTyped DEF HttpTypes, Sessions
  <2>4. <<OK>> \in Seq(Tokens)
    BY TokensTyped, ShortTyped
  <2>5. wire' \in Seq(Tokens)
    BY <2>1, <2>4, AnswerTypes DEF HttpTypes
  <2> QED
    BY <1>9, <2>1, <2>3, <2>5
<1>16. CASE ModemAction
  <2>1. /\ Obeyed /\ inbox # <<>> /\ Answer(<<IF Ready THEN OK ELSE ERROR>>)
        /\ session' \in {session, [session EXCEPT !.pending = Head(inbox).arg]}
    BY <1>16 DEF ModemAction, InboxIs
  <2>2. <<IF Ready THEN OK ELSE ERROR>> \in Seq(Tokens)
    BY TokensTyped, ShortTyped
  <2>3. session' \in Sessions
    BY <1>2, <2>1 DEF HttpTypes, Sessions
  <2> QED
    BY <1>9, <2>1, <2>2, <2>3, AnswerTypes
<1>17. CASE ModemRead
  <2>1. Obeyed /\ session' = session /\ (Answer(Page(session.body)) \/ Answer(<<ERROR>>))
    BY <1>17 DEF ModemRead, modem, Page
  <2>2. <<ERROR>> \in Seq(Tokens) /\ Page(session.body) \in Seq(Tokens)
    BY TokensTyped, ShortTyped, PageIs DEF HttpTypes, Sessions
  <2>3. wire' \in Seq(Tokens)
    BY <2>1, <2>2, AnswerTypes
  <2> QED
    BY <1>9, <2>1, <2>3 DEF HttpTypes
<1> QED
  BY <1>4, <1>5, <1>6, <1>7, <1>8, <1>10, <1>11, <1>12, <1>13, <1>14, <1>15, <1>16, <1>17 DEF Modem

LEMMA HttpTyped == HttpTypes /\ [HttpNext]_httpVars => HttpTypes'
<1> SUFFICES ASSUME HttpTypes, [HttpNext]_httpVars PROVE HttpTypes'
  OBVIOUS
<1>1. CASE UNCHANGED httpVars
  BY <1>1 DEF httpVars, HttpTypes
<1> QED
  BY <1>1, DriverTypes, ModemTypes DEF HttpNext

-----------------------------------------------------------------------------
(* A modem and a server that answer as they should.                        *)

\* What the driver has yet to read.
Coming == rx \o wire

\* The command of a step of this call.
Of(s) == [cmd |-> IF s = "cleanup" THEN "term" ELSE s, arg |-> IF s = "action" THEN call.op ELSE call.n]

\* Nothing, or the OK of an earlier command, which the driver did not wait for.
Spare == {<<>>, <<OK>>}

\* A command that is answered by t and an OK, or by t alone.
Asks(s, t) == \/ inbox = <<Of(s)>> /\ Coming \in Spare
              \/ inbox = <<>> /\ Coming \in {<<t, OK>>, <<OK, t, OK>>}

Gives(s, t) == \/ inbox = <<Of(s)>> /\ Coming \in Spare
               \/ inbox = <<>> /\ Coming \in {<<t>>, <<OK, t>>}

\* The command before was taken for answered, by the OK of the one before it.
Ahead(s) == \/ inbox = <<Of(s)>> /\ Coming = <<>>
            \/ inbox = <<>> /\ Coming \in Spare

Both(before, s) == inbox = <<Of(before), Of(s)>> /\ Coming = <<>>

\* The commands after HTTPINIT.
Following(before, s, t) == IF waiting THEN Both(before, s) \/ Gives(s, t) ELSE Ahead(before)

Queued(s) == inbox # <<>> /\ Head(inbox) = Of(s)

Rests == session.pending = "none" /\ mode = "command"

\* No session, on either side.
Apart == ~session.open /\ ~inited /\ Rests

\* One that the driver opened, with this call's URL by the time it is asked for.
Within == inited /\ session.open
Addressed == Queued("url") \/ session.url = call.n

AtRest == Apart /\ ~waiting /\ inbox = <<>> /\ Coming \in Spare

Asking(s, t) == Apart /\ IF waiting THEN Asks(s, t) ELSE inbox = <<>> /\ Coming \in Spare

AtInit ==
  /\ ~inited /\ Rests
  /\ IF waiting THEN Gives("init", OK) /\ (session.open <=> inbox = <<>>)
     ELSE ~session.open /\ inbox = <<>> /\ Coming \in Spare

AtUrl ==
  /\ inited /\ Rests /\ Following("init", "url", OK)
  /\ session.open <=> ~Queued("init")
  /\ waiting /\ inbox = <<>> => session.url = call.n

AtContent == Within /\ call.op = "POST" /\ Rests /\ Addressed /\ Following("url", "content", OK)

Uploading == Within /\ call.op = "POST" /\ session.url = call.n /\ session.pending = "none"

AtData ==
  /\ Uploading /\ Following("content", "data", Tok("DOWNLOAD", Nothing))
  /\ mode = IF waiting /\ inbox = <<>> THEN "data" ELSE "command"

AtPayload ==
  /\ Uploading
  /\ \/ waiting /\ mode = "data" /\ inbox = <<Of("payload")>> /\ Coming = <<>>
     \/ waiting /\ mode = "command" /\ inbox = <<>> /\ Coming = <<OK>>
     \/ ~waiting /\ mode = "data" /\ inbox = <<>> /\ Coming = <<>>

\* What the server may have answered.
Good == IF call.op = "POST" THEN {200, 204} ELSE {200}

Answered(status) ==
  /\ Coming \in {<<Tok("+HTTPACTION", status)>>, <<OK, Tok("+HTTPACTION", status)>>,
                 <<OK, OK, Tok("+HTTPACTION", status)>>}
  /\ status = 200 => session.body = call.n

Acts ==
  \/ call.op = "GET" /\ Both("url", "action") /\ session.pending = "none"
  \/ inbox = <<Of("action")>> /\ Coming \in Spare /\ session.pending = "none"
  \/ inbox = <<>> /\ session.pending = call.op /\ Coming \in {<<>>, <<OK>>, <<OK, OK>>}
  \/ inbox = <<>> /\ session.pending = "none" /\ \E status \in Good : Answered(status)

AtAction ==
  /\ Within /\ Addressed /\ mode = "command"
  /\ IF waiting THEN Acts
     ELSE session.pending = "none" /\ Ahead("url") /\ (call.op = "POST" => inbox = <<>>)

AtRead ==
  /\ Within /\ Rests /\ session.body = call.n /\ (call.op = "POST" => result)
  /\ \/ waiting /\ inbox = <<Of("read")>> /\ Coming = <<>> /\ raw = <<>>
     \/ waiting /\ inbox = <<>> /\ raw \o Coming = Page(call.n)
     \/ ~waiting /\ inbox = <<>> /\ Coming = <<>> /\ raw = <<>>

AtReadRest ==
  /\ Within /\ Rests /\ result /\ inbox = <<>>
  /\ Coming \in {<<>>, <<OK>>, <<Tok("BODY2", call.n), OK>>,
                 <<Tok("BODY1", call.n), Tok("BODY2", call.n), OK>>}

AtCleanup ==
  /\ inited /\ Rests /\ result
  /\ \/ waiting /\ session.open /\ inbox = <<Of("cleanup")>> /\ Coming = <<>>
     \/ waiting /\ ~session.open /\ inbox = <<>> /\ Coming = <<OK>>
     \/ ~waiting /\ session.open /\ inbox = <<>> /\ Coming = <<>>

\* Where each step finds the UART and the modem.
Fine ==
  /\ pdp = TRUE
  /\ step \in {"idle", "term", "return"} => AtRest
  /\ step = "return" => result
  /\ step # "activate"
  /\ step = "cgact" => Asking("cgact", Tok("+CGACT", 1))
  /\ step = "cgpaddr" => Asking("cgpaddr", Tok("+CGPADDR", Nothing))
  /\ step = "init" => AtInit
  /\ step = "url" => AtUrl
  /\ step = "content" => AtContent
  /\ step = "data" => AtData
  /\ step = "payload" => AtPayload
  /\ step = "action" => AtAction
  /\ step = "read" => AtRead
  /\ step = "readRest" => AtReadRest
  /\ step = "cleanup" => AtCleanup

Healthy == trouble \in BOOLEAN /\ (trouble \/ Fine)

-----------------------------------------------------------------------------
\* A step that turns trouble off is a power cycle.
LEMMA TroubleStays ==
  ASSUME Begin \/ Driver \/ Modem \/ Cut \/ ModemDataTimeout \/ PdpLost, trouble' = FALSE
  PROVE  ~trouble /\ ~Cut /\ ~PdpLost
<1>1. NoteLate => ~trouble
  BY DEF NoteLate
<1>2. CASE Begin
  BY <1>2 DEF Begin, Cut, PdpLost
<1>3. CASE Driver
  BY <1>1, <1>3 DEF Driver, SkipTerm, SendCommand, Found, Skipped, FoundError, TimeOut, ReadRest, GetReads,
                    GetReadEnds, TermEnds, Return, Cut, PdpLost
<1>4. CASE Modem
  BY <1>4 DEF Modem, Arrive, ModemTerm, ModemPdp, ModemInit, ModemPara, ModemData, ModemTakesData,
              ModemAction, ActionEnds, ModemRead, Obeyed, Cut, PdpLost
<1> QED
  BY <1>2, <1>3, <1>4 DEF Cut, ModemDataTimeout, PdpLost

\* What the UART holds, by what the driver has yet to read.
LEMMA ComingTyped == HttpTypes => Coming \in Seq(Tokens) /\ Parted(Coming, rx, wire)
  BY Parts DEF HttpTypes, Coming, Parted

\* A short sequence that is coming is in the buffer, on the wire, or in part in each.
LEMMA ComingSplits ==
  ASSUME HttpTypes
  PROVE  /\ Coming = <<>> => rx = <<>> /\ wire = <<>>
         /\ \A a : Coming = <<a>> => \/ (rx = <<>> /\ wire = <<a>>)
                                     \/ (rx = <<a>> /\ wire = <<>>)
         /\ \A a, b : Coming = <<a, b>> => \/ (rx = <<>> /\ wire = <<a, b>>)
                                           \/ (rx = <<a>> /\ wire = <<b>>)
                                           \/ (rx = <<a, b>> /\ wire = <<>>)
         /\ \A a, b, c : Coming = <<a, b, c>> => \/ (rx = <<>> /\ wire = <<a, b, c>>)
                                                 \/ (rx = <<a>> /\ wire = <<b, c>>)
                                                 \/ (rx = <<a, b>> /\ wire = <<c>>)
                                                 \/ (rx = <<a, b, c>> /\ wire = <<>>)
<1>1. rx \in Seq(Tokens) /\ wire \in Seq(Tokens) /\ Parted(Coming, rx, wire)
  BY ComingTyped DEF HttpTypes
<1> QED
  BY <1>1, Splits

\* A flushed or read buffer leaves what is on the wire.
LEMMA Flushed ==
  ASSUME HttpTypes, rx' = <<>>, wire' = wire
  PROVE  /\ Coming' = wire
         /\ rx = <<>> => Coming = wire
         /\ wire = <<>> => Coming = rx
<1>1. rx \in Seq(Tokens) /\ wire \in Seq(Tokens)
  BY DEF HttpTypes
<1> QED
  BY <1>1, JoinEmpty DEF Coming

\* An answer comes after all that is yet to be read.
LEMMA AnswerComes ==
  ASSUME HttpTypes, NEW tokens \in Seq(Tokens), Answer(tokens), rx' = rx
  PROVE  Coming' = Coming \o tokens
<1>1. rx \in Seq(Tokens) /\ wire \in Seq(Tokens)
  BY DEF HttpTypes
<1>2. (rx \o wire) \o tokens = rx \o (wire \o tokens)
  BY <1>1, ConcatAssociative
<1>3. wire' = wire \o tokens
  BY DEF Answer
<1> QED
  BY <1>2, <1>3, Zenon DEF Coming

\* A token that arrives was coming.
LEMMA ArriveKeeps == HttpTypes /\ Arrive => Coming' = Coming
<1> SUFFICES ASSUME HttpTypes, Arrive PROVE Coming' = Coming
  OBVIOUS
<1>1. rx \in Seq(Tokens) /\ wire \in Seq(Tokens) /\ wire # <<>>
  BY DEF HttpTypes, Arrive
<1>2. Head(wire) \in Tokens /\ Tail(wire) \in Seq(Tokens) /\ wire = <<Head(wire)>> \o Tail(wire)
  BY <1>1
<1>3. Append(rx, Head(wire)) = rx \o <<Head(wire)>>
  BY <1>1, <1>2, AppendIsConcat
<1>4. (rx \o <<Head(wire)>>) \o Tail(wire) = rx \o (<<Head(wire)>> \o Tail(wire))
  BY <1>1, <1>2, ConcatAssociative
<1> QED
  BY <1>2, <1>3, <1>4, Zenon DEF Arrive, Coming

\* Fine depends on the UART by what is coming.
LEMMA FineStays ==
  ASSUME Fine, Coming' = Coming,
         UNCHANGED <<step, waiting, call, inited, raw, result, inbox, session, mode, pdp>>
  PROVE  Fine'
  BY DEF Fine, AtRest, Asking, AtInit, AtUrl, AtContent, AtData, AtPayload, AtAction, AtRead, AtReadRest,
         AtCleanup, Of, Asks, Gives, Ahead, Both, Following, Queued, Rests, Apart, Within, Addressed,
         Uploading, Good, Answered, Acts

\* The kinds of the tokens of a short chunk.
LEMMA Has0 == ASSUME NEW k PROVE ~Has(<<>>, k)
  BY DEF Has
LEMMA Has1 == ASSUME NEW k, NEW a PROVE Has(<<a>>, k) <=> a.kind = k
  BY DEF Has
LEMMA Has2 == ASSUME NEW k, NEW a, NEW b PROVE Has(<<a, b>>, k) <=> a.kind = k \/ b.kind = k
  BY DEF Has
LEMMA Has3 ==
  ASSUME NEW k, NEW a, NEW b, NEW c
  PROVE  Has(<<a, b, c>>, k) <=> a.kind = k \/ b.kind = k \/ c.kind = k
  BY DEF Has
LEMMA Has4 ==
  ASSUME NEW k, NEW a, NEW b, NEW c, NEW d
  PROVE  Has(<<a, b, c, d>>, k) <=> a.kind = k \/ b.kind = k \/ c.kind = k \/ d.kind = k
  BY DEF Has

\* A set of numbers has a least one.
LEMMA Least ==
  ASSUME NEW S \in SUBSET Nat, S # {}
  PROVE  Min(S) \in S
<1>1. IsWellFoundedOn(OpToRel(<, Nat), Nat)
  BY NatLessThanWellFounded
<1>2. PICK x \in S : \A y \in S : ~(<<y, x>> \in OpToRel(<, Nat))
  BY <1>1, WFMin
<1>3. \A y \in S : ~(y < x)
  BY <1>2 DEF OpToRel
<1>4. \A y \in S : x =< y
  BY <1>3
<1> QED
  BY <1>4 DEF Min

\* The first token of a kind is one of the chunk's.
LEMMA FirstIsThere ==
  ASSUME NEW T, NEW s \in Seq(T), NEW k, Has(s, k)
  PROVE  \E i \in 1 .. Len(s) : First(s, k) = s[i] /\ s[i].kind = k
<1> DEFINE I == {i \in 1 .. Len(s) : s[i].kind = k}
<1>1. Len(s) \in Nat /\ DOMAIN s = 1 .. Len(s)
  BY LenProperties
<1>2. I \in SUBSET Nat /\ I # {}
  BY <1>1 DEF Has
<1>3. Min(I) \in I
  BY <1>2, Least
<1>4. First(s, k) = s[Min(I)]
  BY <1>2 DEF First, SelectInSeq
<1> QED
  BY <1>3, <1>4

\* What the tokens are.
LEMMA KindsAre ==
  /\ OK.kind = "OK" /\ ERROR.kind = "ERROR"
  /\ \A k, a : Tok(k, a).kind = k /\ Tok(k, a).arg = a
  BY DEF OK, ERROR, Tok

\* A wait that ends with nothing read, when no answer is late.
LEMMA TimedOutQuiet == TimedOut /\ NoteLate /\ trouble' = FALSE => Quiet
  BY DEF TimedOut, NoteLate

\* Each action finds what Fine says, and leaves it.  First the driver between two calls.
LEMMA FineAtInit == HttpInit => Fine
<1>1. HttpInit => Coming = wire
  BY TokensTyped, JoinEmpty DEF HttpInit, Coming, Leftover
<1> QED
  BY <1>1 DEF HttpInit, Fine, AtRest, Apart, Rests, Spare, Leftover, Closed

LEMMA FineAfterCycle == HttpTypes /\ PowerCycle => Fine'
<1> SUFFICES ASSUME HttpTypes, PowerCycle PROVE Fine'
  OBVIOUS
<1>1. wire' \in Spare /\ rx' = <<>>
  BY DEF PowerCycle, Leftover, Spare
<1>2. \A s \in Spare : <<>> \o s = s
  BY TokensTyped, JoinEmpty DEF Spare
<1>3. Coming' \in Spare
  BY <1>1, <1>2 DEF Coming
<1> QED
  BY <1>3 DEF PowerCycle, Fine, AtRest, Apart, Rests, Closed, HttpTypes

LEMMA FineBegin == Fine /\ Begin => Fine'
  BY DEF Begin, GoTo, Fine, AtRest, Apart, Rests, Coming, modem

LEMMA FineReturn == Fine /\ Return => Fine'
  BY DEF Return, GoTo, Fine, AtRest, Apart, Rests, Coming, modem

LEMMA FineSkipTerm == Fine /\ SkipTerm => Fine'
  BY DEF SkipTerm, NoTerm, AfterTerm, GoTo, Fine, AtRest, Asking, AtCleanup, Apart, Rests, Coming, modem

\* A flush, and one more command for the modem.
LEMMA FineSend == HttpTypes /\ Fine /\ SendCommand => Fine'
<1> SUFFICES ASSUME HttpTypes, Fine, SendCommand PROVE Fine'
  OBVIOUS
<1>1. /\ waiting = FALSE /\ waiting' = TRUE /\ inbox' = Append(inbox, Of(step)) /\ wire' = wire
      /\ rx' = IF step = "payload" THEN rx ELSE <<>>
      /\ UNCHANGED <<step, call, inited, raw, result, session, mode, pdp>>
  BY DEF SendCommand, Command, Of, modem, HttpTypes
<1>2. Of(step) \in Commands /\ Of("init") \in Commands /\ Of("url") \in Commands /\ Of("content") \in Commands
      /\ \A s : Of(s)' = Of(s)
  BY <1>1, TokensTyped DEF SendCommand, Of, Commands, HttpTypes, Steps, Args
<1>3. inbox = <<>> => inbox' = <<Of(step)>>
  BY <1>1, <1>2, AppendOne
<1>4. ASSUME NEW c \in Commands, inbox = <<c>> PROVE inbox' = <<c, Of(step)>>
  BY <1>1, <1>2, <1>4, AppendTwo
<1>5. step # "payload" => Coming' = wire
  BY <1>1, Flushed
<1>6. (Coming = <<>> => wire = <<>>) /\ (Coming \in Spare => wire \in Spare)
  BY ComingSplits DEF Spare
<1>7. step \notin {"idle", "return", "term", "activate", "readRest"}
  BY DEF SendCommand, NoTerm, Fine, AtRest, Apart, Steps
<1>8. CASE step = "cgact"
  BY <1>1, <1>3, <1>5, <1>6, <1>8 DEF Fine, Asking, Asks, Apart, Rests, Of
<1>9. CASE step = "cgpaddr"
  BY <1>1, <1>3, <1>5, <1>6, <1>9 DEF Fine, Asking, Asks, Apart, Rests, Of
<1>10. CASE step = "init"
  BY <1>1, <1>3, <1>5, <1>6, <1>10 DEF Fine, AtInit, Gives, Rests, Of
<1>11. CASE step = "url"
  <2>1. AtUrl /\ Ahead("init")
    BY <1>1, <1>11 DEF Fine, AtUrl, Following
  <2>2. /\ inited' /\ Rests' /\ step' = "url" /\ waiting' /\ pdp' = TRUE
        /\ session' = session /\ Coming' = wire
    BY <1>1, <1>5, <1>11, <2>1 DEF AtUrl, Rests, Fine
  <2>3. ASSUME inbox = <<Of("init")>>, Coming = <<>> PROVE AtUrl'
    <3>1. inbox' = <<Of("init"), Of("url")>> /\ Coming' = <<>>
      BY <1>2, <1>4, <1>6, <1>11, <2>2, <2>3
    <3>2. Queued("init") /\ Queued("init")'
      BY <1>2, <2>3, <3>1 DEF Queued
    <3> QED
      BY <1>2, <2>1, <2>2, <3>1, <3>2 DEF AtUrl, Following, Both
  <2>4. ASSUME inbox = <<>>, Coming \in Spare PROVE AtUrl'
    <3>1. inbox' = <<Of("url")>> /\ Coming' \in Spare
      BY <1>3, <1>6, <1>11, <2>2, <2>4
    <3>2. ~Queued("init") /\ ~Queued("init")'
      BY <1>2, <2>4, <3>1 DEF Queued, Of
    <3> QED
      BY <1>2, <2>1, <2>2, <3>1, <3>2 DEF AtUrl, Following, Gives, Spare
  <2> QED
    BY <2>1, <2>2, <2>3, <2>4 DEF Ahead, Fine
<1>12. CASE step = "content"
  BY <1>1, <1>2, <1>3, <1>4, <1>5, <1>6, <1>12
  DEF Fine, AtContent, Following, Both, Gives, Ahead, Rests, Queued, Addressed, Within
<1>13. CASE step = "data"
  BY <1>1, <1>2, <1>3, <1>4, <1>5, <1>6, <1>13
  DEF Fine, AtData, Following, Both, Gives, Ahead, Uploading, Within
<1>14. CASE step = "payload"
  BY <1>1, <1>2, <1>3, <1>14 DEF Fine, AtPayload, Uploading, Within, Coming
<1>15. CASE step = "action"
  BY <1>1, <1>2, <1>3, <1>4, <1>5, <1>6, <1>15
  DEF Fine, AtAction, Acts, Ahead, Both, Within, Addressed, Queued, HttpTypes, Ops
<1>16. CASE step = "read"
  BY <1>1, <1>2, <1>3, <1>5, <1>6, <1>16 DEF Fine, AtRead, Within, Rests, Page, Body
<1>17. CASE step = "cleanup"
  BY <1>1, <1>2, <1>3, <1>5, <1>6, <1>17 DEF Fine, AtCleanup, Rests
<1> QED
  BY <1>7, <1>8, <1>9, <1>10, <1>11, <1>12, <1>13, <1>14, <1>15, <1>16, <1>17 DEF HttpTypes, Steps

\* A chunk whose tokens of a kind are all the same.
LEMMA FirstIs ==
  ASSUME NEW T, NEW s \in Seq(T), NEW k, NEW t, Has(s, k), \A i \in 1 .. Len(s) : s[i].kind = k => s[i] = t
  PROVE  First(s, k) = t
  BY FirstIsThere

\* What a wait finds among the answers to a command that is answered by t and an OK,
LEMMA AskedChunk ==
  ASSUME HttpTypes, NEW s, NEW t \in Tokens, t.kind \notin {"OK", "ERROR"}, Asks(s, t)
  PROVE  /\ ~Has(rx, "ERROR")
         /\ Has(rx, t.kind) => inbox = <<>> /\ wire \in Spare /\ First(rx, t.kind) = t
         /\ ~Has(rx, t.kind) => \/ inbox = <<Of(s)>> /\ wire \in Spare
                                \/ inbox = <<>> /\ wire \in {<<t, OK>>, <<OK, t, OK>>}
         /\ rx # <<>> \/ wire # <<>> \/ inbox # <<>>
<1>0. rx \in Seq(Tokens)
  BY DEF HttpTypes
<1>1. CASE inbox = <<Of(s)>> /\ Coming \in Spare
  <2>1. rx \in Spare /\ wire \in Spare
    BY <1>1, ComingSplits DEF Spare
  <2> QED
    BY <1>1, <2>1, Has0, Has1, KindsAre DEF Spare
<1>2. CASE inbox = <<>> /\ Coming = <<t, OK>>
  <2>1. \/ rx = <<>> /\ wire = <<t, OK>>
        \/ rx = <<t>> /\ wire = <<OK>>
        \/ rx = <<t, OK>> /\ wire = <<>>
    BY <1>2, ComingSplits
  <2>2. CASE rx = <<>> /\ wire = <<t, OK>>
    BY <1>2, <2>2, Has0
  <2>3. CASE rx = <<t>> /\ wire = <<OK>>
    <3>1. ~Has(rx, "ERROR") /\ Has(rx, t.kind) /\ rx # <<>>
      BY <2>3, Has1, KindsAre
    <3>2. \A i \in 1 .. Len(rx) : rx[i].kind = t.kind => rx[i] = t
      BY <2>3, KindsAre
    <3>3. First(rx, t.kind) = t
      BY <1>0, <3>1, <3>2, FirstIs
    <3> QED
      BY <1>2, <2>3, <3>1, <3>3 DEF Spare
  <2>4. CASE rx = <<t, OK>> /\ wire = <<>>
    <3>1. ~Has(rx, "ERROR") /\ Has(rx, t.kind) /\ rx # <<>>
      BY <2>4, Has2, KindsAre
    <3>2. \A i \in 1 .. Len(rx) : rx[i].kind = t.kind => rx[i] = t
      BY <2>4, KindsAre
    <3>3. First(rx, t.kind) = t
      BY <1>0, <3>1, <3>2, FirstIs
    <3> QED
      BY <1>2, <2>4, <3>1, <3>3 DEF Spare
  <2> QED
    BY <2>1, <2>2, <2>3, <2>4
<1>3. CASE inbox = <<>> /\ Coming = <<OK, t, OK>>
  <2>1. \/ rx = <<>> /\ wire = <<OK, t, OK>>
        \/ rx = <<OK>> /\ wire = <<t, OK>>
        \/ rx = <<OK, t>> /\ wire = <<OK>>
        \/ rx = <<OK, t, OK>> /\ wire = <<>>
    BY <1>3, ComingSplits
  <2>2. CASE rx = <<>> /\ wire = <<OK, t, OK>>
    BY <1>3, <2>2, Has0
  <2>3. CASE rx = <<OK>> /\ wire = <<t, OK>>
    BY <1>3, <2>3, Has1, KindsAre
  <2>4. CASE rx = <<OK, t>> /\ wire = <<OK>>
    <3>1. ~Has(rx, "ERROR") /\ Has(rx, t.kind) /\ rx # <<>>
      BY <2>4, Has2, KindsAre
    <3>2. \A i \in 1 .. Len(rx) : rx[i].kind = t.kind => rx[i] = t
      BY <2>4, KindsAre
    <3>3. First(rx, t.kind) = t
      BY <1>0, <3>1, <3>2, FirstIs
    <3> QED
      BY <1>3, <2>4, <3>1, <3>3 DEF Spare
  <2>5. CASE rx = <<OK, t, OK>> /\ wire = <<>>
    <3>1. ~Has(rx, "ERROR") /\ Has(rx, t.kind) /\ rx # <<>>
      BY <2>5, Has3, KindsAre
    <3>2. \A i \in 1 .. Len(rx) : rx[i].kind = t.kind => rx[i] = t
      BY <2>5, KindsAre
    <3>3. First(rx, t.kind) = t
      BY <1>0, <3>1, <3>2, FirstIs
    <3> QED
      BY <1>3, <2>5, <3>1, <3>3 DEF Spare
  <2> QED
    BY <2>1, <2>2, <2>3, <2>4, <2>5
<1> QED
  BY <1>1, <1>2, <1>3 DEF Asks

\* to one that is answered by t alone,
LEMMA GivenChunk ==
  ASSUME HttpTypes, NEW s, NEW t \in Tokens, t.kind \notin {"OK", "ERROR"}, Gives(s, t)
  PROVE  /\ ~Has(rx, "ERROR")
         /\ Has(rx, t.kind) => inbox = <<>> /\ wire = <<>>
         /\ ~Has(rx, t.kind) => \/ inbox = <<Of(s)>> /\ wire \in Spare
                                \/ inbox = <<>> /\ wire \in {<<t>>, <<OK, t>>}
         /\ rx # <<>> \/ wire # <<>> \/ inbox # <<>>
<1>1. CASE inbox = <<Of(s)>> /\ Coming \in Spare
  <2>1. rx \in Spare /\ wire \in Spare
    BY <1>1, ComingSplits DEF Spare
  <2> QED
    BY <1>1, <2>1, Has0, Has1, KindsAre DEF Spare
<1>2. CASE inbox = <<>> /\ Coming = <<t>>
  <2>1. (rx = <<>> /\ wire = <<t>>) \/ (rx = <<t>> /\ wire = <<>>)
    BY <1>2, ComingSplits
  <2> QED
    BY <1>2, <2>1, Has0, Has1
<1>3. CASE inbox = <<>> /\ Coming = <<OK, t>>
  <2>1. \/ rx = <<>> /\ wire = <<OK, t>>
        \/ rx = <<OK>> /\ wire = <<t>>
        \/ rx = <<OK, t>> /\ wire = <<>>
    BY <1>3, ComingSplits
  <2> QED
    BY <1>3, <2>1, Has0, Has1, Has2, KindsAre
<1> QED
  BY <1>1, <1>2, <1>3 DEF Gives

\* and to one that is answered by an OK, which may be that of the command before.
LEMMA OkChunk ==
  ASSUME HttpTypes, NEW s, Gives(s, OK)
  PROVE  /\ ~Has(rx, "ERROR")
         /\ rx # <<>> => Has(rx, "OK")
         /\ Has(rx, "OK") => (inbox = <<Of(s)>> /\ wire = <<>>) \/ (inbox = <<>> /\ wire \in Spare)
         /\ rx # <<>> \/ wire # <<>> \/ inbox # <<>>
<1>1. CASE inbox = <<Of(s)>> /\ Coming \in Spare
  <2>1. (rx = <<>> /\ wire \in Spare) \/ (rx = <<OK>> /\ wire = <<>>)
    BY <1>1, ComingSplits DEF Spare
  <2> QED
    BY <1>1, <2>1, Has0, Has1, KindsAre DEF Spare
<1>2. CASE inbox = <<>> /\ Coming = <<OK>>
  <2>1. (rx = <<>> /\ wire = <<OK>>) \/ (rx = <<OK>> /\ wire = <<>>)
    BY <1>2, ComingSplits
  <2> QED
    BY <1>2, <2>1, Has0, Has1, KindsAre DEF Spare
<1>3. CASE inbox = <<>> /\ Coming = <<OK, OK>>
  <2>1. \/ rx = <<>> /\ wire = <<OK, OK>>
        \/ rx = <<OK>> /\ wire = <<OK>>
        \/ rx = <<OK, OK>> /\ wire = <<>>
    BY <1>3, ComingSplits
  <2> QED
    BY <1>3, <2>1, Has0, Has1, Has2, KindsAre DEF Spare
<1> QED
  BY <1>1, <1>2, <1>3 DEF Gives

\* What the wait for +HTTPACTION finds.
LEMMA ActionChunk ==
  ASSUME HttpTypes, Acts
  PROVE  /\ ~Has(rx, "ERROR")
         /\ Has(rx, "+HTTPACTION") =>
              /\ inbox = <<>> /\ wire = <<>> /\ session.pending = "none"
              /\ \E status \in Good : /\ First(rx, "+HTTPACTION").arg = status
                                      /\ status = 200 => session.body = call.n
         /\ ~Has(rx, "+HTTPACTION") /\ rx # <<>> =>
              \/ inbox = <<Of("action")>> /\ wire \in Spare /\ session.pending = "none"
              \/ inbox = <<>> /\ session.pending = call.op /\ wire \in {<<>>, <<OK>>, <<OK, OK>>}
              \/ /\ inbox = <<>> /\ session.pending = "none"
                 /\ \E status \in Good :
                      /\ wire \in {<<Tok("+HTTPACTION", status)>>, <<OK, Tok("+HTTPACTION", status)>>,
                                   <<OK, OK, Tok("+HTTPACTION", status)>>}
                      /\ status = 200 => session.body = call.n
         /\ rx # <<>> \/ wire # <<>> \/ inbox # <<>> \/ session.pending # "none"
<1>1. CASE Both("url", "action")
  <2>1. rx = <<>> /\ inbox # <<>>
    BY <1>1, ComingSplits DEF Both
  <2> QED
    BY <2>1, Has0
<1>2. CASE inbox = <<Of("action")>> /\ Coming \in Spare /\ session.pending = "none"
  <2>1. rx \in Spare /\ wire \in Spare
    BY <1>2, ComingSplits DEF Spare
  <2>2. ~Has(rx, "ERROR") /\ ~Has(rx, "+HTTPACTION")
    BY <2>1, Has0, Has1, KindsAre DEF Spare
  <2> QED
    BY <1>2, <2>1, <2>2
<1>3. CASE inbox = <<>> /\ session.pending = call.op /\ Coming \in {<<>>, <<OK>>, <<OK, OK>>}
  <2>1. rx \in {<<>>, <<OK>>, <<OK, OK>>} /\ wire \in {<<>>, <<OK>>, <<OK, OK>>}
    BY <1>3, ComingSplits
  <2>2. ~Has(rx, "ERROR") /\ ~Has(rx, "+HTTPACTION")
    BY <2>1, Has0, Has1, Has2, KindsAre
  <2>3. session.pending # "none"
    BY <1>3 DEF HttpTypes, Ops
  <2> QED
    BY <1>3, <2>1, <2>2, <2>3
<1>4. ASSUME inbox = <<>>, session.pending = "none", NEW status \in Good, Answered(status)
      PROVE  /\ ~Has(rx, "ERROR")
             /\ Has(rx, "+HTTPACTION") => wire = <<>> /\ First(rx, "+HTTPACTION").arg = status
             /\ ~Has(rx, "+HTTPACTION") =>
                  wire \in {<<Tok("+HTTPACTION", status)>>, <<OK, Tok("+HTTPACTION", status)>>,
                            <<OK, OK, Tok("+HTTPACTION", status)>>}
             /\ status = 200 => session.body = call.n
             /\ rx # <<>> \/ wire # <<>>
  <2> DEFINE t == Tok("+HTTPACTION", status)
  <2>1. t.kind = "+HTTPACTION" /\ t.arg = status
    BY KindsAre
  <2>2. Coming \in {<<t>>, <<OK, t>>, <<OK, OK, t>>} /\ (status = 200 => session.body = call.n)
    BY <1>4 DEF Answered
  <2> HIDE DEF t
  <2>3. rx \in Seq(Tokens)
    BY DEF HttpTypes
  <2>4. \/ rx \in {<<>>, <<OK>>, <<OK, OK>>} /\ wire \in {<<t>>, <<OK, t>>, <<OK, OK, t>>}
        \/ rx \in {<<t>>, <<OK, t>>, <<OK, OK, t>>} /\ wire = <<>>
    <3>1. CASE Coming = <<t>>
      BY <3>1, ComingSplits
    <3>2. CASE Coming = <<OK, t>>
      BY <3>2, ComingSplits
    <3>3. CASE Coming = <<OK, OK, t>>
      BY <3>3, ComingSplits
    <3> QED
      BY <2>2, <3>1, <3>2, <3>3
  <2>5. CASE rx \in {<<>>, <<OK>>, <<OK, OK>>} /\ wire \in {<<t>>, <<OK, t>>, <<OK, OK, t>>}
    <3>1. ~Has(rx, "ERROR") /\ ~Has(rx, "+HTTPACTION")
      BY <2>5, Has0, Has1, Has2, KindsAre
    <3>2. wire # <<>>
      BY <2>5
    <3> QED
      BY <2>2, <2>5, <3>1, <3>2 DEF t
  <2>6. CASE rx \in {<<t>>, <<OK, t>>, <<OK, OK, t>>} /\ wire = <<>>
    <3>1. Has(rx, "+HTTPACTION") /\ ~Has(rx, "ERROR") /\ rx # <<>>
      BY <2>1, <2>6, Has1, Has2, Has3, KindsAre
    <3>2. \A i \in 1 .. Len(rx) : rx[i].kind = "+HTTPACTION" => rx[i] = t
      BY <2>6, KindsAre
    <3>3. First(rx, "+HTTPACTION") = t
      BY <2>3, <3>1, <3>2, FirstIs
    <3> QED
      BY <2>1, <2>2, <2>6, <3>1, <3>3
  <2> QED
    BY <2>4, <2>5, <2>6
<1> QED
  BY <1>1, <1>2, <1>3, <1>4 DEF Acts

\* What httpGet has read of the page, and what has come of it.
LEMMA PageSplits ==
  ASSUME NEW n \in Nat, NEW r \in Seq(Tokens), NEW w \in Seq(Tokens), r \o w = Page(n)
  PROVE  LET h == Tok("+HTTPREAD", Nothing)
             one == Tok("BODY1", n)
             two == Tok("BODY2", n)
         IN \/ r = <<>> /\ w = <<h, one, two, OK>>
            \/ r = <<h>> /\ w = <<one, two, OK>>
            \/ r = <<h, one>> /\ w = <<two, OK>>
            \/ r = <<h, one, two>> /\ w = <<OK>>
            \/ r = <<h, one, two, OK>> /\ w = <<>>
<1> DEFINE h == Tok("+HTTPREAD", Nothing)
           one == Tok("BODY1", n)
           two == Tok("BODY2", n)
<1>1. r \o w = <<h, one, two, OK>>
  BY PageIs, TokensTyped
<1>2. Parted(r \o w, r, w)
  BY Parts DEF Parted
<1> HIDE DEF h, one, two
<1>3. \/ r = <<>> /\ w = <<h, one, two, OK>>
      \/ r = <<h>> /\ w = <<one, two, OK>>
      \/ r = <<h, one>> /\ w = <<two, OK>>
      \/ r = <<h, one, two>> /\ w = <<OK>>
      \/ r = <<h, one, two, OK>> /\ w = <<>>
  BY <1>1, <1>2, Splits
<1> QED
  BY <1>3 DEF h, one, two

\* httpGet reads the body from the page.
LEMMA PageParsed ==
  ASSUME NEW n \in Nat
  PROVE  Parsed(Page(n)) = Body(n) /\ Body(n) # <<>>
<1> DEFINE s == Page(n)
           one == Tok("BODY1", n)
           two == Tok("BODY2", n)
           H == {i \in 1 .. Len(s) : s[i].kind = "+HTTPREAD"}
           L == {i \in 1 .. Len(s) : s[i].kind = "OK"}
<1>1. /\ s \in Seq(Tokens) /\ Len(s) = 4 /\ s[1].kind = "+HTTPREAD" /\ s[2].kind = "BODY1"
      /\ s[3].kind = "BODY2" /\ s[4].kind = "OK"
      /\ s[2] = one /\ s[3] = two
  BY PageIs, TokensTyped, KindsAre
<1>2. one \in Tokens /\ two \in Tokens
  BY TokensTyped DEF TokenKinds
<1> HIDE DEF s, one, two
<1>3. H = {1} /\ L = {4}
  BY <1>1
<1>4. Min(H) = 1
  <2>1. {1} \in SUBSET Nat /\ {1} # {}
    OBVIOUS
  <2>2. Min({1}) \in {1}
    BY <2>1, Least
  <2> QED
    BY <1>3, <2>2
<1>5. Max(L) = 4
  BY <1>3 DEF Max
<1>6. (IF H # {} THEN Min(H) ELSE 0) = 1 /\ (IF L # {} THEN Max(L) ELSE 0) = 4
  BY <1>3, <1>4, <1>5
<1>7. Parsed(s) = IF 1 = 0 THEN <<>> ELSE IF 4 > 1 THEN SubSeq(s, 1 + 1, 4 - 1) ELSE SubSeq(s, 1 + 1, Len(s))
  BY <1>6, Zenon DEF Parsed, SelectInSeq, SelectLastInSeq
<1> DEFINE t == SubSeq(s, 2, 3)
<1>8. Parsed(s) = t
  BY <1>7
<1>9. t \in Seq(Tokens) /\ Len(t) = 2 /\ t[1] = one /\ t[2] = two
  <2>1. \A i \in 2 .. 3 : s[i] \in Tokens
    <3>1. \A i \in 2 .. 3 : i = 2 \/ i = 3
      OBVIOUS
    <3> QED
      BY <1>1, <1>2, <3>1, Zenon
  <2>2. t \in Seq(Tokens) /\ Len(t) = 2 /\ \A i \in 1 .. 2 : t[i] = s[2 + i - 1]
    BY <2>1, SubSeqProperties
  <2> QED
    BY <1>1, <2>2
<1> HIDE DEF t
<1>10. t = <<one, two>>
  BY <1>9, Tuples
<1>11. <<one, two>> # <<>>
  OBVIOUS
<1> QED
  BY <1>8, <1>10, <1>11 DEF s, one, two, Body

\* The step after a token that was waited for.
LEMMA FineFound == HttpTypes /\ Fine /\ Found => Fine'
<1> SUFFICES ASSUME HttpTypes, Fine, Found PROVE Fine'
  OBVIOUS
<1>1. /\ waiting = TRUE /\ waiting' = FALSE /\ wire' = wire /\ rx' = <<>>
      /\ Has(rx, Expect[step]) /\ step' = After(First(rx, Expect[step])) /\ (inited' <=> Opened)
      /\ result' = IF step = "action" THEN Accepts(First(rx, Expect[step])) ELSE result
      /\ UNCHANGED <<call, raw, inbox, session, mode, pdp>>
  BY DEF Found, InWaitForToken, GoTo, modem, HttpTypes
<1>2. step \in {"cgact", "cgpaddr", "init", "url", "content", "data", "payload", "action", "read"}
      /\ (step = "read" => call.op = "POST")
  BY DEF Found, InWaitForToken, Expect, Fine, HttpTypes, Ops
<1>3. \A s : Of(s)' = Of(s)
  BY <1>1 DEF Of
<1>4. Coming' = wire
  BY <1>1, Flushed
<1>5. rx # <<>> /\ Coming # <<>>
  BY <1>1, Has0, ComingSplits
<1>6. CASE step = "cgact"
  <2> DEFINE t == Tok("+CGACT", 1)
  <2>1. t \in Tokens /\ t.kind = "+CGACT" /\ t.arg = 1
    BY TokensTyped, KindsAre DEF TokenKinds
  <2>2. Apart /\ Asks("cgact", t)
    BY <1>1, <1>6 DEF Fine, Asking
  <2>3. Has(rx, "+CGACT") /\ step' = After(First(rx, "+CGACT")) /\ ~inited'
    BY <1>1, <1>6, <2>2 DEF Expect, Opened, Apart
  <2>4. inbox = <<>> /\ wire \in Spare /\ First(rx, "+CGACT") = t
    BY <2>1, <2>2, <2>3, AskedChunk
  <2>5. step' = "cgpaddr"
    BY <1>6, <2>1, <2>3, <2>4 DEF After
  <2> QED
    BY <1>1, <1>4, <2>2, <2>3, <2>4, <2>5 DEF Fine, Asking, Apart, Rests
<1>7. CASE step = "cgpaddr"
  <2> DEFINE t == Tok("+CGPADDR", Nothing)
  <2>1. t \in Tokens /\ t.kind = "+CGPADDR"
    BY TokensTyped, KindsAre DEF TokenKinds
  <2>2. Apart /\ Asks("cgpaddr", t)
    BY <1>1, <1>7 DEF Fine, Asking
  <2>3. Has(rx, "+CGPADDR") /\ step' = "init" /\ ~inited'
    BY <1>1, <1>7, <2>2 DEF Expect, Opened, Apart, After
  <2>4. inbox = <<>> /\ wire \in Spare
    BY <2>1, <2>2, <2>3, AskedChunk
  <2> QED
    BY <1>1, <1>4, <2>2, <2>3, <2>4 DEF Fine, AtInit, Apart, Rests
<1>8. CASE step = "init"
  <2>1. Rests /\ Gives("init", OK) /\ (session.open <=> inbox = <<>>)
    BY <1>1, <1>8 DEF Fine, AtInit
  <2>2. Has(rx, "OK") /\ step' = "url" /\ inited'
    BY <1>1, <1>8 DEF Expect, Opened, After
  <2>3. (inbox = <<Of("init")>> /\ wire = <<>>) \/ (inbox = <<>> /\ wire \in Spare)
    BY <2>1, <2>2, OkChunk
  <2>4. session.open <=> ~Queued("init")
    BY <2>1, <2>3 DEF Queued
  <2>5. Ahead("init")' /\ (session'.open <=> ~Queued("init")')
    BY <1>1, <1>3, <1>4, <2>3, <2>4 DEF Ahead, Queued
  <2> QED
    BY <1>1, <2>1, <2>2, <2>5 DEF Fine, AtUrl, Following, Rests
<1>9. CASE step = "url"
  <2>1. AtUrl /\ Gives("url", OK)
    BY <1>1, <1>5, <1>9 DEF Fine, AtUrl, Following, Both
  <2>2. Has(rx, "OK") /\ step' = (IF call.op = "POST" THEN "content" ELSE "action") /\ inited'
    BY <1>1, <1>9, <2>1 DEF Expect, Opened, After, AtUrl
  <2>3. (inbox = <<Of("url")>> /\ wire = <<>>) \/ (inbox = <<>> /\ wire \in Spare)
    BY <2>1, <2>2, OkChunk
  <2>4. session.open /\ Addressed
    BY <1>1, <2>1, <2>3 DEF AtUrl, Queued, Addressed, Of
  <2>5. Ahead("url")' /\ Addressed' /\ session'.open /\ Rests'
    BY <1>1, <1>3, <1>4, <2>1, <2>3, <2>4 DEF Ahead, Queued, Addressed, AtUrl, Rests
  <2> QED
    BY <1>1, <2>2, <2>5 DEF Fine, AtContent, AtAction, Following, Within, Rests, HttpTypes, Ops
<1>10. CASE step = "content"
  <2>1. AtContent /\ Gives("content", OK)
    BY <1>1, <1>5, <1>10 DEF Fine, AtContent, Following, Both
  <2>2. Has(rx, "OK") /\ step' = "data" /\ inited'
    BY <1>1, <1>10, <2>1 DEF Expect, Opened, After, AtContent, Within
  <2>3. (inbox = <<Of("content")>> /\ wire = <<>>) \/ (inbox = <<>> /\ wire \in Spare)
    BY <2>1, <2>2, OkChunk
  <2>4. session.url = call.n
    BY <2>1, <2>3 DEF AtContent, Queued, Addressed, Of
  <2>5. Ahead("content")' /\ Uploading' /\ mode' = "command"
    BY <1>1, <1>3, <1>4, <2>1, <2>2, <2>3, <2>4 DEF Ahead, Uploading, AtContent, Rests, Within
  <2> QED
    BY <1>1, <2>2, <2>5 DEF Fine, AtData, Following
<1>11. CASE step = "data"
  <2> DEFINE t == Tok("DOWNLOAD", Nothing)
  <2>1. t \in Tokens /\ t.kind = "DOWNLOAD"
    BY TokensTyped, KindsAre DEF TokenKinds
  <2>2. AtData /\ Gives("data", t)
    BY <1>1, <1>5, <1>11 DEF Fine, AtData, Following, Both
  <2>3. Has(rx, "DOWNLOAD") /\ step' = "payload" /\ inited'
    BY <1>1, <1>11, <2>2 DEF Expect, Opened, After, AtData, Uploading, Within
  <2>4. inbox = <<>> /\ wire = <<>>
    BY <2>1, <2>2, <2>3, GivenChunk
  <2> QED
    BY <1>1, <1>4, <2>2, <2>3, <2>4 DEF Fine, AtData, AtPayload, Uploading, Within
<1>12. CASE step = "payload"
  <2>1. AtPayload /\ mode = "command" /\ inbox = <<>> /\ Coming = <<OK>>
    BY <1>1, <1>5, <1>12 DEF Fine, AtPayload
  <2>2. wire = <<>> /\ step' = "action" /\ inited'
    BY <1>1, <1>5, <1>12, <2>1, ComingSplits DEF Opened, After, AtPayload, Uploading, Within
  <2> QED
    BY <1>1, <1>4, <2>1, <2>2
    DEF Fine, AtPayload, AtAction, Uploading, Within, Addressed, Ahead, Spare
<1>13. CASE step = "action"
  <2>1. AtAction /\ Acts
    BY <1>1, <1>13 DEF Fine, AtAction
  <2>2. Has(rx, "+HTTPACTION") /\ step' = AfterAction(First(rx, "+HTTPACTION").arg) /\ inited'
        /\ result' = Accepts(First(rx, "+HTTPACTION")) /\ raw = <<>>
    BY <1>1, <1>13, <2>1 DEF Expect, Opened, After, AtAction, Within, HttpTypes
  <2>3. inbox = <<>> /\ wire = <<>> /\ session.pending = "none"
    BY <2>1, <2>2, ActionChunk
  <2>4. PICK status \in Good : /\ First(rx, "+HTTPACTION").arg = status
                               /\ status = 200 => session.body = call.n
    BY <2>1, <2>2, ActionChunk
  <2>5. call.op = "POST" => result'
    <3>1. Is2xx(200) /\ Is2xx(204)
      BY DEF Is2xx
    <3>2. call.op = "POST" => status \in {200, 204}
      BY <2>4 DEF Good
    <3>3. call.op = "POST" => Is2xx(First(rx, "+HTTPACTION").arg)
      BY <2>4, <3>1, <3>2
    <3> QED
      BY <2>2, <3>3, Zenon DEF Accepts
  <2>6. \/ step' = "read" /\ session.body = call.n
        \/ step' = "cleanup" /\ call.op = "POST"
    BY <2>2, <2>4 DEF AfterAction, Good
  <2> QED
    BY <1>1, <1>4, <2>1, <2>2, <2>3, <2>5, <2>6
    DEF Fine, AtAction, AtRead, AtCleanup, Within, Rests
<1>14. CASE step = "read"
  <2>1. AtRead /\ result /\ inbox = <<>> /\ raw \o Coming = Page(call.n) /\ raw = <<>>
    BY <1>1, <1>2, <1>5, <1>14 DEF Fine, AtRead, HttpTypes
  <2>2. rx \o wire = Page(call.n)
    BY <2>1, ComingTyped, JoinEmpty DEF Coming
  <2>3. wire \in {<<>>, <<OK>>, <<Tok("BODY2", call.n), OK>>, <<Tok("BODY1", call.n), Tok("BODY2", call.n), OK>>}
    <3>1. call.n \in Nat /\ rx \in Seq(Tokens) /\ wire \in Seq(Tokens)
      BY DEF HttpTypes
    <3> QED
      BY <1>5, <2>2, <3>1, PageSplits
  <2>4. step' = "readRest" /\ inited' /\ result'
    BY <1>1, <1>14, <2>1 DEF Opened, After, AtRead, Within
  <2> QED
    BY <1>1, <1>4, <2>1, <2>3, <2>4 DEF Fine, AtRead, AtReadRest, Within, Rests
<1> QED
  BY <1>2, <1>6, <1>7, <1>8, <1>9, <1>10, <1>11, <1>12, <1>13, <1>14

\* A part of the page that has come has the header, has no error, and has an OK when it is all.
LEMMA PageHas ==
  ASSUME NEW n \in Nat, NEW r \in Seq(Tokens), NEW w \in Seq(Tokens), r \o w = Page(n)
  PROVE  /\ ~Has(r, "ERROR")
         /\ r # <<>> => Has(r, "+HTTPREAD")
         /\ Has(r, "OK") => w = <<>>
<1> DEFINE h == Tok("+HTTPREAD", Nothing)
           one == Tok("BODY1", n)
           two == Tok("BODY2", n)
<1>1. \/ r = <<>> /\ w = <<h, one, two, OK>>
      \/ r = <<h>> /\ w = <<one, two, OK>>
      \/ r = <<h, one>> /\ w = <<two, OK>>
      \/ r = <<h, one, two>> /\ w = <<OK>>
      \/ r = <<h, one, two, OK>> /\ w = <<>>
  BY PageSplits
<1>2. h.kind = "+HTTPREAD" /\ one.kind = "BODY1" /\ two.kind = "BODY2" /\ OK.kind = "OK"
  BY KindsAre
<1> HIDE DEF h, one, two
<1>3. CASE r = <<>>
  BY <1>3, Has0
<1>4. CASE r = <<h>>
  BY <1>2, <1>4, Has1
<1>5. CASE r = <<h, one>>
  BY <1>2, <1>5, Has2
<1>6. CASE r = <<h, one, two>>
  BY <1>2, <1>6, Has3
<1>7. CASE r = <<h, one, two, OK>> /\ w = <<>>
  BY <1>2, <1>7, Has4
<1> QED
  BY <1>1, <1>3, <1>4, <1>5, <1>6, <1>7

\* A chunk without the token that is waited for is dropped.
LEMMA FineSkipped == HttpTypes /\ Fine /\ Skipped => Fine'
<1> SUFFICES ASSUME HttpTypes, Fine, Skipped PROVE Fine'
  OBVIOUS
<1>1. /\ waiting = TRUE /\ rx # <<>> /\ ~Has(rx, Expect[step]) /\ wire' = wire /\ rx' = <<>>
      /\ UNCHANGED <<step, waiting, call, inited, result, raw, inbox, session, mode, pdp>>
  BY DEF Skipped, InWaitForToken, driver, modem, HttpTypes
<1>2. step \in {"cgact", "cgpaddr", "init", "url", "content", "data", "payload", "action", "read"}
      /\ (step = "read" => call.op = "POST")
  BY DEF Skipped, InWaitForToken, Expect, Fine, HttpTypes, Ops
<1>3. \A s : Of(s)' = Of(s)
  BY <1>1 DEF Of
<1>4. Coming' = wire
  BY <1>1, Flushed
<1>5. Coming # <<>>
  BY <1>1, ComingSplits
<1>6. ASSUME NEW s, NEW t \in Tokens, t.kind \notin {"OK", "ERROR"}, Asks(s, t), ~Has(rx, t.kind)
      PROVE  Asks(s, t)'
  <2>1. \/ inbox = <<Of(s)>> /\ wire \in Spare
        \/ inbox = <<>> /\ wire \in {<<t, OK>>, <<OK, t, OK>>}
    BY <1>6, AskedChunk
  <2> QED
    BY <1>1, <1>3, <1>4, <2>1 DEF Asks
<1>7. CASE step = "cgact"
  <2>1. Tok("+CGACT", 1) \in Tokens /\ Tok("+CGACT", 1).kind = "+CGACT"
    BY TokensTyped, KindsAre DEF TokenKinds
  <2>2. Apart /\ Asks("cgact", Tok("+CGACT", 1)) /\ ~Has(rx, "+CGACT")
    BY <1>1, <1>7 DEF Fine, Asking, Expect
  <2> QED
    BY <1>1, <1>6, <1>7, <2>1, <2>2 DEF Fine, Asking, Apart, Rests
<1>8. CASE step = "cgpaddr"
  <2>1. Tok("+CGPADDR", Nothing) \in Tokens /\ Tok("+CGPADDR", Nothing).kind = "+CGPADDR"
    BY TokensTyped, KindsAre DEF TokenKinds
  <2>2. Apart /\ Asks("cgpaddr", Tok("+CGPADDR", Nothing)) /\ ~Has(rx, "+CGPADDR")
    BY <1>1, <1>8 DEF Fine, Asking, Expect
  <2> QED
    BY <1>1, <1>6, <1>8, <2>1, <2>2 DEF Fine, Asking, Apart, Rests
<1>9. CASE step \in {"init", "url", "content"}
  <2>1. Gives(step, OK)
    BY <1>1, <1>5, <1>9 DEF Fine, AtInit, AtUrl, AtContent, Following, Both
  <2>2. Has(rx, "OK")
    BY <1>1, <2>1, OkChunk
  <2> QED
    BY <1>1, <1>9, <2>2 DEF Expect
<1>10. CASE step = "data"
  <2> DEFINE t == Tok("DOWNLOAD", Nothing)
  <2>1. t \in Tokens /\ t.kind = "DOWNLOAD"
    BY TokensTyped, KindsAre DEF TokenKinds
  <2>2. AtData /\ Gives("data", t) /\ ~Has(rx, "DOWNLOAD")
    BY <1>1, <1>5, <1>10 DEF Fine, AtData, Following, Both, Expect
  <2>3. \/ inbox = <<Of("data")>> /\ wire \in Spare
        \/ inbox = <<>> /\ wire \in {<<t>>, <<OK, t>>}
    BY <2>1, <2>2, GivenChunk
  <2>4. Gives("data", t)'
    BY <1>1, <1>3, <1>4, <2>3 DEF Gives
  <2> QED
    BY <1>1, <1>10, <2>2, <2>4 DEF Fine, AtData, Following, Uploading, Within
<1>11. CASE step = "payload"
  <2>1. rx = <<OK>>
    BY <1>1, <1>5, <1>11, ComingSplits DEF Fine, AtPayload
  <2> QED
    BY <1>1, <1>11, <2>1, Has1, KindsAre DEF Expect
<1>12. CASE step = "action"
  <2>1. AtAction /\ Acts /\ ~Has(rx, "+HTTPACTION")
    BY <1>1, <1>12 DEF Fine, AtAction, Expect
  <2>2. \/ inbox = <<Of("action")>> /\ wire \in Spare /\ session.pending = "none"
        \/ inbox = <<>> /\ session.pending = call.op /\ wire \in {<<>>, <<OK>>, <<OK, OK>>}
        \/ /\ inbox = <<>> /\ session.pending = "none"
           /\ \E status \in Good :
                /\ wire \in {<<Tok("+HTTPACTION", status)>>, <<OK, Tok("+HTTPACTION", status)>>,
                             <<OK, OK, Tok("+HTTPACTION", status)>>}
                /\ status = 200 => session.body = call.n
    BY <1>1, <2>1, ActionChunk
  <2>3. Acts'
    BY <1>1, <1>3, <1>4, <2>2 DEF Acts, Answered, Good
  <2>4. Addressed'
    BY <1>1, <1>3, <2>1 DEF AtAction, Addressed, Queued
  <2> QED
    BY <1>1, <1>12, <2>1, <2>3, <2>4 DEF Fine, AtAction, Within
<1>13. CASE step = "read"
  <2>1. raw = <<>> /\ raw \o Coming = Page(call.n)
    BY <1>1, <1>2, <1>5, <1>13 DEF Fine, AtRead, HttpTypes
  <2>2. rx \o wire = Page(call.n)
    BY <2>1, ComingTyped, JoinEmpty DEF Coming
  <2>3. call.n \in Nat /\ rx \in Seq(Tokens) /\ wire \in Seq(Tokens)
    BY DEF HttpTypes
  <2>4. Has(rx, "+HTTPREAD")
    BY <1>1, <2>2, <2>3, PageHas
  <2> QED
    BY <1>1, <1>13, <2>4 DEF Expect
<1> QED
  BY <1>2, <1>7, <1>8, <1>9, <1>10, <1>11, <1>12, <1>13

\* No wait of a healthy call finds an error,
LEMMA NoError == HttpTypes /\ Fine => ~FoundError
<1> SUFFICES ASSUME HttpTypes, Fine, FoundError PROVE FALSE
  OBVIOUS
<1>1. waiting = TRUE /\ Has(rx, "ERROR")
  BY DEF FoundError, InWaitForToken, HttpTypes
<1>2. step \in {"cgact", "cgpaddr", "init", "url", "content", "data", "payload", "action", "read"}
      /\ (step = "read" => call.op = "POST")
  BY DEF FoundError, InWaitForToken, Expect, Fine, HttpTypes, Ops
<1>3. rx # <<>> /\ Coming # <<>>
  BY <1>1, Has0, ComingSplits
<1>4. CASE step = "cgact"
  <2>1. Tok("+CGACT", 1) \in Tokens /\ Tok("+CGACT", 1).kind = "+CGACT" /\ Asks("cgact", Tok("+CGACT", 1))
    BY <1>1, <1>4, TokensTyped, KindsAre DEF TokenKinds, Fine, Asking
  <2> QED
    BY <1>1, <2>1, AskedChunk
<1>5. CASE step = "cgpaddr"
  <2>1. /\ Tok("+CGPADDR", Nothing) \in Tokens /\ Tok("+CGPADDR", Nothing).kind = "+CGPADDR"
        /\ Asks("cgpaddr", Tok("+CGPADDR", Nothing))
    BY <1>1, <1>5, TokensTyped, KindsAre DEF TokenKinds, Fine, Asking
  <2> QED
    BY <1>1, <2>1, AskedChunk
<1>6. CASE step \in {"init", "url", "content"}
  <2>1. Gives(step, OK)
    BY <1>1, <1>3, <1>6 DEF Fine, AtInit, AtUrl, AtContent, Following, Both
  <2> QED
    BY <1>1, <2>1, OkChunk
<1>7. CASE step = "data"
  <2>1. /\ Tok("DOWNLOAD", Nothing) \in Tokens /\ Tok("DOWNLOAD", Nothing).kind = "DOWNLOAD"
        /\ Gives("data", Tok("DOWNLOAD", Nothing))
    BY <1>1, <1>3, <1>7, TokensTyped, KindsAre DEF TokenKinds, Fine, AtData, Following, Both
  <2> QED
    BY <1>1, <2>1, GivenChunk
<1>8. CASE step = "payload"
  <2>1. rx = <<OK>>
    BY <1>1, <1>3, <1>8, ComingSplits DEF Fine, AtPayload
  <2> QED
    BY <1>1, <2>1, Has1, KindsAre
<1>9. CASE step = "action"
  BY <1>1, <1>9, ActionChunk DEF Fine, AtAction
<1>10. CASE step = "read"
  <2>1. raw = <<>> /\ raw \o Coming = Page(call.n)
    BY <1>1, <1>2, <1>3, <1>10 DEF Fine, AtRead, HttpTypes
  <2>2. rx \o wire = Page(call.n)
    BY <2>1, ComingTyped, JoinEmpty DEF Coming
  <2>3. call.n \in Nat /\ rx \in Seq(Tokens) /\ wire \in Seq(Tokens)
    BY DEF HttpTypes
  <2> QED
    BY <1>1, <2>2, <2>3, PageHas
<1> QED
  BY <1>2, <1>4, <1>5, <1>6, <1>7, <1>8, <1>9, <1>10

\* and none ends with nothing read.
LEMMA NoTimeOut == HttpTypes /\ Fine /\ TimeOut /\ trouble' = FALSE => FALSE
<1> SUFFICES ASSUME HttpTypes, Fine, TimeOut, trouble' = FALSE PROVE FALSE
  OBVIOUS
<1>1. rx = <<>> /\ wire = <<>> /\ inbox = <<>> /\ session.pending = "none" /\ mode = "command" /\ waiting = TRUE
  BY TimedOutQuiet DEF TimeOut, InWaitForToken, HttpTypes, Quiet
<1>2. step \in {"cgact", "cgpaddr", "init", "url", "content", "data", "payload", "action", "read"}
      /\ (step = "read" => call.op = "POST")
  BY DEF TimeOut, InWaitForToken, Expect, Fine, HttpTypes, Ops
<1>3. Coming = <<>>
  BY <1>1, ConcatEmptySeq, EmptySeq DEF Coming, HttpTypes
<1>4. CASE step \in {"cgact", "cgpaddr"}
  BY <1>1, <1>3, <1>4 DEF Fine, Asking, Asks
<1>5. CASE step \in {"init", "url", "content", "data"}
  BY <1>1, <1>3, <1>5 DEF Fine, AtInit, AtUrl, AtContent, AtData, Following, Both, Gives
<1>6. CASE step = "payload"
  BY <1>1, <1>3, <1>6 DEF Fine, AtPayload
<1>7. CASE step = "action"
  BY <1>1, <1>3, <1>7 DEF Fine, AtAction, Acts, Answered, Both, HttpTypes, Ops
<1>8. CASE step = "read"
  <2>1. raw = <<>> /\ raw \o Coming = Page(call.n) /\ call.n \in Nat
    BY <1>1, <1>2, <1>8 DEF Fine, AtRead, HttpTypes
  <2>2. raw \o Coming = <<>>
    BY <1>3, <2>1, ConcatEmptySeq, EmptySeq
  <2> QED
    <3>1. \A a, b, c, d : <<a, b, c, d>> # <<>>
      OBVIOUS
    <3>2. Page(call.n) # <<>>
      BY <2>1, <3>1, PageIs, TokensTyped, Zenon
    <3> QED
      BY <2>1, <2>2, <3>2
<1> QED
  BY <1>2, <1>4, <1>5, <1>6, <1>7, <1>8

\* sendPayload reads what is left of the page.
LEMMA FineReadRest == HttpTypes /\ Fine /\ ReadRest /\ trouble' = FALSE => Fine'
<1> SUFFICES ASSUME HttpTypes, Fine, ReadRest, trouble' = FALSE PROVE Fine'
  OBVIOUS
<1>1. /\ step = "readRest" /\ wire' = wire /\ rx' = <<>>
      /\ UNCHANGED <<call, inited, raw, result, inbox, session, mode, pdp>>
  BY DEF ReadRest, modem
<1>2. \/ step' = "cleanup" /\ waiting' = FALSE /\ (rx = <<>> \/ Has(rx, "OK") \/ Has(rx, "ERROR"))
      \/ step' = "readRest"
  BY <1>1 DEF ReadRest, GoTo
<1>3. Coming' = wire
  BY <1>1, Flushed
<1>4. AtReadRest
  BY <1>1 DEF Fine
<1>5. rx = <<>> => wire = <<>>
  BY TimedOutQuiet DEF ReadRest, Quiet
<1> DEFINE one == Tok("BODY1", call.n)
           two == Tok("BODY2", call.n)
<1>6. one.kind = "BODY1" /\ two.kind = "BODY2" /\ OK.kind = "OK"
  BY KindsAre
<1>7. Coming \in {<<>>, <<OK>>, <<two, OK>>, <<one, two, OK>>}
  BY <1>4 DEF AtReadRest
<1>8. one' = one /\ two' = two
  BY <1>1
<1> HIDE DEF one, two
<1>9. wire \in {<<>>, <<OK>>, <<two, OK>>, <<one, two, OK>>}
      /\ (rx = <<>> \/ Has(rx, "OK") \/ Has(rx, "ERROR") => wire = <<>>)
  <2>1. CASE Coming = <<>>
    BY <2>1, ComingSplits
  <2>2. CASE Coming = <<OK>>
    BY <1>5, <2>2, ComingSplits
  <2>3. CASE Coming = <<two, OK>>
    <3>1. (rx = <<>>) \/ (rx = <<two>> /\ wire = <<OK>>) \/ wire = <<>>
      BY <2>3, ComingSplits
    <3> QED
      BY <1>5, <1>6, <3>1, Has1
  <2>4. CASE Coming = <<one, two, OK>>
    <3>1. (rx = <<>>) \/ (rx = <<one>> /\ wire = <<two, OK>>) \/ (rx = <<one, two>> /\ wire = <<OK>>) \/ wire = <<>>
      BY <2>4, ComingSplits
    <3> QED
      BY <1>5, <1>6, <3>1, Has1, Has2
  <2> QED
    BY <1>7, <2>1, <2>2, <2>3, <2>4
<1>10. CASE step' = "readRest"
  <2>1. Coming' \in {<<>>, <<OK>>, <<two, OK>>, <<one, two, OK>>}
    BY <1>3, <1>9
  <2>2. AtReadRest'
    BY <1>1, <1>4, <1>8, <2>1 DEF AtReadRest, Within, Rests, one, two
  <2> QED
    BY <1>1, <1>10, <2>2 DEF Fine
<1>11. CASE step' = "cleanup"
  BY <1>1, <1>2, <1>3, <1>4, <1>9, <1>11 DEF Fine, AtReadRest, AtCleanup, Within, Rests
<1> QED
  BY <1>2, <1>10, <1>11

\* httpGet reads the page in as many chunks as it comes in.
LEMMA FineGetReads == HttpTypes /\ Fine /\ GetReads => Fine'
<1> SUFFICES ASSUME HttpTypes, Fine, GetReads PROVE Fine'
  OBVIOUS
<1> DEFINE all == raw \o rx
<1>1. /\ step = "read" /\ waiting = TRUE /\ call.op = "GET" /\ rx # <<>> /\ wire' = wire /\ rx' = <<>>
      /\ UNCHANGED <<call, inited, inbox, session, mode, pdp>>
  BY DEF GetReads, modem, HttpTypes
<1>2. \/ /\ Has(all, "OK") \/ Has(all, "ERROR")
         /\ step' = "cleanup" /\ waiting' = FALSE /\ (result' <=> Parsed(all) # <<>>) /\ raw' = <<>>
      \/ step' = "read" /\ raw' = all /\ waiting' = waiting
  BY <1>1 DEF GetReads, GoTo
<1>3. Coming' = wire /\ Coming # <<>>
  BY <1>1, Flushed, ComingSplits
<1>4. AtRead /\ inbox = <<>> /\ raw \o Coming = Page(call.n)
  BY <1>1, <1>3 DEF Fine, AtRead
<1>5. raw \in Seq(Tokens) /\ rx \in Seq(Tokens) /\ wire \in Seq(Tokens) /\ call.n \in Nat
  BY DEF HttpTypes
<1>6. all \in Seq(Tokens) /\ all \o wire = Page(call.n)
  <2>1. all \o wire = raw \o (rx \o wire)
    BY <1>5, ConcatAssociative
  <2> QED
    BY <1>4, <1>5, <2>1, ConcatProperties DEF Coming
<1> HIDE DEF all
<1>7. ~Has(all, "ERROR") /\ (Has(all, "OK") => wire = <<>>)
  BY <1>5, <1>6, PageHas
<1>8. CASE step' = "read"
  <2>1. waiting' /\ raw' \o Coming' = Page(call.n)
    BY <1>1, <1>2, <1>3, <1>6, <1>8
  <2>2. AtRead'
    BY <1>1, <1>4, <2>1 DEF AtRead, Within, Rests
  <2> QED
    BY <1>1, <1>4, <1>8, <2>2 DEF Fine
<1>9. CASE step' = "cleanup"
  <2>1. wire = <<>> /\ (result' <=> Parsed(all) # <<>>) /\ waiting' = FALSE
    BY <1>2, <1>7, <1>9
  <2>2. all = Page(call.n)
    BY <1>6, <2>1, JoinEmpty
  <2>3. result'
    BY <1>5, <2>1, <2>2, PageParsed
  <2> QED
    BY <1>1, <1>3, <1>4, <1>9, <2>1, <2>3 DEF Fine, AtRead, AtCleanup, Within, Rests
<1> QED
  BY <1>2, <1>8, <1>9

\* Its 5 seconds end with the page read.
LEMMA FineGetReadEnds == HttpTypes /\ Fine /\ GetReadEnds /\ trouble' = FALSE => Fine'
<1> SUFFICES ASSUME HttpTypes, Fine, GetReadEnds, trouble' = FALSE PROVE Fine'
  OBVIOUS
<1>1. /\ step = "read" /\ waiting /\ step' = "cleanup" /\ waiting' = FALSE
      /\ (result' <=> Parsed(raw) # <<>>)
      /\ UNCHANGED <<call, inited, rx, wire, inbox, session, mode, pdp>>
  BY DEF GetReadEnds, GoTo, modem
<1>2. rx = <<>> /\ wire = <<>> /\ inbox = <<>>
  BY TimedOutQuiet DEF GetReadEnds, Quiet
<1>3. Coming = <<>> /\ Coming' = <<>>
  BY <1>1, <1>2, ConcatEmptySeq, EmptySeq DEF Coming, HttpTypes
<1>4. AtRead /\ raw \o Coming = Page(call.n)
  BY <1>1, <1>2 DEF Fine, AtRead
<1>5. raw = Page(call.n)
  BY <1>3, <1>4, JoinEmpty DEF HttpTypes
<1>6. result'
  BY <1>1, <1>5, PageParsed DEF HttpTypes
<1> QED
  BY <1>1, <1>2, <1>3, <1>4, <1>6 DEF Fine, AtRead, AtCleanup, Within, Rests

\* httpTermSafe leaves no session behind.
LEMMA FineTermEnds == HttpTypes /\ Fine /\ TermEnds /\ trouble' = FALSE => Fine'
<1> SUFFICES ASSUME HttpTypes, Fine, TermEnds, trouble' = FALSE PROVE Fine'
  OBVIOUS
<1>1. /\ step \in {"term", "cleanup"} /\ waiting /\ wire' = wire /\ rx' = <<>> /\ inited' = FALSE
      /\ step' = AfterTerm /\ waiting' = FALSE
      /\ UNCHANGED <<call, raw, result, inbox, session, mode, pdp>>
  BY DEF TermEnds, GoTo, modem
<1>2. step = "cleanup" /\ step' = "return" /\ AtCleanup
  BY <1>1 DEF Fine, AtRest, AfterTerm
<1>3. Coming' = wire
  BY <1>1, Flushed
<1>4. rx # <<>> \/ (wire = <<>> /\ inbox = <<>>)
  BY TimedOutQuiet DEF TermEnds, Quiet
<1>5. ~session.open /\ inbox = <<>> /\ Coming = <<OK>>
  BY <1>1, <1>2, <1>4, ComingSplits DEF AtCleanup
<1>6. wire = <<>>
  BY <1>4, <1>5, ComingSplits
<1> QED
  BY <1>1, <1>2, <1>3, <1>5, <1>6 DEF Fine, AtCleanup, AtRest, Apart, Rests, Spare

\* What is coming after an answer of one token,
LEMMA OneComes ==
  ASSUME HttpTypes, NEW t \in Tokens, Answer(<<t>>), rx' = rx
  PROVE  /\ Coming = <<>> => Coming' = <<t>>
         /\ Coming = <<OK>> => Coming' = <<OK, t>>
         /\ Coming = <<OK, OK>> => Coming' = <<OK, OK, t>>
<1>1. <<t>> \in Seq(Tokens) /\ OK \in Tokens
  BY TokensTyped
<1>2. Coming' = Coming \o <<t>>
  BY <1>1, AnswerComes
<1>3. <<>> \o <<t>> = <<t>>
  BY <1>1, JoinEmpty
<1>4. <<OK>> \o <<t>> = <<OK, t>>
  BY <1>1, Join11
<1>5. <<OK, OK>> \o <<t>> = <<OK, OK, t>>
  BY <1>1, Join21
<1> QED
  BY <1>2, <1>3, <1>4, <1>5

\* and of one and an OK.
LEMMA TwoCome ==
  ASSUME HttpTypes, NEW t \in Tokens, Answer(<<t, OK>>), rx' = rx
  PROVE  /\ Coming = <<>> => Coming' = <<t, OK>>
         /\ Coming = <<OK>> => Coming' = <<OK, t, OK>>
<1>1. <<t, OK>> \in Seq(Tokens) /\ OK \in Tokens
  BY TokensTyped
<1>2. Coming' = Coming \o <<t, OK>>
  BY <1>1, AnswerComes
<1>3. <<>> \o <<t, OK>> = <<t, OK>>
  BY <1>1, JoinEmpty
<1>4. <<OK>> \o <<t, OK>> = <<OK, t, OK>>
  BY <1>1, Join12
<1> QED
  BY <1>2, <1>3, <1>4

\* The command that may be unanswered when a step begins.
Before(s) == IF s = "url" THEN "init" ELSE IF s = "data" THEN "content" ELSE "url"

\* What the modem may have to obey.
LEMMA InboxHolds ==
  ASSUME HttpTypes, Fine, inbox # <<>>
  PROVE  \/ /\ waiting /\ inbox = <<Of(step)>>
            /\ step \in {"cgact", "cgpaddr", "init", "url", "content", "data", "payload", "action", "read",
                         "cleanup"}
         \/ /\ ~waiting /\ inbox = <<Of(Before(step))>> /\ Coming = <<>>
            /\ step \in {"url", "content", "data", "action"}
         \/ /\ waiting /\ inbox = <<Of(Before(step)), Of(step)>> /\ Coming = <<>>
            /\ step \in {"url", "content", "data", "action"}
<1>1. step \in {"idle", "term", "return", "cgact", "cgpaddr", "init", "url", "content", "data", "payload",
                "action", "read", "readRest", "cleanup"}
  BY DEF Fine, HttpTypes, Steps
<1>2. CASE step \in {"idle", "term", "return", "readRest"}
  BY <1>2 DEF Fine, AtRest, AtReadRest
<1>3. CASE step \in {"cgact", "cgpaddr", "init"}
  BY <1>3 DEF Fine, Asking, Asks, AtInit, Gives
<1>4. CASE step \in {"url", "content", "data"}
  BY <1>4 DEF Fine, AtUrl, AtContent, AtData, Following, Both, Gives, Ahead, Before
<1>5. CASE step = "action"
  BY <1>5 DEF Fine, AtAction, Acts, Both, Answered, Ahead, Before
<1>6. CASE step \in {"payload", "read", "cleanup"}
  BY <1>6 DEF Fine, AtPayload, AtRead, AtCleanup
<1> QED
  BY <1>1, <1>2, <1>3, <1>4, <1>5, <1>6

\* The modem takes up its first command.
LEMMA Obeys ==
  ASSUME HttpTypes, Obeyed
  PROVE  /\ inbox # <<>> /\ rx' = rx
         /\ UNCHANGED <<step, waiting, call, inited, raw, result>>
         /\ \A s : Of(s)' = Of(s)
         /\ \A c : inbox = <<c>> => Head(inbox) = c /\ inbox' = <<>>
         /\ \A b, c : inbox = <<b, c>> => Head(inbox) = b /\ inbox' = <<c>>
<1>1. inbox # <<>> /\ inbox' = Tail(inbox) /\ rx' = rx /\ UNCHANGED driver
  BY DEF Obeyed
<1>2. ASSUME NEW c, inbox = <<c>> PROVE Head(inbox) = c /\ inbox' = <<>>
  BY <1>1, <1>2
<1>3. ASSUME NEW b, NEW c, inbox = <<b, c>> PROVE Head(inbox) = b /\ inbox' = <<c>>
  BY <1>1, <1>3
<1>4. UNCHANGED <<step, waiting, call, inited, raw, result>>
  BY <1>1 DEF driver
<1> QED
  BY <1>1, <1>2, <1>3, <1>4 DEF Of

\* Each command, taken up by a modem that finds what Fine says.
LEMMA FineModemTerm == HttpTypes /\ Fine /\ ModemTerm => Fine'
<1> SUFFICES ASSUME HttpTypes, Fine, ModemTerm PROVE Fine'
  OBVIOUS
<1>1. Obeyed /\ Head(inbox).cmd = "term" /\ session' = Closed /\ UNCHANGED <<mode, pdp>>
  BY DEF ModemTerm, InboxIs
<1>2. step = "cleanup" /\ inbox = <<Of("cleanup")>> /\ inbox' = <<>>
  BY <1>1, InboxHolds, Obeys DEF Of, Before
<1>3. session.open /\ waiting /\ Coming = <<>> /\ inited /\ result /\ Rests
  BY <1>2 DEF Fine, AtCleanup
<1>4. Coming' = <<OK>>
  BY <1>1, <1>3, OneComes, TokensTyped, Obeys DEF ModemTerm
<1> QED
  BY <1>1, <1>2, <1>3, <1>4, Obeys DEF Fine, AtCleanup, Rests, Closed

LEMMA FineModemPdp == HttpTypes /\ Fine /\ ModemPdp => Fine'
<1> SUFFICES ASSUME HttpTypes, Fine, ModemPdp PROVE Fine'
  OBVIOUS
<1>1. Obeyed /\ UNCHANGED <<session, mode>> /\ pdp = TRUE
  BY DEF ModemPdp, Fine
<1>2. ASSUME NEW s, NEW t \in Tokens, inbox = <<Of(s)>>, Coming \in Spare, Answer(<<t, OK>>)
      PROVE  Asks(s, t)'
  BY <1>1, <1>2, Obeys, TwoCome DEF Spare, Asks
<1>3. CASE InboxIs("cgact") /\ Answer(<<Tok("+CGACT", 1), OK>>) /\ pdp' = pdp
  <2>1. step = "cgact" /\ waiting /\ inbox = <<Of("cgact")>>
    BY <1>1, <1>3, InboxHolds, Obeys DEF Of, Before, InboxIs
  <2>2. Apart /\ Coming \in Spare
    BY <2>1 DEF Fine, Asking, Asks
  <2>3. Tok("+CGACT", 1) \in Tokens
    BY TokensTyped DEF TokenKinds
  <2>4. Asks("cgact", Tok("+CGACT", 1))'
    BY <1>2, <1>3, <2>1, <2>2, <2>3
  <2> QED
    BY <1>1, <1>3, <2>1, <2>2, <2>4, Obeys DEF Fine, Asking, Apart, Rests
<1>4. CASE InboxIs("cgpaddr") /\ Answer(<<Tok("+CGPADDR", Nothing), OK>>) /\ pdp' = pdp
  <2>1. step = "cgpaddr" /\ waiting /\ inbox = <<Of("cgpaddr")>>
    BY <1>1, <1>4, InboxHolds, Obeys DEF Of, Before, InboxIs
  <2>2. Apart /\ Coming \in Spare
    BY <2>1 DEF Fine, Asking, Asks
  <2>3. Tok("+CGPADDR", Nothing) \in Tokens
    BY TokensTyped DEF TokenKinds
  <2>4. Asks("cgpaddr", Tok("+CGPADDR", Nothing))'
    BY <1>2, <1>4, <2>1, <2>2, <2>3
  <2> QED
    BY <1>1, <1>4, <2>1, <2>2, <2>4, Obeys DEF Fine, Asking, Apart, Rests
<1>5. ~InboxIs("activate")
  BY <1>1, InboxHolds, Obeys DEF Of, Before, InboxIs
<1> QED
  BY <1>1, <1>3, <1>4, <1>5 DEF ModemPdp

LEMMA FineModemInit == HttpTypes /\ Fine /\ ModemInit => Fine'
<1> SUFFICES ASSUME HttpTypes, Fine, ModemInit PROVE Fine'
  OBVIOUS
<1>1. /\ Obeyed /\ Head(inbox).cmd = "init" /\ UNCHANGED <<mode, pdp>> /\ pdp = TRUE
      /\ session' = [session EXCEPT !.open = TRUE]
  BY DEF ModemInit, InboxIs, Fine
<1>2. session'.open /\ session'.url = session.url /\ session'.pending = session.pending
  BY <1>1 DEF HttpTypes, Sessions
<1>3. ~session.open => Answer(<<OK>>)
  BY DEF ModemInit
<1>4. CASE step = "init"
  <2>1. waiting /\ inbox = <<Of("init")>>
    BY <1>1, <1>4, InboxHolds, Obeys DEF Of, Before
  <2>2. ~inited /\ Rests /\ ~session.open /\ Coming \in Spare
    BY <1>4, <2>1 DEF Fine, AtInit, Gives
  <2>3. inbox' = <<>> /\ Coming' \in {<<OK>>, <<OK, OK>>}
    BY <1>1, <1>3, <2>1, <2>2, Obeys, OneComes, TokensTyped DEF Spare
  <2> QED
    BY <1>1, <1>2, <1>4, <2>1, <2>2, <2>3, Obeys DEF Fine, AtInit, Gives, Rests
<1>5. CASE step = "url"
  <2>1. \/ ~waiting /\ inbox = <<Of("init")>>
        \/ waiting /\ inbox = <<Of("init"), Of("url")>>
    BY <1>1, <1>5, InboxHolds, Obeys DEF Of, Before
  <2>2. Coming = <<>> /\ Queued("init") /\ ~session.open /\ inited /\ Rests
    BY <1>5, <2>1, InboxHolds DEF Fine, AtUrl, Queued, Of
  <2>3. Coming' = <<OK>>
    BY <1>1, <1>3, <2>2, OneComes, TokensTyped, Obeys
  <2>4. IF waiting THEN inbox' = <<Of("url")>> ELSE inbox' = <<>>
    BY <1>1, <2>1, Obeys
  <2>5. ~Queued("init")'
    BY <1>1, <2>4, Obeys DEF Queued, Of
  <2>6. Following("init", "url", OK)'
    BY <1>1, <2>3, <2>4, Obeys DEF Following, Gives, Ahead, Spare
  <2>7. AtUrl'
    <3>1. inited' /\ Rests' /\ session'.open /\ waiting' = waiting
      BY <1>1, <1>2, <2>2, Obeys DEF Rests
    <3>2. ~(waiting' /\ inbox' = <<>>)
      BY <2>4, <3>1
    <3> QED
      BY <2>5, <2>6, <3>1, <3>2 DEF AtUrl
  <2> QED
    BY <1>1, <1>5, <2>7, Obeys DEF Fine
<1> QED
  BY <1>1, <1>4, <1>5, InboxHolds, Obeys DEF Of, Before

LEMMA FineModemUrl == HttpTypes /\ Fine /\ ModemPara /\ InboxIs("url") => Fine'
<1> SUFFICES ASSUME HttpTypes, Fine, ModemPara, InboxIs("url") PROVE Fine'
  OBVIOUS
<1>1. /\ Obeyed /\ Head(inbox).cmd = "url" /\ UNCHANGED <<mode, pdp>> /\ pdp = TRUE
      /\ session.open => session' = [session EXCEPT !.url = Head(inbox).arg] /\ Answer(<<OK>>)
  BY DEF ModemPara, InboxIs, Fine
<1>2. Of("url").arg = call.n
  BY DEF Of
<1>3. ASSUME session.open, Head(inbox) = Of("url")
      PROVE  /\ session'.url = call.n /\ session'.open /\ session'.pending = session.pending
             /\ session'.body = session.body /\ Answer(<<OK>>)
  BY <1>1, <1>2, <1>3 DEF HttpTypes, Sessions
<1>4. CASE step = "url"
  <2>1. waiting /\ inbox = <<Of("url")>> /\ Head(inbox) = Of("url") /\ inbox' = <<>>
    BY <1>1, <1>4, InboxHolds, Obeys DEF Of, Before
  <2>2. inited /\ Rests /\ Coming \in Spare /\ session.open
    BY <1>4, <2>1 DEF Fine, AtUrl, Following, Both, Gives, Queued, Of
  <2>3. Coming' \in {<<OK>>, <<OK, OK>>}
    BY <1>1, <2>2, Obeys, OneComes, TokensTyped DEF Spare
  <2>4. ~Queued("init")'
    BY <2>1 DEF Queued
  <2>5. AtUrl'
    BY <1>1, <1>3, <2>1, <2>2, <2>3, <2>4, Obeys DEF AtUrl, Following, Gives, Rests
  <2> QED
    BY <1>1, <1>4, <2>5, Obeys DEF Fine
<1>5. CASE step = "content"
  <2>1. \/ ~waiting /\ inbox = <<Of("url")>> /\ Head(inbox) = Of("url") /\ inbox' = <<>>
        \/ waiting /\ inbox = <<Of("url"), Of("content")>> /\ Head(inbox) = Of("url") /\ inbox' = <<Of("content")>>
    BY <1>1, <1>5, InboxHolds, Obeys DEF Of, Before
  <2>2. Coming = <<>> /\ Within /\ Rests /\ call.op = "POST"
    BY <1>5, <2>1, InboxHolds DEF Fine, AtContent, Of
  <2>3. Coming' = <<OK>>
    BY <1>1, <1>3, <2>1, <2>2, OneComes, TokensTyped, Obeys DEF Within
  <2>4. Following("url", "content", OK)'
    BY <1>1, <2>1, <2>3, Obeys DEF Following, Gives, Ahead, Spare
  <2>5. AtContent'
    BY <1>1, <1>3, <2>1, <2>2, <2>4, Obeys DEF AtContent, Within, Rests, Addressed
  <2> QED
    BY <1>1, <1>5, <2>5, Obeys DEF Fine
<1>6. CASE step = "action"
  <2>1. \/ ~waiting /\ inbox = <<Of("url")>> /\ Head(inbox) = Of("url") /\ inbox' = <<>>
        \/ waiting /\ inbox = <<Of("url"), Of("action")>> /\ Head(inbox) = Of("url") /\ inbox' = <<Of("action")>>
    BY <1>1, <1>6, InboxHolds, Obeys DEF Of, Before
  <2>2. Coming = <<>> /\ Within /\ mode = "command"
    BY <1>6, <2>1, InboxHolds DEF Fine, AtAction, Of
  <2>3. session.pending = "none"
    BY <1>6, <2>1, <2>2 DEF Fine, AtAction, Acts
  <2>4. Coming' = <<OK>>
    BY <1>1, <1>3, <2>1, <2>2, OneComes, TokensTyped, Obeys DEF Within
  <2>5. CASE waiting
    <3>1. Acts'
      BY <1>1, <1>3, <2>1, <2>2, <2>3, <2>4, <2>5, Obeys DEF Acts, Spare, Within
    <3> QED
      BY <1>1, <1>3, <1>6, <2>1, <2>2, <2>5, <3>1, Obeys DEF Fine, AtAction, Within, Addressed
  <2>6. CASE ~waiting
    <3>1. Ahead("url")' /\ inbox' = <<>>
      BY <2>1, <2>4, <2>6 DEF Ahead, Spare
    <3> QED
      BY <1>1, <1>3, <1>6, <2>1, <2>2, <2>3, <2>6, <3>1, Obeys DEF Fine, AtAction, Within, Addressed
  <2> QED
    BY <2>5, <2>6
<1> QED
  BY <1>1, <1>4, <1>5, <1>6, InboxHolds, Obeys DEF Of, Before

LEMMA FineModemContent == HttpTypes /\ Fine /\ ModemPara /\ InboxIs("content") => Fine'
<1> SUFFICES ASSUME HttpTypes, Fine, ModemPara, InboxIs("content") PROVE Fine'
  OBVIOUS
<1>1. /\ Obeyed /\ Head(inbox).cmd = "content" /\ UNCHANGED <<mode, pdp, session>> /\ pdp = TRUE
      /\ session.open => Answer(<<OK>>)
  BY DEF ModemPara, InboxIs, Fine
<1>2. CASE step = "content"
  <2>1. waiting /\ inbox = <<Of("content")>> /\ inbox' = <<>>
    BY <1>1, <1>2, InboxHolds, Obeys DEF Of, Before
  <2>2. Within /\ Rests /\ Coming \in Spare /\ call.op = "POST" /\ session.url = call.n
    BY <1>2, <2>1 DEF Fine, AtContent, Following, Both, Gives, Addressed, Queued, Of
  <2>3. Coming' \in {<<OK>>, <<OK, OK>>}
    BY <1>1, <2>2, Obeys, OneComes, TokensTyped DEF Spare, Within
  <2>4. AtContent'
    BY <1>1, <2>1, <2>2, <2>3, Obeys DEF AtContent, Following, Gives, Rests, Within, Addressed
  <2> QED
    BY <1>1, <1>2, <2>4, Obeys DEF Fine
<1>3. CASE step = "data"
  <2>1. \/ ~waiting /\ inbox = <<Of("content")>> /\ inbox' = <<>>
        \/ waiting /\ inbox = <<Of("content"), Of("data")>> /\ inbox' = <<Of("data")>>
    BY <1>1, <1>3, InboxHolds, Obeys DEF Of, Before
  <2>2. Coming = <<>> /\ Uploading /\ mode = "command"
    BY <1>3, <2>1, InboxHolds DEF Fine, AtData, Of
  <2>3. Coming' = <<OK>>
    BY <1>1, <2>2, OneComes, TokensTyped, Obeys DEF Uploading, Within
  <2>4. Following("content", "data", Tok("DOWNLOAD", Nothing))'
    BY <1>1, <2>1, <2>3, Obeys DEF Following, Gives, Ahead, Spare
  <2>5. ~(waiting' /\ inbox' = <<>>)
    BY <1>1, <2>1, Obeys
  <2>6. AtData'
    BY <1>1, <2>2, <2>4, <2>5, Obeys DEF AtData, Uploading, Within
  <2> QED
    BY <1>1, <1>3, <2>6, Obeys DEF Fine
<1> QED
  BY <1>1, <1>2, <1>3, InboxHolds, Obeys DEF Of, Before

LEMMA FineModemData == HttpTypes /\ Fine /\ ModemData => Fine'
<1> SUFFICES ASSUME HttpTypes, Fine, ModemData PROVE Fine'
  OBVIOUS
<1>1. Obeyed /\ Head(inbox).cmd = "data" /\ pdp' = pdp /\ pdp = TRUE
  BY DEF ModemData, InboxIs, Fine
<1>2. step = "data" /\ waiting /\ inbox = <<Of("data")>> /\ inbox' = <<>>
  BY <1>1, InboxHolds, Obeys DEF Of, Before
<1>3. Uploading /\ Coming \in Spare
  BY <1>2 DEF Fine, AtData, Following, Both, Gives
<1>4. /\ Answer(<<Tok("DOWNLOAD", Nothing)>>) /\ mode' = "data" /\ session' = [session EXCEPT !.data = Nothing]
  BY <1>3 DEF ModemData, Ready, Uploading, Within
<1>5. Tok("DOWNLOAD", Nothing) \in Tokens
  BY TokensTyped DEF TokenKinds
<1>6. Gives("data", Tok("DOWNLOAD", Nothing))'
  BY <1>1, <1>2, <1>3, <1>4, <1>5, OneComes, Obeys DEF Gives, Spare
<1>7. Uploading'
  BY <1>1, <1>3, <1>4, Obeys DEF Uploading, Within, HttpTypes, Sessions
<1> QED
  BY <1>1, <1>2, <1>4, <1>6, <1>7, Obeys DEF Fine, AtData, Following

LEMMA FineModemTakesData == HttpTypes /\ Fine /\ ModemTakesData => Fine'
<1> SUFFICES ASSUME HttpTypes, Fine, ModemTakesData PROVE Fine'
  OBVIOUS
<1>1. mode = "data" /\ Obeyed /\ pdp' = pdp /\ pdp = TRUE
  BY DEF ModemTakesData, Fine
<1>2. step = "payload" /\ waiting /\ inbox = <<Of("payload")>> /\ inbox' = <<>> /\ Head(inbox) = Of("payload")
  <2>1. step \in {"data", "payload"}
    BY <1>1, InboxHolds, Obeys
    DEF Fine, Asking, Apart, AtInit, AtUrl, AtContent, AtAction, AtRead, AtCleanup, Rests
  <2>2. step # "data"
    BY <1>1, Obeys DEF Fine, AtData
  <2> QED
    BY <2>1, <2>2, InboxHolds, Obeys, <1>1
<1>3. Uploading /\ Coming = <<>>
  BY <1>1, <1>2 DEF Fine, AtPayload
<1>4. /\ mode' = "command" /\ Answer(<<OK>>)
      /\ session' = [session EXCEPT !.data = IF @ = Nothing THEN Head(inbox).arg ELSE Garbage]
  BY <1>2 DEF ModemTakesData, Of
<1>5. Coming' = <<OK>>
  BY <1>1, <1>3, <1>4, OneComes, TokensTyped, Obeys
<1>6. Uploading'
  BY <1>1, <1>3, <1>4, Obeys DEF Uploading, Within, HttpTypes, Sessions
<1> QED
  BY <1>1, <1>2, <1>4, <1>5, <1>6, Obeys DEF Fine, AtPayload

\* The modem never waits for data that do not come.
LEMMA NoDataTimeout == HttpTypes /\ Fine => ~ModemDataTimeout
<1> SUFFICES ASSUME HttpTypes, Fine, mode = "data", step \notin {"data", "payload"} PROVE FALSE
  BY DEF ModemDataTimeout
<1> QED
  BY DEF Fine, AtRest, Asking, Apart, AtInit, AtUrl, AtContent, AtAction, AtRead, AtReadRest, AtCleanup, Rests,
         HttpTypes, Steps

LEMMA FineModemAction == HttpTypes /\ Fine /\ ModemAction => Fine'
<1> SUFFICES ASSUME HttpTypes, Fine, ModemAction PROVE Fine'
  OBVIOUS
<1>1. Obeyed /\ Head(inbox).cmd = "action" /\ UNCHANGED <<mode, pdp>> /\ pdp = TRUE
  BY DEF ModemAction, InboxIs, Fine
<1>2. step = "action" /\ waiting /\ inbox = <<Of("action")>> /\ inbox' = <<>> /\ Head(inbox) = Of("action")
  BY <1>1, InboxHolds, Obeys DEF Of, Before
<1>3. Within /\ Addressed /\ mode = "command" /\ session.pending = "none" /\ Coming \in Spare
  BY <1>2 DEF Fine, AtAction, Acts, Both, Of
<1>4. /\ Answer(<<OK>>) /\ session' = [session EXCEPT !.pending = Head(inbox).arg]
  BY <1>3 DEF ModemAction, Ready, Within
<1>5. session.url = call.n
  BY <1>2, <1>3 DEF Addressed, Queued, Of
<1>6. session'.pending = call.op /\ session'.url = call.n /\ session'.open
  BY <1>2, <1>3, <1>4, <1>5 DEF HttpTypes, Sessions, Of, Within
<1>7. Coming' \in {<<OK>>, <<OK, OK>>}
  BY <1>1, <1>3, <1>4, OneComes, TokensTyped, Obeys DEF Spare
<1>8. Acts'
  BY <1>1, <1>2, <1>6, <1>7, Obeys DEF Acts
<1> QED
  BY <1>1, <1>2, <1>3, <1>6, <1>8, Obeys DEF Fine, AtAction, Within, Addressed

\* The server answers.
LEMMA FineActionEnds == HttpTypes /\ Fine /\ ActionEnds /\ trouble' = FALSE => Fine'
<1> SUFFICES ASSUME HttpTypes, Fine, ActionEnds, trouble' = FALSE PROVE Fine'
  OBVIOUS
<1>1. PICK status \in Statuses : ActionEndsWith(status)
  BY ActionEndsAs
<1>2. /\ session.pending # "none" /\ Answer(<<Tok("+HTTPACTION", status)>>)
      /\ session' = [session EXCEPT !.pending = "none", !.body = IF status = 200 THEN session.url ELSE Nothing]
      /\ UNCHANGED <<step, waiting, call, inited, raw, result, rx, inbox, mode, pdp>>
  BY <1>1 DEF ActionEndsWith, driver
<1>3. status # 500 /\ ~(status = 204 /\ session.pending = "GET")
  BY <1>1, Zenon DEF ActionEndsWith
<1>4. step = "action"
  BY <1>2 DEF Fine, AtRest, Asking, Apart, AtInit, AtUrl, AtContent, AtData, AtPayload, Uploading, AtRead,
              AtReadRest, AtCleanup, Rests, HttpTypes, Steps
<1>5. AtAction /\ waiting /\ inbox = <<>> /\ session.pending = call.op /\ Coming \in {<<>>, <<OK>>, <<OK, OK>>}
  BY <1>2, <1>4 DEF Fine, AtAction, Acts
<1>6. session.url = call.n
  BY <1>5 DEF AtAction, Addressed, Queued
<1>7. status \in Good
  <2>1. status \in {200, 204}
    BY <1>3 DEF Statuses
  <2>2. call.op # "POST" => status = 200
    BY <1>3, <1>5, <2>1 DEF HttpTypes, Ops
  <2> QED
    BY <2>1, <2>2 DEF Good
<1>8. /\ session'.pending = "none" /\ session'.open /\ session'.url = call.n
      /\ status = 200 => session'.body = call.n
  BY <1>2, <1>5, <1>6 DEF HttpTypes, Sessions, AtAction, Within
<1>9. Tok("+HTTPACTION", status) \in Tokens
  BY TokensTyped DEF TokenKinds
<1>10. Coming' \in {<<Tok("+HTTPACTION", status)>>, <<OK, Tok("+HTTPACTION", status)>>,
                    <<OK, OK, Tok("+HTTPACTION", status)>>}
  BY <1>2, <1>5, <1>9, OneComes
<1>11. Acts'
  BY <1>2, <1>5, <1>7, <1>8, <1>10 DEF Acts, Answered, Good
<1> QED
  BY <1>2, <1>4, <1>5, <1>8, <1>11 DEF Fine, AtAction, Within, Addressed

LEMMA FineModemRead == HttpTypes /\ Fine /\ ModemRead => Fine'
<1> SUFFICES ASSUME HttpTypes, Fine, ModemRead PROVE Fine'
  OBVIOUS
<1>1. Obeyed /\ Head(inbox).cmd = "read" /\ UNCHANGED <<session, mode, pdp>>
  BY DEF ModemRead, InboxIs, modem
<1>2. step = "read" /\ waiting /\ inbox = <<Of("read")>> /\ inbox' = <<>>
  BY <1>1, InboxHolds, Obeys DEF Of, Before
<1>3. AtRead /\ Coming = <<>> /\ raw = <<>> /\ session.open /\ session.body = call.n
  BY <1>2 DEF Fine, AtRead, Within
<1>4. call.n # Nothing /\ call.n \in Nat /\ Page(call.n) \in Seq(Tokens)
  BY <1>2, PageIs, TokensTyped DEF HttpTypes
<1>5. Answer(Page(call.n))
  BY <1>3, <1>4 DEF ModemRead, Page
<1>6. Coming' = Coming \o Page(call.n)
  BY <1>1, <1>4, <1>5, AnswerComes, Obeys
<1>7. raw' \o Coming' = Page(call.n)
  BY <1>1, <1>3, <1>4, <1>6, JoinEmpty, Obeys
<1>8. Page(call.n)' = Page(call.n)
  BY <1>1, Obeys DEF Page, Body
<1> QED
  BY <1>1, <1>2, <1>3, <1>7, <1>8, Obeys DEF Fine, AtRead, Within, Rests

-----------------------------------------------------------------------------
\* Healthy is an invariant.
LEMMA HealthyInit == HttpInit => HttpTypes /\ Healthy
  BY InitTypes, FineAtInit DEF Healthy, HttpInit

\* The history variable trouble is a flag.
LEMMA TroubleFlag ==
  ASSUME trouble \in BOOLEAN, [HttpNext]_httpVars
  PROVE  trouble' \in BOOLEAN
<1>1. NoteLate => trouble' \in BOOLEAN
  BY Zenon DEF NoteLate
<1>2. CASE UNCHANGED httpVars
  BY <1>2 DEF httpVars
<1>3. CASE Begin \/ PowerCycle \/ Cut \/ ModemDataTimeout \/ PdpLost
  BY <1>3 DEF Begin, PowerCycle, Cut, ModemDataTimeout, PdpLost
<1>4. CASE Driver
  BY <1>1, <1>4 DEF Driver, SkipTerm, SendCommand, Found, Skipped, FoundError, TimeOut, ReadRest, GetReads,
                    GetReadEnds, TermEnds, Return
<1>5. CASE ActionEnds
  <2>1. PICK status \in Statuses : ActionEndsWith(status)
    BY <1>5, ActionEndsAs
  <2> QED
    BY <2>1, Zenon DEF ActionEndsWith
<1>6. CASE Modem /\ ~ActionEnds
  BY <1>6 DEF Modem, Arrive, ModemTerm, ModemPdp, ModemInit, ModemPara, ModemData, ModemTakesData,
              ModemAction, ModemRead, Obeyed
<1> QED
  BY <1>2, <1>3, <1>4, <1>5, <1>6 DEF HttpNext

LEMMA HealthyNext == HttpTypes /\ Healthy /\ [HttpNext]_httpVars => HttpTypes' /\ Healthy'
<1> SUFFICES ASSUME HttpTypes, Healthy, [HttpNext]_httpVars PROVE Healthy'
  BY HttpTyped
<1>0. trouble' \in BOOLEAN /\ trouble \in BOOLEAN
  BY TroubleFlag DEF Healthy
<1>1. CASE UNCHANGED httpVars
  <2>1. /\ Coming' = Coming /\ trouble' = trouble
        /\ UNCHANGED <<step, waiting, call, inited, raw, result, inbox, session, mode, pdp>>
    BY <1>1 DEF httpVars, Coming
  <2> QED
    BY <1>0, <2>1, FineStays DEF Healthy
<1>2. CASE PowerCycle
  BY <1>0, <1>2, FineAfterCycle DEF Healthy
<1>3. CASE trouble'
  BY <1>0, <1>3 DEF Healthy
<1>4. ASSUME HttpNext, ~PowerCycle, trouble' = FALSE
      PROVE  Fine'
  <2>1. Begin \/ Driver \/ Modem \/ Cut \/ ModemDataTimeout \/ PdpLost
    BY <1>4 DEF HttpNext
  <2>2. Fine /\ ~Cut /\ ~PdpLost
    BY <1>4, <2>1, TroubleStays DEF Healthy
  <2>3. CASE Begin
    BY <2>2, <2>3, FineBegin
  <2>4. CASE Driver
    BY <1>4, <2>2, <2>4, FineSkipTerm, FineSend, FineFound, FineSkipped, NoError, NoTimeOut, FineReadRest,
       FineGetReads, FineGetReadEnds, FineTermEnds, FineReturn DEF Driver
  <2>5. CASE Arrive
    <3>1. UNCHANGED <<step, waiting, call, inited, raw, result, inbox, session, mode, pdp>>
      BY <2>5 DEF Arrive, driver, modem
    <3> QED
      BY <2>2, <2>5, <3>1, ArriveKeeps, FineStays
  <2>6. CASE Modem /\ ~Arrive
    BY <1>4, <2>2, <2>6, FineModemTerm, FineModemPdp, FineModemInit, FineModemUrl, FineModemContent,
       FineModemData, FineModemTakesData, FineModemAction, FineActionEnds, FineModemRead DEF Modem, ModemPara
  <2>7. ~ModemDataTimeout
    BY <2>2, NoDataTimeout
  <2> QED
    BY <2>1, <2>2, <2>3, <2>4, <2>5, <2>6, <2>7
<1> QED
  BY <1>0, <1>1, <1>2, <1>3, <1>4 DEF Healthy

\* While the modem answers in time and the server as it should, no call fails, for any number
\* of calls and whatever went wrong before the modem was last powered on.
THEOREM HealthyCalls == HttpSpec => []HealthyCallsSucceed
<1>1. Healthy => HealthyCallsSucceed
  BY DEF Healthy, Fine, HealthyCallsSucceed
<1> QED
  BY <1>1, HealthyInit, HealthyNext, PTL DEF HttpSpec


-----------------------------------------------------------------------------
(* A modem that has taken up each command before its wait ended since it   *)
(* was powered on, however late the server answers and whatever is cut or  *)
(* fails, and however slow it was before.                                  *)

\* The kinds of the tokens of a sequence, and of those that are coming.
KindsOf(s) == [i \in 1 .. Len(s) |-> s[i].kind]
Line == KindsOf(Coming)

\* What may be left of earlier commands when a step begins, and the one not yet taken up.
Old(s) ==
  CASE s = "activate" -> {<<>>, <<"OK">>, <<"ERROR">>, <<"+CGACT">>, <<"+CGACT", "OK">>}
    [] s = "init" -> {<<>>, <<"OK">>, <<"+CGPADDR">>, <<"+CGPADDR", "OK">>}
    [] s \in {"content", "data"} -> {<<>>, <<"OK">>}
    [] s = "action" -> IF call.op = "GET" THEN {<<>>, <<"OK">>} ELSE {<<>>}
    [] s = "cleanup" -> {<<>>, <<"OK">>, <<"ERROR">>, <<"+HTTPACTION">>}
    [] OTHER -> {<<>>, <<"OK">>, <<"ERROR">>}

Earlier(s) ==
  CASE s \in {"term", "cgact"} -> {"activate", "term"}
    [] s = "activate" -> {"cgact"}
    [] s = "cgpaddr" -> {"activate"}
    [] s = "init" -> {"cgpaddr"}
    [] s = "url" -> {"init"}
    [] s = "data" -> {"content"}
    [] s = "action" -> IF call.op = "GET" THEN {"url"} ELSE {}
    [] OTHER -> {"url"}

\* What may be coming once a step's own command has been answered.
Due(s) ==
  CASE s = "cgact" ->
         {<<>>, <<"OK">>, <<"ERROR">>, <<"+CGACT">>, <<"OK", "OK">>, <<"ERROR", "OK">>,
          <<"OK", "+CGACT">>, <<"ERROR", "+CGACT">>, <<"+CGACT", "OK">>,
          <<"OK", "+CGACT", "OK">>, <<"ERROR", "+CGACT", "OK">>}
    [] s = "activate" ->
         {<<>>, <<"OK">>, <<"ERROR">>, <<"+CGACT">>, <<"OK", "OK">>, <<"OK", "ERROR">>,
          <<"ERROR", "OK">>, <<"ERROR", "ERROR">>, <<"+CGACT", "OK">>, <<"+CGACT", "ERROR">>,
          <<"+CGACT", "OK", "OK">>, <<"+CGACT", "OK", "ERROR">>}
    [] s = "cgpaddr" ->
         {<<>>, <<"OK">>, <<"ERROR">>, <<"+CGPADDR">>, <<"OK", "OK">>, <<"ERROR", "OK">>,
          <<"OK", "+CGPADDR">>, <<"ERROR", "+CGPADDR">>, <<"+CGPADDR", "OK">>,
          <<"OK", "+CGPADDR", "OK">>, <<"ERROR", "+CGPADDR", "OK">>}
    [] s = "init" ->
         {<<>>, <<"OK">>, <<"ERROR">>, <<"+CGPADDR">>, <<"OK", "OK">>, <<"OK", "ERROR">>,
          <<"+CGPADDR", "OK">>, <<"+CGPADDR", "ERROR">>,
          <<"+CGPADDR", "OK", "OK">>, <<"+CGPADDR", "OK", "ERROR">>}
    [] s = "url" -> {<<>>, <<"OK">>, <<"ERROR">>, <<"OK", "OK">>, <<"ERROR", "OK">>}
    [] s = "content" -> {<<>>, <<"OK">>, <<"OK", "OK">>}
    [] s = "data" -> {<<>>, <<"OK">>, <<"DOWNLOAD">>, <<"OK", "DOWNLOAD">>}
    [] s = "action" -> {<<>>, <<"OK">>, <<"OK", "OK">>, <<"+HTTPACTION">>, <<"OK", "+HTTPACTION">>,
                        <<"OK", "OK", "+HTTPACTION">>}
    [] s = "cleanup" -> {<<>>, <<"OK">>, <<"ERROR">>, <<"OK", "OK">>, <<"OK", "ERROR">>, <<"ERROR", "OK">>,
                         <<"ERROR", "ERROR">>, <<"+HTTPACTION", "OK">>, <<"+HTTPACTION", "ERROR">>}

\* Driver and modem in step s: at most one earlier command is not yet taken up.
InTurn(s) ==
  IF waiting
  THEN \/ \E c \in Commands : inbox = <<c, Of(s)>> /\ c.cmd \in Earlier(s) /\ Line = <<>>
       \/ inbox = <<Of(s)>> /\ Line \in Old(s)
       \/ inbox = <<>> /\ Line \in Due(s)
  ELSE \/ \E c \in Commands : inbox = <<c>> /\ c.cmd \in Earlier(s) /\ Line = <<>>
       \/ inbox = <<>> /\ Line \in Old(s)

\* The modem takes what comes for data, still waiting for those of a call that gave up.
Deaf(s) ==
  /\ mode = "data" /\ session.pending = "none" /\ Line = <<>>
  /\ inbox = <<>> \/ (waiting /\ inbox = <<Of(s)>>)

\* The URL is this call's, or is on its way.
Aimed ==
  IF inbox # <<>> /\ Head(inbox).cmd = "url" THEN Head(inbox).arg = call.n ELSE session.url = call.n

InTurnOrDeaf(s) == (Rests /\ InTurn(s)) \/ Deaf(s)

\* A part of a page.
Paged(l) == \A i \in 1 .. Len(l) : l[i] # "ERROR" /\ (l[i] = "OK" => i = Len(l))

\* A +HTTPACTION on its way is about this call.
Told(t) ==
  t.kind = "+HTTPACTION" =>
    /\ call.op = "POST" /\ Is2xx(t.arg) => call.n \in server
    /\ t.arg = 200 => session.body = call.n

OwnAnswers == \A i \in 1 .. Len(Coming) : Told(Coming[i])

TurnInit == Rests /\ InTurn("init") /\ (waiting /\ inbox = <<>> => session.open)

TurnUrl ==
  /\ Rests /\ InTurn("url")
  /\ session.open \/ Queued("init")
  /\ waiting => inbox # <<>> \/ session.url = call.n

TurnContent == Rests /\ session.open /\ Aimed /\ InTurn("content")

TurnData ==
  /\ session.open /\ session.pending = "none" /\ session.url = call.n /\ InTurn("data")
  /\ IF waiting /\ inbox = <<>> THEN mode = "data" /\ session.data = Nothing ELSE mode = "command"

TurnPayload ==
  /\ session.open /\ session.pending = "none" /\ session.url = call.n
  /\ \/ /\ inbox = IF waiting THEN <<Of("payload")>> ELSE <<>>
        /\ Line = <<>> /\ mode = "data" /\ session.data = Nothing
     \/ /\ waiting /\ inbox = <<>>
        /\ Line \in {<<>>, <<"OK">>} /\ mode = "command" /\ session.data = call.n

TurnAction ==
  /\ session.open /\ mode = "command" /\ Aimed /\ InTurn("action")
  /\ call.op = "POST" => session.data = call.n
  /\ session.pending \in {"none", call.op}
  /\ session.pending # "none" => waiting /\ inbox = <<>> /\ Line \in {<<>>, <<"OK">>, <<"OK", "OK">>}
  /\ OwnAnswers

TurnRead ==
  /\ Rests /\ session.open /\ session.body = call.n
  /\ IF waiting /\ inbox = <<>>
     THEN IF call.op = "GET" THEN raw \o Coming = Page(call.n) ELSE Paged(Line)
     ELSE inbox = (IF waiting THEN <<Of("read")>> ELSE <<>>) /\ Line = <<>> /\ raw = <<>>

\* After a call that gave up its HTTPACTION, the server may still answer it.
TurnCleanup ==
  \/ InTurnOrDeaf("cleanup")
  \/ /\ mode = "command" /\ Line = <<>>
     /\ inbox = IF waiting THEN <<Of("cleanup")>> ELSE <<>>

Turns ==
  /\ step \in {"idle", "term", "return"} => ~waiting /\ InTurnOrDeaf("term")
  /\ step = "cgact" => InTurnOrDeaf("cgact")
  /\ step = "activate" => InTurnOrDeaf("activate")
  /\ step = "cgpaddr" => Rests /\ InTurn("cgpaddr")
  /\ step = "init" => TurnInit
  /\ step = "url" => TurnUrl
  /\ step = "content" => TurnContent /\ call.op = "POST"
  /\ step = "data" => TurnData /\ call.op = "POST"
  /\ step = "payload" => TurnPayload /\ call.op = "POST"
  /\ step = "action" => TurnAction
  /\ step = "read" => TurnRead
  /\ step = "readRest" => Rests /\ inbox = <<>> /\ Paged(Line) /\ call.op = "POST"
  /\ step = "cleanup" => TurnCleanup

\* http_inited_ is set from HTTPINIT to the end of the call.
Initialized ==
  inited <=> step \in {"url", "content", "data", "payload", "action", "read", "readRest", "cleanup"}

\* A call that will return true has done what it was to do.
Earned ==
  result /\ step # "idle" =>
    IF call.op = "POST"
    THEN step \in {"read", "readRest", "cleanup", "return"} /\ call.n \in server
    ELSE step \in {"cleanup", "return"} /\ response = Body(call.n)

-----------------------------------------------------------------------------
(* Kinds.                                                                  *)

\* The kinds of short and of joined sequences.
LEMMA KindsTyped ==
  ASSUME NEW s \in Seq(Tokens)
  PROVE  /\ KindsOf(s) \in Seq(TokenKinds) /\ Len(KindsOf(s)) = Len(s)
         /\ \A i \in 1 .. Len(s) : KindsOf(s)[i] = s[i].kind
         /\ KindsOf(s) = <<>> <=> s = <<>>
<1>0. Len(s) \in Nat /\ \A i \in 1 .. Len(s) : s[i] \in Tokens
  BY LenProperties, ElementOfSeq
<1>1. Len(s) \in Nat /\ \A i \in 1 .. Len(s) : s[i] \in Tokens /\ s[i].kind \in TokenKinds
  BY <1>0 DEF Tokens
<1>2. KindsOf(s) \in Seq(TokenKinds) /\ Len(KindsOf(s)) = Len(s)
  BY <1>1 DEF KindsOf
<1>3. KindsOf(s) = <<>> => s = <<>>
  BY <1>2, EmptySeq
<1>4. s = <<>> => KindsOf(s) = <<>>
  BY <1>2, EmptySeq
<1> QED
  BY <1>1, <1>2, <1>3, <1>4 DEF KindsOf

\* The kinds of two sequences joined.
LEMMA KindsJoined ==
  ASSUME NEW r \in Seq(Tokens), NEW w \in Seq(Tokens)
  PROVE  KindsOf(r \o w) = KindsOf(r) \o KindsOf(w)
<1>1. r \o w \in Seq(Tokens) /\ Len(r \o w) = Len(r) + Len(w) /\ Len(r) \in Nat /\ Len(w) \in Nat
  BY Parts
<1> DEFINE l == KindsOf(r \o w)
           m == KindsOf(r) \o KindsOf(w)
<1>2. l \in Seq(TokenKinds) /\ Len(l) = Len(r) + Len(w)
  BY <1>1, KindsTyped
<1>3. /\ KindsOf(r) \in Seq(TokenKinds) /\ KindsOf(w) \in Seq(TokenKinds)
      /\ Len(KindsOf(r)) = Len(r) /\ Len(KindsOf(w)) = Len(w)
  BY KindsTyped
<1>4. m \in Seq(TokenKinds) /\ Len(m) = Len(r) + Len(w)
  <2>1. m \in Seq(TokenKinds) /\ Len(m) = Len(KindsOf(r)) + Len(KindsOf(w))
    BY <1>3, Parts, Zenon
  <2> QED
    BY <1>3, <2>1
<1>5. ASSUME NEW i \in 1 .. Len(l) PROVE l[i] = m[i]
  <2>1. i \in 1 .. Len(r) + Len(w) /\ l[i] = (r \o w)[i].kind
    BY <1>1, <1>2, <1>5, KindsTyped
  <2>2. CASE i <= Len(r)
    <3>1. i \in 1 .. Len(r)
      BY <1>1, <2>1, <2>2
    <3>2. (r \o w)[i] = r[i] /\ m[i] = KindsOf(r)[i] /\ KindsOf(r)[i] = r[i].kind
      BY <1>3, <3>1, Parts, KindsTyped
    <3> QED
      BY <2>1, <3>2
  <2>3. CASE ~(i <= Len(r))
    <3>1. PICK j \in 1 .. Len(w) : i = Len(r) + j
      BY <1>1, <2>1, <2>3
    <3>2. (r \o w)[i] = w[j] /\ m[i] = KindsOf(w)[j] /\ KindsOf(w)[j] = w[j].kind
      BY <1>3, <3>1, Parts, KindsTyped
    <3> QED
      BY <2>1, <3>2
  <2> QED
    BY <2>2, <2>3
<1> HIDE DEF l, m
<1>6. l = m
  BY <1>2, <1>4, <1>5, SeqEqual
<1> QED
  BY <1>6 DEF l, m

\* Whether a token of a kind is among some.
Hears(l, k) == \E i \in 1 .. Len(l) : l[i] = k

\* A chunk has a token of a kind when its kinds do.
LEMMA HearsKinds ==
  ASSUME NEW s \in Seq(Tokens), NEW k
  PROVE  Has(s, k) <=> Hears(KindsOf(s), k)
<1>1. DOMAIN s = 1 .. Len(s) /\ Len(KindsOf(s)) = Len(s) /\ \A i \in 1 .. Len(s) : KindsOf(s)[i] = s[i].kind
  BY LenProperties, KindsTyped
<1> QED
  BY <1>1 DEF Has, Hears

\* The kinds heard in short lines.
LEMMA HearsShort ==
  ASSUME NEW k
  PROVE  /\ ~Hears(<<>>, k)
         /\ \A a : Hears(<<a>>, k) <=> a = k
         /\ \A a, b : Hears(<<a, b>>, k) <=> a = k \/ b = k
         /\ \A a, b, c : Hears(<<a, b, c>>, k) <=> a = k \/ b = k \/ c = k
<1>1. ~Hears(<<>>, k)
  BY DEF Hears
<1>2. ASSUME NEW a PROVE Hears(<<a>>, k) <=> a = k
  BY DEF Hears
<1>3. ASSUME NEW a, NEW b PROVE Hears(<<a, b>>, k) <=> a = k \/ b = k
  BY DEF Hears
<1>4. ASSUME NEW a, NEW b, NEW c PROVE Hears(<<a, b, c>>, k) <=> a = k \/ b = k \/ c = k
  BY DEF Hears
<1> QED
  BY <1>1, <1>2, <1>3, <1>4

\* A line is what is in the buffer, then what is on the wire.
LEMMA LineIs ==
  ASSUME HttpTypes
  PROVE  /\ KindsOf(rx) \in Seq(TokenKinds) /\ KindsOf(wire) \in Seq(TokenKinds)
         /\ Line = KindsOf(rx) \o KindsOf(wire)
         /\ KindsOf(rx) = <<>> <=> rx = <<>>
         /\ KindsOf(wire) = <<>> <=> wire = <<>>
         /\ \A k : Has(rx, k) <=> Hears(KindsOf(rx), k)
<1>1. rx \in Seq(Tokens) /\ wire \in Seq(Tokens)
  BY DEF HttpTypes
<1> QED
  BY <1>1, KindsTyped, KindsJoined, HearsKinds DEF Line, Coming

\* What is left of lines of up to three tokens by a driver that has read the first of them, and by
\* a token that was cut.
Cuts(l, r, w) ==
  /\ l = <<>> => r = <<>> /\ w = <<>>
  /\ \A a : l = <<a>> =>
       \/ r = <<>> /\ w = <<a>> /\ r \o Tail(w) = <<>>
       \/ r = <<a>> /\ w = <<>>
  /\ \A a, b : l = <<a, b>> =>
       \/ r = <<>> /\ w = <<a, b>> /\ r \o Tail(w) = <<b>>
       \/ r = <<a>> /\ w = <<b>> /\ r \o Tail(w) = <<a>>
       \/ r = <<a, b>> /\ w = <<>>
  /\ \A a, b, c : l = <<a, b, c>> =>
       \/ r = <<>> /\ w = <<a, b, c>> /\ r \o Tail(w) = <<b, c>>
       \/ r = <<a>> /\ w = <<b, c>> /\ r \o Tail(w) = <<a, c>>
       \/ r = <<a, b>> /\ w = <<c>> /\ r \o Tail(w) = <<a, b>>
       \/ r = <<a, b, c>> /\ w = <<>>

\* That is all that may be left.
LEMMA CutsAre ==
  ASSUME NEW T, NEW r \in Seq(T), NEW w \in Seq(T), NEW l, l = r \o w
  PROVE  Cuts(l, r, w)
<1>1. Parted(l, r, w)
  BY Parts DEF Parted
<1>2. /\ \A a : Tail(<<a>>) = <<>>
      /\ \A a, b : Tail(<<a, b>>) = <<b>>
      /\ \A a, b, c : Tail(<<a, b, c>>) = <<b, c>>
  OBVIOUS
<1>3. ASSUME NEW a, l = <<a>>
      PROVE  \/ r = <<>> /\ w = <<a>> /\ r \o Tail(w) = <<>>
             \/ r = <<a>> /\ w = <<>>
  <2>1. (r = <<>> /\ w = <<a>>) \/ (r = <<a>> /\ w = <<>>)
    BY <1>1, <1>3, Splits
  <2>2. <<>> \o <<>> = <<>>
    BY JoinEmpty
  <2> QED
    BY <1>2, <2>1, <2>2
<1>4. ASSUME NEW a, NEW b, l = <<a, b>>
      PROVE  \/ r = <<>> /\ w = <<a, b>> /\ r \o Tail(w) = <<b>>
             \/ r = <<a>> /\ w = <<b>> /\ r \o Tail(w) = <<a>>
             \/ r = <<a, b>> /\ w = <<>>
  <2>1. \/ r = <<>> /\ w = <<a, b>>
        \/ r = <<a>> /\ w = <<b>>
        \/ r = <<a, b>> /\ w = <<>>
    BY <1>1, <1>4, Splits
  <2>2. <<>> \o <<b>> = <<b>> /\ <<a>> \o <<>> = <<a>>
    OBVIOUS
  <2> QED
    BY <1>2, <2>1, <2>2
<1>5. ASSUME NEW a, NEW b, NEW c, l = <<a, b, c>>
      PROVE  \/ r = <<>> /\ w = <<a, b, c>> /\ r \o Tail(w) = <<b, c>>
             \/ r = <<a>> /\ w = <<b, c>> /\ r \o Tail(w) = <<a, c>>
             \/ r = <<a, b>> /\ w = <<c>> /\ r \o Tail(w) = <<a, b>>
             \/ r = <<a, b, c>> /\ w = <<>>
  <2>1. \/ r = <<>> /\ w = <<a, b, c>>
        \/ r = <<a>> /\ w = <<b, c>>
        \/ r = <<a, b>> /\ w = <<c>>
        \/ r = <<a, b, c>> /\ w = <<>>
    BY <1>1, <1>5, Splits
  <2>2. <<>> \o <<b, c>> = <<b, c>> /\ <<a, b>> \o <<>> = <<a, b>>
    BY ConcatEmptySeq
  <2>3. <<a>> \o <<c>> = <<a, c>>
    <3>1. a \in {a, c} /\ c \in {a, c}
      OBVIOUS
    <3> QED
      BY <3>1, Join11
  <2>4. CASE r = <<>> /\ w = <<a, b, c>>
    BY <1>2, <2>2, <2>4
  <2>5. CASE r = <<a>> /\ w = <<b, c>>
    BY <1>2, <2>3, <2>5
  <2>6. CASE r = <<a, b>> /\ w = <<c>>
    BY <1>2, <2>2, <2>6
  <2> QED
    BY <2>1, <2>4, <2>5, <2>6
<1>6. l = <<>> => r = <<>> /\ w = <<>>
  BY <1>1, Splits
<1> QED
  BY <1>3, <1>4, <1>5, <1>6 DEF Cuts

\* What may be left, or due, is closed under reading and cutting.
Keeps(X) ==
  \A r, w \in Seq(TokenKinds) :
    r \o w \in X => w \in X /\ (w # <<>> => r \o Tail(w) \in X)

\* What may be left of earlier commands is.
LEMMA OldKeeps ==
  ASSUME NEW s
  PROVE  Keeps(Old(s))
<1> SUFFICES ASSUME NEW r \in Seq(TokenKinds), NEW w \in Seq(TokenKinds), NEW l, l = r \o w, l \in Old(s)
             PROVE  w \in Old(s) /\ (w # <<>> => r \o Tail(w) \in Old(s))
  BY DEF Keeps
<1>1. Cuts(l, r, w)
  BY CutsAre
<1>2. CASE s = "activate"
  BY <1>1, <1>2 DEF Old, Cuts
<1>3. CASE s = "init"
  BY <1>1, <1>3 DEF Old, Cuts
<1>4. CASE s \in {"content", "data", "action"}
  BY <1>1, <1>4 DEF Old, Cuts
<1>5. CASE s = "cleanup"
  BY <1>1, <1>5 DEF Old, Cuts
<1>6. CASE s \notin {"activate", "init", "content", "data", "action", "cleanup"}
  BY <1>1, <1>6 DEF Old, Cuts
<1> QED
  BY <1>2, <1>3, <1>4, <1>5, <1>6

\* So is what may be due while the driver waits.
LEMMA DueKeeps ==
  ASSUME NEW s \in {"cgact", "activate", "cgpaddr", "init", "url", "content", "data", "action"}
  PROVE  Keeps(Due(s))
<1> SUFFICES ASSUME NEW r \in Seq(TokenKinds), NEW w \in Seq(TokenKinds), NEW l, l = r \o w, l \in Due(s)
             PROVE  w \in Due(s) /\ (w # <<>> => r \o Tail(w) \in Due(s))
  BY DEF Keeps
<1>1. Cuts(l, r, w)
  BY CutsAre
<1>2. CASE s = "cgact"
  BY <1>1, <1>2 DEF Due, Cuts
<1>3. CASE s = "activate"
  BY <1>1, <1>3 DEF Due, Cuts
<1>4. CASE s = "cgpaddr"
  BY <1>1, <1>4 DEF Due, Cuts
<1>5. CASE s = "init"
  BY <1>1, <1>5 DEF Due, Cuts
<1>6. CASE s = "url"
  BY <1>1, <1>6 DEF Due, Cuts
<1>7. CASE s = "content"
  BY <1>1, <1>7 DEF Due, Cuts
<1>8. CASE s = "data"
  BY <1>1, <1>8 DEF Due, Cuts
<1>9. CASE s = "action"
  BY <1>1, <1>9 DEF Due, Cuts
<1> QED
  BY <1>2, <1>3, <1>4, <1>5, <1>6, <1>7, <1>8, <1>9

\* The same lines, with what has been heard of each.
HeardOf(l, r, w) ==
  /\ l = <<>> => w = <<>> /\ \A k : ~Hears(r, k)
  /\ \A a : l = <<a>> =>
       \/ w = <<a>> /\ \A k : ~Hears(r, k)
       \/ w = <<>> /\ \A k : Hears(r, k) <=> k = a
  /\ \A a, b : l = <<a, b>> =>
       \/ w = <<a, b>> /\ \A k : ~Hears(r, k)
       \/ w = <<b>> /\ \A k : Hears(r, k) <=> k = a
       \/ w = <<>> /\ \A k : Hears(r, k) <=> k = a \/ k = b
  /\ \A a, b, c : l = <<a, b, c>> =>
       \/ w = <<a, b, c>> /\ \A k : ~Hears(r, k)
       \/ w = <<b, c>> /\ \A k : Hears(r, k) <=> k = a
       \/ w = <<c>> /\ \A k : Hears(r, k) <=> k = a \/ k = b
       \/ w = <<>> /\ \A k : Hears(r, k) <=> k = a \/ k = b \/ k = c

\* Whatever the chunk, it is heard so.
LEMMA HeardIs ==
  ASSUME NEW T, NEW r \in Seq(T), NEW w \in Seq(T), NEW l, l = r \o w
  PROVE  HeardOf(l, r, w)
<1>1. Cuts(l, r, w)
  BY CutsAre
<1>2. ASSUME NEW k
      PROVE  /\ r = <<>> => ~Hears(r, k)
             /\ \A a : r = <<a>> => (Hears(r, k) <=> k = a)
             /\ \A a, b : r = <<a, b>> => (Hears(r, k) <=> k = a \/ k = b)
             /\ \A a, b, c : r = <<a, b, c>> => (Hears(r, k) <=> k = a \/ k = b \/ k = c)
  <2>1. r = <<>> => ~Hears(r, k)
    BY HearsShort
  <2>2. ASSUME NEW a, r = <<a>> PROVE Hears(r, k) <=> k = a
    BY <2>2, HearsShort
  <2>3. ASSUME NEW a, NEW b, r = <<a, b>> PROVE Hears(r, k) <=> k = a \/ k = b
    <3>1. Hears(<<a, b>>, k) <=> a = k \/ b = k
      BY HearsShort
    <3> QED
      BY <2>3, <3>1
  <2>4. ASSUME NEW a, NEW b, NEW c, r = <<a, b, c>> PROVE Hears(r, k) <=> k = a \/ k = b \/ k = c
    <3>1. Hears(<<a, b, c>>, k) <=> a = k \/ b = k \/ c = k
      BY DEF Hears
    <3> QED
      BY <2>4, <3>1
  <2> QED
    BY <2>1, <2>2, <2>3, <2>4
<1>3. l = <<>> => w = <<>> /\ \A k : ~Hears(r, k)
  BY <1>1, <1>2 DEF Cuts
<1>4. ASSUME NEW a, l = <<a>>
      PROVE  \/ w = <<a>> /\ \A k : ~Hears(r, k)
             \/ w = <<>> /\ \A k : Hears(r, k) <=> k = a
  BY <1>1, <1>2, <1>4 DEF Cuts
<1>5. ASSUME NEW a, NEW b, l = <<a, b>>
      PROVE  \/ w = <<a, b>> /\ \A k : ~Hears(r, k)
             \/ w = <<b>> /\ \A k : Hears(r, k) <=> k = a
             \/ w = <<>> /\ \A k : Hears(r, k) <=> k = a \/ k = b
  BY <1>1, <1>2, <1>5 DEF Cuts
<1>6. ASSUME NEW a, NEW b, NEW c, l = <<a, b, c>>
      PROVE  \/ w = <<a, b, c>> /\ \A k : ~Hears(r, k)
             \/ w = <<b, c>> /\ \A k : Hears(r, k) <=> k = a
             \/ w = <<c>> /\ \A k : Hears(r, k) <=> k = a \/ k = b
             \/ w = <<>> /\ \A k : Hears(r, k) <=> k = a \/ k = b \/ k = c
  BY <1>1, <1>2, <1>6 DEF Cuts
<1> QED
  BY <1>3, <1>4, <1>5, <1>6 DEF HeardOf

\* What is left when the driver has found what a step expects, or else an ERROR.
LEMMA FoundLeaves ==
  ASSUME NEW r \in Seq(TokenKinds), NEW w \in Seq(TokenKinds), NEW l, l = r \o w
  PROVE  /\ l \in Due("cgact") /\ Hears(r, "+CGACT") => w \in {<<>>, <<"OK">>}
         /\ l \in Due("activate") /\ Hears(r, "OK") => w \in {<<>>, <<"OK">>, <<"ERROR">>}
         /\ l \in Due("cgpaddr") /\ Hears(r, "+CGPADDR") => w \in {<<>>, <<"OK">>}
         /\ l \in Due("init") /\ Hears(r, "OK") => w \in {<<>>, <<"OK">>, <<"ERROR">>}
         /\ l \in Due("url") /\ Hears(r, "OK") => w \in {<<>>, <<"OK">>}
         /\ l \in Due("content") /\ Hears(r, "OK") => w \in {<<>>, <<"OK">>}
         /\ l \in Due("data") /\ Hears(r, "DOWNLOAD") => w = <<>>
         /\ l \in Due("action") /\ Hears(r, "+HTTPACTION") => w = <<>>
<1>1. HeardOf(l, r, w)
  BY HeardIs
<1>2. l \in Due("cgact") /\ Hears(r, "+CGACT") => w \in {<<>>, <<"OK">>}
  BY <1>1 DEF Due, HeardOf
<1>3. l \in Due("activate") /\ Hears(r, "OK") => w \in {<<>>, <<"OK">>, <<"ERROR">>}
  BY <1>1 DEF Due, HeardOf
<1>4. l \in Due("cgpaddr") /\ Hears(r, "+CGPADDR") => w \in {<<>>, <<"OK">>}
  BY <1>1 DEF Due, HeardOf
<1>5. l \in Due("init") /\ Hears(r, "OK") => w \in {<<>>, <<"OK">>, <<"ERROR">>}
  BY <1>1 DEF Due, HeardOf
<1>6. l \in Due("url") /\ Hears(r, "OK") => w \in {<<>>, <<"OK">>}
  BY <1>1 DEF Due, HeardOf
<1>7. l \in Due("content") /\ Hears(r, "OK") => w \in {<<>>, <<"OK">>}
  BY <1>1 DEF Due, HeardOf
<1>8. l \in Due("data") /\ Hears(r, "DOWNLOAD") => w = <<>>
  BY <1>1 DEF Due, HeardOf
<1>9. l \in Due("action") /\ Hears(r, "+HTTPACTION") => w = <<>>
  BY <1>1 DEF Due, HeardOf
<1> QED
  BY <1>2, <1>3, <1>4, <1>5, <1>6, <1>7, <1>8, <1>9

\* What is left when the driver has read an ERROR, and not what it waits for.
LEMMA ErrorLeaves ==
  ASSUME NEW r \in Seq(TokenKinds), NEW w \in Seq(TokenKinds), NEW l, l = r \o w, Hears(r, "ERROR")
  PROVE  /\ l \in Due("cgact") /\ ~Hears(r, "+CGACT") => w \in {<<>>, <<"OK">>, <<"+CGACT">>, <<"+CGACT", "OK">>}
         /\ l \in Due("activate") /\ ~Hears(r, "OK") => w \in {<<>>, <<"OK">>, <<"ERROR">>}
         /\ l \in Due("cgpaddr") /\ ~Hears(r, "+CGPADDR") =>
              w \in {<<>>, <<"OK">>, <<"+CGPADDR">>, <<"+CGPADDR", "OK">>}
         /\ l \in Due("init") /\ ~Hears(r, "OK") => w = <<>>
         /\ l \in Due("url") /\ ~Hears(r, "OK") => w \in {<<>>, <<"OK">>}
         /\ l \notin Due("content") /\ l \notin Due("data") /\ l \notin Due("action")
<1>1. HeardOf(l, r, w)
  BY HeardIs
<1>2. l \in Due("cgact") /\ ~Hears(r, "+CGACT") => w \in {<<>>, <<"OK">>, <<"+CGACT">>, <<"+CGACT", "OK">>}
  BY <1>1 DEF Due, HeardOf
<1>3. l \in Due("activate") /\ ~Hears(r, "OK") => w \in {<<>>, <<"OK">>, <<"ERROR">>}
  BY <1>1 DEF Due, HeardOf
<1>4. l \in Due("cgpaddr") /\ ~Hears(r, "+CGPADDR") =>
        w \in {<<>>, <<"OK">>, <<"+CGPADDR">>, <<"+CGPADDR", "OK">>}
  BY <1>1 DEF Due, HeardOf
<1>5. l \in Due("init") /\ ~Hears(r, "OK") => w = <<>>
  BY <1>1 DEF Due, HeardOf
<1>6. l \in Due("url") /\ ~Hears(r, "OK") => w \in {<<>>, <<"OK">>}
  BY <1>1 DEF Due, HeardOf
<1>7. l \notin Due("content") /\ l \notin Due("data") /\ l \notin Due("action")
  BY <1>1 DEF Due, HeardOf
<1> QED
  BY <1>2, <1>3, <1>4, <1>5, <1>6, <1>7

\* The answer to an earlier command is found whole, and is not one that only the own command has.
LEMMA EarlyLeaves ==
  ASSUME NEW r \in Seq(TokenKinds), NEW w \in Seq(TokenKinds), NEW s, r \o w \in Old(s)
  PROVE  /\ Hears(r, "OK") \/ Hears(r, "ERROR") => w = <<>>
         /\ s \in {"init", "content", "data", "action"} => ~Hears(r, "ERROR")
         /\ s = "cgact" => ~Hears(r, "+CGACT")
         /\ s # "init" => ~Hears(r, "+CGPADDR")
         /\ s # "cleanup" => ~Hears(r, "+HTTPACTION")
         /\ ~Hears(r, "DOWNLOAD")
<1> DEFINE l == r \o w
<1>1. HeardOf(l, r, w)
  BY HeardIs
<1>2. l \in Old(s)
  OBVIOUS
<1> HIDE DEF l
<1>3. CASE s = "activate"
  BY <1>1, <1>2, <1>3 DEF Old, HeardOf
<1>4. CASE s = "init"
  BY <1>1, <1>2, <1>4 DEF Old, HeardOf
<1>5. CASE s \in {"content", "data", "action"}
  BY <1>1, <1>2, <1>5 DEF Old, HeardOf
<1>6. CASE s = "cleanup"
  BY <1>1, <1>2, <1>6 DEF Old, HeardOf
<1>7. CASE s \notin {"activate", "init", "content", "data", "action", "cleanup"}
  BY <1>1, <1>2, <1>7 DEF Old, HeardOf
<1> QED
  BY <1>3, <1>4, <1>5, <1>6, <1>7

\* A part of a page that is read or cut is still one.
LEMMA PagedKeeps == Keeps({l \in Seq(TokenKinds) : Paged(l)})
<1> SUFFICES ASSUME NEW r \in Seq(TokenKinds), NEW w \in Seq(TokenKinds), Paged(r \o w)
             PROVE  /\ Paged(w)
                    /\ w # <<>> => r \o Tail(w) \in Seq(TokenKinds) /\ Paged(r \o Tail(w))
  BY DEF Keeps
<1> DEFINE l == r \o w
<1>1. /\ l \in Seq(TokenKinds) /\ Len(l) = Len(r) + Len(w) /\ Len(r) \in Nat /\ Len(w) \in Nat
      /\ \A i \in 1 .. Len(r) : l[i] = r[i]
      /\ \A i \in 1 .. Len(w) : l[Len(r) + i] = w[i]
      /\ Paged(l)
  BY Parts
<1> HIDE DEF l
<1>2. ASSUME NEW i \in 1 .. Len(w) PROVE w[i] # "ERROR" /\ (w[i] = "OK" => i = Len(w))
  <2>1. Len(r) + i \in 1 .. Len(l) /\ l[Len(r) + i] = w[i] /\ (Len(r) + i = Len(l) => i = Len(w))
    BY <1>1
  <2> QED
    BY <1>1, <2>1 DEF Paged
<1>3. ASSUME w # <<>> PROVE r \o Tail(w) \in Seq(TokenKinds) /\ Paged(r \o Tail(w))
  <2> DEFINE t == Tail(w)
             m == r \o t
  <2>1. t \in Seq(TokenKinds) /\ Len(t) = Len(w) - 1 /\ \A i \in 1 .. Len(t) : t[i] = w[i + 1]
    BY <1>3
  <2>0. t \in Seq(TokenKinds)
    BY <2>1
  <2> HIDE DEF t
  <2>2. /\ m \in Seq(TokenKinds) /\ Len(m) = Len(r) + Len(t) /\ Len(t) \in Nat
        /\ \A i \in 1 .. Len(r) : m[i] = r[i]
        /\ \A i \in 1 .. Len(t) : m[Len(r) + i] = t[i]
    BY <2>0, Parts
  <2> HIDE DEF m
  <2>3. ASSUME NEW i \in 1 .. Len(m) PROVE m[i] # "ERROR" /\ (m[i] = "OK" => i = Len(m))
    <3>1. CASE i <= Len(r)
      <4>1. i \in 1 .. Len(r) /\ i \in 1 .. Len(l) /\ i # Len(l) /\ m[i] = l[i]
        BY <1>1, <2>1, <2>2, <2>3, <3>1
      <4> QED
        BY <1>1, <4>1 DEF Paged
    <3>2. CASE ~(i <= Len(r))
      <4>0. Len(m) = Len(r) + Len(t) /\ Len(r) \in Nat /\ Len(t) \in Nat /\ Len(w) = Len(t) + 1
        BY <1>1, <2>1, <2>2
      <4>1. PICK j \in 1 .. Len(t) : i = Len(r) + j
        <5>1. i - Len(r) \in 1 .. Len(t) /\ i = Len(r) + (i - Len(r))
          BY <2>3, <3>2, <4>0
        <5> QED
          BY <5>1
      <4>2. m[i] = t[j] /\ t[j] = w[j + 1]
        BY <2>1, <2>2, <4>1
      <4>3. j + 1 \in 1 .. Len(w) /\ (j + 1 = Len(w) => i = Len(m))
        BY <4>0, <4>1
      <4> QED
        BY <1>2, <4>2, <4>3
    <3> QED
      BY <3>1, <3>2
  <2> QED
    BY <2>2, <2>3 DEF Paged, m, t
<1> QED
  BY <1>2, <1>3 DEF Paged

\* A chunk that is read or a token that is cut leaves less coming.
Shrinks ==
  /\ Line = <<>> => Line' = <<>>
  /\ \A X : Keeps(X) /\ Line \in X => Line' \in X
  /\ \A i \in 1 .. Len(Coming') : \E j \in 1 .. Len(Coming) : Coming'[i] = Coming[j]

\* A chunk that is read.
LEMMA ReadShrinks ==
  ASSUME HttpTypes, rx' = <<>>, wire' = wire
  PROVE  Shrinks /\ Line' = KindsOf(wire)
<1>1. rx \in Seq(Tokens) /\ wire \in Seq(Tokens) /\ Coming' = wire
  BY Flushed DEF HttpTypes
<1>2. Line' = KindsOf(wire)
  BY <1>1 DEF Line
<1>3. Line = <<>> => Line' = <<>>
  <2>1. Coming \in Seq(Tokens)
    BY ComingTyped
  <2> QED
    BY <1>1, <1>2, <2>1, ComingSplits, KindsTyped DEF Line
<1>4. ASSUME NEW X, Keeps(X), Line \in X PROVE Line' \in X
  BY <1>2, <1>4, LineIs DEF Keeps
<1>5. ASSUME NEW i \in 1 .. Len(wire) PROVE \E j \in 1 .. Len(Coming) : wire[i] = Coming[j]
  <2>1. Len(rx) + i \in 1 .. Len(Coming) /\ Coming[Len(rx) + i] = wire[i]
    BY <1>1, <1>5, Parts DEF Coming
  <2> QED
    BY <2>1
<1> QED
  BY <1>1, <1>2, <1>3, <1>4, <1>5 DEF Shrinks

\* A token that is cut.
LEMMA CutShrinks ==
  ASSUME HttpTypes, Cut
  PROVE  Shrinks
<1>1. rx \in Seq(Tokens) /\ wire \in Seq(Tokens) /\ wire # <<>> /\ rx' = rx /\ wire' = Tail(wire)
  BY DEF HttpTypes, Cut
<1> DEFINE t == Tail(wire)
<1>2. t \in Seq(Tokens) /\ Len(t) = Len(wire) - 1 /\ \A i \in 1 .. Len(t) : t[i] = wire[i + 1]
  BY <1>1
<1>3. KindsOf(t) = Tail(KindsOf(wire)) /\ KindsOf(wire) # <<>>
  <2>1. KindsOf(t) \in Seq(TokenKinds) /\ Len(KindsOf(t)) = Len(t) /\ \A i \in 1 .. Len(t) : KindsOf(t)[i] = t[i].kind
    BY <1>2, KindsTyped
  <2>2. /\ KindsOf(wire) \in Seq(TokenKinds) /\ Len(KindsOf(wire)) = Len(wire) /\ KindsOf(wire) # <<>>
        /\ \A i \in 1 .. Len(wire) : KindsOf(wire)[i] = wire[i].kind
    BY <1>1, KindsTyped
  <2> DEFINE k == KindsOf(wire)
             u == KindsOf(t)
  <2>4. Len(wire) \in Nat
    BY <1>1
  <2>8. ASSUME NEW i \in 1 .. Len(t) PROVE u[i] = k[i + 1]
    <3>1. i + 1 \in 1 .. Len(wire) /\ t[i] = wire[i + 1]
      BY <1>2, <2>4, <2>8
    <3>2. u[i] = t[i].kind /\ k[i + 1] = wire[i + 1].kind
      BY <2>1, <2>2, <2>8, <3>1
    <3> QED
      BY <3>1, <3>2
  <2>3. /\ u \in Seq(TokenKinds) /\ Len(u) = Len(t) /\ k \in Seq(TokenKinds) /\ Len(k) = Len(wire) /\ k # <<>>
        /\ \A i \in 1 .. Len(t) : u[i] = k[i + 1]
    BY <2>1, <2>2, <2>8
  <2> HIDE DEF k, u, t
  <2>5. /\ Tail(k) \in Seq(TokenKinds) /\ Len(Tail(k)) = Len(k) - 1
        /\ \A i \in 1 .. Len(Tail(k)) : Tail(k)[i] = k[i + 1]
    BY <2>3
  <2>6. Len(u) = Len(Tail(k)) /\ \A i \in 1 .. Len(u) : u[i] = Tail(k)[i]
    BY <1>2, <2>3, <2>5
  <2>7. u = Tail(k)
    BY <2>3, <2>5, <2>6, SeqEqual
  <2> QED
    BY <2>3, <2>7 DEF k, u
<1>4. Coming' = rx \o t /\ Coming' \in Seq(Tokens)
  BY <1>1, <1>2, Parts DEF Coming
<1> HIDE DEF t
<1>5. Line' = KindsOf(rx) \o Tail(KindsOf(wire))
  BY <1>1, <1>2, <1>3, <1>4, KindsJoined DEF Line
<1>6. Line # <<>>
  <2>1. Coming # <<>> /\ Coming \in Seq(Tokens)
    BY <1>1, ComingSplits, ComingTyped
  <2> QED
    BY <2>1, KindsTyped DEF Line
<1>7. ASSUME NEW X, Keeps(X), Line \in X PROVE Line' \in X
  BY <1>3, <1>5, <1>7, LineIs DEF Keeps
<1>8. ASSUME NEW i \in 1 .. Len(rx \o t) PROVE \E j \in 1 .. Len(Coming) : (rx \o t)[i] = Coming[j]
  <2>1. /\ Len(rx \o t) = Len(rx) + Len(t) /\ Len(rx) \in Nat /\ Len(t) \in Nat /\ Len(wire) \in Nat
        /\ \A k \in 1 .. Len(rx) : (rx \o t)[k] = rx[k]
        /\ \A k \in 1 .. Len(t) : (rx \o t)[Len(rx) + k] = t[k]
    <3>1. rx \in Seq(Tokens) /\ t \in Seq(Tokens)
      BY <1>1, <1>2
    <3>2. Len(wire) \in Nat
      BY <1>1
    <3> QED
      BY <3>1, <3>2, Parts
  <2>2. /\ Len(Coming) = Len(rx) + Len(wire)
        /\ \A k \in 1 .. Len(rx) : Coming[k] = rx[k]
        /\ \A k \in 1 .. Len(wire) : Coming[Len(rx) + k] = wire[k]
    BY <1>1, Parts DEF Coming
  <2>3. CASE i <= Len(rx)
    <3>1. i \in 1 .. Len(rx) /\ i \in 1 .. Len(Coming)
      BY <1>8, <2>1, <2>2, <2>3
    <3> QED
      BY <2>1, <2>2, <3>1
  <2>4. CASE ~(i <= Len(rx))
    <3> DEFINE k == i - Len(rx)
    <3>1. k \in 1 .. Len(t) /\ i = Len(rx) + k
      <4>1. Len(rx) \in Nat /\ Len(t) \in Nat /\ i \in 1 .. Len(rx) + Len(t) /\ ~(i <= Len(rx))
        BY <1>8, <2>1, <2>4
      <4> QED
        BY <4>1
    <3> HIDE DEF k
    <3>2. k + 1 \in 1 .. Len(wire) /\ Len(rx) + (k + 1) \in 1 .. Len(Coming) /\ t[k] = wire[k + 1]
      BY <1>2, <2>1, <2>2, <3>1
    <3> QED
      BY <2>1, <2>2, <3>1, <3>2
  <2> QED
    BY <2>3, <2>4
<1> QED
  BY <1>4, <1>6, <1>7, <1>8 DEF Shrinks

-----------------------------------------------------------------------------
(* Each action keeps Turns.  First those that leave the driver's step.     *)

\* Turns depends on the UART by what is coming.
LEMMA TurnsStay ==
  ASSUME Turns, Coming' = Coming, UNCHANGED <<step, waiting, call, raw, inbox, session, mode, server>>
  PROVE  Turns'
  BY DEF Turns, TurnInit, TurnUrl, TurnContent, TurnData, TurnPayload, TurnAction, TurnRead, TurnCleanup,
         InTurnOrDeaf, InTurn, Deaf, Aimed, OwnAnswers, Told, Paged, Line, Old, Earlier, Due, Of, Queued, Rests

\* The steps that wait for an answer among those of earlier commands.
Waits == {"cgact", "activate", "cgpaddr", "init", "url", "content", "data", "action"}

\* Sets of lines that are named by a step and the call under way.
LEMMA SameCall ==
  ASSUME call' = call
  PROVE  \A s : Of(s)' = Of(s) /\ Old(s)' = Old(s) /\ Earlier(s)' = Earlier(s) /\ Due(s)' = Due(s)
  BY DEF Of, Old, Earlier, Due

\* With less coming, an HTTPACTION still tells of this call,
LEMMA AnswersShrink ==
  ASSUME Shrinks, OwnAnswers, UNCHANGED <<call, session, server>>
  PROVE  OwnAnswers'
<1>1. ASSUME NEW i \in 1 .. Len(Coming') PROVE Told(Coming[i])'
  <2>1. PICK j \in 1 .. Len(Coming) : Coming'[i] = Coming[j]
    BY <1>1 DEF Shrinks
  <2> QED
    BY <1>1, <2>1 DEF OwnAnswers, Told
<1> QED
  BY <1>1 DEF OwnAnswers

\* and the modem is still in turn.
LEMMA TurnShrinks ==
  ASSUME Shrinks, UNCHANGED <<waiting, call, inbox, session, mode>>, NEW s \in Waits
  PROVE  /\ InTurn(s) => InTurn(s)'
         /\ Deaf(s) => Deaf(s)'
         /\ OwnAnswers /\ UNCHANGED server => OwnAnswers'
         /\ Paged(Line) /\ Line \in Seq(TokenKinds) => Paged(Line')
<1>1. Keeps(Old(s)) /\ Keeps(Due(s))
  BY OldKeeps, DueKeeps DEF Waits
<1>2. (Line \in Old(s) => Line' \in Old(s)) /\ (Line \in Due(s) => Line' \in Due(s)) /\ (Line = <<>> => Line' = <<>>)
  BY <1>1 DEF Shrinks
<1>3. InTurn(s) => InTurn(s)'
  BY <1>2, SameCall DEF InTurn
<1>4. Deaf(s) => Deaf(s)'
  BY <1>2, SameCall DEF Deaf
<1>5. OwnAnswers /\ UNCHANGED server => OwnAnswers'
  BY AnswersShrink
<1>6. ASSUME Paged(Line), Line \in Seq(TokenKinds) PROVE Paged(Line')
  BY <1>6, PagedKeeps DEF Shrinks
<1> QED
  BY <1>3, <1>4, <1>5, <1>6

\* A token that is cut, and a chunk that is skipped.
LEMMA TurnsShrink == HttpTypes /\ Turns /\ (Cut \/ Skipped) => Turns'
<1> SUFFICES ASSUME HttpTypes, Turns, Cut \/ Skipped PROVE Turns'
  OBVIOUS
<1>1. Shrinks
  BY ReadShrinks, CutShrinks DEF Skipped
<1>2. /\ UNCHANGED <<step, waiting, call, raw, inbox, session, mode, server>>
      /\ InWaitForToken /\ Coming # <<>>
  BY ComingSplits DEF Cut, Skipped, driver, modem
<1>3. waiting /\ step \in Waits \cup {"payload", "read"} /\ (step = "read" => call.op = "POST")
  BY <1>2 DEF InWaitForToken, Expect, Waits, HttpTypes, Ops
<1>4. Line # <<>> /\ Line \in Seq(TokenKinds)
  BY <1>2, ComingTyped, KindsTyped DEF Line
<1>5. /\ \A s \in Waits : InTurn(s) => InTurn(s)'
      /\ OwnAnswers => OwnAnswers'
      /\ Paged(Line) => Paged(Line')
  BY <1>1, <1>2, <1>4, TurnShrinks DEF Waits
<1>6. ~Deaf("cgact") /\ ~Deaf("activate")
  BY <1>4 DEF Deaf
<1>7. Keeps({<<>>, <<"OK">>}) /\ Keeps({<<>>, <<"OK">>, <<"OK", "OK">>})
  <2>1. Old("data") = {<<>>, <<"OK">>} /\ Due("content") = {<<>>, <<"OK">>, <<"OK", "OK">>}
    BY DEF Old, Due
  <2> QED
    BY <2>1, OldKeeps, DueKeeps
<1>8. CASE step \in {"cgact", "activate", "cgpaddr"}
  BY <1>2, <1>5, <1>6, <1>8 DEF Turns, InTurnOrDeaf, Rests, Waits
<1>9. CASE step \in {"init", "url", "content", "data"}
  BY <1>2, <1>5, <1>9, SameCall DEF Turns, TurnInit, TurnUrl, TurnContent, TurnData, Rests, Waits, Aimed, Queued
<1>10. CASE step = "payload"
  <2>1. TurnPayload /\ inbox = <<>> /\ Line \in {<<>>, <<"OK">>} /\ mode = "command" /\ session.data = call.n
    BY <1>4, <1>10 DEF Turns, TurnPayload
  <2>2. Line' \in {<<>>, <<"OK">>}
    BY <1>1, <1>7, <2>1 DEF Shrinks
  <2> QED
    BY <1>2, <1>3, <1>10, <2>1, <2>2 DEF Turns, TurnPayload
<1>11. CASE step = "action"
  <2>1. Line \in {<<>>, <<"OK">>, <<"OK", "OK">>} => Line' \in {<<>>, <<"OK">>, <<"OK", "OK">>}
    BY <1>1, <1>7 DEF Shrinks
  <2> QED
    BY <1>2, <1>5, <1>11, <2>1 DEF Turns, TurnAction, Waits, Aimed
<1>12. CASE step = "read"
  BY <1>2, <1>3, <1>4, <1>5, <1>12 DEF Turns, TurnRead, Rests
<1> QED
  BY <1>3, <1>8, <1>9, <1>10, <1>11, <1>12 DEF Waits

\* The PDP context does not matter to them, nor does what has arrived.
LEMMA TurnsPdp == Turns /\ PdpLost => Turns'
<1> SUFFICES ASSUME Turns, PdpLost PROVE Turns'
  OBVIOUS
<1>1. Coming' = Coming /\ UNCHANGED <<step, waiting, call, raw, inbox, session, mode, server>>
  BY DEF PdpLost, Coming, driver
<1> QED
  BY <1>1, TurnsStay

LEMMA TurnsArrive == HttpTypes /\ Turns /\ Arrive => Turns'
<1> SUFFICES ASSUME HttpTypes, Turns, Arrive PROVE Turns'
  OBVIOUS
<1>1. Coming' = Coming /\ UNCHANGED <<step, waiting, call, raw, inbox, session, mode, server>>
  BY ArriveKeeps DEF Arrive, driver, modem
<1> QED
  BY <1>1, TurnsStay

\* The kinds of short sequences.
LEMMA ShortKinds ==
  /\ KindsOf(<<>>) = <<>>
  /\ \A a : KindsOf(<<a>>) = <<a.kind>>
  /\ \A a, b : KindsOf(<<a, b>>) = <<a.kind, b.kind>>
  /\ OK.kind = "OK" /\ ERROR.kind = "ERROR" /\ \A k, a : Tok(k, a).kind = k
<1>1. KindsOf(<<>>) = <<>>
  BY DEF KindsOf
<1>2. ASSUME NEW a PROVE KindsOf(<<a>>) = <<a.kind>>
  BY DEF KindsOf
<1>3. ASSUME NEW a, NEW b PROVE KindsOf(<<a, b>>) = <<a.kind, b.kind>>
  BY DEF KindsOf
<1> QED
  BY <1>1, <1>2, <1>3, KindsAre

\* The driver between two calls.
LEMMA TurnsAtInit == HttpInit => Turns
<1> SUFFICES ASSUME HttpInit PROVE Turns
  OBVIOUS
<1>1. Coming = wire /\ wire \in {<<>>, <<OK>>}
  BY TokensTyped, JoinEmpty DEF HttpInit, Coming, Leftover
<1>2. Line \in {<<>>, <<"OK">>}
  BY <1>1, ShortKinds DEF Line
<1> QED
  BY <1>2 DEF HttpInit, Turns, InTurnOrDeaf, InTurn, Rests, Closed, Old

LEMMA TurnsCycle == HttpTypes /\ PowerCycle => Turns'
<1> SUFFICES ASSUME HttpTypes, PowerCycle PROVE Turns'
  OBVIOUS
<1>1. rx' = <<>> /\ wire' \in {<<>>, <<OK>>}
  BY DEF PowerCycle, Leftover
<1>2. \A s \in {<<>>, <<OK>>} : <<>> \o s = s
  BY TokensTyped, JoinEmpty
<1>3. Coming' \in {<<>>, <<OK>>}
  BY <1>1, <1>2 DEF Coming
<1>4. Line' \in {<<>>, <<"OK">>}
  BY <1>3, ShortKinds DEF Line
<1> QED
  BY <1>4 DEF PowerCycle, Turns, InTurnOrDeaf, InTurn, Rests, Closed, Old, HttpTypes

LEMMA TurnsBegin == Turns /\ Begin => Turns'
  BY DEF Begin, GoTo, Turns, InTurnOrDeaf, InTurn, Deaf, Rests, Line, Coming, Old, Earlier, modem

LEMMA TurnsReturn == Turns /\ Return => Turns'
  BY DEF Return, GoTo, Turns, InTurnOrDeaf, InTurn, Deaf, Rests, Line, Coming, Old, Earlier, modem

LEMMA TurnsSkipTerm == Turns /\ Initialized /\ SkipTerm => Turns'
  BY DEF SkipTerm, NoTerm, AfterTerm, GoTo, Initialized, Turns, InTurnOrDeaf, InTurn, Deaf, Rests, Line, Coming,
         Old, Earlier, modem

\* One more command for the modem.
LEMMA Sending ==
  ASSUME HttpTypes, waiting = FALSE, waiting' = TRUE, NEW s, Of(s) \in Commands, inbox' = Append(inbox, Of(s)),
         Shrinks, UNCHANGED <<call, session, mode>>
  PROVE  /\ InTurn(s) => InTurn(s)'
         /\ Deaf(s) => Deaf(s)'
         /\ \A t : Queued(t) => Queued(t)'
         /\ Aimed /\ Of(s).cmd # "url" => Aimed'
         /\ inbox' # <<>>
         /\ inbox = <<>> => inbox' = <<Of(s)>>
<1>1. inbox \in Seq(Commands)
  BY DEF HttpTypes
<1>2. inbox = <<>> => inbox' = <<Of(s)>>
  BY AppendOne
<1>3. ASSUME NEW c \in Commands, inbox = <<c>> PROVE inbox' = <<c, Of(s)>>
  BY <1>3, AppendTwo
<1>4. /\ Line = <<>> => Line' = <<>>
      /\ Line \in Old(s) => Line' \in Old(s)
  BY OldKeeps DEF Shrinks
<1>5. ASSUME InTurn(s) PROVE InTurn(s)'
  <2>1. CASE inbox = <<>> /\ Line \in Old(s)
    BY <1>2, <1>4, <2>1, SameCall DEF InTurn
  <2>2. CASE \E c \in Commands : inbox = <<c>> /\ c.cmd \in Earlier(s) /\ Line = <<>>
    <3>1. PICK c \in Commands : inbox = <<c>> /\ c.cmd \in Earlier(s) /\ Line = <<>>
      BY <2>2
    <3> QED
      BY <1>3, <1>4, <3>1, SameCall DEF InTurn
  <2> QED
    BY <1>5, <2>1, <2>2 DEF InTurn
<1>6. Deaf(s) => Deaf(s)'
  BY <1>2, <1>4, SameCall DEF Deaf
<1>7. inbox' # <<>> /\ (inbox # <<>> => Head(inbox') = Head(inbox))
  BY <1>1
<1>8. ASSUME NEW t, Queued(t) PROVE Queued(t)'
  BY <1>7, <1>8, SameCall DEF Queued
<1>9. Aimed /\ Of(s).cmd # "url" => Aimed'
  BY <1>2, <1>7 DEF Aimed
<1> QED
  BY <1>2, <1>5, <1>6, <1>7, <1>8, <1>9

\* SendCommand, in each step.
LEMMA TurnsSend == HttpTypes /\ Turns /\ Initialized /\ SendCommand => Turns'
<1> SUFFICES ASSUME HttpTypes, Turns, Initialized, SendCommand PROVE Turns'
  OBVIOUS
<1>1. /\ waiting = FALSE /\ waiting' = TRUE /\ inbox' = Append(inbox, Of(step)) /\ wire' = wire
      /\ rx' = IF step = "payload" THEN rx ELSE <<>>
      /\ UNCHANGED <<step, call, raw, session, mode, server>>
  BY DEF SendCommand, Command, Of, modem, HttpTypes
<1>2. Of(step) \in Commands
  BY TokensTyped DEF SendCommand, Of, Commands, HttpTypes, Steps, Args
<1>3. step \in Waits \cup {"payload", "read", "cleanup"}
  BY DEF SendCommand, Steps, NoTerm, Initialized, Waits
<1>4. CASE step = "payload"
  <2>1. inbox = <<>> /\ inbox' = <<Of("payload")>> /\ Coming' = Coming
    BY <1>1, <1>2, <1>4, AppendOne DEF Turns, TurnPayload, Coming
  <2> QED
    BY <1>1, <1>4, <2>1, SameCall DEF Turns, TurnPayload, Line
<1>5. CASE step # "payload"
  <2>1. Shrinks
    BY <1>1, <1>5, ReadShrinks
  <2>2. /\ InTurn(step) => InTurn(step)'
        /\ Deaf(step) => Deaf(step)'
        /\ \A t : Queued(t) => Queued(t)'
        /\ Aimed /\ Of(step).cmd # "url" => Aimed'
        /\ inbox' # <<>>
        /\ inbox = <<>> => inbox' = <<Of(step)>>
    BY <1>1, <1>2, <2>1, Sending
  <2>3. Line = <<>> => Line' = <<>>
    BY <2>1 DEF Shrinks
  <2>4. CASE step \in {"cgact", "activate", "cgpaddr"}
    BY <1>1, <2>2, <2>4 DEF Turns, InTurnOrDeaf, Rests
  <2>5. CASE step \in {"init", "url", "content", "data"}
    BY <1>1, <2>2, <2>5 DEF Turns, TurnInit, TurnUrl, TurnContent, TurnData, Rests, Of
  <2>6. CASE step = "action"
    <3>1. TurnAction /\ session.pending = "none" /\ InTurn("action") /\ Aimed
      BY <1>1, <2>6 DEF Turns, TurnAction
    <3>2. OwnAnswers'
      BY <1>1, <2>1, <3>1, AnswersShrink DEF TurnAction
    <3> QED
      BY <1>1, <2>2, <2>6, <3>1, <3>2 DEF Turns, TurnAction, Of
  <2>7. CASE step = "read"
    BY <1>1, <2>2, <2>3, <2>7, SameCall DEF Turns, TurnRead, Rests
  <2>8. CASE step = "cleanup"
    BY <1>1, <2>2, <2>3, <2>8, SameCall DEF Turns, TurnCleanup, InTurnOrDeaf, Rests
  <2> QED
    BY <1>3, <1>5, <2>4, <2>5, <2>6, <2>7, <2>8 DEF Waits
<1> QED
  BY <1>4, <1>5

-----------------------------------------------------------------------------
(* The driver goes on to its next step.                                    *)

\* What it may leave on the wire when it has found what a step expects, or an ERROR.
FoundLeft(s) ==
  IF s \in {"cgact", "cgpaddr", "url", "content"} THEN {<<>>, <<"OK">>}
  ELSE IF s \in {"activate", "init"} THEN {<<>>, <<"OK">>, <<"ERROR">>}
  ELSE {<<>>}

RefusedLeft(s) ==
  CASE s = "cgact" -> {<<>>, <<"OK">>, <<"+CGACT">>, <<"+CGACT", "OK">>}
    [] s = "activate" -> {<<>>, <<"OK">>, <<"ERROR">>}
    [] s = "cgpaddr" -> {<<>>, <<"OK">>, <<"+CGPADDR">>, <<"+CGPADDR", "OK">>}
    [] s = "init" -> {<<>>}
    [] s = "url" -> {<<>>, <<"OK">>}
    [] OTHER -> {}

\* An answer that came late was to the one command before; the step's own is still to be taken up.
LEMMA Reading ==
  ASSUME HttpTypes, waiting, rx # <<>>, NEW s, InTurn(s)
  PROVE  \/ inbox = <<Of(s)>> /\ Line \in Old(s)
         \/ inbox = <<>> /\ Line \in Due(s)
<1>1. Coming # <<>> /\ Coming \in Seq(Tokens)
  BY ComingSplits, ComingTyped
<1>2. Line # <<>>
  BY <1>1, KindsTyped DEF Line
<1> QED
  BY <1>2 DEF InTurn

\* What a step expects is the answer to its command, or the OK of the one before.
LEMMA Finding ==
  ASSUME HttpTypes, waiting, rx' = <<>>, wire' = wire, NEW s \in Waits, InTurn(s), Has(rx, Expect[s])
  PROVE  \/ inbox = <<Of(s)>> /\ Line \in Old(s) /\ Line' = <<>> /\ s \in {"activate", "init", "url", "content"}
         \/ inbox = <<>> /\ Line \in Due(s) /\ Line' \in FoundLeft(s)
<1> DEFINE r == KindsOf(rx)
           w == KindsOf(wire)
<1>1. r \in Seq(TokenKinds) /\ w \in Seq(TokenKinds) /\ Line = r \o w /\ Hears(r, Expect[s])
  BY LineIs
<1>2. Line' = w /\ rx # <<>>
  BY ReadShrinks, Has0
<1> HIDE DEF r, w
<1>3. CASE inbox = <<Of(s)>> /\ Line \in Old(s)
  <2>1. /\ Hears(r, "OK") => w = <<>>
        /\ s = "cgact" => ~Hears(r, "+CGACT")
        /\ s # "init" => ~Hears(r, "+CGPADDR")
        /\ s # "cleanup" => ~Hears(r, "+HTTPACTION")
        /\ ~Hears(r, "DOWNLOAD")
    BY <1>1, <1>3, EarlyLeaves
  <2>2. s \notin {"cgact", "cgpaddr", "data", "action"}
    BY <1>1, <2>1 DEF Expect
  <2>3. Expect[s] = "OK"
    BY <2>2 DEF Expect, Waits
  <2> QED
    BY <1>1, <1>2, <1>3, <2>1, <2>2, <2>3 DEF Waits
<1>4. CASE inbox = <<>> /\ Line \in Due(s)
  <2>1. /\ s = "cgact" => Line \in Due("cgact") /\ Hears(r, "+CGACT")
        /\ s = "activate" => Line \in Due("activate") /\ Hears(r, "OK")
        /\ s = "cgpaddr" => Line \in Due("cgpaddr") /\ Hears(r, "+CGPADDR")
        /\ s = "init" => Line \in Due("init") /\ Hears(r, "OK")
        /\ s = "url" => Line \in Due("url") /\ Hears(r, "OK")
        /\ s = "content" => Line \in Due("content") /\ Hears(r, "OK")
        /\ s = "data" => Line \in Due("data") /\ Hears(r, "DOWNLOAD")
        /\ s = "action" => Line \in Due("action") /\ Hears(r, "+HTTPACTION")
    BY <1>1, <1>4 DEF Expect
  <2>2. w \in FoundLeft(s)
    BY <1>1, <2>1, FoundLeaves DEF FoundLeft, Waits
  <2> QED
    BY <1>2, <1>4, <2>2
<1> QED
  BY <1>2, <1>3, <1>4, Reading

\* An ERROR is the same.
LEMMA Refusing ==
  ASSUME HttpTypes, waiting, rx' = <<>>, wire' = wire, NEW s \in Waits, InTurn(s), ~Has(rx, Expect[s]),
         Has(rx, "ERROR")
  PROVE  \/ inbox = <<Of(s)>> /\ Line' = <<>> /\ s \in {"cgact", "activate", "cgpaddr", "url"}
         \/ inbox = <<>> /\ Line' \in RefusedLeft(s)
<1> DEFINE r == KindsOf(rx)
           w == KindsOf(wire)
<1>1. /\ r \in Seq(TokenKinds) /\ w \in Seq(TokenKinds) /\ Line = r \o w
      /\ ~Hears(r, Expect[s]) /\ Hears(r, "ERROR")
  BY LineIs
<1>2. Line' = w /\ rx # <<>>
  BY ReadShrinks, Has0
<1> HIDE DEF r, w
<1>3. CASE inbox = <<Of(s)>> /\ Line \in Old(s)
  <2>1. w = <<>> /\ s \notin {"init", "content", "data", "action"}
    BY <1>1, <1>3, EarlyLeaves
  <2> QED
    BY <1>2, <1>3, <2>1 DEF Waits
<1>4. CASE inbox = <<>> /\ Line \in Due(s)
  <2>1. /\ s = "cgact" => Line \in Due("cgact") /\ ~Hears(r, "+CGACT")
        /\ s = "activate" => Line \in Due("activate") /\ ~Hears(r, "OK")
        /\ s = "cgpaddr" => Line \in Due("cgpaddr") /\ ~Hears(r, "+CGPADDR")
        /\ s = "init" => Line \in Due("init") /\ ~Hears(r, "OK")
        /\ s = "url" => Line \in Due("url") /\ ~Hears(r, "OK")
        /\ s = "content" => Line \in Due("content")
        /\ s = "data" => Line \in Due("data")
        /\ s = "action" => Line \in Due("action")
    BY <1>1, <1>4 DEF Expect
  <2>2. w \in RefusedLeft(s)
    BY <1>1, <2>1, ErrorLeaves DEF RefusedLeft, Waits
  <2> QED
    BY <1>2, <1>4, <2>2
<1> QED
  BY <1>2, <1>3, <1>4, Reading

\* A wait that leaves no command behind ends with nothing to come.
LEMMA NothingLate ==
  ASSUME HttpTypes, TimedOut, NoteLate, ~behind'
  PROVE  rx = <<>> /\ wire = <<>> /\ inbox = <<>> /\ Coming = <<>> /\ Line = <<>>
<1>1. rx = <<>> /\ wire = <<>>
  BY DEF TimedOut
<1>2. inbox = <<>>
  BY <1>1 DEF NoteLate
<1>3. Coming = <<>>
  BY <1>1, JoinEmpty DEF Coming, HttpTypes
<1>4. Line = <<>>
  BY <1>3, ShortKinds DEF Line
<1> QED
  BY <1>1, <1>2, <1>3, <1>4

\* An OK says nothing of an HTTPACTION.
LEMMA SilentLine ==
  ASSUME rx' = <<>>, wire' = wire, wire \in Seq(Tokens), Line' \in {<<>>, <<"OK">>}
  PROVE  OwnAnswers'
<1>1. Coming' = wire /\ Line' = KindsOf(wire)
  BY JoinEmpty DEF Coming, Line
<1>2. ASSUME NEW i \in 1 .. Len(wire) PROVE wire[i].kind = "OK"
  <2>1. KindsOf(wire)[i] = wire[i].kind /\ Len(KindsOf(wire)) = Len(wire)
    BY <1>2, KindsTyped
  <2>2. KindsOf(wire) = <<>> \/ KindsOf(wire) = <<"OK">>
    BY <1>1
  <2>3. Len(wire) \in Nat /\ Len(<<>>) = 0 /\ Len(<<"OK">>) = 1 /\ <<"OK">>[1] = "OK"
    BY LenProperties
  <2>4. KindsOf(wire) # <<>>
    <3>1. Len(wire) # 0
      BY <1>2, <2>3
    <3> QED
      BY <2>1, <2>3, <3>1
  <2>5. Len(wire) = 1 /\ KindsOf(wire) = <<"OK">>
    BY <2>1, <2>2, <2>3, <2>4
  <2> QED
    BY <1>2, <2>1, <2>3, <2>5
<1> QED
  BY <1>1, <1>2 DEF OwnAnswers, Told

\* With less coming, it is still a part of a page.
LEMMA PagedShrinks ==
  ASSUME HttpTypes, Shrinks, Paged(Line)
  PROVE  Paged(Line')
<1>1. Line \in Seq(TokenKinds)
  BY ComingTyped, KindsTyped DEF Line
<1> QED
  BY <1>1, PagedKeeps DEF Shrinks

\* A chunk of a page has no ERROR, and its OK is the page's last token.
LEMMA PagedHears ==
  ASSUME HttpTypes, Paged(Line)
  PROVE  ~Has(rx, "ERROR") /\ (Has(rx, "OK") => KindsOf(wire) = <<>>)
<1> DEFINE r == KindsOf(rx)
           w == KindsOf(wire)
<1>1. /\ r \in Seq(TokenKinds) /\ w \in Seq(TokenKinds) /\ Line = r \o w
      /\ \A k : Has(rx, k) <=> Hears(r, k)
  BY LineIs
<1> HIDE DEF r
<1>2. w \in Seq(TokenKinds) /\ (Len(w) = 0 => w = <<>>)
  BY <1>1, EmptySeq
<1> HIDE DEF w
<1>3. /\ Len(Line) = Len(r) + Len(w) /\ Len(r) \in Nat /\ Len(w) \in Nat
      /\ \A i \in 1 .. Len(r) : Line[i] = r[i]
  BY <1>1, Parts
<1>4. ASSUME NEW i \in 1 .. Len(r) PROVE r[i] # "ERROR" /\ (r[i] = "OK" => Len(w) = 0)
  <2>1. i \in 1 .. Len(Line) /\ Line[i] = r[i] /\ (i = Len(Line) => Len(w) = 0)
    BY <1>3
  <2> QED
    BY <2>1 DEF Paged
<1> QED
  BY <1>1, <1>2, <1>4 DEF Hears, w

\* The driver finds what it waits for, step by step,
LEMMA TurnsFound == HttpTypes /\ Turns /\ Found => Turns'
<1> SUFFICES ASSUME HttpTypes, Turns, Found PROVE Turns'
  OBVIOUS
<1> DEFINE token == First(rx, Expect[step])
<1>1. /\ waiting /\ waiting' = FALSE /\ rx' = <<>> /\ wire' = wire
      /\ step' = After(token) /\ Has(rx, Expect[step])
      /\ UNCHANGED <<call, raw, inbox, session, mode, server>>
  BY DEF Found, GoTo, modem, InWaitForToken
<1>2. \E i \in 1 .. Len(rx) : token = rx[i] /\ rx[i].kind = Expect[step]
  BY <1>1, FirstIsThere DEF HttpTypes
<1> HIDE DEF token
<1>3. step \in Waits \cup {"payload", "read"} /\ (step = "read" => call.op = "POST")
  BY DEF Found, InWaitForToken, Expect, Waits, HttpTypes, Ops
<1>4. Of(step) \in Commands
  BY <1>3, TokensTyped DEF Of, Commands, HttpTypes, Steps, Args, Waits
<1>5. rx # <<>> /\ Line # <<>>
  <2>1. rx # <<>>
    BY <1>1, Has0
  <2>2. Coming # <<>> /\ Coming \in Seq(Tokens)
    BY <2>1, ComingSplits, ComingTyped
  <2> QED
    BY <2>1, <2>2, KindsTyped DEF Line
<1>6. ASSUME step \in Waits, InTurn(step)
      PROVE  \/ /\ inbox = <<Of(step)>> /\ Line \in Old(step) /\ Line' = <<>>
                /\ step \in {"activate", "init", "url", "content"}
             \/ inbox = <<>> /\ Line \in Due(step) /\ Line' \in FoundLeft(step)
  BY <1>1, <1>6, Finding
<1>7. CASE step = "cgact"
  <2>1. Rests /\ InTurn("cgact")
    BY <1>5, <1>7 DEF Turns, InTurnOrDeaf, Deaf
  <2>2. inbox = <<>> /\ Line' \in {<<>>, <<"OK">>}
    BY <1>6, <1>7, <2>1 DEF Waits, FoundLeft
  <2>3. step' \in {"cgpaddr", "activate"}
    BY <1>1, <1>7 DEF After
  <2> QED
    BY <1>1, <2>1, <2>2, <2>3 DEF Turns, InTurnOrDeaf, InTurn, Rests, Old
<1>8. CASE step = "activate"
  <2>1. Rests /\ InTurn("activate")
    BY <1>5, <1>8 DEF Turns, InTurnOrDeaf, Deaf
  <2>2. \/ inbox = <<Of("activate")>> /\ Line' = <<>>
        \/ inbox = <<>> /\ Line' \in {<<>>, <<"OK">>, <<"ERROR">>}
    BY <1>6, <1>8, <2>1 DEF Waits, FoundLeft
  <2>3. step' = "cgpaddr" /\ Of("activate") \in Commands /\ Of("activate").cmd = "activate"
    BY <1>1, <1>4, <1>8 DEF After, Of
  <2> QED
    BY <1>1, <2>1, <2>2, <2>3 DEF Turns, InTurn, Rests, Old, Earlier
<1>9. CASE step = "cgpaddr"
  <2>1. Rests /\ InTurn("cgpaddr")
    BY <1>9 DEF Turns
  <2>2. inbox = <<>> /\ Line' \in {<<>>, <<"OK">>}
    BY <1>6, <1>9, <2>1 DEF Waits, FoundLeft
  <2>3. step' = "init"
    BY <1>1, <1>9 DEF After
  <2> QED
    BY <1>1, <2>1, <2>2, <2>3 DEF Turns, TurnInit, InTurn, Rests, Old
<1>10. CASE step = "init"
  <2>1. TurnInit
    BY <1>10 DEF Turns
  <2>2. \/ inbox = <<Of("init")>> /\ Line' = <<>>
        \/ inbox = <<>> /\ Line' \in {<<>>, <<"OK">>, <<"ERROR">>}
    BY <1>6, <1>10, <2>1 DEF Waits, FoundLeft, TurnInit
  <2>3. step' = "url" /\ Of("init") \in Commands /\ Of("init").cmd = "init"
    BY <1>1, <1>4, <1>10 DEF After, Of
  <2>4. InTurn("url")'
    BY <1>1, <2>2, <2>3 DEF InTurn, Old, Earlier
  <2>5. session.open \/ Queued("init")'
    BY <1>1, <2>1, <2>2, SameCall DEF TurnInit, Queued
  <2> QED
    BY <1>1, <2>1, <2>3, <2>4, <2>5 DEF Turns, TurnInit, TurnUrl, Rests
<1>11. CASE step = "url"
  <2>1. TurnUrl
    BY <1>11 DEF Turns
  <2>2. \/ inbox = <<Of("url")>> /\ Line \in Old("url") /\ Line' = <<>>
        \/ inbox = <<>> /\ Line \in Due("url") /\ Line' \in {<<>>, <<"OK">>}
    BY <1>6, <1>11, <2>1 DEF Waits, FoundLeft, TurnUrl
  <2>3. step' = (IF call.op = "POST" THEN "content" ELSE "action") /\ Of("url") \in Commands /\ Of("url").cmd = "url"
    BY <1>1, <1>4, <1>11 DEF After, Of
  <2>4. session.open /\ Aimed'
    BY <1>1, <2>1, <2>2 DEF TurnUrl, Queued, Aimed, Of
  <2>5. CASE call.op = "POST"
    <3>1. InTurn("content")'
      BY <1>1, <2>2, <2>3 DEF InTurn, Old, Earlier
    <3> QED
      BY <1>1, <2>1, <2>3, <2>4, <2>5, <3>1 DEF Turns, TurnUrl, TurnContent, Rests
  <2>6. CASE call.op # "POST"
    <3>1. call.op = "GET"
      BY <2>6 DEF HttpTypes, Ops
    <3>2. InTurn("action")'
      BY <1>1, <2>2, <2>3, <3>1 DEF InTurn, Old, Earlier
    <3>3. OwnAnswers'
      <4>1. Line' \in {<<>>, <<"OK">>}
        BY <2>2
      <4> QED
        BY <1>1, <4>1, SilentLine DEF HttpTypes
    <3> QED
      BY <1>1, <2>1, <2>3, <2>4, <2>6, <3>1, <3>2, <3>3 DEF Turns, TurnUrl, TurnAction, Rests
  <2> QED
    BY <2>5, <2>6
<1>12. CASE step = "content"
  <2>1. TurnContent /\ call.op = "POST"
    BY <1>12 DEF Turns
  <2>2. \/ inbox = <<Of("content")>> /\ Line' = <<>>
        \/ inbox = <<>> /\ Line' \in {<<>>, <<"OK">>}
    BY <1>6, <1>12, <2>1 DEF Waits, FoundLeft, TurnContent
  <2>3. step' = "data" /\ Of("content") \in Commands /\ Of("content").cmd = "content"
    BY <1>1, <1>4, <1>12 DEF After, Of
  <2>4. InTurn("data")'
    BY <1>1, <2>2, <2>3 DEF InTurn, Old, Earlier
  <2>5. session.url = call.n
    BY <2>1, <2>2, <2>3 DEF TurnContent, Aimed
  <2> QED
    BY <1>1, <2>1, <2>3, <2>4, <2>5 DEF Turns, TurnContent, TurnData, Rests
<1>13. CASE step = "data"
  <2>1. TurnData /\ call.op = "POST"
    BY <1>13 DEF Turns
  <2>2. inbox = <<>> /\ Line' = <<>>
    BY <1>6, <1>13, <2>1 DEF Waits, FoundLeft, TurnData
  <2>3. step' = "payload"
    BY <1>1, <1>13 DEF After
  <2> QED
    BY <1>1, <2>1, <2>2, <2>3 DEF Turns, TurnData, TurnPayload
<1>14. CASE step = "payload"
  <2>1. /\ TurnPayload /\ call.op = "POST" /\ inbox = <<>> /\ Line = <<"OK">>
        /\ mode = "command" /\ session.data = call.n
    BY <1>1, <1>5, <1>14 DEF Turns, TurnPayload
  <2>2. Line' = <<>>
    <3>1. Line \in Old("url") /\ Hears(KindsOf(rx), "OK")
      BY <1>1, <1>14, <2>1, LineIs DEF Expect, Old
    <3>2. KindsOf(wire) = <<>>
      BY <3>1, LineIs, EarlyLeaves
    <3> QED
      BY <1>1, <3>2, ReadShrinks
  <2>3. step' = "action"
    BY <1>1, <1>14 DEF After
  <2>4. OwnAnswers'
    BY <1>1, <2>2, SilentLine DEF HttpTypes
  <2> QED
    BY <1>1, <2>1, <2>2, <2>3, <2>4 DEF Turns, TurnPayload, TurnAction, InTurn, Old, Aimed
<1>15. CASE step = "action"
  <2>1. TurnAction
    BY <1>15 DEF Turns
  <2>2. inbox = <<>> /\ Line \in Due("action") /\ Line' = <<>>
    BY <1>6, <1>15, <2>1 DEF Waits, FoundLeft, TurnAction
  <2>3. token.kind = "+HTTPACTION" /\ Told(token)
    <3>1. PICK i \in 1 .. Len(rx) : token = rx[i] /\ rx[i].kind = Expect[step]
      BY <1>2
    <3>2. Len(Coming) = Len(rx) + Len(wire) /\ Len(rx) \in Nat /\ Len(wire) \in Nat /\ Coming[i] = rx[i]
      BY <3>1, Parts DEF HttpTypes, Coming
    <3>3. i \in 1 .. Len(Coming)
      BY <3>1, <3>2
    <3> QED
      BY <1>15, <2>1, <3>1, <3>2, <3>3 DEF TurnAction, OwnAnswers, Expect
  <2>4. session.pending = "none"
    <3>1. Hears(KindsOf(rx), "+HTTPACTION")
      BY <1>1, <1>15, LineIs DEF Expect
    <3>2. HeardOf(Line, KindsOf(rx), KindsOf(wire))
      BY LineIs, HeardIs
    <3>3. Line \notin {<<>>, <<"OK">>, <<"OK", "OK">>}
      BY <3>1, <3>2 DEF HeardOf
    <3> QED
      BY <2>1, <3>3 DEF TurnAction
  <2>5. step' = IF token.arg = 200 THEN "read" ELSE "cleanup"
    BY <1>1, <1>15 DEF After, AfterAction
  <2>6. CASE token.arg = 200
    <3>1. session.body = call.n /\ step' = "read" /\ raw = <<>>
      BY <1>15, <2>3, <2>5, <2>6 DEF Told, HttpTypes
    <3> QED
      BY <1>1, <2>1, <2>2, <2>4, <3>1 DEF Turns, TurnAction, TurnRead, Rests
  <2>7. CASE token.arg # 200
    <3>1. step' = "cleanup"
      BY <2>5, <2>7
    <3> QED
      BY <1>1, <2>1, <2>2, <3>1 DEF Turns, TurnAction, TurnCleanup
  <2> QED
    BY <2>6, <2>7
<1>16. CASE step = "read"
  <2>1. TurnRead /\ call.op = "POST" /\ inbox = <<>> /\ Paged(Line)
    BY <1>1, <1>3, <1>5, <1>16 DEF Turns, TurnRead
  <2>2. Paged(Line')
    BY <1>1, <2>1, ReadShrinks, PagedShrinks
  <2>3. step' = "readRest"
    BY <1>1, <1>16 DEF After
  <2> QED
    BY <1>1, <2>1, <2>2, <2>3 DEF Turns, TurnRead, Rests
<1> QED
  BY <1>3, <1>7, <1>8, <1>9, <1>10, <1>11, <1>12, <1>13, <1>14, <1>15, <1>16 DEF Waits

\* an ERROR,
LEMMA TurnsRefused == HttpTypes /\ Turns /\ FoundError => Turns'
<1> SUFFICES ASSUME HttpTypes, Turns, FoundError PROVE Turns'
  OBVIOUS
<1>1. /\ waiting /\ waiting' = FALSE /\ rx' = <<>> /\ wire' = wire
      /\ step' = Failed /\ ~Has(rx, Expect[step]) /\ Has(rx, "ERROR")
      /\ UNCHANGED <<call, raw, inbox, session, mode, server>>
  BY DEF FoundError, GoTo, modem, InWaitForToken
<1>2. step \in Waits \cup {"payload", "read"} /\ (step = "read" => call.op = "POST")
  BY DEF FoundError, InWaitForToken, Expect, Waits, HttpTypes, Ops
<1>3. Of(step) \in Commands
  BY <1>2, TokensTyped DEF Of, Commands, HttpTypes, Steps, Args, Waits
<1>4. rx # <<>> /\ Coming # <<>> /\ Line # <<>>
  <2>1. rx # <<>>
    BY <1>1, Has0
  <2>2. Coming # <<>> /\ Coming \in Seq(Tokens)
    BY <2>1, ComingSplits, ComingTyped
  <2> QED
    BY <2>1, <2>2, KindsTyped DEF Line
<1>5. ASSUME step \in Waits, InTurn(step)
      PROVE  \/ inbox = <<Of(step)>> /\ Line' = <<>> /\ step \in {"cgact", "activate", "cgpaddr", "url"}
             \/ inbox = <<>> /\ Line' \in RefusedLeft(step)
  BY <1>1, <1>5, Refusing
<1>6. CASE step = "cgact"
  <2>1. Rests /\ InTurn("cgact")
    BY <1>4, <1>6 DEF Turns, InTurnOrDeaf, Deaf
  <2>2. \/ inbox = <<Of("cgact")>> /\ Line' = <<>>
        \/ inbox = <<>> /\ Line' \in {<<>>, <<"OK">>, <<"+CGACT">>, <<"+CGACT", "OK">>}
    BY <1>5, <1>6, <2>1 DEF Waits, RefusedLeft
  <2>3. step' = "activate" /\ Of("cgact") \in Commands /\ Of("cgact").cmd = "cgact"
    BY <1>1, <1>3, <1>6 DEF Failed, Of
  <2> QED
    BY <1>1, <2>1, <2>2, <2>3 DEF Turns, InTurnOrDeaf, InTurn, Rests, Old, Earlier
<1>7. CASE step = "activate"
  <2>1. Rests /\ InTurn("activate")
    BY <1>4, <1>7 DEF Turns, InTurnOrDeaf, Deaf
  <2>2. \/ inbox = <<Of("activate")>> /\ Line' = <<>>
        \/ inbox = <<>> /\ Line' \in {<<>>, <<"OK">>, <<"ERROR">>}
    BY <1>5, <1>7, <2>1 DEF Waits, RefusedLeft
  <2>3. step' = "return" /\ Of("activate") \in Commands /\ Of("activate").cmd = "activate"
    BY <1>1, <1>3, <1>7 DEF Failed, Of
  <2> QED
    BY <1>1, <2>1, <2>2, <2>3 DEF Turns, InTurnOrDeaf, InTurn, Rests, Old, Earlier
<1>8. CASE step = "cgpaddr"
  <2>1. Rests /\ InTurn("cgpaddr")
    BY <1>8 DEF Turns
  <2>2. \/ inbox = <<Of("cgpaddr")>> /\ Line' = <<>>
        \/ inbox = <<>> /\ Line' \in {<<>>, <<"OK">>, <<"+CGPADDR">>, <<"+CGPADDR", "OK">>}
    BY <1>5, <1>8, <2>1 DEF Waits, RefusedLeft
  <2>3. step' = "init" /\ Of("cgpaddr") \in Commands /\ Of("cgpaddr").cmd = "cgpaddr"
    BY <1>1, <1>3, <1>8 DEF Failed, Of
  <2> QED
    BY <1>1, <2>1, <2>2, <2>3 DEF Turns, TurnInit, InTurn, Rests, Old, Earlier
<1>9. CASE step = "init"
  <2>1. TurnInit
    BY <1>9 DEF Turns
  <2>2. inbox = <<>> /\ Line' = <<>>
    BY <1>5, <1>9, <2>1 DEF Waits, RefusedLeft, TurnInit
  <2>3. step' = "return"
    BY <1>1, <1>9 DEF Failed
  <2> QED
    BY <1>1, <2>1, <2>2, <2>3 DEF Turns, TurnInit, InTurnOrDeaf, InTurn, Rests, Old
<1>10. CASE step = "url"
  <2>1. TurnUrl
    BY <1>10 DEF Turns
  <2>2. \/ inbox = <<Of("url")>> /\ Line' = <<>>
        \/ inbox = <<>> /\ Line' \in {<<>>, <<"OK">>}
    BY <1>5, <1>10, <2>1 DEF Waits, RefusedLeft, TurnUrl
  <2>3. step' = "cleanup" /\ Of("url") \in Commands /\ Of("url").cmd = "url"
    BY <1>1, <1>3, <1>10 DEF Failed, Of
  <2>4. InTurn("cleanup")'
    BY <1>1, <2>2, <2>3 DEF InTurn, Old, Earlier
  <2> QED
    BY <1>1, <2>1, <2>3, <2>4 DEF Turns, TurnUrl, TurnCleanup, InTurnOrDeaf, Rests
<1>11. step \notin {"content", "data", "action"}
  <2>1. step \in {"content", "data", "action"} => InTurn(step)
    BY DEF Turns, TurnContent, TurnData, TurnAction
  <2> QED
    BY <1>5, <2>1 DEF Waits, RefusedLeft
<1>12. step # "payload"
  <2>1. step = "payload" => Line \in Old("content")
    BY <1>4 DEF Turns, TurnPayload, Old
  <2> QED
    BY <1>1, <2>1, LineIs, EarlyLeaves
<1>13. step # "read"
  <2>1. step = "read" => Paged(Line)
    BY <1>1, <1>2, <1>4 DEF Turns, TurnRead
  <2> QED
    BY <1>1, <2>1, PagedHears
<1> QED
  BY <1>2, <1>6, <1>7, <1>8, <1>9, <1>10, <1>11, <1>12, <1>13 DEF Waits

\* or nothing.
LEMMA TurnsTimeOut == HttpTypes /\ ~behind' /\ Turns /\ TimeOut => Turns'
<1> SUFFICES ASSUME HttpTypes, ~behind', Turns, TimeOut PROVE Turns'
  OBVIOUS
<1>1. /\ waiting /\ waiting' = FALSE /\ step' = Failed
      /\ UNCHANGED <<call, raw, inbox, rx, wire, session, mode, server>>
  BY DEF TimeOut, GoTo, modem, InWaitForToken
<1>2. step \in Waits \cup {"payload", "read"}
  BY DEF TimeOut, InWaitForToken, Expect, Waits, HttpTypes
<1>3. inbox = <<>> /\ Line = <<>>
  BY NothingLate DEF TimeOut
<1>4. inbox' = <<>> /\ Line' = <<>>
  BY <1>1, <1>3 DEF Line, Coming
<1>5. \A s : InTurn(s)' /\ (mode = "data" /\ session.pending = "none" => Deaf(s)')
  BY <1>1, <1>4 DEF InTurn, Old, Deaf
<1>6. CASE step \in {"cgact", "activate", "cgpaddr", "init"}
  <2>1. step' \in {"activate", "init", "return"} /\ (step \in {"cgpaddr", "init"} <=> step' = "init" \/ step = "init")
    BY <1>1, <1>6 DEF Failed
  <2>2. step \in {"cgact", "activate"} => Rests \/ (mode = "data" /\ session.pending = "none")
    BY DEF Turns, InTurnOrDeaf, Deaf
  <2>3. step \in {"cgpaddr", "init"} => Rests
    BY DEF Turns, TurnInit
  <2> QED
    BY <1>1, <1>4, <1>5, <1>6, <2>1, <2>2, <2>3 DEF Turns, TurnInit, InTurnOrDeaf, Rests
<1>7. CASE step \in {"url", "content", "data", "payload", "action", "read"}
  <2>1. step' = "cleanup"
    BY <1>1, <1>7 DEF Failed
  <2>2. mode = "command" \/ (mode = "data" /\ session.pending = "none")
    BY <1>7 DEF Turns, TurnUrl, TurnContent, TurnData, TurnPayload, TurnAction, TurnRead, Rests
  <2> QED
    BY <1>1, <1>4, <1>5, <2>1, <2>2 DEF Turns, TurnCleanup, InTurnOrDeaf
<1> QED
  BY <1>2, <1>6, <1>7 DEF Waits

\* The end of a page, or of the wait for it.
LEMMA TurnsReadRest == HttpTypes /\ ~behind' /\ Turns /\ ReadRest => Turns'
<1> SUFFICES ASSUME HttpTypes, ~behind', Turns, ReadRest PROVE Turns'
  OBVIOUS
<1>1. /\ step = "readRest" /\ rx' = <<>> /\ wire' = wire
      /\ (rx # <<>> \/ TimedOut) /\ NoteLate
      /\ \/ /\ rx = <<>> \/ Has(rx, "OK") \/ Has(rx, "ERROR")
            /\ step' = "cleanup" /\ waiting' = FALSE
         \/ step' = step
      /\ UNCHANGED <<call, raw, inbox, session, mode, server>>
  BY DEF ReadRest, GoTo, modem
<1>2. Rests /\ inbox = <<>> /\ Paged(Line) /\ call.op = "POST"
  BY <1>1 DEF Turns
<1>3. Line' = KindsOf(wire) /\ Paged(Line')
  BY <1>1, <1>2, ReadShrinks, PagedShrinks
<1>4. CASE step' = step
  BY <1>1, <1>2, <1>3, <1>4 DEF Turns, Rests
<1>5. CASE (rx = <<>> \/ Has(rx, "OK") \/ Has(rx, "ERROR")) /\ step' = "cleanup" /\ waiting' = FALSE
  <2>1. rx = <<>> => KindsOf(wire) = <<>>
    BY <1>1, NothingLate, ShortKinds
  <2>2. Line' = <<>>
    BY <1>2, <1>3, <1>5, <2>1, PagedHears
  <2> QED
    BY <1>1, <1>2, <1>5, <2>2 DEF Turns, TurnCleanup, InTurnOrDeaf, InTurn, Rests, Old
<1> QED
  BY <1>1, <1>4, <1>5

\* httpGet reads its own page, whole.
LEMMA TurnsGetReads ==
  ASSUME HttpTypes, Turns, GetReads
  PROVE  Turns' /\ (step' # "read" => response' = Body(call.n))
<1> DEFINE all == raw \o rx
<1>1. /\ step = "read" /\ waiting /\ call.op = "GET" /\ rx # <<>> /\ wire' = wire /\ rx' = <<>>
      /\ UNCHANGED <<call, inbox, session, mode, server>>
  BY DEF GetReads, modem
<1>2. \/ /\ Has(all, "OK") \/ Has(all, "ERROR")
         /\ step' = "cleanup" /\ waiting' = FALSE /\ response' = Parsed(all)
      \/ step' = "read" /\ raw' = all /\ waiting' = waiting
  BY <1>1 DEF GetReads, GoTo
<1>3. Coming' = wire /\ Coming # <<>> /\ Line # <<>>
  <2>1. Coming' = wire /\ Coming # <<>> /\ Coming \in Seq(Tokens)
    BY <1>1, Flushed, ComingSplits, ComingTyped
  <2> QED
    BY <2>1, KindsTyped DEF Line
<1>4. TurnRead /\ inbox = <<>> /\ raw \o Coming = Page(call.n)
  BY <1>1, <1>3 DEF Turns, TurnRead
<1>5. raw \in Seq(Tokens) /\ rx \in Seq(Tokens) /\ wire \in Seq(Tokens) /\ call.n \in Nat
  BY DEF HttpTypes
<1>6. all \in Seq(Tokens) /\ all \o wire = Page(call.n)
  <2>1. all \o wire = raw \o (rx \o wire)
    BY <1>5, ConcatAssociative
  <2> QED
    BY <1>4, <1>5, <2>1, ConcatProperties DEF Coming
<1> HIDE DEF all
<1>7. ~Has(all, "ERROR") /\ (Has(all, "OK") => wire = <<>>)
  BY <1>5, <1>6, PageHas
<1>8. CASE step' = "read"
  <2>1. waiting' /\ raw' \o Coming' = Page(call.n)
    BY <1>1, <1>2, <1>3, <1>6, <1>8
  <2> QED
    BY <1>1, <1>4, <1>8, <2>1 DEF Turns, TurnRead, Rests
<1>9. CASE step' = "cleanup"
  <2>1. wire = <<>> /\ waiting' = FALSE /\ response' = Parsed(all)
    BY <1>2, <1>7, <1>9
  <2>2. all = Page(call.n)
    BY <1>6, <2>1, JoinEmpty
  <2>3. Line' = <<>>
    BY <1>3, <2>1, ShortKinds DEF Line
  <2> QED
    BY <1>1, <1>4, <1>5, <1>9, <2>1, <2>2, <2>3, PageParsed
    DEF Turns, TurnRead, TurnCleanup, InTurnOrDeaf, InTurn, Rests, Old
<1> QED
  BY <1>2, <1>8, <1>9

LEMMA TurnsGetReadEnds ==
  ASSUME HttpTypes, ~behind', Turns, GetReadEnds
  PROVE  Turns' /\ response' = Body(call.n)
<1>1. /\ step = "read" /\ waiting /\ call.op = "GET" /\ step' = "cleanup" /\ waiting' = FALSE
      /\ response' = Parsed(raw)
      /\ UNCHANGED <<call, rx, wire, inbox, session, mode, server>>
  BY DEF GetReadEnds, GoTo, modem
<1>2. inbox = <<>> /\ Coming = <<>> /\ Line = <<>>
  BY NothingLate DEF GetReadEnds
<1>3. Line' = <<>>
  BY <1>1, <1>2 DEF Line, Coming
<1>4. TurnRead /\ raw \o Coming = Page(call.n)
  BY <1>1, <1>2 DEF Turns, TurnRead
<1>5. raw = Page(call.n)
  BY <1>2, <1>4, JoinEmpty DEF HttpTypes
<1>6. response' = Body(call.n)
  BY <1>1, <1>5, PageParsed DEF HttpTypes
<1> QED
  BY <1>1, <1>2, <1>3, <1>4, <1>6 DEF Turns, TurnRead, TurnCleanup, InTurnOrDeaf, InTurn, Rests, Old

\* HTTPTERM's one chunk leaves at most the answer to it.
LEMMA TermLeaves ==
  ASSUME NEW r \in Seq(TokenKinds), NEW w \in Seq(TokenKinds), NEW l, l = r \o w, r # <<>>
  PROVE  /\ l \in Old("cleanup") => w = <<>>
         /\ l \in Due("cleanup") => w \in {<<>>, <<"OK">>, <<"ERROR">>}
<1>1. Cuts(l, r, w)
  BY CutsAre
<1>2. l \in Old("cleanup") => w = <<>>
  BY <1>1 DEF Old, Cuts
<1>3. l \in Due("cleanup") => w \in {<<>>, <<"OK">>, <<"ERROR">>}
  BY <1>1 DEF Due, Cuts
<1> QED
  BY <1>2, <1>3

\* The next call finds no more than the OK or ERROR of this one.
LEMMA TurnsTermEnds == HttpTypes /\ ~behind' /\ Turns /\ TermEnds => Turns'
<1> SUFFICES ASSUME HttpTypes, ~behind', Turns, TermEnds PROVE Turns'
  OBVIOUS
<1>1. /\ waiting /\ waiting' = FALSE /\ rx' = <<>> /\ wire' = wire
      /\ (rx # <<>> \/ TimedOut) /\ NoteLate
      /\ UNCHANGED <<call, raw, inbox, session, mode, server>>
  BY DEF TermEnds, GoTo, modem
<1>2. step = "cleanup" /\ step' = "return" /\ TurnCleanup
  BY <1>1 DEF TermEnds, GoTo, Turns, AfterTerm
<1>3. Of("cleanup") \in Commands /\ Of("cleanup").cmd = "term"
  BY <1>2, TokensTyped DEF Of, Commands, HttpTypes, Steps, Args
<1>4. Line' = KindsOf(wire)
  BY <1>1, ReadShrinks
<1>5. CASE rx = <<>>
  <2>1. inbox = <<>> /\ Line' = <<>>
    BY <1>1, <1>4, <1>5, NothingLate, ShortKinds
  <2> QED
    BY <1>1, <1>2, <2>1 DEF Turns, TurnCleanup, InTurnOrDeaf, InTurn, Deaf, Rests, Old
<1>6. CASE rx # <<>>
  <2>1. Line # <<>>
    <3>1. Coming # <<>> /\ Coming \in Seq(Tokens)
      BY <1>6, ComingSplits, ComingTyped
    <3> QED
      BY <3>1, KindsTyped DEF Line
  <2>2. Rests /\ InTurn("cleanup")
    BY <1>2, <2>1 DEF TurnCleanup, InTurnOrDeaf, Deaf
  <2>3. \/ inbox = <<Of("cleanup")>> /\ Line' = <<>>
        \/ inbox = <<>> /\ Line' \in {<<>>, <<"OK">>, <<"ERROR">>}
    BY <1>1, <1>4, <1>6, <2>2, Reading, LineIs, TermLeaves
  <2> QED
    BY <1>1, <1>2, <1>3, <2>2, <2>3 DEF Turns, InTurnOrDeaf, InTurn, Rests, Old, Earlier
<1> QED
  BY <1>5, <1>6

-----------------------------------------------------------------------------
(* The modem takes up a command.                                           *)

\* What comes when a step's own command is answered.
LEMMA OwnDue ==
  /\ \A l \in Old("cgact") : l \o <<"+CGACT", "OK">> \in Due("cgact")
  /\ \A l \in Old("cgpaddr") : l \o <<"+CGPADDR", "OK">> \in Due("cgpaddr")
  /\ \A s \in {"activate", "init", "cleanup"} : \A l \in Old(s) : l \o <<"OK">> \in Due(s) /\ l \o <<"ERROR">> \in Due(s)
  /\ \A s \in {"url", "content", "action"} : \A l \in Old(s) : l \o <<"OK">> \in Due(s)
  /\ \A l \in Old("data") : l \o <<"DOWNLOAD">> \in Due("data")
  /\ \A l \in {<<>>, <<"OK">>, <<"OK", "OK">>} : l \o <<"+HTTPACTION">> \in Due("action")
<1>1. {"OK", "ERROR", "+CGACT", "+CGPADDR", "DOWNLOAD", "+HTTPACTION"} \subseteq TokenKinds
  BY DEF TokenKinds
<1>2. ASSUME NEW k \in TokenKinds
      PROVE  /\ <<>> \o <<k>> = <<k>> /\ <<"OK">> \o <<k>> = <<"OK", k>>
             /\ <<"ERROR">> \o <<k>> = <<"ERROR", k>> /\ <<"+CGACT">> \o <<k>> = <<"+CGACT", k>>
             /\ <<"+CGPADDR">> \o <<k>> = <<"+CGPADDR", k>>
             /\ <<"+HTTPACTION">> \o <<k>> = <<"+HTTPACTION", k>>
             /\ <<"+CGACT", "OK">> \o <<k>> = <<"+CGACT", "OK", k>>
             /\ <<"+CGPADDR", "OK">> \o <<k>> = <<"+CGPADDR", "OK", k>>
             /\ <<"OK", "OK">> \o <<k>> = <<"OK", "OK", k>>
  <2>1. /\ <<>> \o <<k>> = <<k>>
        /\ \A a \in TokenKinds : <<a>> \o <<k>> = <<a, k>>
        /\ \A a, b \in TokenKinds : <<a, b>> \o <<k>> = <<a, b, k>>
    BY JoinEmpty, Join11, Join21
  <2> QED
    BY <1>1, <2>1
<1>3. ASSUME NEW k \in TokenKinds
      PROVE  /\ <<>> \o <<k, "OK">> = <<k, "OK">> /\ <<"OK">> \o <<k, "OK">> = <<"OK", k, "OK">>
             /\ <<"ERROR">> \o <<k, "OK">> = <<"ERROR", k, "OK">>
  <2>1. /\ <<>> \o <<k, "OK">> = <<k, "OK">>
        /\ \A a \in TokenKinds : <<a>> \o <<k, "OK">> = <<a, k, "OK">>
    BY <1>1, JoinEmpty, Join12
  <2> QED
    BY <1>1, <2>1
<1>4. \A l \in Old("cgact") : l \o <<"+CGACT", "OK">> \in Due("cgact")
  <2>1. \A l \in Old("cgact") : l = <<>> \/ l = <<"OK">> \/ l = <<"ERROR">>
    BY DEF Old
  <2>2. /\ <<>> \o <<"+CGACT", "OK">> = <<"+CGACT", "OK">>
        /\ <<"OK">> \o <<"+CGACT", "OK">> = <<"OK", "+CGACT", "OK">>
        /\ <<"ERROR">> \o <<"+CGACT", "OK">> = <<"ERROR", "+CGACT", "OK">>
    BY <1>1, <1>3
  <2>3. {<<"+CGACT", "OK">>, <<"OK", "+CGACT", "OK">>, <<"ERROR", "+CGACT", "OK">>} \subseteq Due("cgact")
    BY DEF Due
  <2> QED
    BY <2>1, <2>2, <2>3
<1>5. \A l \in Old("cgpaddr") : l \o <<"+CGPADDR", "OK">> \in Due("cgpaddr")
  <2>1. \A l \in Old("cgpaddr") : l = <<>> \/ l = <<"OK">> \/ l = <<"ERROR">>
    BY DEF Old
  <2>2. /\ <<>> \o <<"+CGPADDR", "OK">> = <<"+CGPADDR", "OK">>
        /\ <<"OK">> \o <<"+CGPADDR", "OK">> = <<"OK", "+CGPADDR", "OK">>
        /\ <<"ERROR">> \o <<"+CGPADDR", "OK">> = <<"ERROR", "+CGPADDR", "OK">>
    BY <1>1, <1>3
  <2>3. {<<"+CGPADDR", "OK">>, <<"OK", "+CGPADDR", "OK">>, <<"ERROR", "+CGPADDR", "OK">>} \subseteq Due("cgpaddr")
    BY DEF Due
  <2> QED
    BY <2>1, <2>2, <2>3
<1>6. ASSUME NEW k \in {"OK", "ERROR"}
      PROVE  /\ \A l \in Old("activate") : l \o <<k>> \in Due("activate")
             /\ \A l \in Old("init") : l \o <<k>> \in Due("init")
             /\ \A l \in Old("cleanup") : l \o <<k>> \in Due("cleanup")
  <2>1. /\ \A l \in Old("activate") :
             l = <<>> \/ l = <<"OK">> \/ l = <<"ERROR">> \/ l = <<"+CGACT">> \/ l = <<"+CGACT", "OK">>
        /\ \A l \in Old("init") : l = <<>> \/ l = <<"OK">> \/ l = <<"+CGPADDR">> \/ l = <<"+CGPADDR", "OK">>
        /\ \A l \in Old("cleanup") : l = <<>> \/ l = <<"OK">> \/ l = <<"ERROR">> \/ l = <<"+HTTPACTION">>
    BY DEF Old
  <2>2. /\ {<<k>>, <<"OK", k>>, <<"ERROR", k>>, <<"+CGACT", k>>, <<"+CGACT", "OK", k>>} \subseteq Due("activate")
        /\ {<<k>>, <<"OK", k>>, <<"+CGPADDR", k>>, <<"+CGPADDR", "OK", k>>} \subseteq Due("init")
        /\ {<<k>>, <<"OK", k>>, <<"ERROR", k>>, <<"+HTTPACTION", k>>} \subseteq Due("cleanup")
    BY DEF Due
  <2>3. k \in TokenKinds
    BY <1>1
  <2>4. /\ <<>> \o <<k>> = <<k>> /\ <<"OK">> \o <<k>> = <<"OK", k>> /\ <<"ERROR">> \o <<k>> = <<"ERROR", k>>
        /\ <<"+CGACT">> \o <<k>> = <<"+CGACT", k>> /\ <<"+CGACT", "OK">> \o <<k>> = <<"+CGACT", "OK", k>>
        /\ <<"+CGPADDR">> \o <<k>> = <<"+CGPADDR", k>> /\ <<"+CGPADDR", "OK">> \o <<k>> = <<"+CGPADDR", "OK", k>>
        /\ <<"+HTTPACTION">> \o <<k>> = <<"+HTTPACTION", k>>
    BY <1>1, <1>2, <2>3
  <2>5. \A l \in Old("activate") : l \o <<k>> \in Due("activate")
    BY <2>1, <2>2, <2>4
  <2>6. \A l \in Old("init") : l \o <<k>> \in Due("init")
    BY <2>1, <2>2, <2>4
  <2>7. \A l \in Old("cleanup") : l \o <<k>> \in Due("cleanup")
    BY <2>1, <2>2, <2>4
  <2> QED
    BY <2>5, <2>6, <2>7
<1>7. /\ \A l \in Old("url") : l \o <<"OK">> \in Due("url")
      /\ \A l \in Old("content") : l \o <<"OK">> \in Due("content")
      /\ \A l \in Old("action") : l \o <<"OK">> \in Due("action")
  <2>1. /\ \A l \in Old("url") : l = <<>> \/ l = <<"OK">> \/ l = <<"ERROR">>
        /\ \A l \in Old("content") : l = <<>> \/ l = <<"OK">>
        /\ \A l \in Old("action") : l = <<>> \/ l = <<"OK">>
    BY DEF Old
  <2>2. /\ {<<"OK">>, <<"OK", "OK">>, <<"ERROR", "OK">>} \subseteq Due("url")
        /\ {<<"OK">>, <<"OK", "OK">>} \subseteq Due("content")
        /\ {<<"OK">>, <<"OK", "OK">>} \subseteq Due("action")
    BY DEF Due
  <2>3. /\ <<>> \o <<"OK">> = <<"OK">> /\ <<"OK">> \o <<"OK">> = <<"OK", "OK">>
        /\ <<"ERROR">> \o <<"OK">> = <<"ERROR", "OK">>
    BY <1>1, <1>2
  <2> QED
    BY <2>1, <2>2, <2>3
<1>8. \A l \in Old("data") : l \o <<"DOWNLOAD">> \in Due("data")
  <2>1. \A l \in Old("data") : l = <<>> \/ l = <<"OK">>
    BY DEF Old
  <2>2. {<<"DOWNLOAD">>, <<"OK", "DOWNLOAD">>} \subseteq Due("data")
    BY DEF Due
  <2> QED
    BY <1>1, <1>2, <2>1, <2>2
<1>9. \A l \in {<<>>, <<"OK">>, <<"OK", "OK">>} : l \o <<"+HTTPACTION">> \in Due("action")
  <2>1. {<<"+HTTPACTION">>, <<"OK", "+HTTPACTION">>, <<"OK", "OK", "+HTTPACTION">>} \subseteq Due("action")
    BY DEF Due
  <2>2. /\ <<>> \o <<"+HTTPACTION">> = <<"+HTTPACTION">>
        /\ <<"OK">> \o <<"+HTTPACTION">> = <<"OK", "+HTTPACTION">>
        /\ <<"OK", "OK">> \o <<"+HTTPACTION">> = <<"OK", "OK", "+HTTPACTION">>
    BY <1>1, <1>2
  <2> QED
    BY <2>1, <2>2
<1> QED
  BY <1>4, <1>5, <1>6, <1>7, <1>8, <1>9

\* An answer is the last of the line.
LEMMA LineGrows ==
  ASSUME HttpTypes, rx' = rx, NEW tokens \in Seq(Tokens), Answer(tokens)
  PROVE  /\ Line' = Line \o KindsOf(tokens)
         /\ Line = <<>> => Line' = KindsOf(tokens)
<1>1. Coming' = Coming \o tokens /\ Coming \in Seq(Tokens)
  BY AnswerComes, ComingTyped
<1>2. Line' = Line \o KindsOf(tokens)
  BY <1>1, KindsJoined DEF Line
<1>3. KindsOf(tokens) \in Seq(TokenKinds)
  BY KindsTyped
<1> QED
  BY <1>2, <1>3, JoinEmpty

\* An answer to an earlier command is left over, one to the own command is due.
LEMMA Obeying ==
  ASSUME HttpTypes, NEW s, InTurn(s), Obeyed, NEW tokens \in Seq(Tokens), Answer(tokens),
         Head(inbox).cmd \in Earlier(s) => KindsOf(tokens) \in Old(s),
         waiting /\ inbox = <<Of(s)>> => \A l \in Old(s) : l \o KindsOf(tokens) \in Due(s)
  PROVE  InTurn(s)'
<1>1. /\ inbox # <<>> /\ rx' = rx /\ UNCHANGED <<waiting, call>>
      /\ \A c : inbox = <<c>> => Head(inbox) = c /\ inbox' = <<>>
      /\ \A b, c : inbox = <<b, c>> => Head(inbox) = b /\ inbox' = <<c>>
  BY Obeys
<1>2. /\ Line' = Line \o KindsOf(tokens)
      /\ Line = <<>> => Line' = KindsOf(tokens)
  BY <1>1, LineGrows
<1>3. CASE waiting /\ inbox = <<Of(s)>> /\ Line \in Old(s)
  <2>1. inbox' = <<>> /\ Line' \in Due(s)
    BY <1>1, <1>2, <1>3
  <2> QED
    BY <1>1, <1>3, <2>1, SameCall DEF InTurn
<1>4. CASE waiting /\ \E c \in Commands : inbox = <<c, Of(s)>> /\ c.cmd \in Earlier(s) /\ Line = <<>>
  <2>1. inbox' = <<Of(s)>> /\ Line' \in Old(s)
    BY <1>1, <1>2, <1>4
  <2> QED
    BY <1>1, <1>4, <2>1, SameCall DEF InTurn
<1>5. CASE ~waiting /\ \E c \in Commands : inbox = <<c>> /\ c.cmd \in Earlier(s) /\ Line = <<>>
  <2>1. inbox' = <<>> /\ Line' \in Old(s)
    BY <1>1, <1>2, <1>5
  <2> QED
    BY <1>1, <1>5, <2>1, SameCall DEF InTurn
<1> QED
  BY <1>1, <1>3, <1>4, <1>5 DEF InTurn

\* The step whose commands the modem may still have to take up.
Place == IF step \in {"idle", "term", "return"} THEN "term" ELSE step

\* The modem takes up one of those, or the read.
LEMMA Hearing ==
  ASSUME HttpTypes, Turns, mode = "command", inbox # <<>>
  PROVE  \/ step = "read" /\ waiting /\ inbox = <<Of("read")>> /\ Head(inbox) = Of("read")
         \/ /\ step \notin {"payload", "read", "readRest"} /\ InTurn(Place)
            /\ \/ Head(inbox).cmd \in Earlier(Place)
               \/ /\ waiting /\ inbox = <<Of(step)>> /\ Head(inbox) = Of(step)
                  /\ step \notin {"idle", "term", "return"}
<1>1. step = "payload" => FALSE
  BY DEF Turns, TurnPayload
<1>2. step = "readRest" => FALSE
  BY DEF Turns
<1>3. step = "read" => waiting /\ inbox = <<Of("read")>> /\ Head(inbox) = Of("read")
  BY DEF Turns, TurnRead
<1>4. step \notin {"payload", "read", "readRest"} => InTurn(Place)
  BY DEF Turns, TurnInit, TurnUrl, TurnContent, TurnData, TurnAction, TurnCleanup, InTurnOrDeaf, Deaf, InTurn,
         Place, HttpTypes, Steps, Old
<1>5. step \in {"idle", "term", "return"} => ~waiting
  BY DEF Turns
<1>6. ASSUME InTurn(Place)
      PROVE  Head(inbox).cmd \in Earlier(Place) \/ (waiting /\ inbox = <<Of(Place)>> /\ Head(inbox) = Of(Place))
  <2>1. \A b, c : inbox = <<b, c>> => Head(inbox) = b
    OBVIOUS
  <2>2. \A c : inbox = <<c>> => Head(inbox) = c
    OBVIOUS
  <2> QED
    BY <1>6, <2>1, <2>2 DEF InTurn
<1> QED
  BY <1>1, <1>2, <1>3, <1>4, <1>5, <1>6 DEF Place

\* One more token that tells of this call.
LEMMA AnswersGrow ==
  ASSUME HttpTypes, NEW t \in Tokens, Answer(<<t>>), rx' = rx, Told(t)',
         \A u \in {Coming[i] : i \in 1 .. Len(Coming)} : Told(u)'
  PROVE  OwnAnswers'
<1>1. <<t>> \in Seq(Tokens) /\ Len(<<t>>) = 1 /\ <<t>>[1] = t
  OBVIOUS
<1>2. Coming' = Coming \o <<t>> /\ Coming \in Seq(Tokens)
  BY <1>1, AnswerComes, ComingTyped
<1>3. /\ Len(Coming') = Len(Coming) + 1 /\ Len(Coming) \in Nat
      /\ \A i \in 1 .. Len(Coming) : Coming'[i] = Coming[i]
      /\ Coming'[Len(Coming) + 1] = t
  BY <1>1, <1>2, Parts
<1>4. ASSUME NEW i \in 1 .. Len(Coming') PROVE Told(Coming[i])'
  <2>1. CASE i \in 1 .. Len(Coming)
    BY <1>3, <2>1 DEF Told
  <2>2. CASE i = Len(Coming) + 1
    BY <1>3, <2>2 DEF Told
  <2> QED
    BY <1>3, <1>4, <2>1, <2>2
<1> QED
  BY <1>4 DEF OwnAnswers

\* The steps that an earlier command may still be taken up in.
LEMMA EarlierThan ==
  ASSUME NEW s
  PROVE  /\ "term" \in Earlier(s) => s \in {"term", "cgact"}
         /\ "cgact" \in Earlier(s) => s = "activate"
         /\ "activate" \in Earlier(s) => s \in {"term", "cgact", "cgpaddr"}
         /\ "cgpaddr" \in Earlier(s) => s = "init"
         /\ "init" \in Earlier(s) => s = "url"
         /\ "url" \in Earlier(s) =>
              /\ s \notin {"term", "cgact", "activate", "cgpaddr", "init", "url", "data"}
              /\ s = "action" => call.op = "GET"
         /\ "content" \in Earlier(s) => s = "data"
         /\ {"data", "action", "read"} \cap Earlier(s) = {}
  BY DEF Earlier

\* The same of the command that is taken up.
LEMMA Taking ==
  ASSUME HttpTypes, Turns, mode = "command", inbox # <<>>, Head(inbox).cmd # "read"
  PROVE  /\ step \notin {"payload", "read", "readRest"} /\ InTurn(Place)
         /\ Place = IF step \in {"idle", "term", "return"} THEN "term" ELSE step
         /\ \/ Head(inbox).cmd \in Earlier(Place) /\ ~(waiting /\ inbox = <<Of(Place)>>)
            \/ /\ waiting /\ inbox = <<Of(step)>> /\ Head(inbox) = Of(step) /\ Place = step
               /\ step \in Waits \cup {"cleanup"}
               /\ Head(inbox).cmd = IF step = "cleanup" THEN "term" ELSE step
<1>1. Of("read").cmd = "read" /\ Of(step).cmd = (IF step = "cleanup" THEN "term" ELSE step)
  BY DEF Of
<1>2. /\ step \notin {"payload", "read", "readRest"} /\ InTurn(Place)
      /\ \/ Head(inbox).cmd \in Earlier(Place)
         \/ /\ waiting /\ inbox = <<Of(step)>> /\ Head(inbox) = Of(step)
            /\ step \notin {"idle", "term", "return"}
  BY <1>1, Hearing
<1>3. step \in Waits \cup {"idle", "term", "return", "cleanup"}
  BY <1>2 DEF HttpTypes, Steps, Waits
<1>4. ASSUME waiting, inbox = <<Of(Place)>>
      PROVE  step \notin {"idle", "term", "return"} /\ Place = step /\ Head(inbox) = Of(step)
  <2>1. step \notin {"idle", "term", "return"}
    BY <1>4 DEF Turns
  <2>2. Place = step
    BY <2>1 DEF Place
  <2>3. \A c : inbox = <<c>> => Head(inbox) = c
    OBVIOUS
  <2> QED
    BY <1>4, <2>1, <2>2, <2>3
<1> QED
  BY <1>1, <1>2, <1>3, <1>4 DEF Place

\* The driver waits meanwhile.
LEMMA PlaceStays == Obeyed => Place' = Place
  BY DEF Obeyed, driver, Place

\* A command before the step's own is taken up.
LEMMA NotYet ==
  ASSUME HttpTypes, NEW s, InTurn(s), Obeyed, ~(waiting /\ inbox = <<Of(s)>>)
  PROVE  inbox' = IF waiting THEN <<Of(s)>> ELSE <<>>
<1>1. /\ inbox # <<>>
      /\ \A c : inbox = <<c>> => inbox' = <<>>
      /\ \A b, c : inbox = <<b, c>> => inbox' = <<c>>
  BY Obeys
<1> QED
  BY <1>1 DEF InTurn

\* Obeying, for the step the driver is in.
LEMMA TakesUp ==
  ASSUME HttpTypes, Turns, Obeyed, mode = "command", Head(inbox).cmd # "read", NEW tokens \in Seq(Tokens), Answer(tokens),
         Head(inbox).cmd \in Earlier(Place) => KindsOf(tokens) \in Old(Place),
         waiting /\ inbox = <<Of(Place)>> => \A l \in Old(Place) : l \o KindsOf(tokens) \in Due(Place)
  PROVE  /\ InTurn(Place)' /\ Place' = Place /\ rx' = rx
         /\ UNCHANGED <<step, waiting, call, raw>>
<1>1. InTurn(Place) /\ inbox # <<>>
  BY Taking DEF Obeyed
<1>2. Place' = Place
  BY PlaceStays
<1>3. ASSUME NEW s, s = Place PROVE InTurn(s)'
  BY <1>1, <1>3, Obeying
<1>4. InTurn(Place)'
  BY <1>2, <1>3 DEF InTurn
<1> QED
  BY <1>2, <1>4, Obeys

\* Each command of the modem.
LEMMA TurnsModemTerm == HttpTypes /\ Turns /\ ModemTerm => Turns'
<1> SUFFICES ASSUME HttpTypes, Turns, ModemTerm PROVE Turns'
  OBVIOUS
<1>1. PICK t \in {OK, ERROR} : Answer(<<t>>)
  BY DEF ModemTerm
<1>2. /\ Obeyed /\ mode = "command" /\ inbox # <<>> /\ Head(inbox).cmd = "term"
      /\ session' = Closed /\ mode' = mode
  BY DEF ModemTerm, InboxIs
<1>3. <<t>> \in Seq(Tokens) /\ KindsOf(<<t>>) \in {<<"OK">>, <<"ERROR">>}
  BY <1>1, TokensTyped, ShortKinds
<1>4. \/ /\ step \in {"idle", "term", "return", "cgact"} /\ Place \in {"term", "cgact"}
         /\ ~(waiting /\ inbox = <<Of(Place)>>)
      \/ step = "cleanup" /\ Place = "cleanup"
  BY <1>2, Taking, EarlierThan DEF Waits
<1>5. Head(inbox).cmd \in Earlier(Place) => KindsOf(<<t>>) \in Old(Place)
  BY <1>2, <1>3, EarlierThan DEF Old
<1>6. waiting /\ inbox = <<Of(Place)>> => \A l \in Old(Place) : l \o KindsOf(<<t>>) \in Due(Place)
  BY <1>3, <1>4, OwnDue
<1>7. InTurn(Place)' /\ Place' = Place /\ UNCHANGED <<step, waiting>>
  BY <1>1, <1>2, <1>3, <1>5, <1>6, TakesUp
<1>8. Rests'
  BY <1>2 DEF Rests, Closed
<1>9. step \in {"idle", "term", "return"} => ~waiting
  BY DEF Turns
<1> QED
  BY <1>4, <1>7, <1>8, <1>9 DEF Turns, Place, TurnCleanup, InTurnOrDeaf

LEMMA TurnsModemPdp == HttpTypes /\ Turns /\ ModemPdp => Turns'
<1> SUFFICES ASSUME HttpTypes, Turns, ModemPdp PROVE Turns'
  OBVIOUS
<1>1. /\ Obeyed /\ mode = "command" /\ inbox # <<>> /\ session' = session /\ mode' = mode
      /\ Head(inbox).cmd \in {"cgact", "activate", "cgpaddr"}
  BY DEF ModemPdp, InboxIs
<1>2. PICK tokens \in Seq(Tokens) :
        /\ Answer(tokens)
        /\ \/ Head(inbox).cmd = "cgact" /\ KindsOf(tokens) = <<"+CGACT", "OK">>
           \/ Head(inbox).cmd = "cgpaddr" /\ KindsOf(tokens) = <<"+CGPADDR", "OK">>
           \/ Head(inbox).cmd = "activate" /\ KindsOf(tokens) \in {<<"OK">>, <<"ERROR">>}
  <2>1. \A n \in {0, 1} : <<Tok("+CGACT", n), OK>> \in Seq(Tokens) /\ KindsOf(<<Tok("+CGACT", n), OK>>) = <<"+CGACT", "OK">>
    BY TokensTyped, ShortKinds DEF TokenKinds
  <2>2. <<Tok("+CGPADDR", Nothing), OK>> \in Seq(Tokens) /\ KindsOf(<<Tok("+CGPADDR", Nothing), OK>>) = <<"+CGPADDR", "OK">>
    BY TokensTyped, ShortKinds DEF TokenKinds, Args
  <2>3. ASSUME NEW t \in {OK, ERROR} PROVE <<t>> \in Seq(Tokens) /\ KindsOf(<<t>>) \in {<<"OK">>, <<"ERROR">>}
    BY TokensTyped, ShortKinds
  <2>4. \/ Head(inbox).cmd = "cgact" /\ \E n \in {0, 1} : Answer(<<Tok("+CGACT", n), OK>>)
        \/ Head(inbox).cmd = "cgpaddr" /\ Answer(<<Tok("+CGPADDR", Nothing), OK>>)
        \/ Head(inbox).cmd = "activate" /\ \E t \in {OK, ERROR} : Answer(<<t>>)
    BY DEF ModemPdp, InboxIs
  <2> QED
    BY <2>1, <2>2, <2>3, <2>4
<1>3. step \in {"idle", "term", "return", "cgact", "activate", "cgpaddr", "init"}
  BY <1>1, Taking, EarlierThan DEF Waits
<1>4. Head(inbox).cmd \in Earlier(Place) => KindsOf(tokens) \in Old(Place)
  BY <1>2, EarlierThan DEF Old
<1>5. waiting /\ inbox = <<Of(Place)>> => \A l \in Old(Place) : l \o KindsOf(tokens) \in Due(Place)
  <2>1. waiting /\ inbox = <<Of(Place)>> => Head(inbox).cmd = Place
    BY <1>1, <1>3, Taking
  <2> QED
    BY <1>1, <1>2, <2>1, OwnDue
<1>6. InTurn(Place)' /\ Place' = Place /\ UNCHANGED <<step, waiting>> /\ inbox' = Tail(inbox)
  BY <1>1, <1>2, <1>4, <1>5, TakesUp DEF Obeyed
<1>7. Rests'
  BY <1>1, <1>3 DEF Turns, TurnInit, InTurnOrDeaf, Deaf, Rests
<1>8. step = "init" => ~(waiting' /\ inbox' = <<>>)
  <2>1. ASSUME step = "init", waiting PROVE inbox' # <<>>
    <3>1. Head(inbox).cmd # "init" /\ InTurn("init")
      BY <1>1, <2>1 DEF Turns, TurnInit
    <3>2. \A b, c : inbox = <<b, c>> => Tail(inbox) = <<c>>
      OBVIOUS
    <3>3. inbox = <<Of("init")>> => Head(inbox).cmd = "init"
      BY DEF Of
    <3> QED
      BY <1>1, <1>6, <2>1, <3>1, <3>2, <3>3 DEF InTurn
  <2> QED
    BY <1>6, <2>1
<1>9. step \in {"idle", "term", "return"} => ~waiting
  BY DEF Turns
<1> QED
  BY <1>3, <1>6, <1>7, <1>8, <1>9 DEF Turns, Place, TurnInit, InTurnOrDeaf

LEMMA TurnsModemInit == HttpTypes /\ Turns /\ ModemInit => Turns'
<1> SUFFICES ASSUME HttpTypes, Turns, ModemInit PROVE Turns'
  OBVIOUS
<1>1. PICK t \in {OK, ERROR} : Answer(<<t>>)
  BY DEF ModemInit
<1>2. /\ Obeyed /\ mode = "command" /\ inbox # <<>> /\ Head(inbox).cmd = "init"
      /\ session' = [session EXCEPT !.open = TRUE] /\ mode' = mode
  BY DEF ModemInit, InboxIs
<1>3. <<t>> \in Seq(Tokens) /\ KindsOf(<<t>>) \in {<<"OK">>, <<"ERROR">>}
  BY <1>1, TokensTyped, ShortKinds
<1>4. \/ step = "init" /\ Place = "init"
      \/ step = "url" /\ Place = "url" /\ ~(waiting /\ inbox = <<Of("url")>>)
  BY <1>2, Taking, EarlierThan DEF Waits
<1>5. Head(inbox).cmd \in Earlier(Place) => KindsOf(<<t>>) \in Old(Place)
  BY <1>2, <1>3, EarlierThan DEF Old
<1>6. waiting /\ inbox = <<Of(Place)>> => \A l \in Old(Place) : l \o KindsOf(<<t>>) \in Due(Place)
  BY <1>3, <1>4, OwnDue
<1>7. InTurn(Place)' /\ Place' = Place /\ UNCHANGED <<step, waiting, call>>
  BY <1>1, <1>2, <1>3, <1>5, <1>6, TakesUp
<1>8. session'.open /\ session'.pending = session.pending
  BY <1>2 DEF HttpTypes, Sessions
<1>9. CASE step = "init"
  BY <1>2, <1>4, <1>7, <1>8, <1>9 DEF Turns, TurnInit, Rests
<1>10. CASE step = "url"
  <2>1. InTurn("url") /\ Rests
    BY <1>10 DEF Turns, TurnUrl
  <2>2. waiting => inbox' # <<>>
    BY <1>2, <1>4, <1>10, <2>1, NotYet
  <2> QED
    BY <1>2, <1>4, <1>7, <1>8, <1>10, <2>1, <2>2 DEF Turns, TurnUrl, Rests
<1> QED
  BY <1>4, <1>9, <1>10

LEMMA TurnsModemUrl == HttpTypes /\ Turns /\ ModemPara /\ InboxIs("url") => Turns'
<1> SUFFICES ASSUME HttpTypes, Turns, ModemPara, InboxIs("url") PROVE Turns'
  OBVIOUS
<1>1. PICK t \in {OK, ERROR} : Answer(<<t>>) /\ t = IF session.open THEN OK ELSE ERROR
  BY DEF ModemPara
<1>2. /\ Obeyed /\ mode = "command" /\ inbox # <<>> /\ Head(inbox).cmd = "url"
      /\ session' = IF session.open THEN [session EXCEPT !.url = Head(inbox).arg] ELSE session
      /\ UNCHANGED <<mode, server>>
  BY DEF ModemPara, InboxIs
<1>3. t \in Tokens /\ <<t>> \in Seq(Tokens) /\ KindsOf(<<t>>) = (IF session.open THEN <<"OK">> ELSE <<"ERROR">>)
  BY <1>1, TokensTyped, ShortKinds
<1>4. \/ step = "url" /\ Place = "url" /\ Head(inbox) = Of("url")
      \/ /\ step \in {"content", "action", "cleanup"} /\ Place = step /\ ~(waiting /\ inbox = <<Of(step)>>)
         /\ step = "action" => call.op = "GET"
  <2>1. \/ Head(inbox).cmd \in Earlier(Place) /\ ~(waiting /\ inbox = <<Of(Place)>>)
        \/ Place = step /\ Head(inbox) = Of(step) /\ step = "url"
    BY <1>2, Taking
  <2>2. /\ step \in Waits \cup {"idle", "term", "return", "cleanup"}
        /\ Place = IF step \in {"idle", "term", "return"} THEN "term" ELSE step
    BY <1>2, Taking DEF HttpTypes, Steps, Waits
  <2> QED
    BY <1>2, <2>1, <2>2, EarlierThan DEF Waits
<1>5. step # "cleanup" => session.open
  <2>1. ~Queued("init")
    BY <1>2 DEF Queued, Of
  <2> QED
    BY <1>4, <2>1 DEF Turns, TurnUrl, TurnContent, TurnAction
<1>6. Head(inbox).cmd \in Earlier(Place) => KindsOf(<<t>>) \in Old(Place)
  <2>1. "url" \notin Earlier("url")
    BY EarlierThan
  <2> QED
    BY <1>2, <1>3, <1>4, <1>5, <2>1 DEF Old
<1>7. waiting /\ inbox = <<Of(Place)>> => \A l \in Old(Place) : l \o KindsOf(<<t>>) \in Due(Place)
  BY <1>3, <1>4, <1>5, OwnDue
<1>8. InTurn(Place)' /\ Place' = Place /\ rx' = rx /\ UNCHANGED <<step, waiting, call>>
  BY <1>1, <1>2, <1>3, <1>6, <1>7, TakesUp
<1>9. /\ session'.open = session.open /\ session'.pending = session.pending /\ session'.data = session.data
      /\ session'.body = session.body
      /\ session.open => session'.url = Head(inbox).arg
  BY <1>2 DEF HttpTypes, Sessions
<1>10. ASSUME step \in {"content", "action"} PROVE Aimed' /\ inbox' = IF waiting THEN <<Of(step)>> ELSE <<>>
  <2>1. Aimed /\ InTurn(step)
    BY <1>10 DEF Turns, TurnContent, TurnAction
  <2>2. inbox' = IF waiting THEN <<Of(step)>> ELSE <<>>
    BY <1>2, <1>4, <1>10, <2>1, NotYet
  <2>3. \A c : Head(<<c>>) = c
    OBVIOUS
  <2>4. Of(step).cmd # "url"
    BY <1>10 DEF Of
  <2>5. session'.url = call.n
    BY <1>2, <1>5, <1>9, <1>10, <2>1 DEF Aimed
  <2> QED
    BY <1>8, <2>2, <2>3, <2>4, <2>5 DEF Aimed
<1>11. CASE step = "url"
  <2>1. session'.url = call.n
    BY <1>4, <1>5, <1>9, <1>11 DEF Of
  <2> QED
    BY <1>2, <1>4, <1>5, <1>8, <1>9, <1>11, <2>1 DEF Turns, TurnUrl, Rests
<1>12. CASE step = "content"
  BY <1>2, <1>4, <1>5, <1>8, <1>9, <1>10, <1>12 DEF Turns, TurnContent, Rests
<1>13. CASE step = "action"
  <2>1. TurnAction /\ session.pending = "none"
    BY <1>2, <1>13 DEF Turns, TurnAction
  <2>2. Told(t)'
    BY <1>1, KindsAre DEF Told
  <2>3. \A u \in {Coming[i] : i \in 1 .. Len(Coming)} : Told(u)'
    BY <1>2, <1>8, <1>9, <2>1 DEF TurnAction, OwnAnswers, Told
  <2>4. OwnAnswers'
    BY <1>1, <1>3, <1>8, <2>2, <2>3, AnswersGrow
  <2> QED
    BY <1>2, <1>4, <1>8, <1>9, <1>10, <1>13, <2>1, <2>4 DEF Turns, TurnAction
<1>14. CASE step = "cleanup"
  <2>1. Rests
    <3>1. ~(waiting /\ inbox = <<Of("cleanup")>>)
      BY <1>4, <1>14
    <3> QED
      BY <1>2, <1>14, <3>1 DEF Turns, TurnCleanup, InTurnOrDeaf, Deaf
  <2> QED
    BY <1>2, <1>4, <1>8, <1>9, <1>14, <2>1 DEF Turns, TurnCleanup, InTurnOrDeaf, Rests
<1> QED
  BY <1>4, <1>11, <1>12, <1>13, <1>14

LEMMA TurnsModemContent == HttpTypes /\ Turns /\ ModemPara /\ InboxIs("content") => Turns'
<1> SUFFICES ASSUME HttpTypes, Turns, ModemPara, InboxIs("content") PROVE Turns'
  OBVIOUS
<1>1. Obeyed /\ mode = "command" /\ inbox # <<>> /\ Head(inbox).cmd = "content" /\ UNCHANGED <<session, mode, server>>
  BY DEF ModemPara, InboxIs
<1>2. \/ step = "content" /\ Place = "content" /\ waiting /\ inbox = <<Of("content")>>
      \/ step = "data" /\ Place = "data" /\ ~(waiting /\ inbox = <<Of("data")>>)
  BY <1>1, Taking, EarlierThan DEF Waits
<1>3. session.open
  BY <1>2 DEF Turns, TurnContent, TurnData
<1>4. Answer(<<OK>>) /\ <<OK>> \in Seq(Tokens) /\ KindsOf(<<OK>>) = <<"OK">>
  BY <1>3, TokensTyped, ShortKinds DEF ModemPara
<1>5. Head(inbox).cmd \in Earlier(Place) => KindsOf(<<OK>>) \in Old(Place)
  BY <1>2, <1>4 DEF Old
<1>6. waiting /\ inbox = <<Of(Place)>> => \A l \in Old(Place) : l \o KindsOf(<<OK>>) \in Due(Place)
  BY <1>2, <1>4, OwnDue
<1>7. InTurn(Place)' /\ Place' = Place /\ UNCHANGED <<step, waiting, call>>
  BY <1>1, <1>4, <1>5, <1>6, TakesUp
<1>8. CASE step = "content"
  <2>1. inbox' = <<>>
    BY <1>1, <1>2, <1>8, Obeys
  <2>2. session.url = call.n
    BY <1>1, <1>8 DEF Turns, TurnContent, Aimed
  <2> QED
    BY <1>1, <1>2, <1>7, <1>8, <2>1, <2>2 DEF Turns, TurnContent, Rests, Aimed
<1>9. CASE step = "data"
  <2>1. TurnData /\ InTurn("data")
    BY <1>9 DEF Turns, TurnData
  <2>2. waiting => inbox' # <<>>
    BY <1>1, <1>2, <1>9, <2>1, NotYet
  <2> QED
    BY <1>1, <1>2, <1>7, <1>9, <2>1, <2>2 DEF Turns, TurnData
<1> QED
  BY <1>2, <1>8, <1>9

LEMMA TurnsModemData == HttpTypes /\ Turns /\ ModemData => Turns'
<1> SUFFICES ASSUME HttpTypes, Turns, ModemData PROVE Turns'
  OBVIOUS
<1>1. Obeyed /\ mode = "command" /\ inbox # <<>> /\ Head(inbox).cmd = "data"
  BY DEF ModemData, InboxIs
<1>2. step = "data" /\ Place = "data" /\ waiting /\ inbox = <<Of("data")>>
  BY <1>1, Taking, EarlierThan DEF Waits
<1>3. TurnData /\ call.op = "POST"
  BY <1>2 DEF Turns
<1> DEFINE t == Tok("DOWNLOAD", Nothing)
<1>4. /\ Answer(<<t>>) /\ mode' = "data" /\ session' = [session EXCEPT !.data = Nothing]
  BY <1>3 DEF ModemData, Ready, TurnData
<1>5. <<t>> \in Seq(Tokens) /\ KindsOf(<<t>>) = <<"DOWNLOAD">>
  BY TokensTyped, ShortKinds DEF TokenKinds, Args
<1> HIDE DEF t
<1>6. Head(inbox).cmd \notin Earlier(Place)
  BY <1>1, EarlierThan
<1>7. \A l \in Old(Place) : l \o KindsOf(<<t>>) \in Due(Place)
  BY <1>2, <1>5, OwnDue
<1>8. InTurn(Place)' /\ Place' = Place /\ UNCHANGED <<step, waiting, call>>
  BY <1>1, <1>4, <1>5, <1>6, <1>7, TakesUp
<1>9. inbox' = <<>>
  BY <1>1, <1>2, Obeys
<1>10. /\ session'.open = session.open /\ session'.pending = session.pending /\ session'.url = session.url
       /\ session'.data = Nothing
  BY <1>4 DEF HttpTypes, Sessions
<1> QED
  BY <1>2, <1>3, <1>4, <1>8, <1>9, <1>10 DEF Turns, TurnData

LEMMA TurnsModemTakesData == HttpTypes /\ Turns /\ ModemTakesData => Turns'
<1> SUFFICES ASSUME HttpTypes, Turns, ModemTakesData PROVE Turns'
  OBVIOUS
<1>1. Obeyed /\ mode = "data" /\ inbox # <<>>
  BY DEF ModemTakesData
<1>2. /\ step \in {"cgact", "activate", "cleanup"} => Deaf(step)
      /\ step \notin {"cgact", "activate", "cleanup"} => step = "payload"
  BY <1>1 DEF Turns, TurnInit, TurnUrl, TurnContent, TurnData, TurnAction, TurnRead, TurnCleanup, InTurnOrDeaf,
      Deaf,
         Rests, HttpTypes, Steps
<1>3. /\ rx' = rx /\ UNCHANGED <<step, waiting, call, raw>> /\ (\A s : Of(s)' = Of(s))
      /\ \A c : inbox = <<c>> => Head(inbox) = c /\ inbox' = <<>>
  BY <1>1, Obeys
<1>4. CASE step \in {"cgact", "activate", "cleanup"}
  <2>1. Deaf(step) /\ waiting /\ inbox = <<Of(step)>>
    BY <1>1, <1>2, <1>4 DEF Deaf
  <2>2. Head(inbox) = Of(step) /\ Head(inbox).cmd # "payload"
    BY <1>3, <1>4, <2>1 DEF Of
  <2>3. session' = [session EXCEPT !.data = Garbage] /\ UNCHANGED <<mode, wire>>
    BY <2>2 DEF ModemTakesData
  <2>4. session'.pending = session.pending
    BY <2>3 DEF HttpTypes, Sessions
  <2>5. inbox' = <<>> /\ Line' = Line
    BY <1>3, <2>1, <2>3 DEF Line, Coming
  <2>6. Deaf(step)'
    BY <1>3, <2>1, <2>3, <2>4, <2>5 DEF Deaf
  <2> QED
    BY <1>3, <1>4, <2>6 DEF Turns, TurnCleanup, InTurnOrDeaf
<1>5. CASE step = "payload"
  <2>1. /\ TurnPayload /\ waiting /\ inbox = <<Of("payload")>> /\ Line = <<>>
        /\ session.data = Nothing /\ call.op = "POST"
    BY <1>1, <1>5 DEF Turns, TurnPayload
  <2>2. inbox' = <<>> /\ Head(inbox) = Of("payload") /\ Of("payload").cmd = "payload" /\ Of("payload").arg = call.n
    BY <1>3, <2>1 DEF Of
  <2>3. /\ session' = [session EXCEPT !.data = IF @ = Nothing THEN Head(inbox).arg ELSE Garbage]
        /\ mode' = "command" /\ Answer(<<OK>>)
    BY <2>2 DEF ModemTakesData
  <2>4. /\ session'.open = session.open /\ session'.pending = session.pending /\ session'.url = session.url
        /\ session'.data = call.n
    BY <2>1, <2>2, <2>3 DEF HttpTypes, Sessions
  <2>5. Line' = <<"OK">>
    <3>1. <<OK>> \in Seq(Tokens) /\ KindsOf(<<OK>>) = <<"OK">>
      BY TokensTyped, ShortKinds
    <3> QED
      BY <1>3, <2>1, <2>3, <3>1, LineGrows
  <2> QED
    BY <1>3, <1>5, <2>1, <2>2, <2>3, <2>4, <2>5 DEF Turns, TurnPayload
<1> QED
  BY <1>2, <1>4, <1>5

LEMMA TurnsDataTimeout == HttpTypes /\ Turns /\ ModemDataTimeout => Turns'
<1> SUFFICES ASSUME HttpTypes, Turns, ModemDataTimeout PROVE Turns'
  OBVIOUS
<1>1. /\ mode = "data" /\ inbox = <<>> /\ step \notin {"data", "payload"} /\ mode' = "command"
      /\ session' = [session EXCEPT !.data = Garbage]
      /\ rx' = rx /\ inbox' = inbox /\ UNCHANGED <<step, waiting, call>>
  BY DEF ModemDataTimeout, driver
<1>2. PICK t \in {OK, ERROR} : Answer(<<t>>)
  BY DEF ModemDataTimeout
<1>3. <<t>> \in Seq(Tokens) /\ KindsOf(<<t>>) \in {<<"OK">>, <<"ERROR">>}
  BY <1>2, TokensTyped, ShortKinds
<1>4. /\ step \in {"idle", "term", "return", "cgact", "activate", "cleanup"}
      /\ Line = <<>> /\ session.pending = "none"
  BY <1>1 DEF Turns, TurnInit, TurnUrl, TurnContent, TurnAction, TurnRead, TurnCleanup, InTurnOrDeaf, Deaf, Rests,
         HttpTypes, Steps
<1>5. Line' \in {<<"OK">>, <<"ERROR">>}
  BY <1>1, <1>2, <1>3, <1>4, LineGrows
<1>6. Rests'
  BY <1>1, <1>4 DEF Rests, HttpTypes, Sessions
<1>7. step \in {"idle", "term", "return"} => ~waiting
  BY DEF Turns
<1>8. InTurn("term")' \/ waiting
  BY <1>1, <1>5 DEF InTurn, Old
<1>9. InTurn("cgact")' /\ InTurn("activate")' /\ InTurn("cleanup")'
  BY <1>1, <1>5 DEF InTurn, Old, Due
<1> QED
  BY <1>1, <1>4, <1>6, <1>7, <1>8, <1>9 DEF Turns, TurnCleanup, InTurnOrDeaf

LEMMA TurnsModemAction == HttpTypes /\ Turns /\ ModemAction => Turns'
<1> SUFFICES ASSUME HttpTypes, Turns, ModemAction PROVE Turns'
  OBVIOUS
<1>1. Obeyed /\ mode = "command" /\ inbox # <<>> /\ Head(inbox).cmd = "action" /\ UNCHANGED <<mode, server>>
  BY DEF ModemAction, InboxIs
<1>2. step = "action" /\ Place = "action" /\ waiting /\ inbox = <<Of("action")>> /\ Head(inbox) = Of("action")
  BY <1>1, Taking, EarlierThan DEF Waits
<1>3. TurnAction /\ session.pending = "none" /\ Line \in Old("action")
  BY <1>1, <1>2 DEF Turns, TurnAction, InTurn
<1>4. /\ Answer(<<OK>>) /\ session' = [session EXCEPT !.pending = call.op]
  BY <1>2, <1>3 DEF ModemAction, Ready, TurnAction, Of
<1>5. <<OK>> \in Seq(Tokens) /\ KindsOf(<<OK>>) = <<"OK">> /\ OK \in Tokens
  BY TokensTyped, ShortKinds
<1>6. inbox' = <<>> /\ rx' = rx /\ UNCHANGED <<step, waiting, call>>
  BY <1>1, <1>2, Obeys
<1>7. Line' \in {<<"OK">>, <<"OK", "OK">>}
  <2>1. Line' = Line \o <<"OK">>
    BY <1>4, <1>5, <1>6, LineGrows
  <2>2. <<>> \o <<"OK">> = <<"OK">> /\ <<"OK">> \o <<"OK">> = <<"OK", "OK">>
    <3>1. "OK" \in TokenKinds
      BY DEF TokenKinds
    <3> QED
      BY <3>1, JoinEmpty, Join11
  <2> QED
    BY <1>3, <2>1, <2>2 DEF Old
<1>8. /\ session'.open = session.open /\ session'.pending = call.op /\ session'.url = session.url
      /\ session'.data = session.data /\ session'.body = session.body
  BY <1>4 DEF HttpTypes, Sessions
<1>9. OwnAnswers'
  <2>1. Told(OK)'
    BY KindsAre DEF Told
  <2>2. \A u \in {Coming[i] : i \in 1 .. Len(Coming)} : Told(u)'
    BY <1>1, <1>3, <1>6, <1>8 DEF TurnAction, OwnAnswers, Told
  <2> QED
    BY <1>4, <1>5, <1>6, <2>1, <2>2, AnswersGrow
<1>10. InTurn("action")' /\ Aimed'
  <2>1. session.url = call.n
    BY <1>1, <1>3 DEF TurnAction, Aimed
  <2> QED
    BY <1>2, <1>6, <1>7, <1>8, <2>1 DEF InTurn, Due, Aimed
<1> QED
  BY <1>1, <1>2, <1>3, <1>6, <1>7, <1>8, <1>9, <1>10 DEF Turns, TurnAction

LEMMA TurnsActionEnds == HttpTypes /\ Turns /\ ActionEnds => Turns'
<1> SUFFICES ASSUME HttpTypes, Turns, ActionEnds PROVE Turns'
  OBVIOUS
<1>1. session.pending # "none" /\ rx' = rx /\ UNCHANGED <<step, waiting, call, inbox, mode>>
  BY DEF ActionEnds, driver
<1>0. PICK status \in Statuses :
        /\ IF ~pdp THEN status = 500
           ELSE NetworkFaults \/ status = 200 \/ (status = 204 /\ session.pending = "POST")
        /\ session' = [session EXCEPT !.pending = "none",
                                      !.body = IF status = 200 THEN session.url ELSE Nothing]
        /\ Answer(<<Tok("+HTTPACTION", status)>>)
        /\ IF session.pending = "POST" /\ Is2xx(status)
           THEN server' = server \cup {session.data}
           ELSE UNCHANGED server
        /\ trouble' = (trouble \/ status = 500 \/ (status = 204 /\ session.pending = "GET"))
  BY Zenon DEF ActionEnds
<1>2. /\ session' = [session EXCEPT !.pending = "none", !.body = IF status = 200 THEN session.url ELSE Nothing]
      /\ Answer(<<Tok("+HTTPACTION", status)>>)
      /\ session.pending = "POST" /\ Is2xx(status) => session.data \in server'
  <2>1. session.pending = "POST" /\ Is2xx(status) => server' = server \cup {session.data}
    BY <1>0, Zenon
  <2>2. session.data \in server \cup {session.data}
    OBVIOUS
  <2>3. /\ session' = [session EXCEPT !.pending = "none", !.body = IF status = 200 THEN session.url ELSE Nothing]
        /\ Answer(<<Tok("+HTTPACTION", status)>>)
    BY <1>0, Zenon
  <2> QED
    BY <2>1, <2>2, <2>3, Zenon
<1> DEFINE t == Tok("+HTTPACTION", status)
<1>3. /\ t \in Tokens /\ <<t>> \in Seq(Tokens) /\ KindsOf(<<t>>) = <<"+HTTPACTION">>
      /\ t.kind = "+HTTPACTION" /\ t.arg = status
  <2>1. t \in Tokens
    BY TokensTyped DEF TokenKinds
  <2> QED
    BY <2>1, ShortKinds, KindsAre
<1>4. Answer(<<t>>)
  BY <1>2
<1> HIDE DEF t
<1>5. /\ session'.open = session.open /\ session'.pending = "none" /\ session'.url = session.url
      /\ session'.data = session.data /\ (status = 200 => session'.body = session.url)
  BY <1>2 DEF HttpTypes, Sessions
<1>6. \/ step = "action" /\ TurnAction
      \/ /\ step = "cleanup" /\ mode = "command" /\ Line = <<>>
         /\ inbox = IF waiting THEN <<Of("cleanup")>> ELSE <<>>
  BY <1>1 DEF Turns, TurnInit, TurnUrl, TurnContent, TurnData, TurnPayload, TurnRead, TurnCleanup,
      InTurnOrDeaf, Deaf, Rests,
         HttpTypes, Steps
<1>7. /\ Line' = Line \o <<"+HTTPACTION">>
      /\ Line = <<>> => Line' = <<"+HTTPACTION">>
  BY <1>1, <1>3, <1>4, LineGrows
<1>8. CASE step = "cleanup"
  <2>1. InTurn("cleanup")'
    BY <1>1, <1>6, <1>7, <1>8, SameCall DEF InTurn, Old
  <2> QED
    BY <1>1, <1>5, <1>6, <1>8, <2>1 DEF Turns, TurnCleanup, InTurnOrDeaf, Rests
<1>9. CASE step = "action"
  <2>1. /\ TurnAction /\ waiting /\ inbox = <<>> /\ session.url = call.n /\ session.pending = call.op
        /\ Line \in {<<>>, <<"OK">>, <<"OK", "OK">>}
    BY <1>1, <1>6, <1>9 DEF TurnAction, Aimed
  <2>2. Line' \in Due("action")
    BY <1>7, <2>1, OwnDue
  <2>3. InTurn("action")' /\ Aimed'
    BY <1>1, <1>5, <2>1, <2>2, SameCall DEF InTurn, Aimed
  <2>4. Told(t)'
    BY <1>1, <1>2, <1>3, <1>5, <2>1 DEF Told, TurnAction
  <2>5. \A u \in {Coming[i] : i \in 1 .. Len(Coming)} : u.kind = "OK"
    <3>1. Coming \in Seq(Tokens)
      BY ComingTyped
    <3>2. /\ Len(Line) = Len(Coming) /\ Len(Coming) \in Nat
          /\ \A i \in 1 .. Len(Coming) : Line[i] = Coming[i].kind
      BY <3>1, KindsTyped DEF Line
    <3>3. \A i \in 1 .. Len(Line) : Line[i] = "OK"
      BY <2>1
    <3> QED
      BY <3>2, <3>3
  <2>6. OwnAnswers'
    BY <1>1, <1>3, <1>4, <2>4, <2>5, AnswersGrow DEF Told
  <2> QED
    BY <1>1, <1>5, <1>9, <2>1, <2>3, <2>6 DEF Turns, TurnAction
<1> QED
  BY <1>6, <1>8, <1>9

LEMMA TurnsModemRead == HttpTypes /\ Turns /\ ModemRead => Turns'
<1> SUFFICES ASSUME HttpTypes, Turns, ModemRead PROVE Turns'
  OBVIOUS
<1>1. Obeyed /\ mode = "command" /\ inbox # <<>> /\ Head(inbox).cmd = "read" /\ UNCHANGED <<session, mode>>
  BY DEF ModemRead, InboxIs, modem
<1>2. step = "read" /\ waiting /\ inbox = <<Of("read")>>
  <2>1. Head(inbox).cmd \notin Earlier(Place)
    BY <1>1, EarlierThan
  <2>2. Of(step).cmd = "read" => step = "read"
    BY DEF Of
  <2> QED
    BY <1>1, <2>1, <2>2, Hearing
<1>3. TurnRead /\ Coming = <<>> /\ raw = <<>> /\ call.n # Nothing /\ call.n \in Nat
  <2>1. Coming \in Seq(Tokens)
    BY ComingTyped
  <2> QED
    BY <1>2, <2>1, KindsTyped DEF Turns, TurnRead, Line, HttpTypes
<1>4. Answer(Page(call.n))
  BY <1>1, <1>3 DEF ModemRead, TurnRead, Page
<1>5. /\ inbox' = <<>> /\ rx' = rx /\ UNCHANGED <<step, waiting, call, raw>>
  BY <1>1, <1>2, Obeys
<1>6. Page(call.n) \in Seq(Tokens)
  BY <1>3, PageIs, TokensTyped
<1>7. Coming' = Page(call.n) /\ raw' \o Coming' = Page(call.n)
  BY <1>3, <1>4, <1>5, <1>6, AnswerComes, JoinEmpty
<1>8. Paged(KindsOf(Page(call.n)))
  <2> DEFINE p == Page(call.n)
             k == KindsOf(p)
  <2>1. Len(p) = 4 /\ p[1].kind = "+HTTPREAD" /\ p[2].kind = "BODY1" /\ p[3].kind = "BODY2"
    BY <1>3, PageIs, TokensTyped, KindsAre
  <2>2. p[4].kind = "OK"
    BY <1>3, PageIs, TokensTyped, KindsAre
  <2>3. Len(k) = Len(p) /\ \A i \in 1 .. Len(p) : k[i] = p[i].kind
    BY <1>6, KindsTyped
  <2> HIDE DEF p, k
  <2>4. Len(k) = 4 /\ k[1] = "+HTTPREAD" /\ k[2] = "BODY1" /\ k[3] = "BODY2" /\ k[4] = "OK"
    BY <2>1, <2>2, <2>3
  <2>5. \A i \in 1 .. 4 : i = 1 \/ i = 2 \/ i = 3 \/ i = 4
    OBVIOUS
  <2> QED
    BY <2>4, <2>5 DEF Paged, k, p
<1>9. Paged(Line')
  BY <1>7, <1>8 DEF Line
<1> QED
  BY <1>1, <1>2, <1>3, <1>5, <1>7, <1>9 DEF Turns, TurnRead, Rests

-----------------------------------------------------------------------------
(* What a call has done when it returns true.                              *)

\* The actions that are the modem's alone.
LEMMA ModemOnly ==
  Modem \/ Cut \/ ModemDataTimeout \/ PdpLost => UNCHANGED driver
  BY DEF Modem, Arrive, ModemTerm, ModemPdp, ModemInit, ModemPara, ModemData, ModemTakesData, ModemAction,
      ActionEnds,
         ModemRead, Obeyed, Cut, ModemDataTimeout, PdpLost

\* Once behind, a modem is so until it is powered off.
LEMMA BehindStays == [HttpNext]_httpVars /\ behind /\ ~behind' => PowerCycle
  BY ModemOnly
  DEF HttpNext, Driver, Begin, SkipTerm, SendCommand, Found, Skipped, FoundError, TimeOut, ReadRest, GetReads,
      GetReadEnds, TermEnds, Return, NoteLate, driver, httpVars

\* Every step that leaves no command behind keeps Turns, and powering the modem restores it.
LEMMA TurnsNext == HttpTypes /\ (~behind => Turns) /\ Initialized /\ [HttpNext]_httpVars => (~behind' => Turns')
<1> SUFFICES ASSUME HttpTypes, ~behind => Turns, Initialized, [HttpNext]_httpVars, ~behind' PROVE Turns'
  OBVIOUS
<1>1. CASE PowerCycle
  BY <1>1, TurnsCycle
<1> SUFFICES ASSUME ~PowerCycle PROVE Turns'
  BY <1>1
<1>2. Turns
  BY BehindStays
<1>3. CASE Begin
  BY <1>2, <1>3, TurnsBegin
<1>4. CASE Driver
  BY <1>2, <1>4, TurnsSkipTerm, TurnsSend, TurnsFound, TurnsShrink, TurnsRefused, TurnsTimeOut, TurnsReadRest,
     TurnsGetReads, TurnsGetReadEnds, TurnsTermEnds, TurnsReturn DEF Driver
<1>5. CASE ModemPara
  BY <1>2, <1>5, TurnsModemUrl, TurnsModemContent DEF ModemPara
<1>6. CASE Modem
  BY <1>2, <1>5, <1>6, TurnsArrive, TurnsModemTerm, TurnsModemPdp, TurnsModemInit, TurnsModemData,
     TurnsModemTakesData, TurnsModemAction, TurnsActionEnds, TurnsModemRead DEF Modem
<1>7. CASE Cut \/ ModemDataTimeout \/ PdpLost
  BY <1>2, <1>7, TurnsShrink, TurnsDataTimeout, TurnsPdp
<1>8. CASE UNCHANGED httpVars
  <2>1. Coming' = Coming /\ UNCHANGED <<step, waiting, call, raw, inbox, session, mode, server>>
    BY <1>8 DEF httpVars, Coming
  <2> QED
    BY <1>2, <2>1, TurnsStay
<1> QED
  BY <1>3, <1>4, <1>6, <1>7, <1>8 DEF HttpNext

\* Every step keeps Initialized.
LEMMA InitializedNext == HttpTypes /\ Initialized /\ [HttpNext]_httpVars => Initialized'
<1> SUFFICES ASSUME HttpTypes, Initialized, [HttpNext]_httpVars PROVE Initialized'
  OBVIOUS
<1>1. CASE Begin \/ PowerCycle
  BY <1>1 DEF Begin, PowerCycle, GoTo, Initialized
<1>2. CASE SkipTerm \/ SendCommand \/ Skipped \/ Return
  BY <1>2 DEF SkipTerm, SendCommand, Skipped, Return, NoTerm, AfterTerm, GoTo, Initialized, driver
<1>3. CASE Found
  <2>1. /\ step \in Waits \cup {"payload", "read"} /\ step' = After(First(rx, Expect[step]))
        /\ inited' = (inited \/ step = "init")
    BY <1>3 DEF Found, InWaitForToken, Expect, Waits, GoTo, Opened, HttpTypes
  <2> DEFINE token == First(rx, Expect[step])
  <2> HIDE DEF token
  <2>2. step' = After(token)
    BY <2>1 DEF token
  <2> QED
    BY <2>1, <2>2 DEF Waits, After, AfterAction, Initialized, HttpTypes
<1>4. CASE FoundError \/ TimeOut
  <2>1. step \in Waits \cup {"payload", "read"} /\ step' = Failed /\ inited' = inited
    BY <1>4 DEF FoundError, TimeOut, InWaitForToken, Expect, Waits, GoTo
  <2> QED
    BY <2>1 DEF Waits, Failed, Initialized
<1>5. CASE ReadRest \/ GetReads \/ GetReadEnds
  BY <1>5 DEF ReadRest, GetReads, GetReadEnds, GoTo, Initialized
<1>6. CASE TermEnds
  BY <1>6 DEF TermEnds, AfterTerm, GoTo, Initialized
<1>7. CASE Modem \/ Cut \/ ModemDataTimeout \/ PdpLost \/ UNCHANGED httpVars
  BY <1>7, ModemOnly DEF driver, httpVars, Initialized
<1> QED
  BY <1>1, <1>2, <1>3, <1>4, <1>5, <1>6, <1>7 DEF HttpNext, Driver

\* The server forgets nothing.
LEMMA ServerGrows == [HttpNext]_httpVars => server \subseteq server'
<1>1. ActionEnds => server \subseteq server'
  BY DEF ActionEnds
<1>2. Modem => server \subseteq server'
  BY <1>1 DEF Modem, Arrive, ModemTerm, ModemPdp, ModemInit, ModemPara, ModemData, ModemTakesData, ModemAction,
              ModemRead, modem
<1>3. Driver => server \subseteq server'
  BY DEF Driver, SkipTerm, SendCommand, Found, Skipped, FoundError, TimeOut, ReadRest, GetReads, GetReadEnds,
      TermEnds,
         Return, modem
<1> QED
  BY <1>2, <1>3 DEF HttpNext, Begin, PowerCycle, Cut, ModemDataTimeout, PdpLost, modem, httpVars

\* A call has what it will return true for.
LEMMA EarnedNext == HttpTypes /\ Turns /\ ~behind' /\ Earned /\ [HttpNext]_httpVars => Earned'
<1> SUFFICES ASSUME HttpTypes, Turns, ~behind', Earned, [HttpNext]_httpVars PROVE Earned'
  OBVIOUS
<1>1. server \subseteq server'
  BY ServerGrows
<1>2. CASE Begin
  BY <1>2 DEF Begin, Earned
<1>3. CASE PowerCycle \/ SkipTerm \/ SendCommand \/ Skipped \/ Return
  <2>1. UNCHANGED <<call, result, response>> /\ (step' = step \/ (step = "return" /\ step' = "idle") \/ SkipTerm)
    BY <1>3 DEF PowerCycle, SkipTerm, SendCommand, Skipped, Return, GoTo, driver
  <2>2. SkipTerm => (step = "term" /\ step' = "cgact") \/ (step = "cleanup" /\ step' = "return")
    BY DEF SkipTerm, NoTerm, AfterTerm, GoTo
  <2> QED
    BY <1>1, <2>1, <2>2 DEF Earned
<1>4. CASE Found
  <2> DEFINE token == First(rx, Expect[step])
  <2>1. /\ step \in Waits \cup {"payload", "read"} /\ (step = "read" => call.op = "POST")
        /\ step' = After(token) /\ UNCHANGED <<call, response>>
        /\ result' = IF step = "action" THEN Accepts(token) ELSE result
    BY <1>4 DEF Found, InWaitForToken, Expect, Waits, GoTo, HttpTypes, Ops
  <2>2. PICK i \in 1 .. Len(rx) : token = rx[i] /\ rx[i].kind = Expect[step]
    BY <1>4, FirstIsThere DEF Found, HttpTypes
  <2> HIDE DEF token
  <2>3. CASE step = "action"
    <3>1. Told(token) /\ token.kind = "+HTTPACTION"
      <4>1. Len(Coming) = Len(rx) + Len(wire) /\ Len(rx) \in Nat /\ Len(wire) \in Nat /\ Coming[i] = rx[i]
        BY <2>2, Parts DEF HttpTypes, Coming
      <4>2. i \in 1 .. Len(Coming)
        BY <2>2, <4>1
      <4> QED
        BY <2>2, <2>3, <4>1, <4>2 DEF Turns, TurnAction, OwnAnswers, Expect
    <3>2. step' \in {"read", "cleanup"}
      BY <2>1, <2>3 DEF After, AfterAction
    <3> QED
      BY <1>1, <2>1, <2>3, <3>1, <3>2 DEF Earned, Accepts, Told
  <2>4. CASE step = "read"
    BY <1>1, <2>1, <2>4 DEF Earned, After
  <2>5. CASE step \notin {"action", "read"}
    <3>1. ~result
      BY <2>1, <2>5 DEF Earned, Waits
    <3> QED
      BY <2>1, <2>5, <3>1 DEF Earned
  <2> QED
    BY <2>3, <2>4, <2>5
<1>5. CASE FoundError \/ TimeOut
  <2>1. /\ step \in Waits \cup {"payload", "read"} /\ (step = "read" => call.op = "POST")
        /\ step' = Failed /\ UNCHANGED <<call, result, response>>
    BY <1>5 DEF FoundError, TimeOut, InWaitForToken, Expect, Waits, GoTo, HttpTypes, Ops
  <2>2. step = "read" => step' = "cleanup"
    BY <2>1 DEF Failed
  <2> QED
    BY <1>1, <2>1, <2>2 DEF Earned, Waits
<1>6. CASE ReadRest
  <2>1. step = "readRest" /\ step' \in {"readRest", "cleanup"} /\ UNCHANGED <<call, result, response>>
    BY <1>6 DEF ReadRest, GoTo
  <2> QED
    BY <1>1, <2>1 DEF Earned
<1>7. CASE GetReads
  <2>1. /\ step = "read" /\ call.op = "GET" /\ UNCHANGED call
        /\ step' = "cleanup" \/ (step' = step /\ UNCHANGED <<result, response>>)
    BY <1>7 DEF GetReads, GoTo
  <2>2. step' # "read" => response' = Body(call.n)
    BY <1>7, TurnsGetReads
  <2>3. ~result
    BY <2>1 DEF Earned
  <2> QED
    BY <2>1, <2>2, <2>3 DEF Earned, Body
<1>8. CASE GetReadEnds
  <2>1. step = "read" /\ call.op = "GET" /\ step' = "cleanup" /\ UNCHANGED call
    BY <1>8 DEF GetReadEnds, GoTo
  <2>2. response' = Body(call.n)
    BY <1>8, TurnsGetReadEnds
  <2> QED
    BY <2>1, <2>2 DEF Earned, Body
<1>9. CASE TermEnds
  <2>1. (step = "term" /\ step' = "cgact") \/ (step = "cleanup" /\ step' = "return")
    BY <1>9 DEF TermEnds, AfterTerm, GoTo
  <2>2. UNCHANGED <<call, result, response>>
    BY <1>9 DEF TermEnds
  <2> QED
    BY <1>1, <2>1, <2>2 DEF Earned
<1>10. CASE Modem \/ Cut \/ ModemDataTimeout \/ PdpLost \/ UNCHANGED httpVars
  <2>1. UNCHANGED <<step, call, result, response>>
    BY <1>10, ModemOnly DEF driver, httpVars
  <2> QED
    BY <1>1, <2>1 DEF Earned
<1> QED
  BY <1>2, <1>3, <1>4, <1>5, <1>6, <1>7, <1>8, <1>9, <1>10 DEF HttpNext, Driver

\* What a call has done by the time it returns, if no command was left behind.
Kept == HttpTypes /\ Initialized /\ (~behind => Turns /\ Earned)

LEMMA KeptHolds == HttpSpec => []Kept
<1>1. HttpInit => Kept
  BY InitTypes, TurnsAtInit DEF Kept, HttpInit, Initialized, Earned
<1>2. Kept /\ [HttpNext]_httpVars => Kept'
  <2> SUFFICES ASSUME Kept, [HttpNext]_httpVars PROVE Kept'
    OBVIOUS
  <2>1. HttpTypes' /\ Initialized' /\ (~behind' => Turns')
    BY HttpTyped, TurnsNext, InitializedNext DEF Kept
  <2>2. ~behind' => Earned'
    <3>1. CASE PowerCycle
      BY <3>1 DEF PowerCycle, Earned
    <3>2. CASE ~PowerCycle
      BY <3>2, BehindStays, EarnedNext DEF Kept
    <3> QED
      BY <3>1, <3>2
  <2> QED
    BY <2>1, <2>2 DEF Kept
<1> QED
  BY <1>1, <1>2, PTL DEF HttpSpec

\* What sendPayload and httpGet claim as they return, unless a wait since the modem was powered on
\* ended before the modem had taken up its command.
DeliveredInTime == step = "return" /\ result /\ call.op = "POST" /\ ~behind => call.n \in server
OwnInTime == step = "return" /\ result /\ call.op = "GET" /\ ~behind => response = Body(call.n)

\* When sendPayload returns true, the server has this payload, so that sync_task loses no sample:
\* unless the modem, since it was last powered on, left a command behind; however far it was behind
\* before that, however many calls are made, however late the server answers, whatever is cut,
\* refused or lost.
THEOREM PostsAreDelivered == HttpSpec => []DeliveredInTime
<1>1. Kept => DeliveredInTime
  BY DEF Kept, Earned, DeliveredInTime
<1> QED
  BY <1>1, KeptHolds, PTL

\* And when httpGet does, what it returns is the whole body of its own URL.
THEOREM BodiesAreOwn == HttpSpec => []OwnInTime
<1>1. Kept => OwnInTime
  BY DEF Kept, Earned, OwnInTime
<1> QED
  BY <1>1, KeptHolds, PTL

-----------------------------------------------------------------------------
(* The Wi-Fi module again: how far a session is.                           *)

\* What the event task may still have to handle.
Started == <<Event("start")>>
Joined == <<Event("gotIp")>>
StartedJoined == <<Event("start"), Event("gotIp")>>

\* A use in which nothing goes wrong any more, as far as it has come: what the station is still to
\* be told, or to tell, is in the queue of events or in the bits.
OnTheWay ==
  /\ losses = Losses
  /\ \/ pc \in {"clear", "start"} /\ radio = "off" /\ events = <<>>
     \/ pc = "connect" /\ radio = "idle" /\ events = Started
     \/ /\ pc \in {"connect", "wait"} /\ radio = "connecting"
        /\ events = <<>> \/ events = Started
     \/ /\ pc \in {"connect", "wait"} /\ radio = "connected"
        /\ events = <<>> \/ events = Joined \/ events = StartedJoined
  /\ pc # "clear" => bits = IF radio = "connected" /\ events = <<>> THEN {"connected"} ELSE {}

\* The steps before its session: the caller's, and the station's and the handler's.
CallerLeft == CASE pc = "clear" -> 5 [] pc = "start" -> 4 [] pc = "connect" -> 2 [] OTHER -> 1
StationLeft == Len(events) + IF radio = "connected" THEN 0 ELSE 2
SessionLeft == CallerLeft + StationLeft

\* The caller goes on, or there is an event to handle, or the station is about to get its address,
\* or the bit that is waited for is set.
SessionComes ==
  pc # "wait" \/ events # <<>> \/ radio = "connecting" \/ "connected" \in bits

Nearing ==
  /\ pc = "clear" /\ losses = Losses => OnTheWay
  /\ OnTheWay => SessionLeft \in 1 .. 7 /\ SessionComes

\* These queues, and what is left of them.
LEMMA QueuesAre ==
  /\ Len(<<>>) = 0 /\ Len(Started) = 1 /\ Len(Joined) = 1 /\ Len(StartedJoined) = 2
  /\ Started # <<>> /\ Joined # <<>> /\ StartedJoined # <<>>
  /\ Head(Started).kind = "start" /\ Tail(Started) = <<>>
  /\ Head(Joined).kind = "gotIp" /\ Tail(Joined) = <<>>
  /\ Head(StartedJoined).kind = "start" /\ Tail(StartedJoined) = Joined
  /\ Append(<<>>, Event("start")) = Started /\ Append(<<>>, Event("gotIp")) = Joined
  /\ Append(Started, Event("gotIp")) = StartedJoined
<1>1. /\ Len(<<>>) = 0 /\ Len(Started) = 1 /\ Len(Joined) = 1 /\ Len(StartedJoined) = 2
      /\ Head(Started).kind = "start" /\ Tail(Started) = <<>>
      /\ Head(Joined).kind = "gotIp" /\ Tail(Joined) = <<>>
      /\ Head(StartedJoined).kind = "start" /\ Tail(StartedJoined) = Joined
  BY DEF Started, Joined, StartedJoined, Event
<1>2. Append(<<>>, Event("start")) = Started /\ Append(<<>>, Event("gotIp")) = Joined
  BY DEF Started, Joined
<1>3. Append(Started, Event("gotIp")) = StartedJoined
  <2> DEFINE a == Event("start")  b == Event("gotIp")
  <2>1. a \in {a, b} /\ b \in {a, b}
    OBVIOUS
  <2> HIDE DEF a, b
  <2>2. Append(<<a>>, b) = <<a, b>>
    BY <2>1, AppendTwo
  <2> QED
    BY <2>2 DEF Started, StartedJoined, a, b
<1> QED
  BY <1>1, <1>2, <1>3

LEMMA QueuesStay ==
  UNCHANGED use => Started' = Started /\ Joined' = Joined /\ StartedJoined' = StartedJoined
BY DEF Started, Joined, StartedJoined, Event

\* A use begins with no event of the last one left.
NoneLeft == pc = "clear" => events = <<>>

LEMMA NoneLeftStep ==
  ASSUME IInv, NoneLeft, [Next]_vars
  PROVE  NoneLeft'
<1> USE DEF NoneLeft
<1>1. CASE Handle
  <2>1. pc # "clear" /\ pc' = pc
    BY <1>1 DEF Handle
  <2> QED
    BY <2>1
<1>2. CASE Station
  <2>1. pc = "clear" => radio = "off"
    BY DEF IInv, TypeOK, InUse
  <2>2. radio # "off" /\ pc' = pc
    BY <1>2 DEF Station, GetsIp, Disconnects
  <2> QED
    BY <2>1, <2>2
<1>3. CASE Caller
  BY <1>3 DEF Caller, PowerOn, ClearBits, StartWifi, StartFails, Connect, ConnectFails, Waited,
              WaitTimesOut, SessionEnds, Disconnect, StopWifi
<1>4. CASE UNCHANGED vars
  BY <1>4 DEF vars
<1> QED
  BY <1>1, <1>2, <1>3, <1>4 DEF Next

LEMMA NearingHolds ==
  ASSUME IInv, NoneLeft
  PROVE  Nearing
<1>1. pc = "clear" /\ losses = Losses => OnTheWay
  BY DEF IInv, TypeOK, InUse, NoneLeft, OnTheWay
<1>2. ASSUME OnTheWay PROVE SessionLeft \in 1 .. 7 /\ SessionComes
  <2>1. SessionComes
    BY <1>2 DEF OnTheWay, SessionComes
  <2>2. CASE pc \in {"clear", "start"}
    <3>1. StationLeft = 2
      BY <1>2, <2>2, QueuesAre DEF OnTheWay, StationLeft
    <3>2. CallerLeft \in {4, 5}
      BY <2>2 DEF CallerLeft
    <3> QED
      BY <2>1, <3>1, <3>2 DEF SessionLeft
  <2>3. CASE pc \in {"connect", "wait"}
    <3>1. Len(events) \in 0 .. 2 /\ (radio # "connected" => Len(events) \in 0 .. 1)
      BY <1>2, <2>3, QueuesAre DEF OnTheWay
    <3>2. StationLeft \in 0 .. 3
      <4> DEFINE n == Len(events)
      <4>1. CASE radio = "connected"
        <5>1. StationLeft = n
          BY <3>1, <4>1 DEF StationLeft
        <5> QED
          BY <3>1, <5>1
      <4>2. CASE radio # "connected"
        <5>1. StationLeft = n + 2 /\ n \in 0 .. 1
          BY <3>1, <4>2 DEF StationLeft
        <5> HIDE DEF n
        <5> QED
          BY <5>1
      <4> QED
        BY <4>1, <4>2
    <3>3. CallerLeft \in {1, 2}
      BY <2>3 DEF CallerLeft
    <3> QED
      BY <2>1, <3>2, <3>3 DEF SessionLeft
  <2> QED
    BY <1>2, <2>2, <2>3 DEF OnTheWay
<1> QED
  BY <1>1, <1>2 DEF Nearing

\* The station and the handler come nearer while the caller waits, or goes on.
LEMMA StationNearer ==
  ASSUME OnTheWay, GetsIp \/ Handle
  PROVE  OnTheWay' /\ SessionLeft' < SessionLeft
<1> DEFINE n == Len(events)  n1 == Len(events')
<1>0. /\ UNCHANGED <<pc, use, losses>>
      /\ Started' = Started /\ Joined' = Joined /\ StartedJoined' = StartedJoined
      /\ pc \in {"connect", "wait"}
  <2>1. UNCHANGED <<pc, use, losses>>
    BY DEF GetsIp, Handle
  <2>2. pc \in {"connect", "wait"}
    BY DEF OnTheWay, GetsIp, Handle
  <2> QED
    BY <2>1, <2>2, QueuesStay
<1>1. CallerLeft' = CallerLeft /\ CallerLeft \in {1, 2}
  BY <1>0 DEF CallerLeft
<1>2. CASE GetsIp
  <2>1. /\ radio = "connecting" /\ radio' = "connected" /\ bits' = {}
        /\ events = <<>> \/ events = Started
        /\ events' = Append(events, Event("gotIp"))
    BY <1>0, <1>2 DEF OnTheWay, GetsIp
  <2>2. (events' = Joined \/ events' = StartedJoined) /\ n \in Nat /\ n1 = n + 1
    BY <2>1, QueuesAre
  <2>3. OnTheWay'
    BY <1>0, <2>1, <2>2, QueuesAre DEF OnTheWay
  <2>4. StationLeft = n + 2 /\ StationLeft' = n1
    BY <2>1, <2>2 DEF StationLeft
  <2> HIDE DEF n, n1
  <2> QED
    BY <1>1, <2>2, <2>3, <2>4 DEF SessionLeft
<1>3. CASE Handle
  <2>1. /\ events = Started \/ events = Joined \/ events = StartedJoined
        /\ bits = {} /\ radio \in {"idle", "connecting", "connected"}
        /\ events = Joined \/ events = StartedJoined => radio = "connected"
        /\ events = Started => radio # "connected"
    BY <1>0, <1>3, QueuesAre DEF OnTheWay, Handle
  <2>2. events' = Tail(events) /\ n \in Nat /\ n1 \in Nat /\ n1 = n - 1
    BY <1>3, <2>1, QueuesAre DEF Handle
  <2>3. CASE events = Started
    <3>1. radio' = Connecting /\ bits' = {} /\ events' = <<>>
      BY <1>3, <2>1, <2>2, <2>3, QueuesAre DEF Handle, OnStart, OnGotIp, OnDisconnected
    <3>2. radio' = "connecting"
      BY <2>1, <2>3, <3>1 DEF Connecting
    <3>3. OnTheWay'
      BY <1>0, <3>1, <3>2 DEF OnTheWay
    <3>4. StationLeft = n + 2 /\ StationLeft' = n1 + 2
      BY <2>1, <2>3, <3>2 DEF StationLeft
    <3> HIDE DEF n, n1
    <3> QED
      BY <1>1, <2>2, <3>3, <3>4 DEF SessionLeft
  <2>4. CASE events = Joined \/ events = StartedJoined
    <3>1. radio = "connected" /\ radio' = "connected"
      BY <1>3, <2>1, <2>4, QueuesAre DEF Handle, OnStart, OnGotIp, OnDisconnected, Connecting
    <3>2. OnTheWay'
      <4>1. CASE events = Joined
        <5>1. bits' = {"connected"} /\ events' = <<>>
          BY <1>3, <2>1, <2>2, <4>1, QueuesAre DEF Handle, OnStart, OnGotIp, OnDisconnected
        <5> QED
          BY <1>0, <3>1, <5>1 DEF OnTheWay
      <4>2. CASE events = StartedJoined
        <5>1. bits' = {} /\ events' = Joined /\ events' # <<>>
          BY <1>3, <2>1, <2>2, <4>2, QueuesAre DEF Handle, OnStart, OnGotIp, OnDisconnected
        <5> QED
          BY <1>0, <3>1, <5>1 DEF OnTheWay
      <4> QED
        BY <2>4, <4>1, <4>2
    <3>3. StationLeft = n /\ StationLeft' = n1
      BY <2>2, <3>1 DEF StationLeft
    <3> HIDE DEF n, n1
    <3> QED
      BY <1>1, <2>2, <3>2, <3>3 DEF SessionLeft
  <2> QED
    BY <2>1, <2>3, <2>4
<1> QED
  BY <1>2, <1>3

\* So does every step of the caller but the one into the session.
LEMMA CallerNearer ==
  ASSUME IInv, OnTheWay, ClearBits \/ StartWifi \/ Connect
  PROVE  OnTheWay' /\ SessionLeft' < SessionLeft
<1>1. UNCHANGED <<use, losses>>
  BY DEF ClearBits, StartWifi, Connect
<1>2. Started' = Started /\ Joined' = Joined /\ StartedJoined' = StartedJoined
  BY <1>1, QueuesStay
<1>3. CASE ClearBits
  <2>1. /\ pc = "clear" /\ pc' = "start" /\ radio = "off" /\ radio' = "off"
        /\ events = <<>> /\ events' = <<>> /\ bits' = {}
    BY <1>3 DEF ClearBits, OnTheWay
  <2>2. OnTheWay'
    BY <1>1, <2>1 DEF OnTheWay
  <2>3. CallerLeft = 5 /\ CallerLeft' = 4 /\ StationLeft = 2 /\ StationLeft' = 2
    BY <2>1, QueuesAre DEF CallerLeft, StationLeft
  <2> QED
    BY <2>2, <2>3 DEF SessionLeft
<1>4. CASE StartWifi
  <2>1. pc = "start" /\ radio = "off" /\ events = <<>> /\ bits = {} /\ ~started
    BY <1>4 DEF StartWifi, OnTheWay, IInv, TypeOK
  <2>2. pc' = "connect" /\ radio' = "idle" /\ events' = Started /\ bits' = {}
    BY <1>4, <2>1, QueuesAre DEF StartWifi
  <2>3. OnTheWay'
    BY <1>1, <1>2, <2>2 DEF OnTheWay
  <2>4. CallerLeft = 4 /\ CallerLeft' = 2 /\ StationLeft = 2 /\ StationLeft' = 3
    BY <2>1, <2>2, QueuesAre DEF CallerLeft, StationLeft
  <2> QED
    BY <2>3, <2>4 DEF SessionLeft
<1>5. CASE Connect
  <2>1. /\ pc = "connect" /\ pc' = "wait" /\ radio' = Connecting
        /\ UNCHANGED <<bits, events>>
    BY <1>5 DEF Connect
  <2>2. OnTheWay'
    BY <1>1, <1>2, <2>1 DEF OnTheWay, Connecting
  <2>3. StationLeft \in Nat /\ StationLeft' = StationLeft
    BY <2>1, QueuesAre DEF OnTheWay, Connecting, StationLeft
  <2>4. CallerLeft = 2 /\ CallerLeft' = 1
    BY <2>1 DEF CallerLeft
  <2> QED
    BY <2>2, <2>3, <2>4 DEF SessionLeft
<1> QED
  BY <1>3, <1>4, <1>5

LEMMA NearerStep ==
  ASSUME IInv, OnTheWay, [Next]_vars
  PROVE  UNCHANGED vars \/ pc' = "session" \/ (OnTheWay' /\ SessionLeft' < SessionLeft)
<1>0. ~(losses < Losses)
  BY DcomWifiAssumption DEF OnTheWay
<1>1. CASE Waited
  BY <1>1 DEF Waited, OnTheWay
<1>2. ~(StartFails \/ ConnectFails \/ WaitTimesOut \/ \E reason \in Reasons : Disconnects(reason))
  BY <1>0 DEF StartFails, ConnectFails, WaitTimesOut, Disconnects
<1>3. ~(PowerOn \/ SessionEnds \/ Disconnect \/ StopWifi)
  BY DEF PowerOn, SessionEnds, Disconnect, StopWifi, OnTheWay
<1> QED
  BY <1>1, <1>2, <1>3, StationNearer, CallerNearer DEF Next, Caller, Station

\* A use that begins after the last failure is at most seven steps from its session, whatever the
\* uses before it have left; nothing leads away from there, and until then there is always an
\* event, an address or a bit to come.  This is the part of HealthySession that needs no fairness.
THEOREM SessionIsNear ==
  Spec => /\ []Nearing
          /\ [][OnTheWay => pc' = "session" \/ (OnTheWay' /\ SessionLeft' < SessionLeft)]_vars
<1>1. Init => NoneLeft
  BY DEF Init, NoneLeft
<1>2. IInv /\ NoneLeft /\ [Next]_vars => NoneLeft'
  BY NoneLeftStep
<1>3. IInv /\ NoneLeft => Nearing
  BY NearingHolds
<1>4. IInv /\ [Next]_vars
        => [OnTheWay => pc' = "session" \/ (OnTheWay' /\ SessionLeft' < SessionLeft)]_vars
  BY NearerStep
<1> QED
  BY <1>1, <1>2, <1>3, <1>4, Invariance, PTL DEF Spec

=============================================================================
