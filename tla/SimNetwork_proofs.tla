------------------------- MODULE SimNetwork_proofs -------------------------
(***************************************************************************)
(* Proofs about SimNetwork, for any budget and however long the modem      *)
(* takes to answer.  Times: a wait clamped to the deadline ends within one *)
(* read of it (Clamped), so each step of the check has a latest instant    *)
(* (Latest).  APNs: a context that was not left up by the clean-up is the  *)
(* one of the APN being tried (OwnContext).  Reasons: an APN is given up   *)
(* only when it is refused, the time is up or something failed (Reasons).  *)
(***************************************************************************)
EXTENDS SimNetwork, TLAPS

\* The steps before an APN is tried, and those of a try.
Before == {"handshake", "config", "sim", "register", "signal", "imsi", "operator"}
TryingUntilUp == {"authorize", "attach", "attached", "activate"}
Up == {"verify", "address"}

\* The latest instant of each step.
Latest(s) ==
  CASE s = "handshake" -> 170
    [] s = "config" -> 180
    [] s = "off" -> 185
    [] s = "sim" -> 0
    [] s \in {"register", "imsi", "attached"} -> Budget + 21
    [] s = "operator" -> Budget + 51
    [] s = "define" -> Budget
    [] s \in {"cleanup", "failed"} -> Budget + 81
    [] OTHER -> Budget + 1

Timely == now <= Latest(step)

\* No context, or the one of this APN, unless the clean-up left the first one's up.
OwnContext ==
  ~stale => /\ step \in Before \cup {"define"} \cup TryingUntilUp => pdp = None
            /\ step \in TryingUntilUp \cup Up => apn = profile
            /\ step \in Up => pdp \in {None, profile}
            /\ step = "address" => seen = profile
            /\ step = "online" => seen = saved

\* Which APNs have been tried, and why those given up were.
Reasons ==
  /\ step \in Before => tried = {} /\ pdp = None /\ ~stale
  /\ step \in {"define"} \cup TryingUntilUp \cup Up => profile \in tried
  /\ step = "define" => now < Budget
  /\ step = "cleanup" => tried # Apns /\ (profile \in tried \/ now >= Budget)
  /\ ~trouble /\ now < Budget =>
       /\ step \in {"define"} \cup TryingUntilUp \cup {"cleanup"} => pdp = None
       /\ step \in TryingUntilUp => apn = profile
       /\ (tried \ {profile}) \cap works = {}
       /\ step = "cleanup" => profile \notin works
       /\ step = "failed" => works = {}

IInv == TypeOK /\ Timely /\ OwnContext /\ Reasons

-----------------------------------------------------------------------------
(* Reads of a fixed length, and when a wait made of them ends.             *)

LEMMA ReadsBound ==
  ASSUME NEW t \in Nat, NEW n \in {2, 3}
  PROVE  Reads(t, n) \in Nat /\ t <= Reads(t, n) /\ Reads(t, n) < t + n
<1>1. CASE n = 2
  BY <1>1 DEF Reads
<1>2. CASE n = 3
  BY <1>2 DEF Reads
<1> QED
  BY <1>1, <1>2

\* A wait that finds its answer ends no later than one that does not.
LEMMA FoundBound ==
  ASSUME NEW t \in Nat, NEW n \in {2, 3}, NEW lag \in Nat, lag < Reads(t, n)
  PROVE  Reads(lag, n) <= Reads(t, n)
<1>1. CASE n = 2
  BY <1>1 DEF Reads
<1>2. CASE n = 3
  BY <1>2 DEF Reads
<1> QED
  BY <1>1, <1>2

LEMMA WaitBound ==
  ASSUME now \in Nat, NEW t \in Nat, NEW n \in {2, 3}, NEW end \in EndsIn(t, n)
  PROVE  end \in Nat /\ now <= end /\ end <= now + Reads(t, n)
<1>1. Reads(t, n) \in Nat
  BY ReadsBound
<1>2. CASE end = now + Reads(t, n)
  BY <1>1, <1>2
<1>3. ASSUME NEW lag \in Lags, lag < Reads(t, n), end = now + Reads(lag, n)
      PROVE  end \in Nat /\ now <= end /\ end <= now + Reads(t, n)
  <2>1. lag \in Nat
    BY SimNetworkAssumption
  <2>2. Reads(lag, n) \in Nat /\ Reads(lag, n) <= Reads(t, n)
    BY <1>3, <2>1, ReadsBound, FoundBound
  <2> QED
    BY <1>1, <1>3, <2>2
<1> QED
  BY <1>2, <1>3 DEF EndsIn, FoundIn

\* A wait clamped to the deadline ends within one read of it, and begins no wait after it.
LEMMA Clamped ==
  ASSUME now \in Nat, NEW t \in Nat, NEW end \in Ends(Clamp(t))
  PROVE  /\ end \in Nat /\ now <= end
         /\ end <= now \/ end <= Budget + 1
<1>1. Budget \in Nat
  BY SimNetworkAssumption
<1>2. Clamp(t) \in Nat /\ (now + Clamp(t) <= Budget \/ Clamp(t) = 0)
  BY <1>1 DEF Clamp, Remaining
<1>3. end \in Nat /\ now <= end /\ end <= now + Reads(Clamp(t), 2)
  BY <1>2, WaitBound DEF Ends
<1>4. Reads(Clamp(t), 2) \in Nat /\ Reads(Clamp(t), 2) < Clamp(t) + 2
  BY <1>2, ReadsBound
<1>5. Clamp(t) = 0 => Reads(Clamp(t), 2) = 0
  BY DEF Reads
<1> QED
  BY <1>1, <1>2, <1>3, <1>4, <1>5

\* The waits with a time-out of their own.
LEMMA Unclamped ==
  ASSUME now \in Nat, NEW t \in {10, 20, 30}, NEW end,
         end \in Ends(t) \/ (t = 30 /\ end \in EndsIn(30, 3))
  PROVE  end \in Nat /\ now <= end /\ end <= now + t
<1>1. Reads(t, 2) = t /\ Reads(30, 3) = 30
  BY DEF Reads
<1> QED
  BY <1>1, WaitBound DEF Ends

LEMMA FoundEnds == \A t : Found(t) \subseteq Ends(t)
  BY DEF Found, Ends, EndsIn

LEMMA OtherApn ==
  ASSUME NEW p \in Apns
  PROVE  Other(p) \in Apns /\ Other(p) # p /\ Apns = {p, Other(p)}
<1>1. \E q \in Apns : q # p
  BY DEF Apns
<1>2. Other(p) \in Apns /\ Other(p) # p
  BY <1>1 DEF Other
<1> QED
  BY <1>2 DEF Apns

-----------------------------------------------------------------------------
LEMMA InitHolds == Init => IInv
<1> SUFFICES ASSUME Init PROVE IInv
  OBVIOUS
<1>1. TypeOK
  BY DEF Init, TypeOK, Steps
<1>2. Timely
  BY DEF Init, Timely, Latest
<1>3. OwnContext /\ Reasons
  BY DEF Init, OwnContext, Reasons, Before, TryingUntilUp, Up, None
<1> QED
  BY <1>1, <1>2, <1>3 DEF IInv

LEMMA PowerKeeps ==
  IInv /\ (Ready \/ NoUart \/ NotReady \/ Configure \/ PowerCycle) => IInv'
<1> USE DEF IInv, TypeOK, Steps, history, modem, world
<1>1. ASSUME IInv, Ready PROVE IInv'
  <2>1. now' \in Nat /\ now' <= now + 10
    BY <1>1, Unclamped, FoundEnds DEF Ready
  <2>2. now <= 170
    BY <1>1 DEF Ready, Timely, Latest
  <2>3. Timely'
    BY <1>1, <2>1, <2>2 DEF Ready, Timely, Latest
  <2> QED
    BY <1>1, <2>1, <2>3 DEF Ready, OwnContext, Reasons, Before, TryingUntilUp, Up
<1>2. ASSUME IInv, NoUart PROVE IInv'
  <2>1. Timely'
    BY <1>2 DEF NoUart, Timely, Latest
  <2> QED
    BY <1>2, <2>1 DEF NoUart, OwnContext, Reasons, Before, TryingUntilUp, Up
<1>3. ASSUME IInv, NotReady PROVE IInv'
  <2>1. PICK end \in Ends(10) :
             /\ now' = end + RetryDelay
             /\ step' = IF now' < 51 + Handshake THEN "handshake" ELSE "off"
    BY <1>3 DEF NotReady
  <2>2. end \in Nat /\ end <= now + 10
    BY <1>3, <2>1, Unclamped
  <2>3. now <= 170
    BY <1>3 DEF NotReady, Timely, Latest
  <2>4. now' \in Nat /\ Timely'
    BY <1>3, <2>1, <2>2, <2>3 DEF Timely, Latest, RetryDelay, Handshake
  <2> QED
    BY <1>3, <2>1, <2>4 DEF NotReady, OwnContext, Reasons, Before, TryingUntilUp, Up
<1>4. ASSUME IInv, Configure PROVE IInv'
  <2>1. Timely'
    BY <1>4 DEF Configure, Timely, Latest
  <2> QED
    BY <1>4, <2>1 DEF Configure, OwnContext, Reasons, Before, TryingUntilUp, Up
<1>5. ASSUME IInv, PowerCycle PROVE IInv'
  <2>1. Timely'
    BY <1>5 DEF PowerCycle, Timely, Latest
  <2> QED
    BY <1>5, <2>1 DEF PowerCycle, OwnContext, Reasons, Before, TryingUntilUp, Up, None
<1> QED
  BY <1>1, <1>2, <1>3, <1>4, <1>5

\* The card and the registration.
LEMMA RegistrationKeeps ==
  IInv /\ (CardReady \/ CardNotReady \/ Registered \/ Denied \/ NotRegistered \/ RegistrationEnds) => IInv'
<1> USE DEF IInv, TypeOK, Steps, history, modem, world
<1>1. ASSUME IInv, CardReady PROVE IInv'
  <2>1. now' \in Nat /\ now <= now' /\ (now' <= now \/ now' <= Budget + 1)
    BY <1>1, Clamped, FoundEnds DEF CardReady
  <2>2. Timely'
    BY <1>1, <2>1, SimNetworkAssumption DEF CardReady, Timely, Latest
  <2> QED
    BY <1>1, <2>1, <2>2 DEF CardReady, OwnContext, Reasons, Before, TryingUntilUp, Up
<1>2. ASSUME IInv, CardNotReady PROVE IInv'
  <2>1. now' \in Nat /\ now <= now' /\ (now' <= now \/ now' <= Budget + 1)
    BY <1>2, Clamped, FoundEnds DEF CardNotReady
  <2>2. Timely'
    BY <1>2, <2>1, SimNetworkAssumption DEF CardNotReady, Timely, Latest
  <2> QED
    BY <1>2, <2>1, <2>2 DEF CardNotReady, OwnContext, Reasons, Before, TryingUntilUp, Up
<1>3. ASSUME IInv, Registered PROVE IInv'
  <2>1. now' \in Nat /\ now <= now' /\ now' <= Budget + 1
    BY <1>3, Clamped, FoundEnds, SimNetworkAssumption DEF Registered, Remaining
  <2>2. Timely'
    BY <1>3, <2>1, SimNetworkAssumption DEF Registered, Timely, Latest
  <2> QED
    BY <1>3, <2>1, <2>2 DEF Registered, OwnContext, Reasons, Before, TryingUntilUp, Up
<1>4. ASSUME IInv, Denied PROVE IInv'
  <2>1. now' \in Nat /\ now <= now' /\ (now' <= now \/ now' <= Budget + 1)
    BY <1>4, Clamped, FoundEnds DEF Denied
  <2>2. Timely'
    BY <1>4, <2>1, SimNetworkAssumption DEF Denied, Timely, Latest
  <2> QED
    BY <1>4, <2>1, <2>2 DEF Denied, OwnContext, Reasons, Before, TryingUntilUp, Up
<1>5. ASSUME IInv, NotRegistered PROVE IInv'
  <2>1. PICK end \in Ends(Clamp(30)) : now' = end + PollDelay
    BY <1>5 DEF NotRegistered
  <2>2. end \in Nat /\ now <= end /\ end <= Budget + 1
    <3>1. now < Budget
      BY <1>5, SimNetworkAssumption DEF NotRegistered, Remaining
    <3> QED
      BY <1>5, <2>1, <3>1, Clamped, SimNetworkAssumption
  <2>3. now' \in Nat /\ now <= now' /\ Timely'
    BY <1>5, <2>1, <2>2, SimNetworkAssumption DEF NotRegistered, Timely, Latest, PollDelay
  <2> QED
    BY <1>5, <2>3 DEF NotRegistered, OwnContext, Reasons, Before, TryingUntilUp, Up
<1>6. ASSUME IInv, RegistrationEnds PROVE IInv'
  <2>1. Timely'
    BY <1>6, SimNetworkAssumption DEF RegistrationEnds, Timely, Latest
  <2> QED
    BY <1>6, <2>1, SimNetworkAssumption DEF RegistrationEnds, Remaining, OwnContext, Reasons, Before, TryingUntilUp, Up
<1> QED
  BY <1>1, <1>2, <1>3, <1>4, <1>5, <1>6

\* The context's definition and the attach.
LEMMA AttachKeeps ==
  IInv /\ (Defined \/ NotDefined \/ Authorized \/ NotAuthorized \/ Attach \/ Attached \/ NotAttached \/ AttachEnds) => IInv'
<1> USE DEF IInv, TypeOK, Steps, history, modem, world
<1>1. ASSUME IInv, Defined PROVE IInv'
  <2>1. now' \in Nat /\ now <= now' /\ (now' <= now \/ now' <= Budget + 1)
    BY <1>1, Clamped, FoundEnds DEF Defined
  <2>2. Timely'
    BY <1>1, <2>1, SimNetworkAssumption DEF Defined, Timely, Latest
  <2> QED
    BY <1>1, <2>1, <2>2 DEF Defined, OwnContext, Reasons, Before, TryingUntilUp, Up
<1>2. ASSUME IInv, NotDefined PROVE IInv'
  <2>1. now' \in Nat /\ now <= now' /\ (now' <= now \/ now' <= Budget + 1)
    BY <1>2, Clamped, FoundEnds DEF NotDefined
  <2>2. Timely'
    BY <1>2, <2>1, SimNetworkAssumption DEF NotDefined, Timely, Latest, Fails
  <2> QED
    BY <1>2, <2>1, <2>2 DEF NotDefined, OwnContext, Reasons, Before, TryingUntilUp, Up, Fails
<1>3. ASSUME IInv, Authorized PROVE IInv'
  <2>1. now' \in Nat /\ now <= now' /\ (now' <= now \/ now' <= Budget + 1)
           /\ (now' < Budget => now < Budget)
    BY <1>3, Clamped, FoundEnds, SimNetworkAssumption DEF Authorized
  <2>2. Timely'
    BY <1>3, <2>1, SimNetworkAssumption DEF Authorized, Timely, Latest
  <2>3. TypeOK'
    BY <1>3, <2>1, <2>2 DEF Authorized
  <2>4. OwnContext'
    BY <1>3 DEF Authorized, OwnContext, Reasons, Before, TryingUntilUp, Up
  <2>5. Reasons'
    BY <1>3, <2>1, <2>2 DEF Authorized, OwnContext, Reasons, Before, TryingUntilUp, Up
  <2> QED
    BY <2>2, <2>3, <2>4, <2>5
<1>4. ASSUME IInv, NotAuthorized PROVE IInv'
  <2>1. now' \in Nat /\ now <= now' /\ (now' <= now \/ now' <= Budget + 1)
    BY <1>4, Clamped, FoundEnds DEF NotAuthorized
  <2>2. Timely'
    BY <1>4, <2>1, SimNetworkAssumption DEF NotAuthorized, Timely, Latest, Fails
  <2> QED
    BY <1>4, <2>1, <2>2 DEF NotAuthorized, OwnContext, Reasons, Before, TryingUntilUp, Up, Fails
<1>5. ASSUME IInv, Attach PROVE IInv'
  <2>1. now' \in Nat /\ now <= now' /\ (now' <= now \/ now' <= Budget + 1)
           /\ (now' < Budget => now < Budget)
    BY <1>5, Clamped, FoundEnds, SimNetworkAssumption DEF Attach
  <2>2. Timely'
    BY <1>5, <2>1, SimNetworkAssumption DEF Attach, Timely, Latest
  <2>3. TypeOK'
    BY <1>5, <2>1, <2>2 DEF Attach
  <2>4. OwnContext'
    BY <1>5 DEF Attach, OwnContext, Reasons, Before, TryingUntilUp, Up
  <2>5. Reasons'
    BY <1>5, <2>1, <2>2 DEF Attach, OwnContext, Reasons, Before, TryingUntilUp, Up
  <2> QED
    BY <2>2, <2>3, <2>4, <2>5
<1>6. ASSUME IInv, Attached PROVE IInv'
  <2>1. now' \in Nat /\ now <= now' /\ now' <= Budget + 1
           /\ (now' < Budget => now < Budget)
    BY <1>6, Clamped, FoundEnds, SimNetworkAssumption DEF Attached, Remaining
  <2>2. Timely'
    BY <1>6, <2>1, SimNetworkAssumption DEF Attached, Timely, Latest
  <2>3. TypeOK'
    BY <1>6, <2>1, <2>2 DEF Attached
  <2>4. OwnContext'
    BY <1>6 DEF Attached, OwnContext, Reasons, Before, TryingUntilUp, Up
  <2>5. Reasons'
    BY <1>6, <2>1, <2>2 DEF Attached, OwnContext, Reasons, Before, TryingUntilUp, Up
  <2> QED
    BY <2>2, <2>3, <2>4, <2>5
<1>7. ASSUME IInv, NotAttached PROVE IInv'
  <2>1. PICK end \in Ends(Clamp(20)) : now' = end + PollDelay
    BY <1>7 DEF NotAttached
  <2>2. end \in Nat /\ now <= end /\ end <= Budget + 1
    <3>1. now < Budget
      BY <1>7, SimNetworkAssumption DEF NotAttached, Remaining
    <3> QED
      BY <1>7, <2>1, <3>1, Clamped, SimNetworkAssumption
  <2>3. now' \in Nat /\ now <= now' /\ Timely' /\ (now' < Budget => now < Budget)
    BY <1>7, <2>1, <2>2, SimNetworkAssumption DEF NotAttached, Timely, Latest, PollDelay
  <2>4. TypeOK'
    BY <1>7, <2>3 DEF NotAttached
  <2>5. OwnContext'
    BY <1>7 DEF NotAttached, OwnContext, Reasons, Before, TryingUntilUp, Up
  <2>6. Reasons'
    BY <1>7, <2>3 DEF NotAttached, OwnContext, Reasons, Before, TryingUntilUp, Up
  <2> QED
    BY <2>3, <2>4, <2>5, <2>6
<1>8. ASSUME IInv, AttachEnds PROVE IInv'
  <2>1. Timely'
    BY <1>8, SimNetworkAssumption DEF AttachEnds, Timely, Latest, Fails
  <2> QED
    BY <1>8, <2>1, SimNetworkAssumption DEF AttachEnds, Remaining, OwnContext, Reasons, Before, TryingUntilUp, Up, Fails
<1> QED
  BY <1>1, <1>2, <1>3, <1>4, <1>5, <1>6, <1>7, <1>8

\* The activation and its verification.
LEMMA UpKeeps ==
  IInv /\ (Activated \/ NotActivated \/ Verified \/ NotVerified \/ Addressed \/ NotAddressed) => IInv'
<1> USE DEF IInv, TypeOK, Steps, history, modem, world
<1>1. ASSUME IInv, Activated PROVE IInv'
  <2>1. now' \in Nat /\ now <= now' /\ (now' <= now \/ now' <= Budget + 1)
           /\ (now' < Budget => now < Budget)
    BY <1>1, Clamped, FoundEnds, SimNetworkAssumption DEF Activated
  <2>2. Timely'
    BY <1>1, <2>1, SimNetworkAssumption DEF Activated, Timely, Latest, Activation
  <2>3. TypeOK'
    BY <1>1, <2>1, <2>2 DEF Activated, Activation
  <2>4. OwnContext'
    BY <1>1 DEF Activated, OwnContext, Reasons, Before, TryingUntilUp, Up, Activation
  <2>5. Reasons'
    BY <1>1, <2>1, <2>2 DEF Activated, OwnContext, Reasons, Before, TryingUntilUp, Up, Activation
  <2> QED
    BY <2>2, <2>3, <2>4, <2>5
<1>2. ASSUME IInv, NotActivated PROVE IInv'
  <2>1. now' \in Nat /\ now <= now' /\ (now' <= now \/ now' <= Budget + 1)
           /\ (now' < Budget => now < Budget)
    BY <1>2, Clamped, FoundEnds, SimNetworkAssumption DEF NotActivated
  <2>2. Timely'
    BY <1>2, <2>1, SimNetworkAssumption DEF NotActivated, Timely, Latest, Activation, Fails
  <2>3. TypeOK'
    BY <1>2, <2>1, <2>2 DEF NotActivated, Activation, Fails
  <2>4. OwnContext'
    BY <1>2 DEF NotActivated, OwnContext, Reasons, Before, TryingUntilUp, Up, Activation, Fails
  <2>5. Reasons'
    BY <1>2, <2>1, <2>2 DEF NotActivated, OwnContext, Reasons, Before, TryingUntilUp, Up, Activation, Fails
  <2> QED
    BY <2>2, <2>3, <2>4, <2>5
<1>3. ASSUME IInv, Verified PROVE IInv'
  <2>1. now' \in Nat /\ now <= now' /\ (now' <= now \/ now' <= Budget + 1)
           /\ (now' < Budget => now < Budget)
    BY <1>3, Clamped, FoundEnds, SimNetworkAssumption DEF Verified
  <2>2. Timely'
    BY <1>3, <2>1, SimNetworkAssumption DEF Verified, Timely, Latest
  <2>3. TypeOK'
    BY <1>3, <2>1, <2>2 DEF Verified
  <2>4. OwnContext'
    BY <1>3 DEF Verified, OwnContext, Reasons, Before, TryingUntilUp, Up
  <2>5. Reasons'
    BY <1>3, <2>1, <2>2 DEF Verified, OwnContext, Reasons, Before, TryingUntilUp, Up
  <2> QED
    BY <2>2, <2>3, <2>4, <2>5
<1>4. ASSUME IInv, NotVerified PROVE IInv'
  <2>1. now' \in Nat /\ now <= now' /\ (now' <= now \/ now' <= Budget + 1)
           /\ (now' < Budget => now < Budget)
    BY <1>4, Clamped, FoundEnds, SimNetworkAssumption DEF NotVerified
  <2>2. Timely'
    BY <1>4, <2>1, SimNetworkAssumption DEF NotVerified, Timely, Latest, Fails
  <2>3. TypeOK'
    BY <1>4, <2>1, <2>2 DEF NotVerified, Fails
  <2>4. OwnContext'
    BY <1>4 DEF NotVerified, OwnContext, Reasons, Before, TryingUntilUp, Up, Fails
  <2>5. Reasons'
    BY <1>4, <2>1, <2>2 DEF NotVerified, OwnContext, Reasons, Before, TryingUntilUp, Up, Fails
  <2> QED
    BY <2>2, <2>3, <2>4, <2>5
<1>5. ASSUME IInv, Addressed PROVE IInv'
  <2>1. now' \in Nat /\ now <= now' /\ (now' <= now \/ now' <= Budget + 1)
           /\ (now' < Budget => now < Budget)
    BY <1>5, Clamped, FoundEnds, SimNetworkAssumption DEF Addressed
  <2>2. Timely'
    BY <1>5, <2>1, SimNetworkAssumption DEF Addressed, Timely, Latest
  <2>3. TypeOK'
    BY <1>5, <2>1, <2>2 DEF Addressed
  <2>4. OwnContext'
    BY <1>5 DEF Addressed, OwnContext, Reasons, Before, TryingUntilUp, Up
  <2>5. Reasons'
    BY <1>5, <2>1, <2>2 DEF Addressed, OwnContext, Reasons, Before, TryingUntilUp, Up
  <2> QED
    BY <2>2, <2>3, <2>4, <2>5
<1>6. ASSUME IInv, NotAddressed PROVE IInv'
  <2>1. now' \in Nat /\ now <= now' /\ (now' <= now \/ now' <= Budget + 1)
    BY <1>6, Clamped, FoundEnds DEF NotAddressed
  <2>2. Timely'
    BY <1>6, <2>1, SimNetworkAssumption DEF NotAddressed, Timely, Latest, Fails
  <2> QED
    BY <1>6, <2>1, <2>2 DEF NotAddressed, OwnContext, Reasons, Before, TryingUntilUp, Up, Fails
<1> QED
  BY <1>1, <1>2, <1>3, <1>4, <1>5, <1>6

\* What begins with the time: an APN is tried only if some is left.
LEMMA BeginKeeps ==
  ASSUME IInv, step \in {"imsi", "operator"}, NEW p \in Apns, Begin(p),
         now' \in Nat, now <= now', now' <= Budget + 81,
         UNCHANGED <<saved, world, modem, history>>
  PROVE  IInv'
<1> USE DEF IInv, TypeOK, Steps, history, modem, world, Begin
<1>1. TypeOK'
  OBVIOUS
<1>2. Timely'
  BY SimNetworkAssumption DEF Timely, Latest
<1>3. OwnContext'
  BY DEF OwnContext, Reasons, Before, TryingUntilUp, Up
<1>4. Reasons'
  <2>1. tried = {} /\ pdp = None /\ ~stale
    BY DEF Reasons, Before
  <2> QED
    BY <2>1, SimNetworkAssumption DEF Reasons, Before, TryingUntilUp, Up, Apns
<1> QED
  BY <1>1, <1>2, <1>3, <1>4

LEMMA CarrierKeeps ==
  IInv /\ (Signal \/ Imsi \/ NoImsi \/ Operator) => IInv'
<1> USE DEF IInv, TypeOK, Steps, history, modem, world
<1>1. ASSUME IInv, Signal PROVE IInv'
  <2>1. now' \in Nat /\ now <= now' /\ now' <= now + 20
    BY <1>1, Unclamped DEF Signal
  <2>2. Timely'
    BY <1>1, <2>1, SimNetworkAssumption DEF Signal, Timely, Latest
  <2> QED
    BY <1>1, <2>1, <2>2 DEF Signal, OwnContext, Reasons, Before, TryingUntilUp, Up
<1>2. ASSUME IInv, Imsi PROVE IInv'
  <2>1. now' \in Nat /\ now <= now' /\ now' <= now + 30
    BY <1>2, Unclamped DEF Imsi
  <2>2. now <= Budget + 21
    BY <1>2 DEF Imsi, Timely, Latest
  <2> QED
    BY <1>2, <2>1, <2>2, BeginKeeps, SimNetworkAssumption DEF Imsi
<1>3. ASSUME IInv, NoImsi PROVE IInv'
  <2>1. now' \in Nat /\ now <= now' /\ now' <= now + 30
    BY <1>3, Unclamped DEF NoImsi
  <2>2. Timely'
    BY <1>3, <2>1, SimNetworkAssumption DEF NoImsi, Timely, Latest
  <2> QED
    BY <1>3, <2>1, <2>2 DEF NoImsi, OwnContext, Reasons, Before, TryingUntilUp, Up
<1>4. ASSUME IInv, Operator PROVE IInv'
  <2>1. now' \in Nat /\ now <= now' /\ now' <= now + 30
    BY <1>4, Unclamped, FoundEnds DEF Operator
  <2>2. now <= Budget + 51
    BY <1>4 DEF Operator, Timely, Latest
  <2>3. PICK p \in Apns : Begin(p)
    BY <1>4 DEF Operator
  <2> QED
    BY <1>4, <2>1, <2>2, <2>3, BeginKeeps, SimNetworkAssumption DEF Operator
<1> QED
  BY <1>1, <1>2, <1>3, <1>4

\* The clean-up, which may leave the first context up, and the other APN.
LEMMA CleanupKeeps == IInv /\ Cleanup => IInv'
<1> SUFFICES ASSUME IInv, Cleanup PROVE IInv'
  OBVIOUS
<1> USE DEF IInv, TypeOK, Steps, history, modem, world, Cleanup, Fallback
<1>1. now' \in Nat /\ now <= now' /\ (now' <= now \/ now' <= Budget + 1)
      /\ (now' < Budget => now < Budget)
  BY Clamped, SimNetworkAssumption
<1>2. TypeOK'
  BY <1>1, OtherApn
<1>3. Timely'
  BY <1>1, SimNetworkAssumption DEF Timely, Latest
<1>4. OwnContext'
  BY DEF OwnContext, Reasons, Before, TryingUntilUp, Up
<1>5. Reasons'
  <2>1. CASE now' < Budget
    <3>1. now < Budget /\ profile \in tried
      BY <1>1, <2>1, SimNetworkAssumption DEF Reasons
    <3>2. Other(profile) \in Apns /\ Other(profile) # profile /\ Apns = {profile, Other(profile)}
      BY OtherApn
    <3>3. step' = "define" /\ profile' = Other(profile) /\ tried' = Apns
      BY <2>1
    <3>4. ~trouble => pdp' = None /\ profile \notin works
      BY <3>1 DEF Reasons
    <3>5. tried' \ {profile'} = {profile}
      BY <3>2, <3>3
    <3> QED
      BY <2>1, <3>2, <3>3, <3>4, <3>5 DEF Reasons, Before, TryingUntilUp, Up
  <2>2. CASE ~(now' < Budget)
    BY <2>2 DEF Reasons, Before, TryingUntilUp, Up
  <2> QED
    BY <2>1, <2>2
<1> QED
  BY <1>2, <1>3, <1>4, <1>5

LEMMA PdpLostKeeps == IInv /\ PdpLost => IInv'
<1> SUFFICES ASSUME IInv, PdpLost PROVE IInv'
  OBVIOUS
<1> USE DEF IInv, TypeOK, Steps, world, PdpLost
<1>1. TypeOK' /\ Timely'
  BY DEF Timely, Latest
<1>2. OwnContext'
  BY DEF OwnContext, Before, TryingUntilUp, Up
<1>3. Reasons'
  BY DEF Reasons, Before, TryingUntilUp, Up
<1> QED
  BY <1>1, <1>2, <1>3

LEMMA StepHolds == IInv /\ [Next]_vars => IInv'
<1>1. CASE UNCHANGED vars
  BY <1>1 DEF vars, IInv, TypeOK, Timely, Latest, OwnContext, Reasons
<1>2. CASE Next
  BY <1>2, PowerKeeps, RegistrationKeeps, CarrierKeeps, AttachKeeps, UpKeeps, CleanupKeeps,
     PdpLostKeeps DEF Next, Driver
<1> QED
  BY <1>1, <1>2

LEMMA Invariance == Spec => []IInv
  BY InitHolds, StepHolds, PTL DEF Spec

-----------------------------------------------------------------------------
\* The driver's fields, its clock and the modem's context keep their types.
THEOREM TypeCorrect == Spec => []TypeOK
  BY Invariance, PTL DEF IInv

\* The times that Connectivity counts on, whatever the budget and however slow the modem:
\* powerOn within 19 s, checkInternet within its budget and a read, or eight seconds more.
THEOREM ReturnsInTime == Spec => []InTime
<1>1. IInv => InTime
  BY DEF IInv, TypeOK, Timely, Latest, InTime
<1> QED
  BY <1>1, Invariance, PTL

\* checkInternet saves the APN it saw the context active with, as long as the clean-up
\* between the two APNs took the first context down.
THEOREM SavesWhatWorked == Spec => []RightApn
<1>1. IInv => RightApn
  BY DEF IInv, OwnContext, RightApn
<1> QED
  BY <1>1, Invariance, PTL

\* A check given up with time left, and with no failure of modem or network, has seen every
\* APN refused.
THEOREM GivesUpForAReason == Spec => []FailsForAReason
<1>1. IInv => FailsForAReason
  BY SimNetworkAssumption DEF IInv, TypeOK, Reasons, FailsForAReason
<1> QED
  BY <1>1, Invariance, PTL
=============================================================================
