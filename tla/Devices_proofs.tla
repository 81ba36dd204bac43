--------------------------- MODULE Devices_proofs ---------------------------
(***************************************************************************)
(* The two devices behind a wire: the clock on I2C and the level sensor on *)
(* the Modbus line.                                                        *)
(*                                                                         *)
(* RtcAlarm, for every hour length and schedule: what programming the      *)
(* alarm achieves when every transfer works, and what the order of the     *)
(* writes guarantees when they do not.                                     *)
(*                                                                         *)
(* Ultrasonic, for any number of samples, repeats and faults: whose frame  *)
(* a reading is taken from, and that its level is the one that was         *)
(* measured.                                                               *)
(***************************************************************************)
EXTENDS RtcAlarm, Ultrasonic, FiniteSetTheorems, SequenceTheorems, TLAPS

-----------------------------------------------------------------------------
(* RtcAlarm: the schedule.                                                 *)

\* Some element of a set of minutes comes first.
LEMMA EarliestIsIn ==
  ASSUME NEW S \in SUBSET Minute, S # {}
  PROVE  /\ Earliest(S) \in S
         /\ \A t \in S : Earliest(S) <= t
<1> DEFINE UpTo(x) == {t \in S : t <= x}
           Downsets == {UpTo(x) : x \in S}
<1>1. S \subseteq Nat
  BY RtcAlarmAssumption DEF Minute
<1>2. IsWellFoundedOn(StrictSubsetOrdering(Minute), SUBSET Minute)
  <2>1. IsFiniteSet(Minute)
    BY RtcAlarmAssumption, FS_Interval DEF Minute
  <2> QED
    BY <2>1, FS_StrictSubsetOrderingWellFounded, FS_FiniteSubsetsOfFinite
<1>3. Downsets \subseteq SUBSET Minute /\ Downsets # {}
  OBVIOUS
<1>4. PICK D \in Downsets : \A E \in Downsets : <<E, D>> \notin StrictSubsetOrdering(Minute)
  <2> HIDE DEF Downsets
  <2> QED
    BY <1>2, <1>3, WFMin
<1>5. PICK x \in S : D = UpTo(x)
  OBVIOUS
<1>6. ASSUME NEW y \in S
      PROVE  x <= y
  <2>1. SUFFICES ASSUME y < x
                 PROVE  FALSE
    BY <1>1
  <2>2. UpTo(y) \subseteq UpTo(x) /\ x \in UpTo(x) /\ x \notin UpTo(y)
    <3>1. S \subseteq Int /\ x \in Int /\ y \in Int
      BY <1>1
    <3>2. \A t \in S : t <= y => t <= x
      BY <2>1, <3>1
    <3>3. x <= x /\ ~(x <= y)
      BY <2>1, <3>1
    <3> QED
      BY <3>2, <3>3
  <2>3. UpTo(y) \in Downsets /\ UpTo(y) \in SUBSET Minute /\ UpTo(x) \in SUBSET Minute
    OBVIOUS
  <2>4. <<UpTo(y), D>> \in StrictSubsetOrdering(Minute)
    <3> HIDE DEF UpTo
    <3> QED
      BY <1>5, <2>2, <2>3 DEF StrictSubsetOrdering
  <2> QED
    BY <1>4, <2>3, <2>4
<1> QED
  BY <1>6 DEF Earliest

\* The next scheduled minute is a scheduled minute.
LEMMA NextIsScheduled ==
  ASSUME NEW m \in Minute
  PROVE  NextScheduled(m) \in Schedule
<1>1. Schedule \subseteq Minute /\ Schedule # {}
  BY RtcAlarmAssumption
<1>2. CASE \E s \in Schedule : s > m
  BY <1>1, <1>2, EarliestIsIn, {s \in Schedule : s > m} \in SUBSET Minute DEF NextScheduled
<1>3. CASE ~ \E s \in Schedule : s > m
  BY <1>1, <1>3, EarliestIsIn DEF NextScheduled
<1> QED
  BY <1>2, <1>3

LEMMA SuccIsMinute ==
  ASSUME NEW m \in Minute
  PROVE  Succ(m) \in Minute
BY RtcAlarmAssumption DEF Minute, Succ

\* A scheduled minute that comes right after m is the next one.
LEMMA NextIsSucc ==
  ASSUME NEW m \in Minute, Succ(m) \in Schedule
  PROVE  NextScheduled(m) = Succ(m)
<1>1. Schedule \subseteq Minute /\ MinutesPerHour \in Nat \ {0}
  BY RtcAlarmAssumption
<1>2. CASE m = MinutesPerHour - 1
  <2>1. ~ \E s \in Schedule : s > m
    BY <1>1, <1>2 DEF Minute
  <2>2. Succ(m) = 0 /\ 0 \in Schedule
    BY <1>2 DEF Succ
  <2>3. Earliest(Schedule) \in Schedule /\ Earliest(Schedule) <= 0
    BY <1>1, <2>2, EarliestIsIn
  <2>4. Earliest(Schedule) \in Minute
    BY <1>1, <2>3
  <2>5. Earliest(Schedule) = 0
    BY <1>1, <2>3, <2>4 DEF Minute
  <2> QED
    BY <2>1, <2>2, <2>5 DEF NextScheduled
<1>3. CASE m # MinutesPerHour - 1
  <2> DEFINE Later == {s \in Schedule : s > m}
  <2>1. Succ(m) = m + 1 /\ m \in Nat
    BY <1>1, <1>3 DEF Succ, Minute
  <2>2. m + 1 \in Later /\ Later \in SUBSET Minute
    <3>1. m + 1 > m
      BY <2>1
    <3> QED
      BY <1>1, <2>1, <3>1
  <2>3. Earliest(Later) \in Later /\ Earliest(Later) <= m + 1
    BY <2>2, EarliestIsIn
  <2>4. Earliest(Later) \in Nat /\ Earliest(Later) > m
    <3>1. Later \subseteq Nat
      <4>1. Schedule \subseteq Nat
        BY <1>1 DEF Minute
      <4> QED
        BY <4>1
    <3>2. \A s \in Later : s > m
      OBVIOUS
    <3> HIDE DEF Later
    <3> QED
      BY <2>3, <3>1, <3>2
  <2>5. Earliest(Later) = m + 1
    BY <2>1, <2>3, <2>4
  <2>6. \E s \in Schedule : s > m
    BY <2>2
  <2> QED
    BY <2>1, <2>5, <2>6 DEF NextScheduled
<1> QED
  BY <1>2, <1>3

\* A minute that is not scheduled leaves the next one what it was.
LEMMA NextStays ==
  ASSUME NEW m \in Minute, Succ(m) \notin Schedule
  PROVE  NextScheduled(Succ(m)) = NextScheduled(m)
<1>1. Schedule \subseteq Minute /\ MinutesPerHour \in Nat \ {0} /\ 0 \in Schedule
  BY RtcAlarmAssumption
<1>2. m # MinutesPerHour - 1
  BY <1>1 DEF Succ
<1>3. Succ(m) = m + 1 /\ m \in Nat
  BY <1>1, <1>2 DEF Succ, Minute
<1>4. \A s \in Schedule : s > m <=> s > m + 1
  BY <1>1, <1>3 DEF Minute
<1>5. {s \in Schedule : s > m} = {s \in Schedule : s > m + 1}
  BY <1>4
<1> QED
  BY <1>3, <1>4, <1>5 DEF NextScheduled

-----------------------------------------------------------------------------
(* Types.                                                                  *)

LEMMA TypeInit == Init => TypeOK
<1>1. 0 \in Minute
  BY RtcAlarmAssumption DEF Minute
<1>2. ASSUME Init
      PROVE  /\ alarm \in Minute \cup {Off} /\ minute \in Minute /\ now \in Minute
             /\ af \in BOOLEAN /\ aie \in BOOLEAN /\ kept \in BOOLEAN
  BY <1>1, <1>2 DEF Init
<1>3. ASSUME Init
      PROVE  cpu = "boot" /\ cause = "cold" /\ rolled \in Nat /\ trouble = {}
  BY <1>3 DEF Init
<1> QED
  BY <1>2, <1>3 DEF TypeOK

LEMMA TypeNext == TypeOK /\ [Next]_vars => TypeOK'
<1> SUFFICES ASSUME TypeOK, [Next]_vars
             PROVE  TypeOK'
  OBVIOUS
<1>0. NextScheduled(now) \in Minute /\ Succ(minute) \in Minute /\ 0 \in Minute
  BY NextIsScheduled, SuccIsMinute, RtcAlarmAssumption DEF TypeOK, Minute
<1> USE <1>0 DEF TypeOK, Write, Outcome, Booted, Note
<1>1. CASE Tick
  <2>1. af' \in BOOLEAN
    BY <1>1, Zenon DEF Tick
  <2> QED
    BY <1>1, <2>1 DEF Tick
<1>2. CASE TimeSync
  BY <1>2 DEF TimeSync
<1>3. CASE InitCs2
  BY <1>3 DEF InitCs2
<1>4. CASE InitAlarm
  BY <1>4 DEF InitAlarm
<1>5. CASE ClearRead
  BY <1>5 DEF ClearRead, rtc
<1>6. CASE ClearWrite
  BY <1>6 DEF ClearWrite
<1>7. CASE DiagnosticEnds
  BY <1>7 DEF DiagnosticEnds, rtc
<1>8. CASE FirstRead
  BY <1>8 DEF FirstRead, rtc
<1>9. CASE WorkEnds
  BY <1>9 DEF WorkEnds, rtc
<1>10. CASE SecondRead
  BY <1>10 DEF SecondRead, rtc
<1>11. CASE SetAlarm
  BY <1>11 DEF SetAlarm
<1>12. CASE SetRead
  BY <1>12 DEF SetRead, rtc
<1>13. CASE SetWrite
  BY <1>13 DEF SetWrite
<1>14. CASE Sleep
  BY <1>14 DEF Sleep, rtc
<1>15. CASE Wake
  BY <1>15 DEF Wake, rtc
<1>16. CASE ColdReset
  BY <1>16 DEF ColdReset, rtc
<1>17. CASE UNCHANGED vars
  BY <1>17 DEF vars
<1> QED
  BY <1>1, <1>2, <1>3, <1>4, <1>5, <1>6, <1>7, <1>8, <1>9, <1>10, <1>11, <1>12, <1>13, <1>14,
     <1>15, <1>16, <1>17 DEF Next, Boot, Cycle

\* Type correctness: for every schedule and whatever fails, the alarm register holds a minute
\* or is off (TypeOK).
THEOREM TypeCorrect == Spec => []TypeOK
<1> QED
  BY TypeInit, TypeNext, PTL DEF Spec

-----------------------------------------------------------------------------
(* The order of the writes.                                                *)

\* EnabledHasAlarm, and why it lasts: AIE is off before the alarm is, and the alarm is on
\* before AIE is, or is restored.
WriteOrder ==
  /\ EnabledHasAlarm
  /\ cpu = "initAlarm" => ~aie
  /\ cpu \in {"setRead", "setWrite"} => alarm # Off
  /\ cpu = "clearWrite" /\ kept => alarm # Off

LEMMA WriteOrderNext == TypeOK /\ WriteOrder /\ [Next]_vars => WriteOrder'
<1> SUFFICES ASSUME TypeOK, WriteOrder, [Next]_vars
             PROVE  WriteOrder'
  OBVIOUS
<1>0. NextScheduled(now) # Off
  <2>1. NextScheduled(now) \in Minute
    BY NextIsScheduled, RtcAlarmAssumption DEF TypeOK
  <2> QED
    BY <2>1, RtcAlarmAssumption DEF Minute, Off
<1> USE DEF WriteOrder, EnabledHasAlarm, Write, Outcome, Booted
<1>1. CASE Tick
  BY <1>1 DEF Tick
<1>2. CASE TimeSync
  BY <1>2 DEF TimeSync
<1>3. CASE InitCs2
  BY <1>3 DEF InitCs2
<1>4. CASE InitAlarm
  BY <1>4 DEF InitAlarm
<1>5. CASE ClearRead
  BY <1>5 DEF ClearRead, rtc
<1>6. CASE ClearWrite
  BY <1>6 DEF ClearWrite
<1>7. CASE DiagnosticEnds \/ FirstRead \/ WorkEnds \/ SecondRead \/ Sleep \/ Wake \/ ColdReset
  <2>1. UNCHANGED <<alarm, aie>>
    BY <1>7 DEF DiagnosticEnds, FirstRead, WorkEnds, SecondRead, Sleep, Wake, ColdReset, rtc
  <2>2. cpu' \in {"first", "work", "again", "setAlarm", "asleep", "boot"}
    BY <1>7 DEF DiagnosticEnds, FirstRead, WorkEnds, SecondRead, Sleep, Wake, ColdReset
  <2> QED
    BY <2>1, <2>2
<1>8. CASE SetAlarm
  BY <1>0, <1>8 DEF SetAlarm
<1>9. CASE SetRead
  BY <1>9 DEF SetRead, rtc
<1>10. CASE SetWrite
  BY <1>10 DEF SetWrite
<1>11. CASE UNCHANGED vars
  BY <1>11 DEF vars
<1> QED
  BY <1>1, <1>2, <1>3, <1>4, <1>5, <1>6, <1>7, <1>8, <1>9, <1>10, <1>11 DEF Next, Boot, Cycle

\* Whatever transfers fail, an enabled interrupt has an alarm to raise it (EnabledHasAlarm).
THEOREM InterruptHasAlarm == Spec => []EnabledHasAlarm
<1>1. Init => WriteOrder
  BY DEF Init, WriteOrder, EnabledHasAlarm
<1>2. WriteOrder => EnabledHasAlarm
  BY DEF WriteOrder
<1> QED
  BY <1>1, <1>2, TypeCorrect, WriteOrderNext, PTL DEF Spec

-----------------------------------------------------------------------------
(* An alarm set without trouble.                                           *)

\* What the alarm is while it is being set and after, as long as nothing went wrong.
Armed ==
  trouble = {} =>
    /\ cpu \in {"setAlarm", "setRead", "setWrite"} => now = minute
    /\ cpu \in {"setRead", "setWrite", "sleep"} => alarm = NextScheduled(minute)
    /\ cpu = "sleep" => aie /\ ~af
    /\ cpu = "asleep" => aie /\ (~af => alarm = NextScheduled(minute))

LEMMA ArmedNext ==
  ASSUME TypeOK, Armed, [Next]_vars, trouble' = {}
  PROVE  Armed'
<1>0. minute \in Minute /\ af \in BOOLEAN
  BY DEF TypeOK
<1> USE DEF Armed, Write, Booted, Note
<1>1. CASE Tick
  <2>1. CASE cpu = "asleep"
    <3>1. ~af /\ alarm = NextScheduled(minute) /\ aie
      BY <1>1, <2>1 DEF Tick, IntLow, Phase
    <3>2. CASE alarm = Succ(minute)
      BY <1>1, <2>1, <3>1, <3>2 DEF Tick
    <3>3. CASE alarm # Succ(minute)
      <4>1. NextScheduled(Succ(minute)) = NextScheduled(minute)
        BY <1>0, <3>1, <3>3, NextIsSucc, NextStays
      <4> QED
        BY <1>1, <2>1, <3>1, <4>1 DEF Tick
    <3> QED
      BY <3>2, <3>3
  <2>2. CASE cpu # "asleep"
    <3>1. cpu \notin {"again", "setAlarm", "setRead", "setWrite", "sleep"}
      BY <1>1 DEF Tick, Phase
    <3> QED
      BY <1>1, <2>2, <3>1 DEF Tick
  <2> QED
    BY <2>1, <2>2
<1>2. CASE TimeSync
  BY <1>2 DEF TimeSync
<1>3. CASE InitCs2 \/ InitAlarm \/ ClearRead \/ ClearWrite \/ DiagnosticEnds \/ FirstRead
           \/ WorkEnds \/ Wake \/ ColdReset
  BY <1>3 DEF InitCs2, InitAlarm, ClearRead, ClearWrite, DiagnosticEnds, FirstRead, WorkEnds,
              Wake, ColdReset, rtc
<1>4. CASE SecondRead
  BY <1>4 DEF SecondRead, rtc
<1>5. CASE SetAlarm
  BY <1>5 DEF SetAlarm
<1>6. CASE SetRead
  BY <1>6 DEF SetRead, rtc
<1>7. CASE SetWrite
  BY <1>7 DEF SetWrite
<1>8. CASE Sleep
  BY <1>8 DEF Sleep, rtc
<1>9. CASE UNCHANGED vars
  BY <1>9 DEF vars
<1> QED
  BY <1>1, <1>2, <1>3, <1>4, <1>5, <1>6, <1>7, <1>8, <1>9 DEF Next, Boot, Cycle

\* One step, from Armed: a scheduled minute that comes during sleep pulls INT low.
LEMMA BoundaryStep ==
  ASSUME TypeOK, Armed, [Next]_vars, trouble = {},
         cpu = "asleep", cpu' = "asleep", minute' # minute, minute' \in Schedule
  PROVE  IntLow'
<1>1. Tick
  BY DEF Next, Boot, Cycle, TimeSync, InitCs2, InitAlarm, ClearRead, ClearWrite, DiagnosticEnds,
         FirstRead, WorkEnds, SecondRead, SetAlarm, SetRead, SetWrite, Sleep, Wake, ColdReset,
         rtc, vars
<1>2. alarm = NextScheduled(minute) /\ aie
  BY <1>1 DEF Tick, IntLow, Armed, TypeOK
<1>3. Succ(minute) = alarm
  BY <1>1, <1>2, NextIsSucc DEF Tick, TypeOK
<1> QED
  BY <1>1, <1>2, <1>3 DEF Tick, IntLow

\* When no transfer failed and no minute ended while the alarm was set, every scheduled minute
\* wakes the chip (SoundAlarmRings), for every schedule with minute 0 in it and whatever went
\* wrong at boot or in the cycles before.
THEOREM EveryBoundaryWakes == Spec => SoundAlarmRings
<1>1. Init => Armed
  BY DEF Init, Armed
<1>2. TypeOK /\ Armed /\ [Next]_vars => Armed'
  <2>1. trouble' # {} => Armed'
    BY DEF Armed
  <2> QED
    BY <2>1, ArmedNext
<1>3. TypeOK /\ Armed /\ [Next]_vars => [trouble = {} => Rings]_vars
  BY BoundaryStep DEF Rings
<1> QED
  BY <1>1, <1>2, <1>3, TypeCorrect, PTL DEF Spec, SoundAlarmRings

-----------------------------------------------------------------------------
(* The minute it wakes in.                                                 *)

\* What lasts from the alarm's first write to the wake when no transfer failed: the alarm is a
\* scheduled minute, and AF says that the minute is that one, for it is cleared by the last write
\* and a chip asleep boots before another minute comes.
OnSchedule ==
  "transfer" \notin trouble =>
    /\ cpu \in {"setRead", "setWrite", "sleep", "asleep"} => alarm \in Schedule
    /\ cpu \in {"sleep", "asleep"} => aie /\ (af => minute = alarm)
    /\ cpu = "sleep" /\ rolled = 0 => ~af

LEMMA OnScheduleNext ==
  ASSUME MayRoll["program"] <= 1, TypeOK, OnSchedule, [Next]_vars
  PROVE  OnSchedule'
<1>0. MayRoll["program"] \in Nat /\ rolled \in Nat /\ NextScheduled(now) \in Schedule /\ af \in BOOLEAN
  BY NextIsScheduled, RtcAlarmAssumption DEF TypeOK, Phases
<1> USE DEF OnSchedule, Write, Booted, Note
<1>1. CASE Tick
  <2>1. UNCHANGED <<alarm, aie, cpu>> /\ ("transfer" \in trouble => "transfer" \in trouble')
    BY <1>1 DEF Tick
  <2>2. minute' = Succ(minute) /\ (af' => af \/ alarm = minute')
    BY <1>1, Zenon DEF Tick
  <2>3. CASE cpu = "asleep"
    BY <1>1, <2>1, <2>2, <2>3 DEF Tick, IntLow
  <2>4. CASE cpu = "sleep"
    <3>1. Phase = "program"
      BY <2>4 DEF Phase
    <3>2. rolled = 0 /\ rolled' = 1
      <4>1. rolled < MayRoll["program"] /\ rolled' = rolled + 1
        BY <1>1, <2>4, <3>1 DEF Tick
      <4> QED
        BY <1>0, <4>1
    <3> QED
      BY <2>1, <2>2, <2>4, <3>2
  <2>5. CASE cpu \notin {"sleep", "asleep"}
    BY <2>1, <2>5
  <2> QED
    BY <2>3, <2>4, <2>5
<1>2. CASE TimeSync
  BY <1>2 DEF TimeSync
<1>3. CASE InitCs2 \/ InitAlarm \/ ClearRead \/ ClearWrite \/ DiagnosticEnds \/ FirstRead
           \/ WorkEnds \/ SecondRead \/ Wake \/ ColdReset
  BY <1>3 DEF InitCs2, InitAlarm, ClearRead, ClearWrite, DiagnosticEnds, FirstRead, WorkEnds,
              SecondRead, Wake, ColdReset, rtc
<1>4. CASE SetAlarm
  BY <1>0, <1>4 DEF SetAlarm
<1>5. CASE SetRead
  BY <1>5 DEF SetRead, rtc
<1>6. CASE SetWrite
  BY <1>6 DEF SetWrite
<1>7. CASE Sleep
  BY <1>7 DEF Sleep, rtc
<1>8. CASE UNCHANGED vars
  BY <1>8 DEF vars
<1> QED
  BY <1>1, <1>2, <1>3, <1>4, <1>5, <1>6, <1>7, <1>8 DEF Next, Boot, Cycle

\* When no transfer failed while it was set, the alarm wakes the chip in a scheduled minute and in
\* no other (WakesOnSchedule), whatever is left in AF from before, if no more than one minute ends
\* while it is set: that takes three transfers of at most 100 ms.
THEOREM WakesAreScheduled == MayRoll["program"] <= 1 => (Spec => WakesOnSchedule)
<1> SUFFICES ASSUME MayRoll["program"] <= 1
             PROVE  Spec => WakesOnSchedule
  OBVIOUS
<1>1. Init => OnSchedule
  BY DEF Init, OnSchedule
<1>2. TypeOK /\ OnSchedule /\ [Next]_vars => OnSchedule'
  BY OnScheduleNext
<1>3. OnSchedule /\ [Next]_vars => [Wake /\ "transfer" \notin trouble => minute \in Schedule]_vars
  BY DEF OnSchedule, Wake, IntLow
<1> QED
  BY <1>1, <1>2, <1>3, TypeCorrect, PTL DEF Spec, WakesOnSchedule

-----------------------------------------------------------------------------
(* How long it sleeps.                                                     *)

\* Asleep behind an alarm whose transfers all worked.
SoundAsleep == cpu = "asleep" /\ "transfer" \notin trouble

\* The minutes until the clock reaches the alarm minute; none if it has been there.
MinutesLeft ==
  IF af THEN 0 ELSE IF minute < alarm THEN alarm - minute ELSE (alarm + MinutesPerHour) - minute

WithinAnHour ==
  SoundAsleep => aie /\ MinutesLeft \in 0 .. MinutesPerHour /\ (MinutesLeft = 0 => IntLow)

\* However many minutes ended meanwhile, an alarm that was set is some minute, and enabled.
AlarmSet ==
  "transfer" \notin trouble =>
    /\ cpu \in {"setRead", "setWrite", "sleep", "asleep"} => alarm \in Minute
    /\ cpu \in {"sleep", "asleep"} => aie

LEMMA AlarmSetNext ==
  ASSUME TypeOK, AlarmSet, [Next]_vars
  PROVE  AlarmSet'
<1>0. NextScheduled(now) \in Minute
  BY NextIsScheduled, RtcAlarmAssumption DEF TypeOK
<1> USE DEF AlarmSet, Write, Booted, Note
<1>1. CASE Tick \/ TimeSync
  <2>1. UNCHANGED <<alarm, aie, cpu>> /\ ("transfer" \in trouble => "transfer" \in trouble')
    BY <1>1 DEF Tick, TimeSync
  <2> QED
    BY <2>1
<1>2. CASE InitCs2 \/ InitAlarm \/ ClearRead \/ ClearWrite \/ DiagnosticEnds \/ FirstRead
           \/ WorkEnds \/ SecondRead \/ Wake \/ ColdReset
  BY <1>2 DEF InitCs2, InitAlarm, ClearRead, ClearWrite, DiagnosticEnds, FirstRead, WorkEnds,
              SecondRead, Wake, ColdReset, rtc
<1>3. CASE SetAlarm
  BY <1>0, <1>3 DEF SetAlarm
<1>4. CASE SetRead
  BY <1>4 DEF SetRead, rtc
<1>5. CASE SetWrite
  BY <1>5 DEF SetWrite
<1>6. CASE Sleep
  BY <1>6 DEF Sleep, rtc
<1>7. CASE UNCHANGED vars
  BY <1>7 DEF vars
<1> QED
  BY <1>1, <1>2, <1>3, <1>4, <1>5, <1>6, <1>7 DEF Next, Boot, Cycle

LEMMA AlarmWithinAnHour == TypeOK /\ AlarmSet => WithinAnHour
<1> SUFFICES ASSUME TypeOK, AlarmSet, SoundAsleep
             PROVE  aie /\ MinutesLeft \in 0 .. MinutesPerHour /\ (MinutesLeft = 0 => IntLow)
  BY DEF WithinAnHour
<1>1. /\ minute \in 0 .. MinutesPerHour - 1 /\ alarm \in 0 .. MinutesPerHour - 1
      /\ MinutesPerHour \in Nat /\ aie /\ af \in BOOLEAN
  BY RtcAlarmAssumption DEF AlarmSet, SoundAsleep, TypeOK, Minute
<1>2. CASE af
  BY <1>1, <1>2 DEF MinutesLeft, IntLow
<1>3. CASE ~af
  BY <1>1, <1>3 DEF MinutesLeft
<1> QED
  BY <1>1, <1>2, <1>3

\* Asleep only the clock moves, until INT goes low or power is lost.
LEMMA AsleepStep ==
  ASSUME TypeOK, AlarmSet, SoundAsleep, [Next]_vars
  PROVE  \/ cpu' = "boot"
         \/ SoundAsleep' /\ (minute' # minute => MinutesLeft' < MinutesLeft)
<1>1. CASE Tick
  <2>1. /\ minute \in 0 .. MinutesPerHour - 1 /\ alarm \in 0 .. MinutesPerHour - 1
        /\ MinutesPerHour \in Nat /\ af = FALSE
    BY <1>1, RtcAlarmAssumption DEF Tick, AlarmSet, SoundAsleep, TypeOK, Minute, IntLow
  <2>2. /\ minute' = IF minute = MinutesPerHour - 1 THEN 0 ELSE minute + 1
        /\ af' = (alarm = minute') /\ alarm' = alarm
    BY <1>1, <2>1 DEF Tick, Succ
  <2>3. SoundAsleep'
    BY <1>1 DEF Tick, SoundAsleep, Phase
  <2>4. MinutesLeft' < MinutesLeft
    <3>1. CASE alarm = minute'
      <4>1. MinutesLeft' = 0
        BY <2>2, <3>1 DEF MinutesLeft
      <4>2. MinutesLeft > 0
        BY <2>1 DEF MinutesLeft
      <4> QED
        BY <4>1, <4>2
    <3>2. CASE alarm # minute'
      <4>1. af' = FALSE
        BY <2>2, <3>2
      <4>2. PICK m \in 0 .. MinutesPerHour - 1 : m = minute'
        BY <2>1, <2>2
      <4>3. MinutesLeft' = IF m < alarm THEN alarm - m ELSE (alarm + MinutesPerHour) - m
        BY <2>2, <4>1, <4>2 DEF MinutesLeft
      <4>4. MinutesLeft = IF minute < alarm THEN alarm - minute ELSE (alarm + MinutesPerHour) - minute
        BY <2>1 DEF MinutesLeft
      <4>5. (m = 0 /\ minute = MinutesPerHour - 1) \/ m = minute + 1
        BY <2>2, <4>2
      <4>6. alarm # m
        BY <3>2, <4>2
      <4> QED
        BY <2>1, <4>3, <4>4, <4>5, <4>6
    <3> QED
      BY <3>1, <3>2
  <2> QED
    BY <2>3, <2>4
<1>2. CASE Wake \/ ColdReset
  BY <1>2 DEF Wake, ColdReset
<1>3. CASE UNCHANGED vars
  BY <1>3 DEF vars, SoundAsleep
<1>4. ~(TimeSync \/ Boot \/ Cycle)
  BY DEF SoundAsleep, TimeSync, Boot, InitCs2, InitAlarm, ClearRead, ClearWrite, DiagnosticEnds,
         Cycle, FirstRead, WorkEnds, SecondRead, SetAlarm, SetRead, SetWrite, Sleep
<1> QED
  BY <1>1, <1>2, <1>3, <1>4 DEF Next

\* Unless a transfer failed, the logger never sleeps longer than an hour: the clock is at most that
\* far from the alarm minute and nears it with every minute, and in that minute INT is low.  This is
\* the part of WakesAgain that needs no fairness, for every schedule and however many minutes end
\* while the alarm is set.
THEOREM SleepsAnHourAtMost ==
  Spec => /\ []WithinAnHour
          /\ [][SoundAsleep => \/ cpu' = "boot"
                               \/ SoundAsleep' /\ (minute' # minute => MinutesLeft' < MinutesLeft)]_vars
<1>1. Init => AlarmSet
  BY DEF Init, AlarmSet
<1>2. TypeOK /\ AlarmSet /\ [Next]_vars => AlarmSet'
  BY AlarmSetNext
<1>3. TypeOK /\ AlarmSet /\ [Next]_vars
        => [SoundAsleep => \/ cpu' = "boot"
                           \/ SoundAsleep' /\ (minute' # minute => MinutesLeft' < MinutesLeft)]_vars
  BY AsleepStep
<1> QED
  BY <1>1, <1>2, <1>3, AlarmWithinAnHour, TypeCorrect, PTL DEF Spec

-----------------------------------------------------------------------------
(* Ultrasonic: what is on the line.                                        *)

\* The frames that bytes are of, 0 for a byte that was spoilt.
Ids(s) == {s[i].of.id : i \in DOMAIN s}

\* The frames whose checksum is among them.
Own(b) == IF b.field = "checksum" THEN {b.of.id} ELSE {}
Sums(s) == UNION {Own(s[i]) : i \in DOMAIN s}

\* A checksum comes once.
Single(s) == \A i, j \in DOMAIN s : Own(s[i]) \cap Own(s[j]) # {} => i = j

\* A byte is one of an answer to a request, or spoilt.
Named(s, n) ==
  /\ Ids(s) \subseteq 0 .. n
  /\ \A i \in DOMAIN s : s[i].field = "spoilt" \/ s[i].of.id > 0

Known == Named(got, asked) /\ Named(rx, asked) /\ Named(wire, asked)

Once ==
  /\ Single(rx) /\ Single(wire)
  /\ Sums(rx) \cap Sums(wire) = {}
  /\ Sums(got) \cap (Sums(rx) \cup Sums(wire)) = {}

\* Where the measurement is, and the requests that took.
Progress ==
  /\ pc \in {"off", "failed"} => sample = 0
  /\ pc = "off" => asked = 0
  /\ pc = "done" => sample = Samples /\ asked <= 1 + Samples * Repeats
  /\ sample = 0 => asked <= IF pc \in {"read", "failed"} THEN 1 ELSE 0
  /\ sample > 0 /\ pc = "send" => asked <= (sample - 1) * Repeats + try
  /\ sample > 0 /\ pc = "read" => asked <= 1 + ((sample - 1) * Repeats + try)

\* The reading has been made, or given up.
Past(i) == i < sample \/ pc = "done"

\* What may still be read.
Pending == Sums(rx) \cup Sums(wire) \cup IF pc = "read" THEN Sums(got) ELSE {}

\* A reading that was taken is the level of a frame that cannot be taken again.
Taken ==
  \A i \in 1 .. Samples : frames[i].id > 0 =>
    /\ Past(i)
    /\ Gives(frames[i], out[i])
    /\ frames[i].id <= asked /\ frames[i].id \notin Pending
    /\ \A j \in 1 .. Samples \ {i} : frames[j].id # frames[i].id

AllTaken == allOk => \A i \in 1 .. Samples : Past(i) => frames[i].id > 0

\* When nothing was on its way at the request, only its answer is now.
Fresh ==
  pc = "read" /\ quiet => \A s \in {got, rx, wire} : Ids(s) \subseteq {0, asked}

LineInv == USTypeOK /\ Known /\ Once /\ Progress /\ Taken /\ AllTaken /\ Fresh /\ OwnAnswer

\* The bytes of one frame, in their places.
Lined(f) ==
  /\ Len(got) + Len(rx) + Len(wire) = Length
  /\ \A i \in DOMAIN got : got[i] = Bytes(f)[i]
  /\ \A i \in DOMAIN rx : rx[i] = Bytes(f)[Len(got) + i]
  /\ \A i \in DOMAIN wire : wire[i] = Bytes(f)[Len(got) + Len(rx) + i]

\* Nothing went wrong: every request was answered, and what it brought is all there is.
Healthy ==
  faults = 0 /\ ~odd =>
    /\ allOk /\ try = 1 /\ pc # "failed"
    /\ pc # "read" => wire = <<>> /\ rx = <<>>
    /\ pc \in {"off", "send"} => asked = sample
    /\ pc \in {"read", "done"} => asked = 1 + sample
    /\ pc = "read" =>
         \E f \in Frames : f.id = asked /\ f.range - f.distance \in 1 .. MaxDistance /\ Lined(f)

-----------------------------------------------------------------------------
(* Bytes that move.                                                        *)

LEMMA BytesOf ==
  ASSUME NEW f \in Frames
  PROVE  /\ Bytes(f) \in Seq(ByteSet) /\ Len(Bytes(f)) = 3 /\ DOMAIN Bytes(f) = 1 .. 3
         /\ \A i \in 1 .. 3 : Bytes(f)[i].of = f /\ Bytes(f)[i] \in ByteSet
         /\ Bytes(f)[1].field = "distance" /\ Bytes(f)[2].field = "range" /\ Bytes(f)[3].field = "checksum"
BY DEF Bytes, ByteSet

LEMMA FramesAre ==
  /\ Spoilt \in ByteSet /\ NoFrame \in Frames /\ Spoilt.of = NoFrame /\ NoFrame.id = 0 /\ Spoilt.field = "spoilt"
  /\ \A n \in Nat, d, r \in Registers : [id |-> n, distance |-> d, range |-> r] \in Frames
<1>1. NoFrame \in Frames /\ NoFrame.id = 0
  BY DEF NoFrame, Frames, Word
<1>2. Spoilt \in ByteSet /\ Spoilt.of = NoFrame /\ Spoilt.field = "spoilt"
  BY <1>1 DEF Spoilt, ByteSet
<1>3. \A n \in Nat, d, r \in Registers : [id |-> n, distance |-> d, range |-> r] \in Frames
  BY UltrasonicAssumption DEF Frames
<1> QED
  BY <1>1, <1>2, <1>3

\* The head of a sequence, and what is left when it has gone.
LEMMA Leaving ==
  ASSUME NEW s \in Seq(ByteSet), s # <<>>
  PROVE  /\ Tail(s) \in Seq(ByteSet) /\ Head(s) \in ByteSet /\ Head(s) = s[1] /\ 1 \in DOMAIN s
         /\ \A i \in DOMAIN Tail(s) : i \in Nat /\ i >= 1 /\ i + 1 \in DOMAIN s /\ Tail(s)[i] = s[i + 1]
         /\ \A i \in DOMAIN s : i = 1 \/ (i - 1 \in DOMAIN Tail(s) /\ Tail(s)[i - 1] = s[i])
         /\ Len(Tail(s)) = Len(s) - 1
<1>1. Tail(s) \in Seq(ByteSet) /\ Head(s) \in ByteSet /\ Head(s) = s[1]
      /\ Len(Tail(s)) = Len(s) - 1 /\ \A i \in 1 .. Len(Tail(s)) : Tail(s)[i] = s[i + 1]
  BY HeadTailProperties
<1>2. DOMAIN s = 1 .. Len(s) /\ DOMAIN Tail(s) = 1 .. Len(Tail(s)) /\ Len(s) \in Nat /\ Len(s) > 0
  BY <1>1, LenProperties, EmptySeq
<1>3. \A i \in DOMAIN s : i = 1 \/ (i - 1 \in DOMAIN Tail(s) /\ (i - 1) + 1 = i)
  BY <1>1, <1>2
<1>4. \A i \in DOMAIN Tail(s) : i \in Nat /\ i >= 1 /\ i + 1 \in DOMAIN s
  BY <1>1, <1>2
<1>5. \A i \in DOMAIN Tail(s) : Tail(s)[i] = s[i + 1]
  BY <1>1, <1>2
<1>6. \A i \in DOMAIN s : i = 1 \/ (i - 1 \in DOMAIN Tail(s) /\ Tail(s)[i - 1] = s[i])
  <2>1. ASSUME NEW i \in DOMAIN s, i # 1
        PROVE  i - 1 \in DOMAIN Tail(s) /\ Tail(s)[i - 1] = s[i]
    <3>1. i - 1 \in DOMAIN Tail(s) /\ (i - 1) + 1 = i
      BY <1>3, <2>1
    <3>2. Tail(s)[i - 1] = s[(i - 1) + 1]
      BY <1>5, <3>1
    <3> QED
      BY <3>1, <3>2
  <2> QED
    BY <2>1, Zenon
<1>7. 1 \in DOMAIN s
  BY <1>2
<1> QED
  BY <1>1, <1>4, <1>5, <1>6, <1>7

\* A sequence to which a byte is added.
LEMMA Joining ==
  ASSUME NEW s \in Seq(ByteSet), NEW b \in ByteSet
  PROVE  /\ Append(s, b) \in Seq(ByteSet)
         /\ DOMAIN Append(s, b) = DOMAIN s \cup {Len(s) + 1} /\ Len(s) + 1 \notin DOMAIN s
         /\ Append(s, b)[Len(s) + 1] = b /\ \A i \in DOMAIN s : Append(s, b)[i] = s[i]
         /\ Len(Append(s, b)) = Len(s) + 1
<1>1. /\ Append(s, b) \in Seq(ByteSet) /\ Len(Append(s, b)) = Len(s) + 1
      /\ \A i \in 1 .. Len(s) : Append(s, b)[i] = s[i]
      /\ Append(s, b)[Len(s) + 1] = b
  BY AppendProperties
<1>2. DOMAIN s = 1 .. Len(s) /\ DOMAIN Append(s, b) = 1 .. Len(s) + 1 /\ Len(s) \in Nat
  BY <1>1, LenProperties
<1> QED
  BY <1>1, <1>2

LEMMA OwnLeaving ==
  ASSUME NEW s \in Seq(ByteSet), s # <<>>
  PROVE  /\ Sums(s) = Own(Head(s)) \cup Sums(Tail(s))
         /\ Single(s) => Single(Tail(s)) /\ Own(Head(s)) \cap Sums(Tail(s)) = {}
         /\ Ids(s) = {Head(s).of.id} \cup Ids(Tail(s))
         /\ \A n : Named(s, n) => Named(Tail(s), n) /\ (Head(s).field = "spoilt" \/ Head(s).of.id > 0)
<1> DEFINE t == Tail(s)
<1>1. /\ 1 \in DOMAIN s /\ Head(s) = s[1]
      /\ \A i \in DOMAIN t : i \in Nat /\ i >= 1 /\ i + 1 \in DOMAIN s /\ t[i] = s[i + 1]
      /\ \A i \in DOMAIN s : i = 1 \/ (i - 1 \in DOMAIN t /\ t[i - 1] = s[i])
  BY Leaving
<1> HIDE DEF t
<1>2. Sums(s) = Own(Head(s)) \cup Sums(t)
  BY <1>1 DEF Sums
<1>3. Single(s) => Single(t)
  <2> SUFFICES ASSUME Single(s), NEW i \in DOMAIN t, NEW j \in DOMAIN t, Own(t[i]) \cap Own(t[j]) # {}
               PROVE  i = j
    BY DEF Single
  <2>1. i + 1 = j + 1 /\ i \in Nat /\ j \in Nat
    BY <1>1 DEF Single
  <2> QED
    BY <2>1
<1>4. Single(s) => Own(Head(s)) \cap Sums(t) = {}
  <2> SUFFICES ASSUME Single(s), NEW x \in Own(Head(s)), x \in Sums(t) PROVE FALSE
    OBVIOUS
  <2>1. PICK i \in DOMAIN t : x \in Own(t[i])
    BY DEF Sums
  <2>2. x \in Own(s[1]) \cap Own(s[i + 1]) /\ i + 1 \in DOMAIN s /\ i \in Nat /\ i >= 1
    BY <1>1, <2>1
  <2>3. 1 = i + 1
    BY <1>1, <2>2 DEF Single
  <2> QED
    BY <2>2, <2>3
<1>5. Ids(s) = {Head(s).of.id} \cup Ids(t)
  BY <1>1 DEF Ids
<1>6. \A n : Named(s, n) => Named(t, n) /\ (Head(s).field = "spoilt" \/ Head(s).of.id > 0)
  BY <1>1, <1>5 DEF Named
<1> QED
  BY <1>2, <1>3, <1>4, <1>5, <1>6 DEF t

LEMMA OwnJoining ==
  ASSUME NEW s \in Seq(ByteSet), NEW b \in ByteSet
  PROVE  /\ Sums(Append(s, b)) = Sums(s) \cup Own(b)
         /\ Single(s) /\ Own(b) \cap Sums(s) = {} => Single(Append(s, b))
         /\ Ids(Append(s, b)) = Ids(s) \cup {b.of.id}
         /\ \A n : Named(s, n) /\ b.of.id \in 0 .. n /\ (b.field = "spoilt" \/ b.of.id > 0)
                  => Named(Append(s, b), n)
<1> DEFINE t == Append(s, b)
           k == Len(s) + 1
<1>1. /\ DOMAIN t = DOMAIN s \cup {k} /\ k \notin DOMAIN s
      /\ t[k] = b /\ \A i \in DOMAIN s : t[i] = s[i]
  BY Joining
<1> HIDE DEF t, k
<1>2. Sums(t) = Sums(s) \cup Own(b)
  BY <1>1 DEF Sums
<1>3. Single(s) /\ Own(b) \cap Sums(s) = {} => Single(t)
  <2> SUFFICES ASSUME Single(s), Own(b) \cap Sums(s) = {},
                      NEW i \in DOMAIN t, NEW j \in DOMAIN t, Own(t[i]) \cap Own(t[j]) # {}
               PROVE  i = j
    BY DEF Single
  <2>1. \A l \in DOMAIN s : Own(b) \cap Own(s[l]) = {}
    BY DEF Sums
  <2>2. CASE i = k \/ j = k
    BY <1>1, <2>1, <2>2
  <2>3. CASE i # k /\ j # k
    BY <1>1, <2>3 DEF Single
  <2> QED
    BY <2>2, <2>3
<1>4. Ids(t) = Ids(s) \cup {b.of.id}
  BY <1>1 DEF Ids
<1>5. \A n : Named(s, n) /\ b.of.id \in 0 .. n /\ (b.field = "spoilt" \/ b.of.id > 0) => Named(t, n)
  BY <1>1, <1>4 DEF Named
<1> QED
  BY <1>2, <1>3, <1>4, <1>5 DEF t

\* Nothing is in an empty buffer.
LEMMA Nothing ==
  /\ <<>> \in Seq(ByteSet) /\ Len(<<>>) = 0
  /\ Sums(<<>>) = {} /\ Single(<<>>) /\ Ids(<<>>) = {} /\ \A n : Named(<<>>, n)
BY DEF Sums, Single, Ids, Named

\* An answer goes onto the line.
LEMMA Answered ==
  ASSUME NEW s \in Seq(ByteSet), NEW f \in Frames
  PROVE  /\ s \o Bytes(f) \in Seq(ByteSet)
         /\ Len(s \o Bytes(f)) = Len(s) + 3
         /\ Sums(s \o Bytes(f)) = Sums(s) \cup {f.id}
         /\ Single(s) /\ f.id \notin Sums(s) => Single(s \o Bytes(f))
         /\ Ids(s \o Bytes(f)) = Ids(s) \cup {f.id}
         /\ \A n \in Nat : Named(s, n) /\ f.id \in 1 .. n => Named(s \o Bytes(f), n)
<1> DEFINE b1 == Bytes(f)[1]
           b2 == Bytes(f)[2]
           b3 == Bytes(f)[3]
           s1 == Append(s, b1)
           s2 == Append(s1, b2)
           s3 == Append(s2, b3)
<1>1. /\ b1 \in ByteSet /\ b2 \in ByteSet /\ b3 \in ByteSet
      /\ b1.of = f /\ b2.of = f /\ b3.of = f
      /\ b1.field = "distance" /\ b2.field = "range" /\ b3.field = "checksum"
      /\ Bytes(f) = <<b1, b2, b3>>
  BY BytesOf DEF Bytes
<1> HIDE DEF b1, b2, b3
<1>2. s \o Bytes(f) = s3
  <2>1. \A x, y, z : s \o <<x, y, z>> = Append(Append(Append(s, x), y), z)
    OBVIOUS
  <2> QED
    BY <1>1, <2>1
<1>n. \A n \in Nat : f.id \in 1 .. n => f.id \in 0 .. n /\ f.id > 0
  BY DEF Frames
<1>3. Own(b1) = {} /\ Own(b2) = {} /\ Own(b3) = {f.id}
  BY <1>1 DEF Own
<1>4. s1 \in Seq(ByteSet) /\ s2 \in Seq(ByteSet) /\ s3 \in Seq(ByteSet)
      /\ Len(s3) = Len(s) + 3
  BY <1>1, Joining, LenProperties
<1> HIDE DEF s1, s2, s3
<1>5. Sums(s1) = Sums(s) /\ (Single(s) => Single(s1)) /\ Ids(s1) = Ids(s) \cup {f.id}
      /\ \A n \in Nat : Named(s, n) /\ f.id \in 1 .. n => Named(s1, n)
  <2>1. /\ Sums(s1) = Sums(s) \cup Own(b1) /\ (Single(s) /\ Own(b1) \cap Sums(s) = {} => Single(s1))
        /\ Ids(s1) = Ids(s) \cup {b1.of.id}
        /\ \A n : Named(s, n) /\ b1.of.id \in 0 .. n /\ (b1.field = "spoilt" \/ b1.of.id > 0) => Named(s1, n)
    BY <1>1, OwnJoining DEF s1
  <2>2. \A n \in Nat : Named(s, n) /\ f.id \in 1 .. n => Named(s1, n)
    BY <1>n, <1>1, <2>1
  <2> QED
    BY <1>1, <1>3, <2>1, <2>2
<1>6. Sums(s2) = Sums(s) /\ (Single(s) => Single(s2)) /\ Ids(s2) = Ids(s) \cup {f.id}
      /\ \A n \in Nat : Named(s, n) /\ f.id \in 1 .. n => Named(s2, n)
  <2>1. /\ Sums(s2) = Sums(s1) \cup Own(b2) /\ (Single(s1) /\ Own(b2) \cap Sums(s1) = {} => Single(s2))
        /\ Ids(s2) = Ids(s1) \cup {b2.of.id}
        /\ \A n : Named(s1, n) /\ b2.of.id \in 0 .. n /\ (b2.field = "spoilt" \/ b2.of.id > 0) => Named(s2, n)
    BY <1>1, <1>4, OwnJoining DEF s2
  <2>2. \A n \in Nat : Named(s, n) /\ f.id \in 1 .. n => Named(s2, n)
    BY <1>n, <1>1, <1>5, <2>1
  <2> QED
    BY <1>1, <1>3, <1>5, <2>1, <2>2
<1>7. Sums(s3) = Sums(s) \cup {f.id} /\ (Single(s) /\ f.id \notin Sums(s) => Single(s3))
      /\ Ids(s3) = Ids(s) \cup {f.id}
      /\ \A n \in Nat : Named(s, n) /\ f.id \in 1 .. n => Named(s3, n)
  BY <1>n, <1>1, <1>3, <1>4, <1>6, OwnJoining DEF s3
<1> QED
  BY <1>2, <1>4, <1>7

-----------------------------------------------------------------------------
(* Readings and requests are counted.                                      *)

\* The requests that k readings may take.
LEMMA Counting ==
  ASSUME NEW k \in 1 .. Samples
  PROVE  /\ (k - 1) * Repeats \in Nat /\ k * Repeats = (k - 1) * Repeats + Repeats
         /\ k * Repeats <= Samples * Repeats /\ Samples * Repeats \in Nat
<1>1. k \in Nat /\ k >= 1 /\ k <= Samples /\ Samples \in Nat /\ Repeats \in Nat
  BY UltrasonicAssumption
<1>2. \A a, b \in Nat : a * b \in Nat
  OBVIOUS
<1>3. k * Repeats = (k - 1) * Repeats + Repeats
  BY <1>1
<1>4. Samples * Repeats = k * Repeats + (Samples - k) * Repeats
  BY <1>1
<1>5. (Samples - k) * Repeats \in Nat /\ (k - 1) * Repeats \in Nat /\ k * Repeats \in Nat
  <2>1. Samples - k \in Nat /\ k - 1 \in Nat
    BY <1>1
  <2> QED
    BY <1>1, <1>2, <2>1
<1> QED
  BY <1>3, <1>4, <1>5

LEMMA NumbersAre ==
  ASSUME USTypeOK
  PROVE  /\ Samples \in Nat /\ Samples >= 1 /\ Repeats \in Nat /\ Repeats >= 1
         /\ sample \in Nat /\ sample <= Samples /\ try \in Nat /\ try >= 1 /\ try <= Repeats
         /\ asked \in Nat /\ (sample - 1) * Repeats \in Int
         /\ sample > 0 => /\ (sample - 1) * Repeats \in Nat
                          /\ sample * Repeats = (sample - 1) * Repeats + Repeats
                          /\ sample * Repeats <= Samples * Repeats
         /\ Samples * Repeats \in Nat
<1>1. /\ Samples \in Nat /\ Samples >= 1 /\ Repeats \in Nat /\ Repeats >= 1
      /\ sample \in Nat /\ sample <= Samples /\ try \in Nat /\ try >= 1 /\ try <= Repeats
  BY UltrasonicAssumption DEF USTypeOK
<1>2. \A a, b \in Int : a * b \in Int
  OBVIOUS
<1>3. Samples * Repeats \in Nat /\ (sample - 1) * Repeats \in Int
  <2>1. \A a, b \in Nat : a * b \in Nat
    OBVIOUS
  <2> QED
    BY <1>1, <1>2, <2>1
<1>4. asked \in Nat
  BY <1>3 DEF USTypeOK
<1>5. sample > 0 => sample \in 1 .. Samples
  BY <1>1
<1> QED
  BY <1>1, <1>3, <1>4, <1>5, Counting

\* The readings never take more than Repeats requests each.
LEMMA Enough ==
  ASSUME USTypeOK, Progress PROVE asked <= 1 + Samples * Repeats
<1> DEFINE p == (sample - 1) * Repeats
           q == Samples * Repeats
           m == sample * Repeats
<1>1. /\ sample \in Nat /\ try <= Repeats /\ asked \in Nat /\ try \in Nat /\ Repeats \in Nat
      /\ (sample > 0 => p \in Nat /\ m = p + Repeats /\ m <= q) /\ q \in Nat /\ p \in Int
      /\ pc \in {"off", "send", "read", "done", "failed"}
  BY NumbersAre DEF USTypeOK
<1>2. /\ pc \in {"off", "failed"} => sample = 0
      /\ pc = "done" => asked <= 1 + q
      /\ sample = 0 => asked <= IF pc \in {"read", "failed"} THEN 1 ELSE 0
      /\ sample > 0 /\ pc = "send" => asked <= p + try
      /\ sample > 0 /\ pc = "read" => asked <= 1 + (p + try)
  BY DEF Progress
<1> HIDE DEF p, q, m
<1> QED
  BY <1>1, <1>2 DEF q

\* A request is one of those that the reading may take.
LEMMA SendCounts ==
  ASSUME USTypeOK, Progress, pc = "send", pc' = "read", asked' = asked + 1, UNCHANGED <<sample, try>>
  PROVE  Progress' /\ asked' \in 0 .. 1 + Samples * Repeats
<1> DEFINE p == (sample - 1) * Repeats
           q == Samples * Repeats
           m == sample * Repeats
<1>1. /\ sample \in Nat /\ try <= Repeats /\ asked \in Nat /\ try \in Nat /\ Repeats \in Nat
      /\ (sample > 0 => p \in Nat /\ m = p + Repeats /\ m <= q) /\ q \in Nat /\ p \in Int
  BY NumbersAre
<1>2. /\ sample = 0 => asked <= 0
      /\ sample > 0 => asked <= p + try
  BY DEF Progress
<1>3. p' = p
  OBVIOUS
<1> HIDE DEF p, q, m
<1>4. /\ sample = 0 => asked' <= 1
      /\ sample > 0 => asked' <= 1 + (p + try) /\ asked' <= 1 + q
      /\ asked' \in Nat /\ asked' <= 1 + q
  BY <1>1, <1>2
<1> QED
  BY <1>1, <1>3, <1>4 DEF Progress, p, q

\* A reading that ends leaves the next one all its requests.
LEMMA ProceedCounts ==
  ASSUME USTypeOK, Progress, pc = "read", Proceed, UNCHANGED asked
  PROVE  Progress' /\ sample' \in 0 .. Samples /\ try' \in 1 .. Repeats /\ pc' \in {"send", "done"}
<1> DEFINE p == (sample - 1) * Repeats
           q == Samples * Repeats
           m == sample * Repeats
<1>1. /\ sample \in Nat /\ try <= Repeats /\ asked \in Nat /\ try \in Nat /\ Repeats \in Nat /\ Repeats >= 1
      /\ (sample > 0 => p \in Nat /\ m = p + Repeats /\ m <= q) /\ q \in Nat /\ p \in Int
      /\ sample <= Samples /\ Samples \in Nat /\ Samples >= 1
  BY NumbersAre
<1>2. /\ sample = 0 => asked <= 1
      /\ sample > 0 => asked <= 1 + (p + try)
  BY DEF Progress
<1>3. 0 * Repeats = 0
  BY <1>1
<1>4. sample > 0 => asked <= 1 + m
  <2> HIDE DEF p, q, m
  <2> QED
    BY <1>1, <1>2
<1>5. CASE sample = Samples
  <2>1. pc' = "done" /\ sample' = sample /\ try' = 1
    BY <1>5 DEF Proceed
  <2>2. asked' <= 1 + Samples * Repeats
    <3>1. m = q
      BY <1>5
    <3> HIDE DEF m, q
    <3>2. asked <= 1 + q
      BY <1>1, <1>4, <1>5, <3>1
    <3> QED
      BY <3>2 DEF q
  <2> QED
    BY <1>1, <1>5, <2>1, <2>2 DEF Progress
<1>6. CASE sample # Samples
  <2>1. pc' = "send" /\ sample' = sample + 1 /\ try' = 1
    BY <1>6 DEF Proceed
  <2>2. (sample' - 1) * Repeats = m
    <3>1. sample' - 1 = sample
      BY <1>1, <2>1
    <3> QED
      BY <3>1
  <2>3. asked' <= (sample' - 1) * Repeats + try'
    <3>1. sample = 0 => m = 0
      BY <1>3
    <3>2. m \in Nat
      <4>1. sample = 0 => m \in Nat
        BY <1>3
      <4> HIDE DEF m, p, q
      <4> QED
        BY <1>1, <4>1
    <3> HIDE DEF m, p, q
    <3>3. asked <= m + 1
      BY <1>1, <1>2, <1>4, <3>1, <3>2
    <3> QED
      BY <2>1, <2>2, <3>3
  <2>4. sample' > 0 /\ sample' \in 0 .. Samples
    BY <1>1, <1>6, <2>1
  <2> QED
    BY <1>1, <2>1, <2>3, <2>4 DEF Progress
<1> QED
  BY <1>5, <1>6

\* So does a try that failed.
LEMMA AgainCounts ==
  ASSUME USTypeOK, Progress, pc = "read", Again, UNCHANGED asked
  PROVE  /\ Progress' /\ sample' \in 0 .. Samples /\ try' \in 1 .. Repeats
         /\ pc' \in {"send", "done", "failed"} /\ allOk' \in BOOLEAN
<1>1. /\ sample \in Nat /\ sample <= Samples /\ try \in Nat /\ try >= 1 /\ try <= Repeats
      /\ asked \in Nat /\ Repeats \in Nat /\ (sample - 1) * Repeats \in Int /\ allOk \in BOOLEAN
  BY NumbersAre DEF USTypeOK
<1>2. CASE sample = 0
  <2>1. pc' = "failed" /\ UNCHANGED <<sample, try, allOk>>
    BY <1>2 DEF Again
  <2> QED
    BY <1>1, <1>2, <2>1 DEF Progress, USTypeOK
<1>3. CASE sample > 0 /\ try < Repeats
  <2>1. pc' = "send" /\ try' = try + 1 /\ UNCHANGED <<sample, allOk>>
    BY <1>1, <1>3 DEF Again
  <2>2. asked' <= (sample' - 1) * Repeats + try'
    <3>1. asked <= 1 + ((sample - 1) * Repeats + try)
      BY <1>3 DEF Progress
    <3>2. \A x, y, z \in Int : x <= 1 + (y + z) => x <= y + (z + 1)
      OBVIOUS
    <3>3. asked <= (sample - 1) * Repeats + (try + 1)
      BY <1>1, <3>1, <3>2
    <3> QED
      BY <2>1, <3>3
  <2> QED
    BY <1>1, <1>3, <2>1, <2>2 DEF Progress, USTypeOK
<1>4. CASE sample > 0 /\ ~(try < Repeats)
  <2>1. Proceed /\ allOk' = FALSE
    BY <1>1, <1>4 DEF Again
  <2> QED
    BY <2>1, ProceedCounts
<1> QED
  BY <1>1, <1>2, <1>3, <1>4

-----------------------------------------------------------------------------
(* The inductive invariant.                                                *)

\* What the frame is whose three bytes were received.
LEMMA Read ==
  ASSUME USTypeOK, Known, Whole
  PROVE  LET f == got[1].of IN
         /\ f \in Frames /\ got = Bytes(f) /\ f.id \in 1 .. asked
         /\ f.id \in Sums(got) /\ f.id \in Ids(got)
         /\ got[2].of = f
<1> DEFINE f == got[1].of
<1>1. Len(got) = 3 /\ got = Bytes(f) /\ got \in Seq(ByteSet)
  BY DEF Whole, Length, USTypeOK
<1>2. DOMAIN got = 1 .. 3
  BY <1>1, LenProperties
<1>3. 1 \in DOMAIN got /\ 3 \in DOMAIN got
  BY <1>2
<1>4. got[1] \in ByteSet
  BY <1>1, <1>3, ElementOfSeq
<1>5. f \in Frames
  BY <1>4 DEF ByteSet
<1>6. got[1].field = "distance" /\ got[3].field = "checksum" /\ got[3].of = f /\ got[2].of = f
  <2> HIDE DEF f
  <2> QED
    BY <1>1, <1>5, BytesOf
<1>7. f.id \in Ids(got)
  BY <1>3 DEF Ids
<1>8. f.id \in Sums(got)
  BY <1>3, <1>6 DEF Sums, Own
<1>9. f.id \in 1 .. asked
  <2>1. f.id > 0 /\ f.id \in 0 .. asked
    BY <1>3, <1>6, <1>7 DEF Known, Named
  <2> QED
    BY <2>1
<1> QED
  BY <1>1, <1>5, <1>6, <1>7, <1>8, <1>9

\* A difference of two registers in sixteen bits.
LEMMA Wrapped ==
  ASSUME NEW a \in Nat, NEW b \in Nat, a <= 65535, b <= 65535
  PROVE  (a - b) % 65536 = IF a - b >= 0 THEN a - b ELSE a - b + 65536
OBVIOUS

\* The sensor's range is less than half of what sixteen bits hold.
LEMMA HalfWord == MaxDistance \in Nat /\ MaxDistance <= 30000 /\ MaxDistance = 30000 /\ Word = 65536
BY DEF MaxDistance, Word

\* Modulo 2^16 the differences up to 30000 stay what they are; another one becomes such a
\* difference only below -35535.
LEMMA Levels ==
  ASSUME NEW a \in Nat, NEW b \in Nat, NEW w \in Nat, NEW m \in Nat,
         m <= 30000, w = 65536, a < w, b < w,
         NEW mm, mm = IF a - b >= 0 THEN a - b ELSE a - b + w
  PROVE  /\ mm \in Nat
         /\ mm > 0 /\ mm <= m =>
              mm \in 1 .. m /\ (mm = a - b \/ (mm = a - b + w /\ b >= 35536))
         /\ a - b \in 1 .. m => mm > 0 /\ mm <= m
<1>1. mm \in Nat
  OBVIOUS
<1>2. mm > 0 /\ mm <= m => mm \in 1 .. m
  BY <1>1
<1>3. mm > 0 /\ mm <= m => mm = a - b \/ (mm = a - b + w /\ b >= 35536)
  OBVIOUS
<1>4. a - b \in 1 .. m => mm > 0 /\ mm <= m
  OBVIOUS
<1> QED
  BY <1>1, <1>2, <1>3, <1>4

\* uint16_t arithmetic keeps the levels that can be; what it makes of another difference is
\* refused, unless the distance is far beyond the sensor's range.
LEMMA LevelIs ==
  ASSUME NEW f \in Frames, got[1].of = f, got[2].of = f
  PROVE  /\ Level \in Nat
         /\ IsValidDistance(Level) => Gives(f, Level)
         /\ f.range - f.distance \in 1 .. MaxDistance => IsValidDistance(Level)
<1>1. f.range \in 0 .. Word - 1 /\ f.distance \in 0 .. Word - 1
  BY DEF Frames
<1>2. Word \in Nat /\ Word = 65536 /\ MaxDistance \in Nat /\ MaxDistance <= 30000
  BY HalfWord
<1>3. \A x \in 0 .. Word - 1 : x \in Nat /\ x < Word
  BY <1>2
<1>4. PICK a \in Nat : a = f.range /\ a < Word
  BY <1>1, <1>3
<1>5. PICK b \in Nat : b = f.distance /\ b < Word
  BY <1>1, <1>3
<1>6. Level = IF a - b >= 0 THEN a - b ELSE a - b + Word
  <2>1. Level = (a - b) % 65536
    BY <1>2, <1>4, <1>5 DEF Level
  <2>2. a <= 65535 /\ b <= 65535
    BY <1>2, <1>4, <1>5
  <2>3. (a - b) % 65536 = IF a - b >= 0 THEN a - b ELSE a - b + 65536
    BY <2>2, Wrapped
  <2> QED
    BY <1>2, <2>1, <2>3
<1>7. /\ Level \in Nat
      /\ Level > 0 /\ Level <= MaxDistance =>
           /\ Level \in 1 .. MaxDistance
           /\ Level = a - b \/ (Level = a - b + Word /\ b >= 35536)
      /\ a - b \in 1 .. MaxDistance => Level > 0 /\ Level <= MaxDistance
  BY <1>2, <1>4, <1>5, <1>6, Levels
<1>8. IsValidDistance(Level) <=> Level > 0 /\ Level <= MaxDistance
  BY DEF IsValidDistance
<1>9. Gives(f, Level) <=>
        /\ Level \in 1 .. MaxDistance
        /\ Level = a - b \/ (Level = a - b + Word /\ b >= 35536)
  BY <1>4, <1>5 DEF Gives
<1> QED
  BY <1>4, <1>5, <1>7, <1>8, <1>9

LEMMA TypeStep == ASSUME USTypeOK, Known, Progress, [USNext]_usVars PROVE USTypeOK'
<1>0. /\ wire \in Seq(ByteSet) /\ rx \in Seq(ByteSet) /\ got \in Seq(ByteSet) /\ Len(got) <= Length
      /\ <<>> \in Seq(ByteSet) /\ Len(<<>>) <= Length /\ faults \in Nat /\ MaxFaults \in Nat
  BY Nothing, UltrasonicAssumption DEF USTypeOK, Length
<1>1. CASE Arrives
  <2>1. wire' \in Seq(ByteSet) /\ rx' \in Seq(ByteSet)
    BY <1>0, <1>1, Leaving, Joining DEF Arrives
  <2> QED
    BY <1>1, <2>1 DEF Arrives, USTypeOK
<1>2. CASE Disturbed
  <2>1. wire' \in Seq(ByteSet) /\ rx' \in Seq(ByteSet)
    <3>1. Tail(wire) \in Seq(ByteSet) /\ Append(rx, Spoilt) \in Seq(ByteSet)
      BY <1>0, <1>2, Leaving, Joining, FramesAre DEF Disturbed
    <3> QED
      BY <1>0, <1>2, <3>1 DEF Disturbed
  <2>2. faults' \in 0 .. MaxFaults
    BY <1>0, <1>2 DEF Disturbed
  <2> QED
    BY <1>2, <2>1, <2>2 DEF Disturbed, USTypeOK
<1>3. CASE WarmUp
  BY <1>3 DEF WarmUp, USTypeOK
<1>4. CASE NoUart
  <2>1. faults' \in 0 .. MaxFaults
    BY <1>0, <1>4 DEF NoUart
  <2> QED
    BY <1>4, <2>1 DEF NoUart, USTypeOK
<1>5. CASE Send \/ SendUnheard
  <2>1. /\ pc = "send" /\ pc' = "read" /\ asked' = asked + 1 /\ quiet' = (wire = <<>>)
        /\ got' = <<>> /\ rx' = <<>>
        /\ UNCHANGED <<sample, try, out, allOk, frames>>
    BY <1>5 DEF Send, SendUnheard
  <2>2. asked' \in 0 .. 1 + Samples * Repeats
    BY <2>1, SendCounts
  <2>3. faults' \in 0 .. MaxFaults
    BY <1>0, <1>5 DEF Send, SendUnheard, USTypeOK
  <2>4. wire' \in Seq(ByteSet) /\ odd' \in BOOLEAN
    <3>1. asked + 1 \in Nat
      BY NumbersAre
    <3>2. CASE Send
      <4>1. PICK d \in Registers, r \in Registers :
              /\ wire' = wire \o Bytes([id |-> asked + 1, distance |-> d, range |-> r])
              /\ odd' = (odd \/ r - d \notin 1 .. MaxDistance)
        BY <3>2 DEF Send
      <4>2. [id |-> asked + 1, distance |-> d, range |-> r] \in Frames
        BY <3>1, FramesAre
      <4>3. wire' \in Seq(ByteSet)
        BY <1>0, <4>1, <4>2, Answered
      <4> QED
        BY <4>1, <4>3
    <3>3. CASE SendUnheard
      BY <1>0, <3>3 DEF SendUnheard, USTypeOK
    <3> QED
      BY <1>5, <3>2, <3>3
  <2>5. quiet' \in BOOLEAN
    BY <2>1
  <2> QED
    BY <1>0, <2>1, <2>2, <2>3, <2>4, <2>5 DEF USTypeOK
<1>6. CASE Receive
  <2>1. rx' \in Seq(ByteSet) /\ got' \in Seq(ByteSet) /\ Len(got') <= Length
    BY <1>0, <1>6, Leaving, Joining, LenProperties DEF Receive, Length
  <2> QED
    BY <1>6, <2>1 DEF Receive, USTypeOK
<1>7. CASE WarmedUp
  BY <1>7, ProceedCounts DEF WarmedUp, USTypeOK
<1>8. CASE Take
  <2>1. /\ pc = "read" /\ Proceed /\ UNCHANGED <<asked, wire, rx, got, allOk, quiet, odd, faults>>
        /\ out' = [out EXCEPT ![sample] = Level] /\ frames' = [frames EXCEPT ![sample] = got[1].of]
        /\ Whole /\ IsValidDistance(Level)
    BY <1>8 DEF Take
  <2>2. Level \in 0 .. MaxDistance /\ got[1].of \in Frames
    <3>1. got[1].of \in Frames /\ got[2].of = got[1].of
      BY <2>1, Read
    <3>2. Level \in Nat
      BY <3>1, LevelIs
    <3>3. Level <= MaxDistance /\ MaxDistance \in Nat
      BY <2>1, HalfWord DEF IsValidDistance
    <3> QED
      BY <3>1, <3>2, <3>3
  <2>3. out' \in [1 .. Samples -> 0 .. MaxDistance] /\ frames' \in [1 .. Samples -> Frames]
    BY <2>1, <2>2 DEF USTypeOK
  <2> QED
    BY <2>1, <2>3, ProceedCounts DEF USTypeOK
<1>9. CASE Refuse \/ TimeOut
  <2>1. /\ pc = "read" /\ Again /\ UNCHANGED <<asked, wire, rx, got, out, frames, quiet, odd>>
        /\ faults' \in 0 .. MaxFaults
    BY <1>0, <1>9 DEF Refuse, TimeOut, USTypeOK
  <2> QED
    BY <2>1, AgainCounts DEF USTypeOK
<1>10. CASE Restart
  <2>1. /\ 0 \in 0 .. Samples /\ 1 \in 1 .. Repeats /\ 0 \in 0 .. 1 + Samples * Repeats
        /\ 0 \in 0 .. MaxFaults
    BY <1>0, NumbersAre
  <2>2. /\ [i \in 1 .. Samples |-> 0] \in [1 .. Samples -> 0 .. MaxDistance]
        /\ [i \in 1 .. Samples |-> NoFrame] \in [1 .. Samples -> Frames]
    BY FramesAre DEF MaxDistance
  <2> QED
    BY <1>0, <1>10, <2>1, <2>2 DEF Restart, USTypeOK
<1>11. CASE UNCHANGED usVars
  BY <1>11 DEF usVars, USTypeOK
<1> QED
  BY <1>1, <1>2, <1>3, <1>4, <1>5, <1>6, <1>7, <1>8, <1>9, <1>10, <1>11 DEF USNext

-----------------------------------------------------------------------------
(* Readings and what is on the line.                                       *)

\* Less on the line, and the measurement where it was.
LEMMA LineKeeps ==
  ASSUME Taken, AllTaken, Fresh, OwnAnswer,
         UNCHANGED <<pc, sample, try, asked, out, allOk, frames, quiet>>,
         Pending' \subseteq Pending,
         Ids(got') \cup Ids(rx') \cup Ids(wire') \subseteq {0} \cup Ids(got) \cup Ids(rx) \cup Ids(wire)
  PROVE  Taken' /\ AllTaken' /\ Fresh' /\ OwnAnswer'
<1>1. Taken'
  BY DEF Taken, Past
<1>2. AllTaken'
  BY DEF AllTaken, Past
<1>3. Fresh'
  BY DEF Fresh
<1>4. OwnAnswer'
  BY DEF OwnAnswer
<1> QED
  BY <1>1, <1>2, <1>3, <1>4

\* A byte that arrives, is received or is lost is on the line no more than once.
LEMMA LineMoves ==
  ASSUME LineInv, Arrives \/ Disturbed \/ Receive
  PROVE  Known' /\ Once' /\ Taken' /\ AllTaken' /\ Fresh' /\ OwnAnswer'
<1>0. /\ wire \in Seq(ByteSet) /\ rx \in Seq(ByteSet) /\ got \in Seq(ByteSet) /\ asked \in Nat
      /\ Known /\ Once /\ Taken /\ AllTaken /\ Fresh /\ OwnAnswer
      /\ UNCHANGED <<pc, sample, try, asked, out, allOk, frames, quiet>>
  BY NumbersAre DEF LineInv, USTypeOK, Arrives, Disturbed, Receive
<1>1. CASE Arrives
  <2> DEFINE h == Head(wire)
  <2>1. wire # <<>> /\ rx' = Append(rx, h) /\ wire' = Tail(wire) /\ got' = got /\ h \in ByteSet
    BY <1>0, <1>1, Leaving DEF Arrives
  <2> HIDE DEF h
  <2>2. /\ Sums(wire) = Own(h) \cup Sums(wire') /\ Single(wire') /\ Own(h) \cap Sums(wire') = {}
        /\ Ids(wire) = {h.of.id} \cup Ids(wire') /\ Named(wire', asked) /\ (h.field = "spoilt" \/ h.of.id > 0)
    BY <1>0, <2>1, OwnLeaving DEF Known, Once, h
  <2>3. /\ Sums(rx') = Sums(rx) \cup Own(h) /\ Ids(rx') = Ids(rx) \cup {h.of.id}
        /\ Single(rx')
    BY <1>0, <2>1, <2>2, OwnJoining DEF Once
  <2>4. Named(rx', asked)
    <3>1. h.of.id \in 0 .. asked
      BY <1>0, <2>2 DEF Known, Named
    <3> QED
      BY <1>0, <2>1, <2>2, <3>1, OwnJoining DEF Known
  <2>5. Known' /\ Once'
    BY <1>0, <2>1, <2>2, <2>3, <2>4 DEF Known, Once
  <2>6. Pending' \subseteq Pending
    BY <1>0, <2>1, <2>2, <2>3 DEF Pending
  <2> QED
    BY <1>0, <2>1, <2>2, <2>3, <2>5, <2>6, LineKeeps
<1>2. CASE Disturbed
  <2> DEFINE h == Head(wire)
  <2>1. wire # <<>> /\ rx' \in {rx, Append(rx, Spoilt)} /\ wire' = Tail(wire) /\ got' = got
    BY <1>2 DEF Disturbed
  <2> HIDE DEF h
  <2>2. /\ Sums(wire) = Own(h) \cup Sums(wire') /\ Single(wire')
        /\ Ids(wire) = {h.of.id} \cup Ids(wire') /\ Named(wire', asked)
    BY <1>0, <2>1, OwnLeaving DEF Known, Once, h
  <2>3. Sums(rx') = Sums(rx) /\ Ids(rx') \subseteq Ids(rx) \cup {0} /\ Single(rx') /\ Named(rx', asked)
    <3>1. Spoilt \in ByteSet /\ Spoilt.of.id = 0 /\ Spoilt.field = "spoilt" /\ Own(Spoilt) = {}
      BY FramesAre DEF Own
    <3>2. 0 \in 0 .. asked
      BY <1>0
    <3>3. CASE rx' = Append(rx, Spoilt)
      <4>1. /\ Sums(Append(rx, Spoilt)) = Sums(rx) \cup Own(Spoilt)
            /\ Single(rx) /\ Own(Spoilt) \cap Sums(rx) = {} => Single(Append(rx, Spoilt))
            /\ Ids(Append(rx, Spoilt)) = Ids(rx) \cup {Spoilt.of.id}
            /\ Named(rx, asked) /\ Spoilt.of.id \in 0 .. asked /\ (Spoilt.field = "spoilt" \/ Spoilt.of.id > 0)
                  => Named(Append(rx, Spoilt), asked)
        BY <1>0, <3>1, OwnJoining
      <4>2. Named(rx, asked) /\ Single(rx)
        BY <1>0 DEF Known, Once
      <4> QED
        BY <3>1, <3>2, <3>3, <4>1, <4>2
    <3>4. CASE rx' = rx
      BY <1>0, <3>4 DEF Known, Once
    <3> QED
      BY <2>1, <3>3, <3>4
  <2>4. Known' /\ Once'
    BY <1>0, <2>1, <2>2, <2>3 DEF Known, Once
  <2>5. Pending' \subseteq Pending
    BY <1>0, <2>1, <2>2, <2>3 DEF Pending
  <2> QED
    BY <1>0, <2>1, <2>2, <2>3, <2>4, <2>5, LineKeeps
<1>3. CASE Receive
  <2> DEFINE h == Head(rx)
  <2>1. rx # <<>> /\ got' = Append(got, h) /\ rx' = Tail(rx) /\ wire' = wire /\ h \in ByteSet /\ pc = "read"
    BY <1>0, <1>3, Leaving DEF Receive
  <2> HIDE DEF h
  <2>2. /\ Sums(rx) = Own(h) \cup Sums(rx') /\ Single(rx') /\ Own(h) \cap Sums(rx') = {}
        /\ Ids(rx) = {h.of.id} \cup Ids(rx') /\ Named(rx', asked) /\ (h.field = "spoilt" \/ h.of.id > 0)
    BY <1>0, <2>1, OwnLeaving DEF Known, Once, h
  <2>3. Sums(got') = Sums(got) \cup Own(h) /\ Ids(got') = Ids(got) \cup {h.of.id}
    BY <1>0, <2>1, <2>2, OwnJoining DEF Once
  <2>4. Named(got', asked)
    <3>1. h.of.id \in 0 .. asked
      BY <1>0, <2>2 DEF Known, Named
    <3> QED
      BY <1>0, <2>1, <2>2, <3>1, OwnJoining DEF Known
  <2>5. Known' /\ Once'
    BY <1>0, <2>1, <2>2, <2>3, <2>4 DEF Known, Once
  <2>6. Pending' \subseteq Pending
    BY <1>0, <2>1, <2>2, <2>3 DEF Pending
  <2> QED
    BY <1>0, <2>1, <2>2, <2>3, <2>5, <2>6, LineKeeps
<1> QED
  BY <1>1, <1>2, <1>3

\* What came before a request is dropped, and its answer is a new one.
LEMMA LineSends ==
  ASSUME LineInv, Send \/ SendUnheard
  PROVE  Known' /\ Once' /\ Taken' /\ AllTaken' /\ Fresh' /\ OwnAnswer'
<1>0. /\ wire \in Seq(ByteSet) /\ asked \in Nat
      /\ Known /\ Once /\ Taken /\ AllTaken
      /\ pc = "send" /\ pc' = "read" /\ got' = <<>> /\ rx' = <<>>
      /\ asked' = asked + 1 /\ quiet' = (wire = <<>>)
      /\ UNCHANGED <<sample, try, out, allOk, frames>>
  BY NumbersAre DEF LineInv, USTypeOK, Send, SendUnheard
<1>1. Named(wire, asked') /\ Sums(wire) \subseteq 0 .. asked /\ asked' \notin Sums(wire)
  <2>1. Sums(wire) \subseteq Ids(wire)
    BY DEF Sums, Ids, Own
  <2>2. 0 .. asked \subseteq 0 .. asked' /\ asked' \notin 0 .. asked
    BY <1>0
  <2> QED
    BY <1>0, <2>1, <2>2 DEF Known, Named
<1>2. /\ Single(wire') /\ Named(wire', asked') /\ Sums(wire') \subseteq Sums(wire) \cup {asked'}
      /\ Ids(wire') \subseteq Ids(wire) \cup {asked'}
  <2>1. CASE Send
    <3>1. PICK d \in Registers, r \in Registers : wire' = wire \o Bytes([id |-> asked + 1, distance |-> d, range |-> r])
      BY <2>1 DEF Send
    <3> DEFINE f == [id |-> asked + 1, distance |-> d, range |-> r]
    <3>2. f \in Frames /\ f.id = asked'
      <4>1. asked + 1 \in Nat
        BY <1>0
      <4>2. f \in Frames
        BY <4>1, FramesAre
      <4> QED
        BY <1>0, <4>2
    <3> HIDE DEF f
    <3>3. wire' = wire \o Bytes(f)
      BY <3>1 DEF f
    <3>4. asked' \in 1 .. asked' /\ asked' \in Nat
      BY <1>0
    <3> QED
      BY <1>0, <1>1, <3>2, <3>3, <3>4, Answered DEF Once
  <2>2. CASE SendUnheard
    BY <1>0, <1>1, <2>2 DEF SendUnheard, Once
  <2> QED
    BY <2>1, <2>2
<1>3. Known' /\ Once'
  BY <1>0, <1>2, Nothing DEF Known, Once
<1>4. Pending' \subseteq Sums(wire) \cup {asked'}
  BY <1>0, <1>2, Nothing DEF Pending
<1>5. Taken'
  <2> SUFFICES ASSUME NEW i \in 1 .. Samples, frames'[i].id > 0
               PROVE  /\ Past(i)'
                      /\ Gives(frames'[i], out'[i])
                      /\ frames'[i].id <= asked' /\ frames'[i].id \notin Pending'
                      /\ \A j \in 1 .. Samples \ {i} : frames'[j].id # frames'[i].id
    BY DEF Taken
  <2>1. /\ Past(i)
        /\ Gives(frames[i], out[i])
        /\ frames[i].id <= asked /\ frames[i].id \notin Pending
        /\ \A j \in 1 .. Samples \ {i} : frames[j].id # frames[i].id
    BY <1>0 DEF Taken
  <2>2. frames[i] \in Frames
    BY DEF LineInv, USTypeOK
  <2>3. frames[i].id <= asked' /\ frames[i].id # asked'
    BY <1>0, <2>1, <2>2 DEF Frames
  <2>4. frames[i].id \notin Pending'
    BY <1>4, <2>1, <2>3 DEF Pending
  <2> QED
    BY <1>0, <2>1, <2>3, <2>4 DEF Past
<1>6. AllTaken'
  BY <1>0 DEF AllTaken, Past
<1>7. Fresh'
  BY <1>0, <1>2, Nothing DEF Fresh
<1>8. OwnAnswer'
  BY <1>0 DEF OwnAnswer
<1> QED
  BY <1>3, <1>5, <1>6, <1>7, <1>8

\* Where a reading that ends leaves the measurement.
LEMMA Proceeds ==
  ASSUME USTypeOK, pc = "read", Proceed
  PROVE  /\ try' = 1 /\ pc' \in {"send", "done"}
         /\ \A i \in 1 .. Samples : Past(i)' <=> i <= sample
         /\ sample = 0 => pc' = "send" /\ sample' = 1
         /\ (IF pc' = "done" THEN sample' ELSE sample' - 1) = sample
<1>0. sample \in Nat /\ sample <= Samples /\ Samples \in Nat /\ Samples >= 1
  BY NumbersAre
<1>1. CASE sample = Samples
  <2>1. pc' = "done" /\ sample' = sample /\ try' = 1
    BY <1>1 DEF Proceed
  <2> QED
    BY <1>0, <1>1, <2>1 DEF Past
<1>2. CASE sample # Samples
  <2>1. pc' = "send" /\ sample' = sample + 1 /\ try' = 1
    BY <1>2 DEF Proceed
  <2> QED
    BY <1>0, <1>2, <2>1 DEF Past
<1> QED
  BY <1>1, <1>2

\* A frame that is taken has not been taken before.
LEMMA LineTakes ==
  ASSUME LineInv, Take
  PROVE  Known' /\ Once' /\ Taken' /\ AllTaken' /\ Fresh' /\ OwnAnswer'
<1> DEFINE f == got[1].of
<1>0. /\ USTypeOK /\ Known /\ Once /\ Taken /\ AllTaken /\ Fresh
      /\ pc = "read" /\ sample > 0 /\ Whole /\ IsValidDistance(Level) /\ Proceed
      /\ out' = [out EXCEPT ![sample] = Level] /\ frames' = [frames EXCEPT ![sample] = f]
      /\ UNCHANGED <<asked, wire, rx, got, allOk, quiet>>
  BY DEF LineInv, Take
<1>1. sample \in 1 .. Samples /\ asked \in Nat
  BY <1>0, NumbersAre
<1>2. /\ f \in Frames /\ f.id \in 1 .. asked /\ f.id \in Sums(got) /\ f.id \in Ids(got)
      /\ Gives(f, Level)
  BY <1>0, Read, LevelIs
<1> HIDE DEF f
<1>3. Known' /\ Once'
  BY <1>0 DEF Known, Once
<1>4. /\ out' \in [1 .. Samples -> 0 .. MaxDistance] /\ frames' \in [1 .. Samples -> Frames]
      /\ Gives(f, out'[sample]) /\ frames'[sample] = f
      /\ \A i \in 1 .. Samples \ {sample} : out'[i] = out[i] /\ frames'[i] = frames[i]
  <2>1. Level \in 0 .. MaxDistance
    <3>1. Level \in Nat
      BY <1>0, Read, LevelIs
    <3>2. Level <= MaxDistance
      BY <1>0 DEF IsValidDistance
    <3>3. MaxDistance \in Nat
      BY HalfWord
    <3> QED
      BY <3>1, <3>2, <3>3
  <2> QED
    BY <1>0, <1>1, <1>2, <2>1 DEF USTypeOK
<1>5. /\ pc' \in {"send", "done"} /\ (\A i \in 1 .. Samples : Past(i)' <=> i <= sample)
      /\ (IF pc' = "done" THEN sample' ELSE sample' - 1) = sample
  BY <1>0, Proceeds
<1>6. Pending' = Sums(rx) \cup Sums(wire) /\ Pending = Sums(rx) \cup Sums(wire) \cup Sums(got)
  BY <1>0, <1>5 DEF Pending
<1>7. Taken'
  <2> SUFFICES ASSUME NEW i \in 1 .. Samples, frames'[i].id > 0
               PROVE  /\ Past(i)'
                      /\ Gives(frames'[i], out'[i])
                      /\ frames'[i].id <= asked' /\ frames'[i].id \notin Pending'
                      /\ \A j \in 1 .. Samples \ {i} : frames'[j].id # frames'[i].id
    BY DEF Taken
  <2>0. \A k \in 1 .. Samples : frames[k].id = f.id => ~(frames[k].id > 0)
    BY <1>0, <1>2, <1>6 DEF Taken
  <2>1. CASE i = sample
    <3>1. f.id \notin Pending' /\ f.id <= asked /\ f.id > 0
      BY <1>0, <1>1, <1>2, <1>6 DEF Once
    <3>2. \A j \in 1 .. Samples \ {i} : frames'[j].id # f.id
      BY <1>4, <2>0, <2>1, <3>1
    <3>3. Past(i)'
      BY <1>1, <1>5, <2>1
    <3> QED
      BY <1>0, <1>4, <2>1, <3>1, <3>2, <3>3
  <2>2. CASE i # sample
    <3>1. /\ Past(i)
          /\ Gives(frames[i], out[i])
          /\ frames[i].id <= asked /\ frames[i].id \notin Pending
          /\ \A j \in 1 .. Samples \ {i} : frames[j].id # frames[i].id
      BY <1>0, <1>4, <2>2 DEF Taken
    <3>2. i < sample
      BY <1>0, <3>1 DEF Past
    <3>3. Past(i)'
      BY <1>1, <1>5, <3>2
    <3>4. frames'[sample].id # frames[i].id
      BY <1>1, <1>2, <1>4, <2>0, <2>2
    <3>5. \A j \in 1 .. Samples \ {i} : frames'[j].id # frames'[i].id
      BY <1>4, <2>2, <3>1, <3>4
    <3> QED
      BY <1>0, <1>4, <1>6, <2>2, <3>1, <3>3, <3>5
  <2> QED
    BY <2>1, <2>2
<1>8. AllTaken'
  <2> SUFFICES ASSUME allOk, NEW i \in 1 .. Samples, Past(i)' PROVE frames'[i].id > 0
    BY <1>0 DEF AllTaken
  <2>1. i <= sample
    BY <1>5
  <2>2. CASE i = sample
    BY <1>1, <1>2, <1>4, <2>2
  <2>3. CASE i # sample
    <3>1. Past(i)
      BY <1>1, <2>1, <2>3 DEF Past
    <3> QED
      BY <1>0, <1>4, <2>3, <3>1 DEF AllTaken
  <2> QED
    BY <2>2, <2>3
<1>9. Fresh'
  BY <1>5 DEF Fresh
<1>10. OwnAnswer'
  <2>1. quiet => f.id = asked
    <3>1. quiet => f.id \in {0, asked}
      BY <1>0, <1>2 DEF Fresh
    <3>2. f.id # 0
      BY <1>1, <1>2
    <3> QED
      BY <3>1, <3>2
  <2> QED
    BY <1>0, <1>4, <1>5, <2>1 DEF OwnAnswer
<1> QED
  BY <1>3, <1>7, <1>8, <1>9, <1>10

\* The warm-up takes nothing, and a reading that fails is not counted.
LEMMA LineRefuses ==
  ASSUME LineInv, WarmedUp \/ Refuse \/ TimeOut
  PROVE  Known' /\ Once' /\ Taken' /\ AllTaken' /\ Fresh' /\ OwnAnswer'
<1>0. /\ USTypeOK /\ Known /\ Once /\ Taken /\ AllTaken /\ Fresh /\ pc = "read"
      /\ UNCHANGED <<asked, wire, rx, got, out, frames, quiet>>
      /\ sample \in Nat /\ Samples \in Nat /\ try \in Nat /\ try >= 1
  BY NumbersAre DEF LineInv, WarmedUp, Refuse, TimeOut
<1>1. Known' /\ Once'
  BY <1>0 DEF Known, Once
<1>2. pc' # "read"
  BY <1>0 DEF WarmedUp, Refuse, TimeOut, Again, Proceed
<1>3. Fresh' /\ Pending' \subseteq Pending
  BY <1>0, <1>2 DEF Fresh, Pending
<1>4. \A i \in 1 .. Samples : Past(i) <=> i < sample
  BY <1>0 DEF Past
<1>5. ASSUME \A i \in 1 .. Samples : Past(i) => Past(i)'
      PROVE  Taken'
  BY <1>0, <1>3, <1>5 DEF Taken
<1>6. ~(frames[sample].id > 0) \/ sample = 0
  <2>1. sample = 0 \/ sample \in 1 .. Samples
    BY <1>0, NumbersAre
  <2>2. ~(sample < sample)
    BY <1>0
  <2> QED
    BY <1>0, <1>4, <2>1, <2>2 DEF Taken
<1>7. CASE Proceed /\ (sample = 0 \/ allOk' = FALSE) /\ (sample # 0 \/ allOk' = allOk)
  <2>1. /\ \A i \in 1 .. Samples : Past(i)' <=> i <= sample
        /\ (IF pc' = "done" THEN sample' ELSE sample' - 1) = sample
    BY <1>0, <1>7, Proceeds
  <2>2. Taken'
    BY <1>0, <1>4, <1>5, <2>1
  <2>3. AllTaken'
    BY <1>0, <1>7, <2>1 DEF AllTaken
  <2>4. OwnAnswer'
    BY <1>0, <1>6, <2>1 DEF OwnAnswer
  <2> QED
    BY <1>1, <1>3, <2>2, <2>3, <2>4
<1>8. CASE pc' \in {"send", "failed"} /\ UNCHANGED <<sample, allOk>> /\ (pc' = "failed" \/ try' # 1)
  <2>1. \A i \in 1 .. Samples : Past(i)' <=> Past(i)
    BY <1>0, <1>8 DEF Past
  <2>2. Taken'
    BY <1>5, <2>1
  <2>3. AllTaken'
    BY <1>0, <1>8, <2>1 DEF AllTaken
  <2>4. OwnAnswer'
    BY <1>8 DEF OwnAnswer
  <2> QED
    BY <1>1, <1>3, <2>2, <2>3, <2>4
<1>9. CASE WarmedUp
  BY <1>7, <1>9 DEF WarmedUp
<1>10. CASE Refuse \/ TimeOut
  <2>1. Again
    BY <1>10 DEF Refuse, TimeOut
  <2>2. CASE sample = 0
    BY <1>8, <2>1, <2>2 DEF Again
  <2>3. CASE sample # 0 /\ try < Repeats
    BY <1>0, <1>8, <2>1, <2>3 DEF Again
  <2>4. CASE sample # 0 /\ ~(try < Repeats)
    BY <1>7, <2>1, <2>4 DEF Again
  <2> QED
    BY <2>2, <2>3, <2>4
<1> QED
  BY <1>9, <1>10

LEMMA LineInit == USInit => LineInv
<1> SUFFICES ASSUME USInit PROVE LineInv
  OBVIOUS
<1>1. /\ pc = "off" /\ sample = 0 /\ try = 1 /\ asked = 0 /\ wire = <<>> /\ rx = <<>> /\ got = <<>>
      /\ out = [i \in 1 .. Samples |-> 0] /\ frames = [i \in 1 .. Samples |-> NoFrame]
      /\ allOk = TRUE /\ quiet = TRUE /\ odd = FALSE /\ faults = 0
  BY DEF USInit
<1>2. /\ 0 \in 0 .. Samples /\ 1 \in 1 .. Repeats /\ 0 \in 0 .. 1 + Samples * Repeats /\ 0 \in 0 .. MaxFaults
  <2>1. Samples * Repeats \in Nat
    <3>1. \A a, b \in Nat : a * b \in Nat
      OBVIOUS
    <3> QED
      BY <3>1, UltrasonicAssumption
  <2> QED
    BY <2>1, UltrasonicAssumption
<1>3. USTypeOK
  <2>1. /\ [i \in 1 .. Samples |-> 0] \in [1 .. Samples -> 0 .. MaxDistance]
        /\ [i \in 1 .. Samples |-> NoFrame] \in [1 .. Samples -> Frames]
    BY FramesAre, HalfWord
  <2>2. <<>> \in Seq(ByteSet) /\ Len(<<>>) <= Length
    BY Nothing DEF Length
  <2> QED
    BY <1>1, <1>2, <2>1, <2>2 DEF USTypeOK
<1>4. Known /\ Once
  BY <1>1, Nothing DEF Known, Once
<1>5. Progress
  BY <1>1 DEF Progress
<1>6. \A i \in 1 .. Samples : frames[i].id = 0 /\ ~Past(i)
  BY <1>1, FramesAre, UltrasonicAssumption DEF Past
<1>7. Taken /\ AllTaken
  BY <1>6 DEF Taken, AllTaken
<1>8. Fresh /\ OwnAnswer
  BY <1>1 DEF Fresh, OwnAnswer
<1> QED
  BY <1>3, <1>4, <1>5, <1>7, <1>8 DEF LineInv

LEMMA LineStep == LineInv /\ [USNext]_usVars => LineInv'
<1> SUFFICES ASSUME LineInv, [USNext]_usVars PROVE LineInv'
  OBVIOUS
<1>0. USTypeOK /\ Known /\ Once /\ Progress /\ Taken /\ AllTaken /\ Fresh /\ OwnAnswer /\ USTypeOK'
  BY TypeStep DEF LineInv
<1>1. CASE Arrives \/ Disturbed \/ Receive
  <2>1. Progress'
    BY <1>0, <1>1 DEF Progress, Arrives, Disturbed, Receive
  <2> QED
    BY <1>0, <1>1, <2>1, LineMoves DEF LineInv
<1>2. CASE Send \/ SendUnheard
  <2>1. Progress'
    BY <1>0, <1>2, SendCounts DEF Send, SendUnheard
  <2> QED
    BY <1>0, <1>2, <2>1, LineSends DEF LineInv
<1>3. CASE Take
  <2>1. Progress'
    BY <1>0, <1>3, ProceedCounts DEF Take
  <2> QED
    BY <1>0, <1>3, <2>1, LineTakes DEF LineInv
<1>4. CASE WarmedUp \/ Refuse \/ TimeOut
  <2>1. Progress'
    BY <1>0, <1>4, ProceedCounts, AgainCounts DEF WarmedUp, Refuse, TimeOut
  <2> QED
    BY <1>0, <1>4, <2>1, LineRefuses DEF LineInv
<1>5. CASE WarmUp \/ NoUart
  <2>1. /\ pc = "off" /\ pc' \in {"send", "failed"} /\ sample = 0
        /\ UNCHANGED <<sample, try, asked, wire, rx, got, out, allOk, frames, quiet, odd>>
    BY <1>0, <1>5 DEF WarmUp, NoUart, Progress
  <2>2. Known' /\ Once'
    BY <1>0, <2>1 DEF Known, Once
  <2>3. Progress'
    BY <1>0, <2>1, NumbersAre DEF Progress
  <2>4. Pending' = Pending /\ \A i \in 1 .. Samples : Past(i)' <=> Past(i)
    BY <2>1 DEF Pending, Past
  <2>5. Taken' /\ AllTaken'
    BY <1>0, <2>1, <2>4 DEF Taken, AllTaken
  <2>6. Fresh' /\ OwnAnswer'
    BY <2>1 DEF Fresh, OwnAnswer
  <2> QED
    BY <1>0, <2>2, <2>3, <2>5, <2>6 DEF LineInv
<1>6. CASE Restart
  <2>1. USInit'
    BY <1>6 DEF Restart, USInit
  <2> QED
    BY <2>1, LineInit, PTL
<1>7. CASE UNCHANGED usVars
  <2>1. Known' /\ Once' /\ Progress'
    BY <1>0, <1>7 DEF usVars, Known, Once, Progress
  <2>2. Taken' /\ AllTaken' /\ Fresh' /\ OwnAnswer'
    BY <1>0, <1>7 DEF usVars, Taken, AllTaken, Fresh, OwnAnswer, Past, Pending
  <2> QED
    BY <1>0, <2>1, <2>2 DEF LineInv
<1> QED
  BY <1>1, <1>2, <1>3, <1>4, <1>5, <1>6, <1>7 DEF USNext

LEMMA Line == USSpec => []LineInv
BY LineInit, LineStep, PTL DEF USSpec

\* Readings, counters, registers and bytes stay in their ranges.
THEOREM MeasurementTypes == USSpec => []USTypeOK
<1>1. LineInv => USTypeOK
  BY DEF LineInv
<1> QED
  BY <1>1, Line, PTL

\* A measurement that read3 calls good consists of levels that answers of the sensor gave, each of
\* its own, for any number of samples and repeats and whatever is late, lost or spoilt.
THEOREM Measured == USSpec => []LevelsAreMeasured
<1>1. LineInv => LevelsAreMeasured
  <2> SUFFICES ASSUME LineInv, pc = "done", allOk, NEW i \in 1 .. Samples
               PROVE  /\ frames[i].id > 0
                      /\ Gives(frames[i], out[i])
                      /\ \A j \in 1 .. Samples \ {i} : frames[j].id # frames[i].id
    BY DEF LevelsAreMeasured
  <2>1. frames[i].id > 0
    BY DEF LineInv, AllTaken, Past
  <2> QED
    BY <2>1 DEF LineInv, Taken
<1> QED
  BY <1>1, Line, PTL

\* A reading is the answer to its own request, unless an older one was on its way.
THEOREM AnswersAreOwn == USSpec => []OwnAnswer
<1>1. LineInv => OwnAnswer
  BY DEF LineInv
<1> QED
  BY <1>1, Line, PTL

-----------------------------------------------------------------------------
(* A measurement in which nothing goes wrong.                              *)

\* A byte that moves keeps its place in the frame.
LEMMA LinedMoves ==
  ASSUME USTypeOK, NEW f \in Frames, Lined(f), Arrives \/ Receive
  PROVE  Lined(f)'
<1> DEFINE B == Bytes(f)
<1>0. /\ wire \in Seq(ByteSet) /\ rx \in Seq(ByteSet) /\ got \in Seq(ByteSet)
      /\ Len(got) + Len(rx) + Len(wire) = Length
      /\ \A i \in DOMAIN got : got[i] = B[i]
      /\ \A i \in DOMAIN rx : rx[i] = B[Len(got) + i]
      /\ \A i \in DOMAIN wire : wire[i] = B[Len(got) + Len(rx) + i]
  BY DEF USTypeOK, Lined
<1>1. Len(got) \in Nat /\ Len(rx) \in Nat /\ Len(wire) \in Nat
  BY <1>0, LenProperties
<1> HIDE DEF B
<1>2. CASE Arrives
  <2>1. wire # <<>> /\ rx' = Append(rx, Head(wire)) /\ wire' = Tail(wire) /\ got' = got
    BY <1>2 DEF Arrives
  <2>2. /\ Head(wire) \in ByteSet /\ Head(wire) = wire[1] /\ 1 \in DOMAIN wire /\ Len(wire') = Len(wire) - 1
        /\ \A i \in DOMAIN wire' : i \in Nat /\ i >= 1 /\ i + 1 \in DOMAIN wire /\ wire'[i] = wire[i + 1]
    BY <1>0, <2>1, Leaving
  <2>3. /\ DOMAIN rx' = DOMAIN rx \cup {Len(rx) + 1} /\ rx'[Len(rx) + 1] = wire[1]
        /\ \A i \in DOMAIN rx : rx'[i] = rx[i]
        /\ Len(rx') = Len(rx) + 1
    BY <1>0, <2>1, <2>2, Joining
  <2>4. Len(got') + Len(rx') + Len(wire') = Length
    BY <1>0, <1>1, <2>1, <2>2, <2>3 DEF Length
  <2>5. ASSUME NEW i \in DOMAIN rx' PROVE rx'[i] = B[Len(got) + i]
    <3>1. Len(got) + Len(rx) + 1 = Len(got) + (Len(rx) + 1)
      BY <1>1
    <3>2. wire[1] = B[Len(got) + (Len(rx) + 1)]
      BY <1>0, <2>2, <3>1
    <3> QED
      BY <1>0, <2>3, <2>5, <3>2
  <2>6. ASSUME NEW i \in DOMAIN wire' PROVE wire'[i] = B[Len(got) + Len(rx') + i]
    <3>1. wire'[i] = B[Len(got) + Len(rx) + (i + 1)] /\ i \in Nat
      BY <1>0, <2>2, <2>6
    <3>2. Len(got) + Len(rx) + (i + 1) = Len(got) + Len(rx') + i
      BY <1>1, <2>3, <3>1
    <3> QED
      BY <3>1, <3>2
  <2> QED
    BY <1>0, <2>1, <2>4, <2>5, <2>6 DEF Lined, B
<1>3. CASE Receive
  <2>1. rx # <<>> /\ got' = Append(got, Head(rx)) /\ rx' = Tail(rx) /\ wire' = wire
    BY <1>3 DEF Receive
  <2>2. /\ Head(rx) \in ByteSet /\ Head(rx) = rx[1] /\ 1 \in DOMAIN rx /\ Len(rx') = Len(rx) - 1
        /\ \A i \in DOMAIN rx' : i \in Nat /\ i >= 1 /\ i + 1 \in DOMAIN rx /\ rx'[i] = rx[i + 1]
    BY <1>0, <2>1, Leaving
  <2>3. /\ DOMAIN got' = DOMAIN got \cup {Len(got) + 1} /\ got'[Len(got) + 1] = rx[1]
        /\ \A i \in DOMAIN got : got'[i] = got[i]
        /\ Len(got') = Len(got) + 1
    BY <1>0, <2>1, <2>2, Joining
  <2>4. Len(got') + Len(rx') + Len(wire') = Length
    BY <1>0, <1>1, <2>1, <2>2, <2>3 DEF Length
  <2>5. \A i \in DOMAIN got' : got'[i] = B[i]
    BY <1>0, <2>2, <2>3
  <2>6. ASSUME NEW i \in DOMAIN rx' PROVE rx'[i] = B[Len(got') + i]
    <3>1. rx'[i] = B[Len(got) + (i + 1)] /\ i \in Nat
      BY <1>0, <2>2, <2>6
    <3>2. Len(got) + (i + 1) = Len(got') + i
      BY <1>1, <2>3, <3>1
    <3> QED
      BY <3>1, <3>2
  <2>7. \A i \in DOMAIN wire' : wire'[i] = B[Len(got') + Len(rx') + i]
    <3>1. Len(got') + Len(rx') = Len(got) + Len(rx)
      BY <1>1, <2>2, <2>3
    <3> QED
      BY <1>0, <2>1, <3>1
  <2> QED
    BY <2>4, <2>5, <2>6, <2>7 DEF Lined, B
<1> QED
  BY <1>2, <1>3

\* All of a frame, and nothing else.
LEMMA LinedWhole ==
  ASSUME USTypeOK, NEW f \in Frames, Lined(f), Len(got) = Length
  PROVE  /\ Whole /\ got[1].of = f /\ got[2].of = f
         /\ wire = <<>> /\ rx = <<>>
<1>1. /\ wire \in Seq(ByteSet) /\ rx \in Seq(ByteSet) /\ got \in Seq(ByteSet)
      /\ Len(got) = 3 /\ Len(rx) \in Nat /\ Len(wire) \in Nat /\ Len(got) + Len(rx) + Len(wire) = 3
      /\ \A i \in DOMAIN got : got[i] = Bytes(f)[i]
  BY LenProperties DEF USTypeOK, Lined, Length
<1>2. wire = <<>> /\ rx = <<>>
  <2>1. Len(wire) = 0 /\ Len(rx) = 0
    BY <1>1
  <2> QED
    BY <1>1, <2>1, EmptySeq
<1>3. got = Bytes(f)
  <2>1. DOMAIN got = 1 .. 3
    BY <1>1, LenProperties
  <2>2. Bytes(f) \in Seq(ByteSet) /\ Len(Bytes(f)) = 3
    BY BytesOf
  <2>3. \A i \in 1 .. 3 : got[i] = Bytes(f)[i]
    BY <1>1, <2>1
  <2> QED
    BY <1>1, <2>2, <2>3, SeqEqual
<1>4. got[1].of = f /\ got[2].of = f
  BY <1>3, BytesOf
<1> QED
  BY <1>1, <1>2, <1>3, <1>4 DEF Whole

\* An answer to a request, with nothing else on the line.
LEMMA LinedAnswer ==
  ASSUME NEW f \in Frames, got' = <<>>, rx' = <<>>, wire' = <<>> \o Bytes(f)
  PROVE  Lined(f)'
<1>1. Bytes(f) \in Seq(ByteSet) /\ Len(Bytes(f)) = 3
  BY BytesOf
<1>2. wire' = Bytes(f)
  BY <1>1
<1>3. Len(<<>>) = 0 /\ DOMAIN <<>> = {}
  OBVIOUS
<1>4. \A i \in DOMAIN wire' : i \in Nat
  BY <1>1, <1>2, LenProperties
<1>5. \A i \in DOMAIN wire' : wire'[i] = Bytes(f)[Len(got') + Len(rx') + i]
  <2>1. \A i \in Nat : 0 + 0 + i = i
    OBVIOUS
  <2> QED
    BY <1>2, <1>3, <1>4, <2>1
<1> QED
  BY <1>1, <1>2, <1>3, <1>5 DEF Lined, Length

LEMMA HealthyStep ==
  ASSUME USTypeOK, Progress, Healthy, [USNext]_usVars PROVE Healthy'
<1>0. CASE Restart
  BY <1>0 DEF Restart, Healthy
<1> SUFFICES ASSUME ~Restart, faults' = 0, ~odd' PROVE Healthy'
  BY <1>0 DEF Healthy
<1>1. faults = 0 /\ ~odd
  <2>1. faults \in Nat
    BY UltrasonicAssumption DEF USTypeOK
  <2>2. faults' \in {faults, faults + 1}
    BY DEF USNext, usVars, Arrives, Disturbed, WarmUp, NoUart, Send, SendUnheard, Receive,
           WarmedUp, Take, Refuse, TimeOut
  <2>3. odd => odd'
    BY DEF USNext, usVars, Arrives, Disturbed, WarmUp, NoUart, Send, SendUnheard, Receive,
           WarmedUp, Take, Refuse, TimeOut
  <2> QED
    BY <2>1, <2>2, <2>3
<1>2. /\ allOk /\ try = 1 /\ pc # "failed"
      /\ pc # "read" => wire = <<>> /\ rx = <<>>
      /\ pc \in {"off", "send"} => asked = sample
      /\ pc \in {"read", "done"} => asked = 1 + sample
  BY <1>1 DEF Healthy
<1>3. ASSUME pc = "read"
      PROVE  \E f \in Frames : /\ f.id = asked /\ f.range - f.distance \in 1 .. MaxDistance
                               /\ Lined(f)
  BY <1>1, <1>3 DEF Healthy
<1>4. asked \in Nat /\ sample \in Nat
  BY NumbersAre
<1>5. CASE Arrives \/ Receive
  <2>1. pc = "read" /\ UNCHANGED <<pc, sample, try, asked, allOk, faults, odd>>
    BY <1>2, <1>5 DEF Arrives, Receive
  <2>2. PICK f \in Frames : /\ f.id = asked /\ f.range - f.distance \in 1 .. MaxDistance
                            /\ Lined(f)
    BY <1>3, <2>1
  <2>3. Lined(f)'
    BY <1>5, <2>2, LinedMoves
  <2> QED
    BY <1>2, <2>1, <2>2, <2>3 DEF Healthy
<1>6. CASE Disturbed \/ NoUart \/ SendUnheard
  BY <1>1, <1>6 DEF Disturbed, NoUart, SendUnheard
<1>7. CASE WarmUp
  BY <1>2, <1>7 DEF WarmUp, Healthy
<1>8. CASE Send
  <2>1. PICK d \in Registers, r \in Registers :
          /\ wire' = wire \o Bytes([id |-> asked + 1, distance |-> d, range |-> r])
          /\ odd' = (odd \/ r - d \notin 1 .. MaxDistance)
    BY <1>8 DEF Send
  <2>2. /\ pc = "send" /\ pc' = "read" /\ got' = <<>> /\ rx' = <<>> /\ asked' = asked + 1
        /\ UNCHANGED <<sample, try, allOk>>
    BY <1>8 DEF Send
  <2>3. PICK f \in Frames : f = [id |-> asked + 1, distance |-> d, range |-> r]
    <3>1. asked + 1 \in Nat
      BY <1>4
    <3> QED
      BY <3>1, FramesAre
  <2>4. wire' = <<>> \o Bytes(f)
    BY <1>2, <2>1, <2>2, <2>3
  <2>5. Lined(f)'
    BY <2>2, <2>4, LinedAnswer
  <2>6. r - d \in 1 .. MaxDistance
    BY <2>1
  <2>7. f.id = asked' /\ f.range - f.distance \in 1 .. MaxDistance
    BY <2>2, <2>3, <2>6
  <2>8. asked' = 1 + sample'
    BY <1>2, <1>4, <2>2
  <2> QED
    BY <1>2, <2>2, <2>5, <2>7, <2>8 DEF Healthy
<1>9. ASSUME pc = "read", Len(got) = Length
      PROVE  Whole /\ IsValidDistance(Level) /\ wire = <<>> /\ rx = <<>>
  <2>1. PICK f \in Frames : f.range - f.distance \in 1 .. MaxDistance /\ Lined(f)
    BY <1>3, <1>9
  <2>2. Whole /\ got[1].of = f /\ got[2].of = f /\ wire = <<>> /\ rx = <<>>
    BY <1>9, <2>1, LinedWhole
  <2> QED
    BY <2>1, <2>2, LevelIs
<1>10. CASE WarmedUp \/ Take
  <2>1. /\ pc = "read" /\ Proceed /\ wire = <<>> /\ rx = <<>> /\ UNCHANGED <<asked, wire, rx, allOk>>
    BY <1>9, <1>10 DEF WarmedUp, Take, Whole
  <2>2. /\ try' = 1 /\ pc' \in {"send", "done"}
        /\ pc' = "send" => sample' = sample + 1
        /\ pc' = "done" => sample' = sample
    BY <2>1 DEF Proceed
  <2>3. /\ pc' = "send" => asked' = sample'
        /\ pc' = "done" => asked' = 1 + sample'
    BY <1>2, <1>4, <2>1, <2>2
  <2> QED
    BY <1>2, <2>1, <2>2, <2>3 DEF Healthy
<1>11. CASE Refuse
  BY <1>9, <1>11 DEF Refuse
<1>12. CASE TimeOut
  <2>1. pc = "read" /\ Len(got) < Length /\ ~(wire = <<>> /\ rx = <<>>) => faults' = faults + 1
    BY <1>12 DEF TimeOut
  <2>2. wire = <<>> /\ rx = <<>> /\ pc = "read" /\ Len(got) < Length
    BY <1>1, <1>12, <2>1 DEF TimeOut
  <2>3. PICK f \in Frames : Lined(f)
    BY <1>3, <2>2
  <2>4. Len(got) + Len(rx) + Len(wire) = Length
    BY <2>3 DEF Lined
  <2>5. Len(rx) = 0 /\ Len(wire) = 0 /\ Len(got) \in Nat
    BY <2>2, LenProperties DEF USTypeOK
  <2> QED
    BY <2>2, <2>4, <2>5
<1>13. CASE UNCHANGED usVars
  <2>1. \A f : Lined(f)' <=> Lined(f)
    BY <1>13 DEF usVars, Lined
  <2> QED
    BY <1>1, <1>2, <1>3, <1>13, <2>1 DEF usVars, Healthy
<1> QED
  BY <1>5, <1>6, <1>7, <1>8, <1>10, <1>11, <1>12, <1>13 DEF USNext

\* A sensor that answers in time with levels it can see is read at the first try, for any number of
\* samples: the whole range, its ends included, passes the check of the checksum and of the level.
THEOREM FirstTryReads == USSpec => []HealthyReads
<1>1. USInit => Healthy
  BY DEF USInit, Healthy
<1>2. LineInv /\ Healthy /\ [USNext]_usVars => Healthy'
  BY HealthyStep DEF LineInv
<1>3. LineInv /\ Healthy => HealthyReads
  <2> SUFFICES ASSUME LineInv, Healthy, faults = 0, ~odd
               PROVE  /\ pc # "failed"
                      /\ pc = "done" => allOk /\ asked = 1 + Samples
    BY DEF HealthyReads
  <2> QED
    BY DEF LineInv, Healthy, Progress
<1> QED
  BY <1>1, <1>2, <1>3, Line, PTL DEF USSpec

=============================================================================
