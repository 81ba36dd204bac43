------------------------------ MODULE RtcAlarm ------------------------------
(***************************************************************************)
(* How the logger finds its way back from deep sleep.  Nothing but the     *)
(* PCF8563's INT line wakes the chip: at every boot pcf8563_init disarms   *)
(* the alarm, at the end of every cycle scheduler_task reads the time,     *)
(* picks the next scheduled minute and arms it, in three I2C transfers,    *)
(* while the clock runs on.                                                *)
(*                                                                         *)
(* Modelled of the PCF8563: the minute, the minute alarm, the alarm flag   *)
(* AF and its interrupt enable AIE.  AF is set when the clock advances to  *)
(* the alarm minute, and INT is low while AF and AIE are.  The firmware    *)
(* never starts the countdown timer, so TF and TIE stay 0.                 *)
(***************************************************************************)
EXTENDS Naturals

CONSTANTS
  MinutesPerHour,   (* 60; fewer in a run                                  *)
  Schedule,         (* kScheduleMinutes                                    *)
  MayRoll,          (* bound: minutes that may pass in a phase of a cycle  *)
  I2cFaults,        (* may I2C transfers fail?                             *)
  PowerLoss         (* may the chip lose power?  The RTC has a battery.    *)

Minute == 0 .. MinutesPerHour - 1
Phases == {"start", "work", "program"}

ASSUME RtcAlarmAssumption ==
  /\ MinutesPerHour \in Nat \ {0}
  /\ Schedule \subseteq Minute /\ 0 \in Schedule
  /\ MayRoll \in [Phases -> Nat]
  /\ I2cFaults \in BOOLEAN /\ PowerLoss \in BOOLEAN

VARIABLES
  minute, alarm, af, aie,   (* the RTC                                     *)
  cpu,                      (* what the chip is doing                      *)
  cause,                    (* esp_sleep_get_wakeup_cause                  *)
  now,                      (* the scheduler's copy of the minute          *)
  kept,                     (* AIE as clearAlarmFlag read it               *)
  rolled,                   (* minutes passed in this phase                *)
  trouble                   (* history: what went wrong since the alarm    *)
                            (* was last begun: "transfer", "minute"        *)

rtc == <<minute, alarm, af, aie>>
vars == <<minute, alarm, af, aie, cpu, cause, now, kept, rolled, trouble>>

Off == MinutesPerHour       (* an alarm register with its AE bit set       *)

Phase == IF cpu \in {"diagnostic", "work"} THEN "work"
         ELSE IF cpu \in {"again", "setAlarm", "setRead", "setWrite", "sleep"} THEN "program"
         ELSE "start"

IntLow == af /\ aie

Succ(m) == IF m = MinutesPerHour - 1 THEN 0 ELSE m + 1

Init ==
  /\ minute \in Minute /\ alarm = Off /\ af = FALSE /\ aie = FALSE
  /\ cpu = "boot" /\ cause = "cold"
  /\ now = 0 /\ kept = FALSE /\ rolled = 0
  /\ trouble = {}

-----------------------------------------------------------------------------
(* The clock.                                                              *)

\* A chip asleep boots as soon as INT goes low, long before the next minute.
Tick ==
  /\ IF cpu = "asleep" THEN ~IntLow /\ UNCHANGED rolled
     ELSE rolled < MayRoll[Phase] /\ rolled' = rolled + 1
  /\ minute' = Succ(minute)
  /\ af' = (af \/ alarm = Succ(minute))
  /\ trouble' = IF Phase = "program" THEN trouble \cup {"minute"} ELSE trouble
  /\ UNCHANGED <<alarm, aie, cpu, cause, now, kept>>

\* The server's time replaces the RTC's, in the diagnostic or in a cycle with a sync.
TimeSync ==
  /\ cpu = "diagnostic" \/ (cpu = "work" /\ now = 0)
  /\ minute' \in Minute
  /\ UNCHANGED <<alarm, af, aie, cpu, cause, now, kept, rolled, trouble>>

-----------------------------------------------------------------------------
(* Boot.                                                                   *)

Outcome == IF I2cFaults THEN BOOLEAN ELSE {TRUE}

\* A failed transfer may have reached the register all the same.
Write(ok, effect, none) == effect \/ (~ok /\ none)

\* A failed transfer is remembered.
Note(ok) == trouble' = IF ok THEN trouble ELSE trouble \cup {"transfer"}

Booted == IF cause = "alarm" THEN "clearRead" ELSE "diagnostic"

\* Mutated: the alarm registers first, control_status_2 last.
InitCs2_Last ==
  /\ cpu = "boot"
  /\ \E ok \in Outcome :
       /\ Write(ok, alarm' = Off, UNCHANGED alarm)
       /\ cpu' = IF ok THEN "initAlarm" ELSE Booted
  /\ UNCHANGED <<minute, af, aie, cause, now, kept, rolled, trouble>>

\* control_status_2 = 0: no flag, no interrupt.  An error ends pcf8563_init.
InitCs2 ==
  /\ cpu = "boot"
  /\ \E ok \in Outcome :
       /\ Write(ok, af' = FALSE /\ aie' = FALSE, UNCHANGED <<af, aie>>)
       /\ cpu' = IF ok THEN "initAlarm" ELSE Booted
  /\ UNCHANGED <<minute, alarm, cause, now, kept, rolled, trouble>>

InitAlarm ==
  /\ cpu = "initAlarm"
  /\ \E ok \in Outcome : Write(ok, alarm' = Off, UNCHANGED alarm)
  /\ cpu' = Booted
  /\ UNCHANGED <<minute, af, aie, cause, now, kept, rolled, trouble>>

\* clearAlarmFlag after an alarm: AF to 0, AIE as it was.
ClearRead ==
  /\ cpu = "clearRead"
  /\ \E ok \in Outcome : cpu' = IF ok THEN "clearWrite" ELSE "first"
  /\ kept' = aie
  /\ UNCHANGED <<rtc, cause, now, rolled, trouble>>

ClearWrite ==
  /\ cpu = "clearWrite"
  /\ \E ok \in Outcome : Write(ok, af' = FALSE /\ aie' = kept, UNCHANGED <<af, aie>>)
  /\ cpu' = "first"
  /\ UNCHANGED <<minute, alarm, cause, now, kept, rolled, trouble>>

DiagnosticEnds ==
  /\ cpu = "diagnostic"
  /\ cpu' = "first"
  /\ rolled' = 0
  /\ UNCHANGED <<rtc, cause, now, kept, trouble>>

-----------------------------------------------------------------------------
(* scheduler_task.                                                         *)

\* now{} stays 0 when the RTC cannot be read.
FirstRead ==
  /\ cpu = "first"
  /\ \E ok \in Outcome : now' = IF ok THEN minute ELSE 0
  /\ cpu' = "work"
  /\ rolled' = 0
  /\ UNCHANGED <<rtc, cause, kept, trouble>>

WorkEnds ==
  /\ cpu = "work"
  /\ cpu' = "again"
  /\ rolled' = 0 /\ trouble' = {}
  /\ UNCHANGED <<rtc, cause, now, kept>>

\* The time is read again; if that fails now is still the time of the first read.
SecondRead ==
  /\ cpu = "again"
  /\ \E ok \in Outcome : now' = (IF ok THEN minute ELSE now) /\ Note(ok)
  /\ cpu' = "setAlarm"
  /\ UNCHANGED <<rtc, cause, kept, rolled>>

\* The earliest of a set of minutes.
Earliest(S) == CHOOSE s \in S : \A t \in S : s <= t

\* Mutated: the current minute counts as the next one.
NextScheduled_Again(m) ==
  IF \E s \in Schedule : s >= m THEN Earliest({s \in Schedule : s >= m}) ELSE Earliest(Schedule)

\* The first scheduled minute after m, or the first one of the hour.
NextScheduled(m) ==
  IF \E s \in Schedule : s > m THEN Earliest({s \in Schedule : s > m}) ELSE Earliest(Schedule)

\* Mutated: the alarm is set to the coming minute.
SetAlarm_Succ ==
  /\ cpu = "setAlarm"
  /\ \E ok \in Outcome :
       /\ Write(ok, alarm' = Succ(now), UNCHANGED alarm)
       /\ cpu' = IF ok THEN "setRead" ELSE "sleep"
       /\ Note(ok)
  /\ UNCHANGED <<minute, af, aie, cause, now, kept, rolled>>

\* setMinuteAlarm: the alarm registers, then control_status_2, read (for the timer's bits) and
\* written.  An error ends it, and nobody looks at its result.
SetAlarm ==
  /\ cpu = "setAlarm"
  /\ \E ok \in Outcome :
       /\ Write(ok, alarm' = NextScheduled(now), UNCHANGED alarm)
       /\ cpu' = IF ok THEN "setRead" ELSE "sleep"
       /\ Note(ok)
  /\ UNCHANGED <<minute, af, aie, cause, now, kept, rolled>>

SetRead ==
  /\ cpu = "setRead"
  /\ \E ok \in Outcome : cpu' = (IF ok THEN "setWrite" ELSE "sleep") /\ Note(ok)
  /\ UNCHANGED <<rtc, cause, now, kept, rolled>>

\* Mutated: interrupt_enable is left out.
SetWrite_NoInterrupt ==
  /\ cpu = "setWrite"
  /\ \E ok \in Outcome : Write(ok, af' = FALSE /\ aie' = FALSE, UNCHANGED <<af, aie>>) /\ Note(ok)
  /\ cpu' = "sleep"
  /\ UNCHANGED <<minute, alarm, cause, now, kept, rolled>>

SetWrite ==
  /\ cpu = "setWrite"
  /\ \E ok \in Outcome : Write(ok, af' = FALSE /\ aie' = TRUE, UNCHANGED <<af, aie>>) /\ Note(ok)
  /\ cpu' = "sleep"
  /\ UNCHANGED <<minute, alarm, cause, now, kept, rolled>>

\* Power off the peripherals and go to deep sleep: RAM is lost.
Sleep ==
  /\ cpu = "sleep"
  /\ cpu' = "asleep"
  /\ now' = 0 /\ kept' = FALSE /\ rolled' = 0
  /\ UNCHANGED <<rtc, cause, trouble>>

\* EXT0: GPIO33 is low.
Wake ==
  /\ cpu = "asleep"
  /\ IntLow
  /\ cpu' = "boot" /\ cause' = "alarm"
  /\ trouble' = {}
  /\ UNCHANGED <<rtc, now, kept, rolled>>

\* The chip loses power, awake or asleep, and boots when it is back.
ColdReset ==
  /\ PowerLoss
  /\ cpu' = "boot" /\ cause' = "cold"
  /\ now' = 0 /\ kept' = FALSE /\ rolled' = 0 /\ trouble' = {}
  /\ UNCHANGED rtc

-----------------------------------------------------------------------------

Boot == InitCs2 \/ InitAlarm \/ ClearRead \/ ClearWrite \/ DiagnosticEnds
Cycle == FirstRead \/ WorkEnds \/ SecondRead \/ SetAlarm \/ SetRead \/ SetWrite \/ Sleep

Next == Tick \/ TimeSync \/ Boot \/ Cycle \/ Wake \/ ColdReset

Spec == Init /\ [][Next]_vars

\* The clock runs, every transfer ends (I2C times out after 100 ms), a low INT wakes the chip.
FairSpec == Spec /\ WF_vars(Tick) /\ WF_vars(Boot) /\ WF_vars(Cycle) /\ WF_vars(Wake)

-----------------------------------------------------------------------------
(* Properties.                                                             *)

\* Type invariant.
TypeOK ==
  /\ minute \in Minute /\ alarm \in Minute \cup {Off}
  /\ af \in BOOLEAN /\ aie \in BOOLEAN
  /\ cpu \in {"boot", "initAlarm", "clearRead", "clearWrite", "diagnostic", "first", "work",
              "again", "setAlarm", "setRead", "setWrite", "sleep", "asleep"}
  /\ cause \in {"cold", "alarm"}
  /\ now \in Minute /\ kept \in BOOLEAN /\ rolled \in Nat
  /\ trouble \subseteq {"transfer", "minute"}

\* A scheduled minute that comes while the chip sleeps pulls INT low.
Rings == cpu = "asleep" /\ cpu' = "asleep" /\ minute' # minute /\ minute' \in Schedule => IntLow'

\* When no transfer failed and no minute ended while the alarm was set, whatever went wrong
\* before, no scheduled minute is slept through.
SoundAlarmRings == [][trouble = {} => Rings]_vars

\* "each 10-minute boundary triggers MeasureTask" (docs/state_machines.md:17).
BoundaryWakes == [][Rings]_vars

\* Unless a transfer failed, the alarm wakes the chip in a scheduled minute and in no other,
\* though a minute may end while it is set and AF may be left from before.
WakesOnSchedule == [][Wake /\ "transfer" \notin trouble => minute \in Schedule]_vars

\* Whatever transfers fail, an interrupt that is enabled has an alarm to raise it: the order of
\* the writes in pcf8563_init and pcf8563_setAlarm (pcf8563.cpp:227-232, 395-412).
EnabledHasAlarm == aie => alarm # Off

\* Unless a transfer failed, the minute that ends meanwhile costs an hour and no more: the chip
\* wakes again.
WakesAgain == cpu = "asleep" /\ "transfer" \notin trouble ~> cpu # "asleep"

=============================================================================
