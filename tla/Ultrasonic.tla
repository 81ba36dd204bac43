----------------------------- MODULE Ultrasonic -----------------------------
(***************************************************************************)
(* A measurement: UltrasonicSensor over Modbus, and SensorManager's        *)
(* warm-up and three readings with their repeats.  The sensor answers each *)
(* request with a frame, byte by byte, perhaps after the driver gave up:   *)
(* its bytes may then meet the next exchange.                              *)
(*                                                                         *)
(* A frame of the model has a byte with the distance register, one with    *)
(* the range register and one with the checksum, which no other frame has. *)
(***************************************************************************)
EXTENDS Integers, Sequences

CONSTANTS
  Samples,     (* kDistanceSamples                                         *)
  Repeats,     (* kMaxRepeatRead                                           *)
  Registers,   (* values of the distance and range registers, in mm        *)
  MaxFaults    (* bound: requests and bytes lost or spoilt, waits ended    *)

MaxDistance == 30000      (* kMaxDistanceMm *)
Word == 65536

ASSUME UltrasonicAssumption ==
  /\ Samples \in Nat \ {0} /\ Repeats \in Nat \ {0} /\ MaxFaults \in Nat
  /\ Registers \subseteq 0 .. Word - 1

VARIABLES
  pc,        (* "off", "send", "read", "done", "failed"                    *)
  sample,    (* 0 in the warm-up, then the reading's number                *)
  try,       (* number of the try of this reading                          *)
  asked,     (* history: requests sent                                     *)
  wire,      (* bytes the sensor has yet to send                           *)
  rx,        (* the UART's receive buffer                                  *)
  got,       (* bytes received in this exchange                            *)
  out,       (* the readings                                               *)
  allOk,     (* read3's result so far                                      *)
  frames,    (* history: the frame each reading was taken from             *)
  quiet,     (* history: nothing was on its way when the request was sent  *)
  odd,       (* history: the sensor has answered with an impossible level  *)
  faults     (* bound and history: what has gone wrong                     *)

usVars == <<pc, sample, try, asked, wire, rx, got, out, allOk, frames, quiet, odd, faults>>

NoFrame == [id |-> 0, distance |-> 0, range |-> 0]
Bytes(f) == <<[of |-> f, field |-> "distance"], [of |-> f, field |-> "range"],
              [of |-> f, field |-> "checksum"]>>
Length == 3
Spoilt == [of |-> NoFrame, field |-> "spoilt"]

\* A boot: deep sleep has cleared everything.
USInit ==
  /\ pc = "off" /\ sample = 0 /\ try = 1 /\ asked = 0
  /\ wire = <<>> /\ rx = <<>> /\ got = <<>>
  /\ out = [i \in 1 .. Samples |-> 0] /\ frames = [i \in 1 .. Samples |-> NoFrame]
  /\ allOk = TRUE /\ quiet = TRUE /\ odd = FALSE /\ faults = 0

-----------------------------------------------------------------------------
(* The sensor and the line.                                                *)

Arrives ==
  /\ wire # <<>>
  /\ rx' = Append(rx, Head(wire)) /\ wire' = Tail(wire)
  /\ UNCHANGED <<pc, sample, try, asked, got, out, allOk, frames, quiet, odd, faults>>

\* A byte is lost, or comes out as another.
Disturbed ==
  /\ wire # <<>> /\ faults < MaxFaults
  /\ wire' = Tail(wire)
  /\ rx' \in {rx, Append(rx, Spoilt)}
  /\ faults' = faults + 1
  /\ UNCHANGED <<pc, sample, try, asked, got, out, allOk, frames, quiet, odd>>

-----------------------------------------------------------------------------
(* exchangeSensorFrame.                                                    *)

\* warmup: sensor power, UART, ten seconds.
WarmUp ==
  /\ pc = "off"
  /\ pc' = "send"
  /\ UNCHANGED <<sample, try, asked, wire, rx, got, out, allOk, frames, quiet, odd, faults>>

NoUart ==
  /\ pc = "off" /\ faults < MaxFaults
  /\ pc' = "failed" /\ faults' = faults + 1
  /\ UNCHANGED <<sample, try, asked, wire, rx, got, out, allOk, frames, quiet, odd>>

\* Mutated: the receive buffer is not emptied first.
Send_NoFlush ==
  /\ pc = "send"
  /\ pc' = "read" /\ got' = <<>>
  /\ asked' = asked + 1 /\ quiet' = (wire = <<>>)
  /\ \E d, r \in Registers :
       /\ wire' = wire \o Bytes([id |-> asked + 1, distance |-> d, range |-> r])
       /\ odd' = (odd \/ r - d \notin 1 .. MaxDistance)
  /\ UNCHANGED <<sample, try, rx, out, allOk, frames, faults>>

\* The request goes out, and the sensor measures.
Send ==
  /\ pc = "send"
  /\ pc' = "read" /\ got' = <<>> /\ rx' = <<>>
  /\ asked' = asked + 1 /\ quiet' = (wire = <<>>)
  /\ \E d, r \in Registers :
       /\ wire' = wire \o Bytes([id |-> asked + 1, distance |-> d, range |-> r])
       /\ odd' = (odd \/ r - d \notin 1 .. MaxDistance)
  /\ UNCHANGED <<sample, try, out, allOk, frames, faults>>

\* The sensor does not get it, or answers with an exception frame: too short to be read.
SendUnheard ==
  /\ pc = "send" /\ faults < MaxFaults
  /\ pc' = "read" /\ got' = <<>> /\ rx' = <<>>
  /\ asked' = asked + 1 /\ quiet' = (wire = <<>>)
  /\ faults' = faults + 1
  /\ UNCHANGED <<sample, try, wire, out, allOk, frames, odd>>

Receive ==
  /\ pc = "read" /\ Len(got) < Length /\ rx # <<>>
  /\ got' = Append(got, Head(rx)) /\ rx' = Tail(rx)
  /\ UNCHANGED <<pc, sample, try, asked, wire, out, allOk, frames, quiet, odd, faults>>

-----------------------------------------------------------------------------
(* parseReadResponse, and what read3 makes of it.                          *)

\* Mutated: the checksum is not compared.
Whole_NoChecksum == Len(got) = Length

\* Address, function, length and CRC together accept the bytes of one frame and no others.
Whole == Len(got) = Length /\ got = Bytes(got[1].of)

\* uint16_t arithmetic.
Level == (got[2].of.range - got[1].of.distance) % Word

\* Mutated: the range of the sensor itself is refused.
IsValidDistance_Strict(mm) == mm > 0 /\ mm < MaxDistance

IsValidDistance(mm) == mm > 0 /\ mm <= MaxDistance

\* The next reading, or the end.
Proceed ==
  /\ try' = 1
  /\ IF sample = Samples THEN pc' = "done" /\ UNCHANGED sample
                         ELSE pc' = "send" /\ sample' = sample + 1

\* The warm-up takes any value.
WarmedUp ==
  /\ pc = "read" /\ sample = 0 /\ Whole
  /\ Proceed
  /\ UNCHANGED <<asked, wire, rx, got, out, allOk, frames, quiet, odd, faults>>

Take ==
  /\ pc = "read" /\ sample > 0 /\ Whole /\ IsValidDistance(Level)
  /\ out' = [out EXCEPT ![sample] = Level]
  /\ frames' = [frames EXCEPT ![sample] = got[1].of]
  /\ Proceed
  /\ UNCHANGED <<asked, wire, rx, got, allOk, quiet, odd, faults>>

\* This try is over: another one, or a reading that failed.
Again ==
  IF sample = 0 THEN pc' = "failed" /\ UNCHANGED <<sample, try, allOk>>
  ELSE IF try < Repeats THEN pc' = "send" /\ try' = try + 1 /\ UNCHANGED <<sample, allOk>>
  ELSE Proceed /\ allOk' = FALSE

\* A frame that is not one, or a distance that cannot be.
Refuse ==
  /\ pc = "read" /\ Len(got) = Length
  /\ Whole => sample > 0 /\ ~IsValidDistance(Level)
  /\ Again
  /\ UNCHANGED <<asked, wire, rx, got, out, frames, quiet, odd, faults>>

\* Six seconds without the rest of the frame, which may still come.
TimeOut ==
  /\ pc = "read" /\ Len(got) < Length
  /\ IF wire = <<>> /\ rx = <<>> THEN UNCHANGED faults
     ELSE faults < MaxFaults /\ faults' = faults + 1
  /\ Again
  /\ UNCHANGED <<asked, wire, rx, got, out, frames, quiet, odd>>

\* The next boot.
Restart ==
  /\ pc \in {"done", "failed"}
  /\ pc' = "off" /\ sample' = 0 /\ try' = 1 /\ asked' = 0
  /\ wire' = <<>> /\ rx' = <<>> /\ got' = <<>>
  /\ out' = [i \in 1 .. Samples |-> 0] /\ frames' = [i \in 1 .. Samples |-> NoFrame]
  /\ allOk' = TRUE /\ quiet' = TRUE /\ odd' = FALSE /\ faults' = 0

USNext ==
  \/ Arrives \/ Disturbed
  \/ WarmUp \/ NoUart \/ Send \/ SendUnheard \/ Receive
  \/ WarmedUp \/ Take \/ Refuse \/ TimeOut \/ Restart

USSpec == USInit /\ [][USNext]_usVars
-----------------------------------------------------------------------------
Frames == [id : Nat, distance : 0 .. Word - 1, range : 0 .. Word - 1]
ByteSet == [of : Frames, field : {"distance", "range", "checksum", "spoilt"}]

USTypeOK ==
  /\ pc \in {"off", "send", "read", "done", "failed"}
  /\ sample \in 0 .. Samples /\ try \in 1 .. Repeats
  /\ asked \in 0 .. 1 + Samples * Repeats
  /\ wire \in Seq(ByteSet) /\ rx \in Seq(ByteSet) /\ got \in Seq(ByteSet) /\ Len(got) <= Length
  /\ out \in [1 .. Samples -> 0 .. MaxDistance] /\ frames \in [1 .. Samples -> Frames]
  /\ allOk \in BOOLEAN /\ quiet \in BOOLEAN /\ odd \in BOOLEAN /\ faults \in 0 .. MaxFaults

\* Answer f gives the level mm, of 1 mm to 30 m: it is the difference of its registers, unless
\* the distance alone is one the sensor cannot see, 35536 mm and more; the difference
\* modulo 2^16 may then pass for a level.
Gives(f, mm) ==
  /\ mm \in 1 .. MaxDistance
  /\ \/ mm = f.range - f.distance
     \/ mm = f.range - f.distance + Word /\ f.distance >= 35536

\* A measurement that read3 calls good has in each place a level that one answer of the
\* sensor gives, and no answer is counted twice: whatever bytes came late, were lost or met
\* the bytes of another answer.
LevelsAreMeasured ==
  pc = "done" /\ allOk =>
    \A i \in 1 .. Samples :
      /\ frames[i].id > 0 /\ Gives(frames[i], out[i])
      /\ \A j \in 1 .. Samples \ {i} : frames[j].id # frames[i].id

\* A reading is the answer to its own request, unless an earlier answer was still on its way
\* when the request went out: what had come by then was dropped.
OwnAnswer ==
  pc \in {"send", "done"} /\ quiet /\ sample > 0 /\ try = 1 =>
    LET last == IF pc = "done" THEN sample ELSE sample - 1 IN
    last > 0 /\ frames[last].id > 0 => frames[last].id = asked

\* A sensor that answers in time with levels it can see is read at the first try, at
\* either end of its range.
HealthyReads ==
  faults = 0 /\ ~odd => /\ pc # "failed"
                        /\ pc = "done" => allOk /\ asked = 1 + Samples
=============================================================================
