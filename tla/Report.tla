------------------------------- MODULE Report -------------------------------
(***************************************************************************)
(* What a record says when it reaches the server: the time it was taken,   *)
(* by an RTC that is set from the server once an hour, and the log of the  *)
(* session.                                                                *)
(*                                                                         *)
(* One cycle after another: measure_task reads the RTC and writes its log; *)
(* sync_task compares the RTC with the server's time, perhaps sets it, and *)
(* sends what is queued.  PersistentQueue and WakeCycle show the queue     *)
(* between them.                                                           *)
(***************************************************************************)
EXTENDS RtcTime, SessionLog

CONSTANTS
  Starts,       (* times of the first cycle                                 *)
  Errors,       (* seconds by which the RTC may be off at the first cycle   *)
  Lost,         (* what the registers may hold after a loss of power        *)
  Lines,        (* what is logged at once                                   *)
  CycleSeconds, (* from one cycle to the next                               *)
  Drift,        (* seconds the RTC gains or loses in that time              *)
  Latency,      (* seconds from the server's answer to its use              *)
  Rounds,       (* of a diagnostic window: four, kDiagWindowMs / kDiagCycleIntervalMs *)
  MaxCycles     (* bound: cycles explored                                   *)

Registers == [second : 0 .. 255, minute : 0 .. 255, hour : 0 .. 255, day : 0 .. 255,
              month : 0 .. 255, year : 0 .. 255]

ASSUME ReportAssumption ==
  /\ Starts \subseteq [year : 2000 .. 2099, month : 1 .. 12, day : 1 .. 31,
                       hour : 0 .. 23, minute : 0 .. 59, second : 0 .. 59]
  /\ \A t \in Starts : t.day <= DaysInMonth(t.year, t.month)
  /\ Errors \subseteq 0 .. Day /\ Lost \subseteq Registers /\ Lines \subseteq Seq(Char)
  /\ CycleSeconds \in Nat /\ Drift \in 0 .. CycleSeconds /\ CycleSeconds + Drift <= Day
  /\ Latency \subseteq 0 .. Day
  /\ Rounds \in Nat /\ MaxCycles \in Nat

VARIABLES
  phase,      (* what happens next in the cycle                             *)
  cycle,      (* cycles so far                                              *)
  rounds,     (* of this diagnostic window                                  *)
  now,        (* the true time, which the server has                        *)
  regs,       (* the RTC's registers                                        *)
  stamp,      (* the time in this cycle's records                           *)
  log,        (* the session's LogBuffer                                    *)
  said,       (* history: what was appended to it                           *)
  record,     (* the LogMsg that is queued                                  *)
  body,       (* the JSON string sent                                       *)
  doubt       (* history: seconds the RTC may be off; a day: anything       *)

clock == <<now, regs, doubt>>
text == <<log, said, record, body>>
vars == <<phase, cycle, rounds, clock, stamp, text>>

\* The server's answers and the RTC may be off by this after a sync that found nothing to set.
Tolerance == 60

Init ==
  /\ phase = "diagnose" /\ cycle = 1 /\ rounds = 0
  /\ \E t \in Starts, e \in Errors :
       \/ now = After(t, e) /\ regs = Encode(t)
       \/ now = t /\ regs = Encode(After(t, e))
       \/ now = t /\ regs \in Lost
  /\ doubt = Day
  /\ stamp = Default
  /\ log = Cleared /\ said = <<>>
  /\ record = Copied(Cleared) /\ body = <<>>

-----------------------------------------------------------------------------
(* Time.                                                                   *)

\* The RTC as pcf8563_getDateTime finds it, after n seconds; a transfer that fails leaves the
\* caller's DateTime as it was made.
Readings(n) == {Decode(Counted(regs, n)), Default}

\* What the registers hold after a transfer that was cut short.
Order == <<"second", "minute", "hour", "day", "month", "year">>
Cut(old, new) ==
  {[f \in DOMAIN old |-> IF \E i \in 1 .. n : Order[i] = f THEN new[f] ELSE old[f]] : n \in 0 .. 6}

TooFar(server, rtc) == DeltaSeconds(server, rtc) > Tolerance

\* parseServerTime takes six numbers; an answer cut short may still have six.
Answers == {now} \cup {[now EXCEPT !.year = y] : y \in {now.year \div 10, now.year \div 100}}

\* RtcBase::setTime, whose result nobody looks at: out of range, set, or cut short.
SetTime(server, n) ==
  LET new == Narrowed(server)
      old == Counted(regs, n)
  IN IF ~Settable(new) THEN regs' = old /\ UNCHANGED doubt
     ELSE \/ regs' = Encode(new) /\ doubt' = n
          \/ regs' \in Cut(old, Encode(new)) /\ doubt' = Day

\* Bound: the registers count to the end of 2199.
InRange == now.year < 2198

\* An answer n seconds old is compared with the RTC.  (Registers that hold no time, and that
\* mktime happens to take for the present, are not relied on.)
Compare(n) ==
  /\ InRange
  /\ now' = After(now, n)
  /\ \E server \in Answers, rtc \in Readings(n) :
       IF TooFar(server, rtc)
       THEN SetTime(server, n)
       ELSE /\ regs' = Counted(regs, n)
            /\ doubt' = IF rtc # Default /\ Settable(rtc) THEN Smallest(Tolerance + n, Day) ELSE Day

\* kDiagCycleIntervalMs.
RoundSeconds == 30

\* Nothing is heard from the server until the next round.
NoAnswer ==
  /\ InRange
  /\ now' = After(now, RoundSeconds) /\ regs' = Counted(regs, RoundSeconds)
  /\ UNCHANGED doubt

\* fetch_and_sync_time, one round of the first boot's diagnostic window.
DiagnosticSync ==
  /\ phase = "diagnose" /\ rounds < Rounds
  /\ rounds' = rounds + 1
  /\ (\E n \in Latency : Compare(n)) \/ NoAnswer
  /\ UNCHANGED <<phase, cycle, stamp, text>>

\* The window is over, or no module reached the Internet and there was none.
DiagnosticEnds ==
  /\ phase = "diagnose"
  /\ phase' = "measure" /\ rounds' = 0
  /\ UNCHANGED <<cycle, clock, stamp, text>>

\* syncTimeWithRetry: tries that fail change nothing, the first that does not is the last.
TimeSync ==
  /\ phase = "sync"
  /\ phase' = "send"
  /\ \/ \E n \in Latency : Compare(n)
     \/ UNCHANGED clock
  /\ UNCHANGED <<cycle, rounds, stamp, text>>

-----------------------------------------------------------------------------
(* Records.                                                                *)

\* A session begins; whether the RTC could be read is not looked at.
Stamp ==
  /\ phase = "measure"
  /\ stamp' \in Readings(0)
  /\ phase' = "log"
  /\ UNCHANGED <<cycle, rounds, clock, text>>

AppendLine(line) ==
  /\ phase = "log"
  /\ Len(said) < Size
  /\ log' = Appended(log, line)
  /\ said' = said \o line
  /\ UNCHANGED <<phase, cycle, rounds, clock, stamp, record, body>>

PublishLog ==
  /\ phase = "log"
  /\ record' = Copied(log)
  /\ phase' = "sync"
  /\ UNCHANGED <<cycle, rounds, clock, stamp, log, said, body>>

Send ==
  /\ phase = "send"
  /\ body' = Packed(record)
  /\ phase' = "sleep"
  /\ UNCHANGED <<cycle, rounds, clock, stamp, log, said, record>>

-----------------------------------------------------------------------------

\* What was in RAM is gone, and the record has left the queue.
Asleep ==
  /\ phase = "sleep" /\ cycle < MaxCycles /\ InRange
  /\ stamp' = Default /\ UNCHANGED rounds
  /\ log' = Cleared /\ said' = <<>> /\ record' = Copied(Cleared) /\ body' = <<>>

\* The RTC counts on, and is a little fast or slow.
Sleep ==
  /\ Asleep
  /\ cycle' = cycle + 1
  /\ now' = After(now, CycleSeconds)
  /\ \E n \in {CycleSeconds - Drift, CycleSeconds + Drift} : regs' = Counted(regs, n)
  /\ doubt' = Smallest(doubt + Drift, Day)
  /\ phase' = "measure"

\* Its battery, too, is lost: a first boot again.
PowerFails ==
  /\ Asleep
  /\ cycle' = cycle + 1
  /\ now' = After(now, CycleSeconds)
  /\ regs' \in Lost
  /\ doubt' = Day
  /\ phase' = "diagnose"

Finished == phase = "sleep" /\ cycle = MaxCycles /\ UNCHANGED vars

Next ==
  \/ DiagnosticSync \/ DiagnosticEnds \/ TimeSync
  \/ Stamp \/ \E line \in Lines : AppendLine(line)
  \/ PublishLog \/ Send \/ Sleep \/ PowerFails \/ Finished

Spec == Init /\ [][Next]_vars

-----------------------------------------------------------------------------
(* Properties.                                                             *)

\* Type invariant: registers of eight bits, and every length within its buffer.
TypeOK ==
  /\ phase \in {"diagnose", "measure", "log", "sync", "send", "sleep"}
  /\ cycle \in Nat /\ rounds \in 0 .. Rounds
  /\ regs \in Registers
  /\ said \in Seq(Char)
  /\ \A l \in {log, record} : l \in [cells : Cells, len : 0 .. Size - 1]

\* What a buffer keeps of a text, and the length it claims for it: when the text does not fit,
\* one more than is there.
Held(s) ==
  [cells |-> [i \in 1 .. Size |-> IF i <= Smallest(Len(s), Size - 2) THEN s[i] ELSE "NUL"],
   len |-> Smallest(Len(s), Size - 1)]

\* However a log was cut into lines, and wherever the buffer ended (log_buffer.cpp:21-27), the
\* record queued for the server holds the beginning of the whole of it: no line is missing
\* between two that are there, none is cut before the buffer is full, and the text ends.
RecordHoldsLog == phase \in {"sync", "send", "sleep"} => record = Held(said)

\* Once the RTC has been compared with the server, each record is stamped with the time it was
\* taken, or with the default that says it could not be read: over midnight, month, leap day,
\* year and century, whatever answers are cut short and however long ago the sync was, until the
\* RTC loses its power or a transfer that sets it fails.
StampsTrue ==
  phase = "log" /\ doubt < Day => stamp = Default \/ DeltaSeconds(stamp, now) <= doubt

\* What the server reads is what was appended, as far as the buffer has room: all of it, or else
\* its first kSessionLogSize - 2 characters and one NUL, whatever was quoted, escaped or cut.  And
\* its parser accepts the body just when no NUL was needed and every control character that was
\* logged ended a line: packLog (json_packer.cpp:44-50) sends any other as it is.
LogArrives ==
  phase = "sleep" =>
    LET read == Unpacked(body)
        fits == Len(said) <= Size - 2
        plain == \A i \in 1 .. Len(said) : said[i] # "control"
    IN /\ read.text = IF fits THEN said ELSE SubSeq(said, 1, Size - 2) \o <<"NUL">>
       /\ read.valid <=> fits /\ plain

=============================================================================
