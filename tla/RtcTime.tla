------------------------------ MODULE RtcTime ------------------------------
(***************************************************************************)
(* Dates and times as the firmware keeps them: the BCD registers of the    *)
(* PCF8563, the driver that reads and writes them, and the arithmetic that *)
(* compares the RTC with the server.  (The weekday, always written as 0    *)
(* and never used, is left out.)                                           *)
(*                                                                         *)
(* 2000 to 2099 only: 2100 is a leap year for chip and driver alike, and   *)
(* no leap year for the server.                                            *)
(***************************************************************************)
EXTENDS Integers

Time(y, mo, d, h, mi, s) ==
  [year |-> y, month |-> mo, day |-> d, hour |-> h, minute |-> mi, second |-> s]

\* What a DateTime holds that was never written, or whose read failed.
Default == Time(2026, 1, 1, 0, 0, 0)

-----------------------------------------------------------------------------
(* The driver.                                                             *)

DecToBcd(v) == (16 * ((v \div 10) % 16)) + (v % 10)
BcdToDec(v) == (10 * (v \div 16)) + (v % 16)

DaysInMonth(y, mo) ==
  IF mo = 2 THEN IF y % 4 = 0 THEN 29 ELSE 28
  ELSE IF mo \in {4, 6, 9, 11} THEN 30 ELSE 31

ValidTime(t) == t.second <= 59 /\ t.minute <= 59 /\ t.hour <= 23

\* Mutated: any date goes.
ValidDate_Any(t) == TRUE

ValidDate(t) ==
  /\ t.month \in 1 .. 12
  /\ t.year \in 2000 .. 2199
  /\ t.day \in 1 .. DaysInMonth(t.year, t.month)

\* The registers from VL_seconds on.  A month register above 127 has the century bit, a seconds
\* register above 127 the bit VL: the oscillator has stopped, and the time is not to be relied on.
Encode(t) ==
  LET offset == (t.year - 2000) % 65536
  IN [second |-> DecToBcd(t.second), minute |-> DecToBcd(t.minute), hour |-> DecToBcd(t.hour),
      day |-> DecToBcd(t.day),
      month |-> DecToBcd(t.month) + IF offset >= 100 THEN 128 ELSE 0,
      year |-> DecToBcd(offset % 100)]

Decode(r) ==
  Time((IF r.month >= 128 THEN 2100 ELSE 2000) + BcdToDec(r.year), BcdToDec(r.month % 32),
       BcdToDec(r.day % 64), BcdToDec(r.hour % 64), BcdToDec(r.minute % 128),
       BcdToDec(r.second % 128))

\* RtcBase::setTime narrows the fields before they are looked at.
Narrowed(t) ==
  Time(t.year % 65536, t.month % 256, t.day % 256, t.hour % 256, t.minute % 256, t.second % 256)

Settable(t) == ValidTime(t) /\ ValidDate(t)

-----------------------------------------------------------------------------
(* Comparing times.                                                        *)

MonthDays(y, mo) ==
  LET before == <<0, 31, 59, 90, 120, 151, 181, 212, 243, 273, 304, 334>>
  IN before[mo] + IF mo > 2 /\ y % 4 = 0 THEN 1 ELSE 0

\* mktime, which takes fields out of range for what they amount to; the epoch is 2000-01-01.
Epoch(t) ==
  LET y == t.year + (t.month - 1) \div 12
      mo == ((t.month - 1) % 12) + 1
      s == 3600 * t.hour + 60 * t.minute + t.second
  IN [days |-> 365 * (y - 2000) + (y - 1997) \div 4 + MonthDays(y, mo) + t.day - 1 + s \div 86400,
      seconds |-> s % 86400]

Absolute(n) == IF n < 0 THEN -n ELSE n

\* More than a day apart is just that.
Day == 86400

DeltaSeconds(a, b) ==
  LET days == Epoch(a).days - Epoch(b).days
  IN IF Absolute(days) > 1 THEN Day
     ELSE Absolute(Day * days + Epoch(a).seconds - Epoch(b).seconds)

-----------------------------------------------------------------------------
(* The chip and the world.                                                 *)

SecondOfDay(t) == 3600 * t.hour + 60 * t.minute + t.second

NextDay(t) ==
  LET On(y, mo, d) == Time(y, mo, d, t.hour, t.minute, t.second)
  IN IF t.day < DaysInMonth(t.year, t.month) THEN On(t.year, t.month, t.day + 1)
     ELSE IF t.month < 12 THEN On(t.year, t.month + 1, 1)
     ELSE On(t.year + 1, 1, 1)

\* The time n seconds after t, n at most a day.
After(t, n) ==
  LET s == (SecondOfDay(t) + n) % Day
      date == IF SecondOfDay(t) + n >= Day THEN NextDay(t) ELSE t
  IN Time(date.year, date.month, date.day, s \div 3600, (s \div 60) % 60, s % 60)

\* Registers that hold no time are taken to stay as they are.
Counted(r, n) == IF Settable(Decode(r)) THEN Encode(After(Decode(r), n)) ELSE r

=============================================================================
