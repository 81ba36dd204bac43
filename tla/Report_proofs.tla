--------------------------- MODULE Report_proofs ---------------------------
(***************************************************************************)
(* What is proved of Report, for any buffer, any lines, any date up to the *)
(* end of 2198, any drift and latency, and any number of cycles:           *)
(*                                                                         *)
(*   - what the driver sets it reads back;                                 *)
(*   - a buffer filled line by line holds the beginning of the whole text; *)
(*   - the server reads from the JSON body just what the record holds;     *)
(*   - every stamp of a clock that was compared with the server is true.   *)
(*                                                                         *)
(* The last rests on one lemma: counting n seconds on, over any rollover,  *)
(* adds n to the seconds since the epoch.                                  *)
(***************************************************************************)
EXTENDS Report, SequenceTheorems, WellFoundedInduction, TLAPS

-----------------------------------------------------------------------------
(* Dates and times.                                                        *)

\* A time that exists, in the years the registers can count and one more.
Moment ==
  {t \in [year : 2000 .. 2200, month : 1 .. 12, day : 1 .. 31,
          hour : 0 .. 23, minute : 0 .. 59, second : 0 .. 59] :
     t.day <= DaysInMonth(t.year, t.month)}

\* Seconds since the epoch.
Total(t) == Day * Epoch(t).days + Epoch(t).seconds

\* A two-digit number survives BCD.
LEMMA BcdRoundTrip ==
  \A v \in 0 .. 99 : /\ DecToBcd(v) = 16 * (v \div 10) + (v % 10)
                     /\ BcdToDec(DecToBcd(v)) = v
<1> SUFFICES ASSUME NEW v \in 0 .. 99
             PROVE  /\ DecToBcd(v) = 16 * (v \div 10) + (v % 10)
                    /\ BcdToDec(DecToBcd(v)) = v
  OBVIOUS
<1>1. v \div 10 \in 0 .. 9 /\ v % 10 \in 0 .. 9 /\ v = 10 * (v \div 10) + (v % 10)
  BY SMT
<1> DEFINE tens == v \div 10
           ones == v % 10
<1>2. (tens % 16) = tens
  BY <1>1, SMT
<1>3. DecToBcd(v) = 16 * tens + ones
  BY <1>2 DEF DecToBcd
<1>4. (16 * tens + ones) \div 16 = tens /\ (16 * tens + ones) % 16 = ones
  BY <1>1, SMT
<1> QED
  BY <1>1, <1>3, <1>4 DEF BcdToDec

\* The bits that hold it: those a mask leaves, for each of the driver's masks.
LEMMA BcdFits ==
  ASSUME NEW v \in 0 .. 99
  PROVE  /\ DecToBcd(v) \in 0 .. 153
         /\ v <= 59 => DecToBcd(v) \in 0 .. 127 /\ DecToBcd(v) % 128 = DecToBcd(v)
         /\ v <= 31 => DecToBcd(v) % 64 = DecToBcd(v)
         /\ v <= 12 => /\ DecToBcd(v) \in 0 .. 31 /\ DecToBcd(v) % 32 = DecToBcd(v)
                       /\ (DecToBcd(v) + 128) % 32 = DecToBcd(v)
<1> DEFINE b == 16 * (v \div 10) + (v % 10)
<1>1. DecToBcd(v) = b
  BY BcdRoundTrip
<1>2. b \in 0 .. 153
  BY SMT
<1>3. v <= 59 => b \in 0 .. 127 /\ b % 128 = b
  BY SMT
<1>4. v <= 31 => b % 64 = b
  BY SMT
<1>5. v <= 12 => b \in 0 .. 31 /\ b % 32 = b /\ (b + 128) % 32 = b
  BY SMT
<1> QED
  BY <1>1, <1>2, <1>3, <1>4, <1>5

\* What it decodes to, from a whole register and under each mask.
LEMMA BcdField ==
  ASSUME NEW v \in 0 .. 99
  PROVE  /\ BcdToDec(DecToBcd(v)) = v /\ DecToBcd(v) \in 0 .. 255
         /\ v <= 59 => BcdToDec(DecToBcd(v) % 128) = v
         /\ v <= 31 => BcdToDec(DecToBcd(v) % 64) = v
<1>1. BcdToDec(DecToBcd(v)) = v
  BY BcdRoundTrip
<1>2. DecToBcd(v) \in 0 .. 153
  BY BcdFits
<1> DEFINE b == DecToBcd(v)
<1>3. b \in 0 .. 255
  <2> HIDE DEF b
  <2> QED
    BY <1>2 DEF b
<1>4. v <= 59 => b % 128 = b
  BY BcdFits
<1>5. v <= 31 => b % 64 = b
  BY BcdFits
<1> QED
  BY <1>1, <1>3, <1>4, <1>5

\* Registers that were set with a time hold that time, to the end of 2199.
THEOREM SetThenGet ==
  ASSUME NEW t \in Moment
  PROVE  /\ Encode(t) \in Registers
         /\ t.year < 2200 => Decode(Encode(t)) = t
<1> DEFINE offset == (t.year - 2000) % 65536
<1>1. /\ t.year \in 2000 .. 2200 /\ t.month \in 1 .. 12 /\ t.day \in 1 .. 31
      /\ t.hour \in 0 .. 23 /\ t.minute \in 0 .. 59 /\ t.second \in 0 .. 59
  BY DEF Moment
<1>2. offset = t.year - 2000
  BY <1>1, SMT
<1>3. /\ offset % 100 \in 0 .. 99
      /\ t.year < 2200 => offset = (IF offset >= 100 THEN 100 ELSE 0) + (offset % 100)
  BY <1>1, <1>2, SMT
<1>4. /\ BcdToDec(DecToBcd(t.second) % 128) = t.second /\ DecToBcd(t.second) \in 0 .. 255
      /\ BcdToDec(DecToBcd(t.minute) % 128) = t.minute /\ DecToBcd(t.minute) \in 0 .. 255
  <2>1. /\ t.second \in 0 .. 99 /\ t.second <= 59
        /\ t.minute \in 0 .. 99 /\ t.minute <= 59
    BY <1>1, SMT
  <2>2. BcdToDec(DecToBcd(t.second) % 128) = t.second /\ DecToBcd(t.second) \in 0 .. 255
    BY <2>1, BcdField
  <2>3. BcdToDec(DecToBcd(t.minute) % 128) = t.minute /\ DecToBcd(t.minute) \in 0 .. 255
    BY <2>1, BcdField
  <2> QED
    BY <2>2, <2>3
<1>5. /\ BcdToDec(DecToBcd(t.hour) % 64) = t.hour /\ DecToBcd(t.hour) \in 0 .. 255
      /\ BcdToDec(DecToBcd(t.day) % 64) = t.day /\ DecToBcd(t.day) \in 0 .. 255
  <2>1. t.hour \in 0 .. 99 /\ t.hour <= 31 /\ t.day \in 0 .. 99 /\ t.day <= 31
    BY <1>1, SMT
  <2>2. BcdToDec(DecToBcd(t.hour) % 64) = t.hour /\ DecToBcd(t.hour) \in 0 .. 255
    BY <2>1, BcdField
  <2>3. BcdToDec(DecToBcd(t.day) % 64) = t.day /\ DecToBcd(t.day) \in 0 .. 255
    BY <2>1, BcdField
  <2> QED
    BY <2>2, <2>3
<1> DEFINE b == DecToBcd(t.month)
           m == b + IF offset >= 100 THEN 128 ELSE 0
<1>7. BcdToDec(m % 32) = t.month /\ m \in 0 .. 255 /\ (m >= 128 <=> offset >= 100)
  <2>1. t.month \in 0 .. 99 /\ t.month <= 12
    BY <1>1, SMT
  <2>2. b \in 0 .. 31 /\ b % 32 = b /\ (b + 128) % 32 = b /\ BcdToDec(b) = t.month
    BY <2>1, BcdRoundTrip, BcdFits, Zenon
  <2> HIDE DEF b, offset
  <2>3. offset \in Int
    BY <1>1, <1>2, SMT
  <2>4. m % 32 = b /\ m \in 0 .. 255 /\ (m >= 128 <=> offset >= 100)
    BY <2>2, <2>3, SMT
  <2> QED
    BY <2>2, <2>4
<1>8. BcdToDec(DecToBcd(offset % 100)) = offset % 100 /\ DecToBcd(offset % 100) \in 0 .. 255
  <2> DEFINE y == offset % 100
  <2>1. y \in 0 .. 99
    BY <1>3
  <2> HIDE DEF y
  <2>2. BcdToDec(DecToBcd(y)) = y /\ DecToBcd(y) \in 0 .. 255
    BY <2>1, BcdField
  <2> QED
    BY <2>2 DEF y
<1>9. Encode(t) = [second |-> DecToBcd(t.second), minute |-> DecToBcd(t.minute),
                   hour |-> DecToBcd(t.hour), day |-> DecToBcd(t.day), month |-> m,
                   year |-> DecToBcd(offset % 100)]
  BY DEF Encode
<1>10. t.year < 2200 => (IF m >= 128 THEN 2100 ELSE 2000) + (offset % 100) = t.year
  BY <1>1, <1>2, <1>3, <1>7, SMT
<1> HIDE DEF b, m, offset
<1>11. ASSUME t.year < 2200
       PROVE  Decode(Encode(t)) = Time(t.year, t.month, t.day, t.hour, t.minute, t.second)
  <2> DEFINE year(r) == (IF r.month >= 128 THEN 2100 ELSE 2000) + BcdToDec(r.year)
  <2>1. /\ Encode(t).second = DecToBcd(t.second) /\ Encode(t).minute = DecToBcd(t.minute)
        /\ Encode(t).hour = DecToBcd(t.hour) /\ Encode(t).day = DecToBcd(t.day)
        /\ Encode(t).month = m /\ Encode(t).year = DecToBcd(offset % 100)
    BY <1>9
  <2>2. year(Encode(t)) = t.year
    BY <2>1, <1>8, <1>10, <1>11
  <2>3. \A r : Decode(r) = Time(year(r), BcdToDec(r.month % 32), BcdToDec(r.day % 64),
                               BcdToDec(r.hour % 64), BcdToDec(r.minute % 128),
                               BcdToDec(r.second % 128))
    BY DEF Decode
  <2> HIDE DEF year
  <2> QED
    BY <2>1, <2>2, <2>3, <1>4, <1>5, <1>7
<1>12. Time(t.year, t.month, t.day, t.hour, t.minute, t.second) = t
  BY DEF Moment, Time
<1> QED
  BY <1>4, <1>5, <1>7, <1>8, <1>9, <1>11, <1>12 DEF Registers

-----------------------------------------------------------------------------
(* Counting on.                                                            *)

DayNumber(t) ==
  365 * (t.year - 2000) + (t.year - 1997) \div 4 + MonthDays(t.year, t.month) + t.day - 1

\* What the type of a moment says of its fields.
LEMMA MomentFields ==
  ASSUME NEW t \in Moment
  PROVE  /\ t.year \in 2000 .. 2200 /\ t.month \in 1 .. 12 /\ t.day \in 1 .. 31
         /\ t.hour \in 0 .. 23 /\ t.minute \in 0 .. 59 /\ t.second \in 0 .. 59
         /\ t.day <= DaysInMonth(t.year, t.month)
         /\ SecondOfDay(t) \in Nat /\ SecondOfDay(t) < 86400
<1>1. /\ t.year \in 2000 .. 2200 /\ t.month \in 1 .. 12 /\ t.day \in 1 .. 31
      /\ t.hour \in 0 .. 23 /\ t.minute \in 0 .. 59 /\ t.second \in 0 .. 59
      /\ t.day <= DaysInMonth(t.year, t.month)
  BY DEF Moment
<1>2. SecondOfDay(t) \in Nat /\ SecondOfDay(t) < 86400
  <2> DEFINE h == t.hour
             mi == t.minute
             s == t.second
  <2>1. h \in Nat /\ mi \in Nat /\ s \in Nat /\ h < 24 /\ mi < 60 /\ s < 60
    BY <1>1
  <2>2. SecondOfDay(t) = 3600 * h + 60 * mi + s
    BY DEF SecondOfDay
  <2> HIDE DEF h, mi, s
  <2>3. 3600 * h + 60 * mi + s \in Nat /\ 3600 * h + 60 * mi + s < 86400
    BY <2>1, SMT
  <2> QED
    BY <2>2, <2>3
<1> QED
  BY <1>1, <1>2

\* The days of a year before a month, month by month.
LEMMA MonthTable ==
  ASSUME NEW y \in Int
  PROVE  /\ \A mo \in 1 .. 12 : MonthDays(y, mo) \in Nat /\ MonthDays(y, mo) <= 335
         /\ \A mo \in 1 .. 11 : MonthDays(y, mo + 1) = MonthDays(y, mo) + DaysInMonth(y, mo)
         /\ MonthDays(y, 1) = 0
         /\ MonthDays(y, 12) + 31 = IF y % 4 = 0 THEN 366 ELSE 365
<1> DEFINE before == <<0, 31, 59, 90, 120, 151, 181, 212, 243, 273, 304, 334>>
           leap == IF y % 4 = 0 THEN 1 ELSE 0
<1>1. /\ before[1] = 0 /\ before[2] = 31 /\ before[3] = 59 /\ before[4] = 90
      /\ before[5] = 120 /\ before[6] = 151 /\ before[7] = 181 /\ before[8] = 212
      /\ before[9] = 243 /\ before[10] = 273 /\ before[11] = 304 /\ before[12] = 334
  OBVIOUS
<1>2. \A mo \in 1 .. 12 :
        MonthDays(y, mo) = before[mo] + IF mo > 2 /\ y % 4 = 0 THEN 1 ELSE 0
  BY DEF MonthDays
<1> HIDE DEF before
<1>3. /\ MonthDays(y, 1) = 0 /\ MonthDays(y, 2) = 31 /\ MonthDays(y, 3) = 59 + leap
      /\ MonthDays(y, 4) = 90 + leap /\ MonthDays(y, 5) = 120 + leap
      /\ MonthDays(y, 6) = 151 + leap /\ MonthDays(y, 7) = 181 + leap
      /\ MonthDays(y, 8) = 212 + leap /\ MonthDays(y, 9) = 243 + leap
      /\ MonthDays(y, 10) = 273 + leap /\ MonthDays(y, 11) = 304 + leap
      /\ MonthDays(y, 12) = 334 + leap
  BY <1>1, <1>2
<1>4. /\ DaysInMonth(y, 1) = 31 /\ DaysInMonth(y, 2) = 28 + leap /\ DaysInMonth(y, 3) = 31
      /\ DaysInMonth(y, 4) = 30 /\ DaysInMonth(y, 5) = 31 /\ DaysInMonth(y, 6) = 30
      /\ DaysInMonth(y, 7) = 31 /\ DaysInMonth(y, 8) = 31 /\ DaysInMonth(y, 9) = 30
      /\ DaysInMonth(y, 10) = 31 /\ DaysInMonth(y, 11) = 30
  BY DEF DaysInMonth
<1>5. \A mo \in 1 .. 12 : MonthDays(y, mo) \in Nat /\ MonthDays(y, mo) <= 335
  <2>1. ASSUME NEW mo \in 1 .. 12
        PROVE  mo \in {1, 2, 3, 4, 5, 6, 7, 8, 9, 10, 11, 12}
    BY SMT
  <2> QED
    BY <1>3, <2>1
<1>6. \A mo \in 1 .. 11 : MonthDays(y, mo + 1) = MonthDays(y, mo) + DaysInMonth(y, mo)
  <2> SUFFICES ASSUME NEW mo \in 1 .. 11
               PROVE  MonthDays(y, mo + 1) = MonthDays(y, mo) + DaysInMonth(y, mo)
    OBVIOUS
  <2>1. mo \in {1, 2, 3, 4, 5, 6, 7, 8, 9, 10, 11}
    BY SMT
  <2> QED
    BY <1>3, <1>4, <2>1
<1> QED
  BY <1>3, <1>5, <1>6

LEMMA MonthDaysType ==
  ASSUME NEW y \in Int, NEW mo \in 1 .. 12
  PROVE  MonthDays(y, mo) \in Nat /\ MonthDays(y, mo) <= 335
BY MonthTable

LEMMA MonthEnds ==
  ASSUME NEW y \in Int, NEW mo \in 1 .. 11
  PROVE  MonthDays(y, mo + 1) = MonthDays(y, mo) + DaysInMonth(y, mo)
BY MonthTable

LEMMA YearEnds ==
  ASSUME NEW y \in Int
  PROVE  /\ MonthDays(y, 1) = 0
         /\ MonthDays(y, 12) + 31 = IF y % 4 = 0 THEN 366 ELSE 365
BY MonthTable

LEMMA MomentMonth ==
  ASSUME NEW t \in Moment
  PROVE  MonthDays(t.year, t.month) \in Nat
<1>1. t.year \in 2000 .. 2200 /\ t.month \in 1 .. 12
  BY MomentFields
<1>2. t.year \in Int
  BY <1>1
<1>3. t.month \in 1 .. 12
  BY <1>1
<1> QED
  BY <1>2, <1>3, MonthDaysType, Zenon

\* mktime leaves the fields of a moment as they are.
LEMMA EpochOf ==
  ASSUME NEW t \in Moment
  PROVE  /\ Epoch(t) = [days |-> DayNumber(t), seconds |-> SecondOfDay(t)]
         /\ DayNumber(t) \in Int
         /\ Total(t) = Day * DayNumber(t) + SecondOfDay(t)
<1>1. /\ t.year \in 2000 .. 2200 /\ t.month \in 1 .. 12 /\ t.day \in 1 .. 31
      /\ SecondOfDay(t) \in Nat /\ SecondOfDay(t) < 86400
  BY MomentFields
<1>2. (t.month - 1) \div 12 = 0 /\ ((t.month - 1) % 12) + 1 = t.month
  BY <1>1, SMT
<1>3. t.year + (t.month - 1) \div 12 = t.year
  BY <1>1, <1>2
<1> DEFINE s == SecondOfDay(t)
<1>4. s \div 86400 = 0 /\ s % 86400 = s
  <2> HIDE DEF s
  <2> QED
    BY <1>1, SMT DEF s
<1>5. s = 3600 * t.hour + 60 * t.minute + t.second
  BY DEF SecondOfDay
<1>6. Epoch(t) =
        [days |-> 365 * (t.year - 2000) + (t.year - 1997) \div 4 + MonthDays(t.year, t.month)
                  + t.day - 1 + s \div 86400,
         seconds |-> s % 86400]
  BY <1>2, <1>3, <1>5 DEF Epoch
<1>7. MonthDays(t.year, t.month) \in Int
  BY MomentMonth
<1>8. DayNumber(t) \in Int
  <2> DEFINE y == t.year
             d == t.day
             before == MonthDays(t.year, t.month)
             q == (y - 1997) \div 4
  <2>1. y \in Int /\ d \in Int /\ before \in Int
    BY <1>1, <1>7
  <2>2. DayNumber(t) = 365 * (y - 2000) + q + before + d - 1
    BY DEF DayNumber
  <2> HIDE DEF y, d, before
  <2>3. q \in Int
    BY <2>1, SMT
  <2> HIDE DEF q
  <2>4. 365 * (y - 2000) + q + before + d - 1 \in Int
    BY <2>1, <2>3, SMT
  <2> QED
    BY <2>2, <2>4
<1>9. Epoch(t) = [days |-> DayNumber(t), seconds |-> SecondOfDay(t)]
  BY <1>1, <1>4, <1>6, <1>7, <1>8 DEF DayNumber
<1> QED
  BY <1>8, <1>9 DEF Total

\* The day after is one on, whether or not a month, a year or a century ends.
LEMMA NextDayIsOneOn ==
  ASSUME NEW t \in Moment, t.year < 2200
  PROVE  /\ NextDay(t) \in Moment /\ NextDay(t).year <= t.year + 1
         /\ DayNumber(NextDay(t)) = DayNumber(t) + 1
<1>1. /\ t.year \in 2000 .. 2199 /\ t.month \in 1 .. 12 /\ t.day \in 1 .. 31
      /\ t.day <= DaysInMonth(t.year, t.month)
  BY MomentFields
<1>0. /\ t.year \in 2000 .. 2200 /\ t.hour \in 0 .. 23
      /\ t.minute \in 0 .. 59 /\ t.second \in 0 .. 59
  BY MomentFields
<1>3. DaysInMonth(t.year, t.month) \in {28, 29, 30, 31}
  BY DEF DaysInMonth
<1>4. /\ t.year \in Int /\ MonthDays(t.year, t.month) \in Int
      /\ (t.year - 1997) \div 4 \in Int
  <2>1. t.year \in Int /\ (t.year - 1997) \div 4 \in Int
    BY <1>1, SMT
  <2>2. MonthDays(t.year, t.month) \in Nat
    BY MomentMonth
  <2> QED
    BY <2>1, <2>2
<1>5. CASE t.day < DaysInMonth(t.year, t.month)
  <2>1. NextDay(t) = Time(t.year, t.month, t.day + 1, t.hour, t.minute, t.second)
    BY <1>5 DEF NextDay
  <2> DEFINE u == Time(t.year, t.month, t.day + 1, t.hour, t.minute, t.second)
  <2>2. /\ u.year = t.year /\ u.month = t.month /\ u.day = t.day + 1
        /\ u.hour = t.hour /\ u.minute = t.minute /\ u.second = t.second
    BY DEF Time
  <2>3. u \in Moment
    BY <1>0, <1>1, <1>3, <1>5 DEF Moment, Time
  <2>4. DayNumber(u) = DayNumber(t) + 1
    <3> DEFINE n == 365 * (t.year - 2000) + (t.year - 1997) \div 4 + MonthDays(t.year, t.month)
    <3>1. n \in Int /\ t.day \in Int
      <4> DEFINE y == t.year
                 q == (t.year - 1997) \div 4
                 before == MonthDays(t.year, t.month)
      <4>1. y \in Int /\ q \in Int /\ before \in Int /\ n = 365 * (y - 2000) + q + before
        BY <1>4
      <4> HIDE DEF y, q, before, n
      <4> QED
        BY <1>1, <4>1
    <3>2. DayNumber(t) = n + t.day - 1 /\ DayNumber(u) = n + (t.day + 1) - 1
      BY <2>2 DEF DayNumber
    <3> HIDE DEF n, u
    <3> QED
      BY <3>1, <3>2, SMT
  <2> QED
    BY <1>1, <2>1, <2>2, <2>3, <2>4
<1>6. CASE ~(t.day < DaysInMonth(t.year, t.month)) /\ t.month < 12
  <2>1. NextDay(t) = Time(t.year, t.month + 1, 1, t.hour, t.minute, t.second)
    BY <1>6 DEF NextDay
  <2> DEFINE u == Time(t.year, t.month + 1, 1, t.hour, t.minute, t.second)
  <2>2. /\ u.year = t.year /\ u.month = t.month + 1 /\ u.day = 1
        /\ u.hour = t.hour /\ u.minute = t.minute /\ u.second = t.second
    BY DEF Time
  <2>3. 1 <= DaysInMonth(t.year, t.month + 1) /\ t.month + 1 \in 1 .. 12
    BY <1>1, <1>6 DEF DaysInMonth
  <2>4. u \in Moment
    BY <1>0, <2>3 DEF Moment, Time
  <2>5. MonthDays(t.year, t.month + 1) = MonthDays(t.year, t.month) + t.day
    <3>1. t.month \in 1 .. 11 /\ t.day = DaysInMonth(t.year, t.month)
      BY <1>1, <1>3, <1>6
    <3>2. MonthDays(t.year, t.month + 1) = MonthDays(t.year, t.month) + DaysInMonth(t.year, t.month)
      BY <1>4, <3>1, MonthEnds
    <3> QED
      BY <3>1, <3>2
  <2>6. DayNumber(u) = DayNumber(t) + 1
    <3> DEFINE n == 365 * (t.year - 2000) + (t.year - 1997) \div 4
               before == MonthDays(t.year, t.month)
    <3>1. n \in Int /\ before \in Int /\ t.day \in Int
      <4> DEFINE y == t.year
                 q == (t.year - 1997) \div 4
      <4>1. y \in Int /\ q \in Int /\ n = 365 * (y - 2000) + q
        BY <1>4
      <4> HIDE DEF y, q, n
      <4> QED
        BY <1>1, <1>4, <4>1
    <3>2. DayNumber(t) = n + before + t.day - 1 /\ DayNumber(u) = n + (before + t.day) + 1 - 1
      BY <2>2, <2>5 DEF DayNumber
    <3> HIDE DEF n, u, before
    <3> QED
      BY <3>1, <3>2, SMT
  <2> QED
    BY <1>1, <2>1, <2>2, <2>4, <2>6
<1>7. CASE ~(t.day < DaysInMonth(t.year, t.month)) /\ ~(t.month < 12)
  <2>1. NextDay(t) = Time(t.year + 1, 1, 1, t.hour, t.minute, t.second)
    BY <1>7 DEF NextDay
  <2> DEFINE u == Time(t.year + 1, 1, 1, t.hour, t.minute, t.second)
  <2>2. /\ u.year = t.year + 1 /\ u.month = 1 /\ u.day = 1
        /\ u.hour = t.hour /\ u.minute = t.minute /\ u.second = t.second
    BY DEF Time
  <2>3. 1 <= DaysInMonth(t.year + 1, 1) /\ t.year + 1 \in 2000 .. 2200
    BY <1>1 DEF DaysInMonth
  <2>4. u \in Moment
    BY <1>0, <2>3 DEF Moment, Time
  <2>5. t.month = 12 /\ t.day = 31
    <3>1. t.month = 12
      BY <1>1, <1>7
    <3>2. DaysInMonth(t.year, 12) = 31
      BY DEF DaysInMonth
    <3> QED
      BY <1>1, <1>7, <3>1, <3>2
  <2>6. (t.year - 1996) \div 4 = (t.year - 1997) \div 4 + IF t.year % 4 = 0 THEN 1 ELSE 0
    BY <1>1, SMT
  <2>7. /\ MonthDays(t.year + 1, 1) = 0
        /\ MonthDays(t.year, 12) + 31 = IF t.year % 4 = 0 THEN 366 ELSE 365
    <3>1. t.year + 1 \in Int
      BY <1>4, SMT
    <3>2. MonthDays(t.year + 1, 1) = 0
      BY <3>1, YearEnds
    <3>3. MonthDays(t.year, 12) + 31 = IF t.year % 4 = 0 THEN 366 ELSE 365
      BY <1>4, YearEnds
    <3> QED
      BY <3>2, <3>3
  <2>8. DayNumber(u) = 365 * (t.year - 1999) + (t.year - 1996) \div 4
    <3>1. t.year + 1 - 1997 = t.year - 1996 /\ t.year + 1 - 2000 = t.year - 1999
      BY <1>1
    <3> HIDE DEF u
    <3> QED
      BY <1>1, <2>2, <2>7, <3>1 DEF DayNumber
  <2>9. DayNumber(t) = 365 * (t.year - 2000) + (t.year - 1997) \div 4
                       + MonthDays(t.year, 12) + 30
    BY <1>1, <1>4, <2>5 DEF DayNumber
  <2>10. DayNumber(u) = DayNumber(t) + 1
    <3> HIDE DEF u
    <3> DEFINE q == (t.year - 1997) \div 4
    <3>1. q \in Int
      BY <1>1, SMT
    <3> QED
      BY <1>1, <1>4, <2>5, <2>6, <2>7, <2>8, <2>9, <3>1
  <2> QED
    BY <1>1, <2>1, <2>2, <2>4, <2>10
<1> QED
  BY <1>5, <1>6, <1>7

\* Hours, minutes and seconds put together again.
LEMMA Clock ==
  ASSUME NEW s \in Nat, s < 86400
  PROVE  /\ s \div 3600 \in 0 .. 23 /\ (s \div 60) % 60 \in 0 .. 59 /\ s % 60 \in 0 .. 59
         /\ 3600 * (s \div 3600) + 60 * ((s \div 60) % 60) + (s % 60) = s
<1> DEFINE m == s \div 60
<1>1. m \in Nat /\ m < 1440 /\ s % 60 \in 0 .. 59 /\ s = 60 * m + (s % 60)
  BY SMT
<1>2. s \div 3600 = m \div 60
  BY SMT
<1> HIDE DEF m
<1>3. m \div 60 \in 0 .. 23 /\ m % 60 \in 0 .. 59 /\ m = 60 * (m \div 60) + (m % 60)
  BY <1>1, SMT
<1>4. 3600 * (m \div 60) + 60 * (m % 60) = 60 * m
  BY <1>1, <1>3, SMT
<1> QED
  BY <1>1, <1>2, <1>3, <1>4 DEF m

\* Counting n seconds on adds n, over any rollover.
LEMMA AfterAdds ==
  ASSUME NEW t \in Moment, t.year < 2200, NEW n \in Nat, n <= Day
  PROVE  /\ After(t, n) \in Moment /\ After(t, n).year <= t.year + 1
         /\ n = 0 => After(t, n).year = t.year
         /\ Total(After(t, n)) = Total(t) + n
<1> DEFINE a == SecondOfDay(t) + n
           s == a % Day
           date == IF a >= Day THEN NextDay(t) ELSE t
           u == After(t, n)
<1>1. SecondOfDay(t) \in Nat /\ SecondOfDay(t) < 86400 /\ t.year \in Nat
  BY MomentFields
<1>2. /\ s \in Nat /\ s < 86400
      /\ a >= Day => s = a - 86400
      /\ ~(a >= Day) => s = a
  <2>1. a \in Nat /\ a < 172800 /\ n \in Nat
    BY <1>1 DEF Day
  <2> HIDE DEF a
  <2> QED
    BY <2>1, SMT DEF Day
<1>3. /\ date \in Moment /\ date.year <= t.year + 1
      /\ n = 0 => date.year = t.year
      /\ DayNumber(date) = DayNumber(t) + IF a >= Day THEN 1 ELSE 0
  <2>1. DayNumber(t) \in Int
    BY EpochOf
  <2>2. CASE a >= Day
    <3>1. n # 0
      BY <1>1, <2>2 DEF Day
    <3> QED
      BY <2>2, <3>1, NextDayIsOneOn
  <2>3. CASE ~(a >= Day)
    BY <1>1, <2>1, <2>3
  <2> QED
    BY <2>2, <2>3
<1>4. u = Time(date.year, date.month, date.day, s \div 3600, (s \div 60) % 60, s % 60)
  BY DEF After
<1> HIDE DEF a, s, date, u
<1>5. /\ u.year = date.year /\ u.month = date.month /\ u.day = date.day
      /\ u.hour = s \div 3600 /\ u.minute = (s \div 60) % 60 /\ u.second = s % 60
  BY <1>4 DEF Time
<1>6. /\ s \div 3600 \in 0 .. 23 /\ (s \div 60) % 60 \in 0 .. 59 /\ s % 60 \in 0 .. 59
      /\ 3600 * (s \div 3600) + 60 * ((s \div 60) % 60) + (s % 60) = s
  BY <1>2, Clock
<1>7. u \in Moment
  <2>1. /\ date.year \in 2000 .. 2200 /\ date.month \in 1 .. 12 /\ date.day \in 1 .. 31
        /\ date.day <= DaysInMonth(date.year, date.month)
    BY <1>3, MomentFields
  <2> DEFINE h == s \div 3600
             mi == (s \div 60) % 60
             sec == s % 60
  <2>2. h \in 0 .. 23 /\ mi \in 0 .. 59 /\ sec \in 0 .. 59
    BY <1>6
  <2>3. u = Time(date.year, date.month, date.day, h, mi, sec)
    BY <1>4
  <2> HIDE DEF h, mi, sec
  <2> QED
    BY <2>1, <2>2, <2>3 DEF Moment, Time
<1>8. SecondOfDay(u) = s
  BY <1>5, <1>6 DEF SecondOfDay
<1>9. DayNumber(u) = DayNumber(date)
  BY <1>5 DEF DayNumber
<1>10. /\ Total(u) = Day * DayNumber(u) + s /\ DayNumber(t) \in Int
       /\ Total(t) = Day * DayNumber(t) + SecondOfDay(t)
  <2>1. Total(u) = Day * DayNumber(u) + SecondOfDay(u)
    BY <1>7, EpochOf
  <2> QED
    BY <1>8, <2>1, EpochOf
<1>11. Total(u) = Total(t) + n
  <2> DEFINE d == DayNumber(t)
             before == SecondOfDay(t)
  <2>1. /\ DayNumber(u) = d + IF before + n >= 86400 THEN 1 ELSE 0
        /\ s = before + n - IF before + n >= 86400 THEN 86400 ELSE 0
        /\ d \in Int /\ before \in Int /\ n \in Int
    BY <1>1, <1>2, <1>3, <1>9, <1>10 DEF a, Day
  <2>2. Total(u) = 86400 * DayNumber(u) + s /\ Total(t) = 86400 * d + before
    BY <1>10 DEF Day
  <2> HIDE DEF d, before
  <2>3. CASE before + n >= 86400
    <3>1. DayNumber(u) = d + 1 /\ s = before + n - 86400
      BY <2>1, <2>3
    <3> QED
      BY <2>1, <2>2, <3>1
  <2>4. CASE ~(before + n >= 86400)
    <3>1. DayNumber(u) = d /\ s = before + n
      BY <2>1, <2>4
    <3> QED
      BY <2>1, <2>2, <3>1
  <2> QED
    BY <2>3, <2>4
<1> QED
  BY <1>3, <1>5, <1>7, <1>11 DEF u

\* Within a day, the time between two moments is the difference of their totals.
LEMMA Apart ==
  ASSUME NEW a \in Moment, NEW b \in Moment, NEW k \in Nat, k < Day
  PROVE  /\ Total(a) \in Int /\ Total(b) \in Int
         /\ DeltaSeconds(a, b) <= k <=> Total(a) - Total(b) <= k /\ Total(b) - Total(a) <= k
<1> DEFINE da == DayNumber(a)
           db == DayNumber(b)
           sa == SecondOfDay(a)
           sb == SecondOfDay(b)
<1>1. /\ da \in Int /\ Total(a) = 86400 * da + sa /\ Epoch(a).days = da /\ Epoch(a).seconds = sa
      /\ db \in Int /\ Total(b) = 86400 * db + sb /\ Epoch(b).days = db /\ Epoch(b).seconds = sb
  BY EpochOf DEF Day
<1>2. sa \in Nat /\ sa < 86400 /\ sb \in Nat /\ sb < 86400
  BY MomentFields
<1>3. DeltaSeconds(a, b) = IF Absolute(da - db) > 1 THEN 86400
                           ELSE Absolute(86400 * (da - db) + sa - sb)
  BY <1>1 DEF DeltaSeconds, Day
<1>4. k < 86400
  BY DEF Day
<1> HIDE DEF da, db, sa, sb
<1> DEFINE x == 86400 * (da - db) + sa - sb
<1>5. x \in Int /\ Total(a) - Total(b) = x /\ Total(b) - Total(a) = -x
  BY <1>1, <1>2
<1>6. \A i \in Int : Absolute(i) = IF i < 0 THEN -i ELSE i
  BY DEF Absolute
<1>7. CASE Absolute(da - db) > 1
  <2>1. da - db > 1 \/ da - db < -1
    BY <1>1, <1>6, <1>7
  <2>2. x > 86400 \/ x < -86400
    BY <1>1, <1>2, <2>1
  <2>3. DeltaSeconds(a, b) = 86400
    BY <1>3, <1>7
  <2> HIDE DEF x
  <2> QED
    BY <1>1, <1>2, <1>4, <1>5, <2>2, <2>3
<1>8. CASE ~(Absolute(da - db) > 1)
  <2>1. DeltaSeconds(a, b) = Absolute(x)
    BY <1>3, <1>8
  <2> HIDE DEF x
  <2> QED
    BY <1>1, <1>2, <1>5, <1>6, <2>1
<1> QED
  BY <1>7, <1>8

-----------------------------------------------------------------------------
(* The registers.                                                          *)

\* Registers that decode to a time the driver accepts hold a moment.
LEMMA SettableIsMoment ==
  ASSUME NEW r \in Registers, Settable(Decode(r))
  PROVE  Decode(r) \in Moment /\ Decode(r).year < 2200
<1> DEFINE t == Decode(r)
<1>1. \A x \in Nat : BcdToDec(x) \in Nat
  BY SMT DEF BcdToDec
<1>2. /\ r.second \in Nat /\ r.minute \in Nat /\ r.hour \in Nat /\ r.day \in Nat
      /\ r.month \in Nat /\ r.year \in Nat
  <2>1. /\ r.second \in 0 .. 255 /\ r.minute \in 0 .. 255 /\ r.hour \in 0 .. 255
        /\ r.day \in 0 .. 255 /\ r.month \in 0 .. 255 /\ r.year \in 0 .. 255
    BY DEF Registers
  <2>2. \A x \in 0 .. 255 : x \in Nat
    OBVIOUS
  <2> QED
    BY <2>1, <2>2, Zenon
<1>3. /\ r.second % 128 \in Nat /\ r.minute % 128 \in Nat /\ r.hour % 64 \in Nat
      /\ r.day % 64 \in Nat /\ r.month % 32 \in Nat
  BY <1>2, SMT
<1>4. t = Time(t.year, t.month, t.day, t.hour, t.minute, t.second)
  BY DEF Decode, Time
<1>5. /\ t.month = BcdToDec(r.month % 32) /\ t.day = BcdToDec(r.day % 64)
      /\ t.hour = BcdToDec(r.hour % 64) /\ t.minute = BcdToDec(r.minute % 128)
      /\ t.second = BcdToDec(r.second % 128)
  BY DEF Decode, Time
<1>6. /\ t.month \in Nat /\ t.day \in Nat /\ t.hour \in Nat /\ t.minute \in Nat /\ t.second \in Nat
  BY <1>1, <1>3, <1>5
<1> HIDE DEF t
<1>7. Settable(t)
  BY DEF t
<1>8. /\ t.month \in 1 .. 12 /\ t.year \in 2000 .. 2199
      /\ t.day \in 1 .. DaysInMonth(t.year, t.month)
      /\ t.hour \in 0 .. 23 /\ t.minute \in 0 .. 59 /\ t.second \in 0 .. 59
  BY <1>6, <1>7 DEF Settable, ValidTime, ValidDate
<1>9. DaysInMonth(t.year, t.month) \in {28, 29, 30, 31}
  BY DEF DaysInMonth
<1>10. t.year \in 2000 .. 2200 /\ t.day \in 1 .. 31 /\ t.day <= DaysInMonth(t.year, t.month)
  BY <1>6, <1>8, <1>9
<1>11. t \in Moment
  BY <1>4, <1>8, <1>10 DEF Moment, Time
<1> QED
  BY <1>8, <1>11 DEF t

\* The driver accepts a moment, to the end of 2199.
LEMMA MomentIsSettable ==
  ASSUME NEW t \in Moment, t.year < 2200
  PROVE  Settable(t) /\ Narrowed(t) = t
<1>1. /\ t.year \in 2000 .. 2199 /\ t.month \in 1 .. 12 /\ t.day \in 1 .. 31
      /\ t.hour \in 0 .. 23 /\ t.minute \in 0 .. 59 /\ t.second \in 0 .. 59
      /\ t.day <= DaysInMonth(t.year, t.month)
  BY MomentFields
<1>2. DaysInMonth(t.year, t.month) \in {28, 29, 30, 31}
  BY DEF DaysInMonth
<1>3. Settable(t)
  BY <1>1, <1>2 DEF Settable, ValidTime, ValidDate
<1>4. /\ t.year % 65536 = t.year /\ t.month % 256 = t.month /\ t.day % 256 = t.day
      /\ t.hour % 256 = t.hour /\ t.minute % 256 = t.minute /\ t.second % 256 = t.second
  BY <1>1, SMT
<1>5. Narrowed(t) = t
  BY <1>4 DEF Narrowed, Time, Moment
<1> QED
  BY <1>3, <1>5

\* Counting on leaves registers registers, and counts.
LEMMA CountedOn ==
  ASSUME NEW r \in Registers, NEW n \in Nat, n <= Day
  PROVE  /\ Counted(r, n) \in Registers
         /\ Settable(Decode(r)) /\ (Decode(r).year < 2199 \/ n = 0) =>
              /\ Decode(Counted(r, n)) \in Moment /\ Settable(Decode(Counted(r, n)))
              /\ Total(Decode(Counted(r, n))) = Total(Decode(r)) + n
<1>1. CASE ~Settable(Decode(r))
  BY <1>1 DEF Counted
<1>2. CASE Settable(Decode(r))
  <2> DEFINE t == Decode(r)
             u == After(t, n)
  <2>1. Counted(r, n) = Encode(u)
    BY <1>2 DEF Counted
  <2>2. t \in Moment /\ t.year < 2200
    BY <1>2, SettableIsMoment
  <2> HIDE DEF t
  <2>3. /\ u \in Moment /\ u.year <= t.year + 1 /\ Total(u) = Total(t) + n
        /\ n = 0 => u.year = t.year
    BY <2>2, AfterAdds
  <2> HIDE DEF u
  <2>4. Encode(u) \in Registers /\ (u.year < 2200 => Decode(Encode(u)) = u)
    BY <2>3, SetThenGet
  <2>5. t.year < 2199 \/ n = 0 => u.year < 2200
    BY <2>2, <2>3, MomentFields
  <2>6. u.year < 2200 => Settable(u)
    BY <2>3, MomentIsSettable
  <2> QED
    BY <2>1, <2>3, <2>4, <2>5, <2>6 DEF t
<1> QED
  BY <1>1, <1>2

\* A transfer cut short leaves each register old or new.
LEMMA CutFits ==
  ASSUME NEW old \in Registers, NEW new \in Registers, NEW r \in Cut(old, new)
  PROVE  r \in Registers
<1>1. PICK n \in 0 .. 6 :
        r = [f \in DOMAIN old |->
               IF \E i \in 1 .. n : Order[i] = f THEN new[f] ELSE old[f]]
  BY DEF Cut
<1>2. DOMAIN old = {"second", "minute", "hour", "day", "month", "year"}
  BY DEF Registers
<1>3. \A f \in DOMAIN old : old[f] \in 0 .. 255 /\ new[f] \in 0 .. 255
  BY <1>2 DEF Registers
<1>4. r \in [DOMAIN old -> 0 .. 255]
  BY <1>1, <1>3
<1>5. r = [second |-> r.second, minute |-> r.minute, hour |-> r.hour, day |-> r.day,
           month |-> r.month, year |-> r.year]
  BY <1>1, <1>2
<1>6. /\ r.second \in 0 .. 255 /\ r.minute \in 0 .. 255 /\ r.hour \in 0 .. 255
      /\ r.day \in 0 .. 255 /\ r.month \in 0 .. 255 /\ r.year \in 0 .. 255
  BY <1>2, <1>4
<1> QED
  BY <1>5, <1>6 DEF Registers

\* A server time whose year was cut short is refused, and is far from anything the RTC can hold.
LEMMA CutYear ==
  ASSUME NEW t \in Moment, NEW y \in {t.year \div 10, t.year \div 100}
  PROVE  /\ ~Settable(Narrowed([t EXCEPT !.year = y]))
         /\ \A m \in Moment : DeltaSeconds([t EXCEPT !.year = y], m) = Day
<1> DEFINE u == [t EXCEPT !.year = y]
<1>1. /\ t.year \in 2000 .. 2200 /\ t.month \in 1 .. 12 /\ t.day \in 1 .. 31
      /\ SecondOfDay(t) \in Nat /\ SecondOfDay(t) < 86400
  BY MomentFields
<1>2. y \in Nat /\ y <= 220
  BY <1>1, SMT
<1>3. /\ u.year = y /\ u.month = t.month /\ u.day = t.day
      /\ u.hour = t.hour /\ u.minute = t.minute /\ u.second = t.second
  BY DEF Moment
<1> HIDE DEF u
<1>4. ~Settable(Narrowed(u))
  <2>1. y % 65536 = y
    BY <1>2, SMT
  <2>2. Narrowed(u).year = y
    BY <1>3, <2>1 DEF Narrowed, Time
  <2> QED
    BY <1>2, <2>2 DEF Settable, ValidDate
<1>5. Epoch(u).days \in Int /\ Epoch(u).days < -600000
  <2>1. (u.month - 1) \div 12 = 0 /\ ((u.month - 1) % 12) + 1 = u.month
    BY <1>1, <1>3, SMT
  <2>2. SecondOfDay(t) = 3600 * u.hour + 60 * u.minute + u.second
    BY <1>3 DEF SecondOfDay
  <2>3. y + 0 = y
    BY <1>2
  <2> DEFINE s == SecondOfDay(t)
             before == MonthDays(y, t.month)
             q == (y - 1997) \div 4
             d == t.day
  <2>4. Epoch(u).days = 365 * (y - 2000) + q + before + d - 1 + s \div 86400
    BY <1>3, <2>1, <2>2, <2>3 DEF Epoch
  <2>5. before \in Nat /\ before <= 335
    <3>1. y \in Int
      BY <1>2
    <3>2. t.month \in 1 .. 12
      BY <1>1
    <3> QED
      BY <3>1, <3>2, MonthDaysType, Zenon
  <2>6. q \in Int /\ q < 0
    BY <1>2, SMT
  <2> HIDE DEF before, q, s
  <2>7. s \div 86400 = 0
    BY <1>1, SMT DEF s
  <2>8. d \in Nat /\ d <= 31
    BY <1>1
  <2> HIDE DEF d
  <2>9. Epoch(u).days = 365 * (y - 2000) + q + before + d - 1
    BY <1>2, <2>4, <2>5, <2>6, <2>7, <2>8
  <2> DEFINE e == 365 * (y - 2000) + q + before + d - 1
  <2>10. e \in Int /\ e < -600000
    BY <1>2, <2>5, <2>6, <2>8, SMT
  <2> QED
    BY <2>9, <2>10
<1>6. ASSUME NEW m \in Moment
      PROVE  DeltaSeconds(u, m) = Day
  <2>1. Epoch(m).days = DayNumber(m) /\ DayNumber(m) \in Int
    BY EpochOf
  <2>2. DayNumber(m) >= 0
    <3> DEFINE year == m.year
               before == MonthDays(m.year, m.month)
               d == m.day
               q == (year - 1997) \div 4
    <3>1. year \in Int /\ year >= 2000 /\ d \in Int /\ d >= 1
      BY MomentFields
    <3>2. before \in Nat
      BY MomentMonth
    <3>3. DayNumber(m) = 365 * (year - 2000) + q + before + d - 1
      BY DEF DayNumber
    <3> HIDE DEF year, before, d
    <3>4. q \in Int /\ q >= 0
      BY <3>1, SMT
    <3> HIDE DEF q
    <3> QED
      BY <3>1, <3>2, <3>3, <3>4
  <2>3. Absolute(Epoch(u).days - Epoch(m).days) > 1
    BY <1>5, <2>1, <2>2 DEF Absolute
  <2> QED
    BY <2>3 DEF DeltaSeconds
<1> QED
  BY <1>4, <1>6 DEF u

\* Less than a day apart, less than two years apart.
LEMMA YearsClose ==
  ASSUME NEW a \in Moment, NEW b \in Moment, Total(a) - Total(b) <= Day
  PROVE  a.year <= b.year + 1
<1> DEFINE ya == a.year
           yb == b.year
           sa == SecondOfDay(a)
           sb == SecondOfDay(b)
           ba == MonthDays(a.year, a.month)
           bb == MonthDays(b.year, b.month)
           da == a.day
           db == b.day
           qa == (ya - 1997) \div 4
           qb == (yb - 1997) \div 4
<1>1. ya \in Int /\ yb \in Int /\ da \in Int /\ da >= 1 /\ db \in Int /\ db <= 31
  BY MomentFields
<1>2. sa \in Nat /\ sb \in Nat /\ sb < 86400
  BY MomentFields
<1>3. ba \in Nat /\ bb \in Nat /\ bb <= 335
  <2>1. b.year \in 2000 .. 2200 /\ b.month \in 1 .. 12
    BY MomentFields
  <2>2. b.year \in Int
    BY <2>1
  <2>3. b.month \in 1 .. 12
    BY <2>1
  <2>4. bb <= 335
    BY <2>2, <2>3, MonthDaysType, Zenon
  <2> QED
    BY <2>4, MomentMonth
<1>4. /\ Total(a) = 86400 * DayNumber(a) + sa /\ DayNumber(a) = 365 * (ya - 2000) + qa + ba + da - 1
      /\ Total(b) = 86400 * DayNumber(b) + sb /\ DayNumber(b) = 365 * (yb - 2000) + qb + bb + db - 1
      /\ DayNumber(a) \in Int /\ DayNumber(b) \in Int
  BY EpochOf DEF DayNumber, Day
<1>5. Total(a) - Total(b) <= 86400
  BY DEF Day
<1> SUFFICES ASSUME ~(ya <= yb + 1)
             PROVE  FALSE
  OBVIOUS
<1> HIDE DEF ya, yb, sa, sb, ba, bb, da, db
<1>6. ya >= yb + 2
  BY <1>1
<1>7. qa \in Int /\ qb \in Int /\ qa >= qb
  BY <1>1, <1>6, SMT
<1> HIDE DEF qa, qb
<1>8. DayNumber(a) - DayNumber(b) >= 365
  BY <1>1, <1>3, <1>4, <1>6, <1>7
<1> QED
  BY <1>2, <1>4, <1>5, <1>8

-----------------------------------------------------------------------------
(* The clock: once compared with the server, within its doubt.             *)

Near(a, b, k) == Total(a) - Total(b) <= k /\ Total(b) - Total(a) <= k

\* The registers hold a time within k of t.
Tracks(r, t, k) == Settable(Decode(r)) /\ Near(Decode(r), t, k)

ClockInv ==
  /\ now \in Moment /\ now.year < 2199
  /\ regs \in Registers
  /\ doubt \in Nat /\ doubt <= Day
  /\ doubt < Day => Tracks(regs, now, doubt)

LEMMA TotalType == \A t \in Moment : Total(t) \in Int
<1> SUFFICES ASSUME NEW t \in Moment PROVE Total(t) \in Int
  OBVIOUS
<1>1. Total(t) = 86400 * DayNumber(t) + SecondOfDay(t) /\ DayNumber(t) \in Int
  BY EpochOf DEF Day
<1>2. SecondOfDay(t) \in Nat
  BY MomentFields
<1> QED
  BY <1>1, <1>2

\* A clock that tracks a time of this century or the next still does n seconds later, up to what
\* it gained or lost.
LEMMA KeepsTracking ==
  ASSUME NEW r \in Registers, NEW t \in Moment, t.year < 2198,
         NEW k, k \in Nat, k < Day, Tracks(r, t, k),
         NEW n, n \in Nat, n <= Day, NEW m, m \in Nat, m <= Day,
         NEW j, j \in Nat, k + m - n <= j, k + n - m <= j
  PROVE  Tracks(Counted(r, m), After(t, n), j)
<1> DEFINE u == Decode(r)
           v == Decode(Counted(r, m))
           w == After(t, n)
<1>1. u \in Moment /\ Near(u, t, k) /\ Settable(u)
  BY SettableIsMoment DEF Tracks
<1>2. Total(u) - Total(t) <= Day
  <2> HIDE DEF u
  <2>1. Total(u) \in Int /\ Total(t) \in Int
    BY <1>1, TotalType
  <2> QED
    BY <1>1, <2>1 DEF Near, Day
<1>3. u.year <= t.year + 1
  <2> HIDE DEF u
  <2> QED
    BY <1>1, <1>2, YearsClose
<1>4. u.year < 2199
  <2> HIDE DEF u
  <2>1. u.year \in 2000 .. 2200 /\ t.year \in 2000 .. 2200
    BY <1>1, MomentFields
  <2> QED
    BY <1>3, <2>1
<1>5. v \in Moment /\ Settable(v) /\ Total(v) = Total(u) + m
  BY <1>1, <1>4, CountedOn
<1>6. t.year < 2200
  <2>1. t.year \in 2000 .. 2200
    BY MomentFields
  <2> QED
    BY <2>1
<1>7. w \in Moment /\ Total(w) = Total(t) + n
  BY <1>6, AfterAdds
<1>8. Total(u) \in Int /\ Total(t) \in Int /\ Total(v) \in Int /\ Total(w) \in Int
  BY <1>1, <1>5, <1>7, TotalType
<1> HIDE DEF u, v, w
<1>9. Total(u) - Total(t) <= k /\ Total(t) - Total(u) <= k
  BY <1>1 DEF Near
<1>10. Total(v) - Total(w) <= j /\ Total(w) - Total(v) <= j
  BY <1>5, <1>7, <1>8, <1>9
<1> QED
  BY <1>5, <1>10 DEF Tracks, Near, v, w

\* The true time n seconds on, in the years explored.
LEMMA NowOn ==
  ASSUME now \in Moment, InRange, NEW n \in Nat, n <= Day
  PROVE  /\ After(now, n) \in Moment /\ After(now, n).year < 2199
         /\ Total(After(now, n)) = Total(now) + n
<1> DEFINE u == After(now, n)
<1>1. now.year \in 2000 .. 2200 /\ now.year < 2198
  BY MomentFields DEF InRange
<1>2. u \in Moment /\ u.year <= now.year + 1 /\ Total(u) = Total(now) + n
  BY <1>1, AfterAdds
<1>3. u.year \in 2000 .. 2200
  <2> HIDE DEF u
  <2> QED
    BY <1>2, MomentFields
<1> HIDE DEF u
<1>4. u.year < 2199
  BY <1>1, <1>2, <1>3
<1> QED
  BY <1>2, <1>4 DEF u

LEMMA ClockInit == Init => ClockInv
<1> SUFFICES ASSUME Init PROVE ClockInv
  OBVIOUS
<1>1. PICK t \in Starts, e \in Errors :
        \/ now = After(t, e) /\ regs = Encode(t)
        \/ now = t /\ regs = Encode(After(t, e))
        \/ now = t /\ regs \in Lost
  BY DEF Init
<1>2. t \in Moment /\ t.year \in 2000 .. 2099
  <2>1. t \in [year : 2000 .. 2099, month : 1 .. 12, day : 1 .. 31,
               hour : 0 .. 23, minute : 0 .. 59, second : 0 .. 59]
    BY ReportAssumption
  <2>2. t.day <= DaysInMonth(t.year, t.month)
    BY ReportAssumption
  <2>3. t.year \in 2000 .. 2099 /\ t.year \in 2000 .. 2200
    BY <2>1
  <2>4. t \in [year : 2000 .. 2200, month : 1 .. 12, day : 1 .. 31,
               hour : 0 .. 23, minute : 0 .. 59, second : 0 .. 59]
    BY <2>1, <2>3
  <2> QED
    BY <2>2, <2>3, <2>4 DEF Moment
<1>3. e \in Nat /\ e <= Day
  <2>1. e \in 0 .. Day
    BY ReportAssumption
  <2>2. Day \in Nat
    BY DEF Day
  <2> QED
    BY <2>1, <2>2
<1>4. t.year < 2200 /\ t.year < 2199
  BY <1>2
<1> DEFINE u == After(t, e)
<1>5. u \in Moment /\ u.year <= t.year + 1
  BY <1>2, <1>3, <1>4, AfterAdds
<1>6. u.year < 2199
  <2> HIDE DEF u
  <2>1. u.year \in 2000 .. 2200
    BY <1>5, MomentFields
  <2> QED
    BY <1>2, <1>5, <2>1
<1>7. Encode(t) \in Registers /\ Encode(u) \in Registers
  <2> HIDE DEF u
  <2> QED
    BY <1>2, <1>5, SetThenGet
<1>8. Lost \subseteq Registers
  BY ReportAssumption
<1>9. doubt = Day /\ Day \in Nat /\ ~(Day < Day)
  BY DEF Init, Day
<1> QED
  BY <1>1, <1>2, <1>4, <1>5, <1>6, <1>7, <1>8, <1>9 DEF ClockInv

\* A try of a sync, whatever is read and answered.
LEMMA CompareKeeps ==
  ASSUME ClockInv, NEW n \in Latency, Compare(n)
  PROVE  ClockInv'
<1>1. n \in Nat /\ n <= Day /\ Day \in Nat
  <2>1. n \in 0 .. Day
    BY ReportAssumption
  <2>2. Day \in Nat
    BY DEF Day
  <2> QED
    BY <2>1, <2>2
<1>2. now \in Moment /\ regs \in Registers /\ doubt \in Nat /\ doubt <= Day
  BY DEF ClockInv
<1>3. now.year < 2198 /\ now.year < 2200
  <2>1. now.year \in 2000 .. 2200 /\ now.year < 2198
    BY <1>2, MomentFields DEF Compare, InRange
  <2> QED
    BY <2>1
<1>4. now' = After(now, n) /\ InRange
  BY DEF Compare
<1>5. now' \in Moment /\ (now.year < 2199)' /\ Total(now') = Total(now) + n
  BY <1>1, <1>2, <1>4, NowOn
<1>6. PICK server \in Answers, rtc \in Readings(n) :
        IF TooFar(server, rtc)
        THEN SetTime(server, n)
        ELSE /\ regs' = Counted(regs, n)
             /\ doubt' = IF rtc # Default /\ Settable(rtc)
                         THEN Smallest(Tolerance + n, Day) ELSE Day
  BY DEF Compare
<1>7. /\ Counted(regs, n) \in Registers
      /\ Settable(Decode(Counted(regs, n))) => Decode(Counted(regs, n)) \in Moment
  <2>1. Counted(regs, n) \in Registers
    BY <1>1, <1>2, CountedOn
  <2> QED
    BY <2>1, SettableIsMoment
<1>8. server = now
      \/ \E y \in {now.year \div 10, now.year \div 100} : server = [now EXCEPT !.year = y]
  BY DEF Answers
<1>9. Settable(now) /\ Narrowed(now) = now
  BY <1>2, <1>3, MomentIsSettable
<1>10. Encode(now) \in Registers /\ Decode(Encode(now)) = now
  BY <1>2, <1>3, SetThenGet
<1>11. Total(now) \in Int /\ Total(now') \in Int
  BY <1>2, <1>5, TotalType
<1>12. CASE TooFar(server, rtc)
  <2> DEFINE new == Narrowed(server)
             old == Counted(regs, n)
  <2>1. \/ ~Settable(new) /\ regs' = old /\ doubt' = doubt
        \/ Settable(new) /\ regs' = Encode(new) /\ doubt' = n
        \/ Settable(new) /\ regs' \in Cut(old, Encode(new)) /\ doubt' = Day
    BY <1>6, <1>12 DEF SetTime
  <2>2. CASE ~Settable(new) /\ regs' = old /\ doubt' = doubt
    <3>1. doubt < Day => Tracks(regs', now', doubt)
      <4> SUFFICES ASSUME doubt < Day PROVE Tracks(regs', now', doubt)
        OBVIOUS
      <4>1. Tracks(regs, now, doubt)
        BY DEF ClockInv
      <4>2. /\ regs \in Registers /\ now \in Moment /\ now.year < 2198
            /\ doubt \in Nat /\ doubt < Day /\ n \in Nat /\ n <= Day
            /\ doubt + n - n <= doubt
        BY <1>1, <1>2, <1>3
      <4>3. Tracks(Counted(regs, n), After(now, n), doubt)
        BY <4>1, <4>2, KeepsTracking
      <4> QED
        BY <1>4, <2>2, <4>3
    <3> QED
      BY <1>2, <1>5, <1>7, <2>2, <3>1 DEF ClockInv
  <2>3. CASE Settable(new) /\ regs' = Encode(new) /\ doubt' = n
    <3>1. new = now
      BY <1>2, <1>8, <1>9, <2>3, CutYear
    <3>2. regs' \in Registers /\ Decode(regs') = now
      BY <1>10, <2>3, <3>1
    <3>3. Near(now, now', n)
      BY <1>1, <1>5, <1>11 DEF Near
    <3>4. Tracks(regs', now', n)
      BY <1>9, <3>2, <3>3 DEF Tracks
    <3> QED
      BY <1>1, <1>5, <2>3, <3>2, <3>4 DEF ClockInv
  <2>4. CASE Settable(new) /\ regs' \in Cut(old, Encode(new)) /\ doubt' = Day
    <3>1. new = now
      BY <1>2, <1>8, <1>9, <2>4, CutYear
    <3>2. regs' \in Registers
      BY <1>7, <1>10, <2>4, <3>1, CutFits
    <3>3. ~(Day < Day)
      BY <1>1
    <3> QED
      BY <1>1, <1>5, <2>4, <3>2, <3>3 DEF ClockInv
  <2> QED
    BY <2>1, <2>2, <2>3, <2>4
<1>13. CASE ~TooFar(server, rtc)
  <2>1. regs' = Counted(regs, n)
    BY <1>6, <1>13
  <2>2. CASE rtc # Default /\ Settable(rtc)
    <3>1. rtc = Decode(regs') /\ rtc \in Moment
      BY <1>7, <2>1, <2>2 DEF Readings
    <3>2. DeltaSeconds(server, rtc) <= 60
      <4>1. ~(DeltaSeconds(server, rtc) > 60)
        BY <1>13 DEF TooFar, Tolerance
      <4>2. DeltaSeconds(server, rtc) \in Int
        <5>1. CASE server = now
          <6>1. /\ Epoch(now).days \in Int /\ Epoch(now).seconds \in Int
                /\ Epoch(rtc).days \in Int /\ Epoch(rtc).seconds \in Int
            BY <1>2, <3>1, EpochOf, MomentFields
          <6> QED
            BY <5>1, <6>1 DEF DeltaSeconds, Absolute, Day
        <5>2. CASE server # now
          <6>1. PICK y \in {now.year \div 10, now.year \div 100} : server = [now EXCEPT !.year = y]
            BY <1>8, <5>2
          <6>2. DeltaSeconds(server, rtc) = Day
            BY <1>2, <3>1, <6>1, CutYear
          <6> QED
            BY <1>1, <6>2
        <5> QED
          BY <5>1, <5>2
      <4> QED
        BY <4>1, <4>2
    <3>3. server = now
      <4>1. ~(Day <= 60)
        BY DEF Day
      <4>2. SUFFICES ASSUME server # now PROVE FALSE
        OBVIOUS
      <4>3. PICK y \in {now.year \div 10, now.year \div 100} : server = [now EXCEPT !.year = y]
        BY <1>8, <4>2
      <4>4. DeltaSeconds(server, rtc) = Day
        BY <1>2, <3>1, <4>3, CutYear
      <4> QED
        BY <3>2, <4>1, <4>4
    <3>4. Total(rtc) \in Int
      BY <3>1, TotalType
    <3>5. Total(now) - Total(rtc) <= 60 /\ Total(rtc) - Total(now) <= 60
      <4>1. 60 \in Nat /\ 60 < Day
        BY DEF Day
      <4> QED
        BY <1>2, <3>1, <3>2, <3>3, <4>1, Apart
    <3>6. Near(rtc, now', 60 + n)
      BY <1>1, <1>5, <1>11, <3>4, <3>5 DEF Near
    <3>7. doubt' \in Nat /\ doubt' <= Day /\ (doubt' < Day => doubt' = 60 + n)
      BY <1>1, <1>6, <1>13, <2>2 DEF Smallest, Tolerance
    <3>8. doubt' < Day => Tracks(regs', now', doubt')
      BY <2>2, <3>1, <3>6, <3>7 DEF Tracks
    <3> QED
      BY <1>5, <1>7, <2>1, <3>7, <3>8 DEF ClockInv
  <2>3. CASE ~(rtc # Default /\ Settable(rtc))
    <3>1. doubt' = Day /\ ~(Day < Day)
      BY <1>1, <1>6, <1>13, <2>3
    <3> QED
      BY <1>1, <1>5, <1>7, <2>1, <3>1 DEF ClockInv
  <2> QED
    BY <2>2, <2>3
<1> QED
  BY <1>12, <1>13

-----------------------------------------------------------------------------
(* The log.                                                                *)

LEMMA HeldType ==
  ASSUME NEW s \in Seq(Char)
  PROVE  Held(s) \in [cells : Cells, len : 0 .. Size - 1]
<1>1. Size \in Nat /\ Size > 2 /\ Len(s) \in Nat
  BY SizeAssumption
<1>2. \A i \in 1 .. Len(s) : s[i] \in Char
  OBVIOUS
<1>3. Held(s).cells \in Cells
  <2>1. \A i \in 1 .. Size : i <= Smallest(Len(s), Size - 2) => i \in 1 .. Len(s)
    BY <1>1 DEF Smallest
  <2> QED
    BY <1>2, <2>1 DEF Held, Cells
<1>4. Held(s).len \in 0 .. Size - 1
  BY <1>1 DEF Held, Smallest
<1> QED
  BY <1>3, <1>4 DEF Held

\* A cleared buffer holds the empty text.
LEMMA ClearedHeld == Held(<< >>) = Cleared
<1>1. Size \in Nat /\ Size > 2 /\ Len(<< >>) = 0
  BY SizeAssumption
<1>2. Smallest(0, Size - 2) = 0 /\ Smallest(0, Size - 1) = 0
  BY <1>1 DEF Smallest
<1> QED
  BY <1>1, <1>2 DEF Held, Cleared

\* A buffer that holds a text, and a line after it, holds the text with the line.
LEMMA AppendHeld ==
  ASSUME NEW s \in Seq(Char), NEW line \in Seq(Char)
  PROVE  Appended(Held(s), line) = Held(s \o line)
<1> DEFINE whole == s \o line
<1>1. /\ Size \in Nat /\ Size > 2 /\ Len(s) \in Nat /\ Len(line) \in Nat
      /\ whole \in Seq(Char) /\ Len(whole) = Len(s) + Len(line)
  BY SizeAssumption
<1>2. \A i \in 1 .. Len(whole) : whole[i] = IF i <= Len(s) THEN s[i] ELSE line[i - Len(s)]
  OBVIOUS
<1>3. /\ Held(s).len = Smallest(Len(s), Size - 1)
      /\ \A i \in 1 .. Size :
           Held(s).cells[i] = IF i <= Smallest(Len(s), Size - 2) THEN s[i] ELSE "NUL"
      /\ Held(s) = [cells |-> Held(s).cells, len |-> Held(s).len]
  BY DEF Held
<1>4. CASE Len(s) >= Size - 1
  <2>1. Held(s).len >= Size - 1
    BY <1>1, <1>3, <1>4 DEF Smallest
  <2>2. Appended(Held(s), line) = Held(s)
    BY <2>1 DEF Appended
  <2>3. /\ Smallest(Len(whole), Size - 1) = Size - 1 /\ Smallest(Len(s), Size - 1) = Size - 1
        /\ Smallest(Len(whole), Size - 2) = Size - 2 /\ Smallest(Len(s), Size - 2) = Size - 2
    BY <1>1, <1>4 DEF Smallest
  <2>4. \A i \in 1 .. Size : i <= Size - 2 => whole[i] = s[i]
    BY <1>1, <1>2, <1>4
  <2> HIDE DEF whole
  <2>5. Held(whole) = Held(s)
    BY <2>3, <2>4 DEF Held
  <2> QED
    BY <2>2, <2>5 DEF whole
<1>5. CASE Len(s) < Size - 1
  <2> DEFINE len == Len(s)
             remain == Size - 1 - len
             n == Smallest(Len(line), remain)
             k == Smallest(Len(line), remain - 1)
             sub == SubSeq(line, 1, k)
             printed == Written(Held(s).cells, len, sub)
             cells == [printed EXCEPT ![len + n + 1] = "NUL"]
  <2>1. Held(s).len = len
    BY <1>1, <1>3, <1>5 DEF Smallest
  <2>2. ~(len >= Size - 1)
    BY <1>1, <1>5
  <2>3. Appended(Held(s), line) = [cells |-> cells, len |-> len + n]
    BY <2>1, <2>2 DEF Appended
  <2>4. /\ len \in Nat /\ remain \in Nat /\ remain >= 1 /\ k \in Nat /\ n \in Nat
        /\ k <= Len(line) /\ k <= remain - 1 /\ k <= n /\ n <= k + 1
        /\ len + n + 1 \in 1 .. Size
    BY <1>1, <1>5 DEF Smallest
  <2>5. Len(sub) = k /\ \A i \in 1 .. k : sub[i] = line[i]
    BY <1>1, <2>4
  <2>6. /\ Smallest(Len(whole), Size - 2) = len + k
        /\ Smallest(Len(whole), Size - 1) = len + n
    <3> HIDE DEF whole
    <3> QED
      BY <1>1, <1>5 DEF Smallest
  <2>7. Smallest(Len(s), Size - 2) = len
    BY <1>1, <1>5 DEF Smallest
  <2> HIDE DEF remain, n, k, sub, whole
  <2>8. \A i \in 1 .. Size :
          printed[i] = IF i <= len THEN s[i] ELSE IF i <= len + k THEN line[i - len] ELSE "NUL"
    <3> SUFFICES ASSUME NEW i \in 1 .. Size
                 PROVE  printed[i] = IF i <= len THEN s[i]
                                     ELSE IF i <= len + k THEN line[i - len] ELSE "NUL"
      OBVIOUS
    <3>1. printed[i] = IF i <= len THEN Held(s).cells[i]
                       ELSE IF i <= len + k THEN sub[i - len]
                       ELSE IF i = len + k + 1 THEN "NUL" ELSE Held(s).cells[i]
      BY <2>5 DEF Written
    <3>2. i <= len => Held(s).cells[i] = s[i]
      BY <1>3, <2>7
    <3>3. ~(i <= len) => Held(s).cells[i] = "NUL"
      BY <1>3, <2>7
    <3>4. ~(i <= len) /\ i <= len + k => sub[i - len] = line[i - len]
      <4>1. ~(i <= len) /\ i <= len + k => i - len \in 1 .. k
        BY <2>4
      <4> QED
        BY <2>5, <4>1
    <3> QED
      BY <3>1, <3>2, <3>3, <3>4
  <2>9. cells = [i \in 1 .. Size |-> IF i <= len + k THEN whole[i] ELSE "NUL"]
    <3>1. DOMAIN printed = 1 .. Size
      BY DEF Written
    <3>2. printed = [i \in 1 .. Size |-> printed[i]]
      BY DEF Written
    <3>3. \A i \in 1 .. Size :
            printed[i] = IF i <= len + k THEN whole[i] ELSE "NUL"
      <4> SUFFICES ASSUME NEW i \in 1 .. Size
                   PROVE  printed[i] = IF i <= len + k THEN whole[i] ELSE "NUL"
        OBVIOUS
      <4>1. i <= len + k => i \in 1 .. Len(whole)
        BY <1>1, <2>4
      <4>2. i <= len + k => whole[i] = IF i <= len THEN s[i] ELSE line[i - len]
        BY <1>2, <4>1
      <4>3. i <= len => i <= len + k
        BY <1>1, <2>4
      <4> HIDE DEF printed, len
      <4> QED
        BY <2>8, <4>2, <4>3
    <3>4. ~(len + n + 1 <= len + k)
      BY <1>1, <2>4
    <3> HIDE DEF printed, len
    <3> QED
      BY <2>4, <3>1, <3>2, <3>3, <3>4
  <2>10. Held(whole) = [cells |-> cells, len |-> len + n]
    BY <2>6, <2>9 DEF Held
  <2> QED
    BY <2>3, <2>10 DEF whole
<1> QED
  BY <1>1, <1>4, <1>5

\* The copy into the record is the buffer.
LEMMA CopyHeld ==
  ASSUME NEW s \in Seq(Char)
  PROVE  Copied(Held(s)) = Held(s)
<1> DEFINE cells == Held(s).cells
           k == Smallest(Len(s), Size - 2)
<1>1. /\ Size \in Nat /\ Size > 2 /\ Len(s) \in Nat
      /\ \A i \in 1 .. Len(s) : s[i] # "NUL"
  <2>1. \A i \in 1 .. Len(s) : s[i] \in Char
    OBVIOUS
  <2> QED
    BY <2>1, SizeAssumption DEF Char
<1>2. k \in Nat /\ k <= Len(s) /\ k <= Size - 2 /\ k \in 0 .. Size - 1 /\ k + 1 \in 1 .. Size
  BY <1>1 DEF Smallest
<1>3. cells = [i \in 1 .. Size |-> IF i <= k THEN s[i] ELSE "NUL"]
  BY DEF Held
<1> HIDE DEF cells, k
<1>4. cells[k + 1] = "NUL" /\ \A i \in 1 .. k : cells[i] = s[i] /\ cells[i] # "NUL"
  BY <1>1, <1>2, <1>3
<1>5. ASSUME NEW n \in 0 .. Size - 1, cells[n + 1] = "NUL", \A i \in 1 .. n : cells[i] # "NUL"
      PROVE  n = k
  <2>1. ~(n < k)
    <3>1. n < k => n + 1 \in 1 .. k
      BY <1>1, <1>2
    <3> QED
      BY <1>4, <1>5, <3>1
  <2>2. ~(k < n)
    <3>1. k < n => k + 1 \in 1 .. n
      BY <1>1, <1>2
    <3> QED
      BY <1>4, <1>5, <3>1
  <2> QED
    BY <1>1, <1>2, <2>1, <2>2
<1>6. TextLength(cells) = k
  <2> DEFINE P(n) == cells[n + 1] = "NUL" /\ \A i \in 1 .. n : cells[i] # "NUL"
  <2>1. P(k)
    BY <1>4
  <2>2. \A n \in 0 .. Size - 1 : P(n) => n = k
    BY <1>5
  <2>3. TextLength(cells) = CHOOSE n \in 0 .. Size - 1 : P(n)
    BY DEF TextLength
  <2> HIDE DEF P
  <2> QED
    BY <1>2, <2>1, <2>2, <2>3
<1>7. Text(cells) = [i \in 1 .. k |-> cells[i]] /\ Len(Text(cells)) = k
  <2>1. Text(cells) = [i \in 1 .. k |-> cells[i]]
    BY <1>6 DEF Text
  <2>2. DOMAIN [i \in 1 .. k |-> cells[i]] = 1 .. k /\ [i \in 1 .. k |-> cells[i]] \in Seq({cells[i] : i \in 1 .. k})
    BY <1>2
  <2> QED
    BY <1>2, <2>1, <2>2, LenProperties
<1>8. Written(Cleared.cells, 0, Text(cells)) = cells
  <2> DEFINE text1 == Text(cells)
  <2>1. Written(Cleared.cells, 0, text1) =
          [i \in 1 .. Size |-> IF i <= 0 THEN "NUL" ELSE IF i <= 0 + Len(text1) THEN text1[i - 0]
                               ELSE IF i = 0 + Len(text1) + 1 THEN "NUL" ELSE "NUL"]
    BY DEF Written, Cleared
  <2>2. Len(text1) = k /\ \A i \in 1 .. k : text1[i] = s[i]
    BY <1>4, <1>7
  <2> HIDE DEF text1
  <2>3. \A i \in 1 .. Size :
          (IF i <= 0 THEN "NUL" ELSE IF i <= 0 + Len(text1) THEN text1[i - 0]
           ELSE IF i = 0 + Len(text1) + 1 THEN "NUL" ELSE "NUL")
          = IF i <= k THEN s[i] ELSE "NUL"
    BY <1>1, <1>2, <2>2
  <2> QED
    BY <1>3, <2>1, <2>3 DEF text1
<1>9. Held(s) = [cells |-> cells, len |-> Held(s).len] /\ Smallest(Held(s).len, Size - 1) = Held(s).len
  BY <1>1 DEF Held, Smallest, cells
<1> QED
  BY <1>8, <1>9 DEF Copied, cells

-----------------------------------------------------------------------------
(* The log as the server reads it.  The packer and the reader fold over    *)
(* the text; a fold is taken a character at a time by induction on sets    *)
(* of numbers, which the least number of such a set gives.                 *)

LEMMA Induction ==
  ASSUME NEW S, 0 \in S, \A n \in Nat : n \in S => n + 1 \in S
  PROVE  Nat \subseteq S
<1> SUFFICES ASSUME NEW j \in Nat, j \notin S PROVE FALSE
  OBVIOUS
<1> DEFINE Out == {n \in Nat : n \notin S}
<1>1. IsWellFoundedOn(OpToRel(<, Nat), Nat)
  BY NatLessThanWellFounded
<1>2. PICK x \in Out : \A y \in Out : ~(<<y, x>> \in OpToRel(<, Nat))
  <2>1. Out \subseteq Nat /\ Out # {}
    OBVIOUS
  <2> HIDE DEF Out
  <2> QED
    BY <1>1, <2>1, WFMin
<1>3. x \in Nat /\ x \notin S /\ \A y \in Nat : y < x => y \in S
  BY <1>2 DEF OpToRel
<1>4. x # 0 /\ x - 1 \in Nat /\ x - 1 < x /\ (x - 1) + 1 = x
  BY <1>3
<1> QED
  BY <1>3, <1>4

\* The last of the first numbers.
LEMMA LastIs ==
  ASSUME NEW k \in Nat
  PROVE  /\ \A S \in SUBSET (1 .. k + 1) : k + 1 \in S => Max(S) = k + 1
         /\ Max(1 .. k + 1) = k + 1 /\ (1 .. k + 1) \ {k + 1} = 1 .. k
<1>1. ASSUME NEW S \in SUBSET (1 .. k + 1), k + 1 \in S PROVE Max(S) = k + 1
  <2>1. \A y \in S : y \in Nat /\ k + 1 >= y
    OBVIOUS
  <2>2. \A x \in S : (\A y \in S : x >= y) => x = k + 1
    BY <1>1, <2>1
  <2>3. \E x \in S : \A y \in S : x >= y
    BY <1>1, <2>1
  <2>4. Max(S) \in S /\ \A y \in S : Max(S) >= y
    BY <2>3 DEF Max
  <2> QED
    BY <2>2, <2>4
<1>2. k + 1 \in 1 .. k + 1 /\ (1 .. k + 1) \ {k + 1} = 1 .. k
  OBVIOUS
<1> QED
  BY <1>1, <1>2

\* A reader before the first character.
Fresh == [text |-> <<>>, escape |-> FALSE, valid |-> TRUE]

\* What was read of each part of a text of k characters.
ReadsParts(g, s, k) ==
  g = [S \in SUBSET (1 .. k) |-> IF S = {} THEN Fresh ELSE ReadChar(g[S \ {Max(S)}], s[Max(S)])]

LEMMA PartsAreRead == ASSUME NEW s, NEW k \in Nat PROVE \E g : ReadsParts(g, s, k)
<1> DEFINE K == {n \in Nat : \E g : ReadsParts(g, s, n)}
<1>1. 0 \in K
  <2> DEFINE g == [S \in SUBSET (1 .. 0) |-> Fresh]
  <2>1. ReadsParts(g, s, 0)
    <3>1. \A S \in SUBSET (1 .. 0) : S = {}
      OBVIOUS
    <3>2. g = [S \in SUBSET (1 .. 0) |->
                 IF S = {} THEN Fresh ELSE ReadChar(g[S \ {Max(S)}], s[Max(S)])]
      BY <3>1
    <3> QED
      BY <3>2 DEF ReadsParts
  <2> QED
    BY <2>1
<1>2. ASSUME NEW n \in Nat, n \in K PROVE n + 1 \in K
  <2>1. PICK g : ReadsParts(g, s, n)
    BY <1>2
  <2> DEFINE h == [S \in SUBSET (1 .. n + 1) |->
                     IF n + 1 \in S THEN ReadChar(g[S \ {n + 1}], s[n + 1]) ELSE g[S]]
             R(S) == IF S = {} THEN Fresh ELSE ReadChar(h[S \ {Max(S)}], s[Max(S)])
  <2>2. ASSUME NEW S \in SUBSET (1 .. n + 1) PROVE h[S] = R(S)
    <3>1. CASE n + 1 \in S
      <4>1. S \ {n + 1} \in SUBSET (1 .. n + 1) /\ n + 1 \notin S \ {n + 1}
        OBVIOUS
      <4>2. h[S \ {n + 1}] = g[S \ {n + 1}]
        BY <4>1
      <4>3. Max(S) = n + 1
        BY <3>1, LastIs
      <4> QED
        BY <3>1, <4>2, <4>3
    <3>2. CASE n + 1 \notin S
      <4>1. S \in SUBSET (1 .. n)
        BY <3>2
      <4>2. h[S] = IF S = {} THEN Fresh ELSE ReadChar(g[S \ {Max(S)}], s[Max(S)])
        BY <2>1, <3>2, <4>1 DEF ReadsParts
      <4>3. h[S \ {Max(S)}] = g[S \ {Max(S)}]
        BY <3>2
      <4> QED
        BY <4>2, <4>3
    <3> QED
      BY <3>1, <3>2
  <2>3. h = [S \in SUBSET (1 .. n + 1) |-> h[S]]
    OBVIOUS
  <2> HIDE DEF h
  <2>4. ReadsParts(h, s, n + 1)
    BY <2>2, <2>3 DEF ReadsParts
  <2> QED
    BY <2>4
<1> HIDE DEF K
<1>3. Nat \subseteq K
  BY <1>1, <1>2, Induction
<1> QED
  BY <1>3 DEF K

\* What a reader has of a text is what it has of its last part, the whole.
LEMMA UnpackedIs ==
  ASSUME NEW s, NEW k \in Nat, DOMAIN s = 1 .. k
  PROVE  \E g : ReadsParts(g, s, k) /\ Unpacked(s) = g[1 .. k]
<1> DEFINE g == CHOOSE h : ReadsParts(h, s, k)
<1>1. ReadsParts(g, s, k)
  BY PartsAreRead
<1>2. Unpacked(s) = g[1 .. k]
  BY DEF Unpacked, FoldLeft, MapThenFoldSet, ReadsParts, Fresh
<1> QED
  BY <1>1, <1>2

\* Texts that begin alike are read alike so far.
LEMMA ReadAlike ==
  ASSUME NEW s, NEW t, NEW m \in Nat, NEW n \in Nat, m <= n, \A i \in 1 .. m : s[i] = t[i],
         NEW g, NEW h, ReadsParts(g, s, m), ReadsParts(h, t, n)
  PROVE  g[1 .. m] = h[1 .. m]
<1> DEFINE K == {k \in Nat : k <= m => g[1 .. k] = h[1 .. k]}
<1>1. 0 \in K
  <2>1. 1 .. 0 = {} /\ {} \in SUBSET (1 .. m) /\ {} \in SUBSET (1 .. n)
    OBVIOUS
  <2>2. g[{}] = Fresh /\ h[{}] = Fresh
    BY <2>1 DEF ReadsParts
  <2> QED
    BY <2>1, <2>2
<1>2. ASSUME NEW k \in Nat, k \in K PROVE k + 1 \in K
  <2> SUFFICES ASSUME k + 1 <= m PROVE g[1 .. k + 1] = h[1 .. k + 1]
    OBVIOUS
  <2> DEFINE U == 1 .. k + 1
  <2>1. U \in SUBSET (1 .. m) /\ U \in SUBSET (1 .. n) /\ U # {}
    OBVIOUS
  <2>2. Max(U) = k + 1 /\ U \ {k + 1} = 1 .. k
    BY LastIs
  <2> HIDE DEF U
  <2>3. g[1 .. k] = h[1 .. k] /\ s[k + 1] = t[k + 1]
    BY <1>2
  <2>4. g[U] = ReadChar(g[U \ {Max(U)}], s[Max(U)])
    BY <2>1 DEF ReadsParts
  <2>5. h[U] = ReadChar(h[U \ {Max(U)}], t[Max(U)])
    BY <2>1 DEF ReadsParts
  <2> QED
    BY <2>2, <2>3, <2>4, <2>5 DEF U
<1> HIDE DEF K
<1>3. Nat \subseteq K
  BY <1>1, <1>2, Induction
<1> QED
  BY <1>3 DEF K

\* An empty text leaves the reader as it was; one more character is read after the others.
LEMMA ReadNothing == Unpacked(<<>>) = Fresh
<1>1. DOMAIN <<>> = 1 .. 0 /\ 0 \in Nat /\ 1 .. 0 = {}
  OBVIOUS
<1>2. PICK g : ReadsParts(g, <<>>, 0) /\ Unpacked(<<>>) = g[1 .. 0]
  BY <1>1, UnpackedIs
<1>3. {} \in SUBSET (1 .. 0)
  OBVIOUS
<1> QED
  BY <1>1, <1>2, <1>3 DEF ReadsParts

LEMMA ReadOneMore ==
  ASSUME NEW T, NEW s \in Seq(T), NEW c \in T
  PROVE  Unpacked(Append(s, c)) = ReadChar(Unpacked(s), c)
<1> DEFINE n == Len(s)
           t == Append(s, c)
<1>1. /\ n \in Nat /\ DOMAIN s = 1 .. n /\ DOMAIN t = 1 .. n + 1
      /\ t[n + 1] = c /\ \A i \in 1 .. n : s[i] = t[i]
  BY LenProperties, AppendProperties
<1> HIDE DEF n, t
<1>2. PICK g : ReadsParts(g, s, n) /\ Unpacked(s) = g[1 .. n]
  BY <1>1, UnpackedIs
<1>3. PICK h : ReadsParts(h, t, n + 1) /\ Unpacked(t) = h[1 .. n + 1]
  BY <1>1, UnpackedIs
<1>4. g[1 .. n] = h[1 .. n]
  <2>1. n <= n + 1 /\ n + 1 \in Nat
    BY <1>1
  <2> QED
    BY <1>1, <1>2, <1>3, <2>1, ReadAlike
<1>5. h[1 .. n + 1] = ReadChar(h[1 .. n], t[n + 1])
  <2> DEFINE U == 1 .. n + 1
  <2>1. Max(U) = n + 1 /\ U \ {n + 1} = 1 .. n
    BY <1>1, LastIs
  <2>2. n + 1 \in U /\ U \in SUBSET (1 .. n + 1)
    BY <1>1
  <2> HIDE DEF U
  <2>3. h[U] = ReadChar(h[1 .. n], t[n + 1])
    BY <1>3, <2>1, <2>2 DEF ReadsParts
  <2> QED
    BY <2>3 DEF U
<1> QED
  BY <1>1, <1>2, <1>3, <1>4, <1>5 DEF t

\* What the packer has written after each character.
Writes(f, ss, n) == f = [i \in 1 .. n |-> IF i = 1 THEN ss[i] ELSE f[i - 1] \o ss[i]]

LEMMA PiecesAreWritten == ASSUME NEW ss, NEW n \in Nat PROVE \E f : Writes(f, ss, n)
<1> DEFINE K == {m \in Nat : \E f : Writes(f, ss, m)}
<1>1. 0 \in K
  <2> DEFINE f == [i \in 1 .. 0 |-> ss[i]]
  <2>1. f = [i \in 1 .. 0 |-> IF i = 1 THEN ss[i] ELSE f[i - 1] \o ss[i]]
    OBVIOUS
  <2> HIDE DEF f
  <2>2. Writes(f, ss, 0)
    BY <2>1 DEF Writes
  <2> QED
    BY <2>2
<1>2. ASSUME NEW m \in Nat, m \in K PROVE m + 1 \in K
  <2>1. PICK f : Writes(f, ss, m)
    BY <1>2
  <2> DEFINE h == [i \in 1 .. m + 1 |->
                     IF i = m + 1 THEN IF i = 1 THEN ss[i] ELSE f[m] \o ss[i] ELSE f[i]]
             R(i) == IF i = 1 THEN ss[i] ELSE h[i - 1] \o ss[i]
  <2>2. ASSUME NEW i \in 1 .. m + 1 PROVE h[i] = R(i)
    <3>1. CASE i = m + 1
      <4>1. i # 1 => m \in 1 .. m + 1 /\ m # m + 1 /\ i - 1 = m
        BY <3>1
      <4>2. i # 1 => h[i - 1] = f[m]
        BY <4>1
      <4> QED
        BY <3>1, <4>2
    <3>2. CASE i # m + 1
      <4>1. i \in 1 .. m /\ (i # 1 => i - 1 \in 1 .. m + 1 /\ i - 1 # m + 1)
        BY <3>2
      <4>2. h[i] = f[i] /\ f[i] = IF i = 1 THEN ss[i] ELSE f[i - 1] \o ss[i]
        BY <2>1, <3>2, <4>1 DEF Writes
      <4>3. i # 1 => h[i - 1] = f[i - 1]
        BY <4>1
      <4> QED
        BY <4>2, <4>3
    <3> QED
      BY <3>1, <3>2
  <2>3. h = [i \in 1 .. m + 1 |-> h[i]]
    OBVIOUS
  <2> HIDE DEF h
  <2>4. Writes(h, ss, m + 1)
    BY <2>2, <2>3 DEF Writes
  <2> QED
    BY <2>4
<1> HIDE DEF K
<1>3. Nat \subseteq K
  BY <1>1, <1>2, Induction
<1> QED
  BY <1>3 DEF K

\* A string of JSON is what the packer has written after the last character.
LEMMA PackedIs ==
  ASSUME NEW r, r.len \in Nat \ {0}
  PROVE  \E f : /\ Packed(r) = f[r.len]
                /\ \A i \in 1 .. r.len :
                     f[i] = IF i = 1 THEN Escaped(r.cells[i]) ELSE f[i - 1] \o Escaped(r.cells[i])
<1> DEFINE ss == [i \in 1 .. r.len |-> Escaped(r.cells[i])]
           f == CHOOSE h : Writes(h, ss, r.len)
<1>1. Writes(f, ss, r.len)
  BY PiecesAreWritten
<1>2. Len(ss) = r.len /\ \A i \in 1 .. r.len : ss[i] = Escaped(r.cells[i])
  OBVIOUS
<1> HIDE DEF ss
<1>3. Packed(r) = f[r.len]
  <2>1. Packed(r) = FlattenSeq(ss)
    BY DEF Packed, ss
  <2> QED
    BY <1>2, <2>1 DEF FlattenSeq, Writes
<1> HIDE DEF f
<1>4. ASSUME NEW i \in 1 .. r.len
      PROVE  f[i] = IF i = 1 THEN Escaped(r.cells[i]) ELSE f[i - 1] \o Escaped(r.cells[i])
  <2>1. f[i] = IF i = 1 THEN ss[i] ELSE f[i - 1] \o ss[i]
    BY <1>1 DEF Writes
  <2> QED
    BY <1>2, <2>1
<1> QED
  BY <1>3, <1>4

\* The characters of a buffer, and what a reader should have of its first k.
Cell == Char \cup {"NUL"}

\* What may stand in a string of JSON once it is escaped.
Plain(c) == c \notin {"NUL", "control"}

Read(cells, k) ==
  [text |-> [i \in 1 .. k |-> cells[i]], escape |-> FALSE,
   valid |-> \A i \in 1 .. k : Plain(cells[i])]

\* A character is read as it was before it was escaped.
LEMMA ReadEscaped ==
  ASSUME NEW s \in Seq(Cell), NEW c \in Cell, NEW t \in Seq(Cell), NEW v \in BOOLEAN,
         Unpacked(s) = [text |-> t, escape |-> FALSE, valid |-> v]
  PROVE  /\ s \o Escaped(c) \in Seq(Cell)
         /\ Unpacked(s \o Escaped(c)) =
              [text |-> Append(t, c), escape |-> FALSE, valid |-> v /\ Plain(c)]
<1> DEFINE u == [text |-> t, escape |-> FALSE, valid |-> v]
<1> USE DEF Plain
<1>1. CASE c \in {"n", "NUL", "control"}
  <2>1. Escaped(c) = <<c>> /\ s \o <<c>> = Append(s, c)
    BY <1>1 DEF Escaped
  <2>2. ReadChar(u, c) = [text |-> Append(t, c), escape |-> FALSE, valid |-> v /\ Plain(c)]
    BY <1>1 DEF ReadChar
  <2>3. Unpacked(Append(s, c)) = ReadChar(Unpacked(s), c) /\ Append(s, c) \in Seq(Cell)
    BY ReadOneMore, AppendProperties
  <2> QED
    BY <2>1, <2>2, <2>3
<1>2. CASE c \notin {"n", "NUL", "control"}
  <2> DEFINE e == IF c = "newline" THEN "n" ELSE c
  <2>1. /\ Escaped(c) = <<"backslash", e>> /\ "backslash" \in Cell /\ e \in Cell
        /\ c \in {"quote", "backslash", "newline"}
    BY <1>2 DEF Escaped, Cell, Char
  <2>2. s \o <<"backslash", e>> = Append(Append(s, "backslash"), e)
    BY <2>1
  <2>3. ReadChar(u, "backslash") = [u EXCEPT !.escape = TRUE]
    BY DEF ReadChar
  <2>4. ReadChar([u EXCEPT !.escape = TRUE], e) =
          [text |-> Append(t, c), escape |-> FALSE, valid |-> v /\ Plain(c)]
    BY <2>1 DEF ReadChar
  <2>5. Append(s, "backslash") \in Seq(Cell)
    BY <2>1
  <2>6. Unpacked(Append(s, "backslash")) = [u EXCEPT !.escape = TRUE]
    <3>1. Unpacked(Append(s, "backslash")) = ReadChar(Unpacked(s), "backslash")
      BY <2>1, ReadOneMore
    <3> QED
      BY <2>3, <3>1
  <2>7. Unpacked(Append(Append(s, "backslash"), e)) = ReadChar([u EXCEPT !.escape = TRUE], e)
    <3> DEFINE q == Append(s, "backslash")
    <3>1. q \in Seq(Cell) /\ e \in Cell
      BY <2>1, <2>5
    <3> HIDE DEF q, e
    <3>2. Unpacked(Append(q, e)) = ReadChar(Unpacked(q), e)
      BY <3>1, ReadOneMore
    <3> QED
      BY <2>6, <3>2 DEF q
  <2> HIDE DEF e
  <2>8. Append(Append(s, "backslash"), e) \in Seq(Cell)
    BY <2>1, <2>5
  <2> QED
    BY <2>1, <2>2, <2>4, <2>7, <2>8
<1> QED
  BY <1>1, <1>2

\* Whatever a buffer holds, the packed string is read as just that; it is valid if there is no
\* NUL and no control character but the ends of lines in it.
THEOREM PackedIsReadBack ==
  \A held \in [cells : Cells, len : 0 .. Size - 1] :
    Unpacked(Packed(held)) = Read(held.cells, held.len)
<1> SUFFICES ASSUME NEW held \in [cells : Cells, len : 0 .. Size - 1]
             PROVE  Unpacked(Packed(held)) = Read(held.cells, held.len)
  OBVIOUS
<1> DEFINE n == held.len
           c == held.cells
           Done(k, s) == s \in Seq(Cell) /\ Unpacked(s) = Read(c, k)
<1>1. Size \in Nat /\ n \in Nat /\ n < Size /\ \A i \in 1 .. n : c[i] \in Cell
  BY SizeAssumption DEF Cells, Cell
<1> HIDE DEF n, c
<1>2. Done(0, <<>>)
  <2>1. Read(c, 0) = Fresh
    <3>1. [i \in 1 .. 0 |-> c[i]] = <<>> /\ \A i \in 1 .. 0 : Plain(c[i])
      OBVIOUS
    <3> QED
      BY <3>1 DEF Read, Fresh
  <2> QED
    BY <2>1, ReadNothing
<1>3. ASSUME NEW k \in Nat, k < n, NEW s, Done(k, s) PROVE Done(k + 1, s \o Escaped(c[k + 1]))
  <2> DEFINE t == [i \in 1 .. k |-> c[i]]
             v == \A i \in 1 .. k : Plain(c[i])
             d == c[k + 1]
  <2>1. k + 1 \in 1 .. n /\ d \in Cell
    BY <1>1, <1>3
  <2>2. t \in Seq(Cell) /\ v \in BOOLEAN
    <3>1. \A i \in 1 .. k : c[i] \in Cell
      BY <1>1, <1>3
    <3> QED
      BY <3>1
  <2>3. Unpacked(s) = [text |-> t, escape |-> FALSE, valid |-> v] /\ s \in Seq(Cell)
    BY <1>3 DEF Read
  <2>4. Append(t, d) = [i \in 1 .. k + 1 |-> c[i]]
    OBVIOUS
  <2>5. (v /\ Plain(d)) <=> \A i \in 1 .. k + 1 : Plain(c[i])
    <3>1. \A i \in 1 .. k + 1 : i \in 1 .. k \/ i = k + 1
      OBVIOUS
    <3>2. k + 1 \in 1 .. k + 1 /\ \A i \in 1 .. k : i \in 1 .. k + 1
      OBVIOUS
    <3> QED
      BY <3>1, <3>2, Zenon
  <2> HIDE DEF t, v, d
  <2>6. /\ s \o Escaped(d) \in Seq(Cell)
        /\ Unpacked(s \o Escaped(d)) =
             [text |-> Append(t, d), escape |-> FALSE, valid |-> v /\ Plain(d)]
    BY <2>1, <2>2, <2>3, ReadEscaped
  <2>7. (v /\ Plain(d)) = \A i \in 1 .. k + 1 : Plain(c[i])
    BY <2>2, <2>5
  <2> QED
    BY <2>4, <2>6, <2>7 DEF Read, d
<1> HIDE DEF Done
<1>4. CASE n = 0
  <2>1. Packed(held) = <<>>
    <3>1. Len([i \in 1 .. 0 |-> Escaped(held.cells[i])]) = 0
          /\ [i \in 1 .. 0 |-> Escaped(held.cells[i])] = <<>>
      OBVIOUS
    <3> QED
      BY <1>4, <3>1 DEF Packed, FlattenSeq, n
  <2> QED
    BY <1>2, <1>4, <2>1 DEF Done, n, c
<1>5. CASE n # 0
  <2>1. PICK f : /\ Packed(held) = f[n]
                 /\ \A i \in 1 .. n :
                      f[i] = IF i = 1 THEN Escaped(c[i]) ELSE f[i - 1] \o Escaped(c[i])
    BY <1>1, <1>5, PackedIs DEF n, c
  <2> DEFINE K == {k \in Nat : k < n => Done(k + 1, f[k + 1])}
  <2>2. 0 \in K
    <3>1. 1 \in 1 .. n /\ 0 + 1 = 1
      BY <1>1, <1>5
    <3>2. f[1] = Escaped(c[1]) /\ c[1] \in Cell
      BY <1>1, <2>1, <3>1
    <3>3. <<>> \o Escaped(c[1]) = Escaped(c[1])
      BY <3>2 DEF Escaped, Cell, Char
    <3>4. Done(0 + 1, <<>> \o Escaped(c[0 + 1]))
      <4>1. 0 \in Nat /\ 0 < n
        BY <1>1, <1>5
      <4> QED
        BY <1>2, <1>3, <4>1, Zenon
    <3> QED
      BY <3>1, <3>2, <3>3, <3>4
  <2>3. ASSUME NEW k \in Nat, k \in K PROVE k + 1 \in K
    <3> SUFFICES ASSUME k + 1 < n PROVE Done((k + 1) + 1, f[(k + 1) + 1])
      OBVIOUS
    <3>1. k < n /\ (k + 1) + 1 \in 1 .. n /\ (k + 1) + 1 # 1 /\ ((k + 1) + 1) - 1 = k + 1
      BY <1>1
    <3>2. f[(k + 1) + 1] = f[k + 1] \o Escaped(c[(k + 1) + 1])
      BY <2>1, <3>1
    <3>3. Done(k + 1, f[k + 1])
      BY <2>3, <3>1
    <3> QED
      BY <1>3, <3>2, <3>3
  <2> HIDE DEF K
  <2>4. n - 1 \in Nat /\ n - 1 \in K
    <3>1. Nat \subseteq K
      BY <2>2, <2>3, Induction
    <3> QED
      BY <1>1, <1>5, <3>1
  <2>5. Done(n, f[n])
    <3>1. n - 1 < n /\ (n - 1) + 1 = n
      BY <1>1
    <3> QED
      BY <2>4, <3>1 DEF K
  <2> QED
    BY <2>1, <2>5 DEF Done, n, c
<1> QED
  BY <1>4, <1>5

-----------------------------------------------------------------------------
(* The invariant.                                                          *)

LogInv ==
  /\ phase \in {"diagnose", "measure", "log", "sync", "send", "sleep"}
  /\ cycle \in Nat /\ rounds \in 0 .. Rounds
  /\ said \in Seq(Char)
  /\ log = Held(said)
  /\ record \in [cells : Cells, len : 0 .. Size - 1]
  /\ RecordHoldsLog

IInv == LogInv /\ ClockInv /\ StampsTrue

LEMMA LogInit == Init => LogInv
<1> SUFFICES ASSUME Init PROVE LogInv
  OBVIOUS
<1>1. << >> \in Seq(Char) /\ Held(<< >>) = Cleared
  BY ClearedHeld
<1>2. Copied(Cleared) \in [cells : Cells, len : 0 .. Size - 1]
  BY <1>1, HeldType, CopyHeld
<1>3. 0 \in 0 .. Rounds
  BY ReportAssumption
<1> QED
  BY <1>1, <1>2, <1>3 DEF Init, LogInv, RecordHoldsLog

LEMMA LogNext == LogInv /\ [Next]_vars => LogInv'
<1> SUFFICES ASSUME LogInv, [Next]_vars PROVE LogInv'
  OBVIOUS
<1> USE DEF LogInv
<1>1. CASE DiagnosticSync \/ DiagnosticEnds
  BY <1>1, ReportAssumption DEF DiagnosticSync, DiagnosticEnds, text, RecordHoldsLog
<1>2. CASE TimeSync
  BY <1>2 DEF TimeSync, text, RecordHoldsLog
<1>3. CASE Stamp
  BY <1>3 DEF Stamp, text, RecordHoldsLog
<1>4. ASSUME NEW line \in Lines, AppendLine(line)
      PROVE  LogInv'
  <2>1. line \in Seq(Char)
    BY ReportAssumption
  <2>2. said' = said \o line /\ log' = Appended(log, line) /\ said' \in Seq(Char)
    BY <1>4, <2>1 DEF AppendLine
  <2>3. log' = Held(said')
    BY <2>1, <2>2, AppendHeld
  <2> QED
    BY <1>4, <2>2, <2>3 DEF AppendLine, RecordHoldsLog
<1>5. CASE PublishLog
  <2>1. Held(said) \in [cells : Cells, len : 0 .. Size - 1] /\ Copied(log) = Held(said)
    BY HeldType, CopyHeld
  <2>2. /\ record' = Held(said) /\ said' = said /\ log' = log
        /\ phase' = "sync" /\ cycle' = cycle /\ rounds' = rounds
    BY <1>5, <2>1 DEF PublishLog
  <2> QED
    BY <2>1, <2>2 DEF RecordHoldsLog, Held
<1>6. CASE Send
  BY <1>6 DEF Send, RecordHoldsLog, Held
<1>7. CASE Sleep \/ PowerFails
  <2>1. << >> \in Seq(Char) /\ Held(<< >>) = Cleared
    BY ClearedHeld
  <2>2. Copied(Cleared) \in [cells : Cells, len : 0 .. Size - 1]
    BY <2>1, HeldType, CopyHeld
  <2>3. /\ log' = Cleared /\ said' = << >> /\ record' = Copied(Cleared)
        /\ phase' \in {"measure", "diagnose"} /\ cycle' \in Nat /\ rounds' = rounds
    BY <1>7 DEF Sleep, PowerFails, Asleep
  <2> QED
    BY <2>1, <2>2, <2>3 DEF RecordHoldsLog
<1>8. CASE UNCHANGED vars
  BY <1>8 DEF vars, text, RecordHoldsLog, Held
<1> QED
  BY <1>1, <1>2, <1>3, <1>4, <1>5, <1>6, <1>7, <1>8 DEF Next, Finished

\* The RTC and the world count on alike.
LEMMA NoAnswerKeeps ==
  ASSUME ClockInv, NoAnswer
  PROVE  ClockInv'
<1> DEFINE n == RoundSeconds
<1>1. n \in Nat /\ n <= Day /\ Day \in Nat
  BY DEF RoundSeconds, Day
<1>2. InRange /\ now' = After(now, n) /\ regs' = Counted(regs, n) /\ doubt' = doubt
  BY DEF NoAnswer
<1> HIDE DEF n
<1>3. now \in Moment /\ regs \in Registers /\ doubt \in Nat /\ doubt <= Day
  BY DEF ClockInv
<1>4. now' \in Moment /\ (now.year < 2199)'
  BY <1>1, <1>2, <1>3, NowOn
<1>5. regs' \in Registers
  BY <1>1, <1>2, <1>3, CountedOn
<1>6. ASSUME doubt < Day
      PROVE  Tracks(regs', now', doubt)
  <2>1. Tracks(regs, now, doubt) /\ now.year < 2198 /\ doubt + n - n <= doubt
    BY <1>1, <1>2, <1>3, <1>6 DEF ClockInv, InRange
  <2> QED
    BY <1>1, <1>2, <1>3, <1>6, <2>1, KeepsTracking
<1> QED
  BY <1>2, <1>3, <1>4, <1>5, <1>6 DEF ClockInv

LEMMA ClockNext == ClockInv /\ [Next]_vars => ClockInv'
<1> SUFFICES ASSUME ClockInv, [Next]_vars PROVE ClockInv'
  OBVIOUS
<1>1. CASE UNCHANGED clock
  BY <1>1 DEF clock, ClockInv
<1>2. CASE (\E n \in Latency : Compare(n)) \/ NoAnswer
  BY <1>2, CompareKeeps, NoAnswerKeeps
<1>3. CASE Asleep /\ (Sleep \/ PowerFails)
  <2> DEFINE n == CycleSeconds
  <2>1. n \in Nat /\ n <= Day /\ Day \in Nat /\ Drift \in Nat /\ Drift <= n /\ n + Drift <= Day
    <3>1. n \in Nat /\ Drift \in Nat /\ Drift <= n /\ n + Drift <= Day
      BY ReportAssumption
    <3>2. Day \in Nat
      BY DEF Day
    <3> QED
      BY <3>1, <3>2
  <2>2. InRange /\ now' = After(now, n)
    BY <1>3 DEF Asleep, Sleep, PowerFails
  <2>3. now \in Moment /\ regs \in Registers /\ doubt \in Nat /\ doubt <= Day
    BY DEF ClockInv
  <2>4. now' \in Moment /\ (now.year < 2199)'
    BY <2>1, <2>2, <2>3, NowOn
  <2>5. CASE PowerFails
    <3>1. regs' \in Registers /\ doubt' = Day /\ ~(Day < Day)
      BY <2>1, <2>5, ReportAssumption DEF PowerFails
    <3> QED
      BY <2>1, <2>4, <3>1 DEF ClockInv
  <2>6. CASE Sleep
    <3>1. PICK m \in {n - Drift, n + Drift} : regs' = Counted(regs, m)
      BY <2>6 DEF Sleep
    <3>2. m \in Nat /\ m <= Day /\ m - n <= Drift /\ n - m <= Drift
      BY <2>1, <3>1
    <3>3. regs' \in Registers
      BY <2>3, <3>1, <3>2, CountedOn
    <3>4. doubt' = Smallest(doubt + Drift, Day)
      BY <2>6 DEF Sleep
    <3>5. /\ doubt' \in Nat /\ doubt' <= Day
          /\ doubt' < Day => doubt < Day /\ doubt + m - n <= doubt' /\ doubt + n - m <= doubt'
      BY <2>1, <2>3, <3>2, <3>4 DEF Smallest
    <3>6. ASSUME doubt' < Day
          PROVE  Tracks(regs', now', doubt')
      <4>1. doubt < Day /\ Tracks(regs, now, doubt) /\ now.year < 2198
        BY <2>2, <3>5, <3>6 DEF ClockInv, InRange
      <4>2. Tracks(Counted(regs, m), After(now, n), doubt')
        BY <2>1, <2>3, <3>2, <3>5, <3>6, <4>1, KeepsTracking
      <4> QED
        BY <2>2, <3>1, <4>2
    <3> QED
      BY <2>4, <3>3, <3>5, <3>6 DEF ClockInv
  <2> QED
    BY <1>3, <2>5, <2>6
<1> QED
  BY <1>1, <1>2, <1>3 DEF Next, Finished, vars, DiagnosticSync, DiagnosticEnds, TimeSync, Stamp, AppendLine,
                          PublishLog, Send, Sleep, PowerFails

LEMMA StampNext == ClockInv /\ StampsTrue /\ [Next]_vars => StampsTrue'
<1> SUFFICES ASSUME ClockInv, StampsTrue, [Next]_vars PROVE StampsTrue'
  OBVIOUS
<1>1. CASE Stamp
  <2> SUFFICES ASSUME doubt < Day, stamp' # Default
               PROVE  DeltaSeconds(stamp', now) <= doubt
    BY <1>1 DEF Stamp, clock, StampsTrue
  <2>1. /\ now \in Moment /\ regs \in Registers /\ doubt \in Nat
        /\ Settable(Decode(regs)) /\ Near(Decode(regs), now, doubt)
    BY DEF ClockInv, Tracks
  <2>2. stamp' = Decode(Counted(regs, 0))
    BY <1>1 DEF Stamp, Readings
  <2> DEFINE t == Decode(regs)
  <2>3. t \in Moment
    BY <2>1, SettableIsMoment
  <2>4. stamp' \in Moment /\ Total(stamp') = Total(t)
    <3>1. 0 \in Nat /\ 0 <= Day
      BY DEF Day
    <3>2. stamp' \in Moment /\ Total(stamp') = Total(t) + 0
      BY <2>1, <2>2, <3>1, CountedOn
    <3>3. Total(t) \in Int
      BY <2>3, TotalType
    <3> QED
      BY <3>2, <3>3
  <2>5. Total(stamp') - Total(now) <= doubt /\ Total(now) - Total(stamp') <= doubt
    BY <2>1, <2>4 DEF Near
  <2> QED
    BY <2>1, <2>4, <2>5, Apart
<1>2. CASE phase' # "log"
  BY <1>2 DEF StampsTrue
<1>3. CASE UNCHANGED <<phase, clock, stamp>>
  BY <1>3 DEF clock, StampsTrue
<1> QED
  BY <1>1, <1>2, <1>3 DEF Next, Finished, vars, DiagnosticSync, DiagnosticEnds, TimeSync, AppendLine,
                          PublishLog, Send, Sleep, PowerFails

LEMMA Invariant == Spec => []IInv
<1>1. Init => IInv
  BY LogInit, ClockInit DEF IInv, Init, StampsTrue
<1>2. IInv /\ [Next]_vars => IInv'
  BY LogNext, ClockNext, StampNext DEF IInv
<1> QED
  BY <1>1, <1>2, PTL DEF Spec

\* Registers stay bytes, whatever is set, cut short or counted, and no length passes its buffer.
THEOREM TypeCorrect == Spec => []TypeOK
<1>1. IInv => TypeOK
  <2> SUFFICES ASSUME IInv PROVE TypeOK
    OBVIOUS
  <2>1. log \in [cells : Cells, len : 0 .. Size - 1]
    BY HeldType DEF IInv, LogInv
  <2> QED
    BY <2>1 DEF IInv, LogInv, ClockInv, TypeOK
<1> QED
  BY <1>1, Invariant, PTL

\* The record of a log holds the beginning of what was logged, for any buffer and any lines.
THEOREM LogsAreWhole == Spec => []RecordHoldsLog
<1>1. IInv => RecordHoldsLog
  BY DEF IInv, LogInv
<1> QED
  BY <1>1, Invariant, PTL

\* Every stamp of a clock that was compared with the server is true, on any date.
THEOREM StampsAreTrue == Spec => []StampsTrue
<1>1. IInv => StampsTrue
  BY DEF IInv
<1> QED
  BY <1>1, Invariant, PTL

\* Once it is sent, the body is the record's.
Sent == phase = "sleep" => body = Packed(record)

LEMMA SentNext == Sent /\ [Next]_vars => Sent'
<1> SUFFICES ASSUME Sent, [Next]_vars PROVE Sent'
  OBVIOUS
<1>1. CASE Send
  BY <1>1 DEF Send, Sent
<1>2. CASE UNCHANGED <<phase, record, body>>
  BY <1>2 DEF Sent
<1>3. CASE phase' # "sleep"
  BY <1>3 DEF Sent
<1> QED
  BY <1>1, <1>2, <1>3 DEF Next, Finished, vars, text, DiagnosticSync, DiagnosticEnds, TimeSync, Stamp, AppendLine,
                          PublishLog, Sleep, PowerFails

\* What a reader has of the record of a text.
LEMMA HeldIsRead ==
  ASSUME NEW s \in Seq(Char)
  PROVE  LET read == Read(Held(s).cells, Held(s).len)
             fits == Len(s) <= Size - 2
             plain == \A i \in 1 .. Len(s) : s[i] # "control"
         IN /\ read.text = IF fits THEN s ELSE SubSeq(s, 1, Size - 2) \o <<"NUL">>
            /\ read.valid <=> fits /\ plain
<1>1. Size \in Nat /\ Size > 2 /\ Len(s) \in Nat /\ \A i \in 1 .. Len(s) : s[i] \in Char
  BY SizeAssumption
<1>2. CASE Len(s) <= Size - 2
  <2>1. Held(s).len = Len(s)
    BY <1>1, <1>2 DEF Held, Smallest
  <2>2. \A i \in 1 .. Len(s) : i \in 1 .. Size /\ i <= Smallest(Len(s), Size - 2)
    BY <1>1, <1>2 DEF Smallest
  <2>3. \A i \in 1 .. Len(s) : Held(s).cells[i] = s[i]
    BY <2>2 DEF Held
  <2>4. [i \in 1 .. Len(s) |-> Held(s).cells[i]] = s
    BY <1>1, <2>3
  <2>5. \A i \in 1 .. Len(s) : Plain(Held(s).cells[i]) <=> s[i] # "control"
    BY <1>1, <2>3 DEF Char, Plain
  <2>6. (\A i \in 1 .. Len(s) : Plain(Held(s).cells[i])) <=> \A i \in 1 .. Len(s) : s[i] # "control"
    BY <2>5
  <2> QED
    BY <1>2, <2>1, <2>4, <2>6 DEF Read
<1>3. CASE ~(Len(s) <= Size - 2)
  <2> DEFINE n == Size - 2
             c == Held(s).cells
  <2>1. n \in Nat /\ n < Len(s) /\ Held(s).len = n + 1
    BY <1>1, <1>3 DEF Held, Smallest
  <2>2. \A i \in 1 .. n : c[i] = s[i]
    <3>1. \A i \in 1 .. n : i \in 1 .. Size /\ i <= Smallest(Len(s), Size - 2)
      BY <1>1, <1>3 DEF Smallest
    <3> QED
      BY <3>1 DEF Held
  <2>3. c[n + 1] = "NUL"
    <3>1. n + 1 \in 1 .. Size /\ ~(n + 1 <= Smallest(Len(s), Size - 2))
      BY <1>1, <1>3 DEF Smallest
    <3> QED
      BY <3>1 DEF Held
  <2> HIDE DEF n, c
  <2>4. [i \in 1 .. n + 1 |-> c[i]] = SubSeq(s, 1, n) \o <<"NUL">>
    <3>1. SubSeq(s, 1, n) = [i \in 1 .. n |-> s[i]]
      BY <2>1
    <3>2. [i \in 1 .. n |-> s[i]] \o <<"NUL">> = [i \in 1 .. n + 1 |-> IF i <= n THEN s[i] ELSE "NUL"]
      BY <2>1
    <3>3. \A i \in 1 .. n + 1 : c[i] = IF i <= n THEN s[i] ELSE "NUL"
      BY <2>1, <2>2, <2>3
    <3> QED
      BY <3>1, <3>2, <3>3
  <2>5. ~\A i \in 1 .. n + 1 : Plain(c[i])
    BY <2>1, <2>3 DEF Plain
  <2> QED
    BY <1>3, <2>1, <2>4, <2>5 DEF Read, n, c
<1> QED
  BY <1>2, <1>3

\* The server reads the log that was appended, as far as the buffer has room, and its parser takes
\* it just when it fitted and no control character but the ends of lines was logged, for any lines
\* and any size of the buffer.
THEOREM LogsArrive == Spec => []LogArrives
<1>1. Init => Sent
  BY DEF Init, Sent
<1>2. LogInv /\ Sent => LogArrives
  <2> SUFFICES ASSUME LogInv, Sent, phase = "sleep" PROVE LogArrives
    BY DEF LogArrives
  <2>1. /\ said \in Seq(Char) /\ record = Held(said) /\ body = Packed(record)
        /\ record \in [cells : Cells, len : 0 .. Size - 1]
    BY DEF LogInv, RecordHoldsLog, Sent
  <2>2. Unpacked(body) = Read(Held(said).cells, Held(said).len)
    BY <2>1, PackedIsReadBack
  <2> QED
    BY <2>1, <2>2, HeldIsRead DEF LogArrives
<1>3. Spec => []Sent
  BY <1>1, SentNext, PTL DEF Spec
<1>4. IInv => LogInv
  BY DEF IInv
<1> QED
  BY <1>2, <1>3, <1>4, Invariant, PTL

=============================================================================
