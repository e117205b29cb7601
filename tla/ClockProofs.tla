----------------------------- MODULE ClockProofs -----------------------------
(***************************************************************************)
(* The wall clock, for every year from 2000 to 2099: what gettime makes of *)
(* the chip's registers and what display_time shows of it.                 *)
(***************************************************************************)
EXTENDS Clock, TLAPS

-----------------------------------------------------------------------------
(* The calendar.                                                            *)

Century == 2000 .. 2099
Years == 2000 .. 2100

LEMMA MonthLengths ==
    ASSUME NEW y \in Years
    PROVE  /\ MonthDays(y, 1) = 31 /\ MonthDays(y, 3) = 31 /\ MonthDays(y, 5) = 31
           /\ MonthDays(y, 7) = 31 /\ MonthDays(y, 8) = 31 /\ MonthDays(y, 10) = 31
           /\ MonthDays(y, 12) = 31
           /\ MonthDays(y, 4) = 30 /\ MonthDays(y, 6) = 30 /\ MonthDays(y, 9) = 30
           /\ MonthDays(y, 11) = 30
           /\ MonthDays(y, 2) = IF Leap(y) THEN 29 ELSE 28
BY DEF MonthDays

LEMMA MonthStarts ==
    ASSUME NEW y \in Years
    PROVE  LET leap == IF Leap(y) THEN 1 ELSE 0 IN
           /\ DaysBefore(y, 1) = 0 /\ DaysBefore(y, 2) = 31
           /\ DaysBefore(y, 3) = 59 + leap /\ DaysBefore(y, 4) = 90 + leap
           /\ DaysBefore(y, 5) = 120 + leap /\ DaysBefore(y, 6) = 151 + leap
           /\ DaysBefore(y, 7) = 181 + leap /\ DaysBefore(y, 8) = 212 + leap
           /\ DaysBefore(y, 9) = 243 + leap /\ DaysBefore(y, 10) = 273 + leap
           /\ DaysBefore(y, 11) = 304 + leap /\ DaysBefore(y, 12) = 334 + leap
BY DEF DaysBefore

LEMMA CalendarTyped ==
    ASSUME NEW y \in Years, NEW m \in 1 .. 12
    PROVE  MonthDays(y, m) \in 28 .. 31 /\ DaysBefore(y, m) \in 0 .. 335
<1>1. \/ m = 1 \/ m = 2 \/ m = 3 \/ m = 4 \/ m = 5 \/ m = 6
      \/ m = 7 \/ m = 8 \/ m = 9 \/ m = 10 \/ m = 11 \/ m = 12
  OBVIOUS
<1>2. MonthDays(y, m) \in 28 .. 31
  BY <1>1, MonthLengths
<1>3. DaysBefore(y, m) \in 0 .. 335
  BY <1>1, MonthStarts
<1> QED BY <1>2, <1>3

\* A month begins the day after the one before it ends.
LEMMA MonthFollows ==
    ASSUME NEW y \in Years, NEW m \in 1 .. 11
    PROVE  DaysBefore(y, m + 1) = DaysBefore(y, m) + MonthDays(y, m)
<1>1. \/ m = 1 \/ m = 2 \/ m = 3 \/ m = 4 \/ m = 5 \/ m = 6
      \/ m = 7 \/ m = 8 \/ m = 9 \/ m = 10 \/ m = 11
  OBVIOUS
<1> QED BY <1>1, MonthStarts, MonthLengths

LEMMA DayAfter ==
    ASSUME NEW y \in Century, NEW m \in 1 .. 12, NEW d \in 1 .. MonthDays(y, m)
    PROVE  /\ DayNumber(y, m, d) \in Nat
           /\ DayNumber(y, m, d + 1) = DayNumber(y, m, d) + 1
           /\ m < 12 => DayNumber(y, m + 1, 1) = DayNumber(y, m, MonthDays(y, m)) + 1
           /\ DayNumber(y + 1, 1, 1) = DayNumber(y, 12, 31) + 1
<1>3. MonthDays(y, m) \in 28 .. 31 /\ DaysBefore(y, m) \in 0 .. 335
  <2>1. y \in Years
    BY DEF Years, Century
  <2> QED BY <2>1, CalendarTyped, Zenon
<1> DEFINE n == y - 2000
           q == (n + 3) \div 4
<1>1. y \in Years /\ y + 1 \in Years /\ n \in 0 .. 99 /\ (y + 1) - 2000 = n + 1
  BY DEF Years, Century
<1>2. q \in Nat /\ ((n + 1) + 3) \div 4 = q + IF Leap(y) THEN 1 ELSE 0
  BY <1>1 DEF Leap
<1>4. DayNumber(y, m, d) = 365 * n + q + DaysBefore(y, m) + d
  BY DEF DayNumber
<1>5. DayNumber(y, m, d + 1) = DayNumber(y, m, d) + 1 /\ DayNumber(y, m, d) \in Nat
  <2>1. DayNumber(y, m, d + 1) = 365 * n + q + DaysBefore(y, m) + (d + 1)
    BY DEF DayNumber
  <2>2. d \in 1 .. 31
    BY <1>3
  <2> HIDE DEF n, q
  <2> DEFINE b == 365 * n + q + DaysBefore(y, m)
  <2>3. b \in Nat /\ DayNumber(y, m, d) = b + d /\ DayNumber(y, m, d + 1) = b + (d + 1)
    BY <1>1, <1>2, <1>3, <1>4, <2>1
  <2> HIDE DEF b
  <2> QED BY <2>2, <2>3
<1>6. m < 12 => DayNumber(y, m + 1, 1) = DayNumber(y, m, MonthDays(y, m)) + 1
  <2> SUFFICES ASSUME m < 12
               PROVE  DayNumber(y, m + 1, 1) = DayNumber(y, m, MonthDays(y, m)) + 1
    OBVIOUS
  <2>1. DaysBefore(y, m + 1) = DaysBefore(y, m) + MonthDays(y, m)
    BY <1>1, MonthFollows
  <2>2. /\ DayNumber(y, m + 1, 1) = 365 * n + q + DaysBefore(y, m + 1) + 1
        /\ DayNumber(y, m, MonthDays(y, m)) = 365 * n + q + DaysBefore(y, m) + MonthDays(y, m)
    BY DEF DayNumber
  <2> HIDE DEF n, q
  <2> QED BY <1>1, <1>2, <1>3, <2>1, <2>2
<1>7. DayNumber(y + 1, 1, 1) = DayNumber(y, 12, 31) + 1
  <2>1. DaysBefore(y + 1, 1) = 0
    BY <1>1, MonthStarts
  <2>2. DaysBefore(y, 12) = 334 + IF Leap(y) THEN 1 ELSE 0
    BY <1>1, MonthStarts
  <2>3. DayNumber(y + 1, 1, 1) = 365 * (n + 1) + ((n + 1) + 3) \div 4 + 0 + 1
    BY <1>1, <2>1 DEF DayNumber
  <2>4. DayNumber(y, 12, 31) = 365 * n + q + DaysBefore(y, 12) + 31
    BY DEF DayNumber
  <2> HIDE DEF n, q
  <2> QED BY <1>1, <1>2, <2>2, <2>3, <2>4
<1> QED BY <1>5, <1>6, <1>7

LEMMA WeekFollows ==
    ASSUME NEW n \in Nat
    PROVE  WeekdayOf(n) \in 1 .. 7 /\ WeekdayOf(n + 1) = (WeekdayOf(n) % 7) + 1
BY DEF WeekdayOf

-----------------------------------------------------------------------------
(* The chip counts valid times, and knows the day of the week.              *)

Times == [year : Int, month : Int, day : Int, hour : Int, week : Int]

Valid(t) ==
    /\ t \in Times
    /\ t.year \in Years
    /\ t.month \in 1 .. 12
    /\ t.day \in 1 .. MonthDays(t.year, t.month)
    /\ t.hour \in 0 .. 23
    /\ t.week = WeekdayOf(DayNumber(t.year, t.month, t.day))

ClockInv ==
    /\ Valid(now)
    /\ now.year \in Century
    /\ shown = display_time(gettime(now))

LEMMA NextHourValid ==
    ASSUME NEW t, Valid(t), t.year \in Century
    PROVE  Valid(NextHour(t))
<1> DEFINE y == t.year
           m == t.month
           d == t.day
           u == NextHour(t)
<1>1. /\ t \in Times /\ y \in Century /\ m \in 1 .. 12 /\ d \in 1 .. MonthDays(y, m)
      /\ t.hour \in 0 .. 23 /\ t.week = WeekdayOf(DayNumber(y, m, d))
      /\ MonthDays(y, m) \in 28 .. 31 /\ y + 1 \in Years /\ y \in Years /\ y \in Int
  <2>1. y \in Years /\ y + 1 \in Years /\ y \in Int /\ m \in 1 .. 12
    BY DEF Valid, Years, Century
  <2>2. MonthDays(y, m) \in 28 .. 31
    BY <2>1, CalendarTyped
  <2> QED BY <2>1, <2>2 DEF Valid
<1>2. /\ DayNumber(y, m, d) \in Nat
      /\ DayNumber(y, m, d + 1) = DayNumber(y, m, d) + 1
      /\ m < 12 => DayNumber(y, m + 1, 1) = DayNumber(y, m, MonthDays(y, m)) + 1
      /\ DayNumber(y + 1, 1, 1) = DayNumber(y, 12, 31) + 1
  BY <1>1, DayAfter, Zenon
<1>3. CASE t.hour < 23
  <2>1. u = [t EXCEPT !.hour = t.hour + 1]
    BY <1>3 DEF NextHour
  <2>2. /\ u \in Times /\ u.year = y /\ u.month = m /\ u.day = d /\ u.week = t.week
        /\ u.hour = t.hour + 1
    BY <1>1, <2>1 DEF Times
  <2> HIDE DEF u
  <2>3. u.hour \in 0 .. 23
    BY <1>1, <1>3, <2>2
  <2>4. Valid(u)
    BY <1>1, <2>2, <2>3 DEF Valid
  <2> QED BY <2>4 DEF u
<1>4. CASE ~(t.hour < 23)
  <2> DEFINE w == (t.week % 7) + 1
             v == [t EXCEPT !.hour = 0, !.week = w]
             n == DayNumber(y, m, d)
  <2>0. w = WeekdayOf(n + 1) /\ w \in Int
    BY <1>1, <1>2, WeekFollows
  <2> HIDE DEF n, w
  <2>1. /\ v \in Times /\ v.year = y /\ v.month = m /\ v.day = d /\ v.hour = 0 /\ v.week = w
    <3> DEFINE a == [t EXCEPT !.hour = 0]
    <3>1. /\ a \in Times /\ a.year = y /\ a.month = m /\ a.day = d /\ a.hour = 0
      BY <1>1 DEF Times
    <3>2. v = [a EXCEPT !.week = w]
      BY Zenon
    <3> HIDE DEF a, v
    <3> QED BY <2>0, <3>1, <3>2 DEF Times
  <2>2. u = CASE d < MonthDays(y, m) -> [v EXCEPT !.day = @ + 1]
              [] d = MonthDays(y, m) /\ m < 12 -> [v EXCEPT !.day = 1, !.month = @ + 1]
              [] d = MonthDays(y, m) /\ m = 12 ->
                   [v EXCEPT !.day = 1, !.month = 1, !.year = @ + 1]
    BY <1>4, Zenon DEF NextHour, w
  <2> HIDE DEF u, v
  <2>3. CASE d < MonthDays(y, m)
    <3>1. u = [v EXCEPT !.day = d + 1]
      <4>1. ~(d = MonthDays(y, m))
        BY <1>1, <2>3
      <4> QED BY <2>1, <2>2, <2>3, <4>1, Zenon
    <3>2. u \in Times /\ u.year = y /\ u.month = m /\ u.day = d + 1 /\ u.hour = 0 /\ u.week = w
      BY <1>1, <2>1, <3>1 DEF Times
    <3>3. u.day \in 1 .. MonthDays(y, m) /\ u.week = WeekdayOf(DayNumber(y, m, d + 1))
      BY <1>1, <1>2, <2>0, <2>3, <3>2 DEF n
    <3> QED BY <1>1, <3>2, <3>3 DEF Valid, u
  <2>4. CASE d = MonthDays(y, m) /\ m < 12
    <3>1. u = [v EXCEPT !.day = 1, !.month = m + 1]
      BY <2>1, <2>2, <2>4
    <3>2. u \in Times /\ u.year = y /\ u.month = m + 1 /\ u.day = 1 /\ u.hour = 0 /\ u.week = w
      <4> DEFINE a == [v EXCEPT !.day = 1]
      <4>1. /\ a \in Times /\ a.year = y /\ a.month = m /\ a.day = 1
            /\ a.hour = 0 /\ a.week = w
        BY <2>1 DEF Times
      <4>2. u = [a EXCEPT !.month = m + 1]
        BY <3>1, Zenon
      <4> HIDE DEF a
      <4> QED BY <1>1, <4>1, <4>2 DEF Times
    <3>3. u.month \in 1 .. 12 /\ MonthDays(y, m + 1) \in 28 .. 31
      <4>1. y \in Years /\ m + 1 \in 1 .. 12
        BY <1>1, <2>4
      <4> QED BY <3>2, <4>1, CalendarTyped
    <3>4. u.week = WeekdayOf(DayNumber(y, m + 1, 1))
      BY <1>2, <2>0, <2>4, <3>2 DEF n
    <3> QED BY <1>1, <3>2, <3>3, <3>4 DEF Valid, u
  <2>5. CASE d = MonthDays(y, m) /\ m = 12
    <3>1. u = [v EXCEPT !.day = 1, !.month = 1, !.year = y + 1]
      BY <2>1, <2>2, <2>5
    <3>2. u \in Times /\ u.year = y + 1 /\ u.month = 1 /\ u.day = 1 /\ u.hour = 0 /\ u.week = w
      <4> DEFINE a == [v EXCEPT !.day = 1]
                 b == [a EXCEPT !.month = 1]
      <4>1. /\ a \in Times /\ a.year = y /\ a.month = m /\ a.day = 1
            /\ a.hour = 0 /\ a.week = w
        BY <2>1 DEF Times
      <4>2. u = [b EXCEPT !.year = y + 1]
        BY <3>1, Zenon
      <4> HIDE DEF a
      <4>3. /\ b \in Times /\ b.year = y /\ b.month = 1 /\ b.day = 1
            /\ b.hour = 0 /\ b.week = w
        BY <4>1 DEF Times
      <4> HIDE DEF b
      <4> QED BY <1>1, <4>2, <4>3 DEF Times
    <3>3. MonthDays(y + 1, 1) \in 28 .. 31 /\ MonthDays(y, 12) = 31
      <4>1. y \in Years /\ y + 1 \in Years
        BY <1>1
      <4>2. MonthDays(y, 12) = 31
        BY <4>1, MonthLengths
      <4>3. MonthDays(y + 1, 1) = 31
        BY <4>1, MonthLengths
      <4> QED BY <4>2, <4>3
    <3>4. u.week = WeekdayOf(DayNumber(y + 1, 1, 1))
      BY <1>2, <2>0, <2>5, <3>2, <3>3 DEF n
    <3> QED BY <1>1, <3>2, <3>3, <3>4 DEF Valid, u
  <2> QED BY <1>1, <2>3, <2>4, <2>5
<1> QED BY <1>3, <1>4

LEMMA NoonValid ==
    ASSUME NEW d \in Dates
    PROVE  Valid(Noon(d)) /\ Noon(d).year \in Century
<1> DEFINE y == d.year
           m == d.month
           n == d.day
           t == Noon(d)
<1>1. y \in FirstYear .. LastYear /\ m \in 1 .. 12 /\ n \in 1 .. 31 /\ n <= MonthDays(y, m)
  BY DEF Dates
<1>2. y \in Century /\ y \in Years
  BY <1>1, ClockAssumption DEF Years, Century
<1>3. n \in 1 .. MonthDays(y, m)
  <2>1. MonthDays(y, m) \in 28 .. 31
    BY <1>1, <1>2, CalendarTyped
  <2> QED BY <1>1, <2>1
<1>4. DayNumber(y, m, n) \in Nat
  BY <1>1, <1>2, <1>3, DayAfter, Zenon
<1>5. WeekdayOf(DayNumber(y, m, n)) \in 1 .. 7
  BY <1>4, WeekFollows
<1>6. y \in Int /\ m \in Int /\ n \in Int /\ WeekdayOf(DayNumber(y, m, n)) \in Int
  BY <1>1, <1>2, <1>5 DEF Century
<1>7. t = [year |-> y, month |-> m, day |-> n, hour |-> 12,
           week |-> WeekdayOf(DayNumber(y, m, n))]
  BY DEF Noon
<1> HIDE DEF t, y, m, n
<1>8. /\ t \in Times /\ t.year = y /\ t.month = m /\ t.day = n /\ t.hour \in 0 .. 23
      /\ t.week = WeekdayOf(DayNumber(y, m, n))
  BY <1>6, <1>7 DEF Times
<1> QED BY <1>1, <1>2, <1>3, <1>8 DEF Valid, t

LEMMA ClockAlways == Spec => []ClockInv
<1>1. Init => ClockInv
  BY NoonValid DEF Init, ClockInv
<1>2. ClockInv /\ [Next]_<<now, shown>> => ClockInv'
  <2> SUFFICES ASSUME ClockInv, [Next]_<<now, shown>> PROVE ClockInv'
    OBVIOUS
  <2>1. CASE Hour
    <3>1. Valid(now') /\ now'.year <= LastYear
      BY <2>1, NextHourValid DEF Hour, ClockInv
    <3>2. now'.year \in Century
      BY <3>1, ClockAssumption DEF Valid, Years, Century
    <3> QED BY <2>1, <3>1, <3>2 DEF Hour, ClockInv, Valid
  <2>2. CASE SetClock
    <3>1. Valid(now') /\ now'.year \in Century
      BY <2>2, NoonValid DEF SetClock
    <3> QED BY <2>2, <3>1 DEF SetClock, ClockInv, Valid
  <2>3. CASE UNCHANGED <<now, shown>>
    BY <2>3 DEF ClockInv, Valid
  <2> QED BY <2>1, <2>2, <2>3 DEF Next
<1> QED BY <1>1, <1>2, PTL DEF Spec

-----------------------------------------------------------------------------
(* gettime and display_time.                                                *)

\* Decoding undoes the chip's decimal digits wherever the tens fit the mask.
LEMMA DigitsOfBcd ==
    ASSUME NEW mask \in Nat, NEW n \in Nat, n < 10 * mask
    PROVE  mask > 0 => Digits(Bcd(n), mask) = n
<1> SUFFICES ASSUME mask > 0 PROVE Digits(Bcd(n), mask) = n
  OBVIOUS
<1> DEFINE q == n \div 10
           r == n % 10
<1>1. q \in Nat /\ r \in 0 .. 9 /\ n = 10 * q + r
  OBVIOUS
<1>2. Bcd(n) = 16 * q + r
  BY DEF Bcd
<1> HIDE DEF q, r
<1>3. q < mask
  BY <1>1
<1>4. (16 * q + r) % 16 = r /\ (16 * q + r) \div 16 = q
  BY <1>1
<1>5. q % mask = q
  BY <1>1, <1>3
<1>6. Digits(Bcd(n), mask) = r + 10 * (q % mask)
  BY <1>2, <1>4 DEF Digits
<1> QED BY <1>1, <1>5, <1>6

LEMMA DecodedIsNow ==
    ASSUME NEW t, Valid(t), t.year \in Century
    PROVE  Decoded(Registers(t)) = t
<1> DEFINE r == Registers(t)
           y == t.year - 2000
<1>1. /\ t.hour \in Nat /\ t.hour < 10 * 4 /\ t.day \in Nat /\ t.day < 10 * 8
      /\ t.month \in Nat /\ t.month < 10 * 8 /\ y \in Nat /\ y < 10 * 16
      /\ t \in Times
  <2>1. MonthDays(t.year, t.month) \in 28 .. 31
    BY CalendarTyped DEF Valid
  <2> QED BY <2>1 DEF Valid, Century
<1>2. /\ r.hour = Bcd(t.hour) /\ r.week = t.week /\ r.day = Bcd(t.day)
      /\ r.month = Bcd(t.month) /\ r.year = Bcd(y)
  BY DEF Registers
<1>3. 2000 + y = t.year
  BY <1>1 DEF Times
<1> HIDE DEF r, y
<1>4. Digits(r.hour, 4) = t.hour
  BY <1>1, <1>2, DigitsOfBcd
<1>5. Digits(r.day, 8) = t.day
  BY <1>1, <1>2, DigitsOfBcd
<1>6. Digits(r.month, 8) = t.month
  BY <1>1, <1>2, DigitsOfBcd
<1>7. Digits(r.year, 16) = y
  BY <1>1, <1>2, DigitsOfBcd
<1>8. r.week % 8 = t.week
  <2>1. t.week \in 1 .. 7
    <3>1. DayNumber(t.year, t.month, t.day) \in Nat
      BY DayAfter, Zenon DEF Valid
    <3> QED BY <3>1, WeekFollows DEF Valid
  <2> QED BY <1>2, <2>1
<1>9. Decoded(r) = [hour |-> t.hour, week |-> t.week, day |-> t.day, month |-> t.month,
                    year |-> t.year]
  BY <1>3, <1>4, <1>5, <1>6, <1>7, <1>8 DEF Decoded
<1>10. t = [hour |-> t.hour, week |-> t.week, day |-> t.day, month |-> t.month,
            year |-> t.year]
  BY <1>1 DEF Times
<1> QED BY <1>9, <1>10 DEF r

\* What gettime makes of a time: five hours less, or the day before in the same
\* month; its test for a day of the month before is never true.
LEMMA GettimeIs ==
    ASSUME NEW t, Valid(t), t.year \in Century
    PROVE  LET u == gettime(t) IN
           /\ u.year = t.year /\ u.month = t.month
           /\ t.hour >= 5 => u.day = t.day /\ u.hour = t.hour - 5 /\ u.week = t.week
           /\ t.hour < 5 => /\ u.day = t.day - 1 /\ u.hour = t.hour + 19
                            /\ u.week = WeekBefore(t.week)
<1> DEFINE u == gettime(t)
<1>1. t \in Times /\ t.hour \in 0 .. 23 /\ t.day \in 1 .. 31
  <2>1. MonthDays(t.year, t.month) \in 28 .. 31
    BY CalendarTyped DEF Valid
  <2> QED BY <2>1 DEF Valid
<1>2. u = ToLocal(t)
  BY DecodedIsNow DEF gettime
<1> HIDE DEF u
<1>3. CASE t.hour >= 5
  <2>1. u = [t EXCEPT !.hour = t.hour - 5]
    BY <1>1, <1>2, <1>3 DEF ToLocal
  <2>2. /\ u.year = t.year /\ u.month = t.month /\ u.day = t.day
        /\ u.hour = t.hour - 5 /\ u.week = t.week
    BY <1>1, <2>1 DEF Times
  <2>3. ~(t.hour < 5)
    BY <1>1, <1>3
  <2> QED BY <2>2, <2>3 DEF u
<1>4. CASE t.hour < 5
  <2> DEFINE w == WeekBefore(t.week)
             h == t.hour - 5 + 24
             e == t.day - 1
             a == [t EXCEPT !.hour = h]
             b == [a EXCEPT !.week = w]
             v == [b EXCEPT !.day = e]
  <2>1. u = Yesterday(t)
    BY <1>1, <1>2, <1>4 DEF ToLocal
  <2>2. h = t.hour + 19 /\ e \in 0 .. 30
    BY <1>1
  <2> HIDE DEF h, e, w
  <2>3. Yesterday(t) = IF v.day < 0 THEN PreviousMonth(v) ELSE v
    BY Zenon DEF Yesterday, h, e, w
  <2>4. /\ a.year = t.year /\ a.month = t.month /\ a.day = t.day /\ a.hour = h
        /\ DOMAIN a = DOMAIN t /\ DOMAIN t = {"year", "month", "day", "hour", "week"}
    BY <1>1 DEF Times
  <2> HIDE DEF a
  <2>5. /\ b.year = t.year /\ b.month = t.month /\ b.day = t.day /\ b.hour = h
        /\ b.week = w /\ DOMAIN b = DOMAIN t
    BY <2>4
  <2> HIDE DEF b
  <2>6. /\ v.year = t.year /\ v.month = t.month /\ v.day = e /\ v.hour = h /\ v.week = w
    BY <2>4, <2>5
  <2> HIDE DEF v
  <2>7. u = v
    <3>1. ~(v.day < 0)
      BY <2>2, <2>6
    <3> QED BY <2>1, <2>3, <3>1
  <2>8. ~(t.hour >= 5)
    BY <1>1, <1>4
  <2> QED BY <2>2, <2>6, <2>7, <2>8 DEF u, e, w
<1>5. t.hour >= 5 \/ t.hour < 5
  BY <1>1
<1> QED BY <1>3, <1>4, <1>5

\* Numbers of days and hours, for what follows.
LEMMA HoursOfNow ==
    ASSUME NEW t, Valid(t), t.year \in Century
    PROVE  LET n == DayNumber(t.year, t.month, t.day) IN
           /\ n \in Nat \ {0}
           /\ \A d \in Int : DayNumber(t.year, t.month, d) = n + d - t.day
           /\ Hours(t) = 24 * n + t.hour
           /\ t.week = WeekdayOf(n) /\ WeekBefore(t.week) = WeekdayOf(n - 1)
<1> DEFINE n == DayNumber(t.year, t.month, t.day)
           y == t.year - 2000
           q == (y + 3) \div 4
           b == DaysBefore(t.year, t.month)
<1>1. /\ t.year \in Years /\ t.month \in 1 .. 12 /\ b \in 0 .. 335
      /\ MonthDays(t.year, t.month) \in 28 .. 31
  BY CalendarTyped DEF Valid
<1>2. t.day \in 1 .. 31 /\ y \in Nat /\ q \in Nat
  <2>1. t.day \in 1 .. 31
    BY <1>1 DEF Valid
  <2>2. y \in Nat
    BY DEF Century
  <2> QED BY <2>1, <2>2
<1>3. \A d \in Int : DayNumber(t.year, t.month, d) = 365 * y + q + b + d
  BY DEF DayNumber
<1>4. n = 365 * y + q + b + t.day
  BY DEF DayNumber
<1> HIDE DEF y, q, b, n
<1>5. n \in Nat \ {0}
  BY <1>1, <1>2, <1>4
<1>6. \A d \in Int : DayNumber(t.year, t.month, d) = n + d - t.day
  BY <1>1, <1>2, <1>3, <1>4
<1>7. t.week = WeekdayOf(n)
  BY DEF Valid, n
<1>8. WeekBefore(t.week) = WeekdayOf(n - 1)
  BY <1>5, <1>7 DEF WeekBefore, WeekdayOf
<1>9. Hours(t) = 24 * n + t.hour
  BY DEF Hours, n
<1> QED BY <1>5, <1>6, <1>7, <1>8, <1>9 DEF n

\* From any register contents of the century, gettime gives the time five hours
\* earlier, except on the first of a month before five, where it gives day 0.
THEOREM LocalTimeRight == Spec => []LocalWithinMonth
<1>1. ClockInv => LocalWithinMonth
  <2> SUFFICES ASSUME ClockInv PROVE LocalWithinMonth
    OBVIOUS
  <2> DEFINE t == gettime(now)
             n == DayNumber(now.year, now.month, now.day)
  <2>1. /\ Valid(now) /\ now.year \in Century /\ now.hour \in 0 .. 23
        /\ MonthDays(now.year, now.month) \in 28 .. 31
        /\ now.day \in 1 .. MonthDays(now.year, now.month)
    <3>1. Valid(now) /\ now.year \in Century
      BY DEF ClockInv
    <3>2. MonthDays(now.year, now.month) \in 28 .. 31
      BY <3>1, CalendarTyped DEF Valid
    <3> QED BY <3>1, <3>2 DEF Valid
  <2>2. /\ t.year = now.year /\ t.month = now.month
        /\ now.hour >= 5 => t.day = now.day /\ t.hour = now.hour - 5
        /\ now.hour < 5 => t.day = now.day - 1 /\ t.hour = now.hour + 19
    BY <2>1, GettimeIs
  <2>3. /\ n \in Nat \ {0}
        /\ \A d \in Int : DayNumber(now.year, now.month, d) = n + d - now.day
        /\ Hours(now) = 24 * n + now.hour
    BY <2>1, HoursOfNow
  <2>4. Hours(t) = 24 * DayNumber(now.year, now.month, t.day) + t.hour
    BY <2>2 DEF Hours
  <2> HIDE DEF t, n
  <2>5. CASE now.hour >= 5
    <3>1. ~(now.hour < 5)
      BY <2>1, <2>5
    <3>2. Hours(t) = 24 * (n + now.day - now.day) + now.hour - 5
      BY <2>1, <2>2, <2>3, <2>4, <2>5
    <3>3. Hours(t) = Hours(now) - 5
      BY <2>1, <2>3, <3>2
    <3>4. t.day \in 1 .. MonthDays(t.year, t.month)
      BY <2>1, <2>2, <2>5
    <3> QED BY <3>1, <3>3, <3>4 DEF LocalWithinMonth, t
  <2>6. CASE now.hour < 5 /\ now.day = 1
    <3>1. t.day = 0 /\ t.month = now.month /\ t.hour = now.hour + 19
      BY <2>1, <2>2, <2>6
    <3> QED BY <2>6, <3>1 DEF LocalWithinMonth, t
  <2>7. CASE now.hour < 5 /\ now.day # 1
    <3>1. t.day = now.day - 1 /\ t.day \in Int /\ t.hour = now.hour + 19
      BY <2>1, <2>2, <2>7
    <3>2. Hours(t) = 24 * (n + t.day - now.day) + t.hour
      BY <2>3, <2>4, <3>1
    <3>3. n + t.day - now.day = n - 1
      BY <2>1, <2>3, <3>1
    <3>4. Hours(t) = Hours(now) - 5
      <4>1. Hours(t) = 24 * (n - 1) + (now.hour + 19)
        BY <3>1, <3>2, <3>3
      <4> QED BY <2>1, <2>3, <4>1
    <3>5. t.day \in 1 .. MonthDays(t.year, t.month)
      BY <2>1, <2>2, <2>7, <3>1
    <3> QED BY <2>7, <3>4, <3>5 DEF LocalWithinMonth, t
  <2> QED BY <2>1, <2>5, <2>6, <2>7
<1> QED BY <1>1, ClockAlways, PTL

\* The day of the week on the screen is that of the time five hours ago, in every
\* month and year, and the hour is six hours behind.
THEOREM DisplayedRight == Spec => []DisplayRight
<1>1. ClockInv => DisplayRight
  <2> SUFFICES ASSUME ClockInv PROVE DisplayRight
    OBVIOUS
  <2> DEFINE t == gettime(now)
             n == DayNumber(now.year, now.month, now.day)
  <2>1. Valid(now) /\ now.year \in Century /\ now.hour \in 0 .. 23
    BY DEF ClockInv, Valid
  <2>2. /\ now.hour >= 5 => t.hour = now.hour - 5 /\ t.week = now.week
        /\ now.hour < 5 => t.hour = now.hour + 19 /\ t.week = WeekBefore(now.week)
    BY <2>1, GettimeIs
  <2>3. /\ n \in Nat \ {0} /\ Hours(now) = 24 * n + now.hour
        /\ now.week = WeekdayOf(n) /\ WeekBefore(now.week) = WeekdayOf(n - 1)
    BY <2>1, HoursOfNow
  <2>4. shown.week = t.week - 1 /\ shown.hour = HourDigits(t.hour)
    BY DEF ClockInv, display_time
  <2> HIDE DEF t, n
  <2>5. WeekdayOf(n) \in 1 .. 7 /\ WeekdayOf(n - 1) \in 1 .. 7
    BY <2>3 DEF WeekdayOf
  <2>6. WeekdayRight
    <3>1. CASE now.hour >= 5
      <4>1. (Hours(now) - 5) \div 24 = n
        BY <2>1, <2>3, <3>1
      <4> QED BY <2>2, <2>3, <2>4, <2>5, <3>1, <4>1 DEF WeekdayRight
    <3>2. CASE now.hour < 5
      <4>1. (Hours(now) - 5) \div 24 = n - 1
        BY <2>1, <2>3, <3>2
      <4> QED BY <2>2, <2>3, <2>4, <2>5, <3>2, <4>1 DEF WeekdayRight
    <3> QED BY <2>1, <3>1, <3>2
  <2>7. HourRight
    <3> DEFINE h == (now.hour + 19) % 24
    <3>1. t.hour = h /\ h \in 0 .. 23
      BY <2>1, <2>2
    <3> HIDE DEF h
    <3>2. 10 * HourDigits(h)[1] + HourDigits(h)[2] = (h + 23) % 24
      <4>1. CASE h = 0
        BY <4>1 DEF HourDigits
      <4>2. CASE h # 0
        <5>1. HourDigits(h)[1] = h \div 10 /\ HourDigits(h)[2] = (h % 10) - 1
          BY <4>2 DEF HourDigits
        <5>2. 10 * (h \div 10) + ((h % 10) - 1) = h - 1 /\ (h + 23) % 24 = h - 1
          BY <3>1, <4>2
        <5> QED BY <5>1, <5>2
      <4> QED BY <4>1, <4>2
    <3> QED BY <2>4, <3>1, <3>2 DEF HourRight, h
  <2> QED BY <2>6, <2>7 DEF DisplayRight
<1> QED BY <1>1, ClockAlways, PTL


=============================================================================
