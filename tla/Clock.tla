-------------------------------- MODULE Clock --------------------------------
(***************************************************************************)
(* The wall clock of rtc.c: gettime reads the chip's registers, which hold *)
(* two decimal digits each and count in GMT, and turns them into local     *)
(* time; display_time writes the result as digits.  Minutes and seconds    *)
(* pass through unchanged and are left out.                                *)
(***************************************************************************)
EXTENDS Integers, Sequences

CONSTANTS
    FirstYear, LastYear   \* bound: the years the clock runs through

ASSUME ClockAssumption ==
    /\ FirstYear \in 2000 .. 2099
    /\ LastYear \in FirstYear .. 2099

VARIABLES
    now,    \* the time, GMT: year, month, day, hour, week (1 is Sunday)
    shown   \* what display_time has put on the screen, as digits

-----------------------------------------------------------------------------
(* The calendar, for the years 2000 to 2099.                                *)

Leap(y) == y % 4 = 0
MonthDays(y, m) ==
    CASE m = 2 -> IF Leap(y) THEN 29 ELSE 28
      [] m \in {4, 6, 9, 11} -> 30
      [] OTHER -> 31
\* Days of a year before a month, and the number of a day from 1 January 2000.
DaysBefore(y, m) ==
    <<0, 31, 59, 90, 120, 151, 181, 212, 243, 273, 304, 334>>[m]
      + IF m > 2 /\ Leap(y) THEN 1 ELSE 0
DayNumber(y, m, d) == 365 * (y - 2000) + (y - 2000 + 3) \div 4 + DaysBefore(y, m) + d
Hours(t) == 24 * DayNumber(t.year, t.month, t.day) + t.hour
\* 1 January 2000 was a Saturday.
WeekdayOf(n) == ((n + 5) % 7) + 1

Dates == {d \in [year : FirstYear .. LastYear, month : 1 .. 12, day : 1 .. 31] :
            d.day <= MonthDays(d.year, d.month)}

-----------------------------------------------------------------------------
(* The chip.                                                                *)

Bcd(n) == 16 * (n \div 10) + (n % 10)
Registers(t) == [hour |-> Bcd(t.hour), week |-> t.week, day |-> Bcd(t.day),
                 month |-> Bcd(t.month), year |-> Bcd(t.year - 2000)]

\* An hour later.
NextHour(t) ==
    IF t.hour < 23 THEN [t EXCEPT !.hour = @ + 1]
    ELSE LET nextDay == [t EXCEPT !.hour = 0, !.week = (t.week % 7) + 1] IN
         CASE t.day < MonthDays(t.year, t.month) -> [nextDay EXCEPT !.day = @ + 1]
           [] t.day = MonthDays(t.year, t.month) /\ t.month < 12 ->
                [nextDay EXCEPT !.day = 1, !.month = @ + 1]
           [] t.day = MonthDays(t.year, t.month) /\ t.month = 12 ->
                [nextDay EXCEPT !.day = 1, !.month = 1, !.year = @ + 1]

-----------------------------------------------------------------------------
(* gettime.                                                                 *)

\* Mutant: the mask of the tens is one bit short.
DigitsShort(v, mask) == (v % 16) + 10 * ((v \div 16) % (mask \div 2))

\* The two digits of a register; the tens are below mask.
Digits(v, mask) == (v % 16) + 10 * ((v \div 16) % mask)

Decoded(r) == [hour |-> Digits(r.hour, 4), week |-> r.week % 8, day |-> Digits(r.day, 8),
               month |-> Digits(r.month, 8), year |-> 2000 + Digits(r.year, 16)]

\* The last day of the month before, as the code has it.
PreviousMonth(t) ==
    CASE t.month = 1 -> [t EXCEPT !.day = 31, !.month = 12, !.year = @ - 1]
      [] t.month = 3 -> [t EXCEPT !.day = IF t.year % 4 = 0 THEN 29 ELSE 28, !.month = 2]
      [] t.month \in {5, 7, 10, 12} -> [t EXCEPT !.day = 30, !.month = @ - 1]
      [] t.month \in {2, 4, 6, 8, 9, 11} -> [t EXCEPT !.day = 31, !.month = @ - 1]

\* Mutant: the week does not wrap.
WeekBeforeUnwrapped(w) == w - 1

WeekBefore(w) == IF w - 1 < 1 THEN 7 ELSE w - 1

Yesterday(t) ==
    LET y == [t EXCEPT !.hour = t.hour - 5 + 24, !.week = WeekBefore(t.week),
                       !.day = t.day - 1] IN
    IF y.day < 0 THEN PreviousMonth(y) ELSE y

ToLocal(t) == IF t.hour - 5 < 0 THEN Yesterday(t) ELSE [t EXCEPT !.hour = t.hour - 5]

gettime(t) == ToLocal(Decoded(Registers(t)))

-----------------------------------------------------------------------------
(* display_time.  Hours are shown one earlier, "daylight saving".           *)

HourDigits(h) == IF h = 0 THEN <<2, 3>> ELSE <<h \div 10, (h % 10) - 1>>

display_time(t) ==
    [date |-> <<t.year \div 1000, (t.year % 1000) \div 100, (t.year % 100) \div 10,
                t.year % 10, t.month \div 10, t.month % 10, t.day \div 10, t.day % 10>>,
     week |-> t.week - 1,
     hour |-> HourDigits(t.hour)]

-----------------------------------------------------------------------------
Noon(d) == [year |-> d.year, month |-> d.month, day |-> d.day, hour |-> 12,
            week |-> WeekdayOf(DayNumber(d.year, d.month, d.day))]

Init ==
    /\ \E d \in Dates : now = Noon(d)
    /\ shown = display_time(gettime(now))

\* An hour passes; the handler shows the time.  At the end of the last year the
\* clock is set back to some date.
Hour ==
    /\ NextHour(now).year <= LastYear
    /\ now' = NextHour(now)
    /\ shown' = display_time(gettime(now'))

SetClock ==
    /\ NextHour(now).year > LastYear
    /\ \E d \in Dates : now' = Noon(d)
    /\ shown' = display_time(gettime(now'))

Next == Hour \/ SetClock
Spec == Init /\ [][Next]_<<now, shown>>

-----------------------------------------------------------------------------
(* Properties.                                                              *)

\* Local time is five hours behind, also where that is the day before, except where
\* the day becomes one of another month: the code then shows day 0 of the month,
\* and the right hour.
LocalWithinMonth ==
    LET t == gettime(now) IN
    IF now.hour < 5 /\ now.day = 1
    THEN t.day = 0 /\ t.month = now.month /\ t.hour = now.hour + 19
    ELSE /\ t.day \in 1 .. MonthDays(t.year, t.month)
         /\ Hours(t) = Hours(now) - 5

\* The day of the week is that of the time five hours ago, in every month.
WeekdayRight == shown.week + 1 = WeekdayOf((Hours(now) - 5) \div 24)

\* The hour on the screen is six hours behind, where its last digit is not 0.
HourRight ==
    LET h == (now.hour + 19) % 24 IN
    h \notin {10, 20} => 10 * shown.hour[1] + shown.hour[2] = (h + 23) % 24

\* What display_time makes of the converted time: both of the above.
DisplayRight == WeekdayRight /\ HourRight

=============================================================================
