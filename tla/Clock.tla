------------------------------- MODULE Clock -------------------------------
(***************************************************************************)
(* The clock (src/src/time.c): time() asks the BIOS for the date and the   *)
(* time of day of the real-time clock, twice, while that clock goes on,    *)
(* and converts what it got to seconds since 1970.                         *)
(***************************************************************************)
EXTENDS Integers, FiniteSets

CONSTANTS
    Moments,        \* when the clock may be started: [year, mon, mday, hour, min, sec]
    MaxSecs         \* bound: seconds that are watched

VARIABLES
    rtc,            \* the real-time clock
    call,           \* idle; date1, time1, date2, time2: the next BIOS call; done
    tm1, tm2,       \* the two readings
    elapsed,        \* history: seconds that have gone by
    began, seen     \* history: elapsed when this call, and the last one that is
                    \* complete, began

clockVars == <<rtc, call, tm1, tm2, elapsed, began, seen>>

----------------------------------------------------------------------------
(* The real-time clock *)

IsLeap(y) == y % 4 = 0 /\ (y % 100 # 0 \/ y % 400 = 0)

MonthLength(y, m) ==
    CASE m = 2              -> IF IsLeap(y) THEN 29 ELSE 28
      [] m \in {4, 6, 9, 11} -> 30
      [] OTHER              -> 31

NextDay(d) ==
    IF d.mday < MonthLength(d.year, d.mon) THEN [d EXCEPT !.mday = @ + 1]
    ELSE IF d.mon < 12 THEN [d EXCEPT !.mday = 1, !.mon = @ + 1]
    ELSE [d EXCEPT !.mday = 1, !.mon = 1, !.year = @ + 1]

NextSecond(d) ==
    IF d.sec < 59 THEN [d EXCEPT !.sec = @ + 1]
    ELSE IF d.min < 59 THEN [d EXCEPT !.sec = 0, !.min = @ + 1]
    ELSE IF d.hour < 23 THEN [d EXCEPT !.sec = 0, !.min = 0, !.hour = @ + 1]
    ELSE NextDay([d EXCEPT !.sec = 0, !.min = 0, !.hour = 0])

ASSUME MomentAssumption ==
    /\ MaxSecs \in Nat
    /\ \A d \in Moments :
          /\ d \in [year : Nat, mon : 1 .. 12, mday : 1 .. 31,
                    hour : 0 .. 23, min : 0 .. 59, sec : 0 .. 59]
          /\ d.mday <= MonthLength(d.year, d.mon)

\* The registers hold two decimal digits each.
Bcd(n) == 16 * (n \div 10) + (n % 10)

DateRegisters ==
    [ch |-> Bcd(rtc.year \div 100), cl |-> Bcd(rtc.year % 100),
     dh |-> Bcd(rtc.mon), dl |-> Bcd(rtc.mday)]

TimeRegisters == [ch |-> Bcd(rtc.hour), cl |-> Bcd(rtc.min), dh |-> Bcd(rtc.sec)]

\* Whoever looks at the clock does so several times a second: a second goes by only
\* after the one before has been seen, but it may do so in the middle of a call.
Tick ==
    /\ elapsed < MaxSecs
    /\ seen = elapsed
    /\ rtc' = NextSecond(rtc)
    /\ elapsed' = elapsed + 1
    /\ UNCHANGED <<call, tm1, tm2, began, seen>>

----------------------------------------------------------------------------
(* time() *)

Digits(n) == (n \div 16) * 10 + (n % 16)

WithDate(tm, regs) ==
    [tm EXCEPT !.year = Digits(regs.ch) * 100 + Digits(regs.cl),
               !.mon = Digits(regs.dh) - 1, !.mday = Digits(regs.dl) - 1]

WithTime(tm, regs) ==
    [tm EXCEPT !.hour = Digits(regs.ch), !.min = Digits(regs.cl), !.sec = Digits(regs.dh)]

NoReading == [year |-> 0, mon |-> 0, mday |-> 0, hour |-> 0, min |-> 0, sec |-> 0]

\* One BIOS call of time().
ReadClock ==
    /\ call \in {"date1", "time1", "date2", "time2"}
    /\ tm1' = CASE call = "date1" -> WithDate(tm1, DateRegisters)
                [] call = "time1" -> WithTime(tm1, TimeRegisters)
                [] OTHER          -> tm1
    /\ tm2' = CASE call = "date2" -> WithDate(tm2, DateRegisters)
                [] call = "time2" -> WithTime(tm2, TimeRegisters)
                [] OTHER          -> tm2
    /\ call' = CASE call = "date1" -> "time1"
                 [] call = "time1" -> "date2"
                 [] call = "date2" -> "time2"
                 [] OTHER          -> "done"
    /\ UNCHANGED <<rtc, elapsed, began, seen>>

CallTime ==
    /\ call = "idle"
    /\ call' = "date1"
    /\ began' = elapsed
    /\ UNCHANGED <<rtc, tm1, tm2, elapsed, seen>>

\* The caller has its answer.
TimeReturned ==
    /\ call = "done"
    /\ call' = "idle"
    /\ tm1' = NoReading
    /\ tm2' = NoReading
    /\ seen' = began
    /\ UNCHANGED <<rtc, elapsed, began>>

MutReading == tm1

\* If the date has changed the first reading may be wrong instead of just old.
Reading ==
    IF \E f \in {"year", "mon", "mday"} : tm1[f] # tm2[f] THEN tm2 ELSE tm1

DaysBefore == <<0, 31, 59, 90, 120, 151, 181, 212, 243, 273, 304, 334>>

\* Days since 1970, from the leap years since 1600.
Days(tm) ==
    LET y == tm.year - 1600
    IN y * 365 + ((y - 1) \div 4 - (y - 1) \div 100 + (y - 1) \div 400 + 1) - 135140
        + DaysBefore[tm.mon + 1] + (IF tm.mon > 1 /\ IsLeap(y) THEN 1 ELSE 0) + tm.mday

Seconds(tm) == ((Days(tm) * 24 + tm.hour) * 60 + tm.min) * 60 + tm.sec

Time == IF Reading.year < 1601 THEN -1 ELSE Seconds(Reading)

ClockInit ==
    /\ rtc \in Moments
    /\ call = "idle"
    /\ tm1 = NoReading /\ tm2 = NoReading
    /\ elapsed = 0 /\ began = 0 /\ seen = 0

----------------------------------------------------------------------------
(* Properties *)

\* The seconds since 1970, by counting leap years, the days of a year's months before
\* the m-th, and the day's seconds.
LeapYears(y) == Cardinality({x \in 1970 .. y - 1 : IsLeap(x)})

MonthDays(y, m) == Cardinality(UNION {{x} \X (1 .. MonthLength(y, x)) : x \in 1 .. m - 1})

DaysSince1970(d) ==
    365 * (d.year - 1970) + LeapYears(d.year) + MonthDays(d.year, d.mon) + d.mday - 1

SecondsSince1970(d) == ((DaysSince1970(d) * 24 + d.hour) * 60 + d.min) * 60 + d.sec

\* time() returns a moment of the call, however its four looks at the clock and the
\* clock's steps, over midnight and the ends of months and years, interleave: it is
\* never made of the date of one day and the time of another (time.c 43-47).
TimeIsOfTheCall ==
    call = "done" =>
        SecondsSince1970(rtc) - Time \in 0 .. elapsed - began
=============================================================================
