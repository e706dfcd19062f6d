----------------------------- MODULE MCBootMenu -----------------------------
(* Instances of BootMenu for TLC. *)
EXTENDS BootMenu

At(year, mon, mday, hour, min, sec) ==
    [year |-> year, mon |-> mon, mday |-> mday, hour |-> hour, min |-> min, sec |-> sec]

\* A leap day, no leap day, the turn of a century, and a minute like any other.
AroundMidnight ==
    {At(2004, 2, 28, 23, 59, 58), At(2005, 2, 28, 23, 59, 59), At(1999, 12, 31, 23, 59, 58),
     At(2024, 10, 9, 9, 59, 58)}

NoonOnly == {At(2004, 2, 28, 12, 0, 0)}

\* The code counts days as the calendar does, in all of 1970 to 2110.
ASSUME CalendarAgrees ==
    \A y \in 1970 .. 2110 : \A m \in 1 .. 12 : \A d \in 1 .. MonthLength(y, m) :
        LET Tm(t) == [t EXCEPT !.mon = @ - 1, !.mday = @ - 1]
            day   == At(y, m, d, 0, 0, 0)
        IN /\ y = 1970 /\ m = 1 /\ d = 1 => Days(Tm(day)) = 0
           /\ Days(Tm(NextDay(day))) = Days(Tm(day)) + 1
=============================================================================
