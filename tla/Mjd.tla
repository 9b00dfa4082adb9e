-------------------------------- MODULE Mjd --------------------------------
(***************************************************************************)
(* mjd.c: days as the Topfield counts them, by the formulas of ETSI EN     *)
(* 300 468, and dates.                                                     *)
(*                                                                         *)
(* The code computes with doubles and cuts to an int.  No value that it    *)
(* cuts is nearer to an integer than a double can tell, so that the cut    *)
(* of, say, y * 365.25 is 1461 * y \div 4.  The time zone is left out.     *)
(***************************************************************************)
EXTENDS Integers

YearDays(y) == (1461 * y) \div 4
MonthDays(m) == (306001 * m) \div 10000

\* Mutant of JanFeb: January belongs to the year before.
OnlyJan(m) == IF m = 14 THEN 1 ELSE 0

\* In the formulas January and February are months 14 and 15 of the last year.
JanFeb(m) == IF m \in {14, 15} THEN 1 ELSE 0

\* Years since 1900, month 1..12 and day, as tfdt_to_time() gives mktime().
ToDate(mjd) ==
    LET y == (100 * mjd - 1507820) \div 36525
        m == (10000 * (mjd - YearDays(y)) - 149561000) \div 306001
        d == mjd - 14956 - YearDays(y) - MonthDays(m)
    IN  [year |-> y + JanFeb(m), month |-> m - 1 - 12 * JanFeb(m), day |-> d]

\* The day as time_to_tfdt() computes it from what localtime() gives.
FromDate(date) ==
    LET k == IF date.month \in {1, 2} THEN 1 ELSE 0
    IN  14956 + date.day + YearDays(date.year - k) + MonthDays(date.month + 1 + 12 * k)

\* tfdt_to_time: all ones, in every field, is no date at all, and 0.
NoDate == [year |-> 70, month |-> 1, day |-> 1]
tfdt_to_time(mjd, time) == IF mjd = 65535 /\ time = "all ones" THEN NoDate ELSE ToDate(mjd)

-----------------------------------------------------------------------------
\* The calendar, from 1 March 1900, the first day for which the formulas hold.
Leap(year) == year % 4 = 0 /\ year > 0
DaysIn(year, month) ==
    IF month = 2 THEN (IF Leap(year) THEN 29 ELSE 28)
    ELSE IF month \in {4, 6, 9, 11} THEN 30 ELSE 31

NextDay(date) ==
    IF date.day < DaysIn(date.year, date.month) THEN [date EXCEPT !.day = @ + 1]
    ELSE IF date.month < 12 THEN [date EXCEPT !.day = 1, !.month = @ + 1]
    ELSE [year |-> date.year + 1, month |-> 1, day |-> 1]

FirstDay == 15079

\* Day after day is date after date, from the first to the last that 16 bits
\* can say, and each date becomes the day that it came from (mjd.c:45-57, 83-94).
DayByDay(mjd) ==
    /\ mjd = FirstDay => ToDate(mjd) = [year |-> 0, month |-> 3, day |-> 1]
    /\ tfdt_to_time(mjd + 1, "noon") = NextDay(tfdt_to_time(mjd, "noon"))
    /\ FromDate(tfdt_to_time(mjd, "noon")) = mjd
=============================================================================
