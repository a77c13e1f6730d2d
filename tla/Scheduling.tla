----------------------------- MODULE Scheduling -----------------------------
(***************************************************************************)
(* computeScheduledFor of lib/scheduling.ts: when a digest is due.  An     *)
(* instant is a number of minutes since 00:00 UTC on some Sunday.          *)
(***************************************************************************)
EXTENDS Integers

MinutesPerHour == 60
MinutesPerDay  == 1440  \* 24 hours
MinutesPerWeek == 10080 \* 7 days
NineOClock     == 540   \* 09:00
Monday         == 1

Schedules == {"hourly", "daily", "weekly"}

DayStart(t)  == t - (t % MinutesPerDay)
DayOfWeek(t) == (t \div MinutesPerDay) % 7

NextHour(now) == now - (now % MinutesPerHour) + MinutesPerHour

(* Mutant of NextNine: at nine sharp, today's nine is still named.          *)
NextNineInclusive(now) ==
    LET nine == DayStart(now) + NineOClock
    IN  IF nine < now THEN nine + MinutesPerDay ELSE nine

NextNine(now) ==
    LET nine == DayStart(now) + NineOClock
    IN  IF nine <= now THEN nine + MinutesPerDay ELSE nine

(* The source's three-way choice: Sunday 1, Monday 0, otherwise 8 - day.   *)
DaysUntilMonday(dow) ==
    IF dow = 0 THEN 1 ELSE IF dow = Monday THEN 0 ELSE 8 - dow

NextMondayNine(now) ==
    LET nine == DayStart(now) + DaysUntilMonday(DayOfWeek(now)) * MinutesPerDay
                              + NineOClock
    IN  IF nine <= now THEN nine + MinutesPerWeek ELSE nine

ComputeScheduledFor(schedule, now) ==
    IF schedule = "hourly" THEN NextHour(now)
    ELSE IF schedule = "daily" THEN NextNine(now)
    ELSE NextMondayNine(now)
=============================================================================
