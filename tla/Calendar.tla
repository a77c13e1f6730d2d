------------------------------ MODULE Calendar ------------------------------
(***************************************************************************)
(* One user's settings as the minutes go by: what the two pure clocks of   *)
(* the pipeline, isWithinQuietHours and computeScheduledFor, promise when  *)
(* they are asked again every minute.                                      *)
(***************************************************************************)
EXTENDS Preferences, Scheduling

CONSTANTS QuietChoices, \* the quiet_hours values of a run
          Horizon       \* the last minute of a run

ASSUME CalendarAssumption ==
    /\ QuietChoices \subseteq QuietHours \union {NoQuiet}
    /\ Horizon \in Nat

VARIABLES now, quiet, schedule

vars == <<now, quiet, schedule>>

TypeOK ==
    /\ now \in 0 .. Horizon
    /\ quiet \in QuietChoices
    /\ schedule \in Schedules

Init ==
    /\ now = 0
    /\ quiet \in QuietChoices
    /\ schedule \in Schedules

Tick ==
    /\ now < Horizon
    /\ now' = now + 1
    /\ UNCHANGED <<quiet, schedule>>

Spec == Init /\ [][Tick]_vars

-----------------------------------------------------------------------------
Quiet == IsWithinQuietHours(quiet, now)
Due   == ComputeScheduledFor(schedule, now)

(* A digest boundary, said without the source's case analysis.             *)
IsBoundary(s, t) ==
    \/ s = "hourly" /\ t % MinutesPerHour = 0
    \/ s = "daily"  /\ t % MinutesPerDay = NineOClock
    \/ s = "weekly" /\ t % MinutesPerWeek = Monday * MinutesPerDay + NineOClock

(* Quiet hours are the minutes reached by walking forward from "start" and *)
(* stopping at "end", whether or not the walk crosses midnight: the two    *)
(* branches of isWithinQuietHours are one interval of the 24-hour circle.  *)
QuietIsOneInterval ==
    (quiet # NoQuiet /\ ~ZoneThrows(quiet)) =>
        (Quiet <=> (LocalMinutes(quiet.zone, now) - quiet.start) % Day
                     < (quiet.end - quiet.start) % Day)

(* computeScheduledFor always names the next boundary: the clock never     *)
(* reaches a boundary other than the one it had named, never reaches the   *)
(* named instant without that being a boundary, and on the way there every *)
(* digest that is queued is given the same instant.                        *)
DueIsTheNextBoundary ==
    [][ /\ IsBoundary(schedule, now') <=> now' = Due
        /\ now' = Due \/ Due' = Due ]_vars
=============================================================================
