---------------------------- MODULE Preferences ----------------------------
(***************************************************************************)
(* The pure checks of processor/preferences.ts: is the user opted out of   *)
(* this notification, and is the user's local time inside quiet hours.     *)
(***************************************************************************)
EXTENDS Integers

CONSTANTS
    Day,      \* minutes in a day (a model may use a shorter day)
    BadZone,  \* a timezone string Intl.DateTimeFormat throws a RangeError on
    NoQuiet   \* quiet_hours never set: the column is null

ASSUME DayAssumption == Day \in Nat \ {0}

Minute == 0 .. Day - 1

ASSUME ZoneAssumption == BadZone \notin Minute

(* quiet_hours: start and end as minutes after local midnight.  A timezone *)
(* is its offset from UTC; the API stores any string, hence BadZone.       *)
QuietHours == [start : Minute, end : Minute, zone : Minute \union {BadZone}]

ASSUME NoQuietAssumption == NoQuiet \notin QuietHours

(* opt_out maps a channel, or "all", to event types, or "*": here the set  *)
(* of its <<channel, type>> pairs.                                         *)
CheckOptOut(optOut, channel, type) ==
    \E scope \in {channel, "all"}, t \in {type, "*"} : <<scope, t>> \in optOut

LocalMinutes(zone, now) == (now + zone) % Day

(* isWithinQuietHours throws before it compares anything.                  *)
ZoneThrows(quiet) == quiet # NoQuiet /\ quiet.zone = BadZone

SameDayQuiet(quiet, m) == quiet.start <= m /\ m < quiet.end

(* Mutant of OvernightQuiet: "end" counts as quiet.                         *)
OvernightQuietClosed(quiet, m) == quiet.start <= m \/ m <= quiet.end

OvernightQuiet(quiet, m) == quiet.start <= m \/ m < quiet.end

(* Half open: the minute "end" is not quiet, and start = end is never quiet. *)
IsWithinQuietHours(quiet, now) ==
    /\ quiet # NoQuiet
    /\ quiet.zone # BadZone
    /\ LET m == LocalMinutes(quiet.zone, now)
       IN  \/ quiet.start <= quiet.end /\ SameDayQuiet(quiet, m)
           \/ quiet.start > quiet.end /\ OvernightQuiet(quiet, m)
=============================================================================
