----------------------------- MODULE MCCalendar -----------------------------
(* Two weeks, so that every minute of a week is seen with a week ahead of  *)
(* it.  Quiet hours within a day, over midnight, empty, unset and in an    *)
(* unknown timezone.                                                       *)
EXTENDS Calendar, TLC

MCQuiet ==
    { NoQuiet,
      [start |-> 540,  end |-> 1020, zone |-> 330],
      [start |-> 1320, end |-> 420,  zone |-> 1140],
      [start |-> 600,  end |-> 600,  zone |-> 0],
      [start |-> 1320, end |-> 420,  zone |-> BadZone] }
=============================================================================
