--------------------------- MODULE Calendar_proofs ---------------------------
(***************************************************************************)
(* The two clocks, for every instant and every length of day.              *)
(***************************************************************************)
EXTENDS Calendar, TLAPS

(* computeScheduledFor never schedules in the past or for this very minute *)
(* and never further ahead than its period.                                *)
THEOREM ScheduledStrictlyLater ==
    ASSUME NEW s \in Schedules, NEW t \in Nat
    PROVE  /\ ComputeScheduledFor(s, t) \in Nat
           /\ ComputeScheduledFor(s, t) > t
           /\ ComputeScheduledFor(s, t) <= t + MinutesPerWeek
<1> USE DEF MinutesPerHour, MinutesPerDay, MinutesPerWeek, NineOClock, Monday
<1>1. CASE s = "hourly"
  BY <1>1 DEF ComputeScheduledFor, NextHour
<1>2. CASE s = "daily"
  BY <1>2 DEF ComputeScheduledFor, NextNine, DayStart
<1>3. CASE s = "weekly"
  BY <1>3 DEF ComputeScheduledFor, NextMondayNine, DayStart, DaysUntilMonday, DayOfWeek
<1> QED
  BY <1>1, <1>2, <1>3 DEF Schedules

(* What it names is a boundary, and it skips none on the way.              *)
THEOREM ScheduledForNextBoundary ==
    ASSUME NEW s \in Schedules, NEW t \in Nat
    PROVE  /\ IsBoundary(s, ComputeScheduledFor(s, t))
           /\ \A u \in Nat : t < u /\ u < ComputeScheduledFor(s, t) => ~IsBoundary(s, u)
<1> USE DEF MinutesPerHour, MinutesPerDay, MinutesPerWeek, NineOClock, Monday
<1>1. CASE s = "hourly"
  BY <1>1 DEF ComputeScheduledFor, NextHour, IsBoundary
<1>2. CASE s = "daily"
  BY <1>2 DEF ComputeScheduledFor, NextNine, DayStart, IsBoundary
<1>3. CASE s = "weekly"
  BY <1>3 DEF ComputeScheduledFor, NextMondayNine, DayStart, DaysUntilMonday,
              DayOfWeek, IsBoundary
<1> QED
  BY <1>1, <1>2, <1>3 DEF Schedules

(* Going round the day from b to a.                                        *)
LEMMA RoundTheDay ==
    ASSUME NEW a \in Minute, NEW b \in Minute
    PROVE  (a - b) % Day = IF b <= a THEN a - b ELSE a - b + Day
<1>1. Day \in Nat /\ Day > 0 /\ a \in 0 .. Day - 1 /\ b \in 0 .. Day - 1
  BY DayAssumption DEF Minute
<1> QED
  BY <1>1

LEMMA LocalMinutesInDay ==
    ASSUME NEW z \in Minute, NEW t \in Nat
    PROVE  LocalMinutes(z, t) \in Minute
<1>1. Day \in Nat /\ Day > 0 /\ z \in Int /\ t + z \in Int
  BY DayAssumption DEF Minute
<1> QED
  BY <1>1 DEF LocalMinutes, Minute

(* The same-day and the overnight branch of isWithinQuietHours are one     *)
(* interval of the circle, whatever the length of the day.                 *)
LEMMA OneInterval ==
    ASSUME NEW q \in QuietHours, q.zone # BadZone, NEW t \in Nat
    PROVE  IsWithinQuietHours(q, t) <=>
             (LocalMinutes(q.zone, t) - q.start) % Day < (q.end - q.start) % Day
<1> DEFINE m == LocalMinutes(q.zone, t)
<1>1. q.start \in Minute /\ q.end \in Minute /\ q.zone \in Minute
  BY DEF QuietHours
<1>2. m \in Minute
  BY <1>1, LocalMinutesInDay
<1>3. /\ (m - q.start) % Day = IF q.start <= m THEN m - q.start ELSE m - q.start + Day
      /\ (q.end - q.start) % Day
           = IF q.start <= q.end THEN q.end - q.start ELSE q.end - q.start + Day
  BY <1>1, <1>2, RoundTheDay
<1>4. q # NoQuiet
  BY NoQuietAssumption
<1>5. /\ Day \in Nat /\ m \in 0 .. Day - 1
      /\ q.start \in 0 .. Day - 1 /\ q.end \in 0 .. Day - 1
  BY <1>1, <1>2, DayAssumption DEF Minute
<1>6. IsWithinQuietHours(q, t) <=>
        \/ q.start <= q.end /\ q.start <= m /\ m < q.end
        \/ q.start > q.end /\ (q.start <= m \/ m < q.end)
  BY <1>4 DEF IsWithinQuietHours, SameDayQuiet, OvernightQuiet
<1> HIDE DEF m
<1>7. (IF q.start <= m THEN m - q.start ELSE m - q.start + Day)
        < (IF q.start <= q.end THEN q.end - q.start ELSE q.end - q.start + Day)
      <=> \/ q.start <= q.end /\ q.start <= m /\ m < q.end
          \/ q.start > q.end /\ (q.start <= m \/ m < q.end)
  BY <1>5
<1> QED
  BY <1>3, <1>6, <1>7 DEF m

THEOREM CalendarTypeOK == Spec => []TypeOK
<1>1. Init => TypeOK
  BY CalendarAssumption DEF Init, TypeOK
<1>2. TypeOK /\ [Tick]_vars => TypeOK'
  BY CalendarAssumption DEF TypeOK, Tick, vars
<1> QED
  BY <1>1, <1>2, PTL DEF Spec

(* isWithinQuietHours is one interval of the user's day, at every minute.  *)
THEOREM QuietIsAlwaysOneInterval == Spec => []QuietIsOneInterval
<1>1. TypeOK => QuietIsOneInterval
  <2> SUFFICES ASSUME TypeOK, quiet # NoQuiet, ~ZoneThrows(quiet)
               PROVE  Quiet <=> (LocalMinutes(quiet.zone, now) - quiet.start) % Day
                                  < (quiet.end - quiet.start) % Day
    BY DEF QuietIsOneInterval
  <2>1. quiet \in QuietHours /\ quiet.zone # BadZone /\ now \in Nat
    BY CalendarAssumption DEF TypeOK, ZoneThrows
  <2> QED
    BY <2>1, OneInterval DEF Quiet
<1> QED
  BY <1>1, CalendarTypeOK, PTL

(* The clock meets a boundary exactly when it meets the scheduled instant. *)
THEOREM DueIsAlwaysTheNextBoundary == Spec => DueIsTheNextBoundary
<1>1. TypeOK /\ [Tick]_vars => [/\ IsBoundary(schedule, now') <=> now' = Due
                                /\ now' = Due \/ Due' = Due]_vars
  <2> SUFFICES ASSUME TypeOK, Tick
               PROVE  /\ IsBoundary(schedule, now') <=> now' = Due
                      /\ now' = Due \/ Due' = Due
    BY DEF vars
  <2>1. now \in Nat /\ schedule \in Schedules /\ now' = now + 1
    BY CalendarAssumption DEF TypeOK, Tick
  <2>2. now' \in Nat /\ now < now'
    BY <2>1
  <2>3. /\ Due \in Nat /\ Due > now
        /\ IsBoundary(schedule, Due)
        /\ now' < Due => ~IsBoundary(schedule, now')
    BY <2>1, <2>2, ScheduledStrictlyLater, ScheduledForNextBoundary DEF Due
  <2>4. now' = Due \/ now' < Due
    BY <2>1, <2>3
  <2>5. /\ Due' = ComputeScheduledFor(schedule, now')
        /\ Due' \in Nat /\ Due' > now'
        /\ IsBoundary(schedule, Due')
        /\ \A u \in Nat : now' < u /\ u < Due' => ~IsBoundary(schedule, u)
    BY <2>1, <2>2, ScheduledStrictlyLater, ScheduledForNextBoundary DEF Due, Tick
  <2>6. \A u \in Nat : now < u /\ u < Due => ~IsBoundary(schedule, u)
    BY <2>1, ScheduledForNextBoundary DEF Due
  <2>7. now' < Due => Due' = Due
    BY <2>1, <2>2, <2>3, <2>5, <2>6
  <2> QED
    BY <2>3, <2>4, <2>7
<1> QED
  BY <1>1, CalendarTypeOK, PTL DEF Spec, DueIsTheNextBoundary
=============================================================================
