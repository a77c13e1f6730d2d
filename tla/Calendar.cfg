SPECIFICATION Spec
CONSTANTS
    Day = 1440
    BadZone = BadZone
    NoQuiet = NoQuiet
    Horizon = 20160
    QuietChoices <- MCQuiet
INVARIANT QuietIsOneInterval
PROPERTY DueIsTheNextBoundary
CHECK_DEADLOCK FALSE
