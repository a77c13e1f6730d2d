SPECIFICATION GatesSpec
CONSTANTS
    c1 = c1
    c2 = c2
    c3 = c3
    Calls <- MCCalls
    Request <- MCRequest
    Tenants = {"t1"}
    Recipients = {"u1"}
    Addresses = {"a1"}
    Rules = {"r1"}
    Events = {"e1"}
    Types = {"ty"}
    Lanes = {"p0"}
    PrefChoices <- MCPrefChoices
    LimitChoices <- MCLimitChoices
    TemplateEdits = {"throws", "deleted"}
    Window = 1
    AgeCap = 2
    DelayCap = 1
    NoPreferences = NoPreferences
    NoAddress = NoAddress
    Day = 2
    BadZone = BadZone
    NoQuiet = NoQuiet
    SandboxTenants = {}
    MaxFaults = 1
    MaxEdits = 1
INVARIANTS GatesTypeOK OneLiveRowPerKey DuplicateOfItsOwnKey NoGateIsSkipped
CHECK_DEADLOCK FALSE
PROPERTIES KeepsLifecycle EveryCallSettles
