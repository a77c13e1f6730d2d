SPECIFICATION FairReleaseSpec
CONSTANTS
    c1 = c1
    c2 = c2
    Calls <- MCCalls
    Request <- MCRequest
    Runs = {"j1"}
    ServerEmail = TRUE
    Nobody = Nobody
    Tenants = {"t1", "t2"}
    Recipients = {"u1"}
    Addresses = {"a1"}
    Rules = {"r1", "r2"}
    Events = {"e1"}
    Types = {"ty"}
    Lanes = {"p0"}
    PrefChoices <- MCPrefChoices
    LimitChoices <- NoLimitChoices
    TemplateEdits = {"throws"}
    MaxEdits = 1
    Window = 0
    AgeCap = 1
    DelayCap = 1
    NoPreferences = NoPreferences
    NoAddress = NoAddress
    Day = 3
    BadZone = BadZone
    NoQuiet = NoQuiet
    SandboxTenants = {"t1"}
    MaxFaults = 0
PROPERTY HealthyHeldIsReleased
CHECK_DEADLOCK FALSE
