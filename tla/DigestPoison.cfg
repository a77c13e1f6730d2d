SPECIFICATION FairDigestSpec
CONSTANTS
    c1 = c1
    c2 = c2
    c3 = c3
    Calls <- MCCalls
    Request <- OwnRuleRequest
    Runs = {"j1"}
    ServerEmail = TRUE
    DigestTemplate <- MCDigestTemplate
    MaxPerDigest = 1
    Tenants = {"t1", "t2"}
    Recipients = {"u1"}
    Addresses = {"a1"}
    Rules = {"r1", "r2"}
    Events = {"e1", "e2"}
    Types = {"ty"}
    Lanes = {"p0"}
    PrefChoices <- MCPrefChoices
    LimitChoices <- MCLimitChoices
    TemplateEdits = {"throws"}
    MaxEdits = 1
    Window = 0
    AgeCap = 1
    DelayCap = 1
    NoPreferences = NoPreferences
    NoAddress = NoAddress
    Day = 1
    BadZone = BadZone
    NoQuiet = NoQuiet
    SandboxTenants = {}
    MaxFaults = 0
PROPERTY SoundItemGoesOut
CHECK_DEADLOCK FALSE
