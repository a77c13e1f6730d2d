SPECIFICATION RealtimeSpec
CONSTANTS
    c1 = c1
    c2 = c2
    Calls <- MCCalls
    Request <- MCRequest
    Sockets = {"s1", "s2"}
    OwnerOf <- MCOwnerOf
    Tenants = {"t1"}
    Recipients = {"u1"}
    Addresses = {"a1"}
    Rules = {"r1"}
    Events = {"e1", "e2"}
    Types = {"ty"}
    Lanes = {"p0"}
    PrefChoices = {}
    LimitChoices = {}
    TemplateEdits = {}
    MaxEdits = 0
    Window = 0
    AgeCap = 1
    DelayCap = 1
    NoPreferences = NoPreferences
    NoAddress = NoAddress
    Day = 1
    BadZone = BadZone
    NoQuiet = NoQuiet
    SandboxTenants = {}
    MaxFaults = 1
INVARIANTS RealtimeTypeOK ConnectedSocketsAreKept EveryInAppReaches
PROPERTIES AckSurvives AcknowledgedIsDelivered
CHECK_DEADLOCK FALSE
