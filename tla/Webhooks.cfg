SPECIFICATION FairWebhooksSpec
CONSTANTS
    c1 = c1
    c2 = c2
    Calls <- MCCalls
    Request <- MCRequest
    Posts = {"w1"}
    Unnamed = {"hard"}
    Reports <- MCReports
    MaxNews = 2
    Codes = {"null", "ok"}
    NoPost = NoPost
    Retention = 0
    Tenants = {"t1"}
    Recipients = {"a1"}
    Addresses = {"a1"}
    Rules = {"r1"}
    Events = {"e1", "e2"}
    Types = {"ty"}
    Lanes = {"p0"}
    PrefChoices = {}
    LimitChoices = {}
    TemplateEdits = {}
    MaxEdits = 1
    Window = 0
    AgeCap = 1
    DelayCap = 1
    NoPreferences = NoPreferences
    NoAddress = NoAddress
    Day = 1
    BadZone = BadZone
    NoQuiet = NoQuiet
    SandboxTenants = {}
    MaxFaults = 1
INVARIANTS WebhooksTypeOK BouncedRowSaysSo NoSendToBurned CallbackStatusIsTrue
CHECK_DEADLOCK FALSE
PROPERTIES HurtfulReportSuppresses
