SPECIFICATION WorkersSpec
CONSTANTS
    Tenants = {"t1"}
    Bots = {"b1", "b2"}
    NoBot = NoBot
    Limits = {"l1"}
    NoLimit = NoLimit
    Patches = {"q1", "q2"}
    NoPatch = NoPatch
    Configs <- MCConfigs
    Sources = {"s1", "s2"}
    EditsIn <- MCEditsIn
    Starts <- MCStarts
    OwnerOf <- MCOwnerOf
    Intervals = {1}
    SilenceCap = 2
    Runs = {"run1"}
    Requests = {"post1"}
    NoRun = NoRun
    Users = {"u1", "u2"}
    TenantOf <- MCTenantOf
    Chats = {"x1", "x2"}
    NoChat = NoChat
    MaxTokens = 2
    Links <- MCLinks
    Puts <- MCPuts
    MaxUpdates = 2
    Polls = {"p1", "p2"}
    NoUpdate = NoUpdate
    Events = {"e1", "e2", "junk"}
    EventOf <- MCEventOf
    Rules = {"r1", "r2"}
    RuleOf <- MCRuleOf
    FirstRules <- MCFirstRules
    RuleChoices <- MCRuleChoices
    Recipients = {"ann"}
    NoRecipient = NoRecipient
    Consumer = Consumer
    NoEvent = NoEvent
    MaxEdits = 3
    MaxFaults = 1
INVARIANTS WorkersTypeOK ChatPresentedItsToken OneAlertPerAbsence StampedMeansAlerted NoRuleIsMissed
PROPERTIES PatchKeepsTheRest PresentedTokenLinks StaleIsAlerted PublishedIsHandled
CHECK_DEADLOCK FALSE
