SPECIFICATION ServicesSpec
CONSTANTS
    Nodes = {n1, n2}
    NodeClients = {c1, c2}
    DrainLimits = {0, 1, 2}
    MaxWork = 3
    MaxPairs = 1
    RecClients = {c1, c2}
    NoRecord = NoRecord
    MaxIds = 2
    Fields = {"name", "model"}
    FieldValues = {"u", "v"}
    MaxEdits = 3
    SetClients = {c1, c2}
    TotalSteps = 2
    MaxSettings = 5
    Calls = {q1}
    EventRoom = 1
    MaxEvents = 2
    MaxUnread = 2
    MaxDials = 2
    MaxOps = 5
    ChatIds = {i1, i2, i3}
    MaxClients = 2
    MaxSends = 2
    AcpCallers = {c1, c2}
    MaxAgents = 2
    MaxAcpOps = 3
    Waiters = {c1, c2}
    MaxAborts = 2
    MaxLoops = 2
    MaxDuration = 2
    MaxSwitches = 4
    NTargets = 2
    StaleAfter = 1
    MaxTime = 4
    MaxDrains = 2
    Threshold401 = 2
    Chain <- TheChain
    Cooldowns = {1, 2}
    MaxClock = 3
    HookChains = {"x", "y"}
    Priorities = {1, 2}
    MaxHandlers = 2
    Blocks = {1}
    MaxFrames = 3
    MaxLines = 3
    MaxWords = 3
    MaxTokens = 3
    Texts = {"a", "b", "c"}
    BatchSize = 2
    MaxTexts = 3
    MaxResults = 2
    RouteAgents = {"g", "h"}
    Accounts = {a1, a2}
    Peers = {p1, p2}
    Unset = Unset
    MaxRoutes = 2
    MaxRules = 2
    MaxBinds = 3
    Threads = {t1, t2}
    MaxStrings = 1
INVARIANTS
    ServicesTypeOK
    WorkOnce
    RecordsSound
    ChannelsDeliver
    StopIsComplete
    TargetsKeepUp
    FailedModelsRest
    ChainsRunInOrder
    StreamIsFaithful
    ToolAnswersHonest
    MemorySound
    EmbeddingSound
    FirstRuleDecides
PROPERTIES
    ImplementsWorkQueue
    AnswersSettle
    AbortReachesWaiters
    TypingEnds
CHECK_DEADLOCK FALSE
