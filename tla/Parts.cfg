\* Each of the parts that share no state, in bounds of its own.
SPECIFICATION PartsSpec
CONSTANTS
    \* encrypted DNS
    Modes = {"doh", "odoh"}
    None = "no"
    MaxFaults = 2
    \* the tunnel: two calls at once
    TgCalls = {1, 2}
    Ports = {1443, 2443}
    Domains = {"-"}
    DefaultPort = 1443
    NoDomain = "-"
    MaxSecrets = 1
    TgMaxFaults = 1
    Streams <- MCStreams
    \* hosts, rules, lookups
    HostNames = {"n1", "n2", "n3"}
    HostAddresses = {"a", "b", "six"}
    Mappings <- MCMappings
    Requests <- MCRequests
    Addresses6 = {"six"}
    MaxLines = 3
    Filters <- MCFilters
    Wans = {{}, {"ip4"}}
    MaxNth = 2
    Targets <- MCTargets
    \* the routes to Telegram: pauses of 1 and 2 ticks
    FrontCount = 2
    RelayAddresses <- MCRelayAddresses
    UserDomains <- MCUserDomains
    UserWorkers <- MCUserWorkers
    TunnelHosts <- MCTunnelHosts
    Failing = {"relay", "cdn", "direct"}
    FailuresBeforeSuppress = 2
    CdnFailuresBeforeSuppress = 1
    MaxDoublings = 1
    SuppressMax = 2
    RestoredMax = 1
    ClockShifts = {0, 5}
    PlanInputs <- MCPlanInputs
    \* two lists against one change; a file of the user's may be held; three periods
    StoreThreads = {1, 2}
    CallsOf <- MCCallsOf
    Names = {"a", "b", "c"}
    Wanted = {"c"}
    Variants <- MCVariants
    Titles = {"x"}
    Builtin <- MCBuiltin
    UserAtStart <- MCUserAtStart
    Holdable = {"b"}
    MaxCalls <- MCMaxCalls
    MaxStamp = 2
    MaxBucket = 2
INVARIANTS
    Settled FileFollowsTunnel FramesAreMessages
    BlockHoldsRows QueuedOnce EchoesAreDropped UnmarkedIsWhole
    NeverWithoutRoute CrashLosesNothing ListIsFresh
PROPERTIES
    AdaptersAfterAnswer FailedStartRestores
    ApplyIsIdempotent OthersKept
CHECK_DEADLOCK FALSE
