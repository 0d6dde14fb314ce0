\* Each of the parts with work in the background, in bounds of its own.
SPECIFICATION BackgroundSpec
CONSTANTS
    \* the gate: two threads, each of which asks for both kinds of checks
    u1 = u1
    u2 = u2
    t1 = t1
    t2 = t2
    m1 = m1
    m2 = m2
    Runs = {u1, u2}
    Checkers = {t1, t2}
    Kinds = {m1, m2}
    MayAsk <- SharedKinds
    Interval <- MCInterval
    Start = 3
    MaxTime = 5
    \* name resolution: two calls, two keys, a cache for one
    c1 = c1
    c2 = c2
    c3 = c3
    k1 = k1
    k2 = k2
    q1 = q1
    q2 = q2
    q3 = q3
    Calls = {c1, c2}
    Keys = {k1, k2}
    Queries = {q1, q2}
    NoKey = NoKey
    NoQuery = NoQuery
    SuccessTTL = 1
    FailureTTL = 0
    CacheLimit = 1
    \* a run: a site, two probes, a knock and three staged tasks on four workers
    Main = Main
    Coord = Coord
    NoLane = NoLane
    site = site
    ping = ping
    leaf = leaf
    knock = knock
    g1 = g1
    g2 = g2
    g3 = g3
    sites = sites
    leaves = leaves
    Tasks = {site, ping, leaf, knock, g1, g2, g3, Coord}
    Lanes = {sites, leaves}
    LaneOf <- MCLaneOf
    Limit <- MCLimit
    Stages <- MCStages
    Jobs <- MCJobs
    Insisted = {ping, knock}
    Workers = 4
    \* the check of sites
    Sites = {"a", "b", "c"}
    MaxJobs = 2
    \* the search for a release
    Mirrors = 2
    Versions = {1, 2}
    HeadStart = 1
    ForgejoTime = 4
    MirrorsTime = 4
    RaceTime = 3
    Settle = 1
    LastTick = 10
INVARIANTS
    OnePermit OneQueryPerKey WaitsAreForAnswers SleepersWillBeWoken
    LaneLimitKept NobodyForgotten StagesInOrder NoDeadlock
    ShownDoneIsFinal FailsOnlyWhenAllFailed
PROPERTIES
    PermitComesBack CallsComeBack
    MainReturns JobsEnd JobEnds SearchEnds
CHECK_DEADLOCK FALSE
