\* Two servers, three parallel connections, every change of configuration.
SPECIFICATION FairSpec
CONSTANTS
    e1 = e1
    e2 = e2
    c1 = c1
    c2 = c2
    c3 = c3
    NoEndpoint = NoEndpoint
    Endpoints <- MCEndpoints
    Configs <- MCConfigs
    Conns = {c1, c2, c3}
    Window = 1
    FailLimit = 2
    FailObservation = 1
    ZeroLimit = 2
    ZeroObservation = 1
    RetryDelays <- MCDelays
INVARIANT OneProbeInFlight
PROPERTIES PrimaryIsRetried FailsOverAsPromised
