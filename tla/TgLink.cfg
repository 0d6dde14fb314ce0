\* Two pages ask for the link at the same time; every save works.
SPECIFICATION TgSpec
CONSTANTS
    TgCalls = {1, 2}
    Ports = {1443, 2443}
    Domains = {"-", "w"}
    DefaultPort = 1443
    NoDomain = "-"
    MaxSecrets = 2
    TgMaxFaults = 0
INVARIANT LinkStable
CHECK_DEADLOCK FALSE
