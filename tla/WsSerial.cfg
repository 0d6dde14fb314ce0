\* One user and one poller, no faults: refinement of Bypass and liveness.
SPECIFICATION FairSpec
CONSTANTS
    r1 = r1
    r2 = r2
    r3 = r3
    Reqs = {r1, r2}
    NoReq = NoReq
    NoPid = NoPid
    Pids <- MCPids
    OnWindows = FALSE
    Does <- DoesSerial
    MaxCrashes = 0
    MaxTimeouts = 0
    MaxSpared = 0
    MaxRestarts = 0
PROPERTIES KeepsPromise EveryRequestAnswered
