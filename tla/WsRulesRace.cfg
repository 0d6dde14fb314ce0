\* Two threads, no faults: a stop removes the rules of a later start.
SPECIFICATION Spec
CONSTANTS
    r1 = r1
    r2 = r2
    r3 = r3
    Reqs = {r1, r2}
    NoReq = NoReq
    NoPid = NoPid
    Pids <- MCTwoPids
    OnWindows = FALSE
    Does <- DoesAll
    MaxCrashes = 0
    MaxTimeouts = 0
    MaxSpared = 0
    MaxRestarts = 0
INVARIANT RunningEngineHasRules
