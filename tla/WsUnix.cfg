\* Two threads that may do anything, one timeout, one crash, one restart.
SPECIFICATION Spec
CONSTANTS
    r1 = r1
    r2 = r2
    r3 = r3
    Reqs = {r1, r2}
    NoReq = NoReq
    NoPid = NoPid
    Pids <- MCTwoPids
    OnWindows = FALSE
    Does <- DoesAll
    MaxCrashes = 1
    MaxTimeouts = 1
    MaxSpared = 0
    MaxRestarts = 1
SYMMETRY ReqSymmetry
INVARIANTS OneEngine NoOrphan
PROPERTY StopEndsItsEngine
