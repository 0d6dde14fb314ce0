\* One starting thread and one request the client gave up on.
SPECIFICATION Spec
CONSTANTS
    r1 = r1
    r2 = r2
    r3 = r3
    Reqs = {r1}
    NoReq = NoReq
    NoPid = NoPid
    Pids <- MCTwoPids
    OnWindows = FALSE
    Does <- DoesStart
    MaxCrashes = 0
    MaxTimeouts = 1
    MaxSpared = 0
    MaxRestarts = 0
INVARIANT FailedStartLeavesNothing
