\* Two threads on Windows, where kills and a sweep may fail and the server may restart.
SPECIFICATION Spec
CONSTANTS
    r1 = r1
    r2 = r2
    r3 = r3
    Reqs = {r1, r2}
    NoReq = NoReq
    NoPid = NoPid
    Pids <- MCPids
    OnWindows = TRUE
    Does <- DoesChange
    MaxCrashes = 0
    MaxTimeouts = 0
    MaxSpared = 1
    MaxRestarts = 1
SYMMETRY ReqSymmetry
INVARIANTS OneEngine
