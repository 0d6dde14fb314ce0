---------------------------- MODULE MCBackground ----------------------------
(* What goes on in the background, in one run: a behaviour chooses one of  *)
(* the parts, which share no state, and follows its specification with its *)
(* fairness; the others stay where nothing is owed to them. Interleaving   *)
(* them would add no behaviour.                                            *)
EXTENDS MCProbeGate, MCNetResolve, MCDiagRun, CheckJob, ReleaseLookup

VARIABLE part

backgroundVars == <<part, gateVars, netVars, diagVars, cjVars, rlVars>>

BackgroundParts == {"gate", "net", "run", "job", "release"}

Of(name) == part = name

(* Where a part rests, no action of it that fairness owes is enabled: a    *)
(* run of the diagnostics and a search for a release are over.             *)
GateRests == /\ userRuns = {} /\ taken = FALSE /\ gatePc = [t \in Checkers |-> "idle"]
             /\ kind = [t \in Checkers |-> m1] /\ now = [t \in Checkers |-> 0]
             /\ lastRun = [k \in Kinds |-> 0] /\ clock = Start
DiagRests == /\ diagPc = [h \in Threads |-> IF h = Main THEN "done" ELSE "new"]
             /\ result = [t \in Tasks |-> "none"]
             /\ queue = <<>> /\ open = FALSE
             /\ waiting = [l \in Lanes |-> <<>>] /\ running = [l \in Lanes |-> 0]
             /\ closed = [l \in Lanes |-> TRUE]
             /\ pumping = [h \in Threads |-> NoLane] /\ hand = [h \in Threads |-> NoTask]
             /\ stage = 0 /\ left = 0 /\ userStopped = FALSE
ReleaseRests == /\ tick = LastTick /\ outcome = Failure
                /\ awaited = << >> /\ failed = Sources /\ good = {} /\ mirrorsAt = Never
                /\ channel = <<>> /\ forgejo = "over"
                /\ race = "over" /\ raceEnd = 0 /\ offers = << >> /\ refused = 1..Mirrors

BackgroundInit ==
    /\ part \in BackgroundParts
    /\ NetInit /\ CjInit
    /\ IF Of("gate") THEN GateInit ELSE GateRests
    /\ IF Of("run") THEN DiagInit ELSE DiagRests
    /\ IF Of("release") THEN RlInit ELSE ReleaseRests

OthersRest ==
    /\ UNCHANGED part
    /\ ~Of("gate") => UNCHANGED gateVars
    /\ ~Of("net") => UNCHANGED netVars
    /\ ~Of("run") => UNCHANGED diagVars
    /\ ~Of("job") => UNCHANGED cjVars
    /\ ~Of("release") => UNCHANGED rlVars

BackgroundNext ==
    \/ Of("gate") /\ GateNext /\ OthersRest
    \/ Of("net") /\ NetNext /\ OthersRest
    \/ Of("run") /\ DiagNext /\ OthersRest
    \/ Of("job") /\ CjNext /\ OthersRest
    \/ Of("release") /\ RlNext /\ OthersRest

BackgroundFairness ==
    GateFairness /\ NetFairness /\ DiagFairness /\ CjFairness /\ RlFairness

BackgroundSpec ==
    BackgroundInit /\ [][BackgroundNext]_backgroundVars /\ BackgroundFairness
=============================================================================
