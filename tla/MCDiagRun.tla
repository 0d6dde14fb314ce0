----------------------------- MODULE MCDiagRun -----------------------------
(* An instance of DiagRun: a site in a lane of its own that awaits a probe *)
(* in the lane of leaves, which has room for one; a knock in the same lane *)
(* on which the main thread insists; two stages, and a staged task that    *)
(* insists on a plain probe.                                               *)
EXTENDS DiagRun

CONSTANTS site, ping, leaf, knock, g1, g2, g3, sites, leaves

MCLaneOf == [t \in Tasks |-> CASE t = site -> sites
                               [] t \in {leaf, knock} -> leaves
                               [] OTHER -> NoLane]
MCLimit == [l \in Lanes |-> 1]
MCStages == <<{g1, g2}, {g3}>>
MCJobs == [h \in Threads |-> CASE h = Main -> {site, knock, Coord}
                               [] h = site -> {leaf}
                               [] h = g1 -> {ping}
                               [] OTHER -> {}]

(* The instance is one of those in which a run cannot lock up, and in      *)
(* which, as in the code, a task insists on plain tasks only.              *)
MCRank == [t \in Tasks |-> CASE t \in {leaf, knock, ping} -> 0
                             [] t = Coord -> 2
                             [] OTHER -> 1]
ASSUME MCReckoning == Layered(MCRank) /\ EnoughWorkers /\ InsistsOnPlain
=============================================================================
