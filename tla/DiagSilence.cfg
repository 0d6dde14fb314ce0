\* A task the lane has handed to the pool is dropped without a word by close().
SPECIFICATION DiagSpec
CONSTANTS
    Main = Main
    Coord = Coord
    NoLane = NoLane
    site = site
    ping = ping
    leaf = leaf
    knock = knock
    g1 = g1
    g2 = g2
    g3 = g3
    sites = sites
    leaves = leaves
    Tasks = {site, ping, leaf, knock, g1, g2, g3, Coord}
    Lanes = {sites, leaves}
    LaneOf <- MCLaneOf
    Limit <- MCLimit
    Stages <- MCStages
    Jobs <- MCJobs
    Insisted = {ping, knock}
    Workers = 4
INVARIANT EveryDroppedTaskIsTold
CHECK_DEADLOCK FALSE
