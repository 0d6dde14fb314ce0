\* One call that fails while a mode is switched.
SPECIFICATION LpSpec
CONSTANTS
    Modes = {"doh", "odoh"}
    None = "no"
    MaxFaults = 1
INVARIANT ModeShownRuns
CHECK_DEADLOCK FALSE
