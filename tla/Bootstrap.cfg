\* One copy started or updated at a time, on macOS; every step may fail.
SPECIFICATION FairSpec
CONSTANTS
    Procs = {p1, p2}
    Builds = {b1, b2, b3}
    Launchers = {l1}
    None = None
    KeepPrevious = 1
    MaxInstalls = 3
    Bundled = TRUE
    OneAtATime = TRUE
INVARIANTS
    SelectionIsWhole
    NoHollowRuntime
    StartingIsWhole
PROPERTY
    StartsTerminate
