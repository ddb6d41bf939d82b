SPECIFICATION PanelSpec
CONSTANTS
    p = p
    q = q
    Profiles = {p, q}
    N = 2
    Denied <- MCDenied
    MaxLoads = 1
    MaxSent = 1
    MaxRuns = 2
INVARIANTS
    PanelTypeOK
PROPERTIES
    RepliesMapWhenAlone
    RunsWhatWasPressed
    RunEnds
CHECK_DEADLOCK FALSE
