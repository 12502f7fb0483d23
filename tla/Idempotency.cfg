SPECIFICATION Spec
CONSTANTS
    k1 = k1
    k2 = k2
    k3 = k3
    r = r
    None = None
    Keys <- MCKeys
    ReloadKeys <- MCReloadKeys
    Ttl = 2
    Caps <- MCCaps
    MaxRuns <- MCMaxRuns
    MaxTime = 3
    MaxBack = 1
INVARIANT ReplaysLatest
PROPERTIES AtMostOnce EvictsOldest
CHECK_DEADLOCK FALSE
