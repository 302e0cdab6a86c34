SPECIFICATION FairSpec
CONSTANTS
    MaxRev = 2
    MaxFaults = 1
INVARIANT
    LifecycleInv
PROPERTIES
    StatusArrives
    BootCloses
\* WAN's revisions are bounded, and the channel of a retired factory stops
\* for good: a run comes to rest.
CHECK_DEADLOCK FALSE
