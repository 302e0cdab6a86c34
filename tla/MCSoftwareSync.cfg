SPECIFICATION MCSpec
CONSTANTS
    Versions = {1, 2}
    Contents = {a, b}
    Admins = {x, y}
    NoRow = NoRow
    MaxCalls = 2
    MaxFaults = 1
    MaxPrunes = 1
INVARIANTS SameContent NewestComplete
PROPERTY LatestArrives
\* Calls, faults and prunes are bounded: a run comes to rest.
CHECK_DEADLOCK FALSE
