SPECIFICATION LoopsSpec
CONSTANTS
    \* Presence
    Conns = {a, b, c}
    None = None
    MaxFaults = 2
    \* HoldJobs
    Packs = {k1, k2}
    MaxHolds = 2
    \* WeldPush
    Facts = {w1, w2}
    Flushers = {x}
    SignRetries = 2
    MaxTroubles = 2
    \* SelfUpdate
    Releases = {2, 3}
    MaxDeaths = 1
INVARIANTS
    ShownIsConnected
    NotDisturbed
PROPERTIES
    GhostEnds
    HoldEnds
    FiguresArrive
    Settles
\* Connections, troubles and deaths are bounded: a run comes to rest.
CHECK_DEADLOCK FALSE
