SPECIFICATION ServicesSpec
CONSTANTS
    \* ContentLease
    Bodies = {b1, b2}
    MaxSeal = 3
    MaxIssues = 3
    MaxStarts = 1
    \* FactoryCall
    Factories = {f, g}
    Callers = {x, y}
    Asked = {1, 2}
    MaxQuestions = 3
    \* Enrollment
    Servers = {s1, s2}
    Claims = {c1, c2}
    MaxKeys = 2
    MaxBreaks = 2
    \* Accounts
    People = {p1, p2}
    Requests = {r1, r2}
    MaxRequests = 3
    MaxSessions = 2
    \* OrgUnits
    Units = {u1, u2, u3}
    Members = {m}
    Editors = {e1, e2}
    MaxEdits = 5
    \* PadPresence
    Devices = {d1, d2}
    Persons = {w1, w2}
    MaxConns = 3
SYMMETRY Alike
INVARIANTS
    BodiesOpen
    OwnAnswer
    ClaimedOnce
    ReferencesExist
    RosterIsConnected
PROPERTIES
    AdminsKept
    NewestPadStays
\* Everything that happens is bounded: a run comes to rest.
CHECK_DEADLOCK FALSE
