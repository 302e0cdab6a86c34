CONSTANTS
    Processes = {p1, p2}
    Projects = {q1, q2}
    Welds = {k1, k2}
    Sources = {s1, s2}
    ProjectSources = {s2}
    Admins = {a1, a2}
    Absent = Absent
    None = None
    MaxRev = 3
    MaxCalls = 6
INIT PlatformInit
NEXT PlatformNext
SYMMETRY Symmetry
INVARIANTS DepsExist WeldKindsAgree SourcesUnique
PROPERTIES NoLostUpdate
\* Calls and revisions are bounded: a run comes to rest.
CHECK_DEADLOCK FALSE
