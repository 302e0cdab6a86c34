SPECIFICATION DeliverySpec
CONSTANTS
    Processes = {p}
    Projects = {q}
    ProcessTemplates = {s}
    ProjectTemplates = {t}
    Seeds = {t}
    MaxRev = 3
    MaxChanges = 2
    MaxFaults = 1
INVARIANT
    RoundMirrors
PROPERTY
    AssetsArrive
\* Changes are bounded: a run comes to rest.
CHECK_DEADLOCK FALSE
