SPECIFICATION FairSpec
CONSTANTS
    Kinds = {process, project}
    All = all
    MaxFails = 3
    Base = 1
    Cap = 3
INVARIANTS
    NoneStranded
    NeverTooSoon
PROPERTIES
    WantServed
    LossTried
