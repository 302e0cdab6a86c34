SPECIFICATION Spec
CONSTANTS
    Clients = {c1}
    Factories = {f1, f2}
    Unassigned = Unassigned
    NoRow = NoRow
    MaxRev = 3
    MaxCalls = 1
    QueueCap = 1
    MaxSession = 1
    MaxFaults = 1
    Live = {f1}
INVARIANTS
    IInv
    OwnerKnows
PROPERTY
    BindingFollowsContract
\* The admins and the faults are bounded: a run may come to rest.
CHECK_DEADLOCK FALSE
