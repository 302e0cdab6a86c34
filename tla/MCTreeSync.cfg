CONSTANTS
    Areas = {plat, own}
    Folders = {d1, d2, d3, e1, e2}
    Files = {x, y, w, z}
    Names = {m1, m2}
    Top = Top
    None = None
    Platform = plat
    Own = own
    StartFolders = {d1, d2}
    Elsewhere = {e1, e2, z}
    StartFiles = {x, y}
    Admins = {a1, a2}
    People = {p1}
    Walk = 6
    MaxEdits = 2
    MaxLocal = 1
    MaxPulls = 1
    MaxCalls = 3
SPECIFICATION SyncSpec
SYMMETRY Symmetry
INVARIANTS PTreeInv FactoryTreeSound LayoutTaken
\* Edits, calls and pulls are bounded: a run comes to rest.
CHECK_DEADLOCK FALSE
