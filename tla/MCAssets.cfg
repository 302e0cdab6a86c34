SPECIFICATION AssetsSpec
CONSTANTS
    \* FactoryAssets
    Processes = {p1, p2}
    Projects = {q1, q2}
    Platform = {w1}
    InUse = {p1, q1}
    PadIds = {p2}
    Welds = {k1, k2}
    Users = {u1, u2}
    Managers = {u1}
    Supers = {u1}
    Absent = Absent
    None = None
    MaxRev = 3
    MaxRefs = 1
    MaxSent = 1
    MaxCalls = 2
    \* LegacyImport
    FileOrder <- Order
    Trim <- TrimOf
    Slot <- SlotOf
    Pieces <- PiecesOf
    Spelled <- SpelledOf
    Numbers <- NumbersOf
    Texts = {"x", "y"}
    ImportWelds = {"single", "tbar"}
    Modes = {"keep", "overwrite", "rename"}
    MaxItems = 2
    MaxMeddling = 1
    MaxImports = 2
    \* PlatformImport
    NameMax = 2
SYMMETRY Symmetry
INVARIANTS
    FactoryInv
    RefsAreFiles
    NoCopies
\* Everything that happens is bounded: a run comes to rest.
CHECK_DEADLOCK FALSE
