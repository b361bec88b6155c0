SPECIFICATION Spec
CONSTANTS
    Keys = {f2}
    Positions = {p, q}
    Regions = {free, small}
    Default = free
    RawSize = 1
    Others = {"key", "input"}
    MaxQueue = 1
INVARIANTS
    ClipRight
    OncePerHold
    NoLeak
    CursorFrozen
SYMMETRY PositionsSymmetry
