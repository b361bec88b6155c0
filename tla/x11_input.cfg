SPECIFICATION FairSpec
CONSTANTS
    Keys = {f2}
    Positions = {p, q}
    Others = {"key", "focus"}
    MaxQueue = 2
INVARIANTS
    NoLeak
    OncePerHold
    PointerFrozen
PROPERTIES
    PollReturns
