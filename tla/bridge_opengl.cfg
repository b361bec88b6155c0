SPECIFICATION FairSpec
CONSTANTS
    GameThreads = {g1}
    PresentAPI <- AllOpenGL
    Callers = {w1, w2}
    Controllers = {c1}
    Usable <- BothUsable
    Modern = TRUE
    VkInline = FALSE
    MaxInst = 3
    MaxStops = 1
    NoThread = NoThread
INVARIANTS
    TypeOK
    RendererAlive
    StopUndoes
    DetectorRemoved
    NoFault
PROPERTIES
    NeverStacked
    EventuallyReady
