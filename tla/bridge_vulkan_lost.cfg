SPECIFICATION FairSpec
CONSTANTS
    GameThreads = {g1}
    PresentAPI <- AllVulkan
    Callers = {w1, w2}
    Controllers = {c1}
    Usable <- BothUsable
    Modern = TRUE
    VkInline = FALSE
    MaxInst = 3
    MaxStops = 0
    NoThread = NoThread
PROPERTIES
    EventuallyReady
