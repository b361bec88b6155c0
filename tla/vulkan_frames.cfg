SPECIFICATION ShotSpec
CONSTANTS
    ImageCounts = {2, 3}
    Formats = {a}
    Fails = {"window", "display"}
    MaxFrames = 5
    MaxDevices = 2
    MaxSwapchains = 3
    None = None
INVARIANTS
    OnPresentedImage
    DeviceCurrent
    InFlightRecent
    AskedIsRead
PROPERTIES
    ShotReturns
CHECK_DEADLOCK FALSE
