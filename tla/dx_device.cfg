SPECIFICATION Spec
CONSTANTS
    Fixed = 2
    Lazy = 2
    MaxGame = 9
    MaxTextures = 3
INVARIANTS
    DeviceFreed

    
CHECK_DEADLOCK FALSE
