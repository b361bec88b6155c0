SPECIFICATION PoolSpec
CONSTANTS
    Resources = {r1}
    Images = {a}
    Textures = {t1, t2, t3}
    None = None
    Renderer = "Vulkan"
    Frames = 2
    BatchSize = 2
    PerPool = 1
    MaxPools = 2
    Width = 4
SYMMETRY DataSymmetry
INVARIANTS
    SetsCounted
    RefusedWhenFull
PROPERTIES
    DrawnSurvives
