SPECIFICATION Spec
CONSTANTS
    Resources = {r1, r2}
    Images = {a, b}
    Textures = {t1, t2}
    None = None
    Renderer = "Vulkan"
    Frames = 1
    BatchSize = 1
SYMMETRY DataSymmetry
INVARIANTS
    TypeOK
    LoadingQueued
    Exclusive
    ShowsAttached
