SPECIFICATION FairSpec
CONSTANTS
    Resources = {r1}
    Images = {a}
    Textures = {t1, t2, t3}
    None = None
    Renderer = "OpenGL"
    Frames = 1
    BatchSize = 1
PROPERTIES
    LoadsComplete
