SPECIFICATION Spec
CONSTANTS
    f1 = f1
    f2 = f2
    f3 = f3
    x = x
    y = y
    z = z
    None = None
    File <- ThreeFiles
    Content <- Contents
    CONCURRENCY = 2
    MaxDrops = 3
INVARIANT AnnouncesOwnHash
CHECK_DEADLOCK FALSE
