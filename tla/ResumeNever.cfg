SPECIFICATION FairSpec
CONSTANTS
    m1 = m1
    m2 = m2
    f = f
    fp = fp
    a = a
    b = b
    None = None
    Machine <- OneMachine
    Name <- Files
    PartOf <- FileAndPart
    Content <- TwoLong
    ChunkSize = 1
    Does <- PushAlone
    MaxEdits = 1
    MaxMishaps = 1
PROPERTY EventuallyPushed
