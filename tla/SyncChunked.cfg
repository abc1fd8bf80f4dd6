SPECIFICATION Spec
CONSTANTS
    m1 = m1
    m2 = m2
    f = f
    fp = fp
    a = a
    b = b
    None = None
    Machine <- TwoMachines
    Name <- Files
    PartOf <- FileAndPart
    Content <- TwoLong
    ChunkSize = 1
    Does <- Everything
    MaxEdits = 3
    MaxMishaps = 1
INVARIANT TypeOK
INVARIANT WholeFiles
