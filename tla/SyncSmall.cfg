SPECIFICATION FairSpec
CONSTANTS
    m1 = m1
    m2 = m2
    f = f
    fp = fp
    a = a
    b = b
    None = None
    Machine <- TwoMachines
    Name <- Files
    PartOf <- FileAndPart
    Content <- ShortAndLong
    ChunkSize = 3
    Does <- PushAndBoth
    MaxEdits = 3
    MaxMishaps = 1
INVARIANT RecordTruthful
INVARIANT StatusForetellsPull
PROPERTY TrackedEditKept
PROPERTY EventuallyPushed
PROPERTY EventuallyPulledOrFull
