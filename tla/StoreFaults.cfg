SPECIFICATION Spec
CONSTANTS
    w1 = w1
    w2 = w2
    t1 = t1
    t2 = t2
    p1 = p1
    c1 = c1
    c2 = c2
    u1 = u1
    None = None
    Torn = Torn
    Worker <- TwoWorkers
    Tenant <- OneTenant
    Path <- OnePath
    Content <- TwoContents
    Size <- MCSize
    UploadId <- OneUpload
    ClaimedSize <- ClaimedOne
    MaxUploadSize = 2
    MaxChunkCount = 2
    Quota = 2
    Ops <- AllWrites
    Faults <- AllButFill
    MaxCrashes = 1
    MaxVersion = 2
SYMMETRY Workers
INVARIANT QuotaHeld
INVARIANT ChargedAtMostOnce
INVARIANT ReferencedBlobExists
INVARIANT RowIntact
INVARIANT ReceivedChunkOnDisk
PROPERTY SessionStaysGone
CHECK_DEADLOCK FALSE
