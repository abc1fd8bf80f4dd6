SPECIFICATION FairSpec
CONSTANTS
    w1 = w1
    w2 = w2
    t1 = t1
    t2 = t2
    p1 = p1
    c1 = c1
    c2 = c2
    u1 = u1
    None = None
    Torn = Torn
    Worker <- TwoWorkers
    Tenant <- TwoTenants
    Path <- OnePath
    Content <- OneContent
    Size <- OneSize
    UploadId <- OneUpload
    ClaimedSize <- ClaimedOne
    MaxUploadSize = 2
    MaxChunkCount = 1
    Quota = 2
    Ops <- NoDelete
    Faults <- NoSteps
    MaxCrashes = 1
    MaxVersion = 2
INVARIANT DownloadIntact
INVARIANT ChargedExceptByCrash
PROPERTY TenantIsolation
PROPERTY WriterReleased
PROPERTY KeepsFiles
CHECK_DEADLOCK FALSE
