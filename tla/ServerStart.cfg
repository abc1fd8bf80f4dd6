SPECIFICATION Spec
CONSTANTS
    w1 = w1
    w2 = w2
    t1 = t1
    t2 = t2
    t3 = t3
    p1 = p1
    p2 = p2
    None = None
    Worker <- TwoWorkers
    Tenant <- ThreeTenants
    Path <- TwoPaths
    Limit <- OneOrTwo
    MaxStarts = 3
INVARIANT ServedMigrated
INVARIANT OldTogether
INVARIANT RowsOfAdmitted
PROPERTY OldKept
PROPERTY TenantLimit
PROPERTY AdmittedServed
CHECK_DEADLOCK FALSE
