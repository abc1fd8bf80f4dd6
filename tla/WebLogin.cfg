SPECIFICATION FairSpec
CONSTANTS
    a1 = a1
    a2 = a2
    None = None
    Login <- TwoLogins
    MaxReloads = 1
INVARIANT OwnVerifier
INVARIANT LoggedOut
PROPERTY LoneLoginSucceeds
PROPERTY SomeTabSucceeds
CHECK_DEADLOCK FALSE
