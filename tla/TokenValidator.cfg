SPECIFICATION FairSpec
CONSTANTS
    r1 = r1
    r2 = r2
    None = None
    Request <- TwoRequests
    Document <- Documents
    Token <- Tokens
    MaxKey = 2
    MaxMoves = 1
INVARIANT KeyRefusedByRace
PROPERTY EventuallyExact
PROPERTY ValidationEnds
