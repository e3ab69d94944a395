CHECK_DEADLOCK FALSE
SPECIFICATION FairSpec
CONSTANTS
    Edge = {e1}
    Hub = {}
    Backend = {b1, b2}
    NoBackend = NoBackend
    MaxReq = 2
PROPERTY ActivatedTakesRequests
