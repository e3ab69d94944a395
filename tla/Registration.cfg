CHECK_DEADLOCK FALSE
SPECIFICATION FairSpec
CONSTANTS
    Edge = {e1}
    Hub = {h1}
    Faults = {"link", "exit"}
    MaxReq = 3
    MaxStale = 0
INVARIANT TypeOK
INVARIANT EnrolledIsListed
PROPERTY DelistedIsUnlisted
PROPERTY SuccessMeansHandled
PROPERTY DevicesAreNodes
PROPERTY DeafOnlyByAbandoned
PROPERTY CallsReturn
PROPERTY DelistTakesEffect
