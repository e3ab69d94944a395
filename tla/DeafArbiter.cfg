CHECK_DEADLOCK FALSE
SPECIFICATION Spec
CONSTANTS
    Edge = {e1}
    Hub = {}
    Faults = {}
    MaxReq = 3
    MaxStale = 0
INVARIANT ActivatedArbiterListens
