CHECK_DEADLOCK FALSE
SPECIFICATION FairSpec
CONSTANTS
    Thread = {loop, t1}
    Loop = loop
    Nobody = Nobody
    Asks = TRUE
INVARIANT TypeOK
INVARIANT HeardInOrder
INVARIANT ListensIfLoopActivates
PROPERTY OnlyOvertakenBreakLifecycle
PROPERTY RequestsReturn
