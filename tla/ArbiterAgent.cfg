CHECK_DEADLOCK FALSE
SPECIFICATION FairSpec
CONSTANTS
    Edge = {e1}
    Hub = {h1}
    Backend = {b1, b2}
    NoBackend = NoBackend
    MaxReq = 3
INVARIANT TypeOK
INVARIANT LeftBehindOnlyByCallback
INVARIANT NeverSelfInflicted
INVARIANT QueueLostOnlyWhileClosing
INVARIANT CommandedIsListed
PROPERTY HandledInTurn
PROPERTY ForgottenOnlyWithBackend
PROPERTY DeliveredHandled
