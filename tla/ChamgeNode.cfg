CHECK_DEADLOCK FALSE
SPECIFICATION FairSpec
CONSTANT MaxTimers = 6
INVARIANT TypeOK
PROPERTY LifecycleKept
PROPERTY WedgedForever
PROPERTY RetryNeedsDelist
PROPERTY LazyEnrolmentsDrain
