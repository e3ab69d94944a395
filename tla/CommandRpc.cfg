CHECK_DEADLOCK FALSE
SPECIFICATION FairSpec
CONSTANTS
    Edge = {e1}
    Hub = {h1}
    Arbiter = a
    Faults = {"link", "exit"}
    MaxCmd = 2
    MaxStale = 1
INVARIANT TypeOK
INVARIANT ReplyQueuesReclaimed
PROPERTY CommandsKept
PROPERTY DeafOnlyByAbandoned
PROPERTY CommandsReturn
