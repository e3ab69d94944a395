CHECK_DEADLOCK FALSE
SPECIFICATION FairSpec
CONSTANTS
    Edge = {}
    Hub = {h1}
    Arbiter = a
    Faults = {"link", "exit"}
    MaxCmd = 3
    MaxStale = 1
PROPERTY CommandsLostWithChannel
PROPERTY CommandsTaken
