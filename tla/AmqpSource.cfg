SPECIFICATION FairSpec
CONSTANT MaxMsg = 5
INVARIANT TypeOK
INVARIANT InOrder
 
 
PROPERTY LostLinkDrains
CHECK_DEADLOCK FALSE
