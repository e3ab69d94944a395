\* amqp-source.c:33: two commands in one read.
SPECIFICATION FairSpec
CONSTANT MaxMsg = 3
INVARIANT AwakeForCommands
CHECK_DEADLOCK FALSE
