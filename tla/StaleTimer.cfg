CHECK_DEADLOCK FALSE
SPECIFICATION Spec
CONSTANT MaxTimers = 1
INVARIANT TimerFiresInNull
