CONSTANT MaxPings = 4
SPECIFICATION FairPingSpec
INVARIANT AnsweredOrTimedOut
PROPERTIES OnlyRecentAnswered StopReturns
CHECK_DEADLOCK FALSE
