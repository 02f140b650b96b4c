SPECIFICATION MCSpec
CONSTANTS
  Channels = {c1}
  Tokens <- MCTokens
  NoToken = 0
  MaxConsumers = 2
  MaxAttempts = 1
  MaxFaults = 2
  Callers = {r1, r2, r3}
  Urls = {u1}
  MaxTries = 2
  MaxRequests = 2
INVARIANTS SocketsCarryTheToken NoSocketLeaks OthersDoNotCancel
PROPERTIES Recovers DeadSessionEnds ReadsEnd
CHECK_DEADLOCK FALSE
