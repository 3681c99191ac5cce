CONSTANTS
  acceptor = acceptor
  Nothing = Nothing
  Sockets = {s1}
  Buffers = {b1}
  Faults = {}
  MaxCalls = 2
  MaxInFlight = 2
SPECIFICATION FairSpec
PROPERTIES AcceptsAgain
CHECK_DEADLOCK FALSE
