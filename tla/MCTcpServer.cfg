CONSTANTS
  acceptor = acceptor
  Nothing = Nothing
  Sockets = {s1}
  Buffers = {b1, b2}
  Faults = {"accept", "memory", "throw", "unset", "other"}
  MaxCalls = 2
  MaxInFlight = 2
SYMMETRY BufferSymmetry
SPECIFICATION Spec
INVARIANTS TypeOK InFlightAlive NoPinLeft LoopsDoNotMultiply AbortedByScript
CHECK_DEADLOCK FALSE
