SPECIFICATION Spec
CONSTANTS
  a = a
  b = b
  Clients <- OneClient
  Kinds <- Forwarded
  IdCount = 2
  PipeCapacity = 2
  Faulty = {"receiver", "forwarder"}
  MaxQueries = 6
INVARIANTS InFlightBounded NoMutualBlock Tracked
CHECK_DEADLOCK FALSE
