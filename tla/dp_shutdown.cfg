SPECIFICATION FairProxy
CONSTANTS
  a = a
  Clients <- OneClient
  Kinds <- AllKinds
  IdCount = 2
  PipeCapacity = 2
  Faulty = {"receiver", "forwarder"}
  MaxQueries = 3
INVARIANTS AbortOnlyAfterFailure
PROPERTIES ShutdownEnds
CHECK_DEADLOCK FALSE
