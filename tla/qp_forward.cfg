SPECIFICATION FairSpec
CONSTANTS
  a = a
  b = b
  Clients <- TwoClients
  Kinds <- AllKinds
  IdCount = 2
  PipeCapacity = 2
  Faulty = {}
  MaxQueries = 3
INVARIANTS TypeOK Tracked LookupSucceeds
PROPERTIES ReuseNeedsLoad ImplementsRelay 
CHECK_DEADLOCK FALSE
