SPECIFICATION Spec
CONSTANTS
  a = a
  b = b
  Clients <- TwoClients
  Kinds <- WithManaged
  IdCount = 4
  PipeCapacity = 4
  Faulty = {}
  MaxQueries = 5
INVARIANTS RightClient
CHECK_DEADLOCK FALSE
