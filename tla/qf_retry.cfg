SPECIFICATION SpecForwarder
CONSTANTS
  a = a
  Clients <- OneClient
  Kinds <- Foreign
  IdCount = 2
  PipeCapacity = 2
  Faulty = {}
  MaxQueries = 2
  Nameservers = 2
  Retries = 2
  DnsId <- DistinctIds
  MaxDatagrams = 2
PROPERTIES TimeoutMeansSilence
CHECK_DEADLOCK FALSE
