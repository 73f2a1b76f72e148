SPECIFICATION FairForwarder
CONSTANTS
  a = a
  Clients <- OneClient
  Kinds <- Forwarded
  IdCount = 2
  PipeCapacity = 2
  Faulty = {"forwarder"}
  MaxQueries = 2
  Nameservers = 2
  Retries = 2
  DnsId <- DistinctIds
  MaxDatagrams = 2
INVARIANTS TypeOKForwarder UniqueIdOwnAnswer AskedEveryone
PROPERTIES ImplementsProxy
CHECK_DEADLOCK FALSE
