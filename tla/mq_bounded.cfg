SPECIFICATION FairSpec
CONSTANTS
  p1 = p1
  p2 = p2
  c1 = c1
  c2 = c2
  e1 = e1
  e2 = e2
  NoEntry = NoEntry
  Producers <- TwoProducers
  Consumers <- TwoConsumers
  Pollers <- NoPollers
  Entry <- Entries
  Limit = 1
  PipeCapacity = 3
INVARIANTS TypeOK Conservation LimitRespected NoLostReadWakeup NoLostWriteWakeup WriteNeverBlocks
PROPERTIES ImplementsFairChannel
