SPECIFICATION FairSpec
CONSTANTS
  p1 = p1
  p2 = p2
  c1 = c1
  c2 = c2
  e1 = e1
  e2 = e2
  NoEntry = NoEntry
  Producers <- OneProducer
  Consumers <- OneConsumer
  Pollers <- OneConsumer
  Entry <- Entries
  Limit <- Unlimited
  PipeCapacity = 3
INVARIANTS NeverStranded PolledPopNeverWaits
PROPERTIES PushReturns
