SPECIFICATION DeploymentSpec
CONSTANTS
  MaxFaults = 1
  Quads <- Quad
  Addresses <- Address
  ConfigFiles <- Configs
  NameserverLists <- Lists
INVARIANTS TypeOKSetup NeverSavesOwn ContentKept LinkKept ServersKnown
PROPERTIES RemovalEnds StartsServing
CHECK_DEADLOCK FALSE
