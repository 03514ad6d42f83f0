SPECIFICATION ApiSpec
CONSTANTS
  Threads = {t1, t2}
  Effects <- MCEffects
  MaxBlocks = 3
  None = None
  Connections = {k1, k2}
  SmartBlocks <- MCSmartBlocks
  Deployers = {"d1", "d2"}
  Contracts = {"c1", "c2", "c3", "c4"}
  MaxSmartChain = 3
  MaxRaceChain = 2
  MaxQueries = 3
  NoTx = NoTx
  Periods = {1, 3}
  Stamps <- MCStamps
  TicksPerSecond = 2
  AgeRange = 8
  MaxStatsChain = 2
  MaxTicks = 3
  Clients = {k1, k2}
  FlowContracts = {c1}
  MaxFlows = 3
INVARIANT NeverUnderstated
PROPERTY CallReturns
INVARIANT CachesExact
INVARIANT PublishedWhole
PROPERTY StatsStop
INVARIANT CallsDeployed
CHECK_DEADLOCK FALSE
