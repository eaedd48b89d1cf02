CONSTANTS
  Tips <- LoopTips
  Block <- Blocks
  NoBlock = NoBlock
  Number <- NumberOf
  AncestorAt <- Ancestor
  LogsOf <- LogsIn
  MaxReorgDepth = 3
  MaxShrink = 0
  MaxLag = 0
  DeploymentBlock = 1
  LegacyHeads <- NoLegacy
  Indexers <- OnlyP1
  Reindexers <- OnlyP1
  Confirmations = 1
  BatchSize = 2
  ReorgMidRun = FALSE
  ChainId = 1
  EndpointChainIds = {1, 2}
  MaxBigint = 7
  MaxBatchSize = 3
  p1 = p1
  Proc <- p1
  CommandLines <- Lines
  Environments <- Settings
  MaxFailures = 6
SPECIFICATION FairWatchSpec
INVARIANTS
  NeverStops
  BackoffIsExponential
  SummaryIsStored
PROPERTIES
  RollbackIsMinimal
  OkMeansSynced
  IsExactIndex
  SafeStartup
  ShutdownEnds
  Converges
