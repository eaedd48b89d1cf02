CONSTANTS
  Tips <- AnyTips
  Block <- Blocks
  NoBlock = NoBlock
  Number <- NumberOf
  AncestorAt <- Ancestor
  LogsOf <- LogsIn
  MaxReorgDepth = 4
  MaxShrink = 4
  MaxLag = 0
  DeploymentBlock = 1
  LegacyHeads <- NoLegacy
  Indexers = {p1}
  Reindexers = {p1}
  Confirmations = 0
  BatchSize = 2
  ReorgMidRun = TRUE
  ChainId = 1
  EndpointChainIds = {1}
  p1 = p1
  p2 = p2
SPECIFICATION Spec
INVARIANT ArchiveComplete
