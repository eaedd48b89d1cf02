CONSTANTS
  Tips <- SharedTips
  Block <- Blocks
  NoBlock = NoBlock
  Number <- NumberOf
  AncestorAt <- Ancestor
  LogsOf <- LogsIn
  MaxReorgDepth = 3
  MaxShrink = 1
  MaxLag = 0
  DeploymentBlock = 1
  LegacyHeads <- NoLegacy
  Indexers = {p1}
  Reindexers = {}
  Confirmations = 1
  BatchSize = 2
  ReorgMidRun = FALSE
  ChainId = 1
  EndpointChainIds = {1}
  p1 = p1
  p2 = p2
SPECIFICATION Spec
INVARIANT NeverStops
