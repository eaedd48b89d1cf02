CONSTANTS
  Tips <- SharedTips
  Block <- Blocks
  NoBlock = NoBlock
  Number <- NumberOf
  AncestorAt <- Ancestor
  LogsOf <- LogsIn
  MaxReorgDepth = 0
  MaxShrink = 0
  MaxLag = 0
  DeploymentBlock = 1
  LegacyHeads <- NoLegacy
  Indexers = {p1, p2}
  Reindexers = {p2}
  Confirmations = 0
  BatchSize = 3
  ReorgMidRun = TRUE
  ChainId = 1
  EndpointChainIds = {1}
  p1 = p1
  p2 = p2
SPECIFICATION Spec
INVARIANT CoverageProven
