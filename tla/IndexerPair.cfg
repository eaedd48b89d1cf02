CONSTANTS
  Tips <- FinalTips
  Block <- Blocks
  NoBlock = NoBlock
  Number <- NumberOf
  AncestorAt <- Ancestor
  LogsOf <- LogsIn
  MaxReorgDepth = 2
  MaxShrink = 0
  MaxLag = 0
  DeploymentBlock = 1
  LegacyHeads <- LegacyFinal
  Indexers = {p1, p2}
  Reindexers = {}
  Confirmations = 2
  BatchSize = 3
  ReorgMidRun = TRUE
  ChainId = 1
  EndpointChainIds = {1}
  p1 = p1
  p2 = p2
SPECIFICATION Spec
INVARIANTS
  TypeOK
  IndexIsBranch
  ArchiveComplete
  IndexIsCanonical
  OneSurvives
