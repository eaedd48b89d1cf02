CONSTANTS
  Tips <- TextTips
  Block <- Blocks
  NoBlock = NoBlock
  Number <- NumberOf
  AncestorAt <- Ancestor
  LogsOf <- LogsIn
  MaxReorgDepth = 3
  MaxShrink = 0
  MaxLag = 0
  DeploymentBlock = 1
  LegacyHeads <- NoLegacy
  Indexers = {p1}
  Reindexers = {p1}
  Confirmations = 1
  BatchSize = 2
  ReorgMidRun = FALSE
  ChainId = 1
  EndpointChainIds = {1}
  p1 = p1
  Text = {"text", "other text"}
  Digest <- Keccak
  MarketId = "m1"
  NewText = "text"
SPECIFICATION InsertSpec
INVARIANTS
  VerifiedIsCommitted
PROPERTIES
  VerifiedStays
  TextOutlivesReorgs
  RerunRestores
