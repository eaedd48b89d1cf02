CONSTANTS
  alice = alice
  bob = bob
  Account = {alice, bob}
  Owners = {alice}
  Resolvers = {alice}
  Nobody = Nobody
  Deadlines = {1}
  Amounts = {1}
  MaxMarkets = 2
  MaxPool = 2
  LastTime = 0
  MaxBlocks = 3
  MaxCalls = 3
  MaxBigint = 7
  MaxBatchSize = 3
  DefaultLimit = 1
  MaxLimit = 2
  ApiEnvironments <- Settings
  Limits <- AskedLimits
SPECIFICATION PipelineSpec
INVARIANTS
  ServedIsOnChain
  StoreAccepts
  LogsAreAsAssumed
  WalkMissesNothing
PROPERTIES
  MovesAsAbstract
