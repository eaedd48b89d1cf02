CONSTANTS
  alice = alice
  bob = bob
  carol = carol
  Account = {alice, bob, carol}
  Owners = {alice}
  Resolvers = {alice}
  Nobody = Nobody
  Deadlines = {1}
  Amounts = {1, 2}
  MaxMarkets = 1
  MaxPool = 5
  LastTime = 1
SPECIFICATION Spec
CHECK_DEADLOCK FALSE
INVARIANTS
  SharesCovered
  FairShare
  NoDust
