CONSTANTS
  alice = alice
  bob = bob
  carol = carol
  Account = {alice, bob}
  Owners = {alice}
  Resolvers = {bob}
  Nobody = Nobody
  Deadlines = {1, 2}
  Amounts = {1}
  MaxMarkets = 2
  MaxPool = 2
  LastTime = 2
SPECIFICATION Spec
CHECK_DEADLOCK FALSE
INVARIANTS
  TypeOK
  Solvent
  AccountsAddUp
  NeverFrozen
PROPERTY
  Settled
