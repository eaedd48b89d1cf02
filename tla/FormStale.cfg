CONSTANTS
  alice = alice
  bob = bob
  Account = {alice}
  OwnAccounts = {alice}
  Others = {}
  Amounts = {1}
  MaxStakes = 2
  Attempts = 2
SPECIFICATION Spec
INVARIANT IndexedIsObserved
