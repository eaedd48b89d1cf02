CONSTANTS
  alice = alice
  bob = bob
  Account = {alice, bob}
  OwnAccounts = {alice, bob}
  Others = {bob}
  Amounts = {1}
  MaxStakes = 2
  Attempts = 1
SPECIFICATION FairSpec
PROPERTIES
  IndexedIsShown
  ShownIsIndexed
  PollEnds
