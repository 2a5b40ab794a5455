SPECIFICATION Spec
CONSTANTS
  alice = alice
  sam = sam
  Accounts = {alice, sam}
  Signers = {sam}
  MaxNonce = 2
  Prices = {1, 2}
  Balances = {1, 2}
  Worlds <- MCWorlds
  PriceBump = 10
  LimitThresholdNonceInQueue = 1
CHECK_DEADLOCK FALSE
INVARIANTS PoolExact PendingExact
PROPERTY DropsExplained
