\* Up to five blocks and three restarts at any point.
SPECIFICATION Spec
CONSTANTS
  a = a
  b = b
  Acc <- TwoAccounts
  Nobody = Nobody
  Modulus = 4
  Bodies <- SomeBodies
  GenesisBody <- SelfPaid
  Garbage = {0, 3}
  MaxBlocks = 5
  MaxStops = 3
INVARIANTS TypeOK LedgerMatchesChain FileIsChain LinkedButForLoaded
PROPERTIES RestartInventsNothing
CHECK_DEADLOCK FALSE
