\* The chain of a blockchain that has a file, across stops and restarts.
SPECIFICATION Spec
CONSTANTS
  a = a
  b = b
  Acc <- TwoAccounts
  Nobody = Nobody
  Modulus = 4
  Bodies <- SomeBodies
  GenesisBody <- SelfPaid
  Garbage = {0, 3}
  MaxBlocks = 2
  MaxStops = 2
PROPERTY KeepsChain
CHECK_DEADLOCK FALSE
