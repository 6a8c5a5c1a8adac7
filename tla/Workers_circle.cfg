\* Two workers of the pool, three of the blockchain, two clients, four blocks.
SPECIFICATION FairSpec
CONSTANTS
  c1 = c1
  c2 = c2
  Clients <- TwoClients
  Metronome = Metronome
  None = None
  PoolWorkers = 2
  ChainWorkers = 3
  MaxBlocks = 4
PROPERTIES CircleIsForever AnsweredUnlessCircle
CHECK_DEADLOCK FALSE
