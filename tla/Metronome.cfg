\* Two workers, a block time of two ticks, an int of eight values, three heights.
SPECIFICATION FairSpec
CONSTANTS
  h1 = h1
  h2 = h2
  Handlers <- TwoHandlers
  None = None
  Timer = Timer
  BLOCK_TIME = 2
  MIN_DIFFICULTY = 1
  INT_RANGE = 8
  Garbage <- ZeroOrMore
  MaxTime = 3
  MaxHeight = 3
INVARIANTS TypeOK NoLostWakeup DifficultyBounded ChainAgrees
PROPERTIES BlockAnswered AcceptedNoticed
CHECK_DEADLOCK FALSE
