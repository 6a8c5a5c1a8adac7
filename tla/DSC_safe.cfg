\* One key posted once, two validators and the timer, three blocks after genesis.
SPECIFICATION Spec
CONSTANTS
  t1 = t1
  t2 = t2
  v1 = v1
  v2 = v2
  Tx <- OneKey
  Reward = Reward
  Validators <- TwoValidators
  BLOCK_SIZE = 2
  MaxPosts = 1
  MaxHeight = 3
  Timer = Timer
  None = None
INVARIANTS TypeOK MetronomeTracksChain TwiceOnlyIfRaced
PROPERTIES LogSpec
CHECK_DEADLOCK FALSE
