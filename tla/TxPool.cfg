\* Two keys posted up to twice each, two validators, batches of one transaction.
SPECIFICATION FairSpec
CONSTANTS
  t1 = t1
  t2 = t2
  v1 = v1
  v2 = v2
  Tx <- TwoKeys
  Reward = Reward
  Validators <- TwoValidators
  BLOCK_SIZE = 2
  MaxPosts = 2
  None = None

INVARIANTS TypeOK SetsSound Tracked SingleCopy
PROPERTIES UnknownOnlyIfNeverAccepted RewardBlockDrains BatchesResolved LifecycleSpec
CHECK_DEADLOCK FALSE
