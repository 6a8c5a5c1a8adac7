\* Two validators and the timer, two blocks after genesis: liveness.  No key is posted, so that
\* every status query goes on to the blockchain with tx_lock held.
SPECIFICATION FairSpec
CONSTANTS
  t1 = t1
  t2 = t2
  v1 = v1
  v2 = v2
  Tx <- OneKey
  Reward = Reward
  Validators <- TwoValidators
  BLOCK_SIZE = 2
  MaxPosts = 0
  MaxHeight = 2
  Timer = Timer
  None = None
PROPERTIES SubmitAnsweredUnlessCircle ChainGrowsUnlessCircle
CHECK_DEADLOCK FALSE
