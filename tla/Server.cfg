\* Three threads that each get a loop, three validators that register, a shutdown at any time.
SPECIFICATION FairSpec
CONSTANTS
  w1 = w1
  w2 = w2
  w3 = w3
  v1 = v1
  v2 = v2
  v3 = v3
  Threads <- ThreeThreads
  Validators <- ThreeValidators
  None = None
INVARIANTS TypeOK LeftBehindOnlyIfMissed CountExactUnlessOverlapped
PROPERTIES EveryLoopRuns
CHECK_DEADLOCK FALSE
