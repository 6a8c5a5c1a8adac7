\* Three commands of any kind; a send multi is given a count from -1 to 2.
SPECIFICATION Spec
CONSTANTS
  c1 = c1
  c2 = c2
  c3 = c3
  Commands <- ThreeCommands
  FirstKey = FirstKey
  Counts <- SomeCounts
  Width = 5
  Nonces <- SomeNonces
SYMMETRY Symmetry
INVARIANTS TypeOK UniqueOneByOne CounterAhead KeysMatch
CHECK_DEADLOCK FALSE
