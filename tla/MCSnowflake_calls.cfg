\* Two processes of one machine; the clock may be set back once.
SPECIFICATION FairSpec
CONSTANTS
  Generator <- TwoGenerators
  MachineOf <- OneMachine
  Caller <- FourCallers
  GenOf <- LastInSecond
  MaxSequence = 1
  MaxTime = 1
  MaxBack = 1
INVARIANT IdsUnique
PROPERTIES
  IdsIncrease
  EveryCallEnds
CHECK_DEADLOCK FALSE
