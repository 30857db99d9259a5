SPECIFICATION FairSpec
CONSTANTS
  Setups <- MCSetups
  Lengths <- MCLengths
  MaxThreads = 2
  MaxPasses = 1
INVARIANTS
  LoadBounded
  SequencesApart
PROPERTY
  Leaves
CHECK_DEADLOCK FALSE
