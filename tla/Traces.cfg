CONSTANTS
  NoVal = NoVal
  MaxOps = 4
  MaxHeld = 2
  NumRounds <- MCNumRounds
  KeccakRateBytes <- MCKeccakRateBytes
  OpChoices <- MCOpChoices

SPECIFICATION Spec

INVARIANT TypeOK
INVARIANT CheckpointsInBounds
INVARIANT MemOpsSinceExact
PROPERTY RollbackRestores
