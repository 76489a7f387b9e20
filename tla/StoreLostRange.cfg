CONSTANTS
  w1 = w1
  w2 = w2
  Writers <- MCWriters
  NoWriter = NoWriter
  BATCH_SIZE = 3
  Stamps <- MCOneCall
  MaxCalls = 1
SPECIFICATION Spec
INVARIANT
  LostRangeIsCovered
