CONSTANTS
  w1 = w1
  w2 = w2
  Writers <- MCWriters
  NoWriter = NoWriter
  BATCH_SIZE = 2
  Stamps <- MCStamps
  MaxCalls = 2
SPECIFICATION FairSpec
INVARIANTS
  TypeOK
  WrittenIsCommitted
  FailureNamesFirstLost
PROPERTIES
  InsertReturns
  ImplementsContract
