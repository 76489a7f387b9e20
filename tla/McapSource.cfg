CONSTANTS
  CHANNEL_BOUND = 2
  MaxStamp = 3
  MaxRecords = 5
  MayPanic = TRUE
  Files <- MCFiles
SPECIFICATION FairSpec
INVARIANTS
  TypeOK
  InOrderNoGap
  NothingAfterError
  EndMeansComplete
  ReadAheadBounded
PROPERTIES
  CallReturns
  DropReturns
  ImplementsContract
