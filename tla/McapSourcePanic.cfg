CONSTANTS
  CHANNEL_BOUND = 2
  MaxStamp = 3
  MaxRecords = 2
  MayPanic = TRUE
  Files <- MCSmallFiles
SPECIFICATION Spec
INVARIANT
  PanicIsSurfaced
