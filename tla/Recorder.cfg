CONSTANTS
  r1 = r1
  r2 = r2
  Writers <- MCWriters
  NoWriter = NoWriter
  BATCH_SIZE = 2
  Streams <- MCStreams
  MaxAttempts <- MCMaxAttempts
SPECIFICATION FairSpec
INVARIANTS
  TypeOK
  RowsArePrefix
  LossIsBounded
  ReportIsTrue
PROPERTIES
  RunEnds
