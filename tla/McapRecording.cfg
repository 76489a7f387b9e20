CONSTANTS
  recorder = recorder
  Writers <- MCWriters
  NoWriter = NoWriter
  BATCH_SIZE = 3
  CHANNEL_BOUND = 2
  MaxStamp = 3
  MaxGood = 7
  Files <- MCFiles
SPECIFICATION FairSpec
INVARIANTS
  RecordingIsTheFile
  MemoryIsBounded
PROPERTIES
  ProcessEnds
  ImplementsRecorder
