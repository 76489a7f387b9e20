CONSTANTS
  local = local
  fleet = fleet
  amr1 = amr1
  amr2 = amr2
  None = None
  Unparsable = Unparsable
  Requests <- MCRequests
  Databases <- MCDatabases
  Robots <- MCRobots
  Recording <- MCRecording
  BATCH_SIZE = 2
  MaxStamp = 7
  PRECISION <- MCPrecision
  F64 <- MCF64
  Quotient <- MCQuotient
  Foreign <- MCForeign
  MaxRuns <- MCMaxRuns
SPECIFICATION Spec
INVARIANTS
  TypeOK
  NoDivergenceIsSound
  SameSessionNoDivergence
  PaceIsKept
  WindowsPartition
PROPERTY
  AnswersOnlyGrow
