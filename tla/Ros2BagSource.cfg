CONSTANTS
  FETCH_BATCH = 2
  MaxRows = 5
  Bags <- MCBags
SPECIFICATION PollingSpec
INVARIANTS
  TypeOK
  PagesLoseNothing
  NoneMeansAllRows
PROPERTY
  SkippingGetsThrough
