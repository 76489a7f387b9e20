CONSTANTS
  FETCH_BATCH = 2
  MaxRows = 3
  Bags <- MCBags
SPECIFICATION PollingSpec
PROPERTY
  SkippingAlwaysEnds
