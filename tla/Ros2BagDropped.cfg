CONSTANTS
  FETCH_BATCH = 2
  MaxRows = 3
  Bags <- MCDroppedBags
SPECIFICATION Spec
INVARIANT
  NothingDroppedSilently
