CONSTANTS
  new1 = new1
  new2 = new2
  old = old
  Openers <- MCPair
  Nobody = Nobody
  Earlier = Earlier
  Supported <- MCPairSupported
  MaxVersion = 1
SPECIFICATION Spec
PROPERTY
  FailureLeavesPrevious
