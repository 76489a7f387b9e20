CONSTANTS
  new1 = new1
  new2 = new2
  old = old
  Openers <- MCOpeners
  Nobody = Nobody
  Earlier = Earlier
  Supported <- MCSupported
  MaxVersion = 3
SPECIFICATION FairSpec
INVARIANTS
  TypeOK
  SchemaIsRecorded
  OpenedIsMigrated
PROPERTIES
  NoOpenOfTheFuture
  AuditIsFinal
  OpenReturns
  ImplementsHistory
