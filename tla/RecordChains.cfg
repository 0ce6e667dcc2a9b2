CONSTANTS
  v = v
  w = w
  NoData = NoData
  Broken = Broken
  MaxRecords = 2
  Setting <- SafeSettings
SPECIFICATION Spec
CHECK_DEADLOCK FALSE
INVARIANTS TypeOK RecordsReadBack GoneStaysGone NoBlockOwnedTwice NoBlockLeaks FreeListReadable
PROPERTIES CreateHandsOutFreshIds OperationsReturn
