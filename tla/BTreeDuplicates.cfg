CONSTANTS
  v = v
  w = w
  NoEntry = NoEntry
  MinEntriesPerNode = 2
  UniqueEntry <- MixedEntries
  DuplicateEntry <- MixedEntries
  MaxEntries = 9
SPECIFICATION Spec
INVARIANT RangeScans
