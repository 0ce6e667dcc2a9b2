CONSTANTS
  v = v
  w = w
  NoEntry = NoEntry
  MinEntriesPerNode = 1
  UniqueEntry <- UniqueEntries
  DuplicateEntry <- EqualEntries
  MaxEntries = 9
SPECIFICATION Spec
INVARIANTS TypeOK TreeShape Occupancy RangeScans GetFinds
PROPERTY ImplementsIndex
