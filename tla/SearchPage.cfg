CONSTANTS
  wide = wide
  narrow = narrow
  empty = empty
  refused = refused
  short = short
  a = a
  b = b
  c = c
  None = None
  Query <- Queries
  Long <- LongQueries
  Refused <- RefusedQueries
  Hit <- HitValues
  Hits <- HitsOf
  numPerPage = 2
  MaxPending = 5
SPECIFICATION Spec
CHECK_DEADLOCK FALSE
INVARIANTS TypeOK SettledPageIsRight
PROPERTY QueriesAreAnswered
