CONSTANTS
  DATABASE_HEADER_SIZE = 2
  BLOCK_HEADER_SIZE = 1
  PAGE_HEADER_SIZE = 1
  DOCUMENT_HEADER_SIZE = 1
  PAGE_SIZE = 2
  PAGES_PER_DATA_BLOCK = 4
  UINT_RANGE = 64
  USHORT_RANGE = 8
  BYTE_RANGE = 4
  Scopes = {0, 1, 2, 3, 4, 5, 6, 7}
  Blocks = {0, 1, 3, 7}
  Pages = {0, 1, 3, 7}
  Documents = {0, 7}
  Sample <- MCSample
SPECIFICATION Spec
INVARIANTS WithScopeKeepsTheRest PagesDisjoint PageInsideItsBlock EqualSamePosition
