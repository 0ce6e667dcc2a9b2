CONSTANTS
  DATABASE_HEADER_SIZE = 512
  BLOCK_HEADER_SIZE = 23
  PAGE_HEADER_SIZE = 23
  DOCUMENT_HEADER_SIZE = 12
  PAGE_SIZE = 16000
  PAGES_PER_DATA_BLOCK = 100
  UINT_RANGE = 1073741824
  USHORT_RANGE = 65536
  BYTE_RANGE = 256
  Scopes = {1, 2, 3}
  Blocks = {0, 1}
  Pages = {0, 1, 2, 98, 99}
  Documents = {0, 1}
  Sample <- MCSample
SPECIFICATION Spec
INVARIANT HeaderOutsidePages
