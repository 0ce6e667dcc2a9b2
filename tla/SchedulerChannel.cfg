CONSTANTS
  DATABASE_HEADER_SIZE = 1
  BLOCK_HEADER_SIZE = 1
  PAGE_HEADER_SIZE = 1
  DOCUMENT_HEADER_SIZE = 1
  PAGE_SIZE = 1
  PAGES_PER_DATA_BLOCK = 2
  UINT_RANGE = 64
  USHORT_RANGE = 4
  BYTE_RANGE = 4
  v1 = v1
  v2 = v2
  Zero = Zero
  Header = Header
  NoClient = NoClient
  NoRequest = NoRequest
  NoResponse = NoResponse
  NoBuffer = NoBuffer
  Client = {c1, c2, c3}
  Capacity = 1
  Template <- HeaderTemplates
  Id = {i1, i2, i3}
  Value = {v1, v2}
  Buffer = {b1, b2, b3}
  MayCrash = FALSE
  MaxDisposals = 0
  PoolDepth = 0
SPECIFICATION Spec
INVARIANTS TypeOK OnePlace ChannelBound AnswersOwnRequest
PROPERTY EveryRequestAnswered
