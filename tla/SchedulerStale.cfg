CONSTANTS
  DATABASE_HEADER_SIZE = 1
  BLOCK_HEADER_SIZE = 1
  PAGE_HEADER_SIZE = 1
  DOCUMENT_HEADER_SIZE = 1
  PAGE_SIZE = 1
  PAGES_PER_DATA_BLOCK = 2
  UINT_RANGE = 64
  USHORT_RANGE = 4
  BYTE_RANGE = 4
  v1 = v1
  v2 = v2
  Zero = Zero
  Header = Header
  NoClient = NoClient
  NoRequest = NoRequest
  NoResponse = NoResponse
  NoBuffer = NoBuffer
  Client = {c1}
  Capacity = 1
  Template <- PageTemplates
  Id = {i1}
  Value = {v1, v2}
  Buffer = {b1}
  MayCrash = FALSE
  MaxDisposals = 1
  PoolDepth = 2
SPECIFICATION Spec
INVARIANT PayloadFromStream
