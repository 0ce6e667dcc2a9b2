CONSTANTS
  DATABASE_HEADER_SIZE = 1
  BLOCK_HEADER_SIZE = 1
  PAGE_HEADER_SIZE = 1
  DOCUMENT_HEADER_SIZE = 1
  PAGE_SIZE = 1
  PAGES_PER_DATA_BLOCK = 2
  UINT_RANGE = 64
  USHORT_RANGE = 4
  BYTE_RANGE = 4
  v1 = v1
  v2 = v2
  Zero = Zero
  Header = Header
  NoClient = NoClient
  NoRequest = NoRequest
  NoResponse = NoResponse
  NoBuffer = NoBuffer
  Client = {c1, c2}
  Capacity = 1
  Template <- StoreTemplates
  Id = {i1, i2}
  Value = {v1, v2}
  Buffer = {b1, b2}
  MayCrash = TRUE
  MaxDisposals = 2
  PoolDepth = 2
SPECIFICATION Spec
INVARIANTS HeaderIntact BuffersPrivate
PROPERTIES ImplementsFileStore PayloadStable
SYMMETRY Symmetry
