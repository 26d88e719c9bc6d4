CONSTANTS
  PageSize = 3
  RowBytes = 2
  Height = 2
  BufferSize = 9
SPECIFICATION FairSpec
INVARIANTS TypeOK NoStaleByte NoLostUpdate
PROPERTIES StoreReturns PixelsReachWindow
