SPECIFICATION PagingSpec
CONSTANTS
  PAGE_SIZE = 8
  PAGE_ENTRIES = 3
  PAGE_TABLE_POOL_COUNT = 2
  MappedPages <- MCPages
  MappedFrames <- MCFrames
  MapFlags <- MCFlags
INVARIANTS PagingTypeOK TablesNotShared CacheCoherent
PROPERTY ImplementsFlatMap
