SPECIFICATION FairSpec
CONSTANTS
  p = p
  q = q
  d = d
  r = r
  Posts <- MCPosts
  Deletes <- MCDeletes
  Readers <- MCReaders
  Size <- MCSize
  Chunk = 2
  Batch = 2
  Limit = 2
  Key = 1
  NoKey = 0
  MaxFails = 1
INVARIANTS
  Contiguous
  PostsKept
  ReadersComplete
  UsageCovers
PROPERTIES
  GoneForGood
  AllAnswered
  ImplementsHistory
