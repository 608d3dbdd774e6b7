SPECIFICATION ServingSpec
CONSTANTS
  Accounts = {"u1", "u2"}
  Founder = "u1"
  Clients = {c1}
  Admins = {h1}
  MaxTokens = 1
  CacheLimit = 0
  MaxSecret = 2
  Ranges = {r1, r2}
  Panels = {p1}
  Size = 2
  MaxDownloads = 2
  MaxFired = 2
  MaxOverrun = 1
  FileSizes = {0, 6, 10}
  SegSize = 7
  MinChunk = 1
  MaxChunk = 2
  InitialWindow = 2
  MaxWindow = 4
  Concurrency = 2
  Buffers = 2
  MaxCopy = 2
  ShortDocs = {0, 5}
  MaxSegment = 2
  MaxOffset = 10
  MaxChunkFaults = 1
  RefAccounts = {"x", "y"}
  RefStreams = {"s1", "s2"}
  Chunks <- MCChunks
  MaxStale = 1
  MaxRebuilds = 1
  Renamables = {"d", "e", "f"}
  Folder <- MCFolder
  EntryNames = {"a", "b", "c"}
  MaxItems = 2
  MaxRefusals = 1
INVARIANTS
  AccessSound DownloadSound StreamExact StreamMoves HandlesFit BatchAtomic
PROPERTIES CancellationStays
CHECK_DEADLOCK FALSE
