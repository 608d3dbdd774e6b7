SPECIFICATION DriveSpec
CONSTANTS
  Requests = {r1, r2}
  Streams = {}
  Workers = {}
  Completers = {c1}
  Cancellers = {k1}
  Aborters = {k1}
  Deleters = {}
  SegmentCount = 2
  MaxDocs = 2
  MaxCrashes = 0
  a = a
  b = b
  UpperA = UpperA
  Callers = {c1}
  AllNames <- Anything
  Names <- TwoNames
  Fold <- LowerCase
  MaxDepth = 2
  MaxDirs = 2
  MaxFiles = 1
  Segs = 2
  MaxRefresh = 1
  MaxFaults = 1
  Overlap = FALSE
  Damaged <- DamagedChannels
INVARIANTS
  UploadSound AbortCleansUp
  PathsMatch IndexBacked RebuildReproduces RescueKeepsAll
PROPERTIES NeverRevived
SYMMETRY DriveSymmetry
CHECK_DEADLOCK FALSE
