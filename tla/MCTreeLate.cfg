CONSTANTS
  a = a
  b = b
  UpperA = UpperA
  Callers = {c1}
  AllNames <- Anything
  Names <- TwoNames
  Fold <- LowerCase
  MaxDepth = 2
  MaxDirs = 2
  MaxFiles = 1
  Segs = 1
  MaxRefresh = 1
  MaxFaults = 0
  Overlap = FALSE
  Damaged <- NoDamage
SPECIFICATION TreeSpec
INVARIANT WriterReproduces
SYMMETRY Interchangeable
CHECK_DEADLOCK FALSE
