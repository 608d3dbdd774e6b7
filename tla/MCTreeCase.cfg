CONSTANTS
  a = a
  b = b
  UpperA = UpperA
  Callers = {c1}
  AllNames <- Anything
  Names <- TwoCases
  Fold <- LowerCase
  MaxDepth = 2
  MaxDirs = 3
  MaxFiles = 0
  Segs = 1
  MaxRefresh = 1
  MaxFaults = 0
  Overlap = FALSE
  Damaged <- NoDamage
SPECIFICATION TreeSpec
INVARIANT IndexBacked

CHECK_DEADLOCK FALSE
