SPECIFICATION BatchSpec
CONSTANTS
  Renamables = {"d", "e", "f"}
  Folder <- FlatFolder
  EntryNames = {"a", "b", "c", "f"}
  MaxItems = 3
  MaxRefusals = 1
INVARIANTS BatchAtomic
CHECK_DEADLOCK FALSE
