SPECIFICATION SceneSpec
CONSTANTS
  small = small
  large = large
  Size <- MCSize
  Scenes <- UpkeepScenes
  Files = {small, large}
  Limits = {2, 3}
  Starters = {s1, s2}
  Cancellers = {k1}
  Deleters = {d1}
  Readers = {}
  Sweepers = {w1}
  Purgers = {d1}
  MaxJobs = 3
  MaxResizes = 1
  MaxCrashes = 0
  MaxResumes = 0
INVARIANTS StagedSound NoLostBytes
PROPERTIES RoomKept PurgeEmpties
SYMMETRY StarterSymmetry
CHECK_DEADLOCK FALSE
