SPECIFICATION FairSceneSpec
CONSTANTS
  small = small
  large = large
  Size <- MCSize
  Scenes <- OneScene
  Files = {small, large}
  Limits = {2}
  Starters = {s1}
  Cancellers = {}
  Deleters = {}
  Readers = {x1}
  Sweepers = {}
  Purgers = {}
  MaxJobs = 2
  MaxResizes = 0
  MaxCrashes = 1
  MaxResumes = 1
INVARIANTS StagedSound
PROPERTIES StagedEnds
CHECK_DEADLOCK FALSE
