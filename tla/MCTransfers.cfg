SPECIFICATION TransfersSpec
CONSTANTS
  Requests = {}
  Streams = {s1}
  Workers = {w1, w2}
  Completers = {}
  Cancellers = {k1}
  Aborters = {}
  Deleters = {k1}
  SegmentCount = 2
  MaxDocs = 2
  MaxCrashes = 1
  RangeRequests = {r1, r2, r3}
  MaxConns = 2
  MaxSessions = 2
  MaxCallbacks = 2
INVARIANTS UploadSound SessionSound
PROPERTIES NeverRevived TransferEnds RequestAnswered
CHECK_DEADLOCK FALSE
