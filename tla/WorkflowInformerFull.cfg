SPECIFICATION Spec
CONSTANTS
  k1 = k1
  k2 = k2
  x1 = x1
  w1 = w1
  w2 = w2
  Absent = Absent
  NoEvent = NoEvent
  NoReading = NoReading
  Handler = Handler
  Key <- OneKey
  Matched <- OneMatched
  Worker <- TwoWorkers
  FullReconcile = TRUE
  MaxVersion = 1
  MaxInFlight = 0
  MaxDepth = 0
INVARIANTS TypeOK OnlyMatched
PROPERTIES EventuallyMirrors EverythingStops
CHECK_DEADLOCK FALSE
