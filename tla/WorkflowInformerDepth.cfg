SPECIFICATION Spec
CONSTANTS
  k1 = k1
  k2 = k2
  x1 = x1
  w1 = w1
  w2 = w2
  Absent = Absent
  NoEvent = NoEvent
  NoReading = NoReading
  Handler = Handler
  Key <- OneMatched
  Matched <- OneMatched
  Worker <- OneWorker
  FullReconcile = FALSE
  MaxVersion = 1
  MaxInFlight = 0
  MaxDepth = 1
INVARIANT DepthWhenIdle
CHECK_DEADLOCK FALSE
