SPECIFICATION Spec
CONSTANTS
  k1 = k1
  k2 = k2
  x1 = x1
  w1 = w1
  w2 = w2
  Absent = Absent
  NoEvent = NoEvent
  NoReading = NoReading
  Handler = Handler
  Key <- TwoKeys
  Matched <- TwoKeys
  Worker <- OneWorker
  FullReconcile = FALSE
  MaxVersion = 1
  MaxInFlight = 1
  MaxDepth = 0
INVARIANT MirrorWhenIdle
PROPERTY ImplementsFifo
CHECK_DEADLOCK FALSE
