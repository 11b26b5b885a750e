SPECIFICATION Spec
CONSTANTS
  main = main
  w1 = w1
  w2 = w2
  NoOwner = NoOwner
  NoPod = NoPod
  NoEvent = NoEvent
  Container <- MainOnly
  PodKey <- RecreatedKey
  Ours <- RecreatedOurs
  Uid <- RecreatedUid
  UidsOf <- RecreatedUidsOf
  Owner <- RecreatedOwner
  OwnerOf <- RecreatedOwnerOf
  Worker <- OneWorker
  FullReconcile = TRUE
  WatchGaps = FALSE
  Status <- OneRestart
  MaxInFlight = 1
PROPERTY EventuallyForgotten
CHECK_DEADLOCK FALSE
