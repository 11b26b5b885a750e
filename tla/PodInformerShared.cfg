SPECIFICATION Spec
CONSTANTS
  main = main
  w1 = w1
  w2 = w2
  NoOwner = NoOwner
  NoPod = NoPod
  NoEvent = NoEvent
  Container <- MainOnly
  PodKey <- SharedKey
  Ours <- SharedOurs
  Uid <- SharedUid
  UidsOf <- SharedUidsOf
  Owner <- SharedOwner
  OwnerOf <- SharedOwnerOf
  Worker <- OneWorker
  FullReconcile = FALSE
  WatchGaps = FALSE
  Status <- OneRestart
  MaxInFlight = 1
INVARIANT LastRestartCounted
CHECK_DEADLOCK FALSE
