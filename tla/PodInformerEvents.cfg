SPECIFICATION Spec
CONSTANTS
  main = main
  w1 = w1
  w2 = w2
  NoOwner = NoOwner
  NoPod = NoPod
  NoEvent = NoEvent
  Container <- MainOnly
  PodKey <- ForeignKey
  Ours <- ForeignOurs
  Uid <- ForeignUid
  UidsOf <- ForeignUidsOf
  Owner <- ForeignOwner
  OwnerOf <- ForeignOwnerOf
  Worker <- OneWorker
  FullReconcile = FALSE
  WatchGaps = FALSE
  Status <- OneRestart
  MaxInFlight = 3
INVARIANTS CountersOfStoredPods LastRestartCounted
PROPERTY EventuallyForgotten
CHECK_DEADLOCK FALSE
