SPECIFICATION Spec
CONSTANTS
  main = main
  w1 = w1
  w2 = w2
  NoOwner = NoOwner
  NoPod = NoPod
  NoEvent = NoEvent
  Container <- MainOnly
  PodKey <- MixedKey
  Ours <- MixedOurs
  Uid <- MixedUid
  UidsOf <- MixedUidsOf
  Owner <- MixedOwner
  OwnerOf <- MixedOwnerOf
  Worker <- TwoWorkers
  FullReconcile = TRUE
  WatchGaps = TRUE
  Status <- BackOff
  MaxInFlight = 1
SYMMETRY WorkerSymmetry
INVARIANTS TypeOK RestartCountedOnce
CHECK_DEADLOCK FALSE
