SPECIFICATION Spec
CONSTANTS
  Word = 8
  Invalid = Invalid
  Nobody = Nobody
  Namespace <- MCNamespace
  Hash <- MCHash
  Replica <- MCReplica
  Suffix <- MCSuffix
  Flags <- AllFlags
  Informer <- WorkflowOnly
  RetryPeriod = 1
  RenewDeadline = 2
  LeaseDuration = 4
  MaxFaults = 3
INVARIANTS TypeOK ExclusivePublishing
PROPERTIES EveryNamespacePublished ShutdownCompletes
