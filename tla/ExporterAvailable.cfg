SPECIFICATION Spec
CONSTANTS
  Word = 8
  Invalid = Invalid
  Nobody = Nobody
  Namespace <- MCNamespace
  Hash <- MCHash
  Replica <- MCReplica
  Suffix <- MCSuffix
  Flags <- ElectionOnly
  Informer <- BothInformers
  RetryPeriod = 1
  RenewDeadline = 2
  LeaseDuration = 4
  MaxFaults = 0
PROPERTY EventuallyAvailable
