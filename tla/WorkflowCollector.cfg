SPECIFICATION Spec
CONSTANTS
  c1 = c1
  c2 = c2
  NoWorkflow = NoWorkflow
  NoSeries = NoSeries
  NoCaller = NoCaller
  Namespace <- MCNamespace
  Key <- MCKey
  NamespaceOf <- MCNamespaceOf
  Phase <- MCPhase
  Objects <- MCObjects
  Caller <- MCCaller
INVARIANTS TypeOK AggregatesExact UntouchedStaysPublished NoGhostSeries
PROPERTIES PublishedMovesToTruth ReturnsToTruth
