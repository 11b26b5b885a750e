SPECIFICATION Spec
CONSTANTS
  q1 = q1
  Nothing = Nothing
  Request <- MCRequest
  Config <- MCConfig
  MaxTime = 3
  MaxCalls = 2
INVARIANTS TypeOK GaugesSettle
PROPERTIES SilenceJudged ReadyBodyAgrees
CHECK_DEADLOCK FALSE
