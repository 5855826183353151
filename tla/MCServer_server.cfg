SPECIFICATION Spec
CONSTANTS
  r1 = r1
  r2 = r2
  r3 = r3
  t1 = t1
  t2 = t2
  None = None
  Garbage = Garbage
  Requests = {r1, r2, r3}
  Scenarios <- AllScenarios
  MaxRetries = 2
  InitialDelay = 2
  MaxDelay = 3
  Capacity = 1
CHECK_DEADLOCK FALSE
INVARIANTS
  TypeOK
  StoredAsEmbedded
  RetriesBounded
  PaidOnceUnlessRaced
  MetricsAddUp
  EnvironmentInForce
  ConfigUsable
PROPERTIES
  EveryRequestEnds
