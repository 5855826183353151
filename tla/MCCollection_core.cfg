SPECIFICATION Spec
CONSTANTS
  i1 = i1
  i2 = i2
  i3 = i3
  v1 = v1
  v2 = v2
  m1 = m1
  m2 = m2
  v3 = v3
  none = none
  None = none
  Ids = {i1, i2}
  Vectors = {v1, v2}
  Metas = {m1, m2}
  DimOf <- SameDims
  MaxVectors = none
  MaxBytes = none
  Oversized = {}
  CheckpointFrequency = 2
  CheckpointInterval = TRUE
  Ops <- SingleOps
  CrashPoints <- AnyWhere
  TornWrites = FALSE
  MaxSeq = 3
  MaxSlots = 8
  MaxCrashes = 2
SYMMETRY IdSymmetry
INVARIANTS
  TypeOK
  PointersIntact
  ReadsAreRecoverable
  VectorIndexComplete
  FreshSequence
  OpenNeverFails
PROPERTIES
  ImplementsDurableMap
