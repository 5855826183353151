SPECIFICATION Spec
CONSTANTS
  i1 = i1
  i2 = i2
  i3 = i3
  v1 = v1
  v2 = v2
  m1 = m1
  m2 = m2
  v3 = v3
  none = none
  None = none
  Ids = {i1, i2, i3}
  Vectors = {v1, v2, v3}
  Metas = {m1}
  DimOf <- MixedDims
  MaxVectors = 2
  MaxBytes = 3
  Oversized = {v3}
  CheckpointFrequency = 2
  CheckpointInterval = TRUE
  Ops <- AnyOp
  CrashPoints <- NotBeforeCompactIndex
  TornWrites = TRUE
  MaxSeq = 3
  MaxSlots = 8
  MaxCrashes = 1
SYMMETRY IdSymmetry
INVARIANTS
  PointersIntact
  VectorIndexSound
  VectorLimit
