SPECIFICATION Spec
CONSTANTS
  i1 = i1
  i2 = i2
  i3 = i3
  v1 = v1
  v2 = v2
  m1 = m1
  m2 = m2
  v3 = v3
  none = none
  None = none
  Ids = {i1, i2}
  Vectors = {v1}
  Metas = {m1}
  DimOf <- SameDims
  MaxVectors = 1
  MaxBytes = none
  Oversized = {}
  CheckpointFrequency = 99
  CheckpointInterval = FALSE
  Ops = {"insert", "checkpoint"}
  CrashPoints = {"idle"}
  TornWrites = FALSE
  MaxSeq = 3
  MaxSlots = 8
  MaxCrashes = 1
INVARIANT OpenNeverFails
