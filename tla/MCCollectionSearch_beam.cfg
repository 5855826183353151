SPECIFICATION Spec
CONSTANTS
  i1 = i1
  i2 = i2
  i3 = i3
  None = None
  Ids = {i1, i2, i3}
  Points <- ThreePoints
  Metas <- Metadatas
  Documents <- SomeDocuments
  Queries <- OneQuery
  QueryFilters <- SomeFilters
  Configs <- OnlyHnsw
  FlatMaxVectors = 2
  IvfMaxVectors = 3
  NumClusters = 2
  NumProbes = 1
  MaxIterations = 2
  M = 8
  MMax = 16
  EfConstruction = 8
  EfSearch = 2
  MaxLayer = 1
  Euclidean = FALSE
  Enabled = TRUE
  MaxSize = 2
  FilterOverfetch = 2
  CheckpointFrequency = 2
  MaxWrites = 4
CHECK_DEADLOCK FALSE
SYMMETRY IdSymmetry
INVARIANT
  BeamHoldsTheBest
