SPECIFICATION Spec
CONSTANTS
  c1 = c1
  c2 = c2
  docs = docs
  none = none
  None = none
  Names = {docs}
  Clients = {c1, c2}
  Ops <- ChangingRequests
  Budgets = {FALSE}
  LowSpace = FALSE
  OpensFail = TRUE
  Dies = TRUE
  MaxRequests = 4
CHECK_DEADLOCK FALSE
SYMMETRY ClientSymmetry
INVARIANTS
  TypeOK
  OneInstanceUnlessDisturbed
  ReadsSeeAckedWrites
  AckedOnDisk
  RunningIsTrue
PROPERTIES
  ReadsDoNotCreate
