SPECIFICATION Spec
CONSTANTS
  c1 = c1
  c2 = c2
  docs = docs
  none = none
  None = none
  Names = {docs}
  Clients = {c1, c2}
  Ops <- InsertsOnly
  Budgets = {TRUE}
  LowSpace = FALSE
  OpensFail = FALSE
  Dies = FALSE
  MaxRequests = 2
CHECK_DEADLOCK FALSE
PROPERTIES
  EveryRequestAnswered
