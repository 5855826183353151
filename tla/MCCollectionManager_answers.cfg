SPECIFICATION Spec
CONSTANTS
  c1 = c1
  c2 = c2
  docs = docs
  none = none
  None = none
  Names = {docs}
  Clients = {c1, c2}
  Ops <- WaitingRequests
  Budgets = {TRUE, FALSE}
  LowSpace = TRUE
  OpensFail = TRUE
  Dies = TRUE
  MaxRequests = 3
CHECK_DEADLOCK FALSE
PROPERTIES
  AnsweredWithoutBudget
