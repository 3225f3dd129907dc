SPECIFICATION Spec
CONSTANTS
  w1 = w1
  w2 = w2
  None = None
  Devices = {1, 2, 3}
  Group <- TwoGroups
  MaxTV = 2
  SpecOf <- Reverted
  Broken = {}
  Budgets <- AllBudgets
  Workers = {w1}
  MaxEdits = 1
  MaxMishaps = 0
  MaxFailures = 1
  MaxLosses = 1
INVARIANTS TypeOK BudgetKept
CHECK_DEADLOCK FALSE
