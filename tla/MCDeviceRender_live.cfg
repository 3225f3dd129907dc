SPECIFICATION FairSpec
CONSTANTS
  w1 = w1
  w2 = w2
  None = None
  Devices = {1, 2}
  Group <- TwoGroups
  MaxTV = 4
  SpecOf <- Reverted
  Broken = {"C"}
  Budgets <- MaxOrNone
  Workers = {w1}
  MaxEdits = 0
  MaxMishaps = 1
  MaxFailures = 0
  MaxLosses = 0
INVARIANT LabelHonest
PROPERTIES NoPhantomRender RenderConverges
CHECK_DEADLOCK FALSE
