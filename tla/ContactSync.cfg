CONSTANTS
  l1 = l1
  v1 = v1
  v2 = v2
  lead = lead
  quoted = quoted
  customer = customer
  None = none
  Values = {v1, v2}
  Lists = {l1}
  Actions <- MCActions
  OtherActions <- MCOtherActions
  Sessions = {s1, s2}
  CalmChanges = 3
  OtherChanges = 1
SPECIFICATION Spec
SYMMETRY SessionSymmetry
INVARIANTS
  RecordedWasSent
  SkipIsNoop
  SettledAgrees
CHECK_DEADLOCK FALSE
