CONSTANTS
  k1 = k1
  c1 = c1
  c2 = c2
  Keys = {k1}
  Calls = {c1}
  KeyOf <- OneKey
  Budget = 3
  HoldUsd = 2
  Costs = {3}
  NoRow = NoRow
  NoResult = NoResult
SPECIFICATION Spec
CHECK_DEADLOCK FALSE
INVARIANT TruncatedIsBilled
