\* One code, presented twice; its key is used and revoked on two instances.
CONSTANTS
  a = a
  x1 = x1
  x2 = x2
  r1 = r1
  r2 = r2
  v1 = v1
  i1 = i1
  i2 = i2
  k1 = k1
  k2 = k2
  Keys = {k1, k2}
  Instances = {i1, i2}
  Codes = {a}
  Exchanges = {x1, x2}
  Auths = {r1, r2}
  Revokes = {v1}
  CodeOf <- OneCode
  InstanceOf <- Placement
  CacheTtl = 2
  CodeTtl = 1
  MaxTime = 2
  NoEntry = NoEntry
  NoKey = NoKey
  NoCode = NoCode
SPECIFICATION Spec
SYMMETRY KeySymmetry
CHECK_DEADLOCK FALSE
INVARIANTS
  TypeOK
  CodeIsSpentOnce
  ReplayReaches
  CutIsLocal
PROPERTY AcceptedIsRecent
