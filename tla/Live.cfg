\* Two calls of one connection; two requests over two candidates, the first on
\* the caller's own key, whose circuits open after two failures for one tick.
CONSTANTS
  k1 = k1
  c1 = c1
  c2 = c2
  Keys = {k1}
  Calls = {c1, c2}
  KeyOf <- OneKey
  Budget = 3
  HoldUsd = 2
  Costs = {3}
  NoRow = NoRow
  NoResult = NoResult
  p1 = p1
  p2 = p2
  d1 = d1
  d2 = d2
  r1 = r1
  r2 = r2
  Requests = {r1, r2}
  Candidates = {p1, p2}
  Threshold = 2
  Cooldown = 1
  MaxTime = 1
  Closed = Closed
  Decisions = {d1, d2}
  CandidateOf <- OnePerCandidate
  OwnKey = {p1}
  AboveCeiling = {}
  MaxAttempts = 2
  MaxRetries = 1
SPECIFICATION LiveSpec
CHECK_DEADLOCK FALSE
PROPERTIES
  HoldResolves
  EveryRequestEnds
