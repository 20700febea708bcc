CONSTANTS
  p1 = p1
  p2 = p2
  d1 = d1
  d2 = d2
  d3 = d3
  Requests = {r1, r2}
  Candidates = {p1, p2}
  Threshold = 1
  Cooldown = 1
  MaxTime = 1
  Closed = Closed
  Decisions = {d1, d2, d3}
  CandidateOf <- TwoCandidates
  OwnKey = {p1}
  AboveCeiling = {d3}
  MaxAttempts = 3
  MaxRetries = 1
SPECIFICATION FairSpec
CHECK_DEADLOCK FALSE
PROPERTY AbortIsNotBlamed
