\* Two requests of any kind, two failures opening a circuit for one tick; two
\* askers of a cache for one decision; a streamed answer of two tool calls and
\* four pieces in two attempts; two videos over three providers, one of which can
\* be completed; four reporters, a ring of three events and pages of two.
CONSTANTS
  p1 = p1
  p2 = p2
  d1 = d1
  d2 = d2
  d3 = d3
  Requests = {r1, r2}
  Candidates = {p1, p2}
  Threshold = 2
  Cooldown = 1
  MaxTime = 1
  Closed = Closed
  Decisions = {d1, d2, d3}
  CandidateOf <- TwoCandidates
  OwnKey = {p1}
  AboveCeiling = {d3}
  MaxAttempts = 3
  MaxRetries = 1
  Videos = {v1, v2}
  Providers = 3
  MaxFailover = 2
  MaxPolls = 2
  Completing = {v1}
  s1 = s1
  s2 = s2
  b1 = b1
  b2 = b2
  Sources = {s1, s2, b1, b2}
  Local = {b1, b2}
  BatchSize <- Batches
  MaxQueue <- Queues
  Retention = 1
  RingMax = 3
  PageSize = 2
  MaxMade = 5
  Kept <- Earlier
  MaxClk = 1
  MaxRestarts = 1
  a1 = a1
  a2 = a2
  u1 = u1
  u2 = u2
  Askers = {a1, a2}
  Asks <- Turns
  LiveBackends = 2
  Answers <- Opinions
  OnLow = "escalate"
  TopTier = 2
  DecisionTtl = 1
  DecisionMax = 1
  MaxAsks = 3
  MaxTierClock = 2
  MaxToolCalls = 2
  MaxPieces = 4
  MaxStreams = 2
  NoAsk = NoAsk
  NoVerdict = NoVerdict
SPECIFICATION RouterSpec
SYMMETRY RequestSymmetry
CHECK_DEADLOCK FALSE
INVARIANTS
  CommittedIsLast
  PlanIsWalked
  BoundedIsJudged
  FramesNest
  ClientGetsAnswer
  OneJobAtHome
  ClosedIsDelivered
  RingOrdered
PROPERTIES
  CircuitsAreFair
  EveryStepCounts
  BootCoversStored
