\* Calls: two race for a budget that one hold and a half would fill.  Pay: two
\* callers and three challenges.  Exact: three deliveries of one proof, one of
\* them a top-up, and one of a proof that is too small.  Spend: two clients of
\* one key.
CONSTANTS
  k1 = k1
  c1 = c1
  c2 = c2
  Keys = {k1}
  Calls = {c1, c2}
  KeyOf <- OneKey
  Budget = 3
  HoldUsd = 2
  Costs = {0, 1, 3}
  NoRow = NoRow
  NoResult = NoResult
  f1 = f1
  f2 = f2
  h1 = h1
  h2 = h2
  h3 = h3
  d1 = d1
  d2 = d2
  d3 = d3
  d4 = d4
  p1 = p1
  p2 = p2
  Callers = {f1, f2}
  Challenges = {h1, h2, h3}
  AmountOf <- Asked
  MaxAmount = 2
  PerRequestCap = 2
  PerProcessCap = 3
  MaxPaymentRetries = 1
  MaxPays = 5
  NoChallenge = NoChallenge
  Deliveries = {d1, d2, d3, d4}
  Payments = {p1, p2}
  ProofOf <- Proofs
  CreditOf <- Treasured
  TopUps = {d3}
  PriceOf <- AskedFor
  ConsumedTtl = 1
  MaxNow = 2
  NotConsumed = NotConsumed
  l1 = l1
  l2 = l2
  g1 = g1
  Lanes = {l1, l2}
  SpendInstances = {i1}
  SpendKeys = {g1}
  LaneHome <- LaneHomes
  LaneKey <- LaneKeys
  WalletBound = {g1}
  KeyCeiling = 4
  ProjectCeiling = 2
  DayCap = 2
  MaxCost = 2
  RequestCosts = {0, 2}
  Window = 1
  DayLength = 2
  MaxClock = 2
  MaxRequests = 4
  NoBucket = NoBucket
  i1 = i1
SPECIFICATION BudgetsSpec
SYMMETRY CallSymmetry
CHECK_DEADLOCK FALSE
INVARIANTS
  ZeroDrift
  ServedUnderHold
  LedgerMatchesAnswers
  AttemptedNeverFreed
  NoLeakWithoutFault
  OnePaymentPerChallenge
  CapOvershoot
  ServedOnceUnlessOverlapping
  PaidIsTaken
  BreakerOvershoot
  MetersAgree
PROPERTY EscrowSpec
