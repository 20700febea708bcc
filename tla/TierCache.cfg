CONSTANTS
  a1 = a1
  a2 = a2
  u1 = u1
  u2 = u2
  Askers = {a1, a2}
  Asks <- Turns
  LiveBackends = 1
  Answers <- Opinions
  OnLow = "escalate"
  TopTier = 2
  DecisionTtl = 1
  DecisionMax = 2
  MaxAsks = 3
  MaxTierClock = 2
  NoAsk = NoAsk
  NoVerdict = NoVerdict
SPECIFICATION TierSpec
CHECK_DEADLOCK FALSE
INVARIANT FloorIsNeverUndercut
