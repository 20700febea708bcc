CONSTANTS
  i1 = i1
  house = house
  ad = ad
  r1 = r1
  r2 = r2
  m1 = m1
  m2 = m2
  v1 = v1
  v2 = v2
  w1 = w1
  w2 = w2
  c1 = c1
  c2 = c2
  c3 = c3
  s1 = s1
  s2 = s2
  s3 = s3
  n1 = n1
  Instances = {i1}
  House = {house}
  Advertised = {ad}
  Price <- Prices
  Bought <- Blocks
  Requests = {r1, r2}
  Impressions = {m1, m2}
  Verifies = {v1, v2}
  At <- Homes
  CampaignOf <- Verified
  None = None
  Wallets = {w1, w2}
  Credits = {c1, c2, c3}
  Spends = {n1}
  Sweeps = {s1, s2, s3}
  WalletOf <- Owners
  CreditUsd <- Amounts
  SpendUsd = 2
  MinSweep = 2
SPECIFICATION TenderSpec
CHECK_DEADLOCK FALSE
INVARIANT PayoutsAreCapped
