SPECIFICATION FlowSpec
CONSTANTS
  p1 = p1  c1 = c1  m1 = m1  a1 = a1  a2 = a2  o1 = o1  rp1 = rp1  k1 = k1
  u1 = u1  u2 = u2  l1 = l1  s1 = s1  s2 = s2
  None = None
  CreateCalls = {p1}
  ClaimCalls = {c1}
  MarkCalls = {}
  Apps = {a1, a2}
  Orders = {o1}
  Amounts = {rp1}
  Keys = {k1}
  CreateInputs <- OneBody
  ClaimInputs <- OnePayIn
  Lookback = 1
  Skew = 1
  SweepLimit = 1
  MaxTime = 1
  MaxFaults = 1
  Urls = {u1, u2}
  Https = {u1}
  Loops = {l1}
  Secrets = {s1}
  Callback = u2
  MaxSync = 1
  MaxTotal = 1
  ListLimit = 1
  MaxHooks = 1
INVARIANTS
  ToldIsPaid
  DestinationsTracked
