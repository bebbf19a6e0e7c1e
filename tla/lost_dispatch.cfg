SPECIFICATION FairSpec
CONSTANTS
  p1 = p1  p2 = p2  c1 = c1  c2 = c2  m1 = m1  m2 = m2
  a1 = a1  a2 = a2  o1 = o1  o2 = o2
  rp1 = rp1  rp2 = rp2  k1 = k1  k2 = k2
  None = None
  CreateCalls = {p1}
  ClaimCalls = {c1, c2}
  MarkCalls = {}
  Apps = {a1, a2}
  Orders = {o1, o2}
  Amounts = {rp1, rp2}
  Keys = {k1, k2}
  CreateInputs <- TwinBodies
  ClaimInputs <- OnePayIn
  Lookback = 1
  Skew = 0
  SweepLimit = 1
  MaxTime = 1
  MaxFaults = 1
PROPERTY AnsweredIsDispatched
