SPECIFICATION Spec
CONSTANTS
  u1 = u1  u2 = u2  d1 = d1  d2 = d2  l1 = l1  s1 = s1  s2 = s2
  None = None
  Urls = {u1}
  Secrets = {s1}
  Dispatches = {d1}
  Loops = {l1}
  HookLists <- OneHook
  Callback = None
  MaxSync = 2
  MaxTotal = 3
  ListLimit = 1
  MaxFaults = 0
PROPERTIES
  DeliveredSticks
