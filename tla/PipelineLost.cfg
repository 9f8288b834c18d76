SPECIFICATION FairSpec
CONSTANTS
  f1 = f1
  f2 = f2
  c1 = c1
  c2 = c2
  Files = {f1}
  Clients = {c1}
  MaxSize = 1
  Faults = {}
PROPERTY OpenReturns
