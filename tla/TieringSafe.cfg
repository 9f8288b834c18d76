SPECIFICATION Spec
CONSTANTS
  f1 = f1
  f2 = f2
  u1 = u1
  u2 = u2
  d1 = d1
  c1 = c1
  c2 = c2
  v1 = v1
  v2 = v2
  Files = {f1}
  Uploaders = {u1}
  Downloaders = {d1}
  Clients = {c1, c2}
  Values = {v1, v2}
  ObjectIds <- MCObjectIds
  ObjectIdOf <- MCObjectIdOf
  Faults <- MCSafeFaults
SYMMETRY MCSymmetry
INVARIANT TypeOK
INVARIANT NoLoss
INVARIANT LocalIntact
INVARIANT CleanupPossible
PROPERTY EvictOnlyStored
PROPERTY OpenReturnsContent
PROPERTY RemoteObjectKept
PROPERTY Transparent
