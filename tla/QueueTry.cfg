SPECIFICATION Spec
CONSTANTS
  t1 = t1
  t2 = t2
  t3 = t3
  small = small
  large = large
  huge = huge
  Threads = {t1, t2, t3}
  Elems = {small}
  SizeOf <- MCSizeOf
  Rooms <- MCRooms
  MaxSize = 1
  DataMaxSize = 2
  Cancellable = {}
INVARIANT TryNeverWaits
