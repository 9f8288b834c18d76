SPECIFICATION FairSpec
CONSTANTS
  t1 = t1
  t2 = t2
  t3 = t3
  small = small
  large = large
  huge = huge
  Threads = {t1, t2, t3}
  Elems = {small, large, huge}
  SizeOf <- MCSizeOf
  Rooms <- MCRooms
  MaxSize = 2
  DataMaxSize = 2
  Cancellable = {t1, t2, t3}
INVARIANT TypeOK
INVARIANT NoSlotRace
INVARIANT NoLostWakeup
INVARIANT NoDeadlock
PROPERTY Linearizable
\* A cancelled thread stops the queue.
CHECK_DEADLOCK FALSE
PROPERTY CallsComplete
