SPECIFICATION MCSpec
CONSTANTS
  d1 = d1
  d2 = d2
  a1 = a1
  a2 = a2
  Daemons = {d1, d2}
  Applications = {a1, a2}
  Configurations <- MCConfigurations
  Retries = 2
  FaultBounds <- MCFaultBounds
  MaxSize = 1
  MaxCalls = 2
INVARIANT TypeOK
INVARIANT NameKept
INVARIANT NameLeft
INVARIANT BucketOwned
INVARIANT WritersApart
INVARIANT RequestNamesCaller
 
 
 
CHECK_DEADLOCK FALSE
