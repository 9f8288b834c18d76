SPECIFICATION FairSpec
CONSTANTS
  b1 = b1
  b2 = b2
  Blocks = {b1, b2}
  MaxBlocks = 3
  slash = slash
  dash = dash
  letter = letter
  Characters = {slash, dash, letter}
  Slash = slash
  Dash = dash
  S3_MAX_KEY_SIZE = 2
  Paths <- MCPaths
  Retries = 3
  TransientAt = {"connect"}
  FatalAt <- MCPhases
INVARIANT TypeOK
INVARIANT TransferWhole
INVARIANT RetriesBounded
INVARIANT KeysShared
INVARIANT PlainApart
PROPERTY ObjectWhole
PROPERTY CallReturns
PROPERTY Atomic
