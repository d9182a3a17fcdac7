CONSTANTS
  c1 = c1
  c2 = c2
  NoC = NoC
  Contracts <- MCContracts
  NoContract <- NoC
  StartLedger = 2
  MaxLedger = 4
  MaxTx = 2
  RetentionWindow = 2
  U32 = 8
  Blocks <- MCBlocks
  QueryStarts <- MCQueryStarts
  QueryEnds <- MCQueryEnds
  QueryFilters <- MCQueryFilters
SPECIFICATION Spec
INVARIANT
  ScanCursorsIncrease
