CONSTANTS
  o1 = o1
  o2 = o2
  Ops <- MCOps
  MaxTxs = 3
  Seq0 = 5
SPECIFICATION Spec
PROPERTY
  BadSeqOnlyAfterGap
\* The test ends once its transactions are built and settled.
CHECK_DEADLOCK FALSE
