CONSTANTS
  Workers = {w1, w2}
  Opcodes = {1}
  Batches = {b1}
  None = None
  MaxCalls = 1
SPECIFICATION FairSpec
PROPERTY ReleaseReturns
CHECK_DEADLOCK FALSE
