\* Three workers, one unit shared by two operations and one of its own.
CONSTANTS
  Workers = {w1, w2, w3}
  Opcodes = {1, 8, 9}
  Batches = {b1, b2}
  None = None
  MaxCalls = 2
SPECIFICATION FairSpec
INVARIANTS TypeOK CountMatchesPending BuffersOwned NobodyStuck ReleaseIsIdle IInv
PROPERTIES NoWorkerLapped ImplementsBatch EveryCallReturns QuietReleaseReturns
\* The program ends when ReleaseThreads has returned.
CHECK_DEADLOCK FALSE
