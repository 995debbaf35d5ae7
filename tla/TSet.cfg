\* Index byte of one bit, so that the digests of entries 0 and 2 are equal;
\* words of two slots, so that a row of three leaves a padded slot.
CONSTANTS
  Keywords = {k1, k2}
  Buckets = {b1, b2}
  k1 = k1
  k2 = k2
  b1 = b1
  b2 = b2
  Nil = Nil
  Zero = Zero
  Junk = Junk
  Bucket <- MCBucket
  IndexSpan = 2
  JIdxSpan = 4
  N_threads = 2
  N_max_ids = 3
  MaxSetUps = 2
SPECIFICATION Spec
INVARIANTS TypeOK RetrieveExact RetrieveInBounds OwnEntries TornRow IInv
PROPERTIES NoOverwrite ImplementsRowStore
\* An overrun is the end of the model.
CHECK_DEADLOCK FALSE
