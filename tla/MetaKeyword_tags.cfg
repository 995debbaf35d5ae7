\* The last bin has two keywords of the three.
CONSTANTS
  N_KW = 5
  bin_stride = 3
  Ids = {d1}
SPECIFICATION Spec
INVARIANT BinIndex
\* The conversion ends.
CHECK_DEADLOCK FALSE
