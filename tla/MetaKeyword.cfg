\* Two full bins and a last bin of two keywords of the three.
CONSTANTS
  N_KW = 8
  bin_stride = 3
  Ids = {d1}
SPECIFICATION Spec
INVARIANTS TypeOK ResultExact AllGenerated CrashOnWholeBin BinTags SearchesGive LineAnswers IInv
\* The conversion ends.
CHECK_DEADLOCK FALSE
