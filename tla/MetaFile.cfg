CONSTANTS
  N_KW = 2
  ID_HEX_LEN = 3
  Tokens <- MCTokens
SPECIFICATION Spec
INVARIANT IdsPreserved
\* The writing ends.
CHECK_DEADLOCK FALSE
