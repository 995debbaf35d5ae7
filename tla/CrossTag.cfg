\* The curve y^2 = x^3 + 16 x^2 + x over 37 elements, of order 4 * 11.
CONSTANTS
  ECC_Prime = 37
  Prime = 11
  a24 = 23
  ecc_basep = 3
  base_y = 10
SPECIFICATION Spec
INVARIANTS TypeOK LadderRight TagsMeet
\* The comparison ends.
CHECK_DEADLOCK FALSE
