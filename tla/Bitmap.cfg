SPECIFICATION Spec
CONSTANTS
  BITS_PER_WORD = 3
  MaxBits = 7
PROPERTIES
  IsPool
