SPECIFICATION PrintfSpec

CONSTANTS
  Bits = 8
  MaxLen = 4
  Values <- MCValues

INVARIANT PrintsReference
