SPECIFICATION Spec

CONSTANTS
  Rounds = 3
  PAGE_SIZE = 8
  WORD = 1
  Rams <- MCRams
  Reserves <- MCReserves
  Requests <- MCRequests

INVARIANTS
  AreasFit
  PanicsForCause
  SearchesLeastSize
  LevelMissing
