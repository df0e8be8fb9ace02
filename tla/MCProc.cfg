SPECIFICATION FairSpec

CONSTANTS
  PROC_MAX = 8
  Users <- MCUsers
  Spawns = TRUE

INVARIANTS
  Coherent
  OnlyFirstTwoRun

PROPERTY FirstTwoAlternate
