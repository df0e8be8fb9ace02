SPECIFICATION FairSpec

CONSTANTS
  PROC_MAX = 4
  Users <- MCUsers
  Spawns = TRUE
  Harts <- MCHarts
  KernelPages = 5
  Span = 3

INVARIANTS
  NeverWaits
  ClearedInTime
  SatpMapsKernel

PROPERTIES
  ImplementsProc
  FirstProcessRuns
