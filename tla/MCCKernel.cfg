SPECIFICATION FairSpec

CONSTANTS
  PROC_NO_MAX = 4
  Users <- MCUsers
  FreePages = 16
  KernelTables = 1
  ImagePages <- MCImagePages
  PcBound = 3
  Before <- MCBefore

INVARIANTS
  UserCoherent
  WaitersKept
  PanicsJustified

PROPERTIES
  NoOvertaking
  EveryoneRuns
