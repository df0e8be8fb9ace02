SPECIFICATION TFairSpec

CONSTANTS
  PROC_MAX = 4
  Users <- MCUsers
  Spawns = TRUE
  Cause <- MCCause
  MaxFaults = 2

INVARIANTS
  ReportsFirst
  HandlerStackKnown
  

PROPERTY TrapEnds
