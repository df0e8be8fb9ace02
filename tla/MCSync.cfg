SPECIFICATION FairSpec

CONSTANTS
  Thread = {t1, t2, t3}
  None = None
  Modulus = 3

INVARIANTS
  InitOnce
  UnwrapSafe
  Poisoned
  NoLostUpdate

PROPERTIES
  GetOrInitReturns
  LockProgress
