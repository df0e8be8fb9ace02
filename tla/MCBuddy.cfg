SPECIFICATION FairSpec

CONSTANTS
  mem_order = 5
  page_order = 2
  ram_start = 12
  MaxRequest <- MCMaxRequest

INVARIANTS
  StackFits
  LiveDisjoint
  Canonical
  PanicOnlyForWholeRegion

PROPERTIES
  FirstFit
  ImplementsBlockAllocator
  CallsReturn
