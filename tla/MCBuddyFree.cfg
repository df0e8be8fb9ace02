SPECIFICATION Spec

CONSTANTS
  mem_order = 5
  page_order = 2
  ram_start = 12
  MaxRequest <- MCMaxRequest

INVARIANT FreeNeverPanics
