SPECIFICATION Spec

CONSTANTS
  PAGE_SIZE = 2
  Entries = 2
  Owner = {p1, p2, p3}
  NoOwner = NoOwner
  Pages <- MCPages
  Arrays <- MCArrays
  Targets <- MCTargets
  Flags <- MCFlags

SYMMETRY Symmetry

PROPERTY NewTableEmpty
