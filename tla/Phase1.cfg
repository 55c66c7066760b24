SPECIFICATION Spec
CONSTANTS
  NULL = NULL
  Pcb = {p1, p2, p3}
  Semd = {d1, d2}
  SemKey = {4, 8, 12}
  WORD = 8
  GOLDEN_RATIO = 97
  TABLE_BITS = 1
  MaxChildren = 2
SYMMETRY Perms
VIEW View
INVARIANTS
  LinksSound
  DescriptorsAccounted
PROPERTY
  ImplementsQueues
