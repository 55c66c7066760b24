SPECIFICATION Spec
CONSTANTS
  NULL = NULL
  Pcb = {p1, p2, p3}
  WRAP = 3
INVARIANTS
  ChargedExactly
