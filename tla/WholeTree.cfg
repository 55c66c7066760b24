SPECIFICATION Spec
CONSTANTS
  p1 = p1  p2 = p2  p3 = p3  p4 = p4  n1 = n1  n2 = n2  NULL = NULL
  Pcb = {p1, p2, p3, p4}
  Nsd = {n1, n2}
SYMMETRY Perms
INVARIANT CountsTheWholeTree
