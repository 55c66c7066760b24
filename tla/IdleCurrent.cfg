\* The idle loop after a termination
SPECIFICATION Spec
CONSTANTS
  p1 = p1  p2 = p2  p3 = p3  u1 = u1  d1 = d1  NULL = NULL
  Pcb = {p1, p2, p3}
  Sem = {u1}
  Dev = {d1}
  Client = {}
  MaxSoft = 2
SYMMETRY Perms
INVARIANTS
  IdleHasNoCurrent
