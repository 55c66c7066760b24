\* Clients that may do anything
SPECIFICATION Spec
CONSTANTS
  p1 = p1  p2 = p2  p3 = p3  u1 = u1  d1 = d1  NULL = NULL
  Pcb = {p1, p2, p3}
  Sem = {u1}
  Dev = {d1}
  Client = {"TERM_OTHER", "TERM_IN_IO", "SHARE_DEVICE", "BAD_ADDRESS", "STALE_PID"}
  MaxSoft = 2
SYMMETRY Perms
INVARIANTS
  TypeOK
  ListsExclusive
  SemAddMatchesQueue
  SemdNeverExhausted
  CommandOnlyToIdleDevice
  CurrentIsLive
  MutexInv
  IInv
