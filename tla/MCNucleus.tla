----------------------------- MODULE MCNucleus -----------------------------
(* Instances of Nucleus.  PCBs are interchangeable: no definition picks    *)
(* one of them by its identity.                                            *)
EXTENDS Discipline, TLC
CONSTANTS p1, p2, p3, u1, d1
Perms == Permutations(Pcb)
=============================================================================
