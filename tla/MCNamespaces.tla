---------------------------- MODULE MCNamespaces ---------------------------
(* Instances of Namespaces; PCBs are interchangeable.                      *)
EXTENDS Namespaces
CONSTANTS p1, p2, p3, p4, n1, n2
Perms == Permutations(Pcb)
=============================================================================
