------------------------------ MODULE MCPhase1 -----------------------------
(* Instances of Phase1.  The entries of each table are interchangeable:    *)
(* Init takes them in every order and no definition names one of them.     *)
EXTENDS Phase1, TLC
Perms == Permutations(Pcb) \cup Permutations(Semd)

(* No action reads the result of the last call, so states that differ in   *)
(* it alone need be explored once; ImplementsQueues compares the result of *)
(* every step all the same.                                                *)
View == <<procLists, semLists, p_semAdd>>
=============================================================================
