----------------------------- MODULE Namespaces ----------------------------
(***************************************************************************)
(* PID namespaces: src/phase1/namespace.c and the system calls that use    *)
(* them, SYS1, SYS9 and SYS10 (src/phase2/syscall.c).  There is one type   *)
(* of namespaces (NS_TYPE_MAX is 1).  The initial namespace is NULL.       *)
(***************************************************************************)
EXTENDS Lists

CONSTANTS Pcb,
          Nsd   \* the entries of type_nsd[NS_PID]

ASSUME TableAssumption ==
  /\ IsFiniteSet(Pcb) /\ IsFiniteSet(Nsd) /\ Pcb # {} /\ NULL \notin Pcb \cup Nsd
  /\ {"type_nsFree_h", "type_nsList_h"} \cap (Nsd \cup {NULL}) = {}

VARIABLES
  live,               \* the processes
  p_parent, p_child,  \* the tree; children in the order of their birth
  namespaces,         \* pcb_t.namespaces[NS_PID]
  n_link              \* links of n_link, type_nsFree_h and type_nsList_h

treeVars == <<live, p_parent, p_child>>
vars == <<treeVars, namespaces, n_link>>

type_nsFree_h == "type_nsFree_h"
type_nsList_h == "type_nsList_h"
Allocated == ToSet(list_for_each(n_link, type_nsList_h))

-----------------------------------------------------------------------------
(* namespace.c *)

initNamespaces ==
  LET links == [x \in Nsd \cup {type_nsFree_h, type_nsList_h} |-> IF x \in Nsd THEN NULL ELSE x]
      table == SetToSeq(Nsd)
      added[i \in 0 .. Len(table)] ==
        IF i = 0 THEN [next |-> links, prev |-> links]
        ELSE list_add(added[i - 1], table[i], type_nsFree_h)
  IN  added[Len(table)]

getNamespace(p) == IF p = NULL THEN NULL ELSE namespaces[p]

(* Mutant: the children are left alone.                                    *)
addNamespaceAlone(f, p, ns) == [f EXCEPT ![p] = ns]

(* The namespaces f, with ns for p and, recursively, for its children.  No *)
(* recursion is deeper than there are processes.                           *)
addNamespace(f, p, ns) ==
  LET visited[depth \in 0 .. Cardinality(Pcb)] ==
        [q \in Pcb |-> IF depth = 0 THEN {}
                       ELSE {q} \cup UNION {visited[depth - 1][c] : c \in ToSet(p_child[q])}]
  IN  [q \in Pcb |-> IF q \in visited[Cardinality(Pcb)][p] THEN ns ELSE f[q]]

(* Mutant: the NSD is not taken off the free list.                         *)
allocNamespaceShared ==
  /\ ~ list_empty(n_link, type_nsFree_h)
  /\ n_link' = list_add(n_link, n_link.next[type_nsFree_h], type_nsList_h)
  /\ UNCHANGED <<treeVars, namespaces>>

allocNamespace ==
  /\ ~ list_empty(n_link, type_nsFree_h)
  /\ LET ns == n_link.next[type_nsFree_h]
     IN  n_link' = list_add(list_del(n_link, ns), ns, type_nsList_h)
  /\ UNCHANGED <<treeVars, namespaces>>

(* The program that frees a namespace has no process in it any more; the   *)
(* code does not check it.                                                 *)
freeNamespace(ns) ==
  /\ ns \in Allocated /\ \A p \in live : namespaces[p] # ns
  /\ n_link' = list_add(list_del(n_link, ns), ns, type_nsFree_h)
  /\ UNCHANGED <<treeVars, namespaces>>

(* A running process is moved, with its tree, to another namespace.        *)
changeNamespace(p, ns) ==
  /\ p \in live /\ ns \in Allocated
  /\ namespaces' = addNamespace(namespaces, p, ns)
  /\ UNCHANGED <<treeVars, n_link>>

-----------------------------------------------------------------------------
(* syscall.c *)

(* SYS1 of parent.  A new process has no children, so addNamespace is one  *)
(* assignment; without ns it gets the namespace of its parent.             *)
sysCreateProcess(parent, p, ns) ==
  /\ parent \in live /\ p \notin live /\ ns \in Allocated \cup {NULL}
  /\ live' = live \cup {p}
  /\ p_parent' = [p_parent EXCEPT ![p] = parent]
  /\ p_child' = [[p_child EXCEPT ![p] = <<>>] EXCEPT ![parent] = Append(@, p)]
  /\ namespaces' = [namespaces EXCEPT ![p] = IF ns # NULL THEN ns ELSE namespaces[parent]]
  /\ UNCHANGED n_link

(* p and the processes below it, by their p_parent.                        *)
Tree(p) ==
  {q \in live : \A S \in SUBSET live :
                  (q \in S /\ \A r \in S : p_parent[r] \in S \cup {NULL}) => p \in S}

(* SYS2, see module Nucleus for its steps.                                 *)
sysTerminateProcess(p) ==
  /\ p \in live
  /\ live' = live \ Tree(p)
  /\ p_child' = [q \in Pcb |-> IF q \in Tree(p) THEN <<>> ELSE RemoveFirst(p_child[q], p)]
  /\ UNCHANGED <<p_parent, namespaces, n_link>>

(* Mutant: the namespaces are not compared.                                *)
sysGetProcessIDAny(current, is_parent) ==
  IF ~ is_parent THEN current ELSE p_parent[current]

(* SYS9 of current: 0 (NULL) for a parent in another namespace.            *)
sysGetProcessID(current, is_parent) ==
  IF ~ is_parent THEN current
  ELSE IF getNamespace(p_parent[current]) # getNamespace(current) THEN NULL
  ELSE p_parent[current]

(* Mutant: one pid more than there is room for.                            *)
listedOneMore(children, size, current, p) ==
  IF Len(children) <= size /\ p # current THEN Append(children, p) ELSE children

(* What SYS10 of current stores: pids, as long as there is room.           *)
listed(children, size, current, p) ==
  IF Len(children) < size /\ p # current THEN Append(children, p) ELSE children

(* The processes of the namespace counted so far and those stored in the   *)
(* array, in acc, and then p and what the walk finds below it, one child   *)
(* after the other.  No recursion is deeper than there are processes.      *)
getChildsByNamespace(acc, size, current, p) ==
  LET walk[depth \in 0 .. Cardinality(Pcb)] ==
        [q \in Pcb |-> [a \in [children : Seq(Pcb), num : Nat] |->
           IF depth = 0 \/ getNamespace(q) # getNamespace(current) THEN a
           ELSE LET below[i \in 0 .. Len(p_child[q])] ==
                      IF i = 0
                      THEN [children |-> listed(a.children, size, current, q), num |-> a.num + 1]
                      ELSE walk[depth - 1][p_child[q][i]][below[i - 1]]
                IN  below[Len(p_child[q])]]]
  IN  walk[Cardinality(Pcb)][p][acc]

sysGetChildren(current, size) ==
  LET found == getChildsByNamespace([children |-> <<>>, num |-> 0], size, current, current)
  IN  [found EXCEPT !.num = @ - 1]

-----------------------------------------------------------------------------
Init ==
  /\ \E root \in Pcb : live = {root}
  /\ p_parent = [p \in Pcb |-> NULL]
  /\ p_child = [p \in Pcb |-> <<>>]
  /\ namespaces = [p \in Pcb |-> NULL]
  /\ n_link = initNamespaces

(* SYS9 and SYS10 change nothing.  With no process left the machine halts. *)
Next ==
  \/ allocNamespace
  \/ \E ns \in Nsd : freeNamespace(ns) \/ \E p \in Pcb : changeNamespace(p, ns)
  \/ \E parent, p \in Pcb, ns \in Nsd \cup {NULL} : sysCreateProcess(parent, p, ns)
  \/ \E p \in Pcb : sysTerminateProcess(p)

Spec == Init /\ [][Next]_vars

-----------------------------------------------------------------------------
Below(p) == Tree(p) \ {p}
SameNamespace(p) == {q \in live : namespaces[q] = namespaces[p]}

(* The processes below p that p reaches without leaving its namespace.     *)
Visible(p) == {q \in Below(p) : \A r \in Below(p) : q \in Tree(r) => r \in SameNamespace(p)}

(* SYS10 with any size: the result is the number of visible processes, the *)
(* array holds as many of them as fit, each once and never the caller, and *)
(* a smaller array holds the beginning of a larger one.                    *)
ChildrenExact ==
  \A p \in live :
    LET all == sysGetChildren(p, Cardinality(Pcb)).children IN
    /\ IsInjective(all) /\ ToSet(all) = Visible(p)
    /\ \A size \in 0 .. Cardinality(Pcb) :
         sysGetChildren(p, size) =
           [children |-> SubSeq(all, 1, Min({size, Len(all)})), num |-> Cardinality(Visible(p))]

(* SYS9 and SYS10 agree: a child sees the pid of its parent exactly when   *)
(* the parent sees the pid of the child.                                   *)
ParentSeesChild ==
  \A p \in live : \A i \in DOMAIN p_child[p] :
    LET c == p_child[p][i] IN
      sysGetProcessID(c, TRUE) = p
        <=> c \in ToSet(sysGetChildren(p, Cardinality(Pcb)).children)

(* addNamespace: "Associa al processo p e a tutti i suoi figli il          *)
(* namespace ns": the whole tree of p moves and nobody else.               *)
TreeMovesTogether ==
  [][\A p \in Pcb, ns \in Nsd : changeNamespace(p, ns) =>
       namespaces' = [q \in Pcb |-> IF q \in Tree(p) THEN ns ELSE namespaces[q]]]_vars

(* Every NSD is in exactly one of the two lists, whose links are sound,    *)
(* and the one of a live process is allocated.                             *)
NsdsAccounted ==
  LET freeList == list_for_each(n_link, type_nsFree_h)
      allocated == list_for_each(n_link, type_nsList_h)
  IN  /\ IsInjective(freeList \o allocated)
      /\ ToSet(freeList \o allocated) = Nsd
      /\ list_for_each_prev(n_link, type_nsFree_h) = Reverse(freeList)
      /\ \A p \in live : namespaces[p] \in ToSet(allocated) \cup {NULL}

(* DOCUMENTATION.md: "Nel conteggio dei figli di un namespace vengono      *)
(* contati tutti i figli nell'intero albero dei processi sottostanti al    *)
(* processo corrente."                                                     *)
CountsTheWholeTree ==
  \A p \in live : sysGetChildren(p, 0).num = Cardinality(Below(p) \cap SameNamespace(p))
=============================================================================
