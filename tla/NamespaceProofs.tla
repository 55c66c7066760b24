--------------------------- MODULE NamespaceProofs --------------------------
(***************************************************************************)
(* Proofs about Namespaces, for every table of processes and of NSDs.      *)
(*                                                                         *)
(* Everything rests on two inductive invariants: TreeShape, that p_parent  *)
(* and p_child describe one forest, and NsdShape, that the circles of the  *)
(* two heads share out the NSDs.  The recursive functions that walk the    *)
(* tree are as deep as there are processes; a walk that is as deep as its  *)
(* tree is large misses nothing, which is proved by the least depth at     *)
(* which it could.                                                         *)
(***************************************************************************)
EXTENDS Namespaces, ListLemmas

-----------------------------------------------------------------------------
(* The process tree *)

(* Sets of processes that contain the parents of their members.            *)
Closed(S) == \A r \in S : p_parent[r] \in S \cup {NULL}

(* The process tree is one of processes of the table.                      *)
TreeTypeOK ==
  /\ live \in SUBSET Pcb
  /\ p_parent \in [Pcb -> Pcb \cup {NULL}]
  /\ p_child \in [Pcb -> Seq(Pcb)]

(* Parents of processes are processes, p_child is the inverse of p_parent, *)
(* and nobody is below himself: every set of processes has a member whose  *)
(* parent is not in it.                                                    *)
Parents == \A p \in live : p_parent[p] \in live \cup {NULL}
Children ==
  \A p \in Pcb : /\ IsInjective(p_child[p])
                 /\ \A q : q \in ToSet(p_child[p]) <=> q \in live /\ p \in live /\ p_parent[q] = p
Rooted == \A S \in SUBSET live : S # {} => \E r \in S : p_parent[r] \notin S

(* The inductive invariant of the process tree.                            *)
TreeShape == TreeTypeOK /\ Parents /\ Children /\ Rooted

(* Whom a tree holds, in the words of Tree: those who are in no closed set *)
(* without its root.                                                       *)
LEMMA TreeMember ==
  ASSUME NEW p, NEW q
  PROVE  q \in Tree(p) <=> q \in live /\ \A S \in SUBSET live : q \in S /\ Closed(S) => p \in S
  BY DEF Tree, Closed

(* A live process is in its own tree.                                      *)
LEMMA TreeSelf == ASSUME NEW p \in live PROVE p \in Tree(p)
  BY TreeMember

(* Going up from a process of the tree of p stays in it until p.           *)
LEMMA TreeUp ==
  ASSUME TableAssumption, TreeShape, NEW p \in live, NEW q \in live, q # p
  PROVE  q \in Tree(p) <=> p_parent[q] \in live /\ p_parent[q] \in Tree(p)
<1> DEFINE r == p_parent[q]
<1>1. live \subseteq Pcb /\ NULL \notin live /\ r \in live \cup {NULL}
  BY DEF TreeShape, TreeTypeOK, Parents, TableAssumption
<1>2. ASSUME q \in Tree(p) PROVE r \in live /\ r \in Tree(p)
  <2>1. r # NULL
    <3> SUFFICES ASSUME r = NULL PROVE FALSE
      OBVIOUS
    <3>1. {q} \in SUBSET live /\ Closed({q})
      BY DEF Closed
    <3> QED
      BY <1>2, <3>1, TreeMember
  <2>2. ASSUME NEW S \in SUBSET live, r \in S, Closed(S) PROVE p \in S
    <3>1. S \cup {q} \in SUBSET live /\ Closed(S \cup {q})
      BY <2>2 DEF Closed
    <3> QED
      BY <1>2, <3>1, TreeMember
  <2> QED
    BY <1>1, <2>1, <2>2, TreeMember
<1>3. ASSUME r \in live, r \in Tree(p) PROVE q \in Tree(p)
  <2> SUFFICES ASSUME NEW S \in SUBSET live, q \in S, Closed(S) PROVE p \in S
    BY TreeMember
  <2>1. r \in S
    BY <1>1, <1>3 DEF Closed
  <2> QED
    BY <1>3, <2>1, TreeMember
<1> QED
  BY <1>2, <1>3

(* The tree of p is p with the trees of its children.                      *)
LEMMA TreeDown ==
  ASSUME TableAssumption, TreeShape, NEW p \in live
  PROVE  \A q : q \in Tree(p) <=> q = p \/ \E c \in ToSet(p_child[p]) : q \in Tree(c)
<1> DEFINE T == {q \in live : q = p \/ \E c \in ToSet(p_child[p]) : q \in Tree(c)}
<1>1. \A c \in ToSet(p_child[p]) : c \in live /\ p_parent[c] = p
  BY DEF TreeShape, TreeTypeOK, Children
<1>2. p \in Pcb /\ NULL \notin live
  BY DEF TreeShape, TreeTypeOK, TableAssumption
<1>3. ASSUME NEW q, NEW c \in ToSet(p_child[p]), q \in Tree(c) PROVE q \in Tree(p)
  <2> SUFFICES ASSUME NEW S \in SUBSET live, q \in S, Closed(S) PROVE p \in S
    BY <1>3, TreeMember
  <2>1. c \in S
    BY <1>3, TreeMember
  <2> QED
    BY <2>1, <1>1, <1>2 DEF Closed
<1>4. ASSUME NEW q \in Tree(p) PROVE q \in T
  <2> DEFINE S == live \ T
  <2>1. Closed(S)
    <3> SUFFICES ASSUME NEW r \in S PROVE p_parent[r] \in S \cup {NULL}
      BY DEF Closed
    <3>1. r \in live /\ r \notin T
      OBVIOUS
    <3>2. p_parent[r] \in live \cup {NULL}
      BY <3>1 DEF TreeShape, Parents
    <3>3. p_parent[r] # p
      <4> SUFFICES ASSUME p_parent[r] = p PROVE FALSE
        OBVIOUS
      <4>1. r \in ToSet(p_child[p])
        BY <1>2, <3>1 DEF TreeShape, Children
      <4>2. r \in Tree(r)
        BY <3>1, TreeSelf
      <4> QED
        BY <3>1, <4>1, <4>2
    <3>4. ASSUME NEW c \in ToSet(p_child[p]), p_parent[r] \in Tree(c) PROVE FALSE
      <4>1. c \in live /\ r # c
        BY <1>1, <3>3
      <4>2. p_parent[r] \in live
        BY <3>4, TreeMember
      <4>3. r \in Tree(c)
        BY <4>1, <4>2, <3>1, <3>4, TreeUp
      <4> QED
        BY <4>3, <3>1
    <3> QED
      BY <3>2, <3>3, <3>4
  <2>2. q \in live /\ \A R \in SUBSET live : q \in R /\ Closed(R) => p \in R
    BY TreeMember
  <2>3. S \in SUBSET live /\ p \notin S
    OBVIOUS
  <2> QED
    BY <2>1, <2>2, <2>3
<1> QED
  BY <1>3, <1>4, TreeSelf

(* A process is not below its child.                                       *)
LEMMA TreeAcyclic ==
  ASSUME TableAssumption, TreeShape, NEW p \in live, NEW c \in ToSet(p_child[p])
  PROVE  p \notin Tree(c)
<1> SUFFICES ASSUME p \in Tree(c) PROVE FALSE
  OBVIOUS
<1> DEFINE B == {r \in Tree(c) : p \in Tree(r)}
<1>1. c \in live /\ p_parent[c] = p
  BY DEF TreeShape, TreeTypeOK, Children
<1>2. B \in SUBSET live /\ p \in B
  BY TreeSelf, TreeMember
<1>3. PICK r \in B : p_parent[r] \notin B
  BY <1>2 DEF TreeShape, Rooted
<1>4. r \in live /\ r \in Tree(c) /\ p \in Tree(r)
  BY <1>2
<1>5. r # c
  BY <1>1, <1>2, <1>3
<1>6. p_parent[r] \in live /\ p_parent[r] \in Tree(c)
  BY <1>1, <1>4, <1>5, TreeUp
<1>7. p \in Tree(p_parent[r])
  <2> SUFFICES ASSUME NEW S \in SUBSET live, p \in S, Closed(S) PROVE p_parent[r] \in S
    BY TreeMember
  <2>1. r \in S
    BY <1>4, TreeMember
  <2>2. NULL \notin live
    BY DEF TreeShape, TreeTypeOK, TableAssumption
  <2> QED
    BY <2>1, <2>2, <1>6 DEF Closed
<1> QED
  BY <1>3, <1>6, <1>7

(* Initially there is the root alone.                                      *)
LEMMA TreeInit == ASSUME TableAssumption, Init PROVE TreeShape
<1>1. PICK root \in Pcb : live = {root}
  BY DEF Init
<1>2. TreeTypeOK
  BY <1>1 DEF TreeTypeOK, Init
<1>3. Parents /\ Rooted
  BY <1>1 DEF Parents, Rooted, Init, TableAssumption
<1>4. \A p \in Pcb : p_child[p] = <<>> /\ p_parent[p] = NULL
  BY DEF Init
<1>5. <<>> \in Seq(Pcb) /\ ToSet(<<>>) = {} /\ IsInjective(<<>>)
  BY EmptyQueue
<1>6. Children
  BY <1>1, <1>4, <1>5 DEF Children, TableAssumption
<1> QED
  BY <1>2, <1>3, <1>6 DEF TreeShape

(* SYS1: the new process is the last child of its parent.                  *)
LEMMA TreeCreate ==
  ASSUME TableAssumption, TreeShape, NEW parent \in Pcb, NEW p \in Pcb, NEW ns,
           sysCreateProcess(parent, p, ns)
  PROVE  TreeShape'
<1>1. /\ parent \in live /\ p \notin live /\ live' = live \cup {p}
      /\ p_parent' = [p_parent EXCEPT ![p] = parent]
      /\ p_child' = [[p_child EXCEPT ![p] = <<>>] EXCEPT ![parent] = Append(@, p)]
  BY DEF sysCreateProcess
<1>2. /\ live \in SUBSET Pcb /\ p_parent \in [Pcb -> Pcb \cup {NULL}]
           /\ p_child \in [Pcb -> Seq(Pcb)]
      /\ parent # p /\ NULL \notin Pcb
  BY <1>1 DEF TreeShape, TreeTypeOK, TableAssumption
<1> DEFINE k == p_child[parent]
<1>3. k \in Seq(Pcb) /\ IsInjective(k) /\ p \notin ToSet(k)
  BY <1>1, <1>2 DEF TreeShape, Children
<1>4. Append(k, p) \in Seq(Pcb) /\ ToSet(Append(k, p)) = ToSet(k) \cup {p}
        /\ IsInjective(Append(k, p))
  BY <1>3, AppendQueue
<1>5. <<>> \in Seq(Pcb) /\ ToSet(<<>>) = {} /\ IsInjective(<<>>)
  BY EmptyQueue
<1>6. \A q \in Pcb : p_child'[q] = IF q = parent THEN Append(k, p) ELSE IF q = p THEN <<>>
                       ELSE p_child[q]
  BY <1>1, <1>2
<1>7. \A q \in Pcb : p_parent'[q] = IF q = p THEN parent ELSE p_parent[q]
  BY <1>1, <1>2
<1>8. TreeTypeOK'
  <2>1. p_child' \in [Pcb -> Seq(Pcb)]
    BY <1>1, <1>2, <1>4, <1>5
  <2> QED
    BY <1>1, <1>2, <2>1 DEF TreeTypeOK
<1>9. Parents'
  BY <1>1, <1>2, <1>7 DEF TreeShape, Parents
<1>10. Children'
  <2> SUFFICES ASSUME NEW q \in Pcb
               PROVE  /\ IsInjective(p_child'[q])
                      /\ \A x : x \in ToSet(p_child'[q]) <=> x \in live' /\ q \in live'
                                  /\ p_parent'[x] = q
    BY DEF Children
  <2>1. \A x \in live : p_parent[x] # p
    BY <1>1, <1>2 DEF TreeShape, Parents
  <2>2. IsInjective(p_child[q])
          /\ \A x : x \in ToSet(p_child[q]) <=> x \in live /\ q \in live /\ p_parent[x] = q
    BY DEF TreeShape, Children
  <2>3. CASE q = parent
    <3>1. p_child'[q] = Append(k, p)
      BY <2>3, <1>6
    <3>2. \A x : x \in ToSet(k) <=> x \in live /\ p_parent[x] = q
      BY <2>2, <2>3, <1>1
    <3>3. \A x : x \in live' /\ p_parent'[x] = q <=> (x \in live /\ p_parent[x] = q) \/ x = p
      BY <1>1, <1>2, <1>7, <2>3
    <3> HIDE DEF k
    <3> QED
      BY <3>1, <3>2, <3>3, <1>1, <1>4, <2>3
  <2>4. CASE q = p
    <3>1. p_child'[q] = <<>>
      BY <2>4, <1>2, <1>6
    <3>2. \A x \in live' : p_parent'[x] # q
      BY <2>1, <2>4, <1>1, <1>2, <1>7
    <3> QED
      BY <3>1, <3>2, <1>5
  <2>5. CASE q # parent /\ q # p
    <3>1. p_child'[q] = p_child[q]
      BY <2>5, <1>6
    <3>2. \A x : x \in live' /\ q \in live' /\ p_parent'[x] = q <=> x \in live /\ q \in live
                   /\ p_parent[x] = q
      BY <1>1, <1>2, <1>7, <2>5
    <3> QED
      BY <3>1, <3>2, <2>2
  <2> QED
    BY <2>3, <2>4, <2>5
<1>11. Rooted'
  <2> SUFFICES ASSUME NEW S \in SUBSET live', S # {} PROVE \E r \in S : p_parent'[r] \notin S
    BY DEF Rooted
  <2>1. \A x \in live : p_parent[x] # p /\ p_parent'[x] = p_parent[x]
    BY <1>1, <1>2, <1>7 DEF TreeShape, Parents
  <2>2. CASE S \ {p} = {}
    BY <2>2, <1>2, <1>7
  <2>3. CASE S \ {p} # {}
    <3>1. S \ {p} \in SUBSET live
      BY <1>1
    <3>2. PICK r \in S \ {p} : p_parent[r] \notin S \ {p}
      BY <2>3, <3>1 DEF TreeShape, Rooted
    <3> QED
      BY <3>1, <3>2, <2>1
  <2> QED
    BY <2>2, <2>3
<1> QED
  BY <1>8, <1>9, <1>10, <1>11 DEF TreeShape

(* SYS2: what is left is a tree.                                           *)
LEMMA TreeTerminate ==
  ASSUME TableAssumption, TreeShape, NEW p \in Pcb, sysTerminateProcess(p)
  PROVE  TreeShape'
<1>1. /\ p \in live /\ live' = live \ Tree(p) /\ p_parent' = p_parent
      /\ p_child' = [q \in Pcb |-> IF q \in Tree(p) THEN <<>> ELSE RemoveFirst(p_child[q], p)]
  BY DEF sysTerminateProcess
<1>2. /\ live \in SUBSET Pcb /\ p_parent \in [Pcb -> Pcb \cup {NULL}]
           /\ p_child \in [Pcb -> Seq(Pcb)]
      /\ NULL \notin Pcb
  BY DEF TreeShape, TreeTypeOK, TableAssumption
<1>3. p \in Tree(p) /\ Tree(p) \subseteq live
  BY <1>1, TreeSelf, TreeMember
<1>4. \A q \in live : q # p => (q \in Tree(p) <=> p_parent[q] \in live /\ p_parent[q] \in Tree(p))
  BY <1>1, TreeUp
<1>5. \A q \in Pcb : /\ RemoveFirst(p_child[q], p) \in Seq(Pcb)
                          /\ IsInjective(RemoveFirst(p_child[q], p))
                     /\ ToSet(RemoveFirst(p_child[q], p)) = ToSet(p_child[q]) \ {p}
  <2> TAKE q \in Pcb
  <2>1. p_child[q] \in Seq(Pcb) /\ IsInjective(p_child[q])
    BY <1>2 DEF TreeShape, Children
  <2> QED
    BY <2>1, RemoveFirstQueue
<1>6. <<>> \in Seq(Pcb) /\ ToSet(<<>>) = {} /\ IsInjective(<<>>)
  BY EmptyQueue
<1>7. TreeTypeOK'
  <2>1. p_child' \in [Pcb -> Seq(Pcb)]
    BY <1>1, <1>5, <1>6
  <2> QED
    BY <1>1, <1>2, <2>1 DEF TreeTypeOK
<1>8. Parents'
  <2> SUFFICES ASSUME NEW q \in live' PROVE p_parent'[q] \in live' \cup {NULL}
    BY DEF Parents
  <2>1. q \in live /\ q \notin Tree(p) /\ q # p
    BY <1>1, <1>3
  <2>2. p_parent[q] \in live \cup {NULL}
    BY <2>1 DEF TreeShape, Parents
  <2> QED
    BY <1>1, <1>4, <2>1, <2>2
<1>9. Children'
  <2> SUFFICES ASSUME NEW q \in Pcb
               PROVE  /\ IsInjective(p_child'[q])
                      /\ \A x : x \in ToSet(p_child'[q]) <=> x \in live' /\ q \in live'
                                  /\ p_parent'[x] = q
    BY DEF Children
  <2>2. \A x : x \in ToSet(p_child[q]) <=> x \in live /\ q \in live /\ p_parent[x] = q
    BY DEF TreeShape, Children
  <2>3. CASE q \in Tree(p)
    BY <2>3, <1>1, <1>6
  <2>4. CASE q \notin Tree(p)
    <3>1. p_child'[q] = RemoveFirst(p_child[q], p)
      BY <2>4, <1>1
    <3>2. \A x : x \in live' /\ q \in live' /\ p_parent'[x] = q
                   <=> x \in live /\ x \notin Tree(p) /\ q \in live /\ p_parent[x] = q
      BY <1>1, <2>4
    <3>3. \A x : x \in live /\ x \notin Tree(p) /\ q \in live /\ p_parent[x] = q
                   <=> x \in live /\ x # p /\ q \in live /\ p_parent[x] = q
      BY <1>3, <1>4, <2>4
    <3> QED
      BY ZenonT(40), <3>1, <3>2, <3>3, <1>5, <2>2
  <2> QED
    BY <2>3, <2>4
<1>10. Rooted'
  BY <1>1 DEF Rooted, TreeShape
<1> QED
  BY <1>7, <1>8, <1>9, <1>10 DEF TreeShape

(* No step makes the tree anything but a tree; those of the namespaces     *)
(* leave it alone.                                                         *)
LEMMA TreeNext == ASSUME TableAssumption, TreeShape, [Next]_vars PROVE TreeShape'
<1>1. ASSUME UNCHANGED treeVars PROVE TreeShape'
  BY <1>1 DEF TreeShape, TreeTypeOK, Parents, Children, Rooted, treeVars
<1>2. CASE UNCHANGED vars
  BY <1>1, <1>2 DEF vars
<1>3. CASE allocNamespace \/ \E ns \in Nsd : freeNamespace(ns)
        \/ \E p \in Pcb : changeNamespace(p, ns)
  BY <1>1, <1>3 DEF allocNamespace, freeNamespace, changeNamespace
<1>4. CASE \E parent, p \in Pcb, ns \in Nsd \cup {NULL} : sysCreateProcess(parent, p, ns)
  BY <1>4, TreeCreate
<1>5. CASE \E p \in Pcb : sysTerminateProcess(p)
  BY <1>5, TreeTerminate
<1> QED
  BY <1>2, <1>3, <1>4, <1>5 DEF Next

(* p_child stays the inverse of p_parent, and nobody comes to be his own   *)
(* ancestor, whatever is created and terminated.                           *)
THEOREM TreeInvariance == Spec => []TreeShape
<1>1. Init => TreeShape
  BY TableAssumption, TreeInit
<1>2. TreeShape /\ [Next]_vars => TreeShape'
  BY TableAssumption, TreeNext
<1> QED
  BY <1>1, <1>2, PTL DEF Spec

-----------------------------------------------------------------------------
(* The namespaces of a tree *)

(* The recursive function of addNamespace, B calls deep.                   *)
Reach(B) ==
  CHOOSE w : w = [depth \in 0 .. B |->
                    [q \in Pcb |-> IF depth = 0 THEN {}
                       ELSE {q} \cup UNION {w[depth - 1][c] : c \in ToSet(p_child[q])}]]

(* It obeys its own equation.                                              *)
LEMMA ReachRule ==
  ASSUME NEW B \in Nat, NEW p \in Pcb, NEW b \in 0 .. B
  PROVE  Reach(B)[b][p] =
           IF b = 0 THEN {} ELSE {p} \cup UNION {Reach(B)[b - 1][c] : c \in ToSet(p_child[p])}
<1> DEFINE walk == Reach(B)
           rule(w, c) == [q \in Pcb |-> IF c = 0 THEN {} ELSE {q}
                           \cup UNION {w[c - 1][x] : x \in ToSet(p_child[q])}]
           Good(c, w) == w = [d \in 0 .. c |-> rule(w, d)]
           Bad == {c \in Nat : ~ \E w : Good(c, w)}
<1>2. Bad = {}
  <2> SUFFICES ASSUME Bad # {} PROVE FALSE
    OBVIOUS
  <2>1. PICK c \in Bad : \A d \in Bad : c <= d
    BY NatMin
  <2>2. CASE c = 0
    <3> DEFINE w == [d \in 0 .. 0 |-> [v \in Pcb |-> {}]]
    <3>1. \A d \in 0 .. 0 : rule(w, d) = [v \in Pcb |-> {}]
      OBVIOUS
    <3>2. Good(0, w)
      <4> HIDE DEF rule
      <4> QED BY <3>1
    <3> QED BY <3>2, <2>2
  <2>3. CASE c # 0
    <3>1. c - 1 \in Nat /\ c - 1 \notin Bad
      <4>1. c \in Nat
        BY <2>1
      <4>2. c - 1 \in Nat /\ ~ (c <= c - 1)
        BY <4>1, <2>3
      <4> HIDE DEF Bad
      <4> QED BY <4>2, <2>1
    <3>2. PICK v : Good(c - 1, v)
      BY <3>1
    <3> DEFINE w == [d \in 0 .. c |-> rule(v, d)]
    <3>3. \A d \in 0 .. c - 1 : v[d] = rule(v, d)
      <4> HIDE DEF rule
      <4> QED BY <3>2
    <3>4. \A d \in 0 .. c : w[d] = rule(v, d)
      <4> HIDE DEF rule
      <4> QED OBVIOUS
    <3>5. \A d \in 0 .. c - 1 : w[d] = v[d]
      <4> HIDE DEF w, rule
      <4> QED BY <3>3, <3>4, <3>1
    <3>6. \A d \in 0 .. c : rule(v, d) = rule(w, d)
      <4> TAKE d \in 0 .. c
      <4> HIDE DEF w
      <4>1. CASE d = 0
        BY <4>1
      <4>2. CASE d # 0
        <5>1. w[d - 1] = v[d - 1]
          <6>1. d - 1 \in 0 .. c - 1
            BY <4>2
          <6> QED BY <6>1, <3>5
        <5> QED BY <5>1
      <4> QED BY <4>1, <4>2
    <3>7. Good(c, w)
      <4> HIDE DEF rule
      <4> QED BY <3>6
    <3> QED BY <3>7
  <2> QED BY <2>2, <2>3
<1>3. PICK w : Good(B, w)
  BY <1>2
<1>4. walk = CHOOSE x : Good(B, x)
  BY Zenon DEF Reach
<1>5. Good(B, walk)
  <2> HIDE DEF Good, walk
  <2> QED BY <1>3, <1>4
<1>6. \A d \in 0 .. B : walk[d] = rule(walk, d)
  <2> HIDE DEF rule, walk
  <2> QED BY <1>5
<1>7. rule(walk, b)[p] = IF b = 0 THEN {} ELSE {p}
        \cup UNION {walk[b - 1][x] : x \in ToSet(p_child[p])}
  OBVIOUS
<1> QED
  <2> HIDE DEF rule, walk
  <2>1. walk[b][p] = IF b = 0 THEN {} ELSE {p} \cup UNION {walk[b - 1][x] : x \in ToSet(p_child[p])}
    BY <1>6, <1>7
  <2> QED
    BY <2>1 DEF walk

(* Trees get smaller on the way down.                                      *)
LEMMA TreeSize ==
  ASSUME TableAssumption, TreeShape, NEW p \in live
  PROVE  /\ IsFiniteSet(Tree(p)) /\ Cardinality(Tree(p)) \in Nat
         /\ 1 <= Cardinality(Tree(p)) /\ Cardinality(Tree(p)) <= Cardinality(Pcb)
         /\ \A c \in ToSet(p_child[p]) :
              c \in live /\ c \in Pcb /\ Cardinality(Tree(c)) <= Cardinality(Tree(p)) - 1
<1>1. ASSUME NEW q \in live
      PROVE  /\ Tree(q) \in SUBSET Pcb /\ q \in Tree(q) /\ IsFiniteSet(Tree(q))
             /\ Cardinality(Tree(q)) \in Nat /\ Cardinality(Tree(q)) <= Cardinality(Pcb)
  <2>1. Tree(q) \in SUBSET Pcb /\ q \in Tree(q)
    BY TreeSelf, TreeMember DEF TreeShape, TreeTypeOK
  <2>2. IsFiniteSet(Tree(q)) /\ Cardinality(Tree(q)) <= Cardinality(Pcb)
    BY <2>1, FS_Subset DEF TableAssumption
  <2> QED
    BY <2>1, <2>2, FS_CardinalityType
<1>2. Cardinality(Tree(p)) # 0
  BY <1>1, FS_EmptySet
<1>3. ASSUME NEW c \in ToSet(p_child[p])
      PROVE  c \in live /\ c \in Pcb /\ Cardinality(Tree(c)) <= Cardinality(Tree(p)) - 1
  <2>1. c \in live /\ c \in Pcb
    BY DEF TreeShape, TreeTypeOK, Children
  <2>2. Tree(c) \subseteq Tree(p) \ {p}
    BY TreeAcyclic, TreeDown
  <2>3. IsFiniteSet(Tree(p) \ {p}) /\ Cardinality(Tree(p) \ {p}) = Cardinality(Tree(p)) - 1
    BY <1>1, FS_RemoveElement
  <2>4. Cardinality(Tree(c)) <= Cardinality(Tree(p) \ {p})
    BY <2>2, <2>3, FS_Subset
  <2> QED
    BY <2>1, <2>3, <2>4
<1> QED
  BY <1>1, <1>2, <1>3

(* With enough depth the recursion visits the tree.                        *)
LEMMA ReachTree ==
  ASSUME TableAssumption, TreeShape, NEW B \in Nat
  PROVE  \A d \in 0 .. B : \A p \in live : Cardinality(Tree(p)) <= d => Reach(B)[d][p] = Tree(p)
<1> DEFINE Wrong(d) == \E p \in live : Cardinality(Tree(p)) <= d /\ Reach(B)[d][p] # Tree(p)
           Bad == {d \in 0 .. B : Wrong(d)}
<1> SUFFICES ASSUME Bad # {} PROVE FALSE
  OBVIOUS
<1>1. PICK d \in Bad : \A e \in Bad : d <= e
  <2>1. Bad \in SUBSET Nat
    OBVIOUS
  <2> HIDE DEF Bad
  <2> QED
    BY <2>1, NatMin
<1>2. PICK p \in live : Cardinality(Tree(p)) <= d /\ Reach(B)[d][p] # Tree(p)
  BY <1>1
<1>3. d # 0 /\ d - 1 \in 0 .. B /\ d \in 0 .. B /\ d - 1 < d /\ d \in Nat
  BY <1>1, <1>2, TreeSize
<1>4. ~ Wrong(d - 1)
  <2> HIDE DEF Wrong
  <2>1. d - 1 \in Bad => d <= d - 1
    BY <1>1
  <2> QED
    BY <2>1, <1>3
<1> HIDE DEF Bad
<1>5. \A c \in ToSet(p_child[p]) : Reach(B)[d - 1][c] = Tree(c)
  <2> TAKE c \in ToSet(p_child[p])
  <2>1. c \in live /\ c \in Pcb /\ Cardinality(Tree(c)) <= Cardinality(Tree(p)) - 1
          /\ Cardinality(Tree(p)) \in Nat
    BY TreeSize
  <2>2. Cardinality(Tree(c)) \in Nat
    BY <2>1, TreeSize
  <2>3. Cardinality(Tree(c)) <= d - 1
    BY <2>1, <2>2, <1>2, <1>3
  <2> QED
    BY <2>1, <2>3, <1>4
<1>6. Reach(B)[d][p] = {p} \cup UNION {Reach(B)[d - 1][c] : c \in ToSet(p_child[p])}
  <2>1. p \in Pcb
    BY DEF TreeShape, TreeTypeOK
  <2> QED
    BY <2>1, <1>3, ReachRule
<1>7. \A q : q \in Reach(B)[d][p] <=> q = p \/ \E c \in ToSet(p_child[p]) : q \in Tree(c)
  BY <1>5, <1>6
<1>8. Reach(B)[d][p] = Tree(p)
  BY <1>7, TreeDown
<1> QED
  BY <1>2, <1>8

(* addNamespace gives the whole tree of p its new namespace, and nobody    *)
(* else.                                                                   *)
LEMMA AddTree ==
  ASSUME TableAssumption, TreeShape, NEW f, NEW p \in live, NEW ns
  PROVE  addNamespace(f, p, ns) = [q \in Pcb |-> IF q \in Tree(p) THEN ns ELSE f[q]]
<1> DEFINE B == Cardinality(Pcb)
<1>1. B \in Nat
  BY FS_CardinalityType DEF TableAssumption
<1>2. addNamespace(f, p, ns) = [q \in Pcb |-> IF q \in Reach(B)[B][p] THEN ns ELSE f[q]]
  BY Zenon DEF addNamespace, Reach
<1>3. Reach(B)[B][p] = Tree(p)
  <2>1. Cardinality(Tree(p)) <= B /\ B \in 0 .. B
    BY <1>1, TreeSize
  <2> HIDE DEF B
  <2> QED
    BY <1>1, <2>1, ReachTree
<1> QED
  BY <1>2, <1>3

(* A change of namespace is one of the whole tree of the process and of    *)
(* nobody outside it: addNamespace goes down all of it.                    *)
THEOREM TreesMove == Spec => TreeMovesTogether
<1>1. TreeShape => \A p \in Pcb, ns \in Nsd : changeNamespace(p, ns) =>
                     namespaces' = [q \in Pcb |-> IF q \in Tree(p) THEN ns ELSE namespaces[q]]
  BY TableAssumption, AddTree DEF changeNamespace
<1> QED
  BY <1>1, TreeInvariance, PTL DEF TreeMovesTogether

-----------------------------------------------------------------------------
(* The circle of a head *)

(* What an NSD list may hold: namespaces and the two heads.                *)
Links == Nsd \cup {type_nsFree_h, type_nsList_h}

(* The two heads are apart from the NSDs and from each other.              *)
LEMMA Heads ==
  ASSUME TableAssumption
  PROVE  /\ type_nsFree_h # type_nsList_h /\ type_nsFree_h \in Links /\ type_nsList_h \in Links
         /\ type_nsFree_h \notin Nsd /\ type_nsList_h \notin Nsd
         /\ NULL \notin Links /\ Nsd \subseteq Links
         /\ IsFiniteSet(Links)
<1>1. type_nsFree_h \notin Nsd \cup {NULL} /\ type_nsList_h \notin Nsd \cup {NULL}
  BY DEF TableAssumption, type_nsFree_h, type_nsList_h
<1>2. type_nsFree_h # type_nsList_h
  BY DEF type_nsFree_h, type_nsList_h
<1>3. IsFiniteSet(Nsd) /\ NULL \notin Nsd
  BY DEF TableAssumption
<1>4. IsFiniteSet(Nsd \cup {type_nsFree_h})
  BY <1>3, FS_AddElement
<1>5. IsFiniteSet((Nsd \cup {type_nsFree_h}) \cup {type_nsList_h})
  BY <1>4, FS_AddElement
<1>6. (Nsd \cup {type_nsFree_h}) \cup {type_nsList_h} = Links
  BY DEF Links
<1> QED
  BY <1>1, <1>2, <1>3, <1>5, <1>6 DEF Links

(* The circle of one head, with the entries S.                             *)
Holds(m, l, S) ==
  \E s \in Seq(Links) : Ring(Links, l, s) /\ Circle(m, l, s) /\ Nodes(l, s) = {l} \cup S

(* A circle none of whose links was written is still there.                *)
LEMMA HoldsSame ==
  ASSUME NEW m, NEW r, NEW l, NEW S, NEW W, Holds(m, l, S), Same(m, r, Links, W),
         W \cap ({l} \cup S) = {}
  PROVE  Holds(r, l, S)
<1>1. PICK s \in Seq(Links) : Ring(Links, l, s) /\ Circle(m, l, s) /\ Nodes(l, s) = {l} \cup S
  BY DEF Holds
<1>2. Circle(r, l, s)
  <2> SUFFICES ASSUME NEW i \in 0 .. Len(s)
               PROVE  r.next[At(l, s, i)] = At(l, s, i + 1) /\ r.prev[At(l, s, i + 1)] = At(l, s, i)
    BY DEF Circle
  <2>1. \A j \in 0 .. Len(s) + 1 : At(l, s, j) \in Links /\ At(l, s, j) \in Nodes(l, s)
    BY <1>1, RingFacts
  <2>2. i \in 0 .. Len(s) + 1 /\ i + 1 \in 0 .. Len(s) + 1
    BY <1>1, RingFacts
  <2>3. At(l, s, i) \in Links \ W /\ At(l, s, i + 1) \in Links \ W
    BY <1>1, <2>1, <2>2
  <2>4. m.next[At(l, s, i)] = At(l, s, i + 1) /\ m.prev[At(l, s, i + 1)] = At(l, s, i)
    BY <1>1 DEF Circle
  <2> QED
    BY <2>3, <2>4 DEF Same
<1> QED
  BY <1>1, <1>2 DEF Holds

(* list_del takes an entry out of its circle.                              *)
LEMMA HoldsDel ==
  ASSUME NULL \notin Links, NEW m \in Mem(Links), NEW l, NEW S, Holds(m, l, S), l \notin S,
           NEW x \in S
  PROVE  /\ list_del(m, x) \in Mem(Links)
         /\ Holds(list_del(m, x), l, S \ {x})
         /\ Same(m, list_del(m, x), Links, {l} \cup S)
<1>1. PICK s \in Seq(Links) : Ring(Links, l, s) /\ Circle(m, l, s) /\ Nodes(l, s) = {l} \cup S
  BY DEF Holds
<1>2. PICK k \in 1 .. Len(s) : s[k] = x
  <2>1. Nodes(l, s) = {l} \cup ToSet(s)
    BY <1>1, NodesSet
  <2> QED
    BY <1>1, <2>1 DEF ToSet
<1> DEFINE r == __list_del_entry(m, x)
           t == RemoveAt(s, k)
<1>3. /\ r \in Mem(Links) /\ Ring(Links, l, t) /\ Circle(r, l, t)
      /\ Nodes(l, t) = Nodes(l, s) \ {x} /\ Same(m, r, Links, Nodes(l, s))
  <2> DEFINE e == __list_del_entry(m, s[k])
  <2>1. /\ e \in Mem(Links) /\ Ring(Links, l, t) /\ Circle(e, l, t)
        /\ Nodes(l, t) = Nodes(l, s) \ {s[k]} /\ Same(m, e, Links, Nodes(l, s))
    BY <1>1, RemoveCircle
  <2> HIDE DEF t
  <2> QED
    BY <1>2, <2>1
<1>4. t \in Seq(Links)
  BY <1>3, RingFacts
<1>5. Holds(r, l, S \ {x})
  <2>1. Nodes(l, t) = {l} \cup (S \ {x})
    BY <1>1, <1>3
  <2> HIDE DEF r, t
  <2> QED
    BY <1>3, <1>4, <2>1 DEF Holds
<1>6. x \in Links
  BY <1>1, <1>2
<1> DEFINE d == list_del(m, x)
<1> HIDE DEF r
<1>7. /\ d \in Mem(Links) /\ Same(r, d, Links, {x})
  <2>1. d = [r EXCEPT !.next[x] = NULL, !.prev[x] = NULL]
    BY DEF r, list_del
  <2> HIDE DEF d
  <2> QED
    BY <1>3, <1>6, <2>1 DEF Mem, Same
<1>8. Holds(d, l, S \ {x})
  <2> HIDE DEF d
  <2>1. {x} \cap ({l} \cup (S \ {x})) = {}
    OBVIOUS
  <2> QED
    BY <1>5, <1>7, <2>1, HoldsSame
<1>9. Same(m, d, Links, {l} \cup S)
  <2> HIDE DEF d
  <2> QED
    BY <1>1, <1>3, <1>7 DEF Same
<1> QED
  BY <1>7, <1>8, <1>9

(* list_add puts an entry that is in no list into the circle.              *)
LEMMA HoldsAdd ==
  ASSUME NULL \notin Links, NEW m \in Mem(Links), NEW l, NEW S, Holds(m, l, S), NEW x \in Links,
           x \notin {l} \cup S
  PROVE  /\ list_add(m, x, l) \in Mem(Links)
         /\ Holds(list_add(m, x, l), l, S \cup {x})
         /\ Same(m, list_add(m, x, l), Links, {l} \cup S \cup {x})
<1>1. PICK s \in Seq(Links) : Ring(Links, l, s) /\ Circle(m, l, s) /\ Nodes(l, s) = {l} \cup S
  BY DEF Holds
<1>2. /\ Len(s) \in Nat /\ At(l, s, 0) = l
  BY <1>1, RingFacts
<1> DEFINE r == __list_add(m, x, At(l, s, 0), At(l, s, 0 + 1))
           t == InsertAt(s, 0 + 1, x)
           z == 0
<1>3. /\ r \in Mem(Links) /\ Ring(Links, l, t) /\ Circle(r, l, t)
      /\ Nodes(l, t) = Nodes(l, s) \cup {x} /\ Same(m, r, Links, Nodes(l, s) \cup {x})
  <2>1. z \in 0 .. Len(s) /\ x \in Links \ Nodes(l, s)
    BY <1>1, <1>2
  <2> DEFINE e == __list_add(m, x, At(l, s, z), At(l, s, z + 1))
             u == InsertAt(s, z + 1, x)
  <2> HIDE DEF z
  <2>2. /\ e \in Mem(Links) /\ Ring(Links, l, u) /\ Circle(e, l, u)
        /\ Nodes(l, u) = Nodes(l, s) \cup {x} /\ Same(m, e, Links, Nodes(l, s) \cup {x})
    BY <1>1, <2>1, AddCircle
  <2> QED
    BY <2>2 DEF z
<1>4. r = list_add(m, x, l)
  <2>1. m.next[At(l, s, 0)] = At(l, s, 0 + 1)
    BY <1>1, <1>2 DEF Circle
  <2> QED
    BY <1>2, <2>1 DEF list_add
<1>5. t \in Seq(Links)
  BY <1>3, RingFacts
<1>6. Nodes(l, t) = {l} \cup (S \cup {x})
  BY <1>1, <1>3
<1>7. Nodes(l, s) \cup {x} = {l} \cup S \cup {x}
  BY <1>1
<1> HIDE DEF r, t
<1>8. Holds(r, l, S \cup {x})
  BY <1>3, <1>5, <1>6 DEF Holds
<1> QED
  BY <1>3, <1>4, <1>7, <1>8

(* The first entry of a circle that is not empty, and what a walk finds.   *)
LEMMA HoldsWalk ==
  ASSUME TableAssumption, NEW m \in Mem(Links), NEW l, NEW S, Holds(m, l, S), l \notin S
  PROVE  /\ list_for_each(m, l) \in Seq(Links) /\ IsInjective(list_for_each(m, l))
         /\ ToSet(list_for_each(m, l)) = S
         /\ list_for_each_prev(m, l) = Reverse(list_for_each(m, l))
         /\ ~ list_empty(m, l) => m.next[l] \in S
<1>1. PICK s \in Seq(Links) : Ring(Links, l, s) /\ Circle(m, l, s) /\ Nodes(l, s) = {l} \cup S
  BY DEF Holds
<1>2. list_for_each(m, l) = s /\ list_for_each_prev(m, l) = Reverse(s)
  BY <1>1, Heads, CircleWalks
<1>3. /\ m.next[l] = IF Len(s) = 0 THEN l ELSE s[1]
      /\ \A i \in 1 .. Len(s) : s[i] # l
      /\ \A i, j \in 1 .. Len(s) : s[i] = s[j] => i = j
  BY <1>1, CircleLinks
<1>4. ToSet(s) = S
  <2>1. Nodes(l, s) = {l} \cup ToSet(s)
    BY <1>1, NodesSet
  <2>2. l \notin ToSet(s)
    BY <1>3 DEF ToSet
  <2> QED
    BY <1>1, <2>1, <2>2
<1>5. IsInjective(s)
  BY <1>3, <1>1 DEF IsInjective
<1>6. ASSUME ~ list_empty(m, l) PROVE m.next[l] \in S
  <2>1. Len(s) # 0
    BY <1>3, <1>6 DEF list_empty
  <2>2. 1 \in 1 .. Len(s) /\ m.next[l] = s[1]
    BY <1>1, <1>3, <2>1
  <2> QED
    BY <1>1, <1>4, <2>2 DEF ToSet
<1> QED
  BY <1>1, <1>2, <1>4, <1>5, <1>6

-----------------------------------------------------------------------------
(* The table of NSDs *)

(* The recursive function of initNamespaces.                               *)
Added(start, table, B) ==
  CHOOSE w : w = [i \in 0 .. B |-> IF i = 0 THEN start
    ELSE list_add(w[i - 1], table[i], type_nsFree_h)]

(* It obeys its own equation.                                              *)
LEMMA AddedRule ==
  ASSUME NEW start, NEW table, NEW B \in Nat, NEW i \in 0 .. B
  PROVE  Added(start, table, B)[i] =
           IF i = 0 THEN start ELSE list_add(Added(start, table, B)[i - 1], table[i], type_nsFree_h)
<1> DEFINE added == Added(start, table, B)
           rule(w, c) == IF c = 0 THEN start ELSE list_add(w[c - 1], table[c], type_nsFree_h)
           Good(c, w) == w = [d \in 0 .. c |-> rule(w, d)]
           Bad == {c \in Nat : ~ \E w : Good(c, w)}
<1>2. Bad = {}
  <2> SUFFICES ASSUME Bad # {} PROVE FALSE
    OBVIOUS
  <2>1. PICK c \in Bad : \A d \in Bad : c <= d
    BY NatMin
  <2>2. CASE c = 0
    <3> DEFINE w == [d \in 0 .. 0 |-> start]
    <3>1. \A d \in 0 .. 0 : rule(w, d) = start
      OBVIOUS
    <3>2. Good(0, w)
      <4> HIDE DEF rule
      <4> QED BY <3>1
    <3> QED BY <3>2, <2>2
  <2>3. CASE c # 0
    <3>1. c - 1 \in Nat /\ c - 1 \notin Bad
      <4>1. c \in Nat
        BY <2>1
      <4>2. c - 1 \in Nat /\ ~ (c <= c - 1)
        BY <4>1, <2>3
      <4> HIDE DEF Bad
      <4> QED BY <4>2, <2>1
    <3>2. PICK v : Good(c - 1, v)
      BY <3>1
    <3> DEFINE w == [d \in 0 .. c |-> rule(v, d)]
    <3>3. \A d \in 0 .. c - 1 : v[d] = rule(v, d)
      <4> HIDE DEF rule
      <4> QED BY <3>2
    <3>4. \A d \in 0 .. c : w[d] = rule(v, d)
      <4> HIDE DEF rule
      <4> QED OBVIOUS
    <3>5. \A d \in 0 .. c - 1 : w[d] = v[d]
      <4> HIDE DEF w, rule
      <4> QED BY <3>3, <3>4, <3>1
    <3>6. \A d \in 0 .. c : rule(v, d) = rule(w, d)
      <4> TAKE d \in 0 .. c
      <4> HIDE DEF w
      <4>1. CASE d = 0
        BY <4>1
      <4>2. CASE d # 0
        <5>1. w[d - 1] = v[d - 1]
          <6>1. d - 1 \in 0 .. c - 1
            BY <4>2
          <6> QED BY <6>1, <3>5
        <5> QED BY <5>1
      <4> QED BY <4>1, <4>2
    <3>7. Good(c, w)
      <4> HIDE DEF rule
      <4> QED BY <3>6
    <3> QED BY <3>7
  <2> QED BY <2>2, <2>3
<1>3. PICK w : Good(B, w)
  BY <1>2
<1>4. added = CHOOSE x : Good(B, x)
  BY Zenon DEF Added
<1>5. Good(B, added)
  <2> HIDE DEF Good, added
  <2> QED BY <1>3, <1>4
<1>6. \A d \in 0 .. B : added[d] = rule(added, d)
  <2> HIDE DEF rule, added
  <2> QED BY <1>5
<1> QED
  <2> HIDE DEF added
  <2>1. added[i] = IF i = 0 THEN start ELSE list_add(added[i - 1], table[i], type_nsFree_h)
    BY <1>6
  <2> QED
    BY <2>1 DEF added

(* SetToSeq lists a finite set, each member once.                          *)
LEMMA ListedSet ==
  ASSUME NEW S, IsFiniteSet(S)
  PROVE  /\ SetToSeq(S) \in Seq(S) /\ IsInjective(SetToSeq(S))
         /\ Len(SetToSeq(S)) = Cardinality(S) /\ Cardinality(S) \in Nat
         /\ \A x \in S : \E i \in 1 .. Cardinality(S) : SetToSeq(S)[i] = x
<1> DEFINE n == Cardinality(S)
           t == SetToSeq(S)
<1>1. n \in Nat /\ ExistsBijection(1 .. n, S)
  BY FS_CardinalityType
<1>2. \E f \in [1 .. n -> S] : IsInjective(f)
  BY <1>1 DEF ExistsBijection, Bijection, Injection
<1>3. t \in [1 .. n -> S] /\ IsInjective(t)
  <2>1. t = CHOOSE f \in [1 .. n -> S] : IsInjective(f)
    BY DEF SetToSeq
  <2> HIDE DEF t, n
  <2> QED
    BY <1>2, <2>1
<1>4. t \in Injection(1 .. n, S)
  BY <1>3 DEF Injection
<1>5. IsFiniteSet(1 .. n) /\ Cardinality(1 .. n) = n
  BY <1>1, FS_Interval
<1>6. t \in Surjection(1 .. n, S)
  <2> HIDE DEF t
  <2> QED
    BY <1>4, <1>5, FS_Injection DEF n
<1>7. \A x \in S : \E i \in 1 .. n : t[i] = x
  BY <1>6 DEF Surjection
<1> HIDE DEF t, n
<1>8. t \in Seq(S) /\ Len(t) = n
  BY <1>1, <1>3
<1> QED
  BY <1>1, <1>3, <1>7, <1>8 DEF t, n

(* A head that points to itself both ways is an empty list.                *)
LEMMA HoldsEmpty ==
  ASSUME NEW m, NEW l \in Links, m.next[l] = l, m.prev[l] = l
  PROVE  Holds(m, l, {})
<1> DEFINE s == <<>>
<1>1. s \in Seq(Links) /\ Len(s) = 0 /\ \A i \in Int : At(l, s, i) = l
  BY DEF At
<1> HIDE DEF s
<1>2. Ring(Links, l, s) /\ Circle(m, l, s)
  BY <1>1 DEF Ring, Circle
<1>3. Nodes(l, s) = {l} \cup {}
  BY <1>1 DEF Nodes
<1> QED
  BY <1>1, <1>2, <1>3 DEF Holds

(* initNamespaces puts every NSD of the table on the free list.            *)
LEMMA NsdInit ==
  ASSUME TableAssumption
  PROVE  /\ initNamespaces \in Mem(Links)
         /\ Holds(initNamespaces, type_nsFree_h, Nsd)
         /\ Holds(initNamespaces, type_nsList_h, {})
<1> DEFINE links == [x \in Nsd
                      \cup {type_nsFree_h, type_nsList_h} |-> IF x \in Nsd THEN NULL ELSE x]
           start == [next |-> links, prev |-> links]
           table == SetToSeq(Nsd)
           n == Len(table)
           m(i) == Added(start, table, n)[i]
           F == type_nsFree_h
           L == type_nsList_h
           In(i) == {table[j] : j \in 1 .. i}
           OK(i) == m(i) \in Mem(Links) /\ Holds(m(i), F, In(i)) /\ Holds(m(i), L, {})
           Bad == {i \in 0 .. n : ~ OK(i)}
<1>1. /\ table \in Seq(Nsd) /\ n \in Nat /\ \A i, j \in 1 .. n : table[i] = table[j] => i = j
      /\ \A x \in Nsd : \E i \in 1 .. n : table[i] = x
      /\ \A j \in 1 .. n : table[j] \in Nsd
  <2>1. IsFiniteSet(Nsd)
    BY DEF TableAssumption
  <2>2. /\ table \in Seq(Nsd) /\ IsInjective(table) /\ n \in Nat
        /\ \A x \in Nsd : \E i \in 1 .. n : table[i] = x
    BY <2>1, ListedSet
  <2> HIDE DEF table
  <2>3. DOMAIN table = 1 .. n /\ \A j \in 1 .. n : table[j] \in Nsd
    BY <2>2
  <2>4. \A i, j \in 1 .. n : table[i] = table[j] => i = j
    BY <2>2, <2>3 DEF IsInjective
  <2> QED
    BY <2>2, <2>3, <2>4
<1>2. start \in Mem(Links) /\ start.next[F] = F /\ start.prev[F] = F /\ start.next[L] = L
        /\ start.prev[L] = L
  BY Heads DEF Mem, Links
<1>3. F \in Links /\ L \in Links /\ F # L /\ F \notin Nsd /\ L \notin Nsd /\ NULL \notin Links
        /\ Nsd \subseteq Links
  BY Heads
<1> HIDE DEF links, start, table, F, L
<1>4. m(0) = start
  <2>1. 0 \in 0 .. n
    BY <1>1
  <2> QED
    BY <1>1, <2>1, AddedRule
<1>5. \A i \in 1 .. n : m(i) = list_add(m(i - 1), table[i], F)
  <2> TAKE i \in 1 .. n
  <2>1. i \in 0 .. n /\ i # 0
    BY <1>1
  <2> QED
    BY <1>1, <2>1, AddedRule DEF F
<1> HIDE DEF m, n
<1>6. OK(0)
  <2>1. In(0) = {}
    OBVIOUS
  <2> HIDE DEF In
  <2> QED
    BY <1>2, <1>3, <1>4, <2>1, HoldsEmpty
<1>7. Bad = {}
  <2> SUFFICES ASSUME Bad # {} PROVE FALSE
    OBVIOUS
  <2>1. PICK i \in Bad : \A j \in Bad : i <= j
    <3>1. Bad \in SUBSET Nat
      BY <1>1
    <3> HIDE DEF Bad
    <3> QED
      BY <3>1, NatMin
  <2>2. i \in 1 .. n /\ i - 1 \in 0 .. n /\ ~ (i <= i - 1) /\ ~ OK(i)
    <3> HIDE DEF OK
    <3> QED
      BY <1>1, <1>6, <2>1
  <2>3. OK(i - 1)
    <3> HIDE DEF OK
    <3> QED
      BY <2>1, <2>2
  <2> DEFINE x == table[i]
             S == In(i - 1)
             a == m(i - 1)
  <2>4. x \in Nsd /\ S \subseteq Nsd /\ x \notin S /\ In(i) = S \cup {x}
    <3>1. x \in Nsd /\ \A j \in 1 .. i - 1 : table[j] \in Nsd /\ table[j] # x
      <4>1. \A j \in 1 .. i - 1 : j \in 1 .. n /\ j # i
        BY <1>1, <2>2
      <4> QED
        BY <1>1, <2>2, <4>1
    <3>2. \A j \in 1 .. i : j \in 1 .. i - 1 \/ j = i
      BY <2>2
    <3>3. i \in 1 .. i /\ \A j \in 1 .. i - 1 : j \in 1 .. i
      BY <2>2
    <3> QED
      BY <3>1, <3>2, <3>3
  <2>5. a \in Mem(Links) /\ Holds(a, F, S) /\ Holds(a, L, {})
    BY <2>3
  <2>6. m(i) = list_add(a, x, F)
    BY <1>5, <2>2
  <2> HIDE DEF a, x, S, In
  <2>7. x \in Links /\ x \notin {F} \cup S
    BY <1>3, <2>4
  <2> DEFINE r == list_add(a, x, F)
  <2>8. r \in Mem(Links) /\ Holds(r, F, S \cup {x}) /\ Same(a, r, Links, {F} \cup S \cup {x})
    BY <1>3, <2>5, <2>7, HoldsAdd
  <2>9. Holds(r, L, {})
    <3>1. ({F} \cup S \cup {x}) \cap ({L} \cup {}) = {}
      BY <1>3, <2>4
    <3> HIDE DEF r
    <3> QED
      BY <2>5, <2>8, <3>1, HoldsSame
  <2> HIDE DEF r
  <2> QED
    BY <2>2, <2>4, <2>6, <2>8, <2>9 DEF r
<1>8. OK(n)
  <2> HIDE DEF OK
  <2>1. n \in 0 .. n
    BY <1>1
  <2> QED
    BY <1>7, <2>1
<1>9. In(n) = Nsd
  BY <1>1 DEF n
<1>10. m(n) = initNamespaces
  BY Zenon DEF initNamespaces, m, n, table, start, links, Added
<1> HIDE DEF In
<1> QED
  BY <1>8, <1>9, <1>10 DEF F, L

-----------------------------------------------------------------------------
(* The two lists of NSDs *)

(* The circles of the two heads share out the NSDs, and the one of a       *)
(* process is in the second.                                               *)
Shared(m, U) ==
  /\ U \subseteq Nsd /\ m \in Mem(Links)
  /\ Holds(m, type_nsFree_h, Nsd \ U) /\ Holds(m, type_nsList_h, U)

(* The namespace of every process is allocated, or NULL.                   *)
Used(U) == \A p \in live : namespaces[p] \in U \cup {NULL}

(* The inductive invariant of the NSD lists.                               *)
NsdShape ==
  /\ namespaces \in [Pcb -> Nsd \cup {NULL}]
  /\ \E U \in SUBSET Nsd : Shared(n_link, U) /\ Used(U)

(* list_del and then list_add at the other head.                           *)
LEMMA MoveNsd ==
  ASSUME TableAssumption, NEW m \in Mem(Links), NEW l \in Links, NEW h \in Links, l # h,
         NEW S \in SUBSET Nsd, NEW T \in SUBSET Nsd, S \cap T = {},
         l \notin Nsd, h \notin Nsd,
         Holds(m, l, S), Holds(m, h, T), NEW x \in S
  PROVE  LET r == list_add(list_del(m, x), x, h) IN
         r \in Mem(Links) /\ Holds(r, l, S \ {x}) /\ Holds(r, h, T \cup {x})
<1> DEFINE d == list_del(m, x)
           r == list_add(d, x, h)
<1>1. NULL \notin Links /\ x \in Links
  BY Heads
<1>2. d \in Mem(Links) /\ Holds(d, l, S \ {x}) /\ Same(m, d, Links, {l} \cup S)
  BY <1>1, HoldsDel
<1> HIDE DEF d
<1>3. Holds(d, h, T)
  <2>1. ({l} \cup S) \cap ({h} \cup T) = {}
    OBVIOUS
  <2> QED
    BY <1>2, <2>1, HoldsSame
<1>4. r \in Mem(Links) /\ Holds(r, h, T \cup {x}) /\ Same(d, r, Links, {h} \cup T \cup {x})
  <2>1. x \notin {h} \cup T
    OBVIOUS
  <2> QED
    BY <1>1, <1>2, <1>3, <2>1, HoldsAdd
<1> HIDE DEF r
<1>5. Holds(r, l, S \ {x})
  <2>1. ({h} \cup T \cup {x}) \cap ({l} \cup (S \ {x})) = {}
    OBVIOUS
  <2> QED
    BY <1>2, <1>4, <2>1, HoldsSame
<1> QED
  BY <1>4, <1>5 DEF r, d

(* What the walks along the two lists find.                                *)
LEMMA SharedWalk ==
  ASSUME TableAssumption, NEW m, NEW U, Shared(m, U)
  PROVE  /\ \A l \in {type_nsFree_h, type_nsList_h} :
              /\ list_for_each(m, l) \in Seq(Links) /\ IsInjective(list_for_each(m, l))
              /\ list_for_each_prev(m, l) = Reverse(list_for_each(m, l))
         /\ ToSet(list_for_each(m, type_nsFree_h)) = Nsd \ U
         /\ ToSet(list_for_each(m, type_nsList_h)) = U
         /\ ~ list_empty(m, type_nsFree_h) => m.next[type_nsFree_h] \in Nsd \ U
<1>1. type_nsFree_h \notin Nsd \ U /\ type_nsList_h \notin U /\ m \in Mem(Links)
  BY Heads DEF Shared
<1>2. Holds(m, type_nsFree_h, Nsd \ U) /\ Holds(m, type_nsList_h, U)
  BY DEF Shared
<1>3. /\ list_for_each(m, type_nsFree_h) \in Seq(Links)
           /\ IsInjective(list_for_each(m, type_nsFree_h))
      /\ ToSet(list_for_each(m, type_nsFree_h)) = Nsd \ U
      /\ list_for_each_prev(m, type_nsFree_h) = Reverse(list_for_each(m, type_nsFree_h))
      /\ ~ list_empty(m, type_nsFree_h) => m.next[type_nsFree_h] \in Nsd \ U
  BY <1>1, <1>2, HoldsWalk
<1>4. /\ list_for_each(m, type_nsList_h) \in Seq(Links)
           /\ IsInjective(list_for_each(m, type_nsList_h))
      /\ ToSet(list_for_each(m, type_nsList_h)) = U
      /\ list_for_each_prev(m, type_nsList_h) = Reverse(list_for_each(m, type_nsList_h))
  BY <1>1, <1>2, HoldsWalk
<1> QED
  BY <1>3, <1>4

(* Initially all NSDs are free.                                            *)
LEMMA NsdStart == ASSUME TableAssumption, Init PROVE NsdShape
<1>1. Shared(n_link, {})
  <2>1. Nsd \ {} = Nsd /\ n_link = initNamespaces
    BY DEF Init
  <2> QED
    BY <2>1, NsdInit DEF Shared
<1>2. Used({})
  BY DEF Used, Init
<1>3. namespaces \in [Pcb -> Nsd \cup {NULL}]
  BY DEF Init
<1> QED
  BY <1>1, <1>2, <1>3 DEF NsdShape

(* allocNamespace takes the first free NSD, and loses none.                *)
LEMMA NsdAlloc == ASSUME TableAssumption, NsdShape, allocNamespace PROVE NsdShape'
<1>1. PICK U \in SUBSET Nsd : Shared(n_link, U) /\ Used(U)
  BY DEF NsdShape
<1>2. PICK x \in Nsd \ U : x = n_link.next[type_nsFree_h]
  <2>1. ~ list_empty(n_link, type_nsFree_h)
    BY DEF allocNamespace
  <2> QED
    BY <1>1, <2>1, SharedWalk
<1> DEFINE r == list_add(list_del(n_link, x), x, type_nsList_h)
<1>3. n_link' = r /\ live' = live /\ namespaces' = namespaces
  BY <1>2 DEF allocNamespace, treeVars
<1>4. Shared(r, U \cup {x})
  <2>1. (Nsd \ U) \cap U = {} /\ (Nsd \ U) \ {x} = Nsd \ (U \cup {x})
    OBVIOUS
  <2>2. n_link \in Mem(Links) /\ Holds(n_link, type_nsFree_h, Nsd \ U)
          /\ Holds(n_link, type_nsList_h, U)
    BY <1>1 DEF Shared
  <2> DEFINE S == Nsd \ U
  <2>3. S \in SUBSET Nsd /\ S \cap U = {} /\ x \in S
    BY <1>2
  <2>4. Holds(n_link, type_nsFree_h, S)
    BY <2>2
  <2> HIDE DEF S
  <2>5. r \in Mem(Links) /\ Holds(r, type_nsFree_h, S \ {x}) /\ Holds(r, type_nsList_h, U \cup {x})
    BY <2>2, <2>3, <2>4, Heads, MoveNsd
  <2> HIDE DEF r
  <2> QED
    BY <1>2, <2>1, <2>5 DEF Shared, S
<1>5. Used(U \cup {x})'
  BY <1>1, <1>3 DEF Used
<1> HIDE DEF r
<1> QED
  BY <1>2, <1>3, <1>4, <1>5 DEF NsdShape, Used

(* freeNamespace gives back an NSD no process has.                         *)
LEMMA NsdFree ==
  ASSUME TableAssumption, NsdShape, NEW ns \in Nsd, freeNamespace(ns)
  PROVE  NsdShape'
<1>1. PICK U \in SUBSET Nsd : Shared(n_link, U) /\ Used(U)
  BY DEF NsdShape
<1> DEFINE r == list_add(list_del(n_link, ns), ns, type_nsFree_h)
<1>2. /\ ns \in Allocated /\ \A p \in live : namespaces[p] # ns
      /\ n_link' = r /\ live' = live /\ namespaces' = namespaces
  BY DEF freeNamespace, treeVars
<1>3. ns \in U
  BY <1>1, <1>2, SharedWalk DEF Allocated
<1>4. Shared(r, U \ {ns})
  <2>1. (Nsd \ U) \cup {ns} = Nsd \ (U \ {ns})
    BY <1>3
  <2>2. n_link \in Mem(Links) /\ Holds(n_link, type_nsFree_h, Nsd \ U)
          /\ Holds(n_link, type_nsList_h, U)
    BY <1>1 DEF Shared
  <2> DEFINE S == Nsd \ U
  <2>3. S \in SUBSET Nsd /\ U \cap S = {}
    OBVIOUS
  <2>4. Holds(n_link, type_nsFree_h, S)
    BY <2>2
  <2> HIDE DEF S
  <2>5. r \in Mem(Links) /\ Holds(r, type_nsList_h, U \ {ns})
          /\ Holds(r, type_nsFree_h, S \cup {ns})
    BY <1>3, <2>2, <2>3, <2>4, Heads, MoveNsd
  <2> HIDE DEF r
  <2> QED
    BY <2>1, <2>5 DEF Shared, S
<1>5. Used(U \ {ns})'
  BY <1>1, <1>2 DEF Used
<1> HIDE DEF r
<1> QED
  BY <1>2, <1>4, <1>5 DEF NsdShape, Used

(* Every step keeps the two lists apart, and the namespaces of the         *)
(* processes allocated.                                                    *)
LEMMA NsdNext == ASSUME TableAssumption, TreeShape, NsdShape, [Next]_vars PROVE NsdShape'
<1>1. CASE UNCHANGED vars
  BY <1>1 DEF NsdShape, Used, vars, treeVars
<1>2. CASE allocNamespace
  BY <1>2, NsdAlloc
<1>3. ASSUME NEW ns \in Nsd, freeNamespace(ns) PROVE NsdShape'
  BY <1>3, NsdFree
<1>4. ASSUME NEW ns \in Nsd, NEW p \in Pcb, changeNamespace(p, ns) PROVE NsdShape'
  <2>1. PICK U \in SUBSET Nsd : Shared(n_link, U) /\ Used(U)
    BY DEF NsdShape
  <2>2. /\ p \in live /\ ns \in Allocated /\ live' = live /\ n_link' = n_link
        /\ namespaces' = [q \in Pcb |-> IF q \in Tree(p) THEN ns ELSE namespaces[q]]
    <3>1. /\ p \in live /\ ns \in Allocated /\ live' = live /\ n_link' = n_link
          /\ namespaces' = addNamespace(namespaces, p, ns)
      BY <1>4 DEF changeNamespace, treeVars
    <3> QED
      BY <3>1, AddTree
  <2>3. ns \in U
    BY <2>1, <2>2, SharedWalk DEF Allocated
  <2>4. live \subseteq Pcb
    BY DEF TreeShape, TreeTypeOK
  <2>5. Used(U)'
    BY <2>1, <2>2, <2>3, <2>4 DEF Used
  <2>6. namespaces' \in [Pcb -> Nsd \cup {NULL}]
    BY <2>2, <2>3 DEF NsdShape
  <2> QED
    BY <2>1, <2>2, <2>5, <2>6 DEF NsdShape, Used
<1>5. ASSUME NEW parent \in Pcb, NEW p \in Pcb, NEW ns \in Nsd \cup {NULL},
               sysCreateProcess(parent, p, ns)
      PROVE  NsdShape'
  <2>1. PICK U \in SUBSET Nsd : Shared(n_link, U) /\ Used(U)
    BY DEF NsdShape
  <2>2. /\ parent \in live /\ ns \in Allocated \cup {NULL} /\ live' = live \cup {p}
             /\ n_link' = n_link
        /\ namespaces' = [namespaces EXCEPT ![p] = IF ns # NULL THEN ns ELSE namespaces[parent]]
    BY <1>5 DEF sysCreateProcess
  <2>3. ns \in U \cup {NULL}
    BY <2>1, <2>2, SharedWalk DEF Allocated
  <2>4. live \subseteq Pcb /\ namespaces \in [Pcb -> Nsd \cup {NULL}]
    BY DEF TreeShape, TreeTypeOK, NsdShape
  <2>5. namespaces[parent] \in U \cup {NULL}
    BY <2>1, <2>2 DEF Used
  <2>6. Used(U)'
    BY <2>1, <2>2, <2>3, <2>4, <2>5 DEF Used
  <2>7. namespaces' \in [Pcb -> Nsd \cup {NULL}]
    BY <2>2, <2>3, <2>4, <2>5
  <2> QED
    BY <2>1, <2>2, <2>6, <2>7 DEF NsdShape, Used
<1>6. ASSUME NEW p \in Pcb, sysTerminateProcess(p) PROVE NsdShape'
  BY <1>6 DEF sysTerminateProcess, NsdShape, Used
<1> QED
  BY <1>1, <1>2, <1>3, <1>4, <1>5, <1>6 DEF Next

(* The two lists account for every NSD.                                    *)
LEMMA NsdSafe == ASSUME TableAssumption, NsdShape PROVE NsdsAccounted
<1>1. PICK U \in SUBSET Nsd : Shared(n_link, U) /\ Used(U)
  BY DEF NsdShape
<1> DEFINE f == list_for_each(n_link, type_nsFree_h)
           u == list_for_each(n_link, type_nsList_h)
<1>2. /\ f \in Seq(Links) /\ IsInjective(f) /\ ToSet(f) = Nsd \ U
      /\ u \in Seq(Links) /\ IsInjective(u) /\ ToSet(u) = U
      /\ list_for_each_prev(n_link, type_nsFree_h) = Reverse(f)
  BY <1>1, SharedWalk
<1> HIDE DEF f, u
<1>3. ToSet(f \o u) = Nsd /\ IsInjective(f \o u)
  <2>1. ToSet(f) \cap ToSet(u) = {}
    BY <1>2
  <2>2. ToSet(f \o u) = ToSet(f) \cup ToSet(u) /\ IsInjective(f \o u)
    BY <1>2, <2>1, ConcatQueue
  <2> QED
    BY <1>2, <2>2
<1>4. \A p \in live : namespaces[p] \in ToSet(u) \cup {NULL}
  BY <1>1, <1>2 DEF Used
<1> QED
  BY <1>2, <1>3, <1>4 DEF NsdsAccounted, f, u

(* No NSD is lost or in both lists, and none on the free list belongs to a *)
(* process.                                                                *)
THEOREM NsdsKept == Spec => []NsdsAccounted
<1>1. Init => NsdShape
  BY TableAssumption, NsdStart
<1>2. TreeShape /\ NsdShape /\ [Next]_vars => NsdShape'
  BY TableAssumption, NsdNext
<1>3. NsdShape => NsdsAccounted
  BY TableAssumption, NsdSafe
<1> QED
  BY <1>1, <1>2, <1>3, TreeInvariance, PTL DEF Spec

-----------------------------------------------------------------------------
(* The recursion of getChildsByNamespace *)

(* What the walk carries along: the array filled so far and the count.     *)
Acc == [children : Seq(Pcb), num : Nat]

(* The recursive functions of getChildsByNamespace: the children of q, one *)
(* after the other, when v visits a process;                               *)
Under(v, size, current, q, a) ==
  CHOOSE b : b = [i \in 0 .. Len(p_child[q]) |->
                    IF i = 0
                    THEN [children |-> listed(a.children, size, current, q), num |-> a.num + 1]
                    ELSE v[p_child[q][i]][b[i - 1]]]

(* and the visits themselves, B calls deep.                                *)
Counted(size, current, B) ==
  CHOOSE w : w = [depth \in 0 .. B |->
                    [q \in Pcb |-> [a \in Acc |->
                       IF depth = 0 \/ getNamespace(q) # getNamespace(current) THEN a
                       ELSE Under(w[depth - 1], size, current, q, a)[Len(p_child[q])]]]]

(* One equation of Under.                                                  *)
Continues(v, size, current, q, a, i) ==
  Under(v, size, current, q, a)[i] =
    IF i = 0
    THEN [children |-> listed(a.children, size, current, q), num |-> a.num + 1]
    ELSE v[p_child[q][i]][Under(v, size, current, q, a)[i - 1]]

(* Under obeys all of them.                                                *)
LEMMA UnderRule ==
  ASSUME NEW v, NEW size, NEW current, NEW q, NEW a, Len(p_child[q]) \in Nat,
         NEW i \in 0 .. Len(p_child[q])
  PROVE  Continues(v, size, current, q, a, i)
<1> DEFINE f == Under(v, size, current, q, a)
           B == Len(p_child[q])
           start == [children |-> listed(a.children, size, current, q), num |-> a.num + 1]
           rule(w, c) == IF c = 0 THEN start ELSE v[p_child[q][c]][w[c - 1]]
           Good(c, w) == w = [d \in 0 .. c |-> rule(w, d)]
           Bad == {c \in Nat : ~ \E w : Good(c, w)}
<1>2. Bad = {}
  <2> SUFFICES ASSUME Bad # {} PROVE FALSE
    OBVIOUS
  <2>1. PICK c \in Bad : \A d \in Bad : c <= d
    BY NatMin
  <2>2. CASE c = 0
    <3> DEFINE w == [d \in 0 .. 0 |-> start]
    <3>1. \A d \in 0 .. 0 : rule(w, d) = start
      OBVIOUS
    <3>2. Good(0, w)
      <4> HIDE DEF rule
      <4> QED BY SMTT(30), <3>1
    <3> QED BY <3>2, <2>2
  <2>3. CASE c # 0
    <3>1. c - 1 \in Nat /\ c - 1 \notin Bad
      <4>1. c \in Nat
        BY <2>1
      <4>2. c - 1 \in Nat /\ ~ (c <= c - 1)
        BY <4>1, <2>3
      <4> HIDE DEF Bad
      <4> QED BY <4>2, <2>1
    <3>2. PICK z : Good(c - 1, z)
      BY <3>1
    <3> DEFINE w == [d \in 0 .. c |-> rule(z, d)]
    <3>3. \A d \in 0 .. c - 1 : z[d] = rule(z, d)
      <4> HIDE DEF rule
      <4> QED BY <3>2
    <3>4. \A d \in 0 .. c : w[d] = rule(z, d)
      <4> HIDE DEF rule
      <4> QED OBVIOUS
    <3>5. \A d \in 0 .. c - 1 : w[d] = z[d]
      <4> HIDE DEF w, rule
      <4> QED BY <3>3, <3>4, <3>1
    <3>6. \A d \in 0 .. c : rule(z, d) = rule(w, d)
      <4> TAKE d \in 0 .. c
      <4> HIDE DEF w
      <4>1. CASE d = 0
        BY <4>1
      <4>2. CASE d # 0
        <5>1. w[d - 1] = z[d - 1]
          <6>1. d - 1 \in 0 .. c - 1
            BY <4>2
          <6> QED BY <6>1, <3>5
        <5> QED BY <5>1
      <4> QED BY SMTT(30), <4>1, <4>2
    <3>7. Good(c, w)
      <4> HIDE DEF rule
      <4> QED BY <3>6
    <3> QED BY <3>7
  <2> QED BY <2>2, <2>3
<1>3. PICK w : Good(B, w)
  BY <1>2
<1>4. f = CHOOSE x : Good(B, x)
  BY Zenon DEF Under
<1>5. Good(B, f)
  <2> HIDE DEF Good, f
  <2> QED BY <1>3, <1>4
<1>6. \A d \in 0 .. B : f[d] = rule(f, d)
  <2> HIDE DEF rule, f
  <2> QED BY <1>5
<1> QED
  <2> HIDE DEF f
  <2>1. f[i] = IF i = 0 THEN start ELSE v[p_child[q][i]][f[i - 1]]
    BY <1>6
  <2> QED
    BY <2>1 DEF f, Continues

(* Counted obeys its own equation.                                         *)
LEMMA CountedRule ==
  ASSUME NEW size, NEW current, NEW B \in Nat, NEW b \in 0 .. B, NEW p \in Pcb, NEW a \in Acc
  PROVE  Counted(size, current, B)[b][p][a] =
           IF b = 0 \/ getNamespace(p) # getNamespace(current) THEN a
           ELSE Under(Counted(size, current, B)[b - 1], size, current, p, a)[Len(p_child[p])]
<1> DEFINE f == Counted(size, current, B)
           rule(w, c) == [q \in Pcb |-> [x \in Acc |->
                            IF c = 0 \/ getNamespace(q) # getNamespace(current) THEN x
                            ELSE Under(w[c - 1], size, current, q, x)[Len(p_child[q])]]]
           Good(c, w) == w = [d \in 0 .. c |-> rule(w, d)]
           Bad == {c \in Nat : ~ \E w : Good(c, w)}
<1>2. Bad = {}
  <2> SUFFICES ASSUME Bad # {} PROVE FALSE
    OBVIOUS
  <2>1. PICK c \in Bad : \A d \in Bad : c <= d
    BY NatMin
  <2>2. CASE c = 0
    <3> DEFINE w == [d \in 0 .. 0 |-> [q \in Pcb |-> [x \in Acc |-> x]]]
    <3>1. \A d \in 0 .. 0 : rule(w, d) = [q \in Pcb |-> [x \in Acc |-> x]]
      OBVIOUS
    <3>2. Good(0, w)
      <4> HIDE DEF rule
      <4> QED BY <3>1
    <3> QED BY <3>2, <2>2
  <2>3. CASE c # 0
    <3>1. c - 1 \in Nat /\ c - 1 \notin Bad
      <4>1. c \in Nat
        BY <2>1
      <4>2. c - 1 \in Nat /\ ~ (c <= c - 1)
        BY <4>1, <2>3
      <4> HIDE DEF Bad
      <4> QED BY <4>2, <2>1
    <3>2. PICK v : Good(c - 1, v)
      BY <3>1
    <3> DEFINE w == [d \in 0 .. c |-> rule(v, d)]
    <3>3. \A d \in 0 .. c - 1 : v[d] = rule(v, d)
      <4> HIDE DEF rule
      <4> QED BY <3>2
    <3>4. \A d \in 0 .. c : w[d] = rule(v, d)
      <4> HIDE DEF rule
      <4> QED OBVIOUS
    <3>5. \A d \in 0 .. c - 1 : w[d] = v[d]
      <4> HIDE DEF w, rule
      <4> QED BY <3>3, <3>4, <3>1
    <3>6. \A d \in 0 .. c : rule(v, d) = rule(w, d)
      <4> TAKE d \in 0 .. c
      <4> HIDE DEF w
      <4>1. CASE d = 0
        BY <4>1
      <4>2. CASE d # 0
        <5>1. w[d - 1] = v[d - 1]
          <6>1. d - 1 \in 0 .. c - 1
            BY <4>2
          <6> QED BY <6>1, <3>5
        <5> QED BY <5>1
      <4> QED BY <4>1, <4>2
    <3>7. Good(c, w)
      <4> HIDE DEF rule
      <4> QED BY <3>6
    <3> QED BY <3>7
  <2> QED BY <2>2, <2>3
<1>3. PICK w : Good(B, w)
  BY <1>2
<1>4. f = CHOOSE x : Good(B, x)
  BY Zenon DEF Counted
<1>5. Good(B, f)
  <2> HIDE DEF Good, f
  <2> QED BY <1>3, <1>4
<1>6. \A d \in 0 .. B : f[d] = rule(f, d)
  <2> HIDE DEF rule, f
  <2> QED BY <1>5
<1>7. rule(f, b)[p][a] = IF b = 0 \/ getNamespace(p) # getNamespace(current) THEN a
                         ELSE Under(f[b - 1], size, current, p, a)[Len(p_child[p])]
  <2> HIDE DEF f
  <2> QED OBVIOUS
<1> QED
  <2> HIDE DEF rule, f
  <2>1. f[b][p][a] = IF b = 0 \/ getNamespace(p) # getNamespace(current) THEN a
                     ELSE Under(f[b - 1], size, current, p, a)[Len(p_child[p])]
    BY <1>6, <1>7
  <2> QED
    BY <2>1 DEF f

(* getChildsByNamespace is the outermost of these calls.                   *)
LEMMA CountedCalls ==
  ASSUME NEW size, NEW current, NEW p, NEW acc
  PROVE  getChildsByNamespace(acc, size, current, p) =
           Counted(size, current, Cardinality(Pcb))[Cardinality(Pcb)][p][acc]
  BY Zenon DEF getChildsByNamespace, Counted, Under, Acc

-----------------------------------------------------------------------------
(* What a process sees, and how an array fills *)

(* The tree of a process below is part of the tree.                        *)
LEMMA TreeTrans ==
  ASSUME NEW p, NEW q, NEW r, q \in Tree(p), r \in Tree(q)
  PROVE  r \in Tree(p)
  BY TreeMember

(* The trees of two children have no process in common.                    *)
LEMMA TreeDisjoint ==
  ASSUME TableAssumption, TreeShape, NEW p \in live,
         NEW c \in ToSet(p_child[p]), NEW d \in ToSet(p_child[p]), NEW q \in Tree(c), q \in Tree(d)
  PROVE  c = d
<1> SUFFICES ASSUME c # d PROVE FALSE
  OBVIOUS
<1> DEFINE B == {r \in live : q \in Tree(r) /\ r \in Tree(c) /\ r \in Tree(d)}
           D == Tree(c) \cap Tree(d)
<1>1. c \in live /\ p_parent[c] = p /\ d \in live /\ p_parent[d] = p
  BY DEF TreeShape, TreeTypeOK, Children
<1>2. q \in D /\ D \in SUBSET live
  BY TreeMember
<1>3. PICK r \in D : p_parent[r] \notin D
  BY <1>2 DEF TreeShape, Rooted
<1>4. r \in live
  BY <1>2
<1>5. CASE r = c
  <2>1. p \in Tree(d)
    BY <1>1, <1>3, <1>5, TreeUp
  <2> QED
    BY <2>1, TreeAcyclic
<1>6. CASE r = d
  <2>1. p \in Tree(c)
    BY <1>1, <1>3, <1>6, TreeUp
  <2> QED
    BY <2>1, TreeAcyclic
<1>7. CASE r # c /\ r # d
  BY <1>1, <1>3, <1>4, <1>7, TreeUp
<1> QED
  BY <1>5, <1>6, <1>7

(* What the walk of current sees from q on: it does not go below a process *)
(* of another namespace.                                                   *)
Seen(q, current) ==
  {x \in Tree(q) : \A r \in Tree(q) : x \in Tree(r) => namespaces[r] = namespaces[current]}

(* The same below q, in terms of the trees.                                *)
LEMMA SeenChildren ==
  ASSUME TableAssumption, TreeShape, NEW q \in live, NEW current, NEW x
  PROVE  (\E c \in ToSet(p_child[q]) : x \in Seen(c, current))
           <=> /\ x \in Tree(q) \ {q}
               /\ \A r \in Tree(q) \ {q} : x \in Tree(r) => namespaces[r] = namespaces[current]
<1>1. \A c \in ToSet(p_child[q]) : c \in live /\ q \notin Tree(c) /\ Tree(c) \subseteq Tree(q)
  <2> TAKE c \in ToSet(p_child[q])
  <2>1. c \in live
    BY DEF TreeShape, TreeTypeOK, Children
  <2> QED
    BY <2>1, TreeAcyclic, TreeDown
<1>2. \A y : y \in Tree(q) \ {q} => \E c \in ToSet(p_child[q]) : y \in Tree(c)
  BY TreeDown
<1>3. ASSUME NEW c \in ToSet(p_child[q]), x \in Seen(c, current)
      PROVE  /\ x \in Tree(q) \ {q}
             /\ \A r \in Tree(q) \ {q} : x \in Tree(r) => namespaces[r] = namespaces[current]
  <2>1. x \in Tree(c) /\ \A r \in Tree(c) : x \in Tree(r) => namespaces[r] = namespaces[current]
    BY <1>3 DEF Seen
  <2>2. ASSUME NEW r \in Tree(q) \ {q}, x \in Tree(r) PROVE r \in Tree(c)
    <3>1. PICK d \in ToSet(p_child[q]) : r \in Tree(d)
      BY <1>2
    <3>2. x \in Tree(d)
      BY <2>2, <3>1, TreeTrans
    <3>3. c = d
      BY <2>1, <3>2, TreeDisjoint
    <3> QED
      BY <3>1, <3>3
  <2> QED
    BY <1>1, <2>1, <2>2
<1>4. ASSUME x \in Tree(q) \ {q},
             \A r \in Tree(q) \ {q} : x \in Tree(r) => namespaces[r] = namespaces[current]
      PROVE  \E c \in ToSet(p_child[q]) : x \in Seen(c, current)
  <2>1. PICK c \in ToSet(p_child[q]) : x \in Tree(c)
    BY <1>2, <1>4
  <2>2. x \in Seen(c, current)
    BY <1>1, <1>4, <2>1 DEF Seen
  <2> QED
    BY <2>2
<1> QED
  BY <1>3, <1>4

(* One visits a process, and then its children, or stops at it.            *)
LEMMA SeenRule ==
  ASSUME TableAssumption, TreeShape, NEW q \in live, NEW current
  PROVE  \A x : x \in Seen(q, current) <=>
                  namespaces[q] = namespaces[current]
                    /\ (x = q \/ \E c \in ToSet(p_child[q]) : x \in Seen(c, current))
<1> TAKE x
<1>1. q \in Tree(q)
  BY TreeSelf
<1>2. \A r \in Tree(q) : q \in Tree(r) => r = q
  <2> SUFFICES ASSUME NEW r \in Tree(q), q \in Tree(r), r # q PROVE FALSE
    OBVIOUS
  <2>1. PICK c \in ToSet(p_child[q]) : r \in Tree(c)
    BY TreeDown
  <2>2. q \in Tree(c)
    BY <2>1, TreeTrans
  <2> QED
    BY <2>2, TreeAcyclic
<1>3. q \in Seen(q, current) <=> namespaces[q] = namespaces[current]
  BY <1>1, <1>2 DEF Seen
<1>4. CASE x = q
  BY <1>3, <1>4
<1>5. CASE x # q
  <2>1. x \in Seen(q, current)
          <=> /\ namespaces[q] = namespaces[current] /\ x \in Tree(q) \ {q}
              /\ \A r \in Tree(q) \ {q} : x \in Tree(r) => namespaces[r] = namespaces[current]
    BY <1>1, <1>5 DEF Seen
  <2>2. (\E c \in ToSet(p_child[q]) : x \in Seen(c, current))
          <=> /\ x \in Tree(q) \ {q}
              /\ \A r \in Tree(q) \ {q} : x \in Tree(r) => namespaces[r] = namespaces[current]
    BY SeenChildren
  <2> QED
    BY <1>5, <2>1, <2>2
<1> QED
  BY <1>4, <1>5

(* What a process sees is what a walk from each of its children finds.     *)
LEMMA VisibleSeen ==
  ASSUME TableAssumption, TreeShape, NEW p \in live
  PROVE  \A x : x \in Visible(p) <=> \E c \in ToSet(p_child[p]) : x \in Seen(c, p)
<1> TAKE x
<1>1. Tree(p) \subseteq live
  BY TreeMember
<1>2. x \in Visible(p) <=> /\ x \in Tree(p) \ {p}
                           /\ \A r \in Tree(p) \ {p} : x \in Tree(r)
                                                         => namespaces[r] = namespaces[p]
  BY <1>1 DEF Visible, Below, SameNamespace
<1>3. (\E c \in ToSet(p_child[p]) : x \in Seen(c, p))
        <=> /\ x \in Tree(p) \ {p}
            /\ \A r \in Tree(p) \ {p} : x \in Tree(r) => namespaces[r] = namespaces[p]
  <2> DEFINE current == p
  <2> HIDE DEF current
  <2>1. (\E c \in ToSet(p_child[p]) : x \in Seen(c, current))
          <=> /\ x \in Tree(p) \ {p}
              /\ \A r \in Tree(p) \ {p} : x \in Tree(r) => namespaces[r] = namespaces[current]
    BY SeenChildren
  <2> QED
    BY <2>1 DEF current
<1> QED
  BY <1>2, <1>3

(* r is ch with as much of s behind it as there is room for.               *)
Filled(ch, s, size, r) ==
  /\ Len(r) = IF Len(ch) >= size THEN Len(ch)
              ELSE IF Len(ch) + Len(s) <= size THEN Len(ch) + Len(s) ELSE size
  /\ \A i \in 1 .. Len(r) : r[i] = IF i <= Len(ch) THEN ch[i] ELSE s[i - Len(ch)]

(* Nothing behind the array leaves it as it is.                            *)
LEMMA FilledNone ==
  ASSUME NEW X, NEW ch \in Seq(X), NEW size \in Nat PROVE Filled(ch, <<>>, size, ch)
<1> DEFINE n == Len(ch)
<1>1. n \in Nat /\ Len(<<>>) = 0
  OBVIOUS
<1> HIDE DEF n
<1>2. n = IF n >= size THEN n ELSE IF n + Len(<<>>) <= size THEN n + Len(<<>>) ELSE size
  BY <1>1
<1> QED
  BY <1>1, <1>2 DEF n, Filled

(* One store into the array, if there is room.                             *)
LEMMA FilledOne ==
  ASSUME NEW X, NEW ch \in Seq(X), NEW size \in Nat, NEW current, NEW q \in X, q # current
  PROVE  Filled(ch, <<q>>, size, listed(ch, size, current, q))
<1>1. Len(ch) \in Nat
  OBVIOUS
<1>2. Len(<<q>>) = 1 /\ <<q>>[1] = q
  OBVIOUS
<1>3. CASE Len(ch) < size
  <2>1. listed(ch, size, current, q) = Append(ch, q)
    BY <1>3 DEF listed
  <2> DEFINE t == Append(ch, q)
  <2>2. Len(t) = Len(ch) + 1 /\ \A i \in 1 .. Len(t) : t[i] = IF i <= Len(ch) THEN ch[i] ELSE q
    OBVIOUS
  <2>3. \A i \in 1 .. Len(t) : i > Len(ch) => i - Len(ch) = 1
    BY <1>1, <2>2
  <2> DEFINE s == <<q>>
  <2> HIDE DEF t, s
  <2>4. Len(s) = 1 /\ s[1] = q
    BY <1>2 DEF s
  <2>5. \A i \in 1 .. Len(t) : t[i] = IF i <= Len(ch) THEN ch[i] ELSE s[i - Len(ch)]
    BY <1>1, <2>2, <2>3, <2>4
  <2>6. Len(t) = IF Len(ch) >= size THEN Len(ch)
                 ELSE IF Len(ch) + Len(s) <= size THEN Len(ch) + Len(s) ELSE size
    BY <1>1, <1>3, <2>2, <2>4
  <2> QED
    BY <2>1, <2>5, <2>6 DEF Filled, t, s
<1>4. CASE ~ (Len(ch) < size)
  <2>1. listed(ch, size, current, q) = ch
    BY <1>4 DEF listed
  <2>2. Len(ch) >= size
    BY <1>1, <1>4
  <2> QED
    BY <1>1, <2>1, <2>2 DEF Filled
<1> QED
  BY <1>3, <1>4

(* What does not fit once never fits later.                                *)
LEMMA FilledThen ==
  ASSUME NEW X, NEW ch \in Seq(X), NEW s \in Seq(X), NEW t \in Seq(X), NEW size \in Nat,
         NEW r \in Seq(X), NEW u \in Seq(X), Filled(ch, s, size, r), Filled(r, t, size, u)
  PROVE  Filled(ch, s \o t, size, u)
<1> DEFINE a == Len(ch)
           b == Len(s)
           c == Len(t)
           d == Len(r)
           e == Len(u)
           z == s \o t
<1>1. a \in Nat /\ b \in Nat /\ c \in Nat /\ d \in Nat /\ e \in Nat
  OBVIOUS
<1>2. Len(z) = b + c /\ \A i \in 1 .. b + c : z[i] = IF i <= b THEN s[i] ELSE t[i - b]
  BY ConcatIndex
<1>3. /\ d = IF a >= size THEN a ELSE IF a + b <= size THEN a + b ELSE size
      /\ \A i \in 1 .. d : r[i] = IF i <= a THEN ch[i] ELSE s[i - a]
  BY DEF Filled
<1>4. /\ e = IF d >= size THEN d ELSE IF d + c <= size THEN d + c ELSE size
      /\ \A i \in 1 .. e : u[i] = IF i <= d THEN r[i] ELSE t[i - d]
  BY DEF Filled
<1> HIDE DEF a, b, c, d, e, z
<1>5. e = IF a >= size THEN a ELSE IF a + (b + c) <= size THEN a + (b + c) ELSE size
  BY <1>1, <1>3, <1>4
<1>6. ASSUME NEW i \in 1 .. e PROVE u[i] = IF i <= a THEN ch[i] ELSE z[i - a]
  <2>0. i \in Int /\ 1 <= i /\ i <= e
    BY <1>1
  <2>1. CASE i <= a
    <3>1. i <= d /\ i \in 1 .. d
      BY <1>1, <1>3, <2>0, <2>1
    <3> QED
      BY <3>1, <1>3, <1>4, <2>1
  <2>2. CASE i > a /\ i <= d
    <3>1. i \in 1 .. d /\ ~ (i <= a) /\ i - a \in 1 .. b + c /\ i - a <= b
      BY <1>1, <1>3, <2>0, <2>2
    <3>2. u[i] = r[i] /\ r[i] = s[i - a]
      BY <3>1, <1>3, <1>4, <2>2
    <3>3. z[i - a] = s[i - a]
      BY <3>1, <1>2
    <3> QED
      BY <3>1, <3>2, <3>3
  <2>3. CASE i > a /\ i > d
    <3>1. ~ (i <= a) /\ ~ (i <= d) /\ d = a + b /\ i - a \in 1 .. b + c /\ ~ (i - a <= b)
      BY <1>1, <1>3, <1>4, <2>0, <2>3
    <3>2. u[i] = t[i - d]
      BY <3>1, <1>4
    <3>3. z[i - a] = t[(i - a) - b]
      BY <3>1, <1>2
    <3>4. (i - a) - b = i - d
      BY <3>1, <1>1, <2>0
    <3> QED
      BY <3>1, <3>2, <3>3, <3>4
  <2> QED
    BY <2>0, <2>1, <2>2, <2>3, <1>1
<1>7. Len(z) = b + c
  BY <1>2
<1> QED
  BY <1>5, <1>6, <1>7 DEF Filled, a, e, z

-----------------------------------------------------------------------------
(* The walk below one process *)

(* r is what a becomes when the walk finds s.                              *)
Extended(a, s, size, r) ==
  /\ r \in Acc /\ r.num = a.num + Len(s)
  /\ Filled(a.children, s, size, r.children)

(* The walk, d calls deep, finds s from q on.                              *)
Finds(B, d, q, current, s) ==
  /\ s \in Seq(Pcb) /\ IsInjective(s) /\ ToSet(s) = Seen(q, current)
  /\ \A size \in Nat, a \in Acc : Extended(a, s, size, Counted(size, current, B)[d][q][a])

(* The array and the count when the walk has come to q.                    *)
First(a, size, current, q) ==
  [children |-> listed(a.children, size, current, q), num |-> a.num + 1]

(* From there it finds s among the first n children of q.                  *)
FindsUnder(B, d, q, current, n, s) ==
  /\ s \in Seq(Pcb) /\ IsInjective(s)
  /\ \A x : x \in ToSet(s) <=> \E i \in 1 .. n : x \in Seen(p_child[q][i], current)
  /\ \A size \in Nat, a \in Acc :
       Extended(First(a, size, current, q), s, size,
                Under(Counted(size, current, B)[d], size, current, q, a)[n])

(* One walk after the other finds what the two find.                       *)
LEMMA ExtendedThen ==
  ASSUME NEW a \in Acc, NEW s \in Seq(Pcb), NEW t \in Seq(Pcb), NEW size \in Nat, NEW r, NEW u,
         Extended(a, s, size, r), Extended(r, t, size, u)
  PROVE  Extended(a, s \o t, size, u)
<1>1. /\ r \in Acc /\ u \in Acc /\ r.num = a.num + Len(s) /\ u.num = r.num + Len(t)
      /\ Filled(a.children, s, size, r.children) /\ Filled(r.children, t, size, u.children)
  BY DEF Extended
<1>2. a.children \in Seq(Pcb) /\ r.children \in Seq(Pcb) /\ u.children \in Seq(Pcb) /\ a.num \in Nat
  BY <1>1 DEF Acc
<1> DEFINE x == a.children
           y == r.children
           z == u.children
<1>3. Filled(x, s \o t, size, z)
  <2>1. x \in Seq(Pcb) /\ y \in Seq(Pcb) /\ z \in Seq(Pcb) /\ Filled(x, s, size, y)
          /\ Filled(y, t, size, z)
    BY <1>1, <1>2
  <2> HIDE DEF x, y, z
  <2> QED
    BY <2>1, FilledThen
<1>4. Len(s \o t) = Len(s) + Len(t) /\ Len(s) \in Nat /\ Len(t) \in Nat
  OBVIOUS
<1>5. u.num = a.num + Len(s \o t)
  BY <1>1, <1>2, <1>4
<1> QED
  BY <1>1, <1>3, <1>5 DEF Extended

(* First is such a pair.                                                   *)
LEMMA FirstAcc ==
  ASSUME NEW a \in Acc, NEW size, NEW current, NEW q \in Pcb
  PROVE  First(a, size, current, q) \in Acc
<1>1. a.children \in Seq(Pcb) /\ a.num \in Nat
  BY DEF Acc
<1>2. listed(a.children, size, current, q) \in Seq(Pcb)
  BY <1>1 DEF listed
<1> QED
  BY <1>1, <1>2 DEF First, Acc

(* A walk that finds nothing changes nothing.                              *)
LEMMA ExtendedNone ==
  ASSUME NEW a \in Acc, NEW size \in Nat PROVE Extended(a, <<>>, size, a)
<1>1. a.children \in Seq(Pcb) /\ a.num \in Nat
  BY DEF Acc
<1>2. Filled(a.children, <<>>, size, a.children)
  BY <1>1, FilledNone
<1> QED
  BY <1>1, <1>2 DEF Extended

(* One child after the other.                                              *)
LEMMA UnderStep ==
  ASSUME TableAssumption, TreeShape, NEW B \in Nat, NEW d \in 0 .. B, NEW q \in live, NEW current,
         NEW n \in 0 .. Len(p_child[q]) - 1, NEW s, FindsUnder(B, d, q, current, n, s),
         NEW t, Finds(B, d, p_child[q][n + 1], current, t)
  PROVE  FindsUnder(B, d, q, current, n + 1, s \o t)
<1> DEFINE ch == p_child[q]
           c == ch[n + 1]
<1>1. q \in Pcb /\ ch \in Seq(Pcb) /\ Len(ch) \in Nat /\ IsInjective(ch)
  BY DEF TreeShape, TreeTypeOK, Children
<1>2. n \in Nat /\ n + 1 \in 1 .. Len(ch) /\ n + 1 \in 0 .. Len(ch) /\ n + 1 # 0 /\ (n + 1) - 1 = n
  BY <1>1
<1>3. \A i \in 1 .. Len(ch) : ch[i] \in ToSet(ch)
  BY DEF ToSet
<1>4. /\ s \in Seq(Pcb) /\ IsInjective(s) /\ t \in Seq(Pcb) /\ IsInjective(t)
      /\ ToSet(t) = Seen(c, current)
      /\ \A x : x \in ToSet(s) <=> \E i \in 1 .. n : x \in Seen(ch[i], current)
  BY DEF Finds, FindsUnder
<1>5. ToSet(s) \cap ToSet(t) = {}
  <2> SUFFICES ASSUME NEW x \in ToSet(s), x \in ToSet(t) PROVE FALSE
    OBVIOUS
  <2>1. PICK i \in 1 .. n : x \in Seen(ch[i], current)
    BY <1>4
  <2>2. x \in Seen(c, current)
    BY <1>4
  <2>3. i \in 1 .. Len(ch) /\ i # n + 1
    BY <1>1, <1>2
  <2>4. x \in Tree(ch[i]) /\ x \in Tree(c)
    BY <2>1, <2>2 DEF Seen
  <2>5. ch[i] \in ToSet(p_child[q]) /\ c \in ToSet(p_child[q])
    BY <1>2, <1>3, <2>3
  <2>6. ch[i] = c
    BY <2>4, <2>5, TreeDisjoint
  <2> HIDE DEF ch
  <2> QED
    BY <1>1, <1>2, <2>3, <2>6 DEF IsInjective
<1>6. s \o t \in Seq(Pcb) /\ IsInjective(s \o t) /\ ToSet(s \o t) = ToSet(s) \cup ToSet(t)
  BY <1>4, <1>5, ConcatQueue
<1>7. ASSUME NEW x
      PROVE  x \in ToSet(s \o t) <=> \E i \in 1 .. n + 1 : x \in Seen(ch[i], current)
  <2>1. \A i \in 1 .. n + 1 : i \in 1 .. n \/ i = n + 1
    BY <1>2
  <2>2. n + 1 \in 1 .. n + 1 /\ \A i \in 1 .. n : i \in 1 .. n + 1
    BY <1>2
  <2> DEFINE k == n + 1
  <2>3. \A i \in 1 .. k : i \in 1 .. n \/ i = k
    BY <2>1
  <2>4. k \in 1 .. k /\ \A i \in 1 .. n : i \in 1 .. k
    BY <2>2
  <2>5. x \in ToSet(t) <=> x \in Seen(ch[k], current)
    BY <1>4
  <2> HIDE DEF k, c, ch
  <2>6. x \in ToSet(s \o t) <=> \E i \in 1 .. k : x \in Seen(ch[i], current)
    BY <1>4, <1>6, <2>3, <2>4, <2>5
  <2> QED
    BY <2>6 DEF k
<1>8. ASSUME NEW size \in Nat, NEW a \in Acc
      PROVE  Extended(First(a, size, current, q), s \o t, size,
                      Under(Counted(size, current, B)[d], size, current, q, a)[n + 1])
  <2> DEFINE v == Counted(size, current, B)[d]
             x == Under(v, size, current, q, a)[n]
             y == Under(v, size, current, q, a)[n + 1]
             f == First(a, size, current, q)
  <2>1. y = v[c][x]
    <3> DEFINE k == n + 1
    <3>1. k \in 0 .. Len(ch) /\ k # 0 /\ k - 1 = n
      BY <1>2
    <3> HIDE DEF k, v
    <3>2. Under(v, size, current, q, a)[k] = v[ch[k]][Under(v, size, current, q, a)[k - 1]]
      <4>1. Continues(v, size, current, q, a, k)
        BY <1>1, <3>1, UnderRule
      <4> QED
        BY <3>1, <4>1 DEF Continues
    <3> QED
      BY <3>1, <3>2 DEF k
  <2>2. Extended(f, s, size, x)
    BY DEF FindsUnder
  <2>3. x \in Acc
    BY <2>2 DEF Extended
  <2>4. Extended(x, t, size, v[c][x])
    <3> HIDE DEF x
    <3> QED
      BY <2>3 DEF Finds
  <2>5. f \in Acc
    BY <1>1, FirstAcc
  <2> HIDE DEF f, x, y, v, c
  <2>6. Extended(f, s \o t, size, y)
    BY <1>4, <2>1, <2>2, <2>4, <2>5, ExtendedThen
  <2> QED
    BY <2>6 DEF f, y, v
<1> QED
  BY <1>6, <1>7, <1>8 DEF FindsUnder

(* All the children.                                                       *)
LEMMA UnderAll ==
  ASSUME TableAssumption, TreeShape, NEW B \in Nat, NEW d \in 0 .. B, NEW q \in live, NEW current,
         \A c \in ToSet(p_child[q]) : \E s : Finds(B, d, c, current, s)
  PROVE  \E s : FindsUnder(B, d, q, current, Len(p_child[q]), s)
<1> DEFINE ch == p_child[q]
           OK(n) == \E s : FindsUnder(B, d, q, current, n, s)
           Bad == {n \in 0 .. Len(ch) : ~ OK(n)}
<1>1. q \in Pcb /\ ch \in Seq(Pcb) /\ Len(ch) \in Nat
  BY DEF TreeShape, TreeTypeOK
<1>2. OK(0)
  <2> DEFINE s == <<>>
  <2>1. s \in Seq(Pcb) /\ IsInjective(s) /\ ToSet(s) = {}
    BY EmptyQueue
  <2>2. ASSUME NEW size \in Nat, NEW a \in Acc
        PROVE  Extended(First(a, size, current, q), s, size,
                        Under(Counted(size, current, B)[d], size, current, q, a)[0])
    <3> DEFINE v == Counted(size, current, B)[d]
    <3>1. 0 \in 0 .. Len(ch)
      BY <1>1
    <3> HIDE DEF v
    <3>2. Under(v, size, current, q, a)[0] = First(a, size, current, q)
      <4>1. Continues(v, size, current, q, a, 0)
        BY <1>1, <3>1, UnderRule
      <4> QED
        BY <4>1 DEF First, Continues
    <3>3. First(a, size, current, q) \in Acc
      BY <1>1, FirstAcc
    <3>4. Extended(First(a, size, current, q), <<>>, size, First(a, size, current, q))
      BY <3>3, ExtendedNone
    <3> QED
      BY <3>2, <3>4 DEF v
  <2> HIDE DEF s
  <2>3. \A x : ~ \E i \in 1 .. 0 : x \in Seen(ch[i], current)
    OBVIOUS
  <2>4. FindsUnder(B, d, q, current, 0, s)
    BY <2>1, <2>2, <2>3 DEF FindsUnder
  <2> QED
    BY <2>4
<1>3. Bad = {}
  <2> SUFFICES ASSUME Bad # {} PROVE FALSE
    OBVIOUS
  <2>1. PICK n \in Bad : \A m \in Bad : n <= m
    <3>1. Bad \in SUBSET Nat
      BY <1>1
    <3> HIDE DEF Bad
    <3> QED
      BY <3>1, NatMin
  <2>2. n \in 1 .. Len(ch) /\ n - 1 \in 0 .. Len(ch) /\ n - 1 \in 0 .. Len(ch) - 1
          /\ ~ (n <= n - 1) /\ (n - 1) + 1 = n
    <3> HIDE DEF OK
    <3> QED
      BY <1>1, <1>2, <2>1
  <2>3. OK(n - 1)
    <3> HIDE DEF OK
    <3> QED
      BY <2>1, <2>2
  <2> DEFINE k == n - 1
  <2>4. PICK s : FindsUnder(B, d, q, current, k, s)
    BY <2>3
  <2>5. PICK t : Finds(B, d, ch[n], current, t)
    <3>1. ch[n] \in ToSet(ch)
      BY <2>2 DEF ToSet
    <3> QED
      BY <3>1
  <2>6. k \in 0 .. Len(ch) - 1 /\ k + 1 = n
    BY <2>2
  <2> HIDE DEF k, Bad
  <2>7. FindsUnder(B, d, q, current, k + 1, s \o t)
    <3>1. Finds(B, d, ch[k + 1], current, t)
      BY <2>5, <2>6
    <3> QED
      BY <2>4, <2>6, <3>1, UnderStep
  <2>8. OK(n)
    BY <2>6, <2>7
  <2> QED
    BY <2>1, <2>8 DEF Bad
<1>4. Len(ch) \in 0 .. Len(ch)
  BY <1>1
<1>5. OK(Len(ch))
  <2> HIDE DEF OK
  <2> QED
    BY <1>3, <1>4
<1> QED
  BY <1>5

-----------------------------------------------------------------------------
(* The walk finds what its caller sees *)

(* One process, and behind it what the walk finds below.                   *)
LEMMA FindsStep ==
  ASSUME TableAssumption, TreeShape, NEW B \in Nat, NEW d \in 1 .. B,
         NEW current \in live, NEW q \in live, q # current,
         namespaces[q] = namespaces[current],
         NEW s, FindsUnder(B, d - 1, q, current, Len(p_child[q]), s)
  PROVE  Finds(B, d, q, current, <<q>> \o s)
<1> DEFINE ch == p_child[q]
           h == <<q>>
           n == Len(ch)
<1>1. /\ q \in Pcb /\ ch \in Seq(Pcb) /\ n \in Nat /\ getNamespace(q) = getNamespace(current)
      /\ d \in 0 .. B /\ d # 0
  BY DEF TreeShape, TreeTypeOK, TableAssumption, getNamespace
<1>2. h \in Seq(Pcb) /\ IsInjective(h) /\ ToSet(h) = {q}
  <2>1. h \in Seq(Pcb) /\ Len(h) = 1 /\ h[1] = q /\ DOMAIN h = 1 .. 1
    BY <1>1
  <2> HIDE DEF h
  <2> QED
    BY <2>1 DEF IsInjective, ToSet
<1>3. /\ s \in Seq(Pcb) /\ IsInjective(s)
      /\ \A x : x \in ToSet(s) <=> \E i \in 1 .. n : x \in Seen(ch[i], current)
  BY DEF FindsUnder
<1>4. \A x : x \in ToSet(s) <=> \E c \in ToSet(ch) : x \in Seen(c, current)
  <2>1. \A c : c \in ToSet(ch) <=> \E i \in 1 .. n : ch[i] = c
    BY <1>1 DEF ToSet
  <2> HIDE DEF ch, n
  <2> QED
    BY <1>3, <2>1
<1>5. q \notin ToSet(s)
  <2> SUFFICES ASSUME NEW c \in ToSet(ch), q \in Seen(c, current) PROVE FALSE
    BY <1>4
  <2>1. q \in Tree(c)
    BY DEF Seen
  <2> QED
    BY <2>1, TreeAcyclic
<1>6. /\ h \o s \in Seq(Pcb) /\ IsInjective(h \o s) /\ ToSet(h \o s) = ToSet(h) \cup ToSet(s)
  <2>1. ToSet(h) \cap ToSet(s) = {}
    BY <1>2, <1>5
  <2> HIDE DEF h
  <2> QED
    BY <1>2, <1>3, <2>1, ConcatQueue
<1>7. ToSet(h \o s) = Seen(q, current)
  <2>1. \A x : x \in Seen(q, current) <=> x = q \/ \E c \in ToSet(ch) : x \in Seen(c, current)
    BY SeenRule
  <2> HIDE DEF h, ch
  <2>2. \A x : x \in Seen(q, current) <=> x \in ToSet(h \o s)
    BY <1>2, <1>4, <1>6, <2>1
  <2> QED
    BY <2>2
<1>8. ASSUME NEW size \in Nat, NEW a \in Acc
      PROVE  Extended(a, h \o s, size, Counted(size, current, B)[d][q][a])
  <2> DEFINE f == First(a, size, current, q)
             r == Under(Counted(size, current, B)[d - 1], size, current, q, a)[n]
  <2>1. Counted(size, current, B)[d][q][a] = r
    BY <1>1, CountedRule
  <2>2. Extended(f, s, size, r)
    BY DEF FindsUnder
  <2>3. Extended(a, h, size, f)
    <3>1. f \in Acc
      BY <1>1, FirstAcc
    <3>2. a.children \in Seq(Pcb) /\ a.num \in Nat
      BY DEF Acc
    <3>3. f.num = a.num + 1 /\ f.children = listed(a.children, size, current, q)
      BY DEF First
    <3> DEFINE ac == a.children
    <3>4. Filled(ac, <<q>>, size, listed(ac, size, current, q))
      <4>1. ac \in Seq(Pcb)
        BY <3>2
      <4> HIDE DEF ac
      <4> QED
        BY <1>1, <4>1, FilledOne
    <3>5. Len(h) = 1
      OBVIOUS
    <3> HIDE DEF f
    <3> QED
      BY <3>1, <3>3, <3>4, <3>5 DEF Extended
  <2> HIDE DEF f, r, h
  <2> QED
    BY <1>2, <1>3, <2>1, <2>2, <2>3, ExtendedThen
<1> HIDE DEF h
<1>9. Finds(B, d, q, current, h \o s)
  BY <1>6, <1>7, <1>8 DEF Finds
<1> QED
  BY <1>9 DEF h

(* The walk stops at a process of another namespace.                       *)
LEMMA FindsNone ==
  ASSUME TableAssumption, TreeShape, NEW B \in Nat, NEW d \in 0 .. B,
         NEW current \in live, NEW q \in live, namespaces[q] # namespaces[current]
  PROVE  Finds(B, d, q, current, <<>>)
<1>1. q \in Pcb /\ getNamespace(q) # getNamespace(current)
  BY DEF TreeShape, TreeTypeOK, TableAssumption, getNamespace
<1>2. <<>> \in Seq(Pcb) /\ IsInjective(<<>>) /\ ToSet(<<>>) = {}
  BY EmptyQueue
<1>3. \A x : x \notin Seen(q, current)
  BY SeenRule
<1>4. ASSUME NEW size \in Nat, NEW a \in Acc
      PROVE  Extended(a, <<>>, size, Counted(size, current, B)[d][q][a])
  <2>1. Counted(size, current, B)[d][q][a] = a
    BY <1>1, CountedRule
  <2>2. Extended(a, <<>>, size, a)
    BY ExtendedNone
  <2> QED
    BY <2>1, <2>2
<1> DEFINE e == <<>>
<1>5. e \in Seq(Pcb) /\ IsInjective(e) /\ ToSet(e) = Seen(q, current)
  BY <1>2, <1>3
<1>6. \A size \in Nat, a \in Acc : Extended(a, e, size, Counted(size, current, B)[d][q][a])
  BY <1>4
<1> HIDE DEF e
<1>7. Finds(B, d, q, current, e)
  BY <1>5, <1>6 DEF Finds
<1> QED
  BY <1>7 DEF e

(* A walk that is deep enough finds what current sees.                     *)
LEMMA CountedFinds ==
  ASSUME TableAssumption, TreeShape, NEW B \in Nat, NEW current \in live
  PROVE  \A d \in 0 .. B : \A q \in live :
           current \notin Tree(q) /\ Cardinality(Tree(q)) <= d => \E s : Finds(B, d, q, current, s)
<1> DEFINE Wrong(d) == \E q \in live : /\ current \notin Tree(q) /\ Cardinality(Tree(q)) <= d
                                       /\ ~ \E s : Finds(B, d, q, current, s)
           Bad == {d \in 0 .. B : Wrong(d)}
<1> SUFFICES ASSUME Bad # {} PROVE FALSE
  OBVIOUS
<1>1. PICK d \in Bad : \A e \in Bad : d <= e
  <2>1. Bad \in SUBSET Nat
    OBVIOUS
  <2> HIDE DEF Bad
  <2> QED
    BY <2>1, NatMin
<1>2. PICK q \in live : /\ current \notin Tree(q) /\ Cardinality(Tree(q)) <= d
                        /\ ~ \E s : Finds(B, d, q, current, s)
  BY <1>1
<1>3. d # 0 /\ d \in 1 .. B /\ d - 1 \in 0 .. B /\ d \in 0 .. B /\ d - 1 < d /\ d \in Nat
  BY <1>1, <1>2, TreeSize
<1>4. ~ Wrong(d - 1)
  <2> HIDE DEF Wrong
  <2>1. d - 1 \in Bad => d <= d - 1
    BY <1>1
  <2> QED
    BY <2>1, <1>3
<1> HIDE DEF Bad
<1>5. namespaces[q] = namespaces[current]
  BY <1>2, <1>3, FindsNone
<1>6. \A c \in ToSet(p_child[q]) : \E s : Finds(B, d - 1, c, current, s)
  <2> TAKE c \in ToSet(p_child[q])
  <2>1. c \in live /\ Cardinality(Tree(c)) <= Cardinality(Tree(q)) - 1
          /\ Cardinality(Tree(q)) \in Nat
    BY TreeSize
  <2>2. Cardinality(Tree(c)) \in Nat
    BY <2>1, TreeSize
  <2>3. Cardinality(Tree(c)) <= d - 1
    BY <2>1, <2>2, <1>2, <1>3
  <2>4. current \notin Tree(c)
    BY <1>2, TreeDown
  <2> QED
    BY <2>1, <2>3, <2>4, <1>4
<1> DEFINE e == d - 1
<1>7. PICK s : FindsUnder(B, e, q, current, Len(p_child[q]), s)
  <2>1. e \in 0 .. B /\ \A c \in ToSet(p_child[q]) : \E s : Finds(B, e, c, current, s)
    BY <1>3, <1>6
  <2> HIDE DEF e
  <2> QED
    BY <2>1, UnderAll
<1>8. q # current
  BY <1>2, TreeSelf
<1>9. Finds(B, d, q, current, <<q>> \o s)
  BY <1>3, <1>5, <1>7, <1>8, FindsStep
<1> QED
  BY <1>2, <1>9

(* SYS10 lists what the caller sees, in one order for all sizes.           *)
Listing(p, s) ==
  /\ s \in Seq(Pcb) /\ IsInjective(s) /\ ToSet(s) = Visible(p)
  /\ \A size \in Nat :
       sysGetChildren(p, size) =
         [children |-> SubSeq(s, 1, IF Len(s) <= size THEN Len(s) ELSE size), num |-> Len(s)]

(* An empty array takes a prefix.                                          *)
LEMMA FilledEmpty ==
  ASSUME NEW X, NEW s \in Seq(X), NEW size \in Nat, NEW r \in Seq(X), Filled(<<>>, s, size, r)
  PROVE  r = SubSeq(s, 1, IF Len(s) <= size THEN Len(s) ELSE size)
<1> DEFINE k == IF Len(s) <= size THEN Len(s) ELSE size
           e == <<>>
           t == SubSeq(s, 1, k)
<1>1. k \in Nat /\ k <= Len(s) /\ Len(s) \in Nat
  OBVIOUS
<1>2. Len(e) = 0
  OBVIOUS
<1>3. Filled(e, s, size, r)
  OBVIOUS
<1>4. t \in Seq(X) /\ Len(t) = k /\ \A i \in 1 .. k : t[i] = s[i]
  <2> HIDE DEF k
  <2> QED
    BY <1>1
<1> HIDE DEF e, t
<1>5. Len(r) = k
  BY <1>1, <1>2, <1>3 DEF Filled
<1>6. \A i \in 1 .. k : r[i] = s[i]
  <2>1. \A i \in 1 .. Len(r) : r[i] = IF i <= Len(e) THEN e[i] ELSE s[i - Len(e)]
    BY <1>3 DEF Filled
  <2> HIDE DEF k
  <2>2. \A i \in 1 .. k : ~ (i <= 0) /\ i - 0 = i
    BY <1>1
  <2> QED
    BY <1>2, <1>5, <2>1, <2>2
<1>7. r = t
  <2> HIDE DEF k
  <2>1. r = [i \in 1 .. k |-> r[i]] /\ t = [i \in 1 .. k |-> t[i]]
    BY <1>1, <1>4, <1>5
  <2> QED
    BY <2>1, <1>4, <1>6
<1> QED
  BY <1>7 DEF t

(* There is such an order.                                                 *)
LEMMA ChildrenListed ==
  ASSUME TableAssumption, TreeShape, NEW p \in live
  PROVE  \E s : Listing(p, s)
<1> DEFINE B == Cardinality(Pcb)
           C == B - 1
           n == Len(p_child[p])
           start == [children |-> <<>>, num |-> 0]
<1>1. B \in Nat /\ B \in 0 .. B /\ B # 0 /\ C \in 0 .. B
  <2>1. B \in Nat
    BY FS_CardinalityType DEF TableAssumption
  <2>2. 1 <= B
    BY <2>1, TreeSize
  <2> QED
    BY <2>1, <2>2
<1>2. p \in Pcb /\ start \in Acc
  BY DEF TreeShape, TreeTypeOK, Acc
<1>3. \A c \in ToSet(p_child[p]) : \E s : Finds(B, C, c, p, s)
  <2> TAKE c \in ToSet(p_child[p])
  <2>1. /\ c \in live /\ Cardinality(Tree(c)) <= Cardinality(Tree(p)) - 1
             /\ Cardinality(Tree(p)) \in Nat
        /\ Cardinality(Tree(p)) <= B
    BY TreeSize
  <2>2. Cardinality(Tree(c)) \in Nat
    BY <2>1, TreeSize
  <2>3. Cardinality(Tree(c)) <= C
    BY <2>1, <2>2, <1>1
  <2>4. p \notin Tree(c)
    BY TreeAcyclic
  <2> HIDE DEF B, C
  <2>5. \A d \in 0 .. B : \A q \in live :
           p \notin Tree(q) /\ Cardinality(Tree(q)) <= d => \E s : Finds(B, d, q, p, s)
    BY <1>1, CountedFinds
  <2> QED
    BY <2>1, <2>3, <2>4, <2>5, <1>1
<1>4. PICK s : FindsUnder(B, C, p, p, n, s)
  <2> DEFINE current == p
  <2>1. \A c \in ToSet(p_child[p]) : \E s : Finds(B, C, c, current, s)
    BY <1>3
  <2> HIDE DEF B, C, current
  <2>2. \E s : FindsUnder(B, C, p, current, Len(p_child[p]), s)
    BY <1>1, <2>1, UnderAll
  <2> QED
    BY <2>2 DEF current
<1>5. /\ s \in Seq(Pcb) /\ IsInjective(s)
      /\ \A x : x \in ToSet(s) <=> \E i \in 1 .. n : x \in Seen(p_child[p][i], p)
  BY <1>4 DEF FindsUnder
<1>6. ToSet(s) = Visible(p)
  <2>1. \A c : c \in ToSet(p_child[p]) <=> \E i \in 1 .. n : p_child[p][i] = c
    BY <1>2 DEF ToSet, TreeShape, TreeTypeOK
  <2> HIDE DEF n
  <2>2. \A x : x \in ToSet(s) <=> \E c \in ToSet(p_child[p]) : x \in Seen(c, p)
    BY <1>5, <2>1
  <2> QED
    BY <2>2, VisibleSeen
<1>7. ASSUME NEW size \in Nat
      PROVE  sysGetChildren(p, size) =
               [children |-> SubSeq(s, 1, IF Len(s) <= size THEN Len(s) ELSE size), num |-> Len(s)]
  <2> DEFINE r == getChildsByNamespace(start, size, p, p)
             f == First(start, size, p, p)
  <2>1. r = Under(Counted(size, p, B)[C], size, p, p, start)[n]
    <3>1. r = Counted(size, p, B)[B][p][start]
      BY CountedCalls
    <3> DEFINE current == p
    <3> HIDE DEF B, start, current, n
    <3>2. Counted(size, current, B)[B][p][start] =
           IF B = 0 \/ getNamespace(p) # getNamespace(current) THEN start
           ELSE Under(Counted(size, current, B)[B - 1], size, current, p, start)[Len(p_child[p])]
      BY <1>1, <1>2, CountedRule
    <3> QED
      BY <1>1, <3>1, <3>2 DEF current, n
  <2>2. Extended(f, s, size, r)
    <3> HIDE DEF start, n, r
    <3>1. Extended(f, s, size, Under(Counted(size, p, B)[C], size, p, p, start)[n])
      BY <1>2, <1>4 DEF FindsUnder
    <3> QED
      BY <2>1, <3>1
  <2>3. f.children = <<>> /\ f.num = 1
    BY DEF First, listed
  <2> HIDE DEF f, r
  <2>4. r \in Acc /\ r.num = 1 + Len(s) /\ Filled(<<>>, s, size, r.children)
    BY <2>2, <2>3 DEF Extended
  <2> DEFINE k == IF Len(s) <= size THEN Len(s) ELSE size
             rc == r.children
  <2>5. rc = SubSeq(s, 1, k)
    <3>1. rc \in Seq(Pcb) /\ Filled(<<>>, s, size, rc)
      BY <2>4 DEF Acc
    <3> HIDE DEF rc
    <3> QED
      BY <1>5, <3>1, FilledEmpty
  <2>6. Len(s) \in Nat
    BY <1>5
  <2>7. sysGetChildren(p, size) = [r EXCEPT !.num = @ - 1]
    BY Zenon DEF sysGetChildren, r, start
  <2>8. r = [children |-> r.children, num |-> r.num]
    BY <2>4 DEF Acc
  <2>9. [r EXCEPT !.num = @ - 1] = [children |-> r.children, num |-> r.num - 1]
    BY <2>8
  <2>10. r.num - 1 = Len(s)
    BY <2>4, <2>6
  <2> HIDE DEF k
  <2>11. sysGetChildren(p, size) = [children |-> SubSeq(s, 1, k), num |-> Len(s)]
    BY <2>5, <2>7, <2>9, <2>10
  <2> QED
    BY <2>11 DEF k
<1> QED
  BY <1>5, <1>6, <1>7 DEF Listing

(* As many as there are in the set.                                        *)
LEMMA ListingSize ==
  ASSUME TableAssumption, TreeShape, NEW p \in live, NEW s, Listing(p, s)
  PROVE  Len(s) = Cardinality(Visible(p)) /\ Len(s) <= Cardinality(Pcb) /\ Len(s) \in Nat
<1>1. s \in Seq(Pcb) /\ IsInjective(s) /\ ToSet(s) = Visible(p)
  BY DEF Listing
<1> DEFINE n == Len(s)
           S == ToSet(s)
<1>2. n \in Nat /\ IsFiniteSet(1 .. n) /\ Cardinality(1 .. n) = n
  <2>1. n \in Nat
    BY <1>1
  <2> HIDE DEF n
  <2> QED
    BY <2>1, FS_Interval
<1>3. s \in Bijection(1 .. n, S)
  <2>1. DOMAIN s = 1 .. n
    BY <1>1
  <2>2. s \in [1 .. n -> S] /\ \A x \in S : \E i \in 1 .. n : s[i] = x
    BY <1>1, <2>1 DEF ToSet
  <2> HIDE DEF n, S
  <2> QED
    BY <1>1, <2>2 DEF Bijection, Injection, Surjection
<1>4. IsFiniteSet(S) /\ Cardinality(S) = Cardinality(1 .. n)
  <2>1. ExistsBijection(1 .. n, S)
    BY <1>3 DEF ExistsBijection
  <2> HIDE DEF n, S
  <2> QED
    BY <1>2, <2>1, FS_Bijection
<1>5. S \subseteq Pcb
  BY <1>1 DEF ToSet
<1>6. Cardinality(S) <= Cardinality(Pcb)
  <2> HIDE DEF S
  <2> QED
    BY <1>5, FS_Subset DEF TableAssumption
<1> HIDE DEF n, S
<1>7. n = Cardinality(S) /\ n <= Cardinality(Pcb) /\ n \in Nat
  BY <1>2, <1>4, <1>6
<1>8. S = Visible(p)
  BY <1>1 DEF S
<1> QED
  BY <1>7, <1>8 DEF n

(* The smaller of two numbers.                                             *)
LEMMA MinTwo ==
  ASSUME NEW a \in Nat, NEW b \in Nat PROVE Min({a, b}) = IF b <= a THEN b ELSE a
<1> DEFINE m == IF b <= a THEN b ELSE a
<1>1. m \in {a, b} /\ \A y \in {a, b} : m <= y
  OBVIOUS
<1>2. \A x \in {a, b} : (\A y \in {a, b} : x <= y) => x = m
  OBVIOUS
<1> QED
  BY <1>1, <1>2 DEF Min

(* The whole array holds all that the caller sees.                         *)
LEMMA ListingAll ==
  ASSUME TableAssumption, TreeShape, NEW p \in live, NEW s, Listing(p, s)
  PROVE  sysGetChildren(p, Cardinality(Pcb)).children = s
<1> DEFINE B == Cardinality(Pcb)
<1>1. B \in Nat
  BY FS_CardinalityType DEF TableAssumption
<1>2. Len(s) <= B /\ s \in Seq(Pcb)
  BY ListingSize DEF Listing
<1> HIDE DEF B
<1>3. sysGetChildren(p, B) =
        [children |-> SubSeq(s, 1, IF Len(s) <= B THEN Len(s) ELSE B), num |-> Len(s)]
  BY <1>1 DEF Listing
<1>4. SubSeq(s, 1, Len(s)) = s
  BY <1>2
<1> QED
  BY <1>2, <1>3, <1>4 DEF B

(* In a tree, SYS10 lists and counts exactly what its caller sees.         *)
LEMMA ChildrenSafe == ASSUME TableAssumption, TreeShape PROVE ChildrenExact
<1> SUFFICES ASSUME NEW p \in live
             PROVE  LET all == sysGetChildren(p, Cardinality(Pcb)).children IN
                    /\ IsInjective(all) /\ ToSet(all) = Visible(p)
                    /\ \A size \in 0 .. Cardinality(Pcb) :
                         sysGetChildren(p, size) =
                           [children |-> SubSeq(all, 1, Min({size, Len(all)})),
                            num |-> Cardinality(Visible(p))]
  BY DEF ChildrenExact
<1>1. PICK s : Listing(p, s)
  BY ChildrenListed
<1>2. sysGetChildren(p, Cardinality(Pcb)).children = s
  BY <1>1, ListingAll
<1>3. IsInjective(s) /\ ToSet(s) = Visible(p) /\ Len(s) = Cardinality(Visible(p)) /\ Len(s) \in Nat
  BY <1>1, ListingSize DEF Listing
<1>4. ASSUME NEW size \in 0 .. Cardinality(Pcb)
      PROVE  sysGetChildren(p, size) =
               [children |-> SubSeq(s, 1, Min({size, Len(s)})), num |-> Cardinality(Visible(p))]
  <2>1. size \in Nat
    BY FS_CardinalityType DEF TableAssumption
  <2>2. Min({size, Len(s)}) = IF Len(s) <= size THEN Len(s) ELSE size
    <3> DEFINE n == Len(s)
    <3>1. n \in Nat
      BY <1>3
    <3> HIDE DEF n
    <3>2. Min({size, n}) = IF n <= size THEN n ELSE size
      BY <2>1, <3>1, MinTwo
    <3> QED
      BY <3>2 DEF n
  <2> DEFINE k == Min({size, Len(s)})
  <2>3. sysGetChildren(p, size) = [children |-> SubSeq(s, 1, k), num |-> Len(s)]
    BY <1>1, <2>1, <2>2 DEF Listing
  <2> HIDE DEF k
  <2>4. sysGetChildren(p, size) = [children |-> SubSeq(s, 1, k), num |-> Cardinality(Visible(p))]
    BY <1>3, <2>3
  <2> QED
    BY <2>4 DEF k
<1> QED
  BY <1>2, <1>3, <1>4

(* In a tree, SYS9 and SYS10 agree about parent and child.                 *)
LEMMA ParentSafe == ASSUME TableAssumption, TreeShape PROVE ParentSeesChild
<1> SUFFICES ASSUME NEW p \in live, NEW c \in ToSet(p_child[p])
             PROVE  sysGetProcessID(c, TRUE) = p
                      <=> c \in ToSet(sysGetChildren(p, Cardinality(Pcb)).children)
  <2>1. \A p \in live : \A i \in DOMAIN p_child[p] : p_child[p][i] \in ToSet(p_child[p])
    BY DEF ToSet, TreeShape, TreeTypeOK
  <2> QED
    BY <2>1 DEF ParentSeesChild
<1>1. PICK s : Listing(p, s)
  BY ChildrenListed
<1>2. sysGetChildren(p, Cardinality(Pcb)).children = s /\ ToSet(s) = Visible(p)
  BY <1>1, ListingAll DEF Listing
<1>3. c \in live /\ p_parent[c] = p /\ p # NULL /\ c # NULL
  BY DEF TreeShape, TreeTypeOK, Children, TableAssumption
<1>4. sysGetProcessID(c, TRUE) = p <=> namespaces[c] = namespaces[p]
  BY <1>3 DEF sysGetProcessID, getNamespace
<1>5. c \in Visible(p) <=> c \in Seen(c, p)
  <2>1. \A d \in ToSet(p_child[p]) : c \in Seen(d, p) => d = c
    <3> TAKE d \in ToSet(p_child[p])
    <3>1. c \in Tree(c)
      BY <1>3, TreeSelf
    <3> QED
      BY <3>1, TreeDisjoint DEF Seen
  <2> QED
    BY <2>1, VisibleSeen
<1>6. c \in Seen(c, p) <=> namespaces[c] = namespaces[p]
  BY <1>3, SeenRule
<1> QED
  BY <1>2, <1>4, <1>5, <1>6

(* SYS10 finds every process below the caller that shares all namespaces   *)
(* on the way, each once; it counts all of them and stores as many as      *)
(* there is room for.                                                      *)
THEOREM ChildrenCounted == Spec => []ChildrenExact
<1>1. TreeShape => ChildrenExact
  BY TableAssumption, ChildrenSafe
<1> QED
  BY <1>1, TreeInvariance, PTL

(* A child gets the number of its parent from SYS9 exactly when the parent *)
(* finds the child with SYS10.                                             *)
THEOREM ParentsSee == Spec => []ParentSeesChild
<1>1. TreeShape => ParentSeesChild
  BY TableAssumption, ParentSafe
<1> QED
  BY <1>1, TreeInvariance, PTL
=============================================================================
