----------------------------- MODULE ListProofs ----------------------------
(***************************************************************************)
(* Proofs about the intrusive lists, for any number of heads, entries and  *)
(* buckets: after any sequence of the operations of ListMachine and of     *)
(* HListMachine the links are exactly those of the lists they should hold, *)
(* so that the iterators visit these, the tests tell the truth, and an     *)
(* entry in no list points into none.                                      *)
(*                                                                         *)
(* An operation is a handful of assignments to links.  ListLemmas says     *)
(* what they make of one circle; here the circles of all the lists are put *)
(* together, operation by operation, and then the hash lists, whose nodes  *)
(* point back to a pointer instead of to a node.                           *)
(***************************************************************************)
EXTENDS MCLists, ListLemmas

-----------------------------------------------------------------------------
(* The lists and their entries *)

(* The entries in the lists of some heads, and in any list.                *)
Within(L, S) == UNION {ToSet(L[l]) : l \in S}
Entries(L) == Within(L, LIST_HEAD)

(* Every list is a circle of its own, and no entry is in two.              *)
Circles(mem, L) ==
  /\ mem \in Mem(Node) /\ L \in [LIST_HEAD -> Seq(Entry)]
  /\ \A l \in LIST_HEAD : Ring(Node, l, L[l]) /\ Circle(mem, l, L[l])
  /\ \A k, l \in LIST_HEAD : k # l => ToSet(L[k]) \cap ToSet(L[l]) = {}

(* An entry in no list points to itself, or nowhere after list_del.        *)
Offs(mem, L, D) ==
  /\ D \cap Entries(L) = {}
  /\ \A x \in Entry \ Entries(L) :
       /\ mem.next[x] = IF x \in D THEN NULL ELSE x
       /\ mem.prev[x] = IF x \in D THEN NULL ELSE x

(* The inductive invariant of the list machine.                            *)
LinksInv == Circles(m, lists) /\ Offs(m, lists, nulled)

(* What an operation leaves alone: entries in no list, other than X.       *)
Keeps(mem, r, L, X) == Same(mem, r, Node, LIST_HEAD \cup Entries(L) \cup X)

(* M is L but for the lists of S; but for the lists of k and l.            *)
Other(L, M, S) ==
  M \in [LIST_HEAD -> Seq(Entry)] /\ \A l \in LIST_HEAD \ S : M[l] = L[l]
Others(L, M, k, l) ==
  M \in [LIST_HEAD -> Seq(Entry)] /\ \A h \in LIST_HEAD : h # k /\ h # l => M[h] = L[h]

(* Heads, lists and entries are apart.                                     *)
LEMMA CirclesFacts ==
  ASSUME NodeAssumption, NEW mem, NEW L, Circles(mem, L)
  PROVE  /\ LIST_HEAD \cap Entries(L) = {} /\ Entries(L) \subseteq Entry
         /\ \A l \in LIST_HEAD : /\ L[l] \in Seq(Entry) /\ L[l] \in Seq(Node)
                                 /\ Nodes(l, L[l]) = {l} \cup ToSet(L[l])
                                 /\ ToSet(L[l]) \subseteq Entry
         /\ \A k, l \in LIST_HEAD : k # l => Nodes(k, L[k]) \cap Nodes(l, L[l]) = {}
<1>1. \A l \in LIST_HEAD : L[l] \in Seq(Entry) /\ L[l] \in Seq(Node) /\ ToSet(L[l]) \subseteq Entry
  <2> TAKE l \in LIST_HEAD
  <2>1. L[l] \in Seq(Entry) /\ Ring(Node, l, L[l])
    BY DEF Circles
  <2>2. L[l] \in Seq(Node)
    BY <2>1 DEF Ring
  <2>3. ToSet(L[l]) \subseteq Entry
    BY <2>1 DEF ToSet
  <2> QED
    BY <2>1, <2>2, <2>3
<1>2. \A l \in LIST_HEAD : Nodes(l, L[l]) = {l} \cup ToSet(L[l])
  BY <1>1, NodesSet
<1> QED
  BY <1>1, <1>2 DEF Circles, Entries, Within, NodeAssumption

(* X is of entries in no list.                                             *)
Fresh(L, X) == X \in SUBSET Entry /\ X \cap Entries(L) = {}

(* The lists of S are again circles of entries, and gained none but X.     *)
Redone(r, L, M, S, X) ==
  /\ \A l \in S : Ring(Node, l, M[l]) /\ Circle(r, l, M[l])
  /\ \A k, l \in S : k # l => ToSet(M[k]) \cap ToSet(M[l]) = {}
  /\ Within(M, S) \subseteq Within(L, S) \cup X

(* The lists of S change; the entries they gain are X.                     *)
LEMMA SomeLists ==
  ASSUME NodeAssumption, NEW mem, NEW L, Circles(mem, L), NEW S \in SUBSET LIST_HEAD,
         NEW M, Other(L, M, S), NEW r \in Mem(Node),
         NEW X, Fresh(L, X), Redone(r, L, M, S, X),
         Same(mem, r, Node, S \cup Within(L, S) \cup X)
  PROVE  /\ Circles(r, M) /\ Keeps(mem, r, L, X)
         /\ Entries(M) = (Entries(L) \ Within(L, S)) \cup Within(M, S)
<1>0. /\ X \in SUBSET Entry /\ X \cap Entries(L) = {}
      /\ \A l \in S : Ring(Node, l, M[l]) /\ Circle(r, l, M[l])
      /\ \A k, l \in S : k # l => ToSet(M[k]) \cap ToSet(M[l]) = {}
      /\ Within(M, S) \subseteq Within(L, S) \cup X
  BY DEF Fresh, Redone
<1>1. /\ LIST_HEAD \cap Entries(L) = {} /\ Entries(L) \subseteq Entry
      /\ \A k \in LIST_HEAD : /\ L[k] \in Seq(Entry) /\ L[k] \in Seq(Node)
                              /\ Nodes(k, L[k]) = {k} \cup ToSet(L[k])
                              /\ ToSet(L[k]) \subseteq Entry
      /\ \A k, h \in LIST_HEAD : k # h => Nodes(k, L[k]) \cap Nodes(h, L[h]) = {}
  BY CirclesFacts
<1>2. M \in [LIST_HEAD -> Seq(Entry)] /\ \A k \in LIST_HEAD \ S : M[k] = L[k]
  BY DEF Other
<1>3. \A k \in LIST_HEAD \ S : ToSet(L[k]) \cap (Within(L, S) \cup X) = {}
  BY <1>0 DEF Circles, Entries, Within
<1>4. ASSUME NEW k \in LIST_HEAD
      PROVE  Ring(Node, k, M[k]) /\ Circle(r, k, M[k])
  <2>1. CASE k \in S
    BY <2>1, <1>0
  <2>2. CASE k \notin S
    <3>1. M[k] = L[k] /\ Ring(Node, k, L[k]) /\ Circle(mem, k, L[k])
      BY <2>2, <1>2 DEF Circles
    <3>2. Nodes(k, L[k]) \cap (S \cup Within(L, S) \cup X) = {}
      <4>1. k \notin Entry /\ X \cap LIST_HEAD = {} /\ ToSet(L[k]) \cap LIST_HEAD = {}
        BY <1>0, <1>1 DEF NodeAssumption
      <4>2. Within(L, S) \subseteq Entry
        BY <1>1 DEF Within
      <4> QED
        BY <4>1, <4>2, <1>1, <1>3, <2>2
    <3>3. \A i \in 0 .. Len(L[k]) + 1 : At(k, L[k], i) \in Nodes(k, L[k]) /\ At(k, L[k], i) \in Node
      BY <3>1, RingFacts
    <3>4. Len(L[k]) \in Nat
      BY <1>1
    <3>5. Circle(r, k, L[k])
      <4> SUFFICES ASSUME NEW i \in 0 .. Len(L[k])
                   PROVE  r.next[At(k, L[k], i)] = At(k, L[k], i + 1)
                            /\ r.prev[At(k, L[k], i + 1)] = At(k, L[k], i)
        BY DEF Circle
      <4> DEFINE p == At(k, L[k], i)
                 q == At(k, L[k], i + 1)
      <4>1. p \in Node \ (S \cup Within(L, S) \cup X) /\ q \in Node \ (S \cup Within(L, S) \cup X)
        BY <3>2, <3>3, <3>4
      <4>2. mem.next[p] = q /\ mem.prev[q] = p
        BY <3>1 DEF Circle
      <4> HIDE DEF p, q
      <4>3. r.next[p] = q /\ r.prev[q] = p
        BY <4>1, <4>2 DEF Same
      <4> QED
        BY <4>3 DEF p, q
    <3> QED
      BY <3>1, <3>5
  <2> QED
    BY <2>1, <2>2
<1>5. ASSUME NEW k \in LIST_HEAD, NEW h \in LIST_HEAD, k # h
      PROVE  ToSet(M[k]) \cap ToSet(M[h]) = {}
  <2>1. \A g \in S : ToSet(M[g]) \subseteq Within(L, S) \cup X
    BY <1>0 DEF Within
  <2>2. CASE k \in S /\ h \in S
    BY <2>2, <1>0, <1>5
  <2>3. CASE k \in S /\ h \notin S
    BY <2>3, <2>1, <1>2, <1>3
  <2>4. CASE k \notin S /\ h \in S
    BY <2>4, <2>1, <1>2, <1>3
  <2>5. CASE k \notin S /\ h \notin S
    <3>1. M[k] = L[k] /\ M[h] = L[h]
      BY <2>5, <1>2
    <3> QED
      BY <3>1, <1>5 DEF Circles
  <2> QED
    BY <2>2, <2>3, <2>4, <2>5
<1>6. Circles(r, M)
  BY <1>2, <1>4, <1>5 DEF Circles
<1>7. Keeps(mem, r, L, X)
  <2>1. S \cup Within(L, S) \cup X \subseteq LIST_HEAD \cup Entries(L) \cup X
    BY DEF Entries, Within
  <2> QED
    BY <2>1 DEF Keeps, Same
<1>8. Entries(M) = (Entries(L) \ Within(L, S)) \cup Within(M, S)
  <2> DEFINE R == LIST_HEAD \ S
  <2>1. Entries(M) = Within(M, R) \cup Within(M, S)
    BY DEF Entries, Within
  <2>2. Entries(L) = Within(L, R) \cup Within(L, S)
    BY DEF Entries, Within
  <2>3. Within(M, R) = Within(L, R)
    BY <1>2 DEF Within
  <2>4. Within(L, R) \cap Within(L, S) = {}
    BY <1>3 DEF Within
  <2> HIDE DEF R
  <2> QED
    BY <2>1, <2>2, <2>3, <2>4
<1> QED
  BY <1>6, <1>7, <1>8

(* What has to be shown when one list changes.                             *)
LEMMA OneList ==
  ASSUME NodeAssumption, NEW mem, NEW L, Circles(mem, L), NEW l \in LIST_HEAD,
         NEW M, Others(L, M, l, l), NEW r \in Mem(Node),
         NEW X, Fresh(L, X),
         Ring(Node, l, M[l]), Circle(r, l, M[l]),
         Nodes(l, M[l]) \subseteq Nodes(l, L[l]) \cup X,
         Same(mem, r, Node, Nodes(l, L[l]) \cup X)
  PROVE  /\ Circles(r, M) /\ Keeps(mem, r, L, X)
         /\ \A y : y \in Entries(M) <=> (y \in Entries(L) /\ y \notin Nodes(l, L[l]))
                     \/ (y \in Nodes(l, M[l]) /\ y # l)
<1> DEFINE S == {l}
<1>1. Nodes(l, L[l]) = {l} \cup ToSet(L[l]) /\ l \notin Entries(L) /\ ToSet(L[l]) \subseteq Entry
  BY CirclesFacts
<1>2. Nodes(l, M[l]) = {l} \cup ToSet(M[l]) /\ l \notin ToSet(M[l])
  <2>1. M[l] \in Seq(Node) /\ M[l] \in Seq(Entry)
    BY DEF Ring, Others
  <2>2. ToSet(M[l]) \subseteq Entry
    BY <2>1 DEF ToSet
  <2>3. l \notin Entry
    BY DEF NodeAssumption
  <2> QED
    BY <2>1, <2>2, <2>3, NodesSet
<1>3. Within(L, S) = ToSet(L[l]) /\ Within(M, S) = ToSet(M[l])
  BY DEF Within
<1>4. Within(M, S) \subseteq Within(L, S) \cup X
  BY <1>1, <1>2, <1>3
<1>5. Same(mem, r, Node, S \cup Within(L, S) \cup X)
  BY <1>1, <1>3 DEF Same
<1>9. Other(L, M, S)
  BY DEF Other, Others
<1>6. S \in SUBSET LIST_HEAD /\ \A h \in S : Ring(Node, h, M[h]) /\ Circle(r, h, M[h])
  OBVIOUS
<1>7. \A k, h \in S : k # h => ToSet(M[k]) \cap ToSet(M[h]) = {}
  OBVIOUS
<1>10. Redone(r, L, M, S, X)
  BY <1>4, <1>6, <1>7 DEF Redone
<1> HIDE DEF S
<1>8. /\ Circles(r, M) /\ Keeps(mem, r, L, X)
      /\ Entries(M) = (Entries(L) \ Within(L, S)) \cup Within(M, S)
  BY <1>5, <1>6, <1>9, <1>10, SomeLists
<1> QED
  BY <1>1, <1>2, <1>3, <1>8 DEF S

(* What has to be shown when two lists change and exchange entries.        *)
LEMMA TwoLists ==
  ASSUME NodeAssumption, NEW mem, NEW L, Circles(mem, L),
         NEW l \in LIST_HEAD, NEW z \in LIST_HEAD, l # z,
         NEW M, Others(L, M, l, z), NEW r \in Mem(Node),
         Ring(Node, l, M[l]), Circle(r, l, M[l]), Ring(Node, z, M[z]), Circle(r, z, M[z]),
         ToSet(M[l]) \cap ToSet(M[z]) = {},
         ToSet(M[l]) \cup ToSet(M[z]) = ToSet(L[l]) \cup ToSet(L[z]),
         Same(mem, r, Node, Nodes(l, L[l]) \cup Nodes(z, L[z]))
  PROVE  Circles(r, M) /\ Keeps(mem, r, L, {}) /\ Entries(M) = Entries(L)
<1> DEFINE S == {l, z}
<1>1. Nodes(l, L[l]) = {l} \cup ToSet(L[l]) /\ Nodes(z, L[z]) = {z} \cup ToSet(L[z])
  BY CirclesFacts
<1>3. Within(L, S) = ToSet(L[l]) \cup ToSet(L[z]) /\ Within(M, S) = ToSet(M[l]) \cup ToSet(M[z])
  BY DEF Within
<1>6. S \in SUBSET LIST_HEAD /\ \A h \in S : Ring(Node, h, M[h]) /\ Circle(r, h, M[h])
  OBVIOUS
<1>7. \A k, h \in S : k # h => ToSet(M[k]) \cap ToSet(M[h]) = {}
  OBVIOUS
<1> DEFINE Y == {}
<1>4. Within(M, S) \subseteq Within(L, S) \cup Y
  BY <1>3
<1>5. Same(mem, r, Node, S \cup Within(L, S) \cup Y)
  BY <1>1, <1>3 DEF Same
<1>9. Fresh(L, Y)
  BY DEF Fresh
<1>12. Redone(r, L, M, S, Y)
  BY <1>4, <1>6, <1>7 DEF Redone
<1>10. Other(L, M, S)
  BY DEF Other, Others
<1> HIDE DEF S, Y
<1>8. /\ Circles(r, M) /\ Keeps(mem, r, L, Y)
      /\ Entries(M) = (Entries(L) \ Within(L, S)) \cup Within(M, S)
  BY <1>5, <1>6, <1>9, <1>10, <1>12, SomeLists
<1>11. Within(L, S) \subseteq Entries(L)
  BY <1>6 DEF Within, Entries
<1> QED
  BY <1>3, <1>8, <1>11 DEF Y

(* Links of nodes in no list change.                                       *)
LEMMA NoList ==
  ASSUME NodeAssumption, NEW mem, NEW L, Circles(mem, L), NEW r \in Mem(Node),
         NEW X, Fresh(L, X), Same(mem, r, Node, X)
  PROVE  Circles(r, L)
<1> DEFINE S == {}
<1>1. Within(L, S) = {} /\ S \in SUBSET LIST_HEAD /\ Other(L, L, S)
  BY DEF Within, Other, Circles
<1>2. Same(mem, r, Node, S \cup Within(L, S) \cup X)
  BY <1>1 DEF Same
<1>3. Redone(r, L, L, S, X)
  BY DEF Redone
<1> HIDE DEF S
<1> QED
  BY <1>1, <1>2, <1>3, SomeLists

(* __list_add: x joins the list of l behind its place k.                   *)
LEMMA AddEntry ==
  ASSUME NodeAssumption, NEW mem, NEW L, Circles(mem, L), NEW l \in LIST_HEAD,
         NEW k \in 0 .. Len(L[l]), NEW x \in Entry \ Entries(L),
         NEW M, Others(L, M, l, l), M[l] = InsertAt(L[l], k + 1, x)
  PROVE  LET r == __list_add(mem, x, At(l, L[l], k), At(l, L[l], k + 1))
         IN  Circles(r, M) /\ Keeps(mem, r, L, Only(x)) /\ Entries(M) = Entries(L) \cup Only(x)
<1> DEFINE s == L[l]
           d == __list_add(mem, x, At(l, s, k), At(l, s, k + 1))
           t == InsertAt(s, k + 1, x)
           Y == {x}
<1>1. mem \in Mem(Node) /\ Ring(Node, l, s) /\ Circle(mem, l, s)
  BY DEF Circles
<1>2. Nodes(l, s) = {l} \cup ToSet(s) /\ l \notin Entry /\ ToSet(s) \subseteq Entries(L)
        /\ l \notin Entries(L)
  BY CirclesFacts DEF Entries, Within, NodeAssumption
<1>3. x \in Node \ Nodes(l, s) /\ k \in 0 .. Len(s)
  BY <1>2 DEF Node
<1> HIDE DEF s
<1>4. /\ d \in Mem(Node) /\ Ring(Node, l, t) /\ Circle(d, l, t)
      /\ Nodes(l, t) = Nodes(l, s) \cup {x}
      /\ Same(mem, d, Node, Nodes(l, s) \cup {x})
  BY <1>1, <1>3, AddCircle
<1>5. Fresh(L, Y) /\ M[l] = t
  BY DEF s, Fresh
<1> HIDE DEF d, t
<1>6. /\ Ring(Node, l, M[l]) /\ Circle(d, l, M[l])
      /\ Nodes(l, M[l]) \subseteq Nodes(l, L[l]) \cup Y
      /\ Same(mem, d, Node, Nodes(l, L[l]) \cup Y)
  BY <1>4, <1>5 DEF s
<1> HIDE DEF Y
<1>7. /\ Circles(d, M) /\ Keeps(mem, d, L, Y)
      /\ \A y : y \in Entries(M) <=> (y \in Entries(L) /\ y \notin Nodes(l, L[l]))
                  \/ (y \in Nodes(l, M[l]) /\ y # l)
  BY <1>4, <1>5, <1>6, OneList
<1>8. Entries(M) = Entries(L) \cup {x}
  BY <1>2, <1>4, <1>5, <1>7 DEF s
<1> QED
  BY <1>7, <1>8 DEF d, s, Y, Only

(* __list_del_entry: the entry at place k of the list of l leaves it.      *)
LEMMA RemoveEntry ==
  ASSUME NodeAssumption, NEW mem, NEW L, Circles(mem, L), NEW l \in LIST_HEAD,
         NEW k \in 1 .. Len(L[l]), NEW M, Others(L, M, l, l), M[l] = RemoveAt(L[l], k)
  PROVE  LET r == __list_del_entry(mem, L[l][k])
         IN  Circles(r, M) /\ Keeps(mem, r, L, {}) /\ Entries(M) = Entries(L) \ Only(L[l][k])
<1> DEFINE s == L[l]
           r == __list_del_entry(mem, s[k])
           t == RemoveAt(s, k)
           Y == {}
<1>1. mem \in Mem(Node) /\ Ring(Node, l, s) /\ Circle(mem, l, s)
  BY DEF Circles
<1>2. Nodes(l, s) = {l} \cup ToSet(s) /\ l \notin Entry /\ ToSet(s) \subseteq Entries(L)
        /\ l \notin Entries(L) /\ s[k] \in ToSet(s)
  <2>1. L[l] \in Seq(Entry)
    BY CirclesFacts
  <2>2. s[k] \in ToSet(s)
    BY <2>1 DEF ToSet
  <2> QED
    BY <2>2, CirclesFacts DEF Entries, Within, NodeAssumption
<1>3. k \in 1 .. Len(s)
  OBVIOUS
<1> HIDE DEF s
<1>4. /\ r \in Mem(Node) /\ Ring(Node, l, t) /\ Circle(r, l, t)
      /\ Nodes(l, t) = Nodes(l, s) \ {s[k]}
      /\ Same(mem, r, Node, Nodes(l, s))
  BY <1>1, <1>3, RemoveCircle
<1>5. Fresh(L, Y) /\ M[l] = t
  BY DEF s, Fresh
<1> HIDE DEF r, t
<1>6. /\ Ring(Node, l, M[l]) /\ Circle(r, l, M[l])
      /\ Nodes(l, M[l]) \subseteq Nodes(l, L[l]) \cup Y
      /\ Same(mem, r, Node, Nodes(l, L[l]) \cup Y)
  BY <1>4, <1>5 DEF s
<1> HIDE DEF Y
<1>7. /\ Circles(r, M) /\ Keeps(mem, r, L, Y)
      /\ \A y : y \in Entries(M) <=> (y \in Entries(L) /\ y \notin Nodes(l, L[l]))
                  \/ (y \in Nodes(l, M[l]) /\ y # l)
  BY <1>4, <1>5, <1>6, OneList
<1>8. Entries(M) = Entries(L) \ {s[k]}
  BY <1>2, <1>4, <1>5, <1>7 DEF s
<1> QED
  BY <1>7, <1>8 DEF r, s, Y, Only

-----------------------------------------------------------------------------
(* Insert *)

(* Storing a list changes that list.                                       *)
LEMMA SetList ==
  ASSUME NEW L \in [LIST_HEAD -> Seq(Entry)], NEW l \in LIST_HEAD, NEW t \in Seq(Entry)
  PROVE  LET M == [L EXCEPT ![l] = t]
         IN  Others(L, M, l, l) /\ M[l] = t
  BY DEF Others

(* Do: what every operation has to show.                                   *)
LEMMA Done ==
  ASSUME NodeAssumption, LinksInv, NEW r, NEW M, Do(r, M),
         Circles(r, M), NEW X \in SUBSET Entries(M), Keeps(m, r, lists, X),
         \A x \in Entries(lists) \ Entries(M) : r.next[x] = x /\ r.prev[x] = x
  PROVE  LinksInv'
<1>1. m' = r /\ lists' = M /\ nulled' = nulled \ Linked'
  BY DEF Do
<1>2. Linked' = Entries(M)
  BY <1>1 DEF Linked, In, Entries, Within
<1>3. Offs(r, M, nulled \ Entries(M))
  <2> SUFFICES ASSUME NEW x \in Entry \ Entries(M)
               PROVE  r.next[x] = (IF x \in nulled THEN NULL ELSE x)
                        /\ r.prev[x] = (IF x \in nulled THEN NULL ELSE x)
    BY DEF Offs
  <2>1. CASE x \in Entries(lists)
    BY <2>1 DEF LinksInv, Offs
  <2>2. CASE x \notin Entries(lists)
    <3>1. x \in Node \ (LIST_HEAD \cup Entries(lists) \cup X)
      BY <2>2 DEF Node, NodeAssumption
    <3>2. r.next[x] = m.next[x] /\ r.prev[x] = m.prev[x]
      BY <3>1 DEF Keeps, Same
    <3>3. m.next[x] = (IF x \in nulled THEN NULL ELSE x)
            /\ m.prev[x] = (IF x \in nulled THEN NULL ELSE x)
      BY <2>2 DEF LinksInv, Offs
    <3> QED
      BY <3>2, <3>3
  <2> QED
    BY <2>1, <2>2
<1>4. Circles(m', lists') /\ Offs(m', lists', nulled')
  <2>1. nulled' = nulled \ Entries(M)
    BY <1>1, <1>2
  <2> QED
    BY <1>1, <1>3, <2>1
<1> QED
  BY <1>4 DEF LinksInv

(* The places of a list are found by Place and PlaceBefore, and next and   *)
(* prev lead from them to their neighbours.                                *)
LEMMA FoundPlace ==
  ASSUME NodeAssumption, Circles(m, lists), NEW l \in LIST_HEAD, NEW pos \in {l} \cup In(l)
  PROVE  /\ Place(l, pos) \in 0 .. Len(lists[l])
         /\ At(l, lists[l], Place(l, pos)) = pos
         /\ m.next[pos] = At(l, lists[l], Place(l, pos) + 1)
         /\ pos # l => Place(l, pos) # 0
<1> DEFINE s == lists[l]
           n == Len(s)
           k == Place(l, pos)
<1>1. /\ s \in Seq(Node) /\ n \in Nat
      /\ \A i \in 1 .. n : At(l, s, i) = s[i]
      /\ At(l, s, 0) = l
  BY RingFacts DEF Circles
<1>2. Circle(m, l, s)
  BY DEF Circles
<1>3. DOMAIN s = 1 .. n
  BY <1>1
<1>4. CASE pos = l
  <2>1. k = 0 /\ 0 \in 0 .. n
    BY <1>1, <1>4 DEF Place
  <2> HIDE DEF k, n, s
  <2>2. m.next[At(l, s, 0)] = At(l, s, 0 + 1)
    BY <1>2, <2>1 DEF Circle, n
  <2> QED
    BY <1>1, <1>4, <2>1, <2>2 DEF k, n, s
<1>5. CASE pos # l
  <2>1. pos \in ToSet(s)
    BY <1>5 DEF In
  <2>2. \E i \in 1 .. n : s[i] = pos
    BY <2>1, <1>3 DEF ToSet
  <2>3. k = CHOOSE i \in 1 .. n : s[i] = pos
    BY <1>3, <1>5 DEF Place
  <2> HIDE DEF k
  <2>4. k \in 1 .. n /\ s[k] = pos
    BY <2>2, <2>3
  <2> HIDE DEF n, s
  <2>5. k \in 0 .. n /\ k # 0 /\ At(l, s, k) = pos
    BY <1>1, <2>4
  <2>6. m.next[At(l, s, k)] = At(l, s, k + 1)
    BY <1>2, <2>5 DEF Circle, n
  <2> QED
    BY <2>5, <2>6 DEF k, n, s
<1> QED
  BY <1>4, <1>5

(* The same, looked up before the place.                                   *)
LEMMA FoundPlaceBefore ==
  ASSUME NodeAssumption, Circles(m, lists), NEW l \in LIST_HEAD, NEW pos \in {l} \cup In(l)
  PROVE  /\ PlaceBefore(l, pos) \in 0 .. Len(lists[l])
         /\ At(l, lists[l], PlaceBefore(l, pos) + 1) = pos
         /\ m.prev[pos] = At(l, lists[l], PlaceBefore(l, pos))
         /\ pos # l => PlaceBefore(l, pos) # Len(lists[l])
<1> DEFINE s == lists[l]
           n == Len(s)
           j == Place(l, pos)
           k == PlaceBefore(l, pos)
<1>1. n \in Nat /\ At(l, s, n + 1) = l
  BY RingFacts DEF Circles
<1>2. Circle(m, l, s)
  BY DEF Circles
<1>3. j \in 0 .. n /\ At(l, s, j) = pos /\ (pos # l => j # 0)
  BY FoundPlace
<1>4. k = IF pos = l THEN n ELSE j - 1
  BY DEF PlaceBefore
<1> HIDE DEF k, j, n, s
<1>5. k \in 0 .. n /\ At(l, s, k + 1) = pos /\ (pos # l => k # n)
  <2>1. CASE pos = l
    BY <2>1, <1>1, <1>4
  <2>2. CASE pos # l
    <3>1. k \in 0 .. n /\ k + 1 = j /\ k # n
      BY <2>2, <1>1, <1>3, <1>4
    <3> QED
      BY <3>1, <1>3
  <2> QED
    BY <2>1, <2>2
<1>6. m.prev[At(l, s, k + 1)] = At(l, s, k)
  BY <1>2, <1>5 DEF Circle, n
<1> QED
  BY <1>5, <1>6 DEF k, n, s

(* list_add behind a head and list_add_tail before it.                     *)
LEMMA AddFirst ==
  ASSUME NodeAssumption, NEW mem, NEW L, Circles(mem, L), NEW l \in LIST_HEAD,
         NEW x \in Entry \ Entries(L),
         NEW M, Others(L, M, l, l), M[l] = <<x>> \o L[l]
  PROVE  LET r == list_add(mem, x, l)
         IN  Circles(r, M) /\ Keeps(mem, r, L, Only(x)) /\ Entries(M) = Entries(L) \cup Only(x)
<1> DEFINE s == L[l]
           t == <<x>> \o s
           k == 0
<1>1. L \in [LIST_HEAD -> Seq(Entry)] /\ s \in Seq(Entry) /\ Ring(Node, l, s)
        /\ Circle(mem, l, s) /\ Len(s) \in Nat
  BY DEF Circles
<1>2. t = InsertAt(s, 1, x)
  BY <1>1, PrependIndex
<1>3. t \in Seq(Entry)
  BY <1>1
<1>4. Others(L, M, l, l) /\ M[l] = t
  OBVIOUS
<1> HIDE DEF t, s
<1>5. At(l, s, 0) = l /\ 0 \in 0 .. Len(s)
  BY <1>1 DEF At
<1>6. mem.next[l] = At(l, s, 0 + 1)
  BY <1>1, <1>5 DEF Circle
<1>7. k \in 0 .. Len(L[l])
        /\ list_add(mem, x, l) = __list_add(mem, x, At(l, L[l], k), At(l, L[l], k + 1))
             /\ M[l] = InsertAt(L[l], k + 1, x)
  BY <1>2, <1>4, <1>5, <1>6 DEF list_add, s
<1> HIDE DEF k
<1>8. LET r == __list_add(mem, x, At(l, L[l], k), At(l, L[l], k + 1))
      IN  Circles(r, M) /\ Keeps(mem, r, L, Only(x)) /\ Entries(M) = Entries(L) \cup Only(x)
  BY <1>4, <1>7, AddEntry
<1> QED
  BY <1>7, <1>8 DEF t, s

(* list_add_tail appends.                                                  *)
LEMMA AddLast ==
  ASSUME NodeAssumption, NEW mem, NEW L, Circles(mem, L), NEW l \in LIST_HEAD,
         NEW x \in Entry \ Entries(L),
         NEW M, Others(L, M, l, l), M[l] = Append(L[l], x)
  PROVE  LET r == list_add_tail(mem, x, l)
         IN  Circles(r, M) /\ Keeps(mem, r, L, Only(x)) /\ Entries(M) = Entries(L) \cup Only(x)
<1> DEFINE s == L[l]
           t == Append(s, x)
           k == Len(s)
<1>1. L \in [LIST_HEAD -> Seq(Entry)] /\ s \in Seq(Entry) /\ Ring(Node, l, s)
        /\ Circle(mem, l, s) /\ Len(s) \in Nat
  BY DEF Circles
<1>2. t = InsertAt(s, Len(s) + 1, x)
  BY <1>1, AppendIndex
<1>3. t \in Seq(Entry)
  BY <1>1
<1>4. Others(L, M, l, l) /\ M[l] = t
  OBVIOUS
<1>5. At(l, s, k + 1) = l
  BY <1>1 DEF At
<1> HIDE DEF t, s
<1>9. k \in 0 .. Len(s) /\ k + 1 = Len(s) + 1
  BY <1>1
<1> HIDE DEF k
<1>6. mem.prev[l] = At(l, s, k)
  BY <1>1, <1>5, <1>9 DEF Circle
<1>7. k \in 0 .. Len(L[l])
        /\ list_add_tail(mem, x, l) = __list_add(mem, x, At(l, L[l], k), At(l, L[l], k + 1))
             /\ M[l] = InsertAt(L[l], k + 1, x)
  BY <1>2, <1>4, <1>5, <1>6, <1>9 DEF list_add_tail, s
<1>8. LET r == __list_add(mem, x, At(l, L[l], k), At(l, L[l], k + 1))
      IN  Circles(r, M) /\ Keeps(mem, r, L, Only(x)) /\ Entries(M) = Entries(L) \cup Only(x)
  BY <1>4, <1>7, AddEntry
<1> QED
  BY <1>7, <1>8 DEF t, s

(* Insert keeps the links right.                                           *)
LEMMA InsertStep ==
  ASSUME NodeAssumption, LinksInv, Insert
  PROVE  LinksInv'
<1>1. PICK x \in Off, l \in LIST_HEAD : \E pos \in {l} \cup In(l) :
    \/ Do(list_add(m, x, pos),
          [lists EXCEPT ![l] = InsertAt(@, Place(l, pos) + 1, x)])
    \/ Do(list_add_tail(m, x, pos),
          [lists EXCEPT ![l] = InsertAt(@, PlaceBefore(l, pos) + 1, x)])
  BY DEF Insert
<1>2. PICK pos \in {l} \cup In(l) :
    \/ Do(list_add(m, x, pos),
          [lists EXCEPT ![l] = InsertAt(@, Place(l, pos) + 1, x)])
    \/ Do(list_add_tail(m, x, pos),
          [lists EXCEPT ![l] = InsertAt(@, PlaceBefore(l, pos) + 1, x)])
  BY <1>1
<1>3. Circles(m, lists) /\ x \in Entry \ Entries(lists)
  BY DEF LinksInv, Off, Linked, In, Entries, Within
<1>4. ASSUME NEW k \in 0 .. Len(lists[l]),
             Do(__list_add(m, x, At(l, lists[l], k), At(l, lists[l], k + 1)),
               [lists EXCEPT ![l] = InsertAt(lists[l], k + 1, x)])
      PROVE  LinksInv'
  <2> DEFINE s == lists[l]
             r == __list_add(m, x, At(l, s, k), At(l, s, k + 1))
             t == InsertAt(s, k + 1, x)
             M == [lists EXCEPT ![l] = t]
             X == Only(x)
  <2>1. lists \in [LIST_HEAD -> Seq(Entry)] /\ s \in Seq(Entry)
    BY <1>3 DEF Circles
  <2>2. t \in Seq(Entry)
    <3> DEFINE c == k + 1
    <3>1. c \in 1 .. Len(s) + 1
      BY <2>1
    <3>3. x \in Entry
      BY <1>3
    <3> HIDE DEF c, s
    <3>2. InsertAt(s, c, x) \in Seq(Entry)
      BY <2>1, <3>1, <3>3, InsertAtIndex
    <3> QED
      BY <3>2 DEF c
  <2>6. Do(r, M)
    BY <1>4
  <2> HIDE DEF t
  <2>3. Others(lists, M, l, l) /\ M[l] = t
    BY <2>1, <2>2, SetList
  <2> HIDE DEF M
  <2>4. M[l] = InsertAt(lists[l], k + 1, x)
    BY <2>3 DEF t
  <2>5. Circles(r, M) /\ Keeps(m, r, lists, Only(x)) /\ Entries(M) = Entries(lists) \cup Only(x)
    BY <1>3, <2>3, <2>4, AddEntry
  <2> HIDE DEF r
  <2>7. Circles(r, M) /\ Keeps(m, r, lists, X) /\ X \in SUBSET Entries(M)
    BY <2>5
  <2>8. \A y \in Entries(lists) \ Entries(M) : r.next[y] = y /\ r.prev[y] = y
    BY <2>5
  <2> HIDE DEF X
  <2> QED
    BY <2>6, <2>7, <2>8, Done
<1>5. CASE Do(list_add(m, x, pos), [lists EXCEPT ![l] = InsertAt(@, Place(l, pos) + 1, x)])
  <2> DEFINE k == Place(l, pos)
  <2>1. k \in 0 .. Len(lists[l]) /\ At(l, lists[l], k) = pos /\ m.next[pos] = At(l, lists[l], k + 1)
    BY <1>3, FoundPlace
  <2>2. Do(__list_add(m, x, At(l, lists[l], k), At(l, lists[l], k + 1)),
          [lists EXCEPT ![l] = InsertAt(lists[l], k + 1, x)])
    BY <1>5, <2>1 DEF list_add
  <2> HIDE DEF k
  <2> QED
    BY <1>4, <2>1, <2>2
<1>6. CASE Do(list_add_tail(m, x, pos),
        [lists EXCEPT ![l] = InsertAt(@, PlaceBefore(l, pos) + 1, x)])
  <2> DEFINE k == PlaceBefore(l, pos)
  <2>1. k \in 0 .. Len(lists[l]) /\ At(l, lists[l], k + 1) = pos /\ m.prev[pos] = At(l, lists[l], k)
    BY <1>3, FoundPlaceBefore
  <2>2. Do(__list_add(m, x, At(l, lists[l], k), At(l, lists[l], k + 1)),
          [lists EXCEPT ![l] = InsertAt(lists[l], k + 1, x)])
    BY <1>6, <2>1 DEF list_add_tail
  <2> HIDE DEF k
  <2> QED
    BY <1>4, <2>1, <2>2
<1> QED
  BY <1>2, <1>5, <1>6

-----------------------------------------------------------------------------
(* Delete *)

(* Two operations in a row leave alone what both leave alone.              *)
LEMMA KeepsBoth ==
  ASSUME NEW mem, NEW d, NEW r, NEW L, NEW M, NEW X, NEW Y, NEW Z,
         Keeps(mem, d, L, X), Keeps(d, r, M, Y),
           Entries(M) \cup X \cup Y \subseteq Entries(L) \cup Z
  PROVE  Keeps(mem, r, L, Z)
  BY DEF Keeps, Same

(* Taking an entry out of the lists changes the one it is in.              *)
LEMMA WithoutOther ==
  ASSUME NodeAssumption, NEW mem, Circles(mem, lists), NEW l \in LIST_HEAD,
           NEW k \in 1 .. Len(lists[l])
  PROVE  /\ Others(lists, Without(lists[l][k]), l, l)
         /\ Without(lists[l][k])[l] = RemoveAt(lists[l], k)
<1> DEFINE s == lists[l]
           x == s[k]
           M == Without(x)
<1>1. /\ \A h \in LIST_HEAD : lists[h] \in Seq(Entry)
      /\ Ring(Node, l, s) /\ \A h \in LIST_HEAD : h # l => ToSet(s) \cap ToSet(lists[h]) = {}
  BY DEF Circles
<1>2. s \in Seq(Entry) /\ k \in 1 .. Len(s)
  BY <1>1
<1>3. x \in ToSet(s)
  BY <1>2 DEF ToSet
<1>4. \A i, j \in 1 .. Len(s) : s[i] = s[j] => i = j
  <2>1. Len(s) \in Nat /\ \A i, j \in 0 .. Len(s) : At(l, s, i) = At(l, s, j) => i = j
    BY <1>1, RingFacts
  <2>2. \A i \in 1 .. Len(s) : At(l, s, i) = s[i]
    BY <1>1, RingFacts
  <2> HIDE DEF s
  <2> QED
    BY <2>1, <2>2
<1>5. RemoveFirst(s, x) = RemoveAt(s, k)
  <2> HIDE DEF s
  <2> QED
    BY <1>2, <1>4, RemoveFirstAt
<1>6. M[l] = RemoveAt(s, k)
  BY <1>5 DEF Without
<1>7. \A h \in LIST_HEAD : h # l => M[h] = lists[h]
  <2> TAKE h \in LIST_HEAD
  <2> HAVE h # l
  <2>1. x \notin ToSet(lists[h])
    BY <1>1, <1>3
  <2>2. DOMAIN lists[h] = 1 .. Len(lists[h])
    BY <1>1
  <2> HIDE DEF x
  <2>3. RemoveFirst(lists[h], x) = lists[h]
    BY <2>1, <2>2, RemoveFirstNone
  <2> QED
    BY <2>3 DEF Without
<1>8. RemoveAt(s, k) \in Seq(Entry)
  BY <1>2, RemoveAtIndex
<1>9. M \in [LIST_HEAD -> Seq(Entry)]
  <2>1. \A h \in LIST_HEAD : M[h] \in Seq(Entry)
    BY <1>1, <1>6, <1>7, <1>8
  <2>2. M = [h \in LIST_HEAD |-> RemoveFirst(lists[h], x)]
    BY DEF Without
  <2> HIDE DEF x
  <2>3. DOMAIN M = LIST_HEAD /\ M = [h \in LIST_HEAD |-> M[h]]
    BY <2>2
  <2> QED
    BY <2>1, <2>3
<1> QED
  BY <1>6, <1>7, <1>9 DEF Others

(* Taking out an entry that is in none changes nothing.                    *)
LEMMA WithoutNone ==
  ASSUME NodeAssumption, NEW mem, Circles(mem, lists), NEW x \in Off
  PROVE  Without(x) = lists
<1>1. lists \in [LIST_HEAD -> Seq(Entry)]
  BY DEF Circles
<1>2. \A h \in LIST_HEAD : RemoveFirst(lists[h], x) = lists[h]
  <2> TAKE h \in LIST_HEAD
  <2>1. x \notin ToSet(lists[h])
    BY DEF Off, Linked, In
  <2>2. DOMAIN lists[h] = 1 .. Len(lists[h])
    <3>1. lists[h] \in Seq(Entry)
      BY <1>1
    <3> QED
      BY <3>1
  <2> QED
    BY <2>1, <2>2, RemoveFirstNone
<1> QED
  BY <1>1, <1>2 DEF Without

(* An entry of a list has a place in it.                                   *)
LEMMA HasPlace ==
  ASSUME NEW mem, Circles(mem, lists), NEW x \in Linked
  PROVE  \E l \in LIST_HEAD : \E k \in 1 .. Len(lists[l]) : lists[l][k] = x
<1>1. PICK l \in LIST_HEAD : x \in ToSet(lists[l])
  BY DEF Linked, In
<1>2. lists[l] \in Seq(Entry)
  BY DEF Circles
<1>3. DOMAIN lists[l] = 1 .. Len(lists[l])
  BY <1>2
<1>4. \E k \in 1 .. Len(lists[l]) : lists[l][k] = x
  BY <1>1, <1>3 DEF ToSet
<1> QED
  BY <1>4

(* __list_del_entry takes a linked entry out of its list, wherever that    *)
(* is.                                                                     *)
LEMMA Unlink ==
  ASSUME NodeAssumption, NEW mem, Circles(mem, lists), NEW x \in Linked
  PROVE  LET r == __list_del_entry(mem, x)
         IN  Circles(r, Without(x)) /\ Keeps(mem, r, lists, {})
               /\ Entries(Without(x)) = Entries(lists) \ Only(x)
<1>0. PICK l \in LIST_HEAD : \E k \in 1 .. Len(lists[l]) : lists[l][k] = x
  BY HasPlace
<1>1. PICK k \in 1 .. Len(lists[l]) : lists[l][k] = x
  BY <1>0
<1>2. Others(lists, Without(x), l, l) /\ Without(x)[l] = RemoveAt(lists[l], k)
  BY <1>1, WithoutOther
<1> DEFINE M == Without(x)
<1> HIDE DEF M
<1>3. Others(lists, M, l, l) /\ M[l] = RemoveAt(lists[l], k)
  BY <1>2 DEF M
<1>4. LET r == __list_del_entry(mem, lists[l][k])
      IN  Circles(r, M) /\ Keeps(mem, r, lists, {})
            /\ Entries(M) = Entries(lists) \ Only(lists[l][k])
  BY <1>3, RemoveEntry
<1> QED
  BY <1>1, <1>4 DEF M

(* ... and whatever is then written to the links of x alone.               *)
LEMMA Release ==
  ASSUME NodeAssumption, NEW mem, Circles(mem, lists), NEW x \in Linked,
         NEW r \in Mem(Node), Same(__list_del_entry(mem, x), r, Node, Only(x))
  PROVE  Circles(r, Without(x)) /\ Keeps(mem, r, lists, {})
           /\ Entries(Without(x)) = Entries(lists) \ Only(x)
<1> DEFINE d == __list_del_entry(mem, x)
           M == Without(x)
           X == Only(x)
<1>1. Circles(d, M) /\ Keeps(mem, d, lists, {}) /\ Entries(M) = Entries(lists) \ X
  BY Unlink
<1>2. x \in Entries(lists) /\ x \in Entry
  <2>1. x \in Entries(lists)
    BY DEF Linked, In, Entries, Within
  <2> QED
    BY <2>1, CirclesFacts
<1>3. Fresh(M, X)
  BY <1>1, <1>2 DEF Fresh, Only
<1>4. Same(d, r, Node, X)
  OBVIOUS
<1>5. X \subseteq Entries(lists)
  BY <1>2 DEF Only
<1> HIDE DEF d, M, X
<1>6. Circles(r, M)
  BY <1>1, <1>3, <1>4, NoList
<1>7. Keeps(mem, r, lists, {})
  BY <1>1, <1>4, <1>5 DEF Keeps, Same
<1> QED
  BY <1>1, <1>6, <1>7 DEF M, X

(* list_del and list_del_init, of an entry of a list.                      *)
LEMMA DelLinks ==
  ASSUME NodeAssumption, NEW mem, Circles(mem, lists), NEW x \in Linked
  PROVE  LET d == __list_del_entry(mem, x)
             r == list_del(mem, x)
             i == list_del_init(mem, x)
         IN  /\ r \in Mem(Node) /\ Same(d, r, Node, Only(x)) /\ r.next[x] = NULL /\ r.prev[x] = NULL
             /\ i \in Mem(Node) /\ Same(d, i, Node, Only(x)) /\ i.next[x] = x /\ i.prev[x] = x
             /\ x \in Node
<1> DEFINE d == __list_del_entry(mem, x)
           r == list_del(mem, x)
           i == list_del_init(mem, x)
<1>1. d \in Mem(Node)
  BY Unlink DEF Circles
<1>2. x \in Node
  <2>1. x \in Entries(lists)
    BY DEF Linked, In, Entries, Within
  <2> QED
    BY <2>1, CirclesFacts DEF Node
<1>3. r = [d EXCEPT !.next[x] = NULL, !.prev[x] = NULL] /\ i = INIT_LIST_HEAD(d, x)
  BY DEF list_del, list_del_init
<1> HIDE DEF d, r, i
<1>4. /\ r \in Mem(Node)
      /\ \A y \in Node : /\ r.next[y] = IF y = x THEN NULL ELSE d.next[y]
                         /\ r.prev[y] = IF y = x THEN NULL ELSE d.prev[y]
  BY <1>1, <1>2, <1>3 DEF Mem
<1>5. /\ i \in Mem(Node)
      /\ \A y \in Node : /\ i.next[y] = IF y = x THEN x ELSE d.next[y]
                         /\ i.prev[y] = IF y = x THEN x ELSE d.prev[y]
  BY <1>1, <1>2, <1>3, SelfLink
<1>6. Same(d, r, Node, Only(x)) /\ Same(d, i, Node, Only(x))
  BY <1>4, <1>5 DEF Same, Only
<1> QED
  BY <1>2, <1>4, <1>5, <1>6 DEF d, r, i

(* Delete keeps the links right.                                           *)
LEMMA DeleteStep ==
  ASSUME NodeAssumption, LinksInv, Delete
  PROVE  LinksInv'
<1>1. PICK x \in Linked :
    \/ m' = list_del(m, x) /\ lists' = Without(x) /\ nulled' = nulled \cup {x}
    \/ Do(list_del_init(m, x), Without(x))
  BY DEF Delete
<1> DEFINE M == Without(x)
           d == __list_del_entry(m, x)
<1>2. Circles(m, lists)
  BY DEF LinksInv
<1>3. x \in Entries(lists)
  BY DEF Linked, In, Entries, Within
<1>4. CASE Do(list_del_init(m, x), M)
  <2> DEFINE r == list_del_init(m, x)
             X == {}
  <2>1. r \in Mem(Node) /\ Same(d, r, Node, Only(x)) /\ r.next[x] = x /\ r.prev[x] = x
    BY <1>2, DelLinks
  <2>2. Do(r, M)
    BY <1>4
  <2> HIDE DEF r
  <2>3. Circles(r, M) /\ Keeps(m, r, lists, X) /\ Entries(M) = Entries(lists) \ Only(x)
    BY <1>2, <2>1, Release
  <2>4. \A y \in Entries(lists) \ Entries(M) : r.next[y] = y /\ r.prev[y] = y
    BY <2>1, <2>3 DEF Only
  <2>5. X \in SUBSET Entries(M)
    OBVIOUS
  <2> HIDE DEF X, M
  <2> QED
    BY <2>2, <2>3, <2>4, <2>5, Done
<1>5. CASE m' = list_del(m, x) /\ lists' = M /\ nulled' = nulled \cup {x}
  <2> DEFINE r == list_del(m, x)
             D == nulled \cup {x}
  <2>1. r \in Mem(Node) /\ Same(d, r, Node, Only(x)) /\ r.next[x] = NULL /\ r.prev[x] = NULL
    BY <1>2, DelLinks
  <2>2. m' = r /\ lists' = M /\ nulled' = D
    BY <1>5
  <2> HIDE DEF r
  <2>3. Circles(r, M) /\ Keeps(m, r, lists, {}) /\ Entries(M) = Entries(lists) \ {x}
    BY <1>2, <2>1, Release DEF Only
  <2> HIDE DEF M
  <2>4. Offs(r, M, D)
    <3>1. D \cap Entries(M) = {}
      BY <2>3 DEF LinksInv, Offs
    <3> SUFFICES ASSUME NEW y \in Entry \ Entries(M)
                 PROVE  r.next[y] = (IF y \in D THEN NULL ELSE y)
                          /\ r.prev[y] = (IF y \in D THEN NULL ELSE y)
      BY <3>1 DEF Offs
    <3>2. CASE y = x
      BY <3>2, <2>1
    <3>3. CASE y # x
      <4>1. y \in Entry \ Entries(lists)
        BY <3>3, <2>3
      <4>2. y \in Node \ (LIST_HEAD \cup Entries(lists) \cup {})
        BY <4>1 DEF Node, NodeAssumption
      <4>3. r.next[y] = m.next[y] /\ r.prev[y] = m.prev[y]
        BY <2>3, <4>2 DEF Keeps, Same
      <4>4. m.next[y] = (IF y \in nulled THEN NULL ELSE y)
              /\ m.prev[y] = (IF y \in nulled THEN NULL ELSE y)
        BY <4>1 DEF LinksInv, Offs
      <4> QED
        BY <3>3, <4>3, <4>4
    <3> QED
      BY <3>2, <3>3
  <2> HIDE DEF D
  <2>5. Circles(m', lists') /\ Offs(m', lists', nulled')
    BY <2>2, <2>3, <2>4
  <2> QED
    BY <2>5 DEF LinksInv
<1> QED
  BY <1>1, <1>4, <1>5

-----------------------------------------------------------------------------
(* Safe and Move *)

(* list_delete_safe: an entry that is in no list is linked to itself, and  *)
(* the deletion writes what is there already.                              *)
LEMMA SafeDelete ==
  ASSUME NodeAssumption, LinksInv, NEW x \in Entry \ nulled
  PROVE  LET r == list_delete_safe(m, x)
         IN  /\ Circles(r, Without(x)) /\ Keeps(m, r, lists, {})
             /\ Entries(Without(x)) = Entries(lists) \ Only(x)
             /\ r.next[x] = x /\ r.prev[x] = x
<1> DEFINE d == __list_del_entry(m, x)
           e == list_del(m, x)
           r == list_delete_safe(m, x)
<1>1. r = INIT_LIST_HEAD(e, x)
  BY DEF list_delete_safe
<1>2. Circles(m, lists) /\ x \in Node /\ m \in Mem(Node) /\ Linked = Entries(lists)
  BY DEF LinksInv, Node, Circles, Linked, In, Entries, Within
<1>3. CASE x \in Linked
  <2>1. e \in Mem(Node) /\ Same(d, e, Node, Only(x))
    BY <1>2, <1>3, DelLinks
  <2> HIDE DEF e, r
  <2>2. /\ r \in Mem(Node)
        /\ \A y \in Node : /\ r.next[y] = IF y = x THEN x ELSE e.next[y]
                           /\ r.prev[y] = IF y = x THEN x ELSE e.prev[y]
    BY <1>1, <1>2, <2>1, SelfLink
  <2>3. Same(d, r, Node, Only(x))
    BY <2>1, <2>2 DEF Same, Only
  <2>4. Circles(r, Without(x)) /\ Keeps(m, r, lists, {})
          /\ Entries(Without(x)) = Entries(lists) \ Only(x)
    BY <1>2, <1>3, <2>2, <2>3, Release
  <2> QED
    BY <1>2, <2>2, <2>4 DEF r
<1>4. CASE x \notin Linked
  <2>1. m.next[x] = x /\ m.prev[x] = x
    BY <1>2, <1>4 DEF LinksInv, Offs
  <2>2. d \in Mem(Node) /\ \A y \in Node : d.next[y] = m.next[y] /\ d.prev[y] = m.prev[y]
    <3>1. d = __list_del(m, x, x)
      BY <2>1 DEF __list_del_entry
    <3>2. d \in Mem(Node) /\ \A y \in Node : d.next[y] = (IF y = x THEN x ELSE m.next[y])
            /\ d.prev[y] = (IF y = x THEN x ELSE m.prev[y])
      BY <1>2, <3>1, JoinAround
    <3> QED
      BY <2>1, <3>2
  <2>3. e = [d EXCEPT !.next[x] = NULL, !.prev[x] = NULL]
    BY DEF list_del
  <2> HIDE DEF d, e, r
  <2>4. /\ e \in Mem(Node)
        /\ \A y \in Node : /\ e.next[y] = IF y = x THEN NULL ELSE d.next[y]
                           /\ e.prev[y] = IF y = x THEN NULL ELSE d.prev[y]
    BY <1>2, <2>2, <2>3 DEF Mem
  <2>5. /\ r \in Mem(Node)
        /\ \A y \in Node : /\ r.next[y] = IF y = x THEN x ELSE e.next[y]
                           /\ r.prev[y] = IF y = x THEN x ELSE e.prev[y]
    BY <1>1, <1>2, <2>4, SelfLink
  <2>6. \A y \in Node : r.next[y] = m.next[y] /\ r.prev[y] = m.prev[y]
    BY <2>1, <2>2, <2>4, <2>5
  <2>7. Without(x) = lists
    BY <1>2, <1>4, WithoutNone DEF Off
  <2> DEFINE X == {}
  <2>8. Same(m, r, Node, X) /\ Fresh(lists, X) /\ Keeps(m, r, lists, X)
    BY <2>6 DEF Same, Keeps, Fresh
  <2> HIDE DEF X
  <2>9. Circles(r, lists)
    BY <1>2, <2>5, <2>8, NoList
  <2> QED
    BY <1>2, <1>4, <2>1, <2>6, <2>7, <2>8, <2>9 DEF X, Only, r
<1> QED
  BY <1>3, <1>4

(* x, taken off any list it was in, is put into the list of l.             *)
LEMMA Rejoin ==
  ASSUME NodeAssumption, LinksInv, NEW x \in Entry, NEW d,
         Circles(d, Without(x)), Keeps(m, d, lists, {}),
         Entries(Without(x)) = Entries(lists) \ Only(x), NEW l \in LIST_HEAD
  PROVE  /\ Do(list_add(d, x, l), [Without(x) EXCEPT ![l] = <<x>> \o @]) => LinksInv'
         /\ Do(list_add_tail(d, x, l), [Without(x) EXCEPT ![l] = Append(@, x)]) => LinksInv'
<1> DEFINE L == Without(x)
           X == Only(x)
<1>1. x \in Entry \ Entries(L) /\ Circles(d, L)
  BY DEF Only
<1>2. ASSUME NEW r, NEW M, Do(r, M), Circles(r, M), Keeps(d, r, L, X),
               Entries(M) = Entries(L) \cup X
      PROVE  LinksInv'
  <2>1. Keeps(m, r, lists, X)
    <3> DEFINE Y == {}
    <3>1. Keeps(m, d, lists, Y) /\ Entries(L) \cup Y \cup X \subseteq Entries(lists) \cup X
      OBVIOUS
    <3> HIDE DEF L, X, Y
    <3> QED
      BY <1>2, <3>1, KeepsBoth
  <2>2. \A y \in Entries(lists) \ Entries(M) : r.next[y] = y /\ r.prev[y] = y
    BY <1>2
  <2>3. X \in SUBSET Entries(M)
    BY <1>2
  <2> HIDE DEF L, X
  <2> QED
    BY <1>2, <2>1, <2>2, <2>3, Done
<1>3. ASSUME Do(list_add(d, x, l), [L EXCEPT ![l] = <<x>> \o @])
      PROVE  LinksInv'
  <2> DEFINE r == list_add(d, x, l)
             M == [L EXCEPT ![l] = <<x>> \o @]
             t == <<x>> \o L[l]
  <2> HIDE DEF L
  <2>3. L \in [LIST_HEAD -> Seq(Entry)] /\ t \in Seq(Entry)
    <3>1. L \in [LIST_HEAD -> Seq(Entry)]
      BY <1>1 DEF Circles
    <3> QED
      BY <3>1
  <2> HIDE DEF t
  <2>4. M = [L EXCEPT ![l] = t]
    BY DEF t
  <2>5. Others(L, M, l, l) /\ M[l] = t
    BY <2>3, <2>4, SetList
  <2> HIDE DEF M
  <2>6. M[l] = <<x>> \o L[l]
    BY <2>5 DEF t
  <2>1. Circles(r, M) /\ Keeps(d, r, L, Only(x)) /\ Entries(M) = Entries(L) \cup Only(x)
    BY <1>1, <2>5, <2>6, AddFirst
  <2>2. Do(r, M)
    BY <1>3 DEF M
  <2> HIDE DEF r, M, X
  <2> QED
    BY <1>2, <2>1, <2>2 DEF X
<1>4. ASSUME Do(list_add_tail(d, x, l), [L EXCEPT ![l] = Append(@, x)])
      PROVE  LinksInv'
  <2> DEFINE r == list_add_tail(d, x, l)
             M == [L EXCEPT ![l] = Append(@, x)]
             t == Append(L[l], x)
  <2> HIDE DEF L
  <2>3. L \in [LIST_HEAD -> Seq(Entry)] /\ t \in Seq(Entry)
    <3>1. L \in [LIST_HEAD -> Seq(Entry)]
      BY <1>1 DEF Circles
    <3> QED
      BY <3>1
  <2> HIDE DEF t
  <2>4. M = [L EXCEPT ![l] = t]
    BY DEF t
  <2>5. Others(L, M, l, l) /\ M[l] = t
    BY <2>3, <2>4, SetList
  <2> HIDE DEF M
  <2>6. M[l] = Append(L[l], x)
    BY <2>5 DEF t
  <2>1. Circles(r, M) /\ Keeps(d, r, L, Only(x)) /\ Entries(M) = Entries(L) \cup Only(x)
    BY <1>1, <2>5, <2>6, AddLast
  <2>2. Do(r, M)
    BY <1>4 DEF M
  <2> HIDE DEF r, M, X
  <2> QED
    BY <1>2, <2>1, <2>2 DEF X
<1> QED
  BY <1>3, <1>4

(* Safe keeps the links right.                                             *)
LEMMA SafeStep ==
  ASSUME NodeAssumption, LinksInv, Safe
  PROVE  LinksInv'
<1>1. PICK x \in Entry \ nulled :
    \/ Do(list_delete_safe(m, x), Without(x))
    \/ \E l \in LIST_HEAD :
         \/ Do(list_add_safe(m, x, l), [Without(x) EXCEPT ![l] = <<x>> \o @])
         \/ Do(list_add_tail_safe(m, x, l), [Without(x) EXCEPT ![l] = Append(@, x)])
  BY DEF Safe
<1> DEFINE d == list_delete_safe(m, x)
<1>2. /\ Circles(d, Without(x)) /\ Keeps(m, d, lists, {})
      /\ Entries(Without(x)) = Entries(lists) \ Only(x)
      /\ d.next[x] = x /\ d.prev[x] = x
  BY SafeDelete
<1>3. CASE Do(d, Without(x))
  <2> DEFINE X == {}
             M == Without(x)
  <2>1. X \in SUBSET Entries(M) /\ Keeps(m, d, lists, X) /\ Circles(d, M) /\ Do(d, M)
    BY <1>2, <1>3
  <2>2. \A y \in Entries(lists) \ Entries(M) : d.next[y] = y /\ d.prev[y] = y
    BY <1>2 DEF Only
  <2> HIDE DEF X, M, d
  <2> QED
    BY <2>1, <2>2, Done
<1>4. ASSUME NEW l \in LIST_HEAD,
             \/ Do(list_add_safe(m, x, l), [Without(x) EXCEPT ![l] = <<x>> \o @])
             \/ Do(list_add_tail_safe(m, x, l), [Without(x) EXCEPT ![l] = Append(@, x)])
      PROVE  LinksInv'
  <2>1. list_add_safe(m, x, l) = list_add(d, x, l)
          /\ list_add_tail_safe(m, x, l) = list_add_tail(d, x, l)
    BY DEF list_add_safe, list_add_tail_safe
  <2> HIDE DEF d
  <2>2. /\ Do(list_add(d, x, l), [Without(x) EXCEPT ![l] = <<x>> \o @]) => LinksInv'
        /\ Do(list_add_tail(d, x, l), [Without(x) EXCEPT ![l] = Append(@, x)]) => LinksInv'
    BY <1>2, Rejoin
  <2> QED
    BY <1>4, <2>1, <2>2
<1> QED
  BY <1>1, <1>3, <1>4

(* Move keeps the links right.                                             *)
LEMMA MoveStep ==
  ASSUME NodeAssumption, LinksInv, Move
  PROVE  LinksInv'
<1>1. PICK x \in Linked, l \in LIST_HEAD :
    \/ Do(list_move(m, x, l), [Without(x) EXCEPT ![l] = <<x>> \o @])
    \/ Do(list_move_tail(m, x, l), [Without(x) EXCEPT ![l] = Append(@, x)])
  BY DEF Move
<1> DEFINE d == __list_del_entry(m, x)
<1>2. list_move(m, x, l) = list_add(d, x, l) /\ list_move_tail(m, x, l) = list_add_tail(d, x, l)
  BY DEF list_move, list_move_tail
<1>3. Circles(m, lists) /\ x \in Entry
  <2>1. x \in Entries(lists) /\ Circles(m, lists)
    BY DEF LinksInv, Linked, In, Entries, Within
  <2> QED
    BY <2>1, CirclesFacts
<1>4. Circles(d, Without(x)) /\ Keeps(m, d, lists, {})
        /\ Entries(Without(x)) = Entries(lists) \ Only(x)
  BY <1>3, Unlink
<1> HIDE DEF d
<1>5. /\ Do(list_add(d, x, l), [Without(x) EXCEPT ![l] = <<x>> \o @]) => LinksInv'
      /\ Do(list_add_tail(d, x, l), [Without(x) EXCEPT ![l] = Append(@, x)]) => LinksInv'
  BY <1>3, <1>4, Rejoin
<1> QED
  BY <1>1, <1>2, <1>5

-----------------------------------------------------------------------------
(* BulkMove and Rotate *)

(* A part of a sequence, by position.                                      *)
LEMMA PartIndex ==
  ASSUME NEW X, NEW s \in Seq(X), NEW a \in 1 .. Len(s) + 1, NEW b \in a - 1 .. Len(s)
  PROVE  /\ SubSeq(s, a, b) \in Seq(X) /\ Len(SubSeq(s, a, b)) = b - a + 1
         /\ \A i \in 1 .. b - a + 1 : SubSeq(s, a, b)[i] = s[a + i - 1]
<1>1. Len(s) \in Nat /\ a \in Int /\ b \in Int /\ 1 <= a /\ a <= b + 1 /\ b <= Len(s)
  OBVIOUS
<1> QED
  BY <1>1

(* The first k entries of a list, and the others.                          *)
LEMMA UptoFrom ==
  ASSUME NEW l \in LIST_HEAD, lists[l] \in Seq(Entry), NEW k \in 0 .. Len(lists[l])
  PROVE  Upto(l, k) \in Seq(Entry) /\ From(l, k) \in Seq(Entry)
           /\ Parted(lists[l], k, Upto(l, k), From(l, k))
<1> DEFINE s == lists[l]
           n == Len(s)
<1>1. n \in Nat /\ k \in Int /\ 0 <= k /\ k <= n /\ s \in Seq(Entry)
  OBVIOUS
<1> DEFINE c == k + 1
<1>2. c \in 1 .. n + 1 /\ c - 1 = k /\ n \in c - 1 .. n
  BY <1>1
<1>3. Upto(l, k) = SubSeq(s, 1, k)
  <2>1. Min({k, n}) = k
    BY <1>1 DEF Min
  <2> QED
    BY <2>1 DEF Upto
<1>4. From(l, k) = SubSeq(s, c, n)
  BY DEF From
<1> HIDE DEF s, c
<1>5. /\ SubSeq(s, c, n) \in Seq(Entry) /\ Len(SubSeq(s, c, n)) = n - c + 1
      /\ \A i \in 1 .. n - c + 1 : SubSeq(s, c, n)[i] = s[c + i - 1]
  BY <1>1, <1>2, PartIndex
<1>6. /\ SubSeq(s, 1, k) \in Seq(Entry) /\ Len(SubSeq(s, 1, k)) = k
      /\ \A i \in 1 .. k : SubSeq(s, 1, k)[i] = s[i]
  BY <1>1
<1>7. n - c + 1 = n - k /\ \A i \in 1 .. n - k : c + i - 1 = k + i
  BY <1>1 DEF c
<1> QED
  BY <1>3, <1>4, <1>5, <1>6, <1>7 DEF Parted, s

(* The back before the front is a rotation.                                *)
LEMMA RotatedParts ==
  ASSUME NEW X, NEW s \in Seq(X), NEW k \in 0 .. Len(s), NEW u \in Seq(X), NEW v \in Seq(X),
           Parted(s, k, u, v)
  PROVE  v \o u \in Seq(X) /\ Rotated(s, v \o u, k)
<1> DEFINE t == v \o u
           n == Len(s)
<1>1. /\ t \in Seq(X) /\ Len(t) = Len(v) + Len(u)
      /\ \A i \in 1 .. Len(v) + Len(u) : t[i] = IF i <= Len(v) THEN v[i] ELSE u[i - Len(v)]
  BY ConcatIndex
<1>2. /\ Len(u) = k /\ Len(v) = n - k /\ k \in Int /\ n \in Int /\ 0 <= k /\ k <= n
      /\ \A i \in 1 .. k : u[i] = s[i]
      /\ \A i \in 1 .. n - k : v[i] = s[k + i]
  BY DEF Parted
<1> HIDE DEF t, n
<1>3. ASSUME NEW i \in 1 .. n
      PROVE  t[i] = IF i <= n - k THEN s[k + i] ELSE s[i - (n - k)]
  <2>1. t[i] = IF i <= n - k THEN v[i] ELSE u[i - (n - k)]
    BY <1>1, <1>2
  <2>2. CASE i <= n - k
    BY <2>1, <2>2, <1>2
  <2>3. CASE ~ (i <= n - k)
    <3> DEFINE j == i - (n - k)
    <3>1. j \in 1 .. k
      BY <2>3, <1>2
    <3>2. t[i] = u[j]
      BY <2>1, <2>3
    <3> HIDE DEF j
    <3>3. t[i] = s[j]
      BY <3>1, <3>2, <1>2
    <3> QED
      BY <2>3, <3>3 DEF j
  <2> QED
    BY <2>2, <2>3
<1>4. Len(t) = n
  BY <1>1, <1>2
<1> QED
  BY <1>1, <1>3, <1>4 DEF Rotated, t, n

(* Front, back and middle in that order are what a bulk move leaves.       *)
LEMMA BulkMovedParts ==
  ASSUME NEW X, NEW s \in Seq(X), NEW a \in 1 .. Len(s), NEW b \in a .. Len(s),
         NEW u \in Seq(X), NEW v \in Seq(X), NEW w \in Seq(X),
         Len(u) = a - 1, \A i \in 1 .. a - 1 : u[i] = s[i],
         Len(v) = Len(s) - b, \A i \in 1 .. Len(s) - b : v[i] = s[b + i],
         Len(w) = b - a + 1, \A i \in 1 .. b - a + 1 : w[i] = s[a + i - 1]
  PROVE  u \o v \o w \in Seq(X) /\ BulkMoved(s, u \o v \o w, a, b)
<1> DEFINE c == u \o v
           t == c \o w
           n == Len(s)
<1>0. n \in Int /\ a \in Int /\ b \in Int /\ 1 <= a /\ a <= b /\ b <= n
  OBVIOUS
<1>1. /\ c \in Seq(X) /\ Len(c) = Len(u) + Len(v)
      /\ \A i \in 1 .. Len(u) + Len(v) : c[i] = IF i <= Len(u) THEN u[i] ELSE v[i - Len(u)]
  BY ConcatIndex
<1> HIDE DEF c
<1>5. c \in Seq(X)
  BY <1>1
<1>2. /\ t \in Seq(X) /\ Len(t) = Len(c) + Len(w)
      /\ \A i \in 1 .. Len(c) + Len(w) : t[i] = IF i <= Len(c) THEN c[i] ELSE w[i - Len(c)]
  BY <1>5, ConcatIndex
<1> HIDE DEF t
<1>3. Len(c) = n - (b - a + 1) /\ Len(t) = n
  BY <1>0, <1>1, <1>2
<1>4. ASSUME NEW i \in 1 .. n
      PROVE  t[i] = IF i < a THEN s[i] ELSE IF i <= n - (b - a + 1) THEN s[i + (b - a + 1)]
               ELSE s[i - (n - b)]
  <2>1. CASE i < a
    <3>1. i \in 1 .. a - 1 /\ i \in 1 .. Len(u) + Len(v) /\ i <= Len(u)
            /\ i \in 1 .. Len(c) + Len(w) /\ i <= Len(c)
      BY <2>1, <1>0, <1>1, <1>2, <1>3
    <3>2. t[i] = c[i]
      BY <3>1, <1>2
    <3>3. c[i] = u[i]
      BY <3>1, <1>1
    <3>4. u[i] = s[i]
      BY <3>1
    <3> QED
      BY <2>1, <3>2, <3>3, <3>4
  <2>2. CASE ~ (i < a) /\ i <= n - (b - a + 1)
    <3> DEFINE j == i - Len(u)
    <3>1. j \in 1 .. n - b /\ b + j = i + (b - a + 1)
      BY <2>2, <1>0, <1>1, <1>2, <1>3
    <3>2. i \in 1 .. Len(u) + Len(v) /\ ~ (i <= Len(u)) /\ i \in 1 .. Len(c) + Len(w) /\ i <= Len(c)
      BY <2>2, <1>0, <1>1, <1>2, <1>3
    <3>3. t[i] = c[i]
      BY <3>2, <1>2
    <3>4. c[i] = v[j]
      BY <3>2, <1>1
    <3> HIDE DEF j
    <3>5. v[j] = s[b + j]
      BY <3>1
    <3> QED
      BY <2>2, <3>1, <3>3, <3>4, <3>5
  <2>3. CASE ~ (i < a) /\ ~ (i <= n - (b - a + 1))
    <3> DEFINE j == i - Len(c)
    <3>1. j \in 1 .. b - a + 1 /\ a + j - 1 = i - (n - b)
      BY <2>3, <1>0, <1>1, <1>2, <1>3
    <3>2. i \in 1 .. Len(c) + Len(w) /\ ~ (i <= Len(c))
      BY <2>3, <1>0, <1>1, <1>2, <1>3
    <3>3. t[i] = w[j]
      BY <3>2, <1>2
    <3> HIDE DEF j
    <3>4. w[j] = s[a + j - 1]
      BY <3>1
    <3> QED
      BY <2>3, <3>1, <3>3, <3>4
  <2> QED
    BY <2>1, <2>2, <2>3
<1> QED
  BY <1>2, <1>3, <1>4 DEF BulkMoved, t, c, n

(* Concatenation is splicing at either end.                                *)
LEMMA SplicedParts ==
  ASSUME NEW X, NEW s \in Seq(X), NEW u \in Seq(X)
  PROVE  /\ u \o s \in Seq(X) /\ Spliced(s, 0, u, u \o s)
         /\ s \o u \in Seq(X) /\ Spliced(s, Len(s), u, s \o u)
<1>1. Len(s) \in Nat /\ Len(u) \in Nat
  OBVIOUS
<1>2. /\ u \o s \in Seq(X) /\ Len(u \o s) = Len(u) + Len(s)
      /\ \A i \in 1 .. Len(u) + Len(s) : (u \o s)[i] = IF i <= Len(u) THEN u[i] ELSE s[i - Len(u)]
  BY ConcatIndex
<1>3. /\ s \o u \in Seq(X) /\ Len(s \o u) = Len(s) + Len(u)
      /\ \A i \in 1 .. Len(s) + Len(u) : (s \o u)[i] = IF i <= Len(s) THEN s[i] ELSE u[i - Len(s)]
  BY ConcatIndex
<1>4. Spliced(s, 0, u, u \o s)
  <2> DEFINE t == u \o s
  <2>1. Len(t) = Len(s) + Len(u)
          /\ \A i \in 1 .. Len(s) + Len(u) : t[i] = IF i <= Len(u) THEN u[i] ELSE s[i - Len(u)]
    BY <1>1, <1>2
  <2> HIDE DEF t
  <2>2. \A i \in 1 .. Len(s) + Len(u) :
          t[i] = IF i <= 0 THEN s[i] ELSE IF i <= 0 + Len(u) THEN u[i - 0] ELSE s[i - Len(u)]
    BY <1>1, <2>1
  <2> QED
    BY <2>1, <2>2 DEF Spliced, t
<1>5. Spliced(s, Len(s), u, s \o u)
  <2> DEFINE t == s \o u
  <2>1. Len(t) = Len(s) + Len(u)
          /\ \A i \in 1 .. Len(s) + Len(u) : t[i] = IF i <= Len(s) THEN s[i] ELSE u[i - Len(s)]
    BY <1>1, <1>3
  <2> HIDE DEF t
  <2>2. \A i \in 1 .. Len(s) + Len(u) :
          t[i] = IF i <= Len(s) THEN s[i] ELSE IF i <= Len(s) + Len(u) THEN u[i - Len(s)]
            ELSE s[i - Len(u)]
    BY <1>1, <2>1
  <2> QED
    BY <2>1, <2>2 DEF Spliced, t
<1> QED
  BY <1>2, <1>3, <1>4, <1>5

(* The entries of one list change their order.                             *)
LEMMA Rearranged ==
  ASSUME NodeAssumption, LinksInv, NEW l \in LIST_HEAD, NEW t \in Seq(Entry),
         NEW r \in Mem(Node), Ring(Node, l, t), Circle(r, l, t),
         Nodes(l, t) = Nodes(l, lists[l]), Same(m, r, Node, Nodes(l, lists[l])),
         NEW M, M = [lists EXCEPT ![l] = t], Do(r, M)
  PROVE  LinksInv'
<1> DEFINE X == {}
<1>1. Circles(m, lists) /\ lists \in [LIST_HEAD -> Seq(Entry)]
  BY DEF LinksInv, Circles
<1>2. Others(lists, M, l, l) /\ M[l] = t
  BY <1>1, SetList
<1>3. Fresh(lists, X) /\ Nodes(l, M[l]) \subseteq Nodes(l, lists[l]) \cup X
        /\ Same(m, r, Node, Nodes(l, lists[l]) \cup X)
      /\ Ring(Node, l, M[l]) /\ Circle(r, l, M[l])
  BY <1>2 DEF Fresh
<1>4. X \in SUBSET Entries(M)
  OBVIOUS
<1> HIDE DEF X
<1>5. /\ Circles(r, M) /\ Keeps(m, r, lists, X)
      /\ \A y : y \in Entries(M) <=> (y \in Entries(lists) /\ y \notin Nodes(l, lists[l]))
                  \/ (y \in Nodes(l, M[l]) /\ y # l)
  BY <1>1, <1>2, <1>3, OneList
<1>6. l \notin Entries(lists)
  BY <1>1, CirclesFacts
<1>7. \A y \in Entries(lists) \ Entries(M) : r.next[y] = y /\ r.prev[y] = y
  BY <1>2, <1>5, <1>6
<1> QED
  BY <1>4, <1>5, <1>7, Done

(* The entries of two lists change places among them.                      *)
LEMMA Exchange ==
  ASSUME NodeAssumption, LinksInv, NEW l \in LIST_HEAD, NEW z \in LIST_HEAD, l # z,
         NEW M, Others(lists, M, l, z), NEW r \in Mem(Node),
         Ring(Node, l, M[l]), Circle(r, l, M[l]), Ring(Node, z, M[z]), Circle(r, z, M[z]),
         ToSet(M[l]) \cap ToSet(M[z]) = {},
         ToSet(M[l]) \cup ToSet(M[z]) = ToSet(lists[l]) \cup ToSet(lists[z]),
         Same(m, r, Node, Nodes(l, lists[l]) \cup Nodes(z, lists[z])), Do(r, M)
  PROVE  LinksInv'
<1> DEFINE X == {}
<1>1. Circles(m, lists)
  BY DEF LinksInv
<1>2. Circles(r, M) /\ Keeps(m, r, lists, X) /\ Entries(M) = Entries(lists)
  BY <1>1, TwoLists
<1>3. X \in SUBSET Entries(M)
  OBVIOUS
<1> HIDE DEF X
<1>4. \A y \in Entries(lists) \ Entries(M) : r.next[y] = y /\ r.prev[y] = y
  BY <1>2
<1> QED
  BY <1>2, <1>3, <1>4, Done

(* What is known of one list.                                              *)
LEMMA ListFacts ==
  ASSUME NodeAssumption, LinksInv, NEW l \in LIST_HEAD
  PROVE  /\ Circles(m, lists) /\ lists \in [LIST_HEAD -> Seq(Entry)] /\ m \in Mem(Node)
         /\ lists[l] \in Seq(Entry) /\ Ring(Node, l, lists[l]) /\ Circle(m, l, lists[l])
         /\ Len(lists[l]) \in Nat /\ l \in Node
         /\ Nodes(l, lists[l]) = {l} \cup ToSet(lists[l])
         /\ \A i \in 1 .. Len(lists[l]) : lists[l][i] \in Entry /\ lists[l][i] \in Node
<1>1. Circles(m, lists) /\ lists \in [LIST_HEAD -> Seq(Entry)] /\ m \in Mem(Node)
  BY DEF LinksInv, Circles
<1>2. lists[l] \in Seq(Entry) /\ Ring(Node, l, lists[l]) /\ Circle(m, l, lists[l])
  BY <1>1 DEF Circles
<1>3. Nodes(l, lists[l]) = {l} \cup ToSet(lists[l])
  BY <1>1, CirclesFacts
<1>4. Len(lists[l]) \in Nat /\ \A i \in 1 .. Len(lists[l]) : lists[l][i] \in Entry
  BY <1>2
<1> QED
  BY <1>1, <1>2, <1>3, <1>4 DEF Node

(* Entries are nodes.                                                      *)
LEMMA EntrySeq == ASSUME NEW t \in Seq(Entry) PROVE t \in Seq(Node)
  BY DEF Node

(* BulkMove keeps the links right.                                         *)
LEMMA BulkMoveStep ==
  ASSUME NodeAssumption, LinksInv, BulkMove
  PROVE  LinksInv'
<1>1. PICK l \in LIST_HEAD : \E i \in DOMAIN lists[l] : \E j \in i .. Len(lists[l]) :
    Do(list_bulk_move_tail(m, l, lists[l][i], lists[l][j]),
       [lists EXCEPT ![l] = Upto(l, i - 1) \o From(l, j) \o SubSeq(@, i, j)])
  BY DEF BulkMove
<1> DEFINE s == lists[l]
<1>2. s \in Seq(Entry) /\ Ring(Node, l, s) /\ Circle(m, l, s) /\ Len(s) \in Nat /\ m \in Mem(Node)
  BY ListFacts
<1>3. DOMAIN s = 1 .. Len(s)
  BY <1>2
<1>4. PICK i \in 1 .. Len(s) : \E j \in i .. Len(s) :
    Do(list_bulk_move_tail(m, l, s[i], s[j]),
      [lists EXCEPT ![l] = Upto(l, i - 1) \o From(l, j) \o SubSeq(s, i, j)])
  BY <1>1, <1>3
<1>5. PICK j \in i .. Len(s) :
    Do(list_bulk_move_tail(m, l, s[i], s[j]),
      [lists EXCEPT ![l] = Upto(l, i - 1) \o From(l, j) \o SubSeq(s, i, j)])
  BY <1>4
<1> DEFINE u == Upto(l, i - 1)
           v == From(l, j)
           w == SubSeq(s, i, j)
           t == u \o v \o w
           r == list_bulk_move_tail(m, l, s[i], s[j])
           M == [lists EXCEPT ![l] = t]
           h == i - 1
<1>6. h \in 0 .. Len(lists[l]) /\ j \in 0 .. Len(lists[l]) /\ i \in 1 .. Len(s) + 1
        /\ j \in i - 1 .. Len(s)
  BY <1>2
<1>7. Upto(l, h) \in Seq(Entry) /\ Parted(lists[l], h, Upto(l, h), From(l, h))
  <2> HIDE DEF h
  <2> QED
    BY <1>2, <1>6, UptoFrom
<1>8. From(l, j) \in Seq(Entry) /\ Parted(lists[l], j, Upto(l, j), From(l, j))
  BY <1>2, <1>6, UptoFrom
<1>9. w \in Seq(Entry) /\ Len(w) = j - i + 1 /\ \A q \in 1 .. j - i + 1 : w[q] = s[i + q - 1]
  <2> HIDE DEF s
  <2> QED
    BY <1>2, <1>6, PartIndex
<1>10. u \in Seq(Entry) /\ Len(u) = i - 1 /\ \A q \in 1 .. i - 1 : u[q] = s[q]
  BY <1>7 DEF Parted
<1>11. v \in Seq(Entry) /\ Len(v) = Len(s) - j /\ \A q \in 1 .. Len(s) - j : v[q] = s[j + q]
  BY <1>8 DEF Parted
<1>12. Do(r, M)
  BY <1>5
<1> HIDE DEF u, v, w, s, h
<1>13. u \o v \o w \in Seq(Entry) /\ BulkMoved(s, u \o v \o w, i, j)
  BY <1>2, <1>9, <1>10, <1>11, BulkMovedParts
<1>14. t \in Seq(Entry) /\ t \in Seq(Node) /\ BulkMoved(s, t, i, j)
  BY <1>13, EntrySeq
<1> HIDE DEF t
<1>15. /\ r \in Mem(Node) /\ Ring(Node, l, t) /\ Circle(r, l, t)
       /\ Nodes(l, t) = Nodes(l, s)
       /\ Same(m, r, Node, Nodes(l, s))
  BY <1>2, <1>14, BulkCircle
<1>16. Nodes(l, t) = Nodes(l, lists[l]) /\ Same(m, r, Node, Nodes(l, lists[l]))
  BY <1>15 DEF s
<1> HIDE DEF r
<1> QED
  BY <1>12, <1>14, <1>15, <1>16, Rearranged

(* list_empty tells whether a list is empty.                               *)
LEMMA EmptyTest ==
  ASSUME NodeAssumption, LinksInv, NEW l \in LIST_HEAD
  PROVE  list_empty(m, l) <=> Len(lists[l]) = 0
<1> DEFINE s == lists[l]
           n == Len(s)
<1>1. Ring(Node, l, s) /\ Circle(m, l, s) /\ n \in Nat
  BY ListFacts
<1>2. /\ \A i, j \in 0 .. n : At(l, s, i) = At(l, s, j) => i = j
      /\ At(l, s, 0) = l /\ At(l, s, n + 1) = l
  BY <1>1, RingFacts
<1>3. m.next[At(l, s, 0)] = At(l, s, 0 + 1)
  BY <1>1 DEF Circle
<1> HIDE DEF n, s
<1>4. m.next[l] = At(l, s, 1)
  BY <1>2, <1>3
<1>5. CASE n = 0
  BY <1>2, <1>4, <1>5 DEF list_empty, n, s
<1>6. CASE n # 0
  <2>1. 1 \in 0 .. n /\ 0 \in 0 .. n
    BY <1>1, <1>6
  <2>2. At(l, s, 1) # l
    BY <1>2, <2>1
  <2> QED
    BY <1>4, <1>6, <2>2 DEF list_empty, n, s
<1> QED
  BY <1>5, <1>6

(* The empty sequence is the only one of length 0.                         *)
LEMMA EmptySeq == ASSUME NEW X, NEW t \in Seq(X), Len(t) = 0 PROVE t = <<>>
  OBVIOUS

(* An empty list has empty parts.                                          *)
LEMMA EmptyParts ==
  ASSUME NEW l \in LIST_HEAD, lists[l] \in Seq(Entry), Len(lists[l]) = 0
  PROVE  From(l, 1) \o Upto(l, 1) = lists[l]
<1> DEFINE s == lists[l]
<1>1. s = <<>>
  BY EmptySeq
<1>2. Min({1, 0}) = 0
  BY DEF Min
<1>3. Upto(l, 1) = SubSeq(s, 1, 0) /\ From(l, 1) = SubSeq(s, 2, 0)
  BY <1>2 DEF Upto, From
<1>4. SubSeq(s, 1, 0) = <<>> /\ SubSeq(s, 2, 0) = <<>>
  BY <1>1
<1>5. <<>> \o <<>> = <<>>
  OBVIOUS
<1> QED
  BY <1>1, <1>3, <1>4, <1>5

(* list_move_tail of the first entry of a list to its end.                 *)
LEMMA FirstToLast ==
  ASSUME NEW N, NEW mem \in Mem(N), NEW l, NEW s, Ring(N, l, s), Circle(mem, l, s), Len(s) # 0,
         NEW t \in Seq(N), Rotated(s, t, 1)
  PROVE  LET r == list_move_tail(mem, s[1], l)
         IN  /\ r \in Mem(N) /\ Ring(N, l, t) /\ Circle(r, l, t)
             /\ Nodes(l, t) = Nodes(l, s)
             /\ Same(mem, r, N, Nodes(l, s))
<1> DEFINE n == Len(s)
           x == s[1]
           d == __list_del_entry(mem, s[1])
           q == RemoveAt(s, 1)
           r == list_move_tail(mem, s[1], l)
           k == n - 1
           e == __list_add(d, x, At(l, q, k), At(l, q, k + 1))
           p == InsertAt(q, k + 1, x)
<1>1. n \in Nat /\ s \in Seq(N) /\ l \in N /\ 1 \in 1 .. Len(s) /\ \A i,
        j \in 0 .. n : At(l, s, i) = At(l, s, j) => i = j
  <2>1. n \in Nat /\ s \in Seq(N) /\ l \in N /\ \A i, j \in 0 .. n : At(l, s, i) = At(l, s, j)
          => i = j
    BY RingFacts
  <2> QED
    BY <2>1
<1>2. /\ d \in Mem(N) /\ Ring(N, l, q) /\ Circle(d, l, q)
      /\ Nodes(l, q) = Nodes(l, s) \ {s[1]}
      /\ Same(mem, d, N, Nodes(l, s))
  <2> DEFINE c == 1
  <2>1. c \in 1 .. Len(s)
    BY <1>1
  <2> HIDE DEF c
  <2>2. LET dd == __list_del_entry(mem, s[c])
            qq == RemoveAt(s, c)
        IN  /\ dd \in Mem(N) /\ Ring(N, l, qq) /\ Circle(dd, l, qq)
            /\ Nodes(l, qq) = Nodes(l, s) \ {s[c]}
            /\ Same(mem, dd, N, Nodes(l, s))
    BY <2>1, RemoveCircle
  <2> QED
    BY <2>2 DEF c
<1>3. q \in Seq(N) /\ Len(q) = n - 1 /\ \A i \in 1 .. n - 1 : q[i] = s[i + 1]
  <2> DEFINE c == 1
  <2>1. c \in 1 .. Len(s)
    BY <1>1
  <2> HIDE DEF c
  <2>2. /\ RemoveAt(s, c) \in Seq(N)
        /\ Len(RemoveAt(s, c)) = Len(s) - 1
        /\ \A i \in 1 .. Len(s) - 1 : RemoveAt(s, c)[i] = IF i < c THEN s[i] ELSE s[i + 1]
    BY <1>1, <2>1, RemoveAtIndex
  <2>3. \A i \in 1 .. Len(s) - 1 : ~ (i < c)
    BY DEF c
  <2> QED
    BY <2>2, <2>3 DEF c
<1>4. x \in Nodes(l, s) /\ x \in N
  <2>1. At(l, s, 1) = x /\ 1 \in 0 .. n + 1
    BY <1>1 DEF At
  <2> QED
    BY <2>1, RingFacts
<1> HIDE DEF q, d, n
<1>5. x \in N \ Nodes(l, q)
  BY <1>2, <1>4
<1>6. k \in 0 .. Len(q) /\ k = Len(q) /\ k + 1 = n
  BY <1>1, <1>3 DEF n
<1> HIDE DEF x, k
<1>7. /\ e \in Mem(N) /\ Ring(N, l, p) /\ Circle(e, l, p)
      /\ Nodes(l, p) = Nodes(l, q) \cup {x}
      /\ Same(d, e, N, Nodes(l, q) \cup {x})
  <2>1. d \in Mem(N) /\ Ring(N, l, q) /\ Circle(d, l, q)
    BY <1>2
  <2>2. k \in 0 .. Len(q)
    BY <1>6
  <2>3. LET ee == __list_add(d, x, At(l, q, k), At(l, q, k + 1))
            pp == InsertAt(q, k + 1, x)
        IN  /\ ee \in Mem(N) /\ Ring(N, l, pp) /\ Circle(ee, l, pp)
            /\ Nodes(l, pp) = Nodes(l, q) \cup {x}
            /\ Same(d, ee, N, Nodes(l, q) \cup {x})
    BY <1>5, <2>1, <2>2, AddCircle
  <2> QED
    BY <2>3
<1>8. e = r
  <2>1. At(l, q, k + 1) = l
    BY <1>2, <1>6, RingFacts
  <2>2. d.prev[At(l, q, k + 1)] = At(l, q, k)
    BY <1>2, <1>6 DEF Circle
  <2> QED
    BY <2>1, <2>2 DEF list_move_tail, list_add_tail, d, x
<1>9. p = t
  <2> DEFINE c == k + 1
  <2>1. c \in 1 .. Len(q) + 1 /\ x \in N /\ c = n
    BY <1>1, <1>4, <1>6
  <2> HIDE DEF c
  <2>2. InsertAt(q, c, x) \in Seq(N) /\ Len(InsertAt(q, c, x)) = Len(q) + 1
        /\ \A i \in 1 .. Len(q) + 1 : InsertAt(q, c, x)[i] = IF i < c THEN q[i]
                                        ELSE IF i = c THEN x ELSE q[i - 1]
    BY <1>3, <2>1, InsertAtIndex
  <2>3. p \in Seq(N) /\ Len(p) = n /\ \A i \in 1 .. n : p[i] = IF i < n THEN q[i] ELSE x
    BY <1>1, <1>3, <2>1, <2>2 DEF c
  <2>4. Len(t) = n /\ \A i \in 1 .. n : t[i] = IF i <= n - 1 THEN s[1 + i] ELSE s[i - (n - 1)]
    BY DEF Rotated, n
  <2> HIDE DEF p
  <2>5. ASSUME NEW i \in 1 .. n PROVE t[i] = p[i]
    <3>1. CASE i < n
      <4>1. i <= n - 1 /\ i \in 1 .. n - 1 /\ 1 + i = i + 1
        BY <3>1, <1>1
      <4> QED
        BY <3>1, <4>1, <2>3, <2>4, <1>3
    <3>2. CASE ~ (i < n)
      <4>1. ~ (i <= n - 1) /\ i - (n - 1) = 1
        BY <3>2, <1>1
      <4> QED
        BY <3>2, <4>1, <2>3, <2>4 DEF x
    <3> QED
      BY <3>1, <3>2
  <2> QED
    BY <2>3, <2>4, <2>5
<1>10. Nodes(l, t) = Nodes(l, s)
  BY <1>2, <1>4, <1>7, <1>9 DEF x
<1>11. Same(mem, e, N, Nodes(l, s))
  BY <1>2, <1>4, <1>7 DEF Same
<1> HIDE DEF e, p
<1> QED
  BY <1>7, <1>8, <1>9, <1>10, <1>11

(* Rotate keeps the links right.                                           *)
LEMMA RotateStep ==
  ASSUME NodeAssumption, LinksInv, Rotate
  PROVE  LinksInv'
<1>1. PICK l \in LIST_HEAD :
    \/ Do(list_rotate_left(m, l), [lists EXCEPT ![l] = From(l, 1) \o Upto(l, 1)])
    \/ \E x \in In(l) :
         LET k == PlaceBefore(l, x)
         IN  Do(list_rotate_to_front(m, x, l), [lists EXCEPT ![l] = From(l, k) \o Upto(l, k)])
  BY DEF Rotate
<1> DEFINE s == lists[l]
<1>2. s \in Seq(Entry) /\ Ring(Node, l, s) /\ Circle(m, l, s) /\ Len(s) \in Nat
        /\ m \in Mem(Node) /\ Circles(m, lists)
  BY ListFacts
<1>3. ASSUME NEW k \in 0 .. Len(s)
      PROVE  LET t == From(l, k) \o Upto(l, k) IN t \in Seq(Entry) /\ t \in Seq(Node)
               /\ Rotated(s, t, k)
  <2> DEFINE u == Upto(l, k)
             v == From(l, k)
  <2>1. u \in Seq(Entry) /\ v \in Seq(Entry) /\ Parted(s, k, u, v)
    BY <1>2, <1>3, UptoFrom
  <2>3. k \in 0 .. Len(s)
    BY <1>3
  <2> HIDE DEF u, v, s
  <2>2. v \o u \in Seq(Entry) /\ Rotated(s, v \o u, k)
    BY <1>2, <2>1, <2>3, RotatedParts
  <2> QED
    BY <2>2, EntrySeq DEF u, v
<1>4. ASSUME Do(list_rotate_left(m, l), [lists EXCEPT ![l] = From(l, 1) \o Upto(l, 1)])
      PROVE  LinksInv'
  <2> DEFINE t == From(l, 1) \o Upto(l, 1)
             M == [lists EXCEPT ![l] = t]
             r == list_rotate_left(m, l)
  <2>1. CASE Len(s) = 0
    <3>1. r = m
      BY <2>1, EmptyTest DEF list_rotate_left
    <3>2. t = s
      BY <1>2, <2>1, EmptyParts
    <3>3. Same(m, m, Node, Nodes(l, lists[l]))
      BY DEF Same
    <3>4. Do(m, M)
      BY <1>4, <3>1
    <3> HIDE DEF t
    <3>5. /\ t \in Seq(Entry) /\ Ring(Node, l, t) /\ Circle(m, l, t)
               /\ Nodes(l, t) = Nodes(l, lists[l])
      BY <1>2, <3>2
    <3> QED
      BY <1>2, <3>3, <3>4, <3>5, Rearranged
  <2>2. CASE Len(s) # 0
    <3> DEFINE k == 1
    <3>1. k \in 0 .. Len(s)
      BY <1>2, <2>2
    <3>2. t \in Seq(Entry) /\ t \in Seq(Node) /\ Rotated(s, t, 1)
      <4> HIDE DEF k
      <4>1. LET tt == From(l, k) \o Upto(l, k) IN tt \in Seq(Entry) /\ tt \in Seq(Node)
              /\ Rotated(s, tt, k)
        BY <3>1, <1>3
      <4> QED
        BY <4>1 DEF k
    <3>3. m.next[l] = s[1]
      <4>1. At(l, s, 0) = l /\ 0 \in 0 .. Len(s) /\ At(l, s, 0 + 1) = s[1]
        BY <1>2, <2>2 DEF At
      <4>2. m.next[At(l, s, 0)] = At(l, s, 0 + 1)
        BY <1>2, <4>1 DEF Circle
      <4> QED
        BY <4>1, <4>2
    <3>4. r = list_move_tail(m, s[1], l)
      BY <2>2, <3>3, EmptyTest DEF list_rotate_left
    <3>5. Do(r, M)
      BY <1>4
    <3> HIDE DEF t, r, s
    <3>6. /\ r \in Mem(Node) /\ Ring(Node, l, t) /\ Circle(r, l, t)
          /\ Nodes(l, t) = Nodes(l, s) /\ Same(m, r, Node, Nodes(l, s))
      BY <1>2, <2>2, <3>2, <3>4, FirstToLast
    <3>7. Nodes(l, t) = Nodes(l, lists[l]) /\ Same(m, r, Node, Nodes(l, lists[l]))
      BY <3>6 DEF s
    <3> QED
      BY <3>2, <3>5, <3>6, <3>7, Rearranged
  <2> QED
    BY <2>1, <2>2
<1>5. ASSUME NEW x \in In(l),
             Do(list_rotate_to_front(m, x, l),
               [lists EXCEPT ![l] = From(l, PlaceBefore(l, x)) \o Upto(l, PlaceBefore(l, x))])
      PROVE  LinksInv'
  <2> DEFINE k == PlaceBefore(l, x)
             t == From(l, k) \o Upto(l, k)
             M == [lists EXCEPT ![l] = t]
             r == list_rotate_to_front(m, x, l)
  <2>0. x \in ToSet(s) /\ x # l
    <3>1. x \in ToSet(s)
      BY <1>5 DEF In
    <3>2. ToSet(s) \subseteq Entry
      BY <1>2 DEF ToSet
    <3> QED
      BY <3>1, <3>2 DEF NodeAssumption
  <2>1. k \in 0 .. Len(s) /\ At(l, s, k + 1) = x /\ k # Len(s)
    BY <1>2, <1>5, <2>0, FoundPlaceBefore
  <2>2. t \in Seq(Entry) /\ t \in Seq(Node) /\ Rotated(s, t, k)
    BY <1>3, <2>1
  <2>3. Do(r, M)
    BY <1>5
  <2> HIDE DEF k, s, t
  <2>4. k \in 0 .. Len(s) - 1 /\ k + 1 \in 1 .. Len(s)
    BY <1>2, <2>1
  <2>5. s[k + 1] = x
    BY <2>1, <2>4 DEF At
  <2>6. r = list_move_tail(m, l, s[k + 1])
    BY <2>5 DEF list_rotate_to_front
  <2> HIDE DEF r
  <2>7. /\ r \in Mem(Node) /\ Ring(Node, l, t) /\ Circle(r, l, t)
        /\ Nodes(l, t) = Nodes(l, s) /\ Same(m, r, Node, Nodes(l, s))
    BY <1>2, <2>2, <2>4, <2>6, RotateCircle
  <2>8. Nodes(l, t) = Nodes(l, lists[l]) /\ Same(m, r, Node, Nodes(l, lists[l]))
    BY <2>7 DEF s
  <2> QED
    BY <2>2, <2>3, <2>7, <2>8, Rearranged
<1> QED
  BY <1>1, <1>4, <1>5

-----------------------------------------------------------------------------
(* Cut *)

(* A head that points to itself is an empty list.                          *)
LEMMA EmptyCircle ==
  ASSUME NEW N, NEW z \in N, NEW r, r.next[z] = z, r.prev[z] = z
  PROVE  Ring(N, z, <<>>) /\ Circle(r, z, <<>>) /\ Nodes(z, <<>>) = {z} /\ ToSet(<<>>) = {}
<1> DEFINE e == <<>>
<1>1. e \in Seq(N) /\ Len(e) = 0 /\ \A i \in Int : At(z, e, i) = z
  BY DEF At
<1>2. ToSet(e) = {}
  BY DEF ToSet
<1> HIDE DEF e
<1>3. \A i, j \in 0 .. 0 : i = j
  OBVIOUS
<1>4. Ring(N, z, e)
  BY <1>1, <1>3 DEF Ring
<1>5. Circle(r, z, e)
  <2>1. 0 \in Int /\ 1 \in Int /\ \A i \in 0 .. 0 : i \in Int /\ i + 1 \in Int
    OBVIOUS
  <2> QED
    BY <1>1, <2>1 DEF Circle
<1>7. e \in Seq(N)
  BY <1>1
<1>6. Nodes(z, e) = {z} \cup ToSet(e)
  BY <1>7, NodesSet
<1> QED
  BY <1>2, <1>4, <1>5, <1>6 DEF e

(* The links of an empty list.                                             *)
LEMMA EmptyLinks ==
  ASSUME NodeAssumption, LinksInv, NEW z \in LIST_HEAD, lists[z] = <<>>
  PROVE  m.next[z] = z /\ m.prev[z] = z /\ Nodes(z, lists[z]) = {z}
<1> DEFINE s == lists[z]
<1>1. Circle(m, z, s) /\ Len(s) = 0 /\ z \in Node
  BY ListFacts
<1>2. At(z, s, 0) = z /\ At(z, s, 0 + 1) = z /\ 0 \in 0 .. 0
  BY <1>1 DEF At
<1> HIDE DEF s
<1>3. m.next[At(z, s, 0)] = At(z, s, 0 + 1) /\ m.prev[At(z, s, 0 + 1)] = At(z, s, 0)
  BY <1>1, <1>2 DEF Circle
<1>4. m.next[z] = z /\ m.prev[z] = z
  BY <1>2, <1>3
<1> QED
  BY <1>1, <1>4, EmptyCircle

(* Two sequences take the places of two others.                            *)
LEMMA SetLists ==
  ASSUME NEW L \in [LIST_HEAD -> Seq(Entry)], NEW l \in LIST_HEAD, NEW z \in LIST_HEAD, l # z,
         NEW u \in Seq(Entry), NEW v \in Seq(Entry)
  PROVE  /\ Others(L, [L EXCEPT ![z] = u, ![l] = v], l, z)
         /\ [L EXCEPT ![z] = u, ![l] = v][l] = v
         /\ [L EXCEPT ![z] = u, ![l] = v][z] = u
  BY DEF Others

(* The two parts of a list have its entries.                               *)
LEMMA PartedSets ==
  ASSUME NEW X, NEW s \in Seq(X), NEW k \in 0 .. Len(s), NEW u \in Seq(X), NEW v \in Seq(X),
           Parted(s, k, u, v)
  PROVE  ToSet(u) \cup ToSet(v) = ToSet(s)
<1> DEFINE n == Len(s)
<1>1. /\ Len(u) = k /\ Len(v) = n - k /\ k \in Int /\ n \in Int /\ 0 <= k /\ k <= n
      /\ \A i \in 1 .. k : u[i] = s[i]
      /\ \A i \in 1 .. n - k : v[i] = s[k + i]
  BY DEF Parted
<1>2. DOMAIN s = 1 .. n /\ DOMAIN u = 1 .. k /\ DOMAIN v = 1 .. n - k
  BY <1>1
<1> HIDE DEF n
<1>3. \A y : y \in ToSet(s) <=> \E i \in 1 .. n : s[i] = y
  BY <1>2 DEF ToSet
<1>4. \A y : y \in ToSet(u) <=> \E i \in 1 .. k : u[i] = y
  BY <1>2 DEF ToSet
<1>5. \A y : y \in ToSet(v) <=> \E i \in 1 .. n - k : v[i] = y
  BY <1>2 DEF ToSet
<1>6. ASSUME NEW y, y \in ToSet(s)
      PROVE  y \in ToSet(u) \/ y \in ToSet(v)
  <2>1. PICK i \in 1 .. n : s[i] = y
    BY <1>3, <1>6
  <2>2. CASE i <= k
    BY <2>1, <2>2, <1>1, <1>4
  <2>3. CASE ~ (i <= k)
    <3> DEFINE j == i - k
    <3>1. j \in 1 .. n - k /\ k + j = i
      BY <2>3, <1>1
    <3> HIDE DEF j
    <3>2. v[j] = y
      BY <3>1, <1>1, <2>1
    <3> QED
      BY <3>1, <3>2, <1>5
  <2> QED
    BY <2>2, <2>3
<1>7. ASSUME NEW y, y \in ToSet(u)
      PROVE  y \in ToSet(s)
  <2>1. PICK i \in 1 .. k : u[i] = y
    BY <1>4, <1>7
  <2>2. i \in 1 .. n /\ s[i] = y
    BY <2>1, <1>1
  <2> QED
    BY <2>2, <1>3
<1>8. ASSUME NEW y, y \in ToSet(v)
      PROVE  y \in ToSet(s)
  <2>1. PICK i \in 1 .. n - k : v[i] = y
    BY <1>5, <1>8
  <2> DEFINE j == k + i
  <2>2. j \in 1 .. n
    BY <1>1
  <2>3. s[j] = y
    BY <2>1, <1>1
  <2> HIDE DEF j
  <2> QED
    BY <2>2, <2>3, <1>3
<1> QED
  BY <1>6, <1>7, <1>8

(* CutCircle, in terms of entries.                                         *)
LEMMA CutApart ==
  ASSUME NEW N, NEW mem \in Mem(N), NEW l, NEW s, Ring(N, l, s), Circle(mem, l, s),
         NEW z \in N \ Nodes(l, s), NEW k \in 1 .. Len(s),
         NEW u \in Seq(N), NEW v \in Seq(N), Parted(s, k, u, v),
         NEW r \in Mem(N), CutLinked(mem, r, N, l, s, z, k)
  PROVE  /\ Ring(N, z, u) /\ Circle(r, z, u) /\ Ring(N, l, v) /\ Circle(r, l, v)
         /\ ToSet(u) \cap ToSet(v) = {} /\ Same(mem, r, N, Nodes(l, s) \cup Only(z))
<1>1. /\ Ring(N, z, u) /\ Circle(r, z, u) /\ Nodes(z, u) \subseteq Nodes(l, s) \cup {z}
      /\ Ring(N, l, v) /\ Circle(r, l, v) /\ Nodes(l, v) \subseteq Nodes(l, s)
      /\ Nodes(z, u) \cap Nodes(l, v) = {}
      /\ Same(mem, r, N, Nodes(l, s) \cup {z})
  BY CutCircle
<1>2. Nodes(z, u) = {z} \cup ToSet(u) /\ Nodes(l, v) = {l} \cup ToSet(v)
  BY NodesSet
<1> QED
  BY <1>1, <1>2 DEF Only

(* What a cut has to show: k entries of l have moved to z, or none has and *)
(* no link has changed.                                                    *)
LEMMA CutDone ==
  ASSUME NodeAssumption, LinksInv, NEW l \in LIST_HEAD, NEW z \in LIST_HEAD, l # z, lists[z] = <<>>,
         NEW k \in 0 .. Len(lists[l]), NEW r \in Mem(Node),
         \/ k = 0 /\ Same(m, r, Node, {})
         \/ k # 0 /\ CutLinked(m, r, Node, l, lists[l], z, k),
         Do(r, [lists EXCEPT ![z] = Upto(l, k), ![l] = From(l, k)])
  PROVE  LinksInv'
<1> DEFINE s == lists[l]
           u == Upto(l, k)
           v == From(l, k)
           M == [lists EXCEPT ![z] = u, ![l] = v]
<1>1. s \in Seq(Entry) /\ Ring(Node, l, s) /\ Circle(m, l, s) /\ Len(s) \in Nat /\ m \in Mem(Node)
      /\ Circles(m, lists) /\ lists \in [LIST_HEAD -> Seq(Entry)] /\ l \in Node
           /\ Nodes(l, s) = {l} \cup ToSet(s)
  BY ListFacts
<1>2. m.next[z] = z /\ m.prev[z] = z /\ Nodes(z, lists[z]) = {z} /\ ToSet(lists[z]) = {}
        /\ z \in Node
  <2>1. m.next[z] = z /\ m.prev[z] = z /\ Nodes(z, lists[z]) = {z} /\ z \in Node
    BY EmptyLinks DEF Node
  <2>2. ToSet(lists[z]) = {}
    BY DEF ToSet
  <2> QED
    BY <2>1, <2>2
<1>3. u \in Seq(Entry) /\ v \in Seq(Entry) /\ Parted(s, k, u, v)
  BY <1>1, UptoFrom
<1>4. ToSet(u) \cup ToSet(v) = ToSet(s)
  <2> HIDE DEF s, u, v
  <2>1. k \in 0 .. Len(s)
    BY DEF s
  <2> QED
    BY <1>1, <1>3, <2>1, PartedSets
<1>5. u \in Seq(Node) /\ v \in Seq(Node)
  BY <1>3, EntrySeq
<1>6. Do(r, M)
  OBVIOUS
<1> HIDE DEF u, v
<1>7. Others(lists, M, l, z) /\ M[l] = v /\ M[z] = u
  BY <1>1, <1>3, SetLists
<1> HIDE DEF M
<1>8. z \in Node \ Nodes(l, s) /\ l \notin ToSet(v) /\ z \notin ToSet(u)
  <2>1. ToSet(s) \subseteq Entry
    BY <1>1 DEF ToSet
  <2> QED
    BY <2>1, <1>1, <1>2, <1>4 DEF NodeAssumption
<1>9. /\ Ring(Node, l, v) /\ Circle(r, l, v) /\ Ring(Node, z, u) /\ Circle(r, z, u)
      /\ ToSet(u) \cap ToSet(v) = {} /\ Same(m, r, Node, Nodes(l, s) \cup {z})
  <2>1. CASE k = 0 /\ Same(m, r, Node, {})
    <3>1. u = <<>>
      BY <1>3, <2>1, EmptySeq DEF Parted
    <3>2. v = s
      <4>1. Len(v) = Len(s) /\ \A i \in 1 .. Len(s) : v[i] = s[i]
        BY <1>1, <1>3, <2>1 DEF Parted
      <4> QED
        BY <4>1, <1>1, <1>3
    <3>3. \A y \in Node : r.next[y] = m.next[y] /\ r.prev[y] = m.prev[y]
      BY <2>1 DEF Same
    <3>4. Ring(Node, z, u) /\ Circle(r, z, u) /\ ToSet(u) = {}
      BY <1>2, <3>1, <3>3, EmptyCircle
    <3>5. Circle(r, l, s)
      <4>1. \A i \in 0 .. Len(s) + 1 : At(l, s, i) \in Node
        BY <1>1, RingFacts
      <4>2. \A i \in 0 .. Len(s) : i \in 0 .. Len(s) + 1 /\ i + 1 \in 0 .. Len(s) + 1
        BY <1>1
      <4> HIDE DEF s
      <4> QED
        BY <1>1, <3>3, <4>1, <4>2 DEF Circle
    <3>6. Same(m, r, Node, Nodes(l, s) \cup {z})
      BY <3>3 DEF Same
    <3> QED
      BY <1>1, <3>2, <3>4, <3>5, <3>6
  <2>2. CASE k # 0 /\ CutLinked(m, r, Node, l, lists[l], z, k)
    <3>1. k \in 1 .. Len(s)
      BY <1>1, <2>2
    <3>2. CutLinked(m, r, Node, l, s, z, k)
      BY <2>2
    <3>5. Ring(Node, l, s) /\ Circle(m, l, s) /\ m \in Mem(Node) /\ z \in Node \ Nodes(l, s)
      BY <1>1, <1>8
    <3>6. u \in Seq(Node) /\ v \in Seq(Node) /\ Parted(s, k, u, v)
      BY <1>3, <1>5
    <3> HIDE DEF s
    <3>3. /\ Ring(Node, z, u) /\ Circle(r, z, u) /\ Ring(Node, l, v) /\ Circle(r, l, v)
          /\ ToSet(u) \cap ToSet(v) = {} /\ Same(m, r, Node, Nodes(l, s) \cup Only(z))
      BY <3>1, <3>2, <3>5, <3>6, CutApart
    <3> QED
      BY <3>3 DEF Only
  <2> QED
    BY <2>1, <2>2
<1>10. Same(m, r, Node, Nodes(l, lists[l]) \cup Nodes(z, lists[z]))
  BY <1>2, <1>9
<1>11. /\ Ring(Node, l, M[l]) /\ Circle(r, l, M[l]) /\ Ring(Node, z, M[z]) /\ Circle(r, z, M[z])
       /\ ToSet(M[l]) \cap ToSet(M[z]) = {}
       /\ ToSet(M[l]) \cup ToSet(M[z]) = ToSet(lists[l]) \cup ToSet(lists[z])
  BY <1>2, <1>4, <1>7, <1>9
<1> QED
  BY <1>6, <1>7, <1>10, <1>11, Exchange

(* INIT_LIST_HEAD of an empty list.                                        *)
LEMMA InitAgain ==
  ASSUME NodeAssumption, LinksInv, NEW z \in LIST_HEAD, lists[z] = <<>>
  PROVE  INIT_LIST_HEAD(m, z) \in Mem(Node) /\ Same(m, INIT_LIST_HEAD(m, z), Node, {})
<1> DEFINE r == INIT_LIST_HEAD(m, z)
<1>1. m.next[z] = z /\ m.prev[z] = z /\ z \in Node /\ m \in Mem(Node)
  BY EmptyLinks, ListFacts
<1>2. /\ r \in Mem(Node)
      /\ \A y \in Node : /\ r.next[y] = IF y = z THEN z ELSE m.next[y]
                         /\ r.prev[y] = IF y = z THEN z ELSE m.prev[y]
  BY <1>1, SelfLink
<1> HIDE DEF r
<1>3. r \in Mem(Node) /\ Same(m, r, Node, {})
  BY <1>1, <1>2 DEF Same
<1> QED
  BY <1>3 DEF r

(* Place k of the list of l and the links on both sides of it.             *)
LEMMA PlaceLinks ==
  ASSUME NodeAssumption, LinksInv, NEW l \in LIST_HEAD, NEW k \in 0 .. Len(lists[l])
  PROVE  /\ At(l, lists[l], k) \in Node /\ At(l, lists[l], k + 1) \in Node
         /\ m.next[At(l, lists[l], k)] = At(l, lists[l], k + 1)
         /\ m.prev[At(l, lists[l], k + 1)] = At(l, lists[l], k)
         /\ m.next[l] = At(l, lists[l], 1) /\ At(l, lists[l], 1) \in Node
         /\ k # 0 => At(l, lists[l], k) # l /\ At(l, lists[l], k + 1) # At(l, lists[l], 1)
<1> DEFINE s == lists[l]
           n == Len(s)
<1>1. Ring(Node, l, s) /\ Circle(m, l, s) /\ n \in Nat
  BY ListFacts
<1>2. /\ \A i \in 0 .. n + 1 : At(l, s, i) \in Node
      /\ \A i, j \in 0 .. n : At(l, s, i) = At(l, s, j) => i = j
      /\ \A i, j \in 1 .. n + 1 : At(l, s, i) = At(l, s, j) => i = j
      /\ At(l, s, 0) = l
  BY <1>1, RingFacts
<1>4. k \in 0 .. n
  OBVIOUS
<1> HIDE DEF n
<1> DEFINE c == k + 1
<1>5. c \in 1 .. n + 1 /\ c \in 0 .. n + 1 /\ 1 \in 0 .. n + 1 /\ 1 \in 1 .. n + 1
        /\ 0 \in 0 .. n /\ k \in 0 .. n + 1 /\ (k # 0 => c # 1)
  BY <1>1, <1>4
<1> HIDE DEF s
<1>6. m.next[At(l, s, k)] = At(l, s, c) /\ m.prev[At(l, s, c)] = At(l, s, k)
  BY <1>1, <1>4 DEF Circle, n
<1>7. m.next[At(l, s, 0)] = At(l, s, 0 + 1)
  BY <1>1, <1>5 DEF Circle, n
<1> HIDE DEF c
<1>8. /\ At(l, s, k) \in Node /\ At(l, s, c) \in Node
      /\ m.next[l] = At(l, s, 1) /\ At(l, s, 1) \in Node
      /\ k # 0 => At(l, s, k) # l /\ At(l, s, c) # At(l, s, 1)
  BY <1>2, <1>4, <1>5, <1>7
<1> QED
  BY <1>6, <1>8 DEF s, c

(* Cut keeps the links right.                                              *)
LEMMA CutStep ==
  ASSUME NodeAssumption, LinksInv, Cut
  PROVE  LinksInv'
<1>1. PICK z \in LIST_HEAD, l \in LIST_HEAD : \E pos \in {l} \cup In(l) :
    /\ z # l /\ lists[z] = <<>>
    /\ \/ LET k == Place(l, pos)
          IN  Do(list_cut_position(m, z, l, pos),
                [lists EXCEPT ![z] = Upto(l, k), ![l] = From(l, k)])
       \/ LET k == PlaceBefore(l, pos)
          IN  Do(list_cut_before(m, z, l, pos), [lists EXCEPT ![z] = Upto(l, k), ![l] = From(l, k)])
  BY DEF Cut
<1>2. PICK pos \in {l} \cup In(l) :
    /\ z # l /\ lists[z] = <<>>
    /\ \/ LET k == Place(l, pos)
          IN  Do(list_cut_position(m, z, l, pos),
                [lists EXCEPT ![z] = Upto(l, k), ![l] = From(l, k)])
       \/ LET k == PlaceBefore(l, pos)
          IN  Do(list_cut_before(m, z, l, pos), [lists EXCEPT ![z] = Upto(l, k), ![l] = From(l, k)])
  BY <1>1
<1> DEFINE s == lists[l]
           n == Len(s)
<1>3. Ring(Node, l, s) /\ Circle(m, l, s) /\ n \in Nat /\ m \in Mem(Node) /\ Circles(m, lists)
  BY ListFacts
<1>4. z \in Node /\ l \in Node /\ z # l /\ z \notin Entry
  BY <1>2 DEF Node, NodeAssumption
<1>5. INIT_LIST_HEAD(m, z) \in Mem(Node) /\ Same(m, INIT_LIST_HEAD(m, z), Node, {})
        /\ Same(m, m, Node, {})
  BY <1>2, InitAgain DEF Same
<1>6. ASSUME NEW k \in 0 .. n, NEW r \in Mem(Node),
             \/ k = 0 /\ Same(m, r, Node, {})
             \/ k # 0 /\ CutLinked(m, r, Node, l, s, z, k),
             Do(r, [lists EXCEPT ![z] = Upto(l, k), ![l] = From(l, k)])
      PROVE  LinksInv'
  BY <1>2, <1>6, CutDone
<1>7. CASE LET k == Place(l, pos)
           IN  Do(list_cut_position(m, z, l, pos),
                 [lists EXCEPT ![z] = Upto(l, k), ![l] = From(l, k)])
  <2> DEFINE k == Place(l, pos)
             r == list_cut_position(m, z, l, pos)
  <2>1. k \in 0 .. n /\ At(l, s, k) = pos /\ m.next[pos] = At(l, s, k + 1) /\ (pos # l => k # 0)
    BY <1>3, FoundPlace
  <2>2. Do(r, [lists EXCEPT ![z] = Upto(l, k), ![l] = From(l, k)])
    BY <1>7
  <2>3. pos = l => k = 0
    BY DEF Place
  <2> HIDE DEF k
  <2>4. /\ At(l, s, k) \in Node /\ At(l, s, k + 1) \in Node
        /\ m.next[l] = At(l, s, 1) /\ At(l, s, 1) \in Node
    BY <2>1, PlaceLinks
  <2>5. CASE k = 0
    <3>1. pos = l
      BY <2>1, <2>5
    <3>2. r = m \/ r = INIT_LIST_HEAD(m, z)
      BY <3>1 DEF list_cut_position, list_is_head
    <3>3. r \in Mem(Node) /\ Same(m, r, Node, {})
      BY <1>3, <1>5, <3>2
    <3> HIDE DEF r
    <3> QED
      BY <1>6, <2>1, <2>2, <2>5, <3>3
  <2>6. CASE k # 0
    <3>1. pos # l /\ n # 0
      BY <1>3, <2>1, <2>3, <2>6
    <3>2. ~ list_empty(m, l)
      BY <3>1, EmptyTest
    <3>3. list_is_singular(m, l) => pos = m.next[l]
      <4> SUFFICES ASSUME list_is_singular(m, l) PROVE pos = m.next[l]
        OBVIOUS
      <4>1. m.next[l] = m.prev[l]
        BY DEF list_is_singular
      <4>2. m.prev[l] = At(l, s, n) /\ At(l, s, n) \in Nodes(l, s)
        <5>1. n \in 0 .. n /\ At(l, s, n + 1) = l
          BY <1>3, RingFacts
        <5>2. m.prev[At(l, s, n + 1)] = At(l, s, n)
          BY <1>3, <5>1 DEF Circle
        <5>3. At(l, s, n) \in Nodes(l, s)
          BY <5>1 DEF Nodes
        <5> QED
          BY <5>1, <5>2, <5>3
      <4>3. \A i, j \in 0 .. n : At(l, s, i) = At(l, s, j) => i = j
        BY <1>3, RingFacts
      <4>4. 1 \in 0 .. n /\ n \in 0 .. n
        BY <1>3, <3>1
      <4> HIDE DEF n, s
      <4>5. n = 1
        BY <2>4, <4>1, <4>2, <4>3, <4>4
      <4>6. k = 1
        BY <2>1, <2>6, <4>5
      <4> QED
        BY <2>1, <2>4, <4>6
    <3>4. r = __list_cut_position(m, z, l, pos)
      BY <3>1, <3>2, <3>3 DEF list_cut_position, list_is_head
    <3>5. pos \in Node /\ m.next[l] \in Node /\ m.next[pos] \in Node
      BY <2>1, <2>4
    <3> HIDE DEF r
    <3>6. /\ r \in Mem(Node)
          /\ \A y \in Node :
               /\ r.next[y] = IF y = l THEN m.next[pos] ELSE IF y = pos THEN z
                              ELSE IF y = z THEN m.next[l] ELSE m.next[y]
               /\ r.prev[y] = IF y = m.next[pos] THEN l ELSE IF y = z THEN pos
                              ELSE IF y = m.next[l] THEN z ELSE m.prev[y]
      BY <1>3, <1>4, <3>4, <3>5, CutLinks
    <3> HIDE DEF s, n
    <3>7. CutLinked(m, r, Node, l, s, z, k)
      BY <2>1, <2>4, <3>6 DEF CutLinked
    <3> QED
      BY <1>6, <2>1, <2>2, <2>6, <3>6, <3>7
  <2> QED
    BY <2>5, <2>6
<1>8. CASE LET k == PlaceBefore(l, pos)
           IN  Do(list_cut_before(m, z, l, pos),
                 [lists EXCEPT ![z] = Upto(l, k), ![l] = From(l, k)])
  <2> DEFINE k == PlaceBefore(l, pos)
             r == list_cut_before(m, z, l, pos)
  <2>1. k \in 0 .. n /\ At(l, s, k + 1) = pos /\ m.prev[pos] = At(l, s, k)
    BY <1>3, FoundPlaceBefore
  <2>2. Do(r, [lists EXCEPT ![z] = Upto(l, k), ![l] = From(l, k)])
    BY <1>8
  <2> HIDE DEF k
  <2>4. /\ At(l, s, k) \in Node /\ At(l, s, k + 1) \in Node
        /\ m.next[l] = At(l, s, 1) /\ At(l, s, 1) \in Node
        /\ k # 0 => At(l, s, k + 1) # At(l, s, 1)
    BY <2>1, PlaceLinks
  <2>5. CASE k = 0
    <3>1. m.next[l] = pos
      BY <2>1, <2>4, <2>5
    <3>2. r = INIT_LIST_HEAD(m, z)
      BY <3>1 DEF list_cut_before
    <3>3. r \in Mem(Node) /\ Same(m, r, Node, {})
      BY <1>5, <3>2
    <3> HIDE DEF r
    <3> QED
      BY <1>6, <2>1, <2>2, <2>5, <3>3
  <2>6. CASE k # 0
    <3>1. m.next[l] # pos /\ pos \in Node /\ m.next[l] \in Node /\ m.prev[pos] \in Node
      BY <2>1, <2>4, <2>6
    <3>2. z # pos
      <4>1. pos = l \/ pos \in ToSet(s)
        BY DEF In
      <4>2. ToSet(s) \subseteq Entry
        BY <1>3, CirclesFacts
      <4> QED
        BY <1>4, <4>1, <4>2
    <3> HIDE DEF r
    <3>6. /\ r \in Mem(Node)
          /\ \A y \in Node :
               /\ r.next[y] = IF y = l THEN pos ELSE IF y = m.prev[pos] THEN z
                              ELSE IF y = z THEN m.next[l] ELSE m.next[y]
               /\ r.prev[y] = IF y = pos THEN l ELSE IF y = z THEN m.prev[pos]
                              ELSE IF y = m.next[l] THEN z ELSE m.prev[y]
      BY <1>3, <1>4, <3>1, <3>2, CutBeforeLinks DEF r
    <3> HIDE DEF s, n
    <3>7. CutLinked(m, r, Node, l, s, z, k)
      BY <2>1, <2>4, <3>6 DEF CutLinked
    <3> QED
      BY <1>6, <2>1, <2>2, <2>6, <3>6, <3>7
  <2> QED
    BY <2>5, <2>6
<1> QED
  BY <1>2, <1>7, <1>8

-----------------------------------------------------------------------------
(* Splice *)

(* What a splice of the list of z into that of l has to show.              *)
LEMMA SpliceDone ==
  ASSUME NodeAssumption, LinksInv, NEW l \in LIST_HEAD, NEW z \in LIST_HEAD, l # z,
         Len(lists[z]) # 0, NEW k \in 0 .. Len(lists[l]),
         NEW t \in Seq(Entry), Spliced(lists[l], k, lists[z], t),
         NEW M, Others(lists, M, l, z), M[l] = t, M[z] = <<>>,
         Do(INIT_LIST_HEAD(__list_splice(m, z, At(l, lists[l], k), At(l, lists[l], k + 1)), z), M)
  PROVE  LinksInv'
<1> DEFINE s == lists[l]
           u == lists[z]
           r == INIT_LIST_HEAD(__list_splice(m, z, At(l, s, k), At(l, s, k + 1)), z)
<1>1. Ring(Node, l, s) /\ Circle(m, l, s) /\ m \in Mem(Node) /\ Circles(m, lists) /\ l \in Node
  BY ListFacts
<1>2. Ring(Node, z, u) /\ Circle(m, z, u) /\ Len(u) # 0 /\ z \in Node
  BY ListFacts
<1>3. /\ Nodes(l, s) \cap Nodes(z, u) = {}
      /\ Nodes(l, s) = {l} \cup ToSet(s) /\ Nodes(z, u) = {z} \cup ToSet(u)
      /\ ToSet(s) \subseteq Entry /\ ToSet(u) \subseteq Entry
  BY <1>1, CirclesFacts
<1>4. t \in Seq(Node)
  BY EntrySeq
<1>5. k \in 0 .. Len(s) /\ Spliced(s, k, u, t) /\ Do(r, M)
  OBVIOUS
<1>12. Splicing(Node, m, l, s, z, u, k, t, r)
  BY <1>1, <1>2, <1>3, <1>4, <1>5 DEF Splicing
<1> HIDE DEF s, u, r
<1>6. /\ r \in Mem(Node) /\ Ring(Node, l, t) /\ Circle(r, l, t)
      /\ Nodes(l, t) = Nodes(l, s) \cup (Nodes(z, u) \ {z})
      /\ Same(m, r, Node, Nodes(l, s) \cup Nodes(z, u))
      /\ r.next[z] = z /\ r.prev[z] = z
  <2>1. Joined(Node, m, l, s, z, u, t, r)
    BY <1>12, SpliceCircle
  <2> QED
    BY <2>1 DEF Joined
<1>7. Ring(Node, z, <<>>) /\ Circle(r, z, <<>>) /\ ToSet(<<>>) = {}
  BY <1>2, <1>6, EmptyCircle
<1>8. Nodes(l, t) = {l} \cup ToSet(t) /\ ToSet(t) \subseteq Entry
  <2>1. Nodes(l, t) = {l} \cup ToSet(t)
    BY <1>4, NodesSet
  <2>2. ToSet(t) \subseteq Entry
    BY DEF ToSet
  <2> QED
    BY <2>1, <2>2
<1>9. ToSet(t) = ToSet(s) \cup ToSet(u)
  <2>1. l \notin Entry /\ z \notin Entry
    BY DEF NodeAssumption
  <2> QED
    BY <2>1, <1>3, <1>6, <1>8
<1>10. /\ Ring(Node, l, M[l]) /\ Circle(r, l, M[l]) /\ Ring(Node, z, M[z]) /\ Circle(r, z, M[z])
       /\ ToSet(M[l]) \cap ToSet(M[z]) = {}
       /\ ToSet(M[l]) \cup ToSet(M[z]) = ToSet(lists[l]) \cup ToSet(lists[z])
  BY <1>6, <1>7, <1>9 DEF s, u
<1>11. Same(m, r, Node, Nodes(l, lists[l]) \cup Nodes(z, lists[z]))
  BY <1>6 DEF s, u
<1> QED
  BY <1>5, <1>6, <1>10, <1>11, Exchange

(* Concatenation with the empty sequence.                                  *)
LEMMA EmptyConcat ==
  ASSUME NEW X, NEW s \in Seq(X), NEW e \in Seq(X), Len(e) = 0 PROVE e \o s = s /\ s \o e = s
<1>1. e = <<>>
  BY EmptySeq
<1> QED
  BY <1>1

(* Splice keeps the links right.                                           *)
LEMMA SpliceStep ==
  ASSUME NodeAssumption, LinksInv, Splice
  PROVE  LinksInv'
<1>1. PICK z \in LIST_HEAD, l \in LIST_HEAD :
    /\ z # l
    /\ \/ Do(list_splice_init(m, z, l), [lists EXCEPT ![l] = lists[z] \o @, ![z] = <<>>])
       \/ Do(list_splice_tail_init(m, z, l), [lists EXCEPT ![l] = @ \o lists[z], ![z] = <<>>])
  BY DEF Splice
<1> DEFINE s == lists[l]
           u == lists[z]
           e == <<>>
<1>2. s \in Seq(Entry) /\ Len(s) \in Nat /\ Circles(m, lists) /\ lists \in [LIST_HEAD -> Seq(Entry)]
  BY ListFacts
<1>3. u \in Seq(Entry) /\ Ring(Node, z, u) /\ Circle(m, z, u)
  BY ListFacts
<1>4. u \o s \in Seq(Entry) /\ Spliced(s, 0, u, u \o s) /\ s \o u \in Seq(Entry)
        /\ Spliced(s, Len(s), u, s \o u)
  <2> HIDE DEF s, u
  <2> QED
    BY <1>2, <1>3, SplicedParts
<1>5. e \in Seq(Entry)
  OBVIOUS
<1>6. ASSUME NEW t \in Seq(Entry), Do(m, [lists EXCEPT ![l] = t, ![z] = e]), Len(u) = 0, t = s
      PROVE  LinksInv'
  <2>1. u = e
    BY <1>3, <1>6, EmptySeq
  <2> DEFINE M == [lists EXCEPT ![l] = t, ![z] = e]
  <2>2. M = [lists EXCEPT ![l] = t]
    BY <1>1, <1>2, <2>1
  <2>3. Ring(Node, l, t) /\ Circle(m, l, t) /\ Nodes(l, t) = Nodes(l, lists[l])
          /\ Same(m, m, Node, Nodes(l, lists[l]))
        /\ m \in Mem(Node)
    BY <1>6, ListFacts DEF Same
  <2>4. Do(m, M)
    BY <1>6
  <2> HIDE DEF M
  <2> QED
    BY <1>6, <2>2, <2>3, <2>4, Rearranged
<1>7. ASSUME NEW k \in 0 .. Len(s), NEW t \in Seq(Entry), Spliced(s, k, u, t), Len(u) # 0,
             Do(INIT_LIST_HEAD(__list_splice(m, z, At(l, s, k), At(l, s, k + 1)), z),
               [lists EXCEPT ![l] = t, ![z] = e])
      PROVE  LinksInv'
  <2> DEFINE M == [lists EXCEPT ![l] = t, ![z] = e]
  <2>1. Others(lists, M, z, l) /\ M[z] = e /\ M[l] = t
    BY <1>1, <1>2, <1>5, <1>7, SetLists
  <2>2. Others(lists, M, l, z) /\ l # z
    BY <1>1, <2>1 DEF Others
  <2>3. Do(INIT_LIST_HEAD(__list_splice(m, z, At(l, lists[l], k), At(l, lists[l], k + 1)), z), M)
    BY <1>7
  <2> HIDE DEF M
  <2>4. M[z] = <<>> /\ M[l] = t /\ Len(lists[z]) # 0 /\ k \in 0 .. Len(lists[l])
          /\ Spliced(lists[l], k, lists[z], t)
    BY <1>7, <2>1
  <2> QED
    BY <1>7, <2>2, <2>3, <2>4, SpliceDone
<1>8. CASE Do(list_splice_init(m, z, l), [lists EXCEPT ![l] = lists[z] \o @, ![z] = <<>>])
  <2> DEFINE t == u \o s
  <2>1. CASE Len(u) = 0
    <3>1. list_splice_init(m, z, l) = m
      BY <2>1, EmptyTest DEF list_splice_init
    <3>2. t = s
      BY <1>2, <1>3, <2>1, EmptyConcat
    <3>3. Do(m, [lists EXCEPT ![l] = t, ![z] = e])
      BY <1>8, <3>1
    <3> HIDE DEF t
    <3> QED
      BY <1>6, <2>1, <3>2, <3>3, <1>2
  <2>2. CASE Len(u) # 0
    <3> DEFINE k == 0
    <3>1. k \in 0 .. Len(s) /\ k + 1 = 0 + 1
      BY <1>2
    <3>2. At(l, s, k) = l /\ m.next[l] = At(l, s, k + 1)
      <4>1. At(l, s, 0) = l
        BY DEF At
      <4>2. 0 \in 0 .. Len(lists[l])
        BY <1>2
      <4>3. m.next[l] = At(l, lists[l], 1)
        BY <4>2, PlaceLinks
      <4> QED
        BY <4>1, <4>3
    <3>3. list_splice_init(m, z, l)
            = INIT_LIST_HEAD(__list_splice(m, z, At(l, s, k), At(l, s, k + 1)), z)
      BY <2>2, <3>2, EmptyTest DEF list_splice_init, list_splice
    <3>4. Spliced(s, k, u, t) /\ t \in Seq(Entry)
      BY <1>4
    <3> HIDE DEF k
    <3>5. Do(INIT_LIST_HEAD(__list_splice(m, z, At(l, s, k), At(l, s, k + 1)), z),
            [lists EXCEPT ![l] = t, ![z] = e])
      BY <1>8, <3>3
    <3> HIDE DEF t
    <3> QED
      BY <1>7, <2>2, <3>1, <3>4, <3>5
  <2> QED
    BY <2>1, <2>2
<1>9. CASE Do(list_splice_tail_init(m, z, l), [lists EXCEPT ![l] = @ \o lists[z], ![z] = <<>>])
  <2> DEFINE t == s \o u
  <2>1. CASE Len(u) = 0
    <3>1. list_splice_tail_init(m, z, l) = m
      BY <2>1, EmptyTest DEF list_splice_tail_init
    <3>2. t = s
      BY <1>2, <1>3, <2>1, EmptyConcat
    <3>3. Do(m, [lists EXCEPT ![l] = t, ![z] = e])
      BY <1>9, <3>1
    <3> HIDE DEF t
    <3> QED
      BY <1>6, <2>1, <3>2, <3>3, <1>2
  <2>2. CASE Len(u) # 0
    <3> DEFINE k == Len(s)
    <3>1. k \in 0 .. Len(s)
      BY <1>2
    <3>2. At(l, s, k + 1) = l /\ m.prev[l] = At(l, s, k)
      <4>1. At(l, s, k + 1) = l
        BY <1>2 DEF At
      <4>2. m.prev[At(l, lists[l], k + 1)] = At(l, lists[l], k)
        <5> HIDE DEF k
        <5> QED
          BY <3>1, PlaceLinks
      <4> QED
        BY <4>1, <4>2
    <3>3. list_splice_tail_init(m, z, l)
            = INIT_LIST_HEAD(__list_splice(m, z, At(l, s, k), At(l, s, k + 1)), z)
      BY <2>2, <3>2, EmptyTest DEF list_splice_tail_init, list_splice_tail
    <3>4. Spliced(s, k, u, t) /\ t \in Seq(Entry)
      BY <1>4
    <3> HIDE DEF k
    <3>5. Do(INIT_LIST_HEAD(__list_splice(m, z, At(l, s, k), At(l, s, k + 1)), z),
            [lists EXCEPT ![l] = t, ![z] = e])
      BY <1>9, <3>3
    <3> HIDE DEF t
    <3> QED
      BY <1>7, <2>2, <3>1, <3>4, <3>5
  <2> QED
    BY <2>1, <2>2
<1> QED
  BY <1>1, <1>8, <1>9

-----------------------------------------------------------------------------
(* Replace and Swap *)

(* M is L with y in the place of x.                                        *)
Substituted(L, M, x, y) ==
  /\ M \in [LIST_HEAD -> Seq(Entry)]
  /\ \A h \in LIST_HEAD : /\ Len(M[h]) = Len(L[h])
                          /\ \A i \in 1 .. Len(L[h]) : M[h][i] = IF L[h][i] = x THEN y ELSE L[h][i]

(* What replacing x by y in memory mem has to show.                        *)
Taken(mem, r, L, M, x, y) ==
  /\ Circles(r, M) /\ Keeps(mem, r, L, Only(y))
  /\ \A e : e \in Entries(M) <=> (e \in Entries(L) /\ e # x) \/ e = y

(* An entry that takes the place of a listed one changes that list only.   *)
LEMMA SubstituteOther ==
  ASSUME NodeAssumption, NEW mem, NEW L, Circles(mem, L), NEW l \in LIST_HEAD,
           NEW k \in 1 .. Len(L[l]),
         NEW y \in Entry, NEW M, Substituted(L, M, L[l][k], y)
  PROVE  Others(L, M, l, l) /\ M[l] = [L[l] EXCEPT ![k] = y]
<1> DEFINE s == L[l]
           x == s[k]
           n == Len(s)
<1>1. /\ \A h \in LIST_HEAD : L[h] \in Seq(Entry)
      /\ Ring(Node, l, s) /\ \A h \in LIST_HEAD : h # l => ToSet(s) \cap ToSet(L[h]) = {}
  BY DEF Circles
<1>2. s \in Seq(Entry) /\ k \in 1 .. n /\ n \in Nat
  BY <1>1
<1>3. /\ M \in [LIST_HEAD -> Seq(Entry)]
      /\ \A h \in LIST_HEAD : /\ Len(M[h]) = Len(L[h])
                              /\ \A i \in 1 .. Len(L[h]) : M[h][i] = IF L[h][i] = x THEN y
                                        ELSE L[h][i]
  BY DEF Substituted
<1>4. x \in ToSet(s)
  BY <1>2 DEF ToSet
<1>5. \A i, j \in 1 .. n : s[i] = s[j] => i = j
  <2>1. \A i, j \in 0 .. n : At(l, s, i) = At(l, s, j) => i = j
    BY <1>1, RingFacts
  <2>2. \A i \in 1 .. n : At(l, s, i) = s[i] /\ i \in 0 .. n
    BY <1>1, <1>2, RingFacts
  <2> HIDE DEF s, n
  <2> QED
    BY <2>1, <2>2
<1> HIDE DEF x
<1>6. ASSUME NEW h \in LIST_HEAD, h # l
      PROVE  M[h] = L[h]
  <2>1. x \notin ToSet(L[h])
    BY <1>1, <1>4, <1>6
  <2>2. L[h] \in Seq(Entry) /\ M[h] \in Seq(Entry) /\ DOMAIN L[h] = 1 .. Len(L[h])
    <3>1. L[h] \in Seq(Entry) /\ M[h] \in Seq(Entry)
      BY <1>1, <1>3
    <3> QED
      BY <3>1
  <2>3. \A i \in 1 .. Len(L[h]) : L[h][i] # x
    BY <2>1, <2>2 DEF ToSet
  <2>4. Len(M[h]) = Len(L[h]) /\ \A i \in 1 .. Len(L[h]) : M[h][i] = L[h][i]
    BY <1>3, <2>3
  <2> QED
    BY <2>2, <2>4
<1>7. M[l] = [s EXCEPT ![k] = y]
  <2> DEFINE t == [s EXCEPT ![k] = y]
  <2>1. M[l] \in Seq(Entry) /\ Len(M[l]) = n
          /\ \A i \in 1 .. n : M[l][i] = IF s[i] = x THEN y ELSE s[i]
    BY <1>3
  <2>2. t \in Seq(Entry) /\ Len(t) = n /\ \A i \in 1 .. n : t[i] = IF i = k THEN y ELSE s[i]
    BY <1>2
  <2>3. \A i \in 1 .. n : s[i] = x <=> i = k
    BY <1>2, <1>5 DEF x
  <2> HIDE DEF t
  <2>4. \A i \in 1 .. n : t[i] = M[l][i]
    BY <2>1, <2>2, <2>3
  <2>5. t = M[l]
    BY <2>1, <2>2, <2>4
  <2> QED
    BY <2>5 DEF t
<1> QED
  BY <1>3, <1>6, <1>7 DEF Others

(* list_replace: y, in no list, takes the place of x.                      *)
LEMMA ReplaceEntry ==
  ASSUME NodeAssumption, NEW mem, NEW L, Circles(mem, L), NEW l \in LIST_HEAD,
           NEW k \in 1 .. Len(L[l]),
         NEW y \in Entry \ Entries(L), NEW M, Substituted(L, M, L[l][k], y)
  PROVE  Taken(mem, list_replace(mem, L[l][k], y), L, M, L[l][k], y)
<1> DEFINE s == L[l]
           x == s[k]
           r == list_replace(mem, s[k], y)
           t == [s EXCEPT ![k] = y]
           Y == {y}
<1>1. mem \in Mem(Node) /\ Ring(Node, l, s) /\ Circle(mem, l, s)
  BY DEF Circles
<1>2. Nodes(l, s) = {l} \cup ToSet(s) /\ l \notin Entry /\ ToSet(s) \subseteq Entries(L)
        /\ l \notin Entries(L) /\ x \in ToSet(s)
      /\ Entries(L) \subseteq Entry
  <2>1. L[l] \in Seq(Entry)
    BY CirclesFacts
  <2>2. x \in ToSet(s)
    BY <2>1 DEF ToSet
  <2> QED
    BY <2>2, CirclesFacts DEF Entries, Within, NodeAssumption
<1>3. Others(L, M, l, l) /\ M[l] = t
  BY SubstituteOther
<1>4. y \in Node \ Nodes(l, s) /\ k \in 1 .. Len(s)
  BY <1>2 DEF Node
<1> HIDE DEF s
<1>5. /\ r \in Mem(Node) /\ Ring(Node, l, t) /\ Circle(r, l, t)
      /\ Nodes(l, t) = (Nodes(l, s) \ {s[k]}) \cup {y}
      /\ Same(mem, r, Node, Nodes(l, s) \cup {y})
  BY <1>1, <1>4, ReplaceCircle
<1>6. Fresh(L, Y)
  BY DEF Fresh
<1> HIDE DEF r, t
<1>7. /\ Ring(Node, l, M[l]) /\ Circle(r, l, M[l])
      /\ Nodes(l, M[l]) \subseteq Nodes(l, L[l]) \cup Y
      /\ Same(mem, r, Node, Nodes(l, L[l]) \cup Y)
  BY <1>3, <1>5 DEF s
<1>8. Y = Only(y)
  BY DEF Only
<1> HIDE DEF Y
<1>9. /\ Circles(r, M) /\ Keeps(mem, r, L, Y)
      /\ \A e : e \in Entries(M) <=> (e \in Entries(L) /\ e \notin Nodes(l, L[l]))
                  \/ (e \in Nodes(l, M[l]) /\ e # l)
  BY <1>3, <1>5, <1>6, <1>7, OneList
<1>10. Nodes(l, M[l]) = (Nodes(l, L[l]) \ {x}) \cup {y}
  BY <1>3, <1>5 DEF s
<1> HIDE DEF x
<1>11. \A e : e \in Entries(M) <=> (e \in Entries(L) /\ e # x) \/ e = y
  BY <1>2, <1>4, <1>9, <1>10 DEF s
<1>12. Taken(mem, r, L, M, x, y)
  BY <1>8, <1>9, <1>11 DEF Taken
<1> QED
  BY <1>12 DEF r, x, s

(* M is L with x and y in each other's places.                             *)
Swapped(L, M, x, y) ==
  /\ M \in [LIST_HEAD -> Seq(Entry)]
  /\ \A h \in LIST_HEAD :
       /\ Len(M[h]) = Len(L[h])
       /\ \A i \in 1 .. Len(L[h]) : M[h][i] = IF L[h][i] = x THEN y ELSE IF L[h][i] = y THEN x
                                      ELSE L[h][i]

(* Renamed exchanges two entries wherever they are.                        *)
LEMMA RenamedSeq ==
  ASSUME lists \in [LIST_HEAD -> Seq(Entry)], NEW x \in Entry, NEW y \in Entry
  PROVE  Swapped(lists, Renamed(Exchanged(x, y)), x, y)
<1> DEFINE f == Exchanged(x, y)
           M == Renamed(f)
<1>1. f \in [Entry -> Entry] /\ \A z \in Entry : f[z] = IF z = x THEN y ELSE IF z = y THEN x ELSE z
  BY DEF Exchanged
<1> HIDE DEF f
<1>2. ASSUME NEW h \in LIST_HEAD
      PROVE  /\ M[h] \in Seq(Entry) /\ Len(M[h]) = Len(lists[h])
             /\ \A i \in 1 .. Len(lists[h]) : M[h][i] = f[lists[h][i]] /\ lists[h][i] \in Entry
  <2> DEFINE s == lists[h]
             n == Len(s)
             t == [i \in 1 .. n |-> f[s[i]]]
  <2>1. s \in Seq(Entry)
    OBVIOUS
  <2>2. n \in Nat /\ DOMAIN s = 1 .. n /\ \A i \in 1 .. n : s[i] \in Entry
    BY <2>1
  <2>3. M[h] = t
    BY <2>2 DEF Renamed
  <2> HIDE DEF s, n
  <2>4. \A i \in 1 .. n : f[s[i]] \in Entry
    BY <1>1, <2>2
  <2>5. t \in Seq(Entry) /\ Len(t) = n /\ \A i \in 1 .. n : t[i] = f[s[i]]
    BY <2>2, <2>4
  <2> HIDE DEF t
  <2> QED
    BY <2>2, <2>3, <2>5 DEF s, n
<1>3. M = [h \in LIST_HEAD |-> M[h]]
  BY DEF Renamed
<1> HIDE DEF M
<1>4. M \in [LIST_HEAD -> Seq(Entry)]
  BY <1>2, <1>3
<1>5. \A h \in LIST_HEAD : /\ Len(M[h]) = Len(lists[h])
                           /\ \A i \in 1 .. Len(lists[h]) :
                                M[h][i] = IF lists[h][i] = x THEN y
                                  ELSE IF lists[h][i] = y THEN x ELSE lists[h][i]
  BY <1>1, <1>2
<1> QED
  BY <1>4, <1>5 DEF M, f, Swapped

(* An entry of a list has a place in it.                                   *)
LEMMA PlaceOf ==
  ASSUME NEW mem, NEW L, Circles(mem, L), NEW x \in Entries(L)
  PROVE  \E l \in LIST_HEAD : \E k \in 1 .. Len(L[l]) : L[l][k] = x
<1>1. PICK l \in LIST_HEAD : x \in ToSet(L[l])
  BY DEF Entries, Within
<1>2. L[l] \in Seq(Entry)
  BY DEF Circles
<1>3. DOMAIN L[l] = 1 .. Len(L[l])
  BY <1>2
<1>4. \E k \in 1 .. Len(L[l]) : L[l][k] = x
  BY <1>1, <1>3 DEF ToSet
<1> QED
  BY <1>4

(* An entry is in one list.                                                *)
LEMMA InNoOther ==
  ASSUME NEW mem, NEW L, Circles(mem, L), NEW l \in LIST_HEAD, NEW k \in 1 .. Len(L[l])
  PROVE  \A h \in LIST_HEAD : h # l => \A i \in 1 .. Len(L[h]) : L[h][i] # L[l][k]
<1>1. \A h \in LIST_HEAD : L[h] \in Seq(Entry)
  BY DEF Circles
<1>2. \A h \in LIST_HEAD : DOMAIN L[h] = 1 .. Len(L[h])
  BY <1>1
<1>3. \A h \in LIST_HEAD : h # l => ToSet(L[h]) \cap ToSet(L[l]) = {}
  BY DEF Circles
<1> QED
  BY <1>2, <1>3 DEF ToSet

(* And there at one place.                                                 *)
LEMMA InOnePlace ==
  ASSUME NodeAssumption, NEW mem, NEW L, Circles(mem, L), NEW l \in LIST_HEAD,
           NEW k \in 1 .. Len(L[l])
  PROVE  \A i \in 1 .. Len(L[l]) : L[l][i] = L[l][k] => i = k
<1> DEFINE s == L[l]
           n == Len(s)
<1>1. Ring(Node, l, s) /\ n \in Nat /\ k \in 1 .. n
  <2>1. Ring(Node, l, s)
    BY DEF Circles
  <2> QED
    BY <2>1, RingFacts
<1>2. \A i, j \in 0 .. n : At(l, s, i) = At(l, s, j) => i = j
  BY <1>1, RingFacts
<1>3. \A i \in 1 .. n : At(l, s, i) = s[i] /\ i \in 0 .. n
  BY <1>1, RingFacts
<1> HIDE DEF s, n
<1>4. \A i \in 1 .. n : s[i] = s[k] => i = k
  BY <1>1, <1>2, <1>3
<1> QED
  BY <1>4 DEF s, n

(* Replace keeps the links right.                                          *)
LEMMA ReplaceStep ==
  ASSUME NodeAssumption, LinksInv, Replace
  PROVE  LinksInv'
<1>0. Circles(m, lists) /\ lists \in [LIST_HEAD -> Seq(Entry)] /\ Linked = Entries(lists)
  BY DEF LinksInv, Circles, Linked, In, Entries, Within
<1>1. ASSUME NEW x \in Linked, NEW y \in Off,
               Do(list_replace_init(m, x, y), Renamed(Exchanged(x, y)))
      PROVE  LinksInv'
  <2> DEFINE M == Renamed(Exchanged(x, y))
             d == list_replace(m, x, y)
             r == list_replace_init(m, x, y)
             Y == Only(y)
  <2>1. x \in Entries(lists) /\ y \in Entry \ Entries(lists) /\ x \in Entry /\ y \in Entry
    BY <1>0, <1>1, CirclesFacts DEF Off
  <2>2. PICK l \in LIST_HEAD : \E k \in 1 .. Len(lists[l]) : lists[l][k] = x
    BY <1>0, <2>1, PlaceOf
  <2>3. PICK k \in 1 .. Len(lists[l]) : lists[l][k] = x
    BY <2>2
  <2>4. Swapped(lists, M, x, y)
    BY <1>0, <2>1, RenamedSeq
  <2>5. Do(r, M)
    BY <1>1
  <2> HIDE DEF M
  <2>6. \A h \in LIST_HEAD : \A i \in 1 .. Len(lists[h]) : lists[h][i] # y
    <3> SUFFICES ASSUME NEW h \in LIST_HEAD, NEW i \in 1 .. Len(lists[h]) PROVE lists[h][i] # y
      OBVIOUS
    <3>1. lists[h] \in Seq(Entry)
      BY <1>0
    <3>2. lists[h][i] \in ToSet(lists[h])
      BY <3>1 DEF ToSet
    <3> QED
      BY <2>1, <3>2 DEF Entries, Within
  <2>7. Substituted(lists, M, x, y)
    BY <2>4, <2>6 DEF Substituted, Swapped
  <2>8. Taken(m, d, lists, M, x, y)
    <3>1. Taken(m, list_replace(m, lists[l][k], y), lists, M, lists[l][k], y)
      BY <1>0, <2>1, <2>3, <2>7, ReplaceEntry
    <3> QED
      BY <2>3, <3>1
  <2>9. r = INIT_LIST_HEAD(d, x)
    BY DEF list_replace_init
  <2> HIDE DEF d, r
  <2>10. /\ Circles(d, M) /\ Keeps(m, d, lists, Y)
         /\ \A e : e \in Entries(M) <=> (e \in Entries(lists) /\ e # x) \/ e = y
    BY <2>8 DEF Taken
  <2>11. d \in Mem(Node) /\ x \in Node
    BY <2>1, <2>10 DEF Circles, Node
  <2>12. /\ r \in Mem(Node)
         /\ \A e \in Node : /\ r.next[e] = IF e = x THEN x ELSE d.next[e]
                            /\ r.prev[e] = IF e = x THEN x ELSE d.prev[e]
    BY <2>9, <2>11, SelfLink
  <2> DEFINE X == Only(x)
  <2>13. Fresh(M, X)
    BY <2>1, <2>10 DEF Fresh, Only
  <2>14. Same(d, r, Node, X)
    BY <2>12 DEF Same, Only
  <2>15. Y \in SUBSET Entries(M) /\ X \in SUBSET Entries(lists)
    BY <2>1, <2>10 DEF Only
  <2> HIDE DEF X, Y
  <2>16. Circles(r, M)
    BY <2>10, <2>12, <2>13, <2>14, NoList
  <2>17. Keeps(m, r, lists, Y)
    BY <2>10, <2>14, <2>15 DEF Keeps, Same
  <2>18. \A e \in Entries(lists) \ Entries(M) : r.next[e] = e /\ r.prev[e] = e
    BY <2>10, <2>11, <2>12
  <2> QED
    BY <2>5, <2>15, <2>16, <2>17, <2>18, Done
<1>2. ASSUME NEW l \in LIST_HEAD, NEW z \in LIST_HEAD, l # z, lists[z] = <<>>,
             Do(list_replace_init(m, l, z), [lists EXCEPT ![z] = lists[l], ![l] = <<>>])
      PROVE  LinksInv'
  <2> DEFINE s == lists[l]
             e == <<>>
             M == [lists EXCEPT ![z] = s, ![l] = e]
             d == list_replace(m, l, z)
             r == list_replace_init(m, l, z)
  <2>1. s \in Seq(Entry) /\ e \in Seq(Entry)
    BY <1>0
  <2>2. Do(r, M)
    BY <1>2
  <2>3. Others(lists, M, l, z) /\ M[l] = e /\ M[z] = s
    <3> HIDE DEF s, e
    <3> QED
      BY <1>0, <1>2, <2>1, SetLists
  <2> HIDE DEF M
  <2>4. Ring(Node, l, s) /\ Circle(m, l, s) /\ m \in Mem(Node) /\ l \in Node /\ z \in Node
          /\ Nodes(l, s) = {l} \cup ToSet(s)
    BY ListFacts
  <2>5. Nodes(l, s) \cap Nodes(z, lists[z]) = {} /\ Nodes(z, lists[z]) = {z}
          /\ ToSet(s) \subseteq Entry
    <3>1. Nodes(l, s) \cap Nodes(z, lists[z]) = {} /\ ToSet(s) \subseteq Entry
      BY <1>0, <1>2, CirclesFacts
    <3>2. Nodes(z, lists[z]) = {z}
      BY <1>2, EmptyLinks
    <3> QED
      BY <3>1, <3>2
  <2>6. z \in Node \ Nodes(l, s)
    BY <2>4, <2>5
  <2>7. r = INIT_LIST_HEAD(d, l)
    BY DEF list_replace_init
  <2> HIDE DEF s
  <2>8. /\ d \in Mem(Node) /\ Ring(Node, z, s) /\ Circle(d, z, s)
        /\ Nodes(z, s) = (Nodes(l, s) \ {l}) \cup {z}
        /\ Same(m, d, Node, Nodes(l, s) \cup {z})
    BY <2>4, <2>6, ReplaceHeadCircle
  <2> HIDE DEF d, r
  <2>9. /\ r \in Mem(Node)
        /\ \A y \in Node : /\ r.next[y] = IF y = l THEN l ELSE d.next[y]
                           /\ r.prev[y] = IF y = l THEN l ELSE d.prev[y]
    BY SMTT(30), <2>4, <2>7, <2>8, SelfLink
  <2>10. Ring(Node, l, e) /\ Circle(r, l, e) /\ ToSet(e) = {}
    BY <2>4, <2>9, EmptyCircle
  <2>11. Circle(r, z, s)
    <3>1. /\ \A i \in 0 .. Len(s) + 1 : At(z, s, i) \in Node /\ At(z, s, i) \in Nodes(z, s)
          /\ Len(s) \in Nat
      BY <2>8, RingFacts
    <3>2. l \notin Nodes(z, s)
      BY <1>2, <2>8
    <3>3. \A i \in 0 .. Len(s) : i \in 0 .. Len(s) + 1 /\ i + 1 \in 0 .. Len(s) + 1
      BY <3>1
    <3> QED
      BY <2>8, <2>9, <3>1, <3>2, <3>3 DEF Circle
  <2>12. Same(m, r, Node, Nodes(l, lists[l]) \cup Nodes(z, lists[z]))
    BY <2>4, <2>5, <2>8, <2>9 DEF Same, s
  <2>13. ToSet(lists[z]) = {}
    BY <1>2 DEF ToSet
  <2>14. /\ Ring(Node, l, M[l]) /\ Circle(r, l, M[l]) /\ Ring(Node, z, M[z]) /\ Circle(r, z, M[z])
         /\ ToSet(M[l]) \cap ToSet(M[z]) = {}
         /\ ToSet(M[l]) \cup ToSet(M[z]) = ToSet(lists[l]) \cup ToSet(lists[z])
    <3> HIDE DEF e
    <3> QED
      BY <2>3, <2>8, <2>10, <2>11, <2>13 DEF s
  <2> QED
    BY <1>2, <2>2, <2>3, <2>9, <2>12, <2>14, Exchange
<1>3. \/ \E old \in Linked, new \in Off :
           Do(list_replace_init(m, old, new), Renamed(Exchanged(old, new)))
      \/ \E old, new \in LIST_HEAD :
           /\ old # new /\ lists[new] = <<>>
           /\ Do(list_replace_init(m, old, new), [lists EXCEPT ![new] = lists[old], ![old] = <<>>])
  BY DEF Replace
<1> QED
  BY <1>1, <1>2, <1>3

(* There is such a list of lists.                                          *)
LEMMA SubstituteExists ==
  ASSUME NEW L \in [LIST_HEAD -> Seq(Entry)], NEW x \in Entry, NEW y \in Entry
  PROVE  \E M : Substituted(L, M, x, y)
<1> DEFINE t(h) == [i \in 1 .. Len(L[h]) |-> IF L[h][i] = x THEN y ELSE L[h][i]]
           M == [h \in LIST_HEAD |-> t(h)]
<1>1. ASSUME NEW h \in LIST_HEAD
      PROVE  /\ t(h) \in Seq(Entry) /\ Len(t(h)) = Len(L[h])
             /\ \A i \in 1 .. Len(L[h]) : t(h)[i] = IF L[h][i] = x THEN y ELSE L[h][i]
  <2> DEFINE s == L[h]
             n == Len(s)
             u == [i \in 1 .. n |-> IF s[i] = x THEN y ELSE s[i]]
  <2>1. s \in Seq(Entry)
    OBVIOUS
  <2>2. n \in Nat /\ \A i \in 1 .. n : s[i] \in Entry
    BY <2>1
  <2> HIDE DEF s, n
  <2>3. u \in Seq(Entry) /\ Len(u) = n /\ \A i \in 1 .. n : u[i] = IF s[i] = x THEN y ELSE s[i]
    BY <2>2
  <2> QED
    BY <2>3 DEF s, n
<1> HIDE DEF t
<1>2. Substituted(L, M, x, y)
  BY <1>1 DEF Substituted
<1> HIDE DEF M
<1> QED
  BY <1>2

(* The three writes of list_swap, on the sequences: y is taken out of      *)
(* place j of the list of z, x becomes y, and x is put into place j.       *)
LEMMA SwapSequences ==
  ASSUME NodeAssumption, Circles(m, lists), NEW z \in LIST_HEAD, NEW j \in 1 .. Len(lists[z]),
         NEW x \in Entry, NEW y \in Entry, x # y, lists[z][j] = y,
         NEW L, Others(lists, L, z, z), L[z] = RemoveAt(lists[z], j),
         NEW K, Substituted(L, K, x, y), NEW M, Swapped(lists, M, x, y)
  PROVE  /\ Others(K, M, z, z) /\ M[z] = InsertAt(K[z], j, x)
         /\ j - 1 \in 0 .. Len(K[z])
         /\ At(z, K[z], j - 1) = IF At(z, lists[z], j - 1) = x THEN y ELSE At(z, lists[z], j - 1)
<1> DEFINE s == lists[z]
           n == Len(s)
           q == L[z]
           u == K[z]
           t == M[z]
           c == j - 1
<1>1. s \in Seq(Entry) /\ n \in Nat
  <2>1. s \in Seq(Entry)
    BY DEF Circles
  <2> QED
    BY <2>1
<1>2. \A i \in 1 .. n : s[i] = y <=> i = j
  BY InOnePlace
<1>3. \A h \in LIST_HEAD : h # z => \A i \in 1 .. Len(lists[h]) : lists[h][i] # y
  BY InNoOther
<1>4. q \in Seq(Entry) /\ Len(q) = n - 1
        /\ \A i \in 1 .. n - 1 : q[i] = IF i < j THEN s[i] ELSE s[i + 1]
  <2> HIDE DEF s, n, q
  <2>1. /\ RemoveAt(s, j) \in Seq(Entry)
        /\ Len(RemoveAt(s, j)) = Len(s) - 1
        /\ \A i \in 1 .. Len(s) - 1 : RemoveAt(s, j)[i] = IF i < j THEN s[i] ELSE s[i + 1]
    <3>1. j \in 1 .. Len(s)
      BY DEF s
    <3> QED
      BY <1>1, <3>1, RemoveAtIndex
  <2>2. q = RemoveAt(s, j)
    BY DEF q, s
  <2> QED
    BY <2>1, <2>2 DEF n
<1>5. /\ K \in [LIST_HEAD -> Seq(Entry)]
      /\ \A h \in LIST_HEAD : /\ Len(K[h]) = Len(L[h])
                              /\ \A i \in 1 .. Len(L[h]) : K[h][i] = IF L[h][i] = x THEN y
                                        ELSE L[h][i]
  BY DEF Substituted
<1>6. /\ M \in [LIST_HEAD -> Seq(Entry)]
      /\ \A h \in LIST_HEAD :
           /\ Len(M[h]) = Len(lists[h])
           /\ \A i \in 1 .. Len(lists[h]) : M[h][i] = IF lists[h][i] = x THEN y
                                              ELSE IF lists[h][i] = y THEN x ELSE lists[h][i]
  BY DEF Swapped
<1>7. ASSUME NEW h \in LIST_HEAD, h # z
      PROVE  M[h] = K[h]
  <2>1. L[h] = lists[h]
    BY <1>7 DEF Others
  <2>2. M[h] \in Seq(Entry) /\ K[h] \in Seq(Entry) /\ Len(M[h]) = Len(lists[h])
          /\ Len(K[h]) = Len(lists[h])
    BY <2>1, <1>5, <1>6
  <2>3. \A i \in 1 .. Len(lists[h]) : M[h][i] = K[h][i]
    BY <2>1, <1>3, <1>5, <1>6, <1>7
  <2> QED
    BY <2>2, <2>3
<1>8. /\ u \in Seq(Entry) /\ Len(u) = n - 1
      /\ \A i \in 1 .. n - 1 : u[i] = IF q[i] = x THEN y ELSE q[i]
  BY <1>4, <1>5
<1>9. /\ t \in Seq(Entry) /\ Len(t) = n
      /\ \A i \in 1 .. n : t[i] = IF s[i] = x THEN y ELSE IF s[i] = y THEN x ELSE s[i]
  BY <1>6
<1>0. j \in 1 .. n /\ s[j] = y
  OBVIOUS
<1> HIDE DEF s, n, q, u, t
<1>10. InsertAt(u, j, x) \in Seq(Entry) /\ Len(InsertAt(u, j, x)) = n
       /\ \A i \in 1 .. n : InsertAt(u, j, x)[i] = IF i < j THEN u[i] ELSE IF i = j THEN x
                              ELSE u[i - 1]
  <2>1. j \in 1 .. Len(u) + 1
    BY <1>0, <1>1, <1>8
  <2>2. InsertAt(u, j, x) \in Seq(Entry) /\ Len(InsertAt(u, j, x)) = Len(u) + 1
        /\ \A i \in 1 .. Len(u) + 1 : InsertAt(u, j, x)[i] = IF i < j THEN u[i]
                                        ELSE IF i = j THEN x ELSE u[i - 1]
    <3>1. u \in Seq(Entry) /\ x \in Entry
      BY <1>8
    <3> QED
      BY <2>1, <3>1, InsertAtIndex
  <2>3. Len(u) + 1 = n
    BY <1>1, <1>8
  <2> QED
    BY <2>2, <2>3
<1>11. ASSUME NEW i \in 1 .. n
       PROVE  t[i] = InsertAt(u, j, x)[i]
  <2>0. i \in Int /\ j \in Int /\ 1 <= j /\ j <= n
    BY <1>0, <1>1
  <2>1. CASE i < j
    <3>1. i \in 1 .. n - 1 /\ i # j
      BY <2>0, <2>1, <1>1
    <3>2. q[i] = s[i] /\ u[i] = IF q[i] = x THEN y ELSE q[i]
      BY <3>1, <2>1, <1>4, <1>8
    <3>3. t[i] = IF s[i] = x THEN y ELSE s[i]
      BY <3>1, <1>2, <1>9
    <3> QED
      BY <2>1, <3>2, <3>3, <1>10
  <2>2. CASE i = j
    <3>1. t[j] = x
      BY <1>0, <1>9
    <3>2. InsertAt(u, j, x)[j] = x
      BY <1>0, <2>0, <1>10
    <3> QED
      BY <2>2, <3>1, <3>2
  <2>3. CASE i > j
    <3> DEFINE k == i - 1
    <3>1. k \in 1 .. n - 1 /\ i # j /\ ~ (k < j) /\ k + 1 = i /\ ~ (i < j)
      BY <2>0, <2>3, <1>1
    <3>4. InsertAt(u, j, x)[i] = u[k]
      BY <3>1, <1>10
    <3> HIDE DEF k
    <3>2. q[k] = s[i] /\ u[k] = IF q[k] = x THEN y ELSE q[k]
      BY <3>1, <1>4, <1>8
    <3>3. t[i] = IF s[i] = x THEN y ELSE s[i]
      BY <3>1, <1>2, <1>9
    <3> QED
      BY <3>2, <3>3, <3>4
  <2> QED
    BY <2>0, <2>1, <2>2, <2>3
<1>12. t = InsertAt(u, j, x)
  BY <1>9, <1>10, <1>11
<1>13. c \in 0 .. Len(u) /\ c \in 0 .. n
  BY <1>0, <1>1, <1>8
<1>14. At(z, u, c) = IF At(z, s, c) = x THEN y ELSE At(z, s, c)
  <2>1. CASE c = 0
    <3>1. At(z, u, c) = z /\ At(z, s, c) = z
      BY <2>1, <1>1, <1>8 DEF At
    <3> QED
      BY <3>1 DEF NodeAssumption
  <2>2. CASE c # 0
    <3>1. c \in 1 .. n - 1 /\ c \in 1 .. n /\ c < j
      BY <2>2, <1>0, <1>1
    <3> HIDE DEF c
    <3>2. At(z, u, c) = u[c] /\ At(z, s, c) = s[c]
      BY <3>1, <1>1, <1>8 DEF At, n
    <3>3. u[c] = IF q[c] = x THEN y ELSE q[c]
      BY <3>1, <1>8
    <3>4. q[c] = s[c]
      BY <3>1, <1>4
    <3> QED
      BY <3>2, <3>3, <3>4
  <2> QED
    BY <2>1, <2>2
<1>15. Others(K, M, z, z)
  BY <1>6, <1>7 DEF Others
<1> QED
  BY <1>12, <1>13, <1>14, <1>15 DEF s, u, t, c

(* Swap keeps the links right: replacing twice, with the case of           *)
(* neighbours, exchanges the two entries.                                  *)
LEMMA SwapStep ==
  ASSUME NodeAssumption, LinksInv, Swap
  PROVE  LinksInv'
<1>0. Circles(m, lists) /\ lists \in [LIST_HEAD -> Seq(Entry)] /\ Linked = Entries(lists)
  BY DEF LinksInv, Circles, Linked, In, Entries, Within
<1>1. PICK x \in Linked, y \in Linked : x # y /\ Do(list_swap(m, x, y), Renamed(Exchanged(x, y)))
  BY DEF Swap
<1> DEFINE M == Renamed(Exchanged(x, y))
           pos == m.prev[y]
           p == IF pos = x THEN y ELSE pos
           L == Without(y)
           d == list_del(m, y)
           e == list_replace(d, x, y)
           r == list_add(e, x, p)
<1>2. Do(r, M)
  BY <1>1 DEF list_swap
<1>3. x \in Entry /\ y \in Entry /\ x \in Entries(lists) /\ y \in Entries(lists)
  BY <1>0, CirclesFacts
<1>4. Swapped(lists, M, x, y)
  BY <1>0, <1>3, RenamedSeq
<1>5. PICK z \in LIST_HEAD : \E j \in 1 .. Len(lists[z]) : lists[z][j] = y
  BY <1>0, <1>3, PlaceOf
<1>6. PICK j \in 1 .. Len(lists[z]) : lists[z][j] = y
  BY <1>5
<1>7. Others(lists, L, z, z) /\ L[z] = RemoveAt(lists[z], j)
  BY <1>0, <1>6, WithoutOther
<1>8. Circles(d, L) /\ Keeps(m, d, lists, {}) /\ Entries(L) = Entries(lists) \ Only(y)
  <2>1. d \in Mem(Node) /\ Same(__list_del_entry(m, y), d, Node, Only(y))
    BY <1>0, DelLinks
  <2> HIDE DEF d
  <2> QED
    BY <1>0, <2>1, Release
<1> HIDE DEF M, L, d
<1>9. x \in Entries(L) /\ y \in Entry \ Entries(L) /\ L \in [LIST_HEAD -> Seq(Entry)]
  BY <1>1, <1>3, <1>8 DEF Only, Circles
<1>10. PICK K : Substituted(L, K, x, y)
  BY <1>3, <1>9, SubstituteExists
<1>11. /\ Circles(e, K) /\ Keeps(d, e, L, Only(y))
       /\ \A a : a \in Entries(K) <=> (a \in Entries(L) /\ a # x) \/ a = y
  <2>1. PICK l \in LIST_HEAD : \E k \in 1 .. Len(L[l]) : L[l][k] = x
    BY <1>8, <1>9, PlaceOf
  <2>2. PICK k \in 1 .. Len(L[l]) : L[l][k] = x
    BY <2>1
  <2>3. Taken(d, list_replace(d, L[l][k], y), L, K, L[l][k], y)
    BY <1>8, <1>9, <1>10, <2>2, ReplaceEntry
  <2>4. Taken(d, e, L, K, x, y)
    BY <2>2, <2>3
  <2> QED
    BY <2>4 DEF Taken
<1> DEFINE c == j - 1
<1>12. /\ Others(K, M, z, z) /\ M[z] = InsertAt(K[z], j, x)
       /\ c \in 0 .. Len(K[z])
       /\ At(z, K[z], c) = IF At(z, lists[z], c) = x THEN y ELSE At(z, lists[z], c)
  BY <1>0, <1>1, <1>3, <1>4, <1>6, <1>7, <1>10, SwapSequences
<1>13. c + 1 = j /\ c \in 0 .. Len(lists[z])
  BY <1>0
<1>14. At(z, K[z], c) = p
  <2>1. At(z, lists[z], j) = y
    BY <1>6 DEF At
  <2> HIDE DEF c
  <2>2. m.prev[At(z, lists[z], c + 1)] = At(z, lists[z], c)
    BY <1>13, PlaceLinks
  <2>3. pos = At(z, lists[z], c)
    BY <1>13, <2>1, <2>2
  <2> QED
    BY <1>12, <2>3
<1>15. x \in Entry \ Entries(K)
  BY <1>1, <1>3, <1>11
<1> HIDE DEF e, p, c
<1>16. e.next[p] = At(z, K[z], c + 1)
  <2>1. Circle(e, z, K[z])
    BY <1>11 DEF Circles
  <2> QED
    BY <1>12, <1>14, <2>1 DEF Circle
<1>17. r = __list_add(e, x, At(z, K[z], c), At(z, K[z], c + 1)) /\ M[z] = InsertAt(K[z], c + 1, x)
  BY <1>12, <1>13, <1>14, <1>16 DEF list_add
<1> HIDE DEF r
<1>18. Circles(r, M) /\ Keeps(e, r, K, Only(x)) /\ Entries(M) = Entries(K) \cup Only(x)
  <2>1. LET rr == __list_add(e, x, At(z, K[z], c), At(z, K[z], c + 1))
        IN  Circles(rr, M) /\ Keeps(e, rr, K, Only(x)) /\ Entries(M) = Entries(K) \cup Only(x)
    BY <1>11, <1>12, <1>15, <1>17, AddEntry
  <2> QED
    BY <1>17, <2>1
<1> DEFINE X == Only(x)
           Y == Only(y)
           Z == {}
<1>19. X \subseteq Entries(lists) /\ Y \subseteq Entries(lists)
         /\ Entries(L) \subseteq Entries(lists)
       /\ Entries(K) \subseteq Entries(lists) /\ Entries(M) = Entries(lists)
  BY <1>1, <1>3, <1>8, <1>11, <1>18 DEF Only
<1>20. Keeps(m, d, lists, Z) /\ Keeps(d, e, L, Y) /\ Keeps(e, r, K, X)
         /\ Z \subseteq Entries(lists) /\ Z \in SUBSET Entries(M)
  BY <1>8, <1>11, <1>18
<1> HIDE DEF X, Y, Z
<1>21. Keeps(m, e, lists, Z)
  BY <1>19, <1>20, KeepsBoth
<1>22. Keeps(m, r, lists, Z)
  BY <1>19, <1>20, <1>21, KeepsBoth
<1>23. \A a \in Entries(lists) \ Entries(M) : r.next[a] = a /\ r.prev[a] = a
  BY <1>19
<1> QED
  BY <1>2, <1>18, <1>20, <1>22, <1>23, Done

-----------------------------------------------------------------------------
(* The invariant and what it tells *)

(* Initially every list is empty and every entry points to itself.         *)
LEMMA InitLinks ==
  ASSUME NodeAssumption, Init
  PROVE  LinksInv
<1>1. /\ \A x \in Node : m.next[x] = x /\ m.prev[x] = x
      /\ m \in Mem(Node)
  BY DEF Init, Mem
<1>2. lists \in [LIST_HEAD -> Seq(Entry)] /\ nulled = {} /\ \A l \in LIST_HEAD : lists[l] = <<>>
  BY DEF Init
<1>3. ASSUME NEW l \in LIST_HEAD
      PROVE  Ring(Node, l, lists[l]) /\ Circle(m, l, lists[l]) /\ ToSet(lists[l]) = {}
  <2>1. l \in Node /\ m.next[l] = l /\ m.prev[l] = l
    BY <1>1 DEF Node
  <2>2. Ring(Node, l, <<>>) /\ Circle(m, l, <<>>) /\ ToSet(<<>>) = {}
    BY <2>1, EmptyCircle
  <2> QED
    BY <1>2, <2>2
<1>4. Circles(m, lists)
  BY <1>1, <1>2, <1>3 DEF Circles
<1>5. Offs(m, lists, nulled)
  BY <1>1, <1>2 DEF Offs, Node
<1> QED
  BY <1>4, <1>5 DEF LinksInv

(* The links stay right through every operation of src/lib/list.h that the *)
(* machine calls.                                                          *)
THEOREM LinksInvariance == Spec => []LinksInv
<1>1. Init => LinksInv
  BY NodeAssumption, InitLinks
<1>2. LinksInv /\ [Next]_vars => LinksInv'
  <2> SUFFICES ASSUME LinksInv, [Next]_vars PROVE LinksInv'
    OBVIOUS
  <2>1. CASE UNCHANGED vars
    BY <2>1 DEF vars, LinksInv, Circles, Offs, Entries, Within, Circle, At
  <2>2. CASE Insert
    BY <2>2, NodeAssumption, InsertStep
  <2>3. CASE Delete
    BY <2>3, NodeAssumption, DeleteStep
  <2>4. CASE Safe
    BY <2>4, NodeAssumption, SafeStep
  <2>5. CASE Move
    BY <2>5, NodeAssumption, MoveStep
  <2>6. CASE Replace
    BY <2>6, NodeAssumption, ReplaceStep
  <2>7. CASE Swap
    BY <2>7, NodeAssumption, SwapStep
  <2>8. CASE BulkMove
    BY <2>8, NodeAssumption, BulkMoveStep
  <2>9. CASE Rotate
    BY <2>9, NodeAssumption, RotateStep
  <2>10. CASE Cut
    BY <2>10, NodeAssumption, CutStep
  <2>11. CASE Splice
    BY <2>11, NodeAssumption, SpliceStep
  <2> QED
    BY <2>1, <2>2, <2>3, <2>4, <2>5, <2>6, <2>7, <2>8, <2>9, <2>10, <2>11 DEF Next
<1> QED
  BY <1>1, <1>2, PTL DEF Spec

(* The same of the lists of the machine.                                   *)
LEMMA ListLinks ==
  ASSUME NodeAssumption, LinksInv, NEW l \in LIST_HEAD
  PROVE  /\ m.next[l] = IF Len(lists[l]) = 0 THEN l ELSE lists[l][1]
         /\ m.prev[l] = IF Len(lists[l]) = 0 THEN l ELSE lists[l][Len(lists[l])]
         /\ \A i \in 1 .. Len(lists[l]) :
              /\ lists[l][i] \in Node /\ lists[l][i] # l
              /\ m.next[lists[l][i]] = IF i = Len(lists[l]) THEN l ELSE lists[l][i + 1]
              /\ m.prev[lists[l][i]] = IF i = 1 THEN l ELSE lists[l][i - 1]
         /\ \A i, j \in 1 .. Len(lists[l]) : lists[l][i] = lists[l][j] => i = j
<1>1. m \in Mem(Node) /\ Ring(Node, l, lists[l]) /\ Circle(m, l, lists[l])
  BY ListFacts
<1> QED
  BY <1>1, CircleLinks

(* With the links right, list_for_each and list_for_each_prev visit        *)
(* exactly the list.                                                       *)
LEMMA LinksWalks ==
  ASSUME NodeAssumption, LinksInv
  PROVE  WalksAgree
<1> SUFFICES ASSUME NEW l \in LIST_HEAD
             PROVE  list_for_each(m, l) = lists[l] /\ list_for_each_prev(m, l) = Reverse(lists[l])
  BY DEF WalksAgree
<1>1. m \in Mem(Node) /\ Ring(Node, l, lists[l]) /\ Circle(m, l, lists[l])
  BY ListFacts
<1>2. IsFiniteSet(Node)
  BY DEF NodeAssumption, Node
<1> QED
  BY <1>1, <1>2, CircleWalks

(* With the links right, an entry in no list is harmless.                  *)
LEMMA LinksOff ==
  ASSUME LinksInv
  PROVE  OffListEntriesHarmless
<1>1. Linked = Entries(lists)
  BY DEF Linked, In, Entries, Within
<1> QED
  BY <1>1 DEF LinksInv, Offs, OffListEntriesHarmless, Off

(* With the links right, the tests and the accessors of list.h tell the    *)
(* truth.                                                                  *)
LEMMA LinksTests ==
  ASSUME NodeAssumption, LinksInv
  PROVE  TestsAgree
<1> SUFFICES ASSUME NEW l \in LIST_HEAD
             PROVE  LET n == Len(lists[l]) IN
                    /\ list_empty(m, l) <=> n = 0
                    /\ list_is_singular(m, l) <=> n = 1
                    /\ \A i \in 1 .. n :
                         /\ list_is_first(m, lists[l][i], l) <=> i = 1
                         /\ list_is_last(m, lists[l][i], l) <=> i = n
                         /\ list_next_entry_circular(m, lists[l][i], l) = lists[l][(i % n) + 1]
                         /\ list_prev_entry_circular(m, lists[l][i], l)
                              = lists[l][((i + n - 2) % n) + 1]
  BY DEF TestsAgree
<1> DEFINE s == lists[l]
           n == Len(s)
<1>1. n \in Nat
  BY ListFacts
<1>2. /\ m.next[l] = IF n = 0 THEN l ELSE s[1]
      /\ m.prev[l] = IF n = 0 THEN l ELSE s[n]
      /\ \A i \in 1 .. n :
           /\ s[i] \in Node /\ s[i] # l
           /\ m.next[s[i]] = IF i = n THEN l ELSE s[i + 1]
           /\ m.prev[s[i]] = IF i = 1 THEN l ELSE s[i - 1]
      /\ \A i, j \in 1 .. n : s[i] = s[j] => i = j
  BY ListLinks
<1>3. list_empty(m, l) <=> n = 0
  BY EmptyTest
<1> HIDE DEF s, n
<1>4. list_is_singular(m, l) <=> n = 1
  <2>1. n # 0 => 1 \in 1 .. n /\ n \in 1 .. n
    BY <1>1
  <2> QED
    BY <1>2, <1>3, <2>1 DEF list_is_singular
<1>5. ASSUME NEW i \in 1 .. n
      PROVE  /\ list_is_first(m, s[i], l) <=> i = 1
             /\ list_is_last(m, s[i], l) <=> i = n
             /\ list_next_entry_circular(m, s[i], l) = s[(i % n) + 1]
             /\ list_prev_entry_circular(m, s[i], l) = s[((i + n - 2) % n) + 1]
  <2>1. n \in Nat \ {0} /\ i \in Int
    BY <1>1
  <2>2. list_is_first(m, s[i], l) <=> i = 1
    <3>1. i # 1 => i - 1 \in 1 .. n
      BY <2>1
    <3> QED
      BY <3>1, <1>2 DEF list_is_first
  <2>3. list_is_last(m, s[i], l) <=> i = n
    <3>1. i # n => i + 1 \in 1 .. n
      BY <2>1
    <3> QED
      BY <3>1, <1>2 DEF list_is_last
  <2>4. (i % n) + 1 = IF i = n THEN 1 ELSE i + 1
    <3>1. i = n => i % n = 0
      BY <2>1
    <3>2. i # n => i \in 0 .. n - 1
      BY <2>1
    <3>3. i # n => i % n = i
      BY <2>1, <3>2
    <3> QED
      BY <2>1, <3>1, <3>3
  <2>5. ((i + n - 2) % n) + 1 = IF i = 1 THEN n ELSE i - 1
    <3>1. CASE i = 1
      <4>1. i + n - 2 = n - 1 /\ n - 1 \in 0 .. n - 1
        BY <2>1, <3>1
      <4>2. (n - 1) % n = n - 1
        BY <2>1, <4>1
      <4> QED
        BY <2>1, <3>1, <4>1, <4>2
    <3>2. CASE i # 1
      <4> DEFINE j == i - 2
      <4>1. i + n - 2 = n + j /\ j \in 0 .. n - 1 /\ j + 1 = i - 1
        BY <2>1, <3>2
      <4> HIDE DEF j
      <4>2. (n + j) % n = j
        BY <2>1, <4>1
      <4> QED
        BY <3>2, <4>1, <4>2
    <3> QED
      BY <3>1, <3>2
  <2>6. list_next_entry_circular(m, s[i], l) = s[(i % n) + 1]
    BY <2>3, <2>4, <1>2 DEF list_next_entry_circular
  <2>7. list_prev_entry_circular(m, s[i], l) = s[((i + n - 2) % n) + 1]
    BY <2>2, <2>5, <1>2 DEF list_prev_entry_circular
  <2> QED
    BY <2>2, <2>3, <2>6, <2>7
<1> QED
  BY <1>3, <1>4, <1>5 DEF s, n

(* The runs check the two machines of MCLists side by side; each of its    *)
(* steps is a step of one and leaves the other alone.                      *)
LEMMA BothRefines == BothSpec => Spec
<1>1. BothInit => Init
  BY DEF BothInit
<1>2. [BothNext]_<<vars, hvars>> => [Next]_vars
  BY DEF BothNext
<1> QED
  BY <1>1, <1>2, PTL DEF BothSpec, Spec

(* The iterators of list.h visit the list in its order, both ways,         *)
(* whatever operations came before.                                        *)
THEOREM ListWalks == Spec => []WalksAgree
<1>1. LinksInv => WalksAgree
  BY NodeAssumption, LinksWalks
<1> QED
  BY <1>1, LinksInvariance, PTL

(* list_empty, list_is_first, list_is_last, list_is_singular and the       *)
(* neighbour accessors tell what is in the list.                           *)
THEOREM ListTests == Spec => []TestsAgree
<1>1. LinksInv => TestsAgree
  BY NodeAssumption, LinksTests
<1> QED
  BY <1>1, LinksInvariance, PTL

(* An entry in no list points to itself or to NULL: no operation leaves a  *)
(* link into a list it has left.                                           *)
THEOREM ListsHarmless == Spec => []OffListEntriesHarmless
<1>1. LinksInv => OffListEntriesHarmless
  BY LinksOff
<1> QED
  BY <1>1, LinksInvariance, PTL

(* The properties of the circular lists, of the specification the run      *)
(* Lists checks.                                                           *)
THEOREM ListsChecked == BothSpec => [](WalksAgree /\ TestsAgree /\ OffListEntriesHarmless)
  BY BothRefines, ListWalks, ListTests, ListsHarmless, PTL
-----------------------------------------------------------------------------

(* What holds of memory, buckets and fakes between two operations is the   *)
(* inductive invariant of the hash lists of the machine.                   *)
HashInv == Strands(Bucket, Entry, hm, buckets, fakes)

(* Its buckets and its entries are apart.                                  *)
LEMMA HashSets == ASSUME NodeAssumption, BucketAssumption PROVE HSets(Bucket, Entry)
<1>1. Entry \subseteq LIST_HEAD \cup Entry
  OBVIOUS
<1>2. IsFiniteSet(Entry)
  BY <1>1, FS_Subset DEF NodeAssumption
<1> QED
  BY <1>2 DEF HSets, NodeAssumption, BucketAssumption

(* Fakes, and moving a whole bucket                                        *)

(* Nodes in no bucket are marked or unmarked as fakes.                     *)
LEMMA HFakes ==
  ASSUME NodeAssumption, BucketAssumption, HSets(Bucket, Entry), NEW mem, NEW L, NEW F,
           Strands(Bucket, Entry, mem, L, F),
         NEW n \in Entry, ~ InSome(L, Bucket, n), NEW r \in HMem(Bucket, Entry),
           NEW G \in SUBSET Entry,
         r.next = mem.next, \A y \in Entry : y # n
           => r.pprev[y] = mem.pprev[y] /\ (y \in G <=> y \in F),
         r.pprev[n] = IF n \in G THEN n ELSE NULL
  PROVE  Strands(Bucket, Entry, r, L, G)
<1> DEFINE X == {n}
           S == {}
<1>1. HChanged(Bucket, Entry, L, L, S) /\ HFree(Bucket, Entry, L, X)
  BY DEF HChanged, Strands, HFree
<1>2. HMade(Bucket, Entry, r, L, L, S, X)
  BY DEF HMade, Apart, InSome
<1>3. HRest(Bucket, Entry, mem, r, L, S, X, F, G)
  BY DEF HRest
<1>4. mem.next[n] = NULL
  BY DEF Strands, Alone
<1>5. HLeft(Bucket, Entry, r, L, L, S, X, G)
  BY <1>4 DEF HLeft, Alone, InSome
<1>6. S \in SUBSET Bucket
  OBVIOUS
<1> HIDE DEF S, X
<1> QED
  BY <1>1, <1>2, <1>3, <1>5, <1>6, SomeStrands

(* hlist_add_fake of an unhashed node makes a fake.                        *)
LEMMA HAddFake ==
  ASSUME NodeAssumption, BucketAssumption, HSets(Bucket, Entry), NEW mem, NEW L, NEW F,
           Strands(Bucket, Entry, mem, L, F),
         NEW n \in Entry, ~ InSome(L, Bucket, n)
  PROVE  Strands(Bucket, Entry, hlist_add_fake(mem, n), L, F \cup {n})
<1> DEFINE r == hlist_add_fake(mem, n)
           G == F \cup {n}
<1>1. mem \in HMem(Bucket, Entry) /\ F \in SUBSET Entry
  BY DEF Strands
<1>2. r \in HMem(Bucket, Entry) /\ r.next = mem.next /\ r.pprev[n] = n /\ \A y \in Entry : y # n
        => r.pprev[y] = mem.pprev[y]
  BY <1>1 DEF HMem, HNode, hlist_add_fake
<1>3. n \in G /\ G \in SUBSET Entry /\ \A y \in Entry : y # n => (y \in G <=> y \in F)
  BY <1>1
<1> HIDE DEF r, G
<1>4. Strands(Bucket, Entry, r, L, G)
  BY <1>2, <1>3, HFakes
<1> QED
  BY <1>4 DEF r, G

(* hlist_del of a fake.                                                    *)
LEMMA HDelFake ==
  ASSUME NodeAssumption, BucketAssumption, HSets(Bucket, Entry), NEW mem, NEW L, NEW F,
           Strands(Bucket, Entry, mem, L, F),
         NEW n \in F, NEW r, HLinkedOut(Bucket, Entry, mem, r, n)
  PROVE  Strands(Bucket, Entry, r, L, F \ {n})
<1> DEFINE G == F \ {n}
<1>1. mem \in HMem(Bucket, Entry) /\ F \in SUBSET Entry /\ r \in HMem(Bucket, Entry)
        /\ n \in Entry /\ n # NULL
  BY DEF Strands, HLinkedOut, NodeAssumption
<1>2. ~ InSome(L, Bucket, n) /\ mem.next[n] = NULL /\ mem.pprev[n] = n
  BY <1>1 DEF Strands, Alone
<1>3. \A x \in HNode(Bucket, Entry) : r.next[x] = mem.next[x]
  BY <1>2 DEF HLinkedOut
<1>4. r.next = mem.next
  BY <1>1, <1>3 DEF HMem
<1>5. \A x \in Entry : x # n => r.pprev[x] = mem.pprev[x]
  BY <1>2 DEF HLinkedOut, NodeAssumption
<1>6. r.pprev[n] = NULL
  BY <1>1 DEF HLinkedOut
<1>7. n \notin G /\ G \in SUBSET Entry /\ \A y \in Entry : y # n => (y \in G <=> y \in F)
  BY <1>1
<1> HIDE DEF G
<1>8. Strands(Bucket, Entry, r, L, G)
  BY <1>1, <1>2, <1>4, <1>5, <1>6, <1>7, HFakes
<1> QED
  BY <1>8 DEF G

(* Storing two buckets changes these two.                                  *)
LEMMA HSetLists ==
  ASSUME NEW L \in [Bucket -> Seq(Entry)], NEW h \in Bucket, NEW g \in Bucket, h # g,
         NEW s \in Seq(Entry), NEW t \in Seq(Entry)
  PROVE  /\ HChanged(Bucket, Entry, L, [L EXCEPT ![h] = s, ![g] = t], {h, g})
         /\ [L EXCEPT ![h] = s, ![g] = t][h] = s /\ [L EXCEPT ![h] = s, ![g] = t][g] = t
  BY DEF HChanged

(* hlist_move_list: z takes over the nodes of h.                           *)
HTaken(mem, r, h, z) ==
  /\ r \in HMem(Bucket, Entry)
  /\ \A x \in HNode(Bucket, Entry) : r.next[x] = IF x = h THEN NULL
                                       ELSE IF x = z THEN mem.next[h] ELSE mem.next[x]
  /\ \A x \in Entry : r.pprev[x] = IF x = mem.next[h] THEN z ELSE mem.pprev[x]

(* hlist_move_list takes the nodes.                                        *)
LEMMA HMoveList ==
  ASSUME NodeAssumption, BucketAssumption, HSets(Bucket, Entry), NEW mem \in HMem(Bucket, Entry),
           NEW h \in Bucket, NEW z \in Bucket,
           h # z
  PROVE  HTaken(mem, hlist_move_list(mem, h, z), h, z)
<1>1. mem.next[h] = NULL \/ mem.next[h] \in Entry
  BY DEF HMem, HNode
<1>2. h \in HNode(Bucket, Entry) /\ z \in HNode(Bucket, Entry) /\ NULL \notin Entry
  BY DEF HNode, NodeAssumption
<1>3. CASE mem.next[h] = NULL
  BY <1>2, <1>3 DEF hlist_move_list, SetPprev, HTaken, HMem
<1>4. CASE mem.next[h] # NULL
  BY <1>1, <1>2, <1>4 DEF hlist_move_list, SetPprev, HTaken, HMem
<1> QED
  BY <1>3, <1>4

(* The strand of h becomes one of z.                                       *)
LEMMA HTakenStrand ==
  ASSUME NodeAssumption, BucketAssumption, HSets(Bucket, Entry), NEW mem, NEW L, NEW F,
           Strands(Bucket, Entry, mem, L, F),
         NEW h \in Bucket, NEW z \in Bucket, h # z, L[z] = <<>>,
         NEW M, HChanged(Bucket, Entry, L, M, {h, z}), M[h] = <<>>, M[z] = L[h],
         NEW r, HTaken(mem, r, h, z)
  PROVE  Strands(Bucket, Entry, r, M, F)
<1> DEFINE s == L[h]
           N == Len(s)
           P(i) == HAt(h, s, i)
           Q(i) == HAt(z, s, i)
           X == {}
           S == {h, z}
<1>1. /\ s \in Seq(Entry) /\ N \in Nat
      /\ \A i \in 0 .. N : P(i) \in HNode(Bucket, Entry) /\ P(i) # NULL
      /\ \A i \in 1 .. N : P(i) \in Entry /\ P(i) = s[i]
      /\ P(0) = h /\ P(N + 1) = NULL
      /\ \A i, j \in 0 .. N : P(i) = P(j) => i = j
  <2>1. \A i, j \in 0 .. Len(L[h]) : HAt(h, L[h], i) = HAt(h, L[h], j) => i = j
    BY HPlaces
  <2> QED
    BY <2>1, HPlaces
<1>2. /\ \A i \in 0 .. N : mem.next[P(i)] = P(i + 1)
      /\ \A i \in 1 .. N : mem.pprev[P(i)] = P(i - 1)
  BY DEF Strands, Strand
<1>3. Q(0) = z /\ \A i \in 1 .. N + 1 : Q(i) = P(i)
  <2>1. \A i \in 1 .. N + 1 : i # 0
    BY <1>1
  <2> QED
    BY <2>1 DEF HAt
<1>4. h \notin Entry /\ z \notin Entry /\ h \in HNode(Bucket, Entry)
        /\ z \in HNode(Bucket, Entry) /\ NULL \notin Entry
  BY DEF BucketAssumption, HNode, NodeAssumption
<1>5. mem.next[h] = P(1)
  <2>1. mem.next[P(0)] = P(0 + 1)
    BY <1>1, <1>2
  <2> QED
    BY <1>1, <2>1
<1>6. /\ r \in HMem(Bucket, Entry)
      /\ \A x \in HNode(Bucket, Entry) : r.next[x] = IF x = h THEN NULL
                                           ELSE IF x = z THEN mem.next[h]
                            ELSE mem.next[x]
      /\ \A x \in Entry : r.pprev[x] = IF x = mem.next[h] THEN z ELSE mem.pprev[x]
  BY DEF HTaken
<1>7. Strand(r, z, M[z])
  <2> HIDE DEF P, Q, s, N
  <2>1. ASSUME NEW i \in 0 .. N
        PROVE  r.next[Q(i)] = Q(i + 1)
    <3>1. CASE i = 0
      <4>1. Q(i + 1) = P(1)
        <5>1. i + 1 = 1 /\ 1 \in 1 .. N + 1
          BY <3>1, <1>1
        <5> QED
          BY <5>1, <1>3
      <4> QED
        BY <3>1, <4>1, <1>3, <1>4, <1>5, <1>6
    <3>2. CASE i # 0
      <4>1. i \in 1 .. N /\ i \in 1 .. N + 1 /\ i + 1 \in 1 .. N + 1
        BY <3>2, <1>1
      <4>2. Q(i) = P(i) /\ Q(i + 1) = P(i + 1) /\ P(i) \in Entry /\ P(i) \in HNode(Bucket, Entry)
        BY <4>1, <1>1, <1>3
      <4> QED
        BY <4>2, <1>2, <1>4, <1>6
    <3> QED
      BY <3>1, <3>2
  <2>2. ASSUME NEW i \in 1 .. N
        PROVE  r.pprev[Q(i)] = Q(i - 1)
    <3>1. i \in 1 .. N + 1 /\ i \in 0 .. N /\ 1 \in 0 .. N
      BY <1>1
    <3>2. Q(i) = P(i) /\ P(i) \in Entry
      BY <3>1, <1>1, <1>3
    <3>3. CASE i = 1
      <4>1. i - 1 = 0
        BY <3>3
      <4> QED
        BY <3>2, <3>3, <4>1, <1>3, <1>5, <1>6
    <3>4. CASE i # 1
      <4>1. i - 1 \in 1 .. N + 1
        BY <3>4, <1>1
      <4>2. P(i) # P(1) /\ Q(i - 1) = P(i - 1)
        BY <3>1, <3>4, <4>1, <1>1, <1>3
      <4> QED
        BY <3>2, <4>2, <1>2, <1>5, <1>6
    <3> QED
      BY <3>3, <3>4
  <2>3. M[z] = s
    BY DEF s
  <2> QED
    BY <2>1, <2>2, <2>3 DEF Strand, Q, N
<1>8. Strand(r, h, M[h])
  <2> DEFINE e == <<>>
  <2>1. Len(e) = 0 /\ HAt(h, e, 0) = h /\ HAt(h, e, 1) = NULL
    BY DEF HAt
  <2> HIDE DEF e
  <2>2. r.next[h] = NULL
    BY <1>4, <1>6
  <2>3. Strand(r, h, e)
    <3>1. \A i \in 0 .. Len(e) : i = 0 /\ i + 1 = 1
      BY <2>1
    <3>2. \A i \in 1 .. Len(e) : FALSE
      BY <2>1
    <3> QED
      BY <2>1, <2>2, <3>1, <3>2 DEF Strand
  <2> QED
    BY <2>3 DEF e
<1>9. \A y : InSome(M, S, y) <=> \E i \in 1 .. N : s[i] = y
  BY DEF InSome
<1>10. \A y : InSome(L, S, y) <=> \E i \in 1 .. N : s[i] = y
  BY DEF InSome
<1>11. Apart(M, S)
  <2>1. Len(M[h]) = 0 /\ M[z] = s
    OBVIOUS
  <2>2. \A i, j \in 1 .. N : s[i] = s[j] => i = j
    <3>1. \A i \in 1 .. N : P(i) = s[i] /\ i \in 0 .. N
      BY <1>1
    <3> HIDE DEF P, s, N
    <3> QED
      BY <3>1, <1>1
  <2>3. \A g \in S : \A i \in 1 .. Len(M[g]) : g = z
    BY <2>1
  <2>4. Len(M[z]) = N
    BY <2>1
  <2> HIDE DEF s, N, S
  <2> QED
    BY <2>1, <2>2, <2>3, <2>4 DEF Apart
<1>12. HMade(Bucket, Entry, r, L, M, S, X)
  BY <1>7, <1>8, <1>9, <1>10, <1>11 DEF HMade
<1>13. HFree(Bucket, Entry, L, X) /\ S \in SUBSET Bucket /\ F \in SUBSET Entry
  BY DEF HFree, Strands
<1>14. P(1) = NULL \/ InSome(L, S, P(1))
  <2>1. N = 0 \/ 1 \in 1 .. N
    BY <1>1
  <2>2. CASE N = 0
    <3>1. N + 1 = 1
      BY <2>2
    <3> HIDE DEF P, N
    <3> QED
      BY <3>1, <1>1
  <2>3. CASE 1 \in 1 .. N
    <3>1. P(1) = s[1]
      BY <2>3, <1>1
    <3> HIDE DEF P, s, N, S
    <3> QED
      BY <2>3, <3>1, <1>10
  <2> QED
    BY <2>1, <2>2, <2>3
<1> HIDE DEF P, Q, s, N
<1>15. HRest(Bucket, Entry, mem, r, L, S, X, F, F)
  <2>1. \A y \in HNode(Bucket, Entry) : y \in S \/ r.next[y] = mem.next[y]
    BY <1>6
  <2>2. \A y \in Entry : InSome(L, S, y) \/ r.pprev[y] = mem.pprev[y]
    BY <1>4, <1>5, <1>6, <1>14
  <2> QED
    BY <2>1, <2>2 DEF HRest
<1>16. HLeft(Bucket, Entry, r, L, M, S, X, F)
  <2>1. \A y \in Entry : InSome(L, S, y) => y \notin F
    <3>1. \A y \in Entry : InSome(L, S, y) => InSome(L, Bucket, y)
      BY <1>13 DEF InSome
    <3> QED
      BY <3>1 DEF Strands
  <2> QED
    BY <2>1, <1>9, <1>10 DEF HLeft
<1>17. HChanged(Bucket, Entry, L, M, S)
  OBVIOUS
<1> HIDE DEF X, S
<1> QED
  BY <1>6, <1>12, <1>13, <1>15, <1>16, <1>17, SomeStrands

-----------------------------------------------------------------------------
(* The steps of HListMachine *)

(* HListMachine calls the operators of Lists under names of its own: those *)
(* that write,                                                             *)
LEMMA SameHead ==
  ASSUME NEW mem, NEW n, NEW h
  PROVE  /\ Hash!hlist_add_head(mem, n, h) = hlist_add_head(mem, n, h)
         /\ Hash!hlist_add_before(mem, n, h) = hlist_add_before(mem, n, h)
         /\ Hash!hlist_add_behind(mem, n, h) = hlist_add_behind(mem, n, h)
         /\ Hash!hlist_del(mem, n) = hlist_del(mem, n)
         /\ Hash!hlist_del_init(mem, n) = hlist_del_init(mem, n)
         /\ Hash!hlist_add_fake(mem, n) = hlist_add_fake(mem, n)
         /\ Hash!hlist_move_list(mem, n, h) = hlist_move_list(mem, n, h)
  BY DEF hlist_add_head, hlist_add_before, hlist_add_behind, hlist_del, hlist_del_init,
       __hlist_del, hlist_unhashed,
     SetPprev, INIT_HLIST_NODE, hlist_add_fake, hlist_move_list,
     Hash!hlist_add_head, Hash!hlist_add_before, Hash!hlist_add_behind, Hash!hlist_del,
       Hash!hlist_del_init, Hash!__hlist_del,
     Hash!hlist_unhashed, Hash!SetPprev, Hash!INIT_HLIST_NODE, Hash!hlist_add_fake,
       Hash!hlist_move_list

(* the walk,                                                               *)
LEMMA SameEach ==
  ASSUME NEW mem, NEW h
  PROVE  Hash!hlist_for_each(mem, h) = hlist_for_each(mem, h)
  BY Zenon DEF Hash!hlist_for_each, hlist_for_each, Hash!Visit, Visit, Hash!Range, Range,
       Hash!Cardinality, Cardinality

(* and those on sequences.                                                 *)
LEMMA SameSeq ==
  ASSUME NEW s, NEW x, NEW i
  PROVE  /\ Hash!RemoveFirst(s, x) = RemoveFirst(s, x)
         /\ Hash!InsertAt(s, i, x) = InsertAt(s, i, x)
         /\ Hash!ToSet(s) = ToSet(s)
  BY DEF Hash!RemoveFirst, RemoveFirst, Hash!InsertAt, InsertAt, Hash!ToSet, ToSet,
       Hash!SelectInSeq, SelectInSeq, Hash!RemoveAt, RemoveAt, Hash!Min, Min

(* A node can be added when it is in no bucket and no fake.                *)
LEMMA HashOff ==
  ASSUME NodeAssumption, BucketAssumption, HSets(Bucket, Entry), HashInv
  PROVE  \A n \in Entry : n \in Hash!Off <=> ~ InSome(buckets, Bucket, n) /\ n \notin fakes
<1>1. \A h \in Bucket : buckets[h] \in Seq(Entry)
  BY DEF HashInv, Strands
<1>2. \A h \in Bucket : DOMAIN buckets[h] = 1 .. Len(buckets[h])
  BY <1>1
<1> QED
  BY <1>2 DEF Hash!Off, Hash!Hashed, Hash!In, InSome, Hash!ToSet, ToSet

(* The place of a node in its bucket.                                      *)
LEMMA HNodeOf ==
  ASSUME NEW h \in Bucket, HashInv, NEW x \in Hash!In(h)
  PROVE  /\ Hash!Place(h, x) \in 1 .. Len(buckets[h]) /\ buckets[h][Hash!Place(h, x)] = x
         /\ x \in Entry
<1> DEFINE s == buckets[h]
           k == Hash!Place(h, x)
<1>1. s \in Seq(Entry)
  BY DEF HashInv, Strands
<1>2. DOMAIN s = 1 .. Len(s)
  BY <1>1
<1>3. \E i \in 1 .. Len(s) : s[i] = x
  BY <1>2 DEF Hash!In, Hash!ToSet
<1>4. k \in 1 .. Len(s) /\ s[k] = x
  BY <1>2, <1>3 DEF Hash!Place
<1> HIDE DEF k
<1>5. x \in Entry
  BY <1>1, <1>4
<1> QED
  BY <1>4, <1>5 DEF k, s

(* n joins the bucket h behind its place c.                                *)
LEMMA HInserted ==
  ASSUME NodeAssumption, BucketAssumption, HSets(Bucket, Entry), HashInv, NEW n \in Hash!Off,
           NEW h \in Bucket,
         NEW c \in 0 .. Len(buckets[h]), NEW r,
           HLinkedIn(Bucket, Entry, hm, r, n, HAt(h, buckets[h], c)),
         NEW s, s = InsertAt(buckets[h], c + 1, n), hm' = r,
           buckets' = [buckets EXCEPT ![h] = s], UNCHANGED fakes
  PROVE  HashInv'
<1>1. buckets \in [Bucket -> Seq(Entry)] /\ buckets[h] \in Seq(Entry)
        /\ Strands(Bucket, Entry, hm, buckets, fakes)
  BY DEF HashInv, Strands
<1>2. n \in Entry /\ ~ InSome(buckets, Bucket, n) /\ n \notin fakes
  <2>1. n \in Entry
    BY DEF Hash!Off
  <2> QED
    BY <2>1, HashOff
<1> DEFINE k == c + 1
<1>3. k \in 1 .. Len(buckets[h]) + 1
  BY <1>1
<1> HIDE DEF k
<1>4. InsertAt(buckets[h], k, n) \in Seq(Entry)
  BY <1>1, <1>2, <1>3, InsertAtIndex
<1>5. s \in Seq(Entry)
  BY <1>4 DEF k
<1> DEFINE M == [buckets EXCEPT ![h] = s]
<1>6. HChanged(Bucket, Entry, buckets, M, Only(h)) /\ M[h] = s
  BY <1>1, <1>5, HSetList
<1> HIDE DEF M
<1>7. M[h] = InsertAt(buckets[h], c + 1, n)
  BY <1>6
<1>8. Strands(Bucket, Entry, r, M, fakes)
  BY <1>1, <1>2, <1>6, <1>7, HInsertStrand
<1> QED
  BY <1>8 DEF HashInv, M

(* Nothing points to a node that can be added.                             *)
LEMMA HOffNotPointed ==
  ASSUME NodeAssumption, BucketAssumption, HSets(Bucket, Entry), HashInv, NEW n \in Hash!Off,
           NEW h \in Bucket,
           NEW c \in 0 .. Len(buckets[h])
  PROVE  HAt(h, buckets[h], c) # n /\ hm.next[HAt(h, buckets[h], c)] # n /\ n \in Entry
<1> DEFINE s == buckets[h]
<1>1. Strands(Bucket, Entry, hm, buckets, fakes) /\ Strand(hm, h, s)
  BY DEF HashInv, Strands
<1>2. /\ Len(s) \in Nat /\ HAt(h, s, 0) = h /\ HAt(h, s, Len(s) + 1) = NULL
      /\ \A i \in 1 .. Len(s) : HAt(h, s, i) = s[i] /\ InSome(buckets, Bucket, s[i])
  BY <1>1, HPlaces
<1>3. n \in Entry /\ ~ InSome(buckets, Bucket, n)
  <2>1. n \in Entry
    BY DEF Hash!Off
  <2> QED
    BY <2>1, HashOff
<1>4. c \in 0 .. Len(s)
  OBVIOUS
<1> HIDE DEF s
<1>5. \A i \in 0 .. Len(s) + 1 : HAt(h, s, i) # n
  <2> TAKE i \in 0 .. Len(s) + 1
  <2>1. i = 0 \/ i \in 1 .. Len(s) \/ i = Len(s) + 1
    BY <1>2
  <2> QED
    BY <2>1, <1>2, <1>3 DEF NodeAssumption, BucketAssumption
<1>6. c \in 0 .. Len(s) + 1 /\ c + 1 \in 0 .. Len(s) + 1
  BY <1>2, <1>4
<1>7. hm.next[HAt(h, s, c)] = HAt(h, s, c + 1)
  BY <1>1, <1>4 DEF Strand
<1> QED
  BY <1>3, <1>5, <1>6, <1>7 DEF s

(* Adding at the head, before or behind a node keeps the buckets right.    *)
LEMMA HashAddStep ==
  ASSUME NodeAssumption, BucketAssumption, HSets(Bucket, Entry), HashInv, Hash!Add
  PROVE  HashInv'
<1>1. PICK n \in Hash!Off, h \in Bucket :
        \/ Hash!Do(Hash!hlist_add_head(hm, n, h), [buckets EXCEPT ![h] = <<n>> \o @])
        \/ \E x \in Hash!In(h) :
             \/ Hash!Do(Hash!hlist_add_before(hm, n, x),
                  [buckets EXCEPT ![h] = Hash!InsertAt(@, Hash!Place(h, x), n)])
             \/ Hash!Do(Hash!hlist_add_behind(hm, n, x),
                  [buckets EXCEPT ![h] = Hash!InsertAt(@, Hash!Place(h, x) + 1, n)])
  BY DEF Hash!Add
<1>2. UNCHANGED fakes
  BY DEF Hash!Add
<1>3. hm \in HMem(Bucket, Entry) /\ buckets[h] \in Seq(Entry) /\ Len(buckets[h]) \in Nat
        /\ Strands(Bucket, Entry, hm, buckets, fakes)
  BY DEF HashInv, Strands
<1>4. n \in Entry
  BY DEF Hash!Off
<1>5. CASE Hash!Do(Hash!hlist_add_head(hm, n, h), [buckets EXCEPT ![h] = <<n>> \o @])
  <2> DEFINE c == 0
             r == hlist_add_head(hm, n, h)
             s == <<n>> \o buckets[h]
  <2>1. c \in 0 .. Len(buckets[h]) /\ c + 1 = 1
    BY <1>3
  <2>2. HAt(h, buckets[h], c) = h
    BY DEF HAt
  <2>3. s = InsertAt(buckets[h], 1, n)
    BY <1>3, <1>4, PrependIndex
  <2> HIDE DEF c, s
  <2>4. hm.next[h] # n
    BY <2>1, <2>2, HOffNotPointed
  <2>5. HLinkedIn(Bucket, Entry, hm, r, n, HAt(h, buckets[h], c))
    BY <1>3, <1>4, <2>2, <2>4, HAddHead
  <2>6. s = InsertAt(buckets[h], c + 1, n)
    BY <2>1, <2>3
  <2>7. hm' = r /\ buckets' = [buckets EXCEPT ![h] = s]
    BY <1>5, SameHead DEF Hash!Do, s
  <2> HIDE DEF r
  <2> QED
    BY <1>2, <2>1, <2>5, <2>6, <2>7, HInserted
<1>6. ASSUME NEW x \in Hash!In(h),
             Hash!Do(Hash!hlist_add_before(hm, n, x),
               [buckets EXCEPT ![h] = Hash!InsertAt(@, Hash!Place(h, x), n)])
      PROVE  HashInv'
  <2> DEFINE k == Hash!Place(h, x)
             c == k - 1
             r == hlist_add_before(hm, n, x)
             s == InsertAt(buckets[h], k, n)
             p == HAt(h, buckets[h], c)
  <2>1. k \in 1 .. Len(buckets[h]) /\ buckets[h][k] = x /\ x \in Entry
    BY HNodeOf
  <2>7. hm' = r /\ buckets' = [buckets EXCEPT ![h] = s]
    BY <1>6, SameHead, SameSeq DEF Hash!Do
  <2> HIDE DEF k
  <2>2. /\ x = HAt(h, buckets[h], k) /\ c \in 0 .. Len(buckets[h]) /\ k \in 0 .. Len(buckets[h])
        /\ hm.next[p] = x /\ hm.pprev[x] = p /\ p \in HNode(Bucket, Entry)
    BY <2>1, HPlaceLinks DEF HashInv
  <2>3. c + 1 = k
    BY <1>3, <2>1
  <2> HIDE DEF c, s
  <2>4. p # n /\ x # n
    BY <2>2, HOffNotPointed
  <2> HIDE DEF p
  <2>5. HLinkedIn(Bucket, Entry, hm, r, n, p)
    BY <1>3, <1>4, <2>1, <2>2, <2>4, HAddBefore
  <2>6. s = InsertAt(buckets[h], c + 1, n)
    BY <2>3 DEF s
  <2> HIDE DEF r
  <2> QED
    BY <1>2, <2>2, <2>5, <2>6, <2>7, HInserted DEF p
<1>7. ASSUME NEW x \in Hash!In(h),
             Hash!Do(Hash!hlist_add_behind(hm, n, x),
               [buckets EXCEPT ![h] = Hash!InsertAt(@, Hash!Place(h, x) + 1, n)])
      PROVE  HashInv'
  <2> DEFINE c == Hash!Place(h, x)
             r == hlist_add_behind(hm, n, x)
             s == InsertAt(buckets[h], c + 1, n)
             p == HAt(h, buckets[h], c)
  <2>1. c \in 1 .. Len(buckets[h]) /\ buckets[h][c] = x /\ x \in Entry
    BY HNodeOf
  <2>7. hm' = r /\ buckets' = [buckets EXCEPT ![h] = s]
    BY <1>7, SameHead, SameSeq DEF Hash!Do
  <2> HIDE DEF c
  <2>2. x = p /\ c \in 0 .. Len(buckets[h])
    BY <2>1, HPlaceLinks DEF HashInv
  <2> HIDE DEF s
  <2>4. x # n /\ hm.next[x] # n
    BY <2>2, HOffNotPointed
  <2> HIDE DEF p
  <2>5. HLinkedIn(Bucket, Entry, hm, r, n, p)
    BY <1>3, <1>4, <2>1, <2>2, <2>4, HAddBehind
  <2>6. s = InsertAt(buckets[h], c + 1, n)
    BY DEF s
  <2> HIDE DEF r
  <2> QED
    BY <1>2, <2>2, <2>5, <2>6, <2>7, HInserted DEF p
<1> QED
  BY <1>1, <1>5, <1>6, <1>7

(* So does hlist_add_fake.                                                 *)
LEMMA HashAddFakeStep ==
  ASSUME NodeAssumption, BucketAssumption, HSets(Bucket, Entry), HashInv, Hash!AddFake
  PROVE  HashInv'
<1>1. PICK n \in Hash!Off : Hash!Do(hlist_add_fake(hm, n), buckets) /\ fakes' = fakes \cup {n}
  BY SameHead DEF Hash!AddFake
<1>2. n \in Entry
  BY DEF Hash!Off
<1>3. ~ InSome(buckets, Bucket, n)
  BY <1>2, HashOff
<1>4. Strands(Bucket, Entry, hlist_add_fake(hm, n), buckets, fakes \cup {n})
  BY <1>2, <1>3, HAddFake DEF HashInv
<1> QED
  BY <1>1, <1>4 DEF HashInv, Hash!Do

(* Taking a node out of the buckets changes the one it is in.              *)
LEMMA HashWithout ==
  ASSUME NodeAssumption, BucketAssumption, HSets(Bucket, Entry), HashInv, NEW h \in Bucket,
           NEW k \in 1 .. Len(buckets[h])
  PROVE  /\ HChanged(Bucket, Entry, buckets, Hash!Without(buckets[h][k]), Only(h))
         /\ Hash!Without(buckets[h][k])[h] = RemoveAt(buckets[h], k)
<1> DEFINE s == buckets[h]
           x == s[k]
           M == Hash!Without(x)
<1>1. \A g \in Bucket : buckets[g] \in Seq(Entry)
  BY DEF HashInv, Strands
<1>2. s \in Seq(Entry) /\ k \in 1 .. Len(s)
  BY <1>1
<1>3. \A g \in Bucket : \A i \in 1 .. Len(buckets[g]), j \in 1 .. Len(s) : buckets[g][i] = s[j]
                          => g = h /\ i = j
  BY DEF HashInv, Strands, Apart
<1>4. M = [g \in Bucket |-> RemoveFirst(buckets[g], x)]
  BY SameSeq DEF Hash!Without
<1>5. RemoveFirst(s, x) = RemoveAt(s, k)
  <2>1. \A i, j \in 1 .. Len(s) : s[i] = s[j] => i = j
    BY <1>3
  <2> HIDE DEF s
  <2> QED
    BY <1>2, <2>1, RemoveFirstAt
<1>6. RemoveAt(s, k) \in Seq(Entry)
  BY <1>2, RemoveAtIndex
<1>7. ASSUME NEW g \in Bucket, g # h
      PROVE  RemoveFirst(buckets[g], x) = buckets[g]
  <2>1. DOMAIN buckets[g] = 1 .. Len(buckets[g])
    BY <1>1
  <2>2. x \notin ToSet(buckets[g])
    BY <2>1, <1>2, <1>3, <1>7 DEF ToSet
  <2> HIDE DEF x
  <2> QED
    BY <2>1, <2>2, RemoveFirstNone
<1> HIDE DEF x, M
<1>8. M[h] = RemoveAt(s, k)
  BY <1>4, <1>5
<1>9. \A g \in Bucket : g # h => M[g] = buckets[g]
  BY <1>4, <1>7
<1>10. M \in [Bucket -> Seq(Entry)]
  <2>1. \A g \in Bucket : RemoveFirst(buckets[g], x) \in Seq(Entry)
    BY <1>1, <1>5, <1>6, <1>7
  <2> QED
    BY <1>4, <2>1
<1> QED
  BY <1>8, <1>9, <1>10 DEF HChanged, Only, M, x

(* Taking out a node that is in none changes nothing.                      *)
LEMMA HashWithoutNone ==
  ASSUME HashInv, NEW n, ~ InSome(buckets, Bucket, n)
  PROVE  Hash!Without(n) = buckets
<1>1. \A g \in Bucket : buckets[g] \in Seq(Entry)
  BY DEF HashInv, Strands
<1>2. Hash!Without(n) = [g \in Bucket |-> RemoveFirst(buckets[g], n)]
  BY SameSeq DEF Hash!Without
<1>3. ASSUME NEW g \in Bucket
      PROVE  RemoveFirst(buckets[g], n) = buckets[g]
  <2>1. DOMAIN buckets[g] = 1 .. Len(buckets[g])
    BY <1>1
  <2>2. n \notin ToSet(buckets[g])
    BY <2>1 DEF ToSet, InSome
  <2> QED
    BY <2>1, <2>2, RemoveFirstNone
<1>4. buckets \in [Bucket -> Seq(Entry)]
  BY DEF HashInv, Strands
<1> QED
  BY <1>2, <1>3, <1>4

(* hlist_del of a hashed node or of a fake.                                *)
LEMMA HashDelAny ==
  ASSUME NodeAssumption, BucketAssumption, HSets(Bucket, Entry), HashInv, NEW n \in Entry,
           n \notin Hash!Off
  PROVE  Strands(Bucket, Entry, hlist_del(hm, n), Hash!Without(n), fakes \ {n})
           /\ hm.pprev[n] # NULL
<1> DEFINE r == hlist_del(hm, n)
<1>0. hm \in HMem(Bucket, Entry) /\ fakes \in SUBSET Entry
        /\ Strands(Bucket, Entry, hm, buckets, fakes)
  BY DEF HashInv, Strands
<1>1. CASE InSome(buckets, Bucket, n)
  <2>1. PICK h \in Bucket : \E k \in 1 .. Len(buckets[h]) : buckets[h][k] = n
    BY <1>1 DEF InSome
  <2>2. PICK k \in 1 .. Len(buckets[h]) : buckets[h][k] = n
    BY <2>1
  <2>3. hm.pprev[n] # NULL
    BY <2>2, HPlaceLinks DEF HashInv
  <2>4. HLinkedOut(Bucket, Entry, hm, r, n)
    BY <1>0, <2>3, HDel
  <2> DEFINE M == Hash!Without(n)
  <2>5. HChanged(Bucket, Entry, buckets, M, Only(h)) /\ M[h] = RemoveAt(buckets[h], k)
    BY <2>2, HashWithout
  <2> HIDE DEF M, r
  <2>6. Strands(Bucket, Entry, r, M, fakes)
    BY <1>0, <2>2, <2>4, <2>5, HRemoveStrand
  <2>7. n \notin fakes
    BY <1>0, <1>1 DEF Strands
  <2>8. fakes \ {n} = fakes
    BY <2>7
  <2> QED
    BY <2>3, <2>6, <2>8 DEF M, r
<1>2. CASE ~ InSome(buckets, Bucket, n)
  <2>1. n \in fakes
    BY <1>2, HashOff
  <2>2. hm.pprev[n] = n /\ n # NULL
    BY <1>0, <1>2, <2>1 DEF Strands, Alone, NodeAssumption
  <2>3. HLinkedOut(Bucket, Entry, hm, r, n)
    BY <1>0, <2>2, HDel
  <2> HIDE DEF r
  <2>4. Strands(Bucket, Entry, r, buckets, fakes \ {n})
    BY <1>0, <2>1, <2>3, HDelFake
  <2>5. Hash!Without(n) = buckets
    BY <1>2, HashWithoutNone
  <2> QED
    BY <2>2, <2>4, <2>5 DEF r
<1> QED
  BY <1>1, <1>2

(* Deleting keeps the buckets right, hashed node or fake.                  *)
LEMMA HashDeleteStep ==
  ASSUME NodeAssumption, BucketAssumption, HSets(Bucket, Entry), HashInv, Hash!Delete
  PROVE  HashInv'
<1>1. PICK n \in Entry :
        /\ \/ n \notin Hash!Off /\ Hash!Do(hlist_del(hm, n), Hash!Without(n))
           \/ Hash!Do(hlist_del_init(hm, n), Hash!Without(n))
        /\ fakes' = fakes \ {n}
  BY SameHead DEF Hash!Delete
<1>2. CASE n \notin Hash!Off
  <2>1. Strands(Bucket, Entry, hlist_del(hm, n), Hash!Without(n), fakes \ {n}) /\ hm.pprev[n] # NULL
    BY <1>2, HashDelAny
  <2>2. hlist_del_init(hm, n) = hlist_del(hm, n)
    BY <2>1 DEF hlist_del_init, hlist_unhashed, hlist_del
  <2> QED
    BY <1>1, <2>1, <2>2 DEF HashInv, Hash!Do
<1>3. CASE n \in Hash!Off
  <2>1. ~ InSome(buckets, Bucket, n) /\ n \notin fakes
    BY <1>3, HashOff
  <2>2. Hash!Without(n) = buckets /\ fakes \ {n} = fakes
    BY <2>1, HashWithoutNone
  <2>3. hm.pprev[n] = NULL
    BY <2>1 DEF HashInv, Strands, Alone
  <2>4. hlist_del_init(hm, n) = hm
    BY <2>3 DEF hlist_del_init, hlist_unhashed
  <2>5. Hash!Do(hm, buckets) /\ fakes' = fakes
    BY <1>1, <1>3, <2>2, <2>4
  <2> QED
    BY <2>5 DEF HashInv, Hash!Do
<1> QED
  BY <1>2, <1>3

(* hlist_move_list keeps the buckets right.                                *)
LEMMA HashMoveStep ==
  ASSUME NodeAssumption, BucketAssumption, HSets(Bucket, Entry), HashInv, Hash!MoveList
  PROVE  HashInv'
<1>1. PICK h \in Bucket, z \in Bucket :
        /\ h # z /\ buckets[z] = <<>>
        /\ Hash!Do(hlist_move_list(hm, h, z), [buckets EXCEPT ![z] = buckets[h], ![h] = <<>>])
  BY SameHead DEF Hash!MoveList
<1>2. UNCHANGED fakes
  BY DEF Hash!MoveList
<1> DEFINE M == [buckets EXCEPT ![z] = buckets[h], ![h] = <<>>]
           r == hlist_move_list(hm, h, z)
<1>3. Strands(Bucket, Entry, hm, buckets, fakes) /\ hm \in HMem(Bucket, Entry)
        /\ buckets \in [Bucket -> Seq(Entry)]
        /\ buckets[h] \in Seq(Entry)
  BY DEF HashInv, Strands
<1>4. HTaken(hm, r, h, z)
  BY <1>1, <1>3, HMoveList
<1>5. HChanged(Bucket, Entry, buckets, M, {h, z}) /\ M[h] = <<>> /\ M[z] = buckets[h]
  <2> DEFINE e == <<>>
  <2>1. e \in Seq(Entry)
    OBVIOUS
  <2> HIDE DEF e
  <2>2. HChanged(Bucket, Entry, buckets, [buckets EXCEPT ![z] = buckets[h], ![h] = e], {h, z})
    BY <1>1, <1>3, <2>1 DEF HChanged
  <2>3. [buckets EXCEPT ![z] = buckets[h], ![h] = e][h] = e
          /\ [buckets EXCEPT ![z] = buckets[h], ![h] = e][z] = buckets[h]
    BY <1>1, <1>3, <2>1
  <2> QED
    BY <2>2, <2>3 DEF e
<1> HIDE DEF M, r
<1>6. Strands(Bucket, Entry, r, M, fakes)
  BY <1>1, <1>3, <1>4, <1>5, HTakenStrand
<1> QED
  BY <1>1, <1>2, <1>6 DEF HashInv, Hash!Do, M, r

(* Initially every bucket is empty and every node unhashed.                *)
LEMMA HashInit ==
  ASSUME NodeAssumption, BucketAssumption, HSets(Bucket, Entry), Hash!Init
  PROVE  HashInv
<1> DEFINE e == <<>>
<1>1. /\ hm = [next |-> [x \in HNode(Bucket, Entry) |-> NULL], pprev |-> [x \in Entry |-> NULL]]
      /\ buckets = [h \in Bucket |-> e] /\ fakes = {}
  BY DEF Hash!Init, HNode
<1>2. hm \in HMem(Bucket, Entry) /\ \A x \in HNode(Bucket, Entry) : hm.next[x] = NULL
  BY <1>1 DEF HMem
<1>3. e \in Seq(Entry) /\ Len(e) = 0
  OBVIOUS
<1> HIDE DEF e
<1>4. buckets \in [Bucket -> Seq(Entry)] /\ \A h \in Bucket : buckets[h] = e
  BY <1>1, <1>3
<1>5. Apart(buckets, Bucket) /\ \A x : ~ InSome(buckets, Bucket, x)
  <2>1. \A h \in Bucket : \A i \in 1 .. Len(buckets[h]) : FALSE
    BY <1>3, <1>4
  <2> QED
    BY <2>1 DEF Apart, InSome
<1>6. \A h \in Bucket : Strand(hm, h, buckets[h])
  <2> TAKE h \in Bucket
  <2>1. HAt(h, e, 0) = h /\ HAt(h, e, 1) = NULL /\ h \in HNode(Bucket, Entry)
    BY <1>3 DEF HAt, HNode
  <2>2. \A i \in 0 .. 0 : i = 0 /\ i + 1 = 1
    OBVIOUS
  <2>3. \A i \in 1 .. 0 : FALSE
    OBVIOUS
  <2> QED
    BY <1>2, <1>3, <1>4, <2>1, <2>2, <2>3 DEF Strand
<1>7. \A x \in Entry : Alone(hm, fakes, x)
  BY <1>1 DEF Alone, HNode
<1> QED
  BY <1>1, <1>2, <1>4, <1>5, <1>6, <1>7 DEF HashInv, Strands

(* The buckets stay right through every operation of the hash lists that   *)
(* the machine calls.                                                      *)
THEOREM HashInvariance == Hash!Spec => []HashInv
<1>1. Hash!Init => HashInv
  BY NodeAssumption, BucketAssumption, HashSets, HashInit
<1>2. HashInv /\ [Hash!Next]_(Hash!vars) => HashInv'
  <2> SUFFICES ASSUME HashInv, [Hash!Next]_(Hash!vars) PROVE HashInv'
    OBVIOUS
  <2>1. CASE UNCHANGED Hash!vars
    BY <2>1 DEF Hash!vars, HashInv
  <2>2. CASE Hash!Add
    BY <2>2, NodeAssumption, BucketAssumption, HashSets, HashAddStep
  <2>3. CASE Hash!AddFake
    BY <2>3, NodeAssumption, BucketAssumption, HashSets, HashAddFakeStep
  <2>4. CASE Hash!Delete
    BY <2>4, NodeAssumption, BucketAssumption, HashSets, HashDeleteStep
  <2>5. CASE Hash!MoveList
    BY <2>5, NodeAssumption, BucketAssumption, HashSets, HashMoveStep
  <2> QED
    BY <2>1, <2>2, <2>3, <2>4, <2>5 DEF Hash!Next
<1> QED
  BY <1>1, <1>2, PTL DEF Hash!Spec

-----------------------------------------------------------------------------
(* What the invariant of the hash lists tells *)

(* A node is hashed when some bucket holds it.                             *)
LEMMA HashPlaceOf ==
  ASSUME HashInv, NEW n
  PROVE  n \in Hash!Hashed <=> InSome(buckets, Bucket, n)
<1>1. \A h \in Bucket : buckets[h] \in Seq(Entry)
  BY DEF HashInv, Strands
<1>2. \A h \in Bucket : DOMAIN buckets[h] = 1 .. Len(buckets[h])
  BY <1>1
<1> QED
  BY <1>2 DEF Hash!Hashed, Hash!In, InSome, Hash!ToSet

(* With the buckets right, walks and pprev agree with them.                *)
LEMMA HashBuckets ==
  ASSUME NodeAssumption, BucketAssumption, HSets(Bucket, Entry), HashInv
  PROVE  BucketsAgree
<1>1. ASSUME NEW h \in Bucket
      PROVE  /\ Hash!hlist_for_each(hm, h) = buckets[h]
             /\ Hash!hlist_empty(hm, h) <=> buckets[h] = <<>>
  BY HWalk, SameEach DEF HashInv, Hash!hlist_empty
<1>2. ASSUME NEW n \in Hash!Hashed
      PROVE  hm.next[hm.pprev[n]] = n
  <2>1. PICK h \in Bucket : \E k \in 1 .. Len(buckets[h]) : buckets[h][k] = n
    BY <1>2, HashPlaceOf DEF InSome
  <2>2. PICK k \in 1 .. Len(buckets[h]) : buckets[h][k] = n
    BY <2>1
  <2> QED
    BY <2>2, HPlaceLinks DEF HashInv
<1> QED
  BY <1>1, <1>2 DEF BucketsAgree, Hash!BucketsAgree

(* The bucket holds n and nothing else.                                    *)
OneNode(s, n) == s = <<n>>

(* One node means length 1.                                                *)
LEMMA SingleSeq ==
  ASSUME NEW X, NEW s \in Seq(X), NEW n \in X
  PROVE  OneNode(s, n) <=> Len(s) = 1 /\ s[1] = n
<1> USE DEF OneNode
<1> DEFINE t == <<n>>
<1>1. t \in Seq(X) /\ Len(t) = 1 /\ t[1] = n
  OBVIOUS
<1> HIDE DEF t
<1>2. ASSUME Len(s) = 1, s[1] = n
      PROVE  s = t
  <2>1. \A i \in 1 .. 1 : s[i] = t[i]
    BY <1>1, <1>2
  <2> QED
    BY <1>1, <1>2, <2>1
<1> QED
  BY <1>1, <1>2 DEF t

(* With the buckets right, the tests on a node tell the truth.             *)
LEMMA HashTests ==
  ASSUME NodeAssumption, BucketAssumption, HSets(Bucket, Entry), HashInv
  PROVE  NodeTestsAgree
<1> SUFFICES ASSUME NEW n \in Entry
             PROVE  /\ hm.pprev[n] = NULL <=> n \in Hash!Off
                    /\ hm.pprev[n] = n <=> n \in fakes
                    /\ \A h \in Bucket : hm.next[n] = NULL /\ hm.pprev[n] = h <=> buckets[h] = <<n>>
  BY DEF NodeTestsAgree, Hash!NodeTestsAgree, Hash!hlist_unhashed, Hash!hlist_fake,
       Hash!hlist_is_singular_node
<1>1. Strands(Bucket, Entry, hm, buckets, fakes) /\ n # NULL /\ n \notin Bucket
        /\ NULL \notin Bucket
  BY DEF HashInv, NodeAssumption, BucketAssumption
<1>2. n \in Hash!Off <=> ~ InSome(buckets, Bucket, n) /\ n \notin fakes
  BY HashOff
<1>6. \A h \in Bucket : buckets[h] \in Seq(Entry)
  BY <1>1 DEF Strands
<1>7. \A h \in Bucket : OneNode(buckets[h], n) <=> Len(buckets[h]) = 1 /\ buckets[h][1] = n
  BY <1>6, SingleSeq
<1>8. \A h \in Bucket : OneNode(buckets[h], n) <=> buckets[h] = <<n>>
  BY DEF OneNode
<1>3. CASE ~ InSome(buckets, Bucket, n)
  <2>1. hm.next[n] = NULL /\ hm.pprev[n] = IF n \in fakes THEN n ELSE NULL
    BY <1>1, <1>3 DEF Strands, Alone
  <2>2. ASSUME NEW h \in Bucket
        PROVE  buckets[h] # <<n>>
    <3>1. CASE Len(buckets[h]) = 1 /\ buckets[h][1] = n
      <4>1. 1 \in 1 .. Len(buckets[h])
        BY <3>1
      <4> QED
        BY <3>1, <4>1, <1>3 DEF InSome
    <3> QED
      BY <3>1, <1>7, <1>8
  <2> QED
    BY <2>1, <2>2, <1>1, <1>2, <1>3
<1>4. CASE InSome(buckets, Bucket, n)
  <2>1. PICK g \in Bucket : \E k \in 1 .. Len(buckets[g]) : buckets[g][k] = n
    BY <1>4 DEF InSome
  <2>2. PICK k \in 1 .. Len(buckets[g]) : buckets[g][k] = n
    BY <2>1
  <2> DEFINE s == buckets[g]
             N == Len(s)
             j == k - 1
  <2>3. /\ N \in Nat
        /\ \A i \in 1 .. N : HAt(g, s, i) \in Entry /\ HAt(g, s, i) = s[i]
        /\ HAt(g, s, 0) = g /\ HAt(g, s, N + 1) = NULL
    BY <1>1, HPlaces
  <2>4. \A i, l \in 0 .. N : HAt(g, s, i) = HAt(g, s, l) => i = l
    BY <1>1, HPlaces
  <2>5. /\ \A i \in 0 .. N : hm.next[HAt(g, s, i)] = HAt(g, s, i + 1)
        /\ \A i \in 1 .. N : hm.pprev[HAt(g, s, i)] = HAt(g, s, i - 1)
    BY <1>1 DEF Strands, Strand
  <2>6. k \in 1 .. N /\ s[k] = n
    BY <2>2
  <2> HIDE DEF s, N
  <2>7. j \in 0 .. N /\ k \in 0 .. N /\ j # k
    BY <2>3, <2>6
  <2>8. hm.pprev[n] = HAt(g, s, j) /\ hm.next[n] = HAt(g, s, k + 1) /\ HAt(g, s, k) = n
    BY <2>3, <2>5, <2>6, <2>7
  <2> HIDE DEF j
  <2>9. hm.pprev[n] # n
    BY <2>4, <2>7, <2>8
  <2>10. j # 0 => hm.pprev[n] \in Entry
    <3>1. j # 0 => j \in 1 .. N
      BY <2>3, <2>7
    <3> QED
      BY <3>1, <2>3, <2>8
  <2>11. j = 0 => hm.pprev[n] = g
    BY <2>3, <2>8
  <2>12. hm.pprev[n] # NULL
    BY <2>10, <2>11, <1>1 DEF NodeAssumption
  <2>13. n \notin fakes
    BY <1>1, <1>4 DEF Strands
  <2>14. j = 0 <=> k = 1
    BY <2>3, <2>6 DEF j
  <2>15. hm.next[n] = NULL <=> k = N
    <3>1. CASE k = N
      BY <3>1, <2>3, <2>8
    <3>2. CASE k # N
      <4>1. k + 1 \in 1 .. N
        BY <3>2, <2>3, <2>6
      <4> QED
        BY <3>2, <4>1, <2>3, <2>8 DEF NodeAssumption
    <3> QED
      BY <3>1, <3>2
  <2>16. ASSUME NEW h \in Bucket
         PROVE  hm.next[n] = NULL /\ hm.pprev[n] = h <=> buckets[h] = <<n>>
    <3>1. CASE h = g
      <4>1. buckets[h] = <<n>> <=> N = 1 /\ s[1] = n
        BY <3>1, <1>7, <1>8 DEF s, N
      <4>2. hm.pprev[n] = h <=> k = 1
        BY <3>1, <2>10, <2>11, <2>14 DEF BucketAssumption
      <4>3. N = 1 => k = 1
        BY <2>6
      <4> QED
        BY <4>1, <4>2, <4>3, <2>6, <2>15
    <3>2. CASE h # g
      <4>1. hm.pprev[n] # h
        BY <3>2, <2>10, <2>11 DEF BucketAssumption
      <4>2. buckets[h] # <<n>>
        <5>1. CASE Len(buckets[h]) = 1 /\ buckets[h][1] = n
          <6>1. 1 \in 1 .. Len(buckets[h]) /\ k \in 1 .. Len(buckets[g])
                  /\ buckets[h][1] = buckets[g][k]
            BY <5>1, <2>2
          <6>2. Apart(buckets, Bucket)
            BY <1>1 DEF Strands
          <6> QED
            BY <3>2, <6>1, <6>2 DEF Apart
        <5> QED
          BY <5>1, <1>7, <1>8
      <4> QED
        BY <4>1, <4>2
    <3> QED
      BY <3>1, <3>2
  <2> QED
    BY <2>9, <2>12, <2>13, <2>16, <1>2, <1>4
<1> QED
  BY <1>3, <1>4

(* A step of MCLists is a step of the hash lists or leaves them alone.     *)
LEMMA BothRefinesHash == BothSpec => Hash!Spec
<1>1. BothInit => Hash!Init
  BY DEF BothInit
<1>2. [BothNext]_<<vars, hvars>> => [Hash!Next]_(Hash!vars)
  BY DEF BothNext, hvars, Hash!vars
<1> QED
  BY <1>1, <1>2, PTL DEF BothSpec, Hash!Spec

(* hlist_for_each visits each bucket in its order, and every pprev points  *)
(* to the pointer that points to the node: hlist_del may unlink it without *)
(* knowing the bucket.                                                     *)
THEOREM HashWalks == BothSpec => []BucketsAgree
<1>1. HashInv => BucketsAgree
  BY NodeAssumption, BucketAssumption, HashSets, HashBuckets
<1> QED
  BY <1>1, BothRefinesHash, HashInvariance, PTL

(* hlist_unhashed, hlist_fake, hlist_empty and hlist_is_singular_node tell *)
(* what is in the buckets.                                                 *)
THEOREM HashNodeTests == BothSpec => []NodeTestsAgree
<1>1. HashInv => NodeTestsAgree
  BY NodeAssumption, BucketAssumption, HashSets, HashTests
<1> QED
  BY <1>1, BothRefinesHash, HashInvariance, PTL
=============================================================================
