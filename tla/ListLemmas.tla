----------------------------- MODULE ListLemmas ----------------------------
(***************************************************************************)
(* What the operators of Lists do to lists of any length: the links an     *)
(* operation writes, and the circle or the bucket they make; then to all   *)
(* the lists of one memory.  The proofs about the machines that call them  *)
(* are in ListProofs, NamespaceProofs and Phase1Proofs.                    *)
(***************************************************************************)
EXTENDS Lists, QueueLemmas, FiniteSetTheorems, WellFoundedInduction

-----------------------------------------------------------------------------
(* Walking along the links *)

(* A non-empty set of natural numbers has a least element.                 *)
LEMMA NatMin == ASSUME NEW T \in SUBSET Nat, T # {} PROVE \E x \in T : \A y \in T : x <= y
<1> DEFINE D == {0 .. x : x \in T}
<1>1. IsWellFoundedOn(StrictSubsetOrdering(Nat), FiniteSubsetsOf(Nat))
  BY FS_StrictSubsetOrderingWellFounded
<1>2. D \subseteq FiniteSubsetsOf(Nat)
  <2> SUFFICES ASSUME NEW x \in T PROVE 0 .. x \in SUBSET Nat /\ IsFiniteSet(0 .. x)
    BY DEF FiniteSubsetsOf
  <2>1. x \in Int /\ 0 \in Int
    OBVIOUS
  <2>2. IsFiniteSet(0 .. x)
    BY <2>1, FS_Interval
  <2> QED BY <2>2
<1>3. D # {}
  OBVIOUS
<1>4. \E x \in D : \A y \in D : ~ (<<y, x>> \in StrictSubsetOrdering(Nat))
  <2> HIDE DEF D
  <2> QED BY <1>1, <1>2, <1>3, WFMin
<1>5. PICK x \in T : \A y \in T : ~ (<<0 .. y, 0 .. x>> \in StrictSubsetOrdering(Nat))
  BY <1>4
<1>6. ASSUME NEW y \in T, ~ (x <= y) PROVE FALSE
  <2>1. 0 .. y \subseteq 0 .. x /\ x \in 0 .. x /\ x \notin 0 .. y /\ 0 .. x \subseteq Nat
    BY <1>6
  <2> QED BY <2>1, <1>5 DEF StrictSubsetOrdering
<1> QED BY <1>6

(* The recursive function of Visit, B steps deep.                          *)
Places(link, from) == DOMAIN link \cup Range(link) \cup {from}

(* Where one step of the walk leads; and the walk, as Visit defines it,    *)
(* cut after B steps.                                                      *)
NextPlace(link, p) == IF p \in DOMAIN link THEN link[p] ELSE p
Walk(link, from, stop, B) ==
  CHOOSE w : w = [b \in 0 .. B |-> [p \in Places(link, from) |->
                    IF p = stop \/ b = 0 THEN <<>> ELSE <<p>> \o w[b - 1][NextPlace(link, p)]]]

(* The recursive function of Visit obeys its own equation.                 *)
LEMMA WalkRule ==
  ASSUME NEW link, NEW from, NEW stop, NEW B \in Nat,
         NEW p \in Places(link, from), NEW b \in 0 .. B
  PROVE  Walk(link, from, stop, B)[b][p] =
           IF p = stop \/ b = 0 THEN <<>>
           ELSE <<p>> \o Walk(link, from, stop, B)[b - 1][NextPlace(link, p)]
<1> DEFINE P == Places(link, from)
           nx(q) == NextPlace(link, q)
           walk == Walk(link, from, stop, B)
           rule(w, c) == [q \in P |-> IF q = stop \/ c = 0 THEN <<>> ELSE <<q>> \o w[c - 1][nx(q)]]
           Good(c, w) == w = [d \in 0 .. c |-> rule(w, d)]
           Bad == {c \in Nat : ~ \E w : Good(c, w)}
<1>2. Bad = {}
  <2> SUFFICES ASSUME Bad # {} PROVE FALSE
    OBVIOUS
  <2>1. PICK c \in Bad : \A d \in Bad : c <= d
    BY NatMin
  <2>2. CASE c = 0
    <3> DEFINE w == [d \in 0 .. 0 |-> [v \in P |-> <<>>]]
    <3>1. \A d \in 0 .. 0 : rule(w, d) = [v \in P |-> <<>>]
      OBVIOUS
    <3>2. Good(0, w)
      <4> HIDE DEF rule
      <4> QED BY <3>1
    <3> QED BY <3>2, <2>2
  <2>3. CASE c # 0
    <3>1. c - 1 \in Nat /\ c - 1 \notin Bad
      <4>1. c \in Nat
        BY <2>1
      <4>2. c - 1 \in Nat /\ ~ (c <= c - 1)
        BY <4>1, <2>3
      <4> HIDE DEF Bad
      <4> QED BY <4>2, <2>1
    <3>2. PICK v : Good(c - 1, v)
      BY <3>1
    <3> DEFINE w == [d \in 0 .. c |-> rule(v, d)]
    <3>3. \A d \in 0 .. c - 1 : v[d] = rule(v, d)
      <4> HIDE DEF rule
      <4> QED BY <3>2
    <3>4. \A d \in 0 .. c : w[d] = rule(v, d)
      <4> HIDE DEF rule
      <4> QED OBVIOUS
    <3>5. \A d \in 0 .. c - 1 : w[d] = v[d]
      <4> HIDE DEF w, rule
      <4> QED BY <3>3, <3>4, <3>1
    <3>6. \A d \in 0 .. c : rule(v, d) = rule(w, d)
      <4> TAKE d \in 0 .. c
      <4> HIDE DEF w
      <4>1. CASE d = 0
        BY <4>1
      <4>2. CASE d # 0
        <5>1. w[d - 1] = v[d - 1]
          <6>1. d - 1 \in 0 .. c - 1
            BY <4>2
          <6> QED BY <6>1, <3>5
        <5> QED BY <5>1
      <4> QED BY <4>1, <4>2
    <3>7. Good(c, w)
      <4> HIDE DEF rule
      <4> QED BY <3>6
    <3> QED BY <3>7
  <2> QED BY <2>2, <2>3
<1>3. PICK w : Good(B, w)
  BY <1>2
<1>4. walk = CHOOSE x : Good(B, x)
  BY Zenon DEF Walk
<1>5. Good(B, walk)
  <2> HIDE DEF Good, walk
  <2> QED BY <1>3, <1>4
<1>6. \A d \in 0 .. B : walk[d] = rule(walk, d)
  <2> HIDE DEF rule, walk
  <2> QED BY <1>5
<1>7. rule(walk, b)[p] = IF p = stop \/ b = 0 THEN <<>> ELSE <<p>> \o walk[b - 1][nx(p)]
  OBVIOUS
<1> QED
  <2> HIDE DEF rule, nx, walk
  <2>1. walk[b][p] = IF p = stop \/ b = 0 THEN <<>> ELSE <<p>> \o walk[b - 1][nx(p)]
    BY <1>6, <1>7
  <2> QED
    BY <2>1 DEF walk, nx

(* Concatenation, by position.                                             *)
LEMMA ConcatIndex ==
  ASSUME NEW X, NEW q \in Seq(X), NEW r \in Seq(X)
  PROVE  /\ q \o r \in Seq(X)
         /\ Len(q \o r) = Len(q) + Len(r)
         /\ \A i \in 1 .. Len(q) + Len(r) : (q \o r)[i] = IF i <= Len(q) THEN q[i]
                                              ELSE r[i - Len(q)]
  OBVIOUS

(* A sequence of one element, by position.                                 *)
LEMMA SingleIndex ==
  ASSUME NEW X, NEW x \in X
  PROVE  <<x>> \in Seq(X) /\ Len(<<x>>) = 1 /\ <<x>>[1] = x
  OBVIOUS

(* A tail is its first element and the next tail.                          *)
LEMMA SubSeqCons ==
  ASSUME NEW X, NEW s \in Seq(X), NEW i \in 1 .. Len(s)
  PROVE  SubSeq(s, i, Len(s)) = <<s[i]>> \o SubSeq(s, i + 1, Len(s))
<1> DEFINE n == Len(s)
           a == SubSeq(s, i, n)
           b == SubSeq(s, i + 1, n)
           c == <<s[i]>> \o b
<1>1. n \in Nat /\ i \in Nat /\ 1 <= i /\ i <= n
  OBVIOUS
<1>2. a \in Seq(X) /\ Len(a) = n - i + 1 /\ \A j \in 1 .. n - i + 1 : a[j] = s[i + j - 1]
  BY <1>1
<1>3. b \in Seq(X) /\ Len(b) = n - i /\ \A j \in 1 .. n - i : b[j] = s[i + 1 + j - 1]
  BY <1>1
<1>4. s[i] \in X
  BY <1>1
<1>5. c \in Seq(X) /\ Len(c) = 1 + Len(b) /\ c[1] = s[i] /\ \A j \in 1 .. Len(b) : c[1 + j] = b[j]
  <2> DEFINE d == <<s[i]>>
  <2>1. d \in Seq(X) /\ Len(d) = 1 /\ d[1] = s[i]
    BY <1>4, SingleIndex
  <2> HIDE DEF b, d
  <2>2. /\ d \o b \in Seq(X)
        /\ Len(d \o b) = Len(d) + Len(b)
        /\ \A j \in 1 .. Len(d) + Len(b) : (d \o b)[j] = IF j <= Len(d) THEN d[j] ELSE b[j - Len(d)]
    BY <1>3, <2>1, ConcatIndex
  <2>3. Len(b) \in Nat
    BY <1>3
  <2>4. ASSUME NEW j \in 1 .. Len(b) PROVE (d \o b)[1 + j] = b[j]
    <3>1. 1 + j \in 1 .. Len(d) + Len(b) /\ ~ (1 + j <= Len(d)) /\ 1 + j - Len(d) = j
      BY <2>1, <2>3
    <3> QED
      BY <3>1, <2>2
  <2>5. (d \o b)[1] = s[i]
    BY <2>1, <2>2, <2>3
  <2> QED
    BY <2>1, <2>2, <2>4, <2>5 DEF d
<1> HIDE DEF b
<1> HIDE DEF a, c
<1>6. \A j \in 1 .. n - i + 1 : a[j] = c[j]
  <2> TAKE j \in 1 .. n - i + 1
  <2>1. CASE j = 1
    <3>1. i + 1 - 1 = i
      BY <1>1
    <3> QED BY <2>1, <3>1, <1>2, <1>5
  <2>2. CASE j # 1
    <3>1. j - 1 \in 1 .. n - i /\ 1 + (j - 1) = j /\ i + 1 + (j - 1) - 1 = i + j - 1
      BY <2>2, <1>1
    <3>2. c[j] = b[j - 1]
      BY <3>1, <1>3, <1>5
    <3> QED BY <3>1, <3>2, <1>2, <1>3
  <2> QED BY <2>1, <2>2
<1>7. Len(a) = Len(c) /\ Len(a) = n - i + 1
  BY <1>1, <1>2, <1>3, <1>5
<1>8. a = c
  BY <1>2, <1>5, <1>6, <1>7
<1> QED
  BY <1>8 DEF a, b, c

(* link leads from from along s to stop, and s is no longer than link.     *)
Chain(link, from, stop, s) ==
  /\ IsFiniteSet(DOMAIN link) /\ Len(s) <= Cardinality(DOMAIN link)
  /\ from = IF Len(s) = 0 THEN stop ELSE s[1]
  /\ \A i \in 1 .. Len(s) : /\ s[i] \in DOMAIN link
                            /\ s[i] # stop
                            /\ link[s[i]] = IF i = Len(s) THEN stop ELSE s[i + 1]

(* What a loop visits.                                                     *)
Visits(link, from, stop, s) == Visit(link, from, stop) = s

(* What Visit gathers on a chain is the chain.  By contradiction: take the *)
(* shortest tail on which the walk goes wrong; it is not empty, and the    *)
(* walk of the tail behind it is right.                                    *)
LEMMA VisitWalk ==
  ASSUME NEW link, NEW from, NEW stop, NEW X, NEW s \in Seq(X), Chain(link, from, stop, s)
  PROVE  Visits(link, from, stop, s)
<1> USE DEF Visits
<1>0. /\ IsFiniteSet(DOMAIN link) /\ Len(s) <= Cardinality(DOMAIN link)
      /\ from = IF Len(s) = 0 THEN stop ELSE s[1]
      /\ \A i \in 1 .. Len(s) : /\ s[i] \in DOMAIN link
                                /\ s[i] # stop
                                /\ link[s[i]] = IF i = Len(s) THEN stop ELSE s[i + 1]
  BY DEF Chain
<1> DEFINE B == Cardinality(DOMAIN link) + 1
           n == Len(s)
           P == Places(link, from)
           nx(p) == NextPlace(link, p)
           walk == Walk(link, from, stop, B)
           At(i) == IF i = n + 1 THEN stop ELSE s[i]
           Bad == {k \in Nat : k <= n /\ \E b \in 0 .. B : b >= k
                    /\ walk[b][At(n - k + 1)] # SubSeq(s, n - k + 1, n)}
<1>1. B \in Nat /\ n \in Nat /\ n < B
  BY <1>0, FS_CardinalityType
<1>2. Visit(link, from, stop) = walk[B][from]
  BY Zenon DEF Visit, Walk, Places, NextPlace
<1>3. \A p \in P, b \in 0 .. B : walk[b][p] = IF p = stop
                                   \/ b = 0 THEN <<>> ELSE <<p>> \o walk[b - 1][nx(p)]
  <2> TAKE p \in P, b \in 0 .. B
  <2> HIDE DEF B
  <2> QED BY <1>1, WalkRule
<1> HIDE DEF walk
<1>9. \A i \in 1 .. n + 1 : At(i) \in P
  <2> TAKE i \in 1 .. n + 1
  <2>1. CASE i # n + 1
    BY <2>1, <1>0, <1>1 DEF Places
  <2>2. CASE i = n + 1 /\ n = 0
    BY <2>2, <1>0, <1>1 DEF Places
  <2>3. CASE i = n + 1 /\ n # 0
    <3>1. n \in 1 .. n /\ link[s[n]] = stop /\ s[n] \in DOMAIN link
      BY <1>0, <1>1, <2>3
    <3> QED BY <2>3, <3>1 DEF Range, Places
  <2> QED BY <2>1, <2>2, <2>3
<1> HIDE DEF B, P
<1>4. Bad = {}
  <2> SUFFICES ASSUME Bad # {} PROVE FALSE
    OBVIOUS
  <2>1. PICK k \in Bad : \A j \in Bad : k <= j
    BY NatMin
  <2>2. PICK b \in 0 .. B : b >= k /\ walk[b][At(n - k + 1)] # SubSeq(s, n - k + 1, n)
    BY <2>1
  <2>3. k \in Nat /\ k <= n
    BY <2>1
  <2>4. CASE k = 0
    <3>1. At(n + 1) = stop /\ stop \in P
      BY <1>9, <1>1
    <3>2. walk[b][stop] = <<>>
      BY <3>1, <1>3
    <3>3. SubSeq(s, n + 1, n) = <<>>
      BY <1>1
    <3>4. n - k + 1 = n + 1
      BY <2>4, <1>1
    <3> HIDE DEF At, n
    <3> QED BY <3>1, <3>2, <3>3, <3>4, <2>2
  <2>5. CASE k # 0
    <3> DEFINE i == n - k + 1
    <3>8. i \in 1 .. n /\ i + 1 \in 1 .. n + 1 /\ i # n + 1 /\ (i + 1 = n + 1 <=> i = n)
      <4> HIDE DEF n
      <4> QED BY <2>3, <2>5, <1>1
    <3>9. b # 0 /\ b - 1 \in 0 .. B /\ b - 1 >= k - 1
      BY <2>2, <2>3, <2>5, <1>1
    <3>10. At(i) = s[i]
      <4> HIDE DEF i
      <4> QED BY <3>8
    <3>1. i \in 1 .. n /\ i + 1 \in 1 .. n + 1 /\ At(i) = s[i] /\ b # 0 /\ b - 1 \in 0 .. B
            /\ b - 1 >= k - 1
      <4> HIDE DEF i, At
      <4> QED BY <3>8, <3>9, <3>10
    <3>2. nx(At(i)) = At(i + 1)
      <4>1. At(i + 1) = IF i = n THEN stop ELSE s[i + 1]
        <5> HIDE DEF i, n
        <5> QED BY <3>8
      <4>2. s[i] \in DOMAIN link /\ link[s[i]] = IF i = n THEN stop ELSE s[i + 1]
        <5> HIDE DEF i
        <5> QED BY <1>0, <3>8
      <4>3. nx(s[i]) = link[s[i]]
        BY <4>2 DEF NextPlace
      <4> HIDE DEF i, At, nx
      <4> QED BY <4>1, <4>2, <4>3, <3>10
    <3>3. k - 1 \in Nat /\ k - 1 <= n /\ ~ (k <= k - 1) /\ n - (k - 1) + 1 = i + 1
      BY <2>3, <2>5, <1>1
    <3>4. k - 1 \notin Bad
      <4> HIDE DEF Bad
      <4> QED BY <3>3, <2>1
    <3>5. walk[b - 1][At(i + 1)] = SubSeq(s, i + 1, n)
      <4> HIDE DEF At, i, n
      <4> QED BY <3>1, <3>3, <3>4
    <3>6. walk[b][At(i)] = <<s[i]>> \o SubSeq(s, i + 1, n)
      <4>1. At(i) \in P /\ At(i) # stop
        <5>1. i \in 1 .. n + 1 /\ s[i] # stop
          BY <3>1, <1>0, <1>1
        <5> HIDE DEF At, i
        <5> QED BY <5>1, <3>1, <1>9
      <4>2. b # 0 /\ b \in 0 .. B
        BY <3>1
      <4>3. walk[b][At(i)] = <<At(i)>> \o walk[b - 1][nx(At(i))]
        <5> HIDE DEF At, i, nx, n
        <5> QED BY <4>1, <4>2, <1>3
      <4> HIDE DEF At, i, nx, n
      <4> QED BY <4>3, <4>1, <3>1, <3>2, <3>5, <1>3
    <3>7. SubSeq(s, i, n) = <<s[i]>> \o SubSeq(s, i + 1, n)
      <4> HIDE DEF i
      <4> QED BY <3>1, SubSeqCons
    <3> QED BY <2>2, <3>6, <3>7
  <2> QED BY <2>4, <2>5
<1>5. walk[B][At(1)] = SubSeq(s, 1, n)
  <2>1. n - n + 1 = 1 /\ B \in 0 .. B /\ B >= n /\ n \in Nat /\ n <= n
    BY <1>1
  <2>2. n \notin Bad
    BY <1>4
  <2> HIDE DEF At, n
  <2> QED BY <2>1, <2>2
<1>6. At(1) = from
  BY <1>0, <1>1
<1>7. SubSeq(s, 1, n) = s
  OBVIOUS
<1> QED
  BY <1>2, <1>5, <1>6, <1>7

-----------------------------------------------------------------------------
(* What the operations write *)

(* The memories in which every node of N has links.                        *)
Mem(N) == [next : [N -> N \cup {NULL}], prev : [N -> N \cup {NULL}]]

(* What __list_add writes.                                                 *)
LEMMA LinkBetween ==
  ASSUME NEW N, NEW m \in Mem(N), NEW x \in N, NEW p \in N, NEW q \in N
  PROVE  LET r == __list_add(m, x, p, q) IN
         /\ r \in Mem(N)
         /\ \A y \in N : /\ r.next[y] = IF y = p THEN x ELSE IF y = x THEN q ELSE m.next[y]
                         /\ r.prev[y] = IF y = x THEN p ELSE IF y = q THEN x ELSE m.prev[y]
  BY DEF Mem, __list_add

(* What __list_del writes.                                                 *)
LEMMA JoinAround ==
  ASSUME NEW N, NEW m \in Mem(N), NEW p \in N, NEW q \in N
  PROVE  LET r == __list_del(m, p, q) IN
         /\ r \in Mem(N)
         /\ \A y \in N : /\ r.next[y] = IF y = p THEN q ELSE m.next[y]
                         /\ r.prev[y] = IF y = q THEN p ELSE m.prev[y]
  BY DEF Mem, __list_del

(* What INIT_LIST_HEAD writes.                                             *)
LEMMA SelfLink ==
  ASSUME NEW N, NEW m \in Mem(N), NEW x \in N
  PROVE  LET r == INIT_LIST_HEAD(m, x) IN
         /\ r \in Mem(N)
         /\ \A y \in N : /\ r.next[y] = IF y = x THEN x ELSE m.next[y]
                         /\ r.prev[y] = IF y = x THEN x ELSE m.prev[y]
  BY DEF Mem, INIT_LIST_HEAD

(* What list_replace writes, neighbours included.                          *)
LEMMA ReplaceLinks ==
  ASSUME NEW N, NEW m \in Mem(N), NEW x \in N, NEW z \in N, z # x,
         m.next[x] \in N, m.prev[x] \in N, m.next[x] # z
  PROVE  LET r == list_replace(m, x, z)
             q == IF m.next[x] = x THEN z ELSE m.prev[x]
         IN  /\ r \in Mem(N)
             /\ \A y \in N :
                  /\ r.next[y] = IF y = q THEN z ELSE IF y = z THEN m.next[x] ELSE m.next[y]
                  /\ r.prev[y] = IF y = z THEN q ELSE IF y = m.next[x] THEN z ELSE m.prev[y]
  BY DEF Mem, list_replace

-----------------------------------------------------------------------------
(* Circles *)

(* The place i of the circle with the head l and the entries s.            *)
At(l, s, i) == IF i \in 1 .. Len(s) THEN s[i] ELSE l
Nodes(l, s) == {At(l, s, i) : i \in 0 .. Len(s)}

(* A list of distinct nodes behind its head, and the links it should have: *)
(* the head is the place 0 and the place behind the last.                  *)
Ring(N, l, s) ==
  /\ l \in N /\ s \in Seq(N)
  /\ \A i, j \in 0 .. Len(s) : At(l, s, i) = At(l, s, j) => i = j

Circle(m, l, s) ==
  \A i \in 0 .. Len(s) : m.next[At(l, s, i)] = At(l, s, i + 1)
                           /\ m.prev[At(l, s, i + 1)] = At(l, s, i)

(* The memories m and r have the same links outside W.                     *)
Same(m, r, N, W) == \A y \in N \ W : r.next[y] = m.next[y] /\ r.prev[y] = m.prev[y]

(* The places of a ring are distinct nodes.                                *)
LEMMA RingIndex ==
  ASSUME NEW N, NEW l, NEW s, Ring(N, l, s)
  PROVE  /\ s \in Seq(N) /\ l \in N /\ Len(s) \in Nat
         /\ \A i \in Int : At(l, s, i) \in N
         /\ \A i, j \in 0 .. Len(s) : At(l, s, i) = At(l, s, j) => i = j
         /\ \A i, j \in 1 .. Len(s) + 1 : At(l, s, i) = At(l, s, j) => i = j
         /\ \A i \in 0 .. Len(s) + 1 : At(l, s, i) \in Nodes(l, s)
         /\ \A i \in 1 .. Len(s) : At(l, s, i) = s[i]
         /\ \A i \in Int : i < 1 \/ i > Len(s) => At(l, s, i) = l
         /\ Nodes(l, s) \subseteq N
<1> DEFINE n == Len(s)
           P(i) == At(l, s, i)
<1>1. s \in Seq(N) /\ l \in N /\ n \in Nat
  BY DEF Ring
<1>2. \A i \in Int : P(i) \in N
  BY <1>1 DEF At
<1>3. \A i, j \in 0 .. n : P(i) = P(j) => i = j
  BY DEF Ring
<1>4. /\ \A i \in 1 .. n : P(i) = s[i]
      /\ \A i \in Int : i < 1 \/ i > n => P(i) = l
  BY <1>1 DEF At
<1> HIDE DEF n, P
<1>5. \A i \in 0 .. n + 1 : \E j \in 0 .. n : P(i) = P(j)
  <2> TAKE i \in 0 .. n + 1
  <2>1. CASE i <= n
    BY <2>1, <1>1 DEF n
  <2>2. CASE i > n
    <3>1. P(i) = P(0) /\ 0 \in 0 .. n
      BY <2>2, <1>1, <1>4 DEF n
    <3> QED
      BY <3>1
  <2> QED
    BY <2>1, <2>2, <1>1 DEF n
<1>6. \A i, j \in 1 .. n + 1 : P(i) = P(j) => i = j
  <2> SUFFICES ASSUME NEW i \in 1 .. n + 1, NEW j \in 1 .. n + 1, P(i) = P(j) PROVE i = j
    OBVIOUS
  <2>1. P(n + 1) = P(0) /\ n \in Nat
    BY <1>1, <1>4 DEF n
  <2>2. CASE i = n + 1 /\ j # n + 1
    <3>1. j \in 0 .. n /\ 0 \in 0 .. n /\ j # 0
      BY <2>1, <2>2
    <3> QED
      BY <2>1, <2>2, <3>1, <1>3
  <2>3. CASE j = n + 1 /\ i # n + 1
    <3>1. i \in 0 .. n /\ 0 \in 0 .. n /\ i # 0
      BY <2>1, <2>3
    <3> QED
      BY <2>1, <2>3, <3>1, <1>3
  <2>4. CASE i # n + 1 /\ j # n + 1
    <3>1. i \in 0 .. n /\ j \in 0 .. n
      BY <2>1, <2>4
    <3> QED
      BY <3>1, <1>3
  <2> QED
    BY <2>2, <2>3, <2>4
<1>7. \A i \in 0 .. n + 1 : P(i) \in Nodes(l, s)
  BY <1>5 DEF Nodes, P, n
<1>8. Nodes(l, s) \subseteq N
  BY <1>1, <1>2 DEF Nodes, P, n
<1> QED
  BY <1>1, <1>2, <1>3, <1>4, <1>6, <1>7, <1>8 DEF P, n

(* The nodes of a ring are its head and its entries.                       *)
LEMMA NodesSet ==
  ASSUME NEW N, NEW l, NEW s \in Seq(N)
  PROVE  Nodes(l, s) = {l} \cup ToSet(s)
<1>1. Len(s) \in Nat /\ DOMAIN s = 1 .. Len(s)
  OBVIOUS
<1>2. 0 \in 0 .. Len(s) /\ \A i \in 1 .. Len(s) : i \in 0 .. Len(s)
  BY <1>1
<1> QED
  BY <1>1, <1>2 DEF Nodes, At, ToSet

(* RemoveAt, by position.                                                  *)
LEMMA RemoveAtIndex ==
  ASSUME NEW X, NEW s \in Seq(X), NEW k \in 1 .. Len(s)
  PROVE  /\ RemoveAt(s, k) \in Seq(X)
         /\ Len(RemoveAt(s, k)) = Len(s) - 1
         /\ \A i \in 1 .. Len(s) - 1 : RemoveAt(s, k)[i] = IF i < k THEN s[i] ELSE s[i + 1]
<1>1. Len(s) \in Nat /\ k \in Int /\ 1 <= k /\ k <= Len(s)
  OBVIOUS
<1> DEFINE a == SubSeq(s, 1, k - 1)
           b == SubSeq(s, k + 1, Len(s))
<1>2. a \in Seq(X) /\ Len(a) = k - 1 /\ \A i \in 1 .. k - 1 : a[i] = s[i]
  BY <1>1
<1>3. b \in Seq(X) /\ Len(b) = Len(s) - k /\ \A i \in 1 .. Len(s) - k : b[i] = s[k + 1 + i - 1]
  BY <1>1
<1> HIDE DEF a, b
<1> DEFINE e == a \o b
           n == Len(s)
<1>4. /\ e \in Seq(X) /\ Len(e) = Len(a) + Len(b)
      /\ \A i \in 1 .. Len(a) + Len(b) : e[i] = IF i <= Len(a) THEN a[i] ELSE b[i - Len(a)]
  BY <1>2, <1>3, ConcatIndex
<1>5. RemoveAt(s, k) = e
  BY DEF RemoveAt, a, b
<1> HIDE DEF e, n
<1>6. n \in Int /\ k \in Int /\ 1 <= k /\ k <= n /\ Len(a) = k - 1 /\ Len(b) = n - k
        /\ Len(e) = n - 1
  BY <1>1, <1>2, <1>3, <1>4 DEF n
<1>7. \A i \in 1 .. n - 1 : e[i] = IF i < k THEN s[i] ELSE s[i + 1]
  <2> TAKE i \in 1 .. n - 1
  <2>1. i \in Int /\ 1 <= i /\ i <= n - 1
    BY <1>6
  <2>2. e[i] = IF i <= k - 1 THEN a[i] ELSE b[i - (k - 1)]
    <3>1. i \in 1 .. Len(a) + Len(b)
      BY <2>1, <1>6
    <3> QED
      BY <3>1, <1>4, <1>6
  <2>3. CASE i < k
    BY <2>1, <2>2, <2>3, <1>2, <1>6
  <2>4. CASE i >= k
    <3>1. i - (k - 1) \in 1 .. n - k /\ k + 1 + (i - (k - 1)) - 1 = i + 1
      BY <2>1, <2>4, <1>6
    <3>2. b[i - (k - 1)] = s[k + 1 + (i - (k - 1)) - 1]
      BY <3>1, <1>3 DEF n
    <3> QED
      BY <2>1, <2>2, <2>4, <3>1, <3>2, <1>6
  <2> QED
    BY <2>1, <2>3, <2>4, <1>6
<1> QED
  BY <1>4, <1>5, <1>6, <1>7 DEF n

(* t is s with x put in at place c.                                        *)
PutAt(s, c, x, t) ==
  /\ Len(t) = Len(s) + 1
  /\ \A i \in 1 .. Len(s) + 1 : t[i] = IF i < c THEN s[i] ELSE IF i = c THEN x ELSE s[i - 1]

(* InsertAt puts the new element in at its place.                          *)
LEMMA InsertPuts ==
  ASSUME NEW X, NEW s \in Seq(X), NEW k \in 1 .. Len(s) + 1, NEW x \in X
  PROVE  InsertAt(s, k, x) \in Seq(X) /\ PutAt(s, k, x, InsertAt(s, k, x))
<1>1. Len(s) \in Nat /\ k \in Int /\ 1 <= k /\ k <= Len(s) + 1
  OBVIOUS
<1> DEFINE a == SubSeq(s, 1, k - 1)
           b == SubSeq(s, k, Len(s))
           c == <<x>>
<1>2. a \in Seq(X) /\ Len(a) = k - 1 /\ \A i \in 1 .. k - 1 : a[i] = s[i]
  BY <1>1
<1>3. b \in Seq(X) /\ Len(b) = Len(s) - k + 1 /\ \A i \in 1 .. Len(s) - k + 1 : b[i] = s[k + i - 1]
  BY <1>1
<1>4. c \in Seq(X) /\ Len(c) = 1 /\ c[1] = x
  BY SingleIndex
<1> HIDE DEF a, b, c
<1> DEFINE d == a \o c
           e == d \o b
<1>5. /\ d \in Seq(X) /\ Len(d) = Len(a) + Len(c)
      /\ \A i \in 1 .. Len(a) + Len(c) : d[i] = IF i <= Len(a) THEN a[i] ELSE c[i - Len(a)]
  BY <1>2, <1>4, ConcatIndex
<1> HIDE DEF d
<1>6. /\ e \in Seq(X) /\ Len(e) = Len(d) + Len(b)
      /\ \A i \in 1 .. Len(d) + Len(b) : e[i] = IF i <= Len(d) THEN d[i] ELSE b[i - Len(d)]
  <2>1. d \in Seq(X) /\ b \in Seq(X)
    BY <1>3, <1>5
  <2> QED
    BY <2>1, ConcatIndex
<1>7. InsertAt(s, k, x) = e
  BY DEF InsertAt, a, b, c, d
<1> DEFINE n == Len(s)
<1> HIDE DEF e, n
<1>8. n \in Int /\ k \in Int /\ 1 <= k /\ k <= n + 1 /\ Len(a) = k - 1 /\ Len(c) = 1
        /\ Len(b) = n - k + 1
  BY <1>1, <1>2, <1>3, <1>4 DEF n
<1>9. Len(d) = k /\ Len(e) = n + 1
  BY <1>5, <1>6, <1>8
<1>10. \A i \in 1 .. k : d[i] = IF i < k THEN s[i] ELSE x
  BY <1>2, <1>4, <1>5, <1>8
<1>11. \A i \in 1 .. n + 1 : e[i] = IF i < k THEN s[i] ELSE IF i = k THEN x ELSE s[i - 1]
  <2> TAKE i \in 1 .. n + 1
  <2>1. i \in Int /\ 1 <= i /\ i <= n + 1
    BY <1>8
  <2>2. e[i] = IF i <= k THEN d[i] ELSE b[i - k]
    BY <1>6, <1>8, <1>9
  <2>3. CASE i <= k
    <3>1. d[i] = IF i < k THEN s[i] ELSE x
      BY <2>1, <2>3, <1>8, <1>10
    <3> QED
      BY <2>1, <2>2, <2>3, <3>1, <1>8
  <2>4. CASE i > k
    <3>1. i - k \in 1 .. n - k + 1 /\ k + (i - k) - 1 = i - 1
      BY <2>1, <2>4, <1>8
    <3>2. b[i - k] = s[k + (i - k) - 1]
      BY <3>1, <1>3 DEF n
    <3> QED
      BY <2>1, <2>2, <2>4, <3>1, <3>2, <1>8
  <2> QED
    BY <2>1, <2>3, <2>4, <1>8
<1> QED
  BY <1>6, <1>7, <1>9, <1>11 DEF n, PutAt

(* InsertAt, by position.                                                  *)
LEMMA InsertAtIndex ==
  ASSUME NEW X, NEW s \in Seq(X), NEW k \in 1 .. Len(s) + 1, NEW x \in X
  PROVE  /\ InsertAt(s, k, x) \in Seq(X)
         /\ Len(InsertAt(s, k, x)) = Len(s) + 1
         /\ \A i \in 1 .. Len(s) + 1 :
              InsertAt(s, k, x)[i] = IF i < k THEN s[i] ELSE IF i = k THEN x ELSE s[i - 1]
<1> DEFINE t == InsertAt(s, k, x)
<1>1. t \in Seq(X) /\ PutAt(s, k, x, t)
  BY InsertPuts
<1> HIDE DEF t
<1>2. /\ t \in Seq(X) /\ Len(t) = Len(s) + 1
      /\ \A i \in 1 .. Len(s) + 1 : t[i] = IF i < k THEN s[i] ELSE IF i = k THEN x ELSE s[i - 1]
  BY <1>1 DEF PutAt
<1> QED
  BY <1>2 DEF t

-----------------------------------------------------------------------------
(* Operations on one circle *)

(* Insertion behind the first k elements.                                  *)
LEMMA InsertBehind ==
  ASSUME NEW X, NEW s \in Seq(X), NEW k \in 0 .. Len(s), NEW x \in X
  PROVE  InsertAt(s, k + 1, x) \in Seq(X) /\ PutAt(s, k + 1, x, InsertAt(s, k + 1, x))
<1> DEFINE c == k + 1
<1>1. c \in 1 .. Len(s) + 1
  OBVIOUS
<1> HIDE DEF c
<1>2. InsertAt(s, c, x) \in Seq(X) /\ PutAt(s, c, x, InsertAt(s, c, x))
  BY <1>1, InsertPuts
<1> QED
  BY <1>2 DEF c

(* __list_add between two neighbours of a circle inserts the node there.   *)
LEMMA AddCircle ==
  ASSUME NEW N, NEW m \in Mem(N), NEW l, NEW s, Ring(N, l, s), Circle(m, l, s),
         NEW x \in N \ Nodes(l, s), NEW k \in 0 .. Len(s)
  PROVE  LET r == __list_add(m, x, At(l, s, k), At(l, s, k + 1))
             t == InsertAt(s, k + 1, x)
         IN  /\ r \in Mem(N) /\ Ring(N, l, t) /\ Circle(r, l, t)
             /\ Nodes(l, t) = Nodes(l, s) \cup {x}
             /\ Same(m, r, N, Nodes(l, s) \cup {x})
<1> DEFINE t == InsertAt(s, k + 1, x)
           n == Len(s)
           P(i) == At(l, s, i)
           T(i) == At(l, t, i)
           r == __list_add(m, x, P(k), P(k + 1))
<1>1. /\ s \in Seq(N) /\ l \in N /\ n \in Nat /\ k \in Int /\ 0 <= k /\ k <= n
      /\ \A i, j \in 0 .. n : P(i) = P(j) => i = j
      /\ \A i, j \in 1 .. n + 1 : P(i) = P(j) => i = j
      /\ \A i \in 0 .. n + 1 : P(i) \in N /\ P(i) \in Nodes(l, s)
  BY RingIndex
<1>6. \A i \in 0 .. n + 1 : P(i) # x
  BY <1>1
<1>2. /\ t \in Seq(N) /\ Len(t) = n + 1
      /\ \A i \in 1 .. n + 1 : t[i] = IF i < k + 1 THEN s[i] ELSE IF i = k + 1 THEN x ELSE s[i - 1]
  <2>1. s \in Seq(N) /\ k \in 0 .. Len(s) /\ x \in N
    BY <1>1
  <2> HIDE DEF r, P, T
  <2>2. t \in Seq(N) /\ PutAt(s, k + 1, x, t)
    BY <2>1, InsertBehind
  <2> QED
    BY <2>2 DEF PutAt
<1>3. /\ r \in Mem(N)
      /\ \A y \in N : /\ r.next[y] = IF y = P(k) THEN x ELSE IF y = x THEN P(k + 1) ELSE m.next[y]
                      /\ r.prev[y] = IF y = x THEN P(k) ELSE IF y = P(k + 1) THEN x ELSE m.prev[y]
  <2>1. P(k) \in N /\ P(k + 1) \in N
    BY <1>1
  <2> HIDE DEF P
  <2> QED
    BY <2>1, LinkBetween
<1>4. \A i \in 0 .. n : m.next[P(i)] = P(i + 1) /\ m.prev[P(i + 1)] = P(i)
  BY DEF Circle
<1>5. \A j \in 0 .. n + 2 : T(j) = IF j < k + 1 THEN P(j) ELSE IF j = k + 1 THEN x ELSE P(j - 1)
  <2> HIDE DEF t, n
  <2> QED BY <1>1, <1>2 DEF At, n
<1> HIDE DEF t, n, P, T, r
<1>11. ASSUME NEW i \in 0 .. n + 1
       PROVE  r.next[T(i)] = T(i + 1) /\ r.prev[T(i + 1)] = T(i)
  <2>7. CASE i < k
    <3>1. T(i) = P(i) /\ T(i + 1) = P(i + 1)
      BY <2>7, <1>1, <1>5
    <3>2. P(i) # P(k) /\ P(i + 1) # P(k + 1) /\ P(i) # x /\ P(i + 1) # x /\ P(i) \in N
            /\ P(i + 1) \in N
      BY <2>7, <1>1, <1>6
    <3>3. m.next[P(i)] = P(i + 1) /\ m.prev[P(i + 1)] = P(i)
      BY <2>7, <1>1, <1>4
    <3> QED
      BY <3>1, <3>2, <3>3, <1>3
  <2>8. CASE i = k
    BY <2>8, <1>1, <1>3, <1>4, <1>5, <1>6
  <2>9. CASE i = k + 1
    BY <2>9, <1>1, <1>3, <1>4, <1>5, <1>6
  <2>10. CASE i > k + 1
    <3>1. T(i) = P(i - 1) /\ T(i + 1) = P(i) /\ i - 1 \in 0 .. n /\ i - 1 + 1 = i
      BY <2>10, <1>1, <1>5
    <3>2. P(i - 1) # P(k) /\ P(i) # P(k + 1) /\ P(i) # x /\ P(i - 1) # x /\ P(i) \in N
            /\ P(i - 1) \in N
      BY <2>10, <1>1, <1>6
    <3>3. m.next[P(i - 1)] = P(i) /\ m.prev[P(i)] = P(i - 1)
      BY <3>1, <1>4
    <3> QED
      BY <3>1, <3>2, <3>3, <1>3
  <2> QED
    BY <2>7, <2>8, <2>9, <2>10, <1>1
<1>12. Circle(r, l, t)
  BY <1>2, <1>11 DEF Circle, T
<1>13. \A i, j \in 0 .. n + 1 : T(i) = T(j) => i = j
  BY <1>1, <1>5, <1>6
<1>14. Ring(N, l, t)
  BY <1>1, <1>2, <1>13 DEF Ring, T
<1>15. \A i \in 0 .. n + 1 : T(i) = x \/ \E j \in 0 .. n : T(i) = P(j)
  BY <1>1, <1>5
<1>16. \A j \in 0 .. n : \E i \in 0 .. n + 1 : P(j) = T(i)
  <2> TAKE j \in 0 .. n
  <2>1. CASE j <= k
    BY <2>1, <1>1, <1>5
  <2>2. CASE j > k
    <3>1. j + 1 \in 0 .. n + 1 /\ T(j + 1) = P(j)
      BY <2>2, <1>1, <1>5
    <3> QED
      BY <3>1
  <2> QED
    BY <2>1, <2>2, <1>1
<1>17. T(k + 1) = x /\ k + 1 \in 0 .. n + 1
  BY <1>1, <1>5
<1>18. Nodes(l, t) = Nodes(l, s) \cup {x}
  <2>1. Nodes(l, t) = {T(i) : i \in 0 .. n + 1} /\ Nodes(l, s) = {P(i) : i \in 0 .. n}
    BY <1>2 DEF Nodes, T, P, n
  <2> QED
    BY <2>1, <1>15, <1>16, <1>17
<1>19. Same(m, r, N, Nodes(l, s) \cup {x})
  BY <1>1, <1>3 DEF Same
<1> QED
  BY <1>3, <1>12, <1>14, <1>18, <1>19 DEF t, r, P

(* __list_del_entry of a node of a circle removes it.                      *)
LEMMA RemoveCircle ==
  ASSUME NEW N, NEW m \in Mem(N), NEW l, NEW s, Ring(N, l, s), Circle(m, l, s),
         NEW k \in 1 .. Len(s)
  PROVE  LET r == __list_del_entry(m, s[k])
             t == RemoveAt(s, k)
         IN  /\ r \in Mem(N) /\ Ring(N, l, t) /\ Circle(r, l, t)
             /\ Nodes(l, t) = Nodes(l, s) \ {s[k]}
             /\ Same(m, r, N, Nodes(l, s))
<1> DEFINE t == RemoveAt(s, k)
           n == Len(s)
           P(i) == At(l, s, i)
           T(i) == At(l, t, i)
           r == __list_del_entry(m, s[k])
<1>1. /\ s \in Seq(N) /\ l \in N /\ n \in Nat /\ k \in Int /\ 1 <= k /\ k <= n
      /\ \A i, j \in 0 .. n : P(i) = P(j) => i = j
      /\ \A i, j \in 1 .. n + 1 : P(i) = P(j) => i = j
      /\ \A i \in 0 .. n + 1 : P(i) \in N /\ P(i) \in Nodes(l, s)
      /\ P(k) = s[k]
  BY RingIndex
<1>2. /\ t \in Seq(N) /\ Len(t) = n - 1
      /\ \A i \in 1 .. n - 1 : t[i] = IF i < k THEN s[i] ELSE s[i + 1]
  BY <1>1, RemoveAtIndex
<1>4. \A i \in 0 .. n : m.next[P(i)] = P(i + 1) /\ m.prev[P(i + 1)] = P(i)
  BY DEF Circle
<1>3. /\ r \in Mem(N)
      /\ \A y \in N : /\ r.next[y] = IF y = P(k - 1) THEN P(k + 1) ELSE m.next[y]
                      /\ r.prev[y] = IF y = P(k + 1) THEN P(k - 1) ELSE m.prev[y]
  <2>1. P(k - 1) \in N /\ P(k + 1) \in N
    BY <1>1
  <2>2. m.next[P(k)] = P(k + 1) /\ m.prev[P(k)] = P(k - 1)
    <3>1. k \in 0 .. n /\ k - 1 \in 0 .. n /\ k - 1 + 1 = k
      BY <1>1
    <3> HIDE DEF P, n
    <3> QED
      BY <3>1, <1>4
  <2>3. r = __list_del(m, P(k - 1), P(k + 1))
    BY <2>2, <1>1 DEF __list_del_entry
  <2>4. LET d == __list_del(m, P(k - 1), P(k + 1)) IN
        /\ d \in Mem(N)
        /\ \A y \in N : /\ d.next[y] = IF y = P(k - 1) THEN P(k + 1) ELSE m.next[y]
                        /\ d.prev[y] = IF y = P(k + 1) THEN P(k - 1) ELSE m.prev[y]
    <3> HIDE DEF P
    <3> QED
      BY <2>1, JoinAround
  <2> HIDE DEF P, r
  <2> QED
    BY <2>3, <2>4
<1>5. \A j \in 0 .. n : T(j) = IF j < k THEN P(j) ELSE P(j + 1)
  <2> HIDE DEF t, n
  <2> QED BY <1>1, <1>2 DEF At, n
<1> HIDE DEF t, n, P, T, r
<1>11. ASSUME NEW i \in 0 .. n - 1
       PROVE  r.next[T(i)] = T(i + 1) /\ r.prev[T(i + 1)] = T(i)
  <2>7. CASE i < k - 1
    <3>1. T(i) = P(i) /\ T(i + 1) = P(i + 1)
      BY <2>7, <1>1, <1>5
    <3>2. P(i) # P(k - 1) /\ P(i + 1) # P(k + 1) /\ P(i) \in N /\ P(i + 1) \in N
      BY <2>7, <1>1
    <3>3. m.next[P(i)] = P(i + 1) /\ m.prev[P(i + 1)] = P(i)
      BY <2>7, <1>1, <1>4
    <3> QED
      BY <3>1, <3>2, <3>3, <1>3
  <2>8. CASE i = k - 1
    <3>1. T(i) = P(k - 1) /\ T(i + 1) = P(k + 1) /\ P(k - 1) \in N /\ P(k + 1) \in N
      BY <2>8, <1>1, <1>5
    <3> QED
      BY <3>1, <1>3
  <2>10. CASE i > k - 1
    <3>1. T(i) = P(i + 1) /\ T(i + 1) = P(i + 1 + 1) /\ i + 1 \in 0 .. n
      BY <2>10, <1>1, <1>5
    <3>2. P(i + 1) # P(k - 1) /\ P(i + 1 + 1) # P(k + 1) /\ P(i + 1) \in N /\ P(i + 1 + 1) \in N
      BY <2>10, <1>1
    <3>3. m.next[P(i + 1)] = P(i + 1 + 1) /\ m.prev[P(i + 1 + 1)] = P(i + 1)
      BY <3>1, <1>4
    <3> QED
      BY <3>1, <3>2, <3>3, <1>3
  <2> QED
    BY <2>7, <2>8, <2>10, <1>1
<1>12. Circle(r, l, t)
  BY <1>2, <1>11 DEF Circle, T
<1>13. \A i, j \in 0 .. n - 1 : T(i) = T(j) => i = j
  BY <1>1, <1>5
<1>14. Ring(N, l, t)
  BY <1>1, <1>2, <1>13 DEF Ring, T
<1>15. \A i \in 0 .. n - 1 : \E j \in 0 .. n : T(i) = P(j) /\ j # k
  <2> TAKE i \in 0 .. n - 1
  <2>1. CASE i < k
    BY <2>1, <1>1, <1>5
  <2>2. CASE i >= k
    <3>1. i + 1 \in 0 .. n /\ T(i) = P(i + 1) /\ i + 1 # k
      BY <2>2, <1>1, <1>5
    <3> QED
      BY <3>1
  <2> QED
    BY <2>1, <2>2, <1>1
<1>16. \A j \in 0 .. n : j # k => \E i \in 0 .. n - 1 : P(j) = T(i)
  <2> SUFFICES ASSUME NEW j \in 0 .. n, j # k PROVE \E i \in 0 .. n - 1 : P(j) = T(i)
    OBVIOUS
  <2>1. CASE j < k
    <3>1. j \in 0 .. n - 1 /\ T(j) = P(j)
      BY <2>1, <1>1, <1>5
    <3> QED
      BY <3>1
  <2>2. CASE j > k
    <3>1. j - 1 \in 0 .. n - 1 /\ ~ (j - 1 < k) /\ j - 1 + 1 = j /\ j - 1 \in 0 .. n
      BY <2>2, <1>1
    <3>2. T(j - 1) = P(j)
      BY <3>1, <1>5
    <3> QED
      BY <3>1, <3>2
  <2> QED
    BY <2>1, <2>2, <1>1
<1>18. Nodes(l, t) = Nodes(l, s) \ {P(k)}
  <2>1. Nodes(l, t) = {T(i) : i \in 0 .. n - 1} /\ Nodes(l, s) = {P(i) : i \in 0 .. n}
    BY <1>2 DEF Nodes, T, P, n
  <2>2. \A j \in 0 .. n : P(j) = P(k) => j = k
    BY <1>1
  <2> QED
    BY SMTT(30), <2>1, <2>2, <1>15, <1>16
<1>19. Same(m, r, N, Nodes(l, s))
  <2>1. P(k - 1) \in Nodes(l, s) /\ P(k + 1) \in Nodes(l, s)
    BY <1>1
  <2> QED
    BY <2>1, <1>3 DEF Same
<1> QED
  BY <1>1, <1>3, <1>12, <1>14, <1>18, <1>19 DEF t, r

(* list_replace puts a node that is in no list in the place of another.    *)
LEMMA ReplaceCircle ==
  ASSUME NEW N, NEW m \in Mem(N), NEW l, NEW s, Ring(N, l, s), Circle(m, l, s),
         NEW k \in 1 .. Len(s), NEW x \in N \ Nodes(l, s)
  PROVE  LET r == list_replace(m, s[k], x)
             t == [s EXCEPT ![k] = x]
         IN  /\ r \in Mem(N) /\ Ring(N, l, t) /\ Circle(r, l, t)
             /\ Nodes(l, t) = (Nodes(l, s) \ {s[k]}) \cup {x}
             /\ Same(m, r, N, Nodes(l, s) \cup {x})
<1> DEFINE t == [s EXCEPT ![k] = x]
           n == Len(s)
           P(i) == At(l, s, i)
           T(i) == At(l, t, i)
           r == list_replace(m, s[k], x)
<1>1. /\ s \in Seq(N) /\ l \in N /\ n \in Nat /\ k \in Int /\ 1 <= k /\ k <= n
      /\ \A i, j \in 0 .. n : P(i) = P(j) => i = j
      /\ \A i, j \in 1 .. n + 1 : P(i) = P(j) => i = j
      /\ \A i \in 0 .. n + 1 : P(i) \in N /\ P(i) \in Nodes(l, s)
      /\ P(k) = s[k]
  BY RingIndex
<1>6. \A i \in 0 .. n + 1 : P(i) # x
  BY <1>1
<1>2. /\ t \in Seq(N) /\ Len(t) = n
      /\ \A i \in 1 .. n : t[i] = IF i = k THEN x ELSE s[i]
  BY <1>1
<1>4. \A i \in 0 .. n : m.next[P(i)] = P(i + 1) /\ m.prev[P(i + 1)] = P(i)
  BY DEF Circle
<1>7. m.next[P(k)] = P(k + 1) /\ m.prev[P(k)] = P(k - 1)
  <2>1. k \in 0 .. n /\ k - 1 \in 0 .. n /\ k - 1 + 1 = k
    BY <1>1
  <2> HIDE DEF P, n
  <2> QED
    BY <2>1, <1>4
<1>8. /\ P(k) \in N /\ P(k - 1) \in N /\ P(k + 1) \in N
      /\ P(k) # P(k + 1) /\ P(k) # x /\ P(k + 1) # x /\ P(k - 1) # x
  BY <1>1, <1>6
<1>3. /\ r \in Mem(N)
      /\ \A y \in N : /\ r.next[y] = IF y = P(k - 1) THEN x ELSE IF y = x THEN P(k + 1)
                           ELSE m.next[y]
                      /\ r.prev[y] = IF y = x THEN P(k - 1) ELSE IF y = P(k + 1) THEN x
                           ELSE m.prev[y]
  <2> DEFINE o == P(k)
  <2>1. /\ o \in N /\ o # x /\ m.next[o] = P(k + 1) /\ m.prev[o] = P(k - 1) /\ m.next[o] # o
        /\ m.next[o] \in N /\ m.prev[o] \in N /\ m.next[o] # x
    <3> HIDE DEF P
    <3> QED
      BY <1>7, <1>8
  <2>3. r = list_replace(m, o, x)
    BY <1>1
  <2> HIDE DEF P, o, r
  <2>4. LET d == list_replace(m, o, x) IN
        /\ d \in Mem(N)
        /\ \A y \in N : /\ d.next[y] = IF y = m.prev[o] THEN x ELSE IF y = x THEN m.next[o]
                             ELSE m.next[y]
                        /\ d.prev[y] = IF y = x THEN m.prev[o] ELSE IF y = m.next[o] THEN x
                             ELSE m.prev[y]
    <3>1. x \in N
      OBVIOUS
    <3> QED
      BY <2>1, <3>1, ReplaceLinks
  <2> QED
    BY <2>1, <2>3, <2>4
<1>5. \A j \in 0 .. n + 1 : T(j) = IF j = k THEN x ELSE P(j)
  <2> HIDE DEF t, n
  <2> QED BY <1>1, <1>2 DEF At, n
<1> HIDE DEF t, n, P, T, r
<1>11. ASSUME NEW i \in 0 .. n
       PROVE  r.next[T(i)] = T(i + 1) /\ r.prev[T(i + 1)] = T(i)
  <2>1. i + 1 \in 1 .. n + 1 /\ i \in 0 .. n + 1 /\ i + 1 \in 0 .. n + 1
    BY <1>1
  <2>7. CASE i # k /\ i # k - 1
    <3>1. T(i) = P(i) /\ T(i + 1) = P(i + 1)
      BY <2>1, <2>7, <1>1, <1>5
    <3>2. P(i) # P(k - 1) /\ P(i + 1) # P(k + 1) /\ P(i) \in N /\ P(i + 1) \in N /\ P(i) # x
            /\ P(i + 1) # x
      BY <2>1, <2>7, <1>1, <1>6
    <3>3. m.next[P(i)] = P(i + 1) /\ m.prev[P(i + 1)] = P(i)
      BY <2>7, <1>1, <1>4
    <3> QED
      BY <3>1, <3>2, <3>3, <1>3
  <2>8. CASE i = k - 1
    <3>1. T(i) = P(k - 1) /\ T(i + 1) = x
      BY <2>8, <1>1, <1>5
    <3> QED
      BY <3>1, <1>3, <1>8
  <2>10. CASE i = k
    <3>1. T(i) = x /\ T(i + 1) = P(k + 1)
      BY <2>10, <1>1, <1>5
    <3> QED
      BY <3>1, <1>3, <1>8
  <2> QED
    BY <2>7, <2>8, <2>10
<1>12. Circle(r, l, t)
  BY <1>2, <1>11 DEF Circle, T
<1>13. \A i, j \in 0 .. n : T(i) = T(j) => i = j
  BY <1>1, <1>5, <1>6
<1>14. Ring(N, l, t)
  BY <1>1, <1>2, <1>13 DEF Ring, T
<1>18. Nodes(l, t) = (Nodes(l, s) \ {P(k)}) \cup {x}
  <2>1. Nodes(l, t) = {T(i) : i \in 0 .. n} /\ Nodes(l, s) = {P(i) : i \in 0 .. n}
    BY <1>2 DEF Nodes, T, P, n
  <2>2. \A j \in 0 .. n : (P(j) = P(k) => j = k) /\ T(j) = IF j = k THEN x ELSE P(j)
    BY <1>1, <1>5
  <2>3. k \in 0 .. n
    BY <1>1
  <2> QED
    BY <2>1, <2>2, <2>3
<1>19. Same(m, r, N, Nodes(l, s) \cup {x})
  <2>1. P(k - 1) \in Nodes(l, s) /\ P(k + 1) \in Nodes(l, s)
    BY <1>1
  <2> QED
    BY <2>1, <1>3 DEF Same
<1> QED
  BY <1>1, <1>3, <1>12, <1>14, <1>18, <1>19 DEF t, r

(* list_replace of a head: the whole list is handed over to the other      *)
(* head.                                                                   *)
LEMMA ReplaceHeadCircle ==
  ASSUME NEW N, NEW m \in Mem(N), NEW l, NEW s, Ring(N, l, s), Circle(m, l, s),
         NEW z \in N \ Nodes(l, s)
  PROVE  LET r == list_replace(m, l, z)
         IN  /\ r \in Mem(N) /\ Ring(N, z, s) /\ Circle(r, z, s)
             /\ Nodes(z, s) = (Nodes(l, s) \ {l}) \cup {z}
             /\ Same(m, r, N, Nodes(l, s) \cup {z})
<1> DEFINE n == Len(s)
           P(i) == At(l, s, i)
           T(i) == At(z, s, i)
           r == list_replace(m, l, z)
<1>1. /\ s \in Seq(N) /\ l \in N /\ n \in Nat
      /\ \A i, j \in 0 .. n : P(i) = P(j) => i = j
      /\ \A i, j \in 1 .. n + 1 : P(i) = P(j) => i = j
      /\ \A i \in 0 .. n + 1 : P(i) \in N /\ P(i) \in Nodes(l, s)
      /\ P(0) = l /\ P(n + 1) = l
  BY RingIndex
<1>6. \A i \in 0 .. n + 1 : P(i) # z
  BY <1>1
<1>4. \A i \in 0 .. n : m.next[P(i)] = P(i + 1) /\ m.prev[P(i + 1)] = P(i)
  BY DEF Circle
<1>5. \A j \in 0 .. n + 1 : T(j) = IF j \in 1 .. n THEN P(j) ELSE z
  BY <1>1 DEF At
<1> HIDE DEF n, P, T
<1>7. m.next[l] = P(1) /\ m.prev[l] = P(n) /\ P(1) \in N /\ P(n) \in N /\ P(1) # z /\ P(n) # z
        /\ l # z
  <2>1. 0 \in 0 .. n /\ n \in 0 .. n /\ 0 + 1 = 1 /\ n \in 0 .. n + 1 /\ 1 \in 0 .. n + 1
          /\ 0 \in 0 .. n + 1
    BY <1>1
  <2> QED
    BY <2>1, <1>1, <1>4, <1>6
<1>8. P(1) = l <=> n = 0
  <2>1. CASE n = 0
    BY <2>1, <1>1
  <2>2. CASE n # 0
    <3>1. 1 \in 0 .. n /\ 0 \in 0 .. n
      BY <2>2, <1>1
    <3> QED
      BY <3>1, <2>2, <1>1
  <2> QED
    BY <2>1, <2>2
<1> DEFINE q == IF n = 0 THEN z ELSE P(n)
<1>3. /\ r \in Mem(N)
      /\ \A y \in N : /\ r.next[y] = IF y = q THEN z ELSE IF y = z THEN P(1) ELSE m.next[y]
                      /\ r.prev[y] = IF y = z THEN q ELSE IF y = P(1) THEN z ELSE m.prev[y]
  <2>1. z \in N /\ l \in N /\ m.next[l] \in N /\ m.prev[l] \in N /\ m.next[l] # z /\ z # l
    BY <1>1, <1>7
  <2>2. q = IF m.next[l] = l THEN z ELSE m.prev[l]
    BY <1>7, <1>8
  <2> HIDE DEF q
  <2>4. LET d == list_replace(m, l, z)
            p == IF m.next[l] = l THEN z ELSE m.prev[l] IN
        /\ d \in Mem(N)
        /\ \A y \in N : /\ d.next[y] = IF y = p THEN z ELSE IF y = z THEN m.next[l] ELSE m.next[y]
                        /\ d.prev[y] = IF y = z THEN p ELSE IF y = m.next[l] THEN z ELSE m.prev[y]
    BY <2>1, ReplaceLinks
  <2> HIDE DEF r
  <2> QED
    BY <2>2, <2>4, <1>7 DEF r
<1> HIDE DEF r
<1>11. ASSUME NEW i \in 0 .. n
       PROVE  r.next[T(i)] = T(i + 1) /\ r.prev[T(i + 1)] = T(i)
  <2>1. i + 1 \in 1 .. n + 1 /\ i \in 0 .. n + 1 /\ i + 1 \in 0 .. n + 1
    BY <1>1
  <2>2. r.next[T(i)] = T(i + 1)
    <3>1. CASE i = 0 /\ n = 0
      <4>1. T(i) = z /\ T(i + 1) = z
        BY <2>1, <3>1, <1>1, <1>5
      <4> QED
        BY <4>1, <3>1, <1>3
    <3>2. CASE i = 0 /\ n # 0
      <4>1. T(i) = z /\ T(i + 1) = P(1)
        BY <2>1, <3>2, <1>1, <1>5
      <4> QED
        BY <4>1, <3>2, <1>3, <1>7
    <3>3. CASE i # 0 /\ i = n
      <4>1. T(i) = P(n) /\ T(i + 1) = z
        BY <2>1, <3>3, <1>1, <1>5
      <4> QED
        BY <4>1, <3>3, <1>3, <1>7
    <3>4. CASE i # 0 /\ i # n
      <4>1. T(i) = P(i) /\ T(i + 1) = P(i + 1) /\ n # 0
        BY <2>1, <3>4, <1>1, <1>5
      <4>2. P(i) # P(n) /\ P(i) # z /\ P(i) \in N /\ m.next[P(i)] = P(i + 1)
        BY <2>1, <3>4, <1>1, <1>4, <1>6
      <4> QED
        BY <4>1, <4>2, <1>3
    <3> QED
      BY <3>1, <3>2, <3>3, <3>4
  <2>3. r.prev[T(i + 1)] = T(i)
    <3>1. CASE i = n /\ n = 0
      <4>1. T(i) = z /\ T(i + 1) = z
        BY <2>1, <3>1, <1>1, <1>5
      <4> QED
        BY <4>1, <3>1, <1>3
    <3>2. CASE i = n /\ n # 0
      <4>1. T(i) = P(n) /\ T(i + 1) = z
        BY <2>1, <3>2, <1>1, <1>5
      <4> QED
        BY <4>1, <3>2, <1>3, <1>7
    <3>3. CASE i # n /\ i = 0
      <4>1. T(i) = z /\ T(i + 1) = P(1)
        BY <2>1, <3>3, <1>1, <1>5
      <4> QED
        BY <4>1, <3>3, <1>3, <1>7
    <3>4. CASE i # n /\ i # 0
      <4>1. T(i) = P(i) /\ T(i + 1) = P(i + 1)
        BY <2>1, <3>4, <1>1, <1>5
      <4>2. P(i + 1) # P(1) /\ P(i + 1) # z /\ P(i + 1) \in N /\ m.prev[P(i + 1)] = P(i)
        BY <2>1, <3>4, <1>1, <1>4, <1>6
      <4> QED
        BY <4>1, <4>2, <1>3
    <3> QED
      BY <3>1, <3>2, <3>3, <3>4
  <2> QED
    BY <2>2, <2>3
<1>12. Circle(r, z, s)
  BY <1>11 DEF Circle, T, n
<1>13. \A i, j \in 0 .. n : T(i) = T(j) => i = j
  BY <1>1, <1>5, <1>6
<1>14. Ring(N, z, s)
  BY <1>1, <1>13 DEF Ring, T, n
<1>18. Nodes(z, s) = (Nodes(l, s) \ {P(0)}) \cup {z}
  <2>1. Nodes(z, s) = {T(i) : i \in 0 .. n} /\ Nodes(l, s) = {P(i) : i \in 0 .. n}
    BY DEF Nodes, T, P, n
  <2>2. \A j \in 0 .. n : (P(j) = P(0) => j = 0) /\ T(j) = IF j = 0 THEN z ELSE P(j)
    BY <1>1, <1>5
  <2>3. 0 \in 0 .. n
    BY <1>1
  <2> QED
    BY <2>1, <2>2, <2>3
<1>19. Same(m, r, N, Nodes(l, s) \cup {z})
  <2>1. P(1) \in Nodes(l, s) /\ P(n) \in Nodes(l, s)
    BY <1>1
  <2> QED
    BY <2>1, <1>3 DEF Same
<1> QED
  BY <1>1, <1>3, <1>12, <1>14, <1>18, <1>19 DEF r

-----------------------------------------------------------------------------
(* Moving, rotating, cutting and splicing *)

(* What list_bulk_move_tail writes.                                        *)
LEMMA BulkLinks ==
  ASSUME NEW N, NEW m \in Mem(N), NEW h \in N, NEW f \in N, NEW g \in N,
         m.prev[f] \in N, m.next[g] \in N, m.prev[h] \in N
  PROVE  LET r == list_bulk_move_tail(m, h, f, g)
             q == IF h = m.next[g] THEN m.prev[f] ELSE m.prev[h]
         IN  /\ r \in Mem(N)
             /\ \A y \in N :
                  /\ r.next[y] = IF y = g THEN h ELSE IF y = q THEN f
                                 ELSE IF y = m.prev[f] THEN m.next[g] ELSE m.next[y]
                  /\ r.prev[y] = IF y = h THEN g ELSE IF y = f THEN q
                                 ELSE IF y = m.next[g] THEN m.prev[f] ELSE m.prev[y]
  BY DEF Mem, list_bulk_move_tail

(* What __list_cut_position writes.                                        *)
LEMMA CutLinks ==
  ASSUME NEW N, NEW m \in Mem(N), NEW z \in N, NEW h \in N, NEW e \in N,
         m.next[h] \in N, m.next[e] \in N
  PROVE  LET r == __list_cut_position(m, z, h, e)
         IN  /\ r \in Mem(N)
             /\ \A y \in N :
                  /\ r.next[y] = IF y = h THEN m.next[e] ELSE IF y = e THEN z
                                 ELSE IF y = z THEN m.next[h] ELSE m.next[y]
                  /\ r.prev[y] = IF y = m.next[e] THEN h ELSE IF y = z THEN e
                                 ELSE IF y = m.next[h] THEN z ELSE m.prev[y]
  BY DEF Mem, __list_cut_position

(* What list_cut_before writes.                                            *)
LEMMA CutBeforeLinks ==
  ASSUME NEW N, NEW m \in Mem(N), NEW z \in N, NEW h \in N, NEW e \in N,
         m.next[h] \in N, m.prev[e] \in N, m.next[h] # e, z # e
  PROVE  LET r == list_cut_before(m, z, h, e)
         IN  /\ r \in Mem(N)
             /\ \A y \in N :
                  /\ r.next[y] = IF y = h THEN e ELSE IF y = m.prev[e] THEN z
                                 ELSE IF y = z THEN m.next[h] ELSE m.next[y]
                  /\ r.prev[y] = IF y = e THEN h ELSE IF y = z THEN m.prev[e]
                                 ELSE IF y = m.next[h] THEN z ELSE m.prev[y]
  BY DEF Mem, list_cut_before

(* What __list_splice writes.                                              *)
LEMMA SpliceLinks ==
  ASSUME NEW N, NEW m \in Mem(N), NEW z \in N, NEW p \in N, NEW q \in N,
         m.next[z] \in N, m.prev[z] \in N
  PROVE  LET r == __list_splice(m, z, p, q)
         IN  /\ r \in Mem(N)
             /\ \A y \in N :
                  /\ r.next[y] = IF y = m.prev[z] THEN q ELSE IF y = p THEN m.next[z] ELSE m.next[y]
                  /\ r.prev[y] = IF y = q THEN m.prev[z] ELSE IF y = m.next[z] THEN p ELSE m.prev[y]
  BY DEF Mem, __list_splice

(* t is s with the entries from place a to place b moved to the end.       *)
BulkMoved(s, t, a, b) ==
  /\ Len(t) = Len(s)
  /\ \A i \in 1 .. Len(s) :
       t[i] = IF i < a THEN s[i]
              ELSE IF i <= Len(s) - (b - a + 1) THEN s[i + (b - a + 1)] ELSE s[i - (Len(s) - b)]

(* list_bulk_move_tail makes the new order out of the old one.             *)
LEMMA BulkCircle ==
  ASSUME NEW N, NEW m \in Mem(N), NEW l, NEW s, Ring(N, l, s), Circle(m, l, s),
         NEW a \in 1 .. Len(s), NEW b \in a .. Len(s),
         NEW t \in Seq(N), BulkMoved(s, t, a, b)
  PROVE  LET r == list_bulk_move_tail(m, l, s[a], s[b])
         IN  /\ r \in Mem(N) /\ Ring(N, l, t) /\ Circle(r, l, t)
             /\ Nodes(l, t) = Nodes(l, s)
             /\ Same(m, r, N, Nodes(l, s))
<1> DEFINE n == Len(s)
           w == b - a + 1
           P(i) == At(l, s, i)
           T(i) == At(l, t, i)
           r == list_bulk_move_tail(m, l, s[a], s[b])
<1>1. /\ s \in Seq(N) /\ l \in N /\ n \in Nat /\ a \in Int /\ b \in Int /\ 1 <= a /\ a <= b
           /\ b <= n
      /\ \A i, j \in 0 .. n : P(i) = P(j) => i = j
      /\ \A i, j \in 1 .. n + 1 : P(i) = P(j) => i = j
      /\ \A i \in 0 .. n + 1 : P(i) \in N /\ P(i) \in Nodes(l, s)
      /\ P(a) = s[a] /\ P(b) = s[b] /\ P(0) = l /\ P(n + 1) = l
  <2>1. /\ s \in Seq(N) /\ l \in N /\ n \in Nat
        /\ \A i \in Int : P(i) \in N
        /\ \A i, j \in 0 .. n : P(i) = P(j) => i = j
        /\ \A i, j \in 1 .. n + 1 : P(i) = P(j) => i = j
        /\ \A i \in 0 .. n + 1 : P(i) \in Nodes(l, s)
        /\ \A i \in 1 .. n : P(i) = s[i]
        /\ \A i \in Int : i < 1 \/ i > n => P(i) = l
    BY RingIndex
  <2> HIDE DEF P
  <2>2. a \in 1 .. n /\ b \in a .. n
    OBVIOUS
  <2> HIDE DEF n
  <2>3. a \in Int /\ b \in Int /\ 1 <= a /\ a <= b /\ b <= n /\ b \in 1 .. n /\ 0 \in Int
          /\ n + 1 \in Int
    BY <2>1, <2>2
  <2>4. P(a) = s[a] /\ P(b) = s[b] /\ P(0) = l /\ P(n + 1) = l
    BY <2>1, <2>2, <2>3
  <2> QED
    BY <2>1, <2>3, <2>4
<1>4. \A i \in 0 .. n : m.next[P(i)] = P(i + 1) /\ m.prev[P(i + 1)] = P(i)
  BY DEF Circle
<1>2. Len(t) = n
  BY DEF BulkMoved
<1>5. \A j \in 0 .. n + 1 :
        T(j) = IF j < a THEN P(j) ELSE IF j = n + 1 THEN P(n + 1)
               ELSE IF j <= n - w THEN P(j + w) ELSE P(j - (n - b))
  <2> TAKE j \in 0 .. n + 1
  <2>1. CASE j \in 1 .. n
    <3>1. T(j) = t[j]
      BY <2>1, <1>2 DEF At
    <3>2. t[j] = IF j < a THEN s[j] ELSE IF j <= n - w THEN s[j + w] ELSE s[j - (n - b)]
      BY <2>1 DEF BulkMoved
    <3>3. \A i \in 1 .. n : P(i) = s[i]
      BY DEF At
    <3>4. /\ j # n + 1
          /\ ~ (j < a) /\ j <= n - w => j + w \in 1 .. n
          /\ ~ (j < a) /\ ~ (j <= n - w) => j - (n - b) \in 1 .. n
      BY <2>1, <1>1
    <3> HIDE DEF P, T, w, n
    <3> QED
      BY <3>1, <3>2, <3>3, <3>4, <2>1
  <2>2. CASE j = 0
    BY <2>2, <1>1, <1>2 DEF At
  <2>3. CASE j = n + 1
    BY <2>3, <1>1, <1>2 DEF At
  <2> HIDE DEF n, P, T, w
  <2> QED
    BY <2>1, <2>2, <2>3, <1>1
<1>6. w \in Int /\ w >= 1 /\ w <= n /\ w = b - a + 1 /\ n - w = n - b + a - 1
  BY <1>1
<1> HIDE DEF n, P, T, w
<1> DEFINE q == IF b = n THEN P(a - 1) ELSE P(n)
<1>3. /\ r \in Mem(N)
      /\ \A y \in N : /\ r.next[y] = IF y = P(b) THEN P(0) ELSE IF y = q THEN P(a)
                                     ELSE IF y = P(a - 1) THEN P(b + 1) ELSE m.next[y]
                      /\ r.prev[y] = IF y = P(0) THEN P(b) ELSE IF y = P(a) THEN q
                                     ELSE IF y = P(b + 1) THEN P(a - 1) ELSE m.prev[y]
  <2>1. m.prev[s[a]] = P(a - 1) /\ P(a - 1) \in N
    <3>1. a - 1 \in 0 .. n /\ a - 1 + 1 = a
      BY <1>1
    <3> QED
      BY <3>1, <1>1, <1>4
  <2>2. m.next[s[b]] = P(b + 1) /\ P(b + 1) \in N
    BY <1>1, <1>4
  <2>3. m.prev[l] = P(n) /\ P(n) \in N
    BY <1>1, <1>4
  <2>4. l = P(b + 1) <=> b = n
    <3>1. b + 1 \in 1 .. n + 1 /\ n + 1 \in 1 .. n + 1 /\ (b + 1 = n + 1 <=> b = n)
      BY <1>1
    <3>2. P(b + 1) = P(n + 1) => b + 1 = n + 1
      BY <3>1, <1>1
    <3> QED
      BY <3>1, <3>2, <1>1
  <2> DEFINE f == s[a]
             g == s[b]
  <2>5. f \in N /\ g \in N /\ l \in N /\ m.prev[f] \in N /\ m.next[g] \in N /\ m.prev[l] \in N
    BY <1>1, <2>1, <2>2, <2>3
  <2>7. q = IF l = m.next[g] THEN m.prev[f] ELSE m.prev[l]
    BY <2>1, <2>2, <2>3, <2>4
  <2>8. r = list_bulk_move_tail(m, l, f, g) /\ f = P(a) /\ g = P(b) /\ l = P(0)
          /\ m.prev[f] = P(a - 1) /\ m.next[g] = P(b + 1)
    BY <1>1, <2>1, <2>2
  <2> HIDE DEF f, g, q, r
  <2>6. LET d == list_bulk_move_tail(m, l, f, g)
            c == IF l = m.next[g] THEN m.prev[f] ELSE m.prev[l]
        IN  /\ d \in Mem(N)
            /\ \A y \in N :
                 /\ d.next[y] = IF y = g THEN l ELSE IF y = c THEN f
                                ELSE IF y = m.prev[f] THEN m.next[g] ELSE m.next[y]
                 /\ d.prev[y] = IF y = l THEN g ELSE IF y = f THEN c
                                ELSE IF y = m.next[g] THEN m.prev[f] ELSE m.prev[y]
    BY <2>5, BulkLinks
  <2> QED
    BY <2>6, <2>7, <2>8
<1> HIDE DEF r
<1>7. \A i, j \in 0 .. n : i # j => P(i) # P(j)
  BY <1>1
<1>8. \A i, j \in 1 .. n + 1 : i # j => P(i) # P(j)
  BY <1>1
<1>9. /\ \A i \in 0 .. a - 1 : T(i) = P(i)
      /\ \A i \in a .. n - w : T(i) = P(i + w)
      /\ \A i \in n - w + 1 .. n : i >= a => T(i) = P(i - (n - b))
      /\ T(n + 1) = P(0)
  BY <1>1, <1>5, <1>6
<1>11. ASSUME NEW i \in 0 .. n
       PROVE  r.next[T(i)] = T(i + 1) /\ r.prev[T(i + 1)] = T(i)
  <2>0. i \in Int /\ 0 <= i /\ i <= n
    BY <1>1
  <2>1. CASE i < a - 1
    <3>1. T(i) = P(i) /\ T(i + 1) = P(i + 1)
      BY <2>0, <2>1, <1>1, <1>9
    <3>2. P(i) # P(b) /\ P(i) # P(n) /\ P(i) # P(a - 1) /\ P(i) \in N /\ m.next[P(i)] = P(i + 1)
      BY SMTT(30), <2>0, <2>1, <1>1, <1>4
    <3>3. P(i + 1) # P(0) /\ P(i + 1) # P(a) /\ P(i + 1) # P(b + 1) /\ P(i + 1) \in N
            /\ m.prev[P(i + 1)] = P(i)
      BY <2>0, <2>1, <1>1, <1>4
    <3> QED
      BY <3>1, <3>2, <3>3, <1>3
  <2>2. CASE i = a - 1 /\ b < n
    <3>1. T(i) = P(a - 1) /\ T(i + 1) = P(b + 1)
      <4>1. i + 1 \in a .. n - w /\ i + 1 + w = b + 1 /\ i \in 0 .. a - 1
        BY <2>0, <2>2, <1>1, <1>6
      <4> QED
        BY <4>1, <2>2, <1>9
    <3>2. P(a - 1) # P(b) /\ P(a - 1) # P(n) /\ P(a - 1) \in N
      BY <2>2, <1>1
    <3>3. P(b + 1) # P(0) /\ P(b + 1) # P(a) /\ P(b + 1) \in N
      BY <2>2, <1>1
    <3> QED
      BY <2>2, <3>1, <3>2, <3>3, <1>3
  <2>3. CASE i = a - 1 /\ b = n
    <3>1. T(i) = P(a - 1) /\ T(i + 1) = P(a)
      <4>1. i + 1 \in n - w + 1 .. n /\ i + 1 >= a /\ i + 1 - (n - b) = a /\ i \in 0 .. a - 1
        BY <2>0, <2>3, <1>1, <1>6
      <4> QED
        BY <4>1, <2>3, <1>9
    <3>2. P(a - 1) # P(b) /\ P(a - 1) \in N /\ P(a) \in N /\ P(a) # P(0)
      BY <2>3, <1>1
    <3> QED
      BY <2>3, <3>1, <3>2, <1>3
  <2>4. CASE i >= a /\ i < n - w
    <3>1. T(i) = P(i + w) /\ T(i + 1) = P(i + w + 1)
      <4>1. i \in a .. n - w /\ i + 1 \in a .. n - w /\ i + 1 + w = i + w + 1
        BY <2>0, <2>4, <1>1, <1>6
      <4> QED
        BY <4>1, <1>9
    <3> DEFINE j == i + w
    <3>5. j \in Int /\ j > b /\ j < n
      BY <2>0, <2>4, <1>1, <1>6
    <3> HIDE DEF j
    <3>2. P(j) # P(b) /\ P(j) # P(n) /\ P(j) # P(a - 1) /\ P(j) \in N /\ m.next[P(j)] = P(j + 1)
      <4>1. /\ j \in 0 .. n /\ b \in 0 .. n /\ n \in 0 .. n /\ a - 1 \in 0 .. n
            /\ j # b /\ j # n /\ j # a - 1
        BY <3>5, <1>1
      <4>2. P(j) \in N /\ m.next[P(j)] = P(j + 1)
        BY <4>1, <1>1, <1>4
      <4> QED
        BY <4>1, <4>2, <1>7
    <3>3. P(j + 1) # P(0) /\ P(j + 1) # P(a) /\ P(j + 1) # P(b + 1) /\ P(j + 1) \in N
            /\ m.prev[P(j + 1)] = P(j)
      BY SMTT(30), <3>5, <1>1, <1>4
    <3> QED
      BY <3>1, <3>2, <3>3, <1>3 DEF j
  <2>5. CASE i >= a /\ i = n - w
    <3>1. T(i) = P(n) /\ T(i + 1) = P(a)
      <4>1. i \in a .. n - w /\ i + 1 \in n - w + 1 .. n /\ i + 1 >= a /\ i + w = n
              /\ i + 1 - (n - b) = a
        BY <2>0, <2>5, <1>1, <1>6
      <4>2. T(i) = P(i + w)
        BY <4>1, <1>9
      <4>3. T(i + 1) = P(i + 1 - (n - b))
        <5> DEFINE c == i + 1
        <5>1. c \in n - w + 1 .. n /\ c >= a
          BY <4>1
        <5> HIDE DEF c
        <5>2. T(c) = P(c - (n - b))
          BY <5>1, <1>9
        <5> QED
          BY <5>2, <1>1 DEF c
      <4> QED
        BY <4>1, <4>2, <4>3
    <3>2. b # n /\ P(n) # P(b) /\ P(n) \in N /\ P(a) \in N /\ P(a) # P(0)
      BY <2>5, <1>1, <1>6
    <3> QED
      BY <3>1, <3>2, <1>3
  <2>6. CASE i >= a /\ i > n - w /\ i < n
    <3>1. T(i) = P(i - (n - b)) /\ T(i + 1) = P(i - (n - b) + 1)
      <4>1. i \in n - w + 1 .. n /\ i + 1 \in n - w + 1 .. n /\ i + 1 >= a
              /\ i + 1 - (n - b) = i - (n - b) + 1
        BY <2>0, <2>6, <1>1, <1>6
      <4>2. T(i) = P(i - (n - b))
        BY <4>1, <2>6, <1>9
      <4>3. T(i + 1) = P(i + 1 - (n - b))
        <5> DEFINE c == i + 1
        <5>1. c \in n - w + 1 .. n /\ c >= a
          BY <4>1
        <5> HIDE DEF c
        <5>2. T(c) = P(c - (n - b))
          BY <5>1, <1>9
        <5> QED
          BY <5>2, <1>1 DEF c
      <4> QED
        BY <4>1, <4>2, <4>3
    <3> DEFINE j == i - (n - b)
    <3>5. j \in Int /\ j >= a /\ j < b
      BY <2>0, <2>6, <1>1, <1>6
    <3> HIDE DEF j
    <3>2. P(j) # P(b) /\ P(j) # P(n) /\ P(j) # P(a - 1) /\ P(j) \in N /\ m.next[P(j)] = P(j + 1)
      BY SMTT(30), <3>5, <1>1, <1>4
    <3>3. P(j + 1) # P(0) /\ P(j + 1) # P(a) /\ P(j + 1) # P(b + 1) /\ P(j + 1) \in N
            /\ m.prev[P(j + 1)] = P(j)
      BY <3>5, <1>1, <1>4
    <3> QED
      BY <3>1, <3>2, <3>3, <1>3 DEF j
  <2>7. CASE i = n
    <3>1. T(i) = P(b) /\ T(i + 1) = P(0)
      <4>1. i \in n - w + 1 .. n /\ i >= a /\ i - (n - b) = b
        BY <2>0, <2>7, <1>1, <1>6
      <4> QED
        BY <4>1, <2>7, <1>9
    <3>2. P(b) \in N /\ P(0) \in N
      BY <1>1
    <3> QED
      BY <3>1, <3>2, <1>3
  <2> QED
    BY <2>0, <2>1, <2>2, <2>3, <2>4, <2>5, <2>6, <2>7, <1>1, <1>6
<1>12. Circle(r, l, t)
  BY <1>2, <1>11 DEF Circle, T
<1>13. \A i, j \in 0 .. n : T(i) = T(j) => i = j
  <2> SUFFICES ASSUME NEW i \in 0 .. n, NEW j \in 0 .. n, i # j, T(i) = T(j) PROVE FALSE
    OBVIOUS
  <2> DEFINE f(c) == IF c < a THEN c ELSE IF c <= n - w THEN c + w ELSE c - (n - b)
  <2>1. T(i) = P(f(i)) /\ T(j) = P(f(j))
    BY <1>1, <1>5
  <2>2. f(i) \in 0 .. n /\ f(j) \in 0 .. n /\ f(i) # f(j)
    BY <1>1, <1>6
  <2> HIDE DEF f
  <2> QED
    BY <2>1, <2>2, <1>7
<1>14. Ring(N, l, t)
  BY <1>1, <1>2, <1>13 DEF Ring, T
<1>15. \A i \in 0 .. n : \E j \in 0 .. n : T(i) = P(j)
  <2> TAKE i \in 0 .. n
  <2> DEFINE c == IF i < a THEN i ELSE IF i <= n - w THEN i + w ELSE i - (n - b)
  <2>1. T(i) = P(c)
    BY <1>1, <1>5
  <2>2. c \in 0 .. n
    BY <1>1, <1>6
  <2> QED
    BY <2>1, <2>2
<1>16. \A j \in 0 .. n : \E i \in 0 .. n : P(j) = T(i)
  <2> TAKE j \in 0 .. n
  <2> DEFINE c == IF j < a THEN j ELSE IF j <= b THEN j + (n - b) ELSE j - w
  <2>2. c \in 0 .. n /\ c \in Int
    BY <1>1, <1>6
  <2>1. T(c) = P(j)
    <3>1. CASE j < a
      BY <3>1, <1>1, <1>9
    <3>2. CASE j >= a /\ j <= b
      <4>1. j + (n - b) \in n - w + 1 .. n /\ j + (n - b) >= a /\ j + (n - b) - (n - b) = j
        BY <3>2, <1>1, <1>6
      <4>2. c = j + (n - b)
        BY <3>2, <1>1
      <4>3. T(j + (n - b)) = P(j + (n - b) - (n - b))
        <5> DEFINE e == j + (n - b)
        <5>1. e \in n - w + 1 .. n /\ e >= a
          BY <4>1
        <5> HIDE DEF e
        <5>2. T(e) = P(e - (n - b))
          BY <5>1, <1>9
        <5> QED
          BY <5>2, <1>1 DEF e
      <4> HIDE DEF c
      <4> QED
        BY <4>1, <4>2, <4>3
    <3>3. CASE j > b
      <4>1. j - w \in a .. n - w /\ j - w + w = j /\ ~ (j < a) /\ ~ (j <= b)
        BY <3>3, <1>1, <1>6
      <4> QED
        BY <4>1, <1>9
    <3> QED
      BY <3>1, <3>2, <3>3, <1>1
  <2> QED
    BY <2>1, <2>2
<1>18. Nodes(l, t) = Nodes(l, s)
  <2>1. Nodes(l, t) = {T(i) : i \in 0 .. n} /\ Nodes(l, s) = {P(i) : i \in 0 .. n}
    BY <1>2 DEF Nodes, T, P, n
  <2> QED
    BY <2>1, <1>15, <1>16
<1>19. Same(m, r, N, Nodes(l, s))
  <2>1. /\ P(a - 1) \in Nodes(l, s) /\ P(b + 1) \in Nodes(l, s) /\ P(a) \in Nodes(l, s)
        /\ P(b) \in Nodes(l, s) /\ P(0) \in Nodes(l, s) /\ P(n) \in Nodes(l, s)
    BY <1>1
  <2> QED
    BY <2>1, <1>3 DEF Same
<1> QED
  BY <1>3, <1>12, <1>14, <1>18, <1>19 DEF r

(* The places of a ring, in the form the longer proofs use.                *)
LEMMA RingFacts ==
  ASSUME NEW N, NEW l, NEW s, Ring(N, l, s)
  PROVE  /\ s \in Seq(N) /\ l \in N /\ Len(s) \in Nat
         /\ \A i \in 0 .. Len(s) + 1 : At(l, s, i) \in N /\ At(l, s, i) \in Nodes(l, s)
         /\ \A i, j \in 0 .. Len(s) : At(l, s, i) = At(l, s, j) => i = j
         /\ \A i, j \in 1 .. Len(s) + 1 : At(l, s, i) = At(l, s, j) => i = j
         /\ \A i \in 1 .. Len(s) : At(l, s, i) = s[i]
         /\ At(l, s, 0) = l /\ At(l, s, Len(s) + 1) = l
<1> DEFINE n == Len(s)
           P(i) == At(l, s, i)
<1>1. /\ s \in Seq(N) /\ l \in N /\ n \in Nat
      /\ \A i \in Int : P(i) \in N
      /\ \A i, j \in 0 .. n : P(i) = P(j) => i = j
      /\ \A i, j \in 1 .. n + 1 : P(i) = P(j) => i = j
      /\ \A i \in 0 .. n + 1 : P(i) \in Nodes(l, s)
      /\ \A i \in 1 .. n : P(i) = s[i]
      /\ \A i \in Int : i < 1 \/ i > n => P(i) = l
  BY RingIndex
<1> HIDE DEF n, P
<1>2. P(0) = l /\ P(n + 1) = l
  BY <1>1
<1> QED
  BY <1>1, <1>2 DEF n, P

(* t is s without its first k entries, and then those.                     *)
Rotated(s, t, k) ==
  /\ Len(t) = Len(s)
  /\ \A i \in 1 .. Len(s) : t[i] = IF i <= Len(s) - k THEN s[k + i] ELSE s[i - (Len(s) - k)]

(* Moving the head behind a node of its list rotates the list.             *)
LEMMA RotateCircle ==
  ASSUME NEW N, NEW m \in Mem(N), NEW l, NEW s, Ring(N, l, s), Circle(m, l, s),
         NEW k \in 0 .. Len(s) - 1,
         NEW t \in Seq(N), Rotated(s, t, k)
  PROVE  LET r == list_move_tail(m, l, s[k + 1])
         IN  /\ r \in Mem(N) /\ Ring(N, l, t) /\ Circle(r, l, t)
             /\ Nodes(l, t) = Nodes(l, s)
             /\ Same(m, r, N, Nodes(l, s))
<1> DEFINE n == Len(s)
           P(i) == At(l, s, i)
           T(i) == At(l, t, i)
           x == s[k + 1]
           r == list_move_tail(m, l, x)
<1>1. /\ s \in Seq(N) /\ l \in N /\ n \in Nat /\ k \in Int /\ 0 <= k /\ k < n
      /\ \A i, j \in 0 .. n : P(i) = P(j) => i = j
      /\ \A i, j \in 1 .. n + 1 : P(i) = P(j) => i = j
      /\ \A i \in 0 .. n + 1 : P(i) \in N /\ P(i) \in Nodes(l, s)
      /\ \A i \in 1 .. n : P(i) = s[i]
      /\ P(0) = l /\ P(n + 1) = l
  <2>1. /\ s \in Seq(N) /\ l \in N /\ n \in Nat
        /\ \A i, j \in 0 .. n : P(i) = P(j) => i = j
        /\ \A i, j \in 1 .. n + 1 : P(i) = P(j) => i = j
        /\ \A i \in 0 .. n + 1 : P(i) \in N /\ P(i) \in Nodes(l, s)
        /\ \A i \in 1 .. n : P(i) = s[i]
        /\ P(0) = l /\ P(n + 1) = l
    BY RingFacts
  <2>2. k \in 0 .. n - 1
    OBVIOUS
  <2> HIDE DEF P, n
  <2>3. k \in Int /\ 0 <= k /\ k < n
    BY <2>1, <2>2
  <2> QED
    BY <2>1, <2>3
<1>2. Len(t) = n /\ T(0) = l /\ T(n + 1) = l /\ \A i \in 1 .. n : T(i) = t[i]
  <2>1. Len(t) = n
    BY DEF Rotated
  <2> QED
    BY <2>1, <1>1 DEF At
<1>4. \A i \in 0 .. n : m.next[P(i)] = P(i + 1) /\ m.prev[P(i + 1)] = P(i)
  BY DEF Circle
<1>0. \A i \in 1 .. n : t[i] = IF i <= n - k THEN s[k + i] ELSE s[i - (n - k)]
  BY DEF Rotated
<1> HIDE DEF n, P, T, x
<1>9. /\ \A i \in 1 .. n - k : T(i) = P(k + i)
      /\ \A i \in n - k + 1 .. n : T(i) = P(i - (n - k))
  <2>1. ASSUME NEW i \in 1 .. n - k PROVE T(i) = P(k + i)
    <3>1. i \in 1 .. n /\ i <= n - k /\ k + i \in 1 .. n
      BY <1>1
    <3> QED
      BY <3>1, <1>0, <1>1, <1>2
  <2>2. ASSUME NEW i \in n - k + 1 .. n PROVE T(i) = P(i - (n - k))
    <3>1. i \in 1 .. n /\ ~ (i <= n - k) /\ i - (n - k) \in 1 .. n
      BY <1>1
    <3> QED
      BY ZenonT(40), <3>1, <1>0, <1>1, <1>2
  <2> QED
    BY <2>1, <2>2
<1>5. /\ x = P(k + 1) /\ k + 1 \in 1 .. n /\ P(1) \in N /\ P(n) \in N /\ P(k) \in N
           /\ P(k + 1) \in N
      /\ m.next[l] = P(1) /\ m.prev[l] = P(n) /\ m.prev[P(k + 1)] = P(k) /\ l = P(0)
  <2>1. k + 1 \in 1 .. n /\ 1 \in 0 .. n + 1 /\ n \in 0 .. n + 1 /\ k \in 0 .. n + 1
          /\ k + 1 \in 0 .. n + 1
        /\ 0 \in 0 .. n /\ n \in 0 .. n /\ k \in 0 .. n /\ 0 + 1 = 1
    BY <1>1
  <2>2. m.next[P(0)] = P(0 + 1) /\ m.prev[P(n + 1)] = P(n) /\ m.prev[P(k + 1)] = P(k)
    BY <2>1, <1>4
  <2> QED
    BY <2>1, <2>2, <1>1 DEF x
<1> DEFINE px == IF k = 0 THEN P(n) ELSE P(k)
<1>6. P(k + 1) = P(1) <=> k = 0
  <2>1. 1 \in 1 .. n + 1 /\ k + 1 \in 1 .. n + 1 /\ (k + 1 = 1 <=> k = 0)
    BY <1>1
  <2> QED
    BY <2>1, <1>1
<1>3. /\ r \in Mem(N)
      /\ \A y \in N : /\ r.next[y] = IF y = px THEN P(0) ELSE IF y = P(0) THEN P(k + 1)
                                     ELSE IF y = P(n) THEN P(1) ELSE m.next[y]
                      /\ r.prev[y] = IF y = P(0) THEN px ELSE IF y = P(k + 1) THEN P(0)
                                     ELSE IF y = P(1) THEN P(n) ELSE m.prev[y]
  <2> DEFINE d == __list_del(m, P(n), P(1))
  <2>1. /\ d \in Mem(N)
        /\ \A y \in N : /\ d.next[y] = IF y = P(n) THEN P(1) ELSE m.next[y]
                        /\ d.prev[y] = IF y = P(1) THEN P(n) ELSE m.prev[y]
    BY <1>5, JoinAround
  <2>2. r = __list_add(d, l, d.prev[x], x)
    BY <1>5 DEF list_move_tail, list_add_tail, __list_del_entry
  <2> HIDE DEF d
  <2>3. d.prev[x] = px /\ px \in N /\ x \in N
    BY <2>1, <1>5, <1>6
  <2> HIDE DEF px, r
  <2>4. LET e == __list_add(d, l, px, x) IN
        /\ e \in Mem(N)
        /\ \A y \in N : /\ e.next[y] = IF y = px THEN l ELSE IF y = l THEN x ELSE d.next[y]
                        /\ e.prev[y] = IF y = l THEN px ELSE IF y = x THEN l ELSE d.prev[y]
    BY <2>1, <2>3, <1>1, LinkBetween
  <2>5. r = __list_add(d, l, px, x)
    BY <2>2, <2>3
  <2> QED
    BY <2>1, <2>4, <2>5, <1>5
<1> HIDE DEF r
<1>11. ASSUME NEW i \in 0 .. n
       PROVE  r.next[T(i)] = T(i + 1) /\ r.prev[T(i + 1)] = T(i)
  <2>0. i \in Int /\ 0 <= i /\ i <= n
    BY <1>1
  <2>1. CASE i = 0
    <3>1. 1 \in 1 .. n - k /\ k + 1 = k + 1 /\ i + 1 = 1
      BY <2>1, <1>1
    <3>2. T(i) = P(0) /\ T(i + 1) = P(k + 1)
      BY <3>1, <2>1, <1>2, <1>9, <1>5
    <3>3. P(0) # px /\ P(0) \in N /\ P(k + 1) \in N /\ P(k + 1) # P(0)
      BY <1>1
    <3> QED
      BY <3>2, <3>3, <1>3
  <2>2. CASE i > 0 /\ i < n - k
    <3> DEFINE j == k + i
    <3>1. j \in Int /\ j > k /\ j < n /\ k + (i + 1) = j + 1 /\ i \in 1 .. n - k
            /\ i + 1 \in 1 .. n - k
      BY <2>0, <2>2, <1>1
    <3>2. T(i) = P(j) /\ T(i + 1) = P(k + (i + 1))
      BY <3>1, <1>9
    <3> HIDE DEF j
    <3>5. T(i + 1) = P(j + 1)
      BY <3>1, <3>2
    <3>3. P(j) # px /\ P(j) # P(0) /\ P(j) # P(n) /\ P(j) \in N /\ m.next[P(j)] = P(j + 1)
      BY <3>1, <1>1, <1>4
    <3>4. P(j + 1) # P(0) /\ P(j + 1) # P(k + 1) /\ P(j + 1) # P(1) /\ P(j + 1) \in N
            /\ m.prev[P(j + 1)] = P(j)
      BY <3>1, <1>1, <1>4
    <3> QED
      BY <3>2, <3>3, <3>4, <3>5, <1>3
  <2>3. CASE i = n - k /\ k = 0
    <3>1. T(i) = P(n) /\ T(i + 1) = P(0)
      <4>1. i \in 1 .. n - k /\ k + i = n /\ i + 1 = n + 1
        BY <2>3, <1>1
      <4>2. T(i) = P(k + i)
        BY <4>1, <1>9
      <4> QED
        BY <4>1, <4>2, <1>2, <1>5
    <3>2. P(n) = px /\ P(n) \in N /\ P(0) \in N
      BY <2>3, <1>1
    <3> QED
      BY <3>1, <3>2, <1>3
  <2>4. CASE i = n - k /\ k > 0
    <3>1. T(i) = P(n) /\ T(i + 1) = P(1)
      <4>1. i \in 1 .. n - k /\ k + i = n /\ i + 1 \in n - k + 1 .. n /\ i + 1 - (n - k) = 1
        BY <2>4, <1>1
      <4>2. T(i) = P(k + i)
        BY <4>1, <1>9
      <4>3. T(i + 1) = P(i + 1 - (n - k))
        BY <4>1, <1>9, <1>1
      <4> QED
        BY <4>1, <4>2, <4>3
    <3>2. P(n) # px /\ P(n) # P(0) /\ P(n) \in N /\ P(1) \in N /\ P(1) # P(0) /\ P(1) # P(k + 1)
      <4>1. n \in 0 .. n /\ k \in 0 .. n /\ 0 \in 0 .. n /\ 1 \in 0 .. n /\ k + 1 \in 1 .. n
              /\ k + 1 \in 0 .. n /\ n # k /\ n # 0 /\ 1 # k + 1 /\ px = P(k)
        BY <2>4, <1>1
      <4> HIDE DEF px
      <4> QED
        BY <4>1, <1>1, <1>5
    <3> QED
      BY <3>1, <3>2, <1>3
  <2>5. CASE i > n - k /\ i < n
    <3> DEFINE j == i - (n - k)
    <3>1. j \in Int /\ j > 0 /\ j < k /\ i + 1 - (n - k) = j + 1 /\ i \in n - k + 1 .. n
            /\ i + 1 \in n - k + 1 .. n
      BY <2>0, <2>5, <1>1
    <3>2. T(i) = P(j) /\ T(i + 1) = P(i + 1 - (n - k))
      BY <3>1, <1>9, <1>1
    <3> HIDE DEF j
    <3>5. T(i + 1) = P(j + 1)
      BY <3>1, <3>2
    <3>3. P(j) # px /\ P(j) # P(0) /\ P(j) # P(n) /\ P(j) \in N /\ m.next[P(j)] = P(j + 1)
      BY <3>1, <1>1, <1>4
    <3>4. P(j + 1) # P(0) /\ P(j + 1) # P(k + 1) /\ P(j + 1) # P(1) /\ P(j + 1) \in N
            /\ m.prev[P(j + 1)] = P(j)
      BY <3>1, <1>1, <1>4
    <3> QED
      BY <3>2, <3>3, <3>4, <3>5, <1>3
  <2>6. CASE i > n - k /\ i = n
    <3>1. T(i) = P(k) /\ T(i + 1) = P(0)
      <4>1. i \in n - k + 1 .. n /\ i - (n - k) = k /\ i + 1 = n + 1
        BY <2>0, <2>6, <1>1
      <4>2. T(i) = P(i - (n - k))
        BY <4>1, <1>9
      <4> QED
        BY <4>1, <4>2, <1>2, <1>5
    <3>2. k > 0
      BY <2>0, <2>6, <1>1
    <3>3. P(k) = px /\ P(k) \in N /\ P(0) \in N
      BY <3>2, <1>1
    <3> QED
      BY <3>1, <3>3, <1>3
  <2> QED
    BY <2>0, <2>1, <2>2, <2>3, <2>4, <2>5, <2>6, <1>1
<1>12. Circle(r, l, t)
  BY <1>11, <1>2 DEF Circle, T
<1> DEFINE f(c) == IF c = 0 THEN 0 ELSE IF c <= n - k THEN k + c ELSE c - (n - k)
           g(c) == IF c = 0 THEN 0 ELSE IF c <= k THEN c + (n - k) ELSE c - k
<1>7. \A i \in 0 .. n : T(i) = P(f(i))
  <2> TAKE i \in 0 .. n
  <2>0. i \in Int /\ 0 <= i /\ i <= n
    BY <1>1
  <2>1. CASE i = 0
    BY <2>1, <1>2, <1>1
  <2>2. CASE i > 0 /\ i <= n - k
    <3>1. i \in 1 .. n - k /\ f(i) = k + i
      BY <2>0, <2>2, <1>1
    <3> HIDE DEF f
    <3> QED
      BY <3>1, <1>9
  <2>3. CASE i > n - k
    <3>1. i \in n - k + 1 .. n /\ f(i) = i - (n - k)
      BY <2>0, <2>3, <1>1
    <3> HIDE DEF f
    <3> QED
      BY <3>1, <1>9
  <2> QED
    BY <2>0, <2>1, <2>2, <2>3, <1>1
<1>8. /\ \A i \in 0 .. n : f(i) \in 0 .. n /\ g(i) \in 0 .. n
      /\ \A i \in 0 .. n : f(g(i)) = i /\ g(f(i)) = i
  BY <1>1
<1> HIDE DEF f, g
<1>13. \A i, j \in 0 .. n : T(i) = T(j) => i = j
  <2> SUFFICES ASSUME NEW i \in 0 .. n, NEW j \in 0 .. n, T(i) = T(j) PROVE i = j
    OBVIOUS
  <2>1. P(f(i)) = P(f(j))
    BY <1>7
  <2>2. f(i) \in 0 .. n /\ f(j) \in 0 .. n /\ g(f(i)) = i /\ g(f(j)) = j
    BY <1>8
  <2>3. \A a, b \in 0 .. n : P(a) = P(b) => a = b
    BY <1>1
  <2> HIDE DEF P, n
  <2>4. f(i) = f(j)
    BY <2>1, <2>2, <2>3
  <2> QED
    BY <2>2, <2>4
<1>14. Ring(N, l, t)
  BY <1>1, <1>2, <1>13 DEF Ring, T
<1>18. Nodes(l, t) = Nodes(l, s)
  <2>1. Nodes(l, t) = {T(i) : i \in 0 .. n} /\ Nodes(l, s) = {P(i) : i \in 0 .. n}
    BY <1>2 DEF Nodes, T, P, n
  <2>2. \A i \in 0 .. n : P(i) = T(g(i))
    BY <1>7, <1>8
  <2> QED
    BY <2>1, <2>2, <1>7, <1>8
<1>19. Same(m, r, N, Nodes(l, s))
  <2>1. /\ P(k) \in Nodes(l, s) /\ P(k + 1) \in Nodes(l, s) /\ P(1) \in Nodes(l, s)
        /\ P(0) \in Nodes(l, s) /\ P(n) \in Nodes(l, s)
    BY <1>1
  <2> QED
    BY <2>1, <1>3 DEF Same
<1> QED
  BY <1>3, <1>12, <1>14, <1>18, <1>19 DEF r, x

(* r is m with the entries up to place k of l linked into the circle of z. *)
CutLinked(m, r, N, l, s, z, k) ==
  \A y \in N :
    /\ r.next[y] = IF y = l THEN At(l, s, k + 1) ELSE IF y = At(l, s, k) THEN z
                   ELSE IF y = z THEN At(l, s, 1) ELSE m.next[y]
    /\ r.prev[y] = IF y = At(l, s, k + 1) THEN l ELSE IF y = z THEN At(l, s, k)
                   ELSE IF y = At(l, s, 1) THEN z ELSE m.prev[y]

(* u is the first k entries of s, v the others.                            *)
Parted(s, k, u, v) ==
  /\ Len(u) = k /\ \A i \in 1 .. k : u[i] = s[i]
  /\ Len(v) = Len(s) - k /\ \A i \in 1 .. Len(s) - k : v[i] = s[k + i]

(* Cutting leaves two circles, the front with the other head and the rest  *)
(* with its own.                                                           *)
LEMMA CutCircle ==
  ASSUME NEW N, NEW m \in Mem(N), NEW l, NEW s, Ring(N, l, s), Circle(m, l, s),
         NEW z \in N \ Nodes(l, s), NEW k \in 1 .. Len(s),
         NEW u \in Seq(N), NEW v \in Seq(N), Parted(s, k, u, v),
         NEW r \in Mem(N), CutLinked(m, r, N, l, s, z, k)
  PROVE  /\ Ring(N, z, u) /\ Circle(r, z, u) /\ Nodes(z, u) \subseteq Nodes(l, s) \cup {z}
         /\ Ring(N, l, v) /\ Circle(r, l, v) /\ Nodes(l, v) \subseteq Nodes(l, s)
         /\ Nodes(z, u) \cap Nodes(l, v) = {}
         /\ Same(m, r, N, Nodes(l, s) \cup {z})
<1> DEFINE n == Len(s)
           P(i) == At(l, s, i)
           U(i) == At(z, u, i)
           V(i) == At(l, v, i)
<1>1. /\ s \in Seq(N) /\ l \in N /\ n \in Nat /\ k \in Int /\ 1 <= k /\ k <= n
      /\ \A i, j \in 0 .. n : P(i) = P(j) => i = j
      /\ \A i, j \in 1 .. n + 1 : P(i) = P(j) => i = j
      /\ \A i \in 0 .. n + 1 : P(i) \in N /\ P(i) \in Nodes(l, s) /\ P(i) # z
      /\ \A i \in 1 .. n : P(i) = s[i]
      /\ P(0) = l /\ P(n + 1) = l
  <2>1. /\ s \in Seq(N) /\ l \in N /\ n \in Nat
        /\ \A i, j \in 0 .. n : P(i) = P(j) => i = j
        /\ \A i, j \in 1 .. n + 1 : P(i) = P(j) => i = j
        /\ \A i \in 0 .. n + 1 : P(i) \in N /\ P(i) \in Nodes(l, s)
        /\ \A i \in 1 .. n : P(i) = s[i]
        /\ P(0) = l /\ P(n + 1) = l
    BY RingFacts
  <2>2. k \in Int /\ 1 <= k /\ k <= n
    BY <2>1
  <2> HIDE DEF P, n
  <2> QED
    BY <2>1, <2>2
<1>2. /\ \A i \in 0 .. n : m.next[P(i)] = P(i + 1) /\ m.prev[P(i + 1)] = P(i)
  BY DEF Circle
<1>3. /\ Len(u) = k /\ U(0) = z /\ U(k + 1) = z /\ \A i \in 1 .. k : U(i) = P(i)
      /\ Len(v) = n - k /\ V(0) = l /\ V(n - k + 1) = l /\ \A i \in 1 .. n - k : V(i) = P(k + i)
  <2>5. Len(u) = k /\ Len(v) = n - k
    BY DEF Parted
  <2>1. /\ U(0) = z /\ U(k + 1) = z /\ \A i \in 1 .. k : U(i) = u[i]
    BY <2>5, <1>1 DEF At
  <2>2. /\ V(0) = l /\ V(n - k + 1) = l /\ \A i \in 1 .. n - k : V(i) = v[i]
    BY <2>5, <1>1 DEF At
  <2>3. \A i \in 1 .. k : u[i] = P(i)
    <3> TAKE i \in 1 .. k
    <3> HIDE DEF P
    <3>1. i \in 1 .. n /\ u[i] = s[i]
      BY <1>1 DEF Parted
    <3> QED
      BY <3>1, <1>1
  <2>4. \A i \in 1 .. n - k : v[i] = P(k + i)
    <3> TAKE i \in 1 .. n - k
    <3> HIDE DEF P
    <3>1. k + i \in 1 .. n /\ v[i] = s[k + i]
      BY <1>1 DEF Parted
    <3> QED
      BY <3>1, <1>1
  <2> HIDE DEF P, U, V
  <2> QED
    BY <2>1, <2>2, <2>3, <2>4, <2>5
<1>4. \A y \in N :
           /\ r.next[y] = IF y = P(0) THEN P(k + 1) ELSE IF y = P(k) THEN z
                          ELSE IF y = z THEN P(1) ELSE m.next[y]
           /\ r.prev[y] = IF y = P(k + 1) THEN P(0) ELSE IF y = z THEN P(k)
                          ELSE IF y = P(1) THEN z ELSE m.prev[y]
  BY <1>1 DEF CutLinked
<1> HIDE DEF n, P, U, V
<1>5. /\ P(0) \in N /\ P(1) \in N /\ P(k) \in N /\ P(k + 1) \in N /\ P(n) \in N /\ z \in N
      /\ P(0) # z /\ P(1) # z /\ P(k) # z /\ P(k + 1) # z /\ P(k) # P(0) /\ P(1) # P(k + 1)
  <2>1. 0 \in 0 .. n + 1 /\ 1 \in 0 .. n + 1 /\ k \in 0 .. n + 1 /\ k + 1 \in 0 .. n + 1
          /\ n \in 0 .. n + 1
        /\ 0 \in 0 .. n /\ k \in 0 .. n /\ k # 0 /\ 1 \in 1 .. n + 1 /\ k + 1 \in 1 .. n + 1
             /\ 1 # k + 1
    BY <1>1
  <2> QED
    BY <2>1, <1>1
<1>6. ASSUME NEW i \in 1 .. n, i # k
      PROVE  r.next[P(i)] = P(i + 1) /\ r.prev[P(i + 1)] = P(i)
  <2>1. i \in 0 .. n /\ 0 \in 0 .. n /\ k \in 0 .. n /\ i + 1 \in 1 .. n + 1
          /\ k + 1 \in 1 .. n + 1 /\ 1 \in 1 .. n + 1
        /\ i # 0 /\ i + 1 # 1 /\ i + 1 # k + 1 /\ i \in 0 .. n + 1 /\ i + 1 \in 0 .. n + 1
    BY <1>1, <1>6
  <2>2. P(i) # P(0) /\ P(i) # P(k) /\ P(i) # z /\ P(i) \in N /\ m.next[P(i)] = P(i + 1)
    BY <2>1, <1>1, <1>2, <1>6
  <2>3. P(i + 1) # P(k + 1) /\ P(i + 1) # z /\ P(i + 1) # P(1) /\ P(i + 1) \in N
          /\ m.prev[P(i + 1)] = P(i)
    BY <2>1, <1>1, <1>2, <1>6
  <2> QED
    BY <2>2, <2>3, <1>4
<1>7. ASSUME NEW i \in 0 .. k
      PROVE  r.next[U(i)] = U(i + 1) /\ r.prev[U(i + 1)] = U(i)
  <2>1. CASE i = 0
    <3>1. U(i) = z /\ U(i + 1) = P(1)
      <4>1. 1 \in 1 .. k /\ i + 1 = 1
        BY <2>1, <1>1
      <4> QED
        BY <4>1, <2>1, <1>3
    <3> QED
      BY <3>1, <1>4, <1>5
  <2>2. CASE i = k
    <3>1. U(i) = P(k) /\ U(i + 1) = z
      BY <2>2, <1>1, <1>3
    <3> QED
      BY <3>1, <1>4, <1>5
  <2>3. CASE i # 0 /\ i # k
    <3>1. i \in 1 .. k /\ i + 1 \in 1 .. k /\ i \in 1 .. n
      BY <2>3, <1>1
    <3> QED
      BY <3>1, <2>3, <1>3, <1>6
  <2> QED
    BY <2>1, <2>2, <2>3
<1>8. ASSUME NEW i \in 0 .. n - k
      PROVE  r.next[V(i)] = V(i + 1) /\ r.prev[V(i + 1)] = V(i)
  <2>0. i \in Int /\ 0 <= i /\ i <= n - k
    BY <1>1
  <2>1. CASE i = 0
    <3>1. V(i) = P(0) /\ V(i + 1) = P(k + 1)
      <4>1. CASE n = k
        <5>1. i + 1 = n - k + 1 /\ n + 1 = k + 1
          BY <4>1, <2>1, <1>1
        <5> QED
          BY <5>1, <2>1, <1>1, <1>3
      <4>2. CASE n # k
        <5>1. 1 \in 1 .. n - k /\ i + 1 = 1
          BY <4>2, <2>1, <1>1
        <5> QED
          BY <5>1, <2>1, <1>1, <1>3
      <4> QED
        BY <4>1, <4>2
    <3> QED
      BY <3>1, <1>4, <1>5
  <2>2. CASE i > 0
    <3> DEFINE j == k + i
    <3>1. j \in 1 .. n /\ j # k /\ i \in 1 .. n - k
      BY <2>0, <2>2, <1>1
    <3>2. V(i) = P(j)
      BY <3>1, <1>3
    <3>3. V(i + 1) = P(j + 1)
      <4>1. CASE i = n - k
        <5>1. j + 1 = n + 1
          BY <4>1, <1>1
        <5> HIDE DEF j
        <5> QED
          BY <4>1, <5>1, <1>1, <1>3
      <4>2. CASE i # n - k
        <5>3. i + 1 \in 1 .. n - k
          BY <4>2, <2>0, <2>2, <1>1
        <5>4. k + (i + 1) = j + 1
          BY <2>0, <1>1
        <5>1. i + 1 \in 1 .. n - k /\ k + (i + 1) = j + 1
          BY <5>3, <5>4
        <5>2. V(i + 1) = P(k + (i + 1))
          BY <5>1, <1>3
        <5> HIDE DEF j
        <5> QED
          BY <5>1, <5>2
      <4> QED
        BY <4>1, <4>2
    <3> HIDE DEF j
    <3> QED
      BY <3>1, <3>2, <3>3, <1>6
  <2> QED
    BY <2>0, <2>1, <2>2
<1>9. Circle(r, z, u) /\ Circle(r, l, v)
  BY <1>3, <1>7, <1>8 DEF Circle, U, V
<1>10. \A i \in 0 .. k : U(i) = IF i = 0 THEN z ELSE P(i)
  BY <1>1, <1>3
<1>11. \A i \in 0 .. n - k : V(i) = IF i = 0 THEN P(0) ELSE P(k + i)
  BY <1>1, <1>3
<1>12. \A i, j \in 0 .. k : U(i) = U(j) => i = j
  <2> SUFFICES ASSUME NEW i \in 0 .. k, NEW j \in 0 .. k, U(i) = U(j) PROVE i = j
    OBVIOUS
  <2>1. i \in 0 .. n /\ j \in 0 .. n /\ i \in 0 .. n + 1 /\ j \in 0 .. n + 1
    BY <1>1
  <2> QED
    BY <2>1, <1>1, <1>10
<1>13. \A i, j \in 0 .. n - k : V(i) = V(j) => i = j
  <2> SUFFICES ASSUME NEW i \in 0 .. n - k, NEW j \in 0 .. n - k, V(i) = V(j) PROVE i = j
    OBVIOUS
  <2> DEFINE f == IF i = 0 THEN 0 ELSE k + i
             g == IF j = 0 THEN 0 ELSE k + j
  <2>1. f \in 0 .. n /\ g \in 0 .. n /\ (f = g => i = j)
    BY <1>1
  <2>2. V(i) = P(f) /\ V(j) = P(g)
    BY <1>11
  <2> HIDE DEF f, g
  <2>3. P(f) = P(g)
    BY <2>2
  <2>4. f = g
    BY <2>1, <2>3, <1>1
  <2> QED
    BY <2>1, <2>4
<1>14. Ring(N, z, u) /\ Ring(N, l, v)
  BY <1>1, <1>3, <1>5, <1>12, <1>13 DEF Ring, U, V
<1>15. Nodes(z, u) = {U(i) : i \in 0 .. k} /\ Nodes(l, v) = {V(i) : i \in 0 .. n - k}
  BY <1>3 DEF Nodes, U, V
<1>16. Nodes(z, u) \subseteq Nodes(l, s) \cup {z}
  <2>1. \A i \in 0 .. k : i \in 0 .. n + 1
    BY <1>1
  <2> QED
    BY <2>1, <1>1, <1>10, <1>15
<1>17. Nodes(l, v) \subseteq Nodes(l, s)
  <2>1. \A i \in 0 .. n - k : k + i \in 0 .. n + 1 /\ 0 \in 0 .. n + 1
    BY <1>1
  <2> SUFFICES ASSUME NEW i \in 0 .. n - k PROVE V(i) \in Nodes(l, s)
    BY <1>15
  <2>2. CASE i = 0
    BY <2>1, <2>2, <1>1, <1>11
  <2>3. CASE i # 0
    BY <2>1, <2>3, <1>1, <1>11
  <2> QED
    BY <2>2, <2>3
<1>18. Nodes(z, u) \cap Nodes(l, v) = {}
  <2> SUFFICES ASSUME NEW i \in 0 .. k, NEW j \in 0 .. n - k, U(i) = V(j) PROVE FALSE
    BY <1>15
  <2> DEFINE g == IF j = 0 THEN 0 ELSE k + j
  <2>1. V(j) = P(g)
    BY <1>11
  <2>2. g \in 0 .. n /\ g \in 0 .. n + 1 /\ i \in 0 .. n /\ (i # 0 => i # g)
    BY <1>1
  <2> HIDE DEF g
  <2> QED
    BY <2>1, <2>2, <1>1, <1>10
<1>19. Same(m, r, N, Nodes(l, s) \cup {z})
  <2>1. P(0) \in Nodes(l, s) /\ P(1) \in Nodes(l, s) /\ P(k) \in Nodes(l, s)
          /\ P(k + 1) \in Nodes(l, s)
    <3>1. 0 \in 0 .. n + 1 /\ 1 \in 0 .. n + 1 /\ k \in 0 .. n + 1 /\ k + 1 \in 0 .. n + 1
      BY <1>1
    <3> QED
      BY <3>1, <1>1
  <2> QED
    BY <2>1, <1>4 DEF Same
<1> QED
  BY <1>9, <1>14, <1>16, <1>17, <1>18, <1>19

(* t is s with the entries of u after place k.                             *)
Spliced(s, k, u, t) ==
  /\ Len(t) = Len(s) + Len(u)
  /\ \A i \in 1 .. Len(s) + Len(u) :
       t[i] = IF i <= k THEN s[i] ELSE IF i <= k + Len(u) THEN u[i - k] ELSE s[i - Len(u)]

(* The entries of z, at least one, are spliced in after place k of l.      *)
Splicing(N, m, l, s, z, u, k, t, r) ==
  /\ m \in Mem(N) /\ Ring(N, l, s) /\ Circle(m, l, s) /\ Ring(N, z, u) /\ Circle(m, z, u)
  /\ Len(u) # 0 /\ Nodes(l, s) \cap Nodes(z, u) = {} /\ k \in 0 .. Len(s)
  /\ t \in Seq(N) /\ Spliced(s, k, u, t)
  /\ r = INIT_LIST_HEAD(__list_splice(m, z, At(l, s, k), At(l, s, k + 1)), z)

(* t in memory r is the list of l with the entries of z, which has none.   *)
Joined(N, m, l, s, z, u, t, r) ==
  /\ r \in Mem(N) /\ Ring(N, l, t) /\ Circle(r, l, t)
  /\ Nodes(l, t) = Nodes(l, s) \cup (Nodes(z, u) \ {z})
  /\ Same(m, r, N, Nodes(l, s) \cup Nodes(z, u))
  /\ r.next[z] = z /\ r.prev[z] = z

(* __list_splice joins the list into the other one, behind any place.      *)
LEMMA SpliceCircle ==
  ASSUME NEW N, NEW m, NEW l, NEW s, NEW z, NEW u, NEW k, NEW t, NEW d,
         Splicing(N, m, l, s, z, u, k, t, d)
  PROVE  Joined(N, m, l, s, z, u, t, d)
<1> SUFFICES ASSUME m \in Mem(N), Ring(N, l, s), Circle(m, l, s), Ring(N, z, u), Circle(m, z, u),
                    Len(u) # 0, Nodes(l, s) \cap Nodes(z, u) = {}, k \in 0 .. Len(s),
                    t \in Seq(N), Spliced(s, k, u, t)
             PROVE  LET r == INIT_LIST_HEAD(__list_splice(m, z, At(l, s, k), At(l, s, k + 1)), z)
                    IN  /\ r \in Mem(N) /\ Ring(N, l, t) /\ Circle(r, l, t)
                        /\ Nodes(l, t) = Nodes(l, s) \cup (Nodes(z, u) \ {z})
                        /\ Same(m, r, N, Nodes(l, s) \cup Nodes(z, u))
                        /\ r.next[z] = z /\ r.prev[z] = z
  BY DEF Splicing, Joined
<1> DEFINE n == Len(s)
           c == Len(u)
           P(i) == At(l, s, i)
           U(i) == At(z, u, i)
           T(i) == At(l, t, i)
           r == INIT_LIST_HEAD(__list_splice(m, z, P(k), P(k + 1)), z)
<1>1. /\ s \in Seq(N) /\ l \in N /\ n \in Nat
      /\ \A i, j \in 0 .. n : P(i) = P(j) => i = j
      /\ \A i, j \in 1 .. n + 1 : P(i) = P(j) => i = j
      /\ \A i \in 0 .. n + 1 : P(i) \in N /\ P(i) \in Nodes(l, s)
      /\ \A i \in 1 .. n : P(i) = s[i]
      /\ P(0) = l /\ P(n + 1) = l
  BY RingFacts
<1>2. /\ u \in Seq(N) /\ z \in N /\ c \in Nat
      /\ \A i \in 0 .. c + 1 : U(i) \in N /\ U(i) \in Nodes(z, u)
      /\ \A i, j \in 0 .. c : U(i) = U(j) => i = j
      /\ \A i, j \in 1 .. c + 1 : U(i) = U(j) => i = j
      /\ \A i \in 1 .. c : U(i) = u[i]
      /\ U(0) = z /\ U(c + 1) = z
  BY RingFacts
<1>3. /\ Len(t) = n + c /\ T(0) = l /\ T(n + c + 1) = l
      /\ \A i \in 1 .. n + c : T(i) = IF i <= k THEN s[i] ELSE IF i <= k + c THEN u[i - k]
                                 ELSE s[i - c]
  <2>2. Len(t) = n + c /\ \A i \in 1 .. n + c : t[i] = IF i <= k THEN s[i]
          ELSE IF i <= k + c THEN u[i - k] ELSE s[i - c]
    BY DEF Spliced
  <2>1. T(0) = l /\ T(n + c + 1) = l /\ \A i \in 1 .. n + c : T(i) = t[i]
    BY <2>2, <1>1, <1>2 DEF At
  <2> HIDE DEF T, n, c
  <2> QED
    BY <2>1, <2>2
<1>4. /\ \A i \in 0 .. n : m.next[P(i)] = P(i + 1) /\ m.prev[P(i + 1)] = P(i)
      /\ \A i \in 0 .. c : m.next[U(i)] = U(i + 1) /\ m.prev[U(i + 1)] = U(i)
  BY DEF Circle
<1>0. c # 0 /\ k \in 0 .. n
  OBVIOUS
<1> HIDE DEF n, c, P, U, T
<1>5. k \in Int /\ 0 <= k /\ k <= n /\ c \in Int /\ c >= 1
  BY <1>0, <1>1, <1>2
<1>6. \A i \in 0 .. n + 1, j \in 0 .. c + 1 : P(i) # U(j)
  BY <1>1, <1>2
<1>9. /\ \A i \in 0 .. k : T(i) = P(i)
      /\ \A i \in 1 .. c : T(k + i) = U(i)
      /\ \A i \in k + 1 .. n + 1 : T(i + c) = P(i)
  <2>1. ASSUME NEW i \in 0 .. k PROVE T(i) = P(i)
    <3>1. CASE i = 0
      BY <3>1, <1>1, <1>3
    <3>2. CASE i # 0
      <4>1. i \in 1 .. n + c /\ i <= k /\ i \in 1 .. n
        BY <3>2, <1>1, <1>5
      <4> QED
        BY <4>1, <1>1, <1>3
    <3> QED
      BY <3>1, <3>2
  <2>2. ASSUME NEW i \in 1 .. c PROVE T(k + i) = U(i)
    <3> DEFINE j == k + i
    <3>1. j \in 1 .. n + c /\ ~ (j <= k) /\ j <= k + c /\ j - k = i
      BY <1>1, <1>5
    <3> HIDE DEF j
    <3>2. T(j) = U(i)
      BY <3>1, <1>2, <1>3
    <3> QED
      BY <3>2 DEF j
  <2>3. ASSUME NEW i \in k + 1 .. n + 1 PROVE T(i + c) = P(i)
    <3>1. CASE i = n + 1
      <4>1. i + c = n + c + 1
        BY <3>1, <1>1, <1>5
      <4> QED
        BY <3>1, <4>1, <1>1, <1>3
    <3>2. CASE i # n + 1
      <4> DEFINE j == i + c
      <4>1. j \in 1 .. n + c /\ ~ (j <= k) /\ ~ (j <= k + c) /\ j - c = i /\ i \in 1 .. n
        BY <3>2, <1>1, <1>5
      <4> HIDE DEF j
      <4>2. T(j) = P(i)
        BY <4>1, <1>1, <1>3
      <4> QED
        BY <4>2 DEF j
    <3> QED
      BY <3>1, <3>2
  <2> QED
    BY <2>1, <2>2, <2>3
<1>7. /\ P(k) \in N /\ P(k + 1) \in N /\ U(1) \in N /\ U(c) \in N /\ U(0) \in N /\ z = U(0)
      /\ P(k) # z /\ P(k + 1) # z /\ U(1) # z /\ U(c) # z /\ U(c) # P(k) /\ U(1) # P(k + 1)
      /\ m.next[z] = U(1) /\ m.prev[z] = U(c)
  <2>1. /\ k \in 0 .. n + 1 /\ k + 1 \in 0 .. n + 1 /\ 0 \in 0 .. c /\ 1 \in 0 .. c /\ c \in 0 .. c
        /\ 0 \in 0 .. c + 1 /\ 1 \in 0 .. c + 1 /\ c \in 0 .. c + 1 /\ 1 # 0 /\ c # 0 /\ 0 + 1 = 1
    BY <1>1, <1>5
  <2>2. m.next[U(0)] = U(0 + 1) /\ m.prev[U(c + 1)] = U(c)
    BY <2>1, <1>4
  <2>3. U(1) # U(0) /\ U(c) # U(0)
    BY <2>1, <1>2
  <2> QED
    BY <2>1, <2>2, <2>3, <1>1, <1>2, <1>6
<1>8. /\ r \in Mem(N)
      /\ \A y \in N : /\ r.next[y] = IF y = z THEN z ELSE IF y = U(c) THEN P(k + 1)
                                     ELSE IF y = P(k) THEN U(1) ELSE m.next[y]
                      /\ r.prev[y] = IF y = z THEN z ELSE IF y = P(k + 1) THEN U(c)
                                     ELSE IF y = U(1) THEN P(k) ELSE m.prev[y]
  <2> DEFINE f == __list_splice(m, z, P(k), P(k + 1))
  <2>1. /\ f \in Mem(N)
        /\ \A y \in N :
             /\ f.next[y] = IF y = U(c) THEN P(k + 1) ELSE IF y = P(k) THEN U(1) ELSE m.next[y]
             /\ f.prev[y] = IF y = P(k + 1) THEN U(c) ELSE IF y = U(1) THEN P(k) ELSE m.prev[y]
    <3>1. /\ P(k) \in N /\ P(k + 1) \in N /\ z \in N /\ m.next[z] \in N /\ m.prev[z] \in N
      BY <1>7
    <3>2. LET e == __list_splice(m, z, P(k), P(k + 1)) IN
          /\ e \in Mem(N)
          /\ \A y \in N :
             /\ e.next[y] = IF y = m.prev[z] THEN P(k + 1) ELSE IF y = P(k) THEN m.next[z]
                  ELSE m.next[y]
             /\ e.prev[y] = IF y = P(k + 1) THEN m.prev[z] ELSE IF y = m.next[z] THEN P(k)
                  ELSE m.prev[y]
      BY <3>1, SpliceLinks
    <3> QED
      BY <3>2, <1>7
  <2> HIDE DEF f
  <2>2. LET e == INIT_LIST_HEAD(f, z) IN
        /\ e \in Mem(N)
        /\ \A y \in N : /\ e.next[y] = IF y = z THEN z ELSE f.next[y]
                        /\ e.prev[y] = IF y = z THEN z ELSE f.prev[y]
    BY <2>1, <1>2, SelfLink
  <2>3. r = INIT_LIST_HEAD(f, z)
    BY DEF f
  <2> HIDE DEF r
  <2> QED
    BY <2>1, <2>2, <2>3
<1> HIDE DEF r
<1>10. ASSUME NEW i \in 0 .. n, i # k
       PROVE  r.next[P(i)] = P(i + 1) /\ r.prev[P(i + 1)] = P(i)
  <2>1. /\ i \in 0 .. n + 1 /\ i + 1 \in 0 .. n + 1 /\ k \in 0 .. n /\ i + 1 \in 1 .. n + 1
        /\ k + 1 \in 1 .. n + 1 /\ i + 1 # k + 1 /\ 0 \in 0 .. c + 1 /\ 1 \in 0 .. c + 1
             /\ c \in 0 .. c + 1
    BY <1>1, <1>5, <1>10
  <2>2. P(i) # z /\ P(i) # U(c) /\ P(i) # P(k) /\ P(i) \in N /\ m.next[P(i)] = P(i + 1)
    BY <2>1, <1>1, <1>4, <1>6, <1>7, <1>10
  <2>3. P(i + 1) # z /\ P(i + 1) # U(1) /\ P(i + 1) # P(k + 1) /\ P(i + 1) \in N
          /\ m.prev[P(i + 1)] = P(i)
    BY <2>1, <1>1, <1>4, <1>6, <1>7
  <2> QED
    BY <2>2, <2>3, <1>8
<1>11. ASSUME NEW i \in 1 .. c - 1
       PROVE  r.next[U(i)] = U(i + 1) /\ r.prev[U(i + 1)] = U(i)
  <2>1. /\ i \in 0 .. c /\ i \in 0 .. c + 1 /\ i + 1 \in 0 .. c /\ i + 1 \in 0 .. c + 1
             /\ c \in 0 .. c /\ 1 \in 0 .. c /\ 0 \in 0 .. c
        /\ i # 0 /\ i # c /\ i + 1 # 0 /\ i + 1 # 1 /\ k \in 0 .. n + 1 /\ k + 1 \in 0 .. n + 1
    BY <1>1, <1>5
  <2>2. U(i) # U(0) /\ U(i) # U(c) /\ U(i) # P(k) /\ U(i) \in N /\ m.next[U(i)] = U(i + 1)
    BY <2>1, <1>2, <1>4, <1>6
  <2>3. U(i + 1) # U(0) /\ U(i + 1) # U(1) /\ U(i + 1) # P(k + 1) /\ U(i + 1) \in N
          /\ m.prev[U(i + 1)] = U(i)
    BY <2>1, <1>2, <1>4, <1>6
  <2> QED
    BY <2>2, <2>3, <1>7, <1>8
<1>12. ASSUME NEW i \in 0 .. n + c
       PROVE  r.next[T(i)] = T(i + 1) /\ r.prev[T(i + 1)] = T(i)
  <2>0. i \in Int /\ 0 <= i /\ i <= n + c
    BY <1>1, <1>5
  <2>1. CASE i < k
    <3>1. i \in 0 .. k /\ i + 1 \in 0 .. k /\ i \in 0 .. n /\ i # k
      BY <2>0, <2>1, <1>1, <1>5
    <3> QED
      BY <3>1, <1>9, <1>10
  <2>2. CASE i = k
    <3>1. T(i) = P(k) /\ T(i + 1) = U(1)
      <4>1. k \in 0 .. k /\ 1 \in 1 .. c
        BY <1>5
      <4> QED
        BY <2>2, <4>1, <1>9
    <3> QED
      BY <3>1, <1>7, <1>8
  <2>3. CASE i > k /\ i < k + c
    <3> DEFINE j == i - k
    <3>1. j \in 1 .. c /\ j + 1 \in 1 .. c /\ k + j = i /\ k + (j + 1) = i + 1 /\ j \in 1 .. c - 1
      BY <2>0, <2>3, <1>1, <1>5
    <3> HIDE DEF j
    <3>2. T(k + j) = U(j) /\ T(k + (j + 1)) = U(j + 1)
      BY <3>1, <1>9
    <3> QED
      BY <3>1, <3>2, <1>11
  <2>4. CASE i = k + c
    <3>1. T(i) = U(c) /\ T(i + 1) = P(k + 1)
      <4>1. c \in 1 .. c /\ k + 1 \in k + 1 .. n + 1 /\ k + 1 + c = i + 1
        BY <2>4, <1>1, <1>5
      <4>2. T(k + c) = U(c) /\ T(k + 1 + c) = P(k + 1)
        BY <4>1, <1>9
      <4> QED
        BY <2>4, <4>1, <4>2
    <3> QED
      BY <3>1, <1>7, <1>8
  <2>5. CASE i > k + c
    <3> DEFINE j == i - c
    <3>1. j \in k + 1 .. n + 1 /\ j + 1 \in k + 1 .. n + 1 /\ j + c = i /\ j + 1 + c = i + 1
            /\ j \in 0 .. n /\ j # k
      BY <2>0, <2>5, <1>1, <1>5
    <3> HIDE DEF j
    <3>2. T(j + c) = P(j) /\ T(j + 1 + c) = P(j + 1)
      BY <3>1, <1>9
    <3> QED
      BY <3>1, <3>2, <1>10
  <2> QED
    BY <2>0, <2>1, <2>2, <2>3, <2>4, <2>5, <1>1, <1>5
<1>13. Circle(r, l, t)
  BY <1>12, <1>3 DEF Circle, T
<1>14. \A i \in 0 .. n + c :
         \/ i <= k /\ T(i) = P(i)
         \/ i > k /\ i <= k + c /\ i - k \in 1 .. c /\ T(i) = U(i - k)
         \/ i > k + c /\ i - c \in k + 1 .. n /\ T(i) = P(i - c)
  <2> TAKE i \in 0 .. n + c
  <2>0. i \in Int /\ 0 <= i /\ i <= n + c
    BY <1>1, <1>5
  <2>1. CASE i <= k
    <3>1. i \in 0 .. k
      BY <2>0, <2>1, <1>5
    <3> QED
      BY <3>1, <2>1, <1>9
  <2>2. CASE i > k /\ i <= k + c
    <3> DEFINE j == i - k
    <3>1. j \in 1 .. c /\ k + j = i
      BY <2>0, <2>2, <1>5
    <3> HIDE DEF j
    <3>2. T(i) = U(j)
      BY <3>1, <1>9
    <3> QED
      BY <3>1, <3>2, <2>2 DEF j
  <2>3. CASE i > k + c
    <3> DEFINE j == i - c
    <3>1. j \in k + 1 .. n /\ j \in k + 1 .. n + 1 /\ j + c = i
      BY <2>0, <2>3, <1>1, <1>5
    <3> HIDE DEF j
    <3>2. T(i) = P(j)
      BY <3>1, <1>9
    <3> QED
      BY <3>1, <3>2, <2>3 DEF j
  <2> QED
    BY <2>0, <2>1, <2>2, <2>3, <1>5
<1>15. \A i, j \in 0 .. n + c : T(i) = T(j) => i = j
  <2> SUFFICES ASSUME NEW i \in 0 .. n + c, NEW j \in 0 .. n + c, T(i) = T(j) PROVE i = j
    OBVIOUS
  <2> DEFINE f(e) == IF e <= k THEN e ELSE e - c
  <2>0. i \in Int /\ j \in Int
    BY <1>1, <1>5
  <2>1. \/ ~ (i > k /\ i <= k + c) /\ f(i) \in 0 .. n /\ T(i) = P(f(i))
        \/ i > k /\ i <= k + c /\ i - k \in 1 .. c /\ T(i) = U(i - k)
    BY <2>0, <1>1, <1>5, <1>14
  <2>2. \/ ~ (j > k /\ j <= k + c) /\ f(j) \in 0 .. n /\ T(j) = P(f(j))
        \/ j > k /\ j <= k + c /\ j - k \in 1 .. c /\ T(j) = U(j - k)
    BY <2>0, <1>1, <1>5, <1>14
  <2>3. /\ ~ (i > k /\ i <= k + c) /\ ~ (j > k /\ j <= k + c) /\ f(i) = f(j) => i = j
        /\ i - k = j - k => i = j
        /\ f(i) \in 0 .. n => f(i) \in 0 .. n + 1
        /\ f(j) \in 0 .. n => f(j) \in 0 .. n + 1
        /\ i - k \in 1 .. c => i - k \in 0 .. c + 1 /\ i - k \in 0 .. c
        /\ j - k \in 1 .. c => j - k \in 0 .. c + 1 /\ j - k \in 0 .. c
    BY <2>0, <1>1, <1>5
  <2> DEFINE fi == f(i)
             fj == f(j)
             gi == i - k
             gj == j - k
             A == i > k /\ i <= k + c
             B == j > k /\ j <= k + c
  <2>4. \/ ~ A /\ fi \in 0 .. n /\ T(i) = P(fi)
        \/ A /\ gi \in 1 .. c /\ T(i) = U(gi)
    BY <2>1
  <2>5. \/ ~ B /\ fj \in 0 .. n /\ T(j) = P(fj)
        \/ B /\ gj \in 1 .. c /\ T(j) = U(gj)
    BY <2>2
  <2>6. /\ ~ A /\ ~ B /\ fi = fj => i = j
        /\ gi = gj => i = j
        /\ fi \in 0 .. n => fi \in 0 .. n + 1
        /\ fj \in 0 .. n => fj \in 0 .. n + 1
        /\ gi \in 1 .. c => gi \in 0 .. c + 1 /\ gi \in 0 .. c
        /\ gj \in 1 .. c => gj \in 0 .. c + 1 /\ gj \in 0 .. c
    BY <2>3
  <2> HIDE DEF fi, fj, gi, gj, A, B, f
  <2>7. CASE A /\ B
    <3>1. gi = gj
      BY <2>7, <2>4, <2>5, <2>6, <1>2
    <3> QED
      BY <3>1, <2>6
  <2>8. CASE ~ A /\ ~ B
    <3>1. fi = fj
      BY <2>8, <2>4, <2>5, <2>6, <1>1
    <3> QED
      BY <3>1, <2>8, <2>6
  <2>9. CASE A /\ ~ B
    BY <2>9, <2>4, <2>5, <2>6, <1>6
  <2>10. CASE ~ A /\ B
    BY <2>10, <2>4, <2>5, <2>6, <1>6
  <2> QED
    BY <2>7, <2>8, <2>9, <2>10
<1>16. Ring(N, l, t)
  BY <1>1, <1>3, <1>15 DEF Ring, T
<1>18. Nodes(l, t) = Nodes(l, s) \cup (Nodes(z, u) \ {z})
  <2>1. /\ Nodes(l, t) = {T(i) : i \in 0 .. n + c} /\ Nodes(l, s) = {P(i) : i \in 0 .. n}
        /\ Nodes(z, u) = {U(i) : i \in 0 .. c}
    BY <1>3 DEF Nodes, T, P, U, n, c
  <2>2. ASSUME NEW i \in 0 .. n + c PROVE T(i) \in Nodes(l, s) \cup (Nodes(z, u) \ {z})
    <3>1. CASE i <= k
      <4>1. i \in 0 .. n /\ ~ (i > k) /\ ~ (i > k + c)
        BY <3>1, <1>1, <1>5
      <4> QED
        BY <4>1, <2>1, <1>14
    <3>2. CASE i > k /\ i <= k + c
      <4> DEFINE j == i - k
      <4>1. j \in 1 .. c /\ T(i) = U(j)
        BY <3>2, <1>1, <1>5, <1>14
      <4> HIDE DEF j
      <4>2. j \in 0 .. c /\ j # 0 /\ 0 \in 0 .. c
        BY <4>1, <1>5
      <4>3. U(j) # U(0)
        BY <4>2, <1>2
      <4> QED
        BY <4>1, <4>2, <4>3, <2>1, <1>2
    <3>3. CASE i > k + c
      <4> DEFINE j == i - c
      <4>1. j \in 0 .. n /\ T(i) = P(j)
        BY <3>3, <1>1, <1>5, <1>14
      <4> HIDE DEF j
      <4> QED
        BY <4>1, <2>1
    <3> QED
      BY <3>1, <3>2, <3>3, <1>1, <1>5
  <2>3. ASSUME NEW i \in 0 .. n PROVE P(i) \in Nodes(l, t)
    <3>1. CASE i <= k
      <4>1. i \in 0 .. k /\ i \in 0 .. n + c
        BY <3>1, <1>1, <1>5
      <4> QED
        BY <4>1, <2>1, <1>9
    <3>2. CASE i > k
      <4> DEFINE j == i + c
      <4>1. i \in k + 1 .. n + 1 /\ j \in 0 .. n + c
        BY <3>2, <1>1, <1>5
      <4>2. T(j) = P(i)
        BY <4>1, <1>9
      <4> HIDE DEF j
      <4> QED
        BY <4>1, <4>2, <2>1
    <3> QED
      BY <3>1, <3>2, <1>1, <1>5
  <2>4. ASSUME NEW i \in 0 .. c, U(i) # z PROVE U(i) \in Nodes(l, t)
    <3> DEFINE j == k + i
    <3>1. i \in 1 .. c /\ j \in 0 .. n + c
      <4>1. i # 0
        BY <2>4, <1>2
      <4> QED
        BY <4>1, <1>1, <1>5
    <3>2. T(j) = U(i)
      BY <3>1, <1>9
    <3> HIDE DEF j
    <3> QED
      BY <3>1, <3>2, <2>1
  <2> QED
    BY <2>1, <2>2, <2>3, <2>4
<1>19. Same(m, r, N, Nodes(l, s) \cup Nodes(z, u))
  <2>1. P(k) \in Nodes(l, s) /\ P(k + 1) \in Nodes(l, s) /\ U(1) \in Nodes(z, u)
          /\ U(c) \in Nodes(z, u) /\ U(0) \in Nodes(z, u)
    <3>1. k \in 0 .. n + 1 /\ k + 1 \in 0 .. n + 1 /\ 1 \in 0 .. c + 1 /\ c \in 0 .. c + 1
            /\ 0 \in 0 .. c + 1
      BY <1>1, <1>5
    <3> QED
      BY <3>1, <1>1, <1>2
  <2> QED
    BY <2>1, <1>7, <1>8 DEF Same
<1> QED
  BY <1>2, <1>8, <1>13, <1>16, <1>18, <1>19 DEF r, P

-----------------------------------------------------------------------------
(* From the links to the walk *)

(* What the neighbours of the head and of each entry are.                  *)
LEMMA CircleLinks ==
  ASSUME NEW N, NEW mem \in Mem(N), NEW l, NEW s, Ring(N, l, s), Circle(mem, l, s)
  PROVE  /\ mem.next[l] = IF Len(s) = 0 THEN l ELSE s[1]
         /\ mem.prev[l] = IF Len(s) = 0 THEN l ELSE s[Len(s)]
         /\ \A i \in 1 .. Len(s) :
              /\ s[i] \in N /\ s[i] # l
              /\ mem.next[s[i]] = IF i = Len(s) THEN l ELSE s[i + 1]
              /\ mem.prev[s[i]] = IF i = 1 THEN l ELSE s[i - 1]
         /\ \A i, j \in 1 .. Len(s) : s[i] = s[j] => i = j
<1> DEFINE n == Len(s)
<1>1. n \in Nat /\ s \in Seq(N)
  BY DEF Ring
<1>3. \A i \in 0 .. n : mem.next[At(l, s, i)] = At(l, s, i + 1)
                          /\ mem.prev[At(l, s, i + 1)] = At(l, s, i)
  BY <1>1 DEF Circle
<1>4. \A i, j \in 0 .. n : At(l, s, i) = At(l, s, j) => i = j
  BY <1>1 DEF Ring
<1>5. At(l, s, 0) = l /\ At(l, s, n + 1) = l /\ \A i \in 1 .. n : At(l, s, i) = s[i]
  BY <1>1 DEF At
<1> HIDE DEF n
<1>8. \A i \in 1 .. n : s[i] \in N /\ s[i] # l
  <2> TAKE i \in 1 .. n
  <2>1. i \in 0 .. n /\ i # 0 /\ 0 \in 0 .. n /\ At(l, s, i) = s[i]
    BY <1>1, <1>5
  <2>2. s[i] # l
    BY <2>1, <1>4, <1>5
  <2>3. s[i] \in N
    BY <1>1 DEF n
  <2> QED
    BY <2>2, <2>3
<1>9. \A i \in 1 .. n : mem.next[s[i]] = IF i = n THEN l ELSE s[i + 1]
  <2> TAKE i \in 1 .. n
  <2>1. i \in 0 .. n /\ mem.next[At(l, s, i)] = At(l, s, i + 1) /\ At(l, s, i) = s[i]
    BY <1>1, <1>3, <1>5
  <2>2. CASE i = n
    BY <2>1, <2>2, <1>5
  <2>3. CASE i # n
    <3>1. i + 1 \in 1 .. n
      BY <2>3, <1>1
    <3> QED
      BY <2>1, <2>3, <3>1, <1>5
  <2> QED
    BY <2>2, <2>3
<1>10. \A i \in 1 .. n : mem.prev[s[i]] = IF i = 1 THEN l ELSE s[i - 1]
  <2> TAKE i \in 1 .. n
  <2> DEFINE j == i - 1
  <2>1. j \in 0 .. n /\ j + 1 = i
    BY <1>1
  <2>4. i = 1 <=> j = 0
    BY <1>1
  <2> HIDE DEF j
  <2>5. mem.prev[s[i]] = At(l, s, j)
    BY <2>1, <1>3, <1>5
  <2>2. CASE j = 0
    BY <2>2, <2>4, <2>5, <1>5
  <2>3. CASE j # 0
    <3>1. j \in 1 .. n
      BY <2>1, <2>3, <1>1
    <3>2. mem.prev[s[i]] = s[j]
      BY <2>5, <3>1, <1>5
    <3> QED
      BY <2>3, <2>4, <3>2 DEF j
  <2> QED
    BY <2>2, <2>3
<1>11. mem.next[l] = IF n = 0 THEN l ELSE s[1]
  <2>1. mem.next[l] = At(l, s, 0 + 1)
    BY <1>1, <1>3, <1>5
  <2>2. CASE n = 0
    BY <2>1, <2>2, <1>5
  <2>3. CASE n # 0
    <3>1. 1 \in 1 .. n
      BY <2>3, <1>1
    <3> QED
      BY <2>1, <2>3, <3>1, <1>5
  <2> QED
    BY <2>2, <2>3
<1>12. mem.prev[l] = IF n = 0 THEN l ELSE s[n]
  <2>1. n \in 0 .. n
    BY <1>1
  <2>2. mem.prev[l] = At(l, s, n)
    BY <2>1, <1>3, <1>5
  <2>3. CASE n = 0
    BY <2>2, <2>3, <1>5
  <2>4. CASE n # 0
    <3>1. n \in 1 .. n
      BY <2>4, <1>1
    <3> QED
      BY <2>2, <2>4, <3>1, <1>5
  <2> QED
    BY <2>3, <2>4
<1>13. \A i, j \in 1 .. n : s[i] = s[j] => i = j
  <2>1. \A i \in 1 .. n : At(l, s, i) = s[i] /\ i \in 0 .. n
    BY <1>1, <1>5
  <2> QED
    BY <2>1, <1>4
<1> QED
  BY <1>8, <1>9, <1>10, <1>11, <1>12, <1>13 DEF n

(* A list is not longer than there are nodes.                              *)
LEMMA CircleLength ==
  ASSUME NEW N, IsFiniteSet(N), NEW l, NEW s, Ring(N, l, s)
  PROVE  Len(s) <= Cardinality(N)
<1> DEFINE n == Len(s)
           I == 1 .. n
<1>1. n \in Nat /\ s \in Seq(N)
  BY DEF Ring
<1>2. \A i, j \in I : s[i] = s[j] => i = j
  <2>1. \A i, j \in 0 .. n : At(l, s, i) = At(l, s, j) => i = j
    BY DEF Ring
  <2>2. \A i \in I : At(l, s, i) = s[i] /\ i \in 0 .. n
    BY <1>1 DEF At
  <2> HIDE DEF I
  <2> QED
    BY <2>1, <2>2
<1>3. s \in [I -> N]
  BY <1>1
<1>4. s \in Injection(I, N)
  BY <1>2, <1>3 DEF Injection, IsInjective
<1>6. Cardinality(I) <= Cardinality(N)
  <2> HIDE DEF I
  <2> QED
    BY <1>4, FS_Injection
<1>7. Cardinality(I) = n
  <2>1. 1 \in Int /\ n \in Int
    BY <1>1
  <2> HIDE DEF n
  <2>2. Cardinality(1 .. n) = IF 1 > n THEN 0 ELSE n - 1 + 1
    BY <2>1, FS_Interval
  <2> QED
    BY <1>1, <2>2
<1> QED
  BY <1>6, <1>7

(* Reverse, by position.                                                   *)
LEMMA ReverseIndex ==
  ASSUME NEW X, NEW s \in Seq(X)
  PROVE  /\ Reverse(s) \in Seq(X) /\ Len(Reverse(s)) = Len(s)
         /\ \A i \in 1 .. Len(s) : Reverse(s)[i] = s[Len(s) - i + 1]
  BY DEF Reverse

(* list_for_each and list_for_each_prev visit the entries of a circle, in  *)
(* both directions.                                                        *)
LEMMA CircleWalks ==
  ASSUME NEW N, NEW mem \in Mem(N), NEW l, NEW s, Ring(N, l, s), Circle(mem, l, s),
         IsFiniteSet(N)
  PROVE  list_for_each(mem, l) = s /\ list_for_each_prev(mem, l) = Reverse(s)
<1> DEFINE n == Len(s)
           r == Reverse(s)
           up == mem.next
           down == mem.prev
<1>1. n \in Nat /\ s \in Seq(N) /\ n <= Cardinality(N)
  BY CircleLength DEF Ring
<1>2. DOMAIN up = N /\ DOMAIN down = N
  BY DEF Mem
<1>5. /\ mem.next[l] = IF n = 0 THEN l ELSE s[1]
      /\ mem.prev[l] = IF n = 0 THEN l ELSE s[n]
      /\ \A i \in 1 .. n :
           /\ s[i] \in N /\ s[i] # l
           /\ mem.next[s[i]] = IF i = n THEN l ELSE s[i + 1]
           /\ mem.prev[s[i]] = IF i = 1 THEN l ELSE s[i - 1]
  BY CircleLinks
<1>6. r \in Seq(N) /\ Len(r) = n /\ \A i \in 1 .. n : r[i] = s[n - i + 1]
  BY <1>1, ReverseIndex
<1> HIDE DEF n, r
<1>11. Visit(up, up[l], l) = s
  <2>1. up[l] = IF n = 0 THEN l ELSE s[1]
    BY <1>5
  <2>2. \A i \in 1 .. n : s[i] \in DOMAIN up /\ s[i] # l /\ up[s[i]] = IF i = n THEN l ELSE s[i + 1]
    BY <1>2, <1>5
  <2> HIDE DEF up
  <2> DEFINE from == up[l]
  <2>3. from = IF n = 0 THEN l ELSE s[1]
    BY <2>1
  <2> HIDE DEF from
  <2>4. Visit(up, from, l) = s
    <3>1. IsFiniteSet(DOMAIN up) /\ Len(s) <= Cardinality(DOMAIN up) /\ s \in Seq(N) /\ n = Len(s)
      <4>1. IsFiniteSet(DOMAIN up) /\ n <= Cardinality(DOMAIN up)
        BY <1>1, <1>2 DEF up
      <4> QED
        BY <4>1, <1>1 DEF n
    <3>2. from = IF Len(s) = 0 THEN l ELSE s[1]
      BY <2>3, <3>1
    <3>3. \A i \in 1 .. Len(s) : s[i] \in DOMAIN up /\ s[i] # l
                                   /\ up[s[i]] = IF i = Len(s) THEN l ELSE s[i + 1]
      BY <2>2, <3>1
    <3>4. Chain(up, from, l, s)
      BY <3>1, <3>2, <3>3 DEF Chain
    <3>5. Visits(up, from, l, s)
      BY <3>1, <3>4, VisitWalk
    <3> QED
      BY <3>5 DEF Visits
  <2> QED
    BY <2>4 DEF from
<1>12. Visit(down, down[l], l) = r
  <2>1. down[l] = IF n = 0 THEN l ELSE r[1]
    <3>1. n # 0 => 1 \in 1 .. n /\ n - 1 + 1 = n
      BY <1>1
    <3>2. n # 0 => r[1] = s[n]
      BY <3>1, <1>6
    <3> QED
      BY <3>2, <1>5
  <2>2. \A i \in 1 .. n : r[i] \in DOMAIN down /\ r[i] # l
                            /\ down[r[i]] = IF i = n THEN l ELSE r[i + 1]
    <3> TAKE i \in 1 .. n
    <3> DEFINE j == n - i + 1
    <3>1. j \in 1 .. n /\ (j = 1 <=> i = n) /\ r[i] = s[j]
      BY <1>1, <1>6
    <3>2. i # n => i + 1 \in 1 .. n /\ n - (i + 1) + 1 = j - 1
      BY <1>1
    <3> HIDE DEF j
    <3>3. r[i] \in N /\ r[i] # l /\ down[r[i]] = IF j = 1 THEN l ELSE s[j - 1]
      BY <3>1, <1>5
    <3>4. i # n => r[i + 1] = s[j - 1]
      BY <3>2, <1>6
    <3> QED
      BY <3>1, <3>3, <3>4, <1>2
  <2> HIDE DEF down
  <2> DEFINE from == down[l]
  <2>3. from = IF n = 0 THEN l ELSE r[1]
    BY <2>1
  <2> HIDE DEF from
  <2>4. Visit(down, from, l) = r
    <3>1. IsFiniteSet(DOMAIN down) /\ Len(r) <= Cardinality(DOMAIN down) /\ r \in Seq(N)
            /\ n = Len(r)
      BY <1>1, <1>2, <1>6 DEF down
    <3>2. from = IF Len(r) = 0 THEN l ELSE r[1]
      BY <2>3, <3>1
    <3>3. \A i \in 1 .. Len(r) : r[i] \in DOMAIN down /\ r[i] # l
                                   /\ down[r[i]] = IF i = Len(r) THEN l ELSE r[i + 1]
      BY <2>2, <3>1
    <3>4. Chain(down, from, l, r)
      BY <3>1, <3>2, <3>3 DEF Chain
    <3>5. Visits(down, from, l, r)
      BY <3>1, <3>4, VisitWalk
    <3> QED
      BY <3>5 DEF Visits
  <2> QED
    BY <2>4 DEF from
<1> QED
  BY <1>11, <1>12 DEF list_for_each, list_for_each_prev, r, up, down

-----------------------------------------------------------------------------
(* Adding to a sequence and removing from it, as insertion and by position *)

(* Names the set of x, so that a lemma about it can be cited.              *)
Only(x) == {x}

(* Adding at the front is an insertion.                                    *)
LEMMA PrependIndex ==
  ASSUME NEW X, NEW s \in Seq(X), NEW x \in X
  PROVE  <<x>> \o s = InsertAt(s, 1, x)
<1> DEFINE a == <<x>>
           t == a \o s
           n == Len(s)
           v == InsertAt(s, 1, x)
<1>1. a \in Seq(X) /\ Len(a) = 1 /\ a[1] = x
  BY SingleIndex
<1>2. n \in Nat /\ 1 \in 1 .. n + 1
  OBVIOUS
<1>3. v \in Seq(X) /\ Len(v) = n + 1
        /\ \A i \in 1 .. n + 1 : v[i] = IF i < 1 THEN s[i] ELSE IF i = 1 THEN x ELSE s[i - 1]
  <2> DEFINE k == 1
  <2>1. k \in 1 .. Len(s) + 1
    BY <1>2
  <2> HIDE DEF k
  <2>2. InsertAt(s, k, x) \in Seq(X) /\ PutAt(s, k, x, InsertAt(s, k, x))
    BY <2>1, InsertPuts
  <2>3. v \in Seq(X) /\ PutAt(s, 1, x, v)
    BY <2>2 DEF k
  <2> HIDE DEF v
  <2> QED
    BY <2>3 DEF PutAt
<1> HIDE DEF a, v
<1>4. t \in Seq(X) /\ Len(t) = Len(a) + n
        /\ \A i \in 1 .. Len(a) + n : t[i] = IF i <= Len(a) THEN a[i] ELSE s[i - Len(a)]
  BY <1>1, ConcatIndex
<1> HIDE DEF t
<1>5. \A i \in 1 .. n + 1 : t[i] = v[i]
  BY <1>1, <1>2, <1>3, <1>4
<1>6. Len(t) = n + 1
  BY <1>1, <1>2, <1>4
<1>7. t = v
  BY <1>3, <1>4, <1>5, <1>6
<1> QED
  BY <1>7 DEF t, v, a

(* Adding at the end is an insertion.                                      *)
LEMMA AppendIndex ==
  ASSUME NEW X, NEW s \in Seq(X), NEW x \in X
  PROVE  Append(s, x) = InsertAt(s, Len(s) + 1, x)
<1> DEFINE t == Append(s, x)
           n == Len(s)
           k == n + 1
           v == InsertAt(s, k, x)
<1>1. n \in Nat /\ t \in Seq(X) /\ Len(t) = n + 1 /\ \A i \in 1 .. n : t[i] = s[i]
  OBVIOUS
<1>2. t[n + 1] = x
  OBVIOUS
<1>3. k \in 1 .. Len(s) + 1
  BY <1>1
<1> HIDE DEF k, t
<1>4. v \in Seq(X) /\ Len(v) = n + 1
        /\ \A i \in 1 .. n + 1 : v[i] = IF i < k THEN s[i] ELSE IF i = k THEN x ELSE s[i - 1]
  BY <1>3, InsertAtIndex
<1> HIDE DEF v
<1>5. \A i \in 1 .. n + 1 : t[i] = v[i]
  BY <1>1, <1>2, <1>4 DEF k
<1>6. t = v
  BY <1>1, <1>4, <1>5
<1> QED
  BY <1>6 DEF t, v, k

(* RemoveFirst of an entry that occurs once.                               *)
LEMMA RemoveFirstAt ==
  ASSUME NEW X, NEW s \in Seq(X), \A i, j \in 1 .. Len(s) : s[i] = s[j] => i = j,
         NEW k \in 1 .. Len(s)
  PROVE  RemoveFirst(s, s[k]) = RemoveAt(s, k)
<1> DEFINE I == {i \in 1 .. Len(s) : s[i] = s[k]}
           n == SelectInSeq(s, LAMBDA v : v = s[k])
<1>1. k \in I
  OBVIOUS
<1>2. n = Min(I)
  BY <1>1 DEF SelectInSeq
<1>3. \A i \in I : i = k
  OBVIOUS
<1>4. k \in Int
  OBVIOUS
<1>5. n = k
  <2> HIDE DEF I, n
  <2>1. \A j \in I : k <= j
    BY <1>3, <1>4
  <2> QED
    BY <1>1, <1>2, <1>3, <2>1 DEF Min
<1>6. RemoveFirst(s, s[k]) = RemoveAt(s, n)
  BY <1>1 DEF RemoveFirst
<1> QED
  BY <1>5, <1>6

(* RemoveFirst of an entry that does not occur.                            *)
LEMMA RemoveFirstNone ==
  ASSUME NEW s, NEW x, x \notin ToSet(s), DOMAIN s = 1 .. Len(s)
  PROVE  RemoveFirst(s, x) = s
  BY DEF RemoveFirst, ToSet

-----------------------------------------------------------------------------
(* Hash lists: buckets and places *)

(* Buckets and nodes are apart.                                            *)
HSets(B, E) ==
  IsFiniteSet(B) /\ IsFiniteSet(E) /\ B \cap E = {} /\ NULL \notin B /\ NULL \notin E

(* The nodes of the hash lists: heads and entries.  A pprev may point to   *)
(* either.                                                                 *)
HNode(B, E) == B \cup E
HMem(B, E) == [next : [HNode(B, E) -> E \cup {NULL}], pprev : [E -> HNode(B, E) \cup {NULL}]]

(* The places of the bucket h: its head, its nodes, and the null pointer.  *)
HAt(h, s, i) == IF i = 0 THEN h ELSE IF i \in 1 .. Len(s) THEN s[i] ELSE NULL

(* The links of the bucket h with the nodes s.                             *)
Strand(mem, h, s) ==
  /\ \A i \in 0 .. Len(s) : mem.next[HAt(h, s, i)] = HAt(h, s, i + 1)
  /\ \A i \in 1 .. Len(s) : mem.pprev[HAt(h, s, i)] = HAt(h, s, i - 1)

(* Some bucket of S holds x; no node is in two places.                     *)
InSome(L, S, x) == \E h \in S : \E i \in 1 .. Len(L[h]) : L[h][i] = x
Apart(L, S) ==
  \A g, h \in S : \A i \in 1 .. Len(L[g]), j \in 1 .. Len(L[h]) : L[g][i] = L[h][j]
                    => g = h /\ i = j

(* An unhashed node, or one of the fakes F.                                *)
Alone(mem, F, x) == mem.next[x] = NULL /\ mem.pprev[x] = IF x \in F THEN x ELSE NULL

(* What holds of memory, buckets and fakes between two operations.         *)
Strands(B, E, mem, L, F) ==
  /\ mem \in HMem(B, E) /\ L \in [B -> Seq(E)] /\ F \in SUBSET E
  /\ Apart(L, B)
  /\ \A h \in B : Strand(mem, h, L[h])
  /\ \A x \in E : IF InSome(L, B, x) THEN x \notin F ELSE Alone(mem, F, x)


(* The places of the buckets are distinct nodes.                           *)
LEMMA HPlaces ==
  ASSUME NEW B, NEW E, HSets(B, E), NEW mem, NEW L, NEW F, Strands(B, E, mem, L, F),
           NEW h \in B
  PROVE  /\ L[h] \in Seq(E) /\ Len(L[h]) \in Nat
         /\ \A i \in 0 .. Len(L[h]) : HAt(h, L[h], i) \in HNode(B, E) /\ HAt(h, L[h], i) # NULL
         /\ \A i \in 1 .. Len(L[h]) : HAt(h, L[h], i) \in E /\ HAt(h, L[h], i) = L[h][i]
                                        /\ InSome(L, B, L[h][i])
         /\ HAt(h, L[h], 0) = h /\ HAt(h, L[h], Len(L[h]) + 1) = NULL
         /\ \A g \in B : \A i \in 0 .. Len(L[h]), j \in 0 .. Len(L[g]) :
              HAt(h, L[h], i) = HAt(g, L[g], j) => g = h /\ i = j
<1>1. \A g \in B : L[g] \in Seq(E) /\ Len(L[g]) \in Nat
  BY DEF Strands
<1>2. \A g \in B : \A i \in 1 .. Len(L[g]) : HAt(g, L[g], i) \in E
                          /\ HAt(g, L[g], i) = L[g][i]
  <2> TAKE g \in B
  <2> TAKE i \in 1 .. Len(L[g])
  <2>1. i # 0
    BY <1>1
  <2>2. L[g][i] \in E
    BY <1>1
  <2> QED
    BY <2>1, <2>2 DEF HAt
<1>3. \A g \in B : HAt(g, L[g], 0) = g /\ HAt(g, L[g], Len(L[g]) + 1) = NULL
  BY <1>1 DEF HAt
<1>4. \A g \in B : \A i \in 0 .. Len(L[g]) : i = 0 \/ i \in 1 .. Len(L[g])
  BY <1>1
<1>5. B \cap E = {} /\ NULL \notin B /\ NULL \notin E
  BY DEF HSets
<1>6. \A i \in 0 .. Len(L[h]) : HAt(h, L[h], i) \in HNode(B, E) /\ HAt(h, L[h], i) # NULL
  BY <1>2, <1>3, <1>4, <1>5 DEF HNode
<1>7. \A i \in 1 .. Len(L[h]) : InSome(L, B, L[h][i])
  BY DEF InSome
<1>8. ASSUME NEW g \in B, NEW i \in 0 .. Len(L[h]), NEW j \in 0 .. Len(L[g]),
             HAt(h, L[h], i) = HAt(g, L[g], j)
      PROVE  g = h /\ i = j
  <2>1. CASE i = 0
    <3>1. j = 0
      BY <2>1, <1>2, <1>3, <1>4, <1>5, <1>8
    <3> QED
      BY <2>1, <3>1, <1>3, <1>8
  <2>2. CASE i \in 1 .. Len(L[h]) /\ j = 0
    BY <2>2, <1>2, <1>3, <1>5, <1>8
  <2>3. CASE i \in 1 .. Len(L[h]) /\ j \in 1 .. Len(L[g])
    <3>1. L[h][i] = L[g][j]
      BY <2>3, <1>2, <1>8
    <3>2. Apart(L, B)
      BY DEF Strands
    <3> QED
      BY <2>3, <3>1, <3>2 DEF Apart
  <2> QED
    BY <2>1, <2>2, <2>3, <1>4
<1> QED
  BY <1>1, <1>2, <1>3, <1>6, <1>7, <1>8

(* The buckets of S change, and the nodes they gain are of X.              *)
HChanged(B, E, L, M, S) == M \in [B -> Seq(E)] /\ \A h \in B \ S : M[h] = L[h]
HFree(B, E, L, X) == \A x \in X : x \in E /\ ~ InSome(L, B, x)

(* What an operation on the buckets S with the further nodes X makes of    *)
(* these, and what it has to leave alone.                                  *)
HMade(B, E, r, L, M, S, X) ==
  /\ Apart(M, S) /\ \A h \in S : Strand(r, h, M[h])
  /\ \A y \in E : InSome(M, S, y) => InSome(L, S, y) \/ y \in X
HRest(B, E, mem, r, L, S, X, F, G) ==
  /\ \A y \in HNode(B, E) : y \in S \/ InSome(L, S, y) \/ y \in X \/ r.next[y] = mem.next[y]
  /\ \A y \in E : InSome(L, S, y) \/ y \in X
                        \/ (r.pprev[y] = mem.pprev[y] /\ (y \in G <=> y \in F))
HLeft(B, E, r, L, M, S, X, G) ==
  \A y \in E : InSome(L, S, y) \/ y \in X
                     => IF InSome(M, S, y) THEN y \notin G ELSE Alone(r, G, y)

(* What has to be shown when some of the buckets change.                   *)
LEMMA SomeStrands ==
  ASSUME NEW B, NEW E, HSets(B, E), NEW mem, NEW L, NEW F, Strands(B, E, mem, L, F),
         NEW S \in SUBSET B, NEW M, HChanged(B, E, L, M, S), NEW r \in HMem(B, E),
           NEW G \in SUBSET E,
         NEW X, HFree(B, E, L, X), HMade(B, E, r, L, M, S, X), HRest(B, E, mem, r, L, S, X, F, G),
           HLeft(B, E, r, L, M, S, X, G)
  PROVE  Strands(B, E, r, M, G)
<1>1. \A h \in B : M[h] \in Seq(E) /\ L[h] \in Seq(E) /\ Len(M[h]) \in Nat
  BY DEF HChanged, Strands
<1>2. \A h \in B \ S : M[h] = L[h]
  BY DEF HChanged
<1>3. \A h \in B \ S : \A i \in 1 .. Len(L[h]) : L[h][i] \in E /\ L[h][i] \notin X
                              /\ ~ InSome(L, S, L[h][i])
  <2> TAKE h \in B \ S
  <2> TAKE i \in 1 .. Len(L[h])
  <2>1. L[h][i] \in E /\ InSome(L, B, L[h][i])
    BY HPlaces
  <2>2. ~ InSome(L, S, L[h][i])
    <3>1. Apart(L, B)
      BY DEF Strands
    <3> QED
      BY <3>1 DEF Apart, InSome
  <2> QED
    BY <2>1, <2>2 DEF HFree
<1>4. ASSUME NEW h \in B
      PROVE  Strand(r, h, M[h])
  <2>1. CASE h \in S
    BY <2>1 DEF HMade
  <2>2. CASE h \notin S
    <3> DEFINE s == L[h]
               n == Len(s)
    <3>1. M[h] = s /\ Strand(mem, h, s) /\ n \in Nat
      BY <2>2, <1>2, HPlaces DEF Strands
    <3>2. \A i \in 1 .. n : HAt(h, s, i) \in E /\ HAt(h, s, i) \notin X
                              /\ ~ InSome(L, S, HAt(h, s, i))
      BY <2>2, <1>3, HPlaces
    <3>3. \A i \in 0 .. n : i = 0 \/ i \in 1 .. n
      BY <3>1
    <3>4. h \notin X /\ ~ InSome(L, S, h) /\ h \notin E /\ HAt(h, s, 0) = h
      <4>1. h \notin E
        BY DEF HSets
      <4>2. \A g \in S : \A i \in 1 .. Len(L[g]) : L[g][i] \in E
        BY HPlaces
      <4> QED
        BY <4>1, <4>2, HPlaces DEF HFree, InSome
    <3> HIDE DEF s, n
    <3>5. \A i \in 1 .. n : HAt(h, s, i) \notin S
      BY <3>2 DEF HSets
    <3>6. \A i \in 0 .. n : r.next[HAt(h, s, i)] = mem.next[HAt(h, s, i)]
      <4> TAKE i \in 0 .. n
      <4>1. CASE i = 0
        <5>1. h \in HNode(B, E)
          BY DEF HNode
        <5> QED
          BY <4>1, <5>1, <2>2, <3>4 DEF HRest
      <4>2. CASE i \in 1 .. n
        <5>1. HAt(h, s, i) \in HNode(B, E)
          BY <4>2, <3>2 DEF HNode
        <5> QED
          BY <4>2, <5>1, <3>2, <3>5 DEF HRest
      <4> QED
        BY <4>1, <4>2, <3>3
    <3>7. \A i \in 1 .. n : r.pprev[HAt(h, s, i)] = mem.pprev[HAt(h, s, i)]
      BY <3>2 DEF HRest
    <3> QED
      BY <3>1, <3>6, <3>7 DEF Strand, n
  <2> QED
    BY <2>1, <2>2
<1>5. Apart(M, B)
  <2> SUFFICES ASSUME NEW g \in B, NEW h \in B, NEW i \in 1 .. Len(M[g]),
                        NEW j \in 1 .. Len(M[h]),
                      M[g][i] = M[h][j]
               PROVE  g = h /\ i = j
    BY DEF Apart
  <2>0. M[g][i] \in E /\ M[h][j] \in E
    BY <1>1
  <2>1. CASE g \in S /\ h \in S
    BY <2>1 DEF HMade, Apart
  <2>2. CASE g \in S /\ h \notin S
    <3>1. InSome(M, S, M[g][i])
      BY <2>2 DEF InSome
    <3> QED
      BY <2>0, <2>2, <3>1, <1>2, <1>3 DEF HMade
  <2>3. CASE g \notin S /\ h \in S
    <3>1. InSome(M, S, M[h][j])
      BY <2>3 DEF InSome
    <3> QED
      BY <2>0, <2>3, <3>1, <1>2, <1>3 DEF HMade
  <2>4. CASE g \notin S /\ h \notin S
    <3>1. Apart(L, B) /\ M[g] = L[g] /\ M[h] = L[h]
      BY <2>4, <1>2 DEF Strands
    <3> QED
      BY <3>1 DEF Apart
  <2> QED
    BY <2>1, <2>2, <2>3, <2>4
<1>6. ASSUME NEW y \in E
      PROVE  IF InSome(M, B, y) THEN y \notin G ELSE Alone(r, G, y)
  <2>0. IF InSome(L, B, y) THEN y \notin F ELSE Alone(mem, F, y)
    BY DEF Strands
  <2>1. InSome(M, S, y) => InSome(M, B, y)
    BY DEF InSome
  <2>2. InSome(L, S, y) => InSome(L, B, y)
    BY DEF InSome
  <2>3. CASE InSome(L, S, y) \/ y \in X
    <3>1. InSome(M, B, y) => InSome(M, S, y)
      BY <2>3, <1>2, <1>3 DEF InSome
    <3> QED
      BY <2>1, <2>3, <3>1 DEF HLeft
  <2>4. CASE ~ InSome(L, S, y) /\ y \notin X
    <3>1. ~ InSome(M, S, y)
      BY <2>4 DEF HMade
    <3>2. InSome(M, B, y) <=> InSome(L, B, y)
      BY <2>4, <3>1, <1>2 DEF InSome
    <3>3. y \in HNode(B, E) /\ y \notin S
      BY DEF HNode, HSets
    <3>4. r.next[y] = mem.next[y] /\ r.pprev[y] = mem.pprev[y] /\ (y \in G <=> y \in F)
      BY <2>4, <3>3 DEF HRest
    <3> QED
      BY <2>0, <3>2, <3>4 DEF Alone
  <2> QED
    BY <2>3, <2>4
<1> QED
  BY <1>4, <1>5, <1>6 DEF Strands, HChanged

-----------------------------------------------------------------------------
(* Adding to a bucket and deleting from it *)

(* n is linked in behind p.                                                *)
HLinkedIn(B, E, mem, r, n, p) ==
  /\ r \in HMem(B, E)
  /\ \A x \in HNode(B, E) : r.next[x] = IF x = p THEN n ELSE IF x = n THEN mem.next[p]
                              ELSE mem.next[x]
  /\ \A x \in E : r.pprev[x] = IF x = n THEN p ELSE IF x = mem.next[p] THEN n ELSE mem.pprev[x]

(* hlist_add_head links the node in behind the head.                       *)
LEMMA HAddHead ==
  ASSUME NEW B, NEW E, HSets(B, E), NEW mem \in HMem(B, E), NEW n \in E, NEW h \in B,
           mem.next[h] # n
  PROVE  HLinkedIn(B, E, mem, hlist_add_head(mem, n, h), n, h)
<1>1. h # n /\ n # NULL /\ h \notin E
  BY DEF HSets
<1>2. mem.next[h] = NULL \/ mem.next[h] \in E
  BY DEF HMem, HNode
<1>3. CASE mem.next[h] = NULL
  BY <1>1, <1>3 DEF hlist_add_head, SetPprev, HLinkedIn, HMem, HNode, HSets
<1>4. CASE mem.next[h] # NULL
  BY <1>1, <1>2, <1>4 DEF hlist_add_head, SetPprev, HLinkedIn, HMem, HNode
<1> QED
  BY <1>3, <1>4

(* hlist_add_behind links it in behind the other node.                     *)
LEMMA HAddBehind ==
  ASSUME NEW B, NEW E, HSets(B, E), NEW mem \in HMem(B, E), NEW n \in E, NEW p \in E,
           n # p, mem.next[p] # n
  PROVE  HLinkedIn(B, E, mem, hlist_add_behind(mem, n, p), n, p)
<1>1. n # NULL
  BY DEF HSets
<1>2. mem.next[p] = NULL \/ mem.next[p] \in E
  BY DEF HMem, HNode
<1>3. CASE mem.next[p] = NULL
  BY <1>1, <1>3 DEF hlist_add_behind, SetPprev, HLinkedIn, HMem, HNode, HSets
<1>4. CASE mem.next[p] # NULL
  BY <1>1, <1>2, <1>4 DEF hlist_add_behind, SetPprev, HLinkedIn, HMem, HNode
<1> QED
  BY <1>3, <1>4

(* hlist_add_before links it in behind the place the pprev of the other    *)
(* node names.                                                             *)
LEMMA HAddBefore ==
  ASSUME NEW B, NEW E, HSets(B, E), NEW mem \in HMem(B, E), NEW n \in E, NEW q \in E,
           n # q,
         NEW p \in HNode(B, E), mem.pprev[q] = p, mem.next[p] = q, n # p
  PROVE  HLinkedIn(B, E, mem, hlist_add_before(mem, n, q), n, p)
  BY DEF hlist_add_before, HLinkedIn, HMem, HNode

(* The places of a bucket one of whose nodes is n, at place k, and         *)
(* the places without it.                                                  *)
Grown(h, s, t, k, n) ==
  /\ Len(t) = Len(s) + 1
  /\ \A i \in 0 .. Len(s) + 2 :
       HAt(h, t, i) = IF i < k THEN HAt(h, s, i) ELSE IF i = k THEN n ELSE HAt(h, s, i - 1)

(* The places of a bucket after an insertion.                              *)
LEMMA HInsertPlaces ==
  ASSUME NEW h, NEW X, NEW s \in Seq(X), NEW k \in 1 .. Len(s) + 1, NEW n \in X
  PROVE  /\ Grown(h, s, InsertAt(s, k, n), k, n)
         /\ InsertAt(s, k, n) \in Seq(X)
<1> DEFINE t == InsertAt(s, k, n)
           N == Len(s)
<1>1. t \in Seq(X) /\ Len(t) = N + 1
        /\ \A i \in 1 .. N + 1 : t[i] = IF i < k THEN s[i] ELSE IF i = k THEN n ELSE s[i - 1]
  <2>1. t \in Seq(X) /\ PutAt(s, k, n, t)
    BY InsertPuts
  <2> HIDE DEF t
  <2> QED
    BY <2>1 DEF PutAt
<1>2. N \in Nat /\ k \in 1 .. N + 1
  OBVIOUS
<1> HIDE DEF t, N
<1>3. ASSUME NEW i \in 0 .. N + 2
      PROVE  HAt(h, t, i) = IF i < k THEN HAt(h, s, i) ELSE IF i = k THEN n ELSE HAt(h, s, i - 1)
  <2>1. CASE i = 0
    BY <2>1, <1>2 DEF HAt
  <2>2. CASE i = N + 2
    <3>1. i \notin 1 .. N + 1 /\ i - 1 \notin 1 .. N /\ i # 0 /\ i - 1 # 0 /\ ~ (i < k) /\ i # k
      BY <2>2, <1>2
    <3> QED
      BY <3>1, <1>1 DEF HAt, N
  <2>3. CASE i \in 1 .. N + 1
    <3>1. i # 0 /\ HAt(h, t, i) = t[i]
      BY <2>3, <1>1, <1>2 DEF HAt
    <3>2. CASE i < k
      <4>1. i \in 1 .. N
        BY <2>3, <3>2, <1>2
      <4> QED
        BY <3>1, <3>2, <4>1, <2>3, <1>1 DEF HAt, N
    <3>3. CASE i = k
      <4>1. ~ (i < k)
        BY <3>3, <1>2
      <4> QED
        BY <3>1, <3>3, <4>1, <2>3, <1>1
    <3>4. CASE ~ (i < k) /\ i # k
      <4> DEFINE j == i - 1
      <4>1. j \in 1 .. N /\ j # 0
        BY <2>3, <3>4, <1>2
      <4> HIDE DEF j
      <4>2. HAt(h, s, j) = s[j]
        BY <4>1 DEF HAt, N
      <4> QED
        BY <3>1, <3>4, <4>2, <2>3, <1>1 DEF j
    <3> QED
      BY <3>2, <3>3, <3>4
  <2> QED
    BY <2>1, <2>2, <2>3, <1>2
<1> QED
  BY <1>1, <1>3 DEF Grown, t, N

(* A bucket with a node removed, the other way round.                      *)
LEMMA HRemovePlaces ==
  ASSUME NEW h, NEW X, NEW s \in Seq(X), NEW k \in 1 .. Len(s)
  PROVE  /\ Grown(h, RemoveAt(s, k), s, k, s[k])
         /\ RemoveAt(s, k) \in Seq(X)
<1> DEFINE t == RemoveAt(s, k)
           N == Len(s)
<1>1. t \in Seq(X) /\ Len(t) = N - 1
        /\ \A i \in 1 .. N - 1 : t[i] = IF i < k THEN s[i] ELSE s[i + 1]
  BY RemoveAtIndex
<1>2. N \in Nat /\ k \in 1 .. N /\ Len(t) + 1 = N /\ Len(t) + 2 = N + 1
  BY <1>1
<1> HIDE DEF t, N
<1>3. ASSUME NEW i \in 0 .. N + 1
      PROVE  HAt(h, s, i) = IF i < k THEN HAt(h, t, i) ELSE IF i = k THEN s[k] ELSE HAt(h, t, i - 1)
  <2>1. CASE i = 0
    BY <2>1, <1>2 DEF HAt
  <2>2. CASE i = N + 1
    <3>1. i \notin 1 .. N /\ i - 1 \notin 1 .. N - 1 /\ i # 0 /\ i - 1 # 0 /\ ~ (i < k) /\ i # k
      BY <2>2, <1>2
    <3> QED
      BY <3>1, <1>1 DEF HAt, N
  <2>3. CASE i \in 1 .. N
    <3>1. i # 0 /\ HAt(h, s, i) = s[i]
      BY <2>3, <1>2 DEF HAt, N
    <3>2. CASE i < k
      <4>1. i \in 1 .. N - 1
        BY <2>3, <3>2, <1>2
      <4> QED
        BY <3>1, <3>2, <4>1, <1>1 DEF HAt
    <3>3. CASE i = k
      <4>1. ~ (i < k)
        BY <3>3, <1>2
      <4> QED
        BY <3>1, <3>3, <4>1
    <3>4. CASE ~ (i < k) /\ i # k
      <4> DEFINE j == i - 1
      <4>1. j \in 1 .. N - 1 /\ j # 0 /\ j + 1 = i /\ ~ (j < k)
        BY <2>3, <3>4, <1>2
      <4> HIDE DEF j
      <4>2. HAt(h, t, j) = t[j] /\ t[j] = s[j + 1]
        BY <4>1, <1>1 DEF HAt
      <4> QED
        BY <3>1, <3>4, <4>1, <4>2 DEF j
    <3> QED
      BY <3>2, <3>3, <3>4
  <2> QED
    BY <2>1, <2>2, <2>3, <1>2
<1>4. \A i \in 0 .. Len(t) + 2 : HAt(h, s, i) = IF i < k THEN HAt(h, t, i)
                                   ELSE IF i = k THEN s[k] ELSE HAt(h, t, i - 1)
  BY <1>2, <1>3
<1> QED
  BY <1>1, <1>2, <1>4 DEF Grown, t, N

(* A node linked in behind a place is inserted there.                      *)
LEMMA HInsertStrand ==
  ASSUME NEW B, NEW E, HSets(B, E), NEW mem, NEW L, NEW F, Strands(B, E, mem, L, F),
         NEW h \in B, NEW c \in 0 .. Len(L[h]), NEW n \in E, ~ InSome(L, B, n),
           n \notin F,
         NEW M, HChanged(B, E, L, M, Only(h)), M[h] = InsertAt(L[h], c + 1, n),
         NEW r, HLinkedIn(B, E, mem, r, n, HAt(h, L[h], c))
  PROVE  Strands(B, E, r, M, F)
<1> DEFINE s == L[h]
           t == M[h]
           N == Len(s)
           p == HAt(h, s, c)
           k == c + 1
<1>1. /\ s \in Seq(E) /\ N \in Nat
      /\ \A i \in 0 .. N : HAt(h, s, i) \in HNode(B, E) /\ HAt(h, s, i) # NULL
      /\ \A i \in 1 .. N : HAt(h, s, i) \in E /\ HAt(h, s, i) = s[i] /\ InSome(L, B, s[i])
      /\ HAt(h, s, 0) = h /\ HAt(h, s, N + 1) = NULL
  BY HPlaces
<1>2. \A i, j \in 0 .. N : HAt(h, s, i) = HAt(h, s, j) => i = j
  BY HPlaces
<1>3. /\ \A i \in 0 .. N : mem.next[HAt(h, s, i)] = HAt(h, s, i + 1)
      /\ \A i \in 1 .. N : mem.pprev[HAt(h, s, i)] = HAt(h, s, i - 1)
  BY DEF Strands, Strand
<1>4. n # NULL /\ n \notin B
  BY DEF HSets
<1>5. \A i \in 0 .. N + 1 : HAt(h, s, i) # n
  <2> TAKE i \in 0 .. N + 1
  <2>1. i = 0 \/ i \in 1 .. N \/ i = N + 1
    BY <1>1
  <2> HIDE DEF s, N
  <2> QED
    BY <2>1, <1>1, <1>4
<1>6. k \in 1 .. N + 1 /\ c \in 0 .. N /\ k - 1 = c
  BY <1>1
<1>0. t = InsertAt(s, k, n)
  OBVIOUS
<1>7. Grown(h, s, t, k, n) /\ t \in Seq(E)
  <2>1. s \in Seq(E) /\ k \in 1 .. Len(s) + 1
    BY <1>1, <1>6
  <2> HIDE DEF s, k, t
  <2>2. Grown(h, s, InsertAt(s, k, n), k, n) /\ InsertAt(s, k, n) \in Seq(E)
    BY <2>1, HInsertPlaces
  <2> QED
    BY <1>0, <2>2
<1>8. mem.next[p] = HAt(h, s, k)
  BY <1>3
<1>9. /\ \A x \in HNode(B, E) : r.next[x] = IF x = p THEN n ELSE IF x = n THEN mem.next[p]
                            ELSE mem.next[x]
      /\ \A x \in E : r.pprev[x] = IF x = n THEN p ELSE IF x = mem.next[p] THEN n
                            ELSE mem.pprev[x]
  BY DEF HLinkedIn
<1>10. p \in HNode(B, E) /\ n \in HNode(B, E) /\ p # n
  <2> HIDE DEF s
  <2> QED
    BY <1>1, <1>5, <1>6 DEF HNode
<1> DEFINE T(i) == HAt(h, t, i)
           P(i) == HAt(h, s, i)
<1>11. \A i \in 0 .. N + 2 : T(i) = IF i < k THEN P(i) ELSE IF i = k THEN n ELSE P(i - 1)
  BY <1>7 DEF Grown
<1>12. Len(t) = N + 1
  BY <1>7 DEF Grown
<1>13. /\ P(c) = p /\ P(k) = mem.next[p]
       /\ \A i \in 0 .. N : P(i) \in HNode(B, E) /\ mem.next[P(i)] = P(i + 1)
       /\ \A i \in 1 .. N : P(i) \in E /\ mem.pprev[P(i)] = P(i - 1)
       /\ \A i \in 0 .. N + 1 : P(i) # n
       /\ \A i, j \in 0 .. N : P(i) = P(j) => i = j
       /\ P(N + 1) = NULL /\ \A i \in 0 .. N : P(i) # NULL
  BY <1>1, <1>2, <1>3, <1>5, <1>8
<1>14. Strand(r, h, t)
  <2> HIDE DEF P, T, p, k, s, t, N
  <2>1. ASSUME NEW i \in 0 .. N + 1
        PROVE  r.next[T(i)] = T(i + 1)
    <3>1. CASE i < c
      <4>1. i \in 0 .. N /\ i < k /\ i + 1 < k /\ i # c /\ i \in 0 .. N + 2 /\ i + 1 \in 0 .. N + 2
        BY <3>1, <1>1, <1>6
      <4>2. T(i) = P(i) /\ T(i + 1) = P(i + 1)
        BY <4>1, <1>11
      <4>3. P(i) # p /\ P(i) # n /\ P(i) \in HNode(B, E)
        BY <4>1, <1>6, <1>13, <1>1
      <4> QED
        BY <4>1, <4>2, <4>3, <1>9, <1>13
    <3>2. CASE i = c
      <4>1. i < k /\ i + 1 = k /\ ~ (i + 1 < k) /\ i \in 0 .. N + 2 /\ i + 1 \in 0 .. N + 2
        BY <3>2, <1>1, <1>6
      <4>2. T(i) = p /\ T(i + 1) = n
        BY <3>2, <4>1, <1>11, <1>13
      <4> QED
        BY <4>2, <1>9, <1>10
    <3>3. CASE i = k
      <4>1. ~ (i < k) /\ ~ (i + 1 < k) /\ i + 1 # k /\ i \in 0 .. N + 2 /\ i + 1 \in 0 .. N + 2
              /\ i + 1 - 1 = k
        BY <3>3, <1>1, <1>6
      <4>2. T(i) = n /\ T(i + 1) = P(k)
        BY <3>3, <4>1, <1>11
      <4> QED
        BY <4>2, <1>9, <1>10, <1>13
    <3>4. CASE i > k
      <4> DEFINE j == i - 1
      <4>1. /\ ~ (i < k) /\ i # k /\ ~ (i + 1 < k) /\ i + 1 # k /\ i \in 0 .. N + 2
                 /\ i + 1 \in 0 .. N + 2 /\ i + 1 - 1 = j + 1
            /\ j \in 0 .. N /\ j # c
        BY <3>4, <1>1, <1>6
      <4>2. T(i) = P(j) /\ T(i + 1) = P(j + 1)
        BY <4>1, <1>11
      <4> HIDE DEF j
      <4>3. P(j) # p /\ P(j) # n /\ P(j) \in HNode(B, E)
        <5>1. j \in 0 .. N + 1
          BY <4>1, <1>1
        <5> QED
          BY <4>1, <5>1, <1>6, <1>13
      <4> QED
        BY <4>1, <4>2, <4>3, <1>9, <1>13
    <3> QED
      BY <3>1, <3>2, <3>3, <3>4, <1>1, <1>6
  <2>2. ASSUME NEW i \in 1 .. N + 1
        PROVE  r.pprev[T(i)] = T(i - 1)
    <3>1. CASE i < k
      <4>1. i \in 1 .. N /\ i \in 0 .. N /\ i - 1 < k /\ i \in 0 .. N + 2
              /\ i - 1 \in 0 .. N + 2 /\ i \in 0 .. N + 1
        BY <3>1, <1>1, <1>6
      <4>2. T(i) = P(i) /\ T(i - 1) = P(i - 1)
        BY <3>1, <4>1, <1>11
      <4>3. P(i) # n /\ P(i) \in E
        BY <4>1, <1>13
      <4>4. P(i) # P(k)
        <5>1. CASE k \in 0 .. N
          <6>1. i # k
            BY <3>1, <1>1, <1>6
          <6> QED
            BY <4>1, <5>1, <6>1, <1>13
        <5>2. CASE k = N + 1
          BY <4>1, <5>2, <1>13
        <5> QED
          BY <5>1, <5>2, <1>6, <1>1
      <4> QED
        BY <4>1, <4>2, <4>3, <4>4, <1>9, <1>13
    <3>2. CASE i = k
      <4>1. ~ (i < k) /\ i - 1 = c /\ c < k /\ i \in 0 .. N + 2 /\ c \in 0 .. N + 2
        BY <3>2, <1>1, <1>6
      <4>2. T(i) = n /\ T(i - 1) = p
        BY <3>2, <4>1, <1>11, <1>13
      <4> QED
        BY <4>2, <1>9
    <3>3. CASE i = k + 1
      <4>1. ~ (i < k) /\ i # k /\ i - 1 = k /\ i \in 0 .. N + 2 /\ k \in 0 .. N + 2
              /\ k \in 1 .. N /\ ~ (k < k) /\ k \in 0 .. N + 1
        BY <3>3, <1>1, <1>6
      <4>2. T(i) = P(k) /\ T(i - 1) = n
        BY <4>1, <1>11
      <4>3. P(k) \in E /\ P(k) # n
        BY <4>1, <1>13
      <4> QED
        BY <4>2, <4>3, <1>9, <1>13
    <3>4. CASE i > k + 1
      <4> DEFINE j == i - 1
      <4>1. /\ ~ (i < k) /\ i # k /\ ~ (j < k) /\ j # k /\ i \in 0 .. N + 2 /\ j \in 0 .. N + 2
            /\ j \in 1 .. N /\ j \in 0 .. N /\ k \in 0 .. N /\ j \in 0 .. N + 1
        BY <3>4, <1>1, <1>6
      <4>2. T(i) = P(j) /\ T(j) = P(j - 1)
        BY <4>1, <1>11
      <4>5. T(i - 1) = T(j)
        OBVIOUS
      <4> HIDE DEF j
      <4>3. P(j) # n /\ P(j) \in E /\ P(j) # P(k)
        BY <4>1, <1>13
      <4> QED
        BY <4>1, <4>2, <4>3, <4>5, <1>9, <1>13
    <3> QED
      BY <3>1, <3>2, <3>3, <3>4, <1>1, <1>6
  <2> QED
    BY <2>1, <2>2, <1>12 DEF Strand, T
<1> DEFINE X == {n}
           S == Only(h)
<1>15. \A y \in E : InSome(M, S, y) <=> InSome(L, S, y) \/ y = n
  <2>1. \A y : InSome(M, S, y) <=> \E i \in 1 .. N + 1 : t[i] = y
    BY <1>12 DEF InSome, Only
  <2>2. \A y : InSome(L, S, y) <=> \E i \in 1 .. N : s[i] = y
    BY DEF InSome, Only
  <2>3. \A i \in 1 .. N + 1 : t[i] = IF i < k THEN s[i] ELSE IF i = k THEN n ELSE s[i - 1]
    <3>1. s \in Seq(E) /\ k \in 1 .. Len(s) + 1
      BY <1>1, <1>6
    <3> HIDE DEF s, k, t
    <3>2. \A i \in 1 .. Len(s) + 1 : InsertAt(s, k, n)[i] = IF i < k THEN s[i]
                                       ELSE IF i = k THEN n ELSE s[i - 1]
      BY <3>1, InsertAtIndex
    <3> QED
      BY <1>0, <3>2 DEF N
  <2> HIDE DEF s, t, N, S, k
  <2>4. ASSUME NEW y, NEW i \in 1 .. N + 1, t[i] = y
        PROVE  y = n \/ \E j \in 1 .. N : s[j] = y
    <3>1. CASE i < k
      <4>1. i \in 1 .. N
        BY <3>1, <1>1, <1>6
      <4> QED
        BY <3>1, <4>1, <2>3, <2>4
    <3>2. CASE i = k
      <4>1. ~ (i < k)
        BY <3>2, <1>1, <1>6
      <4> QED
        BY <3>2, <4>1, <2>3, <2>4
    <3>3. CASE i > k
      <4> DEFINE j == i - 1
      <4>1. j \in 1 .. N /\ ~ (i < k) /\ i # k
        BY <3>3, <1>1, <1>6
      <4>2. s[j] = y
        BY <4>1, <2>3, <2>4
      <4> HIDE DEF j
      <4> QED
        BY <4>1, <4>2
    <3> QED
      BY <3>1, <3>2, <3>3, <1>1, <1>6
  <2>5. ASSUME NEW y, NEW i \in 1 .. N, s[i] = y
        PROVE  \E j \in 1 .. N + 1 : t[j] = y
    <3>1. CASE i < k
      <4>1. i \in 1 .. N + 1
        BY <1>1
      <4> QED
        BY <3>1, <4>1, <2>3, <2>5
    <3>2. CASE ~ (i < k)
      <4> DEFINE j == i + 1
      <4>1. j \in 1 .. N + 1 /\ ~ (j < k) /\ j # k /\ j - 1 = i
        BY <3>2, <1>1, <1>6
      <4> HIDE DEF j
      <4>2. t[j] = y
        BY <4>1, <2>3, <2>5
      <4> QED
        BY <4>1, <4>2
    <3> QED
      BY <3>1, <3>2
  <2>6. k \in 1 .. N + 1 /\ t[k] = n
    <3>1. ~ (k < k)
      BY <1>1, <1>6
    <3> QED
      BY <3>1, <1>6, <2>3
  <2> QED
    BY <2>1, <2>2, <2>4, <2>5, <2>6
<1>16. Apart(M, S)
  <2>1. \A i \in 1 .. N + 1 : T(i) = t[i]
    BY <1>1, <1>12 DEF HAt
  <2>2. ASSUME NEW i \in 1 .. N + 1, NEW j \in 1 .. N + 1, t[i] = t[j]
        PROVE  i = j
    <3> DEFINE a == IF i < k THEN i ELSE i - 1
               b == IF j < k THEN j ELSE j - 1
    <3>1. i # k => a \in 1 .. N /\ a \in 0 .. N
      BY <1>1, <1>6
    <3>2. j # k => b \in 1 .. N /\ b \in 0 .. N
      BY <1>1, <1>6
    <3>3. i # k => T(i) = P(a)
      <4>1. i \in 0 .. N + 2
        BY <1>1
      <4> HIDE DEF T, P
      <4> QED
        BY <4>1, <1>11
    <3>4. j # k => T(j) = P(b)
      <4>1. j \in 0 .. N + 2
        BY <1>1
      <4> HIDE DEF T, P
      <4> QED
        BY <4>1, <1>11
    <3>5. T(k) = n
      <4>1. k \in 0 .. N + 2 /\ ~ (k < k)
        BY <1>1, <1>6
      <4> HIDE DEF T, P
      <4> QED
        BY <4>1, <1>11
    <3>6. T(i) = T(j)
      BY <2>1, <2>2
    <3>7. a = b /\ i # k /\ j # k => i = j
      BY <1>1, <1>6
    <3>8. \A x \in 0 .. N : P(x) # n
      <4>1. \A x \in 0 .. N : x \in 0 .. N + 1
        BY <1>1
      <4> HIDE DEF P
      <4> QED
        BY <4>1, <1>13
    <3> HIDE DEF a, b, T, P, s, t, N, k
    <3>9. i # k /\ j # k => a = b
      BY <3>1, <3>2, <3>3, <3>4, <3>6, <1>13
    <3>10. i = k <=> j = k
      BY <3>1, <3>2, <3>3, <3>4, <3>5, <3>6, <3>8
    <3> QED
      BY <3>7, <3>9, <3>10
  <2>3. \A g \in S : g = h
    BY DEF Only
  <2> HIDE DEF s, t, N, S
  <2>4. \A i, j \in 1 .. Len(M[h]) : M[h][i] = M[h][j] => i = j
    BY <1>12, <2>2 DEF t
  <2> QED
    BY <2>3, <2>4 DEF Apart
<1>17. HMade(B, E, r, L, M, S, X)
  <2>1. \A g \in S : Strand(r, g, M[g])
    BY <1>14 DEF Only
  <2> HIDE DEF S
  <2> QED
    BY <2>1, <1>15, <1>16 DEF HMade
<1>18. S \in SUBSET B /\ h \in S /\ HFree(B, E, L, X) /\ r \in HMem(B, E) /\ F \in SUBSET E
  BY DEF HFree, Only, HLinkedIn, Strands
<1>19. p = h \/ InSome(L, S, p)
  <2>1. c = 0 \/ c \in 1 .. N
    BY <1>6, <1>1
  <2>2. CASE c = 0
    BY <2>2, <1>1
  <2>3. CASE c \in 1 .. N
    <3>1. p = s[c]
      BY <2>3, <1>1
    <3> QED
      BY <2>3, <3>1 DEF InSome, Only
  <2> QED
    BY <2>1, <2>2, <2>3
<1>20. P(k) = NULL \/ InSome(L, S, P(k))
  <2>1. k \in 1 .. N \/ k = N + 1
    BY <1>6, <1>1
  <2>2. CASE k = N + 1
    BY <2>2, <1>13
  <2>3. CASE k \in 1 .. N
    <3>1. P(k) = s[k]
      BY <2>3, <1>1
    <3> HIDE DEF P, k
    <3> QED
      BY <2>3, <3>1 DEF InSome, Only
  <2> QED
    BY <2>1, <2>2, <2>3
<1> HIDE DEF p, s, t, k, N, P, T
<1>21. HRest(B, E, mem, r, L, S, X, F, F)
  <2>1. \A y \in HNode(B, E) : y \in S \/ InSome(L, S, y) \/ y \in X \/ r.next[y] = mem.next[y]
    <3> HIDE DEF S
    <3> QED
      BY <1>9, <1>18, <1>19
  <2>2. \A y \in E : InSome(L, S, y) \/ y \in X \/ r.pprev[y] = mem.pprev[y]
    <3>1. \A y \in E : y # NULL
      BY DEF HSets
    <3> HIDE DEF S
    <3> QED
      BY <3>1, <1>9, <1>13, <1>20
  <2> QED
    BY <2>1, <2>2 DEF HRest
<1>22. HLeft(B, E, r, L, M, S, X, F)
  <2>1. \A y \in E : InSome(L, S, y) \/ y \in X => InSome(M, S, y) /\ y \notin F
    <3>1. \A y \in E : InSome(L, S, y) => y \notin F
      <4>1. \A y \in E : InSome(L, S, y) => InSome(L, B, y)
        BY <1>18 DEF InSome
      <4> QED
        BY <4>1 DEF Strands
    <3> QED
      BY <3>1, <1>15
  <2> QED
    BY <2>1 DEF HLeft
<1> HIDE DEF X
<1> QED
  BY <1>17, <1>18, <1>21, <1>22, SomeStrands

(* n is linked out.                                                        *)
HLinkedOut(B, E, mem, r, n) ==
  /\ r \in HMem(B, E)
  /\ \A x \in HNode(B, E) : r.next[x] = IF x = n THEN NULL ELSE IF x = mem.pprev[n] THEN mem.next[n]
                        ELSE mem.next[x]
  /\ \A x \in E : r.pprev[x] = IF x = n THEN NULL ELSE IF x = mem.next[n] THEN mem.pprev[n]
                        ELSE mem.pprev[x]

(* hlist_del unlinks a node through its pprev.                             *)
LEMMA HDel ==
  ASSUME NEW B, NEW E, HSets(B, E), NEW mem \in HMem(B, E), NEW n \in E, mem.pprev[n] # NULL
  PROVE  HLinkedOut(B, E, mem, hlist_del(mem, n), n)
<1>1. mem.pprev[n] \in HNode(B, E) /\ n \in HNode(B, E)
  BY DEF HMem, HNode
<1>2. mem.next[n] = NULL \/ mem.next[n] \in E
  BY <1>1 DEF HMem
<1>3. CASE mem.next[n] = NULL
  BY <1>1, <1>3 DEF hlist_del, __hlist_del, INIT_HLIST_NODE, SetPprev, HLinkedOut, HMem, HNode,
       HSets
<1>4. CASE mem.next[n] # NULL
  BY <1>1, <1>2, <1>4 DEF hlist_del, __hlist_del, INIT_HLIST_NODE, SetPprev, HLinkedOut, HMem, HNode
<1> QED
  BY <1>3, <1>4

(* A node linked out of its bucket is removed from it.                     *)
LEMMA HRemoveStrand ==
  ASSUME NEW B, NEW E, HSets(B, E), NEW mem, NEW L, NEW F, Strands(B, E, mem, L, F),
         NEW h \in B, NEW k \in 1 .. Len(L[h]), NEW n, n = L[h][k],
         NEW M, HChanged(B, E, L, M, Only(h)), M[h] = RemoveAt(L[h], k),
         NEW r, HLinkedOut(B, E, mem, r, n)
  PROVE  Strands(B, E, r, M, F)
<1> DEFINE s == L[h]
           t == M[h]
           N == Len(s)
           T(i) == HAt(h, t, i)
           P(i) == HAt(h, s, i)
<1>1. /\ s \in Seq(E) /\ N \in Nat
      /\ \A i \in 0 .. N : HAt(h, s, i) \in HNode(B, E) /\ HAt(h, s, i) # NULL
      /\ \A i \in 1 .. N : HAt(h, s, i) \in E /\ HAt(h, s, i) = s[i] /\ InSome(L, B, s[i])
      /\ HAt(h, s, 0) = h /\ HAt(h, s, N + 1) = NULL
  BY HPlaces
<1>2. \A i, j \in 0 .. N : HAt(h, s, i) = HAt(h, s, j) => i = j
  BY HPlaces
<1>3. /\ \A i \in 0 .. N : mem.next[HAt(h, s, i)] = HAt(h, s, i + 1)
      /\ \A i \in 1 .. N : mem.pprev[HAt(h, s, i)] = HAt(h, s, i - 1)
  BY DEF Strands, Strand
<1>6. k \in 1 .. N /\ k \in 0 .. N /\ k - 1 \in 0 .. N /\ k + 1 \in 0 .. N + 1
  BY <1>1
<1>0. t = RemoveAt(s, k) /\ n = s[k]
  OBVIOUS
<1>7. Grown(h, t, s, k, n) /\ t \in Seq(E) /\ Len(t) = N - 1
      /\ \A i \in 1 .. N - 1 : t[i] = IF i < k THEN s[i] ELSE s[i + 1]
  <2>1. s \in Seq(E) /\ k \in 1 .. Len(s)
    BY <1>1
  <2> HIDE DEF s, t
  <2>2. Grown(h, RemoveAt(s, k), s, k, s[k]) /\ RemoveAt(s, k) \in Seq(E)
    BY <2>1, HRemovePlaces
  <2>3. Len(RemoveAt(s, k)) = Len(s) - 1
          /\ \A i \in 1 .. Len(s) - 1 : RemoveAt(s, k)[i] = IF i < k THEN s[i] ELSE s[i + 1]
    BY <2>1, RemoveAtIndex
  <2> QED
    BY <1>0, <2>2, <2>3 DEF N
<1>8. n \in E /\ n \in HNode(B, E) /\ P(k) = n
  BY <1>0, <1>1, <1>6 DEF HNode
<1>9. /\ r \in HMem(B, E)
      /\ \A x \in HNode(B, E) : r.next[x] = IF x = n THEN NULL
                            ELSE IF x = mem.pprev[n] THEN mem.next[n] ELSE mem.next[x]
      /\ \A x \in E : r.pprev[x] = IF x = n THEN NULL
                            ELSE IF x = mem.next[n] THEN mem.pprev[n] ELSE mem.pprev[x]
  BY DEF HLinkedOut
<1>11. \A i \in 0 .. N : T(i) = IF i < k THEN P(i) ELSE P(i + 1)
  <2>1. \A i \in 0 .. N + 1 : P(i) = IF i < k THEN T(i) ELSE IF i = k THEN n ELSE T(i - 1)
    <3>1. Len(t) + 2 = N + 1
      BY <1>1, <1>7
    <3> HIDE DEF t, s, N
    <3> QED
      BY <3>1, <1>7 DEF Grown
  <2> HIDE DEF P, T
  <2> TAKE i \in 0 .. N
  <2>2. CASE i < k
    <3>1. i \in 0 .. N + 1
      BY <1>1
    <3> QED
      BY <2>1, <2>2, <3>1
  <2>3. CASE ~ (i < k)
    <3> DEFINE j == i + 1
    <3>1. j \in 0 .. N + 1 /\ ~ (j < k) /\ j # k /\ j - 1 = i
      BY <2>3, <1>1, <1>6
    <3> HIDE DEF j
    <3>2. P(j) = T(i)
      BY <3>1, <2>1
    <3> QED
      BY <2>3, <3>2 DEF j
  <2> QED
    BY <2>2, <2>3
<1>13. /\ \A i \in 0 .. N : P(i) \in HNode(B, E) /\ mem.next[P(i)] = P(i + 1)
       /\ \A i \in 1 .. N : P(i) \in E /\ mem.pprev[P(i)] = P(i - 1)
       /\ \A i, j \in 0 .. N : P(i) = P(j) => i = j
       /\ P(N + 1) = NULL /\ \A i \in 0 .. N : P(i) # NULL
  BY <1>1, <1>2, <1>3
<1>12. mem.next[n] = P(k + 1) /\ mem.pprev[n] = P(k - 1)
  <2> HIDE DEF P, N
  <2> QED
    BY <1>6, <1>8, <1>13
<1>14. Strand(r, h, t)
  <2> HIDE DEF P, T, s, t, N
  <2>1. ASSUME NEW i \in 0 .. N - 1
        PROVE  r.next[T(i)] = T(i + 1)
    <3>0. i \in 0 .. N /\ i + 1 \in 0 .. N
      BY <1>1
    <3>1. CASE i + 1 < k
      <4>1. i < k /\ i # k /\ i # k - 1
        BY <3>1, <1>1, <1>6
      <4>2. T(i) = P(i) /\ T(i + 1) = P(i + 1)
        BY <3>0, <3>1, <4>1, <1>11
      <4>3. P(i) # n /\ P(i) # P(k - 1) /\ P(i) \in HNode(B, E)
        BY <3>0, <4>1, <1>6, <1>8, <1>13
      <4> QED
        BY <3>0, <4>2, <4>3, <1>9, <1>12, <1>13
    <3>2. CASE i + 1 = k
      <4>1. i < k /\ ~ (k < k) /\ i = k - 1 /\ i # k
        BY <3>2, <1>1, <1>6
      <4>2. T(i) = P(i) /\ T(i + 1) = P(k + 1)
        BY <3>0, <3>2, <4>1, <1>11
      <4>3. P(i) # n /\ P(i) = P(k - 1) /\ P(i) \in HNode(B, E)
        BY <3>0, <4>1, <1>6, <1>8, <1>13
      <4> QED
        BY <4>2, <4>3, <1>9, <1>12
    <3>3. CASE i + 1 > k
      <4> DEFINE j == i + 1
      <4>1. ~ (i < k) /\ ~ (j < k) /\ j # k /\ j # k - 1 /\ j \in 0 .. N
        BY <3>3, <1>1, <1>6
      <4>2. T(i) = P(j) /\ T(j) = P(j + 1)
        BY <3>0, <4>1, <1>11
      <4>4. T(i + 1) = T(j)
        OBVIOUS
      <4> HIDE DEF j
      <4>3. P(j) # n /\ P(j) # P(k - 1) /\ P(j) \in HNode(B, E)
        BY <4>1, <1>6, <1>8, <1>13
      <4> QED
        BY <4>1, <4>2, <4>3, <4>4, <1>9, <1>12, <1>13
    <3> QED
      BY <3>1, <3>2, <3>3, <1>1, <1>6
  <2>2. ASSUME NEW i \in 1 .. N - 1
        PROVE  r.pprev[T(i)] = T(i - 1)
    <3>0. i \in 0 .. N /\ i - 1 \in 0 .. N /\ i \in 1 .. N
      BY <1>1
    <3>5. \A a \in 1 .. N : a # k + 1 => P(a) # P(k + 1)
      <4> TAKE a \in 1 .. N
      <4> HAVE a # k + 1
      <4>1. CASE k + 1 = N + 1
        <5>1. a \in 0 .. N
          BY <1>1
        <5> QED
          BY <4>1, <5>1, <1>13
      <4>2. CASE k + 1 # N + 1
        <5>1. a \in 0 .. N /\ k + 1 \in 0 .. N
          BY <4>2, <1>1, <1>6
        <5> QED
          BY <5>1, <1>13
      <4> QED
        BY <4>1, <4>2
    <3>1. CASE i < k
      <4>1. i - 1 < k /\ i # k /\ i # k + 1
        BY <3>1, <1>1, <1>6
      <4>2. T(i) = P(i) /\ T(i - 1) = P(i - 1)
        BY <3>0, <3>1, <4>1, <1>11
      <4>3. P(i) # n /\ P(i) # P(k + 1) /\ P(i) \in E
        BY <3>0, <3>5, <4>1, <1>6, <1>8, <1>13
      <4> QED
        BY <3>0, <4>2, <4>3, <1>9, <1>12, <1>13
    <3>2. CASE i = k
      <4>1. ~ (i < k) /\ i - 1 < k /\ i - 1 = k - 1 /\ k + 1 \in 1 .. N /\ k + 1 \in 0 .. N
              /\ k + 1 # k
        BY <3>2, <1>1, <1>6
      <4>2. T(i) = P(k + 1) /\ T(i - 1) = P(k - 1)
        BY <3>0, <3>2, <4>1, <1>11
      <4>3. P(k + 1) # n /\ P(k + 1) \in E
        BY <4>1, <1>6, <1>8, <1>13
      <4> QED
        BY <4>2, <4>3, <1>9, <1>12
    <3>3. CASE i > k
      <4> DEFINE j == i + 1
                 e == i - 1
      <4>1. ~ (i < k) /\ ~ (e < k) /\ j # k /\ j # k + 1 /\ j \in 0 .. N /\ j \in 1 .. N
              /\ e + 1 = i /\ j - 1 = i /\ e \in 0 .. N
        BY <3>3, <3>0, <1>1, <1>6
      <4>2. T(i) = P(j) /\ T(i - 1) = T(e)
        BY <3>0, <4>1, <1>11
      <4> HIDE DEF j, e
      <4>4. T(e) = P(i)
        BY <4>1, <1>11
      <4>3. P(j) # n /\ P(j) # P(k + 1) /\ P(j) \in E
        BY <3>5, <4>1, <1>6, <1>8, <1>13
      <4>5. mem.pprev[P(j)] = P(i)
        BY <4>1, <1>13
      <4> QED
        BY <4>2, <4>3, <4>4, <4>5, <1>9, <1>12
    <3> QED
      BY <3>1, <3>2, <3>3, <1>1, <1>6
  <2> QED
    BY <2>1, <2>2, <1>7 DEF Strand, T
<1> DEFINE X == {}
           S == Only(h)
<1>4. \A i, j \in 1 .. N : s[i] = s[j] => i = j
  <2>1. \A i \in 1 .. N : P(i) = s[i] /\ i \in 0 .. N
    BY <1>1
  <2> HIDE DEF P, s, N
  <2> QED
    BY <2>1, <1>13
<1>5. Len(t) = N - 1 /\ \A i \in 1 .. N - 1 : t[i] = IF i < k THEN s[i] ELSE s[i + 1]
  BY <1>7
<1>15. \A y \in E : InSome(M, S, y) <=> InSome(L, S, y) /\ y # n
  <2>1. \A y : InSome(M, S, y) <=> \E i \in 1 .. N - 1 : t[i] = y
    BY <1>5 DEF InSome, Only
  <2>2. \A y : InSome(L, S, y) <=> \E i \in 1 .. N : s[i] = y
    BY DEF InSome, Only
  <2> HIDE DEF s, t, N, S
  <2>4. ASSUME NEW y, NEW i \in 1 .. N - 1, t[i] = y
        PROVE  y # n /\ \E j \in 1 .. N : s[j] = y
    <3> DEFINE j == IF i < k THEN i ELSE i + 1
    <3>1. j \in 1 .. N /\ j # k
      BY <1>1, <1>6
    <3>2. s[j] = y
      BY <1>5, <2>4
    <3> HIDE DEF j
    <3>3. y # s[k]
      BY <3>1, <3>2, <1>4, <1>6
    <3>4. y # n
      BY <3>3, <1>0
    <3>5. \E a \in 1 .. N : s[a] = y
      BY <3>1, <3>2
    <3> QED
      BY <3>4, <3>5
  <2>5. ASSUME NEW y, NEW i \in 1 .. N, s[i] = y, y # n
        PROVE  \E j \in 1 .. N - 1 : t[j] = y
    <3>0. i # k
      BY <2>5, <1>0
    <3>1. CASE i < k
      <4>1. i \in 1 .. N - 1
        BY <3>1, <1>1, <1>6
      <4> QED
        BY <3>1, <4>1, <1>5, <2>5
    <3>2. CASE ~ (i < k)
      <4> DEFINE j == i - 1
      <4>1. j \in 1 .. N - 1 /\ ~ (j < k) /\ j + 1 = i
        BY <3>0, <3>2, <1>1, <1>6
      <4> HIDE DEF j
      <4>2. t[j] = y
        BY <4>1, <1>5, <2>5
      <4> QED
        BY <4>1, <4>2
    <3> QED
      BY <3>1, <3>2
  <2> QED
    BY <2>1, <2>2, <2>4, <2>5
<1>16. Apart(M, S)
  <2>2. ASSUME NEW i \in 1 .. N - 1, NEW j \in 1 .. N - 1, t[i] = t[j]
        PROVE  i = j
    <3> DEFINE a == IF i < k THEN i ELSE i + 1
               b == IF j < k THEN j ELSE j + 1
    <3>1. a \in 1 .. N /\ b \in 1 .. N
      BY <1>1, <1>6
    <3>2. a = b => i = j
      BY <1>1, <1>6
    <3>3. s[a] = t[i] /\ s[b] = t[j]
      <4> HIDE DEF s, t, N
      <4> QED
        BY <1>5
    <3> HIDE DEF a, b, s, t, N
    <3> QED
      BY <2>2, <3>1, <3>2, <3>3, <1>4
  <2>3. \A g \in S : g = h
    BY DEF Only
  <2> HIDE DEF s, t, N, S
  <2>4. \A i, j \in 1 .. Len(M[h]) : M[h][i] = M[h][j] => i = j
    BY <1>5, <2>2 DEF t
  <2> QED
    BY <2>3, <2>4 DEF Apart
<1>17. HMade(B, E, r, L, M, S, X)
  <2>1. \A g \in S : Strand(r, g, M[g])
    BY <1>14 DEF Only
  <2> HIDE DEF S
  <2> QED
    BY <2>1, <1>15, <1>16 DEF HMade
<1>18. S \in SUBSET B /\ h \in S /\ HFree(B, E, L, X) /\ r \in HMem(B, E) /\ F \in SUBSET E
  BY DEF HFree, Only, HLinkedOut, Strands
<1>21. InSome(L, S, n)
  BY <1>0, <1>6 DEF InSome, Only
<1>19. P(k - 1) = h \/ InSome(L, S, P(k - 1))
  <2>1. k - 1 = 0 \/ k - 1 \in 1 .. N
    BY <1>6, <1>1
  <2>2. CASE k - 1 = 0
    BY <2>2, <1>1
  <2>3. CASE k - 1 \in 1 .. N
    <3>1. P(k - 1) = s[k - 1]
      BY <2>3, <1>1
    <3> HIDE DEF P
    <3> QED
      BY <2>3, <3>1 DEF InSome, Only
  <2> QED
    BY <2>1, <2>2, <2>3
<1>20. P(k + 1) = NULL \/ InSome(L, S, P(k + 1))
  <2>1. k + 1 \in 1 .. N \/ k + 1 = N + 1
    BY <1>6, <1>1
  <2>2. CASE k + 1 = N + 1
    BY <2>2, <1>13
  <2>3. CASE k + 1 \in 1 .. N
    <3>1. P(k + 1) = s[k + 1]
      BY <2>3, <1>1
    <3> HIDE DEF P
    <3> QED
      BY <2>3, <3>1 DEF InSome, Only
  <2> QED
    BY <2>1, <2>2, <2>3
<1> HIDE DEF s, t, N, P, T
<1>22. HRest(B, E, mem, r, L, S, X, F, F)
  <2>1. \A y \in HNode(B, E) : y \in S \/ InSome(L, S, y) \/ y \in X \/ r.next[y] = mem.next[y]
    <3> HIDE DEF S
    <3> QED
      BY <1>9, <1>12, <1>18, <1>19, <1>21
  <2>2. \A y \in E : InSome(L, S, y) \/ y \in X \/ r.pprev[y] = mem.pprev[y]
    <3>1. \A y \in E : y # NULL
      BY DEF HSets
    <3> HIDE DEF S
    <3> QED
      BY <3>1, <1>9, <1>12, <1>20, <1>21
  <2> QED
    BY <2>1, <2>2 DEF HRest
<1>23. HLeft(B, E, r, L, M, S, X, F)
  <2>1. \A y \in E : InSome(L, S, y) => y \notin F
    <3>1. \A y \in E : InSome(L, S, y) => InSome(L, B, y)
      BY <1>18 DEF InSome
    <3> QED
      BY <3>1 DEF Strands
  <2>2. Alone(r, F, n)
    BY <2>1, <1>8, <1>9, <1>21 DEF Alone
  <2> HIDE DEF S
  <2> QED
    BY <2>1, <2>2, <1>15 DEF HLeft
<1> HIDE DEF X
<1> QED
  BY <1>17, <1>18, <1>22, <1>23, SomeStrands
(* Storing a bucket changes that bucket.                                   *)
LEMMA HSetList ==
  ASSUME NEW B, NEW E, NEW L \in [B -> Seq(E)], NEW h \in B, NEW s \in Seq(E)
  PROVE  HChanged(B, E, L, [L EXCEPT ![h] = s], Only(h)) /\ [L EXCEPT ![h] = s][h] = s
  BY DEF HChanged, Only

(* The links of the node at place k.                                       *)
LEMMA HPlaceLinks ==
  ASSUME NEW B, NEW E, HSets(B, E), NEW mem, NEW L, NEW F, Strands(B, E, mem, L, F),
         NEW h \in B, NEW k \in 1 .. Len(L[h])
  PROVE  /\ L[h][k] = HAt(h, L[h], k) /\ k - 1 \in 0 .. Len(L[h])
              /\ k \in 0 .. Len(L[h])
         /\ mem.next[HAt(h, L[h], k - 1)] = L[h][k]
         /\ mem.pprev[L[h][k]] = HAt(h, L[h], k - 1)
         /\ HAt(h, L[h], k - 1) \in HNode(B, E) /\ HAt(h, L[h], k - 1) # NULL
         /\ L[h][k] \in E
<1> DEFINE s == L[h]
<1>1. Strands(B, E, mem, L, F) /\ Strand(mem, h, s)
  BY DEF Strands
<1>2. /\ Len(s) \in Nat
      /\ \A i \in 0 .. Len(s) : HAt(h, s, i) \in HNode(B, E) /\ HAt(h, s, i) # NULL
      /\ \A i \in 1 .. Len(s) : HAt(h, s, i) \in E /\ HAt(h, s, i) = s[i]
  BY <1>1, HPlaces
<1>3. k \in 1 .. Len(s)
  OBVIOUS
<1> HIDE DEF s
<1> DEFINE j == k - 1
<1>4. j \in 0 .. Len(s) /\ k \in 0 .. Len(s) /\ j + 1 = k
  BY <1>2, <1>3
<1> HIDE DEF j
<1>5. mem.next[HAt(h, s, j)] = HAt(h, s, j + 1)
  BY <1>1, <1>4 DEF Strand
<1>6. mem.pprev[HAt(h, s, k)] = HAt(h, s, j)
  BY <1>1, <1>3 DEF Strand, j
<1> QED
  BY <1>2, <1>3, <1>4, <1>5, <1>6 DEF s, j

(* A sequence without repetitions is not longer than its set is large.     *)
LEMMA DistinctLength ==
  ASSUME NEW X, IsFiniteSet(X), NEW s \in Seq(X), \A i, j \in 1 .. Len(s) : s[i] = s[j] => i = j
  PROVE  Len(s) <= Cardinality(X)
<1> DEFINE n == Len(s)
           I == 1 .. n
<1>1. n \in Nat /\ s \in [I -> X]
  OBVIOUS
<1>2. \A i, j \in I : s[i] = s[j] => i = j
  OBVIOUS
<1> HIDE DEF n
<1>4. s \in Injection(I, X)
  BY <1>1, <1>2 DEF Injection, IsInjective
<1>6. Cardinality(I) <= Cardinality(X)
  <2> HIDE DEF I
  <2> QED
    BY <1>4, FS_Injection
<1>7. Cardinality(1 .. n) = IF 1 > n THEN 0 ELSE n - 1 + 1
  <2>1. 1 \in Int /\ n \in Int
    BY <1>1
  <2> QED
    BY <2>1, FS_Interval
<1>8. Cardinality(I) = n
  BY <1>1, <1>7
<1> QED
  BY <1>6, <1>8 DEF n

(* hlist_for_each visits the bucket.                                       *)
LEMMA HWalk ==
  ASSUME NEW B, NEW E, HSets(B, E), NEW mem, NEW L, NEW F, Strands(B, E, mem, L, F), NEW h \in B
  PROVE  /\ hlist_for_each(mem, h) = L[h]
         /\ mem.next[h] = NULL <=> L[h] = <<>>
<1> DEFINE s == L[h]
           N == Len(s)
           P(i) == HAt(h, s, i)
           link == mem.next
           from == link[h]
<1>1. Strands(B, E, mem, L, F) /\ Strand(mem, h, s) /\ mem \in HMem(B, E) /\ h \in HNode(B, E)
  BY DEF Strands, HNode
<1>2. /\ s \in Seq(E) /\ N \in Nat
      /\ \A i \in 1 .. N : P(i) \in E /\ P(i) = s[i]
      /\ P(0) = h /\ P(N + 1) = NULL
  BY <1>1, HPlaces
<1>3. \A i, j \in 1 .. N : s[i] = s[j] => i = j
  BY DEF Strands, Apart
<1>4. \A i \in 0 .. N : link[P(i)] = P(i + 1)
  BY <1>1 DEF Strand
<1>5. IsFiniteSet(HNode(B, E))
  BY FS_Union DEF HSets, HNode
<1>6. DOMAIN link = HNode(B, E)
  BY <1>1 DEF HMem
<1>7. N <= Cardinality(HNode(B, E))
  <2>1. s \in Seq(HNode(B, E))
    BY <1>2 DEF HNode
  <2> HIDE DEF s
  <2> QED
    BY <1>3, <1>5, <2>1, DistinctLength DEF N
<1>8. from = IF N = 0 THEN NULL ELSE s[1]
  <2> HIDE DEF P, s, N, link
  <2>1. link[P(0)] = P(0 + 1)
    BY <1>2, <1>4
  <2>2. N = 0 \/ 1 \in 1 .. N
    BY <1>2
  <2>3. CASE N = 0
    BY <2>1, <2>3, <1>2
  <2>4. CASE 1 \in 1 .. N
    <3>1. N # 0
      BY <2>4
    <3> QED
      BY <2>1, <2>4, <3>1, <1>2
  <2> QED
    BY <2>2, <2>3, <2>4
<1>9. \A i \in 1 .. N : s[i] \in DOMAIN link /\ s[i] # NULL
                          /\ link[s[i]] = IF i = N THEN NULL ELSE s[i + 1]
  <2> HIDE DEF P, s, N, link
  <2> TAKE i \in 1 .. N
  <2>1. s[i] = P(i) /\ P(i) \in E /\ i \in 0 .. N
    BY <1>2
  <2>2. link[s[i]] = P(i + 1)
    BY <2>1, <1>4
  <2>3. CASE i = N
    BY <2>1, <2>2, <2>3, <1>2, <1>6 DEF HNode, HSets
  <2>4. CASE i # N
    <3>1. i + 1 \in 1 .. N
      BY <2>4, <1>2
    <3>2. P(i + 1) = s[i + 1]
      BY <3>1, <1>2
    <3> QED
      BY <2>1, <2>2, <2>4, <3>2, <1>6 DEF HNode, HSets
  <2> QED
    BY <2>3, <2>4
<1>10. s # <<>> <=> N # 0
  BY <1>2
<1>13. N # 0 => s[1] # NULL
  <2>1. N # 0 => 1 \in 1 .. N
    BY <1>2
  <2> HIDE DEF s, N, link
  <2> QED
    BY <2>1, <1>9
<1> HIDE DEF link, from
<1>11. Visit(link, from, NULL) = s
  <2>1. Chain(link, from, NULL, s)
    <3>1. IsFiniteSet(DOMAIN link) /\ Len(s) <= Cardinality(DOMAIN link)
      BY <1>5, <1>6, <1>7
    <3> QED
      BY <3>1, <1>8, <1>9 DEF Chain, N
  <2>2. s \in Seq(E)
    BY <1>2
  <2> HIDE DEF s
  <2>3. Visits(link, from, NULL, s)
    BY <2>1, <2>2, VisitWalk
  <2> QED
    BY <2>3 DEF Visits
<1>12. from = NULL <=> s = <<>>
  BY <1>8, <1>10, <1>13
<1> QED
  BY <1>11, <1>12 DEF hlist_for_each, link, from, s

-----------------------------------------------------------------------------
(* Lists of one memory *)

OffAll(H, L, x) == \A h \in H : x \notin ToSet(L[h])

Listed(N, H, E, mem, L) ==
  /\ IsFiniteSet(N) /\ NULL \notin N
  /\ H \subseteq N /\ E \subseteq N /\ H \cap E = {}
  /\ mem \in Mem(N) /\ L \in [H -> Seq(E)]
  /\ \A h \in H : Ring(N, h, L[h]) /\ Circle(mem, h, L[h])
  /\ \A g, h \in H : g # h => ToSet(L[g]) \cap ToSet(L[h]) = {}
  /\ \A x \in E : OffAll(H, L, x) => mem.next[x] = x /\ mem.prev[x] = x
  /\ \A y \in N \ (H \cup E) : mem.next[y] = NULL

(* The lists, walked.                                                      *)
LEMMA ListedFacts ==
  ASSUME NEW N, NEW H, NEW E, NEW mem, NEW L, Listed(N, H, E, mem, L), NEW h \in H
  PROVE  /\ L[h] \in Seq(E) /\ L[h] \in Seq(N) /\ ToSet(L[h]) \subseteq E
         /\ Len(L[h]) \in Nat /\ DOMAIN L[h] = 1 .. Len(L[h])
         /\ Nodes(h, L[h]) = {h} \cup ToSet(L[h])
         /\ h \notin E
         /\ IsInjective(L[h])
         /\ mem.next[h] \in N
         /\ list_for_each(mem, h) = L[h]
         /\ list_empty(mem, h) <=> L[h] = <<>>
         /\ L[h] # <<>> => mem.next[h] = Head(L[h])
<1> DEFINE s == L[h]
<1>1. s \in Seq(E) /\ Ring(N, h, s) /\ Circle(mem, h, s) /\ IsFiniteSet(N) /\ mem \in Mem(N)
        /\ h \notin E /\ h \in N
  BY DEF Listed
<1>2. s \in Seq(N)
  BY <1>1 DEF Ring
<1>3. ToSet(s) \subseteq E /\ Len(s) \in Nat /\ DOMAIN s = 1 .. Len(s)
  BY <1>1 DEF ToSet
<1>4. Nodes(h, s) = {h} \cup ToSet(s)
  BY <1>2, NodesSet
<1> HIDE DEF s
<1>5. list_for_each(mem, h) = s
  BY <1>1, CircleWalks
<1>6. /\ mem.next[h] = IF Len(s) = 0 THEN h ELSE s[1]
      /\ \A i \in 1 .. Len(s) : s[i] \in N /\ s[i] # h
      /\ \A i, j \in 1 .. Len(s) : s[i] = s[j] => i = j
  BY <1>1, CircleLinks
<1>7. IsInjective(s)
  BY <1>3, <1>6 DEF IsInjective
<1>8. s = <<>> <=> Len(s) = 0
  BY <1>1
<1>9. Len(s) # 0 => 1 \in 1 .. Len(s)
  BY <1>3
<1>10. list_empty(mem, h) <=> s = <<>>
  BY <1>6, <1>8, <1>9 DEF list_empty
<1>11. s # <<>> => mem.next[h] = Head(s)
  BY <1>1, <1>6, <1>8
<1>12. mem.next[h] \in N
  BY <1>1, <1>6, <1>9
<1> QED
  BY <1>1, <1>2, <1>3, <1>4, <1>5, <1>7, <1>10, <1>11, <1>12 DEF s

(* The same of all the lists.                                              *)
LEMMA ListedEach ==
  ASSUME NEW N, NEW H, NEW E, NEW mem, NEW L, Listed(N, H, E, mem, L)
  PROVE  \A g \in H : /\ L[g] \in Seq(E) /\ ToSet(L[g]) \subseteq E
                       /\ Nodes(g, L[g]) = {g} \cup ToSet(L[g])
                       /\ Len(L[g]) \in Nat /\ DOMAIN L[g] = 1 .. Len(L[g])
                       /\ IsInjective(L[g])
  BY ListedFacts

(* The heads are known by their links, and the lists by theirs.            *)
LEMMA ListedHeads ==
  ASSUME NEW N, NEW H, NEW E, NEW mem, NEW L, Listed(N, H, E, mem, L)
  PROVE  /\ \A y \in N : mem.next[y] # NULL <=> y \in H \cup E
         /\ L = [h \in H |-> list_for_each(mem, h)]
<1>1. \A h \in H : mem.next[h] \in N /\ list_for_each(mem, h) = L[h]
  BY ListedFacts
<1>2. NULL \notin N /\ mem \in Mem(N) /\ E \subseteq N
  BY DEF Listed
<1>3. ASSUME NEW x \in E PROVE mem.next[x] # NULL
  <2>1. CASE OffAll(H, L, x)
    BY <2>1, <1>2 DEF Listed
  <2>2. CASE ~ OffAll(H, L, x)
    <3>1. PICK h \in H : x \in ToSet(L[h])
      BY <2>2 DEF OffAll
    <3> DEFINE s == L[h]
    <3>2. Ring(N, h, s) /\ Circle(mem, h, s) /\ h \in N
      BY DEF Listed
    <3>3. DOMAIN s = 1 .. Len(s) /\ Len(s) \in Nat
      BY ListedFacts
    <3> HIDE DEF s
    <3>4. \A i \in 1 .. Len(s) : /\ s[i] \in N
                                 /\ mem.next[s[i]] = IF i = Len(s) THEN h ELSE s[i + 1]
      BY <1>2, <3>2, CircleLinks
    <3>5. PICK i \in 1 .. Len(s) : s[i] = x
      BY <3>1, <3>3 DEF s, ToSet
    <3>6. i # Len(s) => i + 1 \in 1 .. Len(s)
      <4> DEFINE n == Len(s)
      <4>1. n \in Nat /\ i \in 1 .. n
        BY <3>3
      <4> HIDE DEF n
      <4>2. i # n => i + 1 \in 1 .. n
        BY <4>1
      <4> QED
        BY <4>2 DEF n
    <3>7. mem.next[x] \in N
      BY <3>2, <3>4, <3>5, <3>6
    <3> QED
      BY <3>7, <1>2
  <2> QED
    BY <2>1, <2>2
<1>4. \A y \in N \ (H \cup E) : mem.next[y] = NULL
  BY DEF Listed
<1>5. L = [h \in H |-> list_for_each(mem, h)]
  BY <1>1 DEF Listed
<1> QED
  BY <1>1, <1>2, <1>3, <1>4, <1>5

(* The memory r keeps every link of mem but those of the list h and of x.  *)
Touches(N, mem, r, h, s, X) == Same(mem, r, N, {h} \cup ToSet(s) \cup X)

(* One list changes; the entries X become entries and may join it.         *)
LEMMA Relist ==
  ASSUME NEW N, NEW H, NEW E, NEW mem, NEW L, Listed(N, H, E, mem, L), NEW h \in H,
         NEW X, X \subseteq N \ H, \A x \in X : OffAll(H, L, x),
         NEW r \in Mem(N), NEW t \in Seq(E \cup X), Ring(N, h, t), Circle(r, h, t),
         ToSet(t) \subseteq ToSet(L[h]) \cup X,
         Touches(N, mem, r, h, L[h], X),
         \A x \in ToSet(L[h]) \cup X : x \notin ToSet(t) => r.next[x] = x /\ r.prev[x] = x,
         NEW M, M = [L EXCEPT ![h] = t]
  PROVE  Listed(N, H, E \cup X, r, M)
<1>1. /\ IsFiniteSet(N) /\ NULL \notin N
      /\ H \subseteq N /\ E \subseteq N /\ H \cap E = {}
      /\ mem \in Mem(N) /\ L \in [H -> Seq(E)]
      /\ \A g \in H : Ring(N, g, L[g]) /\ Circle(mem, g, L[g])
      /\ \A g, k \in H : g # k => ToSet(L[g]) \cap ToSet(L[k]) = {}
      /\ \A x \in E : OffAll(H, L, x) => mem.next[x] = x /\ mem.prev[x] = x
      /\ \A y \in N \ (H \cup E) : mem.next[y] = NULL
  BY DEF Listed
<1>2. \A g \in H : L[g] \in Seq(E) /\ ToSet(L[g]) \subseteq E /\ Nodes(g, L[g]) = {g} \cup ToSet(L[g])
                     /\ Len(L[g]) \in Nat
  BY ListedEach
<1>3. M[h] = t /\ \A g \in H : g # h => M[g] = L[g]
  BY <1>1
<1>4. \A g \in H : L[g] \in Seq(E \cup X)
  <2>1. \A s : s \in Seq(E) => s \in Seq(E \cup X)
    OBVIOUS
  <2> QED
    BY <2>1, <1>2
<1>5. M \in [H -> Seq(E \cup X)]
  BY <1>1, <1>3, <1>4
<1>6. \A g \in H : g # h => ToSet(L[g]) \cap (ToSet(L[h]) \cup X) = {}
  BY <1>1 DEF OffAll
<1>7. ASSUME NEW g \in H
      PROVE  Ring(N, g, M[g]) /\ Circle(r, g, M[g])
  <2>1. CASE g = h
    BY <2>1, <1>3
  <2>2. CASE g # h
    <3> DEFINE s == L[g]
    <3>1. M[g] = s /\ Ring(N, g, s) /\ Circle(mem, g, s) /\ Len(s) \in Nat
      BY <2>2, <1>1, <1>2, <1>3
    <3>2. Nodes(g, s) \cap ({h} \cup ToSet(L[h]) \cup X) = {}
      BY <2>2, <1>1, <1>2, <1>6
    <3> HIDE DEF s
    <3>3. \A i \in 0 .. Len(s) + 1 : At(g, s, i) \in Nodes(g, s) /\ At(g, s, i) \in N
      BY <3>1, RingFacts
    <3>4. Circle(r, g, s)
      <4> SUFFICES ASSUME NEW i \in 0 .. Len(s)
                   PROVE  r.next[At(g, s, i)] = At(g, s, i + 1) /\ r.prev[At(g, s, i + 1)] = At(g, s, i)
        BY DEF Circle
      <4> DEFINE p == At(g, s, i)
                 q == At(g, s, i + 1)
      <4>1. i \in 0 .. Len(s) + 1 /\ i + 1 \in 0 .. Len(s) + 1
        BY <3>1
      <4>2. p \in N \ ({h} \cup ToSet(L[h]) \cup X) /\ q \in N \ ({h} \cup ToSet(L[h]) \cup X)
        BY <4>1, <3>2, <3>3
      <4>3. mem.next[p] = q /\ mem.prev[q] = p
        BY <3>1 DEF Circle
      <4> HIDE DEF p, q
      <4>4. r.next[p] = q /\ r.prev[q] = p
        BY <4>2, <4>3 DEF Touches, Same
      <4> QED
        BY <4>4 DEF p, q
    <3> QED
      BY <3>1, <3>4
  <2> QED
    BY <2>1, <2>2
<1>8. \A g, k \in H : g # k => ToSet(M[g]) \cap ToSet(M[k]) = {}
  BY <1>1, <1>3, <1>6
<1>9. ASSUME NEW x \in E \cup X, OffAll(H, M, x)
      PROVE  r.next[x] = x /\ r.prev[x] = x
  <2>1. x \notin ToSet(t)
    BY <1>3, <1>9 DEF OffAll
  <2>2. CASE x \in ToSet(L[h]) \cup X
    BY <2>1, <2>2
  <2>3. CASE x \notin ToSet(L[h]) \cup X
    <3>1. OffAll(H, L, x) /\ x \in E
      BY <1>3, <1>9, <2>3 DEF OffAll
    <3>2. x \in N \ ({h} \cup ToSet(L[h]) \cup X)
      BY <2>3, <3>1, <1>1
    <3> QED
      BY <3>1, <3>2, <1>1 DEF Touches, Same
  <2> QED
    BY <2>2, <2>3
<1>10. ASSUME NEW y \in N \ (H \cup (E \cup X))
       PROVE  r.next[y] = NULL
  <2>1. y \in N \ ({h} \cup ToSet(L[h]) \cup X)
    BY <1>2, <1>10
  <2> QED
    BY <2>1, <1>1, <1>10 DEF Touches, Same
<1> QED
  BY <1>1, <1>5, <1>7, <1>8, <1>9, <1>10 DEF Listed

(* What list_delete_safe writes.                                           *)
LEMMA SafeLinks ==
  ASSUME NEW N, NEW mem \in Mem(N), NEW x \in N, mem.next[x] \in N, mem.prev[x] \in N
  PROVE  LET r == list_delete_safe(mem, x)
             d == __list_del_entry(mem, x)
         IN  /\ r \in Mem(N) /\ d \in Mem(N)
             /\ \A y \in N : /\ r.next[y] = IF y = x THEN x ELSE d.next[y]
                             /\ r.prev[y] = IF y = x THEN x ELSE d.prev[y]
             /\ \A y \in N : /\ d.next[y] = IF y = mem.prev[x] THEN mem.next[x] ELSE mem.next[y]
                             /\ d.prev[y] = IF y = mem.next[x] THEN mem.prev[x] ELSE mem.prev[y]
<1> DEFINE d == __list_del_entry(mem, x)
           e == [d EXCEPT !.next[x] = NULL, !.prev[x] = NULL]
           r == list_delete_safe(mem, x)
<1>1. /\ d \in Mem(N)
      /\ \A y \in N : /\ d.next[y] = IF y = mem.prev[x] THEN mem.next[x] ELSE mem.next[y]
                      /\ d.prev[y] = IF y = mem.next[x] THEN mem.prev[x] ELSE mem.prev[y]
  <2> DEFINE p == mem.prev[x]
             q == mem.next[x]
             f == __list_del(mem, p, q)
  <2>1. d = f
    BY DEF __list_del_entry
  <2>2. p \in N /\ q \in N
    OBVIOUS
  <2> HIDE DEF d, p, q
  <2>3. /\ f \in Mem(N)
        /\ \A y \in N : /\ f.next[y] = IF y = p THEN q ELSE mem.next[y]
                        /\ f.prev[y] = IF y = q THEN p ELSE mem.prev[y]
    BY <2>2, JoinAround
  <2> QED
    BY <2>1, <2>3 DEF p, q
<1>2. r = INIT_LIST_HEAD(e, x)
  BY DEF list_delete_safe, list_del
<1> HIDE DEF d, r
<1>3. e \in Mem(N) /\ \A y \in N : /\ e.next[y] = IF y = x THEN NULL ELSE d.next[y]
                                   /\ e.prev[y] = IF y = x THEN NULL ELSE d.prev[y]
  BY <1>1 DEF Mem
<1> HIDE DEF e
<1>4. /\ r \in Mem(N)
      /\ \A y \in N : /\ r.next[y] = IF y = x THEN x ELSE e.next[y]
                      /\ r.prev[y] = IF y = x THEN x ELSE e.prev[y]
  <2>1. e \in Mem(N) /\ x \in N
    BY <1>3
  <2> DEFINE f == INIT_LIST_HEAD(e, x)
  <2>2. /\ f \in Mem(N)
        /\ \A y \in N : /\ f.next[y] = IF y = x THEN x ELSE e.next[y]
                        /\ f.prev[y] = IF y = x THEN x ELSE e.prev[y]
    BY <2>1, SelfLink
  <2> QED
    BY <2>2, <1>2
<1> QED
  BY <1>1, <1>3, <1>4 DEF d, r

(* Memories with the same links are the same.                              *)
LEMMA SameMemory ==
  ASSUME NEW N, NEW a \in Mem(N), NEW b \in Mem(N),
         \A y \in N : a.next[y] = b.next[y] /\ a.prev[y] = b.prev[y]
  PROVE  a = b
<1>1. a.next = b.next
  BY DEF Mem
<1>2. a.prev = b.prev
  BY DEF Mem
<1> QED
  BY <1>1, <1>2 DEF Mem

(* Where an entry is.                                                      *)
LEMMA ListedPlace ==
  ASSUME NEW N, NEW H, NEW E, NEW mem, NEW L, Listed(N, H, E, mem, L), NEW h \in H,
         NEW x \in ToSet(L[h])
  PROVE  /\ \E k \in 1 .. Len(L[h]) : L[h][k] = x
         /\ \A g \in H : g # h => x \notin ToSet(L[g])
         /\ x \in E
<1>1. \E k \in 1 .. Len(L[h]) : L[h][k] = x
  BY ListedFacts DEF ToSet
<1>2. x \in E
  BY ListedFacts
<1> QED
  BY <1>1, <1>2 DEF Listed

(* list_delete_safe takes an entry out of the list it is in, if any.       *)
LEMMA ListedDelete ==
  ASSUME NEW N, NEW H, NEW E, NEW mem, NEW L, Listed(N, H, E, mem, L), NEW x \in E
  PROVE  Listed(N, H, E, list_delete_safe(mem, x), [g \in H |-> RemoveFirst(L[g], x)])
<1> DEFINE r == list_delete_safe(mem, x)
           d == __list_del_entry(mem, x)
           M == [g \in H |-> RemoveFirst(L[g], x)]
<1>1. mem \in Mem(N) /\ x \in N /\ H \subseteq N /\ L \in [H -> Seq(E)] /\ H \cap E = {}
  BY DEF Listed
<1>2. \A g \in H : /\ L[g] \in Seq(E) /\ ToSet(L[g]) \subseteq E
                   /\ Nodes(g, L[g]) = {g} \cup ToSet(L[g])
                   /\ Len(L[g]) \in Nat /\ DOMAIN L[g] = 1 .. Len(L[g])
                   /\ IsInjective(L[g])
  BY ListedEach
<1>3. \A g \in H : x \notin ToSet(L[g]) => RemoveFirst(L[g], x) = L[g]
  BY <1>2, RemoveFirstNone
<1>4. CASE OffAll(H, L, x)
  <2>1. mem.next[x] = x /\ mem.prev[x] = x
    BY <1>4 DEF Listed
  <2>2. /\ r \in Mem(N)
        /\ \A y \in N : /\ r.next[y] = IF y = x THEN x ELSE d.next[y]
                        /\ r.prev[y] = IF y = x THEN x ELSE d.prev[y]
        /\ \A y \in N : /\ d.next[y] = IF y = mem.prev[x] THEN mem.next[x] ELSE mem.next[y]
                        /\ d.prev[y] = IF y = mem.next[x] THEN mem.prev[x] ELSE mem.prev[y]
    BY <1>1, <2>1, SafeLinks
  <2> HIDE DEF r, d, M
  <2>3. \A y \in N : r.next[y] = mem.next[y] /\ r.prev[y] = mem.prev[y]
    BY <2>1, <2>2
  <2>4. r = mem
    BY <1>1, <2>2, <2>3, SameMemory
  <2>5. M = L
    BY <1>1, <1>3, <1>4 DEF OffAll, M
  <2> QED
    BY <2>4, <2>5 DEF r, M
<1>5. CASE ~ OffAll(H, L, x)
  <2>1. PICK h \in H : x \in ToSet(L[h])
    BY <1>5 DEF OffAll
  <2> DEFINE s == L[h]
  <2>2. PICK k \in 1 .. Len(s) : s[k] = x
    BY <2>1, ListedPlace
  <2>3. \A g \in H : g # h => x \notin ToSet(L[g])
    BY <2>1, ListedPlace
  <2> DEFINE t == RemoveAt(s, k)
  <2>4. Ring(N, h, s) /\ Circle(mem, h, s) /\ s \in Seq(E) /\ h \in N /\ h \notin E
          /\ Nodes(h, s) = {h} \cup ToSet(s) /\ IsInjective(s) /\ DOMAIN s = 1 .. Len(s)
          /\ ToSet(s) \subseteq E /\ x \in ToSet(s) /\ Len(s) \in Nat
    BY <1>1, <1>2, <2>1 DEF Listed
  <2> HIDE DEF s
  <2>20. Ring(N, h, s) /\ Circle(mem, h, s) /\ mem \in Mem(N) /\ k \in 1 .. Len(s)
    BY <1>1, <2>2, <2>4
  <2>5. /\ d \in Mem(N) /\ Ring(N, h, t) /\ Circle(d, h, t)
        /\ Nodes(h, t) = Nodes(h, s) \ {x}
        /\ Same(mem, d, N, Nodes(h, s))
    <3> DEFINE f == __list_del_entry(mem, s[k])
    <3>1. /\ f \in Mem(N) /\ Ring(N, h, t) /\ Circle(f, h, t)
          /\ Nodes(h, t) = Nodes(h, s) \ {s[k]}
          /\ Same(mem, f, N, Nodes(h, s))
      BY <2>20, RemoveCircle
    <3>2. s[k] = x
      BY <2>2
    <3> HIDE DEF t
    <3> QED
      BY <3>1, <3>2
  <2>6. RemoveFirst(s, x) = t
    <3>1. \A i, j \in 1 .. Len(s) : s[i] = s[j] => i = j
      BY <2>4 DEF IsInjective
    <3> QED
      BY <2>2, <2>4, <3>1, RemoveFirstAt
  <2>7. t \in Seq(E)
    BY SMTT(30), <2>4, <2>2, RemoveAtIndex
  <2>8. mem.next[x] \in N /\ mem.prev[x] \in N
    <3>1. \A i \in 1 .. Len(s) :
              /\ s[i] \in N /\ s[i] # h
              /\ mem.next[s[i]] = IF i = Len(s) THEN h ELSE s[i + 1]
              /\ mem.prev[s[i]] = IF i = 1 THEN h ELSE s[i - 1]
      BY <2>20, CircleLinks
    <3> DEFINE n == Len(s)
    <3>2. n \in Nat /\ k \in 1 .. n
      BY <2>2, <2>4
    <3> HIDE DEF n
    <3>3. (k # n => k + 1 \in 1 .. n) /\ (k # 1 => k - 1 \in 1 .. n)
      BY <3>2
    <3> QED
      BY <3>1, <3>2, <3>3, <2>2, <2>4 DEF n
  <2>9. /\ r \in Mem(N)
        /\ \A y \in N : /\ r.next[y] = IF y = x THEN x ELSE d.next[y]
                        /\ r.prev[y] = IF y = x THEN x ELSE d.prev[y]
    BY <1>1, <2>8, SafeLinks
  <2>10. t \in Seq(N)
    BY <2>5 DEF Ring
  <2>11. Nodes(h, t) = {h} \cup ToSet(t) /\ ToSet(t) = ToSet(s) \ {x} /\ h # x
    <3>1. Nodes(h, t) = {h} \cup ToSet(t)
      BY <2>10, NodesSet
    <3>2. IsInjective(s) => ToSet(RemoveAt(s, k)) = ToSet(s) \ {s[k]}
      BY <2>2, <2>4, RemoveAtQueue
    <3> QED
      BY <3>1, <3>2, <2>2, <2>4
  <2> HIDE DEF r, d, t, M
  <2>12. Circle(r, h, t)
    <3>1. \A i \in 0 .. Len(t) + 1 : At(h, t, i) \in Nodes(h, t) /\ At(h, t, i) \in N
      BY <2>5, RingFacts
    <3>2. Len(t) \in Nat
      BY <2>10
    <3> SUFFICES ASSUME NEW i \in 0 .. Len(t)
                 PROVE  r.next[At(h, t, i)] = At(h, t, i + 1) /\ r.prev[At(h, t, i + 1)] = At(h, t, i)
      BY DEF Circle
    <3> DEFINE p == At(h, t, i)
               q == At(h, t, i + 1)
    <3>3. i \in 0 .. Len(t) + 1 /\ i + 1 \in 0 .. Len(t) + 1
      BY <3>2
    <3>4. p \in N /\ q \in N /\ p # x /\ q # x
      BY <3>1, <3>3, <2>5
    <3>5. d.next[p] = q /\ d.prev[q] = p
      BY <2>5 DEF Circle
    <3> HIDE DEF p, q
    <3>6. r.next[p] = q /\ r.prev[q] = p
      BY <3>4, <3>5, <2>9
    <3> QED
      BY <3>6 DEF p, q
  <2> DEFINE X == {}
  <2>13. Touches(N, mem, r, h, s, X)
    BY <2>4, <2>5, <2>9, <2>11 DEF Touches, Same
  <2>14. \A y \in ToSet(s) \cup X : y \notin ToSet(t) => r.next[y] = y /\ r.prev[y] = y
    BY <2>9, <2>11, <1>1
  <2>15. M = [L EXCEPT ![h] = t]
    <3>1. M[h] = t
      BY <2>6 DEF M, s
    <3>2. \A g \in H : g # h => M[g] = L[g]
      BY <1>3, <2>3 DEF M
    <3>3. M = [g \in H |-> IF g = h THEN t ELSE L[g]]
      BY <3>1, <3>2 DEF M
    <3> QED
      BY <3>3, <1>1
  <2>16. ToSet(t) \subseteq ToSet(s) \cup X /\ X \subseteq N \ H /\ \A y \in X : OffAll(H, L, y)
    BY <2>11
  <2>19. E \cup X = E
    OBVIOUS
  <2>17. t \in Seq(E \cup X)
    BY <2>7, <2>19
  <2> HIDE DEF X
  <2>18. Listed(N, H, E \cup X, r, M)
    <3>1. /\ Touches(N, mem, r, h, L[h], X) /\ ToSet(t) \subseteq ToSet(L[h]) \cup X
          /\ \A y \in ToSet(L[h]) \cup X : y \notin ToSet(t) => r.next[y] = y /\ r.prev[y] = y
      BY <2>13, <2>14, <2>16 DEF s
    <3> QED
      BY <3>1, <2>5, <2>9, <2>12, <2>15, <2>16, <2>17, Relist
  <2> QED
    BY <2>18, <2>19 DEF r, M
<1> QED
  BY <1>4, <1>5

(* An entry in no list, or a node that becomes an entry, joins a list.     *)
LEMMA ListedInsert ==
  ASSUME NEW N, NEW H, NEW E, NEW mem, NEW L, Listed(N, H, E, mem, L), NEW h \in H,
         NEW x \in N \ H, OffAll(H, L, x), NEW k \in 0 .. Len(L[h]),
         NEW r, r = __list_add(mem, x, At(h, L[h], k), At(h, L[h], k + 1))
  PROVE  Listed(N, H, E \cup {x}, r, [L EXCEPT ![h] = InsertAt(L[h], k + 1, x)])
<1> DEFINE s == L[h]
           t == InsertAt(s, k + 1, x)
           X == {x}
           M == [L EXCEPT ![h] = t]
<1>1. /\ mem \in Mem(N) /\ L \in [H -> Seq(E)] /\ H \cap E = {} /\ H \subseteq N /\ E \subseteq N
      /\ Ring(N, h, s) /\ Circle(mem, h, s)
  BY DEF Listed
<1>2. s \in Seq(E) /\ ToSet(s) \subseteq E /\ Nodes(h, s) = {h} \cup ToSet(s)
  BY ListedFacts
<1>3. x \notin Nodes(h, s) /\ x \in N
  BY <1>2 DEF OffAll
<1> HIDE DEF s, X
<1>4. /\ r \in Mem(N) /\ Ring(N, h, t) /\ Circle(r, h, t)
      /\ Nodes(h, t) = Nodes(h, s) \cup {x}
      /\ Same(mem, r, N, Nodes(h, s) \cup {x})
  <2> DEFINE f == __list_add(mem, x, At(h, s, k), At(h, s, k + 1))
  <2>1. /\ x \in N \ Nodes(h, s) /\ k \in 0 .. Len(s) /\ Ring(N, h, s) /\ Circle(mem, h, s)
        /\ mem \in Mem(N)
    BY <1>1, <1>3 DEF s
  <2>2. /\ f \in Mem(N) /\ Ring(N, h, t) /\ Circle(f, h, t)
        /\ Nodes(h, t) = Nodes(h, s) \cup {x}
        /\ Same(mem, f, N, Nodes(h, s) \cup {x})
    BY <2>1, AddCircle
  <2>3. f = r
    BY DEF s
  <2> QED
    BY <2>2, <2>3
<1>5. t \in Seq(E \cup X)
  <2>1. s \in Seq(E \cup X) /\ x \in E \cup X
    BY <1>2 DEF X
  <2>2. k \in 0 .. Len(s)
    BY DEF s
  <2> HIDE DEF t
  <2> DEFINE Y == E \cup X
  <2>3. s \in Seq(Y) /\ x \in Y
    BY <2>1
  <2> HIDE DEF Y
  <2>4. InsertAt(s, k + 1, x) \in Seq(Y)
    BY <2>2, <2>3, InsertBehind
  <2> QED
    BY <2>4 DEF t, Y
<1> HIDE DEF t
<1>6. Nodes(h, t) = {h} \cup ToSet(t)
  BY <1>4, NodesSet DEF Ring
<1>7. ToSet(t) \subseteq E \cup X
  BY <1>5 DEF ToSet
<1>8. ToSet(t) = ToSet(s) \cup X
  BY <1>1, <1>2, <1>4, <1>6, <1>7 DEF X
<1>9. Touches(N, mem, r, h, L[h], X)
  BY <1>2, <1>4 DEF Touches, Same, X, s
<1>10. /\ X \subseteq N \ H /\ \A y \in X : OffAll(H, L, y)
       /\ ToSet(t) \subseteq ToSet(L[h]) \cup X
       /\ \A y \in ToSet(L[h]) \cup X : y \notin ToSet(t) => r.next[y] = y /\ r.prev[y] = y
  BY <1>8 DEF X, s
<1> HIDE DEF M
<1>11. M = [L EXCEPT ![h] = t]
  BY DEF M
<1>12. Listed(N, H, E \cup X, r, M)
  BY <1>4, <1>5, <1>9, <1>10, <1>11, Relist
<1> QED
  BY <1>12 DEF X, M, t, s

(* list_add of a node in no list.                                          *)
LEMMA ListedAdd ==
  ASSUME NEW N, NEW H, NEW E, NEW mem, NEW L, Listed(N, H, E, mem, L), NEW h \in H,
         NEW x \in N \ H, OffAll(H, L, x)
  PROVE  Listed(N, H, E \cup {x}, list_add(mem, x, h), [L EXCEPT ![h] = <<x>> \o L[h]])
<1> DEFINE s == L[h]
           k == 0
           r == list_add(mem, x, h)
           A == E \cup {x}
<1>1. mem \in Mem(N) /\ Ring(N, h, s) /\ Circle(mem, h, s)
  BY DEF Listed
<1>2. s \in Seq(E) /\ Len(s) \in Nat
  BY ListedFacts
<1>3. s \in Seq(A) /\ x \in A
  BY <1>2
<1>4. k \in 0 .. Len(L[h])
  BY <1>2
<1>5. At(h, s, k) = h /\ At(h, s, k + 1) = mem.next[h]
  <2>1. At(h, s, 0) = h
    BY <1>1, RingFacts
  <2>2. 0 \in 0 .. Len(s)
    BY <1>2
  <2>3. mem.next[At(h, s, 0)] = At(h, s, 0 + 1)
    BY <1>1, <2>2 DEF Circle
  <2> HIDE DEF s
  <2> QED
    BY <2>1, <2>3
<1>6. r = __list_add(mem, x, At(h, L[h], k), At(h, L[h], k + 1))
  BY <1>5 DEF list_add
<1> HIDE DEF k, r, A
<1>7. Listed(N, H, E \cup {x}, r, [L EXCEPT ![h] = InsertAt(L[h], k + 1, x)])
  BY <1>4, <1>6, ListedInsert
<1>8. <<x>> \o s = InsertAt(s, k + 1, x)
  <2>1. <<x>> \o s = InsertAt(s, 1, x)
    BY <1>3, PrependIndex
  <2>2. k + 1 = 1
    BY DEF k
  <2> QED
    BY <2>1, <2>2
<1> QED
  BY <1>7, <1>8 DEF r

(* list_add_tail of a node in no list.                                     *)
LEMMA ListedAddTail ==
  ASSUME NEW N, NEW H, NEW E, NEW mem, NEW L, Listed(N, H, E, mem, L), NEW h \in H,
         NEW x \in N \ H, OffAll(H, L, x)
  PROVE  Listed(N, H, E \cup {x}, list_add_tail(mem, x, h), [L EXCEPT ![h] = Append(L[h], x)])
<1> DEFINE s == L[h]
           k == Len(s)
           r == list_add_tail(mem, x, h)
           A == E \cup {x}
<1>1. mem \in Mem(N) /\ Ring(N, h, s) /\ Circle(mem, h, s)
  BY DEF Listed
<1>2. s \in Seq(E) /\ Len(s) \in Nat
  BY ListedFacts
<1>3. s \in Seq(A) /\ x \in A
  BY <1>2
<1>4. k \in 0 .. Len(L[h])
  BY <1>2
<1>5. At(h, s, k) = mem.prev[h] /\ At(h, s, k + 1) = h
  <2>1. At(h, s, Len(s) + 1) = h
    BY <1>1, RingFacts
  <2>2. mem.prev[At(h, s, k + 1)] = At(h, s, k)
    BY <1>1, <1>4 DEF Circle
  <2> HIDE DEF s
  <2> QED
    BY <2>1, <2>2
<1>6. r = __list_add(mem, x, At(h, L[h], k), At(h, L[h], k + 1))
  BY <1>5 DEF list_add_tail
<1> HIDE DEF k, r, A
<1>7. Listed(N, H, E \cup {x}, r, [L EXCEPT ![h] = InsertAt(L[h], k + 1, x)])
  BY <1>4, <1>6, ListedInsert
<1>8. Append(s, x) = InsertAt(s, k + 1, x)
  BY <1>3, AppendIndex DEF k
<1> QED
  BY <1>7, <1>8 DEF r

(* The list of no entries.                                                 *)
LEMMA EmptyRing ==
  ASSUME NEW N, NEW z \in N, NEW r, r.next[z] = z, r.prev[z] = z
  PROVE  Ring(N, z, <<>>) /\ Circle(r, z, <<>>)
<1> DEFINE s == <<>>
<1>1. s \in Seq(N) /\ Len(s) = 0
  OBVIOUS
<1>2. \A i \in Int : At(z, s, i) = z
  BY <1>1 DEF At
<1> HIDE DEF s
<1>3. Ring(N, z, s)
  BY <1>1 DEF Ring
<1>4. Circle(r, z, s)
  BY <1>1, <1>2 DEF Circle
<1> QED
  BY <1>3, <1>4 DEF s

(* The links that a node outside a list does not have.                     *)
LEMMA ListedKeep ==
  ASSUME NEW N, NEW H, NEW E, NEW mem, NEW L, Listed(N, H, E, mem, L), NEW g \in H,
         NEW z \in N, z # g, z \notin ToSet(L[g]), NEW r,
         \A y \in N : y # z => r.next[y] = mem.next[y] /\ r.prev[y] = mem.prev[y]
  PROVE  Circle(r, g, L[g])
<1> DEFINE s == L[g]
<1>1. Ring(N, g, s) /\ Circle(mem, g, s)
  BY DEF Listed
<1>2. Nodes(g, s) = {g} \cup ToSet(s)
  BY ListedFacts
<1>3. z \notin Nodes(g, s)
  BY <1>2
<1> HIDE DEF s
<1>4. Len(s) \in Nat /\ \A i \in 0 .. Len(s) + 1 : At(g, s, i) \in N /\ At(g, s, i) # z
  BY <1>1, <1>3, RingFacts
<1>5. Circle(r, g, s)
  <2> SUFFICES ASSUME NEW i \in 0 .. Len(s)
               PROVE  r.next[At(g, s, i)] = At(g, s, i + 1) /\ r.prev[At(g, s, i + 1)] = At(g, s, i)
    BY DEF Circle
  <2>1. i \in 0 .. Len(s) + 1 /\ i + 1 \in 0 .. Len(s) + 1
    BY <1>4
  <2>2. mem.next[At(g, s, i)] = At(g, s, i + 1) /\ mem.prev[At(g, s, i + 1)] = At(g, s, i)
    BY <1>1 DEF Circle
  <2> QED
    BY <2>1, <2>2, <1>4
<1> QED
  BY <1>5 DEF s

(* INIT_LIST_HEAD makes a node a head, or leaves an empty list alone.      *)
LEMMA ListedInit ==
  ASSUME NEW N, NEW H, NEW E, NEW mem, NEW L, Listed(N, H, E, mem, L),
         NEW z \in N \ E, z \in H => L[z] = <<>>
  PROVE  Listed(N, H \cup {z}, E, INIT_LIST_HEAD(mem, z),
                [g \in H \cup {z} |-> IF g = z THEN <<>> ELSE L[g]])
<1> DEFINE r == INIT_LIST_HEAD(mem, z)
           G == H \cup {z}
           M == [g \in G |-> IF g = z THEN <<>> ELSE L[g]]
<1>1. /\ IsFiniteSet(N) /\ NULL \notin N
      /\ H \subseteq N /\ E \subseteq N /\ H \cap E = {}
      /\ mem \in Mem(N) /\ L \in [H -> Seq(E)]
      /\ \A g, h \in H : g # h => ToSet(L[g]) \cap ToSet(L[h]) = {}
      /\ \A x \in E : OffAll(H, L, x) => mem.next[x] = x /\ mem.prev[x] = x
      /\ \A y \in N \ (H \cup E) : mem.next[y] = NULL
  BY DEF Listed
<1>2. /\ r \in Mem(N)
      /\ \A y \in N : /\ r.next[y] = IF y = z THEN z ELSE mem.next[y]
                      /\ r.prev[y] = IF y = z THEN z ELSE mem.prev[y]
  <2>1. mem \in Mem(N) /\ z \in N
    BY <1>1
  <2> QED
    BY <2>1, SelfLink
<1> HIDE DEF r
<1>3. G \subseteq N /\ G \cap E = {}
  BY <1>1
<1>4. \A g \in H : L[g] \in Seq(E) /\ ToSet(L[g]) \subseteq E
  BY ListedEach
<1>5. <<>> \in Seq(E) /\ ToSet(<<>>) = {}
  BY EmptyQueue
<1>6. M \in [G -> Seq(E)]
  BY <1>4, <1>5
<1>7. M[z] = <<>> /\ \A g \in G : g # z => M[g] = L[g] /\ g \in H
  OBVIOUS
<1> HIDE DEF M
<1>8. ASSUME NEW g \in G
      PROVE  Ring(N, g, M[g]) /\ Circle(r, g, M[g])
  <2>1. CASE g = z
    BY <2>1, <1>2, <1>7, EmptyRing
  <2>2. CASE g # z
    <3>1. M[g] = L[g] /\ g \in H /\ z \notin ToSet(L[g])
      BY <2>2, <1>4, <1>7
    <3>2. Circle(r, g, L[g])
      BY <3>1, <2>2, <1>2, ListedKeep
    <3> QED
      BY <3>1, <3>2 DEF Listed
  <2> QED
    BY <2>1, <2>2
<1>9. \A g, h \in G : g # h => ToSet(M[g]) \cap ToSet(M[h]) = {}
  BY <1>1, <1>5, <1>7
<1>10. \A x \in E : OffAll(G, M, x) => r.next[x] = x /\ r.prev[x] = x
  <2> SUFFICES ASSUME NEW x \in E, OffAll(G, M, x)
               PROVE  r.next[x] = x /\ r.prev[x] = x
    OBVIOUS
  <2>1. \A g \in H : x \notin ToSet(L[g])
    <3> TAKE g \in H
    <3>1. CASE g = z
      BY <3>1, <1>5
    <3>2. CASE g # z
      BY <3>2, <1>7 DEF OffAll
    <3> QED
      BY <3>1, <3>2
  <2> QED
    BY <2>1, <1>1, <1>2 DEF OffAll
<1>11. \A y \in N \ (G \cup E) : r.next[y] = NULL
  BY <1>1, <1>2
<1> HIDE DEF G
<1>12. Listed(N, G, E, r, M)
  BY <1>1, <1>2, <1>3, <1>6, <1>8, <1>9, <1>10, <1>11 DEF Listed
<1> QED
  BY <1>12 DEF G, M, r

(* INIT_LIST_HEAD makes a node an entry in no list.                        *)
LEMMA ListedInitEntry ==
  ASSUME NEW N, NEW H, NEW E, NEW mem, NEW L, Listed(N, H, E, mem, L),
         NEW x \in N \ H, OffAll(H, L, x)
  PROVE  Listed(N, H, E \cup {x}, INIT_LIST_HEAD(mem, x), L)
<1> DEFINE r == INIT_LIST_HEAD(mem, x)
           A == E \cup {x}
<1>1. /\ IsFiniteSet(N) /\ NULL \notin N
      /\ H \subseteq N /\ E \subseteq N /\ H \cap E = {}
      /\ mem \in Mem(N) /\ L \in [H -> Seq(E)]
      /\ \A g, h \in H : g # h => ToSet(L[g]) \cap ToSet(L[h]) = {}
      /\ \A y \in E : OffAll(H, L, y) => mem.next[y] = y /\ mem.prev[y] = y
      /\ \A y \in N \ (H \cup E) : mem.next[y] = NULL
  BY DEF Listed
<1>2. /\ r \in Mem(N)
      /\ \A y \in N : /\ r.next[y] = IF y = x THEN x ELSE mem.next[y]
                      /\ r.prev[y] = IF y = x THEN x ELSE mem.prev[y]
  <2>1. mem \in Mem(N) /\ x \in N
    BY <1>1
  <2> QED
    BY <2>1, SelfLink
<1> HIDE DEF r
<1>3. \A g \in H : L[g] \in Seq(E)
  BY <1>1
<1>4. L \in [H -> Seq(A)]
  <2>1. \A s : s \in Seq(E) => s \in Seq(A)
    OBVIOUS
  <2> QED
    BY <2>1, <1>1, <1>3
<1>5. A \subseteq N /\ H \cap A = {}
  BY <1>1
<1>6. \A g \in H : Ring(N, g, L[g]) /\ Circle(r, g, L[g])
  <2> TAKE g \in H
  <2>1. x # g /\ x \notin ToSet(L[g]) /\ x \in N
    BY DEF OffAll
  <2>2. \A y \in N : y # x => r.next[y] = mem.next[y] /\ r.prev[y] = mem.prev[y]
    BY <1>2
  <2>3. Circle(r, g, L[g])
    BY <2>1, <2>2, ListedKeep
  <2> QED
    BY <2>3 DEF Listed
<1>7. \A y \in A : OffAll(H, L, y) => r.next[y] = y /\ r.prev[y] = y
  BY <1>1, <1>2
<1>8. \A y \in N \ (H \cup A) : r.next[y] = NULL
  BY <1>1, <1>2
<1> HIDE DEF A
<1>9. Listed(N, H, A, r, L)
  BY <1>1, <1>2, <1>4, <1>5, <1>6, <1>7, <1>8 DEF Listed
<1> QED
  BY <1>9 DEF A, r

(* An entry links to itself exactly when no list has it.                   *)
LEMMA ListedSelf ==
  ASSUME NEW N, NEW H, NEW E, NEW mem, NEW L, Listed(N, H, E, mem, L), NEW x \in E
  PROVE  /\ mem.next[x] = x <=> OffAll(H, L, x)
         /\ mem.next[x] \in N /\ mem.prev[x] \in N
         /\ mem.prev[mem.next[x]] = x
<1>1. E \subseteq N /\ mem \in Mem(N) /\ H \cap E = {}
  BY DEF Listed
<1>2. CASE OffAll(H, L, x)
  BY <1>1, <1>2 DEF Listed
<1>3. CASE ~ OffAll(H, L, x)
  <2>1. PICK h \in H : x \in ToSet(L[h])
    BY <1>3 DEF OffAll
  <2> DEFINE s == L[h]
  <2>2. Ring(N, h, s) /\ Circle(mem, h, s) /\ h \in N /\ h \notin E
    BY DEF Listed
  <2>3. PICK k \in 1 .. Len(s) : s[k] = x
    BY <2>1, ListedPlace
  <2> HIDE DEF s
  <2>4. /\ Len(s) \in Nat
        /\ \A i \in 0 .. Len(s) + 1 : At(h, s, i) \in N
        /\ \A i, j \in 0 .. Len(s) : At(h, s, i) = At(h, s, j) => i = j
        /\ \A i, j \in 1 .. Len(s) + 1 : At(h, s, i) = At(h, s, j) => i = j
        /\ \A i \in 1 .. Len(s) : At(h, s, i) = s[i]
    BY <2>2, RingFacts
  <2> DEFINE n == Len(s)
             j == k - 1
  <2>5. /\ n \in Nat /\ k \in 1 .. n /\ k \in 0 .. n /\ k \in 0 .. n + 1 /\ k + 1 \in 0 .. n + 1
        /\ k + 1 \in 1 .. n + 1 /\ k \in 1 .. n + 1 /\ k # k + 1
        /\ j \in 0 .. n /\ j \in 0 .. n + 1 /\ j + 1 = k
    <3>1. n \in Nat /\ k \in 1 .. n
      BY <2>3, <2>4
    <3> HIDE DEF n
    <3> QED
      BY <3>1
  <2> HIDE DEF n, j
  <2>6. mem.next[At(h, s, k)] = At(h, s, k + 1) /\ mem.prev[At(h, s, k + 1)] = At(h, s, k)
    BY <2>2, <2>5 DEF Circle, n
  <2>7. mem.prev[At(h, s, j + 1)] = At(h, s, j)
    BY <2>2, <2>5 DEF Circle, n
  <2>8. At(h, s, k) = x
    BY <2>3, <2>4
  <2>9. mem.next[x] \in N /\ mem.prev[x] \in N
    BY <2>4, <2>5, <2>6, <2>7, <2>8 DEF n
  <2>10. At(h, s, k + 1) # At(h, s, k)
    BY <2>4, <2>5 DEF n
  <2> QED
    BY <2>6, <2>8, <2>9, <2>10, <1>3
<1> QED
  BY <1>2, <1>3

(* The lists without x.                                                    *)
TakenOut(H, L, x) == [g \in H |-> RemoveFirst(L[g], x)]

(* The head of a sequence without repetitions is the first to be removed.  *)
LEMMA HeadIndex ==
  ASSUME NEW X, NEW s \in Seq(X), s # <<>>, \A i, j \in 1 .. Len(s) : s[i] = s[j] => i = j
  PROVE  RemoveFirst(s, Head(s)) = Tail(s) /\ Head(s) \in ToSet(s) /\ Head(s) \in X /\ Tail(s) \in Seq(X)
<1> DEFINE t == RemoveAt(s, 1)
           u == Tail(s)
           n == Len(s)
<1>1. n \in Nat /\ 1 \in 1 .. n /\ Head(s) = s[1] /\ Head(s) \in X
  OBVIOUS
<1>2. RemoveFirst(s, s[1]) = t
  BY <1>1, RemoveFirstAt
<1>3. t \in Seq(X) /\ Len(t) = n - 1 /\ \A i \in 1 .. n - 1 : t[i] = IF i < 1 THEN s[i] ELSE s[i + 1]
  <2> DEFINE k == 1
  <2>1. k \in 1 .. Len(s)
    BY <1>1
  <2> HIDE DEF k
  <2>2. RemoveAt(s, k) \in Seq(X) /\ Len(RemoveAt(s, k)) = Len(s) - 1
          /\ \A i \in 1 .. Len(s) - 1 : RemoveAt(s, k)[i] = IF i < k THEN s[i] ELSE s[i + 1]
    BY <2>1, RemoveAtIndex
  <2> QED
    BY <2>2 DEF k
<1>4. u \in Seq(X) /\ Len(u) = n - 1 /\ \A i \in 1 .. n - 1 : u[i] = s[i + 1]
  OBVIOUS
<1> HIDE DEF t, u, n
<1>5. \A i \in 1 .. n - 1 : t[i] = u[i]
  BY <1>1, <1>3, <1>4
<1>6. t = u
  BY <1>3, <1>4, <1>5
<1>7. s[1] \in ToSet(s)
  BY <1>1 DEF ToSet, n
<1> QED
  BY <1>1, <1>2, <1>4, <1>6, <1>7 DEF u

(* What is not in a list need not be taken from it.                        *)
LEMMA TakenOff ==
  ASSUME NEW N, NEW H, NEW E, NEW mem, NEW L, Listed(N, H, E, mem, L), NEW x, OffAll(H, L, x)
  PROVE  TakenOut(H, L, x) = L
<1>1. \A g \in H : DOMAIN L[g] = 1 .. Len(L[g]) /\ x \notin ToSet(L[g])
  BY ListedEach DEF OffAll
<1>2. \A g \in H : RemoveFirst(L[g], x) = L[g]
  BY <1>1, RemoveFirstNone
<1> QED
  BY <1>2 DEF TakenOut, Listed

(* list_delete_safe takes an entry off the list it is in, if any: the      *)
(* second time, nothing changes.                                           *)
LEMMA ListedTaken ==
  ASSUME NEW N, NEW H, NEW E, NEW mem, NEW L, Listed(N, H, E, mem, L), NEW x \in E
  PROVE  /\ Listed(N, H, E, list_delete_safe(mem, x), TakenOut(H, L, x))
         /\ OffAll(H, TakenOut(H, L, x), x)
         /\ TakenOut(H, TakenOut(H, L, x), x) = TakenOut(H, L, x)
         /\ \A g \in H : /\ TakenOut(H, L, x)[g] = RemoveFirst(L[g], x)
                         /\ ToSet(TakenOut(H, L, x)[g]) = ToSet(L[g]) \ {x}
         /\ \A g \in H : x \notin ToSet(L[g]) => TakenOut(H, L, x)[g] = L[g]
<1>1. Listed(N, H, E, list_delete_safe(mem, x), TakenOut(H, L, x))
  BY ListedDelete DEF TakenOut
<1>2. \A g \in H : L[g] \in Seq(E) /\ IsInjective(L[g]) /\ DOMAIN L[g] = 1 .. Len(L[g])
  BY ListedEach
<1>3. \A g \in H : ToSet(RemoveFirst(L[g], x)) = ToSet(L[g]) \ {x}
  BY <1>2, RemoveFirstQueue
<1>4. \A g \in H : x \notin ToSet(L[g]) => RemoveFirst(L[g], x) = L[g]
  BY <1>2, RemoveFirstNone
<1>5. OffAll(H, TakenOut(H, L, x), x)
  BY <1>3 DEF OffAll, TakenOut
<1>6. TakenOut(H, TakenOut(H, L, x), x) = TakenOut(H, L, x)
  <2> DEFINE r == list_delete_safe(mem, x)
             M == TakenOut(H, L, x)
  <2>1. Listed(N, H, E, r, M) /\ OffAll(H, M, x)
    BY <1>1, <1>5
  <2> HIDE DEF r, M
  <2>2. TakenOut(H, M, x) = M
    BY <2>1, TakenOff
  <2> QED
    BY <2>2 DEF M
<1>7. \A g \in H : TakenOut(H, L, x)[g] = RemoveFirst(L[g], x)
  BY DEF TakenOut
<1> QED
  BY <1>1, <1>3, <1>4, <1>5, <1>6, <1>7

(* An entry of one list is taken from it.                                  *)
LEMMA TakenFrom ==
  ASSUME NEW N, NEW H, NEW E, NEW mem, NEW L, Listed(N, H, E, mem, L), NEW h \in H,
         NEW x \in ToSet(L[h])
  PROVE  TakenOut(H, L, x) = [L EXCEPT ![h] = RemoveFirst(L[h], x)]
<1>1. \A g \in H : g # h => x \notin ToSet(L[g])
  BY ZenonT(40), ListedPlace
<1>2. \A g \in H : DOMAIN L[g] = 1 .. Len(L[g])
  BY ListedEach
<1>3. \A g \in H : g # h => RemoveFirst(L[g], x) = L[g]
  BY <1>1, <1>2, RemoveFirstNone
<1> DEFINE t == RemoveFirst(L[h], x)
<1>4. TakenOut(H, L, x)[h] = t /\ \A g \in H : g # h => TakenOut(H, L, x)[g] = L[g]
  BY <1>3 DEF TakenOut
<1>5. L \in [H -> Seq(E)]
  BY DEF Listed
<1> HIDE DEF t
<1>6. TakenOut(H, L, x) = [g \in H |-> IF g = h THEN t ELSE L[g]]
  <2>1. \A g \in H : TakenOut(H, L, x)[g] = IF g = h THEN t ELSE L[g]
    BY <1>4
  <2>2. TakenOut(H, L, x) = [g \in H |-> TakenOut(H, L, x)[g]]
    BY DEF TakenOut
  <2> HIDE DEF TakenOut
  <2> QED
    BY <2>1, <2>2
<1>7. TakenOut(H, L, x) = [L EXCEPT ![h] = t]
  BY <1>5, <1>6
<1> QED
  BY <1>7 DEF t

(* The first entry is taken.                                               *)
LEMMA ListedPop ==
  ASSUME NEW N, NEW H, NEW E, NEW mem, NEW L, Listed(N, H, E, mem, L), NEW h \in H, L[h] # <<>>
  PROVE  /\ mem.next[h] = Head(L[h]) /\ Head(L[h]) \in E /\ Head(L[h]) \in ToSet(L[h])
         /\ RemoveFirst(L[h], Head(L[h])) = Tail(L[h])
         /\ Tail(L[h]) \in Seq(E)
<1> DEFINE s == L[h]
<1>1. s \in Seq(E) /\ IsInjective(s) /\ DOMAIN s = 1 .. Len(s) /\ mem.next[h] = Head(s)
  BY ListedFacts
<1>2. s # <<>>
  OBVIOUS
<1> HIDE DEF s
<1>3. \A i, j \in 1 .. Len(s) : s[i] = s[j] => i = j
  BY <1>1 DEF IsInjective
<1>4. RemoveFirst(s, Head(s)) = Tail(s) /\ Head(s) \in ToSet(s) /\ Head(s) \in E /\ Tail(s) \in Seq(E)
  BY <1>1, <1>2, <1>3, HeadIndex
<1> QED
  BY <1>1, <1>4 DEF s

SetAt(f, s, t) == [f EXCEPT ![s] = t]

(* Deleting the first entry of a list pops it.                             *)
LEMMA ListedPopped ==
  ASSUME NEW N, NEW H, NEW E, NEW mem, NEW L, Listed(N, H, E, mem, L), NEW h \in H, L[h] # <<>>
  PROVE  /\ TakenOut(H, L, Head(L[h])) = SetAt(L, h, Tail(L[h]))
         /\ Listed(N, H, E, list_delete_safe(mem, Head(L[h])), SetAt(L, h, Tail(L[h])))
<1> DEFINE x == Head(L[h])
<1>1. x \in E /\ x \in ToSet(L[h]) /\ RemoveFirst(L[h], x) = Tail(L[h])
  BY ListedPop
<1> HIDE DEF x
<1>2. TakenOut(H, L, x) = [L EXCEPT ![h] = RemoveFirst(L[h], x)]
  <2>1. x \in ToSet(L[h])
    BY <1>1
  <2> QED
    BY <2>1, TakenFrom
<1>3. Listed(N, H, E, list_delete_safe(mem, x), TakenOut(H, L, x))
  BY <1>1, ListedTaken
<1>4. TakenOut(H, L, x) = SetAt(L, h, Tail(L[h]))
  BY <1>1, <1>2 DEF SetAt
<1> QED
  BY <1>3, <1>4 DEF x

(* An insertion writes both links of what it inserts.                      *)
LEMMA InsertDeleted ==
  ASSUME NEW N, NEW mem \in Mem(N), NEW x \in N, mem.next[x] \in N, mem.prev[x] \in N,
         NEW h \in N, h # x, list_delete_safe(mem, x).prev[h] \in N
  PROVE  list_add_tail(list_del(mem, x), x, h) = list_add_tail(list_delete_safe(mem, x), x, h)
<1> DEFINE d == __list_del_entry(mem, x)
           a == list_del(mem, x)
           r == list_delete_safe(mem, x)
           p == r.prev[h]
<1>1. /\ r \in Mem(N) /\ d \in Mem(N)
      /\ \A y \in N : /\ r.next[y] = IF y = x THEN x ELSE d.next[y]
                      /\ r.prev[y] = IF y = x THEN x ELSE d.prev[y]
  BY SafeLinks
<1> DEFINE e == [d EXCEPT !.next[x] = NULL, !.prev[x] = NULL]
<1>2. a = e
  BY DEF list_del
<1>3. p \in N
  OBVIOUS
<1> HIDE DEF d, r, a
<1>9. /\ e \in Mem(N)
      /\ \A y \in N : /\ e.next[y] = IF y = x THEN NULL ELSE d.next[y]
                      /\ e.prev[y] = IF y = x THEN NULL ELSE d.prev[y]
  BY <1>1 DEF Mem
<1> HIDE DEF e
<1>4. /\ a \in Mem(N)
      /\ \A y \in N : /\ a.next[y] = IF y = x THEN NULL ELSE d.next[y]
                      /\ a.prev[y] = IF y = x THEN NULL ELSE d.prev[y]
  BY <1>2, <1>9
<1>5. a.prev[h] = p
  BY <1>1, <1>4
<1> HIDE DEF p
<1> DEFINE u == __list_add(a, x, p, h)
           v == __list_add(r, x, p, h)
<1>6. /\ u \in Mem(N)
      /\ \A y \in N : /\ u.next[y] = IF y = p THEN x ELSE IF y = x THEN h ELSE a.next[y]
                      /\ u.prev[y] = IF y = x THEN p ELSE IF y = h THEN x ELSE a.prev[y]
  BY <1>3, <1>4, LinkBetween
<1>7. /\ v \in Mem(N)
      /\ \A y \in N : /\ v.next[y] = IF y = p THEN x ELSE IF y = x THEN h ELSE r.next[y]
                      /\ v.prev[y] = IF y = x THEN p ELSE IF y = h THEN x ELSE r.prev[y]
  BY <1>1, <1>3, LinkBetween
<1>8. u = v
  <2> HIDE DEF u, v
  <2>1. \A y \in N : u.next[y] = v.next[y] /\ u.prev[y] = v.prev[y]
    BY <1>1, <1>4, <1>6, <1>7
  <2> QED
    BY <1>6, <1>7, <2>1, SameMemory
<1> QED
  BY <1>5, <1>8 DEF list_add_tail, a, r, p

(* An entry moves to the end of a list.                                    *)
LEMMA ListedMove ==
  ASSUME NEW N, NEW H, NEW E, NEW mem, NEW L, Listed(N, H, E, mem, L), NEW x \in E, NEW h \in H
  PROVE  /\ Listed(N, H, E, list_add_tail(list_delete_safe(mem, x), x, h),
                   [TakenOut(H, L, x) EXCEPT ![h] = Append(RemoveFirst(L[h], x), x)])
         /\ list_add_tail(list_del(mem, x), x, h) = list_add_tail(list_delete_safe(mem, x), x, h)
<1> DEFINE r == list_delete_safe(mem, x)
           M == TakenOut(H, L, x)
<1>1. Listed(N, H, E, r, M) /\ OffAll(H, M, x) /\ M[h] = RemoveFirst(L[h], x)
  BY ListedTaken
<1>2. mem \in Mem(N) /\ E \subseteq N /\ H \subseteq N /\ H \cap E = {}
  BY DEF Listed
<1>3. mem.next[x] \in N /\ mem.prev[x] \in N
  BY ListedSelf
<1>4. r.prev[h] \in N
  <2> HIDE DEF r, M
  <2> DEFINE s == M[h]
  <2>1. Ring(N, h, s) /\ Circle(r, h, s) /\ r \in Mem(N)
    BY <1>1 DEF Listed
  <2> HIDE DEF s
  <2>2. r.prev[h] = IF Len(s) = 0 THEN h ELSE s[Len(s)]
    BY <2>1, CircleLinks
  <2>3. Len(s) \in Nat /\ \A i \in 1 .. Len(s) : s[i] \in N
    BY <2>1, CircleLinks DEF Ring
  <2>4. Len(s) # 0 => Len(s) \in 1 .. Len(s)
    BY <2>3
  <2> QED
    BY <2>2, <2>3, <2>4, <1>2
<1>5. list_add_tail(list_del(mem, x), x, h) = list_add_tail(list_delete_safe(mem, x), x, h)
  <2>1. h \in N /\ h # x /\ x \in N
    BY <1>2
  <2> QED
    BY <1>2, <1>3, <1>4, <2>1, InsertDeleted
<1>6. Listed(N, H, E, list_add_tail(r, x, h), [M EXCEPT ![h] = Append(M[h], x)])
  <2>1. x \in N \ H /\ E \cup {x} = E
    BY <1>2
  <2> HIDE DEF r, M
  <2>2. Listed(N, H, E \cup {x}, list_add_tail(r, x, h), [M EXCEPT ![h] = Append(M[h], x)])
    BY <1>1, <2>1, ListedAddTail
  <2> QED
    BY <2>1, <2>2
<1> QED
  BY <1>1, <1>5, <1>6

(* An entry moves to the front of a list, whether or not it is deleted     *)
(* when it is in none.                                                     *)
LEMMA SelfDeleted ==
  ASSUME NEW N, NEW H, NEW E, NEW mem, NEW L, Listed(N, H, E, mem, L), NEW x \in E,
         mem.next[x] = x
  PROVE  list_delete_safe(mem, x) = mem
<1> DEFINE r == list_delete_safe(mem, x)
           d == __list_del_entry(mem, x)
<1>1. mem \in Mem(N) /\ E \subseteq N /\ H \subseteq N /\ H \cap E = {}
  BY DEF Listed
<1>2. mem.prev[x] = x /\ x \in N
  BY <1>1, ListedSelf
<1>3. /\ r \in Mem(N)
      /\ \A y \in N : /\ r.next[y] = IF y = x THEN x ELSE d.next[y]
                      /\ r.prev[y] = IF y = x THEN x ELSE d.prev[y]
      /\ \A y \in N : /\ d.next[y] = IF y = mem.prev[x] THEN mem.next[x] ELSE mem.next[y]
                      /\ d.prev[y] = IF y = mem.next[x] THEN mem.prev[x] ELSE mem.prev[y]
  BY <1>1, <1>2, SafeLinks
<1> HIDE DEF r, d
<1>4. \A y \in N : r.next[y] = mem.next[y] /\ r.prev[y] = mem.prev[y]
  BY <1>2, <1>3
<1>5. r = mem
  BY <1>1, <1>3, <1>4, SameMemory
<1> QED
  BY <1>5 DEF r

(* An entry moves to the front of a list, as freePcb and free_semd_ifempty *)
(* have it.                                                                *)
LEMMA ListedFront ==
  ASSUME NEW N, NEW H, NEW E, NEW mem, NEW L, Listed(N, H, E, mem, L), NEW x \in E, NEW h \in H
  PROVE  Listed(N, H, E, list_add(list_delete_safe(mem, x), x, h),
                [TakenOut(H, L, x) EXCEPT ![h] = <<x>> \o RemoveFirst(L[h], x)])
<1> DEFINE r == list_delete_safe(mem, x)
           M == TakenOut(H, L, x)
<1>1. Listed(N, H, E, r, M) /\ OffAll(H, M, x) /\ M[h] = RemoveFirst(L[h], x)
  BY ListedTaken
<1>2. E \subseteq N /\ H \subseteq N /\ H \cap E = {}
  BY DEF Listed
<1>3. Listed(N, H, E, list_add(r, x, h), [M EXCEPT ![h] = <<x>> \o M[h]])
  <2>1. x \in N \ H /\ E \cup {x} = E
    BY <1>2
  <2> HIDE DEF r, M
  <2>2. Listed(N, H, E \cup {x}, list_add(r, x, h), [M EXCEPT ![h] = <<x>> \o M[h]])
    BY <1>1, <2>1, ListedAdd
  <2> QED
    BY <2>1, <2>2
<1> QED
  BY <1>1, <1>3

(* The nodes of the buckets are the hashed ones.                           *)
LEMMA HHashed ==
  ASSUME NEW B, NEW E, HSets(B, E), NEW mem, NEW L, Strands(B, E, mem, L, {})
  PROVE  /\ \A n \in E : ~ hlist_unhashed(mem, n) <=> InSome(L, B, n)
         /\ \A h \in B : /\ L[h] \in Seq(E) /\ ToSet(L[h]) \subseteq E /\ IsInjective(L[h])
                         /\ Len(L[h]) \in Nat /\ DOMAIN L[h] = 1 .. Len(L[h])
                         /\ hlist_for_each(mem, h) = L[h]
                         /\ mem.next[h] = NULL <=> L[h] = <<>>
         /\ \A n \in E : InSome(L, B, n) <=> \E h \in B : n \in ToSet(L[h])
         /\ \A g, h \in B : g # h => ToSet(L[g]) \cap ToSet(L[h]) = {}
         /\ L = [h \in B |-> hlist_for_each(mem, h)]
<1>1. \A h \in B : L[h] \in Seq(E) /\ Len(L[h]) \in Nat /\ DOMAIN L[h] = 1 .. Len(L[h])
  BY DEF Strands
<1>2. \A h \in B : hlist_for_each(mem, h) = L[h] /\ (mem.next[h] = NULL <=> L[h] = <<>>)
  BY HWalk
<1>3. \A h \in B : ToSet(L[h]) \subseteq E
  BY <1>1 DEF ToSet
<1>4. \A h \in B : IsInjective(L[h])
  BY <1>1 DEF Strands, Apart, IsInjective
<1>5. \A n \in E : InSome(L, B, n) <=> \E h \in B : n \in ToSet(L[h])
  BY <1>1 DEF InSome, ToSet
<1>6. \A g, h \in B : g # h => ToSet(L[g]) \cap ToSet(L[h]) = {}
  BY <1>1 DEF Strands, Apart, ToSet
<1>7. L = [h \in B |-> hlist_for_each(mem, h)]
  BY <1>2 DEF Strands
<1>8. ASSUME NEW n \in E, InSome(L, B, n)
      PROVE  ~ hlist_unhashed(mem, n)
  <2>3. PICK h \in B : \E i \in 1 .. Len(L[h]) : L[h][i] = n
    BY <1>8 DEF InSome
  <2>1. PICK k \in 1 .. Len(L[h]) : L[h][k] = n
    BY <2>3
  <2>2. mem.pprev[L[h][k]] = HAt(h, L[h], k - 1) /\ HAt(h, L[h], k - 1) # NULL
    BY HPlaceLinks
  <2> QED
    BY <2>1, <2>2 DEF hlist_unhashed
<1>9. ASSUME NEW n \in E, ~ InSome(L, B, n)
      PROVE  hlist_unhashed(mem, n)
  BY <1>9 DEF Strands, Alone, hlist_unhashed
<1> QED
  BY <1>1, <1>2, <1>3, <1>4, <1>5, <1>6, <1>7, <1>8, <1>9

(* A node in no bucket is added at the front of one.                       *)
LEMMA HashAdd ==
  ASSUME NEW B, NEW E, HSets(B, E), NEW mem, NEW L, Strands(B, E, mem, L, {}),
         NEW n \in E, ~ InSome(L, B, n), NEW h \in B
  PROVE  Strands(B, E, hlist_add_head(INIT_HLIST_NODE(mem, n), n, h),
                 [L EXCEPT ![h] = <<n>> \o L[h]], {})
<1> DEFINE i == INIT_HLIST_NODE(mem, n)
           r == hlist_add_head(mem, n, h)
           s == L[h]
           c == 0
           t == InsertAt(s, c + 1, n)
           M == [L EXCEPT ![h] = t]
<1>1. mem \in HMem(B, E) /\ L \in [B -> Seq(E)] /\ mem.next[n] = NULL /\ mem.pprev[n] = NULL
  BY DEF Strands, Alone
<1>2. i = mem
  <2>1. mem.next = [mem.next EXCEPT ![n] = NULL] /\ mem.pprev = [mem.pprev EXCEPT ![n] = NULL]
    BY <1>1 DEF HMem, HNode
  <2>2. mem = [mem EXCEPT !.next = [mem.next EXCEPT ![n] = NULL],
                          !.pprev = [mem.pprev EXCEPT ![n] = NULL]]
    BY <1>1, <2>1 DEF HMem
  <2> QED
    BY <2>2 DEF INIT_HLIST_NODE
<1>3. /\ s \in Seq(E) /\ Len(s) \in Nat /\ HAt(h, s, 0) = h
      /\ \A k \in 1 .. Len(s) : InSome(L, B, s[k])
      /\ HAt(h, s, Len(s) + 1) = NULL
      /\ \A k \in 1 .. Len(s) : HAt(h, s, k) = s[k]
  BY HPlaces
<1>4. mem.next[h] # n
  <2>1. Strand(mem, h, s) /\ n # NULL
    BY DEF Strands, HSets
  <2> HIDE DEF s
  <2>2. 0 \in 0 .. Len(s) /\ (Len(s) = 0 \/ 1 \in 1 .. Len(s))
    BY <1>3
  <2>3. mem.next[HAt(h, s, 0)] = HAt(h, s, 0 + 1)
    BY <2>1, <2>2 DEF Strand
  <2> QED
    BY <2>1, <2>2, <2>3, <1>3
<1>5. HLinkedIn(B, E, mem, r, n, h)
  BY <1>1, <1>4, HAddHead
<1>6. c \in 0 .. Len(L[h]) /\ HAt(h, L[h], c) = h
  BY <1>3
<1> HIDE DEF c, i, r
<1>7. s = L[h] /\ s \in Seq(E)
  BY <1>3
<1>8. t \in Seq(E)
  <2> HIDE DEF s
  <2>1. c \in 0 .. Len(s)
    BY <1>6 DEF s
  <2> QED
    BY <1>7, <2>1, InsertBehind
<1>9. HChanged(B, E, L, M, Only(h)) /\ M[h] = t
  <2> HIDE DEF t
  <2> QED
    BY <1>1, <1>8, HSetList
<1>10. Strands(B, E, r, M, {})
  <2>1. n \notin {} /\ M[h] = InsertAt(L[h], c + 1, n) /\ HLinkedIn(B, E, mem, r, n, HAt(h, L[h], c))
    BY <1>5, <1>6, <1>9
  <2> HIDE DEF M, t
  <2> QED
    BY <2>1, <1>6, <1>9, HInsertStrand
<1>11. <<n>> \o s = t
  <2>1. <<n>> \o s = InsertAt(s, 1, n)
    BY <1>3, PrependIndex
  <2>2. c + 1 = 1
    BY DEF c
  <2> QED
    BY <2>1, <2>2
<1> QED
  BY <1>2, <1>10, <1>11 DEF i, r

(* A node is deleted from its bucket.                                      *)
LEMMA HashDel ==
  ASSUME NEW B, NEW E, HSets(B, E), NEW mem, NEW L, Strands(B, E, mem, L, {}),
         NEW h \in B, NEW n \in ToSet(L[h])
  PROVE  Strands(B, E, hlist_del_init(mem, n), [L EXCEPT ![h] = RemoveFirst(L[h], n)], {})
<1> DEFINE s == L[h]
           r == hlist_del(mem, n)
<1>1. /\ s \in Seq(E) /\ ToSet(s) \subseteq E /\ IsInjective(s) /\ DOMAIN s = 1 .. Len(s)
      /\ n \in E /\ InSome(L, B, n) /\ ~ hlist_unhashed(mem, n)
  BY HHashed
<1>2. mem \in HMem(B, E) /\ L \in [B -> Seq(E)]
  BY DEF Strands
<1>3. PICK k \in 1 .. Len(s) : s[k] = n
  BY <1>1 DEF ToSet
<1> DEFINE t == RemoveAt(s, k)
           M == [L EXCEPT ![h] = t]
<1>4. hlist_del_init(mem, n) = r
  BY <1>1 DEF hlist_del_init, hlist_del
<1>5. HLinkedOut(B, E, mem, r, n)
  BY <1>1, <1>2, HDel DEF hlist_unhashed
<1>6. t \in Seq(E)
  BY <1>1, RemoveAtIndex
<1> HIDE DEF r
<1>7. HChanged(B, E, L, M, Only(h)) /\ M[h] = t
  <2> HIDE DEF t
  <2> QED
    BY <1>2, <1>6, HSetList
<1>8. Strands(B, E, r, M, {})
  <2>1. k \in 1 .. Len(L[h]) /\ n = L[h][k] /\ M[h] = RemoveAt(L[h], k)
    BY <1>3, <1>7
  <2> HIDE DEF M, t, s
  <2> QED
    BY <1>5, <1>7, <2>1, HRemoveStrand
<1>9. RemoveFirst(s, n) = t
  <2>1. \A i, j \in 1 .. Len(s) : s[i] = s[j] => i = j
    BY <1>1 DEF IsInjective
  <2> HIDE DEF s, t
  <2>2. RemoveFirst(s, s[k]) = RemoveAt(s, k)
    BY <1>1, <1>3, <2>1, RemoveFirstAt DEF s
  <2> QED
    BY <1>3, <2>2 DEF t, s
<1> QED
  BY <1>4, <1>8, <1>9
=============================================================================
